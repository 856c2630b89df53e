---------------------------- MODULE MCComponents ----------------------------
(***************************************************************************)
(* The components that share no state, each on its own: session discovery  *)
(* with the start loop and one caller of poll, a reader and a subscriber   *)
(* of the relayer, the in-memory transport, the archiving run and the      *)
(* review of an action, and the in-process trace guard called with the     *)
(* current time.  part says which of them moves; the others stay as they   *)
(* began, so that the state spaces add up instead of multiplying.          *)
(***************************************************************************)
EXTENDS SessionDiscovery, SessionTransport, MemoryTransport, AuditArchive, MCActionReview,
        LocalTraceGuard

CONSTANTS g1, agent, other, user, loop, s1, s2, junk, nobody, reader, subscriber, c1, c2, h1, h2, a1, a2

VARIABLE part

componentVars == <<part, discoveryVars, transportVars, memoryVars, archiveVars, reviewVars,
                   localVars>>

WithoutRevocations == <<"member_added", "member_removed", "permissions_granted">>

Parts == {"discovery", "reader", "subscriber", "memory", "archive", "review", "guard"}

ComponentsInit == /\ part \in Parts
                  /\ DiscoveryInit /\ TransportInit /\ MemoryInit /\ ArchiveInit /\ ReviewInit
                  /\ LocalInit
                  /\ part # "archive" => provider = "local"
                  /\ part # "guard" => now = 0

SomebodySends == \E text \in Sessions \cup {NoEnvelope} : Send(text)

DiscoveryPart ==
    /\ part = "discovery" /\ DiscoveryNext
    /\ UNCHANGED <<part, transportVars, memoryVars, archiveVars, reviewVars, localVars>>
ReaderPart ==
    /\ part = "reader" /\ (SomebodySends \/ ReaderNext)
    /\ UNCHANGED <<part, discoveryVars, memoryVars, archiveVars, reviewVars, localVars>>
SubscriberPart ==
    /\ part = "subscriber" /\ (SomebodySends \/ SubscriberNext)
    /\ UNCHANGED <<part, discoveryVars, memoryVars, archiveVars, reviewVars, localVars>>
MemoryPart ==
    /\ part = "memory" /\ MemoryNext
    /\ UNCHANGED <<part, discoveryVars, transportVars, archiveVars, reviewVars, localVars>>
ArchivePart ==
    /\ part = "archive" /\ ArchiveNext
    /\ UNCHANGED <<part, discoveryVars, transportVars, memoryVars, reviewVars, localVars>>
ReviewPart ==
    /\ part = "review" /\ ReviewNext
    /\ UNCHANGED <<part, discoveryVars, transportVars, memoryVars, archiveVars, localVars>>
GuardPart ==
    /\ part = "guard" /\ LocalNext
    /\ UNCHANGED <<part, discoveryVars, transportVars, memoryVars, archiveVars, reviewVars>>

ComponentsNext == DiscoveryPart \/ ReaderPart \/ SubscriberPart \/ MemoryPart \/ ArchivePart
                  \/ ReviewPart \/ GuardPart

\* Each component's own fairness, while it is the one that moves: what the loop,
\* the reader, the subscriber or the script does next it does in the end.
moving == <<discoveryVars, transportVars, archiveVars>>
GoesOn == \/ part = "discovery" /\ LoopStep /\ UNCHANGED <<transportVars, archiveVars>>
          \/ /\ part = "reader" /\ \E r \in Readers : ReaderGoesOn(r)
             /\ UNCHANGED <<discoveryVars, archiveVars>>
          \/ /\ part = "subscriber" /\ \E s \in Subscribers : StreamGoesOn(s)
             /\ UNCHANGED <<discoveryVars, archiveVars>>
          \/ part = "archive" /\ RunStep /\ UNCHANGED <<discoveryVars, transportVars>>

ComponentsFairness ==
    /\ WF_moving(GoesOn)
    /\ \A p \in Callers : WF_discoveryVars(part = "discovery" /\ PollGoesOn(p))

ComponentsSpec == ComponentsInit /\ [][ComponentsNext]_componentVars /\ ComponentsFairness

\* The types of the components; each part of the state is looked at where it moves.
ComponentsTypeOK == /\ part = "discovery" => DiscoveryTypeOK
                    /\ part \in {"reader", "subscriber"} => TransportTypeOK
                    /\ part = "memory" => MemoryTypeOK
                    /\ part = "archive" => ArchiveTypeOK
                    /\ part = "review" => ReviewTypeOK
=============================================================================
