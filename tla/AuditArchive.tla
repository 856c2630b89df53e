---------------------------- MODULE AuditArchive ----------------------------
(***************************************************************************)
(* The run of scripts/live/full-business-live.ts over a session, a storage *)
(* adapter of packages/storage and the relayer: the events of one action   *)
(* are sent, the session is read back and archived, the archive is read    *)
(* back and compared, an audit event refers to it, and after a reconnect   *)
(* both are read once more.  heavy-action-live.ts and                      *)
(* walrus-archive-live.ts are parts of the same run.                       *)
(*                                                                         *)
(* External: the relayer, whose answers may lag behind; Walrus, which may  *)
(* refuse a blob, have it only after a while, or serve other bytes; others *)
(* who write to the session.  An archive is known by the number of         *)
(* messages it holds, which stands for its bytes and for their digest.     *)
(* Encryption is left out: what was sealed is what is unsealed.            *)
(***************************************************************************)
EXTENDS Naturals, Sequences

CONSTANTS Providers,     \* "walrus", "local"
          OwnEvents,     \* events of the run up to the receipt; 6 in the script
          ReadAttempts,  \* readRetry.attempts
          MaxPolls,      \* bound: times waitForEventCount lists within its deadline
          MaxOthers      \* bound: events of others in the session

ASSUME ArchiveAssumption ==
    /\ Providers \subseteq {"walrus", "local"} /\ Providers # {}
    /\ OwnEvents \in Nat \ {0} /\ ReadAttempts \in Nat \ {0}
    /\ MaxPolls \in Nat \ {0} /\ MaxOthers \in Nat

VARIABLES provider,  \* the storage adapter in use
          session,   \* messages: the number of an own event, 0 for those of others
          run,       \* where the script is
          tried,     \* polls or read attempts so far
          archive,   \* messages in the archive; 0 before there is one
          blob,      \* what the storage holds under the archive's id
          restored   \* what was read back last

archiveVars == <<provider, session, run, tried, archive, blob, restored>>

Audit == OwnEvents + 1
Garbage == 0
NoBlob == [there |-> FALSE, holds |-> Garbage]

Places == {"acting", "waiting", "sealing", "reading", "auditing", "confirming",
           "reconnecting", "rereading", "done", "failed"}

ArchiveInit == /\ provider \in Providers
               /\ session = << >>
               /\ run = "acting"
               /\ tried = 0
               /\ archive = 0 /\ blob = NoBlob /\ restored = Garbage

Sent(n) == \E i \in DOMAIN session : session[i] = n
OwnSent == {n \in 1 .. Audit : Sent(n)}

-----------------------------------------------------------------------------
Others == /\ Len(SelectSeq(session, LAMBDA n : n = 0)) < MaxOthers
          /\ run \notin {"done", "failed"}
          /\ session' = Append(session, 0)
          /\ UNCHANGED <<provider, run, tried, archive, blob, restored>>

\* Any call that throws ends the script.
Throw == /\ run \notin {"done", "failed"}
         /\ run' = "failed"
         /\ UNCHANGED <<provider, session, tried, archive, blob, restored>>

\* The intent, the proposal, the decision, the anchor, the claim and the receipt,
\* each sent when the one before has been.
Act == /\ run = "acting"
       /\ \E n \in 1 .. OwnEvents :
             /\ OwnSent = 1 .. n - 1
             /\ session' = Append(session, n)
             /\ run' = IF n = OwnEvents THEN "waiting" ELSE "acting"
       /\ UNCHANGED <<provider, tried, archive, blob, restored>>

Enough(listed, count) == listed >= count

\* An attempt is repeated without being counted.
NextAttempt == tried

\* Towards the deadline, or towards the number of attempts.
Attempts == tried + 1

\* waitForEventCount: the relayer serves a prefix of the session.
Wait(here, count, next) ==
    /\ run = here
    /\ \E listed \in 0 .. Len(session) :
          \/ /\ Enough(listed, count)
             /\ run' = next
             /\ tried' = 0
             /\ archive' = IF here = "waiting" THEN listed ELSE archive
          \/ /\ ~Enough(listed, count)
             /\ tried' = Attempts
             /\ run' = IF tried' = MaxPolls THEN "failed" ELSE here
             /\ UNCHANGED archive
    /\ UNCHANGED <<provider, session, blob, restored>>

\* WalrusHttpClient.write: the publisher answers with the id before an aggregator
\* needs to have the blob.
Published(bytes) == {[there |-> here, holds |-> bytes] : here \in BOOLEAN}

\* InMemoryStorageAdapter keeps the caller's own array.
KeptLocally(bytes) == {[there |-> TRUE, holds |-> bytes]}

\* put.
Seal == /\ run = "sealing"
        /\ blob' \in IF provider = "walrus" THEN Published(archive) ELSE KeptLocally(archive)
        /\ run' = "reading"
        /\ UNCHANGED <<provider, session, tried, archive, restored>>

\* The aggregator gets to see the blob.
Certified == /\ run \in {"reading", "rereading"} /\ ~blob.there
             /\ blob' = [blob EXCEPT !.there = TRUE]
             /\ UNCHANGED <<provider, session, run, tried, archive, restored>>

\* The blob is no longer what was stored: Walrus lost it, or the owner of the local
\* bytes wrote over them.
Spoil == /\ run \in {"auditing", "confirming", "reconnecting", "rereading"}
         /\ blob.holds # Garbage
         /\ blob' = [blob EXCEPT !.holds = Garbage]
         /\ UNCHANGED <<provider, session, run, tried, archive, restored>>

\* The digest of the bytes that were read is not looked at.
AcceptAny(bytes) == TRUE
\* hashBytes(restored) against the digest of the reference.
Accept(bytes) == bytes = archive

\* get and the comparison behind it: other bytes than those stored end the script.
GetBytes(here, next) ==
    /\ run = here /\ blob.there
    /\ \E bytes \in {blob.holds, Garbage} :
          /\ provider = "local" => bytes = blob.holds
          /\ run' = IF Accept(bytes) THEN next ELSE "failed"
          /\ restored' = bytes
    /\ tried' = 0
    /\ UNCHANGED <<provider, session, archive, blob>>

\* WalrusHttpClient.read is not served and asks again; the local map has no retry.
RetryRead(here) ==
    /\ run = here /\ provider = "walrus"
    /\ tried' = Attempts
    /\ run' = IF tried' = ReadAttempts THEN "failed" ELSE here
    /\ UNCHANGED <<provider, session, archive, blob, restored>>

Read(here, next) == GetBytes(here, next) \/ RetryRead(here)

\* The audit event names the blob and its digest.
SendAudit == /\ run = "auditing"
             /\ session' = Append(session, Audit)
             /\ run' = "confirming"
             /\ UNCHANGED <<provider, tried, archive, blob, restored>>

RunStep == \/ Act
           \/ Wait("waiting", OwnEvents, "sealing")
           \/ Seal
           \/ Read("reading", "auditing")
           \/ SendAudit
           \/ Wait("confirming", Audit, "reconnecting")
           \/ Wait("reconnecting", Audit, "rereading")
           \/ Read("rereading", "done")

ArchiveNext == RunStep \/ Throw \/ Others \/ Certified \/ Spoil

ArchiveSpec == ArchiveInit /\ [][ArchiveNext]_archiveVars /\ WF_archiveVars(RunStep)

-----------------------------------------------------------------------------
ArchiveTypeOK ==
    /\ provider \in Providers
    /\ session \in Seq(0 .. Audit)
    /\ run \in Places
    /\ tried \in 0 .. MaxPolls + ReadAttempts
    /\ archive \in 0 .. Len(session)
    /\ blob \in [there : BOOLEAN, holds : 0 .. Len(session)]
    /\ restored \in 0 .. Len(session)

Before(i) == {session[j] : j \in 1 .. i}

(***************************************************************************)
(* sealManagedWalrusArchive and the audit event: an audit event in the     *)
(* session refers to an archive that was read back as it was stored, and   *)
(* that holds the receipt it is about, unless others wrote to the session  *)
(* before the receipt: the script counts events and does not look for its  *)
(* own.  The run that is done has read the same archive again, and every   *)
(* event of its own is in the session.                                     *)
(***************************************************************************)
AuditHasArchive ==
    /\ \A i \in DOMAIN session :
          session[i] = Audit =>
              /\ archive # Garbage
              /\ run \in {"confirming", "reconnecting"} => restored = archive
              /\ \A r \in 1 .. i :
                    session[r] = OwnEvents /\ 0 \notin Before(r) => r <= archive
    /\ run = "done" => restored = archive /\ 1 .. Audit \subseteq OwnSent

(***************************************************************************)
(* waitForEventCount and WalrusHttpClient.read: a run that has begun comes *)
(* to an end, whatever the relayer and the storage answer.                 *)
(***************************************************************************)
RunEnds == <>[](session # << >> => run \in {"done", "failed"})
=============================================================================
