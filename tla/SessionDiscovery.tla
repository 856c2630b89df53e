-------------------------- MODULE SessionDiscovery --------------------------
(***************************************************************************)
(* SuiStackSessionDiscovery of packages/sui-stack-adapter: an actor learns *)
(* which groups it belongs to by reading the package's membership events   *)
(* one event type after the other, in pages, with one stored cursor per    *)
(* type.  Callers of poll and the start loop overlap at every await and    *)
(* share cursors, seen event ids and active sessions.                      *)
(*                                                                         *)
(* External: the groups contract, which emits the events; the node, which  *)
(* serves them oldest first and may fail; the metadata view, which may     *)
(* fail; the handler of the start loop, which may throw; the application,  *)
(* which keeps the cursors of a result and passes them on when it          *)
(* restarts.  The contents of metadata and permissions are left out.       *)
(***************************************************************************)
EXTENDS Naturals, Sequences, FiniteSets

CONSTANTS Groups,        \* group objects
          Actor,         \* actorAddress
          Stranger,      \* any other member, or an event that does not parse
          StrangerGroup, \* the group strangers' events are about
          Kinds,         \* eventDefinitions(): the kinds queried, in order
          EventPageSize,      \* pageSize
          MaxPagesPerEventType,      \* maxPagesPerEventType
          Callers,       \* users that call poll() directly
          Loop,          \* the start() loop, a poller of its own
          MaxEmitted,    \* bound: length of the event stream
          MaxFaults      \* bound: calls that fail, stops and restarts

AllKinds == {"member_added", "member_removed", "permissions_granted", "permissions_revoked"}

ASSUME DiscoveryAssumption ==
    /\ Kinds \in Seq(AllKinds) /\ Kinds # << >>
    /\ StrangerGroup \in Groups
    /\ Actor # Stranger
    /\ Loop \notin Callers
    /\ EventPageSize \in Nat \ {0} /\ MaxPagesPerEventType \in Nat \ {0}
    /\ MaxEmitted \in Nat /\ MaxFaults \in Nat

Pollers == Callers \cup {Loop}

VARIABLES stream,     \* the events emitted; an event's position is its id
          cursors,    \* cursorByEventType; 0 when there is none
          seen,       \* seenEventIds
          active,     \* activeSessions: lastEventId, 0 when g is not a key
          poll,       \* poll[p]: the call of poll() under way
          told,       \* history: events that results of this process reported
          before,     \* history: events that an earlier process had seen
          saved,      \* cursorByEventType of the last result
          begun,      \* history: initialCursorByEventType of this process
          overtaken,  \* history: groups whose events were not read one by one
          failures, restarts

discoveryVars == <<stream, cursors, seen, active, poll, told,
                   before, saved, begun, overtaken, failures, restarts>>
memory == <<cursors, seen, active>>
history == <<told, before, saved, begun>>

KindOf(n) == Kinds[n]
KindSet == {Kinds[n] : n \in DOMAIN Kinds}

NoPoll == [at |-> "idle", kind |-> 0, cursor |-> 0, pages |-> 0, events |-> {}, fresh |-> {}]

DiscoveryInit == /\ stream = << >>
                 /\ cursors = [k \in KindSet |-> 0]
                 /\ seen = {}
                 /\ active = [g \in Groups |-> 0]
                 /\ poll = [p \in Pollers |-> NoPoll]
                 /\ told = {} /\ before = {}
                 /\ saved = [k \in KindSet |-> 0]
                 /\ begun = [k \in KindSet |-> 0]
                 /\ overtaken = {}
                 /\ failures = 0 /\ restarts = 0

-----------------------------------------------------------------------------
IsOwn(i) == stream[i].member = Actor
OwnOf(g) == {i \in DOMAIN stream : IsOwn(i) /\ stream[i].group = g}
Newest(S) == CHOOSE i \in S : \A j \in S : j <= i

\* After event i its member belongs to the group.
Joins(i) == stream[i].kind # "member_removed"
MemberAfter(S) == S # {} /\ Joins(Newest(S))
Underway == UNION {poll[p].events : p \in Pollers}

\* The contract adds who is not a member, and removes, grants to and revokes
\* from members only.
Emit(kind, g, member) ==
    /\ Len(stream) < MaxEmitted
    /\ \/ /\ member = Actor
          /\ (kind = "member_added") <=> ~MemberAfter(OwnOf(g))
       \/ /\ member = Stranger
          /\ kind = "member_added" /\ g = StrangerGroup
    /\ stream' = Append(stream, [kind |-> kind, group |-> g, member |-> member])
    /\ overtaken' = IF member = Actor /\ ~(OwnOf(g) \subseteq seen)
                    THEN overtaken \cup {g}
                    ELSE overtaken
    /\ UNCHANGED <<memory, poll, history, failures, restarts>>

-----------------------------------------------------------------------------
\* What queryEvents answers: the next events of a type after the cursor.
Rest(kind, cursor) == {i \in DOMAIN stream : stream[i].kind = kind /\ i > cursor}
Page(kind, cursor) ==
    LET rest == Rest(kind, cursor)
    IN  {i \in rest : Cardinality({j \in rest : j <= i}) <= EventPageSize}
HasNextPage(kind, cursor) == Page(kind, cursor) # Rest(kind, cursor)

\* Without seenEventIds.
FreshUnchecked(page) == {i \in page : IsOwn(i)}

\* The events of a page that poll goes on with.
Fresh(page) == {i \in page : IsOwn(i) /\ i \notin seen}

\* The cursor is not moved.
SameCursor(page, cursor) == cursor

\* One past the newest event.
PastNewest(page, cursor) == IF page = {} THEN cursor ELSE Newest(page) + 1

\* Newest of the stream, whatever was served.
NextCursorAtEnd(page, cursor) == Len(stream)

\* nextCursor; an empty page answers the cursor it was asked for.
NextCursor(page, cursor) == IF page = {} THEN cursor ELSE Newest(page)

About(S, g) == {i \in S : stream[i].group = g}

\* activeSessions once the new events S of a page, all of one kind, are handled.
Activate(S) ==
    [g \in Groups |-> IF About(S, g) = {}
                      THEN active[g]
                      ELSE IF Joins(Newest(About(S, g))) THEN Newest(About(S, g)) ELSE 0]

\* newlyDiscoveredGroupIds gains the groups that become active.
NewlyDiscovered(S) == {g \in Groups : active[g] = 0 /\ \E i \in About(S, g) : Joins(i)}

\* No call of this poller is under way; the loop leaves "idle" when it ends.
StartPoll(p) ==
    /\ poll[p].at = "idle"
    /\ poll' = [poll EXCEPT ![p] = [NoPoll EXCEPT !.at = "querying", !.kind = 1,
                                                  !.cursor = cursors[KindOf(1)]]]
    /\ UNCHANGED <<stream, memory, history, overtaken, failures, restarts>>

\* The loop over pages and definitions stops at the await of the next query.
NextQuery(p, q, cursor, stored) ==
    IF q.pages + 1 < MaxPagesPerEventType /\ HasNextPage(KindOf(q.kind), q.cursor)
    THEN [q EXCEPT !.cursor = cursor, !.pages = q.pages + 1]
    ELSE IF q.kind < Len(Kinds)
    THEN [q EXCEPT !.kind = q.kind + 1, !.cursor = stored[KindOf(q.kind + 1)], !.pages = 0]
    ELSE [q EXCEPT !.at = "hydrating", !.kind = 0, !.cursor = 0, !.pages = 0]

\* A page arrives, and is handled up to the next await.
ReadPage(p) ==
    /\ poll[p].at = "querying"
    /\ LET kind == KindOf(poll[p].kind)
           page == Page(kind, poll[p].cursor)
           new  == Fresh(page)
           next == NextCursor(page, poll[p].cursor)
           gain == [poll[p] EXCEPT !.events = @ \cup new,
                                   !.fresh = @ \cup NewlyDiscovered(new)]
       IN  /\ seen' = seen \cup new
           /\ active' = Activate(new)
           /\ cursors' = [cursors EXCEPT ![kind] = IF next = 0 THEN @ ELSE next]
           /\ poll' = [poll EXCEPT ![p] = NextQuery(p, gain, next, cursors')]
    /\ UNCHANGED <<stream, history, overtaken, failures, restarts>>

\* hydrateSessions reads activeSessions again after its await.
AddedSessions(p) == {g \in poll[p].fresh : active[g] # 0}

Interesting(p) == poll[p].events # {} \/ AddedSessions(p) # {}

\* The metadata is there and poll returns; the loop awaits its handler, or sleeps.
Finish(p) ==
    /\ poll[p].at = "hydrating"
    /\ told' = told \cup poll[p].events
    /\ saved' = cursors
    /\ poll' = [poll EXCEPT ![p] = [NoPoll EXCEPT
                    !.at = IF p = Loop /\ Interesting(p) THEN "handling" ELSE "idle"]]
    /\ UNCHANGED <<stream, memory, before, begun, overtaken, failures, restarts>>

\* What a poller that got an exception does next: the loop is over.
AfterFailure(p) == [NoPoll EXCEPT !.at = IF p = Loop THEN "ended" ELSE "idle"]

\* A query or the metadata view throws, and poll with it: what the call had
\* found so far is not reported, what it had stored stays.
FailPoll(p) ==
    /\ \/ poll[p].at = "querying"
       \/ poll[p].at = "hydrating" /\ poll[p].fresh # {}
    /\ failures + restarts < MaxFaults
    /\ failures' = failures + 1
    /\ poll' = [poll EXCEPT ![p] = AfterFailure(p)]
    /\ UNCHANGED <<stream, memory, history, overtaken, restarts>>

\* The handler resolves; the loop sleeps and polls again.
LoopHandled == /\ poll[Loop].at = "handling"
           /\ poll' = [poll EXCEPT ![Loop] = NoPoll]
           /\ UNCHANGED <<stream, memory, history, overtaken, failures, restarts>>

HandlerThrows == /\ poll[Loop].at = "handling"
                 /\ failures + restarts < MaxFaults
                 /\ failures' = failures + 1
                 /\ poll' = [poll EXCEPT ![Loop] = AfterFailure(Loop)]
                 /\ UNCHANGED <<stream, memory, history, overtaken, restarts>>

\* The function start() returned was called, and the loop saw it.
Stop == /\ poll[Loop].at = "idle"
        /\ failures + restarts < MaxFaults
        /\ failures' = failures + 1
        /\ poll' = [poll EXCEPT ![Loop] = AfterFailure(Loop)]
        /\ UNCHANGED <<stream, memory, history, overtaken, restarts>>

\* The process ends and starts anew with the cursors the application kept, or
\* with none.
Restart(initial) ==
    /\ failures + restarts < MaxFaults
    /\ restarts' = restarts + 1
    /\ cursors' = initial /\ begun' = initial
    /\ seen' = {}
    /\ active' = [g \in Groups |-> 0]
    /\ poll' = [p \in Pollers |-> NoPoll]
    /\ told' = {}
    /\ before' = before \cup seen
    /\ overtaken' = {g \in Groups : OwnOf(g) # {}}
    /\ UNCHANGED <<stream, saved, failures>>

PollGoesOn(p) == ReadPage(p) \/ Finish(p)

LoopStep == StartPoll(Loop) \/ PollGoesOn(Loop) \/ LoopHandled

DiscoveryNext ==
    \/ \E kind \in KindSet, g \in Groups, member \in {Actor, Stranger} : Emit(kind, g, member)
    \/ \E p \in Pollers : StartPoll(p) \/ PollGoesOn(p) \/ FailPoll(p)
    \/ LoopHandled \/ HandlerThrows \/ Stop
    \/ Restart(saved) \/ Restart([k \in KindSet |-> 0])

\* Queries, metadata and handlers settle, and the timer of the loop fires.
\* Nobody needs to call poll.
PollsSettle == /\ WF_discoveryVars(LoopStep)
               /\ \A p \in Callers : WF_discoveryVars(PollGoesOn(p))

DiscoverySpec == DiscoveryInit /\ [][DiscoveryNext]_discoveryVars /\ PollsSettle

-----------------------------------------------------------------------------
Event == [kind : AllKinds, group : Groups, member : {Actor, Stranger}]
Poll == [at : {"idle", "querying", "hydrating", "handling", "ended"},
         kind : 0 .. Len(Kinds), cursor : Nat, pages : 0 .. MaxPagesPerEventType,
         events : SUBSET DOMAIN stream, fresh : SUBSET Groups]

DiscoveryTypeOK ==
    /\ stream \in Seq(Event)
    /\ cursors \in [KindSet -> 0 .. Len(stream)]
    /\ {saved, begun} \subseteq [KindSet -> 0 .. Len(stream)]
    /\ active \in [Groups -> 0 .. Len(stream)]
    /\ poll \in [Pollers -> Poll]
    /\ \A S \in {seen, told, before} : S \subseteq DOMAIN stream
    /\ overtaken \subseteq Groups

(***************************************************************************)
(* poll: an event is reported by at most one result of a process, however  *)
(* polls overlap and set each other's cursors back.                        *)
(***************************************************************************)
ToldOnce ==
    \A p \in Pollers :
        /\ poll[p].events \cap told = {}
        /\ \A q \in Pollers \ {p} : poll[p].events \cap poll[q].events = {}

(***************************************************************************)
(* poll and initialCursorByEventType: a stored cursor has no event of the  *)
(* actor behind it that no poll, of this process or of an earlier one, has *)
(* handled.                                                                *)
(***************************************************************************)
NothingSkipped ==
    \A k \in KindSet : \A i \in DOMAIN stream :
        IsOwn(i) /\ stream[i].kind = k /\ i <= cursors[k] => i \in seen \cup before

(***************************************************************************)
(* activeSessions: a group whose events were read one by one, each before  *)
(* the next was emitted, is active exactly while the actor is a member as  *)
(* far as it was told, although polls overlap and cursors go back.         *)
(***************************************************************************)
KnowsMembership ==
    \A g \in Groups \ overtaken : (active[g] # 0) <=> MemberAfter(OwnOf(g) \cap seen)

\* The events of the actor after the cursors that this process was given.
ToBeTold == {i \in DOMAIN stream : IsOwn(i) /\ i > begun[stream[i].kind]}

(***************************************************************************)
(* start: as long as nothing throws and nobody stops the loop, the loop    *)
(* catches up: every event of the actor after the cursors that the process *)
(* began with is reported by some result of this process, however many     *)
(* pages and other people's events lie before it and whoever else polls.   *)
(* What lies before these cursors is not promised: an earlier process may  *)
(* have stored a cursor beyond an event it never got to report.            *)
(***************************************************************************)
LoopTells == <>[](failures > 0 \/ ToBeTold \subseteq told)

(***************************************************************************)
(* tests/sui-stack-session-discovery.test.ts:116: "removes active sessions *)
(* when the actor is removed from a group".  poll reads all removals       *)
(* before all grants, so that a grant made before a removal makes the      *)
(* session active again.                                                   *)
(***************************************************************************)
RemovedIsInactive ==
    \A g \in Groups :
        /\ OwnOf(g) # {} /\ OwnOf(g) \subseteq seen
        /\ stream[Newest(OwnOf(g))].kind = "member_removed"
        => active[g] = 0
=============================================================================
