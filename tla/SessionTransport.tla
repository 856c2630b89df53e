-------------------------- MODULE SessionTransport --------------------------
(***************************************************************************)
(* SuiStackEventTransport of packages/sui-stack-adapter: the events of a   *)
(* session are messages of a group on a relayer.  list reads the group in  *)
(* pages while others send to it; subscribe hands messages to a handler,   *)
(* one after the other; waitForMessage of the live scripts lists again and *)
(* again until an event turns up.                                          *)
(*                                                                         *)
(* The relayer is the one of scripts/live/sui-stack-messaging-live.ts.     *)
(* External: the messaging client between the two, which encrypts, signs   *)
(* and passes pages on.  Messages are never edited or deleted by SuiMesh,  *)
(* and are not here.                                                       *)
(***************************************************************************)
EXTENDS Naturals, Sequences, SequencesExt

CONSTANTS Sessions,      \* session ids; all of them share one group
          NoEnvelope,    \* the text of a message that is no envelope
          Readers,       \* callers of list and waitForMessage
          Subscribers,   \* calls of subscribe
          NoSession,     \* no call is under way
          PageSize,      \* pageSize
          MaxPages,      \* maxPages
          StreamLimit,   \* messages the relayer's subscribe fetches at once
          MaxMessages    \* bound: messages in the group

ASSUME TransportAssumption ==
    /\ NoEnvelope \notin Sessions
    /\ NoSession \notin Sessions
    /\ PageSize \in Nat \ {0} /\ MaxPages \in Nat \ {0} /\ StreamLimit \in Nat \ {0}
    /\ MaxMessages \in Nat

VARIABLES group,      \* messages of the group; a position is a message's order
          listing,    \* listing[r]: the call of list or waitForMessage under way
          sub         \* sub[s]: the loop of a call of subscribe

transportVars == <<group, listing, sub>>

Orders == 1 .. MaxMessages
Window == PageSize * MaxPages

NoListing == [at |-> "idle", session |-> NoSession, wanted |-> 0, got |-> << >>,
              pages |-> 0, posted |-> 0]
NoStream == [at |-> "closed", session |-> NoSession, after |-> 0, batch |-> << >>,
             given |-> << >>, aborted |-> FALSE]

TransportInit == /\ group = << >>
                 /\ listing = [r \in Readers |-> NoListing]
                 /\ sub = [s \in Subscribers |-> NoStream]

\* send: serializeEnvelope, sendMessage and the relayer's createMessage.
Send(text) == /\ Len(group) < MaxMessages
              /\ group' = Append(group, text)
              /\ UNCHANGED <<listing, sub>>

-----------------------------------------------------------------------------
\* order >= afterOrder, rather than >.
FetchAgain(after) ==
    IF after = 0 THEN [i \in 1 .. Len(group) |-> i]
    ELSE [i \in 1 .. Len(group) - after + 1 |-> after + i - 1]

\* The relayer's filter on afterOrder; orders are positions.
FetchFrom(after) == [i \in 1 .. Len(group) - after |-> after + i]

FirstOf(S, limit) == SubSeq(S, 1, IF Len(S) < limit THEN Len(S) ELSE limit)

\* As if a page that is not full yet came before the end.
HasNextBeyond(after, limit) == Len(FetchFrom(after)) > limit + 1

\* The relayer's hasNext.
HasNext(after, limit) == Len(FetchFrom(after)) > limit

\* Any envelope, whichever session it names.
IsEnvelope(session, i) == group[i] # NoEnvelope

\* parseEnvelopeText and the filter on the session.
IsEnvelopeOf(session, i) == group[i] = session

EnvelopesOf(session, orders) == SelectSeq(orders, LAMBDA i : IsEnvelopeOf(session, i))

\* wanted is 0 in list, and in waitForMessage the order of the event waited for.
StartList(r, session, wanted) ==
    /\ listing[r].at = "idle"
    /\ listing' = [listing EXCEPT ![r] =
                      [NoListing EXCEPT !.at = "fetching", !.session = session,
                                        !.wanted = wanted, !.posted = Len(group)]]
    /\ UNCHANGED <<group, sub>>

After(l) == IF l.got = << >> THEN 0 ELSE Last(l.got)

FetchPage(r) ==
    LET l    == listing[r]
        page == FirstOf(FetchFrom(After(l)), PageSize)
        more == HasNext(After(l), PageSize) /\ page # << >> /\ l.pages + 1 < MaxPages
    IN  /\ l.at = "fetching"
        /\ listing' = [listing EXCEPT ![r].got = @ \o page, ![r].pages = @ + 1,
                                      ![r].at = IF more THEN "fetching" ELSE "listed"]
        /\ UNCHANGED <<group, sub>>

Found(l) == l.wanted \in ToSet(EnvelopesOf(l.session, l.got))

\* list returns; waitForMessage sleeps and lists again unless it has found it.
Return(r) ==
    /\ listing[r].at = "listed"
    /\ LET l == listing[r]
       IN  listing' = [listing EXCEPT ![r] =
               IF l.wanted = 0 THEN NoListing
               ELSE IF Found(l) THEN [NoListing EXCEPT !.at = "found"]
               ELSE [NoListing EXCEPT !.at = "fetching", !.session = l.session,
                                      !.wanted = l.wanted, !.posted = Len(group)]]
    /\ UNCHANGED <<group, sub>>

\* A query throws, or the 60 seconds are over.
FailList(r) == /\ listing[r].at = "fetching"
               /\ listing' = [listing EXCEPT ![r] = [NoListing EXCEPT !.at = "failed"]]
               /\ UNCHANGED <<group, sub>>

-----------------------------------------------------------------------------
Subscribe(s, session) ==
    /\ sub[s].at = "closed" /\ sub[s].session = NoSession
    /\ sub' = [sub EXCEPT ![s] = [NoStream EXCEPT !.at = "polling", !.session = session]]
    /\ UNCHANGED <<group, listing>>

\* The relayer's loop fetches unless the signal is aborted; an empty answer makes
\* it sleep and ask again.
FetchBatch(s) ==
    /\ sub[s].at = "polling" /\ sub[s].batch = << >> /\ ~sub[s].aborted
    /\ FetchFrom(sub[s].after) # << >>
    /\ sub' = [sub EXCEPT ![s].batch = FirstOf(FetchFrom(sub[s].after), StreamLimit)]
    /\ UNCHANGED <<group, listing>>

\* The next message of the batch: afterOrder moves, and the handler is called
\* with an envelope of the session.  The signal is not looked at in a batch.
Yield(s) ==
    /\ sub[s].at = "polling" /\ sub[s].batch # << >>
    /\ LET i    == Head(sub[s].batch)
           ours == IsEnvelopeOf(sub[s].session, i)
       IN  sub' = [sub EXCEPT ![s].after = i, ![s].batch = Tail(@),
                              ![s].given = IF ours THEN Append(@, i) ELSE @,
                              ![s].at = IF ours THEN "handling" ELSE "polling"]
    /\ UNCHANGED <<group, listing>>

Handled(s) == /\ sub[s].at = "handling"
              /\ sub' = [sub EXCEPT ![s].at = "polling"]
              /\ UNCHANGED <<group, listing>>

\* The handler or the relayer throws: the loop ends, and the caller of
\* subscribe is not told.
StreamFails(s) == /\ sub[s].at \in {"handling", "polling"}
                  /\ sub' = [sub EXCEPT ![s].at = "closed"]
                  /\ UNCHANGED <<group, listing>>

\* The function subscribe() returned.
Unsubscribe(s) == /\ sub[s].at # "closed" /\ ~sub[s].aborted
                  /\ sub' = [sub EXCEPT ![s].aborted = TRUE]
                  /\ UNCHANGED <<group, listing>>

ReaderGoesOn(r) == FetchPage(r) \/ Return(r)
StreamGoesOn(s) == FetchBatch(s) \/ Yield(s) \/ Handled(s)

ReaderNext == \E r \in Readers :
                 \/ \E session \in Sessions, wanted \in {0} \cup Orders :
                       StartList(r, session, wanted)
                 \/ ReaderGoesOn(r) \/ FailList(r)

SubscriberNext == \E s \in Subscribers :
                     \/ \E session \in Sessions : Subscribe(s, session)
                     \/ StreamGoesOn(s)
                     \/ StreamFails(s) \/ Unsubscribe(s)

TransportNext == \/ \E text \in Sessions \cup {NoEnvelope} : Send(text)
                 \/ ReaderNext \/ SubscriberNext

\* Queries, handlers and timers settle.
TransportSettles == /\ \A r \in Readers : WF_transportVars(ReaderGoesOn(r))
                    /\ \A s \in Subscribers : WF_transportVars(StreamGoesOn(s))

TransportSpec == TransportInit /\ [][TransportNext]_transportVars /\ TransportSettles
-----------------------------------------------------------------------------
Listing == [at : {"idle", "fetching", "listed", "found", "failed"},
            session : Sessions \cup {NoSession}, wanted : 0 .. MaxMessages,
            got : Seq(Orders), pages : 0 .. MaxPages, posted : 0 .. MaxMessages]
Stream == [at : {"closed", "polling", "handling"}, session : Sessions \cup {NoSession},
           after : 0 .. MaxMessages, batch : Seq(Orders), given : Seq(Orders),
           aborted : BOOLEAN]

TransportTypeOK == /\ group \in Seq(Sessions \cup {NoEnvelope})
                   /\ listing \in [Readers -> Listing]
                   /\ sub \in [Subscribers -> Stream]

AtMost(m, n) == IF m < n THEN m ELSE n
UpTo(n) == [i \in 1 .. n |-> i]

(***************************************************************************)
(* list: what a call has fetched is the beginning of the group, each       *)
(* message once and in order, although messages arrive between its pages;  *)
(* and when it returns it is all that was posted before the call, unless   *)
(* pageSize * maxPages messages come first.                                *)
(***************************************************************************)
ListIsPrefix ==
    \A r \in Readers :
        /\ listing[r].got = UpTo(Len(listing[r].got))
        /\ listing[r].at = "listed"
               => Len(listing[r].got) >= AtMost(listing[r].posted, Window)

(***************************************************************************)
(* subscribe: a handler is given the envelopes of its session among the    *)
(* messages passed so far, all of them, once and in their order: it never  *)
(* disagrees with what a list returns.                                     *)
(***************************************************************************)
GivenInOrder ==
    \A s \in Subscribers :
        LET k == sub[s]
        IN  /\ \A i, j \in DOMAIN k.given : i < j => k.given[i] < k.given[j]
            /\ ToSet(k.given) = {i \in 1 .. k.after : group[i] = k.session}

StreamCatchesUp ==
    \A s \in Subscribers :
        <>[](\/ sub[s].at = "closed"
             \/ sub[s].aborted
             \/ sub[s].given = EnvelopesOf(sub[s].session, UpTo(Len(group))))

WaitFinds ==
    \A r \in Readers :
        <>[](listing[r].wanted > 0 =>
                \/ listing[r].wanted > AtMost(Window, Len(group))
                \/ group[listing[r].wanted] # listing[r].session)

(***************************************************************************)
(* subscribe and waitForMessage: a subscriber is given every envelope of   *)
(* its session in the end, and who waits for one that lies within the      *)
(* window of list finds it, unless a handler or the relayer throws, the    *)
(* subscriber leaves or the time is over.                                  *)
(***************************************************************************)
MessagesArrive == StreamCatchesUp /\ WaitFinds
=============================================================================
