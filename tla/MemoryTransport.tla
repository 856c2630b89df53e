--------------------------- MODULE MemoryTransport ---------------------------
(***************************************************************************)
(* InMemoryEventTransport of packages/transport, one session of it.  send  *)
(* stores the event and then calls the subscribers' handlers one after the *)
(* other, awaiting each; sends that overlap are each at their own place in *)
(* the set of subscribers, which may grow and shrink meanwhile.            *)
(*                                                                         *)
(* JavaScript's iteration over a Set visits entries added on the way and   *)
(* passes over deleted ones; without any subscriber so far there is no Set *)
(* and send is done at once.                                               *)
(***************************************************************************)
EXTENDS Naturals, Sequences, FiniteSets

CONSTANTS Senders,        \* clients, each awaiting its own sends
          MaxSent,        \* bound: events sent
          MaxSubscribers  \* bound: calls of subscribe

ASSUME MemoryAssumption == MaxSent \in Nat /\ MaxSubscribers \in Nat

VARIABLES stored,    \* events of the session: who sent the event at a position
          handlers,  \* handlers[n]: what the n-th registered handler was given,
                     \* and whether it is still in the set
          sending    \* sending[c]: the send under way: event and handler awaited

memoryVars == <<stored, handlers, sending>>

NotSending == [event |-> 0, handler |-> 0]

MemoryInit == /\ stored = << >>
              /\ handlers = << >>
              /\ sending = [c \in Senders |-> NotSending]

\* The same in an array: entries move up when an earlier one is taken out.
NextInArray(n) ==
    LET gone  == Cardinality({j \in 1 .. n : ~handlers[j].subscribed})
        ahead == {k \in DOMAIN handlers : k > n + gone /\ handlers[k].subscribed}
    IN  IF ahead = {} THEN 0 ELSE CHOOSE k \in ahead : \A j \in ahead : k <= j

\* The handler that an iteration at position n visits next; 0 at the end.
NextHandler(n) ==
    LET ahead == {k \in DOMAIN handlers : k > n /\ handlers[k].subscribed}
    IN  IF ahead = {} THEN 0 ELSE CHOOSE k \in ahead : \A j \in ahead : k <= j

\* Call the next handler with the event, or fulfil the send.
Visit(c, event, n) ==
    IF NextHandler(n) = 0
    THEN /\ sending' = [sending EXCEPT ![c] = NotSending]
         /\ UNCHANGED handlers
    ELSE /\ sending' = [sending EXCEPT ![c] = [event |-> event, handler |-> NextHandler(n)]]
         /\ handlers' = [handlers EXCEPT ![NextHandler(n)].given = Append(@, event)]

\* An await between storing the event and calling the first handler.
SendEventLate(c) == /\ sending[c] = NotSending
                    /\ Len(stored) < MaxSent
                    /\ stored' = Append(stored, c)
                    /\ sending' = [sending EXCEPT ![c].event = Len(stored) + 1]
                    /\ UNCHANGED handlers

\* The event is stored and the first handler called, without an await between.
SendEvent(c) == /\ sending[c] = NotSending
                /\ Len(stored) < MaxSent
                /\ stored' = Append(stored, c)
                /\ Visit(c, Len(stored) + 1, 0)

HandlerDone(c) == /\ sending[c] # NotSending
                  /\ Visit(c, sending[c].event, sending[c].handler)
                  /\ UNCHANGED stored

\* send rejects; the event stays stored and later handlers do not get it.
HandlerFails(c) == /\ sending[c] # NotSending
                   /\ sending' = [sending EXCEPT ![c] = NotSending]
                   /\ handlers' = [k \in DOMAIN handlers |->
                         [handlers[k] EXCEPT !.missed =
                             IF k > sending[c].handler THEN @ \cup {sending[c].event} ELSE @]]
                   /\ UNCHANGED stored

AddHandler == /\ Len(handlers) < MaxSubscribers
              /\ handlers' = Append(handlers,
                     [given |-> << >>, subscribed |-> TRUE, joined |-> Len(stored), missed |-> {}])
              /\ UNCHANGED <<stored, sending>>

RemoveHandler(k) == /\ handlers[k].subscribed
                    /\ handlers' = [handlers EXCEPT ![k].subscribed = FALSE]
                    /\ UNCHANGED <<stored, sending>>

MemoryNext == \/ \E c \in Senders : SendEvent(c) \/ HandlerDone(c) \/ HandlerFails(c)
              \/ AddHandler
              \/ \E k \in DOMAIN handlers : RemoveHandler(k)

MemorySpec == MemoryInit /\ [][MemoryNext]_memoryVars

-----------------------------------------------------------------------------
Handler == [given : Seq(1 .. MaxSent), subscribed : BOOLEAN,
            joined : 0 .. MaxSent, missed : SUBSET (1 .. MaxSent)]
Sending == [event : 0 .. MaxSent, handler : 0 .. MaxSubscribers]

MemoryTypeOK == /\ stored \in Seq(Senders)
                /\ handlers \in Seq(Handler)
                /\ sending \in [Senders -> Sending]

(***************************************************************************)
(* send: the handler that registered first is given the events in the      *)
(* order in which list returns them, also when sends overlap (handlers     *)
(* behind a slow one need not be).                                         *)
(***************************************************************************)
FirstSeesStoredOrder ==
    handlers # << >> =>
        LET given == handlers[1].given
        IN  \A i, j \in DOMAIN given : i < j => given[i] < given[j]

(***************************************************************************)
(* send: an event whose send is over was given exactly once to each        *)
(* handler that was there when it was sent and has stayed, unless an       *)
(* earlier handler threw.                                                  *)
(***************************************************************************)
OverMeansGiven ==
    \A k \in DOMAIN handlers : \A e \in DOMAIN stored :
        /\ handlers[k].subscribed /\ handlers[k].joined < e
        /\ e \notin handlers[k].missed
        /\ \A c \in Senders : sending[c].event # e
        => Cardinality({i \in DOMAIN handlers[k].given : handlers[k].given[i] = e}) = 1
=============================================================================
