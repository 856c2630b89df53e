----------------------------- MODULE HeavyPath -----------------------------
(***************************************************************************)
(* The heavy path of SuiMeshClient (packages/sdk) over LocalTraceGuard and *)
(* one session of an EventTransport.  A coordinator takes each action      *)
(* through proposal, decision and anchor; executors claim it, run          *)
(* executeApprovedAndRecord, and may retry, fail the action or crash.      *)
(*                                                                         *)
(* The methods are async: the steps below are cut at their awaits, so the  *)
(* calls of different actors interleave between a change of the guard and  *)
(* the event that records it, and between the moment a call reads the time *)
(* and the moment it uses it.  Callers give no nowMs: a call reads         *)
(* Date.now() once, when it starts.  Each action has a trace of its own.   *)
(***************************************************************************)
EXTENDS LocalTraceGuard, SessionLog, Sequences

CONSTANTS Executors,    \* executor processes
          NoAction,     \* the action of an executor without a claim
          NoEvent,      \* previousEventHash of the first event of a trace
          MaxGrants,    \* bound: granted claims per action
          MaxEvents     \* bound: events in the session

ASSUME HeavyBounds == MaxGrants \in Nat /\ MaxEvents \in Nat
ASSUME HeavyNames == {NoAction, NoTrace, NoHash} \cap Hashes = {}

VARIABLES session,   \* what transport.list returns
          stage,     \* stage[h]: how far the coordinator has come with action h
          address,   \* address[x]: the address in executor x's Actor, if any
          call,      \* call[x]: the claim executor x holds and the call it is in
          grants     \* history: grants[h] lists the granted claims of h

heavyVars == <<now, anchors, session, stage, address, call, grants>>

Stages == {"new", "proposed", "rejected", "approved", "anchoring", "anchored", "unrecorded"}

(***************************************************************************)
(* at is the nowMs of the call under way; grant is the position in grants  *)
(* of the claim the executor holds, a history value the code has not got.  *)
(***************************************************************************)
Call == [pc : {"idle", "claiming", "refused", "holding", "executing", "effected", "recording"},
         action : Hashes \cup {NoAction}, at : 0 .. MaxTime, grant : 0 .. MaxGrants]

Idle == [pc |-> "idle", action |-> NoAction, at |-> 0, grant |-> 0]

\* A granted claim: the end of its lease and how often it was closed.
Grant == [until : Nat, closed : Nat]

SessionEvent == [type : {"proposal", "decision", "anchor", "claim", "receipt"},
                 trace : Hashes, hash : Hashes \cup {NoHash}, says : {"yes", "no"},
                 id : Nat, prev : Nat \cup {NoEvent}]

-----------------------------------------------------------------------------
HeavyInit == /\ LocalInit
             /\ session = << >>
             /\ stage = [h \in Hashes |-> "new"]
             /\ address \in [Executors -> Optional]
             /\ call = [x \in Executors |-> Idle]
             /\ grants = [h \in Hashes |-> << >>]

\* The last event of the action's trace: what a caller gives as previousEventHash.
LastOf(h) == LET own == {i \in DOMAIN session : session[i].trace = h}
             IN  IF own = {} THEN NoEvent ELSE CHOOSE i \in own : \A j \in own : j <= i

EventOf(kind, h, says) ==
    [type |-> kind, trace |-> h, hash |-> IF kind = "proposal" THEN NoHash ELSE h,
     says |-> says, id |-> Len(session) + 1, prev |-> LastOf(h)]

(***************************************************************************)
(* transport.send, delivered or throwing: a send that throws may have been *)
(* refused, or may have stored the event before a subscriber's handler or  *)
(* the connection failed.                                                  *)
(***************************************************************************)
Stored(e) == /\ Len(session) < MaxEvents
             /\ session' = Append(session, e)

Send(e, delivered) == \/ Stored(e)
                      \/ ~delivered /\ UNCHANGED session

-----------------------------------------------------------------------------
(***************************************************************************)
(* The coordinator.                                                        *)
(***************************************************************************)
ProposeUnawaited(h) ==
    /\ stage[h] = "new"
    /\ \E delivered \in BOOLEAN : Send(EventOf("proposal", h, "no"), delivered)
    /\ stage' = [stage EXCEPT ![h] = "proposed"]
    /\ UNCHANGED <<now, anchors, address, call, grants>>

Propose(h) ==
    /\ stage[h] = "new"
    /\ \E delivered \in BOOLEAN :
          /\ Send(EventOf("proposal", h, "no"), delivered)
          /\ stage' = IF delivered THEN [stage EXCEPT ![h] = "proposed"] ELSE stage
    /\ UNCHANGED <<now, anchors, address, call, grants>>

\* evaluateAndRecord behind the evaluation: the decision is lost with the send that throws.
RecordDecision(h, verdict) ==
    /\ stage[h] = "proposed"
    /\ \E delivered \in BOOLEAN :
          /\ Send(EventOf("decision", h, verdict), delivered)
          /\ stage' = IF ~delivered THEN stage
                      ELSE [stage EXCEPT ![h] = IF verdict = "yes" THEN "approved" ELSE "rejected"]
    /\ UNCHANGED <<now, anchors, address, call, grants>>

\* What the policy says is open here; ReviewedPath evaluates it.
Decide(h) == \E verdict \in {"yes", "no"} : RecordDecision(h, verdict)

AnchorOnGuard(h) ==
    /\ stage[h] = "approved"
    /\ \E executor \in Optional \cup {ZeroAddress}, expires \in Expiries :
          LocalAnchorAction(h, executor, expires, now)
    /\ stage' = [stage EXCEPT ![h] = "anchoring"]
    /\ UNCHANGED <<now, session, address, call, grants>>

\* The anchor cannot be made again when the send throws.
RecordAnchor(h) ==
    /\ stage[h] = "anchoring"
    /\ \E delivered \in BOOLEAN :
          /\ Send(EventOf("anchor", h, "no"), delivered)
          /\ stage' = [stage EXCEPT ![h] = IF delivered THEN "anchored" ELSE "unrecorded"]
    /\ UNCHANGED <<now, anchors, address, call, grants>>

-----------------------------------------------------------------------------
(***************************************************************************)
(* The executors.                                                          *)
(***************************************************************************)
\* The decisions an executor finds in the session.
DecisionsOn(h) ==
    {[hash |-> h, verdict |-> IF session[i].says = "yes" THEN "approved" ELSE "rejected"] :
        i \in {j \in DOMAIN session : session[j].type = "decision" /\ session[j].hash = h}}

\* claimAndRecord up to its send; a claim the executor held before is dropped.
ClaimOnGuard(x, h) ==
    /\ call[x].pc \in {"idle", "holding"}
    /\ \E decision \in DecisionsOn(h), lease \in Leases :
          /\ LocalClaim(h, decision, address[x], lease, now)
          /\ IF Duplicate(h, now)
             THEN /\ call' = [call EXCEPT ![x] = [Idle EXCEPT !.pc = "refused", !.action = h]]
                  /\ UNCHANGED grants
             ELSE /\ Len(grants[h]) < MaxGrants
                  /\ grants' = [grants EXCEPT ![h] =
                                  Append(@, [until |-> now + lease, closed |-> 0])]
                  /\ call' = [call EXCEPT ![x] =
                                [Idle EXCEPT !.pc = "claiming", !.action = h,
                                             !.grant = Len(grants[h]) + 1]]
    /\ UNCHANGED <<now, session, stage, address>>

RecordClaimKeeping(x) ==
    /\ call[x].pc \in {"claiming", "refused"}
    /\ LET granted == call[x].pc = "claiming"
       IN  \E delivered \in BOOLEAN :
              /\ Send(EventOf("claim", call[x].action, IF granted THEN "yes" ELSE "no"), delivered)
              /\ call' = [call EXCEPT ![x] =
                            IF granted THEN [@ EXCEPT !.pc = "holding"] ELSE Idle]
    /\ UNCHANGED <<now, anchors, stage, address, grants>>

\* The claim is returned to the caller only when the send succeeds.
RecordClaim(x) ==
    /\ call[x].pc \in {"claiming", "refused"}
    /\ LET granted == call[x].pc = "claiming"
       IN  \E delivered \in BOOLEAN :
              /\ Send(EventOf("claim", call[x].action, IF granted THEN "yes" ELSE "no"), delivered)
              /\ call' = [call EXCEPT ![x] =
                            IF granted /\ delivered THEN [@ EXCEPT !.pc = "holding"] ELSE Idle]
    /\ UNCHANGED <<now, anchors, stage, address, grants>>

\* executeApproved up to input.execute().  The status of the anchor is not looked at.
Begin(x) ==
    LET a == anchors[call[x].action]
    IN  /\ call[x].pc = "holding"
        /\ now < a.expires
        /\ now < a.claimExpires
        /\ call' = [call EXCEPT ![x] = [@ EXCEPT !.pc = "executing", !.at = now]]
        /\ UNCHANGED <<now, anchors, session, stage, address, grants>>

\* input.execute() settles: the transaction took effect, or the call throws.
Execute(x) ==
    /\ call[x].pc = "executing"
    /\ \E next \in {"effected", "holding"} : call' = [call EXCEPT ![x] = [@ EXCEPT !.pc = next]]
    /\ UNCHANGED <<now, anchors, session, stage, address, grants>>

\* The current grant of an action is the last one.
CloseGrant(h) == grants' = [grants EXCEPT ![h][Len(grants[h])].closed = @ + 1]

SuccessReceipt(x) == [hash |-> call[x].action, executor |-> address[x], status |-> "success"]

\* traceGuard.complete with the nowMs read before execute(), or the error it throws.
CompleteOrStay(x) ==
    /\ call[x].pc = "effected"
    /\ LocalComplete(call[x].action, SuccessReceipt(x), call[x].at)
    /\ CloseGrant(call[x].action)
    /\ call' = [call EXCEPT ![x] = [@ EXCEPT !.pc = "recording"]]
    /\ UNCHANGED <<now, session, stage, address>>

Complete(x) ==
    /\ call[x].pc = "effected"
    /\ \/ /\ LocalComplete(call[x].action, SuccessReceipt(x), call[x].at)
          /\ CloseGrant(call[x].action)
          /\ call' = [call EXCEPT ![x] = [@ EXCEPT !.pc = "recording"]]
       \/ /\ ~Closable(call[x].action, address[x], call[x].at)
          /\ call' = [call EXCEPT ![x] = [@ EXCEPT !.pc = "holding"]]
          /\ UNCHANGED <<anchors, grants>>
    /\ UNCHANGED <<now, session, stage, address>>

RecordReceipt(x) ==
    /\ call[x].pc = "recording"
    /\ \E delivered \in BOOLEAN : Send(EventOf("receipt", call[x].action, "no"), delivered)
    /\ call' = [call EXCEPT ![x] = [@ EXCEPT !.pc = "holding"]]
    /\ UNCHANGED <<now, anchors, stage, address, grants>>

\* The holder of a claim gives the action up: traceGuard.fail.
GiveUp(x) ==
    /\ call[x].pc = "holding"
    /\ LocalFail(call[x].action, address[x], now)
    /\ CloseGrant(call[x].action)
    /\ UNCHANGED <<now, session, stage, address, call>>

\* The executor's process restarts and has forgotten its claim.
Crash(x) ==
    /\ call[x].pc # "idle"
    /\ call' = [call EXCEPT ![x] = Idle]
    /\ UNCHANGED <<now, anchors, session, stage, address, grants>>

CallStep(x) == RecordClaim(x) \/ Execute(x) \/ Complete(x) \/ RecordReceipt(x)

ExecutorStep(x) == \/ \E h \in Hashes : ClaimOnGuard(x, h)
                   \/ Begin(x)
                   \/ CallStep(x)
                   \/ GiveUp(x)
                   \/ Crash(x)

CoordinatorStep(h) == Propose(h) \/ Decide(h) \/ AnchorOnGuard(h) \/ RecordAnchor(h)

HeavyTick == LocalTick /\ UNCHANGED <<session, stage, address, call, grants>>

HeavyNext == \/ HeavyTick
             \/ \E h \in Hashes : CoordinatorStep(h)
             \/ \E x \in Executors : ExecutorStep(x)

\* A call under way goes on: its promises settle.
CallsGoOn == \A x \in Executors : WF_heavyVars(CallStep(x))

HeavySpec == HeavyInit /\ [][HeavyNext]_heavyVars /\ CallsGoOn

-----------------------------------------------------------------------------
HeavyTypeOK == /\ LocalTypeOK
               /\ session \in Seq(SessionEvent)
               /\ stage \in [Hashes -> Stages]
               /\ address \in [Executors -> Optional]
               /\ call \in [Executors -> Call]
               /\ grants \in [Hashes -> Seq(Grant)]

InTheMiddle(x) == call[x].pc \in {"executing", "effected"}
GrantHeld(x) == grants[call[x].action][call[x].grant]

(***************************************************************************)
(* claim and complete: a granted claim is closed at most once, however     *)
(* many calls are in progress, retried, or late.                           *)
(***************************************************************************)
GrantClosedOnce ==
    \A h \in Hashes : \A g \in DOMAIN grants[h] : grants[h][g].closed <= 1

(***************************************************************************)
(* claim: two executors run the same action under different claims only if *)
(* the lease of the earlier claim has ended or that claim was closed.      *)
(* They may well run it at the same time.                                  *)
(***************************************************************************)
OverlapOnlyAfterLapse ==
    \A x, y \in Executors :
        /\ InTheMiddle(x) /\ InTheMiddle(y)
        /\ call[x].action = call[y].action
        /\ call[x].grant < call[y].grant
        => GrantHeld(x).until <= now \/ GrantHeld(x).closed > 0

(***************************************************************************)
(* docs/protocol.md:484-486: "No approved PolicyDecision, no execution. No *)
(* successful ActionClaim, no execution."  A receipt in the session has    *)
(* the proposal, the approval and a successful claim of its action before  *)
(* it, in that order, whichever sends failed and whoever crashed.          *)
(***************************************************************************)
ReceiptRestsOnClaim ==
    \A j \in DOMAIN session : session[j].type = "receipt" =>
        \E p, d, c \in 1 .. j - 1 :
            /\ p < d /\ d < c
            /\ session[p].type = "proposal"
            /\ session[d].type = "decision" /\ session[d].says = "yes"
            /\ session[c].type = "claim" /\ session[c].says = "yes"
            /\ \A i \in {p, d, c} : session[i].trace = session[j].trace

(***************************************************************************)
(* The one error verify's state check can report of a session honest       *)
(* clients wrote: a claim whose anchor was made on the guard and not yet,  *)
(* or never, recorded.                                                     *)
(***************************************************************************)
OnlyAnchorsGoMissing ==
    \A j \in Unfounded(session) : session[j].type = "claim"

(***************************************************************************)
(* executeApproved and the record methods: each call comes to an end,      *)
(* whatever the guard answers it and however its sends turn out.           *)
(***************************************************************************)
CallsEnd ==
    \A x \in Executors :
        call[x].pc \in {"claiming", "refused", "executing", "effected", "recording"}
            ~> call[x].pc \in {"idle", "holding"}

(***************************************************************************)
(* packages/sdk/src/index.ts:286: "Cannot execute after claim lease        *)
(* expired".  executeApproved compares the time with the lease of the      *)
(* anchor, not with that of the claim it is given: after another executor  *)
(* has claimed the action anew, an outlived claim runs again.              *)
(***************************************************************************)
StartsUnderOwnLease ==
    \A x \in Executors : call[x].pc = "executing" => call[x].at < GrantHeld(x).until

(***************************************************************************)
(* docs/protocol.md:216: "previous_event_hash links the trace chain".      *)
(* verifyHashChain compares neighbours in the session, so the events of    *)
(* two traces that are interleaved do not verify.                          *)
(***************************************************************************)
TraceChainsVerify == LinksBroken(session) = {}
=============================================================================
