----------------------------- MODULE SessionLog -----------------------------
(***************************************************************************)
(* What the events of a session say about each other: the evidence an      *)
(* event rests on, and the hash chain.  A log is a sequence of records     *)
(* with the fields type, trace, hash and says; LinksBroken also reads id,  *)
(* the event's hash, and prev, its previousEventHash.                      *)
(***************************************************************************)
EXTENDS Naturals

CONSTANTS NoTrace,      \* an event without a traceId
          NoHash        \* a payload without an actionHash

(***************************************************************************)
(* What an event of a log rests on, as a fact about the log, without the   *)
(* state of the reader who checks it.                                      *)
(***************************************************************************)
\* An event of this kind, in this trace and about this action, stands before position j.
Before(log, j, kind, t, h) ==
    \E i \in DOMAIN log : /\ i < j
                          /\ log[i].type = kind
                          /\ log[i].trace = t
                          /\ log[i].hash = h
                          /\ kind \in {"decision", "claim"} => log[i].says = "yes"

ProposedBefore(log, j, t) ==
    \E i \in DOMAIN log : i < j /\ log[i].type = "proposal" /\ log[i].trace = t

ExecutedBefore(log, j, t) ==
    \E i \in DOMAIN log : /\ i < j
                          /\ log[i].type = "receipt"
                          /\ log[i].trace = t
                          /\ log[i].hash # NoHash

Founded(log, j) ==
    LET e == log[j]
    IN  /\ e.type # "undecodable"
        /\ e.trace # NoTrace =>
              CASE e.type = "decision" -> ProposedBefore(log, j, e.trace)
                [] e.type = "anchor"   -> e.hash # NoHash
                                          /\ Before(log, j, "decision", e.trace, e.hash)
                [] e.type = "claim"    -> e.hash # NoHash
                                          /\ Before(log, j, "anchor", e.trace, e.hash)
                [] e.type = "receipt"  -> e.hash # NoHash
                                          /\ Before(log, j, "claim", e.trace, e.hash)
                [] e.type = "audit"    -> e.says = "yes" \/ ExecutedBefore(log, j, e.trace)
                [] OTHER               -> TRUE

Unfounded(log) == {j \in DOMAIN log : ~Founded(log, j)}

\* The chain of evidence behind a receipt, in its trace and about its action.
EvidenceOf(log, j) ==
    \E p, d, a, c \in DOMAIN log :
        /\ p < d /\ d < a /\ a < c /\ c < j
        /\ log[p].type = "proposal"
        /\ log[d].type = "decision" /\ log[d].says = "yes"
        /\ log[a].type = "anchor"
        /\ log[c].type = "claim" /\ log[c].says = "yes"
        /\ \A i \in {p, d, a, c} : log[i].trace = log[j].trace
        /\ \A i \in {d, a, c} : log[i].hash = log[j].hash

\* verifyHashChain: the events whose previousEventHash is not their predecessor's hash.
LinksBroken(log) == {i \in DOMAIN log : i > 1 /\ log[i].prev # log[i - 1].id}
=============================================================================
