---------------------------- MODULE PtbInspector ----------------------------
(***************************************************************************)
(* DefaultPtbInspector of packages/ptb-inspector: the commands of a        *)
(* transaction are normalized, the facts a policy judges are collected     *)
(* from them and from the registry entry of the first call, and a manifest *)
(* is compared with the facts.  Operators only; ActionReview runs them.    *)
(*                                                                         *)
(* A transaction is [format, commands].  In format "sui" a command is a    *)
(* record with its kind and                                                *)
(*   MoveCall         target, args                                         *)
(*   SplitCoins       coin, amounts                                        *)
(*   MergeCoins       args                                                 *)
(*   TransferObjects  args, address                                        *)
(*   MakeMoveVec      args                                                 *)
(*   Publish          dependencies                                         *)
(*   Upgrade          package, dependencies, args                          *)
(* and an argument is one of [kind |-> "gas"], [kind |-> "object", id],    *)
(* [kind |-> "pure", value] and [kind |-> "nested", command, result].      *)
(* In format "inspectable" the commands are normalized already.  Bytes     *)
(* that are neither are a "sui" transaction without commands.              *)
(*                                                                         *)
(* An array of what some of the commands give keeps it at the places of    *)
(* these commands: a function on places, in their order.                   *)
(*                                                                         *)
(* Left out: type arguments, module names, hashes of bytes (the bytes      *)
(* stand for them), what errors say.                                       *)
(***************************************************************************)
EXTENDS Protocol, Sequences, SequencesExt

CommandKinds == {"MoveCall", "SplitCoins", "MergeCoins", "TransferObjects", "MakeMoveVec",
                 "Publish", "Upgrade"}

-----------------------------------------------------------------------------
(***************************************************************************)
(* Arguments.                                                              *)
(***************************************************************************)
ObjectIds(arg) == CASE arg.kind = "gas" -> {"gas"}
                    [] arg.kind = "object" -> {arg.id}
                    [] OTHER -> {}
IdsOf(args) == UNION {ObjectIds(args[n]) : n \in DOMAIN args}

\* A pure input that decodes, as an address or as a u64.
Decoded(arg) == IF arg.kind = "pure" THEN arg.value ELSE Unknown

\* The coin is a result of a SplitCoins command before this one.
FromSplit(commands, here, arg) ==
    /\ arg.kind = "nested"
    /\ arg.command \in 1 .. here - 1
    /\ commands[arg.command].kind = "SplitCoins"
    /\ arg.result \in DOMAIN commands[arg.command].amounts
SplitAmount(commands, arg) == Decoded(commands[arg.command].amounts[arg.result])

\* What Transaction.from reads: arrays of known commands, amounts that are integers
\* if they decode.
WellFormed(ptb) ==
    ptb.format = "sui" =>
        /\ ptb.commands \in Seq(Range(ptb.commands))
        /\ \A n \in DOMAIN ptb.commands :
              LET c == ptb.commands[n]
              IN  /\ c.kind \in CommandKinds
                  /\ c.kind = "TransferObjects" => c.args \in Seq(Range(c.args))
                  /\ c.kind = "SplitCoins" =>
                        \A i \in DOMAIN c.amounts : Decoded(c.amounts[i]) \in Nat \cup {Unknown}

\* A sum that passes over what it does not know.
TotalOfKnown(amounts) ==
    SumFunctionOnSet(amounts, {n \in DOMAIN amounts : amounts[n] # Unknown})

\* The sum of amounts that are all known.
Total(amounts) == IF Unknown \in Range(amounts) THEN Unknown ELSE SumFunction(amounts)

-----------------------------------------------------------------------------
(***************************************************************************)
(* Normalized commands.  A split is no command; the coins it makes count   *)
(* with the transfer that sends them.  Every split coin is called SUI.     *)
(***************************************************************************)
Normalized(kind, objects, packages) ==
    [kind |-> kind, objects |-> objects, packages |-> packages]

Splits(commands, here) ==
    {i \in DOMAIN commands[here].args : FromSplit(commands, here, commands[here].args[i])}

Transfer(commands, here) ==
    LET c      == commands[here]
        splits == Splits(commands, here)
    IN  [kind      |-> "transfer",
         recipient |-> Decoded(c.address),
         amount    |-> IF splits = {} THEN Unknown
                       ELSE Total([i \in splits |-> SplitAmount(commands, c.args[i])]),
         coin      |-> IF splits = {} THEN Unknown ELSE "SUI",
         objects   |-> IdsOf(c.args) \cup UNION {ObjectIds(commands[c.args[i].command].coin)
                                                   : i \in splits},
         packages  |-> {}]

MoveCall(c) == [kind |-> "moveCall", target |-> c.target,
                objects |-> IdsOf(c.args), packages |-> {c.target.package}]

Normalize(commands, here) ==
    LET c == commands[here]
    IN  CASE c.kind = "MoveCall"        -> MoveCall(c)
          [] c.kind = "MergeCoins"      -> Normalized("mergeCoins", IdsOf(c.args), {})
          [] c.kind = "TransferObjects" -> Transfer(commands, here)
          [] c.kind = "MakeMoveVec"     -> Normalized("makeMoveVec", IdsOf(c.args), {})
          [] c.kind = "Publish"         -> Normalized("publish", {}, c.dependencies)
          [] c.kind = "Upgrade"         -> Normalized("upgrade", IdsOf(c.args),
                                                      c.dependencies \cup {c.package})

OpaquePtb == Normalized("custom", {}, {})

Commands(ptb) ==
    LET given == {n \in DOMAIN ptb.commands : ptb.commands[n].kind # "SplitCoins"}
    IN  IF ptb.format = "inspectable" THEN ptb.commands
        ELSE IF given = {} THEN <<OpaquePtb>>
        ELSE [n \in given |-> Normalize(ptb.commands, n)]

OfKind(commands, kind) == RestrictValues(commands, LAMBDA c : c.kind = kind)
Has(commands, kind) == \E n \in DOMAIN commands : commands[n].kind = kind
First(array) == array[Min(DOMAIN array)]

-----------------------------------------------------------------------------
InferSemanticType(commands) ==
    IF Cardinality(DOMAIN commands) = 1 /\ Has(commands, "transfer") THEN "transfer"
    ELSE IF Has(commands, "moveCall") THEN "move_call"
    ELSE "unknown"

\* A transfer is looked for before a call.
InferRiskByTransfer(commands) ==
    IF Has(commands, "publish") \/ Has(commands, "upgrade") THEN "critical"
    ELSE IF Has(commands, "transfer") THEN "medium"
    ELSE "high"

InferRisk(commands) ==
    IF Has(commands, "publish") \/ Has(commands, "upgrade") THEN "critical"
    ELSE IF Has(commands, "custom") \/ Has(commands, "moveCall") THEN "high"
    ELSE IF Has(commands, "transfer") THEN "medium"
    ELSE "high"

InferValueAtRisk(transfers) ==
    LET coin == First(transfers).coin
    IN  IF DOMAIN transfers = {} THEN None
        ELSE IF \E n \in DOMAIN transfers : transfers[n].coin # coin
             THEN [amount |-> Unknown, coin |-> "mixed"]
        ELSE [amount |-> Total([n \in DOMAIN transfers |-> transfers[n].amount]), coin |-> coin]

\* The entry of the first call: registry maps targets to entries or to None.
Entry(registry, calls) == IF DOMAIN calls = {} THEN None ELSE registry[First(calls)]

\* inspect, inspectAsync: the facts about a transaction, before any simulation.
Inspection(ptb, manifest, registry) ==
    LET commands  == Commands(ptb)
        moves     == OfKind(commands, "moveCall")
        calls     == [n \in DOMAIN moves |-> moves[n].target]
        transfers == OfKind(commands, "transfer")
        entry     == Entry(registry, calls)
        inferred  == InferValueAtRisk(transfers)
        type      == IF entry # None THEN entry.semanticType ELSE InferSemanticType(commands)
    IN  [semanticType |-> type,
         risk         |-> IF entry # None THEN entry.risk ELSE InferRisk(commands),
         expires      |-> manifest.expires,
         calls        |-> calls,
         transfers    |-> transfers,
         objects      |-> UNION {commands[n].objects : n \in DOMAIN commands},
         packages     |-> UNION {commands[n].packages : n \in DOMAIN commands},
         value        |-> IF inferred # None THEN inferred ELSE manifest.value,
         requirements |-> manifest.requirements
                              \cup (IF entry # None THEN entry.requirements ELSE {}),
         opaque       |-> ptb.format = "sui" /\ First(commands).kind = "custom",
         simulation   |-> "none",
         slippage     |-> None]

\* validateManifest; the hash and the action type are those proposePtb filled in.
ManifestValid(manifest, f) ==
    /\ manifest.semanticType \in {f.semanticType, "unknown"}
    /\ manifest.target # None /\ DOMAIN f.calls # {} => manifest.target = First(f.calls)
    /\ manifest.objects = f.objects
    /\ f.value # None /\ manifest.value # None => manifest.value = f.value
    /\ RiskRank(manifest.risk) >= RiskRank(f.risk)
    /\ manifest.expires > 0

\* LocalPtbSimulator.
LocalSimulation(f) == IF f.opaque THEN "failed" ELSE "ok"
=============================================================================
