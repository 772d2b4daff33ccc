-------------------------- MODULE SolanaInvariant --------------------------
(***************************************************************************)
(* The inductive invariant behind the safety properties of SolanaRunner:   *)
(* how far the signature on disk has come, what the plan of journal::      *)
(* execute still has to do, and which layers a step of apply has left to   *)
(* remove or to mint.                                                      *)
(***************************************************************************)
EXTENDS SolanaRunner

Executing == {"sign", "send", "poll", "settle", "confirmed"}
Applying == {"cover", "remove", "exit", "trim", "enter", "shield", "balance", "clear"}
InMarket == {"Active", "Recovering"}

Working(op) == plan # Null /\ plan.op = op
Whole == Deployed \in {{}, Layers}

Intents == {"Nothing", "Hold", "ExitToQuote", "Deploy", "Recenter"}

DecisionTyped == d \in [lp: Intents, fraction: 0..Full, layers: SUBSET Layers]

\* The clock starts two hours after the epoch, so that an hour has closed.
ClockInv == now >= 2 * HourTicks

\* solana_pending.json: nothing else is on the wire, what status said of it, and
\* what it does or did to its layer.
SignatureInv ==
    /\ \A t \in wire : t = pending
    /\ pending = Null => answer = "unknown"
    /\ answer # "unknown" => wire = {}
    /\ pending # Null =>
          /\ workflow
          /\ pc \in {"down", "reconcile"} \cup (Executing \ {"sign"})
          /\ pending.op \in {"mint", "increase", "remove"} => pending.layer \in Layers
          /\ pending.op = "increase" => pos[pending.layer] > 0
          /\ pending.op = "remove" =>
                IF answer = "ok" /\ pending.index = 1
                THEN pos[pending.layer] = 0 ELSE pos[pending.layer] > 0
          /\ pending.op = "mint" /\ answer = "ok" => pos[pending.layer] > 0

\* What the confirmation of the pending transaction makes of the records.
Recorded == CASE pending.op = "mint" -> tracked \cup {pending.layer}
              [] pending.op = "remove" /\ pending.index = 1 -> tracked \ {pending.layer}
              [] OTHER -> tracked

\* solana_positions.json lags the chain by one confirmation and no more.
RecordInv ==
    /\ answer # "ok" \/ pc = "confirmed" => tracked = Deployed
    /\ pending # Null /\ answer = "ok" => Recorded = Deployed

\* journal::execute: where its plan is.
PlanInv ==
    /\ plan = Null <=> draft = Null
    /\ plan # Null => pc \in Executing /\ workflow
    /\ pc \in {"sign", "send", "poll"} => plan # Null
    /\ pc \in Executing /\ pc # "sign" => pending # Null
    /\ pc = "send" => wire = {} /\ answer = "unknown"
    /\ pc = "settle" => answer # "unknown"
    /\ pc = "confirmed" => answer = "ok"
    /\ plan # Null =>
          /\ draft = 0 \/ (draft = 1 /\ plan.op \in {"mint", "remove"})
          /\ plan.op \in {"mint", "increase", "remove"} => plan.layer \in Layers
          /\ plan.op \in {"mint", "increase"} => ~exposed
          /\ pc # "sign" =>
                pending = [op |-> plan.op, layer |-> plan.layer, size |-> plan.size,
                           index |-> draft]
          /\ pc = "sign" /\ plan.op \in {"increase", "remove"} => pos[plan.layer] > 0

\* apply: the decision it executes.
DecisionInv ==
    /\ starting => pc \in {"apply", "only_hedge", "ready"} \cup Applying \cup Executing
    /\ starting /\ pc # "ready" => d.lp = "ExitToQuote"
    /\ starting /\ pc = "apply" => workflow
    /\ pc \in {"down", "reconcile"} \/ (pc \in Executing /\ plan = Null) =>
          ~starting /\ d.lp = "Nothing"
    /\ pc = "apply" => d.lp # "Nothing"
    /\ pc = "only_hedge" => d.lp \in {"Hold", "ExitToQuote"}
    /\ pc \in Applying \/ plan # Null =>
          workflow /\ d.lp \in {"ExitToQuote", "Deploy", "Recenter"}
    /\ pc \in {"apply", "cover"} /\ d.lp = "Recenter" => Deployed = Layers

\* Where the layers are neither all nor none, or base is not hedged.
WholeInv ==
    /\ exposed \/ ~Whole => workflow
    /\ pc \in {"ready", "cycle"} \/ (pc = "apply" /\ ~starting) => Whole /\ ~exposed
    /\ pc = "only_hedge" => Whole
    /\ pc = "cover" /\ d.lp = "Deploy" => Whole

\* What apply has still to do for the layers.
ProgressInv ==
    /\ pc = "remove" \/ Working("remove") =>
          /\ todo \subseteq Deployed
          /\ Working("remove") => plan.layer \notin todo
          /\ d.lp = "ExitToQuote" =>
                \A l \in Deployed : l \in todo \/ (Working("remove") /\ l = plan.layer)
          /\ d.lp = "Recenter" => Layers \ d.layers \subseteq Deployed
          /\ Working("remove") /\ d.lp = "Recenter" => plan.layer \in d.layers
          /\ d.lp = "Recenter" => todo \subseteq d.layers
    /\ pc \in {"exit", "trim"} \/ Working("sell") => d.lp = "ExitToQuote" /\ Deployed = {}
    /\ pc \in {"enter", "shield", "balance"} \/ Working("buy") \/ Working("mint")
          \/ Working("increase") =>
          /\ d.lp \in {"Deploy", "Recenter"}
          /\ \A l \in Layers : l \in todo \cup Deployed \/ (Working("mint") /\ l = plan.layer)
    /\ pc = "balance" => Deployed = Layers
    /\ pc = "clear" => ~exposed /\ Deployed = IF d.lp = "ExitToQuote" THEN {} ELSE Layers

\* The phases: a strategy in the market holds every layer or is about to, and a
\* halt is never left.
PhaseInv ==
    /\ pc = "cycle" /\ mem.phase \in InMarket => Deployed = Layers
    /\ pc \in {"apply", "only_hedge"} \cup Applying \cup Executing /\ ~starting
          /\ mem.phase \in InMarket /\ d.lp # "Nothing" =>
          /\ d.lp # "ExitToQuote"
          /\ d.lp = "Hold" => Deployed = Layers
    /\ checkpoint.phase = "Halted" =>
          /\ pc # "down" => mem.phase = "Halted"
          /\ pc = "apply" \/ pc \in Applying \/ plan # Null => d.lp \notin {"Deploy", "Recenter"}

IInv ==
    /\ TypeOK /\ DecisionTyped /\ ClockInv /\ SignatureInv /\ RecordInv /\ PlanInv
    /\ DecisionInv /\ WholeInv /\ ProgressInv /\ PhaseInv
=============================================================================
