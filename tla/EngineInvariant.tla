-------------------------- MODULE EngineInvariant --------------------------
(***************************************************************************)
(* The inductive invariant behind the safety properties of LiveEngine: how *)
(* memory, files and inventory fit together at each step of a life, which  *)
(* layers a decision finds and leaves, what the history of entries rests   *)
(* on, and which hours the healthy ones are.                               *)
(***************************************************************************)
EXTENDS LiveEngine

InMarket == {"Active", "Recovering"}

\* The steps of apply after its record, and those of a decision on its way there.
Applying == {"remove", "sell", "mint", "bought", "scale", "protect", "clear"}
Deciding == {"decided", "save"}

\* Where the strategy in memory is the one on disk,
SavedInv ==
    pc \notin {"down", "loaded", "reconciled", "decided", "save"} => checkpoint = mem

\* and what start-up and decision change of it.
LoadedInv ==
    /\ pc \in {"loaded", "reconciled"} =>
         /\ mem.phase = checkpoint.phase /\ mem.pause = checkpoint.pause
         /\ mem.hour = checkpoint.hour /\ mem.healthy = checkpoint.healthy
    /\ pc \in Deciding /\ checkpoint.phase = "Halted" => mem.phase = "Halted"

\* workflow.json brackets apply, and a start-up unwinds before it decides.
WorkflowInv ==
    /\ flying # Null => workflow /\ pc \in {"down", "loaded"}
    /\ pc \in Applying \cup {"recover"} => workflow
    /\ pc \in Deciding \cup {"ready", "cycle", "observed", "close", "finish"} => ~workflow
    /\ pc = "apply" => (workflow <=> unwinding)
    /\ unwinding => pc \in {"apply", "remove", "sell", "clear", "finish"}
    /\ unwinding => d = RestartExit
    /\ pc = "finish" => unwinding

\* The layers: all or none, but for an unfinished workflow.
LayersInv ==
    /\ ~workflow => Deployed \in {{}, Layers}
    /\ checkpoint.phase = "Warmup" => Deployed = {} /\ ~workflow
    /\ pc \in {"recover", "ready", "cycle", "observed", "close"} /\ ~workflow
          /\ mem.phase \in InMarket => Deployed = Layers
    /\ pc = "finish" => Deployed = {}

\* The decision, and what apply has still to do for it.
DecisionInv ==
    /\ pc \in Deciding \cup {"apply"} \cup Applying =>
         /\ mem.phase = "Warmup" => d.lp \in {"Nothing", "Hold"} /\ Deployed = {}
         /\ d.lp \in {"Deploy", "Recenter"} => mem.phase \in InMarket
         /\ mem.phase \in InMarket /\ ~unwinding => d.lp # "ExitToQuote"
         /\ d.lp = "Deploy" => d.fraction > 0
    /\ pc \in Deciding /\ mem.phase \in InMarket /\ d.lp \in {"Nothing", "Hold"} =>
         Deployed = Layers
    /\ pc \in Deciding \cup {"apply"} /\ d.lp = "Recenter" => Deployed = Layers
    /\ pc \in Applying \cup {"apply"} => d.lp \in {"Deploy", "ExitToQuote", "Recenter"}
    /\ pc = "remove" => d.lp # "Deploy"
    /\ pc = "remove" /\ d.lp = "Recenter" =>
         todo \subseteq d.layers /\ Layers \subseteq Deployed \cup d.layers
    /\ pc = "remove" /\ d.lp = "ExitToQuote" => todo = Deployed
    /\ pc = "sell" => d.lp = "ExitToQuote" /\ Deployed = {}
    /\ pc \in {"mint", "bought"} =>
         d.lp \in {"Deploy", "Recenter"} /\ Layers \subseteq Deployed \cup todo
    /\ pc = "scale" => d.lp = "Deploy" /\ Deployed = Layers /\ Layers # {}
    /\ pc = "protect" => d.lp # "ExitToQuote" /\ Deployed = Layers /\ Layers # {}
    /\ pc = "clear" /\ d.lp = "ExitToQuote" => Deployed = {}
    /\ pc = "clear" /\ d.lp # "ExitToQuote" => Deployed = Layers /\ Layers # {}

\* A waiver in the decision has taken the grant with it.
WaiverInv ==
    /\ credit >= 0 /\ (permit = "armed" => credit > 0)
    /\ pc \in Deciding \cup {"apply"} /\ d.waiver => credit > 0
    /\ pc = "decided" /\ d.waiver => permit = "armed"
    /\ pc \in {"save", "apply"} /\ d.waiver => permit # "armed"

\* Whether an account ever entered is known to the files or shown by the chain,
\* and to memory once it decides.
HistoryInv ==
    /\ opened => \/ lpHistory \/ Deployed # {}
                 \/ checkpoint.history = "Established"
    /\ pc \in {"remove", "sell"} /\ Deployed # {} => lpHistory
    /\ pc \in {"loaded", "reconciled"} /\ (opened \/ checkpoint.history = "Established")
          => lpHistory
    /\ pc = "loaded" /\ lpHistory => mem.history = "Established"
    /\ pc = "reconciled" /\ lpHistory => mem.history = "Established" \/ Deployed # {}
    /\ pc \in Deciding /\ checkpoint.history = "Established" => mem.history = "Established"
    /\ opened /\ (unwinding \/ pc \in Deciding \cup
                   {"recover", "ready", "cycle", "observed", "apply", "remove", "sell"})
          => mem.history = "Established"
    /\ opened /\ pc \in {"mint", "bought", "scale", "protect", "clear", "close"}
          => mem.history = "Established" \/ Deployed # {}

\* A first entry that is put off leaves a strategy paused without a beginning of the
\* pause.  It never entered, so the cooldown is not asked of it.
NeverEntered ==
    /\ ~lpHistory /\ Deployed = {} /\ flying = Null
    /\ checkpoint.history = "Initial" /\ (pc # "down" => mem.history = "Initial")

FirstInv ==
    /\ \/ checkpoint.phase = "Warmup"
       \/ checkpoint.phase = "Paused" /\ checkpoint.pause < pausedAt
       => NeverEntered
    /\ pc \in Deciding /\ mem.phase = "Warmup" => checkpoint.phase = "Warmup"

\* The last hours a state counts as healthy are among those found so.
Counted(s, hours) ==
    /\ s.hour <= Hour(now)
    /\ s.hour = 0 => s.healthy = 0
    /\ \A k \in 0..Need : k < s.healthy => s.hour - k \in hours

\* A pause is served since it began, by hours that were found healthy.
PauseInv ==
    /\ Counted(checkpoint, run) /\ pausedAt <= now
    /\ pc \in Deciding =>
         /\ Counted(mem, seen.run) /\ seen.at <= now
         /\ mem.phase = "Paused" /\ checkpoint.phase \notin {"Paused", "Warmup"}
              => seen.at <= mem.pause
         /\ mem.phase = "Paused" /\ checkpoint.phase = "Paused"
              => mem.pause = checkpoint.pause
         /\ mem.phase = "Recovering" /\ checkpoint.phase = "Paused" =>
              /\ mem.hour \in {Hour(seen.at) - 1, Hour(seen.at)} /\ mem.healthy = Need
              /\ seen.at - pausedAt >= Cooldown

IInv ==
    /\ TypeOK /\ SavedInv /\ LoadedInv /\ WorkflowInv /\ LayersInv /\ DecisionInv
    /\ WaiverInv /\ HistoryInv /\ FirstInv /\ PauseInv
=============================================================================
