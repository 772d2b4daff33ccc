---------------------------- MODULE EthInvariant ----------------------------
(***************************************************************************)
(* The inductive invariant behind the safety properties of EthRunner: how  *)
(* memory, files and position fit together at each step, what a pause still *)
(* waits for, which hours the healthy ones are, and how far basis, peak and *)
(* episode lie from the equities that were acted upon.                     *)
(***************************************************************************)
EXTENDS EthRunner

\* The steps of apply after its record.
Applying == {"remove", "rolling", "swap", "mint", "sell", "clear"}

Entering == {"rolling", "swap", "mint"}

\* Where the strategy in memory is the one on disk,
SavedInv ==
    pc \notin {"down", "loaded", "reconciled", "decided", "close"} => checkpoint = mem

\* what start-up changes of it,
LoadedInv ==
    pc \in {"loaded", "reconciled"} =>
        /\ mem.phase = checkpoint.phase /\ mem.pause = checkpoint.pause
        /\ mem.anchored = checkpoint.anchored /\ mem.deadline = checkpoint.deadline
        /\ mem.hour = checkpoint.hour /\ mem.healthy = checkpoint.healthy
        /\ mem.peak = checkpoint.peak /\ mem.origin = checkpoint.origin
        /\ mem.entered = checkpoint.entered /\ mem.episode = checkpoint.episode

\* and that no halt is lost before it is saved.
HaltInv ==
    pc \in {"decided", "close"} /\ checkpoint.phase = "Halted" => mem.phase = "Halted"

\* workflow.json brackets apply, and a start-up unwinds before it decides.
WorkflowInv ==
    /\ flying # "none" => workflow /\ pc \in {"down", "loaded"}
    /\ flying = "mint" =>
         ~lp /\ checkpoint.phase = "Active" /\ (band => checkpoint.entered = 0)
    /\ pc \in Applying \cup {"recover"} => workflow
    /\ pc \in {"cycle", "decided", "close", "finish"} => ~workflow
    /\ pc = "apply" => (workflow <=> unwinding # "no")
    /\ unwinding # "no" =>
         pc \in {"apply", "remove", "sell", "clear", "finish"} /\ d = "ExitToQuote"
    /\ pc = "finish" => unwinding # "no"

\* The position, and what apply has still to do with it.
PositionInv ==
    /\ checkpoint.phase = "Warmup" => ~opened /\ ~workflow
    /\ pc \in {"cycle", "close"} /\ mem.phase = "Active" => lp
    /\ pc = "decided" /\ d \in {"Nothing", "Hold"} /\ mem.phase = "Active" => lp
    /\ pc \in {"decided", "apply", "close"} \cup Applying =>
         /\ d \in {"Deploy", "Recenter"} => mem.phase = "Active" /\ (band => mem.entered = 0)
         /\ d = "ExitToQuote" /\ unwinding = "no" => mem.phase \in {"Paused", "Halted"}
         /\ d = "Recenter" => band
    /\ pc = "decided" /\ mem.phase = "Warmup" => d = "Nothing"
    /\ pc \in {"decided", "close"} /\ mem.phase = "Warmup" => ~opened
    /\ pc \in {"decided", "apply"} => (d = "Deploy" => ~lp) /\ (d = "Recenter" => lp)
    /\ pc \in {"apply"} \cup Applying => d \in {"Deploy", "ExitToQuote", "Recenter"}
    /\ pc = "remove" => d # "Deploy" /\ lp
    /\ pc \in Entering => d # "ExitToQuote" /\ ~lp
    /\ pc = "sell" => d = "ExitToQuote" /\ ~lp
    /\ pc = "clear" => (lp <=> d # "ExitToQuote")
    /\ pc = "finish" => ~lp

\* Whether an account ever entered is known to the files, and to memory or the
\* chain once they are read.
HistoryInv ==
    /\ lp => opened
    /\ opened => lpHistory
    /\ opened /\ pc # "down" =>
         mem.history = "Established" \/ (lp /\ pc \in {"reconciled", "clear", "close"})

\* The holding clock does not begin before the position.
Holds(s) == band /\ lp /\ s.entered # 0 => s.entered >= mintedAt

HoldingInv ==
    /\ mintedAt <= now
    /\ Holds(checkpoint)
    /\ pc \in {"decided", "close"} => Holds(mem)

\* What a pause waits for, and what it should.
WaitsUntil(s) ==
    IF ~s.anchored \/ (~band /\ s.deadline = 0) THEN s.pause + Cooldown ELSE s.deadline

Wait(range) == IF range THEN Smaller(BarTicks, Cooldown) ELSE Cooldown

Due == leftAt.at + Wait(leftAt.range)

DeadlineInv ==
    /\ leftAt.at <= now
    /\ opened /\ checkpoint.phase = "Paused" => WaitsUntil(checkpoint) >= Due
    /\ pc \in {"decided", "close"} /\ opened /\ mem.phase = "Paused" =>
         WaitsUntil(mem) >= IF pc = "decided" /\ d = "ExitToQuote" /\ lp
                            THEN seen.at + Wait(seen.range) ELSE Due

\* The last hours a state counts as healthy are among those found so.
Counted(s, hours) ==
    /\ s.hour <= Hour(now)
    /\ s.hour = 0 => s.healthy = 0
    /\ \A k \in 0..Need : k < s.healthy => s.hour - k \in hours

CountedInv ==
    /\ Counted(checkpoint, run)
    /\ pc = "decided" => Counted(mem, seen.run) /\ seen.at = now
    /\ pc = "close" => Counted(mem, run)

\* The peak is no lower than the highest equity saved, nor the episode's than the
\* highest since the decision to open the position.
Peaks(s, b, h) ==
    /\ b # 0 => IF band THEN s.origin # 0 /\ s.peak >= Capital + b - s.origin
                        ELSE s.peak >= b
    /\ band /\ h # 0 => s.origin # 0 /\ s.episode >= Capital + h - s.origin
    /\ s.episode <= s.peak

EquityInv ==
    /\ Peaks(checkpoint, best, high)
    /\ pc = "close" => Peaks(mem, best, high)
    /\ pc = "decided" => Peaks(mem, BestAfter, HighAfter)

\* The properties of a decision.
DecidedInv == EntryEarned /\ HeldLongEnough /\ EpisodeLossBounded /\ LossAnchored

IInv ==
    /\ TypeOK /\ SavedInv /\ LoadedInv /\ HaltInv /\ WorkflowInv /\ PositionInv
    /\ HistoryInv /\ HoldingInv /\ DeadlineInv /\ CountedInv /\ EquityInv /\ DecidedInv
=============================================================================
