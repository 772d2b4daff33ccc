----------------------------- MODULE EthRunner -----------------------------
(***************************************************************************)
(* The ETH strategies in the live engine: the cycle that observes, decides *)
(* and saves, the LP workflow as apply() runs it for the band profile, the *)
(* withdrawal of an entry whose risk changed between its transactions      *)
(* (BandEntryRisk), and restarts (engine/mod.rs, engine/live.rs).  The     *)
(* permit of rearm-entry and the layers are those of LiveEngine; here      *)
(* there is one layer and no permit.                                       *)
(***************************************************************************)
EXTENDS EthBand

CONSTANTS
    Equities,   \* the account's equity, of which the environment chooses
    MaxTime,    \* bound: the clock stops here
    MaxFaults   \* bound: errors that end the process, and kills

\* An account with an equity of nothing is not observed.
ASSUME EquitiesAssumption == Equities \subseteq Nat \ {0}

VARIABLES
    checkpoint, lpHistory, workflow,  \* files
    lp,         \* chain: the position is open
    flat,       \* no base in the wallet and no short
    flying,     \* the transaction of pending.json when the process died
    now, faults,
    band,       \* the configured profile
    pc, mem,
    d,          \* the decision being executed
    unwinding,  \* why the workflow is an exit nobody decided, or "no"
    seen,       \* history variable: the observation decided upon
    opened,     \* history variable: some position was ever opened
    mintedAt,   \* history variable: when the position was opened
    leftAt,     \* history variable: when an exit was last decided, or an Active
                \* strategy left its position (a roll, an unwound entry)
    run,        \* history variable: the last hours found healthy in a row
    best, high  \* history variables: the highest equity saved, since there is
                \* a basis and since the decision to open the position

files == <<checkpoint, lpHistory, workflow>>
inventory == <<lp, flat, flying>>
process == <<pc, mem, d, unwinding>>
clock == <<now, faults, band>>
ghosts == <<seen, opened, mintedAt, leftAt, run, best, high>>
vars == <<files, inventory, process, clock, ghosts>>

Steps == {"down", "loaded", "reconciled", "recover", "finish", "cycle",
          "decided", "apply", "remove", "rolling", "swap", "mint", "sell",
          "clear", "close"}

NoSight == [at |-> 0, raw |-> 0, run |-> {}, range |-> FALSE]

NeverLeft == [at |-> 0, range |-> FALSE]

SeenLp == lpHistory \/ lp

Goto(step) ==
    /\ pc' = step
    /\ UNCHANGED <<clock>>

-----------------------------------------------------------------------------
(* Start-up. *)

RestoreEntryHistory(s, everOpened) ==
    IF everOpened THEN [s EXCEPT !.history = "Established"]
    ELSE IF s.history = "LegacyUnknown" /\ s.phase = "Warmup"
         THEN [s EXCEPT !.history = "Initial"] ELSE s

Load ==
    /\ pc = "down"
    /\ lpHistory' = (SeenLp \/ checkpoint.history = "Established")
    /\ mem' = ClearStreak(RestoreEntryHistory(checkpoint, lpHistory'))
    /\ Goto("loaded")
    /\ UNCHANGED <<checkpoint, workflow, inventory, d, unwinding, ghosts>>

Reconcile ==
    /\ pc = "loaded"
    /\ \E landed \in IF flying = "none" THEN {FALSE} ELSE BOOLEAN :
         /\ lp' = IF landed THEN flying = "mint" ELSE lp
         /\ opened' = (opened \/ lp')
         /\ mintedAt' = IF ~lp' THEN 0 ELSE IF lp THEN mintedAt ELSE now
         /\ leftAt' = IF lp' THEN (IF lp THEN leftAt ELSE NeverLeft)
                      ELSE IF lp /\ checkpoint.phase = "Active"
                      THEN [at |-> now, range |-> FALSE] ELSE leftAt
    /\ flying' = "none"
    /\ lpHistory' = (lpHistory \/ lp')
    /\ Goto("reconciled")
    /\ UNCHANGED <<checkpoint, workflow, flat, mem, d, unwinding,
                   seen, run, best, high>>

\* recovery.rs pauses: the strategy has yet to adopt the pause.
PausedByRecovery(s) ==
    ClearStreak([s EXCEPT !.phase = "Paused", !.pause = now,
                          !.anchored = FALSE, !.healthy = 0])

PauseIncompleteInventory(s) ==
    IF s.phase = "Active" /\ ~lp THEN PausedByRecovery(s) ELSE s

\* Variant: unwinding ends a halt.
FinishByPausing(s) == PausedByRecovery(s)

FinishWorkflowRecovery(s) ==
    IF s.phase = "Halted" THEN ClearStreak([s EXCEPT !.healthy = 0])
                          ELSE PausedByRecovery(s)

SaveReconciled ==
    /\ pc = "reconciled"
    /\ mem' = PauseIncompleteInventory(ObserveLp(mem, lp))
    /\ checkpoint' = mem'
    /\ Goto(IF workflow THEN "recover" ELSE "cycle")
    /\ UNCHANGED <<lpHistory, workflow, inventory, d, unwinding, ghosts>>

\* An unfinished workflow is answered with an exit, never replayed.
RecoverWorkflow ==
    /\ pc = "recover"
    /\ d' = "ExitToQuote"
    /\ unwinding' = "restart"
    /\ Goto("apply")
    /\ UNCHANGED <<files, inventory, mem, ghosts>>

FinishRecovery ==
    /\ pc = "finish"
    /\ mem' = FinishWorkflowRecovery(mem)
    /\ checkpoint' = IF unwinding = "restart" THEN mem' ELSE checkpoint
    /\ d' = "Nothing"
    /\ unwinding' = "no"
    /\ Goto(IF unwinding = "restart" THEN "cycle" ELSE "close")
    /\ UNCHANGED <<lpHistory, workflow, inventory, ghosts>>

-----------------------------------------------------------------------------
(* One cycle. *)

\* The account starts with Capital: only differences to the basis matter.
Frames ==
    [now: {now}, valid: BOOLEAN, candles: BOOLEAN,
     raw: IF best = 0 THEN {Capital} ELSE Equities,
     market: {"danger", "uneasy", "recovered"}, lp: {lp},
     side: IF lp THEN -1..1 ELSE {0}]

\* Observations that differ in nothing that is read are one.
Distinct(f) ==
    /\ ~f.valid => ~f.candles /\ f.raw = Capital
    /\ ~f.candles => f.market = "danger"
    /\ f.market = "danger" => f.side = 0
    /\ ~band => f.side # -1

\* The hours in a row found healthy at their first observation, without a gap
\* in the observations and without a danger since.
RunAfter(f) ==
    LET kept == IF mem.observed > 0 /\ f.now - mem.observed > MaxAge THEN {} ELSE run
    IN  CASE ~f.valid \/ ~f.candles \/ f.market = "danger" -> {}
          [] f.valid /\ f.candles /\ f.market # "danger" /\ Hour(f.now) = mem.hour -> kept
          [] f.valid /\ f.candles /\ f.market = "uneasy" /\ Hour(f.now) # mem.hour -> {}
          [] OTHER -> {h \in kept : Hour(f.now) - h < Need} \cup {Hour(f.now)}

Assess ==
    /\ pc = "cycle"
    /\ \E f \in {g \in Frames : Distinct(g)}, budget \in BOOLEAN :
         LET raw == Evaluate(mem, band, f)
             r == IF raw.lp = "Deploy" /\ ~budget THEN Deferred(mem, raw, flat) ELSE raw
         IN  /\ mem' = r.state
             /\ d' = r.lp
             /\ seen' = [at |-> now, raw |-> IF f.valid THEN f.raw ELSE 0,
                         run |-> RunAfter(f), range |-> r.range]
    /\ lpHistory' = SeenLp
    /\ Goto("decided")
    /\ UNCHANGED <<checkpoint, workflow, inventory, unwinding,
                   opened, mintedAt, leftAt, run, best, high>>

\* The history variables best and high, once a decision is saved.
BestAfter == IF band /\ mem.origin = 0 THEN 0 ELSE Larger(best, seen.raw)

HighOf(intent, raw) ==
    CASE intent \in {"Deploy", "Recenter"} -> raw
      [] intent = "ExitToQuote" -> 0
      [] intent = "Nothing" -> high
      [] OTHER -> Larger(high, raw)

HighAfter == HighOf(d, seen.raw)

Save ==
    /\ pc = "decided"
    /\ checkpoint' = mem
    /\ run' = seen.run
    /\ best' = BestAfter
    /\ high' = HighAfter
    /\ leftAt' = IF d = "ExitToQuote" /\ lp
                 THEN [at |-> seen.at, range |-> seen.range] ELSE leftAt
    /\ seen' = NoSight
    /\ Goto(IF d \in {"Nothing", "Hold"} THEN "close" ELSE "apply")
    /\ UNCHANGED <<lpHistory, workflow, inventory, mem, d, unwinding, opened, mintedAt>>

Close ==
    /\ pc = "close"
    /\ mem' = ObserveLp(mem, lp)
    /\ checkpoint' = mem'
    /\ d' = "Nothing"
    /\ Goto("cycle")
    /\ UNCHANGED <<lpHistory, workflow, inventory, unwinding, ghosts>>

-----------------------------------------------------------------------------
(* The LP workflow. *)

BeginApply ==
    /\ pc = "apply"
    /\ workflow' = TRUE
    /\ lpHistory' = SeenLp
    /\ Goto(IF lp THEN "remove" ELSE IF d = "Deploy" THEN "swap" ELSE "sell")
    /\ UNCHANGED <<checkpoint, inventory, mem, d, unwinding, ghosts>>

AfterRemoval == IF d = "Recenter" THEN "rolling" ELSE "sell"

Remove ==
    /\ pc = "remove"
    /\ lp' = FALSE /\ flat' = FALSE
    /\ leftAt' = IF checkpoint.phase = "Active" THEN [at |-> now, range |-> FALSE]
                                               ELSE leftAt
    /\ mintedAt' = 0
    /\ Goto(AfterRemoval)
    /\ UNCHANGED <<files, flying, mem, d, unwinding, seen, opened, run, best, high>>

\* roll_delay_seconds: inventory and short are kept, time passes.
RollDelay ==
    /\ pc = "rolling"
    /\ Goto("swap")
    /\ UNCHANGED <<files, inventory, mem, d, unwinding, ghosts>>

\* What entry_guard sees: whether the entry may go on.
Guard(market, raw) ==
    /\ market # "danger"
    /\ band => EntryEquitySafe(checkpoint, raw)

Swap ==
    /\ pc = "swap"
    /\ \E market \in {"danger", "recovered"}, raw \in Equities : Guard(market, raw)
    /\ flat' = FALSE
    /\ Goto("mint")
    /\ UNCHANGED <<files, lp, flying, mem, d, unwinding, ghosts>>

Mint ==
    /\ pc = "mint"
    /\ \E market \in {"danger", "recovered"}, raw \in Equities : Guard(market, raw)
    /\ lp' = TRUE
    /\ lpHistory' = TRUE
    /\ opened' = TRUE
    /\ mintedAt' = now
    /\ leftAt' = NeverLeft
    /\ Goto("clear")
    /\ UNCHANGED <<checkpoint, workflow, flat, flying, mem, d, unwinding,
                   seen, run, best, high>>

\* BandEntryRisk with nothing pending: the inventory is taken out at once.
WithdrawEntry ==
    /\ pc \in {"swap", "mint"}
    /\ band
    /\ \E market \in {"danger", "recovered"}, raw \in Equities : ~Guard(market, raw)
    /\ d' = "ExitToQuote"
    /\ unwinding' = "risk"
    /\ Goto("apply")
    /\ UNCHANGED <<files, inventory, mem, ghosts>>

Sell ==
    /\ pc = "sell"
    /\ flat' = TRUE
    /\ Goto("clear")
    /\ UNCHANGED <<files, lp, flying, mem, d, unwinding, ghosts>>

ClearWorkflow ==
    /\ pc = "clear"
    /\ workflow' = FALSE
    /\ Goto(IF unwinding = "no" THEN "close" ELSE "finish")
    /\ UNCHANGED <<checkpoint, lpHistory, inventory, mem, d, unwinding, ghosts>>

-----------------------------------------------------------------------------
(* The process dies, or an error ends it; the clock. *)

Unsettled ==
    CASE pc = "mint" -> {"none", "mint"}
      [] pc = "remove" -> {"none", "remove"}
      [] OTHER -> {"none"}

Restart ==
    /\ pc # "down"
    /\ faults < MaxFaults
    /\ faults' = faults + 1
    /\ flying' \in IF flying = "none" THEN Unsettled ELSE {flying}
    /\ pc' = "down"
    /\ mem' = NewStrategy
    /\ d' = "Nothing" /\ unwinding' = "no" /\ seen' = NoSight
    /\ UNCHANGED <<files, lp, flat, now, band,
                   opened, mintedAt, leftAt, run, best, high>>

Tick ==
    /\ pc \in {"down", "finish", "cycle", "mint"}
    /\ now < MaxTime
    /\ now' = now + 1
    /\ UNCHANGED <<files, inventory, process, faults, band, ghosts>>

-----------------------------------------------------------------------------
Init ==
    /\ band \in BOOLEAN
    /\ checkpoint = NewStrategy
    /\ lpHistory = FALSE /\ workflow = FALSE
    /\ lp = FALSE /\ flat = TRUE /\ flying = "none"
    /\ now = HourTicks /\ faults = 0
    /\ pc = "down" /\ mem = NewStrategy /\ d = "Nothing" /\ unwinding = "no"
    /\ seen = NoSight
    /\ opened = FALSE /\ mintedAt = 0
    /\ leftAt = NeverLeft
    /\ run = {} /\ best = 0 /\ high = 0

Next ==
    \/ Load \/ Reconcile \/ SaveReconciled \/ RecoverWorkflow \/ FinishRecovery
    \/ Assess \/ Save \/ Close
    \/ BeginApply \/ Remove \/ RollDelay \/ Swap \/ Mint \/ WithdrawEntry
    \/ Sell \/ ClearWorkflow
    \/ Restart \/ Tick

Spec == Init /\ [][Next]_vars

-----------------------------------------------------------------------------
(* Properties. *)

TypeOK ==
    /\ checkpoint \in Strategy /\ mem \in Strategy
    /\ lpHistory \in BOOLEAN /\ workflow \in BOOLEAN
    /\ lp \in BOOLEAN /\ flat \in BOOLEAN
    /\ flying \in {"none", "mint", "remove"}
    /\ now \in Nat /\ faults \in Nat /\ band \in BOOLEAN
    /\ pc \in Steps
    /\ d \in {"Nothing", "Hold", "Deploy", "ExitToQuote", "Recenter"}
    /\ unwinding \in {"no", "restart", "risk"}
    /\ opened \in BOOLEAN /\ mintedAt \in Nat /\ run \in SUBSET Nat
    /\ best \in Nat /\ high \in Nat
    /\ seen \in [at: Nat, raw: Nat, run: SUBSET Nat, range: BOOLEAN]
    /\ leftAt \in [at: Nat, range: BOOLEAN]

\* docs/eth-band.md: 重启不能清除硬停机 - no restart, withdrawal or unwinding ends
\* a halt that was saved (recovery.rs, finish_workflow_recovery).
HaltIsFinal == [][checkpoint.phase = "Halted" => checkpoint'.phase = "Halted"]_vars

\* A position is opened again only after the full cooldown counted from the exit
\* that closed the last one, and Need healthy hours seen in a row without a gap;
\* only leaving the range, in the plain profile, waits a decision bar instead
\* (or the cooldown, if a bar is longer and the exit was interrupted).
\* This holds across restarts, withdrawn entries and failed rolls.
EntryEarned ==
    pc = "decided" /\ d = "Deploy" /\ opened =>
        /\ \A k \in 0..(Need - 1) : Hour(seen.at) - k \in seen.run
        /\ seen.at - leftAt.at >= IF leftAt.range THEN Smaller(BarTicks, Cooldown)
                                                   ELSE Cooldown

\* A roll never happens before the position was held for the minimum time, however
\* often the process restarts (band.rs, entered_ms).
HeldLongEnough ==
    pc = "decided" /\ d = "Recenter" => seen.at - mintedAt >= MinHolding

\* The strategy keeps a position only while the loss from the highest equity it
\* acted upon since it chose to open it is below the early drawdown limit: neither
\* a restart nor a gap in the observations forgets the peak (band.rs, episode_peak).
EpisodeLossBounded ==
    pc = "decided" /\ band /\ d \in {"Hold", "Recenter"} =>
        (Larger(high, seen.raw) - seen.raw) * 400 < EpisodeLoss * mem.peak

\* ... and it stops for good once the loss from the highest equity it ever saved
\* reaches the drawdown limit, whatever was opened, closed or restarted since:
\* basis and peak are never moved (band.rs, managed_equity).
LossAnchored ==
    pc = "decided" /\ best # 0 /\ seen.raw # 0
        /\ (best - seen.raw) * 400 >= MaxLoss * mem.peak
        => mem.phase = "Halted"

\* While it decides, an Active strategy has its position: no interrupted or
\* withdrawn entry is taken for a finished one.
ActiveMeansDeployed ==
    pc = "cycle" /\ mem.phase = "Active" => lp

\* What the phase and the clock of a position say is true, however it was opened
\* and whoever observed it first.
Consistent == TypeOK /\ ActiveMeansDeployed /\ HeldLongEnough
=============================================================================
