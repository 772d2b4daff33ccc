----------------------------- MODULE RiskPhases -----------------------------
(***************************************************************************)
(* The risk phases of the strategy, as functions of its persisted state    *)
(* and of one observation (strategy/mod.rs, strategy/progress.rs), and the *)
(* corrections recovery.rs applies to that state after a restart.          *)
(*                                                                         *)
(* Time is counted in ticks.  Hour(t) is the number of hourly candles that *)
(* have closed by t.  An observation f is a record:                        *)
(*   now       when the strategy is evaluated                              *)
(*   valid     the prices are fresh and finite                             *)
(*   drawdown  equity is below the drawdown limit                          *)
(*   metrics   the candle history is complete                              *)
(*   close     the last candle the history shows as completed              *)
(*   market    "unsafe": a pause signal; "healthy": no resume blocker      *)
(*   revised   the candle remembered as anchor is missing or changed       *)
(*   deployed  the layers that hold a position                             *)
(*   breakout  the layers whose outside streak is long enough              *)
(*                                                                         *)
(* continuity is what tells the two entry points apart: the EVM engine     *)
(* freezes its progress while data is missing and rechecks it afterwards,  *)
(* the Solana runner pauses anew and keeps no anchor.                      *)
(***************************************************************************)
EXTENDS Integers

CONSTANTS
    Layers,     \* the configured LP layers
    HourTicks,  \* ticks of an hour
    Grace,      \* RECHECK_GRACE_MS
    Cooldown,   \* cooldown_hours
    StepTime,   \* recovery_step_hours
    Need,       \* resume_healthy_hours
    Full        \* the whole budget, counted in recovery_fraction steps

ASSUME PhaseAssumption ==
    /\ HourTicks \in Nat \ {0}
    /\ Grace \in Nat
    /\ Cooldown \in Nat
    /\ StepTime \in Nat \ {0}
    /\ Need \in Nat \ {0}
    /\ Full \in Nat \ {0}

Phases == {"Warmup", "Active", "Paused", "Recovering", "Halted"}
Histories == {"Initial", "Established", "LegacyUnknown"}

Hour(t) == t \div HourTicks

(***************************************************************************)
(* The persisted state.  healthy stops counting at Need, beyond which no   *)
(* comparison tells values apart; observed and anchor are 0 when absent.   *)
(***************************************************************************)
Strategy ==
    [history: Histories, phase: Phases, pause: Nat, hour: Nat,
     healthy: 0..Need, fraction: 0..Full, scale: Nat,
     frozen: BOOLEAN, observed: Nat, anchor: Nat]

NewStrategy ==
    [history |-> "Initial", phase |-> "Warmup", pause |-> 0, hour |-> 0,
     healthy |-> 0, fraction |-> 0, scale |-> 0,
     frozen |-> FALSE, observed |-> 0, anchor |-> 0]

ObserveLp(s, deployed) ==
    IF deployed = {} THEN s ELSE [s EXCEPT !.history = "Established"]

Freeze(s) == [s EXCEPT !.frozen = TRUE]

PausedNow(s, now) ==
    [s EXCEPT !.phase = "Paused", !.pause = now]

-----------------------------------------------------------------------------
(* Corrections at start-up. *)

RestoreEntryHistory(s, everOpened) ==
    IF everOpened THEN [s EXCEPT !.history = "Established"]
    ELSE IF s.history = "LegacyUnknown" /\ s.phase = "Warmup"
         THEN [s EXCEPT !.history = "Initial"]
         ELSE s

InvalidateObservations(s) ==
    [s EXCEPT !.healthy = 0, !.anchor = 0, !.observed = 0]

\* Variant: the unwinding pauses a halted strategy too.
FinishByPausing(s, now) ==
    InvalidateObservations([PausedNow(s, now) EXCEPT !.fraction = 0])

FinishWorkflowRecovery(s, now) ==
    LET t == IF s.phase = "Halted" THEN s ELSE PausedNow(s, now)
    IN  InvalidateObservations([t EXCEPT !.fraction = 0])

\* Variant: the saved phase is believed.
KeepIncompleteInventory(s, deployed, now) == s

PauseIncompleteInventory(s, deployed, now) ==
    IF s.phase \in {"Active", "Recovering"} /\ ~(Layers \subseteq deployed)
    THEN InvalidateObservations([PausedNow(s, now) EXCEPT !.fraction = 0])
    ELSE s

-----------------------------------------------------------------------------
(* Healthy hours. *)

\* Whether the count survives an interruption of the observations.
KeepsProgress(s, f) ==
    /\ s.observed # 0 /\ s.anchor # 0
    /\ f.now >= s.observed
    /\ f.now - s.observed <= Grace
    /\ f.close - s.hour \in {0, 1}
    /\ s.anchor = s.hour /\ ~f.revised
    /\ f.market = "healthy"

RecheckProgress(s, f) ==
    IF ~s.frozen THEN s
    ELSE [s EXCEPT !.frozen = FALSE,
                   !.healthy = IF KeepsProgress(s, f) THEN @ ELSE 0]

UnsafeMarket(s, f) ==
    [s EXCEPT !.pause = IF s.phase # "Paused" THEN f.now ELSE @,
              !.phase = "Paused", !.frozen = FALSE,
              !.healthy = 0, !.fraction = 0]

\* Variant: an hour nobody looked at is skipped over.
CountHourAcrossGaps(s, f) ==
    IF f.close <= s.hour THEN s
    ELSE [s EXCEPT !.hour = f.close,
                   !.healthy = IF f.market # "healthy" THEN 0
                               ELSE IF @ = Need THEN @ ELSE @ + 1]

CountHour(s, f) ==
    LET before == IF s.hour > 0 /\ f.close - s.hour > 1 THEN 0 ELSE s.healthy
    IN  IF f.close <= s.hour THEN s
        ELSE [s EXCEPT !.hour = f.close,
                       !.healthy = IF f.market # "healthy" THEN 0
                                   ELSE IF before = Need THEN before
                                   ELSE before + 1]

ReportProgress(s, f) ==
    [s EXCEPT !.observed = f.now, !.anchor = f.close]

\* Without continuity each stale observation begins the pause, and the count, anew.
LoseSight(s, f) ==
    [(IF s.phase = "Halted" THEN s ELSE PausedNow(s, f.now)) EXCEPT !.healthy = 0]

\* What stale or invalid prices do to the state,
Unsighted(s, f, continuity) == IF continuity THEN Freeze(s) ELSE LoseSight(s, f)

\* what an incomplete candle history does,
Unmeasured(s, continuity) == IF continuity THEN Freeze(s) ELSE s

\* and what an observation with prices and candles does.
Observed(s, f, continuity) ==
    LET t == CASE f.market = "unsafe" -> UnsafeMarket(s, f)
               [] f.market # "unsafe" /\ continuity -> RecheckProgress(s, f)
               [] OTHER -> s
    IN  IF continuity THEN ReportProgress(CountHour(t, f), f) ELSE CountHour(t, f)

-----------------------------------------------------------------------------
(* Decisions: the new state, the LP intent and its parameters. *)

Decision(s, lp, fraction, layers) ==
    [state |-> s, lp |-> lp, fraction |-> fraction, layers |-> layers]

Deploy(s) == Decision(s, "Deploy", s.fraction, {})
ExitToQuote(s) == Decision(s, "ExitToQuote", 0, {})
Wait(s) == Decision(s, "Nothing", 0, {})   \* a decision that is not executed

\* Only a breakout moves a position that is held.
Keep(s, f) ==
    IF f.breakout = {} THEN Decision(s, "Hold", 0, {})
                       ELSE Decision(s, "Recenter", Full, f.breakout)

\* The hours counted suffice without continuity; with it this moment counts too.
MayGrow(f, continuity) ==
    f.market # "unsafe" /\ (continuity => f.market = "healthy")

CanResume(s, f, continuity) ==
    /\ MayGrow(f, continuity)
    /\ s.healthy >= Need
    /\ f.now - s.pause >= Cooldown

StepDue(s, f, continuity) ==
    /\ MayGrow(f, continuity)
    /\ s.healthy >= Need
    /\ f.now - s.scale >= StepTime

Resume(s, f) ==
    Deploy([s EXCEPT !.phase = "Recovering", !.fraction = 1, !.scale = f.now])

StepUp(s, f) ==
    LET next == IF s.fraction + 1 >= Full THEN Full ELSE s.fraction + 1
    IN  Deploy([s EXCEPT !.fraction = next, !.scale = f.now,
                         !.phase = IF next = Full THEN "Active" ELSE @])

EnterFully(s) == [s EXCEPT !.phase = "Active", !.fraction = Full]

Decide(s, f, continuity) ==
    CASE s.phase = "Paused" ->
           IF s.history = "Initial" /\ f.market # "unsafe" THEN Deploy(EnterFully(s))
           ELSE IF CanResume(s, f, continuity) THEN Resume(s, f)
           ELSE ExitToQuote(s)
      [] s.phase = "Warmup" ->
           IF f.deployed = {} THEN Deploy(EnterFully(s)) ELSE Keep(EnterFully(s), f)
      [] s.phase = "Recovering" /\ StepDue(s, f, continuity) -> StepUp(s, f)
      [] OTHER -> Keep(s, f)

\* A history of LP positions turns an empty warm-up into a pause.
Admit(s, f) ==
    LET t == ObserveLp(s, f.deployed)
    IN  IF t.phase = "Warmup" /\ t.history # "Initial" /\ f.deployed = {}
        THEN PausedNow(t, f.now) ELSE t

EvaluateInner(s0, f, continuity) ==
    LET s == Admit(s0, f)
        halted == f.drawdown \/ s.phase = "Halted"
    IN  CASE ~f.valid -> Wait(Unsighted(s, f, continuity))
          [] f.valid /\ halted -> ExitToQuote([s EXCEPT !.phase = "Halted"])
          [] f.valid /\ ~halted /\ ~f.metrics ->
               Decision(Unmeasured(s, continuity), "Hold", 0, {})
          [] OTHER -> Decide(Observed(s, f, continuity), f, continuity)

Evaluate(s, f) == EvaluateInner(s, f, FALSE)
EvaluateWithContinuity(s, f) == EvaluateInner(s, f, TRUE)
=============================================================================
