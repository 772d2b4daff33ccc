------------------------------ MODULE EthBand ------------------------------
(***************************************************************************)
(* The two ETH strategies as functions of their persisted state and of one *)
(* observation: the long-term range of strategy/eth/mod.rs (band FALSE)    *)
(* and the net exposure band of strategy/eth/band.rs (band TRUE), which is *)
(* the same machine with a managed equity, a holding clock and drawdown    *)
(* pauses.  An observation f is a record:                                  *)
(*   now      when the strategy is evaluated                               *)
(*   valid    the prices are fresh and finite                              *)
(*   candles  the hourly history is complete (latest_feature)              *)
(*   raw      the equity of the whole account                              *)
(*   market   "danger": a pause signal; "recovered": no resume blocker     *)
(*   lp       a position is held                                           *)
(*   side     where the price is: -1 below the range, 1 above, 0 inside    *)
(* The hedge target and its schedule are left out: Hold is one decision,   *)
(* and any target may be asked of HedgeOrders.                             *)
(***************************************************************************)
EXTENDS Integers

CONSTANTS
    HourTicks,   \* ticks of an hour
    BarTicks,    \* ticks of decision_bar_seconds
    MaxAge,      \* max_data_age_seconds
    Cooldown,    \* cooldown_hours
    Need,        \* resume_healthy_hours
    Confirm,     \* breakout_confirm_bars
    MinHolding,  \* minimum_holding_hours
    Capital,     \* total_capital
    \* drawdowns, in quarters of a percent
    MaxLoss, EpisodeLoss, PauseLoss, LossBudget, LossCap

ASSUME BandAssumption ==
    /\ {HourTicks, BarTicks, Need, Confirm, Capital} \subseteq Nat \ {0}
    /\ {MaxAge, Cooldown, MinHolding} \subseteq Nat
    /\ {MaxLoss, EpisodeLoss, PauseLoss, LossBudget, LossCap} \subseteq Nat \ {0}
    /\ PauseLoss < MaxLoss /\ EpisodeLoss < MaxLoss /\ LossCap < MaxLoss
    /\ MaxLoss <= 400

Phases == {"Warmup", "Active", "Paused", "Halted"}
Histories == {"Initial", "Established", "LegacyUnknown"}

Hour(t) == t \div HourTicks
Bar(t) == t \div BarTicks
Larger(a, b) == IF a > b THEN a ELSE b
Smaller(a, b) == IF a < b THEN a ELSE b

(***************************************************************************)
(* anchored says that pause_anchor_ms = pause_since: the pause is one the  *)
(* strategy itself began (two pauses never share a millisecond).  healthy  *)
(* and streak stop counting at Need and Confirm; origin is 0 when absent.  *)
(***************************************************************************)
Strategy ==
    [history: Histories, phase: Phases, pause: Nat, anchored: BOOLEAN,
     deadline: Nat, hour: Nat, healthy: 0..Need, observed: Nat, bar: Nat,
     side: -1..1, streak: 0..Confirm, peak: Nat,
     origin: Nat, entered: Nat, episode: Int, entryLoss: Int]

NewStrategy ==
    [history |-> "Initial", phase |-> "Warmup", pause |-> 0, anchored |-> TRUE,
     deadline |-> 0, hour |-> 0, healthy |-> 0, observed |-> 0, bar |-> 0,
     side |-> 0, streak |-> 0, peak |-> 0,
     origin |-> 0, entered |-> 0, episode |-> 0, entryLoss |-> 0]

ObserveLp(s, held) == IF held THEN [s EXCEPT !.history = "Established"] ELSE s

ClearStreak(s) == [s EXCEPT !.side = 0, !.streak = 0]

-----------------------------------------------------------------------------
(* Equity and drawdown. *)

\* Variant: every entry starts a new basis.
BasisOfEntry(s, band, raw) ==
    IF band /\ (s.origin = 0 \/ s.phase = "Paused") THEN [s EXCEPT !.origin = raw] ELSE s

\* The first equity seen is the basis of all later ones.
Basis(s, band, raw) ==
    IF band /\ s.origin = 0 THEN [s EXCEPT !.origin = raw] ELSE s

Equity(s, band, raw) == IF band THEN Capital + raw - s.origin ELSE raw

Loss(equity, peak) == ((peak - equity) * 400) \div peak

LossNow(s, band, f) == Loss(Equity(s, band, f.raw), s.peak)

\* The peak, and the halt at the drawdown limit.
Marked(s, band, f) ==
    LET equity == Equity(s, band, f.raw)
        peak == Larger(s.peak, Larger(equity, Capital))
    IN  [s EXCEPT !.peak = peak,
                  !.phase = IF Loss(equity, peak) >= MaxLoss THEN "Halted" ELSE @]

PauseThreshold(s) == Smaller(LossCap, Larger(PauseLoss, s.entryLoss + LossBudget))

\* entry_equity_safe, asked between the transactions of an entry.
EntryEquitySafe(s, raw) ==
    LET equity == Equity(s, TRUE, raw)
    IN  /\ s.origin # 0
        /\ s.phase # "Halted"
        /\ Loss(equity, s.peak) < Smaller(MaxLoss, PauseThreshold(s))
        /\ Loss(equity, s.episode) < EpisodeLoss

-----------------------------------------------------------------------------
(* What an observation does to the state before anything is decided. *)

\* Variant: the old deadline stands.
AdoptPauseOldDeadline(s, band) ==
    IF s.phase = "Paused" THEN [s EXCEPT !.anchored = TRUE] ELSE s

\* A pause set by recovery.rs: a full cooldown, no healthy hours.
AdoptPause(s, band) ==
    IF s.phase = "Paused" /\ ~s.anchored
    THEN [s EXCEPT !.anchored = TRUE, !.deadline = s.pause + Cooldown,
                   !.entered = IF band THEN 0 ELSE @, !.healthy = 0]
    ELSE s

\* Variant: a gap begins a new episode.
NoticeGapNewEpisode(s, f) ==
    IF s.observed > 0 /\ f.now - s.observed > MaxAge
    THEN ClearStreak([s EXCEPT !.healthy = 0, !.episode = 0, !.entered = 0,
                               !.observed = f.now])
    ELSE [s EXCEPT !.observed = f.now]

NoticeGap(s, f) ==
    LET t == [s EXCEPT !.observed = f.now]
    IN  IF s.observed > 0 /\ f.now - s.observed > MaxAge
        THEN ClearStreak([t EXCEPT !.healthy = 0]) ELSE t

CountHour(s, f) ==
    LET close == Hour(f.now)
        before == IF s.hour > 0 /\ close - s.hour # 1 THEN 0 ELSE s.healthy
    IN  IF close <= s.hour THEN s
        ELSE [s EXCEPT !.hour = close,
                       !.healthy = IF f.market = "recovered"
                                   THEN Smaller(Need, before + 1) ELSE 0]

ForgetHours(s, f) == IF f.market = "danger" THEN [s EXCEPT !.healthy = 0] ELSE s

\* The holding clock starts with the first sight of a position.
Episode(s, band, f) ==
    LET equity == Equity(s, band, f.raw)
        first == f.lp /\ s.entered = 0
        t == IF first /\ s.episode = 0
             THEN [s EXCEPT !.episode = equity, !.entryLoss = LossNow(s, band, f)]
             ELSE s
    IN  IF ~band THEN s
        ELSE [t EXCEPT !.entered = IF first THEN f.now ELSE @,
                       !.episode = Larger(@, equity)]

NewBar(s, f) == f.lp /\ Bar(f.now) > s.bar

CountOutside(s, f) ==
    LET t == IF s.bar > 0 /\ Bar(f.now) > s.bar + 1 THEN ClearStreak(s) ELSE s
    IN  IF ~NewBar(s, f) THEN s
        ELSE [t EXCEPT !.bar = Bar(f.now), !.side = f.side,
                       !.streak = IF f.side = 0 THEN 0
                                  ELSE IF f.side = t.side THEN Smaller(Confirm, @ + 1)
                                  ELSE 1]

Observed(s, band, f) ==
    LET paused == AdoptPause(ObserveLp(Basis(s, band, f.raw), f.lp), band)
        counted == CountHour(Marked(NoticeGap(paused, f), band, f), f)
    IN  Episode(ForgetHours(counted, f), band, f)

-----------------------------------------------------------------------------
(* Decisions: the new state, the LP intent, and whether the price left the range. *)

Decision(s, lp) == [state |-> s, lp |-> lp, range |-> FALSE]

Pause(s, now, wait) ==
    [s EXCEPT !.phase = "Paused", !.pause = now, !.anchored = TRUE,
              !.deadline = now + wait]

\* Only a position that is still held begins a pause anew.
Leave(s, f, range) ==
    LET t == CASE s.phase = "Halted" -> s
               [] s.phase = "Paused" /\ ~f.lp -> s
               [] OTHER -> Pause(s, f.now, IF range THEN BarTicks ELSE Cooldown)
    IN  [Decision(ClearStreak(t), "ExitToQuote") EXCEPT
           !.range = range,
           !.state.healthy = IF range THEN @ ELSE 0]

\* Variant: the holding clock of the previous position runs on.
EnterOldClock(s, band, f) ==
    LET t == [s EXCEPT !.phase = "Active", !.bar = Bar(f.now)]
    IN  IF ~band THEN t
        ELSE [t EXCEPT !.deadline = 0, !.episode = Equity(s, band, f.raw),
                       !.entryLoss = LossNow(s, band, f)]

Enter(s, band, f) ==
    LET t == [s EXCEPT !.phase = "Active", !.bar = Bar(f.now)]
    IN  IF ~band THEN t
        ELSE [t EXCEPT !.deadline = 0, !.entered = 0,
                       !.episode = Equity(s, band, f.raw),
                       !.entryLoss = LossNow(s, band, f)]

Recenter(s, f) ==
    ClearStreak([s EXCEPT !.phase = "Active", !.entered = 0,
                          !.episode = Equity(s, TRUE, f.raw),
                          !.entryLoss = LossNow(s, TRUE, f)])

\* The early and the global drawdown pause.
LossPause(s, f) ==
    /\ f.lp
    /\ \/ Loss(Equity(s, TRUE, f.raw), s.episode) >= EpisodeLoss
       \/ LossNow(s, TRUE, f) >= PauseThreshold(s)

\* An empty warm-up with a history is a pause.
AdmitFlat(s, f) ==
    IF s.phase = "Warmup" /\ s.history # "Initial"
    THEN Pause(s, f.now, Cooldown) ELSE s

Deadline(s, band) ==
    IF ~band /\ s.deadline = 0 THEN s.pause + Cooldown ELSE s.deadline

MayEnter(s, band, f) ==
    \/ s.history = "Initial"
    \/ /\ f.now >= Deadline(s, band)
       /\ s.healthy >= Need
       /\ band => f.market = "recovered"

DecideFlat(s0, band, f) ==
    LET s == AdmitFlat(s0, f)
    IN  IF MayEnter(s, band, f) THEN Decision(Enter(s, band, f), "Deploy")
        ELSE Decision([s EXCEPT !.phase = "Paused"], "ExitToQuote")

DecideHeld(s, band, f, outside) ==
    IF band /\ outside /\ f.now - s.entered >= MinHolding
    THEN Decision(Recenter(s, f), "Recenter")
    ELSE Decision([s EXCEPT !.phase = "Active"], "Hold")

Decide(s0, band, f) ==
    LET s == CountOutside(s0, f)
        outside == NewBar(s0, f) /\ s.streak >= Confirm
        risk == s.phase = "Halted" \/ f.market = "danger" \/ (band /\ LossPause(s, f))
    IN  CASE risk \/ (~band /\ outside) ->
               Leave(s, f, ~band /\ outside /\ f.market # "danger")
          [] ~risk /\ (band \/ ~outside) /\ f.lp -> DecideHeld(s, band, f, outside)
          [] OTHER -> DecideFlat(s, band, f)

\* Without candles only the drawdown is watched.
Blind(s, band, f) ==
    LET t == Marked(Basis([s EXCEPT !.healthy = 0], band, f.raw), band, f)
    IN  Decision(t, IF t.phase = "Halted" THEN "ExitToQuote" ELSE "Nothing")

Evaluate(s, band, f) ==
    CASE ~f.valid -> Decision([s EXCEPT !.healthy = 0], "Nothing")
      [] f.valid /\ ~f.candles -> Blind(s, band, f)
      [] OTHER -> Decide(Observed(s, band, f), band, f)

\* defer_entry: an entry the hedge account cannot carry takes the strategy's
\* own clocks and equity basis back to what they were.
Deferred(old, r, flat) ==
    LET back == [r.state EXCEPT
                   !.phase = old.phase, !.anchored = old.anchored,
                   !.deadline = old.deadline, !.observed = old.observed,
                   !.origin = old.origin, !.entered = old.entered,
                   !.episode = old.episode, !.entryLoss = old.entryLoss]
    IN  IF flat THEN Decision(back, "Nothing")
        ELSE Decision([back EXCEPT !.phase = "Paused"], "ExitToQuote")
=============================================================================
