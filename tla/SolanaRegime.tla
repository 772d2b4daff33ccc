---------------------------- MODULE SolanaRegime ----------------------------
(***************************************************************************)
(* The trend strategy of the Solana runner (solana/regime.rs): one more    *)
(* decision function over the persisted state of RiskPhases.               *)
(*                                                                         *)
(* Beside now, valid, drawdown and deployed, an observation f has:         *)
(*   signal   what the closed hours say: "entry", "neutral", "exit", or    *)
(*            "none" when they are stale or have a gap                     *)
(*   close    the last closed hour of that history                         *)
(*   shock    a fast drop, a large move or a basis beyond its limit now    *)
(*   outside  the price left the range of some layer                       *)
(***************************************************************************)
EXTENDS RiskPhases

Signals == {"entry", "neutral", "exit", "none"}

ConfirmHours == Need   \* entry_confirm_hours

\* Variant: an hour nobody looked at does not break the count.
CountEntryHourAcrossGaps(s, f) ==
    IF f.close <= s.hour THEN s
    ELSE [s EXCEPT !.hour = f.close,
                   !.healthy = IF f.signal # "entry" THEN 0
                               ELSE IF @ = Need THEN @ ELSE @ + 1]

CountEntryHour(s, f) ==
    LET before == IF s.hour > 0 /\ f.close - s.hour # 1 THEN 0 ELSE s.healthy
    IN  IF f.close <= s.hour THEN s
        ELSE [s EXCEPT !.hour = f.close,
                       !.healthy = IF f.signal # "entry" THEN 0
                                   ELSE IF before = Need THEN before
                                   ELSE before + 1]

LeaveMarket(s, f) ==
    ExitToQuote([s EXCEPT !.pause = IF s.phase \in {"Halted", "Paused"} THEN @ ELSE f.now,
                          !.phase = IF @ = "Halted" THEN @ ELSE "Paused",
                          !.fraction = 0, !.healthy = 0])

Cooled(s, f) == s.history = "Initial" \/ f.now - s.pause >= Cooldown

EnterTrend(s, f) == Deploy([EnterFully(s) EXCEPT !.scale = f.now])

WaitFlat(s) == ExitToQuote([s EXCEPT !.phase = "Paused"])

\* Variant: the cooldown still counts from the previous pause.
LeaveRangeOldClock(s, f) ==
    ExitToQuote([s EXCEPT !.phase = "Paused", !.healthy = 0, !.fraction = 0])

\* A price outside a range is answered by an exit, never by a new range.
LeaveRange(s, f) ==
    ExitToQuote([PausedNow(s, f.now) EXCEPT !.healthy = 0, !.fraction = 0])

FollowTrend(s, f) ==
    CASE f.deployed = {} ->
           IF f.signal = "entry" /\ s.healthy >= ConfirmHours /\ Cooled(s, f)
           THEN EnterTrend(s, f) ELSE WaitFlat(s)
      [] f.deployed # {} /\ f.outside -> LeaveRange(s, f)
      [] OTHER -> Decision([s EXCEPT !.phase = "Active"], "Hold", 0, {})

RegimeEvaluate(s0, f) ==
    LET seen == ObserveLp(s0, f.deployed)
        s == IF f.drawdown THEN [seen EXCEPT !.phase = "Halted"] ELSE seen
        unsafe == f.signal \in {"exit", "none"} \/ f.shock
    IN  CASE ~f.valid -> Wait([seen EXCEPT !.healthy = 0])
          [] f.valid /\ (s.phase = "Halted" \/ unsafe) -> LeaveMarket(s, f)
          [] OTHER -> FollowTrend(CountEntryHour(s, f), f)
=============================================================================
