---------------------------- MODULE SolanaProofs ----------------------------
(***************************************************************************)
(* The safety of the Solana runner, for every set of layers, every budget, *)
(* every clock and every number of faults.  The invariant is the one of    *)
(* SolanaInvariant.  The lemmas go bottom up: what the strategies decide,  *)
(* what a move of the chain does to the records, then one lemma for each   *)
(* step of the runner.                                                     *)
(***************************************************************************)
EXTENDS SolanaInvariant, FiniteSetTheorems, TLAPS

-----------------------------------------------------------------------------
(* What the strategies decide. *)

\* An observation the runner can make (Frames).
Frame(f) ==
    /\ f.now \in Nat /\ f.close \in Nat
    /\ f.valid \in BOOLEAN /\ f.drawdown \in BOOLEAN /\ f.shock \in BOOLEAN
    /\ f.outside \in BOOLEAN /\ f.metrics \in BOOLEAN /\ f.revised \in BOOLEAN
    /\ f.signal \in Signals /\ f.market \in {"unsafe", "uneasy", "healthy"}
    /\ f.deployed \subseteq Layers /\ f.breakout \subseteq f.deployed

\* A state of the strategy that goes with the layers it sees.
Fits(s, f) == s.phase \in InMarket => f.deployed = Layers

\* A decision that apply can execute: in the market only for every layer, out of
\* a halt not at all.
Sound(r, f) ==
    /\ r.state \in Strategy
    /\ r.lp \in Intents /\ r.fraction \in 0..Full /\ r.layers \subseteq Layers
    /\ r.state.phase \in InMarket =>
          /\ r.lp # "ExitToQuote"
          /\ r.lp \in {"Nothing", "Hold"} => f.deployed = Layers
    /\ r.lp = "Recenter" => f.deployed = Layers
    /\ r.state.phase = "Halted" => r.lp \notin {"Deploy", "Recenter"}

\* The counters of the strategy at their bounds.
LEMMA Numbers ==
    0 \in Nat /\ 0 \in 0..Need /\ 0 \in 0..Full /\ 1 \in 0..Full /\ Full \in 0..Full
  BY PhaseAssumption

\* What is observed at first changes neither the type nor the phases in the market.
LEMMA ObservedFirst ==
    ASSUME NEW s \in Strategy, NEW f, Frame(f)
    PROVE  /\ ObserveLp(s, f.deployed) \in Strategy
           /\ ObserveLp(s, f.deployed).phase = s.phase
           /\ Admit(s, f) \in Strategy
           /\ Admit(s, f).phase \in {s.phase, "Paused"}
           /\ s.phase = "Halted" => Admit(s, f).phase = "Halted"
  BY DEF ObserveLp, Admit, PausedNow, Strategy, Phases, Histories, Frame

\* Counting the hours keeps the state typed; an unsafe market pauses it.
LEMMA ObservedTyped ==
    ASSUME NEW s \in Strategy, NEW f, Frame(f)
    PROVE  /\ Observed(s, f, FALSE) \in Strategy
           /\ Observed(s, f, FALSE).phase =
                IF f.market = "unsafe" THEN "Paused" ELSE s.phase
<1> DEFINE t == IF f.market = "unsafe" THEN UnsafeMarket(s, f) ELSE s
<1>1. /\ t \in Strategy
      /\ t.phase = IF f.market = "unsafe" THEN "Paused" ELSE s.phase
  <2>1. UnsafeMarket(s, f) \in Strategy /\ UnsafeMarket(s, f).phase = "Paused"
    <3> DEFINE p == IF s.phase # "Paused" THEN f.now ELSE s.pause
    <3>1. p \in Nat
      BY DEF Strategy, Frame
    <3>2. UnsafeMarket(s, f) = [s EXCEPT !.pause = p, !.phase = "Paused", !.frozen = FALSE,
                                         !.healthy = 0, !.fraction = 0]
      BY DEF UnsafeMarket
    <3> HIDE DEF p
    <3> QED BY <3>1, <3>2, Numbers DEF Strategy, Phases
  <2> QED BY <2>1
<1>2. CountHour(t, f) \in Strategy /\ CountHour(t, f).phase = t.phase
  <2> HIDE DEF t
  <2> DEFINE before == IF t.hour > 0 /\ f.close - t.hour > 1 THEN 0 ELSE t.healthy
             count == IF f.market # "healthy" THEN 0
                      ELSE IF before = Need THEN before ELSE before + 1
  <2>1. t.healthy \in 0..Need
    BY <1>1 DEF Strategy
  <2>2. before \in 0..Need
    BY <2>1, PhaseAssumption
  <2>3. count \in 0..Need
    <3> HIDE DEF before
    <3> QED BY <2>2, PhaseAssumption
  <2>4. CountHour(t, f) = IF f.close <= t.hour THEN t
                          ELSE [t EXCEPT !.hour = f.close, !.healthy = count]
    BY DEF CountHour
  <2> HIDE DEF count
  <2> QED BY <1>1, <2>3, <2>4 DEF Strategy, Frame
<1>3. Observed(s, f, FALSE) = CountHour(t, f)
  BY DEF Observed
<1> HIDE DEF t
<1>4. /\ Observed(s, f, FALSE) \in Strategy
      /\ Observed(s, f, FALSE).phase = t.phase
  BY <1>2, <1>3
<1> QED BY <1>1, <1>4

\* A position that is held is kept or moved whole.
LEMMA KeepSound ==
    ASSUME NEW s \in Strategy, NEW f, Frame(f), f.deployed \in {{}, Layers},
           s.phase # "Halted", Fits(s, f)
    PROVE  Sound(Keep(s, f), f)
  BY PhaseAssumption DEF Keep, Decision, Sound, Fits, Frame, Strategy, Intents, InMarket

\* A deployment is of a budget share.
LEMMA DeploySound ==
    ASSUME NEW s \in Strategy, NEW f, Frame(f), s.phase # "Halted"
    PROVE  Sound(Deploy(s), f)
  BY PhaseAssumption DEF Deploy, Decision, Sound, Frame, Strategy, Intents, InMarket

\* An exit is decided outside the market.
LEMMA ExitSound ==
    ASSUME NEW s \in Strategy, NEW f, Frame(f), s.phase \notin InMarket
    PROVE  Sound(ExitToQuote(s), f)
  BY PhaseAssumption DEF ExitToQuote, Decision, Sound, Frame, Strategy, Intents, InMarket

\* Decide: what the band strategy makes of a complete observation.
LEMMA DecideSound ==
    ASSUME NEW s \in Strategy, NEW f, Frame(f), f.deployed \in {{}, Layers},
           s.phase # "Halted", Fits(s, f)
    PROVE  Sound(Decide(s, f, FALSE), f)
<1>1. EnterFully(s) \in Strategy /\ EnterFully(s).phase = "Active"
  BY Numbers DEF EnterFully, Strategy, Phases
<1>2. CASE s.phase = "Paused"
  <2>1. Decide(s, f, FALSE) \in {Deploy(EnterFully(s)), Resume(s, f), ExitToQuote(s)}
    BY <1>2 DEF Decide
  <2>2. Sound(Deploy(EnterFully(s)), f)
    BY <1>1, DeploySound
  <2>3. Sound(Resume(s, f), f)
    <3> DEFINE t == [s EXCEPT !.phase = "Recovering", !.fraction = 1, !.scale = f.now]
    <3>1. t \in Strategy /\ t.phase = "Recovering"
      BY Numbers DEF Strategy, Phases, Frame
    <3>2. Resume(s, f) = Deploy(t)
      BY DEF Resume
    <3> HIDE DEF t
    <3> QED BY <3>1, <3>2, DeploySound
  <2>4. Sound(ExitToQuote(s), f)
    BY <1>2, ExitSound DEF InMarket
  <2> QED BY <2>1, <2>2, <2>3, <2>4
<1>3. CASE s.phase = "Warmup"
  <2>1. CASE f.deployed = {}
    <3>1. Decide(s, f, FALSE) = Deploy(EnterFully(s))
      BY <1>3, <2>1 DEF Decide
    <3> QED BY <3>1, <1>1, DeploySound
  <2>2. CASE f.deployed # {}
    <3>1. Decide(s, f, FALSE) = Keep(EnterFully(s), f)
      BY <1>3, <2>2 DEF Decide
    <3>2. Fits(EnterFully(s), f)
      BY <2>2 DEF Fits
    <3> QED BY <3>1, <3>2, <1>1, KeepSound
  <2> QED BY <2>1, <2>2
<1>4. CASE s.phase = "Recovering" /\ StepDue(s, f, FALSE)
  <2> DEFINE next == IF s.fraction + 1 >= Full THEN Full ELSE s.fraction + 1
             t == [s EXCEPT !.fraction = next, !.scale = f.now,
                            !.phase = IF next = Full THEN "Active" ELSE @]
  <2>1. Decide(s, f, FALSE) = Deploy(t)
    BY <1>4 DEF Decide, StepUp
  <2>2. next \in 0..Full
    BY PhaseAssumption DEF Strategy
  <2>3. t \in Strategy /\ t.phase # "Halted"
    <3> HIDE DEF next
    <3> QED BY <1>4, <2>2 DEF Strategy, Phases, Histories, Frame
  <2> HIDE DEF t
  <2> QED BY <2>1, <2>3, DeploySound
<1>5. CASE /\ s.phase \notin {"Paused", "Warmup"}
           /\ ~(s.phase = "Recovering" /\ StepDue(s, f, FALSE))
  <2>1. Decide(s, f, FALSE) = Keep(s, f)
    BY <1>5 DEF Decide
  <2> QED BY <2>1, KeepSound
<1> QED BY <1>2, <1>3, <1>4, <1>5

\* The band strategy.
LEMMA EvaluateSound ==
    ASSUME NEW s \in Strategy, NEW f, Frame(f), f.deployed \in {{}, Layers}, Fits(s, f)
    PROVE  Sound(Evaluate(s, f), f)
<1> DEFINE t == Admit(s, f)
<1>1. /\ t \in Strategy /\ t.phase \in {s.phase, "Paused"}
      /\ s.phase = "Halted" => t.phase = "Halted"
  BY ObservedFirst
<1>2. Fits(t, f)
  BY <1>1 DEF Fits, InMarket
<1>3. LoseSight(t, f) \in Strategy /\ LoseSight(t, f).phase \in {"Halted", "Paused"}
  <2> DEFINE u == IF t.phase = "Halted" THEN t ELSE PausedNow(t, f.now)
  <2>1. u \in Strategy /\ u.phase \in {"Halted", "Paused"}
    BY <1>1 DEF PausedNow, Strategy, Phases, Frame
  <2>2. LoseSight(t, f) = [u EXCEPT !.healthy = 0]
    BY DEF LoseSight
  <2> HIDE DEF u
  <2> QED BY <2>1, <2>2, Numbers DEF Strategy
<1>4. [t EXCEPT !.phase = "Halted"] \in Strategy
  BY <1>1 DEF Strategy, Phases
<1> HIDE DEF t
<1>5. Sound(Wait(LoseSight(t, f)), f)
  BY <1>3, PhaseAssumption DEF Sound, Wait, Decision, Intents, InMarket
<1>6. Sound(Decision(t, "Hold", 0, {}), f)
  BY <1>1, <1>2, PhaseAssumption DEF Sound, Decision, Fits, Intents, InMarket
<1>7. Sound(ExitToQuote([t EXCEPT !.phase = "Halted"]), f)
  <2>1. [t EXCEPT !.phase = "Halted"].phase = "Halted"
    BY <1>1 DEF Strategy
  <2> QED BY <1>4, <2>1, ExitSound DEF InMarket
<1>8. t.phase # "Halted" => Sound(Decide(Observed(t, f, FALSE), f, FALSE), f)
  <2>1. /\ Observed(t, f, FALSE) \in Strategy
        /\ Observed(t, f, FALSE).phase = IF f.market = "unsafe" THEN "Paused" ELSE t.phase
    BY <1>1, ObservedTyped
  <2>2. Fits(Observed(t, f, FALSE), f)
    BY <1>2, <2>1 DEF Fits, InMarket
  <2> QED BY <2>1, <2>2, DecideSound
<1>9. Evaluate(s, f) \in
        {Wait(LoseSight(t, f)), Decision(t, "Hold", 0, {}),
         ExitToQuote([t EXCEPT !.phase = "Halted"])}
          \cup (IF t.phase = "Halted" THEN {}
                ELSE {Decide(Observed(t, f, FALSE), f, FALSE)})
  BY DEF Evaluate, EvaluateInner, Unsighted, Unmeasured, t, Frame
<1> QED BY <1>5, <1>6, <1>7, <1>8, <1>9

\* FollowTrend: an entry, a hold, or the exit of a range that is left.
LEMMA FollowTrendSound ==
    ASSUME NEW s \in Strategy, NEW f, Frame(f), f.deployed \in {{}, Layers},
           s.phase # "Halted"
    PROVE  Sound(FollowTrend(s, f), f)
<1>1. Sound(EnterTrend(s, f), f)
  <2> DEFINE t == [EnterFully(s) EXCEPT !.scale = f.now]
  <2>1. t \in Strategy /\ t.phase = "Active"
    BY Numbers DEF EnterFully, Strategy, Phases, Frame
  <2>2. EnterTrend(s, f) = Deploy(t)
    BY DEF EnterTrend
  <2> HIDE DEF t
  <2> QED BY <2>1, <2>2, DeploySound
<1>2. Sound(WaitFlat(s), f)
  <2> DEFINE t == [s EXCEPT !.phase = "Paused"]
  <2>1. t \in Strategy /\ t.phase = "Paused"
    BY DEF Strategy, Phases
  <2>2. WaitFlat(s) = ExitToQuote(t)
    BY DEF WaitFlat
  <2> HIDE DEF t
  <2> QED BY <2>1, <2>2, ExitSound DEF InMarket
<1>3. Sound(LeaveRange(s, f), f)
  <2> DEFINE t == [PausedNow(s, f.now) EXCEPT !.healthy = 0, !.fraction = 0]
  <2>1. t \in Strategy /\ t.phase = "Paused"
    BY Numbers DEF PausedNow, Strategy, Phases, Frame
  <2>2. LeaveRange(s, f) = ExitToQuote(t)
    BY DEF LeaveRange
  <2> HIDE DEF t
  <2> QED BY <2>1, <2>2, ExitSound DEF InMarket
<1>4. f.deployed # {} => Sound(Decision([s EXCEPT !.phase = "Active"], "Hold", 0, {}), f)
  <2> DEFINE t == [s EXCEPT !.phase = "Active"]
  <2>1. t \in Strategy /\ t.phase = "Active"
    BY DEF Strategy, Phases
  <2> HIDE DEF t
  <2>2. f.deployed # {} => Sound(Decision(t, "Hold", 0, {}), f)
    BY <2>1, PhaseAssumption DEF Sound, Decision, Intents, InMarket
  <2> QED BY <2>2 DEF t
<1> QED BY <1>1, <1>2, <1>3, <1>4 DEF FollowTrend

\* The trend strategy.
LEMMA RegimeSound ==
    ASSUME NEW s \in Strategy, NEW f, Frame(f), f.deployed \in {{}, Layers}, Fits(s, f)
    PROVE  Sound(RegimeEvaluate(s, f), f)
<1> DEFINE seen == ObserveLp(s, f.deployed)
           t == IF f.drawdown THEN [seen EXCEPT !.phase = "Halted"] ELSE seen
           c == CountEntryHour(t, f)
<1>1. seen \in Strategy /\ seen.phase = s.phase
  BY ObservedFirst
<1>2. t \in Strategy
  <2> HIDE DEF seen
  <2> QED BY <1>1 DEF Strategy, Phases
<1>3. Sound(Wait([seen EXCEPT !.healthy = 0]), f)
  <2> HIDE DEF seen
  <2> DEFINE u == [seen EXCEPT !.healthy = 0]
  <2>1. u \in Strategy /\ u.phase = s.phase
    BY <1>1, PhaseAssumption DEF Strategy
  <2> HIDE DEF u
  <2>2. Sound(Wait(u), f)
    BY <2>1, PhaseAssumption DEF Sound, Wait, Decision, Fits, Intents, InMarket
  <2> QED BY <2>2 DEF u
<1>4. Sound(LeaveMarket(t, f), f)
  <2> HIDE DEF t
  <2> DEFINE p == IF t.phase \in {"Halted", "Paused"} THEN t.pause ELSE f.now
             h == IF t.phase = "Halted" THEN t.phase ELSE "Paused"
             u == [t EXCEPT !.pause = p, !.phase = h, !.fraction = 0, !.healthy = 0]
  <2>1. p \in Nat /\ h \in {"Halted", "Paused"}
    BY <1>2 DEF Strategy, Frame
  <2>2. LeaveMarket(t, f) = ExitToQuote(u)
    BY DEF LeaveMarket
  <2>3. u \in Strategy /\ u.phase \in {"Halted", "Paused"}
    <3> HIDE DEF p, h
    <3> QED BY <1>2, <2>1, Numbers DEF Strategy, Phases
  <2> HIDE DEF u
  <2> QED BY <2>2, <2>3, ExitSound DEF InMarket
<1>5. c \in Strategy /\ c.phase = t.phase
  <2> HIDE DEF t
  <2> DEFINE before == IF t.hour > 0 /\ f.close - t.hour # 1 THEN 0 ELSE t.healthy
             count == IF f.signal # "entry" THEN 0
                      ELSE IF before = Need THEN before ELSE before + 1
  <2>1. t.healthy \in 0..Need
    BY <1>2 DEF Strategy
  <2>2. before \in 0..Need
    BY <2>1, PhaseAssumption
  <2>3. count \in 0..Need
    <3> HIDE DEF before
    <3> QED BY <2>2, PhaseAssumption
  <2>4. c = IF f.close <= t.hour THEN t
            ELSE [t EXCEPT !.hour = f.close, !.healthy = count]
    BY DEF CountEntryHour
  <2> HIDE DEF count, c
  <2> QED BY <1>2, <2>3, <2>4 DEF Strategy, Frame
<1>6. t.phase # "Halted" => Sound(FollowTrend(c, f), f)
  <2> HIDE DEF c
  <2> QED BY <1>5, FollowTrendSound
<1>7. RegimeEvaluate(s, f) \in
        {Wait([seen EXCEPT !.healthy = 0]), LeaveMarket(t, f)}
          \cup (IF t.phase = "Halted" THEN {} ELSE {FollowTrend(c, f)})
  <2> HIDE DEF t, seen
  <2> QED BY DEF RegimeEvaluate, t, seen, Frame, Signals
<1> HIDE DEF t, seen, c
<1> QED BY <1>3, <1>4, <1>6, <1>7

\* Whatever strategy is configured, on whatever the runner can observe.
LEMMA JudgeSound ==
    ASSUME IInv, Whole, mem.phase \in InMarket => Deployed = Layers,
           NEW b, b.close \in Nat, b.signal \in Signals, NEW f \in Frames(b)
    PROVE  /\ Sound(Judge(mem, f), f)
           /\ mem.phase = "Halted" => Judge(mem, f).state.phase = "Halted"
           /\ f.deployed = Deployed
<1>1. PICK valid \in BOOLEAN, drawdown \in BOOLEAN, shock \in BOOLEAN,
            late \in BOOLEAN, outside \in BOOLEAN, breakout \in SUBSET Deployed :
         f = [now |-> now, valid |-> valid, drawdown |-> drawdown, shock |-> shock,
              signal |-> SignalOf(b, late), close |-> b.close, outside |-> outside,
              metrics |-> SignalOf(b, late) # "none",
              market |-> MarketOf(SignalOf(b, late), shock),
              revised |-> FALSE, deployed |-> Deployed, breakout |-> breakout]
  BY DEF Frames
<1>2. SignalOf(b, late) \in Signals
  BY DEF SignalOf, Signals
<1>3. MarketOf(SignalOf(b, late), shock) \in {"unsafe", "uneasy", "healthy"}
  BY <1>2 DEF MarketOf
<1>4. Deployed \subseteq Layers /\ now \in Nat /\ mem \in Strategy
  BY DEF Deployed, IInv, TypeOK
<1>5. Frame(f) /\ f.deployed = Deployed
  BY <1>1, <1>2, <1>3, <1>4 DEF Frame
<1>6. Sound(Judge(mem, f), f)
  BY <1>4, <1>5, EvaluateSound, RegimeSound DEF Judge, Fits, Whole
<1>7. ASSUME mem.phase = "Halted" PROVE Evaluate(mem, f).state.phase = "Halted"
  <2> DEFINE t == Admit(mem, f)
             u == [t EXCEPT !.healthy = 0]
             v == [t EXCEPT !.phase = "Halted"]
  <2>1. t \in Strategy /\ t.phase = "Halted"
    BY <1>4, <1>5, <1>7, ObservedFirst
  <2>2. u.phase = "Halted" /\ v.phase = "Halted"
    <3> HIDE DEF t
    <3> QED BY <2>1 DEF Strategy
  <2>3. LoseSight(t, f) = u
    <3> HIDE DEF t
    <3> QED BY <2>1 DEF LoseSight, u
  <2>4. Evaluate(mem, f) \in {Wait(LoseSight(t, f)), ExitToQuote(v)}
    BY <1>5, <2>1 DEF Evaluate, EvaluateInner, Unsighted, Frame
  <2> HIDE DEF t, u, v
  <2> QED BY <2>2, <2>3, <2>4 DEF Wait, ExitToQuote, Decision
<1>8. ASSUME mem.phase = "Halted" PROVE RegimeEvaluate(mem, f).state.phase = "Halted"
  <2> DEFINE t == ObserveLp(mem, f.deployed)
             u == IF f.drawdown THEN [t EXCEPT !.phase = "Halted"] ELSE t
  <2>1. t \in Strategy /\ t.phase = "Halted"
    BY <1>4, <1>5, <1>8, ObservedFirst
  <2>2. u \in Strategy /\ u.phase = "Halted"
    <3> HIDE DEF t
    <3> QED BY <2>1 DEF Strategy
  <2>3. LeaveMarket(u, f).state.phase = "Halted"
    <3> HIDE DEF u
    <3> QED BY <2>2 DEF LeaveMarket, ExitToQuote, Decision, Strategy
  <2>4. Wait([t EXCEPT !.healthy = 0]).state.phase = "Halted"
    <3> HIDE DEF t
    <3> QED BY <2>1 DEF Wait, Decision, Strategy
  <2>5. RegimeEvaluate(mem, f) \in {Wait([t EXCEPT !.healthy = 0]), LeaveMarket(u, f)}
    <3> HIDE DEF t
    <3> QED BY <1>5, <2>2 DEF RegimeEvaluate, t, Frame
  <2> QED BY <2>3, <2>4, <2>5
<1> QED BY <1>5, <1>6, <1>7, <1>8 DEF Judge
-----------------------------------------------------------------------------
(* Start-up. *)

USE DEF files, journalFiles, chain, executing, journal, clock, process, ghosts, Goto

\* The invariant holds of a runner that was never started.
LEMMA InitSatisfies == Init => IInv
<1> SUFFICES ASSUME Init PROVE IInv
  OBVIOUS
<1> USE DEF Init, JournalInit, NoDecision, NewStrategy, NoBars
<1>1. Deployed = {}
  BY DEF Deployed
<1>2. NewStrategy \in Strategy /\ NewStrategy.phase = "Warmup"
  BY Numbers DEF Strategy, Phases, Histories
<1>3. 2 * HourTicks \in Nat
  BY PhaseAssumption
<1>4. TypeOK
  <2>1. pos \in [Layers -> 0..Full + 1]
    BY PhaseAssumption
  <2>2. JournalTypeOK
    BY <2>1, FS_EmptySet DEF JournalTypeOK
  <2> HIDE DEF NewStrategy
  <2>3. faults \in 0..MaxFaults
    BY BoundsAssumption
  <2>4. bars.hour \in Nat /\ bars.close \in Nat /\ bars.signal \in Signals
    BY DEF Signals
  <2>5. checkpoint \in Strategy /\ mem \in Strategy
    BY <1>2
  <2>6. now \in Nat
    BY <1>3
  <2> QED BY <2>2, <2>3, <2>4, <2>5, <2>6 DEF TypeOK, Steps
<1>5. DecisionTyped
  BY Numbers DEF DecisionTyped, Intents
<1>6. ClockInv /\ SignatureInv /\ RecordInv /\ PlanInv /\ DecisionInv
  BY <1>1, <1>3 DEF ClockInv, SignatureInv, RecordInv, PlanInv, DecisionInv, Executing, Applying
<1>7. WholeInv /\ ProgressInv /\ PhaseInv
  BY <1>1 DEF WholeInv, ProgressInv, PhaseInv, Whole, Working, Executing, Applying
<1> QED BY <1>4, <1>5, <1>6, <1>7 DEF IInv

\* What is left when the process is gone.
LEMMA EndedSafe ==
    ASSUME IInv, Ended, TypeOK', ClockInv', UNCHANGED <<pos, exposed, workflow>>,
           SignatureInv', RecordInv'
    PROVE  IInv'
<1> USE DEF Ended, NoDecision, NewStrategy
<1>1. Deployed' = Deployed /\ Whole' = Whole
  BY DEF Deployed, Whole
<1>2. DecisionTyped'
  BY Numbers DEF DecisionTyped, Intents
<1>3. PlanInv' /\ DecisionInv'
  BY DEF PlanInv, DecisionInv, Executing, Applying
<1>4. WholeInv' /\ ProgressInv' /\ PhaseInv'
  BY <1>1 DEF IInv, WholeInv, ProgressInv, PhaseInv, Working, Executing, Applying
<1> QED BY <1>2, <1>3, <1>4 DEF IInv

\* A new process knows what its checkpoint says.
LEMMA StartPreserves ==
    ASSUME IInv, Start PROVE IInv'
<1> USE DEF Start, InvalidateObservations
<1>1. Deployed' = Deployed
  BY DEF Deployed
<1>2. mem' \in Strategy
  BY Numbers DEF IInv, TypeOK, Strategy
<1>3. TypeOK'
  BY <1>2 DEF IInv, TypeOK, JournalTypeOK, Steps
<1>4. DecisionTyped'
  BY DEF IInv, DecisionTyped
<1>5. ClockInv'
  BY DEF IInv, ClockInv
<1>6. SignatureInv'
  BY DEF IInv, SignatureInv, Executing
<1>7. RecordInv'
  BY <1>1 DEF IInv, RecordInv, Recorded, Agreed
<1>8. PlanInv'
  BY DEF IInv, PlanInv, Executing
<1>9. DecisionInv'
  BY <1>1 DEF IInv, DecisionInv, Executing, Applying
<1>10. WholeInv'
  BY <1>1 DEF IInv, WholeInv, Whole
<1>11. ProgressInv'
  BY <1>1 DEF IInv, ProgressInv, Working
<1>12. PhaseInv'
  BY <1>1 DEF IInv, PhaseInv, Executing, Applying, InMarket, Strategy
<1> QED BY <1>3, <1>4, <1>5, <1>6, <1>7, <1>8, <1>9, <1>10, <1>11, <1>12 DEF
      IInv

\* A hedge order of an earlier process is settled.
LEMMA ReconcileHedgePreserves ==
    ASSUME IInv, ReconcileHedge PROVE IInv'
<1> USE DEF ReconcileHedge
<1>1. Deployed' = Deployed
  BY DEF Deployed
<1>2. TypeOK'
  BY DEF IInv, TypeOK, JournalTypeOK, Steps
<1>3. DecisionTyped'
  BY DEF IInv, DecisionTyped
<1>4. ClockInv'
  BY DEF IInv, ClockInv
<1>5. SignatureInv'
  BY DEF IInv, SignatureInv, Executing
<1>6. RecordInv'
  BY <1>1 DEF IInv, RecordInv, Recorded, Agreed
<1>7. PlanInv'
  BY DEF IInv, PlanInv, Executing
<1>8. DecisionInv'
  BY <1>1 DEF IInv, DecisionInv, Executing, Applying
<1>9. WholeInv'
  BY <1>1 DEF IInv, WholeInv, Whole
<1>10. ProgressInv'
  BY <1>1 DEF IInv, ProgressInv, Working
<1>11. PhaseInv'
  BY <1>1 DEF IInv, PhaseInv, Executing, Applying, InMarket
<1> QED BY <1>2, <1>3, <1>4, <1>5, <1>6, <1>7, <1>8, <1>9, <1>10, <1>11 DEF
      IInv

\* The interrupted workflow is entered with an exit, which is no workflow yet.
LEMMA ReadPortfolioPreserves ==
    ASSUME IInv, ReadPortfolio PROVE IInv'
<1> USE DEF ReadPortfolio, RestartExit, NoDecision
<1>1. Deployed' = Deployed
  BY DEF Deployed
<1>2. mem' \in Strategy /\ mem'.phase = mem.phase
  BY DEF IInv, TypeOK, Strategy, ObserveLp, Histories
<1>3. TypeOK'
  BY <1>2 DEF IInv, TypeOK, JournalTypeOK, Steps
<1>4. DecisionTyped'
  BY Numbers DEF IInv, DecisionTyped, Intents
<1>5. ClockInv'
  BY DEF IInv, ClockInv
<1>6. SignatureInv'
  BY DEF IInv, SignatureInv, Executing
<1>7. RecordInv'
  BY <1>1 DEF IInv, RecordInv, Recorded, Agreed
<1>8. PlanInv'
  BY DEF IInv, PlanInv, Executing
<1>9. DecisionInv'
  BY <1>1 DEF IInv, DecisionInv, Executing, Applying
<1>10. WholeInv'
  BY <1>1 DEF IInv, WholeInv, Whole
<1>11. ProgressInv'
  BY <1>1 DEF IInv, ProgressInv, Working, PlanInv, Executing
<1>12. PhaseInv'
  BY <1>1, <1>2 DEF IInv, PhaseInv, Executing, Applying, InMarket
<1> QED BY <1>3, <1>4, <1>5, <1>6, <1>7, <1>8, <1>9, <1>10, <1>11, <1>12 DEF
      IInv

\* The corrected state of the strategy is saved.
LEMMA ReadyPreserves ==
    ASSUME IInv, Ready PROVE IInv'
<1> USE DEF Ready
<1>1. Deployed' = Deployed
  BY DEF Deployed
<1>2. mem' \in Strategy
  BY Numbers DEF IInv, TypeOK, Strategy, Phases, FinishWorkflowRecovery, PausedNow,
        InvalidateObservations, PauseIncomplete
<1>3. mem'.phase \in InMarket => Deployed = Layers
  BY DEF IInv, TypeOK, Strategy, FinishWorkflowRecovery, PausedNow,
        InvalidateObservations, PauseIncomplete, InMarket
<1>4. mem.phase = "Halted" => mem'.phase = "Halted"
  BY DEF IInv, TypeOK, Strategy, FinishWorkflowRecovery, PausedNow,
        InvalidateObservations, PauseIncomplete
<1>5. TypeOK'
  BY <1>2 DEF IInv, TypeOK, JournalTypeOK, Steps
<1>6. DecisionTyped'
  BY DEF IInv, DecisionTyped
<1>7. ClockInv'
  BY DEF IInv, ClockInv
<1>8. SignatureInv'
  BY DEF IInv, SignatureInv, Executing
<1>9. RecordInv'
  BY <1>1 DEF IInv, RecordInv, Recorded, Agreed
<1>10. PlanInv'
  BY DEF IInv, PlanInv, Executing
<1>11. DecisionInv'
  BY <1>1 DEF IInv, DecisionInv, Executing, Applying
<1>12. WholeInv'
  BY <1>1 DEF IInv, WholeInv, Whole, DecisionInv, Executing, Applying
<1>13. ProgressInv'
  BY <1>1 DEF IInv, ProgressInv, Working
<1>14. PhaseInv'
  BY <1>1, <1>2, <1>3, <1>4 DEF IInv, PhaseInv, Executing, Applying, InMarket,
        PlanInv
<1> QED BY <1>5, <1>6, <1>7, <1>8, <1>9, <1>10, <1>11, <1>12, <1>13, <1>14 DEF
      IInv

\* The process is gone.
LEMMA StopPreserves ==
    ASSUME IInv, Stop PROVE IInv'
<1> USE DEF Stop, Ended, Hedging
<1>1. TypeOK'
  <2>1. mem' \in Strategy
    BY Numbers DEF NewStrategy, Strategy, Phases, Histories
  <2>2. bars'.hour \in Nat /\ bars'.close \in Nat /\ bars'.signal \in Signals
    BY DEF NoBars, Signals
  <2>3. faults' \in 0..MaxFaults
    BY BoundsAssumption DEF IInv, TypeOK
  <2>4. JournalTypeOK'
    BY DEF IInv, TypeOK, JournalTypeOK
  <2> QED BY <2>1, <2>2, <2>3, <2>4 DEF IInv, TypeOK, Steps
<1>2. Deployed' = Deployed /\ Recorded' = Recorded
  BY DEF Deployed, Recorded
<1>3. ClockInv' /\ SignatureInv' /\ RecordInv'
  BY <1>2 DEF IInv, ClockInv, SignatureInv, RecordInv, Executing
<1> QED BY <1>1, <1>3, EndedSafe
-----------------------------------------------------------------------------
(* The cycle: observe, decide, apply. *)

\* Two hours after the epoch, at least one has closed.
LEMMA HourPositive ==
    ASSUME IInv PROVE Hour(now) \in Nat /\ Hour(now) - 1 \in Nat
<1>1. now \in Nat /\ now >= 2 * HourTicks /\ HourTicks \in Nat \ {0}
  BY PhaseAssumption DEF IInv, TypeOK, ClockInv
<1>2. now \div HourTicks \in Nat /\ now \div HourTicks >= 1
  BY <1>1
<1> QED BY <1>2 DEF Hour

\* The candles, kept or fetched.
LEMMA FetchedTyped ==
    ASSUME IInv, NEW b \in Fetched
    PROVE  b.hour \in Nat /\ b.close \in Nat /\ b.signal \in Signals
<1>1. CASE b = bars
  BY <1>1 DEF IInv, TypeOK
<1>2. CASE b \in [hour: {Hour(now)}, close: {Hour(now) - 1, Hour(now)}, signal: Signals]
  BY <1>2, HourPositive
<1> QED BY <1>1, <1>2 DEF Fetched

\* A decision the strategy takes on what it sees can be executed.
LEMMA ObservePreserves ==
    ASSUME IInv, Observe PROVE IInv'
<1>1. PICK b \in Fetched : \E f \in {g \in Frames(b) : Distinct(g)} :
         LET r == Judge(mem, f) IN
         /\ bars' = b
         /\ mem' = r.state
         /\ d' = [lp |-> r.lp, fraction |-> r.fraction, layers |-> r.layers]
         /\ checkpoint' = mem'
         /\ calm' = CalmAfter(f)
         /\ pausedAt' = IF PausedAgain(f) THEN now ELSE PauseNoted
  BY DEF Observe
<1>2. PICK f \in Frames(b) :
         /\ bars' = b
         /\ mem' = Judge(mem, f).state
         /\ d' = [lp |-> Judge(mem, f).lp, fraction |-> Judge(mem, f).fraction,
                  layers |-> Judge(mem, f).layers]
         /\ checkpoint' = mem'
  BY <1>1
<1>3. b.hour \in Nat /\ b.close \in Nat /\ b.signal \in Signals
  BY FetchedTyped
<1>4. /\ pc = "cycle" /\ Agreed
      /\ checkpoint' = mem'
      /\ pc' = IF d'.lp = "Nothing" THEN "cycle" ELSE "apply"
      /\ UNCHANGED <<workflow, hedgePending, trend, journal, now, faults, todo, starting, opened>>
  BY <1>2 DEF Observe
<1>5. Deployed' = Deployed /\ Whole' = Whole
  BY <1>4 DEF Deployed, Whole
<1>6. Whole /\ ~exposed /\ plan = Null /\ ~starting /\ (mem.phase \in InMarket => Deployed = Layers)
  BY <1>4 DEF IInv, WholeInv, PhaseInv, PlanInv, DecisionInv, Executing, Applying
<1>7. /\ Sound(Judge(mem, f), f) /\ f.deployed = Deployed
      /\ mem.phase = "Halted" => mem'.phase = "Halted"
  BY <1>2, <1>3, <1>6, JudgeSound
<1>8. /\ mem' \in Strategy
      /\ d' \in [lp: Intents, fraction: 0..Full, layers: SUBSET Layers]
      /\ mem'.phase \in InMarket =>
            /\ d'.lp # "ExitToQuote"
            /\ d'.lp \in {"Nothing", "Hold"} => Deployed = Layers
      /\ d'.lp = "Recenter" => Deployed = Layers
      /\ mem'.phase = "Halted" => d'.lp \notin {"Deploy", "Recenter"}
  BY <1>2, <1>7 DEF Sound
<1>9. TypeOK'
  BY <1>2, <1>3, <1>4, <1>8 DEF IInv, TypeOK, JournalTypeOK, Steps
<1>10. DecisionTyped'
  BY <1>8 DEF DecisionTyped
<1>11. ClockInv' /\ SignatureInv' /\ RecordInv'
  BY <1>4, <1>5 DEF IInv, ClockInv, SignatureInv, RecordInv, Recorded, Executing
<1>12. PlanInv' /\ DecisionInv'
  BY <1>4, <1>5, <1>6, <1>8 DEF IInv, PlanInv, DecisionInv, Executing, Applying
<1>13. WholeInv'
  BY <1>4, <1>5, <1>6 DEF IInv, WholeInv
<1>14. ProgressInv'
  BY <1>4, <1>5, <1>6 DEF IInv, ProgressInv, Working
<1>15. PhaseInv'
  BY <1>4, <1>5, <1>6, <1>8 DEF IInv, PhaseInv, Executing, Applying
<1> QED BY <1>9, <1>10, <1>11, <1>12, <1>13, <1>14, <1>15 DEF IInv

\* The workflow is on record before anything is moved.
LEMMA BeginApplyPreserves ==
    ASSUME IInv, BeginApply PROVE IInv'
<1> USE DEF BeginApply, HedgeAlone, Flat, Agreed
<1>1. Deployed' = Deployed
  BY DEF Deployed
<1>2. TypeOK'
  BY DEF IInv, TypeOK, JournalTypeOK, Steps
<1>3. DecisionTyped'
  BY DEF IInv, DecisionTyped
<1>4. ClockInv'
  BY DEF IInv, ClockInv
<1>5. SignatureInv'
  BY DEF IInv, SignatureInv, Executing
<1>6. RecordInv'
  BY <1>1 DEF IInv, RecordInv, Recorded, Agreed
<1>7. PlanInv'
  BY DEF IInv, PlanInv, Executing
<1>8. DecisionInv'
  BY <1>1 DEF IInv, DecisionInv, Executing, Applying, PlanInv, DecisionTyped,
        Intents
<1>9. WholeInv'
  BY <1>1 DEF IInv, WholeInv, Whole, DecisionInv
<1>10. ProgressInv'
  BY <1>1 DEF IInv, ProgressInv, Working, PlanInv, Executing
<1>11. PhaseInv'
  BY <1>1 DEF IInv, PhaseInv, Executing, Applying, InMarket, DecisionInv
<1> QED BY <1>2, <1>3, <1>4, <1>5, <1>6, <1>7, <1>8, <1>9, <1>10, <1>11 DEF
      IInv

\* A hedge alone leaves the layers as they are.
LEMMA OnlyHedgePreserves ==
    ASSUME IInv, OnlyHedge PROVE IInv'
<1> USE DEF OnlyHedge, Applied, NoDecision
<1>1. Deployed' = Deployed
  BY DEF Deployed
<1>2. TypeOK'
  BY DEF IInv, TypeOK, JournalTypeOK, Steps
<1>3. DecisionTyped'
  BY Numbers DEF IInv, DecisionTyped, Intents
<1>4. ClockInv'
  BY DEF IInv, ClockInv
<1>5. SignatureInv'
  BY DEF IInv, SignatureInv, Executing
<1>6. RecordInv'
  BY <1>1 DEF IInv, RecordInv, Recorded, Agreed
<1>7. PlanInv'
  BY DEF IInv, PlanInv, Executing
<1>8. DecisionInv'
  BY <1>1 DEF IInv, DecisionInv, Executing, Applying, PlanInv
<1>9. WholeInv'
  BY <1>1 DEF IInv, WholeInv, Whole, DecisionInv
<1>10. ProgressInv'
  BY <1>1 DEF IInv, ProgressInv, Working, PlanInv, Executing
<1>11. PhaseInv'
  BY <1>1 DEF IInv, PhaseInv, Executing, Applying, InMarket, DecisionInv,
        PlanInv
<1> QED BY <1>2, <1>3, <1>4, <1>5, <1>6, <1>7, <1>8, <1>9, <1>10, <1>11 DEF
      IInv

\* The full hedge, which only an exit can do without.
LEMMA CoverPreserves ==
    ASSUME IInv, Cover PROVE IInv'
<1> USE DEF Cover, Named, Scaling
<1>1. Deployed' = Deployed
  BY DEF Deployed
<1>2. Deployed \subseteq Layers
  BY DEF Deployed
<1>3. plan = Null /\ (d.lp = "Recenter" => Deployed = Layers)
  BY DEF IInv, PlanInv, DecisionInv, Executing
<1>4. todo' \subseteq Layers /\ exposed' \in BOOLEAN
  BY <1>2 DEF IInv, TypeOK, JournalTypeOK
<1>5. TypeOK'
  BY <1>4 DEF IInv, TypeOK, JournalTypeOK, Steps
<1>6. DecisionTyped'
  BY DEF IInv, DecisionTyped
<1>7. ClockInv'
  BY DEF IInv, ClockInv
<1>8. SignatureInv'
  BY DEF IInv, SignatureInv, Executing
<1>9. RecordInv'
  BY <1>1 DEF IInv, RecordInv, Recorded, Agreed
<1>10. PlanInv'
  BY DEF IInv, PlanInv, Executing
<1>11. DecisionInv'
  BY <1>1 DEF IInv, DecisionInv, Executing, Applying, PlanInv
<1>12. WholeInv'
  BY <1>1 DEF IInv, WholeInv, Whole, DecisionInv, Applying
<1>13. ProgressInv'
  BY <1>1, <1>2, <1>3 DEF IInv, ProgressInv, Working, Executing
<1>14. PhaseInv'
  BY <1>1 DEF IInv, PhaseInv, Executing, Applying, InMarket, DecisionInv
<1> QED BY <1>5, <1>6, <1>7, <1>8, <1>9, <1>10, <1>11, <1>12, <1>13, <1>14 DEF
      IInv

\* Time passes.
LEMMA TickPreserves ==
    ASSUME IInv, Tick PROVE IInv'
<1> USE DEF Tick
<1>1. Deployed' = Deployed
  BY DEF Deployed
<1>2. TypeOK'
  BY DEF IInv, TypeOK, JournalTypeOK, Steps
<1>3. DecisionTyped'
  BY DEF IInv, DecisionTyped
<1>4. ClockInv'
  BY PhaseAssumption DEF IInv, ClockInv, TypeOK
<1>5. SignatureInv'
  BY DEF IInv, SignatureInv, Executing
<1>6. RecordInv'
  BY <1>1 DEF IInv, RecordInv, Recorded, Agreed
<1>7. PlanInv'
  BY DEF IInv, PlanInv, Executing
<1>8. DecisionInv'
  BY <1>1 DEF IInv, DecisionInv, Executing, Applying
<1>9. WholeInv'
  BY <1>1 DEF IInv, WholeInv, Whole
<1>10. ProgressInv'
  BY <1>1 DEF IInv, ProgressInv, Working
<1>11. PhaseInv'
  BY <1>1 DEF IInv, PhaseInv, Executing, Applying, InMarket
<1> QED BY <1>2, <1>3, <1>4, <1>5, <1>6, <1>7, <1>8, <1>9, <1>10, <1>11 DEF
      IInv

\* A plan is begun only when no signature is on disk.
LEMMA BeginTyped ==
    ASSUME NEW op \in Operations, NEW layer \in Layers \cup {Null}, NEW size \in 0..Full,
           BeginPlan(op, layer, size)
    PROVE  /\ plan' \in Plan /\ plan' # Null /\ draft' = 0
           /\ plan'.op = op /\ plan'.layer = layer /\ plan'.size = size
  BY NullAssumption DEF BeginPlan, Plan

\* One layer after the other is closed, and then the sale or the entry.
LEMMA RemovePreserves ==
    ASSUME IInv, Remove PROVE IInv'
<1>1. Deployed' = Deployed
  BY DEF Remove, Skip, Execute, Deployed
<1>2. CASE todo = {}
  <2> USE DEF Remove, Skip, Named
  <2>1. /\ todo' = IF d.lp = "ExitToQuote" THEN {} ELSE Named
        /\ pc = "remove" /\ pc' = IF d.lp = "ExitToQuote" THEN "exit" ELSE "enter"
        /\ UNCHANGED <<files, journal, clock, mem, d, starting, bars, ghosts>>
    BY <1>2
  <2> HIDE DEF Remove, Skip
  <2>2. TypeOK'
    BY <2>1 DEF IInv, TypeOK, JournalTypeOK, Steps, DecisionTyped
  <2>3. DecisionTyped' /\ ClockInv'
    BY <2>1 DEF IInv, DecisionTyped, ClockInv
  <2>4. SignatureInv' /\ RecordInv' /\ PlanInv'
    BY <1>1, <2>1 DEF IInv, SignatureInv, RecordInv, Recorded, PlanInv, Executing
  <2>5. DecisionInv' /\ WholeInv'
    BY <1>1, <2>1 DEF IInv, DecisionInv, WholeInv, Whole, Executing, Applying
  <2>6. ProgressInv'
    BY <1>1, <1>2, <2>1 DEF IInv, ProgressInv, Working, DecisionInv, PlanInv, DecisionTyped,
          Executing, Applying
  <2>7. PhaseInv'
    BY <1>1, <2>1 DEF IInv, PhaseInv, Executing, Applying
  <2> QED BY <2>2, <2>3, <2>4, <2>5, <2>6, <2>7 DEF IInv
<1>3. ASSUME NEW l \in todo, todo' = todo \ {l}, Execute("remove", l, 0)
      PROVE  IInv'
  <2>1. l \in Layers /\ l \in Deployed /\ pos[l] > 0
    BY <1>3 DEF Remove, IInv, TypeOK, ProgressInv, Deployed
  <2>2. /\ plan' \in Plan /\ plan' # Null /\ draft' = 0
        /\ plan'.op = "remove" /\ plan'.layer = l
    BY <1>3, <2>1, BeginTyped, Numbers DEF Execute, Operations
  <2>3. /\ pc = "remove" /\ pc' = "sign" /\ pending = Null /\ draft = Null
        /\ UNCHANGED <<files, journalFiles, chain, clock, mem, d, starting, bars, ghosts>>
    BY <1>3 DEF Remove, Execute, BeginPlan
  <2>4. plan = Null
    BY <2>3 DEF IInv, PlanInv
  <2>5. TypeOK'
    BY <1>3, <2>2, <2>3 DEF IInv, TypeOK, JournalTypeOK, Steps
  <2>6. DecisionTyped' /\ ClockInv' /\ SignatureInv' /\ RecordInv'
    BY <1>1, <2>3 DEF IInv, DecisionTyped, ClockInv, SignatureInv, RecordInv, Recorded
  <2>7. PlanInv'
    BY <2>1, <2>2, <2>3, NullAssumption DEF IInv, PlanInv, DecisionInv, Executing, Applying
  <2>8. DecisionInv' /\ WholeInv'
    BY <1>1, <2>2, <2>3 DEF IInv, DecisionInv, WholeInv, Whole, Executing, Applying
  <2>9. ProgressInv'
    BY <1>1, <1>3, <2>1, <2>2, <2>3, <2>4 DEF IInv, ProgressInv, Working, DecisionInv, Applying
  <2>10. PhaseInv'
    BY <1>1, <2>2, <2>3 DEF IInv, PhaseInv, Executing, Applying
  <2> QED BY <2>5, <2>6, <2>7, <2>8, <2>9, <2>10 DEF IInv
<1> QED BY <1>2, <1>3 DEF Remove

\* What base there is, is sold.
LEMMA ExitPreserves ==
    ASSUME IInv, Exit PROVE IInv'
<1> USE DEF Exit, Skip
<1>1. Deployed' = Deployed
  BY DEF Execute, Deployed
<1>2. /\ plan = Null
      /\ \/ /\ pc' = "trim" /\ UNCHANGED journal
         \/ /\ pc' = "sign" /\ plan' \in Plan /\ plan' # Null /\ draft' = 0
            /\ plan'.op = "sell" /\ pending = Null
            /\ UNCHANGED <<journalFiles, chain>>
  <2>1. plan = Null
    BY DEF IInv, PlanInv, Executing
  <2>2. Execute("sell", Null, 0) =>
           /\ plan' \in Plan /\ plan' # Null /\ draft' = 0 /\ plan'.op = "sell"
           /\ pc' = "sign" /\ pending = Null /\ UNCHANGED <<journalFiles, chain>>
    BY BeginTyped, Numbers DEF Execute, Operations
  <2> QED BY <2>1, <2>2
<1>3. TypeOK'
  BY <1>2 DEF IInv, TypeOK, JournalTypeOK, Steps
<1>4. DecisionTyped'
  BY DEF IInv, DecisionTyped
<1>5. ClockInv'
  BY DEF IInv, ClockInv
<1>6. SignatureInv'
  BY <1>2 DEF IInv, SignatureInv, Executing
<1>7. RecordInv'
  BY <1>1, <1>2 DEF IInv, RecordInv, Recorded, Agreed
<1>8. PlanInv'
  BY <1>2, NullAssumption DEF IInv, PlanInv, Executing, DecisionInv, Applying
<1>9. DecisionInv'
  BY <1>1, <1>2 DEF IInv, DecisionInv, Executing, Applying
<1>10. WholeInv'
  BY <1>1, <1>2 DEF IInv, WholeInv, Whole
<1>11. ProgressInv'
  BY <1>1, <1>2 DEF IInv, ProgressInv, Working
<1>12. PhaseInv'
  BY <1>1, <1>2 DEF IInv, PhaseInv, Executing, Applying, InMarket
<1> QED BY <1>3, <1>4, <1>5, <1>6, <1>7, <1>8, <1>9, <1>10, <1>11, <1>12 DEF
      IInv

\* The workflow ends hedged.
LEMMA HedgeRestPreserves ==
    ASSUME IInv, HedgeRest PROVE IInv'
<1> USE DEF HedgeRest, Agreed
<1>1. Deployed' = Deployed
  BY DEF Deployed
<1>2. plan = Null
  BY DEF IInv, PlanInv, Executing
<1>3. TypeOK'
  BY DEF IInv, TypeOK, JournalTypeOK, Steps
<1>4. DecisionTyped'
  BY DEF IInv, DecisionTyped
<1>5. ClockInv'
  BY DEF IInv, ClockInv
<1>6. SignatureInv'
  BY DEF IInv, SignatureInv, Executing
<1>7. RecordInv'
  BY <1>1 DEF IInv, RecordInv, Recorded, Agreed
<1>8. PlanInv'
  BY DEF IInv, PlanInv, Executing
<1>9. DecisionInv'
  BY <1>1 DEF IInv, DecisionInv, Executing, Applying, PlanInv
<1>10. WholeInv'
  BY <1>1 DEF IInv, WholeInv, Whole
<1>11. ProgressInv'
  BY <1>1, <1>2 DEF IInv, ProgressInv, Working
<1>12. PhaseInv'
  BY <1>1 DEF IInv, PhaseInv, Executing, Applying, InMarket
<1> QED BY <1>3, <1>4, <1>5, <1>6, <1>7, <1>8, <1>9, <1>10, <1>11, <1>12 DEF
      IInv

\* The record is cleared when the layers are all there or all gone.
LEMMA ClearWorkflowPreserves ==
    ASSUME IInv, ClearWorkflow PROVE IInv'
<1> USE DEF ClearWorkflow, Applied, NoDecision
<1>1. Deployed' = Deployed
  BY DEF Deployed
<1>2. /\ plan = Null /\ pending = Null
      /\ ~exposed /\ Deployed = IF d.lp = "ExitToQuote" THEN {} ELSE Layers
      /\ d.lp \in {"ExitToQuote", "Deploy", "Recenter"}
  BY DEF IInv, PlanInv, SignatureInv, ProgressInv, DecisionInv, Executing, Applying
<1>3. TypeOK'
  BY DEF IInv, TypeOK, JournalTypeOK, Steps
<1>4. DecisionTyped'
  BY Numbers DEF IInv, DecisionTyped, Intents
<1>5. ClockInv'
  BY DEF IInv, ClockInv
<1>6. SignatureInv'
  BY <1>2 DEF IInv, SignatureInv, Executing
<1>7. RecordInv'
  BY <1>1 DEF IInv, RecordInv, Recorded, Agreed
<1>8. PlanInv'
  BY <1>2 DEF IInv, PlanInv, Executing
<1>9. DecisionInv'
  BY <1>1, <1>2 DEF IInv, DecisionInv, Executing, Applying
<1>10. WholeInv'
  BY <1>1, <1>2 DEF IInv, WholeInv, Whole
<1>11. ProgressInv'
  BY <1>1, <1>2 DEF IInv, ProgressInv, Working
<1>12. PhaseInv'
  BY <1>1, <1>2 DEF IInv, PhaseInv, Executing, Applying, InMarket, DecisionInv
<1> QED BY <1>3, <1>4, <1>5, <1>6, <1>7, <1>8, <1>9, <1>10, <1>11, <1>12 DEF
      IInv

\* A share of the budget, the decided one or the one the strategy has.
LEMMA FractionTyped == ASSUME IInv PROVE Fraction \in 0..Full
  BY DEF IInv, TypeOK, DecisionTyped, Fraction, Strategy

\* A layer that has its share is done; for another one base may be bought.
LEMMA EnterPreserves ==
    ASSUME IInv, Enter PROVE IInv'
<1>1. /\ pc = "enter" /\ UNCHANGED <<files, clock, mem, d, starting, bars, ghosts>>
      /\ UNCHANGED <<journalFiles, chain>>
  BY DEF Enter, Skip, Execute
<1>2. Deployed' = Deployed /\ Deployed \subseteq Layers
  BY <1>1 DEF Deployed
<1>3. plan = Null /\ workflow /\ d.lp \in {"Deploy", "Recenter"} /\ todo \subseteq Layers
  BY <1>1 DEF IInv, PlanInv, DecisionInv, ProgressInv, Executing, Applying, TypeOK
<1>4. \A l \in Layers : l \in todo \cup Deployed
  BY <1>1, <1>3 DEF IInv, ProgressInv, Working
<1>5. CASE UNCHANGED executing /\ pc' \in {"balance", "enter", "shield"} /\ todo' \subseteq todo
           /\ (todo \ todo') \subseteq Deployed /\ (pc' = "balance" => todo = {})
  <2>1. TypeOK'
    BY <1>1, <1>3, <1>5 DEF IInv, TypeOK, JournalTypeOK, Steps
  <2>2. DecisionTyped' /\ ClockInv'
    BY <1>1 DEF IInv, DecisionTyped, ClockInv
  <2>3. SignatureInv' /\ RecordInv'
    BY <1>1, <1>2, <1>5 DEF IInv, SignatureInv, RecordInv, Recorded, Executing
  <2>4. PlanInv'
    BY <1>1, <1>3, <1>5 DEF IInv, PlanInv, Executing
  <2>5. DecisionInv' /\ WholeInv'
    BY <1>1, <1>2, <1>3, <1>5 DEF IInv, DecisionInv, WholeInv, Whole, Executing, Applying
  <2>6. ProgressInv'
    BY <1>1, <1>2, <1>3, <1>4, <1>5 DEF ProgressInv, Working
  <2>7. PhaseInv'
    BY <1>1, <1>2, <1>3, <1>5 DEF IInv, PhaseInv, Executing, Applying
  <2> QED BY <2>1, <2>2, <2>3, <2>4, <2>5, <2>6, <2>7 DEF IInv
<1>6. CASE UNCHANGED todo /\ Execute("buy", Null, 0)
  <2>1. /\ plan' \in Plan /\ plan' # Null /\ draft' = 0 /\ plan'.op = "buy"
        /\ pc' = "sign" /\ pending = Null
    BY <1>6, BeginTyped, Numbers DEF Execute, Operations
  <2>2. TypeOK'
    BY <1>1, <1>6, <2>1 DEF IInv, TypeOK, JournalTypeOK, Steps
  <2>3. DecisionTyped' /\ ClockInv'
    BY <1>1 DEF IInv, DecisionTyped, ClockInv
  <2>4. SignatureInv' /\ RecordInv'
    BY <1>1, <1>2, <2>1 DEF IInv, SignatureInv, RecordInv, Recorded, Executing
  <2>5. PlanInv'
    BY <1>1, <1>3, <2>1, NullAssumption DEF IInv, PlanInv, Executing
  <2>6. DecisionInv' /\ WholeInv'
    BY <1>1, <1>2, <1>3, <2>1 DEF IInv, DecisionInv, WholeInv, Whole, Executing, Applying
  <2>7. ProgressInv'
    BY <1>1, <1>2, <1>3, <1>4, <1>6, <2>1 DEF ProgressInv, Working
  <2>8. PhaseInv'
    BY <1>1, <1>2, <1>3, <2>1 DEF IInv, PhaseInv, Executing, Applying
  <2> QED BY <2>2, <2>3, <2>4, <2>5, <2>6, <2>7, <2>8 DEF IInv
<1>7. ASSUME NEW l \in todo, pos[l] > Fraction, todo' = todo \ {l}
      PROVE  (todo \ todo') \subseteq Deployed
  <2>1. l \in Layers /\ pos[l] \in Nat
    BY <1>3, PhaseAssumption DEF IInv, TypeOK, JournalTypeOK
  <2>2. pos[l] > 0
    BY <1>7, <2>1, FractionTyped
  <2> QED BY <1>7, <2>1, <2>2 DEF Deployed
<1> QED BY <1>5, <1>6, <1>7 DEF Enter, Skip

\* The base is hedged, and then a layer without its share is minted or increased.
LEMMA ShieldPreserves ==
    ASSUME IInv, Shield PROVE IInv'
<1>1. PICK l \in todo :
         /\ pending = Null /\ todo' = todo \ {l}
         /\ BeginPlan(IF pos[l] > 0 THEN "increase" ELSE "mint", l, Fraction)
  BY DEF Shield
<1>2. /\ pc = "shield" /\ pc' = "sign" /\ exposed' = FALSE
      /\ UNCHANGED <<files, journalFiles, pos, base, wire, answer, clock, mem, d,
                     starting, bars, ghosts>>
  BY DEF Shield
<1>3. Deployed' = Deployed /\ Deployed \subseteq Layers
  BY <1>2 DEF Deployed
<1>4. /\ plan = Null /\ workflow /\ d.lp \in {"Deploy", "Recenter"}
      /\ todo \subseteq Layers /\ l \in Layers /\ pos[l] \in Nat
      /\ \A m \in Layers : m \in todo \cup Deployed
  BY <1>2, PhaseAssumption DEF IInv, PlanInv, DecisionInv, ProgressInv, Working, Executing,
        Applying, TypeOK, JournalTypeOK
<1>5. /\ plan' \in Plan /\ plan' # Null /\ draft' = 0 /\ plan'.layer = l
      /\ plan'.op = IF pos[l] > 0 THEN "increase" ELSE "mint"
  BY <1>1, <1>4, BeginTyped, FractionTyped DEF Operations
<1>6. pos[l] > 0 <=> l \in Deployed
  BY <1>4 DEF Deployed
<1>7. TypeOK'
  <2>1. exposed' \in BOOLEAN
    BY <1>2
  <2>2. plan' \in Plan \cup {Null}
    BY <1>5
  <2>3. draft' \in 0..1 \cup {Null}
    BY <1>5
  <2>4. JournalTypeOK'
    BY <1>2, <2>1, <2>2, <2>3 DEF IInv, TypeOK, JournalTypeOK
  <2> QED BY <1>1, <1>2, <1>4, <2>4 DEF IInv, TypeOK, Steps
<1>8. DecisionTyped' /\ ClockInv'
  BY <1>2 DEF IInv, DecisionTyped, ClockInv
<1>9. SignatureInv' /\ RecordInv'
  BY <1>1, <1>2, <1>3 DEF IInv, SignatureInv, RecordInv, Recorded, Executing
<1>10. PlanInv'
  BY <1>2, <1>4, <1>5, NullAssumption DEF IInv, PlanInv, Executing
<1>11. DecisionInv' /\ WholeInv'
  BY <1>2, <1>3, <1>4, <1>5 DEF IInv, DecisionInv, WholeInv, Whole, Executing, Applying
<1>12. ProgressInv'
  BY <1>1, <1>2, <1>3, <1>4, <1>5, <1>6 DEF ProgressInv, Working
<1>13. PhaseInv'
  BY <1>2, <1>3, <1>4, <1>5 DEF IInv, PhaseInv, Executing, Applying
<1> QED BY <1>7, <1>8, <1>9, <1>10, <1>11, <1>12, <1>13 DEF IInv
-----------------------------------------------------------------------------
(* The steps of journal::execute and journal::reconcile. *)

\* The signed transaction is on disk before anything is sent.
LEMMA SignPreserves ==
    ASSUME IInv, StepOfJournal("sign", Sign, "send") PROVE IInv'
<1> USE DEF StepOfJournal, Sign
<1>1. Deployed' = Deployed
  BY DEF Deployed
<1>2. /\ pc = "sign" /\ plan # Null /\ pc' = "send" /\ answer' = "unknown"
      /\ pending' = [op |-> plan.op, layer |-> plan.layer, size |-> plan.size, index |-> draft]
      /\ UNCHANGED <<tracked, pos, base, exposed, wire, executing, files, clock, mem, d, todo,
                     starting, bars, ghosts>>
  OBVIOUS
<1>3. pending = Null /\ wire = {}
  <2>1. pending = Null
    BY <1>2 DEF IInv, SignatureInv, Executing
  <2>2. \A t \in wire : t = Null /\ t \in Transaction
    BY <2>1 DEF IInv, SignatureInv, TypeOK, JournalTypeOK
  <2> QED BY <2>1, <2>2, NullAssumption
<1>4. plan \in Plan /\ draft \in 0..1 /\ workflow /\ tracked = Deployed
  BY <1>2, <1>3 DEF IInv, TypeOK, JournalTypeOK, PlanInv, RecordInv, SignatureInv
<1>5. pending' \in Transaction /\ pending' # Null
  BY <1>2, <1>4, NullAssumption DEF Plan, Transaction
<1>6. TypeOK'
  BY <1>5 DEF IInv, TypeOK, JournalTypeOK, Steps
<1>7. DecisionTyped'
  BY DEF IInv, DecisionTyped
<1>8. ClockInv'
  BY DEF IInv, ClockInv
<1>9. SignatureInv'
  BY <1>2, <1>3, <1>4, <1>5 DEF IInv, SignatureInv, Executing, PlanInv
<1>10. RecordInv'
  BY <1>1, <1>2, <1>4 DEF IInv, RecordInv, Recorded, Agreed
<1>11. PlanInv'
  BY <1>2, <1>3, <1>5 DEF IInv, PlanInv, Executing
<1>12. DecisionInv'
  BY <1>1, <1>2 DEF IInv, DecisionInv, Executing, Applying
<1>13. WholeInv'
  BY <1>1 DEF IInv, WholeInv, Whole
<1>14. ProgressInv'
  BY <1>1 DEF IInv, ProgressInv, Working
<1>15. PhaseInv'
  BY <1>1, <1>2 DEF IInv, PhaseInv, Executing, Applying, InMarket
<1> QED BY <1>6, <1>7, <1>8, <1>9, <1>10, <1>11, <1>12, <1>13, <1>14, <1>15
      DEF IInv

\* It is sent once.
LEMMA SendPreserves ==
    ASSUME IInv, StepOfJournal("send", Send, "poll") PROVE IInv'
<1> USE DEF StepOfJournal, Send
<1>1. Deployed' = Deployed
  BY DEF Deployed
<1>2. plan # Null /\ pending # Null /\ pending \in Transaction /\ wire = {} /\ answer = "unknown"
  BY DEF IInv, PlanInv, TypeOK, JournalTypeOK, Executing
<1>3. IsFiniteSet(wire') /\ wire' = {pending}
  BY <1>2, FS_AddElement DEF IInv, TypeOK, JournalTypeOK
<1>4. TypeOK'
  BY <1>2, <1>3 DEF IInv, TypeOK, JournalTypeOK, Steps
<1>5. DecisionTyped'
  BY DEF IInv, DecisionTyped
<1>6. ClockInv'
  BY DEF IInv, ClockInv
<1>7. SignatureInv'
  BY <1>2, <1>3 DEF IInv, SignatureInv, Executing
<1>8. RecordInv'
  BY <1>1 DEF IInv, RecordInv, Recorded, Agreed
<1>9. PlanInv'
  BY DEF IInv, PlanInv, Executing
<1>10. DecisionInv'
  BY <1>1 DEF IInv, DecisionInv, Executing, Applying
<1>11. WholeInv'
  BY <1>1 DEF IInv, WholeInv, Whole
<1>12. ProgressInv'
  BY <1>1 DEF IInv, ProgressInv, Working
<1>13. PhaseInv'
  BY <1>1 DEF IInv, PhaseInv, Executing, Applying, InMarket
<1> QED BY <1>4, <1>5, <1>6, <1>7, <1>8, <1>9, <1>10, <1>11, <1>12, <1>13 DEF
      IInv

\* A status is read.
LEMMA PollPreserves ==
    ASSUME IInv, StepOfJournal("poll", Poll, "settle") PROVE IInv'
<1> USE DEF StepOfJournal, Poll
<1>1. Deployed' = Deployed
  BY DEF Deployed
<1>2. TypeOK'
  BY DEF IInv, TypeOK, JournalTypeOK, Steps
<1>3. DecisionTyped'
  BY DEF IInv, DecisionTyped
<1>4. ClockInv'
  BY DEF IInv, ClockInv
<1>5. SignatureInv'
  BY DEF IInv, SignatureInv, Executing
<1>6. RecordInv'
  BY <1>1 DEF IInv, RecordInv, Recorded, Agreed
<1>7. PlanInv'
  BY DEF IInv, PlanInv, Executing
<1>8. DecisionInv'
  BY <1>1 DEF IInv, DecisionInv, Executing, Applying
<1>9. WholeInv'
  BY <1>1 DEF IInv, WholeInv, Whole
<1>10. ProgressInv'
  BY <1>1 DEF IInv, ProgressInv, Working
<1>11. PhaseInv'
  BY <1>1 DEF IInv, PhaseInv, Executing, Applying, InMarket
<1> QED BY <1>2, <1>3, <1>4, <1>5, <1>6, <1>7, <1>8, <1>9, <1>10, <1>11 DEF
      IInv

\* What the confirmed transaction did is recorded while its file is still there.
LEMMA SettlePreserves ==
    ASSUME IInv, StepOfJournal("settle", ApplyConfirmed, "confirmed") PROVE IInv'
<1> USE DEF StepOfJournal, ApplyConfirmed
<1>1. Deployed' = Deployed
  BY DEF Deployed
<1>2. pending # Null /\ answer = "ok" /\ pending \in Transaction
  BY DEF IInv, PlanInv, TypeOK, JournalTypeOK, Executing
<1>3. tracked' = Recorded /\ Recorded = Deployed
  BY <1>2, Numbers DEF IInv, RecordInv, Recorded, Count, Transaction
<1>4. Recorded' = Deployed
  BY <1>1, <1>3, <1>2 DEF IInv, SignatureInv, Recorded, Deployed, Transaction, Operations
<1>5. Deployed \subseteq Layers
  BY DEF Deployed
<1>6. TypeOK'
  BY <1>3, <1>5 DEF IInv, TypeOK, JournalTypeOK, Steps
<1>7. DecisionTyped'
  BY DEF IInv, DecisionTyped
<1>8. ClockInv'
  BY DEF IInv, ClockInv
<1>9. SignatureInv'
  BY <1>2 DEF IInv, SignatureInv, Executing
<1>10. RecordInv'
  BY <1>1, <1>3, <1>4 DEF IInv, RecordInv, Recorded, Agreed
<1>11. PlanInv'
  BY DEF IInv, PlanInv, Executing
<1>12. DecisionInv'
  BY <1>1 DEF IInv, DecisionInv, Executing, Applying
<1>13. WholeInv'
  BY <1>1 DEF IInv, WholeInv, Whole
<1>14. ProgressInv'
  BY <1>1 DEF IInv, ProgressInv, Working
<1>15. PhaseInv'
  BY <1>1 DEF IInv, PhaseInv, Executing, Applying, InMarket
<1> QED BY <1>6, <1>7, <1>8, <1>9, <1>10, <1>11, <1>12, <1>13, <1>14, <1>15
      DEF IInv

\* The file of a confirmed transaction is removed, and the plan goes on.
LEMMA AcknowledgePreserves ==
    ASSUME IInv, StepOfJournal("confirmed", Acknowledge, AfterPlan) PROVE IInv'
<1>1. /\ pc = "confirmed" /\ pc' = AfterPlan
      /\ pending' = Null /\ answer' = "unknown"
      /\ UNCHANGED <<tracked, pos, base, exposed, wire, files, clock, mem, d, todo,
                     starting, bars, ghosts>>
  BY DEF StepOfJournal, Acknowledge
<1>2. /\ answer = "ok" /\ wire = {} /\ tracked = Deployed /\ workflow
      /\ pending # Null /\ pending \in Transaction
  BY <1>1 DEF IInv, PlanInv, RecordInv, SignatureInv, TypeOK, JournalTypeOK, Executing
<1>3. Deployed' = Deployed
  BY <1>1 DEF Deployed
<1>4. DecisionTyped' /\ ClockInv' /\ SignatureInv' /\ RecordInv'
  BY <1>1, <1>2, <1>3 DEF IInv, DecisionTyped, ClockInv, SignatureInv, RecordInv
<1>5. CASE plan = Null
  <2>1. plan' = Null /\ draft' = Null /\ pc' = "hedges"
    BY <1>1, <1>5 DEF StepOfJournal, Acknowledge, AfterPlan
  <2>2. TypeOK'
    BY <1>1, <2>1 DEF IInv, TypeOK, JournalTypeOK, Steps
  <2>3. PlanInv' /\ WholeInv'
    BY <1>1, <1>2, <2>1 DEF PlanInv, WholeInv, Executing
  <2>4. DecisionInv'
    BY <1>1, <1>5, <2>1 DEF IInv, DecisionInv, Executing, Applying
  <2>5. ProgressInv' /\ PhaseInv'
    BY <1>1, <1>3, <2>1 DEF IInv, ProgressInv, Working, PhaseInv, Executing, Applying
  <2> QED BY <1>4, <2>2, <2>3, <2>4, <2>5 DEF IInv
<1>6. CASE plan # Null
  <2>1. /\ plan \in Plan /\ draft \in 0..1
        /\ draft = 0 \/ (draft = 1 /\ plan.op \in {"mint", "remove"})
        /\ pending = [op |-> plan.op, layer |-> plan.layer, size |-> plan.size, index |-> draft]
        /\ plan.op \in {"mint", "increase", "remove"} => plan.layer \in Layers
        /\ plan.op \in {"mint", "increase"} => ~exposed
        /\ d.lp \in {"ExitToQuote", "Deploy", "Recenter"}
    BY <1>1, <1>6 DEF IInv, PlanInv, DecisionInv, TypeOK, JournalTypeOK, Executing
  <2>2. /\ plan.op = "remove" /\ draft = 1 => pos[plan.layer] = 0
        /\ plan.op = "remove" /\ draft = 0 => pos[plan.layer] > 0
        /\ plan.op = "mint" => pos[plan.layer] > 0
    BY <1>2, <2>1 DEF IInv, SignatureInv
  <2>3. CASE draft = 0 /\ plan.op \in {"mint", "remove"}
    <3>1. plan' = plan /\ draft' = 1 /\ pc' = "sign"
      BY <1>1, <1>6, <2>3 DEF StepOfJournal, Acknowledge, AfterPlan, PlanFinished, Count
    <3>2. TypeOK'
      BY <1>1, <3>1 DEF IInv, TypeOK, JournalTypeOK, Steps
    <3>3. PlanInv'
      BY <1>1, <1>2, <1>6, <2>1, <2>2, <2>3, <3>1, NullAssumption DEF PlanInv, Executing
    <3>4. DecisionInv' /\ WholeInv'
      BY <1>1, <1>2, <1>3, <3>1 DEF IInv, DecisionInv, WholeInv, Executing, Applying
    <3>5. ProgressInv' /\ PhaseInv'
      BY <1>1, <1>3, <3>1 DEF IInv, ProgressInv, Working, PhaseInv, Executing, Applying
    <3> QED BY <1>4, <3>2, <3>3, <3>4, <3>5 DEF IInv
  <2>4. CASE ~(draft = 0 /\ plan.op \in {"mint", "remove"})
    <3>1. /\ plan' = Null /\ draft' = Null
          /\ pc' = CASE plan.op = "remove" -> "remove"
                     [] plan.op = "sell" -> "trim"
                     [] plan.op = "buy" -> "shield"
                     [] OTHER -> "enter"
          /\ plan.op = "remove" => draft = 1
      BY <1>1, <1>6, <2>1, <2>4 DEF StepOfJournal, Acknowledge, AfterPlan, PlanFinished, Count
    <3>2. /\ plan.op \in Operations
          /\ pc' \in {"remove", "trim", "shield", "enter"}
          /\ pc' = "remove" <=> plan.op = "remove"
          /\ pc' = "trim" <=> plan.op = "sell"
          /\ pc' = "shield" <=> plan.op = "buy"
      BY <2>1, <3>1 DEF Plan, Operations
    <3>3. TypeOK'
      BY <1>1, <3>1, <3>2 DEF IInv, TypeOK, JournalTypeOK, Steps
    <3>4. PlanInv'
      BY <3>1, <3>2 DEF PlanInv, Executing
    <3>5. DecisionInv' /\ WholeInv'
      BY <1>1, <1>2, <1>3, <2>1, <3>1, <3>2 DEF IInv, DecisionInv, WholeInv, Executing, Applying
    <3>6. PhaseInv'
      BY <1>1, <1>3, <1>6, <3>1, <3>2 DEF IInv, PhaseInv, Executing, Applying
    <3>7. plan.op = "remove" => plan.layer \notin Deployed
      BY <2>2, <3>1 DEF Deployed
    <3>8. plan.op = "mint" => plan.layer \in Deployed
      BY <2>1, <2>2 DEF Deployed
    <3>9. ProgressInv'
      BY <1>1, <1>3, <1>6, <3>1, <3>2, <3>7, <3>8 DEF IInv, ProgressInv, Working, Operations
    <3> QED BY <1>4, <3>3, <3>4, <3>5, <3>6, <3>9 DEF IInv
  <2> QED BY <2>3, <2>4
<1> QED BY <1>5, <1>6

\* An unresolved signature outlives the process that gave it up,
LEMMA EndedWithSignature ==
    ASSUME IInv, Ended, UNCHANGED <<files, journalFiles, chain, clock, opened, pausedAt>>
    PROVE  IInv'
<1>1. TypeOK'
  <2>1. mem' \in Strategy
    BY Numbers DEF Ended, NewStrategy, Strategy, Phases, Histories
  <2>2. bars'.hour \in Nat /\ bars'.close \in Nat /\ bars'.signal \in Signals
    BY DEF Ended, NoBars, Signals
  <2>3. JournalTypeOK'
    BY DEF IInv, TypeOK, JournalTypeOK, Ended
  <2> QED BY <2>1, <2>2, <2>3 DEF IInv, TypeOK, Steps, Ended
<1>2. Deployed' = Deployed /\ Recorded' = Recorded
  BY DEF Deployed, Recorded
<1>3. ClockInv' /\ SignatureInv' /\ RecordInv'
  BY <1>2 DEF IInv, ClockInv, SignatureInv, RecordInv, Executing, Ended
<1> QED BY <1>1, <1>3, EndedSafe

\* and a failed transaction leaves no trace.
LEMMA EndFailedPreserves ==
    ASSUME IInv, EndFailed PROVE IInv'
<1>1. /\ answer = "failed" /\ pending' = Null /\ answer' = "unknown" /\ Ended
      /\ UNCHANGED <<tracked, pos, base, exposed, wire, files, clock, opened, pausedAt>>
  BY DEF EndFailed, DiscardFailed
<1>2. wire = {} /\ tracked = Deployed
  BY <1>1 DEF IInv, SignatureInv, RecordInv
<1>3. TypeOK'
  <2>1. mem' \in Strategy
    BY <1>1, Numbers DEF Ended, NewStrategy, Strategy, Phases, Histories
  <2>2. bars'.hour \in Nat /\ bars'.close \in Nat /\ bars'.signal \in Signals
    BY <1>1 DEF Ended, NoBars, Signals
  <2>3. JournalTypeOK'
    BY <1>1 DEF IInv, TypeOK, JournalTypeOK, Ended
  <2> QED BY <1>1, <2>1, <2>2, <2>3 DEF IInv, TypeOK, Steps, Ended
<1>4. Deployed' = Deployed
  BY <1>1 DEF Deployed
<1>5. ClockInv' /\ SignatureInv' /\ RecordInv'
  BY <1>1, <1>2, <1>4 DEF IInv, ClockInv, SignatureInv, RecordInv, Ended
<1> QED BY <1>1, <1>3, <1>5, EndedSafe

\* The start-up settles the signature an earlier process left, or ends.
LEMMA ReconcilePreserves ==
    ASSUME IInv, Reconcile PROVE IInv'
<1>1. CASE pending # Null /\ answer = "unknown"
  BY <1>1, EndedWithSignature DEF Reconcile
<1>2. CASE ~(pending # Null /\ answer = "unknown")
  <2>1. /\ pc = "reconcile" /\ pc' = IF pending = Null THEN "hedges" ELSE "settle"
        /\ UNCHANGED <<files, journal, clock, mem, d, todo, starting, bars, ghosts>>
    BY <1>2 DEF Reconcile
  <2>2. plan = Null
    BY <2>1 DEF IInv, PlanInv, Executing
  <2>3. Deployed' = Deployed
    BY <2>1 DEF Deployed
  <2>4. TypeOK'
    BY <2>1 DEF IInv, TypeOK, JournalTypeOK, Steps
  <2>5. DecisionTyped' /\ ClockInv' /\ SignatureInv' /\ RecordInv'
    BY <2>1, <2>3 DEF IInv, DecisionTyped, ClockInv, SignatureInv, RecordInv, Recorded, Executing
  <2>6. PlanInv' /\ DecisionInv'
    BY <1>2, <2>1, <2>2 DEF IInv, PlanInv, DecisionInv, Executing, Applying
  <2>7. WholeInv' /\ ProgressInv'
    BY <2>1, <2>2, <2>3 DEF IInv, WholeInv, Whole, ProgressInv, Working
  <2>8. PhaseInv'
    BY <2>1, <2>2, <2>3 DEF IInv, PhaseInv, Executing, Applying, DecisionInv
  <2> QED BY <2>4, <2>5, <2>6, <2>7, <2>8 DEF IInv
<1> QED BY <1>1, <1>2

-----------------------------------------------------------------------------
(* The chain. *)

\* What is on the wire is the signature on disk, unanswered, while the runner
\* polls or is down.
LEMMA OnTheWire ==
    ASSUME IInv, NEW t \in wire
    PROVE  /\ t = pending /\ pending # Null /\ pending \in Transaction
           /\ wire \ {t} = {} /\ answer = "unknown" /\ tracked = Deployed /\ workflow
           /\ pc \in {"down", "reconcile", "poll"}
<1>1. t = pending /\ t \in Transaction /\ t # Null
  BY NullAssumption DEF IInv, SignatureInv, TypeOK, JournalTypeOK
<1>2. answer = "unknown" /\ wire \ {t} = {}
  BY <1>1 DEF IInv, SignatureInv
<1>3. tracked = Deployed /\ workflow
  BY <1>1, <1>2 DEF IInv, RecordInv, SignatureInv
<1>4. pc \in {"down", "reconcile", "poll"}
  BY <1>1, <1>2 DEF IInv, SignatureInv, PlanInv, Executing
<1> QED BY <1>1, <1>2, <1>3, <1>4

\* What a transaction that lands does to its layer.
LEMMA Landed ==
    ASSUME IInv, NEW t \in wire, Executes(t)
    PROVE  /\ pos' \in [Layers -> 0..Full + 1] /\ base' \in BOOLEAN /\ exposed' \in BOOLEAN
           /\ t.op = "mint" => Deployed' = Deployed \cup {t.layer} /\ t.layer \in Layers
           /\ t.op = "increase" => Deployed' = Deployed /\ t.layer \in Deployed
           /\ t.op = "remove" /\ t.index = 0 => Deployed' = Deployed /\ t.layer \in Deployed
           /\ t.op = "remove" /\ t.index = 1 => Deployed' = Deployed \ {t.layer}
           /\ t.op \in {"buy", "sell"} => Deployed' = Deployed
           /\ t.op # "buy" => exposed' = exposed
<1>1. t = pending /\ pending # Null /\ pending \in Transaction /\ answer = "unknown"
  BY OnTheWire
<1>2. /\ t.op \in Operations /\ t.size \in 0..Full /\ t.index \in 0..1
      /\ pos \in [Layers -> 0..Full + 1] /\ base \in BOOLEAN /\ exposed \in BOOLEAN
      /\ t.op \in {"mint", "increase", "remove"} => t.layer \in Layers
      /\ t.op \in {"increase", "remove"} => pos[t.layer] > 0
  BY <1>1 DEF IInv, SignatureInv, TypeOK, JournalTypeOK, Transaction
<1>3. ASSUME NEW l \in Layers, NEW n \in 0..Full + 1, pos' = [pos EXCEPT ![l] = n]
      PROVE  /\ pos' \in [Layers -> 0..Full + 1]
             /\ Deployed' = IF n > 0 THEN Deployed \cup {l} ELSE Deployed \ {l}
  BY <1>2, <1>3 DEF Deployed
<1>4. CASE t.op \in {"mint", "increase"}
  <2> DEFINE n == IF t.op = "mint" /\ t.index = 0 THEN 1 ELSE 1 + t.size
  <2>1. pos' = [pos EXCEPT ![t.layer] = n] /\ UNCHANGED <<base, exposed>>
    BY <1>4 DEF Executes
  <2>2. n \in 0..Full + 1 /\ n > 0
    BY <1>2, PhaseAssumption
  <2>3. t.layer \in Layers
    BY <1>2, <1>4
  <2> HIDE DEF n
  <2>4. pos' \in [Layers -> 0..Full + 1] /\ Deployed' = Deployed \cup {t.layer}
    BY <1>3, <2>1, <2>2, <2>3
  <2>5. t.op = "increase" => t.layer \in Deployed
    BY <1>2 DEF Deployed
  <2> QED BY <1>2, <1>4, <2>1, <2>3, <2>4, <2>5
<1>5. CASE t.op = "remove"
  <2> DEFINE n == IF t.index = 1 THEN 0 ELSE 1
  <2>1. pos' = [pos EXCEPT ![t.layer] = n] /\ base' = TRUE /\ UNCHANGED exposed
    BY <1>2, <1>5 DEF Executes, Count
  <2>2. n \in 0..Full + 1
    BY PhaseAssumption
  <2>3. t.layer \in Layers /\ t.layer \in Deployed
    BY <1>2, <1>5 DEF Deployed
  <2>4. n > 0 <=> t.index # 1
    OBVIOUS
  <2> HIDE DEF n
  <2>5. /\ pos' \in [Layers -> 0..Full + 1]
        /\ Deployed' = IF n > 0 THEN Deployed \cup {t.layer} ELSE Deployed \ {t.layer}
    BY <1>3, <2>1, <2>2, <2>3
  <2> QED BY <1>2, <1>5, <2>1, <2>3, <2>4, <2>5
<1>6. CASE t.op = "buy"
  <2>1. base' = TRUE /\ exposed' = TRUE /\ UNCHANGED pos
    BY <1>6 DEF Executes
  <2> QED BY <1>2, <1>6, <2>1 DEF Deployed
<1>7. CASE t.op = "sell"
  <2>1. base' = FALSE /\ UNCHANGED <<pos, exposed>>
    BY <1>7 DEF Executes
  <2> QED BY <1>2, <1>7, <2>1 DEF Deployed
<1> QED BY <1>2, <1>4, <1>5, <1>6, <1>7 DEF Operations

\* The chain moves ahead of the records by one confirmation at most.
LEMMA ChainPreserves ==
    ASSUME IInv, ChainMoves PROVE IInv'
<1>1. PICK t \in wire :
         \/ (Lands(t) \/ Expires(t)) /\ UNCHANGED faults
         \/ Reverts(t) /\ faults < MaxFaults /\ faults' = faults + 1
  BY DEF ChainMoves
<1>2. /\ t = pending /\ pending # Null /\ pending \in Transaction
      /\ wire \ {t} = {} /\ answer = "unknown" /\ tracked = Deployed /\ workflow
      /\ pc \in {"down", "reconcile", "poll"}
  BY OnTheWire
<1>3. /\ UNCHANGED <<files, journalFiles, executing, now, process, pausedAt, calm>>
      /\ wire' = {} /\ opened' \in BOOLEAN /\ faults' \in 0..MaxFaults
  BY <1>1, <1>2, BoundsAssumption DEF ChainMoves, Lands, Expires, Reverts, IInv, TypeOK
<1>4. DecisionTyped' /\ ClockInv'
  BY <1>3 DEF IInv, DecisionTyped, ClockInv
<1>5. plan # Null => plan.op = pending.op /\ plan.layer = pending.layer /\ pc = "poll"
                     /\ d.lp \in {"ExitToQuote", "Deploy", "Recenter"}
  BY <1>2 DEF IInv, PlanInv, DecisionInv, Executing
<1>6. DecisionInv'
  BY <1>2, <1>3 DEF IInv, DecisionInv, Executing, Applying
<1>7. WholeInv'
  BY <1>2, <1>3 DEF WholeInv
<1>8. plan = Null => pc # "poll"
  BY DEF IInv, PlanInv
<1>9. PhaseInv'
  BY <1>2, <1>3, <1>5, <1>8 DEF IInv, PhaseInv, Executing, Applying
<1>10. CASE Lands(t)
  <2>1. Executes(t) /\ answer' = "ok"
    BY <1>2, <1>10 DEF Lands, Answered
  <2>2. /\ pos' \in [Layers -> 0..Full + 1] /\ base' \in BOOLEAN /\ exposed' \in BOOLEAN
        /\ t.op = "mint" => Deployed' = Deployed \cup {t.layer} /\ t.layer \in Layers
        /\ t.op = "increase" => Deployed' = Deployed /\ t.layer \in Deployed
        /\ t.op = "remove" /\ t.index = 0 => Deployed' = Deployed /\ t.layer \in Deployed
        /\ t.op = "remove" /\ t.index = 1 => Deployed' = Deployed \ {t.layer}
        /\ t.op \in {"buy", "sell"} => Deployed' = Deployed
        /\ t.op # "buy" => exposed' = exposed
    BY <2>1, Landed
  <2>3. TypeOK'
    <3>1. JournalTypeOK'
      BY <1>3, <2>1, <2>2, FS_EmptySet DEF IInv, TypeOK, JournalTypeOK
    <3> QED BY <1>3, <3>1 DEF IInv, TypeOK
  <2>4. t.op \in Operations /\ t.index \in {0, 1}
    BY <1>2 DEF Transaction
  <2>5. RecordInv'
    BY <1>2, <1>3, <2>1, <2>2, <2>4 DEF RecordInv, Recorded, Operations
  <2>6. /\ t.op \in {"mint", "increase"} => pos'[t.layer] > 0
        /\ t.op = "remove" => IF t.index = 1 THEN pos'[t.layer] = 0 ELSE pos'[t.layer] > 0
    <3>1. \A l \in Layers : l \in Deployed' <=> pos'[l] > 0
      BY DEF Deployed
    <3>2. t.op \in {"mint", "increase", "remove"} => t.layer \in Layers
      BY <1>2 DEF IInv, SignatureInv
    <3>3. t.op \in {"mint", "increase", "remove"} => pos'[t.layer] \in Nat
      BY <2>2, <3>2, PhaseAssumption
    <3> QED BY <2>2, <2>4, <3>1, <3>2, <3>3
  <2>7. SignatureInv'
    BY <1>2, <1>3, <2>1, <2>6 DEF IInv, SignatureInv, Executing
  <2>8. PlanInv'
    BY <1>2, <1>3, <1>5, <2>1, <2>2 DEF IInv, PlanInv, Executing
  <2>9. ProgressInv'
    BY <1>2, <1>3, <1>5, <2>2, <2>4 DEF IInv, ProgressInv, Working, Operations
  <2> QED BY <1>4, <1>6, <1>7, <1>9, <2>3, <2>5, <2>7, <2>8, <2>9 DEF IInv
<1>11. CASE Expires(t) \/ Reverts(t)
  <2>1. UNCHANGED <<pos, base, exposed>> /\ answer' \in {"unknown", "failed"}
    BY <1>2, <1>11 DEF Expires, Reverts, Answered
  <2>2. Deployed' = Deployed
    BY <2>1 DEF Deployed
  <2>3. TypeOK'
    <3>1. JournalTypeOK'
      BY <1>3, <2>1, FS_EmptySet DEF IInv, TypeOK, JournalTypeOK
    <3> QED BY <1>3, <3>1 DEF IInv, TypeOK
  <2>4. SignatureInv' /\ RecordInv'
    BY <1>2, <1>3, <2>1, <2>2 DEF IInv, SignatureInv, RecordInv, Executing
  <2>5. PlanInv'
    BY <1>2, <1>3, <1>5, <2>1 DEF IInv, PlanInv, Executing
  <2>6. ProgressInv'
    BY <1>3, <2>1, <2>2 DEF IInv, ProgressInv, Working
  <2> QED BY <1>4, <1>6, <1>7, <1>9, <2>3, <2>4, <2>5, <2>6 DEF IInv
<1> QED BY <1>1, <1>10, <1>11
-----------------------------------------------------------------------------
(* The properties. *)

\* A step of nobody changes nothing.
LEMMA Stuttering == ASSUME IInv, UNCHANGED vars PROVE IInv'
<1> USE DEF vars
<1>1. Deployed' = Deployed /\ Recorded' = Recorded
  BY DEF Deployed, Recorded
<1>2. TypeOK'
  BY DEF IInv, TypeOK, JournalTypeOK
<1>3. DecisionTyped' /\ ClockInv' /\ SignatureInv' /\ RecordInv' /\ PlanInv'
  BY <1>1 DEF IInv, DecisionTyped, ClockInv, SignatureInv, RecordInv, PlanInv
<1>4. DecisionInv' /\ WholeInv'
  BY <1>1 DEF IInv, DecisionInv, WholeInv, Whole
<1>5. ProgressInv' /\ PhaseInv'
  BY <1>1 DEF IInv, ProgressInv, Working, PhaseInv
<1> QED BY <1>2, <1>3, <1>4, <1>5 DEF IInv

\* Every step of the runner, the journal and the chain.
LEMMA NextPreserves == ASSUME IInv, Next PROVE IInv'
<1>1. CASE StartUp
  BY <1>1, ReconcilePreserves, ReconcileHedgePreserves, ReadPortfolioPreserves,
     ReadyPreserves DEF StartUp
<1>2. CASE Observe \/ Apply
  BY <1>2, ObservePreserves, BeginApplyPreserves, OnlyHedgePreserves, CoverPreserves,
     RemovePreserves, ExitPreserves, EnterPreserves, ShieldPreserves, HedgeRestPreserves,
     ClearWorkflowPreserves DEF Apply
<1>3. CASE Journal
  <2>1. CASE GiveUp
    BY <2>1, EndedWithSignature DEF GiveUp
  <2> QED BY <1>3, <2>1, SignPreserves, SendPreserves, PollPreserves, SettlePreserves,
             AcknowledgePreserves, EndFailedPreserves DEF Journal
<1> QED BY <1>1, <1>2, <1>3, StartPreserves, StopPreserves, ChainPreserves, TickPreserves
        DEF Next, Runner

\* The invariant of the runner: no death of the process, lost transaction, failed
\* hedge or corrected checkpoint leads out of it.
THEOREM SolanaInductiveInvariant == Spec => []IInv
<1>1. IInv /\ [Next]_vars => IInv'
  BY NextPreserves, Stuttering
<1> QED BY InitSatisfies, <1>1, PTL DEF Spec

\* A transaction that may still execute is the one whose signature is on disk.
THEOREM SignatureOnDisk == Spec => []OneUnresolvedSignature
<1>1. IInv => OneUnresolvedSignature
  BY DEF IInv, SignatureInv, OneUnresolvedSignature
<1> QED BY <1>1, SolanaInductiveInvariant, PTL

\* Base nobody hedged and an incomplete set of layers are covered by the workflow
\* record, whatever moment the process dies at.
THEOREM RiskAlwaysRecorded == Spec => []RiskIsRecorded
<1>1. IInv => RiskIsRecorded
  BY DEF IInv, WholeInv, Whole, RiskIsRecorded
<1> QED BY <1>1, SolanaInductiveInvariant, PTL

\* Records, chain and phase agree wherever the code relies on it.
THEOREM RecordsAlwaysMatch == Spec => []Consistent
<1>1. IInv => Consistent
  <2> SUFFICES ASSUME IInv PROVE Consistent
    OBVIOUS
  <2>1. TypeOK
    BY DEF IInv
  <2>2. RecordsMatchChain
    BY DEF IInv, SignatureInv, RecordInv, RecordsMatchChain
  <2>3. ActiveMeansComplete
    BY DEF IInv, PhaseInv, InMarket, ActiveMeansComplete
  <2> QED BY <2>1, <2>2, <2>3 DEF Consistent
<1> QED BY <1>1, SolanaInductiveInvariant, PTL

\* Only journal::execute signs; every other step leaves the signature on disk or
\* removes it.
LEMMA OnlySignSigns ==
    ASSUME Next, pending' # pending, pending' # Null
    PROVE  StepOfJournal("sign", Sign, "send")
<1>1. ~Start /\ ~StartUp
  BY DEF StartUp, Start, Reconcile, ReconcileHedge, ReadPortfolio, Ready, Ended
<1>2. ~Observe
  BY DEF Observe
<1>3. ~Apply
  BY DEF Apply, BeginApply, OnlyHedge, Cover, Remove, Exit, Enter, Shield, HedgeRest,
         ClearWorkflow, Skip, Execute
<1>4. Journal => StepOfJournal("sign", Sign, "send")
  BY DEF Journal, StepOfJournal, Send, Poll, ApplyConfirmed, Acknowledge, GiveUp, EndFailed,
         DiscardFailed
<1>5. ~Stop /\ ~Tick
  BY DEF Stop, Tick
<1>6. ~ChainMoves
  BY DEF ChainMoves, Lands, Expires, Reverts
<1> QED BY <1>1, <1>2, <1>3, <1>4, <1>5, <1>6 DEF Next, Runner

\* A halted checkpoint is only ever replaced by a halted one.
LEMMA HaltStays ==
    ASSUME IInv, [Next]_vars, checkpoint.phase = "Halted"
    PROVE  checkpoint'.phase = "Halted"
<1>1. CASE UNCHANGED checkpoint
  BY <1>1
<1>2. CASE Ready
  <2>1. mem.phase = "Halted" /\ mem \in Strategy
    BY <1>2 DEF Ready, IInv, PhaseInv, TypeOK
  <2> QED BY <1>2, <2>1 DEF Ready, FinishWorkflowRecovery, InvalidateObservations,
                           PauseIncomplete, Strategy
<1>3. CASE Observe
  <2>1. IInv' /\ mem.phase = "Halted"
    BY <1>3, ObservePreserves DEF Observe, IInv, PhaseInv
  <2>2. Whole /\ (mem.phase \in InMarket => Deployed = Layers)
    BY <1>3 DEF Observe, IInv, WholeInv, PhaseInv
  <2>3. \E b \in Fetched : \E f \in Frames(b) : mem' = Judge(mem, f).state
    BY <1>3 DEF Observe
  <2>4. PICK b \in Fetched : \E f \in Frames(b) : mem' = Judge(mem, f).state
    BY <2>3
  <2>5. PICK f \in Frames(b) : mem' = Judge(mem, f).state
    BY <2>4
  <2>6. b.close \in Nat /\ b.signal \in Signals
    BY <2>4, FetchedTyped
  <2>7. mem'.phase = "Halted"
    BY <2>1, <2>2, <2>5, <2>6, JudgeSound
  <2> QED BY <1>3, <2>7 DEF Observe
<1>4. Next => UNCHANGED checkpoint \/ Ready \/ Observe
  <2>1. Start \/ StartUp => UNCHANGED checkpoint \/ Ready
    BY DEF StartUp, Start, Reconcile, ReconcileHedge, ReadPortfolio
  <2>2. Apply => UNCHANGED checkpoint
    BY DEF Apply, BeginApply, OnlyHedge, Cover, Remove, Exit, Enter, Shield, HedgeRest,
           ClearWorkflow
  <2>3. Journal => UNCHANGED checkpoint
    BY DEF Journal, StepOfJournal, GiveUp, EndFailed
  <2>4. Stop \/ ChainMoves \/ Tick => UNCHANGED checkpoint
    BY DEF Stop, ChainMoves, Tick
  <2> QED BY <2>1, <2>2, <2>3, <2>4 DEF Next, Runner
<1> QED BY <1>1, <1>2, <1>3, <1>4 DEF vars

\* Nothing adds liquidity beside unhedged base, and a halt neither ends nor buys
\* nor mints.
THEOREM NothingSignedBeyondRisk == Spec => SignsWithinRisk
<1>1. IInv /\ [Next]_vars =>
         [pending' # pending /\ pending' # Null /\ pending'.op \in {"mint", "increase"}
            => ~exposed]_vars
  <2> SUFFICES ASSUME IInv, Next, pending' # pending, pending' # Null,
                      pending'.op \in {"mint", "increase"}
               PROVE  ~exposed
    OBVIOUS
  <2>1. StepOfJournal("sign", Sign, "send")
    BY OnlySignSigns
  <2>2. plan # Null /\ pending'.op = plan.op
    BY <2>1 DEF StepOfJournal, Sign
  <2> QED BY <2>2 DEF IInv, PlanInv
<1>2. IInv /\ [Next]_vars =>
         [checkpoint.phase = "Halted" =>
            /\ checkpoint'.phase = "Halted"
            /\ pending' \in {pending, Null} \/ pending'.op \in {"remove", "sell"}]_vars
  <2> SUFFICES ASSUME IInv, Next, checkpoint.phase = "Halted"
               PROVE  /\ checkpoint'.phase = "Halted"
                      /\ pending' \in {pending, Null} \/ pending'.op \in {"remove", "sell"}
    OBVIOUS
  <2>1. checkpoint'.phase = "Halted"
    BY HaltStays
  <2>2. ASSUME pending' # pending, pending' # Null PROVE pending'.op \in {"remove", "sell"}
    <3>1. StepOfJournal("sign", Sign, "send")
      BY <2>2, OnlySignSigns
    <3>2. plan # Null /\ pending'.op = plan.op /\ plan \in Plan
      BY <3>1 DEF StepOfJournal, Sign, IInv, TypeOK, JournalTypeOK
    <3>3. d.lp \notin {"Deploy", "Recenter"}
      BY <3>2 DEF IInv, PhaseInv
    <3>4. plan.op \in Operations
      BY <3>2 DEF Plan
    <3> QED BY <3>2, <3>3, <3>4 DEF IInv, ProgressInv, Working, Operations
  <2> QED BY <2>1, <2>2
<1> QED BY <1>1, <1>2, SolanaInductiveInvariant, PTL
        DEF Spec, SignsWithinRisk, AddsOnlyHedged, HaltIsFinal
=============================================================================
