---------------------------- MODULE EngineProofs ----------------------------
(***************************************************************************)
(* The safety of the live engine, for every set of layers, every budget,   *)
(* every clock and every number of crashes and failed reads.  The          *)
(* invariant is the one of EngineInvariant.  First what the strategy       *)
(* decides and how it counts its hours, then one lemma for each step.      *)
(***************************************************************************)
EXTENDS EngineInvariant, TLAPS

USE DEF files, inventory, process, clock, ghosts, InMarket, Applying, Deciding

-----------------------------------------------------------------------------
(* Hours and numbers. *)

\* The counters of the strategy at their bounds.
LEMMA Numbers ==
    0 \in Nat /\ 0 \in 0..Need /\ 0 \in 0..Full /\ 1 \in 0..Full /\ Full \in 0..Full
  BY PhaseAssumption

\* The hour of a tick,
LEMMA HourOf ==
    ASSUME NEW t \in Nat
    PROVE  /\ Hour(t) \in Nat
           /\ HourTicks * Hour(t) <= t /\ t < HourTicks * Hour(t) + HourTicks
<1>1. HourTicks \in Nat \ {0}
  BY PhaseAssumption
<1>2. /\ t \div HourTicks \in Nat
      /\ HourTicks * (t \div HourTicks) <= t /\ t < HourTicks * (t \div HourTicks) + HourTicks
  BY <1>1
<1> QED BY <1>2 DEF Hour

\* which never goes back.
LEMMA HourGrows == ASSUME NEW t \in Nat PROVE Hour(t) <= Hour(t + 1)
<1> DEFINE a == Hour(t)
           b == Hour(t + 1)
<1>1. HourTicks \in Nat \ {0}
  BY PhaseAssumption
<1>2. a \in Nat /\ HourTicks * a <= t
  BY HourOf
<1>3. b \in Nat /\ t + 1 < HourTicks * b + HourTicks
  BY HourOf
<1> HIDE DEF a, b
<1>4. ASSUME b + 1 <= a PROVE FALSE
  <2>1. HourTicks * (b + 1) <= HourTicks * a
    BY <1>1, <1>2, <1>3, <1>4
  <2>2. HourTicks * (b + 1) = HourTicks * b + HourTicks
    BY <1>1, <1>3
  <2> QED BY <1>1, <1>2, <1>3, <2>1, <2>2
<1>5. a <= b
  BY <1>2, <1>3, <1>4
<1> QED BY <1>5 DEF a, b

-----------------------------------------------------------------------------
(* What the strategy decides. *)

\* An observation the engine can make (Frames).
Frame(f) ==
    /\ f.now \in Nat /\ f.close \in Nat
    /\ f.valid \in BOOLEAN /\ f.drawdown \in BOOLEAN /\ f.metrics \in BOOLEAN
    /\ f.revised \in BOOLEAN /\ f.market \in {"unsafe", "uneasy", "healthy"}
    /\ f.deployed \in {{}, Layers} /\ f.breakout \subseteq f.deployed

\* A state of the strategy that goes with the layers it sees.
Fits(s, f) ==
    /\ s.phase \in InMarket => f.deployed = Layers
    /\ s.phase = "Warmup" => f.deployed = {}

\* A decision that apply can execute: in the market only for every layer, into it
\* in no other phase, and never of nothing.
Sound(r, f) ==
    /\ r.state \in Strategy
    /\ r.lp \in Intents /\ r.fraction \in 0..Full /\ r.layers \subseteq Layers
    /\ r.state.phase \in InMarket =>
          /\ r.lp # "ExitToQuote"
          /\ r.lp \in {"Nothing", "Hold"} => f.deployed = Layers
    /\ r.state.phase = "Warmup" => r.lp \in {"Nothing", "Hold"} /\ f.deployed = {}
    /\ r.lp = "Deploy" => r.fraction > 0
    /\ r.lp = "Recenter" => f.deployed = Layers
    /\ r.lp \in {"Deploy", "Recenter"} => r.state.phase \in InMarket

\* What a decision keeps of the state it is made in, and when it ends a pause.
Follows(t, s, f) ==
    /\ t.hour = s.hour /\ t.healthy = s.healthy /\ t.history = s.history
    /\ t.pause = s.pause /\ (t.phase = "Paused" => s.phase = "Paused")
    /\ s.phase # "Halted" => t.phase \notin {"Halted", "Warmup"}
    /\ s.phase = "Paused" /\ t.phase = "Recovering" =>
         CanResume(s, f, TRUE) /\ s.history # "Initial"

\* What is observed at first.
LEMMA AdmitKeeps ==
    ASSUME NEW s \in Strategy, NEW f, Frame(f), Fits(s, f)
    PROVE  /\ Admit(s, f) \in Strategy /\ Fits(Admit(s, f), f)
           /\ Admit(s, f).hour = s.hour /\ Admit(s, f).healthy = s.healthy
           /\ s.history = "Established" => Admit(s, f).history = "Established"
           /\ f.deployed = {} => Admit(s, f).history = s.history
           /\ Admit(s, f).phase = "Warmup" => s.phase = "Warmup"
           /\ s.phase = "Halted" => Admit(s, f).phase = "Halted"
           /\ s.phase = "Paused" => Admit(s, f).phase = "Paused" /\ Admit(s, f).pause = s.pause
           /\ s.phase # "Paused" /\ Admit(s, f).phase = "Paused" => Admit(s, f).pause = f.now
  BY DEF ObserveLp, Admit, PausedNow, Strategy, Phases, Histories, Frame, Fits, InMarket

\* A state is set aside while observations are missing.
LEMMA FreezeKeeps ==
    ASSUME NEW s \in Strategy
    PROVE  /\ Freeze(s) \in Strategy
           /\ Freeze(s).phase = s.phase /\ Freeze(s).pause = s.pause
           /\ Freeze(s).hour = s.hour /\ Freeze(s).healthy = s.healthy
           /\ Freeze(s).history = s.history
  BY DEF Freeze, Strategy

\* A position that is held is kept or moved whole.
LEMMA KeepSound ==
    ASSUME NEW s \in Strategy, NEW f, Frame(f),
           s.phase \in InMarket, f.deployed = Layers
    PROVE  Sound(Keep(s, f), f)
  BY PhaseAssumption DEF Keep, Decision, Sound, Frame, Strategy, Intents, InMarket

\* A deployment is of a budget share.
LEMMA DeploySound ==
    ASSUME NEW s \in Strategy, NEW f, Frame(f), s.phase \in InMarket, s.fraction > 0
    PROVE  Sound(Deploy(s), f)
  BY PhaseAssumption DEF Deploy, Decision, Sound, Frame, Strategy, Intents, InMarket

\* An exit is decided outside the market.
LEMMA ExitSound ==
    ASSUME NEW s \in Strategy, NEW f, Frame(f), s.phase \in {"Paused", "Halted"}
    PROVE  Sound(ExitToQuote(s), f)
  BY PhaseAssumption DEF ExitToQuote, Decision, Sound, Frame, Strategy, Intents, InMarket

\* Decide: what the strategy makes of a complete observation.
LEMMA DecideSound ==
    ASSUME NEW s \in Strategy, NEW f, Frame(f), s.phase # "Halted", Fits(s, f)
    PROVE  Sound(Decide(s, f, TRUE), f) /\ Follows(Decide(s, f, TRUE).state, s, f)
<1>1. /\ EnterFully(s) \in Strategy /\ EnterFully(s).phase = "Active"
      /\ EnterFully(s).fraction = Full /\ Follows(EnterFully(s), s, f)
  BY Numbers DEF EnterFully, Strategy, Phases, Follows
<1>2. \A t : Deploy(t).state = t /\ ExitToQuote(t).state = t /\ Keep(t, f).state = t
  BY DEF Deploy, ExitToQuote, Keep, Decision
<1> DEFINE e == EnterFully(s)
<1> HIDE DEF e
<1>enter. Sound(Deploy(e), f) /\ Follows(Deploy(e).state, s, f)
  <2>1. e \in Strategy /\ e.phase \in InMarket /\ e.fraction > 0
    BY <1>1, PhaseAssumption DEF e
  <2>2. Sound(Deploy(e), f)
    BY <2>1, DeploySound
  <2> QED BY <1>1, <1>2, <2>2 DEF e
<1>3. CASE s.phase = "Paused"
  <2>1. CASE s.history = "Initial" /\ f.market # "unsafe"
    <3>1. Decide(s, f, TRUE) = Deploy(e)
      BY <1>3, <2>1 DEF Decide, e
    <3> QED BY <1>enter, <3>1
  <2>2. CASE ~(s.history = "Initial" /\ f.market # "unsafe") /\ CanResume(s, f, TRUE)
    <3> DEFINE t == [s EXCEPT !.phase = "Recovering", !.fraction = 1, !.scale = f.now]
    <3>1. Decide(s, f, TRUE) = Deploy(t)
      BY <1>3, <2>2 DEF Decide, Resume
    <3>2. t \in Strategy /\ t.phase = "Recovering" /\ t.fraction = 1 /\ Follows(t, s, f)
      BY <1>3, <2>2, Numbers DEF Strategy, Phases, Frame, Follows, CanResume, MayGrow
    <3> HIDE DEF t
    <3>3. Sound(Deploy(t), f)
      BY <3>2, DeploySound
    <3>4. Deploy(t).state = t
      BY <1>2
    <3> QED BY <3>1, <3>2, <3>3, <3>4
  <2>3. CASE ~(s.history = "Initial" /\ f.market # "unsafe") /\ ~CanResume(s, f, TRUE)
    <3>1. Decide(s, f, TRUE) = ExitToQuote(s)
      BY <1>3, <2>3 DEF Decide
    <3>2. Follows(s, s, f)
      BY <1>3 DEF Follows
    <3> QED BY <1>2, <1>3, <3>1, <3>2, ExitSound
  <2> QED BY <2>1, <2>2, <2>3
<1>4. CASE s.phase = "Warmup"
  <2>1. Decide(s, f, TRUE) = Deploy(e)
    BY <1>4 DEF Decide, Fits, e
  <2> QED BY <1>enter, <2>1
<1>5. CASE s.phase = "Recovering" /\ StepDue(s, f, TRUE)
  <2> DEFINE next == IF s.fraction + 1 >= Full THEN Full ELSE s.fraction + 1
             t == [s EXCEPT !.fraction = next, !.scale = f.now,
                            !.phase = IF next = Full THEN "Active" ELSE @]
  <2>1. Decide(s, f, TRUE) = Deploy(t)
    BY <1>5 DEF Decide, StepUp
  <2>2. next \in 0..Full /\ next > 0
    BY PhaseAssumption DEF Strategy
  <2>3. t \in Strategy /\ t.phase \in InMarket /\ t.fraction > 0 /\ Follows(t, s, f)
    <3> HIDE DEF next
    <3> QED BY <1>5, <2>2 DEF Strategy, Phases, Histories, Frame, InMarket, Follows
  <2> HIDE DEF t
  <2>4. Sound(Deploy(t), f)
    BY <2>3, DeploySound
  <2> QED BY <1>2, <2>1, <2>3, <2>4
<1>6. CASE /\ s.phase \notin {"Paused", "Warmup"}
           /\ ~(s.phase = "Recovering" /\ StepDue(s, f, TRUE))
  <2>1. Decide(s, f, TRUE) = Keep(s, f)
    BY <1>6 DEF Decide
  <2>2. s.phase \in InMarket /\ f.deployed = Layers
    BY <1>6 DEF Fits, InMarket, Strategy, Phases
  <2>3. Follows(s, s, f)
    BY <1>6 DEF Follows
  <2>4. Sound(Keep(s, f), f) /\ Keep(s, f).state = s
    BY <1>2, <2>2, KeepSound
  <2> QED BY <2>1, <2>3, <2>4
<1> QED BY <1>3, <1>4, <1>5, <1>6

\* Counting the hours: an unsafe market pauses, and the count is what it was, or
\* begins anew, or goes on with the hour that has just closed.
LEMMA ObservedKeeps ==
    ASSUME NEW s \in Strategy, NEW f, Frame(f), s.hour <= f.close
    PROVE  LET t == Observed(s, f, TRUE)
           IN  /\ t \in Strategy /\ t.hour = f.close /\ t.history = s.history
               /\ t.phase = IF f.market = "unsafe" THEN "Paused" ELSE s.phase
               /\ t.pause = IF f.market = "unsafe" /\ s.phase # "Paused" THEN f.now ELSE s.pause
               /\ \/ t.healthy = 0
                  \/ f.market # "unsafe" /\ f.close = s.hour /\ t.healthy = s.healthy
                  \/ /\ f.market = "healthy" /\ f.close > s.hour
                     /\ \/ t.healthy = 1
                        \/ s.hour = 0 \/ f.close = s.hour + 1
                     /\ t.healthy <= s.healthy + 1
<1> DEFINE u == IF f.market = "unsafe" THEN UnsafeMarket(s, f) ELSE RecheckProgress(s, f)
           c == CountHour(u, f)
<1>1. /\ u \in Strategy /\ u.hour = s.hour /\ u.history = s.history
      /\ u.phase = IF f.market = "unsafe" THEN "Paused" ELSE s.phase
      /\ u.pause = IF f.market = "unsafe" /\ s.phase # "Paused" THEN f.now ELSE s.pause
      /\ u.healthy = 0 \/ (u.healthy = s.healthy /\ f.market # "unsafe")
  <2>1. CASE f.market = "unsafe"
    <3> DEFINE p == IF s.phase # "Paused" THEN f.now ELSE s.pause
    <3>1. p \in Nat
      BY DEF Strategy, Frame
    <3>2. u = [s EXCEPT !.pause = p, !.phase = "Paused", !.frozen = FALSE,
                        !.healthy = 0, !.fraction = 0]
      BY <2>1 DEF UnsafeMarket
    <3>3. p = IF f.market = "unsafe" /\ s.phase # "Paused" THEN f.now ELSE s.pause
      BY <2>1
    <3> HIDE DEF p, u
    <3> QED BY <2>1, <3>1, <3>2, <3>3, Numbers DEF Strategy, Phases
  <2>2. CASE f.market # "unsafe"
    <3> DEFINE k == IF KeepsProgress(s, f) THEN s.healthy ELSE 0
    <3>1. k \in 0..Need /\ k \in {0, s.healthy}
      BY Numbers DEF Strategy
    <3>2. u = IF ~s.frozen THEN s ELSE [s EXCEPT !.frozen = FALSE, !.healthy = k]
      BY <2>2 DEF RecheckProgress
    <3> HIDE DEF k, u
    <3> QED BY <2>2, <3>1, <3>2 DEF Strategy
  <2> QED BY <2>1, <2>2
<1> HIDE DEF u
<1>2. /\ c \in Strategy /\ c.hour = f.close /\ c.history = u.history
      /\ c.phase = u.phase /\ c.pause = u.pause
      /\ \/ c.healthy = 0
         \/ f.close = u.hour /\ c.healthy = u.healthy
         \/ /\ f.market = "healthy" /\ f.close > u.hour
            /\ \/ c.healthy = 1
               \/ u.hour = 0 \/ f.close = u.hour + 1
            /\ c.healthy <= u.healthy + 1
  <2> DEFINE before == IF u.hour > 0 /\ f.close - u.hour > 1 THEN 0 ELSE u.healthy
             count == IF f.market # "healthy" THEN 0
                      ELSE IF before = Need THEN before ELSE before + 1
  <2>1. u.healthy \in 0..Need /\ u.hour \in Nat /\ f.close \in Nat
    BY <1>1 DEF Strategy, Frame
  <2>2. before \in 0..Need
    BY <2>1, PhaseAssumption
  <2>3. count \in 0..Need
    <3> HIDE DEF before
    <3> QED BY <2>2, PhaseAssumption
  <2>4. c = IF f.close <= u.hour THEN u
            ELSE [u EXCEPT !.hour = f.close, !.healthy = count]
    BY DEF CountHour
  <2>5. CASE f.close <= u.hour
    BY <1>1, <2>1, <2>4, <2>5
  <2>6. CASE ~(f.close <= u.hour)
    <3>1. c = [u EXCEPT !.hour = f.close, !.healthy = count]
      BY <2>4, <2>6
    <3>2. \/ count = 0
          \/ /\ f.market = "healthy" /\ (count = 1 \/ u.hour = 0 \/ f.close = u.hour + 1)
             /\ count <= u.healthy + 1
      BY <2>1, <2>6, PhaseAssumption
    <3>3. f.close > u.hour
      BY <2>1, <2>6
    <3> HIDE DEF count, c
    <3>4. c \in Strategy /\ c.hour = f.close /\ c.healthy = count
      BY <1>1, <2>1, <2>3, <3>1 DEF Strategy
    <3>5. c.history = u.history /\ c.phase = u.phase /\ c.pause = u.pause
      BY <1>1, <3>1 DEF Strategy
    <3> QED BY <3>2, <3>3, <3>4, <3>5
  <2> QED BY <2>5, <2>6
<1> HIDE DEF c
<1>3. Observed(s, f, TRUE) = ReportProgress(c, f)
  BY DEF Observed, c, u
<1>4. /\ ReportProgress(c, f) \in Strategy
      /\ ReportProgress(c, f).hour = c.hour /\ ReportProgress(c, f).healthy = c.healthy
      /\ ReportProgress(c, f).history = c.history /\ ReportProgress(c, f).phase = c.phase
      /\ ReportProgress(c, f).pause = c.pause
  BY <1>2 DEF ReportProgress, Strategy, Phases, Histories, Frame
<1>5. s.healthy \in 0..Need /\ u.healthy \in 0..Need /\ c.healthy \in 0..Need
  BY <1>1, <1>2 DEF Strategy
<1>6. \/ c.healthy = 0
      \/ f.market # "unsafe" /\ f.close = s.hour /\ c.healthy = s.healthy
      \/ /\ f.market = "healthy" /\ f.close > s.hour
         /\ \/ c.healthy = 1
            \/ s.hour = 0 \/ f.close = s.hour + 1
         /\ c.healthy <= s.healthy + 1
  BY <1>1, <1>2, <1>5, PhaseAssumption
<1>7. /\ c.phase = IF f.market = "unsafe" THEN "Paused" ELSE s.phase
      /\ c.pause = IF f.market = "unsafe" /\ s.phase # "Paused" THEN f.now ELSE s.pause
      /\ c.hour = f.close /\ c.history = s.history
  BY <1>1, <1>2
<1> HIDE DEF c
<1>8. QED BY <1>3, <1>4, <1>6, <1>7

\* What an evaluation does to the phase, its clock and the history of entries.
Serves(t, s, f) ==
    /\ s.history = "Established" => t.history = "Established"
    /\ s.phase = "Halted" => t.phase = "Halted"
    /\ s.phase = "Paused" => t.pause = s.pause
    /\ s.phase # "Paused" /\ t.phase = "Paused" => t.pause = f.now
    /\ f.deployed = {} => t.history = s.history
    /\ t.phase = "Warmup" => s.phase = "Warmup"
    /\ s.phase = "Paused" /\ t.phase = "Recovering" =>
         /\ t.hour = f.close /\ t.healthy = Need /\ f.now - s.pause >= Cooldown
         /\ f.deployed = {} => s.history # "Initial"

\* The strategy decides soundly, and serves its pauses.
LEMMA EvaluateSound ==
    ASSUME NEW s \in Strategy, NEW f, Frame(f), Fits(s, f), s.hour <= f.close
    PROVE  Sound(EvaluateWithContinuity(s, f), f) /\ Serves(EvaluateWithContinuity(s, f).state, s, f)
<1> DEFINE a == Admit(s, f)
<1>1. /\ a \in Strategy /\ Fits(a, f)
      /\ a.hour = s.hour /\ a.healthy = s.healthy
      /\ s.history = "Established" => a.history = "Established"
      /\ f.deployed = {} => a.history = s.history
      /\ a.phase = "Warmup" => s.phase = "Warmup"
      /\ s.phase = "Halted" => a.phase = "Halted"
      /\ s.phase = "Paused" => a.phase = "Paused" /\ a.pause = s.pause
      /\ s.phase # "Paused" /\ a.phase = "Paused" => a.pause = f.now
  BY AdmitKeeps
<1> HIDE DEF a
<1>2. /\ Freeze(a) \in Strategy
      /\ Freeze(a).phase = a.phase /\ Freeze(a).pause = a.pause
      /\ Freeze(a).history = a.history
  BY <1>1, FreezeKeeps
<1>3. Serves(Freeze(a), s, f)
  BY <1>1, <1>2 DEF Serves, Fits, InMarket, Admit, a, ObserveLp, PausedNow, Strategy, Phases
<1>4. CASE ~f.valid
  <2>1. EvaluateWithContinuity(s, f) = Wait(Freeze(a))
    BY <1>4 DEF EvaluateWithContinuity, EvaluateInner, Unsighted, Unmeasured, a
  <2>2. Sound(Wait(Freeze(a)), f) /\ Wait(Freeze(a)).state = Freeze(a)
    BY <1>1, <1>2, PhaseAssumption DEF Sound, Wait, Decision, Fits, Intents, InMarket
  <2> QED BY <1>3, <2>1, <2>2
<1>5. CASE f.valid /\ (f.drawdown \/ a.phase = "Halted")
  <2> DEFINE t == [a EXCEPT !.phase = "Halted"]
  <2>1. EvaluateWithContinuity(s, f) = ExitToQuote(t)
    BY <1>5 DEF EvaluateWithContinuity, EvaluateInner, Unsighted, Unmeasured, a
  <2>2. /\ t \in Strategy /\ t.phase = "Halted"
        /\ t.history = a.history /\ t.pause = a.pause
    BY <1>1 DEF Strategy, Phases
  <2> HIDE DEF t
  <2>3. Sound(ExitToQuote(t), f) /\ ExitToQuote(t).state = t
    BY <2>2, ExitSound DEF ExitToQuote, Decision
  <2> QED BY <1>1, <2>1, <2>2, <2>3 DEF Serves
<1>6. CASE f.valid /\ ~(f.drawdown \/ a.phase = "Halted") /\ ~f.metrics
  <2>1. EvaluateWithContinuity(s, f) = Decision(Freeze(a), "Hold", 0, {})
    BY <1>6 DEF EvaluateWithContinuity, EvaluateInner, Unsighted, Unmeasured, a
  <2>2. /\ Sound(Decision(Freeze(a), "Hold", 0, {}), f)
        /\ Decision(Freeze(a), "Hold", 0, {}).state = Freeze(a)
    BY <1>1, <1>2, PhaseAssumption DEF Sound, Decision, Fits, Intents, InMarket
  <2> QED BY <1>3, <2>1, <2>2
<1>7. CASE f.valid /\ ~(f.drawdown \/ a.phase = "Halted") /\ f.metrics
  <2> DEFINE o == Observed(a, f, TRUE)
  <2>1. EvaluateWithContinuity(s, f) = Decide(o, f, TRUE)
    BY <1>7 DEF EvaluateWithContinuity, EvaluateInner, Unsighted, Unmeasured, a
  <2>2. /\ o \in Strategy /\ o.hour = f.close /\ o.history = a.history
        /\ o.phase = IF f.market = "unsafe" THEN "Paused" ELSE a.phase
        /\ o.pause = IF f.market = "unsafe" /\ a.phase # "Paused" THEN f.now ELSE a.pause
    BY <1>1, ObservedKeeps
  <2> HIDE DEF o
  <2>3. o.phase # "Halted" /\ Fits(o, f)
    BY <1>1, <1>7, <2>2 DEF Fits, InMarket
  <2>4. Sound(Decide(o, f, TRUE), f) /\ Follows(Decide(o, f, TRUE).state, o, f)
    BY <2>2, <2>3, DecideSound
  <2> DEFINE t == Decide(o, f, TRUE).state
  <2>5. t \in Strategy /\ Follows(t, o, f)
    BY <2>4 DEF Sound
  <2> HIDE DEF t
  <2>6. s.phase = "Paused" /\ t.phase = "Recovering" =>
          /\ t.hour = f.close /\ t.healthy = Need /\ f.now - s.pause >= Cooldown
          /\ f.deployed = {} => s.history # "Initial"
    <3> SUFFICES ASSUME s.phase = "Paused", t.phase = "Recovering"
                 PROVE  /\ t.hour = f.close /\ t.healthy = Need
                        /\ f.now - s.pause >= Cooldown
                        /\ f.deployed = {} => s.history # "Initial"
      OBVIOUS
    <3>1. o.phase = "Paused" /\ o.pause = s.pause
      BY <1>1, <2>2
    <3>2. CanResume(o, f, TRUE) /\ o.history # "Initial"
      BY <2>5, <3>1 DEF Follows
    <3>3. t.healthy \in 0..Need /\ t.healthy = o.healthy
      BY <2>5 DEF Strategy, Follows
    <3> QED BY <1>1, <2>2, <2>5, <3>1, <3>2, <3>3, PhaseAssumption DEF Follows, CanResume
  <2>7. Serves(t, s, f)
    BY <1>1, <1>7, <2>2, <2>3, <2>5, <2>6 DEF Serves, Follows
  <2> QED BY <2>1, <2>4, <2>7 DEF t
<1> QED BY <1>4, <1>5, <1>6, <1>7 DEF Frame

\* Which hour a state counts to after an evaluation, and how far.
LEMMA EvaluateHours ==
    ASSUME NEW s \in Strategy, NEW f, Frame(f), Fits(s, f), s.hour <= f.close
    PROVE  LET t == EvaluateWithContinuity(s, f).state
           IN  \/ /\ ~f.valid \/ ~f.metrics \/ t.phase = "Halted"
                  /\ t.hour = s.hour /\ t.healthy = s.healthy
               \/ /\ f.valid /\ f.metrics /\ t.phase # "Halted" /\ t.hour = f.close
                  /\ \/ t.healthy = 0
                     \/ f.market # "unsafe" /\ f.close = s.hour /\ t.healthy = s.healthy
                     \/ /\ f.market = "healthy" /\ f.close > s.hour
                        /\ \/ t.healthy = 1
                           \/ s.hour = 0 \/ f.close = s.hour + 1
                        /\ t.healthy <= s.healthy + 1
<1> DEFINE a == Admit(s, f)
<1>1. /\ a \in Strategy /\ Fits(a, f) /\ a.hour = s.hour /\ a.healthy = s.healthy
  BY AdmitKeeps
<1> HIDE DEF a
<1>2. Freeze(a).hour = s.hour /\ Freeze(a).healthy = s.healthy
  BY <1>1, FreezeKeeps
<1>3. CASE ~f.valid
  <2>1. EvaluateWithContinuity(s, f) = Wait(Freeze(a))
    BY <1>3 DEF EvaluateWithContinuity, EvaluateInner, Unsighted, Unmeasured, a
  <2> QED BY <1>2, <1>3, <2>1 DEF Wait, Decision
<1>4. CASE f.valid /\ (f.drawdown \/ a.phase = "Halted")
  <2> DEFINE t == [a EXCEPT !.phase = "Halted"]
  <2>1. EvaluateWithContinuity(s, f) = ExitToQuote(t)
    BY <1>4 DEF EvaluateWithContinuity, EvaluateInner, Unsighted, Unmeasured, a
  <2>2. t.phase = "Halted" /\ t.hour = s.hour /\ t.healthy = s.healthy
    BY <1>1 DEF Strategy
  <2> HIDE DEF t
  <2> QED BY <2>1, <2>2 DEF ExitToQuote, Decision
<1>5. CASE f.valid /\ ~(f.drawdown \/ a.phase = "Halted") /\ ~f.metrics
  <2>1. EvaluateWithContinuity(s, f) = Decision(Freeze(a), "Hold", 0, {})
    BY <1>5 DEF EvaluateWithContinuity, EvaluateInner, Unsighted, Unmeasured, a
  <2> QED BY <1>2, <1>5, <2>1 DEF Decision
<1>6. CASE f.valid /\ ~(f.drawdown \/ a.phase = "Halted") /\ f.metrics
  <2> DEFINE o == Observed(a, f, TRUE)
             t == Decide(o, f, TRUE).state
  <2>1. EvaluateWithContinuity(s, f) = Decide(o, f, TRUE)
    BY <1>6 DEF EvaluateWithContinuity, EvaluateInner, Unsighted, Unmeasured, a
  <2>2. /\ o \in Strategy /\ o.hour = f.close
        /\ o.phase = IF f.market = "unsafe" THEN "Paused" ELSE a.phase
        /\ \/ o.healthy = 0
           \/ f.market # "unsafe" /\ f.close = a.hour /\ o.healthy = a.healthy
           \/ /\ f.market = "healthy" /\ f.close > a.hour
              /\ \/ o.healthy = 1
                 \/ a.hour = 0 \/ f.close = a.hour + 1
              /\ o.healthy <= a.healthy + 1
    BY <1>1, ObservedKeeps
  <2> HIDE DEF o
  <2>3. o.phase # "Halted" /\ Fits(o, f)
    BY <1>1, <1>6, <2>2 DEF Fits, InMarket
  <2>4. Follows(t, o, f)
    BY <2>2, <2>3, DecideSound
  <2>5. t.hour = o.hour /\ t.healthy = o.healthy /\ t.phase # "Halted"
    BY <2>3, <2>4 DEF Follows
  <2>6. EvaluateWithContinuity(s, f).state = t
    BY <2>1
  <2> HIDE DEF t
  <2> QED BY <1>1, <1>6, <2>2, <2>5, <2>6
<1> QED BY <1>3, <1>4, <1>5, <1>6 DEF Frame

\* The count of a state rests on hours found healthy, before and after an
\* evaluation.
LEMMA EvaluateCounts ==
    ASSUME TypeOK, NEW s \in Strategy, NEW f, Frame(f), Fits(s, f),
           f.close <= Hour(now), s.hour <= f.close, s.hour = mem.hour, Counted(s, run)
    PROVE  LET t == EvaluateWithContinuity(s, f).state
           IN  RunAfter(t, f) \in SUBSET Nat /\ Counted(t, RunAfter(t, f))
<1> DEFINE t == EvaluateWithContinuity(s, f).state
           hours == RunAfter(t, f)
<1>1. /\ Hour(now) \in Nat /\ run \in SUBSET Nat /\ s.hour <= f.close
      /\ s.hour = 0 => s.healthy = 0
      /\ \A k \in 0..Need : k < s.healthy => s.hour - k \in run
  BY HourOf DEF TypeOK, Counted
<1>2. t \in Strategy
  BY <1>1, EvaluateSound DEF Sound
<1>3. \/ /\ ~f.valid \/ ~f.metrics \/ t.phase = "Halted"
         /\ t.hour = s.hour /\ t.healthy = s.healthy
      \/ /\ f.valid /\ f.metrics /\ t.phase # "Halted" /\ t.hour = f.close
         /\ \/ t.healthy = 0
            \/ f.market # "unsafe" /\ f.close = s.hour /\ t.healthy = s.healthy
            \/ /\ f.market = "healthy" /\ f.close > s.hour
               /\ \/ t.healthy = 1
                  \/ s.hour = 0 \/ f.close = s.hour + 1
               /\ t.healthy <= s.healthy + 1
  BY <1>1, EvaluateHours
<1> HIDE DEF t
<1>4. /\ t.hour \in Nat /\ t.healthy \in 0..Need /\ s.hour \in Nat /\ s.healthy \in 0..Need
      /\ Need \in Nat
  BY <1>2, PhaseAssumption DEF Strategy
<1>5. hours \in SUBSET Nat
  BY <1>1 DEF RunAfter, Frame
<1>6. CASE ~f.valid \/ ~f.metrics \/ t.phase = "Halted"
  <2>1. hours = run
    BY <1>6 DEF RunAfter
  <2>2. t.hour = s.hour /\ t.healthy = s.healthy
    BY <1>3, <1>6
  <2> HIDE DEF hours
  <2> QED BY <1>1, <1>5, <2>1, <2>2 DEF Counted, t, hours
<1>7. CASE f.valid /\ f.metrics /\ t.phase # "Halted" /\ t.healthy = 0
  <2>1. t.hour = f.close
    BY <1>3, <1>7
  <2>2. Counted(t, hours)
    BY <1>1, <1>4, <1>7, <2>1 DEF Counted
  <2> QED BY <1>5, <2>2 DEF t
<1>8. CASE /\ f.valid /\ f.metrics /\ t.phase # "Halted"
           /\ f.market # "unsafe" /\ f.close = s.hour /\ t.healthy = s.healthy
  <2>1. hours = run
    BY <1>8 DEF RunAfter
  <2>2. t.hour = s.hour
    BY <1>3, <1>8
  <2>3. Counted(t, run)
    BY <1>1, <1>8, <2>2 DEF Counted
  <2> QED BY <1>5, <2>1, <2>3 DEF t
<1>9. CASE /\ f.valid /\ f.metrics /\ t.phase # "Halted"
           /\ f.market = "healthy" /\ f.close > s.hour
           /\ t.healthy = 1 \/ s.hour = 0 \/ f.close = s.hour + 1
           /\ t.healthy <= s.healthy + 1
  <2>1. hours = {h \in run : f.close - h < Need} \cup {f.close}
    BY <1>1, <1>4, <1>9 DEF RunAfter
  <2>2. t.hour = f.close
    BY <1>3, <1>9
  <2>3. ASSUME NEW k \in 0..Need, k < t.healthy PROVE t.hour - k \in hours
    <3>1. CASE k = 0
      BY <1>1, <1>4, <2>1, <2>2, <3>1 DEF Frame
    <3>2. CASE k > 0
      <4>1. f.close = s.hour + 1 /\ k - 1 < s.healthy /\ k - 1 \in 0..Need /\ k < Need
        BY <1>1, <1>4, <1>9, <2>3, <3>2
      <4>2. s.hour - (k - 1) \in run
        BY <1>1, <4>1
      <4>3. t.hour - k = s.hour - (k - 1) /\ f.close - (t.hour - k) = k
        BY <1>4, <2>2, <4>1
      <4> HIDE DEF hours
      <4> QED BY <2>1, <4>1, <4>2, <4>3
    <3> QED BY <3>1, <3>2
  <2> HIDE DEF hours
  <2>4. Counted(t, hours)
    BY <1>1, <1>4, <1>9, <2>2, <2>3 DEF Counted
  <2> QED BY <1>5, <2>4 DEF t, hours
<1> QED BY <1>3, <1>6, <1>7, <1>8, <1>9 DEF t

-----------------------------------------------------------------------------
(* What start-up does to the strategy. *)

\* The record of past positions decides the entry history, and nothing else.
LEMMA RestoreKeeps ==
    ASSUME NEW s \in Strategy, NEW ever \in BOOLEAN
    PROVE  LET t == Freeze(RestoreEntryHistory(s, ever))
           IN  /\ t \in Strategy
               /\ t.phase = s.phase /\ t.pause = s.pause
               /\ t.hour = s.hour /\ t.healthy = s.healthy
               /\ ever => t.history = "Established"
               /\ s.history = "Established" => t.history = "Established"
               /\ ~ever /\ s.history = "Initial" => t.history = "Initial"
<1> DEFINE r == RestoreEntryHistory(s, ever)
<1>1. /\ r \in Strategy
      /\ r.phase = s.phase /\ r.pause = s.pause /\ r.hour = s.hour /\ r.healthy = s.healthy
      /\ ever => r.history = "Established"
      /\ s.history = "Established" => r.history = "Established"
      /\ ~ever /\ s.history = "Initial" => r.history = "Initial"
  BY DEF RestoreEntryHistory, Strategy, Histories
<1> HIDE DEF r
<1>2. /\ Freeze(r) \in Strategy
      /\ Freeze(r).phase = r.phase /\ Freeze(r).pause = r.pause
      /\ Freeze(r).hour = r.hour /\ Freeze(r).healthy = r.healthy
      /\ Freeze(r).history = r.history
  BY <1>1, FreezeKeeps
<1> QED BY <1>1, <1>2 DEF r

\* A position that is seen establishes the entry history.
LEMMA ObserveKeeps ==
    ASSUME NEW s \in Strategy, NEW layers
    PROVE  LET t == ObserveLp(s, layers)
           IN  /\ t \in Strategy
               /\ t.phase = s.phase /\ t.pause = s.pause
               /\ t.hour = s.hour /\ t.healthy = s.healthy
               /\ t.history = IF layers = {} THEN s.history ELSE "Established"
  BY DEF ObserveLp, Strategy, Histories

\* A strategy in the market that misses a layer is paused now.
LEMMA PauseIncompleteKeeps ==
    ASSUME NEW s \in Strategy, NEW layers, NEW t \in Nat
    PROVE  LET r == PauseIncompleteInventory(s, layers, t)
               missing == s.phase \in InMarket /\ ~(Layers \subseteq layers)
           IN  /\ r \in Strategy /\ r.history = s.history /\ r.hour = s.hour
               /\ r.healthy \in {0, s.healthy}
               /\ missing => r.phase = "Paused" /\ r.pause = t
               /\ ~missing => r.phase = s.phase /\ r.pause = s.pause
<1>1. CASE s.phase \in InMarket /\ ~(Layers \subseteq layers)
  <2> DEFINE r == [s EXCEPT !.phase = "Paused", !.pause = t, !.fraction = 0,
                            !.healthy = 0, !.anchor = 0, !.observed = 0]
  <2>1. PauseIncompleteInventory(s, layers, t) = r
    BY <1>1 DEF PauseIncompleteInventory, InvalidateObservations, PausedNow, Strategy
  <2>2. /\ r \in Strategy /\ r.history = s.history /\ r.hour = s.hour /\ r.healthy = 0
        /\ r.phase = "Paused" /\ r.pause = t
    BY Numbers DEF Strategy, Phases
  <2> HIDE DEF r
  <2> QED BY <1>1, <2>1, <2>2
<1>2. CASE ~(s.phase \in InMarket /\ ~(Layers \subseteq layers))
  BY <1>2 DEF PauseIncompleteInventory
<1> QED BY <1>1, <1>2

\* An unwound workflow pauses the strategy, unless it is halted.
LEMMA FinishKeeps ==
    ASSUME NEW s \in Strategy, NEW t \in Nat
    PROVE  LET r == FinishWorkflowRecovery(s, t)
           IN  /\ r \in Strategy /\ r.history = s.history /\ r.hour = s.hour
               /\ r.healthy = 0
               /\ s.phase = "Halted" => r.phase = "Halted"
               /\ s.phase # "Halted" => r.phase = "Paused" /\ r.pause = t
<1> DEFINE u == IF s.phase = "Halted" THEN s ELSE PausedNow(s, t)
<1>1. /\ u \in Strategy /\ u.history = s.history /\ u.hour = s.hour
      /\ s.phase = "Halted" => u.phase = "Halted"
      /\ s.phase # "Halted" => u.phase = "Paused" /\ u.pause = t
  BY DEF PausedNow, Strategy, Phases
<1> HIDE DEF u
<1> DEFINE r == [u EXCEPT !.fraction = 0, !.healthy = 0, !.anchor = 0, !.observed = 0]
<1>2. FinishWorkflowRecovery(s, t) = r
  BY <1>1 DEF FinishWorkflowRecovery, InvalidateObservations, u, Strategy
<1>3. /\ r \in Strategy /\ r.history = u.history /\ r.hour = u.hour /\ r.healthy = 0
      /\ r.phase = u.phase /\ r.pause = u.pause
  BY <1>1, Numbers DEF Strategy
<1> HIDE DEF r
<1> QED BY <1>1, <1>2, <1>3

-----------------------------------------------------------------------------
(* The layers. *)

\* Steps that leave the chain alone leave the layers alone.
LEMMA SameLayers == ASSUME lp' = lp PROVE Deployed' = Deployed
  BY DEF Deployed

\* Only configured layers hold positions.
LEMMA DeployedAreLayers == Deployed \subseteq Layers
  BY DEF Deployed

\* One transaction changes one layer.
LEMMA OneLayer ==
    ASSUME lp \in [Layers -> 0..Full], NEW l \in Layers, NEW size \in 0..Full,
           lp' = [lp EXCEPT ![l] = size]
    PROVE  /\ lp' \in [Layers -> 0..Full]
           /\ size = 0 => Deployed' = Deployed \ {l}
           /\ size > 0 => Deployed' = Deployed \cup {l}
  BY PhaseAssumption DEF Deployed

-----------------------------------------------------------------------------
(* What a cycle decides. *)

\* The observations of the model are those the lemmas above are about.
LEMMA FramesAre ==
    ASSUME TypeOK, Deployed \in {{}, Layers}, NEW f \in Frames
    PROVE  /\ Frame(f)
           /\ f.now = now /\ f.deployed = Deployed
           /\ f.close \in {Hour(now) - 1, Hour(now)} /\ mem.hour <= f.close
<1>1. now \in Nat /\ Hour(now) \in Nat /\ mem.hour \in Nat
  BY HourOf DEF TypeOK, Strategy
<1>2. f.close \in Nat /\ f.close \in {Hour(now) - 1, Hour(now)} /\ mem.hour <= f.close
  BY <1>1 DEF Frames, Closed
<1> QED BY <1>1, <1>2 DEF Frames, Frame

\* The decision before the hedge account is asked, with and without a permit.
LEMMA RawSound ==
    ASSUME TypeOK, NEW f, Frame(f), Fits(mem, f), f.deployed = Deployed,
           f.close <= Hour(now), mem.hour <= f.close, Counted(mem, run)
    PROVE  LET raw == IF Waived THEN Rearmed(f) ELSE EvaluateWithContinuity(mem, f)
           IN  /\ Sound(raw, f) /\ Serves(raw.state, mem, f)
               /\ RunAfter(raw.state, f) \in SUBSET Nat
               /\ Counted(raw.state, RunAfter(raw.state, f))
<1>1. mem \in Strategy /\ mem.hour <= f.close
  BY DEF TypeOK
<1>2. CASE ~Waived
  <2> DEFINE raw == EvaluateWithContinuity(mem, f)
  <2>1. Sound(raw, f) /\ Serves(raw.state, mem, f)
    BY <1>1, EvaluateSound
  <2>2. RunAfter(raw.state, f) \in SUBSET Nat /\ Counted(raw.state, RunAfter(raw.state, f))
    BY <1>1, EvaluateCounts
  <2> QED BY <1>2, <2>1, <2>2
<1>3. CASE Waived
  <2> DEFINE s == [mem EXCEPT !.history = "Initial"]
             t == EvaluateWithContinuity(s, f)
             raw == [t EXCEPT !.state.history = mem.history]
  <2>1. /\ s \in Strategy /\ s.hour = mem.hour /\ s.healthy = mem.healthy
        /\ s.phase = mem.phase /\ s.pause = mem.pause /\ s.history = "Initial"
    BY <1>1 DEF Strategy, Histories
  <2> HIDE DEF s
  <2>2. Fits(s, f) /\ Counted(s, run)
    BY <2>1 DEF Fits, Counted
  <2>3. Sound(t, f) /\ Serves(t.state, s, f)
    BY <1>1, <2>1, <2>2, EvaluateSound
  <2>4. RunAfter(t.state, f) \in SUBSET Nat /\ Counted(t.state, RunAfter(t.state, f))
    BY <1>1, <2>1, <2>2, EvaluateCounts
  <2>5. Rearmed(f) = raw
    BY DEF Rearmed, s
  <2>6. \E x, lp1, fr, la : t = [state |-> x, lp |-> lp1, fraction |-> fr, layers |-> la]
    BY DEF t, EvaluateWithContinuity, EvaluateInner, Wait, ExitToQuote, Decision, Decide, Deploy, Resume, StepUp, Keep
  <2> HIDE DEF t
  <2>7. /\ raw.state = [t.state EXCEPT !.history = mem.history]
        /\ raw.lp = t.lp /\ raw.fraction = t.fraction /\ raw.layers = t.layers
    BY <2>6
  <2>8. /\ raw.state \in Strategy /\ raw.state.history = mem.history
        /\ raw.state.phase = t.state.phase /\ raw.state.pause = t.state.pause
        /\ raw.state.hour = t.state.hour /\ raw.state.healthy = t.state.healthy
    BY <1>1, <2>3, <2>7 DEF Sound, Strategy
  <2> HIDE DEF raw
  <2>9. Sound(raw, f)
    BY <2>3, <2>7, <2>8 DEF Sound
  <2>10. Serves(raw.state, mem, f)
    BY <1>3, <2>1, <2>3, <2>8 DEF Serves, Waived, Flat
  <2>11. RunAfter(raw.state, f) = RunAfter(t.state, f)
    BY <2>8 DEF RunAfter
  <2>12. Counted(raw.state, RunAfter(raw.state, f))
    BY <2>4, <2>8, <2>11 DEF Counted
  <2> QED BY <1>3, <2>4, <2>5, <2>9, <2>10, <2>11, <2>12
<1> QED BY <1>2, <1>3

\* What a process that starts anew has in memory.
LEMMA NewTypes ==
    /\ NewStrategy \in Strategy /\ NoDecision \in Decisions
    /\ NoEvaluation \in [at : Nat, run : SUBSET Nat]
  BY Numbers DEF NewStrategy, Strategy, Phases, Histories, NoDecision, Decisions,
                 Intents, NoEvaluation

\* What the strategy and the decision are after an assessment in a cycle.
LEMMA AssessSound ==
    ASSUME IInv, pc = "observed", NEW f \in Frames, NEW budget \in BOOLEAN
    PROVE  LET raw == IF Waived THEN Rearmed(f) ELSE EvaluateWithContinuity(mem, f)
               r == Preflighted(raw, budget)
               t == r.state
               hours == RunAfter(raw.state, f)
           IN  /\ Sound(r, f) /\ f.deployed = Deployed /\ hours \in SUBSET Nat
               /\ mem.history = "Established" => t.history = "Established"
               /\ mem.phase = "Halted" => t.phase = "Halted"
               /\ r.lp = "Deploy" => raw.state.phase # "Halted"
               /\ Counted(t, hours)
               /\ mem.phase = "Paused" /\ t.phase = "Paused" => t.pause = mem.pause
               /\ mem.phase \notin {"Paused", "Warmup"} /\ t.phase = "Paused"
                    => t.pause = now
               /\ Deployed = {} => t.history = mem.history
               /\ t.phase = "Warmup" => mem.phase = "Warmup"
               /\ mem.phase = "Paused" /\ t.phase = "Recovering" =>
                    /\ t.hour \in {Hour(now) - 1, Hour(now)} /\ t.healthy = Need
                    /\ now - mem.pause >= Cooldown
                    /\ Deployed = {} => mem.history # "Initial"
<1> DEFINE raw == IF Waived THEN Rearmed(f) ELSE EvaluateWithContinuity(mem, f)
           hours == RunAfter(raw.state, f)
<1>1. /\ TypeOK /\ checkpoint = mem /\ ~workflow /\ Counted(mem, run)
      /\ Deployed \in {{}, Layers}
      /\ mem.phase \in InMarket => Deployed = Layers
      /\ mem.phase = "Warmup" => Deployed = {}
  BY DEF IInv, SavedInv, WorkflowInv, LayersInv, PauseInv
<1>2. /\ Frame(f) /\ f.now = now /\ f.deployed = Deployed
      /\ f.close \in {Hour(now) - 1, Hour(now)} /\ f.close <= Hour(now)
      /\ mem.hour <= f.close
  <2>1. Hour(now) \in Nat
    BY <1>1, HourOf DEF TypeOK
  <2> QED BY <1>1, <2>1, FramesAre
<1>3. Fits(mem, f)
  BY <1>1, <1>2 DEF Fits
<1>4. /\ Sound(raw, f) /\ Serves(raw.state, mem, f)
      /\ hours \in SUBSET Nat /\ Counted(raw.state, hours)
  BY <1>1, <1>2, <1>3, RawSound
<1> HIDE DEF raw, hours
<1>5. CASE ~(raw.lp = "Deploy" /\ Deployed = {} /\ ~budget)
  <2>1. Preflighted(raw, budget) = raw
    BY <1>5 DEF Preflighted
  <2> QED BY <1>2, <1>4, <2>1 DEF Serves, Sound, raw, hours
<1>6. CASE raw.lp = "Deploy" /\ Deployed = {} /\ ~budget
  <2> DEFINE t == [raw.state EXCEPT !.phase = mem.phase, !.fraction = mem.fraction,
                                    !.scale = mem.scale]
             u == [t EXCEPT !.phase = "Paused"]
             r == Preflighted(raw, budget)
  <2>1. r = IF flat THEN Wait(t) ELSE ExitToQuote(u)
    BY <1>6 DEF Preflighted, DeferEntry
  <2>2. raw.state \in Strategy /\ mem \in Strategy /\ raw.state.phase \in InMarket
    BY <1>1, <1>4, <1>6 DEF Sound, TypeOK
  <2>3. /\ t \in Strategy /\ t.phase = mem.phase /\ t.history = raw.state.history
        /\ t.hour = raw.state.hour /\ t.healthy = raw.state.healthy
        /\ t.pause = raw.state.pause
    BY <2>2 DEF Strategy
  <2> HIDE DEF t
  <2>4. /\ u \in Strategy /\ u.phase = "Paused" /\ u.history = t.history
        /\ u.hour = t.hour /\ u.healthy = t.healthy /\ u.pause = t.pause
    BY <2>3 DEF Strategy, Phases
  <2>5. mem.phase \in {"Warmup", "Paused"}
    <3>1. mem.phase # "Halted"
      BY <1>4, <2>2 DEF Serves
    <3>2. mem.phase \notin InMarket
      BY <1>1, <1>6, LayersAssumption
    <3> QED BY <2>2, <3>1, <3>2 DEF Strategy, Phases
  <2> HIDE DEF u, r
  <2>6. Sound(r, f) /\ r.lp # "Deploy" /\ r.state \in {t, u}
    <3>1. CASE flat
      <4>1. r.state = t /\ r.lp = "Nothing" /\ r.fraction = 0 /\ r.layers = {}
        BY <2>1, <3>1 DEF Wait, Decision
      <4> QED BY <1>2, <1>6, <2>3, <2>5, <4>1, Numbers DEF Sound, Intents
    <3>2. CASE ~flat
      <4>1. r = ExitToQuote(u)
        BY <2>1, <3>2
      <4>2. r.state = u /\ r.lp = "ExitToQuote"
        BY <4>1 DEF ExitToQuote, Decision
      <4> QED BY <1>2, <2>4, <4>1, <4>2, ExitSound
    <3> QED BY <3>1, <3>2
  <2> DEFINE v == r.state
  <2>7. /\ v.history = raw.state.history /\ v.hour = raw.state.hour
        /\ v.healthy = raw.state.healthy /\ v.pause = raw.state.pause
        /\ v.phase \in {mem.phase, "Paused"}
    BY <2>3, <2>4, <2>6
  <2> HIDE DEF v
  <2>8. Counted(v, hours)
    BY <1>4, <2>7 DEF Counted
  <2>9. /\ mem.history = "Established" => v.history = "Established"
        /\ Deployed = {} => v.history = mem.history
        /\ mem.phase = "Paused" => v.pause = mem.pause
        /\ v.phase = "Warmup" => mem.phase = "Warmup"
    BY <1>2, <1>4, <2>7 DEF Serves
  <2> QED BY <1>2, <1>4, <2>5, <2>6, <2>7, <2>8, <2>9 DEF raw, hours, r, v
<1> QED BY <1>5, <1>6

-----------------------------------------------------------------------------
(* The steps. *)

\* Load puts in memory what the files say, with the entry history the record of
\* positions shows.
LEMMA LoadKeeps == ASSUME IInv, Load PROVE IInv'
<1>1. Deployed' = Deployed
  BY SameLayers DEF Load
<1>2. mem' \in Strategy /\ lpHistory' \in BOOLEAN
  BY RestoreKeeps DEF IInv, TypeOK, Load, SeenLp
<1>3. /\ mem'.phase = checkpoint.phase /\ mem'.pause = checkpoint.pause
      /\ mem'.hour = checkpoint.hour /\ mem'.healthy = checkpoint.healthy
      /\ lpHistory' => mem'.history = "Established"
      /\ ~lpHistory' /\ checkpoint.history = "Initial" => mem'.history = "Initial"
  BY <1>2, RestoreKeeps DEF IInv, TypeOK, Load
<1>4. TypeOK'
  BY <1>2, <1>3 DEF IInv, TypeOK, Steps, Load, SeenLp
<1>5. SavedInv'
  BY <1>2, <1>3 DEF IInv, SavedInv, Load, SeenLp
<1>6. LoadedInv'
  BY <1>2, <1>3 DEF IInv, LoadedInv, Load, SeenLp
<1>7. WorkflowInv'
  BY <1>2, <1>3 DEF IInv, WorkflowInv, Load, SeenLp
<1>8. LayersInv'
  BY <1>1, <1>2, <1>3 DEF IInv, LayersInv, Load, SeenLp
<1>9. DecisionInv'
  BY <1>1, <1>2, <1>3 DEF IInv, DecisionInv, Load, SeenLp
<1>10. WaiverInv'
  BY <1>2, <1>3 DEF IInv, WaiverInv, Load, SeenLp
<1>11. HistoryInv'
  BY <1>1, <1>2, <1>3 DEF IInv, HistoryInv, Load, SeenLp
<1>12. PauseInv'
  BY <1>2, <1>3 DEF IInv, PauseInv, Counted, Load, SeenLp
<1>13. FirstInv'
  BY <1>1, <1>2, <1>3 DEF IInv, FirstInv, NeverEntered, Load, SeenLp
<1> QED BY <1>4, <1>5, <1>6, <1>7, <1>8, <1>9, <1>10, <1>11, <1>12, <1>13 DEF IInv

\* A settled transaction of an earlier life belongs to its unfinished workflow, and
\* its position is recorded.
LEMMA ReconcileKeeps == ASSUME IInv, Reconcile PROVE IInv'
<1>1. /\ lp' \in [Layers -> 0..Full]
      /\ flying = Null => Deployed' = Deployed
  <2>1. CASE lp' = lp
    BY <2>1, SameLayers DEF IInv, TypeOK
  <2>2. CASE flying # Null /\ lp' = [lp EXCEPT ![flying.layer] = flying.size]
    <3>1. flying.layer \in Layers /\ flying.size \in 0..Full
      BY <2>2 DEF IInv, TypeOK
    <3> QED BY <2>2, <3>1, OneLayer DEF IInv, TypeOK
  <2> QED BY <2>1, <2>2 DEF Reconcile
<1>2. /\ opened' \in BOOLEAN /\ (opened' <=> opened \/ Deployed' # {})
      /\ lpHistory' \in BOOLEAN /\ (lpHistory' <=> lpHistory \/ Deployed' # {})
  BY DEF IInv, TypeOK, Reconcile
<1>3. TypeOK'
  BY <1>1, <1>2 DEF IInv, TypeOK, Steps, Reconcile
<1>4. SavedInv'
  BY <1>1, <1>2 DEF IInv, SavedInv, Reconcile
<1>5. LoadedInv'
  BY <1>1, <1>2 DEF IInv, LoadedInv, Reconcile
<1>6. WorkflowInv'
  BY <1>1, <1>2 DEF IInv, WorkflowInv, Reconcile
<1>7. LayersInv'
  BY <1>1, <1>2 DEF IInv, LayersInv, WorkflowInv, Reconcile
<1>8. DecisionInv'
  BY <1>1, <1>2 DEF IInv, DecisionInv, Reconcile
<1>9. WaiverInv'
  BY <1>1, <1>2 DEF IInv, WaiverInv, Reconcile
<1>10. HistoryInv'
  BY <1>1, <1>2 DEF IInv, HistoryInv, WorkflowInv, Reconcile
<1>11. PauseInv'
  BY <1>1, <1>2 DEF IInv, PauseInv, Counted, Reconcile
<1>12. FirstInv'
  BY <1>1, <1>2 DEF IInv, FirstInv, NeverEntered, WorkflowInv, Reconcile
<1> QED BY <1>3, <1>4, <1>5, <1>6, <1>7, <1>8, <1>9, <1>10, <1>11, <1>12 DEF IInv

\* Start-up saves what it loaded, or a pause.
LEMMA SaveReconciledState ==
  ASSUME IInv, SaveReconciled
  PROVE  /\ mem' \in Strategy /\ mem'.hour = mem.hour /\ mem'.healthy \in {0, mem.healthy}
         /\ mem'.history = IF Deployed = {} THEN mem.history ELSE "Established"
         /\ mem.phase \in InMarket /\ ~(Layers \subseteq Deployed) =>
              mem'.phase = "Paused" /\ mem'.pause = now
         /\ ~(mem.phase \in InMarket /\ ~(Layers \subseteq Deployed)) =>
              mem'.phase = mem.phase /\ mem'.pause = mem.pause
<1> DEFINE o == ObserveLp(mem, Deployed)
           r == PauseIncompleteInventory(o, Deployed, now)
<1>1. now \in Nat /\ mem \in Strategy
  BY DEF IInv, TypeOK
<1>2. /\ o \in Strategy /\ o.phase = mem.phase /\ o.pause = mem.pause
      /\ o.hour = mem.hour /\ o.healthy = mem.healthy
      /\ o.history = IF Deployed = {} THEN mem.history ELSE "Established"
  BY <1>1, ObserveKeeps
<1>3. mem' = r
  BY DEF SaveReconciled
<1> HIDE DEF o
<1>4. /\ r \in Strategy /\ r.history = o.history /\ r.hour = o.hour
      /\ r.healthy \in {0, o.healthy}
      /\ o.phase \in InMarket /\ ~(Layers \subseteq Deployed) =>
           r.phase = "Paused" /\ r.pause = now
      /\ ~(o.phase \in InMarket /\ ~(Layers \subseteq Deployed)) =>
           r.phase = o.phase /\ r.pause = o.pause
  BY <1>1, <1>2, PauseIncompleteKeeps
<1> HIDE DEF r
<1> QED BY <1>2, <1>3, <1>4

\* What is saved at start-up has all its layers if it is in the market.
LEMMA SaveReconciledKeeps == ASSUME IInv, SaveReconciled PROVE IInv'
<1>1. Deployed' = Deployed
  BY SameLayers DEF SaveReconciled
<1>2. /\ mem' \in Strategy /\ mem'.hour = mem.hour /\ mem'.healthy \in {0, mem.healthy}
      /\ mem'.history = IF Deployed = {} THEN mem.history ELSE "Established"
      /\ mem.phase \in InMarket /\ ~(Layers \subseteq Deployed) =>
           mem'.phase = "Paused" /\ mem'.pause = now
      /\ ~(mem.phase \in InMarket /\ ~(Layers \subseteq Deployed)) =>
           mem'.phase = mem.phase /\ mem'.pause = mem.pause
  BY SaveReconciledState
<1>3. /\ mem.phase = checkpoint.phase /\ mem.pause = checkpoint.pause
      /\ mem.hour = checkpoint.hour /\ mem.healthy = checkpoint.healthy
  BY DEF IInv, LoadedInv, SaveReconciled
<1>4. Deployed \subseteq Layers
  BY DeployedAreLayers
<1>5. Counted(checkpoint, run)'
  <2>1. /\ checkpoint'.hour = checkpoint.hour /\ checkpoint'.healthy \in {0, checkpoint.healthy}
        /\ Counted(checkpoint, run) /\ UNCHANGED <<run, now>>
    BY <1>2, <1>3 DEF IInv, PauseInv, SaveReconciled
  <2> QED BY <2>1 DEF Counted
<1>6. pausedAt \in Nat /\ now \in Nat /\ pausedAt <= now
  BY DEF IInv, TypeOK, PauseInv
<1>7. TypeOK'
  BY <1>2, <1>3, <1>4, <1>5, <1>6 DEF IInv, TypeOK, Steps, SaveReconciled, NotePause
<1>8. SavedInv'
  BY <1>2, <1>3, <1>4, <1>5, <1>6 DEF IInv, SavedInv, SaveReconciled, NotePause
<1>9. LoadedInv'
  BY <1>2, <1>3, <1>4, <1>5, <1>6 DEF IInv, LoadedInv, SaveReconciled, NotePause
<1>10. WorkflowInv'
  BY <1>2, <1>3, <1>4, <1>5, <1>6 DEF IInv, WorkflowInv, SaveReconciled, NotePause
<1>11. LayersInv'
  BY <1>1, <1>2, <1>3, <1>4, <1>5, <1>6 DEF IInv, LayersInv, SaveReconciled, NotePause
<1>12. DecisionInv'
  BY <1>1, <1>2, <1>3, <1>4, <1>5, <1>6 DEF IInv, DecisionInv, SaveReconciled, NotePause
<1>13. WaiverInv'
  BY <1>2, <1>3, <1>4, <1>5, <1>6 DEF IInv, WaiverInv, SaveReconciled, NotePause
<1>14. HistoryInv'
  BY <1>1, <1>2, <1>3, <1>4, <1>5, <1>6 DEF IInv, HistoryInv, SaveReconciled, NotePause
<1>15. PauseInv'
  BY <1>2, <1>3, <1>4, <1>5, <1>6 DEF IInv, PauseInv, Counted, SaveReconciled, NotePause
<1>16. FirstInv'
  BY <1>1, <1>2, <1>3, <1>4, <1>5, <1>6 DEF IInv, FirstInv, NeverEntered, SaveReconciled, NotePause
<1> QED BY <1>7, <1>8, <1>9, <1>10, <1>11, <1>12, <1>13, <1>14, <1>15, <1>16 DEF IInv

\* A leftover workflow becomes an exit.
LEMMA RecoverWorkflowKeeps == ASSUME IInv, RecoverWorkflow PROVE IInv'
<1>1. Deployed' = Deployed
  BY SameLayers DEF RecoverWorkflow
<1>2. TypeOK'
  BY Numbers
    DEF IInv, TypeOK, Steps, Decisions, Intents, RecoverWorkflow, RestartExit,
        NoDecision
<1>3. SavedInv'
  BY DEF IInv, SavedInv, RecoverWorkflow, RestartExit, NoDecision
<1>4. LoadedInv'
  BY DEF IInv, LoadedInv, RecoverWorkflow, RestartExit, NoDecision
<1>5. WorkflowInv'
  BY DEF IInv, WorkflowInv, RecoverWorkflow, RestartExit, NoDecision
<1>6. LayersInv'
  BY <1>1 DEF IInv, LayersInv, RecoverWorkflow, RestartExit, NoDecision
<1>7. DecisionInv'
  BY <1>1
    DEF IInv, DecisionInv, SavedInv, LayersInv, WorkflowInv, RecoverWorkflow,
        RestartExit, NoDecision
<1>8. WaiverInv'
  BY DEF IInv, WaiverInv, RecoverWorkflow, RestartExit, NoDecision
<1>9. HistoryInv'
  BY <1>1 DEF IInv, HistoryInv, RecoverWorkflow, RestartExit, NoDecision
<1>10. PauseInv'
  BY DEF IInv, PauseInv, Counted, RecoverWorkflow, RestartExit, NoDecision
<1>11. FirstInv'
  BY <1>1 DEF IInv, FirstInv, NeverEntered, RecoverWorkflow, RestartExit, NoDecision
<1> QED BY <1>2, <1>3, <1>4, <1>5, <1>6, <1>7, <1>8, <1>9, <1>10, <1>11 DEF IInv

\* A finished recovery saves a pause, or the halt it found.
LEMMA FinishRecoveryState ==
  ASSUME IInv, FinishRecovery
  PROVE  /\ mem' \in Strategy /\ mem'.history = mem.history /\ mem'.hour = mem.hour
         /\ mem'.healthy = 0
         /\ mem.phase = "Halted" => mem'.phase = "Halted"
         /\ mem.phase # "Halted" => mem'.phase = "Paused" /\ mem'.pause = now
  BY FinishKeeps DEF IInv, TypeOK, FinishRecovery

\* After the unwinding nothing is deployed and the strategy is paused.
LEMMA FinishRecoveryKeeps == ASSUME IInv, FinishRecovery PROVE IInv'
<1>1. Deployed' = Deployed
  BY SameLayers DEF FinishRecovery
<1>2. /\ mem' \in Strategy /\ mem'.history = mem.history /\ mem'.hour = mem.hour
      /\ mem'.healthy = 0
      /\ mem.phase = "Halted" => mem'.phase = "Halted"
      /\ mem.phase # "Halted" => mem'.phase = "Paused" /\ mem'.pause = now
  BY FinishRecoveryState
<1>3. checkpoint = mem /\ unwinding /\ ~workflow
  BY DEF IInv, SavedInv, WorkflowInv, FinishRecovery
<1>4. Counted(checkpoint, run)'
  <2>1. checkpoint'.hour = checkpoint.hour /\ checkpoint'.healthy = 0 /\ checkpoint.hour <= Hour(now)
    BY <1>2, <1>3 DEF IInv, PauseInv, Counted, FinishRecovery
  <2> QED BY <2>1 DEF Counted, FinishRecovery
<1>5. pausedAt \in Nat /\ now \in Nat /\ pausedAt <= now
  BY DEF IInv, TypeOK, PauseInv
<1>6. TypeOK'
  BY <1>2, <1>3, <1>4, <1>5 DEF IInv, TypeOK, Steps, FinishRecovery, NotePause
<1>7. SavedInv'
  BY <1>2, <1>3, <1>4, <1>5 DEF IInv, SavedInv, FinishRecovery, NotePause
<1>8. LoadedInv'
  BY <1>2, <1>3, <1>4, <1>5 DEF IInv, LoadedInv, FinishRecovery, NotePause
<1>9. WorkflowInv'
  BY <1>2, <1>3, <1>4, <1>5 DEF IInv, WorkflowInv, FinishRecovery, NotePause
<1>10. LayersInv'
  BY <1>1, <1>2, <1>3, <1>4, <1>5 DEF IInv, LayersInv, FinishRecovery, NotePause
<1>11. DecisionInv'
  BY <1>1, <1>2, <1>3, <1>4, <1>5 DEF IInv, DecisionInv, FinishRecovery, NotePause
<1>12. WaiverInv'
  BY <1>2, <1>3, <1>4, <1>5 DEF IInv, WaiverInv, FinishRecovery, NotePause
<1>13. HistoryInv'
  BY <1>1, <1>2, <1>3, <1>4, <1>5 DEF IInv, HistoryInv, FinishRecovery, NotePause
<1>14. PauseInv'
  BY <1>2, <1>3, <1>4, <1>5 DEF IInv, PauseInv, Counted, FinishRecovery, NotePause
<1>15. FirstInv'
  BY <1>1, <1>2, <1>3, <1>4, <1>5 DEF IInv, FirstInv, NeverEntered, FinishRecovery, NotePause
<1> QED BY <1>6, <1>7, <1>8, <1>9, <1>10, <1>11, <1>12, <1>13, <1>14, <1>15 DEF IInv

\* The confirmation of a first entry changes the history of nothing that was seen.
LEMMA ReadyState ==
  ASSUME IInv, Ready
  PROVE  /\ mem' \in Strategy
         /\ mem'.phase = mem.phase /\ mem'.pause = mem.pause
         /\ mem'.hour = mem.hour /\ mem'.healthy = mem.healthy
         /\ mem'.history = mem.history \/ (~SeenLp /\ mem.history = "LegacyUnknown")
<1>1. mem \in Strategy
  BY DEF IInv, TypeOK
<1>2. mem' \in {mem, [mem EXCEPT !.history = "Initial"]}
  BY DEF Ready
<1>3. mem' # mem => ~SeenLp /\ mem.history = "LegacyUnknown"
  BY DEF Ready, ConfirmsFirstEntry
<1>4. CASE mem' = mem
  BY <1>1, <1>4
<1>5. CASE mem' = [mem EXCEPT !.history = "Initial"] /\ mem' # mem
  BY <1>1, <1>3, <1>5 DEF Strategy, Histories
<1> QED BY <1>2, <1>4, <1>5

\* A first entry is confirmed only where no position was ever seen.
LEMMA ReadyKeeps == ASSUME IInv, Ready PROVE IInv'
<1>1. Deployed' = Deployed
  BY SameLayers DEF Ready
<1>2. /\ mem' \in Strategy
      /\ mem'.phase = mem.phase /\ mem'.pause = mem.pause
      /\ mem'.hour = mem.hour /\ mem'.healthy = mem.healthy
      /\ mem'.history = mem.history \/ (~SeenLp /\ mem.history = "LegacyUnknown")
  BY ReadyState
<1>3. checkpoint = mem
  BY DEF IInv, SavedInv, Ready
<1>4. TypeOK'
  BY <1>2, <1>3 DEF IInv, TypeOK, Steps, Ready, SeenLp
<1>5. SavedInv'
  BY <1>2, <1>3 DEF IInv, SavedInv, Ready, SeenLp
<1>6. LoadedInv'
  BY <1>2, <1>3 DEF IInv, LoadedInv, Ready, SeenLp
<1>7. WorkflowInv'
  BY <1>2, <1>3 DEF IInv, WorkflowInv, Ready, SeenLp
<1>8. LayersInv'
  BY <1>1, <1>2, <1>3 DEF IInv, LayersInv, Ready, SeenLp
<1>9. DecisionInv'
  BY <1>1, <1>2, <1>3 DEF IInv, DecisionInv, Ready, SeenLp
<1>10. WaiverInv'
  BY <1>2, <1>3 DEF IInv, WaiverInv, Ready, SeenLp
<1>11. HistoryInv'
  BY <1>1, <1>2, <1>3 DEF IInv, HistoryInv, Ready, SeenLp
<1>12. PauseInv'
  BY <1>2, <1>3 DEF IInv, PauseInv, Counted, Ready, SeenLp
<1>13. FirstInv'
  BY <1>1, <1>2, <1>3 DEF IInv, FirstInv, NeverEntered, Ready, SeenLp
<1> QED BY <1>4, <1>5, <1>6, <1>7, <1>8, <1>9, <1>10, <1>11, <1>12, <1>13 DEF IInv

\* Candles are fetched.
LEMMA FetchKeeps == ASSUME IInv, Fetch PROVE IInv'
<1>1. Deployed' = Deployed
  BY SameLayers DEF Fetch
<1>2. TypeOK'
  BY HourOf DEF IInv, TypeOK, Steps, Fetch
<1>3. SavedInv'
  BY DEF IInv, SavedInv, Fetch
<1>4. LoadedInv'
  BY DEF IInv, LoadedInv, Fetch
<1>5. WorkflowInv'
  BY DEF IInv, WorkflowInv, Fetch
<1>6. LayersInv'
  BY <1>1 DEF IInv, LayersInv, Fetch
<1>7. DecisionInv'
  BY <1>1 DEF IInv, DecisionInv, Fetch
<1>8. WaiverInv'
  BY DEF IInv, WaiverInv, Fetch
<1>9. HistoryInv'
  BY <1>1 DEF IInv, HistoryInv, Fetch
<1>10. PauseInv'
  BY DEF IInv, PauseInv, Counted, Fetch
<1>11. FirstInv'
  BY <1>1 DEF IInv, FirstInv, NeverEntered, Fetch
<1> QED BY <1>2, <1>3, <1>4, <1>5, <1>6, <1>7, <1>8, <1>9, <1>10, <1>11 DEF IInv

\* The decision of a cycle: AssessSound, restated for what is saved next.
LEMMA AssessKeeps == ASSUME IInv, Assess PROVE IInv'
<1>1. Deployed' = Deployed
  BY SameLayers DEF Assess
<1>a. PICK f \in Frames, budget \in BOOLEAN :
         LET raw == IF Waived THEN Rearmed(f) ELSE EvaluateWithContinuity(mem, f)
             r == Preflighted(raw, budget)
         IN  /\ mem' = r.state
             /\ d' = [lp |-> r.lp, fraction |-> r.fraction, layers |-> r.layers,
                      waiver |-> Waived /\ r.lp = "Deploy"]
             /\ permit' = IF permit = "armed"
                             /\ (~Waived \/ raw.state.phase = "Halted")
                          THEN "canceled" ELSE permit
             /\ seen' = [at |-> now, run |-> RunAfter(raw.state, f)]
  BY DEF Assess
<1> DEFINE raw == IF Waived THEN Rearmed(f) ELSE EvaluateWithContinuity(mem, f)
           r == Preflighted(raw, budget)
           hours == RunAfter(raw.state, f)
<1>b. /\ Sound(r, f) /\ f.deployed = Deployed /\ hours \in SUBSET Nat
      /\ mem.history = "Established" => mem'.history = "Established"
      /\ mem.phase = "Halted" => mem'.phase = "Halted"
      /\ r.lp = "Deploy" => raw.state.phase # "Halted"
      /\ Counted(r.state, hours)
      /\ mem.phase = "Paused" /\ mem'.phase = "Paused" => mem'.pause = mem.pause
      /\ mem.phase \notin {"Paused", "Warmup"} /\ mem'.phase = "Paused" => mem'.pause = now
      /\ Deployed = {} => mem'.history = mem.history
      /\ mem'.phase = "Warmup" => mem.phase = "Warmup"
      /\ mem.phase = "Paused" /\ mem'.phase = "Recovering" =>
           /\ mem'.hour \in {Hour(now) - 1, Hour(now)} /\ mem'.healthy = Need
           /\ now - mem.pause >= Cooldown
           /\ Deployed = {} => mem.history # "Initial"
  <2>1. pc = "observed"
    BY DEF Assess
  <2> QED BY <1>a, <2>1, AssessSound
<1>c. /\ mem' = r.state /\ seen' = [at |-> now, run |-> hours]
      /\ d' = [lp |-> r.lp, fraction |-> r.fraction, layers |-> r.layers,
               waiver |-> Waived /\ r.lp = "Deploy"]
      /\ permit' = IF permit = "armed" /\ (~Waived \/ raw.state.phase = "Halted")
                   THEN "canceled" ELSE permit
  BY <1>a
<1> HIDE DEF raw, r, hours
<1>2. checkpoint = mem /\ ~workflow /\ ~unwinding
  BY DEF IInv, SavedInv, WorkflowInv, Assess
<1>3. /\ d' \in Decisions /\ d'.lp = r.lp /\ d'.fraction = r.fraction /\ d'.layers = r.layers
      /\ d'.waiver => Waived /\ r.lp = "Deploy"
  <2>1. (Waived /\ r.lp = "Deploy") \in BOOLEAN
    BY DEF Waived
  <2> QED BY <1>b, <1>c, <2>1 DEF Sound, Decisions
<1>4. seen'.at = now /\ seen'.run = hours /\ pc' = "decided"
  BY <1>c DEF Assess
<1>5. d'.waiver => permit = "armed" /\ permit' = "armed"
  BY <1>b, <1>c, <1>3 DEF Waived
<1>6. Counted(mem, seen.run)'
  <2>1. mem' = r.state /\ seen'.run = hours /\ now' = now
    BY <1>c, <1>4 DEF Assess
  <2> QED BY <1>b, <2>1 DEF Counted
<1>7. mem.phase = "Paused" /\ mem'.phase = "Recovering" => now - pausedAt >= Cooldown
  <2>1. mem.pause \in Nat /\ now \in Nat /\ pausedAt \in Nat /\ Cooldown \in Nat
    BY PhaseAssumption DEF IInv, TypeOK, Strategy
  <2>2. mem.phase = "Paused" /\ ~(Deployed = {} /\ mem.history = "Initial")
          => pausedAt <= mem.pause
    BY <1>2, <2>1 DEF IInv, FirstInv, NeverEntered
  <2> QED BY <1>b, <2>1, <2>2
<1>8. permit' \in Permits /\ (permit' = "armed" => permit = "armed")
  BY <1>c DEF IInv, TypeOK, Permits
<1>9. TypeOK'
  BY <1>2, <1>3, <1>4, <1>5, <1>6, <1>7, <1>8, <1>b, <1>c
    DEF IInv, TypeOK, Steps, Sound, Assess
<1>10. SavedInv'
  BY <1>2, <1>3, <1>4, <1>5, <1>6, <1>7, <1>8 DEF IInv, SavedInv, Assess
<1>11. LoadedInv'
  BY <1>2, <1>3, <1>4, <1>5, <1>6, <1>7, <1>8, <1>b DEF IInv, LoadedInv, Assess
<1>12. WorkflowInv'
  BY <1>2, <1>3, <1>4, <1>5, <1>6, <1>7, <1>8 DEF IInv, WorkflowInv, Assess
<1>13. LayersInv'
  BY <1>1, <1>2, <1>3, <1>4, <1>5, <1>6, <1>7, <1>8, <1>b, <1>c
    DEF IInv, LayersInv, Assess
<1>14. DecisionInv'
  BY <1>1, <1>2, <1>3, <1>4, <1>5, <1>6, <1>7, <1>8, <1>b, <1>c
    DEF IInv, DecisionInv, Sound, Assess
<1>15. WaiverInv'
  BY <1>2, <1>3, <1>4, <1>5, <1>6, <1>7, <1>8 DEF IInv, WaiverInv, Assess
<1>16. HistoryInv'
  BY <1>1, <1>2, <1>3, <1>4, <1>5, <1>6, <1>7, <1>8, <1>b DEF IInv, HistoryInv, Assess
<1>17. PauseInv'
  <2>1. now <= now /\ seen'.at = now /\ UNCHANGED <<now, checkpoint, run, pausedAt>>
    BY <1>4 DEF IInv, TypeOK, Assess
  <2>2. Counted(checkpoint, run)'
    BY <2>1 DEF IInv, PauseInv, Counted
  <2> QED BY <1>2, <1>4, <1>6, <1>7, <1>b, <2>1, <2>2 DEF IInv, PauseInv
<1>18. FirstInv'
  BY <1>1, <1>2, <1>3, <1>4, <1>5, <1>6, <1>7, <1>8, <1>b DEF IInv, FirstInv, NeverEntered, Assess
<1> QED BY <1>9, <1>10, <1>11, <1>12, <1>13, <1>14, <1>15, <1>16, <1>17, <1>18 DEF IInv

\* The permit is spent before the decision it allows is saved.
LEMMA ConsumeKeeps == ASSUME IInv, Consume PROVE IInv'
<1>1. Deployed' = Deployed
  BY SameLayers DEF Consume
<1>2. TypeOK'
  BY DEF IInv, TypeOK, Steps, Permits, Consume
<1>3. SavedInv'
  BY DEF IInv, SavedInv, Consume
<1>4. LoadedInv'
  BY DEF IInv, LoadedInv, Consume
<1>5. WorkflowInv'
  BY DEF IInv, WorkflowInv, Consume
<1>6. LayersInv'
  BY <1>1 DEF IInv, LayersInv, Consume
<1>7. DecisionInv'
  BY <1>1 DEF IInv, DecisionInv, Consume
<1>8. WaiverInv'
  BY DEF IInv, WaiverInv, Consume
<1>9. HistoryInv'
  BY <1>1 DEF IInv, HistoryInv, Consume
<1>10. PauseInv'
  BY DEF IInv, PauseInv, Counted, Consume
<1>11. FirstInv'
  BY <1>1 DEF IInv, FirstInv, NeverEntered, Consume
<1> QED BY <1>2, <1>3, <1>4, <1>5, <1>6, <1>7, <1>8, <1>9, <1>10, <1>11 DEF IInv

\* The saved strategy is the one that decided, and its evaluation counts.
LEMMA SaveKeeps == ASSUME IInv, Save PROVE IInv'
<1>1. Deployed' = Deployed
  BY SameLayers DEF Save
<1>2. Counted(mem, seen.run) /\ seen.at <= now /\ ~workflow
  BY DEF IInv, WorkflowInv, PauseInv, Save
<1>3. TypeOK'
  BY <1>2 DEF IInv, TypeOK, Steps, Save, NotePause, NoEvaluation
<1>4. SavedInv'
  BY <1>2 DEF IInv, SavedInv, Save, NotePause, NoEvaluation
<1>5. LoadedInv'
  BY <1>2 DEF IInv, LoadedInv, Save, NotePause, NoEvaluation
<1>6. WorkflowInv'
  BY <1>2 DEF IInv, WorkflowInv, Save, NotePause, NoEvaluation
<1>7. LayersInv'
  BY <1>1, <1>2
    DEF IInv, LayersInv, DecisionInv, WorkflowInv, Save, NotePause, NoEvaluation
<1>8. DecisionInv'
  BY <1>1, <1>2
    DEF IInv, DecisionInv, TypeOK, Decisions, Intents, Save, NotePause, NoEvaluation
<1>9. WaiverInv'
  BY <1>2 DEF IInv, WaiverInv, Save, NotePause, NoEvaluation
<1>10. HistoryInv'
  BY <1>1, <1>2 DEF IInv, HistoryInv, Save, NotePause, NoEvaluation
<1>11. PauseInv'
  BY <1>2 DEF IInv, PauseInv, Counted, Save, NotePause, NoEvaluation
<1>12. FirstInv'
  <2>1. ASSUME \/ checkpoint'.phase = "Warmup"
               \/ checkpoint'.phase = "Paused" /\ checkpoint'.pause < pausedAt'
        PROVE  NeverEntered'
    <3>1. checkpoint' = mem /\ mem' = mem /\ pc = "save" /\ pc' # "down"
      BY DEF Save
    <3>2. \/ checkpoint.phase = "Warmup"
          \/ checkpoint.phase = "Paused" /\ checkpoint.pause < pausedAt
      <4>1. CASE mem.phase = "Warmup"
        BY <3>1, <4>1 DEF IInv, FirstInv
      <4>2. CASE mem.phase = "Paused" /\ checkpoint.phase = "Paused"
        BY <2>1, <3>1, <4>2 DEF IInv, PauseInv, Save, NotePause
      <4>3. CASE mem.phase = "Paused" /\ checkpoint.phase \notin {"Paused", "Warmup"}
        <5>1. pausedAt' = seen.at /\ seen.at <= mem.pause
          BY <3>1, <4>3 DEF IInv, PauseInv, Save, NotePause
        <5>2. mem.pause < seen.at
          BY <2>1, <3>1, <4>3, <5>1
        <5>3. mem.pause \in Nat /\ seen.at \in Nat
          BY DEF IInv, TypeOK, Strategy
        <5> QED BY <5>1, <5>2, <5>3
      <4> QED BY <2>1, <3>1, <4>1, <4>2, <4>3
    <3>3. NeverEntered
      BY <3>2 DEF IInv, FirstInv
    <3> QED BY <1>1, <3>1, <3>3 DEF NeverEntered, Save
  <2>2. pc' \notin Deciding
    BY DEF Save
  <2> QED BY <2>1, <2>2 DEF FirstInv
<1> QED BY <1>3, <1>4, <1>5, <1>6, <1>7, <1>8, <1>9, <1>10, <1>11, <1>12 DEF IInv

\* The end of a cycle saves what it found, with the history of its positions.
LEMMA CloseState ==
  ASSUME IInv, Close
  PROVE  /\ mem' \in Strategy
         /\ mem'.phase = mem.phase /\ mem'.pause = mem.pause
         /\ mem'.hour = mem.hour /\ mem'.healthy = mem.healthy
         /\ mem'.history = IF Deployed = {} THEN mem.history ELSE "Established"
  BY ObserveKeeps DEF IInv, TypeOK, Close

\* The end of a cycle without a workflow, or after one.
LEMMA CloseKeeps == ASSUME IInv, Close PROVE IInv'
<1>1. Deployed' = Deployed
  BY SameLayers DEF Close
<1>2. /\ mem' \in Strategy
      /\ mem'.phase = mem.phase /\ mem'.pause = mem.pause
      /\ mem'.hour = mem.hour /\ mem'.healthy = mem.healthy
      /\ mem'.history = IF Deployed = {} THEN mem.history ELSE "Established"
  BY CloseState
<1>3. checkpoint = mem
  BY DEF IInv, SavedInv, Close
<1>4. TypeOK'
  BY <1>2, <1>3, Numbers DEF IInv, TypeOK, Steps, Decisions, Intents, Close, NoDecision
<1>5. SavedInv'
  BY <1>2, <1>3 DEF IInv, SavedInv, Close, NoDecision
<1>6. LoadedInv'
  BY <1>2, <1>3 DEF IInv, LoadedInv, Close, NoDecision
<1>7. WorkflowInv'
  BY <1>2, <1>3 DEF IInv, WorkflowInv, Close, NoDecision
<1>8. LayersInv'
  BY <1>1, <1>2, <1>3 DEF IInv, LayersInv, Close, NoDecision
<1>9. DecisionInv'
  BY <1>1, <1>2, <1>3 DEF IInv, DecisionInv, Close, NoDecision
<1>10. WaiverInv'
  BY <1>2, <1>3 DEF IInv, WaiverInv, Close, NoDecision
<1>11. HistoryInv'
  BY <1>1, <1>2, <1>3 DEF IInv, HistoryInv, Close, NoDecision
<1>12. PauseInv'
  BY <1>2, <1>3 DEF IInv, PauseInv, Counted, Close, NoDecision
<1>13. FirstInv'
  BY <1>1, <1>2, <1>3 DEF IInv, FirstInv, NeverEntered, Close, NoDecision
<1> QED BY <1>4, <1>5, <1>6, <1>7, <1>8, <1>9, <1>10, <1>11, <1>12, <1>13 DEF IInv

\* The record of a workflow precedes its first transaction; a waiver is used up.
LEMMA BeginApplyKeeps == ASSUME IInv, BeginApply PROVE IInv'
<1>1. Deployed' = Deployed
  BY SameLayers DEF BeginApply
<1>2. checkpoint = mem /\ mem.phase # "Warmup"
  BY DEF IInv, SavedInv, DecisionInv, TypeOK, Decisions, Intents, BeginApply
<1>3. d.lp = "Deploy" => ~unwinding /\ Deployed \in {{}, Layers}
  BY DEF IInv, WorkflowInv, LayersInv, RestartExit, NoDecision, BeginApply
<1>4. \/ d.lp = "Deploy" /\ Deployed = {} /\ pc' = "mint" /\ todo' = Layers
      \/ d.lp = "Deploy" /\ Deployed # {} /\ pc' = "scale" /\ todo' = Deployed
      \/ d.lp = "Recenter" /\ pc' = "remove" /\ todo' = d.layers
      \/ d.lp = "ExitToQuote" /\ pc' = "remove" /\ todo' = Deployed
  <2>1. d.lp \in {"Deploy", "ExitToQuote", "Recenter"}
    BY DEF IInv, DecisionInv, BeginApply
  <2> QED BY <2>1 DEF BeginApply
<1>5. /\ credit' = IF d.waiver THEN credit - 1 ELSE credit
      /\ workflow' = TRUE /\ lpHistory' = SeenLp
  BY DEF BeginApply
<1>6. todo' \subseteq Layers /\ pc' \in Steps
  BY <1>4, DeployedAreLayers DEF IInv, TypeOK, Decisions, Steps
<1>7. TypeOK'
  BY <1>2, <1>3, <1>4, <1>5, <1>6 DEF IInv, TypeOK, Steps, BeginApply, SeenLp
<1>8. SavedInv'
  BY <1>2, <1>3, <1>4, <1>5, <1>6 DEF IInv, SavedInv, BeginApply, SeenLp
<1>9. LoadedInv'
  BY <1>2, <1>3, <1>4, <1>5, <1>6 DEF IInv, LoadedInv, BeginApply, SeenLp
<1>10. WorkflowInv'
  BY <1>2, <1>3, <1>4, <1>5, <1>6
    DEF IInv, WorkflowInv, RestartExit, NoDecision, DecisionInv, BeginApply, SeenLp
<1>11. LayersInv'
  BY <1>1, <1>2, <1>3, <1>4, <1>5, <1>6 DEF IInv, LayersInv, BeginApply, SeenLp
<1>12. DecisionInv'
  BY <1>1, <1>2, <1>3, <1>4, <1>5, <1>6 DEF IInv, DecisionInv, BeginApply, SeenLp
<1>13. WaiverInv'
  BY <1>2, <1>3, <1>4, <1>5, <1>6 DEF IInv, WaiverInv, TypeOK, BeginApply, SeenLp
<1>14. HistoryInv'
  BY <1>1, <1>2, <1>3, <1>4, <1>5, <1>6 DEF IInv, HistoryInv, BeginApply, SeenLp
<1>15. PauseInv'
  BY <1>2, <1>3, <1>4, <1>5, <1>6 DEF IInv, PauseInv, Counted, BeginApply, SeenLp
<1>16. FirstInv'
  BY <1>1, <1>2, <1>3, <1>4, <1>5, <1>6 DEF IInv, FirstInv, NeverEntered, BeginApply, SeenLp
<1> QED BY <1>7, <1>8, <1>9, <1>10, <1>11, <1>12, <1>13, <1>14, <1>15, <1>16 DEF IInv

\* One layer less.
LEMMA RemoveKeeps == ASSUME IInv, Remove PROVE IInv'
<1>a. PICK l \in todo : lp' = [lp EXCEPT ![l] = 0] /\ todo' = todo \ {l}
  BY DEF Remove
<1>b. lp' \in [Layers -> 0..Full] /\ Deployed' = Deployed \ {l} /\ l \in Layers
  <2>1. l \in Layers /\ 0 \in 0..Full /\ lp \in [Layers -> 0..Full]
    BY <1>a, Numbers DEF IInv, TypeOK
  <2> QED BY <1>a, <2>1, OneLayer
<1>1. checkpoint = mem /\ workflow /\ mem.phase # "Warmup"
  BY DEF IInv, SavedInv, WorkflowInv, DecisionInv, Remove
<1>2. TypeOK'
  BY <1>1, <1>a, <1>b DEF IInv, TypeOK, Steps, Remove
<1>3. SavedInv'
  BY <1>1, <1>a, <1>b DEF IInv, SavedInv, Remove
<1>4. LoadedInv'
  BY <1>1, <1>a, <1>b DEF IInv, LoadedInv, Remove
<1>5. WorkflowInv'
  BY <1>1, <1>a, <1>b DEF IInv, WorkflowInv, Remove
<1>6. LayersInv'
  BY <1>1, <1>a, <1>b DEF IInv, LayersInv, Remove
<1>7. DecisionInv'
  BY <1>1, <1>a, <1>b DEF IInv, DecisionInv, Remove
<1>8. WaiverInv'
  BY <1>1, <1>a, <1>b DEF IInv, WaiverInv, Remove
<1>9. HistoryInv'
  BY <1>1, <1>a, <1>b DEF IInv, HistoryInv, DecisionInv, WorkflowInv, Remove
<1>10. PauseInv'
  BY <1>1, <1>a, <1>b DEF IInv, PauseInv, Counted, Remove
<1>11. FirstInv'
  BY <1>1, <1>a, <1>b DEF IInv, FirstInv, NeverEntered, DecisionInv, WorkflowInv, Remove
<1> QED BY <1>2, <1>3, <1>4, <1>5, <1>6, <1>7, <1>8, <1>9, <1>10, <1>11 DEF IInv

\* All layers of the workflow are removed.
LEMMA RemovedKeeps == ASSUME IInv, Removed PROVE IInv'
<1>1. Deployed' = Deployed
  BY SameLayers DEF Removed
<1>2. TypeOK'
  BY DEF IInv, TypeOK, Steps, Decisions, Removed
<1>3. SavedInv'
  BY DEF IInv, SavedInv, Removed
<1>4. LoadedInv'
  BY DEF IInv, LoadedInv, Removed
<1>5. WorkflowInv'
  BY DEF IInv, WorkflowInv, DecisionInv, RestartExit, NoDecision, Removed
<1>6. LayersInv'
  BY <1>1 DEF IInv, LayersInv, WorkflowInv, SavedInv, DecisionInv, Removed
<1>7. DecisionInv'
  BY <1>1 DEF IInv, DecisionInv, WorkflowInv, TypeOK, Removed
<1>8. WaiverInv'
  BY DEF IInv, WaiverInv, Removed
<1>9. HistoryInv'
  BY <1>1 DEF IInv, HistoryInv, Removed
<1>10. PauseInv'
  BY DEF IInv, PauseInv, Counted, Removed
<1>11. FirstInv'
  BY <1>1 DEF IInv, FirstInv, NeverEntered, Removed
<1> QED BY <1>2, <1>3, <1>4, <1>5, <1>6, <1>7, <1>8, <1>9, <1>10, <1>11 DEF IInv

\* An exit ends without base, and with no more short than is too small to close.
LEMMA SellKeeps == ASSUME IInv, Sell PROVE IInv'
<1>1. Deployed' = Deployed
  BY SameLayers DEF Sell
<1>2. TypeOK'
  BY DEF IInv, TypeOK, Steps, Sell
<1>3. SavedInv'
  BY DEF IInv, SavedInv, Sell
<1>4. LoadedInv'
  BY DEF IInv, LoadedInv, Sell
<1>5. WorkflowInv'
  BY DEF IInv, WorkflowInv, Sell
<1>6. LayersInv'
  BY <1>1 DEF IInv, LayersInv, WorkflowInv, SavedInv, DecisionInv, Sell
<1>7. DecisionInv'
  BY <1>1 DEF IInv, DecisionInv, Sell
<1>8. WaiverInv'
  BY DEF IInv, WaiverInv, Sell
<1>9. HistoryInv'
  BY <1>1 DEF IInv, HistoryInv, Sell
<1>10. PauseInv'
  BY DEF IInv, PauseInv, Counted, Sell
<1>11. FirstInv'
  BY <1>1 DEF IInv, FirstInv, NeverEntered, Sell
<1> QED BY <1>2, <1>3, <1>4, <1>5, <1>6, <1>7, <1>8, <1>9, <1>10, <1>11 DEF IInv

\* The inventory of a layer is bought and recorded.
LEMMA BuyKeeps == ASSUME IInv, Buy PROVE IInv'
<1>1. Deployed' = Deployed
  BY SameLayers DEF Buy
<1>2. TypeOK'
  BY DEF IInv, TypeOK, Steps, Buy, SeenLp
<1>3. SavedInv'
  BY DEF IInv, SavedInv, Buy, SeenLp
<1>4. LoadedInv'
  BY DEF IInv, LoadedInv, Buy, SeenLp
<1>5. WorkflowInv'
  BY DEF IInv, WorkflowInv, Buy, SeenLp
<1>6. LayersInv'
  BY <1>1 DEF IInv, LayersInv, WorkflowInv, SavedInv, DecisionInv, Buy, SeenLp
<1>7. DecisionInv'
  BY <1>1 DEF IInv, DecisionInv, Buy, SeenLp
<1>8. WaiverInv'
  BY DEF IInv, WaiverInv, Buy, SeenLp
<1>9. HistoryInv'
  BY <1>1 DEF IInv, HistoryInv, Buy, SeenLp
<1>10. PauseInv'
  BY DEF IInv, PauseInv, Counted, Buy, SeenLp
<1>11. FirstInv'
  BY <1>1 DEF IInv, FirstInv, NeverEntered, Buy, SeenLp
<1> QED BY <1>2, <1>3, <1>4, <1>5, <1>6, <1>7, <1>8, <1>9, <1>10, <1>11 DEF IInv

\* One layer more, and the last one completes them.
LEMMA MintKeeps == ASSUME IInv, Mint PROVE IInv'
<1>a. PICK l \in todo : lp' = [lp EXCEPT ![l] = MintSize] /\ todo' = todo \ {l}
  BY DEF Mint
<1>b. /\ lp' \in [Layers -> 0..Full] /\ Deployed' = Deployed \cup {l}
      /\ l \in Layers /\ Deployed \subseteq Layers
  <2>1. l \in Layers /\ lp \in [Layers -> 0..Full] /\ d \in Decisions
    BY <1>a DEF IInv, TypeOK
  <2>2. d.lp = "Deploy" => d.fraction > 0
    BY DEF IInv, DecisionInv, Mint
  <2>3. MintSize \in 0..Full /\ MintSize > 0
    BY <2>1, <2>2, PhaseAssumption DEF MintSize, Decisions
  <2> HIDE DEF MintSize
  <2> QED BY <1>a, <2>1, <2>3, OneLayer, DeployedAreLayers
<1>1. checkpoint = mem /\ workflow /\ mem.phase # "Warmup" /\ ~unwinding
  BY DEF IInv, SavedInv, WorkflowInv, DecisionInv, Mint
<1>2. pc' = IF todo' = {} THEN "protect" ELSE "mint"
  BY DEF Mint
<1>3. TypeOK'
  BY <1>1, <1>2, <1>a, <1>b DEF IInv, TypeOK, Steps, Mint
<1>4. SavedInv'
  BY <1>1, <1>2, <1>a, <1>b DEF IInv, SavedInv, Mint
<1>5. LoadedInv'
  BY <1>1, <1>2, <1>a, <1>b DEF IInv, LoadedInv, Mint
<1>6. WorkflowInv'
  BY <1>1, <1>2, <1>a, <1>b DEF IInv, WorkflowInv, Mint
<1>7. LayersInv'
  BY <1>1, <1>2, <1>a, <1>b DEF IInv, LayersInv, Mint
<1>8. DecisionInv'
  BY <1>1, <1>2, <1>a, <1>b DEF IInv, DecisionInv, Mint
<1>9. WaiverInv'
  BY <1>1, <1>2, <1>a, <1>b DEF IInv, WaiverInv, Mint
<1>10. HistoryInv'
  BY <1>1, <1>2, <1>a, <1>b DEF IInv, HistoryInv, Mint
<1>11. PauseInv'
  BY <1>1, <1>2, <1>a, <1>b DEF IInv, PauseInv, Counted, Mint
<1>12. FirstInv'
  BY <1>1, <1>2, <1>a, <1>b DEF IInv, FirstInv, NeverEntered, DecisionInv, Mint
<1> QED BY <1>3, <1>4, <1>5, <1>6, <1>7, <1>8, <1>9, <1>10, <1>11, <1>12 DEF IInv

\* A layer that is held grows.
LEMMA ScaleKeeps == ASSUME IInv, Scale PROVE IInv'
<1>a. PICK l \in todo : lp' = [lp EXCEPT ![l] = ScaledSize(l)] /\ todo' = todo \ {l}
  BY DEF Scale
<1>b. /\ lp' \in [Layers -> 0..Full] /\ Deployed' = Deployed \cup {l}
      /\ l \in Layers /\ Deployed = Layers
  <2>1. l \in Layers /\ lp \in [Layers -> 0..Full] /\ d \in Decisions
    BY <1>a DEF IInv, TypeOK
  <2>2. d.fraction > 0 /\ Deployed = Layers
    BY DEF IInv, DecisionInv, Scale
  <2>3. ScaledSize(l) \in 0..Full /\ ScaledSize(l) > 0
    <3>1. lp[l] \in 0..Full /\ d.fraction \in 0..Full
      BY <2>1 DEF Decisions
    <3> QED BY <2>2, <3>1, PhaseAssumption DEF ScaledSize
  <2> DEFINE size == ScaledSize(l)
  <2>4. size \in 0..Full /\ size > 0 /\ lp' = [lp EXCEPT ![l] = size]
    BY <1>a, <2>3
  <2> HIDE DEF size
  <2> QED BY <2>1, <2>2, <2>4, OneLayer
<1>1. checkpoint = mem /\ workflow /\ mem.phase # "Warmup" /\ ~unwinding
  BY DEF IInv, SavedInv, WorkflowInv, DecisionInv, Scale
<1>2. pc' = IF todo' = {} THEN "protect" ELSE "scale"
  BY DEF Scale
<1>3. TypeOK'
  BY <1>1, <1>2, <1>a, <1>b DEF IInv, TypeOK, Steps, Scale
<1>4. SavedInv'
  BY <1>1, <1>2, <1>a, <1>b DEF IInv, SavedInv, Scale
<1>5. LoadedInv'
  BY <1>1, <1>2, <1>a, <1>b DEF IInv, LoadedInv, Scale
<1>6. WorkflowInv'
  BY <1>1, <1>2, <1>a, <1>b DEF IInv, WorkflowInv, Scale
<1>7. LayersInv'
  BY <1>1, <1>2, <1>a, <1>b DEF IInv, LayersInv, Scale
<1>8. DecisionInv'
  BY <1>1, <1>2, <1>a, <1>b DEF IInv, DecisionInv, Scale
<1>9. WaiverInv'
  BY <1>1, <1>2, <1>a, <1>b DEF IInv, WaiverInv, Scale
<1>10. HistoryInv'
  BY <1>1, <1>2, <1>a, <1>b DEF IInv, HistoryInv, Scale
<1>11. PauseInv'
  BY <1>1, <1>2, <1>a, <1>b DEF IInv, PauseInv, Counted, Scale
<1>12. FirstInv'
  BY <1>1, <1>2, <1>a, <1>b DEF IInv, FirstInv, NeverEntered, DecisionInv, Scale
<1> QED BY <1>3, <1>4, <1>5, <1>6, <1>7, <1>8, <1>9, <1>10, <1>11, <1>12 DEF IInv

\* The positions are recorded once more.
LEMMA ProtectKeeps == ASSUME IInv, Protect PROVE IInv'
<1>1. Deployed' = Deployed
  BY SameLayers DEF Protect
<1>2. TypeOK'
  BY DEF IInv, TypeOK, Steps, Protect, SeenLp
<1>3. SavedInv'
  BY DEF IInv, SavedInv, Protect, SeenLp
<1>4. LoadedInv'
  BY DEF IInv, LoadedInv, Protect, SeenLp
<1>5. WorkflowInv'
  BY DEF IInv, WorkflowInv, Protect, SeenLp
<1>6. LayersInv'
  BY <1>1 DEF IInv, LayersInv, WorkflowInv, SavedInv, DecisionInv, Protect, SeenLp
<1>7. DecisionInv'
  BY <1>1 DEF IInv, DecisionInv, Protect, SeenLp
<1>8. WaiverInv'
  BY DEF IInv, WaiverInv, Protect, SeenLp
<1>9. HistoryInv'
  BY <1>1 DEF IInv, HistoryInv, Protect, SeenLp
<1>10. PauseInv'
  BY DEF IInv, PauseInv, Counted, Protect, SeenLp
<1>11. FirstInv'
  BY <1>1 DEF IInv, FirstInv, NeverEntered, Protect, SeenLp
<1> QED BY <1>2, <1>3, <1>4, <1>5, <1>6, <1>7, <1>8, <1>9, <1>10, <1>11 DEF IInv

\* The record goes when the layers are all there, or none is.
LEMMA ClearWorkflowKeeps == ASSUME IInv, ClearWorkflow PROVE IInv'
<1>1. Deployed' = Deployed
  BY SameLayers DEF ClearWorkflow
<1>2. checkpoint = mem /\ mem.phase # "Warmup" /\ flying = Null
  BY DEF IInv, SavedInv, WorkflowInv, DecisionInv, TypeOK, ClearWorkflow
<1>3. d.lp = "ExitToQuote" => Deployed = {}
  BY DEF IInv, DecisionInv, ClearWorkflow
<1>4. d.lp # "ExitToQuote" => Deployed = Layers /\ Layers # {}
  BY DEF IInv, DecisionInv, ClearWorkflow
<1>5. unwinding => d.lp = "ExitToQuote"
  BY DEF IInv, WorkflowInv, RestartExit, NoDecision
<1>6. mem.phase \in InMarket /\ ~unwinding => d.lp # "ExitToQuote"
  BY DEF IInv, DecisionInv, ClearWorkflow
<1>7. TypeOK'
  BY <1>2, <1>3, <1>4, <1>5, <1>6 DEF IInv, TypeOK, Steps, ClearWorkflow
<1>8. SavedInv'
  BY <1>2, <1>3, <1>4, <1>5, <1>6 DEF IInv, SavedInv, ClearWorkflow
<1>9. LoadedInv'
  BY <1>2, <1>3, <1>4, <1>5, <1>6 DEF IInv, LoadedInv, ClearWorkflow
<1>10. WorkflowInv'
  BY <1>2, <1>3, <1>4, <1>5, <1>6 DEF IInv, WorkflowInv, ClearWorkflow
<1>11. LayersInv'
  BY <1>1, <1>2, <1>3, <1>4, <1>5, <1>6 DEF IInv, LayersInv, ClearWorkflow
<1>12. DecisionInv'
  BY <1>1, <1>2, <1>3, <1>4, <1>5, <1>6 DEF IInv, DecisionInv, ClearWorkflow
<1>13. WaiverInv'
  BY <1>2, <1>3, <1>4, <1>5, <1>6 DEF IInv, WaiverInv, ClearWorkflow
<1>14. HistoryInv'
  BY <1>1, <1>2, <1>3, <1>4, <1>5, <1>6 DEF IInv, HistoryInv, ClearWorkflow
<1>15. PauseInv'
  BY <1>2, <1>3, <1>4, <1>5, <1>6 DEF IInv, PauseInv, Counted, ClearWorkflow
<1>16. FirstInv'
  BY <1>1, <1>2, <1>3, <1>4, <1>5, <1>6 DEF IInv, FirstInv, NeverEntered, ClearWorkflow
<1> QED BY <1>7, <1>8, <1>9, <1>10, <1>11, <1>12, <1>13, <1>14, <1>15, <1>16 DEF IInv

\* The process dies: only the files, the chain and what was sent remain.
LEMMA CrashKeeps == ASSUME IInv, Crash PROVE IInv'
<1>1. Deployed' = Deployed
  BY SameLayers DEF Crash
<1>2. flying' = Null \/ (workflow /\ flying' \in [layer : Layers, size : 0..Full])
  <2>1. CASE flying # Null
    BY <2>1 DEF IInv, TypeOK, WorkflowInv, Crash
  <2>2. CASE flying = Null
    <3>1. flying' \in Unsettled
      BY <2>2 DEF Crash
    <3>2. todo \subseteq Layers /\ d \in Decisions /\ lp \in [Layers -> 0..Full]
      BY DEF IInv, TypeOK
    <3>3. pc \in {"bought", "remove", "scale"} => workflow
      BY DEF IInv, WorkflowInv
    <3>4. CASE pc = "bought"
      <4>1. MintSize \in 0..Full
        BY <3>2, Numbers DEF MintSize, Decisions
      <4>2. flying' \in {Null} \cup [layer : todo, size : {MintSize}]
        BY <3>1, <3>4 DEF Unsettled
      <4> QED BY <3>2, <3>3, <3>4, <4>1, <4>2
    <3>5. CASE pc = "remove"
      <4>1. flying' \in {Null} \cup [layer : todo, size : {0}]
        BY <3>1, <3>5 DEF Unsettled
      <4> QED BY <3>2, <3>3, <3>5, <4>1, Numbers
    <3>6. CASE pc = "scale"
      <4>1. flying' \in {Null} \cup {[layer |-> l, size |-> ScaledSize(l)] : l \in todo}
        BY <3>1, <3>6 DEF Unsettled
      <4>2. \A l \in todo : ScaledSize(l) \in 0..Full
        BY <3>2 DEF ScaledSize, Decisions
      <4> QED BY <3>2, <3>3, <3>6, <4>1, <4>2
    <3>7. CASE pc \notin {"bought", "remove", "scale"}
      BY <3>1, <3>7 DEF Unsettled
    <3> QED BY <3>4, <3>5, <3>6, <3>7
  <2> QED BY <2>1, <2>2
<1>3. checkpoint.phase = "Warmup" => ~workflow
  BY DEF IInv, LayersInv
<1>4. unwinding' \in BOOLEAN /\ todo' \in SUBSET Layers /\ fetched' \in Nat
  BY DEF Restart, Crash
<1>5. TypeOK'
  BY <1>2, <1>3, <1>4, NewTypes DEF IInv, TypeOK, Steps, Crash, Restart
<1>6. SavedInv'
  BY <1>2, <1>3, <1>4 DEF IInv, SavedInv, Crash, Restart
<1>7. LoadedInv'
  BY <1>2, <1>3, <1>4 DEF IInv, LoadedInv, Crash, Restart
<1>8. WorkflowInv'
  BY <1>2, <1>3, <1>4 DEF IInv, WorkflowInv, Crash, Restart
<1>9. LayersInv'
  BY <1>1, <1>2, <1>3, <1>4 DEF IInv, LayersInv, Crash, Restart
<1>10. DecisionInv'
  BY <1>1, <1>2, <1>3, <1>4 DEF IInv, DecisionInv, Crash, Restart
<1>11. WaiverInv'
  BY <1>2, <1>3, <1>4 DEF IInv, WaiverInv, Crash, Restart
<1>12. HistoryInv'
  BY <1>1, <1>2, <1>3, <1>4 DEF IInv, HistoryInv, Crash, Restart
<1>13. PauseInv'
  BY <1>2, <1>3, <1>4 DEF IInv, PauseInv, Counted, Crash, Restart
<1>14. FirstInv'
  <2>1. ASSUME checkpoint.phase \in {"Warmup", "Paused"}, NeverEntered
        PROVE  NeverEntered'
    <3>1. pc \notin {"bought", "scale"}
      BY <2>1 DEF IInv, SavedInv, DecisionInv
    <3>2. pc = "remove" => todo = {}
      BY <2>1 DEF IInv, SavedInv, DecisionInv, NeverEntered
    <3>3. flying' = Null
      BY <2>1, <3>1, <3>2 DEF NeverEntered, Crash, Unsettled
    <3> QED BY <1>1, <2>1, <3>3 DEF NeverEntered, Crash, Restart
  <2> QED BY <2>1 DEF IInv, FirstInv, Crash, Restart
<1> QED BY <1>5, <1>6, <1>7, <1>8, <1>9, <1>10, <1>11, <1>12, <1>13, <1>14 DEF IInv

\* A read that fails ends the process too.
LEMMA ReadFailsKeeps == ASSUME IInv, ReadFails PROVE IInv'
<1>1. Deployed' = Deployed
  BY SameLayers DEF ReadFails
<1>2. unwinding' \in BOOLEAN /\ todo' \in SUBSET Layers /\ fetched' \in Nat
  BY DEF Restart, ReadFails
<1>3. TypeOK'
  BY <1>2, NewTypes DEF IInv, TypeOK, Steps, ReadFails, Restart
<1>4. SavedInv'
  BY <1>2 DEF IInv, SavedInv, ReadFails, Restart
<1>5. LoadedInv'
  BY <1>2 DEF IInv, LoadedInv, ReadFails, Restart
<1>6. WorkflowInv'
  BY <1>2 DEF IInv, WorkflowInv, ReadFails, Restart
<1>7. LayersInv'
  BY <1>1, <1>2 DEF IInv, LayersInv, ReadFails, Restart
<1>8. DecisionInv'
  BY <1>1, <1>2 DEF IInv, DecisionInv, ReadFails, Restart
<1>9. WaiverInv'
  BY <1>2 DEF IInv, WaiverInv, ReadFails, Restart
<1>10. HistoryInv'
  BY <1>1, <1>2 DEF IInv, HistoryInv, ReadFails, Restart
<1>11. PauseInv'
  BY <1>2 DEF IInv, PauseInv, Counted, ReadFails, Restart
<1>12. FirstInv'
  BY <1>1, <1>2 DEF IInv, FirstInv, NeverEntered, ReadFails, Restart
<1> QED BY <1>3, <1>4, <1>5, <1>6, <1>7, <1>8, <1>9, <1>10, <1>11, <1>12 DEF IInv

\* The operator grants a waiver to a flat, paused strategy without a workflow.
LEMMA ArmKeeps == ASSUME IInv, Arm PROVE IInv'
<1>1. Deployed' = Deployed
  BY SameLayers DEF Arm
<1>2. TypeOK'
  BY DEF IInv, TypeOK, Steps, Permits, Arm, SeenLp, Flat
<1>3. SavedInv'
  BY DEF IInv, SavedInv, Arm, SeenLp, Flat
<1>4. LoadedInv'
  BY DEF IInv, LoadedInv, Arm, SeenLp, Flat
<1>5. WorkflowInv'
  BY DEF IInv, WorkflowInv, Arm, SeenLp, Flat
<1>6. LayersInv'
  BY <1>1 DEF IInv, LayersInv, Arm, SeenLp, Flat
<1>7. DecisionInv'
  BY <1>1 DEF IInv, DecisionInv, Arm, SeenLp, Flat
<1>8. WaiverInv'
  BY DEF IInv, WaiverInv, Arm, SeenLp, Flat
<1>9. HistoryInv'
  BY <1>1 DEF IInv, HistoryInv, Arm, SeenLp, Flat
<1>10. PauseInv'
  BY DEF IInv, PauseInv, Counted, Arm, SeenLp, Flat
<1>11. FirstInv'
  BY <1>1 DEF IInv, FirstInv, NeverEntered, Arm, SeenLp, Flat
<1> QED BY <1>2, <1>3, <1>4, <1>5, <1>6, <1>7, <1>8, <1>9, <1>10, <1>11 DEF IInv

\* Time passes: no count reaches into the future.
LEMMA TickKeeps == ASSUME IInv, Tick PROVE IInv'
<1>1. Deployed' = Deployed
  BY SameLayers DEF Tick
<1>2. Hour(now) \in Nat /\ Hour(now + 1) \in Nat /\ Hour(now) <= Hour(now + 1)
  BY HourOf, HourGrows DEF IInv, TypeOK
<1>3. now \in Nat /\ now' = now + 1 /\ checkpoint.hour \in Nat
  BY DEF IInv, TypeOK, Strategy, Tick
<1>4. Counted(checkpoint, run)'
  BY <1>2, <1>3 DEF IInv, PauseInv, Counted, Tick
<1>5. TypeOK'
  BY <1>2, <1>3, <1>4 DEF IInv, TypeOK, Steps, Tick
<1>6. SavedInv'
  BY <1>2, <1>3, <1>4 DEF IInv, SavedInv, Tick
<1>7. LoadedInv'
  BY <1>2, <1>3, <1>4 DEF IInv, LoadedInv, Tick
<1>8. WorkflowInv'
  BY <1>2, <1>3, <1>4 DEF IInv, WorkflowInv, Tick
<1>9. LayersInv'
  BY <1>1, <1>2, <1>3, <1>4 DEF IInv, LayersInv, Tick
<1>10. DecisionInv'
  BY <1>1, <1>2, <1>3, <1>4 DEF IInv, DecisionInv, Tick
<1>11. WaiverInv'
  BY <1>2, <1>3, <1>4 DEF IInv, WaiverInv, Tick
<1>12. HistoryInv'
  BY <1>1, <1>2, <1>3, <1>4 DEF IInv, HistoryInv, Tick
<1>13. PauseInv'
  BY <1>2, <1>3, <1>4 DEF IInv, PauseInv, Counted, TypeOK, Tick
<1>14. FirstInv'
  BY <1>1, <1>2, <1>3, <1>4 DEF IInv, FirstInv, NeverEntered, Tick
<1> QED BY <1>5, <1>6, <1>7, <1>8, <1>9, <1>10, <1>11, <1>12, <1>13, <1>14 DEF IInv

\* Nothing happens.
LEMMA StutterKeeps == ASSUME IInv, UNCHANGED vars PROVE IInv'
<1>1. Deployed' = Deployed
  BY SameLayers DEF vars
<1>2. TypeOK'
  BY DEF IInv, TypeOK, Steps, vars
<1>3. SavedInv'
  BY DEF IInv, SavedInv, vars
<1>4. LoadedInv'
  BY DEF IInv, LoadedInv, vars
<1>5. WorkflowInv'
  BY DEF IInv, WorkflowInv, vars
<1>6. LayersInv'
  BY <1>1 DEF IInv, LayersInv, vars
<1>7. DecisionInv'
  BY <1>1 DEF IInv, DecisionInv, vars
<1>8. WaiverInv'
  BY DEF IInv, WaiverInv, vars
<1>9. HistoryInv'
  BY <1>1 DEF IInv, HistoryInv, vars
<1>10. PauseInv'
  BY DEF IInv, PauseInv, Counted, vars
<1>11. FirstInv'
  BY <1>1 DEF IInv, FirstInv, NeverEntered, vars
<1> QED BY <1>2, <1>3, <1>4, <1>5, <1>6, <1>7, <1>8, <1>9, <1>10, <1>11 DEF IInv

-----------------------------------------------------------------------------
(* The theorems. *)

\* A new state directory, or one of an old release, satisfies the invariant.
LEMMA InitInvariant == ASSUME Init PROVE IInv
<1>1. Deployed = {}
  BY PhaseAssumption DEF Init, Deployed
<1>2. /\ checkpoint \in Strategy /\ checkpoint.healthy = 0 /\ checkpoint.hour = 0
      /\ checkpoint.history # "Established" /\ checkpoint.phase \in {"Warmup", "Paused"}
      /\ checkpoint.phase = "Paused" => checkpoint.pause = HourTicks
      /\ checkpoint.phase = "Warmup" => checkpoint.history = "Initial"
  <2>1. CASE checkpoint = NewStrategy
    <3>1. /\ NewStrategy.healthy = 0 /\ NewStrategy.hour = 0
          /\ NewStrategy.history = "Initial" /\ NewStrategy.phase = "Warmup"
      BY DEF NewStrategy
    <3> QED BY <2>1, <3>1, NewTypes
  <2>2. CASE checkpoint = LegacyPaused
    <3>1. LegacyPaused \in Strategy
      BY NewTypes, PhaseAssumption DEF LegacyPaused, Strategy, Histories, Phases
    <3>2. /\ LegacyPaused.healthy = 0 /\ LegacyPaused.hour = 0
          /\ LegacyPaused.history = "LegacyUnknown" /\ LegacyPaused.phase = "Paused"
          /\ LegacyPaused.pause = HourTicks
      BY DEF LegacyPaused, NewStrategy
    <3> QED BY <2>2, <3>1, <3>2
  <2> QED BY <2>1, <2>2 DEF Init
<1>3. TypeOK
  <2>1. lp \in [Layers -> 0..Full] /\ todo \in SUBSET Layers
    BY Numbers DEF Init
  <2>2. lpHistory \in BOOLEAN /\ workflow \in BOOLEAN /\ flat \in BOOLEAN
    BY DEF Init
  <2>3. unwinding \in BOOLEAN /\ opened \in BOOLEAN
    BY DEF Init
  <2>4. mem \in Strategy /\ d \in Decisions /\ seen \in [at : Nat, run : SUBSET Nat]
    BY NewTypes DEF Init
  <2>5. /\ now \in Nat /\ crashes \in Nat /\ reads \in Nat /\ fetched \in Nat
        /\ credit \in Int /\ run \in SUBSET Nat /\ pausedAt \in Nat
    BY PhaseAssumption DEF Init
  <2> QED BY <1>2, <2>1, <2>2, <2>3, <2>4, <2>5 DEF Init, TypeOK, Steps, Permits
<1>4. Counted(checkpoint, run)
  BY <1>2, HourOf, PhaseAssumption DEF Init, Counted
<1>5. SavedInv /\ LoadedInv /\ WorkflowInv
  BY DEF Init, SavedInv, LoadedInv, WorkflowInv
<1>6. LayersInv /\ DecisionInv
  BY <1>1 DEF Init, LayersInv, DecisionInv
<1>7. WaiverInv /\ HistoryInv
  BY <1>1, <1>2 DEF Init, WaiverInv, HistoryInv
<1>8. PauseInv
  BY <1>2, <1>4, PhaseAssumption DEF Init, PauseInv
<1>9. FirstInv
  BY <1>1, <1>2, PhaseAssumption DEF Init, FirstInv, NeverEntered
<1> QED BY <1>3, <1>5, <1>6, <1>7, <1>8, <1>9 DEF IInv

\* Every step of a life, a fault, the operator or the clock keeps it.
LEMMA StepInvariant == ASSUME IInv, [Next]_vars PROVE IInv'
<1>1. CASE Process
  BY <1>1, LoadKeeps, ReconcileKeeps, SaveReconciledKeeps, RecoverWorkflowKeeps,
     FinishRecoveryKeeps, ReadyKeeps, FetchKeeps, AssessKeeps, ConsumeKeeps,
     SaveKeeps, CloseKeeps, BeginApplyKeeps, RemoveKeeps, RemovedKeeps, SellKeeps,
     BuyKeeps, MintKeeps, ScaleKeeps, ProtectKeeps, ClearWorkflowKeeps DEF Process
<1>2. CASE Crash \/ ReadFails \/ Arm \/ Tick
  BY <1>2, CrashKeeps, ReadFailsKeeps, ArmKeeps, TickKeeps
<1>3. CASE UNCHANGED vars
  BY <1>3, StutterKeeps
<1> QED BY <1>1, <1>2, <1>3 DEF Next

\* In every state of every life the files, the memory, the layers and the decision
\* fit together (run_strategy of engine/live.rs with recovery.rs).
THEOREM EngineInductiveInvariant == Spec => []IInv
<1>1. Init => IInv
  BY InitInvariant
<1>2. IInv /\ [Next]_vars => IInv'
  BY StepInvariant
<1> QED BY <1>1, <1>2, PTL DEF Spec

\* Nothing is decided beside an unfinished workflow or an unsettled transaction, a
\* saved halt leads to no entry, and a granted waiver is used once at most.
THEOREM EngineConsistent == Spec => []Consistent
<1>1. IInv => TypeOK
  BY DEF IInv
<1>2. IInv => DecidesSettled
  BY DEF IInv, WorkflowInv, DecidesSettled
<1>3. IInv => HaltedNeverEnters
  BY DEF IInv, SavedInv, DecisionInv, HaltedNeverEnters
<1>4. IInv => WaiverUsedOnce
  BY DEF IInv, WaiverInv, WaiverUsedOnce
<1>5. IInv => Consistent
  BY <1>1, <1>2, <1>3, <1>4 DEF Consistent
<1> QED BY <1>5, EngineInductiveInvariant, PTL

\* While it decides, the strategy knows of every position it ever opened, so that
\* the rule of the first entry is not applied twice (strategy/mod.rs, observe_lp;
\* recovery.rs, restore_entry_history).
THEOREM EntryHistoryIsTrue == Spec => []EntryHistoryTrue
<1>1. IInv => EntryHistoryTrue
  BY DEF IInv, HistoryInv, EntryHistoryTrue
<1> QED BY <1>1, EngineInductiveInvariant, PTL

\* A strategy that decides in the market has all its layers: no interrupted
\* workflow is taken for a finished one (recovery.rs, pause_incomplete_inventory).
THEOREM ActiveStrategyIsDeployed == Spec => []ActiveMeansDeployed
<1>1. IInv => ActiveMeansDeployed
  BY DEF IInv, LayersInv, WorkflowInv, ActiveMeansDeployed
<1> QED BY <1>1, EngineInductiveInvariant, PTL

\* What each write of checkpoint.json does to a halt and to a pause.
LEMMA SavedPhase ==
    ASSUME IInv, [Next]_vars
    PROVE  /\ checkpoint.phase = "Halted" => checkpoint'.phase = "Halted"
           /\ checkpoint.phase = "Paused" /\ checkpoint'.phase = "Recovering" => Save
<1>1. CASE checkpoint' = checkpoint
  BY <1>1
<1>2. CASE SaveReconciled
  <2>1. mem.phase = checkpoint.phase /\ checkpoint' = mem'
    BY <1>2 DEF IInv, LoadedInv, SaveReconciled
  <2> QED BY <1>2, <2>1, SaveReconciledState
<1>3. CASE FinishRecovery
  <2>1. mem = checkpoint /\ checkpoint' = mem'
    BY <1>3 DEF IInv, SavedInv, FinishRecovery
  <2> QED BY <1>3, <2>1, FinishRecoveryState
<1>4. CASE Ready
  <2>1. mem = checkpoint /\ checkpoint' = mem'
    BY <1>4 DEF IInv, SavedInv, Ready
  <2> QED BY <1>4, <2>1, ReadyState
<1>5. CASE Close
  <2>1. mem = checkpoint /\ checkpoint' = mem'
    BY <1>5 DEF IInv, SavedInv, Close
  <2> QED BY <1>5, <2>1, CloseState
<1>6. CASE Save
  BY <1>6 DEF IInv, LoadedInv, Save
<1>7. \/ checkpoint' = checkpoint
      \/ SaveReconciled \/ FinishRecovery \/ Ready \/ Close \/ Save
  BY DEF Next, Process, vars, Load, Reconcile, RecoverWorkflow, Fetch, Assess, Consume,
         BeginApply, Remove, Removed, Sell, Buy, Mint, Scale, Protect, ClearWorkflow,
         Crash, ReadFails, Arm, Tick
<1> QED BY <1>1, <1>2, <1>3, <1>4, <1>5, <1>6, <1>7

\* A halt that was saved is final: no restart, unwinding, permit or recovered market
\* ends it (recovery.rs, finish_workflow_recovery; strategy/mod.rs, Phase::Halted).
THEOREM SavedHaltIsFinal == Spec => HaltIsFinal
<1>1. IInv /\ [Next]_vars
        => [checkpoint.phase = "Halted" => checkpoint'.phase = "Halted"]_vars
  BY SavedPhase
<1> QED BY <1>1, EngineInductiveInvariant, PTL DEF Spec, HaltIsFinal

\* A pause that ends in Recovering has lasted its cooldown since the saved phase
\* became Paused, and each of the hours it needs was found healthy when it was first
\* looked at, whatever restarts lie between (strategy/mod.rs, can_resume).
THEOREM EveryPauseIsServed == Spec => PauseServed
<1>1. ASSUME IInv, [Next]_vars,
             checkpoint.phase = "Paused", checkpoint'.phase = "Recovering"
      PROVE  /\ \E last \in {Hour(seen.at) - 1, Hour(seen.at)} :
                   \A k \in 0..(Need - 1) : last - k \in run'
             /\ seen.at - pausedAt >= Cooldown
  <2>1. Save
    BY <1>1, SavedPhase
  <2>2. /\ checkpoint' = mem /\ run' = seen.run
        /\ Counted(mem, seen.run) /\ mem.healthy = Need
        /\ mem.hour \in {Hour(seen.at) - 1, Hour(seen.at)}
        /\ seen.at - pausedAt >= Cooldown
    BY <1>1, <2>1 DEF IInv, PauseInv, Save
  <2> QED BY <2>2, PhaseAssumption DEF Counted
<1>2. IInv /\ [Next]_vars
        => [checkpoint.phase = "Paused" /\ checkpoint'.phase = "Recovering"
              => \E last \in {Hour(seen.at) - 1, Hour(seen.at)} :
                   \A k \in 0..(Need - 1) : last - k \in run']_vars
  BY <1>1
<1>3. IInv /\ [Next]_vars
        => [checkpoint.phase = "Paused" /\ checkpoint'.phase = "Recovering"
              => seen.at - pausedAt >= Cooldown]_vars
  BY <1>1
<1>4. Spec => ResumeEarned
  BY <1>2, EngineInductiveInvariant, PTL DEF Spec, ResumeEarned
<1>5. Spec => CooldownKept
  BY <1>3, EngineInductiveInvariant, PTL DEF Spec, CooldownKept
<1> QED BY <1>4, <1>5, PTL DEF PauseServed
=============================================================================
