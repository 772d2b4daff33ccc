------------------------------ MODULE EthProofs ------------------------------
(***************************************************************************)
(* The safety of the ETH strategies in the live engine, for both profiles, *)
(* every configuration, every course of the equity and every number of     *)
(* faults.  The invariant is the one of EthInvariant.  First losses and    *)
(* hours, then what one observation does to the strategy, what it decides  *)
(* and how an entry is deferred, then one lemma for each step.             *)
(***************************************************************************)
EXTENDS EthInvariant, TLAPS

USE DEF files, inventory, process, clock, ghosts, Applying, Entering

-----------------------------------------------------------------------------
(* Numbers. *)

\* The thresholds are numbers, and a whole budget lost is a halt.
LEMMA Numbers ==
    /\ Need \in Nat /\ Need > 0 /\ 0 \in 0..Need /\ Confirm \in Nat /\ 0 \in 0..Confirm
    /\ Confirm > 0 /\ Capital \in Nat /\ Capital > 0
    /\ Cooldown \in Nat /\ BarTicks \in Nat /\ BarTicks > 0 /\ HourTicks \in Nat
    /\ HourTicks > 0 /\ MaxLoss \in Nat /\ MaxLoss <= 400 /\ EpisodeLoss \in Nat
    /\ MinHolding \in Nat /\ MaxAge \in Nat
    /\ PauseLoss \in Nat /\ LossBudget \in Nat /\ LossCap \in Nat
  BY BandAssumption

\* A quotient is the largest number that fits.
LEMMA Quotient ==
    ASSUME NEW a \in Int, NEW p \in Nat, p > 0
    PROVE  a \div p \in Int /\ p * (a \div p) <= a /\ a < p * (a \div p) + p
  OBVIOUS

\* It reaches what the dividend reaches that many times.
LEMMA QuotientAtLeast ==
    ASSUME NEW a \in Int, NEW p \in Nat, p > 0, NEW m \in Int
    PROVE  a \div p >= m <=> a >= m * p
<1> DEFINE q == a \div p
<1>1. q \in Int /\ p * q <= a /\ a < p * q + p
  BY Quotient
<1> HIDE DEF q
<1>2. m * p \in Int /\ p * q \in Int
  BY <1>1
<1>3. CASE q >= m
  <2>1. p * q >= m * p
    BY <1>1, <1>3
  <2> QED BY <1>1, <1>2, <1>3, <2>1 DEF q
<1>4. CASE q < m
  <2>1. q + 1 <= m
    BY <1>1, <1>4
  <2>2. p * (q + 1) <= m * p
    BY <1>1, <2>1
  <2>3. p * (q + 1) = p * q + p
    BY <1>1
  <2> QED BY <1>1, <1>2, <1>4, <2>2, <2>3 DEF q
<1> QED BY <1>1, <1>3, <1>4

\* A loss reaches a threshold when the difference reaches that share of the peak.
LEMMA LossIs ==
    ASSUME NEW equity \in Int, NEW peak \in Nat, peak > 0, NEW m \in Int
    PROVE  /\ Loss(equity, peak) \in Int
           /\ Loss(equity, peak) >= m <=> (peak - equity) * 400 >= m * peak
<1>1. (peak - equity) * 400 \in Int
  OBVIOUS
<1> QED BY <1>1, Quotient, QuotientAtLeast DEF Loss

\* The hour of a tick,
LEMMA HourOf ==
    ASSUME NEW t \in Nat
    PROVE  Hour(t) \in Nat /\ HourTicks * Hour(t) <= t /\ t < HourTicks * Hour(t) + HourTicks
<1>1. HourTicks \in Nat /\ HourTicks > 0
  BY Numbers
<1>2. /\ t \div HourTicks \in Nat
      /\ HourTicks * (t \div HourTicks) <= t
      /\ t < HourTicks * (t \div HourTicks) + HourTicks
  BY <1>1
<1> QED BY <1>2 DEF Hour

\* The bar of a tick.
LEMMA BarOf == ASSUME NEW t \in Nat PROVE Bar(t) \in Nat
  BY Numbers DEF Bar

\* which never goes back.
LEMMA HourGrows == ASSUME NEW t \in Nat PROVE Hour(t) <= Hour(t + 1)
<1> DEFINE a == Hour(t)
           b == Hour(t + 1)
<1>1. HourTicks \in Nat /\ HourTicks > 0
  BY Numbers
<1>2. a \in Nat /\ HourTicks * a <= t
  BY HourOf
<1>3. b \in Nat /\ t + 1 < HourTicks * b + HourTicks
  BY HourOf
<1> HIDE DEF a, b
<1>4. ASSUME b + 1 <= a PROVE FALSE
  <2>1. HourTicks * (b + 1) <= HourTicks * a
    BY <1>1, <1>2, <1>3, <1>4
  <2>2. HourTicks * (b + 1) = HourTicks * b + HourTicks
    BY <1>1, <1>3
  <2> QED BY <1>1, <1>2, <1>3, <2>1, <2>2
<1>5. a <= b
  BY <1>2, <1>3, <1>4
<1> QED BY <1>5 DEF a, b


-----------------------------------------------------------------------------
(* What an observation does to the strategy. *)

\* An observation the engine can make (Frames).
Frame(f) ==
    /\ f.now \in Nat /\ f.raw \in Nat /\ f.raw > 0
    /\ f.valid \in BOOLEAN /\ f.candles \in BOOLEAN /\ f.lp \in BOOLEAN
    /\ f.market \in {"danger", "uneasy", "recovered"} /\ f.side \in -1..1

\* A state with a basis and its equity; a halt apart, the equity is positive.
Measured(o, f) ==
    /\ o.peak > 0 /\ o.peak >= Equity(o, band, f.raw)
    /\ o.phase # "Halted" => Equity(o, band, f.raw) > 0
    /\ (o.peak - Equity(o, band, f.raw)) * 400 >= MaxLoss * o.peak => o.phase = "Halted"

\* Equity counts from the first one seen.
LEMMA EquityIs ==
    ASSUME band \in BOOLEAN, NEW s \in Strategy, NEW raw \in Nat
    PROVE  /\ Equity(s, band, raw) \in Int
           /\ band => Equity(s, band, raw) = Capital + raw - s.origin
           /\ ~band => Equity(s, band, raw) = raw
           /\ Equity(s, TRUE, raw) = Capital + raw - s.origin
  BY Numbers DEF Equity, Strategy

\* The basis is set once.
LEMMA BasisKeeps ==
    ASSUME band \in BOOLEAN, NEW s \in Strategy, NEW raw \in Nat
    PROVE  LET t == Basis(s, band, raw)
           IN  /\ t \in Strategy
               /\ t.origin = IF band /\ s.origin = 0 THEN raw ELSE s.origin
               /\ t.history = s.history /\ t.phase = s.phase /\ t.pause = s.pause
               /\ t.anchored = s.anchored /\ t.deadline = s.deadline /\ t.hour = s.hour
               /\ t.healthy = s.healthy /\ t.observed = s.observed /\ t.peak = s.peak
               /\ t.entered = s.entered /\ t.episode = s.episode
  BY DEF Basis, Strategy

\* The peak only rises, and a loss at the limit halts.
LEMMA MarkedKeeps ==
    ASSUME band \in BOOLEAN, NEW s \in Strategy, NEW f, Frame(f)
    PROVE  LET t == Marked(s, band, f)
           IN  /\ t \in Strategy /\ Measured(t, f) /\ t.peak >= s.peak
               /\ t.phase \in {s.phase, "Halted"}
               /\ t.history = s.history /\ t.pause = s.pause /\ t.origin = s.origin
               /\ t.anchored = s.anchored /\ t.deadline = s.deadline /\ t.hour = s.hour
               /\ t.healthy = s.healthy /\ t.observed = s.observed
               /\ t.entered = s.entered /\ t.episode = s.episode
<1> DEFINE e == Equity(s, band, f.raw)
           peak == Larger(s.peak, Larger(e, Capital))
           phase == IF Loss(e, peak) >= MaxLoss THEN "Halted" ELSE s.phase
           t == [s EXCEPT !.peak = peak, !.phase = phase]
<1>1. e \in Int /\ s.peak \in Nat
  BY EquityIs DEF Frame, Strategy
<1>2. peak \in Nat /\ peak > 0 /\ peak >= s.peak /\ peak >= e
  BY <1>1, Numbers DEF Larger
<1>3. Marked(s, band, f) = t
  BY DEF Marked
<1> HIDE DEF e, peak
<1>4. Loss(e, peak) \in Int /\ (Loss(e, peak) >= MaxLoss <=> (peak - e) * 400 >= MaxLoss * peak)
  BY <1>1, <1>2, LossIs, Numbers
<1>5. phase \in {s.phase, "Halted"} /\ phase \in Phases
  BY DEF Strategy, Phases
<1>6. phase # "Halted" => e > 0
  <2>1. CASE e <= 0
    <3>1. (peak - e) * 400 >= 400 * peak
      BY <1>1, <1>2, <2>1
    <3>2. 400 * peak >= MaxLoss * peak
      BY <1>2, Numbers
    <3> QED BY <1>1, <1>2, <1>4, <3>1, <3>2, Numbers
  <2> QED BY <1>1, <2>1
<1>7. (peak - e) * 400 >= MaxLoss * peak => phase = "Halted"
  BY <1>4
<1> HIDE DEF phase
<1>8. /\ t \in Strategy /\ t.peak = peak /\ t.phase = phase
      /\ t.history = s.history /\ t.pause = s.pause /\ t.origin = s.origin
      /\ t.anchored = s.anchored /\ t.deadline = s.deadline /\ t.hour = s.hour
      /\ t.healthy = s.healthy /\ t.observed = s.observed
      /\ t.entered = s.entered /\ t.episode = s.episode
  BY <1>2, <1>5 DEF Strategy
<1>9. Equity(t, band, f.raw) = e
  BY <1>8 DEF Equity, e
<1>10. Measured(t, f)
  BY <1>2, <1>6, <1>7, <1>8, <1>9 DEF Measured
<1> QED BY <1>2, <1>3, <1>5, <1>8, <1>10

\* A pause that recovery.rs set is adopted: it waits for the same time, and the
\* holding clock of its position is forgotten.
LEMMA AdoptKeeps ==
    ASSUME band \in BOOLEAN, NEW s \in Strategy
    PROVE  LET t == AdoptPause(s, band)
           IN  /\ t \in Strategy /\ t.phase = s.phase /\ t.history = s.history
               /\ t.origin = s.origin /\ t.peak = s.peak /\ t.hour = s.hour
               /\ t.episode = s.episode /\ t.observed = s.observed
               /\ t.healthy \in {0, s.healthy} /\ t.entered \in {0, s.entered}
               /\ t.pause = s.pause
               /\ s.phase = "Paused" => t.anchored /\ WaitsUntil(t) = WaitsUntil(s)
<1>1. CASE s.phase = "Paused" /\ ~s.anchored
  <2> DEFINE t == [s EXCEPT !.anchored = TRUE, !.deadline = s.pause + Cooldown,
                            !.entered = IF band THEN 0 ELSE @, !.healthy = 0]
  <2>1. AdoptPause(s, band) = t
    BY <1>1 DEF AdoptPause
  <2>2. /\ t \in Strategy /\ t.phase = s.phase /\ t.history = s.history
        /\ t.origin = s.origin /\ t.peak = s.peak /\ t.hour = s.hour
        /\ t.episode = s.episode /\ t.observed = s.observed
        /\ t.healthy = 0 /\ t.entered \in {0, s.entered}
        /\ t.anchored = TRUE /\ t.deadline = s.pause + Cooldown /\ t.pause = s.pause
    <3> DEFINE entered == IF band THEN 0 ELSE s.entered
    <3>1. entered \in Nat /\ entered \in {0, s.entered}
      BY DEF Strategy
    <3>2. s.pause + Cooldown \in Nat
      BY Numbers DEF Strategy
    <3>3. t = [s EXCEPT !.anchored = TRUE, !.deadline = s.pause + Cooldown,
                        !.entered = entered, !.healthy = 0]
      BY DEF Strategy
    <3> HIDE DEF entered, t
    <3>4. /\ t.phase = s.phase /\ t.history = s.history
          /\ t.origin = s.origin /\ t.peak = s.peak /\ t.hour = s.hour
          /\ t.episode = s.episode /\ t.observed = s.observed
          /\ t.healthy = 0 /\ t.entered = entered
          /\ t.deadline = s.pause + Cooldown /\ t.pause = s.pause
      BY <3>3 DEF Strategy
    <3>5. t.anchored = TRUE
      BY <3>3 DEF Strategy
    <3>6. t \in Strategy
      BY <3>1, <3>2, <3>3, Numbers DEF Strategy
    <3> QED BY <3>1, <3>4, <3>5, <3>6
  <2> HIDE DEF t
  <2> QED BY <1>1, <2>1, <2>2 DEF WaitsUntil
<1>2. CASE ~(s.phase = "Paused" /\ ~s.anchored)
  BY <1>2 DEF AdoptPause
<1> QED BY <1>1, <1>2

\* What is left when only the breakout is forgotten or looked for.
Unmoved(t, s) ==
    /\ t \in Strategy
    /\ t.history = s.history /\ t.phase = s.phase /\ t.pause = s.pause
    /\ t.anchored = s.anchored /\ t.deadline = s.deadline /\ t.hour = s.hour
    /\ t.healthy = s.healthy /\ t.peak = s.peak /\ t.origin = s.origin
    /\ t.entered = s.entered /\ t.episode = s.episode /\ t.entryLoss = s.entryLoss

\* A cleared streak is all that is lost.
LEMMA ClearUnmoved == ASSUME NEW s \in Strategy PROVE Unmoved(ClearStreak(s), s)
<1>1. 0 \in -1..1
  OBVIOUS
<1> QED BY <1>1, Numbers DEF Unmoved, ClearStreak, Strategy

\* A gap breaks the row of healthy hours.
LEMMA GapKeeps ==
    ASSUME NEW s \in Strategy, NEW f, Frame(f)
    PROVE  LET t == NoticeGap(s, f)
           IN  /\ t \in Strategy /\ t.phase = s.phase /\ t.history = s.history
               /\ t.origin = s.origin /\ t.peak = s.peak /\ t.hour = s.hour
               /\ t.episode = s.episode /\ t.entered = s.entered /\ t.pause = s.pause
               /\ t.anchored = s.anchored /\ t.deadline = s.deadline
               /\ t.healthy = IF s.observed > 0 /\ f.now - s.observed > MaxAge
                              THEN 0 ELSE s.healthy
<1> DEFINE gap == s.observed > 0 /\ f.now - s.observed > MaxAge
           t == [s EXCEPT !.observed = f.now]
           u == [t EXCEPT !.healthy = 0]
           v == [u EXCEPT !.side = 0, !.streak = 0]
<1>1. NoticeGap(s, f) = IF gap THEN v ELSE t
  BY DEF NoticeGap, ClearStreak
<1>2. /\ t \in Strategy /\ t.phase = s.phase /\ t.history = s.history
      /\ t.origin = s.origin /\ t.peak = s.peak /\ t.hour = s.hour
      /\ t.episode = s.episode /\ t.entered = s.entered /\ t.pause = s.pause
      /\ t.anchored = s.anchored /\ t.deadline = s.deadline /\ t.healthy = s.healthy
  BY DEF Strategy, Frame
<1> HIDE DEF t
<1>3. /\ u \in Strategy /\ u.phase = t.phase /\ u.history = t.history
      /\ u.origin = t.origin /\ u.peak = t.peak /\ u.hour = t.hour
      /\ u.episode = t.episode /\ u.entered = t.entered /\ u.pause = t.pause
      /\ u.anchored = t.anchored /\ u.deadline = t.deadline /\ u.healthy = 0
  BY <1>2, Numbers DEF Strategy
<1> HIDE DEF u
<1>4. Unmoved(v, u)
  BY <1>3, ClearUnmoved DEF ClearStreak
<1> HIDE DEF v, gap
<1>5. CASE gap
  BY <1>1, <1>2, <1>3, <1>4, <1>5 DEF gap, Unmoved
<1>6. CASE ~gap
  BY <1>1, <1>2, <1>6 DEF gap
<1> QED BY <1>5, <1>6

\* An hour is counted once, after the one before it or from the start.
LEMMA CountKeeps ==
    ASSUME NEW s \in Strategy, NEW f, Frame(f), s.hour <= Hour(f.now)
    PROVE  LET t == ForgetHours(CountHour(s, f), f)
           IN  /\ t \in Strategy /\ t.phase = s.phase /\ t.history = s.history
               /\ t.origin = s.origin /\ t.peak = s.peak /\ t.hour = Hour(f.now)
               /\ t.episode = s.episode /\ t.entered = s.entered /\ t.pause = s.pause
               /\ t.anchored = s.anchored /\ t.deadline = s.deadline
               /\ \/ t.healthy = 0
                  \/ f.market # "danger" /\ Hour(f.now) = s.hour /\ t.healthy = s.healthy
                  \/ /\ f.market = "recovered" /\ Hour(f.now) > s.hour
                     /\ t.healthy = 1 \/ s.hour = 0 \/ Hour(f.now) = s.hour + 1
                     /\ t.healthy <= s.healthy + 1
<1> DEFINE close == Hour(f.now)
           before == IF s.hour > 0 /\ close - s.hour # 1 THEN 0 ELSE s.healthy
           count == IF f.market = "recovered" THEN Smaller(Need, before + 1) ELSE 0
           c == CountHour(s, f)
<1>1. close \in Nat /\ s.hour \in Nat /\ s.healthy \in 0..Need /\ Need \in Nat /\ Need > 0
  BY HourOf, Numbers DEF Frame, Strategy
<1>2. /\ before \in 0..Need
      /\ before = 0 \/ s.hour = 0 \/ close = s.hour + 1
      /\ before <= s.healthy
  BY <1>1
<1>3. c = IF close <= s.hour THEN s ELSE [s EXCEPT !.hour = close, !.healthy = count]
  BY DEF CountHour
<1> HIDE DEF close, before, c
<1>4. count \in 0..Need /\ count <= s.healthy + 1
  BY <1>1, <1>2 DEF Smaller
<1>5. f.market = "recovered" => count = 1 \/ s.hour = 0 \/ close = s.hour + 1
  BY <1>1, <1>2 DEF Smaller
<1>6. f.market # "recovered" => count = 0
  OBVIOUS
<1> HIDE DEF count
<1>7. /\ c \in Strategy /\ c.phase = s.phase /\ c.history = s.history
      /\ c.origin = s.origin /\ c.peak = s.peak /\ c.hour = close
      /\ c.episode = s.episode /\ c.entered = s.entered /\ c.pause = s.pause
      /\ c.anchored = s.anchored /\ c.deadline = s.deadline
      /\ \/ c.healthy = 0
         \/ close = s.hour /\ c.healthy = s.healthy
         \/ /\ f.market = "recovered" /\ close > s.hour
            /\ c.healthy = 1 \/ s.hour = 0 \/ close = s.hour + 1
            /\ c.healthy <= s.healthy + 1
  <2>1. CASE close <= s.hour
    <3>1. c = s /\ close = s.hour
      BY <1>1, <1>3, <2>1 DEF close
    <3> QED BY <3>1
  <2>2. CASE ~(close <= s.hour)
    <3>1. c = [s EXCEPT !.hour = close, !.healthy = count]
      BY <1>3, <2>2
    <3>2. /\ c \in Strategy /\ c.phase = s.phase /\ c.history = s.history
          /\ c.origin = s.origin /\ c.peak = s.peak /\ c.hour = close
          /\ c.episode = s.episode /\ c.entered = s.entered /\ c.pause = s.pause
          /\ c.anchored = s.anchored /\ c.deadline = s.deadline /\ c.healthy = count
      BY <1>1, <1>4, <3>1 DEF Strategy
    <3> QED BY <1>1, <1>4, <1>5, <1>6, <2>2, <3>2
  <2> QED BY <2>1, <2>2
<1>8. CASE f.market = "danger"
  <2>1. ForgetHours(c, f) = [c EXCEPT !.healthy = 0]
    BY <1>8 DEF ForgetHours
  <2>2. /\ [c EXCEPT !.healthy = 0] \in Strategy
        /\ [c EXCEPT !.healthy = 0].healthy = 0
    BY <1>7, Numbers DEF Strategy
  <2> QED BY <1>7, <2>1, <2>2 DEF Strategy, c, close
<1>9. CASE f.market # "danger"
  <2>1. ForgetHours(c, f) = c
    BY <1>9 DEF ForgetHours
  <2> QED BY <1>7, <1>9, <2>1 DEF c, close
<1> QED BY <1>8, <1>9

\* The episode's peak is the first equity of a position or has only risen, and the
\* holding clock of a position runs.
LEMMA EpisodeKeeps ==
    ASSUME band \in BOOLEAN, NEW s \in Strategy, s.peak > 0, NEW f, Frame(f)
    PROVE  LET t == Episode(s, band, f)
               e == Equity(s, band, f.raw)
           IN  /\ t \in Strategy /\ t.phase = s.phase /\ t.history = s.history
               /\ t.origin = s.origin /\ t.peak = s.peak /\ t.hour = s.hour
               /\ t.healthy = s.healthy /\ t.pause = s.pause
               /\ t.anchored = s.anchored /\ t.deadline = s.deadline
               /\ t.episode \in {e, s.episode}
               /\ band => t.episode >= e /\ (s.episode # 0 => t.episode >= s.episode)
               /\ t.entered \in {f.now, s.entered}
               /\ band /\ f.lp /\ t.entered # f.now => t.entered = s.entered /\ s.entered # 0
               /\ ~f.lp => t.entered = s.entered
<1> DEFINE e == Equity(s, band, f.raw)
           first == f.lp /\ s.entered = 0
           loss == LossNow(s, band, f)
           u == IF first /\ s.episode = 0
                THEN [s EXCEPT !.episode = e, !.entryLoss = loss] ELSE s
           t == [u EXCEPT !.entered = IF first THEN f.now ELSE @, !.episode = Larger(@, e)]
<1>1. e \in Int /\ s.peak \in Nat /\ s.episode \in Int /\ f.now \in Nat /\ s.entered \in Nat
  BY EquityIs DEF Strategy, Frame
<1>2. loss \in Int
  BY <1>1, LossIs, Numbers DEF LossNow
<1>3. Episode(s, band, f) = IF ~band THEN s ELSE t
  BY DEF Episode
<1> HIDE DEF e, loss
<1>4. /\ u \in Strategy /\ u.phase = s.phase /\ u.history = s.history
      /\ u.origin = s.origin /\ u.peak = s.peak /\ u.hour = s.hour
      /\ u.healthy = s.healthy /\ u.pause = s.pause /\ u.entered = s.entered
      /\ u.anchored = s.anchored /\ u.deadline = s.deadline
      /\ u.episode \in {e, s.episode} /\ (s.episode # 0 => u.episode = s.episode)
  BY <1>1, <1>2 DEF Strategy
<1> HIDE DEF u
<1>5. /\ Larger(u.episode, e) \in {u.episode, e} /\ Larger(u.episode, e) >= e
      /\ Larger(u.episode, e) >= u.episode /\ Larger(u.episode, e) \in Int
  BY <1>1, <1>4 DEF Larger, Strategy
<1>6. /\ t \in Strategy /\ t.phase = u.phase /\ t.history = u.history
      /\ t.origin = u.origin /\ t.peak = u.peak /\ t.hour = u.hour
      /\ t.healthy = u.healthy /\ t.pause = u.pause
      /\ t.entered = (IF first THEN f.now ELSE u.entered)
      /\ t.anchored = u.anchored /\ t.deadline = u.deadline
      /\ t.episode = Larger(u.episode, e)
  BY <1>1, <1>4, <1>5 DEF Strategy
<1> HIDE DEF t
<1>7. CASE ~band
  BY <1>3, <1>7 DEF e
<1>8. CASE band
  <2>1. Episode(s, band, f) = t
    BY <1>3, <1>8
  <2> QED BY <1>1, <1>4, <1>5, <1>6, <2>1 DEF e
<1> QED BY <1>7, <1>8

\* What the rest of a decision needs of an observation o made of the strategy s:
\* its phase is kept unless the loss halts it, the pause waits as long, the peaks
\* are no lower, and a position's clock runs.
Sees(o, s, f) ==
    /\ o \in Strategy /\ Measured(o, f) /\ o.hour = Hour(f.now)
    /\ o.phase \in {s.phase, "Halted"}
    /\ o.history = IF f.lp THEN "Established" ELSE s.history
    /\ o.origin = IF band /\ s.origin = 0 THEN f.raw ELSE s.origin
    /\ o.peak >= s.peak /\ o.pause = s.pause
    /\ o.phase = "Paused" => o.anchored /\ WaitsUntil(o) = WaitsUntil(s)
    /\ s.episode <= s.peak => o.episode <= o.peak
    /\ band => /\ o.episode >= Equity(o, band, f.raw)
               /\ s.episode # 0 => o.episode >= s.episode
    /\ o.entered \in {0, f.now, s.entered}
    /\ band /\ f.lp => o.entered = f.now \/ (o.entered = s.entered /\ s.entered # 0)

\* The healthy hours of o, with those of s before it.
Hours(o, s, f) ==
    LET before == IF s.observed > 0 /\ f.now - s.observed > MaxAge THEN 0 ELSE s.healthy
    IN  \/ o.healthy = 0
        \/ f.market # "danger" /\ Hour(f.now) = s.hour /\ o.healthy = before
        \/ /\ f.market = "recovered" /\ Hour(f.now) > s.hour
           /\ o.healthy = 1 \/ s.hour = 0 \/ Hour(f.now) = s.hour + 1
           /\ o.healthy <= before + 1

\* An observation adopts, notices, marks and counts, in that order.
LEMMA ObservedKeeps ==
    ASSUME band \in BOOLEAN, NEW s \in Strategy, NEW f, Frame(f), s.hour <= Hour(f.now)
    PROVE  LET o == Observed(s, band, f) IN Sees(o, s, f) /\ Hours(o, s, f)
<1> DEFINE b == Basis(s, band, f.raw)
           h == ObserveLp(b, f.lp)
           a == AdoptPause(h, band)
           g == NoticeGap(a, f)
           m == Marked(g, band, f)
           c == ForgetHours(CountHour(m, f), f)
           o == Episode(c, band, f)
           origin == IF band /\ s.origin = 0 THEN f.raw ELSE s.origin
           before == IF s.observed > 0 /\ f.now - s.observed > MaxAge THEN 0 ELSE s.healthy
<1>1. Observed(s, band, f) = o
  BY DEF Observed
<1>2. /\ b \in Strategy
      /\ b.origin = origin
      /\ b.history = s.history /\ b.phase = s.phase /\ b.pause = s.pause
      /\ b.anchored = s.anchored /\ b.deadline = s.deadline /\ b.hour = s.hour
      /\ b.healthy = s.healthy /\ b.observed = s.observed /\ b.peak = s.peak
      /\ b.entered = s.entered /\ b.episode = s.episode
  BY BasisKeeps DEF Frame
<1> HIDE DEF b
<1>3. /\ h \in Strategy /\ h.history = IF f.lp THEN "Established" ELSE s.history
      /\ h.phase = s.phase /\ h.pause = s.pause /\ h.origin = origin
      /\ h.anchored = s.anchored /\ h.deadline = s.deadline /\ h.hour = s.hour
      /\ h.healthy = s.healthy /\ h.observed = s.observed /\ h.peak = s.peak
      /\ h.entered = s.entered /\ h.episode = s.episode
  BY <1>2 DEF ObserveLp, Strategy, Histories
<1> HIDE DEF h
<1>4. /\ a \in Strategy /\ a.phase = h.phase /\ a.history = h.history /\ a.pause = h.pause
      /\ a.origin = h.origin /\ a.peak = h.peak /\ a.hour = h.hour
      /\ a.episode = h.episode /\ a.observed = h.observed
      /\ a.healthy \in {0, h.healthy} /\ a.entered \in {0, h.entered}
      /\ h.phase = "Paused" => a.anchored /\ WaitsUntil(a) = WaitsUntil(h)
  BY <1>3, AdoptKeeps
<1>5. WaitsUntil(h) = WaitsUntil(s)
  BY <1>3 DEF WaitsUntil
<1> HIDE DEF a
<1>6. /\ g \in Strategy /\ g.phase = a.phase /\ g.history = a.history
      /\ g.origin = a.origin /\ g.peak = a.peak /\ g.hour = a.hour
      /\ g.episode = a.episode /\ g.entered = a.entered /\ g.pause = a.pause
      /\ g.anchored = a.anchored /\ g.deadline = a.deadline
      /\ g.healthy = IF a.observed > 0 /\ f.now - a.observed > MaxAge
                     THEN 0 ELSE a.healthy
  BY <1>4, GapKeeps
<1> HIDE DEF g
<1>7. /\ m \in Strategy /\ Measured(m, f) /\ m.peak >= g.peak
      /\ m.phase \in {g.phase, "Halted"}
      /\ m.history = g.history /\ m.pause = g.pause /\ m.origin = g.origin
      /\ m.anchored = g.anchored /\ m.deadline = g.deadline /\ m.hour = g.hour
      /\ m.healthy = g.healthy /\ m.entered = g.entered /\ m.episode = g.episode
  BY <1>6, MarkedKeeps
<1> HIDE DEF m
<1>8. m.hour = s.hour
  BY <1>3, <1>4, <1>6, <1>7
<1>9. /\ c \in Strategy /\ c.phase = m.phase /\ c.history = m.history
      /\ c.origin = m.origin /\ c.peak = m.peak /\ c.hour = Hour(f.now)
      /\ c.episode = m.episode /\ c.entered = m.entered /\ c.pause = m.pause
      /\ c.anchored = m.anchored /\ c.deadline = m.deadline
      /\ \/ c.healthy = 0
         \/ f.market # "danger" /\ Hour(f.now) = m.hour /\ c.healthy = m.healthy
         \/ /\ f.market = "recovered" /\ Hour(f.now) > m.hour
            /\ c.healthy = 1 \/ m.hour = 0 \/ Hour(f.now) = m.hour + 1
            /\ c.healthy <= m.healthy + 1
  BY <1>7, <1>8, CountKeeps
<1> HIDE DEF c
<1>10. c.peak > 0
  BY <1>7, <1>9 DEF Measured
<1>11. /\ o \in Strategy /\ o.phase = c.phase /\ o.history = c.history
       /\ o.origin = c.origin /\ o.peak = c.peak /\ o.hour = c.hour
       /\ o.healthy = c.healthy /\ o.pause = c.pause
       /\ o.anchored = c.anchored /\ o.deadline = c.deadline
       /\ o.episode \in {Equity(c, band, f.raw), c.episode}
       /\ band => /\ o.episode >= Equity(c, band, f.raw)
                  /\ c.episode # 0 => o.episode >= c.episode
       /\ o.entered \in {f.now, c.entered}
       /\ band /\ f.lp /\ o.entered # f.now => o.entered = c.entered /\ c.entered # 0
       /\ ~f.lp => o.entered = c.entered
  BY <1>9, <1>10, EpisodeKeeps
<1> HIDE DEF o
<1>12. Equity(o, band, f.raw) = Equity(m, band, f.raw) /\ Equity(c, band, f.raw) = Equity(m, band, f.raw)
  BY <1>9, <1>11 DEF Equity
<1>13. Measured(o, f)
  BY <1>7, <1>9, <1>11, <1>12 DEF Measured
<1>14. o.phase \in {s.phase, "Halted"}
  BY <1>3, <1>4, <1>6, <1>7, <1>9, <1>11
<1>15. o.origin = origin /\ o.history = IF f.lp THEN "Established" ELSE s.history
  BY <1>3, <1>4, <1>6, <1>7, <1>9, <1>11
<1>16. o.peak >= s.peak
  BY <1>3, <1>4, <1>6, <1>7, <1>9, <1>11 DEF Strategy
<1>17. o.pause = s.pause
  BY <1>3, <1>4, <1>6, <1>7, <1>9, <1>11
<1>18. ASSUME o.phase = "Paused" PROVE o.anchored /\ WaitsUntil(o) = WaitsUntil(s)
  <2>1. m.phase = "Paused" /\ h.phase = "Paused"
    BY <1>4, <1>6, <1>7, <1>9, <1>11, <1>18
  <2>2. a.anchored /\ WaitsUntil(a) = WaitsUntil(s)
    BY <1>4, <1>5, <2>1
  <2>3. o.anchored = a.anchored /\ o.deadline = a.deadline /\ o.pause = a.pause
    BY <1>6, <1>7, <1>9, <1>11
  <2> QED BY <2>2, <2>3 DEF WaitsUntil
<1>19. ASSUME s.episode <= s.peak PROVE o.episode <= o.peak
  <2>1. c.episode = s.episode
    BY <1>3, <1>4, <1>6, <1>7, <1>9
  <2>2. o.peak >= Equity(c, band, f.raw)
    BY <1>12, <1>13 DEF Measured
  <2> QED BY <1>11, <1>16, <1>19, <2>1, <2>2 DEF Strategy
<1>20. band => /\ o.episode >= Equity(o, band, f.raw)
               /\ s.episode # 0 => o.episode >= s.episode
  BY <1>3, <1>4, <1>6, <1>7, <1>9, <1>11, <1>12
<1>21. c.entered \in {0, s.entered}
  BY <1>3, <1>4, <1>6, <1>7, <1>9
<1>22. /\ o.entered \in {0, f.now, s.entered}
       /\ band /\ f.lp => o.entered = f.now \/ (o.entered = s.entered /\ s.entered # 0)
  BY <1>11, <1>21
<1>23. Sees(o, s, f)
  BY <1>9, <1>11, <1>13, <1>14, <1>15, <1>16, <1>18, <1>19, <1>20,
     <1>22, <1>17 DEF Sees
<1>24. Hours(o, s, f)
  <2>1. g.healthy \in {0, before}
    BY <1>3, <1>4, <1>6
  <2>2. m.healthy \in {0, before} /\ before \in Nat /\ m.healthy \in Nat
    BY <1>7, <2>1, Numbers DEF Strategy
  <2> HIDE DEF before
  <2>3. \/ o.healthy = 0
        \/ f.market # "danger" /\ Hour(f.now) = s.hour /\ o.healthy = before
        \/ /\ f.market = "recovered" /\ Hour(f.now) > s.hour
           /\ o.healthy = 1 \/ s.hour = 0 \/ Hour(f.now) = s.hour + 1
           /\ o.healthy <= before + 1
    <3>1. o.healthy \in Nat /\ o.healthy = c.healthy
      BY <1>11, Numbers DEF Strategy
    <3> QED BY <1>8, <1>9, <2>2, <3>1
  <2> QED BY <2>3 DEF Hours, before
<1> QED BY <1>1, <1>23, <1>24

\* Looking for a breakout concerns nothing else.
LEMMA OutsideUnmoved ==
    ASSUME NEW s \in Strategy, NEW f, Frame(f)
    PROVE  Unmoved(CountOutside(s, f), s)
<1> DEFINE t == IF s.bar > 0 /\ Bar(f.now) > s.bar + 1 THEN ClearStreak(s) ELSE s
           streak == IF f.side = 0 THEN 0
                     ELSE IF f.side = t.side THEN Smaller(Confirm, t.streak + 1) ELSE 1
           bar == Bar(f.now)
<1>1. Unmoved(s, s)
  BY DEF Unmoved
<1>2. Unmoved(t, s)
  BY <1>1, ClearUnmoved
<1>3. CountOutside(s, f) = IF ~NewBar(s, f) THEN s
                           ELSE [t EXCEPT !.bar = bar, !.side = f.side, !.streak = streak]
  BY DEF CountOutside
<1> HIDE DEF t
<1>4. t.streak \in 0..Confirm /\ t \in Strategy
  BY <1>2 DEF Unmoved, Strategy
<1>5. streak \in 0..Confirm
  BY <1>4, Numbers DEF Smaller
<1>6. bar \in Nat /\ f.side \in -1..1
  BY BarOf DEF Frame
<1> HIDE DEF streak, bar
<1>7. Unmoved([t EXCEPT !.bar = bar, !.side = f.side, !.streak = streak], t)
  BY <1>4, <1>5, <1>6 DEF Unmoved, Strategy
<1> QED BY <1>1, <1>2, <1>3, <1>7 DEF Unmoved

\* A streak is no part of what is seen.
LEMMA UnmovedSees ==
    ASSUME band \in BOOLEAN, NEW s, NEW o, NEW t, NEW f,
           Sees(o, s, f), Hours(o, s, f), Unmoved(t, o)
    PROVE  Sees(t, s, f) /\ Hours(t, s, f)
<1>1. Equity(t, band, f.raw) = Equity(o, band, f.raw) /\ WaitsUntil(t) = WaitsUntil(o)
  BY DEF Unmoved, Equity, WaitsUntil
<1>2. Measured(t, f)
  BY <1>1 DEF Sees, Measured, Unmoved
<1>3. Sees(t, s, f)
  BY <1>1, <1>2 DEF Sees, Unmoved
<1>4. Hours(t, s, f)
  BY DEF Hours, Unmoved
<1> QED BY <1>3, <1>4

-----------------------------------------------------------------------------
(* What is decided, of a strategy o that has observed f. *)

\* History, hour, peak and basis are no part of a decision.
Kept(t, o) ==
    /\ t \in Strategy /\ t.history = o.history /\ t.hour = o.hour
    /\ t.peak = o.peak /\ t.origin = o.origin /\ t.healthy \in {0, o.healthy}

\* The loss from the episode's peak can be borne.
Bearable(o, f) == (o.episode - Equity(o, TRUE, f.raw)) * 400 < EpisodeLoss * o.episode

\* An exit: a pause begins anew unless there is one and nothing to exit.
Leaves(r, o, f) ==
    /\ r.lp = "ExitToQuote" /\ r.range \in BOOLEAN /\ (r.range => ~band)
    /\ Kept(r.state, o) /\ r.state.entered = o.entered /\ r.state.episode = o.episode
    /\ o.phase = "Halted" => r.state.phase = "Halted"
    /\ o.phase # "Halted" =>
         /\ r.state.phase = "Paused"
         /\ WaitsUntil(r.state) = IF o.phase = "Paused" /\ ~f.lp THEN WaitsUntil(o)
                                  ELSE f.now + IF r.range THEN BarTicks ELSE Cooldown

\* A roll of the band, after the minimum holding.
Rolls(r, o, f) ==
    /\ r.lp = "Recenter" /\ r.range = FALSE /\ band /\ f.lp /\ o.phase # "Halted"
    /\ f.now - o.entered >= MinHolding /\ Bearable(o, f)
    /\ Kept(r.state, o) /\ r.state.phase = "Active"
    /\ r.state.entered = 0 /\ r.state.episode = Equity(o, TRUE, f.raw)

\* The position is kept.
Stays(r, o, f) ==
    /\ r.lp = "Hold" /\ r.range = FALSE /\ f.lp /\ o.phase # "Halted"
    /\ band => Bearable(o, f)
    /\ Kept(r.state, o) /\ r.state.phase = "Active"
    /\ r.state.entered = o.entered /\ r.state.episode = o.episode

\* An entry: the first one, or after the pause and enough healthy hours.
Enters(r, o, f) ==
    /\ r.lp = "Deploy" /\ r.range = FALSE /\ ~f.lp /\ o.phase # "Halted"
    /\ \/ o.history = "Initial"
       \/ o.healthy >= Need /\ (o.phase = "Paused" => f.now >= WaitsUntil(o))
    /\ Kept(r.state, o) /\ r.state.phase = "Active"
    /\ o.phase = "Paused" => r.state.pause = o.pause
    /\ r.state.healthy = o.healthy
    /\ IF band THEN r.state.entered = 0 /\ r.state.episode = Equity(o, TRUE, f.raw)
               ELSE r.state.entered = o.entered /\ r.state.episode = o.episode

\* Nothing to exit, and no entry yet.
Waits(r, o, f) ==
    /\ r.lp = "ExitToQuote" /\ r.range = FALSE /\ ~f.lp /\ o.phase # "Halted"
    /\ Kept(r.state, o) /\ r.state.phase = "Paused"
    /\ r.state.entered = o.entered /\ r.state.episode = o.episode
    /\ o.phase = "Paused" => WaitsUntil(r.state) = WaitsUntil(o)

\* A pause begun now waits from now.
LEMMA PauseKeeps ==
    ASSUME band \in BOOLEAN, NEW s \in Strategy, NEW at \in Nat, NEW wait \in Nat,
           wait > 0 \/ wait = Cooldown
    PROVE  LET t == Pause(s, at, wait)
           IN  /\ t \in Strategy /\ t.history = s.history /\ t.hour = s.hour
               /\ t.peak = s.peak /\ t.origin = s.origin /\ t.healthy = s.healthy
               /\ t.entered = s.entered /\ t.episode = s.episode
               /\ t.phase = "Paused" /\ t.anchored = TRUE
               /\ WaitsUntil(t) = at + wait
<1> DEFINE t == Pause(s, at, wait)
<1>1. at + wait \in Nat /\ "Paused" \in Phases
  BY DEF Phases
<1>2. t = [s EXCEPT !.phase = "Paused", !.pause = at, !.anchored = TRUE,
                    !.deadline = at + wait]
  BY DEF Pause
<1>3. t \in Strategy
  BY <1>1, <1>2 DEF Strategy
<1>4. t.anchored = TRUE
  BY <1>2 DEF Strategy
<1>5. /\ t.history = s.history /\ t.hour = s.hour
      /\ t.peak = s.peak /\ t.origin = s.origin /\ t.healthy = s.healthy
      /\ t.entered = s.entered /\ t.episode = s.episode
      /\ t.phase = "Paused" /\ t.pause = at /\ t.deadline = at + wait
  BY <1>2 DEF Strategy
<1>6. WaitsUntil(t) = at + wait
  BY <1>4, <1>5 DEF WaitsUntil
<1> QED BY <1>3, <1>4, <1>5, <1>6

\* What Leave decides is an exit.
LEMMA LeaveLeaves ==
    ASSUME band \in BOOLEAN, NEW o \in Strategy, NEW f, Frame(f),
           NEW range \in BOOLEAN, range => ~band
    PROVE  Leaves(Leave(o, f, range), o, f)
<1> DEFINE wait == IF range THEN BarTicks ELSE Cooldown
           u == CASE o.phase = "Halted" -> o
                  [] o.phase = "Paused" /\ ~f.lp -> o
                  [] OTHER -> Pause(o, f.now, wait)
           c == ClearStreak(u)
           r == Leave(o, f, range)
<1>1. wait \in Nat /\ (wait > 0 \/ wait = Cooldown)
  BY Numbers
<1>2. o.phase = "Halted" \/ (o.phase = "Paused" /\ ~f.lp) => u = o
  OBVIOUS
<1>3. ~(o.phase = "Halted" \/ (o.phase = "Paused" /\ ~f.lp)) => u = Pause(o, f.now, wait)
  OBVIOUS
<1>4. r = [Decision(c, "ExitToQuote") EXCEPT !.range = range,
                                             !.state.healthy = IF range THEN @ ELSE 0]
  BY DEF Leave
<1> HIDE DEF u, wait
<1>5. /\ u \in Strategy /\ u.history = o.history /\ u.hour = o.hour
      /\ u.peak = o.peak /\ u.origin = o.origin /\ u.healthy = o.healthy
      /\ u.entered = o.entered /\ u.episode = o.episode
      /\ o.phase = "Halted" => u.phase = "Halted"
      /\ o.phase # "Halted" =>
           /\ u.phase = "Paused"
           /\ WaitsUntil(u) = IF o.phase = "Paused" /\ ~f.lp THEN WaitsUntil(o)
                              ELSE f.now + wait
  <2>1. CASE o.phase = "Halted" \/ (o.phase = "Paused" /\ ~f.lp)
    BY <1>2, <2>1
  <2>2. CASE ~(o.phase = "Halted" \/ (o.phase = "Paused" /\ ~f.lp))
    <3>1. f.now \in Nat
      BY DEF Frame
    <3>2. u = Pause(o, f.now, wait)
      BY <1>3, <2>2
    <3>3. /\ u \in Strategy /\ u.history = o.history /\ u.hour = o.hour
          /\ u.peak = o.peak /\ u.origin = o.origin /\ u.healthy = o.healthy
          /\ u.entered = o.entered /\ u.episode = o.episode
          /\ u.phase = "Paused" /\ WaitsUntil(u) = f.now + wait
      BY <1>1, <3>1, <3>2, PauseKeeps
    <3> QED BY <2>2, <3>3
  <2> QED BY <2>1, <2>2
<1>6. Unmoved(c, u)
  BY <1>5, ClearUnmoved
<1> HIDE DEF c
<1>7. /\ r.lp = "ExitToQuote" /\ r.range = range
      /\ r.state = [c EXCEPT !.healthy = IF range THEN c.healthy ELSE 0]
  BY <1>4 DEF Decision
<1> DEFINE healthy == IF range THEN c.healthy ELSE 0
<1>8. healthy \in 0..Need /\ healthy \in {0, o.healthy}
  BY <1>5, <1>6, Numbers DEF Unmoved, Strategy
<1> HIDE DEF healthy, r
<1>9. r.state = [c EXCEPT !.healthy = healthy] /\ c \in Strategy
  BY <1>6, <1>7 DEF healthy, Unmoved
<1>10. /\ r.state \in Strategy /\ r.state.history = c.history /\ r.state.hour = c.hour
       /\ r.state.peak = c.peak /\ r.state.origin = c.origin
       /\ r.state.healthy = healthy /\ r.state.phase = c.phase
       /\ r.state.entered = c.entered /\ r.state.episode = c.episode
       /\ r.state.anchored = c.anchored /\ r.state.deadline = c.deadline
       /\ r.state.pause = c.pause
  BY <1>8, <1>9 DEF Strategy
<1>11. WaitsUntil(r.state) = WaitsUntil(u)
  BY <1>6, <1>10 DEF WaitsUntil, Unmoved
<1>12. Kept(r.state, o)
  BY <1>5, <1>6, <1>8, <1>10 DEF Kept, Unmoved
<1>13. Leaves(r, o, f)
  BY <1>5, <1>6, <1>7, <1>10, <1>11, <1>12 DEF Leaves, Unmoved, wait
<1> QED BY <1>13 DEF r

\* What LossPause spares can be borne.
LEMMA SparedIsBearable ==
    ASSUME band = TRUE, NEW o \in Strategy, NEW f, Frame(f), Measured(o, f),
           o.phase # "Halted", f.lp, ~LossPause(o, f),
           o.episode >= Equity(o, band, f.raw)
    PROVE  Bearable(o, f)
<1> DEFINE e == Equity(o, TRUE, f.raw)
           p == o.episode
<1>1. e \in Int /\ Equity(o, band, f.raw) = e
  BY EquityIs DEF Frame, Equity
<1>2. e > 0 /\ p >= e
  BY <1>1 DEF Measured
<1>3. p \in Int
  BY DEF Strategy
<1>4. ~(Loss(e, p) >= EpisodeLoss)
  BY DEF LossPause
<1> HIDE DEF e, p
<1>5. p \in Nat /\ p > 0
  BY <1>1, <1>2, <1>3
<1>6. EpisodeLoss \in Int
  BY Numbers
<1>7. ~((p - e) * 400 >= EpisodeLoss * p)
  BY <1>1, <1>4, <1>5, <1>6, LossIs
<1>8. (p - e) * 400 \in Int /\ EpisodeLoss * p \in Int
  BY <1>1, <1>5, <1>6
<1>9. (p - e) * 400 < EpisodeLoss * p
  BY <1>7, <1>8
<1> QED BY <1>9 DEF Bearable, e, p

\* The loss on record is a number.
LEMMA LossNowIs ==
    ASSUME band \in BOOLEAN, NEW o \in Strategy, o.peak > 0, NEW f, Frame(f)
    PROVE  LossNow(o, band, f) \in Int /\ LossNow(o, TRUE, f) \in Int
<1>1. f.raw \in Nat
  BY DEF Frame
<1>2. Equity(o, band, f.raw) \in Int
  BY <1>1, EquityIs
<1>3. Equity(o, TRUE, f.raw) \in Int
  BY <1>1, Numbers DEF Equity, Strategy
<1>4. o.peak \in Nat
  BY DEF Strategy
<1>5. Loss(Equity(o, band, f.raw), o.peak) \in Int
  BY <1>2, <1>4, LossIs, Numbers
<1>6. Loss(Equity(o, TRUE, f.raw), o.peak) \in Int
  BY <1>3, <1>4, LossIs, Numbers
<1> QED BY <1>5, <1>6 DEF LossNow

\* A position is rolled or kept.
LEMMA HeldDecides ==
    ASSUME band \in BOOLEAN, NEW o \in Strategy, NEW f, Frame(f), o.peak > 0,
           NEW outside \in BOOLEAN, f.lp, o.phase # "Halted", band => Bearable(o, f)
    PROVE  LET r == DecideHeld(o, band, f, outside) IN Rolls(r, o, f) \/ Stays(r, o, f)
<1> DEFINE r == DecideHeld(o, band, f, outside)
           rolled == band /\ outside /\ f.now - o.entered >= MinHolding
<1>1. CASE rolled
  <2> DEFINE e == Equity(o, TRUE, f.raw)
             loss == LossNow(o, TRUE, f)
             u == [o EXCEPT !.phase = "Active", !.entered = 0, !.episode = e,
                            !.entryLoss = loss]
             c == ClearStreak(u)
  <2>1. r = Decision(c, "Recenter")
    BY <1>1 DEF DecideHeld, Recenter
  <2>2. e \in Int /\ loss \in Int
    <3>1. f.raw \in Nat
      BY DEF Frame
    <3>2. e \in Int
      BY <3>1, Numbers DEF Equity, Strategy
    <3> QED BY <3>2, LossNowIs
  <2> HIDE DEF e, loss
  <2>3. /\ u \in Strategy /\ u.history = o.history /\ u.hour = o.hour
        /\ u.peak = o.peak /\ u.origin = o.origin /\ u.healthy = o.healthy
        /\ u.phase = "Active" /\ u.entered = 0 /\ u.episode = e
    BY <2>2 DEF Strategy, Phases
  <2> HIDE DEF u
  <2>4. Unmoved(c, u)
    BY <2>3, ClearUnmoved
  <2> HIDE DEF c
  <2>5. r.lp = "Recenter" /\ r.range = FALSE /\ r.state = c
    BY <2>1 DEF Decision
  <2>6. Kept(c, o)
    BY <2>3, <2>4 DEF Kept, Unmoved
  <2>7. Rolls(r, o, f)
    BY <1>1, <2>3, <2>4, <2>5, <2>6 DEF Rolls, Unmoved, e
  <2> QED BY <2>7
<1>2. CASE ~rolled
  <2> DEFINE c == [o EXCEPT !.phase = "Active"]
  <2>1. r = Decision(c, "Hold")
    BY <1>2 DEF DecideHeld
  <2>2. /\ Kept(c, o) /\ c.phase = "Active"
        /\ c.entered = o.entered /\ c.episode = o.episode
    BY DEF Kept, Strategy, Phases
  <2> HIDE DEF c
  <2>3. r.lp = "Hold" /\ r.range = FALSE /\ r.state = c
    BY <2>1 DEF Decision
  <2>4. Stays(r, o, f)
    BY <2>2, <2>3 DEF Stays
  <2> QED BY <2>4
<1> QED BY <1>1, <1>2

\* An entry begins a new episode; the holding clock waits for the position.
LEMMA EnterKeeps ==
    ASSUME band \in BOOLEAN, NEW o \in Strategy, NEW f, Frame(f), o.peak > 0
    PROVE  LET t == Enter(o, band, f)
           IN  /\ Kept(t, o) /\ t.phase = "Active" /\ t.pause = o.pause
               /\ t.healthy = o.healthy
               /\ IF band THEN t.entered = 0 /\ t.episode = Equity(o, TRUE, f.raw)
                          ELSE t.entered = o.entered /\ t.episode = o.episode
<1> DEFINE e == Equity(o, band, f.raw)
           loss == LossNow(o, band, f)
           bar == Bar(f.now)
           u == [o EXCEPT !.phase = "Active", !.bar = bar]
           v == [u EXCEPT !.deadline = 0, !.entered = 0, !.episode = e, !.entryLoss = loss]
<1>1. Enter(o, band, f) = IF ~band THEN u ELSE v
  BY DEF Enter
<1>2. e \in Int /\ loss \in Int /\ bar \in Nat /\ (band => e = Equity(o, TRUE, f.raw))
  BY EquityIs, LossNowIs, BarOf DEF Frame
<1> HIDE DEF e, loss, bar
<1>3. /\ Kept(u, o) /\ u.phase = "Active" /\ u.pause = o.pause /\ u.healthy = o.healthy
      /\ u.entered = o.entered /\ u.episode = o.episode
  BY <1>2 DEF Kept, Strategy, Phases
<1> HIDE DEF u
<1>4. /\ v \in Strategy /\ v.history = u.history /\ v.hour = u.hour
      /\ v.peak = u.peak /\ v.origin = u.origin /\ v.healthy = u.healthy
      /\ v.phase = u.phase /\ v.pause = u.pause /\ v.entered = 0 /\ v.episode = e
  BY <1>2, <1>3 DEF Kept, Strategy
<1> HIDE DEF v
<1>5. Kept(v, o)
  BY <1>3, <1>4 DEF Kept
<1> QED BY <1>1, <1>2, <1>3, <1>4, <1>5

\* Without a position it enters or waits.
LEMMA FlatDecides ==
    ASSUME band \in BOOLEAN, NEW o \in Strategy, NEW f, Frame(f), o.peak > 0,
           ~f.lp, o.phase # "Halted", o.phase = "Paused" => o.anchored
    PROVE  LET r == DecideFlat(o, band, f) IN Enters(r, o, f) \/ Waits(r, o, f)
<1> DEFINE a == AdmitFlat(o, f)
           r == DecideFlat(o, band, f)
<1>1. /\ a \in Strategy /\ a.history = o.history /\ a.hour = o.hour
      /\ a.peak = o.peak /\ a.origin = o.origin /\ a.healthy = o.healthy
      /\ a.entered = o.entered /\ a.episode = o.episode
      /\ o.phase = "Paused" => a = o
  <2>1. CASE o.phase = "Warmup" /\ o.history # "Initial"
    <3>1. a = Pause(o, f.now, Cooldown)
      BY <2>1 DEF AdmitFlat
    <3>2. f.now \in Nat /\ Cooldown \in Nat /\ (Cooldown > 0 \/ Cooldown = Cooldown)
      BY Numbers DEF Frame
    <3> DEFINE p == Pause(o, f.now, Cooldown)
    <3> HIDE DEF p
    <3>3. /\ p \in Strategy /\ p.history = o.history /\ p.hour = o.hour
          /\ p.peak = o.peak /\ p.origin = o.origin /\ p.healthy = o.healthy
          /\ p.entered = o.entered /\ p.episode = o.episode
      BY <3>2, PauseKeeps DEF p
    <3>4. /\ a \in Strategy /\ a.history = o.history /\ a.hour = o.hour
          /\ a.peak = o.peak /\ a.origin = o.origin /\ a.healthy = o.healthy
          /\ a.entered = o.entered /\ a.episode = o.episode
      BY <3>1, <3>3 DEF p
    <3> QED BY <2>1, <3>4
  <2>2. CASE ~(o.phase = "Warmup" /\ o.history # "Initial")
    <3>1. a = o
      BY <2>2 DEF AdmitFlat
    <3> QED BY <3>1
  <2> QED BY <2>1, <2>2
<1> HIDE DEF a
<1>2. Equity(a, TRUE, f.raw) = Equity(o, TRUE, f.raw)
  BY <1>1 DEF Equity
<1>3. CASE MayEnter(a, band, f)
  <2> DEFINE t == Enter(a, band, f)
  <2>1. r = Decision(t, "Deploy")
    BY <1>3 DEF DecideFlat, a
  <2>2. /\ Kept(t, a) /\ t.phase = "Active" /\ t.pause = a.pause
        /\ t.healthy = a.healthy
        /\ IF band THEN t.entered = 0 /\ t.episode = Equity(a, TRUE, f.raw)
                   ELSE t.entered = a.entered /\ t.episode = a.episode
    BY <1>1, EnterKeeps
  <2> HIDE DEF t
  <2>3. r.lp = "Deploy" /\ r.range = FALSE /\ r.state = t
    BY <2>1 DEF Decision
  <2>4. Kept(t, o)
    BY <1>1, <2>2 DEF Kept
  <2>5. \/ o.history = "Initial"
        \/ o.healthy >= Need /\ (o.phase = "Paused" => f.now >= WaitsUntil(o))
    <3>1. CASE o.history = "Initial"
      BY <3>1
    <3>2. CASE o.history # "Initial"
      <4>1. f.now >= Deadline(a, band) /\ a.healthy >= Need
        BY <1>1, <1>3, <3>2 DEF MayEnter
      <4>2. o.phase = "Paused" => Deadline(a, band) = WaitsUntil(o)
        BY <1>1 DEF Deadline, WaitsUntil
      <4> QED BY <1>1, <4>1, <4>2
    <3> QED BY <3>1, <3>2
  <2>6. Enters(r, o, f)
    BY <1>1, <1>2, <2>2, <2>3, <2>4, <2>5 DEF Enters
  <2> QED BY <2>6
<1>4. CASE ~MayEnter(a, band, f)
  <2> DEFINE t == [a EXCEPT !.phase = "Paused"]
  <2>1. r = Decision(t, "ExitToQuote")
    BY <1>4 DEF DecideFlat, a
  <2>2. /\ Kept(t, a) /\ t.phase = "Paused" /\ t.entered = a.entered
        /\ t.episode = a.episode
        /\ t.anchored = a.anchored /\ t.deadline = a.deadline /\ t.pause = a.pause
    BY <1>1 DEF Kept, Strategy, Phases
  <2> HIDE DEF t
  <2>3. r.lp = "ExitToQuote" /\ r.range = FALSE /\ r.state = t
    BY <2>1 DEF Decision
  <2>4. Kept(t, o)
    BY <1>1, <2>2 DEF Kept
  <2>5. o.phase = "Paused" => WaitsUntil(t) = WaitsUntil(o)
    BY <1>1, <2>2 DEF WaitsUntil
  <2>6. Waits(r, o, f)
    BY <1>1, <2>2, <2>3, <2>4, <2>5 DEF Waits
  <2> QED BY <2>6
<1> QED BY <1>3, <1>4

\* What can be decided of an observation.
LEMMA DecideIs ==
    ASSUME band \in BOOLEAN, NEW s, NEW o, NEW f, Frame(f), Sees(o, s, f), Hours(o, s, f)
    PROVE  \E t : /\ Sees(t, s, f) /\ Hours(t, s, f)
                  /\ LET r == Decide(o, band, f)
                     IN  \/ Leaves(r, t, f) \/ Rolls(r, t, f) \/ Stays(r, t, f)
                         \/ Enters(r, t, f) \/ Waits(r, t, f)
<1> DEFINE t == CountOutside(o, f)
           outside == NewBar(o, f) /\ t.streak >= Confirm
           risk == t.phase = "Halted" \/ f.market = "danger" \/ (band /\ LossPause(t, f))
           range == ~band /\ outside /\ f.market # "danger"
           r == Decide(o, band, f)
<1>1. Unmoved(t, o)
  BY OutsideUnmoved DEF Sees
<1>2. Sees(t, s, f) /\ Hours(t, s, f)
  BY <1>1, UnmovedSees
<1>3. /\ risk \/ (~band /\ outside) => r = Leave(t, f, range)
      /\ ~risk /\ (band \/ ~outside) /\ f.lp => r = DecideHeld(t, band, f, outside)
      /\ ~risk /\ (band \/ ~outside) /\ ~f.lp => r = DecideFlat(t, band, f)
  BY DEF Decide
<1>4. outside \in BOOLEAN /\ range \in BOOLEAN /\ (range => ~band)
  OBVIOUS
<1>5. ~risk => t.phase # "Halted" /\ (band => ~LossPause(t, f))
  OBVIOUS
<1> HIDE DEF outside, risk, range, r, t
<1>6. t \in Strategy /\ t.peak > 0 /\ Measured(t, f)
  BY <1>2 DEF Sees, Measured
<1>7. CASE risk \/ (~band /\ outside)
  <2>1. Leaves(r, t, f)
    BY <1>3, <1>4, <1>6, <1>7, LeaveLeaves
  <2> QED BY <1>2, <2>1 DEF r
<1>8. CASE ~risk /\ (band \/ ~outside) /\ f.lp
  <2>1. band => Bearable(t, f)
    <3>1. SUFFICES ASSUME band = TRUE PROVE Bearable(t, f)
      OBVIOUS
    <3>2. t.episode >= Equity(t, band, f.raw)
      BY <1>2, <3>1 DEF Sees
    <3> QED BY <1>5, <1>6, <1>8, <3>1, <3>2, SparedIsBearable
  <2>2. Rolls(r, t, f) \/ Stays(r, t, f)
    BY <1>3, <1>4, <1>5, <1>6, <1>8, <2>1, HeldDecides
  <2> QED BY <1>2, <2>2 DEF r
<1>9. CASE ~risk /\ (band \/ ~outside) /\ ~f.lp
  <2>1. t.phase = "Paused" => t.anchored
    BY <1>2 DEF Sees
  <2>2. Enters(r, t, f) \/ Waits(r, t, f)
    BY <1>3, <1>5, <1>6, <1>9, <2>1, FlatDecides
  <2> QED BY <1>2, <2>2 DEF r
<1> QED BY <1>4, <1>7, <1>8, <1>9

-----------------------------------------------------------------------------
(* The judgement of a cycle: an evaluation, deferred where the budget says so. *)

\* Without valid prices the healthy hours are lost and nothing is done.
Ignored(r, s) ==
    /\ r.lp = "Nothing" /\ r.range = FALSE
    /\ r.state \in Strategy /\ r.state.healthy = 0
    /\ r.state.history = s.history /\ r.state.phase = s.phase
    /\ r.state.hour = s.hour /\ r.state.peak = s.peak /\ r.state.origin = s.origin
    /\ r.state.entered = s.entered /\ r.state.episode = s.episode
    /\ WaitsUntil(r.state) = WaitsUntil(s)

\* Without candles only the loss is judged.
Blinded(r, s, f) ==
    /\ r.range = FALSE
    /\ r.lp = IF r.state.phase = "Halted" THEN "ExitToQuote" ELSE "Nothing"
    /\ r.state \in Strategy /\ r.state.healthy = 0 /\ Measured(r.state, f)
    /\ r.state.history = s.history /\ r.state.phase \in {s.phase, "Halted"}
    /\ r.state.hour = s.hour /\ r.state.peak >= s.peak
    /\ r.state.origin = IF band /\ s.origin = 0 THEN f.raw ELSE s.origin
    /\ r.state.entered = s.entered /\ r.state.episode = s.episode
    /\ WaitsUntil(r.state) = WaitsUntil(s)

\* A deferred entry leaves the clocks and the basis as they were.
Defers(r, s, o) ==
    /\ r.range = FALSE /\ o.phase # "Halted"
    /\ \/ r.lp = "Nothing" /\ r.state.phase = s.phase
       \/ r.lp = "ExitToQuote" /\ r.state.phase = "Paused"
    /\ r.state \in Strategy /\ r.state.healthy = o.healthy
    /\ r.state.history = o.history /\ r.state.hour = o.hour /\ r.state.peak = o.peak
    /\ r.state.origin = s.origin
    /\ r.state.entered = s.entered /\ r.state.episode = s.episode
    /\ s.phase = "Paused" => WaitsUntil(r.state) = WaitsUntil(s)

\* What the cycle can judge.
Judged(r, f) ==
    \/ ~f.valid /\ Ignored(r, mem)
    \/ f.valid /\ ~f.candles /\ Blinded(r, mem, f)
    \/ /\ f.valid /\ f.candles
       /\ \E o : /\ Sees(o, mem, f) /\ Hours(o, mem, f)
                 /\ \/ Leaves(r, o, f) \/ Rolls(r, o, f) \/ Stays(r, o, f)
                    \/ Enters(r, o, f) \/ Waits(r, o, f)
                    \/ ~f.lp /\ Defers(r, mem, o)

\* No valid prices, no decision.
LEMMA EvaluateIgnores ==
    ASSUME NEW s \in Strategy, NEW f, ~f.valid
    PROVE  Ignored(Evaluate(s, band, f), s)
<1> DEFINE t == [s EXCEPT !.healthy = 0]
           r == Evaluate(s, band, f)
<1>1. r = Decision(t, "Nothing")
  BY DEF Evaluate
<1>2. /\ t \in Strategy /\ t.healthy = 0
      /\ t.history = s.history /\ t.phase = s.phase
      /\ t.hour = s.hour /\ t.peak = s.peak /\ t.origin = s.origin
      /\ t.entered = s.entered /\ t.episode = s.episode
      /\ t.anchored = s.anchored /\ t.deadline = s.deadline /\ t.pause = s.pause
  BY Numbers DEF Strategy
<1> HIDE DEF t
<1>3. r.lp = "Nothing" /\ r.range = FALSE /\ r.state = t
  BY <1>1 DEF Decision
<1>4. WaitsUntil(t) = WaitsUntil(s)
  BY <1>2 DEF WaitsUntil
<1> HIDE DEF r
<1>5. Ignored(r, s)
  BY <1>2, <1>3, <1>4 DEF Ignored
<1> QED BY <1>5 DEF r

\* No candles, no decision but a halt.
LEMMA EvaluateBlind ==
    ASSUME band \in BOOLEAN, NEW s \in Strategy, NEW f, Frame(f), f.valid, ~f.candles
    PROVE  Blinded(Evaluate(s, band, f), s, f)
<1> DEFINE h == [s EXCEPT !.healthy = 0]
           b == Basis(h, band, f.raw)
           t == Marked(b, band, f)
           r == Evaluate(s, band, f)
<1>1. r = Decision(t, IF t.phase = "Halted" THEN "ExitToQuote" ELSE "Nothing")
  BY DEF Evaluate, Blind
<1>2. /\ h \in Strategy /\ h.healthy = 0
      /\ h.history = s.history /\ h.phase = s.phase
      /\ h.hour = s.hour /\ h.peak = s.peak /\ h.origin = s.origin
      /\ h.entered = s.entered /\ h.episode = s.episode
      /\ h.anchored = s.anchored /\ h.deadline = s.deadline /\ h.pause = s.pause
  BY Numbers DEF Strategy
<1> HIDE DEF h
<1>3. /\ b \in Strategy
      /\ b.origin = (IF band /\ h.origin = 0 THEN f.raw ELSE h.origin)
      /\ b.history = h.history /\ b.phase = h.phase /\ b.pause = h.pause
      /\ b.anchored = h.anchored /\ b.deadline = h.deadline /\ b.hour = h.hour
      /\ b.healthy = h.healthy /\ b.peak = h.peak
      /\ b.entered = h.entered /\ b.episode = h.episode
  BY <1>2, BasisKeeps DEF Frame
<1> HIDE DEF b
<1>4. /\ t \in Strategy /\ Measured(t, f) /\ t.peak >= b.peak
      /\ t.phase \in {b.phase, "Halted"}
      /\ t.history = b.history /\ t.pause = b.pause /\ t.origin = b.origin
      /\ t.anchored = b.anchored /\ t.deadline = b.deadline /\ t.hour = b.hour
      /\ t.healthy = b.healthy
      /\ t.entered = b.entered /\ t.episode = b.episode
  BY <1>3, MarkedKeeps
<1> HIDE DEF t
<1>5. /\ r.lp = IF t.phase = "Halted" THEN "ExitToQuote" ELSE "Nothing"
      /\ r.range = FALSE /\ r.state = t
  BY <1>1 DEF Decision
<1>6. WaitsUntil(t) = WaitsUntil(s)
  BY <1>2, <1>3, <1>4 DEF WaitsUntil
<1> HIDE DEF r
<1>7. Blinded(r, s, f)
  BY <1>2, <1>3, <1>4, <1>5, <1>6 DEF Blinded
<1> QED BY <1>7 DEF r

\* Only what the strategy itself keeps is taken back.
LEMMA DeferredDefers ==
    ASSUME NEW s \in Strategy, NEW o, NEW f, Sees(o, s, f), NEW raw, Enters(raw, o, f),
           NEW b \in BOOLEAN
    PROVE  Defers(Deferred(s, raw, b), s, o)
<1> DEFINE t == raw.state
           u == [t EXCEPT
                   !.phase = s.phase, !.anchored = s.anchored,
                   !.deadline = s.deadline, !.observed = s.observed,
                   !.origin = s.origin, !.entered = s.entered,
                   !.episode = s.episode, !.entryLoss = s.entryLoss]
           v == [u EXCEPT !.phase = "Paused"]
           r == Deferred(s, raw, b)
<1>1. r = IF b THEN Decision(u, "Nothing") ELSE Decision(v, "ExitToQuote")
  BY DEF Deferred
<1>2. t \in Strategy /\ Kept(t, o) /\ t.healthy = o.healthy /\ o.phase # "Halted"
  BY DEF Enters, Kept
<1>3. s.phase = "Paused" => t.pause = s.pause
  BY <1>2 DEF Enters, Sees
<1> HIDE DEF t
<1>4. /\ u \in Strategy /\ u.phase = s.phase /\ u.history = t.history
      /\ u.hour = t.hour /\ u.peak = t.peak /\ u.healthy = t.healthy
      /\ u.origin = s.origin /\ u.entered = s.entered /\ u.episode = s.episode
      /\ u.deadline = s.deadline /\ u.pause = t.pause
  BY <1>2 DEF Strategy
<1>5. u.anchored = s.anchored
  BY <1>2 DEF Strategy
<1> HIDE DEF u
<1>6. /\ v \in Strategy /\ v.phase = "Paused" /\ v.history = u.history
      /\ v.hour = u.hour /\ v.peak = u.peak /\ v.healthy = u.healthy
      /\ v.origin = u.origin /\ v.entered = u.entered /\ v.episode = u.episode
      /\ v.deadline = u.deadline /\ v.pause = u.pause /\ v.anchored = u.anchored
  BY <1>4 DEF Strategy, Phases
<1> HIDE DEF v
<1>7. s.phase = "Paused" => WaitsUntil(u) = WaitsUntil(s) /\ WaitsUntil(v) = WaitsUntil(s)
  BY <1>3, <1>4, <1>5, <1>6 DEF WaitsUntil
<1>8. CASE b
  <2>1. r.lp = "Nothing" /\ r.range = FALSE /\ r.state = u
    BY <1>1, <1>8 DEF Decision
  <2> QED BY <1>2, <1>4, <1>7, <2>1 DEF Defers, Kept
<1>9. CASE ~b
  <2>1. r.lp = "ExitToQuote" /\ r.range = FALSE /\ r.state = v
    BY <1>1, <1>9 DEF Decision
  <2> QED BY <1>2, <1>4, <1>6, <1>7, <2>1 DEF Defers, Kept
<1> QED BY <1>8, <1>9

\* One cycle judges one observation.
LEMMA AssessIs ==
    ASSUME TypeOK, mem.hour <= Hour(now), Assess
    PROVE  \E f, r :
             /\ Frame(f) /\ f.now = now /\ f.lp = lp /\ Judged(r, f)
             /\ mem' = r.state /\ d' = r.lp
             /\ seen' = [at |-> now, raw |-> IF f.valid THEN f.raw ELSE 0,
                         run |-> RunAfter(f), range |-> r.range]
<1>1. PICK f \in Frames, budget \in BOOLEAN :
        LET raw == Evaluate(mem, band, f)
            r == IF raw.lp = "Deploy" /\ ~budget THEN Deferred(mem, raw, flat) ELSE raw
        IN  /\ mem' = r.state /\ d' = r.lp
            /\ seen' = [at |-> now, raw |-> IF f.valid THEN f.raw ELSE 0,
                        run |-> RunAfter(f), range |-> r.range]
  BY DEF Assess
<1>2. Frame(f) /\ f.now = now /\ f.lp = lp
  <2>1. f.raw \in Nat \ {0}
    <3>1. f.raw \in IF best = 0 THEN {Capital} ELSE Equities
      BY DEF Frames
    <3>2. Capital \in Nat \ {0} /\ Equities \subseteq Nat \ {0}
      BY Numbers, EquitiesAssumption
    <3> QED BY <3>1, <3>2
  <2>2. f.side \in -1..1
    BY DEF Frames
  <2>3. /\ f.now = now /\ f.lp = lp /\ f.valid \in BOOLEAN /\ f.candles \in BOOLEAN
        /\ f.market \in {"danger", "uneasy", "recovered"}
    BY DEF Frames
  <2> QED BY <2>1, <2>2, <2>3 DEF Frame, TypeOK
<1> DEFINE raw == Evaluate(mem, band, f)
           r == IF raw.lp = "Deploy" /\ ~budget THEN Deferred(mem, raw, flat) ELSE raw
<1>3. mem \in Strategy /\ band \in BOOLEAN /\ flat \in BOOLEAN
  BY DEF TypeOK
<1>4. Judged(r, f)
  <2>1. CASE ~f.valid
    <3>1. Ignored(raw, mem)
      BY <1>3, <2>1, EvaluateIgnores
    <3>2. r = raw
      BY <3>1 DEF Ignored
    <3> QED BY <2>1, <3>1, <3>2 DEF Judged
  <2>2. CASE f.valid /\ ~f.candles
    <3>1. Blinded(raw, mem, f)
      BY <1>2, <1>3, <2>2, EvaluateBlind
    <3>2. r = raw
      BY <3>1 DEF Blinded
    <3> QED BY <2>2, <3>1, <3>2 DEF Judged
  <2>3. CASE f.valid /\ f.candles
    <3> DEFINE o == Observed(mem, band, f)
    <3>1. raw = Decide(o, band, f)
      BY <2>3 DEF Evaluate
    <3>2. Sees(o, mem, f) /\ Hours(o, mem, f)
      BY <1>2, <1>3, ObservedKeeps
    <3> HIDE DEF o
    <3>3. \E t : /\ Sees(t, mem, f) /\ Hours(t, mem, f)
                 /\ LET r0 == Decide(o, band, f)
                    IN  \/ Leaves(r0, t, f) \/ Rolls(r0, t, f) \/ Stays(r0, t, f)
                        \/ Enters(r0, t, f) \/ Waits(r0, t, f)
      BY <1>2, <1>3, <3>2, DecideIs
    <3> HIDE DEF raw
    <3>4. PICK t : /\ Sees(t, mem, f) /\ Hours(t, mem, f)
                   /\ \/ Leaves(raw, t, f) \/ Rolls(raw, t, f) \/ Stays(raw, t, f)
                      \/ Enters(raw, t, f) \/ Waits(raw, t, f)
      BY <3>1, <3>3
    <3>5. CASE raw.lp = "Deploy" /\ ~budget
      <4>1. Enters(raw, t, f)
        BY <3>4, <3>5 DEF Leaves, Rolls, Stays, Waits
      <4>2. Defers(r, mem, t) /\ ~f.lp
        BY <1>3, <3>4, <3>5, <4>1, DeferredDefers DEF Enters
      <4> QED BY <2>3, <3>4, <4>2 DEF Judged
    <3>6. CASE ~(raw.lp = "Deploy" /\ ~budget)
      <4>1. r = raw
        BY <3>6
      <4> QED BY <2>3, <3>4, <4>1 DEF Judged
    <3> QED BY <3>5, <3>6
  <2> QED BY <1>2, <2>1, <2>2, <2>3 DEF Frame
<1> QED BY <1>1, <1>2, <1>4

\* What holds of the strategy when the cycle begins.
LEMMA AtCycle ==
    ASSUME IInv, pc = "cycle"
    PROVE  /\ mem \in Strategy /\ checkpoint = mem /\ band \in BOOLEAN /\ lp \in BOOLEAN
           /\ now \in Nat /\ mintedAt \in Nat /\ mintedAt <= now /\ best \in Nat /\ high \in Nat
           /\ leftAt.at \in Nat /\ leftAt.at <= now /\ leftAt.range \in BOOLEAN
           /\ Wait(leftAt.range) \in Nat
           /\ ~workflow /\ unwinding = "no" /\ flying = "none"
           /\ mem.phase = "Active" => lp
           /\ mem.phase = "Warmup" => ~opened
           /\ lp => opened
           /\ opened => mem.history = "Established" /\ lpHistory
           /\ Holds(mem)
           /\ opened /\ mem.phase = "Paused" => WaitsUntil(mem) >= Due
           /\ Counted(mem, run) /\ Peaks(mem, best, high)
<1>1. /\ mem \in Strategy /\ band \in BOOLEAN /\ lp \in BOOLEAN
      /\ now \in Nat /\ mintedAt \in Nat /\ best \in Nat /\ high \in Nat
      /\ leftAt.at \in Nat /\ leftAt.range \in BOOLEAN
  BY DEF IInv, TypeOK
<1>2. checkpoint = mem
  BY DEF IInv, SavedInv
<1>3. Wait(leftAt.range) \in Nat
  BY <1>1, Numbers DEF Wait, Smaller
<1>4. ~workflow /\ unwinding = "no" /\ flying = "none"
  BY DEF IInv, WorkflowInv
<1>5. (mem.phase = "Active" => lp) /\ (mem.phase = "Warmup" => ~opened)
  BY <1>2 DEF IInv, PositionInv
<1>6. (lp => opened) /\ (opened => mem.history = "Established" /\ lpHistory)
  BY DEF IInv, HistoryInv
<1>7. mintedAt <= now /\ Holds(mem)
  BY <1>2 DEF IInv, HoldingInv
<1>8. leftAt.at <= now /\ (opened /\ mem.phase = "Paused" => WaitsUntil(mem) >= Due)
  BY <1>2 DEF IInv, DeadlineInv
<1>9. Counted(mem, run) /\ Peaks(mem, best, high)
  BY <1>2 DEF IInv, CountedInv, EquityInv
<1> QED BY <1>1, <1>2, <1>3, <1>4, <1>5, <1>6, <1>7, <1>8, <1>9

\* A judgement in a state of the invariant.
Verdict(r, f) ==
    /\ IInv /\ pc = "cycle"
    /\ Frame(f) /\ f.now = now /\ f.lp = lp /\ Judged(r, f)

USE DEF Verdict

\* A verdict is a strategy, an intent and a cause, and ends no halt.
LEMMA VerdictType ==
    ASSUME NEW r, NEW f, Verdict(r, f)
    PROVE  /\ r.state \in Strategy /\ r.range \in BOOLEAN
           /\ r.lp \in {"Nothing", "Hold", "Deploy", "ExitToQuote", "Recenter"}
           /\ mem.phase = "Halted" => r.state.phase = "Halted"
  BY DEF Judged, Ignored, Blinded, Leaves, Rolls, Stays, Enters, Waits, Defers, Kept, Sees

\* Its intent fits the position and the phase.
LEMMA VerdictPosition ==
    ASSUME NEW r, NEW f, Verdict(r, f)
    PROVE  /\ r.lp \in {"Nothing", "Hold"} /\ r.state.phase = "Active" => lp
           /\ r.lp \in {"Deploy", "Recenter"} =>
                r.state.phase = "Active" /\ (band => r.state.entered = 0)
           /\ r.lp = "ExitToQuote" => r.state.phase \in {"Paused", "Halted"}
           /\ r.lp = "Recenter" => band /\ lp
           /\ r.lp = "Deploy" => ~lp
           /\ r.state.phase = "Warmup" => r.lp = "Nothing" /\ ~opened
<1>1. (mem.phase = "Active" => lp) /\ (mem.phase = "Warmup" => ~opened)
  BY AtCycle
<1>2. CASE ~f.valid /\ Ignored(r, mem)
  BY <1>1, <1>2 DEF Ignored
<1>3. CASE Blinded(r, mem, f)
  BY <1>1, <1>3 DEF Blinded
<1>4. ASSUME NEW o, Sees(o, mem, f),
             \/ Leaves(r, o, f) \/ Rolls(r, o, f) \/ Stays(r, o, f)
             \/ Enters(r, o, f) \/ Waits(r, o, f)
      PROVE  /\ r.lp \in {"Nothing", "Hold"} /\ r.state.phase = "Active" => lp
             /\ r.lp \in {"Deploy", "Recenter"} =>
                  r.state.phase = "Active" /\ (band => r.state.entered = 0)
             /\ r.lp = "ExitToQuote" => r.state.phase \in {"Paused", "Halted"}
             /\ r.lp = "Recenter" => band /\ lp
             /\ r.lp = "Deploy" => ~lp
             /\ r.state.phase # "Warmup"
  BY <1>4 DEF Leaves, Rolls, Stays, Enters, Waits
<1>5. ASSUME NEW o, Defers(r, mem, o)
      PROVE  /\ r.lp \in {"Nothing", "Hold"} /\ r.state.phase = "Active" => lp
             /\ r.lp \in {"Nothing", "ExitToQuote"}
             /\ r.lp = "ExitToQuote" => r.state.phase \in {"Paused", "Halted"}
             /\ r.state.phase = "Warmup" => r.lp = "Nothing" /\ ~opened
  BY <1>1, <1>5 DEF Defers
<1> QED BY <1>2, <1>3, <1>4, <1>5 DEF Judged

\* It knows that there was a position.
LEMMA VerdictHistory ==
    ASSUME NEW r, NEW f, Verdict(r, f), opened
    PROVE  r.state.history = "Established"
<1>1. mem.history = "Established"
  BY AtCycle
<1> QED BY <1>1 DEF Judged, Ignored, Blinded, Leaves, Rolls, Stays, Enters, Waits, Defers, Kept, Sees

\* The clock of a position begins no sooner than it, so a roll is never too soon.
LEMMA VerdictHolding ==
    ASSUME NEW r, NEW f, Verdict(r, f)
    PROVE  /\ Holds(r.state)
           /\ r.lp = "Recenter" => now - mintedAt >= MinHolding
<1>1. /\ Holds(mem) /\ now \in Nat /\ mintedAt \in Nat /\ mintedAt <= now
      /\ mem.entered \in Nat /\ band \in BOOLEAN
  BY AtCycle DEF Strategy
<1>2. CASE r.state.entered = mem.entered /\ r.lp # "Recenter"
  BY <1>1, <1>2 DEF Holds
<1>3. ASSUME NEW o, Sees(o, mem, f)
      PROVE  Holds(o) /\ (band /\ lp => o.entered \in Nat /\ o.entered >= mintedAt)
  <2>1. o.entered \in {0, now, mem.entered}
    BY <1>3 DEF Sees
  <2>2. band /\ lp => o.entered = now \/ (o.entered = mem.entered /\ mem.entered # 0)
    BY <1>3 DEF Sees
  <2> QED BY <1>1, <2>1, <2>2 DEF Holds
<1>4. ASSUME NEW o, Sees(o, mem, f), r.state.entered = o.entered, r.lp # "Recenter"
      PROVE  Holds(r.state)
  BY <1>3, <1>4 DEF Holds
<1>5. ASSUME NEW o, Sees(o, mem, f), Rolls(r, o, f)
      PROVE  Holds(r.state) /\ now - mintedAt >= MinHolding
  <2>1. o.entered \in Nat /\ o.entered >= mintedAt /\ now - o.entered >= MinHolding
    BY <1>3, <1>5 DEF Rolls
  <2> QED BY <1>1, <1>5, <2>1, Numbers DEF Rolls, Holds
<1>6. ASSUME NEW o, Sees(o, mem, f), Enters(r, o, f)
      PROVE  Holds(r.state) /\ r.lp # "Recenter"
  BY <1>6 DEF Enters, Holds
<1>7. CASE ~f.valid /\ Ignored(r, mem)
  BY <1>2, <1>7 DEF Ignored
<1>8. CASE Blinded(r, mem, f)
  BY <1>2, <1>8 DEF Blinded
<1>9. ASSUME NEW o, Defers(r, mem, o)
      PROVE  r.state.entered = mem.entered /\ r.lp # "Recenter"
  BY <1>9 DEF Defers
<1>10. ASSUME NEW o, Leaves(r, o, f) \/ Stays(r, o, f) \/ Waits(r, o, f)
       PROVE  r.state.entered = o.entered /\ r.lp # "Recenter"
  BY <1>10 DEF Leaves, Stays, Waits
<1> QED BY <1>2, <1>4, <1>5, <1>6, <1>7, <1>8, <1>9, <1>10 DEF Judged

\* A pause waits for what the exit before it makes due.
LEMMA VerdictDeadline ==
    ASSUME NEW r, NEW f, Verdict(r, f), opened, r.state.phase = "Paused"
    PROVE  WaitsUntil(r.state) >= IF r.lp = "ExitToQuote" /\ lp
                                  THEN now + Wait(r.range) ELSE Due
<1>1. /\ mem.phase = "Active" => lp
      /\ mem.phase # "Warmup"
      /\ mem.phase = "Paused" => WaitsUntil(mem) >= Due
      /\ now \in Nat /\ mem \in Strategy
  BY AtCycle
<1>2. \A range \in BOOLEAN : (IF range THEN BarTicks ELSE Cooldown) >= Wait(range)
  BY Numbers DEF Wait, Smaller
<1>3. WaitsUntil(mem) \in Int /\ \A range \in BOOLEAN : Wait(range) \in Int
  BY <1>1, Numbers DEF WaitsUntil, Strategy, Wait, Smaller
<1>4. CASE ~f.valid /\ Ignored(r, mem)
  BY <1>1, <1>4 DEF Ignored
<1>5. CASE Blinded(r, mem, f)
  BY <1>1, <1>5 DEF Blinded
<1>6. ASSUME NEW o, Sees(o, mem, f), Leaves(r, o, f)
      PROVE  WaitsUntil(r.state) >= IF lp THEN now + Wait(r.range) ELSE Due
  <2>1. CASE o.phase = "Paused" /\ ~lp
    <3>1. WaitsUntil(r.state) = WaitsUntil(o) /\ WaitsUntil(o) = WaitsUntil(mem)
      BY <1>6, <2>1 DEF Leaves, Sees
    <3>2. mem.phase = "Paused"
      BY <1>6, <2>1 DEF Sees
    <3> QED BY <1>1, <2>1, <3>1, <3>2
  <2>2. CASE ~(o.phase = "Paused" /\ ~lp) /\ o.phase # "Halted"
    <3>1. lp
      BY <1>1, <1>6, <2>2 DEF Sees, Strategy, Phases
    <3>2. /\ WaitsUntil(r.state) = now + IF r.range THEN BarTicks ELSE Cooldown
          /\ r.range \in BOOLEAN
      BY <1>6, <2>2 DEF Leaves
    <3>3. (IF r.range THEN BarTicks ELSE Cooldown) >= Wait(r.range)
      BY <1>2, <3>2
    <3>4. Wait(r.range) \in Int /\ (IF r.range THEN BarTicks ELSE Cooldown) \in Int
      BY <1>3, <3>2, Numbers
    <3> QED BY <1>1, <3>1, <3>2, <3>3, <3>4
  <2>3. CASE o.phase = "Halted"
    BY <1>6, <2>3 DEF Leaves
  <2> QED BY <2>1, <2>2, <2>3
<1>7. ASSUME NEW o, Sees(o, mem, f), Waits(r, o, f)
      PROVE  WaitsUntil(r.state) >= Due /\ ~lp
  <2>1. o.phase = "Paused"
    BY <1>1, <1>7 DEF Waits, Sees, Strategy, Phases
  <2>2. WaitsUntil(r.state) = WaitsUntil(mem) /\ mem.phase = "Paused"
    BY <1>7, <2>1 DEF Waits, Sees
  <2> QED BY <1>1, <1>7, <2>2 DEF Waits
<1>8. ASSUME NEW o, Sees(o, mem, f), Defers(r, mem, o), ~lp
      PROVE  WaitsUntil(r.state) >= Due
  <2>1. mem.phase = "Paused"
    BY <1>1, <1>8 DEF Defers, Sees, Strategy, Phases
  <2> QED BY <1>1, <1>8, <2>1 DEF Defers
<1>9. ASSUME NEW o, Rolls(r, o, f) \/ Stays(r, o, f) \/ Enters(r, o, f)
      PROVE  FALSE
  BY <1>9 DEF Rolls, Stays, Enters
<1>10. \A o : Leaves(r, o, f) => r.lp = "ExitToQuote"
  BY DEF Leaves
<1>11. CASE \E o : Sees(o, mem, f) /\ Leaves(r, o, f)
  BY <1>6, <1>10, <1>11
<1>12. CASE \E o : Sees(o, mem, f) /\ Waits(r, o, f)
  BY <1>7, <1>12
<1>13. CASE \E o : Sees(o, mem, f) /\ ~lp /\ Defers(r, mem, o)
  BY <1>8, <1>13
<1> QED BY <1>4, <1>5, <1>9, <1>11, <1>12, <1>13 DEF Judged

\* The healthy hours of an observation are among those found so.
LEMMA HoursCounted ==
    ASSUME IInv, pc = "cycle", NEW f, Frame(f), f.now = now, f.valid, f.candles,
           NEW o, Sees(o, mem, f), Hours(o, mem, f)
    PROVE  Counted(o, RunAfter(f))
<1> DEFINE gap == mem.observed > 0 /\ f.now - mem.observed > MaxAge
           before == IF gap THEN 0 ELSE mem.healthy
           kept == IF gap THEN {} ELSE run
           t == Hour(now)
<1>1. /\ mem.hour \in Nat /\ mem.healthy \in Nat /\ t \in Nat /\ o.hour = t
      /\ o.healthy \in 0..Need /\ Need \in Nat /\ Need > 0
  BY AtCycle, HourOf, Numbers DEF Strategy, Sees
<1>2. /\ mem.hour <= t /\ (mem.hour = 0 => mem.healthy = 0)
      /\ \A k \in 0..Need : k < mem.healthy => mem.hour - k \in run
  BY AtCycle DEF Counted
<1>3. /\ before \in Nat /\ (mem.hour = 0 => before = 0)
      /\ \A k \in 0..Need : k < before => mem.hour - k \in kept
  BY <1>1, <1>2
<1>4. \/ o.healthy = 0
      \/ f.market # "danger" /\ t = mem.hour /\ o.healthy = before
      \/ /\ f.market = "recovered" /\ t > mem.hour
         /\ o.healthy = 1 \/ mem.hour = 0 \/ t = mem.hour + 1
         /\ o.healthy <= before + 1
  BY DEF Hours
<1>5. RunAfter(f) =
        CASE ~f.valid \/ ~f.candles \/ f.market = "danger" -> {}
          [] f.valid /\ f.candles /\ f.market # "danger" /\ t = mem.hour -> kept
          [] f.valid /\ f.candles /\ f.market = "uneasy" /\ t # mem.hour -> {}
          [] OTHER -> {h \in kept : t - h < Need} \cup {t}
  BY DEF RunAfter
<1> HIDE DEF before, kept, t
<1>6. CASE o.healthy = 0
  <2>1. \A k \in 0..Need : ~(k < o.healthy)
    BY <1>1, <1>6
  <2> QED BY <1>1, <1>6, <2>1 DEF Counted, t
<1>7. CASE f.market # "danger" /\ t = mem.hour /\ o.healthy = before
  <2>1. RunAfter(f) = kept
    BY <1>5, <1>7
  <2> QED BY <1>1, <1>3, <1>7, <2>1 DEF Counted, t
<1>8. CASE /\ f.market = "recovered" /\ t > mem.hour
           /\ o.healthy = 1 \/ mem.hour = 0 \/ t = mem.hour + 1
           /\ o.healthy <= before + 1
  <2>1. RunAfter(f) = {h \in kept : t - h < Need} \cup {t}
    <3>1. t # mem.hour
      BY <1>1, <1>8
    <3> QED BY <1>5, <1>8, <3>1
  <2>2. ASSUME NEW k \in 0..Need, k < o.healthy PROVE t - k \in RunAfter(f)
    <3>1. CASE k = 0
      <4>1. t - k = t
        BY <1>1, <3>1
      <4> QED BY <2>1, <4>1
    <3>2. CASE k # 0
      <4>1. t = mem.hour + 1 /\ k - 1 \in 0..Need /\ k - 1 < before
        BY <1>1, <1>3, <1>8, <2>2, <3>2
      <4>2. mem.hour - (k - 1) \in kept
        BY <1>3, <4>1
      <4>3. mem.hour - (k - 1) = t - k /\ t - (t - k) < Need
        BY <1>1, <2>2, <4>1
      <4> QED BY <2>1, <4>2, <4>3
    <3> QED BY <3>1, <3>2
  <2>3. t # 0
    BY <1>1, <1>8
  <2> QED BY <1>1, <2>2, <2>3 DEF Counted, t
<1> QED BY <1>4, <1>6, <1>7, <1>8

\* So are those of a verdict.
LEMMA VerdictCounted ==
    ASSUME NEW r, NEW f, Verdict(r, f)
    PROVE  Counted(r.state, RunAfter(f))
<1>1. mem \in Strategy /\ Counted(mem, run) /\ now \in Nat
  BY AtCycle
<1>2. CASE r.state.healthy = 0 /\ r.state.hour = mem.hour
  <2>1. \A k \in 0..Need : ~(k < r.state.healthy)
    BY <1>2, Numbers
  <2> QED BY <1>1, <1>2, <2>1 DEF Counted
<1>3. CASE ~f.valid /\ Ignored(r, mem)
  BY <1>2, <1>3 DEF Ignored
<1>4. CASE Blinded(r, mem, f)
  BY <1>2, <1>4 DEF Blinded
<1>5. ASSUME f.valid, f.candles, NEW o, Sees(o, mem, f), Hours(o, mem, f),
             r.state \in Strategy, r.state.hour = o.hour, r.state.healthy \in {0, o.healthy}
      PROVE  Counted(r.state, RunAfter(f))
  <2>1. Counted(o, RunAfter(f))
    BY <1>5, HoursCounted
  <2>2. \A k \in 0..Need : k < r.state.healthy => k < o.healthy
    BY <1>5, Numbers DEF Strategy, Sees
  <2> QED BY <1>5, <2>1, <2>2 DEF Counted
<1>6. ASSUME NEW o, \/ Leaves(r, o, f) \/ Rolls(r, o, f) \/ Stays(r, o, f)
                    \/ Enters(r, o, f) \/ Waits(r, o, f) \/ Defers(r, mem, o)
      PROVE  /\ r.state \in Strategy /\ r.state.hour = o.hour
             /\ r.state.healthy \in {0, o.healthy}
  BY <1>6 DEF Leaves, Rolls, Stays, Enters, Waits, Defers, Kept
<1> QED BY <1>3, <1>4, <1>5, <1>6 DEF Judged

\* An entry after a position was earned.
LEMMA VerdictEarned ==
    ASSUME NEW r, NEW f, Verdict(r, f), r.lp = "Deploy", opened
    PROVE  /\ \A k \in 0..(Need - 1) : Hour(now) - k \in RunAfter(f)
           /\ now - leftAt.at >= Wait(leftAt.range)
<1>1. PICK o : /\ f.valid /\ f.candles /\ Sees(o, mem, f) /\ Hours(o, mem, f)
               /\ Enters(r, o, f)
  BY DEF Judged, Ignored, Blinded, Leaves, Rolls, Stays, Waits, Defers
<1>2. /\ mem.phase = "Active" => lp
      /\ mem.phase # "Warmup" /\ mem.history = "Established"
      /\ mem.phase = "Paused" => WaitsUntil(mem) >= Due
      /\ now \in Nat /\ mem \in Strategy
      /\ leftAt.at \in Nat /\ Wait(leftAt.range) \in Nat
  BY AtCycle
<1>3. o.phase = "Paused" /\ mem.phase = "Paused"
  BY <1>1, <1>2 DEF Enters, Sees, Strategy, Phases
<1>4. o.healthy >= Need /\ now >= WaitsUntil(o)
  BY <1>1, <1>2, <1>3 DEF Enters, Sees
<1>5. Counted(o, RunAfter(f))
  BY <1>1, HoursCounted
<1>6. \A k \in 0..(Need - 1) : Hour(now) - k \in RunAfter(f)
  <2>1. o.hour = Hour(now) /\ o.healthy \in 0..Need /\ Need \in Nat
    BY <1>1, Numbers DEF Sees, Strategy
  <2>2. \A k \in 0..(Need - 1) : k \in 0..Need /\ k < o.healthy
    BY <1>4, <2>1
  <2> QED BY <1>5, <2>1, <2>2 DEF Counted
<1>7. now - leftAt.at >= Wait(leftAt.range)
  <2>1. WaitsUntil(o) = WaitsUntil(mem)
    BY <1>1, <1>3 DEF Sees
  <2>2. WaitsUntil(mem) \in Int
    BY <1>2, Numbers DEF WaitsUntil, Strategy
  <2> QED BY <1>2, <1>3, <1>4, <2>1, <2>2 DEF Due
<1> QED BY <1>6, <1>7

\* The highest equity since the decision to open the position, intent by intent.
LEMMA HighOfIs ==
    ASSUME NEW intent, NEW raw
    PROVE  /\ intent \in {"Deploy", "Recenter"} => HighOf(intent, raw) = raw
           /\ intent = "ExitToQuote" => HighOf(intent, raw) = 0
           /\ intent = "Nothing" => HighOf(intent, raw) = high
           /\ intent = "Hold" => HighOf(intent, raw) = Larger(high, raw)
  BY DEF HighOf

\* The basis and the peak of what is observed of s: what the peak covers, and
\* that the loss from the highest equity saved halts.
LEMMA PeakCovers ==
    ASSUME band \in BOOLEAN, best \in Nat, high \in Nat,
           NEW s \in Strategy, Peaks(s, best, high), NEW f, Frame(f),
           NEW t \in Strategy, Measured(t, f), t.peak >= s.peak,
           t.origin = IF band /\ s.origin = 0 THEN f.raw ELSE s.origin
    PROVE  /\ band => t.origin # 0 /\ t.peak >= Capital + Larger(best, f.raw) - t.origin
           /\ ~band => t.peak >= Larger(best, f.raw)
           /\ band /\ high # 0 => s.episode >= Capital + high - t.origin
           /\ s.episode <= t.peak
           /\ best # 0 /\ (best - f.raw) * 400 >= MaxLoss * t.peak => t.phase = "Halted"
<1> DEFINE p == t.peak
           e == Equity(t, band, f.raw)
           o == t.origin
<1>1. /\ f.raw \in Nat /\ f.raw > 0 /\ p \in Nat /\ o \in Nat /\ s.peak \in Nat
      /\ s.episode \in Int /\ s.origin \in Nat /\ Capital \in Nat /\ MaxLoss \in Nat
  BY Numbers DEF Frame, Strategy
<1>2. /\ e \in Int /\ (band => e = Capital + f.raw - o) /\ (~band => e = f.raw)
  BY <1>1, EquityIs
<1>3. /\ p >= e /\ p >= s.peak
      /\ (p - e) * 400 >= MaxLoss * p => t.phase = "Halted"
  BY DEF Measured
<1>4. band => o # 0
  BY <1>1
<1>5. /\ best # 0 => IF band THEN s.origin # 0 /\ s.peak >= Capital + best - s.origin
                     ELSE s.peak >= best
      /\ band /\ high # 0 => s.origin # 0 /\ s.episode >= Capital + high - s.origin
      /\ s.episode <= s.peak
  BY DEF Peaks
<1>6. band /\ s.origin # 0 => o = s.origin
  OBVIOUS
<1> HIDE DEF p, e, o
<1>7. best # 0 => IF band THEN p >= Capital + best - o ELSE p >= best
  BY <1>1, <1>3, <1>5, <1>6
<1>8. band => p >= Capital + Larger(best, f.raw) - o
  BY <1>1, <1>2, <1>3, <1>7 DEF Larger
<1>9. ~band => p >= Larger(best, f.raw)
  BY <1>1, <1>2, <1>3, <1>7 DEF Larger
<1>10. ASSUME best # 0, (best - f.raw) * 400 >= MaxLoss * p PROVE t.phase = "Halted"
  <2>1. p - e >= best - f.raw
    BY <1>1, <1>2, <1>7, <1>10
  <2>2. (p - e) * 400 >= (best - f.raw) * 400
    BY <1>1, <1>2, <2>1
  <2>3. MaxLoss * p \in Int /\ (p - e) * 400 \in Int /\ (best - f.raw) * 400 \in Int
    BY <1>1, <1>2
  <2> QED BY <1>3, <1>10, <2>2, <2>3
<1> QED BY <1>1, <1>3, <1>4, <1>5, <1>6, <1>8, <1>9, <1>10 DEF p, o

\* The equity that will be saved.
Worth(f) == IF f.valid THEN f.raw ELSE 0

\* The verdict's peaks cover every equity acted upon.
LEMMA VerdictEquity ==
    ASSUME NEW r, NEW f, Verdict(r, f)
    PROVE  Peaks(r.state, IF band /\ r.state.origin = 0 THEN 0 ELSE Larger(best, Worth(f)),
                 HighOf(r.lp, Worth(f)))
<1> DEFINE x == Worth(f)
           b == IF band /\ r.state.origin = 0 THEN 0 ELSE Larger(best, x)
           h == HighOf(r.lp, x)
           t == r.state
<1>1. /\ mem \in Strategy /\ band \in BOOLEAN /\ best \in Nat /\ high \in Nat
      /\ Peaks(mem, best, high)
  BY AtCycle
<1>2. /\ mem.peak \in Nat /\ mem.origin \in Nat /\ mem.episode \in Int
      /\ f.raw \in Nat /\ Capital \in Nat
  BY <1>1, Numbers DEF Strategy, Frame
<1>3. r.lp = "Nothing" => h = high
  BY HighOfIs
<1>4. r.lp = "ExitToQuote" => h = 0
  BY HighOfIs
<1> HIDE DEF b, h, x
<1>5. ASSUME ~f.valid, Ignored(r, mem) PROVE Peaks(t, b, h)
  <2>1. x = 0 /\ h = high /\ t.origin = mem.origin /\ t.peak = mem.peak
        /\ t.episode = mem.episode
    BY <1>3, <1>5 DEF Ignored, Worth, x
  <2>2. Larger(best, x) = best
    BY <1>1, <2>1 DEF Larger
  <2> QED BY <1>1, <2>1, <2>2 DEF Peaks, b
<1>6. ASSUME f.valid, NEW o \in Strategy, Measured(o, f), o.peak >= mem.peak,
             o.origin = IF band /\ mem.origin = 0 THEN f.raw ELSE mem.origin,
             t.peak = o.peak, t.origin = o.origin, t.episode \in Int, t.episode <= o.peak,
             band /\ h # 0 => t.episode >= Capital + h - o.origin
      PROVE  Peaks(t, b, h)
  <2>1. x = f.raw
    BY <1>6 DEF Worth, x
  <2>2. /\ band => o.origin # 0 /\ o.peak >= Capital + Larger(best, f.raw) - o.origin
        /\ ~band => o.peak >= Larger(best, f.raw)
    BY <1>1, <1>6, PeakCovers
  <2>3. b = Larger(best, f.raw)
    BY <1>1, <1>6, <2>1, <2>2 DEF b
  <2> QED BY <1>1, <1>6, <2>2, <2>3 DEF Peaks
<1>7. ASSUME NEW o, Sees(o, mem, f)
      PROVE  /\ o \in Strategy /\ Measured(o, f) /\ o.peak >= mem.peak
             /\ o.origin = IF band /\ mem.origin = 0 THEN f.raw ELSE mem.origin
             /\ o.episode \in Int /\ o.episode <= o.peak
  BY <1>1, <1>7 DEF Sees, Peaks, Strategy
<1>8. ASSUME f.valid, Blinded(r, mem, f) PROVE Peaks(t, b, h)
  <2>1. /\ t \in Strategy /\ Measured(t, f) /\ t.peak >= mem.peak
        /\ t.origin = IF band /\ mem.origin = 0 THEN f.raw ELSE mem.origin
        /\ t.episode = mem.episode
    BY <1>8 DEF Blinded
  <2>2. /\ band /\ high # 0 => mem.episode >= Capital + high - t.origin
        /\ mem.episode <= t.peak
    BY <1>1, <2>1, PeakCovers
  <2>3. h \in {0, high}
    BY <1>3, <1>4, <1>8 DEF Blinded
  <2>4. band /\ h # 0 => t.episode >= Capital + h - t.origin
    BY <2>1, <2>2, <2>3
  <2>5. t.episode \in Int /\ t.episode <= t.peak
    BY <1>2, <2>1, <2>2
  <2> QED BY <1>6, <1>8, <2>1, <2>4, <2>5
<1>9. ASSUME f.valid, NEW o, Sees(o, mem, f), Leaves(r, o, f) \/ Waits(r, o, f)
      PROVE  Peaks(t, b, h)
  <2>1. r.lp = "ExitToQuote" /\ Kept(t, o) /\ t.episode = o.episode
    BY <1>9 DEF Leaves, Waits
  <2>2. h = 0
    BY <1>4, <2>1
  <2>3. t.peak = o.peak /\ t.origin = o.origin
    BY <2>1 DEF Kept
  <2> QED BY <1>6, <1>7, <1>9, <2>1, <2>2, <2>3
<1>10. ASSUME f.valid, NEW o, Sees(o, mem, f), Stays(r, o, f)
       PROVE  Peaks(t, b, h)
  <2>1. r.lp = "Hold" /\ Kept(t, o) /\ t.episode = o.episode /\ o.phase # "Halted"
    BY <1>10 DEF Stays
  <2>2. h = Larger(high, f.raw)
    BY <1>10, <2>1, HighOfIs DEF Worth, h, x
  <2>3. t.peak = o.peak /\ t.origin = o.origin
    BY <2>1 DEF Kept
  <2>4. ASSUME band = TRUE PROVE o.episode >= Capital + Larger(high, f.raw) - o.origin
    <3>1. Equity(o, band, f.raw) = Capital + f.raw - o.origin
      BY <1>2, <1>7, <1>10, <2>4, EquityIs
    <3>2. o.episode >= Capital + f.raw - o.origin /\ Capital + f.raw - o.origin > 0
      BY <1>7, <1>10, <2>1, <2>4, <3>1 DEF Sees, Measured
    <3>3. high # 0 => mem.episode >= Capital + high - o.origin
      BY <1>1, <1>7, <1>10, <2>4, PeakCovers
    <3>4. mem.episode # 0 => o.episode >= mem.episode
      BY <1>10, <2>4 DEF Sees
    <3>5. o.origin \in Nat /\ o.episode \in Int
      BY <1>7, <1>10 DEF Strategy
    <3>6. high # 0 => o.episode >= Capital + high - o.origin
      BY <1>1, <1>2, <3>2, <3>3, <3>4, <3>5
    <3>7. high = 0 => Larger(high, f.raw) = f.raw
      BY <1>2 DEF Larger
    <3> QED BY <1>1, <1>2, <3>2, <3>5, <3>6, <3>7 DEF Larger
  <2> QED BY <1>1, <1>6, <1>7, <1>10, <2>1, <2>2, <2>3, <2>4
<1>11. ASSUME f.valid, NEW o, Sees(o, mem, f), Kept(t, o), band = TRUE,
              r.lp \in {"Deploy", "Recenter"}, t.episode = Equity(o, TRUE, f.raw)
       PROVE  Peaks(t, b, h)
  <2>1. h = f.raw
    BY <1>11, HighOfIs DEF Worth, h, x
  <2>2. t.peak = o.peak /\ t.origin = o.origin
    BY <1>11 DEF Kept
  <2>3. o \in Strategy /\ Capital + f.raw - o.origin \in Int
    BY <1>2, <1>7, <1>11 DEF Strategy
  <2>4. Equity(o, TRUE, f.raw) = Capital + f.raw - o.origin
    BY <1>1, <1>2, <2>3, EquityIs
  <2>5. t.episode = Capital + f.raw - o.origin /\ t.episode \in Int
    BY <1>11, <2>3, <2>4
  <2>6. h # 0 => t.episode >= Capital + h - o.origin
    BY <2>1, <2>5, <2>3
  <2>7. t.episode <= o.peak
    BY <1>7, <1>11 DEF Measured
  <2> QED BY <1>6, <1>7, <1>11, <2>2, <2>5, <2>7, <2>6
<1>12. ASSUME f.valid, NEW o, Sees(o, mem, f), Kept(t, o), band = FALSE,
              t.episode = o.episode
       PROVE  Peaks(t, b, h)
  <2>1. t.peak = o.peak /\ t.origin = o.origin
    BY <1>12 DEF Kept
  <2> QED BY <1>6, <1>7, <1>12, <2>1
<1>13. ASSUME f.valid, NEW o, Sees(o, mem, f), Defers(r, mem, o)
       PROVE  Peaks(t, b, h)
  <2>1. /\ t.origin = mem.origin /\ t.episode = mem.episode /\ t.peak = o.peak
        /\ r.lp \in {"Nothing", "ExitToQuote"}
    BY <1>13 DEF Defers
  <2>2. h \in {0, high}
    BY <1>3, <1>4, <2>1
  <2>3. /\ band /\ high # 0 => mem.origin # 0 /\ mem.episode >= Capital + high - mem.origin
        /\ mem.episode <= mem.peak
    BY <1>1 DEF Peaks
  <2>4. CASE band /\ mem.origin = 0
    <3>1. b = 0
      BY <2>1, <2>4 DEF b
    <3>2. o.peak \in Nat /\ o.peak >= mem.peak
      BY <1>7, <1>13 DEF Strategy
    <3> QED BY <1>2, <2>1, <2>2, <2>3, <3>1, <3>2 DEF Peaks
  <2>5. CASE ~(band /\ mem.origin = 0)
    <3>1. o.origin = mem.origin
      BY <1>7, <1>13, <2>5
    <3>2. mem.episode <= o.peak
      BY <1>1, <1>7, <1>13, PeakCovers
    <3> QED BY <1>2, <1>6, <1>7, <1>13, <2>1, <2>2, <2>3, <3>1, <3>2
  <2> QED BY <2>4, <2>5
<1>14. ASSUME f.valid, NEW o, Sees(o, mem, f),
              \/ Leaves(r, o, f) \/ Rolls(r, o, f) \/ Stays(r, o, f)
              \/ Enters(r, o, f) \/ Waits(r, o, f) \/ Defers(r, mem, o)
       PROVE  Peaks(t, b, h)
  <2>1. CASE Rolls(r, o, f)
    BY <1>1, <1>11, <1>14, <2>1 DEF Rolls
  <2>2. CASE Enters(r, o, f)
    BY <1>1, <1>11, <1>12, <1>14, <2>2 DEF Enters
  <2> QED BY <1>9, <1>10, <1>13, <1>14, <2>1, <2>2
<1>15. Peaks(t, b, h)
  <2>1. CASE \E o : /\ f.valid /\ Sees(o, mem, f)
                    /\ \/ Leaves(r, o, f) \/ Rolls(r, o, f) \/ Stays(r, o, f)
                       \/ Enters(r, o, f) \/ Waits(r, o, f) \/ Defers(r, mem, o)
    BY <1>14, <2>1
  <2>2. \/ ~f.valid /\ Ignored(r, mem)
        \/ f.valid /\ Blinded(r, mem, f)
        \/ \E o : /\ f.valid /\ Sees(o, mem, f)
                  /\ \/ Leaves(r, o, f) \/ Rolls(r, o, f) \/ Stays(r, o, f)
                     \/ Enters(r, o, f) \/ Waits(r, o, f) \/ Defers(r, mem, o)
    BY DEF Judged
  <2> QED BY <1>5, <1>8, <2>1, <2>2
<1> QED BY <1>15 DEF b, h, x

\* A loss at the limit halts, whatever is decided.
LEMMA VerdictLoss ==
    ASSUME NEW r, NEW f, Verdict(r, f), best # 0, Worth(f) # 0,
           (best - Worth(f)) * 400 >= MaxLoss * r.state.peak
    PROVE  r.state.phase = "Halted"
<1>1. /\ mem \in Strategy /\ band \in BOOLEAN /\ best \in Nat /\ high \in Nat
      /\ Peaks(mem, best, high)
  BY AtCycle
<1>2. f.valid /\ Worth(f) = f.raw
  BY DEF Worth
<1>3. ASSUME NEW o \in Strategy, Measured(o, f), o.peak >= mem.peak,
             o.origin = IF band /\ mem.origin = 0 THEN f.raw ELSE mem.origin,
             r.state.peak = o.peak
      PROVE  o.phase = "Halted"
  BY <1>1, <1>2, <1>3, PeakCovers
<1>4. CASE Blinded(r, mem, f)
  BY <1>3, <1>4 DEF Blinded
<1>5. ASSUME NEW o, Sees(o, mem, f), r.state.peak = o.peak PROVE o.phase = "Halted"
  BY <1>3, <1>5 DEF Sees
<1>6. ASSUME NEW o, Sees(o, mem, f),
             \/ Leaves(r, o, f) \/ Rolls(r, o, f) \/ Stays(r, o, f)
             \/ Enters(r, o, f) \/ Waits(r, o, f) \/ Defers(r, mem, o)
      PROVE  r.state.phase = "Halted"
  BY <1>5, <1>6 DEF Leaves, Rolls, Stays, Enters, Waits, Defers, Kept
<1> QED BY <1>2, <1>4, <1>6 DEF Judged

\* A position is kept only below the early limit.
LEMMA VerdictEpisode ==
    ASSUME NEW r, NEW f, Verdict(r, f), band = TRUE, r.lp \in {"Hold", "Recenter"}
    PROVE  (Larger(high, Worth(f)) - Worth(f)) * 400 < EpisodeLoss * r.state.peak
<1>1. PICK o : /\ f.valid /\ Sees(o, mem, f)
               /\ Rolls(r, o, f) \/ Stays(r, o, f)
  BY DEF Judged, Ignored, Blinded, Leaves, Enters, Waits, Defers
<1>2. Bearable(o, f) /\ o.phase # "Halted" /\ r.state.peak = o.peak
  BY <1>1 DEF Rolls, Stays, Kept
<1>3. /\ mem \in Strategy /\ best \in Nat /\ high \in Nat
      /\ Peaks(mem, best, high)
  BY AtCycle
<1>4. /\ o \in Strategy /\ Measured(o, f) /\ o.peak >= mem.peak
      /\ o.origin = IF band /\ mem.origin = 0 THEN f.raw ELSE mem.origin
      /\ o.episode <= o.peak
  BY <1>1, <1>3 DEF Sees, Peaks
<1> DEFINE e == Capital + f.raw - o.origin
<1>5. /\ f.raw \in Nat /\ Capital \in Nat /\ o.origin \in Nat /\ o.episode \in Int
      /\ o.peak \in Nat /\ EpisodeLoss \in Nat /\ mem.episode \in Int
  BY <1>3, <1>4, Numbers DEF Strategy, Frame
<1>6. Equity(o, band, f.raw) = e /\ Equity(o, TRUE, f.raw) = e
  BY <1>4, <1>5, EquityIs
<1>7. e > 0 /\ o.episode >= e
  BY <1>1, <1>2, <1>4, <1>6 DEF Sees, Measured
<1>8. (o.episode - e) * 400 < EpisodeLoss * o.episode
  BY <1>2, <1>6 DEF Bearable
<1>9. high # 0 => mem.episode >= Capital + high - o.origin
  BY <1>3, <1>4, PeakCovers
<1>10. mem.episode # 0 => o.episode >= mem.episode
  BY <1>1 DEF Sees
<1>11. high # 0 => o.episode >= Capital + high - o.origin
  BY <1>3, <1>5, <1>7, <1>9, <1>10
<1>12. Larger(high, f.raw) - f.raw <= o.episode - e /\ Larger(high, f.raw) \in Nat
  BY <1>3, <1>5, <1>7, <1>11 DEF Larger
<1> DEFINE g == Larger(high, f.raw) - f.raw
           i == o.episode - e
<1>13. g \in Int /\ i \in Int /\ g <= i
  BY <1>5, <1>12
<1> HIDE DEF g, i, e
<1>14. g * 400 <= i * 400
  BY <1>13
<1>15. EpisodeLoss * o.episode <= EpisodeLoss * o.peak
  BY <1>4, <1>5
<1>16. EpisodeLoss * o.episode \in Int /\ EpisodeLoss * o.peak \in Int
  BY <1>5
<1>17. g * 400 < EpisodeLoss * o.peak
  BY <1>8, <1>13, <1>14, <1>15, <1>16 DEF i
<1> QED BY <1>1, <1>2, <1>17 DEF g, Worth

-----------------------------------------------------------------------------
(* What start-up and the end of a cycle do to the strategy. *)

\* Start-up learns of an earlier position and forgets the breakout.
LEMMA LoadState ==
    ASSUME IInv, Load
    PROVE  /\ mem' \in Strategy /\ mem'.phase = checkpoint.phase
           /\ mem'.pause = checkpoint.pause /\ mem'.anchored = checkpoint.anchored
           /\ mem'.deadline = checkpoint.deadline /\ mem'.hour = checkpoint.hour
           /\ mem'.healthy = checkpoint.healthy /\ mem'.peak = checkpoint.peak
           /\ mem'.origin = checkpoint.origin /\ mem'.entered = checkpoint.entered
           /\ mem'.episode = checkpoint.episode
           /\ lpHistory' => mem'.history = "Established"
<1> DEFINE h == RestoreEntryHistory(checkpoint, lpHistory')
<1>1. checkpoint \in Strategy
  BY DEF IInv, TypeOK
<1>2. /\ h \in Strategy /\ h.phase = checkpoint.phase
      /\ h.pause = checkpoint.pause /\ h.anchored = checkpoint.anchored
      /\ h.deadline = checkpoint.deadline /\ h.hour = checkpoint.hour
      /\ h.healthy = checkpoint.healthy /\ h.peak = checkpoint.peak
      /\ h.origin = checkpoint.origin /\ h.entered = checkpoint.entered
      /\ h.episode = checkpoint.episode
      /\ lpHistory' => h.history = "Established"
  BY <1>1 DEF RestoreEntryHistory, Strategy, Histories
<1>3. mem' = ClearStreak(h)
  BY DEF Load
<1> HIDE DEF h
<1>4. Unmoved(mem', h)
  BY <1>2, <1>3, ClearUnmoved
<1> QED BY <1>2, <1>4 DEF Unmoved

\* A held position is remembered.
LEMMA ObserveKeeps ==
    ASSUME NEW s \in Strategy, NEW held \in BOOLEAN
    PROVE  LET t == ObserveLp(s, held)
           IN  /\ t \in Strategy /\ t.phase = s.phase
               /\ t.pause = s.pause /\ t.anchored = s.anchored
               /\ t.deadline = s.deadline /\ t.hour = s.hour
               /\ t.healthy = s.healthy /\ t.peak = s.peak
               /\ t.origin = s.origin /\ t.entered = s.entered /\ t.episode = s.episode
               /\ t.history = IF held THEN "Established" ELSE s.history
  BY DEF ObserveLp, Strategy, Histories

\* A pause of recovery.rs waits a cooldown from now, and no hour is healthy.
LEMMA RecoveryPauses ==
    ASSUME NEW s \in Strategy, now \in Nat
    PROVE  LET t == PausedByRecovery(s)
           IN  /\ t \in Strategy /\ t.phase = "Paused" /\ t.healthy = 0
               /\ WaitsUntil(t) = now + Cooldown
               /\ t.history = s.history /\ t.hour = s.hour /\ t.peak = s.peak
               /\ t.origin = s.origin /\ t.entered = s.entered /\ t.episode = s.episode
<1> DEFINE u == [s EXCEPT !.phase = "Paused", !.pause = now,
                          !.anchored = FALSE, !.healthy = 0]
           t == ClearStreak(u)
<1>1. PausedByRecovery(s) = t
  BY DEF PausedByRecovery
<1>2. u.anchored = FALSE
  BY DEF Strategy
<1>3. /\ u \in Strategy /\ u.phase = "Paused" /\ u.healthy = 0 /\ u.pause = now
      /\ u.history = s.history /\ u.hour = s.hour /\ u.peak = s.peak
      /\ u.origin = s.origin /\ u.entered = s.entered /\ u.episode = s.episode
  BY Numbers DEF Strategy, Phases
<1> HIDE DEF u
<1>4. Unmoved(t, u)
  BY <1>3, ClearUnmoved
<1> HIDE DEF t
<1>5. WaitsUntil(t) = now + Cooldown
  BY <1>2, <1>3, <1>4 DEF WaitsUntil, Unmoved
<1> QED BY <1>1, <1>3, <1>4, <1>5 DEF Unmoved

\* What a start-up saves: an Active strategy without its position is paused.
LEMMA SaveReconciledState ==
    ASSUME IInv, SaveReconciled
    PROVE  /\ mem' \in Strategy /\ mem'.healthy \in {0, mem.healthy}
           /\ mem'.hour = mem.hour /\ mem'.peak = mem.peak
           /\ mem'.origin = mem.origin /\ mem'.entered = mem.entered
           /\ mem'.episode = mem.episode
           /\ mem'.history = IF lp THEN "Established" ELSE mem.history
           /\ mem.phase = "Active" /\ ~lp =>
                mem'.phase = "Paused" /\ WaitsUntil(mem') = now + Cooldown
           /\ ~(mem.phase = "Active" /\ ~lp) =>
                mem'.phase = mem.phase /\ WaitsUntil(mem') = WaitsUntil(mem)
<1> DEFINE o == ObserveLp(mem, lp)
<1>1. mem \in Strategy /\ now \in Nat /\ lp \in BOOLEAN
  BY DEF IInv, TypeOK
<1>2. /\ o \in Strategy /\ o.phase = mem.phase
      /\ o.pause = mem.pause /\ o.anchored = mem.anchored
      /\ o.deadline = mem.deadline /\ o.hour = mem.hour
      /\ o.healthy = mem.healthy /\ o.peak = mem.peak
      /\ o.origin = mem.origin /\ o.entered = mem.entered /\ o.episode = mem.episode
      /\ o.history = IF lp THEN "Established" ELSE mem.history
  BY <1>1, ObserveKeeps
<1>3. mem' = IF o.phase = "Active" /\ ~lp THEN PausedByRecovery(o) ELSE o
  BY DEF SaveReconciled, PauseIncompleteInventory
<1> HIDE DEF o
<1>4. CASE mem.phase = "Active" /\ ~lp
  <2>1. mem' = PausedByRecovery(o)
    BY <1>2, <1>3, <1>4
  <2> DEFINE t == PausedByRecovery(o)
  <2>2. /\ t \in Strategy /\ t.phase = "Paused" /\ t.healthy = 0
        /\ WaitsUntil(t) = now + Cooldown
        /\ t.history = o.history /\ t.hour = o.hour /\ t.peak = o.peak
        /\ t.origin = o.origin /\ t.entered = o.entered /\ t.episode = o.episode
    BY <1>1, <1>2, RecoveryPauses
  <2> HIDE DEF t
  <2>3. WaitsUntil(mem') = WaitsUntil(t)
    BY <2>1 DEF t
  <2> QED BY <1>2, <1>4, <2>1, <2>2, <2>3 DEF t
<1>5. CASE ~(mem.phase = "Active" /\ ~lp)
  <2>1. mem' = o
    BY <1>2, <1>3, <1>5
  <2>2. WaitsUntil(o) = WaitsUntil(mem)
    BY <1>2 DEF WaitsUntil
  <2> QED BY <1>2, <1>5, <2>1, <2>2
<1> QED BY <1>4, <1>5

\* What the unwinding leaves: a pause, unless the strategy is halted.
LEMMA FinishRecoveryState ==
    ASSUME IInv, FinishRecovery
    PROVE  /\ mem' \in Strategy /\ mem'.healthy = 0
           /\ mem'.history = mem.history /\ mem'.hour = mem.hour /\ mem'.peak = mem.peak
           /\ mem'.origin = mem.origin /\ mem'.entered = mem.entered
           /\ mem'.episode = mem.episode
           /\ mem.phase = "Halted" => mem'.phase = "Halted"
           /\ mem.phase # "Halted" =>
                mem'.phase = "Paused" /\ WaitsUntil(mem') = now + Cooldown
<1>1. mem \in Strategy /\ now \in Nat
  BY DEF IInv, TypeOK
<1>2. CASE mem.phase = "Halted"
  <2> DEFINE u == [mem EXCEPT !.healthy = 0]
  <2>1. mem' = ClearStreak(u)
    BY <1>2 DEF FinishRecovery, FinishWorkflowRecovery
  <2>2. /\ u \in Strategy /\ u.healthy = 0 /\ u.phase = mem.phase
        /\ u.history = mem.history /\ u.hour = mem.hour /\ u.peak = mem.peak
        /\ u.origin = mem.origin /\ u.entered = mem.entered /\ u.episode = mem.episode
    BY <1>1, Numbers DEF Strategy
  <2> HIDE DEF u
  <2>3. Unmoved(mem', u)
    BY <2>1, <2>2, ClearUnmoved
  <2> QED BY <1>2, <2>2, <2>3 DEF Unmoved
<1>3. CASE mem.phase # "Halted"
  <2> DEFINE t == PausedByRecovery(mem)
  <2>1. mem' = t
    BY <1>3 DEF FinishRecovery, FinishWorkflowRecovery
  <2>2. /\ t \in Strategy /\ t.phase = "Paused" /\ t.healthy = 0
        /\ WaitsUntil(t) = now + Cooldown
        /\ t.history = mem.history /\ t.hour = mem.hour /\ t.peak = mem.peak
        /\ t.origin = mem.origin /\ t.entered = mem.entered /\ t.episode = mem.episode
    BY <1>1, RecoveryPauses
  <2> HIDE DEF t
  <2>3. WaitsUntil(mem') = WaitsUntil(t)
    BY <2>1
  <2> QED BY <1>3, <2>1, <2>2, <2>3
<1> QED BY <1>2, <1>3

\* What the end of a cycle saves.
LEMMA CloseState ==
    ASSUME IInv, Close
    PROVE  /\ mem' \in Strategy /\ mem'.phase = mem.phase
           /\ mem'.hour = mem.hour /\ mem'.healthy = mem.healthy /\ mem'.peak = mem.peak
           /\ mem'.origin = mem.origin /\ mem'.entered = mem.entered
           /\ mem'.episode = mem.episode
           /\ mem'.history = IF lp THEN "Established" ELSE mem.history
           /\ WaitsUntil(mem') = WaitsUntil(mem)
<1> DEFINE o == ObserveLp(mem, lp)
<1>1. mem \in Strategy /\ lp \in BOOLEAN
  BY DEF IInv, TypeOK
<1>2. /\ o \in Strategy /\ o.phase = mem.phase
      /\ o.pause = mem.pause /\ o.anchored = mem.anchored
      /\ o.deadline = mem.deadline /\ o.hour = mem.hour
      /\ o.healthy = mem.healthy /\ o.peak = mem.peak
      /\ o.origin = mem.origin /\ o.entered = mem.entered /\ o.episode = mem.episode
      /\ o.history = IF lp THEN "Established" ELSE mem.history
  BY <1>1, ObserveKeeps
<1>3. mem' = o
  BY DEF Close
<1> HIDE DEF o
<1>4. WaitsUntil(o) = WaitsUntil(mem)
  BY <1>2 DEF WaitsUntil
<1> QED BY <1>2, <1>3, <1>4

\* A cooldown from now is no less than what any exit so far makes due.
LEMMA CooldownCovers ==
    ASSUME TypeOK, leftAt.at <= now
    PROVE  Due \in Nat /\ now + Cooldown >= Due
<1>1. Wait(leftAt.range) \in Nat /\ Wait(leftAt.range) <= Cooldown
  BY Numbers DEF Wait, Smaller
<1>2. leftAt.at \in Nat /\ now \in Nat
  BY DEF TypeOK
<1> QED BY <1>1, <1>2, Numbers DEF Due

-----------------------------------------------------------------------------
(* The steps. *)

\* Start-up reads what was saved.
LEMMA LoadKeeps == ASSUME IInv, Load PROVE IInv'
<1>1. /\ mem' \in Strategy /\ mem'.phase = checkpoint.phase
      /\ mem'.pause = checkpoint.pause /\ mem'.anchored = checkpoint.anchored
      /\ mem'.deadline = checkpoint.deadline /\ mem'.hour = checkpoint.hour
      /\ mem'.healthy = checkpoint.healthy /\ mem'.peak = checkpoint.peak
      /\ mem'.origin = checkpoint.origin /\ mem'.entered = checkpoint.entered
      /\ mem'.episode = checkpoint.episode
      /\ lpHistory' => mem'.history = "Established"
  BY LoadState
<1>2. lpHistory' \in BOOLEAN /\ (lpHistory => lpHistory')
  BY DEF IInv, TypeOK, Load, SeenLp
<1>3. TypeOK'
  BY <1>1, <1>2 DEF IInv, TypeOK, Steps, Load, Goto, SeenLp
<1>4. SavedInv'
  BY <1>1, <1>2 DEF IInv, SavedInv, Load, Goto, SeenLp
<1>5. LoadedInv'
  BY <1>1, <1>2 DEF IInv, LoadedInv, Load, Goto, SeenLp
<1>6. HaltInv'
  BY <1>1, <1>2 DEF IInv, HaltInv, Load, Goto, SeenLp
<1>7. WorkflowInv'
  BY <1>1, <1>2 DEF IInv, WorkflowInv, Load, Goto, SeenLp
<1>8. PositionInv'
  BY <1>1, <1>2 DEF IInv, PositionInv, Load, Goto, SeenLp
<1>9. HistoryInv'
  BY <1>1, <1>2 DEF IInv, HistoryInv, Load, Goto, SeenLp
<1>10. HoldingInv'
  BY <1>1, <1>2 DEF IInv, HoldingInv, Holds, Load, Goto, SeenLp
<1>11. DeadlineInv'
  BY <1>1, <1>2 DEF IInv, DeadlineInv, WaitsUntil, Due, Load, Goto, SeenLp
<1>12. CountedInv'
  BY <1>1, <1>2 DEF IInv, CountedInv, Counted, Load, Goto, SeenLp
<1>13. EquityInv'
  BY <1>1, <1>2 DEF IInv, EquityInv, Peaks, Load, Goto, SeenLp
<1>14. DecidedInv'
  BY <1>1, <1>2
    DEF IInv, DecidedInv, EntryEarned, HeldLongEnough, EpisodeLossBounded,
        LossAnchored, Load, Goto, SeenLp
<1> QED BY <1>3, <1>4, <1>5, <1>6, <1>7, <1>8, <1>9, <1>10, <1>11, <1>12, <1>13, <1>14
       DEF IInv

\* A transaction that landed is found on chain.
LEMMA ReconcileKeeps == ASSUME IInv, Reconcile PROVE IInv'
<1>1. lp' \in BOOLEAN /\ opened' \in BOOLEAN /\ lpHistory' \in BOOLEAN
  <2>1. PICK landed \in BOOLEAN : lp' = IF landed THEN flying = "mint" ELSE lp
    BY DEF Reconcile
  <2>2. (flying = "mint") \in BOOLEAN /\ lp \in BOOLEAN
    BY DEF IInv, TypeOK
  <2>3. lp' \in BOOLEAN
    BY <2>1, <2>2
  <2> QED BY <2>3 DEF IInv, TypeOK, Reconcile
<1>2. mintedAt' = (IF ~lp' THEN 0 ELSE IF lp THEN mintedAt ELSE now) /\ mintedAt' \in Nat
  BY DEF IInv, TypeOK, Reconcile
<1>3. /\ leftAt' \in [at: Nat, range: BOOLEAN]
      /\ leftAt' \in {leftAt, NeverLeft, [at |-> now, range |-> FALSE]}
      /\ lp' = lp => leftAt' = leftAt \/ ~lp
      /\ ~lp' /\ checkpoint.phase # "Active" => leftAt' = leftAt
  <2>1. leftAt' = IF lp' THEN (IF lp THEN leftAt ELSE NeverLeft)
                  ELSE IF lp /\ checkpoint.phase = "Active"
                  THEN [at |-> now, range |-> FALSE] ELSE leftAt
    BY DEF Reconcile
  <2>2. leftAt \in [at: Nat, range: BOOLEAN] /\ NeverLeft \in [at: Nat, range: BOOLEAN]
    BY DEF IInv, TypeOK, NeverLeft
  <2>3. [at |-> now, range |-> FALSE] \in [at: Nat, range: BOOLEAN]
    BY DEF IInv, TypeOK
  <2> QED BY <1>1, <2>1, <2>2, <2>3
<1>4. \/ lp' = lp /\ (lp => leftAt' = leftAt)
      \/ flying = "mint" /\ lp' = TRUE /\ lp = FALSE
      \/ flying = "remove" /\ lp' = FALSE /\ lp = TRUE
  BY <1>1, <1>3 DEF IInv, TypeOK, WorkflowInv, Reconcile
<1>5. TypeOK'
  BY <1>1, <1>2, <1>3, <1>4 DEF IInv, TypeOK, Steps, Reconcile, Goto
<1>6. SavedInv'
  BY <1>1, <1>2, <1>3, <1>4 DEF IInv, SavedInv, Reconcile, Goto
<1>7. LoadedInv'
  BY <1>1, <1>2, <1>3, <1>4 DEF IInv, LoadedInv, Reconcile, Goto
<1>8. HaltInv'
  BY <1>1, <1>2, <1>3, <1>4 DEF IInv, HaltInv, Reconcile, Goto
<1>9. WorkflowInv'
  BY <1>1, <1>2, <1>3, <1>4 DEF IInv, WorkflowInv, Reconcile, Goto
<1>10. PositionInv'
  BY <1>1, <1>2, <1>3, <1>4
    DEF IInv, PositionInv, WorkflowInv, HistoryInv, Reconcile, Goto
<1>11. HistoryInv'
  BY <1>1, <1>2, <1>3, <1>4 DEF IInv, HistoryInv, WorkflowInv, Reconcile, Goto
<1>12. HoldingInv'
  BY <1>1, <1>2, <1>3, <1>4
    DEF IInv, HoldingInv, Holds, WorkflowInv, TypeOK, Reconcile, Goto
<1>13. DeadlineInv'
  <2>1. /\ leftAt.at <= now /\ now \in Nat
        /\ opened /\ checkpoint.phase = "Paused" => WaitsUntil(checkpoint) >= Due
    BY DEF IInv, DeadlineInv, TypeOK
  <2>2. pc' = "reconciled" /\ now' = now /\ checkpoint' = checkpoint /\ band' = band
    BY DEF Reconcile, Goto
  <2>3. WaitsUntil(checkpoint)' = WaitsUntil(checkpoint)
    BY <2>2 DEF WaitsUntil
  <2>4. leftAt'.at <= now
    BY <1>3, <2>1 DEF NeverLeft
  <2>5. opened' /\ checkpoint.phase = "Paused" => opened /\ leftAt' = leftAt
    <3>1. lp => opened
      BY DEF IInv, HistoryInv
    <3>2. flying = "mint" => checkpoint.phase = "Active"
      BY DEF IInv, WorkflowInv
    <3>3. opened' = (opened \/ lp')
      BY DEF Reconcile
    <3> QED BY <1>3, <1>4, <3>1, <3>2, <3>3
  <2>6. leftAt' = leftAt => Due' = Due
    BY DEF Due
  <2> QED BY <2>1, <2>2, <2>3, <2>4, <2>5, <2>6 DEF DeadlineInv
<1>14. CountedInv'
  BY <1>1, <1>2, <1>3, <1>4 DEF IInv, CountedInv, Counted, Reconcile, Goto
<1>15. EquityInv'
  BY <1>1, <1>2, <1>3, <1>4 DEF IInv, EquityInv, Peaks, Reconcile, Goto
<1>16. DecidedInv'
  BY <1>1, <1>2, <1>3, <1>4
    DEF IInv, DecidedInv, EntryEarned, HeldLongEnough, EpisodeLossBounded,
        LossAnchored, Reconcile, Goto
<1> QED BY <1>5, <1>6, <1>7, <1>8, <1>9, <1>10, <1>11, <1>12, <1>13, <1>14, <1>15,
           <1>16
       DEF IInv

\* What was found is saved.
LEMMA SaveReconciledKeeps == ASSUME IInv, SaveReconciled PROVE IInv'
<1>1. /\ mem' \in Strategy /\ mem'.healthy \in {0, mem.healthy}
      /\ mem'.hour = mem.hour /\ mem'.peak = mem.peak
      /\ mem'.origin = mem.origin /\ mem'.entered = mem.entered
      /\ mem'.episode = mem.episode
      /\ mem'.history = IF lp THEN "Established" ELSE mem.history
      /\ mem.phase = "Active" /\ ~lp =>
           mem'.phase = "Paused" /\ WaitsUntil(mem') = now + Cooldown
      /\ ~(mem.phase = "Active" /\ ~lp) =>
           mem'.phase = mem.phase /\ WaitsUntil(mem') = WaitsUntil(mem)
  BY SaveReconciledState
<1>2. mem.phase \in Phases /\ mem.healthy \in 0..Need
  BY DEF IInv, TypeOK, Strategy
<1>3. /\ pc = "reconciled" /\ checkpoint' = mem'
      /\ pc' = IF workflow THEN "recover" ELSE "cycle"
      /\ UNCHANGED <<lpHistory, workflow, lp, flat, flying, d, unwinding, now, faults, band>>
      /\ UNCHANGED <<seen, opened, mintedAt, leftAt, run, best, high>>
  BY DEF SaveReconciled, Goto
<1>4. /\ mem.phase = checkpoint.phase /\ WaitsUntil(mem) = WaitsUntil(checkpoint)
      /\ mem.hour = checkpoint.hour /\ mem.healthy = checkpoint.healthy
      /\ mem.peak = checkpoint.peak /\ mem.origin = checkpoint.origin
      /\ mem.entered = checkpoint.entered /\ mem.episode = checkpoint.episode
  BY <1>3 DEF IInv, LoadedInv, WaitsUntil
<1>5. TypeOK'
  BY <1>1, <1>2, <1>3, <1>4 DEF IInv, TypeOK, Steps, SaveReconciled, Goto
<1>6. SavedInv'
  BY <1>1, <1>2, <1>3, <1>4 DEF IInv, SavedInv, SaveReconciled, Goto
<1>7. LoadedInv'
  BY <1>1, <1>2, <1>3, <1>4 DEF IInv, LoadedInv, SaveReconciled, Goto
<1>8. HaltInv'
  BY <1>1, <1>2, <1>3, <1>4 DEF IInv, HaltInv, SaveReconciled, Goto
<1>9. WorkflowInv'
  BY <1>1, <1>2, <1>3, <1>4 DEF IInv, WorkflowInv, SaveReconciled, Goto
<1>10. PositionInv'
  BY <1>1, <1>2, <1>3, <1>4 DEF IInv, PositionInv, LoadedInv, SaveReconciled, Goto
<1>11. HistoryInv'
  BY <1>1, <1>2, <1>3, <1>4 DEF IInv, HistoryInv, SaveReconciled, Goto
<1>12. HoldingInv'
  BY <1>1, <1>2, <1>3, <1>4 DEF IInv, HoldingInv, Holds, SaveReconciled, Goto
<1>13. DeadlineInv'
  <2>1. Due' = Due /\ WaitsUntil(checkpoint)' = WaitsUntil(mem')
    BY <1>3 DEF Due, WaitsUntil
  <2>2. now + Cooldown >= Due
    BY CooldownCovers DEF IInv, DeadlineInv
  <2>3. /\ leftAt.at <= now
        /\ opened /\ checkpoint.phase = "Paused" => WaitsUntil(checkpoint) >= Due
    BY DEF IInv, DeadlineInv
  <2>4. opened /\ mem'.phase = "Paused" => WaitsUntil(mem') >= Due
    BY <1>1, <1>4, <2>2, <2>3
  <2> QED BY <1>3, <2>1, <2>3, <2>4 DEF DeadlineInv
<1>14. CountedInv'
  <2>1. Counted(checkpoint, run)
    BY DEF IInv, CountedInv
  <2>2. \A k \in 0..Need : k < mem'.healthy => k < checkpoint.healthy
    BY <1>1, <1>2, <1>4, Numbers
  <2>3. checkpoint'.hour = checkpoint.hour /\ checkpoint'.healthy \in {0, checkpoint.healthy}
    BY <1>1, <1>3, <1>4
  <2> QED BY <1>3, <2>1, <2>2, <2>3 DEF CountedInv, Counted
<1>15. EquityInv'
  BY <1>1, <1>2, <1>3, <1>4 DEF IInv, EquityInv, Peaks, SaveReconciled, Goto
<1>16. DecidedInv'
  BY <1>1, <1>2, <1>3, <1>4
    DEF IInv, DecidedInv, EntryEarned, HeldLongEnough, EpisodeLossBounded,
        LossAnchored, SaveReconciled, Goto
<1> QED BY <1>5, <1>6, <1>7, <1>8, <1>9, <1>10, <1>11, <1>12, <1>13, <1>14, <1>15,
           <1>16
       DEF IInv

\* An unfinished workflow is to be unwound.
LEMMA RecoverWorkflowKeeps == ASSUME IInv, RecoverWorkflow PROVE IInv'
<1>1. TypeOK'
  BY DEF IInv, TypeOK, Steps, RecoverWorkflow, Goto
<1>2. SavedInv'
  BY DEF IInv, SavedInv, RecoverWorkflow, Goto
<1>3. LoadedInv'
  BY DEF IInv, LoadedInv, RecoverWorkflow, Goto
<1>4. HaltInv'
  BY DEF IInv, HaltInv, RecoverWorkflow, Goto
<1>5. WorkflowInv'
  BY DEF IInv, WorkflowInv, RecoverWorkflow, Goto
<1>6. PositionInv'
  BY DEF IInv, PositionInv, RecoverWorkflow, Goto
<1>7. HistoryInv'
  BY DEF IInv, HistoryInv, RecoverWorkflow, Goto
<1>8. HoldingInv'
  BY DEF IInv, HoldingInv, Holds, RecoverWorkflow, Goto
<1>9. DeadlineInv'
  BY DEF IInv, DeadlineInv, WaitsUntil, Due, RecoverWorkflow, Goto
<1>10. CountedInv'
  BY DEF IInv, CountedInv, Counted, RecoverWorkflow, Goto
<1>11. EquityInv'
  BY DEF IInv, EquityInv, Peaks, RecoverWorkflow, Goto
<1>12. DecidedInv'
  BY DEF IInv, DecidedInv, EntryEarned, HeldLongEnough, EpisodeLossBounded,
         LossAnchored, RecoverWorkflow, Goto
<1> QED BY <1>1, <1>2, <1>3, <1>4, <1>5, <1>6, <1>7, <1>8, <1>9, <1>10, <1>11, <1>12
       DEF IInv

\* The unwinding ends in a pause or a halt.
LEMMA FinishRecoveryKeeps == ASSUME IInv, FinishRecovery PROVE IInv'
<1>1. /\ mem' \in Strategy /\ mem'.healthy = 0
      /\ mem'.history = mem.history /\ mem'.hour = mem.hour /\ mem'.peak = mem.peak
      /\ mem'.origin = mem.origin /\ mem'.entered = mem.entered
      /\ mem'.episode = mem.episode
      /\ mem.phase = "Halted" => mem'.phase = "Halted"
      /\ mem.phase # "Halted" =>
           mem'.phase = "Paused" /\ WaitsUntil(mem') = now + Cooldown
  BY FinishRecoveryState
<1>2. /\ pc = "finish" /\ unwinding' = "no" /\ checkpoint' \in {checkpoint, mem'}
      /\ pc' = (IF unwinding = "restart" THEN "cycle" ELSE "close")
      /\ pc' = "cycle" => checkpoint' = mem'
      /\ UNCHANGED <<lpHistory, workflow, lp, flat, flying, now, faults, band>>
      /\ UNCHANGED <<seen, opened, mintedAt, leftAt, run, best, high>>
  BY DEF FinishRecovery, Goto
<1>3. checkpoint = mem
  BY <1>2 DEF IInv, SavedInv
<1>4. TypeOK'
  BY <1>1, <1>2, <1>3 DEF IInv, TypeOK, Steps, FinishRecovery, Goto
<1>5. SavedInv'
  BY <1>1, <1>2, <1>3 DEF IInv, SavedInv, FinishRecovery, Goto
<1>6. LoadedInv'
  BY <1>1, <1>2, <1>3 DEF IInv, LoadedInv, FinishRecovery, Goto
<1>7. HaltInv'
  BY <1>1, <1>2, <1>3 DEF IInv, HaltInv, FinishRecovery, Goto
<1>8. WorkflowInv'
  BY <1>1, <1>2, <1>3 DEF IInv, WorkflowInv, FinishRecovery, Goto
<1>9. PositionInv'
  BY <1>1, <1>2, <1>3 DEF IInv, PositionInv, FinishRecovery, Goto
<1>10. HistoryInv'
  BY <1>1, <1>2, <1>3 DEF IInv, HistoryInv, FinishRecovery, Goto
<1>11. HoldingInv'
  BY <1>1, <1>2, <1>3 DEF IInv, HoldingInv, Holds, FinishRecovery, Goto
<1>12. DeadlineInv'
  <2>1. /\ Due' = Due /\ WaitsUntil(mem)' = WaitsUntil(mem')
        /\ checkpoint' = checkpoint => WaitsUntil(checkpoint)' = WaitsUntil(checkpoint)
        /\ checkpoint' = mem' => WaitsUntil(checkpoint)' = WaitsUntil(mem')
    BY <1>2 DEF Due, WaitsUntil
  <2>2. now + Cooldown >= Due
    BY CooldownCovers DEF IInv, DeadlineInv
  <2>3. /\ leftAt.at <= now
        /\ opened /\ checkpoint.phase = "Paused" => WaitsUntil(checkpoint) >= Due
    BY DEF IInv, DeadlineInv
  <2>4. mem'.phase = "Paused" => WaitsUntil(mem') >= Due
    BY <1>1, <2>2
  <2>5. pc' # "decided"
    BY <1>2
  <2> QED BY <1>2, <2>1, <2>3, <2>4, <2>5 DEF DeadlineInv
<1>13. CountedInv'
  <2>1. Counted(checkpoint, run)
    BY DEF IInv, CountedInv
  <2>2. \A k \in 0..Need : ~(k < mem'.healthy)
    BY <1>1, Numbers
  <2>3. Counted(mem, run)'
    BY <1>1, <1>2, <1>3, <2>1, <2>2 DEF Counted
  <2>4. checkpoint' = checkpoint => Counted(checkpoint, run)'
    BY <1>2, <2>1 DEF Counted
  <2>5. checkpoint' = mem' => Counted(checkpoint, run)'
    BY <2>3 DEF Counted
  <2> QED BY <1>2, <2>3, <2>4, <2>5 DEF CountedInv
<1>14. EquityInv'
  BY <1>1, <1>2, <1>3 DEF IInv, EquityInv, Peaks, FinishRecovery, Goto
<1>15. DecidedInv'
  BY <1>1, <1>2, <1>3
    DEF IInv, DecidedInv, EntryEarned, HeldLongEnough, EpisodeLossBounded,
        LossAnchored, FinishRecovery, Goto
<1> QED BY <1>4, <1>5, <1>6, <1>7, <1>8, <1>9, <1>10, <1>11, <1>12, <1>13, <1>14,
           <1>15
       DEF IInv

\* What was decided is saved.
LEMMA SaveKeeps == ASSUME IInv, Save PROVE IInv'
<1>1. /\ pc = "decided" /\ checkpoint' = mem /\ run' = seen.run /\ best' = BestAfter
      /\ high' = HighAfter
      /\ pc' = (IF d \in {"Nothing", "Hold"} THEN "close" ELSE "apply")
      /\ leftAt' = (IF d = "ExitToQuote" /\ lp
                    THEN [at |-> seen.at, range |-> seen.range] ELSE leftAt)
      /\ UNCHANGED <<lpHistory, workflow, lp, flat, flying, mem, d, unwinding>>
      /\ UNCHANGED <<now, faults, band, opened, mintedAt>>
  BY DEF Save, Goto
<1>2. /\ best' \in Nat /\ high' \in Nat /\ seen' = NoSight
      /\ seen.at = now /\ leftAt' \in [at: Nat, range: BOOLEAN]
  <2>1. /\ best \in Nat /\ high \in Nat /\ seen.raw \in Nat
        /\ seen.at \in Nat /\ seen.range \in BOOLEAN
    BY DEF IInv, TypeOK
  <2>2. BestAfter \in Nat
    BY <2>1 DEF BestAfter, Larger
  <2>3. HighAfter \in Nat
    BY <2>1, HighOfIs DEF HighAfter, Larger, HighOf, IInv, TypeOK
  <2>4. seen' = NoSight /\ seen.at = now
    BY <1>1 DEF Save, IInv, CountedInv
  <2>5. leftAt' \in [at: Nat, range: BOOLEAN]
    BY <1>1, <2>1 DEF IInv, TypeOK
  <2> QED BY <1>1, <2>2, <2>3, <2>4, <2>5
<1>3. TypeOK'
  BY <1>1, <1>2 DEF IInv, TypeOK, Steps, NoSight, Save, Goto
<1>4. SavedInv'
  BY <1>1, <1>2 DEF IInv, SavedInv, Save, Goto
<1>5. LoadedInv'
  BY <1>1, <1>2 DEF IInv, LoadedInv, Save, Goto
<1>6. HaltInv'
  BY <1>1, <1>2 DEF IInv, HaltInv, Save, Goto
<1>7. WorkflowInv'
  BY <1>1, <1>2 DEF IInv, WorkflowInv, Save, Goto
<1>8. PositionInv'
  BY <1>1, <1>2 DEF IInv, PositionInv, TypeOK, WorkflowInv, Save, Goto
<1>9. HistoryInv'
  BY <1>1, <1>2 DEF IInv, HistoryInv, Save, Goto
<1>10. HoldingInv'
  BY <1>1, <1>2 DEF IInv, HoldingInv, Holds, Save, Goto
<1>11. DeadlineInv'
  <2>1. /\ leftAt.at <= now
        /\ opened /\ mem.phase = "Paused" =>
             WaitsUntil(mem) >= IF d = "ExitToQuote" /\ lp
                                THEN seen.at + Wait(seen.range) ELSE Due
    BY <1>1 DEF IInv, DeadlineInv
  <2>2. WaitsUntil(mem)' = WaitsUntil(mem) /\ WaitsUntil(checkpoint)' = WaitsUntil(mem)
    BY <1>1 DEF WaitsUntil
  <2>3. CASE d = "ExitToQuote" /\ lp
    <3>1. Due' = seen.at + Wait(seen.range) /\ leftAt'.at = now
      BY <1>1, <1>2, <2>3 DEF Due
    <3> QED BY <1>1, <2>1, <2>2, <2>3, <3>1 DEF DeadlineInv, IInv, TypeOK
  <2>4. CASE ~(d = "ExitToQuote" /\ lp)
    <3>1. Due' = Due /\ leftAt' = leftAt
      BY <1>1, <2>4 DEF Due
    <3> QED BY <1>1, <2>1, <2>2, <2>4, <3>1 DEF DeadlineInv
  <2> QED BY <2>3, <2>4
<1>12. CountedInv'
  BY <1>1, <1>2 DEF IInv, CountedInv, Counted, Save, Goto
<1>13. EquityInv'
  BY <1>1, <1>2 DEF IInv, EquityInv, Peaks, Save, Goto
<1>14. DecidedInv'
  BY <1>1, <1>2
    DEF IInv, DecidedInv, EntryEarned, HeldLongEnough, EpisodeLossBounded,
        LossAnchored, Save, Goto
<1> QED BY <1>3, <1>4, <1>5, <1>6, <1>7, <1>8, <1>9, <1>10, <1>11, <1>12, <1>13, <1>14
       DEF IInv

\* The cycle ends, and a held position is remembered.
LEMMA CloseKeeps == ASSUME IInv, Close PROVE IInv'
<1>1. /\ mem' \in Strategy /\ mem'.phase = mem.phase
      /\ mem'.hour = mem.hour /\ mem'.healthy = mem.healthy /\ mem'.peak = mem.peak
      /\ mem'.origin = mem.origin /\ mem'.entered = mem.entered
      /\ mem'.episode = mem.episode
      /\ mem'.history = IF lp THEN "Established" ELSE mem.history
      /\ WaitsUntil(mem') = WaitsUntil(mem)
  BY CloseState
<1>2. TypeOK'
  BY <1>1 DEF IInv, TypeOK, Steps, Close, Goto
<1>3. SavedInv'
  BY <1>1 DEF IInv, SavedInv, Close, Goto
<1>4. LoadedInv'
  BY <1>1 DEF IInv, LoadedInv, Close, Goto
<1>5. HaltInv'
  BY <1>1 DEF IInv, HaltInv, Close, Goto
<1>6. WorkflowInv'
  BY <1>1 DEF IInv, WorkflowInv, Close, Goto
<1>7. PositionInv'
  BY <1>1 DEF IInv, PositionInv, WorkflowInv, Close, Goto
<1>8. HistoryInv'
  BY <1>1 DEF IInv, HistoryInv, Close, Goto
<1>9. HoldingInv'
  BY <1>1 DEF IInv, HoldingInv, Holds, Close, Goto
<1>10. DeadlineInv'
  BY <1>1 DEF IInv, DeadlineInv, WaitsUntil, Due, Close, Goto
<1>11. CountedInv'
  BY <1>1 DEF IInv, CountedInv, Counted, Close, Goto
<1>12. EquityInv'
  BY <1>1 DEF IInv, EquityInv, Peaks, Close, Goto
<1>13. DecidedInv'
  BY <1>1
    DEF IInv, DecidedInv, EntryEarned, HeldLongEnough, EpisodeLossBounded,
        LossAnchored, Close, Goto
<1> QED BY <1>2, <1>3, <1>4, <1>5, <1>6, <1>7, <1>8, <1>9, <1>10, <1>11, <1>12, <1>13
       DEF IInv

\* The workflow is recorded.
LEMMA BeginApplyKeeps == ASSUME IInv, BeginApply PROVE IInv'
<1>1. pc' = IF lp THEN "remove" ELSE IF d = "Deploy" THEN "swap" ELSE "sell"
  BY DEF BeginApply, Goto
<1>2. TypeOK'
  BY <1>1 DEF IInv, TypeOK, Steps, BeginApply, Goto, SeenLp
<1>3. SavedInv'
  BY <1>1 DEF IInv, SavedInv, BeginApply, Goto, SeenLp
<1>4. LoadedInv'
  BY <1>1 DEF IInv, LoadedInv, BeginApply, Goto, SeenLp
<1>5. HaltInv'
  BY <1>1 DEF IInv, HaltInv, BeginApply, Goto, SeenLp
<1>6. WorkflowInv'
  BY <1>1 DEF IInv, WorkflowInv, BeginApply, Goto, SeenLp
<1>7. PositionInv'
  BY <1>1 DEF IInv, PositionInv, TypeOK, SavedInv, WorkflowInv, BeginApply, Goto, SeenLp
<1>8. HistoryInv'
  BY <1>1 DEF IInv, HistoryInv, BeginApply, Goto, SeenLp
<1>9. HoldingInv'
  BY <1>1 DEF IInv, HoldingInv, Holds, BeginApply, Goto, SeenLp
<1>10. DeadlineInv'
  BY <1>1 DEF IInv, DeadlineInv, WaitsUntil, Due, BeginApply, Goto, SeenLp
<1>11. CountedInv'
  BY <1>1 DEF IInv, CountedInv, Counted, BeginApply, Goto, SeenLp
<1>12. EquityInv'
  BY <1>1 DEF IInv, EquityInv, Peaks, BeginApply, Goto, SeenLp
<1>13. DecidedInv'
  BY <1>1
    DEF IInv, DecidedInv, EntryEarned, HeldLongEnough, EpisodeLossBounded,
        LossAnchored, BeginApply, Goto, SeenLp
<1> QED BY <1>2, <1>3, <1>4, <1>5, <1>6, <1>7, <1>8, <1>9, <1>10, <1>11, <1>12, <1>13
       DEF IInv

\* The position is taken out.
LEMMA RemoveKeeps == ASSUME IInv, Remove PROVE IInv'
<1>1. lp' = FALSE /\ leftAt' \in {leftAt, [at |-> now, range |-> FALSE]}
  BY DEF Remove
<1>2. TypeOK'
  BY <1>1 DEF IInv, TypeOK, Steps, Remove, Goto, AfterRemoval
<1>3. SavedInv'
  BY <1>1 DEF IInv, SavedInv, Remove, Goto, AfterRemoval
<1>4. LoadedInv'
  BY <1>1 DEF IInv, LoadedInv, Remove, Goto, AfterRemoval
<1>5. HaltInv'
  BY <1>1 DEF IInv, HaltInv, Remove, Goto, AfterRemoval
<1>6. WorkflowInv'
  BY <1>1 DEF IInv, WorkflowInv, Remove, Goto, AfterRemoval
<1>7. PositionInv'
  BY <1>1 DEF IInv, PositionInv, Remove, Goto, AfterRemoval
<1>8. HistoryInv'
  BY <1>1 DEF IInv, HistoryInv, Remove, Goto, AfterRemoval
<1>9. HoldingInv'
  BY <1>1 DEF IInv, HoldingInv, Holds, TypeOK, Remove, Goto, AfterRemoval
<1>10. DeadlineInv'
  <2>1. /\ leftAt.at <= now /\ now \in Nat
        /\ opened /\ checkpoint.phase = "Paused" => WaitsUntil(checkpoint) >= Due
    BY DEF IInv, DeadlineInv, TypeOK
  <2>2. /\ pc' \notin {"decided", "close"}
        /\ now' = now /\ checkpoint' = checkpoint
        /\ band' = band /\ opened' = opened
        /\ checkpoint.phase # "Active" => leftAt' = leftAt
    BY DEF Remove, Goto, AfterRemoval
  <2>3. WaitsUntil(checkpoint)' = WaitsUntil(checkpoint)
    BY <2>2 DEF WaitsUntil
  <2>4. leftAt'.at <= now
    BY <1>1, <2>1
  <2>5. leftAt' = leftAt => Due' = Due
    BY DEF Due
  <2> QED BY <2>1, <2>2, <2>3, <2>4, <2>5 DEF DeadlineInv
<1>11. CountedInv'
  BY <1>1 DEF IInv, CountedInv, Counted, Remove, Goto, AfterRemoval
<1>12. EquityInv'
  BY <1>1 DEF IInv, EquityInv, Peaks, Remove, Goto, AfterRemoval
<1>13. DecidedInv'
  BY <1>1
    DEF IInv, DecidedInv, EntryEarned, HeldLongEnough, EpisodeLossBounded,
        LossAnchored, Remove, Goto, AfterRemoval
<1> QED BY <1>2, <1>3, <1>4, <1>5, <1>6, <1>7, <1>8, <1>9, <1>10, <1>11, <1>12, <1>13
       DEF IInv

\* The roll waits.
LEMMA RollDelayKeeps == ASSUME IInv, RollDelay PROVE IInv'
<1>1. TypeOK'
  BY DEF IInv, TypeOK, Steps, RollDelay, Goto
<1>2. SavedInv'
  BY DEF IInv, SavedInv, RollDelay, Goto
<1>3. LoadedInv'
  BY DEF IInv, LoadedInv, RollDelay, Goto
<1>4. HaltInv'
  BY DEF IInv, HaltInv, RollDelay, Goto
<1>5. WorkflowInv'
  BY DEF IInv, WorkflowInv, RollDelay, Goto
<1>6. PositionInv'
  BY DEF IInv, PositionInv, RollDelay, Goto
<1>7. HistoryInv'
  BY DEF IInv, HistoryInv, RollDelay, Goto
<1>8. HoldingInv'
  BY DEF IInv, HoldingInv, Holds, RollDelay, Goto
<1>9. DeadlineInv'
  BY DEF IInv, DeadlineInv, WaitsUntil, Due, RollDelay, Goto
<1>10. CountedInv'
  BY DEF IInv, CountedInv, Counted, RollDelay, Goto
<1>11. EquityInv'
  BY DEF IInv, EquityInv, Peaks, RollDelay, Goto
<1>12. DecidedInv'
  BY DEF IInv, DecidedInv, EntryEarned, HeldLongEnough, EpisodeLossBounded,
         LossAnchored, RollDelay, Goto
<1> QED BY <1>1, <1>2, <1>3, <1>4, <1>5, <1>6, <1>7, <1>8, <1>9, <1>10, <1>11, <1>12
       DEF IInv

\* The entry buys what it mints.
LEMMA SwapKeeps == ASSUME IInv, Swap PROVE IInv'
<1>1. flat' \in BOOLEAN
  BY DEF Swap
<1>2. TypeOK'
  BY <1>1 DEF IInv, TypeOK, Steps, Swap, Goto
<1>3. SavedInv'
  BY <1>1 DEF IInv, SavedInv, Swap, Goto
<1>4. LoadedInv'
  BY <1>1 DEF IInv, LoadedInv, Swap, Goto
<1>5. HaltInv'
  BY <1>1 DEF IInv, HaltInv, Swap, Goto
<1>6. WorkflowInv'
  BY <1>1 DEF IInv, WorkflowInv, Swap, Goto
<1>7. PositionInv'
  BY <1>1 DEF IInv, PositionInv, Swap, Goto
<1>8. HistoryInv'
  BY <1>1 DEF IInv, HistoryInv, Swap, Goto
<1>9. HoldingInv'
  BY <1>1 DEF IInv, HoldingInv, Holds, Swap, Goto
<1>10. DeadlineInv'
  BY <1>1 DEF IInv, DeadlineInv, WaitsUntil, Due, Swap, Goto
<1>11. CountedInv'
  BY <1>1 DEF IInv, CountedInv, Counted, Swap, Goto
<1>12. EquityInv'
  BY <1>1 DEF IInv, EquityInv, Peaks, Swap, Goto
<1>13. DecidedInv'
  BY <1>1
    DEF IInv, DecidedInv, EntryEarned, HeldLongEnough, EpisodeLossBounded,
        LossAnchored, Swap, Goto
<1> QED BY <1>2, <1>3, <1>4, <1>5, <1>6, <1>7, <1>8, <1>9, <1>10, <1>11, <1>12, <1>13
       DEF IInv

\* The position is opened.
LEMMA MintKeeps == ASSUME IInv, Mint PROVE IInv'
<1>1. TypeOK'
  BY DEF IInv, TypeOK, Steps, Mint, Goto, NeverLeft
<1>2. SavedInv'
  BY DEF IInv, SavedInv, Mint, Goto, NeverLeft
<1>3. LoadedInv'
  BY DEF IInv, LoadedInv, Mint, Goto, NeverLeft
<1>4. HaltInv'
  BY DEF IInv, HaltInv, Mint, Goto, NeverLeft
<1>5. WorkflowInv'
  BY DEF IInv, WorkflowInv, Mint, Goto, NeverLeft
<1>6. PositionInv'
  BY DEF IInv, PositionInv, SavedInv, WorkflowInv, Mint, Goto, NeverLeft
<1>7. HistoryInv'
  BY DEF IInv, HistoryInv, Mint, Goto, NeverLeft
<1>8. HoldingInv'
  BY DEF IInv, HoldingInv, Holds, SavedInv, PositionInv, TypeOK, Mint, Goto, NeverLeft
<1>9. DeadlineInv'
  <2>1. checkpoint.phase = "Active"
    BY DEF IInv, SavedInv, PositionInv, Mint
  <2>2. pc' = "clear" /\ leftAt'.at = 0 /\ now' = now /\ checkpoint' = checkpoint /\ now \in Nat
    BY DEF Mint, Goto, NeverLeft, IInv, TypeOK
  <2> QED BY <2>1, <2>2 DEF DeadlineInv
<1>10. CountedInv'
  BY DEF IInv, CountedInv, Counted, Mint, Goto, NeverLeft
<1>11. EquityInv'
  BY DEF IInv, EquityInv, Peaks, Mint, Goto, NeverLeft
<1>12. DecidedInv'
  BY DEF IInv, DecidedInv, EntryEarned, HeldLongEnough, EpisodeLossBounded,
         LossAnchored, Mint, Goto, NeverLeft
<1> QED BY <1>1, <1>2, <1>3, <1>4, <1>5, <1>6, <1>7, <1>8, <1>9, <1>10, <1>11, <1>12
       DEF IInv

\* The entry is withdrawn.
LEMMA WithdrawEntryKeeps == ASSUME IInv, WithdrawEntry PROVE IInv'
<1>1. TypeOK'
  BY DEF IInv, TypeOK, Steps, WithdrawEntry, Goto
<1>2. SavedInv'
  BY DEF IInv, SavedInv, WithdrawEntry, Goto
<1>3. LoadedInv'
  BY DEF IInv, LoadedInv, WithdrawEntry, Goto
<1>4. HaltInv'
  BY DEF IInv, HaltInv, WithdrawEntry, Goto
<1>5. WorkflowInv'
  BY DEF IInv, WorkflowInv, WithdrawEntry, Goto
<1>6. PositionInv'
  BY DEF IInv, PositionInv, WithdrawEntry, Goto
<1>7. HistoryInv'
  BY DEF IInv, HistoryInv, WithdrawEntry, Goto
<1>8. HoldingInv'
  BY DEF IInv, HoldingInv, Holds, WithdrawEntry, Goto
<1>9. DeadlineInv'
  BY DEF IInv, DeadlineInv, WaitsUntil, Due, WithdrawEntry, Goto
<1>10. CountedInv'
  BY DEF IInv, CountedInv, Counted, WithdrawEntry, Goto
<1>11. EquityInv'
  BY DEF IInv, EquityInv, Peaks, WithdrawEntry, Goto
<1>12. DecidedInv'
  BY DEF IInv, DecidedInv, EntryEarned, HeldLongEnough, EpisodeLossBounded,
         LossAnchored, WithdrawEntry, Goto
<1> QED BY <1>1, <1>2, <1>3, <1>4, <1>5, <1>6, <1>7, <1>8, <1>9, <1>10, <1>11, <1>12
       DEF IInv

\* The inventory is sold.
LEMMA SellKeeps == ASSUME IInv, Sell PROVE IInv'
<1>1. TypeOK'
  BY DEF IInv, TypeOK, Steps, Sell, Goto
<1>2. SavedInv'
  BY DEF IInv, SavedInv, Sell, Goto
<1>3. LoadedInv'
  BY DEF IInv, LoadedInv, Sell, Goto
<1>4. HaltInv'
  BY DEF IInv, HaltInv, Sell, Goto
<1>5. WorkflowInv'
  BY DEF IInv, WorkflowInv, Sell, Goto
<1>6. PositionInv'
  BY DEF IInv, PositionInv, Sell, Goto
<1>7. HistoryInv'
  BY DEF IInv, HistoryInv, Sell, Goto
<1>8. HoldingInv'
  BY DEF IInv, HoldingInv, Holds, Sell, Goto
<1>9. DeadlineInv'
  BY DEF IInv, DeadlineInv, WaitsUntil, Due, Sell, Goto
<1>10. CountedInv'
  BY DEF IInv, CountedInv, Counted, Sell, Goto
<1>11. EquityInv'
  BY DEF IInv, EquityInv, Peaks, Sell, Goto
<1>12. DecidedInv'
  BY DEF IInv, DecidedInv, EntryEarned, HeldLongEnough, EpisodeLossBounded,
         LossAnchored, Sell, Goto
<1> QED BY <1>1, <1>2, <1>3, <1>4, <1>5, <1>6, <1>7, <1>8, <1>9, <1>10, <1>11, <1>12
       DEF IInv

\* The record is removed.
LEMMA ClearWorkflowKeeps == ASSUME IInv, ClearWorkflow PROVE IInv'
<1>1. /\ pc = "clear" /\ checkpoint = mem
      /\ pc' = (IF unwinding = "no" THEN "close" ELSE "finish")
  BY DEF ClearWorkflow, Goto, IInv, SavedInv
<1>2. unwinding # "no" => ~lp /\ d = "ExitToQuote"
  BY <1>1 DEF IInv, WorkflowInv, PositionInv
<1>3. workflow' \in BOOLEAN /\ pc' \in Steps
  BY <1>1 DEF ClearWorkflow, Steps
<1>4. TypeOK'
  BY <1>1, <1>2, <1>3 DEF IInv, TypeOK, Steps, ClearWorkflow, Goto
<1>5. SavedInv'
  BY <1>1, <1>2, <1>3 DEF IInv, SavedInv, ClearWorkflow, Goto
<1>6. LoadedInv'
  BY <1>1, <1>2, <1>3 DEF IInv, LoadedInv, ClearWorkflow, Goto
<1>7. HaltInv'
  BY <1>1, <1>2, <1>3 DEF IInv, HaltInv, ClearWorkflow, Goto
<1>8. WorkflowInv'
  BY <1>1, <1>2, <1>3 DEF IInv, WorkflowInv, ClearWorkflow, Goto
<1>9. PositionInv'
  BY <1>1, <1>2, <1>3 DEF IInv, PositionInv, ClearWorkflow, Goto
<1>10. HistoryInv'
  BY <1>1, <1>2, <1>3 DEF IInv, HistoryInv, ClearWorkflow, Goto
<1>11. HoldingInv'
  BY <1>1, <1>2, <1>3 DEF IInv, HoldingInv, Holds, ClearWorkflow, Goto
<1>12. DeadlineInv'
  BY <1>1, <1>2, <1>3 DEF IInv, DeadlineInv, WaitsUntil, Due, ClearWorkflow, Goto
<1>13. CountedInv'
  BY <1>1, <1>2, <1>3 DEF IInv, CountedInv, Counted, ClearWorkflow, Goto
<1>14. EquityInv'
  BY <1>1, <1>2, <1>3 DEF IInv, EquityInv, Peaks, ClearWorkflow, Goto
<1>15. DecidedInv'
  BY <1>1, <1>2, <1>3
    DEF IInv, DecidedInv, EntryEarned, HeldLongEnough, EpisodeLossBounded,
        LossAnchored, ClearWorkflow, Goto
<1> QED BY <1>4, <1>5, <1>6, <1>7, <1>8, <1>9, <1>10, <1>11, <1>12, <1>13, <1>14,
           <1>15
       DEF IInv

\* The process dies.
LEMMA RestartKeeps == ASSUME IInv, Restart PROVE IInv'
<1>1. flying' \in {"none", "mint", "remove"} /\ mem' \in Strategy /\ faults' \in Nat
  <2>1. NewStrategy \in Strategy
    <3>1. 0 \in -1..1
      OBVIOUS
    <3> QED BY <3>1, Numbers DEF NewStrategy, Strategy, Histories, Phases
  <2>2. flying' \in {"none", "mint", "remove"}
    BY DEF IInv, TypeOK, Restart, Unsettled
  <2> QED BY <2>1, <2>2 DEF IInv, TypeOK, Restart
<1>2. \/ flying' = flying
      \/ flying = "none" /\ pc = "mint" /\ flying' = "mint"
      \/ flying = "none" /\ pc = "remove" /\ flying' = "remove"
  BY DEF Restart, Unsettled
<1>3. TypeOK'
  BY <1>1, <1>2 DEF IInv, TypeOK, Steps, Restart, Unsettled, NoSight
<1>4. SavedInv'
  BY <1>1, <1>2 DEF IInv, SavedInv, Restart, Unsettled, NoSight
<1>5. LoadedInv'
  BY <1>1, <1>2 DEF IInv, LoadedInv, Restart, Unsettled, NoSight
<1>6. HaltInv'
  BY <1>1, <1>2 DEF IInv, HaltInv, Restart, Unsettled, NoSight
<1>7. WorkflowInv'
  BY <1>1, <1>2
    DEF IInv, WorkflowInv, SavedInv, PositionInv, Restart, Unsettled, NoSight
<1>8. PositionInv'
  BY <1>1, <1>2 DEF IInv, PositionInv, Restart, Unsettled, NoSight
<1>9. HistoryInv'
  BY <1>1, <1>2 DEF IInv, HistoryInv, Restart, Unsettled, NoSight
<1>10. HoldingInv'
  BY <1>1, <1>2 DEF IInv, HoldingInv, Holds, Restart, Unsettled, NoSight
<1>11. DeadlineInv'
  BY <1>1, <1>2 DEF IInv, DeadlineInv, WaitsUntil, Due, Restart, Unsettled, NoSight
<1>12. CountedInv'
  BY <1>1, <1>2 DEF IInv, CountedInv, Counted, Restart, Unsettled, NoSight
<1>13. EquityInv'
  BY <1>1, <1>2 DEF IInv, EquityInv, Peaks, Restart, Unsettled, NoSight
<1>14. DecidedInv'
  BY <1>1, <1>2
    DEF IInv, DecidedInv, EntryEarned, HeldLongEnough, EpisodeLossBounded,
        LossAnchored, Restart, Unsettled, NoSight
<1> QED BY <1>3, <1>4, <1>5, <1>6, <1>7, <1>8, <1>9, <1>10, <1>11, <1>12, <1>13, <1>14
       DEF IInv

\* Time passes.
LEMMA TickKeeps == ASSUME IInv, Tick PROVE IInv'
<1>1. TypeOK'
  BY DEF IInv, TypeOK, Steps, Tick
<1>2. SavedInv'
  BY DEF IInv, SavedInv, Tick
<1>3. LoadedInv'
  BY DEF IInv, LoadedInv, Tick
<1>4. HaltInv'
  BY DEF IInv, HaltInv, Tick
<1>5. WorkflowInv'
  BY DEF IInv, WorkflowInv, Tick
<1>6. PositionInv'
  BY DEF IInv, PositionInv, Tick
<1>7. HistoryInv'
  BY DEF IInv, HistoryInv, Tick
<1>8. HoldingInv'
  BY DEF IInv, HoldingInv, Holds, TypeOK, Tick
<1>9. DeadlineInv'
  BY DEF IInv, DeadlineInv, WaitsUntil, Due, TypeOK, Tick
<1>10. CountedInv'
  <2>1. now \in Nat /\ checkpoint.hour \in Int
    BY DEF IInv, TypeOK, Strategy
  <2>2. Hour(now) <= Hour(now + 1) /\ Hour(now) \in Int /\ Hour(now + 1) \in Int
    BY <2>1, HourGrows, HourOf
  <2>3. Hour(now)' = Hour(now + 1)
    BY DEF Tick
  <2> QED BY <2>1, <2>2, <2>3 DEF IInv, CountedInv, Counted, Tick
<1>11. EquityInv'
  BY DEF IInv, EquityInv, Peaks, Tick
<1>12. DecidedInv'
  BY DEF IInv, DecidedInv, EntryEarned, HeldLongEnough, EpisodeLossBounded,
         LossAnchored, Tick
<1> QED BY <1>1, <1>2, <1>3, <1>4, <1>5, <1>6, <1>7, <1>8, <1>9, <1>10, <1>11, <1>12
       DEF IInv

\* Nothing happens.
LEMMA StutterKeeps == ASSUME IInv, UNCHANGED vars PROVE IInv'
<1>1. TypeOK'
  BY DEF IInv, TypeOK, Steps, vars
<1>2. SavedInv'
  BY DEF IInv, SavedInv, vars
<1>3. LoadedInv'
  BY DEF IInv, LoadedInv, vars
<1>4. HaltInv'
  BY DEF IInv, HaltInv, vars
<1>5. WorkflowInv'
  BY DEF IInv, WorkflowInv, vars
<1>6. PositionInv'
  BY DEF IInv, PositionInv, vars
<1>7. HistoryInv'
  BY DEF IInv, HistoryInv, vars
<1>8. HoldingInv'
  BY DEF IInv, HoldingInv, Holds, vars
<1>9. DeadlineInv'
  BY DEF IInv, DeadlineInv, WaitsUntil, Due, vars
<1>10. CountedInv'
  BY DEF IInv, CountedInv, Counted, vars
<1>11. EquityInv'
  BY DEF IInv, EquityInv, Peaks, BestAfter, HighAfter, HighOf, vars
<1>12. DecidedInv'
  BY DEF IInv, DecidedInv, EntryEarned, HeldLongEnough, EpisodeLossBounded,
         LossAnchored, vars
<1> QED BY <1>1, <1>2, <1>3, <1>4, <1>5, <1>6, <1>7, <1>8, <1>9, <1>10, <1>11, <1>12
       DEF IInv

\* The cycle observes and decides.
LEMMA AssessKeeps == ASSUME IInv, Assess PROVE IInv'
<1>1. /\ pc = "cycle" /\ pc' = "decided" /\ lpHistory' = (lpHistory \/ lp)
      /\ UNCHANGED <<checkpoint, workflow, lp, flat, flying, unwinding>>
      /\ UNCHANGED <<now, faults, band, opened, mintedAt, leftAt, run, best, high>>
  BY DEF Assess, Goto, SeenLp
<1>2. mem.hour <= Hour(now)
  BY <1>1, AtCycle DEF Counted
<1>3. PICK f, r :
        /\ Frame(f) /\ f.now = now /\ f.lp = lp /\ Judged(r, f)
        /\ mem' = r.state /\ d' = r.lp
        /\ seen' = [at |-> now, raw |-> IF f.valid THEN f.raw ELSE 0,
                    run |-> RunAfter(f), range |-> r.range]
  BY <1>2, AssessIs DEF IInv
<1>4. Verdict(r, f)
  BY <1>1, <1>3
<1>5. /\ seen'.at = now /\ seen'.raw = Worth(f)
      /\ seen'.run = RunAfter(f) /\ seen'.range = r.range
  BY <1>3 DEF Worth
<1> HIDE DEF Verdict
<1>6. /\ mem' \in Strategy /\ r.range \in BOOLEAN
      /\ d' \in {"Nothing", "Hold", "Deploy", "ExitToQuote", "Recenter"}
      /\ mem.phase = "Halted" => mem'.phase = "Halted"
  BY <1>3, <1>4, VerdictType
<1>7. TypeOK'
  <2>1. RunAfter(f) \in SUBSET Nat
    <3>1. Hour(f.now) \in Nat /\ run \in SUBSET Nat
      BY <1>3, HourOf DEF Frame, IInv, TypeOK
    <3> QED BY <3>1 DEF RunAfter
  <2>2. Worth(f) \in Nat
    BY <1>3 DEF Worth, Frame
  <2>3. seen' \in [at: Nat, raw: Nat, run: SUBSET Nat, range: BOOLEAN]
    BY <1>3, <1>6, <2>1, <2>2 DEF Worth, IInv, TypeOK
  <2>4. lpHistory' \in BOOLEAN
    BY <1>1 DEF IInv, TypeOK
  <2> QED BY <1>1, <1>6, <2>3, <2>4 DEF IInv, TypeOK, Steps
<1>8. SavedInv' /\ LoadedInv'
  BY <1>1 DEF SavedInv, LoadedInv
<1>9. HaltInv'
  BY <1>1, <1>6, AtCycle DEF HaltInv
<1>10. WorkflowInv'
  BY <1>1, AtCycle DEF WorkflowInv
<1>11. PositionInv'
  <2>1. /\ r.lp \in {"Nothing", "Hold"} /\ r.state.phase = "Active" => lp
        /\ r.lp \in {"Deploy", "Recenter"} =>
             r.state.phase = "Active" /\ (band => r.state.entered = 0)
        /\ r.lp = "ExitToQuote" => r.state.phase \in {"Paused", "Halted"}
        /\ r.lp = "Recenter" => band /\ lp
        /\ r.lp = "Deploy" => ~lp
        /\ r.state.phase = "Warmup" => r.lp = "Nothing" /\ ~opened
    BY <1>4, VerdictPosition
  <2>2. checkpoint.phase = "Warmup" => ~opened /\ ~workflow
    BY DEF IInv, PositionInv
  <2> QED BY <1>1, <1>3, <2>1, <2>2 DEF PositionInv
<1>12. HistoryInv'
  <2>1. opened => r.state.history = "Established"
    BY <1>4, VerdictHistory
  <2>2. (lp => opened) /\ (opened => lpHistory)
    BY DEF IInv, HistoryInv
  <2> QED BY <1>1, <1>3, <2>1, <2>2 DEF HistoryInv
<1>13. HoldingInv' /\ HeldLongEnough'
  <2>1. Holds(r.state) /\ (r.lp = "Recenter" => now - mintedAt >= MinHolding)
    BY <1>4, VerdictHolding
  <2>2. mintedAt <= now /\ Holds(checkpoint)
    BY DEF IInv, HoldingInv
  <2>3. Holds(mem)' /\ Holds(checkpoint)'
    BY <1>1, <1>3, <2>1, <2>2 DEF Holds
  <2> QED BY <1>1, <1>3, <1>5, <2>1, <2>2, <2>3 DEF HoldingInv, HeldLongEnough
<1>14. DeadlineInv'
  <2>1. opened /\ r.state.phase = "Paused" =>
          WaitsUntil(r.state) >= IF r.lp = "ExitToQuote" /\ lp
                                 THEN now + Wait(r.range) ELSE Due
    BY <1>4, VerdictDeadline
  <2>2. /\ leftAt.at <= now
        /\ opened /\ checkpoint.phase = "Paused" => WaitsUntil(checkpoint) >= Due
    BY DEF IInv, DeadlineInv
  <2>3. WaitsUntil(mem)' = WaitsUntil(r.state) /\ WaitsUntil(checkpoint)' = WaitsUntil(checkpoint)
    BY <1>1, <1>3 DEF WaitsUntil
  <2>4. Due' = Due
    BY <1>1 DEF Due
  <2>5. (IF pc = "decided" /\ d = "ExitToQuote" /\ lp THEN seen.at + Wait(seen.range) ELSE Due)'
          = IF r.lp = "ExitToQuote" /\ lp THEN now + Wait(r.range) ELSE Due
    BY <1>1, <1>3, <1>5, <2>4
  <2> QED BY <1>1, <1>3, <2>1, <2>2, <2>3, <2>4, <2>5 DEF DeadlineInv
<1>15. CountedInv'
  <2>1. Counted(r.state, RunAfter(f))
    BY <1>4, VerdictCounted
  <2>2. Counted(mem, seen.run)'
    BY <1>1, <1>3, <1>5, <2>1 DEF Counted
  <2>3. Counted(checkpoint, run)'
    BY <1>1 DEF IInv, CountedInv, Counted
  <2> QED BY <1>1, <1>5, <2>2, <2>3 DEF CountedInv
<1>16. EquityInv'
  <2>1. Peaks(r.state, IF band /\ r.state.origin = 0 THEN 0 ELSE Larger(best, Worth(f)),
              HighOf(r.lp, Worth(f)))
    BY <1>4, VerdictEquity
  <2>2. BestAfter' = IF band /\ r.state.origin = 0 THEN 0 ELSE Larger(best, Worth(f))
    BY <1>1, <1>3, <1>5 DEF BestAfter
  <2>3. HighAfter' = HighOf(r.lp, Worth(f))
    BY <1>1, <1>3, <1>5 DEF HighAfter, HighOf
  <2>4. Peaks(mem, BestAfter, HighAfter)'
    BY <1>1, <1>3, <2>1, <2>2, <2>3 DEF Peaks
  <2>5. Peaks(checkpoint, best, high)'
    BY <1>1 DEF IInv, EquityInv, Peaks
  <2> QED BY <1>1, <2>4, <2>5 DEF EquityInv
<1>17. EntryEarned'
  <2>1. r.lp = "Deploy" /\ opened =>
          /\ \A k \in 0..(Need - 1) : Hour(now) - k \in RunAfter(f)
          /\ now - leftAt.at >= Wait(leftAt.range)
    BY <1>4, VerdictEarned
  <2> QED BY <1>1, <1>3, <1>5, <2>1 DEF EntryEarned, Wait
<1>18. EpisodeLossBounded'
  <2>1. band /\ r.lp \in {"Hold", "Recenter"} =>
          (Larger(high, Worth(f)) - Worth(f)) * 400 < EpisodeLoss * r.state.peak
    BY <1>4, VerdictEpisode, AtCycle, <1>1 DEF IInv
  <2> QED BY <1>1, <1>3, <1>5, <2>1 DEF EpisodeLossBounded
<1>19. LossAnchored'
  <2>1. best # 0 /\ Worth(f) # 0 /\ (best - Worth(f)) * 400 >= MaxLoss * r.state.peak
          => r.state.phase = "Halted"
    BY <1>4, VerdictLoss
  <2> QED BY <1>1, <1>3, <1>5, <2>1 DEF LossAnchored
<1> QED BY <1>7, <1>8, <1>9, <1>10, <1>11, <1>12, <1>13, <1>14, <1>15, <1>16, <1>17,
           <1>18, <1>19 DEF IInv, DecidedInv

-----------------------------------------------------------------------------
(* The invariant and what follows from it. *)

\* The first start satisfies the invariant.
LEMMA InitInvariant == ASSUME Init PROVE IInv
<1>1. NewStrategy \in Strategy
  <2>1. 0 \in -1..1
    OBVIOUS
  <2> QED BY <2>1, Numbers DEF NewStrategy, Strategy, Histories, Phases
<1>2. TypeOK
  BY <1>1, Numbers DEF Init, TypeOK, Steps, NoSight, NeverLeft
<1>3. HourTicks \in Nat /\ Hour(HourTicks) \in Nat
  BY Numbers, HourOf
<1>4. CountedInv
  <2>1. \A k \in 0..Need : ~(k < NewStrategy.healthy)
    BY Numbers DEF NewStrategy
  <2> QED BY <1>3, <2>1 DEF Init, CountedInv, Counted, NewStrategy
<1>5. DeadlineInv
  BY <1>3 DEF Init, DeadlineInv, NewStrategy, NeverLeft
<1>6. SavedInv /\ LoadedInv /\ HaltInv /\ WorkflowInv /\ PositionInv
  BY DEF Init, SavedInv, LoadedInv, HaltInv, WorkflowInv, PositionInv, NewStrategy
<1>7. HistoryInv /\ HoldingInv
  BY <1>3 DEF Init, HistoryInv, HoldingInv, Holds
<1>8. EquityInv
  BY DEF Init, EquityInv, Peaks, NewStrategy
<1>9. DecidedInv
  BY DEF Init, DecidedInv, EntryEarned, HeldLongEnough, EpisodeLossBounded, LossAnchored
<1> QED BY <1>2, <1>4, <1>5, <1>6, <1>7, <1>8, <1>9 DEF IInv

\* Every step keeps it.
LEMMA StepInvariant == ASSUME IInv, [Next]_vars PROVE IInv'
<1>1. CASE Next
  BY <1>1, LoadKeeps, ReconcileKeeps, SaveReconciledKeeps, RecoverWorkflowKeeps,
     FinishRecoveryKeeps, AssessKeeps, SaveKeeps, CloseKeeps, BeginApplyKeeps,
     RemoveKeeps, RollDelayKeeps, SwapKeeps, MintKeeps, WithdrawEntryKeeps, SellKeeps,
     ClearWorkflowKeeps, RestartKeeps, TickKeeps DEF Next
<1>2. CASE UNCHANGED vars
  BY <1>2, StutterKeeps
<1> QED BY <1>1, <1>2

\* In every state of every life, for both profiles, the files, the strategy in memory,
\* the position and the equities acted upon fit together (engine/live.rs, recovery.rs,
\* strategy/eth/mod.rs and band.rs).
THEOREM EthInductiveInvariant == Spec => []IInv
<1>1. Init => IInv
  BY InitInvariant
<1>2. IInv /\ [Next]_vars => IInv'
  BY StepInvariant
<1> QED BY <1>1, <1>2, PTL DEF Spec

\* An Active strategy that decides has its position, and no roll comes before the
\* minimum holding, however often the process restarts (recovery.rs,
\* pause_incomplete_inventory; band.rs, entered_ms).
THEOREM EthConsistent == Spec => []Consistent
<1>1. IInv => TypeOK
  BY DEF IInv
<1>2. IInv => ActiveMeansDeployed
  BY DEF IInv, PositionInv, ActiveMeansDeployed
<1>3. IInv => HeldLongEnough
  BY DEF IInv, DecidedInv
<1>4. IInv => Consistent
  BY <1>1, <1>2, <1>3 DEF Consistent
<1> QED BY <1>4, EthInductiveInvariant, PTL

\* Every entry after a position was earned: the wait of the exit before it is over and
\* each of the hours it needs was found healthy, across restarts, withdrawn entries
\* and failed rolls (eth/mod.rs, the resume conditions; recovery.rs).
THEOREM EveryEntryIsEarned == Spec => []EntryEarned
<1>1. IInv => EntryEarned
  BY DEF IInv, DecidedInv
<1> QED BY <1>1, EthInductiveInvariant, PTL

\* A position is kept only while the loss from the highest equity acted upon since the
\* decision to open it is below the early limit (band.rs, episode_peak).
THEOREM EpisodeLossIsBounded == Spec => []EpisodeLossBounded
<1>1. IInv => EpisodeLossBounded
  BY DEF IInv, DecidedInv
<1> QED BY <1>1, EthInductiveInvariant, PTL

\* A loss at the limit, from the highest equity ever saved, halts (band.rs,
\* managed_equity).
THEOREM LossIsAnchored == Spec => []LossAnchored
<1>1. IInv => LossAnchored
  BY DEF IInv, DecidedInv
<1> QED BY <1>1, EthInductiveInvariant, PTL

\* A halt that was saved is final: no restart, withdrawal or unwinding ends it
\* (recovery.rs, finish_workflow_recovery; docs/eth-band.md).
THEOREM EthHaltIsFinal == Spec => HaltIsFinal
<1>1. ASSUME IInv, [Next]_vars, checkpoint.phase = "Halted"
      PROVE  checkpoint'.phase = "Halted"
  <2>1. CASE SaveReconciled
    <3>1. mem.phase = checkpoint.phase /\ checkpoint' = mem'
      BY <1>1, <2>1 DEF IInv, LoadedInv, SaveReconciled
    <3> QED BY <1>1, <2>1, <3>1, SaveReconciledState
  <2>2. CASE FinishRecovery
    <3>1. mem = checkpoint /\ checkpoint' \in {checkpoint, mem'}
      BY <1>1, <2>2 DEF IInv, SavedInv, FinishRecovery
    <3> QED BY <1>1, <2>2, <3>1, FinishRecoveryState
  <2>3. CASE Save
    BY <1>1, <2>3 DEF IInv, HaltInv, Save
  <2>4. CASE Close
    <3>1. mem.phase = "Halted" /\ checkpoint' = mem'
      BY <1>1, <2>4 DEF IInv, HaltInv, Close
    <3> QED BY <1>1, <2>4, <3>1, CloseState
  <2>5. CASE checkpoint' = checkpoint
    BY <1>1, <2>5
  <2>6. \/ checkpoint' = checkpoint
        \/ SaveReconciled \/ FinishRecovery \/ Save \/ Close
    BY <1>1 DEF Next, vars, Load, Reconcile, RecoverWorkflow, Assess, BeginApply, Remove,
                RollDelay, Swap, Mint, WithdrawEntry, Sell, ClearWorkflow, Restart, Tick
  <2> QED BY <2>1, <2>2, <2>3, <2>4, <2>5, <2>6
<1>2. IInv /\ [Next]_vars
        => [checkpoint.phase = "Halted" => checkpoint'.phase = "Halted"]_vars
  BY <1>1
<1> QED BY <1>2, EthInductiveInvariant, PTL DEF Spec, HaltIsFinal
=============================================================================
