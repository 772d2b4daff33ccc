---------------------------- MODULE SolanaRunner ----------------------------
(***************************************************************************)
(* The Solana runner (solana/runner.rs): start-up, observation, decision   *)
(* and the LP workflow over the transactions of SolanaJournal, with the    *)
(* files that carry them across restarts.                                  *)
(*                                                                         *)
(* Unlike the live engine the runner has no retry: any error ends run, and *)
(* the next start reconciles.  Stop therefore stands for a crash, a        *)
(* shutdown and every ensure! or failed read of a step alike.              *)
(***************************************************************************)
EXTENDS SolanaJournal

CONSTANTS
    MaxTime,   \* bound: the clock stops here
    MaxFaults   \* bound: ends of the process and failed transactions

ASSUME BoundsAssumption == MaxTime \in Nat /\ MaxFaults \in Nat

VARIABLES
    checkpoint,   \* solana_checkpoint.json
    workflow,     \* solana_workflow.json is not null
    hedgePending, \* pending.json of the hedge
    trend,        \* the configuration has a [regime]
    now, faults,
    pc, mem, d, todo,
    starting,     \* apply runs for the workflow an earlier process left
    bars,         \* the candles fetched for this hour
    opened,       \* history variable: a position was ever created
    pausedAt,     \* history variable: when a pause or a recovery last began, or
                  \* stale prices began it anew
    calm          \* history variable: the hours found good since the last bad one

files == <<checkpoint, workflow, hedgePending, trend>>
clock == <<now, faults>>
process == <<pc, mem, d, todo, starting, bars>>
ghosts == <<opened, pausedAt, calm>>
journal == <<journalFiles, chain, executing>>
vars == <<files, journal, clock, process, ghosts>>

Steps == {"down", "reconcile", "hedges", "portfolio", "ready", "cycle", "apply",
          "only_hedge", "cover", "remove", "exit", "trim", "enter", "shield",
          "balance", "clear", "plan", "sign", "send", "poll", "settle", "confirmed"}

NoDecision == [lp |-> "Nothing", fraction |-> 0, layers |-> {}]
RestartExit == [NoDecision EXCEPT !.lp = "ExitToQuote"]
NoBars == [hour |-> 0, close |-> 0, signal |-> "none"]

\* observe: positions() demands that the chain and the records agree.
Agreed == tracked = Deployed

Goto(step) == pc' = step

\* The process is gone.
Ended ==
    /\ Goto("down")
    /\ mem' = NewStrategy /\ d' = NoDecision /\ todo' = {}
    /\ starting' = FALSE /\ bars' = NoBars
    /\ plan' = Null /\ draft' = Null
    /\ calm' = {}

-----------------------------------------------------------------------------
(* Start-up. *)

Start ==
    /\ pc = "down"
    /\ mem' = InvalidateObservations(checkpoint)
    /\ Goto("reconcile")
    /\ UNCHANGED <<files, journal, clock, d, todo, starting, bars, ghosts>>

Reconcile ==
    /\ pc = "reconcile"
    /\ IF pending # Null /\ answer = "unknown" THEN Ended
       ELSE /\ Goto(IF pending = Null THEN "hedges" ELSE "settle")
            /\ UNCHANGED <<executing, mem, d, todo, starting, bars, calm>>
    /\ UNCHANGED <<files, journalFiles, chain, clock, opened, pausedAt>>

\* hedge::reconcile and sync_orders: as HedgeOrders, settled or not.
ReconcileHedge ==
    /\ pc = "hedges"
    /\ hedgePending' = FALSE
    /\ Goto("portfolio")
    /\ UNCHANGED <<checkpoint, workflow, trend, journal, clock, mem, d, todo,
                   starting, bars, ghosts>>

\* Variant: the record an earlier process left is not looked at.
ReadPortfolioOnly ==
    /\ pc = "portfolio"
    /\ Agreed
    /\ mem' = ObserveLp(mem, Deployed)
    /\ Goto("ready")
    /\ UNCHANGED <<files, journal, clock, d, todo, starting, bars, ghosts>>

ReadPortfolio ==
    /\ pc = "portfolio"
    /\ Agreed
    /\ mem' = ObserveLp(mem, Deployed)
    /\ starting' = workflow
    /\ d' = IF workflow THEN RestartExit ELSE d
    /\ Goto(IF workflow THEN "apply" ELSE "ready")
    /\ UNCHANGED <<files, journal, clock, todo, bars, ghosts>>

PauseNoted ==
    IF checkpoint.phase # "Paused" /\ checkpoint'.phase = "Paused" THEN now ELSE pausedAt

\* Only the phase and its clock are corrected, not the fraction.
PauseIncomplete(s) ==
    IF s.phase \in {"Active", "Recovering"} /\ Deployed # Layers
    THEN [PausedNow(s, now) EXCEPT !.healthy = 0] ELSE s

Ready ==
    /\ pc = "ready"
    /\ mem' = IF starting THEN FinishWorkflowRecovery(mem, now) ELSE PauseIncomplete(mem)
    /\ checkpoint' = mem'
    /\ pausedAt' = IF starting THEN now ELSE PauseNoted
    /\ starting' = FALSE
    /\ Goto("cycle")
    /\ UNCHANGED <<workflow, hedgePending, trend, journal, clock, d, todo, bars,
                   opened, calm>>

-----------------------------------------------------------------------------
(* One cycle: observe and decide.  A failed observation waits and repeats. *)

\* The candles are fetched once an hour; the exchange may not have the last
\* one yet, and then the history is stale a minute later, for that hour.
Fetched ==
    IF bars.hour = Hour(now) THEN {bars}
    ELSE [hour: {Hour(now)}, close: {Hour(now) - 1, Hour(now)}, signal: Signals]

SignalOf(b, late) == IF late /\ b.close < Hour(now) THEN "none" ELSE b.signal

MarketOf(signal, shock) ==
    CASE shock \/ signal \in {"exit", "none"} -> "unsafe"
      [] ~shock /\ signal = "neutral" -> "uneasy"
      [] OTHER -> "healthy"

Frames(b) ==
    {[now |-> now, valid |-> valid, drawdown |-> drawdown, shock |-> shock,
      signal |-> SignalOf(b, late), close |-> b.close, outside |-> outside,
      metrics |-> SignalOf(b, late) # "none",
      market |-> MarketOf(SignalOf(b, late), shock),
      revised |-> FALSE, deployed |-> Deployed, breakout |-> breakout] :
        valid \in BOOLEAN, drawdown \in BOOLEAN, shock \in BOOLEAN,
        late \in BOOLEAN, outside \in BOOLEAN, breakout \in SUBSET Deployed}

\* Observations that differ in nothing that is read are one.
Distinct(f) ==
    /\ ~f.valid => ~f.drawdown /\ ~f.shock
    /\ ~f.valid \/ f.drawdown => ~f.outside /\ f.breakout = {} /\ ~f.shock
    /\ f.shock => ~f.outside /\ f.breakout = {}
    /\ trend => f.breakout = {}
    /\ ~trend => ~f.outside
    /\ Deployed = {} => ~f.outside

Judge(s, f) == IF trend THEN RegimeEvaluate(s, f) ELSE Evaluate(s, f)

\* What ends the evidence for an entry.  Without a [regime] an incomplete history
\* is no evidence against it.
Bad(f) == ~f.valid \/ (f.market = "unsafe" /\ (trend \/ f.metrics))

\* The hours that were counted for an entry since the last bad observation.
CalmAfter(f) ==
    CASE Bad(f) \/ mem.phase = "Halted" -> {}
      [] ~Bad(f) /\ mem.phase # "Halted" /\ (~f.metrics \/ f.close <= mem.hour) -> calm
      [] ~Bad(f) /\ mem.phase # "Halted" /\ f.metrics /\ f.close > mem.hour ->
           IF f.market = "healthy" THEN {h \in calm : f.close - h < Need} \cup {f.close}
                                   ELSE {}

\* strategy::evaluate: without a [regime], stale prices restart the pause.
PausedAgain(f) == ~trend /\ ~f.valid /\ mem.phase # "Halted"

\* The new state is saved before the decision is executed.
Observe ==
    /\ pc = "cycle"
    /\ Agreed
    /\ \E b \in Fetched : \E f \in {g \in Frames(b) : Distinct(g)} :
         LET r == Judge(mem, f) IN
         /\ bars' = b
         /\ mem' = r.state
         /\ d' = [lp |-> r.lp, fraction |-> r.fraction, layers |-> r.layers]
         /\ checkpoint' = mem'
         /\ calm' = CalmAfter(f)
         /\ pausedAt' = IF PausedAgain(f) THEN now ELSE PauseNoted
    /\ Goto(IF d'.lp = "Nothing" THEN "cycle" ELSE "apply")
    /\ UNCHANGED <<workflow, hedgePending, trend, journal, clock, todo, starting, opened>>

-----------------------------------------------------------------------------
(* The LP workflow: apply. *)

Flat == Deployed = {} /\ ~base

\* The last step of apply; a start-up goes on, a cycle is saved once more.
Applied == Goto(IF starting THEN "ready" ELSE "cycle") /\ d' = NoDecision

\* Holding, or leaving with nothing left, is a hedge and no workflow.
HedgeAlone == d.lp = "Hold" \/ (d.lp = "ExitToQuote" /\ Flat)

\* Variant: the record of the workflow is written when the removal is done.
BeginApplyUnrecorded ==
    /\ pc = "apply"
    /\ Agreed
    /\ Goto(IF HedgeAlone THEN "only_hedge" ELSE "cover")
    /\ UNCHANGED <<files, journal, clock, mem, d, todo, starting, bars, ghosts>>

BeginApply ==
    /\ pc = "apply"
    /\ Agreed
    /\ workflow' = (workflow \/ ~HedgeAlone)
    /\ Goto(IF HedgeAlone THEN "only_hedge" ELSE "cover")
    /\ UNCHANGED <<checkpoint, hedgePending, trend, journal, clock, mem, d, todo,
                   starting, bars, ghosts>>

OnlyHedge ==
    /\ pc = "only_hedge"
    /\ exposed' = FALSE
    /\ Applied
    /\ UNCHANGED <<files, journalFiles, pos, base, wire, answer, executing, clock,
                   mem, todo, starting, bars, ghosts>>

Named == IF d.lp = "Recenter" THEN d.layers ELSE Layers
Scaling == d.lp = "Deploy" /\ Deployed # {}

\* The full hedge comes first; a rejected one stops all but an exit.
Cover ==
    /\ pc = "cover"
    /\ \E accepted \in BOOLEAN :
         /\ accepted \/ d.lp = "ExitToQuote"
         /\ exposed' = IF accepted THEN FALSE ELSE exposed \/ Deployed # {}
    /\ todo' = IF Scaling THEN {} ELSE Deployed \cap Named
    /\ Goto("remove")
    /\ UNCHANGED <<files, journalFiles, pos, base, wire, answer, executing, clock,
                   mem, d, starting, bars, ghosts>>

\* execute begins with the question whether anything is unresolved.
Execute(op, layer, size) ==
    /\ ~hedgePending /\ pending = Null
    /\ BeginPlan(op, layer, size)
    /\ Goto("sign")
    /\ UNCHANGED <<journalFiles, chain>>

Skip(step) == Goto(step) /\ UNCHANGED journal

Remove ==
    /\ pc = "remove"
    /\ \/ /\ todo = {}
          /\ todo' = IF d.lp = "ExitToQuote" THEN {} ELSE Named
          /\ Skip(IF d.lp = "ExitToQuote" THEN "exit" ELSE "enter")
       \/ \E l \in todo :
             /\ todo' = todo \ {l}
             /\ Execute("remove", l, 0)
    /\ UNCHANGED <<files, clock, mem, d, starting, bars, ghosts>>

Exit ==
    /\ pc = "exit"
    /\ IF base THEN Execute("sell", Null, 0) ELSE Skip("trim")
    /\ UNCHANGED <<files, clock, mem, d, todo, starting, bars, ghosts>>

\* Both ends of a workflow hedge what is left: the wallet, or the new inventory.
HedgeRest ==
    /\ pc \in {"trim", "balance"}
    /\ pc = "balance" => Agreed
    /\ exposed' = FALSE
    /\ Goto("clear")
    /\ UNCHANGED <<files, journalFiles, pos, base, wire, answer, executing, clock,
                   mem, d, todo, starting, bars, ghosts>>

Fraction == IF d.lp = "Deploy" THEN d.fraction ELSE mem.fraction

\* entry_guard and portfolio, then the swap that gives the layer its tokens.
\* A layer that already has its share is left alone.
Enter ==
    /\ pc = "enter"
    /\ Agreed
    /\ \/ /\ todo = {}
          /\ UNCHANGED todo
          /\ Skip("balance")
       \/ \E l \in todo :
             /\ pos[l] > Fraction
             /\ todo' = todo \ {l}
             /\ Skip("enter")
       \/ /\ \E l \in todo : pos[l] <= Fraction
          /\ UNCHANGED todo
          /\ Execute("buy", Null, 0) \/ Skip("shield")
    /\ UNCHANGED <<files, clock, mem, d, starting, bars, ghosts>>

\* Variant: the base just bought is hedged when the workflow ends.
ShieldLater ==
    /\ pc = "shield"
    /\ Agreed
    /\ \E l \in {m \in todo : pos[m] <= Fraction} :
         /\ todo' = todo \ {l}
         /\ Execute(IF pos[l] > 0 THEN "increase" ELSE "mint", l, Fraction)
    /\ UNCHANGED <<files, clock, mem, d, starting, bars, ghosts>>

\* The base is hedged in full, the market looked at again, then the layer minted.
Shield ==
    /\ pc = "shield"
    /\ Agreed
    /\ exposed' = FALSE
    /\ \E l \in {m \in todo : pos[m] <= Fraction} :
         /\ ~hedgePending /\ pending = Null
         /\ todo' = todo \ {l}
         /\ BeginPlan(IF pos[l] > 0 THEN "increase" ELSE "mint", l, Fraction)
    /\ Goto("sign")
    /\ UNCHANGED <<files, journalFiles, pos, base, wire, answer, clock, mem, d,
                   starting, bars, ghosts>>

ClearWorkflow ==
    /\ pc = "clear"
    /\ workflow' = FALSE
    /\ Applied
    /\ UNCHANGED <<checkpoint, hedgePending, trend, journal, clock, mem, todo,
                   starting, bars, ghosts>>

-----------------------------------------------------------------------------
(* The steps of journal::execute and journal::reconcile. *)

StepOfJournal(from, action, to) ==
    /\ pc = from
    /\ action
    /\ Goto(to)
    /\ UNCHANGED <<files, clock, mem, d, todo, starting, bars, ghosts>>

AfterPlan ==
    CASE plan = Null -> "hedges"
      [] plan # Null /\ ~PlanFinished -> "sign"
      [] plan # Null /\ PlanFinished ->
           CASE plan.op = "remove" -> "remove"
             [] plan.op = "sell" -> "trim"
             [] plan.op = "buy" -> "shield"
             [] OTHER -> "enter"

Poll == answer # "unknown" /\ UNCHANGED journal

\* Variant: when the polls run out, the signature is forgotten.
GiveUpAndForget ==
    /\ pc = "poll" /\ answer = "unknown"
    /\ pending' = Null
    /\ Ended
    /\ UNCHANGED <<files, tracked, chain, clock, opened, pausedAt>>

\* Forty polls without an answer end the run; the signature stays on disk.
GiveUp ==
    /\ pc = "poll" /\ answer = "unknown"
    /\ Ended
    /\ UNCHANGED <<files, journalFiles, chain, clock, opened, pausedAt>>

\* A failed transaction ends the run as well, after its file is removed.
EndFailed ==
    /\ pc = "settle"
    /\ DiscardFailed
    /\ Ended
    /\ UNCHANGED <<files, clock, opened, pausedAt>>

Journal ==
    \/ StepOfJournal("sign", Sign, "send")
    \/ StepOfJournal("send", Send, "poll")
    \/ StepOfJournal("poll", Poll, "settle")
    \/ StepOfJournal("settle", ApplyConfirmed, "confirmed")
    \/ StepOfJournal("confirmed", Acknowledge, AfterPlan)
    \/ GiveUp \/ EndFailed

-----------------------------------------------------------------------------
(* Faults, the chain, the clock. *)

Hedging == {"only_hedge", "cover", "trim", "balance", "shield"}

\* The end of run; in the middle of a hedge it may leave an order unsettled.
Stop ==
    /\ pc # "down"
    /\ faults < MaxFaults
    /\ faults' = faults + 1
    /\ Ended
    /\ hedgePending' \in {hedgePending} \cup (IF pc \in Hedging THEN {TRUE} ELSE {})
    /\ UNCHANGED <<checkpoint, workflow, trend, journalFiles, chain, now, opened, pausedAt>>

ChainMoves ==
    /\ \E t \in wire :
         \/ (Lands(t) \/ Expires(t)) /\ UNCHANGED faults
         \/ Reverts(t) /\ faults < MaxFaults /\ faults' = faults + 1
    /\ opened' = (opened \/ Deployed' # {})
    /\ UNCHANGED <<files, now, process, pausedAt, calm>>

Tick ==
    /\ pc \in {"down", "ready", "cycle"}
    /\ now < MaxTime
    /\ now' = now + 1
    /\ UNCHANGED <<files, journal, faults, process, ghosts>>

-----------------------------------------------------------------------------
Init ==
    /\ JournalInit
    /\ checkpoint = NewStrategy /\ workflow = FALSE /\ hedgePending = FALSE
    /\ trend \in BOOLEAN
    /\ now = 2 * HourTicks /\ faults = 0
    /\ pc = "down" /\ mem = NewStrategy /\ d = NoDecision /\ todo = {}
    /\ starting = FALSE /\ bars = NoBars
    /\ opened = FALSE /\ pausedAt = 0 /\ calm = {}

StartUp == Reconcile \/ ReconcileHedge \/ ReadPortfolio \/ Ready

Apply ==
    \/ BeginApply \/ OnlyHedge \/ Cover \/ Remove \/ Exit \/ Enter
    \/ Shield \/ HedgeRest \/ ClearWorkflow

Runner == StartUp \/ Observe \/ Apply \/ Journal

Next == Start \/ Runner \/ Stop \/ ChainMoves \/ Tick

Spec == Init /\ [][Next]_vars

\* A process that runs goes on; a transaction lands, fails or expires.  Nothing
\* starts the runner again but its operator.
FairSpec == Spec /\ WF_vars(Runner) /\ WF_vars(ChainMoves)

-----------------------------------------------------------------------------
TypeOK ==
    /\ JournalTypeOK
    /\ checkpoint \in Strategy /\ mem \in Strategy
    /\ workflow \in BOOLEAN /\ hedgePending \in BOOLEAN /\ trend \in BOOLEAN
    /\ now \in Nat /\ faults \in 0..MaxFaults
    /\ pc \in Steps
    /\ todo \subseteq Layers
    /\ bars.hour \in Nat /\ bars.close \in Nat /\ bars.signal \in Signals
    /\ starting \in BOOLEAN /\ opened \in BOOLEAN

(* A transaction that may still execute is the one whose signature is on    *)
(* disk, whatever timed out or died since: nothing is signed beside it      *)
(* (journal.rs: pending before send, execute's first check, reconcile).     *)
OneUnresolvedSignature == \A t \in wire : t = pending

(* With nothing unresolved the records name exactly the positions of the    *)
(* chain, so that the check of positions() never stops a correct wallet     *)
(* (runner.rs positions, journal.rs apply_confirmed).                       *)
RecordsMatchChain == pending = Null => tracked = Deployed

(* Whatever moment the process dies at, base nobody hedged and a set of     *)
(* positions that is not the whole one are covered by the workflow record   *)
(* (runner.rs apply: written first, cleared last).                          *)
RiskIsRecorded == exposed \/ Deployed \notin {{}, Layers} => workflow

(* A strategy that decides as active holds every layer, also after starts   *)
(* that found the checkpoint ahead of the chain (runner.rs inner).          *)
ActiveMeansComplete ==
    pc = "cycle" /\ mem.phase \in {"Active", "Recovering"} => Deployed = Layers

(* Records, chain and phase agree wherever the code relies on it.           *)
Consistent == TypeOK /\ RecordsMatchChain /\ ActiveMeansComplete

EntersNow == pc = "cycle" /\ pc' = "apply" /\ d'.lp = "Deploy" /\ Deployed = {}

(* An entry rests on consecutive closed hours, each good when first seen,    *)
(* with no danger, stale frame or restart since the first of them: every    *)
(* entry of the trend strategy (regime.rs evaluate_with_signals), and every *)
(* one but the first without a [regime] (strategy/mod.rs can_resume).       *)
EntryRestsOnCalmHours ==
    [][EntersNow /\ (trend \/ mem'.history = "Established") =>
         \A h \in (bars'.close - Need + 1)..bars'.close : h \in calm']_vars

(* A strategy that knows it has entered before enters again only when the   *)
(* cooldown has passed since its last pause or recovery began; without a    *)
(* [regime], since prices were last stale, too (strategy/mod.rs evaluate).  *)
EstablishedWaits ==
    [][EntersNow /\ mem'.history = "Established" => now - pausedAt >= Cooldown]_vars

(* No transaction that adds liquidity is signed while base bought for it is *)
(* not hedged (runner.rs apply: the hedge between swap and mint).           *)
AddsOnlyHedged ==
    [][pending' # pending /\ pending' # Null /\ pending'.op \in {"mint", "increase"}
       => ~exposed]_vars

(* A halt survives every restart and recovery, and never buys or mints.     *)
HaltIsFinal ==
    [][checkpoint.phase = "Halted" =>
         /\ checkpoint'.phase = "Halted"
         /\ pending' \in {pending, Null} \/ pending'.op \in {"remove", "sell"}]_vars

(* What may be signed: entries under a full hedge, nothing but exits in a   *)
(* halt.                                                                    *)
SignsWithinRisk == AddsOnlyHedged /\ HaltIsFinal

Blocked == pending # Null /\ answer = "unknown" /\ wire = {}

(* Inventory an interrupted workflow left is sold off, unless the signature *)
(* on disk can no longer be settled: then nothing is sent at all.  The      *)
(* runner ends with its first error and no service brings it back           *)
(* (docs/solana.md, nohup): this is for an operator who starts it whenever  *)
(* it has ended, as often as that takes.                                    *)
StartedAgain == []<>(pc # "down")
InterruptedExits ==
    StartedAgain => ((pc = "down" /\ workflow /\ ~Flat) ~> (Flat \/ Blocked))

(* docs/solana.md: only the first entry is free of the cooldown.            *)
CooldownAfterFirstEntry ==
    [][EntersNow /\ opened => now - pausedAt >= Cooldown]_vars
=============================================================================
