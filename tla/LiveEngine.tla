----------------------------- MODULE LiveEngine -----------------------------
(***************************************************************************)
(* The life of the live strategy: start-up, decision, LP workflow, and the *)
(* four files that carry them across restarts (engine/mod.rs,              *)
(* engine/live.rs, engine/entry_rearm.rs, recovery.rs).                    *)
(*                                                                         *)
(* Each action ends with at most one write to a file that matters after a  *)
(* crash, or one transaction.  Transactions and hedges are those of        *)
(* EvmTransactions and HedgeOrders: settled, or left pending by a crash    *)
(* and settled by the next start before anything else reads the inventory. *)
(***************************************************************************)
EXTENDS RiskPhases

CONSTANTS
    Late,        \* the hours whose candle the exchange publishes late
    MaxTime,     \* bound: the clock stops here
    MaxCrashes,  \* bound: errors that end the process, and kills
    MaxReads,    \* bound: read failures (retry_reads)
    Null

VARIABLES
    checkpoint,  \* checkpoint.json
    lpHistory,   \* lp_history.json exists
    workflow,    \* workflow.json is not null
    permit,      \* status in entry_rearm.json, or "none"
    lp,          \* chain: the size of each layer's position, in budget steps
    flat,        \* no base in the wallet and no short
    flying,      \* the transaction of pending.json when the process died
    now, crashes, reads,
    pc,          \* the next step of run_strategy
    mem,         \* the strategy in memory
    d,           \* the decision being executed
    todo,        \* the layers the workflow still has to treat
    unwinding,   \* the workflow is the exit of a restart
    fetched,     \* fetched_hour: the hour of the candle history
    opened,      \* history variable: some position was ever opened
    credit,      \* history variable: a granted waiver is unused
    run,         \* history variable: the last hours found healthy in a row
    seen,        \* history variable: the evaluation that is not saved yet
    pausedAt     \* history variable: when the saved phase became Paused

files == <<checkpoint, lpHistory, workflow, permit>>
inventory == <<lp, flat, flying>>
process == <<pc, mem, d, todo, unwinding, fetched>>
clock == <<now, crashes, reads>>
ghosts == <<opened, credit, run, seen, pausedAt>>
vars == <<files, inventory, process, clock, ghosts>>

Permits == {"none", "armed", "consumed", "canceled"}
Intents == {"Nothing", "Hold", "Deploy", "ExitToQuote", "Recenter"}

Steps == {"down", "loaded", "reconciled", "recover", "finish", "ready",
          "cycle", "observed", "decided", "save", "apply", "remove", "sell",
          "mint", "bought", "scale", "protect", "clear", "close"}

NoDecision ==
    [lp |-> "Nothing", fraction |-> 0, layers |-> {}, waiver |-> FALSE]

NoEvaluation == [at |-> 0, run |-> {}]

\* AppConfig::validate refuses an empty list of layers.
ASSUME LayersAssumption == Layers # {}

\* Null stands for the absent transaction.
ASSUME NullAssumption == Null \notin [layer : Layers, size : 0..Full]

\* The decision that a leftover workflow is answered with.
RestartExit == [NoDecision EXCEPT !.lp = "ExitToQuote"]

Deployed == {l \in Layers : lp[l] > 0}
Flat == Deployed = {} /\ flat

\* portfolio() records the first position it sees.
SeenLp == lpHistory \/ Deployed # {}

-----------------------------------------------------------------------------
(* Start-up. *)

Load ==
    /\ pc = "down"
    /\ lpHistory' = (SeenLp \/ checkpoint.history = "Established")
    /\ mem' = Freeze(RestoreEntryHistory(checkpoint, lpHistory'))
    /\ pc' = "loaded"
    /\ UNCHANGED <<checkpoint, workflow, permit, inventory, d, todo, unwinding,
                   fetched, clock, ghosts>>

\* reconcile settles the pending transaction, then portfolio() is read.
Reconcile ==
    /\ pc = "loaded"
    /\ \E landed \in IF flying = Null THEN {FALSE} ELSE BOOLEAN :
         lp' = IF landed THEN [lp EXCEPT ![flying.layer] = flying.size] ELSE lp
    /\ opened' = (opened \/ Deployed' # {})
    /\ lpHistory' = (lpHistory \/ Deployed' # {})
    /\ flying' = Null
    /\ pc' = "reconciled"
    /\ UNCHANGED <<checkpoint, workflow, permit, flat, mem, d, todo, unwinding,
                   fetched, clock, credit, run, seen, pausedAt>>

NotePause(t) ==
    pausedAt' = IF checkpoint.phase # "Paused" /\ checkpoint'.phase = "Paused"
                THEN t ELSE pausedAt

\* Variant: the reconciled positions are not entered in the history.
SaveReconciledUnobserved ==
    /\ pc = "reconciled"
    /\ mem' = PauseIncompleteInventory(mem, Deployed, now)
    /\ checkpoint' = mem'
    /\ NotePause(now)
    /\ pc' = IF workflow THEN "recover" ELSE "ready"
    /\ UNCHANGED <<lpHistory, workflow, permit, inventory, d, todo, unwinding,
                   fetched, clock, opened, credit, run, seen>>

SaveReconciled ==
    /\ pc = "reconciled"
    /\ mem' = PauseIncompleteInventory(ObserveLp(mem, Deployed), Deployed, now)
    /\ checkpoint' = mem'
    /\ NotePause(now)
    /\ pc' = IF workflow THEN "recover" ELSE "ready"
    /\ UNCHANGED <<lpHistory, workflow, permit, inventory, d, todo, unwinding,
                   fetched, clock, opened, credit, run, seen>>

\* Variant: a leftover workflow is left to the next decision.
RecoverWorkflowLater ==
    /\ pc = "recover"
    /\ pc' = "ready"
    /\ UNCHANGED <<files, inventory, mem, d, todo, unwinding, fetched, clock, ghosts>>

RecoverWorkflow ==
    /\ pc = "recover"
    /\ d' = RestartExit
    /\ unwinding' = TRUE
    /\ pc' = "apply"
    /\ UNCHANGED <<files, inventory, mem, todo, fetched, clock, ghosts>>

FinishRecovery ==
    /\ pc = "finish"
    /\ mem' = FinishWorkflowRecovery(mem, now)
    /\ checkpoint' = mem'
    /\ NotePause(now)
    /\ unwinding' = FALSE
    /\ pc' = "ready"
    /\ UNCHANGED <<lpHistory, workflow, permit, inventory, d, todo, fetched,
                   clock, opened, credit, run, seen>>

\* The operator may declare (first_entry) that an old state never entered.
ConfirmsFirstEntry ==
    mem.history = "LegacyUnknown" /\ mem.phase # "Halted" /\ ~SeenLp

Ready ==
    /\ pc = "ready"
    /\ \E firstEntry \in BOOLEAN :
         /\ firstEntry /\ ConfirmsFirstEntry => Flat /\ ~workflow
         /\ mem' = IF firstEntry /\ ConfirmsFirstEntry
                   THEN [mem EXCEPT !.history = "Initial"] ELSE mem
    /\ checkpoint' = mem'
    /\ fetched' = 0
    /\ pc' = "cycle"
    /\ UNCHANGED <<lpHistory, workflow, permit, inventory, d, todo, unwinding,
                   clock, ghosts>>

-----------------------------------------------------------------------------
(* One cycle: observe, decide, save, execute. *)

Fetch ==
    /\ pc = "cycle"
    /\ fetched' = Hour(now)
    /\ pc' = "observed"
    /\ UNCHANGED <<files, inventory, mem, d, todo, unwinding, clock, ghosts>>

\* The history holds the candle that was running when it was fetched; a frame
\* taken after that candle's close shows it as completed.  In the minute after a
\* late hour, its first tick, the hour before may still be the last one shown, but
\* an hour once shown stays.
Closed ==
    {h \in {Hour(now) - 1, Hour(now)} :
        /\ h >= mem.hour
        /\ h < Hour(now) => Hour(now) \in Late /\ now % HourTicks = 0}

Frames ==
    [now: {now}, valid: BOOLEAN, drawdown: BOOLEAN,
     metrics: IF fetched + 1 >= Hour(now) THEN BOOLEAN ELSE {FALSE},
     close: Closed, market: {"unsafe", "uneasy", "healthy"},
     revised: BOOLEAN, deployed: {Deployed}, breakout: SUBSET Deployed]

\* Observations that differ in nothing that is read are one.
Distinct(f) ==
    /\ ~f.valid => ~f.drawdown /\ ~f.metrics
    /\ f.drawdown => ~f.metrics
    /\ ~f.metrics => f.market = "unsafe" /\ ~f.revised /\ f.breakout = {}
    /\ f.market = "unsafe" => ~f.revised /\ f.breakout = {}
    /\ f.revised => mem.frozen

\* An entry the hedge account cannot carry is taken back.
DeferEntry(r) ==
    LET back == [r.state EXCEPT !.phase = mem.phase, !.fraction = mem.fraction,
                                !.scale = mem.scale]
    IN  IF flat THEN Wait(back)
        ELSE ExitToQuote([back EXCEPT !.phase = "Paused"])

Preflighted(r, budget) ==
    IF r.lp = "Deploy" /\ Deployed = {} /\ ~budget THEN DeferEntry(r) ELSE r

\* The armed permit lets a flat, paused strategy decide as before its first entry.
Rearmed(f) ==
    LET r == EvaluateWithContinuity([mem EXCEPT !.history = "Initial"], f)
    IN  [r EXCEPT !.state.history = mem.history]

\* settled() holds in this place (DecidesSettled below).
Waived == permit = "armed" /\ mem.phase = "Paused" /\ Flat

\* The hours in a row that were found healthy when they were first looked at.
RunAfter(s, f) ==
    LET looked == f.valid /\ f.metrics /\ s.phase # "Halted"
    IN  CASE ~looked -> run
          [] looked /\ f.market = "unsafe" -> {}
          [] looked /\ f.market # "unsafe" /\ f.close = mem.hour -> run
          [] looked /\ f.market = "uneasy" /\ f.close # mem.hour -> {}
          [] OTHER -> {h \in run : f.close - h < Need} \cup {f.close}

Assess ==
    /\ pc = "observed"
    /\ \E f \in {g \in Frames : Distinct(g)}, budget \in BOOLEAN :
         LET raw == IF Waived THEN Rearmed(f) ELSE EvaluateWithContinuity(mem, f)
             r == Preflighted(raw, budget)
         IN  /\ mem' = r.state
             /\ d' = [lp |-> r.lp, fraction |-> r.fraction, layers |-> r.layers,
                      waiver |-> Waived /\ r.lp = "Deploy"]
             /\ permit' = IF permit = "armed"
                             /\ (~Waived \/ raw.state.phase = "Halted")
                          THEN "canceled" ELSE permit
             /\ seen' = [at |-> now, run |-> RunAfter(raw.state, f)]
    /\ pc' = "decided"
    /\ UNCHANGED <<checkpoint, lpHistory, workflow, inventory, todo, unwinding,
                   fetched, clock, opened, credit, run, pausedAt>>

Consume ==
    /\ pc = "decided"
    /\ d.waiver => permit = "armed"
    /\ permit' = IF d.waiver THEN "consumed" ELSE permit
    /\ pc' = "save"
    /\ UNCHANGED <<checkpoint, lpHistory, workflow, inventory, mem, d, todo,
                   unwinding, fetched, clock, ghosts>>

Save ==
    /\ pc = "save"
    /\ checkpoint' = mem
    /\ NotePause(seen.at)
    /\ run' = seen.run /\ seen' = NoEvaluation
    /\ pc' = IF d.lp \in {"Nothing", "Hold"} THEN "close" ELSE "apply"
    /\ UNCHANGED <<lpHistory, workflow, permit, inventory, mem, d, todo,
                   unwinding, fetched, clock, opened, credit>>

\* A decision to hold adjusts the hedge and trades nothing else.
Close ==
    /\ pc = "close"
    /\ mem' = ObserveLp(mem, Deployed)
    /\ checkpoint' = mem'
    /\ flat' \in IF d.lp = "Hold" THEN {flat, flat \/ Deployed = {}} ELSE {flat}
    /\ d' = NoDecision
    /\ pc' = "cycle"
    /\ UNCHANGED <<lpHistory, workflow, permit, lp, flying, todo, unwinding,
                   fetched, clock, ghosts>>

-----------------------------------------------------------------------------
(* The LP workflow: apply. *)

BeginApply ==
    /\ pc = "apply"
    /\ workflow' = TRUE
    /\ lpHistory' = SeenLp
    /\ credit' = IF d.waiver THEN credit - 1 ELSE credit
    /\ CASE d.lp = "Deploy" /\ Deployed = {} -> pc' = "mint" /\ todo' = Layers
         [] d.lp = "Deploy" /\ Deployed # {} -> pc' = "scale" /\ todo' = Deployed
         [] d.lp = "Recenter" -> pc' = "remove" /\ todo' = d.layers
         [] OTHER -> pc' = "remove" /\ todo' = Deployed
    /\ UNCHANGED <<checkpoint, permit, inventory, mem, d, unwinding, fetched,
                   clock, opened, run, seen, pausedAt>>

Remove ==
    /\ pc = "remove"
    /\ \E l \in todo :
         /\ lp' = [lp EXCEPT ![l] = 0]
         /\ todo' = todo \ {l}
    /\ flat' = FALSE
    /\ UNCHANGED <<files, flying, pc, mem, d, unwinding, fetched, clock, ghosts>>

Removed ==
    /\ pc = "remove"
    /\ todo = {}
    /\ \/ d.lp = "Recenter" /\ pc' = "mint" /\ todo' = d.layers
       \/ d.lp # "Recenter" /\ pc' = "sell" /\ todo' = todo
    /\ UNCHANGED <<files, inventory, mem, d, unwinding, fetched, clock, ghosts>>

\* Sell the base, then close the short; one too small to be ordered stays.
Sell ==
    /\ pc = "sell"
    /\ flat' \in {flat, TRUE}
    /\ pc' = "clear"
    /\ UNCHANGED <<files, lp, flying, mem, d, todo, unwinding, fetched, clock, ghosts>>

\* entry_guard, swap, portfolio and full hedge before a layer is minted.
Buy ==
    /\ pc = "mint"
    /\ flat' = FALSE
    /\ lpHistory' = SeenLp
    /\ pc' = "bought"
    /\ UNCHANGED <<checkpoint, workflow, permit, lp, flying, mem, d, todo,
                   unwinding, fetched, clock, ghosts>>

MintSize == IF d.lp = "Deploy" THEN d.fraction ELSE Full

Mint ==
    /\ pc = "bought"
    /\ \E l \in todo :
         /\ lp' = [lp EXCEPT ![l] = MintSize]
         /\ todo' = todo \ {l}
    /\ opened' = TRUE
    /\ pc' = IF todo' = {} THEN "protect" ELSE "mint"
    /\ UNCHANGED <<files, flat, flying, mem, d, unwinding, fetched, clock,
                   credit, run, seen, pausedAt>>

ScaledSize(l) == IF lp[l] < d.fraction THEN d.fraction ELSE lp[l]

Scale ==
    /\ pc = "scale"
    /\ \E l \in todo :
         /\ lp' = [lp EXCEPT ![l] = ScaledSize(l)]
         /\ todo' = todo \ {l}
    /\ flat' = FALSE
    /\ pc' = IF todo' = {} THEN "protect" ELSE "scale"
    /\ UNCHANGED <<files, flying, mem, d, unwinding, fetched, clock, ghosts>>

\* The last portfolio() and the hedge to the inventory's target.
Protect ==
    /\ pc = "protect"
    /\ lpHistory' = SeenLp
    /\ pc' = "clear"
    /\ UNCHANGED <<checkpoint, workflow, permit, inventory, mem, d, todo,
                   unwinding, fetched, clock, ghosts>>

\* Variant: the exit of a restart leaves the record behind.
ClearOwnWorkflow ==
    /\ pc = "clear"
    /\ workflow' = unwinding
    /\ pc' = IF unwinding THEN "finish" ELSE "close"
    /\ UNCHANGED <<checkpoint, lpHistory, permit, inventory, mem, d, todo,
                   unwinding, fetched, clock, ghosts>>

ClearWorkflow ==
    /\ pc = "clear"
    /\ workflow' = FALSE
    /\ pc' = IF unwinding THEN "finish" ELSE "close"
    /\ UNCHANGED <<checkpoint, lpHistory, permit, inventory, mem, d, todo,
                   unwinding, fetched, clock, ghosts>>

-----------------------------------------------------------------------------
(* Faults, the operator, the clock. *)

\* The transactions the process may have sent without learning their fate.
Unsettled ==
    {Null} \cup
    CASE pc = "bought" -> [layer: todo, size: {MintSize}]
      [] pc = "remove" -> [layer: todo, size: {0}]
      [] pc = "scale" -> {[layer |-> l, size |-> ScaledSize(l)] : l \in todo}
      [] OTHER -> {}

\* The process is gone: memory starts afresh.
Restart ==
    /\ pc' = "down"
    /\ mem' = NewStrategy
    /\ d' = NoDecision
    /\ todo' = {}
    /\ unwinding' = FALSE
    /\ fetched' = 0

Crash ==
    /\ pc # "down"
    /\ crashes < MaxCrashes
    /\ crashes' = crashes + 1
    /\ flying' \in IF flying = Null THEN Unsettled ELSE {flying}
    /\ Restart
    /\ seen' = NoEvaluation
    /\ UNCHANGED <<files, lp, flat, now, reads, opened, credit, run, pausedAt>>

\* The steps that read the chain or the exchange before they change anything.
Reading == {"loaded", "recover", "cycle", "observed", "apply", "remove", "sell",
            "mint", "bought", "scale", "protect", "close", "ready"}

ReadFails ==
    /\ pc \in Reading
    /\ reads < MaxReads
    /\ reads' = reads + 1
    /\ Restart
    /\ seen' = NoEvaluation
    /\ UNCHANGED <<files, inventory, now, crashes, opened, credit, run, pausedAt>>

\* rearm-entry --execute needs the state directory's lock: the strategy is down.
Arm ==
    /\ pc = "down"
    /\ permit # "armed"
    /\ flying = Null /\ ~workflow
    /\ checkpoint.phase = "Paused" /\ Flat
    /\ lpHistory' = (SeenLp \/ checkpoint.history = "Established")
    /\ permit' = "armed"
    /\ credit' = 1
    /\ UNCHANGED <<checkpoint, workflow, inventory, process, clock, opened, run, seen, pausedAt>>

\* Time may pass before every step; only before those that read the clock does
\* it make a difference.
Tick ==
    /\ pc \in {"down", "reconciled", "finish", "cycle", "observed"}
    /\ now < MaxTime
    /\ now' = now + 1
    /\ UNCHANGED <<files, inventory, process, crashes, reads, ghosts>>

-----------------------------------------------------------------------------
\* A new state directory, or one of a release without entry history; the wallet
\* may hold base already.
LegacyPaused ==
    [NewStrategy EXCEPT !.history = "LegacyUnknown", !.phase = "Paused",
                        !.pause = HourTicks]

Init ==
    /\ checkpoint \in {NewStrategy, LegacyPaused}
    /\ lpHistory = FALSE
    /\ workflow = FALSE
    /\ permit = "none"
    /\ lp = [l \in Layers |-> 0]
    /\ flat \in BOOLEAN
    /\ flying = Null
    /\ now = HourTicks /\ crashes = 0 /\ reads = 0
    /\ pc = "down"
    /\ mem = NewStrategy
    /\ d = NoDecision
    /\ todo = {}
    /\ unwinding = FALSE
    /\ fetched = 0
    /\ opened = FALSE
    /\ credit = 0
    /\ run = {}
    /\ seen = NoEvaluation
    /\ pausedAt = HourTicks

Process ==
    \/ Load \/ Reconcile \/ SaveReconciled \/ RecoverWorkflow \/ FinishRecovery
    \/ Ready \/ Fetch \/ Assess \/ Consume \/ Save \/ Close
    \/ BeginApply \/ Remove \/ Removed \/ Sell \/ Buy \/ Mint \/ Scale
    \/ Protect \/ ClearWorkflow

Next == Process \/ Crash \/ ReadFails \/ Arm \/ Tick

Spec == Init /\ [][Next]_vars

\* The service restarts the process and the process is scheduled.
FairSpec == Spec /\ WF_vars(Process)
-----------------------------------------------------------------------------
(* Properties. *)

Decisions ==
    [lp: Intents, fraction: 0..Full, layers: SUBSET Layers, waiver: BOOLEAN]

TypeOK ==
    /\ checkpoint \in Strategy /\ mem \in Strategy
    /\ lpHistory \in BOOLEAN /\ workflow \in BOOLEAN /\ permit \in Permits
    /\ lp \in [Layers -> 0..Full] /\ flat \in BOOLEAN
    /\ flying \in {Null} \cup [layer: Layers, size: 0..Full]
    /\ now \in Nat /\ crashes \in Nat /\ reads \in Nat
    /\ pc \in Steps
    /\ d \in Decisions
    /\ todo \in SUBSET Layers /\ unwinding \in BOOLEAN
    /\ fetched \in Nat
    /\ opened \in BOOLEAN /\ credit \in Int
    /\ run \in SUBSET Nat /\ seen \in [at: Nat, run: SUBSET Nat]
    /\ pausedAt \in Nat

\* No restart, unwinding, permit or recovered market ends a halt that was saved
\* (recovery.rs, finish_workflow_recovery; strategy/mod.rs, Phase::Halted).
HaltIsFinal ==
    [][checkpoint.phase = "Halted" => checkpoint'.phase = "Halted"]_vars

\* A halted strategy never runs a workflow that buys, mints or scales.
HaltedNeverEnters ==
    checkpoint.phase = "Halted" => pc \notin {"mint", "bought", "scale"}

\* A pause ends in Recovering only when each of the last Need hours was looked at
\* and found healthy, without a gap and without an alarm since, whatever
\* restarts and revalidations lie between (strategy/mod.rs, can_resume).
ResumeEarned ==
    [][checkpoint.phase = "Paused" /\ checkpoint'.phase = "Recovering"
         => \E last \in {Hour(seen.at) - 1, Hour(seen.at)} :
              \A k \in 0..(Need - 1) : last - k \in run']_vars

\* ... and not before the cooldown has passed since the saved phase became Paused.
CooldownKept ==
    [][checkpoint.phase = "Paused" /\ checkpoint'.phase = "Recovering"
         => seen.at - pausedAt >= Cooldown]_vars

\* A pause is served in full: both conditions, on every path that ends it.
PauseServed == ResumeEarned /\ CooldownKept

\* A granted waiver starts at most one entry, however often the process dies
\* between evaluate, consume, save and apply (engine/entry_rearm.rs).
WaiverUsedOnce == credit >= 0

\* While it decides, the strategy knows of every position it ever opened, also of
\* one whose transaction was settled by a later life: the first-entry rule, which
\* skips cooldown and healthy hours, is never applied a second time.
EntryHistoryTrue ==
    opened /\ pc \in {"cycle", "observed", "decided", "save"}
        => mem.history = "Established"

\* While it decides, an Active or Recovering strategy has all its layers: no
\* interrupted entry, exit or recentering is taken for a finished one.
ActiveMeansDeployed ==
    pc \in {"cycle", "observed"} /\ mem.phase \in {"Active", "Recovering"}
        => Deployed = Layers

\* The strategy never decides beside an unfinished workflow or an unsettled
\* transaction: a restart has dealt with both before (engine/mod.rs).
DecidesSettled == pc \in {"cycle", "observed"} => ~workflow /\ flying = Null

\* What holds in every state of every life: nothing is decided beside unfinished
\* business, and neither a halt nor a spent waiver leads to an entry.
Consistent == TypeOK /\ DecidesSettled /\ HaltedNeverEnters /\ WaiverUsedOnce

\* A started workflow ends: completed, or unwound by a later life.
WorkflowEnds == workflow ~> ~workflow

\* README.md: after a pause 25% of the budget is deployed, and another 25% after
\* each further healthy period.
RecoveryIsStaged ==
    pc = "cycle" /\ mem.phase = "Recovering" => \A l \in Layers : lp[l] <= mem.fraction
=============================================================================
