------------------------------ MODULE HedgeOrders ------------------------------
(***************************************************************************)
(* The Hyperliquid hedge executor: one process that places a post-only     *)
(* order, waits, cancels it, sells or buys the rest with an IOC order, and *)
(* an exchange that answers late, answers twice differently, or not at     *)
(* all.  The process may die between any two durable writes; what it knows *)
(* afterwards is what the state directory says.                            *)
(*                                                                         *)
(* Code: src/hyperliquid/{hedge,journal,order_recovery,mod}.rs, the        *)
(* pending record of src/store.rs and the start-up order of                *)
(* src/engine/mod.rs.  The exchange is external: it is modelled from the   *)
(* answers the code distinguishes.                                         *)
(*                                                                         *)
(* Sizes are integers in lots; an account read is current (the code        *)
(* relies on it), while orderStatus and openOrders may lag separately.     *)
(***************************************************************************)
EXTENDS Naturals, FiniteSets

CONSTANTS
    Cloids,        \* client order IDs the process can draw (orders::cloid)
    Null,          \* JSON null, "no file content"
    MaxShort,      \* bound on hedge targets and on the initial short, in lots
    KeepTerminal,  \* policy.terminal_orders_keep
    MaxFaults      \* bound on crashes, failed calls, lost requests, refusals

ASSUME CloidsAssumption == IsFiniteSet(Cloids)
ASSUME BoundsAssumption ==
    MaxShort \in Nat /\ KeepTerminal \in Nat \ {0} /\ MaxFaults \in Nat

VARIABLES
    \* the state directory
    pending,   \* pending.json: the one unresolved mutation, or Null
    ledger,    \* orders.json: status per client ID, "absent" if no entry
    oid,       \* orders.json: does the entry carry an exchange order ID
    archived,  \* order_archive/: IDs of compacted entries
    pointer,   \* hedge_order.json: the current hedge order, or Null
    \* the process; lost in a crash
    pc, recover, cur, todo, plan, reply,
    \* the exchange and the network
    xstat,     \* the true status of each order
    left,      \* the unfilled size of each order
    intent,    \* what was signed under each client ID
    posted,    \* IDs whose order request was handed to the network
    wire,      \* requests under way
    index,     \* what orderStatus shows
    listed,    \* what openOrders shows
    short,     \* the true short position
    faults     \* faults so far

disk == <<pending, ledger, oid, archived, pointer>>
proc == <<pc, recover, cur, todo, plan, reply>>
exch == <<xstat, left, intent, posted, wire, index, listed, short>>
vars == <<disk, proc, exch, faults>>

Final == {"filled", "canceled", "rejected"}
Terminal == Final \cup {"not_submitted"}
Unresolved == {"prepared", "legacy", "open"}
Intent == [buy: BOOLEAN, size: Nat, tif: {"Alo", "Ioc"}, target: Nat]
Plan == [cloid: Cloids, order: Intent, emergency: BOOLEAN]
Pending == [kind: {"order", "cancel"}, cloid: Cloids,
            dispatch: {"prepared", "submitting"}]
Request == [kind: {"order", "cancel"}, cloid: Cloids]
Step == {"down", "reconcile", "unsent", "unsent_pointer", "resolve_pending",
         "pending_cancel", "finish_pending", "sync", "refresh", "list",
         "sweep", "compact", "check", "cancel", "submit", "post", "await",
         "finish", "confirm", "idle", "begin", "pointer", "journal", "clear",
         "second", "verify_ioc", "settle"}

Reply == {"resting", "filled", "ok", "error"}

ASSUME NullAssumption == Null \notin Cloids \cup Pending \cup Plan \cup Reply

Req(kind, c) == [kind |-> kind, cloid |-> c]
Nothing == [buy |-> FALSE, size |-> 0, tif |-> "Alo", target |-> 0]

TypeOK ==
    /\ pending \in Pending \cup {Null}
    /\ ledger \in [Cloids -> Unresolved \cup Terminal \cup {"absent"}]
    /\ oid \in [Cloids -> BOOLEAN]
    /\ archived \subseteq Cloids
    /\ pointer \in Cloids \cup {Null}
    /\ pc \in Step
    /\ recover \in BOOLEAN
    /\ cur \in Cloids \cup {Null}
    /\ todo \subseteq Cloids
    /\ plan \in Plan \cup {Null}
    /\ reply \in Reply \cup {Null}
    /\ xstat \in [Cloids -> Final \cup {"none", "open"}]
    /\ left \in [Cloids -> Nat]
    /\ intent \in [Cloids -> Intent]
    /\ posted \subseteq Cloids
    /\ wire \subseteq Request
    /\ index \in [Cloids -> Final \cup {"none", "open"}]
    /\ listed \in [Cloids -> {"before", "open", "after"}]
    /\ short \in Nat
    /\ faults \in Nat

\* An empty state directory, or one of an earlier release: its hedge order is
\* known by hedge_order.json alone and may have traded since.
Init ==
    /\ pending = Null
    /\ ledger = [c \in Cloids |-> "absent"]
    /\ oid = [c \in Cloids |-> FALSE]
    /\ archived = {}
    /\ pc = "down" /\ recover = TRUE /\ cur = Null /\ todo = {}
    /\ plan = Null /\ reply = Null
    /\ wire = {} /\ faults = 0
    /\ short \in 0..MaxShort
    /\ pointer \in Cloids \cup {Null}
    /\ posted = {pointer} \ {Null}
    /\ \E s \in {"open", "filled", "canceled"}, n \in 1..MaxShort :
          /\ xstat = [c \in Cloids |-> IF c = pointer THEN s ELSE "none"]
          /\ intent = [c \in Cloids |-> IF c = pointer
                          THEN [buy |-> FALSE, size |-> n, tif |-> "Alo",
                                target |-> short + n]
                          ELSE Nothing]
          /\ left = [c \in Cloids |-> IF c = pointer /\ s # "filled" THEN n ELSE 0]
    /\ index = xstat
    /\ listed = [c \in Cloids |-> CASE xstat[c] = "none" -> "before"
                                   [] xstat[c] = "open" -> "open"
                                   [] OTHER -> "after"]
--------------------------------------------------------------------------------
\* A process that stops, or a run_strategy attempt that returns an error, keeps
\* the state directory and nothing else; the supervisor or retry_reads starts
\* over from the pending record.
Reset ==
    /\ pc' = "down" /\ recover' = TRUE /\ cur' = Null /\ todo' = {}
    /\ plan' = Null /\ reply' = Null

Goto(step) == pc' = step /\ UNCHANGED <<recover, cur, todo, plan, reply>>

\* A kill, a failed read, an expired quote, a full disk: any error between steps.
Crash ==
    /\ pc # "down" /\ faults < MaxFaults
    /\ Reset /\ faults' = faults + 1
    /\ UNCHANGED <<disk, exch>>

Start ==
    /\ pc = "down"
    /\ Goto("reconcile")
    /\ UNCHANGED <<disk, exch, faults>>

\* What openOrders shows.
Rows == {c \in Cloids : listed[c] = "open"}

\* order_recovery::resolve.  What the queries of one round show: orderStatus
\* first, openOrders when that does not know the order.
View(c) == IF index[c] # "none" THEN index[c]
           ELSE IF listed[c] = "open" THEN "open" ELSE "none"

\* resolve returns s: a durable verdict needs no query, an answer is observed
\* into the ledger with its oid.
Resolved(c, s) ==
    IF ledger[c] \in Terminal
    THEN s = ledger[c] /\ UNCHANGED <<ledger, oid>>
    ELSE /\ s = View(c) /\ s # "none"
         /\ ledger' = [ledger EXCEPT ![c] = s]
         /\ oid' = [oid EXCEPT ![c] = TRUE]

\* Five rounds without a usable answer end in ReadUnavailable.  After a cancel
\* an "open" answer is no answer (terminal_only).
NoAnswer(c, terminalOnly) ==
    /\ ledger[c] \notin Terminal
    /\ View(c) = "none" \/ (terminalOnly /\ View(c) = "open")
--------------------------------------------------------------------------------
\* hedge::reconcile, called before anything else when pending.json is set.
ReconcileNothing ==
    /\ pc = "reconcile" /\ pending = Null
    /\ Goto("sync")
    /\ UNCHANGED <<disk, exch, faults>>

\* journal::prepare: the crash may have come before the ledger entry.
Prepared(c) ==
    /\ c \notin archived
    /\ ledger' = [ledger EXCEPT ![c] = IF @ = "absent" THEN "prepared" ELSE @]

\* Variant: an interrupted dispatch is taken for an unsent one.
ReconcileOrderAsUnsent ==
    /\ pc = "reconcile" /\ pending # Null /\ pending.kind = "order"
    /\ Prepared(pending.cloid)
    /\ Goto("unsent")
    /\ UNCHANGED <<pending, oid, archived, pointer, exch, faults>>

ReconcileOrder ==
    /\ pc = "reconcile" /\ pending # Null /\ pending.kind = "order"
    /\ Prepared(pending.cloid)
    /\ Goto(IF pending.dispatch = "prepared" THEN "unsent" ELSE "resolve_pending")
    /\ UNCHANGED <<pending, oid, archived, pointer, exch, faults>>

\* Variant: the dispatch state of a cancel is not looked at.
ReconcileCancelByEffect ==
    /\ pc = "reconcile" /\ pending # Null /\ pending.kind = "cancel"
    /\ Goto("pending_cancel")
    /\ UNCHANGED <<disk, exch, faults>>

ReconcileCancel ==
    /\ pc = "reconcile" /\ pending # Null /\ pending.kind = "cancel"
    /\ Goto(IF pending.dispatch = "prepared" THEN "unsent" ELSE "pending_cancel")
    /\ UNCHANGED <<disk, exch, faults>>

\* journal::not_submitted: only the pre-dispatch state proves nothing was sent.
MarkUnsent ==
    /\ pc = "unsent"
    /\ IF pending.kind = "order"
       THEN /\ ~oid[pending.cloid]
            /\ ledger[pending.cloid] \in {"prepared", "not_submitted"}
            /\ ledger' = [ledger EXCEPT ![pending.cloid] = "not_submitted"]
       ELSE UNCHANGED ledger
    /\ Goto("unsent_pointer")
    /\ UNCHANGED <<pending, oid, archived, pointer, exch, faults>>

ClearUnsentPointer ==
    /\ pc = "unsent_pointer"
    /\ pointer' = Null
    /\ Goto("finish_pending")
    /\ UNCHANGED <<pending, ledger, oid, archived, exch, faults>>

\* Variant: absence taken for an answer.
ResolvePendingOnce ==
    /\ pc = "resolve_pending"
    /\ \/ \E s \in Final \cup {"open", "not_submitted"} : Resolved(pending.cloid, s)
       \/ NoAnswer(pending.cloid, FALSE) /\ UNCHANGED <<ledger, oid>>
    /\ Goto("finish_pending")
    /\ UNCHANGED <<pending, archived, pointer, exch, faults>>

ResolvePending ==
    /\ pc = "resolve_pending"
    /\ \E s \in Final \cup {"open", "not_submitted"} : Resolved(pending.cloid, s)
    /\ Goto("finish_pending")
    /\ UNCHANGED <<pending, archived, pointer, exch, faults>>

\* A cancel is reconciled by its effect: no order may be listed at all.
PendingCancelGone ==
    /\ pc = "pending_cancel"
    /\ Rows = {}
    /\ pending' = Null
    /\ Goto("sync")
    /\ UNCHANGED <<ledger, oid, archived, pointer, exch, faults>>

FinishPending ==
    /\ pc = "finish_pending"
    /\ pending' = Null
    /\ Goto("sync")
    /\ UNCHANGED <<ledger, oid, archived, pointer, exch, faults>>

\* The errors of reconcile: the order stays unknown, the cancel has no effect.
ReconcileFails ==
    /\ \/ pc = "resolve_pending" /\ NoAnswer(pending.cloid, FALSE)
       \/ pc = "pending_cancel" /\ Rows # {}
    /\ Reset
    /\ UNCHANGED <<disk, exch, faults>>
--------------------------------------------------------------------------------
\* Controller::sync_orders.  journal::import_legacy, then every unresolved entry.
Imported == IF pointer # Null /\ ledger[pointer] = "absent"
            THEN [ledger EXCEPT ![pointer] = "legacy"] ELSE ledger

SyncOrders ==
    /\ pc = "sync"
    /\ ledger' = Imported
    /\ todo' = {c \in Cloids : Imported[c] \in Unresolved}
    /\ pc' = "refresh"
    /\ UNCHANGED <<pending, oid, archived, pointer, recover, cur, plan, reply,
                   exch, faults>>

Refresh(c) ==
    /\ pc = "refresh" /\ c \in todo
    /\ \E s \in Final \cup {"open", "not_submitted"} : Resolved(c, s)
    /\ todo' = todo \ {c}
    /\ UNCHANGED <<pending, archived, pointer, pc, recover, cur, plan, reply,
                   exch, faults>>

RefreshDone ==
    /\ pc = "refresh" /\ todo = {}
    /\ Goto("list")
    /\ UNCHANGED <<disk, exch, faults>>

\* journal::managed_open_orders: every row must be an unresolved order of the
\* ledger, known by oid, and every unresolved order must have its row.
\* Variant: an unresolved order missing from the list is overlooked.
ManagedRowsOnly(rows) == \A c \in rows : oid[c] /\ ledger[c] \in Unresolved

Managed(rows) ==
    /\ \A c \in rows : oid[c] /\ ledger[c] \in Unresolved
    /\ \A c \in Cloids : ledger[c] \in Unresolved => c \in rows

ListOpen ==
    /\ pc = "list"
    /\ Managed(Rows)
    /\ recover \/ Rows = {}
    /\ todo' = Rows /\ pc' = "sweep"
    /\ UNCHANGED <<disk, recover, cur, plan, reply, exch, faults>>

Sweep(c) ==
    /\ pc = "sweep" /\ c \in todo
    /\ cur' = c /\ todo' = todo \ {c} /\ pc' = "check"
    /\ UNCHANGED <<disk, recover, plan, reply, exch, faults>>

SweepDone ==
    /\ pc = "sweep" /\ todo = {} /\ Rows = {}
    /\ pointer' = Null
    /\ Goto("compact")
    /\ UNCHANGED <<pending, ledger, oid, archived, exch, faults>>

\* An unknown answer, a row that lags, a row at a moment none is allowed.
SyncFails ==
    /\ \/ pc = "refresh" /\ \E c \in todo : NoAnswer(c, FALSE)
       \/ pc = "list" /\ (~Managed(Rows) \/ (~recover /\ Rows # {}))
       \/ pc = "sweep" /\ todo = {} /\ Rows # {}
    /\ Reset
    /\ UNCHANGED <<disk, exch, faults>>

\* journal::compact: the oldest terminal entries beyond the quota.
Compactable == {c \in Cloids : ledger[c] \in Terminal /\ c # pointer}
Excess == IF Cardinality(Compactable) > KeepTerminal
          THEN Cardinality(Compactable) - KeepTerminal ELSE 0

Compact ==
    /\ pc = "compact"
    /\ IF pending # Null THEN UNCHANGED <<ledger, oid, archived>>
       ELSE \E old \in SUBSET Compactable :
              /\ Cardinality(old) = Excess
              /\ archived' = archived \cup old
              /\ ledger' = [c \in Cloids |-> IF c \in old THEN "absent" ELSE ledger[c]]
              /\ oid' = [c \in Cloids |-> oid[c] /\ c \notin old]
    /\ Goto("idle")
    /\ UNCHANGED <<pending, pointer, exch, faults>>

\* Store::archive_order writes one file per entry before orders.json is replaced:
\* the end of the process, or an archive that is full, may come in between and
\* leave entries in both.
ArchiveInterrupted ==
    /\ pc = "compact" /\ pending = Null
    /\ faults < MaxFaults /\ faults' = faults + 1
    /\ \E some \in SUBSET Compactable :
          /\ some # {} /\ Cardinality(some) <= Excess
          /\ archived' = archived \cup some
    /\ Reset
    /\ UNCHANGED <<pending, ledger, oid, pointer, exch>>
--------------------------------------------------------------------------------
\* Controller::cancel_if_open, called by the sweep and by hedge().
CancelReturn ==
    /\ pc' = IF plan = Null THEN "sweep" ELSE "clear"
    /\ cur' = Null
    /\ UNCHANGED <<recover, todo, plan, reply>>

\* Variant: the maker order is taken for gone after the wait.
CheckOpenWithoutCancel ==
    /\ pc = "check"
    /\ \E s \in Final \cup {"open", "not_submitted"} : Resolved(cur, s) /\ CancelReturn
    /\ UNCHANGED <<pending, archived, pointer, exch, faults>>

CheckOpen ==
    /\ pc = "check"
    /\ \E s \in Final \cup {"open", "not_submitted"} :
          /\ Resolved(cur, s)
          /\ IF s = "open" THEN Goto("cancel") ELSE CancelReturn
    /\ UNCHANGED <<pending, archived, pointer, exch, faults>>

BeginCancel ==
    /\ pc = "cancel" /\ pending = Null
    /\ pending' = [kind |-> "cancel", cloid |-> cur, dispatch |-> "prepared"]
    /\ Goto("submit")
    /\ UNCHANGED <<ledger, oid, archived, pointer, exch, faults>>

ConfirmCancel ==
    /\ pc = "confirm"
    /\ \E s \in Terminal : Resolved(cur, s)
    /\ CancelReturn
    /\ UNCHANGED <<pending, archived, pointer, exch, faults>>

CancelFails ==
    /\ \/ pc = "check" /\ NoAnswer(cur, FALSE)
       \/ pc = "confirm" /\ NoAnswer(cur, TRUE)
    /\ Reset
    /\ UNCHANGED <<disk, exch, faults>>
--------------------------------------------------------------------------------
\* Client::exchange_inner: validate_new_ids, begin, pointer, journal, submitting,
\* POST, acknowledged, finish.
NewId(c) == ledger[c] = "absent" /\ c \notin archived

BeginOrder ==
    /\ pc = "begin" /\ NewId(plan.cloid) /\ pending = Null
    /\ pending' = [kind |-> "order", cloid |-> plan.cloid, dispatch |-> "prepared"]
    /\ intent' = [intent EXCEPT ![plan.cloid] = plan.order]
    /\ Goto("pointer")
    /\ UNCHANGED <<ledger, oid, archived, pointer, xstat, left, posted, wire,
                   index, listed, short, faults>>

IdReused ==
    /\ pc = "begin" /\ ~NewId(plan.cloid)
    /\ Reset
    /\ UNCHANGED <<disk, exch, faults>>

\* Variant: dispatch without the ledger entry.
WritePointerWithoutJournal ==
    /\ pc = "pointer"
    /\ pointer' = plan.cloid
    /\ Goto("submit")
    /\ UNCHANGED <<pending, ledger, oid, archived, exch, faults>>

WritePointer ==
    /\ pc = "pointer"
    /\ pointer' = plan.cloid
    /\ Goto("journal")
    /\ UNCHANGED <<pending, ledger, oid, archived, exch, faults>>

JournalOrder ==
    /\ pc = "journal"
    /\ Prepared(plan.cloid)
    /\ Goto("submit")
    /\ UNCHANGED <<pending, oid, archived, pointer, exch, faults>>

Submit ==
    /\ pc = "submit"
    /\ pending' = [pending EXCEPT !.dispatch = "submitting"]
    /\ Goto("post")
    /\ UNCHANGED <<ledger, oid, archived, pointer, exch, faults>>

Post ==
    /\ pc = "post"
    /\ wire' = wire \cup {Req(pending.kind, pending.cloid)}
    /\ posted' = IF pending.kind = "order" THEN posted \cup {pending.cloid} ELSE posted
    /\ Goto("await")
    /\ UNCHANGED <<disk, xstat, left, intent, index, listed, short, faults>>

AckStatus == CASE reply = "resting" -> "open"
               [] reply = "filled" -> "filled"
               [] OTHER -> "rejected"

Acknowledge ==
    /\ pc = "await" /\ reply # Null
    /\ IF pending.kind = "order"
       THEN /\ ledger' = [ledger EXCEPT ![pending.cloid] = AckStatus]
            /\ oid' = [oid EXCEPT ![pending.cloid] = reply # "error"]
       ELSE UNCHANGED <<ledger, oid>>
    /\ Goto("finish")
    /\ UNCHANGED <<pending, archived, pointer, exch, faults>>

\* Variant: the request is sent again, as for a read.
PostTimeoutResends ==
    /\ pc = "await" /\ reply = Null
    /\ Goto("post")
    /\ UNCHANGED <<disk, exch, faults>>

\* The 15 s HTTP timeout: the request may still be on its way.
PostTimeout ==
    /\ pc = "await" /\ reply = Null
    /\ Reset
    /\ UNCHANGED <<disk, exch, faults>>

\* store.finish, then validate_response.  A rejected maker order goes on to the
\* second stage, a rejected IOC returns the error to the caller.
Finish ==
    /\ pc = "finish"
    /\ pending' = Null /\ reply' = Null
    /\ UNCHANGED <<ledger, oid, archived, pointer, recover, todo, exch, faults>>
    /\ \/ /\ pending.kind = "cancel"
          /\ pc' = "confirm" /\ UNCHANGED <<cur, plan>>
       \/ /\ pending.kind = "order" /\ plan.order.tif = "Alo" /\ reply = "error"
          /\ pc' = "clear" /\ UNCHANGED <<cur, plan>>
       \/ /\ pending.kind = "order" /\ plan.order.tif = "Alo" /\ reply # "error"
          /\ pc' = "check" /\ cur' = plan.cloid /\ UNCHANGED plan
       \/ /\ pending.kind = "order" /\ plan.order.tif = "Ioc" /\ reply = "error"
          /\ pc' = "idle" /\ plan' = Null /\ UNCHANGED cur
       \/ /\ pending.kind = "order" /\ plan.order.tif = "Ioc" /\ reply # "error"
          /\ pc' = "verify_ioc" /\ UNCHANGED <<cur, plan>>
--------------------------------------------------------------------------------
\* Controller::hedge.
Distance(target) == IF target > short THEN target - short ELSE short - target

Order(c, target, tif, emergency) ==
    [cloid |-> c, emergency |-> emergency,
     order |-> [buy |-> target < short, size |-> Distance(target), tif |-> tif,
                target |-> target]]

HedgePlan ==
    /\ pc = "idle"
    /\ \E c \in Cloids, target \in 0..MaxShort, emergency \in BOOLEAN :
          target # short /\ plan' = Order(c, target, "Alo", emergency)
    /\ pc' = "begin"
    /\ UNCHANGED <<disk, recover, cur, todo, reply, exch, faults>>

ClearPointer ==
    /\ pc = "clear"
    /\ pointer' = Null
    /\ Goto("second")
    /\ UNCHANGED <<pending, ledger, oid, archived, exch, faults>>

\* The position is read again: the cancel may have raced a fill.
NoSecondOrder ==
    /\ pc = "second"
    /\ ~plan.emergency \/ Distance(plan.order.target) = 0
    /\ Goto("settle")
    /\ UNCHANGED <<disk, exch, faults>>

\* Variant: the second order is the first one again, what it filled ignored.
SecondOrderStale ==
    /\ pc = "second" /\ plan.emergency
    /\ \E c \in Cloids : plan' = [plan EXCEPT !.cloid = c, !.order.tif = "Ioc"]
    /\ pc' = "begin"
    /\ UNCHANGED <<disk, recover, cur, todo, reply, exch, faults>>

SecondOrder ==
    /\ pc = "second" /\ plan.emergency /\ Distance(plan.order.target) > 0
    /\ \E c \in Cloids : plan' = Order(c, plan.order.target, "Ioc", TRUE)
    /\ pc' = "begin"
    /\ UNCHANGED <<disk, recover, cur, todo, reply, exch, faults>>

\* orders::tradeable: an opening rest below the exchange minimum is deferred.
DustDeferred ==
    /\ pc = "second" /\ plan.emergency /\ plan.order.target > short
    /\ pc' = "idle" /\ plan' = Null
    /\ UNCHANGED <<disk, recover, cur, todo, reply, exch, faults>>

VerifyIoc ==
    /\ pc = "verify_ioc"
    /\ IF Distance(plan.order.target) = 0 THEN Goto("settle") ELSE Reset
    /\ UNCHANGED <<disk, exch, faults>>

Settle ==
    /\ pc = "settle"
    /\ pointer' = Null
    /\ pc' = "idle" /\ plan' = Null
    /\ UNCHANGED <<pending, ledger, oid, archived, recover, cur, todo, reply,
                   exch, faults>>

\* Every cycle and every action of the engine is bracketed by sync_orders; a
\* returned IOC rejection ends the process unless the workflow is an exit.
NextSync ==
    /\ pc = "idle"
    /\ \E r \in BOOLEAN : recover' = r
    /\ pc' = "sync"
    /\ UNCHANGED <<disk, cur, todo, plan, reply, exch, faults>>
--------------------------------------------------------------------------------
\* The exchange.  A reply reaches the process only while it waits for it.
Awaited(r) == pc = "await" /\ reply = Null /\ pending.kind = r.kind
              /\ pending.cloid = r.cloid
Answer(r, text) ==
    /\ wire' = wire \ {r}
    /\ reply' = IF Awaited(r) THEN text ELSE reply
    /\ UNCHANGED <<disk, pc, recover, cur, todo, plan>>

OrderRests(c) ==
    /\ Req("order", c) \in wire /\ xstat[c] = "none" /\ intent[c].tif = "Alo"
    /\ xstat' = [xstat EXCEPT ![c] = "open"]
    /\ left' = [left EXCEPT ![c] = intent[c].size]
    /\ Answer(Req("order", c), "resting")
    /\ UNCHANGED <<intent, posted, index, listed, short, faults>>

OrderTakes(c) ==
    /\ Req("order", c) \in wire /\ xstat[c] = "none" /\ intent[c].tif = "Ioc"
    /\ \E k \in 1..intent[c].size :
          /\ intent[c].buy => k <= short
          /\ short' = IF intent[c].buy THEN short - k ELSE short + k
    /\ xstat' = [xstat EXCEPT ![c] = "filled"]
    /\ Answer(Req("order", c), "filled")
    /\ UNCHANGED <<left, intent, posted, index, listed, faults>>

OrderRejected(c) ==
    /\ Req("order", c) \in wire /\ xstat[c] = "none"
    /\ xstat' = [xstat EXCEPT ![c] = "rejected"]
    /\ Answer(Req("order", c), "error")
    /\ UNCHANGED <<left, intent, posted, index, listed, short, faults>>

Trade(c) ==
    /\ xstat[c] = "open"
    /\ \E k \in 1..left[c] :
          /\ intent[c].buy => k <= short
          /\ short' = IF intent[c].buy THEN short - k ELSE short + k
          /\ left' = [left EXCEPT ![c] = @ - k]
          /\ xstat' = [xstat EXCEPT ![c] = IF k = left[c] THEN "filled" ELSE "open"]
    /\ UNCHANGED <<disk, proc, intent, posted, wire, index, listed, faults>>

\* marginCanceled, reduceOnlyCanceled and the like.
ExchangeCancels(c) ==
    /\ xstat[c] = "open"
    /\ xstat' = [xstat EXCEPT ![c] = "canceled"]
    /\ UNCHANGED <<disk, proc, left, intent, posted, wire, index, listed, short,
                   faults>>

CancelArrives(c) ==
    /\ Req("cancel", c) \in wire
    /\ xstat' = [xstat EXCEPT ![c] = IF @ = "open" THEN "canceled" ELSE @]
    /\ Answer(Req("cancel", c), IF xstat[c] = "open" THEN "ok" ELSE "error")
    /\ UNCHANGED <<left, intent, posted, index, listed, short, faults>>

CancelRefused(c) ==
    /\ Req("cancel", c) \in wire /\ faults < MaxFaults
    /\ Answer(Req("cancel", c), "error")
    /\ faults' = faults + 1
    /\ UNCHANGED <<xstat, left, intent, posted, index, listed, short>>

Lose(r) ==
    /\ r \in wire /\ faults < MaxFaults
    /\ wire' = wire \ {r} /\ faults' = faults + 1
    /\ UNCHANGED <<disk, proc, xstat, left, intent, posted, index, listed, short>>

\* The two read indexes lag apart from each other: each shows some past state
\* of the order, and later ones as time goes on.
IndexAdvances(c) ==
    /\ index[c] # xstat[c]
    /\ \E s \in {"open", xstat[c]} :
          /\ s = "open" => index[c] = "none" /\ intent[c].tif = "Alo"
                          /\ xstat[c] # "rejected"
          /\ index' = [index EXCEPT ![c] = s]
    /\ UNCHANGED <<disk, proc, xstat, left, intent, posted, wire, listed, short, faults>>

ListAdvances(c) ==
    /\ \/ /\ listed[c] = "before" /\ xstat[c] \notin {"none", "rejected"}
          /\ intent[c].tif = "Alo"
          /\ listed' = [listed EXCEPT ![c] = "open"]
       \/ /\ listed[c] # "after" /\ xstat[c] \in Final
          /\ listed' = [listed EXCEPT ![c] = "after"]
    /\ UNCHANGED <<disk, proc, xstat, left, intent, posted, wire, index, short, faults>>
--------------------------------------------------------------------------------
Process ==
    \/ Start
    \/ ReconcileNothing \/ ReconcileOrder \/ ReconcileCancel \/ MarkUnsent
    \/ ClearUnsentPointer \/ ResolvePending \/ PendingCancelGone
    \/ FinishPending \/ ReconcileFails
    \/ SyncOrders \/ (\E c \in Cloids : Refresh(c)) \/ RefreshDone \/ ListOpen
    \/ (\E c \in Cloids : Sweep(c)) \/ SweepDone \/ SyncFails \/ Compact
    \/ CheckOpen \/ BeginCancel \/ ConfirmCancel \/ CancelFails
    \/ BeginOrder \/ IdReused \/ WritePointer \/ JournalOrder \/ Submit \/ Post
    \/ Acknowledge \/ PostTimeout \/ Finish
    \/ HedgePlan \/ ClearPointer \/ NoSecondOrder \/ SecondOrder \/ DustDeferred
    \/ VerifyIoc \/ Settle \/ NextSync

Arrival(c) == OrderRests(c) \/ OrderTakes(c) \/ OrderRejected(c) \/ CancelArrives(c)

Exchange ==
    \E c \in Cloids :
        \/ Arrival(c) \/ Trade(c) \/ ExchangeCancels(c) \/ CancelRefused(c)
        \/ Lose(Req("order", c)) \/ Lose(Req("cancel", c))
        \/ IndexAdvances(c) \/ ListAdvances(c)

Next == Crash \/ ArchiveInterrupted \/ Process \/ Exchange

Spec == Init /\ [][Next]_vars

\* The runtime keeps restarting and stepping the process, requests arrive unless
\* lost, and the query indexes catch up; nothing obliges an order to trade.
Fairness ==
    /\ WF_vars(Process)
    /\ WF_vars(\E c \in Cloids : Arrival(c))
    /\ WF_vars(\E c \in Cloids : IndexAdvances(c) \/ ListAdvances(c))

FairSpec == Spec /\ Fairness
--------------------------------------------------------------------------------
\* The order can still trade, now or when its request arrives.
Live(c) == Req("order", c) \in wire \/ xstat[c] = "open"
Remaining(c) == IF xstat[c] = "open" THEN left[c] ELSE intent[c].size

\* Never two strategy orders at work: the IOC of the emergency stage, the next
\* cycle's order and the order of a restarted process are placed only after the
\* fate of the one before is known (hedge, reconcile, sync_orders).
AtMostOneLiveOrder ==
    \A c, d \in Cloids : Live(c) /\ Live(d) => c = d

\* A terminal ledger entry, archived or not, is the truth: the order cannot trade
\* any more, "not_submitted" was never sent, and every other verdict is the
\* exchange's own (acknowledged, observe, not_submitted).
VerdictIsTrue ==
    \A c \in Cloids :
        /\ ledger[c] \in Terminal \/ c \in archived => ~Live(c)
        /\ ledger[c] = "not_submitted" => c \notin posted
        /\ ledger[c] \in Final => xstat[c] = ledger[c]

\* Whatever fills arrive, in whatever order and after whatever crash, a live
\* order moves the short towards the target it was computed for and never past
\* it: no double hedge.
NeverPastTarget ==
    \A c \in Cloids : Live(c) =>
        IF intent[c].buy THEN short >= intent[c].target + Remaining(c)
                         ELSE short + Remaining(c) <= intent[c].target

\* The block meant for manual orders ("untracked exchange order") never hits an
\* order of this program that is still in the ledger.
OwnOrdersRecognised ==
    pc = "list" => \A c \in Rows \ archived : oid[c] /\ ledger[c] # "absent"

\* While the strategy thinks, nothing of its is on the book or under way, and
\* no mutation is unresolved.
NothingOutstandingWhenIdle ==
    pc \in {"idle", "second"} => pending = Null /\ \A c \in Cloids : ~Live(c)

\* No order request is sent twice under one client ID, across crashes, retries
\* and reconciliation ("no order replay").
NeverResubmitted ==
    [][\A c \in Cloids :
          Req("order", c) \in wire' \ wire => c \notin posted]_vars

\* pending.json is released only when the fate of its request is on disk: an
\* order with an exchange ID or a terminal verdict.
PendingReleasedWhenKnown ==
    [][pending # Null /\ pending' = Null /\ pending.kind = "order" =>
          oid[pending.cloid] \/ ledger[pending.cloid] \in Terminal]_vars

\* What the process cannot decide from reads: an order that never reached the
\* exchange, a cancel that did not happen.
Undecidable ==
    /\ pending # Null /\ pending.dispatch = "submitting"
    /\ xstat[pending.cloid] = IF pending.kind = "order" THEN "none" ELSE "open"

\* Every restart ends in the strategy loop again, unless the pending request is
\* one the reads cannot decide.
RecoversOrBlocks == pc = "down" ~> (pc = "idle" \/ Undecidable)

\* docs/recovery.md:36, step 5 of the start-up: leftover hedge orders that are
\* provably the strategy's are cancelled.
LeftoverOrderCancelled ==
    \A c \in Cloids : (pc = "down" /\ xstat[c] = "open") ~> xstat[c] # "open"

\* What an observer of the exchange sees of client ID c.
Fate(c) ==
    IF xstat[c] = "open" THEN "live"
    ELSE IF xstat[c] # "none" \/ ledger[c] = "not_submitted" \/ c \in archived
         THEN "settled"
    ELSE IF pending # Null /\ pending.kind = "order" /\ pending.cloid = c
         THEN "issued"
    ELSE "unused"

Promise == INSTANCE SingleOrder WITH fate <- [c \in Cloids |-> Fate(c)]

\* The executor with its files, crashes, lost and late answers shows the exchange
\* nothing but one settled order after the other.
ImplementsSingleOrder == Promise!Spec
================================================================================
