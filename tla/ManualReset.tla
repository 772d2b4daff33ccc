---------------------------- MODULE ManualReset ----------------------------
(***************************************************************************)
(* The operator's commands that leave the market: reset-flat               *)
(* (engine/reset.rs) exits every position, verifies it, archives the state *)
(* directory and clears it; switch-robinhood-* (engine/migration.rs) does  *)
(* the same under the old parameters and then installs new ones.  The      *)
(* strategy itself is only what these commands meet: somebody who trades.  *)
(*                                                                         *)
(* The three programs exclude each other by process.lock.  A kill or an    *)
(* error may end any of them between two steps; what is left is the state  *)
(* directory, the configuration file and the account.                      *)
(***************************************************************************)
EXTENDS Naturals

CONSTANTS
    Nfts,        \* LP positions the wallet may hold in the configured pool
    Oids,        \* orders of the hedge coin
    Strategies,  \* strategy parameters a configuration may hold
    Profiles,    \* the ones a switch command installs
    MaxShort,    \* bound: the size of the hedge position
    Null

ASSUME ProfilesAssumption == Profiles \subseteq Strategies
ASSUME ShortAssumption == MaxShort \in Nat \ {0}
ASSUME NullAssumption == Null \notin Strategies \cup Nfts \cup Oids

VARIABLES
    dir,        \* the state directory: the contents of its files, by name
    archived,   \* history variable: files whose content is in a full backup
    file,       \* the strategy in the configuration file
    edited,     \* it changed since the switch command has read it
    pending,    \* pending.json
    lp, base,   \* the wallet: positions, and "none", "tiny" or "some" base
    short,      \* the hedge position
    exch,       \* the true state of each order
    listed,     \* the orders openOrders shows
    index,      \* what orderStatus shows of each order
    pc, cmd,    \* the running program and its next step
    cfg,        \* the parameters it works with
    profile,    \* the target of a switch
    stage,      \* the exit step in hand
    todo,       \* what the exit step still has to treat
    aim,        \* the order being cancelled
    round,      \* IOC rounds, or observations, so far
    saw,        \* the hedge size of the running observation
    owner,      \* history variable: the parameters of the last trade
    switching   \* history variable: a switch has begun and not installed

records == <<dir, archived>>
toml == <<file, edited>>
orders == <<exch, listed, index>>
account == <<lp, base, short, orders>>
command == <<cmd, cfg, profile>>
work == <<stage, todo, aim, round, saw>>
program == <<pc, command, work>>
ghosts == <<owner, switching>>
vars == <<records, toml, pending, account, program, ghosts>>

Names == {"config", "checkpoint", "nfts", "orders", "exitOrders", "proof",
          "reset", "migration"}

Markers == {"reset", "migration"}

ExitSteps == {"Reconcile", "CancelOrders", "RemoveLp", "SellBase", "CloseHedge"}

\* flatten performs the steps in this order.
Following == [Reconcile    |-> "CancelOrders",
              CancelOrders |-> "RemoveLp",
              RemoveLp     |-> "SellBase",
              SellBase     |-> "CloseHedge",
              CloseHedge   |-> "verify"]

Working == ExitSteps \cup
    {"exit", "mark", "cancel", "prepared", "submitting", "answered", "confirm",
     "remove", "removing", "selling", "closing", "observe", "observed",
     "verified", "archive", "clear", "install", "rename", "unblock"}

Contents(name) == IF name \in DOMAIN dir THEN dir[name] ELSE Null

Unresolved == IF "orders" \in DOMAIN dir THEN dir["orders"] ELSE {}

\* One file is replaced; the backup of its old content does not cover it.
Write(name, content) ==
    /\ dir' = [n \in DOMAIN dir \cup {name} |->
                 IF n = name THEN content ELSE dir[n]]
    /\ archived' = archived \ {name}

Without(names) == [n \in DOMAIN dir \ names |-> dir[n]]

Untouched == UNCHANGED records

Op(kind, id) == [kind |-> kind, id |-> id, sent |-> FALSE]

Ops == [kind : {"mint", "order", "remove", "swap", "close", "cancel"},
        id : Nfts \cup Oids \cup {Null}, sent : BOOLEAN]

ResetStages == ExitSteps \cup {"started", "verified_flat"}

\* Null stands for the absent operation or file.
ASSUME RecordsAssumption ==
    Null \notin Ops /\ Null \notin [binding : Strategies, stage : ResetStages]

-----------------------------------------------------------------------------
(* The exchange (external): orders trade or not, and its views follow.     *)

Fill(o) ==
    /\ exch[o] = "resting"
    /\ exch' = [exch EXCEPT ![o] = "over"]
    /\ short' \in 0..MaxShort
    /\ UNCHANGED <<records, toml, pending, lp, base, listed, index, program,
                   ghosts>>

\* The list may lag; a resting order never leaves it.
Relist(o) ==
    /\ listed' = IF exch[o] = "resting" THEN listed \cup {o} ELSE listed \ {o}
    /\ listed' # listed
    /\ UNCHANGED <<records, toml, pending, lp, base, short, exch, index,
                   program, ghosts>>

Reindex(o) ==
    /\ exch[o] # "none"
    /\ index' = [index EXCEPT ![o] = IF exch[o] = "resting" THEN "open" ELSE "over"]
    /\ index' # index
    /\ UNCHANGED <<records, toml, pending, lp, base, short, exch, listed,
                   program, ghosts>>

\* The owner of the account trades by hand, but not while the exit verifies.
Verifying ==
    \/ pc \in {"observe", "observed", "verified", "archive", "clear"}
    \/ Contents("reset") # Null /\ Contents("reset").stage = "verified_flat"

UserOrder(o) ==
    /\ ~Verifying
    /\ exch[o] = "none"
    /\ pending # Null => pending.id # o
    /\ exch' = [exch EXCEPT ![o] = "resting"]
    /\ listed' = listed \cup {o}
    /\ index' = [index EXCEPT ![o] = "open"]
    /\ UNCHANGED <<records, toml, pending, lp, base, short, program, ghosts>>

-----------------------------------------------------------------------------
(* The configuration file, and the strategy as these commands meet it.     *)

Edit ==
    /\ file' \in Strategies
    /\ edited' = (cmd = "switch")
    /\ UNCHANGED <<records, pending, account, program, ghosts>>

\* run_strategy refuses records written under other parameters.
ConfigMatches == Contents("config") \in {Null, file}

\* Neither a reset nor a switch may be unfinished.
Run ==
    /\ pc = "idle"
    /\ Markers \cap DOMAIN dir = {}
    /\ ConfigMatches
    /\ Write("config", file)
    /\ pc' = "strategy" /\ cfg' = file
    /\ UNCHANGED <<toml, pending, account, cmd, profile, work, ghosts>>

\* Whatever it does, it ends with its records written, or with an operation
\* under way; at most one order of its own is unresolved.
Trade ==
    /\ pc = "strategy" /\ pending = Null /\ Unresolved = {}
    /\ lp' \in SUBSET Nfts /\ base' \in {"none", "tiny", "some"}
    /\ short' \in 0..MaxShort
    /\ \E own \in {o \in Oids : exch[o] = "none"} \cup {Null} :
         /\ exch' = IF own = Null THEN exch ELSE [exch EXCEPT ![own] = "resting"]
         /\ dir' = [n \in DOMAIN dir \cup {"checkpoint", "nfts", "orders"} |->
                      CASE n = "checkpoint" -> "state"
                        [] n = "nfts" -> lp'
                        [] n = "orders" -> {own} \ {Null}
                        [] OTHER -> dir[n]]
    /\ archived' = archived \ {"checkpoint", "nfts", "orders"}
    /\ pending' \in {Null} \cup {Op("mint", n) : n \in Nfts \ lp'}
                    \cup {Op("order", o) : o \in {x \in Oids : exch[x] = "none"
                                                      /\ exch' = exch}}
    /\ owner' = cfg
    /\ UNCHANGED <<toml, listed, index, program, switching>>

\* exchange_inner posts the order; it may arrive or be lost.
PostOrder ==
    /\ pc = "strategy" /\ pending # Null
    /\ pending.kind = "order" /\ ~pending.sent
    /\ pending' = [pending EXCEPT !.sent = TRUE]
    /\ \E arrives \in BOOLEAN :
         exch' = IF arrives THEN [exch EXCEPT ![pending.id] = "resting"] ELSE exch
    /\ UNCHANGED <<records, toml, lp, base, short, listed, index, program,
                   ghosts>>

\* The process ends and releases the lock.
Leave ==
    /\ pc' = "idle" /\ cmd' = "none" /\ cfg' = Null /\ profile' = Null
    /\ stage' = "none" /\ todo' = {} /\ aim' = Null
    /\ round' = 0 /\ saw' = 0 /\ edited' = FALSE

\* A kill, a shutdown, or an error, at any step.
Stop ==
    /\ pc # "idle"
    /\ Leave
    /\ UNCHANGED <<records, file, pending, account, ghosts>>

-----------------------------------------------------------------------------
(* Reconciliation of pending.json, as the executors specify it.            *)

\* An order on the wire needs an answer; one that never left needs none.
OrderDecided == pending.sent => index[pending.id] # "unknown"

\* A cancel on the wire is only released over an empty book.
CancelDecided == pending.sent => listed = {}

MoreBase(b) == IF b = "some" THEN {"some"} ELSE {b, "tiny", "some"}

Landed(kind) ==
    /\ pending.kind = kind
    /\ \/ kind = "mint" /\ lp' = lp \cup {pending.id}
          /\ Write("nfts", Contents("nfts") \cup {pending.id})
          /\ UNCHANGED <<base, short>>
       \/ kind = "remove" /\ lp' = lp \ {pending.id} /\ base' \in MoreBase(base)
          /\ Write("nfts", Contents("nfts") \ {pending.id})
          /\ UNCHANGED short
       \/ kind = "swap" /\ base' = "none" /\ Untouched
          /\ UNCHANGED <<lp, short>>
       \/ kind = "close" /\ short' \in 0..short /\ Untouched
          /\ UNCHANGED <<lp, base>>

Settle ==
    \/ pending = Null /\ Untouched /\ UNCHANGED <<lp, base, short>>
    \/ /\ pending # Null
       /\ \/ \E kind \in {"mint", "remove", "swap", "close"} : Landed(kind)
          \/ pending.kind \in {"mint", "remove", "swap"} /\ Untouched
             /\ UNCHANGED <<lp, base, short>>
          \/ pending.kind = "cancel" /\ CancelDecided /\ Untouched
             /\ UNCHANGED <<lp, base, short>>
          \/ pending.kind = "order" /\ OrderDecided
             /\ Write("orders", {pending.id} \cap {o \in Oids : index[o] = "open"})
             /\ UNCHANGED <<lp, base, short>>

\* The start-up of run_strategy.
StrategyReconciles ==
    /\ pc = "strategy" /\ pending # Null
    /\ Settle /\ pending' = Null
    /\ UNCHANGED <<toml, orders, program, ghosts>>

\* sync_orders: its own order is cancelled and its end recorded.
StrategySyncs ==
    /\ pc = "strategy" /\ pending = Null /\ Unresolved # {}
    /\ exch' = [o \in Oids |-> IF o \in Unresolved THEN "over" ELSE exch[o]]
    /\ Write("orders", {})
    /\ UNCHANGED <<toml, pending, lp, base, short, listed, index, program,
                   ghosts>>

-----------------------------------------------------------------------------
(* reset-flat: request and the steps of flatten.                           *)

\* Variant: a run without a marker takes the parameters it is given.
AcceptsMarkerOnly(b) ==
    "reset" \in DOMAIN dir => dir["reset"].binding = b

\* The parameters must be those of the records and of an earlier attempt.
Accepts(b) ==
    /\ Contents("config") \in {Null, b}
    /\ "reset" \in DOMAIN dir => dir["reset"].binding = b

Begin(b) ==
    /\ Accepts(b)
    /\ IF "reset" \in DOMAIN dir THEN Untouched
       ELSE Write("reset", [binding |-> b, stage |-> "started"])
    /\ pc' = "mark" /\ stage' = "Reconcile" /\ cfg' = b

ResetFlat ==
    /\ pc = "idle"
    /\ Begin(file)
    /\ cmd' = "reset"
    /\ UNCHANGED <<toml, pending, account, profile, todo, aim, round, saw,
                   ghosts>>

\* Each step is recorded before it is performed.
Mark ==
    /\ pc = "mark"
    /\ Write("reset", [dir["reset"] EXCEPT !.stage = stage])
    /\ pc' = stage /\ todo' = {} /\ round' = 0
    /\ UNCHANGED <<toml, pending, account, command, stage, aim, saw, ghosts>>

Advance(step) ==
    /\ stage' = Following[step]
    /\ pc' = IF step = "CloseHedge" THEN "observe" ELSE "mark"
    /\ round' = 0
    /\ UNCHANGED <<command, todo, aim, saw>>

Reconcile ==
    /\ pc = "Reconcile"
    /\ Settle /\ pending' = Null
    /\ Advance("Reconcile")
    /\ UNCHANGED <<toml, orders, ghosts>>

\* The orders of this attempt and of earlier ones, on disk before any cancel.
CollectOrders ==
    /\ pc = "CancelOrders"
    /\ todo' = listed \cup IF "exitOrders" \in DOMAIN dir THEN dir["exitOrders"] ELSE {}
    /\ Write("exitOrders", todo')
    /\ pc' = "cancel"
    /\ UNCHANGED <<toml, pending, account, command, stage, aim, round, saw,
                   ghosts>>

\* order_terminal: the exchange says that the order is over.
OrderOver(o) ==
    /\ o \in todo /\ index[o] = "over"
    /\ \/ pc = "cancel"
       \/ pc = "confirm" /\ aim = o
    /\ todo' = todo \ {o}
    /\ pc' = "cancel" /\ aim' = Null
    /\ UNCHANGED <<records, toml, pending, account, command, stage, round,
                   saw, ghosts>>

BeginCancel(o) ==
    /\ pc = "cancel" /\ pending = Null
    /\ o \in todo /\ index[o] = "open"
    /\ pending' = Op("cancel", o)
    /\ pc' = "prepared" /\ aim' = o
    /\ UNCHANGED <<records, toml, account, command, stage, todo, round, saw,
                   ghosts>>

SubmitCancel ==
    /\ pc = "prepared"
    /\ pending' = [pending EXCEPT !.sent = TRUE]
    /\ pc' = "submitting"
    /\ UNCHANGED <<records, toml, account, command, work, ghosts>>

CancelLands ==
    /\ pc = "submitting"
    /\ exch' = [exch EXCEPT ![aim] = "over"]
    /\ pc' = "answered"
    /\ UNCHANGED <<records, toml, pending, lp, base, short, listed, index,
                   command, work, ghosts>>

FinishCancel ==
    /\ pc = "answered"
    /\ pending' = Null
    /\ pc' = "confirm"
    /\ UNCHANGED <<records, toml, account, command, work, ghosts>>

\* journal::refresh: every order of the ledger has an answer, and it is over.
LedgerOver == \A o \in Unresolved : index[o] = "over"

BookEmpty ==
    /\ pc = "cancel" /\ todo = {} /\ listed = {}
    /\ LedgerOver
    /\ IF "orders" \in DOMAIN dir THEN Write("orders", {}) ELSE Untouched
    /\ Advance("CancelOrders")
    /\ UNCHANGED <<toml, pending, account, ghosts>>

\* remove_lp: the registry is rebuilt from the wallet.
RebuildRegistry ==
    /\ pc = "RemoveLp"
    /\ todo' = lp
    /\ Write("nfts", lp)
    /\ pc' = "remove"
    /\ UNCHANGED <<toml, pending, account, command, stage, aim, round, saw,
                   ghosts>>

BeginRemove(n) ==
    /\ pc = "remove" /\ n \in todo
    /\ pending' = Op("remove", n)
    /\ pc' = "removing"
    /\ UNCHANGED <<records, toml, account, command, work, ghosts>>

ConfirmRemove ==
    /\ pc = "removing"
    /\ Landed("remove")
    /\ pending' = Null
    /\ todo' = todo \ {pending.id}
    /\ pc' = "remove"
    /\ UNCHANGED <<toml, orders, command, stage, aim, round, saw, ghosts>>

LpRemoved ==
    /\ pc = "remove" /\ todo = {} /\ lp = {}
    /\ Advance("RemoveLp")
    /\ UNCHANGED <<records, toml, pending, account, ghosts>>

\* BaseDust: a tiny amount may be kept, if the price of the moment agrees.
DustAtMost == base # "some"

\* sell_all_base sells everything but dust.
BaseSold ==
    /\ pc = "SellBase" /\ DustAtMost
    /\ Advance("SellBase")
    /\ UNCHANGED <<records, toml, pending, account, ghosts>>

BeginSwap ==
    /\ pc = "SellBase" /\ base # "none"
    /\ pending' = Op("swap", Null)
    /\ pc' = "selling"
    /\ UNCHANGED <<records, toml, account, command, work, ghosts>>

ConfirmSwap ==
    /\ pc = "selling"
    /\ Landed("swap")
    /\ pending' = Null
    /\ Advance("SellBase")
    /\ UNCHANGED <<toml, orders, ghosts>>

\* close_hedge: three IOC orders at most, each sized by a fresh read.
IocRounds == 3

BeginClose ==
    /\ pc = "CloseHedge" /\ short > 0 /\ round < IocRounds
    /\ listed = {}
    /\ pending' = Op("close", Null)
    /\ pc' = "closing" /\ round' = round + 1
    /\ UNCHANGED <<records, toml, account, command, stage, todo, aim, saw,
                   ghosts>>

ConfirmClose ==
    /\ pc = "closing"
    /\ Landed("close")
    /\ pending' = Null
    /\ pc' = "CloseHedge"
    /\ UNCHANGED <<toml, orders, command, work, ghosts>>

HedgeClosed ==
    /\ pc = "CloseHedge" /\ short = 0
    /\ Advance("CloseHedge")
    /\ UNCHANGED <<records, toml, pending, account, ghosts>>

-----------------------------------------------------------------------------
(* Verification, archive and clearing.                                     *)

Observations == 2

\* observe reads the wallet and the position first, the open orders later.
ObserveBalances ==
    /\ pc = "observe"
    /\ LedgerOver /\ lp = {} /\ DustAtMost
    /\ saw' = short
    /\ pc' = "observed"
    /\ UNCHANGED <<records, toml, pending, account, command, stage, todo, aim,
                   round, ghosts>>

\* Variant: one observation is enough.
ObserveOrdersOnce ==
    /\ pc = "observed"
    /\ saw = 0 /\ listed = {} /\ pending = Null /\ Unresolved = {}
    /\ Write("proof", "flat")
    /\ round' = round + 1
    /\ pc' = "verified"
    /\ UNCHANGED <<toml, pending, account, command, stage, todo, aim, saw,
                   ghosts>>

\* Proof::validate; the evidence is written either way, an error ends the run.
ObserveOrders ==
    /\ pc = "observed"
    /\ saw = 0 /\ listed = {} /\ pending = Null /\ Unresolved = {}
    /\ Write("proof", "flat")
    /\ round' = round + 1
    /\ pc' = IF round' = Observations THEN "verified" ELSE "observe"
    /\ UNCHANGED <<toml, pending, account, command, stage, todo, aim, saw,
                   ghosts>>

MarkVerified ==
    /\ pc = "verified"
    /\ Write("reset", [dir["reset"] EXCEPT !.stage = "verified_flat"])
    /\ pc' = "archive"
    /\ UNCHANGED <<toml, pending, account, command, work, ghosts>>

\* Variant: a backup of an earlier attempt is taken for this one.
ArchiveOnce ==
    /\ pc = "archive"
    /\ pending = Null /\ Unresolved = {} /\ dir["reset"].stage = "verified_flat"
    /\ archived' = IF archived = {} THEN DOMAIN dir ELSE archived
    /\ pc' = "clear"
    /\ UNCHANGED <<dir, toml, pending, account, command, work, ghosts>>

\* copy_tree has synced the whole backup.
Archive ==
    /\ pc = "archive"
    /\ pending = Null /\ Unresolved = {} /\ dir["reset"].stage = "verified_flat"
    /\ archived' = DOMAIN dir
    /\ pc' = "clear"
    /\ UNCHANGED <<dir, toml, pending, account, command, work, ghosts>>

\* Variant: the marker of a switch is cleared with the rest.
ClearableAll == DOMAIN dir \ {"reset"}

\* What the clearing removes before the reset marker.
Clearable == DOMAIN dir \ Markers

Remove(names) ==
    /\ dir' = Without(names)
    /\ archived' = archived \ names

\* read_dir gives the files in no particular order.
Delete(name) ==
    /\ pc = "clear" /\ name \in Clearable
    /\ Remove({name})
    /\ UNCHANGED <<toml, pending, account, program, ghosts>>

RemoveMarker ==
    /\ pc = "clear" /\ Clearable = {}
    /\ Remove({"reset"})
    /\ \/ cmd = "reset" /\ Leave
       \/ cmd = "switch" /\ pc' = "install"
          /\ UNCHANGED <<command, work, edited>>
    /\ UNCHANGED <<file, pending, account, ghosts>>

-----------------------------------------------------------------------------
(* switch-robinhood-*: plan, exit, install.                                *)

\* Variant: only config.json tells whose records these are.
OldBindingOnDisk == Contents("config")

\* Whose records these are: config.json, or the marker of a half-cleared
\* directory, or the marker of an earlier attempt.
OldBinding ==
    IF "config" \in DOMAIN dir THEN dir["config"]
    ELSE IF "reset" \in DOMAIN dir THEN dir["reset"].binding
    ELSE IF "migration" \in DOMAIN dir THEN dir["migration"].exit
    ELSE Null

PlanAccepts(p) ==
    /\ "migration" \in DOMAIN dir => dir["migration"].profile = p
    /\ IF OldBinding = Null THEN dir = <<>>
       ELSE /\ "migration" \in DOMAIN dir => dir["migration"].exit = OldBinding
            /\ "reset" \in DOMAIN dir => dir["reset"].binding = OldBinding

ExitBinding == IF OldBinding = Null THEN file ELSE OldBinding

Switch(p) ==
    /\ pc = "idle"
    /\ PlanAccepts(p)
    /\ Write("migration", [profile |-> p, exit |-> ExitBinding])
    /\ edited' = FALSE
    /\ pc' = "exit" /\ cmd' = "switch" /\ cfg' = ExitBinding /\ profile' = p
    /\ switching' = TRUE
    /\ UNCHANGED <<file, pending, account, work, owner>>

SwitchExits ==
    /\ pc = "exit"
    /\ Begin(cfg)
    /\ UNCHANGED <<toml, pending, account, cmd, profile, todo, aim, round,
                   saw, ghosts>>

\* The directory is empty, and the file is still the one that was read ...
CheckInstall ==
    /\ pc = "install"
    /\ DOMAIN dir = {"migration"}
    /\ dir["migration"] = [profile |-> profile, exit |-> cfg]
    /\ ~edited
    /\ pc' = "rename"
    /\ UNCHANGED <<records, toml, pending, account, command, work, ghosts>>

\* ... when it was checked: an edit since then is overwritten.
Install ==
    /\ pc = "rename"
    /\ file' = profile
    /\ pc' = "unblock"
    /\ switching' = FALSE
    /\ UNCHANGED <<records, edited, pending, account, command, work, owner>>

Unblock ==
    /\ pc = "unblock"
    /\ Remove({"migration"})
    /\ Leave
    /\ UNCHANGED <<file, pending, account, ghosts>>

-----------------------------------------------------------------------------
Init ==
    /\ dir = <<>> /\ archived = {} /\ pending = Null
    /\ file \in Strategies /\ edited = FALSE
    /\ lp = {} /\ base = "none" /\ short = 0
    /\ exch = [o \in Oids |-> "none"] /\ listed = {}
    /\ index = [o \in Oids |-> "unknown"]
    /\ pc = "idle" /\ cmd = "none" /\ cfg = Null /\ profile = Null
    /\ stage = "none" /\ todo = {} /\ aim = Null /\ round = 0 /\ saw = 0
    /\ owner = Null /\ switching = FALSE

Views == \E o \in Oids : Relist(o) \/ Reindex(o)

Environment ==
    \/ Views \/ Edit
    \/ \E o \in Oids : Fill(o) \/ UserOrder(o)

Strategy ==
    \/ Run \/ Trade \/ PostOrder
    \/ StrategyReconciles \/ StrategySyncs

CancelStep ==
    \/ CollectOrders \/ SubmitCancel \/ CancelLands \/ FinishCancel \/ BookEmpty
    \/ \E o \in Oids : OrderOver(o) \/ BeginCancel(o)

ExitStep ==
    \/ Mark \/ Reconcile \/ CancelStep
    \/ RebuildRegistry \/ ConfirmRemove \/ LpRemoved
    \/ \E n \in Nfts : BeginRemove(n)
    \/ BaseSold \/ BeginSwap \/ ConfirmSwap
    \/ BeginClose \/ ConfirmClose \/ HedgeClosed
    \/ ObserveBalances \/ ObserveOrders \/ MarkVerified
    \/ Archive \/ RemoveMarker
    \/ \E name \in Names : Delete(name)

SwitchStep == SwitchExits \/ CheckInstall \/ Install \/ Unblock

Next ==
    \/ Environment \/ Strategy \/ Stop
    \/ ResetFlat \/ ExitStep
    \/ SwitchStep
    \/ \E p \in Profiles : Switch(p)

Spec == Init /\ [][Next]_vars

-----------------------------------------------------------------------------
(* Properties. *)

\* Every file holds what its reader expects.
RecordsTypeOK ==
    /\ DOMAIN dir \subseteq Names /\ archived \subseteq DOMAIN dir
    /\ "config" \in DOMAIN dir => dir["config"] \in Strategies
    /\ "nfts" \in DOMAIN dir => dir["nfts"] \subseteq Nfts
    /\ "orders" \in DOMAIN dir => dir["orders"] \subseteq Oids
    /\ "exitOrders" \in DOMAIN dir => dir["exitOrders"] \subseteq Oids
    /\ "reset" \in DOMAIN dir =>
         dir["reset"] \in [binding : Strategies, stage : ResetStages]
    /\ "migration" \in DOMAIN dir =>
         dir["migration"] \in [profile : Profiles, exit : Strategies]

ProgramTypeOK ==
    /\ pending \in Ops \cup {Null}
    /\ file \in Strategies /\ edited \in BOOLEAN
    /\ lp \subseteq Nfts /\ base \in {"none", "tiny", "some"}
    /\ short \in 0..MaxShort
    /\ exch \in [Oids -> {"none", "resting", "over"}] /\ listed \subseteq Oids
    /\ index \in [Oids -> {"unknown", "open", "over"}]
    /\ pc \in Working \cup {"idle", "strategy"}
    /\ cmd \in {"none", "reset", "switch"}
    /\ cfg \in Strategies \cup {Null} /\ profile \in Profiles \cup {Null}
    /\ stage \in ExitSteps \cup {"none", "verify"}
    /\ todo \subseteq Nfts \cup Oids /\ aim \in Oids \cup {Null}
    /\ round \in 0..IocRounds /\ saw \in 0..MaxShort
    /\ owner \in Strategies \cup {Null} /\ switching \in BOOLEAN

\* The type invariant.
TypeOK == RecordsTypeOK /\ ProgramTypeOK

\* When the marker says verified_flat, the account is flat: no position, no
\* base but dust, no hedge, and no order that could still trade, although
\* orders may appear and trade during the whole exit and every view of them
\* is late (flatten, Proof::validate).
VerifiedMeansFlat ==
    Contents("reset") # Null /\ dir["reset"].stage = "verified_flat" =>
        /\ lp = {} /\ base # "some" /\ short = 0
        /\ \A o \in Oids : exch[o] # "resting"

\* A record leaves the directory only when its last content is in a complete
\* backup, however often the exit is interrupted and begun again
\* (archive_and_clear, copy_tree).
ClearedIsArchived ==
    [][\A n \in DOMAIN dir \ DOMAIN dir' : n \in archived]_dir

\* The strategy never runs over a directory that is waiting to be cleared or
\* half cleared: the marker goes last (archive_and_clear, run).
NoHalfClearedStart == pc = "strategy" => archived = {}

\* Once a switch is recorded, no strategy runs before the new parameters are
\* installed, whatever is interrupted and whichever command is run in between
\* (the marker survives the clearing; execute_plan, archive_and_clear, run).
NoStartWhileSwitching == pc = "strategy" => ~switching

\* The strategy starts only in a directory no unfinished command owns.
Consistent == TypeOK /\ NoHalfClearedStart /\ NoStartWhileSwitching

Exposed == lp # {} \/ base = "some"

\* The strategy manages only inventory bought with its own parameters: edits
\* of the file, switches and resets never hand it that of another
\* (run_strategy, execute_plan).
StrategyOwnsInventory == pc = "strategy" /\ Exposed => owner = cfg

\* An exit unwinds inventory with the parameters it was bought with, also
\* when it resumes in a directory whose config.json is already gone
\* (request, plan_for).
ExitUsesOwnParameters == pc \in Working /\ Exposed => owner = cfg

\* Nobody touches inventory with parameters it was not bought with.
OwnParameters == StrategyOwnsInventory /\ ExitUsesOwnParameters

\* No interruption leaves a directory that no command accepts: an unfinished
\* exit can be resumed with some configuration, and an unfinished switch by
\* the same command (request, plan_for).
AlwaysResumable ==
    pc = "idle" =>
        /\ "reset" \in DOMAIN dir => \E b \in Strategies : Accepts(b)
        /\ "migration" \in DOMAIN dir /\ "reset" \notin DOMAIN dir =>
             PlanAccepts(dir["migration"].profile)
=============================================================================
