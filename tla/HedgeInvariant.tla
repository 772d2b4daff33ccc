--------------------------- MODULE HedgeInvariant ---------------------------
(***************************************************************************)
(* The inductive invariant behind the safety properties of HedgeOrders.    *)
(* At every moment at most one client ID is "suspect": the state directory *)
(* cannot yet rule out that its order trades.  Every order that can trade  *)
(* is suspect, and a new order is prepared only when nothing is.           *)
(***************************************************************************)
EXTENDS HedgeOrders

\* pending.json holds the order request of c.
Ordering(c) == pending # Null /\ pending.kind = "order" /\ pending.cloid = c

\* An earlier release's order that sync_orders has not imported yet.
Unimported(c) ==
    /\ pointer = c /\ c \in posted /\ ledger[c] = "absent" /\ pending = Null
    /\ pc \in {"down", "reconcile", "sync"}

Suspect(c) ==
    \/ ledger[c] \in Unresolved
    \/ Ordering(c) /\ ledger[c] = "absent"
    \/ Unimported(c)

OneSuspect == \A c, d \in Cloids : Suspect(c) /\ Suspect(d) => c = d

\* What can trade is suspect.
LiveInv == \A c \in Cloids : Live(c) => Suspect(c)

\* The exchange knows only what was posted; the read indexes show the past of an
\* order and nothing else.
IndexInv ==
    \A c \in Cloids :
        /\ Req("order", c) \in wire => xstat[c] = "none" /\ c \in posted
        /\ xstat[c] # "none" => c \in posted
        /\ xstat[c] = "none" => index[c] = "none" /\ listed[c] = "before"
        /\ index[c] \in Final => index[c] = xstat[c]
        /\ listed[c] = "open" => xstat[c] # "rejected"

\* The files: a verdict is true, an archived order is over, and what was posted
\* or is pointed at is never forgotten.
LedgerInv ==
    \A c \in Cloids :
        /\ ledger[c] \in Final => xstat[c] = ledger[c]
        /\ ledger[c] \in {"open", "filled", "canceled"} => oid[c]
        /\ ledger[c] = "not_submitted" => c \notin posted
        /\ c \in archived => ledger[c] \in Terminal \cup {"absent"}
        /\ c \in posted => c \in archived \/ ledger[c] # "absent" \/ Unimported(c)
        /\ pointer = c => /\ c \notin archived
                          /\ ledger[c] # "absent" \/ Ordering(c) \/ Unimported(c)

\* pending.json: prepared proves "never posted", submitting comes after the
\* ledger entry.
PendingInv ==
    pending # Null /\ pending.kind = "order" =>
        LET c == pending.cloid IN
        /\ c \notin archived
        /\ pending.dispatch = "prepared" =>
              c \notin posted /\ ledger[c] \in {"absent", "prepared", "not_submitted"}
        /\ pending.dispatch = "submitting" =>
              ledger[c] \in Final \cup {"prepared", "open"}
        /\ ledger[c] = "absent" => xstat[c] = "none"

\* Steps at which nothing is suspect.
Quiet == {"compact", "idle", "begin", "clear", "second", "verify_ioc", "settle"}
Recovering == {"down", "reconcile", "unsent", "unsent_pointer", "resolve_pending",
               "pending_cancel", "finish_pending"}
Syncing == {"sync", "refresh", "list", "sweep"}
Cancelling == {"check", "cancel", "confirm"}
Sending == {"pointer", "journal", "submit", "post", "await", "finish"}

\* The process: what each step knows of the files.
StepInv ==
    /\ pc \in Quiet \cup Syncing \cup Cancelling => pending = Null
    /\ pc \in Sending => pending # Null
    /\ pc \in Quiet => \A c \in Cloids : ~Suspect(c)
    /\ pc = "refresh" =>
          \A c \in Cloids : ledger[c] \in {"prepared", "legacy"} => c \in todo
    /\ pc = "list" => \A c \in Cloids : ledger[c] \notin {"prepared", "legacy"}
    /\ pc = "sweep" => \A c \in Cloids : Suspect(c) => c \in todo
    /\ pc \in Cancelling =>
          cur # Null /\ \A c \in Cloids : Suspect(c) => c \in todo \cup {cur}

\* What the process remembers.
MemoryInv ==
    /\ pc \in Quiet \/ plan # Null => todo = {}
    /\ \A c \in todo : ledger[c] # "absent"
    /\ reply # Null => pc \in {"await", "finish"}
    /\ cur # Null => pc \in Cancelling \cup Sending /\ ledger[cur] # "absent"
    /\ pc \in {"begin", "clear", "second", "verify_ioc", "settle"} => plan # Null
    /\ pc \in Recovering \cup Syncing \cup {"compact", "idle"} => plan = Null

SendInv ==
    pc \in Sending /\ pending # Null =>
        LET c == pending.cloid IN
        /\ pc \in {"post", "await", "finish"} => pending.dispatch = "submitting"
        /\ pending.kind = "cancel" =>
              /\ cur = c /\ pc \notin {"pointer", "journal"}
              /\ \A d \in Cloids : Suspect(d) => d \in todo \cup {cur}
        /\ pending.kind = "order" =>
              /\ plan # Null /\ plan.cloid = c /\ plan.order = intent[c]
              /\ cur = Null /\ \A d \in Cloids : Suspect(d) => d = c
              /\ pc \in {"pointer", "journal"} => ledger[c] = "absent"
              /\ pc \in {"submit", "post"} => ledger[c] = "prepared" /\ c \notin posted
              /\ pc = "await" => ledger[c] = "prepared" /\ reply # "ok"
              /\ pc = "await" /\ reply = "resting" =>
                    xstat[c] # "none" /\ intent[c].tif = "Alo"
              /\ pc = "await" /\ reply = "filled" => xstat[c] = "filled"
              /\ pc = "await" /\ reply = "error" => xstat[c] = "rejected"
              /\ pc = "finish" =>
                    /\ ledger[c] \in {"open", "filled", "rejected"}
                    /\ (ledger[c] = "rejected") = (reply = "error")
                    /\ ledger[c] = "open" => intent[c].tif = "Alo"

ReconcileInv ==
    /\ pc \in {"unsent", "unsent_pointer"} =>
          pending # Null /\ pending.dispatch = "prepared"
    /\ pc = "unsent" /\ pending # Null /\ pending.kind = "order" =>
          ledger[pending.cloid] # "absent"
    /\ pc = "resolve_pending" =>
          /\ pending # Null /\ pending.kind = "order"
          /\ pending.dispatch = "submitting"
    /\ pc = "pending_cancel" => pending # Null /\ pending.kind = "cancel"
    /\ pc = "finish_pending" => pending # Null
    /\ pc \in {"unsent_pointer", "finish_pending"} /\ pending # Null
          /\ pending.kind = "order" =>
          ledger[pending.cloid] \in Terminal \cup {"open"}

\* Sizes: a suspect order that can still trade leads exactly to its target.
Sized(order, size) == IF order.buy THEN short = order.target + size
                                   ELSE short + size = order.target
SizeInv ==
    /\ pc = "begin" => plan # Null /\ Sized(plan.order, plan.order.size)
    /\ \A c \in Cloids : Suspect(c) /\ xstat[c] \in {"none", "open"} =>
          Sized(intent[c], Remaining(c))

\* What an observer of the exchange can tell: an order request under way is the
\* pending one, an order the ledger calls open has arrived, and targets are bounded.
ShownInv ==
    /\ \A c \in Cloids : Req("order", c) \in wire => Ordering(c)
    /\ \A c \in Cloids : ledger[c] = "open" => xstat[c] # "none"
    /\ plan # Null => plan.order.target \in 0..MaxShort

IInv == /\ TypeOK /\ OneSuspect /\ LiveInv /\ IndexInv /\ LedgerInv /\ PendingInv
        /\ StepInv /\ MemoryInv /\ SendInv /\ ReconcileInv /\ SizeInv
        /\ ShownInv
=============================================================================
