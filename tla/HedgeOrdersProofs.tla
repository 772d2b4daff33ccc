--------------------------- MODULE HedgeOrdersProofs ---------------------------
(***************************************************************************)
(* The safety of the hedge executor, for every set of client IDs and every *)
(* bound.  The argument: at most one client ID is suspect (HedgeInvariant);*)
(* only begin makes one suspect, and it is reached only with none; an order*)
(* that can trade stays suspect.  Each part of IInv has one lemma, and each*)
(* lemma one case per step or group of steps.                              *)
(***************************************************************************)
EXTENDS HedgeInvariant, TLAPS

--------------------------------------------------------------------------------
\* Groups of steps, by what they write, and what each group leaves alone.
Resetting == Crash \/ ReconcileFails \/ SyncFails \/ CancelFails \/ IdReused \/ PostTimeout
Moving ==
    \/ Start \/ ReconcileNothing \/ ReconcileCancel \/ RefreshDone \/ ListOpen
    \/ (\E c \in Cloids : Sweep(c)) \/ HedgePlan \/ NoSecondOrder \/ SecondOrder
    \/ DustDeferred \/ VerifyIoc \/ NextSync
Clearing == ClearUnsentPointer \/ SweepDone \/ ClearPointer \/ Settle
Releasing == PendingCancelGone \/ FinishPending \/ Finish
Resolving == ResolvePending \/ (\E c \in Cloids : Refresh(c)) \/ CheckOpen \/ ConfirmCancel

\* Every step of the executor or of the exchange is in a group or is one of the
\* steps that need facts of their own.
LEMMA Steps ==
    ASSUME Next
    PROVE  \/ Resetting \/ Moving \/ Clearing \/ Releasing \/ Resolving
           \/ ReconcileOrder \/ MarkUnsent \/ SyncOrders \/ Compact \/ JournalOrder
           \/ Acknowledge \/ BeginCancel \/ BeginOrder \/ Submit \/ WritePointer \/ Post
           \/ ArchiveInterrupted \/ Exchange
  BY DEF Next, Process, Resetting, Moving, Clearing, Releasing, Resolving

\* A crash or a returned error keeps the state directory and the exchange and
\* forgets what the process had in memory.
LEMMA ResettingFrame ==
    ASSUME Resetting
    PROVE  /\ UNCHANGED <<disk, exch>>
           /\ pc' = "down" /\ cur' = Null /\ todo' = {} /\ plan' = Null /\ reply' = Null
           /\ recover' = TRUE /\ faults' \in {faults, faults + 1}
  BY DEF Resetting, Crash, ReconcileFails, SyncFails, CancelFails, IdReused, PostTimeout, Reset

\* Moving steps decide; they write no file and send nothing.
LEMMA MovingFrame ==
    ASSUME Moving
    PROVE  UNCHANGED <<disk, exch, faults>>
  BY DEF Moving, Start, ReconcileNothing, ReconcileCancel, RefreshDone, ListOpen, Sweep,
     HedgePlan, NoSecondOrder, SecondOrder, DustDeferred, VerifyIoc, NextSync

\* Clearing steps remove hedge_order.json and touch no other file.
LEMMA ClearingFrame ==
    ASSUME Clearing
    PROVE  /\ pointer' = Null /\ UNCHANGED <<pending, ledger, oid, archived, exch, faults>>
           /\ pc \in {"unsent_pointer", "sweep", "clear", "settle"}
           /\ pc' \in {"finish_pending", "compact", "second", "idle"}
  BY DEF Clearing, ClearUnsentPointer, SweepDone, ClearPointer, Settle, Goto

\* store.finish is reached only with an order whose ledger entry is settled or open.
LEMMA ReleasingFacts ==
    ASSUME IInv, Releasing
    PROVE  /\ pending # Null /\ pending \in Pending /\ pending' = Null
           /\ UNCHANGED <<ledger, oid, archived, pointer, exch, faults>>
           /\ pc \in {"pending_cancel", "finish_pending", "finish"}
           /\ pc' \in {"sync", "confirm", "clear", "check", "idle", "verify_ioc"}
           /\ \A c \in Cloids : Ordering(c) => ledger[c] \in Terminal \cup {"open"}
<1>1. /\ pending # Null /\ pending \in Pending /\ pending' = Null
      /\ pc \in {"pending_cancel", "finish_pending", "finish"}
      /\ pc' \in {"sync", "confirm", "clear", "check", "idle", "verify_ioc"}
      /\ UNCHANGED <<ledger, oid, archived, pointer, exch, faults>>
  BY DEF IInv, TypeOK, ReconcileInv, StepInv, Sending, Releasing, PendingCancelGone,
     FinishPending, Finish, Goto
<1>2. ASSUME NEW c \in Cloids, Ordering(c) PROVE ledger[c] \in Terminal \cup {"open"}
  BY <1>2 DEF Ordering, IInv, ReconcileInv, SendInv, Sending, Releasing, PendingCancelGone,
     FinishPending, Finish, Terminal, Final
<1> QED BY <1>1, <1>2

\* order_recovery::resolve changes at most one unresolved entry, and a final verdict
\* it writes is the exchange's own.
LEMMA ResolvingFacts ==
    ASSUME IInv, Resolving
    PROVE  /\ UNCHANGED <<pending, archived, pointer, exch, faults>>
           /\ pc \in {"resolve_pending", "refresh"} \cup Cancelling
           /\ \E c \in Cloids :
                 /\ c = IF pc = "resolve_pending" THEN pending.cloid
                        ELSE IF pc = "refresh" THEN c ELSE cur
                 /\ pc = "refresh" => todo' = todo \ {c}
                 /\ ledger[c] # "absent"
                 /\ \/ ledger[c] \in Terminal /\ UNCHANGED <<ledger, oid>>
                    \/ \E s \in Final \cup {"open"} :
                          /\ ledger[c] \in Unresolved
                          /\ ledger' = [ledger EXCEPT ![c] = s]
                          /\ oid' = [oid EXCEPT ![c] = TRUE]
                          /\ c \in posted /\ xstat[c] # "none"
                          /\ s \in Final => xstat[c] = s
<1>1. ASSUME NEW c \in Cloids, NEW s \in Final \cup {"open", "not_submitted"},
             Resolved(c, s), ledger[c] # "absent"
      PROVE  \/ ledger[c] \in Terminal /\ UNCHANGED <<ledger, oid>>
             \/ /\ s \in Final \cup {"open"} /\ ledger[c] \in Unresolved
                /\ ledger' = [ledger EXCEPT ![c] = s]
                /\ oid' = [oid EXCEPT ![c] = TRUE]
                /\ c \in posted /\ xstat[c] # "none"
                /\ s \in Final => xstat[c] = s
  <2>1. CASE ledger[c] \in Terminal
    BY <1>1, <2>1 DEF Resolved
  <2>2. CASE ledger[c] \notin Terminal
    <3>1. /\ s = View(c) /\ s # "none"
          /\ ledger' = [ledger EXCEPT ![c] = s] /\ oid' = [oid EXCEPT ![c] = TRUE]
      BY <1>1, <2>2 DEF Resolved
    <3>2. s # "not_submitted"
      BY <3>1 DEF View, IInv, TypeOK, Final
    <3>3. xstat[c] # "none" /\ (s \in Final => xstat[c] = s)
      BY <3>1 DEF View, IInv, IndexInv, Final
    <3>4. c \in posted
      BY <3>3 DEF IInv, IndexInv
    <3>5. ledger[c] \in Unresolved
      BY <1>1, <2>2 DEF IInv, TypeOK
    <3> QED BY <3>1, <3>2, <3>3, <3>4, <3>5
  <2> QED BY <2>1, <2>2
<1>2. UNCHANGED <<pending, archived, pointer, exch, faults>>
  BY DEF Resolving, ResolvePending, Refresh, CheckOpen, ConfirmCancel
<1>3. CASE ResolvePending
  <2>1. PICK s \in Final \cup {"open", "not_submitted"} : Resolved(pending.cloid, s)
    BY <1>3 DEF ResolvePending
  <2>2. pc = "resolve_pending" /\ pending.cloid \in Cloids /\ ledger[pending.cloid] # "absent"
    BY <1>3 DEF ResolvePending, IInv, TypeOK, ReconcileInv, PendingInv, Pending, Final
  <2> QED BY <1>1, <1>2, <2>1, <2>2
<1>4. CASE \E c \in Cloids : Refresh(c)
  <2>1. PICK c \in Cloids : Refresh(c)
    BY <1>4
  <2>2. PICK s \in Final \cup {"open", "not_submitted"} : Resolved(c, s)
    BY <2>1 DEF Refresh
  <2>3. pc = "refresh" /\ todo' = todo \ {c} /\ ledger[c] # "absent"
    BY <2>1 DEF Refresh, IInv, MemoryInv
  <2> QED BY <1>1, <1>2, <2>2, <2>3
<1>5. CASE CheckOpen \/ ConfirmCancel
  <2>1. PICK s \in Final \cup {"open", "not_submitted"} : Resolved(cur, s)
    BY <1>5 DEF CheckOpen, ConfirmCancel, Terminal
  <2>2. pc \in Cancelling /\ pc # "resolve_pending" /\ pc # "refresh"
    BY <1>5 DEF CheckOpen, ConfirmCancel, Cancelling
  <2>3. cur \in Cloids /\ ledger[cur] # "absent"
    BY <2>2 DEF IInv, StepInv, MemoryInv, TypeOK
  <2> QED BY <1>1, <1>2, <2>1, <2>2, <2>3
<1> QED BY <1>3, <1>4, <1>5 DEF Resolving

\* The exchange writes no file, moves the process nowhere and sends nothing.
LEMMA ExchangeFrame ==
    ASSUME Exchange
    PROVE  /\ UNCHANGED <<disk, pc, recover, cur, todo, plan, intent, posted>>
           /\ wire' \subseteq wire
  BY DEF Exchange, Arrival, OrderRests, OrderTakes, OrderRejected, CancelArrives, Trade,
     ExchangeCancels, CancelRefused, Lose, Answer, IndexAdvances, ListAdvances, proc

--------------------------------------------------------------------------------
\* What the remaining steps find and leave.

\* begin is reached with a fresh client ID and nothing suspect: afterwards the new
\* ID is the only suspect.
LEMMA BeginFacts ==
    ASSUME IInv, BeginOrder
    PROVE  /\ plan \in Plan /\ plan # Null /\ plan.cloid \in Cloids
           /\ pc = "begin" /\ pc' = "pointer" /\ cur = Null
           /\ ledger[plan.cloid] = "absent" /\ plan.cloid \notin archived
           /\ plan.cloid \notin posted /\ xstat[plan.cloid] = "none"
           /\ pending' = [kind |-> "order", cloid |-> plan.cloid, dispatch |-> "prepared"]
           /\ pending' \in Pending /\ pending' # Null
           /\ intent'[plan.cloid] = plan.order
           /\ UNCHANGED <<plan, cur, ledger, archived, posted, xstat, left, short>>
           /\ \A d \in Cloids : Suspect(d)' => d = plan.cloid
<1>1. plan \in Plan /\ plan # Null /\ plan.cloid \in Cloids /\ pc = "begin" /\ cur = Null
  BY DEF IInv, TypeOK, MemoryInv, BeginOrder, Plan, Cancelling, Sending
<1>2. /\ ledger[plan.cloid] = "absent" /\ plan.cloid \notin archived /\ pc' = "pointer"
      /\ pending' = [kind |-> "order", cloid |-> plan.cloid, dispatch |-> "prepared"]
      /\ intent' = [intent EXCEPT ![plan.cloid] = plan.order]
      /\ UNCHANGED <<plan, cur, ledger, archived, posted, xstat, left, short>>
  BY DEF BeginOrder, NewId, Goto
<1>3. plan.cloid \notin posted
  BY <1>1, <1>2 DEF IInv, LedgerInv, Unimported
<1>4. xstat[plan.cloid] = "none"
  BY <1>1, <1>3 DEF IInv, IndexInv
<1>5. intent'[plan.cloid] = plan.order
  BY <1>1, <1>2 DEF IInv, TypeOK
<1>6. \A d \in Cloids : Suspect(d)' => d = plan.cloid
  <2>1. \A d \in Cloids : ledger[d] \notin Unresolved
    BY <1>1 DEF IInv, StepInv, Quiet, Suspect
  <2> QED BY <1>2, <2>1 DEF Suspect, Ordering, Unimported
<1>7. pending' \in Pending /\ pending' # Null
  BY <1>1, <1>2, NullAssumption DEF Pending
<1> QED BY <1>1, <1>2, <1>3, <1>4, <1>5, <1>6, <1>7

\* The ledger entry of a new order is written for the order of pending.json.
LEMMA JournalFacts ==
    ASSUME IInv, JournalOrder
    PROVE  /\ pending # Null /\ pending \in Pending /\ pending.kind = "order"
           /\ plan # Null /\ plan.cloid = pending.cloid
           /\ pc = "journal" /\ pc' = "submit" /\ cur = Null
           /\ ledger[pending.cloid] = "absent" /\ ledger'[pending.cloid] = "prepared"
           /\ pending.cloid \notin posted
           /\ \A d \in Cloids : Suspect(d)' => Suspect(d)
<1>1. pc = "journal" /\ pc' = "submit" /\ pending # Null /\ pending \in Pending
  BY DEF IInv, JournalOrder, StepInv, TypeOK, Sending, Goto
<1>2. pending.kind = "order"
  BY <1>1 DEF IInv, SendInv, Sending, Pending
<1>3. /\ ledger[pending.cloid] = "absent" /\ plan # Null
      /\ plan.cloid = pending.cloid /\ cur = Null
  BY <1>1, <1>2 DEF IInv, SendInv, Sending
<1>4. pending.cloid \notin posted
  BY <1>1, <1>2, <1>3 DEF IInv, PendingInv, Pending, Final
<1>5. pending.cloid \in Cloids
  BY <1>1 DEF Pending
<1>6. ledger'[pending.cloid] = "prepared"
  BY <1>3, <1>5 DEF JournalOrder, Prepared, IInv, TypeOK
<1>7. \A d \in Cloids : Suspect(d)' => Suspect(d)
  <2> SUFFICES ASSUME NEW d \in Cloids, Suspect(d)' PROVE Suspect(d)
    OBVIOUS
  <2>1. CASE d = pending.cloid
    BY <1>1, <1>2, <1>3, <2>1 DEF Suspect, Ordering
  <2>2. CASE d # pending.cloid
    <3>1. ledger'[d] = ledger[d]
      BY <1>3, <2>2 DEF JournalOrder, Prepared, IInv, TypeOK
    <3> QED BY <3>1 DEF Suspect, Ordering, Unimported, JournalOrder, Goto
  <2> QED BY <2>1, <2>2
<1> QED BY <1>1, <1>2, <1>3, <1>4, <1>6, <1>7

\* The acknowledged status is what the exchange answered for this order.
LEMMA AcknowledgeFacts ==
    ASSUME IInv, Acknowledge
    PROVE  /\ pending # Null /\ pending \in Pending /\ pc = "await" /\ pc' = "finish"
           /\ UNCHANGED <<pending, pointer, archived, xstat, posted>>
           /\ pending.kind = "cancel" => UNCHANGED <<ledger, oid>>
           /\ pending.kind = "order" =>
                 /\ ledger[pending.cloid] = "prepared"
                 /\ ledger' = [ledger EXCEPT ![pending.cloid] = AckStatus]
                 /\ oid' = [oid EXCEPT ![pending.cloid] = reply # "error"]
                 /\ \/ AckStatus = "open" /\ reply = "resting" /\ xstat[pending.cloid] # "none"
                    \/ AckStatus = "filled" /\ reply = "filled" /\ xstat[pending.cloid] = "filled"
                    \/ AckStatus = "rejected" /\ reply = "error" /\ xstat[pending.cloid] = "rejected"
<1>1. /\ pending # Null /\ pending \in Pending /\ pc = "await" /\ pc' = "finish"
      /\ UNCHANGED <<pending, pointer, archived, xstat, posted>>
      /\ reply \in Reply
  BY DEF IInv, TypeOK, StepInv, Sending, Acknowledge, Goto, exch
<1>2. pending.kind = "cancel" => UNCHANGED <<ledger, oid>>
  BY DEF Acknowledge
<1>3. ASSUME pending.kind = "order"
      PROVE  /\ ledger[pending.cloid] = "prepared"
             /\ ledger' = [ledger EXCEPT ![pending.cloid] = AckStatus]
             /\ oid' = [oid EXCEPT ![pending.cloid] = reply # "error"]
  BY <1>1, <1>3 DEF Acknowledge, IInv, SendInv, Sending
<1>4. ASSUME pending.kind = "order"
      PROVE  \/ AckStatus = "open" /\ reply = "resting" /\ xstat[pending.cloid] # "none"
             \/ AckStatus = "filled" /\ reply = "filled" /\ xstat[pending.cloid] = "filled"
             \/ AckStatus = "rejected" /\ reply = "error" /\ xstat[pending.cloid] = "rejected"
  <2>1. /\ reply # "ok"
        /\ reply = "resting" => xstat[pending.cloid] # "none"
        /\ reply = "filled" => xstat[pending.cloid] = "filled"
        /\ reply = "error" => xstat[pending.cloid] = "rejected"
    BY <1>1, <1>4 DEF IInv, SendInv, Sending
  <2> QED BY <1>1, <2>1 DEF AckStatus, Reply
<1> QED BY <1>1, <1>2, <1>3, <1>4

\* Compaction starts and ends with nothing suspect, so it archives only what is over.
LEMMA CompactFacts ==
    ASSUME IInv, Compact
    PROVE  pending = Null /\ pending' = Null /\ pc' = "idle" /\ \A c \in Cloids : ~Suspect(c)'
<1>1. pending = Null /\ pending' = Null /\ pc' = "idle" /\ \A c \in Cloids : ~Suspect(c)
  BY DEF IInv, Compact, StepInv, Quiet, Goto
<1>2. PICK old \in SUBSET Compactable :
         ledger' = [c \in Cloids |-> IF c \in old THEN "absent" ELSE ledger[c]]
  BY <1>1 DEF Compact
<1>3. ASSUME NEW c \in Cloids PROVE ~Suspect(c)'
  <2>1. ledger'[c] \notin Unresolved
    BY <1>1, <1>2 DEF Suspect, Unresolved
  <2> QED BY <1>1, <2>1 DEF Suspect, Ordering, Unimported
<1> QED BY <1>1, <1>3

\* An interrupted archive has copied entries that are over, and dropped none.
LEMMA InterruptedFacts ==
    ASSUME IInv, ArchiveInterrupted
    PROVE  /\ UNCHANGED <<pending, ledger, oid, pointer, exch>>
           /\ pending = Null /\ pc = "compact" /\ pc' = "down" /\ cur' = Null /\ todo' = {}
           /\ plan' = Null /\ reply' = Null /\ recover' = TRUE /\ faults' = faults + 1
           /\ archived' \subseteq Cloids /\ archived \subseteq archived'
           /\ \A c \in archived' : c \in archived \/ (ledger[c] \in Terminal /\ c # pointer)
           /\ \A c \in Cloids : ~Suspect(c)'
<1>1. /\ UNCHANGED <<pending, ledger, oid, pointer, exch>>
      /\ pending = Null /\ pc = "compact" /\ pc' = "down" /\ cur' = Null /\ todo' = {}
      /\ plan' = Null /\ reply' = Null /\ recover' = TRUE /\ faults' = faults + 1
  BY DEF ArchiveInterrupted, Reset
<1>2. /\ archived' \subseteq Cloids /\ archived \subseteq archived'
      /\ \A c \in archived' : c \in archived \/ (ledger[c] \in Terminal /\ c # pointer)
  <2>1. PICK some \in SUBSET Compactable : archived' = archived \cup some
    BY DEF ArchiveInterrupted
  <2>2. archived \subseteq Cloids
    BY DEF IInv, TypeOK
  <2>3. \A c \in Compactable : c \in Cloids /\ ledger[c] \in Terminal /\ c # pointer
    BY DEF Compactable
  <2> QED BY <2>1, <2>2, <2>3
<1>3. ASSUME NEW c \in Cloids PROVE ~Suspect(c)'
  <2>1. ledger[c] \notin Unresolved
    BY <1>1 DEF IInv, StepInv, Quiet, Suspect
  <2>2. ~(pointer = c /\ c \in posted /\ ledger[c] = "absent")
    BY <1>1 DEF IInv, LedgerInv, Ordering, Unimported
  <2>3. posted' = posted
    BY <1>1 DEF exch
  <2> QED BY <1>1, <2>1, <2>2, <2>3 DEF Suspect, Ordering, Unimported
<1> QED BY <1>1, <1>2, <1>3

\* reconcile adds at most the ledger entry the crash left unwritten.
LEMMA ReconcileOrderFacts ==
    ASSUME IInv, ReconcileOrder
    PROVE  /\ pending # Null /\ pending \in Pending /\ pending.kind = "order"
           /\ pc' = IF pending.dispatch = "prepared" THEN "unsent" ELSE "resolve_pending"
           /\ UNCHANGED <<pending, oid, archived, pointer, exch, faults>>
           /\ pending.cloid \in Cloids /\ ledger'[pending.cloid] # "absent"
           /\ \A d \in Cloids : ledger'[d] = IF d = pending.cloid /\ ledger[d] = "absent"
                                             THEN "prepared" ELSE ledger[d]
  BY DEF IInv, TypeOK, ReconcileOrder, Prepared, Goto, Pending

\* reconcile writes not_submitted only for an order that never left.
LEMMA MarkUnsentFacts ==
    ASSUME IInv, MarkUnsent
    PROVE  /\ pending # Null /\ pending \in Pending /\ pending.dispatch = "prepared"
           /\ pc' = "unsent_pointer"
           /\ UNCHANGED <<pending, oid, archived, pointer, exch, faults>>
           /\ pending.kind = "order" => pending.cloid \notin posted
           /\ \A d \in Cloids :
                 ledger'[d] = IF Ordering(d) THEN "not_submitted" ELSE ledger[d]
<1>1. /\ pending # Null /\ pending \in Pending /\ pending.dispatch = "prepared"
      /\ pc' = "unsent_pointer"
      /\ UNCHANGED <<pending, oid, archived, pointer, exch, faults>>
  BY DEF IInv, TypeOK, ReconcileInv, MarkUnsent, Goto
<1>2. pending.kind = "order" => pending.cloid \notin posted
  BY <1>1 DEF IInv, PendingInv
<1>3. \A d \in Cloids : ledger'[d] = IF Ordering(d) THEN "not_submitted" ELSE ledger[d]
  BY <1>1 DEF IInv, TypeOK, MarkUnsent, Ordering, Pending
<1> QED BY <1>1, <1>2, <1>3

\* sync_orders imports the hedge order of an earlier release and nothing else.
LEMMA SyncFacts ==
    ASSUME IInv, SyncOrders
    PROVE  /\ pc = "sync" /\ pc' = "refresh" /\ pending = Null
           /\ UNCHANGED <<pending, oid, archived, pointer, exch, faults>>
           /\ todo' = {c \in Cloids : ledger'[c] \in Unresolved}
           /\ \A d \in Cloids :
                 ledger'[d] = IF Unimported(d) THEN "legacy" ELSE ledger[d]
<1>1. /\ pc = "sync" /\ pc' = "refresh" /\ pending = Null
      /\ UNCHANGED <<pending, oid, archived, pointer, exch, faults>>
      /\ todo' = {c \in Cloids : ledger'[c] \in Unresolved}
  BY DEF IInv, StepInv, Syncing, SyncOrders
<1>2. \A d \in Cloids : pointer = d /\ ledger[d] = "absent" <=> Unimported(d)
  BY <1>1 DEF IInv, LedgerInv, Ordering, Unimported
<1>3. \A d \in Cloids :
         ledger'[d] = IF pointer = d /\ ledger[d] = "absent" THEN "legacy" ELSE ledger[d]
  BY NullAssumption DEF SyncOrders, Imported, IInv, TypeOK
<1> QED BY <1>1, <1>2, <1>3

\* store.submitting changes the dispatch mark and nothing else.
LEMMA SubmitFacts ==
    ASSUME IInv, Submit
    PROVE  /\ pending # Null /\ pending \in Pending /\ pc = "submit" /\ pc' = "post"
           /\ pending' = [pending EXCEPT !.dispatch = "submitting"] /\ pending' \in Pending
           /\ pending'.kind = pending.kind /\ pending'.cloid = pending.cloid
           /\ pending'.dispatch = "submitting"
           /\ UNCHANGED <<ledger, oid, archived, pointer, exch, faults, cur, todo, plan, reply>>
  BY DEF IInv, TypeOK, StepInv, Sending, Submit, Goto, Pending

\* A cancel is begun with no other mutation pending.
LEMMA BeginCancelFacts ==
    ASSUME IInv, BeginCancel
    PROVE  /\ pending = Null /\ pc = "cancel" /\ pc' = "submit" /\ cur \in Cloids
           /\ pending' = [kind |-> "cancel", cloid |-> cur, dispatch |-> "prepared"]
           /\ pending' \in Pending
           /\ UNCHANGED <<ledger, oid, archived, pointer, exch, faults, cur, todo, plan, reply>>
  BY DEF IInv, TypeOK, StepInv, Cancelling, BeginCancel, Goto, Pending

\* A POST sends the request of pending.json, which says submitting by then.
LEMMA PostFacts ==
    ASSUME IInv, Post
    PROVE  /\ pending # Null /\ pending \in Pending /\ pending.dispatch = "submitting"
           /\ pc = "post" /\ pc' = "await"
           /\ wire' = wire \cup {Req(pending.kind, pending.cloid)}
           /\ posted' = IF pending.kind = "order" THEN posted \cup {pending.cloid} ELSE posted
           /\ UNCHANGED <<disk, cur, todo, plan, reply, xstat, left, intent, index, listed,
                          short, faults>>
           /\ pending.kind = "order" =>
                 ledger[pending.cloid] = "prepared" /\ pending.cloid \notin posted
<1>1. /\ pending # Null /\ pending \in Pending /\ pc = "post" /\ pc' = "await"
      /\ wire' = wire \cup {Req(pending.kind, pending.cloid)}
      /\ posted' = IF pending.kind = "order" THEN posted \cup {pending.cloid} ELSE posted
      /\ UNCHANGED <<disk, cur, todo, plan, reply, xstat, left, intent, index, listed,
                     short, faults>>
  BY DEF IInv, TypeOK, StepInv, Sending, Post, Goto
<1> QED BY <1>1 DEF IInv, SendInv, Sending

\* hedge_order.json is written for the order of pending.json.
LEMMA WritePointerFacts ==
    ASSUME IInv, WritePointer
    PROVE  /\ pending # Null /\ pending \in Pending /\ pending.kind = "order"
           /\ pc = "pointer" /\ pc' = "journal" /\ pointer' = pending.cloid
           /\ UNCHANGED <<pending, ledger, oid, archived, exch, faults, cur, todo, plan, reply>>
<1>1. pending # Null /\ pending \in Pending /\ pc = "pointer" /\ pc' = "journal"
  BY DEF IInv, TypeOK, StepInv, Sending, WritePointer, Goto
<1>2. pending.kind = "order" /\ plan.cloid = pending.cloid
  BY <1>1 DEF IInv, SendInv, Sending, Pending
<1> QED BY <1>1, <1>2 DEF WritePointer, Goto

--------------------------------------------------------------------------------
\* What is suspect, and what can trade.

\* A step that leaves an order's entry alone does not make the order suspect.
LEMMA SuspectFrame ==
    ASSUME IInv, NEW d \in Cloids, Suspect(d)', ledger'[d] = ledger[d],
           archived' = archived, d \in posted' => d \in posted,
           pending' \in {pending, Null} \/ ~Ordering(d)' \/ Ordering(d),
           pointer' = d => pointer = d \/ Unimported(d) \/ ~Unimported(d)'
    PROVE  Suspect(d)
<1>1. CASE ledger'[d] \in Unresolved
  BY <1>1 DEF Suspect
<1>2. CASE Ordering(d)' /\ ledger'[d] = "absent"
  BY <1>2 DEF Suspect, Ordering
<1>3. CASE Unimported(d)'
  <2>1. d \in posted /\ ledger[d] = "absent"
    BY <1>3 DEF Unimported
  <2>2. pointer = d \/ Unimported(d)
    BY <1>3 DEF Unimported
  <2> QED BY <2>1, <2>2 DEF IInv, LedgerInv, Suspect
<1> QED BY <1>1, <1>2, <1>3 DEF Suspect

\* Only begin makes an order suspect: no crash, no answer and no recovery step
\* puts a settled order back in doubt.
LEMMA NoNewSuspects ==
    ASSUME IInv, Next, ~BeginOrder, NEW d \in Cloids, Suspect(d)'
    PROVE  Suspect(d)
<1>1. CASE Resetting \/ Moving \/ Exchange
  <2>1. UNCHANGED <<ledger, archived, posted, pending, pointer>>
    BY <1>1, ResettingFrame, MovingFrame, ExchangeFrame DEF disk, exch
  <2> QED BY <2>1, SuspectFrame
<1>2. CASE Clearing
  <2>1. UNCHANGED <<ledger, archived, posted, pending>> /\ pointer' # d
    BY <1>2, ClearingFrame, NullAssumption DEF exch
  <2> QED BY <2>1, SuspectFrame
<1>3. CASE Releasing
  <2>1. UNCHANGED <<ledger, archived, posted, pointer>> /\ pending' = Null
    BY <1>3, ReleasingFacts DEF exch
  <2> QED BY <2>1, SuspectFrame
<1>4. CASE Resolving
  <2>1. UNCHANGED <<pending, archived, posted, pointer>>
    BY <1>4, ResolvingFacts DEF exch
  <2>2. CASE ledger'[d] = ledger[d]
    BY <2>1, <2>2, SuspectFrame
  <2>3. CASE ledger'[d] # ledger[d]
    <3>1. ledger[d] \in Unresolved
      BY <1>4, <2>3, ResolvingFacts DEF IInv, TypeOK
    <3> QED BY <3>1 DEF Suspect
  <2> QED BY <2>2, <2>3
<1>5. CASE ReconcileOrder
  <2>1. UNCHANGED <<pending, archived, posted, pointer>>
    BY <1>5, ReconcileOrderFacts DEF exch
  <2>2. CASE ledger'[d] = ledger[d]
    BY <2>1, <2>2, SuspectFrame
  <2>3. CASE ledger'[d] # ledger[d]
    BY <1>5, <2>3, ReconcileOrderFacts DEF Suspect, Ordering
  <2> QED BY <2>2, <2>3
<1>6. CASE MarkUnsent
  <2>1. UNCHANGED <<pending, archived, posted, pointer>> /\ pending # Null
    BY <1>6, MarkUnsentFacts DEF exch
  <2>2. ~Ordering(d)
    BY <1>6, <2>1, MarkUnsentFacts DEF Suspect, Ordering, Unimported, Unresolved
  <2>3. ledger'[d] = ledger[d]
    BY <1>6, <2>2, MarkUnsentFacts
  <2> QED BY <2>1, <2>3, SuspectFrame
<1>7. CASE SyncOrders
  <2>1. UNCHANGED <<pending, archived, posted, pointer>>
    BY <1>7, SyncFacts DEF exch
  <2>2. CASE Unimported(d)
    BY <2>2 DEF Suspect
  <2>3. CASE ~Unimported(d)
    BY <1>7, <2>1, <2>3, SyncFacts, SuspectFrame
  <2> QED BY <2>2, <2>3
<1>8. CASE Compact \/ ArchiveInterrupted
  BY <1>8, CompactFacts, InterruptedFacts
<1>9. CASE JournalOrder
  BY <1>9, JournalFacts
<1>10. CASE Acknowledge
  <2>1. UNCHANGED <<pending, archived, posted, pointer>>
    BY <1>10, AcknowledgeFacts
  <2>2. CASE Ordering(d)
    BY <1>10, <2>2, AcknowledgeFacts DEF Ordering, Suspect, Unresolved
  <2>3. CASE ~Ordering(d)
    <3>1. ledger'[d] = ledger[d]
      BY <1>10, <2>3, AcknowledgeFacts DEF Ordering, IInv, TypeOK, Pending
    <3> QED BY <2>1, <3>1, SuspectFrame
  <2> QED BY <2>2, <2>3
<1>11. CASE BeginCancel
  <2>1. UNCHANGED <<ledger, archived, posted, pointer>> /\ ~Ordering(d)'
    BY <1>11, BeginCancelFacts DEF exch, Ordering
  <2> QED BY <2>1, SuspectFrame
<1>12. CASE Submit
  <2>1. UNCHANGED <<ledger, archived, posted, pointer>> /\ (Ordering(d)' => Ordering(d))
    BY <1>12, SubmitFacts DEF exch, Ordering
  <2> QED BY <2>1, SuspectFrame
<1>13. CASE WritePointer
  <2>1. /\ UNCHANGED <<ledger, archived, posted, pending>>
        /\ ~Unimported(d)'
    BY <1>13, WritePointerFacts DEF exch, Unimported
  <2> QED BY <2>1, SuspectFrame
<1>14. CASE Post
  <2>1. /\ UNCHANGED <<ledger, archived, pending, pointer>> /\ ~Unimported(d)'
    BY <1>14, PostFacts DEF disk, Unimported
  <2> QED BY <2>1 DEF Suspect, Ordering
<1> QED BY <1>1, <1>2, <1>3, <1>4, <1>5, <1>6, <1>7, <1>8, <1>9, <1>10, <1>11, <1>12,
           <1>13, <1>14, Steps

\* One order at a time is in doubt.
LEMMA OneSuspectPreserved == ASSUME IInv, Next PROVE OneSuspect'
<1>1. CASE BeginOrder
  BY <1>1, BeginFacts DEF OneSuspect
<1>2. CASE ~BeginOrder
  BY <1>2, NoNewSuspects DEF IInv, OneSuspect
<1> QED BY <1>1, <1>2

\* An order with a final status, or one never posted, cannot trade.
LEMMA VerdictEndsLife ==
    ASSUME IInv, NEW d \in Cloids,
           xstat[d] \in Final \/ d \notin posted
    PROVE  ~Live(d)
  BY DEF IInv, IndexInv, Live, Final

\* The hedge order of an earlier release stays in doubt until sync_orders imports it.
LEMMA UnimportedStays ==
    ASSUME IInv, Next, NEW d \in Cloids, Unimported(d)
    PROVE  /\ Unimported(d)' \/ ledger'[d] = "legacy"
           /\ Crash \/ Start \/ ReconcileNothing \/ SyncOrders \/ Exchange
<1>1. pending = Null /\ pc \in {"down", "reconcile", "sync"} /\ pointer = d /\ d \in posted
      /\ ledger[d] = "absent"
  BY DEF Unimported
<1>2. CASE Crash \/ Start \/ ReconcileNothing
  BY <1>1, <1>2 DEF Unimported, Crash, Reset, Start, ReconcileNothing, Goto, disk, exch
<1>3. CASE SyncOrders
  BY <1>3, SyncFacts
<1>4. CASE Exchange
  BY <1>1, <1>4, ExchangeFrame DEF Unimported, disk
<1>5. Crash \/ Start \/ ReconcileNothing \/ SyncOrders \/ Exchange
  BY <1>1 DEF Next, Process, ArchiveInterrupted, ReconcileOrder, ReconcileCancel, MarkUnsent, ClearUnsentPointer,
     ResolvePending, PendingCancelGone, FinishPending, ReconcileFails, Refresh, RefreshDone,
     ListOpen, Sweep, SweepDone, SyncFails, Compact, CheckOpen, BeginCancel, ConfirmCancel,
     CancelFails, BeginOrder, IdReused, WritePointer, JournalOrder, Submit, Post,
     Acknowledge, PostTimeout, Finish, HedgePlan, ClearPointer, NoSecondOrder, SecondOrder,
     DustDeferred, VerifyIoc, Settle, NextSync
<1> QED BY <1>2, <1>3, <1>4, <1>5

\* An order that can trade stays suspect: no file calls it settled too early.
LEMMA LiveStaysSuspect ==
    ASSUME IInv, Next, NEW d \in Cloids, Suspect(d), Live(d), Live(d)'
    PROVE  Suspect(d)'
<1>1. CASE ledger[d] = "absent" /\ Ordering(d)
  <2>1. d \notin posted
    BY <1>1 DEF IInv, LedgerInv, PendingInv, Ordering, Unimported
  <2> QED BY <2>1, VerdictEndsLife
<1>2. CASE Unimported(d)
  BY <1>2, UnimportedStays DEF Suspect, Unresolved
<1>3. CASE ledger[d] \in Unresolved
  <2>1. CASE ledger'[d] = ledger[d]
    BY <1>3, <2>1 DEF Suspect
  <2>2. CASE ledger'[d] # ledger[d]
    <3>1. CASE Resolving
      <4>1. ledger'[d] = "open" \/ xstat[d] \in Final
        BY <3>1, <2>2, ResolvingFacts DEF IInv, TypeOK
      <4> QED BY <4>1, VerdictEndsLife DEF Suspect, Unresolved
    <3>2. CASE MarkUnsent
      <4>1. d \notin posted
        BY <2>2, <3>2, MarkUnsentFacts DEF Ordering
      <4> QED BY <4>1, VerdictEndsLife
    <3>3. CASE Acknowledge
      <4>1. ledger'[d] = "open" \/ xstat[d] \in Final
        BY <2>2, <3>3, AcknowledgeFacts DEF IInv, TypeOK, Pending, Final
      <4> QED BY <4>1, VerdictEndsLife DEF Suspect, Unresolved
    <3>4. CASE Compact
      BY <3>4 DEF Compact, IInv, StepInv, Quiet
    <3>5. CASE ~Resolving /\ ~MarkUnsent /\ ~Acknowledge /\ ~Compact
      <4>1. ledger[d] # "absent"
        BY <1>3 DEF Unresolved
      <4>2. ~ReconcileOrder /\ ~JournalOrder
        BY <2>2, <4>1, ReconcileOrderFacts DEF JournalOrder, Prepared, IInv, TypeOK
      <4>3. ~SyncOrders
        BY <2>2, <4>1, SyncFacts DEF Unimported
      <4>4. ledger' = ledger
        BY <3>5, <4>2, <4>3, Steps, ResettingFrame, MovingFrame, ClearingFrame, ReleasingFacts,
           BeginCancelFacts, BeginFacts, SubmitFacts, WritePointerFacts, PostFacts,
           InterruptedFacts, ExchangeFrame DEF disk
      <4> QED BY <2>2, <4>4
    <3> QED BY <3>1, <3>2, <3>3, <3>4, <3>5
  <2> QED BY <2>1, <2>2
<1> QED BY <1>1, <1>2, <1>3 DEF Suspect

\* Only begin (which signs) and POST act on the exchange's side of the state.
LEMMA ExchUntouched ==
    ASSUME Crash \/ ArchiveInterrupted \/ Process, ~Post, ~BeginOrder
    PROVE  UNCHANGED exch
  BY DEF Process, Crash, ArchiveInterrupted, Start, ReconcileNothing, ReconcileOrder, ReconcileCancel, MarkUnsent,
     ClearUnsentPointer, ResolvePending, PendingCancelGone, FinishPending, ReconcileFails,
     SyncOrders, Refresh, RefreshDone, ListOpen, Sweep, SweepDone, SyncFails, Compact,
     CheckOpen, BeginCancel, ConfirmCancel, CancelFails, IdReused, WritePointer,
     JournalOrder, Submit, Acknowledge, PostTimeout, Finish, HedgePlan, ClearPointer,
     NoSecondOrder, SecondOrder, DustDeferred, VerifyIoc, Settle, NextSync

\* An order that cannot trade becomes able to by a POST alone.
LEMMA OnlyPostRevives ==
    ASSUME Next, ~Post, NEW d \in Cloids, Live(d)', IInv
    PROVE  Live(d)
<1>1. CASE Exchange
  <2>1. d \in Cloids /\ xstat \in [Cloids -> Final \cup {"none", "open"}]
    BY DEF IInv, TypeOK
  <2>2. wire' \subseteq wire
    BY <1>1, ExchangeFrame
  <2>3. ASSUME xstat'[d] = "open", xstat[d] # "open" PROVE Req("order", d) \in wire
    BY <1>1, <2>1, <2>3 DEF Exchange, Arrival, OrderRests, OrderTakes, OrderRejected,
       CancelArrives, Trade, ExchangeCancels, CancelRefused, Lose, IndexAdvances, ListAdvances
  <2> QED BY <2>2, <2>3 DEF Live
<1>2. CASE BeginOrder
  BY <1>2 DEF BeginOrder, Live
<1>3. CASE (Crash \/ ArchiveInterrupted \/ Process) /\ ~BeginOrder
  BY <1>3, ExchUntouched DEF exch, Live
<1> QED BY <1>1, <1>2, <1>3 DEF Next

\* Whatever can trade is suspect after a step as before it.
LEMMA LivePreserved == ASSUME IInv, Next PROVE LiveInv'
<1> SUFFICES ASSUME NEW d \in Cloids, Live(d)' PROVE Suspect(d)'
  BY DEF LiveInv
<1>1. CASE Live(d)
  BY <1>1, LiveStaysSuspect DEF IInv, LiveInv
<1>2. CASE ~Live(d)
  <2>1. Post
    BY <1>2, OnlyPostRevives
  <2>2. pending.kind = "order" /\ pending.cloid = d
    BY <1>2, <2>1, PostFacts DEF Live, Req
  <2>3. ledger'[d] = "prepared"
    BY <2>1, <2>2, PostFacts DEF disk
  <2> QED BY <2>3 DEF Suspect, Unresolved
<1> QED BY <1>1, <1>2

\* Controller::hedge sizes an order by its distance to the target, so a full fill
\* lands on the target.
LEMMA OrderSized ==
    ASSUME short \in Nat, NEW c, NEW t \in Nat, NEW tif, NEW e
    PROVE  Sized(Order(c, t, tif, e).order, Order(c, t, tif, e).order.size)
<1> DEFINE o == Order(c, t, tif, e).order
<1>1. (o.buy <=> t < short) /\ o.size = Distance(t) /\ o.target = t
  BY DEF Order
<1>2. CASE t < short
  <2>1. short = t + Distance(t)
    BY <1>2 DEF Distance
  <2> QED BY <1>1, <1>2, <2>1 DEF Sized
<1>3. CASE ~(t < short)
  <2>1. short + Distance(t) = t
    BY <1>3 DEF Distance
  <2> QED BY <1>1, <1>3, <2>1 DEF Sized
<1> QED BY <1>2, <1>3

\* What Controller::hedge computes is a well-formed plan.
LEMMA PlanIsPlan ==
    ASSUME short \in Nat, NEW c \in Cloids, NEW t \in Nat,
           NEW tif \in {"Alo", "Ioc"}, NEW e \in BOOLEAN
    PROVE  Order(c, t, tif, e) \in Plan /\ Order(c, t, tif, e) # Null
<1>1. Distance(t) \in Nat
  BY DEF Distance
<1>2. Order(c, t, tif, e) \in Plan
  BY <1>1 DEF Plan, Order, Intent
<1> QED BY <1>2, NullAssumption

\* A plan is made while nothing is suspect, and for the present short position.
LEMMA PlanFacts ==
    ASSUME IInv, HedgePlan \/ SecondOrder
    PROVE  /\ plan' \in Plan /\ plan' # Null /\ Sized(plan'.order, plan'.order.size)
           /\ plan'.order.target \in 0..MaxShort
           /\ pc \in Quiet /\ pc' = "begin"
           /\ UNCHANGED <<disk, recover, cur, todo, reply, exch, faults>>
<1>1. /\ pc \in Quiet /\ pc' = "begin"
      /\ UNCHANGED <<disk, recover, cur, todo, reply, exch, faults>>
  BY DEF HedgePlan, SecondOrder, Quiet
<1>2. PICK c \in Cloids, t \in 0..MaxShort, tif \in {"Alo", "Ioc"}, e \in BOOLEAN :
         plan' = Order(c, t, tif, e)
  <2>1. CASE HedgePlan
    BY <2>1, BoundsAssumption DEF HedgePlan
  <2>2. CASE SecondOrder
    <3>1. plan.order.target \in 0..MaxShort
      BY <2>2 DEF IInv, MemoryInv, ShownInv, SecondOrder
    <3> QED BY <2>2, <3>1 DEF SecondOrder
  <2> QED BY <2>1, <2>2
<1>3. short \in Nat /\ t \in Nat
  BY BoundsAssumption DEF IInv, TypeOK
<1>4. plan' \in Plan /\ plan' # Null /\ Sized(plan'.order, plan'.order.size)
  BY <1>2, <1>3, OrderSized, PlanIsPlan
<1>5. plan'.order.target = t
  BY <1>2 DEF Order
<1> QED BY <1>1, <1>4, <1>5

\* Between the account read and begin nothing can trade, so the size still fits.
LEMMA PlanStaysSized ==
    ASSUME IInv, Next, pc' = "begin"
    PROVE  plan' # Null /\ Sized(plan.order, plan.order.size)'
<1>1. CASE HedgePlan \/ SecondOrder
  BY <1>1, PlanFacts DEF exch, Sized
<1>2. CASE Exchange
  <2>1. pc = "begin" /\ UNCHANGED <<pc, plan>>
    BY <1>2, ExchangeFrame
  <2>2. \A c \in Cloids : ~Live(c)
    BY <2>1 DEF IInv, StepInv, Quiet, LiveInv
  <2>3. short' = short
    BY <1>2, <2>2 DEF Exchange, Arrival, OrderRests, OrderTakes, OrderRejected, CancelArrives,
       Trade, ExchangeCancels, CancelRefused, Lose, IndexAdvances, ListAdvances, Live
  <2> QED BY <2>1, <2>3 DEF IInv, SizeInv, Sized
<1>3. CASE ~HedgePlan /\ ~SecondOrder /\ ~Exchange
  BY <1>3 DEF Next, Process, Crash, ArchiveInterrupted, Reset, Goto, CancelReturn, Start, ReconcileNothing,
     ReconcileOrder, ReconcileCancel, MarkUnsent,
     ClearUnsentPointer, ResolvePending, PendingCancelGone, FinishPending, ReconcileFails,
     SyncOrders, Refresh, RefreshDone, ListOpen, Sweep, SweepDone, SyncFails, Compact,
     CheckOpen, BeginCancel, ConfirmCancel, CancelFails, BeginOrder, IdReused, WritePointer,
     JournalOrder, Submit, Post, Acknowledge, PostTimeout, Finish, ClearPointer,
     NoSecondOrder, DustDeferred, VerifyIoc, Settle, NextSync
<1> QED BY <1>1, <1>2, <1>3

\* Every fill moves the short position and the rest of the order together.
LEMMA SizeExchange ==
    ASSUME IInv, NEW c \in Cloids, NEW d \in Cloids, Suspect(d), xstat'[d] \in {"none", "open"},
           \/ Arrival(c) \/ Trade(c) \/ ExchangeCancels(c) \/ CancelRefused(c)
           \/ Lose(Req("order", c)) \/ Lose(Req("cancel", c))
           \/ IndexAdvances(c) \/ ListAdvances(c)
    PROVE  Sized(intent[d], Remaining(d))'
<1>1. CASE Trade(c)
  <2>1. c = d
    BY <1>1 DEF Trade, Live, IInv, LiveInv, OneSuspect
  <2>2. PICK k \in 1..left[c] :
            /\ intent[c].buy => k <= short
            /\ short' = IF intent[c].buy THEN short - k ELSE short + k
            /\ left' = [left EXCEPT ![c] = @ - k]
            /\ xstat' = [xstat EXCEPT ![c] = IF k = left[c] THEN "filled" ELSE "open"]
    BY <1>1 DEF Trade
  <2>3. /\ intent' = intent /\ left'[c] = left[c] - k /\ xstat[c] = "open"
        /\ xstat'[c] = IF k = left[c] THEN "filled" ELSE "open"
    BY <1>1, <2>2 DEF Trade, IInv, TypeOK
  <2>4. Remaining(d)' = left'[c]
    BY <2>1, <2>3 DEF Remaining
  <2>5. left[c] \in Nat /\ short \in Nat /\ intent[c].target \in Nat /\ k \in Nat
    BY <2>2 DEF IInv, TypeOK, Intent
  <2>6. Sized(intent[c], left[c])
    BY <2>1, <2>3 DEF IInv, SizeInv, Remaining
  <2>7. CASE intent[c].buy
    BY <2>1, <2>2, <2>3, <2>4, <2>5, <2>6, <2>7 DEF Sized
  <2>8. CASE ~intent[c].buy
    BY <2>1, <2>2, <2>3, <2>4, <2>5, <2>6, <2>8 DEF Sized
  <2> QED BY <2>7, <2>8
<1>2. CASE OrderRests(c)
  <2>1. c = d /\ xstat[c] = "none"
    BY <1>2 DEF OrderRests, Live, IInv, LiveInv, OneSuspect
  <2>2. xstat'[c] = "open" /\ left'[c] = intent[c].size /\ UNCHANGED <<intent, short>>
    BY <1>2 DEF OrderRests, IInv, TypeOK
  <2> QED BY <2>1, <2>2 DEF IInv, SizeInv, Sized, Remaining
<1>3. CASE OrderTakes(c)
  <2>1. c = d
    BY <1>3 DEF OrderTakes, Live, IInv, LiveInv, OneSuspect
  <2> QED BY <1>3, <2>1 DEF OrderTakes, IInv, TypeOK
<1>4. CASE OrderRejected(c) \/ CancelArrives(c) \/ ExchangeCancels(c)
  <2>1. xstat'[d] = xstat[d] /\ UNCHANGED <<left, intent, short>>
    BY <1>4 DEF OrderRejected, CancelArrives, ExchangeCancels, IInv, TypeOK
  <2> QED BY <2>1 DEF IInv, SizeInv, Sized, Remaining
<1>5. CASE \/ CancelRefused(c) \/ Lose(Req("order", c)) \/ Lose(Req("cancel", c))
           \/ IndexAdvances(c) \/ ListAdvances(c)
  <2>1. UNCHANGED <<xstat, left, intent, short>>
    BY <1>5 DEF CancelRefused, Lose, IndexAdvances, ListAdvances
  <2> QED BY <2>1 DEF IInv, SizeInv, Sized, Remaining
<1> QED BY <1>1, <1>2, <1>3, <1>4, <1>5 DEF Arrival

\* The rest of a suspect order always leads exactly to its target.
LEMMA SizePreserved == ASSUME IInv, Next PROVE SizeInv'
<1> SUFFICES ASSUME NEW d \in Cloids, Suspect(d)', xstat'[d] \in {"none", "open"}
             PROVE  Sized(intent[d], Remaining(d))'
  BY PlanStaysSized DEF SizeInv
<1>1. CASE BeginOrder
  <2>1. d = plan.cloid
    BY <1>1, BeginFacts
  <2>2. Sized(plan.order, plan.order.size)
    BY <1>1, BeginFacts DEF IInv, SizeInv
  <2>3. Remaining(d)' = plan.order.size
    BY <1>1, <2>1, BeginFacts DEF Remaining
  <2> QED BY <1>1, <2>1, <2>2, <2>3, BeginFacts DEF Sized
<1>2. CASE Exchange /\ ~BeginOrder
  <2>1. Suspect(d)
    BY <1>2, NoNewSuspects
  <2> QED BY <1>2, <2>1, SizeExchange DEF Exchange
<1>3. CASE (Crash \/ ArchiveInterrupted \/ Process) /\ ~BeginOrder
  <2>1. Suspect(d)
    BY <1>3, NoNewSuspects
  <2>2. UNCHANGED <<xstat, left, intent, short>>
    BY <1>3, ExchUntouched, PostFacts DEF exch
  <2> QED BY <2>1, <2>2 DEF IInv, SizeInv, Sized, Remaining
<1> QED BY <1>1, <1>2, <1>3 DEF Next

--------------------------------------------------------------------------------
\* pending.json, the ledger and the indexes.

\* The exchange changes the status of orders that can trade only.
LEMMA OnlyTheLiveMove ==
    ASSUME IInv, Exchange, NEW d \in Cloids, ~Live(d)
    PROVE  xstat'[d] = xstat[d]
  BY DEF IInv, TypeOK, Live, Exchange, Arrival, OrderRests, OrderTakes, OrderRejected,
     CancelArrives, Trade, ExchangeCancels, CancelRefused, Lose, IndexAdvances, ListAdvances

\* Before its ledger entry exists an order has not been posted.
LEMMA OrderingUnposted ==
    ASSUME IInv, NEW d \in Cloids, Ordering(d), ledger[d] = "absent"
    PROVE  d \notin posted /\ xstat[d] = "none" /\ ~Live(d)
<1>1. d \notin posted
  BY DEF IInv, LedgerInv, PendingInv, Ordering, Unimported
<1> QED BY <1>1, VerdictEndsLife DEF IInv, IndexInv

\* pending.json stays truthful about dispatch.
LEMMA PendingPreserved == ASSUME IInv, Next PROVE PendingInv'
<1>1. CASE BeginOrder
  BY <1>1, BeginFacts DEF PendingInv
<1>2. CASE BeginCancel
  BY <1>2, BeginCancelFacts DEF PendingInv
<1>3. CASE Submit
  <2>1. pending.kind = "order" => ledger[pending.cloid] = "prepared"
    BY <1>3, SubmitFacts DEF IInv, SendInv, Sending
  <2> QED BY <1>3, <2>1, SubmitFacts DEF IInv, PendingInv, exch
<1>4. CASE Releasing
  BY <1>4, ReleasingFacts DEF PendingInv
<1>5. CASE Resetting \/ Moving \/ Clearing \/ WritePointer
  <2>1. UNCHANGED <<pending, archived, posted, ledger, xstat>>
    BY <1>5, ResettingFrame, MovingFrame, ClearingFrame, WritePointerFacts DEF disk, exch
  <2> QED BY <2>1 DEF IInv, PendingInv
<1>6. CASE SyncOrders \/ Compact \/ ArchiveInterrupted
  BY <1>6, SyncFacts, CompactFacts, InterruptedFacts DEF PendingInv
<1>7. CASE Exchange
  <2>1. UNCHANGED <<pending, archived, posted, ledger>>
    BY <1>7, ExchangeFrame DEF disk
  <2>2. \A d \in Cloids : Ordering(d) /\ ledger[d] = "absent" => xstat'[d] = "none"
    BY <1>7, OnlyTheLiveMove, OrderingUnposted
  <2>3. pending # Null => pending.cloid \in Cloids
    BY DEF IInv, TypeOK, Pending
  <2> QED BY <2>1, <2>2, <2>3 DEF IInv, PendingInv, Ordering
<1>8. CASE Post
  BY <1>8, PostFacts DEF IInv, PendingInv, disk
<1>9. CASE Acknowledge
  <2>1. pending.kind = "order" =>
          pending.dispatch = "submitting" /\ ledger'[pending.cloid] = AckStatus
    BY <1>9, AcknowledgeFacts DEF IInv, TypeOK, SendInv, Sending, Pending
  <2> QED BY <1>9, <2>1, AcknowledgeFacts DEF IInv, PendingInv, Final
<1>10. CASE JournalOrder
  BY <1>10, JournalFacts DEF IInv, PendingInv, JournalOrder, exch
<1>11. CASE ReconcileOrder
  BY <1>11, ReconcileOrderFacts DEF IInv, PendingInv, exch
<1>12. CASE MarkUnsent
  BY <1>12, MarkUnsentFacts DEF IInv, PendingInv, exch, Ordering, Pending
<1>13. CASE Resolving
  <2>1. UNCHANGED <<pending, archived, posted, xstat>>
    BY <1>13, ResolvingFacts DEF exch
  <2> SUFFICES ASSUME pending # Null, pending.kind = "order"
               PROVE  LET c == pending.cloid IN
                      /\ ledger'[c] = ledger[c] \/ c \in posted
                      /\ ledger'[c] \in {ledger[c], "open"} \cup Final
    BY <2>1 DEF IInv, PendingInv, Final
  <2>2. pending.cloid \in Cloids
    BY DEF IInv, TypeOK, Pending
  <2>3. \A c \in Cloids : /\ ledger'[c] = ledger[c] \/ c \in posted
                          /\ ledger'[c] \in {ledger[c], "open"} \cup Final
    BY <1>13, ResolvingFacts DEF IInv, TypeOK
  <2> QED BY <2>2, <2>3
<1> QED BY <1>1, <1>2, <1>3, <1>4, <1>5, <1>6, <1>7, <1>8, <1>9, <1>10, <1>11, <1>12, <1>13,
           Steps

\* orders.json, order_archive and hedge_order.json stay truthful and complete.
LEMMA LedgerPreserved == ASSUME IInv, Next PROVE LedgerInv'
<1> DEFINE Entry(c) ==
        /\ ledger[c] \in Final => xstat[c] = ledger[c]
        /\ ledger[c] \in {"open", "filled", "canceled"} => oid[c]
        /\ ledger[c] = "not_submitted" => c \notin posted
        /\ c \in archived => ledger[c] \in Terminal \cup {"absent"}
        /\ c \in posted => c \in archived \/ ledger[c] # "absent" \/ Unimported(c)
        /\ pointer = c => /\ c \notin archived
                          /\ ledger[c] # "absent" \/ Ordering(c) \/ Unimported(c)
<1> SUFFICES ASSUME NEW c \in Cloids PROVE Entry(c)'
  BY DEF LedgerInv
<1>0. Entry(c)
  BY DEF IInv, LedgerInv
<1>1. Unimported(c) => Unimported(c)' \/ ledger'[c] = "legacy"
  BY UnimportedStays
<1>2. CASE Resetting \/ Moving
  <2>1. UNCHANGED <<pending, ledger, oid, archived, pointer, posted, xstat>>
    BY <1>2, ResettingFrame, MovingFrame DEF disk, exch
  <2> QED BY <1>0, <1>1, <2>1 DEF Ordering
<1>3. CASE Exchange
  <2>1. UNCHANGED <<pending, ledger, oid, archived, pointer, posted>>
    BY <1>3, ExchangeFrame DEF disk
  <2>2. ledger[c] \in Final => xstat'[c] = xstat[c]
    BY <1>0, <1>3, VerdictEndsLife, OnlyTheLiveMove
  <2> QED BY <1>0, <1>1, <2>1, <2>2 DEF Ordering
<1>4. CASE Clearing
  <2>1. pointer' # c /\ UNCHANGED <<pending, ledger, oid, archived, posted, xstat>>
    BY <1>4, ClearingFrame, NullAssumption DEF exch
  <2> QED BY <1>0, <1>1, <2>1 DEF Ordering
<1>5. CASE Releasing
  <2>1. UNCHANGED <<ledger, oid, archived, pointer, posted, xstat>>
    BY <1>5, ReleasingFacts DEF exch
  <2>2. Ordering(c) => ledger[c] # "absent"
    BY <1>5, ReleasingFacts DEF Terminal, Final
  <2> QED BY <1>0, <1>1, <2>1, <2>2
<1>6. CASE BeginCancel \/ BeginOrder \/ Submit
  <2>1. UNCHANGED <<ledger, oid, archived, pointer, posted, xstat>>
    BY <1>6 DEF BeginCancel, BeginOrder, Submit, exch
  <2>2. Ordering(c) => Ordering(c)'
    BY <1>6, SubmitFacts, NullAssumption DEF Ordering, BeginCancel, BeginOrder
  <2> QED BY <1>0, <1>1, <2>1, <2>2
<1>7. CASE WritePointer
  <2>1. UNCHANGED <<pending, ledger, oid, archived, posted, xstat>>
    BY <1>7, WritePointerFacts DEF exch
  <2>2. pointer' = c => Ordering(c)' /\ c \notin archived
    BY <1>7, WritePointerFacts DEF Ordering, IInv, PendingInv
  <2> QED BY <1>0, <1>1, <2>1, <2>2
<1>8. CASE Post
  <2>1. UNCHANGED <<pending, ledger, oid, archived, pointer, xstat>>
    BY <1>8, PostFacts DEF disk
  <2>2. c \in posted' => c \in posted \/ ledger[c] = "prepared"
    BY <1>8, PostFacts
  <2> QED BY <1>0, <1>1, <2>1, <2>2 DEF Ordering
<1>9. CASE SyncOrders
  <2>1. UNCHANGED <<pending, oid, archived, pointer, posted, xstat>>
    BY <1>9, SyncFacts DEF exch
  <2>2. ledger'[c] = IF Unimported(c) THEN "legacy" ELSE ledger[c]
    BY <1>9, SyncFacts
  <2>3. Unimported(c) => ledger[c] = "absent" /\ c \in posted /\ c \notin archived
    BY <1>0 DEF Unimported
  <2> QED BY <1>0, <2>1, <2>2, <2>3 DEF Ordering, Final, Terminal
<1>10. CASE ReconcileOrder \/ JournalOrder
  <2>1. /\ UNCHANGED <<pending, oid, archived, pointer, posted, xstat>>
        /\ \/ ledger'[c] = ledger[c]
           \/ Ordering(c) /\ ledger[c] = "absent" /\ ledger'[c] = "prepared"
    <3>1. UNCHANGED <<pending, oid, archived, pointer, posted, xstat>>
      BY <1>10 DEF ReconcileOrder, JournalOrder, exch
    <3>2. /\ pending # Null /\ pending.kind = "order"
          /\ ledger'[c] = IF c = pending.cloid /\ ledger[c] = "absent"
                          THEN "prepared" ELSE ledger[c]
      <4>1. CASE ReconcileOrder
        BY <4>1, ReconcileOrderFacts
      <4>2. CASE JournalOrder
        BY <4>2, JournalFacts DEF JournalOrder, Prepared, IInv, TypeOK
      <4> QED BY <1>10, <4>1, <4>2
    <3> QED BY <3>1, <3>2 DEF Ordering
  <2>2. Ordering(c) => c \notin archived
    BY DEF Ordering, IInv, PendingInv
  <2> QED BY <1>0, <1>1, <2>1, <2>2 DEF Ordering, Final, Terminal
<1>11. CASE MarkUnsent
  <2>1. /\ UNCHANGED <<pending, oid, archived, pointer, posted, xstat>>
        /\ ledger'[c] = IF Ordering(c) THEN "not_submitted" ELSE ledger[c]
        /\ Ordering(c) => c \notin posted
    BY <1>11, MarkUnsentFacts DEF exch, Ordering
  <2>2. Ordering(c) => c \notin archived
    BY DEF Ordering, IInv, PendingInv
  <2> QED BY <1>0, <1>1, <2>1, <2>2 DEF Ordering, Final, Terminal
<1>12. CASE Acknowledge
  <2>1. /\ UNCHANGED <<pending, archived, pointer, posted, xstat>>
        /\ ~Ordering(c) => ledger'[c] = ledger[c] /\ oid'[c] = oid[c]
    BY <1>12, AcknowledgeFacts DEF Ordering, IInv, TypeOK, Pending
  <2>2. Ordering(c) =>
          /\ ledger[c] = "prepared" /\ ledger'[c] = AckStatus /\ oid'[c] = (reply # "error")
          /\ \/ AckStatus = "open" /\ reply = "resting"
             \/ AckStatus = "filled" /\ reply = "filled" /\ xstat[c] = "filled"
             \/ AckStatus = "rejected" /\ reply = "error" /\ xstat[c] = "rejected"
    BY <1>12, AcknowledgeFacts DEF Ordering, IInv, TypeOK
  <2> QED BY <1>0, <1>1, <2>1, <2>2 DEF Ordering, Final, Terminal
<1>13. CASE Resolving
  <2>1. /\ UNCHANGED <<pending, archived, pointer, posted, xstat>>
        /\ \/ ledger'[c] = ledger[c] /\ oid'[c] = oid[c]
           \/ /\ ledger[c] \in Unresolved /\ ledger'[c] \in Final \cup {"open"} /\ oid'[c]
              /\ ledger'[c] \in Final => xstat[c] = ledger'[c]
    BY <1>13, ResolvingFacts DEF exch, IInv, TypeOK
  <2> QED BY <1>0, <1>1, <2>1 DEF Ordering, Final, Terminal, Unresolved
<1>14. CASE Compact
  <2>1. pending = Null /\ pending' = Null /\ UNCHANGED <<pointer, posted, xstat>>
    BY <1>14, CompactFacts DEF Compact, exch
  <2>2. PICK old \in SUBSET Compactable :
           /\ archived' = archived \cup old
           /\ ledger' = [d \in Cloids |-> IF d \in old THEN "absent" ELSE ledger[d]]
           /\ oid' = [d \in Cloids |-> oid[d] /\ d \notin old]
    BY <1>14, <2>1 DEF Compact
  <2>3. CASE c \in old
    BY <1>0, <2>1, <2>2, <2>3 DEF Compactable, Final
  <2>4. CASE c \notin old
    <3>1. ledger'[c] = ledger[c] /\ oid'[c] = oid[c] /\ (c \in archived' <=> c \in archived)
      BY <2>2, <2>4 DEF IInv, TypeOK
    <3> QED BY <1>0, <1>1, <2>1, <3>1 DEF Ordering
  <2> QED BY <2>3, <2>4
<1>15. CASE ArchiveInterrupted
  <2>1. UNCHANGED <<pending, ledger, oid, pointer, posted, xstat>> /\ pc = "compact"
    BY <1>15, InterruptedFacts DEF exch
  <2>2. c \in archived' => c \in archived \/ (ledger[c] \in Terminal /\ c # pointer)
    BY <1>15, InterruptedFacts
  <2>3. c \in archived => c \in archived'
    BY <1>15, InterruptedFacts
  <2> QED BY <1>0, <1>1, <2>1, <2>2, <2>3 DEF Ordering
<1> QED BY <1>2, <1>3, <1>4, <1>5, <1>6, <1>7, <1>8, <1>9, <1>10, <1>11, <1>12, <1>13,
           <1>14, <1>15, Steps

\* A POST of a fresh order tells the exchange something new.
LEMMA IndexPost == ASSUME IInv, Post PROVE IndexInv'
<1>1. /\ pending \in Pending /\ pending # Null
      /\ wire' = wire \cup {Req(pending.kind, pending.cloid)}
      /\ posted' = IF pending.kind = "order" THEN posted \cup {pending.cloid} ELSE posted
      /\ UNCHANGED <<xstat, index, listed>>
  BY DEF IInv, TypeOK, StepInv, Sending, Post
<1>2. IndexInv
  BY DEF IInv
<1>3. CASE pending.kind = "order"
  <2>1. pending.cloid \in Cloids /\ pending.cloid \notin posted
    BY <1>1, <1>3 DEF IInv, SendInv, Sending, Post, Pending
  <2>2. xstat[pending.cloid] = "none"
    BY <1>2, <2>1 DEF IndexInv
  <2> QED BY <1>1, <1>2, <1>3, <2>1, <2>2 DEF IndexInv, Req
<1>4. CASE pending.kind = "cancel"
  BY <1>1, <1>2, <1>4 DEF IndexInv, Req
<1> QED BY <1>1, <1>3, <1>4 DEF Pending

\* The exchange's own steps keep the read indexes in the order's past.
LEMMA IndexExchange ==
    ASSUME IInv, Exchange
    PROVE IndexInv'
<1> USE DEF IInv, TypeOK
<1> SUFFICES ASSUME NEW c \in Cloids,
                 \/ OrderRests(c) \/ OrderTakes(c) \/ OrderRejected(c) \/ CancelArrives(c) \/ Trade(c) \/ ExchangeCancels(c) \/ CancelRefused(c)
                 \/ Lose(Req("order", c)) \/ Lose(Req("cancel", c))
                 \/ IndexAdvances(c) \/ ListAdvances(c)
             PROVE IndexInv'
  BY DEF Exchange, Arrival
<1>1. CASE OrderRests(c)
  BY <1>1 DEF OrderRests, IndexInv, Answer, Req, Final
<1>2. CASE OrderTakes(c)
  BY <1>2 DEF OrderTakes, IndexInv, Answer, Req, Final
<1>3. CASE OrderRejected(c)
  BY <1>3 DEF OrderRejected, IndexInv, Answer, Req, Final
<1>4. CASE CancelArrives(c)
  BY <1>4 DEF CancelArrives, IndexInv, Answer, Req, Final
<1>5. CASE Trade(c)
  BY <1>5 DEF Trade, IndexInv, Final
<1>6. CASE ExchangeCancels(c)
  BY <1>6 DEF ExchangeCancels, IndexInv, Final
<1>7. CASE CancelRefused(c) \/ Lose(Req("order", c)) \/ Lose(Req("cancel", c))
  <2>1. wire' \subseteq wire /\ UNCHANGED <<xstat, posted, index, listed>>
    BY <1>7 DEF CancelRefused, Lose, Answer
  <2> QED BY <2>1 DEF IndexInv
<1>8. CASE IndexAdvances(c)
  BY <1>8 DEF IndexAdvances, IndexInv, Final
<1>9. CASE ListAdvances(c)
  BY <1>9 DEF ListAdvances, IndexInv, Final
<1> QED BY <1>1, <1>2, <1>3, <1>4, <1>5, <1>6, <1>7, <1>8, <1>9

\* The read indexes never show what did not happen.
LEMMA IndexPreserved == ASSUME IInv, Next PROVE IndexInv'
<1>1. CASE Exchange
  BY <1>1, IndexExchange
<1>2. CASE Post
  BY <1>2, IndexPost
<1>3. CASE BeginOrder
  BY <1>3 DEF BeginOrder, IInv, IndexInv
<1>4. CASE (Crash \/ ArchiveInterrupted \/ Process) /\ ~Post /\ ~BeginOrder
  BY <1>4, ExchUntouched DEF exch, IInv, IndexInv
<1> QED BY <1>1, <1>2, <1>3, <1>4 DEF Next

--------------------------------------------------------------------------------
\* The process.

\* What each step of the process may assume of the files holds when it is reached.
LEMMA StepPreserved == ASSUME IInv, Next PROVE StepInv'
<1> USE DEF Quiet, Syncing, Cancelling, Sending
<1>1. CASE BeginOrder
  BY <1>1, BeginFacts DEF StepInv
<1>2. CASE ~BeginOrder
  <2>0. \A d \in Cloids : Suspect(d)' => Suspect(d)
    BY <1>2, NoNewSuspects
  <2>1. CASE BeginCancel \/ Submit
    BY <2>1, BeginCancelFacts, SubmitFacts, NullAssumption DEF StepInv
  <2>2. CASE Resetting
    BY <2>2, ResettingFrame DEF StepInv
  <2>3. CASE Exchange
    BY <2>0, <2>3, ExchangeFrame DEF IInv, StepInv, disk
  <2>4. CASE Moving
    <3>1. UNCHANGED <<pending, ledger>>
      BY <2>4, MovingFrame DEF disk
    <3>2. CASE Start \/ ReconcileNothing \/ ReconcileCancel
      BY <3>1, <3>2 DEF IInv, StepInv, Start, ReconcileNothing, ReconcileCancel, Goto
    <3>3. CASE RefreshDone
      BY <3>1, <3>3 DEF IInv, StepInv, RefreshDone, Goto
    <3>4. CASE ListOpen
      <4>1. pending = Null /\ pc' = "sweep" /\ pc = "list" /\ todo' = Rows /\ Managed(Rows)
        BY <3>4 DEF IInv, StepInv, ListOpen
      <4>2. \A d \in Cloids : Suspect(d) => d \in Rows
        BY <4>1 DEF Suspect, Ordering, Unimported, Managed
      <4> QED BY <2>0, <3>1, <4>1, <4>2 DEF StepInv
    <3>5. CASE \E c \in Cloids : Sweep(c)
      <4>1. PICK c \in Cloids : Sweep(c)
        BY <3>5
      <4>2. /\ pc = "sweep" /\ pc' = "check" /\ cur' = c /\ todo' = todo \ {c}
            /\ c # Null
        BY <4>1, NullAssumption DEF Sweep
      <4> QED BY <2>0, <3>1, <4>2 DEF IInv, StepInv
    <3>6. CASE \/ HedgePlan \/ NoSecondOrder \/ SecondOrder \/ DustDeferred \/ VerifyIoc
               \/ NextSync
      <4>1. pc \in Quiet /\ pc' \in Quiet \cup {"sync", "down"}
        BY <3>6 DEF HedgePlan, NoSecondOrder, SecondOrder, DustDeferred, VerifyIoc, NextSync,
           Goto, Reset
      <4> QED BY <2>0, <3>1, <4>1 DEF IInv, StepInv
    <3> QED BY <2>4, <3>2, <3>3, <3>4, <3>5, <3>6 DEF Moving
  <2>5. CASE Clearing
    <3>1. UNCHANGED pending /\ (pc = "sweep" => todo = {}) /\ (pc = "sweep" => pc' = "compact")
          /\ (pc = "unsent_pointer" => pc' = "finish_pending")
      BY <2>5 DEF Clearing, ClearUnsentPointer, SweepDone, ClearPointer, Settle, Goto
    <3> QED BY <2>0, <2>5, <3>1, ClearingFrame DEF IInv, StepInv
  <2>6. CASE Releasing
    <3>1. pending # Null /\ pending \in Pending /\ pending' = Null /\ UNCHANGED ledger
      BY <2>6, ReleasingFacts
    <3>2. CASE PendingCancelGone \/ FinishPending
      BY <3>1, <3>2 DEF StepInv, PendingCancelGone, FinishPending, Goto
    <3>3. CASE Finish /\ pending.kind = "cancel"
      <4>1. /\ cur = pending.cloid /\ pc' = "confirm" /\ UNCHANGED <<cur, todo>>
            /\ \A d \in Cloids : Suspect(d) => d \in todo \cup {cur}
        BY <3>1, <3>3 DEF IInv, SendInv, Finish
      <4>2. cur # Null
        BY <3>1, <4>1, NullAssumption DEF Pending
      <4> QED BY <2>0, <3>1, <4>1, <4>2 DEF StepInv
    <3>4. CASE Finish /\ pending.kind = "order"
      <4> DEFINE c == pending.cloid
      <4>1. /\ plan # Null /\ plan.cloid = c /\ plan.order = intent[c] /\ c \in Cloids
            /\ \A d \in Cloids : Suspect(d) => d = c
            /\ ledger[c] \in {"open", "filled", "rejected"}
            /\ (ledger[c] = "rejected") = (reply = "error")
            /\ ledger[c] = "open" => intent[c].tif = "Alo"
        BY <3>1, <3>4 DEF IInv, SendInv, Finish, Pending
      <4>2. pc' \in {"clear", "check", "idle", "verify_ioc"}
        BY <3>4 DEF Finish
      <4>3. \A d \in Cloids : Suspect(d)' => d = c /\ ledger[c] = "open"
        BY <2>0, <3>1, <4>1, <4>2 DEF Suspect, Ordering, Unimported, Unresolved
      <4>4. CASE pc' = "check"
        <5>1. cur' = c /\ c # Null
          BY <3>4, <4>1, <4>4, NullAssumption DEF Finish
        <5> QED BY <3>1, <4>3, <4>4, <5>1 DEF StepInv
      <4>5. CASE pc' # "check"
        <5>1. pc' \in {"clear", "idle", "verify_ioc"} /\ ledger[c] # "open"
          BY <3>4, <4>1, <4>5 DEF Finish
        <5> QED BY <3>1, <4>3, <5>1 DEF StepInv
      <4> QED BY <4>4, <4>5
    <3> QED BY <2>6, <3>1, <3>2, <3>3, <3>4 DEF Releasing, Pending
  <2>7. CASE Resolving
    <3>1. UNCHANGED pending
      BY <2>7, ResolvingFacts
    <3>2. CASE ResolvePending
      BY <3>2 DEF StepInv, ResolvePending, Goto
    <3>3. CASE \E c \in Cloids : Refresh(c)
      <4>1. /\ pc = "refresh" /\ pc' = "refresh" /\ pending = Null
        BY <3>3 DEF IInv, StepInv, Refresh
      <4>2. PICK c \in Cloids : /\ todo' = todo \ {c}
                                /\ \/ ledger[c] \in Terminal /\ UNCHANGED ledger
                                   \/ \E s \in Final \cup {"open"} :
                                         ledger' = [ledger EXCEPT ![c] = s]
        BY <2>7, <4>1, ResolvingFacts
      <4>3. \A d \in Cloids : ledger'[d] \in {"prepared", "legacy"} =>
                                 ledger[d] = ledger'[d] /\ d # c
        BY <4>2 DEF IInv, TypeOK, Terminal, Final
      <4> QED BY <3>1, <4>1, <4>2, <4>3 DEF IInv, StepInv
    <3>4. CASE CheckOpen \/ ConfirmCancel
      <4>1. pc \in {"check", "confirm"} /\ pending = Null /\ pending' = Null /\ cur # Null
            /\ cur \in Cloids /\ todo' = todo
            /\ \A d \in Cloids : Suspect(d) => d \in todo \cup {cur}
        BY <3>1, <3>4 DEF IInv, TypeOK, StepInv, CheckOpen, ConfirmCancel, Goto, CancelReturn
      <4>2. PICK s \in Final \cup {"open", "not_submitted"} :
               /\ Resolved(cur, s)
               /\ \/ s = "open" /\ Goto("cancel")
                  \/ s \in Terminal /\ CancelReturn
        BY <3>4 DEF CheckOpen, ConfirmCancel, Terminal, Final
      <4>3. CASE s = "open"
        BY <2>0, <4>1, <4>2, <4>3 DEF StepInv, Goto, Terminal, Final
      <4>4. CASE s # "open"
        <5>1. s \in Terminal /\ CancelReturn
          BY <4>2, <4>4
        <5>2. PICK c \in Cloids : c = cur /\ ledger'[c] \in Terminal
          BY <4>1, <4>2, <5>1 DEF Resolved, IInv, TypeOK
        <5>3. ~Suspect(c)'
          BY <4>1, <5>2 DEF Suspect, Ordering, Unimported, Unresolved, Terminal, Final
        <5>4. plan # Null => todo = {}
          BY DEF IInv, MemoryInv
        <5> QED BY <2>0, <4>1, <5>1, <5>2, <5>3, <5>4 DEF StepInv, CancelReturn
      <4> QED BY <4>3, <4>4
    <3> QED BY <2>7, <3>2, <3>3, <3>4 DEF Resolving
  <2>8. CASE ReconcileOrder \/ MarkUnsent
    BY <2>8, ReconcileOrderFacts, MarkUnsentFacts DEF StepInv
  <2>9. CASE SyncOrders
    BY <2>9, SyncFacts DEF StepInv, Unresolved
  <2>10. CASE Compact \/ ArchiveInterrupted
    BY <2>10, CompactFacts, InterruptedFacts DEF StepInv
  <2>11. CASE JournalOrder \/ WritePointer
    <3>1. pending' # Null /\ pc' \in {"submit", "journal"}
      BY <2>11, JournalFacts, WritePointerFacts DEF JournalOrder
    <3> QED BY <3>1 DEF StepInv
  <2>12. CASE Acknowledge \/ Post
    <3>1. pending' # Null /\ pc' \in {"await", "finish"}
      BY <2>12, AcknowledgeFacts, PostFacts DEF disk
    <3> QED BY <3>1 DEF StepInv
  <2> QED BY <1>2, <2>1, <2>2, <2>3, <2>4, <2>5, <2>6, <2>7, <2>8, <2>9, <2>10, <2>11, <2>12,
             Steps
<1> QED BY <1>1, <1>2

\* Only compaction removes a ledger entry.
LEMMA EntryStays ==
    ASSUME IInv, Next, ~Compact, NEW c \in Cloids, ledger[c] # "absent"
    PROVE  ledger'[c] # "absent"
<1>1. CASE \/ Resetting \/ Moving \/ Clearing \/ Releasing \/ Exchange
           \/ ArchiveInterrupted
  BY <1>1, ResettingFrame, MovingFrame, ClearingFrame, ReleasingFacts, ExchangeFrame,
     InterruptedFacts DEF disk
<1>2. CASE BeginCancel \/ BeginOrder \/ Submit \/ WritePointer \/ Post
  BY <1>2, BeginCancelFacts, BeginFacts, SubmitFacts, WritePointerFacts, PostFacts DEF disk
<1>3. CASE ReconcileOrder \/ MarkUnsent \/ SyncOrders
  BY <1>3, ReconcileOrderFacts, MarkUnsentFacts, SyncFacts
<1>4. CASE Resolving
  BY <1>4, ResolvingFacts DEF IInv, TypeOK, Final
<1>5. CASE JournalOrder
  BY <1>5 DEF JournalOrder, Prepared, IInv, TypeOK
<1>6. CASE Acknowledge
  BY <1>6, AcknowledgeFacts DEF IInv, TypeOK, Pending
<1> QED BY <1>1, <1>2, <1>3, <1>4, <1>5, <1>6, Steps

\* What the process remembers stays in step with where it is.
LEMMA MemoryPreserved == ASSUME IInv, Next PROVE MemoryInv'
<1> USE DEF Quiet, Syncing, Cancelling, Sending, Recovering
<1>0. cur # Null => cur \in Cloids
  BY DEF IInv, TypeOK
<1>1. CASE Compact
  <2>1. pc = "compact" /\ pc' = "idle" /\ UNCHANGED <<cur, todo, plan, reply>>
    BY <1>1 DEF Compact, Goto
  <2> QED BY <2>1 DEF IInv, MemoryInv
<1>2. CASE ~Compact
  <2>0. \A c \in Cloids : ledger[c] # "absent" => ledger'[c] # "absent"
    BY <1>2, EntryStays
  <2>1. CASE Resetting \/ ArchiveInterrupted
    BY <2>1, ResettingFrame, InterruptedFacts DEF MemoryInv
  <2>2. CASE Exchange
    <3>1. UNCHANGED <<ledger, pc, cur, todo, plan>>
      BY <2>2, ExchangeFrame DEF disk
    <3>2. reply' = reply \/ pc = "await"
      BY <2>2 DEF Exchange, Arrival, OrderRests, OrderTakes, OrderRejected, CancelArrives,
         Trade, ExchangeCancels, CancelRefused, Lose, IndexAdvances, ListAdvances, Answer,
         Awaited, proc
    <3> QED BY <3>1, <3>2 DEF IInv, MemoryInv
  <2>3. CASE Moving
    <3>1. UNCHANGED ledger
      BY <2>3, MovingFrame DEF disk
    <3>2. CASE HedgePlan \/ SecondOrder
      BY <3>1, <3>2, PlanFacts DEF IInv, MemoryInv
    <3>3. CASE Start \/ ReconcileNothing \/ ReconcileCancel \/ RefreshDone
      BY <3>1, <3>3 DEF IInv, MemoryInv, Start, ReconcileNothing, ReconcileCancel, RefreshDone,
         Goto
    <3>4. CASE ListOpen
      <4>1. \A c \in Rows : ledger[c] # "absent"
        BY <3>4 DEF ListOpen, Managed, Unresolved
      <4> QED BY <3>1, <3>4, <4>1 DEF IInv, MemoryInv, ListOpen
    <3>5. CASE \E c \in Cloids : Sweep(c)
      BY <3>1, <3>5 DEF IInv, MemoryInv, Sweep
    <3>6. CASE NoSecondOrder \/ DustDeferred \/ VerifyIoc \/ NextSync
      BY <3>1, <3>6 DEF IInv, MemoryInv, NoSecondOrder, DustDeferred, VerifyIoc, NextSync,
         Goto, Reset
    <3> QED BY <2>3, <3>2, <3>3, <3>4, <3>5, <3>6 DEF Moving
  <2>4. CASE Clearing
    <3>1. UNCHANGED ledger
      BY <2>4, ClearingFrame
    <3> QED BY <2>4, <3>1 DEF IInv, MemoryInv, Clearing, ClearUnsentPointer, SweepDone,
            ClearPointer, Settle, Goto
  <2>5. CASE Releasing
    <3>1. UNCHANGED ledger
      BY <2>5, ReleasingFacts
    <3>2. CASE PendingCancelGone \/ FinishPending
      BY <3>1, <3>2 DEF IInv, MemoryInv, PendingCancelGone, FinishPending, Goto
    <3>3. CASE Finish
      <4>1. /\ pc = "finish" /\ todo' = todo /\ reply' = Null
            /\ pc' \in {"confirm", "clear", "check", "idle", "verify_ioc"}
            /\ pending # Null /\ pending \in Pending
        BY <3>3, ReleasingFacts DEF Finish, Releasing
      <4>2. CASE pending.kind = "cancel"
        BY <3>1, <3>3, <4>1, <4>2 DEF IInv, MemoryInv, Finish
      <4>3. CASE pending.kind = "order"
        <5>1. /\ plan # Null /\ cur = Null /\ plan.cloid = pending.cloid
              /\ ledger[plan.cloid] # "absent" /\ todo = {}
          BY <4>1, <4>3 DEF IInv, SendInv, MemoryInv
        <5>2. (cur' = plan.cloid /\ pc' = "check") \/ cur' = cur
          BY <3>3, <4>3 DEF Finish
        <5>3. IF pc' = "idle" THEN plan' = Null ELSE plan' = plan
          BY <3>3, <4>3 DEF Finish
        <5> QED BY <3>1, <4>1, <5>1, <5>2, <5>3 DEF MemoryInv
      <4> QED BY <4>1, <4>2, <4>3 DEF Pending
    <3> QED BY <2>5, <3>2, <3>3 DEF Releasing
  <2>6. CASE Resolving
    BY <1>0, <2>0, <2>6 DEF IInv, MemoryInv, TypeOK, Resolving, ResolvePending, Refresh, CheckOpen,
       ConfirmCancel, CancelReturn, Goto
  <2>7. CASE ReconcileOrder \/ MarkUnsent \/ JournalOrder \/ Acknowledge
    BY <1>0, <2>0, <2>7 DEF IInv, MemoryInv, TypeOK, ReconcileOrder, MarkUnsent, JournalOrder,
       Acknowledge, Goto
  <2>8. CASE SyncOrders
    BY <1>0, <2>0, <2>8 DEF IInv, MemoryInv, TypeOK, SyncOrders, Unresolved
  <2>9. CASE BeginCancel \/ BeginOrder \/ Submit \/ WritePointer \/ Post
    BY <1>0, <2>0, <2>9 DEF IInv, MemoryInv, TypeOK, BeginCancel, BeginOrder, Submit, WritePointer,
       Post, Goto
  <2> QED BY <1>2, <2>1, <2>2, <2>3, <2>4, <2>5, <2>6, <2>7, <2>8, <2>9, Steps
<1> QED BY <1>1, <1>2

\* The facts about the request being sent hold when it is begun,
LEMMA SendBeginOrder == ASSUME IInv, BeginOrder PROVE SendInv'
  BY BeginFacts DEF SendInv

\* when its ledger entry is written,
LEMMA SendJournalOrder == ASSUME IInv, JournalOrder PROVE SendInv'
<1>1. /\ plan.order = intent[pending.cloid]
      /\ \A d \in Cloids : Suspect(d) => d = pending.cloid
  BY JournalFacts DEF IInv, SendInv, Sending
<1>2. UNCHANGED <<plan, cur, pending, posted, intent>>
  BY DEF JournalOrder, Goto, exch
<1>3. \A d \in Cloids : Suspect(d)' => d = pending.cloid
  BY <1>1, JournalFacts
<1> QED BY <1>1, <1>2, <1>3, JournalFacts DEF SendInv

\* when it is posted,
LEMMA SendPost == ASSUME IInv, Post PROVE SendInv'
<1>1. /\ pc = "post" /\ pc' = "await" /\ pending # Null /\ pending \in Pending
      /\ UNCHANGED <<pending, ledger, plan, cur, todo, intent, xstat, pointer, archived, reply>>
  BY DEF IInv, Post, StepInv, TypeOK, Sending, Goto, disk
<1>0. reply = Null
  BY <1>1 DEF IInv, MemoryInv
<1>2. CASE pending.kind = "order"
  <2>1. /\ plan # Null /\ plan.cloid = pending.cloid
        /\ plan.order = intent[pending.cloid] /\ cur = Null
        /\ ledger[pending.cloid] = "prepared"
        /\ pending.dispatch = "submitting"
        /\ \A d \in Cloids : Suspect(d) => d = pending.cloid
    BY <1>1, <1>2 DEF IInv, SendInv, Sending
  <2>2. pending' = pending /\ plan' = plan /\ cur' = cur /\ ledger' = ledger
        /\ intent' = intent /\ reply' = reply
    BY <1>1
  <2>3. \A d \in Cloids : Suspect(d)' => d = pending.cloid
    BY <1>1, <2>1 DEF Suspect, Ordering, Unimported
  <2> QED BY <1>0, <1>1, <1>2, <2>1, <2>2, <2>3, NullAssumption DEF SendInv, Reply
<1>3. CASE pending.kind = "cancel"
  <2>1. \A d \in Cloids : Suspect(d) => d \in todo \cup {cur}
    BY <1>1, <1>3 DEF IInv, SendInv, Sending
  <2>2. \A d \in Cloids : Suspect(d)' => Suspect(d)
    BY <1>1, <1>3 DEF Suspect, Ordering, Unimported, Post
  <2>3. cur = pending.cloid
    BY <1>1, <1>3 DEF IInv, SendInv, Sending
  <2>4. /\ pending' = pending /\ plan' = plan /\ cur' = cur /\ todo' = todo
        /\ pending'.kind = "cancel" /\ pc' \notin {"pointer", "journal"}
        /\ pending'.dispatch = "submitting"
    BY <1>1, <1>3 DEF IInv, SendInv, Sending
  <2>5. \A d \in Cloids : Suspect(d)' => d \in todo' \cup {cur'}
    BY <2>1, <2>2, <2>4
  <2> QED BY <2>3, <2>4, <2>5 DEF SendInv
<1> QED BY <1>1, <1>2, <1>3 DEF Pending

\* when its answer is recorded,
LEMMA SendAcknowledge == ASSUME IInv, Acknowledge PROVE SendInv'
<1>1. /\ pc = "await" /\ pc' = "finish" /\ pending # Null /\ pending \in Pending /\ reply # Null
      /\ UNCHANGED <<pending, plan, cur, todo, intent, xstat, pointer, archived, reply, posted>>
  BY DEF IInv, Acknowledge, StepInv, TypeOK, Sending, Goto, exch
<1>2. CASE pending.kind = "order"
  <2>1. ledger'[pending.cloid] = AckStatus
    BY <1>1, <1>2 DEF Acknowledge, IInv, TypeOK, Pending
  <2>2. /\ plan # Null /\ plan.cloid = pending.cloid
        /\ plan.order = intent[pending.cloid] /\ cur = Null
        /\ reply = "resting" =>
              xstat[pending.cloid] # "none" /\ intent[pending.cloid].tif = "Alo"
        /\ reply = "filled" => xstat[pending.cloid] = "filled"
        /\ reply = "error" => xstat[pending.cloid] = "rejected"
        /\ reply # "ok"
        /\ pending.dispatch = "submitting"
        /\ \A d \in Cloids : Suspect(d) => d = pending.cloid
    BY <1>1, <1>2 DEF IInv, SendInv, Sending
  <2>3. reply \in Reply
    BY <1>1 DEF IInv, TypeOK
  <2>4. \A d \in Cloids : Suspect(d)' => d = pending.cloid
    <3> SUFFICES ASSUME NEW d \in Cloids, d # pending.cloid, Suspect(d)'
                 PROVE  Suspect(d)
      BY <2>2
    <3>1. ledger'[d] = ledger[d]
      BY <1>2 DEF Acknowledge, IInv, TypeOK
    <3> QED BY <1>1, <3>1 DEF Suspect, Ordering, Unimported
  <2> QED BY <1>1, <1>2, <2>1, <2>2, <2>3, <2>4 DEF SendInv, AckStatus, Reply
<1>3. CASE pending.kind = "cancel"
  <2>0. ledger' = ledger BY <1>3 DEF Acknowledge
  <2>1. \A d \in Cloids : Suspect(d) => d \in todo \cup {cur}
    BY <1>1, <1>3 DEF IInv, SendInv, Sending
  <2>2. \A d \in Cloids : Suspect(d)' => Suspect(d)
    BY <1>1, <1>3, <2>0 DEF Suspect, Ordering, Unimported
  <2>3. cur = pending.cloid
    BY <1>1, <1>3 DEF IInv, SendInv, Sending
  <2>4. /\ pending' = pending /\ plan' = plan /\ cur' = cur /\ todo' = todo
        /\ pending'.kind = "cancel" /\ pc' \notin {"pointer", "journal"}
        /\ pending'.dispatch = "submitting"
    BY <1>1, <1>3 DEF IInv, SendInv, Sending
  <2>5. \A d \in Cloids : Suspect(d)' => d \in todo' \cup {cur'}
    BY <2>1, <2>2, <2>4
  <2> QED BY <2>3, <2>4, <2>5 DEF SendInv
<1> QED BY <1>1, <1>2, <1>3 DEF Pending

\* when a cancel is begun,
LEMMA SendBeginCancel == ASSUME IInv, Next, BeginCancel, ~BeginOrder PROVE SendInv'
<1>1. \A d \in Cloids : Suspect(d)' => d \in todo \cup {cur}
  BY NoNewSuspects, BeginCancelFacts DEF IInv, StepInv, Cancelling
<1> QED BY <1>1, BeginCancelFacts DEF SendInv

\* when it is marked submitting,
LEMMA SendSubmit == ASSUME IInv, Next, Submit, ~BeginOrder PROVE SendInv'
<1>1. \A d \in Cloids : Suspect(d)' => Suspect(d)
  BY NoNewSuspects
<1> QED BY <1>1, SubmitFacts DEF IInv, SendInv, Sending, exch

\* when the pointer is written,
LEMMA SendWritePointer == ASSUME IInv, Next, WritePointer, ~BeginOrder PROVE SendInv'
<1>1. \A d \in Cloids : Suspect(d)' => Suspect(d)
  BY NoNewSuspects
<1> QED BY <1>1, WritePointerFacts DEF IInv, SendInv, Sending, exch

\* and whatever the exchange does meanwhile.
LEMMA SendExchange == ASSUME IInv, Next, Exchange, ~BeginOrder PROVE SendInv'
<1>1. \A d \in Cloids : Suspect(d)' => Suspect(d)
  BY NoNewSuspects
<1>2. UNCHANGED <<pending, ledger, pc, cur, todo, plan, intent, posted>>
  BY ExchangeFrame DEF disk
<1>3. ASSUME pc = "await", pending # Null, pending.kind = "order"
      PROVE  LET c == pending.cloid IN
             /\ reply' # "ok"
             /\ reply' = "resting" => xstat'[c] # "none" /\ intent[c].tif = "Alo"
             /\ reply' = "filled" => xstat'[c] = "filled"
             /\ reply' = "error" => xstat'[c] = "rejected"
  <2> DEFINE c == pending.cloid
  <2>1. /\ reply # "ok" /\ c \in Cloids
        /\ reply = "resting" => xstat[c] # "none" /\ intent[c].tif = "Alo"
        /\ reply = "filled" => xstat[c] = "filled"
        /\ reply = "error" => xstat[c] = "rejected"
    BY <1>3 DEF IInv, TypeOK, SendInv, Sending, Pending
  <2>2. PICK d \in Cloids :
          \/ Arrival(d) \/ Trade(d) \/ ExchangeCancels(d) \/ CancelRefused(d)
          \/ Lose(Req("order", d)) \/ Lose(Req("cancel", d))
          \/ IndexAdvances(d) \/ ListAdvances(d)
    BY DEF Exchange
  <2>3. CASE OrderRests(d)
    BY <1>3, <2>1, <2>3 DEF OrderRests, Answer, Awaited, Req, IInv, TypeOK
  <2>4. CASE OrderTakes(d)
    BY <1>3, <2>1, <2>4 DEF OrderTakes, Answer, Awaited, Req, IInv, TypeOK
  <2>5. CASE OrderRejected(d)
    BY <1>3, <2>1, <2>5 DEF OrderRejected, Answer, Awaited, Req, IInv, TypeOK
  <2>6. CASE CancelArrives(d) \/ CancelRefused(d)
    BY <1>3, <2>1, <2>6 DEF CancelArrives, CancelRefused, Answer, Awaited, Req, IInv, TypeOK
  <2>7. CASE Trade(d) \/ ExchangeCancels(d)
    BY <2>1, <2>7 DEF Trade, ExchangeCancels, proc, IInv, TypeOK
  <2>8. CASE \/ Lose(Req("order", d)) \/ Lose(Req("cancel", d))
             \/ IndexAdvances(d) \/ ListAdvances(d)
    BY <2>1, <2>8 DEF Lose, IndexAdvances, ListAdvances, proc
  <2> QED BY <2>2, <2>3, <2>4, <2>5, <2>6, <2>7, <2>8 DEF Arrival
<1>4. pc # "await" => reply' = reply
  BY DEF Exchange, Arrival, OrderRests, OrderTakes, OrderRejected, CancelArrives,
     Trade, ExchangeCancels, CancelRefused, Lose, IndexAdvances, ListAdvances, Answer,
     Awaited, proc
<1> QED BY <1>1, <1>2, <1>3, <1>4 DEF IInv, SendInv, Sending

\* The request being sent stays the one pending.json and the plan describe.
LEMMA SendPreserved == ASSUME IInv, Next PROVE SendInv'
<1>1. CASE BeginOrder
  BY <1>1, SendBeginOrder
<1>2. CASE JournalOrder \/ Post \/ Acknowledge
  BY <1>2, SendJournalOrder, SendPost, SendAcknowledge
<1>3. CASE (BeginCancel \/ Submit \/ WritePointer \/ Exchange) /\ ~BeginOrder
  BY <1>3, SendBeginCancel, SendSubmit, SendWritePointer, SendExchange
<1>4. CASE \/ Resetting \/ Moving \/ Clearing \/ Releasing \/ Resolving
           \/ ReconcileOrder \/ MarkUnsent \/ SyncOrders \/ Compact \/ ArchiveInterrupted
  <2>1. CASE Resetting \/ Clearing \/ Releasing \/ SyncOrders \/ Compact \/ ArchiveInterrupted
    BY <2>1, ResettingFrame, ClearingFrame, ReleasingFacts, SyncFacts, CompactFacts,
       InterruptedFacts
       DEF SendInv, Sending
  <2>2. CASE Resolving \/ ReconcileOrder \/ MarkUnsent
    BY <2>2 DEF SendInv, Sending, Resolving, ResolvePending, Refresh, CheckOpen, ConfirmCancel,
       CancelReturn, ReconcileOrder, MarkUnsent, Goto
  <2>3. CASE Moving
    BY <2>3 DEF SendInv, Sending, Moving, Start, ReconcileNothing, ReconcileCancel, RefreshDone,
       ListOpen, Sweep, HedgePlan, NoSecondOrder, SecondOrder, DustDeferred, VerifyIoc,
       NextSync, Goto, Reset
  <2> QED BY <1>4, <2>1, <2>2, <2>3
<1> QED BY <1>1, <1>2, <1>3, <1>4, Steps

\* reconcile's steps keep working on the pending record they started from.
LEMMA ReconcilePreserved == ASSUME IInv, Next PROVE ReconcileInv'
<1>1. CASE ReconcileOrder
  BY <1>1, ReconcileOrderFacts DEF ReconcileInv, Pending
<1>2. CASE ReconcileCancel
  BY <1>2 DEF IInv, TypeOK, ReconcileInv, ReconcileCancel, Goto, disk, Pending
<1>3. CASE MarkUnsent
  BY <1>3, MarkUnsentFacts DEF ReconcileInv, Terminal, Ordering, Pending
<1>4. CASE ClearUnsentPointer
  BY <1>4 DEF IInv, ReconcileInv, ClearUnsentPointer, Goto
<1>5. CASE ResolvePending
  <2>1. /\ pending # Null /\ pending \in Pending /\ pending.kind = "order"
        /\ pending' = pending /\ pc = "resolve_pending" /\ pc' = "finish_pending"
    BY <1>5 DEF IInv, TypeOK, ReconcileInv, ResolvePending, Goto
  <2>2. ledger'[pending.cloid] \in Terminal \cup {"open"}
    BY <1>5, <2>1, ResolvingFacts DEF Resolving, IInv, TypeOK, Terminal, Pending
  <2> QED BY <2>1, <2>2 DEF ReconcileInv
<1>6. CASE Exchange
  BY <1>6, ExchangeFrame DEF IInv, ReconcileInv, disk
<1>7. CASE Resetting \/ Releasing \/ SyncOrders \/ Compact \/ ArchiveInterrupted
  BY <1>7, ResettingFrame, ReleasingFacts, SyncFacts, CompactFacts, InterruptedFacts
     DEF ReconcileInv
<1>8. CASE \/ Moving /\ ~ReconcileCancel
           \/ Clearing /\ ~ClearUnsentPointer
           \/ Resolving /\ ~ResolvePending
  BY <1>8 DEF ReconcileInv, Moving, Start, ReconcileNothing, RefreshDone, ListOpen, Sweep,
     HedgePlan, NoSecondOrder, SecondOrder, DustDeferred, VerifyIoc, NextSync, Goto, Reset,
     Clearing, SweepDone, ClearPointer, Settle, Resolving, Refresh, CheckOpen, ConfirmCancel,
     CancelReturn
<1>9. CASE \/ JournalOrder \/ Acknowledge \/ BeginCancel \/ BeginOrder \/ Submit
           \/ WritePointer \/ Post
  BY <1>9 DEF ReconcileInv, JournalOrder, Acknowledge, BeginCancel, BeginOrder, Submit,
     WritePointer, Post, Goto
<1> QED BY <1>1, <1>2, <1>3, <1>4, <1>5, <1>6, <1>7, <1>8, <1>9, Steps

--------------------------------------------------------------------------------
\* Types.

DiskType ==
    /\ pending \in Pending \cup {Null}
    /\ ledger \in [Cloids -> Unresolved \cup Terminal \cup {"absent"}]
    /\ oid \in [Cloids -> BOOLEAN]
    /\ archived \subseteq Cloids
    /\ pointer \in Cloids \cup {Null}
ProcType ==
    /\ pc \in Step
    /\ recover \in BOOLEAN
    /\ cur \in Cloids \cup {Null}
    /\ todo \subseteq Cloids
    /\ plan \in Plan \cup {Null}
    /\ reply \in Reply \cup {Null}
ExchType ==
    /\ xstat \in [Cloids -> Final \cup {"none", "open"}]
    /\ left \in [Cloids -> Nat]
    /\ intent \in [Cloids -> Intent]
    /\ posted \subseteq Cloids
    /\ wire \subseteq Request
    /\ index \in [Cloids -> Final \cup {"none", "open"}]
    /\ listed \in [Cloids -> {"before", "open", "after"}]
    /\ short \in Nat

\* The files keep their types.
LEMMA DiskTyped == ASSUME IInv, Next PROVE DiskType'
<1>0. DiskType
  BY DEF IInv, TypeOK, DiskType
<1>1. CASE Resetting \/ Moving \/ Exchange \/ Post
  BY <1>0, <1>1, ResettingFrame, MovingFrame, ExchangeFrame, PostFacts DEF disk, DiskType
<1>2. CASE Clearing \/ Releasing
  BY <1>0, <1>2, ClearingFrame, ReleasingFacts DEF DiskType
<1>3. CASE BeginCancel \/ Submit \/ WritePointer
  BY <1>0, <1>3, BeginCancelFacts, SubmitFacts, WritePointerFacts DEF DiskType, Pending
<1>4. CASE BeginOrder
  BY <1>0, <1>4, BeginFacts DEF DiskType, BeginOrder
<1>5. CASE Resolving
  <2>1. UNCHANGED <<pending, archived, pointer>>
    BY <1>5, ResolvingFacts
  <2>2. PICK c \in Cloids :
           \/ UNCHANGED <<ledger, oid>>
           \/ \E s \in Final \cup {"open"} : /\ ledger' = [ledger EXCEPT ![c] = s]
                                             /\ oid' = [oid EXCEPT ![c] = TRUE]
    BY <1>5, ResolvingFacts
  <2> QED BY <1>0, <2>1, <2>2 DEF DiskType, Unresolved, Terminal
<1>6. CASE ReconcileOrder \/ JournalOrder
  <2>1. UNCHANGED <<pending, oid, archived, pointer>>
    BY <1>6 DEF ReconcileOrder, JournalOrder
  <2>2. PICK c : ledger' = [ledger EXCEPT ![c] = IF @ = "absent" THEN "prepared" ELSE @]
    BY <1>6 DEF ReconcileOrder, JournalOrder, Prepared
  <2> QED BY <1>0, <2>1, <2>2 DEF DiskType, Unresolved
<1>7. CASE MarkUnsent
  <2>1. UNCHANGED <<pending, oid, archived, pointer>>
    BY <1>7 DEF MarkUnsent
  <2>2. UNCHANGED ledger \/ ledger' = [ledger EXCEPT ![pending.cloid] = "not_submitted"]
    BY <1>7 DEF MarkUnsent
  <2> QED BY <1>0, <2>1, <2>2 DEF DiskType, Terminal
<1>8. CASE SyncOrders
  BY <1>0, <1>8 DEF SyncOrders, Imported, DiskType, Unresolved
<1>9. CASE Compact
  <2>1. UNCHANGED <<pending, pointer>>
    BY <1>9 DEF Compact
  <2>2. PICK old \in SUBSET Compactable :
           /\ archived' = archived \cup old
           /\ ledger' = [c \in Cloids |-> IF c \in old THEN "absent" ELSE ledger[c]]
           /\ oid' = [c \in Cloids |-> oid[c] /\ c \notin old]
    BY <1>9, CompactFacts DEF Compact
  <2>3. archived' \subseteq Cloids
    BY <1>0, <2>2 DEF DiskType, Compactable
  <2>4. ledger' \in [Cloids -> Unresolved \cup Terminal \cup {"absent"}]
    BY <1>0, <2>2 DEF DiskType
  <2>5. oid' \in [Cloids -> BOOLEAN]
    BY <2>2
  <2> QED BY <1>0, <2>1, <2>3, <2>4, <2>5 DEF DiskType
<1>10. CASE Acknowledge
  <2>1. UNCHANGED <<pending, archived, pointer>>
    BY <1>10 DEF Acknowledge
  <2>2. AckStatus \in Terminal \cup {"open"} /\ (reply # "error") \in BOOLEAN
    BY DEF AckStatus, Terminal, Final
  <2>3. \/ UNCHANGED <<ledger, oid>>
        \/ /\ ledger' = [ledger EXCEPT ![pending.cloid] = AckStatus]
           /\ oid' = [oid EXCEPT ![pending.cloid] = reply # "error"]
    BY <1>10 DEF Acknowledge
  <2>4. ledger' \in [Cloids -> Unresolved \cup Terminal \cup {"absent"}]
    BY <1>0, <2>2, <2>3 DEF DiskType, Unresolved
  <2>5. oid' \in [Cloids -> BOOLEAN]
    BY <1>0, <2>2, <2>3 DEF DiskType
  <2> QED BY <1>0, <2>1, <2>4, <2>5 DEF DiskType
<1>11. CASE ArchiveInterrupted
  BY <1>0, <1>11, InterruptedFacts DEF DiskType
<1> QED BY <1>1, <1>2, <1>3, <1>4, <1>5, <1>6, <1>7, <1>8, <1>9, <1>10, <1>11, Steps

\* The process's memory keeps its type.
LEMMA ProcTyped == ASSUME IInv, Next PROVE ProcType'
<1>0. ProcType
  BY DEF IInv, TypeOK, ProcType
<1> USE DEF Step
<1>1. CASE Resetting \/ ArchiveInterrupted
  BY <1>1, ResettingFrame, InterruptedFacts DEF ProcType
<1>2. CASE Exchange
  <2>1. reply' \in {reply, "resting", "filled", "ok", "error"}
    BY <1>2 DEF Exchange, Arrival, OrderRests, OrderTakes, OrderRejected, CancelArrives,
       Trade, ExchangeCancels, CancelRefused, Lose, IndexAdvances, ListAdvances, Answer, proc
  <2> QED BY <1>0, <1>2, <2>1, ExchangeFrame DEF ProcType, Reply
<1>3. CASE HedgePlan \/ SecondOrder
  BY <1>0, <1>3, PlanFacts DEF ProcType
<1>4. CASE Moving /\ ~HedgePlan /\ ~SecondOrder
  BY <1>0, <1>4 DEF ProcType, Moving, Start, ReconcileNothing, ReconcileCancel, RefreshDone,
     ListOpen, Rows, Sweep, NoSecondOrder, DustDeferred, VerifyIoc, NextSync, Goto, Reset
<1>5. CASE Clearing
  BY <1>0, <1>5 DEF ProcType, Clearing, ClearUnsentPointer, SweepDone, ClearPointer, Settle,
     Goto
<1>6. CASE Releasing
  <2>1. pc' \in Step /\ UNCHANGED <<recover, todo>>
    BY <1>6, ReleasingFacts DEF Releasing, PendingCancelGone, FinishPending, Finish, Goto
  <2>2. plan' \in {plan, Null} /\ reply' \in {reply, Null}
    BY <1>6 DEF Releasing, PendingCancelGone, FinishPending, Finish, Goto
  <2>3. cur' = cur \/ (cur' = plan.cloid /\ plan # Null)
    BY <1>6, ReleasingFacts DEF Releasing, PendingCancelGone, FinishPending, Finish, Goto,
       IInv, SendInv, Sending
  <2> QED BY <1>0, <2>1, <2>2, <2>3 DEF ProcType, Plan
<1>7. CASE Resolving
  BY <1>0, <1>7 DEF ProcType, Resolving, ResolvePending, Refresh, CheckOpen, ConfirmCancel,
     CancelReturn, Goto
<1>8. CASE ReconcileOrder \/ MarkUnsent \/ SyncOrders \/ Compact \/ JournalOrder
  BY <1>0, <1>8 DEF ProcType, ReconcileOrder, MarkUnsent, SyncOrders, Compact, JournalOrder,
     Goto
<1>9. CASE Acknowledge \/ BeginCancel \/ BeginOrder \/ Submit \/ WritePointer \/ Post
  BY <1>0, <1>9 DEF ProcType, Acknowledge, BeginCancel, BeginOrder, Submit, WritePointer,
     Post, Goto
<1> QED BY <1>1, <1>2, <1>3, <1>4, <1>5, <1>6, <1>7, <1>8, <1>9, Steps

\* The exchange's state keeps its type.
LEMMA ExchTyped == ASSUME IInv, Next PROVE ExchType'
<1>0. ExchType
  BY DEF IInv, TypeOK, ExchType
<1>1. CASE (Crash \/ ArchiveInterrupted \/ Process) /\ ~Post /\ ~BeginOrder
  BY <1>0, <1>1, ExchUntouched DEF exch, ExchType
<1>2. CASE Post
  BY <1>0, <1>2, PostFacts DEF ExchType, Pending, Request, Req
<1>3. CASE BeginOrder
  <2>1. /\ UNCHANGED <<xstat, left, posted, wire, index, listed, short>>
        /\ intent' = [intent EXCEPT ![plan.cloid] = plan.order]
    BY <1>3 DEF BeginOrder
  <2>2. plan.order \in Intent
    BY <1>3, BeginFacts DEF Plan
  <2> QED BY <1>0, <2>1, <2>2 DEF ExchType
<1>4. CASE Exchange
  <2>1. PICK c \in Cloids :
          \/ Arrival(c) \/ Trade(c) \/ ExchangeCancels(c) \/ CancelRefused(c)
          \/ Lose(Req("order", c)) \/ Lose(Req("cancel", c))
          \/ IndexAdvances(c) \/ ListAdvances(c)
    BY <1>4 DEF Exchange
  <2>2. intent[c].size \in Nat
    BY <1>0 DEF ExchType, Intent
  <2>3. CASE OrderRests(c)
    BY <1>0, <2>2, <2>3 DEF ExchType, OrderRests, Answer, Final
  <2>4. CASE OrderTakes(c)
    BY <1>0, <2>2, <2>4 DEF ExchType, OrderTakes, Answer, Final
  <2>5. CASE OrderRejected(c) \/ CancelArrives(c) \/ CancelRefused(c)
    BY <1>0, <2>5 DEF ExchType, OrderRejected, CancelArrives, CancelRefused, Answer, Final
  <2>6. CASE Trade(c)
    BY <1>0, <2>6 DEF ExchType, Trade, Final
  <2>7. CASE ExchangeCancels(c)
    BY <1>0, <2>7 DEF ExchType, ExchangeCancels, Final
  <2>8. CASE Lose(Req("order", c)) \/ Lose(Req("cancel", c))
    BY <1>0, <2>8 DEF ExchType, Lose
  <2>9. CASE IndexAdvances(c)
    BY <1>0, <2>9 DEF ExchType, IndexAdvances, Final
  <2>10. CASE ListAdvances(c)
    BY <1>0, <2>10 DEF ExchType, ListAdvances
  <2> QED BY <2>1, <2>3, <2>4, <2>5, <2>6, <2>7, <2>8, <2>9, <2>10 DEF Arrival
<1> QED BY <1>1, <1>2, <1>3, <1>4 DEF Next

\* The fault count stays a number.
LEMMA FaultsTyped == ASSUME IInv, Next PROVE faults' \in Nat
<1>1. faults' \in {faults, faults + 1}
  <2>1. CASE Resetting \/ Moving \/ Clearing \/ Releasing \/ Resolving
    BY <2>1, ResettingFrame, MovingFrame, ClearingFrame, ReleasingFacts, ResolvingFacts
  <2>2. CASE ReconcileOrder \/ MarkUnsent \/ SyncOrders \/ BeginCancel \/ Submit \/ WritePointer
             \/ Post
    BY <2>2, ReconcileOrderFacts, MarkUnsentFacts, SyncFacts, BeginCancelFacts, SubmitFacts,
       WritePointerFacts, PostFacts
  <2>3. CASE Compact \/ ArchiveInterrupted \/ JournalOrder \/ Acknowledge \/ BeginOrder
    BY <2>3 DEF Compact, ArchiveInterrupted, JournalOrder, Acknowledge, BeginOrder
  <2>4. CASE Exchange
    BY <2>4 DEF Exchange, Arrival, OrderRests, OrderTakes, OrderRejected, CancelArrives,
       Trade, ExchangeCancels, CancelRefused, Lose, IndexAdvances, ListAdvances
  <2> QED BY <2>1, <2>2, <2>3, <2>4, Steps
<1> QED BY <1>1 DEF IInv, TypeOK

\* Types are kept.
LEMMA TypePreserved == ASSUME IInv, Next PROVE TypeOK'
  BY DiskTyped, ProcTyped, ExchTyped, FaultsTyped DEF TypeOK, DiskType, ProcType, ExchType

--------------------------------------------------------------------------------
\* The invariant.

\* The invariant holds of an empty state directory and of an earlier release's.
LEMMA InitEstablishes == ASSUME Init PROVE IInv
<1>1. PICK s \in {"open", "filled", "canceled"}, n \in 1..MaxShort :
          /\ xstat = [c \in Cloids |-> IF c = pointer THEN s ELSE "none"]
          /\ intent = [c \in Cloids |-> IF c = pointer
                          THEN [buy |-> FALSE, size |-> n, tif |-> "Alo",
                                target |-> short + n]
                          ELSE Nothing]
          /\ left = [c \in Cloids |-> IF c = pointer /\ s # "filled" THEN n ELSE 0]
  BY DEF Init
<1>2. n \in Nat /\ short \in Nat /\ short + n \in Nat
  BY BoundsAssumption DEF Init
<1>3. TypeOK
  <2>1. /\ xstat \in [Cloids -> Final \cup {"none", "open"}]
        /\ left \in [Cloids -> Nat]
        /\ index = xstat
    BY <1>1, <1>2 DEF Init, Final
  <2>2. [buy |-> FALSE, size |-> n, tif |-> "Alo", target |-> short + n] \in Intent
    BY <1>2 DEF Intent
  <2>3. Nothing \in Intent
    BY DEF Nothing, Intent
  <2>4. intent \in [Cloids -> Intent]
    BY <1>1, <2>2, <2>3
  <2>5. listed \in [Cloids -> {"before", "open", "after"}]
    BY DEF Init
  <2>6. /\ pending \in Pending \cup {Null} /\ pointer \in Cloids \cup {Null}
        /\ ledger \in [Cloids -> Unresolved \cup Terminal \cup {"absent"}]
        /\ oid \in [Cloids -> BOOLEAN] /\ archived \subseteq Cloids
        /\ posted \subseteq Cloids /\ wire \subseteq Request /\ faults \in Nat
    BY DEF Init
  <2>7. /\ pc \in Step /\ recover \in BOOLEAN /\ cur \in Cloids \cup {Null}
        /\ todo \subseteq Cloids /\ plan \in Plan \cup {Null} /\ reply \in Reply \cup {Null}
    BY DEF Init, Step
  <2> QED BY <1>2, <2>1, <2>4, <2>5, <2>6, <2>7 DEF TypeOK
<1>4. /\ \A c \in Cloids : ledger[c] = "absent"
      /\ pending = Null /\ pc = "down" /\ archived = {} /\ wire = {} /\ index = xstat
      /\ posted = {pointer} \ {Null}
      /\ cur = Null /\ plan = Null /\ reply = Null /\ todo = {}
  BY DEF Init
<1>5. \A c \in Cloids : c # Null
  BY NullAssumption
<1>6. \A c \in Cloids : (Suspect(c) <=> c = pointer) /\ (c = pointer <=> Unimported(c))
  BY <1>4, <1>5 DEF Suspect, Ordering, Unimported, Unresolved
<1>7. OneSuspect
  BY <1>6 DEF OneSuspect
<1>8. LiveInv
  BY <1>1, <1>4, <1>6 DEF LiveInv, Live
<1>9. IndexInv
  <2>1. \A c \in Cloids : xstat[c] = IF c = pointer THEN s ELSE "none"
    BY <1>1
  <2>2. \A c \in Cloids : /\ xstat[c] = "none" => listed[c] = "before"
                          /\ xstat[c] # "none" => c \in posted
    BY <1>4, <1>5, <2>1 DEF Init
  <2> QED BY <1>4, <2>1, <2>2 DEF IndexInv
<1>10. LedgerInv
  BY <1>4, <1>5, <1>6 DEF LedgerInv, Final
<1>11. PendingInv
  BY <1>4 DEF PendingInv
<1>12. StepInv
  BY <1>4 DEF StepInv, Quiet, Syncing, Cancelling, Sending
<1>13. MemoryInv
  BY <1>4 DEF MemoryInv, Quiet, Syncing, Cancelling, Sending
<1>14. SendInv
  BY <1>4 DEF SendInv, Sending
<1>15. ReconcileInv
  BY <1>4 DEF ReconcileInv
<1>16. SizeInv
  <2> SUFFICES ASSUME NEW c \in Cloids, c = pointer, xstat[c] \in {"none", "open"}
               PROVE  Sized(intent[c], Remaining(c))
    BY <1>4, <1>6 DEF SizeInv
  <2>1. xstat[c] = "open" /\ left[c] = n /\ Remaining(c) = n
    BY <1>1 DEF Remaining
  <2>2. intent[c].buy = FALSE /\ intent[c].target = short + n
    BY <1>1
  <2> QED BY <2>1, <2>2 DEF Sized
<1>17. ShownInv
  BY DEF ShownInv, Init
<1> QED BY <1>3, <1>7, <1>8, <1>9, <1>10, <1>11, <1>12, <1>13, <1>14, <1>15, <1>16, <1>17
         DEF IInv

\* Requests are sent by POST alone.
LEMMA OnlyPostSends == ASSUME Next, ~Post PROVE wire' \subseteq wire
<1>1. ASSUME Process PROVE wire' = wire
  BY <1>1 DEF Process, Start, ReconcileNothing, ReconcileOrder, ReconcileCancel, MarkUnsent,
     ClearUnsentPointer, ResolvePending, PendingCancelGone, FinishPending, ReconcileFails,
     SyncOrders, Refresh, RefreshDone, ListOpen, Sweep, SweepDone, SyncFails, Compact,
     CheckOpen, BeginCancel, ConfirmCancel, CancelFails, BeginOrder, IdReused, WritePointer,
     JournalOrder, Submit, Acknowledge, PostTimeout, Finish, HedgePlan, ClearPointer,
     NoSecondOrder, SecondOrder, DustDeferred, VerifyIoc, Settle, NextSync, exch
<1>2. ASSUME Exchange PROVE wire' \subseteq wire
  BY <1>2 DEF Exchange, Arrival, OrderRests, OrderTakes, OrderRejected, CancelArrives, Trade,
     ExchangeCancels, CancelRefused, Lose, Answer, IndexAdvances, ListAdvances
<1>3. ASSUME Crash \/ ArchiveInterrupted PROVE wire' = wire
  BY <1>3 DEF Crash, ArchiveInterrupted, exch
<1> QED BY <1>1, <1>2, <1>3 DEF Next

\* What an order was at the exchange is never undone.
LEMMA XstatStays ==
    ASSUME IInv, Next, NEW c \in Cloids, xstat[c] # "none"
    PROVE  xstat'[c] # "none"
<1>1. CASE Exchange
  BY <1>1 DEF IInv, TypeOK, Final, Exchange, Arrival, OrderRests, OrderTakes, OrderRejected,
     CancelArrives, Trade, ExchangeCancels, CancelRefused, Lose, IndexAdvances, ListAdvances
<1>2. CASE Post \/ BeginOrder
  BY <1>2 DEF Post, BeginOrder
<1>3. CASE (Crash \/ ArchiveInterrupted \/ Process) /\ ~Post /\ ~BeginOrder
  BY <1>3, ExchUntouched DEF exch
<1> QED BY <1>1, <1>2, <1>3 DEF Next

\* The ledger calls an order open only on the exchange's word.
LEMMA OpenWhenShown ==
    ASSUME IInv, Next, NEW c \in Cloids, ledger'[c] = "open", ledger[c] # "open"
    PROVE  xstat[c] # "none"
<1>1. CASE \/ Resetting \/ Moving \/ Clearing \/ Releasing \/ Exchange
           \/ ArchiveInterrupted
  BY <1>1, ResettingFrame, MovingFrame, ClearingFrame, ReleasingFacts, ExchangeFrame,
     InterruptedFacts DEF disk
<1>2. CASE BeginCancel \/ BeginOrder \/ Submit \/ WritePointer \/ Post
  BY <1>2, BeginCancelFacts, BeginFacts, SubmitFacts, WritePointerFacts, PostFacts DEF disk
<1>3. CASE ReconcileOrder \/ MarkUnsent \/ SyncOrders
  BY <1>3, ReconcileOrderFacts, MarkUnsentFacts, SyncFacts
<1>4. CASE Resolving
  BY <1>4, ResolvingFacts DEF IInv, TypeOK
<1>5. CASE JournalOrder
  BY <1>5 DEF JournalOrder, Prepared, IInv, TypeOK
<1>6. CASE Acknowledge
  BY <1>6, AcknowledgeFacts DEF IInv, TypeOK, Pending
<1>7. CASE Compact
  BY <1>7 DEF Compact
<1> QED BY <1>1, <1>2, <1>3, <1>4, <1>5, <1>6, <1>7, Steps

\* An order request under way keeps its place in pending.json, an order the ledger
\* calls open has arrived, and targets stay within the bound.
LEMMA ShownPreserved == ASSUME IInv, Next PROVE ShownInv'
<1>1. ASSUME NEW c \in Cloids, Req("order", c) \in wire' PROVE Ordering(c)'
  <2>1. CASE Post
    <3>1. /\ pending # Null /\ pending \in Pending /\ pending' = pending
          /\ wire' = wire \cup {Req(pending.kind, pending.cloid)}
      BY <2>1, PostFacts DEF disk
    <3>2. CASE Req("order", c) \in wire
      BY <3>1, <3>2 DEF IInv, ShownInv, Ordering
    <3>3. CASE Req("order", c) = Req(pending.kind, pending.cloid)
      BY <3>1, <3>3 DEF Req, Ordering
    <3> QED BY <1>1, <3>1, <3>2, <3>3
  <2>2. CASE ~Post
    <3>1. Req("order", c) \in wire /\ Ordering(c)
      BY <1>1, <2>2, OnlyPostSends DEF IInv, ShownInv
    <3>2. xstat[c] = "none" /\ Suspect(c)
      BY <3>1 DEF IInv, IndexInv, LiveInv, Live
    <3>3. ledger[c] \notin Terminal \cup {"open"}
      BY <3>2 DEF IInv, ShownInv, Suspect, Unimported, Unresolved, Terminal, Final
    <3>4. CASE Releasing
      BY <3>1, <3>3, <3>4, ReleasingFacts
    <3>5. CASE BeginCancel \/ BeginOrder
      BY <3>1, <3>5 DEF Ordering, BeginCancel, BeginOrder
    <3>6. CASE Submit
      BY <3>1, <3>6, SubmitFacts, NullAssumption DEF Ordering
    <3>7. CASE ~Releasing /\ ~BeginCancel /\ ~BeginOrder /\ ~Submit
      <4>1. pending' = pending
        BY <2>2, <3>7, Steps, ResettingFrame, MovingFrame, ClearingFrame, ResolvingFacts,
           ReconcileOrderFacts, MarkUnsentFacts, SyncFacts, CompactFacts, AcknowledgeFacts,
           WritePointerFacts, InterruptedFacts, ExchangeFrame DEF disk, JournalOrder
      <4> QED BY <3>1, <4>1 DEF Ordering
    <3> QED BY <3>4, <3>5, <3>6, <3>7
  <2> QED BY <2>1, <2>2
<1>2. ASSUME NEW c \in Cloids, ledger'[c] = "open" PROVE xstat'[c] # "none"
  <2>1. xstat[c] # "none"
    BY <1>2, OpenWhenShown DEF IInv, ShownInv
  <2> QED BY <2>1, XstatStays
<1>3. plan' # Null => plan'.order.target \in 0..MaxShort
  <2>1. CASE HedgePlan \/ SecondOrder
    BY <2>1, PlanFacts
  <2>2. CASE ~HedgePlan /\ ~SecondOrder /\ ~Exchange
    <3>1. plan' \in {plan, Null}
      BY <2>2 DEF Next, Process, Crash, ArchiveInterrupted, Reset, Goto, CancelReturn, Start,
         ReconcileNothing, ReconcileOrder, ReconcileCancel, MarkUnsent, ClearUnsentPointer,
         ResolvePending, PendingCancelGone, FinishPending, ReconcileFails, SyncOrders, Refresh,
         RefreshDone, ListOpen, Sweep, SweepDone, SyncFails, Compact, CheckOpen, BeginCancel,
         ConfirmCancel, CancelFails, BeginOrder, IdReused, WritePointer, JournalOrder, Submit,
         Post, Acknowledge, PostTimeout, Finish, ClearPointer, NoSecondOrder, DustDeferred,
         VerifyIoc, Settle, NextSync
    <3> QED BY <3>1 DEF IInv, ShownInv
  <2>3. CASE Exchange
    BY <2>3, ExchangeFrame DEF IInv, ShownInv
  <2> QED BY <2>1, <2>2, <2>3
<1> QED BY <1>1, <1>2, <1>3 DEF ShownInv

\* A step that changes nothing keeps the invariant.
LEMMA Stutter == ASSUME IInv, UNCHANGED vars PROVE IInv'
<1>1. UNCHANGED <<pending, ledger, oid, archived, pointer, pc, recover, cur, todo, plan,
                  reply, xstat, left, intent, posted, wire, index, listed, short, faults>>
  BY DEF vars, disk, proc, exch
<1>2. TypeOK' BY <1>1 DEF IInv, TypeOK
<1>3. \A c \in Cloids : Suspect(c)' <=> Suspect(c)
  BY <1>1 DEF Suspect, Ordering, Unimported
<1>4. OneSuspect' BY <1>3 DEF IInv, OneSuspect
<1>5. LiveInv' BY <1>1, <1>3 DEF IInv, LiveInv, Live
<1>6. IndexInv' BY <1>1 DEF IInv, IndexInv
<1>7. LedgerInv' BY <1>1 DEF IInv, LedgerInv, Ordering, Unimported
<1>8. PendingInv' BY <1>1 DEF IInv, PendingInv
<1>9. StepInv' BY <1>1, <1>3 DEF IInv, StepInv
<1>10. MemoryInv' BY <1>1 DEF IInv, MemoryInv
<1>11. SendInv' BY <1>1, <1>3 DEF IInv, SendInv
<1>12. ReconcileInv' BY <1>1 DEF IInv, ReconcileInv
<1>13. SizeInv' BY <1>1, <1>3 DEF IInv, SizeInv, Sized, Remaining
<1>14. ShownInv' BY <1>1 DEF IInv, ShownInv, Ordering
<1> QED BY <1>2, <1>4, <1>5, <1>6, <1>7, <1>8, <1>9, <1>10, <1>11, <1>12, <1>13, <1>14 DEF IInv

\* Every step keeps the invariant: one lemma per part.
LEMMA StepPreserves == ASSUME IInv, [Next]_vars PROVE IInv'
<1>1. CASE Next
  BY <1>1, TypePreserved, OneSuspectPreserved, LivePreserved, IndexPreserved,
     LedgerPreserved, PendingPreserved, StepPreserved, MemoryPreserved, SendPreserved,
     ReconcilePreserved, SizePreserved, ShownPreserved DEF IInv
<1>2. CASE UNCHANGED vars
  BY <1>2, Stutter
<1> QED BY <1>1, <1>2

--------------------------------------------------------------------------------
\* What the invariant gives.

\* A terminal or archived entry is out of doubt.
LEMMA TerminalNotSuspect ==
    ASSUME IInv, NEW c \in Cloids, ledger[c] \in Terminal \/ c \in archived
    PROVE  ~Suspect(c)
<1>1. CASE ledger[c] \in Terminal
  BY <1>1 DEF Suspect, Unimported, Unresolved, Terminal, Final
<1>2. CASE c \in archived /\ ledger[c] \notin Terminal
  <2>1. ledger[c] = "absent" /\ pointer # c
    BY <1>2 DEF IInv, LedgerInv
  <2>2. ~Ordering(c)
    BY <1>2 DEF IInv, PendingInv, Ordering
  <2> QED BY <2>1, <2>2 DEF Suspect, Unimported, Unresolved
<1> QED BY <1>1, <1>2

\* One suspect, and whatever can trade is suspect: one live order.
LEMMA OneLive == IInv => AtMostOneLiveOrder
  BY DEF IInv, LiveInv, OneSuspect, AtMostOneLiveOrder

\* Terminal entries are not suspect, so they cannot trade.
LEMMA TrueVerdicts == IInv => VerdictIsTrue
<1> SUFFICES ASSUME IInv PROVE VerdictIsTrue
  OBVIOUS
<1>1. \A c \in Cloids : ledger[c] \in Terminal \/ c \in archived => ~Live(c)
  BY TerminalNotSuspect DEF IInv, LiveInv
<1>2. \A c \in Cloids : /\ ledger[c] = "not_submitted" => c \notin posted
                        /\ ledger[c] \in Final => xstat[c] = ledger[c]
  BY DEF IInv, LedgerInv
<1> QED BY <1>1, <1>2 DEF VerdictIsTrue

\* A live order is suspect and therefore sized to its target.
LEMMA WithinTarget == IInv => NeverPastTarget
<1> SUFFICES ASSUME IInv, NEW c \in Cloids, Live(c)
             PROVE  IF intent[c].buy THEN short >= intent[c].target + Remaining(c)
                                     ELSE short + Remaining(c) <= intent[c].target
  BY DEF NeverPastTarget
<1>1. Suspect(c) /\ xstat[c] \in {"none", "open"}
  BY DEF IInv, LiveInv, IndexInv, Live
<1>2. Sized(intent[c], Remaining(c))
  BY <1>1 DEF IInv, SizeInv
<1>3. short \in Nat /\ Remaining(c) \in Nat /\ intent[c].target \in Nat
  BY DEF IInv, TypeOK, Remaining, Intent
<1> QED BY <1>2, <1>3 DEF Sized

\* When openOrders is judged every order of this program is refreshed.
LEMMA Recognised == IInv => OwnOrdersRecognised
<1> SUFFICES ASSUME IInv, pc = "list", NEW c \in Cloids, listed[c] = "open", c \notin archived
             PROVE  oid[c] /\ ledger[c] # "absent"
  BY DEF OwnOrdersRecognised, Rows
<1>1. c \in posted /\ xstat[c] # "rejected"
  BY DEF IInv, IndexInv
<1>2. ledger[c] # "absent" /\ ledger[c] # "not_submitted"
  BY <1>1 DEF IInv, LedgerInv, Unimported
<1>3. ledger[c] \notin {"prepared", "legacy", "rejected"}
  BY <1>1 DEF IInv, StepInv, LedgerInv, Final
<1>4. ledger[c] \in {"open", "filled", "canceled"}
  BY <1>2, <1>3 DEF IInv, TypeOK, Unresolved, Terminal, Final
<1> QED BY <1>2, <1>4 DEF IInv, LedgerInv

\* The idle process has no suspect, hence no live order.
LEMMA QuietWhenIdle == IInv => NothingOutstandingWhenIdle
  BY DEF IInv, StepInv, LiveInv, Quiet, NothingOutstandingWhenIdle

\* The order POST is reached with an ID that was never posted.
LEMMA SendsOnce ==
    ASSUME IInv, [Next]_vars
    PROVE  \A c \in Cloids : Req("order", c) \in wire' \ wire => c \notin posted
<1> SUFFICES ASSUME NEW c \in Cloids, Req("order", c) \in wire', Req("order", c) \notin wire
             PROVE  c \notin posted
  OBVIOUS
<1>1. Post
  BY OnlyPostSends DEF vars, exch
<1>2. pending # Null /\ pending \in Pending
  BY <1>1 DEF IInv, StepInv, Sending, TypeOK, Post
<1>3. Req("order", c) = Req(pending.kind, pending.cloid)
  BY <1>1 DEF Post
<1>4. pending.kind = "order" /\ pending.cloid = c
  BY <1>3 DEF Req
<1> QED BY <1>1, <1>2, <1>4 DEF IInv, SendInv, Sending, Post

\* pending.json is removed by store.finish alone.
LEMMA Releases ==
    ASSUME IInv, Next, pending # Null, pending' = Null
    PROVE  PendingCancelGone \/ FinishPending \/ Finish
<1>1. ASSUME Submit PROVE FALSE
  <2>1. pending \in Pending
    BY DEF IInv, TypeOK
  <2>2. pending' \in Pending
    BY <1>1, <2>1 DEF Submit, Pending
  <2> QED BY <2>2, NullAssumption
<1>2. ASSUME Process, ~PendingCancelGone, ~FinishPending, ~Finish PROVE FALSE
  BY <1>1, <1>2 DEF Process, Start, ReconcileNothing, ReconcileOrder, ReconcileCancel,
     MarkUnsent, ClearUnsentPointer, ResolvePending, ReconcileFails, SyncOrders, Refresh,
     RefreshDone, ListOpen, Sweep, SweepDone, SyncFails, Compact, CheckOpen, BeginCancel,
     ConfirmCancel, CancelFails, BeginOrder, IdReused, WritePointer, JournalOrder, Post,
     Acknowledge, PostTimeout, HedgePlan, ClearPointer, NoSecondOrder, SecondOrder,
     DustDeferred, VerifyIoc, Settle, NextSync, disk
<1>3. ASSUME Exchange \/ Crash \/ ArchiveInterrupted PROVE FALSE
  BY <1>3 DEF Crash, ArchiveInterrupted, Exchange, Arrival, OrderRests, OrderTakes, OrderRejected, CancelArrives,
     Trade, ExchangeCancels, CancelRefused, Lose, Answer, IndexAdvances, ListAdvances, disk
<1> QED BY <1>2, <1>3 DEF Next

\* store.finish is reached with the fate of the order in the ledger.
LEMMA ReleasedKnown ==
    ASSUME IInv, [Next]_vars, pending # Null, pending' = Null, pending.kind = "order"
    PROVE  oid[pending.cloid] \/ ledger[pending.cloid] \in Terminal
<1>1. pending \in Pending /\ pending.cloid \in Cloids
  BY DEF IInv, TypeOK, Pending
<1>2. FinishPending \/ Finish
  BY Releases DEF vars, disk, IInv, ReconcileInv, PendingCancelGone
<1>3. ledger[pending.cloid] \in Terminal \cup {"open"}
  BY <1>2 DEF IInv, ReconcileInv, SendInv, Sending, FinishPending, Finish, Terminal, Final
<1> QED BY <1>1, <1>3 DEF IInv, LedgerInv
--------------------------------------------------------------------------------
\* HedgeInvariant's IInv holds in every reachable state: the files, the process and
\* the exchange agree as hedge, journal and order_recovery need them to, for every
\* set of client IDs, every bound and every number of faults.
THEOREM InductiveInvariant == Spec => []IInv
<1>1. Init => IInv
  BY InitEstablishes
<1>2. IInv /\ [Next]_vars => IInv'
  BY StepPreserves
<1> QED BY <1>1, <1>2, PTL DEF Spec

\* Every file, memory cell and exchange record keeps its type.
THEOREM TypeCorrect == Spec => []TypeOK
<1>1. IInv => TypeOK
  BY DEF IInv
<1> QED BY <1>1, InductiveInvariant, PTL

\* The executor never has two orders at work at the exchange, across crashes, lost
\* requests and lagging reads (Controller::hedge, reconcile, sync_orders).
THEOREM OneOrderAtATime == Spec => []AtMostOneLiveOrder
<1> QED BY OneLive, InductiveInvariant, PTL

\* A terminal ledger entry, archived or not, is what really happened (observe,
\* acknowledged, not_submitted, compact).
THEOREM VerdictsAreTrue == Spec => []VerdictIsTrue
<1> QED BY TrueVerdicts, InductiveInvariant, PTL

\* No live order can move the short past the target it was computed for: the hedge
\* is never doubled (Controller::hedge, the emergency stage included).
THEOREM NoDoubleHedge == Spec => []NeverPastTarget
<1> QED BY WithinTarget, InductiveInvariant, PTL

\* The untracked-order block of sync_orders never hits an order of this program that
\* is still in the ledger.
THEOREM OwnOrdersAreRecognised == Spec => []OwnOrdersRecognised
<1> QED BY Recognised, InductiveInvariant, PTL

\* Between hedges, and between the two stages of one, nothing is on the book, under
\* way or unresolved.
THEOREM IdleIsQuiet == Spec => []NothingOutstandingWhenIdle
<1> QED BY QuietWhenIdle, InductiveInvariant, PTL

\* No order request is sent twice under one client ID (reconcile never replays).
THEOREM NoReplay == Spec => NeverResubmitted
<1>1. IInv /\ [Next]_vars =>
        [\A c \in Cloids : Req("order", c) \in wire' \ wire => c \notin posted]_vars
  BY SendsOnce
<1> QED BY <1>1, InductiveInvariant, PTL DEF Spec, NeverResubmitted

\* pending.json is removed only when the order it names has an exchange ID or a
\* terminal verdict on disk (store.finish).
THEOREM ReleasedOnlyWhenKnown == Spec => PendingReleasedWhenKnown
<1>1. IInv /\ [Next]_vars =>
        [pending # Null /\ pending' = Null /\ pending.kind = "order" =>
            oid[pending.cloid] \/ ledger[pending.cloid] \in Terminal]_vars
  BY ReleasedKnown
<1> QED BY <1>1, InductiveInvariant, PTL DEF Spec, PendingReleasedWhenKnown
================================================================================
