--------------------------- MODULE HedgeRefinement ---------------------------
(***************************************************************************)
(* HedgeOrders implements SingleOrder, for every set of client IDs and     *)
(* every bound.  The argument: only begin, the arrival of a request, a     *)
(* trade, a cancel and the verdict "not submitted" change the fate of an   *)
(* order; every other step, a crash or a compaction included, keeps it.    *)
(***************************************************************************)
EXTENDS HedgeOrdersProofs

\* A verdict on c that no answer of the exchange is needed for.
Closed(c) == ledger[c] = "not_submitted" \/ c \in archived

\* The fate of an order is what the exchange shows of it, and what the files say
\* as long as the exchange shows nothing.
LEMMA FateKept ==
    ASSUME NEW c, xstat'[c] = xstat[c],
           xstat[c] # "none" \/ (Closed(c)' <=> Closed(c)),
           xstat[c] # "none" \/ Closed(c) \/ (Ordering(c)' <=> Ordering(c))
    PROVE  Fate(c)' = Fate(c)
  BY DEF Fate, Closed, Ordering

\* The fate of an order whose request is under way.
LEMMA UnderWay ==
    ASSUME IInv, NEW c \in Cloids, Req("order", c) \in wire, xstat[c] = "none"
    PROVE  Fate(c) = "issued" /\ ~Closed(c)
<1>1. Suspect(c) /\ Ordering(c)
  BY DEF IInv, LiveInv, Live, ShownInv
<1>2. ~Closed(c)
  BY <1>1, TerminalNotSuspect DEF Closed, Terminal
<1> QED BY <1>1, <1>2 DEF Fate, Ordering, Closed

\* What the ledger's entry says about an order that has one.
LEMMA ClosedByLedger ==
    ASSUME IInv, NEW c \in Cloids, ledger[c] \in Terminal
    PROVE  xstat[c] # "none" \/ ledger[c] = "not_submitted"
  BY DEF IInv, LedgerInv, Terminal, Final

--------------------------------------------------------------------------------
\* Steps that show the exchange nothing: the observer's state stutters.
Hidden == UNCHANGED <<intent, left, short>> /\ \A c \in Cloids : Fate(c)' = Fate(c)

\* Errors, decisions and the removal of hedge_order.json.
LEMMA QuietHidden ==
    ASSUME Resetting \/ Moving \/ Clearing \/ WritePointer
    PROVE  Hidden
<1>1. UNCHANGED <<pending, ledger, archived, xstat, intent, left, short>>
  BY ResettingFrame, MovingFrame, ClearingFrame DEF WritePointer, disk, exch
<1> QED BY <1>1, FateKept DEF Hidden, Closed, Ordering

\* pending.json is removed when the fate of its order is known without it.
LEMMA ReleasingHidden == ASSUME IInv, Releasing PROVE Hidden
<1>1. UNCHANGED <<ledger, archived, xstat, intent, left, short>>
  BY ReleasingFacts DEF exch
<1>2. ASSUME NEW c \in Cloids PROVE Fate(c)' = Fate(c)
  <2>1. CASE Ordering(c)
    <3>1. ledger[c] \in Terminal \cup {"open"}
      BY <2>1, ReleasingFacts
    <3>2. xstat[c] # "none" \/ Closed(c)
      BY <3>1, ClosedByLedger DEF Closed, IInv, ShownInv
    <3> QED BY <1>1, <3>2, FateKept DEF Closed
  <2>2. CASE ~Ordering(c)
    <3>1. ~Ordering(c)'
      BY ReleasingFacts DEF Ordering
    <3> QED BY <1>1, <2>2, <3>1, FateKept DEF Closed
  <2> QED BY <2>1, <2>2
<1> QED BY <1>1, <1>2 DEF Hidden

\* Observing an order writes to the ledger what the exchange shows.
LEMMA ResolvingHidden == ASSUME IInv, Resolving PROVE Hidden
<1>1. UNCHANGED <<pending, archived, xstat, intent, left, short>>
  BY ResolvingFacts DEF exch
<1>2. ASSUME NEW c \in Cloids PROVE Fate(c)' = Fate(c)
  <2>1. xstat[c] # "none" \/ ledger'[c] = ledger[c]
    BY ResolvingFacts DEF IInv, TypeOK
  <2> QED BY <1>1, <2>1, FateKept DEF Closed, Ordering
<1> QED BY <1>1, <1>2 DEF Hidden

\* New ledger entries close nothing.
LEMMA EntryHidden ==
    ASSUME IInv, ReconcileOrder \/ JournalOrder \/ SyncOrders
    PROVE  Hidden
<1>1. UNCHANGED <<pending, archived, xstat, intent, left, short>>
  BY DEF ReconcileOrder, JournalOrder, SyncOrders, exch
<1>2. ASSUME NEW c \in Cloids
      PROVE  ledger'[c] = "not_submitted" <=> ledger[c] = "not_submitted"
  <2>1. CASE ReconcileOrder \/ SyncOrders
    BY <2>1, ReconcileOrderFacts, SyncFacts DEF Unimported
  <2>2. CASE JournalOrder
    BY <2>2 DEF JournalOrder, Prepared, IInv, TypeOK
  <2> QED BY <2>1, <2>2
<1> QED BY <1>1, <1>2, FateKept DEF Hidden, Closed, Ordering

\* The acknowledged status is one the exchange already shows.
LEMMA AcknowledgeHidden == ASSUME IInv, Acknowledge PROVE Hidden
<1>1. UNCHANGED <<pending, archived, xstat, intent, left, short>>
  BY DEF Acknowledge, exch
<1>2. ASSUME NEW c \in Cloids PROVE Fate(c)' = Fate(c)
  <2>1. xstat[c] # "none" \/ ledger'[c] = ledger[c]
    BY AcknowledgeFacts DEF IInv, TypeOK, Pending
  <2> QED BY <1>1, <2>1, FateKept DEF Closed, Ordering
<1> QED BY <1>1, <1>2 DEF Hidden

\* Archiving, whole or interrupted, moves entries that are over.
LEMMA ArchiveHidden ==
    ASSUME IInv, Compact \/ ArchiveInterrupted
    PROVE  Hidden
<1>1. UNCHANGED <<xstat, intent, left, short>> /\ pending = Null /\ pending' = Null
  BY CompactFacts, InterruptedFacts DEF Compact, exch
<1>2. ASSUME NEW c \in Cloids PROVE xstat[c] # "none" \/ (Closed(c)' <=> Closed(c))
  <2>1. CASE Compact
    <3>1. PICK old \in SUBSET Compactable :
             /\ archived' = archived \cup old
             /\ ledger' = [d \in Cloids |-> IF d \in old THEN "absent" ELSE ledger[d]]
      BY <1>1, <2>1 DEF Compact
    <3>2. c \in old => ledger[c] \in Terminal
      BY <3>1 DEF Compactable
    <3> QED BY <3>1, <3>2, ClosedByLedger DEF Closed
  <2>2. CASE ArchiveInterrupted
    <3>1. ledger' = ledger /\ archived \subseteq archived'
          /\ (c \in archived' => c \in archived \/ ledger[c] \in Terminal)
      BY <2>2, InterruptedFacts
    <3> QED BY <3>1, ClosedByLedger DEF Closed
  <2> QED BY <2>1, <2>2
<1> QED BY <1>1, <1>2, FateKept DEF Hidden, Ordering

\* Beginning a cancel, marking the dispatch and sending add nothing to an order
\* already issued.
LEMMA SendingHidden ==
    ASSUME IInv, BeginCancel \/ Submit \/ Post
    PROVE  Hidden
<1>1. UNCHANGED <<ledger, archived, xstat, intent, left, short>>
  BY DEF BeginCancel, Submit, Post, disk, exch
<1>2. \A c \in Cloids : Ordering(c)' <=> Ordering(c)
  BY BeginCancelFacts, SubmitFacts, PostFacts, NullAssumption DEF Ordering, disk
<1> QED BY <1>1, <1>2, FateKept DEF Hidden, Closed

--------------------------------------------------------------------------------
\* Steps of the abstract specification.

\* The fates as the abstract specification sees them.
Fates == [c \in Cloids |-> Fate(c)]

\* Only the fate of c changes, to s.
LEMMA Turns ==
    ASSUME NEW c \in Cloids, NEW s, Fate(c)' = s,
           \A d \in Cloids \ {c} : Fate(d)' = Fate(d)
    PROVE  Fates' = [Fates EXCEPT ![c] = s]
  BY DEF Fates

\* begin issues a new order, sized for the present position, after the one before
\* is settled.
LEMMA BeginIssues ==
    ASSUME IInv, BeginOrder
    PROVE  \E c \in Cloids : Promise!Issue(c)
<1>1. plan \in Plan /\ plan.cloid \in Cloids
  BY BeginFacts
<1>2. PICK c \in Cloids : c = plan.cloid
  BY <1>1
<1>3. /\ pc = "begin" /\ pending = Null /\ ledger[c] = "absent"
      /\ c \notin archived /\ xstat[c] = "none"
      /\ pending' = [kind |-> "order", cloid |-> c, dispatch |-> "prepared"]
      /\ pending' # Null
      /\ intent' = [intent EXCEPT ![c] = plan.order]
      /\ intent'[c] = plan.order
      /\ UNCHANGED <<ledger, archived, xstat, left, short>>
  BY <1>2, BeginFacts DEF BeginOrder
<1>4. \A d \in Cloids : Fates[d] \in {"unused", "settled"}
  BY <1>3 DEF IInv, StepInv, Quiet, LiveInv, Live, Fates, Fate
<1>5. Fates[c] = "unused"
  BY <1>3 DEF Fates, Fate
<1>6. Fates' = [Fates EXCEPT ![c] = "issued"]
  <2>1. pending'.kind = "order" /\ pending'.cloid = c
    BY <1>3
  <2>2. Fate(c)' = "issued"
    BY <1>3, <2>1 DEF Fate
  <2>3. \A d \in Cloids \ {c} : Fate(d)' = Fate(d)
    BY <1>3, <2>1 DEF Fate
  <2> QED BY <2>2, <2>3, Turns
<1>7. /\ plan.order \in Intent /\ plan.order.target \in 0..MaxShort
      /\ Sized(plan.order, plan.order.size)
  BY <1>1, <1>3, NullAssumption DEF Plan, IInv, ShownInv, SizeInv
<1>8. Promise!Issue(c)
  BY <1>3, <1>4, <1>5, <1>6, <1>7 DEF Promise!Issue, Promise!Order, Promise!Sized, Fates,
     Intent, Sized
<1> QED BY <1>8

\* "not submitted" settles an order that was issued and never sent.
LEMMA MarkUnsentSettles ==
    ASSUME IInv, MarkUnsent
    PROVE  Hidden \/ \E c \in Cloids : Promise!Settle(c)
<1>1. UNCHANGED <<pending, archived, xstat, intent, left, short>>
  BY MarkUnsentFacts DEF exch
<1>2. CASE \A c \in Cloids : ledger'[c] = ledger[c]
  BY <1>1, <1>2, FateKept DEF Hidden, Closed, Ordering
<1>3. ASSUME NEW c \in Cloids, ledger'[c] # ledger[c]
      PROVE  Promise!Settle(c)
  <2>1. Ordering(c) /\ ledger'[c] = "not_submitted" /\ ledger[c] # "not_submitted"
    BY <1>3, MarkUnsentFacts
  <2>2. xstat[c] = "none" /\ c \notin archived
    BY <2>1, MarkUnsentFacts DEF IInv, IndexInv, PendingInv, Ordering
  <2>3. Fates[c] = "issued" /\ Fate(c)' = "settled"
    BY <1>1, <2>1, <2>2 DEF Fates, Fate, Ordering
  <2>4. \A d \in Cloids \ {c} : Fate(d)' = Fate(d)
    <3>1. \A d \in Cloids \ {c} : ~Ordering(d)
      BY <2>1 DEF Ordering
    <3>2. \A d \in Cloids \ {c} : ledger'[d] = ledger[d]
      BY <3>1, MarkUnsentFacts
    <3> QED BY <1>1, <3>2, FateKept DEF Closed, Ordering
  <2> QED BY <1>1, <2>3, <2>4, Turns DEF Promise!Settle, Fates
<1> QED BY <1>2, <1>3

\* At the exchange an order changes alone, and no file changes with it.
LEMMA Alone ==
    ASSUME IInv, Exchange, NEW c \in Cloids, \A d \in Cloids \ {c} : xstat'[d] = xstat[d]
    PROVE  /\ \A d \in Cloids \ {c} : Fate(d)' = Fate(d)
           /\ xstat'[c] = "open" => Fate(c)' = "live"
           /\ xstat'[c] \in Final => Fate(c)' = "settled"
           /\ xstat'[c] = xstat[c] => Fate(c)' = Fate(c)
<1>1. UNCHANGED <<pending, ledger, archived>>
  BY ExchangeFrame DEF disk
<1>2. \A d \in Cloids : xstat'[d] = xstat[d] => Fate(d)' = Fate(d)
  BY <1>1, FateKept DEF Closed, Ordering
<1> QED BY <1>1, <1>2 DEF Fate, Final

\* The exchange answers an order: it accepts, takes or rejects it.
LEMMA ArrivalSettles ==
    ASSUME IInv, NEW c \in Cloids, OrderRests(c) \/ OrderTakes(c) \/ OrderRejected(c)
    PROVE  Promise!Accept(c) \/ Promise!Take(c) \/ Promise!Settle(c)
<1>0. Exchange
  BY DEF Exchange, Arrival
<1>1. Fates[c] = "issued"
  BY UnderWay DEF OrderRests, OrderTakes, OrderRejected, Fates
<1>2. xstat \in [Cloids -> Final \cup {"none", "open"}]
  BY DEF IInv, TypeOK
<1>3. \A d \in Cloids \ {c} : xstat'[d] = xstat[d]
  BY <1>2 DEF OrderRests, OrderTakes, OrderRejected
<1>4. CASE OrderRests(c)
  <2>1. Fates' = [Fates EXCEPT ![c] = "live"]
    BY <1>0, <1>2, <1>3, <1>4, Alone, Turns DEF OrderRests
  <2> QED BY <1>1, <1>4, <2>1 DEF OrderRests, Promise!Accept, Fates
<1>5. CASE OrderTakes(c)
  <2>1. Fates' = [Fates EXCEPT ![c] = "settled"]
    BY <1>0, <1>2, <1>3, <1>5, Alone, Turns DEF OrderTakes, Final
  <2>2. \E k \in 1..intent[c].size : Promise!Move(c, k)
    BY <1>5 DEF OrderTakes, Promise!Move
  <2> QED BY <1>1, <1>5, <2>1, <2>2 DEF OrderTakes, Promise!Take, Fates
<1>6. CASE OrderRejected(c)
  <2>1. Fates' = [Fates EXCEPT ![c] = "settled"]
    BY <1>0, <1>2, <1>3, <1>6, Alone, Turns DEF OrderRejected, Final
  <2> QED BY <1>1, <1>6, <2>1 DEF OrderRejected, Promise!Settle, Fates
<1> QED BY <1>4, <1>5, <1>6

\* A fill of a resting order is a trade.
LEMMA TradeTrades ==
    ASSUME IInv, NEW c \in Cloids, Trade(c)
    PROVE  Promise!Trade(c)
<1>0. Exchange
  BY DEF Exchange
<1>1. Fates[c] = "live"
  BY DEF Trade, Fates, Fate
<1>2. /\ xstat \in [Cloids -> Final \cup {"none", "open"}]
      /\ left \in [Cloids -> Nat]
  BY DEF IInv, TypeOK
<1>3. PICK k \in 1..left[c] :
         /\ intent[c].buy => k <= short
         /\ short' = IF intent[c].buy THEN short - k ELSE short + k
         /\ left' = [left EXCEPT ![c] = @ - k]
         /\ xstat' = [xstat EXCEPT ![c] = IF k = left[c] THEN "filled" ELSE "open"]
  BY DEF Trade
<1>4. \A d \in Cloids \ {c} : xstat'[d] = xstat[d]
  BY <1>2, <1>3
<1>5. Fates' = [Fates EXCEPT ![c] = IF k = left[c] THEN "settled" ELSE "live"]
  <2>1. xstat'[c] = IF k = left[c] THEN "filled" ELSE "open"
    BY <1>2, <1>3
  <2>2. Fate(c)' = IF k = left[c] THEN "settled" ELSE "live"
    BY <1>0, <1>4, <2>1, Alone DEF Final
  <2>3. \A d \in Cloids \ {c} : Fate(d)' = Fate(d)
    BY <1>0, <1>4, Alone
  <2> QED BY <2>2, <2>3, Turns
<1>6. Promise!Move(c, k)
  BY <1>3 DEF Promise!Move
<1> QED BY <1>1, <1>3, <1>5, <1>6 DEF Trade, Promise!Trade, Fates

\* A cancel, the executor's or the exchange's own, settles a live order.
LEMMA CancelSettles ==
    ASSUME IInv, NEW c \in Cloids, ExchangeCancels(c) \/ CancelArrives(c)
    PROVE  Hidden \/ Promise!Settle(c)
<1>0. Exchange
  BY DEF Exchange, Arrival
<1>1. /\ xstat \in [Cloids -> Final \cup {"none", "open"}]
      /\ UNCHANGED <<intent, left, short>>
  BY DEF IInv, TypeOK, ExchangeCancels, CancelArrives
<1>2. \A d \in Cloids \ {c} : xstat'[d] = xstat[d]
  BY <1>1 DEF ExchangeCancels, CancelArrives
<1>3. CASE xstat[c] = "open"
  <2>1. xstat'[c] = "canceled"
    BY <1>1, <1>3 DEF ExchangeCancels, CancelArrives
  <2>2. Fates[c] = "live" /\ Fates' = [Fates EXCEPT ![c] = "settled"]
    BY <1>0, <1>2, <1>3, <2>1, Alone, Turns DEF Final, Fates, Fate
  <2> QED BY <1>1, <2>2 DEF Promise!Settle, Fates
<1>4. CASE xstat[c] # "open"
  <2>1. xstat'[c] = xstat[c]
    BY <1>1, <1>4 DEF ExchangeCancels, CancelArrives
  <2> QED BY <1>0, <1>1, <1>2, <2>1, Alone DEF Hidden
<1> QED BY <1>3, <1>4

\* Lost requests and lagging read indexes are not the observer's business.
LEMMA NetworkHidden ==
    ASSUME IInv, NEW c \in Cloids,
           \/ CancelRefused(c) \/ Lose(Req("order", c)) \/ Lose(Req("cancel", c))
           \/ IndexAdvances(c) \/ ListAdvances(c)
    PROVE  Hidden
<1>1. Exchange
  BY DEF Exchange
<1>2. UNCHANGED <<xstat, intent, left, short>>
  BY DEF CancelRefused, Lose, IndexAdvances, ListAdvances
<1> QED BY <1>1, <1>2, Alone DEF Hidden

--------------------------------------------------------------------------------
\* The initial states are initial states of the abstract specification.
LEMMA RefinesInit == ASSUME Init PROVE Promise!Init
<1>1. IInv
  BY InitEstablishes
<1>2. PICK s \in {"open", "filled", "canceled"}, n \in 1..MaxShort :
          /\ xstat = [c \in Cloids |-> IF c = pointer THEN s ELSE "none"]
          /\ intent = [c \in Cloids |-> IF c = pointer
                          THEN [buy |-> FALSE, size |-> n, tif |-> "Alo",
                                target |-> short + n]
                          ELSE Nothing]
          /\ left = [c \in Cloids |-> IF c = pointer /\ s # "filled" THEN n ELSE 0]
  BY DEF Init
<1>3. \A c \in Cloids : Fate(c) = CASE c # pointer -> "unused"
                                    [] c = pointer /\ s = "open" -> "live"
                                    [] OTHER -> "settled"
  BY <1>2 DEF Init, Fate
<1>4. /\ Fates \in [Cloids -> {"unused", "live", "settled"}]
      /\ \A c, d \in Cloids : Fates[c] # "unused" /\ Fates[d] # "unused" => c = d
  BY <1>3 DEF Fates
<1>5. /\ short \in 0..MaxShort
      /\ intent \in [Cloids -> Promise!Order]
      /\ left \in [Cloids -> Nat]
  BY <1>1 DEF Init, IInv, TypeOK, Intent, Promise!Order
<1>6. ASSUME NEW c \in Cloids, Fates[c] = "live"
      PROVE  ~intent[c].buy /\ short + left[c] = intent[c].target
  BY <1>2, <1>3, <1>6 DEF Fates
<1> QED BY <1>4, <1>5, <1>6 DEF Promise!Init, Fates

\* Every step is a step of the abstract specification or hidden from it.
LEMMA RefinesNext ==
    ASSUME IInv, Next
    PROVE  Promise!Next \/ Hidden
<1>1. CASE Exchange
  <2>1. PICK c \in Cloids :
           \/ Arrival(c) \/ Trade(c) \/ ExchangeCancels(c) \/ CancelRefused(c)
           \/ Lose(Req("order", c)) \/ Lose(Req("cancel", c))
           \/ IndexAdvances(c) \/ ListAdvances(c)
    BY <1>1 DEF Exchange
  <2>2. CASE OrderRests(c) \/ OrderTakes(c) \/ OrderRejected(c)
    BY <2>2, ArrivalSettles DEF Promise!Next
  <2>3. CASE Trade(c)
    BY <2>3, TradeTrades DEF Promise!Next
  <2>4. CASE ExchangeCancels(c) \/ CancelArrives(c)
    BY <2>4, CancelSettles DEF Promise!Next
  <2>5. CASE \/ CancelRefused(c) \/ Lose(Req("order", c)) \/ Lose(Req("cancel", c))
             \/ IndexAdvances(c) \/ ListAdvances(c)
    BY <2>5, NetworkHidden
  <2> QED BY <2>1, <2>2, <2>3, <2>4, <2>5 DEF Arrival
<1>2. CASE BeginOrder
  BY <1>2, BeginIssues DEF Promise!Next
<1>3. CASE MarkUnsent
  BY <1>3, MarkUnsentSettles DEF Promise!Next
<1>4. CASE ~Exchange /\ ~BeginOrder /\ ~MarkUnsent
  BY <1>4, Steps, QuietHidden, ReleasingHidden, ResolvingHidden, EntryHidden,
     AcknowledgeHidden, ArchiveHidden, SendingHidden
<1> QED BY <1>1, <1>2, <1>3, <1>4

\* A hidden step, or no step, leaves the abstract variables alone.
LEMMA RefinesStep ==
    ASSUME IInv, [Next]_vars
    PROVE  [Promise!Next]_(Promise!vars)
<1>1. CASE Next
  <2>1. CASE Promise!Next
    BY <2>1
  <2>2. CASE Hidden
    <3>1. Fates' = Fates
      BY <2>2 DEF Hidden, Fates
    <3> QED BY <2>2, <3>1 DEF Hidden, Fates, Promise!vars
  <2> QED BY <1>1, <2>1, <2>2, RefinesNext
<1>2. CASE UNCHANGED vars
  <2>1. UNCHANGED <<pending, ledger, archived, xstat, intent, left, short>>
    BY <1>2 DEF vars, disk, exch
  <2>2. Fates' = Fates
    BY <2>1 DEF Fates, Fate
  <2> QED BY <2>1, <2>2 DEF Promise!vars, Fates
<1> QED BY <1>1, <1>2

\* The executor with its files, its crashes, its interrupted archives and an
\* exchange that answers late, twice or not at all shows an observer one settled
\* order after the other, each sized for the position it was issued at.
THEOREM ExecutorImplementsSingleOrder == Spec => ImplementsSingleOrder
<1>1. Init => Promise!Init
  BY RefinesInit
<1>2. IInv /\ [Next]_vars => [Promise!Next]_(Promise!vars)
  BY RefinesStep
<1> QED BY <1>1, <1>2, InductiveInvariant, PTL DEF Spec, ImplementsSingleOrder, Promise!Spec
==============================================================================
