----------------------------- MODULE SingleOrder -----------------------------
(***************************************************************************)
(* What the hedge executor promises, without files, queries or crashes: a  *)
(* client ID is used for one order, the next order is issued only after    *)
(* the one before is settled, it is sized for the position at that moment, *)
(* and only orders move the position.  HedgeOrders implements it.          *)
(***************************************************************************)
EXTENDS Naturals

CONSTANTS Cloids, MaxShort

VARIABLES
    fate,    \* "unused", "issued", "live" or "settled"
    intent,  \* what was issued under each ID
    left,    \* the unfilled size of a live order
    short    \* the position

vars == <<fate, intent, left, short>>

Order == [buy: BOOLEAN, size: Nat, tif: {"Alo", "Ioc"}, target: Nat]

\* At most one order survives from an earlier life.
Init ==
    /\ fate \in [Cloids -> {"unused", "live", "settled"}]
    /\ \A c, d \in Cloids : fate[c] # "unused" /\ fate[d] # "unused" => c = d
    /\ short \in 0..MaxShort
    /\ intent \in [Cloids -> Order]
    /\ left \in [Cloids -> Nat]
    /\ \A c \in Cloids : fate[c] = "live" =>
          ~intent[c].buy /\ short + left[c] = intent[c].target

\* An order from the present position to the target.
Sized(order) == IF order.buy THEN short = order.target + order.size
                             ELSE short + order.size = order.target

Issue(c) ==
    /\ fate[c] = "unused"
    /\ \A d \in Cloids : fate[d] \in {"unused", "settled"}
    /\ fate' = [fate EXCEPT ![c] = "issued"]
    /\ intent'[c] \in Order
    /\ intent'[c].target \in 0..MaxShort
    /\ Sized(intent'[c])
    /\ intent' = [intent EXCEPT ![c] = intent'[c]]
    /\ UNCHANGED <<left, short>>

Accept(c) ==
    /\ fate[c] = "issued"
    /\ fate' = [fate EXCEPT ![c] = "live"]
    /\ left' = [left EXCEPT ![c] = intent[c].size]
    /\ UNCHANGED <<intent, short>>

Move(c, k) == IF intent[c].buy THEN k <= short /\ short' = short - k
                               ELSE short' = short + k

\* An immediate order takes what it can and is over.
Take(c) ==
    /\ fate[c] = "issued"
    /\ \E k \in 1..intent[c].size : Move(c, k)
    /\ fate' = [fate EXCEPT ![c] = "settled"]
    /\ UNCHANGED <<intent, left>>

Trade(c) ==
    /\ fate[c] = "live"
    /\ \E k \in 1..left[c] :
          /\ Move(c, k)
          /\ left' = [left EXCEPT ![c] = @ - k]
          /\ fate' = [fate EXCEPT ![c] = IF k = left[c] THEN "settled" ELSE "live"]
    /\ UNCHANGED intent

\* Rejected, cancelled, or never sent.
Settle(c) ==
    /\ fate[c] \in {"issued", "live"}
    /\ fate' = [fate EXCEPT ![c] = "settled"]
    /\ UNCHANGED <<intent, left, short>>

Next == \E c \in Cloids : Issue(c) \/ Accept(c) \/ Take(c) \/ Trade(c) \/ Settle(c)

Spec == Init /\ [][Next]_vars
==============================================================================
