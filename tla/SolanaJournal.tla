--------------------------- MODULE SolanaJournal ---------------------------
(***************************************************************************)
(* Solana transactions: signed, written to solana_pending.json, sent once, *)
(* and settled by their signature (solana/journal.rs), through the adapter *)
(* process that holds the unsigned plan (solana/bridge.rs,                 *)
(* adapters/solana/bridge.mjs).                                            *)
(*                                                                         *)
(* A plan is a list of transactions for one operation on one layer:        *)
(* creating and closing a position take two, the others one.  The chain is *)
(* an environment: a transaction on the wire lands, fails, or is dropped   *)
(* when its blockhash expires, and only then is it known for certain - to  *)
(* the chain; the runner knows what status answers.                        *)
(***************************************************************************)
EXTENDS SolanaRegime, FiniteSets

CONSTANTS Null

VARIABLES
    pending,     \* solana_pending.json
    tracked,     \* solana_positions.json: the layers with an address
    pos,         \* chain: 0 no position, 1 an empty one, 1 + n liquidity n
    base,        \* chain: the wallet holds base worth selling
    exposed,     \* base was bought or released since the last full hedge
    wire,        \* the transactions sent and neither executed nor expired
    answer,      \* what status says of the pending signature
    plan,        \* the operation journal::execute works on
    draft        \* the adapter's index into its plan

journalFiles == <<pending, tracked>>
chain == <<pos, base, exposed, wire, answer>>
executing == <<plan, draft>>

Operations == {"mint", "increase", "remove", "buy", "sell"}
Count(op) == IF op \in {"mint", "remove"} THEN 2 ELSE 1

Transaction ==
    [op: Operations, layer: Layers \cup {Null}, size: 0..Full, index: 0..1]
Plan == [op: Operations, layer: Layers \cup {Null}, size: 0..Full]

\* Null stands for the absent Option or file, and is none of the values.
ASSUME NullAssumption ==
    Null \notin Transaction /\ Null \notin Plan /\ Null \notin 0..1

JournalTypeOK ==
    /\ pending \in Transaction \cup {Null}
    /\ tracked \in SUBSET Layers
    /\ pos \in [Layers -> 0..Full + 1]
    /\ base \in BOOLEAN /\ exposed \in BOOLEAN
    /\ IsFiniteSet(wire) /\ \A t \in wire : t \in Transaction
    /\ answer \in {"unknown", "ok", "failed"}
    /\ plan \in Plan \cup {Null}
    /\ draft \in 0..1 \cup {Null}

JournalInit ==
    /\ pending = Null /\ tracked = {}
    /\ pos = [l \in Layers |-> 0] /\ base = FALSE /\ exposed = FALSE
    /\ wire = {} /\ answer = "unknown"
    /\ plan = Null /\ draft = Null

Deployed == {l \in Layers : pos[l] > 0}

-----------------------------------------------------------------------------
(* execute: one plan at a time, one transaction after the other. *)

\* The adapter takes no plan beside an unfinished one.
BeginPlan(op, layer, size) ==
    /\ draft = Null
    /\ plan' = [op |-> op, layer |-> layer, size |-> size]
    /\ draft' = 0

\* prepare simulates, bounds fee and rent and signs; nothing is sent yet.
Sign ==
    /\ plan # Null
    /\ pending' = [op |-> plan.op, layer |-> plan.layer, size |-> plan.size,
                   index |-> draft]
    /\ answer' = "unknown"
    /\ UNCHANGED <<tracked, pos, base, exposed, wire, executing>>

Send ==
    /\ wire' = wire \cup {pending}
    /\ UNCHANGED <<journalFiles, pos, base, exposed, answer, executing>>

\* The file of a failed transaction is removed, and the run ends with an error.
DiscardFailed ==
    /\ answer = "failed"
    /\ pending' = Null /\ answer' = "unknown"
    /\ UNCHANGED <<tracked, pos, base, exposed, wire>>

\* Variant: the first transaction of a removal already forgets the position.
ApplyAnyRemoval ==
    /\ answer = "ok"
    /\ tracked' = CASE pending.op = "mint" -> tracked \cup {pending.layer}
                    [] pending.op = "remove" -> tracked \ {pending.layer}
                    [] OTHER -> tracked
    /\ UNCHANGED <<pending, chain, executing>>

ApplyConfirmed ==
    /\ answer = "ok"
    /\ tracked' =
         CASE pending.op = "mint" -> tracked \cup {pending.layer}
           [] pending.op = "remove" /\ pending.index + 1 = Count("remove") ->
                tracked \ {pending.layer}
           [] OTHER -> tracked
    /\ UNCHANGED <<pending, chain, executing>>

\* The confirmed transaction leaves the file; the adapter is told (ack).
Acknowledge ==
    /\ pending' = Null /\ answer' = "unknown"
    /\ IF plan # Null /\ draft + 1 < Count(plan.op)
       THEN draft' = draft + 1 /\ plan' = plan
       ELSE draft' = Null /\ plan' = Null
    /\ UNCHANGED <<tracked, pos, base, exposed, wire>>

PlanFinished == plan = Null \/ draft + 1 = Count(plan.op)

-----------------------------------------------------------------------------
(* The chain. *)

Executes(t) ==
    CASE t.op = "mint" \/ t.op = "increase" ->
           /\ pos' = [pos EXCEPT ![t.layer] =
                        IF t.op = "mint" /\ t.index = 0 THEN 1 ELSE 1 + t.size]
           /\ UNCHANGED <<base, exposed>>
      [] t.op = "remove" ->
           /\ pos' = [pos EXCEPT ![t.layer] =
                        IF t.index + 1 = Count("remove") THEN 0 ELSE 1]
           /\ base' = TRUE
           /\ UNCHANGED exposed
      [] t.op = "buy" ->
           /\ base' = TRUE /\ exposed' = TRUE
           /\ UNCHANGED pos
      [] t.op = "sell" ->
           /\ base' = FALSE
           /\ UNCHANGED <<pos, exposed>>

\* status answers for the signature that is asked for.
Answered(t, result) == answer' = IF pending = t THEN result ELSE answer

Lands(t) ==
    /\ Executes(t)
    /\ Answered(t, "ok")
    /\ wire' = wire \ {t}
    /\ UNCHANGED <<journalFiles, executing>>

Reverts(t) ==
    /\ Answered(t, "failed")
    /\ wire' = wire \ {t}
    /\ UNCHANGED <<journalFiles, pos, base, exposed, executing>>

\* No node ever answers for an expired transaction.
Expires(t) ==
    /\ wire' = wire \ {t}
    /\ UNCHANGED <<journalFiles, pos, base, exposed, answer, executing>>
=============================================================================
