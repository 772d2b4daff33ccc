---------------------------- MODULE EvmTransactions ----------------------------
(***************************************************************************)
(* The EVM side of the program: one wallet, one transaction at a time.     *)
(* A transaction is signed, recorded in pending.json, its nonce reserved   *)
(* in evm_nonce.json, broadcast, and awaited until its block is confirmed; *)
(* only then are the files released.  Beside the sender runs the nonce     *)
(* worker, which refreshes evm_nonce.json from the node's counts and from  *)
(* pending.json.  The operator may answer a stuck approval with a          *)
(* replacement of the same nonce (retry-approval).                         *)
(*                                                                         *)
(* Code: src/evm/nonce.rs, src/liquidity/uniswap_v3/{tx,approval_recovery} *)
(* .rs, pending.json of src/store.rs, the start-up order of                *)
(* src/engine/mod.rs.  The chain and the RPC node are external.            *)
(*                                                                         *)
(* One LP layer; at most one transaction of the wallet in a block; a       *)
(* reorganisation never reaches below Confirmations blocks (what that      *)
(* setting means); every read shows the chain of the moment, except the    *)
(* transaction counts, which may come from a node that lags.               *)
(***************************************************************************)
EXTENDS Naturals, Sequences, FiniteSets

CONSTANTS
    Txs,             \* hashes of the transactions the wallet signs
    Null,
    Confirmations,   \* liquidity.confirmations
    MaxHashes,       \* retry_approval stops beyond this many hashes (8 in the code)
    MaxBlocks,       \* bound on the length of the chain
    MaxFaults        \* bound on crashes, dropped and foreign transactions, reorgs

ASSUME TxsAssumption == IsFiniteSet(Txs) /\ "foreign" \notin Txs
ASSUME NumbersAssumption ==
    /\ Confirmations \in Nat \ {0} /\ MaxHashes \in Nat \ {0}
    /\ MaxBlocks \in Nat /\ MaxFaults \in Nat

VARIABLES
    \* the state directory
    pending,   \* pending.json: [hash, nonce, kind, hashes] or Null
    reserved,  \* evm_nonce.json: [floor, inflight]
    nft,       \* nfts.json: the layer's token, named by its mint; or Null
    \* the process; lost in a crash
    pc,
    after,     \* where a confirmed receipt leads: "startup", "idle", "exit"
    watch,     \* wait_receipt's hashes
    receipt,   \* the receipt being verified, or Null
    draft,     \* the operation being sent, or Null
    job,       \* the nonce refresh that holds NonceManager::lock, or Null
    \* the chain and the node
    chain,     \* the blocks: [tx, fork, ok]
    pool,      \* transactions of the wallet waiting in the mempool
    foreign,   \* is a transaction the program did not sign waiting there
    signed,    \* what was recorded under each hash: [kind, token, nonce, root], or Null
    faults

disk == <<pending, reserved, nft>>
sender == <<pc, after, watch, receipt, draft>>
net == <<chain, pool, foreign>>
vars == <<disk, sender, job, net, signed, faults>>

\* A swap, a collect or an increase is, to the files, an approval nobody retries.
Kind == {"approve", "mint", "burn"}
Step == {"down", "startup", "verify", "idle", "nonce", "sign", "reserve",
         "broadcast", "wait", "poll", "depth", "canonical", "record", "confirm",
         "finish", "retry", "retry_nonce", "replace"}

Pending == [hash: Txs, nonce: Nat, kind: Kind, hashes: SUBSET Txs]
Signed == [kind: Kind, token: Txs \cup {Null}, nonce: Nat, root: Txs]
Receipt == [hash: Txs, block: Nat, fork: Nat, ok: BOOLEAN]
Draft == [kind: Kind, token: Txs \cup {Null}, nonce: Nat, hash: Txs \cup {Null},
          known: BOOLEAN]
Job == [who: {"sender", "worker"}, loaded: BOOLEAN, latest: Nat, queued: Nat,
        floor: Nat, inflight: Txs \cup {Null}]

ASSUME NullAssumption ==
    Null \notin Txs \cup {"foreign", "startup", "idle", "exit"} \cup Pending \cup Signed
              \cup Receipt \cup Draft \cup Job

Height == Len(chain)
Deep(n) == n + Confirmations <= Height
InBlock(h) == \E n \in 1..Height : chain[n].tx = h
Confirmed(h) == \E n \in 1..Height : Deep(n) /\ chain[n].tx = h
Count == Cardinality({n \in 1..Height : chain[n].tx # Null})

\* The tokens the wallet owns.
Done(kind) == {h \in Txs : /\ signed[h] # Null /\ signed[h].kind = kind
                           /\ \E n \in 1..Height : chain[n].tx = h /\ chain[n].ok}
Owned == Done("mint") \ {signed[h].token : h \in Done("burn")}

TypeOK ==
    /\ pending \in Pending \cup {Null}
    /\ reserved \in [floor: Nat, inflight: Txs \cup {Null}]
    /\ nft \in Txs \cup {Null}
    /\ pc \in Step /\ after \in {"startup", "idle", "exit", Null}
    /\ watch \subseteq Txs
    /\ receipt \in Receipt \cup {Null} /\ draft \in Draft \cup {Null}
    /\ job \in Job \cup {Null}
    /\ signed \in [Txs -> Signed \cup {Null}]
    /\ chain \in Seq([tx: Txs \cup {Null, "foreign"}, fork: Nat, ok: BOOLEAN])
    /\ pool \subseteq Txs /\ foreign \in BOOLEAN
    /\ faults \in 0..MaxFaults

\* A fresh state directory for a wallet that may have been used before.
Init ==
    /\ pending = Null /\ nft = Null
    /\ reserved = [floor |-> 0, inflight |-> Null]
    /\ pc = "down" /\ after = Null /\ watch = {} /\ receipt = Null /\ draft = Null
    /\ job = Null
    /\ chain \in {<<>>, <<[tx |-> "foreign", fork |-> 0, ok |-> TRUE]>>}
    /\ pool = {} /\ foreign = FALSE
    /\ signed = [h \in Txs |-> Null]
    /\ faults = 0
--------------------------------------------------------------------------------
\* The end of the process, or an error run_strategy passes on: the files stay;
\* the nonce worker is aborted.
Reset ==
    /\ pc' = "down" /\ after' = Null /\ watch' = {} /\ receipt' = Null
    /\ draft' = Null /\ job' = Null

Goto(step) == pc' = step /\ UNCHANGED <<after, watch, receipt, draft>>

Crash ==
    /\ pc # "down" /\ faults < MaxFaults
    /\ Reset /\ faults' = faults + 1
    /\ UNCHANGED <<disk, net, signed>>

\* nonce::hashes: the original and its replacements.
Candidates == pending.hashes

\* approval_recovery::decode: the stored bytes are those of the hash.
Decodes(h) == signed[h] # Null

\* Executor::validated_pending_hashes: every candidate is of the nonce of
\* pending.json and makes the call of the original.
Validated ==
    /\ pending.hash \in Candidates
    /\ \A h \in Candidates :
          /\ Decodes(h) /\ signed[h].nonce = pending.nonce
          /\ signed[h].kind = signed[pending.hash].kind
          /\ signed[h].token = signed[pending.hash].token

\* Variant: reconciliation asks for the original hash only.
StartWithOriginal ==
    /\ pc = "down"
    /\ after' = "startup"
    /\ \/ pending = Null /\ pc' = "startup" /\ UNCHANGED watch
       \/ pending # Null /\ Validated /\ pc' = "wait" /\ watch' = {pending.hash}
    /\ UNCHANGED <<disk, receipt, draft, job, net, signed, faults>>

\* run_strategy: an unresolved operation is reconciled before anything else; a
\* pending.json that does not validate stops every attempt.
Start ==
    /\ pc = "down"
    /\ after' = "startup"
    /\ \/ pending = Null /\ pc' = "startup" /\ UNCHANGED watch
       \/ pending # Null /\ Validated /\ pc' = "wait" /\ watch' = Candidates
    /\ UNCHANGED <<disk, receipt, draft, job, net, signed, faults>>

\* verify_inventory: nfts.json against the wallet's tokens.
Verify ==
    /\ pc = "verify"
    /\ IF Owned = {nft} \ {Null}
       THEN pc' = "idle" /\ after' = "idle" /\ UNCHANGED <<watch, receipt, draft, job>>
       ELSE Reset
    /\ UNCHANGED <<disk, net, signed, faults>>
--------------------------------------------------------------------------------
\* Variant: the worker's refresh does not hold the lock.
UnlockedByWorker == (job # Null => job.who = "worker") /\ pc # "finish"

\* NonceManager::refresh.  The lock is held from the queries to the write, and
\* "confirmed" holds it from evm_nonce.json to pending.json.
Unlocked == job = Null /\ pc # "finish"

\* What eth_getTransactionCount may say of "latest" and "pending"; a smaller
\* pending than latest is refused (observe).
Counts == {m \in [latest: 0..Count, queued: 0..(Count + Cardinality(pool) + 1)] :
             m.latest <= m.queued /\ (pool = {} /\ ~foreign => m.queued <= Count)}

RefreshBegins(who) ==
    /\ Unlocked
    /\ \E m \in Counts :
          job' = [who |-> who, loaded |-> FALSE, latest |-> m.latest,
                  queued |-> m.queued, floor |-> 0, inflight |-> Null]
    /\ UNCHANGED <<disk, sender, net, signed, faults>>

SenderRefreshes ==
    pc \in {"startup", "nonce", "wait", "retry_nonce"} /\ RefreshBegins("sender")

WorkerRefreshes == after = "idle" /\ RefreshBegins("worker")

Larger(m, n) == IF m > n THEN m ELSE n

\* load, observe, and what pending.json adds: the crash may have come between
\* begin and prepared.
RefreshLoads(who) ==
    /\ job # Null /\ job.who = who /\ ~job.loaded
    /\ LET floor == Larger(reserved.floor, job.latest) IN
       job' = [job EXCEPT
          !.loaded = TRUE,
          !.floor = IF pending = Null THEN floor ELSE Larger(floor, pending.nonce + 1),
          !.inflight = IF pending # Null /\ reserved.inflight = Null
                       THEN pending.hash ELSE reserved.inflight]
    /\ UNCHANGED <<disk, sender, net, signed, faults>>

\* Variant: the nonce the node reports, without the floor of what was submitted.
AvailableWithoutFloor(m) == m.inflight = Null /\ m.queued = m.latest

\* NonceState::available
Available(m) == m.inflight = Null /\ m.queued = m.latest /\ m.latest >= m.floor

\* What retry_approval asks of the refreshed state.
Replaceable(m) ==
    /\ m.latest = pending.nonce
    /\ m.floor = pending.nonce + 1 /\ m.inflight = pending.hash
    /\ m.queued = pending.nonce \/ (draft.known /\ m.queued = pending.nonce + 1)
    /\ Cardinality(pending.hashes) <= MaxHashes

Saved == reserved' = [floor |-> job.floor, inflight |-> job.inflight]

WorkerWrites ==
    /\ job # Null /\ job.who = "worker" /\ job.loaded
    /\ Saved /\ job' = Null
    /\ UNCHANGED <<pending, nft, sender, net, signed, faults>>

SenderWrites ==
    /\ job # Null /\ job.who = "sender" /\ job.loaded
    /\ Saved
    /\ \/ pc = "wait" /\ job' = Null /\ Goto("poll")
       \/ pc = "startup" /\ Available(job) /\ job' = Null /\ Goto("verify")
       \/ /\ pc = "nonce" /\ Available(job)
          /\ job' = Null /\ pc' = "sign" /\ draft' = [draft EXCEPT !.nonce = job.latest]
          /\ UNCHANGED <<after, watch, receipt>>
       \/ pc = "retry_nonce" /\ Replaceable(job) /\ job' = Null /\ Goto("replace")
       \/ pc \in {"startup", "nonce"} /\ ~Available(job) /\ Reset
       \/ pc = "retry_nonce" /\ ~Replaceable(job) /\ Reset
    /\ UNCHANGED <<pending, nft, net, signed, faults>>
--------------------------------------------------------------------------------
\* Executor::send.  A mint needs a free layer, a burn the layer's token; an
\* unresolved operation ends it before the refresh.
Send ==
    /\ pc = "idle"
    /\ \E kind \in Kind :
          /\ kind = "mint" => nft = Null
          /\ kind = "burn" => nft # Null
          /\ draft' = [kind |-> kind, token |-> IF kind = "burn" THEN nft ELSE Null,
                       nonce |-> 0, hash |-> Null, known |-> FALSE]
    /\ pending = Null
    /\ pc' = "nonce"
    /\ UNCHANGED <<disk, after, watch, receipt, job, net, signed, faults>>

\* A failed simulation, a gas budget, an expired quote: nothing is signed.
SimulationFails ==
    /\ pc \in {"sign", "replace"}
    /\ Reset
    /\ UNCHANGED <<disk, net, signed, faults>>

Fresh == {h \in Txs : signed[h] = Null}

\* sign_transaction and store.begin
BeginTx ==
    /\ pc = "sign" /\ pending = Null
    /\ \E h \in Fresh :
          /\ signed' = [signed EXCEPT ![h] = [kind |-> draft.kind, token |-> draft.token,
                                              nonce |-> draft.nonce, root |-> h]]
          /\ pending' = [hash |-> h, nonce |-> draft.nonce, kind |-> draft.kind,
                         hashes |-> {h}]
          /\ draft' = [draft EXCEPT !.hash = h]
    /\ pc' = "reserve"
    /\ UNCHANGED <<reserved, nft, after, watch, receipt, job, net, faults>>

\* NonceManager::prepared
Reserve ==
    /\ pc = "reserve" /\ Unlocked
    /\ IF reserved.inflight \in {Null, draft.hash}
       THEN /\ reserved' = [floor |-> Larger(reserved.floor, draft.nonce + 1),
                            inflight |-> draft.hash]
            /\ Goto("broadcast") /\ UNCHANGED job
       ELSE Reset /\ UNCHANGED reserved
    /\ UNCHANGED <<pending, nft, net, signed, faults>>

\* The request is lost, refused, accepted, or accepted with the answer lost; an
\* error rewrites pending.json with its text and ends the send.
Broadcast ==
    /\ pc = "broadcast"
    /\ \E accepted, answered \in BOOLEAN :
          /\ accepted => signed[draft.hash].nonce >= Count
          /\ pool' = IF accepted THEN pool \cup {draft.hash} ELSE pool
          /\ IF accepted /\ answered /\ Validated
             THEN /\ pc' = "wait" /\ watch' = Candidates /\ draft' = Null
                  /\ UNCHANGED <<after, receipt, job>>
             ELSE Reset
    /\ UNCHANGED <<disk, chain, foreign, signed, faults>>
--------------------------------------------------------------------------------
\* wait_receipt: every round may refresh the nonce first (SenderRefreshes), then
\* asks for the receipt of each hash.
Round ==
    /\ pc = "wait" /\ (job # Null => job.who = "worker")
    /\ Goto("poll")
    /\ UNCHANGED <<disk, job, net, signed, faults>>

Poll ==
    /\ pc = "poll"
    /\ \/ \E n \in 1..Height :
             /\ chain[n].tx \in watch
             /\ receipt' = [hash |-> chain[n].tx, block |-> n, fork |-> chain[n].fork,
                            ok |-> chain[n].ok]
             /\ pc' = "depth"
       \/ /\ \A h \in watch : ~InBlock(h)
          /\ pc' = "wait" /\ UNCHANGED receipt
    /\ UNCHANGED <<disk, after, watch, draft, job, net, signed, faults>>

\* The 90th round.
GiveUp ==
    /\ pc = "poll" /\ \A h \in watch : ~Confirmed(h)
    /\ Reset
    /\ UNCHANGED <<disk, net, signed, faults>>

\* eth_blockNumber
Depth ==
    /\ pc = "depth"
    /\ IF Deep(receipt.block) THEN Goto("canonical")
       ELSE pc' = "wait" /\ receipt' = Null /\ UNCHANGED <<after, watch, draft>>
    /\ UNCHANGED <<disk, job, net, signed, faults>>

\* Variant: enough blocks are enough.
SameBlockAssumed == receipt.block <= Height

\* eth_getBlockByNumber: the receipt's block is still the one at its height.
SameBlock == chain[receipt.block].fork = receipt.fork

Canonical ==
    /\ pc = "canonical"
    /\ IF SameBlock THEN Goto(IF receipt.ok THEN "record" ELSE "confirm") /\ UNCHANGED job
                    ELSE Reset
    /\ UNCHANGED <<disk, net, signed, faults>>

\* record_receipt: nfts.json before the nonce is released.
RecordReceipt ==
    /\ pc = "record"
    /\ nft' = CASE signed[receipt.hash].kind = "mint" -> receipt.hash
                [] signed[receipt.hash].kind = "burn" -> Null
                [] OTHER -> nft
    /\ Goto("confirm")
    /\ UNCHANGED <<pending, reserved, job, net, signed, faults>>

\* NonceManager::confirmed, first half: evm_nonce.json.
Confirm ==
    /\ pc = "confirm" /\ Unlocked
    /\ IF reserved.inflight = Null \/
          (/\ pending # Null /\ reserved.inflight = pending.hash
           /\ receipt.hash \in pending.hashes)
       THEN /\ reserved' = [reserved EXCEPT !.inflight = Null]
            /\ Goto("finish") /\ UNCHANGED job
       ELSE Reset /\ UNCHANGED reserved
    /\ UNCHANGED <<pending, nft, net, signed, faults>>

\* Second half: store.finish.  A reverted transaction is released, then reported.
Finish ==
    /\ pc = "finish"
    /\ pending' = Null
    /\ IF receipt.ok /\ after # "exit"
       THEN /\ pc' = after /\ watch' = {} /\ receipt' = Null
            /\ UNCHANGED <<after, draft, job>>
       ELSE Reset
    /\ UNCHANGED <<reserved, nft, net, signed, faults>>
--------------------------------------------------------------------------------
\* Executor::retry_approval, a command of its own: the state directory is locked,
\* so the strategy is down.
Retry ==
    /\ pc = "down" /\ pending # Null /\ pending.kind = "approve" /\ Validated
    /\ pc' = "retry" /\ after' = "exit"
    /\ UNCHANGED <<disk, watch, receipt, draft, job, net, signed, faults>>

\* Every historical hash first: one may have been mined.
RetryLooks ==
    /\ pc = "retry"
    /\ IF \E h \in Candidates : InBlock(h)
       THEN pc' = "wait" /\ watch' = Candidates /\ UNCHANGED draft
       ELSE /\ draft' = [kind |-> "approve", token |-> Null, nonce |-> pending.nonce,
                         hash |-> Null, known |-> Candidates \cap pool # {}]
            /\ pc' = "retry_nonce" /\ UNCHANGED watch
    /\ UNCHANGED <<disk, after, receipt, job, net, signed, faults>>

\* Variant: the replacement takes the place of what was sent before.
ReplaceForgetting ==
    /\ pc = "replace"
    /\ \E h \in Fresh :
          /\ signed' = [signed EXCEPT ![h] = [kind |-> "approve", token |-> Null,
                                              nonce |-> pending.nonce,
                                              root |-> pending.hash]]
          /\ pending' = [pending EXCEPT !.hashes = {pending.hash, h}]
          /\ draft' = [draft EXCEPT !.hash = h]
    /\ pc' = "broadcast"
    /\ UNCHANGED <<reserved, nft, after, watch, receipt, job, net, faults>>

\* The replacement is on disk beside the original before it is sent.
Replace ==
    /\ pc = "replace"
    /\ \E h \in Fresh :
          /\ signed' = [signed EXCEPT ![h] = [kind |-> "approve", token |-> Null,
                                              nonce |-> pending.nonce,
                                              root |-> pending.hash]]
          /\ pending' = [pending EXCEPT !.hashes = @ \cup {h}]
          /\ draft' = [draft EXCEPT !.hash = h]
    /\ pc' = "broadcast"
    /\ UNCHANGED <<reserved, nft, after, watch, receipt, job, net, faults>>
--------------------------------------------------------------------------------
\* The chain.  The next transaction of the wallet is one of its present nonce.
Fork == IF Height = 0 THEN 0 ELSE chain[Height].fork

NewBlock ==
    /\ Height < MaxBlocks
    /\ \E tx \in {h \in pool : signed[h].nonce = Count} \cup {Null, "foreign"},
          ok \in BOOLEAN :
          /\ tx = "foreign" => foreign
          /\ tx \notin Txs => ok
          /\ chain' = Append(chain, [tx |-> tx, fork |-> Fork, ok |-> ok])
          /\ pool' = IF tx = Null THEN pool ELSE {h \in pool : signed[h].nonce > Count}
          /\ foreign' = (foreign /\ tx # "foreign")
    /\ UNCHANGED <<disk, sender, job, signed, faults>>

\* Another branch wins: its blocks are empty yet, the dropped transactions wait
\* again.
Reorg ==
    /\ faults < MaxFaults /\ faults' = faults + 1
    /\ \E k \in 0..Height :
          /\ k < Height /\ k + Confirmations >= Height
          /\ chain' = [n \in 1..Height |->
                 IF n <= k THEN chain[n] ELSE [tx |-> Null, fork |-> Fork + 1, ok |-> TRUE]]
          /\ LET dropped == {chain[n].tx : n \in (k + 1)..Height} IN
             /\ pool' = pool \cup (dropped \cap Txs)
             /\ foreign' = (foreign \/ "foreign" \in dropped)
    /\ UNCHANGED <<disk, sender, job, signed>>

\* The node forgets a transaction, or sees one of another program of the wallet.
Drop ==
    /\ faults < MaxFaults /\ faults' = faults + 1
    /\ \E h \in pool : pool' = pool \ {h}
    /\ UNCHANGED <<disk, sender, job, chain, foreign, signed>>

ForeignTx ==
    /\ faults < MaxFaults /\ faults' = faults + 1
    /\ ~foreign /\ foreign' = TRUE
    /\ UNCHANGED <<disk, sender, job, chain, pool, signed>>
--------------------------------------------------------------------------------
Refreshing == SenderRefreshes \/ RefreshLoads("sender") \/ SenderWrites
Sending == Send \/ SimulationFails \/ BeginTx \/ Reserve \/ Broadcast
Waiting == \/ Round \/ Poll \/ GiveUp \/ Depth \/ Canonical \/ RecordReceipt
           \/ Confirm \/ Finish
Process == Start \/ Verify \/ Refreshing \/ Sending \/ Waiting \/ RetryLooks \/ Replace
Working == RefreshLoads("worker") \/ WorkerWrites
Chain == NewBlock \/ Reorg \/ Drop \/ ForeignTx
Next == Crash \/ Process \/ WorkerRefreshes \/ Working \/ Retry \/ Chain

Spec == Init /\ [][Next]_vars

\* The process is restarted and scheduled, a refresh ends; tokio's Mutex is first
\* come, first served, so the worker's ticks cannot keep the lock from the sender.
FairSpec == Spec /\ SF_vars(Process) /\ WF_vars(Working)
--------------------------------------------------------------------------------
\* Two operations never share a nonce, whatever crashed between pending.json and
\* evm_nonce.json, however far the node lags; only replacements of one approval do.
OneOperationPerNonce ==
    \A g, h \in Txs :
        signed[g] # Null /\ signed[h] # Null /\ signed[g].nonce = signed[h].nonce =>
            signed[g].root = signed[h].root

\* A transaction that may still be mined, or whose block may still be replaced,
\* is in pending.json, so that a restart asks for its receipt.
UnsettledIsRecorded ==
    \A h \in Txs : h \in pool \/ (InBlock(h) /\ ~Confirmed(h)) =>
        pending # Null /\ h \in pending.hashes

\* With no operation unresolved nfts.json is the wallet's inventory: the start-up
\* check never blocks on what the program did itself.
InventoryMatchesChain == pending = Null => {nft} \ {Null} = Owned

\* evm_nonce.json never reserves a nonce for an operation pending.json no longer
\* holds, which would block every later send: refresh and confirmed take turns.
ReservationHasOperation ==
    reserved.inflight # Null => pending # Null /\ reserved.inflight = pending.hash

\* What the program wrote to pending.json, replacements included, is never refused
\* by its own reconciliation, which would block every later start.
PendingValidates == pending # Null => Validated

\* pending.json, evm_nonce.json and nfts.json agree with each other and with the
\* chain, whatever crashed between two of their writes.
FilesAgree ==
    TypeOK /\ InventoryMatchesChain /\ ReservationHasOperation /\ PendingValidates

\* pending.json is released only for a transaction deep in the chain.
ReleasedWhenConfirmed ==
    [][pending # Null /\ pending' = Null =>
          \E h \in pending.hashes : Confirmed(h)]_vars

\* A confirmed transaction is noticed, however the process is interrupted.
ConfirmedIsReleased ==
    (pending # Null /\ \E h \in Txs : Confirmed(h) /\ h \in pending.hashes)
        ~> pending = Null
================================================================================
