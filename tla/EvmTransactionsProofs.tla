------------------------- MODULE EvmTransactionsProofs -------------------------
(***************************************************************************)
(* The safety of the EVM sender, for every set of hashes, every depth of   *)
(* confirmation, every chain and every number of faults.  The argument is  *)
(* the one of EvmInvariant: a transaction can only be mined in the block   *)
(* its nonce counts to, so a confirmed receipt settles every hash of its   *)
(* nonce; the floor of evm_nonce.json and pending.json together remember   *)
(* every nonce ever signed; and the wallet without the operation of        *)
(* pending.json does not change.  One lemma per part of IInv.              *)
(***************************************************************************)
EXTENDS EvmInvariant, FiniteSetTheorems, SequenceTheorems, TLAPS

--------------------------------------------------------------------------------
\* Counting filled blocks.

\* Only finitely many blocks are filled.
LEMMA FilledFinite ==
    ASSUME NEW blocks, NEW k \in Int
    PROVE  IsFiniteSet({n \in 1..k : blocks[n].tx # Null})
<1>1. IsFiniteSet(1..k)
  BY FS_Interval
<1>2. {n \in 1..k : blocks[n].tx # Null} \subseteq 1..k
  OBVIOUS
<1> QED BY <1>1, <1>2, FS_Subset

\* The number of filled blocks is a natural number.
LEMMA FilledNat ==
    ASSUME NEW blocks, NEW k \in Int
    PROVE  FilledIn(blocks, k) \in Nat
  BY FilledFinite, FS_CardinalityType DEF FilledIn

\* A longer prefix holds no fewer transactions,
LEMMA FilledGrows ==
    ASSUME NEW blocks, NEW i \in Int, NEW j \in Int, i <= j
    PROVE  FilledIn(blocks, i) <= FilledIn(blocks, j)
<1> DEFINE A == {n \in 1..i : blocks[n].tx # Null}
           B == {n \in 1..j : blocks[n].tx # Null}
<1>1. A \subseteq B
  OBVIOUS
<1>2. IsFiniteSet(B)
  BY FilledFinite
<1>3. Cardinality(A) <= Cardinality(B)
  <2> HIDE DEF A, B
  <2> QED BY <1>1, <1>2, FS_Subset
<1> QED BY <1>3 DEF FilledIn

\* and one with a further filled block holds more.
LEMMA FilledAdds ==
    ASSUME NEW blocks, NEW i \in Int, NEW j \in Int, 0 <= i, i < j, blocks[j].tx # Null
    PROVE  FilledIn(blocks, i) < FilledIn(blocks, j)
<1> DEFINE A == {n \in 1..i : blocks[n].tx # Null}
           B == {n \in 1..j : blocks[n].tx # Null}
<1>1. A \cup {j} \subseteq B /\ j \notin A
  OBVIOUS
<1>2. IsFiniteSet(A) /\ IsFiniteSet(B)
  BY FilledFinite
<1>3. Cardinality(A) < Cardinality(B)
  <2> HIDE DEF A, B
  <2>1. Cardinality(A \cup {j}) = Cardinality(A) + 1
    BY <1>1, <1>2, FS_AddElement
  <2>2. Cardinality(A \cup {j}) <= Cardinality(B)
    BY <1>1, <1>2, FS_Subset
  <2>3. Cardinality(A) \in Nat /\ Cardinality(B) \in Nat
    BY <1>2, FS_CardinalityType
  <2> QED BY <2>1, <2>2, <2>3
<1> QED BY <1>3 DEF FilledIn

\* Blocks that agree up to k are filled alike.
LEMMA FilledAlike ==
    ASSUME NEW b, NEW c, NEW k \in Int, \A n \in 1..k : b[n].tx = c[n].tx
    PROVE  FilledIn(b, k) = FilledIn(c, k)
<1>1. {n \in 1..k : b[n].tx # Null} = {n \in 1..k : c[n].tx # Null}
  OBVIOUS
<1> QED BY <1>1 DEF FilledIn

\* The count after one more block,
LEMMA FilledNext ==
    ASSUME NEW blocks, NEW k \in Nat
    PROVE  FilledIn(blocks, k + 1) = IF blocks[k + 1].tx = Null THEN FilledIn(blocks, k)
                                     ELSE FilledIn(blocks, k) + 1
<1> DEFINE A == {n \in 1..k : blocks[n].tx # Null}
           B == {n \in 1..(k + 1) : blocks[n].tx # Null}
<1> k \in Int
  OBVIOUS
<1>1. IsFiniteSet(A)
  BY FilledFinite
<1>2. CASE blocks[k + 1].tx = Null
  <2>1. \A n \in 1..(k + 1) : n \in 1..k \/ n = k + 1
    OBVIOUS
  <2>2. A = B
    BY <1>2, <2>1
  <2> QED BY <1>2, <2>2 DEF FilledIn
<1>3. CASE blocks[k + 1].tx # Null
  <2>0. \A n \in 1..(k + 1) : n \in 1..k \/ n = k + 1
    OBVIOUS
  <2>1. B = A \cup {k + 1} /\ k + 1 \notin A
    BY <1>3, <2>0
  <2>2. Cardinality(B) = Cardinality(A) + 1
    <3> HIDE DEF A, B
    <3> QED BY <1>1, <2>1, FS_AddElement
  <2> QED BY <1>3, <2>2 DEF FilledIn
<1> QED BY <1>2, <1>3

\* and after empty blocks.
LEMMA FilledFlat ==
    ASSUME NEW blocks, NEW i \in Int, NEW j \in Int, i <= j,
           \A n \in (i + 1)..j : blocks[n].tx = Null
    PROVE  FilledIn(blocks, j) = FilledIn(blocks, i)
<1>1. {n \in 1..i : blocks[n].tx # Null} = {n \in 1..j : blocks[n].tx # Null}
  OBVIOUS
<1> QED BY <1>1 DEF FilledIn
--------------------------------------------------------------------------------
\* The chain.

\* A transaction lies below the nonces that are still to come,
LEMMA BelowCount ==
    ASSUME TypeOK, ChainInv, NEW n \in 1..Height, chain[n].tx \in Txs
    PROVE  signed[chain[n].tx].nonce < Count /\ signed[chain[n].tx].nonce = Filled(n - 1)
<1>1. Height \in Nat /\ chain[n].tx # Null
  BY NullAssumption DEF TypeOK, Height
<1>2. signed[chain[n].tx].nonce = Filled(n - 1)
  BY DEF ChainInv
<1>3. Filled(n - 1) < Filled(Height)
  <2>1. FilledIn(chain, n - 1) < FilledIn(chain, n)
    BY <1>1, FilledAdds
  <2>2. FilledIn(chain, n) <= FilledIn(chain, Height)
    BY <1>1, FilledGrows
  <2>3. /\ FilledIn(chain, n - 1) \in Nat /\ FilledIn(chain, n) \in Nat
        /\ FilledIn(chain, Height) \in Nat
    BY <1>1, FilledNat
  <2> QED BY <2>1, <2>2, <2>3 DEF Filled
<1> QED BY <1>2, <1>3 DEF Count, Filled, FilledIn

\* no two blocks hold transactions of one nonce,
LEMMA OneBlockPerNonce ==
    ASSUME TypeOK, ChainInv, NEW m \in 1..Height, NEW n \in 1..Height,
           chain[m].tx \in Txs, chain[n].tx \in Txs,
           signed[chain[m].tx].nonce = signed[chain[n].tx].nonce
    PROVE  m = n
<1>1. Height \in Nat
  BY DEF TypeOK, Height
<1>2. ASSUME NEW i \in 1..Height, NEW j \in 1..Height, chain[i].tx \in Txs, i < j
      PROVE  Filled(i - 1) < Filled(j - 1)
  <2>1. chain[i].tx # Null
    BY <1>2, NullAssumption
  <2>2. FilledIn(chain, i - 1) < FilledIn(chain, i)
    BY <1>1, <2>1, FilledAdds
  <2>3. FilledIn(chain, i) <= FilledIn(chain, j - 1)
    BY <1>1, <1>2, FilledGrows
  <2>4. /\ FilledIn(chain, i - 1) \in Nat /\ FilledIn(chain, i) \in Nat
        /\ FilledIn(chain, j - 1) \in Nat
    BY <1>1, FilledNat
  <2> QED BY <2>2, <2>3, <2>4 DEF Filled
<1>3. Filled(m - 1) = Filled(n - 1)
  BY DEF ChainInv
<1>4. Filled(m - 1) \in Nat /\ Filled(n - 1) \in Nat
  BY <1>1, FilledNat DEF Filled
<1> QED BY <1>1, <1>2, <1>3, <1>4

\* and a mined transaction is not waiting in the pool.
LEMMA MinedNotWaiting ==
    ASSUME TypeOK, ChainInv, NEW h \in Txs, InBlock(h)
    PROVE  /\ signed[h] # Null /\ signed[h] \in Signed /\ signed[h].nonce < Count
           /\ \A g \in pool : signed[g] # Null /\ signed[g].nonce > signed[h].nonce
<1>1. PICK n \in 1..Height : chain[n].tx = h
  BY DEF InBlock
<1>2. signed[h] # Null /\ signed[h].nonce < Count
  BY <1>1, BelowCount DEF ChainInv
<1>3. signed[h] \in Signed
  BY <1>2 DEF TypeOK
<1>4. Count \in Nat
  <2>1. Height \in Int
    BY DEF TypeOK, Height
  <2> QED BY <2>1, FilledNat DEF Count, FilledIn
<1>5. \A g \in pool : signed[g] # Null /\ signed[g].nonce >= Count /\ signed[g] \in Signed
  BY DEF ChainInv, TypeOK
<1> QED BY <1>2, <1>3, <1>4, <1>5 DEF Signed

\* What a new block adds.
LEMMA NewBlockFacts ==
    ASSUME TypeOK, NewBlock
    PROVE  /\ UNCHANGED <<disk, sender, job, signed, faults>>
           /\ chain' \in Seq([tx: Txs \cup {Null, "foreign"}, fork: Nat, ok: BOOLEAN])
           /\ Height \in Nat /\ Height' = Height + 1
           /\ \A n \in 1..Height : chain'[n] = chain[n]
           /\ chain'[Height + 1].fork = Fork
           /\ chain'[Height + 1].tx \in Txs =>
                 chain'[Height + 1].tx \in pool /\ signed[chain'[Height + 1].tx].nonce = Count
           /\ pool' = IF chain'[Height + 1].tx = Null THEN pool
                      ELSE {h \in pool : signed[h].nonce > Count}
           /\ foreign' \in BOOLEAN
<1> DEFINE Blocks == [tx: Txs \cup {Null, "foreign"}, fork: Nat, ok: BOOLEAN]
<1>1. PICK tx \in {h \in pool : signed[h].nonce = Count} \cup {Null, "foreign"},
           ok \in BOOLEAN :
          /\ chain' = Append(chain, [tx |-> tx, fork |-> Fork, ok |-> ok])
          /\ pool' = IF tx = Null THEN pool ELSE {h \in pool : signed[h].nonce > Count}
          /\ foreign' = (foreign /\ tx # "foreign")
  BY DEF NewBlock
<1>2. chain \in Seq(Blocks) /\ pool \subseteq Txs
  BY DEF TypeOK
<1>3. Fork \in Nat
  <2>1. Height \in Nat /\ \A n \in 1..Height : chain[n] \in Blocks
    BY <1>2, LenProperties DEF Height
  <2> QED BY <2>1 DEF Fork
<1>4. [tx |-> tx, fork |-> Fork, ok |-> ok] \in Blocks
  BY <1>1, <1>2, <1>3
<1>5. /\ chain' \in Seq(Blocks) /\ Len(chain') = Len(chain) + 1 /\ Len(chain) \in Nat
      /\ \A n \in 1..Len(chain) : chain'[n] = chain[n]
      /\ chain'[Len(chain) + 1] = [tx |-> tx, fork |-> Fork, ok |-> ok]
  <2> HIDE DEF Blocks
  <2> QED BY <1>1, <1>2, <1>4, AppendProperties, LenProperties
<1>6. UNCHANGED <<disk, sender, job, signed, faults>>
  BY DEF NewBlock
<1>7. tx \in Txs => tx \in pool /\ signed[tx].nonce = Count
  BY <1>1, NullAssumption, TxsAssumption
<1> QED BY <1>1, <1>5, <1>6, <1>7 DEF Height

\* What a reorganisation replaces: never a block that is Confirmations deep.
LEMMA ReorgFacts ==
    ASSUME TypeOK, Reorg
    PROVE  /\ UNCHANGED <<disk, sender, job, signed>> /\ Height \in Nat /\ Height' = Height
           /\ chain' \in Seq([tx: Txs \cup {Null, "foreign"}, fork: Nat, ok: BOOLEAN])
           /\ foreign' \in BOOLEAN
           /\ \E k \in 0..Height :
                 /\ k < Height /\ k + Confirmations >= Height
                 /\ \A n \in 1..k : chain'[n] = chain[n]
                 /\ \A n \in (k + 1)..Height :
                       chain'[n] = [tx |-> Null, fork |-> Fork + 1, ok |-> TRUE]
                 /\ pool' = pool \cup ({chain[n].tx : n \in (k + 1)..Height} \cap Txs)
<1> DEFINE Blocks == [tx: Txs \cup {Null, "foreign"}, fork: Nat, ok: BOOLEAN]
<1>1. chain \in Seq(Blocks)
  BY DEF TypeOK
<1>2. /\ Height \in Nat /\ \A n \in 1..Height : chain[n] \in Blocks
  BY <1>1, LenProperties DEF Height
<1>3. Fork \in Nat
  BY <1>2 DEF Fork
<1>4. PICK k \in 0..Height :
          /\ k < Height /\ k + Confirmations >= Height
          /\ chain' = [n \in 1..Height |->
                 IF n <= k THEN chain[n] ELSE [tx |-> Null, fork |-> Fork + 1, ok |-> TRUE]]
          /\ pool' = pool \cup ({chain[n].tx : n \in (k + 1)..Height} \cap Txs)
          /\ foreign' = (foreign \/ "foreign" \in {chain[n].tx : n \in (k + 1)..Height})
  BY DEF Reorg
<1>5. [tx |-> Null, fork |-> Fork + 1, ok |-> TRUE] \in Blocks
  BY <1>3
<1>6. chain' \in [1..Height -> Blocks]
  <2> HIDE DEF Blocks
  <2> QED BY <1>2, <1>4, <1>5
<1>7. chain' \in Seq(Blocks)
  <2> HIDE DEF Blocks
  <2> QED BY <1>2, <1>6
<1>8. Height' = Height
  <2>1. DOMAIN chain' = 1..Height /\ DOMAIN chain' = 1..Height' /\ Height' \in Nat
    BY <1>6, <1>7, LenProperties DEF Height
  <2> QED BY <1>2, <2>1
<1>9. foreign' \in BOOLEAN
  BY <1>4 DEF TypeOK
<1>10. \A n \in 1..k : chain'[n] = chain[n]
  BY <1>2, <1>4
<1>11. \A n \in (k + 1)..Height : chain'[n] = [tx |-> Null, fork |-> Fork + 1, ok |-> TRUE]
  BY <1>2, <1>4
<1>12. UNCHANGED <<disk, sender, job, signed>>
  BY DEF Reorg
<1> QED BY <1>2, <1>4, <1>7, <1>8, <1>9, <1>10, <1>11, <1>12
--------------------------------------------------------------------------------
\* Who writes what.

\* Only begin and a replacement record a signature; they and store.finish write
\* pending.json.
LEMMA PendingWriters ==
    ASSUME Next
    PROVE  /\ signed' = signed \/ BeginTx \/ Replace
           /\ pending' = pending \/ BeginTx \/ Replace \/ Finish
<1>1. CASE Chain \/ Crash \/ Retry
  BY <1>1 DEF Chain, NewBlock, Reorg, Drop, ForeignTx, Crash, Retry, disk
<1>2. CASE WorkerRefreshes \/ Working \/ Refreshing
  BY <1>2 DEF WorkerRefreshes, Working, Refreshing, SenderRefreshes, RefreshBegins, RefreshLoads,
     WorkerWrites, SenderWrites, disk
<1>3. CASE Sending
  BY <1>3 DEF Sending, Send, SimulationFails, Reserve, Broadcast, disk
<1>4. CASE Waiting
  BY <1>4 DEF Waiting, Round, Poll, GiveUp, Depth, Canonical, RecordReceipt, Confirm, Finish, disk
<1>5. CASE Start \/ Verify \/ RetryLooks \/ Replace
  BY <1>5 DEF Start, Verify, RetryLooks, disk
<1> QED BY <1>1, <1>2, <1>3, <1>4, <1>5 DEF Next, Process

\* evm_nonce.json is written under the lock alone, nfts.json by record_receipt.
LEMMA ReservedWriters ==
    ASSUME Next
    PROVE  /\ reserved' = reserved \/ WorkerWrites \/ SenderWrites \/ Reserve \/ Confirm
           /\ nft' = nft \/ RecordReceipt
<1>1. CASE Chain \/ Crash \/ Retry
  BY <1>1 DEF Chain, NewBlock, Reorg, Drop, ForeignTx, Crash, Retry, disk
<1>2. CASE WorkerRefreshes \/ Working \/ Refreshing
  BY <1>2 DEF WorkerRefreshes, Working, Refreshing, SenderRefreshes, RefreshBegins, RefreshLoads,
     WorkerWrites, SenderWrites, disk
<1>3. CASE Sending
  BY <1>3 DEF Sending, Send, SimulationFails, BeginTx, Reserve, Broadcast, disk
<1>4. CASE Waiting
  BY <1>4 DEF Waiting, Round, Poll, GiveUp, Depth, Canonical, RecordReceipt, Confirm, Finish, disk
<1>5. CASE Start \/ Verify \/ RetryLooks \/ Replace
  BY <1>5 DEF Start, Verify, RetryLooks, Replace, disk
<1> QED BY <1>1, <1>2, <1>3, <1>4, <1>5 DEF Next, Process

\* Blocks come and go by themselves; a broadcast fills the pool.
LEMMA ChainWriters ==
    ASSUME Next
    PROVE  /\ chain' = chain \/ NewBlock \/ Reorg
           /\ pool' = pool \/ NewBlock \/ Reorg \/ Drop \/ Broadcast
<1>1. CASE Chain \/ Crash \/ Retry
  BY <1>1 DEF Chain, Drop, ForeignTx, Crash, Retry, net
<1>2. CASE WorkerRefreshes \/ Working \/ Refreshing
  BY <1>2 DEF WorkerRefreshes, Working, Refreshing, SenderRefreshes, RefreshBegins, RefreshLoads,
     WorkerWrites, SenderWrites, net
<1>3. CASE Sending
  BY <1>3 DEF Sending, Send, SimulationFails, BeginTx, Reserve, Broadcast, net
<1>4. CASE Waiting
  BY <1>4 DEF Waiting, Round, Poll, GiveUp, Depth, Canonical, RecordReceipt, Confirm, Finish, net
<1>5. CASE Start \/ Verify \/ RetryLooks \/ Replace
  BY <1>5 DEF Start, Verify, RetryLooks, Replace, net
<1> QED BY <1>1, <1>2, <1>3, <1>4, <1>5 DEF Next, Process

\* The chain's own steps, and the worker's, leave the sender where it is.
LEMMA SenderFrame ==
    ASSUME Chain \/ WorkerRefreshes \/ Working \/ SenderRefreshes \/ RefreshLoads("sender")
    PROVE  /\ UNCHANGED <<sender, signed, pending, nft>>
           /\ ~Working => reserved' = reserved
  BY DEF Chain, NewBlock, Reorg, Drop, ForeignTx, WorkerRefreshes, Working, SenderRefreshes,
     RefreshBegins, RefreshLoads, WorkerWrites, disk

\* A signature is recorded under a hash that had none.
LEMMA SignsFresh ==
    ASSUME TypeOK, StepInv, BeginTx \/ Replace
    PROVE  /\ UNCHANGED <<reserved, nft, after, watch, receipt, job, net, faults>>
           /\ draft \in Draft /\ draft' \in Draft /\ pending' \in Pending
           /\ \E h \in Txs :
                 /\ signed[h] = Null /\ signed'[h] \in Signed /\ signed'[h] # Null
                 /\ signed' \in [Txs -> Signed \cup {Null}]
                 /\ \A g \in Txs : g # h => signed'[g] = signed[g]
                 /\ draft'.hash = h
                 /\ BeginTx =>
                       /\ pc = "sign" /\ pc' = "reserve" /\ pending = Null
                       /\ draft'.nonce = draft.nonce
                       /\ signed'[h] = [kind |-> draft.kind, token |-> draft.token,
                                        nonce |-> draft.nonce, root |-> h]
                       /\ pending' = [hash |-> h, nonce |-> draft.nonce, kind |-> draft.kind,
                                      hashes |-> {h}]
                 /\ Replace =>
                       /\ pc = "replace" /\ pc' = "broadcast" /\ pending \in Pending
                       /\ signed'[h] = [kind |-> "approve", token |-> Null,
                                        nonce |-> pending.nonce, root |-> pending.hash]
                       /\ pending' = [pending EXCEPT !.hashes = pending.hashes \cup {h}]
<1>1. UNCHANGED <<reserved, nft, after, watch, receipt, job, net, faults>>
  BY DEF BeginTx, Replace
<1>2. draft \in Draft
  BY DEF TypeOK, StepInv, BeginTx, Replace
<1>3. CASE BeginTx
  <2>1. PICK h \in Fresh :
          /\ signed' = [signed EXCEPT ![h] = [kind |-> draft.kind, token |-> draft.token,
                                              nonce |-> draft.nonce, root |-> h]]
          /\ pending' = [hash |-> h, nonce |-> draft.nonce, kind |-> draft.kind,
                         hashes |-> {h}]
          /\ draft' = [draft EXCEPT !.hash = h]
    BY <1>3 DEF BeginTx
  <2>2. h \in Txs /\ signed[h] = Null
    BY DEF Fresh
  <2>3. [kind |-> draft.kind, token |-> draft.token, nonce |-> draft.nonce, root |-> h]
            \in Signed
    BY <1>2, <2>2 DEF Draft, Signed
  <2>4. draft' \in Draft /\ draft'.hash = h /\ draft'.nonce = draft.nonce
    BY <1>2, <2>1, <2>2 DEF Draft
  <2>5. pending' \in Pending
    BY <1>2, <2>1, <2>2 DEF Draft, Pending
  <2>6. pc = "sign" /\ pc' = "reserve" /\ pending = Null /\ ~Replace
    BY <1>3 DEF BeginTx, Replace
  <2>7. signed \in [Txs -> Signed \cup {Null}]
    BY DEF TypeOK
  <2>8. /\ signed' \in [Txs -> Signed \cup {Null}]
        /\ signed'[h] = [kind |-> draft.kind, token |-> draft.token, nonce |-> draft.nonce,
                         root |-> h]
        /\ \A g \in Txs : g # h => signed'[g] = signed[g]
    BY <2>1, <2>2, <2>3, <2>7
  <2>9. signed'[h] \in Signed /\ signed'[h] # Null
    BY <2>3, <2>8, NullAssumption
  <2> QED BY <1>1, <1>2, <2>1, <2>2, <2>4, <2>5, <2>6, <2>8, <2>9
<1>4. CASE Replace
  <2>1. PICK h \in Fresh :
          /\ signed' = [signed EXCEPT ![h] = [kind |-> "approve", token |-> Null,
                                              nonce |-> pending.nonce,
                                              root |-> pending.hash]]
          /\ pending' = [pending EXCEPT !.hashes = @ \cup {h}]
          /\ draft' = [draft EXCEPT !.hash = h]
    BY <1>4 DEF Replace
  <2>2. h \in Txs /\ signed[h] = Null
    BY DEF Fresh
  <2>3. pc = "replace" /\ pc' = "broadcast" /\ pending \in Pending /\ ~BeginTx
    BY <1>4 DEF BeginTx, Replace, StepInv, Retrying, TypeOK
  <2>4. [kind |-> "approve", token |-> Null, nonce |-> pending.nonce, root |-> pending.hash]
            \in Signed
    BY <2>3 DEF Pending, Signed, Kind
  <2>5. draft' \in Draft /\ draft'.hash = h
    BY <1>2, <2>1, <2>2 DEF Draft
  <2>6. pending' \in Pending /\ pending' = [pending EXCEPT !.hashes = pending.hashes \cup {h}]
    BY <2>1, <2>2, <2>3 DEF Pending
  <2>7. signed \in [Txs -> Signed \cup {Null}]
    BY DEF TypeOK
  <2>8. /\ signed' \in [Txs -> Signed \cup {Null}]
        /\ signed'[h] = [kind |-> "approve", token |-> Null, nonce |-> pending.nonce,
                         root |-> pending.hash]
        /\ \A g \in Txs : g # h => signed'[g] = signed[g]
    BY <2>1, <2>2, <2>4, <2>7
  <2>9. signed'[h] \in Signed /\ signed'[h] # Null
    BY <2>4, <2>8, NullAssumption
  <2> QED BY <1>1, <1>2, <2>2, <2>3, <2>5, <2>6, <2>8, <2>9
<1> QED BY <1>3, <1>4
--------------------------------------------------------------------------------
\* Types.

\* Files, chain and records keep their types.
LEMMA FilesTyped ==
    ASSUME IInv, Next
    PROVE  /\ pending' \in Pending \cup {Null}
           /\ reserved' \in [floor: Nat, inflight: Txs \cup {Null}]
           /\ nft' \in Txs \cup {Null}
           /\ signed' \in [Txs -> Signed \cup {Null}]
<1>0. TypeOK /\ StepInv
  BY DEF IInv
<1>1. pending' \in Pending \cup {Null}
  BY <1>0, PendingWriters, SignsFresh DEF TypeOK, Finish
<1>2. signed' \in [Txs -> Signed \cup {Null}]
  BY <1>0, PendingWriters, SignsFresh DEF TypeOK
<1>3. nft' \in Txs \cup {Null}
  <2>1. CASE RecordReceipt
    <3>1. receipt # Null /\ receipt \in Receipt
      BY <2>1 DEF IInv, ReceiptInv, Mined, RecordReceipt, TypeOK
    <3> QED BY <1>0, <2>1, <3>1 DEF RecordReceipt, Receipt, TypeOK
  <2> QED BY <1>0, <2>1, ReservedWriters DEF TypeOK
<1>4. reserved' \in [floor: Nat, inflight: Txs \cup {Null}]
  <2>1. CASE WorkerWrites \/ SenderWrites
    <3>1. job \in Job
      BY <1>0, <2>1 DEF TypeOK, WorkerWrites, SenderWrites
    <3> QED BY <2>1, <3>1 DEF WorkerWrites, SenderWrites, Saved, Job
  <2>2. CASE Reserve
    <3>1. draft \in Draft
      BY <1>0, <2>2 DEF TypeOK, StepInv, Reserve
    <3> QED BY <1>0, <2>2, <3>1 DEF Reserve, TypeOK, Draft, Larger
  <2>3. CASE Confirm
    BY <1>0, <2>3 DEF Confirm, TypeOK
  <2> QED BY <1>0, <2>1, <2>2, <2>3, ReservedWriters DEF TypeOK
<1> QED BY <1>1, <1>2, <1>3, <1>4

\* The refresh that holds the lock keeps its type.
LEMMA JobTyped == ASSUME IInv, Next PROVE job' \in Job \cup {Null}
<1>0. TypeOK
  BY DEF IInv
<1>1. CASE WorkerRefreshes \/ SenderRefreshes
  <2>1. PICK who \in {"sender", "worker"} : RefreshBegins(who)
    BY <1>1 DEF WorkerRefreshes, SenderRefreshes
  <2>2. PICK m \in [latest: 0..Count, queued: 0..(Count + Cardinality(pool) + 1)] :
           job' = [who |-> who, loaded |-> FALSE, latest |-> m.latest,
                   queued |-> m.queued, floor |-> 0, inflight |-> Null]
    BY <2>1 DEF RefreshBegins, Counts
  <2>3. m.latest \in Nat /\ m.queued \in Nat
    BY <2>2
  <2> QED BY <2>2, <2>3 DEF Job
<1>2. CASE \E who \in {"sender", "worker"} : RefreshLoads(who)
  <2>1. PICK who \in {"sender", "worker"} : RefreshLoads(who)
    BY <1>2
  <2>2. job \in Job /\ pending \in Pending \cup {Null}
        /\ reserved \in [floor: Nat, inflight: Txs \cup {Null}]
    BY <1>0, <2>1 DEF RefreshLoads, TypeOK
  <2> DEFINE floor == IF pending = Null THEN Larger(reserved.floor, job.latest)
                      ELSE Larger(Larger(reserved.floor, job.latest), pending.nonce + 1)
             inflight == IF pending # Null /\ reserved.inflight = Null
                         THEN pending.hash ELSE reserved.inflight
  <2>3. job' = [job EXCEPT !.loaded = TRUE, !.floor = floor, !.inflight = inflight]
    BY <2>1 DEF RefreshLoads
  <2>4. floor \in Nat
    <3>1. reserved.floor \in Nat /\ job.latest \in Nat /\ (pending # Null => pending.nonce \in Nat)
      BY <2>2 DEF Job, Pending
    <3> QED BY <3>1 DEF Larger
  <2>5. inflight \in Txs \cup {Null}
    BY <2>2 DEF Pending
  <2> HIDE DEF floor, inflight
  <2> QED BY <2>2, <2>3, <2>4, <2>5 DEF Job
<1>3. CASE \/ WorkerWrites \/ SenderWrites \/ Sending \/ Waiting \/ Start \/ Verify
           \/ RetryLooks \/ Replace \/ Crash \/ Retry \/ Chain
  <2>1. job' = job \/ job' = Null
    BY <1>3 DEF WorkerWrites, SenderWrites, Goto, Sending, Send, SimulationFails, BeginTx,
       Reserve, Broadcast, Waiting, Round, Poll, GiveUp, Depth, Canonical, RecordReceipt,
       Confirm, Finish, Start, Verify, RetryLooks, Replace, Crash, Retry, Reset, Chain,
       NewBlock, Reorg, Drop, ForeignTx
  <2> QED BY <1>0, <2>1 DEF TypeOK
<1> QED BY <1>1, <1>2, <1>3 DEF Next, Process, Working, Refreshing

\* The sender's memory keeps its type.
LEMMA SenderTyped ==
    ASSUME IInv, Next
    PROVE  /\ pc' \in Step /\ after' \in {"startup", "idle", "exit", Null}
           /\ watch' \subseteq Txs
           /\ receipt' \in Receipt \cup {Null} /\ draft' \in Draft \cup {Null}
<1>0. TypeOK /\ StepInv
  BY DEF IInv
<1> DEFINE Old ==
        /\ pc \in Step /\ after \in {"startup", "idle", "exit", Null}
        /\ watch \subseteq Txs
        /\ receipt \in Receipt \cup {Null} /\ draft \in Draft \cup {Null}
<1>00. Old
  BY <1>0 DEF TypeOK
<1>1. CASE Chain \/ WorkerRefreshes \/ Working \/ SenderRefreshes \/ RefreshLoads("sender")
  BY <1>00, <1>1, SenderFrame DEF sender
<1>2. CASE SenderWrites
  <2>1. /\ pc' \in Step /\ after' \in {after, Null} /\ watch' \in {watch, {}}
        /\ receipt' \in {receipt, Null}
    BY <1>2 DEF SenderWrites, Goto, Reset, Step
  <2>2. draft' \in Draft \cup {Null}
    <3>1. CASE pc = "nonce" /\ draft' = [draft EXCEPT !.nonce = job.latest]
      <4>1. draft \in Draft /\ job \in Job
        BY <1>0, <1>2, <3>1 DEF SenderWrites, TypeOK, StepInv
      <4> QED BY <3>1, <4>1 DEF Draft, Job
    <3>2. CASE draft' \in {draft, Null}
      BY <1>00, <3>2
    <3> QED BY <1>2, <3>1, <3>2 DEF SenderWrites, Goto, Reset
  <2> QED BY <1>00, <2>1, <2>2
<1>3. CASE Send
  <2>1. PICK kind \in Kind :
          draft' = [kind |-> kind, token |-> IF kind = "burn" THEN nft ELSE Null,
                    nonce |-> 0, hash |-> Null, known |-> FALSE]
    BY <1>3 DEF Send
  <2>2. draft' \in Draft
    BY <1>0, <2>1 DEF Draft, TypeOK
  <2> QED BY <1>00, <1>3, <2>2 DEF Send, Step
<1>4. CASE BeginTx \/ Replace
  BY <1>0, <1>00, <1>4, SignsFresh DEF Step
<1>5. CASE RetryLooks
  <2>1. pending \in Pending
    BY <1>0, <1>5 DEF RetryLooks, TypeOK, StepInv, Retrying
  <2>2. [kind |-> "approve", token |-> Null, nonce |-> pending.nonce, hash |-> Null,
         known |-> Candidates \cap pool # {}] \in Draft
    BY <2>1 DEF Draft, Pending, Kind
  <2>3. Candidates \subseteq Txs
    BY <2>1 DEF Candidates, Pending
  <2>4. watch' \subseteq Txs /\ draft' \in Draft \cup {Null}
    BY <1>00, <1>5, <2>2, <2>3 DEF RetryLooks
  <2> QED BY <1>00, <1>5, <2>4 DEF RetryLooks, Step
<1>6. CASE Poll
  <2>1. \A n \in 1..Height : chain[n].fork \in Nat /\ chain[n].ok \in BOOLEAN /\ n \in Nat
    <3>1. chain \in [1..Height -> [tx: Txs \cup {Null, "foreign"}, fork: Nat, ok: BOOLEAN]]
      BY <1>0, LenProperties DEF TypeOK, Height
    <3> QED BY <3>1
  <2>2. receipt' \in Receipt \cup {Null}
    <3>1. CASE \E n \in 1..Height :
                 /\ chain[n].tx \in watch
                 /\ receipt' = [hash |-> chain[n].tx, block |-> n, fork |-> chain[n].fork,
                                ok |-> chain[n].ok]
      BY <1>00, <2>1, <3>1 DEF Receipt
    <3> QED BY <1>00, <1>6, <3>1 DEF Poll
  <2> QED BY <1>00, <1>6, <2>2 DEF Poll, Step
<1>7. CASE Start \/ Broadcast
  <2>1. watch' \subseteq Txs
    <3>1. watch' \in {watch, {}} \/ (pending # Null /\ watch' = Candidates)
      BY <1>0, <1>7 DEF Start, Broadcast, StepInv, Reset
    <3>2. pending # Null => Candidates \subseteq Txs
      BY <1>0 DEF TypeOK, Candidates, Pending
    <3> QED BY <1>00, <3>1, <3>2
  <2> QED BY <1>00, <1>7, <2>1 DEF Start, Broadcast, Step, Reset
<1>8. CASE Finish
  <2>1. after # Null
    BY <1>0, <1>8 DEF Finish, StepInv
  <2>2. pc' \in Step /\ watch' \subseteq Txs /\ receipt' \in {receipt, Null}
        /\ after' \in {after, Null} /\ draft' \in {draft, Null}
    BY <1>00, <1>8, <2>1 DEF Finish, Reset, Step
  <2> QED BY <1>00, <2>2
<1>9. CASE \/ Crash \/ Retry \/ Verify \/ SimulationFails \/ Reserve
           \/ Round \/ GiveUp \/ Depth \/ Canonical \/ RecordReceipt \/ Confirm
  <2>1. /\ watch' \in {watch, {}} /\ draft' \in {draft, Null} /\ receipt' \in {receipt, Null}
        /\ after' \in {after, "idle", "exit", Null}
        /\ pc' \in {"down", "retry", "idle", "broadcast", "poll", "canonical", "wait",
                   "record", "confirm", "finish"}
    BY <1>9 DEF Crash, Retry, Verify, SimulationFails, Reserve, Round, GiveUp, Depth,
       Canonical, RecordReceipt, Confirm, Goto, Reset
  <2> QED BY <1>00, <2>1 DEF Step
<1> QED BY <1>1, <1>2, <1>3, <1>4, <1>5, <1>6, <1>7, <1>8, <1>9
        DEF Next, Process, Refreshing, Sending, Waiting

\* Chain, pool and faults keep their types.
LEMMA ChainTyped ==
    ASSUME IInv, Next
    PROVE  /\ chain' \in Seq([tx: Txs \cup {Null, "foreign"}, fork: Nat, ok: BOOLEAN])
           /\ pool' \subseteq Txs /\ foreign' \in BOOLEAN
           /\ faults' \in 0..MaxFaults
<1>0. TypeOK
  BY DEF IInv
<1>1. chain' \in Seq([tx: Txs \cup {Null, "foreign"}, fork: Nat, ok: BOOLEAN])
  BY <1>0, ChainWriters, NewBlockFacts, ReorgFacts DEF TypeOK
<1>2. pool' \subseteq Txs
  <2>1. CASE NewBlock
    BY <1>0, <2>1, NewBlockFacts DEF TypeOK
  <2>2. CASE Reorg
    BY <1>0, <2>2, ReorgFacts DEF TypeOK
  <2>3. CASE Drop
    BY <1>0, <2>3 DEF Drop, TypeOK
  <2>4. CASE Broadcast
    <3>1. draft.hash \in pending.hashes /\ pending \in Pending
      BY <1>0, <2>4 DEF IInv, StepInv, Broadcast, TypeOK
    <3>2. pool' \in {pool, pool \cup {draft.hash}}
      BY <2>4 DEF Broadcast
    <3> QED BY <1>0, <3>1, <3>2 DEF TypeOK, Pending
  <2> QED BY <1>0, <2>1, <2>2, <2>3, <2>4, ChainWriters DEF TypeOK
<1>3. foreign' \in BOOLEAN /\ faults' \in 0..MaxFaults
  <2>0. foreign \in BOOLEAN /\ faults \in 0..MaxFaults /\ MaxFaults \in Nat
    BY <1>0, NumbersAssumption DEF TypeOK
  <2>1. CASE Chain
    <3>1. foreign' \in BOOLEAN
      BY <1>0, <2>0, <2>1, NewBlockFacts, ReorgFacts DEF Chain, Drop, ForeignTx
    <3>2. faults' = faults \/ (faults < MaxFaults /\ faults' = faults + 1)
      BY <2>1 DEF Chain, NewBlock, Reorg, Drop, ForeignTx
    <3> QED BY <2>0, <3>1, <3>2
  <2>2. CASE Crash
    BY <2>0, <2>2 DEF Crash, net
  <2>3. CASE Retry \/ WorkerRefreshes \/ Working \/ Refreshing
    BY <2>0, <2>3 DEF Retry, WorkerRefreshes, Working, Refreshing, SenderRefreshes,
       RefreshBegins, RefreshLoads, WorkerWrites, SenderWrites, net
  <2>4. CASE Sending \/ Waiting
    BY <2>0, <2>4 DEF Sending, Send, SimulationFails, BeginTx, Reserve, Broadcast, Waiting,
       Round, Poll, GiveUp, Depth, Canonical, RecordReceipt, Confirm, Finish, net
  <2>5. CASE Start \/ Verify \/ RetryLooks \/ Replace
    BY <2>0, <2>5 DEF Start, Verify, RetryLooks, Replace, net
  <2> QED BY <2>1, <2>2, <2>3, <2>4, <2>5 DEF Next, Process
<1> QED BY <1>1, <1>2, <1>3

\* Every step keeps the state typed,
LEMMA TypePreserved == ASSUME IInv, Next PROVE TypeOK'
  BY FilesTyped, JobTyped, SenderTyped, ChainTyped DEF TypeOK
--------------------------------------------------------------------------------
\* The chain and the records.

\* What was signed stays as it was, and a record is added under a fresh hash.
LEMMA SignedKept ==
    ASSUME IInv, Next
    PROVE  \A h \in Txs : signed[h] # Null => signed'[h] = signed[h]
  BY PendingWriters, SignsFresh DEF IInv

\* Heights only grow; blocks that are deep stay.
LEMMA ChainGrows ==
    ASSUME IInv, Next
    PROVE  /\ Height \in Nat /\ Height' \in Nat /\ Height' >= Height
           /\ \A n \in 1..Height : Deep(n) => chain'[n] = chain[n] /\ Deep(n)'
           /\ \A n \in 1..Height' : chain'[n].tx \in Txs =>
                 \/ n \in 1..Height /\ chain'[n] = chain[n]
                 \/ NewBlock /\ n = Height + 1 /\ chain'[n].tx \in pool
<1>0. TypeOK /\ Height \in Nat /\ Confirmations \in Nat
  BY NumbersAssumption DEF IInv, TypeOK, Height
<1>1. CASE chain' = chain
  BY <1>0, <1>1 DEF Height, Deep
<1>2. CASE NewBlock
  <2>1. Height' = Height + 1
    BY <1>0, <1>2, NewBlockFacts
  <2>2. \A n \in 1..Height : chain'[n] = chain[n]
    BY <1>0, <1>2, NewBlockFacts
  <2>3. chain'[Height + 1].tx \in Txs => chain'[Height + 1].tx \in pool
    BY <1>0, <1>2, NewBlockFacts
  <2>4. \A n \in 1..Height' : n \in 1..Height \/ n = Height + 1
    BY <1>0, <2>1
  <2>5. \A n \in 1..Height : Deep(n) => Deep(n)'
    BY <1>0, <2>1 DEF Deep
  <2> QED BY <1>0, <1>2, <2>1, <2>2, <2>3, <2>4, <2>5
<1>3. CASE Reorg
  <2>1. PICK k \in 0..Height :
          /\ k < Height /\ k + Confirmations >= Height
          /\ \A n \in 1..k : chain'[n] = chain[n]
          /\ \A n \in (k + 1)..Height :
                chain'[n] = [tx |-> Null, fork |-> Fork + 1, ok |-> TRUE]
    BY <1>0, <1>3, ReorgFacts
  <2>2. Height' = Height
    BY <1>0, <1>3, ReorgFacts
  <2>3. \A n \in 1..Height : Deep(n) => n \in 1..k
    BY <1>0, <2>1 DEF Deep
  <2>4. \A n \in (k + 1)..Height : chain'[n].tx = Null
    BY <2>1
  <2>5. \A n \in 1..Height : n \in 1..k \/ n \in (k + 1)..Height
    BY <1>0
  <2>6. \A n \in 1..Height : Deep(n) => Deep(n)'
    BY <2>2 DEF Deep
  <2> QED BY <1>0, <2>1, <2>2, <2>3, <2>4, <2>5, <2>6, NullAssumption
<1> QED BY <1>1, <1>2, <1>3, ChainWriters

\* The chain and what was signed are unchanged where a step touches neither.
LEMMA ChainInvKept ==
    ASSUME IInv, Next, chain' = chain,
           \A h \in pool' : h \in pool \/ (signed[h] # Null /\ signed[h].nonce >= Count)
    PROVE  ChainInv'
<1>0. TypeOK /\ ChainInv
  BY DEF IInv
<1>1. Height' = Height /\ Count' = Count /\ \A k : Filled(k)' = Filled(k)
  BY DEF Height, Count, Filled
<1>2. \A h \in Txs : signed[h] # Null => signed'[h] = signed[h] /\ signed'[h] # Null
  BY SignedKept
<1>3. pool' \subseteq Txs
  BY ChainTyped
<1>4. \A n \in 1..Height' : chain'[n].tx \in Txs =>
          signed'[chain'[n].tx] # Null /\ signed'[chain'[n].tx].nonce = Filled(n - 1)'
  BY <1>0, <1>1, <1>2 DEF ChainInv
<1>5. \A h \in pool' : signed'[h] # Null /\ signed'[h].nonce >= Count'
  BY <1>0, <1>1, <1>2, <1>3 DEF ChainInv
<1>6. \A m, n \in 1..Height' : m <= n => chain'[m].fork <= chain'[n].fork
  BY <1>0, <1>1 DEF ChainInv
<1> QED BY <1>4, <1>5, <1>6 DEF ChainInv

\* A new block holds the transaction of the present count.
LEMMA ChainInvNewBlock == ASSUME IInv, NewBlock PROVE ChainInv'
<1>0. TypeOK /\ ChainInv
  BY DEF IInv
<1>1. /\ Height \in Nat /\ Height' = Height + 1 /\ signed' = signed
      /\ \A n \in 1..Height : chain'[n] = chain[n]
      /\ chain'[Height + 1].fork = Fork
      /\ chain'[Height + 1].tx \in Txs =>
            chain'[Height + 1].tx \in pool /\ signed[chain'[Height + 1].tx].nonce = Count
      /\ pool' = IF chain'[Height + 1].tx = Null THEN pool
                 ELSE {h \in pool : signed[h].nonce > Count}
  BY <1>0, NewBlockFacts
<1>2. \A k \in 0..Height : Filled(k)' = Filled(k)
  <2> TAKE k \in 0..Height
  <2>1. k \in Int /\ \A n \in 1..k : chain'[n].tx = chain[n].tx
    BY <1>1
  <2>2. FilledIn(chain', k) = FilledIn(chain, k)
    BY <2>1, FilledAlike
  <2> QED BY <2>2 DEF Filled
<1>3. \A n \in 1..Height' : n \in 1..Height \/ n = Height + 1
  BY <1>1
<1>4. Count = Filled(Height) /\ Count' = FilledIn(chain', Height + 1)
  BY <1>1 DEF Count, Filled, FilledIn
<1>5. Count \in Nat
  BY <1>1, <1>4, FilledNat DEF Filled
<1>6. Count' = IF chain'[Height + 1].tx = Null THEN Count ELSE Count + 1
  <2>1. FilledIn(chain', Height + 1) = IF chain'[Height + 1].tx = Null
                                       THEN FilledIn(chain', Height)
                                       ELSE FilledIn(chain', Height) + 1
    BY <1>1, FilledNext
  <2>2. FilledIn(chain', Height) = Count
    <3>1. Filled(Height)' = FilledIn(chain', Height + 1)
      BY <1>1 DEF Filled
    <3>2. FilledIn(chain', Height) = FilledIn(chain, Height)
      BY <1>1, FilledAlike
    <3> QED BY <1>4, <3>2 DEF Filled
  <2> QED BY <1>4, <2>1, <2>2
<1>7. \A n \in 1..Height' : chain'[n].tx \in Txs =>
          signed'[chain'[n].tx] # Null /\ signed'[chain'[n].tx].nonce = FilledIn(chain', n - 1)
  <2> SUFFICES ASSUME NEW n \in 1..Height', chain'[n].tx \in Txs
               PROVE  /\ signed'[chain'[n].tx] # Null
                      /\ signed'[chain'[n].tx].nonce = FilledIn(chain', n - 1)
    OBVIOUS
  <2>1. FilledIn(chain', n - 1) = FilledIn(chain, n - 1)
    <3>1. n - 1 \in Int /\ \A i \in 1..(n - 1) : chain'[i].tx = chain[i].tx
      BY <1>1
    <3> QED BY <3>1, FilledAlike
  <2>2. CASE n \in 1..Height
    BY <1>0, <1>1, <2>1, <2>2 DEF ChainInv, Filled
  <2>3. CASE n = Height + 1
    <3>1. n - 1 = Height
      BY <1>1, <2>3
    <3> QED BY <1>0, <1>1, <1>4, <2>1, <2>3, <3>1 DEF ChainInv, Filled
  <2> QED BY <1>3, <2>2, <2>3
<1>8. \A h \in pool' : signed'[h] # Null /\ signed'[h].nonce >= Count'
  <2> SUFFICES ASSUME NEW h \in pool' PROVE signed'[h] # Null /\ signed'[h].nonce >= Count'
    OBVIOUS
  <2>1. h \in pool /\ h \in Txs
    BY <1>0, <1>1 DEF TypeOK
  <2>2. signed[h] # Null /\ signed[h].nonce >= Count /\ signed[h].nonce \in Nat
    BY <1>0, <2>1 DEF ChainInv, TypeOK, Signed
  <2>3. chain'[Height + 1].tx # Null => signed[h].nonce > Count
    BY <1>1
  <2> QED BY <1>1, <1>5, <1>6, <2>2, <2>3
<1>9. \A m, n \in 1..Height' : m <= n => chain'[m].fork <= chain'[n].fork
  <2>1. \A i \in 1..Height : chain[i].fork \in Nat
    <3>1. chain \in [1..Height -> [tx: Txs \cup {Null, "foreign"}, fork: Nat, ok: BOOLEAN]]
      BY <1>0, LenProperties DEF TypeOK, Height
    <3> QED BY <3>1
  <2>2. Fork \in Nat /\ \A m \in 1..Height : chain[m].fork <= Fork
    <3>1. CASE Height = 0
      BY <3>1 DEF Fork
    <3>2. CASE Height # 0
      <4>1. Height \in 1..Height /\ Fork = chain[Height].fork
        BY <1>1, <3>2 DEF Fork
      <4> QED BY <1>0, <2>1, <4>1 DEF ChainInv
    <3> QED BY <3>1, <3>2
  <2> SUFFICES ASSUME NEW m \in 1..Height', NEW n \in 1..Height', m <= n
               PROVE  chain'[m].fork <= chain'[n].fork
    OBVIOUS
  <2>3. CASE n \in 1..Height
    <3>1. m \in 1..Height
      BY <1>1, <2>3
    <3> QED BY <1>0, <1>1, <2>3, <3>1 DEF ChainInv
  <2>4. CASE n = Height + 1
    BY <1>1, <1>3, <2>2, <2>4
  <2> QED BY <1>3, <2>3, <2>4
<1> QED BY <1>7, <1>8, <1>9 DEF ChainInv, Filled

\* A reorganisation lowers the count no further than the transactions it frees.
LEMMA ChainInvReorg == ASSUME IInv, Reorg PROVE ChainInv'
<1>0. TypeOK /\ ChainInv
  BY DEF IInv
<1>1. PICK k \in 0..Height :
          /\ k < Height /\ k + Confirmations >= Height
          /\ \A n \in 1..k : chain'[n] = chain[n]
          /\ \A n \in (k + 1)..Height :
                chain'[n] = [tx |-> Null, fork |-> Fork + 1, ok |-> TRUE]
          /\ pool' = pool \cup ({chain[n].tx : n \in (k + 1)..Height} \cap Txs)
  BY <1>0, ReorgFacts
<1>2. Height' = Height /\ Height \in Nat /\ signed' = signed
  BY <1>0, ReorgFacts
<1>3. \A n \in 1..Height : n \in 1..k \/ n \in (k + 1)..Height
  BY <1>2
<1>4. \A n \in 1..Height : chain'[n].tx \in Txs => n \in 1..k
  <2>1. \A n \in (k + 1)..Height : chain'[n].tx = Null
    BY <1>1
  <2> QED BY <1>3, <2>1, NullAssumption
<1>5. \A n \in 1..Height' : chain'[n].tx \in Txs =>
          signed'[chain'[n].tx] # Null /\ signed'[chain'[n].tx].nonce = FilledIn(chain', n - 1)
  <2> SUFFICES ASSUME NEW n \in 1..Height, chain'[n].tx \in Txs
               PROVE  /\ signed[chain'[n].tx] # Null
                      /\ signed[chain'[n].tx].nonce = FilledIn(chain', n - 1)
    BY <1>2
  <2>1. n \in 1..k
    BY <1>4
  <2>2. n - 1 \in Int /\ \A i \in 1..(n - 1) : chain'[i].tx = chain[i].tx
    BY <1>1, <2>1
  <2>3. FilledIn(chain', n - 1) = FilledIn(chain, n - 1)
    BY <2>2, FilledAlike
  <2> QED BY <1>0, <1>1, <2>1, <2>3 DEF ChainInv, Filled
<1>6. Count' = FilledIn(chain, k)
  <2>1. FilledIn(chain', Height) = FilledIn(chain', k)
    <3>1. \A n \in (k + 1)..Height : chain'[n].tx = Null
      BY <1>1
    <3> QED BY <1>1, <1>2, <3>1, FilledFlat
  <2>2. FilledIn(chain', k) = FilledIn(chain, k)
    <3>1. k \in Int /\ \A n \in 1..k : chain'[n].tx = chain[n].tx
      BY <1>1
    <3> QED BY <3>1, FilledAlike
  <2> QED BY <1>2, <2>1, <2>2 DEF Count, FilledIn
<1>7. \A n \in k..Height : FilledIn(chain, n) \in Nat /\ FilledIn(chain, k) <= FilledIn(chain, n)
  BY <1>2, FilledNat, FilledGrows
<1>8. \A h \in pool' : signed'[h] # Null /\ signed'[h].nonce >= Count'
  <2> SUFFICES ASSUME NEW h \in pool' PROVE signed[h] # Null /\ signed[h].nonce >= Count'
    BY <1>2
  <2>1. CASE h \in pool
    <3>1. signed[h] # Null /\ signed[h].nonce >= Count /\ signed[h].nonce \in Nat
      BY <1>0, <2>1 DEF ChainInv, TypeOK, Signed
    <3>2. Count = FilledIn(chain, Height)
      BY DEF Count, FilledIn
    <3> QED BY <1>1, <1>2, <1>6, <1>7, <3>1, <3>2
  <2>2. CASE h \in {chain[n].tx : n \in (k + 1)..Height} \cap Txs
    <3>1. PICK n \in (k + 1)..Height : chain[n].tx = h /\ h \in Txs
      BY <2>2
    <3>2. n \in 1..Height /\ n - 1 \in k..Height
      BY <1>1, <1>2
    <3>3. signed[h] # Null /\ signed[h].nonce = FilledIn(chain, n - 1)
      BY <1>0, <3>1, <3>2 DEF ChainInv, Filled
    <3> QED BY <1>6, <1>7, <3>2, <3>3
  <2> QED BY <1>1, <2>1, <2>2
<1>9. \A m, n \in 1..Height' : m <= n => chain'[m].fork <= chain'[n].fork
  <2>1. chain \in [1..Height -> [tx: Txs \cup {Null, "foreign"}, fork: Nat, ok: BOOLEAN]]
    BY <1>0, LenProperties DEF TypeOK, Height
  <2>2. Height \in 1..Height /\ Fork = chain[Height].fork /\ Fork \in Nat
    BY <1>1, <1>2, <2>1 DEF Fork
  <2>3. \A m \in 1..Height : chain[m].fork <= Fork /\ chain[m].fork \in Nat
    BY <1>0, <1>2, <2>1, <2>2 DEF ChainInv
  <2>4. \A m \in (k + 1)..Height : chain'[m].fork = Fork + 1
    BY <1>1
  <2> SUFFICES ASSUME NEW m \in 1..Height, NEW n \in 1..Height, m <= n
               PROVE  chain'[m].fork <= chain'[n].fork
    BY <1>2
  <2>5. CASE n \in 1..k
    BY <1>0, <1>1, <2>5 DEF ChainInv
  <2>6. CASE n \in (k + 1)..Height
    BY <1>1, <1>3, <2>2, <2>3, <2>4, <2>6
  <2> QED BY <1>3, <2>5, <2>6
<1> QED BY <1>5, <1>8, <1>9 DEF ChainInv, Filled

\* the hashes and blocks of the chain in order,
LEMMA ChainInvPreserved == ASSUME IInv, Next PROVE ChainInv'
<1>1. CASE chain' = chain /\ Broadcast
  <2>1. pending \in Pending /\ draft.hash \in pending.hashes /\ Validated
    BY <1>1 DEF IInv, TypeOK, PendingInv, StepInv, Broadcast
  <2>2. signed[draft.hash] # Null
    BY <2>1 DEF Validated, Decodes, Candidates
  <2>3. \A h \in pool' : h \in pool \/ (h = draft.hash /\ signed[draft.hash].nonce >= Count)
    BY <1>1 DEF Broadcast
  <2> QED BY <1>1, <2>2, <2>3, ChainInvKept
<1>2. CASE chain' = chain /\ ~Broadcast /\ ~NewBlock /\ ~Reorg
  <2>1. pool' \subseteq pool
    BY <1>2, ChainWriters DEF Drop
  <2> QED BY <1>2, <2>1, ChainInvKept
<1> QED BY <1>1, <1>2, ChainWriters, ChainInvNewBlock, ChainInvReorg

\* A burn is signed for the token nfts.json holds, which was minted before.
LEMMA SignedInvPreserved == ASSUME IInv, Next PROVE SignedInv'
<1>0. TypeOK /\ StepInv /\ SignedInv /\ InventoryInv
  BY DEF IInv
<1>1. CASE signed' = signed
  BY <1>0, <1>1 DEF SignedInv
<1>2. CASE BeginTx \/ Replace
  <2>1. PICK h \in Txs :
          /\ signed[h] = Null
          /\ \A g \in Txs : g # h => signed'[g] = signed[g]
          /\ \/ /\ pc = "sign"
                /\ signed'[h] = [kind |-> draft.kind, token |-> draft.token,
                                 nonce |-> draft.nonce, root |-> h]
             \/ signed'[h] = [kind |-> "approve", token |-> Null,
                              nonce |-> pending.nonce, root |-> pending.hash]
    BY <1>0, <1>2, SignsFresh
  <2>2. IF signed'[h].kind = "burn"
        THEN signed'[h].token \in Txs /\ signed[signed'[h].token] # Null
        ELSE signed'[h].token = Null
    BY <1>0, <2>1 DEF StepInv, InventoryInv, TypeOK
  <2>3. \A g \in Txs : signed[g] # Null => signed'[g] # Null
    BY <2>1
  <2>4. \A g \in Txs : signed'[g] # Null =>
           IF signed'[g].kind = "burn"
           THEN signed'[g].token \in Txs /\ signed[signed'[g].token] # Null
           ELSE signed'[g].token = Null
    BY <1>0, <2>1, <2>2 DEF SignedInv
  <2> QED BY <2>3, <2>4 DEF SignedInv
<1> QED BY <1>1, <1>2, PendingWriters

\* The operation of pending.json: its hashes make one call at one nonce.
LEMMA PendingInvPreserved == ASSUME IInv, Next PROVE PendingInv'
<1>0. TypeOK /\ StepInv /\ SignedInv /\ InventoryInv /\ PendingInv
  BY DEF IInv
<1>1. CASE signed' = signed /\ pending' = pending
  BY <1>0, <1>1 DEF PendingInv, Validated, Candidates, Decodes
<1>2. CASE pending' = Null
  BY <1>2 DEF PendingInv
<1>3. CASE BeginTx
  <2>1. PICK h \in Txs :
          /\ signed[h] = Null /\ signed'[h] # Null
          /\ \A g \in Txs : g # h => signed'[g] = signed[g]
          /\ pc = "sign"
          /\ signed'[h] = [kind |-> draft.kind, token |-> draft.token,
                           nonce |-> draft.nonce, root |-> h]
          /\ pending' = [hash |-> h, nonce |-> draft.nonce, kind |-> draft.kind,
                         hashes |-> {h}]
    BY <1>0, <1>3, SignsFresh
  <2>2. Validated'
    BY <2>1 DEF Validated, Candidates, Decodes
  <2>3. \A g \in Txs : signed[g] # Null => signed[g].token # h
    BY <1>0, <2>1, NullAssumption DEF SignedInv
  <2>4. draft.token # h
    BY <1>0, <2>1, NullAssumption DEF StepInv, InventoryInv
  <2>5. \A g \in Txs : signed'[g] # Null => signed'[g].token # pending'.hash
    BY <2>1, <2>3, <2>4
  <2> QED BY <2>1, <2>2, <2>5 DEF PendingInv
<1>4. CASE Replace
  <2>1. PICK h \in Txs :
          /\ signed[h] = Null /\ signed'[h] # Null
          /\ \A g \in Txs : g # h => signed'[g] = signed[g]
          /\ pc = "replace" /\ pending \in Pending
          /\ signed'[h] = [kind |-> "approve", token |-> Null,
                           nonce |-> pending.nonce, root |-> pending.hash]
          /\ pending' = [pending EXCEPT !.hashes = pending.hashes \cup {h}]
    BY <1>0, <1>4, SignsFresh
  <2>2. /\ pending'.hash = pending.hash /\ pending'.nonce = pending.nonce
        /\ pending'.kind = pending.kind /\ pending'.hashes = pending.hashes \cup {h}
        /\ pending.hash \in Txs /\ pending.hashes \subseteq Txs /\ pending # Null
    BY <2>1, NullAssumption DEF Pending
  <2>3. /\ Validated /\ pending.kind = "approve" /\ signed[pending.hash].kind = "approve"
        /\ \A g \in pending.hashes : signed[g] # Null
    BY <1>0, <2>1, <2>2 DEF PendingInv, StepInv, Retrying, Validated, Candidates, Decodes
  <2>4. signed[pending.hash].token = Null /\ pending.hash \in pending.hashes
    BY <1>0, <2>2, <2>3 DEF SignedInv, Validated, Candidates
  <2>5. \A g \in pending.hashes : signed'[g] = signed[g]
    BY <2>1, <2>2, <2>3
  <2>6. Validated'
    BY <2>1, <2>2, <2>3, <2>4, <2>5 DEF Validated, Candidates, Decodes
  <2>7. \A g \in pending'.hashes : signed'[g].root = pending'.hash
    BY <1>0, <2>1, <2>2, <2>5 DEF PendingInv
  <2>8. \A g \in Txs : signed'[g] # Null => signed'[g].token # pending'.hash
    BY <1>0, <2>1, <2>2, NullAssumption DEF PendingInv
  <2> QED BY <2>2, <2>3, <2>4, <2>5, <2>6, <2>7, <2>8 DEF PendingInv
<1> QED BY <1>1, <1>2, <1>3, <1>4, PendingWriters DEF Finish
--------------------------------------------------------------------------------
\* The floor of evm_nonce.json.

\* The floor never falls, and begin and a replacement leave it.
LEMMA FloorGrows ==
    ASSUME IInv, Next
    PROVE  /\ reserved.floor \in Nat /\ reserved'.floor \in Nat
           /\ reserved'.floor >= reserved.floor
<1>0. TypeOK
  BY DEF IInv
<1>1. reserved.floor \in Nat /\ reserved'.floor \in Nat
  BY <1>0, FilesTyped DEF TypeOK
<1>2. CASE WorkerWrites \/ SenderWrites
  <2>1. job # Null /\ job.loaded /\ reserved'.floor = job.floor
    BY <1>2 DEF WorkerWrites, SenderWrites, Saved
  <2> QED BY <1>1, <2>1 DEF IInv, JobInv
<1>3. CASE Reserve
  <2>1. draft.nonce + 1 \in Nat
    BY <1>0, <1>3 DEF IInv, StepInv, Reserve, TypeOK, Draft
  <2>2. reserved'.floor \in {reserved.floor, Larger(reserved.floor, draft.nonce + 1)}
    BY <1>3 DEF Reserve
  <2> QED BY <1>1, <2>1, <2>2 DEF Larger
<1>4. CASE Confirm
  BY <1>0, <1>1, <1>4 DEF Confirm, TypeOK
<1> QED BY <1>1, <1>2, <1>3, <1>4, ReservedWriters

\* What the node may mine was sent at a nonce the floor has passed.
LEMMA NothingNew ==
    ASSUME IInv, Next, NEW h \in Txs, h \in pool' \/ InBlock(h)'
    PROVE  \/ h \in pool \/ InBlock(h)
           \/ Broadcast /\ h = draft.hash
<1>0. TypeOK
  BY DEF IInv
<1>1. CASE InBlock(h)'
  <2>1. PICK n \in 1..Height' : chain'[n].tx = h
    BY <1>1 DEF InBlock
  <2>2. \/ n \in 1..Height /\ chain'[n] = chain[n]
        \/ chain'[n].tx \in pool
    BY <2>1, ChainGrows
  <2> QED BY <2>1, <2>2 DEF InBlock
<1>2. CASE h \in pool'
  <2>1. CASE NewBlock
    BY <1>0, <1>2, <2>1, NewBlockFacts
  <2>2. CASE Reorg
    <3>1. PICK k \in 0..Height :
            pool' = pool \cup ({chain[n].tx : n \in (k + 1)..Height} \cap Txs)
      BY <1>0, <2>2, ReorgFacts
    <3>2. CASE h \in {chain[n].tx : n \in (k + 1)..Height}
      <4>1. PICK n \in (k + 1)..Height : chain[n].tx = h
        BY <3>2
      <4>2. n \in 1..Height
        BY <4>1, ChainGrows
      <4> QED BY <4>1, <4>2 DEF InBlock
    <3> QED BY <1>2, <3>1, <3>2
  <2>3. CASE Broadcast
    BY <1>2, <2>3 DEF Broadcast
  <2> QED BY <1>2, <2>1, <2>2, <2>3, ChainWriters DEF Drop
<1> QED BY <1>1, <1>2

\* the nonces in use below the recorded floor,
LEMMA FloorInvPreserved == ASSUME IInv, Next PROVE FloorInv'
<1>0. TypeOK /\ StepInv /\ FloorInv /\ PendingInv /\ ChainInv
  BY DEF IInv
<1>1. /\ reserved.floor \in Nat /\ reserved'.floor \in Nat
      /\ reserved'.floor >= reserved.floor
  BY FloorGrows
<1>2. \A h \in Txs : signed[h] # Null => signed[h].nonce \in Nat
  BY <1>0 DEF TypeOK, Signed
<1>3. \A h \in Txs : h \in pool \/ InBlock(h) => signed[h] # Null
  BY <1>0, MinedNotWaiting DEF ChainInv
<1>4. Broadcast => /\ pending # Null /\ pending.nonce < reserved.floor
                   /\ draft.hash \in pending.hashes /\ pending \in Pending
                   /\ signed[draft.hash] # Null /\ signed[draft.hash].nonce = pending.nonce
  BY <1>0 DEF Broadcast, StepInv, TypeOK, PendingInv, Validated, Candidates, Decodes
<1>5. \A h \in Txs : h \in pool' \/ InBlock(h)' => signed'[h].nonce < reserved'.floor
  <2> SUFFICES ASSUME NEW h \in Txs, h \in pool' \/ InBlock(h)'
               PROVE  signed'[h].nonce < reserved'.floor
    OBVIOUS
  <2>1. h \in pool \/ InBlock(h) \/ (Broadcast /\ h = draft.hash)
    BY NothingNew
  <2>2. signed[h] # Null /\ signed[h].nonce < reserved.floor
    BY <1>0, <1>3, <1>4, <2>1 DEF FloorInv
  <2>3. signed'[h] = signed[h]
    BY <2>2, SignedKept
  <2> QED BY <1>1, <1>2, <2>2, <2>3
<1>6. \A h \in Txs : signed'[h] # Null =>
          \/ signed'[h].nonce < reserved'.floor
          \/ pending' # Null /\ h \in pending'.hashes
  <2>1. CASE signed' = signed /\ pending' = pending
    BY <1>0, <1>1, <1>2, <2>1 DEF FloorInv
  <2>2. CASE Finish
    <3>1. /\ pc = "finish" /\ pending # Null /\ pending.nonce < reserved.floor
          /\ signed' = signed
      BY <1>0, <2>2 DEF Finish, StepInv, Mined, Awaiting
    <3>2. \A h \in pending.hashes : signed[h].nonce = pending.nonce
      BY <1>0, <3>1 DEF PendingInv, Validated, Candidates
    <3>3. \A h \in Txs : signed[h] # Null => signed[h].nonce < reserved.floor
      BY <1>0, <3>1, <3>2 DEF FloorInv
    <3> QED BY <1>1, <1>2, <3>1, <3>3
  <2>3. CASE BeginTx \/ Replace
    <3>1. PICK h \in Txs :
             /\ \A g \in Txs : g # h => signed'[g] = signed[g]
             /\ pending' # Null /\ h \in pending'.hashes
             /\ pending # Null => pending.hashes \subseteq pending'.hashes
      <4>1. pending' # Null
        BY <1>0, <2>3, SignsFresh, NullAssumption
      <4>2. CASE BeginTx
        <5>1. PICK h \in Txs :
                /\ \A g \in Txs : g # h => signed'[g] = signed[g]
                /\ pending = Null
                /\ pending' = [hash |-> h, nonce |-> draft.nonce, kind |-> draft.kind,
                               hashes |-> {h}]
          BY <1>0, <4>2, SignsFresh
        <5> QED BY <4>1, <5>1
      <4>3. CASE Replace
        <5>1. PICK h \in Txs :
                /\ \A g \in Txs : g # h => signed'[g] = signed[g]
                /\ pending \in Pending
                /\ pending' = [pending EXCEPT !.hashes = pending.hashes \cup {h}]
          BY <1>0, <4>3, SignsFresh
        <5>2. pending'.hashes = pending.hashes \cup {h}
          BY <5>1 DEF Pending
        <5> QED BY <4>1, <5>1, <5>2
      <4> QED BY <2>3, <4>2, <4>3
    <3> QED BY <1>0, <1>1, <1>2, <3>1 DEF FloorInv
  <2> QED BY <2>1, <2>2, <2>3, PendingWriters
<1> QED BY <1>5, <1>6 DEF FloorInv
--------------------------------------------------------------------------------
\* The lock, and the steps of the sender.

\* A replacement keeps the operation; only store.finish ends it.
LEMMA OperationKept ==
    ASSUME IInv, Next, pending # Null
    PROVE  \/ Finish
           \/ /\ pending \in Pending /\ pending' # Null /\ pending'.hash = pending.hash
              /\ pending'.nonce = pending.nonce /\ pending'.kind = pending.kind
              /\ pending.hashes \subseteq pending'.hashes
              /\ ~Replace => pending' = pending
<1>0. TypeOK /\ StepInv /\ pending \in Pending
  BY DEF IInv, TypeOK
<1>1. CASE Replace
  <2>1. PICK h \in Txs : pending' = [pending EXCEPT !.hashes = pending.hashes \cup {h}]
    BY <1>0, <1>1, SignsFresh
  <2>2. pending' # Null
    BY <1>0, <1>1, SignsFresh, NullAssumption
  <2>3. /\ pending'.hash = pending.hash /\ pending'.nonce = pending.nonce
        /\ pending'.kind = pending.kind /\ pending'.hashes = pending.hashes \cup {h}
    BY <1>0, <2>1 DEF Pending
  <2> QED BY <1>0, <1>1, <2>2, <2>3
<1> QED BY <1>0, <1>1, PendingWriters DEF BeginTx

\* what a refresh knows no older than the files,
LEMMA JobInvPreserved == ASSUME IInv, Next PROVE JobInv'
<1>0. TypeOK /\ JobInv /\ ReservationHasOperation /\ StepInv
  BY DEF IInv
<1>1. ASSUME job' # Null, job'.loaded
      PROVE  /\ job'.floor >= reserved'.floor
             /\ job'.inflight # Null => pending' # Null /\ job'.inflight = pending'.hash
  <2>1. CASE \E who \in {"sender", "worker"} : RefreshLoads(who)
    <3>1. PICK who \in {"sender", "worker"} : RefreshLoads(who)
      BY <2>1
    <3> DEFINE base == Larger(reserved.floor, job.latest)
               floor == IF pending = Null THEN base ELSE Larger(base, pending.nonce + 1)
               inflight == IF pending # Null /\ reserved.inflight = Null
                           THEN pending.hash ELSE reserved.inflight
    <3>2. /\ job' = [job EXCEPT !.loaded = TRUE, !.floor = floor, !.inflight = inflight]
          /\ UNCHANGED <<reserved, pending>>
      BY <3>1 DEF RefreshLoads, disk
    <3>3. job'.floor = floor /\ job'.inflight = inflight
      <4>1. job \in Job
        BY <1>0, <3>1 DEF TypeOK, RefreshLoads
      <4> HIDE DEF floor, inflight
      <4> QED BY <3>2, <4>1 DEF Job
    <3>4. floor >= reserved.floor
      <4>1. /\ reserved.floor \in Nat /\ job.latest \in Nat
            /\ pending # Null => pending.nonce \in Nat
        BY <1>0, <3>1 DEF TypeOK, RefreshLoads, Job, Pending
      <4> QED BY <4>1 DEF Larger
    <3>5. inflight # Null => pending # Null /\ inflight = pending.hash
      BY <1>0 DEF ReservationHasOperation
    <3> QED BY <3>2, <3>3, <3>4, <3>5
  <2>2. CASE job' = job
    <3>1. reserved' = reserved
      <4>1. ~Reserve /\ ~Confirm
        BY <1>1, <2>2 DEF Reserve, Confirm, Unlocked
      <4>2. WorkerWrites \/ SenderWrites => job' = Null
        BY DEF WorkerWrites, SenderWrites, Reset
      <4> QED BY <1>1, <4>1, <4>2, ReservedWriters
    <3>2. ~Finish
      BY <1>0, <1>1, <2>2 DEF Finish, JobInv
    <3>3. pending # Null => pending' # Null /\ pending'.hash = pending.hash
      BY <3>2, OperationKept
    <3> QED BY <1>0, <1>1, <2>2, <3>1, <3>3 DEF JobInv
  <2>3. CASE WorkerRefreshes \/ SenderRefreshes
    BY <1>1, <2>3 DEF WorkerRefreshes, SenderRefreshes, RefreshBegins
  <2>4. job' \in {job, Null} \/ WorkerRefreshes \/ SenderRefreshes
        \/ \E who \in {"sender", "worker"} : RefreshLoads(who)
    <3>1. CASE \/ WorkerWrites \/ SenderWrites \/ Sending \/ Waiting \/ Start \/ Verify
               \/ RetryLooks \/ Replace \/ Crash \/ Retry \/ Chain
      BY <3>1 DEF WorkerWrites, SenderWrites, Goto, Sending, Send, SimulationFails, BeginTx,
         Reserve, Broadcast, Waiting, Round, Poll, GiveUp, Depth, Canonical, RecordReceipt,
         Confirm, Finish, Start, Verify, RetryLooks, Replace, Crash, Retry, Reset, Chain,
         NewBlock, Reorg, Drop, ForeignTx
    <3> QED BY <3>1 DEF Next, Process, Working, Refreshing
  <2> QED BY <1>1, <2>1, <2>2, <2>3, <2>4
<1>2. ASSUME pc' = "finish" PROVE job' = Null /\ reserved'.inflight = Null
  <2>1. CASE Confirm
    <3>1. job = Null /\ UNCHANGED job /\ reserved' = [reserved EXCEPT !.inflight = Null]
      BY <1>2, <2>1 DEF Confirm, Unlocked, Reset
    <3> QED BY <1>0, <3>1 DEF TypeOK
  <2>2. CASE Chain \/ WorkerRefreshes \/ Working \/ SenderRefreshes \/ RefreshLoads("sender")
    <3>1. pc = "finish" /\ job = Null /\ reserved.inflight = Null
      BY <1>0, <1>2, <2>2, SenderFrame DEF sender, JobInv
    <3>2. Chain
      BY <2>2, <3>1 DEF WorkerRefreshes, Working, SenderRefreshes, RefreshBegins, RefreshLoads,
         WorkerWrites, Unlocked
    <3> QED BY <3>1, <3>2 DEF Chain, NewBlock, Reorg, Drop, ForeignTx, disk
  <2>3. CASE \/ SenderWrites \/ Sending \/ Round \/ Poll \/ GiveUp \/ Depth \/ Canonical
             \/ RecordReceipt \/ Start \/ Verify \/ RetryLooks \/ Replace \/ Crash \/ Retry
    BY <1>2, <2>3 DEF SenderWrites, Goto, Sending, Send, SimulationFails, BeginTx,
       Reserve, Broadcast, Round, Poll, GiveUp, Depth, Canonical, RecordReceipt,
       Start, Verify, RetryLooks, Replace, Crash, Retry, Reset
  <2>4. CASE Finish
    BY <1>0, <1>2, <2>4 DEF Finish, Reset, TypeOK, StepInv
  <2> QED BY <2>1, <2>2, <2>3, <2>4 DEF Next, Process, Refreshing, Waiting
<1> QED BY <1>1, <1>2 DEF JobInv

\* evm_nonce.json reserves a nonce for the operation of pending.json or for none.
LEMMA ReservationKept == ASSUME IInv, Next PROVE ReservationHasOperation'
<1>0. TypeOK /\ JobInv /\ ReservationHasOperation /\ StepInv
  BY DEF IInv
<1>1. CASE WorkerWrites \/ SenderWrites
  BY <1>0, <1>1 DEF WorkerWrites, SenderWrites, Saved, JobInv, ReservationHasOperation
<1>2. CASE Reserve
  BY <1>0, <1>2 DEF Reserve, StepInv, ReservationHasOperation
<1>3. CASE Confirm
  BY <1>0, <1>3 DEF Confirm, TypeOK, ReservationHasOperation
<1>4. CASE reserved' = reserved
  <2>1. CASE Finish
    BY <1>0, <1>4, <2>1 DEF Finish, JobInv, ReservationHasOperation
  <2>2. CASE pending # Null /\ ~Finish
    BY <1>0, <1>4, <2>2, OperationKept DEF ReservationHasOperation
  <2>3. CASE pending = Null
    BY <1>0, <1>4, <2>3 DEF ReservationHasOperation
  <2> QED BY <2>1, <2>2, <2>3
<1> QED BY <1>1, <1>2, <1>3, <1>4, ReservedWriters

\* A step that leaves the sender, its files and the records alone.
LEMMA StepFrame ==
    ASSUME IInv, Next, UNCHANGED <<sender, signed, pending, nft>>
    PROVE  StepInv'
<1>1. StepInv /\ TypeOK
  BY DEF IInv
<1>2. /\ reserved.floor \in Nat /\ reserved'.floor \in Nat
      /\ reserved'.floor >= reserved.floor
  BY FloorGrows
<1>3. pending # Null => pending.nonce \in Nat
  BY <1>1 DEF TypeOK, Pending
<1>4. pc \in {"broadcast", "replace"} \cup Mined => pending'.nonce < reserved'.floor
  <2>1. pc \in {"broadcast", "replace"} \cup Mined => pending # Null
    BY <1>1 DEF StepInv, Mined, Awaiting, Retrying
  <2> QED BY <1>1, <1>2, <1>3, <2>1 DEF StepInv
<1> HIDE DEF Mined
<1> QED BY <1>1, <1>4 DEF StepInv, sender, Resolved, Awaiting, Retrying

\* The end of the process, or of its attempt, asks for nothing.
LEMMA StepDown == ASSUME Reset PROVE StepInv'
  BY DEF Reset, StepInv, Resolved, Awaiting, Retrying, Mined

\* What the available nonce means: nothing was ever signed at it or above.
LEMMA AvailableIsFree ==
    ASSUME IInv, job # Null, job.loaded, Available(job), pending = Null
    PROVE  \A h \in Txs : signed[h] # Null => signed[h].nonce < job.latest
<1>1. job \in Job /\ reserved.floor \in Nat
  BY DEF IInv, TypeOK
<1>2. job.latest >= job.floor /\ job.floor >= reserved.floor
  BY DEF Available, IInv, JobInv
<1>3. \A h \in Txs : signed[h] # Null =>
          signed[h].nonce < reserved.floor /\ signed[h].nonce \in Nat
  BY DEF IInv, FloorInv, TypeOK, Signed
<1> QED BY <1>1, <1>2, <1>3 DEF Job

\* The refresh of the sender, written.
LEMMA StepSenderWrites == ASSUME IInv, Next, SenderWrites PROVE StepInv'
<1>0. /\ TypeOK /\ StepInv /\ job \in Job /\ job # Null /\ job.loaded
      /\ UNCHANGED <<pending, nft, signed>> /\ reserved'.floor = job.floor
  BY DEF IInv, TypeOK, SenderWrites, Saved
<1>1. CASE pc = "wait" /\ Goto("poll")
  BY <1>0, <1>1 DEF StepInv, Goto, Resolved, Awaiting, Retrying, Mined
<1>2. CASE pc = "startup" /\ Goto("verify")
  BY <1>0, <1>2 DEF StepInv, Goto, Resolved, Awaiting, Retrying, Mined
<1>3. CASE /\ pc = "nonce" /\ Available(job) /\ pc' = "sign"
           /\ draft' = [draft EXCEPT !.nonce = job.latest] /\ UNCHANGED <<after, watch, receipt>>
  <2>1. pending = Null /\ draft \in Draft /\ draft # Null
    BY <1>0, <1>3 DEF StepInv, Resolved, TypeOK
  <2>2. /\ draft' # Null /\ draft'.nonce = job.latest /\ draft'.kind = draft.kind
        /\ draft'.token = draft.token
    <3>1. draft' \in Draft
      BY <1>0, <1>3, <2>1 DEF Draft, Job
    <3> QED BY <1>3, <2>1, <3>1, NullAssumption DEF Draft
  <2>3. \A h \in Txs : signed[h] # Null => signed[h].nonce < job.latest
    BY <1>0, <1>3, <2>1, AvailableIsFree
  <2> QED BY <1>0, <1>3, <2>1, <2>2, <2>3 DEF StepInv, Resolved, Awaiting, Retrying, Mined
<1>4. CASE pc = "retry_nonce" /\ Replaceable(job) /\ Goto("replace")
  <2>1. pending # Null /\ pending \in Pending /\ job.floor = pending.nonce + 1
    BY <1>0, <1>4 DEF StepInv, Awaiting, Retrying, Replaceable, TypeOK
  <2>2. pending.nonce < reserved'.floor
    BY <1>0, <2>1 DEF Pending
  <2> QED BY <1>0, <1>4, <2>1, <2>2 DEF StepInv, Goto, Resolved, Awaiting, Retrying, Mined
<1> QED BY <1>0, <1>1, <1>2, <1>3, <1>4, StepDown DEF SenderWrites

\* A transaction of pending.json that was mined was sent below the floor.
LEMMA MinedBelowFloor ==
    ASSUME IInv, pending # Null, NEW h \in pending.hashes, InBlock(h)
    PROVE  pending.nonce < reserved.floor
<1>1. pending \in Pending /\ Validated
  BY DEF IInv, TypeOK, PendingInv
<1>2. h \in Txs /\ signed[h].nonce = pending.nonce
  BY <1>1 DEF Pending, Validated, Candidates
<1> QED BY <1>2 DEF IInv, FloorInv

\* Signing, reserving and sending.
LEMMA StepSending == ASSUME IInv, Next, Sending PROVE StepInv'
<1>0. TypeOK /\ StepInv
  BY DEF IInv
<1>1. CASE Send
  <2>1. PICK kind \in Kind :
          /\ kind = "mint" => nft = Null
          /\ kind = "burn" => nft # Null
          /\ draft' = [kind |-> kind, token |-> IF kind = "burn" THEN nft ELSE Null,
                       nonce |-> 0, hash |-> Null, known |-> FALSE]
    BY <1>1 DEF Send
  <2>2. draft' \in Draft /\ draft' # Null
    <3>1. draft' \in Draft
      BY <1>0, <2>1 DEF Draft, TypeOK
    <3> QED BY <3>1, NullAssumption
  <2>3. draft'.kind = kind /\ draft'.token = IF kind = "burn" THEN nft ELSE Null
    BY <2>1
  <2>4. /\ pc = "idle" /\ pc' = "nonce" /\ pending = Null /\ pending' = pending
        /\ nft' = nft /\ after' = after
    BY <1>1 DEF Send, disk
  <2> QED BY <1>0, <2>1, <2>2, <2>3, <2>4 DEF StepInv, Resolved, Awaiting, Retrying, Mined
<1>2. CASE SimulationFails
  BY <1>2, StepDown DEF SimulationFails
<1>3. CASE BeginTx
  <2>1. PICK h \in Txs :
          /\ pc = "sign" /\ pc' = "reserve" /\ draft'.hash = h /\ draft'.nonce = draft.nonce
          /\ pending' = [hash |-> h, nonce |-> draft.nonce, kind |-> draft.kind,
                         hashes |-> {h}]
    BY <1>0, <1>3, SignsFresh
  <2>2. after' = after /\ draft' # Null /\ pending' # Null
    BY <1>0, <1>3, SignsFresh, NullAssumption
  <2>3. pending'.hash = h /\ pending'.nonce = draft.nonce
    BY <2>1
  <2> QED BY <1>0, <2>1, <2>2, <2>3 DEF StepInv, Resolved, Awaiting, Retrying, Mined
<1>4. CASE Reserve /\ ~Reset
  <2>1. /\ pc = "reserve" /\ pc' = "broadcast" /\ UNCHANGED <<after, draft, pending, nft>>
        /\ reserved' = [floor |-> Larger(reserved.floor, draft.nonce + 1),
                        inflight |-> draft.hash]
    BY <1>4 DEF Reserve, Goto
  <2>2. /\ pending # Null /\ pending \in Pending /\ Validated
        /\ draft.hash = pending.hash /\ draft.nonce = pending.nonce /\ draft # Null
    BY <1>0, <2>1 DEF StepInv, TypeOK, IInv, PendingInv
  <2>3. pending.nonce < reserved'.floor
    <3>1. reserved.floor \in Nat /\ pending.nonce \in Nat
      BY <1>0, <2>2 DEF TypeOK, Pending
    <3>2. reserved'.floor = Larger(reserved.floor, pending.nonce + 1)
      BY <2>1, <2>2
    <3> QED BY <3>1, <3>2 DEF Larger
  <2>4. draft.hash \in pending.hashes
    BY <2>2 DEF Validated, Candidates
  <2> QED BY <1>0, <2>1, <2>2, <2>3, <2>4 DEF StepInv, Resolved, Awaiting, Retrying, Mined
<1>5. CASE Broadcast /\ ~Reset
  <2>1. /\ pc = "broadcast" /\ pc' = "wait" /\ watch' = pending.hashes
        /\ UNCHANGED <<after, pending, nft>>
    BY <1>5 DEF Broadcast, disk, Candidates
  <2> QED BY <1>0, <2>1 DEF StepInv, Resolved, Awaiting, Retrying, Mined
<1> QED BY <1>1, <1>2, <1>3, <1>4, <1>5, StepDown DEF Sending

\* Waiting for a receipt and settling it.
LEMMA StepWaiting == ASSUME IInv, Next, Waiting PROVE StepInv'
<1>0. TypeOK /\ StepInv
  BY DEF IInv
<1>1. CASE Poll
  <2>1. /\ pc = "poll" /\ pending # Null /\ watch = pending.hashes
        /\ UNCHANGED <<pending, reserved, nft, after, watch, draft>> /\ after # Null
    BY <1>0, <1>1 DEF Poll, StepInv, Awaiting, disk
  <2>2. CASE pc' = "wait"
    BY <2>1, <2>2 DEF StepInv, Resolved, Awaiting, Retrying, Mined
  <2>3. CASE pc' = "depth" /\ \E n \in 1..Height : chain[n].tx \in watch
    <3>1. PICK n \in 1..Height : chain[n].tx \in watch
      BY <2>3
    <3>2. pending.nonce < reserved.floor
      BY <2>1, <3>1, MinedBelowFloor DEF InBlock
    <3> QED BY <2>1, <2>3, <3>2 DEF StepInv, Resolved, Awaiting, Retrying, Mined
  <2> QED BY <1>1, <2>2, <2>3 DEF Poll
<1>2. CASE Round
  BY <1>0, <1>2 DEF Round, Goto, disk, StepInv, Resolved, Awaiting, Retrying, Mined
<1>3. CASE GiveUp
  BY <1>3, StepDown DEF GiveUp
<1>4. CASE Depth
  BY <1>0, <1>4 DEF Depth, Goto, disk, StepInv, Resolved, Awaiting, Retrying, Mined
<1>5. CASE Canonical
  <2>1. Goto("record") \/ Goto("confirm") \/ Reset
    BY <1>5 DEF Canonical
  <2>2. pc = "canonical" /\ UNCHANGED disk
    BY <1>5 DEF Canonical
  <2> QED BY <1>0, <2>1, <2>2, StepDown DEF Goto, disk, StepInv, Resolved, Awaiting, Retrying, Mined
<1>6. CASE RecordReceipt
  <2>1. pc = "record" /\ Goto("confirm") /\ UNCHANGED <<pending, reserved>>
    BY <1>6 DEF RecordReceipt
  <2> QED BY <1>0, <2>1 DEF Goto, StepInv, Resolved, Awaiting, Retrying, Mined
<1>7. CASE Confirm
  <2>1. (Goto("finish") /\ reserved' = [reserved EXCEPT !.inflight = Null]) \/ Reset
    BY <1>7 DEF Confirm
  <2>2. pc = "confirm" /\ UNCHANGED <<pending, nft>>
    BY <1>7 DEF Confirm
  <2>3. Goto("finish") => reserved'.floor = reserved.floor \/ Reset
    BY <1>0, <2>1 DEF TypeOK
  <2> QED BY <1>0, <2>1, <2>2, <2>3, StepDown
          DEF Goto, StepInv, Resolved, Awaiting, Retrying, Mined
<1>8. CASE Finish
  <2>1. CASE Reset
    BY <2>1, StepDown
  <2>2. CASE ~Reset
    <3>1. /\ pc' = after /\ after' = after /\ pending' = Null /\ after # "exit" /\ after # Null
      BY <1>0, <1>8, <2>2 DEF Finish, StepInv
    <3>2. after \in {"startup", "idle"}
      BY <1>0, <3>1 DEF TypeOK
    <3> QED BY <3>1, <3>2 DEF StepInv, Resolved, Awaiting, Retrying, Mined
  <2> QED BY <2>1, <2>2
<1> QED BY <1>1, <1>2, <1>3, <1>4, <1>5, <1>6, <1>7, <1>8 DEF Waiting

\* the step of the sender that of its files,
LEMMA StepInvPreserved == ASSUME IInv, Next PROVE StepInv'
<1>0. TypeOK /\ StepInv
  BY DEF IInv
<1>1. CASE Chain \/ WorkerRefreshes \/ Working \/ SenderRefreshes \/ RefreshLoads("sender")
  BY <1>1, StepFrame, SenderFrame
<1>2. CASE Start
  <2>1. /\ pc = "down" /\ after' = "startup" /\ UNCHANGED <<pending, nft>>
        /\ \/ pending = Null /\ pc' = "startup"
           \/ pending # Null /\ pc' = "wait" /\ watch' = pending.hashes
    BY <1>2 DEF Start, disk, Candidates
  <2>2. "startup" # Null
    BY NullAssumption
  <2> QED BY <2>1, <2>2 DEF StepInv, Resolved, Awaiting, Retrying, Mined
<1>3. CASE Verify
  <2>1. (pc' = "idle" /\ after' = "idle") \/ Reset
    BY <1>3 DEF Verify
  <2>2. pending = Null /\ pending' = pending /\ "idle" # Null
    BY <1>0, <1>3, NullAssumption DEF Verify, StepInv, Resolved, disk
  <2> QED BY <2>1, <2>2, StepDown DEF StepInv, Resolved, Awaiting, Retrying, Mined
<1>4. CASE Retry
  <2>1. /\ pending # Null /\ pending.kind = "approve" /\ pc' = "retry" /\ after' = "exit"
        /\ UNCHANGED <<pending, nft>> /\ "exit" # Null
    BY <1>4, NullAssumption DEF Retry, disk
  <2> QED BY <2>1 DEF StepInv, Resolved, Awaiting, Retrying, Mined
<1>5. CASE RetryLooks
  <2>1. /\ pc = "retry" /\ pending # Null /\ pending \in Pending /\ pending.kind = "approve"
        /\ after # Null /\ UNCHANGED <<pending, nft, after>>
    BY <1>0, <1>5 DEF RetryLooks, StepInv, Awaiting, Retrying, TypeOK, disk
  <2>2. CASE pc' = "wait" /\ watch' = pending.hashes
    BY <2>1, <2>2 DEF StepInv, Resolved, Awaiting, Retrying, Mined
  <2>3. CASE /\ pc' = "retry_nonce"
             /\ draft' = [kind |-> "approve", token |-> Null, nonce |-> pending.nonce,
                          hash |-> Null, known |-> Candidates \cap pool # {}]
    <3>1. draft' \in Draft
      BY <2>1, <2>3 DEF Draft, Pending, Kind
    <3>2. draft' # Null
      BY <3>1, NullAssumption
    <3> QED BY <2>1, <2>3, <3>2 DEF StepInv, Resolved, Awaiting, Retrying, Mined
  <2> QED BY <1>5, <2>2, <2>3 DEF RetryLooks, Candidates
<1>6. CASE Replace
  <2>1. PICK h \in Txs :
          /\ pc = "replace" /\ pc' = "broadcast" /\ draft'.hash = h
          /\ pending' = [pending EXCEPT !.hashes = pending.hashes \cup {h}]
    BY <1>0, <1>6, SignsFresh
  <2>2. UNCHANGED <<after, reserved>> /\ draft' # Null /\ pending' # Null
    BY <1>0, <1>6, SignsFresh, NullAssumption
  <2>3. pending # Null /\ pending \in Pending /\ pending.nonce < reserved.floor /\ after # Null
    BY <1>0, <2>1 DEF StepInv, Awaiting, Retrying, TypeOK
  <2>4. pending'.nonce = pending.nonce /\ pending'.hashes = pending.hashes \cup {h}
    BY <2>1, <2>3 DEF Pending
  <2> QED BY <2>1, <2>2, <2>3, <2>4 DEF StepInv, Resolved, Awaiting, Retrying, Mined
<1>7. CASE Crash
  BY <1>7, StepDown DEF Crash
<1> QED BY <1>1, <1>2, <1>3, <1>4, <1>5, <1>6, <1>7, StepSenderWrites, StepSending, StepWaiting
        DEF Next, Process, Refreshing
--------------------------------------------------------------------------------
\* The receipt.

\* A block with an old fork is an old block.
LEMMA BlockKept ==
    ASSUME IInv, Next, NEW n \in 1..Height, NEW f \in Nat, f <= chain[Height].fork
    PROVE  /\ n \in 1..Height' /\ f <= chain'[Height'].fork
           /\ chain'[n].fork = f => chain'[n] = chain[n]
           /\ Deep(n) => chain'[n] = chain[n] /\ Deep(n)'
<1>0. TypeOK /\ ChainInv /\ Height \in Nat /\ Height' \in Nat /\ Height' >= Height
  BY ChainGrows DEF IInv
<1>1. n \in 1..Height' /\ (Deep(n) => chain'[n] = chain[n] /\ Deep(n)')
  BY <1>0, ChainGrows
<1>2. chain \in [1..Height -> [tx: Txs \cup {Null, "foreign"}, fork: Nat, ok: BOOLEAN]]
  BY <1>0, LenProperties DEF TypeOK, Height
<1>3. Height \in 1..Height /\ Fork = chain[Height].fork /\ Fork \in Nat
  BY <1>0, <1>2 DEF Fork
<1>4. CASE chain' = chain
  BY <1>1, <1>4 DEF Height
<1>5. CASE NewBlock
  <2>1. Height' = Height + 1 /\ chain'[Height + 1].fork = Fork /\ chain'[n] = chain[n]
    BY <1>0, <1>5, NewBlockFacts
  <2> QED BY <1>1, <1>3, <2>1
<1>6. CASE Reorg
  <2>1. PICK k \in 0..Height :
          /\ k < Height
          /\ \A i \in 1..k : chain'[i] = chain[i]
          /\ \A i \in (k + 1)..Height :
                chain'[i] = [tx |-> Null, fork |-> Fork + 1, ok |-> TRUE]
    BY <1>0, <1>6, ReorgFacts
  <2>2. Height' = Height
    BY <1>0, <1>6, ReorgFacts
  <2>3. \A i \in (k + 1)..Height : chain'[i].fork = Fork + 1
    BY <2>1
  <2>4. Height \in (k + 1)..Height /\ (n \in 1..k \/ n \in (k + 1)..Height)
    BY <1>0, <2>1
  <2>5. chain'[Height].fork = Fork + 1
    BY <2>3, <2>4
  <2>6. f <= Fork /\ f # Fork + 1
    BY <1>3
  <2> QED BY <1>1, <1>3, <2>1, <2>2, <2>3, <2>4, <2>5, <2>6
<1> QED BY <1>4, <1>5, <1>6, ChainWriters

\* The receipt in hand while the sender waits, whatever the chain does.
LEMMA ReceiptFrame ==
    ASSUME IInv, Next, UNCHANGED <<pc, receipt, pending>> PROVE ReceiptInv'
<1>1. CASE pc \notin Mined
  BY <1>1 DEF ReceiptInv, Mined
<1>2. CASE pc \in Mined
  <2>1. /\ receipt \in Receipt /\ receipt # Null /\ receipt.hash \in pending.hashes
        /\ receipt.block \in 1..Height /\ receipt.fork <= chain[Height].fork
        /\ SameBlock => /\ chain[receipt.block].tx = receipt.hash
                        /\ chain[receipt.block].ok = receipt.ok
        /\ pc \in {"canonical", "record", "confirm", "finish"} => Deep(receipt.block)
        /\ pc \in {"record", "confirm", "finish"} => SameBlock
        /\ pc = "record" => receipt.ok
    BY <1>2 DEF IInv, ReceiptInv, TypeOK
  <2>2. /\ receipt.block \in 1..Height' /\ receipt.fork <= chain'[Height'].fork
        /\ chain'[receipt.block].fork = receipt.fork =>
              chain'[receipt.block] = chain[receipt.block]
        /\ Deep(receipt.block) =>
              chain'[receipt.block] = chain[receipt.block] /\ Deep(receipt.block)'
    BY <2>1, BlockKept DEF Receipt
  <2>3. pc \in {"record", "confirm", "finish"} => Deep(receipt.block)
    BY <2>1
  <2>4. SameBlock' => SameBlock /\ chain'[receipt.block] = chain[receipt.block]
    BY <2>2 DEF SameBlock
  <2>5. pc \in {"record", "confirm", "finish"} => SameBlock'
    BY <2>1, <2>2, <2>3 DEF SameBlock
  <2>6. pc \in {"canonical", "record", "confirm", "finish"} => Deep(receipt.block)'
    BY <2>1, <2>2
  <2>7. /\ receipt.block \in 1..Height' /\ receipt.fork <= chain'[Height'].fork
        /\ SameBlock' => /\ chain'[receipt.block].tx = receipt.hash
                         /\ chain'[receipt.block].ok = receipt.ok
    BY <2>1, <2>2, <2>4
  <2> HIDE DEF Deep, SameBlock
  <2> QED BY <2>1, <2>5, <2>6, <2>7 DEF ReceiptInv, Mined
<1> QED BY <1>1, <1>2

\* what is said of receipts true,
LEMMA ReceiptInvPreserved == ASSUME IInv, Next PROVE ReceiptInv'
<1>0. TypeOK /\ StepInv /\ ReceiptInv
  BY DEF IInv
<1>1. CASE Chain \/ WorkerRefreshes \/ Working \/ SenderRefreshes \/ RefreshLoads("sender")
  BY <1>1, SenderFrame, ReceiptFrame DEF sender
<1>2. CASE pc' \notin Mined
  BY <1>2 DEF ReceiptInv, Mined
<1>3. CASE Poll /\ pc' = "depth"
  <2>1. PICK n \in 1..Height :
          /\ chain[n].tx \in watch
          /\ receipt' = [hash |-> chain[n].tx, block |-> n, fork |-> chain[n].fork,
                         ok |-> chain[n].ok]
    BY <1>3 DEF Poll
  <2>2. watch = pending.hashes /\ pending' = pending /\ chain' = chain /\ pending \in Pending
    BY <1>0, <1>3 DEF Poll, StepInv, TypeOK, Awaiting, disk, net
  <2>3. Height \in Nat
    BY <1>0 DEF TypeOK, Height
  <2>4. chain[n].fork <= chain[Height].fork
    BY <2>3 DEF IInv, ChainInv
  <2>5. receipt' # Null
    <3>1. chain \in [1..Height -> [tx: Txs \cup {Null, "foreign"}, fork: Nat, ok: BOOLEAN]]
      BY <1>0, LenProperties DEF TypeOK, Height
    <3>2. chain[n].tx \in Txs /\ chain[n].fork \in Nat /\ chain[n].ok \in BOOLEAN /\ n \in Nat
      BY <2>1, <2>2, <2>3, <3>1 DEF Pending
    <3> QED BY <2>1, <3>2, NullAssumption DEF Receipt
  <2>6. /\ receipt'.hash = chain[n].tx /\ receipt'.block = n /\ receipt'.fork = chain[n].fork
        /\ receipt'.ok = chain[n].ok
    BY <2>1
  <2> QED BY <1>3, <2>1, <2>2, <2>4, <2>5, <2>6 DEF ReceiptInv, SameBlock, Height, Mined
<1>4. CASE Depth /\ pc' = "canonical"
  <2>1. pc = "depth" /\ UNCHANGED <<receipt, pending, chain>> /\ Deep(receipt.block)
    BY <1>4 DEF Depth, Goto, disk, net
  <2> QED BY <1>0, <1>4, <2>1 DEF ReceiptInv, SameBlock, Height, Mined, Deep
<1>5. CASE Canonical /\ pc' \in {"record", "confirm"}
  <2>1. /\ pc = "canonical" /\ UNCHANGED <<receipt, pending, chain>> /\ SameBlock
        /\ pc' = "record" => receipt.ok
    BY <1>5 DEF Canonical, Goto, disk, net, Reset
  <2> QED BY <1>0, <1>5, <2>1 DEF ReceiptInv, SameBlock, Height, Mined, Deep
<1>6. CASE RecordReceipt
  <2>1. pc = "record" /\ pc' = "confirm" /\ UNCHANGED <<receipt, pending, chain>>
    BY <1>6 DEF RecordReceipt, Goto, disk, net
  <2> QED BY <1>0, <1>6, <2>1 DEF ReceiptInv, SameBlock, Height, Mined, Deep
<1>7. CASE Confirm /\ pc' = "finish"
  <2>1. pc = "confirm" /\ UNCHANGED <<receipt, pending, chain>>
    BY <1>7 DEF Confirm, Goto, net, Reset
  <2> QED BY <1>0, <1>7, <2>1 DEF ReceiptInv, SameBlock, Height, Mined, Deep
<1>8. pc' \notin Mined \/ ~(Start \/ Verify \/ SenderWrites \/ Sending \/ Round \/ GiveUp
                           \/ RetryLooks \/ Replace \/ Retry \/ Crash)
  BY DEF Start, Verify, SenderWrites, Goto, Sending, Send, SimulationFails, BeginTx, Reserve,
     Broadcast, Round, GiveUp, RetryLooks, Replace, Retry, Crash, Reset, Mined
<1>9. Finish => pc' \notin Mined
  BY <1>0 DEF Finish, Reset, Mined, StepInv, TypeOK
<1>10. /\ Poll => pc' \in {"depth", "wait"}
       /\ Depth => pc' \in {"canonical", "wait"}
       /\ Canonical => pc' \in {"record", "confirm", "down"}
       /\ Confirm => pc' \in {"finish", "down"}
  BY DEF Poll, Depth, Canonical, Confirm, Goto, Reset
<1> QED BY <1>1, <1>2, <1>3, <1>4, <1>5, <1>6, <1>7, <1>8, <1>9, <1>10
        DEF Next, Process, Refreshing, Waiting, Mined
--------------------------------------------------------------------------------
\* Nonces and settlement.

\* The hashes of pending.json carry its nonce.
LEMMA PendingNonce ==
    ASSUME IInv, pending # Null, NEW h \in pending.hashes
    PROVE  /\ pending \in Pending /\ h \in Txs /\ signed[h] # Null /\ signed[h] \in Signed
           /\ signed[h].nonce = pending.nonce /\ signed[h].root = pending.hash
           /\ signed[h].kind = pending.kind /\ pending.hash \in pending.hashes
<1>1. pending \in Pending /\ Validated /\ PendingInv /\ TypeOK
  BY DEF IInv, TypeOK, PendingInv
<1> QED BY <1>1 DEF Pending, Validated, Candidates, Decodes, PendingInv, TypeOK

\* A new operation takes a nonce no record has, a replacement that of its original.
LEMMA OneOperationKept == ASSUME IInv, Next PROVE OneOperationPerNonce'
<1>0. TypeOK /\ StepInv /\ OneOperationPerNonce
  BY DEF IInv
<1>1. CASE signed' = signed
  BY <1>0, <1>1 DEF OneOperationPerNonce
<1>2. CASE BeginTx
  <2>1. PICK h \in Txs :
          /\ signed[h] = Null /\ \A g \in Txs : g # h => signed'[g] = signed[g]
          /\ pc = "sign"
          /\ signed'[h] = [kind |-> draft.kind, token |-> draft.token,
                           nonce |-> draft.nonce, root |-> h]
    BY <1>0, <1>2, SignsFresh
  <2>2. \A g \in Txs : signed[g] # Null =>
           signed[g].nonce < draft.nonce /\ signed[g].nonce \in Nat
    BY <1>0, <2>1 DEF StepInv, TypeOK, Signed
  <2>3. draft.nonce \in Nat
    BY <1>0, <1>2, SignsFresh DEF Draft
  <2>4. \A g \in Txs : g # h /\ signed'[g] # Null => signed'[g].nonce # signed'[h].nonce
    BY <2>1, <2>2, <2>3
  <2> QED BY <1>0, <2>1, <2>4 DEF OneOperationPerNonce
<1>3. CASE Replace
  <2>1. PICK h \in Txs :
          /\ signed[h] = Null /\ \A g \in Txs : g # h => signed'[g] = signed[g]
          /\ pc = "replace"
          /\ signed'[h] = [kind |-> "approve", token |-> Null,
                           nonce |-> pending.nonce, root |-> pending.hash]
    BY <1>0, <1>3, SignsFresh
  <2>2. pending # Null /\ pending \in Pending
    BY <1>0, <2>1 DEF StepInv, Retrying, Awaiting, TypeOK
  <2>3. /\ pending.hash \in Txs /\ signed[pending.hash] # Null
        /\ signed[pending.hash].nonce = pending.nonce
        /\ signed[pending.hash].root = pending.hash
    <3>1. pending.hash \in pending.hashes
      BY <2>2 DEF IInv, PendingInv, Validated, Candidates
    <3> QED BY <2>2, <3>1, PendingNonce
  <2>4. \A g \in Txs : signed[g] # Null /\ signed[g].nonce = pending.nonce =>
           signed[g].root = pending.hash
    BY <1>0, <2>3 DEF OneOperationPerNonce
  <2>5. \A g \in Txs : signed'[g] # Null /\ signed'[g].nonce = pending.nonce =>
           signed'[g].root = pending.hash
    BY <2>1, <2>4
  <2>6. SUFFICES ASSUME NEW f \in Txs, NEW g \in Txs, signed'[f] # Null, signed'[g] # Null,
                        signed'[f].nonce = signed'[g].nonce
                 PROVE  signed'[f].root = signed'[g].root
    BY DEF OneOperationPerNonce
  <2>7. CASE signed'[f].nonce = pending.nonce
    BY <2>5, <2>6, <2>7
  <2>8. CASE signed'[f].nonce # pending.nonce
    <3>1. f # h /\ g # h
      BY <2>1, <2>6, <2>8
    <3> QED BY <1>0, <2>1, <2>6, <3>1 DEF OneOperationPerNonce
  <2> QED BY <2>7, <2>8
<1> QED BY <1>1, <1>2, <1>3, PendingWriters

\* What comes to wait is sent, or freed from a block that was not deep.
LEMMA NewlyWaiting ==
    ASSUME IInv, Next, NEW h \in pool'
    PROVE  \/ h \in pool
           \/ Broadcast /\ h = draft.hash
           \/ \E m \in 1..Height : ~Deep(m) /\ chain[m].tx = h
<1>0. TypeOK /\ Height \in Nat
  BY DEF IInv, TypeOK, Height
<1>1. CASE NewBlock
  BY <1>0, <1>1, NewBlockFacts
<1>2. CASE Reorg
  <2>1. PICK k \in 0..Height :
          /\ k < Height /\ k + Confirmations >= Height
          /\ pool' = pool \cup ({chain[n].tx : n \in (k + 1)..Height} \cap Txs)
    BY <1>0, <1>2, ReorgFacts
  <2>2. CASE h \in {chain[n].tx : n \in (k + 1)..Height}
    <3>1. PICK m \in (k + 1)..Height : chain[m].tx = h
      BY <2>2
    <3>2. m \in 1..Height /\ ~Deep(m)
      BY <1>0, <2>1, NumbersAssumption DEF Deep
    <3> QED BY <3>1, <3>2
  <2> QED BY <2>1, <2>2
<1>3. CASE Broadcast
  BY <1>3 DEF Broadcast
<1> QED BY <1>1, <1>2, <1>3, ChainWriters DEF Drop

\* A confirmed transaction stays confirmed and never waits again.
LEMMA ConfirmedStays ==
    ASSUME IInv, Next, NEW h \in Txs, Confirmed(h)
    PROVE  Confirmed(h)' /\ (h \in pool' => Broadcast /\ h = draft.hash)
<1>0. TypeOK /\ ChainInv
  BY DEF IInv
<1>1. PICK n \in 1..Height : Deep(n) /\ chain[n].tx = h
  BY DEF Confirmed
<1>2. Confirmed(h)'
  <2>1. n \in 1..Height'
    BY ChainGrows
  <2>2. chain'[n] = chain[n] /\ Deep(n)'
    BY <1>1, ChainGrows
  <2> HIDE DEF Deep
  <2> QED BY <1>1, <2>1, <2>2 DEF Confirmed
<1>3. h \notin pool
  <2>1. InBlock(h)
    BY <1>1 DEF InBlock
  <2>2. h \in pool => signed[h].nonce > signed[h].nonce /\ signed[h].nonce \in Nat
    BY <1>0, <2>1, MinedNotWaiting DEF Signed
  <2> QED BY <2>2
<1>4. \A m \in 1..Height : chain[m].tx = h => m = n
  BY <1>0, <1>1, OneBlockPerNonce
<1> QED BY <1>1, <1>2, <1>3, <1>4, NewlyWaiting

\* The receipt that releases the operation settles every hash of it.
LEMMA FinishSettles ==
    ASSUME IInv, Finish
    PROVE  /\ pending # Null /\ receipt.hash \in pending.hashes /\ Confirmed(receipt.hash)
           /\ \A h \in pending.hashes : h \notin pool /\ (InBlock(h) => Confirmed(h))
<1>0. TypeOK /\ ChainInv
  BY DEF IInv
<1>1. /\ pending # Null /\ receipt.hash \in pending.hashes /\ receipt.block \in 1..Height
      /\ Deep(receipt.block) /\ chain[receipt.block].tx = receipt.hash
  BY DEF IInv, StepInv, ReceiptInv, Finish, Mined, Awaiting
<1>2. Confirmed(receipt.hash) /\ InBlock(receipt.hash)
  BY <1>1 DEF Confirmed, InBlock
<1>3. ASSUME NEW h \in pending.hashes PROVE h \notin pool /\ (InBlock(h) => Confirmed(h))
  <2>1. /\ h \in Txs /\ receipt.hash \in Txs /\ signed[h].nonce = signed[receipt.hash].nonce
        /\ signed[h].nonce \in Nat
    BY <1>1, PendingNonce DEF Signed
  <2>2. h \notin pool
    BY <1>0, <1>2, <2>1, MinedNotWaiting
  <2>3. \A m \in 1..Height : chain[m].tx = h => m = receipt.block
    BY <1>0, <1>1, <2>1, OneBlockPerNonce
  <2> QED BY <1>1, <2>2, <2>3 DEF InBlock, Confirmed
<1> QED BY <1>1, <1>2, <1>3

\* every unsettled transaction on record,
LEMMA UnsettledKept == ASSUME IInv, Next PROVE UnsettledIsRecorded'
<1>0. TypeOK /\ StepInv /\ UnsettledIsRecorded
  BY DEF IInv
<1> SUFFICES ASSUME NEW h \in Txs, h \in pool' \/ (InBlock(h)' /\ ~Confirmed(h)')
             PROVE  pending' # Null /\ h \in pending'.hashes
  BY DEF UnsettledIsRecorded
<1>1. pending # Null /\ h \in pending.hashes
  <2>1. Broadcast => pending # Null /\ draft.hash \in pending.hashes
    BY <1>0 DEF Broadcast, StepInv
  <2>2. CASE Confirmed(h)
    BY <2>1, <2>2, ConfirmedStays
  <2>3. CASE ~Confirmed(h)
    <3>1. h \in pool \/ InBlock(h) \/ (Broadcast /\ h = draft.hash)
      BY NothingNew
    <3> QED BY <1>0, <2>1, <2>3, <3>1 DEF UnsettledIsRecorded
  <2> QED BY <2>2, <2>3
<1>2. ~Finish
  <2>1. Finish => pool' = pool /\ chain' = chain
    BY DEF Finish, net
  <2>2. Finish => (InBlock(h)' <=> InBlock(h)) /\ (Confirmed(h)' <=> Confirmed(h))
    BY <2>1 DEF InBlock, Confirmed, Deep, Height
  <2> QED BY <1>1, <2>1, <2>2, FinishSettles
<1> QED BY <1>1, <1>2, OperationKept
--------------------------------------------------------------------------------
\* The inventory.

\* What the settled transactions did does not change while the files stay.
LEMMA SettledKept ==
    ASSUME IInv, Next, signed' = signed, pending' = pending, NEW kind
    PROVE  Settled(kind)' = Settled(kind)
<1>0. TypeOK /\ ChainInv /\ UnsettledIsRecorded /\ StepInv
  BY DEF IInv
<1>1. Unresolved' = Unresolved
  BY DEF Unresolved
<1>2. ASSUME NEW h \in Txs, h \notin Unresolved
      PROVE  (\E n \in 1..Height : chain[n].tx = h /\ chain[n].ok)
                <=> (\E n \in 1..Height' : chain'[n].tx = h /\ chain'[n].ok)
  <2>1. h \notin pool /\ (InBlock(h) => Confirmed(h))
    BY <1>0, <1>2 DEF UnsettledIsRecorded, Unresolved
  <2>2. ASSUME NEW n \in 1..Height, chain[n].tx = h
        PROVE  n \in 1..Height' /\ chain'[n] = chain[n]
    <3>1. PICK m \in 1..Height : Deep(m) /\ chain[m].tx = h
      BY <2>1, <2>2 DEF InBlock, Confirmed
    <3>2. m = n
      BY <1>0, <2>2, <3>1, OneBlockPerNonce
    <3>3. chain'[n] = chain[n] /\ n \in 1..Height'
      BY <3>1, <3>2, ChainGrows
    <3> QED BY <3>3
  <2>3. ASSUME NEW n \in 1..Height', chain'[n].tx = h
        PROVE  n \in 1..Height /\ chain'[n] = chain[n]
    BY <2>1, <2>3, ChainGrows
  <2> QED BY <2>2, <2>3
<1> QED BY <1>1, <1>2 DEF Settled, Done

\* A hash just signed is in no block, so the settled transactions stay the same.
LEMMA SettledAtBegin ==
    ASSUME IInv, Next, BeginTx \/ Replace, NEW kind
    PROVE  /\ Settled(kind)' = Settled(kind)
           /\ \A h \in Settled(kind) : signed'[h] = signed[h]
<1>0. TypeOK /\ ChainInv /\ StepInv
  BY DEF IInv
<1>1. chain' = chain
  BY DEF BeginTx, Replace, net
<1>2. PICK h \in Txs :
        /\ signed[h] = Null /\ \A g \in Txs : g # h => signed'[g] = signed[g]
        /\ Unresolved' = Unresolved \cup {h}
  <2>1. CASE BeginTx
    <3>1. PICK h \in Txs :
            /\ signed[h] = Null /\ \A g \in Txs : g # h => signed'[g] = signed[g]
            /\ pending = Null
            /\ pending' = [hash |-> h, nonce |-> draft.nonce, kind |-> draft.kind,
                           hashes |-> {h}]
      BY <1>0, <2>1, SignsFresh
    <3>2. pending' # Null
      BY <1>0, SignsFresh, NullAssumption
    <3> QED BY <3>1, <3>2 DEF Unresolved
  <2>2. CASE Replace
    <3>1. PICK h \in Txs :
            /\ signed[h] = Null /\ \A g \in Txs : g # h => signed'[g] = signed[g]
            /\ pc = "replace" /\ pending \in Pending
            /\ pending' = [pending EXCEPT !.hashes = pending.hashes \cup {h}]
      BY <1>0, <2>2, SignsFresh
    <3>2. pending' # Null /\ pending # Null /\ pending'.hashes = pending.hashes \cup {h}
      BY <1>0, <3>1, SignsFresh, NullAssumption DEF Pending
    <3> QED BY <3>1, <3>2 DEF Unresolved
  <2> QED BY <2>1, <2>2
<1>3. ~InBlock(h)
  BY <1>0, <1>2, MinedNotWaiting
<1>4. Height' = Height
  BY <1>1 DEF Height
<1>5. \A g \in Txs : g # h => (g \in Done(kind)' <=> g \in Done(kind))
  BY <1>1, <1>2, <1>4 DEF Done
<1>6. h \notin Done(kind) /\ Done(kind) \subseteq Txs /\ Done(kind)' \subseteq Txs
  BY <1>3 DEF Done, InBlock
<1>7. Settled(kind)' = Settled(kind)
  BY <1>2, <1>5, <1>6 DEF Settled
<1>8. \A g \in Settled(kind) : g \in Txs /\ g # h
  BY <1>6 DEF Settled
<1> QED BY <1>2, <1>7, <1>8

\* The receipt recorded is that of a transaction of the operation.
LEMMA RecordFacts ==
    ASSUME IInv, RecordReceipt
    PROVE  /\ pending # Null /\ pending \in Pending /\ nft' = Result
           /\ UNCHANGED <<pending, signed, chain, receipt>> /\ pc' = "confirm"
           /\ pending.kind # "approve" => Succeeded(pending.hash)
<1>1. /\ pending # Null /\ receipt.hash \in pending.hashes /\ receipt.block \in 1..Height
      /\ Deep(receipt.block) /\ chain[receipt.block].tx = receipt.hash
      /\ chain[receipt.block].ok /\ pc' = "confirm"
      /\ UNCHANGED <<pending, signed, chain, receipt>>
  BY DEF IInv, StepInv, ReceiptInv, RecordReceipt, Mined, Awaiting, Goto, net
<1>2. pending \in Pending /\ signed[receipt.hash].kind = pending.kind
  BY <1>1, PendingNonce
<1>3. pending.kind # "approve" => receipt.hash = pending.hash
  BY <1>1 DEF IInv, PendingInv
<1>4. pending.kind # "approve" => Succeeded(pending.hash)
  BY <1>1, <1>3 DEF Succeeded
<1>5. nft' = Result
  BY <1>2, <1>3 DEF RecordReceipt, Result
<1> QED BY <1>1, <1>2, <1>4, <1>5

\* What the operation is about to change is what nfts.json said before it.
LEMMA BeforeKept == ASSUME IInv, Next, ~Finish PROVE Before' = Earlier'
<1>0. TypeOK /\ StepInv /\ InventoryInv
  BY DEF IInv
<1>1. CASE signed' = signed /\ pending' = pending
  <2>1. Before' = Before
    BY <1>1, SettledKept DEF Before
  <2>2. Earlier' = Earlier
    <3>1. CASE nft' = nft
      BY <1>1, <3>1 DEF Earlier
    <3>2. CASE RecordReceipt
      BY <1>1, <3>2, RecordFacts DEF Earlier, Result, Pending, Kind
    <3> QED BY <3>1, <3>2, ReservedWriters
  <2> QED BY <1>0, <2>1, <2>2 DEF InventoryInv
<1>2. CASE BeginTx \/ Replace
  <2>1. Before' = Before
    BY <1>2, SettledAtBegin DEF Before
  <2>2. nft' = nft
    BY <1>0, <1>2, SignsFresh
  <2>3. CASE BeginTx
    <3>1. PICK h \in Txs :
            /\ pc = "sign" /\ pending = Null
            /\ signed'[h] = [kind |-> draft.kind, token |-> draft.token,
                             nonce |-> draft.nonce, root |-> h]
            /\ pending' = [hash |-> h, nonce |-> draft.nonce, kind |-> draft.kind,
                           hashes |-> {h}]
      BY <1>0, <2>3, SignsFresh
    <3>2. pending' # Null /\ pending'.hash = h /\ pending'.kind = draft.kind
      BY <1>0, <1>2, <3>1, SignsFresh, NullAssumption
    <3>3. /\ draft.kind = "mint" => nft = Null
          /\ draft.kind = "burn" => draft.token = nft /\ nft # Null
      BY <1>0, <3>1 DEF StepInv
    <3>4. Earlier = {nft} \ {Null}
      BY <3>1 DEF Earlier
    <3>5. Earlier' = IF draft.kind = "mint" THEN {}
                     ELSE IF draft.kind = "burn" THEN {draft.token} ELSE {nft} \ {Null}
      BY <2>2, <3>1, <3>2 DEF Earlier
    <3>6. Earlier' = {nft} \ {Null}
      BY <3>3, <3>5
    <3> QED BY <1>0, <2>1, <3>4, <3>6 DEF InventoryInv
  <2>4. CASE Replace
    <3>1. pc = "replace" /\ pending # Null /\ pending.kind = "approve"
      BY <1>0, <2>4 DEF Replace, StepInv, Awaiting, Retrying
    <3>2. pending' # Null /\ pending'.kind = "approve"
      BY <2>4, <3>1, OperationKept DEF Finish, Replace
    <3> QED BY <1>0, <2>1, <2>2, <3>1, <3>2 DEF InventoryInv, Earlier
  <2> QED BY <1>2, <2>3, <2>4
<1> QED BY <1>1, <1>2, PendingWriters

\* The confirmed operation, released, leaves the wallet that nfts.json names.
LEMMA FinishAgrees == ASSUME IInv, Finish PROVE {nft} \ {Null} = Owned
<1>0. TypeOK /\ ChainInv /\ SignedInv /\ PendingInv /\ InventoryInv
  BY DEF IInv
<1> DEFINE n == receipt.block
<1>1. /\ pending # Null /\ pending \in Pending /\ receipt.hash \in pending.hashes
      /\ n \in 1..Height /\ chain[n].tx = receipt.hash /\ chain[n].ok = receipt.ok
      /\ pc = "finish"
  BY DEF IInv, StepInv, ReceiptInv, Finish, Mined, Awaiting, TypeOK
<1>2. \A h \in pending.hashes : h \in Txs /\ signed[h] # Null /\ signed[h].kind = pending.kind
  BY <1>1, PendingNonce
<1>3. ASSUME NEW h \in pending.hashes, NEW m \in 1..Height, chain[m].tx = h PROVE m = n
  <2>1. signed[h].nonce = signed[receipt.hash].nonce /\ h \in Txs /\ receipt.hash \in Txs
    BY <1>1, PendingNonce
  <2> QED BY <1>0, <1>1, <1>3, <2>1, OneBlockPerNonce
<1>4. \A kind : Done(kind) \cap pending.hashes =
                IF receipt.ok /\ kind = pending.kind THEN {receipt.hash} ELSE {}
  <2> SUFFICES ASSUME NEW kind, NEW h
               PROVE  h \in Done(kind) \cap pending.hashes
                         <=> receipt.ok /\ kind = pending.kind /\ h = receipt.hash
    BY <1>1
  <2>1. ASSUME h \in Done(kind) \cap pending.hashes
        PROVE  receipt.ok /\ kind = pending.kind /\ h = receipt.hash
    <3>1. PICK m \in 1..Height : chain[m].tx = h /\ chain[m].ok
      BY <2>1 DEF Done
    <3>2. m = n
      BY <1>3, <2>1, <3>1
    <3> QED BY <1>1, <1>2, <2>1, <3>1, <3>2 DEF Done
  <2>2. ASSUME receipt.ok, kind = pending.kind, h = receipt.hash
        PROVE  h \in Done(kind) \cap pending.hashes
    BY <1>1, <1>2, <2>2 DEF Done
  <2> QED BY <2>1, <2>2
<1>5. \A kind : Done(kind) = Settled(kind) \cup (Done(kind) \cap pending.hashes)
  BY <1>1 DEF Settled, Unresolved
<1>6. Before = Earlier /\ (Succeeded(pending.hash) => receipt.ok)
  <2>1. Before = Earlier
    BY <1>0 DEF InventoryInv
  <2>2. Succeeded(pending.hash) => receipt.ok
    <3>1. pending.hash \in pending.hashes
      BY <1>1, PendingNonce
    <3> QED BY <1>1, <1>3, <3>1 DEF Succeeded
  <2> QED BY <2>1, <2>2
<1> DEFINE tokens == {signed[h].token : h \in Settled("burn")}
<1> DEFINE mints == IF receipt.ok /\ pending.kind = "mint" THEN {receipt.hash} ELSE {}
           burns == IF receipt.ok /\ pending.kind = "burn" THEN {receipt.hash} ELSE {}
<1>7. Done("mint") = Settled("mint") \cup mints /\ Done("burn") = Settled("burn") \cup burns
  <2>1. Done("mint") \cap pending.hashes = mints
    BY <1>4
  <2>2. Done("burn") \cap pending.hashes = burns
    BY <1>4
  <2>3. /\ Done("mint") = Settled("mint") \cup (Done("mint") \cap pending.hashes)
        /\ Done("burn") = Settled("burn") \cup (Done("burn") \cap pending.hashes)
    BY <1>5
  <2> QED BY <2>1, <2>2, <2>3
<1>8. Before = Settled("mint") \ tokens
  BY DEF Before
<1>9. CASE receipt.ok /\ pending.kind = "mint"
  <2>1. receipt.hash = pending.hash /\ nft = receipt.hash /\ receipt.hash # Null
    BY <1>0, <1>1, <1>2, <1>9, NullAssumption DEF PendingInv, InventoryInv, Result
  <2>2. Done("mint") = Settled("mint") \cup {receipt.hash} /\ Done("burn") = Settled("burn")
    BY <1>9, <1>7
  <2>3. receipt.hash \notin tokens
    BY <1>0, <1>1, <2>1 DEF PendingInv, Settled, Done
  <2>4. Before = {}
    BY <1>1, <1>6, <1>9 DEF Earlier
  <2>5. Owned = (Settled("mint") \cup {receipt.hash}) \ tokens
    BY <2>2 DEF Owned
  <2> QED BY <1>8, <2>1, <2>3, <2>4, <2>5
<1>10. CASE receipt.ok /\ pending.kind = "burn"
  <2>1. receipt.hash = pending.hash /\ nft = Null
    BY <1>0, <1>1, <1>10 DEF PendingInv, InventoryInv, Result
  <2>2. Done("burn") = Settled("burn") \cup {pending.hash} /\ Done("mint") = Settled("mint")
    BY <1>10, <1>7, <2>1
  <2>3. Before = {signed[pending.hash].token}
    BY <1>1, <1>6, <1>10 DEF Earlier
  <2>4. {signed[h].token : h \in Settled("burn") \cup {pending.hash}}
            = tokens \cup {signed[pending.hash].token}
    OBVIOUS
  <2>5. Owned = Settled("mint") \ (tokens \cup {signed[pending.hash].token})
    BY <2>2, <2>4 DEF Owned
  <2> QED BY <1>8, <2>1, <2>3, <2>5
<1>11. CASE ~receipt.ok \/ pending.kind = "approve"
  <2>1. Done("mint") = Settled("mint") /\ Done("burn") = Settled("burn")
    BY <1>11, <1>7
  <2>2. Owned = Before
    BY <2>1, <1>8 DEF Owned
  <2>3. CASE pending.kind = "approve"
    BY <1>1, <1>6, <2>2, <2>3 DEF Earlier
  <2>4. CASE pending.kind # "approve"
    BY <1>0, <1>1, <1>6, <1>11, <2>2, <2>4 DEF InventoryInv
  <2> QED BY <2>3, <2>4
<1> QED BY <1>1, <1>9, <1>10, <1>11 DEF Pending, Kind

\* and nfts.json the inventory of the wallet.
LEMMA InventoryInvPreserved == ASSUME IInv, Next PROVE InventoryInv'
<1>0. TypeOK /\ StepInv /\ ReceiptInv /\ PendingInv /\ InventoryInv
  BY DEF IInv
<1>1. nft' # Null => signed'[nft'] # Null
  <2>1. \A h \in Txs : signed[h] # Null => signed'[h] # Null
    BY SignedKept
  <2>2. CASE nft' = nft
    BY <1>0, <2>1, <2>2 DEF InventoryInv, TypeOK
  <2>3. CASE RecordReceipt
    <3>1. nft' = Result /\ pending # Null /\ pending \in Pending
      BY <2>3, RecordFacts
    <3>2. pending.hash \in pending.hashes
      BY <1>0, <3>1 DEF PendingInv, Validated, Candidates
    <3>3. pending.hash \in Txs /\ signed[pending.hash] # Null
      BY <3>1, <3>2, PendingNonce
    <3> QED BY <1>0, <2>1, <3>1, <3>3 DEF Result, InventoryInv, TypeOK
  <2> QED BY <2>2, <2>3, ReservedWriters
<1>2. Before' = Earlier'
  <2>1. CASE Finish
    <3>1. /\ pending' = Null /\ UNCHANGED <<nft, signed, chain>>
      BY <2>1 DEF Finish, net
    <3>2. \A kind : Settled(kind)' = Done(kind)
      BY <3>1 DEF Settled, Unresolved, Done, Height
    <3>3. Before' = Owned
      BY <3>1, <3>2 DEF Before, Owned
    <3>4. Earlier' = {nft} \ {Null}
      BY <3>1 DEF Earlier
    <3> QED BY <2>1, <3>3, <3>4, FinishAgrees
  <2> QED BY <2>1, BeforeKept
<1>3. ASSUME pending' # Null, pending'.kind # "approve"
      PROVE  {nft'} \ {Null} = Earlier' \/ (nft' = Result' /\ Succeeded(pending.hash)')
  <2>1. CASE BeginTx
    <3>1. PICK h \in Txs :
            /\ pc = "sign"
            /\ signed'[h] = [kind |-> draft.kind, token |-> draft.token,
                             nonce |-> draft.nonce, root |-> h]
            /\ pending' = [hash |-> h, nonce |-> draft.nonce, kind |-> draft.kind,
                           hashes |-> {h}]
      BY <1>0, <2>1, SignsFresh
    <3>2. pending'.hash = h /\ pending'.kind = draft.kind /\ nft' = nft
      BY <1>0, <2>1, <3>1, SignsFresh
    <3>3. /\ draft.kind = "mint" => nft = Null
          /\ draft.kind = "burn" => draft.token = nft /\ nft # Null
      BY <1>0, <3>1 DEF StepInv
    <3>4. Earlier' = IF draft.kind = "mint" THEN {}
                     ELSE IF draft.kind = "burn" THEN {draft.token} ELSE {nft} \ {Null}
      BY <1>3, <3>1, <3>2 DEF Earlier
    <3> QED BY <3>2, <3>3, <3>4
  <2>2. CASE Replace
    <3>1. pc = "replace" /\ pending # Null /\ pending.kind = "approve" /\ ~Finish
      BY <1>0, <2>2 DEF Replace, StepInv, Awaiting, Retrying, Finish
    <3> QED BY <1>3, <3>1, OperationKept
  <2>3. CASE pending' = pending /\ signed' = signed /\ nft' = nft
    <3>1. Earlier' = Earlier /\ Result' = Result
      BY <2>3 DEF Earlier, Result
    <3>2. Succeeded(pending.hash) => Succeeded(pending.hash)'
      <4>1. SUFFICES ASSUME NEW n \in 1..Height, Deep(n), chain[n].tx = pending.hash,
                            chain[n].ok
                     PROVE  Succeeded(pending.hash)'
        BY DEF Succeeded
      <4>2. chain'[n] = chain[n] /\ Deep(n)' /\ n \in 1..Height'
        BY <4>1, ChainGrows
      <4> HIDE DEF Deep
      <4> QED BY <2>3, <4>1, <4>2 DEF Succeeded
    <3> QED BY <1>0, <1>3, <2>3, <3>1, <3>2 DEF InventoryInv
  <2>4. CASE RecordReceipt
    <3>1. /\ nft' = Result /\ UNCHANGED <<pending, chain>> /\ Succeeded(pending.hash)
          /\ pending \in Pending
      BY <1>3, <2>4, RecordFacts
    <3>2. Result' = Result /\ Succeeded(pending.hash)'
      BY <1>3, <3>1 DEF Result, Succeeded, Deep, Height, Pending, Kind
    <3> QED BY <3>1, <3>2
  <2>5. ~Finish
    BY <1>3 DEF Finish
  <2>6. RecordReceipt => pending' = pending /\ signed' = signed
    BY RecordFacts
  <2> QED BY <2>1, <2>2, <2>3, <2>4, <2>5, <2>6, PendingWriters, ReservedWriters
<1>4. ASSUME pc' \in {"confirm", "finish"}, receipt'.ok
      PROVE  nft' = Result'
  <2>1. CASE RecordReceipt
    <3>1. nft' = Result /\ pending' = pending /\ pending \in Pending
      BY <2>1, RecordFacts
    <3> QED BY <3>1 DEF Result, Pending, Kind
  <2>2. CASE Confirm \/ (Chain \/ WorkerRefreshes \/ Working \/ SenderRefreshes
                         \/ RefreshLoads("sender"))
    <3>1. /\ UNCHANGED <<nft, pending, receipt>> /\ pc \in {"confirm", "finish"}
      BY <1>4, <2>2, SenderFrame DEF Confirm, Goto, Reset, sender
    <3>2. nft = Result
      BY <1>0, <1>4, <3>1 DEF InventoryInv
    <3> QED BY <3>1, <3>2 DEF Result
  <2>3. CASE Canonical
    BY <1>4, <2>3 DEF Canonical, Goto, Reset
  <2>4. CASE Finish
    BY <1>0, <1>4, <2>4 DEF Finish, Reset, TypeOK, StepInv
  <2>5. CASE \/ Start \/ Verify \/ SenderWrites \/ Sending \/ Round \/ Poll \/ GiveUp \/ Depth
             \/ RetryLooks \/ Replace \/ Retry \/ Crash
    BY <1>4, <2>5 DEF Start, Verify, SenderWrites, Goto, Sending, Send, SimulationFails, BeginTx,
       Reserve, Broadcast, Round, Poll, GiveUp, Depth, RetryLooks, Replace, Retry, Crash, Reset
  <2> QED BY <2>1, <2>2, <2>3, <2>4, <2>5 DEF Next, Process, Refreshing, Waiting
<1> QED BY <1>1, <1>2, <1>3, <1>4 DEF InventoryInv
--------------------------------------------------------------------------------
\* The inductive invariant.

\* It holds before the first transaction,
LEMMA InitSatisfies == Init => IInv
<1> SUFFICES ASSUME Init PROVE IInv
  OBVIOUS
<1> DEFINE Blocks == [tx: Txs \cup {Null, "foreign"}, fork: Nat, ok: BOOLEAN]
           First == [tx |-> "foreign", fork |-> 0, ok |-> TRUE]
<1>1. First \in Blocks /\ chain \in {<<>>, <<First>>}
  BY DEF Init
<1>2. chain \in Seq(Blocks) /\ Height \in {0, 1} /\ \A n \in 1..Height : chain[n] = First
  <2> HIDE DEF Blocks, First
  <2>1. CASE chain = <<>>
    BY <2>1 DEF Height
  <2>2. CASE chain = <<First>>
    BY <1>1, <2>2 DEF Height
  <2> QED BY <1>1, <2>1, <2>2
<1>3. \A n \in 1..Height : chain[n].tx = "foreign" /\ chain[n].fork = 0
  BY <1>2
<1>4. \A h \in Txs : signed[h] = Null
  BY DEF Init
<1>5. signed \in [Txs -> Signed \cup {Null}]
  BY DEF Init
<1>6. TypeOK
  <2>1. reserved \in [floor: Nat, inflight: Txs \cup {Null}]
    BY DEF Init
  <2>2. faults \in 0..MaxFaults
    BY NumbersAssumption DEF Init
  <2>3. chain \in Seq([tx: Txs \cup {Null, "foreign"}, fork: Nat, ok: BOOLEAN])
    BY <1>2
  <2> QED BY <1>5, <2>1, <2>2, <2>3 DEF Init, TypeOK, Step
<1>7. ChainInv
  BY <1>2, <1>3, TxsAssumption DEF ChainInv, Init
<1>8. \A h \in Txs : h \notin pool /\ ~InBlock(h)
  BY <1>3, TxsAssumption DEF Init, InBlock
<1>9. SignedInv /\ PendingInv /\ FloorInv
  BY <1>4, <1>8 DEF SignedInv, PendingInv, FloorInv, Init
<1>10. JobInv /\ StepInv /\ ReceiptInv
  BY DEF JobInv, StepInv, ReceiptInv, Resolved, Awaiting, Retrying, Mined, Init
<1>11. InventoryInv
  <2>1. \A kind : Settled(kind) = {}
    BY <1>4 DEF Settled, Done
  <2>2. Before = {} /\ Earlier = {}
    BY <2>1 DEF Before, Earlier, Init
  <2> QED BY <2>2 DEF InventoryInv, Init
<1>12. OneOperationPerNonce /\ UnsettledIsRecorded /\ ReservationHasOperation
  BY <1>4, <1>8 DEF OneOperationPerNonce, UnsettledIsRecorded, ReservationHasOperation, Init
<1> QED BY <1>6, <1>7, <1>9, <1>10, <1>11, <1>12 DEF IInv

\* and every step keeps all of it.
LEMMA NextPreserves == ASSUME IInv, Next PROVE IInv'
  BY TypePreserved, ChainInvPreserved, SignedInvPreserved, PendingInvPreserved,
     FloorInvPreserved, JobInvPreserved, StepInvPreserved, ReceiptInvPreserved,
     InventoryInvPreserved, OneOperationKept, UnsettledKept, ReservationKept DEF IInv

\* Every part of the invariant is a function of the state.
LEMMA Stuttering == ASSUME IInv, UNCHANGED vars PROVE IInv'
<1> USE DEF vars, disk, sender, net
<1>1. TypeOK' /\ OneOperationPerNonce' /\ ReservationHasOperation'
  BY DEF IInv, TypeOK, OneOperationPerNonce, ReservationHasOperation
<1>2. /\ Height' = Height /\ Count' = Count /\ \A k : Filled(k)' = Filled(k)
      /\ \A h : InBlock(h)' = InBlock(h) /\ Confirmed(h)' = Confirmed(h)
      /\ Validated' = Validated
  BY DEF Height, Count, Filled, InBlock, Confirmed, Deep, Validated, Candidates, Decodes
<1>3. ChainInv' /\ SignedInv' /\ PendingInv' /\ FloorInv'
  BY <1>2 DEF IInv, ChainInv, SignedInv, PendingInv, FloorInv
<1>4. JobInv' /\ StepInv'
  BY DEF IInv, JobInv, StepInv
<1>5. ReceiptInv'
  BY <1>2 DEF IInv, ReceiptInv, SameBlock, Deep
<1>6. UnsettledIsRecorded'
  BY <1>2 DEF IInv, UnsettledIsRecorded
<1>7. InventoryInv'
  <2>1. Before' = Before /\ Earlier' = Earlier /\ Result' = Result
        /\ Succeeded(pending.hash)' = Succeeded(pending.hash)
    BY <1>2 DEF Before, Settled, Done, Unresolved, Earlier, Result, Succeeded, Deep
  <2> QED BY <2>1 DEF IInv, InventoryInv
<1> QED BY <1>1, <1>3, <1>4, <1>5, <1>6, <1>7 DEF IInv

\* The invariant of the sender: no crash, reorganisation, lagging node, foreign
\* transaction or refused broadcast leads out of it.
THEOREM EvmInductiveInvariant == Spec => []IInv
<1>1. IInv /\ [Next]_vars => IInv'
  BY NextPreserves, Stuttering
<1> QED BY InitSatisfies, <1>1, PTL DEF Spec
--------------------------------------------------------------------------------
\* The properties.

\* pending.json, evm_nonce.json and nfts.json agree with each other and with the
\* chain, and the reconciliation never refuses what the sender wrote.
THEOREM FilesAlwaysAgree == Spec => []FilesAgree
<1>1. IInv => FilesAgree
  <2> SUFFICES ASSUME IInv PROVE FilesAgree
    OBVIOUS
  <2>1. TypeOK /\ ReservationHasOperation
    BY DEF IInv
  <2>2. PendingValidates
    BY DEF IInv, PendingInv, PendingValidates
  <2>3. InventoryMatchesChain
    <3> SUFFICES ASSUME pending = Null PROVE {nft} \ {Null} = Owned
      BY DEF InventoryMatchesChain
    <3>1. \A kind : Settled(kind) = Done(kind)
      BY DEF Settled, Unresolved
    <3>2. Before = Owned /\ Earlier = {nft} \ {Null}
      BY <3>1 DEF Before, Owned, Earlier
    <3> QED BY <3>2 DEF IInv, InventoryInv
  <2> QED BY <2>1, <2>2, <2>3 DEF FilesAgree
<1> QED BY <1>1, EvmInductiveInvariant, PTL

\* NonceManager and the store never let two operations share a nonce.
THEOREM NoncesNeverShared == Spec => []OneOperationPerNonce
<1>1. IInv => OneOperationPerNonce
  BY DEF IInv
<1> QED BY <1>1, EvmInductiveInvariant, PTL

\* Whatever may still be mined or replaced is in pending.json, where a restart
\* finds it.
THEOREM UnsettledAlwaysRecorded == Spec => []UnsettledIsRecorded
<1>1. IInv => UnsettledIsRecorded
  BY DEF IInv
<1> QED BY <1>1, EvmInductiveInvariant, PTL

\* store.finish is reached only with a receipt that is deep in the chain.
THEOREM ReleaseNeedsConfirmation == Spec => ReleasedWhenConfirmed
<1>1. IInv /\ [Next]_vars =>
         [pending # Null /\ pending' = Null => \E h \in pending.hashes : Confirmed(h)]_vars
  <2> SUFFICES ASSUME IInv, Next, pending # Null, pending' = Null
               PROVE  \E h \in pending.hashes : Confirmed(h)
    OBVIOUS
  <2>1. Finish
    BY OperationKept
  <2> QED BY <2>1, FinishSettles
<1> QED BY <1>1, EvmInductiveInvariant, PTL DEF Spec, ReleasedWhenConfirmed
================================================================================
