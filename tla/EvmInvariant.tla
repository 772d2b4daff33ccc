----------------------------- MODULE EvmInvariant -----------------------------
(***************************************************************************)
(* The inductive invariant behind the safety properties of EvmTransactions. *)
(* A transaction of the wallet sits in the block its nonce counts to; every *)
(* nonce ever signed is below the floor of evm_nonce.json or belongs to the *)
(* operation of pending.json; and only that operation is unsettled, so the  *)
(* wallet without it is what nfts.json said before it.                      *)
(***************************************************************************)
EXTENDS EvmTransactions

\* How many of the first k blocks hold a transaction of the wallet.
FilledIn(blocks, k) == Cardinality({n \in 1..k : blocks[n].tx # Null})
Filled(k) == FilledIn(chain, k)

\* A transaction's block is the one its nonce counts to; forks only grow.
ChainInv ==
    /\ \A n \in 1..Height : chain[n].tx \in Txs =>
          /\ signed[chain[n].tx] # Null
          /\ signed[chain[n].tx].nonce = Filled(n - 1)
    /\ \A h \in pool : signed[h] # Null /\ signed[h].nonce >= Count
    /\ \A m, n \in 1..Height : m <= n => chain[m].fork <= chain[n].fork

\* The records of what was signed: a burn names a token minted before it.
SignedInv ==
    \A h \in Txs : signed[h] # Null =>
        IF signed[h].kind = "burn"
        THEN signed[h].token \in Txs /\ signed[signed[h].token] # Null
        ELSE signed[h].token = Null

\* pending.json: one operation, with replacements for approvals only.
PendingInv ==
    pending # Null =>
        /\ Validated
        /\ pending.kind = signed[pending.hash].kind
        /\ pending.kind # "approve" => pending.hashes = {pending.hash}
        /\ \A h \in pending.hashes : signed[h].root = pending.hash
        /\ \A h \in Txs : signed[h] # Null => signed[h].token # pending.hash

\* Nonces at or above the floor were never sent, nonces of past operations are
\* below it.
FloorInv ==
    /\ \A h \in Txs : h \in pool \/ InBlock(h) => signed[h].nonce < reserved.floor
    /\ \A h \in Txs : signed[h] # Null =>
          \/ signed[h].nonce < reserved.floor
          \/ pending # Null /\ h \in pending.hashes

\* A refresh under way knows no less than the files, for it holds the lock.
JobInv ==
    /\ job # Null /\ job.loaded =>
          /\ job.floor >= reserved.floor
          /\ job.inflight # Null => pending # Null /\ job.inflight = pending.hash
    /\ pc = "finish" => job = Null /\ reserved.inflight = Null

Resolved == {"startup", "verify", "idle", "nonce", "sign"}
Awaiting == {"wait", "poll", "depth", "canonical", "record", "confirm", "finish"}
Retrying == {"retry", "retry_nonce", "replace"}
Mined == {"depth", "canonical", "record", "confirm", "finish"}

\* What each step knows of the files.
StepInv ==
    /\ pc # "down" => after # Null
    /\ pc \in Resolved => pending = Null
    /\ pc \in Awaiting \cup Retrying \cup {"reserve", "broadcast"} => pending # Null
    /\ pc \in Awaiting => watch = pending.hashes
    /\ pc \in Retrying => pending.kind = "approve"
    /\ pc \in {"nonce", "sign", "reserve", "broadcast", "retry_nonce", "replace"} =>
          draft # Null
    /\ pc \in {"nonce", "sign"} =>
          /\ draft.kind = "mint" => nft = Null
          /\ IF draft.kind = "burn" THEN draft.token = nft /\ nft # Null
                                    ELSE draft.token = Null
    /\ pc = "sign" => \A h \in Txs : signed[h] # Null => signed[h].nonce < draft.nonce
    /\ pc = "reserve" => draft.hash = pending.hash /\ draft.nonce = pending.nonce
    /\ pc = "broadcast" => draft.hash \in pending.hashes
    /\ pc \in {"broadcast", "replace"} \cup Mined => pending.nonce < reserved.floor

\* The receipt being verified: of the block it names, unless that was replaced.
ReceiptInv ==
    /\ pc \in Mined =>
          /\ receipt # Null /\ receipt.hash \in pending.hashes
          /\ receipt.block \in 1..Height /\ receipt.fork <= chain[Height].fork
          /\ SameBlock => /\ chain[receipt.block].tx = receipt.hash
                          /\ chain[receipt.block].ok = receipt.ok
    /\ pc \in {"canonical", "record", "confirm", "finish"} => Deep(receipt.block)
    /\ pc \in {"record", "confirm", "finish"} => SameBlock
    /\ pc = "record" => receipt.ok

\* What the wallet owns without the unresolved operation, and what nfts.json said
\* before it.
Unresolved == IF pending = Null THEN {} ELSE pending.hashes
Settled(kind) == Done(kind) \ Unresolved
Before == Settled("mint") \ {signed[h].token : h \in Settled("burn")}
Earlier == IF pending # Null /\ pending.kind = "mint" THEN {}
           ELSE IF pending # Null /\ pending.kind = "burn"
                THEN {signed[pending.hash].token}
           ELSE {nft} \ {Null}

\* nfts.json once the operation's receipt is recorded.
Result == CASE pending.kind = "mint" -> pending.hash
            [] pending.kind = "burn" -> Null
            [] OTHER -> nft
Succeeded(h) == \E n \in 1..Height : Deep(n) /\ chain[n].tx = h /\ chain[n].ok

\* nfts.json shows the operation's effect only when that is deep in the chain, and
\* always before the operation is released.
InventoryInv ==
    /\ nft # Null => signed[nft] # Null
    /\ Before = Earlier
    /\ pending # Null /\ pending.kind # "approve" =>
          {nft} \ {Null} = Earlier \/ (nft = Result /\ Succeeded(pending.hash))
    /\ pc \in {"confirm", "finish"} /\ receipt.ok => nft = Result

IInv == /\ TypeOK /\ ChainInv /\ SignedInv /\ PendingInv /\ FloorInv /\ JobInv
        /\ StepInv /\ ReceiptInv /\ InventoryInv
        /\ OneOperationPerNonce /\ UnsettledIsRecorded /\ ReservationHasOperation
===============================================================================
