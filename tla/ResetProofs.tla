----------------------------- MODULE ResetProofs -----------------------------
(***************************************************************************)
(* The safety of the operator's commands, for every wallet, every set of   *)
(* orders and of strategies, and every hedge size.  The invariant is the   *)
(* one of ResetInvariant.  The lemmas on the state directory come first,   *)
(* then one for each step of the exchange, the strategy, the exit and the  *)
(* switch.                                                                 *)
(***************************************************************************)
EXTENDS ResetInvariant, TLAPS

USE DEF records, toml, orders, account, command, work, program, ghosts

-----------------------------------------------------------------------------
(* The state directory. *)

\* One file is replaced and no other is touched.
LEMMA Written ==
    ASSUME NEW name, NEW content, Write(name, content)
    PROVE  /\ DOMAIN dir' = DOMAIN dir \cup {name} /\ dir'[name] = content
           /\ \A n \in DOMAIN dir : n # name => dir'[n] = dir[n]
           /\ archived' = archived \ {name}
  BY DEF Write

\* So what the other readers find stays,
LEMMA ConfigKept ==
    ASSUME NEW name, NEW content, Write(name, content), name # "config"
    PROVE  Contents("config")' = Contents("config")
  BY DEF Write, Contents

\* the ledger of the hedge,
LEMMA LedgerKept ==
    ASSUME NEW name, NEW content, Write(name, content), name # "orders"
    PROVE  Unresolved' = Unresolved
  BY DEF Write, Unresolved

\* and the marker of the exit.
LEMMA StageKept ==
    ASSUME NEW name, NEW content, Write(name, content), name # "reset"
    PROVE  Stage' = Stage
  BY DEF Write, Stage

\* Files are deleted and no other is touched.
LEMMA Removed ==
    ASSUME NEW names, Remove(names)
    PROVE  /\ DOMAIN dir' = DOMAIN dir \ names
           /\ \A n \in DOMAIN dir' : dir'[n] = dir[n]
           /\ archived' = archived \ names
           /\ Contents("config")' \in {Null, Contents("config")}
           /\ "config" \notin names => Contents("config")' = Contents("config")
           /\ Unresolved' \in {{}, Unresolved}
           /\ "orders" \notin names => Unresolved' = Unresolved
           /\ "reset" \notin names => Stage' = Stage
  BY DEF Remove, Without, Contents, Unresolved, Stage

\* Nothing is read differently while no file is written.
LEMMA Kept ==
    ASSUME UNCHANGED records
    PROVE  /\ Contents("config")' = Contents("config")
           /\ Unresolved' = Unresolved /\ Stage' = Stage
  BY DEF Contents, Unresolved, Stage

\* What a reader finds is typed.
LEMMA ReadTyped ==
    ASSUME IInv
    PROVE  /\ Unresolved \subseteq Oids
           /\ Contents("config") \in Strategies \cup {Null}
           /\ "reset" \in DOMAIN dir =>
                 /\ dir["reset"] \in [binding : Strategies, stage : ResetStages]
                 /\ Stage = dir["reset"].stage /\ Stage \in ResetStages
           /\ "reset" \notin DOMAIN dir => Stage # "verified_flat"
  BY DEF IInv, TypeOK, RecordsTypeOK, Unresolved, Stage, Contents

\* A newly written file leaves the others typed.
LEMMA WriteTyped ==
    ASSUME IInv, NEW name \in Names, NEW content, Write(name, content),
           name = "config" => content \in Strategies,
           name = "nfts" => content \subseteq Nfts,
           name \in {"orders", "exitOrders"} => content \subseteq Oids,
           name = "reset" => content \in [binding : Strategies, stage : ResetStages],
           name = "migration" => content \in [profile : Profiles, exit : Strategies]
    PROVE  RecordsTypeOK'
<1>1. /\ DOMAIN dir' = DOMAIN dir \cup {name} /\ dir'[name] = content
      /\ \A n \in DOMAIN dir : n # name => dir'[n] = dir[n]
      /\ archived' = archived \ {name}
  BY Written
<1> QED BY <1>1 DEF IInv, TypeOK, RecordsTypeOK

\* Deleting files leaves the others typed.
LEMMA RemoveTyped ==
    ASSUME IInv, NEW names, Remove(names)
    PROVE  RecordsTypeOK'
<1>1. /\ DOMAIN dir' = DOMAIN dir \ names
      /\ \A n \in DOMAIN dir' : dir'[n] = dir[n]
      /\ archived' = archived \ names
  BY Removed
<1> QED BY <1>1 DEF IInv, TypeOK, RecordsTypeOK

\* Untouched files stay typed.
LEMMA KeptTyped == ASSUME IInv, UNCHANGED records PROVE RecordsTypeOK'
  BY Kept DEF IInv, TypeOK, RecordsTypeOK

------------------------------------------------------------------------------
(* The exchange, the operator and the strategy. *)

\* An order trades; none does once the exit has seen an empty book.
LEMMA FillPreserves ==
    ASSUME IInv, NEW o \in Oids, Fill(o) PROVE IInv'
<1> USE DEF Fill
<1>1. /\ Contents("config")' = Contents("config") /\ DOMAIN dir' = DOMAIN dir
      /\ Unresolved' = Unresolved /\ Stage' = Stage
  BY Kept
<1>2. RecordsTypeOK'
  BY KeptTyped
<1>3. ProgramTypeOK'
  BY DEF IInv, TypeOK, ProgramTypeOK, Working, ExitSteps
<1>4. OperationInv'
  BY <1>1 DEF IInv, OperationInv, Unsettled, InHand
<1>5. MarkerInv'
  BY <1>1 DEF IInv, MarkerInv, Exiting, Working, ExitSteps
<1>6. BindingInv'
  BY <1>1 DEF IInv, BindingInv, Exposed, Working, ExitSteps
<1>7. OrderInv'
  BY <1>1 DEF IInv, OrderInv
<1>8. ObservedInv'
  BY <1>1 DEF IInv, ObservedInv, Flat, NothingTrades
<1> QED BY <1>2, <1>3, <1>4, <1>5, <1>6, <1>7, <1>8 DEF IInv, TypeOK

\* The list of open orders catches up.
LEMMA RelistPreserves ==
    ASSUME IInv, NEW o \in Oids, Relist(o) PROVE IInv'
<1> USE DEF Relist
<1>1. /\ Contents("config")' = Contents("config") /\ DOMAIN dir' = DOMAIN dir
      /\ Unresolved' = Unresolved /\ Stage' = Stage
  BY Kept
<1>2. RecordsTypeOK'
  BY KeptTyped
<1>3. ProgramTypeOK'
  BY DEF IInv, TypeOK, ProgramTypeOK, Working, ExitSteps
<1>4. OperationInv'
  BY <1>1 DEF IInv, OperationInv, Unsettled, InHand
<1>5. MarkerInv'
  BY <1>1 DEF IInv, MarkerInv, Exiting, Working, ExitSteps
<1>6. BindingInv'
  BY <1>1 DEF IInv, BindingInv, Exposed, Working, ExitSteps
<1>7. OrderInv'
  BY <1>1 DEF IInv, OrderInv
<1>8. ObservedInv'
  BY <1>1 DEF IInv, ObservedInv, Flat, NothingTrades
<1> QED BY <1>2, <1>3, <1>4, <1>5, <1>6, <1>7, <1>8 DEF IInv, TypeOK

\* The status of an order catches up.
LEMMA ReindexPreserves ==
    ASSUME IInv, NEW o \in Oids, Reindex(o) PROVE IInv'
<1> USE DEF Reindex
<1>1. /\ Contents("config")' = Contents("config") /\ DOMAIN dir' = DOMAIN dir
      /\ Unresolved' = Unresolved /\ Stage' = Stage
  BY Kept
<1>2. exch \in [Oids -> {"none", "resting", "over"}] /\ index \in [Oids -> {"unknown", "open", "over"}]
  BY DEF IInv, TypeOK, ProgramTypeOK
<1>3. RecordsTypeOK'
  BY KeptTyped
<1>4. ProgramTypeOK'
  BY DEF IInv, TypeOK, ProgramTypeOK, Working, ExitSteps
<1>5. OperationInv'
  BY <1>1 DEF IInv, OperationInv, Unsettled, InHand
<1>6. MarkerInv'
  BY <1>1 DEF IInv, MarkerInv, Exiting, Working, ExitSteps
<1>7. BindingInv'
  BY <1>1 DEF IInv, BindingInv, Exposed, Working, ExitSteps
<1>8. OrderInv'
  BY <1>1, <1>2 DEF IInv, OrderInv
<1>9. ObservedInv'
  BY <1>1 DEF IInv, ObservedInv, Flat, NothingTrades
<1> QED BY <1>3, <1>4, <1>5, <1>6, <1>7, <1>8, <1>9 DEF IInv, TypeOK

\* The owner trades by hand, but not while the exit verifies.
LEMMA UserOrderPreserves ==
    ASSUME IInv, NEW o \in Oids, UserOrder(o) PROVE IInv'
<1> USE DEF UserOrder
<1>1. /\ Contents("config")' = Contents("config") /\ DOMAIN dir' = DOMAIN dir
      /\ Unresolved' = Unresolved /\ Stage' = Stage
  BY Kept
<1>2. exch \in [Oids -> {"none", "resting", "over"}] /\ index \in [Oids -> {"unknown", "open", "over"}]
  BY DEF IInv, TypeOK, ProgramTypeOK
<1>3. pc \notin {"observe", "observed", "verified", "archive", "clear"} /\ Stage # "verified_flat"
  <2>1. Stage = "verified_flat" => Contents("reset") = dir["reset"] /\ dir["reset"].stage = "verified_flat"
                                   /\ dir["reset"] \in [binding : Strategies, stage : ResetStages]
    BY ReadTyped DEF Stage, Contents
  <2>2. Null \notin [binding : Strategies, stage : ResetStages]
    BY RecordsAssumption
  <2> QED BY <2>1, <2>2 DEF Verifying
<1>4. RecordsTypeOK'
  BY KeptTyped
<1>5. ProgramTypeOK'
  BY DEF IInv, TypeOK, ProgramTypeOK, Working, ExitSteps
<1>6. OperationInv'
  BY <1>1 DEF IInv, OperationInv, Unsettled, InHand
<1>7. MarkerInv'
  BY <1>1 DEF IInv, MarkerInv, Exiting, Working, ExitSteps
<1>8. BindingInv'
  BY <1>1 DEF IInv, BindingInv, Exposed, Working, ExitSteps
<1>9. OrderInv'
  BY <1>1, <1>2 DEF IInv, OrderInv
<1>10. ObservedInv'
  BY <1>1, <1>2, <1>3 DEF IInv, ObservedInv, Flat, NothingTrades
<1> QED BY <1>4, <1>5, <1>6, <1>7, <1>8, <1>9, <1>10 DEF IInv, TypeOK

\* The configuration file is edited.
LEMMA EditPreserves ==
    ASSUME IInv, Edit PROVE IInv'
<1> USE DEF Edit
<1>1. /\ Contents("config")' = Contents("config") /\ DOMAIN dir' = DOMAIN dir
      /\ Unresolved' = Unresolved /\ Stage' = Stage
  BY Kept
<1>2. RecordsTypeOK'
  BY KeptTyped
<1>3. ProgramTypeOK'
  BY DEF IInv, TypeOK, ProgramTypeOK, Working, ExitSteps
<1>4. OperationInv'
  BY <1>1 DEF IInv, OperationInv, Unsettled, InHand
<1>5. MarkerInv'
  BY <1>1 DEF IInv, MarkerInv, Exiting, Working, ExitSteps
<1>6. BindingInv'
  BY <1>1 DEF IInv, BindingInv, Exposed, Working, ExitSteps
<1>7. OrderInv'
  BY <1>1 DEF IInv, OrderInv
<1>8. ObservedInv'
  BY <1>1 DEF IInv, ObservedInv, Flat, NothingTrades
<1> QED BY <1>2, <1>3, <1>4, <1>5, <1>6, <1>7, <1>8 DEF IInv, TypeOK

\* The strategy starts, and claims the directory.
LEMMA RunPreserves ==
    ASSUME IInv, Run PROVE IInv'
<1> USE DEF Run
<1>1. /\ DOMAIN dir' = DOMAIN dir \cup {"config"} /\ dir'["config"] = file
      /\ \A n \in DOMAIN dir : n # "config" => dir'[n] = dir[n]
      /\ archived' = archived \ {"config"}
      /\ Unresolved' = Unresolved /\ Stage' = Stage
  <2>1. Write("config", file)
    OBVIOUS
  <2> QED BY <2>1, Written, ConfigKept, LedgerKept, StageKept
<1>2. /\ file \in Strategies /\ Contents("config")' = file /\ Contents("config") \in {Null, file}
      /\ Markers \cap DOMAIN dir = {} /\ pc = "idle" /\ file # Null
  BY <1>1, NullAssumption DEF Contents, ConfigMatches, IInv, TypeOK, ProgramTypeOK
<1>3. archived \subseteq {"migration"} /\ archived \subseteq DOMAIN dir
  BY <1>2 DEF IInv, MarkerInv, TypeOK, RecordsTypeOK, Markers
<1>4. RecordsTypeOK'
  BY <1>2, WriteTyped DEF Names
<1>5. ProgramTypeOK'
  BY <1>2 DEF IInv, TypeOK, ProgramTypeOK, Working, ExitSteps
<1>6. OperationInv'
  BY <1>1 DEF IInv, OperationInv, Unsettled, InHand
<1>7. MarkerInv'
  BY <1>1, <1>2 DEF IInv, MarkerInv, Exiting, Working, ExitSteps, Markers
<1>8. BindingInv'
  BY <1>1, <1>2 DEF IInv, BindingInv, Exposed, Working, ExitSteps, Markers
<1>9. OrderInv'
  BY <1>1 DEF IInv, OrderInv
<1>10. ObservedInv'
  BY <1>1, <1>2, ReadTyped DEF IInv, ObservedInv, Flat, NothingTrades, Markers
<1> QED BY <1>4, <1>5, <1>6, <1>7, <1>8, <1>9, <1>10 DEF IInv, TypeOK

\* Whatever the strategy does, it ends with its records written, or with an
\* operation under way.
LEMMA TradePreserves ==
    ASSUME IInv, Trade PROVE IInv'
<1>1. PICK own \in {o \in Oids : exch[o] = "none"} \cup {Null} :
         /\ exch' = IF own = Null THEN exch ELSE [exch EXCEPT ![own] = "resting"]
         /\ dir' = [n \in DOMAIN dir \cup {"checkpoint", "nfts", "orders"} |->
                      CASE n = "checkpoint" -> "state"
                        [] n = "nfts" -> lp'
                        [] n = "orders" -> {own} \ {Null}
                        [] OTHER -> dir[n]]
  BY DEF Trade
<1>2. /\ pc = "strategy" /\ pending = Null /\ Unresolved = {}
      /\ lp' \in SUBSET Nfts /\ base' \in {"none", "tiny", "some"} /\ short' \in 0..MaxShort
      /\ archived' = archived \ {"checkpoint", "nfts", "orders"} /\ owner' = cfg
      /\ UNCHANGED <<toml, listed, index, program, switching>>
  BY DEF Trade
<1>3. \/ pending' = Null
      \/ \E n \in Nfts : pending' = Op("mint", n)
      \/ \E o \in Oids : pending' = Op("order", o) /\ exch[o] = "none" /\ exch' = exch
  BY DEF Trade
<1>4. /\ DOMAIN dir' = DOMAIN dir \cup {"checkpoint", "nfts", "orders"}
      /\ dir'["nfts"] = lp' /\ dir'["orders"] = {own} \ {Null}
      /\ \A n \in DOMAIN dir \ {"checkpoint", "nfts", "orders"} : dir'[n] = dir[n]
  BY <1>1
<1>5. /\ Contents("config")' = Contents("config")
      /\ Unresolved' = {own} \ {Null}
  BY <1>4 DEF Contents, Unresolved
<1>6. /\ "reset" \notin DOMAIN dir' /\ "reset" \notin DOMAIN dir /\ Markers \cap DOMAIN dir = {}
      /\ Stage' # "verified_flat" /\ Stage # "verified_flat"
  BY <1>2, <1>4 DEF IInv, MarkerInv, Markers, Stage
<1>7. own # Null => own \in Oids /\ exch[own] = "none"
  OBVIOUS
<1>8. exch \in [Oids -> {"none", "resting", "over"}] /\ index \in [Oids -> {"unknown", "open", "over"}]
  BY DEF IInv, TypeOK, ProgramTypeOK
<1>9. /\ pending' # Null => pending'.kind \in {"mint", "order"}
      /\ pending' \in Ops \cup {Null}
      /\ pending' # Null /\ pending'.kind = "mint" => pending'.id \in Nfts
      /\ pending' # Null /\ pending'.kind = "order" =>
            /\ pending'.id \in Oids /\ ~pending'.sent
            /\ exch[pending'.id] = "none" /\ exch' = exch
  <2>1. CASE pending' = Null
    BY <2>1
  <2>2. ASSUME NEW n \in Nfts, pending' = Op("mint", n) PROVE <1>9
    BY <2>2 DEF Op, Ops
  <2>3. ASSUME NEW o \in Oids, pending' = Op("order", o), exch[o] = "none", exch' = exch
        PROVE  <1>9
    BY <2>3 DEF Op, Ops
  <2> QED BY <1>3, <2>1, <2>2, <2>3
<1>10. pending' # Null /\ pending'.kind = "order" => own = Null
  BY <1>1, <1>7, <1>8, <1>9
<1>11. RecordsTypeOK'
  BY <1>2, <1>4, <1>5, <1>6, <1>7 DEF IInv, TypeOK, RecordsTypeOK, Names
<1>12. ProgramTypeOK'
  <2>1. exch' \in [Oids -> {"none", "resting", "over"}]
    BY <1>1, <1>8
  <2>2. owner' \in Strategies \cup {Null}
    BY <1>2 DEF IInv, TypeOK, ProgramTypeOK
  <2> QED BY <1>2, <1>9, <2>1, <2>2 DEF IInv, TypeOK, ProgramTypeOK
<1>13. OperationInv'
  BY <1>2, <1>4, <1>5, <1>9, <1>10 DEF OperationInv, Unsettled, InHand
<1>14. MarkerInv'
  BY <1>2, <1>4, <1>6 DEF IInv, MarkerInv, Markers, Exiting, Working, ExitSteps
<1>15. BindingInv'
  <2>1. cfg \in Strategies /\ Contents("config") = cfg /\ cfg # Null
    BY <1>2, NullAssumption DEF IInv, BindingInv
  <2> QED BY <1>2, <1>4, <1>5, <1>6, <2>1 DEF BindingInv, Markers, Working, ExitSteps
<1>16. OrderInv'
  BY <1>1, <1>2, <1>5, <1>7, <1>8, <1>9 DEF IInv, OrderInv
<1>17. ObservedInv'
  BY <1>2, <1>6 DEF ObservedInv
<1> QED BY <1>11, <1>12, <1>13, <1>14, <1>15, <1>16, <1>17 DEF IInv, TypeOK

\* Its order is posted, and may arrive.
LEMMA PostOrderPreserves ==
    ASSUME IInv, PostOrder PROVE IInv'
<1> USE DEF PostOrder
<1>1. /\ Contents("config")' = Contents("config") /\ DOMAIN dir' = DOMAIN dir
      /\ Unresolved' = Unresolved /\ Stage' = Stage
  BY Kept
<1>2. exch \in [Oids -> {"none", "resting", "over"}] /\ index \in [Oids -> {"unknown", "open", "over"}]
  BY DEF IInv, TypeOK, ProgramTypeOK
<1>3. /\ pending' \in Ops /\ pending' # Null /\ pending \in Ops
      /\ pending'.kind = "order" /\ pending'.sent /\ pending'.id = pending.id
      /\ pending.kind = "order" /\ ~pending.sent /\ pending.id \in Oids
  BY RecordsAssumption DEF IInv, TypeOK, ProgramTypeOK, OperationInv, Ops
<1>4. /\ exch[pending.id] = "none"
      /\ exch' \in {exch, [exch EXCEPT ![pending.id] = "resting"]}
  BY <1>3 DEF IInv, OrderInv
<1>5. RecordsTypeOK'
  BY KeptTyped
<1>6. ProgramTypeOK'
  <2>1. exch' \in [Oids -> {"none", "resting", "over"}]
    BY <1>2, <1>4
  <2> QED BY <1>3, <2>1 DEF IInv, TypeOK, ProgramTypeOK
<1>7. OperationInv'
  BY <1>1, <1>3 DEF IInv, OperationInv, Unsettled, InHand
<1>8. MarkerInv'
  BY <1>1 DEF IInv, MarkerInv, Exiting, Working, ExitSteps
<1>9. BindingInv'
  BY <1>1, <1>3 DEF IInv, BindingInv, Exposed, Working, ExitSteps
<1>10. OrderInv'
  BY <1>1, <1>2, <1>3, <1>4 DEF IInv, OrderInv
<1>11. ObservedInv'
  BY <1>1 DEF IInv, ObservedInv, Flat, NothingTrades
<1> QED BY <1>5, <1>6, <1>7, <1>8, <1>9, <1>10, <1>11 DEF IInv, TypeOK

\* The process is gone.
LEMMA StopPreserves ==
    ASSUME IInv, Stop PROVE IInv'
<1> USE DEF Stop, Leave
<1>1. /\ Contents("config")' = Contents("config") /\ DOMAIN dir' = DOMAIN dir
      /\ Unresolved' = Unresolved /\ Stage' = Stage
  BY Kept
<1>2. RecordsTypeOK'
  BY KeptTyped
<1>3. ProgramTypeOK'
  <2>1. edited' \in BOOLEAN
    OBVIOUS
  <2>2. round' \in 0..IocRounds /\ saw' \in 0..MaxShort
    BY ShortAssumption DEF IocRounds
  <2> QED BY <2>1, <2>2 DEF IInv, TypeOK, ProgramTypeOK
<1>4. OperationInv' /\ MarkerInv'
  BY <1>1 DEF IInv, OperationInv, MarkerInv, Unsettled, InHand, Exiting, Working, ExitSteps
<1>5. BindingInv' /\ OrderInv'
  BY <1>1 DEF IInv, BindingInv, OrderInv, Exposed, Working, ExitSteps
<1>6. ObservedInv'
  BY <1>1 DEF IInv, ObservedInv, Flat, NothingTrades
<1> QED BY <1>2, <1>3, <1>4, <1>5, <1>6 DEF IInv, TypeOK

\* What the end of an operation leaves: the wallet typed, the markers and
\* bindings alone, and no inventory but that of the operation or earlier.
Reached ==
    /\ RecordsTypeOK'
    /\ lp' \subseteq Nfts /\ base' \in {"none", "tiny", "some"} /\ short' \in 0..MaxShort
    /\ \A n \in {"config", "reset", "migration"} :
         /\ n \in DOMAIN dir' <=> n \in DOMAIN dir
         /\ n \in DOMAIN dir => dir'[n] = dir[n]
    /\ archived' \subseteq archived
    /\ Contents("config")' = Contents("config") /\ Stage' = Stage
    /\ Exposed' => Exposed \/ (pending # Null /\ pending.kind \in {"mint", "remove"})

\* An operation that leaves the records alone reaches that.
LEMMA UntouchedReaches ==
    ASSUME IInv, UNCHANGED records,
           lp' \subseteq Nfts, base' \in {"none", "tiny", "some"}, short' \in 0..MaxShort,
           Exposed' => Exposed \/ (pending # Null /\ pending.kind \in {"mint", "remove"})
    PROVE  Reached /\ Unresolved' = Unresolved
<1>1. RecordsTypeOK'
  BY KeptTyped
<1> QED BY <1>1, Kept DEF Reached

\* One that writes the registry or the ledger does,
LEMMA WriteReaches ==
    ASSUME IInv, NEW name \in {"nfts", "orders"}, NEW content, Write(name, content),
           name = "nfts" => content \subseteq Nfts, name = "orders" => content \subseteq Oids,
           lp' \subseteq Nfts, base' \in {"none", "tiny", "some"}, short' \in 0..MaxShort,
           Exposed' => Exposed \/ (pending # Null /\ pending.kind \in {"mint", "remove"})
    PROVE  Reached
<1>1. RecordsTypeOK'
  BY WriteTyped DEF Names
<1>2. Contents("config")' = Contents("config")
  BY ConfigKept
<1>3. Stage' = Stage
  BY StageKept
<1>4. /\ DOMAIN dir' = DOMAIN dir \cup {name}
      /\ \A n \in DOMAIN dir : n # name => dir'[n] = dir[n]
      /\ archived' = archived \ {name}
  BY Written
<1> QED BY <1>1, <1>2, <1>3, <1>4 DEF Reached

\* and so does every operation that lands.
LEMMA LandedReaches ==
    ASSUME IInv, pending # Null, NEW kind, Landed(kind)
    PROVE  Reached /\ Unresolved' = Unresolved
<1>1. /\ lp \subseteq Nfts /\ base \in {"none", "tiny", "some"} /\ short \in 0..MaxShort
      /\ pending.kind = kind
      /\ kind \in {"mint", "remove"} =>
           /\ pending.id \in Nfts /\ "nfts" \in DOMAIN dir
           /\ Contents("nfts") = dir["nfts"] /\ dir["nfts"] \subseteq Nfts
  BY DEF IInv, TypeOK, ProgramTypeOK, RecordsTypeOK, OperationInv, Landed, Contents
<1>2. CASE kind = "mint"
  <2>1. /\ lp' = lp \cup {pending.id} /\ UNCHANGED <<base, short>>
        /\ Write("nfts", Contents("nfts") \cup {pending.id})
    BY <1>2 DEF Landed
  <2>2. Contents("nfts") \cup {pending.id} \subseteq Nfts /\ lp' \subseteq Nfts
    BY <1>1, <1>2, <2>1
  <2>3. Unresolved' = Unresolved
    BY <2>1, LedgerKept
  <2> QED BY <1>1, <1>2, <2>1, <2>2, <2>3, WriteReaches
<1>3. CASE kind = "remove"
  <2>1. /\ lp' = lp \ {pending.id} /\ base' \in MoreBase(base) /\ UNCHANGED short
        /\ Write("nfts", Contents("nfts") \ {pending.id})
    BY <1>3 DEF Landed
  <2>2. /\ Contents("nfts") \ {pending.id} \subseteq Nfts /\ lp' \subseteq Nfts
        /\ base' \in {"none", "tiny", "some"}
    BY <1>1, <1>3, <2>1 DEF MoreBase
  <2>3. Unresolved' = Unresolved
    BY <2>1, LedgerKept
  <2> QED BY <1>1, <1>3, <2>1, <2>2, <2>3, WriteReaches
<1>4. CASE kind = "swap"
  <2>1. base' = "none" /\ UNCHANGED records /\ UNCHANGED <<lp, short>>
    BY <1>4 DEF Landed, Untouched
  <2> QED BY <1>1, <2>1, UntouchedReaches DEF Exposed
<1>5. CASE kind = "close"
  <2>1. short' \in 0..short /\ UNCHANGED records /\ UNCHANGED <<lp, base>>
    BY <1>5 DEF Landed, Untouched
  <2>2. short' \in 0..MaxShort
    BY <1>1, <2>1, ShortAssumption
  <2> QED BY <1>1, <2>1, <2>2, UntouchedReaches DEF Exposed
<1> QED BY <1>2, <1>3, <1>4, <1>5 DEF Landed

\* A settled operation leaves no order that may trade and that neither the list
\* nor the ledger shows.
LEMMA SettleReaches ==
    ASSUME IInv, Settle, UNCHANGED orders
    PROVE  /\ Reached
           /\ \A o \in Oids : exch[o] = "resting" => o \in listed \cup Unresolved'
<1>1. /\ lp \subseteq Nfts /\ base \in {"none", "tiny", "some"} /\ short \in 0..MaxShort
      /\ exch \in [Oids -> {"none", "resting", "over"}]
      /\ index \in [Oids -> {"unknown", "open", "over"}]
  BY DEF IInv, TypeOK, ProgramTypeOK
<1>2. ASSUME pending = Null \/ pending.kind # "order", Unresolved' = Unresolved
      PROVE  \A o \in Oids : exch[o] = "resting" => o \in listed \cup Unresolved'
  BY <1>2 DEF IInv, OrderInv
<1>3. ASSUME UNCHANGED records, UNCHANGED <<lp, base, short>>
      PROVE  Reached /\ Unresolved' = Unresolved
  BY <1>1, <1>3, UntouchedReaches DEF Exposed
<1>4. CASE pending = Null
  BY <1>2, <1>3, <1>4 DEF Settle, Untouched
<1>5. ASSUME pending # Null, NEW kind \in {"mint", "remove", "swap", "close"}, Landed(kind)
      PROVE  /\ Reached
             /\ \A o \in Oids : exch[o] = "resting" => o \in listed \cup Unresolved'
  BY <1>2, <1>5, LandedReaches DEF Landed
<1>6. CASE /\ pending # Null /\ pending.kind \in {"mint", "remove", "swap", "cancel"}
           /\ UNCHANGED records /\ UNCHANGED <<lp, base, short>>
  BY <1>2, <1>3, <1>6
<1>7. CASE /\ pending # Null /\ pending.kind = "order" /\ OrderDecided
           /\ Write("orders", {pending.id} \cap {o \in Oids : index[o] = "open"})
           /\ UNCHANGED <<lp, base, short>>
  <2> DEFINE S == {pending.id} \cap {o \in Oids : index[o] = "open"}
  <2>1. S \subseteq Oids /\ Write("orders", S)
    BY <1>7
  <2>2. Unresolved' = S
    BY <2>1, Written DEF Unresolved
  <2>3. Reached
    <3>1. Exposed' = Exposed
      BY <1>7 DEF Exposed
    <3> HIDE DEF S
    <3> QED BY <1>1, <1>7, <2>1, <3>1, WriteReaches
  <2>4. ASSUME NEW o \in Oids, exch[o] = "resting" PROVE o \in listed \cup S
    <3>1. CASE o \in listed \cup Unresolved
      <4>1. Unresolved = {}
        BY <1>7 DEF IInv, OperationInv
      <4> QED BY <3>1, <4>1
    <3>2. CASE pending.sent /\ pending.id = o
      <4>1. index[o] # "unknown" /\ index[o] # "over"
        BY <1>7, <2>4, <3>2 DEF OrderDecided, IInv, OrderInv
      <4>2. index[o] = "open"
        BY <1>1, <4>1
      <4> QED BY <3>2, <4>2
    <3> QED BY <1>7, <2>4, <3>1, <3>2 DEF IInv, OrderInv
  <2> QED BY <2>2, <2>3, <2>4
<1> QED BY <1>4, <1>5, <1>6, <1>7 DEF Settle, Untouched

\* The start-up settles what an earlier process left.
LEMMA StrategyReconcilesPreserves ==
    ASSUME IInv, StrategyReconciles PROVE IInv'
<1>1. /\ pc = "strategy" /\ pending' = Null
      /\ UNCHANGED <<toml, orders, program, ghosts>>
  BY DEF StrategyReconciles
<1>2. /\ Reached
      /\ \A o \in Oids : exch[o] = "resting" => o \in listed \cup Unresolved'
  BY <1>1, SettleReaches DEF StrategyReconciles
<1>3. RecordsTypeOK' /\ ProgramTypeOK'
  BY <1>1, <1>2 DEF Reached, IInv, TypeOK, ProgramTypeOK
<1>4. OperationInv'
  BY <1>1 DEF OperationInv, Unsettled, InHand
<1>5. MarkerInv'
  BY <1>1, <1>2 DEF Reached, IInv, MarkerInv, Markers, Exiting, Working, ExitSteps
<1>6. BindingInv'
  BY <1>1, <1>2 DEF Reached, IInv, BindingInv, Working, ExitSteps
<1>7. OrderInv'
  BY <1>1, <1>2 DEF IInv, OrderInv
<1>8. ObservedInv'
  BY <1>1, <1>2 DEF Reached, IInv, ObservedInv
<1> QED BY <1>3, <1>4, <1>5, <1>6, <1>7, <1>8 DEF IInv, TypeOK

\* Its orders are cancelled and their end recorded.
LEMMA StrategySyncsPreserves ==
    ASSUME IInv, StrategySyncs PROVE IInv'
<1>1. /\ pc = "strategy" /\ pending = Null /\ Write("orders", {})
      /\ exch' = [o \in Oids |-> IF o \in Unresolved THEN "over" ELSE exch[o]]
      /\ UNCHANGED <<toml, pending, lp, base, short, listed, index, program, ghosts>>
  BY DEF StrategySyncs
<1>2. /\ DOMAIN dir' = DOMAIN dir \cup {"orders"} /\ dir'["orders"] = {}
      /\ \A n \in DOMAIN dir : n # "orders" => dir'[n] = dir[n]
      /\ archived' = archived \ {"orders"}
      /\ Contents("config")' = Contents("config") /\ Stage' = Stage
  BY <1>1, Written, ConfigKept, StageKept
<1>3. Unresolved' = {}
  BY <1>2 DEF Unresolved
<1>4. exch \in [Oids -> {"none", "resting", "over"}]
  BY DEF IInv, TypeOK, ProgramTypeOK
<1>5. RecordsTypeOK'
  BY <1>1, WriteTyped DEF Names
<1>6. ProgramTypeOK'
  BY <1>1, <1>4 DEF IInv, TypeOK, ProgramTypeOK
<1>7. OperationInv'
  BY <1>1 DEF OperationInv, Unsettled, InHand
<1>8. MarkerInv'
  BY <1>1, <1>2 DEF IInv, MarkerInv, Markers, Exiting, Working, ExitSteps
<1>9. BindingInv'
  BY <1>1, <1>2 DEF IInv, BindingInv, Exposed, Working, ExitSteps
<1>10. OrderInv'
  BY <1>1, <1>3, <1>4 DEF IInv, OrderInv
<1>11. ObservedInv'
  BY <1>1, <1>2 DEF IInv, ObservedInv
<1> QED BY <1>5, <1>6, <1>7, <1>8, <1>9, <1>10, <1>11 DEF IInv, TypeOK

------------------------------------------------------------------------------
(* The steps of the exit. *)

\* The exit begins with parameters that the records and the marker bear.
LEMMA BeginPreserves ==
    ASSUME IInv, NEW b \in Strategies, Begin(b), pc \in {"idle", "exit"},
           cmd' \in {"reset", cmd},
           UNCHANGED <<toml, pending, account, profile, todo, aim, round, saw, ghosts>>
    PROVE  IInv'
<1>1. pc' = "mark" /\ stage' = "Reconcile" /\ cfg' = b /\ Accepts(b)
  BY DEF Begin
<1>2. /\ DOMAIN dir' = DOMAIN dir \cup {"reset"} /\ archived' = archived \ ({"reset"} \ DOMAIN dir)
      /\ \A n \in DOMAIN dir : dir'[n] = dir[n]
      /\ Contents("config")' = Contents("config") /\ Unresolved' = Unresolved
      /\ dir'["reset"].binding = b /\ (Stage' = Stage \/ Stage' = "started")
      /\ RecordsTypeOK'
  <2>1. CASE "reset" \in DOMAIN dir
    <3>1. UNCHANGED records
      BY <2>1 DEF Begin, Untouched
    <3> QED BY <1>1, <2>1, <3>1, Kept, KeptTyped DEF Accepts
  <2>2. CASE "reset" \notin DOMAIN dir
    <3> DEFINE c == [binding |-> b, stage |-> "started"]
    <3>1. Write("reset", c)
      BY <2>2 DEF Begin
    <3>2. c \in [binding : Strategies, stage : ResetStages] /\ c.binding = b /\ c.stage = "started"
      BY DEF ResetStages
    <3> HIDE DEF c
    <3>3. /\ DOMAIN dir' = DOMAIN dir \cup {"reset"} /\ dir'["reset"] = c
          /\ \A n \in DOMAIN dir : n # "reset" => dir'[n] = dir[n]
          /\ archived' = archived \ {"reset"}
      BY <3>1, Written
    <3>4. RecordsTypeOK'
      BY <3>1, <3>2, WriteTyped DEF Names
    <3>5. Contents("config")' = Contents("config") /\ Unresolved' = Unresolved
      BY <3>1, ConfigKept, LedgerKept
    <3> QED BY <2>2, <3>2, <3>3, <3>4, <3>5 DEF Stage
  <2> QED BY <2>1, <2>2
<1>3. ProgramTypeOK'
  BY <1>1 DEF IInv, TypeOK, ProgramTypeOK, Working, ExitSteps
<1>4. OperationInv'
  BY <1>1, <1>2 DEF IInv, OperationInv, Unsettled, InHand, ExitSteps
<1>5. MarkerInv'
  BY <1>1, <1>2 DEF IInv, MarkerInv, Markers, Exiting, Working, ExitSteps
<1>6. BindingInv'
  BY <1>1, <1>2 DEF IInv, BindingInv, Accepts, Exposed, Working, ExitSteps
<1>7. OrderInv'
  BY <1>2 DEF IInv, OrderInv
<1>8. ObservedInv'
  BY <1>1, <1>2 DEF IInv, ObservedInv, Flat, NothingTrades
<1> QED BY <1>2, <1>3, <1>4, <1>5, <1>6, <1>7, <1>8 DEF IInv, TypeOK

\* reset-flat begins an exit,
LEMMA ResetFlatPreserves == ASSUME IInv, ResetFlat PROVE IInv'
<1>1. file \in Strategies
  BY DEF IInv, TypeOK, ProgramTypeOK
<1>2. /\ pc = "idle" /\ Begin(file) /\ cmd' = "reset"
      /\ UNCHANGED <<toml, pending, account, profile, todo, aim, round, saw, ghosts>>
  BY DEF ResetFlat
<1> QED BY <1>1, <1>2, BeginPreserves

\* and so does a switch.
LEMMA SwitchExitsPreserves == ASSUME IInv, SwitchExits PROVE IInv'
<1>1. cfg \in Strategies
  BY DEF IInv, BindingInv, TypeOK, ProgramTypeOK, SwitchExits, Working
<1>2. /\ pc = "exit" /\ Begin(cfg) /\ UNCHANGED cmd
      /\ UNCHANGED <<toml, pending, account, profile, todo, aim, round, saw, ghosts>>
  BY DEF SwitchExits
<1> QED BY <1>1, <1>2, BeginPreserves

\* Each step is on record before it is performed.
LEMMA MarkPreserves ==
    ASSUME IInv, Mark PROVE IInv'
<1> USE DEF Mark
<1>1. /\ DOMAIN dir' = DOMAIN dir \cup {"reset"} /\ dir'["reset"] = [dir["reset"] EXCEPT !.stage = stage]
      /\ \A n \in DOMAIN dir : n # "reset" => dir'[n] = dir[n]
      /\ archived' = archived \ {"reset"}
      /\ Contents("config")' = Contents("config") /\ Unresolved' = Unresolved
  <2>1. Write("reset", [dir["reset"] EXCEPT !.stage = stage])
    OBVIOUS
  <2> QED BY <2>1, Written, ConfigKept, LedgerKept, StageKept
<1>2. /\ pc = "mark" /\ "reset" \in DOMAIN dir
      /\ dir["reset"] \in [binding : Strategies, stage : ResetStages]
      /\ cfg \in Strategies
  BY ReadTyped DEF IInv, MarkerInv, BindingInv, Exiting, Working, ExitSteps
<1>3. stage \in ExitSteps /\ (pending # Null => stage = "Reconcile")
  BY <1>2 DEF IInv, OperationInv
<1>4. /\ dir'["reset"] \in [binding : Strategies, stage : ResetStages]
      /\ dir'["reset"].stage = stage /\ dir'["reset"].binding = dir["reset"].binding
      /\ [dir["reset"] EXCEPT !.stage = stage] \in [binding : Strategies, stage : ResetStages]
  BY <1>1, <1>2, <1>3 DEF ResetStages
<1>5. Stage' = stage
  BY <1>1, <1>4 DEF Stage
<1>6. RecordsTypeOK'
  BY <1>4, WriteTyped DEF Names
<1>7. ProgramTypeOK'
  BY <1>2, <1>3 DEF IInv, TypeOK, ProgramTypeOK, Working, ExitSteps, IocRounds
<1>8. OperationInv'
  BY <1>1, <1>2, <1>3 DEF IInv, OperationInv, Unsettled, InHand, ExitSteps
<1>9. MarkerInv'
  BY <1>1, <1>2, <1>3 DEF IInv, MarkerInv, Exiting, Working, ExitSteps
<1>10. BindingInv'
  BY <1>1, <1>2, <1>3, <1>4 DEF IInv, BindingInv, Exposed, Working, ExitSteps
<1>11. OrderInv'
  BY <1>1 DEF IInv, OrderInv
<1>12. ObservedInv'
  BY <1>1, <1>2, <1>3, <1>5 DEF IInv, ObservedInv, Flat, NothingTrades,
        ExitSteps
<1> QED BY <1>6, <1>7, <1>8, <1>9, <1>10, <1>11, <1>12 DEF IInv, TypeOK

\* What an earlier program left is settled first.
LEMMA ReconcilePreserves ==
    ASSUME IInv, Reconcile PROVE IInv'
<1>1. /\ pc = "Reconcile" /\ pending' = Null
      /\ stage' = "CancelOrders" /\ pc' = "mark" /\ round' = 0
      /\ UNCHANGED <<command, todo, aim, saw>> /\ UNCHANGED <<toml, orders, ghosts>>
  BY DEF Reconcile, Advance, Following
<1>2. /\ Reached
      /\ \A o \in Oids : exch[o] = "resting" => o \in listed \cup Unresolved'
  BY <1>1, SettleReaches DEF Reconcile
<1>3. RecordsTypeOK' /\ ProgramTypeOK'
  BY <1>1, <1>2 DEF Reached, IInv, TypeOK, ProgramTypeOK, Working, ExitSteps, IocRounds
<1>4. OperationInv'
  BY <1>1 DEF OperationInv, Unsettled, InHand, ExitSteps
<1>5. MarkerInv'
  BY <1>1, <1>2 DEF Reached, IInv, MarkerInv, Markers, Exiting, Working, ExitSteps
<1>6. BindingInv'
  BY <1>1, <1>2 DEF Reached, IInv, BindingInv, Working, ExitSteps
<1>7. OrderInv'
  BY <1>1, <1>2 DEF IInv, OrderInv
<1>8. ObservedInv'
  BY <1>1, <1>2 DEF Reached, IInv, ObservedInv
<1> QED BY <1>3, <1>4, <1>5, <1>6, <1>7, <1>8 DEF IInv, TypeOK

\* The orders to cancel are on disk before any cancel.
LEMMA CollectOrdersPreserves ==
    ASSUME IInv, CollectOrders PROVE IInv'
<1> USE DEF CollectOrders
<1>1. /\ DOMAIN dir' = DOMAIN dir \cup {"exitOrders"} /\ dir'["exitOrders"] = todo'
      /\ \A n \in DOMAIN dir : n # "exitOrders" => dir'[n] = dir[n]
      /\ archived' = archived \ {"exitOrders"}
      /\ Contents("config")' = Contents("config") /\ Unresolved' = Unresolved /\ Stage' = Stage
  <2>1. Write("exitOrders", todo')
    OBVIOUS
  <2> QED BY <2>1, Written, ConfigKept, LedgerKept, StageKept
<1>2. todo' \subseteq Oids
  BY DEF IInv, TypeOK, ProgramTypeOK, RecordsTypeOK
<1>3. RecordsTypeOK'
  BY <1>2, WriteTyped DEF Names
<1>4. ProgramTypeOK'
  BY <1>2 DEF IInv, TypeOK, ProgramTypeOK, Working, ExitSteps
<1>5. OperationInv'
  BY <1>1 DEF IInv, OperationInv, Unsettled, InHand
<1>6. MarkerInv'
  BY <1>1 DEF IInv, MarkerInv, Exiting, Working, ExitSteps
<1>7. BindingInv'
  BY <1>1 DEF IInv, BindingInv, Exposed, Working, ExitSteps
<1>8. OrderInv'
  BY <1>1 DEF IInv, OrderInv
<1>9. ObservedInv'
  BY <1>1 DEF IInv, ObservedInv, Flat, NothingTrades
<1> QED BY <1>3, <1>4, <1>5, <1>6, <1>7, <1>8, <1>9 DEF IInv, TypeOK

\* An order is over.
LEMMA OrderOverPreserves ==
    ASSUME IInv, NEW o \in Oids, OrderOver(o) PROVE IInv'
<1> USE DEF OrderOver
<1>1. /\ Contents("config")' = Contents("config") /\ DOMAIN dir' = DOMAIN dir
      /\ Unresolved' = Unresolved /\ Stage' = Stage
  BY Kept
<1>2. RecordsTypeOK'
  BY KeptTyped
<1>3. ProgramTypeOK'
  BY DEF IInv, TypeOK, ProgramTypeOK, Working, ExitSteps
<1>4. OperationInv'
  BY <1>1 DEF IInv, OperationInv, Unsettled, InHand
<1>5. MarkerInv'
  BY <1>1 DEF IInv, MarkerInv, Exiting, Working, ExitSteps
<1>6. BindingInv'
  BY <1>1 DEF IInv, BindingInv, Exposed, Working, ExitSteps
<1>7. OrderInv'
  BY <1>1 DEF IInv, OrderInv
<1>8. ObservedInv'
  BY <1>1 DEF IInv, ObservedInv, Flat, NothingTrades
<1> QED BY <1>2, <1>3, <1>4, <1>5, <1>6, <1>7, <1>8 DEF IInv, TypeOK

\* An open one is cancelled, the cancel first on disk.
LEMMA BeginCancelPreserves ==
    ASSUME IInv, NEW o \in Oids, BeginCancel(o) PROVE IInv'
<1> USE DEF BeginCancel
<1>1. /\ Contents("config")' = Contents("config") /\ DOMAIN dir' = DOMAIN dir
      /\ Unresolved' = Unresolved /\ Stage' = Stage
  BY Kept
<1>2. pending' \in Ops /\ pending' # Null /\ pending'.kind = "cancel" /\ pending'.id = o
  <2>1. pending' = Op("cancel", o)
    OBVIOUS
  <2>2. pending' \in Ops
    BY <2>1 DEF Op, Ops
  <2>3. pending'.kind = "cancel" /\ pending'.id = o
    BY <2>1 DEF Op
  <2> QED BY <2>2, <2>3, RecordsAssumption
<1>3. RecordsTypeOK'
  BY KeptTyped
<1>4. ProgramTypeOK'
  BY <1>2 DEF IInv, TypeOK, ProgramTypeOK, Working, ExitSteps
<1>5. OperationInv'
  BY <1>1, <1>2 DEF IInv, OperationInv, Unsettled, InHand
<1>6. MarkerInv'
  BY <1>1 DEF IInv, MarkerInv, Exiting, Working, ExitSteps
<1>7. BindingInv'
  BY <1>1, <1>2 DEF IInv, BindingInv, Exposed, Working, ExitSteps
<1>8. OrderInv'
  BY <1>1, <1>2 DEF IInv, OrderInv
<1>9. ObservedInv'
  BY <1>1 DEF IInv, ObservedInv, Flat, NothingTrades
<1> QED BY <1>3, <1>4, <1>5, <1>6, <1>7, <1>8, <1>9 DEF IInv, TypeOK

\* It is submitted,
LEMMA SubmitCancelPreserves ==
    ASSUME IInv, SubmitCancel PROVE IInv'
<1> USE DEF SubmitCancel
<1>1. /\ Contents("config")' = Contents("config") /\ DOMAIN dir' = DOMAIN dir
      /\ Unresolved' = Unresolved /\ Stage' = Stage
  BY Kept
<1>2. /\ pending' \in Ops /\ pending' # Null /\ pending # Null
      /\ pending.kind = "cancel" /\ pending'.kind = "cancel"
  BY RecordsAssumption DEF IInv, TypeOK, ProgramTypeOK, OperationInv, Unsettled, InHand, Ops
<1>3. RecordsTypeOK'
  BY KeptTyped
<1>4. ProgramTypeOK'
  BY <1>2 DEF IInv, TypeOK, ProgramTypeOK, Working, ExitSteps
<1>5. OperationInv'
  BY <1>1, <1>2 DEF IInv, OperationInv, Unsettled, InHand
<1>6. MarkerInv'
  BY <1>1 DEF IInv, MarkerInv, Exiting, Working, ExitSteps
<1>7. BindingInv'
  BY <1>1, <1>2 DEF IInv, BindingInv, Exposed, Working, ExitSteps
<1>8. OrderInv'
  BY <1>1, <1>2 DEF IInv, OrderInv
<1>9. ObservedInv'
  BY <1>1 DEF IInv, ObservedInv, Flat, NothingTrades
<1> QED BY <1>3, <1>4, <1>5, <1>6, <1>7, <1>8, <1>9 DEF IInv, TypeOK

\* lands,
LEMMA CancelLandsPreserves ==
    ASSUME IInv, CancelLands PROVE IInv'
<1> USE DEF CancelLands
<1>1. /\ Contents("config")' = Contents("config") /\ DOMAIN dir' = DOMAIN dir
      /\ Unresolved' = Unresolved /\ Stage' = Stage
  BY Kept
<1>2. exch \in [Oids -> {"none", "resting", "over"}] /\ index \in [Oids -> {"unknown", "open", "over"}]
  BY DEF IInv, TypeOK, ProgramTypeOK
<1>3. \A o \in Oids : exch'[o] = IF o = aim THEN "over" ELSE exch[o]
  BY <1>2
<1>4. exch' \in [Oids -> {"none", "resting", "over"}]
  BY <1>2
<1>5. pending # Null => pending.kind = "cancel"
  BY DEF IInv, OperationInv, Unsettled, InHand
<1>6. RecordsTypeOK'
  BY KeptTyped
<1>7. ProgramTypeOK'
  BY <1>4 DEF IInv, TypeOK, ProgramTypeOK, Working, ExitSteps
<1>8. OperationInv'
  BY <1>1 DEF IInv, OperationInv, Unsettled, InHand
<1>9. MarkerInv'
  BY <1>1 DEF IInv, MarkerInv, Exiting, Working, ExitSteps
<1>10. BindingInv'
  BY <1>1 DEF IInv, BindingInv, Exposed, Working, ExitSteps
<1>11. OrderInv'
  BY <1>1, <1>2, <1>3, <1>5 DEF IInv, OrderInv
<1>12. ObservedInv'
  BY <1>1 DEF IInv, ObservedInv, Flat, NothingTrades
<1> QED BY <1>6, <1>7, <1>8, <1>9, <1>10, <1>11, <1>12 DEF IInv, TypeOK

\* and is finished.
LEMMA FinishCancelPreserves ==
    ASSUME IInv, FinishCancel PROVE IInv'
<1> USE DEF FinishCancel
<1>1. /\ Contents("config")' = Contents("config") /\ DOMAIN dir' = DOMAIN dir
      /\ Unresolved' = Unresolved /\ Stage' = Stage
  BY Kept
<1>2. pending # Null /\ pending.kind = "cancel"
  BY DEF IInv, OperationInv, Unsettled, InHand
<1>3. RecordsTypeOK'
  BY KeptTyped
<1>4. ProgramTypeOK'
  BY DEF IInv, TypeOK, ProgramTypeOK, Working, ExitSteps
<1>5. OperationInv'
  BY <1>1 DEF IInv, OperationInv, Unsettled, InHand
<1>6. MarkerInv'
  BY <1>1 DEF IInv, MarkerInv, Exiting, Working, ExitSteps
<1>7. BindingInv'
  BY <1>1 DEF IInv, BindingInv, Exposed, Working, ExitSteps
<1>8. OrderInv'
  BY <1>1, <1>2 DEF IInv, OrderInv
<1>9. ObservedInv'
  BY <1>1 DEF IInv, ObservedInv, Flat, NothingTrades
<1> QED BY <1>3, <1>4, <1>5, <1>6, <1>7, <1>8, <1>9 DEF IInv, TypeOK

\* The book is empty, and so is the ledger: nothing may trade any more but what
\* the owner adds.
LEMMA BookEmptyPreserves ==
    ASSUME IInv, BookEmpty PROVE IInv'
<1>1. /\ pc = "cancel" /\ listed = {} /\ LedgerOver
      /\ stage' = "RemoveLp" /\ pc' = "mark" /\ round' = 0
      /\ UNCHANGED <<toml, pending, account, ghosts>> /\ UNCHANGED <<command, todo, aim, saw>>
  BY DEF BookEmpty, Advance, Following
<1>2. /\ \A n \in {"config", "reset", "migration"} :
           /\ n \in DOMAIN dir' <=> n \in DOMAIN dir
           /\ n \in DOMAIN dir => dir'[n] = dir[n]
      /\ archived' \subseteq archived
      /\ Contents("config")' = Contents("config") /\ Stage' = Stage /\ RecordsTypeOK'
  <2>1. CASE "orders" \in DOMAIN dir
    <3>1. Write("orders", {})
      BY <2>1 DEF BookEmpty
    <3>2. RecordsTypeOK'
      BY <3>1, WriteTyped DEF Names
    <3>3. Contents("config")' = Contents("config") /\ Stage' = Stage
      BY <3>1, ConfigKept, StageKept
    <3>4. /\ DOMAIN dir' = DOMAIN dir \cup {"orders"} /\ archived' = archived \ {"orders"}
          /\ \A n \in DOMAIN dir : n # "orders" => dir'[n] = dir[n]
      BY <3>1, Written
    <3> QED BY <2>1, <3>2, <3>3, <3>4
  <2>2. CASE "orders" \notin DOMAIN dir
    <3>1. UNCHANGED records
      BY <2>2 DEF BookEmpty, Untouched
    <3> QED BY <3>1, Kept, KeptTyped
  <2> QED BY <2>1, <2>2
<1>3. pending = Null
  BY <1>1 DEF IInv, OperationInv, Unsettled, InHand
<1>4. \A o \in Oids : exch[o] # "resting"
  BY <1>1, <1>3, ReadTyped DEF LedgerOver, IInv, OrderInv
<1>5. ProgramTypeOK'
  BY <1>1 DEF IInv, TypeOK, ProgramTypeOK, Working, ExitSteps, IocRounds
<1>6. OperationInv'
  BY <1>1, <1>3 DEF OperationInv, InHand, ExitSteps
<1>7. MarkerInv'
  BY <1>1, <1>2 DEF IInv, MarkerInv, Markers, Exiting, Working, ExitSteps
<1>8. BindingInv'
  BY <1>1, <1>2 DEF IInv, BindingInv, Exposed, Working, ExitSteps
<1>9. OrderInv'
  BY <1>1, <1>4 DEF IInv, OrderInv
<1>10. ObservedInv'
  BY <1>1, <1>2 DEF IInv, ObservedInv
<1> QED BY <1>2, <1>5, <1>6, <1>7, <1>8, <1>9, <1>10 DEF IInv, TypeOK

\* The registry is rebuilt from the wallet.
LEMMA RebuildRegistryPreserves ==
    ASSUME IInv, RebuildRegistry PROVE IInv'
<1> USE DEF RebuildRegistry
<1>1. /\ DOMAIN dir' = DOMAIN dir \cup {"nfts"} /\ dir'["nfts"] = lp
      /\ \A n \in DOMAIN dir : n # "nfts" => dir'[n] = dir[n]
      /\ archived' = archived \ {"nfts"}
      /\ Contents("config")' = Contents("config") /\ Unresolved' = Unresolved /\ Stage' = Stage
  <2>1. Write("nfts", lp)
    OBVIOUS
  <2> QED BY <2>1, Written, ConfigKept, LedgerKept, StageKept
<1>2. lp \subseteq Nfts
  BY DEF IInv, TypeOK, ProgramTypeOK
<1>3. RecordsTypeOK'
  BY <1>2, WriteTyped DEF Names
<1>4. ProgramTypeOK'
  BY <1>2 DEF IInv, TypeOK, ProgramTypeOK, Working, ExitSteps
<1>5. OperationInv'
  BY <1>1 DEF IInv, OperationInv, Unsettled, InHand
<1>6. MarkerInv'
  BY <1>1 DEF IInv, MarkerInv, Exiting, Working, ExitSteps
<1>7. BindingInv'
  BY <1>1 DEF IInv, BindingInv, Exposed, Working, ExitSteps
<1>8. OrderInv'
  BY <1>1 DEF IInv, OrderInv
<1>9. ObservedInv'
  BY <1>1 DEF IInv, ObservedInv, Flat, NothingTrades
<1> QED BY <1>3, <1>4, <1>5, <1>6, <1>7, <1>8, <1>9 DEF IInv, TypeOK

\* A position of the registry is removed,
LEMMA BeginRemovePreserves ==
    ASSUME IInv, NEW n \in Nfts, BeginRemove(n) PROVE IInv'
<1> USE DEF BeginRemove
<1>1. /\ Contents("config")' = Contents("config") /\ DOMAIN dir' = DOMAIN dir
      /\ Unresolved' = Unresolved /\ Stage' = Stage
  BY Kept
<1>2. pending' \in Ops /\ pending' # Null /\ pending'.kind = "remove" /\ pending'.id = n
  <2>1. pending' = Op("remove", n)
    OBVIOUS
  <2>2. pending' \in Ops
    BY <2>1 DEF Op, Ops
  <2>3. pending'.kind = "remove" /\ pending'.id = n
    BY <2>1 DEF Op
  <2> QED BY <2>2, <2>3, RecordsAssumption
<1>3. n \in lp /\ "nfts" \in DOMAIN dir /\ pending = Null
  BY DEF IInv, OperationInv, Unsettled, InHand
<1>4. RecordsTypeOK'
  BY KeptTyped
<1>5. ProgramTypeOK'
  BY <1>2 DEF IInv, TypeOK, ProgramTypeOK, Working, ExitSteps
<1>6. OperationInv'
  BY <1>1, <1>2, <1>3 DEF IInv, OperationInv, Unsettled, InHand
<1>7. MarkerInv'
  BY <1>1 DEF IInv, MarkerInv, Exiting, Working, ExitSteps
<1>8. BindingInv'
  BY <1>1, <1>2, <1>3 DEF IInv, BindingInv, Exposed, Working, ExitSteps
<1>9. OrderInv'
  BY <1>1, <1>2, <1>3 DEF IInv, OrderInv
<1>10. ObservedInv'
  BY <1>1 DEF IInv, ObservedInv, Flat, NothingTrades
<1> QED BY <1>4, <1>5, <1>6, <1>7, <1>8, <1>9, <1>10 DEF IInv, TypeOK

\* and its base is in the wallet.
LEMMA ConfirmRemovePreserves ==
    ASSUME IInv, ConfirmRemove PROVE IInv'
<1>1. /\ pc = "removing" /\ pending' = Null /\ Landed("remove")
      /\ pc' = "remove" /\ stage' = stage /\ round' = round /\ todo' \subseteq todo
      /\ UNCHANGED <<toml, orders, command, aim, saw, ghosts>>
  BY DEF ConfirmRemove, Advance, Following
<1>2. pending # Null /\ pending.kind = "remove"
  BY <1>1 DEF IInv, OperationInv, InHand, Landed
<1>3. Reached /\ Unresolved' = Unresolved
  BY <1>1, <1>2, LandedReaches
<1>4. RecordsTypeOK' /\ ProgramTypeOK'
  BY <1>1, <1>3 DEF Reached, IInv, TypeOK, ProgramTypeOK, Working, ExitSteps, IocRounds
<1>5. OperationInv'
  <2>1. todo' = todo \ {pending.id} /\ lp' = lp \ {pending.id} /\ todo \subseteq lp
    BY <1>1, <1>2 DEF ConfirmRemove, Landed, IInv, OperationInv
  <2>2. "nfts" \in DOMAIN dir'
    <3>1. Write("nfts", Contents("nfts") \ {pending.id})
      BY <1>1 DEF Landed
    <3> QED BY <3>1, Written
  <2> QED BY <1>1, <2>1, <2>2 DEF OperationInv, InHand, ExitSteps
<1>6. MarkerInv'
  BY <1>1, <1>3 DEF Reached, IInv, MarkerInv, Markers, Exiting, Working, ExitSteps
<1>7. BindingInv'
  BY <1>1, <1>3 DEF Reached, IInv, BindingInv, Working, ExitSteps
<1>8. OrderInv'
  BY <1>1, <1>2, <1>3 DEF IInv, OrderInv
<1>9. ObservedInv'
  BY <1>1, <1>3 DEF Reached, IInv, ObservedInv
<1> QED BY <1>4, <1>5, <1>6, <1>7, <1>8, <1>9 DEF IInv, TypeOK

\* The base is sold.
LEMMA ConfirmSwapPreserves ==
    ASSUME IInv, ConfirmSwap PROVE IInv'
<1>1. /\ pc = "selling" /\ pending' = Null /\ Landed("swap")
      /\ pc' = "mark" /\ stage' = "CloseHedge" /\ round' = 0 /\ todo' \subseteq todo
      /\ UNCHANGED <<toml, orders, command, aim, saw, ghosts>>
  BY DEF ConfirmSwap, Advance, Following
<1>2. pending # Null /\ pending.kind = "swap"
  BY <1>1 DEF IInv, OperationInv, InHand, Landed
<1>3. Reached /\ Unresolved' = Unresolved
  BY <1>1, <1>2, LandedReaches
<1>4. RecordsTypeOK' /\ ProgramTypeOK'
  BY <1>1, <1>3 DEF Reached, IInv, TypeOK, ProgramTypeOK, Working, ExitSteps, IocRounds
<1>5. OperationInv'
  BY <1>1 DEF OperationInv, InHand, ExitSteps
<1>6. MarkerInv'
  BY <1>1, <1>3 DEF Reached, IInv, MarkerInv, Markers, Exiting, Working, ExitSteps
<1>7. BindingInv'
  BY <1>1, <1>3 DEF Reached, IInv, BindingInv, Working, ExitSteps
<1>8. OrderInv'
  BY <1>1, <1>2, <1>3 DEF IInv, OrderInv
<1>9. ObservedInv'
  BY <1>1, <1>3 DEF Reached, IInv, ObservedInv
<1> QED BY <1>4, <1>5, <1>6, <1>7, <1>8, <1>9 DEF IInv, TypeOK

\* Some of the hedge is closed.
LEMMA ConfirmClosePreserves ==
    ASSUME IInv, ConfirmClose PROVE IInv'
<1>1. /\ pc = "closing" /\ pending' = Null /\ Landed("close")
      /\ pc' = "CloseHedge" /\ stage' = stage /\ round' = round /\ todo' \subseteq todo
      /\ UNCHANGED <<toml, orders, command, aim, saw, ghosts>>
  BY DEF ConfirmClose, Advance, Following
<1>2. pending # Null /\ pending.kind = "close"
  BY <1>1 DEF IInv, OperationInv, InHand, Landed
<1>3. Reached /\ Unresolved' = Unresolved
  BY <1>1, <1>2, LandedReaches
<1>4. RecordsTypeOK' /\ ProgramTypeOK'
  BY <1>1, <1>3 DEF Reached, IInv, TypeOK, ProgramTypeOK, Working, ExitSteps, IocRounds
<1>5. OperationInv'
  BY <1>1 DEF OperationInv, InHand, ExitSteps
<1>6. MarkerInv'
  BY <1>1, <1>3 DEF Reached, IInv, MarkerInv, Markers, Exiting, Working, ExitSteps
<1>7. BindingInv'
  BY <1>1, <1>3 DEF Reached, IInv, BindingInv, Working, ExitSteps
<1>8. OrderInv'
  BY <1>1, <1>2, <1>3 DEF IInv, OrderInv
<1>9. ObservedInv'
  BY <1>1, <1>3 DEF Reached, IInv, ObservedInv
<1> QED BY <1>4, <1>5, <1>6, <1>7, <1>8, <1>9 DEF IInv, TypeOK

\* No position is left.
LEMMA LpRemovedPreserves ==
    ASSUME IInv, LpRemoved PROVE IInv'
<1> USE DEF LpRemoved, Advance, Following
<1>1. /\ Contents("config")' = Contents("config") /\ DOMAIN dir' = DOMAIN dir
      /\ Unresolved' = Unresolved /\ Stage' = Stage
  BY Kept
<1>2. RecordsTypeOK'
  BY KeptTyped
<1>3. ProgramTypeOK'
  BY DEF IInv, TypeOK, ProgramTypeOK, Working, ExitSteps, IocRounds
<1>4. OperationInv'
  BY <1>1 DEF IInv, OperationInv, Unsettled, InHand, ExitSteps
<1>5. MarkerInv'
  BY <1>1 DEF IInv, MarkerInv, Exiting, Working, ExitSteps
<1>6. BindingInv'
  BY <1>1 DEF IInv, BindingInv, Exposed, Working, ExitSteps
<1>7. OrderInv'
  BY <1>1 DEF IInv, OrderInv
<1>8. ObservedInv'
  BY <1>1 DEF IInv, ObservedInv, Flat, NothingTrades
<1> QED BY <1>2, <1>3, <1>4, <1>5, <1>6, <1>7, <1>8 DEF IInv, TypeOK

\* No base but dust is left.
LEMMA BaseSoldPreserves ==
    ASSUME IInv, BaseSold PROVE IInv'
<1> USE DEF BaseSold, Advance, Following
<1>1. /\ Contents("config")' = Contents("config") /\ DOMAIN dir' = DOMAIN dir
      /\ Unresolved' = Unresolved /\ Stage' = Stage
  BY Kept
<1>2. RecordsTypeOK'
  BY KeptTyped
<1>3. ProgramTypeOK'
  BY DEF IInv, TypeOK, ProgramTypeOK, Working, ExitSteps, IocRounds
<1>4. OperationInv'
  BY <1>1 DEF IInv, OperationInv, Unsettled, InHand, ExitSteps
<1>5. MarkerInv'
  BY <1>1 DEF IInv, MarkerInv, Exiting, Working, ExitSteps
<1>6. BindingInv'
  BY <1>1 DEF IInv, BindingInv, Exposed, Working, ExitSteps
<1>7. OrderInv'
  BY <1>1 DEF IInv, OrderInv
<1>8. ObservedInv'
  BY <1>1 DEF IInv, ObservedInv, Flat, NothingTrades
<1> QED BY <1>2, <1>3, <1>4, <1>5, <1>6, <1>7, <1>8 DEF IInv, TypeOK

\* What base there is, is sold.
LEMMA BeginSwapPreserves ==
    ASSUME IInv, BeginSwap PROVE IInv'
<1> USE DEF BeginSwap
<1>1. /\ Contents("config")' = Contents("config") /\ DOMAIN dir' = DOMAIN dir
      /\ Unresolved' = Unresolved /\ Stage' = Stage
  BY Kept
<1>2. pending' \in Ops /\ pending' # Null /\ pending'.kind = "swap" /\ pending'.id = Null
  <2>1. pending' = Op("swap", Null)
    OBVIOUS
  <2>2. pending' \in Ops
    BY <2>1 DEF Op, Ops
  <2>3. pending'.kind = "swap" /\ pending'.id = Null
    BY <2>1 DEF Op
  <2> QED BY <2>2, <2>3, RecordsAssumption
<1>3. pending = Null
  BY DEF IInv, OperationInv, Unsettled, InHand
<1>4. RecordsTypeOK'
  BY KeptTyped
<1>5. ProgramTypeOK'
  BY <1>2 DEF IInv, TypeOK, ProgramTypeOK, Working, ExitSteps
<1>6. OperationInv'
  BY <1>1, <1>2 DEF IInv, OperationInv, Unsettled, InHand
<1>7. MarkerInv'
  BY <1>1 DEF IInv, MarkerInv, Exiting, Working, ExitSteps
<1>8. BindingInv'
  BY <1>1, <1>2 DEF IInv, BindingInv, Exposed, Working, ExitSteps
<1>9. OrderInv'
  BY <1>1, <1>2, <1>3 DEF IInv, OrderInv
<1>10. ObservedInv'
  BY <1>1 DEF IInv, ObservedInv, Flat, NothingTrades
<1> QED BY <1>4, <1>5, <1>6, <1>7, <1>8, <1>9, <1>10 DEF IInv, TypeOK

\* The hedge is closed by orders that do not rest.
LEMMA BeginClosePreserves ==
    ASSUME IInv, BeginClose PROVE IInv'
<1> USE DEF BeginClose
<1>1. /\ Contents("config")' = Contents("config") /\ DOMAIN dir' = DOMAIN dir
      /\ Unresolved' = Unresolved /\ Stage' = Stage
  BY Kept
<1>2. pending' \in Ops /\ pending' # Null /\ pending'.kind = "close" /\ pending'.id = Null
  <2>1. pending' = Op("close", Null)
    OBVIOUS
  <2>2. pending' \in Ops
    BY <2>1 DEF Op, Ops
  <2>3. pending'.kind = "close" /\ pending'.id = Null
    BY <2>1 DEF Op
  <2> QED BY <2>2, <2>3, RecordsAssumption
<1>3. pending = Null
  BY DEF IInv, OperationInv, Unsettled, InHand
<1>4. RecordsTypeOK'
  BY KeptTyped
<1>5. ProgramTypeOK'
  BY <1>2 DEF IInv, TypeOK, ProgramTypeOK, Working, ExitSteps, IocRounds
<1>6. OperationInv'
  BY <1>1, <1>2 DEF IInv, OperationInv, Unsettled, InHand
<1>7. MarkerInv'
  BY <1>1 DEF IInv, MarkerInv, Exiting, Working, ExitSteps
<1>8. BindingInv'
  BY <1>1, <1>2 DEF IInv, BindingInv, Exposed, Working, ExitSteps
<1>9. OrderInv'
  BY <1>1, <1>2, <1>3 DEF IInv, OrderInv
<1>10. ObservedInv'
  BY <1>1 DEF IInv, ObservedInv, Flat, NothingTrades
<1> QED BY <1>4, <1>5, <1>6, <1>7, <1>8, <1>9, <1>10 DEF IInv, TypeOK

\* The hedge is closed, and the observations begin.
LEMMA HedgeClosedPreserves ==
    ASSUME IInv, HedgeClosed PROVE IInv'
<1> USE DEF HedgeClosed, Advance, Following
<1>1. /\ Contents("config")' = Contents("config") /\ DOMAIN dir' = DOMAIN dir
      /\ Unresolved' = Unresolved /\ Stage' = Stage
  BY Kept
<1>2. pending = Null
  BY DEF IInv, OperationInv, Unsettled, InHand
<1>3. RecordsTypeOK'
  BY KeptTyped
<1>4. ProgramTypeOK'
  BY DEF IInv, TypeOK, ProgramTypeOK, Working, ExitSteps, IocRounds
<1>5. OperationInv'
  BY <1>1, <1>2 DEF IInv, OperationInv, Unsettled, InHand
<1>6. MarkerInv'
  BY <1>1 DEF IInv, MarkerInv, Exiting, Working, ExitSteps
<1>7. BindingInv'
  BY <1>1 DEF IInv, BindingInv, Exposed, Working, ExitSteps
<1>8. OrderInv'
  BY <1>1 DEF IInv, OrderInv
<1>9. ObservedInv'
  BY <1>1 DEF IInv, ObservedInv, Flat, NothingTrades
<1> QED BY <1>3, <1>4, <1>5, <1>6, <1>7, <1>8, <1>9 DEF IInv, TypeOK

\* The wallet and the position are read,
LEMMA ObserveBalancesPreserves ==
    ASSUME IInv, ObserveBalances PROVE IInv'
<1> USE DEF ObserveBalances, DustAtMost
<1>1. /\ Contents("config")' = Contents("config") /\ DOMAIN dir' = DOMAIN dir
      /\ Unresolved' = Unresolved /\ Stage' = Stage
  BY Kept
<1>2. pending = Null
  BY DEF IInv, OperationInv, Unsettled, InHand
<1>3. RecordsTypeOK'
  BY KeptTyped
<1>4. ProgramTypeOK'
  BY DEF IInv, TypeOK, ProgramTypeOK, Working, ExitSteps
<1>5. OperationInv'
  BY <1>1, <1>2 DEF IInv, OperationInv, Unsettled, InHand
<1>6. MarkerInv'
  BY <1>1 DEF IInv, MarkerInv, Exiting, Working, ExitSteps
<1>7. BindingInv'
  BY <1>1 DEF IInv, BindingInv, Exposed, Working, ExitSteps
<1>8. OrderInv'
  BY <1>1 DEF IInv, OrderInv
<1>9. ObservedInv'
  BY <1>1 DEF IInv, ObservedInv, Flat, NothingTrades
<1> QED BY <1>3, <1>4, <1>5, <1>6, <1>7, <1>8, <1>9 DEF IInv, TypeOK

\* and after them the orders, of which none is left.
LEMMA ObserveOrdersPreserves ==
    ASSUME IInv, ObserveOrders PROVE IInv'
<1> USE DEF ObserveOrders, Observations
<1>1. /\ DOMAIN dir' = DOMAIN dir \cup {"proof"} /\ dir'["proof"] = "flat"
      /\ \A n \in DOMAIN dir : n # "proof" => dir'[n] = dir[n]
      /\ archived' = archived \ {"proof"}
      /\ Contents("config")' = Contents("config") /\ Unresolved' = Unresolved /\ Stage' = Stage
  <2>1. Write("proof", "flat")
    OBVIOUS
  <2> QED BY <2>1, Written, ConfigKept, LedgerKept, StageKept
<1>2. pending = Null /\ round \in 0..1 /\ \A o \in Oids : exch[o] # "resting"
  BY DEF IInv, OperationInv, OrderInv
<1>3. RecordsTypeOK'
  BY WriteTyped DEF Names
<1>4. ProgramTypeOK'
  BY <1>2 DEF IInv, TypeOK, ProgramTypeOK, Working, ExitSteps, IocRounds
<1>5. OperationInv'
  BY <1>1, <1>2 DEF IInv, OperationInv, Unsettled, InHand
<1>6. MarkerInv'
  BY <1>1 DEF IInv, MarkerInv, Exiting, Working, ExitSteps
<1>7. BindingInv'
  BY <1>1 DEF IInv, BindingInv, Exposed, Working, ExitSteps
<1>8. OrderInv'
  BY <1>1 DEF IInv, OrderInv
<1>9. ObservedInv'
  BY <1>1, <1>2 DEF IInv, ObservedInv, Flat, NothingTrades
<1> QED BY <1>3, <1>4, <1>5, <1>6, <1>7, <1>8, <1>9 DEF IInv, TypeOK

\* The flat account is on record.
LEMMA MarkVerifiedPreserves ==
    ASSUME IInv, MarkVerified PROVE IInv'
<1> USE DEF MarkVerified
<1>1. /\ DOMAIN dir' = DOMAIN dir \cup {"reset"} /\ dir'["reset"] = [dir["reset"] EXCEPT !.stage = "verified_flat"]
      /\ \A n \in DOMAIN dir : n # "reset" => dir'[n] = dir[n]
      /\ archived' = archived \ {"reset"}
      /\ Contents("config")' = Contents("config") /\ Unresolved' = Unresolved
  <2>1. Write("reset", [dir["reset"] EXCEPT !.stage = "verified_flat"])
    OBVIOUS
  <2> QED BY <2>1, Written, ConfigKept, LedgerKept, StageKept
<1>2. "reset" \in DOMAIN dir /\ dir["reset"] \in [binding : Strategies, stage : ResetStages]
  BY ReadTyped DEF IInv, MarkerInv, Exiting, Working, ExitSteps
<1>3. pending = Null
  BY DEF IInv, OperationInv, Unsettled, InHand
<1>4. /\ dir'["reset"] \in [binding : Strategies, stage : ResetStages]
      /\ dir'["reset"].binding = dir["reset"].binding /\ Stage' = "verified_flat"
  BY <1>1, <1>2 DEF Stage, ResetStages
<1>5. RecordsTypeOK'
  <2>1. Write("reset", dir'["reset"])
    BY <1>1
  <2> QED BY <1>4, <2>1, WriteTyped DEF Names
<1>6. ProgramTypeOK'
  BY DEF IInv, TypeOK, ProgramTypeOK, Working, ExitSteps
<1>7. OperationInv'
  BY <1>1, <1>3 DEF IInv, OperationInv, Unsettled, InHand
<1>8. MarkerInv'
  BY <1>1, <1>2 DEF IInv, MarkerInv, Exiting, Working, ExitSteps
<1>9. BindingInv'
  BY <1>1, <1>4, <1>2 DEF IInv, BindingInv, Exposed, Working, ExitSteps
<1>10. OrderInv'
  BY <1>1 DEF IInv, OrderInv
<1>11. ObservedInv'
  BY <1>1, <1>4 DEF IInv, ObservedInv, Flat, NothingTrades
<1> QED BY <1>5, <1>6, <1>7, <1>8, <1>9, <1>10, <1>11 DEF IInv, TypeOK

\* The backup is complete, and covers every file.
LEMMA ArchivePreserves ==
    ASSUME IInv, Archive PROVE IInv'
<1> USE DEF Archive
<1>1. /\ Contents("config")' = Contents("config") /\ DOMAIN dir' = DOMAIN dir
      /\ Unresolved' = Unresolved /\ Stage' = Stage
  BY DEF Contents, Unresolved, Stage
<1>2. RecordsTypeOK'
  BY <1>1 DEF IInv, TypeOK, RecordsTypeOK
<1>3. ProgramTypeOK'
  BY DEF IInv, TypeOK, ProgramTypeOK, Working, ExitSteps
<1>4. OperationInv'
  BY <1>1 DEF IInv, OperationInv, Unsettled, InHand
<1>5. MarkerInv'
  BY <1>1 DEF IInv, MarkerInv, Exiting, Working, ExitSteps
<1>6. BindingInv'
  BY <1>1 DEF IInv, BindingInv, Exposed, Working, ExitSteps
<1>7. OrderInv'
  BY <1>1 DEF IInv, OrderInv
<1>8. ObservedInv'
  BY <1>1 DEF IInv, ObservedInv, Flat, NothingTrades
<1> QED BY <1>2, <1>3, <1>4, <1>5, <1>6, <1>7, <1>8 DEF IInv, TypeOK

\* A file of the archived directory goes,
LEMMA DeletePreserves ==
    ASSUME IInv, NEW name \in Names, Delete(name) PROVE IInv'
<1> USE DEF Delete, Clearable
<1>1. /\ DOMAIN dir' = DOMAIN dir \ {name} /\ archived' = archived \ {name}
      /\ \A n \in DOMAIN dir' : dir'[n] = dir[n]
      /\ Contents("config")' \in {Null, Contents("config")}
      /\ "config" \notin {name} => Contents("config")' = Contents("config")
  <2>1. Remove({name})
    OBVIOUS
  <2> QED BY <2>1, Removed
<1>2. pending = Null /\ Flat /\ Unresolved = {} /\ name \notin Markers
  BY DEF IInv, OperationInv, Unsettled, InHand, ObservedInv
<1>3. Unresolved' = {}
  BY <1>1, <1>2 DEF Unresolved
<1>4. Stage' = Stage
  BY <1>1, <1>2 DEF Stage, Markers
<1>5. RecordsTypeOK'
  <2>1. Remove({name})
    OBVIOUS
  <2> QED BY <2>1, RemoveTyped
<1>6. ProgramTypeOK'
  BY <1>2 DEF IInv, TypeOK, ProgramTypeOK, Working, ExitSteps
<1>7. OperationInv'
  BY <1>1, <1>2 DEF IInv, OperationInv, Unsettled, InHand
<1>8. MarkerInv'
  BY <1>1, <1>2 DEF IInv, MarkerInv, Exiting, Working, ExitSteps, Markers
<1>9. BindingInv'
  BY <1>1, <1>2 DEF IInv, BindingInv, Exposed, Working, ExitSteps, Markers, Flat
<1>10. OrderInv'
  BY <1>1, <1>2, <1>3 DEF IInv, OrderInv, Flat, NothingTrades
<1>11. ObservedInv'
  BY <1>1, <1>2, <1>3, <1>4 DEF IInv, ObservedInv, Flat, NothingTrades
<1> QED BY <1>5, <1>6, <1>7, <1>8, <1>9, <1>10, <1>11 DEF IInv, TypeOK

\* the marker last.
LEMMA RemoveMarkerPreserves ==
    ASSUME IInv, RemoveMarker PROVE IInv'
<1> USE DEF RemoveMarker, Clearable, Leave
<1>1. /\ DOMAIN dir' = DOMAIN dir \ {"reset"} /\ archived' = archived \ {"reset"}
      /\ \A n \in DOMAIN dir' : dir'[n] = dir[n]
      /\ Contents("config")' \in {Null, Contents("config")}
      /\ "config" \notin {"reset"} => Contents("config")' = Contents("config")
  <2>1. Remove({"reset"})
    OBVIOUS
  <2> QED BY <2>1, Removed
<1>2. pending = Null /\ Flat /\ Unresolved = {} /\ DOMAIN dir \subseteq Markers
  BY DEF IInv, OperationInv, Unsettled, InHand, ObservedInv
<1>3. Unresolved' = {} /\ Stage' = "none"
  BY <1>1, <1>2 DEF Unresolved, Stage, Markers
<1>4. RecordsTypeOK'
  <2>1. Remove({"reset"})
    OBVIOUS
  <2> QED BY <2>1, RemoveTyped
<1>5. ProgramTypeOK'
  <2>1. CASE cmd = "reset" /\ Leave
    <3>1. edited' \in BOOLEAN
      BY <2>1
    <3>2. round' \in 0..IocRounds /\ saw' \in 0..MaxShort
      BY <2>1, ShortAssumption DEF IocRounds
    <3> QED BY <2>1, <3>1, <3>2 DEF IInv, TypeOK, ProgramTypeOK
  <2>2. CASE pc' = "install" /\ UNCHANGED <<command, work, edited>>
    BY <2>2 DEF IInv, TypeOK, ProgramTypeOK, Working
  <2> QED BY <2>1, <2>2
<1>6. OperationInv'
  BY <1>1, <1>2 DEF IInv, OperationInv, Unsettled, InHand
<1>7. MarkerInv'
  BY <1>1, <1>2 DEF IInv, MarkerInv, Exiting, Working, ExitSteps, Markers
<1>8. BindingInv'
  BY <1>1, <1>2 DEF IInv, BindingInv, Exposed, Working, ExitSteps, Markers, Flat
<1>9. OrderInv'
  BY <1>1, <1>2, <1>3 DEF IInv, OrderInv, Flat, NothingTrades
<1>10. ObservedInv'
  BY <1>1, <1>2, <1>3 DEF IInv, ObservedInv, Flat, NothingTrades
<1> QED BY <1>4, <1>5, <1>6, <1>7, <1>8, <1>9, <1>10 DEF IInv, TypeOK

\* A switch is recorded, with the parameters of the records it finds.
LEMMA SwitchPreserves ==
    ASSUME IInv, NEW p \in Profiles, Switch(p) PROVE IInv'
<1> USE DEF Switch
<1>1. /\ DOMAIN dir' = DOMAIN dir \cup {"migration"} /\ dir'["migration"] = [profile |-> p, exit |-> ExitBinding]
      /\ \A n \in DOMAIN dir : n # "migration" => dir'[n] = dir[n]
      /\ archived' = archived \ {"migration"}
      /\ Contents("config")' = Contents("config") /\ Unresolved' = Unresolved /\ Stage' = Stage
  <2>1. Write("migration", [profile |-> p, exit |-> ExitBinding])
    OBVIOUS
  <2> QED BY <2>1, Written, ConfigKept, LedgerKept, StageKept
<1>2. ExitBinding \in Strategies /\ Contents("config") \in {Null, ExitBinding}
  <2>1. CASE "config" \in DOMAIN dir
    <3>1. dir["config"] \in Strategies /\ OldBinding = dir["config"] /\ Contents("config") = dir["config"]
      BY <2>1 DEF IInv, TypeOK, RecordsTypeOK, OldBinding, Contents
    <3> QED BY <3>1, NullAssumption DEF ExitBinding
  <2>2. CASE "config" \notin DOMAIN dir
    <3>1. Contents("config") = Null /\ OldBinding \in Strategies \cup {Null}
      BY <2>2 DEF Contents, OldBinding, IInv, TypeOK, RecordsTypeOK
    <3> QED BY <3>1 DEF ExitBinding, IInv, TypeOK, ProgramTypeOK
  <2> QED BY <2>1, <2>2
<1>3. /\ dir'["migration"].exit = ExitBinding
      /\ dir'["migration"] \in [profile : Profiles, exit : Strategies]
  BY <1>1, <1>2
<1>4. RecordsTypeOK'
  <2>1. Write("migration", dir'["migration"])
    BY <1>1
  <2> QED BY <1>3, <2>1, WriteTyped DEF Names
<1>5. ProgramTypeOK'
  BY <1>2 DEF IInv, TypeOK, ProgramTypeOK, Working, ExitSteps
<1>6. OperationInv'
  BY <1>1 DEF IInv, OperationInv, Unsettled, InHand
<1>7. MarkerInv'
  BY <1>1 DEF IInv, MarkerInv, Exiting, Working, ExitSteps
<1>8. BindingInv'
  BY <1>1, <1>2, <1>3 DEF IInv, BindingInv, Exposed, Working, ExitSteps
<1>9. OrderInv'
  BY <1>1 DEF IInv, OrderInv
<1>10. ObservedInv'
  BY <1>1 DEF IInv, ObservedInv, Flat, NothingTrades
<1> QED BY <1>4, <1>5, <1>6, <1>7, <1>8, <1>9, <1>10 DEF IInv, TypeOK

\* The directory is empty but for the marker.
LEMMA CheckInstallPreserves ==
    ASSUME IInv, CheckInstall PROVE IInv'
<1> USE DEF CheckInstall
<1>1. /\ Contents("config")' = Contents("config") /\ DOMAIN dir' = DOMAIN dir
      /\ Unresolved' = Unresolved /\ Stage' = Stage
  BY Kept
<1>2. RecordsTypeOK'
  BY KeptTyped
<1>3. ProgramTypeOK'
  BY DEF IInv, TypeOK, ProgramTypeOK, Working, ExitSteps
<1>4. OperationInv'
  BY <1>1 DEF IInv, OperationInv, Unsettled, InHand
<1>5. MarkerInv'
  BY <1>1 DEF IInv, MarkerInv, Exiting, Working, ExitSteps
<1>6. BindingInv'
  BY <1>1 DEF IInv, BindingInv, Exposed, Working, ExitSteps
<1>7. OrderInv'
  BY <1>1 DEF IInv, OrderInv
<1>8. ObservedInv'
  BY <1>1 DEF IInv, ObservedInv, Flat, NothingTrades
<1> QED BY <1>2, <1>3, <1>4, <1>5, <1>6, <1>7, <1>8 DEF IInv, TypeOK

\* The new parameters are in the configuration file,
LEMMA InstallPreserves ==
    ASSUME IInv, Install PROVE IInv'
<1> USE DEF Install
<1>1. /\ Contents("config")' = Contents("config") /\ DOMAIN dir' = DOMAIN dir
      /\ Unresolved' = Unresolved /\ Stage' = Stage
  BY Kept
<1>2. profile \in Strategies
  BY ProfilesAssumption DEF IInv, MarkerInv
<1>3. RecordsTypeOK'
  BY KeptTyped
<1>4. ProgramTypeOK'
  <2>1. switching' \in BOOLEAN
    OBVIOUS
  <2> QED BY <1>2, <2>1 DEF IInv, TypeOK, ProgramTypeOK, Working, ExitSteps
<1>5. OperationInv'
  BY <1>1 DEF IInv, OperationInv, Unsettled, InHand
<1>6. MarkerInv'
  BY <1>1 DEF IInv, MarkerInv, Exiting, Working, ExitSteps
<1>7. BindingInv'
  BY <1>1 DEF IInv, BindingInv, Exposed, Working, ExitSteps
<1>8. OrderInv'
  BY <1>1 DEF IInv, OrderInv
<1>9. ObservedInv'
  BY <1>1 DEF IInv, ObservedInv, Flat, NothingTrades
<1> QED BY <1>3, <1>4, <1>5, <1>6, <1>7, <1>8, <1>9 DEF IInv, TypeOK

\* and the strategy may run.
LEMMA UnblockPreserves ==
    ASSUME IInv, Unblock PROVE IInv'
<1> USE DEF Unblock, Leave
<1>1. /\ DOMAIN dir' = DOMAIN dir \ {"migration"} /\ archived' = archived \ {"migration"}
      /\ \A n \in DOMAIN dir' : dir'[n] = dir[n]
      /\ Contents("config")' \in {Null, Contents("config")}
      /\ "config" \notin {"migration"} => Contents("config")' = Contents("config")
  <2>1. Remove({"migration"})
    OBVIOUS
  <2> QED BY <2>1, Removed
<1>2. pending = Null /\ "reset" \notin DOMAIN dir /\ archived = DOMAIN dir /\ archived \subseteq {"migration"} /\ ~switching
  BY DEF IInv, OperationInv, Unsettled, InHand, MarkerInv
<1>3. Unresolved' = Unresolved /\ Stage' = Stage
  BY <1>1, <1>2 DEF Unresolved, Stage
<1>4. RecordsTypeOK'
  <2>1. Remove({"migration"})
    OBVIOUS
  <2> QED BY <2>1, RemoveTyped
<1>5. ProgramTypeOK'
  <2>1. edited' \in BOOLEAN
    OBVIOUS
  <2>2. round' \in 0..IocRounds /\ saw' \in 0..MaxShort
    BY ShortAssumption DEF IocRounds
  <2> QED BY <2>1, <2>2 DEF IInv, TypeOK, ProgramTypeOK
<1>6. OperationInv'
  BY <1>1, <1>2 DEF IInv, OperationInv, Unsettled, InHand
<1>7. MarkerInv'
  BY <1>1, <1>2 DEF IInv, MarkerInv, Exiting, Working, ExitSteps
<1>8. BindingInv'
  BY <1>1, <1>2 DEF IInv, BindingInv, Exposed, Working, ExitSteps
<1>9. OrderInv'
  BY <1>1, <1>2, <1>3 DEF IInv, OrderInv
<1>10. ObservedInv'
  BY <1>1, <1>2, <1>3 DEF IInv, ObservedInv, Flat, NothingTrades
<1> QED BY <1>4, <1>5, <1>6, <1>7, <1>8, <1>9, <1>10 DEF IInv, TypeOK

-----------------------------------------------------------------------------
(* The specification. *)

\* Nothing is held, ordered or recorded at first.
LEMMA InitSatisfies == Init => IInv
<1> SUFFICES ASSUME Init PROVE IInv
  OBVIOUS
<1> USE DEF Init
<1>1. DOMAIN dir = {} /\ Stage = "none" /\ Contents("config") = Null /\ Unresolved = {}
  BY DEF Stage, Contents, Unresolved
<1>2. RecordsTypeOK
  BY <1>1 DEF RecordsTypeOK
<1>3. ProgramTypeOK
  <2>1. edited \in BOOLEAN /\ switching \in BOOLEAN
    OBVIOUS
  <2>2. short \in 0..MaxShort /\ saw \in 0..MaxShort /\ round \in 0..IocRounds
    BY ShortAssumption DEF IocRounds
  <2> QED BY <2>1, <2>2 DEF ProgramTypeOK
<1>4. OperationInv /\ MarkerInv
  BY <1>1 DEF OperationInv, MarkerInv, InHand, Exiting, Working, ExitSteps
<1>5. BindingInv /\ OrderInv /\ ObservedInv
  BY <1>1 DEF BindingInv, OrderInv, ObservedInv, Exposed, Working, ExitSteps
<1> QED BY <1>2, <1>3, <1>4, <1>5 DEF IInv, TypeOK

\* A step that changes nothing.
LEMMA Stuttering == ASSUME IInv, UNCHANGED vars PROVE IInv'
<1> USE DEF vars
<1>1. /\ Contents("config")' = Contents("config") /\ DOMAIN dir' = DOMAIN dir
      /\ Unresolved' = Unresolved /\ Stage' = Stage
  BY Kept
<1>2. RecordsTypeOK'
  BY KeptTyped
<1>3. ProgramTypeOK'
  BY DEF IInv, TypeOK, ProgramTypeOK
<1>4. OperationInv' /\ MarkerInv'
  BY <1>1 DEF IInv, OperationInv, MarkerInv
<1>5. BindingInv' /\ OrderInv'
  BY <1>1 DEF IInv, BindingInv, OrderInv, Exposed
<1>6. ObservedInv'
  BY <1>1 DEF IInv, ObservedInv, Flat, NothingTrades
<1> QED BY <1>2, <1>3, <1>4, <1>5, <1>6 DEF IInv, TypeOK

\* Every step of the three programs and of what they meet.
LEMMA NextPreserves == ASSUME IInv, Next PROVE IInv'
<1>1. CASE Environment
  BY <1>1, RelistPreserves, ReindexPreserves, EditPreserves, FillPreserves, UserOrderPreserves
     DEF Environment, Views
<1>2. CASE Strategy
  BY <1>2, RunPreserves, TradePreserves, PostOrderPreserves, StrategyReconcilesPreserves,
     StrategySyncsPreserves DEF Strategy
<1>3. CASE Stop
  BY <1>3, StopPreserves
<1>4. CASE ResetFlat
  BY <1>4, ResetFlatPreserves
<1>5. CASE ExitStep
  <2>1. CASE CancelStep
    BY <2>1, CollectOrdersPreserves, SubmitCancelPreserves, CancelLandsPreserves,
       FinishCancelPreserves, BookEmptyPreserves, OrderOverPreserves, BeginCancelPreserves
       DEF CancelStep
  <2>2. CASE \/ RebuildRegistry \/ ConfirmRemove \/ LpRemoved
             \/ \E n \in Nfts : BeginRemove(n)
             \/ BaseSold \/ BeginSwap \/ ConfirmSwap
    BY <2>2, RebuildRegistryPreserves, ConfirmRemovePreserves, LpRemovedPreserves,
       BeginRemovePreserves, BaseSoldPreserves, BeginSwapPreserves, ConfirmSwapPreserves
  <2>3. CASE BeginClose \/ ConfirmClose \/ HedgeClosed
    BY <2>3, BeginClosePreserves, ConfirmClosePreserves, HedgeClosedPreserves
  <2>4. CASE Mark \/ Reconcile \/ ObserveBalances \/ ObserveOrders \/ MarkVerified
    BY <2>4, MarkPreserves, ReconcilePreserves, ObserveBalancesPreserves,
       ObserveOrdersPreserves, MarkVerifiedPreserves
  <2>5. CASE Archive \/ RemoveMarker \/ \E name \in Names : Delete(name)
    BY <2>5, ArchivePreserves, RemoveMarkerPreserves, DeletePreserves
  <2> QED BY <1>5, <2>1, <2>2, <2>3, <2>4, <2>5 DEF ExitStep
<1>6. CASE SwitchStep
  BY <1>6, SwitchExitsPreserves, CheckInstallPreserves, InstallPreserves, UnblockPreserves
     DEF SwitchStep
<1>7. CASE \E p \in Profiles : Switch(p)
  BY <1>7, SwitchPreserves
<1> QED BY <1>1, <1>2, <1>3, <1>4, <1>5, <1>6, <1>7 DEF Next

\* The invariant of ResetInvariant holds in every reachable state.
THEOREM ResetInductiveInvariant == Spec => []IInv
<1>1. IInv /\ [Next]_vars => IInv'
  BY NextPreserves, Stuttering
<1> QED BY <1>1, InitSatisfies, PTL DEF Spec

\* A marker that says verified_flat tells the truth about the account
\* (flatten, Proof::validate).
THEOREM VerifiedTellsTruth == Spec => []VerifiedMeansFlat
<1>1. IInv => VerifiedMeansFlat
  <2> SUFFICES ASSUME IInv, Contents("reset") # Null, dir["reset"].stage = "verified_flat"
               PROVE  lp = {} /\ base # "some" /\ short = 0 /\ \A o \in Oids : exch[o] # "resting"
    BY DEF VerifiedMeansFlat
  <2>1. Stage = "verified_flat"
    BY DEF Contents, Stage
  <2> QED BY <2>1 DEF IInv, ObservedInv, Flat, NothingTrades
<1> QED BY <1>1, ResetInductiveInvariant, PTL

\* The files are typed, and no strategy starts over a directory that is half
\* cleared or that a switch has begun to treat (run, archive_and_clear).
THEOREM StartsAlwaysClean == Spec => []Consistent
<1>1. IInv => Consistent
  <2>1. IInv => NoHalfClearedStart
    BY DEF IInv, TypeOK, RecordsTypeOK, MarkerInv, NoHalfClearedStart, Markers
  <2>2. IInv => NoStartWhileSwitching
    BY DEF IInv, MarkerInv, NoStartWhileSwitching, Markers
  <2> QED BY <2>1, <2>2 DEF IInv, Consistent
<1> QED BY <1>1, ResetInductiveInvariant, PTL

\* The strategy and the exit work on inventory bought with the parameters they
\* work with (run_strategy, request, plan_for).
THEOREM InventoryKeepsItsParameters == Spec => []OwnParameters
<1>1. IInv => OwnParameters
  <2> SUFFICES ASSUME IInv, pc \in Working \cup {"strategy"}, Exposed
               PROVE  owner = cfg
    BY DEF OwnParameters, StrategyOwnsInventory, ExitUsesOwnParameters
  <2> QED BY DEF IInv, BindingInv
<1> QED BY <1>1, ResetInductiveInvariant, PTL

\* Whatever is interrupted, a command accepts what it left (request, plan_for).
THEOREM InterruptionIsResumable == Spec => []AlwaysResumable
<1>1. IInv => AlwaysResumable
  <2> SUFFICES ASSUME IInv
               PROVE  /\ "reset" \in DOMAIN dir => \E b \in Strategies : Accepts(b)
                      /\ "migration" \in DOMAIN dir /\ "reset" \notin DOMAIN dir =>
                           PlanAccepts(dir["migration"].profile)
    BY DEF AlwaysResumable
  <2>1. ASSUME "reset" \in DOMAIN dir PROVE \E b \in Strategies : Accepts(b)
    <3>1. dir["reset"].binding \in Strategies /\ Contents("config") \in {Null, dir["reset"].binding}
      BY <2>1, ReadTyped DEF IInv, BindingInv
    <3> QED BY <3>1 DEF Accepts
  <2>2. ASSUME "migration" \in DOMAIN dir, "reset" \notin DOMAIN dir
        PROVE  PlanAccepts(dir["migration"].profile)
    <3>1. dir["migration"].exit \in Strategies /\ Contents("config") \in {Null, dir["migration"].exit}
      BY <2>2 DEF IInv, BindingInv, TypeOK, RecordsTypeOK
    <3>2. OldBinding = dir["migration"].exit
      <4>1. CASE "config" \in DOMAIN dir
        <5>1. Contents("config") = dir["config"] /\ dir["config"] \in Strategies
          BY <4>1 DEF Contents, IInv, TypeOK, RecordsTypeOK
        <5> QED BY <3>1, <4>1, <5>1, NullAssumption DEF OldBinding
      <4>2. CASE "config" \notin DOMAIN dir
        BY <2>2, <4>2 DEF OldBinding
      <4> QED BY <4>1, <4>2
    <3>3. OldBinding # Null
      BY <3>1, <3>2, NullAssumption
    <3> QED BY <2>2, <3>2, <3>3 DEF PlanAccepts
  <2> QED BY <2>1, <2>2
<1> QED BY <1>1, ResetInductiveInvariant, PTL

\* A write deletes nothing.
LEMMA WriteDeletesNothing ==
    ASSUME NEW name, NEW content, Write(name, content) PROVE DOMAIN dir \subseteq DOMAIN dir'
  BY Written

\* Only the clearing deletes, and it deletes what the backup covers.
LEMMA OnlyClearingDeletes ==
    ASSUME IInv, Next PROVE DOMAIN dir \ DOMAIN dir' \subseteq archived
<1> DEFINE Growing == DOMAIN dir \subseteq DOMAIN dir'
<1>1. Environment \/ Stop => Growing
  BY DEF Environment, Views, Fill, Relist, Reindex, UserOrder, Edit, Stop
<1>2. Settle => Growing
  <2>1. ASSUME NEW kind, Landed(kind) PROVE Growing
    BY <2>1, WriteDeletesNothing DEF Landed, Untouched
  <2> QED BY <2>1, WriteDeletesNothing DEF Settle, Untouched
<1>3. Strategy => Growing
  <2>1. Trade => Growing
    BY DEF Trade
  <2>2. Run \/ StrategySyncs => Growing
    BY WriteDeletesNothing DEF Run, StrategySyncs
  <2> QED BY <1>2, <2>1, <2>2 DEF Strategy, PostOrder, StrategyReconciles
<1>4. ResetFlat \/ SwitchExits => Growing
  <2>1. ASSUME NEW b, Begin(b) PROVE Growing
    BY <2>1, WriteDeletesNothing DEF Begin, Untouched
  <2> QED BY <2>1 DEF ResetFlat, SwitchExits
<1>5. CancelStep => Growing
  BY WriteDeletesNothing DEF CancelStep, CollectOrders, OrderOver, BeginCancel, SubmitCancel,
     CancelLands, FinishCancel, BookEmpty, Untouched
<1>6. Mark \/ Reconcile \/ ObserveOrders \/ MarkVerified \/ RebuildRegistry => Growing
  BY <1>2, WriteDeletesNothing DEF Mark, Reconcile, ObserveOrders, MarkVerified, RebuildRegistry
<1>7. ConfirmRemove \/ ConfirmSwap \/ ConfirmClose => Growing
  <2>1. ASSUME NEW kind, Landed(kind) PROVE Growing
    BY <2>1, WriteDeletesNothing DEF Landed, Untouched
  <2> QED BY <2>1 DEF ConfirmRemove, ConfirmSwap, ConfirmClose
<1>8. LpRemoved \/ BaseSold \/ BeginSwap \/ BeginClose \/ HedgeClosed => Growing
  BY DEF LpRemoved, BaseSold, BeginSwap, BeginClose, HedgeClosed
<1>9. ObserveBalances \/ Archive \/ CheckInstall \/ Install \/ (\E n \in Nfts : BeginRemove(n))
      => Growing
  BY DEF LpRemoved, BeginRemove, BaseSold, BeginSwap, BeginClose, HedgeClosed,
     ObserveBalances, Archive, CheckInstall, Install
<1>10. \A p \in Profiles : Switch(p) => Growing
  BY WriteDeletesNothing DEF Switch
<1>11. Unblock \/ RemoveMarker \/ (\E name \in Names : Delete(name)) => archived = DOMAIN dir
  BY DEF Unblock, RemoveMarker, Delete, IInv, MarkerInv
<1> HIDE DEF Growing
<1>12. ExitStep \/ SwitchStep => Growing \/ archived = DOMAIN dir
  BY <1>4, <1>5, <1>6, <1>7, <1>8, <1>9, <1>11 DEF ExitStep, SwitchStep
<1>13. Growing \/ archived = DOMAIN dir
  BY <1>1, <1>3, <1>4, <1>10, <1>12 DEF Next
<1> QED BY <1>13 DEF Growing

\* No record is lost: what leaves the directory is in a complete backup
\* (archive_and_clear, copy_tree).
THEOREM NothingClearedUnarchived == Spec => ClearedIsArchived
<1>1. IInv /\ [Next]_vars => [\A n \in DOMAIN dir \ DOMAIN dir' : n \in archived]_dir
  BY OnlyClearingDeletes DEF vars
<1> QED BY <1>1, ResetInductiveInvariant, PTL DEF Spec, ClearedIsArchived
=============================================================================
