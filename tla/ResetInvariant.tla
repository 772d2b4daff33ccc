--------------------------- MODULE ResetInvariant ---------------------------
(***************************************************************************)
(* The inductive invariant behind the safety properties of ManualReset:    *)
(* which markers the directory holds at which step, whose parameters its   *)
(* records name, which order may still trade, and what the two             *)
(* observations have seen of the account.                                  *)
(***************************************************************************)
EXTENDS ManualReset

\* The steps of an exit, between the first marker and the last deletion,
Exiting == Working \ {"exit", "install", "rename", "unblock"}

\* and those that may still meet an operation of an earlier program.
Unsettled == {"idle", "strategy", "exit", "mark", "Reconcile"}

Stage == IF "reset" \in DOMAIN dir THEN dir["reset"].stage ELSE "none"

\* The operation a step has in hand.
InHand == {<<"prepared", "cancel">>, <<"submitting", "cancel">>, <<"answered", "cancel">>,
           <<"removing", "remove">>, <<"selling", "swap">>, <<"closing", "close">>}

OperationInv ==
    /\ pending # Null /\ pc \notin Unsettled => <<pc, pending.kind>> \in InHand
    /\ \A step \in InHand : pc = step[1] => pending # Null
    /\ pc = "mark" => stage \in ExitSteps /\ (pending # Null => stage = "Reconcile")
    /\ pending # Null /\ pending.kind \in {"mint", "remove"} =>
          pending.id \in Nfts /\ "nfts" \in DOMAIN dir
    /\ pending # Null /\ pending.kind = "order" => pending.id \in Oids /\ Unresolved = {}
    /\ pc \in {"observe", "observed"} => round \in 0..1
    /\ pc \in {"remove", "removing"} => todo \subseteq lp /\ "nfts" \in DOMAIN dir

\* The markers, and the backup whose files they guard.
MarkerInv ==
    /\ pc = "strategy" => Markers \cap DOMAIN dir = {}
    /\ pc \in Exiting => "reset" \in DOMAIN dir
    /\ pc \in {"install", "rename", "unblock"} => "reset" \notin DOMAIN dir /\ profile \in Profiles
    /\ "reset" \notin DOMAIN dir => archived \subseteq {"migration"}
    /\ pc \in {"clear", "install", "rename", "unblock"} => archived = DOMAIN dir
    /\ switching => "migration" \in DOMAIN dir /\ pc # "unblock"
    /\ cmd = "switch" => profile \in Profiles

\* Whose parameters the records name.
BindingInv ==
    /\ pc \in Working \cup {"strategy"} => cfg \in Strategies
    /\ pc = "strategy" => Contents("config") = cfg
    /\ pc \in Working => Contents("config") \in {Null, cfg}
    /\ "reset" \in DOMAIN dir => Contents("config") \in {Null, dir["reset"].binding}
    /\ "migration" \in DOMAIN dir => Contents("config") \in {Null, dir["migration"].exit}
    /\ Exposed \/ (pending # Null /\ pending.kind \in {"mint", "remove"}) =>
          owner # Null /\ Contents("config") = owner

\* An order that may still trade is shown, or in the ledger, or in pending.json.
OrderInv ==
    /\ \A o \in Oids : index[o] = "over" => exch[o] = "over"
    /\ \A o \in Oids : exch[o] = "none" => index[o] = "unknown"
    /\ \A o \in Oids : exch[o] = "resting" =>
          \/ o \in listed \cup Unresolved
          \/ pending # Null /\ pending.kind = "order" /\ pending.sent /\ pending.id = o
    /\ pending # Null /\ pending.kind = "order" /\ ~pending.sent => exch[pending.id] = "none"

NothingTrades == \A o \in Oids : exch[o] # "resting"

Flat == lp = {} /\ base # "some" /\ short = 0 /\ NothingTrades

\* What the observations have established.
ObservedInv ==
    /\ pc = "observed" => lp = {} /\ base # "some"
    /\ pc \in {"observe", "observed"} /\ round > 0 => NothingTrades
    /\ pc = "observed" /\ round > 0 => saw = short
    /\ pc = "verified" \/ Stage = "verified_flat" => Flat
    /\ Stage = "verified_flat" => pc \in {"archive", "clear", "idle", "exit", "mark"}
    /\ pc \in {"archive", "clear"} => Stage = "verified_flat"
    /\ pc = "clear" => Unresolved = {}

IInv ==
    /\ TypeOK /\ OperationInv /\ MarkerInv /\ BindingInv /\ OrderInv /\ ObservedInv
=============================================================================
