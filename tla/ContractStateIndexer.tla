------------------------ MODULE ContractStateIndexer ------------------------
(***************************************************************************)
(* ContractStateIndexer: it keeps the transactions of its contract until a *)
(* block says how they ended, and applies the successful ones to a copy of *)
(* the contract's state.  An error ends the handling of the block it       *)
(* occurs in and is only logged.                                           *)
(***************************************************************************)
EXTENDS NodeStateBlocks

VARIABLES
    csi,        \* ContractStateStore: the state, once there is one, and unsettled_blobs
    csi_left,   \* transactions of the blocks whose handling ended on an error
    csi_astray  \* a block was met that the handling by hash gets wrong

csiVars == <<csi, csi_left, csi_astray>>

NewStore == [state |-> Unregistered, unsettled_blobs |-> {}]

CsiInit == csi = NewStore /\ csi_left = {} /\ csi_astray = FALSE

(* The handling works on the store with a flag for an error. *)

(* A transaction is looked up by the id the block gives for its hash, and taken out; with  *)
(* no state to apply it to, the handling of the block ends.                                *)
handle_tx(s, b, hash, success) ==
    LET id == DpOf(b, hash)
        taken == [s EXCEPT !.unsettled_blobs = @ \ {id}]
    IN  IF s.error \/ id \notin s.unsettled_blobs THEN s
        ELSE IF ~s.state.registered THEN [taken EXCEPT !.error = TRUE]
        ELSE IF success THEN [taken EXCEPT !.state.state = @ \cup {hash}]
        ELSE taken

handle_txs(s, b, hashes, success) ==
    FoldLeft(LAMBDA acc, hash : handle_tx(acc, b, hash, success), s, hashes)

handle_register_contract(s, b) ==
    IF b.registered THEN [s EXCEPT !.state = Registered({})] ELSE s

handle_blobs(s, b) == [s EXCEPT !.unsettled_blobs = @ \cup ToSet(b.txs)]

(* The handlers of sequenced transactions change no state, but need one. *)
handle_sequenced(s, b) ==
    [s EXCEPT !.error = ~s.state.registered
                        /\ \E id \in ToSet(b.txs) : DpOf(b, HashOf(id)) \in s.unsettled_blobs]

(* Mutant of CsiHandlesBlock: the blobs of the block are added last. *)
CsiAddsLate(s, b) ==
    LET settled == handle_txs(handle_txs(handle_txs(handle_register_contract(s, b),
                     b, b.timed_out_txs, FALSE), b, b.failed_txs, FALSE), b, b.successful_txs, TRUE)
    IN  IF settled.error THEN settled ELSE handle_blobs(settled, b)

CsiHandlesBlock(s, b) ==
    LET added == handle_sequenced(handle_blobs(handle_register_contract(s, b), b), b)
        timed_out == handle_txs(added, b, b.timed_out_txs, FALSE)
        failed == handle_txs(timed_out, b, b.failed_txs, FALSE)
    IN  handle_txs(failed, b, b.successful_txs, TRUE)

(* What the code gets wrong: the contract registered again in a block that settled one of *)
(* its transactions before, which is then applied to the new state; and a hash sequenced  *)
(* again in the block that settles it.                                                    *)
LeadsAstray(b) == b.reregistered \/ SequencedAgain(b)

CsiNext(b) ==
    LET s == CsiHandlesBlock(csi @@ [error |-> FALSE], b)
    IN  /\ csi' = [f \in DOMAIN NewStore |-> s[f]]
        /\ csi_astray' = (csi_astray \/ LeadsAstray(b))
        /\ csi_left' = IF s.error THEN csi_left \cup ToSet(b.txs) ELSE csi_left

---------------------------------------------------------------------------
(* Between blocks the indexer's copy is the state of the contract on chain, whatever was   *)
(* dropped, failed, timed out or registered again.                                         *)
CsiTracksState ==
    (steps = 0 /\ contract.registered /\ ~csi_astray) => csi.state = contract

(* Between blocks the indexer holds every transaction that may still settle; what it holds *)
(* besides is never removed: dropped duplicates, transactions of a deleted contract, and   *)
(* those of a block it met before it had a state.                                          *)
CsiHoldsUnsettled ==
    (steps = 0 /\ ~csi_astray) =>
        /\ ToSet(unsettled) \subseteq csi.unsettled_blobs
        /\ \A id \in csi.unsettled_blobs \ (ToSet(unsettled) \cup csi_left) :
              outcome[id] \in {"dropped", "deleted"}

(* Between blocks the indexer can go on from what it has: its copy is the state on chain and *)
(* it holds the transactions that are to change it (handle_processed_block).                 *)
CsiFollowsChain == CsiTracksState /\ CsiHoldsUnsettled
=============================================================================
