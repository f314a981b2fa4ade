--------------------------- MODULE NodeStateBlocks --------------------------
(***************************************************************************)
(* The Block records that NodeState publishes, built one transaction after *)
(* the other, as far as they concern one contract: it may be registered,   *)
(* deleted and registered again, also within a block, and the same         *)
(* transaction hash may be sequenced several times.                        *)
(*                                                                         *)
(* An occurrence of a transaction, a TxId in the code, is the number of    *)
(* the times any transaction was sequenced before.  A state of the         *)
(* contract is the set of hashes that changed it since it was registered.  *)
(***************************************************************************)
EXTENDS Integers, FiniteSets, SequencesExt, TLC

CONSTANTS
    Hashes,           \* transaction hashes
    MaxOccurrences,   \* transactions sequenced
    MaxBlocks,
    MaxStepsPerBlock,
    MaxIdleProofs     \* proofs that do not settle their transaction when they come

ASSUME BlocksAssumption ==
    {MaxOccurrences, MaxBlocks, MaxStepsPerBlock, MaxIdleProofs} \subseteq Nat

VARIABLES
    contract,      \* whether it is registered, and its state
    unsettled,     \* the occurrences waiting to settle
    occurrences,   \* the hash of each occurrence
    outcome,       \* what NodeState decided of each occurrence
    idle_proofs,   \* the occurrences that have a proof which did not settle them
    block,         \* block_under_construction
    height,
    steps          \* steps taken in the block

blocksVars == <<contract, unsettled, occurrences, outcome, idle_proofs, block, height, steps>>

Unregistered == [registered |-> FALSE, state |-> {}]
Registered(state) == [registered |-> TRUE, state |-> state]

EmptyBlock ==
    [txs |-> <<>>, dropped_duplicate_txs |-> {}, timed_out_txs |-> <<>>, failed_txs |-> <<>>,
     successful_txs |-> <<>>, registered |-> FALSE, deleted |-> FALSE, updated |-> {},
     dp_parent_hashes |-> <<>>, events |-> <<>>, blob_proof_outputs |-> {}, verified_blobs |-> {},
     \* not in the code's Block: the occurrences behind the hashes above, whether the contract
     \* was registered after a transaction settled, and whether updated is from before that
     settled |-> {}, reregistered |-> FALSE, stale |-> FALSE]

BlocksInit ==
    /\ contract = Unregistered
    /\ unsettled = <<>> /\ occurrences = <<>> /\ outcome = <<>> /\ idle_proofs = {}
    /\ block = EmptyBlock
    /\ height = 0 /\ steps = 0

HashOf(id) == occurrences[id]
DpOf(b, hash) == b.dp_parent_hashes[hash]

Step == steps < MaxStepsPerBlock /\ height < MaxBlocks /\ steps' = steps + 1

Settled(b, id, hash, list) == [b EXCEPT ![list] = Append(@, hash), !.settled = @ \cup {id}]

(* The block, once an event of an occurrence is noted, under the occurrence's own id. *)
Noted(b, hash, id, event) ==
    [b EXCEPT !.dp_parent_hashes = (hash :> id) @@ @,
              !.events = (hash :> Append(IF hash \in DOMAIN @ THEN @[hash] ELSE <<>>, event)) @@ @]

(* A blob transaction is dropped if the hash is waiting already, rejected if the contract *)
(* is unknown, and waits otherwise.                                                       *)
HandleBlobTx(hash) ==
    LET id == Len(occurrences) + 1
        fate == IF ~contract.registered THEN "failure"
                ELSE IF \E i \in DOMAIN unsettled : HashOf(unsettled[i]) = hash THEN "dropped"
                ELSE "sequenced"
        noted == [Noted(block, hash, id, fate) EXCEPT !.txs = Append(@, id)]
    IN  /\ Step
        /\ id <= MaxOccurrences
        /\ occurrences' = Append(occurrences, hash)
        /\ outcome' = Append(outcome, fate)
        /\ unsettled' = IF fate = "sequenced" THEN Append(unsettled, id) ELSE unsettled
        /\ block' = CASE fate = "dropped" -> [noted EXCEPT !.dropped_duplicate_txs = @ \cup {id}]
                      [] fate = "failure" -> Settled(noted, id, hash, "failed_txs")
                      [] OTHER -> noted
        /\ UNCHANGED <<contract, height, idle_proofs>>

Resolve(id, result) ==
    /\ unsettled' = SelectSeq(unsettled, LAMBDA other : other # id)
    /\ outcome' = [outcome EXCEPT ![id] = result]

(* The timeouts are cleared before the transactions of the block. *)
ClearTimeout ==
    /\ Step
    /\ steps = 0 /\ unsettled # <<>>
    /\ LET id == Head(unsettled) IN
       /\ Resolve(id, "timed_out")
       /\ block' = Settled(Noted(block, HashOf(id), id, "timed_out"), id, HashOf(id), "timed_out_txs")
    /\ UNCHANGED <<contract, occurrences, height, idle_proofs>>

(* A proof that comes too early, or does not fit the state, is kept with its blob. *)
HandleBlobProof ==
    /\ Step
    /\ Cardinality(idle_proofs) < MaxIdleProofs
    /\ \E id \in ToSet(unsettled) \ idle_proofs :
        /\ idle_proofs' = idle_proofs \cup {id}
        /\ block' = [Noted(block, HashOf(id), id, "new_proof")
                       EXCEPT !.blob_proof_outputs = @ \cup {[hash |-> HashOf(id), index |-> 0]}]
    /\ UNCHANGED <<contract, unsettled, occurrences, outcome, height>>

(* The first transaction settles on the proof that comes now, or on the one it had, which  *)
(* fits the state now.                                                                     *)
SettleSuccess ==
    /\ Step
    /\ unsettled # <<>>
    /\ LET id == Head(unsettled)
           hash == HashOf(id)
           state == contract.state \cup {hash}
           had == IF id \in idle_proofs THEN 1 ELSE 0
       IN  \E used \in 0..had :
           /\ Resolve(id, "success")
           /\ contract' = Registered(state)
           /\ block' = [Settled(Noted(block, hash, id, "success"), id, hash, "successful_txs")
                EXCEPT !.updated = {state}, !.stale = FALSE,
                       !.blob_proof_outputs = @ \cup (IF used = had THEN {[hash |-> hash, index |-> used]} ELSE {}),
                       !.verified_blobs = @ \cup {[hash |-> hash, index |-> used]}]
    /\ UNCHANGED <<occurrences, height, idle_proofs>>

(* Another contract of the transaction may make it fail before its turn. *)
SettleFailed ==
    /\ Step
    /\ \E id \in ToSet(unsettled) :
        /\ Resolve(id, "failure")
        /\ block' = Settled(Noted(block, HashOf(id), id, "failure"), id, HashOf(id), "failed_txs")
    /\ UNCHANGED <<contract, occurrences, height, idle_proofs>>

RegisterContract ==
    /\ Step
    /\ ~contract.registered
    /\ contract' = Registered({})
    /\ block' = [block EXCEPT !.registered = TRUE, !.deleted = FALSE,
                               !.reregistered = @ \/ block.updated # {}, !.stale = block.updated # {}]
    /\ UNCHANGED <<unsettled, occurrences, outcome, height, idle_proofs>>

(* The transactions waiting on a deleted contract time out, with an event each, but are    *)
(* not listed among the timed out ones of the block.                                       *)
DeleteContract ==
    /\ Step
    /\ contract.registered
    /\ contract' = Unregistered
    /\ unsettled' = <<>>
    /\ outcome' = [id \in DOMAIN outcome |-> IF id \in ToSet(unsettled) THEN "deleted" ELSE outcome[id]]
    /\ block' = [FoldLeft(LAMBDA b, id : Noted(b, HashOf(id), id, "timed_out"), block, unsettled)
                   EXCEPT !.registered = FALSE, !.deleted = TRUE, !.settled = @ \cup ToSet(unsettled)]
    /\ UNCHANGED <<occurrences, height, idle_proofs>>

BuildBlock ==
    \/ \E hash \in Hashes : HandleBlobTx(hash)
    \/ ClearTimeout \/ HandleBlobProof \/ SettleSuccess \/ SettleFailed \/ RegisterContract \/ DeleteContract

(* The block is published, and the next one begins. *)
PublishBlock ==
    /\ height < MaxBlocks
    /\ height' = height + 1
    /\ block' = EmptyBlock
    /\ steps' = 0
    /\ UNCHANGED <<contract, unsettled, occurrences, outcome, idle_proofs>>

(* A hash that the block settled was sequenced again later in it: the followers, who look  *)
(* the occurrence up by its hash, take the later one for the one that settled.             *)
SequencedAgain(b) == \E id \in b.settled : DpOf(b, HashOf(id)) # id
=============================================================================
