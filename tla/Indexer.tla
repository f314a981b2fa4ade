------------------------------ MODULE Indexer ------------------------------
(***************************************************************************)
(* Indexer: it turns the blocks into rows and updates, gathers them over   *)
(* several blocks, and writes them to the database in one transaction:     *)
(* first the new rows, then the deletions, then the updates.  A write that *)
(* fails is not repeated, and what was taken out for it is gone.  The rows *)
(* of the proof transactions themselves are left out.                      *)
(***************************************************************************)
EXTENDS ContractStateIndexer

CONSTANTS MaxMishaps   \* failing dumps and restarts of the indexer

ASSUME IndexerAssumption == MaxMishaps \in Nat

VARIABLES
    handler_store,   \* IndexerHandlerStore
    db,              \* the tables
    previous,        \* the block published last, as long as it may be published again
    mishaps,
    row_stale        \* the contract's row holds a state from before it was registered again

indexerVars == <<handler_store, db, previous, mishaps, row_stale>>

NoRows == <<>>   \* a table without rows, as a function from keys to rows

EmptyHandlerStore ==
    [blocks |-> {}, block_txs |-> NoRows, tx_data |-> {}, events |-> {}, contracts |-> {},
     contract_states |-> {}, deleted |-> FALSE, blob_proof_outputs |-> {}, sql_updates |-> <<>>]

IndexerInit ==
    /\ handler_store = EmptyHandlerStore
    /\ db = [blocks |-> {}, transactions |-> NoRows, blobs |-> NoRows, events |-> {},
             contracts |-> {}, contract_states |-> {}, blob_proof_outputs |-> NoRows]
    /\ previous = {}
    /\ mishaps = 0
    /\ row_stale = FALSE

---------------------------------------------------------------------------
(* What block b of height h adds to the store. *)

NewTransactions(b, h) == [id \in ToSet(b.txs) |-> [height |-> h, status |-> "sequenced"]]

(* The blobs, not verified yet: one for each transaction here. *)
insert_tx_data(b) == ToSet(b.txs)

(* The events of a hash are filed under the id the block gives for it. *)
NewEvents(b, h) ==
    {[height |-> h, hash |-> hash, id |-> DpOf(b, hash), events |-> b.events[hash]]
     : hash \in DOMAIN b.events}

StatusUpdates(b, hashes, status) ==
    [i \in DOMAIN hashes |-> [table |-> "transactions", key |-> DpOf(b, hashes[i]), value |-> status]]

(* The outputs of the proofs, by the blob's id and the place among its proofs. *)
NewProofOutputs(b) == {<<DpOf(b, o.hash), o.index>> : o \in b.blob_proof_outputs}

(* Each verified blob, and the output that verified it, is marked. *)
VerifiedUpdates(b) ==
    LET keys == SetToSeq({<<DpOf(b, v.hash), v.index>> : v \in b.verified_blobs})
    IN  [i \in DOMAIN keys |-> [table |-> "blobs", key |-> keys[i], value |-> TRUE]]

NewContracts(s, b) == IF b.registered THEN {{}} ELSE s.contracts

(* A row for each block that registers the contract, by its height. *)
NewContractStates(b, h) == IF b.registered THEN {h} ELSE {}

DeletedContracts(s, b) == (s.deleted /\ ~b.registered) \/ b.deleted

StateUpdates(b) ==
    LET state == CHOOSE s \in b.updated : TRUE
    IN  IF b.updated = {} THEN <<>>
        ELSE <<[table |-> "contracts", key |-> 0, value |-> state]>>

IndexBlock(s, b, h) ==
    [blocks |-> s.blocks \cup {h},
     block_txs |-> NewTransactions(b, h) @@ s.block_txs,
     tx_data |-> s.tx_data \cup insert_tx_data(b),
     events |-> s.events \cup NewEvents(b, h),
     contracts |-> NewContracts(s, b),
     contract_states |-> s.contract_states \cup NewContractStates(b, h),
     deleted |-> DeletedContracts(s, b),
     blob_proof_outputs |-> s.blob_proof_outputs \cup NewProofOutputs(b),
     sql_updates |-> s.sql_updates
        \o StatusUpdates(b, b.successful_txs, "success")
        \o StatusUpdates(b, b.failed_txs, "failure")
        \o StatusUpdates(b, b.timed_out_txs, "timed_out")
        \o VerifiedUpdates(b)
        \o StateUpdates(b)]

---------------------------------------------------------------------------
(* The dump of the store s. *)

(* A transaction that is known keeps its status, unless that is one from before the        *)
(* consensus.                                                                              *)
InsertTransactions(s) ==
    [id \in DOMAIN s.block_txs \cup DOMAIN db.transactions |->
        [height |-> IF id \in DOMAIN s.block_txs THEN s.block_txs[id].height
                    ELSE db.transactions[id].height,
         status |-> IF id \in DOMAIN db.transactions THEN db.transactions[id].status
                    ELSE s.block_txs[id].status]]

(* A blob that is known is left as it is. *)
InsertBlobs(s) == db.blobs @@ [id \in s.tx_data |-> FALSE]

InsertProofOutputs(s) == db.blob_proof_outputs @@ [key \in s.blob_proof_outputs |-> FALSE]

(* A registration replaces the row of a contract that is there. *)
InsertContracts(s) ==
    IF s.deleted THEN {} ELSE IF s.contracts # {} THEN s.contracts ELSE db.contracts

InsertRows(s) ==
    [blocks |-> db.blocks \cup s.blocks,
     transactions |-> InsertTransactions(s),
     blobs |-> InsertBlobs(s),
     events |-> db.events \cup s.events,
     contracts |-> InsertContracts(s),
     contract_states |-> db.contract_states \cup s.contract_states,
     blob_proof_outputs |-> InsertProofOutputs(s)]

(* Mutant of ApplyUpdate: all the occurrences of the hash are updated. *)
ApplyToHash(d, u) ==
    CASE u.table = "transactions"
           -> [d EXCEPT !.transactions = [id \in DOMAIN @ |->
                 IF HashOf(id) = HashOf(u.key) THEN [@[id] EXCEPT !.status = u.value] ELSE @[id]]]
      [] u.table = "contracts" /\ d.contracts # {} -> [d EXCEPT !.contracts = {u.value}]
      [] OTHER -> d

(* An update of rows that are not there does nothing. *)
ApplyUpdate(d, u) ==
    CASE u.table = "transactions" /\ u.key \in DOMAIN d.transactions
           -> [d EXCEPT !.transactions[u.key].status = u.value]
      [] u.table = "blobs"
           -> [d EXCEPT !.blobs = [id \in DOMAIN @ |-> @[id] \/ id = u.key[1]],
                        !.blob_proof_outputs = [key \in DOMAIN @ |-> @[key] \/ key = u.key]]
      [] u.table = "contracts" /\ d.contracts # {} -> [d EXCEPT !.contracts = {u.value}]
      [] OTHER -> d

(* Mutant of Dumped: the updates come before the new rows. *)
DumpedUpdatesFirst(s) ==
    LET updated == FoldLeft(ApplyUpdate, db, s.sql_updates)
        inserted == InsertRows(s)
    IN  [inserted EXCEPT !.transactions = updated.transactions @@ @]

(* The tables after a successful dump. *)
Dumped(s) == FoldLeft(ApplyUpdate, InsertRows(s), s.sql_updates)

(* The parts of the store in the order in which they are taken out and written. *)
Stages == <<"blocks", "block_txs", "tx_data", "events", "contracts", "contract_states",
            "deleted", "blob_proof_outputs", "sql_updates">>

(* The stages whose rows the database refuses: heights are unique, and rows refer to       *)
(* blocks, transactions and blobs that are there or come with the batch.  The transaction  *)
(* that registers the contract is one of another contract; orphan says that its row was    *)
(* lost.                                                                                   *)
Refused(s, orphan) ==
    LET blocks == db.blocks \cup s.blocks
        txs == DOMAIN db.transactions \cup DOMAIN s.block_txs
        Holds(stage) ==
            CASE stage = "blocks" -> s.blocks \cap db.blocks = {}
              [] stage = "block_txs" -> \A id \in DOMAIN s.block_txs : s.block_txs[id].height \in blocks
              [] stage = "tx_data" -> s.tx_data \subseteq txs
              [] stage = "events" -> \A e \in s.events : e.height \in blocks /\ e.id \in txs
              [] stage = "contracts" -> s.contracts = {} \/ ~orphan
              [] stage = "contract_states" ->
                    s.contract_states \subseteq blocks \ db.contract_states
              [] stage = "blob_proof_outputs" ->
                    \A o \in s.blob_proof_outputs : /\ o \notin DOMAIN db.blob_proof_outputs
                                                    /\ o[1] \in DOMAIN db.blobs \cup s.tx_data
              [] OTHER -> TRUE
    IN  {i \in DOMAIN Stages : ~Holds(Stages[i])}

(* A dump that fails at a stage, 0 being the opening of the transaction, has taken out all *)
(* the parts up to it, and leaves the tables as they were.                                 *)
DumpFails(s, stage) ==
    /\ handler_store' = [f \in DOMAIN s |-> IF \E i \in 1..stage : Stages[i] = f
                                            THEN EmptyHandlerStore[f] ELSE s[f]]
    /\ UNCHANGED db

(* One SQL transaction: all of it, or nothing from the first row that is refused on.  After *)
(* a mishap any row of an earlier block may be missing.                                     *)
DumpOnce(s, mishap) ==
    \E orphan \in {FALSE, mishap} :
        LET refused == Refused(s, orphan)
        IN  \/ /\ refused # {}
               /\ DumpFails(s, CHOOSE i \in refused : \A j \in refused : i <= j)
            \/ /\ refused = {}
               /\ db' = Dumped(s)
               /\ handler_store' = EmptyHandlerStore

(* It may also fail at any stage because the database does. *)
dump_store_to_db(s) ==
    \/ DumpOnce(s, mishaps > 0) /\ UNCHANGED mishaps
    \/ /\ mishaps < MaxMishaps
       /\ mishaps' = mishaps + 1
       /\ \E stage \in 0..Len(Stages) : DumpFails(s, stage)

UpdatesContract(s) == \E i \in DOMAIN s.sql_updates : s.sql_updates[i].table = "contracts"

(* The block is gathered; whether the batch is dumped depends on its size and on the age   *)
(* of the block.                                                                           *)
handle_node_state_event(s, b, h) ==
    \/ dump_store_to_db(IndexBlock(s, b, h))
    \/ handler_store' = IndexBlock(s, b, h) /\ UNCHANGED <<db, mishaps>>

IndexerNext(b) ==
    /\ handle_node_state_event(handler_store, b, height)
    /\ previous' = {b}
    /\ row_stale' = IF b.updated # {} /\ ~b.stale THEN FALSE
                    ELSE IF b.registered THEN b.stale \/ UpdatesContract(handler_store)
                    ELSE row_stale

(* The indexer starts again with an empty store.  Its NodeState, if it was not saved, is   *)
(* one block behind and publishes that block again.                                        *)
RestartIndexer ==
    /\ steps = 0 /\ previous # {}
    /\ mishaps < MaxMishaps
    /\ mishaps' = mishaps + 1
    /\ \/ handler_store' = EmptyHandlerStore /\ UNCHANGED db
       \/ \E b \in previous :
            LET s == IndexBlock(EmptyHandlerStore, b, height - 1)
            IN  DumpOnce(s, TRUE) \/ (handler_store' = s /\ UNCHANGED db)
    /\ previous' = {}
    /\ UNCHANGED <<blocksVars, csiVars, row_stale>>

---------------------------------------------------------------------------
FollowersInit == BlocksInit /\ CsiInit /\ IndexerInit

PublishToFollowers == PublishBlock /\ CsiNext(block) /\ IndexerNext(block)

FollowersNext ==
    \/ /\ BuildBlock
       /\ previous' = {}
       /\ UNCHANGED <<csiVars, handler_store, db, mishaps, row_stale>>
    \/ PublishToFollowers
    \/ RestartIndexer

followersVars == <<blocksVars, csiVars, indexerVars>>
FollowersSpec == FollowersInit /\ [][FollowersNext]_followersVars
=============================================================================
