----------------------------- MODULE IndexerApi ----------------------------
(***************************************************************************)
(* What the indexer's API answers from the tables, and what its answers    *)
(* have to do with what NodeState decided.  The rows of a later block, and *)
(* those later in the same block, have a greater id.                       *)
(***************************************************************************)
EXTENDS Indexer

Latest(ids) == {id \in ids : \A other \in ids : other <= id}
RowsOf(hash) == {id \in DOMAIN db.transactions : HashOf(id) = hash}

(* A page of rows, given by their heights: of those of nb blocks up to start, the last nb. *)
Page(heights, start, nb) ==
    LET window == SetToSortSeq({id \in DOMAIN heights : /\ heights[id] <= start
                                                       /\ heights[id] > start - nb}, >)
    IN  ToSet(SubSeq(window, 1, IF Len(window) < nb THEN Len(window) ELSE nb))

get_blocks(start, nb) == Page([h \in db.blocks |-> h], start, nb)

get_last_block == Latest(db.blocks)

get_block(at) == {h \in db.blocks : h = at}

(* The hash of a block, of which there is one per height, is its height here. *)
get_block_by_hash(hash) == {h \in db.blocks : h = hash}

get_transactions(start, nb) ==
    Page([id \in DOMAIN db.transactions |-> db.transactions[id].height], start, nb)

get_transactions_by_height(h) == {id \in DOMAIN db.transactions : db.transactions[id].height = h}

get_transaction_with_hash(hash) == Latest(RowsOf(hash))

(* The transactions of the contract: those that have one of its blobs. *)
get_transactions_by_contract == DOMAIN db.transactions \cap DOMAIN db.blobs

(* The rows that have the id of the latest one. *)
get_transaction_events(hash) ==
    LET rows == {e \in db.events : e.hash = hash}
        latest == {e \in rows : \A other \in rows : other.height <= e.height}
    IN  {e \in rows : \E l \in latest : l.id = e.id}

ProofOutputs(id) == {key[2] : key \in {k \in DOMAIN db.blob_proof_outputs : k[1] = id}}

(* The blobs of all the occurrences in the latest block that has one. *)
get_blobs_by_tx_hash(hash) ==
    {[id |-> id, verified |-> db.blobs[id], proof_outputs |-> ProofOutputs(id)]
     : id \in {i \in RowsOf(hash) \cap DOMAIN db.blobs :
                 \A j \in RowsOf(hash) : db.transactions[j].height <= db.transactions[i].height}}

(* One of the occurrences in the latest block: the candidates. *)
get_blob(hash) ==
    LET ids == RowsOf(hash) \cap DOMAIN db.blobs
    IN  {[id |-> id, verified |-> db.blobs[id], proof_outputs |-> ProofOutputs(id)]
         : id \in {i \in ids : \A j \in ids : db.transactions[j].height <= db.transactions[i].height}}

(* The transactions with their status, and with the outputs of their proofs. *)
get_blob_transactions_by_contract ==
    {[id |-> id, status |-> db.transactions[id].status, proof_outputs |-> ProofOutputs(id)]
     : id \in get_transactions_by_contract}

(* The state, how many transactions there are and how many are counted as unsettled, and   *)
(* the height of the first of those.                                                       *)
get_contract ==
    LET sequenced == {id \in get_transactions_by_contract : db.transactions[id].status = "sequenced"}
        heights == {db.transactions[id].height : id \in sequenced}
    IN  {[state |-> state, total_tx |-> Cardinality(get_transactions_by_contract),
          unsettled_tx |-> Cardinality(sequenced),
          earliest_unsettled |-> {h \in heights : \A other \in heights : h <= other}]
         : state \in db.contracts}

---------------------------------------------------------------------------
(* Everything is in the database, nothing was lost on the way, and no block sequenced a   *)
(* hash again that it had settled.                                                        *)
Indexed == steps = 0 /\ handler_store = EmptyHandlerStore /\ mishaps = 0 /\ ~csi_astray

StatusFor(id) == IF outcome[id] \in {"dropped", "deleted"} THEN "sequenced" ELSE outcome[id]

(* The status of a transaction in the database is what NodeState decided; only dropped    *)
(* duplicates and the transactions of a deleted contract stay sequenced for ever.  So the *)
(* API reports the outcome of a hash unless that was seen again later, and counts as      *)
(* unsettled no less than there is.                                                       *)
StatusesFollowChain ==
    Indexed =>
        /\ \A id \in DOMAIN occurrences :
              id \in DOMAIN db.transactions /\ db.transactions[id].status = StatusFor(id)
        /\ \A c \in get_contract :
              /\ c.unsettled_tx >= Len(unsettled)
              /\ \A id \in ToSet(unsettled) :
                    \E h \in c.earliest_unsettled : h <= db.transactions[id].height

(* The contract's row is there if and only if the contract is, with its state, unless the *)
(* batch held an update from before the contract was registered again.                    *)
ContractRowFollowsChain ==
    (Indexed /\ ~row_stale) =>
        {c.state : c \in get_contract} = IF contract.registered THEN {contract.state} ELSE {}

(* The events tell how every transaction that was not dropped ended, under its own id:    *)
(* also for those that a deleted contract took along, whose status does not.              *)
EventsTellOutcome ==
    Indexed => \A id \in DOMAIN occurrences : outcome[id] \notin {"sequenced", "dropped"} =>
        \E e \in db.events :
            /\ e.id = id /\ e.hash = HashOf(id)
            /\ (IF outcome[id] = "deleted" THEN "timed_out" ELSE outcome[id]) \in ToSet(e.events)

(* Whatever dumps fail, whenever the indexer is stopped and whatever it is sent again, no *)
(* transaction is reported settled that is not, or otherwise than it settled: what is     *)
(* lost is only missing.                                                                  *)
NothingReportedWrongly ==
    (steps = 0 /\ ~csi_astray) => \A id \in DOMAIN db.transactions :
        db.transactions[id].status \in {"sequenced", outcome[id]}

(* A blob is reported as verified if and only if its transaction is reported as settled   *)
(* with success, and then by one of its proofs, also when dumps fail in between.          *)
VerifiedIffSuccess ==
    ~csi_astray => \A id \in DOMAIN db.blobs :
        /\ id \in DOMAIN db.transactions
        /\ db.blobs[id] <=> (db.transactions[id].status = "success")
        /\ \A i, j \in ProofOutputs(id) :
              (db.blob_proof_outputs[<<id, i>>] /\ db.blob_proof_outputs[<<id, j>>]) => i = j

(* The answers fit together: a blob is one of the transaction that is shown for its hash, *)
(* or of one in the same block, the pages leave out no block, and every transaction shown *)
(* is in a block that is shown, whatever was lost.                                        *)
AnswersAgree ==
    /\ \A hash \in Hashes :
          /\ get_blob(hash) \subseteq get_blobs_by_tx_hash(hash)
          /\ \A blob \in get_blobs_by_tx_hash(hash), id \in get_transaction_with_hash(hash) :
                db.transactions[blob.id].height = db.transactions[id].height
          /\ Cardinality({e.id : e \in get_transaction_events(hash)}) <= 1
    /\ \A id \in DOMAIN db.transactions :
          \E h \in get_block(db.transactions[id].height) : get_block_by_hash(h) = {h}
    /\ \A nb \in 1..MaxBlocks :
          /\ UNION {get_blocks(MaxBlocks - page * nb, nb) : page \in 0..MaxBlocks} = db.blocks
          /\ \A start \in get_last_block : \A id \in get_transactions(start, nb) :
                db.transactions[id].height \in get_blocks(start, nb)
    /\ UNION {get_transactions_by_height(h) : h \in get_blocks(MaxBlocks, MaxBlocks + 1)} = DOMAIN db.transactions
    /\ \A c \in get_contract : c.total_tx = Cardinality(get_blob_transactions_by_contract)

(* Once a block is indexed the tables tell what NodeState decided, of the transactions, of   *)
(* the contract and in the events, although the updates of a batch run after its insertions *)
(* and deletions (IndexerHandlerStore, dump_store_to_db).                                    *)
TablesFollowChain == StatusesFollowChain /\ ContractRowFollowsChain /\ EventsTellOutcome

(* At any time, also after dumps that failed and stops that lost blocks, what the indexer    *)
(* answers is true and fits together: it may only lack something (dump_store_to_db, the API). *)
AnswersSound == NothingReportedWrongly /\ VerifiedIffSuccess /\ AnswersAgree
=============================================================================
