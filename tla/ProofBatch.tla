----------------------------- MODULE ProofBatch ----------------------------
(***************************************************************************)
(* One proof for several transactions: AutoProver executes them with the   *)
(* contract's TxExecutorHandler, gathers what the program needs, and hands *)
(* both to the prover; the program executes the same calls again, from     *)
(* what it was given.  The proof settles the transactions only if the      *)
(* program comes to the states the prover foresaw.  One contract at a      *)
(* time, whichever it is; the blobs are those the wallets build.           *)
(***************************************************************************)
EXTENDS Wallets, SmtToken

CONSTANTS
    MaxProvedTxs,      \* bound on the transactions the prover handles
    MaxTxsPerProof     \* values of max_txs_per_proof

VARIABLES
    contract,          \* the one this prover is for
    max_txs_per_proof,
    prover_state,      \* state_history of the last transaction
    handled_txs,       \* number of transactions handled
    batch,             \* the batch: txs, metadata (optional), calldatas and the outputs foreseen
    regular            \* nothing in the batch that the two executions take differently

batchVars == <<contract, max_txs_per_proof, prover_state, handled_txs, batch, regular>>

NoBatch == [txs |-> 0, metadata |-> {}, calldatas |-> <<>>, outputs |-> <<>>]

InitialState(c) ==
    CASE c \in Tokens -> NewHyllar [] c = "hydentity" -> NewHydentity [] c = "amm" -> NewAmm
      [] c = "staking" -> NewStaking [] c = "uuid" -> NewUuidTld [] c = "smt" -> NewSmtToken

(* ------------- What wallets send to the contracts of this module ------------- *)
SmtAction(user, action) == add_action(Tx(user), "smt", action @@ [type |-> "SmtTokenAction"], "", {}, {})
SmtTxs ==
    {SmtAction(u, [op |-> "Transfer", sender |-> u, recipient |-> v, amount |-> a, spender |-> u]) :
            u \in Users, v \in Users, a \in Amounts}
        \cup {SmtAction(u, [op |-> "TransferFrom", owner |-> o, spender |-> u, recipient |-> v,
                            amount |-> a]) : o \in Users, u \in Users, v \in Users, a \in Amounts}
        \cup {SmtAction(o, [op |-> "Approve", owner |-> o, spender |-> u, amount |-> a]) :
                o \in Users, u \in Users, a \in Amounts}

UuidTxs ==
    {add_raw_action(Tx(u), "uuid", [type |-> "UuidTldAction"], "") : u \in Users \cup {"uuid"}}
        \cup {add_action(Tx(u), "uuid", [type |-> "RegisterContractAction", uuid |-> i], "", {}, {}) :
                u \in Users, i \in 1..2}

TxsOf(c) ==
    CASE c = "smt" -> SmtTxs
      [] c = "uuid" -> UuidTxs
      [] c = "amm" -> ExchangeTxs
      [] c = "staking" -> StakingTxs
      [] c = "hydentity" -> {Registered(Tx(u), p) : u \in Users, p \in {""}}
                                \cup {Verified(Tx(u), n, "") : u \in Users, n \in 0..1}
      [] c \in Tokens -> {tx \in ExchangeTxs : tx.identity = Faucet}
                                \cup {Transferred(Tx(u), c, v, a) : u \in Users, v \in Users, a \in Amounts}

(* ---------------------------- TxExecutorHandler ---------------------------- *)
build_commitment_metadata(state, blob) ==
    IF contract = "smt" THEN smt_build_commitment_metadata(state, blob) ELSE state

merge_commitment_metadata(initial, next) ==
    IF contract = "smt" THEN smt_merge_commitment_metadata(initial, next) ELSE initial

(* The result of an execution with the whole state, or an error. *)
handle(state, calldata) ==
    IF contract = "smt" THEN smt_handle(state, calldata) ELSE {ZkExecute(contract, state, calldata)}

(* One blob of a transaction.  The metadata is built and merged before the execution; an   *)
(* error of the handler leaves the blob out, a failed execution does not.                  *)
HandleBlob(w, tx, index) ==
    LET calldata == [build_zk_program_input(tx, index) EXCEPT !.private_input = "",
                                                              !.tx = handled_txs]
        next == build_commitment_metadata(w.state, tx.blobs[index])
        gathered == [w EXCEPT !.metadata = IF @ = {} THEN {next}
                                           ELSE {merge_commitment_metadata(m, next) : m \in @}]
        results == handle(w.state, calldata)
    IN  IF w.error THEN w
        ELSE IF results = {} THEN [gathered EXCEPT !.error = TRUE]
        ELSE LET res == CHOOSE r \in results : TRUE
             IN  [gathered EXCEPT
                    !.calldatas = Append(@, calldata),
                    !.outputs = Append(@, as_hyle_output(calldata, commit(contract, w.state),
                                                         commit(contract, res.state), res)),
                    !.state = res.state,
                    !.error = ~Consumed(res)]

(* A transaction some of whose blobs succeed before one fails, or a token sent to its owner *)
(* in the Merkle tree: the prover goes back to the state before the transaction, and checks *)
(* nothing, where the program does not.                                                     *)
TakenDifferently(tx, before, w) ==
    \/ w.error /\ Len(w.calldatas) > Len(before.calldatas) + 1
    \/ \E i \in DOMAIN tx.blobs : /\ tx.blobs[i].action.type = "SmtTokenAction"
                                  /\ tx.blobs[i].action.op # "Approve"
                                  /\ Owner(tx.blobs[i].action) = tx.blobs[i].action.recipient

(* The next transaction of the batch; the remaining ones are split off into another. *)
prove_supported_blob(tx) ==
    LET own == SelectSeq([i \in DOMAIN tx.blobs |-> i], LAMBDA i : tx.blobs[i].contract = contract)
        full == batch.txs = max_txs_per_proof
        before == IF full THEN NoBatch ELSE batch
        start == [state |-> prover_state, error |-> FALSE, metadata |-> before.metadata,
                  calldatas |-> before.calldatas, outputs |-> before.outputs]
    IN  \E w \in FoldLeft(LAMBDA ws, i : {HandleBlob(acc, tx, i) : acc \in ws}, {start}, own) :
            /\ handled_txs < MaxProvedTxs
            /\ handled_txs' = handled_txs + 1
            /\ prover_state' = IF w.error THEN prover_state ELSE w.state
            /\ batch' = [txs |-> before.txs + 1, metadata |-> w.metadata,
                         calldatas |-> w.calldatas, outputs |-> w.outputs]
            /\ regular' = ((full \/ regular) /\ ~TakenDifferently(tx, before, w))
            /\ UNCHANGED <<contract, max_txs_per_proof>>

(* -------------------------------- The program -------------------------------- *)
GuestCommit(g) == IF contract = "smt" THEN g.commitment ELSE commit(contract, g)

revert(g, after) == IF contract = "smt" THEN [after EXCEPT !.commitment = g.commitment] ELSE g

GuestExecute(g, calldata) ==
    IF contract = "smt" THEN smt_execute(g, calldata) ELSE ZkExecute(contract, g, calldata)

(* The calls one after the other: an error puts the state back. *)
execute(metadata, calldatas) ==
    LET Call(w, calldata, res) ==
            LET next == IF res.ok THEN GuestCommit(res.state) ELSE w.initial
            IN  [g |-> IF res.ok THEN res.state ELSE revert(w.g, res.state),
                 initial |-> next,
                 outputs |-> Append(w.outputs, as_hyle_output(calldata, w.initial, next, res))]
        Calls(ws, calldata) ==
            UNION {{Call(w, calldata, res) : res \in {GuestExecute(w.g, calldata)}} : w \in ws}
        start == [g |-> metadata, initial |-> GuestCommit(metadata), outputs |-> <<>>]
    IN  (CHOOSE w \in FoldLeft(Calls, {start}, calldatas) : TRUE).outputs

BatchInit ==
    /\ contract \in Tokens \cup {"hydentity", "amm", "staking", "uuid", "smt"}
    /\ max_txs_per_proof \in MaxTxsPerProof
    /\ prover_state = InitialState(contract)
    /\ handled_txs = 0
    /\ batch = NoBatch
    /\ regular = TRUE

BatchNext == \E tx \in TxsOf(contract) : prove_supported_blob(tx)

BatchSpec == BatchInit /\ [][BatchNext]_batchVars

---------------------------------------------------------------------------
(* The program comes to the outputs the prover foresaw, call by call, whether they succeed  *)
(* or not: the steps of the Merkle tree are in the right order, a failed transaction in the *)
(* middle of a batch does not disturb the others (prove_supported_blob, guest::execute).    *)
ProgramAgrees ==
    regular => \A metadata \in batch.metadata :
                    execute(metadata, batch.calldatas) = batch.outputs
=============================================================================
