----------------------------- MODULE AutoProver ----------------------------
(***************************************************************************)
(* AutoProver: it follows the blocks of a node, executes the transactions  *)
(* of its contract ahead of their settlement, each from the state the one  *)
(* before leaves, sends proofs of the outputs, and executes again what     *)
(* follows a transaction that timed out or failed.                         *)
(*                                                                         *)
(* Batches, retries of the proving service and commitment metadata are     *)
(* left out: a proof is the set of its outputs, and one that is never made *)
(* or lost is one that no block holds.                                     *)
(***************************************************************************)
EXTENDS NodeStateFeed, TLC

CONSTANTS
    BufferBlocks,    \* buffer_blocks: blocks to wait for before proving
    WorkingWindow,   \* tx_working_window_size: transactions proved at a time
    CatchupSlack,    \* blocks the chain may move on during a catch-up (10 in the code)
    MaxLag,          \* blocks the node may be ahead of a prover that has caught up
    MaxRestarts,
    LastRestart      \* height of the chain at the last restart

ASSUME ProverAssumption ==
    /\ {BufferBlocks, WorkingWindow, CatchupSlack, MaxLag, MaxRestarts, LastRestart} \subseteq Nat
    /\ WorkingWindow > 0

VARIABLES
    store,           \* AutoProverStore
    handled,         \* height of the last block handled
    catching_up,     \* height to catch up to, 0 for None
    catching_up_state,
    catching_txs,    \* unsettled transactions met during the catch-up
    catching_success_txs,
    status,          \* "running", or "stopped" by an error
    resumed,         \* the store was loaded from disk
    outrun,          \* a transaction settled that this prover had not executed
    restarts

proverVars == <<store, handled, catching_up, catching_up_state, catching_txs,
                catching_success_txs, status, resumed, outrun, restarts>>

EmptyStore == [proving |-> <<>>, unsettled |-> <<>>, chain |-> <<>>,
               history |-> <<>>, buffered_blocks |-> 0]

ProverInit ==
    /\ store = EmptyStore
    /\ handled = 0 /\ catching_up = 0 /\ catching_up_state = {}
    /\ catching_txs = <<>> /\ catching_success_txs = <<>>
    /\ status = "running" /\ resumed = FALSE /\ outrun = FALSE
    /\ restarts = 0

---------------------------------------------------------------------------
(* The handling of a block transforms the store s, extended with the outputs sent, the *)
(* position to replay from (0 for None) and whether an error ended it.                 *)

Position(seq, t) == SelectInSeq(seq, LAMBDA u : u = t)
Forget(s, txs) == [s EXCEPT !.history = [t \in DOMAIN @ \ txs |-> @[t]]]

(* The states to execute t from: none if the history of the transaction before is lost. *)
get_state_of_prev_tx(s, t) ==
    LET i == Position(s.chain, t)
    IN  IF i <= 1 THEN {{}}
        ELSE {s.history[u] : u \in {s.chain[i - 1]} \cap DOMAIN s.history}

ProveOne(s, t) ==
    LET states == get_state_of_prev_tx(s, t)
        from == CHOOSE state \in states : TRUE
    IN  IF s.error \/ states = {}
        THEN [s EXCEPT !.error = TRUE]
        ELSE [s EXCEPT !.history = (t :> Execute(from, t)) @@ @,
                       !.sent = @ \cup (IF t \in Broken THEN {} ELSE {Output(from, t)})]

prove_supported_blob(s, txs) == FoldLeft(ProveOne, s, txs)

remove_from_unsettled_txs(s, t) ==
    IF t \in ToSet(s.proving)
    THEN [s EXCEPT !.proving = Without(@, {t})]
    ELSE [s EXCEPT !.unsettled = Without(@, {t})]

settle_tx_success(s, t) ==
    LET i == Position(s.chain, t)
        chained == IF i > 1 THEN Forget(s, {s.chain[i - 1]}) ELSE s
        cut == IF i > 0 THEN [chained EXCEPT !.chain = SubSeq(@, i, Len(@))] ELSE chained
    IN  [remove_from_unsettled_txs(cut, t) EXCEPT !.outrun = @ \/ t \notin DOMAIN s.history]

(* Mutant of settle_tx_failed: what follows is not executed again. *)
FailWithoutReplay(s, t) ==
    IF t \notin ToSet(s.proving \o s.unsettled)
    THEN s
    ELSE [Forget(remove_from_unsettled_txs(s, t), {t}) EXCEPT !.chain = Without(@, {t})]

settle_tx_failed(s, t) ==
    LET pos == IF t \in ToSet(s.proving) THEN Position(s.proving, t) ELSE Position(s.unsettled, t)
        removed == [Forget(remove_from_unsettled_txs(s, t), {t}) EXCEPT !.chain = Without(@, {t})]
        after == {removed.proving[i] : i \in pos..Len(removed.proving)}
    IN  IF pos = 0 THEN s
        ELSE IF t \notin DOMAIN s.history THEN removed
        ELSE [Forget(removed, after) EXCEPT
                !.replay_from = IF @ = 0 \/ pos < @ THEN pos ELSE @]

(* The new transactions, without the dropped duplicates and the ones that failed at once. *)
AddToWaiting(s, b) ==
    LET added == Without(b.txs, b.failed \cup b.dropped_duplicate)
    IN  [s EXCEPT !.chain = @ \o added, !.unsettled = @ \o added]

HandleFailures(s, b) ==
    LET failing == SetToSeq(b.timed_out) \o SetToSeq(b.failed \ ToSet(b.txs))
        failed == FoldLeft(settle_tx_failed, s, failing)
    IN  IF failed.replay_from = 0 THEN failed
        ELSE prove_supported_blob(failed, SubSeq(failed.proving, failed.replay_from, Len(failed.proving)))

HandleSuccesses(s, b) ==
    LET settled == FoldLeft(settle_tx_success, s, b.successful)
        known == {settled.history[t] : t \in {settled.chain[i] : i \in DOMAIN settled.chain \cap {1}}
                                              \cap DOMAIN settled.history}
    IN  [settled EXCEPT !.error = @ \/ (b.updated /\ ~(known \subseteq {b.state}))]

(* The successful transactions come last, as they drop the history failures go back to. *)
HandleSettled(s, b) == HandleSuccesses(HandleFailures(s, b), b)

populate_unsettled_if_empty(s) ==
    LET n == IF Len(s.unsettled) < WorkingWindow THEN Len(s.unsettled) ELSE WorkingWindow
    IN  IF s.proving # <<>> THEN s
        ELSE [s EXCEPT !.proving = SubSeq(s.unsettled, 1, n),
                       !.unsettled = SubSeq(@, n + 1, Len(@))]

(* Execute and prove the next transactions once all earlier ones are settled, at once if   *)
(* there are enough of them or else after BufferBlocks blocks.                             *)
ProveWaiting(s) ==
    LET populated == populate_unsettled_if_empty(s)
        proved == prove_supported_blob([populated EXCEPT !.buffered_blocks = 0], populated.proving)
        idle == s.proving = <<>>
    IN  IF idle /\ Len(s.unsettled) >= WorkingWindow THEN proved
        ELSE IF s.buffered_blocks < BufferBlocks THEN [s EXCEPT !.buffered_blocks = @ + 1]
        ELSE IF idle /\ s.unsettled # <<>> THEN proved
        ELSE s

handle_processed_block(s, b) ==
    LET settled == HandleSettled(AddToWaiting(s, b), b)
    IN  IF settled.error THEN settled ELSE ProveWaiting(settled)

Working(s) == s @@ [sent |-> {}, replay_from |-> 0, error |-> FALSE, outrun |-> FALSE]
Stored(w) == [f \in DOMAIN EmptyStore |-> w[f]]

HandleProcessedBlock(b) ==
    LET w == handle_processed_block(Working(store), b)
    IN  /\ store' = Stored(w)
        /\ proofs' = proofs \cup w.sent
        /\ status' = IF w.error THEN "stopped" ELSE "running"
        /\ outrun' = (outrun \/ w.outrun)
        /\ UNCHANGED <<catching_up, catching_up_state, catching_txs, catching_success_txs>>

---------------------------------------------------------------------------
Met(b) == catching_txs \o Without(b.txs, b.dropped_duplicate)

CatchupTxs(b) ==
    /\ catching_txs' = Without(Met(b), b.timed_out \cup b.failed \cup ToSet(b.successful))
    /\ catching_success_txs' = catching_success_txs
                               \o SelectSeq(b.successful, LAMBDA t : t \in ToSet(Met(b)))

(* The end of the catch-up: the settled transactions are executed from the default state,  *)
(* which must give the state on chain; the unsettled ones are left to prove.               *)
FinishCatchup ==
    LET final == FoldLeft(Execute, {}, catching_success_txs')
        settled == IF catching_success_txs' = <<>> THEN store
                   ELSE [store EXCEPT !.chain = <<Last(catching_success_txs')>>,
                                      !.history = (Last(catching_success_txs') :> final) @@ @]
    IN  /\ catching_up' = 0
        /\ IF final # catching_up_state
           THEN status' = "stopped" /\ UNCHANGED store
           ELSE /\ store' = [settled EXCEPT !.chain = @ \o catching_txs',
                                            !.unsettled = @ \o catching_txs']
                /\ UNCHANGED status
        /\ UNCHANGED catching_up_state

HandleCatchupBlock(b) ==
    /\ CatchupTxs(b)
    /\ IF handled + 1 < catching_up
       THEN UNCHANGED <<store, status, catching_up, catching_up_state>>
       ELSE IF Height > catching_up + CatchupSlack
       THEN catching_up' = Height /\ catching_up_state' = onchain /\ UNCHANGED <<store, status>>
       ELSE FinishCatchup
    /\ UNCHANGED <<proofs, outrun>>

MayRestart == restarts < MaxRestarts /\ Height <= LastRestart

(* The blocks are kept as long as a restart may need them. *)
ForgetBlocks ==
    history' = IF MayRestart THEN history
               ELSE [i \in DOMAIN history |-> IF i <= handled + 1 THEN <<>> ELSE history[i]]

HandleNodeStateEvent ==
    /\ status = "running"
    /\ handled < Height
    /\ handled' = handled + 1
    /\ IF handled + 1 <= catching_up
       THEN HandleCatchupBlock(history[handled + 1])
       ELSE HandleProcessedBlock(history[handled + 1])
    /\ ForgetBlocks
    /\ UNCHANGED <<queue, onchain, resumed, restarts>>

(* The node publishes a block, before or after the prover has handled the previous ones. *)
NodePublishes ==
    /\ status = "running"
    /\ catching_up # 0 \/ Height - handled <= MaxLag
    /\ NewBlock
    /\ UNCHANGED proverVars

(* build: the target of the catch-up is what the node says now. *)
BuildCatchup ==
    /\ catching_up' = Height
    /\ catching_up_state' = onchain
    /\ catching_success_txs' = <<>>

(* The prover starts again with nothing saved, and the blocks from the first one. *)
StartAgain ==
    /\ MayRestart
    /\ restarts' = restarts + 1
    /\ store' = EmptyStore
    /\ handled' = 0
    /\ BuildCatchup
    /\ catching_txs' = <<>>
    /\ status' = "running" /\ resumed' = FALSE /\ outrun' = FALSE
    /\ UNCHANGED feedVars

(* The prover is stopped, saves its store and starts from it: what is unsettled is caught  *)
(* up with again, from the state of the first transaction of the chain, which must have    *)
(* been executed.                                                                          *)
Resume ==
    /\ status = "running"
    /\ MayRestart
    /\ restarts' = restarts + 1
    /\ resumed' = TRUE
    /\ BuildCatchup
    /\ IF Height = 0 \/ store.chain = <<>>
       THEN catching_txs' = <<>> /\ UNCHANGED <<store, status>>
       ELSE LET first == Head(store.chain)
            IN  /\ catching_txs' = store.proving \o store.unsettled
                /\ status' = IF first \in DOMAIN store.history THEN "running" ELSE "stopped"
                /\ store' = [EmptyStore EXCEPT
                               !.chain = <<first>>,
                               !.history = [t \in {first} \cap DOMAIN store.history |-> store.history[t]]]
    /\ UNCHANGED <<feedVars, handled, outrun>>

ProverNext == NodePublishes \/ HandleNodeStateEvent \/ StartAgain \/ Resume

ProverSpec == ProverInit /\ FeedInit /\ [][ProverNext]_<<feedVars, proverVars>>

---------------------------------------------------------------------------
InSync == status = "running" /\ catching_up = 0 /\ handled = Height /\ ~resumed /\ ~outrun

(* A prover that was not resumed from disk and has handled every block works on exactly  *)
(* the contract's unsettled transactions, in their order, whatever failed, timed out,    *)
(* was dropped or settled while it was proving or catching up.                           *)
ProverFollowsQueue == InSync => store.proving \o store.unsettled = queue

(* The first unsettled transaction, once the prover works on it, has been executed from   *)
(* the state on chain, and the ones behind it each from the result of the one before: the *)
(* outputs sent are the ones that can settle.                                             *)
ProvesFromTheRightState ==
    InSync => \A i \in DOMAIN store.proving :
        LET before == FoldLeft(Execute, onchain, SubSeq(store.proving, 1, i - 1))
            t == store.proving[i]
        IN  /\ t \in DOMAIN store.history /\ store.history[t] = Execute(before, t)
            /\ t \notin Broken => Output(before, t) \in proofs

(* The prover ends on an error only when it was resumed from a store on disk, or when a   *)
(* transaction it had not executed itself settled (by a proof it sent before it was       *)
(* restarted): neither the failures it replays nor a catch-up from nothing stop it.       *)
StopsOnlyWhenOutrun == status = "stopped" => resumed \/ outrun

(* A prover that was neither resumed from disk nor outrun is in step with the node: it keeps *)
(* running, works on the contract's queue, and every output it sends starts from the state  *)
(* that the one before leaves (handle_processed_block, settle_tx_failed).                    *)
ProverInStep == StopsOnlyWhenOutrun /\ ProverFollowsQueue /\ ProvesFromTheRightState
=============================================================================
