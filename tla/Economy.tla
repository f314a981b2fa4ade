---------------------------- MODULE Economy --------------------------------
(***************************************************************************)
(* Wallets build transactions over the contracts, which are executed as    *)
(* they settle.  What settles of the staking contract goes with the blocks *)
(* to the consensus nodes, each with a Staking of its own:                 *)
(*   "validator"  follows the rounds: it bonds validators and charges fees *)
(*                when it commits, and handles the block later, once       *)
(*                NodeState has executed it;                               *)
(*   "joiner"     only handles the blocks, like a node that catches up and *)
(*                like the Mempool.                                        *)
(***************************************************************************)
EXTENDS Wallets

CONSTANTS
    Founder, FirstValidator, GenesisStake,  \* who stakes in the genesis block
    EarlierTxs,   \* the transactions that have settled at the start, in order
    MaxTxs,       \* bound on the transactions that settle
    MaxChainBlocks,
    MaxCumulSize  \* bound on the data of a lane

VARIABLES
    states,       \* of the contracts
    settled,      \* number of transactions executed
    staking_actions,  \* settled and not yet in a block
    chain,        \* the blocks: cut, staking actions and the validators they bond
    staking,      \* of the two consensus nodes
    handled_to,   \* the blocks they have handled
    reversed      \* a pool was created with its tokens not in order

executorVars == <<states, settled, staking_actions, chain, staking, handled_to, reversed>>

Copies == {"validator", "joiner"}

(* The genesis block: a first validator stakes, delegates to itself and is bonded. *)
GenesisActions ==
    <<[identity |-> Founder, action |-> [op |-> "Stake", amount |-> GenesisStake]],
      [identity |-> Founder, action |-> [op |-> "Delegate", validator |-> FirstValidator]]>>
GenesisStaking == process_block(NewStaking, GenesisActions, <<FirstValidator>>).s

GenesisStates ==
    [c \in Tokens |-> NewHyllar]
        @@ ("hydentity" :> NewHydentity) @@ ("amm" :> NewAmm)
        @@ ("staking" :> [GenesisStaking EXCEPT !.bonded = {}, !.total_bond = 0])

---------------------------------------------------------------------------
(* The staking blobs of a settled transaction, as NodeState puts them in its block: under   *)
(* the identity of the transaction.                                                         *)
StakingActionsOf(tx) ==
    LET blobs == SelectSeq(tx.blobs, LAMBDA b : b.contract = "staking")
    IN  [i \in DOMAIN blobs |-> [identity |-> tx.identity, action |-> blobs[i].action]]

CreatesReversed(tx) ==
    \E i \in DOMAIN tx.blobs : /\ tx.blobs[i].action.type = "AmmAction"
                               /\ tx.blobs[i].action.op = "NewPair"
                               /\ ~IsNormalized(tx.blobs[i].action.pair)

(* Mutant of Settle: the staking actions of a failed transaction are reported too. *)
SettleReportsFailures(tx) ==
    /\ settled' = settled + 1
    /\ \E after \in process(states, tx) \cup {states} : states' = after
    /\ staking_actions' = staking_actions \o StakingActionsOf(tx)
    /\ UNCHANGED <<chain, staking, handled_to, reversed>>

(* The blocks before the start: all of EarlierTxs succeeded, and the nodes have handled them. *)
ExecutorInit ==
    /\ states = FoldLeft(LAMBDA s, tx : CHOOSE after \in process(s, tx) : TRUE,
                         [GenesisStates EXCEPT !["hyllar"] = Move(@, Faucet, "staking", GenesisStake)],
                         EarlierTxs)
    /\ settled = 0
    /\ staking_actions = <<>>
    /\ chain = <<>>
    /\ staking = [c \in Copies |->
                     process_block(GenesisStaking,
                                   FlattenSeq([i \in DOMAIN EarlierTxs |->
                                                    StakingActionsOf(EarlierTxs[i])]),
                                   <<>>).s]
    /\ handled_to = [c \in Copies |-> 0]
    /\ reversed = FALSE

(* A transaction that fails leaves nothing behind. *)
Settle(tx) ==
    /\ settled' = settled + 1
    /\ \E after \in process(states, tx) : states' = after
    /\ staking_actions' = staking_actions \o StakingActionsOf(tx)
    /\ reversed' = (reversed \/ CreatesReversed(tx))
    /\ UNCHANGED <<chain, staking, handled_to>>

---------------------------------------------------------------------------
(* The validators the leader proposes to bond: it asks for more than the minimum. *)
Bondable(s) == {v \in Validators \ s.bonded : \E n \in get_stake(s, v) : n > MIN_STAKE}

(* The cuts that can follow: of known lanes, whose data only grows. *)
LastCut == IF chain = <<>> THEN [v \in Validators |-> 0] ELSE chain[Len(chain)].cut
NextCuts(s) ==
    {cut \in [Validators -> 0..MaxCumulSize] :
        \A v \in Validators : cut[v] >= LastCut[v] /\ (cut[v] > 0 => v \in DOMAIN s.delegations)}

(* The round ends with a commit.  The validator bonds those the proposal names, charges the *)
(* lanes of the cut and distributes, up to the first lane that has no fee balance, which    *)
(* nobody checked before; the block follows with what settles in it.                        *)
FinishRound ==
    /\ Len(chain) < MaxChainBlocks
    /\ LET s == staking["validator"]
       IN  \E bonds \in {bs \in SUBSET Bondable(s) : Cardinality(bs) <= 1}, cut \in NextCuts(s) :
            LET bonded == FoldLeft(LAMBDA w, v : Try(w, bond(w.s, v)), [s |-> s, error |-> FALSE],
                                   SetToSeq(bonds))
                paid == FoldLeft(LAMBDA t, v : pay_for_dadi(t, v, cut[v]), bonded.s,
                                 SetToSeq({v \in Validators : cut[v] > 0}))
            IN  /\ staking' = [staking EXCEPT !["validator"] = distribute(paid).s]
                /\ chain' = Append(chain, [cut |-> cut, actions |-> staking_actions,
                                           bonds |-> SetToSeq(bonds), error |-> FALSE])
                /\ staking_actions' = <<>>
    /\ UNCHANGED <<states, settled, handled_to, reversed>>

(* The block's staking actions and bonds reach the consensus from NodeState.  The validator *)
(* has bonded already, which ends the handling with an error, after the actions.            *)
HandleNodeStateEvent(copy) ==
    LET next == handled_to[copy] + 1
        w == process_block(staking[copy], chain[next].actions, chain[next].bonds)
    IN  /\ next <= Len(chain)
        /\ staking' = [staking EXCEPT ![copy] = w.s]
        /\ handled_to' = [handled_to EXCEPT ![copy] = next]
        /\ chain' = IF copy = "joiner" THEN [chain EXCEPT ![next].error = w.error] ELSE chain
        /\ UNCHANGED <<states, settled, staking_actions, reversed>>

ExecutorNext ==
    \/ settled < MaxTxs /\ \E tx \in WalletTxs : Settle(tx)
    \/ FinishRound
    \/ \E copy \in Copies : HandleNodeStateEvent(copy)

ExecutorSpec == ExecutorInit /\ [][ExecutorNext]_executorVars

---------------------------------------------------------------------------
(* No token is made or lost by any transaction: transfers called by the exchange, approved *)
(* ones, those that fail half-way (Hyllar::transfer, TxExecutor::process).                 *)
TokensConserved == \A t \in Tokens : Total(states[t].balances) = TOTAL_SUPPLY

(* The exchange holds the reserves it computes its prices from: what it records is what    *)
(* the calls of its transactions moved.  Not so for a pool created with its tokens in the  *)
(* other order, whose amounts are stored the wrong way round (Amm::create_new_pair).       *)
AmmSolvent ==
    ~reversed =>
        \A pair \in DOMAIN states["amm"], i \in 1..2 :
            states["amm"][pair][i] <= Balance(states[pair[i]], "amm")

(* The account of the staking contract covers all the consensus owes: the stakes and the   *)
(* fees on deposit, whoever they were distributed to (check_transfer_blob, Fees).          *)
StakingBacked ==
    LET s == staking["validator"]
        owed == Total(s.stakes) + Total([v \in DOMAIN s.balances |-> s.balances[v].balance])
    IN  owed <= Balance(states["hyllar"], "staking")

(* Does the stake of delegators change in a block up to one that bonds a validator ? *)
StakedBeforeBonding ==
    \E i \in DOMAIN chain :
        /\ chain[i].bonds # <<>>
        /\ \E j \in 1..i : \E k \in DOMAIN chain[j].actions :
                chain[j].actions[k].action.op \in {"Stake", "Delegate"}

(* The copies of the staking state agree once they have handled the same blocks, although  *)
(* one bonds at the commit, the other with the block; and a staking action that the        *)
(* contract accepted never fails when a node applies it (Staking::process_block).  The     *)
(* total_bond they count is the same unless stakes changed up to the block that bonds: then *)
(* that of the node that bonds with the block may be the larger, never the smaller.        *)
CopiesAgree ==
    /\ \A i \in DOMAIN chain : ~chain[i].error
    /\ (\A copy \in Copies : handled_to[copy] = Len(chain)) =>
            /\ staking_commit(staking["validator"]) = staking_commit(staking["joiner"])
            /\ staking["validator"].bonded = staking["joiner"].bonded
            /\ staking["validator"].total_bond <= staking["joiner"].total_bond
            /\ staking["validator"].total_bond = staking["joiner"].total_bond \/ StakedBeforeBonding

(* The quorums are computed from total_bond, the votes from the stakes: the stakes of the  *)
(* bonded validators always reach total_bond, so that a quorum exists (Staking::bond).     *)
QuorumsReachable ==
    \A copy \in Copies :
        staking[copy].total_bond <= compute_voting_power(staking[copy], staking[copy].bonded)

(* Whatever wallets send and whichever transactions fail, nothing is promised that is not    *)
(* there: tokens are neither made nor lost, and the exchange and the staking contract hold   *)
(* what they owe (Hyllar::transfer, Amm::verify_swap, check_transfer_blob).                  *)
FundsBacked == TokensConserved /\ AmmSolvent /\ StakingBacked

(* An identity once registered keeps its password, and its nonce only grows: a failed      *)
(* registration, which overwrites the account before it is refused, leaves no trace        *)
(* (Hydentity::register_identity, TxExecutor::process).                                    *)
IdentitiesKept ==
    \A account \in DOMAIN states["hydentity"] :
        /\ account \in DOMAIN states["hydentity"]'
        /\ states["hydentity"]'[account].hash = states["hydentity"][account].hash
        /\ states["hydentity"]'[account].nonce >= states["hydentity"][account].nonce

(* Every step leaves the funds backed and the identities kept, whichever transactions fail   *)
(* half-way and are put back (TxExecutor::process).                                          *)
AccountsSafe == [][FundsBacked' /\ IdentitiesKept]_executorVars

(* The nodes agree on the stakes and on who is bonded once they have handled the same        *)
(* blocks, no node that caught up is content with a smaller quorum than those that voted,    *)
(* and the stakes each holds allow its quorum (Staking::process_block, Staking::bond).       *)
StakesAgree == CopiesAgree /\ QuorumsReachable
=============================================================================
