------------------------------ MODULE Wallets ------------------------------
(***************************************************************************)
(* The transactions wallets build over the contracts, with the functions   *)
(* of the contracts' client modules.                                       *)
(***************************************************************************)
EXTENDS Contracts

CONSTANTS
    Users,        \* identities, the faucet among them
    Passwords,    \* what a user may type
    Validators,
    Amounts       \* what transactions move, positive numbers

(* What wallets send.  The functions that build a transaction read the state when they   *)
(* are called; by the time it is executed the state may have moved on, so any nonce, any  *)
(* amount of the exchange may come.                                                       *)
Tx(user) == NewTx(user, 0)

Verified(tx, nonce, password) ==
    add_raw_action(tx, "hydentity", [type |-> "HydentityAction", op |-> "VerifyIdentity",
                                     account |-> tx.identity, nonce |-> nonce], password)
Registered(tx, password) ==
    add_raw_action(tx, "hydentity", [type |-> "HydentityAction", op |-> "RegisterIdentity",
                                     account |-> tx.identity,
                                     hash |-> Hash(tx.identity, password)], password)
Hyllar(tx, token, op, caller) ==
    add_action(tx, token, op @@ [type |-> "HyllarAction"], "", caller, {})
Transferred(tx, token, recipient, amount) ==
    Hyllar(tx, token, [op |-> "Transfer", recipient |-> recipient, amount |-> amount], {})
Approved(tx, token, spender, amount) ==
    Hyllar(tx, token, [op |-> "Approve", spender |-> spender, amount |-> amount], {})

(* The exchange's action calls the two transfers that follow it. *)
Exchanged(tx, op, pair, amounts) ==
    LET index == Len(tx.blobs) + 1
        called == add_action(tx, "amm", [type |-> "AmmAction", op |-> op, pair |-> pair,
                                         amounts |-> amounts], "", {},
                             {<<index + 1, index + 2>>})
        paid == Hyllar(called, pair[1], [op |-> "TransferFrom", owner |-> tx.identity,
                                         recipient |-> "amm", amount |-> amounts[1]], {index})
    IN  IF op = "Swap"
        THEN Hyllar(paid, pair[2], [op |-> "Transfer", recipient |-> tx.identity,
                                    amount |-> amounts[2]], {index})
        ELSE Hyllar(paid, pair[2], [op |-> "TransferFrom", owner |-> tx.identity,
                                    recipient |-> "amm", amount |-> amounts[2]], {index})

Staked(tx, op) == add_action(tx, "staking", op @@ [type |-> "StakingAction"], "", {}, {})

Pairs == {<<TokenOrder[1], TokenOrder[2]>>, <<TokenOrder[2], TokenOrder[1]>>}

IdentityTxs ==
    {Registered(Tx(u), p) : u \in Users, p \in Passwords}
        \cup {Transferred(Verified(Tx(u), n, p), TokenOrder[1], v, a) :
                u \in Users, n \in 0..1, p \in Passwords, v \in Users, a \in Amounts}

ExchangeTxs ==
    {Exchanged(Approved(Approved(Tx(u), pair[1], "amm", x), pair[2], "amm", y),
               "NewPair", pair, <<x, y>>) :
            u \in Users, pair \in Pairs, x \in Amounts, y \in Amounts}
        \cup {Exchanged(Approved(Tx(u), pair[1], "amm", x), "Swap", pair, <<x, y>>) :
                u \in Users, pair \in Pairs, x \in Amounts, y \in Amounts}

(* A stake or a deposit, paid to the staking contract or not, or two of them for one payment. *)
StakingOps ==
    {[op |-> "Stake", amount |-> a] : a \in Amounts}
        \cup {[op |-> "DepositForFees", holder |-> v, amount |-> a] : v \in Validators, a \in Amounts}
PaidTxs(tx, amount) ==
    {Transferred(tx, TokenOrder[1], "staking", a) : a \in Amounts}
        \cup {Transferred(tx, TokenOrder[2], "staking", amount),
              Transferred(tx, TokenOrder[1], tx.identity, amount)}

StakingTxs ==
    UNION {PaidTxs(Staked(Tx(u), op), op.amount) : u \in Users, op \in StakingOps}
        \cup {Transferred(Staked(Staked(Tx(u), op), op), TokenOrder[1], "staking", op.amount) :
                u \in Users, op \in StakingOps}
        \cup {Staked(Tx(u), [op |-> "Delegate", validator |-> v]) : u \in Users, v \in Validators}

WalletTxs == IdentityTxs \cup ExchangeTxs \cup StakingTxs

---------------------------------------------------------------------------
(* TxExecutor, with which wallets and the genesis run transactions over the states of the   *)
(* contracts: blob by blob, all or nothing, as settlement does on chain.                     *)

(* The states after a blob, if it succeeds; none after one that has failed. *)
RunBlob(ran, tx, index) ==
    LET contract == tx.blobs[index].contract
        calldata == build_zk_program_input(tx, index)
    IN  UNION {{[states EXCEPT ![contract] = res.state] :
                    res \in {r \in {ZkExecute(contract, states[contract], calldata)} : Consumed(r)}}
                : states \in ran}

(* The states after the blobs in order; none when one fails, which puts back the state of    *)
(* every contract of the transaction.                                                       *)
process(states, tx) ==
    LET ran[i \in 0..Len(tx.blobs)] == IF i = 0 THEN {states} ELSE RunBlob(ran[i - 1], tx, i)
    IN  ran[Len(tx.blobs)]
=============================================================================
