------------------------------ MODULE Staking ------------------------------
(***************************************************************************)
(* The staking state: kept by the staking contract for what transactions   *)
(* change, and by every consensus node, which adds the bonded validators   *)
(* and the fees for the data of the lanes.  As in ContractSdk, a Result is *)
(* {} or the set of its value.  Rewards (Distribute) are a todo!() of the  *)
(* code.                                                                   *)
(***************************************************************************)
EXTENDS Integers, Sequences, FiniteSets, SequencesExt

CONSTANT MIN_STAKE   \* stake a validator needs to be bonded

Empty == <<>>   \* the function without arguments: an empty map

NewStaking == [stakes |-> Empty, delegations |-> Empty, bonded |-> {}, total_bond |-> 0,
               pending_fees |-> <<>>, balances |-> Empty]

Total(f) == MapThenSumSet(LAMBDA x : f[x], DOMAIN f)

get_stake(s, validator) ==
    {LET delegators == s.delegations[v]
     IN  Total([i \in {j \in DOMAIN delegators : delegators[j] \in DOMAIN s.stakes}
                    |-> s.stakes[delegators[i]]])
        : v \in {validator} \cap DOMAIN s.delegations}

(* The voting power of a list of validators: of each of them once. *)
compute_voting_power(s, validators) ==
    Total([v \in {w \in validators : get_stake(s, w) # {}} |-> CHOOSE n \in get_stake(s, v) : TRUE])

bond(s, validator) ==
    {[s EXCEPT !.bonded = @ \cup {validator}, !.total_bond = @ + amount]
        : amount \in {n \in get_stake(s, validator) : n >= MIN_STAKE /\ validator \notin s.bonded}}

stake(s, staker, amount) ==
    IF staker \in DOMAIN s.stakes THEN {}
    ELSE {[s EXCEPT !.stakes = @ @@ (staker :> amount)]}

delegate_to(s, staker, validator) ==
    IF \E v \in DOMAIN s.delegations : Contains(s.delegations[v], staker) THEN {}
    ELSE LET before == IF validator \in DOMAIN s.delegations
                       THEN s.delegations[validator] ELSE <<>>
         IN  {[s EXCEPT !.delegations = (validator :> Append(before, staker)) @@ @]}

---------------------------------------------------------------------------
NoFees == [balance |-> 0, paid |-> 0]
FeesOf(s, v) == IF v \in DOMAIN s.balances THEN s.balances[v] ELSE NoFees
Credit(s, v, amount) ==
    [s EXCEPT !.balances = (v :> [FeesOf(s, v) EXCEPT !.balance = @ + amount]) @@ @]

deposit_for_fees(s, holder, amount) == {Credit(s, holder, amount)}

pay_for_dadi(s, lane, cumul_size) ==
    [s EXCEPT !.pending_fees = Append(@, [lane |-> lane, cumul_size |-> cumul_size])]

(* One entry: the disseminator pays what it has not paid yet, a byte for a token, and the   *)
(* bonded validators share it, without the remainder of the division.  The first entry      *)
(* that cannot be paid ends the distribution.                                               *)
DistributeFee(w, entry) ==
    IF \/ w.error
       \/ entry.lane \notin DOMAIN w.s.balances
       \/ entry.cumul_size < FeesOf(w.s, entry.lane).paid
    THEN [w EXCEPT !.error = TRUE]
    ELSE LET fee == entry.cumul_size - w.s.balances[entry.lane].paid
             share == fee \div Cardinality(w.s.bonded)
             charged == [w.s EXCEPT !.balances[entry.lane] =
                            [balance |-> @.balance - fee, paid |-> entry.cumul_size]]
         IN  [w EXCEPT !.s = FoldLeft(LAMBDA s, v : Credit(s, v, share), charged,
                                      SetToSeq(w.s.bonded))]

(* All that is pending is taken off the list, distributed or not. *)
distribute(s) ==
    FoldLeft(DistributeFee, [s |-> [s EXCEPT !.pending_fees = <<>>], error |-> FALSE],
             s.pending_fees)

---------------------------------------------------------------------------
Apply(s, identity, action) ==
    CASE action.op = "Stake" -> stake(s, identity, action.amount)
      [] action.op = "Delegate" -> delegate_to(s, identity, action.validator)
      [] action.op = "DepositForFees" -> deposit_for_fees(s, action.holder, action.amount)

Try(w, result) ==
    IF w.error \/ result = {} THEN [w EXCEPT !.error = TRUE]
    ELSE [w EXCEPT !.s = CHOOSE s \in result : TRUE]

(* What a consensus node does with a block: the staking actions that settled in it, then   *)
(* the validators it bonds.  An error leaves what was done before.                         *)
process_block(s, staking_actions, new_bonded_validators) ==
    LET acted == FoldLeft(LAMBDA ws, a : {Try(w, Apply(w.s, a.identity, a.action)) : w \in ws},
                          {[s |-> s, error |-> FALSE]}, staking_actions)
        bonded == FoldLeft(LAMBDA ws, v : {Try(w, bond(w.s, v)) : w \in ws},
                           acted, new_bonded_validators)
    IN  CHOOSE w \in bonded : TRUE
=============================================================================
