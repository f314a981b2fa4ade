----------------------------- MODULE Contracts -----------------------------
(***************************************************************************)
(* The contracts shipped with the node: the token Hyllar, the identity     *)
(* provider Hydentity, the exchange Amm, the staking contract and the      *)
(* UuidTld registry.  Each execute takes the contract's state and a        *)
(* calldata to the result; an error may leave a state that was already     *)
(* changed.  The amounts of a model are far from the limits of u128.       *)
(***************************************************************************)
EXTENDS ContractSdk, Staking

CONSTANTS
    TOTAL_SUPPLY,   \* of a token, all on the account of the faucet
    Faucet,         \* the identity that holds it
    TokenOrder      \* the token names as a sequence, in the order of their strings

Tokens == Range(TokenOrder)

(* ------------------------------- Hyllar -------------------------------- *)
NewHyllar == [balances |-> (Faucet :> TOTAL_SUPPLY), allowances |-> Empty]

balance_of(h, account) == {h.balances[a] : a \in {account} \cap DOMAIN h.balances}

allowance(h, owner, spender) ==
    IF <<owner, spender>> \in DOMAIN h.allowances THEN h.allowances[owner, spender] ELSE 0

Balance(h, account) ==
    IF account \in DOMAIN h.balances THEN h.balances[account] ELSE 0

Move(h, sender, recipient, amount) ==
    LET taken == [h EXCEPT !.balances[sender] = @ - amount]
    IN  [taken EXCEPT !.balances = (recipient :> Balance(taken, recipient) + amount) @@ @]

transfer(h, sender, recipient, amount) ==
    {Move(h, sender, recipient, amount) : b \in {b \in balance_of(h, sender) : b >= amount}}

transfer_from(h, owner, spender, recipient, amount) ==
    LET left == allowance(h, owner, spender) - amount
    IN  {[Move(h, owner, recipient, amount) EXCEPT
                !.allowances = (<<owner, spender>> :> left) @@ @]
            : b \in {b \in balance_of(h, owner) : left >= 0 /\ b >= amount}}

approve(h, owner, spender, amount) ==
    {[h EXCEPT !.allowances = (<<owner, spender>> :> amount) @@ @]}

execute_token_action(h, action, caller) ==
    CASE action.op = "TotalSupply" -> {h}
      [] action.op = "BalanceOf" -> {h : b \in balance_of(h, action.account)}
      [] action.op = "Transfer" -> transfer(h, caller, action.recipient, action.amount)
      [] action.op = "TransferFrom" ->
            transfer_from(h, action.owner, caller, action.recipient, action.amount)
      [] action.op = "Approve" -> approve(h, caller, action.spender, action.amount)
      [] action.op = "Allowance" -> {h}

(* What an execution returns, given the results by the context they come in: there is at *)
(* most one context, none when the call is not parsed, and one result or none.           *)
Outcome(state, results) ==
    IF \E ctx \in DOMAIN results : results[ctx] # {}
    THEN LET ctx == CHOOSE c \in DOMAIN results : TRUE
         IN  Ok(CHOOSE s \in results[ctx] : TRUE, ctx)
    ELSE Err(state)

hyllar_execute(h, calldata) ==
    Outcome(h, [ctx \in parse_calldata(calldata, "HyllarAction") |->
                    execute_token_action(h, ctx.action, ctx.caller)])

(* ------------------------------ Hydentity ------------------------------ *)
NewHydentity == Empty

(* The hash of an account and its password. *)
Hash(account, password) == <<account, password>>

(* The account is inserted, over the one there may be, before the refusal. *)
register_identity(ids, action, password) ==
    LET inserted == (action.account :> [hash |-> Hash(action.account, password), nonce |-> 0])
                        @@ ids
    IN  IF action.hash # Hash(action.account, password) THEN [ok |-> FALSE, ids |-> ids]
        ELSE [ok |-> action.account \notin DOMAIN ids, ids |-> inserted]

verify_identity(ids, action, password) ==
    IF /\ action.account \in DOMAIN ids
       /\ ids[action.account] = [hash |-> Hash(action.account, password), nonce |-> action.nonce]
    THEN [ok |-> TRUE, ids |-> [ids EXCEPT ![action.account].nonce = @ + 1]]
    ELSE [ok |-> FALSE, ids |-> ids]

execute_identity_action(ids, action, password) ==
    CASE action.op = "RegisterIdentity" -> register_identity(ids, action, password)
      [] action.op = "VerifyIdentity" -> verify_identity(ids, action, password)
      [] action.op = "GetIdentityInfo" -> [ok |-> action.account \in DOMAIN ids, ids |-> ids]

hydentity_execute(ids, calldata) ==
    LET contexts == parse_raw_calldata(calldata, "HydentityAction")
    IN  IF contexts = {} THEN Err(ids)
        ELSE LET ctx == CHOOSE c \in contexts : TRUE
                 res == execute_identity_action(ids, ctx.action, calldata.private_input)
             IN  IF res.ok THEN Ok(res.ids, ctx) ELSE Err(res.ids)

(* --------------------------------- Amm --------------------------------- *)
NewAmm == Empty

IsNormalized(pair) == IndexFirstSubSeq(<<pair[1]>>, TokenOrder)
                        <= IndexFirstSubSeq(<<pair[2]>>, TokenOrder)
UnorderedTokenPair(pair) == IF IsNormalized(pair) THEN pair ELSE <<pair[2], pair[1]>>

(* The tokens are put in order, the amounts are stored as they come. *)
create_new_pair(pairs, pair, amounts) ==
    IF pair[1] = pair[2] \/ UnorderedTokenPair(pair) \in DOMAIN pairs
    THEN Err(pairs)
    ELSE [Err(pairs) EXCEPT !.ok = TRUE, !.state = (UnorderedTokenPair(pair) :> amounts) @@ @]

(* What the pool pays for from_amount: it keeps the product of its reserves, rounded down. *)
PaidFor(x, y, from_amount) == y - (x * y) \div (x + from_amount)

(* The reserves are updated, by the full amount, before to_amount is found right or wrong: *)
(* at most what the pool pays, and at least 98% of it.                                     *)
verify_swap(pairs, pair, from_amount, to_amount) ==
    LET key == UnorderedTokenPair(pair)
    IN  IF pair[1] = pair[2] \/ key \notin DOMAIN pairs THEN Err(pairs)
        ELSE LET from == IF IsNormalized(pair) THEN 1 ELSE 2
                 amount == PaidFor(pairs[key][from], pairs[key][3 - from], from_amount)
                 after == [pairs EXCEPT ![key][from] = @ + from_amount,
                                        ![key][3 - from] = @ - amount]
             IN  [Err(after) EXCEPT !.ok = to_amount <= amount
                                            /\ to_amount >= (amount * 98) \div 100]

TransferFromCall(ctx, amount) ==
    [type |-> "HyllarAction", op |-> "TransferFrom", owner |-> ctx.caller,
     recipient |-> ctx.contract, amount |-> amount]
TransferCall(recipient, amount) ==
    [type |-> "HyllarAction", op |-> "Transfer", recipient |-> recipient, amount |-> amount]

(* The context once both transfers of the action are found among the callees. *)
CallsOf(ctx) ==
    LET second == IF ctx.action.op = "Swap"
                  THEN TransferCall(ctx.caller, ctx.action.amounts[2])
                  ELSE TransferFromCall(ctx, ctx.action.amounts[2])
    IN  UNION {is_in_callee_blobs(c, ctx.action.pair[2], second)
                : c \in is_in_callee_blobs(ctx, ctx.action.pair[1],
                                           TransferFromCall(ctx, ctx.action.amounts[1]))}

amm_execute(pairs, calldata) ==
    LET contexts == UNION {CallsOf(ctx) : ctx \in parse_calldata(calldata, "AmmAction")}
    IN  IF contexts = {} THEN Err(pairs)
        ELSE LET ctx == CHOOSE c \in contexts : TRUE
                 a == ctx.action
                 res == IF a.op = "Swap"
                        THEN verify_swap(pairs, a.pair, a.amounts[1], a.amounts[2])
                        ELSE create_new_pair(pairs, a.pair, a.amounts)
             IN  [res EXCEPT !.left = ctx.callees_blobs]

(* ------------------------------- Staking ------------------------------- *)
(* Mutant of check_transfer_blob: any transfer to the contract is good. *)
AnyTransfer(blobs, index, amount) ==
    \E blob \in parse_structured_blob(blobs, index, "HyllarAction") :
        /\ blob.contract = "hyllar"
        /\ blob.action.op = "Transfer"
        /\ blob.action.recipient = "staking"

check_transfer_blob(blobs, index, amount) ==
    \E blob \in parse_structured_blob(blobs, index, "HyllarAction") :
        /\ blob.contract = "hyllar"
        /\ blob.action = TransferCall("staking", amount)

staking_execute(s, calldata) ==
    LET accepted == {ctx \in parse_calldata(calldata, "StakingAction") :
                        ctx.action.op \in {"Stake", "DepositForFees"} =>
                            check_transfer_blob(calldata.blobs, calldata.index + 1, ctx.action.amount)}
    IN  Outcome(s, [ctx \in accepted |-> Apply(s, ctx.caller, ctx.action)])

(* The part of the staking state that is on chain: what transactions alone change. *)
staking_commit(s) == [stakes |-> s.stakes, delegations |-> s.delegations]

(* ------------------------------- UuidTld ------------------------------- *)
NewUuidTld == Empty

(* The identifier is a hash of the state, the transaction and the block it is in, which the *)
(* prover always gives: a new one.                                                          *)
claim_contract(claims, calldata) ==
    {(Cardinality(DOMAIN claims) + 1 :> calldata.identity) @@ claims}

register_contract(claims, uuid, identity) ==
    {claims : c \in {c \in {uuid} \cap DOMAIN claims : claims[c] = identity}}

(* The contract vouches for no identity: "uuid" stands for those that end with its name. *)
uuid_execute(claims, calldata) ==
    IF calldata.identity = "uuid"
    THEN Err(claims)
    ELSE IF parse_raw_calldata(calldata, "UuidTldAction") # {}
    THEN Outcome(claims, [ctx \in parse_raw_calldata(calldata, "UuidTldAction") |->
                              claim_contract(claims, calldata)])
    ELSE Outcome(claims, [ctx \in parse_calldata(calldata, "RegisterContractAction") |->
                              register_contract(claims, ctx.action.uuid, calldata.identity)])

(* ---------------------------- ZkContract ------------------------------- *)
ZkExecute(contract, state, calldata) ==
    CASE contract \in Tokens -> hyllar_execute(state, calldata)
      [] contract = "hydentity" -> hydentity_execute(state, calldata)
      [] contract = "amm" -> amm_execute(state, calldata)
      [] contract = "staking" -> staking_execute(state, calldata)
      [] contract = "uuid" -> uuid_execute(state, calldata)

commit(contract, state) == IF contract = "staking" THEN staking_commit(state) ELSE state
=============================================================================
