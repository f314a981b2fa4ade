------------------------------ MODULE SmtToken -----------------------------
(***************************************************************************)
(* The token whose accounts are the leaves of a sparse Merkle tree.  The   *)
(* wallet and the prover hold the tree (TxExecutorHandler); the program    *)
(* that is proved holds its root, and for each call a step with the        *)
(* accounts the call touches and a Merkle proof of them.                   *)
(*                                                                         *)
(* A tree is the map of its accounts, those with a balance of 0 left out   *)
(* since their leaf is the empty one, and its root is the map itself:      *)
(* hashes do not collide.  A Merkle proof is the tree it was made from; it *)
(* verifies leaves against a root when putting them in that tree gives the *)
(* root.                                                                   *)
(***************************************************************************)
EXTENDS Contracts

NewAccount == [balance |-> 0, allowances |-> Empty]
NewSmtToken == (Faucet :> [NewAccount EXCEPT !.balance = TOTAL_SUPPLY])

NonZero(accounts) == [a \in {b \in DOMAIN accounts : accounts[b].balance # 0} |-> accounts[a]]

(* The root of the tree with these leaves instead of its own. *)
compute_root(tree, leaves) == NonZero(leaves @@ tree)

get_account(tree, a) == IF a \in DOMAIN tree THEN tree[a] ELSE NewAccount

update_allowances(account, spender, amount) ==
    [account EXCEPT !.allowances = (spender :> amount) @@ @]

AllowanceOf(account, spender) ==
    IF spender \in DOMAIN account.allowances THEN account.allowances[spender] ELSE 0

(* The accounts an action touches: of whom the tokens are, and who gets them. *)
Owner(action) == IF action.op = "Transfer" THEN action.sender ELSE action.owner
Touched(action) ==
    {Owner(action)} \cup (IF action.op = "Approve" THEN {} ELSE {action.recipient})

(* Take the amount from one account of a map and give it to another, in that order. *)
Pay(accounts, from, to, amount) ==
    LET taken == [accounts EXCEPT ![from].balance = @ - amount]
    IN  {[taken EXCEPT ![to].balance = @ + amount]
            : n \in {n \in {accounts[from].balance} : n >= amount}}

---------------------------------------------------------------------------
(* The tree's owner: SmtTokenProvableState.  Only accounts with tokens can act, and what an *)
(* account sends to itself is not looked at.                                                *)
inner_handle(tree, action) ==
    LET from == Owner(action)
        accounts == [a \in Touched(action) |-> get_account(tree, a)]
        spent == AllowanceOf(accounts[from], action.spender) - action.amount
    IN  IF from \notin DOMAIN tree THEN {}
        ELSE CASE action.op = "Approve" ->
                    {compute_root(tree, [accounts EXCEPT
                            ![from] = update_allowances(@, action.spender, action.amount)])}
               [] action.op # "Approve" /\ from = action.recipient -> {tree}
               [] action.op = "Transfer" /\ from # action.recipient ->
                    {compute_root(tree, paid) :
                            paid \in Pay(accounts, from, action.recipient, action.amount)}
               [] action.op = "TransferFrom" /\ from # action.recipient ->
                    IF spent < 0 THEN {}
                    ELSE {compute_root(tree, paid) :
                            paid \in Pay([accounts EXCEPT
                                            ![from] = update_allowances(@, action.spender, spent)],
                                         from, action.recipient, action.amount)}

(* The output of handle; none when the blob does not parse. *)
smt_handle(tree, calldata) ==
    {LET after == inner_handle(tree, ctx.action)
     IN  IF after = {} THEN Err(tree) ELSE Ok(CHOOSE t \in after : TRUE, ctx)
        : ctx \in parse_calldata(calldata, "SmtTokenAction")}

(* The root and, for a blob that parses, one step. *)
smt_build_commitment_metadata(tree, blob) ==
    [commitment |-> tree,
     steps |-> IF blob.structured /\ blob.action.type = "SmtTokenAction"
               THEN <<[proof |-> tree,
                       accounts |-> [a \in Touched(blob.action) |-> get_account(tree, a)]]>>
               ELSE <<>>]

(* Mutant of smt_merge_commitment_metadata: the steps are in the order of the calls. *)
MergeAtTheEnd(initial, next) == [initial EXCEPT !.steps = Append(@, Head(next.steps))]

(* The program takes the steps from the end: the next one goes to the front. *)
smt_merge_commitment_metadata(initial, next) ==
    [initial EXCEPT !.steps = <<Head(next.steps)>> \o @]

---------------------------------------------------------------------------
(* The program: SmtTokenContract. *)
VerifiesAt(commitment, step, names) ==
    compute_root(step.proof, [a \in names |-> step.accounts[a]]) = commitment

smt_transfer_noverif(step, accounts, from, to, amount) ==
    {compute_root(step.proof, paid) : paid \in Pay(accounts, from, to, amount)}

smt_transfer(commitment, step, action) ==
    IF Touched(action) \subseteq DOMAIN step.accounts
            /\ VerifiesAt(commitment, step, Touched(action))
    THEN smt_transfer_noverif(step, step.accounts, action.sender, action.recipient, action.amount)
    ELSE {}

smt_transfer_from(step, action) ==
    LET left == AllowanceOf(step.accounts[action.owner], action.spender) - action.amount
    IN  IF Touched(action) \subseteq DOMAIN step.accounts /\ left >= 0
        THEN smt_transfer_noverif(step, [step.accounts EXCEPT
                                    ![action.owner] = update_allowances(@, action.spender, left)],
                                  action.owner, action.recipient, action.amount)
        ELSE {}

smt_approve(commitment, step, action) ==
    IF /\ action.owner \in DOMAIN step.accounts
       /\ VerifiesAt(commitment, step, {action.owner})
       /\ step.accounts[action.owner].balance # 0
    THEN {compute_root(step.proof, [step.accounts EXCEPT
                ![action.owner] = update_allowances(@, action.spender, action.amount)])}
    ELSE {}

(* A call takes its step off, whether it succeeds or not; the error only restores the root. *)
smt_execute(g, calldata) ==
    LET contexts == parse_calldata(calldata, "SmtTokenAction")
    IN  IF contexts = {} THEN Err(g)
        ELSE LET ctx == CHOOSE c \in contexts : TRUE
                 step == g.steps[Len(g.steps)]
                 popped == [g EXCEPT !.steps = Front(@)]
                 after == CASE ctx.action.op = "Transfer" ->
                                    smt_transfer(g.commitment, step, ctx.action)
                            [] ctx.action.op = "TransferFrom" ->
                                    smt_transfer_from(step, ctx.action)
                            [] ctx.action.op = "Approve" ->
                                    smt_approve(g.commitment, step, ctx.action)
             IN  IF after = {} THEN Err(popped)
                 ELSE Ok([popped EXCEPT !.commitment = CHOOSE c \in after : TRUE], ctx)
=============================================================================
