---------------------------- MODULE NodeStateFeed --------------------------
(***************************************************************************)
(* The blocks NodeState publishes, as those who follow one contract see    *)
(* them: its unsettled transactions, the state the contract has on chain,  *)
(* and the proofs sent to the node, any of which a later block may hold.   *)
(* What the other contracts of a transaction do is left open: it may make  *)
(* the transaction wait or fail at any time.                               *)
(*                                                                         *)
(* A state of the contract is the set of transactions that changed it.     *)
(***************************************************************************)
EXTENDS Integers, SequencesExt

CONSTANTS
    Txs,             \* hashes of the transactions that have a blob of the contract
    Needs,           \* what a transaction needs to have been applied to succeed
    Broken,          \* transactions whose execution ends in an error: no output to prove
    MaxFeedBlocks,
    MaxTxsPerBlock

ASSUME FeedAssumption ==
    /\ Needs \in [Txs -> SUBSET Txs]
    /\ Broken \subseteq Txs
    /\ MaxFeedBlocks \in Nat /\ MaxTxsPerBlock \in Nat

VARIABLES
    history,   \* the blocks published
    queue,     \* the contract's unsettled transactions
    onchain,   \* the contract's state
    proofs     \* outputs of proofs sent to the node

feedVars == <<history, queue, onchain, proofs>>

Height == Len(history)

Succeeds(state, t) == t \notin Broken /\ Needs[t] \subseteq state
Execute(state, t) == IF Succeeds(state, t) THEN state \cup {t} ELSE state

Output(state, t) == [tx |-> t, from |-> state, success |-> Succeeds(state, t)]

FeedInit ==
    /\ history = <<>>
    /\ queue = <<>>
    /\ onchain = {}
    /\ proofs = {}

Without(seq, txs) == SelectSeq(seq, LAMBDA t : t \notin txs)

(* The transactions at the head of waiting that may settle as successful: each has an   *)
(* output that starts from the state the one before leaves.                             *)
Settleable(waiting) ==
    {settled \in {SubSeq(waiting, 1, n) : n \in 0..Len(waiting)} :
        \A i \in DOMAIN settled :
            [tx |-> settled[i], success |-> TRUE,
             from |-> onchain \cup {settled[j] : j \in 1..(i - 1)}] \in proofs}

(* A block: first the transaction at the head may time out, then new ones are sequenced, *)
(* ones that wait are seen again and dropped, and some settle.  One that fails need not  *)
(* be the next to settle.  A transaction that timed out or failed may be sent again, in  *)
(* a later block; one that succeeded is not, and a duplicate does not come in the block  *)
(* where the transaction is sequenced or settled.                                        *)
NewBlock ==
    /\ Height < MaxFeedBlocks
    /\ \E timed_out \in {{}} \cup {{t} : t \in {queue[i] : i \in DOMAIN queue \cap {1}}},
          new \in {s \in SeqOf(Txs \ (ToSet(queue) \cup onchain), MaxTxsPerBlock) : IsInjective(s)} :
       \E failed \in {{}} \cup {{t} : t \in (ToSet(queue) \ timed_out) \cup ToSet(new)} :
           LET left == Without(queue \o new, timed_out \cup failed)
           IN  \E successful \in Settleable(left) :
           LET waiting == SubSeq(left, Len(successful) + 1, Len(left))
               state == onchain \cup ToSet(successful)
           IN  \E dropped_duplicate \in {{}} \cup {{t} : t \in ToSet(waiting) \ ToSet(new)} :
               /\ history' = Append(history,
                    [txs |-> new \o SetToSeq(dropped_duplicate), dropped_duplicate |-> dropped_duplicate,
                     timed_out |-> timed_out, failed |-> failed, successful |-> successful,
                     state |-> state, updated |-> successful # <<>>])
               /\ queue' = waiting
               /\ onchain' = state
               /\ UNCHANGED proofs
=============================================================================
