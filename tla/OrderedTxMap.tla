---------------------------- MODULE OrderedTxMap ----------------------------
(***************************************************************************)
(* The transactions waiting for settlement (OrderedTxMap): "map" gives for *)
(* each of them the proofs received for each blob that still needs one,    *)
(* "tx_order" gives for each contract the queue of the transactions that   *)
(* touch it, in sequencing order.  A contract with no queue is one whose   *)
(* queue is empty.  The order of transaction hashes is that of the numbers *)
(* that stand for them.                                                    *)
(***************************************************************************)
EXTENDS Settlement

CONSTANTS
    Txs,        \* the blob transactions that may be sequenced
    TxOf        \* their content: who sent it and its blobs

ASSUME TxsAssumption ==
    /\ Txs \subseteq Nat
    /\ \A t \in Txs : /\ TxOf[t].blobs \in Seq(Range(TxOf[t].blobs))
                      /\ \A b \in Range(TxOf[t].blobs) :
                            /\ b.contract \in Names
                            /\ b.action.kind \in {"register", "delete"} =>
                                    b.action.name \in Names

(* The contracts that a transaction with these blobs left is queued on. *)
NamesOfBlob(b) ==
    {b.contract} \cup (IF b.action.kind \in {"register", "delete"} THEN {b.action.name} ELSE {})

get_contracts_blocked_by_tx(map, t) ==
    UNION {NamesOfBlob(TxOf[t].blobs[i]) : i \in DOMAIN map[t]}

IsHead(tx_order, n, t) == tx_order[n] # <<>> /\ Head(tx_order[n]) = t

is_next_to_settle(map, tx_order, t) ==
    /\ t \in DOMAIN map
    /\ \A n \in get_contracts_blocked_by_tx(map, t) : IsHead(tx_order, n, t)

(* The heads of these contracts' queues. *)
get_next_txs(tx_order, names) == {Head(tx_order[n]) : n \in {m \in names : tx_order[m] # <<>>}}

(* The queues after t joined those of "names". *)
Enqueue(tx_order, names, t) ==
    [n \in Names |-> IF n \in names THEN Append(tx_order[n], t) ELSE tx_order[n]]

(* A queue without t, which it holds at most once. *)
Without(q, t) ==
    LET at == CHOOSE i \in 1..Len(q) : q[i] = t
    IN IF \E i \in 1..Len(q) : q[i] = t
       THEN [i \in 1..(Len(q) - 1) |-> IF i < at THEN q[i] ELSE q[i + 1]]
       ELSE q

M_Dequeue(tx_order, names, t) ==
    [n \in Names |-> IF n \in names /\ IsHead(tx_order, n, t) THEN Tail(tx_order[n])
                     ELSE tx_order[n]]

(* The queues after t left those of "names". *)
Dequeue(tx_order, names, t) ==
    [n \in Names |-> IF n \in names THEN Without(tx_order[n], t) ELSE tx_order[n]]

Unmapped(map, t) == [u \in DOMAIN map \ {t} |-> map[u]]
=============================================================================
