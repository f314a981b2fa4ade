----------------------------- MODULE MCMempool -----------------------------
(* Instances of Mempool for TLC. *)
EXTENDS Mempool

(* The first validator has half of the stake: with two, f = 1, so that it  *)
(* alone makes a PoDA of its proposals and the other may lag behind, while *)
(* the proposals of the other need its vote.                               *)
FirstHeavy == [S \in SUBSET Nodes |-> Cardinality(S) + (IF 1 \in S THEN 1 ELSE 0)]

AllTxs == {"register", "proof", "a", "b"}
Registers == {"register"}
Proofs == {"proof"}

(* Two transactions in the lane of the one, or of the other, or one each. *)
TwoScripts ==
    {<< <<"a", 1>>, <<"b", 1>> >>,
     << <<"a", 2>>, <<"b", 2>> >>,
     << <<"register", 1>>, <<"proof", 2>> >>}

Second == {2}
=============================================================================
