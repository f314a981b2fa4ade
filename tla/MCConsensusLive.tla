-------------------------- MODULE MCConsensusLive --------------------------
(* A small instance of ConsensusLive. *)
EXTENDS ConsensusLive, FiniteSets

CONSTANTS noLanes, lanesB, lanesC  \* cuts

(* The first validator has twice the stake of the others: it and any other are a quorum. *)
HeavyPower == [S \in SUBSET Nodes |-> Cardinality(S) + Cardinality(S \cap {1})]

TwoSlots == <<lanesB, lanesB>>
=============================================================================
