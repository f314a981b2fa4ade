---------------------------- MODULE MCConsensus ----------------------------
(* Small instances of Consensus. *)
EXTENDS Consensus, FiniteSets

CONSTANTS noLanes, lanesB, lanesC  \* cuts

(* The first validator has twice the stake of the others. *)
HeavyPower == [S \in SUBSET Nodes |-> Cardinality(S) + Cardinality(S \cap {1})]

NoPrefix == <<>>
OneSlot == <<lanesB>>
OneEmptySlot == <<noLanes>>

NobodyImpatient == {}
AllImpatient == Nodes \X (0..MaxSlot)
FirstAtTheEnd == {<<1, MaxSlot>>}

(* Bound: restarts and timeouts are explored apart from each other. *)
RestartsOrTimeouts == restarts = 0 \/ \A m \in msgs : m.type # "Timeout"
=============================================================================
