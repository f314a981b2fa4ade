-------------------------------- MODULE Lanes --------------------------------
(***************************************************************************)
(* The storage of the lanes of a mempool: what a node keeps of the data    *)
(* proposals of each lane, and the operations of the Storage trait.        *)
(*                                                                         *)
(* A data proposal is the sequence of the batches of transactions from the *)
(* first of its lane to its own: its prefix is its parent and equality is  *)
(* equality of (collision-free) hashes.  Every batch has size 1, so the    *)
(* size of a lane at a proposal ought to be its length; the code computes  *)
(* it from the size it has for the tip.  No proposal, and no tip, is <<>>. *)
(***************************************************************************)
EXTENDS Integers, Sequences, FiniteSetsExt

CONSTANTS
    N,          \* number of validators, all bonded
    Power       \* the stake of each set of validators

Nodes == 1..N

ASSUME LanesAssumption ==
    /\ N \in Nat \ {0}
    /\ Power \in [SUBSET Nodes -> Nat]

compute_f == Power[Nodes] \div 3

NoDp == <<>>
Parent(dp) == SubSeq(dp, 1, Len(dp) - 1)
Ancestor(dp, k) == SubSeq(dp, 1, k)

(* The numbers of a set in ascending order, and the elements of a sequence *)
(* that are at the positions of a set.                                     *)
Ascending(S) ==
    [i \in 1..Cardinality(S) |-> CHOOSE k \in S : Cardinality({j \in S : j <= k}) = i]
Keep(seq, S) == [i \in 1..Cardinality(S) |-> seq[Ascending(S)[i]]]

(* A function that is changed, or defined, at a point. *)
With(f, x, v) == [y \in DOMAIN f \cup {x} |-> IF y = x THEN v ELSE f[y]]

(* A lane: its tip and the size there, and the entries by proposal, each a *)
(* lane size and the validators whose signature of both is kept.           *)
EmptyLane == [tip |-> NoDp, size |-> 0, entries |-> <<>>]
Entry(size, sigs) == [size |-> size, sigs |-> sigs]

contains(lane, dp) == dp \in DOMAIN lane.entries

put_no_verification(lane, dp, entry) ==
    [lane EXCEPT !.entries = With(lane.entries, dp, entry)]

update_lane_tip(lane, dp, size) == [lane EXCEPT !.tip = dp, !.size = size]

(* The lane size at a proposal, 0 when it is not stored. *)
get_lane_size_at(lane, dp) == IF contains(lane, dp) THEN lane.entries[dp].size ELSE 0

(* Signatures are kept if they are for the size that is stored. *)
add_signatures(lane, dp, size, sigs) ==
    IF size = lane.entries[dp].size
    THEN put_no_verification(lane, dp, Entry(size, lane.entries[dp].sigs \cup sigs))
    ELSE lane

(* get_entries_between_hashes: the lengths of the proposals met on the way *)
(* back from one to another, this one excluded, up to the first that is    *)
(* not stored.                                                             *)
Between(lane, from, to) ==
    {k \in 1..Len(to) :
        /\ \A j \in k..Len(to) : Ancestor(to, j) # from
        /\ \A j \in (k + 1)..Len(to) : contains(lane, Ancestor(to, j))}

Missing(lane, from, to) ==
    {k \in Between(lane, from, to) : ~contains(lane, Ancestor(to, k))}

(* A car of a lane, as it is in a cut: a proposal, the lane size there and *)
(* the signers of its PoDA.                                                *)
Car(dp, size, sigs) == [dp |-> dp, size |-> size, sigs |-> sigs]
NoCar == Car(NoDp, 0, {})

(* The car to put in the next cut: from the tip back, the first proposal   *)
(* that was in the last cut or has more than f of voting power; if the     *)
(* walk meets a hole or the start of the lane, what was in the last cut.   *)
get_latest_car(lane, committed) ==
    LET found == {k \in Between(lane, NoDp, lane.tip) :
                    LET dp == Ancestor(lane.tip, k)
                    IN /\ contains(lane, dp)
                       /\ dp = committed.dp \/ Power[lane.entries[dp].sigs] >= compute_f + 1}
        dp == Ancestor(lane.tip, Max(found))
    IN IF found = {} THEN committed
       ELSE Car(dp, lane.entries[dp].size,
                IF dp = committed.dp THEN committed.sigs ELSE lane.entries[dp].sigs)

can_be_put_on_top(lane, dp) ==
    IF Parent(dp) = lane.tip THEN "Yes"
    ELSE IF dp = lane.tip THEN "AlreadyOnTop"
    ELSE IF Parent(dp) # NoDp /\ ~contains(lane, Parent(dp)) THEN "No"
    ELSE "Fork"

(* Node n signs the proposal and puts it in the lane.  One whose tip was   *)
(* moved to it by a commit is stored under the size that came with it.     *)
CanStore(lane, dp) ==
    ~contains(lane, dp) /\ can_be_put_on_top(lane, dp) \in {"Yes", "AlreadyOnTop"}

(* Mutant of store_data_proposal: counts the proposal on top once more. *)
StoreCountsTwice(n, lane, dp) ==
    update_lane_tip(put_no_verification(lane, dp, Entry(lane.size + 1, {n})), dp, lane.size + 1)

store_data_proposal(n, lane, dp) ==
    LET size == IF can_be_put_on_top(lane, dp) = "Yes" THEN lane.size + 1 ELSE lane.size
    IN update_lane_tip(put_no_verification(lane, dp, Entry(size, {n})), dp, size)

(* The tip moves to what was committed.  What was at the tip is removed    *)
(* unless it is the last or the new committed proposal.  (The loop that    *)
(* removes entries ends after the first: pop leaves the tip in place.)     *)
clean_and_update_lane(lane, last, dp, size) ==
    LET kept == DOMAIN lane.entries \ (IF lane.tip \in {last, dp} THEN {} ELSE {lane.tip})
    IN update_lane_tip([lane EXCEPT !.entries = [d \in kept |-> lane.entries[d]]], dp, size)
=============================================================================
