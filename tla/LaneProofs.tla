----------------------------- MODULE LaneProofs ----------------------------
(***************************************************************************)
(* The proposals of a lane are one chain, that of its operator.  What a    *)
(* node has of a lane, buffers, processes, prepares and builds is of that  *)
(* chain, and the handlers of the mempool keep it so: the state of one     *)
(* node, for MempoolProofs.                                                *)
(***************************************************************************)
EXTENDS Mempool, FiniteSetTheorems, SequenceTheorems, WellFoundedInduction,
        NaturalsInduction, TLAPS

Batches == Seq(Txs) \ {<<>>}
Dps == Seq(Batches) \ {NoDp}
Entries == [size : Nat, sigs : SUBSET Nodes]
Cars == [dp : Dps, size : Nat, sigs : SUBSET Nodes]
Cuts == UNION {[D -> Cars] : D \in SUBSET LaneIds}

(* d is a proposal on the chain c, or none. *)
On(c, d) == d \in Seq(Batches) /\ Len(d) <= Len(c) /\ \A i \in 1..Len(d) : d[i] = c[i]
Proposals(c) == {d \in Dps : On(c, d)}

(* The chain of a lane is what its operator has at the tip. *)
Chains == [l \in LaneIds |-> node[l].lanes[l].tip]

LaneOk(c, lane) ==
    /\ DOMAIN lane = {"tip", "size", "entries"}
    /\ On(c, lane.tip) /\ lane.size = Len(lane.tip)
    /\ \A d \in DOMAIN lane.entries : /\ d \in Proposals(c)
                                      /\ lane.entries[d] \in Entries
                                      /\ lane.entries[d].size = Len(d)

(* The operator has the whole chain, and signed it. *)
OwnLaneOk(n, c, lane) ==
    /\ lane.tip = c
    /\ \A k \in 1..Len(c) : Ancestor(c, k) \in DOMAIN lane.entries
    /\ \A d \in DOMAIN lane.entries : n \in lane.entries[d].sigs

Fields == {"lanes", "buffered", "podas", "verdicts", "tasks", "waiting", "preparing", "known",
           "last", "building", "started", "built", "todo", "replied"}

LanesOk(n, s, ch) ==
    /\ DOMAIN s.lanes = LaneIds
    /\ \A l \in LaneIds : LaneOk(ch[l], s.lanes[l])
    /\ n \in LaneIds => OwnLaneOk(n, ch[n], s.lanes[n])

Tasks(n, ch) ==
    {t \in [event : {"Hashed", "Processed"}, lane : LaneIds, dp : Dps, known : BOOLEAN] :
        t.lane # n /\ On(ch[t.lane], t.dp)}

(* What is buffered or processed is of other lanes' chains. *)
QueuesOk(n, s, ch) ==
    /\ DOMAIN s.buffered = LaneIds /\ DOMAIN s.podas = LaneIds
    /\ \A l \in LaneIds : /\ s.buffered[l] \in Seq(Proposals(ch[l]))
                          /\ s.podas[l] \subseteq [dp : Dps, entry : Entries]
    /\ s.tasks \in Seq(Tasks(n, ch))

(* What is prepared goes on top of the chain. *)
OwnOk(n, s, ch) ==
    /\ s.waiting \in Seq(Txs) /\ s.known \in BOOLEAN
    /\ s.preparing # NoDp =>
            n \in LaneIds /\ s.preparing \in Dps /\ Parent(s.preparing) = ch[n]

At(K, slot) == IF slot = 0 THEN EmptyCut ELSE K[slot]

Builds(K) == {[slot |-> k, from |-> At(K, k - 1), cut |-> K[k]] : k \in 1..Len(K)}

Interval(from, to) == {Ancestor(to, k) : k \in (Len(from) + 1)..Len(to)}

BlockOk(K, b) ==
    /\ b.slot \in 1..Len(K)
    /\ \A l \in DOMAIN K[b.slot] :
            b.dps[l] = Interval(InCut(At(K, b.slot - 1), l).dp, K[b.slot][l].dp)

(* What is noted of the commits is what was committed. *)
SlotsOk(s, K) ==
    /\ s.last.slot \in 0..Len(K) /\ s.last.cut = At(K, s.last.slot)
    /\ s.started \in 0..Len(K)
    /\ s.building \in Seq(Builds(K))
    /\ \A b \in s.built : BlockOk(K, b)

RepliesOk(n, s, ch) ==
    /\ \A d \in DOMAIN s.todo : /\ n \in LaneIds /\ d \in Proposals(ch[n])
                                /\ s.todo[d].entry \in Entries /\ s.todo[d].entry.size = Len(d)
                                /\ s.todo[d].to \subseteq Nodes \ {n}
    /\ s.replied \subseteq Dps \X Nodes

NodeOk(n, s, ch, K) ==
    /\ DOMAIN s = Fields
    /\ LanesOk(n, s, ch) /\ QueuesOk(n, s, ch) /\ OwnOk(n, s, ch)
    /\ SlotsOk(s, K) /\ RepliesOk(n, s, ch)

Message ==
    [type : {"DataProposal"}, dp : Dps]
    \cup [type : {"DataVote"}, dp : Dps, size : Nat]
    \cup [type : {"PoDAUpdate"}, dp : Dps, entry : Entries]
    \cup [type : {"SyncRequest"}, base : Seq(Batches), dp : Dps]
    \cup [type : {"SyncReply"}, dp : Dps, entry : Entries]

(* What a sends to b is about the lane of one of them. *)
MsgOk(a, b, ch, m) ==
    /\ a # b
    /\ m.type \in {"DataProposal", "PoDAUpdate", "SyncReply"} =>
            a \in LaneIds /\ On(ch[a], m.dp)
    /\ m.type \in {"DataVote", "SyncRequest"} => b \in LaneIds /\ On(ch[b], m.dp)
    /\ m.type = "SyncReply" => m.entry.size = Len(m.dp)

Link(a, b, ch) == {m \in Message : MsgOk(a, b, ch, m)}
Outs(n, ch) == {o \in [to : SUBSET Nodes, msg : Message] : \A b \in o.to : MsgOk(n, b, ch, o.msg)}
ResultOk(n, r, ch, K) == NodeOk(n, r.s, ch, K) /\ r.out \in Seq(Outs(n, ch))

(* The cuts are of the chains, and each contains the one before. *)
CutOk(ch, cut) ==
    \A l \in DOMAIN cut : On(ch[l], cut[l].dp) /\ cut[l].size = Len(cut[l].dp)
CutsOk(ch, K) ==
    /\ K \in Seq(Cuts)
    /\ \A i \in 1..Len(K) :
        /\ CutOk(ch, K[i])
        /\ \A l \in DOMAIN At(K, i - 1) :
                l \in DOMAIN K[i] /\ Len(At(K, i - 1)[l].dp) <= Len(K[i][l].dp)

MempoolInv ==
    /\ DOMAIN node = Nodes /\ \A n \in Nodes : NodeOk(n, node[n], Chains, committed)
    /\ DOMAIN net = Nodes \X Nodes
    /\ \A a, b \in Nodes : net[<<a, b>>] \in Seq(Link(a, b, Chains))
    /\ CutsOk(Chains, committed) /\ Len(committed) <= MaxSlot
    /\ clients \in Seq(Txs \X LaneIds)

---------------------------------------------------------------------------
(* Numbers and sequences. *)

(* A non-empty set of natural numbers has a least element. *)
LEMMA SmallestOf ==
    ASSUME NEW S \in SUBSET Nat, S # {}
    PROVE  \E m \in S : \A n \in S : m <= n
<1> DEFINE R == OpToRel(<, Nat)
<1>1. IsWellFoundedOn(R, Nat)
  BY Zenon, NatLessThanWellFounded
<1>2. \A i, j \in Nat : i < j => <<i, j>> \in R
  BY Zenon DEF OpToRel
<1> HIDE DEF R
<1>3. PICK m \in S : \A n \in S : <<n, m>> \notin R
  BY Zenon, <1>1, WFMin
<1>4. ASSUME NEW n \in S PROVE m <= n
  <2>1. n \in Nat /\ m \in Nat /\ ~(n < m)
    BY Zenon, <1>2, <1>3
  <2> QED
    BY <2>1
<1> QED
  BY Zenon, <1>3, <1>4

(* A non-empty set of positions has a greatest one. *)
LEMMA LargestOf ==
    ASSUME NEW n \in Nat, NEW S \in SUBSET (1..n), S # {}
    PROVE  Max(S) \in S /\ \A k \in S : k <= Max(S)
<1> DEFINE T == {n - k : k \in S}
<1>1. T \in SUBSET Nat /\ T # {}
  <2>1. \A k \in S : k \in 1..n /\ n - k \in Nat
    OBVIOUS
  <2>2. PICK k \in S : TRUE
    BY Zenon
  <2>3. n - k \in T
    BY Zenon, <2>2
  <2> QED
    BY Zenon, <2>1, <2>3
<1>2. PICK t \in T : \A u \in T : t <= u
  BY Zenon, <1>1, SmallestOf
<1>3. PICK m \in S : t = n - m
  BY Zenon, <1>2
<1>4. \A k \in S : m >= k
  BY <1>2, <1>3
<1>5. Max(S) \in S /\ \A k \in S : Max(S) >= k
  BY Zenon, <1>4 DEF Max
<1> QED
  BY Zenon, <1>5

(* The least of a non-empty set of numbers is one of them. *)
LEMMA MinIn ==
    ASSUME NEW S \in SUBSET Nat, S # {}
    PROVE  Min(S) \in S
<1>1. PICK m \in S : \A k \in S : m =< k
  BY Zenon, SmallestOf
<1> QED
  BY Zenon, <1>1 DEF Min

(* A set of positions is finite. *)
LEMMA FinitePositions ==
    ASSUME NEW n \in Nat, NEW S \in SUBSET (1..n)
    PROVE  IsFiniteSet(S) /\ Cardinality(S) \in Nat
<1>1. IsFiniteSet(1..n)
  BY FS_Interval
<1>2. IsFiniteSet(S)
  BY Zenon, <1>1, FS_Subset
<1> QED
  BY Zenon, <1>2, FS_CardinalityType

(* Every rank up to its cardinality is that of a number of the set. *)
Ranked(S) == \A i \in 1..Cardinality(S) : \E k \in S : Cardinality({j \in S : j <= k}) = i

(* A set of positions can be listed in ascending order. *)
LEMMA RankExists ==
    ASSUME NEW n \in Nat, NEW S \in SUBSET (1..n)
    PROVE  Ranked(S)
<1> DEFINE Bad == {c \in Nat : \E T \in SUBSET (1..n) : Cardinality(T) = c /\ ~Ranked(T)}
<1> SUFFICES ASSUME ~Ranked(S) PROVE FALSE
  BY Zenon
<1>1. \A T \in SUBSET (1..n) : IsFiniteSet(T) /\ Cardinality(T) \in Nat
  BY Zenon, FinitePositions
<1>2. Bad \in SUBSET Nat /\ Bad # {}
  BY Zenon, <1>1
<1>3. PICK c \in Bad : \A d \in Bad : c <= d
  BY Zenon, <1>2, SmallestOf
<1>4. PICK T \in SUBSET (1..n) : Cardinality(T) = c /\ ~Ranked(T)
  BY Zenon, <1>3
<1> HIDE DEF Bad
<1>5. T # {}
  BY <1>4, FS_EmptySet DEF Ranked
<1> DEFINE m == Max(T)
           U == T \ {m}
<1>6. m \in T /\ \A k \in T : k <= m
  BY Zenon, <1>5, LargestOf
<1> HIDE DEF m
<1>7. U \in SUBSET (1..n) /\ Cardinality(U) = c - 1 /\ c \in Nat /\ c > 0
  BY <1>1, <1>4, <1>6, FS_RemoveElement, FS_EmptySet, <1>5, FS_CardinalityType
<1>8. Ranked(U)
  <2>1. c - 1 \notin Bad
    BY <1>3, <1>7
  <2> QED
    BY <1>7, <2>1 DEF Bad
<1>9. ASSUME NEW i \in 1..c PROVE \E k \in T : Cardinality({j \in T : j <= k}) = i
  <2>1. CASE i = c
    <3>1. {j \in T : j <= m} = T
      BY Zenon, <1>6
    <3> QED
      BY Zenon, <1>4, <1>6, <2>1, <3>1
  <2>2. CASE i # c
    <3>1. i \in 1..(c - 1)
      BY <1>7, <2>2
    <3>2. PICK k \in U : Cardinality({j \in U : j <= k}) = i
      BY Zenon, <1>7, <1>8, <3>1 DEF Ranked
    <3>3. k < m
      BY <1>6, <3>2
    <3>4. {j \in T : j <= k} = {j \in U : j <= k}
      BY <1>6, <3>3
    <3> QED
      BY Zenon, <3>2, <3>4
  <2> QED
    BY Zenon, <2>1, <2>2
<1> QED
  BY Zenon, <1>4, <1>9 DEF Ranked

(* Ascending lists members of the set. *)
LEMMA AscendingIn ==
    ASSUME NEW n \in Nat, NEW S \in SUBSET (1..n)
    PROVE  Ascending(S) \in Seq(S) /\ Cardinality(S) \in Nat /\ Len(Ascending(S)) = Cardinality(S)
<1> DEFINE c == Cardinality(S)
           f == [i \in 1..c |-> CHOOSE k \in S : Cardinality({j \in S : j <= k}) = i]
<1>1. c \in Nat
  BY Zenon, FinitePositions
<1>2. \A i \in 1..c : (CHOOSE k \in S : Cardinality({j \in S : j <= k}) = i) \in S
  BY Zenon, RankExists DEF Ranked
<1> HIDE DEF c
<1>3. f \in [1..c -> S]
  BY Zenon, <1>2
<1> HIDE DEF f
<1>4. f \in Seq(S) /\ Len(f) = c
  BY <1>1, <1>3
<1> QED
  BY Zenon, <1>1, <1>4 DEF Ascending, f, c

(* Keep lists elements of the sequence, those at the positions kept. *)
LEMMA KeepIn ==
    ASSUME NEW X, NEW seq \in Seq(X), NEW S \in SUBSET (1..Len(seq)),
           NEW Y, \A i \in S : seq[i] \in Y
    PROVE  Keep(seq, S) \in Seq(Y)
<1> DEFINE c == Cardinality(S)
           f == [i \in 1..c |-> seq[Ascending(S)[i]]]
<1>1. Len(seq) \in Nat
  OBVIOUS
<1>2. c \in Nat /\ Ascending(S) \in Seq(S) /\ Len(Ascending(S)) = c
  BY Zenon, <1>1, AscendingIn
<1>3. \A i \in 1..c : Ascending(S)[i] \in S
  BY <1>2
<1> HIDE DEF c
<1>4. f \in [1..c -> Y]
  BY Zenon, <1>3
<1>5. f \in Seq(Y)
  BY <1>2, <1>4
<1> QED
  BY Zenon, <1>5 DEF Keep, c

---------------------------------------------------------------------------
(* Chains. *)

(* The tip of a chain is on it, *)
LEMMA OnSelf ==
    ASSUME NEW c \in Seq(Batches)
    PROVE  On(c, c)
  BY DEF On

(* and so is no proposal at all. *)
LEMMA OnNone ==
    ASSUME NEW c \in Seq(Batches)
    PROVE  On(c, NoDp)
  BY DEF On, NoDp

(* The ancestors of a proposal are on its chain, *)
LEMMA OnAncestor ==
    ASSUME NEW c \in Seq(Batches), NEW d, On(c, d), NEW k \in 1..Len(d)
    PROVE  /\ On(c, Ancestor(d, k)) /\ Len(Ancestor(d, k)) = k
           /\ Ancestor(d, k) \in Proposals(c)
<1>1. d \in Seq(Batches) /\ Len(d) \in Nat /\ k \in Nat /\ k <= Len(d)
  BY DEF On
<1>2. /\ Ancestor(d, k) \in Seq(Batches) /\ Len(Ancestor(d, k)) = k
      /\ \A i \in 1..k : Ancestor(d, k)[i] = d[i]
  BY <1>1 DEF Ancestor
<1>3. Ancestor(d, k) # NoDp
  BY <1>2 DEF NoDp
<1>4. On(c, Ancestor(d, k))
  BY <1>1, <1>2 DEF On
<1> QED
  BY Zenon, <1>2, <1>3, <1>4 DEF Proposals, Dps

(* its parent included. *)
LEMMA OnParent ==
    ASSUME NEW c \in Seq(Batches), NEW d \in Proposals(c)
    PROVE  /\ d \in Dps /\ On(c, d) /\ Len(d) \in Nat /\ Len(d) > 0
           /\ On(c, Parent(d)) /\ Len(Parent(d)) = Len(d) - 1
<1>1. d \in Seq(Batches) /\ d # <<>> /\ Len(d) \in Nat /\ Len(d) > 0 /\ On(c, d)
  BY DEF Proposals, Dps, NoDp, On
<1> DEFINE k == Len(d) - 1
           p == SubSeq(d, 1, k)
<1>2. k \in Nat /\ k <= Len(d)
  BY <1>1
<1> HIDE DEF k
<1>3. p \in Seq(Batches) /\ Len(p) = k /\ \A i \in 1..k : p[i] = d[i]
  BY <1>1, <1>2
<1> HIDE DEF p
<1>4. On(c, p)
  BY <1>1, <1>2, <1>3 DEF On
<1> QED
  BY Zenon, <1>1, <1>3, <1>4 DEF k, p, Parent, Proposals

(* Of two proposals of a chain the shorter one is an ancestor of the longer one. *)
LEMMA OnPrefix ==
    ASSUME NEW c \in Seq(Batches), NEW d, NEW e, On(c, d), On(c, e), Len(d) <= Len(e)
    PROVE  d = SubSeq(e, 1, Len(d)) /\ IsPrefix(d, e)
<1>1. d \in Seq(Batches) /\ e \in Seq(Batches) /\ Len(d) \in Nat /\ Len(e) \in Nat
  BY DEF On
<1> DEFINE p == SubSeq(e, 1, Len(d))
           q == SubSeq(d, 1, Len(d))
<1>2. p \in Seq(Batches) /\ Len(p) = Len(d) /\ \A i \in 1..Len(d) : p[i] = e[i]
  BY <1>1
<1>3. q \in Seq(Batches) /\ Len(q) = Len(d) /\ \A i \in 1..Len(d) : q[i] = d[i]
  BY <1>1
<1> HIDE DEF p, q
<1>4. \A i \in 1..Len(d) : p[i] = d[i]
  BY <1>1, <1>2 DEF On
<1>5. p = d
  BY Zenon, <1>1, <1>2, <1>4, SeqEqual
<1>6. q = d
  BY Zenon, <1>1, <1>3, SeqEqual
<1> QED
  BY Zenon, <1>5, <1>6 DEF p, q, IsPrefix

(* A chain has one proposal at each height. *)
LEMMA OnEqual ==
    ASSUME NEW c \in Seq(Batches), NEW d, NEW e, On(c, d), On(c, e), Len(d) = Len(e)
    PROVE  d = e
<1>1. d \in Seq(Batches) /\ e \in Seq(Batches) /\ Len(d) \in Nat
  BY DEF On
<1>2. \A i \in 1..Len(d) : d[i] = e[i]
  BY Zenon, <1>1 DEF On
<1> QED
  BY Zenon, <1>1, <1>2, SeqEqual

(* What is on a chain stays on it when the chain grows. *)
LEMMA OnGrown ==
    ASSUME NEW c \in Seq(Batches), NEW g \in Seq(Batches), On(g, c), NEW d, On(c, d)
    PROVE  On(g, d)
  BY DEF On

---------------------------------------------------------------------------
(* Lanes. *)

(* What With changes. *)
LEMMA WithFacts ==
    ASSUME NEW f, NEW x, NEW v
    PROVE  /\ DOMAIN With(f, x, v) = DOMAIN f \cup {x}
           /\ With(f, x, v)[x] = v
           /\ \A y \in DOMAIN f : y # x => With(f, x, v)[y] = f[y]
  BY Zenon DEF With

(* put_no_verification changes the entries only, *)
LEMMA PutFacts ==
    ASSUME NEW lane, DOMAIN lane = {"tip", "size", "entries"}, NEW dp, NEW e
    PROVE  LET r == put_no_verification(lane, dp, e)
           IN  /\ DOMAIN r = {"tip", "size", "entries"}
               /\ r.tip = lane.tip /\ r.size = lane.size
               /\ r.entries = With(lane.entries, dp, e)
  BY Zenon DEF put_no_verification

(* and update_lane_tip everything else. *)
LEMMA TipFacts ==
    ASSUME NEW lane, DOMAIN lane = {"tip", "size", "entries"}, NEW dp, NEW size
    PROVE  LET r == update_lane_tip(lane, dp, size)
           IN  /\ DOMAIN r = {"tip", "size", "entries"}
               /\ r.tip = dp /\ r.size = size /\ r.entries = lane.entries
  BY Zenon DEF update_lane_tip

(* A lane that stores a proposal of the chain. *)
LEMMA PutOk ==
    ASSUME NEW c \in Seq(Batches), NEW lane, LaneOk(c, lane),
           NEW dp \in Proposals(c), NEW e \in Entries, e.size = Len(dp)
    PROVE  LaneOk(c, put_no_verification(lane, dp, e))
<1> DEFINE r == put_no_verification(lane, dp, e)
           es == With(lane.entries, dp, e)
<1>1. DOMAIN lane = {"tip", "size", "entries"}
  BY Zenon DEF LaneOk
<1>2. /\ DOMAIN r = {"tip", "size", "entries"}
      /\ r.tip = lane.tip /\ r.size = lane.size /\ r.entries = es
  BY Zenon, <1>1, PutFacts
<1>3. /\ DOMAIN es = DOMAIN lane.entries \cup {dp} /\ es[dp] = e
      /\ \A y \in DOMAIN lane.entries : y # dp => es[y] = lane.entries[y]
  BY Zenon DEF With
<1> HIDE DEF r, es
<1>4. \A d \in DOMAIN es : d \in Proposals(c) /\ es[d] \in Entries /\ es[d].size = Len(d)
  BY Zenon, <1>3 DEF LaneOk
<1>5. LaneOk(c, r)
  BY Zenon, <1>2, <1>4 DEF LaneOk
<1> QED
  BY Zenon, <1>5 DEF r

(* A lane whose tip moves on the chain. *)
LEMMA TipOk ==
    ASSUME NEW c \in Seq(Batches), NEW lane, LaneOk(c, lane), NEW dp, On(c, dp)
    PROVE  LaneOk(c, update_lane_tip(lane, dp, Len(dp)))
<1> DEFINE r == update_lane_tip(lane, dp, Len(dp))
<1>1. DOMAIN lane = {"tip", "size", "entries"}
  BY Zenon DEF LaneOk
<1>2. /\ DOMAIN r = {"tip", "size", "entries"}
      /\ r.tip = dp /\ r.size = Len(dp) /\ r.entries = lane.entries
  BY <1>1, TipFacts
<1> HIDE DEF r
<1>3. LaneOk(c, r)
  BY Zenon, <1>2 DEF LaneOk
<1> QED
  BY Zenon, <1>3 DEF r

(* Signatures that are added keep the lane, and what was signed stays signed. *)
SameButSigs(lane, r) ==
    /\ r.tip = lane.tip /\ DOMAIN r.entries = DOMAIN lane.entries
    /\ \A d \in DOMAIN lane.entries : lane.entries[d].sigs \subseteq r.entries[d].sigs

(* add_signatures changes signatures only. *)
LEMMA AddOk ==
    ASSUME NEW c \in Seq(Batches), NEW lane, LaneOk(c, lane),
           NEW dp, contains(lane, dp), NEW size, NEW sigs \in SUBSET Nodes
    PROVE  /\ LaneOk(c, add_signatures(lane, dp, size, sigs))
           /\ SameButSigs(lane, add_signatures(lane, dp, size, sigs))
<1> DEFINE r == add_signatures(lane, dp, size, sigs)
<1>1. /\ dp \in DOMAIN lane.entries /\ dp \in Proposals(c)
      /\ lane.entries[dp] \in Entries /\ lane.entries[dp].size = Len(dp)
      /\ DOMAIN lane = {"tip", "size", "entries"}
  BY Zenon DEF contains, LaneOk
<1>2. CASE size # lane.entries[dp].size
  <2>1. r = lane
    BY Zenon, <1>2 DEF add_signatures
  <2> HIDE DEF r
  <2>2. LaneOk(c, r) /\ SameButSigs(lane, r)
    BY Zenon, <2>1 DEF SameButSigs
  <2> QED
    BY Zenon, <2>2 DEF r
<1>3. CASE size = lane.entries[dp].size
  <2> DEFINE e == Entry(size, lane.entries[dp].sigs \cup sigs)
             es == With(lane.entries, dp, e)
  <2>1. r = put_no_verification(lane, dp, e)
    BY Zenon, <1>3 DEF add_signatures
  <2>2. /\ e \in Entries /\ e.size = Len(dp) /\ lane.entries[dp].sigs \subseteq e.sigs
    BY Zenon, <1>1, <1>3 DEF Entries, Entry
  <2> HIDE DEF e
  <2>3. LaneOk(c, put_no_verification(lane, dp, e))
    BY Zenon, <1>1, <2>2, PutOk
  <2>4. r.tip = lane.tip /\ r.entries = es
    BY <1>1, <2>1, PutFacts
  <2>5. /\ DOMAIN es = DOMAIN lane.entries \cup {dp} /\ es[dp] = e
        /\ \A y \in DOMAIN lane.entries : y # dp => es[y] = lane.entries[y]
    BY Zenon DEF With
  <2> HIDE DEF es, r
  <2>6. SameButSigs(lane, r)
    BY Zenon, <1>1, <2>2, <2>4, <2>5 DEF SameButSigs
  <2> QED
    BY Zenon, <2>1, <2>3, <2>6 DEF r
<1> QED
  BY Zenon, <1>2, <1>3

(* A proposal that is stored counts once, whether it comes on top or was overtaken by its commit. *)
Stored(n, lane, dp, r) ==
    /\ r.tip = dp
    /\ DOMAIN r.entries = DOMAIN lane.entries \cup {dp}
    /\ r.entries[dp] = Entry(Len(dp), {n})
    /\ \A d \in DOMAIN lane.entries : d # dp => r.entries[d] = lane.entries[d]

(* store_data_proposal, by a node that signs what it stores. *)
LEMMA StoreOk ==
    ASSUME NEW c \in Seq(Batches), NEW lane, LaneOk(c, lane), NEW n \in Nodes,
           NEW dp \in Proposals(c), CanStore(lane, dp)
    PROVE  /\ LaneOk(c, store_data_proposal(n, lane, dp))
           /\ Stored(n, lane, dp, store_data_proposal(n, lane, dp))
<1> DEFINE size == IF can_be_put_on_top(lane, dp) = "Yes" THEN lane.size + 1 ELSE lane.size
           e == Entry(size, {n})
           p == put_no_verification(lane, dp, e)
           r == update_lane_tip(p, dp, size)
           es == With(lane.entries, dp, e)
<1>1. /\ DOMAIN lane = {"tip", "size", "entries"} /\ On(c, lane.tip)
      /\ lane.size = Len(lane.tip) /\ Len(lane.tip) \in Nat
  BY DEF LaneOk, On
<1>2. /\ On(c, dp) /\ Len(dp) \in Nat /\ Len(Parent(dp)) = Len(dp) - 1
  BY Zenon, OnParent
<1>3. size = Len(dp)
  <2>1. CASE Parent(dp) = lane.tip
    BY <1>1, <1>2, <2>1 DEF can_be_put_on_top
  <2>2. CASE Parent(dp) # lane.tip
    <3>1. dp = lane.tip
      BY Zenon, <2>2 DEF CanStore, can_be_put_on_top
    <3> QED
      BY Zenon, <1>1, <2>2, <3>1 DEF can_be_put_on_top
  <2> QED
    BY Zenon, <2>1, <2>2
<1>4. store_data_proposal(n, lane, dp) = r
  BY Zenon DEF store_data_proposal
<1> HIDE DEF size
<1>5. e \in Entries /\ e.size = Len(dp)
  BY Zenon, <1>2, <1>3 DEF Entry, Entries
<1>6. e = Entry(Len(dp), {n})
  BY Zenon, <1>3
<1> HIDE DEF e
<1>7. LaneOk(c, p)
  BY Zenon, <1>5, PutOk
<1>8. /\ DOMAIN p = {"tip", "size", "entries"} /\ p.entries = es
  BY Zenon, <1>1, PutFacts
<1> HIDE DEF p
<1>9. LaneOk(c, update_lane_tip(p, dp, Len(dp)))
  BY Zenon, <1>2, <1>7, TipOk
<1>10. r.tip = dp /\ r.entries = es
  BY <1>8, TipFacts
<1>11. /\ DOMAIN es = DOMAIN lane.entries \cup {dp} /\ es[dp] = e
       /\ \A y \in DOMAIN lane.entries : y # dp => es[y] = lane.entries[y]
  BY Zenon DEF With
<1>12. LaneOk(c, r)
  BY Zenon, <1>3, <1>9
<1> HIDE DEF r, es
<1>13. Stored(n, lane, dp, r)
  BY Zenon, <1>6, <1>10, <1>11 DEF Stored
<1> QED
  BY Zenon, <1>4, <1>12, <1>13

(* A lane whose tip moves to a commit. *)
LEMMA CleanOk ==
    ASSUME NEW c \in Seq(Batches), NEW lane, LaneOk(c, lane), NEW last,
           NEW dp, On(c, dp)
    PROVE  LaneOk(c, clean_and_update_lane(lane, last, dp, Len(dp)))
<1> DEFINE kept == DOMAIN lane.entries \ (IF lane.tip \in {last, dp} THEN {} ELSE {lane.tip})
           es == [d \in kept |-> lane.entries[d]]
           p == [lane EXCEPT !.entries = es]
<1>1. DOMAIN lane = {"tip", "size", "entries"}
  BY Zenon DEF LaneOk
<1>2. kept \subseteq DOMAIN lane.entries
  BY Zenon
<1> HIDE DEF kept
<1>3. \A d \in DOMAIN es : d \in Proposals(c) /\ es[d] \in Entries /\ es[d].size = Len(d)
  BY Zenon, <1>2 DEF LaneOk
<1> HIDE DEF es
<1>4. DOMAIN p = {"tip", "size", "entries"} /\ p.tip = lane.tip /\ p.size = lane.size /\ p.entries = es
  BY Zenon, <1>1
<1> HIDE DEF p
<1>5. LaneOk(c, p)
  BY Zenon, <1>3, <1>4 DEF LaneOk
<1>6. LaneOk(c, update_lane_tip(p, dp, Len(dp)))
  BY Zenon, <1>5, TipOk
<1> QED
  BY Zenon, <1>6 DEF clean_and_update_lane, p, es, kept

(* The walk back meets ancestors. *)
LEMMA BetweenIn ==
    ASSUME NEW lane, NEW from, NEW to
    PROVE  Between(lane, from, to) \subseteq 1..Len(to) /\ Missing(lane, from, to) \subseteq 1..Len(to)
  BY Zenon DEF Between, Missing

(* Without a hole it meets all proposals of the interval. *)
LEMMA BetweenIsInterval ==
    ASSUME NEW c \in Seq(Batches), NEW lane, NEW from, NEW to, On(c, from), On(c, to),
           Len(from) <= Len(to), Missing(lane, from, to) = {}
    PROVE  Between(lane, from, to) = (Len(from) + 1)..Len(to)
<1> DEFINE a == Len(from)
           b == Len(to)
           Span == (a + 1)..b
           Holes == {k \in Span : ~contains(lane, Ancestor(to, k))}
<1>1. from \in Seq(Batches) /\ to \in Seq(Batches) /\ a \in Nat /\ b \in Nat /\ a <= b
  BY DEF On
<1>2. Ancestor(to, a) = from
  BY Zenon, OnPrefix DEF Ancestor
<1>3. \A j \in Span : Ancestor(to, j) # from
  <2> TAKE j \in Span
  <2>1. j \in 1..Len(to) /\ j # a
    BY <1>1
  <2>2. Len(Ancestor(to, j)) = j
    BY Zenon, <2>1, OnAncestor
  <2> QED
    BY Zenon, <2>1, <2>2
<1> HIDE DEF a, b
<1>4. ASSUME NEW k \in Span PROVE k \in 1..b /\ \A j \in k..b : j \in Span
  BY <1>1
<1>5. Holes = {}
  <2> SUFFICES ASSUME Holes # {} PROVE FALSE
    BY Zenon
  <2> DEFINE k == Max(Holes)
  <2>1. Holes \in SUBSET (1..b)
    BY Zenon, <1>4
  <2>2. k \in Holes /\ \A j \in Holes : j <= k
    BY Zenon, <1>1, <2>1, LargestOf
  <2> HIDE DEF k
  <2>3. ASSUME NEW j \in (k + 1)..b PROVE contains(lane, Ancestor(to, j))
    <3>1. j \in Span /\ ~(j <= k)
      BY <1>1, <2>2
    <3> QED
      BY Zenon, <2>2, <3>1
  <2>4. k \in Between(lane, from, to)
    BY Zenon, <1>3, <1>4, <2>2, <2>3 DEF Between, b
  <2> QED
    BY Zenon, <2>2, <2>4 DEF Missing
<1>6. ASSUME NEW k \in Span PROVE k \in Between(lane, from, to)
  <2>1. \A j \in (k + 1)..b : j \in Span
    BY <1>1
  <2>2. \A j \in (k + 1)..b : contains(lane, Ancestor(to, j))
    BY Zenon, <1>5, <2>1
  <2> QED
    BY Zenon, <1>3, <1>4, <2>2 DEF Between, b
<1>7. ASSUME NEW k \in Between(lane, from, to) PROVE k \in Span
  <2>1. k \in 1..b /\ \A j \in k..b : Ancestor(to, j) # from
    BY Zenon DEF Between, b
  <2>2. ~(k <= a)
    BY <1>1, <1>2, <2>1
  <2> QED
    BY <1>1, <2>1, <2>2
<1> QED
  BY Zenon, <1>6, <1>7 DEF a, b

---------------------------------------------------------------------------
(* Cuts. *)

CarOk(c, car) == car \in Cars /\ On(c, car.dp) /\ car.size = Len(car.dp)

(* The cars of a committed cut are proposals of the chains, *)
LEMMA CutFacts ==
    ASSUME NEW ch \in [LaneIds -> Seq(Batches)], NEW K, CutsOk(ch, K), NEW k \in 1..Len(K)
    PROVE  /\ K[k] \in Cuts /\ DOMAIN K[k] \subseteq LaneIds
           /\ \A l \in DOMAIN K[k] : CarOk(ch[l], K[k][l]) /\ K[k][l].dp \in Proposals(ch[l])
<1>1. K[k] \in Cuts
  BY DEF CutsOk
<1>2. PICK D \in SUBSET LaneIds : K[k] \in [D -> Cars]
  BY Zenon, <1>1 DEF Cuts
<1>3. DOMAIN K[k] = D
  BY Zenon, <1>2
<1>4. ASSUME NEW l \in D PROVE CarOk(ch[l], K[k][l]) /\ K[k][l].dp \in Proposals(ch[l])
  <2>1. K[k][l] \in Cars
    BY Zenon, <1>2
  <2>2. On(ch[l], K[k][l].dp) /\ K[k][l].size = Len(K[k][l].dp)
    BY Zenon, <1>3 DEF CutsOk, CutOk
  <2>3. K[k][l].dp \in Dps
    BY Zenon, <2>1 DEF Cars
  <2> QED
    BY Zenon, <2>1, <2>2, <2>3 DEF CarOk, Proposals
<1> QED
  BY Zenon, <1>1, <1>3, <1>4

(* and so are those of the cut at any slot, the empty one before the first included. *)
LEMMA InCutFacts ==
    ASSUME NEW ch \in [LaneIds -> Seq(Batches)], NEW K, CutsOk(ch, K), NEW k \in 0..Len(K),
           NEW l \in LaneIds
    PROVE  /\ On(ch[l], InCut(At(K, k), l).dp)
           /\ InCut(At(K, k), l) = NoCar \/ CarOk(ch[l], InCut(At(K, k), l))
<1>1. CASE InCut(At(K, k), l) = NoCar
  <2>1. NoCar.dp = NoDp
    BY Zenon DEF NoCar, Car
  <2>2. ch[l] \in Seq(Batches)
    BY Zenon
  <2> QED
    BY Zenon, <1>1, <2>1, <2>2, OnNone
<1>2. CASE InCut(At(K, k), l) # NoCar
  <2>1. l \in DOMAIN At(K, k) /\ InCut(At(K, k), l) = At(K, k)[l]
    BY Zenon, <1>2 DEF InCut
  <2>2. Len(K) \in Nat
    BY DEF CutsOk
  <2>3. k # 0
    <3> SUFFICES ASSUME k = 0 PROVE FALSE
      BY Zenon
    <3>1. At(K, k) = <<>>
      BY Zenon DEF At, EmptyCut
    <3> QED
      BY <2>1, <3>1
  <2>4. k \in 1..Len(K) /\ At(K, k) = K[k]
    BY <2>2, <2>3 DEF At
  <2>5. CarOk(ch[l], K[k][l])
    BY Zenon, <2>1, <2>4, CutFacts
  <2> QED
    BY Zenon, <2>1, <2>4, <2>5 DEF CarOk
<1> QED
  BY Zenon, <1>1, <1>2

(* From one cut to the next a lane only grows. *)
LEMMA CutGrows ==
    ASSUME NEW ch \in [LaneIds -> Seq(Batches)], NEW K, CutsOk(ch, K), NEW k \in 1..Len(K),
           NEW l \in DOMAIN K[k]
    PROVE  Len(InCut(At(K, k - 1), l).dp) <= Len(K[k][l].dp)
<1>1. CarOk(ch[l], K[k][l])
  BY Zenon, CutFacts
<1>2. Len(K[k][l].dp) \in Nat
  BY <1>1 DEF CarOk, On
<1>3. CASE l \in DOMAIN At(K, k - 1)
  BY Zenon, <1>3 DEF CutsOk, InCut
<1>4. CASE l \notin DOMAIN At(K, k - 1)
  <2>1. Len(InCut(At(K, k - 1), l).dp) = 0
    BY Zenon, <1>4 DEF InCut, NoCar, Car, NoDp
  <2> QED
    BY <1>2, <2>1
<1> QED
  BY Zenon, <1>3, <1>4

(* The car that get_latest_car gives is of the chain. *)
LEMMA LatestCarOk ==
    ASSUME NEW c \in Seq(Batches), NEW lane, LaneOk(c, lane),
           NEW car, car = NoCar \/ CarOk(c, car), get_latest_car(lane, car) # NoCar
    PROVE  CarOk(c, get_latest_car(lane, car))
<1> DEFINE found == {k \in Between(lane, NoDp, lane.tip) :
                        LET dp == Ancestor(lane.tip, k)
                        IN /\ contains(lane, dp)
                           /\ dp = car.dp \/ Power[lane.entries[dp].sigs] >= compute_f + 1}
           dp == Ancestor(lane.tip, Max(found))
           sigs == IF dp = car.dp THEN car.sigs ELSE lane.entries[dp].sigs
<1>1. CASE found = {}
  <2>1. get_latest_car(lane, car) = car
    BY Zenon, <1>1 DEF get_latest_car
  <2> QED
    BY Zenon, <2>1
<1>2. CASE found # {}
  <2>1. get_latest_car(lane, car) = Car(dp, lane.entries[dp].size, sigs)
    BY Zenon, <1>2 DEF get_latest_car
  <2>2. On(c, lane.tip) /\ Len(lane.tip) \in Nat
    BY DEF LaneOk, On
  <2>3. found \in SUBSET (1..Len(lane.tip)) /\ \A k \in found : contains(lane, Ancestor(lane.tip, k))
    BY Zenon, BetweenIn
  <2> HIDE DEF found
  <2>4. Max(found) \in found
    BY Zenon, <1>2, <2>2, <2>3, LargestOf
  <2>5. dp \in Proposals(c) /\ contains(lane, dp)
    BY Zenon, <2>2, <2>3, <2>4, OnAncestor
  <2> HIDE DEF dp
  <2>6. /\ lane.entries[dp] \in Entries /\ lane.entries[dp].size = Len(dp)
        /\ dp \in Dps /\ On(c, dp)
    BY Zenon, <2>5 DEF LaneOk, contains, Proposals
  <2>7. sigs \in SUBSET Nodes
    <3>1. CASE dp = car.dp
      <4>1. car # NoCar
        BY <2>6, <3>1 DEF NoCar, Car, Dps
      <4> QED
        BY Zenon, <3>1, <4>1 DEF CarOk, Cars
    <3>2. CASE dp # car.dp
      BY Zenon, <2>6, <3>2 DEF Entries
    <3> QED
      BY Zenon, <3>1, <3>2
  <2> HIDE DEF sigs
  <2> DEFINE g == Car(dp, lane.entries[dp].size, sigs)
  <2>8. g \in Cars /\ g.dp = dp /\ g.size = lane.entries[dp].size
    BY Zenon, <2>6, <2>7 DEF Car, Cars, Entries
  <2> HIDE DEF g
  <2>9. CarOk(c, g)
    BY Zenon, <2>6, <2>8 DEF CarOk
  <2> QED
    BY Zenon, <2>1, <2>9 DEF g
<1> QED
  BY Zenon, <1>1, <1>2

(* The cut that a leader proposes is made of proposals of the chains. *)
LEMMA NewCutOk ==
    ASSUME NEW ch \in [LaneIds -> Seq(Batches)], NEW K, CutsOk(ch, K), NEW n, NEW s,
           LanesOk(n, s, ch), SlotsOk(s, K)
    PROVE  handle_querynewcut(s) \in Cuts /\ CutOk(ch, handle_querynewcut(s))
<1> DEFINE D == {k \in LaneIds : /\ s.lanes[k].tip # NoDp
                                 /\ get_latest_car(s.lanes[k], InCut(s.last.cut, k)) # NoCar}
           cut == [l \in D |-> get_latest_car(s.lanes[l], InCut(s.last.cut, l))]
<1>1. ASSUME NEW l \in D PROVE CarOk(ch[l], cut[l])
  <2>1. l \in LaneIds /\ ch[l] \in Seq(Batches) /\ LaneOk(ch[l], s.lanes[l])
    BY Zenon DEF LanesOk
  <2> DEFINE car == InCut(s.last.cut, l)
  <2>2. car = NoCar \/ CarOk(ch[l], car)
    <3>1. s.last.slot \in 0..Len(K) /\ s.last.cut = At(K, s.last.slot)
      BY Zenon DEF SlotsOk
    <3> QED
      BY Zenon, <2>1, <3>1, InCutFacts
  <2>3. cut[l] = get_latest_car(s.lanes[l], car) /\ get_latest_car(s.lanes[l], car) # NoCar
    BY Zenon
  <2> HIDE DEF car
  <2>4. CarOk(ch[l], get_latest_car(s.lanes[l], car))
    BY Zenon, <2>1, <2>2, <2>3, LatestCarOk
  <2> QED
    BY Zenon, <2>3, <2>4
<1>2. handle_querynewcut(s) = cut
  BY Zenon DEF handle_querynewcut
<1>3. DOMAIN cut = D /\ D \in SUBSET LaneIds /\ cut = [l \in D |-> cut[l]]
  BY Zenon
<1> HIDE DEF D, cut
<1>4. cut \in [D -> Cars]
  BY Zenon, <1>1, <1>3 DEF CarOk
<1>5. cut \in Cuts
  BY Zenon, <1>3, <1>4 DEF Cuts
<1>6. CutOk(ch, cut)
  BY Zenon, <1>1, <1>3 DEF CutOk, CarOk
<1> QED
  BY Zenon, <1>2, <1>5, <1>6

---------------------------------------------------------------------------
(* What the handlers send. *)

(* A function on the positions of a sequence is a sequence. *)
LEMMA MappedSeq ==
    ASSUME NEW X, NEW q \in Seq(X), NEW Y, NEW f \in [DOMAIN q -> Y]
    PROVE  f \in Seq(Y)
<1>1. DOMAIN q = 1..Len(q) /\ Len(q) \in Nat
  OBVIOUS
<1> QED
  BY <1>1

(* A vote for the proposal of another lane may be sent, *)
LEMMA VoteOut ==
    ASSUME NEW ch, NEW n \in Nodes, NEW l \in LaneIds, l # n,
           NEW dp \in Proposals(ch[l]), NEW size \in Nat
    PROVE  DataVote(l, dp, size) \in Outs(n, ch)
<1> DEFINE m == [type |-> "DataVote", dp |-> dp, size |-> size]
           o == [to |-> {l}, msg |-> m]
<1>1. l \in Nodes /\ dp \in Dps /\ On(ch[l], dp)
  BY Zenon, MempoolAssumption DEF Proposals
<1>2. m \in [type : {"DataVote"}, dp : Dps, size : Nat]
  BY Zenon, <1>1
<1>3. m \in Message
  BY Zenon, <1>2 DEF Message
<1>4. m.type = "DataVote" /\ m.dp = dp
  BY Zenon
<1> HIDE DEF m
<1>5. MsgOk(n, l, ch, m)
  BY Zenon, <1>1, <1>4 DEF MsgOk
<1>6. o \in [to : SUBSET Nodes, msg : Message] /\ o.to = {l} /\ o.msg = m
  BY Zenon, <1>1, <1>3
<1> HIDE DEF o
<1>7. o \in Outs(n, ch)
  BY Zenon, <1>5, <1>6 DEF Outs
<1> QED
  BY Zenon, <1>7 DEF o, m, DataVote

(* and a proposal by the operator of its lane, *)
LEMMA ProposalOut ==
    ASSUME NEW ch, NEW n \in LaneIds, NEW to \in SUBSET (Nodes \ {n}), NEW dp \in Proposals(ch[n])
    PROVE  DataProposal(to, dp) \in Outs(n, ch)
<1> DEFINE m == [type |-> "DataProposal", dp |-> dp]
           o == [to |-> to, msg |-> m]
<1>1. dp \in Dps /\ On(ch[n], dp)
  BY Zenon DEF Proposals
<1>2. m \in [type : {"DataProposal"}, dp : Dps]
  BY Zenon, <1>1
<1>3. m \in Message
  BY Zenon, <1>2 DEF Message
<1>4. m.type = "DataProposal" /\ m.dp = dp
  BY Zenon
<1> HIDE DEF m
<1>5. \A b \in to : MsgOk(n, b, ch, m)
  BY Zenon, <1>1, <1>4 DEF MsgOk
<1>6. o \in [to : SUBSET Nodes, msg : Message] /\ o.to = to /\ o.msg = m
  BY Zenon, <1>3
<1> HIDE DEF o
<1>7. o \in Outs(n, ch)
  BY Zenon, <1>5, <1>6 DEF Outs
<1> QED
  BY Zenon, <1>7 DEF o, m, DataProposal

(* its signatures, *)
LEMMA PodaOut ==
    ASSUME NEW ch, NEW n \in LaneIds, NEW dp \in Proposals(ch[n]), NEW e \in Entries
    PROVE  PoDAUpdate(Nodes \ {n}, dp, e) \in Outs(n, ch)
<1> DEFINE m == [type |-> "PoDAUpdate", dp |-> dp, entry |-> e]
           o == [to |-> Nodes \ {n}, msg |-> m]
<1>1. dp \in Dps /\ On(ch[n], dp)
  BY Zenon DEF Proposals
<1>2. m \in [type : {"PoDAUpdate"}, dp : Dps, entry : Entries]
  BY Zenon, <1>1
<1>3. m \in Message
  BY Zenon, <1>2 DEF Message
<1>4. m.type = "PoDAUpdate" /\ m.dp = dp
  BY Zenon
<1> HIDE DEF m
<1>5. \A b \in Nodes \ {n} : MsgOk(n, b, ch, m)
  BY Zenon, <1>1, <1>4 DEF MsgOk
<1>6. o \in [to : SUBSET Nodes, msg : Message] /\ o.to = Nodes \ {n} /\ o.msg = m
  BY Zenon, <1>3
<1> HIDE DEF o
<1>7. o \in Outs(n, ch)
  BY Zenon, <1>5, <1>6 DEF Outs
<1> QED
  BY Zenon, <1>7 DEF o, m, PoDAUpdate

(* a request for the proposals of another lane, *)
LEMMA RequestOut ==
    ASSUME NEW ch, NEW n \in Nodes, NEW l \in LaneIds, l # n,
           NEW base \in Seq(Batches), NEW dp \in Proposals(ch[l])
    PROVE  SyncRequest(l, base, dp) \in Outs(n, ch)
<1> DEFINE m == [type |-> "SyncRequest", base |-> base, dp |-> dp]
           o == [to |-> {l}, msg |-> m]
<1>1. l \in Nodes /\ dp \in Dps /\ On(ch[l], dp)
  BY Zenon, MempoolAssumption DEF Proposals
<1>2. m \in [type : {"SyncRequest"}, base : Seq(Batches), dp : Dps]
  BY Zenon, <1>1
<1>3. m \in Message
  BY Zenon, <1>2 DEF Message
<1>4. m.type = "SyncRequest" /\ m.dp = dp
  BY Zenon
<1> HIDE DEF m
<1>5. MsgOk(n, l, ch, m)
  BY Zenon, <1>1, <1>4 DEF MsgOk
<1>6. o \in [to : SUBSET Nodes, msg : Message] /\ o.to = {l} /\ o.msg = m
  BY Zenon, <1>1, <1>3
<1> HIDE DEF o
<1>7. o \in Outs(n, ch)
  BY Zenon, <1>5, <1>6 DEF Outs
<1> QED
  BY Zenon, <1>7 DEF o, m, SyncRequest

(* and a reply with a proposal of the own one. *)
LEMMA ReplyOut ==
    ASSUME NEW ch, NEW n \in LaneIds, NEW to \in Nodes, to # n,
           NEW dp \in Proposals(ch[n]), NEW e \in Entries, e.size = Len(dp)
    PROVE  SyncReply(to, dp, e) \in Outs(n, ch)
<1> DEFINE m == [type |-> "SyncReply", dp |-> dp, entry |-> e]
           o == [to |-> {to}, msg |-> m]
<1>1. dp \in Dps /\ On(ch[n], dp)
  BY Zenon DEF Proposals
<1>2. m \in [type : {"SyncReply"}, dp : Dps, entry : Entries]
  BY Zenon, <1>1
<1>3. m \in Message
  BY Zenon, <1>2 DEF Message
<1>4. m.type = "SyncReply" /\ m.dp = dp /\ m.entry = e
  BY Zenon
<1> HIDE DEF m
<1>5. MsgOk(n, to, ch, m)
  BY Zenon, <1>1, <1>4 DEF MsgOk
<1>6. o \in [to : SUBSET Nodes, msg : Message] /\ o.to = {to} /\ o.msg = m
  BY Zenon, <1>3
<1> HIDE DEF o
<1>7. o \in Outs(n, ch)
  BY Zenon, <1>5, <1>6 DEF Outs
<1> QED
  BY Zenon, <1>7 DEF o, m, SyncReply

(* Of what a handler sends, what goes to a node is fit for its link. *)
LEMMA SentOk ==
    ASSUME NEW ch, NEW n, NEW out \in Seq(Outs(n, ch)), NEW b
    PROVE  SentTo(out, b) \in Seq(Link(n, b, ch))
<1> DEFINE S == {i \in DOMAIN out : b \in out[i].to}
           Y == {o \in Outs(n, ch) : b \in o.to}
           sent == Keep(out, S)
           f == [i \in DOMAIN sent |-> sent[i].msg]
<1>1. S \in SUBSET (1..Len(out)) /\ \A i \in S : out[i] \in Y
  OBVIOUS
<1> HIDE DEF S
<1>2. sent \in Seq(Y)
  BY Zenon, <1>1, KeepIn
<1> HIDE DEF sent
<1>3. \A o \in Y : o.msg \in Link(n, b, ch)
  BY Zenon DEF Outs, Link
<1>4. \A i \in DOMAIN sent : sent[i] \in Y
  BY <1>2
<1> HIDE DEF Y
<1>5. f \in [DOMAIN sent -> Link(n, b, ch)]
  BY Zenon, <1>3, <1>4
<1>6. f \in Seq(Link(n, b, ch))
  BY Zenon, <1>2, <1>5, MappedSeq
<1> QED
  BY Zenon, <1>6 DEF SentTo, sent, S

---------------------------------------------------------------------------
(* The state of a node, when some of its fields change. *)

(* A state is in order when each part of it is, or is what it was. *)
LEMMA Frame ==
    ASSUME NEW n, NEW s, NEW r, NEW ch, NEW K, NodeOk(n, s, ch, K), DOMAIN r = Fields,
           r.lanes = s.lanes \/ LanesOk(n, r, ch),
           \/ r.buffered = s.buffered /\ r.podas = s.podas /\ r.tasks = s.tasks
           \/ QueuesOk(n, r, ch),
           \/ r.waiting = s.waiting /\ r.known = s.known /\ r.preparing = s.preparing
           \/ OwnOk(n, r, ch),
           \/ r.last = s.last /\ r.started = s.started /\ r.building = s.building /\ r.built = s.built
           \/ SlotsOk(r, K),
           (r.todo = s.todo /\ r.replied = s.replied) \/ RepliesOk(n, r, ch)
    PROVE  NodeOk(n, r, ch, K)
<1>1. LanesOk(n, r, ch)
  BY Zenon DEF NodeOk, LanesOk
<1>2. QueuesOk(n, r, ch)
  BY Zenon DEF NodeOk, QueuesOk
<1>3. OwnOk(n, r, ch)
  BY Zenon DEF NodeOk, OwnOk
<1>4. SlotsOk(r, K)
  BY Zenon DEF NodeOk, SlotsOk
<1>5. RepliesOk(n, r, ch)
  BY Zenon DEF NodeOk, RepliesOk
<1> QED
  BY Zenon, <1>1, <1>2, <1>3, <1>4, <1>5 DEF NodeOk

(* All but the verdicts is the same. *)
SameState(s, r) ==
    /\ DOMAIN r = Fields
    /\ r.lanes = s.lanes /\ r.buffered = s.buffered /\ r.podas = s.podas /\ r.tasks = s.tasks
    /\ r.waiting = s.waiting /\ r.preparing = s.preparing /\ r.known = s.known
    /\ r.last = s.last /\ r.building = s.building /\ r.started = s.started /\ r.built = s.built
    /\ r.todo = s.todo /\ r.replied = s.replied

(* Caching a verdict changes nothing else. *)
LEMMA CacheOk ==
    ASSUME NEW n, NEW s, NEW ch, NEW K, NodeOk(n, s, ch, K), NEW l, NEW dp, NEW v
    PROVE  NodeOk(n, Cache(s, l, dp, v), ch, K) /\ SameState(s, Cache(s, l, dp, v))
<1> DEFINE w == With(s.verdicts, l, With(s.verdicts[l], dp, v))
           r == [s EXCEPT !.verdicts = w]
<1>1. DOMAIN s = Fields
  BY Zenon DEF NodeOk
<1> HIDE DEF w
<1>2. SameState(s, r)
  BY Zenon, <1>1 DEF SameState, Fields
<1> HIDE DEF r
<1>3. NodeOk(n, r, ch, K)
  BY Zenon, <1>2, Frame DEF SameState
<1> QED
  BY Zenon, <1>2, <1>3 DEF Cache, r, w

(* A handler that keeps the state in order and sends what may be sent. *)
LEMMA ResultIs ==
    ASSUME NEW n, NEW s, NEW ch, NEW K, NodeOk(n, s, ch, K), NEW out \in Seq(Outs(n, ch))
    PROVE  ResultOk(n, Result(s, out), ch, K)
  BY Zenon DEF ResultOk, Result

---------------------------------------------------------------------------
(* verify_tx.rs *)

(* The size of a lane at a proposal, zero when it is not known. *)
LEMMA LaneSizeNat ==
    ASSUME NEW c, NEW lane, LaneOk(c, lane), NEW dp
    PROVE  get_lane_size_at(lane, dp) \in Nat
  BY Zenon DEF get_lane_size_at, contains, LaneOk, Entries

(* on_data_proposals: proposals received are buffered or hashed. *)
LEMMA DataProposalsOk ==
    ASSUME NEW ch \in [LaneIds -> Seq(Batches)], NEW K, NEW n \in Nodes, NEW s, NodeOk(n, s, ch, K),
           NEW l \in LaneIds, l # n, NEW dps \in Seq(Proposals(ch[l]))
    PROVE  ResultOk(n, on_data_proposals(s, l, dps), ch, K)
<1> DEFINE F == {i \in DOMAIN dps : Cached(s, l, dps[i]) \in {"None", "Wait"}}
           V == {i \in DOMAIN dps : Cached(s, l, dps[i]) = "Vote"}
           fresh == Keep(dps, F)
           voted == Keep(dps, V)
           ts == [i \in DOMAIN fresh |-> Task("Hashed", l, fresh[i], FALSE)]
           tasks == s.tasks \o ts
           r == [s EXCEPT !.tasks = tasks]
           out == [i \in DOMAIN voted |->
                        DataVote(l, voted[i], get_lane_size_at(s.lanes[l], voted[i]))]
<1>1. F \in SUBSET (1..Len(dps)) /\ V \in SUBSET (1..Len(dps))
  OBVIOUS
<1>2. \A i \in 1..Len(dps) : dps[i] \in Proposals(ch[l])
  OBVIOUS
<1> HIDE DEF F, V
<1>3. fresh \in Seq(Proposals(ch[l])) /\ voted \in Seq(Proposals(ch[l]))
  BY Zenon, <1>1, <1>2, KeepIn
<1> HIDE DEF fresh, voted
<1>4. \A d \in Proposals(ch[l]) : Task("Hashed", l, d, FALSE) \in Tasks(n, ch)
  BY Zenon DEF Task, Tasks, Proposals
<1>5. \A d \in Proposals(ch[l]) : DataVote(l, d, get_lane_size_at(s.lanes[l], d)) \in Outs(n, ch)
  <2> TAKE d \in Proposals(ch[l])
  <2>1. get_lane_size_at(s.lanes[l], d) \in Nat
    BY Zenon, LaneSizeNat DEF NodeOk, LanesOk
  <2> QED
    BY Zenon, <2>1, VoteOut
<1>6. /\ \A i \in DOMAIN fresh : fresh[i] \in Proposals(ch[l])
      /\ \A i \in DOMAIN voted : voted[i] \in Proposals(ch[l])
  BY <1>3
<1>7. ts \in [DOMAIN fresh -> Tasks(n, ch)]
  BY Zenon, <1>4, <1>6
<1>8. ts \in Seq(Tasks(n, ch))
  BY Zenon, <1>3, <1>7, MappedSeq
<1>9. out \in [DOMAIN voted -> Outs(n, ch)]
  BY Zenon, <1>5, <1>6
<1>10. out \in Seq(Outs(n, ch))
  BY Zenon, <1>3, <1>9, MappedSeq
<1> HIDE DEF ts, out
<1>11. tasks \in Seq(Tasks(n, ch))
  <2>1. s.tasks \in Seq(Tasks(n, ch))
    BY Zenon DEF NodeOk, QueuesOk
  <2> QED
    BY <1>8, <2>1
<1> HIDE DEF tasks
<1>12. /\ DOMAIN r = Fields /\ r.lanes = s.lanes /\ r.buffered = s.buffered /\ r.podas = s.podas
       /\ r.tasks = tasks
       /\ r.waiting = s.waiting /\ r.preparing = s.preparing /\ r.known = s.known
       /\ r.last = s.last /\ r.building = s.building /\ r.started = s.started
       /\ r.built = s.built /\ r.todo = s.todo /\ r.replied = s.replied
  BY Zenon DEF NodeOk, Fields
<1> HIDE DEF r
<1>13. QueuesOk(n, r, ch)
  BY Zenon, <1>11, <1>12 DEF QueuesOk, NodeOk
<1>14. NodeOk(n, r, ch, K)
  BY Zenon, <1>12, <1>13, Frame
<1>15. on_data_proposals(s, l, dps) = Result(r, out)
  BY Zenon DEF on_data_proposals, r, out, tasks, ts, fresh, voted, F, V
<1> QED
  BY Zenon, <1>10, <1>14, <1>15, ResultIs

(* on_hashed_data_proposal: one that can be stored is processed, another one is buffered. *)
LEMMA HashedOk ==
    ASSUME NEW ch \in [LaneIds -> Seq(Batches)], NEW K, NEW n \in Nodes, NEW s, NodeOk(n, s, ch, K),
           NEW l \in LaneIds, l # n, NEW dp \in Proposals(ch[l])
    PROVE  ResultOk(n, on_hashed_data_proposal(s, l, dp), ch, K)
<1> DEFINE v == get_verdict(s.lanes[l], dp)
           s1 == Cache(s, l, dp, v)
           o == DataVote(l, dp, get_lane_size_at(s.lanes[l], dp))
           t == Task("Processed", l, dp, s.known)
           ts == Append(s.tasks, t)
           bs == With(s.buffered, l, Append(s.buffered[l], dp))
           r1 == [s1 EXCEPT !.tasks = ts]
           r2 == [s1 EXCEPT !.buffered = bs]
<1>1. NodeOk(n, s1, ch, K) /\ SameState(s, s1)
  BY Zenon, CacheOk
<1>2. /\ s.tasks \in Seq(Tasks(n, ch)) /\ s.known \in BOOLEAN
      /\ LaneOk(ch[l], s.lanes[l])
      /\ s.buffered[l] \in Seq(Proposals(ch[l])) /\ DOMAIN s.buffered = LaneIds
  BY Zenon DEF NodeOk, QueuesOk, OwnOk, LanesOk
<1>3. <<o>> \in Seq(Outs(n, ch)) /\ <<>> \in Seq(Outs(n, ch))
  <2>1. o \in Outs(n, ch)
    BY Zenon, <1>2, LaneSizeNat, VoteOut
  <2> HIDE DEF o
  <2> QED
    BY <2>1
<1>4. ts \in Seq(Tasks(n, ch))
  <2>1. t \in Tasks(n, ch)
    BY Zenon, <1>2 DEF Task, Tasks, Proposals
  <2> HIDE DEF t
  <2> QED
    BY <1>2, <2>1
<1>5. /\ DOMAIN bs = LaneIds /\ bs[l] = Append(s.buffered[l], dp)
      /\ \A k \in LaneIds : k # l => bs[k] = s.buffered[k]
  BY Zenon, <1>2 DEF With
<1> HIDE DEF s1, ts, bs, v
<1>6. NodeOk(n, r1, ch, K)
  <2>1. /\ DOMAIN r1 = Fields /\ r1.lanes = s1.lanes /\ r1.buffered = s1.buffered
        /\ r1.podas = s1.podas /\ r1.tasks = ts
        /\ r1.waiting = s1.waiting /\ r1.preparing = s1.preparing /\ r1.known = s1.known
        /\ r1.last = s1.last /\ r1.building = s1.building /\ r1.started = s1.started
        /\ r1.built = s1.built /\ r1.todo = s1.todo /\ r1.replied = s1.replied
    BY Zenon, <1>1 DEF SameState, Fields
  <2> HIDE DEF r1
  <2>2. QueuesOk(n, r1, ch)
    BY Zenon, <1>1, <1>4, <2>1 DEF QueuesOk, NodeOk
  <2> QED
    BY Zenon, <1>1, <2>1, <2>2, Frame
<1>7. NodeOk(n, r2, ch, K)
  <2>1. /\ DOMAIN r2 = Fields /\ r2.lanes = s1.lanes /\ r2.buffered = bs
        /\ r2.podas = s1.podas /\ r2.tasks = s1.tasks
        /\ r2.waiting = s1.waiting /\ r2.preparing = s1.preparing /\ r2.known = s1.known
        /\ r2.last = s1.last /\ r2.building = s1.building /\ r2.started = s1.started
        /\ r2.built = s1.built /\ r2.todo = s1.todo /\ r2.replied = s1.replied
    BY Zenon, <1>1 DEF SameState, Fields
  <2> HIDE DEF r2
  <2>2. Append(s.buffered[l], dp) \in Seq(Proposals(ch[l]))
    BY <1>2
  <2>3. \A k \in LaneIds : bs[k] \in Seq(Proposals(ch[k]))
    BY Zenon, <1>5, <2>2 DEF NodeOk, QueuesOk
  <2>4. QueuesOk(n, r2, ch)
    BY Zenon, <1>1, <1>5, <2>1, <2>3 DEF QueuesOk, NodeOk
  <2> QED
    BY Zenon, <1>1, <2>1, <2>4, Frame
<1> HIDE DEF r1, r2, o
<1>8. on_hashed_data_proposal(s, l, dp) \in
          {Result(s1, <<o>>), Result(r1, <<>>), Result(r2, <<>>), Result(s1, <<>>)}
  BY Zenon DEF on_hashed_data_proposal, s1, r1, r2, o, ts, t, bs, v
<1>9. /\ ResultOk(n, Result(s1, <<o>>), ch, K) /\ ResultOk(n, Result(r1, <<>>), ch, K)
      /\ ResultOk(n, Result(r2, <<>>), ch, K) /\ ResultOk(n, Result(s1, <<>>), ch, K)
  BY Zenon, <1>1, <1>3, <1>6, <1>7, ResultIs
<1> QED
  BY Zenon, <1>8, <1>9

(* One lane changes. *)
LEMMA LanesWith ==
    ASSUME NEW ch, NEW n, NEW s, LanesOk(n, s, ch), NEW l \in LaneIds,
           NEW lane, LaneOk(ch[l], lane), l = n => OwnLaneOk(n, ch[n], lane),
           NEW r, r.lanes = With(s.lanes, l, lane)
    PROVE  LanesOk(n, r, ch)
<1>1. /\ DOMAIN r.lanes = LaneIds /\ r.lanes[l] = lane
      /\ \A k \in LaneIds : k # l => r.lanes[k] = s.lanes[k]
  BY Zenon DEF With, LanesOk
<1> QED
  BY Zenon, <1>1 DEF LanesOk

(* Vec::swap_remove leaves elements of the vector. *)
LEMMA SwapRemoveIn ==
    ASSUME NEW X, NEW q \in Seq(X), NEW i \in 1..Len(q)
    PROVE  SwapRemove(q, i) \in Seq(X)
<1> DEFINE f == [j \in 1..(Len(q) - 1) |-> IF j = i THEN q[Len(q)] ELSE q[j]]
<1>1. Len(q) \in Nat /\ Len(q) > 0 /\ Len(q) - 1 \in Nat /\ \A j \in 1..Len(q) : q[j] \in X
  OBVIOUS
<1>2. f \in [1..(Len(q) - 1) -> X]
  BY <1>1
<1> HIDE DEF f
<1>3. f \in Seq(X)
  BY <1>1, <1>2
<1> QED
  BY Zenon, <1>3 DEF SwapRemove, f

(* on_processed_data_proposal: what is stored extends the copy of the lane. *)
LEMMA ProcessedOk ==
    ASSUME NEW ch \in [LaneIds -> Seq(Batches)], NEW K, NEW n \in Nodes, NEW s, NodeOk(n, s, ch, K),
           NEW l \in LaneIds, l # n, NEW dp \in Proposals(ch[l]), NEW v
    PROVE  ResultOk(n, on_processed_data_proposal(n, s, l, dp, v), ch, K)
<1> DEFINE s1 == Cache(s, l, dp, v)
           lane == store_data_proposal(n, s.lanes[l], dp)
           size == lane.entries[dp].size
           podas == {p \in s.podas[l] : p.dp = dp}
           sigs == UNION {p.entry.sigs : p \in {q \in podas : q.entry.size = size}}
           children == {i \in DOMAIN s.buffered[l] : Parent(s.buffered[l][i]) = dp}
           child == Min(children)
           added == add_signatures(lane, dp, size, sigs)
           ls == With(s.lanes, l, added)
           ps == With(s.podas, l, s.podas[l] \ podas)
           s2 == [s1 EXCEPT !.lanes = ls, !.podas = ps]
           bs == With(s.buffered, l, SwapRemove(s.buffered[l], child))
           s3 == [s2 EXCEPT !.buffered = bs]
           next == on_hashed_data_proposal(s3, l, s.buffered[l][child])
           vote == DataVote(l, dp, size)
<1>1. NodeOk(n, s1, ch, K) /\ SameState(s, s1)
  BY Zenon, CacheOk
<1>2. /\ LanesOk(n, s, ch) /\ LaneOk(ch[l], s.lanes[l]) /\ ch[l] \in Seq(Batches)
      /\ DOMAIN s.buffered = LaneIds /\ DOMAIN s.podas = LaneIds
      /\ s.buffered[l] \in Seq(Proposals(ch[l]))
      /\ s.podas[l] \subseteq [dp : Dps, entry : Entries]
  BY Zenon DEF NodeOk, LanesOk, QueuesOk
<1>3. CASE v = "Refuse" \/ ~CanStore(s.lanes[l], dp)
  <2>1. on_processed_data_proposal(n, s, l, dp, v) = Result(s1, <<>>)
    BY Zenon, <1>3 DEF on_processed_data_proposal
  <2>2. <<>> \in Seq(Outs(n, ch))
    OBVIOUS
  <2> HIDE DEF s1
  <2> QED
    BY Zenon, <1>1, <2>1, <2>2, ResultIs
<1>4. CASE ~(v = "Refuse" \/ ~CanStore(s.lanes[l], dp))
  <2>1. LaneOk(ch[l], lane) /\ Stored(n, s.lanes[l], dp, lane)
    BY Zenon, <1>2, <1>4, StoreOk
  <2>2. on_processed_data_proposal(n, s, l, dp, v) =
            IF children = {} THEN Result(s2, <<vote>>) ELSE Result(next.s, <<vote>> \o next.out)
    BY Zenon, <1>4 DEF on_processed_data_proposal
  <2> HIDE DEF s1, lane
  <2>3. contains(lane, dp) /\ size \in Nat
    BY Zenon, <2>1 DEF Stored, contains, LaneOk, Entries
  <2>4. sigs \in SUBSET Nodes
    BY Zenon, <1>2 DEF Entries
  <2> HIDE DEF sigs, size
  <2>5. LaneOk(ch[l], added)
    BY Zenon, <1>2, <2>1, <2>3, <2>4, AddOk
  <2> HIDE DEF added
  <2>6. /\ DOMAIN ps = LaneIds
        /\ \A k \in LaneIds : ps[k] \subseteq s.podas[k]
    BY Zenon, <1>2 DEF With
  <2> HIDE DEF ls, ps
  <2>7. /\ DOMAIN s2 = Fields /\ s2.lanes = ls /\ s2.buffered = s.buffered
        /\ s2.podas = ps /\ s2.tasks = s1.tasks
        /\ s2.waiting = s1.waiting /\ s2.preparing = s1.preparing /\ s2.known = s1.known
        /\ s2.last = s1.last /\ s2.building = s1.building /\ s2.started = s1.started
        /\ s2.built = s1.built /\ s2.todo = s1.todo /\ s2.replied = s1.replied
    BY Zenon, <1>1 DEF SameState, Fields
  <2>8. NodeOk(n, s2, ch, K)
    <3> HIDE DEF s2
    <3>1. LanesOk(n, s2, ch)
      BY Zenon, <1>2, <2>5, <2>7, LanesWith DEF ls
    <3>2. QueuesOk(n, s2, ch)
      BY Zenon, <1>1, <2>6, <2>7 DEF QueuesOk, NodeOk, SameState
    <3> QED
      BY Zenon, <1>1, <2>7, <3>1, <3>2, Frame
  <2> HIDE DEF s2
  <2>9. vote \in Outs(n, ch)
    BY Zenon, <2>3, VoteOut
  <2> HIDE DEF vote
  <2>10. CASE children = {}
    <3>1. <<vote>> \in Seq(Outs(n, ch))
      BY <2>9
    <3>2. ResultOk(n, Result(s2, <<vote>>), ch, K)
      BY Zenon, <2>8, <3>1, ResultIs
    <3> QED
      BY Zenon, <2>2, <2>10, <3>2
  <2>11. CASE children # {}
    <3>1. children \subseteq 1..Len(s.buffered[l]) /\ Len(s.buffered[l]) \in Nat
      BY <1>2
    <3>2. children \in SUBSET Nat
      BY <3>1
    <3>3. child \in 1..Len(s.buffered[l])
      BY Zenon, <2>11, <3>1, <3>2, MinIn
    <3> HIDE DEF child
    <3>4. /\ s.buffered[l][child] \in Proposals(ch[l])
          /\ SwapRemove(s.buffered[l], child) \in Seq(Proposals(ch[l]))
      BY <1>2, <3>3, SwapRemoveIn
    <3>5. /\ DOMAIN bs = LaneIds
          /\ \A k \in LaneIds : bs[k] \in Seq(Proposals(ch[k]))
      BY Zenon, <1>2, <3>4 DEF With, NodeOk, QueuesOk
    <3> HIDE DEF bs
    <3>6. /\ DOMAIN s3 = Fields /\ s3.lanes = s2.lanes /\ s3.buffered = bs
          /\ s3.podas = s2.podas /\ s3.tasks = s2.tasks
          /\ s3.waiting = s2.waiting /\ s3.preparing = s2.preparing /\ s3.known = s2.known
          /\ s3.last = s2.last /\ s3.building = s2.building /\ s3.started = s2.started
          /\ s3.built = s2.built /\ s3.todo = s2.todo /\ s3.replied = s2.replied
      BY Zenon, <2>7 DEF Fields
    <3> HIDE DEF s3
    <3>7. QueuesOk(n, s3, ch)
      BY Zenon, <2>8, <3>5, <3>6 DEF QueuesOk, NodeOk
    <3>8. NodeOk(n, s3, ch, K)
      BY Zenon, <2>8, <3>6, <3>7, Frame
    <3>9. ResultOk(n, next, ch, K)
      BY Zenon, <3>4, <3>8, HashedOk
    <3> HIDE DEF next
    <3>10. <<vote>> \o next.out \in Seq(Outs(n, ch))
      <4>1. <<vote>> \in Seq(Outs(n, ch))
        BY <2>9
      <4>2. next.out \in Seq(Outs(n, ch))
        BY Zenon, <3>9 DEF ResultOk
      <4> QED
        BY <4>1, <4>2
    <3>11. ResultOk(n, Result(next.s, <<vote>> \o next.out), ch, K)
      BY Zenon, <3>9, <3>10, ResultIs DEF ResultOk
    <3> QED
      BY Zenon, <2>2, <2>11, <3>11
  <2> QED
    BY Zenon, <2>10, <2>11
<1> QED
  BY Zenon, <1>3, <1>4

---------------------------------------------------------------------------
(* own_lane.rs *)

(* A transaction waits for the next data proposal. *)
LEMMA NewTxOk ==
    ASSUME NEW ch, NEW K, NEW n, NEW s, NodeOk(n, s, ch, K), NEW tx \in Txs
    PROVE  NodeOk(n, on_new_tx(s, tx), ch, K)
<1> DEFINE known == s.known \/ tx \in RegisterTxs
           waiting == Append(s.waiting, tx)
           r == [s EXCEPT !.known = known, !.waiting = waiting]
<1>1. known \in BOOLEAN
  BY Zenon
<1>2. s.waiting \in Seq(Txs) /\ waiting \in Seq(Txs)
  BY DEF NodeOk, OwnOk
<1> HIDE DEF known, waiting
<1>3. /\ DOMAIN r = Fields /\ r.lanes = s.lanes /\ r.buffered = s.buffered
      /\ r.podas = s.podas /\ r.tasks = s.tasks
      /\ r.waiting = waiting /\ r.preparing = s.preparing /\ r.known = known
      /\ r.last = s.last /\ r.building = s.building /\ r.started = s.started
      /\ r.built = s.built /\ r.todo = s.todo /\ r.replied = s.replied
  BY Zenon DEF NodeOk, Fields
<1> HIDE DEF r
<1>4. OwnOk(n, r, ch)
  BY Zenon, <1>1, <1>2, <1>3 DEF OwnOk, NodeOk
<1>5. NodeOk(n, r, ch, K)
  BY Zenon, <1>3, <1>4, Frame
<1>6. on_new_tx(s, tx) = s \/ on_new_tx(s, tx) = r
  BY Zenon DEF on_new_tx, r, known, waiting
<1> QED
  BY Zenon, <1>5, <1>6

(* What is prepared is a child of the tip. *)
LEMMA PreparationOk ==
    ASSUME NEW ch \in [LaneIds -> Seq(Batches)], NEW K, NEW n \in LaneIds, NEW s, NodeOk(n, s, ch, K),
           s.waiting # <<>>
    PROVE  NodeOk(n, init_dp_preparation_if_pending(n, s), ch, K)
<1> DEFINE k == Min({MaxBatch, Len(s.waiting)})
           b == SubSeq(s.waiting, 1, k)
           d == Append(s.lanes[n].tip, b)
           w == SubSeq(s.waiting, k + 1, Len(s.waiting))
           r == [s EXCEPT !.preparing = d, !.waiting = w]
<1>1. s.waiting \in Seq(Txs) /\ Len(s.waiting) \in Nat /\ Len(s.waiting) > 0
  BY DEF NodeOk, OwnOk
<1>2. k \in {MaxBatch, Len(s.waiting)} /\ \A j \in {MaxBatch, Len(s.waiting)} : k <= j
  <2> DEFINE S == {MaxBatch, Len(s.waiting)}
  <2>1. S \in SUBSET Nat /\ S # {}
    BY Zenon, <1>1, MempoolAssumption
  <2>2. PICK m \in S : \A j \in S : m =< j
    BY Zenon, <2>1, SmallestOf
  <2>3. Min(S) \in S /\ \A j \in S : Min(S) =< j
    BY Zenon, <2>2 DEF Min
  <2> QED
    BY Zenon, <2>3
<1> HIDE DEF k
<1>3. k \in 1..Len(s.waiting)
  BY <1>1, <1>2, MempoolAssumption
<1>4. b \in Seq(Txs) /\ Len(b) = k
  BY <1>1, <1>3
<1>5. b \in Batches
  <2>1. k >= 1
    BY <1>1, <1>3
  <2> HIDE DEF b
  <2>2. b # <<>>
    BY <1>4, <2>1
  <2> QED
    BY Zenon, <1>4, <2>2 DEF Batches
<1>6. w \in Seq(Txs)
  <2>1. \A i \in (k + 1)..Len(s.waiting) : s.waiting[i] \in Txs
    BY <1>1, <1>3
  <2>2. k + 1 \in 1..(Len(s.waiting) + 1)
    BY <1>1, <1>3
  <2> HIDE DEF b
  <2> QED
    BY <1>1, <1>3, <2>1, <2>2, SubSeqProperties
<1> HIDE DEF b, w
<1>7. s.lanes[n].tip = ch[n] /\ ch[n] \in Seq(Batches)
  BY Zenon DEF NodeOk, LanesOk, OwnLaneOk
<1>8. d \in Dps /\ Parent(d) = ch[n]
  <2>1. d = Append(ch[n], b)
    BY Zenon, <1>7
  <2>2. d \in Seq(Batches) /\ Len(d) = Len(ch[n]) + 1 /\ Len(ch[n]) \in Nat
    BY <1>5, <1>7, <2>1
  <2>3. SubSeq(d, 1, Len(ch[n])) = ch[n]
    BY <1>5, <1>7, <2>1, <2>2
  <2> QED
    BY <2>2, <2>3 DEF Dps, NoDp, Parent
<1> HIDE DEF d
<1>9. /\ DOMAIN r = Fields /\ r.lanes = s.lanes /\ r.buffered = s.buffered
      /\ r.podas = s.podas /\ r.tasks = s.tasks
      /\ r.waiting = w /\ r.preparing = d /\ r.known = s.known
      /\ r.last = s.last /\ r.building = s.building /\ r.started = s.started
      /\ r.built = s.built /\ r.todo = s.todo /\ r.replied = s.replied
  BY Zenon DEF NodeOk, Fields
<1> HIDE DEF r
<1>10. OwnOk(n, r, ch)
  BY Zenon, <1>6, <1>8, <1>9 DEF OwnOk, NodeOk
<1>11. NodeOk(n, r, ch, K)
  BY Zenon, <1>9, <1>10, Frame
<1> QED
  BY Zenon, <1>11 DEF init_dp_preparation_if_pending, r, d, b, w, k

(* The operator sends its proposals to others only. *)
LEMMA RebroadcastOk ==
    ASSUME NEW ch, NEW n \in LaneIds, NEW s, LanesOk(n, s, ch), NEW dp, contains(s.lanes[n], dp)
    PROVE  rebroadcast_data_proposal(n, s, dp) \in Seq(Outs(n, ch))
<1> DEFINE to == RebroadcastTo(n, s, dp)
           o == DataProposal(to, dp)
<1>1. dp \in Proposals(ch[n]) /\ n \in s.lanes[n].entries[dp].sigs
  BY Zenon DEF LanesOk, LaneOk, OwnLaneOk, contains
<1>2. to \in SUBSET (Nodes \ {n})
  BY Zenon, <1>1 DEF RebroadcastTo
<1> HIDE DEF to
<1>3. o \in Outs(n, ch)
  BY Zenon, <1>1, <1>2, ProposalOut
<1> HIDE DEF o
<1>4. <<o>> \in Seq(Outs(n, ch))
  BY <1>3
<1> QED
  BY Zenon, <1>4 DEF rebroadcast_data_proposal, o, to

(* The proposals an operator may send again are ancestors of its tip. *)
LEMMA PendingIn ==
    ASSUME NEW n, NEW s
    PROVE  Pending(n, s) \subseteq 1..Len(s.lanes[n].tip)
  BY Zenon, BetweenIn DEF Pending

(* What it sends again goes to the others only. *)
LEMMA RedisseminateOk ==
    ASSUME NEW ch \in [LaneIds -> Seq(Batches)], NEW n \in LaneIds, NEW s, LanesOk(n, s, ch)
    PROVE  redisseminate_oldest_data_proposal(n, s) \in Seq(Outs(n, ch))
<1>1. CASE Pending(n, s) = {}
  BY <1>1 DEF redisseminate_oldest_data_proposal
<1>2. CASE Pending(n, s) # {}
  <2> DEFINE k == Min(Pending(n, s))
             dp == Oldest(n, s)
  <2>1. s.lanes[n].tip = ch[n] /\ Len(ch[n]) \in Nat
    BY DEF LanesOk, OwnLaneOk
  <2>2. Pending(n, s) \in SUBSET (1..Len(ch[n]))
    BY Zenon, <2>1, PendingIn
  <2>3. Pending(n, s) \in SUBSET Nat
    BY <2>1, <2>2
  <2>4. k \in 1..Len(ch[n])
    BY Zenon, <1>2, <2>2, <2>3, MinIn
  <2>5. dp = Ancestor(ch[n], k)
    BY Zenon, <2>1 DEF Oldest
  <2> HIDE DEF k
  <2>6. contains(s.lanes[n], dp)
    BY Zenon, <2>4, <2>5 DEF contains, LanesOk, OwnLaneOk
  <2> HIDE DEF dp
  <2>7. rebroadcast_data_proposal(n, s, dp) \in Seq(Outs(n, ch))
    BY Zenon, <2>6, RebroadcastOk
  <2> QED
    BY Zenon, <1>2, <2>7 DEF redisseminate_oldest_data_proposal, dp
<1> QED
  BY Zenon, <1>1, <1>2

(* Signatures added leave the operator its whole lane. *)
LEMMA OwnLaneSigned ==
    ASSUME NEW n, NEW c, NEW lane, OwnLaneOk(n, c, lane), NEW r, SameButSigs(lane, r)
    PROVE  OwnLaneOk(n, c, r)
  BY Zenon DEF OwnLaneOk, SameButSigs

(* on_data_vote, by the operator. *)
LEMMA DataVoteOk ==
    ASSUME NEW ch \in [LaneIds -> Seq(Batches)], NEW K, NEW n \in LaneIds, NEW s, NodeOk(n, s, ch, K),
           NEW from \in Nodes, NEW dp, NEW size
    PROVE  ResultOk(n, on_data_vote(n, s, from, dp, size), ch, K)
<1> DEFINE lane == add_signatures(s.lanes[n], dp, size, {from})
           ls == With(s.lanes, n, lane)
           r == [s EXCEPT !.lanes = ls]
           o == PoDAUpdate(Nodes \ {n}, dp, lane.entries[dp])
<1>1. <<>> \in Seq(Outs(n, ch))
  OBVIOUS
<1>2. CASE ~contains(s.lanes[n], dp)
  <2>1. on_data_vote(n, s, from, dp, size) = Result(s, <<>>)
    BY Zenon, <1>2 DEF on_data_vote
  <2> QED
    BY Zenon, <1>1, <2>1, ResultIs
<1>3. CASE contains(s.lanes[n], dp)
  <2>1. /\ LanesOk(n, s, ch) /\ LaneOk(ch[n], s.lanes[n]) /\ OwnLaneOk(n, ch[n], s.lanes[n])
        /\ ch[n] \in Seq(Batches)
    BY Zenon DEF NodeOk, LanesOk
  <2>2. LaneOk(ch[n], lane) /\ SameButSigs(s.lanes[n], lane)
    BY Zenon, <1>3, <2>1, AddOk
  <2>3. on_data_vote(n, s, from, dp, size) \in {Result(r, <<>>), Result(r, <<o>>)}
    BY Zenon, <1>3 DEF on_data_vote
  <2> HIDE DEF lane
  <2>4. OwnLaneOk(n, ch[n], lane)
    BY Zenon, <2>1, <2>2, OwnLaneSigned
  <2>5. dp \in Proposals(ch[n]) /\ lane.entries[dp] \in Entries
    BY Zenon, <1>3, <2>2 DEF LaneOk, SameButSigs, contains
  <2>6. o \in Outs(n, ch)
    BY Zenon, <2>5, PodaOut
  <2> HIDE DEF o, ls
  <2>7. /\ DOMAIN r = Fields /\ r.lanes = ls /\ r.buffered = s.buffered
        /\ r.podas = s.podas /\ r.tasks = s.tasks
        /\ r.waiting = s.waiting /\ r.preparing = s.preparing /\ r.known = s.known
        /\ r.last = s.last /\ r.building = s.building /\ r.started = s.started
        /\ r.built = s.built /\ r.todo = s.todo /\ r.replied = s.replied
    BY Zenon DEF NodeOk, Fields
  <2> HIDE DEF r
  <2>8. LanesOk(n, r, ch)
    BY Zenon, <2>1, <2>2, <2>4, <2>7, LanesWith DEF ls
  <2>9. NodeOk(n, r, ch, K)
    BY Zenon, <2>7, <2>8, Frame
  <2>10. <<o>> \in Seq(Outs(n, ch))
    BY <2>6
  <2>11. ResultOk(n, Result(r, <<>>), ch, K) /\ ResultOk(n, Result(r, <<o>>), ch, K)
    BY Zenon, <1>1, <2>9, <2>10, ResultIs
  <2> QED
    BY Zenon, <2>3, <2>11
<1> QED
  BY Zenon, <1>2, <1>3

(* on_poda_update: signatures for a stored proposal, or kept for later. *)
LEMMA PodaUpdateOk ==
    ASSUME NEW ch \in [LaneIds -> Seq(Batches)], NEW K, NEW n \in Nodes, NEW s, NodeOk(n, s, ch, K),
           NEW l \in LaneIds, l # n, NEW dp \in Proposals(ch[l]), NEW e \in Entries
    PROVE  NodeOk(n, on_poda_update(s, l, dp, e), ch, K)
<1>1. /\ LanesOk(n, s, ch) /\ LaneOk(ch[l], s.lanes[l]) /\ ch[l] \in Seq(Batches)
      /\ DOMAIN s.podas = LaneIds /\ DOMAIN s = Fields
  BY Zenon DEF NodeOk, LanesOk, QueuesOk
<1>2. e.sigs \in SUBSET Nodes
  BY Zenon DEF Entries
<1>3. CASE contains(s.lanes[l], dp)
  <2> DEFINE lane == add_signatures(s.lanes[l], dp, e.size, e.sigs)
             ls == With(s.lanes, l, lane)
             r == [s EXCEPT !.lanes = ls]
  <2>1. LaneOk(ch[l], lane)
    BY Zenon, <1>1, <1>2, <1>3, AddOk
  <2> HIDE DEF lane, ls
  <2>2. /\ DOMAIN r = Fields /\ r.lanes = ls /\ r.buffered = s.buffered
        /\ r.podas = s.podas /\ r.tasks = s.tasks
        /\ r.waiting = s.waiting /\ r.preparing = s.preparing /\ r.known = s.known
        /\ r.last = s.last /\ r.building = s.building /\ r.started = s.started
        /\ r.built = s.built /\ r.todo = s.todo /\ r.replied = s.replied
    BY Zenon, <1>1 DEF Fields
  <2> HIDE DEF r
  <2>3. LanesOk(n, r, ch)
    BY Zenon, <1>1, <2>1, <2>2, LanesWith DEF ls
  <2>4. NodeOk(n, r, ch, K)
    BY Zenon, <2>2, <2>3, Frame
  <2> QED
    BY Zenon, <1>3, <2>4 DEF on_poda_update, r, ls, lane
<1>4. CASE ~contains(s.lanes[l], dp)
  <2> DEFINE ps == With(s.podas, l, s.podas[l] \cup {[dp |-> dp, entry |-> e]})
             r == [s EXCEPT !.podas = ps]
  <2>1. dp \in Dps
    BY Zenon DEF Proposals
  <2>2. DOMAIN ps = LaneIds /\ \A k \in LaneIds : ps[k] \subseteq [dp : Dps, entry : Entries]
    BY <1>1, <2>1 DEF With, NodeOk, QueuesOk
  <2> HIDE DEF ps
  <2>3. /\ DOMAIN r = Fields /\ r.lanes = s.lanes /\ r.buffered = s.buffered
        /\ r.podas = ps /\ r.tasks = s.tasks
        /\ r.waiting = s.waiting /\ r.preparing = s.preparing /\ r.known = s.known
        /\ r.last = s.last /\ r.building = s.building /\ r.started = s.started
        /\ r.built = s.built /\ r.todo = s.todo /\ r.replied = s.replied
    BY Zenon, <1>1 DEF Fields
  <2> HIDE DEF r
  <2>4. QueuesOk(n, r, ch)
    BY Zenon, <2>2, <2>3 DEF QueuesOk, NodeOk
  <2>5. NodeOk(n, r, ch, K)
    BY Zenon, <2>3, <2>4, Frame
  <2> QED
    BY Zenon, <1>4, <2>5 DEF on_poda_update, r, ps
<1> QED
  BY Zenon, <1>3, <1>4

---------------------------------------------------------------------------
(* block_construction.rs *)

(* The operator has every ancestor of a proposal of its lane, *)
LEMMA OwnHolds ==
    ASSUME NEW c \in Seq(Batches), NEW n, NEW lane, OwnLaneOk(n, c, lane), NEW d, On(c, d),
           NEW k \in 1..Len(d)
    PROVE  contains(lane, Ancestor(d, k))
<1>1. On(c, Ancestor(d, k)) /\ Len(Ancestor(d, k)) = k
  BY Zenon, OnAncestor
<1>2. k \in 1..Len(c)
  BY DEF On
<1>3. On(c, Ancestor(c, k)) /\ Len(Ancestor(c, k)) = k
  BY Zenon, <1>2, OnSelf, OnAncestor
<1>4. Ancestor(d, k) = Ancestor(c, k)
  BY Zenon, <1>1, <1>3, OnEqual
<1> QED
  BY Zenon, <1>2, <1>4 DEF OwnLaneOk, contains

(* and so no hole. *)
LEMMA OwnNotMissing ==
    ASSUME NEW c \in Seq(Batches), NEW n, NEW lane, OwnLaneOk(n, c, lane), NEW d, On(c, d), NEW from
    PROVE  Missing(lane, from, d) = {}
<1> SUFFICES ASSUME NEW k \in Missing(lane, from, d)
             PROVE  FALSE
  BY Zenon
<1>1. k \in 1..Len(d)
  BY Zenon, BetweenIn
<1>2. ~contains(lane, Ancestor(d, k))
  BY Zenon DEF Missing
<1> QED
  BY Zenon, <1>1, <1>2, OwnHolds

(* A block under construction is between two consecutive cuts. *)
LEMMA BuildFacts ==
    ASSUME NEW K, NEW b \in Builds(K)
    PROVE  b.slot \in 1..Len(K) /\ b.from = At(K, b.slot - 1) /\ b.cut = K[b.slot]
  BY DEF Builds

(* The ends of the interval of a lane in a block. *)
LEMMA BuildEnds ==
    ASSUME NEW ch \in [LaneIds -> Seq(Batches)], NEW K, CutsOk(ch, K), NEW b \in Builds(K),
           NEW l \in DOMAIN b.cut
    PROVE  /\ l \in LaneIds /\ b.cut = K[b.slot]
           /\ On(ch[l], InCut(b.from, l).dp) /\ On(ch[l], b.cut[l].dp)
           /\ Len(InCut(b.from, l).dp) <= Len(b.cut[l].dp)
<1>1. b.slot \in 1..Len(K) /\ b.from = At(K, b.slot - 1) /\ b.cut = K[b.slot]
  BY Zenon, BuildFacts
<1>2. l \in LaneIds /\ b.cut[l].dp \in Proposals(ch[l])
  BY Zenon, <1>1, CutFacts
<1>3. Len(K) \in Nat /\ b.slot - 1 \in 0..Len(K)
  BY <1>1 DEF CutsOk
<1>4. On(ch[l], InCut(b.from, l).dp)
  BY Zenon, <1>1, <1>2, <1>3, InCutFacts
<1>5. Len(InCut(b.from, l).dp) <= Len(b.cut[l].dp)
  BY Zenon, <1>1, CutGrows
<1> QED
  BY Zenon, <1>1, <1>2, <1>4, <1>5 DEF Proposals

(* A block without holes has, of each lane, the interval between the two cuts. *)
LEMMA BlockOfBuild ==
    ASSUME NEW ch \in [LaneIds -> Seq(Batches)], NEW K, CutsOk(ch, K), NEW b \in Builds(K),
           NEW s, LanesMissing(s, b) = {}
    PROVE  BlockOk(K, SignedBlock(s, b))
<1> DEFINE sb == SignedBlock(s, b)
<1>1. b.slot \in 1..Len(K) /\ b.from = At(K, b.slot - 1) /\ b.cut = K[b.slot]
  BY Zenon, BuildFacts
<1>2. sb.slot = b.slot
  BY Zenon DEF SignedBlock
<1>3. ASSUME NEW l \in DOMAIN b.cut
      PROVE  sb.dps[l] = Interval(InCut(b.from, l).dp, b.cut[l].dp)
  <2>1. /\ l \in LaneIds /\ On(ch[l], InCut(b.from, l).dp) /\ On(ch[l], b.cut[l].dp)
        /\ Len(InCut(b.from, l).dp) <= Len(b.cut[l].dp)
    BY Zenon, BuildEnds
  <2>2. Missing(s.lanes[l], InCut(b.from, l).dp, b.cut[l].dp) = {}
    BY Zenon DEF LanesMissing
  <2>3. Between(s.lanes[l], InCut(b.from, l).dp, b.cut[l].dp)
            = (Len(InCut(b.from, l).dp) + 1)..Len(b.cut[l].dp)
    BY <2>1, <2>2, BetweenIsInterval
  <2>4. sb.dps[l] = {Ancestor(b.cut[l].dp, k) :
                        k \in Between(s.lanes[l], InCut(b.from, l).dp, b.cut[l].dp)}
    BY Zenon DEF SignedBlock
  <2> QED
    BY Zenon, <2>3, <2>4 DEF Interval
<1> HIDE DEF sb
<1>4. BlockOk(K, sb)
  BY Zenon, <1>1, <1>2, <1>3 DEF BlockOk
<1> QED
  BY Zenon, <1>4 DEF sb

(* The lane that is asked for is another's: a node has all of its own. *)
LEMMA RequestForOk ==
    ASSUME NEW ch \in [LaneIds -> Seq(Batches)], NEW K, CutsOk(ch, K), NEW b \in Builds(K),
           NEW n \in Nodes, NEW s, LanesOk(n, s, ch), LanesMissing(s, b) # {}
    PROVE  RequestFor(s, b) \in Outs(n, ch)
<1> DEFINE l == Min(LanesMissing(s, b))
           base == InCut(b.from, l).dp
           M == Missing(s.lanes[l], base, b.cut[l].dp)
           k == Max(M)
           d == Ancestor(b.cut[l].dp, k)
<1>1. LanesMissing(s, b) \subseteq DOMAIN b.cut
  BY Zenon DEF LanesMissing
<1>2. DOMAIN b.cut \subseteq LaneIds
  BY Zenon, BuildEnds
<1>3. LanesMissing(s, b) \in SUBSET Nat
  <2>1. \A x \in LaneIds : x \in Nat
    BY MempoolAssumption, LanesAssumption DEF Nodes
  <2> QED
    BY Zenon, <1>1, <1>2, <2>1
<1>4. l \in LanesMissing(s, b)
  BY Zenon, <1>3, MinIn
<1> HIDE DEF l
<1>5. l \in DOMAIN b.cut /\ M # {}
  BY Zenon, <1>4 DEF LanesMissing
<1>6. l \in LaneIds /\ On(ch[l], base) /\ On(ch[l], b.cut[l].dp)
  BY Zenon, <1>5, BuildEnds
<1>7. l # n
  <2> SUFFICES ASSUME l = n
               PROVE  FALSE
    BY Zenon
  <2>1. OwnLaneOk(n, ch[n], s.lanes[n]) /\ ch[n] \in Seq(Batches)
    BY Zenon, <1>6 DEF LanesOk
  <2> QED
    BY Zenon, <1>5, <1>6, <2>1, OwnNotMissing
<1>8. M \in SUBSET (1..Len(b.cut[l].dp))
  BY Zenon, BetweenIn
<1>9. Len(b.cut[l].dp) \in Nat /\ ch[l] \in Seq(Batches) /\ base \in Seq(Batches)
  BY <1>6 DEF On
<1>10. k \in M
  <2> HIDE DEF M
  <2> QED
    BY Zenon, <1>5, <1>8, <1>9, LargestOf
<1>11. d \in Proposals(ch[l])
  <2> HIDE DEF k, M
  <2> QED
    BY Zenon, <1>6, <1>8, <1>9, <1>10, OnAncestor
<1> HIDE DEF base, d
<1>12. SyncRequest(l, base, d) \in Outs(n, ch)
  BY Zenon, <1>6, <1>7, <1>9, <1>11, RequestOut
<1> QED
  BY Zenon, <1>12 DEF RequestFor, l, base, M, k, d

(* try_to_send_full_signed_blocks: blocks without holes are sent, in order, and holes asked for. *)
LEMMA SendBlocksOk ==
    ASSUME NEW ch \in [LaneIds -> Seq(Batches)], NEW K, CutsOk(ch, K), NEW n \in Nodes, NEW s,
           NodeOk(n, s, ch, K)
    PROVE  ResultOk(n, try_to_send_full_signed_blocks(s), ch, K)
<1> DEFINE full == {i \in DOMAIN s.building : LanesMissing(s, s.building[i]) = {}}
           rest == Keep(s.building, DOMAIN s.building \ full)
           built == s.built \cup {SignedBlock(s, s.building[i]) : i \in full}
           r == [s EXCEPT !.building = rest, !.built = built]
           out == [i \in DOMAIN rest |-> RequestFor(s, rest[i])]
           B == {b \in Builds(K) : LanesMissing(s, b) # {}}
<1>1. /\ s.building \in Seq(Builds(K)) /\ DOMAIN s.building = 1..Len(s.building)
      /\ LanesOk(n, s, ch) /\ SlotsOk(s, K)
  BY DEF NodeOk, SlotsOk
<1>2. \A i \in DOMAIN s.building : s.building[i] \in Builds(K)
  BY <1>1
<1>3. rest \in Seq(B)
  <2>1. DOMAIN s.building \ full \in SUBSET (1..Len(s.building))
    BY Zenon, <1>1
  <2>2. \A i \in DOMAIN s.building \ full : s.building[i] \in B
    BY Zenon, <1>2
  <2> HIDE DEF full, B
  <2> QED
    BY Zenon, <1>1, <2>1, <2>2, KeepIn
<1>4. \A b \in built : BlockOk(K, b)
  <2>1. \A i \in full : BlockOk(K, SignedBlock(s, s.building[i]))
    BY Zenon, <1>2, BlockOfBuild
  <2> HIDE DEF full
  <2> QED
    BY Zenon, <1>1, <2>1 DEF SlotsOk
<1> HIDE DEF full, rest, built
<1>5. \A b \in B : RequestFor(s, b) \in Outs(n, ch)
  BY Zenon, <1>1, RequestForOk
<1>6. rest \in Seq(Builds(K)) /\ \A i \in DOMAIN rest : rest[i] \in B
  BY <1>3
<1> HIDE DEF B
<1>7. out \in [DOMAIN rest -> Outs(n, ch)]
  BY Zenon, <1>5, <1>6
<1> HIDE DEF out
<1>8. out \in Seq(Outs(n, ch))
  BY Zenon, <1>6, <1>7, MappedSeq
<1>9. /\ DOMAIN r = Fields /\ r.lanes = s.lanes /\ r.buffered = s.buffered
      /\ r.podas = s.podas /\ r.tasks = s.tasks
      /\ r.waiting = s.waiting /\ r.preparing = s.preparing /\ r.known = s.known
      /\ r.last = s.last /\ r.building = rest /\ r.started = s.started
      /\ r.built = built /\ r.todo = s.todo /\ r.replied = s.replied
  BY Zenon DEF NodeOk, Fields
<1>10. try_to_send_full_signed_blocks(s) = Result(r, out)
  BY Zenon DEF try_to_send_full_signed_blocks, full, rest, built, out
<1> HIDE DEF r
<1>11. SlotsOk(r, K)
  BY Zenon, <1>1, <1>4, <1>6, <1>9 DEF SlotsOk
<1>12. NodeOk(n, r, ch, K)
  BY Zenon, <1>9, <1>11, Frame
<1> QED
  BY Zenon, <1>8, <1>10, <1>12, ResultIs

(* try_create_block_under_construction: the cut before it is the last one known, or none is built. *)
LEMMA CreateBlockOk ==
    ASSUME NEW ch, NEW K, CutsOk(ch, K), NEW n, NEW s, NodeOk(n, s, ch, K), NEW slot \in 1..Len(K)
    PROVE  NodeOk(n, try_create_block_under_construction(s, slot, K[slot]), ch, K)
<1> DEFINE last == [slot |-> slot, cut |-> K[slot]]
           started == IF s.started = 0 THEN slot ELSE s.started
           b == [slot |-> slot, from |-> s.last.cut, cut |-> K[slot]]
           building == Append(s.building, b)
           s1 == [s EXCEPT !.last = last]
           r == [s1 EXCEPT !.started = started, !.building = building]
<1>1. SlotsOk(s, K) /\ DOMAIN s = Fields /\ Len(K) \in Nat
  BY DEF NodeOk, CutsOk
<1>2. slot \in Nat /\ slot # 0 /\ slot \in 0..Len(K) /\ s.started \in 0..Len(K)
  BY <1>1 DEF SlotsOk
<1>3. last.slot = slot /\ last.cut = K[slot]
  BY Zenon
<1>4. started \in 0..Len(K)
  BY Zenon, <1>2
<1> HIDE DEF last, started
<1>5. /\ DOMAIN s1 = Fields /\ s1.lanes = s.lanes /\ s1.buffered = s.buffered
      /\ s1.podas = s.podas /\ s1.tasks = s.tasks
      /\ s1.waiting = s.waiting /\ s1.preparing = s.preparing /\ s1.known = s.known
      /\ s1.last = last /\ s1.building = s.building /\ s1.started = s.started
      /\ s1.built = s.built /\ s1.todo = s.todo /\ s1.replied = s.replied
  BY Zenon, <1>1 DEF Fields
<1> HIDE DEF building, s1
<1>6. /\ DOMAIN r = Fields /\ r.lanes = s.lanes /\ r.buffered = s.buffered
      /\ r.podas = s.podas /\ r.tasks = s.tasks
      /\ r.waiting = s.waiting /\ r.preparing = s.preparing /\ r.known = s.known
      /\ r.last = last /\ r.building = building /\ r.started = started
      /\ r.built = s.built /\ r.todo = s.todo /\ r.replied = s.replied
  BY Zenon, <1>5 DEF Fields
<1>7. try_create_block_under_construction(s, slot, K[slot])
        = IF s.last.slot >= slot THEN s ELSE IF s.last.slot = slot - 1 THEN r ELSE s1
  BY Zenon DEF try_create_block_under_construction, last, started, building, s1
<1> HIDE DEF r
<1>8. last.cut = At(K, last.slot)
  BY Zenon, <1>2, <1>3 DEF At
<1>9. SlotsOk(s1, K)
  BY Zenon, <1>1, <1>2, <1>3, <1>5, <1>8 DEF SlotsOk
<1>10. ASSUME s.last.slot = slot - 1
       PROVE  SlotsOk(r, K)
  <2>1. s.last.cut = At(K, slot - 1)
    BY Zenon, <1>1, <1>10 DEF SlotsOk
  <2>2. b \in Builds(K)
    BY Zenon, <2>1 DEF Builds
  <2>3. building \in Seq(Builds(K))
    <3> HIDE DEF b
    <3> QED
      BY <1>1, <2>2 DEF SlotsOk, building
  <2> QED
    BY Zenon, <1>1, <1>2, <1>3, <1>4, <1>6, <1>8, <2>3 DEF SlotsOk
<1>11. NodeOk(n, s1, ch, K)
  BY Zenon, <1>5, <1>9, Frame
<1>12. s.last.slot = slot - 1 => NodeOk(n, r, ch, K)
  BY Zenon, <1>6, <1>10, Frame
<1> QED
  BY Zenon, <1>7, <1>11, <1>12

FetchOk(n, ch, cut, l) ==
    l \in LaneIds /\ l # n /\ cut[l].dp \in Proposals(ch[l]) /\ cut[l].size = Len(cut[l].dp)

(* The lanes whose tip moves to a commit are others': a node has all of its own. *)
LEMMA UnknownIn ==
    ASSUME NEW ch \in [LaneIds -> Seq(Batches)], NEW K, CutsOk(ch, K), NEW n, NEW s, LanesOk(n, s, ch),
           NEW slot \in 1..Len(K), NEW previous, NEW l \in UnknownLanes(s, K[slot], previous)
    PROVE  FetchOk(n, ch, K[slot], l)
<1> DEFINE d == K[slot][l].dp
<1>1. l \in DOMAIN K[slot] /\ ~contains(s.lanes[l], d)
  BY Zenon DEF UnknownLanes
<1>2. l \in LaneIds /\ CarOk(ch[l], K[slot][l]) /\ d \in Proposals(ch[l])
  BY Zenon, <1>1, CutFacts
<1>3. l # n
  <2> SUFFICES ASSUME l = n
               PROVE  FALSE
    BY Zenon
  <2>1. OwnLaneOk(n, ch[n], s.lanes[n]) /\ ch[n] \in Seq(Batches)
    BY Zenon, <1>2 DEF LanesOk
  <2>2. On(ch[n], d) /\ d \in Seq(Batches) /\ Len(d) \in 1..Len(d) /\ Ancestor(d, Len(d)) = d
    BY <1>2, <2>1, OnParent DEF Dps, Ancestor
  <2> HIDE DEF d
  <2>3. contains(s.lanes[n], Ancestor(d, Len(d)))
    BY Zenon, <2>1, <2>2, OwnHolds
  <2> QED
    BY Zenon, <1>1, <2>2, <2>3
<1> QED
  BY Zenon, <1>2, <1>3 DEF CarOk, FetchOk

(* clean_and_update_lanes: an unknown lane takes its tip from the cut and is asked for. *)
LEMMA CleanLanesOk ==
    ASSUME NEW ch \in [LaneIds -> Seq(Batches)], NEW K, CutsOk(ch, K), NEW n \in Nodes, NEW s,
           NodeOk(n, s, ch, K), NEW slot \in 1..Len(K), NEW j \in 0..Len(K)
    PROVE  ResultOk(n, clean_and_update_lanes(s, K[slot], At(K, j)), ch, K)
<1> DEFINE previous == At(K, j)
           cut == K[slot]
           unknown == UnknownLanes(s, cut, previous)
           ls == [l \in LaneIds |->
                      IF l \in unknown
                      THEN clean_and_update_lane(s.lanes[l], InCut(previous, l).dp,
                                                 cut[l].dp, cut[l].size)
                      ELSE s.lanes[l]]
           r == [s EXCEPT !.lanes = ls]
           q == Ascending(unknown)
           out == [i \in DOMAIN q |-> SyncRequest(q[i], InCut(previous, q[i]).dp, cut[q[i]].dp)]
<1>1. LanesOk(n, s, ch) /\ N \in Nat
  BY Zenon, LanesAssumption DEF NodeOk
<1>2. ASSUME NEW l \in unknown
      PROVE  /\ l \in LaneIds /\ l # n /\ cut[l].dp \in Proposals(ch[l])
             /\ cut[l].size = Len(cut[l].dp)
  <2>1. l \in UnknownLanes(s, K[slot], previous)
    BY Zenon
  <2> HIDE DEF previous, unknown
  <2>2. FetchOk(n, ch, K[slot], l)
    BY Zenon, <1>1, <2>1, UnknownIn
  <2> QED
    BY Zenon, <2>2 DEF FetchOk
<1>3. \A l \in LaneIds : InCut(previous, l).dp \in Seq(Batches)
  BY Zenon, InCutFacts DEF On
<1> HIDE DEF previous, cut, unknown
<1>4. ASSUME NEW l \in LaneIds
      PROVE  LaneOk(ch[l], ls[l])
  <2>1. LaneOk(ch[l], s.lanes[l]) /\ ch[l] \in Seq(Batches)
    BY Zenon, <1>1 DEF LanesOk
  <2>2. CASE l \in unknown
    <3>1. On(ch[l], cut[l].dp) /\ cut[l].size = Len(cut[l].dp)
      BY Zenon, <1>2, <2>2 DEF Proposals
    <3>2. LaneOk(ch[l], clean_and_update_lane(s.lanes[l], InCut(previous, l).dp,
                                              cut[l].dp, Len(cut[l].dp)))
      BY Zenon, <2>1, <3>1, CleanOk
    <3> QED
      BY Zenon, <2>2, <3>1, <3>2
  <2> QED
    BY Zenon, <2>1, <2>2
<1>5. DOMAIN ls = LaneIds /\ (n \in LaneIds => ls[n] = s.lanes[n])
  BY Zenon, <1>2
<1>6. q \in Seq(unknown)
  <2>1. unknown \in SUBSET (1..N)
    BY Zenon, <1>2, MempoolAssumption DEF Nodes
  <2> QED
    BY Zenon, <1>1, <2>1, AscendingIn
<1> HIDE DEF ls, q
<1>7. out \in [DOMAIN q -> Outs(n, ch)]
  <2>1. ASSUME NEW i \in DOMAIN q
        PROVE  SyncRequest(q[i], InCut(previous, q[i]).dp, cut[q[i]].dp) \in Outs(n, ch)
    <3>1. q[i] \in unknown
      BY <1>6
    <3> QED
      BY Zenon, <1>2, <1>3, <3>1, RequestOut
  <2> QED
    BY Zenon, <2>1
<1> HIDE DEF out
<1>8. out \in Seq(Outs(n, ch))
  BY Zenon, <1>6, <1>7, MappedSeq
<1>9. /\ DOMAIN r = Fields /\ r.lanes = ls /\ r.buffered = s.buffered
      /\ r.podas = s.podas /\ r.tasks = s.tasks
      /\ r.waiting = s.waiting /\ r.preparing = s.preparing /\ r.known = s.known
      /\ r.last = s.last /\ r.building = s.building /\ r.started = s.started
      /\ r.built = s.built /\ r.todo = s.todo /\ r.replied = s.replied
  BY Zenon DEF NodeOk, Fields
<1>10. clean_and_update_lanes(s, K[slot], At(K, j)) = Result(r, out)
  BY Zenon DEF clean_and_update_lanes, previous, cut, unknown, ls, q, out
<1> HIDE DEF r
<1>11. LanesOk(n, r, ch)
  BY Zenon, <1>1, <1>4, <1>5, <1>9 DEF LanesOk
<1>12. NodeOk(n, r, ch, K)
  BY Zenon, <1>9, <1>11, Frame
<1> QED
  BY Zenon, <1>8, <1>10, <1>12, ResultIs

(* A commit: the lanes are updated, and the block is built. *)
LEMMA ConsensusEventOk ==
    ASSUME NEW ch \in [LaneIds -> Seq(Batches)], NEW K, CutsOk(ch, K), NEW n \in Nodes, NEW s,
           NodeOk(n, s, ch, K), NEW slot \in 1..Len(K)
    PROVE  ResultOk(n, handle_consensus_event(s, slot, K[slot]), ch, K)
<1> DEFINE c == try_create_block_under_construction(s, slot, K[slot])
           sent == try_to_send_full_signed_blocks(c)
           cleaned == clean_and_update_lanes(sent.s, K[slot], s.last.cut)
<1>1. NodeOk(n, c, ch, K)
  BY Zenon, CreateBlockOk
<1> HIDE DEF c
<1>2. ResultOk(n, sent, ch, K)
  BY Zenon, <1>1, SendBlocksOk
<1>3. s.last.slot \in 0..Len(K) /\ s.last.cut = At(K, s.last.slot)
  BY Zenon DEF NodeOk, SlotsOk
<1> HIDE DEF sent
<1>4. NodeOk(n, sent.s, ch, K) /\ sent.out \in Seq(Outs(n, ch))
  BY Zenon, <1>2 DEF ResultOk
<1>5. ResultOk(n, cleaned, ch, K)
  BY Zenon, <1>3, <1>4, CleanLanesOk
<1> HIDE DEF cleaned
<1>6. NodeOk(n, cleaned.s, ch, K) /\ sent.out \o cleaned.out \in Seq(Outs(n, ch))
  BY <1>4, <1>5 DEF ResultOk
<1>7. ResultOk(n, Result(cleaned.s, sent.out \o cleaned.out), ch, K)
  BY Zenon, <1>6, ResultIs
<1> QED
  BY Zenon, <1>7 DEF handle_consensus_event, cleaned, sent, c

(* on_sync_reply: a proposal of the chain fills a hole, and the blocks that waited for it are sent. *)
LEMMA SyncReplyOk ==
    ASSUME NEW ch \in [LaneIds -> Seq(Batches)], NEW K, CutsOk(ch, K), NEW n \in Nodes, NEW s,
           NodeOk(n, s, ch, K), NEW l \in LaneIds, l # n, NEW dp \in Proposals(ch[l]),
           NEW e \in Entries, e.size = Len(dp)
    PROVE  ResultOk(n, on_sync_reply(s, l, dp, e), ch, K)
<1> DEFINE lane == put_no_verification(s.lanes[l], dp, e)
           absent == {i \in DOMAIN s.buffered[l] : ~contains(lane, s.buffered[l][i])}
           ls == With(s.lanes, l, lane)
           bs == With(s.buffered, l, <<>>)
           r == [s EXCEPT !.lanes = ls, !.buffered = bs]
           dps == Keep(s.buffered[l], absent)
           retried == on_data_proposals(r, l, dps)
           sent == try_to_send_full_signed_blocks(retried.s)
<1>1. /\ LanesOk(n, s, ch) /\ LaneOk(ch[l], s.lanes[l]) /\ QueuesOk(n, s, ch)
      /\ DOMAIN s.buffered = LaneIds /\ s.buffered[l] \in Seq(Proposals(ch[l]))
      /\ ch[l] \in Seq(Batches)
  BY Zenon DEF NodeOk, LanesOk, QueuesOk
<1>2. LaneOk(ch[l], lane)
  BY Zenon, <1>1, PutOk
<1> HIDE DEF lane
<1>3. dps \in Seq(Proposals(ch[l]))
  <2>1. absent \in SUBSET (1..Len(s.buffered[l]))
    BY <1>1
  <2>2. \A i \in absent : s.buffered[l][i] \in Proposals(ch[l])
    BY <1>1
  <2> HIDE DEF absent
  <2> QED
    BY Zenon, <1>1, <2>1, <2>2, KeepIn
<1>4. /\ DOMAIN bs = LaneIds
      /\ \A k \in LaneIds : bs[k] \in Seq(Proposals(ch[k]))
  BY <1>1 DEF With, QueuesOk
<1> HIDE DEF ls, bs, dps
<1>5. /\ DOMAIN r = Fields /\ r.lanes = ls /\ r.buffered = bs
      /\ r.podas = s.podas /\ r.tasks = s.tasks
      /\ r.waiting = s.waiting /\ r.preparing = s.preparing /\ r.known = s.known
      /\ r.last = s.last /\ r.building = s.building /\ r.started = s.started
      /\ r.built = s.built /\ r.todo = s.todo /\ r.replied = s.replied
  BY Zenon DEF NodeOk, Fields
<1>6. on_sync_reply(s, l, dp, e) =
        IF l \notin e.sigs THEN Result(s, <<>>) ELSE Result(sent.s, retried.out \o sent.out)
  BY Zenon DEF on_sync_reply, lane, ls, bs, dps
<1> HIDE DEF r
<1>7. LanesOk(n, r, ch)
  BY Zenon, <1>1, <1>2, <1>5, LanesWith DEF ls
<1>8. QueuesOk(n, r, ch)
  BY Zenon, <1>1, <1>4, <1>5 DEF QueuesOk
<1>9. NodeOk(n, r, ch, K)
  BY Zenon, <1>5, <1>7, <1>8, Frame
<1>10. ResultOk(n, retried, ch, K)
  BY Zenon, <1>3, <1>9, DataProposalsOk
<1> HIDE DEF retried
<1>11. NodeOk(n, retried.s, ch, K) /\ retried.out \in Seq(Outs(n, ch))
  BY Zenon, <1>10 DEF ResultOk
<1>12. ResultOk(n, sent, ch, K)
  BY Zenon, <1>11, SendBlocksOk
<1> HIDE DEF sent
<1>13. NodeOk(n, sent.s, ch, K) /\ retried.out \o sent.out \in Seq(Outs(n, ch))
  BY <1>11, <1>12 DEF ResultOk
<1>14. <<>> \in Seq(Outs(n, ch))
  OBVIOUS
<1>15. ResultOk(n, Result(s, <<>>), ch, K) /\ ResultOk(n, Result(sent.s, retried.out \o sent.out), ch, K)
  BY Zenon, <1>13, <1>14, ResultIs
<1> QED
  BY Zenon, <1>6, <1>15

=============================================================================
