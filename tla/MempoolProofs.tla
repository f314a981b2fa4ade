--------------------------- MODULE MempoolProofs ---------------------------
(***************************************************************************)
(* The steps of all nodes and of the network keep the lanes in order,      *)
(* whatever is lost, late, fetched or restarted: the copies, sizes, cuts   *)
(* and blocks of all validators are parts of one chain per lane, for any   *)
(* number of validators, lanes, transactions and faults.                   *)
(***************************************************************************)
EXTENDS LaneProofs

---------------------------------------------------------------------------
(* sync_request_reply.rs *)

(* unfold_sync_request_interval: the operator answers for proposals of its own lane. *)
LEMMA UnfoldOk ==
    ASSUME NEW ch, NEW K, NEW n \in LaneIds, NEW s, NodeOk(n, s, ch, K),
           NEW from \in Nodes, from # n, NEW base, NEW dp
    PROVE  NodeOk(n, unfold_sync_request_interval(n, s, from, base, dp), ch, K)
<1> DEFINE lane == s.lanes[n]
           range == Between(lane, base, dp)
           wanted == {Ancestor(dp, k) : k \in IF base = NoDp THEN {Len(dp)} ELSE range}
           found == {d \in wanted : contains(lane, d)}
           todo == [d \in DOMAIN s.todo \cup found |->
                        IF d \notin found THEN s.todo[d]
                        ELSE IF d \in DOMAIN s.todo
                        THEN [entry |-> s.todo[d].entry, to |-> s.todo[d].to \cup {from}]
                        ELSE [entry |-> lane.entries[d], to |-> {from}]]
           r == [s EXCEPT !.todo = todo]
<1>1. LaneOk(ch[n], lane) /\ RepliesOk(n, s, ch)
  BY Zenon DEF NodeOk, LanesOk
<1>2. \A d \in found : d \in Proposals(ch[n]) /\ lane.entries[d] \in Entries
                       /\ lane.entries[d].size = Len(d)
  BY Zenon, <1>1 DEF LaneOk, contains
<1>3. unfold_sync_request_interval(n, s, from, base, dp) = r
  BY Zenon DEF unfold_sync_request_interval
<1> HIDE DEF found, lane
<1>4. \A d \in DOMAIN todo : /\ d \in Proposals(ch[n])
                             /\ todo[d].entry \in Entries /\ todo[d].entry.size = Len(d)
                             /\ todo[d].to \subseteq Nodes \ {n}
  <2> SUFFICES ASSUME NEW d \in DOMAIN todo
               PROVE  /\ d \in Proposals(ch[n])
                      /\ todo[d].entry \in Entries /\ todo[d].entry.size = Len(d)
                      /\ todo[d].to \subseteq Nodes \ {n}
    BY Zenon
  <2>1. CASE d \notin found
    BY Zenon, <1>1, <2>1 DEF RepliesOk
  <2>2. CASE d \in found /\ d \in DOMAIN s.todo
    BY Zenon, <1>1, <2>2 DEF RepliesOk
  <2>3. CASE d \in found /\ d \notin DOMAIN s.todo
    BY Zenon, <1>2, <2>3
  <2> QED
    BY Zenon, <2>1, <2>2, <2>3
<1> HIDE DEF todo
<1>5. /\ DOMAIN r = Fields /\ r.lanes = s.lanes /\ r.buffered = s.buffered
      /\ r.podas = s.podas /\ r.tasks = s.tasks
      /\ r.waiting = s.waiting /\ r.preparing = s.preparing /\ r.known = s.known
      /\ r.last = s.last /\ r.building = s.building /\ r.started = s.started
      /\ r.built = s.built /\ r.todo = todo /\ r.replied = s.replied
  BY Zenon DEF NodeOk, Fields
<1> HIDE DEF r
<1>6. RepliesOk(n, r, ch)
  BY Zenon, <1>1, <1>4, <1>5 DEF RepliesOk
<1>7. NodeOk(n, r, ch, K)
  BY Zenon, <1>5, <1>6, Frame
<1> QED
  BY Zenon, <1>3, <1>7

(* The listing of a finite set has members of it. *)
LEMMA SetToSeqIn ==
    ASSUME NEW S, IsFiniteSet(S)
    PROVE  SetToSeq(S) \in Seq(S)
<1>1. Cardinality(S) \in Nat /\ ExistsBijection(1..Cardinality(S), S)
  BY Zenon, FS_CardinalityType
<1>2. \E f \in [1..Cardinality(S) -> S] : IsInjective(f)
  BY Zenon, <1>1 DEF ExistsBijection, Bijection, Injection
<1>3. SetToSeq(S) \in [1..Cardinality(S) -> S]
  BY Zenon, <1>2 DEF SetToSeq
<1> QED
  BY <1>1, <1>3

(* A chain has finitely many proposals. *)
LEMMA ProposalsFinite ==
    ASSUME NEW c \in Seq(Batches)
    PROVE  IsFiniteSet(Proposals(c))
<1> DEFINE f == [k \in 1..Len(c) |-> Ancestor(c, k)]
<1>1. \A k \in 1..Len(c) : Ancestor(c, k) \in Proposals(c) /\ On(c, Ancestor(c, k)) /\ Len(Ancestor(c, k)) = k
  BY Zenon, OnSelf, OnAncestor
<1>2. ASSUME NEW d \in Proposals(c)
      PROVE  \E k \in 1..Len(c) : f[k] = d
  <2>1. On(c, d) /\ Len(d) \in 1..Len(c)
    BY OnParent DEF On
  <2>2. Ancestor(c, Len(d)) = d
    BY Zenon, <1>1, <2>1, OnEqual
  <2> QED
    BY Zenon, <2>1, <2>2
<1>3. f \in Surjection(1..Len(c), Proposals(c))
  BY Zenon, <1>1, <1>2 DEF Surjection
<1>4. IsFiniteSet(1..Len(c))
  BY FS_Interval
<1> QED
  BY Zenon, <1>3, <1>4, FS_Surjection

(* send_replies: what is sent is on the chain of the operator. *)
LEMMA SendRepliesOk ==
    ASSUME NEW ch \in [LaneIds -> Seq(Batches)], NEW K, NEW n \in LaneIds, NEW s,
           NodeOk(n, s, ch, K), NEW throttled
    PROVE  ResultOk(n, send_replies(n, s, throttled), ch, K)
<1> DEFINE due == {r \in (DOMAIN s.todo) \X Nodes : r[2] \in s.todo[r[1]].to} \ throttled
           there == {r \in due : contains(s.lanes[n], r[1])}
           kept == {r[1] : r \in due \ there}
           replied == s.replied \cup due
           todo == [d \in kept |-> [entry |-> s.todo[d].entry,
                                    to |-> {r[2] : r \in {q \in due : q[1] = d}}]]
           r1 == [s EXCEPT !.replied = replied, !.todo = todo]
           rs == SetToSeq(there)
           out == [i \in DOMAIN rs |-> SyncReply(rs[i][2], rs[i][1], s.todo[rs[i][1]].entry)]
<1>1. RepliesOk(n, s, ch)
  BY Zenon DEF NodeOk
<1>2. \A q \in due : /\ q \in (DOMAIN s.todo) \X Nodes
                     /\ q[1] \in DOMAIN s.todo /\ q[2] \in s.todo[q[1]].to
                     /\ q[1] \in Proposals(ch[n]) /\ q[2] \in Nodes \ {n}
  <2> TAKE q \in due
  <2>1. q \in (DOMAIN s.todo) \X Nodes /\ q[2] \in s.todo[q[1]].to
    BY Zenon
  <2>2. q[1] \in DOMAIN s.todo
    BY Zenon, <2>1
  <2> HIDE DEF due
  <2>3. q[1] \in Proposals(ch[n]) /\ s.todo[q[1]].to \subseteq Nodes \ {n}
    BY Zenon, <1>1, <2>2 DEF RepliesOk
  <2> QED
    BY Zenon, <2>1, <2>2, <2>3
<1>3. there \subseteq due
  BY Zenon
<1>4. IsFiniteSet(there)
  <2>1. IsFiniteSet(Proposals(ch[n]))
    BY Zenon, ProposalsFinite
  <2>2. IsFiniteSet(Nodes)
    BY FS_Interval, LanesAssumption DEF Nodes
  <2>3. IsFiniteSet(Proposals(ch[n]) \X Nodes)
    BY Zenon, <2>1, <2>2, FS_Product
  <2>4. there \in SUBSET (Proposals(ch[n]) \X Nodes)
    BY Zenon, <1>2, <1>3
  <2> QED
    BY <2>3, <2>4, FS_Subset
<1>5. rs \in Seq(there)
  BY Zenon, <1>4, SetToSeqIn
<1>6. \A d \in kept : d \in DOMAIN s.todo
  BY Zenon, <1>2
<1>7. replied \subseteq Dps \X Nodes
  BY Zenon, <1>1, <1>2 DEF RepliesOk, Proposals
<1>8. send_replies(n, s, throttled) = Result(r1, out)
  BY Zenon DEF send_replies
<1> HIDE DEF there, rs, kept, replied
<1>9. out \in [DOMAIN rs -> Outs(n, ch)]
  <2> SUFFICES ASSUME NEW i \in DOMAIN rs
               PROVE  SyncReply(rs[i][2], rs[i][1], s.todo[rs[i][1]].entry) \in Outs(n, ch)
    BY Zenon
  <2> DEFINE q == rs[i]
  <2>1. q \in due
    BY <1>3, <1>5
  <2> HIDE DEF q, due
  <2>2. /\ q[1] \in DOMAIN s.todo /\ q[1] \in Proposals(ch[n])
        /\ q[2] \in Nodes /\ q[2] # n
    BY Zenon, <1>2, <2>1
  <2>3. s.todo[q[1]].entry \in Entries /\ s.todo[q[1]].entry.size = Len(q[1])
    BY Zenon, <1>1, <2>2 DEF RepliesOk
  <2>4. SyncReply(q[2], q[1], s.todo[q[1]].entry) \in Outs(n, ch)
    BY Zenon, <2>2, <2>3, ReplyOut
  <2> QED
    BY Zenon, <2>4 DEF q
<1> HIDE DEF out
<1>10. out \in Seq(Outs(n, ch))
  BY Zenon, <1>5, <1>9, MappedSeq
<1>11. ASSUME NEW d \in DOMAIN todo
       PROVE  /\ d \in Proposals(ch[n])
              /\ todo[d].entry \in Entries /\ todo[d].entry.size = Len(d)
              /\ todo[d].to \subseteq Nodes \ {n}
  <2>1. d \in DOMAIN s.todo
    BY Zenon, <1>6
  <2>2. \A q \in {p \in due : p[1] = d} : q[2] \in Nodes \ {n}
    BY Zenon, <1>2
  <2> HIDE DEF due
  <2>3. todo[d].entry = s.todo[d].entry /\ todo[d].to \subseteq Nodes \ {n}
    BY Zenon, <2>2
  <2> QED
    BY Zenon, <1>1, <2>1, <2>3 DEF RepliesOk
<1> HIDE DEF todo
<1>12. /\ DOMAIN r1 = Fields /\ r1.lanes = s.lanes /\ r1.buffered = s.buffered
       /\ r1.podas = s.podas /\ r1.tasks = s.tasks
       /\ r1.waiting = s.waiting /\ r1.preparing = s.preparing /\ r1.known = s.known
       /\ r1.last = s.last /\ r1.building = s.building /\ r1.started = s.started
       /\ r1.built = s.built /\ r1.todo = todo /\ r1.replied = replied
  BY Zenon DEF NodeOk, Fields
<1> HIDE DEF r1
<1>13. RepliesOk(n, r1, ch)
  BY Zenon, <1>7, <1>11, <1>12 DEF RepliesOk
<1>14. NodeOk(n, r1, ch, K)
  BY Zenon, <1>12, <1>13, Frame
<1> QED
  BY Zenon, <1>8, <1>10, <1>14, ResultIs

---------------------------------------------------------------------------
(* The chains grow: the operator puts a proposal on top of its own. *)

Grown(ch, g) == \A l \in LaneIds : On(g[l], ch[l])

(* A longer chain has the proposals of the shorter one, *)
LEMMA ProposalsGrow ==
    ASSUME NEW c \in Seq(Batches), NEW g \in Seq(Batches), On(g, c)
    PROVE  Proposals(c) \subseteq Proposals(g)
  BY Zenon, OnGrown DEF Proposals

(* so that a copy of the one is a copy of the other. *)
LEMMA LaneGrows ==
    ASSUME NEW c \in Seq(Batches), NEW g \in Seq(Batches), On(g, c), NEW lane, LaneOk(c, lane)
    PROVE  LaneOk(g, lane)
  BY Zenon, OnGrown, ProposalsGrow DEF LaneOk

(* Sequences over a larger set. *)
LEMMA SubSeqSet ==
    ASSUME NEW X, NEW Y, X \subseteq Y
    PROVE  Seq(X) \subseteq Seq(Y)
  OBVIOUS

(* The same of what is buffered and processed, *)
LEMMA QueuesGrow ==
    ASSUME NEW ch \in [LaneIds -> Seq(Batches)], NEW g \in [LaneIds -> Seq(Batches)], Grown(ch, g),
           NEW n, NEW s, QueuesOk(n, s, ch)
    PROVE  QueuesOk(n, s, g)
<1>1. \A l \in LaneIds : s.buffered[l] \in Seq(Proposals(g[l]))
  BY Zenon, ProposalsGrow, SubSeqSet DEF QueuesOk, Grown
<1>2. \A t \in Tasks(n, ch) : t \in Tasks(n, g)
  BY Zenon, OnGrown DEF Tasks, Grown
<1>3. s.tasks \in Seq(Tasks(n, g))
  BY Zenon, <1>2, SubSeqSet DEF QueuesOk
<1> QED
  BY Zenon, <1>1, <1>3 DEF QueuesOk

(* of what is to be replied, *)
LEMMA RepliesGrow ==
    ASSUME NEW ch \in [LaneIds -> Seq(Batches)], NEW g \in [LaneIds -> Seq(Batches)], Grown(ch, g),
           NEW n, NEW s, RepliesOk(n, s, ch)
    PROVE  RepliesOk(n, s, g)
<1>1. \A l \in LaneIds : Proposals(ch[l]) \subseteq Proposals(g[l])
  BY Zenon, ProposalsGrow DEF Grown
<1> QED
  BY Zenon, <1>1 DEF RepliesOk

(* The other nodes are not concerned. *)
LEMMA OthersGrow ==
    ASSUME NEW ch \in [LaneIds -> Seq(Batches)], NEW g \in [LaneIds -> Seq(Batches)], Grown(ch, g),
           NEW K, NEW n, n \in LaneIds => g[n] = ch[n], NEW s, NodeOk(n, s, ch, K)
    PROVE  NodeOk(n, s, g, K)
<1>1. /\ DOMAIN s = Fields /\ LanesOk(n, s, ch) /\ QueuesOk(n, s, ch) /\ OwnOk(n, s, ch)
      /\ SlotsOk(s, K) /\ RepliesOk(n, s, ch)
  BY Zenon DEF NodeOk
<1>2. \A l \in LaneIds : LaneOk(g[l], s.lanes[l])
  BY Zenon, <1>1, LaneGrows DEF LanesOk, Grown
<1>3. LanesOk(n, s, g)
  BY Zenon, <1>1, <1>2 DEF LanesOk
<1>4. QueuesOk(n, s, g) /\ RepliesOk(n, s, g)
  BY Zenon, <1>1, QueuesGrow, RepliesGrow
<1>5. OwnOk(n, s, g)
  BY Zenon, <1>1 DEF OwnOk
<1> QED
  BY Zenon, <1>1, <1>3, <1>4, <1>5 DEF NodeOk

(* of the messages on a link, *)
LEMMA LinkGrows ==
    ASSUME NEW ch \in [LaneIds -> Seq(Batches)], NEW g \in [LaneIds -> Seq(Batches)], Grown(ch, g),
           NEW a, NEW b
    PROVE  Link(a, b, ch) \subseteq Link(a, b, g)
<1> SUFFICES ASSUME NEW m \in Link(a, b, ch)
             PROVE  m \in Link(a, b, g)
  BY Zenon
<1>1. m \in Message /\ MsgOk(a, b, ch, m)
  BY Zenon DEF Link
<1>2. \A l \in LaneIds : \A d : On(ch[l], d) => On(g[l], d)
  BY Zenon, OnGrown DEF Grown
<1>3. MsgOk(a, b, g, m)
  BY Zenon, <1>1, <1>2 DEF MsgOk
<1> QED
  BY Zenon, <1>1, <1>3 DEF Link

(* and of the cuts. *)
LEMMA CutsGrow ==
    ASSUME NEW ch \in [LaneIds -> Seq(Batches)], NEW g \in [LaneIds -> Seq(Batches)], Grown(ch, g),
           NEW K, CutsOk(ch, K)
    PROVE  CutsOk(g, K)
<1>1. ASSUME NEW i \in 1..Len(K)
      PROVE  CutOk(g, K[i])
  <2>1. DOMAIN K[i] \subseteq LaneIds /\ CutOk(ch, K[i])
    BY Zenon, CutFacts DEF CutsOk
  <2> QED
    BY <2>1, OnGrown DEF CutOk, Grown
<1> QED
  BY Zenon, <1>1 DEF CutsOk

(* resume_new_data_proposal always stores the proposal: nothing moved the tip meanwhile. *)
LEMMA ResumeOk ==
    ASSUME NEW ch \in [LaneIds -> Seq(Batches)], NEW K, NEW n \in LaneIds, NEW s,
           NodeOk(n, s, ch, K), s.preparing # NoDp,
           NEW g, g = [ch EXCEPT ![n] = s.preparing]
    PROVE  /\ g \in [LaneIds -> Seq(Batches)] /\ Grown(ch, g)
           /\ ResultOk(n, resume_new_data_proposal(n, s), g, K)
<1> DEFINE p == s.preparing
           lane == s.lanes[n]
           stored == store_data_proposal(n, lane, p)
           ls == With(s.lanes, n, stored)
           s1 == [s EXCEPT !.preparing = NoDp, !.lanes = ls]
<1>1. /\ p \in Dps /\ p \in Seq(Batches) /\ Parent(p) = ch[n] /\ p # NoDp
      /\ LaneOk(ch[n], lane) /\ OwnLaneOk(n, ch[n], lane) /\ lane.tip = ch[n]
      /\ n \in Nodes /\ ch[n] \in Seq(Batches)
  BY Zenon, MempoolAssumption DEF NodeOk, OwnOk, LanesOk, OwnLaneOk, Dps
<1> HIDE DEF p, lane
<1>2. /\ Len(p) \in Nat /\ Len(p) > 0 /\ Len(ch[n]) = Len(p) - 1
      /\ \A i \in 1..Len(ch[n]) : p[i] = ch[n][i]
  <2>1. Len(p) \in Nat /\ Len(p) > 0
    BY <1>1 DEF NoDp
  <2> DEFINE k == Len(p) - 1
  <2>2. k \in Nat /\ k <= Len(p)
    BY <2>1
  <2> HIDE DEF k
  <2>3. ch[n] = SubSeq(p, 1, k)
    BY Zenon, <1>1 DEF Parent, k
  <2>4. Len(ch[n]) = k /\ \A i \in 1..k : p[i] = ch[n][i]
    BY <1>1, <2>2, <2>3
  <2> QED
    BY Zenon, <2>1, <2>4 DEF k
<1>3. On(p, ch[n])
  BY <1>1, <1>2 DEF On
<1>4. g \in [LaneIds -> Seq(Batches)] /\ g[n] = p /\ \A l \in LaneIds : l # n => g[l] = ch[l]
  BY Zenon, <1>1 DEF p
<1>5. Grown(ch, g)
  BY Zenon, <1>3, <1>4, OnSelf DEF Grown
<1>6. LaneOk(p, lane)
  BY Zenon, <1>1, <1>3, LaneGrows
<1>7. ~contains(lane, p)
  BY <1>1, <1>2 DEF LaneOk, contains, Proposals, On
<1>8. CanStore(lane, p)
  BY Zenon, <1>1, <1>7 DEF CanStore, can_be_put_on_top
<1>9. p \in Proposals(p)
  BY Zenon, <1>1, OnSelf DEF Proposals
<1>10. LaneOk(p, stored) /\ Stored(n, lane, p, stored)
  BY Zenon, <1>1, <1>6, <1>8, <1>9, StoreOk
<1> HIDE DEF stored
<1>11. OwnLaneOk(n, p, stored)
  <2>1. stored.tip = p /\ DOMAIN stored.entries = DOMAIN lane.entries \cup {p}
    BY Zenon, <1>10 DEF Stored
  <2>2. ASSUME NEW k \in 1..Len(p)
        PROVE  Ancestor(p, k) \in DOMAIN stored.entries
    <3>1. CASE k = Len(p)
      <4>1. Ancestor(p, k) = p
        BY <1>1, <1>2, <3>1 DEF Ancestor
      <4> QED
        BY Zenon, <2>1, <4>1
    <3>2. CASE k # Len(p)
      <4>1. k \in 1..Len(ch[n])
        BY <1>2, <3>2
      <4>2. Ancestor(p, k) = Ancestor(ch[n], k)
        BY <1>1, <1>2, <4>1 DEF Ancestor
      <4> QED
        BY Zenon, <1>1, <2>1, <4>1, <4>2 DEF OwnLaneOk
    <3> QED
      BY Zenon, <3>1, <3>2
  <2>3. ASSUME NEW d \in DOMAIN stored.entries
        PROVE  n \in stored.entries[d].sigs
    BY <1>1, <1>10, <2>1 DEF Stored, OwnLaneOk, Entry
  <2> QED
    BY Zenon, <2>1, <2>2, <2>3 DEF OwnLaneOk
<1> HIDE DEF ls
<1>12. /\ DOMAIN s1 = Fields /\ s1.lanes = ls /\ s1.buffered = s.buffered
       /\ s1.podas = s.podas /\ s1.tasks = s.tasks
       /\ s1.waiting = s.waiting /\ s1.preparing = NoDp /\ s1.known = s.known
       /\ s1.last = s.last /\ s1.building = s.building /\ s1.started = s.started
       /\ s1.built = s.built /\ s1.todo = s.todo /\ s1.replied = s.replied
  BY Zenon DEF NodeOk, Fields
<1> DEFINE out == IF Len(p) \in Pending(n, s1) THEN rebroadcast_data_proposal(n, s1, p) ELSE <<>>
<1>13. resume_new_data_proposal(n, s) = Result(s1, out)
  BY Zenon, <1>8 DEF resume_new_data_proposal, p, lane, stored, ls
<1> HIDE DEF s1
<1>14. LanesOk(n, s1, g)
  <2>1. \A l \in LaneIds : LaneOk(g[l], ls[l])
    BY Zenon, <1>1, <1>4, <1>10 DEF ls, With, NodeOk, LanesOk
  <2>2. DOMAIN ls = LaneIds /\ ls[n] = stored
    BY Zenon DEF ls, With, NodeOk, LanesOk
  <2> QED
    BY Zenon, <1>4, <1>11, <1>12, <2>1, <2>2 DEF LanesOk
<1>15. QueuesOk(n, s1, g) /\ RepliesOk(n, s1, g) /\ OwnOk(n, s1, g) /\ SlotsOk(s1, K)
  <2>1. QueuesOk(n, s, g) /\ RepliesOk(n, s, g)
    BY Zenon, <1>4, <1>5, QueuesGrow, RepliesGrow DEF NodeOk
  <2> QED
    BY Zenon, <1>12, <2>1 DEF QueuesOk, RepliesOk, OwnOk, SlotsOk, NodeOk
<1>16. NodeOk(n, s1, g, K)
  BY Zenon, <1>12, <1>14, <1>15 DEF NodeOk
<1>17. contains(s1.lanes[n], p)
  BY Zenon, <1>10, <1>12 DEF ls, With, NodeOk, LanesOk, Stored, contains
<1>18. rebroadcast_data_proposal(n, s1, p) \in Seq(Outs(n, g)) /\ <<>> \in Seq(Outs(n, g))
  BY <1>14, <1>17, RebroadcastOk
<1>19. out \in Seq(Outs(n, g))
  BY Zenon, <1>18
<1> HIDE DEF out
<1>20. ResultOk(n, Result(s1, out), g, K)
  BY Zenon, <1>16, <1>19, ResultIs
<1> QED
  BY Zenon, <1>4, <1>5, <1>13, <1>20

---------------------------------------------------------------------------
(* Consensus commits one more cut. *)

(* A commit leaves the earlier cuts where they are. *)
LEMMA AppendedCut ==
    ASSUME NEW K \in Seq(Cuts), NEW c
    PROVE  /\ Len(Append(K, c)) = Len(K) + 1 /\ Append(K, c)[Len(K) + 1] = c
           /\ \A k \in 1..Len(K) : Append(K, c)[k] = K[k]
           /\ \A k \in 0..Len(K) : At(Append(K, c), k) = At(K, k)
  BY DEF At

(* What a node knows of the cuts stays true when one is added, *)
LEMMA SlotsGrow ==
    ASSUME NEW ch, NEW K, CutsOk(ch, K), NEW c, NEW s, SlotsOk(s, K)
    PROVE  SlotsOk(s, Append(K, c))
<1> DEFINE L == Append(K, c)
<1>1. /\ K \in Seq(Cuts) /\ Len(K) \in Nat /\ Len(L) = Len(K) + 1
      /\ \A k \in 1..Len(K) : L[k] = K[k]
      /\ \A k \in 0..Len(K) : At(L, k) = At(K, k)
  BY AppendedCut DEF CutsOk
<1> HIDE DEF L
<1>2. Builds(K) \subseteq Builds(L)
  <2> SUFFICES ASSUME NEW k \in 1..Len(K)
               PROVE  [slot |-> k, from |-> At(K, k - 1), cut |-> K[k]] \in Builds(L)
    BY Zenon DEF Builds
  <2>1. k \in 1..Len(L) /\ L[k] = K[k] /\ At(L, k - 1) = At(K, k - 1)
    BY <1>1
  <2> QED
    BY Zenon, <2>1 DEF Builds
<1>3. s.building \in Seq(Builds(L))
  BY Zenon, <1>2, SubSeqSet DEF SlotsOk
<1>4. ASSUME NEW b \in s.built
      PROVE  BlockOk(L, b)
  <2>1. BlockOk(K, b)
    BY Zenon DEF SlotsOk
  <2>2. b.slot \in 1..Len(K)
    BY Zenon, <2>1 DEF BlockOk
  <2>3. b.slot \in 1..Len(L) /\ L[b.slot] = K[b.slot] /\ At(L, b.slot - 1) = At(K, b.slot - 1)
    BY <1>1, <2>2
  <2> QED
    BY Zenon, <2>1, <2>3 DEF BlockOk
<1>5. s.last.slot \in 0..Len(K) /\ s.last.cut = At(K, s.last.slot) /\ s.started \in 0..Len(K)
  BY Zenon DEF SlotsOk
<1>6. s.last.slot \in 0..Len(L) /\ s.last.cut = At(L, s.last.slot) /\ s.started \in 0..Len(L)
  BY <1>1, <1>5
<1>7. SlotsOk(s, L)
  BY Zenon, <1>3, <1>4, <1>6 DEF SlotsOk
<1> QED
  BY Zenon, <1>7 DEF L

(* and so does the rest of its state. *)
LEMMA CommittedGrows ==
    ASSUME NEW ch, NEW K, CutsOk(ch, K), NEW c, NEW n, NEW s, NodeOk(n, s, ch, K)
    PROVE  NodeOk(n, s, ch, Append(K, c))
  BY Zenon, SlotsGrow DEF NodeOk

(* A cut that the validators accept contains the one before. *)
LEMMA VerifiedGrows ==
    ASSUME NEW ch, NEW K, CutsOk(ch, K), NEW c \in Cuts, CutOk(ch, c), verify_poda(c, At(K, Len(K)))
    PROVE  CutsOk(ch, Append(K, c))
<1> DEFINE L == Append(K, c)
<1>1. /\ K \in Seq(Cuts) /\ Len(K) \in Nat /\ Len(L) = Len(K) + 1 /\ L[Len(K) + 1] = c
      /\ \A k \in 1..Len(K) : L[k] = K[k]
      /\ \A k \in 0..Len(K) : At(L, k) = At(K, k)
  BY AppendedCut DEF CutsOk
<1>2. L \in Seq(Cuts)
  BY <1>1
<1> HIDE DEF L
<1> DEFINE parent == At(K, Len(K))
<1>3. \A l \in DOMAIN parent : parent[l].size = Len(parent[l].dp) /\ Len(parent[l].dp) \in Nat
  <2>1. CASE Len(K) = 0
    BY <2>1 DEF At, EmptyCut
  <2>2. CASE Len(K) # 0
    <3>1. CutOk(ch, K[Len(K)]) /\ parent = K[Len(K)]
      BY <1>1, <2>2 DEF CutsOk, At
    <3> QED
      BY <3>1 DEF CutOk, On
  <2> QED
    BY Zenon, <2>1, <2>2
<1>4. \A l \in DOMAIN c : c[l].size = Len(c[l].dp) /\ Len(c[l].dp) \in Nat
  BY DEF CutOk, On
<1>5. \A l \in DOMAIN parent : l \in DOMAIN c /\ Len(parent[l].dp) <= Len(c[l].dp)
  <2> HIDE DEF parent
  <2> SUFFICES ASSUME NEW l \in DOMAIN parent
               PROVE  l \in DOMAIN c /\ Len(parent[l].dp) <= Len(c[l].dp)
    BY Zenon
  <2>1. l \in DOMAIN c /\ (c[l].dp = parent[l].dp \/ c[l].size > parent[l].size)
    BY Zenon DEF verify_poda, parent
  <2> QED
    BY <1>3, <1>4, <2>1
<1>6. ASSUME NEW i \in 1..Len(L)
      PROVE  /\ CutOk(ch, L[i])
             /\ \A l \in DOMAIN At(L, i - 1) :
                    l \in DOMAIN L[i] /\ Len(At(L, i - 1)[l].dp) <= Len(L[i][l].dp)
  <2>1. CASE i = Len(K) + 1
    <3>1. At(L, i - 1) = parent /\ L[i] = c
      BY <1>1, <2>1
    <3> QED
      BY Zenon, <1>5, <3>1
  <2>2. CASE i # Len(K) + 1
    <3>1. i \in 1..Len(K) /\ L[i] = K[i] /\ At(L, i - 1) = At(K, i - 1)
      BY <1>1, <2>2
    <3> QED
      BY Zenon, <3>1 DEF CutsOk
  <2> QED
    BY Zenon, <2>1, <2>2
<1>7. CutsOk(ch, L)
  BY Zenon, <1>2, <1>6 DEF CutsOk
<1> QED
  BY Zenon, <1>7 DEF L

---------------------------------------------------------------------------
(* The steps. *)

(* The chains are sequences of batches. *)
LEMMA ChainsAre ==
    ASSUME MempoolInv
    PROVE  Chains \in [LaneIds -> Seq(Batches)]
<1> SUFFICES ASSUME NEW l \in LaneIds
             PROVE  node[l].lanes[l].tip \in Seq(Batches)
  BY Zenon DEF Chains
<1>1. NodeOk(l, node[l], Chains, committed)
  BY Zenon, MempoolAssumption DEF MempoolInv
<1> QED
  BY Zenon, <1>1 DEF NodeOk, LanesOk, LaneOk, On

(* The step of a node: its lane may grow, the others do not change. *)
LEMMA StepOk ==
    ASSUME MempoolInv, NEW n \in Nodes, NEW g \in [LaneIds -> Seq(Batches)], Grown(Chains, g),
           \A l \in LaneIds : l # n => g[l] = Chains[l],
           NEW r, ResultOk(n, r, g, committed),
           NEW queues, DOMAIN queues = Nodes \X Nodes,
           \A a, b \in Nodes : queues[<<a, b>>] \in Seq(Link(a, b, Chains)),
           Step(n, r, queues), committed' = committed, clients' \in Seq(Txs \X LaneIds)
    PROVE  MempoolInv'
<1>1. /\ DOMAIN node = Nodes /\ \A m \in Nodes : NodeOk(m, node[m], Chains, committed)
      /\ CutsOk(Chains, committed) /\ Len(committed) <= MaxSlot
      /\ NodeOk(n, r.s, g, committed) /\ r.out \in Seq(Outs(n, g))
  BY Zenon DEF MempoolInv, ResultOk
<1>2. DOMAIN node' = Nodes /\ node'[n] = r.s /\ \A m \in Nodes : m # n => node'[m] = node[m]
  BY Zenon, <1>1 DEF Step
<1>3. Chains' = g
  <2>1. ASSUME NEW l \in LaneIds
        PROVE  node'[l].lanes[l].tip = g[l]
    <3>1. CASE l = n
      BY Zenon, <1>1, <1>2, <3>1 DEF NodeOk, LanesOk, OwnLaneOk
    <3>2. CASE l # n
      <4>1. node'[l] = node[l]
        BY Zenon, <1>2, <3>2, MempoolAssumption
      <4> QED
        BY Zenon, <3>2, <4>1 DEF Chains
    <3> QED
      BY Zenon, <3>1, <3>2
  <2>2. Chains' = [l \in LaneIds |-> node'[l].lanes[l].tip]
    BY Zenon DEF Chains
  <2> QED
    BY Zenon, <2>1, <2>2
<1>4. Chains \in [LaneIds -> Seq(Batches)]
  BY Zenon, ChainsAre
<1>5. ASSUME NEW m \in Nodes
      PROVE  NodeOk(m, node'[m], g, committed)
  <2>1. CASE m = n
    BY Zenon, <1>1, <1>2, <2>1
  <2>2. CASE m # n
    <3>1. m \in LaneIds => g[m] = Chains[m]
      BY Zenon, <2>2
    <3>2. NodeOk(m, node[m], g, committed)
      BY Zenon, <1>1, <1>4, <3>1, OthersGrow
    <3> QED
      BY Zenon, <1>2, <2>2, <3>2
  <2> QED
    BY Zenon, <2>1, <2>2
<1>6. ASSUME NEW a \in Nodes, NEW b \in Nodes
      PROVE  net'[<<a, b>>] \in Seq(Link(a, b, g))
  <2>1. queues[<<a, b>>] \in Seq(Link(a, b, g))
    BY ZenonT(40), <1>4, LinkGrows, SubSeqSet
  <2>2. SentTo(r.out, b) \in Seq(Link(n, b, g))
    BY Zenon, <1>1, SentOk
  <2>3. net'[<<a, b>>] = IF a = n THEN queues[<<a, b>>] \o SentTo(r.out, b) ELSE queues[<<a, b>>]
    BY Zenon DEF Step
  <2>4. CASE a = n
    <3>1. queues[<<n, b>>] \o SentTo(r.out, b) \in Seq(Link(n, b, g))
      BY <2>1, <2>2, <2>4
    <3> QED
      BY Zenon, <2>3, <2>4, <3>1
  <2>5. CASE a # n
    BY Zenon, <2>1, <2>3, <2>5
  <2> QED
    BY Zenon, <2>4, <2>5
<1>7. DOMAIN net' = Nodes \X Nodes
  BY Zenon DEF Step
<1>8. CutsOk(g, committed)
  BY Zenon, <1>1, <1>4, CutsGrow
<1> QED
  BY Zenon, <1>1, <1>2, <1>3, <1>5, <1>6, <1>7, <1>8 DEF MempoolInv

(* A step that leaves the chains as they are. *)
LEMMA StepsInPlace ==
    ASSUME MempoolInv, NEW n \in Nodes, NEW r, ResultOk(n, r, Chains, committed),
           Step(n, r, net), committed' = committed, clients' \in Seq(Txs \X LaneIds)
    PROVE  MempoolInv'
<1>1. Chains \in [LaneIds -> Seq(Batches)]
  BY Zenon, ChainsAre
<1>2. Grown(Chains, Chains)
  BY Zenon, <1>1, OnSelf DEF Grown
<1>3. DOMAIN net = Nodes \X Nodes /\ \A a, b \in Nodes : net[<<a, b>>] \in Seq(Link(a, b, Chains))
  BY Zenon DEF MempoolInv
<1> QED
  BY Zenon, <1>1, <1>2, <1>3, StepOk

(* A step without a message received. *)
LEMMA LocalInv ==
    ASSUME MempoolInv, NEW n \in Nodes, NEW r, ResultOk(n, r, Chains, committed), Local(n, r)
    PROVE  MempoolInv'
<1>1. Step(n, r, net) /\ committed' = committed /\ clients' = clients
  BY Zenon DEF Local
<1>2. clients' \in Seq(Txs \X LaneIds)
  BY Zenon, <1>1 DEF MempoolInv
<1> QED
  BY Zenon, <1>1, <1>2, StepsInPlace

(* What the steps use of the invariant. *)
LEMMA Facts ==
    ASSUME MempoolInv
    PROVE  /\ Chains \in [LaneIds -> Seq(Batches)] /\ CutsOk(Chains, committed)
           /\ \A n \in Nodes : NodeOk(n, node[n], Chains, committed)
           /\ \A n \in LaneIds : n \in Nodes /\ NodeOk(n, node[n], Chains, committed)
           /\ clients \in Seq(Txs \X LaneIds)
           /\ \A n : <<>> \in Seq(Outs(n, Chains))
<1>1. Chains \in [LaneIds -> Seq(Batches)]
  BY Zenon, ChainsAre
<1>2. \A n : <<>> \in Seq(Outs(n, Chains))
  OBVIOUS
<1> QED
  BY Zenon, <1>1, <1>2, MempoolAssumption DEF MempoolInv

(* A client sends a transaction. *)
LEMMA NewTxInv ==
    ASSUME MempoolInv, NewTx
    PROVE  MempoolInv'
<1> DEFINE h == Head(clients)
           n == h[2]
           s == on_new_tx(node[n], h[1])
<1>1. clients \in Seq(Txs \X LaneIds) /\ clients # <<>>
  BY Zenon, Facts DEF NewTx
<1>2. h \in Txs \X LaneIds /\ Tail(clients) \in Seq(Txs \X LaneIds)
  BY <1>1
<1>3. Step(n, Result(s, <<>>), net) /\ committed' = committed /\ clients' = Tail(clients)
  BY Zenon DEF NewTx
<1> HIDE DEF h
<1>4. n \in LaneIds /\ h[1] \in Txs
  BY Zenon, <1>2
<1> HIDE DEF n
<1>5. n \in Nodes /\ NodeOk(n, node[n], Chains, committed) /\ <<>> \in Seq(Outs(n, Chains))
  BY Zenon, <1>4, Facts
<1>6. NodeOk(n, s, Chains, committed)
  BY Zenon, <1>4, <1>5, NewTxOk
<1> HIDE DEF s
<1>7. ResultOk(n, Result(s, <<>>), Chains, committed)
  BY Zenon, <1>5, <1>6, ResultIs
<1>8. clients' \in Seq(Txs \X LaneIds)
  BY Zenon, <1>2, <1>3
<1> QED
  BY Zenon, <1>3, <1>5, <1>7, <1>8, StepsInPlace

(* The timer of the operator prepares a data proposal. *)
LEMMA PrepareInv ==
    ASSUME MempoolInv, NEW n \in LaneIds, PrepareDataProposal(n)
    PROVE  MempoolInv'
<1> DEFINE s == init_dp_preparation_if_pending(n, node[n])
<1>1. node[n].waiting # <<>> /\ Local(n, Result(s, <<>>))
  BY Zenon DEF PrepareDataProposal
<1>2. NodeOk(n, s, Chains, committed)
  BY Zenon, <1>1, Facts, PreparationOk
<1> HIDE DEF s
<1>3. ResultOk(n, Result(s, <<>>), Chains, committed)
  BY Zenon, <1>2, Facts, ResultIs
<1> QED
  BY Zenon, <1>1, <1>3, Facts, LocalInv

(* The data proposal that was prepared is stored and sent. *)
LEMMA ResumeInv ==
    ASSUME MempoolInv, NEW n \in LaneIds, ResumeDataProposal(n)
    PROVE  MempoolInv'
<1> DEFINE r == resume_new_data_proposal(n, node[n])
           g == [Chains EXCEPT ![n] = node[n].preparing]
<1>1. /\ node[n].preparing # NoDp /\ Step(n, r, net)
      /\ committed' = committed /\ clients' = clients
  BY Zenon DEF ResumeDataProposal, Local
<1>2. n \in Nodes /\ NodeOk(n, node[n], Chains, committed) /\ Chains \in [LaneIds -> Seq(Batches)]
  BY Zenon, Facts
<1>3. /\ g \in [LaneIds -> Seq(Batches)] /\ Grown(Chains, g)
      /\ ResultOk(n, r, g, committed)
  BY Zenon, <1>1, <1>2, ResumeOk
<1>4. \A l \in LaneIds : l # n => g[l] = Chains[l]
  BY Zenon, <1>2
<1>5. /\ clients' \in Seq(Txs \X LaneIds) /\ DOMAIN net = Nodes \X Nodes
      /\ \A a, b \in Nodes : net[<<a, b>>] \in Seq(Link(a, b, Chains))
  BY Zenon, <1>1 DEF MempoolInv
<1> HIDE DEF r, g
<1> QED
  BY Zenon, <1>1, <1>2, <1>3, <1>4, <1>5, StepOk

(* The timer sends the oldest pending proposal again. *)
LEMMA RedisseminateInv ==
    ASSUME MempoolInv, NEW n \in LaneIds, Redisseminate(n)
    PROVE  MempoolInv'
<1> DEFINE out == redisseminate_oldest_data_proposal(n, node[n])
<1>1. n \in Nodes /\ NodeOk(n, node[n], Chains, committed) /\ Chains \in [LaneIds -> Seq(Batches)]
  BY Zenon, Facts
<1>2. out \in Seq(Outs(n, Chains))
  BY Zenon, <1>1, RedisseminateOk DEF NodeOk
<1>3. Step(n, Result(node[n], out), net) /\ committed' = committed /\ clients' = clients
  BY Zenon DEF Redisseminate
<1> HIDE DEF out
<1>4. ResultOk(n, Result(node[n], out), Chains, committed)
  BY Zenon, <1>1, <1>2, ResultIs
<1>5. clients' \in Seq(Txs \X LaneIds)
  BY Zenon, <1>3, Facts
<1> QED
  BY Zenon, <1>1, <1>3, <1>4, <1>5, StepsInPlace

(* The task that answers requests sends replies. *)
LEMMA SendRepliesInv ==
    ASSUME MempoolInv, NEW n \in LaneIds, SendReplies(n)
    PROVE  MempoolInv'
<1>1. PICK throttled : Local(n, send_replies(n, node[n], throttled))
  BY Zenon DEF SendReplies
<1>2. ResultOk(n, send_replies(n, node[n], throttled), Chains, committed)
  BY Zenon, Facts, SendRepliesOk
<1> QED
  BY Zenon, <1>1, <1>2, Facts, LocalInv

(* A task ends. *)
LEMMA InternalInv ==
    ASSUME MempoolInv, NEW n \in Nodes, HandleInternalEvent(n)
    PROVE  MempoolInv'
<1> DEFINE task == Head(node[n].tasks)
           rest == Tail(node[n].tasks)
           s == [node[n] EXCEPT !.tasks = rest]
<1>1. /\ NodeOk(n, node[n], Chains, committed) /\ Chains \in [LaneIds -> Seq(Batches)]
      /\ QueuesOk(n, node[n], Chains) /\ DOMAIN node[n] = Fields
  BY Zenon, Facts DEF NodeOk
<1>2. task \in Tasks(n, Chains) /\ rest \in Seq(Tasks(n, Chains))
  BY <1>1 DEF HandleInternalEvent, QueuesOk
<1>3. IF task.event = "Hashed"
      THEN Local(n, on_hashed_data_proposal(s, task.lane, task.dp))
      ELSE \E verdict \in Decisions(s, task) :
               Local(n, on_processed_data_proposal(n, s, task.lane, task.dp, verdict))
  BY Zenon DEF HandleInternalEvent
<1> HIDE DEF task, rest
<1>4. task.lane \in LaneIds /\ task.lane # n /\ task.dp \in Proposals(Chains[task.lane])
  BY Zenon, <1>2 DEF Tasks, Proposals
<1>5. /\ DOMAIN s = Fields /\ s.lanes = node[n].lanes /\ s.buffered = node[n].buffered
      /\ s.podas = node[n].podas /\ s.tasks = rest
      /\ s.waiting = node[n].waiting /\ s.preparing = node[n].preparing /\ s.known = node[n].known
      /\ s.last = node[n].last /\ s.building = node[n].building /\ s.started = node[n].started
      /\ s.built = node[n].built /\ s.todo = node[n].todo /\ s.replied = node[n].replied
  BY Zenon, <1>1 DEF Fields
<1> HIDE DEF s
<1>6. QueuesOk(n, s, Chains)
  BY Zenon, <1>1, <1>2, <1>5 DEF QueuesOk
<1>7. NodeOk(n, s, Chains, committed)
  BY Zenon, <1>1, <1>5, <1>6, Frame
<1>8. CASE task.event = "Hashed"
  <2>1. ResultOk(n, on_hashed_data_proposal(s, task.lane, task.dp), Chains, committed)
    BY Zenon, <1>1, <1>4, <1>7, HashedOk
  <2> QED
    BY Zenon, <1>3, <1>8, <2>1, LocalInv
<1>9. CASE task.event # "Hashed"
  <2>1. PICK verdict : Local(n, on_processed_data_proposal(n, s, task.lane, task.dp, verdict))
    BY Zenon, <1>3, <1>9
  <2>2. ResultOk(n, on_processed_data_proposal(n, s, task.lane, task.dp, verdict), Chains, committed)
    BY Zenon, <1>1, <1>4, <1>7, ProcessedOk
  <2> QED
    BY Zenon, <2>1, <2>2, LocalInv
<1> QED
  BY Zenon, <1>8, <1>9

(* What a message holds. *)
LEMMA MessageFacts ==
    ASSUME NEW m \in Message
    PROVE  /\ m.dp \in Dps
           /\ m.type \in {"DataProposal", "DataVote", "PoDAUpdate", "SyncRequest", "SyncReply"}
           /\ m.type \in {"PoDAUpdate", "SyncReply"} => m.entry \in Entries
  BY Zenon DEF Message

(* Every message that may be on a link is handled in order. *)
LEMMA NetMessageOk ==
    ASSUME NEW ch \in [LaneIds -> Seq(Batches)], NEW K, CutsOk(ch, K), NEW n \in Nodes, NEW s,
           NodeOk(n, s, ch, K), NEW from \in Nodes, NEW m \in Link(from, n, ch)
    PROVE  ResultOk(n, handle_net_message(n, s, from, m), ch, K)
<1>1. m \in Message /\ MsgOk(from, n, ch, m) /\ from # n
  BY Zenon DEF Link, MsgOk
<1>2. /\ m.dp \in Dps
      /\ m.type \in {"DataProposal", "DataVote", "PoDAUpdate", "SyncRequest", "SyncReply"}
      /\ m.type \in {"PoDAUpdate", "SyncReply"} => m.entry \in Entries
  BY Zenon, <1>1, MessageFacts
<1>3. <<>> \in Seq(Outs(n, ch))
  OBVIOUS
<1>4. m.type \in {"DataProposal", "PoDAUpdate", "SyncReply"} =>
        from \in LaneIds /\ m.dp \in Proposals(ch[from])
  BY Zenon, <1>1, <1>2 DEF MsgOk, Proposals
<1>5. CASE m.type = "DataProposal"
  <2>1. <<m.dp>> \in Seq(Proposals(ch[from])) /\ from \in LaneIds
    BY <1>4, <1>5
  <2>2. ResultOk(n, on_data_proposals(s, from, <<m.dp>>), ch, K)
    BY Zenon, <1>1, <2>1, DataProposalsOk
  <2> QED
    BY Zenon, <1>5, <2>2 DEF handle_net_message
<1>6. CASE m.type = "DataVote"
  <2>1. n \in LaneIds
    BY Zenon, <1>1, <1>6 DEF MsgOk
  <2>2. ResultOk(n, on_data_vote(n, s, from, m.dp, m.size), ch, K)
    BY Zenon, <2>1, DataVoteOk
  <2> QED
    BY Zenon, <1>6, <2>2 DEF handle_net_message
<1>7. CASE m.type = "PoDAUpdate"
  <2>1. from \in LaneIds /\ m.dp \in Proposals(ch[from]) /\ m.entry \in Entries
    BY Zenon, <1>2, <1>4, <1>7
  <2>2. NodeOk(n, on_poda_update(s, from, m.dp, m.entry), ch, K)
    BY Zenon, <1>1, <2>1, PodaUpdateOk
  <2>3. ResultOk(n, Result(on_poda_update(s, from, m.dp, m.entry), <<>>), ch, K)
    BY Zenon, <1>3, <2>2, ResultIs
  <2> QED
    BY Zenon, <1>7, <2>3 DEF handle_net_message
<1>8. CASE m.type = "SyncRequest"
  <2>1. n \in LaneIds
    BY Zenon, <1>1, <1>8 DEF MsgOk
  <2>2. NodeOk(n, unfold_sync_request_interval(n, s, from, m.base, m.dp), ch, K)
    BY Zenon, <1>1, <2>1, UnfoldOk
  <2>3. ResultOk(n, Result(unfold_sync_request_interval(n, s, from, m.base, m.dp), <<>>), ch, K)
    BY Zenon, <1>3, <2>2, ResultIs
  <2> QED
    BY Zenon, <1>8, <2>3 DEF handle_net_message
<1>9. CASE m.type = "SyncReply"
  <2>1. /\ from \in LaneIds /\ m.dp \in Proposals(ch[from]) /\ m.entry \in Entries
        /\ m.entry.size = Len(m.dp)
    BY Zenon, <1>1, <1>2, <1>4, <1>9 DEF MsgOk
  <2>2. ResultOk(n, on_sync_reply(s, from, m.dp, m.entry), ch, K)
    BY Zenon, <1>1, <2>1, SyncReplyOk
  <2> QED
    BY Zenon, <1>9, <2>2 DEF handle_net_message
<1> QED
  BY Zenon, <1>2, <1>5, <1>6, <1>7, <1>8, <1>9

(* A message arrives. *)
LEMMA ReceiveInv ==
    ASSUME MempoolInv, NEW from \in Nodes, NEW n \in Nodes, Receive(from, n)
    PROVE  MempoolInv'
<1> DEFINE m == Head(net[<<from, n>>])
           r == handle_net_message(n, node[n], from, m)
           t == Tail(net[<<from, n>>])
           queues == [net EXCEPT ![<<from, n>>] = t]
<1>1. /\ net[<<from, n>>] # <<>> /\ Step(n, r, queues)
      /\ committed' = committed /\ clients' = clients
  BY Zenon DEF Receive
<1>2. /\ NodeOk(n, node[n], Chains, committed) /\ Chains \in [LaneIds -> Seq(Batches)]
      /\ CutsOk(Chains, committed) /\ clients' \in Seq(Txs \X LaneIds)
  BY Zenon, <1>1, Facts
<1>3. DOMAIN net = Nodes \X Nodes /\ \A a, b \in Nodes : net[<<a, b>>] \in Seq(Link(a, b, Chains))
  BY Zenon DEF MempoolInv
<1>4. m \in Link(from, n, Chains) /\ t \in Seq(Link(from, n, Chains))
  <2>1. net[<<from, n>>] \in Seq(Link(from, n, Chains))
    BY Zenon, <1>3
  <2> QED
    BY <1>1, <2>1
<1> HIDE DEF m, t
<1>5. ResultOk(n, r, Chains, committed)
  BY Zenon, <1>2, <1>4, NetMessageOk
<1> HIDE DEF r
<1>6. /\ DOMAIN queues = Nodes \X Nodes
      /\ \A a, b \in Nodes : queues[<<a, b>>] \in Seq(Link(a, b, Chains))
  <2>1. \A a, b \in Nodes : queues[<<a, b>>] = IF a = from /\ b = n THEN t ELSE net[<<a, b>>]
    BY Zenon, <1>3
  <2>2. DOMAIN queues = Nodes \X Nodes
    BY Zenon, <1>3
  <2> HIDE DEF queues
  <2> QED
    BY Zenon, <1>3, <1>4, <2>1, <2>2
<1> HIDE DEF queues
<1>7. Grown(Chains, Chains)
  BY Zenon, <1>2, OnSelf DEF Grown
<1> QED
  BY Zenon, <1>1, <1>2, <1>5, <1>6, <1>7, StepOk

(* A signed block is emitted. *)
LEMMA NewBlockInv ==
    ASSUME MempoolInv, NEW n \in Nodes, NewBlock(n)
    PROVE  MempoolInv'
<1> DEFINE s == [node[n] EXCEPT !.known = TRUE]
<1>1. NodeOk(n, node[n], Chains, committed) /\ <<>> \in Seq(Outs(n, Chains)) /\ DOMAIN node[n] = Fields
  BY Zenon, Facts DEF NodeOk
<1>2. /\ DOMAIN s = Fields /\ s.lanes = node[n].lanes /\ s.buffered = node[n].buffered
      /\ s.podas = node[n].podas /\ s.tasks = node[n].tasks
      /\ s.waiting = node[n].waiting /\ s.preparing = node[n].preparing /\ s.known = TRUE
      /\ s.last = node[n].last /\ s.building = node[n].building /\ s.started = node[n].started
      /\ s.built = node[n].built /\ s.todo = node[n].todo /\ s.replied = node[n].replied
  BY Zenon, <1>1 DEF Fields
<1>3. Local(n, Result(s, <<>>))
  BY Zenon DEF NewBlock
<1> HIDE DEF s
<1>4. OwnOk(n, s, Chains)
  BY Zenon, <1>1, <1>2 DEF OwnOk, NodeOk
<1>5. NodeOk(n, s, Chains, committed)
  BY Zenon, <1>1, <1>2, <1>4, Frame
<1>6. ResultOk(n, Result(s, <<>>), Chains, committed)
  BY Zenon, <1>1, <1>5, ResultIs
<1> QED
  BY Zenon, <1>3, <1>6, LocalInv

(* A cut that a leader proposed and the validators verified is committed. *)
LEMMA DecideInv ==
    ASSUME MempoolInv, NEW n \in Nodes, Decide(n)
    PROVE  MempoolInv'
<1> DEFINE cut == handle_querynewcut(node[n])
<1>1. /\ committed' = Append(committed, cut) /\ UNCHANGED <<node, net, clients>>
      /\ Len(committed) < MaxSlot /\ verify_poda(cut, CutAt(Len(committed)))
  BY Zenon DEF Decide, CanDecide
<1>2. CutAt(Len(committed)) = At(committed, Len(committed))
  BY Zenon DEF CutAt, At
<1>3. /\ NodeOk(n, node[n], Chains, committed) /\ Chains \in [LaneIds -> Seq(Batches)]
      /\ CutsOk(Chains, committed)
  BY Zenon, Facts
<1>4. cut \in Cuts /\ CutOk(Chains, cut)
  BY Zenon, <1>3, NewCutOk DEF NodeOk
<1> HIDE DEF cut
<1>5. CutsOk(Chains, Append(committed, cut))
  BY Zenon, <1>1, <1>2, <1>3, <1>4, VerifiedGrows
<1>6. Chains' = Chains
  BY Zenon, <1>1 DEF Chains
<1>7. \A m \in Nodes : NodeOk(m, node[m], Chains, Append(committed, cut))
  BY Zenon, <1>3, Facts, CommittedGrows
<1>8. Len(committed') <= MaxSlot
  <2>1. Len(committed) \in Nat /\ Len(committed') = Len(committed) + 1
    BY <1>1, <1>3 DEF CutsOk
  <2> QED
    BY <1>1, <2>1, MempoolAssumption
<1>9. /\ DOMAIN node = Nodes /\ DOMAIN net = Nodes \X Nodes
      /\ \A a, b \in Nodes : net[<<a, b>>] \in Seq(Link(a, b, Chains))
      /\ clients \in Seq(Txs \X LaneIds)
  BY Zenon DEF MempoolInv
<1> QED
  BY Zenon, <1>1, <1>5, <1>6, <1>7, <1>8, <1>9 DEF MempoolInv

(* A node learns of the commits, in order. *)
LEMMA CommitInv ==
    ASSUME MempoolInv, NEW n \in Nodes, CommitConsensusProposal(n)
    PROVE  MempoolInv'
<1>1. PICK slot \in DOMAIN committed :
            Local(n, handle_consensus_event(node[n], slot, committed[slot]))
  BY Zenon DEF CommitConsensusProposal
<1>2. slot \in 1..Len(committed)
  BY Facts DEF CutsOk
<1>3. ResultOk(n, handle_consensus_event(node[n], slot, committed[slot]), Chains, committed)
  BY Zenon, <1>2, Facts, ConsensusEventOk
<1> QED
  BY Zenon, <1>1, <1>3, LocalInv

(* A node that starts, with what it saved. *)
LEMMA RestartInv ==
    ASSUME MempoolInv, NEW n \in Nodes, Restart(n)
    PROVE  MempoolInv'
<1> DEFINE o == node[n]
           s == [MempoolInit EXCEPT
                    !.lanes = o.lanes, !.waiting = o.waiting, !.known = o.known, !.last = o.last,
                    !.building = o.building, !.built = o.built]
<1>1. /\ NodeOk(n, o, Chains, committed) /\ <<>> \in Seq(Outs(n, Chains))
      /\ CutsOk(Chains, committed) /\ clients \in Seq(Txs \X LaneIds)
  BY Zenon, Facts
<1>2. Step(n, Result(s, <<>>), net) /\ committed' = committed /\ clients' = clients
  BY Zenon DEF Restart
<1> HIDE DEF o
<1>3. /\ DOMAIN s = Fields /\ s.lanes = o.lanes
      /\ s.buffered = [l \in LaneIds |-> <<>>] /\ s.podas = [l \in LaneIds |-> {}]
      /\ s.tasks = <<>> /\ s.waiting = o.waiting /\ s.preparing = NoDp /\ s.known = o.known
      /\ s.last = o.last /\ s.building = o.building /\ s.started = 0
      /\ s.built = o.built /\ s.todo = <<>> /\ s.replied = {}
  BY Zenon DEF MempoolInit, Fields
<1> HIDE DEF s
<1>4. QueuesOk(n, s, Chains)
  BY <1>3 DEF QueuesOk
<1>5. OwnOk(n, s, Chains)
  BY Zenon, <1>1, <1>3 DEF OwnOk, NodeOk
<1>6. SlotsOk(s, committed)
  <2>1. 0 \in 0..Len(committed)
    BY <1>1 DEF CutsOk
  <2> QED
    BY Zenon, <1>1, <1>3, <2>1 DEF SlotsOk, NodeOk
<1>7. RepliesOk(n, s, Chains)
  BY <1>3 DEF RepliesOk
<1>8. NodeOk(n, s, Chains, committed)
  BY Zenon, <1>1, <1>3, <1>4, <1>5, <1>6, <1>7, Frame
<1>9. ResultOk(n, Result(s, <<>>), Chains, committed)
  BY Zenon, <1>1, <1>8, ResultIs
<1> QED
  BY Zenon, <1>1, <1>2, <1>9, StepsInPlace

(* A message is lost. *)
LEMMA LoseInv ==
    ASSUME MempoolInv, Lose
    PROVE  MempoolInv'
<1>1. PICK c \in Nodes \X Nodes : \E i \in DOMAIN net[c] : net' = [net EXCEPT ![c] = RemoveAt(net[c], i)]
  BY Zenon DEF Lose
<1>2. PICK i \in DOMAIN net[c] : net' = [net EXCEPT ![c] = RemoveAt(net[c], i)]
  BY Zenon, <1>1
<1>3. UNCHANGED <<node, committed, clients>>
  BY Zenon DEF Lose
<1>4. DOMAIN net = Nodes \X Nodes /\ \A a, b \in Nodes : net[<<a, b>>] \in Seq(Link(a, b, Chains))
  BY Zenon DEF MempoolInv
<1>5. PICK a \in Nodes, b \in Nodes : c = <<a, b>>
  OBVIOUS
<1>6. RemoveAt(net[c], i) \in Seq(Link(a, b, Chains))
  <2> DEFINE q == net[c]
             X == Link(a, b, Chains)
  <2>1. q \in Seq(X) /\ i \in 1..Len(q) /\ Len(q) \in Nat
    BY <1>4, <1>5
  <2> HIDE DEF q, X
  <2>2. SubSeq(q, 1, i - 1) \in Seq(X)
    <3> DEFINE k == i - 1
    <3>1. k \in Nat /\ k <= Len(q)
      BY <2>1
    <3> HIDE DEF k
    <3>2. SubSeq(q, 1, k) \in Seq(X)
      BY <2>1, <3>1
    <3> QED
      BY Zenon, <3>2 DEF k
  <2>3. SubSeq(q, i + 1, Len(q)) \in Seq(X)
    BY <2>1, SubSeqProperties
  <2>4. RemoveAt(q, i) \in Seq(X)
    BY <2>2, <2>3 DEF RemoveAt
  <2> QED
    BY Zenon, <2>4 DEF q, X
<1>7. ASSUME NEW x \in Nodes, NEW y \in Nodes
      PROVE  net'[<<x, y>>] \in Seq(Link(x, y, Chains))
  <2>1. CASE <<x, y>> = c
    <3>1. x = a /\ y = b
      BY <1>5, <2>1
    <3>2. net'[<<x, y>>] = RemoveAt(net[c], i)
      BY Zenon, <1>2, <1>4, <2>1
    <3> QED
      BY Zenon, <1>6, <3>1, <3>2
  <2>2. CASE <<x, y>> # c
    BY Zenon, <1>2, <1>4, <2>2
  <2> QED
    BY Zenon, <2>1, <2>2
<1>8. DOMAIN net' = Nodes \X Nodes /\ Chains' = Chains
  BY Zenon, <1>2, <1>3, <1>4 DEF Chains
<1> QED
  BY Zenon, <1>3, <1>7, <1>8 DEF MempoolInv

---------------------------------------------------------------------------
(* The invariant. *)

(* The lanes are empty at first. *)
LEMMA InitInv == Init => MempoolInv
<1> SUFFICES ASSUME Init
             PROVE  MempoolInv
  BY Zenon
<1> DEFINE s == MempoolInit
<1>1. /\ DOMAIN s = Fields /\ s.lanes = [l \in LaneIds |-> EmptyLane]
      /\ s.buffered = [l \in LaneIds |-> <<>>] /\ s.podas = [l \in LaneIds |-> {}]
      /\ s.tasks = <<>> /\ s.waiting = <<>> /\ s.preparing = NoDp /\ s.known = FALSE
      /\ s.last = [slot |-> 0, cut |-> EmptyCut] /\ s.building = <<>> /\ s.started = 0
      /\ s.built = {} /\ s.todo = <<>> /\ s.replied = {}
  BY Zenon DEF MempoolInit, Fields
<1>2. node = [n \in Nodes |-> s] /\ net = [c \in Nodes \X Nodes |-> <<>>] /\ committed = <<>>
      /\ clients \in Seq(Txs \X LaneIds)
  BY Zenon, MempoolAssumption DEF Init
<1> HIDE DEF s
<1>3. Chains = [l \in LaneIds |-> <<>>]
  <2>1. \A l \in LaneIds : node[l].lanes[l].tip = <<>>
    BY <1>1, <1>2, MempoolAssumption DEF EmptyLane, NoDp
  <2> QED
    BY Zenon, <2>1 DEF Chains
<1>4. Len(committed) = 0 /\ committed \in Seq(Cuts) /\ 0..Len(committed) = {0}
  BY <1>2
<1>5. ASSUME NEW n \in Nodes
      PROVE  NodeOk(n, s, Chains, committed)
  <2>1. LaneOk(<<>>, EmptyLane) /\ OwnLaneOk(n, <<>>, EmptyLane)
    BY DEF LaneOk, OwnLaneOk, EmptyLane, On, NoDp
  <2>2. LanesOk(n, s, Chains)
    BY Zenon, <1>1, <1>3, <2>1 DEF LanesOk
  <2>3. QueuesOk(n, s, Chains)
    BY <1>1 DEF QueuesOk
  <2>4. OwnOk(n, s, Chains) /\ RepliesOk(n, s, Chains)
    <3>1. <<>> \in Seq(Txs) /\ DOMAIN <<>> = {}
      OBVIOUS
    <3>2. s.known \in BOOLEAN
      BY <1>1, Zenon
    <3>3. s.waiting \in Seq(Txs) /\ DOMAIN s.todo = {}
      BY Zenon, <1>1, <3>1
    <3> QED
      BY Zenon, <1>1, <3>2, <3>3 DEF OwnOk, RepliesOk
  <2>5. SlotsOk(s, committed)
    <3>1. s.last.slot = 0 /\ s.last.cut = EmptyCut /\ At(committed, 0) = EmptyCut
      BY <1>1 DEF At
    <3> QED
      BY <1>1, <1>4, <3>1 DEF SlotsOk
  <2> QED
    BY Zenon, <1>1, <2>2, <2>3, <2>4, <2>5 DEF NodeOk
<1>6. \A a, b \in Nodes : net[<<a, b>>] \in Seq(Link(a, b, Chains))
  BY <1>2
<1>7. CutsOk(Chains, committed) /\ Len(committed) <= MaxSlot
  BY <1>4, MempoolAssumption DEF CutsOk
<1> QED
  BY Zenon, <1>2, <1>5, <1>6, <1>7 DEF MempoolInv

(* Each step keeps the invariant, *)
LEMMA NextInv == MempoolInv /\ [Next]_vars => MempoolInv'
<1> SUFFICES ASSUME MempoolInv, [Next]_vars
             PROVE  MempoolInv'
  BY Zenon
<1>1. CASE NewTx
  BY Zenon, <1>1, NewTxInv
<1>2. CASE \E n \in LaneIds : \/ PrepareDataProposal(n) \/ ResumeDataProposal(n)
                              \/ Redisseminate(n) \/ SendReplies(n)
  BY Zenon, <1>2, PrepareInv, ResumeInv, RedisseminateInv, SendRepliesInv
<1>3. CASE \E n \in Nodes : \/ HandleInternalEvent(n) \/ NewBlock(n) \/ Decide(n)
                            \/ CommitConsensusProposal(n) \/ Restart(n)
  BY Zenon, <1>3, InternalInv, NewBlockInv, DecideInv, CommitInv, RestartInv
<1>4. CASE \E n \in Nodes : \E from \in Nodes : Receive(from, n)
  BY Zenon, <1>4, ReceiveInv
<1>5. CASE Lose
  BY Zenon, <1>5, LoseInv
<1>6. CASE UNCHANGED vars
  BY Zenon, <1>6 DEF vars, MempoolInv, Chains
<1> QED
  BY Zenon, <1>1, <1>2, <1>3, <1>4, <1>5, <1>6 DEF Next

(* so that it always holds. *)
LEMMA InvHolds == Spec => []MempoolInv
  BY InitInv, NextInv, PTL DEF Spec

---------------------------------------------------------------------------
(* What it says of the lanes and the blocks. *)

(* It implies the type invariant, *)
LEMMA TypesHold == MempoolInv => TypeOK
<1> SUFFICES ASSUME MempoolInv
             PROVE  TypeOK
  BY Zenon
<1>1. Seq(Batches) \subseteq Seq(Seq(Txs))
  BY DEF Batches
<1>2. ASSUME NEW n \in Nodes
      PROVE  /\ \A l \in LaneIds : LaneType(node[n].lanes[l])
             /\ ToSet(node[n].waiting) \subseteq Txs
             /\ node[n].last.slot \in 0..Len(committed) /\ node[n].started \in 0..Len(committed)
             /\ \A r \in node[n].replied : r[1] # NoDp /\ r[2] \in Nodes
  <2>1. NodeOk(n, node[n], Chains, committed)
    BY Zenon, Facts
  <2>2. ASSUME NEW l \in LaneIds
        PROVE  LaneType(node[n].lanes[l])
    <3> DEFINE lane == node[n].lanes[l]
    <3>1. LaneOk(Chains[l], lane)
      BY Zenon, <2>1 DEF NodeOk, LanesOk
    <3> HIDE DEF lane
    <3>2. lane.tip \in Seq(Seq(Txs)) /\ lane.size \in Nat
      BY <1>1, <3>1 DEF LaneOk, On
    <3>3. ASSUME NEW d \in DOMAIN lane.entries
          PROVE  /\ d \in Seq(Seq(Txs) \ {<<>>}) \ {NoDp}
                 /\ lane.entries[d].size \in Nat /\ lane.entries[d].sigs \subseteq Nodes
      <4>1. d \in Dps /\ lane.entries[d] \in Entries
        BY Zenon, <3>1 DEF LaneOk, Proposals
      <4> QED
        BY Zenon, <4>1 DEF Dps, Batches, Entries
    <3>4. LaneType(lane)
      BY Zenon, <3>2, <3>3 DEF LaneType
    <3> QED
      BY Zenon, <3>4 DEF lane
  <2>3. node[n].waiting \in Seq(Txs) /\ node[n].replied \subseteq Dps \X Nodes
    BY Zenon, <2>1 DEF NodeOk, OwnOk, RepliesOk
  <2>4. ToSet(node[n].waiting) \subseteq Txs
    BY <2>3 DEF ToSet
  <2>5. \A r \in node[n].replied : r[1] # NoDp /\ r[2] \in Nodes
    BY Zenon, <2>3 DEF Dps
  <2>6. node[n].last.slot \in 0..Len(committed) /\ node[n].started \in 0..Len(committed)
    BY Zenon, <2>1 DEF NodeOk, SlotsOk
  <2> QED
    BY Zenon, <2>2, <2>4, <2>5, <2>6
<1>3. clients \in Seq(Txs \X LaneIds) /\ Len(committed) <= MaxSlot
  BY Zenon DEF MempoolInv
<1> QED
  BY Zenon, <1>2, <1>3 DEF TypeOK

(* that the sizes recorded are the sizes of the proposals, *)
LEMMA SizesHold == MempoolInv => SizesAgree
<1> SUFFICES ASSUME MempoolInv, NEW n \in Nodes, NEW l \in LaneIds
             PROVE  LaneOk(Chains[l], node[n].lanes[l])
  BY Zenon DEF SizesAgree, LaneOk
<1> QED
  BY Zenon, Facts DEF NodeOk, LanesOk

(* and that the copies of a lane are parts of one chain. *)
LEMMA ChainHolds == MempoolInv => LaneIsAChain
<1> SUFFICES ASSUME MempoolInv, NEW l \in LaneIds
             PROVE  LET dps == UNION ({DOMAIN node[n].lanes[l].entries : n \in Nodes}
                                 \cup {ToSet(node[n].buffered[l]) : n \in Nodes}
                                 \cup {{InCut(committed[slot], l).dp} : slot \in DOMAIN committed})
                    IN \A d, e \in dps : IsPrefix(d, e) \/ IsPrefix(e, d)
  BY Zenon DEF LaneIsAChain
<1> DEFINE c == Chains[l]
           dps == UNION ({DOMAIN node[n].lanes[l].entries : n \in Nodes}
                     \cup {ToSet(node[n].buffered[l]) : n \in Nodes}
                     \cup {{InCut(committed[slot], l).dp} : slot \in DOMAIN committed})
<1>1. c \in Seq(Batches) /\ CutsOk(Chains, committed) /\ Chains \in [LaneIds -> Seq(Batches)]
  BY Zenon, Facts
<1>2. ASSUME NEW n \in Nodes, NEW d \in DOMAIN node[n].lanes[l].entries
      PROVE  On(c, d)
  BY Zenon, Facts DEF NodeOk, LanesOk, LaneOk, Proposals
<1>3. ASSUME NEW n \in Nodes, NEW d \in ToSet(node[n].buffered[l])
      PROVE  On(c, d)
  <2>1. node[n].buffered[l] \in Seq(Proposals(c))
    BY Zenon, Facts DEF NodeOk, QueuesOk
  <2>2. d \in Proposals(c)
    BY <2>1 DEF ToSet
  <2> QED
    BY Zenon, <2>2 DEF Proposals
<1>4. ASSUME NEW slot \in DOMAIN committed
      PROVE  On(c, InCut(committed[slot], l).dp)
  <2>1. slot \in 0..Len(committed) /\ slot # 0
    BY <1>1 DEF CutsOk
  <2>2. At(committed, slot) = committed[slot]
    BY Zenon, <2>1 DEF At
  <2> QED
    BY Zenon, <1>1, <2>1, <2>2, InCutFacts
<1>5. \A d \in dps : On(c, d)
  BY Zenon, <1>2, <1>3, <1>4
<1> HIDE DEF dps, c
<1>6. ASSUME NEW d \in dps, NEW e \in dps
      PROVE  IsPrefix(d, e) \/ IsPrefix(e, d)
  <2>1. On(c, d) /\ On(c, e) /\ Len(d) \in Nat /\ Len(e) \in Nat
    BY <1>5 DEF On
  <2>2. Len(d) <= Len(e) \/ Len(e) <= Len(d)
    BY <2>1
  <2> QED
    BY Zenon, <1>1, <2>1, <2>2, OnPrefix
<1> QED
  BY Zenon, <1>6 DEF dps

(* Every copy of a lane, in whatever order proposals, votes, commits and sync replies reach *)
(* it and whatever is lost or cleanly restarted, is a copy of its operator's one chain, with *)
(* the sizes of that chain (store_data_proposal, clean_and_update_lane, on_sync_reply), for  *)
(* any number of validators, lanes, transactions, cuts and faults.                           *)
THEOREM LanesStayCopies == Spec => []LanesAgree
<1>1. MempoolInv => LanesAgree
  BY Zenon, TypesHold, SizesHold, ChainHolds DEF LanesAgree
<1> QED
  BY <1>1, InvHolds, PTL

(* The block that a validator builds for a slot (build_signed_block_and_emit) holds exactly *)
(* the proposals between the two cuts, whenever and from whatever it could build it: no     *)
(* two validators build different blocks of a slot.                                         *)
THEOREM BlocksAreTheCuts == Spec => []BlocksPartitionLanes
<1>1. MempoolInv => BlocksPartitionLanes
  <2> SUFFICES ASSUME MempoolInv, NEW n \in Nodes, NEW b \in node[n].built,
                      NEW l \in DOMAIN committed[b.slot]
               PROVE  b.dps[l] = LET to == committed[b.slot][l].dp
                                 IN {Ancestor(to, k) :
                                      k \in (Len(InCut(CutAt(b.slot - 1), l).dp) + 1)..Len(to)}
    BY Zenon DEF BlocksPartitionLanes
  <2>1. BlockOk(committed, b)
    BY Zenon, Facts DEF NodeOk, SlotsOk
  <2>2. At(committed, b.slot - 1) = CutAt(b.slot - 1)
    BY Zenon DEF At, CutAt
  <2> QED
    BY Zenon, <2>1, <2>2 DEF BlockOk, Interval
<1> QED
  BY <1>1, InvHolds, PTL

(* What a validator misses can be had: the operator, the only one that send_sync_request    *)
(* asks, holds every committed proposal of its lane, although clean_and_update_lane removes *)
(* proposals and mempools restart.                                                          *)
THEOREM OperatorsHoldTheirLanes == Spec => []OperatorHolds
<1>1. MempoolInv => OperatorHolds
  <2> SUFFICES ASSUME MempoolInv, NEW slot \in DOMAIN committed, NEW l \in DOMAIN committed[slot],
                      NEW k \in 1..Len(committed[slot][l].dp)
               PROVE  contains(node[l].lanes[l], Ancestor(committed[slot][l].dp, k))
    BY Zenon DEF OperatorHolds
  <2>1. Chains \in [LaneIds -> Seq(Batches)] /\ CutsOk(Chains, committed)
    BY Zenon, Facts
  <2>2. slot \in 1..Len(committed)
    BY <2>1 DEF CutsOk
  <2>3. l \in LaneIds /\ committed[slot][l].dp \in Proposals(Chains[l])
    BY Zenon, <2>1, <2>2, CutFacts
  <2>4. OwnLaneOk(l, Chains[l], node[l].lanes[l]) /\ Chains[l] \in Seq(Batches)
    BY Zenon, <2>1, <2>3, Facts DEF NodeOk, LanesOk
  <2>5. On(Chains[l], committed[slot][l].dp)
    BY Zenon, <2>3 DEF Proposals
  <2> QED
    BY Zenon, <2>4, <2>5, OwnHolds
<1> QED
  BY <1>1, InvHolds, PTL
=============================================================================
