-------------------------- MODULE WebSocketProofs --------------------------
(***************************************************************************)
(* What the clients of the WebSocket server receive, for any number of     *)
(* clients, topics, blocks, transactions and requests, and any length of   *)
(* the channel between the node and the server; and the first block of a   *)
(* network, for any number of nodes, stakers, announcements and restarts.  *)
(***************************************************************************)
EXTENDS Genesis, WebSocket, FiniteSetTheorems, WellFoundedInduction, NaturalsInduction,
        SequenceTheorems, TLAPS

---------------------------------------------------------------------------
(* Genesis. *)

(* Whatever a node concludes, it builds a block for all the stakers only. *)
LEMMA ConcludeKeeps ==
    ASSUME NEW n, NEW outcome, NEW known, NEW events, built \subseteq {StakerSet},
           outcome = "block" => known = StakerSet, Conclude(n, outcome, known, events)
    PROVE  built' \subseteq {StakerSet}
<1>1. CASE outcome = "block"
  BY <1>1 DEF Conclude
<1>2. CASE outcome # "block"
  BY <1>2 DEF Conclude
<1> QED
  BY Zenon, <1>1, <1>2

(* Nodes build blocks for all the stakers only. *)
LEMMA GenesisNextKeeps ==
    ASSUME built \subseteq {StakerSet}, [GenesisNext]_genesisVars
    PROVE  built' \subseteq {StakerSet}
<1>1. ASSUME NEW n, StartGenesis(n)
      PROVE  built' \subseteq {StakerSet}
  <2>1. CASE genesis_bin[n] \/ n \notin StakerSet
    <3>1. Conclude(n, "none", {}, <<>>) /\ "none" # "block"
      BY <1>1, <2>1 DEF StartGenesis
    <3> QED
      BY Zenon, <3>1, ConcludeKeeps
  <2>2. CASE ~(genesis_bin[n] \/ n \notin StakerSet)
    <3>1. Conclude(n, IF StakerSet = {n} THEN "block" ELSE "waiting", {n}, peer_events[n])
      BY Zenon, <1>1, <2>2 DEF StartGenesis
    <3>2. (IF StakerSet = {n} THEN "block" ELSE "waiting") = "block" => {n} = StakerSet
      BY SMT
    <3> QED
      BY Zenon, <3>1, <3>2, ConcludeKeeps
  <2> QED
    BY Zenon, <2>1, <2>2
<1>2. ASSUME NEW n, HandleGenesisPeer(n)
      PROVE  built' \subseteq {StakerSet}
  <2> DEFINE event == Head(peer_events[n])
             known == peer_pubkey[n] \cup ({event.name} \cap StakerSet)
  <2>1. CASE event.name \in StakerSet /\ event.height > 0
    <3>1. Conclude(n, "none", peer_pubkey[n], <<>>) /\ "none" # "block"
      BY <1>2, <2>1 DEF HandleGenesisPeer
    <3> QED
      BY Zenon, <3>1, ConcludeKeeps
  <2>2. CASE ~(event.name \in StakerSet /\ event.height > 0)
    <3>1. Conclude(n, IF known = StakerSet THEN "block" ELSE "waiting", known, Tail(peer_events[n]))
      BY Zenon, <1>2, <2>2 DEF HandleGenesisPeer
    <3> HIDE DEF known
    <3>2. (IF known = StakerSet THEN "block" ELSE "waiting") = "block" => known = StakerSet
      BY SMT
    <3> QED
      BY Zenon, <3>1, <3>2, ConcludeKeeps
  <2> QED
    BY Zenon, <2>1, <2>2
<1>3. ASSUME UNCHANGED built
      PROVE  built' \subseteq {StakerSet}
  BY Zenon, <1>3
<1> QED
  BY Zenon, <1>1, <1>2, <1>3
     DEF GenesisNext, GenesisStep, PersistGenesis, StoreGenesis, LeaveGenesis, StopNode,
         AnnouncePeer, genesisVars

(* However many nodes, stakers, connections and restarts there are, and in whatever order the *)
(* peers appear, all the first blocks that are built are the same (do_genesis).               *)
THEOREM FirstBlocksAgree == GenesisSpec => []GenesisAgrees
<1>1. GenesisInit => built \subseteq {StakerSet}
  BY Zenon DEF GenesisInit
<1>2. built \subseteq {StakerSet} /\ [GenesisNext]_genesisVars => (built \subseteq {StakerSet})'
  BY Zenon, GenesisNextKeeps
<1>3. built \subseteq {StakerSet} => GenesisAgrees
  BY Zenon DEF GenesisAgrees
<1> QED
  BY <1>1, <1>2, <1>3, PTL DEF GenesisSpec

---------------------------------------------------------------------------
(* WebSocket: lists of clients. *)

(* A non-empty set of natural numbers has a least element. *)
LEMMA LeastNat ==
    ASSUME NEW S \in SUBSET Nat, S # {}
    PROVE  \E m \in S : \A n \in S : m <= n
<1> DEFINE Less == OpToRel(<, Nat)
<1>1. \A a, b \in Nat : a < b => <<a, b>> \in Less
  BY Zenon DEF OpToRel
<1>2. IsWellFoundedOn(Less, Nat)
  BY Zenon, NatLessThanWellFounded
<1> HIDE DEF Less
<1>3. PICK m \in S : \A n \in S : ~(<<n, m>> \in Less)
  BY Zenon, <1>2, WFMin
<1>4. \A n \in S : m <= n
  <2> TAKE n \in S
  <2>1. m \in Nat /\ n \in Nat /\ ~(n < m)
    BY Zenon, <1>1, <1>3
  <2> QED
    BY <2>1
<1> QED
  BY Zenon, <1>3, <1>4

(* A non-empty set of positions has a greatest one. *)
LEMMA LargestPosition ==
    ASSUME NEW n \in Nat, NEW S \in SUBSET (1..n), S # {}
    PROVE  \E m \in S : \A k \in S : k <= m
<1> DEFINE T == {n - k : k \in S}
<1>1. T \in SUBSET Nat /\ T # {}
  <2>1. \A k \in S : k \in 1..n /\ n - k \in Nat
    OBVIOUS
  <2>2. PICK k \in S : TRUE
    BY Zenon
  <2>3. n - k \in T
    BY Zenon, <2>2
  <2> QED
    BY Zenon, <2>1, <2>3
<1>2. PICK t \in T : \A u \in T : t <= u
  BY Zenon, <1>1, LeastNat
<1>3. PICK m \in S : t = n - m
  BY Zenon, <1>2
<1>4. \A k \in S : k <= m
  BY <1>2, <1>3
<1> QED
  BY Zenon, <1>4

(* A set of positions is finite. *)
LEMMA FinitePositions ==
    ASSUME NEW n \in Nat, NEW S \in SUBSET (1..n)
    PROVE  IsFiniteSet(S) /\ Cardinality(S) \in Nat
<1>1. IsFiniteSet(1..n)
  BY FS_Interval
<1>2. IsFiniteSet(S)
  BY Zenon, <1>1, FS_Subset
<1> QED
  BY Zenon, <1>2, FS_CardinalityType

(* Every rank up to its cardinality is that of a number of the set. *)
Ranked(S) == \A i \in 1..Cardinality(S) : \E k \in S : Cardinality({j \in S : j <= k}) = i

(* A set of positions can be listed in ascending order. *)
LEMMA RankExists ==
    ASSUME NEW n \in Nat, NEW S \in SUBSET (1..n)
    PROVE  Ranked(S)
<1> DEFINE Bad == {c \in Nat : \E T \in SUBSET (1..n) : Cardinality(T) = c /\ ~Ranked(T)}
<1> SUFFICES ASSUME ~Ranked(S) PROVE FALSE
  BY Zenon
<1>1. \A T \in SUBSET (1..n) : IsFiniteSet(T) /\ Cardinality(T) \in Nat
  BY Zenon, FinitePositions
<1>2. Bad \in SUBSET Nat /\ Bad # {}
  BY Zenon, <1>1
<1>3. PICK c \in Bad : \A d \in Bad : c <= d
  BY Zenon, <1>2, LeastNat
<1>4. PICK T \in SUBSET (1..n) : Cardinality(T) = c /\ ~Ranked(T)
  BY Zenon, <1>3
<1> HIDE DEF Bad
<1>5. T # {}
  BY <1>4, FS_EmptySet DEF Ranked
<1>6. PICK m \in T : \A k \in T : k <= m
  BY Zenon, <1>5, LargestPosition
<1> DEFINE U == T \ {m}
<1>7. U \in SUBSET (1..n) /\ Cardinality(U) = c - 1 /\ c \in Nat /\ c > 0
  BY <1>1, <1>4, <1>6, FS_RemoveElement, FS_EmptySet, <1>5, FS_CardinalityType
<1>8. Ranked(U)
  <2>1. c - 1 \notin Bad
    BY <1>3, <1>7
  <2> QED
    BY <1>7, <2>1 DEF Bad
<1>9. ASSUME NEW i \in 1..c PROVE \E k \in T : Cardinality({j \in T : j <= k}) = i
  <2>1. CASE i = c
    <3>1. {j \in T : j <= m} = T
      BY Zenon, <1>6
    <3> QED
      BY Zenon, <1>4, <1>6, <2>1, <3>1
  <2>2. CASE i # c
    <3>1. i \in 1..(c - 1)
      BY <1>7, <2>2
    <3>2. PICK k \in U : Cardinality({j \in U : j <= k}) = i
      BY Zenon, <1>7, <1>8, <3>1 DEF Ranked
    <3>3. k < m
      BY <1>6, <3>2
    <3>4. {j \in T : j <= k} = {j \in U : j <= k}
      BY <1>6, <3>3
    <3> QED
      BY Zenon, <3>2, <3>4
  <2> QED
    BY Zenon, <2>1, <2>2
<1> QED
  BY Zenon, <1>4, <1>9 DEF Ranked

(* Numbers of a set of positions differ in their ranks. *)
LEMMA RanksDiffer ==
    ASSUME NEW n \in Nat, NEW S \in SUBSET (1..n), NEW i \in S, NEW k \in S,
           Cardinality({j \in S : j <= i}) = Cardinality({j \in S : j <= k})
    PROVE  i = k
<1>1. ASSUME NEW a \in S, NEW b \in S, a < b
      PROVE  Cardinality({j \in S : j <= a}) # Cardinality({j \in S : j <= b})
  <2> DEFINE A == {j \in S : j <= a}
             B == {j \in S : j <= b}
  <2>1. a \in 1..n /\ b \in 1..n /\ \A j \in S : j \in 1..n
    BY Zenon
  <2>2. a \in Nat /\ b \in Nat /\ \A j \in S : j \in Nat /\ (j <= a => j <= b)
    BY <1>1, <2>1
  <2>3. A \in SUBSET B /\ b \in B /\ B \in SUBSET (1..n)
    <3>1. A \in SUBSET B /\ B \in SUBSET (1..n)
      BY Zenon, <2>1, <2>2
    <3>2. b <= b
      BY <2>2
    <3> QED
      BY Zenon, <3>1, <3>2
  <2>4. b \notin A
    BY <1>1, <2>2
  <2>5. IsFiniteSet(B)
    BY Zenon, <2>3, FinitePositions
  <2> HIDE DEF A, B
  <2>6. A # B
    BY Zenon, <2>3, <2>4
  <2>7. Cardinality(A) # Cardinality(B)
    BY Zenon, <2>3, <2>5, <2>6, FS_Subset
  <2> QED
    BY Zenon, <2>7 DEF A, B
<1>2. ~ (i < k) /\ ~ (k < i)
  BY Zenon, <1>1
<1> QED
  BY <1>2

InList(q, x) == \E i \in DOMAIN q : q[i] = x

(* What retain leaves: the elements of the list that are not removed. *)
LEMMA RetainedIn ==
    ASSUME NEW X, NEW q \in Seq(X), NEW removed
    PROVE  /\ RetainedListeners(q, removed) \in Seq(X)
           /\ \A x : InList(RetainedListeners(q, removed), x) <=> InList(q, x) /\ x \notin removed
<1> DEFINE kept == {i \in DOMAIN q : q[i] \notin removed}
           c == Cardinality(kept)
           rank(i) == Cardinality({j \in kept : j <= i})
           at(k) == CHOOSE i \in kept : rank(i) = k
           f == [k \in 1..c |-> q[at(k)]]
<1>1. RetainedListeners(q, removed) = f
  BY Zenon DEF RetainedListeners
<1>2. Len(q) \in Nat /\ DOMAIN q = 1..Len(q) /\ \A i \in DOMAIN q : q[i] \in X
  OBVIOUS
<1>3. kept \in SUBSET (1..Len(q))
  BY Zenon, <1>2
<1>4. c \in Nat /\ IsFiniteSet(kept)
  BY Zenon, <1>2, <1>3, FinitePositions
<1>5. Ranked(kept)
  BY Zenon, <1>2, <1>3, RankExists
<1>6. \A k \in 1..c : at(k) \in kept /\ rank(at(k)) = k
  BY Zenon, <1>5 DEF Ranked
<1>7. \A i \in kept : rank(i) \in 1..c /\ at(rank(i)) = i
  <2> TAKE i \in kept
  <2> DEFINE A == {j \in kept : j <= i}
  <2>1. A \subseteq kept /\ i \in A
    BY <1>3
  <2>2. Cardinality(A) \in Nat /\ Cardinality(A) <= c /\ IsFiniteSet(A)
    BY Zenon, <1>4, <2>1, FS_Subset, FS_CardinalityType
  <2>3. Cardinality(A) # 0
    BY Zenon, <2>1, <2>2, FS_EmptySet
  <2>4. rank(i) \in 1..c
    BY <1>4, <2>2, <2>3
  <2>5. at(rank(i)) \in kept /\ rank(at(rank(i))) = rank(i)
    BY Zenon, <1>6, <2>4
  <2>6. at(rank(i)) = i
    BY Zenon, <1>2, <1>3, <2>5, RanksDiffer
  <2> QED
    BY Zenon, <2>4, <2>6
<1> HIDE DEF c, rank, at
<1>8. DOMAIN f = 1..c /\ \A k \in 1..c : f[k] = q[at(k)]
  BY Zenon
<1>9. f \in [1..c -> X]
  BY Zenon, <1>2, <1>3, <1>6
<1> HIDE DEF f
<1>10. f \in Seq(X)
  BY <1>4, <1>9
<1>11. ASSUME NEW x, InList(f, x)
       PROVE  InList(q, x) /\ x \notin removed
  BY Zenon, <1>6, <1>8, <1>11 DEF InList
<1>12. ASSUME NEW x, InList(q, x), x \notin removed
       PROVE  InList(f, x)
  <2>1. PICK i \in kept : q[i] = x
    BY Zenon, <1>12 DEF InList
  <2> QED
    BY Zenon, <1>7, <1>8, <2>1 DEF InList
<1> QED
  BY Zenon, <1>1, <1>10, <1>11, <1>12

---------------------------------------------------------------------------
(* WebSocket: the invariant. *)

WsMessages == [topic : Topics \cup {""}, block : Nat, index : Nat]
TopicMessages == [topic : Topics, block : Nat, index : Nat]

(* The messages there are to send: to be of a block, or the first of the next one. *)
Places ==
    {p \in [block : Nat, index : Nat] :
        p.block \in DOMAIN TxsOfBlock => p.index <= TxsOfBlock[p.block]}

WsTypes ==
    /\ mode \in {"topics", "broadcasts", "both"}
    /\ DOMAIN client_state = WsClients
    /\ delivered \in [WsClients -> Seq(WsMessages)]
    /\ new_peers \in Seq(WsClients) /\ peer_receivers \subseteq WsClients
    /\ topic_listeners \in [Topics -> Seq(WsClients)]
    /\ next_message \in Places /\ broadcasts \in Nat
    /\ pending \in Seq(TopicMessages) /\ handled \in Seq(TopicMessages)
    /\ registered_at \in [WsClients -> [Topics -> SUBSET Nat]]

(* The loop runs: no topic has a listener without a sender, or no topic has a message. *)
LoopInv ==
    /\ ws_running = TRUE
    /\ mode = "broadcasts" => pending = <<>>
    /\ mode # "broadcasts" =>
            /\ peer_receivers \subseteq peer_senders
            /\ \A t \in Topics, c \in WsClients : InList(topic_listeners[t], c) => c \in peer_senders

Before(a, b) == a.block < b.block \/ (a.block = b.block /\ a.index < b.index)
NotAfter(a, b) == a.block < b.block \/ (a.block = b.block /\ a.index <= b.index)

PendingInv(P, h) ==
    /\ Len(P) <= MaxPending
    /\ \A i \in DOMAIN P : Before(P[i], h) /\ \A j \in DOMAIN P : i < j => Before(P[i], P[j])

(* A client that is away is not known. *)
AwayInv(c, state, peers, receivers, registered) ==
    state = "away" => /\ c \notin receivers /\ ~InList(peers, c)
                      /\ \A t \in Topics : registered[t] = {}

(* What D has of topic t is what has been handled of it since n. *)
Covers(D, H, t, n) ==
    /\ \A i \in DOMAIN D : D[i].topic = t => \E k \in DOMAIN H : n < k /\ H[k] = D[i]
    /\ \A k \in DOMAIN H : n < k /\ H[k].topic = t => \E i \in DOMAIN D : D[i] = H[k]

(* The messages of t in D are in order and before all that is pending. *)
InOrderBefore(D, t, P, h) ==
    \A i \in DOMAIN D : D[i].topic = t =>
        /\ Before(D[i], h)
        /\ \A j \in DOMAIN P : Before(D[i], P[j])
        /\ \A j \in DOMAIN D : i < j /\ D[j].topic = t => NotAfter(D[i], D[j])

(* A client and a topic: whether it listens, L, since when, reg, and what it has got, D. *)
TopicInv(c, t, state, D, L, reg, H) ==
    /\ InList(L, c) => reg # {}
    /\ reg # {} /\ state = "open" => InList(L, c)
    /\ reg = {} => \A i \in DOMAIN D : D[i].topic # t
    /\ \A n \in reg : n <= Len(H) /\ (state = "open" => Covers(D, H, t, n))

ClientInv(c) ==
    /\ AwayInv(c, client_state[c], new_peers, peer_receivers, registered_at[c])
    /\ \A t \in Topics :
        /\ TopicInv(c, t, client_state[c], delivered[c], topic_listeners[t], registered_at[c][t], handled)
        /\ InOrderBefore(delivered[c], t, pending, next_message)

WsInv ==
    mode # "both" =>
        /\ WsTypes /\ LoopInv /\ PendingInv(pending, next_message)
        /\ \A c \in WsClients : ClientInv(c)

(* The invariant gives the property. *)
LEMMA WsInvImplies == WsInv => TopicsDelivered
<1> SUFFICES ASSUME WsInv, mode # "both" PROVE TopicsDelivered
  BY Zenon DEF TopicsDelivered
<1>1. ws_running /\ WsTypes /\ \A c \in WsClients : ClientInv(c)
  BY Zenon DEF WsInv, LoopInv
<1>2. ASSUME NEW c \in WsClients, NEW t \in Topics
      PROVE  LET got == OfTopic(delivered[c], t)
             IN  /\ registered_at[c][t] = {} => got = {}
                 /\ \A n \in registered_at[c][t] : client_state[c] = "open" =>
                        {delivered[c][i] : i \in got}
                            = {handled[i] : i \in {k \in OfTopic(handled, t) : n < k}}
                 /\ \A i, j \in got : i < j =>
                        \/ delivered[c][i].block < delivered[c][j].block
                        \/ /\ delivered[c][i].block = delivered[c][j].block
                           /\ delivered[c][i].index <= delivered[c][j].index
  <2> DEFINE D == delivered[c]
             reg == registered_at[c][t]
             got == OfTopic(D, t)
  <2>1. /\ TopicInv(c, t, client_state[c], D, topic_listeners[t], reg, handled)
        /\ InOrderBefore(D, t, pending, next_message)
    BY Zenon, <1>1 DEF ClientInv
  <2> HIDE DEF D, reg
  <2>2. reg = {} => got = {}
    BY Zenon, <2>1 DEF TopicInv, OfTopic
  <2>3. \A i, j \in got : i < j => NotAfter(D[i], D[j])
    BY Zenon, <2>1 DEF InOrderBefore, OfTopic
  <2>4. ASSUME NEW n \in reg, client_state[c] = "open"
        PROVE  {D[i] : i \in got} = {handled[i] : i \in {k \in OfTopic(handled, t) : n < k}}
    <3>1. Covers(D, handled, t, n)
      BY Zenon, <2>1, <2>4 DEF TopicInv
    <3>2. ASSUME NEW i \in got
          PROVE  D[i] \in {handled[k] : k \in {l \in OfTopic(handled, t) : n < l}}
      BY Zenon, <3>1 DEF Covers, OfTopic
    <3>3. ASSUME NEW k \in {l \in OfTopic(handled, t) : n < l}
          PROVE  handled[k] \in {D[i] : i \in got}
      BY Zenon, <3>1 DEF Covers, OfTopic
    <3> QED
      BY Zenon, <3>2, <3>3
  <2> QED
    BY Zenon, <2>2, <2>3, <2>4 DEF NotAfter, D, reg
<1> QED
  BY Zenon, <1>1, <1>2 DEF TopicsDelivered

(* No client is there at first. *)
LEMMA WsInvInit == WsInit => WsInv
<1> SUFFICES ASSUME WsInit PROVE WsInv
  BY Zenon
<1>1. WsTypes
  <2>1. next_message \in Places
    <3>1. 1 \in DOMAIN TxsOfBlock => 0 <= TxsOfBlock[1]
      BY WsAssumption
    <3> QED
      BY <3>1 DEF WsInit, Places
  <2> QED
    BY <2>1 DEF WsInit, WsTypes, Unregistered
<1>2. LoopInv
  <2>1. \A t \in Topics, c \in WsClients : ~InList(topic_listeners[t], c)
    BY DEF WsInit, InList
  <2> QED
    BY Zenon, <2>1 DEF WsInit, LoopInv
<1>3. PendingInv(pending, next_message)
  BY WsAssumption DEF WsInit, PendingInv
<1>4. ASSUME NEW c \in WsClients PROVE ClientInv(c)
  <2>1. \A t \in Topics : registered_at[c][t] = {} /\ ~InList(topic_listeners[t], c)
    BY DEF WsInit, Unregistered, InList
  <2>2. DOMAIN delivered[c] = {} /\ ~InList(new_peers, c) /\ c \notin peer_receivers
    BY DEF WsInit, InList
  <2>3. AwayInv(c, client_state[c], new_peers, peer_receivers, registered_at[c])
    BY Zenon, <2>1, <2>2 DEF AwayInv
  <2>4. \A t \in Topics :
          /\ TopicInv(c, t, client_state[c], delivered[c], topic_listeners[t], registered_at[c][t], handled)
          /\ InOrderBefore(delivered[c], t, pending, next_message)
    BY Zenon, <2>1, <2>2 DEF TopicInv, InOrderBefore
  <2> QED
    BY Zenon, <2>3, <2>4 DEF ClientInv
<1> QED
  BY Zenon, <1>1, <1>2, <1>3, <1>4 DEF WsInv

---------------------------------------------------------------------------
(* WebSocket: the steps. *)

(* The messages of a block are in order. *)
LEMMA MessagesOfBlock ==
    ASSUME NEW h \in DOMAIN TxsOfBlock
    PROVE  LET q == handle_new_block(h) \o handle_new_tx(h)
           IN  /\ q \in Seq(TopicMessages) /\ Len(q) = TxsOfBlock[h] + 1
               /\ \A i \in DOMAIN q : q[i].block = h /\ q[i].index = i - 1
<1> DEFINE a == [topic |-> "new_block", block |-> h, index |-> 0]
           n == TxsOfBlock[h]
           b == [i \in 1..n |-> [topic |-> "new_tx", block |-> h, index |-> i]]
           q == <<a>> \o b
<1>1. h \in Nat /\ n \in Nat
  BY WsAssumption
<1>2. a \in TopicMessages /\ a.block = h /\ a.index = 0
  BY Zenon, <1>1 DEF TopicMessages, Topics
<1>3. \A i \in 1..n : /\ b[i] \in TopicMessages /\ b[i].block = h /\ b[i].index = i
  BY <1>1 DEF TopicMessages, Topics
<1>4. b \in [1..n -> TopicMessages]
  <2>1. b = [i \in 1..n |-> b[i]]
    BY Zenon
  <2> HIDE DEF b
  <2> QED
    BY Zenon, <1>3, <2>1
<1> HIDE DEF a, b
<1>5. b \in Seq(TopicMessages) /\ Len(b) = n
  BY <1>1, <1>4
<1>6. <<a>> \in Seq(TopicMessages) /\ Len(<<a>>) = 1 /\ <<a>>[1] = a
  BY <1>2
<1>7. /\ q \in Seq(TopicMessages) /\ Len(q) = n + 1 /\ DOMAIN q = 1..(n + 1) /\ q[1] = a
      /\ \A i \in 2..(n + 1) : q[i] = b[i - 1] /\ i - 1 \in 1..n
  BY <1>1, <1>5, <1>6
<1> HIDE DEF q
<1>8. \A i \in DOMAIN q : q[i].block = h /\ q[i].index = i - 1
  <2>1. ASSUME NEW i \in DOMAIN q PROVE q[i].block = h /\ q[i].index = i - 1
    <3>1. CASE i = 1
      BY <1>2, <1>7, <3>1
    <3>2. CASE i \in 2..(n + 1)
      BY <1>3, <1>7, <3>2
    <3> QED
      BY <1>1, <1>7, <3>1, <3>2
  <2> QED
    BY Zenon, <2>1
<1> QED
  BY Zenon, <1>7, <1>8 DEF q, a, b, handle_new_block, handle_new_tx

(* handle_node_state_event: what is added comes after all that was there. *)
LEMMA BlockKeeps ==
    ASSUME WsInv, mode # "both", handle_node_state_event
    PROVE  WsInv'
<1> DEFINE at == next_message
           q == handle_new_block(at.block) \o handle_new_tx(at.block)
           m == q[at.index + 1]
           P == IF Len(pending) < MaxPending THEN Append(pending, m) ELSE pending
           next == IF at.index + 1 < Len(q) THEN [block |-> at.block, index |-> at.index + 1]
                   ELSE [block |-> at.block + 1, index |-> 0]
<1>1. WsTypes /\ LoopInv /\ PendingInv(pending, at) /\ \A c \in WsClients : ClientInv(c)
  BY Zenon DEF WsInv
<1>2. /\ mode # "broadcasts" /\ at.block \in DOMAIN TxsOfBlock /\ pending' = P /\ next_message' = next
      /\ UNCHANGED <<mode, clientVars, serverVars, handled, registered_at, broadcasts>>
  BY Zenon DEF handle_node_state_event
<1>3. /\ pending \in Seq(TopicMessages) /\ Len(pending) <= MaxPending /\ Len(pending) \in Nat
      /\ at.block \in Nat /\ at.index \in Nat
      /\ at.block \in DOMAIN TxsOfBlock => at.index <= TxsOfBlock[at.block]
  BY <1>1 DEF WsTypes, PendingInv, Places
<1>4. /\ q \in Seq(TopicMessages) /\ Len(q) = TxsOfBlock[at.block] + 1
      /\ \A i \in DOMAIN q : q[i].block = at.block /\ q[i].index = i - 1
  BY Zenon, <1>2, MessagesOfBlock
<1>5. TxsOfBlock[at.block] \in Nat /\ \A h \in DOMAIN TxsOfBlock : TxsOfBlock[h] \in Nat
  BY <1>2, WsAssumption
<1> HIDE DEF q
<1>6. m \in TopicMessages /\ m.block = at.block /\ m.index = at.index
  <2>1. \E k \in DOMAIN q : k = at.index + 1 /\ k - 1 = at.index
    BY <1>2, <1>3, <1>4, <1>5
  <2>2. PICK k \in DOMAIN q : k = at.index + 1 /\ k - 1 = at.index
    BY Zenon, <2>1
  <2>3. m = q[k]
    BY Zenon, <2>2
  <2>4. q[k] \in TopicMessages
    BY <1>4
  <2>5. q[k].block = at.block /\ q[k].index = k - 1
    BY Zenon, <1>4
  <2> HIDE DEF m
  <2> QED
    BY Zenon, <2>2, <2>3, <2>4, <2>5
<1>7. /\ next.block \in Nat /\ next.index \in Nat
      /\ next.block \in DOMAIN TxsOfBlock => next.index <= TxsOfBlock[next.block]
      /\ next \in [block : Nat, index : Nat]
  <2>1. CASE at.index + 1 < Len(q)
    BY <1>3, <1>4, <1>5, <2>1
  <2>2. CASE ~(at.index + 1 < Len(q))
    <3>1. next = [block |-> at.block + 1, index |-> 0]
      BY Zenon, <2>2
    <3>2. next.block = at.block + 1 /\ next.index = 0 /\ at.block + 1 \in Nat /\ 0 \in Nat
      BY <1>3, <3>1
    <3>3. next.block \in DOMAIN TxsOfBlock => 0 <= TxsOfBlock[next.block]
      BY <1>5
    <3> QED
      BY Zenon, <3>1, <3>2, <3>3
  <2> QED
    BY Zenon, <2>1, <2>2
<1>8. (next.block = at.block /\ next.index = at.index + 1) \/ next.block = at.block + 1
  BY Zenon
<1> HIDE DEF m, next
<1>9. \A a : a.block \in Nat /\ a.index \in Nat /\ Before(a, at) => Before(a, next) /\ Before(a, m)
  BY <1>3, <1>6, <1>7, <1>8 DEF Before
<1>10. Before(m, next)
  BY <1>3, <1>6, <1>7, <1>8 DEF Before
<1>11. /\ P \in Seq(TopicMessages) /\ Len(P) <= MaxPending
       /\ \A i \in DOMAIN P : \/ i \in DOMAIN pending /\ P[i] = pending[i]
                              \/ P[i] = m /\ \A j \in DOMAIN P : j <= i
  <2>1. CASE Len(pending) < MaxPending
    <3>1. P = Append(pending, m)
      BY Zenon, <2>1
    <3> HIDE DEF P
    <3>2. P \in Seq(TopicMessages) /\ Len(P) = Len(pending) + 1 /\ DOMAIN P = 1..(Len(pending) + 1)
      BY <1>3, <1>6, <3>1
    <3>3. \A i \in 1..Len(pending) : P[i] = pending[i] /\ i \in DOMAIN pending
      BY <1>3, <1>6, <3>1
    <3>4. P[Len(pending) + 1] = m
      BY <1>3, <1>6, <3>1
    <3>5. \A i \in DOMAIN P : i \in 1..Len(pending) \/ (i = Len(pending) + 1 /\ \A j \in DOMAIN P : j <= i)
      BY <1>3, <3>2
    <3>6. Len(P) <= MaxPending
      BY <1>3, <2>1, <3>2, WsAssumption
    <3> QED
      BY Zenon, <3>2, <3>3, <3>4, <3>5, <3>6
  <2>2. CASE ~(Len(pending) < MaxPending)
    <3>1. P = pending
      BY Zenon, <2>2
    <3> HIDE DEF P
    <3> QED
      BY Zenon, <1>3, <3>1
  <2> QED
    BY Zenon, <2>1, <2>2
<1> HIDE DEF P
<1>12. \A i \in DOMAIN pending : pending[i].block \in Nat /\ pending[i].index \in Nat /\ i \in Nat
  <2>1. \A i \in DOMAIN pending : pending[i] \in TopicMessages /\ i \in Nat
    BY <1>3
  <2> QED
    BY Zenon, <2>1 DEF TopicMessages
<1>13. PendingInv(P, next)
  <2>1. ASSUME NEW i \in DOMAIN P
        PROVE  Before(P[i], next) /\ \A j \in DOMAIN P : i < j => Before(P[i], P[j])
    <3>1. CASE i \in DOMAIN pending /\ P[i] = pending[i]
      <4>1. Before(P[i], at) /\ \A j \in DOMAIN pending : i < j => Before(P[i], pending[j])
        BY Zenon, <1>1, <3>1 DEF PendingInv
      <4>2. Before(P[i], next) /\ Before(P[i], m)
        BY Zenon, <1>9, <1>12, <3>1, <4>1
      <4> QED
        BY Zenon, <1>11, <4>1, <4>2
    <3>2. CASE P[i] = m /\ \A j \in DOMAIN P : j <= i
      <4>1. \A j \in DOMAIN P : ~(i < j)
        BY <1>11, <3>2
      <4> QED
        BY Zenon, <1>10, <3>2, <4>1
    <3> QED
      BY Zenon, <1>11, <3>1, <3>2
  <2> QED
    BY Zenon, <1>11, <2>1 DEF PendingInv
<1>14. ASSUME NEW c \in WsClients, NEW t \in Topics
       PROVE  InOrderBefore(delivered[c], t, P, next)
  <2> DEFINE D == delivered[c]
  <2>1. InOrderBefore(D, t, pending, at)
    BY Zenon, <1>1 DEF ClientInv
  <2>2. D \in Seq(WsMessages)
    BY Zenon, <1>1 DEF WsTypes
  <2> HIDE DEF D
  <2>3. \A i \in DOMAIN D : D[i].block \in Nat /\ D[i].index \in Nat
    <3>1. \A i \in DOMAIN D : D[i] \in WsMessages
      BY <2>2
    <3> QED
      BY Zenon, <3>1 DEF WsMessages
  <2>4. ASSUME NEW i \in DOMAIN D, D[i].topic = t
        PROVE  Before(D[i], next) /\ \A j \in DOMAIN P : Before(D[i], P[j])
    <3>1. Before(D[i], at) /\ \A j \in DOMAIN pending : Before(D[i], pending[j])
      BY Zenon, <2>1, <2>4 DEF InOrderBefore
    <3>2. Before(D[i], next) /\ Before(D[i], m)
      BY Zenon, <1>9, <2>3, <3>1
    <3> QED
      BY Zenon, <1>11, <3>1, <3>2
  <2>5. InOrderBefore(D, t, P, next)
    BY Zenon, <2>1, <2>4 DEF InOrderBefore
  <2> QED
    BY Zenon, <2>5 DEF D
<1>15. /\ mode' = mode /\ client_state' = client_state /\ delivered' = delivered /\ new_peers' = new_peers
       /\ peer_senders' = peer_senders /\ topic_listeners' = topic_listeners
       /\ peer_receivers' = peer_receivers /\ handled' = handled /\ registered_at' = registered_at
       /\ broadcasts' = broadcasts /\ ws_running' = ws_running /\ next_message' = next /\ pending' = P
  BY Zenon, <1>2 DEF clientVars, serverVars
<1>16. next \in Places
  BY Zenon, <1>7 DEF Places
<1>17. WsTypes'
  BY Zenon, <1>1, <1>11, <1>15, <1>16 DEF WsTypes
<1>18. LoopInv'
  BY Zenon, <1>1, <1>2, <1>15 DEF LoopInv, InList
<1>19. ASSUME NEW c \in WsClients PROVE ClientInv(c)'
  BY Zenon, <1>1, <1>14, <1>15 DEF ClientInv
<1> QED
  BY Zenon, <1>13, <1>15, <1>17, <1>18, <1>19 DEF WsInv

(* Steps that leave what a client has got alone. *)
LEMMA ClientStays ==
    ASSUME NEW c \in WsClients, ClientInv(c),
           AwayInv(c, client_state'[c], new_peers', peer_receivers', registered_at'[c]),
           client_state'[c] = "open" => client_state[c] = "open" \/ \A t \in Topics : registered_at[c][t] = {},
           delivered'[c] = delivered[c], topic_listeners' = topic_listeners,
           registered_at'[c] = registered_at[c],
           handled' = handled, pending' = pending, next_message' = next_message
    PROVE  ClientInv(c)'
<1>1. ASSUME NEW t \in Topics
      PROVE  /\ TopicInv(c, t, client_state'[c], delivered[c], topic_listeners[t], registered_at[c][t], handled)
             /\ InOrderBefore(delivered[c], t, pending, next_message)
  BY Zenon DEF ClientInv, TopicInv
<1> QED
  BY Zenon, <1>1 DEF ClientInv

(* ws_handler *)
LEMMA ArrivalKeeps ==
    ASSUME WsInv, mode # "both", NEW c \in WsClients, ws_handler(c)
    PROVE  WsInv'
<1>1. WsTypes /\ LoopInv /\ PendingInv(pending, next_message) /\ \A d \in WsClients : ClientInv(d)
  BY Zenon DEF WsInv
<1>2. /\ client_state[c] = "away" /\ client_state' = [client_state EXCEPT ![c] = "open"]
      /\ new_peers' = Append(new_peers, c)
      /\ mode' = mode /\ ws_running' = ws_running /\ delivered' = delivered /\ peer_senders' = peer_senders
      /\ topic_listeners' = topic_listeners /\ peer_receivers' = peer_receivers
      /\ next_message' = next_message /\ pending' = pending /\ handled' = handled
      /\ registered_at' = registered_at /\ broadcasts' = broadcasts
  BY Zenon DEF ws_handler
<1>3. new_peers \in Seq(WsClients) /\ DOMAIN client_state = WsClients
  BY Zenon, <1>1 DEF WsTypes
<1>4. /\ new_peers' \in Seq(WsClients)
      /\ \A d \in WsClients : d # c /\ InList(new_peers', d) => InList(new_peers, d)
  BY <1>2, <1>3 DEF InList
<1>5. /\ DOMAIN client_state' = WsClients /\ client_state'[c] = "open"
      /\ \A d \in WsClients : d # c => client_state'[d] = client_state[d]
  BY Zenon, <1>2, <1>3
<1>6. WsTypes'
  BY Zenon, <1>1, <1>2, <1>4, <1>5 DEF WsTypes
<1>7. LoopInv'
  BY Zenon, <1>1, <1>2 DEF LoopInv, InList
<1>8. ASSUME NEW d \in WsClients PROVE ClientInv(d)'
  <2>1. ClientInv(d) /\ AwayInv(d, client_state[d], new_peers, peer_receivers, registered_at[d])
    BY Zenon, <1>1 DEF ClientInv
  <2>2. AwayInv(d, client_state'[d], new_peers', peer_receivers', registered_at'[d])
    BY Zenon, <1>2, <1>4, <1>5, <2>1 DEF AwayInv
  <2>3. client_state'[d] = "open" => client_state[d] = "open" \/ \A t \in Topics : registered_at[d][t] = {}
    BY Zenon, <1>2, <1>5, <2>1 DEF AwayInv
  <2> QED
    BY Zenon, <1>2, <2>1, <2>2, <2>3, ClientStays
<1> QED
  BY Zenon, <1>1, <1>2, <1>6, <1>7, <1>8 DEF WsInv

(* ClientSends, ClientLeaves *)
LEMMA ClientKeeps ==
    ASSUME WsInv, mode # "both", NEW c \in WsClients, ClientSends(c) \/ ClientLeaves(c)
    PROVE  WsInv'
<1>1. WsTypes /\ LoopInv /\ PendingInv(pending, next_message) /\ \A d \in WsClients : ClientInv(d)
  BY Zenon DEF WsInv
<1>2. /\ client_state' = client_state \/ client_state' = [client_state EXCEPT ![c] = "gone"]
      /\ new_peers' = new_peers
      /\ mode' = mode /\ ws_running' = ws_running /\ delivered' = delivered /\ peer_senders' = peer_senders
      /\ topic_listeners' = topic_listeners /\ peer_receivers' = peer_receivers
      /\ next_message' = next_message /\ pending' = pending /\ handled' = handled
      /\ registered_at' = registered_at /\ broadcasts' = broadcasts
  BY Zenon DEF ClientSends, ClientLeaves, serverVars
<1>3. DOMAIN client_state = WsClients
  BY Zenon, <1>1 DEF WsTypes
<1>4. /\ DOMAIN client_state' = WsClients
      /\ \A d \in WsClients : client_state'[d] = client_state[d] \/ client_state'[d] = "gone"
  BY Zenon, <1>2, <1>3
<1>5. WsTypes'
  BY Zenon, <1>1, <1>2, <1>4 DEF WsTypes
<1>6. LoopInv'
  BY Zenon, <1>1, <1>2 DEF LoopInv, InList
<1>7. ASSUME NEW d \in WsClients PROVE ClientInv(d)'
  <2>1. ClientInv(d) /\ AwayInv(d, client_state[d], new_peers, peer_receivers, registered_at[d])
    BY Zenon, <1>1 DEF ClientInv
  <2>2. client_state'[d] = client_state[d] \/ client_state'[d] = "gone"
    BY Zenon, <1>4
  <2>3. AwayInv(d, client_state'[d], new_peers', peer_receivers', registered_at'[d])
    BY Zenon, <1>2, <2>1, <2>2 DEF AwayInv
  <2>4. client_state'[d] = "open" => client_state[d] = "open"
    BY Zenon, <2>2
  <2> QED
    BY Zenon, <1>2, <2>1, <2>3, <2>4, ClientStays
<1> QED
  BY Zenon, <1>1, <1>2, <1>5, <1>6, <1>7 DEF WsInv

(* CheckNewPeers *)
LEMMA PeersKeep ==
    ASSUME WsInv, mode # "both", CheckNewPeers
    PROVE  WsInv'
<1>1. WsTypes /\ LoopInv /\ PendingInv(pending, next_message) /\ \A d \in WsClients : ClientInv(d)
  BY Zenon DEF WsInv
<1>2. /\ client_state' = client_state /\ new_peers' = <<>>
      /\ peer_senders' = peer_senders \cup ToSet(new_peers)
      /\ peer_receivers' = peer_receivers \cup ToSet(new_peers)
      /\ mode' = mode /\ ws_running' = ws_running /\ delivered' = delivered
      /\ topic_listeners' = topic_listeners
      /\ next_message' = next_message /\ pending' = pending /\ handled' = handled
      /\ registered_at' = registered_at /\ broadcasts' = broadcasts
  BY Zenon DEF CheckNewPeers, clientVars
<1>3. new_peers \in Seq(WsClients) /\ peer_receivers \subseteq WsClients
  BY Zenon, <1>1 DEF WsTypes
<1>4. ToSet(new_peers) \subseteq WsClients /\ \A x : x \in ToSet(new_peers) <=> InList(new_peers, x)
  <2>1. \A i \in DOMAIN new_peers : new_peers[i] \in WsClients
    BY <1>3
  <2> QED
    BY Zenon, <2>1 DEF ToSet, InList
<1>5. <<>> \in Seq(WsClients) /\ \A x : ~InList(<<>>, x)
  BY DEF InList
<1>6. WsTypes'
  BY Zenon, <1>1, <1>2, <1>3, <1>4, <1>5 DEF WsTypes
<1>7. LoopInv'
  BY Zenon, <1>1, <1>2 DEF LoopInv, InList
<1>8. ASSUME NEW d \in WsClients PROVE ClientInv(d)'
  <2>1. ClientInv(d) /\ AwayInv(d, client_state[d], new_peers, peer_receivers, registered_at[d])
    BY Zenon, <1>1 DEF ClientInv
  <2>2. AwayInv(d, client_state'[d], new_peers', peer_receivers', registered_at'[d])
    BY Zenon, <1>2, <1>4, <1>5, <2>1 DEF AwayInv
  <2> QED
    BY Zenon, <1>2, <2>1, <2>2, ClientStays
<1> QED
  BY Zenon, <1>1, <1>2, <1>6, <1>7, <1>8 DEF WsInv

(* ReceiveRequest: a client that is registered. *)
LEMMA RegisterKeeps ==
    ASSUME WsInv, mode # "both", NEW c \in WsClients, NEW topic \in Topics, c \in peer_receivers,
           topic_listeners' = [topic_listeners EXCEPT ![topic] = Append(topic_listeners[topic], c)],
           registered_at' = Registers(c, topic),
           UNCHANGED <<peer_receivers, mode, client_state, ws_running, delivered, new_peers,
                       peer_senders, next_message, pending, handled, broadcasts>>
    PROVE  WsInv'
<1> DEFINE L == topic_listeners[topic]
           K == Append(L, c)
           now_at == [registered_at[c] EXCEPT ![topic] = {Len(handled)}]
<1>1. WsTypes /\ LoopInv /\ PendingInv(pending, next_message) /\ \A d \in WsClients : ClientInv(d)
  BY Zenon DEF WsInv
<1>2. /\ topic_listeners \in [Topics -> Seq(WsClients)] /\ handled \in Seq(TopicMessages)
      /\ registered_at \in [WsClients -> [Topics -> SUBSET Nat]]
  BY Zenon, <1>1 DEF WsTypes
<1>3. /\ client_state' = client_state /\ new_peers' = new_peers
      /\ peer_senders' = peer_senders /\ peer_receivers' = peer_receivers
      /\ mode' = mode /\ ws_running' = ws_running /\ delivered' = delivered
      /\ next_message' = next_message /\ pending' = pending /\ handled' = handled
      /\ broadcasts' = broadcasts
  BY Zenon
<1>4. L \in Seq(WsClients) /\ Len(handled) \in Nat
  BY <1>2
<1>5. K \in Seq(WsClients) /\ InList(K, c) /\ \A x : InList(K, x) <=> InList(L, x) \/ x = c
  <2> HIDE DEF L
  <2>1. /\ K \in Seq(WsClients) /\ Len(L) \in Nat /\ DOMAIN L = 1..Len(L) /\ DOMAIN K = 1..(Len(L) + 1)
        /\ K[Len(L) + 1] = c /\ \A i \in 1..Len(L) : K[i] = L[i]
    BY <1>4
  <2> HIDE DEF K
  <2>2. Len(L) + 1 \in DOMAIN K /\ \A i \in DOMAIN L : i \in DOMAIN K
    BY <2>1
  <2>3. \A i \in DOMAIN K : i \in DOMAIN L \/ i = Len(L) + 1
    BY <2>1
  <2> QED
    BY Zenon, <2>1, <2>2, <2>3 DEF InList
<1> HIDE DEF K
<1>6. /\ topic_listeners' \in [Topics -> Seq(WsClients)] /\ topic_listeners'[topic] = K
      /\ \A t \in Topics : t # topic => topic_listeners'[t] = topic_listeners[t]
  BY Zenon, <1>2, <1>5 DEF K
<1>7. /\ registered_at' \in [WsClients -> [Topics -> SUBSET Nat]]
      /\ \A d \in WsClients, t \in Topics : d # c \/ t # topic => registered_at'[d][t] = registered_at[d][t]
      /\ registered_at'[c][topic] = IF registered_at[c][topic] # {} THEN registered_at[c][topic] ELSE {Len(handled)}
  <2>1. registered_at[c] \in [Topics -> SUBSET Nat]
    BY Zenon, <1>2
  <2>2. /\ now_at \in [Topics -> SUBSET Nat] /\ now_at[topic] = {Len(handled)}
        /\ \A t \in Topics : t # topic => now_at[t] = registered_at[c][t]
    BY Zenon, <1>4, <2>1
  <2> HIDE DEF now_at
  <2>3. CASE registered_at[c][topic] # {}
    <3>1. registered_at' = registered_at
      BY Zenon, <2>3 DEF Registers
    <3> QED
      BY Zenon, <1>2, <2>3, <3>1
  <2>4. CASE registered_at[c][topic] = {}
    <3>1. registered_at' = [registered_at EXCEPT ![c] = now_at]
      BY Zenon, <2>4 DEF Registers, now_at
    <3>2. /\ registered_at' \in [WsClients -> [Topics -> SUBSET Nat]] /\ registered_at'[c] = now_at
          /\ \A d \in WsClients : d # c => registered_at'[d] = registered_at[d]
      BY Zenon, <1>2, <2>2, <3>1
    <3> QED
      BY Zenon, <2>2, <2>4, <3>2
  <2> QED
    BY Zenon, <2>3, <2>4
<1>8. WsTypes'
  BY Zenon, <1>1, <1>3, <1>6, <1>7 DEF WsTypes
<1>9. LoopInv'
  <2>1. \A t \in Topics, d \in WsClients :
            InList(topic_listeners'[t], d) => InList(topic_listeners[t], d) \/ d = c
    BY Zenon, <1>5, <1>6
  <2> QED
    BY Zenon, <1>1, <1>3, <2>1 DEF LoopInv
<1>10. ASSUME NEW d \in WsClients PROVE ClientInv(d)'
  <2>1. ClientInv(d)
    BY Zenon, <1>1
  <2>2. AwayInv(d, client_state'[d], new_peers', peer_receivers', registered_at'[d])
    <3>1. CASE d = c
      BY Zenon, <1>3, <2>1, <3>1 DEF ClientInv, AwayInv
    <3>2. CASE d # c
      BY Zenon, <1>3, <1>7, <2>1, <3>2 DEF ClientInv, AwayInv
    <3> QED
      BY Zenon, <3>1, <3>2
  <2>3. ASSUME NEW t \in Topics
        PROVE  /\ TopicInv(d, t, client_state[d], delivered[d], topic_listeners'[t], registered_at'[d][t], handled)
               /\ InOrderBefore(delivered[d], t, pending, next_message)
    <3>1. /\ TopicInv(d, t, client_state[d], delivered[d], topic_listeners[t], registered_at[d][t], handled)
          /\ InOrderBefore(delivered[d], t, pending, next_message)
      BY Zenon, <2>1 DEF ClientInv
    <3>2. CASE t # topic
      BY Zenon, <1>6, <1>7, <3>1, <3>2
    <3>3. CASE t = topic /\ d # c
      <4>1. (InList(K, d) <=> InList(L, d)) /\ registered_at'[d][t] = registered_at[d][t]
        BY Zenon, <1>5, <1>7, <3>3
      <4> QED
        BY Zenon, <1>6, <3>1, <3>3, <4>1 DEF TopicInv
    <3>4. CASE t = topic /\ d = c /\ registered_at[c][topic] # {}
      <4>1. registered_at'[d][t] = registered_at[d][t] /\ InList(topic_listeners'[t], d)
        BY Zenon, <1>5, <1>6, <1>7, <3>4
      <4> QED
        BY Zenon, <3>1, <3>4, <4>1 DEF TopicInv
    <3>5. CASE t = topic /\ d = c /\ registered_at[c][topic] = {}
      <4>1. registered_at'[d][t] = {Len(handled)} /\ InList(topic_listeners'[t], d)
        BY Zenon, <1>5, <1>6, <1>7, <3>5
      <4>2. \A i \in DOMAIN delivered[d] : delivered[d][i].topic # t
        BY Zenon, <3>1, <3>5 DEF TopicInv
      <4>3. Len(handled) <= Len(handled) /\ \A k \in DOMAIN handled : ~(Len(handled) < k)
        BY <1>2
      <4>4. Covers(delivered[d], handled, t, Len(handled))
        BY Zenon, <4>2, <4>3 DEF Covers
      <4> QED
        BY Zenon, <3>1, <4>1, <4>3, <4>4 DEF TopicInv
    <3> QED
      BY Zenon, <3>2, <3>3, <3>4, <3>5
  <2> QED
    BY Zenon, <1>3, <2>2, <2>3 DEF ClientInv
<1> QED
  BY Zenon, <1>1, <1>3, <1>8, <1>9, <1>10 DEF WsInv

(* ReceiveRequest *)
LEMMA RequestKeeps ==
    ASSUME WsInv, mode # "both", NEW c \in WsClients, ReceiveRequest(c)
    PROVE  WsInv'
<1>1. WsTypes /\ LoopInv /\ PendingInv(pending, next_message) /\ \A d \in WsClients : ClientInv(d)
  BY Zenon DEF WsInv
<1>2. /\ c \in peer_receivers
      /\ UNCHANGED <<mode, client_state, ws_running, delivered, new_peers,
                     peer_senders, next_message, pending, handled, broadcasts>>
      /\ \/ \E topic \in Topics :
                /\ topic_listeners' = [topic_listeners EXCEPT ![topic] = Append(topic_listeners[topic], c)]
                /\ registered_at' = Registers(c, topic) /\ UNCHANGED peer_receivers
         \/ peer_receivers' = peer_receivers \ {c} /\ UNCHANGED <<topic_listeners, registered_at>>
  BY Zenon DEF ReceiveRequest
<1>3. CASE \E topic \in Topics :
                /\ topic_listeners' = [topic_listeners EXCEPT ![topic] = Append(topic_listeners[topic], c)]
                /\ registered_at' = Registers(c, topic) /\ UNCHANGED peer_receivers
  BY Zenon, <1>2, <1>3, RegisterKeeps
<1>4. CASE peer_receivers' = peer_receivers \ {c} /\ UNCHANGED <<topic_listeners, registered_at>>
  <2>1. /\ client_state' = client_state /\ new_peers' = new_peers
        /\ peer_senders' = peer_senders /\ peer_receivers' \subseteq peer_receivers
        /\ mode' = mode /\ ws_running' = ws_running /\ delivered' = delivered
        /\ next_message' = next_message /\ pending' = pending /\ handled' = handled
        /\ broadcasts' = broadcasts /\ topic_listeners' = topic_listeners /\ registered_at' = registered_at
    BY Zenon, <1>2, <1>4
  <2>2. WsTypes'
    BY Zenon, <1>1, <2>1 DEF WsTypes
  <2>3. LoopInv'
    BY Zenon, <1>1, <2>1 DEF LoopInv, InList
  <2>4. ASSUME NEW d \in WsClients PROVE ClientInv(d)'
    <3>1. ClientInv(d)
      BY Zenon, <1>1
    <3>2. AwayInv(d, client_state'[d], new_peers', peer_receivers', registered_at'[d])
      BY Zenon, <2>1, <3>1 DEF ClientInv, AwayInv
    <3> QED
      BY Zenon, <2>1, <3>1, <3>2, ClientStays
  <2> QED
    BY Zenon, <1>1, <2>1, <2>2, <2>3, <2>4 DEF WsInv
<1> QED
  BY Zenon, <1>2, <1>3, <1>4

(* E is D and then m, and no m only if k is 0. *)
Extends(D, E, m, k) ==
    /\ \A i \in DOMAIN D : i \in DOMAIN E /\ E[i] = D[i]
    /\ \A i \in DOMAIN E : i \in DOMAIN D \/ (E[i] = m /\ \A j \in DOMAIN D : ~(i < j))
    /\ k # 0 => \E i \in DOMAIN E : i \notin DOMAIN D /\ E[i] = m
    /\ k = 0 => \A i \in DOMAIN E : i \in DOMAIN D

(* A message sent some number of times is appended. *)
LEMMA RepeatExtends ==
    ASSUME NEW X, NEW D \in Seq(X), NEW k \in Nat, NEW m \in X
    PROVE  /\ D \o [i \in 1..k |-> m] \in Seq(X)
           /\ Extends(D, D \o [i \in 1..k |-> m], m, k)
<1> DEFINE R == [i \in 1..k |-> m]
           E == D \o R
<1>1. R \in Seq(X) /\ Len(R) = k
  OBVIOUS
<1>2. \A i \in 1..k : R[i] = m
  BY Zenon
<1> HIDE DEF R
<1>3. /\ E \in Seq(X) /\ Len(D) \in Nat /\ DOMAIN D = 1..Len(D) /\ DOMAIN E = 1..(Len(D) + k)
      /\ \A i \in 1..(Len(D) + k) : E[i] = IF i <= Len(D) THEN D[i] ELSE R[i - Len(D)]
  BY <1>1
<1> HIDE DEF E
<1>4. \A i \in DOMAIN D : i \in DOMAIN E /\ E[i] = D[i]
  BY <1>3
<1>5. \A i \in DOMAIN E : i \in DOMAIN D \/ (E[i] = m /\ \A j \in DOMAIN D : ~(i < j))
  BY <1>2, <1>3
<1>6. k # 0 => \E i \in DOMAIN E : i \notin DOMAIN D /\ E[i] = m
  <2> SUFFICES ASSUME k # 0 PROVE \E i \in DOMAIN E : i \notin DOMAIN D /\ E[i] = m
    BY Zenon
  <2>1. Len(D) + k \in DOMAIN E /\ Len(D) + k \notin DOMAIN D
    BY <1>3
  <2>2. E[Len(D) + k] = m
    BY Zenon, <1>5, <2>1
  <2> QED
    BY Zenon, <2>1, <2>2
<1>7. k = 0 => \A i \in DOMAIN E : i \in DOMAIN D
  BY <1>3
<1>8. Extends(D, E, m, k)
  BY Zenon, <1>4, <1>5, <1>6, <1>7 DEF Extends
<1> QED
  BY Zenon, <1>3, <1>8 DEF E, R

(* A message appended. *)
LEMMA AppendExtends ==
    ASSUME NEW X, NEW D \in Seq(X), NEW m \in X
    PROVE  /\ Append(D, m) \in Seq(X) /\ Extends(D, Append(D, m), m, 1)
           /\ Len(D) \in Nat /\ Len(Append(D, m)) = Len(D) + 1
<1> DEFINE E == Append(D, m)
<1>1. /\ E \in Seq(X) /\ Len(D) \in Nat /\ DOMAIN D = 1..Len(D) /\ DOMAIN E = 1..(Len(D) + 1)
      /\ E[Len(D) + 1] = m /\ \A i \in 1..Len(D) : E[i] = D[i]
      /\ Len(E) = Len(D) + 1
  OBVIOUS
<1> HIDE DEF E
<1>2. /\ Len(D) + 1 \in DOMAIN E /\ Len(D) + 1 \notin DOMAIN D
      /\ \A j \in DOMAIN D : ~(Len(D) + 1 < j) /\ j \in DOMAIN E
  BY <1>1
<1>3. \A i \in DOMAIN E : i \in DOMAIN D \/ i = Len(D) + 1
  BY <1>1
<1>4. 1 # 0
  OBVIOUS
<1>5. Extends(D, E, m, 1)
  BY Zenon, <1>1, <1>2, <1>3, <1>4 DEF Extends
<1> QED
  BY Zenon, <1>1, <1>5 DEF E

(* From the handled H to G, the pending P to Q and the delivered D to E, with a message of another topic. *)
OtherStep(t, D, E, reg, H, G, P, Q, m, k, l) ==
    /\ m.topic # t
    /\ Extends(D, E, m, k) /\ Extends(H, G, m, l)
    /\ \A n \in reg : n <= Len(H) => n <= Len(G)
    /\ \A j \in DOMAIN Q : \E i \in DOMAIN P : Q[j] = P[i]

(* The same with m, a message of the topic. *)
ThisStep(t, D, E, reg, H, G, P, Q, m, k, h) ==
    /\ m.topic = t /\ NotAfter(m, m) /\ Before(m, h)
    /\ Extends(D, E, m, k) /\ Extends(H, G, m, 1)
    /\ \A n \in reg : n <= Len(H) => n <= Len(G) /\ \A i \in DOMAIN G : i \notin DOMAIN H => n < i
    /\ \A i \in DOMAIN D : Before(D[i], m) => NotAfter(D[i], m)
    /\ \A j \in DOMAIN Q : Before(m, Q[j]) /\ \E i \in DOMAIN P : Q[j] = P[i]
    /\ \E i \in DOMAIN P : P[i] = m

(* Who listens: before, L, and after, K. *)
Listens(c, state, L, K, k) ==
    /\ k # 0 => InList(L, c)
    /\ state = "open" /\ InList(L, c) => k # 0
    /\ InList(K, c) => InList(L, c)
    /\ state = "open" /\ InList(L, c) => InList(K, c)

(* The two conditions on a client and a topic. *)
TopicHolds(c, t, state, D, L, reg, H, P, h) ==
    TopicInv(c, t, state, D, L, reg, H) /\ InOrderBefore(D, t, P, h)

(* What a topic has got does not change with a message of another. *)
LEMMA OtherTopic ==
    ASSUME NEW c, NEW t, NEW state, NEW D, NEW E, NEW L, NEW reg, NEW H, NEW G, NEW P, NEW Q, NEW h,
           NEW m, NEW k, NEW l, OtherStep(t, D, E, reg, H, G, P, Q, m, k, l),
           TopicHolds(c, t, state, D, L, reg, H, P, h)
    PROVE  TopicHolds(c, t, state, E, L, reg, G, Q, h)
<1> USE DEF TopicHolds
<1>1. \A i \in DOMAIN E : E[i].topic = t => i \in DOMAIN D /\ E[i] = D[i]
  BY Zenon DEF Extends, OtherStep
<1>2. \A i \in DOMAIN G : G[i].topic = t => i \in DOMAIN H /\ G[i] = H[i]
  BY Zenon DEF Extends, OtherStep
<1>3. \A i \in DOMAIN D : i \in DOMAIN E /\ E[i] = D[i]
  BY Zenon DEF Extends, OtherStep
<1>4. \A i \in DOMAIN H : i \in DOMAIN G /\ G[i] = H[i]
  BY Zenon DEF Extends, OtherStep
<1>5. ASSUME NEW n, Covers(D, H, t, n) PROVE Covers(E, G, t, n)
  <2>1. ASSUME NEW i \in DOMAIN E, E[i].topic = t
        PROVE  \E p \in DOMAIN G : n < p /\ G[p] = E[i]
    <3>1. i \in DOMAIN D /\ D[i] = E[i]
      BY Zenon, <1>1, <2>1
    <3>2. PICK p \in DOMAIN H : n < p /\ H[p] = D[i]
      BY Zenon, <1>5, <2>1, <3>1 DEF Covers
    <3>3. p \in DOMAIN G /\ G[p] = H[p]
      BY Zenon, <1>4
    <3> QED
      BY Zenon, <3>1, <3>2, <3>3
  <2>2. ASSUME NEW p \in DOMAIN G, n < p, G[p].topic = t
        PROVE  \E i \in DOMAIN E : E[i] = G[p]
    <3>1. p \in DOMAIN H /\ H[p] = G[p]
      BY Zenon, <1>2, <2>2
    <3>2. PICK i \in DOMAIN D : D[i] = H[p]
      BY Zenon, <1>5, <2>2, <3>1 DEF Covers
    <3>3. i \in DOMAIN E /\ E[i] = D[i]
      BY Zenon, <1>3
    <3> QED
      BY Zenon, <3>1, <3>2, <3>3
  <2> QED
    BY Zenon, <2>1, <2>2 DEF Covers
<1>6. TopicInv(c, t, state, E, L, reg, G)
  BY Zenon, <1>1, <1>5 DEF TopicInv, OtherStep
<1>7. InOrderBefore(E, t, Q, h)
  BY Zenon, <1>1 DEF InOrderBefore, OtherStep
<1> QED
  BY Zenon, <1>6, <1>7

(* The message is sent to a client that listens to its topic, and to no other. *)
LEMMA ThisTopic ==
    ASSUME NEW c, NEW t, NEW state, NEW D, NEW E, NEW L, NEW K, NEW reg, NEW H, NEW G, NEW P, NEW Q, NEW h,
           NEW m, NEW k, ThisStep(t, D, E, reg, H, G, P, Q, m, k, h), Listens(c, state, L, K, k),
           TopicInv(c, t, state, D, L, reg, H), InOrderBefore(D, t, P, h)
    PROVE  TopicInv(c, t, state, E, K, reg, G) /\ InOrderBefore(E, t, Q, h)
<1> USE DEF ThisStep, Listens
<1>1. /\ \A i \in DOMAIN D : i \in DOMAIN E /\ E[i] = D[i]
      /\ \A i \in DOMAIN E : i \in DOMAIN D \/ (E[i] = m /\ \A j \in DOMAIN D : ~(i < j))
  BY Zenon DEF Extends
<1>2. /\ \A i \in DOMAIN H : i \in DOMAIN G /\ G[i] = H[i]
      /\ \A i \in DOMAIN G : i \in DOMAIN H \/ G[i] = m
      /\ \E i \in DOMAIN G : i \notin DOMAIN H /\ G[i] = m
  <2>1. 1 # 0
    OBVIOUS
  <2> QED
    BY Zenon, <2>1 DEF Extends
<1>3. ASSUME NEW n \in reg, state = "open"
      PROVE  Covers(E, G, t, n)
  <2>1. Covers(D, H, t, n) /\ n <= Len(H)
    BY Zenon, <1>3 DEF TopicInv
  <2>2. k # 0
    BY Zenon, <1>3 DEF TopicInv
  <2>3. \E i \in DOMAIN E : E[i] = m
    BY Zenon, <2>2 DEF Extends
  <2>4. \E p \in DOMAIN G : n < p /\ G[p] = m
    BY Zenon, <1>2, <2>1
  <2>5. ASSUME NEW i \in DOMAIN E, E[i].topic = t
        PROVE  \E p \in DOMAIN G : n < p /\ G[p] = E[i]
    <3>1. CASE E[i] = m
      BY Zenon, <2>4, <3>1
    <3>2. CASE E[i] # m
      <4>1. i \in DOMAIN D /\ D[i] = E[i]
        BY Zenon, <1>1, <3>2
      <4>2. PICK p \in DOMAIN H : n < p /\ H[p] = D[i]
        BY Zenon, <2>1, <2>5, <4>1 DEF Covers
      <4>3. p \in DOMAIN G /\ G[p] = H[p]
        BY Zenon, <1>2
      <4> QED
        BY Zenon, <4>1, <4>2, <4>3
    <3> QED
      BY Zenon, <3>1, <3>2
  <2>6. ASSUME NEW p \in DOMAIN G, n < p, G[p].topic = t
        PROVE  \E i \in DOMAIN E : E[i] = G[p]
    <3>1. CASE G[p] = m
      BY Zenon, <2>3, <3>1
    <3>2. CASE G[p] # m
      <4>1. p \in DOMAIN H /\ H[p] = G[p]
        BY Zenon, <1>2, <3>2
      <4>2. PICK i \in DOMAIN D : D[i] = H[p]
        BY Zenon, <2>1, <2>6, <4>1 DEF Covers
      <4>3. i \in DOMAIN E /\ E[i] = D[i]
        BY Zenon, <1>1
      <4> QED
        BY Zenon, <4>1, <4>2, <4>3
    <3> QED
      BY Zenon, <3>1, <3>2
  <2> QED
    BY Zenon, <2>5, <2>6 DEF Covers
<1>4. reg = {} => \A i \in DOMAIN E : E[i].topic # t
  <2> SUFFICES ASSUME reg = {} PROVE \A i \in DOMAIN E : E[i].topic # t
    BY Zenon
  <2>1. k = 0
    BY Zenon DEF TopicInv
  <2>2. \A i \in DOMAIN E : i \in DOMAIN D
    BY Zenon, <2>1 DEF Extends
  <2> QED
    BY Zenon, <1>1, <2>2 DEF TopicInv
<1>5. TopicInv(c, t, state, E, K, reg, G)
  BY Zenon, <1>3, <1>4 DEF TopicInv
<1>6. ASSUME NEW i \in DOMAIN E, E[i].topic = t
      PROVE  /\ Before(E[i], h)
             /\ \A j \in DOMAIN Q : Before(E[i], Q[j])
             /\ \A j \in DOMAIN E : i < j /\ E[j].topic = t => NotAfter(E[i], E[j])
  <2>1. CASE i \in DOMAIN D
    <3>1. D[i].topic = t /\ E[i] = D[i]
      BY Zenon, <1>1, <1>6, <2>1
    <3>2. Before(D[i], m)
      BY Zenon, <2>1, <3>1 DEF InOrderBefore
    <3>3. \A j \in DOMAIN E : i < j /\ E[j].topic = t => NotAfter(D[i], E[j])
      BY Zenon, <1>1, <2>1, <3>1, <3>2 DEF InOrderBefore
    <3> QED
      BY Zenon, <2>1, <3>1, <3>3 DEF InOrderBefore
  <2>2. CASE i \notin DOMAIN D
    <3>1. E[i] = m /\ \A j \in DOMAIN D : ~(i < j)
      BY Zenon, <1>1, <2>2
    <3>2. \A j \in DOMAIN E : i < j => E[j] = m
      BY Zenon, <1>1, <3>1
    <3> QED
      BY Zenon, <3>1, <3>2
  <2> QED
    BY Zenon, <2>1, <2>2
<1> QED
  BY Zenon, <1>5, <1>6 DEF InOrderBefore

(* topic_message *)
LEMMA TopicKeeps ==
    ASSUME WsInv, mode # "both", topic_message
    PROVE  WsInv'
<1> DEFINE m == Head(pending)
           L == topic_listeners[m.topic]
           unknown == {i \in DOMAIN L : L[i] \notin peer_senders}
           reached == {i \in DOMAIN L : \A u \in unknown : i < u}
<1>1. WsTypes /\ LoopInv /\ PendingInv(pending, next_message) /\ \A d \in WsClients : ClientInv(d)
  BY Zenon DEF WsInv
<1>2. PICK failing \in SUBSET {c \in WsClients : client_state[c] = "gone"} :
        /\ ws_running' = (unknown = {})
        /\ delivered' = [c \in WsClients |-> delivered[c] \o
                [i \in 1..Cardinality({i \in reached : L[i] = c /\ c \notin failing}) |-> m]]
        /\ topic_listeners' = [topic_listeners EXCEPT ![m.topic] =
                RetainedListeners(L, {c \in failing : \E i \in reached : L[i] = c})]
  BY Zenon DEF topic_message
<1> DEFINE Copies(c) == {i \in reached : L[i] = c /\ c \notin failing}
           removed == {c \in failing : \E i \in reached : L[i] = c}
           K == RetainedListeners(L, removed)
<1>3. /\ client_state' = client_state /\ new_peers' = new_peers
      /\ peer_senders' = peer_senders /\ peer_receivers' = peer_receivers
      /\ mode' = mode /\ registered_at' = registered_at
      /\ next_message' = next_message /\ broadcasts' = broadcasts
      /\ pending # <<>> /\ pending' = Tail(pending) /\ handled' = Append(handled, m)
  BY Zenon DEF topic_message, clientVars
<1>4. /\ topic_listeners \in [Topics -> Seq(WsClients)] /\ handled \in Seq(TopicMessages)
      /\ pending \in Seq(TopicMessages) /\ delivered \in [WsClients -> Seq(WsMessages)]
      /\ next_message \in Places
  BY Zenon, <1>1 DEF WsTypes
<1>5. /\ m \in TopicMessages /\ pending' \in Seq(TopicMessages) /\ 1 \in DOMAIN pending /\ pending[1] = m
      /\ \A j \in DOMAIN pending' : j + 1 \in DOMAIN pending /\ 1 < j + 1 /\ pending'[j] = pending[j + 1]
      /\ Len(pending') <= Len(pending) /\ Len(pending') \in Nat /\ Len(pending) \in Nat
  BY <1>3, <1>4
<1> HIDE DEF m
<1>6. m.topic \in Topics /\ m.block \in Nat /\ m.index \in Nat /\ m \in WsMessages
  BY Zenon, <1>5 DEF TopicMessages, WsMessages
<1>7. L \in Seq(WsClients)
  BY Zenon, <1>4, <1>6
<1> HIDE DEF L
<1>8. Len(L) \in Nat /\ DOMAIN L = 1..Len(L) /\ \A i \in DOMAIN L : L[i] \in WsClients
  BY <1>7
<1>9. unknown = {}
  <2>1. mode # "broadcasts"
    BY Zenon, <1>1, <1>3 DEF LoopInv
  <2>2. \A i \in DOMAIN L : L[i] \in peer_senders
    BY Zenon, <1>1, <1>6, <1>8, <2>1 DEF LoopInv, InList, L
  <2> QED
    BY Zenon, <2>2
<1>10. reached = DOMAIN L
  BY Zenon, <1>9
<1> HIDE DEF unknown, reached
<1>11. \A c \in WsClients : Cardinality(Copies(c)) \in Nat
            /\ (Cardinality(Copies(c)) # 0 <=> InList(L, c) /\ c \notin failing)
  <2> TAKE c \in WsClients
  <2>1. Copies(c) \in SUBSET (1..Len(L))
    BY Zenon, <1>8, <1>10
  <2>2. IsFiniteSet(Copies(c)) /\ Cardinality(Copies(c)) \in Nat
    BY Zenon, <1>8, <2>1, FinitePositions
  <2>3. Cardinality(Copies(c)) # 0 <=> Copies(c) # {}
    BY Zenon, <2>2, FS_EmptySet
  <2>4. Copies(c) # {} <=> InList(L, c) /\ c \notin failing
    BY Zenon, <1>10 DEF InList
  <2> QED
    BY Zenon, <2>2, <2>3, <2>4
<1>12. K \in Seq(WsClients) /\ \A x : InList(K, x) <=> InList(L, x) /\ x \notin removed
  <2> HIDE DEF removed
  <2> QED
    BY Zenon, <1>7, RetainedIn
<1>13. /\ topic_listeners' \in [Topics -> Seq(WsClients)] /\ topic_listeners'[m.topic] = K
       /\ \A t \in Topics : t # m.topic => topic_listeners'[t] = topic_listeners[t]
  <2>1. topic_listeners' = [topic_listeners EXCEPT ![m.topic] = K]
    BY Zenon, <1>2
  <2> HIDE DEF K
  <2> QED
    BY Zenon, <1>4, <1>6, <1>12, <2>1
<1>14. \A c \in WsClients : client_state[c] = "open" => c \notin failing /\ c \notin removed
  BY Zenon, <1>2
<1> DEFINE k(c) == Cardinality(Copies(c))
<1> HIDE DEF Copies, removed, K
<1>15. \A c \in WsClients : delivered'[c] = delivered[c] \o [i \in 1..k(c) |-> m]
  BY Zenon, <1>2 DEF Copies
<1>16. \A c \in WsClients : /\ delivered'[c] \in Seq(WsMessages)
                            /\ Extends(delivered[c], delivered'[c], m, k(c))
  <2> TAKE c \in WsClients
  <2>1. delivered[c] \in Seq(WsMessages) /\ k(c) \in Nat
    BY Zenon, <1>4, <1>11
  <2> DEFINE D == delivered[c]
             n == k(c)
             E == D \o [i \in 1..n |-> m]
  <2>2. delivered'[c] = E
    BY Zenon, <1>15
  <2> HIDE DEF D, n
  <2>3. E \in Seq(WsMessages) /\ Extends(D, E, m, n)
    BY Zenon, <1>6, <2>1, RepeatExtends DEF D, n
  <2> QED
    BY Zenon, <2>2, <2>3 DEF D, n
<1>17. delivered' \in [WsClients -> Seq(WsMessages)]
  <2>1. DOMAIN delivered' = WsClients /\ delivered' = [c \in WsClients |-> delivered'[c]]
    BY Zenon, <1>2
  <2> QED
    BY Zenon, <1>16, <2>1
<1>18. /\ handled' \in Seq(TopicMessages) /\ Extends(handled, handled', m, 1)
       /\ Len(handled) \in Nat /\ Len(handled') = Len(handled) + 1 /\ DOMAIN handled = 1..Len(handled)
       /\ DOMAIN handled' = 1..Len(handled')
  <2>1. /\ handled' \in Seq(TopicMessages) /\ Extends(handled, handled', m, 1)
        /\ Len(handled) \in Nat /\ Len(handled') = Len(handled) + 1
    BY Zenon, <1>3, <1>4, <1>5, AppendExtends
  <2> QED
    BY <1>4, <2>1
<1>19. WsTypes'
  BY Zenon, <1>1, <1>3, <1>5, <1>13, <1>17, <1>18 DEF WsTypes
<1>20. LoopInv'
  <2>1. ws_running' = TRUE
    BY Zenon, <1>2, <1>9 DEF unknown, reached
  <2>2. mode # "broadcasts"
    BY Zenon, <1>1, <1>3 DEF LoopInv
  <2>3. \A t \in Topics, c \in WsClients : InList(topic_listeners'[t], c) => InList(topic_listeners[t], c)
    BY Zenon, <1>12, <1>13 DEF L
  <2> QED
    BY Zenon, <1>1, <1>3, <2>1, <2>2, <2>3 DEF LoopInv
<1>21. PendingInv(pending', next_message')
  <2>1. Len(pending') <= MaxPending
    <3>1. Len(pending) <= MaxPending
      BY Zenon, <1>1 DEF PendingInv
    <3> QED
      BY <1>5, <3>1, WsAssumption
  <2>2. \A i, j \in DOMAIN pending' : i < j => i + 1 < j + 1
    BY <1>5
  <2> QED
    BY Zenon, <1>1, <1>3, <1>5, <2>1, <2>2 DEF PendingInv
<1>22. /\ Before(m, next_message) /\ NotAfter(m, m)
       /\ \A j \in DOMAIN pending' : Before(m, pending'[j]) /\ \E i \in DOMAIN pending : pending'[j] = pending[i]
  <2>1. NotAfter(m, m)
    BY <1>6 DEF NotAfter
  <2> QED
    BY Zenon, <1>1, <1>5, <2>1 DEF PendingInv
<1>23. \A n \in Nat : n <= Len(handled) =>
            n <= Len(handled') /\ \A i \in DOMAIN handled' : i \notin DOMAIN handled => n < i
  BY <1>18
<1>24. ASSUME NEW d \in WsClients PROVE ClientInv(d)'
  <2>1. ClientInv(d)
    BY Zenon, <1>1
  <2>2. AwayInv(d, client_state'[d], new_peers', peer_receivers', registered_at'[d])
    BY Zenon, <1>3, <2>1 DEF ClientInv
  <2>3. ASSUME NEW t \in Topics
        PROVE  /\ TopicInv(d, t, client_state[d], delivered'[d], topic_listeners'[t], registered_at[d][t], handled')
               /\ InOrderBefore(delivered'[d], t, pending', next_message)
    <3>1. /\ TopicInv(d, t, client_state[d], delivered[d], topic_listeners[t], registered_at[d][t], handled)
          /\ InOrderBefore(delivered[d], t, pending, next_message)
      BY Zenon, <2>1 DEF ClientInv
    <3>2. registered_at[d][t] \subseteq Nat
      BY Zenon, <1>1 DEF WsTypes
    <3>3. \A n \in registered_at[d][t] : n <= Len(handled) =>
            n <= Len(handled') /\ \A i \in DOMAIN handled' : i \notin DOMAIN handled => n < i
      BY Zenon, <1>23, <3>2
    <3>4. Extends(delivered[d], delivered'[d], m, k(d))
      BY Zenon, <1>16
    <3>5. CASE t # m.topic
      <4>1. topic_listeners'[t] = topic_listeners[t]
        BY Zenon, <1>13, <3>5
      <4> HIDE DEF k
      <4>2. OtherStep(t, delivered[d], delivered'[d], registered_at[d][t], handled, handled', pending, pending', m, k(d), 1)
        BY Zenon, <1>18, <1>22, <3>3, <3>4, <3>5 DEF OtherStep
      <4>3. TopicHolds(d, t, client_state[d], delivered[d], topic_listeners[t], registered_at[d][t], handled, pending, next_message)
        BY Zenon, <3>1 DEF TopicHolds
      <4>4. TopicHolds(d, t, client_state[d], delivered'[d], topic_listeners[t], registered_at[d][t], handled', pending', next_message)
        BY Zenon, <4>2, <4>3, OtherTopic
      <4> QED
        BY Zenon, <4>1, <4>4 DEF TopicHolds
    <3>6. CASE t = m.topic
      <4>1. topic_listeners'[t] = K /\ topic_listeners[t] = L
        BY Zenon, <1>13, <3>6 DEF L
      <4>2. Listens(d, client_state[d], L, K, k(d))
        BY Zenon, <1>11, <1>12, <1>14 DEF Listens
      <4>3. \A i \in DOMAIN delivered[d] : Before(delivered[d][i], m) => NotAfter(delivered[d][i], m)
        <5> TAKE i \in DOMAIN delivered[d]
        <5> DEFINE a == delivered[d][i]
        <5>1. a \in WsMessages
          BY <1>4
        <5> HIDE DEF a
        <5>2. a.index \in Nat
          BY Zenon, <5>1 DEF WsMessages
        <5>3. a.index < m.index => a.index <= m.index
          BY <1>6, <5>2
        <5> QED
          BY Zenon, <5>3 DEF Before, NotAfter, a
      <4>4. TopicInv(d, t, client_state[d], delivered[d], L, registered_at[d][t], handled)
        BY Zenon, <3>1, <4>1
      <4>5. \E i \in DOMAIN pending : pending[i] = m
        BY Zenon, <1>5
      <4> HIDE DEF k
      <4>6. ThisStep(t, delivered[d], delivered'[d], registered_at[d][t], handled, handled', pending, pending', m, k(d), next_message)
        BY Zenon, <1>18, <1>22, <3>3, <3>4, <3>6, <4>3, <4>5 DEF ThisStep
      <4>7. /\ TopicInv(d, t, client_state[d], delivered'[d], K, registered_at[d][t], handled')
            /\ InOrderBefore(delivered'[d], t, pending', next_message)
        BY Zenon, <3>1, <4>2, <4>4, <4>6, ThisTopic
      <4> QED
        BY Zenon, <4>1, <4>7
    <3> QED
      BY Zenon, <3>5, <3>6
  <2> QED
    BY Zenon, <1>3, <2>2, <2>3 DEF ClientInv
<1> QED
  BY Zenon, <1>1, <1>3, <1>19, <1>20, <1>21, <1>24 DEF WsInv

(* broadcast_message *)
LEMMA BroadcastKeeps ==
    ASSUME WsInv, mode # "both", broadcast_message
    PROVE  WsInv'
<1> DEFINE m == [topic |-> "", block |-> 0, index |-> broadcasts']
<1>1. WsTypes /\ LoopInv /\ PendingInv(pending, next_message) /\ \A d \in WsClients : ClientInv(d)
  BY Zenon DEF WsInv
<1>2. /\ client_state' = client_state /\ new_peers' = new_peers
      /\ peer_receivers' = peer_receivers /\ topic_listeners' = topic_listeners
      /\ mode' = mode /\ registered_at' = registered_at /\ mode = "broadcasts"
      /\ next_message' = next_message /\ pending' = pending /\ handled' = handled
  <2>1. mode = "broadcasts"
    BY Zenon, <1>1 DEF broadcast_message, WsTypes
  <2> QED
    BY Zenon, <2>1 DEF broadcast_message, clientVars
<1>3. broadcasts \in Nat /\ delivered \in [WsClients -> Seq(WsMessages)]
  BY Zenon, <1>1 DEF WsTypes
<1>4. broadcasts' \in Nat
  <2>1. broadcasts' = broadcasts + 1
    BY Zenon DEF broadcast_message
  <2> QED
    BY <1>3, <2>1
<1>5. m \in WsMessages /\ m.topic = ""
  <2> DEFINE T == Topics \cup {""}
             n == broadcasts'
  <2>1. "" \in T /\ n \in Nat
    BY Zenon, <1>4
  <2> HIDE DEF T, n
  <2>2. [topic |-> "", block |-> 0, index |-> n] \in [topic : T, block : Nat, index : Nat]
    BY Zenon, <2>1
  <2>3. m.topic = ""
    BY Zenon
  <2> QED
    BY Zenon, <2>2, <2>3 DEF WsMessages, T, n
<1>6. PICK failing :
        /\ delivered' = [c \in WsClients |-> IF c \in peer_senders \ failing THEN Append(delivered[c], m)
                                                                             ELSE delivered[c]]
        /\ peer_senders' = peer_senders \ failing
        /\ ws_running' = (peer_senders \ failing # {} \/ peer_senders' = {})
  BY Zenon DEF broadcast_message
<1> HIDE DEF m
<1>7. ws_running' = TRUE
  BY Zenon, <1>6
<1>8. \A c \in WsClients : delivered'[c] \in Seq(WsMessages) /\ \E k : Extends(delivered[c], delivered'[c], m, k)
  <2> TAKE c \in WsClients
  <2>1. delivered[c] \in Seq(WsMessages)
    BY Zenon, <1>3
  <2>2. delivered'[c] = Append(delivered[c], m) \/ delivered'[c] = delivered[c]
    BY Zenon, <1>6
  <2>3. Extends(delivered[c], delivered[c], m, 0)
    BY Zenon DEF Extends
  <2>4. Append(delivered[c], m) \in Seq(WsMessages) /\ Extends(delivered[c], Append(delivered[c], m), m, 1)
    BY Zenon, <1>5, <2>1, AppendExtends
  <2> QED
    BY Zenon, <2>1, <2>2, <2>3, <2>4
<1>9. delivered' \in [WsClients -> Seq(WsMessages)]
  <2>1. DOMAIN delivered' = WsClients /\ delivered' = [c \in WsClients |-> delivered'[c]]
    BY Zenon, <1>6
  <2> QED
    BY Zenon, <1>8, <2>1
<1>10. WsTypes'
  BY Zenon, <1>1, <1>2, <1>4, <1>9 DEF WsTypes
<1>11. LoopInv'
  BY Zenon, <1>1, <1>2, <1>7 DEF LoopInv
<1>12. ASSUME NEW d \in WsClients PROVE ClientInv(d)'
  <2>1. ClientInv(d)
    BY Zenon, <1>1
  <2>2. PICK k : Extends(delivered[d], delivered'[d], m, k)
    BY Zenon, <1>8
  <2>3. Extends(handled, handled, m, 0)
    BY Zenon DEF Extends
  <2>4. ASSUME NEW t \in Topics
        PROVE  TopicHolds(d, t, client_state[d], delivered'[d], topic_listeners[t], registered_at[d][t],
                          handled, pending, next_message)
    <3>1. TopicHolds(d, t, client_state[d], delivered[d], topic_listeners[t], registered_at[d][t],
                     handled, pending, next_message)
      BY Zenon, <2>1 DEF ClientInv, TopicHolds
    <3>2. m.topic # t
      BY Zenon, <1>5 DEF Topics
    <3>3. OtherStep(t, delivered[d], delivered'[d], registered_at[d][t], handled, handled, pending, pending,
                    m, k, 0)
      BY Zenon, <2>2, <2>3, <3>2 DEF OtherStep
    <3> QED
      BY Zenon, <3>1, <3>3, OtherTopic
  <2> QED
    BY Zenon, <1>2, <2>1, <2>4 DEF ClientInv, TopicHolds
<1> QED
  BY Zenon, <1>1, <1>2, <1>10, <1>11, <1>12 DEF WsInv

(* Every step keeps the invariant. *)
LEMMA WsInvStep == WsInv /\ [WsNext]_wsVars => WsInv'
<1> SUFFICES ASSUME WsInv, [WsNext]_wsVars PROVE WsInv'
  BY Zenon
<1>1. mode' = mode
  BY Zenon DEF WsNext, wsVars, handle_node_state_event, ws_handler, ClientSends, ClientLeaves, CheckNewPeers,
               ReceiveRequest, topic_message, broadcast_message
<1>2. CASE mode = "both"
  BY Zenon, <1>1, <1>2 DEF WsInv
<1>3. CASE mode # "both" /\ WsNext
  BY Zenon, <1>3, BlockKeeps, ArrivalKeeps, ClientKeeps, PeersKeep, RequestKeeps, TopicKeeps, BroadcastKeeps
     DEF WsNext
<1>4. CASE UNCHANGED wsVars
  BY Zenon, <1>4 DEF WsInv, WsTypes, LoopInv, ClientInv, wsVars, clientVars, serverVars
<1> QED
  BY Zenon, <1>2, <1>3, <1>4

(* No client stops a server that is used for topics or for broadcasts by leaving, and a client  *)
(* that stays has received, in order, what was handled of its topics since it was registered.   *)
THEOREM TopicsReachTheirListeners == WsSpec => []TopicsDelivered
<1>1. WsSpec => []WsInv
  BY WsInvInit, WsInvStep, PTL DEF WsSpec
<1> QED
  BY <1>1, WsInvImplies, PTL
=============================================================================
