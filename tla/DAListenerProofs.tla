-------------------------- MODULE DAListenerProofs -------------------------
(***************************************************************************)
(* Safety of a DataAvailability node with NodeState behind it and a        *)
(* DAListener connected to it, for every chain length and every number of  *)
(* reconnections, retries and restarts, and the refinement of BlockStream.  *)
(***************************************************************************)
EXTENDS DAListener, WellFoundedInduction, NaturalsInduction, SequenceTheorems, TLAPS

---------------------------------------------------------------------------
(* The block stream: ranges of heights and the types of the stream. *)

(* A non-empty set of natural numbers has a least element. *)
LEMMA LeastNat ==
    ASSUME NEW S \in SUBSET Nat, S # {}
    PROVE  \E m \in S : \A n \in S : m <= n
<1> DEFINE Less == OpToRel(<, Nat)
<1>1. \A a, b \in Nat : a < b => <<a, b>> \in Less
  BY Zenon DEF OpToRel
<1>2. IsWellFoundedOn(Less, Nat)
  BY Zenon, NatLessThanWellFounded
<1> HIDE DEF Less
<1>3. PICK m \in S : \A n \in S : ~(<<n, m>> \in Less)
  BY Zenon, <1>2, WFMin
<1>4. \A n \in S : m <= n
  <2> TAKE n \in S
  <2>1. m \in Nat /\ n \in Nat /\ ~(n < m)
    BY Zenon, <1>1, <1>3
  <2> QED
    BY <2>1
<1> QED
  BY Zenon, <1>3, <1>4

(* A function on 1..n is a sequence of length n. *)
LEMMA FunctionIsSeq ==
    ASSUME NEW S, NEW n \in Nat, NEW f \in [1..n -> S]
    PROVE  f \in Seq(S) /\ Len(f) = n
  OBVIOUS

(* The length and the elements of a range. *)
LEMMA RangeShape ==
    ASSUME NEW a \in Nat, NEW b \in Nat, a <= b
    PROVE  /\ HeightRange(a, b - 1) \in Seq(Int)
           /\ Len(HeightRange(a, b - 1)) = b - a
           /\ \A i \in 1..(b - a) : HeightRange(a, b - 1)[i] = a + i - 1
<1> DEFINE n == b - a
           f == [i \in 1..n |-> a + i - 1]
<1>1. n \in Nat
  OBVIOUS
<1>2. HeightRange(a, b - 1) = f
  <2>1. CASE a = b
    <3>1. f = <<>>
      BY <2>1
    <3> QED
      BY <2>1, <3>1 DEF HeightRange
  <2>2. CASE a < b
    BY <2>2 DEF HeightRange
  <2> QED
    BY <2>1, <2>2
<1>3. f \in [1..n -> Int]
  BY <1>1
<1> HIDE DEF n
<1>4. f \in Seq(Int) /\ Len(f) = n
  BY Zenon, <1>1, <1>3, FunctionIsSeq
<1> QED
  BY Zenon, <1>2, <1>4 DEF n

(* Adjacent ranges concatenate. *)
LEMMA RangeConcat ==
    ASSUME NEW a \in Nat, NEW b \in Nat, NEW c \in Nat, a <= b, b <= c
    PROVE  HeightRange(a, b - 1) \o HeightRange(b, c - 1) = HeightRange(a, c - 1)
<1> DEFINE l == HeightRange(a, b - 1)
           r == HeightRange(b, c - 1)
           w == HeightRange(a, c - 1)
<1>1. l \in Seq(Int) /\ Len(l) = b - a /\ \A i \in 1..(b - a) : l[i] = a + i - 1
  BY Zenon, RangeShape
<1>2. r \in Seq(Int) /\ Len(r) = c - b /\ \A i \in 1..(c - b) : r[i] = b + i - 1
  BY Zenon, RangeShape
<1>3. w \in Seq(Int) /\ Len(w) = c - a /\ \A i \in 1..(c - a) : w[i] = a + i - 1
  <2>1. a <= c
    OBVIOUS
  <2> QED
    BY Zenon, <2>1, RangeShape
<1> HIDE DEF l, r, w
<1>4. /\ l \o r \in Seq(Int) /\ Len(l \o r) = Len(l) + Len(r)
      /\ \A i \in 1..(Len(l) + Len(r)) :
            (l \o r)[i] = IF i <= Len(l) THEN l[i] ELSE r[i - Len(l)]
  <2>1. l \in Seq(Int) /\ r \in Seq(Int)
    BY Zenon, <1>1, <1>2
  <2> QED
    BY Zenon, <2>1, ConcatProperties
<1>5. ASSUME NEW i \in 1..(c - a)
      PROVE  (l \o r)[i] = w[i]
  <2>1. CASE i <= b - a
    BY <1>1, <1>2, <1>3, <1>4, <2>1
  <2>2. CASE i > b - a
    <3>1. (l \o r)[i] = r[i - (b - a)] /\ i - (b - a) \in 1..(c - b)
      BY <1>1, <1>2, <1>4, <2>2
    <3>2. r[i - (b - a)] = b + (i - (b - a)) - 1
      BY Zenon, <1>2, <3>1
    <3>3. w[i] = a + i - 1
      BY Zenon, <1>3
    <3>4. b + (i - (b - a)) - 1 = a + i - 1
      OBVIOUS
    <3> QED
      BY Zenon, <3>1, <3>2, <3>3, <3>4
  <2>3. i <= b - a \/ i > b - a
    OBVIOUS
  <2> QED
    BY Zenon, <2>1, <2>2, <2>3 DEF l, r, w
<1>6. l \o r = w
  <2>1. Len(l \o r) = Len(w)
    <3> DEFINE x == Len(l \o r)
               y == Len(l)
               z == Len(r)
               u == Len(w)
    <3>1. x = y + z /\ y = b - a /\ z = c - b /\ u = c - a
      BY Zenon, <1>1, <1>2, <1>3, <1>4
    <3> HIDE DEF x, y, z, u
    <3>2. x = u
      BY <3>1
    <3> QED
      BY Zenon, <3>2 DEF x, u
  <2>2. \A i \in 1..Len(w) : (l \o r)[i] = w[i]
    BY Zenon, <1>3, <1>5
  <2> QED
    BY Zenon, <1>3, <1>4, <2>1, <2>2, SeqEqual
<1> QED
  BY Zenon, <1>6 DEF l, r, w

(* The range of stored heights is a sequence of heights. *)
LEMMA RangeType ==
    ASSUME NEW from \in Nat, NEW to \in -1..MaxHeight
    PROVE  HeightRange(from, to) \in Seq(Heights)
<1>1. CASE from > to
  BY <1>1 DEF HeightRange
<1>2. CASE from <= to
  <2>1. \A i \in 1..(to - from + 1) : from + i - 1 \in Heights
    BY <1>2, MaxHeightAssumption DEF Heights
  <2>2. to - from + 1 \in Nat
    BY <1>2, MaxHeightAssumption
  <2> QED
    BY <1>2, <2>1, <2>2, MaxHeightAssumption DEF HeightRange
<1> QED
  BY <1>1, <1>2, MaxHeightAssumption

(* The server's steps keep the stream well typed. *)
LEMMA ServerType == StreamTypeOK /\ ServerNext => StreamTypeOK'
<1> SUFFICES ASSUME StreamTypeOK, ServerNext PROVE StreamTypeOK'
  BY Zenon
<1> USE MaxHeightAssumption, MaxReconnectsAssumption DEF StreamTypeOK, NoRequest
<1>1. CASE SetupStream
  BY Zenon, <1>1 DEF SetupStream
<1>2. CASE AddProcessedBlock
  <2>1. PICK last \in (tip + 1)..MaxHeight :
            /\ tip' = last
            /\ wire' = IF conn = "registered" THEN wire \o HeightRange(tip + 1, last) ELSE wire
    BY Zenon, <1>2 DEF AddProcessedBlock
  <2>2. HeightRange(tip + 1, last) \in Seq(Heights)
    BY RangeType DEF Heights
  <2>3. wire \o HeightRange(tip + 1, last) \in Seq(Heights)
    BY Zenon, <2>2, ConcatProperties
  <2>4. wire' \in Seq(Heights) /\ tip' \in -1..MaxHeight
    BY <2>1, <2>3
  <2> QED
    BY Zenon, <1>2, <2>4 DEF AddProcessedBlock
<1>3. CASE StartStreamingToPeer
  <2>1. HeightRange(request, tip) \in Seq(Heights)
    BY Zenon, <1>3, RangeType DEF StartStreamingToPeer, Heights
  <2> QED
    BY Zenon, <1>3, <2>1 DEF StartStreamingToPeer
<1>4. CASE StreamOneBlock
  BY <1>4 DEF StreamOneBlock
<1>5. CASE DropPeerStream
  BY <1>5 DEF DropPeerStream
<1> QED
  BY Zenon, <1>1, <1>2, <1>3, <1>4, <1>5 DEF ServerNext

---------------------------------------------------------------------------
(* The node. *)

(* The last element of the store 0..n is n. *)
LEMMA LastOfRange ==
    ASSUME NEW n \in -1..MaxHeight
    PROVE  LastHeight(0..n) = n
<1>1. n \in (0..n) \cup {-1} /\ \A other \in 0..n : other <= n
  BY MaxHeightAssumption
<1>2. \A h \in (0..n) \cup {-1} : (\A other \in 0..n : other <= h) => h = n
  BY MaxHeightAssumption
<1> QED
  BY Zenon, <1>1, <1>2 DEF LastHeight

(* Behind height h the buffer has a first gap, no later than after the last block. *)
LEMMA FirstGap ==
    ASSUME NEW h \in Heights, NEW buffer \in SUBSET Heights
    PROVE  \E last \in h..MaxHeight : (h + 1)..last \subseteq buffer /\ last + 1 \notin buffer
<1> DEFINE Missing == {n \in (h + 1)..(MaxHeight + 1) : n \notin buffer}
<1>1. MaxHeight + 1 \in Missing /\ Missing \in SUBSET Nat
  BY MaxHeightAssumption DEF Heights
<1>2. PICK m \in Missing : \A n \in Missing : m <= n
  BY Zenon, <1>1, LeastNat
<1>3. m - 1 \in h..MaxHeight /\ (h + 1)..(m - 1) \subseteq buffer /\ (m - 1) + 1 \notin buffer
  BY <1>2, MaxHeightAssumption DEF Heights
<1> QED
  BY Zenon, <1>3

(* A sequence that counts up from a is the range of heights from a. *)
LEMMA CountsAreRanges ==
    ASSUME NEW s \in Seq(Heights), NEW a \in Nat, \A i \in 1..Len(s) : s[i] = a + i - 1
    PROVE  s = HeightRange(a, a + Len(s) - 1)
<1> DEFINE b == a + Len(s)
           r == HeightRange(a, b - 1)
<1>1. b \in Nat /\ a <= b /\ b - a = Len(s)
  OBVIOUS
<1>2. r \in Seq(Int) /\ Len(r) = b - a /\ \A i \in 1..(b - a) : r[i] = a + i - 1
  <2> HIDE DEF b
  <2> QED
    BY Zenon, <1>1, RangeShape
<1>3. s \in Seq(Int)
  BY DEF Heights
<1> HIDE DEF r
<1>4. Len(s) = Len(r) /\ \A i \in 1..Len(s) : s[i] = r[i]
  BY Zenon, <1>1, <1>2
<1>5. s = r
  BY Zenon, <1>2, <1>3, <1>4, SeqEqual
<1> QED
  BY <1>5 DEF r

---------------------------------------------------------------------------
(* The inductive invariant. *)

(* A sequence of blocks that starts with the genesis block or the one after it. *)
CountsUp(s) == \E first \in {0, 1} : \A i \in 1..Len(s) : s[i] = first + i - 1

(* The last block of s comes before the blocks that wait on the bus to NodeState. *)
BeforeEvents(s) == s # <<>> => s[Len(s)] <= Last - Len(events)

(* The store is a chain, the buffer is ahead of it, the events on the bus are its last   *)
(* blocks, and what NodeState handled or saved comes before them.                        *)
StoreInv ==
    /\ Last \in -1..MaxHeight /\ blocks = 0..Last
    /\ \A b \in buffered : b > Last + 1
    /\ Len(events) <= Last + 1
    /\ \A i \in 1..Len(events) : events[i] = Last - Len(events) + i
    /\ CountsUp(handled) /\ BeforeEvents(handled)
    /\ CountsUp(saved) /\ BeforeEvents(saved)
    /\ \/ lost
       \/ /\ Len(handled) + Len(events) = Last + 1
          /\ \A i \in 1..Len(handled) : handled[i] = i - 1

(* What the listener has published, and its NodeState's height. *)
Follows(height, s) ==
    /\ height = IF s = <<>> THEN 0 ELSE s[Len(s)]
    /\ \A i \in 1..(Len(s) - 1) : s[i + 1] = s[i] + 1 \/ (s[i + 1] = 0 /\ s[i] = 0)

ListenerInv ==
    /\ Follows(current_height, published)
    /\ Follows(persisted.current_height, persisted.published)

DAInv == TypeOK /\ StoreInv /\ ListenerInv

---------------------------------------------------------------------------
(* The type of the node's client. *)
ClientType ==
    [id : Clients, state : {"up", "down"}, request : 0..(MaxHeight + 1) \cup {NoRequest},
     wire : Seq(Heights)]

(* The variables that handle_signed_block changes keep their types. *)
StoreTypes ==
    /\ blocks \subseteq Heights /\ buffered \subseteq Heights
    /\ events \in Seq(Heights) /\ sockets \subseteq Clients /\ client \in ClientType

(* pop_buffer ends at a block followed by a gap of the buffer. *)
LEMMA PopBuffer ==
    ASSUME NEW h \in Heights, buffered \subseteq Heights, \A b \in buffered : b > h
    PROVE  /\ pop_buffer(h) \in h..MaxHeight
           /\ pop_buffer(h) + 1 \notin buffered
<1>1. \E last \in h..MaxHeight : (h + 1)..last \subseteq buffered /\ last + 1 \notin buffered
  BY Zenon, FirstGap
<1>2. ~ \E b \in buffered : b <= h
  BY MaxHeightAssumption DEF Heights
<1> QED
  BY Zenon, <1>1, <1>2 DEF pop_buffer

(* Storing the block after the last one appends to the chain what the buffer holds       *)
(* behind it, and leaves the buffer ahead of the new last block.                         *)
LEMMA StoreNext ==
    ASSUME TypeOK, StoreInv, NEW h \in Heights, h \notin blocks, ParentKnown(h),
           blocks' = blocks \cup (h..pop_buffer(h)),
           buffered' = buffered \ ((h + 1)..pop_buffer(h))
    PROVE  /\ h = Last + 1 /\ pop_buffer(h) \in h..MaxHeight
           /\ Last' = pop_buffer(h) /\ blocks' = 0..Last'
           /\ \A b \in buffered' : b > Last' + 1
           /\ buffered' \subseteq Heights
<1> USE MaxHeightAssumption
<1> DEFINE n == Last
           last == pop_buffer(h)
<1>1. n \in -1..MaxHeight /\ blocks = 0..n /\ buffered \subseteq Heights
      /\ \A b \in buffered : b > n + 1
  BY Zenon DEF StoreInv, TypeOK, NodeTypeOK
<1> HIDE DEF n
<1>2. h = n + 1
  <2>1. CASE n = -1
    <3>1. blocks = {}
      BY <1>1, <2>1
    <3> QED
      BY <2>1, <3>1 DEF ParentKnown
  <2>2. CASE n # -1
    <3>1. blocks # {}
      BY <1>1, <2>2
    <3>2. h - 1 \in 0..n /\ h \notin 0..n
      BY Zenon, <1>1, <3>1 DEF ParentKnown
    <3> QED
      BY <1>1, <3>2 DEF Heights
  <2> QED
    BY Zenon, <2>1, <2>2
<1>3. last \in h..MaxHeight /\ last + 1 \notin buffered
  BY Zenon, <1>1, <1>2, PopBuffer DEF Heights
<1> HIDE DEF last
<1>4. blocks' = 0..last
  <2>1. blocks' = (0..n) \cup (h..last)
    BY Zenon, <1>1 DEF last
  <2> QED
    BY <1>1, <1>2, <1>3, <2>1
<1>5. Last' = last
  <2>1. last \in -1..MaxHeight
    BY <1>3 DEF Heights
  <2> QED
    BY Zenon, <1>4, <2>1, LastOfRange DEF Last
<1>6. buffered' = buffered \ ((h + 1)..last)
  BY Zenon DEF last
<1>7. \A b \in buffered' : b > last + 1
  BY <1>1, <1>2, <1>3, <1>6 DEF Heights
<1> QED
  BY Zenon, <1>1, <1>2, <1>3, <1>4, <1>5, <1>6, <1>7 DEF n, last

(* What add_processed_block sends is well typed. *)
LEMMA SendTypes ==
    ASSUME TypeOK, NEW h \in Heights, NEW last \in h..MaxHeight, add_processed_block(h, last)
    PROVE  events' \in Seq(Heights) /\ sockets' \subseteq Clients /\ client' \in ClientType
<1> USE MaxHeightAssumption
<1>1. HeightRange(h, last) \in Seq(Heights)
  BY RangeType DEF Heights
<1>2. events \o HeightRange(h, last) \in Seq(Heights) /\ client.wire \o HeightRange(h, last) \in Seq(Heights)
  BY <1>1 DEF TypeOK, NodeTypeOK
<1> DEFINE w == IF client.state = "up" /\ client.id \in sockets
                THEN client.wire \o HeightRange(h, last) ELSE client.wire
<1>3. w \in Seq(Heights)
  BY Zenon, <1>2 DEF TypeOK, NodeTypeOK
<1>4. client' = [client EXCEPT !.wire = w]
  BY Zenon DEF add_processed_block
<1> HIDE DEF w
<1>5. client' \in ClientType
  BY Zenon, <1>3, <1>4 DEF TypeOK, NodeTypeOK, ClientType
<1> QED
  BY Zenon, <1>2, <1>5 DEF add_processed_block, TypeOK, NodeTypeOK

(* The events on the bus stay the last blocks of the chain when blocks are stored. *)
LEMMA EventsFollow ==
    ASSUME NEW n \in -1..MaxHeight, NEW last \in (n + 1)..MaxHeight, NEW s \in Seq(Heights),
           Len(s) <= n + 1, \A i \in 1..Len(s) : s[i] = n - Len(s) + i
    PROVE  LET t == s \o HeightRange(n + 1, last)
           IN  /\ Len(t) = Len(s) + last - n
               /\ \A i \in 1..Len(t) : t[i] = last - Len(t) + i
<1> USE MaxHeightAssumption
<1> DEFINE r == HeightRange(n + 1, last)
           b == last + 1
<1>1. n + 1 \in Nat /\ b \in Nat /\ n + 1 <= b /\ b - 1 = last
  OBVIOUS
<1>2. r \in Seq(Int) /\ Len(r) = last - n /\ \A i \in 1..(last - n) : r[i] = n + i
  <2>1. HeightRange(n + 1, b - 1) \in Seq(Int) /\ Len(HeightRange(n + 1, b - 1)) = b - (n + 1)
        /\ \A i \in 1..(b - (n + 1)) : HeightRange(n + 1, b - 1)[i] = (n + 1) + i - 1
    <3> HIDE DEF b
    <3> QED
      BY Zenon, <1>1, RangeShape
  <2>2. b - (n + 1) = last - n /\ \A i \in 1..(last - n) : (n + 1) + i - 1 = n + i
    OBVIOUS
  <2> QED
    BY Zenon, <1>1, <2>1, <2>2
<1>3. s \in Seq(Int)
  BY DEF Heights
<1> HIDE DEF r
<1>4. /\ Len(s \o r) = Len(s) + Len(r)
      /\ \A i \in 1..(Len(s) + Len(r)) :
            (s \o r)[i] = IF i <= Len(s) THEN s[i] ELSE r[i - Len(s)]
  BY Zenon, <1>2, <1>3, ConcatProperties
<1> DEFINE k == Len(s)
<1>5. k \in Nat
  OBVIOUS
<1>6. Len(s \o r) = k + (last - n)
  BY Zenon, <1>2, <1>4
<1>7. ASSUME NEW i \in 1..(k + (last - n))
      PROVE  (s \o r)[i] = n - k + i
  <2>1. CASE i <= k
    BY <1>2, <1>4, <2>1
  <2>2. CASE i > k
    <3>1. (s \o r)[i] = r[i - k] /\ i - k \in 1..(last - n)
      BY <1>2, <1>4, <1>5, <2>2
    <3>2. r[i - k] = n + (i - k)
      BY Zenon, <1>2, <3>1
    <3> HIDE DEF k
    <3> QED
      BY <1>5, <3>1, <3>2
  <2>3. i <= k \/ i > k
    OBVIOUS
  <2> HIDE DEF k
  <2> QED
    BY Zenon, <2>1, <2>2, <2>3
<1>8. last - (k + (last - n)) = n - k
  <2> HIDE DEF k
  <2> QED
    BY <1>5
<1>9. k + (last - n) = k + last - n
  <2> HIDE DEF k
  <2> QED
    BY Zenon, <1>5
<1> HIDE DEF k
<1>10. \A i \in 1..(k + (last - n)) : (s \o r)[i] = last - (k + (last - n)) + i
  BY Zenon, <1>5, <1>7, <1>8
<1> QED
  BY Zenon, <1>6, <1>9, <1>10 DEF r, k

(* Handling a signed block keeps the store's invariant. *)
LEMMA HandleKeeps ==
    ASSUME TypeOK, StoreInv, NEW h \in Heights, handle_signed_block(h),
           UNCHANGED <<handled, saved, lost>>
    PROVE  StoreTypes' /\ StoreInv'
<1> USE MaxHeightAssumption
<1>1. CASE h \in blocks /\ UNCHANGED storeVars
  BY Zenon, <1>1 DEF storeVars, StoreTypes, StoreInv, TypeOK, NodeTypeOK, ClientType, BeforeEvents, Last
<1>2. CASE /\ h \notin blocks /\ ~ParentKnown(h)
           /\ buffered' = buffered \cup {h}
           /\ UNCHANGED <<blocks, events, sockets, client>>
  <2>1. h > Last + 1
    <3> DEFINE n == Last
    <3>1. n \in -1..MaxHeight /\ blocks = 0..n
      BY Zenon DEF StoreInv
    <3> HIDE DEF n
    <3>2. h \notin 0..n /\ (n = -1 => h # 0) /\ (n # -1 => h - 1 \notin 0..n)
      <4>0. n # -1 => 0 \in 0..n
        BY <3>1
      <4>1. n # -1 => blocks # {}
        BY Zenon, <3>1, <4>0
      <4>2. n = -1 => blocks = {}
        BY <3>1
      <4> QED
        BY Zenon, <1>2, <3>1, <4>1, <4>2 DEF ParentKnown
    <3>3. h > n + 1
      BY <3>1, <3>2 DEF Heights
    <3> QED
      BY Zenon, <3>3 DEF n
  <2>2. Last' = Last
    BY Zenon, <1>2 DEF Last
  <2>3. \A b \in buffered' : b > Last + 1
    BY Zenon, <1>2, <2>1 DEF StoreInv
  <2>4. StoreTypes'
    BY Zenon, <1>2 DEF StoreTypes, TypeOK, NodeTypeOK, ClientType
  <2> QED
    BY Zenon, <1>2, <2>2, <2>3, <2>4 DEF StoreInv, BeforeEvents
<1>3. CASE /\ h \notin blocks /\ ParentKnown(h)
           /\ blocks' = blocks \cup (h..pop_buffer(h))
           /\ buffered' = buffered \ ((h + 1)..pop_buffer(h))
           /\ add_processed_block(h, pop_buffer(h))
  <2> DEFINE n == Last
             last == pop_buffer(h)
             k == Len(events)
  <2>1. /\ h = n + 1 /\ last \in h..MaxHeight /\ Last' = last /\ blocks' = 0..last
        /\ \A b \in buffered' : b > last + 1
        /\ buffered' \subseteq Heights
    BY Zenon, <1>3, StoreNext
  <2>2. n \in -1..MaxHeight /\ events \in Seq(Heights) /\ k \in Nat /\ k <= n + 1
        /\ \A i \in 1..k : events[i] = n - k + i
    BY DEF StoreInv, TypeOK, NodeTypeOK
  <2>3. events' \in Seq(Heights) /\ sockets' \subseteq Clients /\ client' \in ClientType
    BY Zenon, <1>3, <2>1, SendTypes
  <2>4. events' = events \o HeightRange(h, last)
    BY Zenon, <1>3 DEF add_processed_block
  <2> HIDE DEF last
  <2>5. Len(events') = k + last - n /\ \A i \in 1..Len(events') : events'[i] = last - Len(events') + i
    <3> HIDE DEF n
    <3>1. last \in (n + 1)..MaxHeight
      BY Zenon, <2>1
    <3> QED
      BY Zenon, <2>1, <2>2, <2>4, <3>1, EventsFollow
  <2>6. last - Len(events') = n - k /\ Len(events') <= last + 1
    <3> HIDE DEF n, k
    <3> QED
      BY <2>1, <2>2, <2>5
  <2>7. BeforeEvents(handled)' /\ BeforeEvents(saved)'
    BY Zenon, <2>1, <2>6 DEF StoreInv, BeforeEvents
  <2>8. \/ lost'
        \/ /\ Len(handled') + Len(events') = last + 1
           /\ \A i \in 1..Len(handled') : handled'[i] = i - 1
    <3>1. CASE lost
      BY Zenon, <3>1
    <3>2. CASE ~lost
      <4>1. Len(handled) + k = n + 1 /\ \A i \in 1..Len(handled) : handled[i] = i - 1
        BY Zenon, <3>2 DEF StoreInv
      <4>2. Len(handled) \in Nat
        BY DEF TypeOK, NodeTypeOK
      <4> DEFINE m == Len(handled)
      <4>3. m + Len(events') = last + 1
        <5> HIDE DEF m, n, k
        <5>1. m \in Nat /\ m + k = n + 1
          BY Zenon, <4>1, <4>2 DEF m
        <5> QED
          BY <2>1, <2>2, <2>5, <5>1
      <4> QED
        BY Zenon, <4>1, <4>3
    <3> QED
      BY Zenon, <3>1, <3>2
  <2>9. last \in -1..MaxHeight /\ blocks' \subseteq Heights
    BY <2>1 DEF Heights
  <2>10. CountsUp(handled)' /\ CountsUp(saved)'
    BY Zenon DEF StoreInv, CountsUp
  <2>11. StoreTypes'
    BY Zenon, <2>1, <2>3, <2>9 DEF StoreTypes
  <2> QED
    BY Zenon, <2>1, <2>5, <2>6, <2>7, <2>8, <2>9, <2>10, <2>11 DEF StoreInv
<1> QED
  BY Zenon, <1>1, <1>2, <1>3 DEF handle_signed_block

(* Appending the next block to a sequence that counts up keeps it so. *)
LEMMA CountOn ==
    ASSUME NEW s \in Seq(Heights), NEW h \in Heights, CountsUp(s),
           IF s = <<>> THEN h \in {0, 1} ELSE h = s[Len(s)] + 1
    PROVE  CountsUp(Append(s, h))
<1> DEFINE t == Append(s, h)
           k == Len(s)
<1>1. t \in Seq(Heights) /\ Len(t) = k + 1 /\ k \in Nat /\ t[k + 1] = h
      /\ \A i \in 1..k : t[i] = s[i]
  OBVIOUS
<1>2. CASE s = <<>>
  <2>1. k = 0
    BY Zenon, <1>2
  <2>2. h \in {0, 1} /\ h = h + 1 - 1
    BY <1>2
  <2>3. \A i \in 1..Len(t) : t[i] = h + i - 1
    <3> HIDE DEF k, t
    <3> QED
      BY <1>1, <2>1, <2>2
  <2> HIDE DEF t
  <2> QED
    BY Zenon, <2>2, <2>3 DEF CountsUp, t
<1>3. CASE s # <<>>
  <2>1. PICK first \in {0, 1} : \A i \in 1..k : s[i] = first + i - 1
    BY Zenon DEF CountsUp
  <2>2. k >= 1
    BY <1>3
  <2>3. h = s[k] + 1
    BY Zenon, <1>3
  <2>4. \A i \in 1..(k + 1) : t[i] = first + i - 1
    <3> HIDE DEF k, t
    <3> TAKE i \in 1..(k + 1)
    <3>1. CASE i = k + 1
      BY <1>1, <2>1, <2>2, <2>3, <3>1
    <3>2. CASE i \in 1..k
      BY Zenon, <1>1, <2>1, <3>2
    <3> QED
      BY <1>1, <3>1, <3>2
  <2> HIDE DEF t
  <2> QED
    BY Zenon, <1>1, <2>1, <2>4 DEF CountsUp, t
<1> QED
  BY Zenon, <1>2, <1>3

(* NodeState's step: until blocks are lost it is never handed one that it refuses, and   *)
(* what it handles counts up.                                                            *)
LEMMA NodeStateStep ==
    ASSUME TypeOK, StoreInv, NodeStateHandlesBlock
    PROVE  NodeTypeOK' /\ StoreInv'
<1> USE MaxHeightAssumption
<1> DEFINE n == Last
           k == Len(events)
           m == Len(handled)
           h == Head(events)
           cur == IF handled = <<>> THEN 0 ELSE handled[m]
<1>1. /\ events \in Seq(Heights) /\ events # <<>> /\ k \in Nat /\ k >= 1
      /\ handled \in Seq(Heights) /\ saved \in Seq(Heights) /\ m \in Nat
      /\ (handled = <<>> <=> m = 0)
  BY DEF TypeOK, NodeTypeOK, NodeStateHandlesBlock
<1>2. /\ n \in -1..MaxHeight /\ k <= n + 1 /\ \A i \in 1..k : events[i] = n - k + i
  BY Zenon DEF StoreInv
<1>3. h = n - k + 1 /\ h \in Heights /\ Len(Tail(events)) = k - 1 /\ Tail(events) \in Seq(Heights)
      /\ \A i \in 1..(k - 1) : Tail(events)[i] = n - (k - 1) + i
  <2>1. h = events[1] /\ Len(Tail(events)) = k - 1 /\ Tail(events) \in Seq(Heights)
        /\ \A i \in 1..(k - 1) : Tail(events)[i] = events[i + 1]
    BY <1>1
  <2>2. h = n - k + 1 /\ h \in Heights
    <3> HIDE DEF n, k, h
    <3> QED
      BY <1>1, <1>2, <2>1 DEF Heights
  <2>3. \A i \in 1..(k - 1) : events[i + 1] = n - (k - 1) + i
    <3> HIDE DEF n, k, h
    <3> QED
      BY <1>1, <1>2
  <2> QED
    BY Zenon, <2>1, <2>2, <2>3
<1>4. Last' = n /\ events' = Tail(events) /\ UNCHANGED <<blocks, buffered, saved, lost>>
  BY Zenon DEF NodeStateHandlesBlock, Last
<1>5. \A s \in {handled, saved} : s # <<>> => s[Len(s)] <= n - k
  BY DEF StoreInv, BeforeEvents
<1>6. BeforeEvents(saved)'
  <2>1. saved # <<>> => saved[Len(saved)] \in Int
    BY <1>1 DEF Heights
  <2>2. saved # <<>> => saved[Len(saved)] <= n - (k - 1)
    <3> HIDE DEF n, k
    <3> QED
      BY <1>1, <1>2, <1>5, <2>1
  <2> QED
    BY Zenon, <1>3, <1>4, <2>2 DEF BeforeEvents
<1>7. CASE Accepts(handled, h)
  <2>1. handled' = Append(handled, h) /\ UNCHANGED up
    BY Zenon, <1>7 DEF NodeStateHandlesBlock
  <2>0. h = cur + 1 \/ (h = 0 /\ cur = 0)
    BY Zenon, <1>7 DEF Accepts
  <2>2. IF handled = <<>> THEN h \in {0, 1} ELSE h = handled[m] + 1
    <3>1. CASE handled = <<>>
      BY <1>3, <2>0, <3>1 DEF Heights
    <3>2. CASE handled # <<>>
      <4>1. handled[m] \in Heights /\ handled[m] <= n - k
        BY <1>1, <1>5, <3>2
      <4> HIDE DEF h, n, k, m
      <4>2. handled[m] < h
        BY <1>1, <1>2, <1>3, <4>1 DEF Heights
      <4> QED
        BY <1>3, <2>0, <3>2, <4>1, <4>2 DEF Heights
    <3> QED
      BY Zenon, <3>1, <3>2
  <2>3. CountsUp(handled')
    <3> HIDE DEF h
    <3>1. CountsUp(handled)
      BY Zenon DEF StoreInv
    <3> QED
      BY Zenon, <1>1, <1>3, <2>1, <2>2, <3>1, CountOn
  <2>4. handled' \in Seq(Heights) /\ Len(handled') = m + 1 /\ handled'[m + 1] = h
        /\ \A i \in 1..m : handled'[i] = handled[i]
    <3> HIDE DEF h
    <3> QED
      BY <1>1, <1>3, <2>1
  <2>5. BeforeEvents(handled)'
    <3>1. h <= n - (k - 1)
      <4> HIDE DEF h, n, k
      <4> QED
        BY <1>1, <1>2, <1>3
    <3> QED
      BY Zenon, <1>3, <1>4, <2>4, <3>1 DEF BeforeEvents
  <2>6. \/ lost'
        \/ /\ Len(handled') + Len(events') = n + 1
           /\ \A i \in 1..Len(handled') : handled'[i] = i - 1
    <3>1. CASE lost
      BY Zenon, <1>4, <3>1
    <3>2. CASE ~lost
      <4>1. m + k = n + 1 /\ \A i \in 1..m : handled[i] = i - 1
        BY Zenon, <3>2 DEF StoreInv
      <4>2. h = m
        <5> HIDE DEF h, n, k, m
        <5> QED
          BY <1>1, <1>2, <1>3, <4>1
      <4>3. (m + 1) + (k - 1) = n + 1
        <5> HIDE DEF h, n, k, m
        <5> QED
          BY <1>1, <1>2, <4>1
      <4>4. \A i \in 1..(m + 1) : handled'[i] = i - 1
        <5> HIDE DEF h, n, k, m
        <5> QED
          BY <1>1, <2>4, <4>1, <4>2
      <4> QED
        BY Zenon, <1>3, <1>4, <2>1, <2>4, <4>1, <4>3, <4>4
    <3> QED
      BY Zenon, <3>1, <3>2
  <2>7. NodeTypeOK'
    BY <1>3, <1>4, <2>1, <2>4 DEF NodeStateHandlesBlock, TypeOK, NodeTypeOK, StreamTypeOK, streamVars, catchupVars
  <2>8. \A b \in buffered' : b > n + 1
    BY Zenon, <1>4 DEF StoreInv
  <2>9. CountsUp(saved)' /\ blocks' = 0..n
    BY Zenon, <1>4 DEF StoreInv, CountsUp
  <2>10. k - 1 <= n + 1
    <3> HIDE DEF k, n
    <3> QED
      BY <1>1, <1>2
  <2> QED
    BY Zenon, <1>2, <1>3, <1>4, <1>6, <2>3, <2>5, <2>6, <2>7, <2>8, <2>9, <2>10 DEF StoreInv, CountsUp
<1>8. CASE ~Accepts(handled, h)
  <2>1. handled' = handled /\ up' = FALSE
    BY Zenon, <1>8 DEF NodeStateHandlesBlock
  <2>2. lost
    <3>1. SUFFICES ASSUME ~lost PROVE FALSE
      BY Zenon
    <3>2. m + k = n + 1 /\ \A i \in 1..m : handled[i] = i - 1
      BY Zenon, <3>1 DEF StoreInv
    <3>3. CASE handled = <<>>
      <4>1. h = 0
        <5> HIDE DEF h, n, k, m
        <5> QED
          BY <1>1, <1>2, <1>3, <3>2, <3>3
      <4> QED
        BY Zenon, <1>8, <3>3, <4>1 DEF Accepts
    <3>4. CASE handled # <<>>
      <4>1. handled[m] = m - 1 /\ h = m
        <5> HIDE DEF h, n, k, m
        <5> QED
          BY <1>1, <1>2, <1>3, <3>2, <3>4
      <4>2. h = handled[m] + 1
        <5> HIDE DEF h, m
        <5> QED
          BY <1>1, <4>1
      <4> QED
        BY Zenon, <1>8, <3>4, <4>2 DEF Accepts
    <3> QED
      BY Zenon, <3>3, <3>4
  <2>3. BeforeEvents(handled)'
    <3>1. handled # <<>> => handled[Len(handled)] \in Int
      BY <1>1 DEF Heights
    <3>2. handled # <<>> => handled[Len(handled)] <= n - (k - 1)
      <4> HIDE DEF n, k
      <4> QED
        BY <1>1, <1>2, <1>5, <3>1
    <3> QED
      BY Zenon, <1>3, <1>4, <2>1, <3>2 DEF BeforeEvents
  <2>4. NodeTypeOK'
    <3>1. /\ UNCHANGED <<tip, conn, request, todo, wire, reconnects, sockets, client, genesis>>
          /\ UNCHANGED <<need_catchup, catchup_task, catchup_height, peers, channel>>
          /\ UNCHANGED <<mempool, saved_mempool, restarts, joins>>
      BY Zenon DEF NodeStateHandlesBlock, streamVars, catchupVars
    <3>2. up' \in BOOLEAN
      BY Zenon, <2>1
    <3> QED
      BY <1>3, <1>4, <2>1, <3>1, <3>2 DEF TypeOK, NodeTypeOK, StreamTypeOK
  <2>5. \A b \in buffered' : b > n + 1
    BY Zenon, <1>4 DEF StoreInv
  <2>6. CountsUp(saved)' /\ CountsUp(handled)' /\ blocks' = 0..n
    BY Zenon, <1>4, <2>1 DEF StoreInv, CountsUp
  <2>7. k - 1 <= n + 1
    <3> HIDE DEF k, n
    <3> QED
      BY <1>1, <1>2
  <2> QED
    BY Zenon, <1>2, <1>3, <1>4, <1>6, <2>2, <2>3, <2>4, <2>5, <2>6, <2>7 DEF StoreInv
<1> QED
  BY Zenon, <1>7, <1>8

(* A lost connection leaves a well-typed client. *)
LEMMA DisconnectedType ==
    ASSUME client \in ClientType
    PROVE  Disconnected \in ClientType
<1>1. client.id \in Clients /\ <<>> \in Seq(Heights)
  BY DEF ClientType
<1> QED
  BY Zenon, <1>1 DEF ClientType, Disconnected

(* A restart: what NodeState starts from was handled before, the store is untouched. *)
LEMMA RestartStep ==
    ASSUME TypeOK, StoreInv, Restart
    PROVE  NodeTypeOK' /\ StoreInv'
<1> USE MaxHeightAssumption
<1> DEFINE n == Last
<1>1. n \in -1..MaxHeight /\ blocks = 0..n /\ Len(events) \in Nat
  BY DEF StoreInv, TypeOK, NodeTypeOK
<1>2. /\ handled' \in {handled, saved} /\ saved' = handled' /\ up' = TRUE
      /\ lost' = (lost \/ handled' # HeightRange(0, n))
      /\ buffered' = {} /\ events' = <<>> /\ blocks' = blocks /\ Last' = n
  BY Zenon DEF Restart, Last
<1>3. handled' \in Seq(Heights) /\ CountsUp(handled')
  BY Zenon, <1>2 DEF TypeOK, NodeTypeOK, StoreInv
<1>4. handled' # <<>> => handled'[Len(handled')] <= n
  <2>1. \A s \in {handled, saved} : s # <<>> => s[Len(s)] <= n - Len(events) /\ s[Len(s)] \in Int
    <3>1. \A s \in {handled, saved} : s # <<>> => s[Len(s)] <= n - Len(events)
      BY DEF StoreInv, BeforeEvents
    <3>2. handled \in Seq(Heights) /\ saved \in Seq(Heights)
      BY Zenon DEF TypeOK, NodeTypeOK
    <3>3. \A s \in Seq(Heights) : s # <<>> => s[Len(s)] \in Int
      BY DEF Heights
    <3> QED
      BY Zenon, <3>1, <3>2, <3>3
  <2>2. \A s \in {handled, saved} : s # <<>> => s[Len(s)] <= n
    <3> HIDE DEF n
    <3> QED
      BY <1>1, <2>1
  <2> QED
    BY Zenon, <1>2, <2>2
<1>5. BeforeEvents(handled)' /\ BeforeEvents(saved)'
  <2>1. n - 0 = n /\ Len(events') = 0
    <3> HIDE DEF n
    <3> QED
      BY <1>1, <1>2
  <2> QED
    BY Zenon, <1>2, <1>4, <2>1 DEF BeforeEvents
<1>6. \/ lost'
      \/ /\ Len(handled') + Len(events') = n + 1
         /\ \A i \in 1..Len(handled') : handled'[i] = i - 1
  <2>1. CASE handled' = HeightRange(0, n)
    <3> DEFINE b == n + 1
    <3>1. b \in Nat /\ 0 <= b /\ b - 1 = n /\ b - 0 = b
      <4> HIDE DEF n
      <4> QED
        BY <1>1
    <3> HIDE DEF b
    <3>2. Len(HeightRange(0, b - 1)) = b - 0 /\ \A i \in 1..(b - 0) : HeightRange(0, b - 1)[i] = 0 + i - 1
      BY Zenon, <3>1, RangeShape
    <3>3. Len(handled') = b /\ \A i \in 1..b : handled'[i] = i - 1
      <4>1. \A i \in 1..b : 0 + i - 1 = i - 1
        BY <3>1
      <4> QED
        BY Zenon, <2>1, <3>1, <3>2, <4>1
    <3>4. Len(handled') + Len(events') = b
      BY <1>2, <3>1, <3>3
    <3> QED
      BY Zenon, <1>2, <3>3, <3>4 DEF b
  <2>2. CASE handled' # HeightRange(0, n)
    BY Zenon, <1>2, <2>2
  <2> QED
    BY Zenon, <2>1, <2>2
<1>7. StoreInv'
  <2>1. 0 <= n + 1
    <3> HIDE DEF n
    <3> QED
      BY <1>1
  <2>2. CountsUp(handled)' /\ CountsUp(saved)'
    BY Zenon, <1>2, <1>3 DEF CountsUp
  <2> QED
    BY <1>1, <1>2, <1>5, <1>6, <2>1, <2>2 DEF StoreInv
<1>8. NodeTypeOK'
  <2>1. StreamTypeOK'
    BY DEF Restart, CloseCatchup, TypeOK, NodeTypeOK, StreamTypeOK, NoRequest
  <2>2. client' \in ClientType
    <3>1. client' = Disconnected
      BY Zenon DEF Restart
    <3> QED
      BY Zenon, <3>1, DisconnectedType DEF TypeOK, NodeTypeOK, ClientType
  <2>3. mempool' \in Mempool /\ saved_mempool' \in Mempool /\ restarts' \in 0..MaxRestarts
    <3>1. mempool \in Mempool /\ saved_mempool \in Mempool
      BY Zenon DEF TypeOK, NodeTypeOK
    <3>2. \A kept \in SUBSET mempool.building : [mempool EXCEPT !.building = kept] \in Mempool
      BY Zenon, <3>1 DEF Mempool
    <3>3. mempool' \in Mempool /\ saved_mempool' = mempool'
      BY Zenon, <3>1, <3>2 DEF Restart
    <3>4. restarts' \in 0..MaxRestarts
      BY MaxRestartsAssumption DEF Restart, TypeOK, NodeTypeOK
    <3> QED
      BY Zenon, <3>3, <3>4
  <2>4. lost' \in BOOLEAN /\ up' \in BOOLEAN
    BY Zenon, <1>2
  <2>5. /\ need_catchup' = FALSE /\ catchup_task' = "none" /\ catchup_height' = NoHeight
        /\ peers' = FALSE /\ channel' = <<>> /\ genesis' = "pending" /\ sockets' = {} /\ joins' = {}
    BY Zenon DEF Restart
  <2>6. need_catchup' \in BOOLEAN /\ peers' \in BOOLEAN
    BY Zenon, <2>5
  <2>7. blocks' \subseteq Heights
    BY Zenon, <1>2 DEF TypeOK, NodeTypeOK
  <2> HIDE DEF n
  <2>8. handled' \in Seq(Heights) /\ saved' \in Seq(Heights) /\ events' \in Seq(Heights)
        /\ buffered' \subseteq Heights
    BY <1>2, <1>3
  <2> QED
    BY <2>1, <2>2, <2>3, <2>4, <2>5, <2>6, <2>7, <2>8 DEF NodeTypeOK, ClientType
<1> QED
  BY Zenon, <1>7, <1>8

(* The steps of the catch-up and of the service touch neither the store nor NodeState. *)
LEMMA StoreUntouched ==
    ASSUME StoreInv, UNCHANGED <<blocks, buffered, events, handled, saved, lost>>
    PROVE  StoreInv'
  BY Zenon DEF StoreInv, BeforeEvents, CountsUp, Last

(* Closing the catch-up connection leaves a well-typed stream. *)
LEMMA CloseType ==
    ASSUME StreamTypeOK, CloseCatchup
    PROVE  StreamTypeOK'
  BY DEF StreamTypeOK, CloseCatchup, NoRequest

(* The events of the node's other modules. *)
LEMMA EventSteps ==
    ASSUME TypeOK, StoreInv,
           \/ HandleGenesisEvent
           \/ \E h \in 1..MaxHeight : CommitSlot(h)
           \/ \E h \in 1..MaxHeight : HandleBuiltSignedBlock(h)
           \/ HandleStreamedBlock
    PROVE  NodeTypeOK' /\ StoreInv'
<1> USE MaxHeightAssumption
<1>1. CASE HandleGenesisEvent
  <2>1. StoreTypes' /\ StoreInv'
    <3>1. CASE handle_signed_block(0)
      BY <1>1, <3>1, HandleKeeps DEF HandleGenesisEvent, Heights
    <3>2. CASE UNCHANGED storeVars
      <4>1. UNCHANGED <<blocks, buffered, events, handled, saved, lost, sockets, client>>
        BY Zenon, <1>1, <3>2 DEF HandleGenesisEvent, storeVars
      <4> QED
        BY Zenon, <4>1, StoreUntouched DEF StoreTypes, TypeOK, NodeTypeOK, ClientType
    <3> QED
      BY Zenon, <1>1, <3>1, <3>2 DEF HandleGenesisEvent
  <2>2. need_catchup' \in BOOLEAN
    BY Zenon, <1>1 DEF HandleGenesisEvent, TypeOK, NodeTypeOK
  <2>3. /\ UNCHANGED <<tip, conn, request, todo, wire, reconnects, catchup_task, catchup_height>>
        /\ UNCHANGED <<peers, channel, mempool, handled, saved, saved_mempool, up, lost, restarts, joins>>
        /\ genesis' = "done"
    BY Zenon, <1>1 DEF HandleGenesisEvent, streamVars
  <2> QED
    BY <2>1, <2>2, <2>3 DEF TypeOK, NodeTypeOK, StreamTypeOK, StoreTypes, ClientType
<1>2. CASE \E h \in 1..MaxHeight : CommitSlot(h)
  <2>1. PICK h \in 1..MaxHeight : CommitSlot(h)
    BY Zenon, <1>2
  <2>2. /\ UNCHANGED <<blocks, buffered, events, sockets, client, peers, channel, genesis>>
        /\ UNCHANGED <<handled, saved, saved_mempool, up, lost, restarts, joins>>
        /\ try_create_block_under_construction(h)
    BY Zenon, <2>1 DEF CommitSlot, storeVars
  <2>3. /\ StreamTypeOK' /\ need_catchup' \in BOOLEAN
        /\ catchup_task' \in {"none", "running", "finished"}
        /\ catchup_height' \in {catchup_height, h - 1}
    <3>1. CASE CloseCatchup /\ need_catchup' = FALSE /\ catchup_task' = "finished" /\ catchup_height' = h - 1
      BY Zenon, <3>1, CloseType DEF TypeOK, NodeTypeOK
    <3>2. CASE UNCHANGED <<need_catchup, catchup_task, streamVars>> /\ catchup_height' \in {catchup_height, h - 1}
      BY Zenon, <3>2 DEF TypeOK, NodeTypeOK, StreamTypeOK, streamVars
    <3> QED
      BY Zenon, <2>2, <3>1, <3>2 DEF try_create_block_under_construction, HandleStartedBuildingBlocks
  <2>4. StoreInv'
    BY Zenon, <2>2, StoreUntouched
  <2>5. h \in Heights /\ h - 1 \in Heights
    BY <2>1 DEF Heights
  <2>6. mempool' \in Mempool
    BY Zenon, <2>2, <2>5 DEF try_create_block_under_construction, Mempool, TypeOK, NodeTypeOK
  <2>7. catchup_height' \in Heights \cup {NoHeight}
    BY Zenon, <2>3, <2>5 DEF TypeOK, NodeTypeOK
  <2> QED
    BY Zenon, <2>2, <2>3, <2>4, <2>6, <2>7 DEF TypeOK, NodeTypeOK
<1>3. CASE \E h \in 1..MaxHeight : HandleBuiltSignedBlock(h)
  <2>1. PICK h \in 1..MaxHeight : HandleBuiltSignedBlock(h)
    BY Zenon, <1>3
  <2>2. h \in Heights
    BY DEF Heights
  <2>3. StoreTypes' /\ StoreInv'
    BY Zenon, <2>1, <2>2, HandleKeeps DEF HandleBuiltSignedBlock
  <2>4. /\ UNCHANGED <<tip, conn, request, todo, wire, reconnects, catchup_task, catchup_height>>
        /\ UNCHANGED <<peers, channel, genesis, need_catchup, handled, saved, saved_mempool, up, lost>>
        /\ UNCHANGED <<restarts, joins>>
        /\ mempool' = [mempool EXCEPT !.building = mempool.building \ {h}]
    BY Zenon, <2>1 DEF HandleBuiltSignedBlock, streamVars, catchupVars
  <2>5. mempool' \in Mempool
    BY Zenon, <2>4 DEF Mempool, TypeOK, NodeTypeOK
  <2> QED
    BY <2>3, <2>4, <2>5 DEF TypeOK, NodeTypeOK, StreamTypeOK, StoreTypes, ClientType
<1>4. CASE HandleStreamedBlock
  <2>1. Head(channel) \in Heights /\ Tail(channel) \in Seq(Heights)
    BY <1>4 DEF HandleStreamedBlock, TypeOK, NodeTypeOK
  <2>2. StoreTypes' /\ StoreInv'
    <3>1. UNCHANGED <<handled, saved, lost>>
      BY Zenon, <1>4 DEF HandleStreamedBlock, nodeVars
    <3> QED
      BY Zenon, <1>4, <2>1, <3>1, HandleKeeps DEF HandleStreamedBlock
  <2>3. StreamTypeOK' /\ need_catchup' \in BOOLEAN /\ catchup_task' \in {"none", "running", "finished"}
    <3>1. CASE CloseCatchup /\ need_catchup' = FALSE /\ catchup_task' = "none"
      BY Zenon, <3>1, CloseType DEF TypeOK, NodeTypeOK
    <3>2. CASE UNCHANGED <<need_catchup, catchup_task, streamVars>>
      BY Zenon, <3>2 DEF TypeOK, NodeTypeOK, StreamTypeOK, streamVars
    <3> QED
      BY Zenon, <1>4, <3>1, <3>2 DEF HandleStreamedBlock
  <2>4. /\ UNCHANGED <<catchup_height, peers, genesis, mempool, handled, saved, saved_mempool, up, lost, restarts, joins>>
        /\ channel' = Tail(channel)
    BY Zenon, <1>4 DEF HandleStreamedBlock, nodeVars
  <2> QED
    BY Zenon, <2>1, <2>2, <2>3, <2>4 DEF TypeOK, NodeTypeOK, StoreTypes, ClientType
<1> QED
  BY Zenon, <1>1, <1>2, <1>3, <1>4

(* The steps of the catch-up. *)
LEMMA CatchupSteps ==
    ASSUME TypeOK, StoreInv,
           \/ HandleNewPeer \/ NewPeerUnreachable \/ CheckCatchupTask
           \/ CatchupTaskReceives \/ CatchupTaskEnds \/ Peer
    PROVE  NodeTypeOK' /\ StoreInv'
<1> USE MaxHeightAssumption, MaxReconnectsAssumption
<1>1. CASE HandleNewPeer \/ CheckCatchupTask
  <2>1. ask_for_catchup_blocks
    BY Zenon, <1>1 DEF HandleNewPeer, CheckCatchupTask
  <2>2. StreamTypeOK' /\ catchup_task' = "running"
    <3> DEFINE start == Last + 1
    <3>1. start \in Nat
      BY DEF StoreInv
    <3>2. StartClient(start) /\ catchup_task' = "running"
      BY Zenon, <2>1 DEF ask_for_catchup_blocks
    <3> HIDE DEF start
    <3> QED
      BY <3>1, <3>2 DEF StartClient, TypeOK, NodeTypeOK, StreamTypeOK
  <2>3. /\ UNCHANGED <<blocks, buffered, events, sockets, client, need_catchup, catchup_height>>
        /\ UNCHANGED <<channel, genesis, mempool, handled, saved, saved_mempool, up, lost, restarts, joins>>
    BY Zenon, <1>1 DEF HandleNewPeer, CheckCatchupTask, storeVars, nodeVars
  <2>4. peers' \in BOOLEAN
    <3>1. CASE peers' = TRUE
      BY Zenon, <3>1
    <3>2. CASE peers' = peers
      BY Zenon, <3>2 DEF TypeOK, NodeTypeOK
    <3> QED
      BY Zenon, <1>1, <3>1, <3>2 DEF HandleNewPeer, CheckCatchupTask
  <2>5. StoreInv'
    BY Zenon, <2>3, StoreUntouched
  <2> QED
    BY Zenon, <2>2, <2>3, <2>4, <2>5 DEF TypeOK, NodeTypeOK
<1>2. CASE CatchupTaskReceives
  <2>1. Head(wire) \in Heights /\ Tail(wire) \in Seq(Heights)
    BY <1>2 DEF CatchupTaskReceives, RecvFrame, TypeOK, NodeTypeOK, StreamTypeOK
  <2>2. StreamTypeOK' /\ channel' \in Seq(Heights)
    BY <1>2, <2>1 DEF CatchupTaskReceives, RecvFrame, TypeOK, NodeTypeOK, StreamTypeOK
  <2>3. /\ UNCHANGED <<blocks, buffered, events, sockets, client, need_catchup, catchup_height>>
        /\ UNCHANGED <<catchup_task, peers, genesis, mempool, handled, saved, saved_mempool, up, lost, restarts, joins>>
    BY Zenon, <1>2 DEF CatchupTaskReceives, storeVars, nodeVars
  <2>4. StoreInv'
    BY Zenon, <2>3, StoreUntouched
  <2> QED
    BY <2>2, <2>3, <2>4 DEF TypeOK, NodeTypeOK
<1>3. CASE CatchupTaskEnds
  <2>1. StreamTypeOK'
    BY <1>3 DEF CatchupTaskEnds, DropPeerStream, TypeOK, NodeTypeOK, StreamTypeOK, NoRequest
  <2>2. /\ UNCHANGED <<blocks, buffered, events, sockets, client, need_catchup, catchup_height>>
        /\ UNCHANGED <<channel, peers, genesis, mempool, handled, saved, saved_mempool, up, lost, restarts, joins>>
        /\ catchup_task' = "finished"
    BY Zenon, <1>3 DEF CatchupTaskEnds, storeVars, nodeVars
  <2>3. StoreInv'
    BY Zenon, <2>2, StoreUntouched
  <2> QED
    BY Zenon, <2>1, <2>2, <2>3 DEF TypeOK, NodeTypeOK
<1>4. CASE Peer
  <2>1. StreamTypeOK'
    BY Zenon, <1>4, ServerType DEF Peer, ServerNext, TypeOK, NodeTypeOK
  <2>2. /\ UNCHANGED <<blocks, buffered, events, sockets, client, need_catchup, catchup_height>>
        /\ UNCHANGED <<catchup_task, channel, peers, genesis, mempool, handled, saved, saved_mempool>>
        /\ UNCHANGED <<up, lost, restarts, joins>>
    BY Zenon, <1>4 DEF Peer, daVars, storeVars, catchupVars, nodeVars
  <2>3. StoreInv'
    BY Zenon, <2>2, StoreUntouched
  <2> QED
    BY <2>1, <2>2, <2>3 DEF TypeOK, NodeTypeOK
<1>5. CASE NewPeerUnreachable
  <2>1. /\ UNCHANGED <<tip, conn, request, todo, wire, reconnects>>
        /\ UNCHANGED <<blocks, buffered, events, sockets, client, need_catchup, catchup_height>>
        /\ UNCHANGED <<catchup_task, channel, peers, genesis, mempool, handled, saved, saved_mempool>>
        /\ UNCHANGED <<lost, restarts, joins>> /\ up' = FALSE
    BY Zenon, <1>5 DEF NewPeerUnreachable, streamVars, storeVars, catchupVars
  <2>2. StoreInv'
    BY Zenon, <2>1, StoreUntouched
  <2>3. up' \in BOOLEAN
    BY Zenon, <2>1
  <2> QED
    BY <2>1, <2>2, <2>3 DEF TypeOK, NodeTypeOK, StreamTypeOK
<1> QED
  BY Zenon, <1>1, <1>2, <1>3, <1>4, <1>5

(* What the steps that serve the client leave alone. *)
servedVars == <<tip, conn, request, todo, wire, reconnects, blocks, buffered, events, need_catchup,
             catchup_task, catchup_height, peers, channel, genesis, mempool, handled, saved, saved_mempool, up,
             lost, restarts>>

(* They keep the invariant when they keep the types of the connections. *)
LEMMA ServeFrame ==
    ASSUME TypeOK, StoreInv, UNCHANGED servedVars,
           sockets' \subseteq Clients, client' \in ClientType, \A j \in joins' : j \in Join
    PROVE  NodeTypeOK' /\ StoreInv'
<1>1. StoreInv'
  BY Zenon, StoreUntouched DEF servedVars
<1> QED
  BY <1>1 DEF servedVars, TypeOK, NodeTypeOK, StreamTypeOK, ClientType

(* The steps that serve the client, and the client's own. *)
LEMMA ServeSteps ==
    ASSUME TypeOK, StoreInv,
           \/ SetupClient \/ ServeRequest \/ HandleMempoolStatusEvent \/ ClientLost
           \/ ClientReceives
           \/ \E start \in 0..(MaxHeight + 1) : ClientConnects(start)
    PROVE  NodeTypeOK' /\ StoreInv'
<1> USE MaxHeightAssumption
<1>0. client \in ClientType /\ sockets \subseteq Clients /\ \A j \in joins : j \in Join
  BY Zenon DEF TypeOK, NodeTypeOK, ClientType
<1>1. CASE SetupClient
  <2>1. UNCHANGED servedVars /\ UNCHANGED <<client, joins>> /\ sockets' = sockets \cup {client.id}
    BY Zenon, <1>1 DEF SetupClient, servedVars, streamVars, catchupVars, nodeVars
  <2>2. client.id \in Clients
    BY Zenon, <1>0 DEF ClientType
  <2> QED
    BY Zenon, <1>0, <2>1, <2>2, ServeFrame
<1>2. CASE ServeRequest
  <2>1. /\ UNCHANGED servedVars /\ UNCHANGED sockets
        /\ joins' = joins \cup {[peer |-> client.id, retries |-> 0,
                                 hashes |-> HeightRange(client.request, Last)]}
        /\ client' = [client EXCEPT !.request = NoRequest]
    BY Zenon, <1>2 DEF ServeRequest, servedVars, streamVars, catchupVars, nodeVars
  <2>2. client' \in ClientType
    BY Zenon, <1>0, <2>1 DEF ClientType, NoRequest
  <2>3. HeightRange(client.request, Last) \in Seq(Heights)
    <3>1. client.request \in Nat /\ Last \in -1..MaxHeight
      BY <1>0, <1>2 DEF ServeRequest, ClientType, StoreInv, NoRequest
    <3> QED
      BY Zenon, <3>1, RangeType
  <2>4. [peer |-> client.id, retries |-> 0, hashes |-> HeightRange(client.request, Last)] \in Join
    BY <1>0, <2>3, MaxRetriesAssumption DEF Join, ClientType
  <2> QED
    BY Zenon, <1>0, <2>1, <2>2, <2>4, ServeFrame
<1>3. CASE HandleMempoolStatusEvent
  <2>1. UNCHANGED servedVars /\ UNCHANGED <<client, joins>> /\ sockets' \subseteq sockets
    BY Zenon, <1>3 DEF HandleMempoolStatusEvent, servedVars, streamVars, catchupVars, nodeVars
  <2> QED
    BY Zenon, <1>0, <2>1, ServeFrame
<1>4. CASE ClientLost
  <2>1. UNCHANGED servedVars /\ UNCHANGED <<sockets, joins>> /\ client' = Disconnected
    BY Zenon, <1>4 DEF ClientLost, servedVars, streamVars, catchupVars, nodeVars
  <2> QED
    BY Zenon, <1>0, <2>1, DisconnectedType, ServeFrame
<1>5. CASE ClientReceives
  <2>1. UNCHANGED servedVars /\ UNCHANGED <<sockets, joins>>
        /\ client' = [client EXCEPT !.wire = Tail(client.wire)] /\ client.wire # <<>>
    BY Zenon, <1>5 DEF ClientReceives, servedVars, streamVars, catchupVars, nodeVars
  <2>2. Tail(client.wire) \in Seq(Heights)
    BY <1>0, <2>1 DEF ClientType
  <2>3. client' \in ClientType
    BY Zenon, <1>0, <2>1, <2>2 DEF ClientType
  <2> QED
    BY Zenon, <1>0, <2>1, <2>3, ServeFrame
<1>6. CASE \E start \in 0..(MaxHeight + 1) : ClientConnects(start)
  <2>1. PICK start \in 0..(MaxHeight + 1) : ClientConnects(start)
    BY Zenon, <1>6
  <2>2. UNCHANGED servedVars /\ UNCHANGED <<sockets, joins>> /\ client.id < MaxClients
        /\ client' = Connecting(client.id + 1, start)
    BY Zenon, <2>1 DEF ClientConnects, servedVars, streamVars, catchupVars, nodeVars
  <2>3. client.id + 1 \in Clients
    BY <1>0, <2>2, MaxClientsAssumption DEF ClientType, Clients
  <2>4. client' \in ClientType
    BY <2>1, <2>2, <2>3 DEF Connecting, ClientType
  <2> QED
    BY Zenon, <1>0, <2>2, <2>4, ServeFrame
<1> QED
  BY Zenon, <1>1, <1>2, <1>3, <1>4, <1>5, <1>6

(* Streaming the requested range to the client. *)
LEMMA SendStep ==
    ASSUME TypeOK, StoreInv, NEW j \in joins, SendCatchupBlock(j)
    PROVE  NodeTypeOK' /\ StoreInv'
<1> USE MaxRetriesAssumption
<1>0. client \in ClientType /\ sockets \subseteq Clients /\ (\A i \in joins : i \in Join) /\ j \in Join
  BY Zenon DEF TypeOK, NodeTypeOK, ClientType
<1>1. UNCHANGED servedVars
  BY Zenon DEF SendCatchupBlock, servedVars, streamVars, catchupVars, nodeVars
<1>2. CASE joins' = joins \ {j} /\ UNCHANGED <<sockets, client>>
  BY Zenon, <1>0, <1>1, <1>2, ServeFrame
<1>3. CASE /\ j.hashes # <<>>
           /\ joins' = (joins \ {j}) \cup {[peer |-> j.peer, hashes |-> Tail(j.hashes), retries |-> 0]}
           /\ client' = [client EXCEPT !.wire =
                            IF client.state = "up" /\ client.id = j.peer
                            THEN Append(@, Head(j.hashes)) ELSE @]
           /\ UNCHANGED sockets
  <2>1. Tail(j.hashes) \in Seq(Heights) /\ Head(j.hashes) \in Heights
    BY <1>0, <1>3 DEF Join
  <2>2. [peer |-> j.peer, hashes |-> Tail(j.hashes), retries |-> 0] \in Join
    BY <1>0, <2>1 DEF Join
  <2> DEFINE w == IF client.state = "up" /\ client.id = j.peer
                  THEN Append(client.wire, Head(j.hashes)) ELSE client.wire
  <2>3. w \in Seq(Heights)
    BY <1>0, <2>1 DEF ClientType
  <2>4. client' = [client EXCEPT !.wire = w]
    BY Zenon, <1>3
  <2> HIDE DEF w
  <2>5. client' \in ClientType
    BY Zenon, <1>0, <2>3, <2>4 DEF ClientType
  <2> QED
    BY Zenon, <1>0, <1>1, <1>3, <2>2, <2>5, ServeFrame
<1>4. CASE /\ j.retries < MaxRetries
           /\ joins' = (joins \ {j}) \cup {[j EXCEPT !.retries = @ + 1]}
           /\ UNCHANGED <<sockets, client>>
  <2>1. [j EXCEPT !.retries = @ + 1] \in Join
    BY <1>0, <1>4 DEF Join
  <2> QED
    BY Zenon, <1>0, <1>1, <1>4, <2>1, ServeFrame
<1>5. CASE /\ joins' = joins \ {j}
           /\ sockets' = sockets \ {j.peer}
           /\ client' \in {client, Disconnected}
  BY Zenon, <1>0, <1>1, <1>5, DisconnectedType, ServeFrame
<1> QED
  BY Zenon, <1>2, <1>3, <1>4, <1>5 DEF SendCatchupBlock

(* Every step of the node and its peer. *)
LEMMA NodeStep ==
    ASSUME TypeOK, StoreInv, NodeNext
    PROVE  NodeTypeOK' /\ StoreInv'
  BY Zenon, EventSteps, NodeStateStep, CatchupSteps, ServeSteps, SendStep, RestartStep DEF NodeNext

---------------------------------------------------------------------------
(* The listener. *)

(* Publishing a run of blocks that follows what was published keeps it consecutive. *)
LEMMA FollowOn ==
    ASSUME NEW s \in Seq(Heights), NEW height \in Heights, Follows(height, s),
           NEW h \in Heights, NEW last \in h..MaxHeight,
           h = height + 1 \/ (h = 0 /\ height = 0)
    PROVE  LET t == s \o HeightRange(h, last)
           IN  t \in Seq(Heights) /\ Follows(last, t)
<1> USE MaxHeightAssumption
<1> DEFINE r == HeightRange(h, last)
           b == last + 1
           t == s \o r
           k == Len(s)
           m == last - h + 1
<1>1. h \in Nat /\ b \in Nat /\ h <= b /\ b - 1 = last /\ b - h = m /\ m \in Nat /\ m >= 1 /\ last \in Int
  BY DEF Heights
<1>2. r \in Seq(Heights)
  BY RangeType DEF Heights
<1>3. Len(r) = m /\ \A i \in 1..m : r[i] = h + i - 1
  <2> HIDE DEF b, m
  <2>1. Len(HeightRange(h, b - 1)) = b - h /\ \A i \in 1..(b - h) : HeightRange(h, b - 1)[i] = h + i - 1
    BY Zenon, <1>1, RangeShape
  <2> QED
    BY Zenon, <1>1, <2>1
<1> HIDE DEF r, b
<1>4. /\ t \in Seq(Heights) /\ Len(t) = k + m /\ k \in Nat
      /\ \A i \in 1..k : t[i] = s[i]
      /\ \A i \in (k + 1)..(k + m) : t[i] = r[i - k]
  <2>1. /\ t \in Seq(Heights) /\ Len(t) = k + Len(r) /\ k \in Nat
        /\ \A i \in 1..(k + Len(r)) : t[i] = IF i <= k THEN s[i] ELSE r[i - k]
    BY <1>2, ConcatProperties
  <2> HIDE DEF t, k, m
  <2> QED
    BY <1>1, <1>3, <2>1
<1>5. /\ height = IF s = <<>> THEN 0 ELSE s[k]
      /\ \A i \in 1..(k - 1) : s[i + 1] = s[i] + 1 \/ (s[i + 1] = 0 /\ s[i] = 0)
      /\ (s = <<>> <=> k = 0)
  BY DEF Follows
<1> HIDE DEF t, k
<1>6. \A i \in (k + 1)..(k + m) : t[i] = h + (i - k) - 1
  <2> TAKE i \in (k + 1)..(k + m)
  <2>1. i - k \in 1..m
    <3> HIDE DEF m
    <3> QED
      BY <1>1, <1>4
  <2> QED
    BY Zenon, <1>3, <1>4, <2>1
<1>7. t[k + m] = last
  <2>1. t[k + m] = h + ((k + m) - k) - 1
    <3> HIDE DEF m
    <3> QED
      BY <1>1, <1>4, <1>6
  <2> QED
    BY <1>1, <1>4, <2>1
<1>8. \A i \in 1..(k + m - 1) : t[i + 1] = t[i] + 1 \/ (t[i + 1] = 0 /\ t[i] = 0)
  <2> HIDE DEF m
  <2> TAKE i \in 1..(k + m - 1)
  <2>1. CASE i < k
    BY <1>1, <1>4, <1>5, <2>1
  <2>2. CASE i = k
    <3>1. t[i] = height /\ t[i + 1] = h
      BY <1>1, <1>4, <1>5, <1>6, <2>2
    <3> QED
      BY Zenon, <3>1
  <2>3. CASE i > k
    <3>1. t[i] = h + (i - k) - 1 /\ t[i + 1] = h + (i + 1 - k) - 1
      BY <1>1, <1>4, <1>6, <2>3
    <3> QED
      BY <1>1, <1>4, <3>1
  <2> QED
    BY <1>4, <2>1, <2>2, <2>3
<1>9. Len(t) >= 1 /\ t # <<>> /\ t[Len(t)] = last
  <2>1. Len(t) >= 1
    <3> HIDE DEF m
    <3> QED
      BY <1>1, <1>4
  <2> QED
    BY <1>4, <1>7, <2>1
<1>10. Follows(last, t)
  BY <1>4, <1>8, <1>9 DEF Follows
<1> QED
  BY Zenon, <1>4, <1>10 DEF t, r

(* The run of buffered blocks behind block h ends within the chain. *)
LEMMA BufferedRun ==
    ASSUME NEW h \in Heights, block_buffer \subseteq Heights
    PROVE  process_buffered_blocks(h) \in h..MaxHeight
<1>1. \E last \in h..MaxHeight : (h + 1)..last \subseteq block_buffer /\ last + 1 \notin block_buffer
  BY Zenon, FirstGap
<1>2. h \in h..MaxHeight
  BY MaxHeightAssumption DEF Heights
<1> QED
  BY Zenon, <1>1, <1>2 DEF process_buffered_blocks

(* Processing a received block keeps what is published consecutive. *)
LEMMA ProcessStep ==
    ASSUME TypeOK, ListenerInv, NEW h \in Heights, process_block(h)
    PROVE  /\ current_height' \in Heights /\ block_buffer' \subseteq Heights
           /\ published' \in Seq(Heights) /\ Follows(current_height', published')
<1> USE MaxHeightAssumption
<1>1. /\ current_height \in Heights /\ block_buffer \subseteq Heights /\ published \in Seq(Heights)
      /\ Follows(current_height, published)
  BY Zenon DEF TypeOK, ListenerInv
<1>2. ASSUME NEW last \in h..MaxHeight, Publish(h, last), h = current_height + 1 \/ (h = 0 /\ current_height = 0)
      PROVE  /\ current_height' \in Heights /\ block_buffer' \subseteq Heights
             /\ published' \in Seq(Heights) /\ Follows(current_height', published')
  <2>1. /\ published' = published \o HeightRange(h, last) /\ current_height' = last
        /\ block_buffer' = block_buffer \ ((h + 1)..last)
    BY Zenon, <1>2 DEF Publish
  <2>2. last \in Heights
    BY DEF Heights
  <2> QED
    BY Zenon, <1>1, <1>2, <2>1, <2>2, FollowOn
<1>3. CASE h = 0 /\ current_height = 0 /\ Publish(0, 0)
  <2>1. 0 \in h..MaxHeight
    BY <1>3
  <2> QED
    BY Zenon, <1>2, <1>3, <2>1
<1>4. CASE h = current_height + 1 /\ Publish(h, process_buffered_blocks(h))
  BY Zenon, <1>1, <1>2, <1>4, BufferedRun
<1>5. CASE block_buffer' = block_buffer \cup {h} /\ UNCHANGED <<current_height, published>>
  BY Zenon, <1>1, <1>5
<1>6. CASE UNCHANGED <<current_height, block_buffer, published>>
  BY Zenon, <1>1, <1>6
<1> QED
  BY Zenon, <1>3, <1>4, <1>5, <1>6 DEF process_block

(* The invariant holds when the node and the listener start. *)
LEMMA InitDAInv == Init => DAInv
<1> SUFFICES ASSUME Init PROVE DAInv
  BY Zenon
<1> USE MaxHeightAssumption, MaxReconnectsAssumption, MaxClientsAssumption, MaxRestartsAssumption
<1>1. NodeTypeOK
  <2>1. StreamTypeOK
    <3>1. tip \in {-1, MaxHeight} /\ reconnects \in {0, MaxReconnects}
      BY Zenon DEF Init, NodeInit
    <3> QED
      BY <3>1 DEF Init, NodeInit, StreamTypeOK, NoRequest
  <2>2. client \in ClientType
    <3>1. <<>> \in Seq(Heights) /\ 0 \in Clients /\ MaxClients \in Clients /\ 0 \in 0..(MaxHeight + 1)
      BY DEF Clients
    <3>2. CASE client = NoClient
      BY Zenon, <3>1, <3>2 DEF NoClient, ClientType
    <3>3. CASE client = Connecting(0, 0)
      BY Zenon, <3>1, <3>3 DEF Connecting, ClientType
    <3> QED
      BY Zenon, <3>2, <3>3 DEF Init, NodeInit
  <2>3. need_catchup \in BOOLEAN /\ peers \in BOOLEAN /\ up \in BOOLEAN /\ lost \in BOOLEAN
    BY Zenon DEF Init, NodeInit
  <2>4. mempool \in Mempool /\ saved_mempool \in Mempool
    BY DEF Init, NodeInit, NoCommit, Mempool, Heights
  <2> QED
    BY <2>1, <2>2, <2>3, <2>4 DEF Init, NodeInit, NodeTypeOK, ClientType
<1>2. TypeOK
  <2>1. <<>> \in Seq(Heights) /\ 0 \in Heights
    BY DEF Heights
  <2> QED
    BY Zenon, <1>1, <2>1 DEF Init, TypeOK
<1>3. Last = -1 /\ blocks = 0..(-1)
  <2>1. blocks = 0..(-1)
    BY DEF Init, NodeInit
  <2> QED
    BY <2>1, LastOfRange DEF Last
<1>4. StoreInv
  BY <1>3 DEF Init, NodeInit, StoreInv, CountsUp, BeforeEvents
<1>5. ListenerInv
  BY DEF Init, ListenerInv, Follows
<1> QED
  BY Zenon, <1>2, <1>4, <1>5 DEF DAInv

(* Every step of the node, its peer and the listener keeps it. *)
LEMMA NextDAInv == DAInv /\ [Next]_vars => DAInv'
<1> SUFFICES ASSUME DAInv, [Next]_vars PROVE DAInv'
  BY Zenon
<1> USE MaxHeightAssumption
<1>0. TypeOK /\ StoreInv /\ ListenerInv
  BY Zenon DEF DAInv
<1>1. CASE Node
  <2>1. NodeTypeOK' /\ StoreInv'
    BY Zenon, <1>0, <1>1, NodeStep DEF Node
  <2>2. UNCHANGED <<current_height, block_buffer, published, persisted>>
    BY Zenon, <1>1 DEF Node, listenerVars
  <2> QED
    BY Zenon, <1>0, <2>1, <2>2 DEF DAInv, TypeOK, ListenerInv
<1>2. CASE ProcessingNextFrame
  <2>1. NodeTypeOK' /\ StoreInv'
    BY Zenon, <1>0, <1>2, ServeSteps DEF ProcessingNextFrame
  <2>2. Head(client.wire) \in Heights
    BY <1>0, <1>2 DEF ProcessingNextFrame, ClientReceives, TypeOK, NodeTypeOK
  <2>3. /\ current_height' \in Heights /\ block_buffer' \subseteq Heights
        /\ published' \in Seq(Heights) /\ Follows(current_height', published')
    BY Zenon, <1>0, <1>2, <2>2, ProcessStep DEF ProcessingNextFrame
  <2>4. UNCHANGED persisted
    BY Zenon, <1>2 DEF ProcessingNextFrame
  <2> QED
    BY Zenon, <1>0, <2>1, <2>3, <2>4 DEF DAInv, TypeOK, ListenerInv
<1>3. CASE RestartClient
  <2>1. current_height + 1 \in 0..(MaxHeight + 1)
    BY <1>0 DEF TypeOK, Heights
  <2>2. NodeTypeOK' /\ StoreInv'
    BY Zenon, <1>0, <1>3, <2>1, ServeSteps DEF RestartClient
  <2>3. UNCHANGED <<current_height, block_buffer, published, persisted>>
    BY Zenon, <1>3 DEF RestartClient, listenerVars
  <2> QED
    BY Zenon, <1>0, <2>2, <2>3 DEF DAInv, TypeOK, ListenerInv
<1>4. CASE RestartListener
  <2>1. PICK state \in {[current_height |-> current_height, published |-> published], persisted} :
            /\ ClientConnects(start_block(state.current_height))
            /\ current_height' = state.current_height
            /\ published' = state.published
            /\ block_buffer' = {}
            /\ persisted' = state
    BY Zenon, <1>4 DEF RestartListener
  <2>2. /\ state \in [current_height : Heights, published : Seq(Heights)]
        /\ Follows(state.current_height, state.published)
    BY <1>0 DEF TypeOK, ListenerInv
  <2>3. start_block(state.current_height) \in 0..(MaxHeight + 1)
    BY <2>2 DEF start_block, Heights
  <2>4. NodeTypeOK' /\ StoreInv'
    BY Zenon, <1>0, <2>1, <2>3, ServeSteps
  <2> QED
    BY Zenon, <2>1, <2>2, <2>4 DEF DAInv, TypeOK, ListenerInv
<1>5. CASE UNCHANGED vars
  <2>1. UNCHANGED <<blocks, buffered, events, handled, saved, lost>>
    BY Zenon, <1>5 DEF vars, nodeAndStreamVars, daVars, storeVars, nodeVars
  <2>2. StoreInv'
    BY Zenon, <1>0, <2>1, StoreUntouched
  <2>3. /\ UNCHANGED servedVars /\ UNCHANGED <<sockets, client, joins>>
        /\ UNCHANGED <<current_height, block_buffer, published, persisted>>
    BY Zenon, <1>5 DEF vars, nodeAndStreamVars, daVars, storeVars, nodeVars, catchupVars, streamVars,
                listenerVars, servedVars
  <2>4. NodeTypeOK'
    BY Zenon, <1>0, <2>3, ServeFrame DEF TypeOK, NodeTypeOK, ClientType
  <2> QED
    BY Zenon, <1>0, <2>2, <2>3, <2>4 DEF DAInv, TypeOK, ListenerInv
<1> QED
  BY Zenon, <1>1, <1>2, <1>3, <1>4, <1>5 DEF Next

---------------------------------------------------------------------------
(* What the invariant says of the checked properties. *)
LEMMA InvImplies ==
    ASSUME DAInv
    PROVE  BufferAheadOfStore /\ NodeStateFollowsStore /\ NodeStateNeverSkips /\ ListenerNeverSkips
<1> USE MaxHeightAssumption
<1>0. TypeOK /\ StoreInv /\ ListenerInv /\ handled \in Seq(Heights) /\ events \in Seq(Heights)
  BY Zenon DEF DAInv, TypeOK, NodeTypeOK
<1>1. BufferAheadOfStore
  BY Zenon, <1>0 DEF StoreInv, BufferAheadOfStore
<1>2. NodeStateNeverSkips
  <2>1. PICK first \in {0, 1} : \A i \in 1..Len(handled) : handled[i] = first + i - 1
    BY Zenon, <1>0 DEF StoreInv, CountsUp
  <2>2. handled = HeightRange(first, first + Len(handled) - 1)
    BY Zenon, <1>0, <2>1, CountsAreRanges
  <2> QED
    BY Zenon, <2>2 DEF NodeStateNeverSkips
<1>3. NodeStateFollowsStore
  <2>1. CASE lost
    BY Zenon, <2>1 DEF NodeStateFollowsStore
  <2>2. CASE ~lost
    <3> DEFINE n == Last
               m == Len(handled)
               k == Len(events)
               t == handled \o events
    <3>1. m + k = n + 1 /\ \A i \in 1..m : handled[i] = i - 1
      BY Zenon, <1>0, <2>2 DEF StoreInv
    <3>2. n \in -1..MaxHeight /\ \A i \in 1..k : events[i] = n - k + i
      BY Zenon, <1>0 DEF StoreInv
    <3>3. t \in Seq(Heights) /\ Len(t) = m + k /\ m \in Nat /\ k \in Nat
          /\ \A i \in 1..(m + k) : t[i] = IF i <= m THEN handled[i] ELSE events[i - m]
      BY <1>0, ConcatProperties
    <3> HIDE DEF n, m, k, t
    <3>4. \A i \in 1..(m + k) : t[i] = 0 + i - 1
      <4> TAKE i \in 1..(m + k)
      <4>1. CASE i <= m
        BY <3>1, <3>3, <4>1
      <4>2. CASE i > m
        <5>1. i - m \in 1..k /\ t[i] = events[i - m]
          BY <3>3, <4>2
        <5>2. events[i - m] = n - k + (i - m)
          BY Zenon, <3>2, <5>1
        <5> QED
          BY <3>1, <3>2, <3>3, <5>1, <5>2
      <4> QED
        BY <3>3, <4>1, <4>2
    <3>5. t = HeightRange(0, 0 + Len(t) - 1)
      <4>1. \A i \in 1..Len(t) : t[i] = 0 + i - 1
        BY Zenon, <3>3, <3>4
      <4> QED
        BY Zenon, <3>3, <4>1, CountsAreRanges
    <3>6. 0 + Len(t) - 1 = n
      BY <3>1, <3>2, <3>3
    <3> QED
      BY Zenon, <3>1, <3>5, <3>6 DEF NodeStateFollowsStore, t, n
  <2> QED
    BY Zenon, <2>1, <2>2
<1>4. ListenerNeverSkips
  BY Zenon, <1>0 DEF ListenerInv, Follows, ListenerNeverSkips
<1> QED
  BY Zenon, <1>1, <1>2, <1>3, <1>4

(* The store of data_availability.rs holds the chain without a hole and its buffer only  *)
(* blocks ahead of it (handle_signed_block, pop_buffer); NodeState is handed exactly the *)
(* stored chain until a stop loses blocks, and handles no block out of order even then;  *)
(* and a DAListener publishes consecutive blocks (da_listener.rs, process_block).  For   *)
(* every chain length and every number of connections, retries and restarts.             *)
THEOREM StoreAndFollowersSafe ==
    Spec => [](/\ TypeOK /\ BufferAheadOfStore
               /\ NodeStateFollowsStore /\ FollowersNeverSkip)
<1>1. DAInv => /\ TypeOK /\ BufferAheadOfStore
               /\ NodeStateFollowsStore /\ FollowersNeverSkip
  BY Zenon, InvImplies DEF DAInv, FollowersNeverSkip
<1> QED
  BY InitDAInv, NextDAInv, <1>1, PTL DEF Spec

(* So neither the node's own NodeState nor that of a listener, whatever connections drop and  *)
(* processes restart, handles a block without the one before it.                              *)
THEOREM NobodySkipsABlock == Spec => []FollowersNeverSkip
BY StoreAndFollowersSafe, PTL

---------------------------------------------------------------------------
(* The end of the catch-up. *)

(* The blocks that are stored, wait for their parent or are still to be built. *)
Known == blocks \cup buffered \cup mempool.building

(* Every block committed since the announcement is known. *)
BuildInv ==
    catchup_height # NoHeight => (catchup_height + 1)..mempool.last_ccp \subseteq Known

(* Handling a block loses none. *)
LEMMA StoreGrows ==
    ASSUME TypeOK, StoreInv, NEW h \in Heights, handle_signed_block(h)
    PROVE  blocks \cup buffered \cup {h} \subseteq blocks' \cup buffered'
<1> USE MaxHeightAssumption
<1>1. CASE h \in blocks /\ UNCHANGED storeVars
  BY Zenon, <1>1 DEF storeVars
<1>2. CASE buffered' = buffered \cup {h} /\ UNCHANGED blocks
  BY Zenon, <1>2
<1>3. CASE /\ h \notin blocks /\ ParentKnown(h)
           /\ blocks' = blocks \cup (h..pop_buffer(h))
           /\ buffered' = buffered \ ((h + 1)..pop_buffer(h))
  <2> DEFINE last == pop_buffer(h)
  <2>1. last \in h..MaxHeight
    BY Zenon, <1>3, StoreNext
  <2>2. blocks' = blocks \cup (h..last) /\ buffered' = buffered \ ((h + 1)..last)
    BY Zenon, <1>3
  <2> HIDE DEF last
  <2>3. h \in h..last /\ (h + 1)..last \subseteq h..last
    BY <2>1 DEF Heights
  <2> QED
    BY Zenon, <2>2, <2>3
<1> QED
  BY Zenon, <1>1, <1>2, <1>3 DEF handle_signed_block

(* A step without a commit or an announcement keeps what is known. *)
LEMMA KnownStays ==
    ASSUME BuildInv, Known \subseteq Known', mempool'.last_ccp = mempool.last_ccp,
           catchup_height' = catchup_height
    PROVE  BuildInv' /\ (NoHole => NoHole')
  BY Zenon DEF BuildInv, NoHole, Known

(* The announcement only ends the catch-up when the first block to build is stored. *)
LEMMA AnnouncedLate ==
    ASSUME StoreInv, NEW h \in 1..MaxHeight, LastHeight(blocks \cup {0}) >= h
    PROVE  0..h \subseteq blocks
<1> USE MaxHeightAssumption
<1> DEFINE n == Last
<1>1. n \in -1..MaxHeight /\ blocks = 0..n
  BY Zenon DEF StoreInv
<1> HIDE DEF n
<1> DEFINE m == IF n = -1 THEN 0 ELSE n
<1>2. m \in -1..MaxHeight /\ blocks \cup {0} = 0..m
  BY <1>1
<1> HIDE DEF m
<1>3. LastHeight(blocks \cup {0}) = m
  BY Zenon, <1>2, LastOfRange
<1>4. m >= h
  BY Zenon, <1>3
<1>5. n >= h
  BY <1>1, <1>4 DEF m
<1> QED
  BY <1>1, <1>5

(* A commit: the block follows those that are known, or the node is still catching up. *)
LEMMA CommitStep ==
    ASSUME TypeOK, StoreInv, BuildInv, NEW h \in 1..MaxHeight, CommitSlot(h)
    PROVE  BuildInv' /\ (~need_catchup' /\ (need_catchup \/ NoHole) => NoHole')
<1> USE MaxHeightAssumption
<1>1. UNCHANGED <<blocks, buffered>> /\ try_create_block_under_construction(h)
  BY Zenon DEF CommitSlot, storeVars
<1> DEFINE k == mempool.last_ccp
<1>2. k \in Nat /\ mempool'.last_ccp = h
  BY <1>1 DEF try_create_block_under_construction, TypeOK, NodeTypeOK, Mempool, Heights
<1>3. CASE h = k + 1
  <2>1. Known' = Known \cup {h}
    BY Zenon, <1>1, <1>3 DEF try_create_block_under_construction, Known
  <2>2. NoHole => NoHole'
    <3>1. 0..h = (0..k) \cup {h}
      <4> HIDE DEF k
      <4> QED
        BY <1>2, <1>3
    <3> QED
      BY Zenon, <1>2, <2>1, <3>1 DEF NoHole, Known
  <2>3. CASE catchup_height = NoHeight
    <3>1. HandleStartedBuildingBlocks(h)
      BY Zenon, <1>1, <1>3, <2>3 DEF try_create_block_under_construction
    <3>2. BuildInv'
      <4>1. catchup_height' = h - 1
        BY Zenon, <3>1 DEF HandleStartedBuildingBlocks
      <4>2. (catchup_height' + 1)..h = {h}
        BY <4>1
      <4> QED
        BY Zenon, <1>2, <2>1, <4>2 DEF BuildInv
    <3>3. need_catchup /\ ~need_catchup' => NoHole'
      <4> SUFFICES ASSUME need_catchup, ~need_catchup' PROVE NoHole'
        BY Zenon
      <4>1. LastHeight(blocks \cup {0}) >= h
        BY Zenon, <3>1 DEF HandleStartedBuildingBlocks
      <4>2. 0..h \subseteq blocks
        BY Zenon, <4>1, AnnouncedLate
      <4> QED
        BY Zenon, <1>1, <1>2, <4>2 DEF NoHole
    <3> QED
      BY Zenon, <2>2, <3>2, <3>3
  <2>4. CASE catchup_height # NoHeight
    <3>1. UNCHANGED <<catchup_height, need_catchup>>
      BY Zenon, <1>1, <2>4 DEF try_create_block_under_construction
    <3>2. BuildInv'
      <4> DEFINE c == catchup_height
      <4>1. c \in Nat /\ (c + 1)..k \subseteq Known
        BY <2>4 DEF BuildInv, TypeOK, NodeTypeOK, Heights
      <4>2. (c + 1)..h \subseteq ((c + 1)..k) \cup {h}
        <5> HIDE DEF c, k
        <5> QED
          BY <1>2, <1>3, <4>1
      <4>3. (c + 1)..h \subseteq Known'
        BY Zenon, <2>1, <4>1, <4>2
      <4> QED
        BY Zenon, <1>2, <3>1, <4>3 DEF BuildInv
    <3> QED
      BY Zenon, <2>2, <3>1, <3>2
  <2> QED
    BY Zenon, <2>3, <2>4
<1>4. CASE h # k + 1
  <2>1. need_catchup /\ catchup_height = NoHeight
    BY Zenon, <1>4 DEF CommitSlot
  <2>2. UNCHANGED <<catchup_height, need_catchup>>
    BY Zenon, <1>1, <1>4 DEF try_create_block_under_construction
  <2> QED
    BY Zenon, <2>1, <2>2 DEF BuildInv
<1> QED
  BY Zenon, <1>3, <1>4

(* A streamed block that ends the catch-up completes the store up to the announced block. *)
LEMMA StreamedStep ==
    ASSUME TypeOK, StoreInv, BuildInv, HandleStreamedBlock
    PROVE  BuildInv' /\ (~need_catchup' /\ (need_catchup \/ NoHole) => NoHole')
<1> USE MaxHeightAssumption
<1> DEFINE h == Head(channel)
<1>1. handle_signed_block(h) /\ UNCHANGED <<catchup_height, mempool>> /\ h \in Heights
  BY DEF HandleStreamedBlock, nodeVars, TypeOK, NodeTypeOK
<1>2. BuildInv' /\ (NoHole => NoHole')
  <2>1. Known \subseteq Known'
    BY Zenon, <1>1, StoreGrows DEF Known
  <2> QED
    BY Zenon, <1>1, <2>1, KnownStays
<1>3. ASSUME need_catchup, ~need_catchup' PROVE NoHole'
  <2>1. CatchupReached(h)
    BY Zenon, <1>3 DEF HandleStreamedBlock
  <2> HIDE DEF h
  <2>2. catchup_height # NoHeight /\ h \notin blocks /\ ParentKnown(h) /\ catchup_height <= pop_buffer(h)
    BY Zenon, <2>1 DEF CatchupReached
  <2>3. blocks' = blocks \cup (h..pop_buffer(h)) /\ buffered' = buffered \ ((h + 1)..pop_buffer(h))
    BY Zenon, <1>1, <2>2 DEF handle_signed_block
  <2> DEFINE last == pop_buffer(h)
             c == catchup_height
             k == mempool.last_ccp
  <2>4. last \in h..MaxHeight /\ blocks' = 0..last
    BY Zenon, <1>1, <2>2, <2>3, StoreNext
  <2>5. c \in Nat /\ k \in Nat /\ c <= last
    BY <2>2 DEF TypeOK, NodeTypeOK, Mempool, Heights
  <2>6. (c + 1)..k \subseteq Known'
    BY Zenon, <1>1, <1>2, <2>2 DEF BuildInv
  <2>7. 0..k \subseteq (0..last) \cup ((c + 1)..k)
    <3> HIDE DEF last, c, k
    <3>1. last \in Int
      BY <1>1, <2>4 DEF Heights
    <3> QED
      BY <2>5, <3>1
  <2> HIDE DEF last, c
  <2>8. 0..k \subseteq Known'
    BY Zenon, <2>4, <2>6, <2>7 DEF Known
  <2> QED
    BY Zenon, <1>1, <2>8 DEF NoHole, Known
<1> QED
  BY Zenon, <1>2, <1>3

(* Every step: what was committed since the announcement stays known, and the catch-up    *)
(* only ends when all of it is.                                                           *)
LEMMA CatchupStep ==
    ASSUME DAInv, BuildInv, [Next]_vars
    PROVE  /\ BuildInv'
           /\ ~need_catchup' /\ restarts' = restarts /\ (need_catchup \/ NoHole) => NoHole'
<1> USE MaxHeightAssumption
<1>0. TypeOK /\ StoreInv
  BY Zenon DEF DAInv
<1>1. CASE \E h \in 1..MaxHeight : CommitSlot(h)
  BY Zenon, <1>0, <1>1, CommitStep
<1>2. CASE HandleStreamedBlock
  BY Zenon, <1>0, <1>2, StreamedStep
<1>3. CASE \E h \in 1..MaxHeight : HandleBuiltSignedBlock(h)
  <2>1. PICK h \in 1..MaxHeight : HandleBuiltSignedBlock(h)
    BY Zenon, <1>3
  <2>2. /\ h \in Heights /\ handle_signed_block(h) /\ UNCHANGED <<catchup_height, need_catchup>>
        /\ mempool' = [mempool EXCEPT !.building = mempool.building \ {h}]
    BY <2>1 DEF HandleBuiltSignedBlock, catchupVars, Heights
  <2>3. mempool'.last_ccp = mempool.last_ccp /\ mempool'.building = mempool.building \ {h}
    BY Zenon, <1>0, <2>2 DEF TypeOK, NodeTypeOK, Mempool
  <2>4. Known \subseteq Known'
    BY Zenon, <1>0, <2>2, <2>3, StoreGrows DEF Known
  <2> QED
    BY Zenon, <2>2, <2>3, <2>4, KnownStays
<1>4. CASE HandleGenesisEvent
  <2>1. UNCHANGED <<catchup_height, mempool>> /\ (need_catchup' = need_catchup \/ need_catchup')
    BY Zenon, <1>4 DEF HandleGenesisEvent
  <2>2. 0 \in Heights
    BY DEF Heights
  <2>3. blocks \cup buffered \subseteq blocks' \cup buffered'
    <3>1. CASE handle_signed_block(0)
      BY Zenon, <1>0, <2>2, <3>1, StoreGrows
    <3>2. CASE UNCHANGED storeVars
      BY Zenon, <3>2 DEF storeVars
    <3> QED
      BY Zenon, <1>4, <3>1, <3>2 DEF HandleGenesisEvent
  <2>4. Known \subseteq Known'
    BY Zenon, <2>1, <2>3 DEF Known
  <2>5. mempool'.last_ccp = mempool.last_ccp
    BY Zenon, <2>1
  <2>6. ~need_catchup' => ~need_catchup
    BY <2>1
  <2>7. BuildInv' /\ (NoHole => NoHole')
    BY Zenon, <2>1, <2>4, <2>5, KnownStays
  <2> QED
    BY Zenon, <2>6, <2>7
<1>5. CASE Restart
  <2>1. restarts' = restarts + 1 /\ restarts \in Int /\ catchup_height' = NoHeight
    BY <1>0, <1>5, MaxRestartsAssumption DEF Restart, TypeOK, NodeTypeOK
  <2>2. restarts' # restarts
    BY <2>1
  <2> QED
    BY Zenon, <2>1, <2>2 DEF BuildInv
<1>6. ASSUME UNCHANGED <<blocks, buffered, mempool, catchup_height, need_catchup>>
      PROVE  BuildInv' /\ (~need_catchup' /\ (need_catchup \/ NoHole) => NoHole')
  BY Zenon, <1>6 DEF BuildInv, NoHole, Known
<1>7. CASE \/ NodeStateHandlesBlock \/ SetupClient \/ ServeRequest
           \/ HandleMempoolStatusEvent \/ ClientLost \/ ClientReceives
           \/ (\E start : ClientConnects(start)) \/ (\E j \in joins : SendCatchupBlock(j))
  <2>1. UNCHANGED <<blocks, buffered, mempool, catchup_height, need_catchup>>
    BY Zenon, <1>7 DEF NodeStateHandlesBlock, SetupClient, ServeRequest,
              HandleMempoolStatusEvent, ClientLost, ClientReceives, ClientConnects,
              SendCatchupBlock, catchupVars, nodeVars
  <2> QED
    BY Zenon, <1>6, <2>1
<1>8. CASE \/ HandleNewPeer \/ NewPeerUnreachable \/ CheckCatchupTask \/ CatchupTaskReceives
           \/ CatchupTaskEnds \/ Peer \/ UNCHANGED vars
  <2>1. UNCHANGED <<blocks, buffered, mempool, catchup_height, need_catchup>>
    BY Zenon, <1>8 DEF HandleNewPeer, NewPeerUnreachable, CheckCatchupTask, CatchupTaskReceives,
              CatchupTaskEnds, Peer, daVars, storeVars, catchupVars, nodeVars, vars, nodeAndStreamVars
  <2> QED
    BY Zenon, <1>6, <2>1
<1>9. \/ NodeNext \/ ClientReceives \/ (\E start : ClientConnects(start)) \/ UNCHANGED vars
  BY Zenon DEF Next, Node, ProcessingNextFrame, RestartClient, RestartListener
<1> QED
  BY Zenon, <1>1, <1>2, <1>3, <1>4, <1>5, <1>7, <1>8, <1>9 DEF NodeNext

(* When the catch-up is switched off, every committed block is stored, buffered or being  *)
(* built by the mempool, and stays so until the next restart, after which the mempool     *)
(* announces its first block anew (data_availability.rs, handle_mempool_event and the     *)
(* catch-up receiver; block_construction.rs, set_ccp_build_start_height).                 *)
THEOREM CatchupIsComplete == Spec => CatchupLeavesNoHole
<1>1. Init => BuildInv
  BY Zenon DEF Init, NodeInit, BuildInv
<1>2. DAInv /\ BuildInv /\ [Next]_vars => BuildInv'
  BY Zenon, CatchupStep
<1>3. DAInv /\ BuildInv /\ [Next]_vars
        => [~need_catchup' /\ restarts' = restarts /\ (need_catchup \/ NoHole)
               => NoHole']_nodeAndStreamVars
  BY Zenon, CatchupStep
<1> QED
  BY InitDAInv, NextDAInv, <1>1, <1>2, <1>3, PTL DEF Spec, CatchupLeavesNoHole

---------------------------------------------------------------------------
(* The node implements the block-streaming service its clients are checked against: every  *)
(* step of DAListener is a step of BlockStream, or none, under the mapping of Served.       *)

(* Connections are numbered, only the last one is alive, and the range streamed to it    *)
(* was put there by its one request, after the connection was registered.                *)
ConnInv(c, registered, streams) ==
    /\ \A id \in registered : id <= c.id
    /\ \A j \in streams : j.peer <= c.id
    /\ \A i, j \in streams : i.peer = c.id /\ j.peer = c.id => i = j
    /\ c.request # NoRequest => c.state = "up" /\ \A j \in streams : j.peer # c.id
    /\ c.state = "up" => \A j \in streams : j.peer = c.id => c.id \in registered
    /\ c.state = "down" => c.wire = <<>> /\ c.request = NoRequest

ServeInv == ConnInv(client, sockets, joins)

---------------------------------------------------------------------------
(* The mapping. *)

(* What a BlockStream knows of a connection. *)
LEMMA ConnValues ==
    ASSUME NEW c \in ClientType, NEW registered
    PROVE  /\ c.state = "down" => ConnOf(c, registered) = "down"
           /\ c.state = "up" /\ c.id \in registered => ConnOf(c, registered) = "registered"
           /\ c.state = "up" /\ c.id \notin registered => ConnOf(c, registered) = "connecting"
  BY Zenon DEF ConnOf, ClientType

(* The range still to stream is that of the connection's only entry. *)
LEMMA TodoOfEntry ==
    ASSUME NEW c, NEW streams, NEW j \in streams, c.state = "up", j.peer = c.id,
           \A i \in streams : i.peer = c.id => i.hashes = j.hashes
    PROVE  TodoOf(c, streams) = j.hashes
  BY Zenon DEF TodoOf

(* Without an entry, or without a connection, there is none. *)
LEMMA TodoOfNone ==
    ASSUME NEW c, NEW streams, c.state # "up" \/ \A j \in streams : j.peer # c.id
    PROVE  TodoOf(c, streams) = <<>>
  BY Zenon DEF TodoOf

(* The mapped variables. *)
LEMMA MappedUnchanged ==
    ASSUME Last' = Last, ConnOf(client, sockets)' = ConnOf(client, sockets),
           client'.request = client.request, TodoOf(client, joins)' = TodoOf(client, joins),
           client'.wire = client.wire, client'.id = client.id
    PROVE  UNCHANGED Served!streamVars
  BY Zenon DEF Served!streamVars

(* The service's operators do not depend on the mapping. *)
LEMMA SameRange ==
    ASSUME NEW a, NEW b
    PROVE  Served!HeightRange(a, b) = HeightRange(a, b) /\ Served!NoRequest = NoRequest
  BY Zenon DEF HeightRange, Served!HeightRange, NoRequest, Served!NoRequest

(* The node starts with nobody connected or with a client that asks for the genesis. *)
LEMMA InitServed == Init => /\ ServeInv
                            /\ \/ Served!NobodyConnected
                               \/ \E height \in 0..(MaxHeight + 1) : Served!StreamInit(height)
<1> SUFFICES ASSUME Init
             PROVE  /\ ServeInv
                    /\ \/ Served!NobodyConnected
                       \/ \E height \in 0..(MaxHeight + 1) : Served!StreamInit(height)
  BY Zenon
<1> USE MaxHeightAssumption, MaxClientsAssumption
<1>1. sockets = {} /\ joins = {} /\ Last = -1 /\ client \in ClientType
  <2>1. DAInv
    BY Zenon, InitDAInv
  <2>2. blocks = {} /\ sockets = {} /\ joins = {}
    BY Zenon DEF Init, NodeInit
  <2>3. 0..(-1) = {} /\ -1 \in -1..MaxHeight
    OBVIOUS
  <2>4. Last = -1
    BY Zenon, <2>2, <2>3, LastOfRange DEF Last
  <2> QED
    BY Zenon, <2>1, <2>2, <2>4 DEF DAInv, TypeOK, NodeTypeOK, ClientType
<1>2. TodoOf(client, joins) = <<>>
  BY Zenon, <1>1, TodoOfNone
<1>3. CASE client = NoClient
  <2>1. client.state = "down" /\ client.request = NoRequest /\ client.wire = <<>> /\ client.id = MaxClients
    BY Zenon, <1>3 DEF NoClient
  <2>2. ServeInv
    BY Zenon, <1>1, <2>1 DEF ServeInv, ConnInv
  <2>3. ConnOf(client, sockets) = "down"
    BY Zenon, <1>1, <2>1, ConnValues
  <2> QED
    BY Zenon, <1>1, <1>2, <2>1, <2>2, <2>3, SameRange DEF Served!NobodyConnected
<1>4. CASE client = Connecting(0, 0)
  <2>1. client.state = "up" /\ client.request = 0 /\ client.wire = <<>> /\ client.id = 0
    BY Zenon, <1>4 DEF Connecting
  <2>2. ServeInv
    BY Zenon, <1>1, <2>1 DEF ServeInv, ConnInv
  <2>3. ConnOf(client, sockets) = "connecting"
    BY <1>1, <2>1, ConnValues
  <2>4. Served!StreamInit(0)
    BY Zenon, <1>1, <1>2, <2>1, <2>3 DEF Served!StreamInit
  <2>5. 0 \in 0..(MaxHeight + 1)
    OBVIOUS
  <2> QED
    BY Zenon, <2>2, <2>4, <2>5
<1> QED
  BY Zenon, <1>3, <1>4 DEF Init, NodeInit

---------------------------------------------------------------------------
(* The steps. *)

(* A step of the service, or none. *)
ServedStep == Served!StreamNext \/ UNCHANGED Served!streamVars

(* What only concerns NodeState, the mempool or the catch-up is no step of the service. *)
LEMMA QuietStep ==
    ASSUME ServeInv, UNCHANGED <<blocks, sockets, joins, client>>
    PROVE  ServeInv' /\ ServedStep
<1>1. Last' = Last /\ ConnOf(client, sockets)' = ConnOf(client, sockets)
      /\ TodoOf(client, joins)' = TodoOf(client, joins)
  BY Zenon DEF Last, ConnOf, TodoOf
<1>2. UNCHANGED Served!streamVars
  BY Zenon, <1>1, MappedUnchanged
<1>3. ServeInv'
  BY Zenon DEF ServeInv, ConnInv
<1> QED
  BY Zenon, <1>2, <1>3 DEF ServedStep

(* Forgetting connections other than the live one is no step either. *)
LEMMA ForgetStep ==
    ASSUME TypeOK, ServeInv, UNCHANGED <<blocks, joins, client>>,
           sockets' = {id \in sockets : id = client.id /\ client.state = "up"}
    PROVE  ServeInv' /\ ServedStep
<1>1. client \in ClientType
  BY Zenon DEF TypeOK, NodeTypeOK, ClientType
<1>2. client.state \in {"up", "down"}
  BY Zenon, <1>1 DEF ClientType
<1>3. ConnOf(client, sockets)' = ConnOf(client, sockets)
  <2>1. CASE client.state = "down"
    BY Zenon, <1>1, <2>1, ConnValues
  <2>2. CASE client.state = "up" /\ client.id \in sockets
    BY Zenon, <1>1, <2>2, ConnValues
  <2>3. CASE client.state = "up" /\ client.id \notin sockets
    BY <1>1, <2>3, ConnValues
  <2> QED
    BY Zenon, <1>2, <2>1, <2>2, <2>3
<1>4. Last' = Last /\ TodoOf(client, joins)' = TodoOf(client, joins)
  BY Zenon DEF Last, TodoOf
<1>5. UNCHANGED Served!streamVars
  BY Zenon, <1>3, <1>4, MappedUnchanged
<1>6. ServeInv'
  BY Zenon DEF ServeInv, ConnInv
<1> QED
  BY Zenon, <1>5, <1>6 DEF ServedStep

(* Storing blocks broadcasts them to the client, if it is registered. *)
LEMMA StoreServed ==
    ASSUME TypeOK, StoreInv, ServeInv, NEW h \in Heights, handle_signed_block(h), UNCHANGED joins
    PROVE  ServeInv' /\ ServedStep
<1> USE MaxHeightAssumption
<1>0. client \in ClientType /\ client.state \in {"up", "down"}
  BY Zenon DEF TypeOK, NodeTypeOK, ClientType
<1>1. CASE h \in blocks /\ UNCHANGED storeVars
  BY Zenon, <1>1, QuietStep DEF storeVars
<1>2. CASE /\ h \notin blocks /\ ~ParentKnown(h)
           /\ buffered' = buffered \cup {h}
           /\ UNCHANGED <<blocks, events, sockets, client>>
  BY Zenon, <1>2, QuietStep
<1>3. CASE /\ h \notin blocks /\ ParentKnown(h)
           /\ blocks' = blocks \cup (h..pop_buffer(h))
           /\ buffered' = buffered \ ((h + 1)..pop_buffer(h))
           /\ add_processed_block(h, pop_buffer(h))
  <2> DEFINE last == pop_buffer(h)
             live == client.state = "up" /\ client.id \in sockets
             w == IF live THEN client.wire \o HeightRange(h, last) ELSE client.wire
  <2>1. h = Last + 1 /\ last \in h..MaxHeight /\ Last' = last
    BY Zenon, <1>3, StoreNext
  <2>2. client' = [client EXCEPT !.wire = w]
        /\ sockets' = {id \in sockets : id = client.id /\ client.state = "up"}
    BY Zenon, <1>3 DEF add_processed_block
  <2> HIDE DEF last
  <2>3. /\ client'.id = client.id /\ client'.state = client.state /\ client'.request = client.request
        /\ client'.wire = w
    <3> HIDE DEF w
    <3> QED
      BY Zenon, <1>0, <2>2 DEF ClientType
  <2>4. client' \in ClientType
    BY Zenon, <1>3, <2>1, SendTypes DEF last
  <2>5. ServeInv'
    <3>1. client.state = "down" => w = <<>>
      BY Zenon DEF ServeInv, ConnInv
    <3> HIDE DEF w
    <3>2. \A id \in sockets' : id <= client.id
      BY Zenon, <2>2 DEF ServeInv, ConnInv
    <3>3. client.state = "up" => \A j \in joins : j.peer = client.id => client.id \in sockets'
      BY Zenon, <2>2 DEF ServeInv, ConnInv
    <3> QED
      BY Zenon, <2>3, <3>1, <3>2, <3>3 DEF ServeInv, ConnInv
  <2>6. TodoOf(client, joins)' = TodoOf(client, joins)
    BY Zenon, <2>3 DEF TodoOf
  <2>7. ConnOf(client, sockets)' = ConnOf(client, sockets)
        /\ (live <=> ConnOf(client, sockets) = "registered")
    <3>1. CASE client.state = "down"
      BY Zenon, <1>0, <2>3, <2>4, <3>1, ConnValues
    <3>2. CASE client.state = "up" /\ client.id \in sockets
      <4>1. client'.id \in sockets'
        BY <2>2, <2>3, <3>2
      <4> QED
        BY Zenon, <1>0, <2>3, <2>4, <3>2, <4>1, ConnValues
    <3>3. CASE client.state = "up" /\ client.id \notin sockets
      <4>1. client'.id \notin sockets'
        BY <2>2, <2>3, <3>3
      <4> QED
        BY Zenon, <1>0, <2>3, <2>4, <3>3, <4>1, ConnValues
    <3> QED
      BY Zenon, <1>0, <3>1, <3>2, <3>3
  <2> HIDE DEF live
  <2>8. Served!AddProcessedBlock
    <3>1. last \in (Last + 1)..MaxHeight
      BY Zenon, <2>1
    <3>2. client'.wire = IF ConnOf(client, sockets) = "registered"
                         THEN client.wire \o Served!HeightRange(Last + 1, last) ELSE client.wire
      BY Zenon, <2>1, <2>3, <2>7, SameRange
    <3> QED
      BY Zenon, <2>1, <2>3, <2>6, <2>7, <3>1, <3>2 DEF Served!AddProcessedBlock
  <2> QED
    BY Zenon, <2>5, <2>8 DEF ServedStep, Served!StreamNext, Served!ServerNext
<1> QED
  BY Zenon, <1>1, <1>2, <1>3 DEF handle_signed_block

(* The connection is lost: no entry, request or frame is left of it. *)
LEMMA LostServed ==
    ASSUME TypeOK, ServeInv, UNCHANGED blocks, client' = Disconnected,
           client.state = "down" \/ client.id < MaxClients,
           joins' \subseteq joins, sockets' \subseteq sockets
    PROVE  ServeInv' /\ ServedStep
<1>0. client \in ClientType /\ client.state \in {"up", "down"}
  BY Zenon DEF TypeOK, NodeTypeOK, ClientType
<1>1. client' \in ClientType
  BY Zenon, <1>0, DisconnectedType
<1>2. /\ client'.id = client.id /\ client'.state = "down" /\ client'.request = NoRequest
      /\ client'.wire = <<>>
  BY Zenon DEF Disconnected
<1>3. ServeInv'
  BY Zenon, <1>2 DEF ServeInv, ConnInv
<1>4. ConnOf(client, sockets)' = "down" /\ TodoOf(client, joins)' = <<>> /\ Last' = Last
  BY Zenon, <1>1, <1>2, ConnValues, TodoOfNone DEF Last
<1>5. CASE client.state = "down"
  <2>1. ConnOf(client, sockets) = "down" /\ TodoOf(client, joins) = <<>>
    BY Zenon, <1>0, <1>5, ConnValues, TodoOfNone
  <2>2. client.wire = <<>> /\ client.request = NoRequest
    BY Zenon, <1>5 DEF ServeInv, ConnInv
  <2>3. UNCHANGED Served!streamVars
    BY Zenon, <1>2, <1>4, <2>1, <2>2, MappedUnchanged
  <2> QED
    BY Zenon, <1>3, <2>3 DEF ServedStep
<1>6. CASE client.state = "up"
  <2>1. ConnOf(client, sockets) # "down" /\ client.id < MaxClients
    BY Zenon, <1>0, <1>6, ConnValues
  <2>2. Served!DropPeerStream
    BY Zenon, <1>2, <1>4, <2>1, SameRange DEF Served!DropPeerStream
  <2> QED
    BY Zenon, <1>3, <2>2 DEF ServedStep, Served!StreamNext, Served!ServerNext
<1> QED
  BY Zenon, <1>0, <1>5, <1>6

(* Registering a connection, receiving a frame and opening a connection. *)
LEMMA ClientServed ==
    ASSUME TypeOK, ServeInv,
           SetupClient \/ ClientReceives \/ \E start \in 0..(MaxHeight + 1) : ClientConnects(start)
    PROVE  ServeInv' /\ ServedStep
<1>0. client \in ClientType /\ client.state \in {"up", "down"}
  BY Zenon DEF TypeOK, NodeTypeOK, ClientType
<1>1. CASE SetupClient
  <2>1. /\ client.state = "up" /\ client.id \notin sockets /\ sockets' = sockets \cup {client.id}
        /\ UNCHANGED <<blocks, client, joins>>
    BY Zenon, <1>1 DEF SetupClient
  <2>2. client.id <= client.id
    BY <1>0 DEF ClientType, Clients
  <2>3. ServeInv'
    BY Zenon, <2>1, <2>2 DEF ServeInv, ConnInv
  <2>4. ConnOf(client, sockets) = "connecting" /\ ConnOf(client, sockets)' = "registered"
    BY Zenon, <1>0, <2>1, ConnValues
  <2>5. Last' = Last /\ TodoOf(client, joins)' = TodoOf(client, joins)
    BY Zenon, <2>1 DEF Last, TodoOf
  <2>6. Served!SetupStream
    BY Zenon, <2>1, <2>4, <2>5 DEF Served!SetupStream
  <2> QED
    BY Zenon, <2>3, <2>6 DEF ServedStep, Served!StreamNext, Served!ServerNext
<1>2. CASE ClientReceives
  <2>1. /\ client.state = "up" /\ client.id \in sockets /\ client.wire # <<>>
        /\ client' = [client EXCEPT !.wire = Tail(client.wire)]
        /\ UNCHANGED <<blocks, sockets, joins>>
    BY Zenon, <1>2 DEF ClientReceives
  <2>2. /\ client'.id = client.id /\ client'.state = client.state /\ client'.request = client.request
        /\ client'.wire = Tail(client.wire)
    BY Zenon, <1>0, <2>1 DEF ClientType
  <2>3. client' \in ClientType
    <3>1. Tail(client.wire) \in Seq(Heights)
      BY <1>0, <2>1 DEF ClientType
    <3> QED
      BY Zenon, <1>0, <2>1, <3>1 DEF ClientType
  <2>4. ServeInv'
    BY <2>1, <2>2 DEF ServeInv, ConnInv
  <2>5. ConnOf(client, sockets) = "registered" /\ ConnOf(client, sockets)' = "registered"
    BY Zenon, <1>0, <2>1, <2>2, <2>3, ConnValues
  <2>6. Last' = Last /\ TodoOf(client, joins)' = TodoOf(client, joins)
    BY Zenon, <2>1, <2>2 DEF Last, TodoOf
  <2>7. Served!RecvFrame
    BY Zenon, <2>1, <2>2, <2>5, <2>6 DEF Served!RecvFrame
  <2> QED
    BY Zenon, <2>4, <2>7 DEF ServedStep, Served!StreamNext
<1>3. CASE \E start \in 0..(MaxHeight + 1) : ClientConnects(start)
  <2>1. PICK start \in 0..(MaxHeight + 1) : ClientConnects(start)
    BY Zenon, <1>3
  <2>2. /\ client.state = "down" /\ client.id < MaxClients
        /\ client' = Connecting(client.id + 1, start)
        /\ UNCHANGED <<blocks, sockets, joins>>
    BY Zenon, <2>1 DEF ClientConnects
  <2>3. /\ client'.id = client.id + 1 /\ client'.state = "up" /\ client'.request = start
        /\ client'.wire = <<>>
    BY Zenon, <2>2 DEF Connecting
  <2>4. client.id \in Int /\ client.id + 1 \in Clients
    BY <1>0, <2>2, MaxClientsAssumption DEF ClientType, Clients
  <2>5. client' \in ClientType
    <3>1. <<>> \in Seq(Heights)
      OBVIOUS
    <3> QED
      BY Zenon, <2>1, <2>2, <2>4, <3>1 DEF Connecting, ClientType
  <2>6. /\ \A id \in sockets : id <= client.id /\ id \in Int
        /\ \A j \in joins : j.peer <= client.id /\ j.peer \in Int
    <3>1. \A id \in sockets : id <= client.id
      BY Zenon DEF ServeInv, ConnInv
    <3>2. \A j \in joins : j.peer <= client.id
      BY Zenon DEF ServeInv, ConnInv
    <3>3. \A id \in Clients : id \in Int
      BY DEF Clients
    <3>4. sockets \subseteq Clients /\ \A j \in joins : j.peer \in Clients
      BY Zenon DEF TypeOK, NodeTypeOK, Join
    <3> QED
      BY Zenon, <3>1, <3>2, <3>3, <3>4
  <2>7. /\ \A id \in sockets : id <= client'.id /\ id # client'.id
        /\ \A j \in joins : j.peer <= client'.id /\ j.peer # client'.id
    BY <2>3, <2>4, <2>6
  <2>8. ServeInv'
    BY Zenon, <2>2, <2>3, <2>7 DEF ServeInv, ConnInv
  <2>9. ConnOf(client, sockets)' = "connecting" /\ TodoOf(client, joins)' = <<>> /\ Last' = Last
    BY Zenon, <2>2, <2>3, <2>5, <2>7, ConnValues, TodoOfNone DEF Last
  <2>10. Served!StartClient(start)
    BY Zenon, <2>2, <2>3, <2>9 DEF Served!StartClient
  <2> QED
    BY Zenon, <2>1, <2>8, <2>10 DEF ServedStep, Served!StreamNext
<1> QED
  BY Zenon, <1>1, <1>2, <1>3

(* A request is served from a snapshot of the store. *)
LEMMA RequestServed ==
    ASSUME TypeOK, ServeInv, ServeRequest
    PROVE  ServeInv' /\ ServedStep
<1> DEFINE entry == [peer |-> client.id, retries |-> 0, hashes |-> HeightRange(client.request, Last)]
<1>0. client \in ClientType /\ \A j \in joins : j.peer <= client.id
  BY Zenon DEF TypeOK, NodeTypeOK, ClientType, ServeInv, ConnInv
<1>1. /\ client.id \in sockets /\ client.request # NoRequest
      /\ joins' = joins \cup {entry}
      /\ client' = [client EXCEPT !.request = NoRequest]
      /\ UNCHANGED <<blocks, sockets>>
  BY Zenon DEF ServeRequest
<1>2. client.state = "up" /\ \A j \in joins : j.peer # client.id
  BY Zenon, <1>1 DEF ServeInv, ConnInv
<1>3. /\ client'.id = client.id /\ client'.state = "up" /\ client'.request = NoRequest
      /\ client'.wire = client.wire /\ client' \in ClientType
  BY Zenon, <1>0, <1>1, <1>2 DEF ClientType, NoRequest
<1>4. entry.peer = client.id /\ entry.hashes = HeightRange(client.request, Last)
  BY Zenon
<1> HIDE DEF entry
<1>5. client.id <= client.id
  BY <1>0 DEF ClientType, Clients
<1>6. ServeInv'
  BY <1>0, <1>1, <1>2, <1>3, <1>4, <1>5 DEF ServeInv, ConnInv
<1>7. ConnOf(client, sockets) = "registered" /\ ConnOf(client, sockets)' = "registered" /\ Last' = Last
  BY Zenon, <1>0, <1>1, <1>2, <1>3, ConnValues DEF Last
<1>8. TodoOf(client', joins') = HeightRange(client.request, Last)
  <2>1. entry \in joins' /\ \A i \in joins' : i.peer = client'.id => i.hashes = entry.hashes
    BY Zenon, <1>1, <1>2, <1>3
  <2> QED
    BY <1>3, <1>4, <2>1, TodoOfEntry
<1>9. Served!StartStreamingToPeer
  BY Zenon, <1>1, <1>3, <1>7, <1>8, SameRange DEF Served!StartStreamingToPeer
<1> QED
  BY Zenon, <1>6, <1>9 DEF ServedStep, Served!StreamNext, Served!ServerNext

(* Two sets of entries that hold the same range for a connection. *)
LEMMA TodoSame ==
    ASSUME NEW c, NEW old, NEW new,
           \A i, k \in old : i.peer = c.id /\ k.peer = c.id => i.hashes = k.hashes,
           \A i, k \in new : i.peer = c.id /\ k.peer = c.id => i.hashes = k.hashes,
           \A i \in old : i.peer = c.id => \E k \in new : k.peer = c.id /\ k.hashes = i.hashes,
           \A k \in new : k.peer = c.id => \E i \in old : i.peer = c.id
    PROVE  TodoOf(c, new) = TodoOf(c, old)
<1>1. CASE c.state = "up" /\ \E i \in old : i.peer = c.id
  <2>1. PICK i \in old : i.peer = c.id
    BY Zenon, <1>1
  <2>2. PICK k \in new : k.peer = c.id /\ k.hashes = i.hashes
    BY Zenon, <2>1
  <2>3. TodoOf(c, old) = i.hashes
    BY <1>1, <2>1, TodoOfEntry
  <2>4. TodoOf(c, new) = k.hashes
    BY <1>1, <2>2, TodoOfEntry
  <2> QED
    BY Zenon, <2>2, <2>3, <2>4
<1>2. CASE c.state # "up" \/ \A i \in old : i.peer # c.id
  <2>1. TodoOf(c, old) = <<>>
    BY Zenon, <1>2, TodoOfNone
  <2>2. TodoOf(c, new) = <<>>
    BY Zenon, <1>2, TodoOfNone
  <2> QED
    BY Zenon, <2>1, <2>2
<1> QED
  BY Zenon, <1>1, <1>2

(* One entry of the joinset is replaced by another of the same connection. *)
LEMMA ReplaceEntry ==
    ASSUME ServeInv, NEW j \in joins, NEW e, e.peer = j.peer, joins' = (joins \ {j}) \cup {e},
           UNCHANGED sockets, client'.id = client.id, client'.state = client.state,
           client'.request = client.request, client.state = "down" => client'.wire = <<>>
    PROVE  ServeInv'
  BY Zenon DEF ServeInv, ConnInv

(* Streaming the range: the next block is sent, tried again, or given up. *)
LEMMA SendServed ==
    ASSUME TypeOK, ServeInv, NEW j \in joins, SendCatchupBlock(j)
    PROVE  ServeInv' /\ ServedStep
<1>0. client \in ClientType /\ client.state \in {"up", "down"} /\ j \in Join
  BY Zenon DEF TypeOK, NodeTypeOK, ClientType
<1>1. blocks' = blocks /\ Last' = Last
  BY Zenon DEF SendCatchupBlock, Last
<1>2. \A i, k \in joins : i.peer = client.id /\ k.peer = client.id => i = k
  BY Zenon DEF ServeInv, ConnInv
<1>3. CASE j.hashes = <<>> /\ joins' = joins \ {j} /\ UNCHANGED <<sockets, client>>
  <2>1. ServeInv'
    BY Zenon, <1>3 DEF ServeInv, ConnInv
  <2>2. TodoOf(client, joins') = TodoOf(client, joins)
    <3>1. CASE client.state = "up" /\ j.peer = client.id
      <4>1. TodoOf(client, joins) = <<>>
        BY Zenon, <1>2, <1>3, <3>1, TodoOfEntry
      <4>2. \A i \in joins' : i.peer # client.id
        BY Zenon, <1>2, <1>3, <3>1
      <4>3. TodoOf(client, joins') = <<>>
        BY Zenon, <4>2, TodoOfNone
      <4> QED
        BY Zenon, <4>1, <4>3
    <3>2. CASE client.state # "up"
      BY Zenon, <3>2, TodoOfNone
    <3>3. CASE j.peer # client.id
      BY <1>2, <1>3, <3>3, TodoSame
    <3> QED
      BY Zenon, <3>1, <3>2, <3>3
  <2>3. ConnOf(client, sockets)' = ConnOf(client, sockets)
    BY Zenon, <1>3 DEF ConnOf
  <2>4. UNCHANGED Served!streamVars
    BY Zenon, <1>1, <1>3, <2>2, <2>3, MappedUnchanged
  <2> QED
    BY Zenon, <2>1, <2>4 DEF ServedStep
<1>4. CASE /\ j.hashes # <<>> /\ j.peer \in sockets
           /\ joins' = (joins \ {j}) \cup {[peer |-> j.peer, hashes |-> Tail(j.hashes), retries |-> 0]}
           /\ client' = [client EXCEPT !.wire =
                            IF client.state = "up" /\ client.id = j.peer
                            THEN Append(@, Head(j.hashes)) ELSE @]
           /\ UNCHANGED sockets
  <2> DEFINE e == [peer |-> j.peer, hashes |-> Tail(j.hashes), retries |-> 0]
             mine == client.state = "up" /\ client.id = j.peer
             w == IF mine THEN Append(client.wire, Head(j.hashes)) ELSE client.wire
  <2>1. e.peer = j.peer /\ e.hashes = Tail(j.hashes) /\ joins' = (joins \ {j}) \cup {e}
    BY Zenon, <1>4
  <2>2. client' = [client EXCEPT !.wire = w]
    BY Zenon, <1>4
  <2>3. w \in Seq(Heights)
    BY <1>0, <1>4 DEF ClientType, Join
  <2> HIDE DEF e
  <2>4. /\ client'.id = client.id /\ client'.state = client.state /\ client'.request = client.request
        /\ client'.wire = w /\ client' \in ClientType
    <3> HIDE DEF w
    <3> QED
      BY Zenon, <1>0, <2>2, <2>3 DEF ClientType
  <2>5. client.state = "down" => w = <<>>
    BY Zenon DEF ServeInv, ConnInv
  <2>6. ServeInv'
    <3> HIDE DEF w
    <3> QED
      BY Zenon, <1>4, <2>1, <2>4, <2>5, ReplaceEntry
  <2>7. ConnOf(client, sockets)' = ConnOf(client, sockets)
    BY <1>4, <2>4 DEF ConnOf
  <2>8. CASE mine
    <3>1. TodoOf(client, joins) = j.hashes
      BY Zenon, <1>2, <2>8, TodoOfEntry
    <3>2. TodoOf(client', joins') = Tail(j.hashes)
      <4>1. e \in joins' /\ \A i \in joins' : i.peer = client'.id => i.hashes = e.hashes
        BY Zenon, <1>2, <2>1, <2>4, <2>8
      <4>2. client'.state = "up" /\ e.peer = client'.id
        BY Zenon, <2>1, <2>4, <2>8
      <4>3. TodoOf(client', joins') = e.hashes
        BY Zenon, <4>1, <4>2, TodoOfEntry
      <4> QED
        BY Zenon, <2>1, <4>3
    <3>3. ConnOf(client, sockets) = "registered" /\ ConnOf(client', sockets') = "registered"
      BY Zenon, <1>0, <1>4, <2>7, <2>8, ConnValues
    <3>4. client'.wire = Append(client.wire, Head(j.hashes))
      BY Zenon, <2>4, <2>8
    <3>5. Served!StreamOneBlock
      BY Zenon, <1>1, <1>4, <2>4, <3>1, <3>2, <3>3, <3>4 DEF Served!StreamOneBlock
    <3> QED
      BY Zenon, <2>6, <3>5 DEF ServedStep, Served!StreamNext, Served!ServerNext
  <2>9. CASE ~mine
    <3>1. TodoOf(client', joins') = TodoOf(client, joins)
      <4>1. CASE client.state # "up"
        BY Zenon, <2>4, <4>1, TodoOfNone
      <4>2. CASE j.peer # client.id
        <5>1. TodoOf(client', joins') = TodoOf(client', joins)
          BY <1>2, <2>1, <2>4, <4>2, TodoSame
        <5>2. TodoOf(client', joins) = TodoOf(client, joins)
          BY Zenon, <2>4 DEF TodoOf
        <5> QED
          BY Zenon, <5>1, <5>2
      <4> QED
        BY Zenon, <2>9, <4>1, <4>2
    <3>2. client'.wire = client.wire
      BY Zenon, <2>4, <2>9
    <3>3. UNCHANGED Served!streamVars
      BY Zenon, <1>1, <2>4, <2>7, <3>1, <3>2, MappedUnchanged
    <3> QED
      BY Zenon, <2>6, <3>3 DEF ServedStep
  <2> QED
    BY Zenon, <2>8, <2>9
<1>5. CASE joins' = (joins \ {j}) \cup {[j EXCEPT !.retries = @ + 1]} /\ UNCHANGED <<sockets, client>>
  <2> DEFINE e == [j EXCEPT !.retries = @ + 1]
  <2>1. e.peer = j.peer /\ e.hashes = j.hashes /\ joins' = (joins \ {j}) \cup {e}
    BY Zenon, <1>0, <1>5 DEF Join
  <2> HIDE DEF e
  <2>2. client.state = "down" => client'.wire = <<>>
    BY Zenon, <1>5 DEF ServeInv, ConnInv
  <2>3. ServeInv'
    BY Zenon, <1>5, <2>1, <2>2, ReplaceEntry
  <2>4. TodoOf(client, joins') = TodoOf(client, joins)
    BY <1>2, <2>1, TodoSame
  <2>5. ConnOf(client, sockets)' = ConnOf(client, sockets)
    BY Zenon, <1>5 DEF ConnOf
  <2>6. UNCHANGED Served!streamVars
    BY Zenon, <1>1, <1>5, <2>4, <2>5, MappedUnchanged
  <2> QED
    BY Zenon, <2>3, <2>6 DEF ServedStep
<1>6. CASE /\ joins' = joins \ {j}
           /\ sockets' = sockets \ {j.peer}
           /\ IF j.peer = client.id /\ client.state = "up"
              THEN client.id < MaxClients /\ client' = Disconnected
              ELSE UNCHANGED client
  <2>1. CASE j.peer = client.id /\ client.state = "up"
    BY Zenon, <1>1, <1>6, <2>1, LostServed
  <2>2. CASE ~(j.peer = client.id /\ client.state = "up")
    <3>1. UNCHANGED client
      BY Zenon, <1>6, <2>2
    <3>2. ServeInv'
      BY Zenon, <1>6, <2>2, <3>1 DEF ServeInv, ConnInv
    <3>3. TodoOf(client, joins') = TodoOf(client, joins)
      <4>1. CASE client.state # "up"
        BY Zenon, <4>1, TodoOfNone
      <4>2. CASE j.peer # client.id
        BY <1>2, <1>6, <4>2, TodoSame
      <4> QED
        BY Zenon, <2>2, <4>1, <4>2
    <3>4. ConnOf(client, sockets') = ConnOf(client, sockets)
      <4>1. CASE client.state = "down"
        BY Zenon, <1>0, <4>1, ConnValues
      <4>2. CASE client.state = "up" /\ client.id \in sockets
        BY Zenon, <1>0, <1>6, <2>2, <4>2, ConnValues
      <4>3. CASE client.state = "up" /\ client.id \notin sockets
        BY Zenon, <1>0, <1>6, <4>3, ConnValues
      <4> QED
        BY Zenon, <1>0, <4>1, <4>2, <4>3
    <3>5. UNCHANGED Served!streamVars
      BY Zenon, <1>1, <3>1, <3>3, <3>4, MappedUnchanged
    <3> QED
      BY Zenon, <3>2, <3>5 DEF ServedStep
  <2> QED
    BY Zenon, <2>1, <2>2
<1> QED
  BY Zenon, <1>3, <1>4, <1>5, <1>6 DEF SendCatchupBlock

(* Every step of the node and of its listener is a step of the service, or none. *)
LEMMA NextServed == DAInv /\ ServeInv /\ [Next]_vars => ServeInv' /\ ServedStep
<1> SUFFICES ASSUME DAInv, ServeInv, [Next]_vars PROVE ServeInv' /\ ServedStep
  BY Zenon
<1> USE MaxHeightAssumption
<1>0. TypeOK /\ StoreInv
  BY Zenon DEF DAInv
<1>1. CASE HandleGenesisEvent
  <2>1. UNCHANGED joins /\ (handle_signed_block(0) \/ UNCHANGED storeVars)
    BY Zenon, <1>1 DEF HandleGenesisEvent
  <2>2. 0 \in Heights
    BY DEF Heights
  <2> QED
    BY Zenon, <1>0, <2>1, <2>2, StoreServed, QuietStep DEF storeVars
<1>2. CASE \E h \in 1..MaxHeight : HandleBuiltSignedBlock(h)
  <2>0. 1..MaxHeight \subseteq Heights
    BY DEF Heights
  <2>1. \E h \in Heights : UNCHANGED joins /\ handle_signed_block(h)
    BY Zenon, <1>2, <2>0 DEF HandleBuiltSignedBlock
  <2> QED
    BY Zenon, <1>0, <2>1, StoreServed
<1>3. CASE HandleStreamedBlock
  <2>1. Head(channel) \in Heights /\ UNCHANGED joins /\ handle_signed_block(Head(channel))
    BY <1>0, <1>3 DEF HandleStreamedBlock, TypeOK, NodeTypeOK
  <2> QED
    BY Zenon, <1>0, <2>1, StoreServed
<1>4. CASE \/ (\E h \in 1..MaxHeight : CommitSlot(h)) \/ NodeStateHandlesBlock
           \/ HandleNewPeer \/ NewPeerUnreachable \/ CheckCatchupTask \/ CatchupTaskReceives \/ CatchupTaskEnds
           \/ Peer \/ UNCHANGED vars
  <2>1. UNCHANGED <<blocks, sockets, joins, client>>
    BY Zenon, <1>4 DEF CommitSlot, NodeStateHandlesBlock, HandleNewPeer, NewPeerUnreachable,
                CheckCatchupTask, CatchupTaskReceives, CatchupTaskEnds, Peer, storeVars, daVars,
                vars, nodeAndStreamVars
  <2> QED
    BY Zenon, <2>1, QuietStep
<1>5. CASE SetupClient \/ ClientReceives \/ \E start \in 0..(MaxHeight + 1) : ClientConnects(start)
  BY Zenon, <1>0, <1>5, ClientServed
<1>6. CASE ServeRequest
  BY Zenon, <1>0, <1>6, RequestServed
<1>7. CASE \E j \in joins : SendCatchupBlock(j)
  BY Zenon, <1>0, <1>7, SendServed
<1>8. CASE HandleMempoolStatusEvent
  BY Zenon, <1>0, <1>8, ForgetStep DEF HandleMempoolStatusEvent
<1>9. CASE ClientLost
  BY Zenon, <1>0, <1>9, LostServed DEF ClientLost
<1>10. CASE Restart
  <2>1. /\ UNCHANGED blocks /\ client' = Disconnected /\ joins' = {} /\ sockets' = {}
        /\ (client.state = "down" \/ client.id < MaxClients)
    BY Zenon, <1>10 DEF Restart
  <2> QED
    BY Zenon, <1>0, <2>1, LostServed
<1>11. CASE RestartClient
  <2>1. current_height + 1 \in 0..(MaxHeight + 1)
    BY <1>0 DEF TypeOK, Heights
  <2> QED
    BY Zenon, <1>5, <1>11, <2>1 DEF RestartClient
<1>12. CASE RestartListener
  <2>1. \E height \in Heights : ClientConnects(start_block(height))
    BY Zenon, <1>0, <1>12 DEF RestartListener, TypeOK
  <2>2. \A height \in Heights : start_block(height) \in 0..(MaxHeight + 1)
    BY DEF start_block, Heights
  <2> QED
    BY Zenon, <1>5, <2>1, <2>2
<1> QED
  BY Zenon, <1>1, <1>2, <1>3, <1>4, <1>5, <1>6, <1>7, <1>8, <1>9, <1>10, <1>11, <1>12
  DEF Next, Node, NodeNext, ProcessingNextFrame

(* What data_availability.rs serves to a client, across broadcasts, catch-up streams,    *)
(* dropped connections and restarts of the node, is the service of BlockStream, for      *)
(* every chain length and every number of connections, retries and restarts.             *)
THEOREM NodeImplementsStream == Spec => ServesBlockStream
<1>1. DAInv /\ ServeInv /\ [Next]_vars => [Served!StreamNext]_(Served!streamVars)
  BY Zenon, NextServed DEF ServedStep
<1>2. DAInv /\ ServeInv /\ [Next]_vars => ServeInv'
  BY Zenon, NextServed
<1> QED
  BY InitDAInv, InitServed, NextDAInv, <1>1, <1>2, PTL DEF Spec, ServesBlockStream, Served!StreamSpec

=============================================================================
