-------------------------- MODULE ServicesProofs --------------------------
(***************************************************************************)
(* Four parts of a node, each for every value of its constants: the        *)
(* channel and the queries of the bus, the chain of a node that runs       *)
(* alone, the order in which a process stops its modules, and the queues   *)
(* of the unsettled transactions in NodeState.                             *)
(***************************************************************************)
EXTENDS Bus, SingleNode, Modules, NodeState, FiniteSetTheorems, SequenceTheorems,
        WellFoundedInduction, NaturalsInduction, TLAPS

---------------------------------------------------------------------------
(* The bus. *)

Checked == {s \in BusSenders : sender[s] = "checked"}

BusTypes ==
    /\ bus_sent \in Nat
    /\ position \in [BusReceivers -> Nat]
    /\ sender \in [BusSenders -> {"idle", "checked", "retrying", "awaiting"}]
    /\ asked \in [BusSenders -> Nat]
    /\ open_queries \subseteq Nat
    /\ served \subseteq Nat \X BusReceivers
    /\ answers \subseteq Nat

(* The messages a receiver has yet to read, and those of the senders that have looked and  *)
(* not sent: what may be in the channel without another look at its length.                *)
RoomForAll ==
    \A r \in BusReceivers :
        bus_sent - position[r] + Cardinality(Checked)
            < CHANNEL_CAP_IF_WAITING + Cardinality(BusSenders)

(* A number is used for one query, and taking it ends it. *)
QueriesNumbered ==
    /\ \A s \in BusSenders : asked[s] <= bus_sent
    /\ \A s, t \in BusSenders : asked[s] = asked[t] /\ asked[s] # 0 => s = t
    /\ \A s \in BusSenders : sender[s] # "awaiting" => asked[s] = 0
    /\ \A q \in open_queries : q <= bus_sent
    /\ \A a \in served : a[1] <= bus_sent /\ a[1] \notin open_queries
    /\ \A q \in answers : q # 0

BusInv == BusTypes /\ RoomForAll /\ QueriesNumbered /\ QueriesServedOnce

(* How many senders have looked and not sent. *)
LEMMA CheckedFinite ==
    ASSUME BusTypes
    PROVE  /\ IsFiniteSet(Checked)
           /\ Cardinality(Checked) \in Nat
           /\ Cardinality(BusSenders) \in Nat
           /\ Cardinality(Checked) <= Cardinality(BusSenders)
<1>1. Checked \subseteq BusSenders  BY DEF Checked
<1>2. IsFiniteSet(BusSenders)  BY BufferSuffices
<1> QED  BY Zenon, <1>1, <1>2, FS_Subset, FS_CardinalityType

(* The bus is in order at first. *)
LEMMA BusInitInv == BusInit => BusInv
<1> SUFFICES ASSUME BusInit PROVE BusInv  OBVIOUS
<1>1. BusTypes  BY DEF BusInit, BusTypes
<1>2. RoomForAll
  <2>1. Checked = {}  BY DEF BusInit, Checked
  <2>2. Cardinality(Checked) = 0  BY <2>1, FS_EmptySet
  <2>3. Cardinality(BusSenders) \in Nat  BY <1>1, CheckedFinite
  <2> QED  BY <2>2, <2>3, BufferSuffices DEF BusInit, RoomForAll
<1>3. QueriesNumbered  BY DEF BusInit, QueriesNumbered
<1>4. QueriesServedOnce  BY DEF BusInit, QueriesServedOnce
<1> QED  BY Zenon, <1>1, <1>2, <1>3, <1>4 DEF BusInv

(* A sender that leaves "idle" for anything but "checked", or comes back to it. *)
LEMMA RoomKept ==
    ASSUME BusInv, BusTypes', Checked' \subseteq Checked, UNCHANGED bus_sent,
           \A r \in BusReceivers : position'[r] >= position[r]
    PROVE  RoomForAll'
<1>1. Cardinality(Checked') <= Cardinality(Checked)
  BY Zenon, CheckedFinite, FS_Subset DEF BusInv
<1>2. Cardinality(Checked') \in Nat /\ Cardinality(Checked) \in Nat
      /\ Cardinality(BusSenders) \in Nat
  <2>1. IsFiniteSet(Checked')  BY CheckedFinite, FS_Subset DEF BusInv
  <2> QED  BY Zenon, <2>1, FS_CardinalityType, CheckedFinite DEF BusInv
<1> SUFFICES ASSUME NEW r \in BusReceivers
             PROVE  bus_sent' - position'[r] + Cardinality(Checked')
                        < CHANNEL_CAP_IF_WAITING + Cardinality(BusSenders)
  BY Zenon DEF RoomForAll
<1>3. bus_sent - position[r] + Cardinality(Checked)
            < CHANNEL_CAP_IF_WAITING + Cardinality(BusSenders)
  BY Zenon DEF BusInv, RoomForAll
<1>4. position[r] \in Nat /\ position'[r] \in Nat /\ bus_sent \in Nat
  BY Zenon DEF BusInv, BusTypes
<1> QED  BY <1>1, <1>2, <1>3, <1>4, BufferSuffices

(* A sender finds room in every receiver. *)
LEMMA CheckLengthInv ==
    ASSUME BusInv, NEW s \in BusSenders, CheckLength(s)
    PROVE  BusInv'
<1> USE DEF BusInv
<1>1. BusTypes'  BY DEF CheckLength, BusTypes
<1>2. RoomForAll'
  <2>1. Checked' = Checked \cup {s}  BY DEF CheckLength, Checked, BusTypes
  <2>2. Cardinality(Checked') <= Cardinality(BusSenders) /\ Cardinality(Checked') \in Nat
        /\ Cardinality(BusSenders) \in Nat
    <3>1. Checked' \subseteq BusSenders  BY DEF Checked
    <3> QED  BY Zenon, <3>1, BufferSuffices, FS_Subset, FS_CardinalityType
  <2>3. ASSUME NEW r \in BusReceivers
        PROVE  bus_sent' - position'[r] < CHANNEL_CAP_IF_WAITING
    BY BufferSuffices DEF CheckLength, ChannelFull, BusTypes
  <2>4. ASSUME NEW r \in BusReceivers
        PROVE  bus_sent' \in Nat /\ position'[r] \in Nat
    BY Zenon, <1>1 DEF BusTypes
  <2> QED  BY <2>2, <2>3, <2>4, BufferSuffices DEF RoomForAll
<1>3. QueriesNumbered'  BY DEF CheckLength, QueriesNumbered, BusTypes
<1>4. QueriesServedOnce'  BY DEF CheckLength, QueriesServedOnce
<1> QED  BY Zenon, <1>1, <1>2, <1>3, <1>4

(* A sender that waits for room. *)
LEMMA WaitingInv ==
    ASSUME BusInv, NEW s \in BusSenders, send_waiting_if_full(s)
    PROVE  BusInv'
<1> USE DEF BusInv
<1>1. BusTypes'  BY DEF send_waiting_if_full, BusTypes
<1>2. RoomForAll'
  <2>1. Checked' \subseteq Checked  BY DEF send_waiting_if_full, Checked, BusTypes
  <2>2. \A r \in BusReceivers : position'[r] >= position[r]
    BY DEF send_waiting_if_full, BusTypes
  <2> QED  BY Zenon, <1>1, <2>1, <2>2, RoomKept DEF send_waiting_if_full
<1>3. QueriesNumbered'  BY DEF send_waiting_if_full, QueriesNumbered, BusTypes
<1>4. QueriesServedOnce'  BY DEF send_waiting_if_full, QueriesServedOnce
<1> QED  BY Zenon, <1>1, <1>2, <1>3, <1>4

(* A message sent fits every receiver. *)
LEMMA SendMessageInv ==
    ASSUME BusInv, NEW s \in BusSenders, SendMessage(s)
    PROVE  BusInv'
<1> USE DEF BusInv
<1>1. BusTypes'
  <2>1. bus_sent' \in Nat  BY DEF SendMessage, BusTypes
  <2>2. sender' \in [BusSenders -> {"idle", "checked", "retrying", "awaiting"}]
    BY Zenon DEF SendMessage, BusTypes
  <2>3. asked' \in [BusSenders -> Nat] /\ open_queries' \subseteq Nat
    <3>1. CASE UNCHANGED <<asked, open_queries>>  BY <3>1 DEF BusTypes
    <3>2. CASE /\ asked' = [asked EXCEPT ![s] = bus_sent']
               /\ open_queries' = open_queries \cup {bus_sent'}
      BY Zenon, <2>1, <3>2 DEF BusTypes
    <3> QED  BY Zenon, <3>1, <3>2 DEF SendMessage
  <2>4. UNCHANGED <<position, served, answers>>  BY DEF SendMessage
  <2> QED  BY Zenon, <2>1, <2>2, <2>3, <2>4 DEF BusTypes
<1>2. RoomForAll'
  <2>1. s \in Checked /\ Checked' = Checked \ {s}  BY DEF SendMessage, Checked, BusTypes
  <2>2. Cardinality(Checked') = Cardinality(Checked) - 1
    BY Zenon, <2>1, CheckedFinite, FS_RemoveElement
  <2>3. \A r \in BusReceivers :
            bus_sent' = bus_sent + 1 /\ position'[r] = position[r] /\ position[r] \in Nat
    BY Zenon DEF SendMessage, BusTypes
  <2>4. bus_sent \in Nat  BY DEF BusTypes
  <2> QED  BY <2>2, <2>3, <2>4, CheckedFinite, BufferSuffices DEF RoomForAll
<1>3. QueriesNumbered'
  <2>1. bus_sent \in Nat /\ bus_sent' = bus_sent + 1 /\ served' = served /\ answers' = answers
    BY Zenon DEF SendMessage, BusTypes
  <2>2. asked[s] = 0  BY DEF SendMessage, QueriesNumbered
  <2>3. CASE sender' = [sender EXCEPT ![s] = "idle"] /\ UNCHANGED <<asked, open_queries>>
    BY <2>1, <2>2, <2>3 DEF QueriesNumbered, BusTypes
  <2>4. CASE /\ sender' = [sender EXCEPT ![s] = "awaiting"]
             /\ asked' = [asked EXCEPT ![s] = bus_sent']
             /\ open_queries' = open_queries \cup {bus_sent'}
    <3>1. \A t \in BusSenders : asked'[t] = IF t = s THEN bus_sent + 1 ELSE asked[t]
      BY Zenon, <2>1, <2>4 DEF BusTypes
    <3>2. \A t \in BusSenders : asked[t] \in Nat /\ asked[t] <= bus_sent
      BY Zenon DEF QueriesNumbered, BusTypes
    <3>3. \A t \in BusSenders : asked'[t] <= bus_sent'  BY <2>1, <3>1, <3>2
    <3>4. \A t, u \in BusSenders : asked'[t] = asked'[u] /\ asked'[t] # 0 => t = u
      BY <2>1, <3>1, <3>2 DEF QueriesNumbered
    <3>5. \A t \in BusSenders : sender'[t] # "awaiting" => asked'[t] = 0
      BY Zenon, <2>4, <3>1 DEF QueriesNumbered, BusTypes
    <3>6. \A q \in open_queries' : q <= bus_sent'
      BY <2>1, <2>4 DEF QueriesNumbered, BusTypes
    <3>7. \A a \in served' : a[1] <= bus_sent' /\ a[1] \notin open_queries'
      BY <2>1, <2>4 DEF QueriesNumbered, BusTypes
    <3> QED  BY Zenon, <2>1, <3>3, <3>4, <3>5, <3>6, <3>7 DEF QueriesNumbered
  <2> QED  BY Zenon, <2>3, <2>4 DEF SendMessage
<1>4. QueriesServedOnce'
  <2>1. served' = served /\ answers' = answers  BY DEF SendMessage
  <2>2. asked[s] = 0  BY DEF SendMessage, QueriesNumbered
  <2>3. \A t \in BusSenders : t # s => asked'[t] = asked[t]  BY DEF SendMessage, BusTypes
  <2>4. \A q \in answers : \E t \in BusSenders : asked'[t] = q
    BY Zenon, <2>2, <2>3 DEF QueriesNumbered, QueriesServedOnce
  <2> QED  BY Zenon, <2>1, <2>4 DEF QueriesServedOnce
<1> QED  BY Zenon, <1>1, <1>2, <1>3, <1>4

(* A request ends. *)
LEMMA EndRequestInv ==
    ASSUME BusInv, NEW s \in BusSenders, EndRequest(s)
    PROVE  BusInv'
<1> USE DEF BusInv
<1>1. BusTypes'  BY Zenon DEF EndRequest, BusTypes
<1>2. RoomForAll'
  <2>1. Checked' \subseteq Checked  BY DEF EndRequest, Checked, BusTypes
  <2>2. \A r \in BusReceivers : position'[r] >= position[r]  BY DEF EndRequest, BusTypes
  <2> QED  BY Zenon, <1>1, <2>1, <2>2, RoomKept DEF EndRequest
<1>3. QueriesNumbered'  BY DEF EndRequest, QueriesNumbered, BusTypes
<1>4. QueriesServedOnce'
  <2>1. served' = served /\ answers' = answers \ {asked[s]}  BY DEF EndRequest
  <2>2. \A t \in BusSenders : t # s => asked'[t] = asked[t]  BY DEF EndRequest, BusTypes
  <2>3. \A q \in answers' : \E t \in BusSenders : asked'[t] = q
    BY Zenon, <2>1, <2>2 DEF QueriesServedOnce
  <2> QED  BY Zenon, <2>1, <2>3 DEF QueriesServedOnce
<1> QED  BY Zenon, <1>1, <1>2, <1>3, <1>4

(* A message received leaves one more place. *)
LEMMA ReceiveMessageInv ==
    ASSUME BusInv, NEW r \in BusReceivers, ReceiveMessage(r)
    PROVE  BusInv'
<1> USE DEF BusInv
<1> DEFINE q == position[r] + 1
<1>0. position[r] \in Nat /\ q \in Nat /\ q # 0 /\ bus_sent \in Nat /\ q <= bus_sent
  BY DEF ReceiveMessage, BusTypes
<1>1. BusTypes'
  <2>1. position' \in [BusReceivers -> Nat]  BY <1>0 DEF ReceiveMessage, BusTypes
  <2>2. open_queries' \subseteq Nat  BY Zenon DEF ReceiveMessage, BusTypes
  <2>3. answers' \subseteq Nat  BY Zenon, <1>0 DEF ReceiveMessage, BusTypes
  <2>4. served' \subseteq Nat \X BusReceivers
    <3>1. served' \subseteq served \cup {<<q, r>>}  BY DEF ReceiveMessage
    <3>2. <<q, r>> \in Nat \X BusReceivers  BY <1>0
    <3> QED  BY Zenon, <3>1, <3>2 DEF BusTypes
  <2>5. UNCHANGED <<bus_sent, sender, asked>>  BY DEF ReceiveMessage
  <2> QED  BY Zenon, <2>1, <2>2, <2>3, <2>4, <2>5 DEF BusTypes
<1>2. RoomForAll'
  <2>1. Checked' \subseteq Checked  BY DEF ReceiveMessage, Checked
  <2>2. \A t \in BusReceivers : position'[t] >= position[t]
    BY <1>0 DEF ReceiveMessage, BusTypes
  <2> QED  BY Zenon, <1>1, <2>1, <2>2, RoomKept DEF ReceiveMessage
<1>3. /\ served' \subseteq served \cup {<<q, r>>}
      /\ q \notin open_queries => served' = served
      /\ q \in open_queries => <<q, r>> \in served'
      /\ served \subseteq served'
      /\ open_queries' = open_queries \ {q}
  BY Zenon DEF ReceiveMessage
<1>4. QueriesNumbered'
  <2>1. UNCHANGED <<bus_sent, asked, sender>>  BY DEF ReceiveMessage
  <2>2. \A a \in served' : a[1] <= bus_sent' /\ a[1] \notin open_queries'
    BY <1>0, <1>3, <2>1 DEF QueriesNumbered
  <2>3. \A x \in answers' : x # 0  BY <1>0 DEF ReceiveMessage, QueriesNumbered
  <2> QED  BY Zenon, <1>3, <2>1, <2>2, <2>3 DEF QueriesNumbered
<1>5. QueriesServedOnce'
  <2>1. \A a, b \in served' : a[1] = b[1] => a = b
    BY <1>3 DEF QueriesServedOnce, QueriesNumbered
  <2>2. \A x \in answers' : /\ \E t \in BusReceivers : <<x, t>> \in served'
                            /\ \E s \in BusSenders : asked'[s] = x
    BY Zenon, <1>3 DEF ReceiveMessage, QueriesServedOnce
  <2> QED  BY Zenon, <2>1, <2>2 DEF QueriesServedOnce
<1> QED  BY Zenon, <1>1, <1>2, <1>4, <1>5

(* Steps of others. *)
LEMMA BusStutter == BusInv /\ UNCHANGED busVars => BusInv'
BY DEF BusInv, BusTypes, RoomForAll, QueriesNumbered, QueriesServedOnce, Checked, busVars

(* Each step of the bus keeps the invariant. *)
LEMMA BusNextInv == BusInv /\ [BusNext]_busVars => BusInv'
BY Zenon, CheckLengthInv, WaitingInv, SendMessageInv, EndRequestInv, ReceiveMessageInv, BusStutter
   DEF BusNext

(* A bus in order has no receiver that lags. *)
LEMMA BusInvLag == BusInv => NobodyLags
<1> SUFFICES ASSUME BusInv, NEW r \in BusReceivers
             PROVE  bus_sent - position[r] <= CHANNEL_CAPACITY
  BY Zenon DEF NobodyLags
<1>1. bus_sent - position[r] + Cardinality(Checked)
            < CHANNEL_CAP_IF_WAITING + Cardinality(BusSenders)
  BY Zenon DEF BusInv, RoomForAll
<1>2. Cardinality(Checked) \in Nat /\ Cardinality(BusSenders) \in Nat
  BY Zenon, CheckedFinite DEF BusInv
<1>3. bus_sent \in Nat /\ position[r] \in Nat  BY DEF BusInv, BusTypes
<1> QED  BY <1>1, <1>2, <1>3, BufferSuffices

(* The bus loses no message by overwriting it, for any number of clients that fits the     *)
(* buffer of the channel (BusClientSender::send and its comment on the race).              *)
THEOREM NoMessageOverwritten == BusSpec => []NobodyLags
<1>1. BusInit => BusInv  BY BusInitInv
<1>2. BusInv /\ [BusNext]_busVars => BusInv'  BY BusNextInv
<1>3. BusInv => NobodyLags  BY BusInvLag
<1> QED  BY <1>1, <1>2, <1>3, PTL DEF BusSpec

(* A query is handled by one module only, and answered to the one that awaits it, for any  *)
(* number of clients (Query::take, handle_messages).                                       *)
THEOREM QueriesHaveOneHandler == BusSpec => []QueriesServedOnce
<1>1. BusInit => BusInv  BY BusInitInv
<1>2. BusInv /\ [BusNext]_busVars => BusInv'  BY BusNextInv
<1>3. BusInv => QueriesServedOnce  BY DEF BusInv
<1> QED  BY <1>1, <1>2, <1>3, PTL DEF BusSpec

---------------------------------------------------------------------------
(* A node that runs alone. *)

Stores == [has_done_genesis : BOOLEAN, last_hash : Nat, last_slot : Nat, last_cut : Nat]
Blocks == [slot : Nat, parent_hash : Nat, cut : Nat]

SingleTypes ==
    /\ store \in Stores /\ store_bin \in Stores
    /\ mempool_cut \in Nat /\ mempool_bin \in Nat
    /\ commits \in Seq(Blocks)
    /\ lost \in BOOLEAN

(* A store, in memory or on disk, describes one of the commits, or none yet. *)
Describes(s) ==
    /\ s.last_hash <= Len(commits)
    /\ s.last_hash > 0 => /\ s.last_slot = commits[s.last_hash].slot
                          /\ s.last_cut = commits[s.last_hash].cut

(* Nothing is committed before the genesis. *)
GenesisFirst(s) == ~s.has_done_genesis => s.last_cut = 0

(* The tips cover the cut of the store: in memory, and on disk except between the two saves. *)
TipsCover ==
    /\ store.last_cut <= mempool_cut
    /\ IF solo = "stopped" THEN store_bin.last_cut <= mempool_cut
       ELSE store_bin.last_cut <= mempool_bin
    /\ mempool_bin <= mempool_cut

SingleInv ==
    /\ SingleTypes
    /\ Describes(store) /\ Describes(store_bin)
    /\ ~lost => store.last_hash = Len(commits)
    /\ GenesisFirst(store) /\ GenesisFirst(store_bin)
    /\ solo = "genesis" => ~store.has_done_genesis
    /\ solo \in {"idle", "querying"} => store.has_done_genesis
    /\ ~torn => TipsCover
    /\ solo = "stopped" => store_bin = store
    /\ SingleChain

(* The lone node starts with nothing committed. *)
LEMMA SingleInitInv == SingleInit => SingleInv
<1> SUFFICES ASSUME SingleInit PROVE SingleInv
  BY Zenon
<1>1. /\ NewStore \in Stores /\ NewStore.last_hash = 0 /\ NewStore.last_cut = 0
      /\ ~NewStore.has_done_genesis
  BY Zenon DEF NewStore, Stores
<1>2. commits \in Seq(Blocks) /\ Len(commits) = 0 /\ DOMAIN commits = {}
  BY DEF SingleInit
<1>3. SingleTypes
  BY Zenon, <1>1, <1>2 DEF SingleInit, SingleTypes
<1>4. Describes(store) /\ Describes(store_bin) /\ SingleChain
  BY <1>1, <1>2 DEF SingleInit, Describes, SingleChain
<1>5. TipsCover
  BY <1>1 DEF SingleInit, TipsCover
<1>6. /\ GenesisFirst(store) /\ GenesisFirst(store_bin)
      /\ solo = "genesis" /\ ~store.has_done_genesis
  BY Zenon, <1>1 DEF SingleInit, GenesisFirst
<1>7. ~(solo \in {"idle", "querying"}) /\ solo # "stopped"
  BY DEF SingleInit
<1> QED
  BY Zenon, <1>1, <1>2, <1>3, <1>4, <1>5, <1>6, <1>7 DEF SingleInit, SingleInv

(* A commit on top of the store's: of the tips, or with the cut of the store once more. *)
LEMMA CommitInv ==
    ASSUME SingleInv, NEW cut \in {mempool_cut, store.last_cut}, Commit(cut),
           solo = "querying", solo' = "idle",
           UNCHANGED <<store_bin, mempool_cut, mempool_bin, lost, torn>>
    PROVE  SingleInv'
<1> DEFINE c == [slot |-> store.last_slot + 1, parent_hash |-> store.last_hash, cut |-> cut]
           n == Len(commits)
<1>1. /\ SingleTypes /\ Describes(store) /\ Describes(store_bin) /\ SingleChain
      /\ GenesisFirst(store_bin) /\ store.has_done_genesis = TRUE
      /\ ~torn => TipsCover
  BY DEF SingleInv, SingleTypes, Stores
<1>2. cut \in Nat
  BY <1>1 DEF SingleTypes, Stores
<1>3. ~torn => store.last_cut <= cut /\ cut <= mempool_cut
  BY <1>1, <1>2 DEF TipsCover, SingleTypes, Stores
<1>4. /\ c \in Blocks
      /\ n \in Nat
      /\ commits' = Append(commits, c)
      /\ Len(commits') = n + 1 /\ commits'[n + 1] = c
      /\ \A i \in 1..n : commits'[i] = commits[i]
      /\ commits' \in Seq(Blocks)
  BY <1>1, <1>2 DEF SingleTypes, Stores, Blocks, Commit
<1>5. /\ store' \in Stores /\ store'.has_done_genesis = TRUE
      /\ store'.last_hash = n + 1 /\ store'.last_slot = store.last_slot + 1
      /\ store'.last_cut = cut
  BY <1>1, <1>2 DEF SingleTypes, Stores, Commit
<1>6. SingleTypes'
  BY Zenon, <1>1, <1>4, <1>5 DEF SingleTypes
<1>7. Describes(store)'
  BY <1>2, <1>4, <1>5 DEF Describes
<1>8. Describes(store_bin)'
  BY <1>1, <1>4 DEF Describes, SingleTypes, Stores
<1>9. (~lost => store.last_hash = Len(commits))'
  BY Zenon, <1>4, <1>5
<1>10. (~torn => TipsCover)'
  BY <1>1, <1>3, <1>5 DEF TipsCover
<1>11. (GenesisFirst(store) /\ GenesisFirst(store_bin))'
  BY Zenon, <1>1, <1>5 DEF GenesisFirst
<1>12. SingleChain'
  <2> SUFFICES ASSUME NEW i \in DOMAIN commits'
               PROVE  /\ commits'[i].parent_hash < i
                      /\ ~lost' => commits'[i].parent_hash = i - 1
                      /\ commits'[i].parent_hash > 0 =>
                            /\ commits'[i].slot = commits'[commits'[i].parent_hash].slot + 1
                            /\ ~torn' => commits'[i].cut >= commits'[commits'[i].parent_hash].cut
    BY Zenon DEF SingleChain
  <2>1. CASE i = n + 1
    <3>1. /\ commits'[i].parent_hash = store.last_hash /\ commits'[i].slot = store.last_slot + 1
          /\ commits'[i].cut = cut
      BY <1>4, <2>1
    <3>2. store.last_hash \in Nat /\ store.last_hash <= n /\ (~lost => store.last_hash = n)
      BY Zenon, <1>1 DEF SingleInv, SingleTypes, Stores, Describes
    <3>3. store.last_hash > 0 => /\ commits'[store.last_hash] = commits[store.last_hash]
                                 /\ store.last_slot = commits[store.last_hash].slot
                                 /\ store.last_cut = commits[store.last_hash].cut
      BY <1>1, <1>4, <3>2 DEF Describes
    <3> QED
      BY <1>1, <1>2, <1>3, <1>4, <2>1, <3>1, <3>2, <3>3 DEF SingleTypes, Stores
  <2>2. CASE i # n + 1
    <3>1. i \in 1..n /\ commits[i] \in Blocks
      BY <1>1, <1>4, <2>2 DEF SingleTypes
    <3> DEFINE p == commits[i].parent_hash
    <3>2. p \in Nat /\ i \in DOMAIN commits
      BY <1>1, <3>1 DEF SingleTypes, Blocks
    <3>3. /\ p < i /\ (~lost => p = i - 1)
          /\ p > 0 => /\ commits[i].slot = commits[p].slot + 1
                      /\ ~torn => commits[i].cut >= commits[p].cut
      BY Zenon, <1>1, <3>2 DEF SingleChain
    <3>4. i \in Nat /\ i <= n
      BY <1>4, <3>1
    <3>5. commits'[i] = commits[i] /\ (p > 0 => commits'[p] = commits[p])
      BY <1>4, <3>1, <3>2, <3>3, <3>4
    <3> QED
      BY Zenon, <3>3, <3>5
  <2> QED
    BY Zenon, <2>1, <2>2
<1>13. /\ (solo = "genesis" => ~store.has_done_genesis)'
       /\ (solo \in {"idle", "querying"} => store.has_done_genesis)'
       /\ (solo = "stopped" => store_bin = store)'
  BY <1>5
<1> QED
  BY Zenon, <1>6, <1>7, <1>8, <1>9, <1>10, <1>11, <1>12, <1>13 DEF SingleInv

(* A process is started from a store on disk, with tips that cover it unless a save is lost. *)
LEMMA StartedInv ==
    ASSUME SingleInv, NEW tips \in Nat, Started(tips),
           ~torn' => ~torn /\ store_bin.last_cut <= tips,
           lost' \in BOOLEAN, ~lost' => ~lost /\ store_bin = store
    PROVE  SingleInv'
<1>1. /\ store' = store_bin /\ store_bin' = store_bin /\ commits' = commits
      /\ mempool_cut' = tips /\ mempool_bin' = tips
      /\ solo' = IF store_bin.has_done_genesis THEN "idle" ELSE "genesis"
  BY Zenon DEF Started
<1>2. SingleTypes'
  BY Zenon, <1>1 DEF SingleInv, SingleTypes
<1>3. (Describes(store) /\ Describes(store_bin))'
  BY Zenon, <1>1 DEF SingleInv, Describes
<1>4. (~lost => store.last_hash = Len(commits))'
  BY Zenon, <1>1 DEF SingleInv
<1>5. (GenesisFirst(store) /\ GenesisFirst(store_bin))'
  BY Zenon, <1>1 DEF SingleInv, GenesisFirst
<1>6. /\ (solo = "genesis" => ~store.has_done_genesis)'
      /\ (solo \in {"idle", "querying"} => store.has_done_genesis)'
      /\ (solo = "stopped" => store_bin = store)'
  BY <1>1
<1>7. (~torn => TipsCover)'
  BY <1>1 DEF TipsCover
<1>8. SingleChain'
  BY Zenon, <1>1 DEF SingleInv, SingleChain
<1> QED
  BY Zenon, <1>2, <1>3, <1>4, <1>5, <1>6, <1>7, <1>8 DEF SingleInv

(* Every step, a stop or a kill included, keeps the stores describing the chain. *)
LEMMA SingleNextInv == SingleInv /\ [SingleNext]_singleVars => SingleInv'
<1> SUFFICES ASSUME SingleInv, [SingleNext]_singleVars PROVE SingleInv'
  BY Zenon
<1> USE DEF SingleInv, SingleTypes, Describes, SingleChain, GenesisFirst, TipsCover
<1>1. CASE SoloGenesis
  BY Zenon, <1>1 DEF SoloGenesis
<1>2. CASE HandleSoloGenesisEvent
  <2>1. CASE UNCHANGED <<store, store_bin>> /\ solo' = "panicked"
    <3>1. solo # "stopped" /\ solo' # "stopped" /\ solo' # "genesis" /\ ~(solo' \in {"idle", "querying"})
      BY <1>2, <2>1 DEF HandleSoloGenesisEvent
    <3> QED
      BY Zenon, <1>2, <2>1, <3>1 DEF HandleSoloGenesisEvent
  <2>2. CASE store' = [store EXCEPT !.has_done_genesis = TRUE] /\ store_bin' = store' /\ solo' = "idle"
    <3>1. /\ store' \in Stores /\ store'.has_done_genesis = TRUE
          /\ store'.last_hash = store.last_hash /\ store'.last_slot = store.last_slot
          /\ store'.last_cut = store.last_cut
      BY Zenon, <2>2 DEF Stores
    <3>2. solo = "genesis" /\ store.last_cut = 0 /\ solo' # "stopped" /\ solo' # "genesis"
      BY <1>2, <2>2 DEF HandleSoloGenesisEvent
    <3>3. (~torn => TipsCover)'
      BY <1>2, <2>2, <3>1, <3>2 DEF HandleSoloGenesisEvent
    <3> HIDE DEF TipsCover
    <3> QED
      BY Zenon, <1>2, <2>2, <3>1, <3>2, <3>3 DEF HandleSoloGenesisEvent
  <2> QED
    BY Zenon, <1>2, <2>1, <2>2 DEF HandleSoloGenesisEvent
<1>3. CASE NewSlotTick
  <2>1. solo # "stopped" /\ solo' # "stopped" /\ solo' # "genesis" /\ store.has_done_genesis
    BY <1>3 DEF NewSlotTick
  <2> QED
    BY Zenon, <1>3, <2>1 DEF NewSlotTick
<1>4. CASE handle_new_slot_tick
  <2>1. PICK cut \in {mempool_cut, store.last_cut} : Commit(cut)
    BY Zenon, <1>4 DEF handle_new_slot_tick
  <2>2. UNCHANGED <<store_bin, mempool_cut, mempool_bin, lost, torn>> /\ solo = "querying" /\ solo' = "idle"
    BY Zenon, <1>4 DEF handle_new_slot_tick
  <2> HIDE DEF SingleInv
  <2> QED
    BY Zenon, <2>1, <2>2, CommitInv
<1>5. CASE MempoolGrows
  BY <1>5 DEF MempoolGrows, Stores
<1>6. CASE ShutDown
  BY Zenon, <1>6 DEF ShutDown
<1>7. CASE SoloStops
  <2>1. solo # "stopped" /\ solo' = "stopped" /\ solo' # "genesis" /\ ~(solo' \in {"idle", "querying"})
    BY <1>7 DEF SoloStops
  <2> QED
    BY Zenon, <1>7, <2>1 DEF SoloStops
<1>8. CASE MempoolStops
  <2>1. Started(mempool_cut) /\ mempool_cut \in Nat /\ lost' = lost /\ torn' = torn
    BY Zenon, <1>8 DEF MempoolStops
  <2>2. ~torn => store_bin.last_cut <= mempool_cut
    BY <1>8 DEF MempoolStops
  <2>3. lost \in BOOLEAN /\ store_bin = store
    BY Zenon, <1>8 DEF MempoolStops
  <2> HIDE DEF SingleInv
  <2> QED
    BY Zenon, <2>1, <2>2, <2>3, StartedInv
<1>9. CASE GivenUp
  <2>1. /\ Started(mempool_cut) /\ mempool_cut \in Nat /\ torn' = torn /\ solo # "stopped"
        /\ lost' = (lost \/ store # store_bin)
    BY Zenon, <1>9 DEF GivenUp
  <2>2. ~torn => store_bin.last_cut <= mempool_cut
    BY <2>1 DEF Stores
  <2>3. lost' \in BOOLEAN /\ (~lost' => ~lost /\ store_bin = store)
    BY <2>1
  <2> HIDE DEF SingleInv
  <2> QED
    BY Zenon, <2>1, <2>2, <2>3, StartedInv
<1>10. CASE Killed
  <2>1. /\ Started(mempool_bin) /\ mempool_bin \in Nat
        /\ lost' = (lost \/ store # store_bin) /\ torn' = (torn \/ solo = "stopped")
    BY Zenon, <1>10 DEF Killed
  <2>2. ~torn' => ~torn /\ store_bin.last_cut <= mempool_bin
    BY <2>1
  <2>3. lost' \in BOOLEAN /\ (~lost' => ~lost /\ store_bin = store)
    BY <2>1
  <2> HIDE DEF SingleInv
  <2> QED
    BY Zenon, <2>1, <2>2, <2>3, StartedInv
<1>11. CASE UNCHANGED singleVars
  BY Zenon, <1>11 DEF singleVars
<1> QED
  BY Zenon, <1>1, <1>2, <1>3, <1>4, <1>5, <1>6, <1>7, <1>8, <1>9, <1>10, <1>11 DEF SingleNext

(* What the lone node commits is one chain of consecutive slots and growing cuts: only a      *)
(* process that ended before its store was saved makes it build on an older block, and only   *)
(* one that ended between the two saves lets a cut shrink (handle_new_slot_tick, persist).    *)
THEOREM LoneNodeKeepsOneChain == SingleSpec => []SingleChain
<1>1. SingleInv => SingleChain
  BY Zenon DEF SingleInv
<1> QED
  BY SingleInitInv, SingleNextInv, <1>1, PTL DEF SingleSpec

---------------------------------------------------------------------------
(* The modules of a process. *)

ModuleTypes ==
    /\ started_modules \in Seq(Modules)
    /\ shut_modules \subseteq Modules
    /\ task \in [Modules -> {"running", "stopping", "done"}]
    /\ loop \in {"watching", "signalled", "unsubscribed", "closing", "exited"}
    /\ completed \in Seq(Modules)
    /\ triggers \in Nat

(* The place of a module in the order of their start. *)
Before(m, other) ==
    \E i, j \in DOMAIN ModuleOrder : m = ModuleOrder[i] /\ other = ModuleOrder[j] /\ i < j
InOrder(started) ==
    \A i, j \in 1..Len(started) : i < j => Before(started[i], started[j])
InList(started, m) == \E i \in 1..Len(started) : started[i] = m

(* Whatever ends and however often: the modules still listed are in the order of their      *)
(* start, the running ones are among them, and only ended ones are reported or counted.     *)
ListInv ==
    /\ InOrder(started_modules)
    /\ \A m \in Modules : task[m] = "running" => InList(started_modules, m)
    /\ \A i \in 1..Len(completed) : task[completed[i]] = "done"
    /\ \A m \in shut_modules : task[m] = "done"

NothingEnded ==
    /\ started_modules = ModuleOrder /\ completed = <<>>
    /\ loop = "watching"
    /\ \A m \in Modules : task[m] = "running"

Ended == \A m \in Modules : task[m] = "done"
NoneStopping == \A m \in Modules : task[m] # "stopping"

(* When one thing has ended the process, the modules end one at a time. *)
OneAtATime ==
    /\ \A m, other \in Modules : task[m] = "stopping" /\ task[other] = "stopping" => m = other
    /\ Len(completed) <= 1
    /\ completed # <<>> => NoneStopping
    /\ loop = "signalled" =>
            /\ completed = <<>>
            /\ started_modules = <<>> => Ended
            /\ started_modules # <<>> =>
                    started_modules = ModuleOrder /\ \A m \in Modules : task[m] = "running"
    /\ loop = "unsubscribed" => completed = <<>>
    /\ loop = "exited" => Ended

ModulesInv ==
    /\ ModuleTypes /\ ListInv
    /\ triggers = 0 => NothingEnded
    /\ triggers = 1 /\ Len(ModuleOrder) # 1 => OneAtATime

(* A module is not before itself: names are different. *)
LEMMA BeforeStrict ==
    ASSUME NEW a, NEW b, Before(a, b)
    PROVE  ~Before(b, a) /\ a # b
<1>1. PICK i \in DOMAIN ModuleOrder, j \in DOMAIN ModuleOrder :
            a = ModuleOrder[i] /\ b = ModuleOrder[j] /\ i < j
  BY Zenon DEF Before
<1>2. DOMAIN ModuleOrder \subseteq Nat
  BY ModuleNamesAssumption
<1>3. a # b
  BY <1>1, <1>2, ModuleNamesAssumption
<1>4. ASSUME Before(b, a) PROVE FALSE
  <2>1. PICK k \in DOMAIN ModuleOrder, l \in DOMAIN ModuleOrder :
            b = ModuleOrder[k] /\ a = ModuleOrder[l] /\ k < l
    BY Zenon, <1>4 DEF Before
  <2>2. k = j /\ l = i
    BY Zenon, <1>1, <2>1, ModuleNamesAssumption
  <2> QED
    BY <1>1, <1>2, <2>1, <2>2
<1> QED
  BY Zenon, <1>3, <1>4

(* What retain leaves. *)
LEMMA RetainedFact ==
    ASSUME NEW q \in Seq(Modules), InOrder(q), NEW m
    PROVE  /\ Retained(q, m) \in Seq(Modules)
           /\ InOrder(Retained(q, m))
           /\ \A x : InList(Retained(q, m), x) <=> InList(q, x) /\ x # m
<1>0. Len(q) \in Nat /\ \A i \in 1..Len(q) : q[i] \in Modules
  OBVIOUS
<1>1. CASE \E i \in 1..Len(q) : q[i] = m
  <2> DEFINE at == CHOOSE i \in 1..Len(q) : q[i] = m
             Old(i) == IF i < at THEN i ELSE i + 1
             w == [i \in 1..(Len(q) - 1) |-> IF i < at THEN q[i] ELSE q[i + 1]]
  <2>1. at \in 1..Len(q) /\ q[at] = m
    BY Zenon, <1>1
  <2>2. Retained(q, m) = w
    BY Zenon, <1>1 DEF Retained
  <2> HIDE DEF at
  <2>3. Len(q) - 1 \in Nat
    BY <1>0, <2>1
  <2>4. \A i \in 1..(Len(q) - 1) :
            w[i] = q[Old(i)] /\ Old(i) \in 1..Len(q) /\ Old(i) # at
    BY <1>0, <2>1
  <2>5. w \in [1..(Len(q) - 1) -> Modules]
    BY <1>0, <2>1
  <2>6. \A i, j \in 1..(Len(q) - 1) : i < j => Old(i) < Old(j)
    BY <1>0, <2>1
  <2>7. \A k \in 1..Len(q) : k # at => \E i \in 1..(Len(q) - 1) : k = Old(i)
    <3> SUFFICES ASSUME NEW k \in 1..Len(q), k # at
                 PROVE  \E i \in 1..(Len(q) - 1) : k = Old(i)
      BY Zenon
    <3>1. CASE k < at
      <4>1. k \in 1..(Len(q) - 1) /\ k = Old(k)
        BY <1>0, <2>1, <3>1
      <4> QED
        BY Zenon, <4>1
    <3>2. CASE k > at
      <4>1. k - 1 \in 1..(Len(q) - 1) /\ k = Old(k - 1)
        BY <1>0, <2>1, <3>2
      <4> QED
        BY Zenon, <4>1
    <3> QED
      BY <1>0, <2>1, <3>1, <3>2
  <2> HIDE DEF w, Old
  <2>8. w \in Seq(Modules) /\ Len(w) = Len(q) - 1
    BY <2>3, <2>5
  <2>9. InOrder(w)
    BY Zenon, <2>4, <2>6, <2>8 DEF InOrder
  <2>10. \A k \in 1..Len(q) : k # at => q[k] # m
    <3> SUFFICES ASSUME NEW k \in 1..Len(q), k # at PROVE q[k] # m
      BY Zenon
    <3>1. k < at \/ at < k
      BY <1>0, <2>1
    <3>2. Before(q[k], q[at]) \/ Before(q[at], q[k])
      BY Zenon, <2>1, <3>1 DEF InOrder
    <3> QED
      BY Zenon, <2>1, <3>2, BeforeStrict
  <2>11. \A x : InList(w, x) <=> InList(q, x) /\ x # m
    <3> TAKE x
    <3>1. ASSUME InList(w, x) PROVE InList(q, x) /\ x # m
      BY Zenon, <2>4, <2>8, <2>10, <3>1 DEF InList
    <3>2. ASSUME InList(q, x), x # m PROVE InList(w, x)
      BY ZenonT(40), <2>1, <2>4, <2>7, <2>8, <3>2 DEF InList
    <3> QED
      BY Zenon, <3>1, <3>2
  <2> QED
    BY Zenon, <2>2, <2>8, <2>9, <2>11
<1>2. CASE ~\E i \in 1..Len(q) : q[i] = m
  <2>1. Retained(q, m) = q
    BY Zenon, <1>2 DEF Retained
  <2> QED
    BY Zenon, <1>2, <2>1 DEF InList
<1> QED
  BY Zenon, <1>1, <1>2

(* The modules but the last one. *)
LEMMA FrontFact ==
    ASSUME NEW q \in Seq(Modules), q # <<>>, InOrder(q)
    PROVE  LET rest == SubSeq(q, 1, Len(q) - 1)
           IN  /\ q[Len(q)] \in Modules /\ InList(q, q[Len(q)])
               /\ rest \in Seq(Modules)
               /\ InOrder(rest)
               /\ \A x : InList(q, x) /\ x # q[Len(q)] => InList(rest, x)
               /\ Len(q) # 1 => rest # <<>>
<1> DEFINE rest == SubSeq(q, 1, Len(q) - 1)
<1>0. Len(q) \in Nat /\ Len(q) # 0
  OBVIOUS
<1>1. Len(q) \in Nat /\ Len(q) >= 1 /\ q[Len(q)] \in Modules
  BY <1>0
<1>2. rest \in Seq(Modules) /\ Len(rest) = Len(q) - 1 /\ \A i \in 1..Len(rest) : rest[i] = q[i]
  <2> DEFINE k == Len(q) - 1
  <2>1. 1 \in Int /\ k \in Int /\ k >= 0 /\ \A i \in 1..k : q[i] \in Modules
    BY <1>1
  <2> HIDE DEF k
  <2>2. /\ SubSeq(q, 1, k) \in Seq(Modules)
        /\ Len(SubSeq(q, 1, k)) = IF 1 <= k THEN k - 1 + 1 ELSE 0
        /\ \A i \in 1..(k - 1 + 1) : SubSeq(q, 1, k)[i] = q[1 + i - 1]
    BY <2>1, SubSeqProperties
  <2>3. Len(SubSeq(q, 1, k)) = k /\ \A i \in 1..k : SubSeq(q, 1, k)[i] = q[i]
    BY <2>1, <2>2
  <2> QED
    BY Zenon, <2>2, <2>3 DEF k
<1> HIDE DEF rest
<1>3. InOrder(rest)
  BY <1>1, <1>2 DEF InOrder
<1>4. InList(q, q[Len(q)])
  BY <1>1 DEF InList
<1>5. \A x : InList(q, x) /\ x # q[Len(q)] => InList(rest, x)
  BY <1>1, <1>2 DEF InList
<1>6. Len(q) # 1 => rest # <<>>
  BY <1>1, <1>2
<1> QED
  BY Zenon, <1>1, <1>2, <1>3, <1>4, <1>5, <1>6 DEF rest

(* Asking the next module to stop: what is left, and what changes for whom. *)
LEMMA NextModuleFact ==
    ASSUME ModuleTypes, NEW q \in Seq(Modules), NEW shut \in SUBSET Modules,
           InOrder(q), \A m \in Modules : task[m] = "running" => InList(q, m),
           \A m \in shut : task[m] = "done",
           shutdown_next_module(q, shut)
    PROVE  /\ started_modules' \in Seq(Modules)
           /\ InOrder(started_modules')
           /\ task' \in [Modules -> {"running", "stopping", "done"}]
           /\ \A m \in Modules : task'[m] = "running" => InList(started_modules', m)
           /\ \A m \in Modules : task'[m] = task[m] \/ (/\ task[m] = "running"
                                                        /\ task'[m] = "stopping"
                                                        /\ q # <<>> /\ m = q[Len(q)])
           /\ q # <<>> /\ Len(q) # 1 => started_modules' # <<>>
           /\ q = <<>> => started_modules' = <<>> /\ task' = task
<1>1. CASE q = <<>>
  BY Zenon, <1>1 DEF shutdown_next_module, ModuleTypes
<1>2. CASE q # <<>>
  <2> DEFINE m == q[Len(q)]
             rest == SubSeq(q, 1, Len(q) - 1)
  <2>1. /\ m \in Modules /\ InList(q, m) /\ rest \in Seq(Modules) /\ InOrder(rest)
        /\ \A x : InList(q, x) /\ x # m => InList(rest, x)
        /\ Len(q) # 1 => rest # <<>>
    BY Zenon, <1>2, FrontFact
  <2>2. /\ started_modules' = rest
        /\ task' = IF m \notin shut /\ task[m] = "running"
                   THEN [task EXCEPT ![m] = "stopping"] ELSE task
    BY Zenon, <1>2 DEF shutdown_next_module
  <2> HIDE DEF m, rest
  <2>3. CASE task[m] = "running"
    <3>1. task' = [task EXCEPT ![m] = "stopping"]
      BY Zenon, <2>2, <2>3
    <3>2. /\ task' \in [Modules -> {"running", "stopping", "done"}]
          /\ task'[m] = "stopping" /\ \A x \in Modules : x # m => task'[x] = task[x]
      BY Zenon, <2>1, <3>1 DEF ModuleTypes
    <3> QED
      BY Zenon, <1>2, <2>1, <2>2, <2>3, <3>2 DEF m
  <2>4. CASE task[m] # "running"
    <3>1. task' = task
      BY Zenon, <2>2, <2>4
    <3> QED
      BY Zenon, <1>2, <2>1, <2>2, <2>4, <3>1 DEF ModuleTypes
  <2> QED
    BY Zenon, <2>3, <2>4
<1> QED
  BY Zenon, <1>1, <1>2

(* Nothing runs at the start. *)
LEMMA ModulesInitInv == ModulesInit => ModulesInv
<1> SUFFICES ASSUME ModulesInit PROVE ModulesInv
  BY Zenon
<1>1. ModuleOrder \in Seq(Modules) /\ Len(ModuleOrder) \in Nat
      /\ DOMAIN ModuleOrder = 1..Len(ModuleOrder)
  BY ModuleNamesAssumption DEF Modules
<1>2. ModuleTypes
  BY <1>1 DEF ModulesInit, ModuleTypes
<1>3. InOrder(ModuleOrder)
  BY Zenon, <1>1 DEF InOrder, Before
<1>4. \A m \in Modules : InList(ModuleOrder, m)
  BY Zenon, <1>1 DEF Modules, InList, ToSet
<1>5. ListInv
  BY <1>3, <1>4 DEF ModulesInit, ListInv
<1>6. triggers = 0 /\ NothingEnded
  BY Zenon DEF ModulesInit, NothingEnded
<1> QED
  BY <1>2, <1>5, <1>6 DEF ModulesInv

(* The end of a module. *)
LEMMA CompleteInv ==
    ASSUME ModulesInv, NEW m \in Modules, NEW persisted \in BOOLEAN, Complete(m, persisted),
           loop # "exited",
           \/ task[m] = "running" /\ triggers' = triggers + 1
           \/ task[m] = "stopping" /\ triggers' = triggers
    PROVE  ModulesInv'
<1>0. ModuleTypes /\ ListInv
  BY Zenon DEF ModulesInv
<1>1. /\ task' \in [Modules -> {"running", "stopping", "done"}]
      /\ task'[m] = "done" /\ \A x \in Modules : x # m => task'[x] = task[x]
  BY Zenon, <1>0 DEF Complete, ModuleTypes
<1>2. completed' = completed \/ completed' = Append(completed, m)
  BY Zenon DEF Complete
<1>3. /\ completed' \in Seq(Modules) /\ Len(completed') \in Nat /\ Len(completed) \in Nat
      /\ \A i \in 1..Len(completed') : completed'[i] = m \/ \E j \in 1..Len(completed) :
                                            completed'[i] = completed[j]
      /\ Len(completed') <= Len(completed) + 1
  <2>1. CASE completed' = completed
    BY <1>0, <2>1 DEF ModuleTypes
  <2>2. CASE completed' = Append(completed, m)
    <3>1. completed \in Seq(Modules) /\ Len(completed) \in Nat
      BY <1>0 DEF ModuleTypes
    <3> QED
      BY <2>2, <3>1
  <2> QED
    BY Zenon, <1>2, <2>1, <2>2
<1>4. UNCHANGED <<started_modules, shut_modules, loop>>
  BY Zenon DEF Complete
<1>5. ModuleTypes'
  BY <1>0, <1>1, <1>3, <1>4 DEF ModuleTypes
<1>6. ListInv'
  <2>1. \A i \in 1..Len(completed) : completed[i] \in Modules
    BY <1>0 DEF ModuleTypes
  <2> QED
    BY Zenon, <1>0, <1>1, <1>3, <1>4, <2>1 DEF ListInv, ModuleTypes
<1>7. triggers' # 0
  BY <1>0 DEF ModulesInv, NothingEnded, ModuleTypes
<1>8. ASSUME triggers' = 1, Len(ModuleOrder) # 1 PROVE OneAtATime'
  <2>1. CASE task[m] = "running" /\ triggers' = triggers + 1
    <3>1. triggers = 0 /\ NothingEnded
      BY <1>0, <1>8, <2>1 DEF ModulesInv, ModuleTypes
    <3>2. Len(completed') <= 1 /\ loop' = "watching"
      BY <1>3, <1>4, <3>1 DEF NothingEnded
    <3>3. NoneStopping'
      BY Zenon, <1>1, <3>1 DEF NothingEnded, NoneStopping
    <3> QED
      BY Zenon, <3>2, <3>3 DEF OneAtATime, NoneStopping
  <2>2. CASE task[m] = "stopping" /\ triggers' = triggers
    <3>1. OneAtATime
      BY Zenon, <1>8, <2>2 DEF ModulesInv
    <3>2. NoneStopping'
      BY Zenon, <1>1, <2>2, <3>1 DEF OneAtATime, NoneStopping
    <3>3. completed = <<>> /\ Len(completed) = 0
      BY Zenon, <2>2, <3>1 DEF OneAtATime, NoneStopping
    <3>4. Len(completed') <= 1
      BY <1>3, <3>3
    <3>5. loop # "signalled"
      <4>1. ASSUME loop = "signalled" PROVE FALSE
        <5>1. task[m] = "done" \/ task[m] = "running"
          BY Zenon, <3>1, <4>1 DEF OneAtATime, Ended
        <5> QED
          BY Zenon, <2>2, <5>1
      <4> QED
        BY Zenon, <4>1
    <3>6. loop = "unsubscribed" => completed' = <<>>
      BY Zenon, <3>3 DEF Complete
    <3> QED
      BY Zenon, <1>4, <3>2, <3>4, <3>5, <3>6 DEF OneAtATime, NoneStopping
  <2> QED
    BY Zenon, <2>1, <2>2
<1> QED
  BY Zenon, <1>5, <1>6, <1>7, <1>8 DEF ModulesInv

(* The next module is asked to stop: by the timer, by a signal, or when one has ended. *)
LEMMA AskedInv ==
    ASSUME ModulesInv, NEW q \in Seq(Modules), NEW shut \in SUBSET Modules,
           InOrder(q), \A m \in Modules : task[m] = "running" => InList(q, m),
           \A m \in shut : task[m] = "done",
           shutdown_next_module(q, shut),
           shut_modules' = shut, triggers' = triggers, triggers # 0,
           completed' \in Seq(Modules),
           \A i \in 1..Len(completed') : task[completed'[i]] = "done",
           loop' \in {"watching", "signalled", "unsubscribed", "closing", "exited"}
    PROVE  /\ ModuleTypes' /\ ListInv'
           /\ (triggers' = 1 /\ Len(ModuleOrder) # 1 => OneAtATime') => ModulesInv'
<1>0. ModuleTypes /\ ListInv
  BY Zenon DEF ModulesInv
<1>1. /\ started_modules' \in Seq(Modules) /\ InOrder(started_modules')
      /\ task' \in [Modules -> {"running", "stopping", "done"}]
      /\ \A m \in Modules : task'[m] = "running" => InList(started_modules', m)
      /\ \A m \in Modules : task[m] = "done" => task'[m] = "done"
  BY Zenon, <1>0, NextModuleFact
<1>2. ModuleTypes'
  BY Zenon, <1>0, <1>1 DEF ModuleTypes
<1>3. ListInv'
  BY <1>1 DEF ListInv
<1> QED
  BY Zenon, <1>0, <1>2, <1>3 DEF ModulesInv, ModuleTypes

(* A module reports that it has stopped. *)
LEMMA HandleCompletedInv ==
    ASSUME ModulesInv, HandleShutdownCompleted
    PROVE  ModulesInv'
<1> DEFINE m == Head(completed)
           q == Retained(started_modules, m)
           shut == shut_modules \cup {m}
<1>0. ModuleTypes /\ ListInv /\ loop \in {"watching", "closing"}
  BY Zenon DEF ModulesInv, HandleShutdownCompleted
<1>1. /\ m \in Modules /\ m = completed[1] /\ Len(completed) \in Nat /\ Len(completed) >= 1
      /\ Tail(completed) \in Seq(Modules) /\ Len(Tail(completed)) = Len(completed) - 1
      /\ \A i \in 1..Len(Tail(completed)) : Tail(completed)[i] = completed[i + 1]
  <2>1. completed \in Seq(Modules) /\ completed # <<>>
    BY Zenon, <1>0 DEF ModuleTypes, HandleShutdownCompleted
  <2>2. Len(completed) \in Nat /\ Len(completed) # 0
    BY <2>1
  <2> QED
    BY <2>1, <2>2, HeadTailProperties
<1>2. /\ q \in Seq(Modules) /\ InOrder(q)
      /\ \A x : InList(q, x) <=> InList(started_modules, x) /\ x # m
  BY Zenon, <1>0, RetainedFact DEF ModuleTypes, ListInv
<1>3. task[m] = "done"
  BY <1>0, <1>1 DEF ListInv
<1>4. \A x \in Modules : task[x] = "running" => InList(q, x)
  BY Zenon, <1>0, <1>2, <1>3 DEF ListInv
<1>5. shut \in SUBSET Modules /\ \A x \in shut : task[x] = "done"
  BY Zenon, <1>0, <1>1, <1>3 DEF ModuleTypes, ListInv
<1>6. triggers # 0 /\ triggers' = triggers /\ shut_modules' = shut
  <2>1. completed # <<>>
    BY Zenon DEF HandleShutdownCompleted
  <2> QED
    BY Zenon, <2>1 DEF ModulesInv, NothingEnded, HandleShutdownCompleted
<1>7. \A i \in 1..Len(Tail(completed)) : task[Tail(completed)[i]] = "done"
  <2>1. \A i \in 1..Len(completed) : task[completed[i]] = "done"
    BY Zenon, <1>0 DEF ListInv
  <2> QED
    BY <1>1, <2>1
<1>8. triggers = 1 /\ Len(ModuleOrder) # 1 =>
            OneAtATime /\ Len(completed) = 1 /\ NoneStopping
  <2>1. completed # <<>>
    BY Zenon DEF HandleShutdownCompleted
  <2> QED
    BY <1>1, <2>1 DEF ModulesInv, OneAtATime
<1>9. CASE q = <<>> /\ started_modules' = q /\ LeaveLoop /\ UNCHANGED task
  <2>1. /\ completed' = <<>>
        /\ loop' = IF loop = "watching" THEN "signalled" ELSE "exited"
    BY Zenon, <1>9 DEF LeaveLoop
  <2>2. \A x \in Modules : task[x] # "running"
    BY <1>4, <1>9 DEF InList
  <2>3. ModuleTypes'
    BY Zenon, <1>0, <1>2, <1>5, <1>6, <1>9, <2>1 DEF ModuleTypes
  <2>4. ListInv'
    BY <1>2, <1>5, <1>6, <1>9, <2>1, <2>2 DEF ListInv
  <2>5. ASSUME triggers' = 1, Len(ModuleOrder) # 1 PROVE OneAtATime'
    <3>1. NoneStopping /\ NoneStopping'
      BY Zenon, <1>6, <1>8, <1>9, <2>5 DEF NoneStopping
    <3>2. Ended /\ Ended'
      BY Zenon, <1>0, <1>9, <2>2, <3>1 DEF NoneStopping, Ended, ModuleTypes
    <3>3. Len(completed') <= 1 /\ started_modules' = <<>>
          /\ loop' \in {"signalled", "exited"}
      BY <1>9, <2>1
    <3> QED
      BY Zenon, <2>1, <3>1, <3>2, <3>3 DEF OneAtATime, NoneStopping
  <2> QED
    BY Zenon, <1>6, <2>3, <2>4, <2>5 DEF ModulesInv
<1>10. CASE /\ q # <<>> /\ shutdown_next_module(q, shut)
            /\ completed' = Tail(completed) /\ UNCHANGED loop
  <2> HIDE DEF m, q, shut
  <2>1. (triggers' = 1 /\ Len(ModuleOrder) # 1 => OneAtATime') => ModulesInv'
    BY Zenon, <1>0, <1>1, <1>2, <1>4, <1>5, <1>6, <1>7, <1>10, AskedInv
  <2>2. ASSUME triggers' = 1, Len(ModuleOrder) # 1 PROVE OneAtATime'
    <3>1. OneAtATime /\ Len(completed) = 1 /\ NoneStopping
      BY Zenon, <1>6, <1>8, <2>2
    <3>2. completed' = <<>> /\ Len(completed') = 0
      BY <1>1, <1>10, <3>1
    <3>3. \A x \in Modules : task'[x] = task[x] \/ (/\ task[x] = "running"
                                                    /\ task'[x] = "stopping"
                                                    /\ x = q[Len(q)])
      BY Zenon, <1>0, <1>2, <1>4, <1>5, <1>10, NextModuleFact
    <3>4. \A x, other \in Modules : task'[x] = "stopping" /\ task'[other] = "stopping" => x = other
      BY Zenon, <3>1, <3>3 DEF NoneStopping
    <3> QED
      BY <1>0, <1>10, <3>2, <3>4 DEF OneAtATime
  <2> QED
    BY Zenon, <2>1, <2>2
<1> QED
  BY Zenon, <1>9, <1>10 DEF HandleShutdownCompleted

(* The time given to the module being stopped runs out. *)
LEMMA LoopTimerInv ==
    ASSUME ModulesInv, LoopTimer
    PROVE  ModulesInv'
<1>0. ModuleTypes /\ ListInv /\ completed = <<>> /\ NoneStopping
  BY Zenon DEF ModulesInv, LoopTimer, NoneStopping
<1>1. triggers # 0
  BY Zenon, <1>0 DEF ModulesInv, NothingEnded, ListInv, ModuleTypes, LoopTimer
<1>2. /\ started_modules \in Seq(Modules) /\ shut_modules \in SUBSET Modules
      /\ InOrder(started_modules)
      /\ \A m \in Modules : task[m] = "running" => InList(started_modules, m)
      /\ \A m \in shut_modules : task[m] = "done"
      /\ shutdown_next_module(started_modules, shut_modules)
  BY Zenon, <1>0 DEF ModuleTypes, ListInv, LoopTimer
<1>3. UNCHANGED <<shut_modules, loop, completed, triggers>>
  BY Zenon DEF LoopTimer
<1>4. (triggers' = 1 /\ Len(ModuleOrder) # 1 => OneAtATime') => ModulesInv'
  BY <1>0, <1>1, <1>2, <1>3, AskedInv DEF ModuleTypes
<1>5. \A m \in Modules : task'[m] = task[m] \/ m = started_modules[Len(started_modules)]
  BY Zenon, <1>0, <1>2, NextModuleFact
<1>6. \A m, other \in Modules : task'[m] = "stopping" /\ task'[other] = "stopping" => m = other
  BY Zenon, <1>0, <1>5 DEF NoneStopping
<1>7. loop \in {"watching", "closing"}
  BY Zenon DEF LoopTimer
<1> QED
  BY <1>0, <1>3, <1>4, <1>6, <1>7 DEF OneAtATime

(* A signal reaches the process. *)
LEMMA SignalInv ==
    ASSUME ModulesInv, Signal
    PROVE  ModulesInv'
<1>0. ModuleTypes /\ ListInv
  BY Zenon DEF ModulesInv
<1>1. /\ completed' = <<>> /\ loop' = "signalled" /\ triggers' = triggers + 1
      /\ UNCHANGED <<started_modules, shut_modules, task>>
  BY Zenon DEF Signal, LeaveLoop
<1>2. ModuleTypes' /\ ListInv' /\ triggers' # 0
  BY <1>0, <1>1 DEF ModuleTypes, ListInv
<1>3. ASSUME triggers' = 1, Len(ModuleOrder) # 1 PROVE OneAtATime'
  <2>1. NothingEnded
    BY <1>0, <1>1, <1>3 DEF ModulesInv, ModuleTypes
  <2>2. ModuleOrder = <<>> => Modules = {}
    BY DEF Modules, ToSet
  <2> QED
    BY <1>1, <2>1, <2>2 DEF OneAtATime, NothingEnded, Ended
<1> QED
  BY Zenon, <1>2, <1>3 DEF ModulesInv

(* The handler stops the modules one after the other. *)
LEMMA ShutdownModulesInv ==
    ASSUME ModulesInv, shutdown_modules
    PROVE  ModulesInv'
<1>0. ModuleTypes /\ ListInv /\ loop = "signalled"
  BY Zenon DEF ModulesInv, shutdown_modules
<1>1. triggers # 0
  BY Zenon, <1>0 DEF ModulesInv, NothingEnded
<1>2. /\ started_modules \in Seq(Modules) /\ shut_modules \in SUBSET Modules
      /\ InOrder(started_modules)
      /\ \A m \in Modules : task[m] = "running" => InList(started_modules, m)
      /\ \A m \in shut_modules : task[m] = "done"
      /\ shutdown_next_module(started_modules, shut_modules)
  BY Zenon, <1>0 DEF ModuleTypes, ListInv, shutdown_modules
<1>3. /\ UNCHANGED <<shut_modules, completed, triggers>>
      /\ loop' = IF started_modules' = <<>> THEN "exited" ELSE "unsubscribed"
  BY Zenon DEF shutdown_modules
<1>4. completed' \in Seq(Modules) /\ \A i \in 1..Len(completed') : task[completed'[i]] = "done"
  BY Zenon, <1>0, <1>3 DEF ModuleTypes, ListInv
<1>5. (triggers' = 1 /\ Len(ModuleOrder) # 1 => OneAtATime') => ModulesInv'
  BY Zenon, <1>1, <1>2, <1>3, <1>4, AskedInv
<1>6. ASSUME triggers' = 1, Len(ModuleOrder) # 1 PROVE OneAtATime'
  <2>1. /\ completed = <<>>
        /\ started_modules = <<>> => Ended
        /\ started_modules # <<>> =>
                started_modules = ModuleOrder /\ \A m \in Modules : task[m] = "running"
    BY Zenon, <1>0, <1>3, <1>6 DEF ModulesInv, OneAtATime
  <2>2. CASE started_modules = <<>>
    <3>1. started_modules' = <<>> /\ task' = task
      BY Zenon, <1>0, <1>2, <2>2, NextModuleFact
    <3>2. Ended /\ Ended'
      BY Zenon, <2>1, <2>2, <3>1 DEF Ended
    <3> QED
      BY <1>3, <2>1, <3>1, <3>2 DEF OneAtATime, Ended, NoneStopping
  <2>3. CASE started_modules # <<>>
    <3>1. started_modules' # <<>>
      BY Zenon, <1>0, <1>2, <1>6, <2>1, <2>3, NextModuleFact
    <3>2. \A m \in Modules : task'[m] = task[m] \/ m = started_modules[Len(started_modules)]
      BY Zenon, <1>0, <1>2, NextModuleFact
    <3>3. \A m, other \in Modules :
            task'[m] = "stopping" /\ task'[other] = "stopping" => m = other
      BY Zenon, <2>1, <2>3, <3>2
    <3> QED
      BY <1>3, <2>1, <3>1, <3>3 DEF OneAtATime
  <2> QED
    BY Zenon, <2>2, <2>3
<1> QED
  BY Zenon, <1>5, <1>6

(* Every step of the handler and of the modules preserves the invariant, *)
LEMMA ModulesNextInv ==
    ASSUME ModulesInv, [ModulesNext]_moduleVars
    PROVE  ModulesInv'
<1>1. ASSUME NEW m \in Modules, EndsByItself(m), loop # "exited" PROVE ModulesInv'
  BY Zenon, <1>1, CompleteInv DEF EndsByItself
<1>2. ASSUME NEW m \in Modules, Stops(m), loop # "exited" PROVE ModulesInv'
  BY Zenon, <1>2, CompleteInv DEF Stops
<1>3. CASE shutdown_loop
  BY Zenon, <1>3 DEF shutdown_loop, ModulesInv, ModuleTypes, ListInv, NothingEnded, OneAtATime,
              NoneStopping, Ended
<1>4. CASE UNCHANGED moduleVars
  BY Zenon, <1>4 DEF moduleVars, ModulesInv, ModuleTypes, ListInv, NothingEnded, OneAtATime,
              NoneStopping, Ended
<1> QED
  BY Zenon, <1>1, <1>2, <1>3, <1>4, HandleCompletedInv, LoopTimerInv, SignalInv, ShutdownModulesInv
     DEF ModulesNext, Handler

(* so it holds throughout. *)
LEMMA ModulesInvariant == ModulesSpec => []ModulesInv
<1>1. ModulesInit => ModulesInv
  BY Zenon, ModulesInitInv
<1>2. ModulesInv /\ [ModulesNext]_moduleVars => ModulesInv'
  BY Zenon, ModulesNextInv
<1> QED
  BY <1>1, <1>2, PTL DEF ModulesSpec

(* exit_process: the process exits when all its modules have ended, if one thing ends it;  *)
(* a process of one module does not wait for it when a signal comes (shutdown_modules).    *)
THEOREM ProcessExitsAfterItsModules ==
    Len(ModuleOrder) # 1 => (ModulesSpec => []ExitsAfterAll)
<1> SUFFICES ASSUME Len(ModuleOrder) # 1 PROVE ModulesSpec => []ExitsAfterAll
  BY Zenon
<1>1. ModulesInv => ExitsAfterAll
  BY Zenon DEF ModulesInv, OneAtATime, Ended, ExitsAfterAll
<1> QED
  BY <1>1, ModulesInvariant, PTL

(* The module asked to stop is the last of the ones that run. *)
LEMMA LastIsAsked ==
    ASSUME ModuleTypes, NEW q \in Seq(Modules), NEW shut \in SUBSET Modules,
           InOrder(q), \A m \in Modules : task[m] = "running" => InList(q, m),
           \A m \in shut : task[m] = "done",
           shutdown_next_module(q, shut),
           NEW i \in DOMAIN ModuleOrder, NEW j \in (i + 1)..Len(ModuleOrder),
           task[ModuleOrder[i]] = "running", task'[ModuleOrder[i]] = "stopping"
    PROVE  task[ModuleOrder[j]] # "running"
<1>1. /\ i \in 1..Len(ModuleOrder) /\ j \in 1..Len(ModuleOrder) /\ i < j
      /\ Len(ModuleOrder) \in Nat /\ DOMAIN ModuleOrder = 1..Len(ModuleOrder)
  BY ModuleNamesAssumption
<1>2. ModuleOrder[i] \in Modules /\ ModuleOrder[j] \in Modules
  BY <1>1, ModuleNamesAssumption DEF Modules
<1>3. q # <<>> /\ ModuleOrder[i] = q[Len(q)]
  BY Zenon, <1>2, NextModuleFact
<1>4. Before(ModuleOrder[i], ModuleOrder[j])
  BY Zenon, <1>1 DEF Before
<1>5. ASSUME task[ModuleOrder[j]] = "running" PROVE FALSE
  <2>1. PICK k \in 1..Len(q) : q[k] = ModuleOrder[j]
    BY Zenon, <1>2, <1>5 DEF InList
  <2>2. Len(q) \in Nat /\ (k < Len(q) \/ k = Len(q)) /\ Len(q) \in 1..Len(q)
    BY <2>1
  <2>3. CASE k = Len(q)
    BY Zenon, <1>3, <1>4, <2>1, <2>3, BeforeStrict
  <2>4. CASE k < Len(q)
    <3>1. Before(q[k], q[Len(q)])
      BY Zenon, <2>1, <2>2, <2>4 DEF InOrder
    <3> QED
      BY Zenon, <1>3, <1>4, <2>1, <3>1, BeforeStrict
  <2> QED
    BY Zenon, <2>2, <2>3, <2>4
<1> QED
  BY Zenon, <1>5

(* shutdown_next_module: however many modules end by themselves meanwhile, a module is     *)
(* asked to stop only when none that was started after it is running.                      *)
THEOREM ModulesStopInReverse == ModulesSpec => [][ReverseShutdown]_moduleVars
<1>1. ModulesInv /\ [ModulesNext]_moduleVars => [ReverseShutdown]_moduleVars
  <2> SUFFICES ASSUME ModulesInv, ModulesNext,
                      NEW i \in DOMAIN ModuleOrder, NEW j \in (i + 1)..Len(ModuleOrder),
                      task[ModuleOrder[i]] = "running", task'[ModuleOrder[i]] = "stopping"
               PROVE  task[ModuleOrder[j]] # "running"
    BY Zenon DEF ReverseShutdown
  <2>0. ModuleTypes /\ ListInv /\ ModuleOrder[i] \in Modules
    BY ModuleNamesAssumption DEF ModulesInv, Modules
  <2>1. ASSUME NEW q \in Seq(Modules), NEW shut \in SUBSET Modules,
               InOrder(q), \A m \in Modules : task[m] = "running" => InList(q, m),
               \A m \in shut : task[m] = "done",
               shutdown_next_module(q, shut)
        PROVE  task[ModuleOrder[j]] # "running"
    BY Zenon, <2>0, <2>1, LastIsAsked
  <2>2. CASE LoopTimer \/ shutdown_modules
    BY Zenon, <2>0, <2>1, <2>2 DEF LoopTimer, shutdown_modules, ModuleTypes, ListInv
  <2>3. CASE HandleShutdownCompleted
    <3> DEFINE m == Head(completed)
               q == Retained(started_modules, m)
               shut == shut_modules \cup {m}
    <3>1. m \in Modules /\ task[m] = "done"
      <4>1. completed \in Seq(Modules) /\ completed # <<>>
        BY Zenon, <2>0, <2>3 DEF ModuleTypes, HandleShutdownCompleted
      <4>2. Len(completed) \in Nat /\ Len(completed) # 0 /\ m = completed[1]
        BY <4>1, HeadTailProperties
      <4>3. m \in Modules /\ 1 \in 1..Len(completed)
        BY <4>1, <4>2
      <4> QED
        BY Zenon, <2>0, <4>2, <4>3 DEF ListInv
    <3>2. /\ q \in Seq(Modules) /\ InOrder(q)
          /\ \A x : InList(q, x) <=> InList(started_modules, x) /\ x # m
      BY Zenon, <2>0, RetainedFact DEF ModuleTypes, ListInv
    <3>3. /\ \A x \in Modules : task[x] = "running" => InList(q, x)
          /\ shut \in SUBSET Modules /\ \A x \in shut : task[x] = "done"
      BY Zenon, <2>0, <3>1, <3>2 DEF ModuleTypes, ListInv
    <3>4. shutdown_next_module(q, shut)
      BY Zenon, <2>3 DEF HandleShutdownCompleted
    <3> QED
      BY Zenon, <2>1, <3>2, <3>3, <3>4
  <2>4. ASSUME NEW m \in Modules, EndsByItself(m) \/ Stops(m) PROVE FALSE
    BY Zenon, <2>0, <2>4 DEF EndsByItself, Stops, Complete, ModuleTypes
  <2>5. CASE Signal \/ shutdown_loop
    BY Zenon, <2>5 DEF Signal, shutdown_loop
  <2> QED
    BY Zenon, <2>2, <2>3, <2>4, <2>5 DEF ModulesNext, Handler
<1> QED
  BY <1>1, ModulesInvariant, PTL DEF ModulesSpec

---------------------------------------------------------------------------
(* NodeState. *)

(* The indices kept of each transaction are those of blobs, and the queues *)
(* are sequences.                                                          *)
QueueTypes ==
    /\ Pending \subseteq Txs
    /\ \A t \in Pending : DOMAIN map[t] \subseteq DOMAIN TxOf[t].blobs
    /\ tx_order \in [Names -> Seq(Txs)]

(* Contracts are purged only while a settlement is being applied. *)
PurgeOnlyInSettlement == purging \subseteq Names /\ (pc # "purge" => purging = {})

IInv == QueueTypes /\ QueuesCoherent /\ KnownContracts /\ PurgeOnlyInSettlement

---------------------------------------------------------------------------
(* Queues. *)

(* VecDeque::push_back of a transaction that the queue does not hold. *)
LEMMA AppendFact ==
    ASSUME NEW q \in Seq(Txs), NEW t \in Txs, IsInjective(q), t \notin Range(q)
    PROVE  /\ Append(q, t) \in Seq(Txs)
           /\ IsInjective(Append(q, t))
           /\ Range(Append(q, t)) = Range(q) \cup {t}
<1>1. /\ Append(q, t) \in Seq(Txs) /\ Len(Append(q, t)) = Len(q) + 1
      /\ \A i \in 1..Len(q) : Append(q, t)[i] = q[i]
      /\ Append(q, t)[Len(q) + 1] = t
      /\ DOMAIN Append(q, t) = 1..(Len(q) + 1) /\ DOMAIN q = 1..Len(q) /\ Len(q) \in Nat
    OBVIOUS
<1>2. \A i \in 1..Len(q) : q[i] # t
    BY Zenon, <1>1 DEF Range
<1>3. IsInjective(Append(q, t))
    BY <1>1, <1>2 DEF IsInjective
<1>4. Range(Append(q, t)) = Range(q) \cup {t}
    <2>1. ASSUME NEW x \in Range(Append(q, t)) PROVE x \in Range(q) \cup {t}
        BY <1>1 DEF Range
    <2>2. ASSUME NEW x \in Range(q) PROVE x \in Range(Append(q, t))
        <3>1. PICK i \in 1..Len(q) : x = q[i]
            BY Zenon, <1>1 DEF Range
        <3>2. i \in DOMAIN Append(q, t) /\ Append(q, t)[i] = x
            BY <1>1, <3>1
        <3> QED BY Zenon, <3>2 DEF Range
    <2>3. t \in Range(Append(q, t))
        BY <1>1 DEF Range
    <2> QED BY Zenon, <2>1, <2>2, <2>3
<1> QED BY Zenon, <1>1, <1>3, <1>4

(* VecDeque::retain of what is not t. *)
LEMMA WithoutFact ==
    ASSUME NEW q \in Seq(Txs), NEW t, IsInjective(q)
    PROVE  /\ Without(q, t) \in Seq(Txs)
           /\ IsInjective(Without(q, t))
           /\ Range(Without(q, t)) = Range(q) \ {t}
<1>0. DOMAIN q = 1..Len(q) /\ Len(q) \in Nat /\ \A i \in 1..Len(q) : q[i] \in Txs
    OBVIOUS
<1>1. CASE \E i \in 1..Len(q) : q[i] = t
    <2> DEFINE at == CHOOSE i \in 1..Len(q) : q[i] = t
               w == [i \in 1..(Len(q) - 1) |-> IF i < at THEN q[i] ELSE q[i + 1]]
    <2>1. at \in 1..Len(q) /\ q[at] = t
        BY Zenon, <1>1
    <2>2. Without(q, t) = w
        BY Zenon, <1>1 DEF Without
    <2> HIDE DEF at
    <2>3. Len(q) - 1 \in Nat /\ DOMAIN w = 1..(Len(q) - 1)
        BY <1>0, <2>1
    <2>4. w \in Seq(Txs)
        <3>1. w \in [1..(Len(q) - 1) -> Txs]
            BY <1>0, <2>1
        <3> HIDE DEF w
        <3> QED BY <2>3, <3>1
    <2>5. IsInjective(w)
        <3> SUFFICES ASSUME NEW i \in 1..(Len(q) - 1), NEW j \in 1..(Len(q) - 1), w[i] = w[j]
                     PROVE  i = j
            BY Zenon, <2>3 DEF IsInjective
        <3>1. w[i] = q[IF i < at THEN i ELSE i + 1] /\ w[j] = q[IF j < at THEN j ELSE j + 1]
            BY Zenon, <1>0, <2>1
        <3>2. (IF i < at THEN i ELSE i + 1) = (IF j < at THEN j ELSE j + 1)
            BY <1>0, <2>1, <3>1 DEF IsInjective
        <3> QED BY <3>2, <1>0, <2>1
    <2>6. ASSUME NEW x \in Range(w) PROVE x \in Range(q) \ {t}
        <3>1. PICK i \in 1..(Len(q) - 1) : x = w[i]
            BY Zenon, <2>3 DEF Range
        <3>2. PICK k \in 1..Len(q) : k # at /\ x = q[k]
            <4>1. CASE i < at
                BY <4>1, <3>1, <1>0, <2>1
            <4>2. CASE ~(i < at)
                <5>1. i + 1 \in 1..Len(q) /\ i + 1 # at /\ x = q[i + 1]
                    BY <4>2, <3>1, <1>0, <2>1
                <5> QED BY Zenon, <5>1
            <4> QED BY Zenon, <4>1, <4>2
        <3> QED BY Zenon, <3>2, <1>0, <2>1 DEF Range, IsInjective
    <2>7. ASSUME NEW x \in Range(q) \ {t} PROVE x \in Range(w)
        <3>1. PICK k \in 1..Len(q) : x = q[k]
            BY Zenon, <1>0 DEF Range
        <3>2. k # at
            BY Zenon, <3>1, <2>1, <2>7
        <3>3. CASE k < at
            <4>1. k \in DOMAIN w /\ w[k] = x
                BY <3>3, <3>1, <2>1, <1>0
            <4> QED BY Zenon, <4>1 DEF Range
        <3>4. CASE k > at
            <4>1. k - 1 \in DOMAIN w /\ w[k - 1] = x
                BY <3>4, <3>1, <2>1, <1>0
            <4> QED BY Zenon, <4>1 DEF Range
        <3> QED BY <3>2, <3>3, <3>4, <2>1, <1>0
    <2> QED BY Zenon, <2>2, <2>4, <2>5, <2>6, <2>7
<1>2. CASE ~ \E i \in 1..Len(q) : q[i] = t
    <2>1. Without(q, t) = q
        BY Zenon, <1>2 DEF Without
    <2>2. t \notin Range(q)
        BY Zenon, <1>0, <1>2 DEF Range
    <2> QED BY Zenon, <2>1, <2>2
<1> QED BY Zenon, <1>1, <1>2

(* The contracts that a transaction blocks are names. *)
LEMMA BlockedNames ==
    ASSUME QueueTypes, NEW t \in Pending PROVE Blocked(t) \subseteq Names
<1> SUFFICES ASSUME NEW n \in Blocked(t) PROVE n \in Names
    BY Zenon
<1>1. PICK i \in DOMAIN map[t] : n \in NamesOfBlob(TxOf[t].blobs[i])
    BY Zenon DEF Blocked, get_contracts_blocked_by_tx
<1>2. t \in Txs /\ TxOf[t].blobs[i] \in Range(TxOf[t].blobs)
    BY Zenon DEF QueueTypes, Range
<1> QED BY Zenon, <1>1, <1>2, TxsAssumption DEF NamesOfBlob

(* OrderedTxMap::remove keeps the two halves coherent, and the blobs of    *)
(* what stays are those that it had.                                       *)
LEMMA RemoveCoherent ==
    ASSUME QueueTypes, QueuesCoherent, NEW t \in Pending, NEW S, RemoveTx(t, S)
    PROVE  /\ QueueTypes' /\ QueuesCoherent'
           /\ Pending' = Pending \ {t}
           /\ \A u \in Pending' : map'[u] = map[u]
<1>1. /\ Pending' = Pending \ {t}
      /\ \A u \in Pending' : map'[u] = map[u]
    BY Zenon DEF RemoveTx, Unmapped, Pending
<1>2. \A u \in Pending' : Blocked(u)' = Blocked(u)
    BY Zenon, <1>1 DEF Blocked, get_contracts_blocked_by_tx
<1>3. tx_order' = [n \in Names |-> IF n \in Blocked(t) THEN Without(tx_order[n], t)
                                  ELSE tx_order[n]]
    BY Zenon DEF RemoveTx, Dequeue, Blocked
<1>4. ASSUME NEW n \in Names
      PROVE  /\ tx_order'[n] \in Seq(Txs)
             /\ IsInjective(tx_order'[n])
             /\ Range(tx_order'[n]) = Range(tx_order[n]) \ {t}
    <2>1. tx_order[n] \in Seq(Txs) /\ IsInjective(tx_order[n])
        BY Zenon DEF QueueTypes, QueuesCoherent
    <2>2. CASE n \in Blocked(t)
        BY Zenon, <2>1, <2>2, <1>3, WithoutFact
    <2>3. CASE n \notin Blocked(t)
        <3>1. t \notin Range(tx_order[n])
            BY Zenon, <2>3 DEF QueuesCoherent
        <3> QED BY Zenon, <2>1, <2>3, <1>3, <3>1
    <2> QED BY Zenon, <2>2, <2>3
<1>5. QueueTypes'
    <2>1. tx_order' \in [Names -> Seq(Txs)]
        BY Zenon, <1>3, <1>4
    <2> QED BY Zenon, <1>1, <2>1 DEF QueueTypes
<1>6. ASSUME NEW n \in Names
      PROVE  Range(tx_order'[n]) = {u \in Pending' : n \in Blocked(u)'}
    BY Zenon, <1>1, <1>2, <1>4 DEF QueuesCoherent
<1> QED BY Zenon, <1>1, <1>4, <1>5, <1>6 DEF QueuesCoherent

(* Adding proofs changes neither the transactions nor their blobs. *)
LEMMA ProofsCoherent ==
    ASSUME QueueTypes, QueuesCoherent, NEW ps, map' = WithProofs(ps), UNCHANGED tx_order
    PROVE  /\ QueueTypes' /\ QueuesCoherent'
           /\ Pending' = Pending
           /\ \A u \in Pending : DOMAIN map'[u] = DOMAIN map[u]
<1>1. /\ Pending' = Pending
      /\ \A u \in Pending : DOMAIN map'[u] = DOMAIN map[u]
    BY Zenon DEF WithProofs, Pending
<1>2. \A u \in Pending : Blocked(u)' = Blocked(u)
    BY Zenon, <1>1 DEF Blocked, get_contracts_blocked_by_tx
<1>3. QueueTypes'
    BY Zenon, <1>1 DEF QueueTypes
<1>4. QueuesCoherent'
    BY Zenon, <1>1, <1>2 DEF QueuesCoherent
<1> QED BY Zenon, <1>1, <1>3, <1>4

(* A blob left in an unsettled transaction is for a name that it blocks. *)
LEMMA BlobNames ==
    ASSUME QueueTypes, NEW t \in Pending, NEW i \in DOMAIN map[t]
    PROVE  TxOf[t].blobs[i].contract \in Blocked(t) \cap Names
<1>1. TxOf[t].blobs[i].contract \in Blocked(t)
    BY DEF Blocked, get_contracts_blocked_by_tx, NamesOfBlob
<1> QED BY Zenon, <1>1, BlockedNames

(* Contracts and purged names being as they were, it is enough that the    *)
(* transactions left had their blobs before.                               *)
LEMMA KnownPreserved ==
    ASSUME KnownContracts, UNCHANGED <<contracts, purging>>,
           Pending' \subseteq Pending,
           \A u \in Pending' : DOMAIN map'[u] = DOMAIN map[u]
    PROVE  KnownContracts'
BY Zenon DEF KnownContracts

---------------------------------------------------------------------------
(* The steps. *)

(* handle_blob_tx: the transaction joins the map and its queues. *)
LEMMA HandleBlobTxStep ==
    ASSUME IInv, NEW t \in Txs, handle_blob_tx(t) PROVE IInv'
<1> DEFINE tx == TxOf[t]
           added == [u \in DOMAIN map \cup {t} |-> IF u = t THEN UnsettledBlobs(tx) ELSE map[u]]
           names == get_contracts_blocked_by_tx(added, t)
<1>1. /\ t \notin Pending /\ Accepted(tx) /\ map' = added
      /\ tx_order' = Enqueue(tx_order, names, t)
      /\ UNCHANGED <<contracts, purging>> /\ pc = "block" /\ pc' \in {"block", "settle"}
    BY Zenon DEF handle_blob_tx, Pending
<1>2. /\ Pending' = Pending \cup {t}
      /\ \A u \in Pending : map'[u] = map[u]
      /\ DOMAIN map'[t] \subseteq DOMAIN tx.blobs
    BY Zenon, <1>1 DEF Pending, UnsettledBlobs
<1>3. QueueTypes' => Blocked(t)' \subseteq Names
    <2>1. ASSUME NEW i \in DOMAIN map'[t] PROVE NamesOfBlob(tx.blobs[i]) \subseteq Names
        <3>1. tx.blobs[i] \in Range(tx.blobs)
            BY Zenon, <1>2 DEF Range
        <3> QED BY Zenon, <3>1, TxsAssumption DEF NamesOfBlob
    <2> QED BY Zenon, <2>1 DEF Blocked, get_contracts_blocked_by_tx
<1>4. Blocked(t)' = names /\ \A u \in Pending : Blocked(u)' = Blocked(u)
    BY Zenon, <1>1, <1>2 DEF Blocked, get_contracts_blocked_by_tx
<1>5. ASSUME NEW n \in Names
      PROVE  /\ tx_order'[n] \in Seq(Txs)
             /\ IsInjective(tx_order'[n])
             /\ Range(tx_order'[n]) = IF n \in names THEN Range(tx_order[n]) \cup {t}
                                      ELSE Range(tx_order[n])
    <2>1. tx_order[n] \in Seq(Txs) /\ IsInjective(tx_order[n]) /\ t \notin Range(tx_order[n])
        BY Zenon, <1>1 DEF IInv, QueueTypes, QueuesCoherent
    <2>2. tx_order'[n] = IF n \in names THEN Append(tx_order[n], t) ELSE tx_order[n]
        BY Zenon, <1>1 DEF Enqueue
    <2> HIDE DEF names
    <2> QED BY Zenon, <2>1, <2>2, AppendFact
<1>6. QueueTypes'
    <2>1. tx_order' \in [Names -> Seq(Txs)]
        BY Zenon, <1>1, <1>5 DEF Enqueue
    <2> QED BY Zenon, <1>2, <2>1 DEF IInv, QueueTypes
<1>7. QueuesCoherent'
    <2> HIDE DEF names
    <2>1. ASSUME NEW n \in Names
          PROVE  Range(tx_order'[n]) = {u \in Pending' : n \in Blocked(u)'}
        <3>1. Range(tx_order[n]) = {u \in Pending : n \in Blocked(u)}
            BY Zenon DEF IInv, QueuesCoherent
        <3>2. \A u \in Pending' : n \in Blocked(u)' <=>
                    \/ u \in Pending /\ n \in Blocked(u)
                    \/ u = t /\ n \in names
            BY Zenon, <1>1, <1>2, <1>4
        <3> QED BY Zenon, <3>1, <3>2, <1>2, <1>5
    <2> QED BY Zenon, <2>1, <1>5 DEF QueuesCoherent
<1>8. KnownContracts'
    BY Zenon, <1>1, <1>2 DEF IInv, KnownContracts, Accepted
<1> QED BY Zenon, <1>1, <1>6, <1>7, <1>8 DEF IInv, PurgeOnlyInSettlement

(* ExpireNext: at most one transaction is removed. *)
LEMMA ExpireNextStep ==
    ASSUME IInv, ExpireNext PROVE IInv'
<1>1. /\ pc = "block" /\ UNCHANGED <<contracts, purging>>
      /\ pc' \in {"block", "settle"}
    BY Zenon DEF ExpireNext
<1>2. CASE Head(expiring) \in Pending
    <2>1. RemoveTx(Head(expiring), {})
        BY Zenon, <1>2 DEF ExpireNext, Pending
    <2>2. /\ QueueTypes' /\ QueuesCoherent' /\ Pending' \subseteq Pending
          /\ \A u \in Pending' : map'[u] = map[u]
        BY Zenon, <1>2, <2>1, RemoveCoherent DEF IInv
    <2>3. KnownContracts'
        BY Zenon, <1>1, <2>2, KnownPreserved DEF IInv
    <2> QED BY Zenon, <1>1, <2>2, <2>3 DEF IInv, PurgeOnlyInSettlement
<1>3. CASE Head(expiring) \notin Pending
    <2>1. UNCHANGED <<map, tx_order>>
        BY Zenon, <1>3 DEF ExpireNext, Pending, queues
    <2> QED BY Zenon, <1>1, <2>1 DEF IInv, QueueTypes, QueuesCoherent, KnownContracts, Pending, Blocked,
                PurgeOnlyInSettlement
<1> QED BY Zenon, <1>2, <1>3

(* try_to_settle_blob_tx: nothing, or one transaction is removed; what its *)
(* changes delete is to be purged.                                         *)
LEMMA SettleNextStep ==
    ASSUME IInv, SettleNext PROVE IInv'
<1> DEFINE t == Min(to_settle)
           result == SettlementResult(contracts, BlobsLeft(t))
<1>1. pc = "settle" /\ purging = {}
    BY Zenon DEF SettleNext, IInv, PurgeOnlyInSettlement
<1>2. \/ NotSettled(t)
      \/ t \in Pending /\ SettledAs(t, result[1])
    BY Zenon DEF SettleNext, try_to_settle_blob_tx, Pending
<1> HIDE DEF t, result
<1>3. CASE NotSettled(t)
    <2>1. UNCHANGED <<contracts, map, tx_order, purging, pc>>
        BY Zenon, <1>3 DEF NotSettled, queues
    <2> QED BY Zenon, <2>1 DEF IInv, QueueTypes, QueuesCoherent, KnownContracts, Pending, Blocked,
                PurgeOnlyInSettlement
<1>4. CASE t \in Pending /\ SettledAs(t, result[1])
    <2> DEFINE changes == result[1].changes
    <2>1. RemoveTx(t, to_settle \ {t})
        BY Zenon, <1>4 DEF SettledAs
    <2>2. /\ QueueTypes' /\ QueuesCoherent' /\ Pending' \subseteq Pending
          /\ \A u \in Pending' : map'[u] = map[u]
        BY Zenon, <1>4, <2>1, RemoveCoherent DEF IInv
    <2>3. CASE result[1].failed
        <3>1. UNCHANGED <<contracts, purging, pc>>
            BY Zenon, <1>4, <2>3 DEF SettledAs
        <3>2. KnownContracts'
            BY Zenon, <3>1, <2>2, KnownPreserved DEF IInv
        <3> QED BY Zenon, <3>1, <3>2, <2>2 DEF IInv, PurgeOnlyInSettlement
    <2>4. CASE ~result[1].failed
        <3>1. /\ contracts' = Overlay(contracts, changes)
              /\ purging' = {n \in Names : changes[n] = Absent}
              /\ purging' # {} => pc' = "purge"
            BY Zenon, <1>4, <2>4 DEF SettledAs
        <3> HIDE DEF changes
        <3>2. KnownContracts'
            <4> SUFFICES ASSUME NEW u \in Pending', NEW i \in DOMAIN map'[u],
                                contracts'[TxOf[u].blobs[i].contract] = Absent
                         PROVE  TxOf[u].blobs[i].contract \in purging'
                BY Zenon DEF KnownContracts
            <4> DEFINE n == TxOf[u].blobs[i].contract
            <4>1. n \in Names /\ contracts[n] # Absent
                BY Zenon, <1>1, <2>2, BlobNames DEF IInv, KnownContracts
            <4>2. get_contract(contracts, changes, n) = Absent
                BY Zenon, <3>1, <4>1 DEF Overlay
            <4> QED BY Zenon, <4>1, <4>2, <3>1 DEF get_contract
        <3>3. PurgeOnlyInSettlement'
            BY Zenon, <3>1 DEF PurgeOnlyInSettlement
        <3> QED BY Zenon, <3>2, <3>3, <2>2 DEF IInv
    <2> QED BY Zenon, <2>3, <2>4
<1> QED BY Zenon, <1>2, <1>3, <1>4

(* The loop over the transactions of a deleted contract: the head of its   *)
(* queue is an unsettled transaction, so that the loop advances, and once  *)
(* the queue is empty no unsettled transaction has a blob of the contract. *)
LEMMA PurgeNextStep ==
    ASSUME IInv, PurgeNext PROVE IInv'
<1>1. PICK n \in purging : IF tx_order[n] = <<>>
                           THEN purging' = purging \ {n} /\ UNCHANGED <<queues, to_settle>>
                           ELSE PurgeHead(n) /\ UNCHANGED purging
    BY Zenon DEF PurgeNext
<1>2. n \in Names /\ pc = "purge" /\ UNCHANGED <<contracts, pc>> /\ tx_order[n] \in Seq(Txs)
    BY Zenon DEF PurgeNext, IInv, PurgeOnlyInSettlement, QueueTypes
<1>3. CASE tx_order[n] = <<>>
    <2>1. purging' = purging \ {n} /\ UNCHANGED <<map, tx_order>>
        BY Zenon, <1>1, <1>3 DEF queues
    <2>2. \A t \in Pending : n \notin Blocked(t)
        BY <1>2, <1>3 DEF IInv, QueuesCoherent, Range
    <2>3. KnownContracts'
        <3> SUFFICES ASSUME NEW t \in Pending, NEW i \in DOMAIN map[t],
                            contracts[TxOf[t].blobs[i].contract] = Absent
                     PROVE  TxOf[t].blobs[i].contract \in purging'
            BY Zenon, <1>2, <2>1 DEF KnownContracts, Pending
        <3>1. TxOf[t].blobs[i].contract \in purging
            BY Zenon DEF IInv, KnownContracts
        <3>2. TxOf[t].blobs[i].contract # n
            BY Zenon, <2>2, BlobNames DEF IInv
        <3> QED BY Zenon, <3>1, <3>2, <2>1
    <2> QED BY Zenon, <1>2, <2>1, <2>3 DEF IInv, QueueTypes, QueuesCoherent, Pending, Blocked,
                PurgeOnlyInSettlement
<1>4. CASE tx_order[n] # <<>>
    <2> DEFINE t == Head(tx_order[n])
    <2>1. t \in Range(tx_order[n])
        BY <1>2, <1>4 DEF Range
    <2>2. t \in Pending
        BY Zenon, <2>1, <1>2 DEF IInv, QueuesCoherent
    <2>3. RemoveTx(t, to_settle \ {t}) /\ UNCHANGED purging
        BY Zenon, <1>1, <1>4 DEF PurgeHead
    <2> HIDE DEF t
    <2>4. /\ QueueTypes' /\ QueuesCoherent' /\ Pending' \subseteq Pending
          /\ \A u \in Pending' : map'[u] = map[u]
        BY Zenon, <2>2, <2>3, RemoveCoherent DEF IInv
    <2>5. KnownContracts'
        BY Zenon, <1>2, <2>3, <2>4, KnownPreserved DEF IInv
    <2> QED BY Zenon, <1>2, <2>3, <2>4, <2>5 DEF IInv, PurgeOnlyInSettlement
<1> QED BY Zenon, <1>3, <1>4

(* Proof transactions and nukes only add proofs. *)
LEMMA ProofsStep ==
    ASSUME IInv, NEW ps, map' = WithProofs(ps), UNCHANGED <<contracts, tx_order, purging>>,
           pc' # "purge", purging = {}
    PROVE  IInv'
<1>1. /\ QueueTypes' /\ QueuesCoherent' /\ Pending' = Pending
      /\ \A u \in Pending : DOMAIN map'[u] = DOMAIN map[u]
    BY Zenon, ProofsCoherent DEF IInv
<1>2. KnownContracts'
    BY Zenon, <1>1, KnownPreserved DEF IInv
<1> QED BY Zenon, <1>1, <1>2 DEF IInv, PurgeOnlyInSettlement

---------------------------------------------------------------------------
(* The invariant of the whole. *)

(* Before the first block nothing is settled. *)
LEMMA InvInit == Init => IInv
<1> SUFFICES ASSUME Init PROVE IInv
    BY Zenon
<1>1. Pending = {} /\ tx_order = [n \in Names |-> <<>>] /\ purging = {}
    BY DEF Init, Pending
<1>2. QueueTypes
    BY <1>1 DEF QueueTypes
<1>3. QueuesCoherent
    <2> SUFFICES ASSUME NEW n \in Names
                 PROVE  /\ IsInjective(tx_order[n])
                        /\ Range(tx_order[n]) = {t \in Pending : n \in Blocked(t)}
        BY Zenon DEF QueuesCoherent
    <2>1. tx_order[n] = <<>> /\ DOMAIN tx_order[n] = {}
        BY <1>1
    <2> QED BY Zenon, <1>1, <2>1 DEF IsInjective, Range
<1>4. KnownContracts
    BY Zenon, <1>1 DEF KnownContracts
<1> QED BY Zenon, <1>1, <1>2, <1>3, <1>4 DEF IInv, PurgeOnlyInSettlement

(* Each block processed keeps the invariant, *)
LEMMA InvStep == IInv /\ [Next]_vars => IInv'
<1> SUFFICES ASSUME IInv, [Next]_vars PROVE IInv'
    BY Zenon
<1>0. ASSUME UNCHANGED <<contracts, map, tx_order, purging>>, pc' # "purge", purging = {}
      PROVE  IInv'
    BY Zenon, <1>0 DEF IInv, QueueTypes, QueuesCoherent, KnownContracts, Pending, Blocked,
                PurgeOnlyInSettlement
<1>1. CASE BeginBlock
    BY Zenon, <1>0, <1>1 DEF BeginBlock, queues, IInv, PurgeOnlyInSettlement
<1>2. CASE ExpireNext
    BY Zenon, <1>2, ExpireNextStep
<1>3. CASE \E t \in Txs : handle_blob_tx(t)
    BY Zenon, <1>3, HandleBlobTxStep
<1>4. CASE \E proofs \in ProofTxs : HandleProofTx(proofs)
    <2>1. PICK proofs \in ProofTxs : HandleProofTx(proofs)
        BY Zenon, <1>4
    <2>2. PICK ps : map' = WithProofs(ps)
        BY Zenon, <2>1 DEF HandleProofTx
    <2>3. UNCHANGED <<contracts, tx_order, purging>> /\ pc = "block" /\ pc' = "settle"
        BY Zenon, <2>1 DEF HandleProofTx
    <2>4. purging = {}
        BY Zenon, <2>3 DEF IInv, PurgeOnlyInSettlement
    <2> QED BY Zenon, <2>2, <2>3, <2>4, ProofsStep
<1>5. CASE SettleNext
    BY Zenon, <1>5, SettleNextStep
<1>6. CASE PurgeNext
    BY Zenon, <1>6, PurgeNextStep
<1>7. CASE ForceNuked
    <2>1. PICK ps : map' = WithProofs(ps)
        BY Zenon, <1>7 DEF ForceNuked
    <2>2. UNCHANGED <<contracts, tx_order, purging>> /\ purging = {} /\ pc' = "settle"
        BY Zenon, <1>7 DEF ForceNuked
    <2> QED BY Zenon, <2>1, <2>2, ProofsStep
<1>8. CASE SettleDone
    BY Zenon, <1>0, <1>8 DEF SettleDone, queues, IInv, PurgeOnlyInSettlement
<1>9. CASE EndBlock
    BY Zenon, <1>0, <1>9 DEF EndBlock, queues, settling, IInv, PurgeOnlyInSettlement
<1>10. CASE UNCHANGED vars
    BY Zenon, <1>10 DEF vars, IInv, QueueTypes, QueuesCoherent, KnownContracts, Pending, Blocked,
                 PurgeOnlyInSettlement
<1> QED BY Zenon, <1>1, <1>2, <1>3, <1>4, <1>5, <1>6, <1>7, <1>8, <1>9, <1>10 DEF Next

(* so that it always holds. *)
LEMMA Invariance == Spec => []IInv
BY InvInit, InvStep, PTL DEF Spec

(* Whatever the contracts, the transactions, their blobs and the proofs    *)
(* are, the map of OrderedTxMap and its queues stay coherent through       *)
(* settlement, failure, timeout, contract deletion and nukes.              *)
THEOREM QueuesStayCoherent == Spec => []QueuesCoherent
<1>1. IInv => QueuesCoherent
    BY Zenon DEF IInv
<1> QED BY <1>1, Invariance, PTL

(* No transaction is left waiting on a contract that does not exist, so    *)
(* that the registration check of try_to_settle_blob_tx never refuses one. *)
THEOREM ContractsStayKnown == Spec => []KnownContracts
<1>1. IInv => KnownContracts
    BY Zenon DEF IInv
<1> QED BY <1>1, Invariance, PTL
=============================================================================
