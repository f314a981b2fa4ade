--------------------------- MODULE NetworkProofs ---------------------------
(***************************************************************************)
(* What a node receives over its connections, for every value of the       *)
(* constants: the messages of a peer in the order they were sent (P2P), and *)
(* the blocks of a stream in the order of their heights (SignedDAListener). *)
(***************************************************************************)
EXTENDS P2P, SignedDAListener, WellFoundedInduction, NaturalsInduction, SequenceTheorems, TLAPS

---------------------------------------------------------------------------
(* P2P: types. *)

P2PMessages == [type : {"Hello", "Verack"}, timestamp : Nat] \cup [type : {"Data"}, id : Nat]
DataMessages == [type : {"Data"}, id : Nat]
Conns == [client : Nodes, tx : [Nodes -> BOOLEAN], rx : [Nodes -> BOOLEAN],
          wire : [Nodes -> Seq(P2PMessages)], broken : BOOLEAN]
PoolEvents == [dest : Nat, c : Nat, msg : P2PMessages \cup {[type |-> "Closed"]}]
Receipts == [c : Nat, id : Nat]
Jobs == [msg : DataMessages, to : BOOLEAN]

ServerOk(s) ==
    /\ DOMAIN s = {"sockets", "peer", "connecting", "tasks", "jobs"}
    /\ s.jobs \in Seq(Jobs)

WorkOk(w) == w.conns \in Seq(Conns) /\ ServerOk(w.s)

P2PTypes ==
    /\ conns \in Seq(Conns)
    /\ DOMAIN server = Nodes /\ \A n \in Nodes : ServerOk(server[n])
    /\ pool \in [Nodes -> Seq(PoolEvents)]
    /\ received \in [Nodes -> Seq(Receipts)]
    /\ sent \in Nat /\ now \in Nat

---------------------------------------------------------------------------
(* The order of the messages, from the jobs of the sender to the bus of the receiver. *)

(* A message that left the sender, k being sent and J being serialized. *)
Left(id, k, J) == id <= k /\ \A j \in DOMAIN J : id < J[j].msg.id

JobsInOrder(J, k) ==
    \A i \in DOMAIN J : J[i].msg.id <= k /\ \A j \in DOMAIN J : i < j => J[i].msg.id < J[j].msg.id

WireInOrder(q, k, J) ==
    \A i \in DOMAIN q : q[i].type = "Data" =>
        /\ Left(q[i].id, k, J)
        /\ \A j \in DOMAIN q : i < j /\ q[j].type = "Data" => q[i].id < q[j].id

(* All messages on the wire come after this one. *)
Precedes(id, q) == \A i \in DOMAIN q : q[i].type = "Data" => id < q[i].id

PoolInOrder(P, C, n, k, J) ==
    \A i \in DOMAIN P : P[i].msg.type = "Data" =>
        /\ Left(P[i].msg.id, k, J)
        /\ P[i].c \in DOMAIN C /\ Precedes(P[i].msg.id, C[P[i].c].wire[n])
        /\ \A j \in DOMAIN P : i < j /\ P[j].msg.type = "Data" /\ P[i].c = P[j].c =>
                P[i].msg.id < P[j].msg.id

BusInOrder(R, P, C, n, k, J) ==
    \A i \in DOMAIN R :
        /\ Left(R[i].id, k, J)
        /\ R[i].c \in DOMAIN C /\ Precedes(R[i].id, C[R[i].c].wire[n])
        /\ \A j \in DOMAIN P : P[j].msg.type = "Data" /\ R[i].c = P[j].c => R[i].id < P[j].msg.id
        /\ \A j \in DOMAIN R : i < j /\ R[i].c = R[j].c => R[i].id < R[j].id

LineInOrder(n, C, J, P, R, k) ==
    /\ JobsInOrder(J, k)
    /\ \A c \in DOMAIN C : WireInOrder(C[c].wire[n], k, J)
    /\ PoolInOrder(P, C, n, k, J)
    /\ BusInOrder(R, P, C, n, k, J)

P2PInv ==
    /\ P2PTypes
    /\ \A n \in Nodes : LineInOrder(n, conns, server[Other(n)].jobs, pool[n], received[n], sent)

---------------------------------------------------------------------------
(* What happens to a line when its sender does something. *)

(* msg can be sent after all that left. *)
Follows(msg, k, J, k2, J2) ==
    msg.type = "Data" => /\ Left(msg.id, k2, J2)
                         /\ \A id \in Nat : Left(id, k, J) => id < msg.id

(* r is what is left of q when its end is lost. *)
Starts(r, q) == DOMAIN r \subseteq DOMAIN q /\ \A i \in DOMAIN r : r[i] = q[i]

(* The wires to n: as they were, cut, with one more message, or new and without any. *)
WiresMove(n, C, D, msg) ==
    /\ DOMAIN C \subseteq DOMAIN D
    /\ \A c \in DOMAIN C : \/ D[c].wire[n] = C[c].wire[n]
                           \/ D[c].wire[n] = <<>>
                           \/ Starts(D[c].wire[n], C[c].wire[n])
                           \/ D[c].wire[n] = Append(C[c].wire[n], msg)
    /\ \A c \in DOMAIN D \ DOMAIN C :
            \A i \in DOMAIN D[c].wire[n] : D[c].wire[n][i].type # "Data"

(* One wire. *)
LEMMA WireMoves ==
    ASSUME NEW q \in Seq(P2PMessages), NEW msg \in P2PMessages, NEW k, NEW J, NEW k2, NEW J2,
           \A id \in Nat : Left(id, k, J) => Left(id, k2, J2), Follows(msg, k, J, k2, J2),
           WireInOrder(q, k, J), NEW r, r = q \/ r = <<>> \/ Starts(r, q) \/ r = Append(q, msg)
    PROVE  /\ WireInOrder(r, k2, J2)
           /\ \A id \in Nat : Left(id, k, J) /\ Precedes(id, q) => Precedes(id, r)
<1>1. \A i \in DOMAIN q : q[i].type = "Data" => q[i].id \in Nat
  BY DEF P2PMessages
<1>2. CASE r = q
  BY Zenon, <1>1, <1>2 DEF WireInOrder
<1>3. CASE r = <<>>
  BY <1>3 DEF WireInOrder, Precedes
<1>4. CASE Starts(r, q)
  BY Zenon, <1>1, <1>4 DEF WireInOrder, Precedes, Starts
<1>5. CASE r = Append(q, msg)
  <2>1. /\ DOMAIN r = 1..(Len(q) + 1) /\ Len(q) \in Nat /\ DOMAIN q = 1..Len(q)
        /\ r[Len(q) + 1] = msg /\ \A i \in 1..Len(q) : r[i] = q[i]
    BY <1>5
  <2> HIDE <1>5
  <2>2. ASSUME NEW i \in DOMAIN r, r[i].type = "Data"
        PROVE  /\ Left(r[i].id, k2, J2)
               /\ \A j \in DOMAIN r : i < j /\ r[j].type = "Data" => r[i].id < r[j].id
    <3>1. CASE i = Len(q) + 1
      BY <2>1, <2>2, <3>1 DEF Follows
    <3>2. CASE i \in 1..Len(q)
      <4>1. r[i] = q[i] /\ r[i].id \in Nat /\ Left(r[i].id, k, J)
        BY Zenon, <1>1, <2>1, <2>2, <3>2 DEF WireInOrder
      <4>2. ASSUME NEW j \in DOMAIN r, i < j, r[j].type = "Data"
            PROVE  r[i].id < r[j].id
        <5>1. CASE j = Len(q) + 1
          BY Zenon, <2>1, <4>1, <4>2, <5>1 DEF Follows
        <5>2. CASE j \in 1..Len(q)
          BY Zenon, <2>1, <2>2, <3>2, <4>2, <5>2 DEF WireInOrder
        <5> QED
          BY <2>1, <5>1, <5>2
      <4> QED
        BY Zenon, <4>1, <4>2
    <3> QED
      BY <2>1, <3>1, <3>2
  <2>3. ASSUME NEW id \in Nat, Left(id, k, J), Precedes(id, q)
        PROVE  Precedes(id, r)
    BY <2>1, <2>3 DEF Precedes, Follows
  <2> QED
    BY Zenon, <2>2, <2>3 DEF WireInOrder
<1> QED
  BY Zenon, <1>2, <1>3, <1>4, <1>5

(* The line stays in order when its sender sends after all that left. *)
LEMMA LineMoves ==
    ASSUME NEW n \in Nodes, NEW C \in Seq(Conns), NEW D, NEW msg \in P2PMessages,
           NEW P \in Seq(PoolEvents), NEW R \in Seq(Receipts),
           NEW k, NEW J, NEW k2, NEW J2, WiresMove(n, C, D, msg), JobsInOrder(J2, k2),
           \A id \in Nat : Left(id, k, J) => Left(id, k2, J2), Follows(msg, k, J, k2, J2),
           LineInOrder(n, C, J, P, R, k)
    PROVE  LineInOrder(n, D, J2, P, R, k2)
<1>1. \A c \in DOMAIN C : C[c].wire[n] \in Seq(P2PMessages)
  <2>1. \A c \in DOMAIN C : C[c] \in Conns
    OBVIOUS
  <2> QED
    BY Zenon, <2>1 DEF Conns
<1>2. \A c \in DOMAIN C : WireInOrder(C[c].wire[n], k, J)
  BY Zenon DEF LineInOrder
<1>3. ASSUME NEW c \in DOMAIN C
      PROVE  /\ WireInOrder(D[c].wire[n], k2, J2)
             /\ \A id \in Nat : Left(id, k, J) /\ Precedes(id, C[c].wire[n]) =>
                                    Precedes(id, D[c].wire[n])
  <2> DEFINE q == C[c].wire[n]
             r == D[c].wire[n]
  <2>1. q \in Seq(P2PMessages) /\ WireInOrder(q, k, J)
    BY Zenon, <1>1, <1>2
  <2>2. r = q \/ r = <<>> \/ Starts(r, q) \/ r = Append(q, msg)
    BY Zenon DEF WiresMove
  <2> HIDE DEF q, r
  <2>3. /\ WireInOrder(r, k2, J2)
        /\ \A id \in Nat : Left(id, k, J) /\ Precedes(id, q) => Precedes(id, r)
    BY Zenon, <2>1, <2>2, WireMoves
  <2> QED
    BY Zenon, <2>3 DEF q, r
<1>4. ASSUME NEW c \in DOMAIN D \ DOMAIN C
      PROVE  WireInOrder(D[c].wire[n], k2, J2)
  BY Zenon DEF WiresMove, WireInOrder
<1>5. DOMAIN C \subseteq DOMAIN D
  BY Zenon DEF WiresMove
<1>6. PoolInOrder(P, D, n, k2, J2)
  <2>1. \A i \in DOMAIN P : P[i].msg.type = "Data" => P[i].msg.id \in Nat
    <3>1. \A i \in DOMAIN P : P[i] \in PoolEvents
      OBVIOUS
    <3>2. \A i \in DOMAIN P : P[i].msg \in P2PMessages \/ P[i].msg.type = "Closed"
      BY <3>1 DEF PoolEvents
    <3> QED
      BY Zenon, <3>2 DEF P2PMessages
  <2>2. PoolInOrder(P, C, n, k, J)
    BY Zenon DEF LineInOrder
  <2> QED
    BY Zenon, <1>3, <1>5, <2>1, <2>2 DEF PoolInOrder
<1>7. BusInOrder(R, P, D, n, k2, J2)
  <2>1. \A i \in DOMAIN R : R[i].id \in Nat
    <3>1. \A i \in DOMAIN R : R[i] \in Receipts
      OBVIOUS
    <3> QED
      BY Zenon, <3>1 DEF Receipts
  <2>2. BusInOrder(R, P, C, n, k, J)
    BY Zenon DEF LineInOrder
  <2> QED
    BY Zenon, <1>3, <1>5, <2>1, <2>2 DEF BusInOrder
<1> QED
  BY Zenon, <1>3, <1>4, <1>6, <1>7 DEF LineInOrder

---------------------------------------------------------------------------
(* The handlers.  A node cuts its own ends and writes to the other ones. *)

Cuts(n, C, D) ==
    /\ D \in Seq(Conns) /\ DOMAIN D = DOMAIN C
    /\ \A c \in DOMAIN C : /\ D[c].wire[n] = C[c].wire[n] \/ D[c].wire[n] = <<>>
                           /\ D[c].wire[Other(n)] = C[c].wire[Other(n)]

Writes(n, C, D, msg) ==
    /\ D \in Seq(Conns) /\ DOMAIN D = DOMAIN C
    /\ \A c \in DOMAIN C : /\ D[c].wire[n] = C[c].wire[n] \/ D[c].wire[n] = <<>>
                           /\ \/ D[c].wire[Other(n)] = C[c].wire[Other(n)]
                              \/ D[c].wire[Other(n)] = Append(C[c].wire[Other(n)], msg)

CutsOk(n, w, v) == ServerOk(v.s) /\ v.s.jobs = w.s.jobs /\ Cuts(n, w.conns, v.conns)
WritesOk(n, w, v, msg) == ServerOk(v.s) /\ v.s.jobs = w.s.jobs /\ Writes(n, w.conns, v.conns, msg)

(* A node has one peer. *)
LEMMA Others ==
    ASSUME NEW n \in Nodes
    PROVE  Other(n) \in Nodes /\ Other(n) # n /\ Other(Other(n)) = n
           /\ \A m \in Nodes : m = n \/ m = Other(n)
<1>1. Nodes = {1, 2}
  BY DEF Nodes
<1>2. n = 1 \/ n = 2
  BY Zenon, <1>1
<1> QED
  BY <1>1, <1>2 DEF Other

(* A connection that changes. *)
LEMMA ConnChanges ==
    ASSUME NEW C \in Seq(Conns), NEW c, NEW x, c \in DOMAIN C => x \in Conns
    PROVE  LET D == [C EXCEPT ![c] = x]
           IN  /\ D \in Seq(Conns) /\ DOMAIN D = DOMAIN C
               /\ \A d \in DOMAIN C : D[d] = IF d = c THEN x ELSE C[d]
<1>1. DOMAIN C = 1..Len(C) /\ Len(C) \in Nat
  OBVIOUS
<1> DEFINE D == [C EXCEPT ![c] = x]
<1>2. DOMAIN D = DOMAIN C /\ \A d \in DOMAIN C : D[d] = IF d = c THEN x ELSE C[d]
  BY Zenon
<1>3. \A d \in DOMAIN C : C[d] \in Conns
  OBVIOUS
<1>4. D = [d \in 1..Len(C) |-> D[d]]
  BY Zenon, <1>1, <1>2
<1>5. \A d \in 1..Len(C) : D[d] \in Conns
  BY Zenon, <1>1, <1>2, <1>3
<1> HIDE DEF D
<1>6. D \in [1..Len(C) -> Conns]
  BY Zenon, <1>4, <1>5
<1>7. D \in Seq(Conns)
  BY <1>1, <1>6
<1> QED
  BY Zenon, <1>2, <1>7 DEF D

(* The end of a node is closed. *)
LEMMA ClosedConn ==
    ASSUME NEW n \in Nodes, NEW x \in Conns
    PROVE  /\ Closed(x, n) \in Conns /\ Closed(x, n).wire[n] = <<>>
           /\ Closed(x, n).wire[Other(n)] = x.wire[Other(n)]
<1> DEFINE a == [x.tx EXCEPT ![n] = FALSE]
           b == [x.rx EXCEPT ![n] = FALSE]
           q == [x.wire EXCEPT ![n] = <<>>]
<1>1. a \in [Nodes -> BOOLEAN] /\ b \in [Nodes -> BOOLEAN] /\ q \in [Nodes -> Seq(P2PMessages)]
  BY DEF Conns
<1>2. q[n] = <<>> /\ q[Other(n)] = x.wire[Other(n)]
  BY Zenon, Others DEF Conns
<1>3. Closed(x, n) = [x EXCEPT !.tx = a, !.rx = b, !.wire = q]
  BY Zenon DEF Closed
<1> HIDE DEF a, b, q
<1>4. Closed(x, n) \in Conns /\ Closed(x, n).wire = q
  BY Zenon, <1>1, <1>3 DEF Conns
<1> QED
  BY Zenon, <1>2, <1>4

(* Its sender is gone. *)
LEMMA GoneConn ==
    ASSUME NEW n \in Nodes, NEW x \in Conns
    PROVE  SenderGone(x, n) \in Conns /\ SenderGone(x, n).wire = x.wire
<1> DEFINE a == [x.tx EXCEPT ![n] = FALSE]
<1>1. a \in [Nodes -> BOOLEAN]
  BY Zenon DEF Conns
<1>2. SenderGone(x, n) = [x EXCEPT !.tx = a]
  BY Zenon DEF SenderGone
<1> HIDE DEF a
<1> QED
  BY Zenon, <1>1, <1>2 DEF Conns

(* Something is written to the other one. *)
LEMMA WrittenConn ==
    ASSUME NEW n \in Nodes, NEW x \in Conns, NEW msg \in P2PMessages
    PROVE  /\ Written(x, n, msg) \in Conns /\ Written(x, n, msg).wire[n] = x.wire[n]
           /\ \/ Written(x, n, msg).wire[Other(n)] = x.wire[Other(n)]
              \/ Written(x, n, msg).wire[Other(n)] = Append(x.wire[Other(n)], msg)
<1> DEFINE q == [x.wire EXCEPT ![Other(n)] = Append(x.wire[Other(n)], msg)]
<1>1. q \in [Nodes -> Seq(P2PMessages)]
  BY Others DEF Conns
<1>2. q[Other(n)] = Append(x.wire[Other(n)], msg) /\ q[n] = x.wire[n]
  BY Zenon, Others DEF Conns
<1>3. Written(x, n, msg) = x \/ Written(x, n, msg) = [x EXCEPT !.wire = q]
  BY Zenon DEF Written
<1> HIDE DEF q
<1>4. [x EXCEPT !.wire = q] \in Conns /\ [x EXCEPT !.wire = q].wire = q
  BY Zenon, <1>1 DEF Conns
<1> QED
  BY Zenon, <1>2, <1>3, <1>4

(* drop_peer_stream *)
LEMMA DropCuts ==
    ASSUME NEW n \in Nodes, NEW w, WorkOk(w), NEW name
    PROVE  CutsOk(n, w, drop_peer_stream(w, n, name))
<1> DEFINE v == drop_peer_stream(w, n, name)
           c == w.s.sockets[name]
           C == w.conns
           D == [C EXCEPT ![c] = Closed(C[c], n)]
           rest == [x \in DOMAIN w.s.sockets \ {name} |-> w.s.sockets[x]]
<1>1. C \in Seq(Conns) /\ ServerOk(w.s)
  BY Zenon DEF WorkOk
<1>2. CASE v = w
  <2>1. Cuts(n, w.conns, w.conns)
    BY Zenon, <1>1 DEF Cuts
  <2> QED
    BY Zenon, <1>1, <1>2, <2>1 DEF CutsOk
<1>3. CASE v = [conns |-> D, s |-> WithoutSocket(w.s, name)]
  <2>1. \A d \in DOMAIN C : C[d] \in Conns
    BY <1>1
  <2>2. /\ D \in Seq(Conns) /\ DOMAIN D = DOMAIN C
        /\ \A d \in DOMAIN C : D[d] = IF d = c THEN Closed(C[c], n) ELSE C[d]
    <3>1. c \in DOMAIN C => Closed(C[c], n) \in Conns
      BY Zenon, <2>1, ClosedConn
    <3> HIDE DEF c, C
    <3> QED
      BY Zenon, <1>1, <3>1, ConnChanges
  <2> HIDE DEF D
  <2>3. Cuts(n, C, D)
    <3>1. ASSUME NEW d \in DOMAIN C
          PROVE  /\ D[d].wire[n] = C[d].wire[n] \/ D[d].wire[n] = <<>>
                 /\ D[d].wire[Other(n)] = C[d].wire[Other(n)]
      <4>1. CASE d = c
        BY <2>1, <2>2, <4>1, ClosedConn
      <4>2. CASE d # c
        BY Zenon, <2>2, <4>2
      <4> QED
        BY Zenon, <4>1, <4>2
    <3> QED
      BY Zenon, <2>2, <3>1 DEF Cuts
  <2>4. ServerOk(WithoutSocket(w.s, name)) /\ WithoutSocket(w.s, name).jobs = w.s.jobs
    <3>1. WithoutSocket(w.s, name) = [w.s EXCEPT !.sockets = rest]
      BY Zenon DEF WithoutSocket
    <3> HIDE DEF rest
    <3> QED
      BY Zenon, <1>1, <3>1 DEF ServerOk
  <2>5. v.conns = D /\ v.s = WithoutSocket(w.s, name)
    BY <1>3
  <2> QED
    BY Zenon, <2>3, <2>4, <2>5 DEF CutsOk
<1> QED
  BY Zenon, <1>2, <1>3 DEF drop_peer_stream

(* One after the other. *)
LEMMA CutsThenCuts ==
    ASSUME NEW n, NEW w, NEW v, NEW u, CutsOk(n, w, v), CutsOk(n, v, u)
    PROVE  CutsOk(n, w, u)
BY Zenon DEF CutsOk, Cuts

(* Nothing written. *)
LEMMA CutsAreWrites ==
    ASSUME NEW n, NEW w, NEW v, NEW msg, CutsOk(n, w, v)
    PROVE  WritesOk(n, w, v, msg)
BY Zenon DEF CutsOk, WritesOk, Cuts, Writes

(* A cut after a write. *)
LEMMA WritesThenCuts ==
    ASSUME NEW n, NEW w, NEW v, NEW u, NEW msg, WritesOk(n, w, v, msg), CutsOk(n, v, u)
    PROVE  WritesOk(n, w, u, msg)
BY Zenon DEF CutsOk, WritesOk, Cuts, Writes

(* Another state of the server. *)
LEMMA ServerChanges ==
    ASSUME NEW n, NEW w, WorkOk(w), NEW s, ServerOk(s), s.jobs = w.s.jobs
    PROVE  CutsOk(n, w, [conns |-> w.conns, s |-> s])
<1>1. [conns |-> w.conns, s |-> s].conns = w.conns /\ [conns |-> w.conns, s |-> s].s = s
  BY Zenon
<1>2. Cuts(n, w.conns, w.conns)
  BY Zenon DEF WorkOk, Cuts
<1> QED
  BY Zenon, <1>1, <1>2 DEF CutsOk

(* What is cut can be worked on. *)
LEMMA CutsWork ==
    ASSUME NEW n, NEW w, NEW v, CutsOk(n, w, v)
    PROVE  WorkOk(v)
BY Zenon DEF CutsOk, WorkOk, Cuts

(* start_connection_task *)
LEMMA ConnectingCuts ==
    ASSUME NEW n, NEW w, WorkOk(w)
    PROVE  CutsOk(n, w, Connecting(w))
<1>1. ServerOk(start_connection_task(w.s)) /\ start_connection_task(w.s).jobs = w.s.jobs
  BY Zenon DEF WorkOk, ServerOk, start_connection_task
<1> QED
  BY Zenon, <1>1, ServerChanges DEF Connecting

(* try_start_connection *)
LEMMA TryStartCuts ==
    ASSUME NEW n \in Nodes, NEW w, WorkOk(w), NEW old
    PROVE  CutsOk(n, w, try_start_connection(w, n, old))
<1> DEFINE again == [conns |-> w.conns, s |-> [w.s EXCEPT !.tasks = w.s.tasks - 1]]
           dropped == drop_peer_stream(w, n, Out)
<1>1. CutsOk(n, w, Connecting(w)) /\ CutsOk(n, w, w)
  BY Zenon, ConnectingCuts DEF WorkOk, CutsOk, Cuts
<1>2. CutsOk(n, w, again)
  <2>1. ServerOk([w.s EXCEPT !.tasks = w.s.tasks - 1]) /\ [w.s EXCEPT !.tasks = w.s.tasks - 1].jobs = w.s.jobs
    BY Zenon DEF WorkOk, ServerOk
  <2> QED
    BY Zenon, <2>1, ServerChanges
<1>3. CutsOk(n, w, dropped)
  BY Zenon, DropCuts
<1> HIDE DEF again, dropped
<1>4. CutsOk(n, w, Connecting(again)) /\ CutsOk(n, w, Connecting(dropped))
  BY Zenon, <1>2, <1>3, CutsWork, ConnectingCuts, CutsThenCuts
<1>5. try_start_connection(w, n, old) \in {Connecting(w), w, Connecting(again), Connecting(dropped)}
  BY Zenon DEF try_start_connection, again, dropped
<1> QED
  BY Zenon, <1>1, <1>4, <1>5

(* handle_peer_update *)
LEMMA PeerUpdateCuts ==
    ASSUME NEW n \in Nodes, NEW w, WorkOk(w), NEW timestamp, NEW dest
    PROVE  CutsOk(n, w, handle_peer_update(w, n, timestamp, dest))
<1> DEFINE peers == {[timestamp |-> timestamp, addr |-> dest]}
           p == CHOOSE q \in w.s.peer : TRUE
           known == [conns |-> w.conns, s |-> [w.s EXCEPT !.connecting = {}]]
           updated == [conns |-> w.conns, s |-> [w.s EXCEPT !.connecting = {}, !.peer = peers]]
<1>1. CutsOk(n, w, known) /\ CutsOk(n, w, updated)
  <2> HIDE DEF peers
  <2>1. /\ ServerOk([w.s EXCEPT !.connecting = {}]) /\ [w.s EXCEPT !.connecting = {}].jobs = w.s.jobs
        /\ ServerOk([w.s EXCEPT !.connecting = {}, !.peer = peers])
        /\ [w.s EXCEPT !.connecting = {}, !.peer = peers].jobs = w.s.jobs
    BY Zenon DEF WorkOk, ServerOk
  <2> QED
    BY Zenon, <2>1, ServerChanges
<1> HIDE DEF known, updated
<1>2. CutsOk(n, w, drop_peer_stream(known, n, dest)) /\ CutsOk(n, w, drop_peer_stream(updated, n, p.addr))
  BY Zenon, <1>1, CutsWork, DropCuts, CutsThenCuts
<1>3. handle_peer_update(w, n, timestamp, dest)
         \in {updated, drop_peer_stream(updated, n, p.addr), drop_peer_stream(known, n, dest)}
  BY Zenon DEF handle_peer_update, known, updated
<1> QED
  BY Zenon, <1>1, <1>2, <1>3

(* tcp_send *)
LEMMA SendWrites ==
    ASSUME NEW n \in Nodes, NEW w, WorkOk(w), NEW name, NEW msg \in P2PMessages
    PROVE  WritesOk(n, w, tcp_send(w, n, name, msg), msg)
<1> DEFINE v == tcp_send(w, n, name, msg)
           c == w.s.sockets[name]
           C == w.conns
           D == [C EXCEPT ![c] = Written(C[c], n, msg)]
<1>1. C \in Seq(Conns) /\ ServerOk(w.s)
  BY Zenon DEF WorkOk
<1>2. v.conns = D /\ v.s = w.s
  BY Zenon DEF tcp_send
<1>3. \A d \in DOMAIN C : C[d] \in Conns
  BY <1>1
<1>4. /\ D \in Seq(Conns) /\ DOMAIN D = DOMAIN C
      /\ \A d \in DOMAIN C : D[d] = IF d = c THEN Written(C[c], n, msg) ELSE C[d]
  <2>1. c \in DOMAIN C => Written(C[c], n, msg) \in Conns
    BY Zenon, <1>3, WrittenConn
  <2> HIDE DEF c, C
  <2> QED
    BY Zenon, <1>1, <2>1, ConnChanges
<1> HIDE DEF D, C, c
<1>5. ASSUME NEW d \in DOMAIN C
      PROVE  /\ D[d].wire[n] = C[d].wire[n] \/ D[d].wire[n] = <<>>
             /\ \/ D[d].wire[Other(n)] = C[d].wire[Other(n)]
                \/ D[d].wire[Other(n)] = Append(C[d].wire[Other(n)], msg)
  <2>1. CASE d = c
    <3>1. D[d] = Written(C[d], n, msg) /\ C[d] \in Conns
      BY Zenon, <1>3, <1>4, <2>1
    <3>2. /\ Written(C[d], n, msg).wire[n] = C[d].wire[n]
          /\ \/ Written(C[d], n, msg).wire[Other(n)] = C[d].wire[Other(n)]
             \/ Written(C[d], n, msg).wire[Other(n)] = Append(C[d].wire[Other(n)], msg)
      BY Zenon, <3>1, WrittenConn
    <3> QED
      BY Zenon, <3>1, <3>2
  <2>2. CASE d # c
    BY Zenon, <1>4, <2>2
  <2> QED
    BY Zenon, <2>1, <2>2
<1>6. Writes(n, C, D, msg)
  BY Zenon, <1>4, <1>5 DEF Writes
<1> QED
  BY Zenon, <1>1, <1>2, <1>6 DEF WritesOk, C

(* What was written to can be worked on. *)
LEMMA WritesWork ==
    ASSUME NEW n, NEW w, NEW v, NEW msg, WritesOk(n, w, v, msg)
    PROVE  WorkOk(v)
BY Zenon DEF WritesOk, WorkOk, Writes

Veracks == [type : {"Verack"}, timestamp : Nat]

(* handle_handshake *)
LEMMA HandshakeWrites ==
    ASSUME NEW n \in Nodes, NEW w, WorkOk(w), NEW dest,
           NEW msg \in [type : {"Hello", "Verack"}, timestamp : Nat]
    PROVE  \E reply \in Veracks : WritesOk(n, w, handle_handshake(w, n, dest, msg), reply)
<1> DEFINE reply == [msg EXCEPT !.type = "Verack"]
           v == tcp_send(w, n, dest, reply)
<1>1. reply \in Veracks /\ reply \in P2PMessages
  BY Zenon DEF Veracks, P2PMessages
<1> HIDE DEF reply
<1>2. WritesOk(n, w, v, reply)
  BY Zenon, <1>1, SendWrites
<1> HIDE DEF v
<1>3. WritesOk(n, w, handle_peer_update(v, n, msg.timestamp, dest), reply)
  BY Zenon, <1>2, WritesWork, PeerUpdateCuts, WritesThenCuts
<1>4. WritesOk(n, w, handle_peer_update(w, n, msg.timestamp, dest), reply)
  BY Zenon, PeerUpdateCuts, CutsAreWrites
<1>5. WritesOk(n, w, w, reply)
  BY Zenon DEF WorkOk, WritesOk, Writes
<1>6. handle_handshake(w, n, dest, msg)
        \in {w, handle_peer_update(w, n, msg.timestamp, dest), handle_peer_update(v, n, msg.timestamp, dest)}
  BY Zenon DEF handle_handshake, v, reply
<1> QED
  BY Zenon, <1>1, <1>3, <1>4, <1>5, <1>6

(* handle_closed_event *)
LEMMA ClosedEventCuts ==
    ASSUME NEW n \in Nodes, NEW w, WorkOk(w), NEW dest
    PROVE  CutsOk(n, w, handle_closed_event(w, n, dest))
<1> DEFINE dropped == drop_peer_stream(w, n, dest)
<1>1. CutsOk(n, w, dropped)
  BY Zenon, DropCuts
<1> HIDE DEF dropped
<1>2. CutsOk(n, w, Connecting(dropped))
  BY Zenon, <1>1, CutsWork, ConnectingCuts, CutsThenCuts
<1>3. handle_closed_event(w, n, dest) \in {dropped, Connecting(dropped)}
  BY Zenon DEF handle_closed_event, dropped
<1> QED
  BY Zenon, <1>1, <1>2, <1>3

(* actually_send_to *)
LEMMA SendToWrites ==
    ASSUME NEW n \in Nodes, NEW w, WorkOk(w), NEW msg \in P2PMessages, NEW old
    PROVE  WritesOk(n, w, actually_send_to(w, n, msg, old), msg)
<1> DEFINE p == CHOOSE q \in w.s.peer : TRUE
<1>1. WritesOk(n, w, w, msg)
  BY Zenon DEF WorkOk, WritesOk, Writes
<1>2. WritesOk(n, w, tcp_send(w, n, p.addr, msg), msg)
  BY Zenon, SendWrites
<1>3. WritesOk(n, w, try_start_connection(w, n, old), msg)
  BY Zenon, TryStartCuts, CutsAreWrites
<1>4. actually_send_to(w, n, msg, old)
        \in {w, tcp_send(w, n, p.addr, msg), try_start_connection(w, n, old)}
  BY Zenon DEF actually_send_to
<1> QED
  BY Zenon, <1>1, <1>2, <1>3, <1>4

---------------------------------------------------------------------------
(* The two lines when a node has worked. *)

(* A line stays in order when more messages have been sent by the other node. *)
LEMMA MoreSent ==
    ASSUME NEW J \in Seq(Jobs), NEW k \in Nat, NEW k2 \in Nat, k <= k2, JobsInOrder(J, k)
    PROVE  JobsInOrder(J, k2) /\ \A id \in Nat : Left(id, k, J) => Left(id, k2, J)
<1>1. \A i \in DOMAIN J : J[i] \in Jobs
  OBVIOUS
<1>2. \A i \in DOMAIN J : J[i].msg \in DataMessages
  BY Zenon, <1>1 DEF Jobs
<1>3. \A i \in DOMAIN J : J[i].msg.id \in Nat
  BY Zenon, <1>2 DEF DataMessages
<1> QED
  BY <1>3 DEF JobsInOrder, Left

(* What n writes is in order for the other node, what it cuts is for itself. *)
LEMMA WorkKeepsLines ==
    ASSUME P2PInv, NEW n \in Nodes, NEW v, NEW msg \in P2PMessages, Done(n, v), ServerOk(v.s),
           Writes(n, conns, v.conns, msg), sent' \in Nat, sent <= sent',
           JobsInOrder(v.s.jobs, sent'), Follows(msg, sent, server[n].jobs, sent', v.s.jobs),
           \A id \in Nat : Left(id, sent, server[n].jobs) => Left(id, sent', v.s.jobs)
    PROVE  /\ conns' \in Seq(Conns) /\ DOMAIN server' = Nodes /\ \A m \in Nodes : ServerOk(server'[m])
           /\ \A m \in Nodes :
                LineInOrder(m, conns', server'[Other(m)].jobs, pool[m], received[m], sent')
<1>1. /\ conns \in Seq(Conns) /\ DOMAIN server = Nodes /\ \A m \in Nodes : ServerOk(server[m])
      /\ pool \in [Nodes -> Seq(PoolEvents)] /\ received \in [Nodes -> Seq(Receipts)] /\ sent \in Nat
  BY Zenon DEF P2PInv, P2PTypes
<1>2. conns' = v.conns /\ server' = [server EXCEPT ![n] = v.s]
  BY Zenon DEF Done
<1>3. /\ Other(n) \in Nodes /\ Other(n) # n /\ Other(Other(n)) = n
      /\ \A m \in Nodes : m = n \/ m = Other(n)
  BY Zenon, Others
<1>4. DOMAIN server' = Nodes /\ server'[n] = v.s /\ server'[Other(n)] = server[Other(n)]
  BY Zenon, <1>1, <1>2, <1>3
<1>5. \A m \in Nodes : ServerOk(server'[m])
  BY Zenon, <1>1, <1>3, <1>4
<1>6. conns' \in Seq(Conns)
  BY Zenon, <1>2 DEF Writes
<1>7. \A m \in Nodes : pool[m] \in Seq(PoolEvents) /\ received[m] \in Seq(Receipts)
  BY Zenon, <1>1
<1>8. \A m \in Nodes : LineInOrder(m, conns, server[Other(m)].jobs, pool[m], received[m], sent)
  BY Zenon DEF P2PInv
<1>9. LineInOrder(Other(n), conns', server'[n].jobs, pool[Other(n)], received[Other(n)], sent')
  <2>1. WiresMove(Other(n), conns, conns', msg)
    BY Zenon, <1>2 DEF Writes, WiresMove
  <2>2. LineInOrder(Other(n), conns, server[n].jobs, pool[Other(n)], received[Other(n)], sent)
    BY Zenon, <1>3, <1>8
  <2> QED
    BY Zenon, <1>1, <1>3, <1>4, <1>7, <2>1, <2>2, LineMoves
<1>10. LineInOrder(n, conns', server'[Other(n)].jobs, pool[n], received[n], sent')
  <2> DEFINE J == server[Other(n)].jobs
             none == [type |-> "Verack", timestamp |-> 0]
  <2>1. none \in P2PMessages /\ none.type # "Data"
    BY Zenon DEF P2PMessages
  <2> HIDE DEF none
  <2>2. WiresMove(n, conns, conns', none)
    BY Zenon, <1>2 DEF Writes, WiresMove
  <2>3. LineInOrder(n, conns, J, pool[n], received[n], sent)
    BY Zenon, <1>8
  <2>4. J \in Seq(Jobs) /\ JobsInOrder(J, sent)
    BY Zenon, <1>1, <1>3, <2>3 DEF ServerOk, LineInOrder
  <2> HIDE DEF J
  <2>5. JobsInOrder(J, sent') /\ \A id \in Nat : Left(id, sent, J) => Left(id, sent', J)
    BY Zenon, <1>1, <2>4, MoreSent
  <2>6. Follows(none, sent, J, sent', J)
    BY Zenon, <2>1 DEF Follows
  <2>7. LineInOrder(n, conns', J, pool[n], received[n], sent')
    BY Zenon, <1>1, <1>7, <2>1, <2>2, <2>3, <2>5, <2>6, LineMoves
  <2> QED
    BY Zenon, <1>4, <2>7 DEF J
<1> QED
  BY Zenon, <1>3, <1>4, <1>5, <1>6, <1>9, <1>10

(* The two lines make the invariant. *)
LEMMA LinesMakeInv ==
    ASSUME conns' \in Seq(Conns), DOMAIN server' = Nodes,
           \A m \in Nodes : ServerOk(server'[m]), sent' \in Nat, now' \in Nat,
           pool' \in [Nodes -> Seq(PoolEvents)], received' \in [Nodes -> Seq(Receipts)],
           \A m \in Nodes :
                LineInOrder(m, conns', server'[Other(m)].jobs, pool'[m], received'[m], sent')
    PROVE  P2PInv'
BY Zenon DEF P2PInv, P2PTypes

(* A handler that leaves the pool and the bus alone. *)
LEMMA WorkKeeps ==
    ASSUME P2PInv, NEW n \in Nodes, NEW v, NEW msg \in P2PMessages, Done(n, v), ServerOk(v.s),
           Writes(n, conns, v.conns, msg), sent' \in Nat, sent <= sent',
           JobsInOrder(v.s.jobs, sent'), Follows(msg, sent, server[n].jobs, sent', v.s.jobs),
           \A id \in Nat : Left(id, sent, server[n].jobs) => Left(id, sent', v.s.jobs),
           UNCHANGED <<pool, received, now>>
    PROVE  P2PInv'
<1>1. /\ conns' \in Seq(Conns) /\ DOMAIN server' = Nodes /\ \A m \in Nodes : ServerOk(server'[m])
      /\ \A m \in Nodes :
            LineInOrder(m, conns', server'[Other(m)].jobs, pool[m], received[m], sent')
  BY Zenon, WorkKeepsLines
<1>2. /\ pool \in [Nodes -> Seq(PoolEvents)] /\ received \in [Nodes -> Seq(Receipts)]
      /\ now \in Nat
  BY Zenon DEF P2PInv, P2PTypes
<1>3. pool' = pool /\ received' = received /\ now' = now
  BY Zenon
<1> QED
  BY Zenon, <1>1, <1>2, <1>3, LinesMakeInv

---------------------------------------------------------------------------
(* The steps *)

(* PingPeers and ConnectTo *)
LEMMA PingKeeps ==
    ASSUME P2PInv, NEW n \in Nodes, PingPeers(n) \/ ConnectTo(n)
    PROVE  P2PInv'
<1> DEFINE w == Here(n)
           none == [type |-> "Verack", timestamp |-> 0]
<1>1. PICK old \in BOOLEAN : Done(n, try_start_connection(w, n, old))
                             /\ UNCHANGED <<pool, received, sent, losses, now>>
  BY Zenon DEF PingPeers, ConnectTo
<1> DEFINE v == try_start_connection(w, n, old)
<1>2. w.conns = conns /\ w.s = server[n]
  BY Zenon DEF Here
<1>3. WorkOk(w) /\ sent \in Nat
  BY Zenon, <1>2 DEF P2PInv, P2PTypes, WorkOk
<1>4. none \in P2PMessages /\ none.type # "Data"
  BY Zenon DEF P2PMessages
<1> HIDE DEF w, none
<1>5. WritesOk(n, w, v, none)
  BY Zenon, <1>3, TryStartCuts, CutsAreWrites
<1> HIDE DEF v
<1>6. Writes(n, conns, v.conns, none) /\ ServerOk(v.s) /\ v.s.jobs = server[n].jobs
  BY Zenon, <1>2, <1>5 DEF WritesOk
<1>7. LineInOrder(Other(n), conns, server[n].jobs, pool[Other(n)], received[Other(n)], sent)
  BY Zenon, Others DEF P2PInv
<1>8. sent' = sent /\ UNCHANGED <<pool, received, now>>
  BY Zenon, <1>1
<1>9. sent' \in Nat /\ sent <= sent'
  BY <1>3, <1>8
<1>10. JobsInOrder(v.s.jobs, sent')
  BY Zenon, <1>6, <1>7, <1>8 DEF LineInOrder
<1>11. \A id \in Nat : Left(id, sent, server[n].jobs) => Left(id, sent', v.s.jobs)
  BY Zenon, <1>6, <1>8
<1>12. Follows(none, sent, server[n].jobs, sent', v.s.jobs)
  BY Zenon, <1>4 DEF Follows
<1>13. Done(n, v)
  BY Zenon, <1>1 DEF v
<1> QED
  BY Zenon, <1>4, <1>6, <1>8, <1>9, <1>10, <1>11, <1>12, <1>13, WorkKeeps

(* A message that is queued. *)
LEMMA QueuedInOrder ==
    ASSUME NEW J \in Seq(Jobs), NEW k \in Nat, JobsInOrder(J, k), NEW to \in BOOLEAN
    PROVE  LET job == [msg |-> [type |-> "Data", id |-> k + 1], to |-> to]
           IN  /\ Append(J, job) \in Seq(Jobs) /\ JobsInOrder(Append(J, job), k + 1)
               /\ \A id \in Nat : Left(id, k, J) => Left(id, k + 1, Append(J, job))
<1> DEFINE job == [msg |-> [type |-> "Data", id |-> k + 1], to |-> to]
           K == Append(J, job)
<1>1. job \in Jobs /\ job.msg.id = k + 1
  BY DEF Jobs, DataMessages
<1> HIDE DEF job
<1>2. /\ K \in Seq(Jobs) /\ DOMAIN K = 1..(Len(J) + 1) /\ Len(J) \in Nat /\ DOMAIN J = 1..Len(J)
      /\ K[Len(J) + 1] = job /\ \A i \in 1..Len(J) : K[i] = J[i]
  BY <1>1
<1>3. \A i \in DOMAIN J : J[i].msg.id \in Nat
  <2>1. \A i \in DOMAIN J : J[i] \in Jobs
    OBVIOUS
  <2>2. \A i \in DOMAIN J : J[i].msg \in DataMessages
    BY Zenon, <2>1 DEF Jobs
  <2> QED
    BY Zenon, <2>2 DEF DataMessages
<1> HIDE DEF K
<1>4. JobsInOrder(K, k + 1)
  BY <1>1, <1>2, <1>3 DEF JobsInOrder
<1>5. \A id \in Nat : Left(id, k, J) => Left(id, k + 1, K)
  BY <1>1, <1>2, <1>3 DEF Left
<1> QED
  BY Zenon, <1>2, <1>4, <1>5 DEF K, job

(* HandleOutboundMessage: the message queues, or leaves when nothing does. *)
LEMMA OutboundKeeps ==
    ASSUME P2PInv, NEW n \in Nodes, HandleOutboundMessage(n)
    PROVE  P2PInv'
<1> DEFINE w == Here(n)
           J == server[n].jobs
           msg == [type |-> "Data", id |-> sent + 1]
           none == [type |-> "Verack", timestamp |-> 0]
<1>1. PICK old \in BOOLEAN :
        /\ sent' = sent + 1
        /\ Done(n, send(w, n, msg, old)) \/ Done(n, broadcast(w, msg))
        /\ UNCHANGED <<pool, received, losses, now>>
  BY Zenon DEF HandleOutboundMessage
<1>2. w.conns = conns /\ w.s = server[n]
  BY Zenon DEF Here
<1>3. WorkOk(w) /\ sent \in Nat /\ conns \in Seq(Conns) /\ ServerOk(server[n])
  BY Zenon, <1>2 DEF P2PInv, P2PTypes, WorkOk
<1>4. J \in Seq(Jobs)
  BY Zenon, <1>3 DEF ServerOk
<1>5. /\ none \in P2PMessages /\ none.type # "Data"
      /\ msg \in P2PMessages /\ msg.type = "Data" /\ msg.id = sent + 1
  BY <1>3 DEF P2PMessages
<1>6. JobsInOrder(J, sent)
  BY Zenon, Others DEF P2PInv, LineInOrder
<1>7. sent' \in Nat /\ sent <= sent' /\ sent' = sent + 1 /\ UNCHANGED <<pool, received, now>>
  BY <1>1, <1>3
<1>8. ASSUME NEW to \in BOOLEAN, Done(n, Queued(w, msg, to))
      PROVE  P2PInv'
  <2> DEFINE v == Queued(w, msg, to)
             K == Append(J, [msg |-> msg, to |-> to])
  <2>1. /\ K \in Seq(Jobs) /\ JobsInOrder(K, sent')
        /\ \A id \in Nat : Left(id, sent, J) => Left(id, sent', K)
    BY Zenon, <1>3, <1>4, <1>6, <1>7, QueuedInOrder
  <2>2. v.conns = conns /\ v.s = [server[n] EXCEPT !.jobs = K]
    BY Zenon, <1>2 DEF Queued
  <2> HIDE DEF K, v, J, msg, none
  <2>3. ServerOk(v.s) /\ v.s.jobs = K
    BY Zenon, <1>3, <2>1, <2>2 DEF ServerOk
  <2>4. Writes(n, conns, v.conns, none)
    BY Zenon, <1>3, <2>2 DEF Writes
  <2>5. Follows(none, sent, server[n].jobs, sent', v.s.jobs)
    BY Zenon, <1>5 DEF Follows
  <2>6. Done(n, v)
    BY Zenon, <1>8 DEF v
  <2>7. /\ JobsInOrder(v.s.jobs, sent')
        /\ \A id \in Nat : Left(id, sent, server[n].jobs) => Left(id, sent', v.s.jobs)
    BY Zenon, <2>1, <2>3 DEF J
  <2> QED
    BY Zenon, <1>5, <1>7, <2>3, <2>4, <2>5, <2>6, <2>7, WorkKeeps
<1>9. ASSUME NEW v, Done(n, v), WritesOk(n, w, v, msg), J = <<>>
      PROVE  P2PInv'
  <2>1. Writes(n, conns, v.conns, msg) /\ ServerOk(v.s) /\ v.s.jobs = <<>>
    BY Zenon, <1>2, <1>9 DEF WritesOk
  <2> HIDE DEF msg, none
  <2>2. Follows(msg, sent, <<>>, sent', <<>>) /\ JobsInOrder(<<>>, sent')
    BY <1>3, <1>5, <1>7 DEF Follows, Left, JobsInOrder
  <2>3. \A id \in Nat : Left(id, sent, <<>>) => Left(id, sent', <<>>)
    BY <1>3, <1>7 DEF Left
  <2> QED
    BY Zenon, <1>5, <1>7, <1>9, <2>1, <2>2, <2>3, WorkKeeps
<1>10. CASE Done(n, broadcast(w, msg))
  <2>1. (w.s.peer # {}) \in BOOLEAN /\ broadcast(w, msg) = Queued(w, msg, w.s.peer # {})
    BY Zenon DEF broadcast
  <2> QED
    BY Zenon, <1>8, <1>10, <2>1
<1>11. CASE Done(n, send(w, n, msg, old)) /\ J # <<>>
  <2>1. send(w, n, msg, old) = Queued(w, msg, TRUE)
    BY Zenon, <1>2, <1>11 DEF send
  <2> QED
    BY Zenon, <1>8, <1>11, <2>1
<1>12. CASE Done(n, send(w, n, msg, old)) /\ J = <<>>
  <2> DEFINE after == actually_send_to(w, n, msg, old)
  <2> HIDE DEF msg, w
  <2>1. WritesOk(n, w, after, msg)
    BY Zenon, <1>3, <1>5, SendToWrites
  <2>2. send(w, n, msg, old) \in {Connecting(after), after}
    BY Zenon, <1>2, <1>12 DEF send
  <2> HIDE DEF after
  <2>3. WritesOk(n, w, Connecting(after), msg)
    BY Zenon, <2>1, WritesWork, ConnectingCuts, WritesThenCuts
  <2> QED
    BY Zenon, <1>9, <1>12, <2>1, <2>2, <2>3
<1> QED
  BY Zenon, <1>1, <1>10, <1>11, <1>12

(* The first message leaves the queue. *)
LEMMA HeadFollows ==
    ASSUME NEW J \in Seq(Jobs), NEW k \in Nat, J # <<>>, JobsInOrder(J, k)
    PROVE  /\ Head(J) \in Jobs /\ Tail(J) \in Seq(Jobs) /\ JobsInOrder(Tail(J), k)
           /\ Follows(Head(J).msg, k, J, k, Tail(J))
           /\ \A id \in Nat : Left(id, k, J) => Left(id, k, Tail(J))
<1> DEFINE K == Tail(J)
<1>1. /\ Head(J) \in Jobs /\ K \in Seq(Jobs) /\ Len(J) \in Nat /\ Len(J) >= 1 /\ Head(J) = J[1]
      /\ DOMAIN J = 1..Len(J) /\ DOMAIN K = 1..(Len(J) - 1) /\ \A i \in DOMAIN K : K[i] = J[i + 1]
  OBVIOUS
<1> HIDE DEF K
<1>2. JobsInOrder(K, k)
  <2>1. \A i \in DOMAIN K : i + 1 \in DOMAIN J /\ \A j \in DOMAIN K : i < j => i + 1 < j + 1
    BY <1>1
  <2> QED
    BY Zenon, <1>1, <2>1 DEF JobsInOrder
<1>3. \A id \in Nat : Left(id, k, J) => Left(id, k, K)
  BY <1>1 DEF Left
<1>4. Follows(Head(J).msg, k, J, k, K)
  BY <1>1 DEF Follows, Left, JobsInOrder
<1> QED
  BY Zenon, <1>1, <1>2, <1>3, <1>4 DEF K

(* poll_join_next *)
LEMMA PollKeeps ==
    ASSUME P2PInv, NEW n \in Nodes, poll_join_next(n)
    PROVE  P2PInv'
<1> DEFINE J == server[n].jobs
           K == Tail(J)
           msg == Head(J).msg
           w == [conns |-> conns, s |-> [server[n] EXCEPT !.jobs = K]]
<1>1. PICK old \in BOOLEAN :
        /\ J # <<>>
        /\ Done(n, IF Head(J).to THEN actually_send_to(w, n, msg, old) ELSE w)
        /\ UNCHANGED <<pool, received, sent, losses, now>>
  BY Zenon DEF poll_join_next
<1>2. sent \in Nat /\ conns \in Seq(Conns) /\ ServerOk(server[n])
  BY Zenon DEF P2PInv, P2PTypes
<1>3. J \in Seq(Jobs) /\ JobsInOrder(J, sent)
  BY Zenon, <1>2, Others DEF ServerOk, P2PInv, LineInOrder
<1>4. /\ Head(J) \in Jobs /\ K \in Seq(Jobs) /\ JobsInOrder(K, sent)
      /\ Follows(msg, sent, J, sent, K) /\ \A id \in Nat : Left(id, sent, J) => Left(id, sent, K)
  <2> HIDE DEF J
  <2> QED
    BY Zenon, <1>1, <1>2, <1>3, HeadFollows
<1>5. msg \in P2PMessages
  <2> HIDE DEF J
  <2>1. msg \in DataMessages
    BY Zenon, <1>4 DEF Jobs
  <2> QED
    BY Zenon, <2>1 DEF P2PMessages, DataMessages
<1> DEFINE v == IF Head(J).to THEN actually_send_to(w, n, msg, old) ELSE w
<1>6. w.conns = conns /\ w.s = [server[n] EXCEPT !.jobs = K]
  BY Zenon
<1>7. Done(n, v)
  BY Zenon, <1>1
<1> HIDE DEF K, w
<1>8. ServerOk(w.s) /\ w.s.jobs = K
  BY Zenon, <1>2, <1>4, <1>6 DEF ServerOk
<1>9. WorkOk(w)
  BY Zenon, <1>2, <1>6, <1>8 DEF WorkOk
<1> HIDE DEF msg
<1>10. WritesOk(n, w, w, msg)
  BY Zenon, <1>9 DEF WorkOk, WritesOk, Writes
<1>11. WritesOk(n, w, v, msg)
  BY Zenon, <1>5, <1>9, <1>10, SendToWrites
<1> HIDE DEF v
<1>12. Writes(n, conns, v.conns, msg) /\ ServerOk(v.s) /\ v.s.jobs = K
  BY Zenon, <1>6, <1>8, <1>11 DEF WritesOk
<1>13. sent' = sent /\ UNCHANGED <<pool, received, now>>
  BY Zenon, <1>1
<1>14. sent' \in Nat /\ sent <= sent'
  BY <1>2, <1>13
<1> QED
  BY Zenon, <1>4, <1>5, <1>7, <1>12, <1>13, <1>14, WorkKeeps

(* The first event of the pool is handled; a message is handed to the bus. *)
LEMMA LineHandles ==
    ASSUME NEW n, NEW C, NEW J, NEW P \in Seq(PoolEvents), NEW R \in Seq(Receipts), NEW k,
           P # <<>>, LineInOrder(n, C, J, P, R, k)
    PROVE  /\ LineInOrder(n, C, J, Tail(P), R, k)
           /\ Head(P).msg.type = "Data" =>
                LineInOrder(n, C, J, Tail(P),
                            Append(R, [c |-> Head(P).c, id |-> Head(P).msg.id]), k)
<1> DEFINE Q == Tail(P)
           e == Head(P)
           r == [c |-> e.c, id |-> e.msg.id]
           S == Append(R, r)
<1>1. /\ Len(P) \in Nat /\ Len(P) >= 1 /\ e = P[1]
      /\ DOMAIN P = 1..Len(P) /\ DOMAIN Q = 1..(Len(P) - 1) /\ \A i \in DOMAIN Q : Q[i] = P[i + 1]
  OBVIOUS
<1>2. /\ DOMAIN S = 1..(Len(R) + 1) /\ Len(R) \in Nat /\ DOMAIN R = 1..Len(R)
      /\ S[Len(R) + 1] = r /\ \A i \in 1..Len(R) : S[i] = R[i]
  OBVIOUS
<1>3. r.c = e.c /\ r.id = e.msg.id
  BY Zenon
<1>4. 1 \in DOMAIN P /\ \A i \in DOMAIN Q : /\ i + 1 \in DOMAIN P /\ 1 < i + 1
                                           /\ \A j \in DOMAIN Q : i < j => i + 1 < j + 1
  BY <1>1
<1> HIDE DEF Q, e, r, S
<1>5. PoolInOrder(P, C, n, k, J) /\ BusInOrder(R, P, C, n, k, J)
  BY Zenon DEF LineInOrder
<1>6. PoolInOrder(Q, C, n, k, J)
  BY Zenon, <1>1, <1>4, <1>5 DEF PoolInOrder
<1>7. BusInOrder(R, Q, C, n, k, J)
  BY Zenon, <1>1, <1>4, <1>5 DEF BusInOrder
<1>8. ASSUME e.msg.type = "Data"
      PROVE  BusInOrder(S, Q, C, n, k, J)
  <2>1. ASSUME NEW i \in DOMAIN S
        PROVE  /\ Left(S[i].id, k, J)
               /\ S[i].c \in DOMAIN C /\ Precedes(S[i].id, C[S[i].c].wire[n])
               /\ \A j \in DOMAIN Q : Q[j].msg.type = "Data" /\ S[i].c = Q[j].c => S[i].id < Q[j].msg.id
               /\ \A j \in DOMAIN S : i < j /\ S[i].c = S[j].c => S[i].id < S[j].id
    <3>1. CASE i = Len(R) + 1
      <4>1. S[i].id = P[1].msg.id /\ S[i].c = P[1].c
        BY Zenon, <1>1, <1>2, <1>3, <3>1
      <4>2. \A j \in DOMAIN S : ~ (i < j)
        BY <1>2, <3>1
      <4> QED
        BY Zenon, <1>1, <1>4, <1>5, <1>8, <4>1, <4>2 DEF PoolInOrder
    <3>2. CASE i \in DOMAIN R
      <4>1. S[i] = R[i]
        BY Zenon, <1>2, <3>2
      <4>2. ASSUME NEW j \in DOMAIN S, i < j, S[i].c = S[j].c
            PROVE  S[i].id < S[j].id
        <5>1. CASE j = Len(R) + 1
          <6>1. S[j].id = P[1].msg.id /\ S[j].c = P[1].c
            BY Zenon, <1>1, <1>2, <1>3, <5>1
          <6> QED
            BY Zenon, <1>1, <1>4, <1>5, <1>8, <3>2, <4>1, <4>2, <6>1 DEF BusInOrder
        <5>2. CASE j \in DOMAIN R
          BY Zenon, <1>2, <1>5, <3>2, <4>1, <4>2, <5>2 DEF BusInOrder
        <5> QED
          BY <1>2, <5>1, <5>2
      <4> QED
        BY Zenon, <1>7, <3>2, <4>1, <4>2 DEF BusInOrder
    <3> QED
      BY <1>2, <3>1, <3>2
  <2> QED
    BY Zenon, <2>1 DEF BusInOrder
<1> QED
  BY Zenon, <1>6, <1>7, <1>8 DEF LineInOrder, Q, e, r, S

(* handle_p2p_tcp_event *)
LEMMA EventKeeps ==
    ASSUME P2PInv, NEW n \in Nodes, handle_p2p_tcp_event(n)
    PROVE  P2PInv'
<1> DEFINE w == Here(n)
           P == pool[n]
           e == Head(P)
           r == [c |-> e.c, id |-> e.msg.id]
<1>1. /\ P # <<>> /\ pool' = [pool EXCEPT ![n] = Tail(P)]
      /\ sent' = sent /\ now' = now
  BY Zenon DEF handle_p2p_tcp_event
<1>2. \/ /\ e.msg.type \in {"Hello", "Verack"} /\ Done(n, handle_handshake(w, n, e.dest, e.msg))
         /\ received' = received
      \/ e.msg.type = "Closed" /\ Done(n, handle_closed_event(w, n, e.dest)) /\ received' = received
      \/ /\ e.msg.type = "Data" /\ received' = [received EXCEPT ![n] = Append(received[n], r)]
         /\ conns' = conns /\ server' = server
  BY Zenon DEF handle_p2p_tcp_event
<1>3. w.conns = conns /\ w.s = server[n]
  BY Zenon DEF Here
<1>4. /\ conns \in Seq(Conns) /\ DOMAIN server = Nodes /\ \A m \in Nodes : ServerOk(server[m])
      /\ pool \in [Nodes -> Seq(PoolEvents)] /\ received \in [Nodes -> Seq(Receipts)] /\ sent \in Nat
      /\ now \in Nat /\ WorkOk(w)
  BY Zenon, <1>3 DEF P2PInv, P2PTypes, WorkOk
<1>5. P \in Seq(PoolEvents) /\ received[n] \in Seq(Receipts)
  BY Zenon, <1>4
<1> HIDE DEF w
<1>6. /\ pool' \in [Nodes -> Seq(PoolEvents)] /\ pool'[n] = Tail(P)
      /\ \A m \in Nodes : m # n => pool'[m] = pool[m]
  <2> DEFINE Q == Tail(P)
  <2>1. Q \in Seq(PoolEvents)
    BY <1>1, <1>5
  <2> HIDE DEF P, Q
  <2>2. pool' = [pool EXCEPT ![n] = Q]
    BY Zenon, <1>1 DEF Q
  <2> QED
    BY Zenon, <1>4, <2>1, <2>2 DEF Q
<1>7. e \in PoolEvents
  BY <1>1, <1>5
<1> HIDE DEF P
<1>8. ASSUME NEW v, NEW msg \in P2PMessages, msg.type # "Data", Done(n, v), WritesOk(n, w, v, msg),
             received' = received
      PROVE  P2PInv'
  <2>1. Writes(n, conns, v.conns, msg) /\ ServerOk(v.s) /\ v.s.jobs = server[n].jobs
    BY Zenon, <1>3, <1>8 DEF WritesOk
  <2>2. JobsInOrder(v.s.jobs, sent') /\ \A id \in Nat : Left(id, sent, server[n].jobs) => Left(id, sent', v.s.jobs)
    BY Zenon, <1>1, <2>1, Others DEF P2PInv, LineInOrder
  <2>3. sent' \in Nat /\ sent <= sent' /\ now' \in Nat
    BY <1>1, <1>4
  <2>4. Follows(msg, sent, server[n].jobs, sent', v.s.jobs)
    BY Zenon, <1>8 DEF Follows
  <2>5. /\ conns' \in Seq(Conns) /\ DOMAIN server' = Nodes /\ \A m \in Nodes : ServerOk(server'[m])
        /\ \A m \in Nodes :
              LineInOrder(m, conns', server'[Other(m)].jobs, pool[m], received[m], sent')
    BY Zenon, <1>8, <2>1, <2>2, <2>3, <2>4, WorkKeepsLines
  <2>6. LineInOrder(n, conns', server'[Other(n)].jobs, Tail(P), received[n], sent')
    <3>1. LineInOrder(n, conns', server'[Other(n)].jobs, P, received[n], sent')
      BY Zenon, <2>5 DEF P
    <3> QED
      BY Zenon, <1>1, <1>5, <3>1, LineHandles
  <2>7. \A m \in Nodes : LineInOrder(m, conns', server'[Other(m)].jobs, pool'[m], received'[m], sent')
    BY Zenon, <1>6, <1>8, <2>5, <2>6
  <2> QED
    BY Zenon, <1>4, <1>6, <1>8, <2>3, <2>5, <2>7, LinesMakeInv
<1>9. CASE e.msg.type \in {"Hello", "Verack"} /\ Done(n, handle_handshake(w, n, e.dest, e.msg))
           /\ received' = received
  <2>1. e.msg \in [type : {"Hello", "Verack"}, timestamp : Nat]
    <3>1. e.msg \in P2PMessages \/ e.msg = [type |-> "Closed"]
      BY Zenon, <1>7 DEF PoolEvents
    <3> HIDE DEF e
    <3>2. e.msg \notin [type : {"Data"}, id : Nat] /\ e.msg # [type |-> "Closed"]
      BY <1>9
    <3> QED
      BY Zenon, <3>1, <3>2 DEF P2PMessages
  <2> HIDE DEF e
  <2>2. PICK reply \in Veracks : WritesOk(n, w, handle_handshake(w, n, e.dest, e.msg), reply)
    BY Zenon, <1>4, <2>1, HandshakeWrites
  <2>3. reply \in P2PMessages /\ reply.type # "Data"
    BY Zenon DEF Veracks, P2PMessages
  <2> QED
    BY Zenon, <1>8, <1>9, <2>2, <2>3
<1>10. CASE e.msg.type = "Closed" /\ Done(n, handle_closed_event(w, n, e.dest)) /\ received' = received
  <2> DEFINE none == [type |-> "Verack", timestamp |-> 0]
  <2>1. none \in P2PMessages /\ none.type # "Data"
    BY Zenon DEF P2PMessages
  <2> HIDE DEF none, e
  <2>2. WritesOk(n, w, handle_closed_event(w, n, e.dest), none)
    BY Zenon, <1>4, ClosedEventCuts, CutsAreWrites
  <2> QED
    BY Zenon, <1>8, <1>10, <2>1, <2>2
<1>11. CASE /\ e.msg.type = "Data" /\ received' = [received EXCEPT ![n] = Append(received[n], r)]
            /\ conns' = conns /\ server' = server
  <2>1. r \in Receipts
    <3>1. e.c \in Nat /\ (e.msg \in P2PMessages \/ e.msg = [type |-> "Closed"])
      BY Zenon, <1>7 DEF PoolEvents
    <3> HIDE DEF e
    <3>2. e.msg.id \in Nat
      BY <1>11, <3>1 DEF P2PMessages
    <3> QED
      BY Zenon, <3>1, <3>2 DEF Receipts
  <2>2. \A m \in Nodes : LineInOrder(m, conns', server'[Other(m)].jobs, pool[m], received[m], sent')
    BY Zenon, <1>1, <1>11 DEF P2PInv
  <2>3. LineInOrder(n, conns', server'[Other(n)].jobs, Tail(P), Append(received[n], r), sent')
    <3>1. LineInOrder(n, conns', server'[Other(n)].jobs, P, received[n], sent')
      BY Zenon, <2>2 DEF P
    <3> QED
      BY Zenon, <1>1, <1>5, <1>11, <3>1, LineHandles
  <2> HIDE DEF r
  <2>4. /\ received' \in [Nodes -> Seq(Receipts)] /\ received'[n] = Append(received[n], r)
        /\ \A m \in Nodes : m # n => received'[m] = received[m]
    BY <1>4, <1>5, <1>11, <2>1
  <2>5. \A m \in Nodes : LineInOrder(m, conns', server'[Other(m)].jobs, pool'[m], received'[m], sent')
    BY Zenon, <1>6, <2>2, <2>3, <2>4
  <2>6. /\ conns' \in Seq(Conns) /\ DOMAIN server' = Nodes /\ \A m \in Nodes : ServerOk(server'[m])
        /\ sent' \in Nat /\ now' \in Nat
    BY Zenon, <1>1, <1>4, <1>11
  <2> QED
    BY Zenon, <1>6, <2>4, <2>5, <2>6, LinesMakeInv
<1> QED
  BY Zenon, <1>2, <1>9, <1>10, <1>11

(* The first message of a wire is put in the pool. *)
LEMMA LineReceives ==
    ASSUME NEW n \in Nodes, NEW C \in Seq(Conns), NEW J, NEW P \in Seq(PoolEvents),
           NEW R \in Seq(Receipts), NEW k, LineInOrder(n, C, J, P, R, k), NEW c \in DOMAIN C,
           C[c].wire[n] # <<>>, NEW D, DOMAIN D = DOMAIN C, NEW dest,
           D[c].wire[n] = Tail(C[c].wire[n]),
           \A d \in DOMAIN C : d # c => D[d].wire[n] = C[d].wire[n]
    PROVE  LineInOrder(n, D, J, Append(P, [dest |-> dest, c |-> c, msg |-> Head(C[c].wire[n])]), R, k)
<1> DEFINE q == C[c].wire[n]
           r == D[c].wire[n]
           e == [dest |-> dest, c |-> c, msg |-> Head(q)]
           Q == Append(P, e)
<1>1. q \in Seq(P2PMessages)
  <2>1. C[c] \in Conns
    OBVIOUS
  <2> QED
    BY Zenon, <2>1 DEF Conns
<1>2. e.c = c /\ e.msg = Head(q)
  BY Zenon
<1>3. q # <<>> /\ r = Tail(q)
  BY Zenon
<1>4. /\ DOMAIN Q = 1..(Len(P) + 1) /\ Len(P) \in Nat /\ DOMAIN P = 1..Len(P)
      /\ Q[Len(P) + 1] = e /\ \A i \in 1..Len(P) : Q[i] = P[i]
  OBVIOUS
<1>5. \A d \in DOMAIN C : WireInOrder(C[d].wire[n], k, J)
  BY Zenon DEF LineInOrder
<1>6. PoolInOrder(P, C, n, k, J) /\ BusInOrder(R, P, C, n, k, J)
  BY Zenon DEF LineInOrder
<1>7. WireInOrder(q, k, J)
  BY Zenon, <1>5
<1> HIDE DEF q, r, e, Q
<1>8. /\ Len(q) \in Nat /\ Len(q) >= 1 /\ Head(q) = q[1] /\ 1 \in DOMAIN q
      /\ DOMAIN r = 1..(Len(q) - 1)
      /\ \A i \in DOMAIN r : /\ r[i] = q[i + 1] /\ i + 1 \in DOMAIN q /\ 1 < i + 1
                             /\ \A j \in DOMAIN r : i < j => i + 1 < j + 1
  BY <1>1, <1>3
<1>9. WireInOrder(r, k, J) /\ (q[1].type = "Data" => Left(q[1].id, k, J) /\ Precedes(q[1].id, r))
  BY Zenon, <1>7, <1>8 DEF WireInOrder, Precedes
<1>10. \A id : Precedes(id, q) => Precedes(id, r)
  BY Zenon, <1>8 DEF Precedes
<1>11. \A d \in DOMAIN C : \A id : Precedes(id, C[d].wire[n]) => Precedes(id, D[d].wire[n])
  BY Zenon, <1>10 DEF q, r
<1>12. \A d \in DOMAIN D : WireInOrder(D[d].wire[n], k, J)
  BY Zenon, <1>5, <1>9 DEF r
<1>13. PoolInOrder(Q, D, n, k, J)
  <2>1. ASSUME NEW i \in DOMAIN Q, Q[i].msg.type = "Data"
        PROVE  /\ Left(Q[i].msg.id, k, J)
               /\ Q[i].c \in DOMAIN D /\ Precedes(Q[i].msg.id, D[Q[i].c].wire[n])
               /\ \A j \in DOMAIN Q : i < j /\ Q[j].msg.type = "Data" /\ Q[i].c = Q[j].c =>
                        Q[i].msg.id < Q[j].msg.id
    <3>1. CASE i = Len(P) + 1
      <4>1. Q[i].msg = q[1] /\ Q[i].c = c
        BY Zenon, <1>2, <1>4, <1>8, <3>1
      <4>2. \A j \in DOMAIN Q : ~ (i < j)
        BY <1>4, <3>1
      <4> QED
        BY Zenon, <1>9, <2>1, <4>1, <4>2 DEF r
    <3>2. CASE i \in DOMAIN P
      <4>1. Q[i] = P[i]
        BY Zenon, <1>4, <3>2
      <4>2. ASSUME NEW j \in DOMAIN Q, i < j, Q[j].msg.type = "Data", Q[i].c = Q[j].c
            PROVE  Q[i].msg.id < Q[j].msg.id
        <5>1. CASE j = Len(P) + 1
          <6>1. Q[j].msg = q[1] /\ Q[j].c = c
            BY Zenon, <1>2, <1>4, <1>8, <5>1
          <6>2. Precedes(Q[i].msg.id, C[Q[i].c].wire[n])
            BY Zenon, <1>6, <2>1, <3>2, <4>1 DEF PoolInOrder
          <6>3. Precedes(Q[i].msg.id, q)
            BY Zenon, <4>2, <6>1, <6>2 DEF q
          <6> QED
            BY Zenon, <1>8, <4>2, <6>1, <6>3 DEF Precedes
        <5>2. CASE j \in DOMAIN P
          <6>1. Q[j] = P[j]
            BY Zenon, <1>4, <5>2
          <6> QED
            BY Zenon, <1>6, <2>1, <3>2, <4>1, <4>2, <5>2, <6>1 DEF PoolInOrder
        <5> QED
          BY <1>4, <5>1, <5>2
      <4> QED
        BY Zenon, <1>6, <1>11, <2>1, <3>2, <4>1, <4>2 DEF PoolInOrder
    <3> QED
      BY <1>4, <3>1, <3>2
  <2> QED
    BY Zenon, <2>1 DEF PoolInOrder
<1>14. BusInOrder(R, Q, D, n, k, J)
  <2>1. ASSUME NEW i \in DOMAIN R, NEW j \in DOMAIN Q, Q[j].msg.type = "Data", R[i].c = Q[j].c
        PROVE  R[i].id < Q[j].msg.id
    <3>1. CASE j = Len(P) + 1
      <4>1. Q[j].msg = q[1] /\ Q[j].c = c
        BY Zenon, <1>2, <1>4, <1>8, <3>1
      <4>2. Precedes(R[i].id, C[R[i].c].wire[n])
        BY Zenon, <1>6 DEF BusInOrder
      <4>3. Precedes(R[i].id, q)
        BY Zenon, <2>1, <4>1, <4>2 DEF q
      <4> QED
        BY Zenon, <1>8, <2>1, <4>1, <4>3 DEF Precedes
    <3>2. CASE j \in DOMAIN P
      <4>1. Q[j] = P[j]
        BY Zenon, <1>4, <3>2
      <4> QED
        BY Zenon, <1>6, <2>1, <3>2, <4>1 DEF BusInOrder
    <3> QED
      BY <1>4, <3>1, <3>2
  <2> QED
    BY Zenon, <1>6, <1>11, <2>1 DEF BusInOrder
<1> QED
  BY Zenon, <1>12, <1>13, <1>14 DEF LineInOrder, Q, e, q

(* An event that is no message is put in the pool. *)
LEMMA LineCloses ==
    ASSUME NEW n, NEW C, NEW J, NEW P \in Seq(PoolEvents), NEW R, NEW k,
           LineInOrder(n, C, J, P, R, k), NEW e, e.msg.type # "Data"
    PROVE  LineInOrder(n, C, J, Append(P, e), R, k)
<1> DEFINE Q == Append(P, e)
<1>1. /\ DOMAIN Q = 1..(Len(P) + 1) /\ Len(P) \in Nat /\ DOMAIN P = 1..Len(P)
      /\ Q[Len(P) + 1] = e /\ \A i \in 1..Len(P) : Q[i] = P[i]
  OBVIOUS
<1> HIDE DEF Q
<1>2. \A i \in DOMAIN Q : Q[i].msg.type = "Data" => i \in DOMAIN P /\ Q[i] = P[i]
  BY <1>1
<1> QED
  BY Zenon, <1>2 DEF LineInOrder, PoolInOrder, BusInOrder, Q

(* Connections whose wires stay or are cut. *)
LEMMA CutKeeps ==
    ASSUME P2PInv, conns' \in Seq(Conns), DOMAIN conns' = DOMAIN conns,
           \A d \in DOMAIN conns : \A m \in Nodes :
                \/ conns'[d].wire[m] = conns[d].wire[m] \/ conns'[d].wire[m] = <<>>
                \/ Starts(conns'[d].wire[m], conns[d].wire[m]),
           server' = server, sent' = sent
    PROVE  \A m \in Nodes :
                LineInOrder(m, conns', server'[Other(m)].jobs, pool[m], received[m], sent')
<1> DEFINE none == [type |-> "Verack", timestamp |-> 0]
<1>1. none \in P2PMessages /\ none.type # "Data"
  BY Zenon DEF P2PMessages
<1> HIDE DEF none
<1> SUFFICES ASSUME NEW m \in Nodes
             PROVE  LineInOrder(m, conns', server'[Other(m)].jobs, pool[m], received[m], sent')
  BY Zenon
<1> DEFINE J == server[Other(m)].jobs
<1>2. conns \in Seq(Conns) /\ pool \in [Nodes -> Seq(PoolEvents)] /\ received \in [Nodes -> Seq(Receipts)]
  BY Zenon DEF P2PInv, P2PTypes
<1>3. pool[m] \in Seq(PoolEvents) /\ received[m] \in Seq(Receipts)
  BY Zenon, <1>2
<1>4. LineInOrder(m, conns, J, pool[m], received[m], sent)
  BY Zenon DEF P2PInv
<1> HIDE DEF J
<1>5. WiresMove(m, conns, conns', none)
  BY Zenon DEF WiresMove
<1>6. JobsInOrder(J, sent) /\ Follows(none, sent, J, sent, J)
  BY Zenon, <1>1, <1>4 DEF LineInOrder, Follows
<1>7. LineInOrder(m, conns', J, pool[m], received[m], sent)
  BY Zenon, <1>1, <1>2, <1>3, <1>4, <1>5, <1>6, LineMoves
<1> QED
  BY Zenon, <1>7 DEF J

(* An event is put in the pool of n. *)
LEMMA PoolsTypes ==
    ASSUME P2PInv, NEW n \in Nodes, NEW c \in DOMAIN conns, NEW msg,
           msg \in P2PMessages \/ msg = [type |-> "Closed"], Pools(n, c, msg)
    PROVE  LET e == [dest |-> NameOf(n, c), c |-> c, msg |-> msg]
           IN  /\ pool' \in [Nodes -> Seq(PoolEvents)] /\ pool'[n] = Append(pool[n], e)
               /\ \A m \in Nodes : m # n => pool'[m] = pool[m]
<1> DEFINE e == [dest |-> NameOf(n, c), c |-> c, msg |-> msg]
<1>1. conns \in Seq(Conns) /\ pool \in [Nodes -> Seq(PoolEvents)]
  BY Zenon DEF P2PInv, P2PTypes
<1>2. c \in Nat /\ NameOf(n, c) \in Nat
  BY <1>1 DEF NameOf, Out
<1>3. e \in PoolEvents
  BY Zenon, <1>2 DEF PoolEvents
<1>4. pool' = [pool EXCEPT ![n] = Append(pool[n], e)]
  BY Zenon DEF Pools
<1> HIDE DEF e
<1>5. pool[n] \in Seq(PoolEvents)
  BY Zenon, <1>1
<1>6. Append(pool[n], e) \in Seq(PoolEvents)
  BY <1>3, <1>5
<1>7. /\ pool' \in [Nodes -> Seq(PoolEvents)] /\ pool'[n] = Append(pool[n], e)
      /\ \A m \in Nodes : m # n => pool'[m] = pool[m]
  BY Zenon, <1>1, <1>4, <1>6
<1> QED
  BY Zenon, <1>7 DEF e

(* Receiver: the message at the head of the wire. *)
LEMMA MessageKeeps ==
    ASSUME P2PInv, NEW n \in Nodes, NEW c \in DOMAIN conns, conns[c].wire[n] # <<>>,
           Pools(n, c, Head(conns[c].wire[n])),
           conns' = [conns EXCEPT ![c] = [conns[c] EXCEPT !.wire =
                        [conns[c].wire EXCEPT ![n] = Tail(conns[c].wire[n])]]],
           UNCHANGED <<server, received, sent, losses, now>>
    PROVE  P2PInv'
<1> DEFINE x == conns[c]
           q == x.wire[n]
           msg == Head(q)
           e == [dest |-> NameOf(n, c), c |-> c, msg |-> msg]
           wires == [x.wire EXCEPT ![n] = Tail(q)]
           y == [x EXCEPT !.wire = wires]
<1>1. /\ conns \in Seq(Conns) /\ DOMAIN server = Nodes /\ \A m \in Nodes : ServerOk(server[m])
      /\ pool \in [Nodes -> Seq(PoolEvents)] /\ received \in [Nodes -> Seq(Receipts)] /\ sent \in Nat
      /\ now \in Nat
  BY Zenon DEF P2PInv, P2PTypes
<1>2. x \in Conns
  BY <1>1
<1>3. server' = server /\ received' = received /\ sent' = sent /\ now' = now
  BY Zenon
<1>4. \A m \in Nodes : x.wire[m] \in Seq(P2PMessages)
  <2> HIDE DEF x
  <2> QED
    BY Zenon, <1>2 DEF Conns
<1>5. q \in Seq(P2PMessages) /\ q # <<>>
  BY Zenon, <1>4
<1>6. msg \in P2PMessages /\ Tail(q) \in Seq(P2PMessages)
  <2> HIDE DEF q
  <2> QED
    BY <1>5
<1>7. /\ pool' \in [Nodes -> Seq(PoolEvents)] /\ pool'[n] = Append(pool[n], e)
      /\ \A m \in Nodes : m # n => pool'[m] = pool[m]
  BY Zenon, <1>6, PoolsTypes
<1>8. y \in Conns /\ y.wire = wires /\ wires[n] = Tail(q) /\ wires[Other(n)] = x.wire[Other(n)]
  <2> HIDE DEF x
  <2>1. wires \in [Nodes -> Seq(P2PMessages)] /\ wires[n] = Tail(q) /\ wires[Other(n)] = x.wire[Other(n)]
    BY Zenon, <1>2, <1>6, Others DEF Conns
  <2> HIDE DEF wires
  <2>2. y \in Conns /\ y.wire = wires
    BY Zenon, <1>2, <2>1 DEF Conns
  <2> QED
    BY Zenon, <2>1, <2>2
<1>9. conns' = [conns EXCEPT ![c] = y]
  BY Zenon
<1> HIDE DEF y, wires
<1>10. /\ conns' \in Seq(Conns) /\ DOMAIN conns' = DOMAIN conns
       /\ \A d \in DOMAIN conns : conns'[d] = IF d = c THEN y ELSE conns[d]
  <2> DEFINE D == [conns EXCEPT ![c] = y]
  <2>1. /\ D \in Seq(Conns) /\ DOMAIN D = DOMAIN conns
        /\ \A d \in DOMAIN conns : D[d] = IF d = c THEN y ELSE conns[d]
    BY Zenon, <1>1, <1>8, ConnChanges
  <2> QED
    BY Zenon, <1>9, <2>1
<1>11. /\ conns'[c].wire[n] = Tail(q)
       /\ \A d \in DOMAIN conns : d # c => conns'[d].wire[n] = conns[d].wire[n]
       /\ \A d \in DOMAIN conns : conns'[d].wire[Other(n)] = conns[d].wire[Other(n)]
  BY Zenon, <1>8, <1>10
<1>12. pool[n] \in Seq(PoolEvents) /\ received[n] \in Seq(Receipts)
       /\ pool[Other(n)] \in Seq(PoolEvents) /\ received[Other(n)] \in Seq(Receipts)
  BY Zenon, <1>1, Others
<1>13. LineInOrder(n, conns', server[Other(n)].jobs, pool'[n], received[n], sent)
  <2>1. LineInOrder(n, conns, server[Other(n)].jobs, pool[n], received[n], sent)
    BY Zenon DEF P2PInv
  <2>2. LineInOrder(n, conns', server[Other(n)].jobs, Append(pool[n], e), received[n], sent)
    <3> DEFINE J == server[Other(n)].jobs
    <3> HIDE DEF J
    <3> QED
      BY Zenon, <1>1, <1>5, <1>10, <1>11, <1>12, <2>1, LineReceives DEF J
  <2> QED
    BY Zenon, <1>7, <2>2
<1>14. LineInOrder(Other(n), conns', server[n].jobs, pool'[Other(n)], received[Other(n)], sent)
  <2> DEFINE J == server[n].jobs
             m == Other(n)
             none == [type |-> "Verack", timestamp |-> 0]
  <2>1. none \in P2PMessages /\ none.type # "Data"
    BY Zenon DEF P2PMessages
  <2> HIDE DEF none
  <2>2. LineInOrder(m, conns, J, pool[m], received[m], sent)
    BY Zenon, Others DEF P2PInv
  <2>3. WiresMove(m, conns, conns', none)
    BY Zenon, <1>10, <1>11 DEF WiresMove
  <2>4. JobsInOrder(J, sent) /\ Follows(none, sent, J, sent, J)
    BY Zenon, <2>1, <2>2 DEF LineInOrder, Follows
  <2>5. m \in Nodes /\ m # n
    BY Zenon, Others
  <2> HIDE DEF m, J
  <2>6. LineInOrder(m, conns', J, pool[m], received[m], sent)
    BY Zenon, <1>1, <1>12, <2>1, <2>2, <2>3, <2>4, <2>5, LineMoves DEF m
  <2> QED
    BY Zenon, <1>7, <2>5, <2>6 DEF m, J
<1>15. \A m \in Nodes : LineInOrder(m, conns', server'[Other(m)].jobs, pool'[m], received'[m], sent')
  BY Zenon, <1>3, <1>13, <1>14, Others
<1> QED
  BY Zenon, <1>1, <1>3, <1>7, <1>10, <1>15, LinesMakeInv

(* Receiver: the end of the stream. *)
LEMMA EndKeeps ==
    ASSUME P2PInv, NEW n \in Nodes, NEW c \in DOMAIN conns, Pools(n, c, [type |-> "Closed"]),
           conns' = [conns EXCEPT ![c] = [conns[c] EXCEPT !.rx = [conns[c].rx EXCEPT ![n] = FALSE]]],
           UNCHANGED <<server, received, sent, losses, now>>
    PROVE  P2PInv'
<1> DEFINE x == conns[c]
           rx == [x.rx EXCEPT ![n] = FALSE]
           y == [x EXCEPT !.rx = rx]
           msg == [type |-> "Closed"]
           e == [dest |-> NameOf(n, c), c |-> c, msg |-> msg]
<1>1. /\ conns \in Seq(Conns) /\ DOMAIN server = Nodes /\ \A m \in Nodes : ServerOk(server[m])
      /\ pool \in [Nodes -> Seq(PoolEvents)] /\ received \in [Nodes -> Seq(Receipts)] /\ sent \in Nat
      /\ now \in Nat
  BY Zenon DEF P2PInv, P2PTypes
<1>2. x \in Conns
  BY <1>1
<1>3. server' = server /\ received' = received /\ sent' = sent /\ now' = now
  BY Zenon
<1>4. y \in Conns /\ y.wire = x.wire
  <2> HIDE DEF x
  <2>1. rx \in [Nodes -> BOOLEAN]
    BY Zenon, <1>2 DEF Conns
  <2> HIDE DEF rx
  <2> QED
    BY Zenon, <1>2, <2>1 DEF Conns
<1>5. conns' = [conns EXCEPT ![c] = y]
  BY Zenon
<1>6. e.msg.type # "Data"
  BY Zenon
<1> HIDE DEF y
<1>7. /\ conns' \in Seq(Conns) /\ DOMAIN conns' = DOMAIN conns
      /\ \A d \in DOMAIN conns : conns'[d] = IF d = c THEN y ELSE conns[d]
  <2> DEFINE D == [conns EXCEPT ![c] = y]
  <2>1. /\ D \in Seq(Conns) /\ DOMAIN D = DOMAIN conns
        /\ \A d \in DOMAIN conns : D[d] = IF d = c THEN y ELSE conns[d]
    BY Zenon, <1>1, <1>4, ConnChanges
  <2> QED
    BY Zenon, <1>5, <2>1
<1>8. \A d \in DOMAIN conns : \A m \in Nodes : conns'[d].wire[m] = conns[d].wire[m]
  BY Zenon, <1>4, <1>7
<1>9. /\ pool' \in [Nodes -> Seq(PoolEvents)] /\ pool'[n] = Append(pool[n], e)
      /\ \A m \in Nodes : m # n => pool'[m] = pool[m]
  BY Zenon, PoolsTypes
<1> HIDE DEF e
<1>10. \A m \in Nodes : LineInOrder(m, conns', server'[Other(m)].jobs, pool[m], received[m], sent')
  BY Zenon, <1>3, <1>7, <1>8, CutKeeps
<1>11. LineInOrder(n, conns', server'[Other(n)].jobs, pool'[n], received[n], sent')
  <2>1. pool[n] \in Seq(PoolEvents)
    BY Zenon, <1>1
  <2> DEFINE J == server'[Other(n)].jobs
  <2>2. LineInOrder(n, conns', J, pool[n], received[n], sent')
    BY Zenon, <1>10
  <2> HIDE DEF J
  <2>3. LineInOrder(n, conns', J, Append(pool[n], e), received[n], sent')
    BY Zenon, <1>6, <2>1, <2>2, LineCloses
  <2> QED
    BY Zenon, <1>9, <2>3 DEF J
<1>12. \A m \in Nodes : LineInOrder(m, conns', server'[Other(m)].jobs, pool'[m], received'[m], sent')
  BY Zenon, <1>3, <1>9, <1>10, <1>11
<1> QED
  BY Zenon, <1>1, <1>3, <1>7, <1>9, <1>12, LinesMakeInv

(* SenderFails, SenderTimesOut, LoseUnsent and Break: a connection with other flags, its wires *)
(* as they were or cut.                                                                        *)
LEMMA ConnKeeps ==
    ASSUME P2PInv, NEW c \in DOMAIN conns, NEW y \in Conns, conns' = [conns EXCEPT ![c] = y],
           \A m \in Nodes : \/ y.wire[m] = conns[c].wire[m] \/ y.wire[m] = <<>>
                           \/ Starts(y.wire[m], conns[c].wire[m]),
           UNCHANGED <<server, pool, received, sent, now>>
    PROVE  P2PInv'
<1>1. /\ conns \in Seq(Conns) /\ DOMAIN server = Nodes /\ \A m \in Nodes : ServerOk(server[m])
      /\ pool \in [Nodes -> Seq(PoolEvents)] /\ received \in [Nodes -> Seq(Receipts)] /\ sent \in Nat
      /\ now \in Nat
  BY Zenon DEF P2PInv, P2PTypes
<1>2. server' = server /\ received' = received /\ sent' = sent /\ now' = now /\ pool' = pool
  BY Zenon
<1>3. /\ conns' \in Seq(Conns) /\ DOMAIN conns' = DOMAIN conns
      /\ \A d \in DOMAIN conns : conns'[d] = IF d = c THEN y ELSE conns[d]
  BY Zenon, <1>1, ConnChanges
<1>4. \A d \in DOMAIN conns : \A m \in Nodes :
            \/ conns'[d].wire[m] = conns[d].wire[m] \/ conns'[d].wire[m] = <<>>
            \/ Starts(conns'[d].wire[m], conns[d].wire[m])
  BY Zenon, <1>3
<1>5. \A m \in Nodes : LineInOrder(m, conns', server'[Other(m)].jobs, pool'[m], received'[m], sent')
  BY Zenon, <1>2, <1>3, <1>4, CutKeeps
<1> QED
  BY Zenon, <1>1, <1>2, <1>3, <1>5, LinesMakeInv

(* The task that sends on a connection ends, and what is on the wire stays. *)
LEMMA SenderFailsKeeps ==
    ASSUME P2PInv, NEW n \in Nodes, NEW c \in DOMAIN conns, SenderFails(n, c)
    PROVE  P2PInv'
<1>1. conns \in Seq(Conns)
  BY Zenon DEF P2PInv, P2PTypes
<1>2. conns[c] \in Conns
  BY <1>1
<1>3. SenderGone(conns[c], n) \in Conns /\ SenderGone(conns[c], n).wire = conns[c].wire
  BY Zenon, <1>2, GoneConn
<1>4. /\ conns' = [conns EXCEPT ![c] = SenderGone(conns[c], n)]
      /\ UNCHANGED <<server, pool, received, sent, now>>
  BY Zenon DEF SenderFails
<1> QED
  BY Zenon, <1>3, <1>4, ConnKeeps

(* The sender is gone, and the last messages are not written. *)
LEMMA UnwrittenConn ==
    ASSUME NEW n \in Nodes, NEW x \in Conns, NEW k \in 0..Len(x.wire[Other(n)])
    PROVE  /\ Unwritten(x, n, k) \in Conns /\ Unwritten(x, n, k).wire[n] = x.wire[n]
           /\ Starts(Unwritten(x, n, k).wire[Other(n)], x.wire[Other(n)])
<1> DEFINE q == x.wire[Other(n)]
           r == SubSeq(q, 1, Len(q) - k)
           y == SenderGone(x, n)
           wires == [x.wire EXCEPT ![Other(n)] = r]
<1>1. x.wire \in [Nodes -> Seq(P2PMessages)] /\ q \in Seq(P2PMessages)
  BY Zenon, Others DEF Conns
<1>2. r \in Seq(P2PMessages) /\ Starts(r, q)
  <2>1. k \in 0..Len(q)
    BY Zenon
  <2> HIDE DEF q
  <2>2. Len(q) \in Nat /\ DOMAIN q = 1..Len(q) /\ Len(q) - k \in 0..Len(q)
    BY <1>1, <2>1
  <2>3. r \in Seq(P2PMessages) /\ DOMAIN r = 1..(Len(q) - k) /\ \A i \in 1..(Len(q) - k) : r[i] = q[i]
    BY <1>1, <2>2
  <2> QED
    BY <2>2, <2>3 DEF Starts
<1>3. y \in Conns /\ y.wire = x.wire
  BY Zenon, GoneConn
<1>4. Unwritten(x, n, k) = [y EXCEPT !.wire = wires]
  BY Zenon DEF Unwritten
<1> HIDE DEF r, y, q
<1>5. wires \in [Nodes -> Seq(P2PMessages)] /\ wires[n] = x.wire[n] /\ wires[Other(n)] = r
  BY Zenon, <1>1, <1>2, Others
<1> HIDE DEF wires
<1>6. Unwritten(x, n, k) \in Conns /\ Unwritten(x, n, k).wire = wires
  BY Zenon, <1>3, <1>4, <1>5 DEF Conns
<1> QED
  BY Zenon, <1>2, <1>5, <1>6 DEF q

(* SenderTimesOut and LoseUnsent *)
LEMMA UnwrittenKeeps ==
    ASSUME P2PInv, NEW n \in Nodes, NEW c \in DOMAIN conns, SenderTimesOut(n, c) \/ LoseUnsent(n, c)
    PROVE  P2PInv'
<1>1. conns \in Seq(Conns)
  BY Zenon DEF P2PInv, P2PTypes
<1>2. conns[c] \in Conns
  BY <1>1
<1>3. conns[c].wire[Other(n)] \in Seq(P2PMessages)
  BY Zenon, <1>2, Others DEF Conns
<1>4. 1..Len(conns[c].wire[Other(n)]) \subseteq 0..Len(conns[c].wire[Other(n)])
  BY <1>3
<1>5. UNCHANGED <<server, pool, received, sent, now>>
  BY Zenon DEF SenderTimesOut, LoseUnsent
<1>6. PICK k \in 0..Len(conns[c].wire[Other(n)]) :
            conns' = [conns EXCEPT ![c] = Unwritten(conns[c], n, k)]
  BY Zenon, <1>4 DEF SenderTimesOut, LoseUnsent
<1> DEFINE y == Unwritten(conns[c], n, k)
<1>7. /\ y \in Conns /\ y.wire[n] = conns[c].wire[n]
      /\ Starts(y.wire[Other(n)], conns[c].wire[Other(n)])
  BY Zenon, <1>2, UnwrittenConn
<1>8. conns' = [conns EXCEPT ![c] = y]
  BY Zenon, <1>6
<1> HIDE DEF y
<1>9. \A m \in Nodes : \/ y.wire[m] = conns[c].wire[m] \/ y.wire[m] = <<>>
                      \/ Starts(y.wire[m], conns[c].wire[m])
  BY Zenon, <1>7, Others
<1> QED
  BY Zenon, <1>5, <1>7, <1>8, <1>9, ConnKeeps

(* A broken connection loses what is on it. *)
LEMMA BreakKeeps ==
    ASSUME P2PInv, NEW c \in DOMAIN conns, Break(c)
    PROVE  P2PInv'
<1> DEFINE x == conns[c]
           cut == [n \in Nodes |-> <<>>]
           y == [x EXCEPT !.broken = TRUE, !.wire = cut]
<1>1. conns \in Seq(Conns)
  BY Zenon DEF P2PInv, P2PTypes
<1>2. x \in Conns
  BY <1>1
<1>3. conns' = [conns EXCEPT ![c] = y] /\ UNCHANGED <<server, pool, received, sent, now>>
  BY Zenon DEF Break
<1>4. cut \in [Nodes -> Seq(P2PMessages)] /\ \A n \in Nodes : cut[n] = <<>>
  OBVIOUS
<1> HIDE DEF cut, x
<1>5. y \in Conns /\ y.wire = cut
  BY Zenon, <1>2, <1>4 DEF Conns
<1>6. \A m \in Nodes : y.wire[m] = <<>>
  BY Zenon, <1>4, <1>5
<1> HIDE DEF y
<1> QED
  BY Zenon, <1>3, <1>5, <1>6, ConnKeeps

WiresStay(w, v) ==
    /\ ServerOk(v.s) /\ v.s.jobs = w.s.jobs
    /\ v.conns \in Seq(Conns) /\ DOMAIN v.conns = DOMAIN w.conns
    /\ \A d \in DOMAIN w.conns : v.conns[d].wire = w.conns[d].wire

(* setup_stream leaves the wires as they are. *)
LEMMA SetupWires ==
    ASSUME NEW n \in Nodes, NEW w, WorkOk(w), NEW name, NEW c
    PROVE  WiresStay(w, setup_stream(w, n, name, c))
<1> DEFINE v == setup_stream(w, n, name, c)
           t == w.s.sockets[name]
           C == w.conns
           D == [C EXCEPT ![t] = SenderGone(C[t], n)]
           sockets == (name :> c) @@ w.s.sockets
<1>1. C \in Seq(Conns) /\ ServerOk(w.s)
  BY Zenon DEF WorkOk
<1>2. (v.conns = D \/ v.conns = C) /\ v.s = [w.s EXCEPT !.sockets = sockets]
  BY Zenon DEF setup_stream
<1>3. ServerOk(v.s) /\ v.s.jobs = w.s.jobs
  <2> HIDE DEF v, sockets
  <2> QED
    BY Zenon, <1>1, <1>2 DEF ServerOk
<1>4. \A d \in DOMAIN C : C[d] \in Conns
  BY <1>1
<1>5. /\ D \in Seq(Conns) /\ DOMAIN D = DOMAIN C
      /\ \A d \in DOMAIN C : D[d] = IF d = t THEN SenderGone(C[t], n) ELSE C[d]
  <2>1. t \in DOMAIN C => SenderGone(C[t], n) \in Conns
    BY Zenon, <1>4, GoneConn
  <2> HIDE DEF t, C
  <2> QED
    BY Zenon, <1>1, <2>1, ConnChanges
<1> HIDE DEF D, C, t
<1>6. \A d \in DOMAIN C : D[d].wire = C[d].wire
  <2>1. \A d \in DOMAIN C : SenderGone(C[d], n).wire = C[d].wire
    BY Zenon, <1>4, GoneConn
  <2> QED
    BY Zenon, <1>5, <2>1
<1> HIDE DEF v
<1>7. /\ v.conns \in Seq(Conns) /\ DOMAIN v.conns = DOMAIN C
      /\ \A d \in DOMAIN C : v.conns[d].wire = C[d].wire
  BY Zenon, <1>1, <1>2, <1>5, <1>6
<1> QED
  BY Zenon, <1>3, <1>7 DEF WiresStay, v, C

(* do_handshake: one more connection, with nothing on its wires but the Hello. *)
LEMMA ConnectKeeps ==
    ASSUME P2PInv, NEW n \in Nodes, do_handshake(n)
    PROVE  P2PInv'
<1>1. /\ conns \in Seq(Conns) /\ DOMAIN server = Nodes /\ \A m \in Nodes : ServerOk(server[m])
      /\ pool \in [Nodes -> Seq(PoolEvents)] /\ received \in [Nodes -> Seq(Receipts)] /\ sent \in Nat
      /\ now \in Nat
  BY Zenon DEF P2PInv, P2PTypes
<1> DEFINE c == Len(conns) + 1
           opened == [client |-> n, tx |-> [m \in Nodes |-> TRUE], rx |-> [m \in Nodes |-> TRUE],
                      wire |-> [m \in Nodes |-> <<>>], broken |-> FALSE]
           sockets == (c :> c) @@ server[Other(n)].sockets
           accepting == [server[Other(n)] EXCEPT !.sockets = sockets]
           connected == [server[n] EXCEPT !.tasks = server[n].tasks - 1,
                                          !.connecting = {"HandshakeStartedAt"}]
           C == Append(conns, opened)
           u == [conns |-> C, s |-> connected]
           w == setup_stream(u, n, Out, c)
           hello(timestamp) == [type |-> "Hello", timestamp |-> timestamp]
<1>2. PICK timestamp \in now..(now + 1) :
        /\ now' = timestamp /\ conns' = tcp_send(w, n, Out, hello(timestamp)).conns
        /\ server' = [m \in Nodes |-> IF m = n THEN tcp_send(w, n, Out, hello(timestamp)).s ELSE accepting]
        /\ UNCHANGED <<pool, received, sent, losses>>
  BY Zenon DEF do_handshake
<1> DEFINE msg == hello(timestamp)
           v == tcp_send(w, n, Out, msg)
<1>3. Other(n) \in Nodes /\ Other(n) # n /\ Other(Other(n)) = n /\ \A m \in Nodes : m = n \/ m = Other(n)
  BY Zenon, Others
<1>4. timestamp \in Nat /\ now' = timestamp /\ pool' = pool /\ received' = received /\ sent' = sent
  BY <1>1, <1>2
<1>5. msg \in P2PMessages /\ msg.type # "Data"
  BY Zenon, <1>4 DEF P2PMessages
<1>6. conns' = v.conns
  BY Zenon, <1>2
<1>7. DOMAIN server' = Nodes /\ server'[n] = v.s /\ server'[Other(n)] = accepting
  <2> HIDE DEF v, accepting
  <2>1. server' = [m \in Nodes |-> IF m = n THEN v.s ELSE accepting]
    BY Zenon, <1>2 DEF v
  <2> QED
    BY Zenon, <1>3, <2>1
<1>8. u.conns = C /\ u.s = connected
  BY Zenon
<1>9. opened \in Conns /\ \A m \in Nodes : opened.wire[m] = <<>>
  BY DEF Conns
<1>10. ServerOk(connected) /\ connected.jobs = server[n].jobs
  BY Zenon, <1>1 DEF ServerOk
<1>11. ServerOk(accepting) /\ accepting.jobs = server[Other(n)].jobs
  <2> HIDE DEF sockets
  <2> QED
    BY Zenon, <1>1, <1>3 DEF ServerOk
<1> HIDE DEF u, w, v, msg, hello, connected, accepting, opened
<1>12. /\ C \in Seq(Conns) /\ DOMAIN C = 1..c /\ DOMAIN conns = 1..Len(conns) /\ Len(conns) \in Nat
       /\ \A d \in DOMAIN conns : C[d] = conns[d]
       /\ C[c] = opened
  BY <1>1, <1>9
<1> HIDE DEF C
<1>13. WorkOk(u)
  BY Zenon, <1>8, <1>10, <1>12 DEF WorkOk
<1>14. /\ ServerOk(w.s) /\ w.s.jobs = server[n].jobs
       /\ w.conns \in Seq(Conns) /\ DOMAIN w.conns = DOMAIN C
       /\ \A d \in DOMAIN C : w.conns[d].wire = C[d].wire
  <2>1. WiresStay(u, w)
    BY Zenon, <1>13, SetupWires DEF w
  <2> QED
    BY Zenon, <1>8, <1>10, <2>1 DEF WiresStay
<1>15. WritesOk(n, w, v, msg)
  BY Zenon, <1>5, <1>14, SendWrites DEF WorkOk, v
<1>16. /\ ServerOk(v.s) /\ v.s.jobs = server[n].jobs /\ conns' \in Seq(Conns) /\ DOMAIN conns' = DOMAIN C
       /\ \A d \in DOMAIN C : \A m \in Nodes :
            \/ conns'[d].wire[m] = C[d].wire[m] \/ conns'[d].wire[m] = <<>>
            \/ conns'[d].wire[m] = Append(C[d].wire[m], msg)
  BY Zenon, <1>3, <1>6, <1>14, <1>15 DEF WritesOk, Writes
<1>17. ASSUME NEW m \in Nodes
       PROVE  WiresMove(m, conns, conns', msg)
  <2>1. DOMAIN conns \subseteq DOMAIN conns'
    BY <1>12, <1>16
  <2>2. \A d \in DOMAIN conns : \/ conns'[d].wire[m] = conns[d].wire[m]
                                \/ conns'[d].wire[m] = <<>>
                                \/ conns'[d].wire[m] = Append(conns[d].wire[m], msg)
    BY Zenon, <1>12, <1>16, <2>1
  <2>3. \A d \in DOMAIN conns' \ DOMAIN conns : d = c
    BY <1>12, <1>16
  <2>4. conns'[c].wire[m] = <<>> \/ conns'[c].wire[m] = Append(<<>>, msg)
    <3>1. c \in DOMAIN C
      BY <1>12
    <3> HIDE DEF c
    <3> QED
      BY Zenon, <1>9, <1>12, <1>16, <3>1
  <2>5. \A i \in DOMAIN conns'[c].wire[m] : conns'[c].wire[m][i].type # "Data"
    BY <1>5, <2>4
  <2> QED
    BY Zenon, <2>1, <2>2, <2>3, <2>5 DEF WiresMove
<1>18. ASSUME NEW m \in Nodes
       PROVE  LineInOrder(m, conns', server'[Other(m)].jobs, pool'[m], received'[m], sent')
  <2> DEFINE J == server[Other(m)].jobs
  <2>1. server'[Other(m)].jobs = J
    BY Zenon, <1>3, <1>7, <1>11, <1>16
  <2>2. LineInOrder(m, conns, J, pool[m], received[m], sent)
    BY Zenon DEF P2PInv
  <2>3. pool[m] \in Seq(PoolEvents) /\ received[m] \in Seq(Receipts)
    BY Zenon, <1>1
  <2> HIDE DEF J
  <2>4. JobsInOrder(J, sent) /\ Follows(msg, sent, J, sent, J)
    BY Zenon, <1>5, <2>2 DEF LineInOrder, Follows
  <2>5. WiresMove(m, conns, conns', msg)
    BY Zenon, <1>17
  <2>6. LineInOrder(m, conns', J, pool[m], received[m], sent)
    BY Zenon, <1>1, <1>5, <2>2, <2>3, <2>4, <2>5, LineMoves
  <2> QED
    BY Zenon, <1>4, <2>1, <2>6
<1>19. \A m \in Nodes : ServerOk(server'[m])
  BY Zenon, <1>3, <1>7, <1>11, <1>16
<1>20. sent' \in Nat /\ now' \in Nat /\ pool' \in [Nodes -> Seq(PoolEvents)]
       /\ received' \in [Nodes -> Seq(Receipts)]
  BY Zenon, <1>1, <1>4
<1> QED
  BY Zenon, <1>7, <1>16, <1>18, <1>19, <1>20, LinesMakeInv

---------------------------------------------------------------------------
(* The invariant *)

(* No node has sent anything at first. *)
LEMMA P2PInvInit == P2PInit => P2PInv
<1> SUFFICES ASSUME P2PInit PROVE P2PInv
  BY Zenon
<1>1. PICK booting : server = [n \in Nodes |-> IF n \in booting THEN start_connection_task(NewServer)
                                                              ELSE NewServer]
  BY Zenon DEF P2PInit
<1>2. /\ conns = <<>> /\ pool = [n \in Nodes |-> <<>>] /\ received = [n \in Nodes |-> <<>>]
      /\ now = 0 /\ sent = 0
  BY Zenon DEF P2PInit
<1>3. sent \in Nat /\ now \in Nat
  BY Zenon, <1>2
<1>4. /\ ServerOk(NewServer) /\ NewServer.jobs = <<>>
      /\ ServerOk(start_connection_task(NewServer)) /\ start_connection_task(NewServer).jobs = <<>>
  <2>1. ServerOk(NewServer) /\ NewServer.jobs = <<>>
    BY DEF ServerOk, NewServer
  <2> QED
    BY Zenon, <2>1 DEF ServerOk, start_connection_task
<1>5. DOMAIN server = Nodes /\ \A n \in Nodes : ServerOk(server[n]) /\ server[n].jobs = <<>>
  <2> HIDE DEF Nodes
  <2>1. DOMAIN server = Nodes
    BY Zenon, <1>1
  <2>2. \A n \in Nodes : server[n] = start_connection_task(NewServer) \/ server[n] = NewServer
    BY Zenon, <1>1
  <2> QED
    BY Zenon, <1>4, <2>1, <2>2
<1>6. conns \in Seq(Conns) /\ pool \in [Nodes -> Seq(PoolEvents)] /\ received \in [Nodes -> Seq(Receipts)]
  BY <1>2
<1>7. ASSUME NEW n \in Nodes
      PROVE  LineInOrder(n, conns, server[Other(n)].jobs, pool[n], received[n], sent)
  <2>1. server[Other(n)].jobs = <<>>
    BY Zenon, <1>5, Others
  <2>2. conns = <<>> /\ pool[n] = <<>> /\ received[n] = <<>>
    BY Zenon, <1>2
  <2>3. LineInOrder(n, <<>>, <<>>, <<>>, <<>>, sent)
    BY DEF LineInOrder, JobsInOrder, PoolInOrder, BusInOrder
  <2> QED
    BY Zenon, <2>1, <2>2, <2>3
<1> QED
  BY Zenon, <1>3, <1>5, <1>6, <1>7 DEF P2PInv, P2PTypes

(* Every step keeps the invariant. *)
LEMMA P2PInvStep == P2PInv /\ [P2PNext]_p2pVars => P2PInv'
<1> SUFFICES ASSUME P2PInv, [P2PNext]_p2pVars PROVE P2PInv'
  BY Zenon
<1>1. CASE UNCHANGED p2pVars
  BY Zenon, <1>1 DEF p2pVars, P2PInv, P2PTypes
<1>2. ASSUME NEW n \in Nodes, NEW c \in DOMAIN conns, Receiver(n, c)
      PROVE  P2PInv'
  BY Zenon, <1>2, MessageKeeps, EndKeeps DEF Receiver
<1>3. CASE P2PStep
  BY Zenon, <1>2, <1>3, ConnectKeeps, EventKeeps, PingKeeps, OutboundKeeps, PollKeeps,
     SenderFailsKeeps, UnwrittenKeeps, BreakKeeps DEF P2PStep
<1> QED
  BY Zenon, <1>1, <1>3 DEF P2PNext

(* On a connection messages are received in the order the modules sent them, those for one  *)
(* peer and those for all alike, however many connections are opened, broken and dropped.    *)
THEOREM MessagesStayInOrder == P2PSpec => []ReceivedInOrder
<1>1. P2PInv => ReceivedInOrder
  BY Zenon DEF P2PInv, LineInOrder, BusInOrder, ReceivedInOrder
<1> QED
  BY <1>1, P2PInvInit, P2PInvStep, PTL DEF P2PSpec

---------------------------------------------------------------------------
(* The block stream: ranges of heights and the types of the stream. *)

(* A non-empty set of natural numbers has a least element. *)
LEMMA LeastNat ==
    ASSUME NEW S \in SUBSET Nat, S # {}
    PROVE  \E m \in S : \A n \in S : m <= n
<1> DEFINE Less == OpToRel(<, Nat)
<1>1. \A a, b \in Nat : a < b => <<a, b>> \in Less
  BY Zenon DEF OpToRel
<1>2. IsWellFoundedOn(Less, Nat)
  BY Zenon, NatLessThanWellFounded
<1> HIDE DEF Less
<1>3. PICK m \in S : \A n \in S : ~(<<n, m>> \in Less)
  BY Zenon, <1>2, WFMin
<1>4. \A n \in S : m <= n
  <2> TAKE n \in S
  <2>1. m \in Nat /\ n \in Nat /\ ~(n < m)
    BY Zenon, <1>1, <1>3
  <2> QED
    BY <2>1
<1> QED
  BY Zenon, <1>3, <1>4

(* A function on 1..n is a sequence of length n. *)
LEMMA FunctionIsSeq ==
    ASSUME NEW S, NEW n \in Nat, NEW f \in [1..n -> S]
    PROVE  f \in Seq(S) /\ Len(f) = n
  OBVIOUS

(* The length and the elements of a range. *)
LEMMA RangeShape ==
    ASSUME NEW a \in Nat, NEW b \in Nat, a <= b
    PROVE  /\ HeightRange(a, b - 1) \in Seq(Int)
           /\ Len(HeightRange(a, b - 1)) = b - a
           /\ \A i \in 1..(b - a) : HeightRange(a, b - 1)[i] = a + i - 1
<1> DEFINE n == b - a
           f == [i \in 1..n |-> a + i - 1]
<1>1. n \in Nat
  OBVIOUS
<1>2. HeightRange(a, b - 1) = f
  <2>1. CASE a = b
    <3>1. f = <<>>
      BY <2>1
    <3> QED
      BY <2>1, <3>1 DEF HeightRange
  <2>2. CASE a < b
    BY <2>2 DEF HeightRange
  <2> QED
    BY <2>1, <2>2
<1>3. f \in [1..n -> Int]
  BY <1>1
<1> HIDE DEF n
<1>4. f \in Seq(Int) /\ Len(f) = n
  BY Zenon, <1>1, <1>3, FunctionIsSeq
<1> QED
  BY Zenon, <1>2, <1>4 DEF n

(* Adjacent ranges concatenate. *)
LEMMA RangeConcat ==
    ASSUME NEW a \in Nat, NEW b \in Nat, NEW c \in Nat, a <= b, b <= c
    PROVE  HeightRange(a, b - 1) \o HeightRange(b, c - 1) = HeightRange(a, c - 1)
<1> DEFINE l == HeightRange(a, b - 1)
           r == HeightRange(b, c - 1)
           w == HeightRange(a, c - 1)
<1>1. l \in Seq(Int) /\ Len(l) = b - a /\ \A i \in 1..(b - a) : l[i] = a + i - 1
  BY Zenon, RangeShape
<1>2. r \in Seq(Int) /\ Len(r) = c - b /\ \A i \in 1..(c - b) : r[i] = b + i - 1
  BY Zenon, RangeShape
<1>3. w \in Seq(Int) /\ Len(w) = c - a /\ \A i \in 1..(c - a) : w[i] = a + i - 1
  <2>1. a <= c
    OBVIOUS
  <2> QED
    BY Zenon, <2>1, RangeShape
<1> HIDE DEF l, r, w
<1>4. /\ l \o r \in Seq(Int) /\ Len(l \o r) = Len(l) + Len(r)
      /\ \A i \in 1..(Len(l) + Len(r)) :
            (l \o r)[i] = IF i <= Len(l) THEN l[i] ELSE r[i - Len(l)]
  <2>1. l \in Seq(Int) /\ r \in Seq(Int)
    BY Zenon, <1>1, <1>2
  <2> QED
    BY Zenon, <2>1, ConcatProperties
<1>5. ASSUME NEW i \in 1..(c - a)
      PROVE  (l \o r)[i] = w[i]
  <2>1. CASE i <= b - a
    BY <1>1, <1>2, <1>3, <1>4, <2>1
  <2>2. CASE i > b - a
    <3>1. (l \o r)[i] = r[i - (b - a)] /\ i - (b - a) \in 1..(c - b)
      BY <1>1, <1>2, <1>4, <2>2
    <3>2. r[i - (b - a)] = b + (i - (b - a)) - 1
      BY Zenon, <1>2, <3>1
    <3>3. w[i] = a + i - 1
      BY Zenon, <1>3
    <3>4. b + (i - (b - a)) - 1 = a + i - 1
      OBVIOUS
    <3> QED
      BY Zenon, <3>1, <3>2, <3>3, <3>4
  <2>3. i <= b - a \/ i > b - a
    OBVIOUS
  <2> QED
    BY Zenon, <2>1, <2>2, <2>3 DEF l, r, w
<1>6. l \o r = w
  <2>1. Len(l \o r) = Len(w)
    <3> DEFINE x == Len(l \o r)
               y == Len(l)
               z == Len(r)
               u == Len(w)
    <3>1. x = y + z /\ y = b - a /\ z = c - b /\ u = c - a
      BY Zenon, <1>1, <1>2, <1>3, <1>4
    <3> HIDE DEF x, y, z, u
    <3>2. x = u
      BY <3>1
    <3> QED
      BY Zenon, <3>2 DEF x, u
  <2>2. \A i \in 1..Len(w) : (l \o r)[i] = w[i]
    BY Zenon, <1>3, <1>5
  <2> QED
    BY Zenon, <1>3, <1>4, <2>1, <2>2, SeqEqual
<1> QED
  BY Zenon, <1>6 DEF l, r, w

(* The range of stored heights is a sequence of heights. *)
LEMMA RangeType ==
    ASSUME NEW from \in Nat, NEW to \in -1..MaxHeight
    PROVE  HeightRange(from, to) \in Seq(Heights)
<1>1. CASE from > to
  BY <1>1 DEF HeightRange
<1>2. CASE from <= to
  <2>1. \A i \in 1..(to - from + 1) : from + i - 1 \in Heights
    BY <1>2, MaxHeightAssumption DEF Heights
  <2>2. to - from + 1 \in Nat
    BY <1>2, MaxHeightAssumption
  <2> QED
    BY <1>2, <2>1, <2>2, MaxHeightAssumption DEF HeightRange
<1> QED
  BY <1>1, <1>2, MaxHeightAssumption

(* The server's steps keep the stream well typed. *)
LEMMA ServerType == StreamTypeOK /\ ServerNext => StreamTypeOK'
<1> SUFFICES ASSUME StreamTypeOK, ServerNext PROVE StreamTypeOK'
  BY Zenon
<1> USE MaxHeightAssumption, MaxReconnectsAssumption DEF StreamTypeOK, NoRequest
<1>1. CASE SetupStream
  BY Zenon, <1>1 DEF SetupStream
<1>2. CASE AddProcessedBlock
  <2>1. PICK last \in (tip + 1)..MaxHeight :
            /\ tip' = last
            /\ wire' = IF conn = "registered" THEN wire \o HeightRange(tip + 1, last) ELSE wire
    BY Zenon, <1>2 DEF AddProcessedBlock
  <2>2. HeightRange(tip + 1, last) \in Seq(Heights)
    BY RangeType DEF Heights
  <2>3. wire \o HeightRange(tip + 1, last) \in Seq(Heights)
    BY Zenon, <2>2, ConcatProperties
  <2>4. wire' \in Seq(Heights) /\ tip' \in -1..MaxHeight
    BY <2>1, <2>3
  <2> QED
    BY Zenon, <1>2, <2>4 DEF AddProcessedBlock
<1>3. CASE StartStreamingToPeer
  <2>1. HeightRange(request, tip) \in Seq(Heights)
    BY Zenon, <1>3, RangeType DEF StartStreamingToPeer, Heights
  <2> QED
    BY Zenon, <1>3, <2>1 DEF StartStreamingToPeer
<1>4. CASE StreamOneBlock
  BY <1>4 DEF StreamOneBlock
<1>5. CASE DropPeerStream
  BY <1>5 DEF DropPeerStream
<1> QED
  BY Zenon, <1>1, <1>2, <1>3, <1>4, <1>5 DEF ServerNext

---------------------------------------------------------------------------
(* SignedDAListener. *)

(* Draining stops at the first height missing from the buffer, which exists because the *)
(* buffer holds no block above MaxHeight.                                               *)
LEMMA GapProperties ==
    ASSUME NEW next \in 0..(MaxHeight + 1), NEW buffer \in SUBSET Heights
    PROVE  /\ GapFrom(next, buffer) \in next..(MaxHeight + 1)
           /\ GapFrom(next, buffer) \notin buffer
           /\ next..(GapFrom(next, buffer) - 1) \subseteq buffer
<1> DEFINE Missing == {n \in next..(MaxHeight + 1) : n \notin buffer}
<1>1. MaxHeight + 1 \in Missing /\ Missing \in SUBSET Nat
  BY MaxHeightAssumption DEF Heights
<1>2. PICK m \in Missing : \A n \in Missing : m <= n
  BY Zenon, <1>1, LeastNat
<1>3. m \in next..(MaxHeight + 1) /\ m \notin buffer /\ next..(m - 1) \subseteq buffer
  BY <1>2, MaxHeightAssumption
<1> QED
  BY Zenon, <1>3 DEF GapFrom

(* Draining from next stops at a height at or after it that the buffer does not hold. *)
LEMMA DrainProperties ==
    ASSUME NEW next \in 0..(MaxHeight + 1), NEW buffer \in SUBSET Heights,
           \A b \in buffer : b >= next
    PROVE  LET end == process_buffered_blocks(next, buffer)
           IN  end \in next..(MaxHeight + 1) /\ end \notin buffer
  BY GapProperties, MaxHeightAssumption DEF process_buffered_blocks, IsFirst, Heights

(* The inductive invariant: the checked invariants, with their types. *)
SignedInv == SignedTypeOK /\ PublishedInOrder /\ BufferStrictlyAhead /\ StartBlock <= current_block

(* The invariant holds when the listener starts. *)
LEMMA SignedInitInv == SignedInit => SignedInv
<1> SUFFICES ASSUME SignedInit PROVE SignedInv
  BY Zenon
<1>1. SignedTypeOK
  BY MaxHeightAssumption, MaxReconnectsAssumption, StartBlockAssumption, MaxSendFailuresAssumption
  DEF SignedInit, StreamInit, SignedTypeOK, StreamTypeOK, Heights, NoRequest
<1>2. PublishedInOrder
  BY MaxHeightAssumption, StartBlockAssumption DEF SignedInit, PublishedInOrder, HeightRange
<1>3. BufferStrictlyAhead
  BY Zenon DEF SignedInit, BufferStrictlyAhead
<1> QED
  BY <1>1, <1>2, <1>3, StartBlockAssumption, MaxHeightAssumption DEF SignedInv, SignedInit

(* Every step of the listener, the stream and the bus keeps it. *)
LEMMA SignedNextInv == SignedInv /\ [SignedNext]_signedVars => SignedInv'
<1> SUFFICES ASSUME SignedInv, [SignedNext]_signedVars PROVE SignedInv'
  BY Zenon
<1> USE MaxHeightAssumption, MaxReconnectsAssumption, StartBlockAssumption, MaxSendFailuresAssumption
<1> USE DEF SignedInv
<1>1. CASE Server
  <2>1. StreamTypeOK'
    BY Zenon, <1>1, ServerType DEF Server, SignedTypeOK
  <2> QED
    BY Zenon, <1>1, <2>1 DEF Server, listenerVars, SignedTypeOK, PublishedInOrder, BufferStrictlyAhead
<1>2. CASE RestartClient
  BY <1>2 DEF RestartClient, StartClient, listenerVars, SignedTypeOK, StreamTypeOK, PublishedInOrder,
              BufferStrictlyAhead
<1>3. CASE ProcessingNextFrame
  <2> DEFINE h == Head(wire)
  <2>1. h \in Heights /\ StreamTypeOK'
    BY <1>3 DEF ProcessingNextFrame, RecvFrame, SignedTypeOK, StreamTypeOK
  <2>2. CASE h < current_block
    <3>1. UNCHANGED listenerVars
      <4>1. h \in Int /\ current_block \in Int
        BY <2>1 DEF Heights, SignedTypeOK
      <4>2. process_block(h)
        BY Zenon, <1>3 DEF ProcessingNextFrame
      <4> HIDE DEF h
      <4> QED
        BY <2>2, <4>1, <4>2 DEF process_block
    <3> QED
      BY Zenon, <2>1, <3>1 DEF listenerVars, SignedTypeOK, PublishedInOrder, BufferStrictlyAhead
  <2>3. CASE h > current_block
    <3>1. /\ block_buffer' = block_buffer \cup {h}
          /\ UNCHANGED <<current_block, published, sendFailures>>
      <4>1. h \in Int /\ current_block \in Int
        BY <2>1 DEF Heights, SignedTypeOK
      <4>2. process_block(h)
        BY Zenon, <1>3 DEF ProcessingNextFrame
      <4> HIDE DEF h
      <4> QED
        BY <2>3, <4>1, <4>2 DEF process_block
    <3> QED
      BY Zenon, <2>1, <2>3, <3>1 DEF SignedTypeOK, PublishedInOrder, BufferStrictlyAhead
  <2>4. CASE h = current_block
    <3> DEFINE end == process_buffered_blocks(h + 1, block_buffer)
    <3>1. h + 1 \in 0..(MaxHeight + 1) /\ \A b \in block_buffer : b >= h + 1
      BY <2>1, <2>4 DEF BufferStrictlyAhead, SignedTypeOK, Heights
    <3>2. end \in (h + 1)..(MaxHeight + 1) /\ end \notin block_buffer
      BY Zenon, <3>1, DrainProperties DEF SignedTypeOK
    <3> HIDE DEF end
    <3>3. Publish(h, end)
      BY <1>3, <2>1, <2>4 DEF ProcessingNextFrame, process_block, Heights, end
    <3>4. PICK stop \in h..end :
            /\ sendFailures' \in 0..MaxSendFailures
            /\ current_block' = stop
            /\ block_buffer' \subseteq block_buffer \ (h..stop)
            /\ published' = published \o HeightRange(h, stop - 1)
      <4>1. \A n \in Int : n \notin block_buffer => block_buffer \ (h..(n - 1)) \subseteq block_buffer \ (h..n)
        BY <2>1 DEF Heights, SignedTypeOK
      <4> QED
        BY <2>1, <3>2, <3>3, <4>1 DEF Publish, SignedTypeOK, Heights
    <3>5. stop \in Nat /\ stop \in 0..(MaxHeight + 1) /\ h <= stop /\ h \in Nat
      BY <2>1, <3>2 DEF Heights
    <3> HIDE DEF h
    <3>6. SignedTypeOK'
      <4>1. HeightRange(h, stop - 1) \in Seq(Heights)
        <5>1. stop - 1 \in -1..MaxHeight
          BY <3>5
        <5> QED
          BY Zenon, <3>5, <5>1, RangeType
      <4>2. published' \in Seq(Heights)
        BY Zenon, <3>4, <4>1, ConcatProperties DEF SignedTypeOK
      <4> QED
        BY Zenon, <2>1, <3>4, <3>5, <4>2 DEF SignedTypeOK
    <3>7. PublishedInOrder'
      <4>1. published' = HeightRange(StartBlock, h - 1) \o HeightRange(h, stop - 1)
        BY Zenon, <2>4, <3>4 DEF PublishedInOrder
      <4>2. HeightRange(StartBlock, h - 1) \o HeightRange(h, stop - 1) = HeightRange(StartBlock, stop - 1)
        <5>1. StartBlock \in Nat /\ StartBlock <= h
          BY <2>4
        <5> QED
          BY Zenon, <3>5, <5>1, RangeConcat
      <4> QED
        BY Zenon, <3>4, <4>1, <4>2 DEF PublishedInOrder
    <3>8. BufferStrictlyAhead' /\ StartBlock <= current_block'
      BY <2>4, <3>1, <3>4, <3>5 DEF BufferStrictlyAhead, Heights, SignedTypeOK, h
    <3> QED
      BY Zenon, <3>6, <3>7, <3>8
  <2> QED
    BY <2>1, <2>2, <2>3, <2>4 DEF SignedTypeOK, Heights
<1>4. CASE UNCHANGED signedVars
  BY Zenon, <1>4 DEF signedVars, streamVars, listenerVars, SignedTypeOK, StreamTypeOK, PublishedInOrder, BufferStrictlyAhead
<1> QED
  BY Zenon, <1>1, <1>2, <1>3, <1>4 DEF SignedNext

(* The stream is well typed, blocks are published in order and no buffered block is left *)
(* behind (signed_da_listener.rs, process_block and process_buffered_blocks), for every  *)
(* chain height, start block and number of reconnections.                                *)
THEOREM ListenerSafety == SignedSpec => [](SignedTypeOK /\ PublishedInOrder /\ BufferStrictlyAhead)
<1>1. SignedInv => SignedTypeOK /\ PublishedInOrder /\ BufferStrictlyAhead
  BY Zenon DEF SignedInv
<1> QED
  BY SignedInitInv, SignedNextInv, <1>1, PTL DEF SignedSpec
=============================================================================
