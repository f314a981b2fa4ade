-------------------------------- MODULE P2P --------------------------------
(***************************************************************************)
(* The connections between two nodes on one canal (the canals do not       *)
(* interfere): who connects to whom, the Hello/Verack handshake, which of  *)
(* several connections is kept, reconnection, and the messages sent over   *)
(* them.  Nodes are 1 and 2, in the order of their public keys.            *)
(*                                                                         *)
(* A connection has two ends.  The end of a node is driven by two tasks: a *)
(* sender (tx) that writes what is sent to the peer and a receiver (rx)    *)
(* that puts what arrives in the pool of the node's TcpServer.  The stream *)
(* is closed when both are gone.  A node knows a socket by a name: the     *)
(* address and port of the peer for one it accepted, but "address/canal"   *)
(* for one it opened, the same for all of them: name 0.                    *)
(*                                                                         *)
(* The clocks of the nodes agree.  A connection is accepted at once.       *)
(***************************************************************************)
EXTENDS Naturals, Sequences, FiniteSets, SequencesExt

CONSTANTS
    MaxConns,      \* bound on the connections opened and being opened
    MaxLosses,     \* bound on the connections the network breaks and the writes that time out
    MaxMessages    \* bound on the messages sent

Nodes == 1..2
Other(n) == 3 - n
Out == 0

VARIABLES
    conns,      \* the connections ever opened
    server,     \* of each node: sockets (name -> connection), peer (timestamp and name of its
                \* socket, optional), connecting (optional), tasks (connections being
                \* opened), jobs (messages being serialized, in order)
    pool,       \* of each node: the events its receivers have put there
    received,   \* of each node: the messages handed to the bus, with their connection
    sent,       \* number of messages sent
    losses,
    now         \* the clock

p2pVars == <<conns, server, pool, received, sent, losses, now>>

NewServer == [sockets |-> <<>>, peer |-> {}, connecting |-> {}, tasks |-> 0, jobs |-> <<>>]

(* The stream of the other end is closed, or broken. *)
HungUp(c, n) == c.broken \/ (~c.tx[Other(n)] /\ ~c.rx[Other(n)])

(* What a handler works on: the connections and the server of its node. *)
Here(n) == [conns |-> conns, s |-> server[n]]
Done(n, w) == conns' = w.conns /\ server' = [server EXCEPT ![n] = w.s]

---------------------------------------------------------------------------
(* TcpServer *)
WithoutSocket(s, name) ==
    [s EXCEPT !.sockets = [x \in DOMAIN s.sockets \ {name} |-> s.sockets[x]]]

(* Both tasks of an end are aborted, with what it has not read. *)
Closed(conn, n) ==
    [conn EXCEPT !.tx = [conn.tx EXCEPT ![n] = FALSE], !.rx = [conn.rx EXCEPT ![n] = FALSE],
                 !.wire = [conn.wire EXCEPT ![n] = <<>>]]

drop_peer_stream(w, n, name) ==
    LET c == w.s.sockets[name]
    IN  IF name \notin DOMAIN w.s.sockets THEN w
        ELSE [conns |-> [w.conns EXCEPT ![c] = Closed(w.conns[c], n)], s |-> WithoutSocket(w.s, name)]

SenderGone(conn, n) == [conn EXCEPT !.tx = [conn.tx EXCEPT ![n] = FALSE]]

(* A socket under a name that is taken: the other one loses its sender, not its receiver. *)
setup_stream(w, n, name, c) ==
    LET taken == w.s.sockets[name]
    IN  [conns |-> IF name \in DOMAIN w.s.sockets
                   THEN [w.conns EXCEPT ![taken] = SenderGone(w.conns[taken], n)] ELSE w.conns,
         s |-> [w.s EXCEPT !.sockets = (name :> c) @@ w.s.sockets]]

CanSend(w, n, name) == name \in DOMAIN w.s.sockets /\ w.conns[w.s.sockets[name]].tx[n]

(* What is written to an end that nobody reads is lost. *)
Written(conn, n, msg) ==
    IF HungUp(conn, n) \/ ~conn.rx[Other(n)] THEN conn
    ELSE [conn EXCEPT !.wire =
            [conn.wire EXCEPT ![Other(n)] = Append(conn.wire[Other(n)], msg)]]

tcp_send(w, n, name, msg) ==
    LET c == w.s.sockets[name]
    IN  [conns |-> [w.conns EXCEPT ![c] = Written(w.conns[c], n, msg)], s |-> w.s]

---------------------------------------------------------------------------
(* P2PServer *)
start_connection_task(s) ==
    [s EXCEPT !.tasks = s.tasks + 1, !.connecting = {"TcpClientStartedAt"}]

Connecting(w) == [conns |-> w.conns, s |-> start_connection_task(w.s)]

(* An attempt that is recent is left alone; an old one is given up for another. *)
try_start_connection(w, n, old) ==
    IF w.s.connecting = {} THEN Connecting(w)
    ELSE IF ~old THEN w
    ELSE IF w.s.connecting = {"TcpClientStartedAt"}
    THEN Connecting([conns |-> w.conns, s |-> [w.s EXCEPT !.tasks = w.s.tasks - 1]])
    ELSE Connecting(drop_peer_stream(w, n, Out))

(* Mutant of handle_peer_update: the socket that loses is not dropped. *)
UpdateWithoutDrop(w, n, timestamp, dest) ==
    LET known == [w EXCEPT !.s.connecting = {}]
        newer == \A p \in w.s.peer : p.timestamp < timestamp \/ (p.timestamp = timestamp /\ n < Other(n))
    IN  IF newer THEN [known EXCEPT !.s.peer = {[timestamp |-> timestamp, addr |-> dest]}] ELSE known

(* The connection the handshake is done on is the peer's, unless one with a later timestamp  *)
(* is; with equal ones the node with the smaller key takes the new one, the other keeps its  *)
(* own.  The socket that loses is dropped.                                                   *)
handle_peer_update(w, n, timestamp, dest) ==
    LET known == [conns |-> w.conns, s |-> [w.s EXCEPT !.connecting = {}]]
        updated == [conns |-> w.conns,
                    s |-> [w.s EXCEPT !.connecting = {},
                                      !.peer = {[timestamp |-> timestamp, addr |-> dest]}]]
    IN  IF w.s.peer = {} THEN updated
        ELSE LET p == CHOOSE q \in w.s.peer : TRUE
             IN  IF p.timestamp < timestamp \/ (p.timestamp = timestamp /\ n < Other(n))
                 THEN drop_peer_stream(updated, n, p.addr)
                 ELSE drop_peer_stream(known, n, dest)

(* Hello is answered on its socket; when that fails nothing else is done. *)
handle_handshake(w, n, dest, msg) ==
    IF msg.type = "Verack" THEN handle_peer_update(w, n, msg.timestamp, dest)
    ELSE IF CanSend(w, n, dest)
    THEN handle_peer_update(tcp_send(w, n, dest, [msg EXCEPT !.type = "Verack"]),
                            n, msg.timestamp, dest)
    ELSE w

(* The same for a socket that failed.  The peer's own is opened again. *)
handle_closed_event(w, n, dest) ==
    LET dropped == drop_peer_stream(w, n, dest)
    IN  IF \E p \in w.s.peer : p.addr = dest THEN Connecting(dropped) ELSE dropped

(* A message goes to the peer's socket; if it cannot, it is lost and the socket opened again. *)
actually_send_to(w, n, msg, old) ==
    IF w.s.peer = {} THEN w
    ELSE LET p == CHOOSE q \in w.s.peer : TRUE
         IN  IF CanSend(w, n, p.addr) THEN tcp_send(w, n, p.addr, msg)
             ELSE try_start_connection(w, n, old)

(* A message is serialized by a task of an OrderedJoinSet, behind those before it. *)
Queued(w, msg, to) ==
    [conns |-> w.conns, s |-> [w.s EXCEPT !.jobs = Append(w.s.jobs, [msg |-> msg, to |-> to])]]

(* Mutant of send: messages that are being serialized are overtaken. *)
SendAtOnce(w, n, msg, old) == actually_send_to(w, n, msg, old)

(* A message for one peer waits for the ones that are being serialized.  After a failure     *)
(* handle_failed_send opens another connection, whatever send has already started.           *)
send(w, n, msg, old) ==
    IF w.s.jobs # <<>> THEN Queued(w, msg, TRUE)
    ELSE LET after == actually_send_to(w, n, msg, old)
         IN  IF \E p \in w.s.peer : ~CanSend(w, n, p.addr) THEN Connecting(after) ELSE after

(* The peers of a broadcast are those known when it is asked for. *)
broadcast(w, msg) == Queued(w, msg, w.s.peer # {})

---------------------------------------------------------------------------
(* One node connects to the other at its start, or both do. *)
P2PInit ==
    \E booting \in SUBSET Nodes \ {{}} :
        /\ server = [n \in Nodes |-> IF n \in booting
                                     THEN start_connection_task(NewServer)
                                     ELSE NewServer]
        /\ conns = <<>>
        /\ pool = [n \in Nodes |-> <<>>]
        /\ received = [n \in Nodes |-> <<>>]
        /\ sent = 0 /\ losses = 0 /\ now = 0

(* The client is connected: the handshake begins with a Hello. *)
do_handshake(n) ==
    \E timestamp \in now..(now + 1) :
        LET c == Len(conns) + 1
            opened == [client |-> n, tx |-> [m \in Nodes |-> TRUE], rx |-> [m \in Nodes |-> TRUE],
                       wire |-> [m \in Nodes |-> <<>>], broken |-> FALSE]
            accepting == [server[Other(n)] EXCEPT !.sockets = (c :> c) @@ server[Other(n)].sockets]
            connected == [server[n] EXCEPT !.tasks = server[n].tasks - 1,
                                           !.connecting = {"HandshakeStartedAt"}]
            w == setup_stream([conns |-> Append(conns, opened), s |-> connected], n, Out, c)
            greeted == tcp_send(w, n, Out, [type |-> "Hello", timestamp |-> timestamp])
        IN  /\ server[n].tasks > 0
            /\ now' = timestamp
            /\ conns' = greeted.conns
            /\ server' = [m \in Nodes |-> IF m = n THEN greeted.s ELSE accepting]
            /\ UNCHANGED <<pool, received, sent, losses>>

NameOf(n, c) == IF conns[c].client = n THEN Out ELSE c

Pools(n, c, msg) ==
    pool' = [pool EXCEPT ![n] = Append(pool[n], [dest |-> NameOf(n, c), c |-> c, msg |-> msg])]

(* The receiver of a socket: a message, or the end of the stream. *)
Receiver(n, c) ==
    /\ conns[c].rx[n]
    /\ \/ /\ conns[c].wire[n] # <<>>
          /\ Pools(n, c, Head(conns[c].wire[n]))
          /\ conns' = [conns EXCEPT ![c] = [conns[c] EXCEPT !.wire =
                                [conns[c].wire EXCEPT ![n] = Tail(conns[c].wire[n])]]]
       \/ /\ conns[c].wire[n] = <<>> /\ HungUp(conns[c], n)
          /\ Pools(n, c, [type |-> "Closed"])
          /\ conns' = [conns EXCEPT ![c] = [conns[c] EXCEPT !.rx =
                                [conns[c].rx EXCEPT ![n] = FALSE]]]
    /\ UNCHANGED <<server, received, sent, losses, now>>

(* The connection of the peer's socket. *)
SocketOf(n) == {server[n].sockets[p.addr] : p \in {q \in server[n].peer :
                                                       q.addr \in DOMAIN server[n].sockets}}

(* What a sender that stops has not written yet is lost. *)
Unwritten(conn, n, k) ==
    [SenderGone(conn, n) EXCEPT !.wire =
        [conn.wire EXCEPT ![Other(n)] = SubSeq(conn.wire[Other(n)], 1, Len(conn.wire[Other(n)]) - k)]]

(* The sender of a socket stops when a write fails. *)
SenderFails(n, c) ==
    /\ conns[c].tx[n] /\ HungUp(conns[c], n)
    /\ conns' = [conns EXCEPT ![c] = SenderGone(conns[c], n)]
    /\ UNCHANGED <<server, pool, received, sent, losses, now>>

(* Or when one takes too long, although the stream is open: of a message, or of a ping. *)
SenderTimesOut(n, c) ==
    /\ conns[c].tx[n] /\ losses < MaxLosses
    /\ losses' = losses + 1
    /\ \E k \in 0..Len(conns[c].wire[Other(n)]) :
        /\ k = 0 => c \in SocketOf(n)
        /\ conns' = [conns EXCEPT ![c] = Unwritten(conns[c], n, k)]
    /\ UNCHANGED <<server, pool, received, sent, now>>

(* Nor is anything written that was queued to a sender when it was aborted. *)
LoseUnsent(n, c) ==
    /\ ~conns[c].tx[n]
    /\ \E k \in 1..Len(conns[c].wire[Other(n)]) :
        conns' = [conns EXCEPT ![c] = Unwritten(conns[c], n, k)]
    /\ UNCHANGED <<server, pool, received, sent, losses, now>>

handle_p2p_tcp_event(n) ==
    /\ pool[n] # <<>>
    /\ pool' = [pool EXCEPT ![n] = Tail(pool[n])]
    /\ LET e == Head(pool[n])
           w == Here(n)
       IN  \/ /\ e.msg.type \in {"Hello", "Verack"}
              /\ Done(n, handle_handshake(w, n, e.dest, e.msg))
              /\ UNCHANGED received
           \/ /\ e.msg.type = "Closed"
              /\ Done(n, handle_closed_event(w, n, e.dest))
              /\ UNCHANGED received
           \/ /\ e.msg.type = "Data"
              /\ received' = [received EXCEPT ![n] = Append(received[n], [c |-> e.c, id |-> e.msg.id])]
              /\ UNCHANGED <<conns, server>>
    /\ UNCHANGED <<sent, losses, now>>

(* A ping that fails opens the peer's socket again. *)
PingPeers(n) ==
    \E old \in BOOLEAN :
        /\ \E p \in server[n].peer : ~CanSend(Here(n), n, p.addr)
        /\ Done(n, try_start_connection(Here(n), n, old))
        /\ UNCHANGED <<pool, received, sent, losses, now>>

(* P2PCommand::ConnectTo, for a validator that is being bonded. *)
ConnectTo(n) ==
    \E old \in BOOLEAN :
        /\ Done(n, try_start_connection(Here(n), n, old))
        /\ UNCHANGED <<pool, received, sent, losses, now>>

(* A message of the bus, for one peer or for all. *)
HandleOutboundMessage(n) ==
    \E old \in BOOLEAN :
        LET msg == [type |-> "Data", id |-> sent + 1]
        IN  /\ sent < MaxMessages
            /\ sent' = sent + 1
            /\ Done(n, send(Here(n), n, msg, old)) \/ Done(n, broadcast(Here(n), msg))
            /\ UNCHANGED <<pool, received, losses, now>>

(* The first message in line is serialized. *)
poll_join_next(n) ==
    \E old \in BOOLEAN :
        /\ server[n].jobs # <<>>
        /\ LET job == Head(server[n].jobs)
               w == [conns |-> conns, s |-> [server[n] EXCEPT !.jobs = Tail(server[n].jobs)]]
           IN  Done(n, IF job.to THEN actually_send_to(w, n, job.msg, old) ELSE w)
        /\ UNCHANGED <<pool, received, sent, losses, now>>

(* The network breaks a connection, with all that is on its way. *)
Break(c) ==
    /\ losses < MaxLosses
    /\ ~conns[c].broken
    /\ losses' = losses + 1
    /\ conns' = [conns EXCEPT ![c] =
                    [conns[c] EXCEPT !.broken = TRUE, !.wire = [n \in Nodes |-> <<>>]]]
    /\ UNCHANGED <<server, pool, received, sent, now>>

WithinBounds == Len(conns) + server[1].tasks + server[2].tasks <= MaxConns

P2PStep ==
    \/ \E n \in Nodes : \/ do_handshake(n) \/ handle_p2p_tcp_event(n) \/ PingPeers(n)
                        \/ ConnectTo(n) \/ HandleOutboundMessage(n) \/ poll_join_next(n)
                        \/ \E c \in DOMAIN conns : \/ Receiver(n, c) \/ SenderFails(n, c)
                                                    \/ SenderTimesOut(n, c) \/ LoseUnsent(n, c)
    \/ \E c \in DOMAIN conns : Break(c)

P2PNext == P2PStep /\ WithinBounds'

P2PSpec == P2PInit /\ [][P2PNext]_p2pVars

---------------------------------------------------------------------------
(* Nothing is under way: no task, no message, no event, no end of a stream to notice. *)
Quiet ==
    /\ \A n \in Nodes : server[n].tasks = 0 /\ pool[n] = <<>>
    /\ \A c \in DOMAIN conns, n \in Nodes :
            /\ conns[c].wire[n] = <<>>
            /\ conns[c].rx[n] \/ conns[c].tx[n] => ~HungUp(conns[c], n)

(* Whenever things have settled the two nodes use the same connection, or the next ping of   *)
(* one of them fails and opens one: never do both write where the other one does not look,   *)
(* however handshakes crossed, broke and were retried (handle_peer_update).                  *)
PeersAgree ==
    Quiet => \/ SocketOf(1) = SocketOf(2)
             \/ \E n \in Nodes : \E p \in server[n].peer : ~CanSend(Here(n), n, p.addr)

(* On a connection messages are received in the order the modules sent them, those for one   *)
(* peer and those for all alike (P2PServer::send, OrderedJoinSet).                           *)
ReceivedInOrder ==
    \A n \in Nodes : \A i, j \in DOMAIN received[n] :
        i < j /\ received[n][i].c = received[n][j].c => received[n][i].id < received[n][j].id
=============================================================================
