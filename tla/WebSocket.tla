------------------------------ MODULE WebSocket ----------------------------
(***************************************************************************)
(* WebSocketModule and NodeWebsocketConnector: the blocks of NodeState are *)
(* turned into the messages of topics, which clients register to over      *)
(* their connections.  A client has an address of its own; a message to    *)
(* one that has left may fail, or be lost without an error.  The channel   *)
(* of the topics refuses messages when it is full.  A module of another    *)
(* program may also broadcast over the same server.  The topic node_state, *)
(* which has one message per block as new_block has, is left out.          *)
(***************************************************************************)
EXTENDS Naturals, Sequences, FiniteSets, SequencesExt

CONSTANTS
    WsClients,      \* addresses
    TxsOfBlock,     \* number of transactions of each block
    MaxPending,     \* messages the channel of the topics holds, CHANNEL_CAP_IF_WAITING in the code
    MaxRequests,    \* bound on the messages of clients
    MaxBroadcasts   \* bound on the messages broadcast

ASSUME WsAssumption == TxsOfBlock \in Seq(Nat) /\ MaxPending \in Nat

VARIABLES
    mode,             \* what the server is used for: "topics", "broadcasts", "both"
    ws_running,       \* the loop of WebSocketModule has not ended
    client_state,     \* of each client: "away", "open", "gone"
    requests,         \* what the client has sent and the server has not read
    request_count,    \* messages of clients so far
    delivered,        \* what the client has received
    new_peers, peer_senders, topic_listeners, peer_receivers,
    next_message,     \* what the connector sends next: the block, and the place in it
    pending,          \* messages in the channel of the topics
    handled,          \* topic messages the server has handled
    registered_at,    \* number of those when the client was first registered, by topic
    broadcasts        \* messages broadcast

wsVars == <<mode, ws_running, client_state, requests, request_count, delivered, new_peers,
            peer_senders, topic_listeners, peer_receivers, next_message, pending, handled,
            registered_at, broadcasts>>
clientVars == <<client_state, requests, request_count>>
serverVars == <<ws_running, delivered, new_peers, peer_senders, topic_listeners, peer_receivers>>

Topics == {"new_block", "new_tx"}
Unregistered == [t \in Topics |-> {}]

WsInit ==
    /\ mode \in {"topics", "broadcasts", "both"}
    /\ ws_running = TRUE
    /\ client_state = [c \in WsClients |-> "away"]
    /\ requests = [c \in WsClients |-> <<>>]
    /\ request_count = 0
    /\ delivered = [c \in WsClients |-> <<>>]
    /\ new_peers = <<>>
    /\ peer_senders = {}
    /\ topic_listeners = [t \in Topics |-> <<>>]
    /\ peer_receivers = {}
    /\ next_message = [block |-> 1, index |-> 0]
    /\ pending = <<>>
    /\ handled = <<>>
    /\ registered_at = [c \in WsClients |-> Unregistered]
    /\ broadcasts = 0

(* ------------------------- NodeWebsocketConnector ------------------------- *)
handle_new_block(h) == <<[topic |-> "new_block", block |-> h, index |-> 0]>>
handle_new_tx(h) == [i \in 1..TxsOfBlock[h] |-> [topic |-> "new_tx", block |-> h, index |-> i]]

(* The messages of a block, one after the other while the server may handle those before;   *)
(* one that finds the channel full is dropped.                                              *)
handle_node_state_event ==
    LET h == next_message.block
        messages == handle_new_block(h) \o handle_new_tx(h)
        n == next_message.index + 1
    IN  /\ mode # "broadcasts"
        /\ h \in DOMAIN TxsOfBlock
        /\ pending' = IF Len(pending) < MaxPending THEN Append(pending, messages[n]) ELSE pending
        /\ next_message' = IF n < Len(messages) THEN [block |-> h, index |-> n]
                           ELSE [block |-> h + 1, index |-> 0]
        /\ UNCHANGED <<mode, clientVars, serverVars, handled, registered_at, broadcasts>>

(* -------------------------------- Clients --------------------------------- *)
(* The connection is accepted by another task. *)
ws_handler(c) ==
    /\ client_state[c] = "away"
    /\ client_state' = [client_state EXCEPT ![c] = "open"]
    /\ new_peers' = Append(new_peers, c)
    /\ UNCHANGED <<mode, requests, request_count, ws_running, delivered, peer_senders,
                   topic_listeners, peer_receivers, next_message, pending, handled, registered_at,
                   broadcasts>>

(* A topic to register to, or "?" for what cannot be parsed. *)
ClientSends(c) ==
    /\ client_state[c] = "open" /\ request_count < MaxRequests
    /\ \E request \in Topics \cup {"?"} : requests' = [requests EXCEPT ![c] = Append(requests[c], request)]
    /\ request_count' = request_count + 1
    /\ UNCHANGED <<mode, client_state, serverVars, next_message, pending, handled, registered_at,
                   broadcasts>>

ClientLeaves(c) ==
    /\ client_state[c] = "open"
    /\ client_state' = [client_state EXCEPT ![c] = "gone"]
    /\ UNCHANGED <<mode, requests, request_count, serverVars, next_message, pending, handled,
                   registered_at, broadcasts>>

(* ----------------------------- WebSocketModule ---------------------------- *)
(* The timer of the loop starts again with every message, so it is due only when none waits. *)
CheckNewPeers ==
    /\ ws_running /\ new_peers # <<>> /\ pending = <<>>
    /\ peer_senders' = peer_senders \cup ToSet(new_peers)
    /\ peer_receivers' = peer_receivers \cup ToSet(new_peers)
    /\ new_peers' = <<>>
    /\ UNCHANGED <<mode, clientVars, ws_running, delivered, topic_listeners, next_message, pending,
                   handled, registered_at, broadcasts>>

Registers(c, topic) ==
    IF registered_at[c][topic] # {} THEN registered_at
    ELSE [registered_at EXCEPT ![c] = [registered_at[c] EXCEPT ![topic] = {Len(handled)}]]

(* The task of a client ends with its next message, and is started again unless that could *)
(* not be parsed, or with the connection.                                                  *)
ReceiveRequest(c) ==
    /\ ws_running /\ c \in peer_receivers
    /\ \/ /\ requests[c] # <<>>
          /\ requests' = [requests EXCEPT ![c] = Tail(requests[c])]
          /\ LET topic == Head(requests[c])
             IN  IF topic \in Topics
                 THEN /\ topic_listeners' = [topic_listeners EXCEPT ![topic] =
                                                Append(topic_listeners[topic], c)]
                      /\ registered_at' = Registers(c, topic)
                      /\ UNCHANGED peer_receivers
                 ELSE /\ peer_receivers' = peer_receivers \ {c}
                      /\ UNCHANGED <<topic_listeners, registered_at>>
       \/ /\ requests[c] = <<>> /\ client_state[c] = "gone"
          /\ peer_receivers' = peer_receivers \ {c}
          /\ UNCHANGED <<requests, topic_listeners, registered_at>>
    /\ UNCHANGED <<mode, client_state, request_count, ws_running, delivered, new_peers,
                   peer_senders, next_message, pending, handled, broadcasts>>

(* topic_listeners.retain: the list without the clients of a set. *)
RetainedListeners(listeners, removed) ==
    LET kept == {i \in DOMAIN listeners : listeners[i] \notin removed}
    IN  [n \in 1..Cardinality(kept) |->
            listeners[CHOOSE i \in kept : Cardinality({j \in kept : j <= i}) = n]]

(* Mutant of topic_message: an error to one client ends the message. *)
TopicMessageOrFail ==
    /\ ws_running /\ pending # <<>>
    /\ \E failing \in SUBSET {c \in WsClients : client_state[c] = "gone"} :
            LET message == Head(pending)
                listeners == topic_listeners[message.topic]
                failed == \E i \in DOMAIN listeners :
                            listeners[i] \notin peer_senders \/ listeners[i] \in failing
            IN  /\ ws_running' = ~failed
                /\ delivered' = [c \in WsClients |->
                        IF failed THEN delivered[c]
                        ELSE delivered[c] \o SelectSeq([i \in DOMAIN listeners |-> message],
                                                       LAMBDA m : c \in ToSet(listeners))]
    /\ handled' = Append(handled, Head(pending))
    /\ pending' = Tail(pending)
    /\ UNCHANGED <<mode, clientVars, new_peers, peer_senders, topic_listeners, peer_receivers,
                   next_message, registered_at, broadcasts>>

(* The listeners in turn.  One to which the message cannot be sent is no longer registered;  *)
(* one that has no sender any more ends the loop, with those before it served.               *)
topic_message ==
    /\ ws_running /\ pending # <<>>
    /\ \E failing \in SUBSET {c \in WsClients : client_state[c] = "gone"} :
            LET message == Head(pending)
                listeners == topic_listeners[message.topic]
                unknown == {i \in DOMAIN listeners : listeners[i] \notin peer_senders}
                reached == {i \in DOMAIN listeners : \A u \in unknown : i < u}
                Copies(c) == {i \in reached : listeners[i] = c /\ c \notin failing}
                removed == {c \in failing : \E i \in reached : listeners[i] = c}
            IN  /\ ws_running' = (unknown = {})
                /\ delivered' = [c \in WsClients |->
                                    delivered[c] \o [i \in 1..Cardinality(Copies(c)) |-> message]]
                /\ topic_listeners' =
                        [topic_listeners EXCEPT ![message.topic] = RetainedListeners(listeners, removed)]
    /\ handled' = Append(handled, Head(pending))
    /\ pending' = Tail(pending)
    /\ UNCHANGED <<mode, clientVars, new_peers, peer_senders, peer_receivers, next_message,
                   registered_at, broadcasts>>

(* All clients at a time; the senders that fail are removed, so none is left if all do. *)
broadcast_message ==
    /\ ws_running /\ mode # "topics" /\ broadcasts < MaxBroadcasts
    /\ broadcasts' = broadcasts + 1
    /\ \E failing \in SUBSET {c \in peer_senders : client_state[c] = "gone"} :
            /\ delivered' = [c \in WsClients |->
                    IF c \in peer_senders \ failing
                    THEN Append(delivered[c], [topic |-> "", block |-> 0, index |-> broadcasts'])
                    ELSE delivered[c]]
            /\ peer_senders' = peer_senders \ failing
            /\ ws_running' = (peer_senders \ failing # {} \/ peer_senders' = {})
    /\ UNCHANGED <<mode, clientVars, new_peers, topic_listeners, peer_receivers, next_message,
                   pending, handled, registered_at>>

WsNext ==
    \/ handle_node_state_event
    \/ \E c \in WsClients : ws_handler(c) \/ ClientSends(c) \/ ClientLeaves(c) \/ ReceiveRequest(c)
    \/ CheckNewPeers
    \/ topic_message
    \/ broadcast_message

WsSpec == WsInit /\ [][WsNext]_wsVars

---------------------------------------------------------------------------
(* The positions of the messages of a topic. *)
OfTopic(messages, t) == {i \in DOMAIN messages : messages[i].topic = t}

(* As long as a server is used for topics or for broadcasts, no client can stop it by leaving, *)
(* and a client that stays receives, in order, every message of a topic that is handled since  *)
(* it was registered, and of no other; several times if it was registered several times        *)
(* (WebSocketModule::run, topic_message).                                                      *)
TopicsDelivered ==
    mode # "both" =>
        /\ ws_running
        /\ \A c \in WsClients, t \in Topics :
              LET got == OfTopic(delivered[c], t)
              IN  /\ registered_at[c][t] = {} => got = {}
                  /\ \A n \in registered_at[c][t] : client_state[c] = "open" =>
                        {delivered[c][i] : i \in got}
                            = {handled[i] : i \in {k \in OfTopic(handled, t) : n < k}}
                  /\ \A i, j \in got : i < j =>
                        \/ delivered[c][i].block < delivered[c][j].block
                        \/ /\ delivered[c][i].block = delivered[c][j].block
                           /\ delivered[c][i].index <= delivered[c][j].index
=============================================================================
