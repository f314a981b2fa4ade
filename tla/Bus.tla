-------------------------------- MODULE Bus --------------------------------
(***************************************************************************)
(* One channel of the bus between the modules of a process: a tokio        *)
(* broadcast channel, which overwrites its oldest message when it is full, *)
(* behind senders that look at its length first; and the queries that go   *)
(* over such a channel and are answered over a channel of their own.  The  *)
(* modules run on several threads, so a sender may be interrupted between  *)
(* the look and the send.                                                  *)
(***************************************************************************)
EXTENDS Naturals, FiniteSets

CONSTANTS
    BusSenders, BusReceivers,  \* the clients that send, those that have subscribed
    CHANNEL_CAPACITY,          \* 100000
    CHANNEL_CAP_IF_WAITING,    \* CHANNEL_CAPACITY - 10
    MAX_ATTEMPTS,              \* of send_waiting_if_full, 100
    MaxBusMessages             \* bound on the messages sent

(* The comment in send: "We have a potential TOCTOU race here, so use a buffer." *)
ASSUME BufferSuffices ==
    /\ CHANNEL_CAPACITY \in Nat /\ CHANNEL_CAP_IF_WAITING \in Nat \ {0}
    /\ IsFiniteSet(BusSenders)
    /\ CHANNEL_CAP_IF_WAITING + Cardinality(BusSenders) <= CHANNEL_CAPACITY + 1

VARIABLES
    bus_sent,     \* messages sent so far: they are numbered from 1
    position,     \* messages each receiver has read
    sender,       \* of each sender: "idle", "checked", "retrying", "awaiting" (an answer)
    waits,        \* attempts of its send_waiting_if_full
    asked,        \* the query it awaits the answer of, 0 for none
    open_queries, \* queries that nobody has taken
    served,       \* the queries handled, with the receiver
    answers       \* answers in the channels of the queries

busVars == <<bus_sent, position, sender, waits, asked, open_queries, served, answers>>

BusInit ==
    /\ bus_sent = 0
    /\ position = [r \in BusReceivers |-> 0]
    /\ sender = [s \in BusSenders |-> "idle"]
    /\ waits = [s \in BusSenders |-> 0]
    /\ asked = [s \in BusSenders |-> 0]
    /\ open_queries = {}
    /\ served = {}
    /\ answers = {}

(* The channel keeps a message until all have read it. *)
ChannelFull == \E r \in BusReceivers : bus_sent - position[r] >= CHANNEL_CAP_IF_WAITING

---------------------------------------------------------------------------
(* Mutant of CheckLength: the sender checks against the whole capacity. *)
CheckCapacity(s) ==
    /\ sender[s] \in {"idle", "retrying"}
    /\ \A r \in BusReceivers : bus_sent - position[r] < CHANNEL_CAPACITY
    /\ sender' = [sender EXCEPT ![s] = "checked"]
    /\ UNCHANGED <<bus_sent, position, waits, asked, open_queries, served, answers>>

(* The first half of send, and of each attempt of send_waiting_if_full.  A full channel is *)
(* an error to send, which leaves nothing behind.                                          *)
CheckLength(s) ==
    /\ sender[s] \in {"idle", "retrying"}
    /\ ~ChannelFull
    /\ sender' = [sender EXCEPT ![s] = "checked"]
    /\ UNCHANGED <<bus_sent, position, waits, asked, open_queries, served, answers>>

send_waiting_if_full(s) ==
    /\ sender[s] \in {"idle", "retrying"}
    /\ ChannelFull
    /\ IF waits[s] < MAX_ATTEMPTS
       THEN /\ sender' = [sender EXCEPT ![s] = "retrying"]
            /\ waits' = [waits EXCEPT ![s] = @ + 1]
       ELSE /\ sender' = [sender EXCEPT ![s] = "idle"]
            /\ waits' = [waits EXCEPT ![s] = 0]
    /\ UNCHANGED <<bus_sent, position, asked, open_queries, served, answers>>

(* The second half, for a query or for another message. *)
SendMessage(s) ==
    /\ sender[s] = "checked"
    /\ bus_sent < MaxBusMessages
    /\ bus_sent' = bus_sent + 1
    /\ waits' = [waits EXCEPT ![s] = 0]
    /\ \/ /\ sender' = [sender EXCEPT ![s] = "awaiting"]
          /\ asked' = [asked EXCEPT ![s] = bus_sent']
          /\ open_queries' = open_queries \cup {bus_sent'}
       \/ /\ sender' = [sender EXCEPT ![s] = "idle"]
          /\ UNCHANGED <<asked, open_queries>>
    /\ UNCHANGED <<position, served, answers>>

(* request ends with its answer or after CLIENT_TIMEOUT_SECONDS. *)
EndRequest(s) ==
    /\ sender[s] = "awaiting"
    /\ sender' = [sender EXCEPT ![s] = "idle"]
    /\ asked' = [asked EXCEPT ![s] = 0]
    /\ answers' = answers \ {asked[s]}
    /\ UNCHANGED <<bus_sent, position, waits, open_queries, served>>

---------------------------------------------------------------------------
(* handle_messages: a query is handled by the receiver that takes it, whoever still waits  *)
(* for its answer.                                                                         *)
ReceiveMessage(r) ==
    LET q == position[r] + 1
    IN  /\ position[r] < bus_sent
        /\ position' = [position EXCEPT ![r] = q]
        /\ open_queries' = open_queries \ {q}
        /\ served' = IF q \in open_queries THEN served \cup {<<q, r>>} ELSE served
        /\ answers' = IF q \in open_queries /\ \E s \in BusSenders : asked[s] = q
                      THEN answers \cup {q} ELSE answers
        /\ UNCHANGED <<bus_sent, sender, waits, asked>>

BusNext ==
    \/ \E s \in BusSenders : \/ CheckLength(s) \/ send_waiting_if_full(s) \/ SendMessage(s)
                             \/ EndRequest(s)
    \/ \E r \in BusReceivers : ReceiveMessage(r)

BusSpec == BusInit /\ [][BusNext]_busVars

---------------------------------------------------------------------------
(* No receiver is ever overtaken by the channel, so no message is overwritten before it is *)
(* read, although all senders may have looked before any of them sends: the buffer above   *)
(* CHANNEL_CAP_IF_WAITING is as large as their number (BusClientSender::send).             *)
NobodyLags == \A r \in BusReceivers : bus_sent - position[r] <= CHANNEL_CAPACITY

(* A query is handled once, also when several modules listen to its channel and when the   *)
(* one that asked has given up and asked again; an answer is for a query that somebody     *)
(* handled and that is still awaited (Query::take, request).                               *)
QueriesServedOnce ==
    /\ \A a, b \in served : a[1] = b[1] => a = b
    /\ \A q \in answers : /\ \E r \in BusReceivers : <<q, r>> \in served
                          /\ \E s \in BusSenders : asked[s] = q
=============================================================================
