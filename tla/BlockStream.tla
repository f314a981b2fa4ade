---------------------------- MODULE BlockStream ----------------------------
(***************************************************************************)
(* The block-streaming service of the data-availability layer, as one      *)
(* client sees it: the server's store of ordered blocks, the TCP           *)
(* connection, the catch-up range queued for the client and the frames in  *)
(* flight.  The listeners are checked against this service, and            *)
(* DataAvailability, the server, is shown to implement it.                 *)
(*                                                                         *)
(* Blocks of the committed chain are identified by their height: block h   *)
(* is the only child of block h - 1.  A connection is registered for the   *)
(* broadcast of new blocks BEFORE its catch-up request is handled, so the  *)
(* same block can be queued twice and a new block can overtake an old one. *)
(***************************************************************************)
EXTENDS Integers, Sequences

CONSTANTS
    MaxHeight,      \* bound: the highest block the server ever stores
    MaxReconnects   \* bound: how many times a connection is (re)opened after the first

ASSUME MaxHeightAssumption == MaxHeight \in Nat
ASSUME MaxReconnectsAssumption == MaxReconnects \in Nat

VARIABLES
    tip,        \* height of the last block in the server's store, -1 when it is empty
    conn,       \* "down", "connecting" (client side only) or "registered" in sockets
    request,    \* start height of the client's DataAvailabilityRequest, NoRequest when handled
    todo,       \* heights still to stream to the client (one entry of catchup_joinset)
    wire,       \* block frames sent to the client and not received yet
    reconnects  \* connections opened so far after the first one

streamVars == <<tip, conn, request, todo, wire, reconnects>>

NoRequest == -1

Heights == 0..MaxHeight

StreamTypeOK ==
    /\ tip \in -1..MaxHeight
    /\ conn \in {"down", "connecting", "registered"}
    /\ request \in Nat \cup {NoRequest}
    /\ todo \in Seq(Heights)
    /\ wire \in Seq(Heights)
    /\ reconnects \in 0..MaxReconnects

(* The catch-up range from a start height to the last stored block, in ascending order. *)
HeightRange(from, to) == IF from > to THEN <<>> ELSE [i \in 1..(to - from + 1) |-> from + i - 1]

StreamInit(start) ==
    /\ tip = -1
    /\ conn = "connecting"
    /\ request = start
    /\ todo = <<>>
    /\ wire = <<>>
    /\ reconnects = 0

---------------------------------------------------------------------------
(* Server side. *)

(* The server's accept loop stores the socket; from now on broadcasts reach it. *)
SetupStream ==
    /\ conn = "connecting"
    /\ conn' = "registered"
    /\ UNCHANGED <<tip, request, todo, wire, reconnects>>

(* A block enters the server's store, with the buffered ones that follow it, and each is *)
(* broadcast to every registered socket.                                                 *)
AddProcessedBlock ==
    /\ \E last \in (tip + 1)..MaxHeight :
        /\ tip' = last
        /\ wire' = IF conn = "registered" THEN wire \o HeightRange(tip + 1, last) ELSE wire
    /\ UNCHANGED <<conn, request, todo, reconnects>>

(* The request is served from a snapshot of the store taken now. *)
StartStreamingToPeer ==
    /\ conn = "registered"
    /\ request # NoRequest
    /\ todo' = HeightRange(request, tip)
    /\ request' = NoRequest
    /\ UNCHANGED <<tip, conn, wire, reconnects>>

(* One block of the catch-up range is sent; a failed try_send is retried later. *)
StreamOneBlock ==
    /\ conn = "registered"
    /\ todo # <<>>
    /\ wire' = Append(wire, Head(todo))
    /\ todo' = Tail(todo)
    /\ UNCHANGED <<tip, conn, request, reconnects>>

(* The connection is lost: dropped by the server after failed sends, or by the network. *)
DropPeerStream ==
    /\ conn # "down"
    /\ reconnects < MaxReconnects
    /\ conn' = "down"
    /\ request' = NoRequest
    /\ todo' = <<>>
    /\ wire' = <<>>
    /\ UNCHANGED <<tip, reconnects>>

ServerNext ==
    \/ SetupStream
    \/ AddProcessedBlock
    \/ StartStreamingToPeer
    \/ StreamOneBlock
    \/ DropPeerStream

(* The server's loop keeps serving; nothing obliges the chain to grow or a link to break. *)
ServerFairness ==
    /\ WF_streamVars(SetupStream)
    /\ WF_streamVars(StartStreamingToPeer)
    /\ WF_streamVars(StreamOneBlock)

---------------------------------------------------------------------------
(* Client side, for the listener modules. *)

(* A new client connects and asks for the blocks from the given height. *)
StartClient(height) ==
    /\ reconnects < MaxReconnects
    /\ reconnects' = reconnects + 1
    /\ conn' = "connecting"
    /\ request' = height
    /\ todo' = <<>>
    /\ wire' = <<>>
    /\ UNCHANGED tip

(* The next frame is taken off the connection. *)
RecvFrame ==
    /\ conn = "registered"
    /\ wire # <<>>
    /\ wire' = Tail(wire)
    /\ UNCHANGED <<tip, conn, request, todo, reconnects>>

---------------------------------------------------------------------------
(* The service as an abstract specification: a client that asks for any height, or none. *)
NobodyConnected ==
    /\ tip = -1
    /\ conn = "down" /\ request = NoRequest /\ todo = <<>> /\ wire = <<>>
    /\ reconnects = MaxReconnects

StreamNext ==
    \/ ServerNext
    \/ RecvFrame
    \/ \E height \in 0..(MaxHeight + 1) : StartClient(height)

StreamSpec ==
    /\ NobodyConnected \/ \E height \in 0..(MaxHeight + 1) : StreamInit(height)
    /\ [][StreamNext]_streamVars
=============================================================================
