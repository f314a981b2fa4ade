-------------------------- MODULE DataAvailability -------------------------
(***************************************************************************)
(* DataAvailability, the module of a node that stores the signed blocks.   *)
(* Blocks come from the genesis, from the node's own mempool and, on a     *)
(* node that is behind, from a catch-up stream read from a peer (a         *)
(* BlockStream).  They are stored in chain order, handed to NodeState over *)
(* the bus, and served to clients: this module is the server side of a     *)
(* second BlockStream, Served.                                             *)
(*                                                                         *)
(* As in BlockStream a block is its height: block h is the only child of   *)
(* block h - 1.  Writes to the store succeed.                              *)
(***************************************************************************)
EXTENDS BlockStream

CONSTANTS
    MaxClients,   \* bound: how many times the client of this node reconnects
    MaxRetries,   \* retries of a block after which a failure drops the client (11 in the code)
    MaxRestarts,  \* bound: how many times the node is stopped and started again
    Roles,        \* bound: who is there besides the node, a peer, a client, both or nobody
    NoHeight      \* no catchup_height

ASSUME MaxClientsAssumption == MaxClients \in Nat
ASSUME MaxRetriesAssumption == MaxRetries \in Nat
ASSUME MaxRestartsAssumption == MaxRestarts \in Nat

VARIABLES
    blocks,           \* heights in the store (persisted after every handled block)
    buffered,         \* buffered_signed_blocks
    need_catchup,     \* the genesis module announced NoGenesis
    catchup_task,     \* "none", "running" or "finished"
    catchup_height,   \* the last block the mempool will not build itself, NoHeight if unknown
    peers,            \* peers \in BOOLEAN: is the peer's DA address recorded ?
    channel,          \* blocks the catch-up task passed on, not handled yet
    genesis,          \* "pending" until the genesis module's event is handled
    mempool,          \* last_ccp, the slot of the last commit, and the blocks under construction
    events,           \* OrderedSignedBlock events that NodeState has not received yet
    handled,          \* blocks NodeState has handled
    saved,            \* what handled was when NodeState was last saved
    saved_mempool,    \* what mempool was when the mempool was last saved
    up,               \* does the node run ?
    lost,             \* did a stop lose blocks that NodeState had not handled or not saved ?
    restarts,         \* stops so far
    sockets,          \* connections registered in the node's TCP server, dead ones included
    joins,            \* catchup_joinset: what is still to stream to each connection
    client            \* the node's client: its connection, request and frames in flight

storeVars == <<blocks, buffered, events, sockets, client>>
catchupVars == <<need_catchup, catchup_task, catchup_height, peers, channel>>
nodeVars == <<genesis, mempool, handled, saved, saved_mempool, up, lost, restarts>>
daVars == <<storeVars, catchupVars, nodeVars, joins>>

LastHeight(hs) == CHOOSE h \in hs \cup {-1} : \A other \in hs : other <= h

(* Blocks::last, -1 for an empty store. *)
Last == LastHeight(blocks)

Clients == 0..MaxClients
Join == [peer : Clients, hashes : Seq(Heights), retries : 0..MaxRetries]
Mempool == [last_ccp : Heights, building : SUBSET Heights]

NodeTypeOK ==
    /\ StreamTypeOK
    /\ blocks \subseteq Heights /\ buffered \subseteq Heights
    /\ need_catchup \in BOOLEAN /\ peers \in BOOLEAN
    /\ catchup_task \in {"none", "running", "finished"}
    /\ catchup_height \in Heights \cup {NoHeight}
    /\ channel \in Seq(Heights)
    /\ genesis \in {"pending", "done"}
    /\ mempool \in Mempool /\ saved_mempool \in Mempool
    /\ events \in Seq(Heights) /\ handled \in Seq(Heights) /\ saved \in Seq(Heights)
    /\ up \in BOOLEAN /\ lost \in BOOLEAN /\ restarts \in 0..MaxRestarts
    /\ sockets \subseteq Clients
    /\ \A j \in joins : j \in Join
    /\ client \in [id : Clients, state : {"up", "down"}, request : 0..(MaxHeight + 1) \cup {NoRequest},
                   wire : Seq(Heights)]

NoClient == [id |-> MaxClients, state |-> "down", request |-> NoRequest, wire |-> <<>>]
Connecting(id, start) == [id |-> id, state |-> "up", request |-> start, wire |-> <<>>]

NoCommit == [last_ccp |-> 0, building |-> {}]

(* A node that starts for the first time.  Without a peer it has nobody to catch up from, *)
(* without a client nobody connects to it.                                                *)
NodeInit ==
    /\ conn = "down" /\ request = NoRequest /\ todo = <<>> /\ wire = <<>>
    /\ \E role \in Roles :
          /\ tip \in IF "peer" \in role THEN {-1, MaxHeight} ELSE {MaxHeight}
          /\ reconnects = IF "peer" \in role THEN 0 ELSE MaxReconnects
          /\ client = IF "client" \in role THEN Connecting(0, 0) ELSE NoClient
    /\ blocks = {} /\ buffered = {}
    /\ need_catchup = FALSE /\ catchup_task = "none" /\ catchup_height = NoHeight
    /\ peers = FALSE /\ channel = <<>>
    /\ genesis = "pending" /\ mempool = NoCommit /\ saved_mempool = NoCommit
    /\ events = <<>> /\ handled = <<>> /\ saved = <<>>
    /\ up = TRUE /\ lost = FALSE /\ restarts = 0
    /\ sockets = {} /\ joins = {}

---------------------------------------------------------------------------
(* Storing a block. *)

ParentKnown(h) == IF blocks = {} THEN h = 0 ELSE h - 1 \in blocks

(* The last block taken out of the buffer behind block h: popping stops at the first     *)
(* buffered block whose parent is not the previous one.                                  *)
pop_buffer(h) ==
    IF \E b \in buffered : b <= h
    THEN h
    ELSE CHOOSE last \in h..MaxHeight : (h + 1)..last \subseteq buffered /\ last + 1 \notin buffered

(* The blocks h..last are broadcast to every connection, and a dead one is forgotten at  *)
(* the first error; then each goes to NodeState.                                         *)
add_processed_block(h, last) ==
    /\ client' = [client EXCEPT !.wire =
                    IF client.state = "up" /\ client.id \in sockets
                    THEN @ \o HeightRange(h, last) ELSE @]
    /\ sockets' = {id \in sockets : id = client.id /\ client.state = "up"}
    /\ events' = events \o HeightRange(h, last)

(* Mutant of handle_signed_block: a block is also accepted when a later one is stored. *)
HandleUnordered(h) ==
    \/ h \in blocks /\ UNCHANGED storeVars
    \/ /\ h \notin blocks
       /\ blocks' = blocks \cup (h..pop_buffer(h))
       /\ buffered' = buffered \ ((h + 1)..pop_buffer(h))
       /\ add_processed_block(h, pop_buffer(h))

(* A known block is ignored, one whose parent is missing is buffered, any other is stored *)
(* with the buffered blocks that follow it.                                               *)
handle_signed_block(h) ==
    \/ h \in blocks /\ UNCHANGED storeVars
    \/ /\ h \notin blocks /\ ~ParentKnown(h)
       /\ buffered' = buffered \cup {h}
       /\ UNCHANGED <<blocks, events, sockets, client>>
    \/ /\ h \notin blocks /\ ParentKnown(h)
       /\ blocks' = blocks \cup (h..pop_buffer(h))
       /\ buffered' = buffered \ ((h + 1)..pop_buffer(h))
       /\ add_processed_block(h, pop_buffer(h))

---------------------------------------------------------------------------
(* Events of the node's other modules. *)

(* A genesis staker makes the genesis block itself; any other node has to catch up. *)
HandleGenesisEvent ==
    /\ up /\ genesis = "pending"
    /\ genesis' = "done"
    /\ \/ /\ blocks = {}
          /\ handle_signed_block(0)
          /\ UNCHANGED need_catchup
       \/ /\ need_catchup' = TRUE
          /\ UNCHANGED storeVars
    /\ UNCHANGED <<streamVars, catchup_task, catchup_height, peers, channel, mempool, handled,
                   saved, saved_mempool, up, lost, restarts, joins>>

(* Closing the catch-up connection, when its task is aborted. *)
CloseCatchup ==
    /\ conn' = "down" /\ request' = NoRequest /\ todo' = <<>> /\ wire' = <<>>
    /\ UNCHANGED <<tip, reconnects>>

(* The mempool announces the first height h it builds; the catch-up may be over already. *)
HandleStartedBuildingBlocks(h) ==
    /\ catchup_height' = h - 1
    /\ IF catchup_task # "none" /\ LastHeight(blocks \cup {0}) >= h
       THEN /\ need_catchup' = FALSE
            /\ catchup_task' = "finished"
            /\ CloseCatchup
       ELSE UNCHANGED <<need_catchup, catchup_task, streamVars>>

(* A commit that follows the last one can be built, whenever its data is there; the first *)
(* one since the start is announced.  Whether there was one is not saved                  *)
(* (buc_build_start_height): it is what catchup_height tells.                             *)
try_create_block_under_construction(h) ==
    /\ mempool' = [last_ccp |-> h,
                   building |-> mempool.building \cup (IF h = mempool.last_ccp + 1 THEN {h} ELSE {})]
    /\ IF h = mempool.last_ccp + 1 /\ catchup_height = NoHeight
       THEN HandleStartedBuildingBlocks(h)
       ELSE UNCHANGED <<need_catchup, catchup_task, catchup_height, streamVars>>

(* Consensus, which waits for the genesis event too, commits slot h: one after the other, *)
(* except that a node which joins or joins again may have missed some.                    *)
CommitSlot(h) ==
    /\ up /\ genesis = "done"
    /\ \/ h = mempool.last_ccp + 1
       \/ h > mempool.last_ccp + 1 /\ need_catchup /\ catchup_height = NoHeight
    /\ try_create_block_under_construction(h)
    /\ UNCHANGED <<storeVars, peers, channel, genesis, handled, saved, saved_mempool, up, lost,
                   restarts, joins>>

(* Blocks under construction are completed in the order their data arrives. *)
HandleBuiltSignedBlock(h) ==
    /\ up /\ h \in mempool.building
    /\ mempool' = [mempool EXCEPT !.building = @ \ {h}]
    /\ handle_signed_block(h)
    /\ UNCHANGED <<streamVars, catchupVars, genesis, handled, saved, saved_mempool, up, lost,
                   restarts, joins>>

(* Does NodeState, which has handled the given blocks, accept block h ? *)
Accepts(past, h) ==
    LET current_height == IF past = <<>> THEN 0 ELSE past[Len(past)]
    IN  h = current_height + 1 \/ (h = 0 /\ current_height = 0)

(* NodeState handles the next block, or refuses one that does not follow: its module then *)
(* fails and takes the node down.                                                         *)
NodeStateHandlesBlock ==
    /\ up /\ events # <<>>
    /\ events' = Tail(events)
    /\ \/ /\ Accepts(handled, Head(events))
          /\ handled' = Append(handled, Head(events))
          /\ UNCHANGED up
       \/ /\ ~Accepts(handled, Head(events))
          /\ up' = FALSE
          /\ UNCHANGED handled
    /\ UNCHANGED <<streamVars, blocks, buffered, sockets, client, catchupVars, genesis, mempool,
                   saved, saved_mempool, lost, restarts, joins>>

---------------------------------------------------------------------------
(* Catching up from a peer. *)

(* Mutant of ask_for_catchup_blocks: the stream starts one block too late. *)
AskFromTheSecond ==
    /\ Last + 2 \in 0..(MaxHeight + 1)
    /\ StartClient(Last + 2)
    /\ catchup_task' = "running"

(* A connection is opened to stream from the block after the last stored one. *)
ask_for_catchup_blocks ==
    /\ StartClient(Last + 1)
    /\ catchup_task' = "running"

(* A peer met while no catch-up is needed, or while one runs, is not recorded. *)
HandleNewPeer ==
    /\ up /\ need_catchup /\ catchup_task # "running"
    /\ peers' = TRUE
    /\ ask_for_catchup_blocks
    /\ UNCHANGED <<storeVars, need_catchup, catchup_height, channel, nodeVars, joins>>

(* When the connection to a new peer fails, the module ends and takes the node down. *)
NewPeerUnreachable ==
    /\ up /\ need_catchup /\ catchup_task # "running"
    /\ up' = FALSE
    /\ UNCHANGED <<streamVars, storeVars, catchupVars, genesis, mempool, handled, saved,
                   saved_mempool, lost, restarts, joins>>

(* The ticker, which ignores errors, asks a recorded peer again when the task has ended. *)
CheckCatchupTask ==
    /\ up /\ need_catchup /\ catchup_task # "running" /\ peers
    /\ ask_for_catchup_blocks
    /\ UNCHANGED <<storeVars, need_catchup, catchup_height, peers, channel, nodeVars, joins>>

(* The task passes a received block on. *)
CatchupTaskReceives ==
    /\ catchup_task = "running"
    /\ RecvFrame
    /\ channel' = Append(channel, Head(wire))
    /\ UNCHANGED <<storeVars, need_catchup, catchup_task, catchup_height, peers, nodeVars, joins>>

(* The task ends: the connection is lost, or no block came for ten seconds. *)
CatchupTaskEnds ==
    /\ catchup_task = "running"
    /\ DropPeerStream
    /\ catchup_task' = "finished"
    /\ UNCHANGED <<storeVars, need_catchup, catchup_height, peers, channel, nodeVars, joins>>

(* Mutant of CatchupReached: any streamed block at that height ends the catch-up. *)
CatchupSeen(h) == catchup_height # NoHeight /\ catchup_height <= h

(* Has handling the streamed block h completed the store up to the mempool's first block ? *)
CatchupReached(h) ==
    /\ catchup_height # NoHeight
    /\ h \notin blocks /\ ParentKnown(h)
    /\ catchup_height <= pop_buffer(h)

(* A streamed block is handled; the catch-up stops once the mempool's blocks follow. *)
HandleStreamedBlock ==
    /\ up /\ channel # <<>>
    /\ handle_signed_block(Head(channel))
    /\ channel' = Tail(channel)
    /\ IF CatchupReached(Head(channel)) /\ catchup_task # "none"
       THEN /\ need_catchup' = FALSE
            /\ catchup_task' = "none"
            /\ CloseCatchup
       ELSE UNCHANGED <<need_catchup, catchup_task, streamVars>>
    /\ UNCHANGED <<catchup_height, peers, nodeVars, joins>>

---------------------------------------------------------------------------
(* Serving the client. *)

SetupClient ==
    /\ up /\ client.state = "up" /\ client.id \notin sockets
    /\ sockets' = sockets \cup {client.id}
    /\ UNCHANGED <<streamVars, blocks, buffered, events, client, catchupVars, nodeVars, joins>>

(* Mutant of ServeRequest: the range stops before the last block. *)
ServeShortRange ==
    /\ up /\ client.id \in sockets /\ client.request # NoRequest
    /\ joins' = joins \cup {[peer |-> client.id, retries |-> 0,
                             hashes |-> HeightRange(client.request, Last - 1)]}
    /\ client' = [client EXCEPT !.request = NoRequest]
    /\ UNCHANGED <<streamVars, blocks, buffered, events, sockets, catchupVars, nodeVars>>

(* start_streaming_to_peer: the stored range is snapshotted for the connection. *)
ServeRequest ==
    /\ up /\ client.id \in sockets /\ client.request # NoRequest
    /\ joins' = joins \cup {[peer |-> client.id, retries |-> 0,
                             hashes |-> HeightRange(client.request, Last)]}
    /\ client' = [client EXCEPT !.request = NoRequest]
    /\ UNCHANGED <<streamVars, blocks, buffered, events, sockets, catchupVars, nodeVars>>

(* A status event of the mempool is broadcast too, which finds the dead connections out; *)
(* the clients modelled here ignore it.                                                  *)
HandleMempoolStatusEvent ==
    /\ up
    /\ sockets' = {id \in sockets : id = client.id /\ client.state = "up"}
    /\ UNCHANGED <<streamVars, blocks, buffered, events, client, catchupVars, nodeVars, joins>>

(* The client's connection ends, on its side or by a drop_peer_stream. *)
Disconnected == [id |-> client.id, state |-> "down", request |-> NoRequest, wire |-> <<>>]

(* The joinset yields an entry: its next block is sent, or tried again later; after too  *)
(* many attempts, and at once when nothing is left to send, the entry is gone.           *)
SendCatchupBlock(j) ==
    /\ up
    /\ \/ /\ j.hashes = <<>>
          /\ joins' = joins \ {j}
          /\ UNCHANGED <<sockets, client>>
       \/ /\ j.hashes # <<>> /\ j.peer \in sockets
          /\ joins' = (joins \ {j}) \cup {[peer |-> j.peer, hashes |-> Tail(j.hashes), retries |-> 0]}
          /\ client' = [client EXCEPT !.wire =
                          IF client.state = "up" /\ client.id = j.peer
                          THEN Append(@, Head(j.hashes)) ELSE @]
          /\ UNCHANGED sockets
       \/ /\ j.hashes # <<>> /\ (j.peer \notin sockets \/ client.wire # <<>>)
          /\ j.retries < MaxRetries
          /\ joins' = (joins \ {j}) \cup {[j EXCEPT !.retries = @ + 1]}
          /\ UNCHANGED <<sockets, client>>
       \/ /\ j.hashes # <<>> /\ (j.peer \notin sockets \/ client.wire # <<>>)
          /\ j.retries = MaxRetries
          /\ joins' = joins \ {j}
          /\ sockets' = sockets \ {j.peer}
          /\ IF j.peer = client.id /\ client.state = "up"
             THEN client.id < MaxClients /\ client' = Disconnected
             ELSE UNCHANGED client
    /\ UNCHANGED <<streamVars, blocks, buffered, events, catchupVars, nodeVars>>

(* The client's side: a frame is received, the connection is lost, another is opened. *)
ClientReceives ==
    /\ client.state = "up" /\ client.id \in sockets /\ client.wire # <<>>
    /\ client' = [client EXCEPT !.wire = Tail(@)]
    /\ UNCHANGED <<streamVars, blocks, buffered, events, sockets, catchupVars, nodeVars, joins>>

ClientLost ==
    /\ client.state = "up" /\ client.id < MaxClients
    /\ client' = Disconnected
    /\ UNCHANGED <<streamVars, blocks, buffered, events, sockets, catchupVars, nodeVars, joins>>

ClientConnects(start) ==
    /\ client.state = "down" /\ client.id < MaxClients
    /\ client' = Connecting(client.id + 1, start)
    /\ UNCHANGED <<streamVars, blocks, buffered, events, sockets, catchupVars, nodeVars, joins>>

---------------------------------------------------------------------------
(* The node is stopped and started again.  NodeState and the mempool are saved as they    *)
(* are by a clean stop, with whatever was on the bus between the modules dropped; a crash, *)
(* or the failure of the module, leaves what was saved before.  The block store survives.  *)
Restart ==
    /\ restarts < MaxRestarts
    /\ client.state = "down" \/ client.id < MaxClients
    /\ restarts' = restarts + 1
    /\ \/ up /\ UNCHANGED handled
       \/ handled' = saved
    /\ saved' = handled'
    /\ \/ \E kept \in SUBSET mempool.building : mempool' = [mempool EXCEPT !.building = kept]
       \/ mempool' = saved_mempool
    /\ saved_mempool' = mempool'
    /\ lost' = (lost \/ handled' # HeightRange(0, Last))
    /\ up' = TRUE
    /\ genesis' = "pending"
    /\ buffered' = {} /\ events' = <<>>
    /\ need_catchup' = FALSE /\ catchup_task' = "none" /\ catchup_height' = NoHeight
    /\ peers' = FALSE /\ channel' = <<>>
    /\ CloseCatchup
    /\ sockets' = {} /\ joins' = {} /\ client' = Disconnected
    /\ UNCHANGED blocks

(* The peer's side of the catch-up stream. *)
Peer ==
    /\ SetupStream \/ AddProcessedBlock \/ StartStreamingToPeer \/ StreamOneBlock
    /\ UNCHANGED daVars

(* The node with its peer, whoever its client is. *)
NodeNext ==
    \/ HandleGenesisEvent
    \/ \E h \in 1..MaxHeight : CommitSlot(h)
    \/ \E h \in 1..MaxHeight : HandleBuiltSignedBlock(h)
    \/ NodeStateHandlesBlock
    \/ HandleNewPeer \/ NewPeerUnreachable \/ CheckCatchupTask
    \/ CatchupTaskReceives \/ CatchupTaskEnds \/ HandleStreamedBlock
    \/ SetupClient \/ ServeRequest \/ (\E j \in joins : SendCatchupBlock(j))
    \/ HandleMempoolStatusEvent
    \/ ClientLost
    \/ Restart
    \/ Peer

nodeAndStreamVars == <<streamVars, daVars>>

(* The node's loop and the peer's keep running; the ticker retries a recorded peer.      *)
(* Nothing obliges the mempool to build, a client to connect or the genesis to happen.   *)
NodeFairness ==
    /\ WF_nodeAndStreamVars(Peer /\ tip' = tip)
    /\ WF_nodeAndStreamVars(CheckCatchupTask)
    /\ WF_nodeAndStreamVars(CatchupTaskReceives)
    /\ WF_nodeAndStreamVars(HandleStreamedBlock)
    /\ WF_nodeAndStreamVars(NodeStateHandlesBlock)
    /\ WF_nodeAndStreamVars(SetupClient)
    /\ WF_nodeAndStreamVars(ServeRequest)
    /\ WF_nodeAndStreamVars(\E j \in joins : SendCatchupBlock(j))

---------------------------------------------------------------------------
(* The store holds the chain without a hole, and no block waits in the buffer whose turn *)
(* has come: pop_buffer, which only looks at the buffer's first block and stops there    *)
(* for good if that one is stale, always drains what it can.                             *)
BufferAheadOfStore ==
    /\ blocks = 0..Last
    /\ \A b \in buffered : b > Last + 1

(* Until a stop loses blocks, NodeState's blocks and those on the bus to it are exactly  *)
(* the stored chain, across catch-up, the mempool's own blocks and clean restarts: it    *)
(* is never handed a block that it refuses.                                              *)
NodeStateFollowsStore == lost \/ handled \o events = HeightRange(0, Last)

(* Even after a loss NodeState never handles blocks out of order: it stops instead.  The *)
(* only block it can miss silently is the genesis block, as its height 0 stands both for *)
(* "nothing handled" and for "genesis handled".                                          *)
NodeStateNeverSkips ==
    \E first \in {0, 1} : handled = HeightRange(first, first + Len(handled) - 1)

(* Every committed block is stored, waits for its parent or is still to be built. *)
NoHole == 0..mempool.last_ccp \subseteq blocks \cup buffered \cup mempool.building

(* The catch-up is only switched off when the stored blocks, the buffered ones and those   *)
(* the mempool is building are all that was committed, and it stays so until the next      *)
(* restart: the two sources leave no hole that nobody fills.  This holds for the catch-up  *)
(* after each start, whatever the mempool built or announced before                        *)
(* (handle_mempool_event, and the end of the catch-up in the module's loop).               *)
CatchupLeavesNoHole ==
    [][~need_catchup' /\ restarts' = restarts /\ (need_catchup \/ NoHole) => NoHole']_nodeAndStreamVars

(* The connection of a client and the range it is still to be sent, as a BlockStream     *)
(* knows them.                                                                           *)
ConnOf(c, registered) ==
    CASE c.state = "down" -> "down"
      [] c.state # "down" /\ c.id \in registered -> "registered"
      [] c.state # "down" /\ c.id \notin registered -> "connecting"

TodoOf(c, streams) ==
    IF c.state = "up" /\ (\E j \in streams : j.peer = c.id)
    THEN (CHOOSE j \in streams : j.peer = c.id).hashes ELSE <<>>

(* The service that the client sees. *)
Served == INSTANCE BlockStream WITH
    tip <- Last,
    conn <- ConnOf(client, sockets),
    request <- client.request,
    todo <- TodoOf(client, joins),
    wire <- client.wire,
    reconnects <- client.id,
    MaxReconnects <- MaxClients

(* What the node serves to its client is a block stream as the listeners expect it: new  *)
(* blocks reach every registered connection in order, a request is answered from a       *)
(* snapshot that misses none, and a dropped connection loses everything in flight.       *)
ServesBlockStream == Served!StreamSpec

(* A node that needs to catch up and knows a peer ends up with every block the peer has, *)
(* or with the catch-up switched off, whatever connections are lost or time out.         *)
CatchupCompletes ==
    \A h \in Heights :
        (need_catchup /\ peers /\ tip >= h) ~> (h \in blocks \/ ~need_catchup \/ ~up)
=============================================================================
