----------------------------- MODULE DAListener ----------------------------
(***************************************************************************)
(* DAListener, the client an indexer runs: it follows the blocks of a      *)
(* DataAvailability node, executes them in a NodeState of its own and      *)
(* publishes the result.  Composed with the node it is connected to.  The  *)
(* bus it publishes on is never full.                                      *)
(***************************************************************************)
EXTENDS DataAvailability

VARIABLES
    current_height,  \* of the listener's NodeState, 0 also when nothing is handled
    block_buffer,    \* blocks received ahead of the next one
    published,       \* blocks the listener's NodeState handled, published as NewBlock
    persisted        \* published and current_height when the listener was last stopped

listenerVars == <<current_height, block_buffer, published, persisted>>
vars == <<nodeAndStreamVars, listenerVars>>

TypeOK ==
    /\ NodeTypeOK
    /\ current_height \in Heights
    /\ block_buffer \subseteq Heights
    /\ published \in Seq(Heights)
    /\ persisted \in [current_height : Heights, published : Seq(Heights)]

(* The block to start from: nothing tells a new NodeState from one that has handled the *)
(* genesis block only.                                                                  *)
start_block(height) == IF height = 0 THEN 0 ELSE height + 1

Init ==
    /\ NodeInit
    /\ current_height = 0
    /\ block_buffer = {}
    /\ published = <<>>
    /\ persisted = [current_height |-> 0, published |-> <<>>]

(* The last block of the run of buffered blocks that follows height. *)
process_buffered_blocks(height) ==
    IF \E b \in block_buffer : b <= height
    THEN height
    ELSE CHOOSE last \in height..MaxHeight :
            (height + 1)..last \subseteq block_buffer /\ last + 1 \notin block_buffer

Publish(h, last) ==
    /\ published' = published \o HeightRange(h, last)
    /\ current_height' = last
    /\ block_buffer' = block_buffer \ ((h + 1)..last)

(* Mutant of process_block: a later block is published as soon as it comes. *)
ProcessAnyLater(h) ==
    \/ h = 0 /\ current_height = 0 /\ Publish(0, 0)
    \/ h > current_height /\ Publish(h, process_buffered_blocks(h))
    \/ h <= current_height /\ h # 0 /\ UNCHANGED <<current_height, block_buffer, published>>

(* Mutant of process_block: what was buffered is not looked at again. *)
ProcessWithoutBuffer(h) ==
    \/ h = 0 /\ current_height = 0 /\ Publish(0, 0)
    \/ h = current_height + 1 /\ Publish(h, h)
    \/ /\ h > current_height + 1
       /\ block_buffer' = block_buffer \cup {h}
       /\ UNCHANGED <<current_height, published>>
    \/ h <= current_height /\ (h # 0 \/ current_height # 0)
       /\ UNCHANGED <<current_height, block_buffer, published>>

(* The genesis block is processed as long as no later one is, the next block with the    *)
(* buffered ones that follow it; a later one is buffered, an earlier one ignored.        *)
process_block(h) ==
    \/ h = 0 /\ current_height = 0 /\ Publish(0, 0)
    \/ h = current_height + 1 /\ Publish(h, process_buffered_blocks(h))
    \/ /\ h > current_height + 1
       /\ block_buffer' = block_buffer \cup {h}
       /\ UNCHANGED <<current_height, published>>
    \/ /\ h <= current_height /\ (h # 0 \/ current_height # 0)
       /\ UNCHANGED <<current_height, block_buffer, published>>

ProcessingNextFrame ==
    /\ ClientReceives
    /\ process_block(Head(client.wire))
    /\ UNCHANGED persisted

(* The client is started again when the connection is lost, a ping fails or no block has *)
(* come for a while: from the block after current_height, even if that is 0.             *)
RestartClient ==
    /\ ClientConnects(current_height + 1)
    /\ UNCHANGED listenerVars

(* The indexer is stopped, cleanly or not, and starts from the state it saved. *)
RestartListener ==
    \E clean \in BOOLEAN :
        LET state == IF clean
                     THEN [current_height |-> current_height, published |-> published]
                     ELSE persisted
        IN  /\ ClientConnects(start_block(state.current_height))
            /\ current_height' = state.current_height
            /\ published' = state.published
            /\ block_buffer' = {}
            /\ persisted' = state

Node == NodeNext /\ UNCHANGED listenerVars

Next == Node \/ ProcessingNextFrame \/ RestartClient \/ RestartListener

Spec == Init /\ [][Next]_vars

(* A lost connection is noticed and reopened; a block received is processed. *)
FairSpec ==
    /\ Spec /\ NodeFairness
    /\ WF_vars(ProcessingNextFrame)
    /\ WF_vars(RestartClient \/ RestartListener)

---------------------------------------------------------------------------
(* The listener publishes consecutive blocks, however the stream and the catch-up overlap, *)
(* whatever is lost and restarted.  Only at the very start can it deviate: the genesis     *)
(* block may be missed, when block 1 overtakes it or when the connection breaks before it, *)
(* and may be published twice.                                                             *)
ListenerNeverSkips ==
    \A i \in 1..(Len(published) - 1) :
        \/ published[i + 1] = published[i] + 1
        \/ published[i + 1] = 0 /\ published[i] = 0

(* Every block the node stores reaches the listener and is published. *)
ListenerKeepsUp ==
    \A h \in Heights : (client # NoClient /\ Last >= h) ~> (current_height >= h \/ ~up)

(* No consumer of the blocks skips one: neither the NodeState of the node, which stops      *)
(* rather than handle a block out of order, nor that of a listener behind connections that  *)
(* drop (NodeState::handle_signed_block, DAListener::process_block).                         *)
FollowersNeverSkip == NodeStateNeverSkips /\ ListenerNeverSkips
=============================================================================
