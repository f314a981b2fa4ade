------------------------- MODULE SignedDAListener --------------------------
(***************************************************************************)
(* SignedDAListener: follows a data-availability stream and publishes the  *)
(* signed blocks on the bus in height order.                               *)
(***************************************************************************)
EXTENDS BlockStream

CONSTANTS
    StartBlock,      \* configured start_block
    MaxSendFailures  \* bound: how many times the bus stays full for too long

ASSUME StartBlockAssumption == StartBlock \in 0..(MaxHeight + 1)
ASSUME MaxSendFailuresAssumption == MaxSendFailures \in Nat

VARIABLES
    current_block,  \* height of the next block to publish
    block_buffer,   \* blocks received ahead of current_block
    published,      \* heights sent on the bus as OrderedSignedBlock, in order
    sendFailures    \* sends on the bus that failed so far

listenerVars == <<current_block, block_buffer, published, sendFailures>>

signedVars == <<streamVars, listenerVars>>

SignedTypeOK ==
    /\ StreamTypeOK
    /\ current_block \in 0..(MaxHeight + 1)
    /\ block_buffer \in SUBSET Heights
    /\ published \in Seq(Heights)
    /\ sendFailures \in 0..MaxSendFailures

SignedInit ==
    /\ StreamInit(StartBlock)
    /\ current_block = StartBlock
    /\ block_buffer = {}
    /\ published = <<>>
    /\ sendFailures = 0

---------------------------------------------------------------------------
(* Draining pops the buffer's first block as long as it is the next one to publish. *)
IsFirst(h, buffer) == h \in buffer /\ \A b \in buffer : h <= b

(* The first height that a buffer does not hold from next on. *)
GapFrom(next, buffer) ==
    CHOOSE n \in next..(MaxHeight + 1) : n \notin buffer /\ next..(n - 1) \subseteq buffer

M_process_buffered_blocks(next, buffer) == next

(* The height reached by publishing the buffered blocks that are in sequence from next. *)
process_buffered_blocks(next, buffer) ==
    IF IsFirst(next, buffer) THEN GapFrom(next, buffer) ELSE next

(* The blocks h, h + 1, ... are sent on the bus up to the height stop.  Either all those *)
(* in sequence are sent, or the bus stays full while block stop is sent: the error is    *)
(* logged by the caller and that block, already out of the buffer, is dropped.           *)
Publish(h, end) ==
    \E stop \in h..end :
        /\ \/ /\ stop = end
              /\ block_buffer' = block_buffer \ (h..(stop - 1))
              /\ UNCHANGED sendFailures
           \/ /\ stop # end
              /\ sendFailures < MaxSendFailures
              /\ block_buffer' = block_buffer \ (h..stop)
              /\ sendFailures' = sendFailures + 1
        /\ current_block' = stop
        /\ published' = published \o HeightRange(h, stop - 1)

M_process_block(h) ==
    \/ /\ h <= current_block
       /\ Publish(h, process_buffered_blocks(h + 1, block_buffer))
    \/ /\ h > current_block
       /\ block_buffer' = block_buffer \cup {h}
       /\ UNCHANGED <<current_block, published, sendFailures>>

(* A block from the past is ignored, the next one is published with the buffered blocks *)
(* that follow it, a later one is buffered.                                             *)
process_block(h) ==
    \/ /\ h < current_block
       /\ UNCHANGED listenerVars
    \/ /\ h = current_block
       /\ Publish(h, process_buffered_blocks(h + 1, block_buffer))
    \/ /\ h > current_block
       /\ block_buffer' = block_buffer \cup {h}
       /\ UNCHANGED <<current_block, published, sendFailures>>

ProcessingNextFrame ==
    /\ RecvFrame
    /\ process_block(Head(wire))

(* The client is restarted after a silent interval, a failed ping or a lost connection. *)
RestartClient ==
    /\ StartClient(current_block)
    /\ UNCHANGED listenerVars

Server ==
    /\ ServerNext
    /\ UNCHANGED listenerVars

SignedNext == Server \/ ProcessingNextFrame \/ RestartClient

(* A lost connection is always noticed and reopened; a timeout restart is not obliged to happen. *)
Reconnect == conn = "down" /\ RestartClient

SignedFairness ==
    /\ ServerFairness
    /\ WF_signedVars(ProcessingNextFrame)
    /\ WF_signedVars(Reconnect)

SignedSpec == SignedInit /\ [][SignedNext]_signedVars

SignedFairSpec == SignedSpec /\ SignedFairness

---------------------------------------------------------------------------
(* Blocks are published in height order from start_block with no hole and no repetition, *)
(* whatever order and however often the stream delivers them.                            *)
PublishedInOrder == published = HeightRange(StartBlock, current_block - 1)

(* No buffered block is left behind once its turn has come: everything in the buffer is *)
(* strictly after the block the listener waits for, so the front of the buffer never    *)
(* holds a stale entry that would stop the draining loop for good.                      *)
BufferStrictlyAhead == \A b \in block_buffer : b > current_block

(* Every block the server holds is eventually published, across lost connections, as long *)
(* as connections stop being lost; only a send that failed on a full bus can prevent it.  *)
EveryBlockPublished ==
    \A h \in StartBlock..MaxHeight : (tip >= h) ~> (current_block > h \/ sendFailures > 0)
=============================================================================
