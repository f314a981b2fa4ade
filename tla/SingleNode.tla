----------------------------- MODULE SingleNode ----------------------------
(***************************************************************************)
(* The consensus of a node that runs alone: no votes, a proposal is        *)
(* committed at every tick with the cut the Mempool answers.  With it, the *)
(* genesis module of such a node, which marks on disk that it is over, and *)
(* the stops of the node.  A cut is the number of data proposals in it; a  *)
(* proposal's hash is its place in the list of the commits, since no two   *)
(* have the same time; 0 is the hash of the genesis block.                 *)
(***************************************************************************)
EXTENDS Naturals, Sequences

CONSTANTS
    MaxCommits, MaxCut, MaxRuns   \* bounds on the commits, the data and the restarts

VARIABLES
    solo,       \* the module: "genesis" (waits for its block), "idle", "querying", "stopped",
                \* "panicked"
    store,      \* has_done_genesis, last hash, last slot and last cut
    store_bin,  \* the store on disk
    solo_genesis_bin,  \* on disk: the genesis is over
    solo_event, \* what the genesis module has sent: {} until then
    shutdown,   \* a ShutdownModule is in the module's channel
    mempool_cut,
    mempool_bin,       \* the tips of the lanes on disk, that is, the cut they give
    commits,    \* the proposals sent to the bus: slot, parent_hash, cut
    runs,       \* processes started
    lost,       \* the store was lost: the process ended before it was saved
    torn        \* a process ended after the store was saved, and before the tips were

singleVars == <<solo, store, store_bin, solo_genesis_bin, solo_event, shutdown, mempool_cut,
                mempool_bin, commits, runs, lost, torn>>

NewStore == [has_done_genesis |-> FALSE, last_hash |-> 0, last_slot |-> 0, last_cut |-> 0]

SingleInit ==
    /\ solo = "genesis"
    /\ store = NewStore
    /\ store_bin = NewStore
    /\ solo_genesis_bin = FALSE
    /\ solo_event = {}
    /\ shutdown = FALSE
    /\ mempool_cut = 0
    /\ mempool_bin = 0
    /\ commits = <<>>
    /\ runs = 1
    /\ lost = FALSE
    /\ torn = FALSE

(* The genesis module: alone, it has nobody to wait for. *)
SoloGenesis ==
    /\ solo_event = {}
    /\ solo_event' = {IF solo_genesis_bin THEN "NoGenesis" ELSE "GenesisBlock"}
    /\ solo_genesis_bin' = TRUE
    /\ UNCHANGED <<solo, store, store_bin, shutdown, mempool_cut, mempool_bin, commits,
                   runs, lost, torn>>

(* The store is saved as soon as the block has come.  The code holds that the other event   *)
(* never comes, and panics.                                                                 *)
HandleSoloGenesisEvent ==
    /\ solo = "genesis"
    /\ \/ /\ "GenesisBlock" \in solo_event
          /\ solo' = "idle"
          /\ store' = [store EXCEPT !.has_done_genesis = TRUE]
          /\ store_bin' = store'
       \/ /\ "NoGenesis" \in solo_event
          /\ solo' = "panicked"
          /\ UNCHANGED <<store, store_bin>>
    /\ UNCHANGED <<solo_genesis_bin, solo_event, shutdown, mempool_cut, mempool_bin, commits,
                   runs, lost, torn>>

---------------------------------------------------------------------------
(* A tick asks the Mempool for a cut. *)
NewSlotTick ==
    /\ solo = "idle"
    /\ Len(commits) < MaxCommits
    /\ solo' = "querying"
    /\ UNCHANGED <<store, store_bin, solo_genesis_bin, solo_event, shutdown, mempool_cut, mempool_bin,
                   commits, runs, lost, torn>>

(* A block with the cut, on top of the last one. *)
Commit(cut) ==
    /\ commits' = Append(commits, [slot |-> store.last_slot + 1, parent_hash |-> store.last_hash,
                                   cut |-> cut])
    /\ store' = [has_done_genesis |-> store.has_done_genesis, last_hash |-> Len(commits) + 1,
                 last_slot |-> store.last_slot + 1, last_cut |-> cut]

(* Mutant of handle_new_slot_tick: no answer is an empty cut. *)
TickWithoutCut ==
    /\ solo = "querying"
    /\ \/ Commit(mempool_cut) /\ UNCHANGED shutdown
       \/ Commit(0) /\ UNCHANGED shutdown
       \/ shutdown /\ Commit(0) /\ shutdown' = FALSE
    /\ solo' = "idle"
    /\ UNCHANGED <<store_bin, solo_genesis_bin, solo_event, mempool_cut, mempool_bin, runs,
                   lost, torn>>

(* The answer comes, or does not within the time, or a ShutdownModule is received first,    *)
(* which the request takes off the channel: it is an error like another.  Without an answer *)
(* the last cut is used again.                                                              *)
handle_new_slot_tick ==
    /\ solo = "querying"
    /\ \/ Commit(mempool_cut) /\ UNCHANGED shutdown
       \/ Commit(store.last_cut) /\ UNCHANGED shutdown
       \/ shutdown /\ Commit(store.last_cut) /\ shutdown' = FALSE
    /\ solo' = "idle"
    /\ UNCHANGED <<store_bin, solo_genesis_bin, solo_event, mempool_cut, mempool_bin, runs,
                   lost, torn>>

MempoolGrows ==
    /\ mempool_cut < MaxCut
    /\ mempool_cut' = mempool_cut + 1
    /\ UNCHANGED <<solo, store, store_bin, solo_genesis_bin, solo_event, shutdown, mempool_bin,
                   commits, runs, lost, torn>>

---------------------------------------------------------------------------
ShutDown ==
    /\ ~shutdown /\ runs < MaxRuns
    /\ shutdown' = TRUE
    /\ UNCHANGED <<solo, store, store_bin, solo_genesis_bin, solo_event, mempool_cut, mempool_bin,
                   commits, runs, lost, torn>>

(* The loops of the module end on the shutdown, and run_module persists it. *)
SoloStops ==
    /\ shutdown /\ solo \in {"genesis", "idle"}
    /\ solo' = "stopped"
    /\ store_bin' = store
    /\ UNCHANGED <<store, solo_genesis_bin, solo_event, shutdown, mempool_cut, mempool_bin,
                   commits, runs, lost, torn>>

(* The next process, from what is on disk. *)
Started(tips) ==
    /\ runs' = runs + 1
    /\ store' = store_bin
    /\ solo' = IF store_bin.has_done_genesis THEN "idle" ELSE "genesis"
    /\ solo_event' = {}
    /\ shutdown' = FALSE
    /\ mempool_bin' = tips
    /\ mempool_cut' = tips
    /\ UNCHANGED <<store_bin, solo_genesis_bin, commits>>

(* The Mempool, which was started before the module, ends and is persisted after it. *)
MempoolStops ==
    /\ solo = "stopped"
    /\ Started(mempool_cut)
    /\ UNCHANGED <<lost, torn>>

(* The module is given up: it did not stop within its time, a request having taken its      *)
(* ShutdownModule.  The Mempool is stopped next, all the same.                              *)
GivenUp ==
    /\ runs < MaxRuns /\ solo # "stopped"
    /\ Started(mempool_cut)
    /\ lost' = (lost \/ store # store_bin)
    /\ UNCHANGED torn

(* The process is killed, in the middle of a shutdown or not. *)
Killed ==
    /\ runs < MaxRuns
    /\ Started(mempool_bin)
    /\ lost' = (lost \/ store # store_bin)
    /\ torn' = (torn \/ solo = "stopped")

SingleNext ==
    \/ SoloGenesis \/ HandleSoloGenesisEvent
    \/ NewSlotTick \/ handle_new_slot_tick \/ MempoolGrows
    \/ ShutDown \/ SoloStops \/ MempoolStops \/ GivenUp \/ Killed

SingleSpec == SingleInit /\ [][SingleNext]_singleVars

---------------------------------------------------------------------------
(* The commits form a chain: each has the slot after its parent's and at least its parent's *)
(* data, even when the Mempool does not answer and whatever was not saved, unless a process *)
(* ended between the two saves; and there is one branch, across any number of restarts,     *)
(* unless a process ended without saving (handle_new_slot_tick, persist).                   *)
SingleChain ==
    \A i \in DOMAIN commits :
        LET parent == commits[i].parent_hash
        IN  /\ parent < i
            /\ ~lost => parent = i - 1
            /\ parent > 0 => /\ commits[i].slot = commits[parent].slot + 1
                             /\ ~torn => commits[i].cut >= commits[parent].cut
=============================================================================
