----------------------------- MODULE Consumers -----------------------------
(***************************************************************************)
(* The programs that follow the chain of a node, each on its own: the      *)
(* SignedDAListener on the block stream, the AutoProver on the blocks of   *)
(* NodeState, the ContractStateIndexer and the Indexer on the blocks of    *)
(* NodeState.  They share no state, so a behaviour runs one of them and    *)
(* leaves the others as they start.                                        *)
(***************************************************************************)
EXTENDS SignedDAListener, AutoProver, IndexerApi

VARIABLE consumer   \* the one that runs

consumersVars == <<consumer, signedVars, feedVars, proverVars, followersVars>>

ListenerIdle ==
    /\ NobodyConnected
    /\ current_block = StartBlock /\ block_buffer = {} /\ published = <<>> /\ sendFailures = 0

ConsumersInit ==
    /\ consumer \in {"listener", "prover", "indexers"}
    /\ IF consumer = "listener" THEN SignedInit ELSE ListenerIdle
    /\ FeedInit /\ ProverInit
    /\ FollowersInit

ConsumersNext ==
    /\ UNCHANGED consumer
    /\ \/ /\ consumer = "listener" /\ SignedNext
          /\ UNCHANGED <<feedVars, proverVars, followersVars>>
       \/ /\ consumer = "prover" /\ ProverNext
          /\ UNCHANGED <<signedVars, followersVars>>
       \/ /\ consumer = "indexers" /\ FollowersNext
          /\ UNCHANGED <<signedVars, feedVars, proverVars>>

ConsumersSpec == ConsumersInit /\ [][ConsumersNext]_consumersVars /\ SignedFairness
=============================================================================
