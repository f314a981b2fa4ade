----------------------------- MODULE MCServices ----------------------------
(***************************************************************************)
(* The parts of the system that do not depend on one another's steps, side *)
(* by side: each behaviour is one of one part, the others staying where    *)
(* they are.                                                               *)
(*   "economy"  the contracts, the wallets and the copies of the stakes    *)
(*   "batch"    the proofs of several transactions of a contract           *)
(*   "p2p"      the connections between two nodes                          *)
(*   "genesis"  the first block of a network                               *)
(*   "solo"     the consensus of a node alone                              *)
(*   "modules"  the shutdown of a process                                  *)
(*   "bus"      a channel between modules                                  *)
(*   "ws"       the clients of the websocket server                        *)
(***************************************************************************)
EXTENDS Economy, ProofBatch, P2P, Genesis, SingleNode, Modules, Bus, WebSocket

VARIABLE service

economyRest == <<batchVars, p2pVars, genesisVars, singleVars, moduleVars, busVars, wsVars, service>>
batchRest == <<executorVars, p2pVars, genesisVars, singleVars, moduleVars, busVars, wsVars, service>>
p2pRest == <<executorVars, batchVars, genesisVars, singleVars, moduleVars, busVars, wsVars, service>>
genesisRest == <<executorVars, batchVars, p2pVars, singleVars, moduleVars, busVars, wsVars, service>>
singleRest == <<executorVars, batchVars, p2pVars, genesisVars, moduleVars, busVars, wsVars, service>>
modulesRest == <<executorVars, batchVars, p2pVars, genesisVars, singleVars, busVars, wsVars, service>>
busRest == <<executorVars, batchVars, p2pVars, genesisVars, singleVars, moduleVars, wsVars, service>>
wsRest == <<executorVars, batchVars, p2pVars, genesisVars, singleVars, moduleVars, busVars, service>>
servicesVars == <<executorVars, economyRest>>

(* A network whose genesis is over. *)
GenesisOver ==
    /\ genesis = [n \in GenesisNodes |-> "none"]
    /\ peer_pubkey = [n \in GenesisNodes |-> {}]
    /\ genesis_bin = [n \in GenesisNodes |-> TRUE]
    /\ peer_events = [n \in GenesisNodes |-> <<>>]
    /\ announced = [n \in GenesisNodes |-> Nobody]
    /\ has_genesis = [n \in GenesisNodes |-> TRUE]
    /\ node_height = [n \in GenesisNodes |-> 1]
    /\ built = {}
    /\ stops = 0

ServicesInit ==
    /\ service \in {"economy", "batch", "p2p", "genesis", "solo", "modules", "bus", "ws"}
    /\ ExecutorInit /\ BatchInit /\ P2PInit /\ SingleInit /\ ModulesInit /\ BusInit
    /\ WsInit
    /\ service # "batch" => contract = "uuid" /\ max_txs_per_proof = 2
    /\ service # "p2p" => server = [n \in Nodes |-> start_connection_task(NewServer)]
    /\ service # "ws" => mode = "topics"
    /\ IF service = "genesis" THEN GenesisInit ELSE GenesisOver

(* Bound: three transactions and blocks together. *)
InEconomy == service = "economy" /\ ExecutorNext /\ settled' + Len(chain') <= 3 /\ UNCHANGED economyRest
InBatch == service = "batch" /\ BatchNext /\ UNCHANGED batchRest
(* The first connection is opened at time 0: only the order of the timestamps matters. *)
FirstAtZero == Len(conns) <= 1 => now = 0
(* Bound: with connections that break, one message. *)
InP2P ==
    service = "p2p" /\ P2PNext /\ (losses' = 0 \/ sent' <= 1) /\ FirstAtZero' /\ UNCHANGED p2pRest
InGenesis == service = "genesis" /\ GenesisNext /\ UNCHANGED genesisRest
InSolo == service = "solo" /\ SingleNext /\ UNCHANGED singleRest
InModules == service = "modules" /\ ModulesNext /\ UNCHANGED modulesRest
InBus == service = "bus" /\ BusNext /\ UNCHANGED busRest
(* Bound: with topics and broadcasts, one message of a client. *)
InWebSocket == service = "ws" /\ WsNext /\ (mode = "both" => request_count' <= 1) /\ UNCHANGED wsRest

ServicesNext == InEconomy \/ InBatch \/ InP2P \/ InGenesis \/ InSolo \/ InModules \/ InBus
                    \/ InWebSocket

(* The fairness of GenesisSpec and ModulesSpec, for the behaviours that are theirs. *)
ServicesSpec ==
    /\ ServicesInit /\ [][ServicesNext]_servicesVars
    /\ WF_genesisVars(service = "genesis" /\ \E n \in GenesisNodes : GenesisStep(n))
    /\ WF_genesisVars(service = "genesis" /\ Announcement)
    /\ WF_moduleVars(service = "modules" /\ loop # "exited" /\ Handler)
    /\ WF_moduleVars(service = "modules" /\ loop # "exited" /\ \E m \in Modules : Stops(m))

---------------------------------------------------------------------------
(* Values of the constants for TLC. *)
MCTokenOrder == <<"hyllar", "hyllar2">>
(* The faucet has its identity, bob has tokens, and v2 has the stake to be bonded. *)
MCEarlierTxs ==
    <<Registered(Tx("faucet"), "p"),
      Transferred(Tx("faucet"), "hyllar", "bob", 2),
      Transferred(Staked(Tx("faucet"), [op |-> "Stake", amount |-> 2]), "hyllar", "staking", 2),
      Staked(Tx("faucet"), [op |-> "Delegate", validator |-> "v2"])>>
MCGenesisStakers == <<"n1", "n2">>
(* n2 is a quorum of its own: the network may leave the genesis while n1 is still in it. *)
MCStakeOf(p) == IF p = "n1" THEN 1 ELSE 3
MCModuleOrder == <<"node_state", "da", "mempool", "consensus">>
MCTxsOfBlock == <<2>>
=============================================================================
