------------------------------ MODULE Genesis ------------------------------
(***************************************************************************)
(* The genesis module of the nodes of a new network: each builds the first *)
(* block on its own once it knows all the stakers of the configuration,    *)
(* and skips it when the network already runs.  The node around it is what *)
(* the module depends on: P2P announces each peer once per canal, with the *)
(* height it had at the handshake; DataAvailability stores the block it is *)
(* given, or obtains it from a peer; a process may end at any point.       *)
(* A name stands for the key of its node, one token with a Merkle tree for *)
(* the three of the code.                                                  *)
(***************************************************************************)
EXTENDS Wallets, SmtToken

CONSTANTS
    GenesisNodes,   \* names of the nodes
    GenesisStakers, \* the stakers of the configuration, in the order of their names
    StakeOf(_),     \* what each of them stakes
    FeeDeposit,     \* what each of them deposits for fees, 100_000_000_000 in the code
    MaxCanals,      \* P2P canals, each of which announces a peer
    MaxStops        \* bound on the processes that end

VARIABLES
    genesis,        \* the module: "starting", "waiting", "block" or "none" (what it sent)
    peer_pubkey,    \* the stakers it knows
    genesis_bin,    \* on disk: the genesis is over
    peer_events,    \* NewPeer events on the bus of the node
    announced,      \* how often P2P has announced a peer to the node
    has_genesis,    \* on disk: DataAvailability has stored the first block
    node_height,    \* the height P2P announces: that of the blocks since it was started
    built,          \* the sets of peers blocks were built for, ever
    stops

genesisVars == <<genesis, peer_pubkey, genesis_bin, peer_events, announced, has_genesis,
                 node_height, built, stops>>

StakerSet == ToSet(GenesisStakers)
Nobody == [m \in GenesisNodes |-> 0]

GenesisInit ==
    /\ genesis = [n \in GenesisNodes |-> "starting"]
    /\ peer_pubkey = [n \in GenesisNodes |-> {}]
    /\ genesis_bin = [n \in GenesisNodes |-> FALSE]
    /\ peer_events = [n \in GenesisNodes |-> <<>>]
    /\ announced = [n \in GenesisNodes |-> Nobody]
    /\ has_genesis = [n \in GenesisNodes |-> FALSE]
    /\ node_height = [n \in GenesisNodes |-> 0]
    /\ built = {}
    /\ stops = 0

---------------------------------------------------------------------------
(* The block.  Transactions are executed as they are built, and the states before and after *)
(* go in the block as the outputs of a proof.                                               *)
genesis_contracts_txs ==
    [t \in {TokenOrder[1]} |-> NewHyllar]
        @@ ("hydentity" :> NewHydentity) @@ ("staking" :> NewStaking) @@ ("oranj" :> NewSmtToken)

VerifiedNow(states, identity) ==
    Verified(Tx(identity), states["hydentity"][identity].nonce, "password")

generate_register_txs(states, p) == Registered(Tx(p), "password")

generate_faucet_txs(states, p) ==
    Transferred(VerifiedNow(states, Faucet), TokenOrder[1], p, StakeOf(p) + FeeDeposit)

(* Mutant of generate_stake_txs: the fees are deposited without paying for them. *)
StakeWithoutPayment(states, p) ==
    LET staked == Transferred(Staked(VerifiedNow(states, p), [op |-> "Stake", amount |-> StakeOf(p)]),
                              TokenOrder[1], "staking", StakeOf(p))
        deposited == Staked(staked, [op |-> "DepositForFees", holder |-> p, amount |-> FeeDeposit])
    IN  Staked(deposited, [op |-> "Delegate", validator |-> p])

generate_stake_txs(states, p) ==
    LET staked == Transferred(Staked(VerifiedNow(states, p), [op |-> "Stake", amount |-> StakeOf(p)]),
                              TokenOrder[1], "staking", StakeOf(p))
        deposited == Transferred(Staked(staked, [op |-> "DepositForFees", holder |-> p,
                                                 amount |-> FeeDeposit]),
                                 TokenOrder[1], "staking", FeeDeposit)
    IN  Staked(deposited, [op |-> "Delegate", validator |-> p])

(* What the faucet still has goes to the wallet. *)
generate_token_txs(states, p) ==
    Transferred(VerifiedNow(states, Faucet), TokenOrder[1], p, Balance(states[TokenOrder[1]], Faucet))

(* The other tokens go there outside of the executor, which verifies the identity only.     *)
TransferBlob ==
    [type |-> "SmtTokenAction", op |-> "Transfer", sender |-> Faucet,
     recipient |-> "hyli@wallet", amount |-> TOTAL_SUPPLY, spender |-> Faucet]

(* The transactions in their order, each built for somebody on the states then.  The tokens *)
(* may be left with the faucet, as the configuration says.                                  *)
GenesisTxs(peers, keep_tokens_in_faucet) ==
    LET Each(step) == [i \in DOMAIN peers |-> [step |-> step, p |-> peers[i]]]
        token_txs == <<[step |-> "token", p |-> "hyli@wallet"], [step |-> "verify", p |-> Faucet]>>
    IN  <<[step |-> "register", p |-> Faucet]>> \o Each("register") \o Each("faucet")
            \o Each("stake") \o (IF keep_tokens_in_faucet THEN <<>> ELSE token_txs)

Generated(states, g) ==
    CASE g.step = "register" -> generate_register_txs(states, g.p)
      [] g.step = "faucet" -> generate_faucet_txs(states, g.p)
      [] g.step = "stake" -> generate_stake_txs(states, g.p)
      [] g.step = "token" -> generate_token_txs(states, g.p)
      [] g.step = "verify" -> VerifiedNow(states, g.p)

(* TxExecutor on the next transaction; none when it fails. *)
Executed(ran, g) ==
    LET Step(w, tx) ==
            {[states |-> after,
              txs |-> Append(w.txs, [tx |-> tx, before |-> w.states, after |-> after])]
                : after \in process(w.states, tx)}
    IN  UNION {UNION {Step(w, tx) : tx \in {Generated(w.states, g)}} : w \in ran}

(* The transfer of the other tokens is put in the last of token_txs with its own output. *)
WithOtherTokens(txs) ==
    {[txs EXCEPT ![Len(txs)] = [@ EXCEPT !.tx = add_action(@, "oranj", TransferBlob, "", {}, {}),
                                         !.after["oranj"] = next_root]]
        : next_root \in inner_handle(NewSmtToken, TransferBlob)}

(* make_genesis_block adds the validators to bond: every peer known.  No block when a       *)
(* transaction fails.                                                                       *)
GenesisBlock(known, keep_tokens_in_faucet) ==
    LET peers == SelectSeq(GenesisStakers, LAMBDA p : p \in known)
        ran == FoldLeft(Executed, {[states |-> genesis_contracts_txs, txs |-> <<>>]},
                        GenesisTxs(peers, keep_tokens_in_faucet))
        genesis_txs == IF keep_tokens_in_faucet THEN {w.txs : w \in ran}
                       ELSE UNION {WithOtherTokens(w.txs) : w \in ran}
    IN  {[txs |-> txs, validators |-> peers] : txs \in genesis_txs}

---------------------------------------------------------------------------
(* What the module sends, if anything; then nobody reads the announcements any more. *)
Conclude(n, outcome, known, events) ==
    LET over == outcome \in {"block", "none"}
    IN  /\ genesis' = [genesis EXCEPT ![n] = outcome]
        /\ built' = IF outcome = "block" THEN built \cup {known} ELSE built
        /\ peer_pubkey' = [peer_pubkey EXCEPT ![n] = known]
        /\ peer_events' = [peer_events EXCEPT ![n] = IF over THEN <<>> ELSE events]
        /\ announced' = IF over THEN [announced EXCEPT ![n] = Nobody] ELSE announced
        /\ UNCHANGED <<genesis_bin, has_genesis, node_height, stops>>

(* start: skip when it was done before, or when it is for others to do. *)
StartGenesis(n) ==
    /\ genesis[n] = "starting"
    /\ IF genesis_bin[n] \/ n \notin StakerSet THEN Conclude(n, "none", {}, <<>>)
       ELSE Conclude(n, IF StakerSet = {n} THEN "block" ELSE "waiting", {n}, peer_events[n])

(* P2P: a handshake of n and m on a canal, as long as it matters to the genesis. *)
AnnouncePeer(n, m) ==
    /\ n # m
    /\ genesis[n] \in {"starting", "waiting"}
    /\ announced[n][m] < MaxCanals
    /\ announced' = [announced EXCEPT ![n][m] = @ + 1]
    /\ peer_events' = [peer_events EXCEPT ![n] =
                            Append(@, [name |-> m, height |-> node_height[m]])]
    /\ UNCHANGED <<genesis, peer_pubkey, genesis_bin, has_genesis, node_height, built, stops>>

(* Mutant of HandleGenesisPeer: a peer that has gone past the genesis is passed over. *)
WaitForStarters(n) ==
    /\ genesis[n] = "waiting" /\ peer_events[n] # <<>>
    /\ LET event == Head(peer_events[n])
           known == IF event.height > 0 THEN peer_pubkey[n]
                    ELSE peer_pubkey[n] \cup ({event.name} \cap StakerSet)
       IN  Conclude(n, IF known = StakerSet THEN "block" ELSE "waiting", known,
                    Tail(peer_events[n]))

(* do_genesis waits: for the last staker, which makes it build the block, or for one that   *)
(* is past the genesis, which makes it leave.                                               *)
HandleGenesisPeer(n) ==
    /\ genesis[n] = "waiting" /\ peer_events[n] # <<>>
    /\ LET event == Head(peer_events[n])
           known == peer_pubkey[n] \cup ({event.name} \cap StakerSet)
       IN  IF event.name \in StakerSet /\ event.height > 0
           THEN Conclude(n, "none", peer_pubkey[n], <<>>)
           ELSE Conclude(n, IF known = StakerSet THEN "block" ELSE "waiting", known,
                         Tail(peer_events[n]))

(* The module is over: run_module persists it, before anybody may have read its event. *)
PersistGenesis(n) ==
    /\ genesis[n] \in {"block", "none"}
    /\ ~genesis_bin[n]
    /\ genesis_bin' = [genesis_bin EXCEPT ![n] = TRUE]
    /\ UNCHANGED <<genesis, peer_pubkey, peer_events, announced, has_genesis, node_height, built,
                   stops>>

---------------------------------------------------------------------------
(* DataAvailability stores the block of the event, or the one of a peer it catches up from. *)
StoreGenesis(n) ==
    /\ ~has_genesis[n]
    /\ \/ genesis[n] = "block"
       \/ genesis[n] = "none" /\ \E m \in GenesisNodes : has_genesis[m]
    /\ has_genesis' = [has_genesis EXCEPT ![n] = TRUE]
    /\ UNCHANGED <<genesis, peer_pubkey, genesis_bin, peer_events, announced, node_height, built,
                   stops>>

(* A second block: stakers that have the first are enough to vote for it. *)
LeaveGenesis(n) ==
    /\ has_genesis[n] /\ node_height[n] = 0
    /\ LET voters == {m \in StakerSet : has_genesis[m]}
           f == MapThenSumSet(StakeOf, StakerSet) \div 3
       IN  MapThenSumSet(StakeOf, voters) > 2 * f
    /\ node_height' = [node_height EXCEPT ![n] = 1]
    /\ UNCHANGED <<genesis, peer_pubkey, genesis_bin, peer_events, announced, has_genesis, built,
                   stops>>

(* The process ends and is started again; P2P starts from height 0 whatever is on disk. *)
StopNode(n) ==
    /\ stops < MaxStops
    /\ stops' = stops + 1
    /\ genesis' = [genesis EXCEPT ![n] = "starting"]
    /\ peer_pubkey' = [peer_pubkey EXCEPT ![n] = {}]
    /\ peer_events' = [peer_events EXCEPT ![n] = <<>>]
    /\ announced' = [announced EXCEPT ![n] = Nobody]
    /\ node_height' = [node_height EXCEPT ![n] = 0]
    /\ UNCHANGED <<genesis_bin, has_genesis, built>>

GenesisStep(n) ==
    \/ StartGenesis(n)
    \/ HandleGenesisPeer(n)
    \/ PersistGenesis(n)
    \/ StoreGenesis(n)

GenesisNext ==
    \E n \in GenesisNodes :
        \/ GenesisStep(n)
        \/ \E m \in GenesisNodes : AnnouncePeer(n, m)
        \/ LeaveGenesis(n)
        \/ StopNode(n)

Announcement == \E n, m \in GenesisNodes : AnnouncePeer(n, m)

(* The modules of a node run, and P2P connects the nodes that are up. *)
GenesisFairness ==
    /\ WF_genesisVars(\E n \in GenesisNodes : GenesisStep(n))
    /\ WF_genesisVars(Announcement)

GenesisSpec == GenesisInit /\ [][GenesisNext]_genesisVars /\ GenesisFairness

---------------------------------------------------------------------------
(* The nodes build their first block alone, in whatever order the peers appeared and again  *)
(* after a restart: it is the same block, whatever is done with the tokens of the faucet    *)
(* (do_genesis, test_genesis_connect_order).                                                *)
GenesisAgrees ==
    \A keep \in BOOLEAN : \A a, b \in {GenesisBlock(known, keep) : known \in built} : a = b

(* NodeState on the outputs of the block, in its order: the states in the end, if each one   *)
(* starts from where the one before has ended.                                               *)
Replayed(block) ==
    LET Follow(ran, entry) ==
            LET used == {entry.tx.blobs[i].contract : i \in DOMAIN entry.tx.blobs}
            IN  {[c \in used |-> entry.after[c]] @@ states :
                    states \in {s \in ran : \A c \in used : s[c] = entry.before[c]}}
    IN  FoldLeft(Follow, {genesis_contracts_txs}, block.txs)

(* The block is one that settles: its transactions succeed, their outputs follow from one   *)
(* another, and the staking actions in it let every staker be bonded with its stake, paid   *)
(* for in tokens, while the faucet keeps the rest or nothing at all, as it is configured    *)
(* (generate_genesis_txs).                                                                  *)
GenesisSettles ==
    \A known \in built, keep \in BOOLEAN : \E block \in GenesisBlock(known, keep) :
        LET blobs == FlattenSeq([i \in DOMAIN block.txs |->
                        LET tx == block.txs[i].tx
                        IN  [j \in DOMAIN tx.blobs |-> [identity |-> tx.identity] @@ tx.blobs[j]]])
            bonded == process_block(NewStaking, SelectSeq(blobs, LAMBDA b : b.contract = "staking"),
                                    block.validators)
            stakers == ToSet(block.validators)
            owed == MapThenSumSet(LAMBDA p : StakeOf(p) + FeeDeposit, stakers)
        IN  /\ ~bonded.error
            /\ bonded.s.total_bond = MapThenSumSet(StakeOf, stakers)
            /\ \E final \in Replayed(block) :
                 /\ Balance(final[TokenOrder[1]], "staking") = owed
                 /\ Balance(final[TokenOrder[1]], Faucet) = IF keep THEN TOTAL_SUPPLY - owed ELSE 0
                 /\ Total(final[TokenOrder[1]].balances) = TOTAL_SUPPLY

(* All stakers build one and the same first block, and it is one that settles (do_genesis). *)
GenesisSound == GenesisAgrees /\ GenesisSettles

(* Every genesis module ends, and every node obtains the first block, whichever node is      *)
(* restarted and when; as long as fewer processes end than there are stakers, for the mark   *)
(* that the genesis is over is saved before the block is (do_genesis, persist).              *)
GenesisCompletes ==
    <>[](\A n \in GenesisNodes : genesis[n] \in {"block", "none"} /\ has_genesis[n])
=============================================================================
