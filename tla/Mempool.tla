------------------------------- MODULE Mempool -------------------------------
(***************************************************************************)
(* The mempools of N validators: each operates a lane, groups the          *)
(* transactions it is sent into data proposals, and disseminates them; the *)
(* others store and sign them; a proposal that more than f of the voting   *)
(* power signed can be put in a cut by a leader.  From the cuts that are   *)
(* committed each mempool builds the blocks, and fetches the proposals it  *)
(* misses from the lane's operator.                                        *)
(*                                                                         *)
(* Consensus is the sequence of cuts it commits, which every node learns   *)
(* in order.  What a node sends to another goes through one connection, in *)
(* order, and may be lost with it; the operators are honest.  Only what    *)
(* the properties need is kept of a transaction: whether it registers the  *)
(* contract, or proves a blob of it.                                       *)
(***************************************************************************)
EXTENDS Lanes, SequencesExt

CONSTANTS
    LaneIds,       \* the validators that are sent transactions
    Txs,          \* transactions
    Scripts,      \* what the clients may send: sequences of a transaction
                  \* and the validator it is sent to
    RegisterTxs,  \* blob transactions that register the contract
    ProofTxs,     \* proofs of blobs of the contract
    Joiners,      \* validators that may start after some commits
    MaxBatch,     \* transactions that fit in a data proposal
    MaxSlot,      \* bound: committed cuts
    MaxFaults     \* bound: messages lost, restarts and early timers

ASSUME MempoolAssumption ==
    /\ LaneIds \subseteq Nodes /\ Scripts \subseteq Seq(Txs \X LaneIds)
    /\ Joiners \subseteq Nodes
    /\ RegisterTxs \subseteq Txs /\ ProofTxs \subseteq Txs
    /\ MaxBatch \in Nat \ {0} /\ {MaxSlot, MaxFaults} \subseteq Nat

VARIABLES
    node,       \* the mempool of each validator
    net,        \* messages in flight between each two validators
    committed,  \* the cuts that consensus committed, by slot
    faults,     \* messages lost, restarts and early timers so far
    clients     \* what clients still have to send

vars == <<node, net, committed, faults, clients>>

---------------------------------------------------------------------------
(* The state of a mempool. *)

EmptyCut == <<>>
InCut(cut, l) == IF l \in DOMAIN cut THEN cut[l] ELSE NoCar
CutAt(slot) == IF slot = 0 THEN EmptyCut ELSE committed[slot]

MempoolInit ==
    [lanes |-> [l \in LaneIds |-> EmptyLane],
     buffered |-> [l \in LaneIds |-> <<>>],  \* buffered_proposals
     podas |-> [l \in LaneIds |-> {}],       \* buffered_podas
     verdicts |-> [l \in LaneIds |-> <<>>],  \* cached_dp_votes, by proposal
     tasks |-> <<>>,                        \* processing_dps
     waiting |-> <<>>,                      \* waiting_dissemination_txs
     preparing |-> NoDp,                    \* own_data_proposal_in_preparation
     known |-> FALSE,                       \* the contract is in known_contracts
     last |-> [slot |-> 0, cut |-> EmptyCut],  \* last_ccp, none at slot 0
     building |-> <<>>,                     \* blocks_under_contruction
     started |-> 0,                         \* buc_build_start_height, none at 0
     built |-> {},                          \* the blocks that were emitted
     todo |-> <<>>,                         \* MempoolSync: replies to send, by proposal
     replied |-> {}]                        \* by_pubkey_by_dp_hash

Result(s, out) == [s |-> s, out |-> out]

(* A message, and the set of nodes it is sent to. *)
DataProposal(to, dp) == [to |-> to, msg |-> [type |-> "DataProposal", dp |-> dp]]
DataVote(l, dp, size) ==
    [to |-> {l}, msg |-> [type |-> "DataVote", dp |-> dp, size |-> size]]
PoDAUpdate(to, dp, entry) ==
    [to |-> to, msg |-> [type |-> "PoDAUpdate", dp |-> dp, entry |-> entry]]
SyncRequest(l, base, dp) ==
    [to |-> {l}, msg |-> [type |-> "SyncRequest", base |-> base, dp |-> dp]]
SyncReply(to, dp, entry) ==
    [to |-> {to}, msg |-> [type |-> "SyncReply", dp |-> dp, entry |-> entry]]

---------------------------------------------------------------------------
(* verify_tx.rs: data proposals of the other lanes. *)

Cache(s, l, dp, verdict) ==
    [s EXCEPT !.verdicts = With(s.verdicts, l, With(s.verdicts[l], dp, verdict))]
Cached(s, l, dp) ==
    IF dp \in DOMAIN s.verdicts[l] THEN s.verdicts[l][dp] ELSE "None"

Task(event, l, dp, known) == [event |-> event, lane |-> l, dp |-> dp, known |-> known]

(* Proposals that are received, or taken from the buffer, one after the    *)
(* other: a vote is sent again, and those without a verdict are hashed.    *)
on_data_proposals(s, l, dps) ==
    LET fresh == Keep(dps, {i \in DOMAIN dps : Cached(s, l, dps[i]) \in {"None", "Wait"}})
        voted == Keep(dps, {i \in DOMAIN dps : Cached(s, l, dps[i]) = "Vote"})
    IN Result([s EXCEPT !.tasks =
                    s.tasks \o [i \in DOMAIN fresh |-> Task("Hashed", l, fresh[i], FALSE)]],
              [i \in DOMAIN voted |->
                    DataVote(l, voted[i], get_lane_size_at(s.lanes[l], voted[i]))])

get_verdict(lane, dp) ==
    IF contains(lane, dp) THEN "Vote"
    ELSE [No |-> "Wait", Yes |-> "Process", Fork |-> "Refuse", AlreadyOnTop |-> "Ignore"]
            [can_be_put_on_top(lane, dp)]

on_hashed_data_proposal(s, l, dp) ==
    LET verdict == get_verdict(s.lanes[l], dp)
        s1 == Cache(s, l, dp, verdict)
    IN IF verdict = "Vote"
       THEN Result(s1, <<DataVote(l, dp, get_lane_size_at(s.lanes[l], dp))>>)
       ELSE IF verdict = "Process"
       THEN Result([s1 EXCEPT !.tasks = Append(s.tasks, Task("Processed", l, dp, s.known))],
                   <<>>)
       ELSE IF verdict = "Wait" /\ dp \notin ToSet(s.buffered[l])
       THEN Result([s1 EXCEPT !.buffered = With(s.buffered, l, Append(s.buffered[l], dp))],
                   <<>>)
       ELSE Result(s1, <<>>)

(* Whether the proofs of a proposal are of a contract that is known, or    *)
(* that is registered earlier in the same proposal.                        *)
Verifiable(known, dp) ==
    \A i \in DOMAIN Last(dp) :
        Last(dp)[i] \in ProofTxs =>
            known \/ \E j \in 1..(i - 1) : Last(dp)[j] \in RegisterTxs

(* process_data_proposal runs at any time after it was spawned; contracts  *)
(* become known meanwhile.                                                 *)
Decisions(s, task) ==
    {v \in {"Vote", "Refuse"} :
        IF v = "Vote" THEN Verifiable(s.known, task.dp) ELSE ~Verifiable(task.known, task.dp)}

SwapRemove(seq, i) ==
    [j \in 1..(Len(seq) - 1) |-> IF j = i THEN seq[Len(seq)] ELSE seq[j]]

(* The verdict is cached before the proposal is stored, which may fail. *)
on_processed_data_proposal(n, s, l, dp, verdict) ==
    LET s1 == Cache(s, l, dp, verdict)
        lane == store_data_proposal(n, s.lanes[l], dp)
        size == lane.entries[dp].size
        podas == {p \in s.podas[l] : p.dp = dp}
        sigs == UNION {p.entry.sigs : p \in {q \in podas : q.entry.size = size}}
        children == {i \in DOMAIN s.buffered[l] : Parent(s.buffered[l][i]) = dp}
        child == Min(children)
        s2 == [s1 EXCEPT !.lanes = With(s.lanes, l, add_signatures(lane, dp, size, sigs)),
                         !.podas = With(s.podas, l, s.podas[l] \ podas)]
        s3 == [s2 EXCEPT !.buffered = With(s.buffered, l, SwapRemove(s.buffered[l], child))]
        next == on_hashed_data_proposal(s3, l, s.buffered[l][child])
        vote == DataVote(l, dp, size)
    IN IF verdict = "Refuse" \/ ~CanStore(s.lanes[l], dp) THEN Result(s1, <<>>)
       ELSE IF children = {} THEN Result(s2, <<vote>>)
       ELSE Result(next.s, <<vote>> \o next.out)

---------------------------------------------------------------------------
(* own_lane.rs: the lane of the node. *)

(* A blob transaction that registers the contract makes it known at once;  *)
(* a proof of a contract that is not known is dropped.                     *)
on_new_tx(s, tx) ==
    IF (tx \in ProofTxs /\ ~s.known) \/ tx \in ToSet(s.waiting) THEN s
    ELSE [s EXCEPT !.known = s.known \/ tx \in RegisterTxs, !.waiting = Append(s.waiting, tx)]

init_dp_preparation_if_pending(n, s) ==
    LET k == Min({MaxBatch, Len(s.waiting)})
    IN [s EXCEPT !.preparing = Append(s.lanes[n].tip, SubSeq(s.waiting, 1, k)),
                 !.waiting = SubSeq(s.waiting, k + 1, Len(s.waiting))]

(* To everyone if only the node signed it, else to those who did not. *)
RebroadcastTo(n, s, dp) ==
    LET signed == s.lanes[n].entries[dp].sigs
    IN IF Cardinality(signed) = 1 /\ N >= 2 THEN Nodes \ {n} ELSE Nodes \ signed

rebroadcast_data_proposal(n, s, dp) == <<DataProposal(RebroadcastTo(n, s, dp), dp)>>

(* The proposals of its lane since the last cut the node knows, if none of *)
(* them is missing.                                                        *)
Pending(n, s) ==
    LET base == InCut(s.last.cut, n).dp
        lane == s.lanes[n]
    IN IF Missing(lane, base, lane.tip) # {} THEN {} ELSE Between(lane, base, lane.tip)

(* The prepared proposal is stored and, if it is pending, disseminated. *)
resume_new_data_proposal(n, s) ==
    LET s1 == [s EXCEPT !.preparing = NoDp,
                        !.lanes = With(s.lanes, n,
                                       store_data_proposal(n, s.lanes[n], s.preparing))]
    IN IF CanStore(s.lanes[n], s.preparing)
       THEN Result(s1, IF Len(s.preparing) \in Pending(n, s1)
                       THEN rebroadcast_data_proposal(n, s1, s.preparing) ELSE <<>>)
       ELSE Result([s EXCEPT !.preparing = NoDp], <<>>)

(* Mutant of Oldest. *)
Newest(n, s) == s.lanes[n].tip

(* The oldest of them. *)
Oldest(n, s) == Ancestor(s.lanes[n].tip, Min(Pending(n, s)))

redisseminate_oldest_data_proposal(n, s) ==
    IF Pending(n, s) = {} THEN <<>> ELSE rebroadcast_data_proposal(n, s, Oldest(n, s))

(* The vote is added; at some thresholds of voting power all are sent on. *)
on_data_vote(n, s, from, dp, size) ==
    LET lane == add_signatures(s.lanes[n], dp, size, {from})
        new == Power[lane.entries[dp].sigs]
        old == Power[lane.entries[dp].sigs \ {from}]
        f == compute_f
    IN IF ~contains(s.lanes[n], dp) THEN Result(s, <<>>)
       ELSE Result([s EXCEPT !.lanes = With(s.lanes, n, lane)],
                   IF \/ (old < f /\ new >= f)
                      \/ (old < 2 * f /\ new >= 2 * f)
                      \/ new > 3 * f
                   THEN <<PoDAUpdate(Nodes \ {n}, dp, lane.entries[dp])>>
                   ELSE <<>>)

on_poda_update(s, l, dp, entry) ==
    IF contains(s.lanes[l], dp)
    THEN [s EXCEPT !.lanes =
              With(s.lanes, l, add_signatures(s.lanes[l], dp, entry.size, entry.sigs))]
    ELSE [s EXCEPT !.podas = With(s.podas, l, s.podas[l] \cup {[dp |-> dp, entry |-> entry]})]

---------------------------------------------------------------------------
(* block_construction.rs: blocks, and requests for what they miss. *)

(* The first lane of a cut of which some proposal since the block before   *)
(* is missing is asked for, up to the one found missing.                   *)
LanesMissing(s, b) ==
    {l \in DOMAIN b.cut : Missing(s.lanes[l], InCut(b.from, l).dp, b.cut[l].dp) # {}}

RequestFor(s, b) ==
    LET l == Min(LanesMissing(s, b))
        base == InCut(b.from, l).dp
        missing == Max(Missing(s.lanes[l], base, b.cut[l].dp))
    IN SyncRequest(l, base, Ancestor(b.cut[l].dp, missing))

SignedBlock(s, b) ==
    [slot |-> b.slot,
     dps |-> [l \in DOMAIN b.cut |->
                {Ancestor(b.cut[l].dp, k) :
                    k \in Between(s.lanes[l], InCut(b.from, l).dp, b.cut[l].dp)}]]

try_to_send_full_signed_blocks(s) ==
    LET full == {i \in DOMAIN s.building : LanesMissing(s, s.building[i]) = {}}
        rest == Keep(s.building, DOMAIN s.building \ full)
    IN Result([s EXCEPT !.building = rest,
                        !.built = s.built \cup {SignedBlock(s, s.building[i]) : i \in full}],
              [i \in DOMAIN rest |-> RequestFor(s, rest[i])])

(* Mutant of try_create_block_under_construction: the interval starts at   *)
(* the new commit.                                                         *)
StartsAtNewCut(s, slot, cut) ==
    [s EXCEPT !.last = [slot |-> slot, cut |-> cut],
              !.started = IF @ = 0 THEN slot ELSE @,
              !.building = Append(@, [slot |-> slot, from |-> cut, cut |-> cut])]

(* The block of the slot after the last commit, or of slot 1, is queued;   *)
(* after a gap the commit is only noted.                                   *)
try_create_block_under_construction(s, slot, cut) ==
    LET s1 == [s EXCEPT !.last = [slot |-> slot, cut |-> cut]]
    IN IF s.last.slot >= slot THEN s
       ELSE IF s.last.slot = slot - 1
       THEN [s1 EXCEPT !.started = IF s.started = 0 THEN slot ELSE s.started,
                       !.building = Append(s.building, [slot |-> slot, from |-> s.last.cut,
                                                        cut |-> cut])]
       ELSE s1

(* Mutant of UnknownLanes: the lanes whose proposal is new. *)
AllNewLanes(s, cut, previous) ==
    {l \in DOMAIN cut : cut[l].dp # InCut(previous, l).dp}

(* The lanes whose committed proposal is not there, unless it was already  *)
(* committed: their tip moves there and the interval is asked for.         *)
UnknownLanes(s, cut, previous) ==
    {l \in DOMAIN cut : /\ ~contains(s.lanes[l], cut[l].dp)
                        /\ cut[l].dp # InCut(previous, l).dp}

clean_and_update_lanes(s, cut, previous) ==
    LET unknown == UnknownLanes(s, cut, previous)
    IN Result([s EXCEPT !.lanes =
                  [l \in LaneIds |->
                      IF l \in unknown
                      THEN clean_and_update_lane(s.lanes[l], InCut(previous, l).dp,
                                                 cut[l].dp, cut[l].size)
                      ELSE s.lanes[l]]],
              LET ls == Ascending(unknown)
              IN [i \in DOMAIN ls |->
                    SyncRequest(ls[i], InCut(previous, ls[i]).dp, cut[ls[i]].dp)])

handle_consensus_event(s, slot, cut) ==
    LET sent == try_to_send_full_signed_blocks(
                    try_create_block_under_construction(s, slot, cut))
        cleaned == clean_and_update_lanes(sent.s, cut, s.last.cut)
    IN Result(cleaned.s, sent.out \o cleaned.out)

(* Creates a cut with local material. *)
handle_querynewcut(s) ==
    [l \in {k \in LaneIds : /\ s.lanes[k].tip # NoDp
                           /\ get_latest_car(s.lanes[k], InCut(s.last.cut, k)) # NoCar} |->
        get_latest_car(s.lanes[l], InCut(s.last.cut, l))]

---------------------------------------------------------------------------
(* sync_request_reply.rs: the interval that is asked for is unfolded, from *)
(* the newest to the first that is not there; without a start, only the    *)
(* end of the interval is wanted.                                          *)

unfold_sync_request_interval(l, s, from, base, dp) ==
    LET lane == s.lanes[l]
        range == Between(lane, base, dp)
        wanted == {Ancestor(dp, k) : k \in IF base = NoDp THEN {Len(dp)} ELSE range}
        found == {d \in wanted : contains(lane, d)}
    IN [s EXCEPT !.todo =
            [d \in DOMAIN s.todo \cup found |->
                IF d \notin found THEN s.todo[d]
                ELSE IF d \in DOMAIN s.todo
                THEN [entry |-> s.todo[d].entry, to |-> s.todo[d].to \cup {from}]
                ELSE [entry |-> lane.entries[d], to |-> {from}]]]

(* All replies are sent, but for those sent less than ten seconds ago,     *)
(* which are forgotten; those for proposals that were removed are kept.    *)
send_replies(l, s, throttled) ==
    LET due == {r \in (DOMAIN s.todo) \X Nodes : r[2] \in s.todo[r[1]].to} \ throttled
        there == {r \in due : contains(s.lanes[l], r[1])}
        kept == {r[1] : r \in due \ there}
    IN Result([s EXCEPT !.replied = s.replied \cup due,
                        !.todo = [d \in kept |->
                                    [entry |-> s.todo[d].entry,
                                     to |-> {r[2] : r \in {q \in due : q[1] = d}}]]],
              LET rs == SetToSeq(there)
              IN [i \in DOMAIN rs |-> SyncReply(rs[i][2], rs[i][1], s.todo[rs[i][1]].entry)])

(* The missing proposal is stored with the signatures the operator had for *)
(* it; the tip stays.  What was buffered is tried again, then the blocks.  *)
on_sync_reply(s, l, dp, entry) ==
    LET lane == put_no_verification(s.lanes[l], dp, entry)
        absent == {i \in DOMAIN s.buffered[l] : ~contains(lane, s.buffered[l][i])}
        retried == on_data_proposals(
                        [s EXCEPT !.lanes = With(s.lanes, l, lane),
                                  !.buffered = With(s.buffered, l, <<>>)], l,
                        Keep(s.buffered[l], absent))
        sent == try_to_send_full_signed_blocks(retried.s)
    IN IF l \notin entry.sigs THEN Result(s, <<>>)
       ELSE Result(sent.s, retried.out \o sent.out)

---------------------------------------------------------------------------
(* Consensus: a leader asks its mempool for a cut, which the others refuse *)
(* if a lane of the parent cut is missing, or if the size of a lane does   *)
(* not grow, or a PoDA is too weak, where the proposal is not that of the  *)
(* parent cut.                                                             *)
verify_poda(cut, parent) ==
    /\ DOMAIN parent \subseteq DOMAIN cut
    /\ \A l \in DOMAIN cut :
        \/ l \in DOMAIN parent /\ cut[l].dp = parent[l].dp
        \/ /\ l \in DOMAIN parent => cut[l].size > parent[l].size
           /\ Power[cut[l].sigs] >= compute_f + 1

---------------------------------------------------------------------------
(* The actions. *)

Init ==
    /\ node = [n \in Nodes |-> MempoolInit]
    /\ net = [c \in Nodes \X Nodes |-> <<>>] /\ committed = <<>> /\ clients \in Scripts
    /\ faults = 0

(* What of the messages of a handler goes to a node. *)
SentTo(out, to) ==
    LET sent == Keep(out, {i \in DOMAIN out : to \in out[i].to})
    IN [i \in DOMAIN sent |-> sent[i].msg]

(* Node n ends a handler in the state and with the messages of r; queues   *)
(* is the network without what it received.                                *)
Step(n, r, queues) ==
    /\ node' = [node EXCEPT ![n] = r.s]
    /\ net' = [c \in Nodes \X Nodes |->
                IF c[1] = n THEN queues[c] \o SentTo(r.out, c[2]) ELSE queues[c]]

Local(n, r) == Step(n, r, net) /\ UNCHANGED <<committed, faults, clients>>

NewTx ==
    /\ clients # <<>>
    /\ clients' = Tail(clients)
    /\ LET n == Head(clients)[2]
       IN Step(n, Result(on_new_tx(node[n], Head(clients)[1]), <<>>), net)
    /\ UNCHANGED <<committed, faults>>

PrepareDataProposal(n) ==
    /\ node[n].waiting # <<>> /\ node[n].preparing = NoDp
    /\ Local(n, Result(init_dp_preparation_if_pending(n, node[n]), <<>>))

ResumeDataProposal(n) ==
    /\ node[n].preparing # NoDp
    /\ Local(n, resume_new_data_proposal(n, node[n]))

(* The timer of 15 seconds, a long time: it fires when nothing of the lane *)
(* is on its way or being processed, or else early, a counted fault.       *)
Quiet(n) ==
    \A m \in Nodes : /\ net[<<n, m>>] = <<>> /\ net[<<m, n>>] = <<>>
                     /\ \A i \in DOMAIN node[m].tasks : node[m].tasks[i].lane # n

Redisseminate(n) ==
    /\ Quiet(n) \/ faults < MaxFaults
    /\ faults' = IF Quiet(n) THEN faults ELSE faults + 1
    /\ Step(n, Result(node[n], redisseminate_oldest_data_proposal(n, node[n])), net)
    /\ UNCHANGED <<committed, clients>>

(* The next event of processing_dps. *)
HandleInternalEvent(n) ==
    /\ node[n].tasks # <<>>
    /\ LET task == Head(node[n].tasks)
           s == [node[n] EXCEPT !.tasks = Tail(node[n].tasks)]
       IN IF task.event = "Hashed"
          THEN Local(n, on_hashed_data_proposal(s, task.lane, task.dp))
          ELSE \E verdict \in Decisions(s, task) :
                   Local(n, on_processed_data_proposal(n, s, task.lane, task.dp, verdict))

handle_net_message(n, s, from, m) ==
    IF m.type = "DataProposal" THEN on_data_proposals(s, from, <<m.dp>>)
    ELSE IF m.type = "DataVote" THEN on_data_vote(n, s, from, m.dp, m.size)
    ELSE IF m.type = "PoDAUpdate" THEN Result(on_poda_update(s, from, m.dp, m.entry), <<>>)
    ELSE IF m.type = "SyncRequest"
    THEN Result(unfold_sync_request_interval(n, s, from, m.base, m.dp), <<>>)
    ELSE on_sync_reply(s, from, m.dp, m.entry)

Receive(from, n) ==
    /\ net[<<from, n>>] # <<>>
    /\ Step(n, handle_net_message(n, node[n], from, Head(net[<<from, n>>])),
            [net EXCEPT ![<<from, n>>] = Tail(net[<<from, n>>])])
    /\ UNCHANGED <<committed, faults, clients>>

SendReplies(n) ==
    /\ node[n].todo # <<>>
    /\ \E throttled \in SUBSET node[n].replied : Local(n, send_replies(n, node[n], throttled))

(* NodeState executed a block that this node built: its contracts are known. *)
NewBlock(n) ==
    /\ ~node[n].known
    /\ \E b \in node[n].built, l \in LaneIds :
        /\ l \in DOMAIN b.dps
        /\ \E d \in b.dps[l] : ToSet(Last(d)) \cap RegisterTxs # {}
    /\ Local(n, Result([node[n] EXCEPT !.known = TRUE], <<>>))

(* Consensus commits the cut of a leader's mempool.  Slots that repeat the *)
(* proposals of the last cut are left out.                                 *)
CanDecide(n) ==
    LET cut == handle_querynewcut(node[n])
    IN /\ Len(committed) < MaxSlot
       /\ \E l \in DOMAIN cut : cut[l].dp # InCut(CutAt(Len(committed)), l).dp
       /\ verify_poda(cut, CutAt(Len(committed)))

Decide(n) ==
    /\ CanDecide(n)
    /\ committed' = Append(committed, handle_querynewcut(node[n]))
    /\ UNCHANGED <<node, net, faults, clients>>

(* Consensus tells of the commits in order; a validator that joins starts  *)
(* from any of them.                                                       *)
CommitConsensusProposal(n) ==
    \E slot \in DOMAIN committed :
        /\ slot = node[n].last.slot + 1 \/ (node[n].last.slot = 0 /\ n \in Joiners)
        /\ Local(n, handle_consensus_event(node[n], slot, committed[slot]))

(* A clean shutdown waits for the tasks, then saves what is not skipped. *)
Restart(n) ==
    /\ faults < MaxFaults
    /\ node[n].tasks = <<>> /\ node[n].preparing = NoDp
    /\ faults' = faults + 1
    /\ Step(n, Result([MempoolInit EXCEPT
                          !.lanes = node[n].lanes, !.waiting = node[n].waiting,
                          !.known = node[n].known, !.last = node[n].last,
                          !.building = node[n].building, !.built = node[n].built], <<>>), net)
    /\ UNCHANGED <<committed, clients>>

Lose ==
    /\ faults < MaxFaults
    /\ faults' = faults + 1
    /\ \E c \in Nodes \X Nodes : \E i \in DOMAIN net[c] :
            net' = [net EXCEPT ![c] = RemoveAt(@, i)]
    /\ UNCHANGED <<node, committed, clients>>

Next ==
    \/ NewTx
    \/ \E n \in LaneIds : \/ PrepareDataProposal(n)
                         \/ ResumeDataProposal(n)
                         \/ Redisseminate(n)
                         \/ SendReplies(n)
    \/ \E n \in Nodes : \/ HandleInternalEvent(n)
                        \/ NewBlock(n)
                        \/ Decide(n)
                        \/ CommitConsensusProposal(n)
                        \/ Restart(n)
                        \/ \E from \in Nodes : Receive(from, n)
    \/ Lose

Spec == Init /\ [][Next]_vars

---------------------------------------------------------------------------

LaneType(lane) ==
    /\ lane.tip \in Seq(Seq(Txs)) /\ lane.size \in Nat
    /\ \A d \in DOMAIN lane.entries : /\ d \in Seq(Seq(Txs) \ {<<>>}) \ {NoDp}
                                      /\ lane.entries[d].size \in Nat
                                      /\ lane.entries[d].sigs \subseteq Nodes

(* Type invariant. *)
TypeOK ==
    /\ \A n \in Nodes :
        /\ \A l \in LaneIds : LaneType(node[n].lanes[l])
        /\ ToSet(node[n].waiting) \subseteq Txs
        /\ node[n].last.slot \in 0..Len(committed) /\ node[n].started \in 0..Len(committed)
        /\ \A r \in node[n].replied : r[1] # NoDp /\ r[2] \in Nodes
    /\ clients \in Seq(Txs \X LaneIds) /\ Len(committed) <= MaxSlot

(* The size that any validator keeps for a lane, at its tip and at every   *)
(* stored proposal, is the sum of the proposals up to there: however a     *)
(* proposal came (processed, fetched, or overtaken by a commit that moved  *)
(* the tip to it, store_data_proposal's AlreadyOnTop), it counts once.     *)
(* Votes are for a size, so validators that disagree never make a PoDA.    *)
SizesAgree ==
    \A n \in Nodes, l \in LaneIds :
        LET lane == node[n].lanes[l]
        IN /\ lane.size = Len(lane.tip)
           /\ \A d \in DOMAIN lane.entries : lane.entries[d].size = Len(d)

(* Whichever way a validator obtained the data (build_signed_block_and_emit *)
(* may run after several sync replies, and out of order), the block it     *)
(* builds for a slot holds exactly the proposals between the cut of the    *)
(* slot before and that of the slot: all validators build the same block.  *)
BlocksPartitionLanes ==
    \A n \in Nodes : \A b \in node[n].built : \A l \in DOMAIN committed[b.slot] :
        b.dps[l] = LET to == committed[b.slot][l].dp
                   IN {Ancestor(to, k) :
                        k \in (Len(InCut(CutAt(b.slot - 1), l).dp) + 1)..Len(to)}

(* The operator of a lane holds every proposal of it that was committed:   *)
(* it is the only one that send_sync_request asks, and clean_and_update_   *)
(* lane removes proposals.                                                 *)
OperatorHolds ==
    \A slot \in DOMAIN committed : \A l \in DOMAIN committed[slot] :
        \A k \in 1..Len(committed[slot][l].dp) :
            contains(node[l].lanes[l], Ancestor(committed[slot][l].dp, k))

(* The proposals of a lane that the validators hold or are processing, and *)
(* those committed, are all on one branch: an operator's new proposal,     *)
(* prepared in a task while commits move tips, continues its last one, and *)
(* no other validator sees a fork (can_be_put_on_top).                     *)
LaneIsAChain ==
    \A l \in LaneIds :
        LET dps == UNION ({DOMAIN node[n].lanes[l].entries : n \in Nodes}
                      \cup {ToSet(node[n].buffered[l]) : n \in Nodes}
                      \cup {{InCut(committed[slot], l).dp} : slot \in DOMAIN committed})
        IN \A d, e \in dps : IsPrefix(d, e) \/ IsPrefix(e, d)

(* The copies of a lane are copies of one chain of proposals, with the sizes of that chain: *)
(* what one validator signs is what the others sign (store_data_proposal, on_data_vote).    *)
LanesAgree == TypeOK /\ LaneIsAChain /\ SizesAgree

(* Every proposal of a lane is committed in the end: a lost proposal or    *)
(* vote is made up for by redisseminate_oldest_data_proposal, and a        *)
(* validator that missed proposals waits for them, then votes.             *)
EveryProposalCommitted ==
    \A l \in LaneIds, k \in 1..MaxSlot :
        (Len(node[l].lanes[l].tip) >= k) ~>
            (\E slot \in DOMAIN committed : Len(InCut(committed[slot], l).dp) >= k)

Undisseminated(n) ==
    IF Pending(n, node[n]) = {} THEN {}
    ELSE RebroadcastTo(n, node[n], Oldest(n, node[n]))

(* The fairness of running nodes: a node that has something to do (a task, *)
(* a message, a reply, a commit) does something; the leaders and the timer *)
(* of each lane get their turn.  Each conjunct is the weak fairness of     *)
(* actions, said by the condition that enables them and by what only they  *)
(* do, which spares the evaluation of ENABLED.                             *)
Busy(n) ==
    \/ node[n].waiting # <<>> \/ node[n].preparing # NoDp \/ node[n].tasks # <<>>
    \/ node[n].todo # <<>> \/ node[n].last.slot < Len(committed)
    \/ \E m \in Nodes : net[<<m, n>>] # <<>>

Received(n) == \E m \in Nodes : Len(net'[<<m, n>>]) < Len(net[<<m, n>>])

Fairness ==
    /\ \A n \in Nodes : /\ []<>~Busy(n) \/ []<><<node'[n] # node[n] \/ Received(n)>>_vars
                        /\ []<>~CanDecide(n) \/ []<><<committed' # committed>>_vars
    /\ \A n \in LaneIds : \/ []<>(~Quiet(n) \/ Undisseminated(n) = {})
                         \/ []<><<Quiet(n) /\ \E m \in Nodes : net'[n, m] # <<>>>>_vars

FairSpec == Spec /\ Fairness
=============================================================================
