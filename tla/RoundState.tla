----------------------------- MODULE RoundState -----------------------------
(***************************************************************************)
(* The consensus state of a node, BFTRoundState, and what each of its      *)
(* handlers does to it: the leader, follower, timeout, sync and joining    *)
(* roles.  The handlers are operators from a state and a message to a      *)
(* Result; the modules that extend this one are the nodes and a network.   *)
(*                                                                         *)
(* A proposal is the sequence of cuts from the genesis block to itself, so *)
(* its length is its slot, its prefix is its parent, and equality of       *)
(* sequences is equality of (collision-free) proposal hashes.  As in the   *)
(* code the view is not part of it.  A cut stands for all that a leader    *)
(* chooses: the cut, the timestamp and the staking actions.  A certificate *)
(* is what it certifies: only a quorum's signatures produce one, and the   *)
(* bonded validators, the same at every node, do not change here.          *)
(***************************************************************************)
EXTENDS Integers, Sequences

CONSTANTS
    N,              \* number of bonded validators; their sorted list is 1, ..., N
    Observers,      \* number of other nodes, which follow the chain without being bonded
    Power,          \* the stake of each set of nodes
    Cuts,           \* the mempool cuts that can be proposed
    EmptyCut,       \* the cut with no lane, whose proposal has no staking action
    UnpayableCuts,  \* cuts with a lane whose operator never deposited for its fees
    MayRefuse,      \* whether a proposal's cut or timestamp may be refused by a validator
    Prefix          \* the proposals that every validator has committed at the start

Validators == 1..N
Nodes == 1..(N + Observers)

ASSUME NAssumption == N \in Nat \ {0} /\ Observers \in Nat
ASSUME PowerAssumption ==
    /\ Power \in [SUBSET Nodes -> Nat] /\ Power[{}] = 0
    /\ \A S, T \in SUBSET Nodes :
            Power[S \cup T] + Power[S \cap T] = Power[S] + Power[T]
ASSUME CutsAssumption ==
    /\ UnpayableCuts \subseteq Cuts /\ EmptyCut \notin UnpayableCuts
    /\ MayRefuse \in BOOLEAN
    /\ Prefix \in Seq(Cuts)

---------------------------------------------------------------------------
(* Staking. *)

compute_f == Power[Validators] \div 3

M_IsQuorum(S) == Power[S] >= compute_f

(* More than 2f of voting power: enough for a certificate. *)
IsQuorum(S) == Power[S] > 2 * compute_f

(* More than f: enough to join a timeout. *)
IsMutiny(S) == Power[S] > compute_f

(* The round-robin leader of a slot and view. *)
round_leader(slot, view) == ((slot + view - 1) % N) + 1

---------------------------------------------------------------------------
(* Proposals, certificates and tickets. *)

Chains == Seq(Cuts)
Slot(chain) == Len(chain)
Parent(chain) == SubSeq(chain, 1, Len(chain) - 1)
Genesis == <<>>

(* The current_proposal field: a proposal and whether its staking actions were moved out *)
(* of it when it was committed, which changes its hash.                                  *)
Proposal(chain) == [chain |-> chain, taken |-> FALSE]
IsHashOf(chain, cp) == chain = cp.chain /\ ~cp.taken

None == [kind |-> "None"]
GenesisTicket == [kind |-> "Genesis"]
(* Two commit certificates of a proposal differ when different leaders aggregated them. *)
CommitQC(chain, by) == [kind |-> "CommitQC", chain |-> chain, by |-> by]
(* A timeout certificate is refused by those who receive it if a signer is not bonded. *)
TimeoutQC(slot, view, parent, tk, bonded) ==
    [kind |-> "TimeoutQC", slot |-> slot, view |-> view, parent |-> parent, tk |-> tk,
     bonded |-> bonded]

(* What a timeout says: nothing was prepared, or this prepare certificate was seen and the *)
(* matching proposal, which the sender takes from its current_proposal, is this one.       *)
NilProposal == [kind |-> "NilProposal"]
PrepareQC(qc, cp) == [kind |-> "PrepareQC", qc |-> qc, cp |-> cp]

(* Messages. *)
Prepare(from, chain, ticket, view) ==
    [type |-> "Prepare", from |-> from, chain |-> chain, ticket |-> ticket, view |-> view]
PrepareVote(from, to, chain) ==
    [type |-> "PrepareVote", from |-> from, to |-> to, chain |-> chain]
Confirm(from, chain) == [type |-> "Confirm", from |-> from, chain |-> chain]
ConfirmAck(from, to, chain) ==
    [type |-> "ConfirmAck", from |-> from, to |-> to, chain |-> chain]
Commit(from, chain) == [type |-> "Commit", from |-> from, chain |-> chain]
Timeout(from, slot, view, parent, tk) ==
    [type |-> "Timeout", from |-> from, slot |-> slot, view |-> view, parent |-> parent,
     tk |-> tk]
TimeoutCertificate(from, qc) == [type |-> "TimeoutCertificate", from |-> from, qc |-> qc]
SyncRequest(from, to, chain) ==
    [type |-> "SyncRequest", from |-> from, to |-> to, chain |-> chain]
SyncReply(from, to, prepare) ==
    [type |-> "SyncReply", from |-> from, to |-> to, prepare |-> prepare]

(* A CommitConsensusProposal event, with the parent_hash of its emitter at that time. *)
CommitEvent(n, s, forced) ==
    [node |-> n, chain |-> s.cp.chain, parent |-> s.parent, forced |-> forced]

---------------------------------------------------------------------------
(* The round state of a node. *)

current_slot_prepare_is_present(s) == Slot(s.cp.chain) = s.slot

HasStakingActions(chain) == chain # Genesis /\ chain[Len(chain)] # EmptyCut
FeesFail(chain) == chain[Len(chain)] \in UnpayableCuts

(* buffered_prepares: one prepare per proposal and one child per parent, the last pushed. *)
push(s, p) ==
    [s EXCEPT !.prepares = {q \in @ : q.chain # p.chain} \cup {p},
              !.children = {c \in @ : Parent(c) # Parent(p.chain)} \cup {p.chain}]

next_prepares(s) ==
    {p \in s.prepares : p.chain \in s.children /\ IsHashOf(Parent(p.chain), s.cp)}

has_no_buffered_children(s) == next_prepares(s) = {}

(* A prepare certificate replaces the one recorded unless that one is for a later slot. *)
IsHighest(s, slot) == s.pqc = None \/ slot >= s.pqc.slot

update_highest_seen_prepare_qc(s, slot, qc) ==
    IF IsHighest(s, slot)
    THEN [s EXCEPT !.pqc = [kind |-> "PrepareQC", slot |-> slot, qc |-> qc]]
    ELSE s

(* The certificate comes with its proposal, which becomes the current one. *)
RecordPrepareQC(s, slot, tk) ==
    IF tk.kind = "PrepareQC" /\ IsHighest(s, slot)
    THEN [update_highest_seen_prepare_qc(s, slot, tk.qc) EXCEPT !.cp = tk.cp]
    ELSE s

SeenPrepareQC(s) == s.pqc # None /\ s.pqc.slot = s.slot

---------------------------------------------------------------------------
(* Rounds. *)

ForcedCommitQc == [kind |-> "ForcedCommitQc"]

(* What a handler does: the new state, the messages it sends, the commit events it emits, *)
(* and whether it went through or returned an error.                                      *)
Result(s, out, events, ok) == [st |-> s, out |-> out, commits |-> events, ok |-> ok]
Ok(s) == Result(s, {}, {}, TRUE)
Err(s) == Result(s, {}, {}, FALSE)

M_NextSlot(s, ticket) ==
    [s EXCEPT !.slot = @ + 1, !.view = 0, !.parent = s.cp.chain,
              !.bufqc = IF ticket = ForcedCommitQc THEN None ELSE ticket]

(* The state at the start of a new slot, before the role for it is known. *)
NextSlot(s, ticket) ==
    [s EXCEPT !.slot = @ + 1, !.view = 0, !.parent = s.cp.chain,
              !.bufqc = IF ticket = ForcedCommitQc THEN None ELSE ticket,
              !.cp = [chain |-> @.chain, taken |-> HasStakingActions(@.chain)]]

NextView(s) == [s EXCEPT !.view = @ + 1, !.bufqc = None]

(* Leader of the round that starts, or follower with a new timeout. *)
TakeRole(n, s) ==
    IF round_leader(s.slot, s.view) = n
    THEN [s EXCEPT !.tag = "Leader"]
    ELSE [s EXCEPT !.tag = "Follower", !.timer = "Scheduled"]

(* A fee that cannot be charged is found when the slot has already been advanced: the error *)
(* leaves the role and the timer of the round before.                                       *)
apply_ticket(n, s, ticket) ==
    LET r == [s EXCEPT !.step = "StartNewSlot", !.votes = {}, !.acks = {}, !.pending = None,
                       !.requests = {}]
    IN IF s.tag = "Joining" THEN Err(s)
       ELSE IF ticket.kind = "TimeoutQC" THEN Ok(TakeRole(n, NextView(r)))
       ELSE IF FeesFail(s.cp.chain) THEN Err(NextSlot(r, ticket))
       ELSE Ok(TakeRole(n, NextSlot(r, ticket)))

M_advance_round(n, s, ticket) ==
    LET a == apply_ticket(n, s, ticket)
    IN IF a.ok /\ a.st.tag = "Leader" /\ has_no_buffered_children(a.st) /\ ticket.kind = "CommitQC"
       THEN Ok([a.st EXCEPT !.pending = ticket])
       ELSE a

(* The leader of the new round keeps the ticket to start it with, unless it already has a *)
(* prepare for the slot after.                                                            *)
advance_round(n, s, ticket) ==
    LET a == apply_ticket(n, s, ticket)
    IN IF a.ok /\ a.st.tag = "Leader" /\ has_no_buffered_children(a.st) /\ ticket # ForcedCommitQc
       THEN Ok([a.st EXCEPT !.pending = ticket])
       ELSE a

(* The commit event is on the bus before the round advances, even if that fails. *)
CommitAndAdvance(n, s, ticket) ==
    [advance_round(n, s, ticket) EXCEPT !.commits = {CommitEvent(n, s, ticket = ForcedCommitQc)}]

---------------------------------------------------------------------------
(* Timeouts. *)

(* The certificate is checked against this node's parent, and its proposal recorded. *)
verify_tc(s, qc, slot, view) ==
    LET valid == /\ qc.slot = slot /\ qc.view = view /\ qc.parent = s.parent /\ qc.bonded
                 /\ qc.tk.kind = "PrepareQC" =>
                        Slot(qc.tk.cp.chain) = slot /\ IsHashOf(qc.tk.qc, qc.tk.cp)
    IN IF valid THEN Ok(RecordPrepareQC(s, slot, qc.tk)) ELSE Err(s)

get_timeout_message(n, s) ==
    Timeout(n, s.slot, s.view, s.parent,
            IF SeenPrepareQC(s) THEN PrepareQC(s.pqc.qc, s.cp) ELSE NilProposal)

(* A certificate from the timeouts received.  The leader of the next view keeps it as its *)
(* ticket, the others broadcast it; all go to the next view, unless they are joining.     *)
EmitCertificate(n, s) ==
    LET tk == IF SeenPrepareQC(s) THEN PrepareQC(s.pqc.qc, s.cp) ELSE NilProposal
        qc == TimeoutQC(s.slot, s.view, s.parent, tk,
                        {r.from : r \in s.requests} \subseteq Validators)
        leads == round_leader(s.slot, s.view + 1) = n
        ready == IF leads
                 THEN [s EXCEPT !.timer = "Scheduled",
                                !.tag = IF @ = "Joining" THEN "Leader" ELSE @]
                 ELSE [s EXCEPT !.timer = "CertificateEmitted"]
    IN [advance_round(n, ready, qc) EXCEPT
            !.out = IF leads THEN {} ELSE {TimeoutCertificate(n, qc)}]

(* Join the mutiny on more than f timeouts, make a certificate on more than 2f. *)
CountTimeouts(n, s) ==
    LET from == {r.from : r \in s.requests}
        own == get_timeout_message(n, s)
        joins == IsMutiny(from) /\ n \notin from
        t == IF joins
             THEN [s EXCEPT !.requests = @ \cup {[from |-> n, tk |-> own.tk]},
                            !.timer = "Scheduled"]
             ELSE s
        sent == IF joins THEN {own} ELSE {}
    IN IF ~IsQuorum({r.from : r \in t.requests}) \/ t.timer = "CertificateEmitted"
       THEN Result(t, sent, {}, TRUE)
       ELSE IF ~SeenPrepareQC(t) /\ \E r \in t.requests : r.tk # NilProposal
       THEN Result(t, sent, {}, FALSE)
       ELSE [EmitCertificate(n, t) EXCEPT !.out = @ \cup sent]

on_timeout(n, s, m) ==
    LET request == [from |-> m.from, tk |-> m.tk]
        t == RecordPrepareQC(s, m.slot, m.tk)
    IN IF \/ n \notin Validators
          \/ m.parent # s.parent \/ m.slot # s.slot \/ m.view # s.view
       THEN Ok(s)
       ELSE IF m.tk.kind = "PrepareQC"
               /\ ~(Slot(m.tk.cp.chain) = m.slot /\ IsHashOf(m.tk.qc, m.tk.cp))
       THEN Err(s)
       ELSE IF request \in s.requests THEN Ok(t)
       ELSE CountTimeouts(n, [t EXCEPT !.requests = @ \cup {request}])

(* A node's own timeout is counted before it is sent, and not sent if that fails. *)
on_timeout_tick(n, s) ==
    LET m == get_timeout_message(n, s)
        r == on_timeout(n, s, m)
    IN IF r.ok
       THEN [r EXCEPT !.st.timer = "Scheduled", !.out = @ \cup {m}]
       ELSE r

(* A joining node leaves that mode here only if it does not lead the next view. *)
on_timeout_certificate(n, s, qc) ==
    LET v == verify_tc(s, qc, s.slot, s.view)
        leaves == v.st.tag = "Joining" /\ round_leader(s.slot, s.view + 1) # n
    IN IF qc.slot # s.slot \/ qc.view # s.view THEN Ok(s)
       ELSE IF ~v.ok THEN v
       ELSE advance_round(n, IF leaves THEN [v.st EXCEPT !.tag = "Leader"] ELSE v.st, qc)

---------------------------------------------------------------------------
(* Prepares. *)

(* The prepare is for this slot, or for the next one and this slot's proposal is known. *)
IsNextSlot(s, p) == Slot(p.chain) = s.slot + 1 /\ current_slot_prepare_is_present(s)
CanProcess(s, p) == p.ticket = GenesisTicket \/ Slot(p.chain) = s.slot \/ IsNextSlot(s, p)

verify_and_process_commit_ticket(n, s, p) ==
    IF s.bufqc = p.ticket THEN Ok(s)
    ELSE IF ~current_slot_prepare_is_present(s)
    THEN IF p.ticket.chain = s.parent THEN Ok(s) ELSE Err(s)
    ELSE IF IsHashOf(p.ticket.chain, s.cp) THEN CommitAndAdvance(n, s, p.ticket) ELSE Err(s)

M_verify_and_process_tc_ticket(n, s, p) ==
    LET f == IF current_slot_prepare_is_present(s)
             THEN CommitAndAdvance(n, s, ForcedCommitQc)
             ELSE Ok(s)
        v == verify_tc(f.st, p.ticket, f.st.slot, p.view - 1)
    IN IF p.ticket.tk.kind = "PrepareQC" /\ p.ticket.tk.cp # Proposal(p.chain) THEN Err(s)
       ELSE IF ~f.ok \/ Slot(p.chain) # f.st.slot THEN [f EXCEPT !.ok = FALSE]
       ELSE IF v.ok /\ p.view = v.st.view + 1
       THEN [advance_round(n, v.st, p.ticket) EXCEPT !.commits = f.commits]
       ELSE [v EXCEPT !.commits = f.commits]

(* A timeout certificate of the next slot commits this slot's proposal without a commit *)
(* certificate; then the timeout itself is processed.                                   *)
verify_and_process_tc_ticket(n, s, p) ==
    LET f == IF IsNextSlot(s, p) /\ IsHashOf(Parent(p.chain), s.cp)
             THEN CommitAndAdvance(n, s, ForcedCommitQc)
             ELSE Ok(s)
        v == verify_tc(f.st, p.ticket, f.st.slot, p.view - 1)
    IN IF p.ticket.tk.kind = "PrepareQC" /\ p.ticket.tk.cp # Proposal(p.chain) THEN Err(s)
       ELSE IF ~f.ok \/ Slot(p.chain) # f.st.slot THEN [f EXCEPT !.ok = FALSE]
       ELSE IF v.ok /\ p.view = v.st.view + 1
       THEN [advance_round(n, v.st, p.ticket) EXCEPT !.commits = f.commits]
       ELSE [v EXCEPT !.commits = f.commits]

ProcessTicket(n, s, p) ==
    CASE p.ticket.kind = "Genesis"   -> IF s.slot = 1 THEN Ok(s) ELSE Err(s)
      [] p.ticket.kind = "CommitQC"  -> verify_and_process_commit_ticket(n, s, p)
      [] p.ticket.kind = "TimeoutQC" -> verify_and_process_tc_ticket(n, s, p)

(* The closest ancestor that is not buffered, to ask for, unless the search for it meets *)
(* the current proposal.                                                                 *)
buffer_prepare_message_and_fetch_missing_parent(n, s, p) ==
    LET known == {q.chain : q \in s.prepares}
        t == IF p.chain \in known THEN s ELSE push(s, p)
        unknown == {k \in 0..(Slot(p.chain) - 1) :
                        SubSeq(p.chain, 1, k) \notin {q.chain : q \in t.prepares}}
        missing == {k \in unknown : \A j \in unknown : j <= k}
        met == {k \in 0..(Slot(p.chain) - 1) : /\ \A j \in missing : j < k
                                               /\ IsHashOf(SubSeq(p.chain, 1, k), s.cp)}
    IN IF met # {}
       THEN {Ok(t)}
       ELSE {Result(t, {SyncRequest(n, to, SubSeq(p.chain, 1, k)) : k \in missing}, {}, TRUE) :
                to \in Validators \ {n}}

(* The proposal becomes the current one.  If a child of it is buffered, on_prepare is called *)
(* again with that, else the node votes.                                                     *)
AcceptPrepare(n, s, p) ==
    LET t == push([s EXCEPT !.cp = Proposal(p.chain)], p)
    IN IF has_no_buffered_children(t)
       THEN Result(t, IF n \in Validators THEN {PrepareVote(n, p.from, p.chain)} ELSE {}, {}, TRUE)
       ELSE Ok([t EXCEPT !.forward = CHOOSE q \in next_prepares(t) : TRUE])

(* Joining ends with a prepare for the slot this node is at. *)
ExitsJoining(s, p) ==
    IF current_slot_prepare_is_present(s)
    THEN Slot(p.chain) = s.slot + 1 \/ (Slot(p.chain) = s.slot /\ p.view > s.view)
    ELSE Slot(p.chain) = s.slot

(* The possible results: a proposal may be refused for its cut or its timestamp, and a *)
(* missing parent is asked of any one validator.                                        *)
on_prepare(n, s0, p) ==
    LET s == IF s0.tag = "Joining" THEN [s0 EXCEPT !.tag = "Follower"] ELSE s0
        t == ProcessTicket(n, s, p)
        inRound == /\ Slot(p.chain) = t.st.slot /\ p.view = t.st.view
                   /\ p.from = round_leader(t.st.slot, t.st.view)
        accepted == [AcceptPrepare(n, t.st, p) EXCEPT !.commits = t.commits]
    IN IF s0.tag = "Joining" /\ ~ExitsJoining(s0, p) THEN {Ok(push(s0, p))}
       ELSE IF Slot(p.chain) < s.slot THEN {Ok(s)}
       ELSE IF ~CanProcess(s, p) THEN buffer_prepare_message_and_fetch_missing_parent(n, s, p)
       ELSE IF ~t.ok \/ ~inRound THEN {[t EXCEPT !.ok = FALSE]}
       ELSE {accepted} \cup (IF MayRefuse THEN {[t EXCEPT !.ok = FALSE]} ELSE {})

---------------------------------------------------------------------------
(* Votes, acknowledgements and commits. *)

(* Each vote is for the current proposal when it arrives.  Signatures of different proposals *)
(* do not aggregate.                                                                         *)
on_prepare_vote(n, s, m) ==
    LET t == [s EXCEPT !.votes = @ \cup {[from |-> m.from, chain |-> m.chain]}]
    IN IF s.tag # "Leader" \/ s.step # "PrepareVote" THEN Ok(s)
       ELSE IF ~IsHashOf(m.chain, s.cp) THEN Err(s)
       ELSE IF ~IsQuorum({v.from : v \in t.votes} \cup {n}) THEN Ok(t)
       ELSE IF \E v \in t.votes : v.chain # m.chain THEN Err(t)
       ELSE Result([t EXCEPT !.step = "ConfirmAck"], {Confirm(n, m.chain)}, {}, TRUE)

on_confirm(n, s, m) ==
    IF s.tag # "Follower" \/ ~IsHashOf(m.chain, s.cp) THEN Ok(s)
    ELSE Result(update_highest_seen_prepare_qc(s, s.slot, m.chain),
                IF n \in Validators
                THEN {ConfirmAck(n, round_leader(s.slot, s.view), m.chain)}
                ELSE {},
                {}, TRUE)

on_confirm_ack(n, s, m) ==
    LET ack == [from |-> m.from, chain |-> m.chain]
        t == [s EXCEPT !.acks = @ \cup {ack}]
    IN IF s.tag # "Leader" \/ s.step # "ConfirmAck" THEN Ok(s)
       ELSE IF ~IsHashOf(m.chain, s.cp) THEN Err(s)
       ELSE IF ack \in s.acks \/ ~IsQuorum({a.from : a \in t.acks} \cup {n}) THEN Ok(t)
       ELSE IF \E a \in t.acks : a.chain # m.chain THEN Err(t)
       ELSE [CommitAndAdvance(n, t, CommitQC(m.chain, n)) EXCEPT !.out = {Commit(n, m.chain)}]

on_commit_while_joining(n, s, m) ==
    LET t == [s EXCEPT !.cp = Proposal(m.chain), !.slot = Slot(m.chain), !.view = 0,
                       !.tag = "Follower"]
    IN IF \/ \A p \in s.prepares : p.chain # m.chain
          \/ Slot(m.chain) <= s.slot
          \/ s.synced + 1 < Slot(m.chain)
       THEN Ok(s)
       ELSE CommitAndAdvance(n, t, CommitQC(m.chain, m.from))

on_commit(n, s, m) ==
    IF s.tag = "Joining" THEN on_commit_while_joining(n, s, m)
    ELSE IF \/ ~current_slot_prepare_is_present(s)
            \/ s.tag = "Leader" \/ ~IsHashOf(m.chain, s.cp)
    THEN Ok(s)
    ELSE CommitAndAdvance(n, s, CommitQC(m.chain, m.from))

---------------------------------------------------------------------------
(* Leading a round, serving and catching up. *)

(* Once a cut has lanes, the cuts that follow keep them. *)
NewCuts(parent) == {c \in Cuts : c = EmptyCut => ~HasStakingActions(parent)}

M_start_round(n, s) ==
    LET proposed(chain) ==
            LET p == Prepare(n, chain, s.pending, s.view)
            IN Result(push([s EXCEPT !.cp = Proposal(chain), !.step = "PrepareVote",
                                     !.pending = None], p),
                      {p}, {}, TRUE)
    IN IF s.tag # "Leader" \/ s.step # "StartNewSlot" \/ s.pending = None THEN {}
       ELSE {proposed(Append(s.parent, cut)) : cut \in NewCuts(s.parent)}

(* A proposal known for this slot is proposed again, else a new one on the parent. *)
start_round(n, s) ==
    LET proposed(chain) ==
            LET p == Prepare(n, chain, s.pending, s.view)
            IN Result(push([s EXCEPT !.cp = Proposal(chain), !.step = "PrepareVote",
                                     !.pending = None], p),
                      {p}, {}, TRUE)
    IN IF s.tag # "Leader" \/ s.step # "StartNewSlot" \/ s.pending = None THEN {}
       ELSE IF current_slot_prepare_is_present(s) THEN {proposed(s.cp.chain)}
       ELSE {proposed(Append(s.parent, cut)) : cut \in NewCuts(s.parent)}

on_sync_request(n, s, m) ==
    Result(s, {SyncReply(n, m.from, p) : p \in {q \in s.prepares : q.chain = m.chain}}, {}, TRUE)

(* NodeStateEvent::NewBlock: a joining node takes the block as committed. *)
on_new_block(s, chain) ==
    IF s.tag # "Joining" \/ s.synced >= Slot(chain) THEN Ok(s)
    ELSE Ok([s EXCEPT !.synced = Slot(chain), !.slot = Slot(chain) + 1, !.view = 0,
                      !.parent = chain, !.cp = [chain |-> chain, taken |-> TRUE],
                      !.requests = {}])

---------------------------------------------------------------------------
(* The states nodes start in. *)

(* Every validator has committed the prefix with the certificate its leader made. *)
PrefixTicket(k) ==
    IF k = 0 THEN GenesisTicket ELSE CommitQC(SubSeq(Prefix, 1, k), round_leader(k, 0))
PrefixPrepare(k) ==
    Prepare(round_leader(k, 0), SubSeq(Prefix, 1, k), PrefixTicket(k - 1), 0)

PrefixCommits ==
    {[node |-> n, chain |-> SubSeq(Prefix, 1, k), parent |-> SubSeq(Prefix, 1, k - 1),
      forced |-> FALSE] : n \in Validators, k \in 1..Slot(Prefix)}

(* After wait_genesis, or after the commit of the last slot of the prefix. *)
ValidatorInit(n) ==
    LET leads == round_leader(Slot(Prefix) + 1, 0) = n
    IN [slot |-> Slot(Prefix) + 1, view |-> 0, parent |-> Prefix,
        cp |-> [chain |-> Prefix, taken |-> Prefix = Genesis \/ HasStakingActions(Prefix)],
        tag |-> IF leads THEN "Leader" ELSE "Follower",                  \* state_tag
        step |-> "StartNewSlot", votes |-> {}, acks |-> {},              \* leader
        pending |-> IF leads THEN PrefixTicket(Slot(Prefix)) ELSE None,
        bufqc |-> IF Prefix = Genesis THEN None ELSE PrefixTicket(Slot(Prefix)),
        prepares |-> {PrefixPrepare(k) : k \in 1..Slot(Prefix)},         \* buffered_prepares
        children |-> {SubSeq(Prefix, 1, k) : k \in 1..Slot(Prefix)},
        requests |-> {}, pqc |-> None,                                   \* timeout
        timer |-> IF Prefix = Genesis \/ (leads /\ (Slot(Prefix) = 1 \/ N = 1))
                  THEN "Inactive"
                  ELSE "Scheduled",
        synced |-> 0,                                                    \* joining
        forward |-> None]  \* the buffered prepare that on_prepare has yet to call itself with

(* A node that starts after the others: it has only processed the genesis block. *)
ObserverInit ==
    [slot |-> 0, view |-> 0, parent |-> Genesis, cp |-> [chain |-> Genesis, taken |-> TRUE],
     tag |-> "Joining", step |-> "StartNewSlot", votes |-> {}, acks |-> {}, pending |-> None,
     bufqc |-> None, prepares |-> {}, children |-> {}, requests |-> {}, pqc |-> None,
     timer |-> "Scheduled", synced |-> 0, forward |-> None]

---------------------------------------------------------------------------
(* Types. *)

Proposals == [chain : Chains, taken : BOOLEAN]
TimeoutKinds == {NilProposal} \cup [kind : {"PrepareQC"}, qc : Chains, cp : Proposals]
TimeoutQCs ==
    [kind : {"TimeoutQC"}, slot : Nat, view : Nat, parent : Chains, tk : TimeoutKinds,
     bonded : BOOLEAN]
CommitQCs == [kind : {"CommitQC"}, chain : Chains, by : Nodes]
Tickets == {GenesisTicket} \cup CommitQCs \cup TimeoutQCs
Prepares ==
    [type : {"Prepare"}, from : Nodes, chain : Chains, ticket : Tickets, view : Nat]

Messages ==
    Prepares
    \cup [type : {"PrepareVote", "ConfirmAck"}, from : Nodes, to : Nodes, chain : Chains]
    \cup [type : {"Confirm", "Commit"}, from : Nodes, chain : Chains]
    \cup [type : {"Timeout"}, from : Nodes, slot : Nat, view : Nat, parent : Chains,
          tk : TimeoutKinds]
    \cup [type : {"TimeoutCertificate"}, from : Nodes, qc : TimeoutQCs]
    \cup [type : {"SyncRequest"}, from : Nodes, to : Nodes, chain : Chains]
    \cup [type : {"SyncReply"}, from : Nodes, to : Nodes, prepare : Prepares]

RoundStates ==
    [slot : Nat, view : Nat, parent : Chains, cp : Proposals,
     tag : {"Joining", "Leader", "Follower"},
     step : {"StartNewSlot", "PrepareVote", "ConfirmAck"},
     votes : SUBSET [from : Nodes, chain : Chains], acks : SUBSET [from : Nodes, chain : Chains],
     pending : Tickets \cup {None}, bufqc : CommitQCs \cup {None},
     prepares : SUBSET Prepares, children : SUBSET Chains,
     requests : SUBSET [from : Nodes, tk : TimeoutKinds],
     timer : {"Inactive", "Scheduled", "CertificateEmitted"},
     pqc : [kind : {"PrepareQC"}, slot : Nat, qc : Chains] \cup {None},
     synced : Nat, forward : Prepares \cup {None}]

CommitEvents == [node : Nodes, chain : Chains, parent : Chains, forced : BOOLEAN]
=============================================================================
