----------------------------- MODULE Consensus -----------------------------
(***************************************************************************)
(* The nodes of the chain running consensus over an unreliable network: a  *)
(* message once sent can be received at any later time, any number of      *)
(* times and in any order, or never.  Nodes may be slow, see their timers  *)
(* expire at any time, and be restarted.                                   *)
(***************************************************************************)
EXTENDS RoundState

CONSTANTS
    MaxSlot,        \* bound: no round is started beyond this slot
    MaxView,        \* bound: no round times out beyond this view
    Impatient,      \* the nodes and slots in which their timer may expire before the round ends
    MaxRestarts     \* bound: clean restarts of nodes, altogether

ASSUME BoundsAssumption ==
    /\ MaxSlot \in Nat /\ MaxView \in Nat /\ MaxRestarts \in Nat
    /\ Impatient \subseteq Nodes \X Nat

VARIABLES
    st,         \* the BFTRoundState of each node
    msgs,       \* every message sent so far
    commits,    \* every CommitConsensusProposal event emitted so far
    restarts    \* restarts so far

vars == <<st, msgs, commits, restarts>>

(* The commits and the prepares of the prefix are part of the past. *)
Init ==
    /\ st = [n \in Nodes |-> IF n \in Validators THEN ValidatorInit(n) ELSE ObserverInit]
    /\ msgs = {PrefixPrepare(k) : k \in 1..Slot(Prefix)}
    /\ commits = PrefixCommits
    /\ restarts = 0

(* A node handles one message, command or event at a time, in its module's loop. *)
Handle(n, r) ==
    /\ st' = [st EXCEPT ![n] = r.st]
    /\ msgs' = msgs \cup r.out
    /\ commits' = commits \cup r.commits
    /\ UNCHANGED restarts

Idle(n) == st[n].forward = None

Received(n, type) == {m \in msgs : m.type = type /\ m.from # n}
Addressed(n, type) == {m \in Received(n, type) : m.to = n}

OnPrepare(n) ==
    Idle(n) /\ \E m \in Received(n, "Prepare") : \E r \in on_prepare(n, st[n], m) : Handle(n, r)

(* The call of on_prepare by itself with the buffered child of what it just accepted. *)
FastForward(n) ==
    /\ ~Idle(n)
    /\ \E r \in on_prepare(n, [st[n] EXCEPT !.forward = None], st[n].forward) : Handle(n, r)

OnPrepareVote(n) ==
    Idle(n) /\ \E m \in Addressed(n, "PrepareVote") : Handle(n, on_prepare_vote(n, st[n], m))

OnConfirm(n) == Idle(n) /\ \E m \in Received(n, "Confirm") : Handle(n, on_confirm(n, st[n], m))

OnConfirmAck(n) ==
    Idle(n) /\ \E m \in Addressed(n, "ConfirmAck") : Handle(n, on_confirm_ack(n, st[n], m))

OnCommit(n) == Idle(n) /\ \E m \in Received(n, "Commit") : Handle(n, on_commit(n, st[n], m))

OnTimeout(n) == Idle(n) /\ \E m \in Received(n, "Timeout") : Handle(n, on_timeout(n, st[n], m))

OnTimeoutCertificate(n) ==
    /\ Idle(n)
    /\ \E m \in Received(n, "TimeoutCertificate") :
            Handle(n, on_timeout_certificate(n, st[n], m.qc))

OnSyncRequest(n) ==
    Idle(n) /\ \E m \in Addressed(n, "SyncRequest") : Handle(n, on_sync_request(n, st[n], m))

OnSyncReply(n) ==
    /\ Idle(n)
    /\ \E m \in Addressed(n, "SyncReply") :
            \E r \in on_prepare(n, st[n], m.prepare) : Handle(n, r)

(* The timer of the round expires. *)
OnTimeoutTick(n) ==
    /\ Idle(n) /\ <<n, st[n].slot>> \in Impatient /\ st[n].timer = "Scheduled"
    /\ st[n].view < MaxView /\ st[n].slot <= MaxSlot
    /\ Handle(n, on_timeout_tick(n, st[n]))

(* The StartNewSlot command that advance_round or wait_genesis sent. *)
StartRound(n) ==
    /\ Idle(n) /\ st[n].slot <= MaxSlot
    /\ \E r \in start_round(n, st[n]) : Handle(n, r)

(* A block of the chain reaches a joining node through data availability and node state. *)
NewBlock(n) ==
    Idle(n) /\ \E e \in commits : Handle(n, on_new_block(st[n], e.chain))

(* A clean stop saves the state; wait_genesis loads it and joins again. *)
Restart(n) ==
    /\ Idle(n) /\ restarts < MaxRestarts
    /\ restarts' = restarts + 1
    /\ st' = [st EXCEPT ![n].tag = "Joining", ![n].timer = "Scheduled"]
    /\ UNCHANGED <<msgs, commits>>

Next ==
    \E n \in Nodes :
        \/ OnPrepare(n) \/ FastForward(n) \/ OnPrepareVote(n) \/ OnConfirm(n) \/ OnConfirmAck(n)
        \/ OnCommit(n) \/ OnTimeout(n) \/ OnTimeoutCertificate(n) \/ OnSyncRequest(n)
        \/ OnSyncReply(n) \/ OnTimeoutTick(n) \/ StartRound(n) \/ NewBlock(n) \/ Restart(n)

Spec == Init /\ [][Next]_vars

---------------------------------------------------------------------------
(* Properties. *)

(* Every variable has its type: rounds, roles, certificates and messages. *)
TypeOK ==
    /\ st \in [Nodes -> RoundStates]
    /\ msgs \subseteq Messages
    /\ commits \subseteq CommitEvents
    /\ restarts \in 0..MaxRestarts

(* What a node commits is the child of what it committed last (its parent_hash), although *)
(* on_prepare never compares a proposal's parent with it: the ticket has to imply it.     *)
ChainIntegrity == \A e \in commits : e.chain # Genesis /\ Parent(e.chain) = e.parent

Signers(M, type, chain) == {m.from : m \in {x \in M : x.type = type /\ x.chain = chain}}

(* The signatures of this type in M, with that of the leader that announced the outcome, have *)
(* more than 2f of voting power.                                                              *)
BackedBy(M, type, outcome, chain) ==
    \E leader \in Validators \cap Signers(M, outcome, chain) :
        Power[Signers(M, type, chain) \cup {leader}] > 2 * compute_f
Prepared(M, chain) == BackedBy(M, "PrepareVote", "Confirm", chain)
Certified(M, chain) ==
    Slot(chain) > Slot(Prefix) => Prepared(M, chain) /\ BackedBy(M, "ConfirmAck", "Commit", chain)

(* A proposal committed with a certificate was voted for and then acknowledged by more than *)
(* 2f of voting power, the leader included, whatever votes were lost, late or repeated.     *)
CommitsAreAcknowledged == \A e \in commits : ~e.forced => Certified(msgs, e.chain)

(* The certificates on their way to a commit: in messages and tickets, and half made at the *)
(* leaders.                                                                                 *)
TicketBacked(M, ticket) == ticket.kind = "CommitQC" => Certified(M, ticket.chain)

MessageBacked(M, m) ==
    /\ m.type \in {"Confirm", "ConfirmAck"} => Prepared(M, m.chain)
    /\ m.type = "Commit" => Certified(M, m.chain)
    /\ m.type = "Prepare" => TicketBacked(M, m.ticket)
    /\ m.type = "SyncReply" => TicketBacked(M, m.prepare.ticket)

HoldsBacked(M, s) ==
    /\ \A v \in s.votes : v.from \in Signers(M, "PrepareVote", v.chain)
    /\ \A a \in s.acks : a.from \in Signers(M, "ConfirmAck", a.chain)
    /\ \A p \in s.prepares : TicketBacked(M, p.ticket)
    /\ TicketBacked(M, s.pending)
    /\ s.forward # None => TicketBacked(M, s.forward.ticket)

LeaderBonded(n, s) == s.tag = "Leader" => n \in Validators

(* No certificate, at any stage and wherever a node keeps or forwards it, claims a quorum that *)
(* did not sign: what verify_quorum_certificate lets every receiver rely on.                   *)
CertificatesBacked ==
    /\ \A n \in Nodes : LeaderBonded(n, st[n]) /\ HoldsBacked(msgs, st[n])
    /\ \A m \in msgs : MessageBacked(msgs, m)
    /\ CommitsAreAcknowledged

(* A commit forced by the timeout of the next slot, which comes without a certificate, is of *)
(* a proposal that some node did commit with one.                                            *)
ForcedIsCommitted ==
    \A e \in commits : e.forced => \E d \in commits : d.chain = e.chain /\ ~d.forced

(* What a node commits is the chain: it extends what the node committed before and, where   *)
(* the node had no certificate for it, others had (apply_ticket,                            *)
(* verify_and_process_tc_ticket, on_commit_while_joining).                                  *)
CommitsFollowChain == ChainIntegrity /\ ForcedIsCommitted

(* No two nodes, and no node twice, commit different proposals for a slot. *)
Agreement ==
    \A d, e \in commits : Slot(d.chain) = Slot(e.chain) => d.chain = e.chain

(* The only way to two commits for a slot is a validator that timed out in a view with no   *)
(* prepare certificate to show and yet acknowledged, or led to its commit, a proposal of that *)
(* view or an earlier one: on_confirm and on_confirm_ack do not look at the timeouts sent.    *)
ForkNeedsLateAck ==
    \A d, e \in commits :
        Slot(d.chain) = Slot(e.chain) /\ d.chain # e.chain =>
            \E t, p, m \in msgs :
                /\ t.type = "Timeout" /\ t.tk = NilProposal /\ t.slot <= Slot(d.chain)
                /\ p.type = "Prepare" /\ Slot(p.chain) = t.slot /\ p.view <= t.view
                /\ m.type \in {"ConfirmAck", "Commit"} /\ m.from = t.from /\ m.chain = p.chain

(* A validator that is not restarted proposes one thing in a slot and view. *)
PrepareUnique ==
    \A p, q \in {m \in msgs : m.type = "Prepare"} :
        Slot(p.chain) = Slot(q.chain) /\ p.view = q.view => p.chain = q.chain

(* A fork has no other cause than a late acknowledgement, in particular not a leader that    *)
(* proposes twice in a slot and view (start_round, on_confirm, on_confirm_ack).              *)
ForksExplained == PrepareUnique /\ ForkNeedsLateAck

(* A Confirm is acknowledged only in the slot of its proposal: on_confirm compares the hash *)
(* of the current proposal, "This also checks slot/view as those are part of the hash."     *)
AckIsForTheSlot ==
    [][\A m \in msgs' \ msgs :
            m.type = "ConfirmAck" => Slot(m.chain) = st[m.from].slot]_vars

(* A Confirm acknowledged in a later slot than its proposal's is for the proposal that the   *)
(* node committed last, and that one has no staking actions: moving them out of the proposal *)
(* when it is committed is all that keeps on_confirm from taking a late Confirm for one of   *)
(* the slot (apply_ticket, on_confirm).                                                      *)
LateAckIsOfTheParent ==
    [][\A m \in msgs' \ msgs :
            m.type = "ConfirmAck" =>
                \/ Slot(m.chain) = st[m.from].slot
                \/ m.chain = st[m.from].parent /\ ~HasStakingActions(m.chain)]_vars
=============================================================================
