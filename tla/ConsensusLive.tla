--------------------------- MODULE ConsensusLive ---------------------------
(***************************************************************************)
(* Consensus once the network has become reliable: every link delivers     *)
(* each message once and in order, and a round trip is shorter than the    *)
(* timeout, so a timer expires only when there is nothing left to deliver  *)
(* or do.  Some validators, the Dead ones, have stopped.  No node is       *)
(* joining, so the blocks that come back from node state change nothing.   *)
(***************************************************************************)
EXTENDS RoundState

LOCAL INSTANCE SequencesExt

CONSTANTS
    Dead,       \* the nodes that have stopped
    MaxSlot,    \* bound: no round is started beyond this slot
    MaxView     \* bound: no round times out beyond this view

ASSUME LiveAssumption ==
    /\ Observers = 0 /\ Dead \subseteq Nodes
    /\ MaxSlot \in Nat /\ MaxView \in Nat

Live == Nodes \ Dead
Links == {l \in Live \X Live : l[1] # l[2]}

VARIABLES
    st,         \* the BFTRoundState of each node
    link,       \* what is under way from a node to another
    commits     \* every CommitConsensusProposal event emitted so far

vars == <<st, link, commits>>

Init ==
    /\ st = [n \in Live |-> ValidatorInit(n)]
    /\ link = [l \in Links |-> <<>>]
    /\ commits = PrefixCommits

(* The types of the messages that are sent to one node; the others are broadcast. *)
Addressed == {"PrepareVote", "ConfirmAck", "SyncRequest", "SyncReply"}
IsFor(m, n) == m.type \in Addressed => m.to = n

(* A handler that sends several messages broadcasts them; any order of them is possible. *)
Handle(n, r, rest) ==
    /\ st' = [st EXCEPT ![n] = r.st]
    /\ commits' = commits \cup r.commits
    /\ \E sent \in SetToSeqs(r.out) :
            link' = [l \in Links |->
                        IF l[1] = n THEN rest[l] \o SelectSeq(sent, LAMBDA m : IsFor(m, l[2]))
                                    ELSE rest[l]]

Idle(n) == st[n].forward = None

Results(n, m) ==
    LET s == st[n]
    IN CASE m.type = "Prepare"            -> on_prepare(n, s, m)
         [] m.type = "PrepareVote"        -> {on_prepare_vote(n, s, m)}
         [] m.type = "Confirm"            -> {on_confirm(n, s, m)}
         [] m.type = "ConfirmAck"         -> {on_confirm_ack(n, s, m)}
         [] m.type = "Commit"             -> {on_commit(n, s, m)}
         [] m.type = "Timeout"            -> {on_timeout(n, s, m)}
         [] m.type = "TimeoutCertificate" -> {on_timeout_certificate(n, s, m.qc)}
         [] m.type = "SyncRequest"        -> {on_sync_request(n, s, m)}
         [] m.type = "SyncReply"          -> on_prepare(n, s, m.prepare)

Deliver(l) ==
    /\ link[l] # <<>> /\ Idle(l[2])
    /\ \E r \in Results(l[2], Head(link[l])) :
            Handle(l[2], r, [link EXCEPT ![l] = Tail(@)])

FastForward(n) ==
    /\ ~Idle(n)
    /\ \E r \in on_prepare(n, [st[n] EXCEPT !.forward = None], st[n].forward) : Handle(n, r, link)

StartRound(n) ==
    /\ Idle(n) /\ st[n].slot <= MaxSlot
    /\ \E r \in start_round(n, st[n]) : Handle(n, r, link)

Quiet ==
    /\ \A l \in Links : link[l] = <<>>
    /\ \A n \in Live : Idle(n) /\ (st[n].slot <= MaxSlot => start_round(n, st[n]) = {})

OnTimeoutTick(n) ==
    /\ Quiet /\ st[n].timer = "Scheduled" /\ st[n].slot <= MaxSlot /\ st[n].view < MaxView
    /\ Handle(n, on_timeout_tick(n, st[n]), link)

Next ==
    \/ \E l \in Links : Deliver(l)
    \/ \E n \in Live : FastForward(n) \/ StartRound(n) \/ OnTimeoutTick(n)

(* Links deliver, the loop of a node handles what is in its channels, and a timer that is   *)
(* scheduled expires in the end although, each time, another may expire first and reset it. *)
Fairness ==
    /\ \A l \in Links : WF_vars(Deliver(l))
    /\ \A n \in Live : /\ WF_vars(FastForward(n)) /\ WF_vars(StartRound(n))
                       /\ SF_vars(OnTimeoutTick(n))

FairSpec == Init /\ [][Next]_vars /\ Fairness

---------------------------------------------------------------------------
(* Every validator that is up gets through the slots, although a leader is down or a commit *)
(* leaves a round without a leader because its fees could not be charged: the timeouts of   *)
(* the others replace it.                                                                    *)
EveryoneAdvances == \A n \in Live : <>[](st[n].slot >= MaxSlot)
=============================================================================
