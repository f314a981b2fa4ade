--------------------------- MODULE ConsensusProofs ---------------------------
(***************************************************************************)
(* Safety of consensus, for any number of nodes, any stakes, slots, views  *)
(* and restarts.  The last part is about what the state of a node shows of *)
(* the messages sent and the commits, and that the handlers of timeouts,   *)
(* tickets and prepares keep it so: half of the invariant of ForkProofs.   *)
(***************************************************************************)
EXTENDS Consensus, TLAPS

---------------------------------------------------------------------------
(* What every handler of a round state returns has the types of RoundState. *)

Results ==
    [st : RoundStates, out : SUBSET Messages, commits : SUBSET CommitEvents, ok : BOOLEAN]

(* The round-robin leader is one of the bonded validators. *)
LEMMA LeaderIsValidator ==
    ASSUME NEW slot \in Nat, NEW view \in Nat
    PROVE  round_leader(slot, view) \in Validators
BY NAssumption DEF round_leader, Validators

(* The bonded validators are nodes. *)
LEMMA ValidatorsAreNodes == Validators \subseteq Nodes
BY NAssumption DEF Validators, Nodes

(* Pushing a prepare keeps the buffers well typed. *)
LEMMA PushType ==
    ASSUME NEW s \in RoundStates, NEW p \in Prepares
    PROVE  push(s, p) \in RoundStates
BY ZenonT(40) DEF push, RoundStates, Prepares

(* A prepare found among the buffered children is a prepare. *)
LEMMA NextPreparesType ==
    ASSUME NEW s \in RoundStates
    PROVE  next_prepares(s) \subseteq Prepares
BY Zenon DEF next_prepares, RoundStates

(* Recording a prepare certificate, with the proposal that comes with it, keeps the type. *)
LEMMA UpdateHighestType ==
    ASSUME NEW s \in RoundStates, NEW slot \in Nat, NEW qc \in Chains
    PROVE  update_highest_seen_prepare_qc(s, slot, qc) \in RoundStates
BY DEF update_highest_seen_prepare_qc, RoundStates

(* So does recording the certificate that a timeout shows. *)
LEMMA RecordType ==
    ASSUME NEW s \in RoundStates, NEW slot \in Nat, NEW tk \in TimeoutKinds
    PROVE  RecordPrepareQC(s, slot, tk) \in RoundStates
<1>1. CASE tk.kind = "PrepareQC" /\ IsHighest(s, slot)
  <2>1. tk.qc \in Chains /\ tk.cp \in Proposals
    BY <1>1 DEF TimeoutKinds, NilProposal
  <2>2. update_highest_seen_prepare_qc(s, slot, tk.qc) \in RoundStates
    BY Zenon, <2>1, UpdateHighestType
  <2>. QED
    BY <1>1, <2>1, <2>2 DEF RecordPrepareQC, RoundStates
<1>2. CASE ~(tk.kind = "PrepareQC" /\ IsHighest(s, slot))
  BY Zenon, <1>2 DEF RecordPrepareQC
<1>. QED
  BY Zenon, <1>1, <1>2

---------------------------------------------------------------------------
(* Rounds. *)

(* What apply_ticket can be given. *)
RoundTickets == CommitQCs \cup TimeoutQCs \cup {ForcedCommitQc}

(* Taking the role of a round keeps the type. *)
LEMMA TakeRoleType ==
    ASSUME NEW n \in Nodes, NEW s \in RoundStates
    PROVE  TakeRole(n, s) \in RoundStates
BY ZenonT(40) DEF TakeRole, RoundStates

(* Entering a slot keeps the type. *)
LEMMA NextSlotType ==
    ASSUME NEW s \in RoundStates, NEW ticket \in CommitQCs \cup {ForcedCommitQc}
    PROVE  NextSlot(s, ticket) \in RoundStates
<1>. DEFINE next == s.slot + 1
            qc == IF ticket = ForcedCommitQc THEN None ELSE ticket
            cp == [chain |-> s.cp.chain, taken |-> HasStakingActions(s.cp.chain)]
<1>1. qc \in CommitQCs \cup {None}
  BY Zenon
<1>2. cp \in Proposals /\ s.cp.chain \in Chains
  BY Zenon DEF RoundStates, Proposals, HasStakingActions
<1>3. next \in Nat
  BY DEF RoundStates
<1>. HIDE DEF next, qc, cp
<1>4. [s EXCEPT !.slot = next, !.view = 0, !.parent = s.cp.chain] \in RoundStates
  BY ZenonT(40), <1>2, <1>3 DEF RoundStates
<1>5. [s EXCEPT !.slot = next, !.view = 0, !.parent = s.cp.chain, !.bufqc = qc, !.cp = cp]
        \in RoundStates
  BY ZenonT(40), <1>1, <1>2, <1>4 DEF RoundStates
<1>. QED
  BY Zenon, <1>5 DEF NextSlot, next, qc, cp

(* Entering a view keeps the type. *)
LEMMA NextViewType ==
    ASSUME NEW s \in RoundStates
    PROVE  NextView(s) \in RoundStates
<1>1. s.view + 1 \in Nat
  BY DEF RoundStates
<1>. QED
  BY ZenonT(40), <1>1 DEF NextView, RoundStates

(* A handler that only changes the state returns a result. *)
LEMMA OkType ==
    ASSUME NEW s \in RoundStates
    PROVE  Ok(s) \in Results /\ Err(s) \in Results
BY Zenon DEF Ok, Err, Result, Results

(* The leader's progress and the timeouts received are forgotten when a round ends. *)
LEMMA ResetType ==
    ASSUME NEW s \in RoundStates
    PROVE  [s EXCEPT !.step = "StartNewSlot", !.votes = {}, !.acks = {}, !.pending = None,
                     !.requests = {}] \in RoundStates
<1>1. [s EXCEPT !.step = "StartNewSlot", !.votes = {}, !.acks = {}] \in RoundStates
  BY ZenonT(40) DEF RoundStates
<1>. QED
  BY ZenonT(40), <1>1 DEF RoundStates

(* Applying a ticket, of a commit or a timeout, returns a result. *)
LEMMA ApplyTicketType ==
    ASSUME NEW n \in Nodes, NEW s \in RoundStates, NEW ticket \in RoundTickets
    PROVE  apply_ticket(n, s, ticket) \in Results
<1>. DEFINE r == [s EXCEPT !.step = "StartNewSlot", !.votes = {}, !.acks = {},
                           !.pending = None, !.requests = {}]
<1>1. r \in RoundStates
  BY Zenon, ResetType
<1>. HIDE DEF r
<1>2. CASE ticket.kind = "TimeoutQC"
  <2>1. TakeRole(n, NextView(r)) \in RoundStates
    BY Zenon, <1>1, NextViewType, TakeRoleType
  <2>. QED
    BY Zenon, <1>2, <2>1, OkType DEF apply_ticket, r
<1>3. CASE ticket.kind # "TimeoutQC"
  <2>1. ticket \in CommitQCs \cup {ForcedCommitQc}
    BY Zenon, <1>3 DEF RoundTickets, TimeoutQCs
  <2>2. NextSlot(r, ticket) \in RoundStates
    BY Zenon, <1>1, <2>1, NextSlotType
  <2>3. TakeRole(n, NextSlot(r, ticket)) \in RoundStates
    BY Zenon, <2>2, TakeRoleType
  <2>. QED
    BY Zenon, <1>3, <2>2, <2>3, OkType DEF apply_ticket, r
<1>. QED
  BY Zenon, <1>2, <1>3

(* So does advancing the round, *)
LEMMA AdvanceRoundType ==
    ASSUME NEW n \in Nodes, NEW s \in RoundStates, NEW ticket \in RoundTickets
    PROVE  advance_round(n, s, ticket) \in Results
<1>. DEFINE r == apply_ticket(n, s, ticket)
<1>1. r \in Results
  BY Zenon, ApplyTicketType
<1>. HIDE DEF r
<1>2. ticket # ForcedCommitQc => ticket \in Tickets
  BY Zenon DEF RoundTickets, Tickets
<1>3. ticket # ForcedCommitQc => [r.st EXCEPT !.pending = ticket] \in RoundStates
  BY <1>1, <1>2 DEF Results, RoundStates
<1>. QED
  BY Zenon, <1>1, <1>3, OkType DEF advance_round, r

(* and committing the current proposal first. *)
LEMMA CommitAndAdvanceType ==
    ASSUME NEW n \in Nodes, NEW s \in RoundStates, NEW ticket \in CommitQCs \cup {ForcedCommitQc}
    PROVE  CommitAndAdvance(n, s, ticket) \in Results
<1>1. advance_round(n, s, ticket) \in Results
  BY Zenon, AdvanceRoundType DEF RoundTickets
<1>2. CommitEvent(n, s, ticket = ForcedCommitQc) \in CommitEvents
  BY Zenon DEF CommitEvent, CommitEvents, RoundStates, Proposals
<1>. QED
  BY Zenon, <1>1, <1>2 DEF CommitAndAdvance, Results

---------------------------------------------------------------------------
(* Timeouts. *)

(* Verifying a timeout certificate returns a result. *)
LEMMA VerifyTcType ==
    ASSUME NEW s \in RoundStates, NEW qc \in TimeoutQCs, NEW slot \in Nat, NEW view
    PROVE  verify_tc(s, qc, slot, view) \in Results
<1>1. RecordPrepareQC(s, slot, qc.tk) \in RoundStates
  BY Zenon, RecordType DEF TimeoutQCs
<1>. QED
  BY Zenon, <1>1, OkType DEF verify_tc

(* What a node says in a timeout is well typed. *)
LEMMA TimeoutKindType ==
    ASSUME NEW s \in RoundStates
    PROVE  (IF SeenPrepareQC(s) THEN PrepareQC(s.pqc.qc, s.cp) ELSE NilProposal) \in TimeoutKinds
BY Zenon DEF SeenPrepareQC, PrepareQC, TimeoutKinds, RoundStates

(* So is the timeout message. *)
LEMMA TimeoutMessageType ==
    ASSUME NEW n \in Nodes, NEW s \in RoundStates
    PROVE  /\ get_timeout_message(n, s) \in Messages
           /\ get_timeout_message(n, s).tk \in TimeoutKinds
BY Zenon, TimeoutKindType DEF get_timeout_message, Timeout, Messages, RoundStates

(* Making a timeout certificate returns a result. *)
LEMMA EmitCertificateType ==
    ASSUME NEW n \in Nodes, NEW s \in RoundStates
    PROVE  EmitCertificate(n, s) \in Results
<1>. DEFINE tk == IF SeenPrepareQC(s) THEN PrepareQC(s.pqc.qc, s.cp) ELSE NilProposal
            qc == TimeoutQC(s.slot, s.view, s.parent, tk,
                            {r.from : r \in s.requests} \subseteq Validators)
            leads == round_leader(s.slot, s.view + 1) = n
            ready == IF leads
                     THEN [s EXCEPT !.timer = "Scheduled",
                                    !.tag = IF @ = "Joining" THEN "Leader" ELSE @]
                     ELSE [s EXCEPT !.timer = "CertificateEmitted"]
<1>1. tk \in TimeoutKinds
  BY Zenon, TimeoutKindType
<1>. HIDE DEF tk
<1>2. qc \in TimeoutQCs
  BY Zenon, <1>1 DEF TimeoutQC, TimeoutQCs, RoundStates
<1>. DEFINE tag == IF s.tag = "Joining" THEN "Leader" ELSE s.tag
<1>3. ready \in RoundStates
  <2>1. tag \in {"Joining", "Leader", "Follower"}
    BY Zenon DEF RoundStates
  <2>2. [s EXCEPT !.timer = "Scheduled", !.tag = tag] \in RoundStates
    <3>. HIDE DEF tag
    <3>. QED  BY ZenonT(40), <2>1 DEF RoundStates
  <2>3. [s EXCEPT !.timer = "CertificateEmitted"] \in RoundStates
    BY DEF RoundStates
  <2>. QED
    BY Zenon, <2>2, <2>3
<1>. HIDE DEF qc, ready, leads
<1>4. advance_round(n, ready, qc) \in Results
  BY Zenon, <1>2, <1>3, AdvanceRoundType DEF RoundTickets
<1>5. (IF leads THEN {} ELSE {TimeoutCertificate(n, qc)}) \in SUBSET Messages
  BY <1>2 DEF TimeoutCertificate, Messages
<1>6. EmitCertificate(n, s) = [advance_round(n, ready, qc) EXCEPT
                                   !.out = IF leads THEN {} ELSE {TimeoutCertificate(n, qc)}]
  BY Zenon DEF EmitCertificate, tk, qc, leads, ready
<1>. QED
  BY Zenon, <1>4, <1>5, <1>6 DEF Results

(* A timeout can be recorded. *)
LEMMA AddRequestType ==
    ASSUME NEW n \in Nodes, NEW s \in RoundStates, NEW tk \in TimeoutKinds
    PROVE  /\ [s EXCEPT !.requests = @ \cup {[from |-> n, tk |-> tk]}] \in RoundStates
           /\ [s EXCEPT !.requests = @ \cup {[from |-> n, tk |-> tk]}, !.timer = "Scheduled"]
                    \in RoundStates
<1>1. [from |-> n, tk |-> tk] \in [from : Nodes, tk : TimeoutKinds]
  BY Zenon
<1>2. s.requests \cup {[from |-> n, tk |-> tk]} \in SUBSET [from : Nodes, tk : TimeoutKinds]
  BY Zenon, <1>1 DEF RoundStates
<1>3. [s EXCEPT !.requests = s.requests \cup {[from |-> n, tk |-> tk]}] \in RoundStates
  BY <1>2 DEF RoundStates
<1>. QED
  BY ZenonT(40), <1>3 DEF RoundStates

(* Counting the timeouts received returns a result. *)
LEMMA CountTimeoutsType ==
    ASSUME NEW n \in Nodes, NEW s \in RoundStates
    PROVE  CountTimeouts(n, s) \in Results
<1>. DEFINE from == {r.from : r \in s.requests}
            own == get_timeout_message(n, s)
            joins == IsMutiny(from) /\ n \notin from
            t == IF joins
                 THEN [s EXCEPT !.requests = @ \cup {[from |-> n, tk |-> own.tk]},
                                !.timer = "Scheduled"]
                 ELSE s
            sent == IF joins THEN {own} ELSE {}
<1>1. own \in Messages /\ own.tk \in TimeoutKinds
  BY Zenon, TimeoutMessageType
<1>. HIDE DEF own
<1>2. t \in RoundStates
  BY Zenon, <1>1, AddRequestType
<1>3. sent \in SUBSET Messages
  BY Zenon, <1>1
<1>. HIDE DEF joins, t, sent
<1>4. Result(t, sent, {}, TRUE) \in Results /\ Result(t, sent, {}, FALSE) \in Results
  BY Zenon, <1>2, <1>3 DEF Result, Results
<1>5. [EmitCertificate(n, t) EXCEPT !.out = @ \cup sent] \in Results
  <2>1. EmitCertificate(n, t) \in Results
    BY Zenon, <1>2, EmitCertificateType
  <2>. QED
    BY Zenon, <1>3, <2>1 DEF Results
<1>. QED
  BY Zenon, <1>4, <1>5 DEF CountTimeouts, own, joins, t, sent

(* Handling another node's timeout returns a result. *)
LEMMA OnTimeoutType ==
    ASSUME NEW n \in Nodes, NEW s \in RoundStates, NEW m,
           m.from \in Nodes, m.slot \in Nat, m.tk \in TimeoutKinds
    PROVE  on_timeout(n, s, m) \in Results
<1>. DEFINE request == [from |-> m.from, tk |-> m.tk]
            t == RecordPrepareQC(s, m.slot, m.tk)
<1>1. t \in RoundStates
  BY Zenon, RecordType
<1>2. [t EXCEPT !.requests = @ \cup {request}] \in RoundStates
  BY Zenon, <1>1, AddRequestType
<1>. HIDE DEF t
<1>3. CountTimeouts(n, [t EXCEPT !.requests = @ \cup {request}]) \in Results
  BY Zenon, <1>2, CountTimeoutsType
<1>. QED
  BY Zenon, <1>1, <1>3, OkType DEF on_timeout, t

(* Handling the expiry of the timer returns a result. *)
LEMMA OnTimeoutTickType ==
    ASSUME NEW n \in Nodes, NEW s \in RoundStates
    PROVE  on_timeout_tick(n, s) \in Results
<1>. DEFINE m == get_timeout_message(n, s)
            r == on_timeout(n, s, m)
<1>1. m \in Messages /\ m.tk \in TimeoutKinds
  BY Zenon, TimeoutMessageType
<1>2. m.from \in Nodes /\ m.slot \in Nat
  BY Zenon DEF get_timeout_message, Timeout, RoundStates
<1>. HIDE DEF m
<1>3. r \in Results
  BY Zenon, <1>1, <1>2, OnTimeoutType
<1>. HIDE DEF r
<1>4. [r.st EXCEPT !.timer = "Scheduled"] \in RoundStates
  BY <1>3 DEF Results, RoundStates
<1>5. [r EXCEPT !.st.timer = "Scheduled", !.out = @ \cup {m}] \in Results
  BY Zenon, <1>1, <1>3, <1>4 DEF Results
<1>. QED
  BY Zenon, <1>3, <1>5 DEF on_timeout_tick, m, r

(* Handling a timeout certificate returns a result. *)
LEMMA OnTimeoutCertificateType ==
    ASSUME NEW n \in Nodes, NEW s \in RoundStates, NEW qc \in TimeoutQCs
    PROVE  on_timeout_certificate(n, s, qc) \in Results
<1>. DEFINE v == verify_tc(s, qc, s.slot, s.view)
<1>1. v \in Results
  BY Zenon, VerifyTcType DEF RoundStates
<1>. HIDE DEF v
<1>2. v.st \in RoundStates /\ [v.st EXCEPT !.tag = "Leader"] \in RoundStates
  BY <1>1 DEF Results, RoundStates
<1>3. /\ advance_round(n, v.st, qc) \in Results
      /\ advance_round(n, [v.st EXCEPT !.tag = "Leader"], qc) \in Results
  BY Zenon, <1>2, AdvanceRoundType DEF RoundTickets
<1>. QED
  BY Zenon, <1>1, <1>3, OkType DEF on_timeout_certificate, v

---------------------------------------------------------------------------
(* Prepares. *)

(* Processing the commit certificate of a prepare returns a result. *)
LEMMA CommitTicketType ==
    ASSUME NEW n \in Nodes, NEW s \in RoundStates, NEW p \in Prepares, p.ticket \in CommitQCs
    PROVE  verify_and_process_commit_ticket(n, s, p) \in Results
BY Zenon, OkType, CommitAndAdvanceType DEF verify_and_process_commit_ticket

(* Processing the timeout certificate of a prepare returns a result. *)
LEMMA TcTicketType ==
    ASSUME NEW n \in Nodes, NEW s \in RoundStates, NEW p \in Prepares, p.ticket \in TimeoutQCs
    PROVE  verify_and_process_tc_ticket(n, s, p) \in Results
<1>. DEFINE f == IF IsNextSlot(s, p) /\ IsHashOf(Parent(p.chain), s.cp)
                 THEN CommitAndAdvance(n, s, ForcedCommitQc)
                 ELSE Ok(s)
            v == verify_tc(f.st, p.ticket, f.st.slot, p.view - 1)
<1>1. f \in Results
  BY Zenon, OkType, CommitAndAdvanceType
<1>. HIDE DEF f
<1>2. v \in Results
  <2>1. f.st \in RoundStates /\ f.st.slot \in Nat
    BY Zenon, <1>1 DEF Results, RoundStates
  <2>. QED
    BY Zenon, <2>1, VerifyTcType
<1>. HIDE DEF v
<1>3. advance_round(n, v.st, p.ticket) \in Results
  BY Zenon, <1>2, AdvanceRoundType DEF RoundTickets, Results
<1>4. /\ [f EXCEPT !.ok = FALSE] \in Results
      /\ [v EXCEPT !.commits = f.commits] \in Results
      /\ [advance_round(n, v.st, p.ticket) EXCEPT !.commits = f.commits] \in Results
  BY Zenon, <1>1, <1>2, <1>3 DEF Results
<1>. QED
  BY Zenon, <1>4, OkType DEF verify_and_process_tc_ticket, f, v

(* Processing the ticket of a prepare returns a result. *)
LEMMA ProcessTicketType ==
    ASSUME NEW n \in Nodes, NEW s \in RoundStates, NEW p \in Prepares
    PROVE  ProcessTicket(n, s, p) \in Results
<1>1. CASE p.ticket = GenesisTicket
  BY <1>1, OkType DEF ProcessTicket, GenesisTicket
<1>2. CASE p.ticket \in CommitQCs
  <2>1. p.ticket.kind = "CommitQC"
    BY Zenon, <1>2 DEF CommitQCs
  <2>. QED
    BY Zenon, <1>2, <2>1, CommitTicketType DEF ProcessTicket
<1>3. CASE p.ticket \in TimeoutQCs
  <2>1. p.ticket.kind = "TimeoutQC"
    BY Zenon, <1>3 DEF TimeoutQCs
  <2>. QED
    BY Zenon, <1>3, <2>1, TcTicketType DEF ProcessTicket
<1>. QED
  BY Zenon, <1>1, <1>2, <1>3 DEF Prepares, Tickets

(* Buffering a prepare and asking for its parent returns a result. *)
LEMMA BufferType ==
    ASSUME NEW n \in Nodes, NEW s \in RoundStates, NEW p \in Prepares
    PROVE  buffer_prepare_message_and_fetch_missing_parent(n, s, p) \subseteq Results
<1>. DEFINE t == IF p.chain \in {q.chain : q \in s.prepares} THEN s ELSE push(s, p)
            unknown == {k \in 0..(Slot(p.chain) - 1) :
                            SubSeq(p.chain, 1, k) \notin {q.chain : q \in t.prepares}}
            missing == {k \in unknown : \A j \in unknown : j <= k}
<1>1. t \in RoundStates
  BY Zenon, PushType
<1>2. ASSUME NEW k \in missing
      PROVE  SubSeq(p.chain, 1, k) \in Chains
  <2>1. p.chain \in Seq(Cuts) /\ k \in 0..(Len(p.chain) - 1)
    BY Zenon DEF Prepares, Chains, Slot
  <2>. QED
    BY <2>1 DEF Chains
<1>. DEFINE request(to) == {SyncRequest(n, to, SubSeq(p.chain, 1, k)) : k \in missing}
            asks == {Result(t, request(to), {}, TRUE) : to \in Validators \ {n}}
<1>3. ASSUME NEW to \in Validators \ {n}
      PROVE  request(to) \subseteq Messages
  <2>1. ASSUME NEW k \in missing
        PROVE  SyncRequest(n, to, SubSeq(p.chain, 1, k)) \in Messages
    BY Zenon, <1>2, ValidatorsAreNodes DEF SyncRequest, Messages
  <2>. HIDE DEF missing
  <2>. QED
    BY Zenon, <2>1
<1>4. Ok(t) \in Results
  BY Zenon, <1>1, OkType
<1>5. buffer_prepare_message_and_fetch_missing_parent(n, s, p) \in {{Ok(t)}, asks}
  BY Zenon DEF buffer_prepare_message_and_fetch_missing_parent
<1>. HIDE DEF t, request
<1>6. ASSUME NEW to \in Validators \ {n}
      PROVE  Result(t, request(to), {}, TRUE) \in Results
  BY Zenon, <1>1, <1>3 DEF Result, Results
<1>7. asks \subseteq Results
  BY Zenon, <1>6
<1>. HIDE DEF asks
<1>. QED
  BY Zenon, <1>4, <1>5, <1>7

(* Accepting a prepare returns a result. *)
LEMMA AcceptPrepareType ==
    ASSUME NEW n \in Nodes, NEW s \in RoundStates, NEW p \in Prepares
    PROVE  AcceptPrepare(n, s, p) \in Results
<1>. DEFINE t == push([s EXCEPT !.cp = Proposal(p.chain)], p)
            q == CHOOSE q \in next_prepares(t) : TRUE
<1>1. t \in RoundStates
  <2>1. Proposal(p.chain) \in Proposals
    BY Zenon DEF Proposal, Proposals, Prepares
  <2>2. [s EXCEPT !.cp = Proposal(p.chain)] \in RoundStates
    BY <2>1 DEF RoundStates
  <2>. QED
    BY Zenon, <2>2, PushType
<1>. HIDE DEF t
<1>2. CASE has_no_buffered_children(t)
  <2>1. PrepareVote(n, p.from, p.chain) \in Messages
    BY Zenon DEF PrepareVote, Messages, Prepares
  <2>2. Result(t, IF n \in Validators THEN {PrepareVote(n, p.from, p.chain)} ELSE {}, {}, TRUE)
            \in Results
    BY Zenon, <1>1, <2>1 DEF Result, Results
  <2>. QED
    BY Zenon, <1>2, <2>2 DEF AcceptPrepare, t
<1>3. CASE ~has_no_buffered_children(t)
  <2>1. q \in Prepares
    BY Zenon, <1>1, <1>3, NextPreparesType DEF has_no_buffered_children
  <2>. HIDE DEF q
  <2>2. [t EXCEPT !.forward = q] \in RoundStates
    BY <1>1, <2>1 DEF RoundStates
  <2>3. Ok([t EXCEPT !.forward = q]) \in Results
    BY Zenon, <2>2, OkType
  <2>. QED
    BY Zenon, <1>3, <2>3 DEF AcceptPrepare, t, q
<1>. QED
  BY Zenon, <1>2, <1>3

(* Every possible outcome of a prepare is well typed. *)
LEMMA OnPrepareType ==
    ASSUME NEW n \in Nodes, NEW s0 \in RoundStates, NEW p \in Prepares
    PROVE  on_prepare(n, s0, p) \subseteq Results
<1>. DEFINE s == IF s0.tag = "Joining" THEN [s0 EXCEPT !.tag = "Follower"] ELSE s0
            t == ProcessTicket(n, s, p)
<1>1. s \in RoundStates
  BY DEF RoundStates
<1>. HIDE DEF s
<1>2. t \in Results
  BY Zenon, <1>1, ProcessTicketType
<1>. HIDE DEF t
<1>3. AcceptPrepare(n, t.st, p) \in Results
  BY Zenon, <1>2, AcceptPrepareType DEF Results
<1>4. [AcceptPrepare(n, t.st, p) EXCEPT !.commits = t.commits] \in Results
  BY Zenon, <1>2, <1>3 DEF Results
<1>5. [t EXCEPT !.ok = FALSE] \in Results
  BY Zenon, <1>2 DEF Results
<1>6. Ok(push(s0, p)) \in Results /\ Ok(s) \in Results
  BY Zenon, <1>1, PushType, OkType
<1>7. buffer_prepare_message_and_fetch_missing_parent(n, s, p) \subseteq Results
  BY Zenon, <1>1, BufferType
<1>. QED
  BY Zenon, <1>4, <1>5, <1>6, <1>7 DEF on_prepare, s, t

---------------------------------------------------------------------------
(* Votes, acknowledgements and commits. *)

(* Handling a vote returns a result. *)
LEMMA OnPrepareVoteType ==
    ASSUME NEW n \in Nodes, NEW s \in RoundStates, NEW m, m.from \in Nodes, m.chain \in Chains
    PROVE  on_prepare_vote(n, s, m) \in Results
<1>. DEFINE t == [s EXCEPT !.votes = @ \cup {[from |-> m.from, chain |-> m.chain]}]
<1>1. t \in RoundStates
  BY DEF RoundStates
<1>. HIDE DEF t
<1>2. [t EXCEPT !.step = "ConfirmAck"] \in RoundStates
  BY <1>1 DEF RoundStates
<1>3. Confirm(n, m.chain) \in Messages
  BY Zenon DEF Confirm, Messages
<1>4. Result([t EXCEPT !.step = "ConfirmAck"], {Confirm(n, m.chain)}, {}, TRUE) \in Results
  BY Zenon, <1>2, <1>3 DEF Result, Results
<1>. QED
  BY Zenon, <1>1, <1>4, OkType DEF on_prepare_vote, t

(* Handling a Confirm returns a result. *)
LEMMA OnConfirmType ==
    ASSUME NEW n \in Nodes, NEW s \in RoundStates, NEW m, m.chain \in Chains
    PROVE  on_confirm(n, s, m) \in Results
<1>. DEFINE t == update_highest_seen_prepare_qc(s, s.slot, m.chain)
            out == IF n \in Validators
                   THEN {ConfirmAck(n, round_leader(s.slot, s.view), m.chain)}
                   ELSE {}
<1>1. s.slot \in Nat /\ s.view \in Nat
  BY Zenon DEF RoundStates
<1>2. t \in RoundStates
  BY Zenon, <1>1, UpdateHighestType
<1>3. ConfirmAck(n, round_leader(s.slot, s.view), m.chain) \in Messages
  BY Zenon, <1>1, LeaderIsValidator, ValidatorsAreNodes DEF ConfirmAck, Messages
<1>4. out \subseteq Messages
  BY Zenon, <1>3
<1>. HIDE DEF t, out
<1>5. Result(t, out, {}, TRUE) \in Results
  BY Zenon, <1>2, <1>4 DEF Result, Results
<1>. QED
  BY Zenon, <1>5, OkType DEF on_confirm, t, out

(* Handling an acknowledgement returns a result. *)
LEMMA OnConfirmAckType ==
    ASSUME NEW n \in Nodes, NEW s \in RoundStates, NEW m, m.from \in Nodes, m.chain \in Chains
    PROVE  on_confirm_ack(n, s, m) \in Results
<1>. DEFINE t == [s EXCEPT !.acks = @ \cup {[from |-> m.from, chain |-> m.chain]}]
            c == CommitAndAdvance(n, t, CommitQC(m.chain, n))
<1>1. t \in RoundStates
  BY DEF RoundStates
<1>. HIDE DEF t
<1>2. CommitQC(m.chain, n) \in CommitQCs /\ Commit(n, m.chain) \in Messages
  BY Zenon DEF CommitQC, CommitQCs, Commit, Messages
<1>3. c \in Results
  BY Zenon, <1>1, <1>2, CommitAndAdvanceType
<1>. HIDE DEF c
<1>4. [c EXCEPT !.out = {Commit(n, m.chain)}] \in Results
  BY Zenon, <1>2, <1>3 DEF Results
<1>. QED
  BY Zenon, <1>1, <1>4, OkType DEF on_confirm_ack, t, c

(* Handling a Commit, joining or not, returns a result. *)
LEMMA OnCommitType ==
    ASSUME NEW n \in Nodes, NEW s \in RoundStates, NEW m, m.from \in Nodes, m.chain \in Chains
    PROVE  on_commit(n, s, m) \in Results
<1>. DEFINE t == [s EXCEPT !.cp = Proposal(m.chain), !.slot = Slot(m.chain), !.view = 0,
                           !.tag = "Follower"]
<1>1. t \in RoundStates
  <2>1. Proposal(m.chain) \in Proposals /\ Slot(m.chain) \in Nat
    BY DEF Proposal, Proposals, Slot, Chains
  <2>2. [s EXCEPT !.cp = Proposal(m.chain), !.slot = Slot(m.chain)] \in RoundStates
    BY ZenonT(40), <2>1 DEF RoundStates
  <2>. QED
    BY ZenonT(40), <2>2 DEF RoundStates
<1>. HIDE DEF t
<1>2. CommitQC(m.chain, m.from) \in CommitQCs
  BY Zenon DEF CommitQC, CommitQCs
<1>3. /\ CommitAndAdvance(n, s, CommitQC(m.chain, m.from)) \in Results
      /\ CommitAndAdvance(n, t, CommitQC(m.chain, m.from)) \in Results
  BY Zenon, <1>1, <1>2, CommitAndAdvanceType
<1>. QED
  BY Zenon, <1>3, OkType DEF on_commit, on_commit_while_joining, t

---------------------------------------------------------------------------
(* Leading a round, serving and catching up. *)

(* Each way to start a round is a result. *)
LEMMA StartRoundType ==
    ASSUME NEW n \in Nodes, NEW s \in RoundStates
    PROVE  start_round(n, s) \subseteq Results
<1>. DEFINE p(chain) == Prepare(n, chain, s.pending, s.view)
            t(chain) == [s EXCEPT !.cp = Proposal(chain), !.step = "PrepareVote",
                                  !.pending = None]
            proposed(chain) == Result(push(t(chain), p(chain)), {p(chain)}, {}, TRUE)
<1>1. ASSUME s.pending # None, NEW chain \in Chains
      PROVE  proposed(chain) \in Results
  <2>1. p(chain) \in Prepares /\ p(chain) \in Messages
    BY Zenon, <1>1 DEF Prepare, Prepares, Messages, RoundStates
  <2>2. Proposal(chain) \in Proposals
    BY Zenon DEF Proposal, Proposals
  <2>3. t(chain) \in RoundStates
    BY ZenonT(40), <2>2 DEF RoundStates
  <2>. HIDE DEF p, t
  <2>4. push(t(chain), p(chain)) \in RoundStates
    BY Zenon, <2>1, <2>3, PushType
  <2>. QED
    BY Zenon, <2>1, <2>4 DEF Result, Results
<1>2. s.cp.chain \in Chains /\ s.parent \in Chains
  BY Zenon DEF RoundStates, Proposals
<1>3. ASSUME NEW cut \in NewCuts(s.parent)
      PROVE  Append(s.parent, cut) \in Chains
  BY <1>2 DEF NewCuts, Chains
<1>. HIDE DEF p, t
<1>4. CASE s.tag # "Leader" \/ s.step # "StartNewSlot" \/ s.pending = None
  BY Zenon, <1>4 DEF start_round
<1>5. CASE s.pending # None /\ current_slot_prepare_is_present(s)
  <2>1. proposed(s.cp.chain) \in Results
    BY Zenon, <1>1, <1>2, <1>5
  <2>. QED
    BY Zenon, <1>5, <2>1 DEF start_round, p, t
<1>6. CASE s.pending # None /\ ~current_slot_prepare_is_present(s)
  <2>1. ASSUME NEW cut \in NewCuts(s.parent)
        PROVE  proposed(Append(s.parent, cut)) \in Results
    BY Zenon, <1>1, <1>3, <1>6
  <2>. QED
    BY Zenon, <1>6, <2>1 DEF start_round, p, t
<1>. QED
  BY Zenon, <1>4, <1>5, <1>6

(* Serving a sync request returns a result. *)
LEMMA OnSyncRequestType ==
    ASSUME NEW n \in Nodes, NEW s \in RoundStates, NEW m, m.from \in Nodes
    PROVE  on_sync_request(n, s, m) \in Results
<1>. DEFINE out == {SyncReply(n, m.from, p) : p \in {q \in s.prepares : q.chain = m.chain}}
<1>1. out \subseteq Messages
  BY DEF SyncReply, Messages, RoundStates
<1>. HIDE DEF out
<1>. QED
  BY Zenon, <1>1 DEF on_sync_request, Result, Results, out

(* A block from data availability gives a result. *)
LEMMA OnNewBlockType ==
    ASSUME NEW s \in RoundStates, NEW chain \in Chains
    PROVE  on_new_block(s, chain) \in Results
<1>. DEFINE k == Slot(chain)
            next == Slot(chain) + 1
            cp == [chain |-> chain, taken |-> TRUE]
            t == [s EXCEPT !.synced = k, !.slot = next, !.view = 0]
<1>1. k \in Nat /\ next \in Nat /\ cp \in Proposals
  BY DEF Slot, Chains, Proposals
<1>. HIDE DEF k, next, cp
<1>2. t \in RoundStates
  BY ZenonT(40), <1>1 DEF RoundStates
<1>3. [t EXCEPT !.parent = chain, !.cp = cp, !.requests = {}] \in RoundStates
  <2>. HIDE DEF t
  <2>. QED  BY ZenonT(40), <1>1, <1>2 DEF RoundStates
<1>. QED
  BY Zenon, <1>3, OkType DEF on_new_block, k, next, cp

---------------------------------------------------------------------------
(* The nodes and the network. *)

(* The ancestors of the prefix are proposals. *)
LEMMA PrefixChainType ==
    ASSUME NEW k \in 0..Slot(Prefix)
    PROVE  SubSeq(Prefix, 1, k) \in Chains
BY CutsAssumption DEF Slot, Chains

(* The certificates of the prefix are tickets. *)
LEMMA PrefixTicketType ==
    ASSUME NEW k \in 0..Slot(Prefix)
    PROVE  /\ PrefixTicket(k) \in Tickets
           /\ k # 0 => PrefixTicket(k) \in CommitQCs
<1>1. CASE k = 0
  BY Zenon, <1>1 DEF PrefixTicket, Tickets
<1>2. CASE k # 0
  <2>1. k \in Nat /\ round_leader(k, 0) \in Nodes
    BY LeaderIsValidator, ValidatorsAreNodes
  <2>2. CommitQC(SubSeq(Prefix, 1, k), round_leader(k, 0)) \in CommitQCs
    BY Zenon, <2>1, PrefixChainType DEF CommitQC, CommitQCs
  <2>. QED
    BY Zenon, <1>2, <2>2 DEF PrefixTicket, Tickets
<1>. QED
  BY Zenon, <1>1, <1>2

(* The prepares of the prefix are prepares. *)
LEMMA PrefixPrepareType ==
    ASSUME NEW k \in 1..Slot(Prefix)
    PROVE  PrefixPrepare(k) \in Prepares
<1>1. Slot(Prefix) \in Nat
  BY CutsAssumption DEF Slot
<1>2. k \in Nat /\ k \in 0..Slot(Prefix) /\ k - 1 \in 0..Slot(Prefix)
  BY <1>1
<1>3. round_leader(k, 0) \in Nodes
  BY Zenon, <1>2, LeaderIsValidator, ValidatorsAreNodes
<1>4. SubSeq(Prefix, 1, k) \in Chains /\ PrefixTicket(k - 1) \in Tickets
  BY Zenon, <1>2, PrefixChainType, PrefixTicketType
<1>. QED
  BY Zenon, <1>3, <1>4 DEF PrefixPrepare, Prepare, Prepares

(* A validator starts in a well-typed state. *)
LEMMA ValidatorInitType ==
    ASSUME NEW n \in Nodes
    PROVE  ValidatorInit(n) \in RoundStates
<1>. DEFINE L == Slot(Prefix)
            leads == round_leader(L + 1, 0) = n
            cp == [chain |-> Prefix, taken |-> Prefix = Genesis \/ HasStakingActions(Prefix)]
            prepares == {PrefixPrepare(k) : k \in 1..L}
            children == {SubSeq(Prefix, 1, k) : k \in 1..L}
            tag == IF leads THEN "Leader" ELSE "Follower"
            pending == IF leads THEN PrefixTicket(L) ELSE None
            bufqc == IF Prefix = Genesis THEN None ELSE PrefixTicket(L)
            timer == IF Prefix = Genesis \/ (leads /\ (L = 1 \/ N = 1))
                     THEN "Inactive" ELSE "Scheduled"
<1>1. L \in Nat /\ L + 1 \in Nat /\ Prefix \in Chains /\ L \in 0..L
  BY CutsAssumption DEF Slot, Chains
<1>2. cp \in Proposals
  BY Zenon, <1>1 DEF Proposals
<1>3. prepares \in SUBSET Prepares
  BY Zenon, PrefixPrepareType
<1>4. children \in SUBSET Chains
  <2>1. ASSUME NEW k \in 1..L
        PROVE  SubSeq(Prefix, 1, k) \in Chains
    BY <1>1, PrefixChainType
  <2>. QED
    BY Zenon, <2>1
<1>5. pending \in Tickets \cup {None}
  BY Zenon, <1>1, PrefixTicketType
<1>6. bufqc \in CommitQCs \cup {None}
  <2>1. Prefix # Genesis => L # 0
    BY CutsAssumption DEF Genesis, Slot
  <2>. QED
    BY Zenon, <1>1, <2>1, PrefixTicketType
<1>7. tag \in {"Joining", "Leader", "Follower"}
      /\ timer \in {"Inactive", "Scheduled", "CertificateEmitted"}
  BY Zenon
<1>8. ValidatorInit(n) =
        [slot |-> L + 1, view |-> 0, parent |-> Prefix, cp |-> cp, tag |-> tag,
         step |-> "StartNewSlot", votes |-> {}, acks |-> {}, pending |-> pending,
         bufqc |-> bufqc, prepares |-> prepares, children |-> children,
         requests |-> {}, pqc |-> None, timer |-> timer, synced |-> 0, forward |-> None]
  BY Zenon DEF ValidatorInit
<1>. HIDE DEF L, cp, prepares, children, tag, pending, bufqc, timer
<1>. QED
  BY <1>1, <1>2, <1>3, <1>4, <1>5, <1>6, <1>7, <1>8 DEF RoundStates

(* So does an observer. *)
LEMMA ObserverInitType == ObserverInit \in RoundStates
<1>1. Genesis \in Chains /\ [chain |-> Genesis, taken |-> TRUE] \in Proposals
  BY DEF Genesis, Chains, Proposals
<1>. QED
  BY Zenon, <1>1 DEF ObserverInit, RoundStates

(* The commits of the prefix are commit events. *)
LEMMA PrefixCommitsType == PrefixCommits \subseteq CommitEvents
<1>1. Slot(Prefix) \in Nat
  BY CutsAssumption DEF Slot
<1>2. ASSUME NEW n \in Validators, NEW k \in 1..Slot(Prefix)
      PROVE  [node |-> n, chain |-> SubSeq(Prefix, 1, k), parent |-> SubSeq(Prefix, 1, k - 1),
              forced |-> FALSE] \in CommitEvents
  <2>1. k \in 0..Slot(Prefix) /\ k - 1 \in 0..Slot(Prefix)
    BY <1>1
  <2>2. SubSeq(Prefix, 1, k) \in Chains /\ SubSeq(Prefix, 1, k - 1) \in Chains
    BY Zenon, <2>1, PrefixChainType
  <2>. QED
    BY Zenon, <2>2, ValidatorsAreNodes DEF CommitEvents
<1>3. ASSUME NEW e \in PrefixCommits
      PROVE  e \in CommitEvents
  <2>1. PICK n \in Validators, k \in 1..Slot(Prefix) :
            e = [node |-> n, chain |-> SubSeq(Prefix, 1, k), parent |-> SubSeq(Prefix, 1, k - 1),
                 forced |-> FALSE]
    BY DEF PrefixCommits
  <2>. QED
    BY Zenon, <1>2, <2>1
<1>. QED
  BY Zenon, <1>3

(* The initial states are well typed. *)
LEMMA InitType == Init => TypeOK
<1>. SUFFICES ASSUME Init PROVE TypeOK
  BY Zenon
<1>1. st \in [Nodes -> RoundStates]
  BY Zenon, ValidatorInitType, ObserverInitType DEF Init
<1>2. msgs \subseteq Messages
  BY Zenon, PrefixPrepareType DEF Init, Messages
<1>3. commits \subseteq CommitEvents
  BY Zenon, PrefixCommitsType DEF Init
<1>4. restarts \in 0..MaxRestarts
  BY BoundsAssumption DEF Init
<1>. QED
  BY Zenon, <1>1, <1>2, <1>3, <1>4 DEF TypeOK

(* What a handler returns makes a well-typed step. *)
LEMMA HandleType ==
    ASSUME TypeOK, NEW n \in Nodes, NEW r \in Results, Handle(n, r)
    PROVE  TypeOK'
BY Zenon DEF TypeOK, Handle, Results

(* The messages a handler is given have the fields it reads. *)
LEMMA MessageFields ==
    ASSUME NEW m \in Messages
    PROVE  /\ m.type = "Prepare" => m \in Prepares
           /\ m.type \in {"PrepareVote", "ConfirmAck", "Confirm", "Commit"} =>
                    m.from \in Nodes /\ m.chain \in Chains
           /\ m.type = "Timeout" => m.from \in Nodes /\ m.slot \in Nat /\ m.tk \in TimeoutKinds
           /\ m.type = "TimeoutCertificate" => m.qc \in TimeoutQCs
           /\ m.type = "SyncRequest" => m.from \in Nodes
           /\ m.type = "SyncReply" => m.prepare \in Prepares
BY Zenon DEF Messages, Prepares

(* Every handler keeps the type, by its lemma, for the messages it can be given. *)
LEMMA NextType ==
    ASSUME TypeOK, [Next]_vars
    PROVE  TypeOK'
<1>. USE DEF Received, Addressed
<1>1. CASE UNCHANGED vars
  BY Zenon, <1>1 DEF vars, TypeOK
<1>2. ASSUME NEW n \in Nodes, OnPrepare(n) PROVE TypeOK'
  <2>1. PICK m \in Received(n, "Prepare") : \E r \in on_prepare(n, st[n], m) : Handle(n, r)
    BY Zenon, <1>2 DEF OnPrepare
  <2>2. m \in Prepares /\ st[n] \in RoundStates
    BY Zenon, <2>1, MessageFields DEF TypeOK
  <2>. QED
    BY Zenon, <2>1, <2>2, OnPrepareType, HandleType
<1>3. ASSUME NEW n \in Nodes, FastForward(n) PROVE TypeOK'
  <2>1. st[n] \in RoundStates
    BY Zenon DEF TypeOK
  <2>2. st[n].forward \in Prepares /\ [st[n] EXCEPT !.forward = None] \in RoundStates
    BY Zenon, <1>3, <2>1 DEF FastForward, Idle, RoundStates
  <2>. QED
    BY Zenon, <1>3, <2>2, OnPrepareType, HandleType DEF FastForward
<1>4. ASSUME NEW n \in Nodes, OnPrepareVote(n) PROVE TypeOK'
  <2>1. PICK m \in Addressed(n, "PrepareVote") : Handle(n, on_prepare_vote(n, st[n], m))
    BY Zenon, <1>4 DEF OnPrepareVote
  <2>2. m.from \in Nodes /\ m.chain \in Chains /\ st[n] \in RoundStates
    BY Zenon, <2>1, MessageFields DEF TypeOK
  <2>. QED
    BY Zenon, <2>1, <2>2, OnPrepareVoteType, HandleType
<1>5. ASSUME NEW n \in Nodes, OnConfirm(n) PROVE TypeOK'
  <2>1. PICK m \in Received(n, "Confirm") : Handle(n, on_confirm(n, st[n], m))
    BY Zenon, <1>5 DEF OnConfirm
  <2>2. m.chain \in Chains /\ st[n] \in RoundStates
    BY Zenon, <2>1, MessageFields DEF TypeOK
  <2>. QED
    BY Zenon, <2>1, <2>2, OnConfirmType, HandleType
<1>6. ASSUME NEW n \in Nodes, OnConfirmAck(n) PROVE TypeOK'
  <2>1. PICK m \in Addressed(n, "ConfirmAck") : Handle(n, on_confirm_ack(n, st[n], m))
    BY Zenon, <1>6 DEF OnConfirmAck
  <2>2. m.from \in Nodes /\ m.chain \in Chains /\ st[n] \in RoundStates
    BY Zenon, <2>1, MessageFields DEF TypeOK
  <2>. QED
    BY Zenon, <2>1, <2>2, OnConfirmAckType, HandleType
<1>7. ASSUME NEW n \in Nodes, OnCommit(n) PROVE TypeOK'
  <2>1. PICK m \in Received(n, "Commit") : Handle(n, on_commit(n, st[n], m))
    BY Zenon, <1>7 DEF OnCommit
  <2>2. m.from \in Nodes /\ m.chain \in Chains /\ st[n] \in RoundStates
    BY Zenon, <2>1, MessageFields DEF TypeOK
  <2>. QED
    BY Zenon, <2>1, <2>2, OnCommitType, HandleType
<1>8. ASSUME NEW n \in Nodes, OnTimeout(n) PROVE TypeOK'
  <2>1. PICK m \in Received(n, "Timeout") : Handle(n, on_timeout(n, st[n], m))
    BY Zenon, <1>8 DEF OnTimeout
  <2>2. m.from \in Nodes /\ m.slot \in Nat /\ m.tk \in TimeoutKinds /\ st[n] \in RoundStates
    BY Zenon, <2>1, MessageFields DEF TypeOK
  <2>. QED
    BY Zenon, <2>1, <2>2, OnTimeoutType, HandleType
<1>9. ASSUME NEW n \in Nodes, OnTimeoutCertificate(n) PROVE TypeOK'
  <2>1. PICK m \in Received(n, "TimeoutCertificate") :
            Handle(n, on_timeout_certificate(n, st[n], m.qc))
    BY Zenon, <1>9 DEF OnTimeoutCertificate
  <2>2. m.qc \in TimeoutQCs /\ st[n] \in RoundStates
    BY Zenon, <2>1, MessageFields DEF TypeOK
  <2>. QED
    BY Zenon, <2>1, <2>2, OnTimeoutCertificateType, HandleType
<1>10. ASSUME NEW n \in Nodes, OnSyncRequest(n) PROVE TypeOK'
  <2>1. PICK m \in Addressed(n, "SyncRequest") : Handle(n, on_sync_request(n, st[n], m))
    BY Zenon, <1>10 DEF OnSyncRequest
  <2>2. m.from \in Nodes /\ st[n] \in RoundStates
    BY Zenon, <2>1, MessageFields DEF TypeOK
  <2>. QED
    BY Zenon, <2>1, <2>2, OnSyncRequestType, HandleType
<1>11. ASSUME NEW n \in Nodes, OnSyncReply(n) PROVE TypeOK'
  <2>1. PICK m \in Addressed(n, "SyncReply") :
            \E r \in on_prepare(n, st[n], m.prepare) : Handle(n, r)
    BY Zenon, <1>11 DEF OnSyncReply
  <2>2. m.prepare \in Prepares /\ st[n] \in RoundStates
    BY Zenon, <2>1, MessageFields DEF TypeOK
  <2>. QED
    BY Zenon, <2>1, <2>2, OnPrepareType, HandleType
<1>12. ASSUME NEW n \in Nodes, OnTimeoutTick(n) PROVE TypeOK'
  <2>1. st[n] \in RoundStates
    BY Zenon DEF TypeOK
  <2>. QED
    BY Zenon, <1>12, <2>1, OnTimeoutTickType, HandleType DEF OnTimeoutTick
<1>13. ASSUME NEW n \in Nodes, StartRound(n) PROVE TypeOK'
  <2>1. st[n] \in RoundStates
    BY Zenon DEF TypeOK
  <2>. QED
    BY Zenon, <1>13, <2>1, StartRoundType, HandleType DEF StartRound
<1>14. ASSUME NEW n \in Nodes, NewBlock(n) PROVE TypeOK'
  <2>1. PICK e \in commits : Handle(n, on_new_block(st[n], e.chain))
    BY Zenon, <1>14 DEF NewBlock
  <2>2. e.chain \in Chains /\ st[n] \in RoundStates
    BY Zenon, <2>1 DEF TypeOK, CommitEvents
  <2>. QED
    BY Zenon, <2>1, <2>2, OnNewBlockType, HandleType
<1>15. ASSUME NEW n \in Nodes, Restart(n) PROVE TypeOK'
  <2>1. st[n] \in RoundStates
    BY Zenon DEF TypeOK
  <2>2. [st[n] EXCEPT !.tag = "Joining", !.timer = "Scheduled"] \in RoundStates
    BY ZenonT(40), <2>1 DEF RoundStates
  <2>3. st' = [st EXCEPT ![n] = [st[n] EXCEPT !.tag = "Joining", !.timer = "Scheduled"]]
    BY Zenon, <1>15 DEF Restart, TypeOK
  <2>4. restarts' \in 0..MaxRestarts
    BY <1>15, BoundsAssumption DEF Restart, TypeOK
  <2>. QED
    BY Zenon, <1>15, <2>2, <2>3, <2>4 DEF Restart, TypeOK
<1>. QED
  BY Zenon, <1>1, <1>2, <1>3, <1>4, <1>5, <1>6, <1>7, <1>8, <1>9, <1>10, <1>11, <1>12, <1>13,
     <1>14, <1>15 DEF Next

(* Every variable keeps its type, whatever the handlers are given and in whatever order: in *)
(* particular slots and views stay natural numbers and commit events are well formed.       *)
THEOREM TypeCorrect == Spec => []TypeOK
<1>1. TypeOK /\ [Next]_vars => TypeOK'
  BY Zenon, NextType
<1>. QED
  BY InitType, <1>1, PTL DEF Spec

---------------------------------------------------------------------------
(* No certificate claims a quorum that did not sign, hence every commit with a certificate *)
(* was voted for and acknowledged by a quorum.                                             *)

(* What a handler may return, once the messages sent are M. *)
EventBacked(M, e) == ~e.forced => Certified(M, e.chain)

ResultBacked(M, n, r) ==
    /\ LeaderBonded(n, r.st) /\ HoldsBacked(M, r.st)
    /\ \A m \in r.out : MessageBacked(M, m)
    /\ \A e \in r.commits : EventBacked(M, e)

---------------------------------------------------------------------------
(* Voting power. *)

(* A larger set of nodes has at least the power of a smaller one. *)
LEMMA PowerMonotone ==
    ASSUME NEW S \in SUBSET Nodes, NEW T \in SUBSET Nodes, S \subseteq T
    PROVE  Power[S] \in Nat /\ Power[T] \in Nat /\ Power[S] <= Power[T]
<1>1. T \ S \in SUBSET Nodes /\ S \cup (T \ S) = T /\ S \cap (T \ S) = {}
  BY Zenon
<1>2. Power[S \cup (T \ S)] + Power[S \cap (T \ S)] = Power[S] + Power[T \ S]
  BY Zenon, <1>1, PowerAssumption
<1>3. Power[T] + Power[{}] = Power[S] + Power[T \ S]
  BY Zenon, <1>1, <1>2
<1>4. Power[S] \in Nat /\ Power[T] \in Nat /\ Power[T \ S] \in Nat /\ Power[{}] = 0
  BY Zenon, <1>1, PowerAssumption
<1>. QED
  BY <1>3, <1>4

(* More signatures do not undo a quorum. *)
LEMMA QuorumGrows ==
    ASSUME NEW S \in SUBSET Nodes, NEW T \in SUBSET Nodes, S \subseteq T, IsQuorum(S)
    PROVE  IsQuorum(T)
<1>1. Power[S] \in Nat /\ Power[T] \in Nat /\ Power[S] <= Power[T]
  BY Zenon, PowerMonotone
<1>2. compute_f \in Int
  <2>1. Power[Validators] \in Nat
    BY Zenon, PowerAssumption, ValidatorsAreNodes
  <2>. QED
    BY <2>1 DEF compute_f
<1>. QED
  BY <1>1, <1>2 DEF IsQuorum

(* Only nodes sign, and what is signed stays so as messages are added. *)
LEMMA SignersGrow ==
    ASSUME NEW M \in SUBSET Messages, NEW K \in SUBSET Messages, M \subseteq K,
           NEW type \in {"PrepareVote", "ConfirmAck", "Confirm", "Commit"}, NEW chain
    PROVE  /\ Signers(M, type, chain) \in SUBSET Nodes
           /\ Signers(M, type, chain) \subseteq Signers(K, type, chain)
BY Zenon, MessageFields DEF Signers

(* So a proposal that is backed stays so, *)
LEMMA BackedGrows ==
    ASSUME NEW M \in SUBSET Messages, NEW K \in SUBSET Messages, M \subseteq K,
           NEW type \in {"PrepareVote", "ConfirmAck"}, NEW outcome \in {"Confirm", "Commit"},
           NEW chain, BackedBy(M, type, outcome, chain)
    PROVE  BackedBy(K, type, outcome, chain)
<1>1. PICK leader \in Validators \cap Signers(M, outcome, chain) :
            IsQuorum(Signers(M, type, chain) \cup {leader})
  BY Zenon DEF BackedBy, IsQuorum
<1>2. leader \in Nodes /\ leader \in Signers(K, outcome, chain)
  BY Zenon, <1>1, ValidatorsAreNodes, SignersGrow
<1>3. /\ Signers(M, type, chain) \in SUBSET Nodes /\ Signers(K, type, chain) \in SUBSET Nodes
      /\ Signers(M, type, chain) \subseteq Signers(K, type, chain)
  BY Zenon, SignersGrow
<1>4. IsQuorum(Signers(K, type, chain) \cup {leader})
  BY <1>1, <1>2, <1>3, QuorumGrows
<1>. QED
  BY Zenon, <1>1, <1>2, <1>4 DEF BackedBy, IsQuorum

(* and with it the messages sent, the events emitted and what nodes hold. *)
LEMMA CertifiedGrows ==
    ASSUME NEW M \in SUBSET Messages, NEW K \in SUBSET Messages, M \subseteq K
    PROVE  /\ \A m : MessageBacked(M, m) => MessageBacked(K, m)
           /\ \A e : EventBacked(M, e) => EventBacked(K, e)
           /\ \A s : HoldsBacked(M, s) => HoldsBacked(K, s)
<1>1. \A chain : Prepared(M, chain) => Prepared(K, chain)
  BY Zenon, BackedGrows DEF Prepared
<1>2. \A chain : Certified(M, chain) => Certified(K, chain)
  BY Zenon, <1>1, BackedGrows DEF Certified
<1>3. \A ticket : TicketBacked(M, ticket) => TicketBacked(K, ticket)
  BY Zenon, <1>2 DEF TicketBacked
<1>4. \A m : MessageBacked(M, m) => MessageBacked(K, m)
  BY Zenon, <1>1, <1>2, <1>3 DEF MessageBacked
<1>5. \A e : EventBacked(M, e) => EventBacked(K, e)
  BY Zenon, <1>2 DEF EventBacked
<1>6. \A chain : /\ Signers(M, "PrepareVote", chain) \subseteq Signers(K, "PrepareVote", chain)
                 /\ Signers(M, "ConfirmAck", chain) \subseteq Signers(K, "ConfirmAck", chain)
  BY Zenon, SignersGrow
<1>7. \A s : HoldsBacked(M, s) => HoldsBacked(K, s)
  BY Zenon, <1>3, <1>6 DEF HoldsBacked
<1>. QED
  BY Zenon, <1>4, <1>5, <1>7

---------------------------------------------------------------------------
(* Rounds. *)

(* A handler that keeps a backed state returns what is backed. *)
LEMMA OkBacked ==
    ASSUME NEW M, NEW n, NEW s, LeaderBonded(n, s), HoldsBacked(M, s)
    PROVE  ResultBacked(M, n, Ok(s)) /\ ResultBacked(M, n, Err(s))
BY Zenon DEF Ok, Err, Result, ResultBacked

(* The role of a round is taken by a bonded leader, and touches no certificate. *)
LEMMA TakeRoleBacked ==
    ASSUME NEW M, NEW n \in Nodes, NEW s \in RoundStates, HoldsBacked(M, s)
    PROVE  LeaderBonded(n, TakeRole(n, s)) /\ HoldsBacked(M, TakeRole(n, s))
<1>1. round_leader(s.slot, s.view) \in Validators
  BY Zenon, LeaderIsValidator DEF RoundStates
<1>. QED
  BY Zenon, <1>1 DEF TakeRole, LeaderBonded, HoldsBacked, RoundStates

(* Entering a slot or a view brings no certificate that is not backed. *)
LEMMA NextRoundBacked ==
    ASSUME NEW M, NEW s \in RoundStates, HoldsBacked(M, s), NEW ticket
    PROVE  /\ HoldsBacked(M, NextSlot(s, ticket)) /\ NextSlot(s, ticket).tag = s.tag
           /\ HoldsBacked(M, NextView(s))
BY Zenon DEF NextSlot, NextView, HoldsBacked, RoundStates

(* Forgetting the round before leaves nothing unbacked. *)
LEMMA ResetBacked ==
    ASSUME NEW M, NEW s \in RoundStates, HoldsBacked(M, s)
    PROVE  LET r == [s EXCEPT !.step = "StartNewSlot", !.votes = {}, !.acks = {},
                              !.pending = None, !.requests = {}]
           IN HoldsBacked(M, r) /\ r.tag = s.tag
BY Zenon DEF HoldsBacked, TicketBacked, None, RoundStates

(* The role that the round before leaves only survives an error. *)
LEMMA ApplyTicketBacked ==
    ASSUME NEW M, NEW n \in Nodes, NEW s \in RoundStates, NEW ticket \in RoundTickets, HoldsBacked(M, s),
           ticket.kind # "TimeoutQC" => LeaderBonded(n, s)
    PROVE  ResultBacked(M, n, apply_ticket(n, s, ticket))
<1>. DEFINE r == [s EXCEPT !.step = "StartNewSlot", !.votes = {}, !.acks = {},
                           !.pending = None, !.requests = {}]
<1>1. r \in RoundStates /\ HoldsBacked(M, r) /\ r.tag = s.tag
  BY Zenon, ResetType, ResetBacked
<1>. HIDE DEF r
<1>2. CASE s.tag = "Joining"
  BY Zenon, <1>2, OkBacked DEF apply_ticket, LeaderBonded
<1>3. CASE s.tag # "Joining" /\ ticket.kind = "TimeoutQC"
  <2>1. NextView(r) \in RoundStates /\ HoldsBacked(M, NextView(r))
    BY Zenon, <1>1, NextViewType, NextRoundBacked
  <2>2. ResultBacked(M, n, Ok(TakeRole(n, NextView(r))))
    BY Zenon, <2>1, TakeRoleBacked, OkBacked
  <2>. QED
    BY Zenon, <1>3, <2>2 DEF apply_ticket, r
<1>4. CASE s.tag # "Joining" /\ ticket.kind # "TimeoutQC"
  <2>1. ticket \in CommitQCs \cup {ForcedCommitQc}
    BY Zenon, <1>4 DEF RoundTickets, TimeoutQCs
  <2>2. NextSlot(r, ticket) \in RoundStates
    BY Zenon, <1>1, <2>1, NextSlotType
  <2>3. HoldsBacked(M, NextSlot(r, ticket)) /\ LeaderBonded(n, NextSlot(r, ticket))
    BY Zenon, <1>1, <1>4, NextRoundBacked DEF LeaderBonded
  <2>4. /\ ResultBacked(M, n, Err(NextSlot(r, ticket)))
        /\ ResultBacked(M, n, Ok(TakeRole(n, NextSlot(r, ticket))))
    BY Zenon, <2>2, <2>3, TakeRoleBacked, OkBacked
  <2>. QED
    BY Zenon, <1>4, <2>4 DEF apply_ticket, r
<1>. QED
  BY Zenon, <1>2, <1>3, <1>4

(* The leader of the round keeps a backed ticket. *)
LEMMA AdvanceRoundBacked ==
    ASSUME NEW M, NEW n \in Nodes, NEW s \in RoundStates, NEW ticket \in RoundTickets, HoldsBacked(M, s),
           ticket.kind # "TimeoutQC" => LeaderBonded(n, s), TicketBacked(M, ticket)
    PROVE  ResultBacked(M, n, advance_round(n, s, ticket))
<1>. DEFINE r == apply_ticket(n, s, ticket)
<1>1. r \in Results /\ ResultBacked(M, n, r)
  BY Zenon, ApplyTicketType, ApplyTicketBacked
<1>. HIDE DEF r
<1>2. r.st \in RoundStates /\ LeaderBonded(n, r.st) /\ HoldsBacked(M, r.st)
  BY Zenon, <1>1 DEF Results, ResultBacked
<1>3. /\ LeaderBonded(n, [r.st EXCEPT !.pending = ticket])
      /\ HoldsBacked(M, [r.st EXCEPT !.pending = ticket])
  BY Zenon, <1>2 DEF LeaderBonded, HoldsBacked, RoundStates
<1>4. ResultBacked(M, n, Ok([r.st EXCEPT !.pending = ticket]))
  BY Zenon, <1>3, OkBacked
<1>. QED
  BY Zenon, <1>1, <1>4 DEF advance_round, r

(* The event is of the current proposal, which the certificate has to be of. *)
LEMMA CommitAndAdvanceBacked ==
    ASSUME NEW M, NEW n \in Nodes, NEW s \in RoundStates, NEW ticket \in CommitQCs \cup {ForcedCommitQc},
           LeaderBonded(n, s), HoldsBacked(M, s), TicketBacked(M, ticket),
           ticket # ForcedCommitQc => Certified(M, s.cp.chain)
    PROVE  ResultBacked(M, n, CommitAndAdvance(n, s, ticket))
<1>. DEFINE r == advance_round(n, s, ticket)
<1>1. r \in Results /\ ResultBacked(M, n, r)
  BY Zenon, AdvanceRoundType, AdvanceRoundBacked DEF RoundTickets
<1>. HIDE DEF r
<1>2. EventBacked(M, CommitEvent(n, s, ticket = ForcedCommitQc))
  BY Zenon DEF EventBacked, CommitEvent
<1>. QED
  BY Zenon, <1>1, <1>2 DEF CommitAndAdvance, ResultBacked, Results, r

---------------------------------------------------------------------------
(* Timeouts, which touch no certificate of a commit. *)

(* A prepare with a backed ticket can be buffered. *)
LEMMA PushBacked ==
    ASSUME NEW M, NEW n, NEW s \in RoundStates, NEW p \in Prepares,
           LeaderBonded(n, s), HoldsBacked(M, s), TicketBacked(M, p.ticket)
    PROVE  LeaderBonded(n, push(s, p)) /\ HoldsBacked(M, push(s, p))
BY Zenon DEF push, LeaderBonded, HoldsBacked, RoundStates

(* Recording a prepare certificate touches no certificate of a commit. *)
LEMMA UpdateHighestBacked ==
    ASSUME NEW M, NEW n, NEW s \in RoundStates, NEW slot, NEW qc, LeaderBonded(n, s), HoldsBacked(M, s)
    PROVE  /\ LeaderBonded(n, update_highest_seen_prepare_qc(s, slot, qc))
           /\ HoldsBacked(M, update_highest_seen_prepare_qc(s, slot, qc))
BY Zenon DEF update_highest_seen_prepare_qc, LeaderBonded, HoldsBacked, RoundStates

(* Nor does recording the one that a timeout shows. *)
LEMMA RecordBacked ==
    ASSUME NEW M, NEW n, NEW s \in RoundStates, NEW slot \in Nat, NEW tk \in TimeoutKinds,
           LeaderBonded(n, s), HoldsBacked(M, s)
    PROVE  /\ LeaderBonded(n, RecordPrepareQC(s, slot, tk))
           /\ HoldsBacked(M, RecordPrepareQC(s, slot, tk))
<1>. DEFINE t == update_highest_seen_prepare_qc(s, slot, tk.qc)
<1>1. LeaderBonded(n, t) /\ HoldsBacked(M, t)
  BY Zenon, UpdateHighestBacked
<1>2. tk.kind = "PrepareQC" => t \in RoundStates
  BY UpdateHighestType DEF TimeoutKinds, NilProposal
<1>. HIDE DEF t
<1>3. tk.kind = "PrepareQC" =>
        LeaderBonded(n, [t EXCEPT !.cp = tk.cp]) /\ HoldsBacked(M, [t EXCEPT !.cp = tk.cp])
  BY Zenon, <1>1, <1>2 DEF LeaderBonded, HoldsBacked, RoundStates
<1>. QED
  BY Zenon, <1>3 DEF RecordPrepareQC, t

(* Nor does verifying a timeout certificate. *)
LEMMA VerifyTcBacked ==
    ASSUME NEW M, NEW n, NEW s \in RoundStates, NEW qc \in TimeoutQCs, NEW slot \in Nat, NEW view,
           LeaderBonded(n, s), HoldsBacked(M, s)
    PROVE  ResultBacked(M, n, verify_tc(s, qc, slot, view))
<1>1. /\ LeaderBonded(n, RecordPrepareQC(s, slot, qc.tk))
      /\ HoldsBacked(M, RecordPrepareQC(s, slot, qc.tk))
  BY Zenon, RecordBacked DEF TimeoutQCs
<1>. QED
  BY Zenon, <1>1, OkBacked DEF verify_tc

(* The certificate of a timeout takes the place of a joining node's role only if it leads. *)
LEMMA EmitCertificateBacked ==
    ASSUME NEW M, NEW n \in Nodes, NEW s \in RoundStates, LeaderBonded(n, s), HoldsBacked(M, s)
    PROVE  ResultBacked(M, n, EmitCertificate(n, s))
<1>. DEFINE tk == IF SeenPrepareQC(s) THEN PrepareQC(s.pqc.qc, s.cp) ELSE NilProposal
            qc == TimeoutQC(s.slot, s.view, s.parent, tk,
                            {r.from : r \in s.requests} \subseteq Validators)
            leads == round_leader(s.slot, s.view + 1) = n
            tag == IF s.tag = "Joining" THEN "Leader" ELSE s.tag
            ready == IF leads
                     THEN [s EXCEPT !.timer = "Scheduled", !.tag = tag]
                     ELSE [s EXCEPT !.timer = "CertificateEmitted"]
<1>1. tk \in TimeoutKinds
  BY Zenon, TimeoutKindType
<1>. HIDE DEF tk
<1>2. qc \in TimeoutQCs /\ qc \in RoundTickets /\ qc.kind = "TimeoutQC"
  BY Zenon, <1>1 DEF TimeoutQC, TimeoutQCs, RoundTickets, RoundStates
<1>3. tag \in {"Joining", "Leader", "Follower"}
  BY Zenon DEF RoundStates
<1>. HIDE DEF qc, tag, leads
<1>4. ready \in RoundStates /\ HoldsBacked(M, ready)
  BY ZenonT(40), <1>3 DEF HoldsBacked, RoundStates
<1>. HIDE DEF ready
<1>5. /\ advance_round(n, ready, qc) \in Results
      /\ ResultBacked(M, n, advance_round(n, ready, qc))
  BY Zenon, <1>2, <1>4, AdvanceRoundType, AdvanceRoundBacked DEF TicketBacked
<1>6. EmitCertificate(n, s) = [advance_round(n, ready, qc) EXCEPT
                                   !.out = IF leads THEN {} ELSE {TimeoutCertificate(n, qc)}]
  BY Zenon DEF EmitCertificate, tk, qc, leads, ready, tag
<1>7. MessageBacked(M, TimeoutCertificate(n, qc))
  BY Zenon DEF TimeoutCertificate, MessageBacked
<1>. QED
  BY Zenon, <1>5, <1>6, <1>7 DEF Results, ResultBacked

(* Nor does recording a timeout. *)
LEMMA AddRequestBacked ==
    ASSUME NEW M, NEW n, NEW s \in RoundStates, NEW request, LeaderBonded(n, s), HoldsBacked(M, s)
    PROVE  /\ LeaderBonded(n, [s EXCEPT !.requests = @ \cup {request}])
           /\ HoldsBacked(M, [s EXCEPT !.requests = @ \cup {request}])
           /\ LeaderBonded(n, [s EXCEPT !.requests = @ \cup {request}, !.timer = "Scheduled"])
           /\ HoldsBacked(M, [s EXCEPT !.requests = @ \cup {request}, !.timer = "Scheduled"])
BY Zenon DEF LeaderBonded, HoldsBacked, RoundStates

(* A timeout message carries no certificate of a commit. *)
LEMMA TimeoutMessageBacked ==
    ASSUME NEW M, NEW n, NEW s
    PROVE  MessageBacked(M, get_timeout_message(n, s))
BY Zenon DEF get_timeout_message, Timeout, MessageBacked

(* Counting timeouts keeps what is backed. *)
LEMMA CountTimeoutsBacked ==
    ASSUME NEW M, NEW n \in Nodes, NEW s \in RoundStates, LeaderBonded(n, s), HoldsBacked(M, s)
    PROVE  ResultBacked(M, n, CountTimeouts(n, s))
<1>. DEFINE from == {r.from : r \in s.requests}
            own == get_timeout_message(n, s)
            joins == IsMutiny(from) /\ n \notin from
            t == IF joins
                 THEN [s EXCEPT !.requests = @ \cup {[from |-> n, tk |-> own.tk]},
                                !.timer = "Scheduled"]
                 ELSE s
            sent == IF joins THEN {own} ELSE {}
<1>1. own.tk \in TimeoutKinds /\ MessageBacked(M, own)
  BY Zenon, TimeoutMessageType, TimeoutMessageBacked
<1>. HIDE DEF own
<1>2. t \in RoundStates /\ LeaderBonded(n, t) /\ HoldsBacked(M, t)
  BY Zenon, <1>1, AddRequestType, AddRequestBacked
<1>3. \A m \in sent : MessageBacked(M, m)
  BY Zenon, <1>1
<1>. HIDE DEF joins, t, sent
<1>4. ResultBacked(M, n, Result(t, sent, {}, TRUE)) /\ ResultBacked(M, n, Result(t, sent, {}, FALSE))
  BY Zenon, <1>2, <1>3 DEF Result, ResultBacked
<1>5. ResultBacked(M, n, [EmitCertificate(n, t) EXCEPT !.out = @ \cup sent])
  <2>1. EmitCertificate(n, t) \in Results /\ ResultBacked(M, n, EmitCertificate(n, t))
    BY Zenon, <1>2, EmitCertificateType, EmitCertificateBacked
  <2>. QED
    BY Zenon, <1>3, <2>1 DEF Results, ResultBacked
<1>. QED
  BY Zenon, <1>4, <1>5 DEF CountTimeouts, own, joins, t, sent

(* So does handling another node's timeout, *)
LEMMA OnTimeoutBacked ==
    ASSUME NEW M, NEW n \in Nodes, NEW s \in RoundStates, NEW m, LeaderBonded(n, s), HoldsBacked(M, s),
           m.from \in Nodes, m.slot \in Nat, m.tk \in TimeoutKinds
    PROVE  ResultBacked(M, n, on_timeout(n, s, m))
<1>. DEFINE request == [from |-> m.from, tk |-> m.tk]
            t == RecordPrepareQC(s, m.slot, m.tk)
<1>1. t \in RoundStates /\ LeaderBonded(n, t) /\ HoldsBacked(M, t)
  BY Zenon, RecordType, RecordBacked
<1>. HIDE DEF t
<1>2. /\ [t EXCEPT !.requests = @ \cup {request}] \in RoundStates
      /\ LeaderBonded(n, [t EXCEPT !.requests = @ \cup {request}])
      /\ HoldsBacked(M, [t EXCEPT !.requests = @ \cup {request}])
  BY Zenon, <1>1, AddRequestType, AddRequestBacked
<1>3. ResultBacked(M, n, CountTimeouts(n, [t EXCEPT !.requests = @ \cup {request}]))
  BY Zenon, <1>2, CountTimeoutsBacked
<1>. QED
  BY Zenon, <1>1, <1>3, OkBacked DEF on_timeout, t

(* and the expiry of the timer. *)
LEMMA OnTimeoutTickBacked ==
    ASSUME NEW M, NEW n \in Nodes, NEW s \in RoundStates, LeaderBonded(n, s), HoldsBacked(M, s)
    PROVE  ResultBacked(M, n, on_timeout_tick(n, s))
<1>. DEFINE m == get_timeout_message(n, s)
            r == on_timeout(n, s, m)
<1>1. m \in Messages /\ m.tk \in TimeoutKinds /\ MessageBacked(M, m)
  BY Zenon, TimeoutMessageType, TimeoutMessageBacked
<1>2. m.from \in Nodes /\ m.slot \in Nat
  BY Zenon DEF get_timeout_message, Timeout, RoundStates
<1>. HIDE DEF m
<1>3. r \in Results /\ ResultBacked(M, n, r)
  BY Zenon, <1>1, <1>2, OnTimeoutType, OnTimeoutBacked
<1>. HIDE DEF r
<1>4. /\ LeaderBonded(n, [r.st EXCEPT !.timer = "Scheduled"])
      /\ HoldsBacked(M, [r.st EXCEPT !.timer = "Scheduled"])
  BY Zenon, <1>3 DEF Results, RoundStates, ResultBacked, LeaderBonded, HoldsBacked
<1>5. ResultBacked(M, n, [r EXCEPT !.st.timer = "Scheduled", !.out = @ \cup {m}])
  BY Zenon, <1>1, <1>3, <1>4 DEF Results, ResultBacked
<1>. QED
  BY Zenon, <1>3, <1>5 DEF on_timeout_tick, m, r

(* A node that is not bonded may pass through the leader's role here, but not stay in it. *)
LEMMA OnTimeoutCertificateBacked ==
    ASSUME NEW M, NEW n \in Nodes, NEW s \in RoundStates, NEW qc \in TimeoutQCs,
           LeaderBonded(n, s), HoldsBacked(M, s)
    PROVE  ResultBacked(M, n, on_timeout_certificate(n, s, qc))
<1>. DEFINE v == verify_tc(s, qc, s.slot, s.view)
<1>1. v \in Results /\ ResultBacked(M, n, v)
  BY Zenon, VerifyTcType, VerifyTcBacked DEF RoundStates
<1>. HIDE DEF v
<1>2. /\ v.st \in RoundStates /\ [v.st EXCEPT !.tag = "Leader"] \in RoundStates
      /\ HoldsBacked(M, v.st) /\ HoldsBacked(M, [v.st EXCEPT !.tag = "Leader"])
  BY <1>1 DEF Results, RoundStates, ResultBacked, HoldsBacked
<1>3. qc \in RoundTickets /\ qc.kind = "TimeoutQC" /\ TicketBacked(M, qc)
  BY Zenon DEF RoundTickets, TimeoutQCs, TicketBacked
<1>4. /\ ResultBacked(M, n, advance_round(n, v.st, qc))
      /\ ResultBacked(M, n, advance_round(n, [v.st EXCEPT !.tag = "Leader"], qc))
  BY Zenon, <1>2, <1>3, AdvanceRoundBacked
<1>. QED
  BY Zenon, <1>1, <1>4, OkBacked DEF on_timeout_certificate, v

---------------------------------------------------------------------------
(* Prepares, whose tickets carry the certificates of the slot before. *)

(* A commit by the ticket of a prepare is of the proposal that the ticket certifies. *)
LEMMA CommitTicketBacked ==
    ASSUME NEW M, NEW n \in Nodes, NEW s \in RoundStates, NEW p \in Prepares, p.ticket \in CommitQCs,
           LeaderBonded(n, s), HoldsBacked(M, s), TicketBacked(M, p.ticket)
    PROVE  ResultBacked(M, n, verify_and_process_commit_ticket(n, s, p))
<1>1. IsHashOf(p.ticket.chain, s.cp) => Certified(M, s.cp.chain)
  BY Zenon DEF IsHashOf, TicketBacked, CommitQCs
<1>2. IsHashOf(p.ticket.chain, s.cp) => ResultBacked(M, n, CommitAndAdvance(n, s, p.ticket))
  BY Zenon, <1>1, CommitAndAdvanceBacked
<1>. QED
  BY Zenon, <1>2, OkBacked DEF verify_and_process_commit_ticket

(* A commit by the ticket of a timeout is forced, and claims no certificate. *)
LEMMA TcTicketBacked ==
    ASSUME NEW M, NEW n \in Nodes, NEW s \in RoundStates, NEW p \in Prepares, p.ticket \in TimeoutQCs,
           LeaderBonded(n, s), HoldsBacked(M, s)
    PROVE  ResultBacked(M, n, verify_and_process_tc_ticket(n, s, p))
<1>. DEFINE f == IF IsNextSlot(s, p) /\ IsHashOf(Parent(p.chain), s.cp)
                 THEN CommitAndAdvance(n, s, ForcedCommitQc)
                 ELSE Ok(s)
            v == verify_tc(f.st, p.ticket, f.st.slot, p.view - 1)
<1>1. f \in Results /\ ResultBacked(M, n, f)
  <2>1. TicketBacked(M, ForcedCommitQc)
    BY Zenon DEF TicketBacked, ForcedCommitQc
  <2>. QED
    BY Zenon, <2>1, OkType, OkBacked, CommitAndAdvanceType, CommitAndAdvanceBacked
<1>. HIDE DEF f
<1>2. v \in Results /\ ResultBacked(M, n, v)
  <2>1. f.st \in RoundStates /\ f.st.slot \in Nat /\ LeaderBonded(n, f.st) /\ HoldsBacked(M, f.st)
    BY Zenon, <1>1 DEF Results, RoundStates, ResultBacked
  <2>. QED
    BY Zenon, <2>1, VerifyTcType, VerifyTcBacked
<1>. HIDE DEF v
<1>3. p.ticket \in RoundTickets /\ p.ticket.kind = "TimeoutQC" /\ TicketBacked(M, p.ticket)
  BY Zenon DEF RoundTickets, TimeoutQCs, TicketBacked
<1>4. v.st \in RoundStates /\ HoldsBacked(M, v.st)
  BY Zenon, <1>2 DEF Results, ResultBacked
<1>5. /\ advance_round(n, v.st, p.ticket) \in Results
      /\ ResultBacked(M, n, advance_round(n, v.st, p.ticket))
  BY Zenon, <1>3, <1>4, AdvanceRoundType, AdvanceRoundBacked
<1>6. /\ ResultBacked(M, n, [f EXCEPT !.ok = FALSE])
      /\ ResultBacked(M, n, [v EXCEPT !.commits = f.commits])
      /\ ResultBacked(M, n, [advance_round(n, v.st, p.ticket) EXCEPT !.commits = f.commits])
  BY Zenon, <1>1, <1>2, <1>5 DEF Results, ResultBacked
<1>. QED
  BY Zenon, <1>6, OkBacked DEF verify_and_process_tc_ticket, f, v

(* Whatever its kind, processing a backed ticket keeps what is backed. *)
LEMMA ProcessTicketBacked ==
    ASSUME NEW M, NEW n \in Nodes, NEW s \in RoundStates, NEW p \in Prepares,
           LeaderBonded(n, s), HoldsBacked(M, s), TicketBacked(M, p.ticket)
    PROVE  ResultBacked(M, n, ProcessTicket(n, s, p))
<1>1. CASE p.ticket = GenesisTicket
  BY <1>1, OkBacked DEF ProcessTicket, GenesisTicket
<1>2. CASE p.ticket \in CommitQCs
  <2>1. p.ticket.kind = "CommitQC"
    BY Zenon, <1>2 DEF CommitQCs
  <2>. QED
    BY Zenon, <1>2, <2>1, CommitTicketBacked DEF ProcessTicket
<1>3. CASE p.ticket \in TimeoutQCs
  <2>1. p.ticket.kind = "TimeoutQC"
    BY Zenon, <1>3 DEF TimeoutQCs
  <2>. QED
    BY Zenon, <1>3, <2>1, TcTicketBacked DEF ProcessTicket
<1>. QED
  BY Zenon, <1>1, <1>2, <1>3 DEF Prepares, Tickets

(* So does buffering a prepare and asking for its parent. *)
LEMMA BufferBacked ==
    ASSUME NEW M, NEW n \in Nodes, NEW s \in RoundStates, NEW p \in Prepares,
           LeaderBonded(n, s), HoldsBacked(M, s), TicketBacked(M, p.ticket)
    PROVE  \A r \in buffer_prepare_message_and_fetch_missing_parent(n, s, p) : ResultBacked(M, n, r)
<1>. DEFINE t == IF p.chain \in {q.chain : q \in s.prepares} THEN s ELSE push(s, p)
            unknown == {k \in 0..(Slot(p.chain) - 1) :
                            SubSeq(p.chain, 1, k) \notin {q.chain : q \in t.prepares}}
            missing == {k \in unknown : \A j \in unknown : j <= k}
            request(to) == {SyncRequest(n, to, SubSeq(p.chain, 1, k)) : k \in missing}
            asks == {Result(t, request(to), {}, TRUE) : to \in Validators \ {n}}
<1>1. LeaderBonded(n, t) /\ HoldsBacked(M, t)
  BY Zenon, PushBacked
<1>2. buffer_prepare_message_and_fetch_missing_parent(n, s, p) \in {{Ok(t)}, asks}
  BY Zenon DEF buffer_prepare_message_and_fetch_missing_parent
<1>. HIDE DEF t, missing
<1>3. ASSUME NEW to, NEW m \in request(to)
      PROVE  MessageBacked(M, m)
  BY DEF SyncRequest, MessageBacked
<1>4. ResultBacked(M, n, Ok(t))
  BY Zenon, <1>1, OkBacked
<1>. HIDE DEF request
<1>5. \A r \in asks : ResultBacked(M, n, r)
  BY <1>1, <1>3 DEF Result, ResultBacked
<1>. HIDE DEF asks
<1>. QED
  BY Zenon, <1>2, <1>4, <1>5

(* An accepted prepare, or the buffered child to go on with, has a backed ticket. *)
LEMMA AcceptPrepareBacked ==
    ASSUME NEW M, NEW n \in Nodes, NEW s \in RoundStates, NEW p \in Prepares,
           LeaderBonded(n, s), HoldsBacked(M, s), TicketBacked(M, p.ticket)
    PROVE  ResultBacked(M, n, AcceptPrepare(n, s, p))
<1>. DEFINE u == [s EXCEPT !.cp = Proposal(p.chain)]
            t == push(u, p)
            q == CHOOSE q \in next_prepares(t) : TRUE
<1>1. u \in RoundStates /\ LeaderBonded(n, u) /\ HoldsBacked(M, u)
  <2>1. Proposal(p.chain) \in Proposals
    BY Zenon DEF Proposal, Proposals, Prepares
  <2>. QED
    BY <2>1 DEF RoundStates, LeaderBonded, HoldsBacked
<1>. HIDE DEF u
<1>2. t \in RoundStates /\ LeaderBonded(n, t) /\ HoldsBacked(M, t)
  BY Zenon, <1>1, PushType, PushBacked
<1>. HIDE DEF t
<1>3. CASE has_no_buffered_children(t)
  <2>1. MessageBacked(M, PrepareVote(n, p.from, p.chain))
    BY Zenon DEF PrepareVote, MessageBacked
  <2>2. ResultBacked(M, n, Result(t, IF n \in Validators THEN {PrepareVote(n, p.from, p.chain)}
                                  ELSE {}, {}, TRUE))
    BY Zenon, <1>2, <2>1 DEF Result, ResultBacked
  <2>. QED
    BY Zenon, <1>3, <2>2 DEF AcceptPrepare, t, u
<1>4. CASE ~has_no_buffered_children(t)
  <2>1. q \in t.prepares
    BY Zenon, <1>4 DEF has_no_buffered_children, next_prepares
  <2>. HIDE DEF q
  <2>2. TicketBacked(M, q.ticket)
    BY Zenon, <1>2, <2>1 DEF HoldsBacked
  <2>3. LeaderBonded(n, [t EXCEPT !.forward = q]) /\ HoldsBacked(M, [t EXCEPT !.forward = q])
    BY Zenon, <1>2, <2>2 DEF RoundStates, LeaderBonded, HoldsBacked
  <2>4. ResultBacked(M, n, Ok([t EXCEPT !.forward = q]))
    BY Zenon, <2>3, OkBacked
  <2>. QED
    BY Zenon, <1>4, <2>4 DEF AcceptPrepare, t, u, q
<1>. QED
  BY Zenon, <1>3, <1>4

(* So every outcome of a prepare is backed. *)
LEMMA OnPrepareBacked ==
    ASSUME NEW M, NEW n \in Nodes, NEW s0 \in RoundStates, NEW p \in Prepares,
           LeaderBonded(n, s0), HoldsBacked(M, s0), TicketBacked(M, p.ticket)
    PROVE  \A r \in on_prepare(n, s0, p) : ResultBacked(M, n, r)
<1>. DEFINE s == IF s0.tag = "Joining" THEN [s0 EXCEPT !.tag = "Follower"] ELSE s0
            t == ProcessTicket(n, s, p)
<1>1. s \in RoundStates /\ LeaderBonded(n, s) /\ HoldsBacked(M, s)
  BY DEF RoundStates, LeaderBonded, HoldsBacked
<1>. HIDE DEF s
<1>2. t \in Results /\ ResultBacked(M, n, t)
  BY Zenon, <1>1, ProcessTicketType, ProcessTicketBacked
<1>. HIDE DEF t
<1>3. t.st \in RoundStates /\ LeaderBonded(n, t.st) /\ HoldsBacked(M, t.st)
  BY Zenon, <1>2 DEF Results, ResultBacked
<1>4. AcceptPrepare(n, t.st, p) \in Results /\ ResultBacked(M, n, AcceptPrepare(n, t.st, p))
  BY Zenon, <1>3, AcceptPrepareType, AcceptPrepareBacked
<1>5. ResultBacked(M, n, [AcceptPrepare(n, t.st, p) EXCEPT !.commits = t.commits])
  BY Zenon, <1>2, <1>4 DEF Results, ResultBacked
<1>6. ResultBacked(M, n, [t EXCEPT !.ok = FALSE])
  BY Zenon, <1>2 DEF Results, ResultBacked
<1>7. ResultBacked(M, n, Ok(push(s0, p))) /\ ResultBacked(M, n, Ok(s))
  BY Zenon, <1>1, PushBacked, OkBacked
<1>8. \A r \in buffer_prepare_message_and_fetch_missing_parent(n, s, p) : ResultBacked(M, n, r)
  BY Zenon, <1>1, BufferBacked
<1>. QED
  BY Zenon, <1>5, <1>6, <1>7, <1>8 DEF on_prepare, s, t

---------------------------------------------------------------------------
(* Votes, acknowledgements and commits: where certificates are made. *)

(* Votes for one proposal that make a quorum with the leader's own, once it announces it, *)
(* back the proposal.                                                                     *)
LEMMA QuorumBacks ==
    ASSUME NEW M \in SUBSET Messages, NEW K \in SUBSET Messages, M \subseteq K, NEW chain,
           NEW type \in {"PrepareVote", "ConfirmAck"}, NEW outcome \in {"Confirm", "Commit"},
           NEW n \in Validators, n \in Signers(K, outcome, chain),
           NEW votes, IsQuorum({v.from : v \in votes} \cup {n}),
           \A v \in votes : v.chain = chain /\ v.from \in Signers(M, type, v.chain)
    PROVE  BackedBy(K, type, outcome, chain)
<1>. DEFINE from == {v.from : v \in votes}
            signed == Signers(K, type, chain)
<1>1. from \subseteq signed
  <2>1. Signers(M, type, chain) \subseteq signed
    BY Zenon, SignersGrow
  <2>. QED
    BY Zenon, <2>1
<1>2. signed \in SUBSET Nodes /\ n \in Nodes
  BY Zenon, SignersGrow, ValidatorsAreNodes
<1>3. IsQuorum(from \cup {n})
  BY Zenon
<1>. HIDE DEF from, signed
<1>4. IsQuorum(signed \cup {n})
  BY Zenon, <1>1, <1>2, <1>3, QuorumGrows
<1>. QED
  BY Zenon, <1>4 DEF BackedBy, IsQuorum, signed

(* A Confirm is sent only with a quorum of votes. *)
LEMMA OnPrepareVoteBacked ==
    ASSUME NEW M \in SUBSET Messages, NEW n \in Nodes, NEW s \in RoundStates, NEW m \in M,
           m.type = "PrepareVote", LeaderBonded(n, s), HoldsBacked(M, s),
           NEW K \in SUBSET Messages, K = M \cup on_prepare_vote(n, s, m).out
    PROVE  ResultBacked(K, n, on_prepare_vote(n, s, m))
<1>. DEFINE vote == [from |-> m.from, chain |-> m.chain]
            t == [s EXCEPT !.votes = @ \cup {vote}]
            done == [t EXCEPT !.step = "ConfirmAck"]
            r == Result(done, {Confirm(n, m.chain)}, {}, TRUE)
<1>1. m.from \in Signers(M, "PrepareVote", m.chain) /\ m.from \in Nodes /\ m.chain \in Chains
  BY Zenon, MessageFields DEF Signers
<1>2. t \in RoundStates /\ t.tag = s.tag /\ t.votes = s.votes \cup {vote}
  BY <1>1 DEF RoundStates
<1>3. LeaderBonded(n, t) /\ HoldsBacked(M, t)
  <2>1. \A v \in t.votes : v.from \in Signers(M, "PrepareVote", v.chain)
    BY <1>1, <1>2 DEF HoldsBacked
  <2>. QED
    BY Zenon, <2>1 DEF RoundStates, LeaderBonded, HoldsBacked
<1>. HIDE DEF t
<1>4. HoldsBacked(K, s) /\ HoldsBacked(K, t)
  BY Zenon, <1>3, CertifiedGrows
<1>5. LeaderBonded(n, done) /\ HoldsBacked(K, done)
  BY Zenon, <1>2, <1>3, <1>4 DEF RoundStates, LeaderBonded, HoldsBacked
<1>. HIDE DEF done
<1>6. ASSUME s.tag = "Leader", IsQuorum({v.from : v \in t.votes} \cup {n}),
             \A v \in t.votes : v.chain = m.chain, on_prepare_vote(n, s, m) = r
      PROVE  ResultBacked(K, n, r)
  <2>1. Confirm(n, m.chain) \in K /\ r.out = {Confirm(n, m.chain)}
    BY <1>6 DEF Result
  <2>2. n \in Signers(K, "Confirm", m.chain)
    BY <2>1 DEF Signers, Confirm
  <2>3. Prepared(K, m.chain)
    BY Zenon, <1>3, <1>6, <2>2, QuorumBacks DEF Prepared, LeaderBonded, HoldsBacked
  <2>4. MessageBacked(K, Confirm(n, m.chain))
    BY Zenon, <2>3 DEF MessageBacked, Confirm
  <2>. QED
    BY Zenon, <1>5, <2>4 DEF Result, ResultBacked
<1>. HIDE DEF r
<1>7. /\ ResultBacked(K, n, Ok(s)) /\ ResultBacked(K, n, Err(s))
      /\ ResultBacked(K, n, Ok(t)) /\ ResultBacked(K, n, Err(t))
  BY Zenon, <1>3, <1>4, OkBacked
<1>. QED
  BY Zenon, <1>6, <1>7 DEF on_prepare_vote, t, r, done

(* An acknowledgement repeats the certificate of the Confirm. *)
LEMMA OnConfirmBacked ==
    ASSUME NEW M, NEW n \in Nodes, NEW s \in RoundStates, NEW m, m.type = "Confirm", MessageBacked(M, m),
           LeaderBonded(n, s), HoldsBacked(M, s)
    PROVE  ResultBacked(M, n, on_confirm(n, s, m))
<1>. DEFINE t == update_highest_seen_prepare_qc(s, s.slot, m.chain)
            ack == ConfirmAck(n, round_leader(s.slot, s.view), m.chain)
<1>1. LeaderBonded(n, t) /\ HoldsBacked(M, t)
  BY Zenon, UpdateHighestBacked
<1>2. MessageBacked(M, ack)
  BY Zenon DEF MessageBacked, ConfirmAck
<1>. HIDE DEF t, ack
<1>3. ResultBacked(M, n, Result(t, IF n \in Validators THEN {ack} ELSE {}, {}, TRUE))
  BY Zenon, <1>1, <1>2 DEF Result, ResultBacked
<1>. QED
  BY Zenon, <1>3, OkBacked DEF on_confirm, t, ack

(* A Commit is sent only with a quorum of acknowledgements. *)
LEMMA OnConfirmAckBacked ==
    ASSUME NEW M \in SUBSET Messages, NEW n \in Nodes, NEW s \in RoundStates, NEW m \in M,
           m.type = "ConfirmAck", MessageBacked(M, m), LeaderBonded(n, s), HoldsBacked(M, s),
           NEW K \in SUBSET Messages, K = M \cup on_confirm_ack(n, s, m).out
    PROVE  ResultBacked(K, n, on_confirm_ack(n, s, m))
<1>. DEFINE ack == [from |-> m.from, chain |-> m.chain]
            t == [s EXCEPT !.acks = @ \cup {ack}]
            c == CommitAndAdvance(n, t, CommitQC(m.chain, n))
            r == [c EXCEPT !.out = {Commit(n, m.chain)}]
<1>1. m.from \in Signers(M, "ConfirmAck", m.chain) /\ m.from \in Nodes /\ m.chain \in Chains
  BY Zenon, MessageFields DEF Signers
<1>2. t \in RoundStates /\ t.tag = s.tag /\ t.acks = s.acks \cup {ack} /\ t.cp = s.cp
  BY <1>1 DEF RoundStates
<1>3. LeaderBonded(n, t) /\ HoldsBacked(M, t)
  <2>1. \A a \in t.acks : a.from \in Signers(M, "ConfirmAck", a.chain)
    BY <1>1, <1>2 DEF HoldsBacked
  <2>. QED
    BY Zenon, <2>1 DEF RoundStates, LeaderBonded, HoldsBacked
<1>. HIDE DEF t
<1>4. HoldsBacked(K, s) /\ HoldsBacked(K, t) /\ MessageBacked(K, m)
  BY Zenon, <1>3, CertifiedGrows
<1>5. CommitQC(m.chain, n) \in CommitQCs
  BY Zenon, <1>1 DEF CommitQC, CommitQCs
<1>6. c \in Results
  BY Zenon, <1>2, <1>5, CommitAndAdvanceType
<1>7. ASSUME s.tag = "Leader", IsHashOf(m.chain, s.cp), IsQuorum({a.from : a \in t.acks} \cup {n}),
             \A a \in t.acks : a.chain = m.chain, on_confirm_ack(n, s, m) = r
      PROVE  ResultBacked(K, n, r)
  <2>. HIDE DEF c
  <2>1. Commit(n, m.chain) \in K
    BY Zenon, <1>6, <1>7 DEF Results
  <2>2. n \in Signers(K, "Commit", m.chain)
    BY <2>1 DEF Signers, Commit
  <2>3. BackedBy(K, "ConfirmAck", "Commit", m.chain)
    BY Zenon, <1>3, <1>7, <2>2, QuorumBacks DEF LeaderBonded, HoldsBacked
  <2>4. Certified(K, m.chain)
    BY Zenon, <1>4, <2>3 DEF MessageBacked, Certified
  <2>5. /\ TicketBacked(K, CommitQC(m.chain, n)) /\ MessageBacked(K, Commit(n, m.chain))
        /\ Certified(K, t.cp.chain)
    BY Zenon, <1>2, <1>7, <2>4 DEF CommitQC, TicketBacked, Commit, MessageBacked, IsHashOf
  <2>6. ResultBacked(K, n, c)
    BY Zenon, <1>2, <1>3, <1>4, <1>5, <2>5, CommitAndAdvanceBacked DEF c
  <2>. QED
    BY Zenon, <1>6, <2>5, <2>6 DEF Results, ResultBacked
<1>. HIDE DEF r
<1>8. /\ ResultBacked(K, n, Ok(s)) /\ ResultBacked(K, n, Err(s))
      /\ ResultBacked(K, n, Ok(t)) /\ ResultBacked(K, n, Err(t))
  BY Zenon, <1>3, <1>4, OkBacked
<1>. QED
  BY Zenon, <1>7, <1>8 DEF on_confirm_ack, t, r, c

(* A Commit that is handled commits the proposal it certifies. *)
LEMMA OnCommitBacked ==
    ASSUME NEW M, NEW n \in Nodes, NEW s \in RoundStates, NEW m, m.type = "Commit", MessageBacked(M, m),
           m.from \in Nodes, m.chain \in Chains, LeaderBonded(n, s), HoldsBacked(M, s)
    PROVE  ResultBacked(M, n, on_commit(n, s, m))
<1>. DEFINE t == [s EXCEPT !.cp = Proposal(m.chain), !.slot = Slot(m.chain), !.view = 0,
                           !.tag = "Follower"]
            qc == CommitQC(m.chain, m.from)
<1>1. Certified(M, m.chain) /\ qc \in CommitQCs /\ TicketBacked(M, qc)
  BY Zenon DEF MessageBacked, CommitQC, CommitQCs, TicketBacked
<1>2. t \in RoundStates /\ t.cp.chain = m.chain /\ LeaderBonded(n, t) /\ HoldsBacked(M, t)
  <2>. DEFINE u == [s EXCEPT !.cp = Proposal(m.chain), !.slot = Slot(m.chain)]
  <2>1. Proposal(m.chain) \in Proposals /\ Slot(m.chain) \in Nat
        /\ Proposal(m.chain).chain = m.chain
    BY DEF Proposal, Proposals, Slot, Chains
  <2>2. u \in RoundStates /\ u.cp.chain = m.chain /\ HoldsBacked(M, u)
    BY ZenonT(40), <2>1 DEF RoundStates, HoldsBacked
  <2>3. t = [u EXCEPT !.view = 0, !.tag = "Follower"]
    BY Zenon DEF RoundStates
  <2>. HIDE DEF u, t
  <2>. QED
    BY ZenonT(40), <2>2, <2>3 DEF RoundStates, LeaderBonded, HoldsBacked
<1>. HIDE DEF t, qc
<1>3. ResultBacked(M, n, CommitAndAdvance(n, t, qc))
  BY Zenon, <1>1, <1>2, CommitAndAdvanceBacked
<1>4. IsHashOf(m.chain, s.cp) => ResultBacked(M, n, CommitAndAdvance(n, s, qc))
  BY Zenon, <1>1, CommitAndAdvanceBacked DEF IsHashOf
<1>. QED
  BY Zenon, <1>3, <1>4, OkBacked DEF on_commit, on_commit_while_joining, t, qc

---------------------------------------------------------------------------
(* Leading a round, serving and catching up. *)

(* A leader proposes with the backed ticket it kept. *)
LEMMA StartRoundBacked ==
    ASSUME NEW M, NEW n \in Nodes, NEW s \in RoundStates, LeaderBonded(n, s), HoldsBacked(M, s)
    PROVE  \A r \in start_round(n, s) : ResultBacked(M, n, r)
<1>. DEFINE p(chain) == Prepare(n, chain, s.pending, s.view)
            t(chain) == [s EXCEPT !.cp = Proposal(chain), !.step = "PrepareVote",
                                  !.pending = None]
            proposed(chain) == Result(push(t(chain), p(chain)), {p(chain)}, {}, TRUE)
<1>1. ASSUME s.pending # None, NEW chain \in Chains
      PROVE  ResultBacked(M, n, proposed(chain))
  <2>1. p(chain) \in Prepares /\ TicketBacked(M, p(chain).ticket) /\ MessageBacked(M, p(chain))
    BY Zenon, <1>1 DEF Prepare, Prepares, RoundStates, HoldsBacked, MessageBacked
  <2>2. Proposal(chain) \in Proposals /\ TicketBacked(M, None)
    BY Zenon DEF Proposal, Proposals, TicketBacked, None
  <2>3. t(chain) \in RoundStates /\ LeaderBonded(n, t(chain)) /\ HoldsBacked(M, t(chain))
    BY ZenonT(40), <2>2 DEF RoundStates, LeaderBonded, HoldsBacked
  <2>. HIDE DEF p, t
  <2>4. LeaderBonded(n, push(t(chain), p(chain))) /\ HoldsBacked(M, push(t(chain), p(chain)))
    BY Zenon, <2>1, <2>3, PushBacked
  <2>. QED
    BY Zenon, <2>1, <2>4 DEF Result, ResultBacked
<1>2. s.cp.chain \in Chains /\ s.parent \in Chains
  BY Zenon DEF RoundStates, Proposals
<1>3. ASSUME NEW cut \in NewCuts(s.parent)
      PROVE  Append(s.parent, cut) \in Chains
  BY <1>2 DEF NewCuts, Chains
<1>. HIDE DEF p, t
<1>4. CASE s.tag # "Leader" \/ s.step # "StartNewSlot" \/ s.pending = None
  BY Zenon, <1>4 DEF start_round
<1>5. CASE s.pending # None /\ current_slot_prepare_is_present(s)
  <2>1. ResultBacked(M, n, proposed(s.cp.chain))
    BY Zenon, <1>1, <1>2, <1>5
  <2>. QED
    BY Zenon, <1>5, <2>1 DEF start_round, p, t
<1>6. CASE s.pending # None /\ ~current_slot_prepare_is_present(s)
  <2>1. ASSUME NEW cut \in NewCuts(s.parent)
        PROVE  ResultBacked(M, n, proposed(Append(s.parent, cut)))
    BY Zenon, <1>1, <1>3, <1>6
  <2>. QED
    BY Zenon, <1>6, <2>1 DEF start_round, p, t
<1>. QED
  BY Zenon, <1>4, <1>5, <1>6

(* A sync reply forwards a backed ticket. *)
LEMMA OnSyncRequestBacked ==
    ASSUME NEW M, NEW n \in Nodes, NEW s \in RoundStates, NEW m, LeaderBonded(n, s), HoldsBacked(M, s)
    PROVE  ResultBacked(M, n, on_sync_request(n, s, m))
<1>1. ASSUME NEW p \in s.prepares
      PROVE  MessageBacked(M, SyncReply(n, m.from, p))
  BY Zenon DEF HoldsBacked, MessageBacked, SyncReply
<1>. QED
  BY Zenon, <1>1 DEF on_sync_request, Result, ResultBacked

(* A block from data availability brings no certificate. *)
LEMMA OnNewBlockBacked ==
    ASSUME NEW M, NEW n, NEW s \in RoundStates, NEW chain, LeaderBonded(n, s), HoldsBacked(M, s)
    PROVE  ResultBacked(M, n, on_new_block(s, chain))
<1>. DEFINE t == [s EXCEPT !.synced = Slot(chain), !.slot = Slot(chain) + 1, !.view = 0,
                           !.parent = chain, !.cp = [chain |-> chain, taken |-> TRUE],
                           !.requests = {}]
<1>1. LeaderBonded(n, t) /\ HoldsBacked(M, t)
  BY Zenon DEF RoundStates, LeaderBonded, HoldsBacked
<1>. HIDE DEF t
<1>. QED
  BY Zenon, <1>1, OkBacked DEF on_new_block, t

---------------------------------------------------------------------------
(* The nodes. *)

(* What is in the prefix needs no backing. *)
LEMMA PrefixBacked ==
    ASSUME NEW M, NEW k \in 0..Slot(Prefix)
    PROVE  Certified(M, SubSeq(Prefix, 1, k)) /\ TicketBacked(M, PrefixTicket(k))
<1>1. Prefix \in Seq(Cuts) /\ Len(Prefix) \in Nat /\ k \in 0..Len(Prefix)
  BY CutsAssumption DEF Slot
<1>2. Len(SubSeq(Prefix, 1, k)) = k
  BY <1>1
<1>3. Certified(M, SubSeq(Prefix, 1, k))
  BY <1>1, <1>2 DEF Certified, Slot
<1>. QED
  BY Zenon, <1>3 DEF TicketBacked, PrefixTicket, GenesisTicket, CommitQC

(* Nothing but the prefix is certified at the start. *)
LEMMA InitBacked == Init => CertificatesBacked
<1>. SUFFICES ASSUME Init PROVE CertificatesBacked
  BY Zenon
<1>. DEFINE L == Slot(Prefix)
<1>1. L \in Nat
  BY CutsAssumption DEF Slot
<1>2. ASSUME NEW k \in 1..L
      PROVE  /\ TicketBacked(msgs, PrefixPrepare(k).ticket) /\ MessageBacked(msgs, PrefixPrepare(k))
             /\ Certified(msgs, SubSeq(Prefix, 1, k))
  <2>1. k \in 0..Slot(Prefix) /\ k - 1 \in 0..Slot(Prefix)
    BY <1>1
  <2>2. TicketBacked(msgs, PrefixTicket(k - 1)) /\ Certified(msgs, SubSeq(Prefix, 1, k))
    BY Zenon, <2>1, PrefixBacked
  <2>. QED
    BY Zenon, <2>2 DEF PrefixPrepare, Prepare, MessageBacked
<1>3. TicketBacked(msgs, PrefixTicket(L)) /\ TicketBacked(msgs, None)
  <2>1. L \in 0..Slot(Prefix)
    BY <1>1
  <2>. QED
    BY Zenon, <2>1, PrefixBacked DEF TicketBacked, None
<1>4. ASSUME NEW n \in Nodes
      PROVE  LeaderBonded(n, ValidatorInit(n)) /\ HoldsBacked(msgs, ValidatorInit(n))
  <2>1. LeaderBonded(n, ValidatorInit(n))
    <3>1. L + 1 \in Nat
      BY <1>1
    <3>2. round_leader(L + 1, 0) \in Validators
      BY Zenon, <3>1, LeaderIsValidator
    <3>. QED
      BY Zenon, <3>2 DEF LeaderBonded, ValidatorInit
  <2>2. \A p \in ValidatorInit(n).prepares : TicketBacked(msgs, p.ticket)
    BY Zenon, <1>2 DEF ValidatorInit
  <2>3. TicketBacked(msgs, ValidatorInit(n).pending)
    BY Zenon, <1>3 DEF ValidatorInit
  <2>4. /\ ValidatorInit(n).votes = {} /\ ValidatorInit(n).acks = {}
        /\ ValidatorInit(n).forward = None
    BY Zenon DEF ValidatorInit
  <2>. QED
    BY Zenon, <2>1, <2>2, <2>3, <2>4 DEF HoldsBacked
<1>5. ASSUME NEW n \in Nodes
      PROVE  LeaderBonded(n, ObserverInit) /\ HoldsBacked(msgs, ObserverInit)
  BY Zenon, <1>3 DEF LeaderBonded, HoldsBacked, ObserverInit
<1>6. \A n \in Nodes : LeaderBonded(n, st[n]) /\ HoldsBacked(msgs, st[n])
  BY Zenon, <1>4, <1>5 DEF Init
<1>7. \A m \in msgs : MessageBacked(msgs, m)
  BY Zenon, <1>2 DEF Init
<1>8. \A e \in commits : EventBacked(msgs, e)
  <2>1. ASSUME NEW n \in Validators, NEW k \in 1..L
        PROVE  EventBacked(msgs, [node |-> n, chain |-> SubSeq(Prefix, 1, k),
                            parent |-> SubSeq(Prefix, 1, k - 1), forced |-> FALSE])
    BY Zenon, <1>2 DEF EventBacked
  <2>. QED
    BY <2>1 DEF Init, PrefixCommits
<1>. QED
  BY Zenon, <1>6, <1>7, <1>8 DEF CertificatesBacked, CommitsAreAcknowledged, EventBacked

(* What was backed before a step still is after it. *)
LEMMA StepBacked ==
    ASSUME TypeOK, TypeOK', CertificatesBacked, msgs \subseteq msgs'
    PROVE  /\ \A k \in Nodes : LeaderBonded(k, st[k]) /\ HoldsBacked(msgs', st[k])
           /\ \A m \in msgs : MessageBacked(msgs', m)
           /\ \A e \in commits : EventBacked(msgs', e)
<1>1. msgs \in SUBSET Messages /\ msgs' \in SUBSET Messages
  BY Zenon DEF TypeOK
<1>2. \A e \in commits : EventBacked(msgs, e)
  BY Zenon DEF CertificatesBacked, CommitsAreAcknowledged, EventBacked
<1>. QED
  BY Zenon, <1>1, <1>2, CertifiedGrows DEF CertificatesBacked

(* A handler that returns what is backed, by the messages it sends too, makes a step that *)
(* keeps everything so.                                                                   *)
LEMMA HandleBacked ==
    ASSUME TypeOK, CertificatesBacked, NEW n \in Nodes, NEW r \in Results, Handle(n, r),
           ResultBacked(msgs, n, r) \/ ResultBacked(msgs \cup r.out, n, r)
    PROVE  CertificatesBacked'
<1>1. TypeOK' /\ msgs \subseteq msgs' /\ st \in [Nodes -> RoundStates]
  BY Zenon, HandleType DEF Handle, TypeOK
<1>2. msgs \in SUBSET Messages /\ msgs' \in SUBSET Messages /\ msgs' = msgs \cup r.out
  BY Zenon, <1>1 DEF TypeOK, Handle
<1>3. ResultBacked(msgs', n, r)
  BY Zenon, <1>1, <1>2, CertifiedGrows DEF ResultBacked
<1>4. /\ \A k \in Nodes : LeaderBonded(k, st[k]) /\ HoldsBacked(msgs', st[k])
      /\ \A m \in msgs : MessageBacked(msgs', m)
      /\ \A e \in commits : EventBacked(msgs', e)
  BY Zenon, <1>1, StepBacked
<1>5. \A k \in Nodes : LeaderBonded(k, st'[k]) /\ HoldsBacked(msgs', st'[k])
  BY Zenon, <1>1, <1>3, <1>4 DEF Handle, ResultBacked
<1>6. \A m \in msgs' : MessageBacked(msgs', m)
  BY Zenon, <1>2, <1>3, <1>4 DEF ResultBacked
<1>7. \A e \in commits' : EventBacked(msgs', e)
  BY Zenon, <1>3, <1>4 DEF Handle, ResultBacked
<1>. QED
  BY Zenon, <1>5, <1>6, <1>7 DEF CertificatesBacked, CommitsAreAcknowledged, EventBacked, LeaderBonded

(* Every step keeps certificates backed. *)
LEMMA NextBacked ==
    ASSUME NEW M, TypeOK, CertificatesBacked, [Next]_vars
    PROVE  CertificatesBacked'
<1>. USE DEF Received, Addressed
<1>1. CASE UNCHANGED vars
  BY Zenon, <1>1 DEF vars, CertificatesBacked, CommitsAreAcknowledged, LeaderBonded
<1>2. ASSUME NEW n \in Nodes
      PROVE  /\ st[n] \in RoundStates /\ LeaderBonded(n, st[n]) /\ HoldsBacked(msgs, st[n])
             /\ \A m \in msgs : MessageBacked(msgs, m) /\ m \in Messages
  BY Zenon DEF TypeOK, CertificatesBacked
<1>3. ASSUME NEW n \in Nodes, OnPrepare(n) PROVE CertificatesBacked'
  <2>1. PICK m \in Received(n, "Prepare") : \E r \in on_prepare(n, st[n], m) : Handle(n, r)
    BY Zenon, <1>3 DEF OnPrepare
  <2>2. m \in Prepares /\ TicketBacked(msgs, m.ticket)
    BY Zenon, <1>2, <2>1, MessageFields DEF MessageBacked
  <2>. QED
    BY Zenon, <1>2, <2>1, <2>2, OnPrepareType, OnPrepareBacked, HandleBacked
<1>4. ASSUME NEW n \in Nodes, FastForward(n) PROVE CertificatesBacked'
  <2>. DEFINE s == [st[n] EXCEPT !.forward = None]
              p == st[n].forward
  <2>1. p \in Prepares /\ TicketBacked(msgs, p.ticket)
    BY Zenon, <1>2, <1>4 DEF FastForward, Idle, RoundStates, HoldsBacked
  <2>2. s \in RoundStates /\ LeaderBonded(n, s) /\ HoldsBacked(msgs, s)
    BY <1>2 DEF RoundStates, LeaderBonded, HoldsBacked
  <2>3. \E r \in on_prepare(n, s, p) : Handle(n, r)
    BY Zenon, <1>4 DEF FastForward
  <2>. HIDE DEF s, p
  <2>. QED
    BY Zenon, <2>1, <2>2, <2>3, OnPrepareType, OnPrepareBacked, HandleBacked
<1>5. ASSUME NEW n \in Nodes, OnPrepareVote(n) PROVE CertificatesBacked'
  <2>1. PICK m \in Addressed(n, "PrepareVote") : Handle(n, on_prepare_vote(n, st[n], m))
    BY Zenon, <1>5 DEF OnPrepareVote
  <2>2. m \in msgs /\ m.type = "PrepareVote" /\ m.from \in Nodes /\ m.chain \in Chains
    BY Zenon, <1>2, <2>1, MessageFields
  <2>3. on_prepare_vote(n, st[n], m) \in Results
    BY Zenon, <1>2, <2>2, OnPrepareVoteType
  <2>4. ResultBacked(msgs \cup on_prepare_vote(n, st[n], m).out, n, on_prepare_vote(n, st[n], m))
    <3>1. msgs \in SUBSET Messages /\ on_prepare_vote(n, st[n], m).out \in SUBSET Messages
      BY Zenon, <2>3 DEF TypeOK, Results
    <3>. QED
      BY Zenon, <1>2, <2>2, <3>1, OnPrepareVoteBacked
  <2>. QED
    BY Zenon, <2>1, <2>3, <2>4, HandleBacked
<1>6. ASSUME NEW n \in Nodes, OnConfirm(n) PROVE CertificatesBacked'
  <2>1. PICK m \in Received(n, "Confirm") : Handle(n, on_confirm(n, st[n], m))
    BY Zenon, <1>6 DEF OnConfirm
  <2>2. MessageBacked(msgs, m) /\ m.type = "Confirm" /\ m.chain \in Chains
    BY Zenon, <1>2, <2>1, MessageFields
  <2>. QED
    BY Zenon, <1>2, <2>1, <2>2, OnConfirmType, OnConfirmBacked, HandleBacked
<1>7. ASSUME NEW n \in Nodes, OnConfirmAck(n) PROVE CertificatesBacked'
  <2>1. PICK m \in Addressed(n, "ConfirmAck") : Handle(n, on_confirm_ack(n, st[n], m))
    BY Zenon, <1>7 DEF OnConfirmAck
  <2>2. /\ m \in msgs /\ MessageBacked(msgs, m) /\ m.type = "ConfirmAck"
        /\ m.from \in Nodes /\ m.chain \in Chains
    BY Zenon, <1>2, <2>1, MessageFields
  <2>3. on_confirm_ack(n, st[n], m) \in Results
    BY Zenon, <1>2, <2>2, OnConfirmAckType
  <2>4. ResultBacked(msgs \cup on_confirm_ack(n, st[n], m).out, n, on_confirm_ack(n, st[n], m))
    <3>1. msgs \in SUBSET Messages /\ on_confirm_ack(n, st[n], m).out \in SUBSET Messages
      BY Zenon, <2>3 DEF TypeOK, Results
    <3>. QED
      BY Zenon, <1>2, <2>2, <3>1, OnConfirmAckBacked
  <2>. QED
    BY Zenon, <2>1, <2>3, <2>4, HandleBacked
<1>8. ASSUME NEW n \in Nodes, OnCommit(n) PROVE CertificatesBacked'
  <2>1. PICK m \in Received(n, "Commit") : Handle(n, on_commit(n, st[n], m))
    BY Zenon, <1>8 DEF OnCommit
  <2>2. MessageBacked(msgs, m) /\ m.type = "Commit" /\ m.from \in Nodes /\ m.chain \in Chains
    BY Zenon, <1>2, <2>1, MessageFields
  <2>. QED
    BY Zenon, <1>2, <2>1, <2>2, OnCommitType, OnCommitBacked, HandleBacked
<1>9. ASSUME NEW n \in Nodes, OnTimeout(n) PROVE CertificatesBacked'
  <2>1. PICK m \in Received(n, "Timeout") : Handle(n, on_timeout(n, st[n], m))
    BY Zenon, <1>9 DEF OnTimeout
  <2>2. m.from \in Nodes /\ m.slot \in Nat /\ m.tk \in TimeoutKinds
    BY Zenon, <1>2, <2>1, MessageFields
  <2>. QED
    BY Zenon, <1>2, <2>1, <2>2, OnTimeoutType, OnTimeoutBacked, HandleBacked
<1>10. ASSUME NEW n \in Nodes, OnTimeoutCertificate(n) PROVE CertificatesBacked'
  <2>1. PICK m \in Received(n, "TimeoutCertificate") :
            Handle(n, on_timeout_certificate(n, st[n], m.qc))
    BY Zenon, <1>10 DEF OnTimeoutCertificate
  <2>2. m.qc \in TimeoutQCs
    BY Zenon, <1>2, <2>1, MessageFields
  <2>. QED
    BY Zenon, <1>2, <2>1, <2>2, OnTimeoutCertificateType, OnTimeoutCertificateBacked, HandleBacked
<1>11. ASSUME NEW n \in Nodes, OnSyncRequest(n) PROVE CertificatesBacked'
  <2>1. PICK m \in Addressed(n, "SyncRequest") : Handle(n, on_sync_request(n, st[n], m))
    BY Zenon, <1>11 DEF OnSyncRequest
  <2>2. m.from \in Nodes
    BY Zenon, <1>2, <2>1, MessageFields
  <2>. QED
    BY Zenon, <1>2, <2>1, <2>2, OnSyncRequestType, OnSyncRequestBacked, HandleBacked
<1>12. ASSUME NEW n \in Nodes, OnSyncReply(n) PROVE CertificatesBacked'
  <2>1. PICK m \in Addressed(n, "SyncReply") :
            \E r \in on_prepare(n, st[n], m.prepare) : Handle(n, r)
    BY Zenon, <1>12 DEF OnSyncReply
  <2>2. m.prepare \in Prepares /\ TicketBacked(msgs, m.prepare.ticket)
    BY Zenon, <1>2, <2>1, MessageFields DEF MessageBacked
  <2>. QED
    BY Zenon, <1>2, <2>1, <2>2, OnPrepareType, OnPrepareBacked, HandleBacked
<1>13. ASSUME NEW n \in Nodes, OnTimeoutTick(n) PROVE CertificatesBacked'
  BY Zenon, <1>2, <1>13, OnTimeoutTickType, OnTimeoutTickBacked, HandleBacked DEF OnTimeoutTick
<1>14. ASSUME NEW n \in Nodes, StartRound(n) PROVE CertificatesBacked'
  BY Zenon, <1>2, <1>14, StartRoundType, StartRoundBacked, HandleBacked DEF StartRound
<1>15. ASSUME NEW n \in Nodes, NewBlock(n) PROVE CertificatesBacked'
  <2>1. PICK e \in commits : Handle(n, on_new_block(st[n], e.chain))
    BY Zenon, <1>15 DEF NewBlock
  <2>2. e.chain \in Chains
    BY Zenon, <2>1 DEF TypeOK, CommitEvents
  <2>. QED
    BY Zenon, <1>2, <2>1, <2>2, OnNewBlockType, OnNewBlockBacked, HandleBacked
<1>16. ASSUME NEW n \in Nodes, Restart(n) PROVE CertificatesBacked'
  <2>. DEFINE s == [st[n] EXCEPT !.tag = "Joining", !.timer = "Scheduled"]
  <2>1. s \in RoundStates /\ LeaderBonded(n, s) /\ HoldsBacked(msgs, s)
    <3>. DEFINE t == st[n]
    <3>1. t \in RoundStates /\ HoldsBacked(msgs, t)
      BY Zenon, <1>2
    <3>. HIDE DEF t
    <3>2. [t EXCEPT !.tag = "Joining", !.timer = "Scheduled"] \in RoundStates
      BY ZenonT(40), <3>1 DEF RoundStates
    <3>3. /\ LeaderBonded(n, [t EXCEPT !.tag = "Joining", !.timer = "Scheduled"])
          /\ HoldsBacked(msgs, [t EXCEPT !.tag = "Joining", !.timer = "Scheduled"])
      BY Zenon, <3>1 DEF RoundStates, LeaderBonded, HoldsBacked
    <3>. QED
      BY Zenon, <3>2, <3>3 DEF t
  <2>2. st' = [st EXCEPT ![n] = s] /\ UNCHANGED <<msgs, commits>>
    BY Zenon, <1>16 DEF Restart, TypeOK
  <2>. HIDE DEF s
  <2>3. st \in [Nodes -> RoundStates]
    BY Zenon DEF TypeOK
  <2>4. \A k \in Nodes : LeaderBonded(k, st'[k]) /\ HoldsBacked(msgs, st'[k])
    BY Zenon, <2>1, <2>2, <2>3 DEF CertificatesBacked
  <2>. QED
    BY Zenon, <2>2, <2>4 DEF CertificatesBacked, CommitsAreAcknowledged, LeaderBonded
<1>. QED
  BY Zenon, <1>1, <1>3, <1>4, <1>5, <1>6, <1>7, <1>8, <1>9,
     <1>10, <1>11, <1>12, <1>13, <1>14, <1>15, <1>16 DEF Next

(* No certificate that a node sends, keeps or commits with claims a quorum that did not sign. *)
THEOREM CertificatesAreBacked == Spec => []CertificatesBacked
<1>1. CertificatesBacked /\ TypeOK /\ [Next]_vars => CertificatesBacked'
  BY Zenon, NextBacked
<1>. QED
  BY InitBacked, <1>1, TypeCorrect, PTL DEF Spec

(* Whatever the number of validators and their stakes, and however messages, timeouts and     *)
(* restarts fall, a commit with a certificate was voted for and acknowledged by a quorum.     *)
THEOREM CommitsHaveQuorums == Spec => []CommitsAreAcknowledged
<1>1. CertificatesBacked => CommitsAreAcknowledged
  BY Zenon DEF CertificatesBacked
<1>. QED
  BY <1>1, CertificatesAreBacked, PTL

---------------------------------------------------------------------------
(* What messages M and commit events C show. *)

Known(M, chain) == \E p \in M : p.type = "Prepare" /\ p.chain = chain
Voted(M, chain) == \E m \in M : m.type = "PrepareVote" /\ m.chain = chain
Done(C, chain) == chain = Genesis \/ \E d \in C : d.chain = chain /\ ~d.forced

TimedOut(M, n, slot, view, tk) ==
    \E t \in M : /\ t.type = "Timeout" /\ t.from = n
                 /\ t.slot = slot /\ t.view = view /\ t.tk = tk

(* A quorum of bonded validators that, in their timeouts, said that nothing was prepared. *)
NilQuorum(M, slot, view) ==
    \E S \in SUBSET Validators :
        IsQuorum(S) /\ \A v \in S : TimedOut(M, v, slot, view, NilProposal)

(* The first time that a proposal was made, in a view it could be made in. *)
Origin(M, chain) ==
    \E p \in M : /\ p.type = "Prepare" /\ p.chain = chain
                 /\ p.view = 0 \/ NilQuorum(M, Slot(chain), p.view - 1)

(* The proposal that a timeout shows is a child of the sender's parent. *)
KindOk(M, slot, parent, tk) ==
    tk.kind = "PrepareQC" /\ Slot(tk.cp.chain) = slot /\ IsHashOf(tk.qc, tk.cp) =>
        Parent(tk.cp.chain) = parent /\ Known(M, tk.qc) /\ Voted(M, tk.qc)

TcOk(M, qc) ==
    /\ qc.slot # 0
    /\ KindOk(M, qc.slot, qc.parent, qc.tk)
    /\ qc.tk = NilProposal /\ qc.bonded => NilQuorum(M, qc.slot, qc.view)

(* A ticket for a round on top of parent. *)
TicketFor(M, ticket, slot, view, parent) ==
    /\ ticket.kind = "Genesis" => view = 0
    /\ ticket.kind = "CommitQC" => view = 0 /\ ticket.chain = parent
    /\ ticket.kind = "TimeoutQC" =>
            /\ ticket.slot = slot /\ ticket.view + 1 = view /\ ticket.parent = parent
            /\ TcOk(M, ticket)

PrepareOk(M, C, p) ==
    /\ p.chain # Genesis
    /\ p.from = round_leader(Slot(p.chain), p.view)
    /\ TicketFor(M, p.ticket, Slot(p.chain), p.view, Parent(p.chain))
    /\ Done(C, Parent(p.chain))
    /\ Slot(p.chain) <= Slot(Prefix) => p.chain = SubSeq(Prefix, 1, Slot(p.chain))

MessageOk(M, C, m) ==
    /\ m.type = "Prepare" => PrepareOk(M, C, m)
    /\ m.type = "SyncReply" => m.prepare \in M
    /\ m.type = "PrepareVote" => Origin(M, m.chain)
    /\ m.type = "Confirm" => Voted(M, m.chain)
    /\ m.type = "Timeout" => KindOk(M, m.slot, m.parent, m.tk)
    /\ m.type = "TimeoutCertificate" => TcOk(M, m.qc)

EventOk(M, C, e) ==
    /\ e.chain # Genesis /\ Parent(e.chain) = e.parent
    /\ Done(C, e.parent) /\ Known(M, e.chain)
    /\ e.forced => Done(C, e.chain)

---------------------------------------------------------------------------
(* What a node's round state shows. *)

(* A node is at the child of its parent; one that has not joined is at no slot yet. *)
PlaceOk(C, n, s) ==
    /\ Done(C, s.parent)
    /\ \/ s.slot = Slot(s.parent) + 1
       \/ s.slot = 0 /\ s.parent = Genesis /\ s.cp.taken
    /\ n \in Validators => s.slot > Slot(Prefix) /\ s.tag # "Joining"

(* The current proposal, when it is for this slot, is a child of the parent; when it is not *)
(* it is the parent, and the commit changed its hash unless it had no staking actions.      *)
Committed(s) == s.cp.taken \/ (s.cp.chain = s.parent /\ ~HasStakingActions(s.cp.chain))

ProposalOk(M, n, s) ==
    /\ s.slot # 0 /\ current_slot_prepare_is_present(s) =>
            ~s.cp.taken /\ Parent(s.cp.chain) = s.parent /\ Known(M, s.cp.chain)
    /\ current_slot_prepare_is_present(s) \/ Committed(s)
    /\ s.step # "StartNewSlot" => current_slot_prepare_is_present(s) /\ n \in Validators

TicketsOk(M, n, s) ==
    /\ s.bufqc # None => s.bufqc.chain = s.parent
    /\ s.pending # None => /\ n = round_leader(s.slot, s.view)
                           /\ TicketFor(M, s.pending, s.slot, s.view, s.parent)

(* The timeouts counted were sent, and what they show is recorded. *)
TimeoutsOk(M, n, s) ==
    /\ s.pqc # None => s.pqc.slot <= s.slot /\ Voted(M, s.pqc.qc)
    /\ \A r \in s.requests : /\ TimedOut(M, r.from, s.slot, s.view, r.tk)
                             /\ r.tk # NilProposal => SeenPrepareQC(s)

BuffersOk(M, s) ==
    /\ s.prepares \subseteq M
    /\ s.forward # None => s.forward \in M

(* What the node proposed was for earlier rounds, or has used up the ticket of this one. *)
Led(s, p) ==
    \/ Slot(p.chain) < s.slot
    \/ Slot(p.chain) = s.slot /\ p.view < s.view
    \/ Slot(p.chain) = s.slot /\ p.view = s.view /\ s.pending = None
LeadsOk(M, n, s) ==
    n \in Validators => \A p \in M : p.type = "Prepare" /\ p.from = n => Led(s, p)

(* A node that is joining has seen nothing but blocks. *)
JoinOk(s) ==
    s.tag = "Joining" => /\ s.bufqc = None /\ s.pqc = None /\ s.requests = {}
                         /\ s.slot = s.synced + 1 \/ (s.slot = 0 /\ s.synced = 0)

NodeOk(M, C, n, s) ==
    /\ PlaceOk(C, n, s) /\ ProposalOk(M, n, s) /\ TicketsOk(M, n, s)
    /\ TimeoutsOk(M, n, s) /\ BuffersOk(M, s) /\ LeadsOk(M, n, s)

ForkInv ==
    /\ \A n \in Nodes : NodeOk(msgs, commits, n, st[n]) /\ JoinOk(st[n])
    /\ \A m \in msgs : MessageOk(msgs, commits, m)
    /\ \A e \in commits : EventOk(msgs, commits, e)
    /\ PrepareUnique

---------------------------------------------------------------------------
(* What was shown stays so as messages and events are added. *)
LEMMA ShownGrows ==
    ASSUME NEW M, NEW K, M \subseteq K, NEW C, NEW D, C \subseteq D
    PROVE  /\ \A chain : Known(M, chain) => Known(K, chain)
           /\ \A chain : Voted(M, chain) => Voted(K, chain)
           /\ \A chain : Done(C, chain) => Done(D, chain)
           /\ \A n, slot, view, tk : TimedOut(M, n, slot, view, tk) => TimedOut(K, n, slot, view, tk)
           /\ \A slot, view : NilQuorum(M, slot, view) => NilQuorum(K, slot, view)
           /\ \A chain : Origin(M, chain) => Origin(K, chain)
<1>1. \A chain : Known(M, chain) => Known(K, chain)
  BY Zenon DEF Known
<1>2. \A chain : Voted(M, chain) => Voted(K, chain)
  BY Zenon DEF Voted
<1>3. \A chain : Done(C, chain) => Done(D, chain)
  BY Zenon DEF Done
<1>4. \A n, slot, view, tk : TimedOut(M, n, slot, view, tk) => TimedOut(K, n, slot, view, tk)
  BY Zenon DEF TimedOut
<1>5. \A slot, view : NilQuorum(M, slot, view) => NilQuorum(K, slot, view)
  BY Zenon, <1>4 DEF NilQuorum
<1>6. \A chain : Origin(M, chain) => Origin(K, chain)
  BY Zenon, <1>5 DEF Origin
<1> QED
  BY Zenon, <1>1, <1>2, <1>3, <1>4, <1>5, <1>6

(* The same of tickets and certificates, *)
LEMMA TicketGrows ==
    ASSUME NEW M, NEW K, M \subseteq K
    PROVE  /\ \A slot, parent, tk : KindOk(M, slot, parent, tk) => KindOk(K, slot, parent, tk)
           /\ \A qc : TcOk(M, qc) => TcOk(K, qc)
           /\ \A ticket, slot, view, parent :
                TicketFor(M, ticket, slot, view, parent) => TicketFor(K, ticket, slot, view, parent)
<1>1. \A slot, parent, tk : KindOk(M, slot, parent, tk) => KindOk(K, slot, parent, tk)
  BY Zenon, ShownGrows DEF KindOk
<1>2. \A qc : TcOk(M, qc) => TcOk(K, qc)
  BY Zenon, <1>1, ShownGrows DEF TcOk
<1>3. \A ticket, slot, view, parent :
        TicketFor(M, ticket, slot, view, parent) => TicketFor(K, ticket, slot, view, parent)
  BY Zenon, <1>2 DEF TicketFor
<1> QED
  BY Zenon, <1>1, <1>2, <1>3

(* and of messages and commit events. *)
LEMMA MessagesGrow ==
    ASSUME NEW M, NEW K, M \subseteq K, NEW C, NEW D, C \subseteq D
    PROVE  /\ \A m : MessageOk(M, C, m) => MessageOk(K, D, m)
           /\ \A e : EventOk(M, C, e) => EventOk(K, D, e)
<1>1. \A p : PrepareOk(M, C, p) => PrepareOk(K, D, p)
  BY Zenon, ShownGrows, TicketGrows DEF PrepareOk
<1>2. \A m : MessageOk(M, C, m) => MessageOk(K, D, m)
  BY Zenon, <1>1, ShownGrows, TicketGrows DEF MessageOk
<1>3. \A e : EventOk(M, C, e) => EventOk(K, D, e)
  BY Zenon, ShownGrows DEF EventOk
<1> QED
  BY Zenon, <1>2, <1>3

(* A node's state stays in order as the others, and itself but for prepares, add to them. *)
LEMMA NodeGrows ==
    ASSUME NEW M, NEW K, M \subseteq K, NEW C, NEW D, C \subseteq D, NEW n, NEW s,
           NodeOk(M, C, n, s), \A p \in K \ M : p.type = "Prepare" => p.from # n
    PROVE  NodeOk(K, D, n, s)
<1>1. PlaceOk(D, n, s)
  BY Zenon, ShownGrows DEF NodeOk, PlaceOk
<1>2. ProposalOk(K, n, s)
  BY ShownGrows DEF NodeOk, ProposalOk
<1>3. TicketsOk(K, n, s)
  BY Zenon, TicketGrows DEF NodeOk, TicketsOk
<1>4. TimeoutsOk(K, n, s)
  BY ShownGrows DEF NodeOk, TimeoutsOk
<1>5. BuffersOk(K, s) /\ LeadsOk(K, n, s)
  BY Zenon DEF NodeOk, BuffersOk, LeadsOk
<1> QED
  BY Zenon, <1>1, <1>2, <1>3, <1>4, <1>5 DEF NodeOk

---------------------------------------------------------------------------
(* Rounds. *)

(* Forgetting, or learning of prepares that were sent, leaves a state in order. *)
LEMMA NodeShrinks ==
    ASSUME NEW M, NEW C, NEW n, NEW s, NEW t, NodeOk(M, C, n, s),
           t.slot = s.slot, t.view = s.view, t.parent = s.parent, t.cp = s.cp, t.pqc = s.pqc,
           t.tag = s.tag \/ t.tag # "Joining",
           t.step = s.step \/ t.step = "StartNewSlot",
           t.bufqc = s.bufqc \/ t.bufqc = None,
           t.pending = s.pending \/ t.pending = None,
           t.prepares \subseteq M, t.forward = None \/ t.forward \in M,
           t.requests \subseteq s.requests
    PROVE  NodeOk(M, C, n, t)
<1>1. PlaceOk(C, n, t)
  BY Zenon DEF NodeOk, PlaceOk
<1>2. ProposalOk(M, n, t)
  BY Zenon DEF NodeOk, ProposalOk, Committed, current_slot_prepare_is_present
<1>3. TicketsOk(M, n, t)
  BY Zenon DEF NodeOk, TicketsOk
<1>4. TimeoutsOk(M, n, t)
  BY Zenon DEF NodeOk, TimeoutsOk, SeenPrepareQC
<1>5. BuffersOk(M, t) /\ LeadsOk(M, n, t)
  BY Zenon DEF NodeOk, BuffersOk, LeadsOk, Led
<1> QED
  BY Zenon, <1>1, <1>2, <1>3, <1>4, <1>5 DEF NodeOk

(* What apply_ticket and advance_round do to the fields, for a timeout. *)
LEMMA NextViewFields ==
    ASSUME NEW n \in Nodes, NEW s \in RoundStates, s.tag # "Joining", NEW ticket \in TimeoutQCs
    PROVE  LET r == advance_round(n, s, ticket)
               t == r.st
           IN  /\ r.ok /\ r.out = {} /\ r.commits = {}
               /\ t.slot = s.slot /\ t.view = s.view + 1 /\ t.parent = s.parent /\ t.cp = s.cp
               /\ t.pqc = s.pqc /\ t.tag # "Joining" /\ t.step = "StartNewSlot" /\ t.bufqc = None
               /\ t.prepares = s.prepares /\ t.forward = s.forward /\ t.requests = {}
               /\ t.pending # None => t.pending = ticket /\ n = round_leader(t.slot, t.view)
<1> DEFINE z == [s EXCEPT !.step = "StartNewSlot", !.votes = {}, !.acks = {},
                          !.pending = None, !.requests = {}]
           v == NextView(z)
           t == TakeRole(n, v)
           u == [t EXCEPT !.pending = ticket]
<1>1. /\ z \in RoundStates /\ z.slot = s.slot /\ z.view = s.view /\ z.parent = s.parent
      /\ z.cp = s.cp /\ z.pqc = s.pqc /\ z.tag = s.tag /\ z.step = "StartNewSlot"
      /\ z.prepares = s.prepares /\ z.forward = s.forward /\ z.requests = {} /\ z.pending = None
  BY Zenon, ResetType DEF RoundStates
<1> HIDE DEF z
<1>2. /\ v \in RoundStates /\ v.slot = s.slot /\ v.view = s.view + 1 /\ v.parent = s.parent
      /\ v.cp = s.cp /\ v.pqc = s.pqc /\ v.step = "StartNewSlot" /\ v.bufqc = None
      /\ v.prepares = s.prepares /\ v.forward = s.forward /\ v.requests = {} /\ v.pending = None
  <2>1. v \in RoundStates
    BY Zenon, <1>1, NextViewType
  <2> QED
    BY <1>1, <2>1 DEF NextView, RoundStates
<1> HIDE DEF v
<1>3. /\ t \in RoundStates /\ t.slot = v.slot /\ t.view = v.view /\ t.parent = v.parent
      /\ t.cp = v.cp /\ t.pqc = v.pqc /\ t.step = v.step /\ t.bufqc = v.bufqc
      /\ t.prepares = v.prepares /\ t.forward = v.forward /\ t.requests = v.requests
      /\ t.pending = v.pending /\ t.tag \in {"Leader", "Follower"}
      /\ t.tag = "Leader" => n = round_leader(t.slot, t.view)
  <2>1. t \in RoundStates
    BY Zenon, <1>2, TakeRoleType
  <2>2. CASE round_leader(v.slot, v.view) = n
    <3>1. t = [v EXCEPT !.tag = "Leader"]
      BY Zenon, <2>2 DEF TakeRole
    <3> QED
      BY <1>2, <2>1, <2>2, <3>1 DEF RoundStates
  <2>3. CASE round_leader(v.slot, v.view) # n
    <3>1. t = [v EXCEPT !.tag = "Follower", !.timer = "Scheduled"]
      BY Zenon, <2>3 DEF TakeRole
    <3> QED
      BY Zenon, <1>2, <2>1, <3>1 DEF RoundStates
  <2> QED
    BY Zenon, <2>2, <2>3
<1> HIDE DEF t
<1>4. /\ u.slot = t.slot /\ u.view = t.view /\ u.parent = t.parent
      /\ u.cp = t.cp /\ u.pqc = t.pqc /\ u.step = t.step /\ u.bufqc = t.bufqc
      /\ u.prepares = t.prepares /\ u.forward = t.forward /\ u.requests = t.requests
      /\ u.pending = ticket /\ u.tag = t.tag
  BY Zenon, <1>3 DEF RoundStates
<1> HIDE DEF u
<1>5. ticket.kind = "TimeoutQC" /\ ticket # ForcedCommitQc
  BY DEF TimeoutQCs, ForcedCommitQc
<1>6. apply_ticket(n, s, ticket) = Ok(t)
  BY Zenon, <1>5 DEF apply_ticket, z, v, t
<1>7. advance_round(n, s, ticket) = IF t.tag = "Leader" /\ has_no_buffered_children(t)
                                    THEN Ok(u) ELSE Ok(t)
  BY <1>5, <1>6 DEF advance_round, Ok, Result, u
<1>8. CASE t.tag = "Leader" /\ has_no_buffered_children(t)
  BY <1>2, <1>3, <1>4, <1>7, <1>8 DEF Ok, Result
<1>9. CASE ~(t.tag = "Leader" /\ has_no_buffered_children(t))
  BY <1>2, <1>3, <1>7, <1>9 DEF Ok, Result
<1> QED
  BY Zenon, <1>8, <1>9

(* For a commit; a fee that cannot be charged leaves the role as it was. *)
LEMMA NextSlotFields ==
    ASSUME NEW n \in Nodes, NEW s \in RoundStates, s.tag # "Joining",
           NEW ticket \in CommitQCs \cup {ForcedCommitQc}
    PROVE  LET r == advance_round(n, s, ticket)
               t == r.st
           IN  /\ r.out = {} /\ r.commits = {}
               /\ t.slot = s.slot + 1 /\ t.view = 0 /\ t.parent = s.cp.chain
               /\ t.cp = [chain |-> s.cp.chain, taken |-> HasStakingActions(s.cp.chain)]
               /\ t.pqc = s.pqc /\ t.tag # "Joining" /\ t.step = "StartNewSlot"
               /\ t.bufqc = IF ticket = ForcedCommitQc THEN None ELSE ticket
               /\ t.prepares = s.prepares /\ t.forward = s.forward /\ t.requests = {}
               /\ t.pending # None => /\ t.pending = ticket /\ ticket # ForcedCommitQc
                                      /\ n = round_leader(t.slot, t.view)
<1> DEFINE z == [s EXCEPT !.step = "StartNewSlot", !.votes = {}, !.acks = {},
                          !.pending = None, !.requests = {}]
           v == NextSlot(z, ticket)
           t == TakeRole(n, v)
           u == [t EXCEPT !.pending = ticket]
<1>1. /\ z \in RoundStates /\ z.slot = s.slot /\ z.view = s.view /\ z.parent = s.parent
      /\ z.cp = s.cp /\ z.pqc = s.pqc /\ z.tag = s.tag /\ z.step = "StartNewSlot"
      /\ z.prepares = s.prepares /\ z.forward = s.forward /\ z.requests = {} /\ z.pending = None
  BY Zenon, ResetType DEF RoundStates
<1> HIDE DEF z
<1>2. /\ v \in RoundStates /\ v.slot = s.slot + 1 /\ v.view = 0 /\ v.parent = s.cp.chain
      /\ v.cp = [chain |-> s.cp.chain, taken |-> HasStakingActions(s.cp.chain)]
      /\ v.pqc = s.pqc /\ v.step = "StartNewSlot" /\ v.tag = s.tag
      /\ v.bufqc = (IF ticket = ForcedCommitQc THEN None ELSE ticket)
      /\ v.prepares = s.prepares /\ v.forward = s.forward /\ v.requests = {} /\ v.pending = None
  <2>1. v \in RoundStates
    BY Zenon, <1>1, NextSlotType
  <2> QED
    BY <1>1, <2>1 DEF NextSlot, RoundStates
<1> HIDE DEF v
<1>3. /\ t \in RoundStates /\ t.slot = v.slot /\ t.view = v.view /\ t.parent = v.parent
      /\ t.cp = v.cp /\ t.pqc = v.pqc /\ t.step = v.step /\ t.bufqc = v.bufqc
      /\ t.prepares = v.prepares /\ t.forward = v.forward /\ t.requests = v.requests
      /\ t.pending = v.pending /\ t.tag \in {"Leader", "Follower"}
      /\ t.tag = "Leader" => n = round_leader(t.slot, t.view)
  <2>1. t \in RoundStates
    BY Zenon, <1>2, TakeRoleType
  <2>2. CASE round_leader(v.slot, v.view) = n
    <3>1. t = [v EXCEPT !.tag = "Leader"]
      BY Zenon, <2>2 DEF TakeRole
    <3> QED
      BY <1>2, <2>1, <2>2, <3>1 DEF RoundStates
  <2>3. CASE round_leader(v.slot, v.view) # n
    <3>1. t = [v EXCEPT !.tag = "Follower", !.timer = "Scheduled"]
      BY Zenon, <2>3 DEF TakeRole
    <3> QED
      BY <1>2, <2>1, <3>1 DEF RoundStates
  <2> QED
    BY Zenon, <2>2, <2>3
<1> HIDE DEF t
<1>4. /\ u.slot = t.slot /\ u.view = t.view /\ u.parent = t.parent
      /\ u.cp = t.cp /\ u.pqc = t.pqc /\ u.step = t.step /\ u.bufqc = t.bufqc
      /\ u.prepares = t.prepares /\ u.forward = t.forward /\ u.requests = t.requests
      /\ u.pending = ticket /\ u.tag = t.tag
  BY Zenon, <1>3 DEF RoundStates
<1> HIDE DEF u
<1>5. ticket.kind # "TimeoutQC"
  BY DEF CommitQCs, ForcedCommitQc
<1>6. apply_ticket(n, s, ticket) \in {Ok(t), Err(v)}
  BY Zenon, <1>5 DEF apply_ticket, z, v, t
<1>7. \/ advance_round(n, s, ticket) = Ok(t)
      \/ advance_round(n, s, ticket) = Err(v)
      \/ advance_round(n, s, ticket) = Ok(u) /\ ticket # ForcedCommitQc /\ t.tag = "Leader"
  <2>1. Ok(t).st = t /\ ~Err(v).ok
    BY Zenon DEF Ok, Err, Result
  <2> QED
    BY Zenon, <1>6, <2>1 DEF advance_round, u
<1>8. CASE advance_round(n, s, ticket) = Ok(t)
  BY <1>2, <1>3, <1>8 DEF Ok, Result
<1>9. CASE advance_round(n, s, ticket) = Err(v)
  BY <1>2, <1>9 DEF Err, Result
<1>10. CASE advance_round(n, s, ticket) = Ok(u) /\ ticket # ForcedCommitQc /\ t.tag = "Leader"
  BY <1>2, <1>3, <1>4, <1>7, <1>10 DEF Ok, Result
<1> QED
  BY Zenon, <1>7, <1>8, <1>9, <1>10

(* The next view, with the certificate of a timeout of this one. *)
ViewAdvanced(M, C, n, s, r) ==
    /\ NodeOk(M, C, n, r.st) /\ r.st.tag # "Joining"
    /\ r.st.slot = s.slot /\ r.st.view = s.view + 1 /\ r.st.parent = s.parent /\ r.st.cp = s.cp
    /\ r.ok /\ r.out = {} /\ r.commits = {}

(* A timeout certificate takes a node to the next view, in order. *)
LEMMA NextViewOk ==
    ASSUME NEW M, NEW C, NEW n \in Nodes, NEW s \in RoundStates, NEW ticket \in TimeoutQCs,
           M \subseteq Messages, NodeOk(M, C, n, s), s.tag # "Joining", TcOk(M, ticket),
           ticket.slot = s.slot, ticket.view = s.view, ticket.parent = s.parent
    PROVE  ViewAdvanced(M, C, n, s, advance_round(n, s, ticket))
<1> DEFINE r == advance_round(n, s, ticket)
           t == r.st
<1>1. /\ r.ok /\ r.out = {} /\ r.commits = {}
      /\ t.slot = s.slot /\ t.view = s.view + 1 /\ t.parent = s.parent /\ t.cp = s.cp
      /\ t.pqc = s.pqc /\ t.tag # "Joining" /\ t.step = "StartNewSlot" /\ t.bufqc = None
      /\ t.prepares = s.prepares /\ t.forward = s.forward /\ t.requests = {}
      /\ t.pending # None => t.pending = ticket /\ n = round_leader(t.slot, t.view)
  BY Zenon, NextViewFields
<1> HIDE DEF t
<1>2. s.view \in Nat /\ ticket.kind = "TimeoutQC"
  BY Zenon DEF RoundStates, TimeoutQCs
<1>3. PlaceOk(C, n, t)
  BY Zenon, <1>1 DEF NodeOk, PlaceOk
<1>4. ProposalOk(M, n, t)
  BY Zenon, <1>1 DEF NodeOk, ProposalOk, Committed, current_slot_prepare_is_present
<1>5. TicketsOk(M, n, t)
  BY <1>1, <1>2 DEF NodeOk, TicketsOk, TicketFor
<1>6. TimeoutsOk(M, n, t)
  BY Zenon, <1>1 DEF NodeOk, TimeoutsOk
<1>7. BuffersOk(M, t)
  BY Zenon, <1>1 DEF NodeOk, BuffersOk
<1>8. LeadsOk(M, n, t)
  <2>1. ASSUME NEW p \in M, p.type = "Prepare", Led(s, p) PROVE Led(t, p)
    <3>1. Slot(p.chain) \in Nat /\ p.view \in Nat
      BY <2>1, MessageFields DEF Prepares, Chains, Slot
    <3> QED
      BY <1>1, <1>2, <2>1, <3>1 DEF Led
  <2> QED
    BY Zenon, <2>1 DEF NodeOk, LeadsOk
<1> QED
  BY Zenon, <1>1, <1>3, <1>4, <1>5, <1>6, <1>7, <1>8 DEF ViewAdvanced, NodeOk, t

(* The next slot, on top of a proposal of this one that is committed. *)
SlotAdvanced(M, C, n, s, r) ==
    /\ NodeOk(M, C, n, r.st) /\ r.st.tag # "Joining"
    /\ r.st.slot = s.slot + 1 /\ r.st.parent = s.cp.chain
    /\ r.out = {}

(* A commit certificate, or a forced commit, takes it to the next slot, in order. *)
LEMMA NextSlotOk ==
    ASSUME NEW M, NEW C, NEW n \in Nodes, NEW s \in RoundStates, 
           NEW ticket \in CommitQCs \cup {ForcedCommitQc}, M \subseteq Messages,
           NodeOk(M, C, n, s), s.tag # "Joining",
           s.slot # 0, current_slot_prepare_is_present(s),
           ticket # ForcedCommitQc => ticket.chain = s.cp.chain, Done(C, s.cp.chain)
    PROVE  SlotAdvanced(M, C, n, s, advance_round(n, s, ticket))
<1> DEFINE r == advance_round(n, s, ticket)
           t == r.st
<1>1. /\ r.out = {} /\ r.commits = {}
      /\ t.slot = s.slot + 1 /\ t.view = 0 /\ t.parent = s.cp.chain
      /\ t.cp = [chain |-> s.cp.chain, taken |-> HasStakingActions(s.cp.chain)]
      /\ t.pqc = s.pqc /\ t.tag # "Joining" /\ t.step = "StartNewSlot"
      /\ t.bufqc = IF ticket = ForcedCommitQc THEN None ELSE ticket
      /\ t.prepares = s.prepares /\ t.forward = s.forward /\ t.requests = {}
      /\ t.pending # None => /\ t.pending = ticket /\ ticket # ForcedCommitQc
                             /\ n = round_leader(t.slot, t.view)
  BY NextSlotFields
<1> HIDE DEF t
<1>2. /\ s.slot \in Nat /\ s.view \in Nat /\ s.cp.chain \in Chains /\ Slot(s.cp.chain) = s.slot
      /\ s.pqc # None => s.pqc.slot \in Nat
  BY Zenon DEF RoundStates, Proposals, current_slot_prepare_is_present
<1>3. PlaceOk(C, n, t)
  <2>1. Slot(Prefix) \in Nat
    BY CutsAssumption DEF Slot
  <2> QED
    BY <1>1, <1>2, <2>1 DEF NodeOk, PlaceOk
<1>4. ProposalOk(M, n, t)
  <2>1. ~current_slot_prepare_is_present(t)
    BY <1>1, <1>2 DEF current_slot_prepare_is_present
  <2>2. Committed(t)
    <3>1. t.cp.taken = HasStakingActions(s.cp.chain) /\ t.cp.chain = t.parent /\ t.parent = s.cp.chain
      BY <1>1
    <3> QED
      BY <3>1 DEF Committed
  <2> QED
    BY Zenon, <1>1, <2>1, <2>2 DEF ProposalOk
<1>5. TicketsOk(M, n, t)
  <2>1. ticket # ForcedCommitQc => ticket.kind = "CommitQC"
    BY Zenon DEF CommitQCs
  <2> QED
    BY Zenon, <1>1, <2>1 DEF TicketsOk, TicketFor
<1>6. TimeoutsOk(M, n, t)
  BY <1>1, <1>2 DEF NodeOk, TimeoutsOk
<1>7. BuffersOk(M, t)
  BY Zenon, <1>1 DEF NodeOk, BuffersOk
<1>8. LeadsOk(M, n, t)
  <2>1. ASSUME NEW p \in M, p.type = "Prepare", Led(s, p) PROVE Led(t, p)
    <3>1. Slot(p.chain) \in Nat /\ p.view \in Nat
      BY <2>1, MessageFields DEF Prepares, Chains, Slot
    <3> QED
      BY <1>1, <1>2, <2>1, <3>1 DEF Led
  <2> QED
    BY Zenon, <2>1 DEF NodeOk, LeadsOk
<1> QED
  BY Zenon, <1>1, <1>3, <1>4, <1>5, <1>6, <1>7, <1>8 DEF SlotAdvanced, NodeOk, t

(* What a handler returns, once its messages are among M and its events among C. *)
ResultOk(M, C, n, r) ==
    /\ NodeOk(M, C, n, r.st) /\ JoinOk(r.st)
    /\ \A m \in r.out : MessageOk(M, C, m)
    /\ \A e \in r.commits : EventOk(M, C, e)

(* A handler that stops with its state unchanged. *)
LEMMA OkOk ==
    ASSUME NEW M, NEW C, NEW n, NEW s, NodeOk(M, C, n, s), JoinOk(s)
    PROVE  ResultOk(M, C, n, Ok(s)) /\ ResultOk(M, C, n, Err(s))
BY Zenon DEF Ok, Err, Result, ResultOk

(* A result that sends messages in order and commits nothing. *)
LEMMA ResultIsOk ==
    ASSUME NEW M, NEW C, NEW n, NEW s, NEW out, NEW ok, NodeOk(M, C, n, s), JoinOk(s),
           \A m \in out : MessageOk(M, C, m)
    PROVE  ResultOk(M, C, n, Result(s, out, {}, ok))
<1>1. /\ Result(s, out, {}, ok).st = s /\ Result(s, out, {}, ok).out = out
      /\ Result(s, out, {}, ok).commits = {}
  BY Zenon DEF Result
<1> QED
  BY Zenon, <1>1 DEF ResultOk

(* A commit of this slot's proposal, with its certificate or because others have committed it. *)
LEMMA CommitAndAdvanceOk ==
    ASSUME NEW M, NEW C, NEW n \in Nodes, NEW s \in RoundStates, 
           NEW ticket \in CommitQCs \cup {ForcedCommitQc}, M \subseteq Messages,
           NodeOk(M, C, n, s), s.tag # "Joining",
           s.slot # 0, current_slot_prepare_is_present(s),
           ticket # ForcedCommitQc => ticket.chain = s.cp.chain,
           ticket = ForcedCommitQc => Done(C, s.cp.chain),
           CommitAndAdvance(n, s, ticket).commits \subseteq C
    PROVE  LET r == CommitAndAdvance(n, s, ticket)
           IN  ResultOk(M, C, n, r) /\ SlotAdvanced(M, C, n, s, r)
<1> DEFINE a == advance_round(n, s, ticket)
           e == CommitEvent(n, s, ticket = ForcedCommitQc)
           r == CommitAndAdvance(n, s, ticket)
<1>1. a \in Results /\ r \in Results
  BY Zenon, AdvanceRoundType, CommitAndAdvanceType DEF RoundTickets
<1>2. r.st = a.st /\ r.out = a.out /\ r.commits = {e}
  <2> HIDE DEF a, e
  <2>1. r = [a EXCEPT !.commits = {e}]
    BY Zenon DEF CommitAndAdvance, a, e
  <2> HIDE DEF r
  <2> QED
    BY Zenon, <1>1, <2>1 DEF Results
<1>3. /\ e.chain = s.cp.chain /\ e.parent = s.parent /\ e.forced = (ticket = ForcedCommitQc)
      /\ e \in C
  BY Zenon, <1>2 DEF CommitEvent
<1> HIDE DEF a, e, r
<1>4. Done(C, s.cp.chain)
  <2>1. CASE ticket = ForcedCommitQc
    BY Zenon, <2>1
  <2>2. CASE ticket # ForcedCommitQc
    BY Zenon, <1>3, <2>2 DEF Done
  <2> QED
    BY Zenon, <2>1, <2>2
<1>5. SlotAdvanced(M, C, n, s, a)
  BY Zenon, <1>4, NextSlotOk DEF a
<1>6. EventOk(M, C, e)
  <2>1. s.cp.chain \in Chains /\ Slot(s.cp.chain) = s.slot
    BY Zenon DEF RoundStates, Proposals, current_slot_prepare_is_present
  <2>2. s.cp.chain # Genesis
    BY Zenon, <2>1 DEF Slot, Genesis
  <2>3. Done(C, s.parent) /\ Known(M, s.cp.chain) /\ Parent(s.cp.chain) = s.parent
    BY Zenon DEF NodeOk, PlaceOk, ProposalOk
  <2> QED
    BY Zenon, <1>3, <1>4, <2>2, <2>3 DEF EventOk
<1> QED
  BY Zenon, <1>2, <1>5, <1>6 DEF SlotAdvanced, ResultOk, JoinOk, r

---------------------------------------------------------------------------
(* Timeouts. *)

(* What recording the certificate that a timeout shows leaves alone, and what it changes. *)
Recorded(s, t, tk) ==
    /\ t.slot = s.slot /\ t.view = s.view /\ t.parent = s.parent
    /\ t.tag = s.tag /\ t.step = s.step /\ t.bufqc = s.bufqc /\ t.pending = s.pending
    /\ t.prepares = s.prepares /\ t.forward = s.forward /\ t.requests = s.requests
    /\ t.pqc = s.pqc \/ tk.kind = "PrepareQC"
    /\ tk.kind = "PrepareQC" => SeenPrepareQC(t) /\ t.cp = tk.cp

(* A certificate for this slot is at least as high as the one recorded. *)
LEMMA RecordFields ==
    ASSUME NEW M, NEW C, NEW n, NEW s \in RoundStates, NEW tk \in TimeoutKinds,
           NodeOk(M, C, n, s)
    PROVE  LET t == RecordPrepareQC(s, s.slot, tk)
           IN  /\ Recorded(s, t, tk) /\ t \in RoundStates
               /\ tk.kind # "PrepareQC" => t = s
               /\ tk.kind = "PrepareQC" => t.pqc = [kind |-> "PrepareQC", slot |-> s.slot, qc |-> tk.qc]
<1> DEFINE t == RecordPrepareQC(s, s.slot, tk)
<1>1. s.slot \in Nat /\ t \in RoundStates
  BY Zenon, RecordType DEF RoundStates
<1>2. CASE tk.kind = "PrepareQC"
  <2> DEFINE q == [kind |-> "PrepareQC", slot |-> s.slot, qc |-> tk.qc]
             u == [s EXCEPT !.pqc = q]
  <2>1. IsHighest(s, s.slot)
    <3>1. s.pqc # None => s.pqc.slot <= s.slot
      BY Zenon DEF NodeOk, TimeoutsOk
    <3>2. s.pqc # None => s.pqc.slot \in Nat
      BY Zenon DEF RoundStates
    <3> QED
      BY Zenon, <1>1, <3>1, <3>2 DEF IsHighest
  <2>2. tk.qc \in Chains /\ tk.cp \in Proposals
    BY <1>2 DEF TimeoutKinds, NilProposal
  <2>3. t = [u EXCEPT !.cp = tk.cp]
    BY Zenon, <1>2, <2>1 DEF RecordPrepareQC, update_highest_seen_prepare_qc
  <2>4. q \in [kind : {"PrepareQC"}, slot : Nat, qc : Chains] /\ q.slot = s.slot /\ q # None
    BY Zenon, <1>1, <2>2 DEF None
  <2> HIDE DEF q
  <2>5. u \in RoundStates
    BY Zenon, <2>4 DEF RoundStates
  <2>6. /\ u.slot = s.slot /\ u.view = s.view /\ u.parent = s.parent
        /\ u.tag = s.tag /\ u.step = s.step /\ u.bufqc = s.bufqc /\ u.pending = s.pending
        /\ u.prepares = s.prepares /\ u.forward = s.forward /\ u.requests = s.requests
        /\ u.pqc = q
    BY Zenon, <2>4 DEF RoundStates
  <2> HIDE DEF u, t
  <2>7. /\ t.slot = s.slot /\ t.view = s.view /\ t.parent = s.parent
        /\ t.tag = s.tag /\ t.step = s.step /\ t.bufqc = s.bufqc /\ t.pending = s.pending
        /\ t.prepares = s.prepares /\ t.forward = s.forward /\ t.requests = s.requests
        /\ t.pqc = q /\ t.cp = tk.cp
    BY Zenon, <1>1, <2>2, <2>3, <2>5, <2>6 DEF RoundStates
  <2>8. SeenPrepareQC(t)
    BY Zenon, <2>4, <2>7 DEF SeenPrepareQC
  <2>9. Recorded(s, t, tk)
    BY Zenon, <1>2, <2>7, <2>8 DEF Recorded
  <2> QED
    BY Zenon, <1>1, <1>2, <2>7, <2>9 DEF t, q
<1>3. CASE tk.kind # "PrepareQC"
  <2>1. t = s
    BY Zenon, <1>3 DEF RecordPrepareQC
  <2> QED
    BY Zenon, <1>3, <2>1 DEF Recorded
<1> QED
  BY Zenon, <1>2, <1>3

(* Recording it keeps the state in order: its proposal is a child of the parent. *)
LEMMA RecordOk ==
    ASSUME NEW M, NEW C, NEW n \in Nodes, NEW s \in RoundStates, NEW tk \in TimeoutKinds,
           NodeOk(M, C, n, s), s.slot # 0, KindOk(M, s.slot, s.parent, tk),
           tk.kind = "PrepareQC" => Slot(tk.cp.chain) = s.slot /\ IsHashOf(tk.qc, tk.cp)
    PROVE  NodeOk(M, C, n, RecordPrepareQC(s, s.slot, tk))
<1> DEFINE t == RecordPrepareQC(s, s.slot, tk)
<1>1. CASE tk.kind # "PrepareQC"
  BY Zenon, <1>1, RecordFields
<1>2. CASE tk.kind = "PrepareQC"
  <2>1. /\ t.slot = s.slot /\ t.view = s.view /\ t.parent = s.parent
        /\ t.tag = s.tag /\ t.step = s.step /\ t.bufqc = s.bufqc /\ t.pending = s.pending
        /\ t.prepares = s.prepares /\ t.forward = s.forward /\ t.requests = s.requests
        /\ t.pqc = [kind |-> "PrepareQC", slot |-> s.slot, qc |-> tk.qc] /\ t.cp = tk.cp
        /\ SeenPrepareQC(t)
    BY <1>2, RecordFields DEF Recorded
  <2> HIDE DEF t
  <2>2. /\ Slot(tk.cp.chain) = s.slot /\ tk.qc = tk.cp.chain /\ ~tk.cp.taken
        /\ Parent(tk.cp.chain) = s.parent /\ Known(M, tk.qc) /\ Voted(M, tk.qc)
    BY Zenon, <1>2 DEF KindOk, IsHashOf
  <2>3. PlaceOk(C, n, t)
    BY Zenon, <2>1 DEF NodeOk, PlaceOk
  <2>4. ProposalOk(M, n, t)
    BY Zenon, <2>1, <2>2 DEF NodeOk, ProposalOk, Committed, current_slot_prepare_is_present
  <2>5. TicketsOk(M, n, t)
    BY Zenon, <2>1 DEF NodeOk, TicketsOk
  <2>6. TimeoutsOk(M, n, t)
    <3>1. s.slot \in Nat
      BY Zenon DEF RoundStates
    <3> QED
      BY <2>1, <2>2, <3>1 DEF NodeOk, TimeoutsOk
  <2>7. BuffersOk(M, t) /\ LeadsOk(M, n, t)
    BY Zenon, <2>1 DEF NodeOk, BuffersOk, LeadsOk, Led
  <2> QED
    BY Zenon, <2>3, <2>4, <2>5, <2>6, <2>7 DEF NodeOk, t
<1> QED
  BY Zenon, <1>1, <1>2

(* A timeout certificate that is valid here is for this slot and on the same parent. *)
Verified(s, v, qc, view) ==
    /\ v.out = {} /\ v.commits = {} /\ v.st \in RoundStates
    /\ ~v.ok => v.st = s
    /\ v.ok => /\ qc.slot = s.slot /\ qc.view = view /\ qc.parent = s.parent /\ qc.bonded
               /\ Recorded(s, v.st, qc.tk)

(* verify_tc, which records what the certificate shows. *)
LEMMA VerifyTcOk ==
    ASSUME NEW M, NEW C, NEW n \in Nodes, NEW s \in RoundStates, NEW qc \in TimeoutQCs, NEW view,
           NodeOk(M, C, n, s), TcOk(M, qc)
    PROVE  LET v == verify_tc(s, qc, s.slot, view)
           IN  Verified(s, v, qc, view) /\ NodeOk(M, C, n, v.st)
<1> DEFINE valid == /\ qc.slot = s.slot /\ qc.view = view /\ qc.parent = s.parent /\ qc.bonded
                    /\ qc.tk.kind = "PrepareQC" =>
                           Slot(qc.tk.cp.chain) = s.slot /\ IsHashOf(qc.tk.qc, qc.tk.cp)
           t == RecordPrepareQC(s, s.slot, qc.tk)
           v == verify_tc(s, qc, s.slot, view)
<1>1. qc.tk \in TimeoutKinds
  BY Zenon DEF TimeoutQCs
<1>2. CASE valid
  <2>1. v = Ok(t)
    BY Zenon, <1>2 DEF verify_tc
  <2>2. t \in RoundStates /\ Recorded(s, t, qc.tk)
    BY Zenon, <1>1, RecordFields
  <2>3. s.slot # 0 /\ KindOk(M, s.slot, s.parent, qc.tk)
    BY Zenon, <1>2 DEF TcOk
  <2>4. NodeOk(M, C, n, t)
    BY Zenon, <1>1, <1>2, <2>3, RecordOk
  <2> HIDE DEF t
  <2> QED
    BY <1>2, <2>1, <2>2, <2>4 DEF Ok, Result, Verified
<1>3. CASE ~valid
  <2>1. v = Err(s)
    BY Zenon, <1>3 DEF verify_tc
  <2> QED
    BY <2>1 DEF Err, Result, Verified
<1> QED
  BY Zenon, <1>2, <1>3

(* A timeout certificate from the network. *)
LEMMA OnTimeoutCertificateOk ==
    ASSUME NEW M, NEW C, NEW n \in Nodes, NEW s \in RoundStates, NEW qc \in TimeoutQCs,
           M \subseteq Messages, NodeOk(M, C, n, s), JoinOk(s), TcOk(M, qc)
    PROVE  ResultOk(M, C, n, on_timeout_certificate(n, s, qc))
<1> DEFINE v == verify_tc(s, qc, s.slot, s.view)
           leaves == v.st.tag = "Joining" /\ round_leader(s.slot, s.view + 1) # n
           w == IF leaves THEN [v.st EXCEPT !.tag = "Leader"] ELSE v.st
           r == on_timeout_certificate(n, s, qc)
<1>1. Verified(s, v, qc, s.view) /\ NodeOk(M, C, n, v.st)
  BY Zenon, VerifyTcOk
<1> HIDE DEF v
<1>2. CASE qc.slot # s.slot \/ qc.view # s.view
  BY Zenon, <1>2, OkOk DEF on_timeout_certificate
<1>3. CASE ~(qc.slot # s.slot \/ qc.view # s.view) /\ ~v.ok
  <2>1. r = v
    BY Zenon, <1>3 DEF on_timeout_certificate, v
  <2> QED
    BY Zenon, <1>1, <1>3, <2>1 DEF Verified, ResultOk
<1>4. CASE ~(qc.slot # s.slot \/ qc.view # s.view) /\ v.ok
  <2>1. r = advance_round(n, w, qc)
    BY Zenon, <1>4 DEF on_timeout_certificate, v
  <2>2. round_leader(s.slot, s.view + 1) \in Validators
    BY LeaderIsValidator DEF RoundStates
  <2>3. w.tag # "Joining"
    BY Zenon, <1>1, <2>2 DEF Verified, RoundStates, NodeOk, PlaceOk
  <2>4. /\ w \in RoundStates /\ w.slot = s.slot /\ w.view = s.view /\ w.parent = s.parent
        /\ NodeOk(M, C, n, w)
    <3>1. CASE ~leaves
      BY Zenon, <1>1, <1>4, <3>1 DEF Verified, Recorded
    <3>2. CASE leaves
      <4>1. w = [v.st EXCEPT !.tag = "Leader"]
        BY Zenon, <3>2
      <4> HIDE DEF w
      <4>2. w \in RoundStates
        BY <1>1, <4>1 DEF Verified, RoundStates
      <4>3. /\ w.slot = v.st.slot /\ w.view = v.st.view /\ w.parent = v.st.parent
            /\ w.cp = v.st.cp /\ w.pqc = v.st.pqc /\ w.step = v.st.step /\ w.bufqc = v.st.bufqc
            /\ w.pending = v.st.pending /\ w.prepares = v.st.prepares
            /\ w.forward = v.st.forward /\ w.requests = v.st.requests /\ w.tag # "Joining"
        BY Zenon, <1>1, <4>1, <4>2 DEF Verified, RoundStates
      <4>4. v.st.prepares \subseteq M /\ (v.st.forward = None \/ v.st.forward \in M)
        BY Zenon, <1>1 DEF NodeOk, BuffersOk
      <4>5. NodeOk(M, C, n, w)
        BY Zenon, <1>1, <4>3, <4>4, NodeShrinks
      <4> QED
        BY Zenon, <1>1, <1>4, <4>2, <4>3, <4>5 DEF Verified, Recorded
    <3> QED
      BY Zenon, <3>1, <3>2
  <2> HIDE DEF w
  <2>5. qc.slot = w.slot /\ qc.view = w.view /\ qc.parent = w.parent
    BY Zenon, <1>1, <1>4, <2>4 DEF Verified
  <2>6. ViewAdvanced(M, C, n, w, r)
    BY Zenon, <2>1, <2>3, <2>4, <2>5, NextViewOk
  <2> QED
    BY Zenon, <2>6 DEF ViewAdvanced, ResultOk, JoinOk
<1> QED
  BY Zenon, <1>2, <1>3, <1>4

(* What a node says in a timeout, of the certificate it has seen and its current proposal. *)
LEMMA TimeoutKindOk ==
    ASSUME NEW M, NEW C, NEW n, NEW s \in RoundStates, NodeOk(M, C, n, s),
           NEW tk, tk = IF SeenPrepareQC(s) THEN PrepareQC(s.pqc.qc, s.cp) ELSE NilProposal
    PROVE  /\ KindOk(M, s.slot, s.parent, tk)
           /\ tk # NilProposal <=> SeenPrepareQC(s)
<1>1. CASE ~SeenPrepareQC(s)
  BY Zenon, <1>1 DEF KindOk, NilProposal
<1>2. CASE SeenPrepareQC(s)
  <2>1. tk.kind = "PrepareQC" /\ tk.qc = s.pqc.qc /\ tk.cp = s.cp /\ tk # NilProposal
    BY Zenon, <1>2 DEF PrepareQC, NilProposal
  <2>2. ASSUME Slot(s.cp.chain) = s.slot, IsHashOf(s.pqc.qc, s.cp)
        PROVE  Parent(s.cp.chain) = s.parent /\ Known(M, s.pqc.qc) /\ Voted(M, s.pqc.qc)
    <3>1. s.pqc.qc = s.cp.chain /\ ~s.cp.taken
      BY Zenon, <2>2 DEF IsHashOf
    <3>2. s.slot # 0
      <4>1. Slot(s.parent) \in Nat
        BY DEF RoundStates, Chains, Slot
      <4> QED
        BY <3>1, <4>1 DEF NodeOk, PlaceOk
    <3> QED
      BY Zenon, <1>2, <2>2, <3>1, <3>2
         DEF NodeOk, ProposalOk, Committed, TimeoutsOk, SeenPrepareQC, current_slot_prepare_is_present
  <2> QED
    BY Zenon, <1>2, <2>1, <2>2 DEF KindOk
<1> QED
  BY Zenon, <1>1, <1>2

(* The timeout that a node sends about its state. *)
LEMMA TimeoutMessageOk ==
    ASSUME NEW M, NEW C, NEW n \in Nodes, NEW s \in RoundStates, NodeOk(M, C, n, s)
    PROVE  LET m == get_timeout_message(n, s)
           IN  /\ m.type = "Timeout" /\ m.from = n
               /\ m.slot = s.slot /\ m.view = s.view /\ m.parent = s.parent
               /\ m.tk \in TimeoutKinds /\ (m.tk # NilProposal <=> SeenPrepareQC(s))
               /\ KindOk(M, m.slot, m.parent, m.tk) /\ MessageOk(M, C, m)
<1> DEFINE tk == IF SeenPrepareQC(s) THEN PrepareQC(s.pqc.qc, s.cp) ELSE NilProposal
           m == get_timeout_message(n, s)
<1>1. KindOk(M, s.slot, s.parent, tk) /\ (tk # NilProposal <=> SeenPrepareQC(s))
  BY Zenon, TimeoutKindOk
<1>2. tk \in TimeoutKinds
  BY Zenon, TimeoutKindType
<1> HIDE DEF tk
<1>3. /\ m.type = "Timeout" /\ m.from = n /\ m.slot = s.slot /\ m.view = s.view
      /\ m.parent = s.parent /\ m.tk = tk
  BY Zenon DEF get_timeout_message, Timeout, tk
<1> HIDE DEF m
<1>4. MessageOk(M, C, m)
  BY Zenon, <1>1, <1>3 DEF MessageOk
<1> QED
  BY Zenon, <1>1, <1>2, <1>3, <1>4 DEF m

(* A certificate is made of timeouts that were sent; all of them show nothing if it does. *)
LEMMA EmitCertificateOk ==
    ASSUME NEW M, NEW C, NEW n \in Validators, NEW s \in RoundStates, M \subseteq Messages,
           NodeOk(M, C, n, s), IsQuorum({r.from : r \in s.requests})
    PROVE  /\ ResultOk(M, C, n, EmitCertificate(n, s))
           /\ EmitCertificate(n, s).ok
<1> DEFINE tk == IF SeenPrepareQC(s) THEN PrepareQC(s.pqc.qc, s.cp) ELSE NilProposal
           from == {r.from : r \in s.requests}
           qc == TimeoutQC(s.slot, s.view, s.parent, tk, from \subseteq Validators)
           leads == round_leader(s.slot, s.view + 1) = n
           tag == IF s.tag = "Joining" THEN "Leader" ELSE s.tag
           ready == IF leads
                    THEN [s EXCEPT !.timer = "Scheduled", !.tag = tag]
                    ELSE [s EXCEPT !.timer = "CertificateEmitted"]
           out == IF leads THEN {} ELSE {TimeoutCertificate(n, qc)}
           a == advance_round(n, ready, qc)
<1>1. n \in Nodes /\ s.slot # 0 /\ s.tag # "Joining"
  <2>1. s.slot > Slot(Prefix) /\ s.tag # "Joining"
    BY Zenon DEF NodeOk, PlaceOk
  <2>2. Slot(Prefix) \in Nat /\ s.slot \in Nat
    BY CutsAssumption DEF Slot, RoundStates
  <2> QED
    BY <2>1, <2>2, ValidatorsAreNodes
<1>2. tk \in TimeoutKinds /\ KindOk(M, s.slot, s.parent, tk) /\ (tk # NilProposal <=> SeenPrepareQC(s))
  BY Zenon, <1>1, TimeoutKindType, TimeoutKindOk
<1> HIDE DEF tk
<1>3. /\ qc \in TimeoutQCs /\ qc \in RoundTickets /\ qc.slot = s.slot /\ qc.view = s.view
      /\ qc.parent = s.parent /\ qc.tk = tk /\ (qc.bonded => from \subseteq Validators)
  BY Zenon, <1>2 DEF TimeoutQC, TimeoutQCs, RoundTickets, RoundStates
<1>4. TcOk(M, qc)
  <2>1. ASSUME tk = NilProposal, qc.bonded PROVE NilQuorum(M, s.slot, s.view)
    <3>1. from \in SUBSET Validators
      BY Zenon, <1>3, <2>1
    <3>2. \A v \in from : TimedOut(M, v, s.slot, s.view, NilProposal)
      BY Zenon, <1>2, <2>1 DEF NodeOk, TimeoutsOk
    <3> QED
      BY Zenon, <3>1, <3>2 DEF NilQuorum
  <2> QED
    BY Zenon, <1>1, <1>2, <1>3, <2>1 DEF TcOk
<1>5. tag = s.tag
  BY Zenon, <1>1
<1> HIDE DEF qc, tag, leads
<1>6. /\ ready \in RoundStates /\ ready.slot = s.slot /\ ready.view = s.view
      /\ ready.parent = s.parent /\ ready.tag = s.tag /\ ready.cp = s.cp /\ ready.pqc = s.pqc
      /\ ready.step = s.step /\ ready.bufqc = s.bufqc /\ ready.pending = s.pending
      /\ ready.prepares = s.prepares /\ ready.forward = s.forward /\ ready.requests = s.requests
  <2>1. CASE leads
    BY Zenon, <1>5, <2>1 DEF RoundStates
  <2>2. CASE ~leads
    BY Zenon, <2>2 DEF RoundStates
  <2> QED
    BY Zenon, <2>1, <2>2
<1> HIDE DEF ready
<1>7. s.prepares \subseteq M /\ (s.forward = None \/ s.forward \in M)
  BY Zenon DEF NodeOk, BuffersOk
<1>8. NodeOk(M, C, n, ready)
  BY Zenon, <1>6, <1>7, NodeShrinks
<1>9. a \in Results /\ ViewAdvanced(M, C, n, ready, a)
  <2>1. qc.slot = ready.slot /\ qc.view = ready.view /\ qc.parent = ready.parent
    BY Zenon, <1>3, <1>6
  <2>2. ready.tag # "Joining"
    BY Zenon, <1>1, <1>6
  <2>3. ViewAdvanced(M, C, n, ready, a)
    BY Zenon, <1>1, <1>3, <1>4, <1>6, <1>8, <2>1, <2>2, NextViewOk
  <2> QED
    BY Zenon, <1>1, <1>3, <1>6, <2>3, AdvanceRoundType
<1>10. \A m \in out : MessageOk(M, C, m)
  BY <1>4 DEF TimeoutCertificate, MessageOk
<1>11. EmitCertificate(n, s) = [a EXCEPT !.out = out]
  BY Zenon DEF EmitCertificate, tk, qc, leads, ready, tag
<1> HIDE DEF a, out
<1> QED
  BY Zenon, <1>9, <1>10, <1>11 DEF Results, ViewAdvanced, ResultOk, JoinOk

(* A timeout is counted once it was sent, with the certificate it shows recorded. *)
LEMMA AddRequestOk ==
    ASSUME NEW M, NEW C, NEW n, NEW s \in RoundStates, NEW t \in RoundStates, NEW v, NEW tk,
           NodeOk(M, C, n, s), t.slot = s.slot, t.view = s.view, t.parent = s.parent,
           t.cp = s.cp, t.pqc = s.pqc, t.tag = s.tag, t.step = s.step, t.bufqc = s.bufqc,
           t.pending = s.pending, t.prepares = s.prepares, t.forward = s.forward,
           t.requests = s.requests \cup {[from |-> v, tk |-> tk]},
           TimedOut(M, v, s.slot, s.view, tk), tk # NilProposal => SeenPrepareQC(s)
    PROVE  NodeOk(M, C, n, t)
<1>1. PlaceOk(C, n, t)
  BY Zenon DEF NodeOk, PlaceOk
<1>2. ProposalOk(M, n, t)
  BY Zenon DEF NodeOk, ProposalOk, Committed, current_slot_prepare_is_present
<1>3. TicketsOk(M, n, t)
  BY Zenon DEF NodeOk, TicketsOk
<1>4. TimeoutsOk(M, n, t)
  <2>1. SeenPrepareQC(t) <=> SeenPrepareQC(s)
    BY Zenon DEF SeenPrepareQC
  <2> QED
    BY <2>1 DEF NodeOk, TimeoutsOk
<1>5. BuffersOk(M, t) /\ LeadsOk(M, n, t)
  BY Zenon DEF NodeOk, BuffersOk, LeadsOk, Led
<1> QED
  BY Zenon, <1>1, <1>2, <1>3, <1>4, <1>5 DEF NodeOk

(* Counting the timeouts received, with its own when it joins them. *)
LEMMA CountTimeoutsOk ==
    ASSUME NEW M, NEW C, NEW n \in Validators, NEW s \in RoundStates, M \subseteq Messages,
           NodeOk(M, C, n, s), CountTimeouts(n, s).out \subseteq M
    PROVE  ResultOk(M, C, n, CountTimeouts(n, s))
<1> DEFINE from == {r.from : r \in s.requests}
           own == get_timeout_message(n, s)
           joins == IsMutiny(from) /\ n \notin from
           t == IF joins
                THEN [s EXCEPT !.requests = @ \cup {[from |-> n, tk |-> own.tk]},
                               !.timer = "Scheduled"]
                ELSE s
           sent == IF joins THEN {own} ELSE {}
           r == CountTimeouts(n, s)
           e == EmitCertificate(n, t)
<1>1. n \in Nodes /\ s.tag # "Joining"
  BY Zenon, ValidatorsAreNodes DEF NodeOk, PlaceOk
<1>2. /\ own.type = "Timeout" /\ own.from = n /\ own.slot = s.slot /\ own.view = s.view
      /\ own.tk \in TimeoutKinds /\ (own.tk # NilProposal => SeenPrepareQC(s))
      /\ MessageOk(M, C, own)
  BY Zenon, <1>1, TimeoutMessageOk
<1> HIDE DEF own
<1>3. t \in RoundStates
  BY Zenon, <1>1, <1>2, AddRequestType
<1> HIDE DEF t, sent
<1>4. e \in Results
  BY Zenon, <1>1, <1>3, EmitCertificateType
<1> HIDE DEF e
<1>5. \/ r = Result(t, sent, {}, TRUE) \/ r = Result(t, sent, {}, FALSE)
      \/ r = [e EXCEPT !.out = @ \cup sent] /\ IsQuorum({q.from : q \in t.requests})
  BY Zenon DEF CountTimeouts, own, joins, t, sent, e
<1>6. sent \subseteq M
  BY <1>4, <1>5 DEF Result, Results
<1>7. \A m \in sent : MessageOk(M, C, m)
  BY Zenon, <1>2 DEF sent
<1>8. NodeOk(M, C, n, t) /\ t.tag # "Joining"
  <2>1. CASE ~joins
    BY Zenon, <1>1, <2>1 DEF t
  <2>2. CASE joins
    <3>1. own \in M
      BY Zenon, <1>6, <2>2 DEF sent
    <3>2. TimedOut(M, n, s.slot, s.view, own.tk)
      BY Zenon, <1>2, <3>1 DEF TimedOut
    <3>3. t = [s EXCEPT !.requests = s.requests \cup {[from |-> n, tk |-> own.tk]}, !.timer = "Scheduled"]
      BY Zenon, <2>2 DEF t
    <3>4. /\ t.slot = s.slot /\ t.view = s.view /\ t.parent = s.parent
          /\ t.cp = s.cp /\ t.pqc = s.pqc /\ t.tag = s.tag /\ t.step = s.step
          /\ t.bufqc = s.bufqc /\ t.pending = s.pending
          /\ t.prepares = s.prepares /\ t.forward = s.forward
          /\ t.requests = s.requests \cup {[from |-> n, tk |-> own.tk]}
      BY <1>3, <3>3 DEF RoundStates
    <3>5. NodeOk(M, C, n, t)
      BY Zenon, <1>2, <1>3, <3>2, <3>4, AddRequestOk
    <3> QED
      BY Zenon, <1>1, <3>4, <3>5
  <2> QED
    BY Zenon, <2>1, <2>2
<1>9. CASE r = Result(t, sent, {}, TRUE) \/ r = Result(t, sent, {}, FALSE)
  BY <1>7, <1>8, <1>9 DEF Result, ResultOk, JoinOk
<1>10. CASE r = [e EXCEPT !.out = @ \cup sent] /\ IsQuorum({q.from : q \in t.requests})
  <2>1. ResultOk(M, C, n, e)
    BY Zenon, <1>3, <1>8, <1>10, EmitCertificateOk DEF e
  <2> QED
    BY Zenon, <1>4, <1>7, <1>10, <2>1 DEF Results, ResultOk
<1> QED
  BY Zenon, <1>5, <1>9, <1>10

(* Counting does not fail: what a timeout shows was recorded before it is counted. *)
LEMMA CountTimeoutsGoesThrough ==
    ASSUME NEW n \in Validators, NEW s \in RoundStates, s.tag # "Joining",
           \A r \in s.requests : r.tk # NilProposal => SeenPrepareQC(s)
    PROVE  CountTimeouts(n, s).ok
<1> DEFINE from == {r.from : r \in s.requests}
           own == get_timeout_message(n, s)
           joins == IsMutiny(from) /\ n \notin from
           t == IF joins
                THEN [s EXCEPT !.requests = @ \cup {[from |-> n, tk |-> own.tk]},
                               !.timer = "Scheduled"]
                ELSE s
           sent == IF joins THEN {own} ELSE {}
           e == EmitCertificate(n, t)
<1>1. n \in Nodes
  BY Zenon, ValidatorsAreNodes
<1>2. own.tk \in TimeoutKinds /\ (own.tk # NilProposal => SeenPrepareQC(s))
  BY Zenon, <1>1, TimeoutMessageType DEF get_timeout_message, Timeout, PrepareQC, NilProposal
<1> HIDE DEF own
<1>3. t \in RoundStates
  BY Zenon, <1>1, <1>2, AddRequestType
<1>4. /\ t.tag = s.tag /\ (SeenPrepareQC(t) <=> SeenPrepareQC(s))
      /\ t.requests \subseteq s.requests \cup {[from |-> n, tk |-> own.tk]}
  <2>1. CASE ~joins
    BY Zenon, <2>1
  <2>2. CASE joins
    <3>1. t = [s EXCEPT !.requests = s.requests \cup {[from |-> n, tk |-> own.tk]}, !.timer = "Scheduled"]
      BY Zenon, <2>2
    <3> HIDE DEF t
    <3>2. /\ t.tag = s.tag /\ t.pqc = s.pqc /\ t.slot = s.slot
          /\ t.requests = s.requests \cup {[from |-> n, tk |-> own.tk]}
      BY Zenon, <1>3, <3>1 DEF RoundStates
    <3> QED
      BY Zenon, <3>2 DEF SeenPrepareQC
  <2> QED
    BY Zenon, <2>1, <2>2
<1> HIDE DEF t, sent
<1>5. e \in Results /\ e.ok
  <2> DEFINE tk == IF SeenPrepareQC(t) THEN PrepareQC(t.pqc.qc, t.cp) ELSE NilProposal
             qc == TimeoutQC(t.slot, t.view, t.parent, tk,
                             {r.from : r \in t.requests} \subseteq Validators)
             leads == round_leader(t.slot, t.view + 1) = n
             tag == IF t.tag = "Joining" THEN "Leader" ELSE t.tag
             ready == IF leads
                      THEN [t EXCEPT !.timer = "Scheduled", !.tag = tag]
                      ELSE [t EXCEPT !.timer = "CertificateEmitted"]
             out == IF leads THEN {} ELSE {TimeoutCertificate(n, qc)}
             a == advance_round(n, ready, qc)
  <2>1. tk \in TimeoutKinds
    BY Zenon, <1>3, TimeoutKindType
  <2> HIDE DEF tk
  <2>2. qc \in TimeoutQCs /\ qc \in RoundTickets
    BY Zenon, <1>3, <2>1 DEF TimeoutQC, TimeoutQCs, RoundTickets, RoundStates
  <2>3. tag = t.tag
    BY Zenon, <1>4
  <2> HIDE DEF qc, tag, leads
  <2>4. ready \in RoundStates /\ ready.tag = t.tag
    <3>1. CASE leads
      <4>1. ready = [t EXCEPT !.timer = "Scheduled", !.tag = tag]
        BY Zenon, <3>1
      <4>2. tag \in {"Joining", "Leader", "Follower"}
        BY Zenon, <1>3, <2>3 DEF RoundStates
      <4> HIDE DEF ready
      <4>3. ready \in RoundStates
        BY Zenon, <1>3, <4>1, <4>2 DEF RoundStates
      <4> QED
        BY Zenon, <1>3, <2>3, <4>1, <4>2, <4>3 DEF RoundStates
    <3>2. CASE ~leads
      BY Zenon, <1>3, <3>2 DEF RoundStates
    <3> QED
      BY Zenon, <3>1, <3>2
  <2> HIDE DEF ready
  <2>5. a \in Results /\ a.ok
    BY Zenon, <1>1, <1>4, <2>2, <2>4, AdvanceRoundType, NextViewFields
  <2>6. e = [a EXCEPT !.out = out]
    BY Zenon DEF EmitCertificate, e, tk, qc, leads, ready, tag
  <2>7. e \in Results
    BY Zenon, <1>1, <1>3, EmitCertificateType
  <2> HIDE DEF a, out, e
  <2> QED
    BY Zenon, <2>5, <2>6, <2>7 DEF Results
<1> HIDE DEF e
<1>6. ~(~SeenPrepareQC(t) /\ \E r \in t.requests : r.tk # NilProposal)
  BY <1>2, <1>4
<1>7. \/ CountTimeouts(n, s) = Result(t, sent, {}, TRUE)
      \/ CountTimeouts(n, s) = [e EXCEPT !.out = @ \cup sent]
  BY Zenon, <1>6 DEF CountTimeouts, own, joins, t, sent, e
<1> QED
  BY <1>5, <1>7 DEF Result, Results

(* A timeout from the network, or its own. *)
LEMMA OnTimeoutOk ==
    ASSUME NEW M, NEW C, NEW n \in Nodes, NEW s \in RoundStates, NEW m,
           M \subseteq Messages, NodeOk(M, C, n, s), JoinOk(s),
           m.from \in Nodes, m.tk \in TimeoutKinds, KindOk(M, m.slot, m.parent, m.tk),
           TimedOut(M, m.from, m.slot, m.view, m.tk), on_timeout(n, s, m).out \subseteq M
    PROVE  ResultOk(M, C, n, on_timeout(n, s, m))
<1> DEFINE request == [from |-> m.from, tk |-> m.tk]
           t == RecordPrepareQC(s, s.slot, m.tk)
           u == [t EXCEPT !.requests = t.requests \cup {request}]
           r == on_timeout(n, s, m)
<1>1. CASE \/ n \notin Validators \/ m.parent # s.parent \/ m.slot # s.slot \/ m.view # s.view
           \/ m.tk.kind = "PrepareQC" /\ ~(Slot(m.tk.cp.chain) = m.slot /\ IsHashOf(m.tk.qc, m.tk.cp))
  <2>1. r = Ok(s) \/ r = Err(s)
    BY Zenon, <1>1 DEF on_timeout
  <2> QED
    BY Zenon, <2>1, OkOk
<1>2. CASE /\ n \in Validators /\ m.parent = s.parent /\ m.slot = s.slot /\ m.view = s.view
           /\ m.tk.kind = "PrepareQC" => Slot(m.tk.cp.chain) = m.slot /\ IsHashOf(m.tk.qc, m.tk.cp)
  <2>1. s.slot # 0 /\ s.tag # "Joining"
    <3>1. s.slot > Slot(Prefix) /\ s.tag # "Joining"
      BY Zenon, <1>2 DEF NodeOk, PlaceOk
    <3>2. Slot(Prefix) \in Nat /\ s.slot \in Nat
      BY CutsAssumption DEF Slot, RoundStates
    <3> QED
      BY <3>1, <3>2
  <2>2. /\ t \in RoundStates /\ NodeOk(M, C, n, t)
        /\ t.slot = s.slot /\ t.view = s.view /\ t.tag = s.tag
        /\ m.tk.kind = "PrepareQC" => SeenPrepareQC(t)
    <3>1. t \in RoundStates /\ Recorded(s, t, m.tk)
      BY Zenon, RecordFields
    <3>2. NodeOk(M, C, n, t)
      BY Zenon, <1>2, <2>1, RecordOk
    <3> QED
      BY Zenon, <3>1, <3>2 DEF Recorded
  <2>3. r = Ok(t) \/ r = CountTimeouts(n, u)
    BY Zenon, <1>2 DEF on_timeout
  <2> HIDE DEF t
  <2>4. CASE r = Ok(t)
    <3>1. JoinOk(t)
      BY Zenon, <2>1, <2>2 DEF JoinOk
    <3> QED
      BY Zenon, <2>2, <2>4, <3>1, OkOk
  <2>5. CASE r = CountTimeouts(n, u)
    <3>1. u \in RoundStates
      BY Zenon, <2>2, AddRequestType
    <3>2. /\ u.slot = t.slot /\ u.view = t.view /\ u.parent = t.parent
          /\ u.cp = t.cp /\ u.pqc = t.pqc /\ u.tag = t.tag /\ u.step = t.step
          /\ u.bufqc = t.bufqc /\ u.pending = t.pending
          /\ u.prepares = t.prepares /\ u.forward = t.forward
          /\ u.requests = t.requests \cup {[from |-> m.from, tk |-> m.tk]}
      BY Zenon, <2>2 DEF RoundStates
    <3> HIDE DEF u
    <3>3. m.tk # NilProposal => SeenPrepareQC(t)
      BY Zenon, <2>2 DEF TimeoutKinds
    <3>4. TimedOut(M, m.from, t.slot, t.view, m.tk)
      BY Zenon, <1>2, <2>2
    <3>5. NodeOk(M, C, n, u)
      BY Zenon, <2>2, <3>1, <3>2, <3>3, <3>4, AddRequestOk
    <3>6. CountTimeouts(n, u).out \subseteq M
      BY Zenon, <2>5
    <3> QED
      BY Zenon, <1>2, <2>5, <3>1, <3>5, <3>6, CountTimeoutsOk
  <2> QED
    BY Zenon, <2>3, <2>4, <2>5
<1> QED
  BY Zenon, <1>1, <1>2

(* A timeout that is refused changes nothing. *)
LEMMA OnTimeoutRefused ==
    ASSUME NEW M, NEW C, NEW n \in Nodes, NEW s \in RoundStates, NEW m,
           NodeOk(M, C, n, s), m.from \in Nodes, m.tk \in TimeoutKinds,
           ~on_timeout(n, s, m).ok
    PROVE  on_timeout(n, s, m) = Err(s)
<1> DEFINE request == [from |-> m.from, tk |-> m.tk]
           t == RecordPrepareQC(s, s.slot, m.tk)
           u == [t EXCEPT !.requests = t.requests \cup {request}]
           r == on_timeout(n, s, m)
<1> SUFFICES ASSUME r # Err(s) PROVE FALSE
  BY Zenon
<1>1. Ok(s).ok /\ Ok(t).ok
  BY Zenon DEF Ok, Result
<1>2. n \in Validators /\ r = CountTimeouts(n, u)
  BY Zenon, <1>1 DEF on_timeout
<1>3. t \in RoundStates /\ Recorded(s, t, m.tk) /\ (m.tk.kind # "PrepareQC" => t = s)
  BY Zenon, RecordFields
<1> HIDE DEF t
<1>4. u \in RoundStates
  BY Zenon, <1>3, AddRequestType
<1>5. /\ u.pqc = t.pqc /\ u.slot = t.slot /\ u.tag = t.tag
      /\ u.requests = t.requests \cup {request}
  BY Zenon, <1>3 DEF RoundStates
<1> HIDE DEF u
<1>6. u.tag # "Joining"
  BY Zenon, <1>2, <1>3, <1>5 DEF Recorded, NodeOk, PlaceOk
<1>7. SeenPrepareQC(u) <=> SeenPrepareQC(t)
  BY Zenon, <1>5 DEF SeenPrepareQC
<1>8. ASSUME NEW q \in u.requests, q.tk # NilProposal PROVE SeenPrepareQC(u)
  <2>1. CASE m.tk.kind = "PrepareQC"
    BY Zenon, <1>3, <1>7, <2>1 DEF Recorded
  <2>2. CASE m.tk.kind # "PrepareQC"
    <3>1. m.tk = NilProposal
      BY Zenon, <2>2 DEF TimeoutKinds
    <3>2. q \in s.requests
      BY <1>3, <1>5, <1>8, <2>2, <3>1
    <3>3. SeenPrepareQC(s)
      BY Zenon, <1>8, <3>2 DEF NodeOk, TimeoutsOk
    <3> QED
      BY Zenon, <1>3, <1>7, <2>2, <3>3
  <2> QED
    BY Zenon, <2>1, <2>2
<1>9. CountTimeouts(n, u).ok
  BY Zenon, <1>2, <1>4, <1>6, <1>8, CountTimeoutsGoesThrough
<1> QED
  BY Zenon, <1>2, <1>9

(* The timer of the round expires. *)
LEMMA OnTimeoutTickOk ==
    ASSUME NEW M, NEW C, NEW n \in Nodes, NEW s \in RoundStates,
           M \subseteq Messages, NodeOk(M, C, n, s), JoinOk(s),
           on_timeout_tick(n, s).out \subseteq M
    PROVE  ResultOk(M, C, n, on_timeout_tick(n, s))
<1> DEFINE m == get_timeout_message(n, s)
           r == on_timeout(n, s, m)
           k == on_timeout_tick(n, s)
           t == [r.st EXCEPT !.timer = "Scheduled"]
<1>1. /\ m.type = "Timeout" /\ m.from = n
      /\ m.slot = s.slot /\ m.view = s.view /\ m.parent = s.parent
      /\ m.tk \in TimeoutKinds /\ KindOk(M, m.slot, m.parent, m.tk) /\ MessageOk(M, C, m)
  BY TimeoutMessageOk
<1> HIDE DEF m
<1>2. r \in Results
  <2>1. m.slot \in Nat
    BY Zenon, <1>1 DEF RoundStates
  <2> QED
    BY Zenon, <1>1, <2>1, OnTimeoutType
<1>3. CASE ~r.ok
  <2>1. r = Err(s)
    BY Zenon, <1>1, <1>3, OnTimeoutRefused
  <2>2. k = r
    BY Zenon, <1>3 DEF on_timeout_tick, m
  <2> QED
    BY Zenon, <2>1, <2>2, OkOk
<1>4. CASE r.ok
  <2>1. k = [r EXCEPT !.st.timer = "Scheduled", !.out = @ \cup {m}]
    BY Zenon, <1>4 DEF on_timeout_tick, m
  <2> HIDE DEF r
  <2>2. /\ k.st = t /\ k.out = r.out \cup {m} /\ k.commits = r.commits
    <3> HIDE DEF k
    <3> QED
      BY Zenon, <1>2, <2>1 DEF Results
  <2>3. m \in M /\ r.out \subseteq M
    BY Zenon, <2>2
  <2>4. TimedOut(M, m.from, m.slot, m.view, m.tk)
    BY Zenon, <1>1, <2>3 DEF TimedOut
  <2>5. ResultOk(M, C, n, r)
    BY Zenon, <1>1, <2>3, <2>4, OnTimeoutOk DEF r
  <2>6. NodeOk(M, C, n, t) /\ JoinOk(t)
    <3>1. /\ t.slot = r.st.slot /\ t.view = r.st.view /\ t.parent = r.st.parent
          /\ t.cp = r.st.cp /\ t.pqc = r.st.pqc /\ t.step = r.st.step /\ t.bufqc = r.st.bufqc
          /\ t.pending = r.st.pending /\ t.prepares = r.st.prepares /\ t.synced = r.st.synced
          /\ t.forward = r.st.forward /\ t.requests = r.st.requests /\ t.tag = r.st.tag
      BY Zenon, <1>2 DEF Results, RoundStates
    <3> HIDE DEF t
    <3>2. r.st.prepares \subseteq M /\ (r.st.forward = None \/ r.st.forward \in M)
      BY Zenon, <2>5 DEF ResultOk, NodeOk, BuffersOk
    <3>3. NodeOk(M, C, n, t)
      BY Zenon, <2>5, <3>1, <3>2, NodeShrinks DEF ResultOk
    <3> QED
      BY Zenon, <2>5, <3>1, <3>3 DEF ResultOk, JoinOk
  <2> QED
    BY Zenon, <1>1, <2>2, <2>5, <2>6 DEF ResultOk
<1> QED
  BY Zenon, <1>3, <1>4

---------------------------------------------------------------------------
(* Prepares. *)

(* What makes a timeout ticket acceptable: its signers are bonded, and a proposal that it *)
(* shows is the one prepared again.                                                       *)
TicketAccepted(p) ==
    p.ticket.kind = "TimeoutQC" =>
        /\ p.ticket.bonded
        /\ p.ticket.tk.kind = "PrepareQC" =>
                /\ p.ticket.tk.cp = Proposal(p.chain) /\ IsHashOf(p.ticket.tk.qc, p.ticket.tk.cp)
                /\ Slot(p.chain) = p.ticket.slot

(* A ticket that goes through leads to a round on the parent of the prepare. *)
Processed(M, C, n, p, r) ==
    /\ ResultOk(M, C, n, r) /\ r.out = {} /\ r.st.tag # "Joining"
    /\ r.ok /\ Slot(p.chain) = r.st.slot => r.st.parent = Parent(p.chain) /\ TicketAccepted(p)

(* A node that stops there. *)
LEMMA ErrProcessed ==
    ASSUME NEW M, NEW C, NEW n, NEW s, NEW p, NodeOk(M, C, n, s), s.tag # "Joining"
    PROVE  Processed(M, C, n, p, Err(s))
<1>1. Err(s).st = s /\ Err(s).out = {} /\ ~Err(s).ok
  BY Zenon DEF Err, Result
<1>2. ResultOk(M, C, n, Err(s))
  <2>1. JoinOk(s)
    BY Zenon DEF JoinOk
  <2> QED
    BY Zenon, <2>1, OkOk
<1> QED
  BY Zenon, <1>1, <1>2 DEF Processed

(* A ticket that changes nothing, when the node is on the parent of the proposal. *)
LEMMA OkProcessed ==
    ASSUME NEW M, NEW C, NEW n, NEW s, NEW p, NodeOk(M, C, n, s), s.tag # "Joining",
           Slot(p.chain) = s.slot => s.parent = Parent(p.chain), TicketAccepted(p)
    PROVE  Processed(M, C, n, p, Ok(s))
<1>1. Ok(s).st = s /\ Ok(s).out = {}
  BY Zenon DEF Ok, Result
<1>2. ResultOk(M, C, n, Ok(s))
  <2>1. JoinOk(s)
    BY Zenon DEF JoinOk
  <2> QED
    BY Zenon, <2>1, OkOk
<1> QED
  BY Zenon, <1>1, <1>2 DEF Processed

(* A prepare with a commit certificate: the node commits what it has, if it is that one. *)
LEMMA CommitTicketOk ==
    ASSUME NEW M, NEW C, NEW n \in Nodes, NEW s \in RoundStates, NEW p \in Prepares,
           p.ticket \in CommitQCs, M \subseteq Messages, NodeOk(M, C, n, s), s.tag # "Joining",
           PrepareOk(M, C, p), verify_and_process_commit_ticket(n, s, p).commits \subseteq C
    PROVE  Processed(M, C, n, p, verify_and_process_commit_ticket(n, s, p))
<1> DEFINE r == verify_and_process_commit_ticket(n, s, p)
<1>1. p.ticket.kind = "CommitQC" /\ p.ticket # None /\ p.ticket # ForcedCommitQc
  BY DEF CommitQCs, None, ForcedCommitQc
<1>2. p.ticket.chain = Parent(p.chain) /\ TicketAccepted(p)
  BY Zenon, <1>1 DEF PrepareOk, TicketFor, TicketAccepted
<1>3. CASE r = Err(s)
  BY Zenon, <1>3, ErrProcessed
<1>4. CASE r = Ok(s) /\ s.parent = p.ticket.chain
  BY Zenon, <1>2, <1>4, OkProcessed
<1>5. CASE /\ r = CommitAndAdvance(n, s, p.ticket)
           /\ current_slot_prepare_is_present(s) /\ IsHashOf(p.ticket.chain, s.cp)
  <2>1. p.ticket.chain = s.cp.chain /\ ~s.cp.taken
    BY Zenon, <1>5 DEF IsHashOf
  <2>2. s.slot # 0
    <3>1. Slot(s.parent) \in Nat
      BY DEF RoundStates, Chains, Slot
    <3>2. s.slot = Slot(s.parent) + 1
      BY Zenon, <2>1 DEF NodeOk, PlaceOk
    <3> QED
      BY <3>1, <3>2
  <2>3. CommitAndAdvance(n, s, p.ticket).commits \subseteq C
    BY Zenon, <1>5
  <2>4. ResultOk(M, C, n, r) /\ SlotAdvanced(M, C, n, s, r)
    BY Zenon, <1>1, <1>5, <2>1, <2>2, <2>3, CommitAndAdvanceOk
  <2> HIDE DEF r
  <2> QED
    BY Zenon, <1>2, <2>1, <2>4 DEF Processed, SlotAdvanced, r
<1>6. s.bufqc = p.ticket => s.parent = p.ticket.chain
  BY Zenon, <1>1 DEF NodeOk, TicketsOk
<1> QED
  BY Zenon, <1>3, <1>4, <1>5, <1>6 DEF verify_and_process_commit_ticket

(* A prepare with a timeout certificate: the node may have to commit without a certificate. *)
LEMMA TcTicketOk ==
    ASSUME NEW M, NEW C, NEW n \in Nodes, NEW s \in RoundStates, NEW p \in Prepares,
           p.ticket \in TimeoutQCs, M \subseteq Messages, NodeOk(M, C, n, s), s.tag # "Joining",
           PrepareOk(M, C, p), verify_and_process_tc_ticket(n, s, p).commits \subseteq C
    PROVE  Processed(M, C, n, p, verify_and_process_tc_ticket(n, s, p))
<1> DEFINE forces == IsNextSlot(s, p) /\ IsHashOf(Parent(p.chain), s.cp)
           f == IF forces THEN CommitAndAdvance(n, s, ForcedCommitQc) ELSE Ok(s)
           v == verify_tc(f.st, p.ticket, f.st.slot, p.view - 1)
           a == advance_round(n, v.st, p.ticket)
           other == p.ticket.tk.kind = "PrepareQC" /\ p.ticket.tk.cp # Proposal(p.chain)
           r == verify_and_process_tc_ticket(n, s, p)
<1>1. /\ p.ticket.kind = "TimeoutQC" /\ p.ticket \in RoundTickets /\ p.view \in Nat
      /\ p.ticket.view \in Nat /\ p.chain \in Chains
  BY Zenon DEF TimeoutQCs, RoundTickets, Prepares
<1>2. /\ p.ticket.slot = Slot(p.chain) /\ p.ticket.view + 1 = p.view
      /\ p.ticket.parent = Parent(p.chain) /\ TcOk(M, p.ticket) /\ Done(C, Parent(p.chain))
  BY Zenon, <1>1 DEF PrepareOk, TicketFor
<1>3. f \in Results
  BY Zenon, OkType, CommitAndAdvanceType
<1>4. CASE other
  <2>1. r = Err(s)
    BY Zenon, <1>4 DEF verify_and_process_tc_ticket
  <2> QED
    BY Zenon, <2>1, ErrProcessed
<1>5. CASE ~other
  <2> HIDE DEF f
  <2>1. v \in Results
    BY Zenon, <1>1, <1>3, VerifyTcType DEF Results, RoundStates
  <2> HIDE DEF v
  <2>2. a \in Results
    BY Zenon, <1>1, <2>1, AdvanceRoundType DEF Results
  <2> HIDE DEF a
  <2>3. \/ r = [f EXCEPT !.ok = FALSE]
        \/ r = [a EXCEPT !.commits = f.commits] /\ v.ok /\ p.view = v.st.view + 1
        \/ r = [v EXCEPT !.commits = f.commits]
    <3> HIDE DEF other, forces
    <3> QED
      BY Zenon, <1>5 DEF verify_and_process_tc_ticket, f, v, a, other, forces
  <2>4. f.commits \subseteq C
    <3> HIDE DEF r
    <3>1. r.commits = f.commits
      BY Zenon, <1>3, <2>1, <2>2, <2>3 DEF Results
    <3> QED
      BY Zenon, <3>1 DEF r
  <2>5. ResultOk(M, C, n, f) /\ f.out = {} /\ f.st.tag # "Joining"
    <3>1. CASE ~forces
      BY Zenon, <3>1, OkOk DEF f, Ok, Result, JoinOk
    <3>2. CASE forces
      <4>1. Parent(p.chain) = s.cp.chain /\ ~s.cp.taken /\ current_slot_prepare_is_present(s)
        BY Zenon, <3>2 DEF IsHashOf, IsNextSlot
      <4>2. s.slot # 0
        <5>1. Slot(s.parent) \in Nat
          BY DEF RoundStates, Chains, Slot
        <5> QED
          BY <4>1, <5>1 DEF NodeOk, PlaceOk
      <4>3. f = CommitAndAdvance(n, s, ForcedCommitQc)
        BY Zenon, <3>2 DEF f
      <4>4. Done(C, s.cp.chain) /\ CommitAndAdvance(n, s, ForcedCommitQc).commits \subseteq C
        BY Zenon, <1>2, <2>4, <4>1, <4>3
      <4>5. ResultOk(M, C, n, f) /\ SlotAdvanced(M, C, n, s, f)
        BY Zenon, <4>1, <4>2, <4>3, <4>4, CommitAndAdvanceOk
      <4> QED
        BY Zenon, <4>5 DEF SlotAdvanced
    <3> QED
      BY Zenon, <3>1, <3>2
  <2>6. f.st \in RoundStates /\ NodeOk(M, C, n, f.st)
    BY Zenon, <1>3, <2>5 DEF Results, ResultOk
  <2>7. Verified(f.st, v, p.ticket, p.view - 1) /\ NodeOk(M, C, n, v.st)
    BY Zenon, <1>2, <2>6, VerifyTcOk DEF v
  <2>8. /\ v.st.tag # "Joining" /\ v.out = {} /\ v.st \in RoundStates
        /\ v.ok => /\ p.ticket.slot = v.st.slot /\ p.ticket.view = p.view - 1
                   /\ p.ticket.parent = v.st.parent /\ p.ticket.bonded
    BY Zenon, <2>5, <2>7 DEF Verified, Recorded
  <2>9. v.ok => TicketAccepted(p)
    <3>1. ASSUME p.ticket.tk.kind = "PrepareQC", v.ok PROVE IsHashOf(p.ticket.tk.qc, p.ticket.tk.cp)
      BY Zenon, <3>1 DEF v, verify_tc, Err, Result
    <3> QED
      BY Zenon, <1>2, <1>5, <2>8, <3>1 DEF TicketAccepted
  <2>10. CASE r = [f EXCEPT !.ok = FALSE]
    <3>1. r.st = f.st /\ r.out = f.out /\ r.commits = f.commits /\ ~r.ok
      <4> HIDE DEF r
      <4> QED
        BY Zenon, <1>3, <2>10 DEF Results
    <3> HIDE DEF r
    <3> QED
      BY Zenon, <2>5, <3>1 DEF Processed, ResultOk, r
  <2>11. CASE r = [a EXCEPT !.commits = f.commits] /\ v.ok /\ p.view = v.st.view + 1
    <3>1. r.st = a.st /\ r.out = a.out /\ r.commits = f.commits
      <4> HIDE DEF r
      <4> QED
        BY Zenon, <2>2, <2>11 DEF Results
    <3>2. p.ticket.view = v.st.view
      <4>1. v.st.view \in Nat
        BY Zenon, <2>8 DEF RoundStates
      <4> QED
        BY <1>1, <2>8, <2>11, <4>1
    <3>3. p.ticket.slot = v.st.slot /\ p.ticket.parent = v.st.parent
      BY Zenon, <2>8, <2>11
    <3>4. ViewAdvanced(M, C, n, v.st, a)
      BY Zenon, <1>2, <2>7, <2>8, <3>2, <3>3, NextViewOk DEF a
    <3> HIDE DEF r
    <3>5. r.st.parent = Parent(p.chain)
      <4>1. a.st.parent = v.st.parent
        BY Zenon, <3>4 DEF ViewAdvanced
      <4> QED
        BY Zenon, <1>2, <3>1, <3>3, <4>1
    <3> QED
      BY Zenon, <2>5, <2>9, <2>11, <3>1, <3>4, <3>5 DEF ViewAdvanced, Processed, ResultOk, JoinOk, r
  <2>12. CASE r = [v EXCEPT !.commits = f.commits]
    <3>1. r.st = v.st /\ r.out = v.out /\ r.commits = f.commits /\ r.ok = v.ok
      <4> HIDE DEF r
      <4> QED
        BY Zenon, <2>1, <2>12 DEF Results
    <3> HIDE DEF r
    <3> QED
      BY Zenon, <1>2, <2>5, <2>7, <2>8, <2>9, <3>1 DEF Processed, ResultOk, JoinOk, r
  <2> QED
    BY Zenon, <2>3, <2>10, <2>11, <2>12
<1> QED
  BY Zenon, <1>4, <1>5

(* Any prepare: the node is at the slot of the proposal, on top of its parent. *)
LEMMA ProcessTicketOk ==
    ASSUME NEW M, NEW C, NEW n \in Nodes, NEW s \in RoundStates, NEW p \in Prepares,
           M \subseteq Messages, NodeOk(M, C, n, s), s.tag # "Joining",
           PrepareOk(M, C, p), ProcessTicket(n, s, p).commits \subseteq C
    PROVE  Processed(M, C, n, p, ProcessTicket(n, s, p))
<1>1. CASE p.ticket = GenesisTicket
  <2> DEFINE r == ProcessTicket(n, s, p)
  <2>1. p.ticket.kind = "Genesis"
    BY <1>1 DEF GenesisTicket
  <2>2. r = IF s.slot = 1 THEN Ok(s) ELSE Err(s)
    BY Zenon, <2>1 DEF ProcessTicket
  <2>3. ASSUME s.slot = 1, Slot(p.chain) = 1 PROVE s.parent = Parent(p.chain)
    <3>1. s.parent \in Seq(Cuts) /\ p.chain \in Seq(Cuts) /\ Len(p.chain) = 1
      BY Zenon, <2>3 DEF RoundStates, Prepares, Chains, Slot
    <3>2. Len(s.parent) = 0
      BY <2>3, <3>1 DEF NodeOk, PlaceOk, Slot
    <3>3. s.parent = <<>>
      BY <3>1, <3>2
    <3>4. Parent(p.chain) = <<>>
      BY <3>1 DEF Parent
    <3> QED
      BY Zenon, <3>3, <3>4
  <2>4. TicketAccepted(p)
    BY Zenon, <2>1 DEF TicketAccepted
  <2>5. CASE s.slot = 1
    BY Zenon, <2>2, <2>3, <2>4, <2>5, OkProcessed
  <2>6. CASE s.slot # 1
    BY Zenon, <2>2, <2>6, ErrProcessed
  <2> QED
    BY Zenon, <2>5, <2>6
<1>2. CASE p.ticket \in CommitQCs
  <2>1. p.ticket.kind = "CommitQC"
    BY Zenon, <1>2 DEF CommitQCs
  <2>2. ProcessTicket(n, s, p) = verify_and_process_commit_ticket(n, s, p)
    BY Zenon, <2>1 DEF ProcessTicket
  <2>3. verify_and_process_commit_ticket(n, s, p).commits \subseteq C
    BY Zenon, <2>2
  <2> QED
    BY Zenon, <1>2, <2>2, <2>3, CommitTicketOk
<1>3. CASE p.ticket \in TimeoutQCs
  <2>1. p.ticket.kind = "TimeoutQC"
    BY Zenon, <1>3 DEF TimeoutQCs
  <2>2. ProcessTicket(n, s, p) = verify_and_process_tc_ticket(n, s, p)
    BY Zenon, <2>1 DEF ProcessTicket
  <2>3. verify_and_process_tc_ticket(n, s, p).commits \subseteq C
    BY Zenon, <2>2
  <2> QED
    BY Zenon, <1>3, <2>2, <2>3, TcTicketOk
<1> QED
  BY Zenon, <1>1, <1>2, <1>3 DEF Prepares, Tickets

(* What push leaves alone. *)
Pushed(M, C, n, s, t) ==
    /\ t \in RoundStates /\ NodeOk(M, C, n, t)
    /\ t.slot = s.slot /\ t.view = s.view /\ t.parent = s.parent /\ t.cp = s.cp
    /\ t.tag = s.tag /\ t.step = s.step /\ t.pending = s.pending /\ t.bufqc = s.bufqc
    /\ t.pqc = s.pqc /\ t.synced = s.synced /\ t.forward = s.forward
    /\ t.requests = s.requests /\ t.prepares \subseteq M

(* push keeps the node in order, and leaves the rest of its state alone. *)
LEMMA PushOk ==
    ASSUME NEW M, NEW C, NEW n, NEW s \in RoundStates, NEW p \in Prepares, p \in M,
           NodeOk(M, C, n, s)
    PROVE  Pushed(M, C, n, s, push(s, p))
<1> DEFINE t == push(s, p)
           ps == {q \in s.prepares : q.chain # p.chain} \cup {p}
           cs == {c \in s.children : Parent(c) # Parent(p.chain)} \cup {p.chain}
<1>1. t \in RoundStates
  BY Zenon, PushType
<1>2. s.prepares \subseteq M /\ (s.forward = None \/ s.forward \in M)
  BY Zenon DEF NodeOk, BuffersOk
<1>3. t = [s EXCEPT !.prepares = ps, !.children = cs]
  BY Zenon DEF push
<1>4. ps \subseteq M
  BY Zenon, <1>2
<1> HIDE DEF t, ps, cs
<1>5. /\ t.slot = s.slot /\ t.view = s.view /\ t.parent = s.parent /\ t.cp = s.cp
      /\ t.tag = s.tag /\ t.step = s.step /\ t.pending = s.pending /\ t.bufqc = s.bufqc
      /\ t.pqc = s.pqc /\ t.synced = s.synced /\ t.forward = s.forward
      /\ t.requests = s.requests /\ t.prepares = ps
  BY <1>1, <1>3 DEF RoundStates
<1>6. NodeOk(M, C, n, t)
  BY Zenon, <1>2, <1>4, <1>5, NodeShrinks
<1> QED
  BY Zenon, <1>1, <1>4, <1>5, <1>6 DEF Pushed, t

(* A prepare kept for later, while its parent is fetched. *)
LEMMA BufferOk ==
    ASSUME NEW M, NEW C, NEW n \in Nodes, NEW s \in RoundStates, NEW p \in Prepares, p \in M,
           NodeOk(M, C, n, s), s.tag # "Joining"
    PROVE  \A r \in buffer_prepare_message_and_fetch_missing_parent(n, s, p) : ResultOk(M, C, n, r)
<1> DEFINE t == IF p.chain \in {q.chain : q \in s.prepares} THEN s ELSE push(s, p)
           unknown == {k \in 0..(Slot(p.chain) - 1) :
                           SubSeq(p.chain, 1, k) \notin {q.chain : q \in t.prepares}}
           missing == {k \in unknown : \A j \in unknown : j <= k}
           request(to) == {SyncRequest(n, to, SubSeq(p.chain, 1, k)) : k \in missing}
           asks == {Result(t, request(to), {}, TRUE) : to \in Validators \ {n}}
<1>1. NodeOk(M, C, n, t) /\ JoinOk(t)
  <2>1. Pushed(M, C, n, s, push(s, p))
    BY Zenon, PushOk
  <2>2. NodeOk(M, C, n, t) /\ t.tag # "Joining"
    BY Zenon, <2>1 DEF Pushed
  <2> QED
    BY Zenon, <2>2 DEF JoinOk
<1>2. buffer_prepare_message_and_fetch_missing_parent(n, s, p) \in {{Ok(t)}, asks}
  BY Zenon DEF buffer_prepare_message_and_fetch_missing_parent
<1> HIDE DEF t, missing
<1>3. ASSUME NEW to, NEW m \in request(to)
      PROVE  MessageOk(M, C, m)
  BY DEF SyncRequest, MessageOk
<1>4. ResultOk(M, C, n, Ok(t))
  BY Zenon, <1>1, OkOk
<1> HIDE DEF request
<1>5. \A r \in asks : ResultOk(M, C, n, r)
  <2> SUFFICES ASSUME NEW to \in Validators \ {n}
               PROVE  ResultOk(M, C, n, Result(t, request(to), {}, TRUE))
    BY Zenon DEF asks
  <2> QED
    BY Zenon, <1>1, <1>3, ResultIsOk
<1> HIDE DEF asks
<1> QED
  BY Zenon, <1>2, <1>4, <1>5

(* The proposal of a prepare for this round becomes the current one. *)
LEMMA AcceptPrepareOk ==
    ASSUME NEW M, NEW C, NEW n \in Nodes, NEW s \in RoundStates, NEW p \in Prepares, p \in M,
           NodeOk(M, C, n, s), s.tag # "Joining", PrepareOk(M, C, p), Origin(M, p.chain),
           Slot(p.chain) = s.slot, Parent(p.chain) = s.parent
    PROVE  ResultOk(M, C, n, AcceptPrepare(n, s, p))
<1> DEFINE u == [s EXCEPT !.cp = Proposal(p.chain)]
           t == push(u, p)
           q == CHOOSE q \in next_prepares(t) : TRUE
<1>1. Proposal(p.chain) \in Proposals /\ Proposal(p.chain).chain = p.chain /\ ~Proposal(p.chain).taken
  BY Zenon DEF Proposal, Proposals, Prepares
<1>2. p.chain \in Chains /\ p.chain # Genesis /\ p.type = "Prepare"
  BY Zenon DEF Prepares, PrepareOk
<1>3. s.slot # 0
  BY <1>2 DEF Chains, Slot, Genesis
<1>4. u \in RoundStates
  BY Zenon, <1>1 DEF RoundStates
<1>5. /\ u.slot = s.slot /\ u.view = s.view /\ u.parent = s.parent /\ u.cp = Proposal(p.chain)
      /\ u.tag = s.tag /\ u.step = s.step /\ u.pending = s.pending /\ u.bufqc = s.bufqc
      /\ u.pqc = s.pqc /\ u.synced = s.synced /\ u.forward = s.forward
      /\ u.requests = s.requests /\ u.prepares = s.prepares
  BY Zenon, <1>1 DEF RoundStates
<1> HIDE DEF u
<1>6. NodeOk(M, C, n, u)
  <2>1. PlaceOk(C, n, u)
    BY Zenon, <1>3, <1>5 DEF NodeOk, PlaceOk
  <2>2. ProposalOk(M, n, u)
    <3>1. Known(M, p.chain)
      BY Zenon, <1>2 DEF Known
    <3> QED
      BY Zenon, <1>1, <1>5, <3>1 DEF NodeOk, ProposalOk, Committed, current_slot_prepare_is_present
  <2>3. TicketsOk(M, n, u)
    BY Zenon, <1>5 DEF NodeOk, TicketsOk
  <2>4. TimeoutsOk(M, n, u)
    BY Zenon, <1>5 DEF NodeOk, TimeoutsOk, SeenPrepareQC
  <2>5. BuffersOk(M, u) /\ LeadsOk(M, n, u)
    BY Zenon, <1>5 DEF NodeOk, BuffersOk, LeadsOk, Led
  <2> QED
    BY Zenon, <2>1, <2>2, <2>3, <2>4, <2>5 DEF NodeOk
<1>7. t \in RoundStates /\ NodeOk(M, C, n, t) /\ t.tag # "Joining"
  <2>1. Pushed(M, C, n, u, t)
    BY Zenon, <1>4, <1>6, PushOk
  <2> HIDE DEF t
  <2> QED
    BY Zenon, <1>5, <2>1 DEF Pushed
<1> HIDE DEF t
<1>8. CASE has_no_buffered_children(t)
  <2>1. MessageOk(M, C, PrepareVote(n, p.from, p.chain))
    BY Zenon DEF PrepareVote, MessageOk
  <2>2. ResultOk(M, C, n, Result(t, IF n \in Validators THEN {PrepareVote(n, p.from, p.chain)}
                                    ELSE {}, {}, TRUE))
    BY Zenon, <1>7, <2>1 DEF Result, ResultOk, JoinOk
  <2> QED
    BY Zenon, <1>8, <2>2 DEF AcceptPrepare, t, u
<1>9. CASE ~has_no_buffered_children(t)
  <2> DEFINE w == [t EXCEPT !.forward = q]
  <2>1. q \in t.prepares
    BY Zenon, <1>9 DEF has_no_buffered_children, next_prepares
  <2> HIDE DEF q
  <2>2. t.prepares \subseteq M /\ q \in M /\ q \in Prepares
    BY Zenon, <1>7, <2>1 DEF NodeOk, BuffersOk, RoundStates
  <2>3. w \in RoundStates
    BY Zenon, <1>7, <2>2 DEF RoundStates
  <2>4. /\ w.slot = t.slot /\ w.view = t.view /\ w.parent = t.parent /\ w.cp = t.cp
        /\ w.tag = t.tag /\ w.step = t.step /\ w.pending = t.pending /\ w.bufqc = t.bufqc
        /\ w.pqc = t.pqc /\ w.forward = q
        /\ w.requests = t.requests /\ w.prepares = t.prepares
    BY Zenon, <1>7, <2>2 DEF RoundStates
  <2>5. NodeOk(M, C, n, w)
    <3> HIDE DEF w
    <3> QED
      BY Zenon, <1>7, <2>2, <2>4, NodeShrinks
  <2>6. JoinOk(w)
    BY Zenon, <1>7, <2>4 DEF JoinOk
  <2>7. ResultOk(M, C, n, Ok(w))
    <3> HIDE DEF w
    <3> QED
      BY Zenon, <2>5, <2>6, OkOk
  <2> QED
    BY Zenon, <1>9, <2>7 DEF AcceptPrepare, t, u, q
<1> QED
  BY Zenon, <1>8, <1>9

(* The origin of a proposal that an acceptable prepare is for. *)
LEMMA AcceptedHasOrigin ==
    ASSUME NEW M, NEW C, NEW p \in M, p.type = "Prepare", p \in Prepares,
           \A m \in M : MessageOk(M, C, m), TicketAccepted(p)
    PROVE  Origin(M, p.chain)
<1>1. PrepareOk(M, C, p) /\ TicketFor(M, p.ticket, Slot(p.chain), p.view, Parent(p.chain))
  BY Zenon DEF MessageOk, PrepareOk
<1>2. CASE p.ticket.kind # "TimeoutQC"
  <2>1. p.ticket.kind = "Genesis" \/ p.ticket.kind = "CommitQC"
    BY <1>2 DEF Prepares, Tickets, GenesisTicket, CommitQCs, TimeoutQCs
  <2>2. p.view = 0
    BY Zenon, <1>1, <2>1 DEF TicketFor
  <2> QED
    BY Zenon, <2>2 DEF Origin
<1>3. CASE p.ticket.kind = "TimeoutQC"
  <2> DEFINE tk == p.ticket.tk
  <2>1. p.ticket.slot = Slot(p.chain) /\ p.ticket.view + 1 = p.view /\ TcOk(M, p.ticket)
    BY Zenon, <1>1, <1>3 DEF TicketFor
  <2>2. p.ticket \in TimeoutQCs
    BY <1>3 DEF Prepares, Tickets, GenesisTicket, CommitQCs
  <2>3. CASE tk.kind = "PrepareQC"
    <3>1. tk.cp = Proposal(p.chain) /\ IsHashOf(tk.qc, tk.cp)
      BY Zenon, <1>3, <2>3 DEF TicketAccepted
    <3>2. tk.cp.chain = p.chain /\ tk.qc = p.chain
      BY <3>1 DEF Proposal, IsHashOf
    <3>3. Voted(M, p.chain)
      BY Zenon, <2>1, <2>3, <3>1, <3>2 DEF TcOk, KindOk
    <3> QED
      BY Zenon, <3>3 DEF Voted, MessageOk
  <2>4. CASE tk.kind # "PrepareQC"
    <3>1. tk = NilProposal
      BY Zenon, <2>2, <2>4 DEF TimeoutQCs, TimeoutKinds
    <3>2. NilQuorum(M, Slot(p.chain), p.ticket.view)
      BY Zenon, <1>3, <2>1, <3>1 DEF TcOk, TicketAccepted
    <3>3. p.ticket.view = p.view - 1
      BY <2>1, <2>2 DEF TimeoutQCs
    <3> QED
      BY Zenon, <3>2, <3>3 DEF Origin
  <2> QED
    BY Zenon, <2>3, <2>4
<1> QED
  BY Zenon, <1>2, <1>3

(* A prepare, from the network or from the buffer. *)
LEMMA OnPrepareOk ==
    ASSUME NEW M, NEW C, NEW n \in Nodes, NEW s0 \in RoundStates, NEW p \in Prepares,
           NEW r \in on_prepare(n, s0, p), p \in M, M \subseteq Messages,
           NodeOk(M, C, n, s0), JoinOk(s0), PrepareOk(M, C, p),
           TicketAccepted(p) => Origin(M, p.chain), r.commits \subseteq C
    PROVE  ResultOk(M, C, n, r)
<1> DEFINE s == IF s0.tag = "Joining" THEN [s0 EXCEPT !.tag = "Follower"] ELSE s0
           t == ProcessTicket(n, s, p)
           inRound == /\ Slot(p.chain) = t.st.slot /\ p.view = t.st.view
                      /\ p.from = round_leader(t.st.slot, t.st.view)
           a == AcceptPrepare(n, t.st, p)
<1>1. s \in RoundStates /\ s.tag # "Joining" /\ NodeOk(M, C, n, s)
  <2>1. CASE s0.tag # "Joining"
    BY Zenon, <2>1
  <2>2. CASE s0.tag = "Joining"
    <3>1. s = [s0 EXCEPT !.tag = "Follower"]
      BY Zenon, <2>2
    <3> HIDE DEF s
    <3>2. s \in RoundStates
      BY Zenon, <3>1 DEF RoundStates
    <3>3. /\ s.slot = s0.slot /\ s.view = s0.view /\ s.parent = s0.parent /\ s.cp = s0.cp
          /\ s.tag = "Follower" /\ s.step = s0.step /\ s.pending = s0.pending
          /\ s.bufqc = s0.bufqc /\ s.pqc = s0.pqc /\ s.forward = s0.forward
          /\ s.requests = s0.requests /\ s.prepares = s0.prepares
      BY Zenon, <3>1, <3>2 DEF RoundStates
    <3>4. s0.prepares \subseteq M /\ (s0.forward = None \/ s0.forward \in M)
      BY Zenon DEF NodeOk, BuffersOk
    <3>5. NodeOk(M, C, n, s)
      BY Zenon, <3>3, <3>4, NodeShrinks
    <3> QED
      BY Zenon, <3>2, <3>3, <3>5
  <2> QED
    BY Zenon, <2>1, <2>2
<1> HIDE DEF s
<1>2. t \in Results
  BY Zenon, <1>1, ProcessTicketType
<1> HIDE DEF t
<1>3. a \in Results
  BY Zenon, <1>2, AcceptPrepareType DEF Results
<1> HIDE DEF a
<1>4. \/ r = Ok(push(s0, p))
      \/ r = Ok(s)
      \/ r \in buffer_prepare_message_and_fetch_missing_parent(n, s, p)
      \/ r = [t EXCEPT !.ok = FALSE]
      \/ r = [a EXCEPT !.commits = t.commits] /\ t.ok /\ inRound
  BY Zenon DEF on_prepare, s, t, a
<1>5. CASE r = Ok(push(s0, p))
  <2> DEFINE u == push(s0, p)
  <2>1. Pushed(M, C, n, s0, u)
    BY Zenon, PushOk
  <2> HIDE DEF u
  <2>2. /\ NodeOk(M, C, n, u)
        /\ u.tag = s0.tag /\ u.bufqc = s0.bufqc /\ u.pqc = s0.pqc /\ u.slot = s0.slot
        /\ u.synced = s0.synced /\ u.requests = s0.requests
    BY Zenon, <2>1 DEF Pushed
  <2>3. JoinOk(u)
    BY Zenon, <2>2 DEF JoinOk
  <2> QED
    BY Zenon, <1>5, <2>2, <2>3, OkOk DEF u
<1>6. CASE r = Ok(s)
  <2>1. JoinOk(s)
    BY Zenon, <1>1 DEF JoinOk
  <2> QED
    BY Zenon, <1>1, <1>6, <2>1, OkOk
<1>7. CASE r \in buffer_prepare_message_and_fetch_missing_parent(n, s, p)
  BY Zenon, <1>1, <1>7, BufferOk
<1>8. CASE r = [t EXCEPT !.ok = FALSE]
  <2>1. r.st = t.st /\ r.out = t.out /\ r.commits = t.commits
    BY Zenon, <1>2, <1>8 DEF Results
  <2>2. Processed(M, C, n, p, t)
    <3>1. ProcessTicket(n, s, p).commits \subseteq C
      BY Zenon, <2>1 DEF t
    <3> QED
      BY Zenon, <1>1, <3>1, ProcessTicketOk DEF t
  <2> QED
    BY Zenon, <2>1, <2>2 DEF Processed, ResultOk
<1>9. CASE r = [a EXCEPT !.commits = t.commits] /\ t.ok /\ inRound
  <2>1. r.st = a.st /\ r.out = a.out /\ r.commits = t.commits
    BY Zenon, <1>3, <1>9 DEF Results
  <2>2. Processed(M, C, n, p, t)
    <3>1. ProcessTicket(n, s, p).commits \subseteq C
      BY Zenon, <2>1 DEF t
    <3> QED
      BY Zenon, <1>1, <3>1, ProcessTicketOk DEF t
  <2>3. /\ t.st \in RoundStates /\ NodeOk(M, C, n, t.st) /\ t.st.tag # "Joining"
        /\ Slot(p.chain) = t.st.slot /\ Parent(p.chain) = t.st.parent /\ TicketAccepted(p)
    BY Zenon, <1>2, <1>9, <2>2 DEF Results, Processed, ResultOk
  <2>4. ResultOk(M, C, n, a)
    BY Zenon, <2>3, AcceptPrepareOk DEF a
  <2> QED
    BY Zenon, <2>1, <2>2, <2>4 DEF Processed, ResultOk
<1> QED
  BY Zenon, <1>4, <1>5, <1>6, <1>7, <1>8, <1>9

=============================================================================
