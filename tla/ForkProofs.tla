----------------------------- MODULE ForkProofs -----------------------------
(***************************************************************************)
(* Where forks come from.  Without restarts, what a node commits extends   *)
(* what it committed before and was committed by some node with a          *)
(* certificate, a leader proposes one thing in a slot and view, and two    *)
(* commits for a slot need a validator that acknowledged a proposal        *)
(* although it had said in a timeout that it had seen none prepared.       *)
(***************************************************************************)
EXTENDS ConsensusProofs

---------------------------------------------------------------------------
(* Votes, acknowledgements and commits. *)

(* A vote, and the Confirm that a quorum of them makes. *)
LEMMA OnPrepareVoteOk ==
    ASSUME NEW M, NEW C, NEW n \in Nodes, NEW s \in RoundStates, NEW m \in M,
           M \subseteq Messages, m.type = "PrepareVote", NodeOk(M, C, n, s), JoinOk(s)
    PROVE  ResultOk(M, C, n, on_prepare_vote(n, s, m))
<1> DEFINE v == [from |-> m.from, chain |-> m.chain]
           t == [s EXCEPT !.votes = s.votes \cup {v}]
           u == [t EXCEPT !.step = "ConfirmAck"]
           r == on_prepare_vote(n, s, m)
<1>1. m.from \in Nodes /\ m.chain \in Chains
  BY Zenon, MessageFields
<1>2. t \in RoundStates
  <2>1. s.votes \cup {v} \in SUBSET [from : Nodes, chain : Chains]
    BY <1>1 DEF RoundStates
  <2> HIDE DEF v
  <2> QED
    BY Zenon, <2>1 DEF RoundStates
<1>3. /\ t.slot = s.slot /\ t.view = s.view /\ t.parent = s.parent /\ t.cp = s.cp
      /\ t.tag = s.tag /\ t.step = s.step /\ t.pending = s.pending /\ t.bufqc = s.bufqc
      /\ t.pqc = s.pqc /\ t.forward = s.forward /\ t.requests = s.requests
      /\ t.prepares = s.prepares /\ t.synced = s.synced
  <2> HIDE DEF v
  <2> QED
    BY Zenon DEF RoundStates
<1> HIDE DEF t
<1>4. s.prepares \subseteq M /\ (s.forward = None \/ s.forward \in M)
  BY Zenon DEF NodeOk, BuffersOk
<1>5. NodeOk(M, C, n, t)
  BY Zenon, <1>3, <1>4, NodeShrinks
<1>6. JoinOk(t)
  BY Zenon, <1>3 DEF JoinOk
<1>7. CASE r = Ok(s) \/ r = Err(s) \/ r = Ok(t) \/ r = Err(t)
  BY Zenon, <1>5, <1>6, <1>7, OkOk
<1>8. CASE /\ r = Result(u, {Confirm(n, m.chain)}, {}, TRUE)
           /\ s.tag = "Leader" /\ s.step = "PrepareVote"
  <2>1. /\ u.slot = t.slot /\ u.view = t.view /\ u.parent = t.parent /\ u.cp = t.cp
        /\ u.tag = t.tag /\ u.step = "ConfirmAck" /\ u.pending = t.pending /\ u.bufqc = t.bufqc
        /\ u.pqc = t.pqc /\ u.forward = t.forward /\ u.requests = t.requests
        /\ u.prepares = t.prepares
    BY Zenon, <1>2 DEF RoundStates
  <2> HIDE DEF u
  <2>2. NodeOk(M, C, n, u)
    <3>1. PlaceOk(C, n, u)
      BY Zenon, <1>5, <2>1 DEF NodeOk, PlaceOk
    <3>2. ProposalOk(M, n, u)
      BY Zenon, <1>3, <1>5, <1>8, <2>1 DEF NodeOk, ProposalOk, Committed, current_slot_prepare_is_present
    <3>3. TicketsOk(M, n, u)
      BY Zenon, <1>5, <2>1 DEF NodeOk, TicketsOk
    <3>4. TimeoutsOk(M, n, u)
      BY Zenon, <1>5, <2>1 DEF NodeOk, TimeoutsOk, SeenPrepareQC
    <3>5. BuffersOk(M, u) /\ LeadsOk(M, n, u)
      BY Zenon, <1>5, <2>1 DEF NodeOk, BuffersOk, LeadsOk, Led
    <3> QED
      BY Zenon, <3>1, <3>2, <3>3, <3>4, <3>5 DEF NodeOk
  <2>3. JoinOk(u)
    BY Zenon, <1>3, <1>8, <2>1 DEF JoinOk
  <2>4. MessageOk(M, C, Confirm(n, m.chain))
    BY Zenon DEF Confirm, MessageOk, Voted
  <2> QED
    BY <1>8, <2>2, <2>3, <2>4 DEF Result, ResultOk
<1> QED
  BY Zenon, <1>7, <1>8 DEF on_prepare_vote, t

(* A Confirm, and its acknowledgement. *)
LEMMA OnConfirmOk ==
    ASSUME NEW M, NEW C, NEW n \in Nodes, NEW s \in RoundStates, NEW m \in M,
           M \subseteq Messages, m.type = "Confirm", MessageOk(M, C, m),
           NodeOk(M, C, n, s), JoinOk(s)
    PROVE  ResultOk(M, C, n, on_confirm(n, s, m))
<1> DEFINE q == [kind |-> "PrepareQC", slot |-> s.slot, qc |-> m.chain]
           t == [s EXCEPT !.pqc = q]
           out == IF n \in Validators
                  THEN {ConfirmAck(n, round_leader(s.slot, s.view), m.chain)} ELSE {}
           r == on_confirm(n, s, m)
<1>1. m.chain \in Chains /\ Voted(M, m.chain) /\ s.slot \in Nat
  BY Zenon, MessageFields DEF MessageOk, RoundStates
<1>2. IsHighest(s, s.slot)
  <2>1. s.pqc # None => s.pqc.slot <= s.slot
    BY Zenon DEF NodeOk, TimeoutsOk
  <2>2. s.pqc # None => s.pqc.slot \in Nat
    BY Zenon DEF RoundStates
  <2> QED
    BY Zenon, <1>1, <2>1, <2>2 DEF IsHighest
<1>3. r = Ok(s) \/ (r = Result(t, out, {}, TRUE) /\ s.tag = "Follower")
  BY Zenon, <1>2 DEF on_confirm, update_highest_seen_prepare_qc
<1>4. CASE r = Result(t, out, {}, TRUE) /\ s.tag = "Follower"
  <2>1. /\ q \in [kind : {"PrepareQC"}, slot : Nat, qc : Chains]
        /\ q.slot = s.slot /\ q.qc = m.chain /\ q # None
    BY Zenon, <1>1 DEF None
  <2> HIDE DEF q
  <2>2. /\ t.slot = s.slot /\ t.view = s.view /\ t.parent = s.parent /\ t.cp = s.cp
        /\ t.tag = s.tag /\ t.step = s.step /\ t.pending = s.pending /\ t.bufqc = s.bufqc
        /\ t.pqc = q /\ t.forward = s.forward /\ t.requests = s.requests
        /\ t.prepares = s.prepares
    BY Zenon, <2>1 DEF RoundStates
  <2> HIDE DEF t
  <2>3. NodeOk(M, C, n, t)
    <3>1. PlaceOk(C, n, t)
      BY Zenon, <2>2 DEF NodeOk, PlaceOk
    <3>2. ProposalOk(M, n, t)
      BY Zenon, <2>2 DEF NodeOk, ProposalOk, Committed, current_slot_prepare_is_present
    <3>3. TicketsOk(M, n, t)
      BY Zenon, <2>2 DEF NodeOk, TicketsOk
    <3>4. TimeoutsOk(M, n, t)
      <4>1. SeenPrepareQC(t)
        BY Zenon, <2>1, <2>2 DEF SeenPrepareQC
      <4> QED
        <5>1. t.pqc.slot <= t.slot /\ Voted(M, t.pqc.qc)
          BY <1>1, <2>1, <2>2
        <5>2. \A a \in t.requests : TimedOut(M, a.from, t.slot, t.view, a.tk)
          BY Zenon, <2>2 DEF NodeOk, TimeoutsOk
        <5> QED
          BY Zenon, <4>1, <5>1, <5>2 DEF TimeoutsOk
    <3>5. BuffersOk(M, t) /\ LeadsOk(M, n, t)
      BY Zenon, <2>2 DEF NodeOk, BuffersOk, LeadsOk, Led
    <3> QED
      BY Zenon, <3>1, <3>2, <3>3, <3>4, <3>5 DEF NodeOk
  <2>4. \A a \in out : MessageOk(M, C, a)
    BY DEF ConfirmAck, MessageOk
  <2> QED
    <3>1. JoinOk(t)
      BY Zenon, <1>4, <2>2 DEF JoinOk
    <3> QED
      BY Zenon, <1>4, <2>3, <2>4, <3>1, ResultIsOk
<1> QED
  BY Zenon, <1>3, <1>4, OkOk

(* No proposal of the genesis slot is committed: its hash is gone. *)
LEMMA HashNeedsSlot ==
    ASSUME NEW M, NEW C, NEW n, NEW s \in RoundStates, NodeOk(M, C, n, s), ~s.cp.taken
    PROVE  s.slot # 0
<1>1. Slot(s.parent) \in Nat
  BY DEF RoundStates, Chains, Slot
<1> QED
  BY <1>1 DEF NodeOk, PlaceOk

(* An acknowledgement, and the commit that a quorum of them makes. *)
LEMMA OnConfirmAckOk ==
    ASSUME NEW M, NEW C, NEW n \in Nodes, NEW s \in RoundStates, NEW m \in M,
           M \subseteq Messages, m.type = "ConfirmAck", NodeOk(M, C, n, s), JoinOk(s),
           on_confirm_ack(n, s, m).commits \subseteq C
    PROVE  ResultOk(M, C, n, on_confirm_ack(n, s, m))
<1> DEFINE a == [from |-> m.from, chain |-> m.chain]
           t == [s EXCEPT !.acks = s.acks \cup {a}]
           c == CommitAndAdvance(n, t, CommitQC(m.chain, n))
           r == on_confirm_ack(n, s, m)
<1>1. m.from \in Nodes /\ m.chain \in Chains
  BY Zenon, MessageFields
<1>2. t \in RoundStates
  <2>1. s.acks \cup {a} \in SUBSET [from : Nodes, chain : Chains]
    BY <1>1 DEF RoundStates
  <2> HIDE DEF a
  <2> QED
    BY Zenon, <2>1 DEF RoundStates
<1>3. /\ t.slot = s.slot /\ t.view = s.view /\ t.parent = s.parent /\ t.cp = s.cp
      /\ t.tag = s.tag /\ t.step = s.step /\ t.pending = s.pending /\ t.bufqc = s.bufqc
      /\ t.pqc = s.pqc /\ t.forward = s.forward /\ t.requests = s.requests
      /\ t.prepares = s.prepares /\ t.synced = s.synced
  <2> HIDE DEF a
  <2> QED
    BY Zenon DEF RoundStates
<1> HIDE DEF t
<1>4. s.prepares \subseteq M /\ (s.forward = None \/ s.forward \in M)
  BY Zenon DEF NodeOk, BuffersOk
<1>5. NodeOk(M, C, n, t)
  BY Zenon, <1>3, <1>4, NodeShrinks
<1>6. JoinOk(t)
  BY Zenon, <1>3 DEF JoinOk
<1> HIDE DEF c
<1>7. \/ r = Ok(s) \/ r = Err(s) \/ r = Ok(t) \/ r = Err(t)
      \/ /\ r = [c EXCEPT !.out = {Commit(n, m.chain)}]
         /\ s.tag = "Leader" /\ s.step = "ConfirmAck" /\ IsHashOf(m.chain, s.cp)
  BY Zenon DEF on_confirm_ack, t, c
<1>8. CASE r = Ok(s) \/ r = Err(s) \/ r = Ok(t) \/ r = Err(t)
  BY Zenon, <1>5, <1>6, <1>8, OkOk
<1>9. CASE /\ r = [c EXCEPT !.out = {Commit(n, m.chain)}]
           /\ s.tag = "Leader" /\ s.step = "ConfirmAck" /\ IsHashOf(m.chain, s.cp)
  <2> DEFINE qc == CommitQC(m.chain, n)
  <2>1. qc \in CommitQCs /\ qc.chain = m.chain /\ qc # ForcedCommitQc
    BY Zenon, <1>1 DEF CommitQC, CommitQCs, ForcedCommitQc
  <2> HIDE DEF qc
  <2>2. m.chain = t.cp.chain /\ ~t.cp.taken /\ t.tag # "Joining"
    BY Zenon, <1>3, <1>9 DEF IsHashOf
  <2>3. t.slot # 0 /\ current_slot_prepare_is_present(t)
    <3>1. t.slot # 0
      BY Zenon, <1>2, <1>5, <2>2, HashNeedsSlot
    <3>2. current_slot_prepare_is_present(t)
      BY Zenon, <1>3, <1>5, <1>9 DEF NodeOk, ProposalOk
    <3> QED
      BY Zenon, <3>1, <3>2
  <2>4. c \in Results
    BY Zenon, <1>2, <2>1, CommitAndAdvanceType DEF c, qc
  <2>5. r.st = c.st /\ r.out = {Commit(n, m.chain)} /\ r.commits = c.commits
    <3> HIDE DEF r
    <3> QED
      BY Zenon, <1>9, <2>4 DEF Results
  <2>6. CommitAndAdvance(n, t, qc).commits \subseteq C
    BY Zenon, <2>5 DEF c, qc
  <2>7. qc.chain = t.cp.chain
    BY Zenon, <2>1, <2>2
  <2>8. ResultOk(M, C, n, CommitAndAdvance(n, t, qc))
    BY Zenon, <1>2, <1>5, <2>1, <2>2, <2>3, <2>6, <2>7, CommitAndAdvanceOk
  <2>9. MessageOk(M, C, Commit(n, m.chain))
    BY Zenon DEF Commit, MessageOk
  <2>10. ResultOk(M, C, n, c)
    BY Zenon, <2>8 DEF c, qc
  <2> HIDE DEF r
  <2>11. ResultOk(M, C, n, r)
    BY Zenon, <2>5, <2>9, <2>10 DEF ResultOk
  <2> QED
    BY Zenon, <2>11 DEF r
<1> QED
  BY Zenon, <1>7, <1>8, <1>9

(* A node that is joining commits the first proposal, if it has its prepare, as a follower. *)
LEMMA OnCommitWhileJoiningOk ==
    ASSUME NEW M, NEW C, NEW n \in Nodes, NEW s \in RoundStates, NEW m \in M,
           M \subseteq Messages, m.type = "Commit", NodeOk(M, C, n, s), JoinOk(s),
           s.tag = "Joining", on_commit_while_joining(n, s, m).commits \subseteq C
    PROVE  ResultOk(M, C, n, on_commit_while_joining(n, s, m))
<1> DEFINE t == [s EXCEPT !.cp = Proposal(m.chain), !.slot = Slot(m.chain), !.view = 0,
                          !.tag = "Follower"]
           qc == CommitQC(m.chain, m.from)
           skips == \/ \A p \in s.prepares : p.chain # m.chain
                    \/ Slot(m.chain) <= s.slot
                    \/ s.synced + 1 < Slot(m.chain)
           r == on_commit_while_joining(n, s, m)
<1>1. m.from \in Nodes /\ m.chain \in Chains /\ Slot(m.chain) \in Nat
  BY MessageFields DEF Chains, Slot
<1>2. /\ Proposal(m.chain) \in Proposals /\ Proposal(m.chain).chain = m.chain
      /\ ~Proposal(m.chain).taken
  BY Zenon, <1>1 DEF Proposal, Proposals
<1>3. qc \in CommitQCs /\ qc.chain = m.chain /\ qc # ForcedCommitQc
  BY Zenon, <1>1 DEF CommitQC, CommitQCs, ForcedCommitQc
<1>4. CASE skips
  BY Zenon, <1>4, OkOk DEF on_commit_while_joining
<1>5. CASE ~skips
  <2>1. r = CommitAndAdvance(n, t, qc)
    BY Zenon, <1>5 DEF on_commit_while_joining
  <2>2. t \in RoundStates
    BY Zenon, <1>1, <1>2 DEF RoundStates
  <2>3. /\ t.slot = Slot(m.chain) /\ t.view = 0 /\ t.parent = s.parent /\ t.cp = Proposal(m.chain)
        /\ t.tag = "Follower" /\ t.step = s.step /\ t.pending = s.pending /\ t.bufqc = s.bufqc
        /\ t.pqc = s.pqc /\ t.forward = s.forward /\ t.requests = s.requests
        /\ t.prepares = s.prepares
    BY Zenon, <1>1, <1>2 DEF RoundStates
  <2> HIDE DEF t, qc
  <2>4. s.slot = 0 /\ Slot(m.chain) = 1 /\ s.parent = Genesis
    <3>1. s.slot \in Nat /\ s.synced \in Nat /\ Slot(s.parent) \in Nat
      BY DEF RoundStates, Chains, Slot
    <3>2. s.slot = 0 /\ Slot(m.chain) = 1
      BY <1>1, <1>5, <3>1 DEF JoinOk
    <3> QED
      <4>1. s.slot = Slot(s.parent) + 1 \/ s.parent = Genesis
        BY Zenon DEF NodeOk, PlaceOk
      <4> QED
        BY <3>1, <3>2, <4>1
  <2>5. Parent(m.chain) = Genesis /\ Slot(Genesis) = 0
    BY <1>1, <2>4 DEF Parent, Slot, Chains, Genesis
  <2>6. n \notin Validators
    BY Zenon DEF NodeOk, PlaceOk
  <2>7. s.pending = None /\ s.step = "StartNewSlot" /\ s.bufqc = None /\ s.pqc = None /\ s.requests = {}
    <3>1. round_leader(s.slot, s.view) \in Validators
      BY Zenon, LeaderIsValidator DEF RoundStates
    <3> QED
      BY Zenon, <2>6, <3>1 DEF NodeOk, TicketsOk, ProposalOk, JoinOk
  <2>8. Known(M, m.chain)
    <3>1. PICK p \in s.prepares : p.chain = m.chain
      BY Zenon, <1>5
    <3>2. p \in M /\ p.type = "Prepare"
      BY Zenon, <3>1 DEF NodeOk, BuffersOk, RoundStates, Prepares
    <3> QED
      BY Zenon, <3>1, <3>2 DEF Known
  <2>9. NodeOk(M, C, n, t)
    <3>1. PlaceOk(C, n, t)
      <4>1. Done(C, s.parent)
        BY Zenon DEF NodeOk, PlaceOk
      <4>2. t.parent = s.parent /\ t.slot = Slot(t.parent) + 1
        BY <2>3, <2>4, <2>5
      <4> QED
        BY Zenon, <2>6, <4>1, <4>2 DEF PlaceOk
    <3>2. ProposalOk(M, n, t)
      BY Zenon, <1>2, <2>3, <2>4, <2>5, <2>7, <2>8 DEF ProposalOk, Committed, current_slot_prepare_is_present
    <3>3. TicketsOk(M, n, t)
      BY Zenon, <2>3, <2>7 DEF TicketsOk
    <3>4. TimeoutsOk(M, n, t)
      BY Zenon, <2>3, <2>7 DEF TimeoutsOk
    <3>5. BuffersOk(M, t) /\ LeadsOk(M, n, t)
      BY Zenon, <2>3, <2>6 DEF NodeOk, BuffersOk, LeadsOk
    <3> QED
      BY Zenon, <3>1, <3>2, <3>3, <3>4, <3>5 DEF NodeOk
  <2>10. t.slot # 0 /\ current_slot_prepare_is_present(t) /\ t.tag # "Joining" /\ qc.chain = t.cp.chain
    BY <1>2, <1>3, <2>3, <2>4 DEF current_slot_prepare_is_present
  <2>11. CommitAndAdvance(n, t, qc).commits \subseteq C
    BY Zenon, <2>1
  <2> QED
    BY Zenon, <1>3, <2>1, <2>2, <2>9, <2>10, <2>11, CommitAndAdvanceOk
<1> QED
  BY Zenon, <1>4, <1>5

(* A commit certificate from the leader. *)
LEMMA OnCommitOk ==
    ASSUME NEW M, NEW C, NEW n \in Nodes, NEW s \in RoundStates, NEW m \in M,
           M \subseteq Messages, m.type = "Commit", NodeOk(M, C, n, s), JoinOk(s),
           on_commit(n, s, m).commits \subseteq C
    PROVE  ResultOk(M, C, n, on_commit(n, s, m))
<1> DEFINE qc == CommitQC(m.chain, m.from)
           r == on_commit(n, s, m)
<1>1. m.from \in Nodes /\ m.chain \in Chains
  BY Zenon, MessageFields
<1>2. qc \in CommitQCs /\ qc.chain = m.chain /\ qc # ForcedCommitQc
  BY Zenon, <1>1 DEF CommitQC, CommitQCs, ForcedCommitQc
<1> HIDE DEF qc
<1>3. CASE s.tag = "Joining"
  <2>1. r = on_commit_while_joining(n, s, m)
    BY Zenon, <1>3 DEF on_commit
  <2>2. on_commit_while_joining(n, s, m).commits \subseteq C
    BY Zenon, <2>1
  <2> QED
    BY Zenon, <1>3, <2>1, <2>2, OnCommitWhileJoiningOk
<1>4. CASE s.tag # "Joining"
  <2>1. r = Ok(s) \/ /\ r = CommitAndAdvance(n, s, qc)
                     /\ current_slot_prepare_is_present(s) /\ IsHashOf(m.chain, s.cp)
    BY Zenon, <1>4 DEF on_commit, qc
  <2>2. CASE r = Ok(s)
    BY Zenon, <2>2, OkOk
  <2>3. CASE /\ r = CommitAndAdvance(n, s, qc)
             /\ current_slot_prepare_is_present(s) /\ IsHashOf(m.chain, s.cp)
    <3>1. qc.chain = s.cp.chain /\ ~s.cp.taken
      BY Zenon, <1>2, <2>3 DEF IsHashOf
    <3>2. s.slot # 0
      BY Zenon, <3>1, HashNeedsSlot
    <3>3. CommitAndAdvance(n, s, qc).commits \subseteq C
      BY Zenon, <2>3
    <3> QED
      BY Zenon, <1>2, <1>4, <2>3, <3>1, <3>2, <3>3, CommitAndAdvanceOk
  <2> QED
    BY Zenon, <2>1, <2>2, <2>3
<1> QED
  BY Zenon, <1>3, <1>4

---------------------------------------------------------------------------
(* Serving, catching up and leading a round. *)

(* A request for a prepare. *)
LEMMA OnSyncRequestOk ==
    ASSUME NEW M, NEW C, NEW n, NEW s, NEW m, NodeOk(M, C, n, s), JoinOk(s)
    PROVE  ResultOk(M, C, n, on_sync_request(n, s, m))
<1> DEFINE out == {SyncReply(n, m.from, p) : p \in {q \in s.prepares : q.chain = m.chain}}
<1>1. ASSUME NEW a \in out PROVE MessageOk(M, C, a)
  <2>1. PICK p \in s.prepares : a = SyncReply(n, m.from, p)
    BY Zenon
  <2>2. p \in M
    BY Zenon, <2>1 DEF NodeOk, BuffersOk
  <2>3. a.type = "SyncReply" /\ a.prepare = p
    BY Zenon, <2>1 DEF SyncReply
  <2> QED
    BY Zenon, <2>2, <2>3 DEF MessageOk
<1>2. on_sync_request(n, s, m) = Result(s, out, {}, TRUE)
  BY Zenon DEF on_sync_request
<1> HIDE DEF out
<1> QED
  BY <1>1, <1>2 DEF Result, ResultOk

(* A block that a joining node receives was committed. *)
LEMMA OnNewBlockOk ==
    ASSUME NEW M, NEW C, NEW n \in Nodes, NEW s \in RoundStates, NEW e \in C, e \in CommitEvents,
           EventOk(M, C, e), NodeOk(M, C, n, s), JoinOk(s)
    PROVE  ResultOk(M, C, n, on_new_block(s, e.chain))
<1> DEFINE k == Slot(e.chain)
           k1 == k + 1
           cp == [chain |-> e.chain, taken |-> TRUE]
           t == [s EXCEPT !.synced = k, !.slot = k1, !.view = 0, !.parent = e.chain, !.cp = cp,
                          !.requests = {}]
<1>1. e.chain \in Chains /\ k \in Nat /\ k1 \in Nat
  BY DEF CommitEvents, Chains, Slot
<1>2. cp \in Proposals /\ cp.chain = e.chain /\ cp.taken
  BY Zenon, <1>1 DEF Proposals
<1>3. CASE s.tag # "Joining" \/ s.synced >= k
  BY Zenon, <1>3, OkOk DEF on_new_block
<1>4. CASE s.tag = "Joining" /\ ~(s.synced >= k)
  <2>1. on_new_block(s, e.chain) = Ok(t)
    BY Zenon, <1>4 DEF on_new_block
  <2>2. Slot(e.chain) = k /\ k1 = k + 1 /\ k # k1
    BY <1>1
  <2> HIDE DEF k, k1, cp
  <2>3. t \in RoundStates
    BY Zenon, <1>1, <1>2 DEF RoundStates
  <2>4. /\ t.slot = k1 /\ t.view = 0 /\ t.parent = e.chain /\ t.cp = cp
        /\ t.tag = s.tag /\ t.step = s.step /\ t.pending = s.pending /\ t.bufqc = s.bufqc
        /\ t.pqc = s.pqc /\ t.forward = s.forward /\ t.requests = {}
        /\ t.prepares = s.prepares /\ t.synced = k
    BY Zenon, <1>1, <1>2 DEF RoundStates
  <2> HIDE DEF t
  <2>5. n \notin Validators
    BY Zenon, <1>4 DEF NodeOk, PlaceOk
  <2>6. s.pending = None /\ s.step = "StartNewSlot" /\ s.bufqc = None /\ s.pqc = None
    <3>1. round_leader(s.slot, s.view) \in Validators
      BY Zenon, LeaderIsValidator DEF RoundStates
    <3> QED
      BY Zenon, <1>4, <2>5, <3>1 DEF NodeOk, TicketsOk, ProposalOk, JoinOk
  <2>7. Done(C, e.chain)
    BY Zenon DEF EventOk, Done
  <2>8. NodeOk(M, C, n, t)
    <3>1. PlaceOk(C, n, t)
      BY Zenon, <2>2, <2>4, <2>5, <2>7 DEF PlaceOk
    <3>2. ProposalOk(M, n, t)
      BY Zenon, <1>2, <2>2, <2>4, <2>6 DEF ProposalOk, Committed, current_slot_prepare_is_present
    <3>3. TicketsOk(M, n, t)
      BY Zenon, <2>4, <2>6 DEF TicketsOk
    <3>4. TimeoutsOk(M, n, t)
      BY Zenon, <2>4, <2>6 DEF TimeoutsOk
    <3>5. BuffersOk(M, t) /\ LeadsOk(M, n, t)
      BY Zenon, <2>4, <2>5 DEF NodeOk, BuffersOk, LeadsOk
    <3> QED
      BY Zenon, <3>1, <3>2, <3>3, <3>4, <3>5 DEF NodeOk
  <2>9. JoinOk(t)
    BY Zenon, <2>2, <2>4, <2>6 DEF JoinOk
  <2> QED
    BY Zenon, <2>1, <2>8, <2>9, OkOk
<1> QED
  BY Zenon, <1>3, <1>4

(* The parent of a new proposal is the one it was made on. *)
LEMMA ParentOfAppend ==
    ASSUME NEW chain \in Chains, NEW cut \in Cuts
    PROVE  /\ Append(chain, cut) \in Chains /\ Slot(Append(chain, cut)) = Slot(chain) + 1
           /\ Parent(Append(chain, cut)) = chain
<1> DEFINE a == Append(chain, cut)
<1>1. /\ chain \in Seq(Cuts) /\ a \in Seq(Cuts) /\ Len(a) = Len(chain) + 1 /\ Len(chain) \in Nat
      /\ \A i \in 1..Len(chain) : a[i] = chain[i]
  BY DEF Chains
<1> HIDE DEF a
<1>2. Len(a) - 1 = Len(chain)
  BY <1>1
<1>3. Parent(a) = SubSeq(a, 1, Len(chain))
  BY Zenon, <1>2 DEF Parent
<1>4. SubSeq(a, 1, Len(chain)) = [i \in 1..Len(chain) |-> a[i]]
  BY <1>1
<1>5. chain = [i \in 1..Len(chain) |-> chain[i]]
  BY <1>1
<1>6. Parent(a) = chain
  BY Zenon, <1>1, <1>3, <1>4, <1>5
<1> QED
  BY Zenon, <1>1, <1>6 DEF Chains, Slot, a

(* One prepare, of a slot and view in which none was sent. *)
NewPrepare(M, n, r) ==
    \E p : /\ r.out = {p} /\ p.from = n
           /\ \A q \in M : q.type = "Prepare" /\ Slot(q.chain) = Slot(p.chain) => q.view # p.view

(* The leader of a round uses its ticket for one proposal, the first of its slot and view. *)
LEMMA StartRoundOk ==
    ASSUME NEW M, NEW K, NEW C, NEW n \in Nodes, NEW s \in RoundStates, NEW r \in start_round(n, s),
           M \subseteq Messages, NodeOk(M, C, n, s), JoinOk(s), \A m \in M : MessageOk(M, C, m),
           K = M \cup r.out
    PROVE  ResultOk(K, C, n, r) /\ NewPrepare(M, n, r)
<1> DEFINE prepare(chain) == Prepare(n, chain, s.pending, s.view)
           next(chain) == [s EXCEPT !.cp = Proposal(chain), !.step = "PrepareVote",
                                    !.pending = None]
           proposed(chain) == Result(push(next(chain), prepare(chain)), {prepare(chain)}, {}, TRUE)
<1>1. s.pending # None /\ s.tag = "Leader" /\ s.slot \in Nat /\ s.view \in Nat
  BY Zenon DEF start_round, RoundStates
<1>2. n = round_leader(s.slot, s.view) /\ TicketFor(M, s.pending, s.slot, s.view, s.parent)
  BY Zenon, <1>1 DEF NodeOk, TicketsOk
<1>3. n \in Validators
  BY Zenon, <1>1, <1>2, LeaderIsValidator
<1>4. Slot(Prefix) \in Nat /\ Slot(Prefix) < s.slot /\ s.slot = Slot(s.parent) + 1
  <2>1. Slot(Prefix) \in Nat
    BY CutsAssumption DEF Slot
  <2> QED
    BY <1>1, <1>3, <2>1 DEF NodeOk, PlaceOk
<1>5. s.cp.chain \in Chains /\ s.parent \in Chains
  BY Zenon DEF RoundStates, Proposals
<1>6. \E chain : r = proposed(chain) /\ chain \in Chains /\ Slot(chain) = s.slot /\ Parent(chain) = s.parent
  <2> HIDE DEF prepare, next
  <2>1. CASE current_slot_prepare_is_present(s)
    <3>1. r = proposed(s.cp.chain)
      BY Zenon, <2>1 DEF start_round, prepare, next
    <3>2. Slot(s.cp.chain) = s.slot /\ Parent(s.cp.chain) = s.parent
      BY <1>1, <1>4, <2>1 DEF NodeOk, ProposalOk, Committed, current_slot_prepare_is_present
    <3> QED
      BY Zenon, <1>5, <3>1, <3>2
  <2>2. CASE ~current_slot_prepare_is_present(s)
    <3>1. PICK cut \in NewCuts(s.parent) : r = proposed(Append(s.parent, cut))
      BY Zenon, <2>2 DEF start_round, prepare, next
    <3>2. cut \in Cuts
      BY Zenon DEF NewCuts
    <3> QED
      BY Zenon, <1>4, <1>5, <3>1, <3>2, ParentOfAppend
  <2> QED
    BY Zenon, <2>1, <2>2
<1>7. PICK chain : r = proposed(chain) /\ chain \in Chains /\ Slot(chain) = s.slot /\ Parent(chain) = s.parent
  BY Zenon, <1>6
<1> DEFINE p == prepare(chain)
           u == next(chain)
           t == push(u, p)
<1>8. /\ p \in Prepares /\ p.type = "Prepare" /\ p.from = n /\ p.chain = chain
      /\ p.ticket = s.pending /\ p.view = s.view
  BY Zenon, <1>1, <1>7 DEF Prepare, Prepares, RoundStates
<1>9. Proposal(chain) \in Proposals /\ Proposal(chain).chain = chain /\ ~Proposal(chain).taken
  BY Zenon, <1>7 DEF Proposal, Proposals
<1>10. u \in RoundStates
  BY Zenon, <1>9 DEF RoundStates
<1>11. /\ u.slot = s.slot /\ u.view = s.view /\ u.parent = s.parent /\ u.cp = Proposal(chain)
       /\ u.tag = s.tag /\ u.step = "PrepareVote" /\ u.pending = None /\ u.bufqc = s.bufqc
       /\ u.pqc = s.pqc /\ u.forward = s.forward /\ u.requests = s.requests
       /\ u.prepares = s.prepares
  BY Zenon, <1>9 DEF RoundStates
<1>12. r.st = t /\ r.out = {p} /\ r.commits = {}
  BY Zenon, <1>7 DEF Result
<1> HIDE DEF prepare, next, p, u
<1>13. M \subseteq K /\ p \in K /\ K = M \cup {p}
  BY Zenon, <1>12
<1>14. ASSUME NEW q \in M, q.type = "Prepare", Slot(q.chain) = s.slot, q.view = s.view
       PROVE  FALSE
  <2>1. q.from = n
    BY Zenon, <1>2, <1>14 DEF MessageOk, PrepareOk
  <2>2. Led(s, q)
    BY Zenon, <1>3, <1>14, <2>1 DEF NodeOk, LeadsOk
  <2> QED
    BY <1>1, <1>14, <2>2 DEF Led
<1>15. NodeOk(K, C, n, u)
  <2>1. PlaceOk(C, n, u)
    BY Zenon, <1>4, <1>11 DEF NodeOk, PlaceOk
  <2>2. ProposalOk(K, n, u)
    <3>1. Known(K, chain)
      BY Zenon, <1>8, <1>13 DEF Known
    <3> QED
      BY Zenon, <1>3, <1>7, <1>9, <1>11, <3>1 DEF ProposalOk, Committed, current_slot_prepare_is_present
  <2>3. TicketsOk(K, n, u)
    BY Zenon, <1>11 DEF NodeOk, TicketsOk
  <2>4. TimeoutsOk(K, n, u)
    <3>1. TimeoutsOk(K, n, s)
      BY <1>13, ShownGrows DEF NodeOk, TimeoutsOk
    <3> QED
      BY Zenon, <1>11, <3>1 DEF TimeoutsOk, SeenPrepareQC
  <2>5. BuffersOk(K, u)
    BY Zenon, <1>11, <1>13 DEF NodeOk, BuffersOk
  <2>6. LeadsOk(K, n, u)
    <3>1. ASSUME NEW q \in M, q.type = "Prepare", q.from = n PROVE Led(u, q)
      BY Zenon, <1>3, <1>11, <3>1 DEF NodeOk, LeadsOk, Led
    <3>2. Led(u, p)
      BY Zenon, <1>7, <1>8, <1>11 DEF Led
    <3> QED
      BY Zenon, <1>13, <3>1, <3>2 DEF LeadsOk
  <2> QED
    BY Zenon, <2>1, <2>2, <2>3, <2>4, <2>5, <2>6 DEF NodeOk
<1>16. NodeOk(K, C, n, t) /\ t.tag = "Leader"
  <2>1. Pushed(K, C, n, u, t)
    BY Zenon, <1>8, <1>10, <1>13, <1>15, PushOk
  <2> HIDE DEF t
  <2> QED
    BY Zenon, <1>1, <1>11, <2>1 DEF Pushed
<1>17. PrepareOk(K, C, p)
  <2>1. chain # Genesis
    BY <1>4, <1>5, <1>7 DEF Slot, Genesis, Chains
  <2>2. TicketFor(K, s.pending, s.slot, s.view, s.parent)
    BY Zenon, <1>2, <1>13, TicketGrows
  <2>3. Done(C, s.parent)
    BY Zenon DEF NodeOk, PlaceOk
  <2> QED
    BY <1>1, <1>2, <1>4, <1>7, <1>8, <2>1, <2>2, <2>3 DEF PrepareOk
<1>18. MessageOk(K, C, p)
  BY Zenon, <1>8, <1>17 DEF MessageOk
<1>19. ResultOk(K, C, n, r)
  BY Zenon, <1>12, <1>16, <1>18 DEF ResultOk, JoinOk
<1>20. Slot(p.chain) = s.slot /\ p.view = s.view
  BY Zenon, <1>7, <1>8
<1>21. \A q \in M : q.type = "Prepare" /\ Slot(q.chain) = Slot(p.chain) => q.view # p.view
  BY Zenon, <1>14, <1>20
<1> HIDE DEF t, proposed
<1>22. NewPrepare(M, n, r)
  BY Zenon, <1>8, <1>12, <1>21 DEF NewPrepare
<1> QED
  BY Zenon, <1>19, <1>22

---------------------------------------------------------------------------
(* What each handler sends. *)

Sends(r, types) == \A m \in r.out : m.type \in types

(* A handler that stops sends nothing, *)
LEMMA OkSends ==
    ASSUME NEW s, NEW types
    PROVE  /\ Sends(Ok(s), types) /\ Sends(Err(s), types) /\ Ok(s).out = {} /\ Err(s).out = {}
BY Zenon DEF Ok, Err, Result, Sends

(* nor does one that advances to the next round, *)
LEMMA AdvanceSendsNothing ==
    ASSUME NEW n \in Nodes, NEW s \in RoundStates, NEW ticket \in RoundTickets
    PROVE  advance_round(n, s, ticket).out = {}
<1>1. CASE s.tag = "Joining"
  <2>1. apply_ticket(n, s, ticket) = Err(s)
    BY Zenon, <1>1 DEF apply_ticket
  <2>2. advance_round(n, s, ticket) = Err(s)
    BY <2>1 DEF advance_round, Err, Result
  <2> QED
    BY Zenon, <2>2, OkSends
<1>2. CASE s.tag # "Joining" /\ ticket \in TimeoutQCs
  BY Zenon, <1>2, NextViewFields
<1>3. CASE s.tag # "Joining" /\ ticket \in CommitQCs \cup {ForcedCommitQc}
  BY Zenon, <1>3, NextSlotFields
<1> QED
  BY Zenon, <1>1, <1>2, <1>3 DEF RoundTickets

(* commits, *)
LEMMA CommitSendsNothing ==
    ASSUME NEW n \in Nodes, NEW s \in RoundStates, NEW ticket \in CommitQCs \cup {ForcedCommitQc}
    PROVE  CommitAndAdvance(n, s, ticket).out = {}
<1> DEFINE a == advance_round(n, s, ticket)
<1>1. ticket \in RoundTickets
  BY Zenon DEF RoundTickets
<1>2. a \in Results /\ a.out = {}
  BY Zenon, <1>1, AdvanceRoundType, AdvanceSendsNothing
<1> HIDE DEF a
<1>3. CommitAndAdvance(n, s, ticket) = [a EXCEPT !.commits = {CommitEvent(n, s, ticket = ForcedCommitQc)}]
  BY Zenon DEF CommitAndAdvance, a
<1> QED
  BY Zenon, <1>2, <1>3 DEF Results

(* or processes the ticket of a prepare. *)
LEMMA TicketSendsNothing ==
    ASSUME NEW n \in Nodes, NEW s \in RoundStates, NEW p \in Prepares
    PROVE  ProcessTicket(n, s, p).out = {}
<1>1. CASE p.ticket = GenesisTicket
  BY <1>1, OkSends DEF ProcessTicket, GenesisTicket
<1>2. CASE p.ticket \in CommitQCs
  <2>1. p.ticket.kind = "CommitQC"
    BY Zenon, <1>2 DEF CommitQCs
  <2>2. verify_and_process_commit_ticket(n, s, p).out = {}
    BY Zenon, <1>2, OkSends, CommitSendsNothing DEF verify_and_process_commit_ticket
  <2> QED
    BY Zenon, <2>1, <2>2 DEF ProcessTicket
<1>3. CASE p.ticket \in TimeoutQCs
  <2> DEFINE forces == IsNextSlot(s, p) /\ IsHashOf(Parent(p.chain), s.cp)
             f == IF forces THEN CommitAndAdvance(n, s, ForcedCommitQc) ELSE Ok(s)
             v == verify_tc(f.st, p.ticket, f.st.slot, p.view - 1)
             a == advance_round(n, v.st, p.ticket)
             r == verify_and_process_tc_ticket(n, s, p)
  <2>1. p.ticket.kind = "TimeoutQC" /\ p.ticket \in RoundTickets
    BY Zenon, <1>3 DEF TimeoutQCs, RoundTickets
  <2>2. f \in Results /\ f.out = {}
    BY Zenon, OkType, OkSends, CommitAndAdvanceType, CommitSendsNothing
  <2> HIDE DEF f, forces
  <2>3. v \in Results /\ v.out = {}
    <3>1. v \in Results
      BY Zenon, <1>3, <2>2, VerifyTcType DEF Results, RoundStates
    <3>2. v.out = {}
      BY Zenon, OkSends DEF verify_tc
    <3> QED
      BY Zenon, <3>1, <3>2
  <2> HIDE DEF v
  <2>4. a \in Results /\ a.out = {}
    BY Zenon, <2>1, <2>3, AdvanceRoundType, AdvanceSendsNothing DEF Results
  <2> HIDE DEF a
  <2>5. \/ r = Err(s)
        \/ r = [f EXCEPT !.ok = FALSE]
        \/ r = [a EXCEPT !.commits = f.commits]
        \/ r = [v EXCEPT !.commits = f.commits]
    BY Zenon DEF verify_and_process_tc_ticket, f, v, a, forces
  <2> HIDE DEF r
  <2>6. r.out = {}
    BY Zenon, <2>2, <2>3, <2>4, <2>5, OkSends DEF Results
  <2> QED
    BY Zenon, <2>1, <2>6 DEF ProcessTicket, r
<1> QED
  BY Zenon, <1>1, <1>2, <1>3 DEF Prepares, Tickets

(* A prepare is answered with a vote or a request for its parent. *)
LEMMA OnPrepareSends ==
    ASSUME NEW n \in Nodes, NEW s0 \in RoundStates, NEW p \in Prepares,
           NEW r \in on_prepare(n, s0, p)
    PROVE  Sends(r, {"PrepareVote", "SyncRequest"})
<1> DEFINE s == IF s0.tag = "Joining" THEN [s0 EXCEPT !.tag = "Follower"] ELSE s0
           t == ProcessTicket(n, s, p)
           a == AcceptPrepare(n, t.st, p)
<1>1. s \in RoundStates
  BY DEF RoundStates
<1> HIDE DEF s
<1>2. t \in Results /\ t.out = {}
  BY Zenon, <1>1, ProcessTicketType, TicketSendsNothing
<1> HIDE DEF t
<1>3. a \in Results
  BY Zenon, <1>2, AcceptPrepareType DEF Results
<1>4. Sends(a, {"PrepareVote", "SyncRequest"})
  <2> DEFINE u == push([t.st EXCEPT !.cp = Proposal(p.chain)], p)
             vote == IF n \in Validators THEN {PrepareVote(n, p.from, p.chain)} ELSE {}
             w == [u EXCEPT !.forward = CHOOSE q \in next_prepares(u) : TRUE]
  <2>1. a = Result(u, vote, {}, TRUE) \/ a = Ok(w)
    <3> HIDE DEF u, vote
    <3> QED
      BY Zenon DEF AcceptPrepare, u, vote
  <2>2. \A m \in vote : m.type = "PrepareVote"
    BY DEF PrepareVote
  <2> HIDE DEF u, vote, w
  <2> QED
    BY <2>1, <2>2, OkSends DEF Sends, Result
<1> HIDE DEF a
<1>5. \/ r = Ok(push(s0, p))
      \/ r = Ok(s)
      \/ r \in buffer_prepare_message_and_fetch_missing_parent(n, s, p)
      \/ r = [t EXCEPT !.ok = FALSE]
      \/ r = [a EXCEPT !.commits = t.commits]
  BY Zenon DEF on_prepare, s, t, a
<1>6. CASE r \in buffer_prepare_message_and_fetch_missing_parent(n, s, p)
  <2> DEFINE u == IF p.chain \in {q.chain : q \in s.prepares} THEN s ELSE push(s, p)
             unknown == {k \in 0..(Slot(p.chain) - 1) :
                             SubSeq(p.chain, 1, k) \notin {q.chain : q \in u.prepares}}
             missing == {k \in unknown : \A j \in unknown : j <= k}
             request(to) == {SyncRequest(n, to, SubSeq(p.chain, 1, k)) : k \in missing}
             asks == {Result(u, request(to), {}, TRUE) : to \in Validators \ {n}}
  <2>1. buffer_prepare_message_and_fetch_missing_parent(n, s, p) \in {{Ok(u)}, asks}
    BY Zenon DEF buffer_prepare_message_and_fetch_missing_parent
  <2> HIDE DEF u, missing
  <2>2. ASSUME NEW to, NEW m \in request(to) PROVE m.type \in {"PrepareVote", "SyncRequest"}
    BY DEF SyncRequest
  <2> HIDE DEF request
  <2>3. \A x \in asks : Sends(x, {"PrepareVote", "SyncRequest"})
    BY <2>2 DEF Result, Sends
  <2> HIDE DEF asks
  <2> QED
    BY Zenon, <1>6, <2>1, <2>3, OkSends
<1>7. CASE r = [t EXCEPT !.ok = FALSE] \/ r = [a EXCEPT !.commits = t.commits]
  BY Zenon, <1>2, <1>3, <1>4, <1>7 DEF Results, Sends
<1> QED
  BY <1>5, <1>6, <1>7, OkSends

(* A timeout is answered with a timeout, a certificate or both. *)
LEMMA OnTimeoutSends ==
    ASSUME NEW n \in Nodes, NEW s \in RoundStates, NEW m,
           m.from \in Nodes, m.slot \in Nat, m.tk \in TimeoutKinds
    PROVE  Sends(on_timeout(n, s, m), {"Timeout", "TimeoutCertificate"})
<1>1. ASSUME NEW t \in RoundStates PROVE Sends(EmitCertificate(n, t), {"Timeout", "TimeoutCertificate"})
  <2> DEFINE tk == IF SeenPrepareQC(t) THEN PrepareQC(t.pqc.qc, t.cp) ELSE NilProposal
             qc == TimeoutQC(t.slot, t.view, t.parent, tk,
                             {r.from : r \in t.requests} \subseteq Validators)
             leads == round_leader(t.slot, t.view + 1) = n
             ready == IF leads
                      THEN [t EXCEPT !.timer = "Scheduled",
                                     !.tag = IF @ = "Joining" THEN "Leader" ELSE @]
                      ELSE [t EXCEPT !.timer = "CertificateEmitted"]
             out == IF leads THEN {} ELSE {TimeoutCertificate(n, qc)}
             e == EmitCertificate(n, t)
  <2>1. e = [advance_round(n, ready, qc) EXCEPT !.out = out]
    <3> HIDE DEF tk, qc, leads, ready
    <3> QED
      BY Zenon DEF EmitCertificate, tk, qc, leads, ready
  <2>2. e \in Results
    BY Zenon, EmitCertificateType
  <2>3. \A x \in out : x.type \in {"Timeout", "TimeoutCertificate"}
    BY DEF TimeoutCertificate
  <2> HIDE DEF out, ready, qc, e
  <2>4. e.out = out
    BY Zenon, <2>1, <2>2 DEF Results
  <2> QED
    BY Zenon, <2>3, <2>4 DEF Sends, e
<1>2. ASSUME NEW t \in RoundStates PROVE Sends(CountTimeouts(n, t), {"Timeout", "TimeoutCertificate"})
  <2> DEFINE from == {r.from : r \in t.requests}
             own == get_timeout_message(n, t)
             joins == IsMutiny(from) /\ n \notin from
             u == IF joins
                  THEN [t EXCEPT !.requests = @ \cup {[from |-> n, tk |-> own.tk]},
                                 !.timer = "Scheduled"]
                  ELSE t
             sent == IF joins THEN {own} ELSE {}
             e == EmitCertificate(n, u)
             c == CountTimeouts(n, t)
  <2>1. own.tk \in TimeoutKinds /\ own.type = "Timeout"
    BY Zenon, TimeoutMessageType DEF get_timeout_message, Timeout
  <2> HIDE DEF own
  <2>2. u \in RoundStates /\ \A x \in sent : x.type \in {"Timeout", "TimeoutCertificate"}
    BY Zenon, <2>1, AddRequestType
  <2> HIDE DEF u, sent
  <2>3. e \in Results /\ Sends(e, {"Timeout", "TimeoutCertificate"})
    BY Zenon, <1>1, <2>2, EmitCertificateType
  <2> HIDE DEF e
  <2>4. \/ c = Result(u, sent, {}, TRUE) \/ c = Result(u, sent, {}, FALSE)
        \/ c = [e EXCEPT !.out = @ \cup sent]
    BY Zenon DEF CountTimeouts, own, joins, u, sent, e
  <2> HIDE DEF c
  <2>5. Sends(c, {"Timeout", "TimeoutCertificate"})
    BY <2>2, <2>3, <2>4 DEF Result, Results, Sends
  <2> QED
    BY Zenon, <2>5 DEF c
<1> DEFINE t == RecordPrepareQC(s, m.slot, m.tk)
           request == [from |-> m.from, tk |-> m.tk]
           u == [t EXCEPT !.requests = @ \cup {request}]
<1>3. t \in RoundStates
  BY Zenon, RecordType
<1> HIDE DEF t
<1>4. u \in RoundStates
  BY Zenon, <1>3, AddRequestType
<1>5. Sends(CountTimeouts(n, u), {"Timeout", "TimeoutCertificate"})
  BY Zenon, <1>2, <1>4
<1> HIDE DEF u
<1>6. \/ on_timeout(n, s, m) = Ok(s) \/ on_timeout(n, s, m) = Err(s)
      \/ on_timeout(n, s, m) = Ok(t) \/ on_timeout(n, s, m) = CountTimeouts(n, u)
  BY Zenon DEF on_timeout, t, u
<1> QED
  BY Zenon, <1>5, <1>6, OkSends

(* So is the expiry of the timer. *)
LEMMA OnTimeoutTickSends ==
    ASSUME NEW n \in Nodes, NEW s \in RoundStates
    PROVE  Sends(on_timeout_tick(n, s), {"Timeout", "TimeoutCertificate"})
<1> DEFINE m == get_timeout_message(n, s)
           r == on_timeout(n, s, m)
           k == on_timeout_tick(n, s)
<1>1. m.from \in Nodes /\ m.slot \in Nat /\ m.tk \in TimeoutKinds /\ m.type = "Timeout"
  BY Zenon, TimeoutMessageType DEF get_timeout_message, Timeout, RoundStates
<1> HIDE DEF m
<1>2. r \in Results /\ Sends(r, {"Timeout", "TimeoutCertificate"})
  BY Zenon, <1>1, OnTimeoutType, OnTimeoutSends
<1> HIDE DEF r
<1>3. k = r \/ k = [r EXCEPT !.st.timer = "Scheduled", !.out = @ \cup {m}]
  BY Zenon DEF on_timeout_tick, m, r
<1> HIDE DEF k
<1>4. k.out \subseteq r.out \cup {m}
  BY Zenon, <1>2, <1>3 DEF Results
<1> QED
  BY Zenon, <1>1, <1>2, <1>4 DEF Sends, k

(* What votes, Confirms, requests, blocks and the start of a round are answered with. *)
LEMMA OthersSend ==
    ASSUME NEW n \in Nodes, NEW s \in RoundStates
    PROVE  /\ \A m : Sends(on_prepare_vote(n, s, m), {"Confirm"})
           /\ \A m : Sends(on_confirm(n, s, m), {"ConfirmAck"})
           /\ \A m : Sends(on_sync_request(n, s, m), {"SyncReply"})
           /\ \A chain : Sends(on_new_block(s, chain), {})
           /\ \A r \in start_round(n, s) : Sends(r, {"Prepare"})
<1>1. ASSUME NEW m PROVE Sends(on_prepare_vote(n, s, m), {"Confirm"})
  <2> DEFINE t == [s EXCEPT !.votes = @ \cup {[from |-> m.from, chain |-> m.chain]}]
             u == [t EXCEPT !.step = "ConfirmAck"]
  <2> HIDE DEF t, u
  <2>1. \/ on_prepare_vote(n, s, m) \in {Ok(s), Err(s), Ok(t), Err(t)}
        \/ on_prepare_vote(n, s, m) = Result(u, {Confirm(n, m.chain)}, {}, TRUE)
    BY Zenon DEF on_prepare_vote, t, u
  <2> QED
    BY <2>1, OkSends DEF Sends, Result, Confirm
<1>2. ASSUME NEW m PROVE Sends(on_confirm(n, s, m), {"ConfirmAck"})
  <2> DEFINE t == update_highest_seen_prepare_qc(s, s.slot, m.chain)
             out == IF n \in Validators
                    THEN {ConfirmAck(n, round_leader(s.slot, s.view), m.chain)}
                    ELSE {}
  <2>1. \A x \in out : x.type = "ConfirmAck"
    BY DEF ConfirmAck
  <2> HIDE DEF t, out
  <2>2. on_confirm(n, s, m) = Ok(s) \/ on_confirm(n, s, m) = Result(t, out, {}, TRUE)
    BY Zenon DEF on_confirm, t, out
  <2> QED
    BY <2>1, <2>2, OkSends DEF Sends, Result
<1>3. ASSUME NEW m PROVE Sends(on_sync_request(n, s, m), {"SyncReply"})
  BY DEF on_sync_request, Sends, Result, SyncReply
<1>4. ASSUME NEW chain PROVE Sends(on_new_block(s, chain), {})
  <2> DEFINE t == [s EXCEPT !.synced = Slot(chain), !.slot = Slot(chain) + 1, !.view = 0,
                      !.parent = chain, !.cp = [chain |-> chain, taken |-> TRUE],
                      !.requests = {}]
  <2> HIDE DEF t
  <2>1. on_new_block(s, chain) \in {Ok(s), Ok(t)}
    BY Zenon DEF on_new_block, t
  <2> QED
    BY Zenon, <2>1, OkSends
<1>5. ASSUME NEW r \in start_round(n, s) PROVE Sends(r, {"Prepare"})
  <2> DEFINE t(chain) == push([s EXCEPT !.cp = Proposal(chain), !.step = "PrepareVote",
                                        !.pending = None], Prepare(n, chain, s.pending, s.view))
             proposed(chain) == Result(t(chain), {Prepare(n, chain, s.pending, s.view)}, {}, TRUE)
  <2> HIDE DEF t
  <2>1. \E chain : r = proposed(chain)
    BY Zenon DEF start_round, t
  <2> QED
    BY <2>1 DEF Sends, Result, Prepare
<1> QED
  BY Zenon, <1>1, <1>2, <1>3, <1>4, <1>5

(* Acknowledgements are answered with the commit, *)
LEMMA OnConfirmAckSends ==
    ASSUME NEW n \in Nodes, NEW s \in RoundStates, NEW m, m.from \in Nodes, m.chain \in Chains
    PROVE  Sends(on_confirm_ack(n, s, m), {"Commit"})
<1> DEFINE ack == [from |-> m.from, chain |-> m.chain]
           t == [s EXCEPT !.acks = @ \cup {ack}]
           c == CommitAndAdvance(n, t, CommitQC(m.chain, n))
           k == on_confirm_ack(n, s, m)
<1>1. t \in RoundStates /\ CommitQC(m.chain, n) \in CommitQCs
  BY DEF RoundStates, CommitQC, CommitQCs
<1> HIDE DEF t
<1>2. c \in Results
  BY Zenon, <1>1, CommitAndAdvanceType
<1> HIDE DEF c
<1>3. \/ k \in {Ok(s), Err(s), Ok(t), Err(t)}
      \/ k = [c EXCEPT !.out = {Commit(n, m.chain)}]
  BY Zenon DEF on_confirm_ack, t, c
<1> HIDE DEF k
<1>4. ASSUME k = [c EXCEPT !.out = {Commit(n, m.chain)}] PROVE Sends(k, {"Commit"})
  <2>1. k.out = {Commit(n, m.chain)}
    BY Zenon, <1>2, <1>4 DEF Results
  <2> QED
    BY <2>1 DEF Sends, Commit
<1>5. ASSUME k \in {Ok(s), Err(s), Ok(t), Err(t)} PROVE Sends(k, {"Commit"})
  BY Zenon, <1>5, OkSends
<1>6. Sends(k, {"Commit"})
  BY Zenon, <1>3, <1>4, <1>5
<1> QED
  BY Zenon, <1>6 DEF k

(* a commit with nothing, *)
LEMMA OnCommitSends ==
    ASSUME NEW n \in Nodes, NEW s \in RoundStates, NEW m, m.from \in Nodes, m.chain \in Chains
    PROVE  Sends(on_commit(n, s, m), {})
<1> DEFINE qc == CommitQC(m.chain, m.from)
           t == [s EXCEPT !.cp = Proposal(m.chain), !.slot = Slot(m.chain), !.view = 0,
                          !.tag = "Follower"]
<1>1. qc \in CommitQCs \cup {ForcedCommitQc} /\ Proposal(m.chain) \in Proposals /\ Slot(m.chain) \in Nat
  BY DEF CommitQC, CommitQCs, Proposal, Proposals, Slot, Chains
<1>2. t \in RoundStates
  BY Zenon, <1>1 DEF RoundStates
<1> HIDE DEF t, qc
<1>3. CommitAndAdvance(n, t, qc).out = {} /\ CommitAndAdvance(n, s, qc).out = {}
  BY Zenon, <1>1, <1>2, CommitSendsNothing
<1>4. on_commit(n, s, m) \in {Ok(s), CommitAndAdvance(n, t, qc), CommitAndAdvance(n, s, qc)}
  BY Zenon DEF on_commit, on_commit_while_joining, t, qc
<1> QED
  BY Zenon, <1>3, <1>4, OkSends DEF Sends

(* and so is a timeout certificate. *)
LEMMA OnTimeoutCertificateSends ==
    ASSUME NEW n \in Nodes, NEW s \in RoundStates, NEW qc \in TimeoutQCs
    PROVE  Sends(on_timeout_certificate(n, s, qc), {})
<1> DEFINE v == verify_tc(s, qc, s.slot, s.view)
           t == [v.st EXCEPT !.tag = "Leader"]
<1>1. v \in Results /\ v.out = {}
  <2>1. v \in Results
    BY Zenon, VerifyTcType DEF RoundStates
  <2>2. v.out = {}
    BY Zenon, OkSends DEF verify_tc
  <2> QED
    BY Zenon, <2>1, <2>2
<1> HIDE DEF v
<1>2. v.st \in RoundStates /\ t \in RoundStates /\ qc \in RoundTickets
  BY <1>1 DEF Results, RoundStates, RoundTickets
<1> HIDE DEF t
<1>3. advance_round(n, v.st, qc).out = {} /\ advance_round(n, t, qc).out = {}
  BY Zenon, <1>2, AdvanceSendsNothing
<1>4. on_timeout_certificate(n, s, qc) \in
        {Ok(s), v, advance_round(n, v.st, qc), advance_round(n, t, qc)}
  BY Zenon DEF on_timeout_certificate, v, t
<1> QED
  BY Zenon, <1>1, <1>3, <1>4, OkSends DEF Sends

---------------------------------------------------------------------------
(* One step of the network. *)

(* A step of node n, other than a restart. *)
Step(n) ==
    \/ OnPrepare(n) \/ FastForward(n) \/ OnPrepareVote(n) \/ OnConfirm(n) \/ OnConfirmAck(n)
    \/ OnCommit(n) \/ OnTimeout(n) \/ OnTimeoutCertificate(n) \/ OnSyncRequest(n)
    \/ OnSyncReply(n) \/ OnTimeoutTick(n) \/ StartRound(n) \/ NewBlock(n)

(* Which step it takes to send an acknowledgement, a timeout or a prepare. *)
SentBy(n, m) ==
    /\ m.type = "ConfirmAck" => OnConfirm(n)
    /\ m.type = "Timeout" => OnTimeout(n) \/ OnTimeoutTick(n)
    /\ m.type = "Prepare" => StartRound(n)

(* A step sends what its handler does. *)
LEMMA HandleSends ==
    ASSUME NEW n \in Nodes, NEW r, Handle(n, r), NEW types, Sends(r, types),
           NEW m \in msgs' \ msgs
    PROVE  m.type \in types
BY Zenon DEF Handle, Sends

(* So acknowledgements, timeouts and prepares have one source each. *)
LEMMA StepSends ==
    ASSUME TypeOK, NEW n \in Nodes, Step(n), NEW m \in msgs' \ msgs
    PROVE  SentBy(n, m)
<1> USE DEF SentBy
<1>1. st[n] \in RoundStates /\ \A x \in msgs : x \in Messages
  BY Zenon DEF TypeOK
<1>2. CASE OnPrepare(n) \/ FastForward(n) \/ OnSyncReply(n)
  <2>1. \E s \in RoundStates, p \in Prepares : \E r \in on_prepare(n, s, p) : Handle(n, r)
    <3>1. CASE OnPrepare(n)
      BY Zenon, <1>1, <3>1, MessageFields DEF OnPrepare, Received
    <3>2. CASE FastForward(n)
      <4> DEFINE s == [st[n] EXCEPT !.forward = None]
      <4>1. s \in RoundStates /\ st[n].forward \in Prepares
        BY <1>1, <3>2 DEF FastForward, Idle, RoundStates
      <4>2. \E r \in on_prepare(n, s, st[n].forward) : Handle(n, r)
        BY Zenon, <3>2 DEF FastForward
      <4> HIDE DEF s
      <4> QED
        BY Zenon, <4>1, <4>2
    <3>3. CASE OnSyncReply(n)
      BY Zenon, <1>1, <3>3, MessageFields DEF OnSyncReply, Addressed, Received
    <3> QED
      BY Zenon, <1>2, <3>1, <3>2, <3>3
  <2>2. m.type \in {"PrepareVote", "SyncRequest"}
    BY Zenon, <2>1, OnPrepareSends, HandleSends
  <2> QED
    BY Zenon, <2>2
<1>3. CASE OnPrepareVote(n)
  <2>1. PICK x : Handle(n, on_prepare_vote(n, st[n], x))
    BY Zenon, <1>3 DEF OnPrepareVote
  <2>2. m.type \in {"Confirm"}
    BY Zenon, <1>1, <2>1, OthersSend, HandleSends
  <2> QED
    BY Zenon, <2>2
<1>4. CASE OnConfirm(n)
  <2>1. PICK x : Handle(n, on_confirm(n, st[n], x))
    BY Zenon, <1>4 DEF OnConfirm
  <2>2. m.type \in {"ConfirmAck"}
    BY Zenon, <1>1, <2>1, OthersSend, HandleSends
  <2> QED
    BY Zenon, <1>4, <2>2
<1>5. CASE OnConfirmAck(n)
  <2>1. PICK x \in msgs : x.type = "ConfirmAck" /\ Handle(n, on_confirm_ack(n, st[n], x))
    BY Zenon, <1>5 DEF OnConfirmAck, Addressed, Received
  <2>2. x.from \in Nodes /\ x.chain \in Chains
    BY Zenon, <1>1, <2>1, MessageFields
  <2>3. m.type \in {"Commit"}
    BY Zenon, <1>1, <2>1, <2>2, OnConfirmAckSends, HandleSends
  <2> QED
    BY Zenon, <2>3
<1>6. CASE OnCommit(n)
  <2>1. PICK x \in msgs : x.type = "Commit" /\ Handle(n, on_commit(n, st[n], x))
    BY Zenon, <1>6 DEF OnCommit, Received
  <2>2. x.from \in Nodes /\ x.chain \in Chains
    BY Zenon, <1>1, <2>1, MessageFields
  <2>3. m.type \in {}
    BY Zenon, <1>1, <2>1, <2>2, OnCommitSends, HandleSends
  <2> QED
    BY Zenon, <2>3
<1>7. CASE OnTimeout(n)
  <2>1. PICK x \in msgs : x.type = "Timeout" /\ Handle(n, on_timeout(n, st[n], x))
    BY Zenon, <1>7 DEF OnTimeout, Received
  <2>2. x.from \in Nodes /\ x.slot \in Nat /\ x.tk \in TimeoutKinds
    BY Zenon, <1>1, <2>1, MessageFields
  <2>3. m.type \in {"Timeout", "TimeoutCertificate"}
    BY Zenon, <1>1, <2>1, <2>2, OnTimeoutSends, HandleSends
  <2> QED
    BY Zenon, <1>7, <2>3
<1>8. CASE OnTimeoutCertificate(n)
  <2>1. PICK x \in msgs : /\ x.type = "TimeoutCertificate"
                          /\ Handle(n, on_timeout_certificate(n, st[n], x.qc))
    BY Zenon, <1>8 DEF OnTimeoutCertificate, Received
  <2>2. x.qc \in TimeoutQCs
    BY Zenon, <1>1, <2>1, MessageFields
  <2>3. m.type \in {}
    BY Zenon, <1>1, <2>1, <2>2, OnTimeoutCertificateSends, HandleSends
  <2> QED
    BY Zenon, <2>3
<1>9. CASE OnSyncRequest(n)
  <2>1. PICK x : Handle(n, on_sync_request(n, st[n], x))
    BY Zenon, <1>9 DEF OnSyncRequest
  <2>2. m.type \in {"SyncReply"}
    BY Zenon, <1>1, <2>1, OthersSend, HandleSends
  <2> QED
    BY Zenon, <2>2
<1>10. CASE OnTimeoutTick(n)
  <2>1. m.type \in {"Timeout", "TimeoutCertificate"}
    BY Zenon, <1>1, <1>10, OnTimeoutTickSends, HandleSends DEF OnTimeoutTick
  <2> QED
    BY Zenon, <1>10, <2>1
<1>11. CASE StartRound(n)
  <2>1. m.type \in {"Prepare"}
    BY Zenon, <1>1, <1>11, OthersSend, HandleSends DEF StartRound
  <2> QED
    BY Zenon, <1>11, <2>1
<1>12. CASE NewBlock(n)
  <2>1. PICK e \in commits : Handle(n, on_new_block(st[n], e.chain))
    BY Zenon, <1>12 DEF NewBlock
  <2>2. m.type \in {}
    BY Zenon, <1>1, <2>1, OthersSend, HandleSends
  <2> QED
    BY Zenon, <2>2
<1> QED
  BY Zenon, <1>2, <1>3, <1>4, <1>5, <1>6, <1>7, <1>8, <1>9, <1>10, <1>11, <1>12 DEF Step

(* What was in order before a step of node n still is with what the step adds. *)
LEMMA HandleGrows ==
    ASSUME TypeOK, ForkInv, NEW n \in Nodes, NEW r, Handle(n, r),
           \A m \in msgs' \ msgs : m.type # "Prepare"
    PROVE  /\ msgs \subseteq msgs' /\ commits \subseteq commits' /\ r.commits \subseteq commits'
           /\ r.out \subseteq msgs'
           /\ \A k \in Nodes : NodeOk(msgs', commits', k, st[k]) /\ JoinOk(st[k])
           /\ \A m \in msgs : MessageOk(msgs', commits', m)
           /\ \A e \in commits : EventOk(msgs', commits', e)
<1>1. /\ msgs \subseteq msgs' /\ commits \subseteq commits' /\ r.commits \subseteq commits'
      /\ r.out \subseteq msgs'
  BY Zenon DEF Handle
<1>2. ASSUME NEW k \in Nodes PROVE NodeOk(msgs', commits', k, st[k]) /\ JoinOk(st[k])
  <2>1. NodeOk(msgs, commits, k, st[k]) /\ JoinOk(st[k])
    BY Zenon DEF ForkInv
  <2> QED
    BY Zenon, <1>1, <2>1, NodeGrows
<1>3. \A m \in msgs : MessageOk(msgs', commits', m)
  <2>1. \A m \in msgs : MessageOk(msgs, commits, m)
    BY Zenon DEF ForkInv
  <2> QED
    BY Zenon, <1>1, <2>1, MessagesGrow
<1>4. \A e \in commits : EventOk(msgs', commits', e)
  <2>1. \A e \in commits : EventOk(msgs, commits, e)
    BY Zenon DEF ForkInv
  <2> QED
    BY Zenon, <1>1, <2>1, MessagesGrow
<1> QED
  BY Zenon, <1>1, <1>2, <1>3, <1>4

(* A step whose handler leaves things in order preserves the invariant. *)
LEMMA HandleOk ==
    ASSUME TypeOK, ForkInv, NEW n \in Nodes, NEW r, Handle(n, r),
           \A m \in msgs' \ msgs : m.type # "Prepare",
           ResultOk(msgs', commits', n, r)
    PROVE  ForkInv'
<1>1. /\ \A k \in Nodes : NodeOk(msgs', commits', k, st[k]) /\ JoinOk(st[k])
      /\ \A m \in msgs : MessageOk(msgs', commits', m)
      /\ \A e \in commits : EventOk(msgs', commits', e)
  BY Zenon, HandleGrows
<1>2. /\ NodeOk(msgs', commits', n, r.st) /\ JoinOk(r.st)
      /\ \A m \in r.out : MessageOk(msgs', commits', m)
      /\ \A e \in r.commits : EventOk(msgs', commits', e)
  BY Zenon DEF ResultOk
<1>3. \A k \in Nodes : st'[k] = IF k = n THEN r.st ELSE st[k]
  BY Zenon DEF Handle, TypeOK
<1>4. \A k \in Nodes : NodeOk(msgs', commits', k, st'[k]) /\ JoinOk(st'[k])
  BY Zenon, <1>1, <1>2, <1>3
<1>5. \A m \in msgs' : MessageOk(msgs', commits', m)
  BY Zenon, <1>1, <1>2 DEF Handle
<1>6. \A e \in commits' : EventOk(msgs', commits', e)
  BY Zenon, <1>1, <1>2 DEF Handle
<1>7. PrepareUnique'
  <2>1. \A p \in msgs' : p.type = "Prepare" => p \in msgs
    BY Zenon
  <2> QED
    BY Zenon, <2>1 DEF PrepareUnique, ForkInv
<1> QED
  BY Zenon, <1>4, <1>5, <1>6, <1>7 DEF ForkInv

(* A prepare, from its sender, from another node or from the buffer. *)
LEMMA HandlePrepareOk ==
    ASSUME TypeOK, TypeOK', ForkInv, NEW n \in Nodes, NEW s \in RoundStates,
           NEW p \in msgs, p \in Prepares, NEW r \in on_prepare(n, s, p), Handle(n, r),
           \A m \in msgs' \ msgs : m.type # "Prepare",
           NodeOk(msgs', commits', n, s), JoinOk(s)
    PROVE  ForkInv'
<1>1. p.type = "Prepare"
  BY Zenon DEF Prepares
<1>2. /\ p \in msgs' /\ msgs' \subseteq Messages /\ PrepareOk(msgs', commits', p)
      /\ r.commits \subseteq commits' /\ msgs \subseteq msgs' /\ commits \subseteq commits'
  <2>1. MessageOk(msgs', commits', p) /\ r.commits \subseteq commits' /\ msgs \subseteq msgs'
        /\ commits \subseteq commits'
    BY Zenon, HandleGrows
  <2> QED
    BY Zenon, <1>1, <2>1 DEF MessageOk, TypeOK
<1>3. TicketAccepted(p) => Origin(msgs, p.chain)
  <2>1. \A m \in msgs : MessageOk(msgs, commits, m)
    BY Zenon DEF ForkInv
  <2> QED
    BY Zenon, <1>1, <2>1, AcceptedHasOrigin
<1>4. TicketAccepted(p) => Origin(msgs', p.chain)
  BY Zenon, <1>2, <1>3, ShownGrows
<1>5. ResultOk(msgs', commits', n, r)
  BY Zenon, <1>2, <1>4, OnPrepareOk
<1> QED
  BY Zenon, <1>5, HandleOk

(* Every step of a node but the start of a round. *)
LEMMA StepOk ==
    ASSUME TypeOK, TypeOK', ForkInv, NEW n \in Nodes, Step(n), ~StartRound(n)
    PROVE  ForkInv'
<1>1. \A m \in msgs' \ msgs : m.type # "Prepare"
  BY Zenon, StepSends DEF SentBy
<1>2. /\ st[n] \in RoundStates /\ \A x \in msgs : x \in Messages
      /\ msgs' \subseteq Messages /\ commits \subseteq CommitEvents
  BY Zenon DEF TypeOK
<1>3. ASSUME NEW r, Handle(n, r)
      PROVE  /\ NodeOk(msgs', commits', n, st[n]) /\ JoinOk(st[n])
             /\ msgs \subseteq msgs' /\ commits \subseteq commits'
             /\ r.commits \subseteq commits' /\ r.out \subseteq msgs'
             /\ \A m \in msgs : MessageOk(msgs', commits', m)
             /\ \A e \in commits : EventOk(msgs', commits', e)
  BY Zenon, <1>1, <1>3, HandleGrows
<1>4. CASE OnPrepare(n)
  <2>0. PICK p \in msgs : /\ p.type = "Prepare"
                         /\ \E r \in on_prepare(n, st[n], p) : Handle(n, r)
    BY Zenon, <1>4 DEF OnPrepare, Received
  <2>1. PICK r \in on_prepare(n, st[n], p) : Handle(n, r)
    BY Zenon, <2>0
  <2>2. p \in Prepares
    BY Zenon, <1>2, <2>0, MessageFields
  <2> QED
    BY Zenon, <1>1, <1>2, <1>3, <2>1, <2>2, HandlePrepareOk
<1>5. CASE FastForward(n)
  <2> DEFINE s == [st[n] EXCEPT !.forward = None]
             p == st[n].forward
  <2>1. PICK r \in on_prepare(n, s, p) : Handle(n, r)
    BY Zenon, <1>5 DEF FastForward
  <2>2. NodeOk(msgs', commits', n, st[n]) /\ JoinOk(st[n]) /\ msgs \subseteq msgs'
    BY Zenon, <1>3, <2>1
  <2>3. p \in Prepares /\ p \in msgs
    BY Zenon, <1>2, <1>5 DEF FastForward, Idle, RoundStates, ForkInv, NodeOk, BuffersOk
  <2>4. s \in RoundStates
    BY <1>2 DEF RoundStates
  <2>5. /\ s.slot = st[n].slot /\ s.view = st[n].view /\ s.parent = st[n].parent
        /\ s.cp = st[n].cp /\ s.pqc = st[n].pqc /\ s.tag = st[n].tag /\ s.step = st[n].step
        /\ s.bufqc = st[n].bufqc /\ s.pending = st[n].pending /\ s.prepares = st[n].prepares
        /\ s.forward = None /\ s.requests = st[n].requests /\ s.synced = st[n].synced
    BY Zenon, <1>2 DEF RoundStates
  <2> HIDE DEF s
  <2>6. s.prepares \subseteq msgs'
    BY Zenon, <2>2, <2>5 DEF NodeOk, BuffersOk
  <2>7. NodeOk(msgs', commits', n, s)
    BY Zenon, <2>2, <2>5, <2>6, NodeShrinks
  <2>8. JoinOk(s)
    BY Zenon, <2>2, <2>5 DEF JoinOk
  <2> QED
    BY Zenon, <1>1, <2>1, <2>3, <2>4, <2>7, <2>8, HandlePrepareOk
<1>6. CASE OnSyncReply(n)
  <2>0. PICK m \in msgs : /\ m.type = "SyncReply"
                         /\ \E r \in on_prepare(n, st[n], m.prepare) : Handle(n, r)
    BY Zenon, <1>6 DEF OnSyncReply, Addressed, Received
  <2>1. PICK r \in on_prepare(n, st[n], m.prepare) : Handle(n, r)
    BY Zenon, <2>0
  <2>2. m.prepare \in Prepares
    BY Zenon, <1>2, <2>0, MessageFields
  <2>3. m.prepare \in msgs
    BY Zenon, <2>0 DEF ForkInv, MessageOk
  <2> QED
    BY Zenon, <1>1, <1>2, <1>3, <2>1, <2>2, <2>3, HandlePrepareOk
<1>7. CASE OnPrepareVote(n)
  <2>1. PICK m \in msgs : m.type = "PrepareVote" /\ Handle(n, on_prepare_vote(n, st[n], m))
    BY Zenon, <1>7 DEF OnPrepareVote, Addressed, Received
  <2>2. ResultOk(msgs', commits', n, on_prepare_vote(n, st[n], m))
    BY Zenon, <1>2, <1>3, <2>1, OnPrepareVoteOk
  <2> QED
    BY Zenon, <1>1, <2>1, <2>2, HandleOk
<1>8. CASE OnConfirm(n)
  <2>1. PICK m \in msgs : m.type = "Confirm" /\ Handle(n, on_confirm(n, st[n], m))
    BY Zenon, <1>8 DEF OnConfirm, Received
  <2>2. ResultOk(msgs', commits', n, on_confirm(n, st[n], m))
    BY Zenon, <1>2, <1>3, <2>1, OnConfirmOk
  <2> QED
    BY Zenon, <1>1, <2>1, <2>2, HandleOk
<1>9. CASE OnConfirmAck(n)
  <2>1. PICK m \in msgs : m.type = "ConfirmAck" /\ Handle(n, on_confirm_ack(n, st[n], m))
    BY Zenon, <1>9 DEF OnConfirmAck, Addressed, Received
  <2>2. ResultOk(msgs', commits', n, on_confirm_ack(n, st[n], m))
    BY Zenon, <1>2, <1>3, <2>1, OnConfirmAckOk
  <2> QED
    BY Zenon, <1>1, <2>1, <2>2, HandleOk
<1>10. CASE OnCommit(n)
  <2>1. PICK m \in msgs : m.type = "Commit" /\ Handle(n, on_commit(n, st[n], m))
    BY Zenon, <1>10 DEF OnCommit, Received
  <2>2. ResultOk(msgs', commits', n, on_commit(n, st[n], m))
    BY Zenon, <1>2, <1>3, <2>1, OnCommitOk
  <2> QED
    BY Zenon, <1>1, <2>1, <2>2, HandleOk
<1>11. CASE OnTimeout(n)
  <2>1. PICK m \in msgs : m.type = "Timeout" /\ Handle(n, on_timeout(n, st[n], m))
    BY Zenon, <1>11 DEF OnTimeout, Received
  <2>2. m.from \in Nodes /\ m.tk \in TimeoutKinds
    BY Zenon, <1>2, <2>1, MessageFields
  <2>3. m \in msgs' /\ KindOk(msgs', m.slot, m.parent, m.tk)
    BY Zenon, <1>3, <2>1 DEF MessageOk
  <2>4. TimedOut(msgs', m.from, m.slot, m.view, m.tk)
    BY Zenon, <2>1, <2>3 DEF TimedOut
  <2>5. ResultOk(msgs', commits', n, on_timeout(n, st[n], m))
    BY Zenon, <1>2, <1>3, <2>1, <2>2, <2>3, <2>4, OnTimeoutOk
  <2> QED
    BY Zenon, <1>1, <2>1, <2>5, HandleOk
<1>12. CASE OnTimeoutCertificate(n)
  <2>1. PICK m \in msgs : /\ m.type = "TimeoutCertificate"
                          /\ Handle(n, on_timeout_certificate(n, st[n], m.qc))
    BY Zenon, <1>12 DEF OnTimeoutCertificate, Received
  <2>2. m.qc \in TimeoutQCs
    BY Zenon, <1>2, <2>1, MessageFields
  <2>3. TcOk(msgs', m.qc)
    BY Zenon, <1>3, <2>1 DEF MessageOk
  <2>4. ResultOk(msgs', commits', n, on_timeout_certificate(n, st[n], m.qc))
    BY Zenon, <1>2, <1>3, <2>1, <2>2, <2>3, OnTimeoutCertificateOk
  <2> QED
    BY Zenon, <1>1, <2>1, <2>4, HandleOk
<1>13. CASE OnSyncRequest(n)
  <2>1. PICK m \in msgs : Handle(n, on_sync_request(n, st[n], m))
    BY Zenon, <1>13 DEF OnSyncRequest, Addressed, Received
  <2>2. ResultOk(msgs', commits', n, on_sync_request(n, st[n], m))
    BY Zenon, <1>2, <1>3, <2>1, OnSyncRequestOk
  <2> QED
    BY Zenon, <1>1, <2>1, <2>2, HandleOk
<1>14. CASE OnTimeoutTick(n)
  <2>1. Handle(n, on_timeout_tick(n, st[n]))
    BY Zenon, <1>14 DEF OnTimeoutTick
  <2>2. ResultOk(msgs', commits', n, on_timeout_tick(n, st[n]))
    BY Zenon, <1>2, <1>3, <2>1, OnTimeoutTickOk
  <2> QED
    BY Zenon, <1>1, <2>1, <2>2, HandleOk
<1>15. CASE NewBlock(n)
  <2>1. PICK e \in commits : Handle(n, on_new_block(st[n], e.chain))
    BY Zenon, <1>15 DEF NewBlock
  <2>2. e \in commits' /\ e \in CommitEvents /\ EventOk(msgs', commits', e)
    BY Zenon, <1>2, <1>3, <2>1
  <2>3. ResultOk(msgs', commits', n, on_new_block(st[n], e.chain))
    BY Zenon, <1>2, <1>3, <2>1, <2>2, OnNewBlockOk
  <2> QED
    BY Zenon, <1>1, <2>1, <2>3, HandleOk
<1> QED
  BY Zenon, <1>4, <1>5, <1>6, <1>7, <1>8, <1>9, <1>10, <1>11, <1>12, <1>13, <1>14, <1>15 DEF Step

(* A leader starts a round. *)
LEMMA StartRoundStep ==
    ASSUME TypeOK, ForkInv, NEW n \in Nodes, StartRound(n)
    PROVE  ForkInv'
<1>1. PICK r \in start_round(n, st[n]) : Handle(n, r)
  BY Zenon DEF StartRound
<1>2. /\ msgs' = msgs \cup r.out /\ msgs \subseteq msgs' /\ commits \subseteq commits'
      /\ commits' = commits \cup r.commits
      /\ msgs \subseteq Messages /\ st[n] \in RoundStates
      /\ NodeOk(msgs, commits, n, st[n]) /\ JoinOk(st[n])
      /\ \A m \in msgs : MessageOk(msgs, commits, m)
      /\ \A e \in commits : EventOk(msgs, commits, e)
  BY Zenon, <1>1 DEF Handle, TypeOK, ForkInv
<1>3. ResultOk(msgs', commits, n, r) /\ NewPrepare(msgs, n, r)
  BY Zenon, <1>1, <1>2, StartRoundOk
<1>4. PICK p : /\ r.out = {p} /\ p.from = n
               /\ \A q \in msgs : q.type = "Prepare" /\ Slot(q.chain) = Slot(p.chain) =>
                                        q.view # p.view
  BY Zenon, <1>3 DEF NewPrepare
<1>5. NodeOk(msgs', commits', n, r.st) /\ JoinOk(r.st)
  <2>1. NodeOk(msgs', commits, n, r.st) /\ JoinOk(r.st)
    BY Zenon, <1>3 DEF ResultOk
  <2> QED
    BY Zenon, <1>2, <2>1, NodeGrows
<1>6. ASSUME NEW k \in Nodes, k # n PROVE NodeOk(msgs', commits', k, st[k]) /\ JoinOk(st[k])
  <2>1. NodeOk(msgs, commits, k, st[k]) /\ JoinOk(st[k])
    BY Zenon DEF ForkInv
  <2>2. \A q \in msgs' \ msgs : q.type = "Prepare" => q.from # k
    BY Zenon, <1>2, <1>4, <1>6
  <2> QED
    BY <1>2, <2>1, <2>2, NodeGrows
<1>7. \A k \in Nodes : st'[k] = IF k = n THEN r.st ELSE st[k]
  BY Zenon, <1>1 DEF Handle, TypeOK
<1>8. \A k \in Nodes : NodeOk(msgs', commits', k, st'[k]) /\ JoinOk(st'[k])
  BY Zenon, <1>5, <1>6, <1>7
<1>9. \A m \in msgs' : MessageOk(msgs', commits', m)
  <2>1. \A m \in msgs : MessageOk(msgs', commits', m)
    BY Zenon, <1>2, MessagesGrow
  <2>2. \A m \in r.out : MessageOk(msgs', commits, m)
    BY Zenon, <1>3 DEF ResultOk
  <2>3. \A m \in r.out : MessageOk(msgs', commits', m)
    BY Zenon, <1>2, <2>2, MessagesGrow
  <2> QED
    BY Zenon, <1>2, <2>1, <2>3
<1>10. \A e \in commits' : EventOk(msgs', commits', e)
  <2>1. \A e \in commits : EventOk(msgs', commits', e)
    BY Zenon, <1>2, MessagesGrow
  <2>2. \A e \in r.commits : EventOk(msgs', commits, e)
    BY Zenon, <1>3 DEF ResultOk
  <2>3. \A e \in r.commits : EventOk(msgs', commits', e)
    BY Zenon, <1>2, <2>2, MessagesGrow
  <2> QED
    BY Zenon, <1>2, <2>1, <2>3
<1>11. PrepareUnique'
  BY Zenon, <1>2, <1>4 DEF PrepareUnique, ForkInv
<1> QED
  BY Zenon, <1>8, <1>9, <1>10, <1>11 DEF ForkInv

(* The prefix is a chain. *)
LEMMA PrefixIsChain ==
    ASSUME NEW k \in 0..Slot(Prefix)
    PROVE  /\ Slot(SubSeq(Prefix, 1, k)) = k
           /\ k = 0 => SubSeq(Prefix, 1, k) = Genesis
           /\ k # 0 => /\ SubSeq(Prefix, 1, k) # Genesis
                       /\ Parent(SubSeq(Prefix, 1, k)) = SubSeq(Prefix, 1, k - 1)
           /\ k = Slot(Prefix) => SubSeq(Prefix, 1, k) = Prefix
<1> DEFINE c == SubSeq(Prefix, 1, k)
<1>1. Prefix \in Seq(Cuts) /\ Len(Prefix) \in Nat /\ k \in 0..Len(Prefix) /\ k \in Nat
  BY CutsAssumption DEF Slot
<1>2. /\ c \in Seq(Cuts) /\ Len(c) = k
      /\ c = [i \in 1..k |-> Prefix[i]]
  BY <1>1
<1>3. k = 0 => c = <<>>
  BY <1>2
<1>4. k # 0 => c # <<>>
  BY Zenon, <1>1, <1>2
<1>5. ASSUME k # 0 PROVE Parent(c) = SubSeq(Prefix, 1, k - 1)
  <2>1. k - 1 \in Nat /\ k - 1 <= Len(Prefix) /\ k - 1 <= k
    BY <1>1, <1>5
  <2>2. SubSeq(Prefix, 1, k - 1) = [i \in 1..(k - 1) |-> Prefix[i]]
    BY <1>1, <2>1
  <2>3. \A i \in 1..(k - 1) : c[i] = Prefix[i]
    BY <1>1, <1>2, <2>1
  <2> HIDE DEF c
  <2>4. Parent(c) = SubSeq(c, 1, k - 1)
    BY Zenon, <1>2 DEF Parent
  <2>5. SubSeq(c, 1, k - 1) = [i \in 1..(k - 1) |-> c[i]]
    BY <1>2, <2>1
  <2> QED
    BY Zenon, <2>2, <2>3, <2>4, <2>5
<1>6. ASSUME k = Len(Prefix) PROVE c = Prefix
  <2>1. Prefix = [i \in 1..Len(Prefix) |-> Prefix[i]]
    BY <1>1
  <2> HIDE DEF c
  <2> QED
    BY Zenon, <1>2, <1>6, <2>1
<1> QED
  BY Zenon, <1>2, <1>3, <1>4, <1>5, <1>6 DEF Genesis, Slot

(* The validators start with the prefix committed, the others with nothing. *)
LEMMA InitOk == Init => ForkInv
<1> SUFFICES ASSUME Init PROVE ForkInv
  BY Zenon
<1> DEFINE L == Slot(Prefix)
           P(k) == SubSeq(Prefix, 1, k)
<1>1. L \in Nat /\ Prefix \in Seq(Cuts)
  BY CutsAssumption DEF Slot
<1>2. \A k \in 0..L : Done(commits, P(k))
  <2> SUFFICES ASSUME NEW k \in 0..L, k # 0 PROVE Done(commits, P(k))
    BY Zenon, PrefixIsChain DEF Done
  <2>1. k \in 1..L /\ 1 \in Validators
    BY <1>1, NAssumption DEF Validators
  <2> DEFINE F(n, i) == [node |-> n, chain |-> SubSeq(Prefix, 1, i),
                         parent |-> SubSeq(Prefix, 1, i - 1), forced |-> FALSE]
  <2>2. commits = {F(n, i) : n \in Validators, i \in 1..Slot(Prefix)}
    BY DEF Init, PrefixCommits
  <2>3. F(1, k).chain = P(k) /\ ~F(1, k).forced
    BY Zenon
  <2> HIDE DEF F
  <2>4. F(1, k) \in commits
    BY <2>1, <2>2
  <2> QED
    BY Zenon, <2>3, <2>4 DEF Done
<1>3. ASSUME NEW k \in 1..L
      PROVE  /\ k \in 0..L /\ k - 1 \in 0..L
             /\ PrefixPrepare(k) \in msgs /\ PrefixPrepare(k).type = "Prepare"
             /\ PrefixPrepare(k).chain = P(k) /\ PrefixPrepare(k).view = 0
             /\ PrefixPrepare(k).from = round_leader(k, 0)
             /\ PrefixPrepare(k).ticket = PrefixTicket(k - 1)
  <2>1. k \in 0..L /\ k - 1 \in 0..L
    BY <1>1
  <2>2. PrefixPrepare(k) \in msgs
    BY Zenon DEF Init
  <2>3. /\ PrefixPrepare(k).type = "Prepare" /\ PrefixPrepare(k).chain = P(k)
        /\ PrefixPrepare(k).view = 0 /\ PrefixPrepare(k).from = round_leader(k, 0)
        /\ PrefixPrepare(k).ticket = PrefixTicket(k - 1)
    BY Zenon DEF PrefixPrepare, Prepare
  <2> QED
    BY Zenon, <2>1, <2>2, <2>3
<1>4. ASSUME NEW k \in 0..L
      PROVE  TicketFor(msgs, PrefixTicket(k), k + 1, 0, P(k))
  BY Zenon DEF TicketFor, PrefixTicket, GenesisTicket, CommitQC
<1> HIDE DEF L, P
<1>5. \A m \in msgs : \E k \in 1..L : m = PrefixPrepare(k)
  BY Zenon DEF Init, L
<1>6. ASSUME NEW k \in 0..L
      PROVE  /\ Slot(P(k)) = k
             /\ k # 0 => P(k) # Genesis /\ Parent(P(k)) = P(k - 1)
             /\ k = L => P(k) = Prefix
  BY Zenon, <1>6, PrefixIsChain DEF L, P
<1>7. \A m \in msgs : MessageOk(msgs, commits, m)
  <2> SUFFICES ASSUME NEW k \in 1..L PROVE PrepareOk(msgs, commits, PrefixPrepare(k))
    BY Zenon, <1>3, <1>5 DEF MessageOk
  <2>1. k # 0 /\ k - 1 + 1 = k /\ k \in 0..L /\ k - 1 \in 0..L
    BY <1>1, <1>3
  <2>2. Slot(P(k)) = k /\ P(k) # Genesis /\ Parent(P(k)) = P(k - 1)
    BY Zenon, <1>6, <2>1
  <2>3. TicketFor(msgs, PrefixTicket(k - 1), k, 0, P(k - 1))
    BY Zenon, <1>4, <2>1
  <2>4. P(k) = SubSeq(Prefix, 1, Slot(P(k)))
    BY Zenon, <2>2 DEF P
  <2> QED
    BY Zenon, <1>2, <1>3, <2>1, <2>2, <2>3, <2>4 DEF PrepareOk
<1>8. \A e \in commits : EventOk(msgs, commits, e)
  <2> SUFFICES ASSUME NEW e \in commits PROVE EventOk(msgs, commits, e)
    BY Zenon
  <2>1. PICK k \in 1..L : e.chain = P(k) /\ e.parent = P(k - 1) /\ e.forced = FALSE
    BY DEF Init, PrefixCommits, L, P
  <2>2. k # 0 /\ k \in 0..L /\ k - 1 \in 0..L
    BY <1>1, <1>3
  <2>3. P(k) # Genesis /\ Parent(P(k)) = P(k - 1) /\ Done(commits, P(k - 1))
    BY Zenon, <1>2, <1>6, <2>2
  <2>4. Known(msgs, P(k))
    BY Zenon, <1>3 DEF Known
  <2> QED
    BY Zenon, <2>1, <2>3, <2>4 DEF EventOk
<1>9. PrepareUnique
  <2> SUFFICES ASSUME NEW j \in 1..L, NEW k \in 1..L, Slot(P(j)) = Slot(P(k)) PROVE P(j) = P(k)
    BY <1>3, <1>5 DEF PrepareUnique
  <2>1. Slot(P(j)) = j /\ Slot(P(k)) = k
    BY Zenon, <1>3, <1>6
  <2> QED
    BY Zenon, <2>1
<1>10. ASSUME NEW n \in Validators
       PROVE  NodeOk(msgs, commits, n, ValidatorInit(n)) /\ JoinOk(ValidatorInit(n))
  <2> DEFINE s == ValidatorInit(n)
  <2>1. /\ s.slot = L + 1 /\ s.view = 0 /\ s.parent = Prefix /\ s.cp.chain = Prefix
        /\ s.cp.taken = (Prefix = Genesis \/ HasStakingActions(Prefix))
        /\ s.tag # "Joining" /\ s.step = "StartNewSlot" /\ s.requests = {} /\ s.pqc = None
        /\ s.forward = None
    BY Zenon DEF ValidatorInit, L
  <2>2. /\ s.pending # None => n = round_leader(L + 1, 0) /\ s.pending = PrefixTicket(L)
        /\ s.bufqc # None => Prefix # Genesis /\ s.bufqc = PrefixTicket(L)
        /\ s.prepares = {PrefixPrepare(k) : k \in 1..L}
    BY Zenon DEF ValidatorInit, L
  <2> HIDE DEF s
  <2>3. L \in 0..L /\ Slot(Prefix) = L /\ P(L) = Prefix /\ Done(commits, Prefix)
    BY <1>1, <1>2, <1>6 DEF L
  <2>4. PlaceOk(commits, n, s)
    <3>1. Done(commits, s.parent) /\ s.slot = Slot(s.parent) + 1 /\ s.slot > Slot(Prefix)
      BY <1>1, <2>1, <2>3
    <3> QED
      BY Zenon, <2>1, <3>1 DEF PlaceOk
  <2>5. ProposalOk(msgs, n, s)
    <3>1. ~current_slot_prepare_is_present(s)
      BY <1>1, <2>1, <2>3 DEF current_slot_prepare_is_present
    <3>2. Committed(s)
      BY Zenon, <2>1 DEF Committed
    <3> QED
      BY Zenon, <2>1, <3>1, <3>2 DEF ProposalOk
  <2>6. TicketsOk(msgs, n, s)
    <3>1. Prefix # Genesis => PrefixTicket(L).chain = Prefix
      <4>1. L = 0 => Prefix = Genesis
        BY <1>1 DEF L, Slot, Genesis
      <4> QED
        BY Zenon, <2>3, <4>1 DEF PrefixTicket, CommitQC, P
    <3>2. TicketFor(msgs, PrefixTicket(L), L + 1, 0, Prefix)
      BY Zenon, <1>4, <2>3
    <3> QED
      BY Zenon, <2>1, <2>2, <3>1, <3>2 DEF TicketsOk
  <2>7. TimeoutsOk(msgs, n, s)
    BY Zenon, <2>1 DEF TimeoutsOk
  <2>8. BuffersOk(msgs, s)
    BY Zenon, <1>3, <2>1, <2>2 DEF BuffersOk
  <2>9. LeadsOk(msgs, n, s)
    <3> SUFFICES ASSUME NEW p \in msgs PROVE Slot(p.chain) < s.slot
      BY Zenon DEF LeadsOk, Led
    <3>1. PICK k \in 1..L : p = PrefixPrepare(k)
      BY Zenon, <1>5
    <3>2. Slot(p.chain) = k
      BY Zenon, <1>3, <1>6, <3>1
    <3> QED
      BY <1>1, <2>1, <3>2
  <2> QED
    BY Zenon, <2>1, <2>4, <2>5, <2>6, <2>7, <2>8, <2>9 DEF NodeOk, JoinOk, s
<1>11. ASSUME NEW n \in Nodes, n \notin Validators
       PROVE  NodeOk(msgs, commits, n, ObserverInit) /\ JoinOk(ObserverInit)
  <2> DEFINE s == ObserverInit
  <2>1. /\ s.slot = 0 /\ s.view = 0 /\ s.parent = Genesis /\ s.cp.taken = TRUE
        /\ s.step = "StartNewSlot" /\ s.requests = {} /\ s.pqc = None /\ s.forward = None
        /\ s.bufqc = None /\ s.pending = None /\ s.prepares = {} /\ s.synced = 0
    BY Zenon DEF ObserverInit
  <2> HIDE DEF s
  <2>2. PlaceOk(commits, n, s)
    BY Zenon, <1>11, <2>1 DEF PlaceOk, Done
  <2>3. ProposalOk(msgs, n, s) /\ TicketsOk(msgs, n, s) /\ TimeoutsOk(msgs, n, s)
    BY Zenon, <2>1 DEF ProposalOk, Committed, TicketsOk, TimeoutsOk
  <2>4. BuffersOk(msgs, s) /\ LeadsOk(msgs, n, s)
    BY Zenon, <1>11, <2>1 DEF BuffersOk, LeadsOk
  <2> QED
    BY Zenon, <2>1, <2>2, <2>3, <2>4 DEF NodeOk, JoinOk, s
<1>12. \A n \in Nodes : NodeOk(msgs, commits, n, st[n]) /\ JoinOk(st[n])
  BY Zenon, <1>10, <1>11 DEF Init
<1> QED
  BY Zenon, <1>7, <1>8, <1>9, <1>12 DEF ForkInv

(* Without restarts the invariant holds throughout. *)
LEMMA NextIsStep ==
    ASSUME MaxRestarts = 0, TypeOK, Next
    PROVE  \E n \in Nodes : Step(n)
BY DEF TypeOK, Next, Step, Restart

(* The invariant is inductive as long as no node restarts, *)
LEMMA NextOk ==
    ASSUME MaxRestarts = 0, TypeOK, TypeOK', ForkInv, [Next]_vars
    PROVE  ForkInv'
<1>1. CASE UNCHANGED vars
  BY Zenon, <1>1 DEF vars, ForkInv, PrepareUnique
<1>2. CASE Next
  <2>1. PICK n \in Nodes : Step(n)
    BY Zenon, <1>2, NextIsStep
  <2> QED
    BY Zenon, <2>1, StepOk, StartRoundStep
<1> QED
  BY Zenon, <1>1, <1>2

(* so it holds throughout. *)
LEMMA ForkInvHolds == ASSUME MaxRestarts = 0 PROVE Spec => []ForkInv
<1>1. ForkInv /\ TypeOK /\ TypeOK' /\ [Next]_vars => ForkInv'
  BY Zenon, NextOk
<1> QED
  BY InitOk, <1>1, TypeCorrect, PTL DEF Spec

---------------------------------------------------------------------------
(* Commits. *)

(* Without restarts, what a node commits extends what it committed before, and where it had   *)
(* no certificate for it another node had: a ticket that a timeout gives, which on_prepare    *)
(* never compares with the parent, implies it.                                                *)
THEOREM ChainIsFollowed == MaxRestarts = 0 => (Spec => []CommitsFollowChain)
<1> SUFFICES ASSUME MaxRestarts = 0 PROVE Spec => []CommitsFollowChain
  BY Zenon
<1>1. ForkInv => CommitsFollowChain
  BY Zenon DEF ForkInv, EventOk, Done, CommitsFollowChain, ChainIntegrity, ForcedIsCommitted
<1> QED
  BY <1>1, ForkInvHolds, PTL

---------------------------------------------------------------------------
(* Acknowledgements. *)

(* An acknowledgement is sent by a validator, for the proposal that it holds. *)
LEMMA AckSent ==
    ASSUME TypeOK, NEW n \in Nodes, Step(n), NEW m \in msgs' \ msgs, m.type = "ConfirmAck"
    PROVE  m.from = n /\ n \in Validators /\ IsHashOf(m.chain, st[n].cp)
<1>1. OnConfirm(n)
  BY Zenon, StepSends DEF SentBy
<1>2. PICK x : Handle(n, on_confirm(n, st[n], x))
  BY Zenon, <1>1 DEF OnConfirm
<1> DEFINE s == st[n]
           t == update_highest_seen_prepare_qc(s, s.slot, x.chain)
           ack == ConfirmAck(n, round_leader(s.slot, s.view), x.chain)
           out == IF n \in Validators THEN {ack} ELSE {}
           r == on_confirm(n, s, x)
<1>3. m \in r.out
  BY Zenon, <1>2 DEF Handle
<1>4. ack.from = n /\ ack.chain = x.chain
  BY Zenon DEF ConfirmAck
<1> HIDE DEF t, ack
<1>5. r = Ok(s) \/ (r = Result(t, out, {}, TRUE) /\ IsHashOf(x.chain, s.cp))
  BY Zenon DEF on_confirm, t, ack
<1> HIDE DEF r
<1>6. r # Ok(s)
  BY Zenon, <1>3, OkSends
<1>7. m = ack /\ n \in Validators /\ IsHashOf(x.chain, s.cp)
  BY <1>3, <1>5, <1>6 DEF Result
<1> QED
  BY Zenon, <1>4, <1>7

(* A Confirm is acknowledged in the slot of its proposal, or after the commit of that      *)
(* proposal if its hash did not change then, for want of staking actions (on_confirm       *)
(* compares the hash alone).                                                               *)
THEOREM LateAcksAreOfTheParent == MaxRestarts = 0 => (Spec => LateAckIsOfTheParent)
<1> SUFFICES ASSUME MaxRestarts = 0 PROVE Spec => LateAckIsOfTheParent
  BY Zenon
<1> DEFINE Acks ==
             \A m \in msgs' \ msgs :
                m.type = "ConfirmAck" =>
                    \/ Slot(m.chain) = st[m.from].slot
                    \/ m.chain = st[m.from].parent /\ ~HasStakingActions(m.chain)
<1>1. TypeOK /\ ForkInv /\ [Next]_vars => [Acks]_vars
  <2> SUFFICES ASSUME TypeOK, ForkInv, Next, NEW m \in msgs' \ msgs, m.type = "ConfirmAck"
               PROVE  \/ Slot(m.chain) = st[m.from].slot
                      \/ m.chain = st[m.from].parent /\ ~HasStakingActions(m.chain)
    BY Zenon
  <2>1. PICK n \in Nodes : Step(n)
    BY Zenon, NextIsStep
  <2>2. m.from = n /\ IsHashOf(m.chain, st[n].cp)
    BY Zenon, <2>1, AckSent
  <2>3. ProposalOk(msgs, n, st[n])
    BY Zenon DEF ForkInv, NodeOk
  <2> QED
    BY Zenon, <2>2, <2>3 DEF ProposalOk, Committed, IsHashOf, current_slot_prepare_is_present
<1> QED
  BY <1>1, ForkInvHolds, TypeCorrect, PTL DEF Spec, LateAckIsOfTheParent

AcksBonded == \A m \in msgs : m.type = "ConfirmAck" => m.from \in Validators

(* Only validators acknowledge. *)
LEMMA AcksAreBonded == ASSUME MaxRestarts = 0 PROVE Spec => []AcksBonded
<1>1. Init => AcksBonded
  BY DEF Init, AcksBonded, PrefixPrepare, Prepare
<1>2. TypeOK /\ AcksBonded /\ [Next]_vars => AcksBonded'
  <2> SUFFICES ASSUME TypeOK, AcksBonded, [Next]_vars, NEW m \in msgs', m.type = "ConfirmAck"
               PROVE  m.from \in Validators
    BY Zenon DEF AcksBonded
  <2>1. CASE m \in msgs
    BY Zenon, <2>1 DEF AcksBonded
  <2>2. CASE m \notin msgs
    <3>1. Next
      BY Zenon, <2>2 DEF vars
    <3>2. PICK n \in Nodes : Step(n)
      BY Zenon, <3>1, NextIsStep
    <3> QED
      BY Zenon, <2>2, <3>2, AckSent
  <2> QED
    BY Zenon, <2>1, <2>2
<1> QED
  BY <1>1, <1>2, TypeCorrect, PTL DEF Spec

---------------------------------------------------------------------------
(* Forks. *)

(* Two quorums have a validator in common. *)
LEMMA QuorumsMeet ==
    ASSUME NEW S \in SUBSET Validators, NEW T \in SUBSET Validators, IsQuorum(S), IsQuorum(T),
           Power[Validators] # 2
    PROVE  \E v \in Validators : v \in S /\ v \in T
<1> SUFFICES ASSUME S \cap T = {} PROVE FALSE
  BY Zenon
<1>1. S \in SUBSET Nodes /\ T \in SUBSET Nodes /\ S \cup T \in SUBSET Nodes
      /\ S \cup T \subseteq Validators /\ Validators \in SUBSET Nodes
  BY Zenon, ValidatorsAreNodes
<1>2. Power[S \cup T] <= Power[Validators] /\ Power[S] \in Nat /\ Power[T] \in Nat
      /\ Power[Validators] \in Nat /\ Power[S \cup T] \in Nat
  BY Zenon, <1>1, PowerMonotone
<1>3. Power[S \cup T] = Power[S] + Power[T]
  <2>1. Power[S \cup T] + Power[{}] = Power[S] + Power[T]
    BY Zenon, <1>1, PowerAssumption
  <2> QED
    BY <1>2, <2>1, PowerAssumption
<1> DEFINE P == Power[Validators]
           f == P \div 3
           a == Power[S]
           b == Power[T]
<1>4. a \in Nat /\ b \in Nat /\ P \in Nat /\ a + b <= P /\ P # 2 /\ a > 2 * f /\ b > 2 * f
  BY Zenon, <1>2, <1>3 DEF IsQuorum, compute_f
<1> HIDE DEF P, a, b
<1> QED
  BY <1>4

(* What was committed with a certificate was proposed in a view that it could be proposed in, *)
(* and acknowledged by a quorum.                                                              *)
LEMMA DoneIsBacked ==
    ASSUME TypeOK, ForkInv, CertificatesBacked, NEW c, c # Genesis, Done(commits, c),
           Slot(c) > Slot(Prefix)
    PROVE  Origin(msgs, c) /\ BackedBy(msgs, "ConfirmAck", "Commit", c)
<1>1. PICK d \in commits : d.chain = c /\ ~d.forced
  BY Zenon DEF Done
<1>2. Prepared(msgs, c) /\ BackedBy(msgs, "ConfirmAck", "Commit", c)
  BY Zenon, <1>1 DEF CertificatesBacked, CommitsAreAcknowledged, Certified
<1>3. PICK m \in msgs : m.type = "Confirm" /\ m.chain = c
  BY Zenon, <1>2 DEF Prepared, BackedBy, Signers
<1>4. PICK v \in msgs : v.type = "PrepareVote" /\ v.chain = c
  BY Zenon, <1>3 DEF ForkInv, MessageOk, Voted
<1>5. Origin(msgs, c)
  BY Zenon, <1>4 DEF ForkInv, MessageOk
<1> QED
  BY Zenon, <1>2, <1>5

(* What was committed up to the end of the prefix is the prefix. *)
LEMMA DoneInPrefix ==
    ASSUME TypeOK, ForkInv, NEW c, c # Genesis, Done(commits, c), Slot(c) <= Slot(Prefix)
    PROVE  c = SubSeq(Prefix, 1, Slot(c))
<1>1. PICK d \in commits : d.chain = c
  BY Zenon DEF Done
<1>2. PICK p \in msgs : p.type = "Prepare" /\ p.chain = c
  BY Zenon, <1>1 DEF ForkInv, EventOk, Known
<1> QED
  BY Zenon, <1>2 DEF ForkInv, MessageOk, PrepareOk

LateAck(slot) ==
    \E t, p, m \in msgs :
        /\ t.type = "Timeout" /\ t.tk = NilProposal /\ t.slot = slot
        /\ p.type = "Prepare" /\ Slot(p.chain) = t.slot /\ p.view <= t.view
        /\ m.type \in {"ConfirmAck", "Commit"} /\ m.from = t.from /\ m.chain = p.chain

(* A proposal that is acknowledged by a quorum and another, of its slot, first proposed in a  *)
(* later view: a quorum said there that nothing was prepared.                                 *)
LEMMA LaterViewNeedsLateAck ==
    ASSUME TypeOK, AcksBonded, Power[Validators] # 2,
           NEW c \in Chains, BackedBy(msgs, "ConfirmAck", "Commit", c),
           NEW p \in msgs, p.type = "Prepare", p.chain = c,
           NEW view \in Nat, p.view <= view, NilQuorum(msgs, Slot(c), view)
    PROVE  LateAck(Slot(c))
<1>1. PICK leader \in Validators \cap Signers(msgs, "Commit", c) :
            Power[Signers(msgs, "ConfirmAck", c) \cup {leader}] > 2 * compute_f
  BY Zenon DEF BackedBy
<1> DEFINE S == Signers(msgs, "ConfirmAck", c) \cup {leader}
<1>2. S \in SUBSET Validators /\ IsQuorum(S)
  BY Zenon, <1>1 DEF Signers, AcksBonded, IsQuorum
<1>3. PICK T \in SUBSET Validators :
            IsQuorum(T) /\ \A v \in T : TimedOut(msgs, v, Slot(c), view, NilProposal)
  BY Zenon DEF NilQuorum
<1>4. PICK v \in Validators : v \in S /\ v \in T
  <2> HIDE DEF S
  <2> QED
    BY Zenon, <1>2, <1>3, QuorumsMeet
<1>5. PICK t \in msgs : /\ t.type = "Timeout" /\ t.from = v /\ t.slot = Slot(c)
                        /\ t.view = view /\ t.tk = NilProposal
  BY Zenon, <1>3, <1>4 DEF TimedOut
<1>6. PICK m \in msgs : m.type \in {"ConfirmAck", "Commit"} /\ m.from = v /\ m.chain = c
  BY Zenon, <1>1, <1>4 DEF Signers
<1> QED
  BY Zenon, <1>5, <1>6 DEF LateAck

(* So two proposals committed for a slot show a late acknowledgement. *)
LEMMA ForkIsExplained ==
    ASSUME TypeOK, ForkInv, CertificatesBacked, AcksBonded, Power[Validators] # 2,
           NEW c \in Chains, NEW d \in Chains, Done(commits, c), Done(commits, d),
           Slot(c) = Slot(d), c # d
    PROVE  LateAck(Slot(c))
<1>1. c # Genesis /\ d # Genesis
  BY DEF Chains, Slot, Genesis
<1>2. Slot(c) \in Nat /\ Slot(Prefix) \in Nat
  BY CutsAssumption DEF Chains, Slot
<1>3. Slot(c) > Slot(Prefix)
  BY <1>1, <1>2, DoneInPrefix
<1>4. /\ Origin(msgs, c) /\ BackedBy(msgs, "ConfirmAck", "Commit", c)
      /\ Origin(msgs, d) /\ BackedBy(msgs, "ConfirmAck", "Commit", d)
  BY Zenon, <1>1, <1>3, DoneIsBacked
<1>5. PICK p \in msgs : /\ p.type = "Prepare" /\ p.chain = c
                        /\ p.view = 0 \/ NilQuorum(msgs, Slot(c), p.view - 1)
  BY Zenon, <1>4 DEF Origin
<1>6. PICK q \in msgs : /\ q.type = "Prepare" /\ q.chain = d
                        /\ q.view = 0 \/ NilQuorum(msgs, Slot(c), q.view - 1)
  BY Zenon, <1>4 DEF Origin
<1>7. p.view \in Nat /\ q.view \in Nat
  BY Zenon, <1>5, <1>6, MessageFields DEF TypeOK, Prepares
<1>8. p.view # q.view
  BY Zenon, <1>5, <1>6 DEF ForkInv, PrepareUnique
<1>9. CASE p.view < q.view
  <2>1. q.view - 1 \in Nat /\ p.view <= q.view - 1 /\ NilQuorum(msgs, Slot(c), q.view - 1)
    BY <1>6, <1>7, <1>9
  <2> QED
    BY Zenon, <1>4, <1>5, <2>1, LaterViewNeedsLateAck
<1>10. CASE q.view < p.view
  <2>1. p.view - 1 \in Nat /\ q.view <= p.view - 1 /\ NilQuorum(msgs, Slot(d), p.view - 1)
    BY <1>5, <1>7, <1>10
  <2> QED
    BY Zenon, <1>4, <1>6, <2>1, LaterViewNeedsLateAck
<1> QED
  BY <1>7, <1>8, <1>9, <1>10

(* Without restarts, and with a total stake other than 2 (of which two disjoint sets are each *)
(* more than 2f), a leader proposes one thing in a slot and view and two commits for a slot   *)
(* need a validator that acknowledged, or led to its commit, a proposal although it had said  *)
(* in a timeout of that view or a later one that it had seen none prepared.                   *)
THEOREM ForksNeedLateAcks ==
    MaxRestarts = 0 /\ Power[Validators] # 2 => (Spec => []ForksExplained)
<1> SUFFICES ASSUME MaxRestarts = 0, Power[Validators] # 2 PROVE Spec => []ForksExplained
  BY Zenon
<1>1. TypeOK /\ ForkInv /\ CertificatesBacked /\ AcksBonded => ForksExplained
  <2> SUFFICES ASSUME TypeOK, ForkInv, CertificatesBacked, AcksBonded
               PROVE  ForkNeedsLateAck
    BY Zenon DEF ForksExplained, ForkInv
  <2> SUFFICES ASSUME NEW d \in commits, NEW e \in commits,
                      Slot(d.chain) = Slot(e.chain), d.chain # e.chain
               PROVE  LateAck(Slot(d.chain))
    <3>1. ASSUME NEW d \in commits PROVE Slot(d.chain) \in Nat
      BY DEF TypeOK, CommitEvents, Chains, Slot
    <3> QED
      BY <3>1 DEF ForkNeedsLateAck, LateAck
  <2>1. d.chain \in Chains /\ e.chain \in Chains
    BY Zenon DEF TypeOK, CommitEvents
  <2>2. Done(commits, d.chain) /\ Done(commits, e.chain)
    BY Zenon DEF ForkInv, EventOk, Done
  <2> QED
    BY Zenon, <2>1, <2>2, ForkIsExplained
<1> QED
  BY <1>1, ForkInvHolds, AcksAreBonded, TypeCorrect, CertificatesAreBacked, PTL

(* Without restarts and as long as no timer expires, no two commits differ for a slot, however *)
(* votes, certificates and blocks are lost, late, repeated or reordered.                       *)
THEOREM NoForkWithoutTimeouts ==
    MaxRestarts = 0 /\ Impatient = {} /\ Power[Validators] # 2 => (Spec => []Agreement)
<1> SUFFICES ASSUME MaxRestarts = 0, Impatient = {}, Power[Validators] # 2
             PROVE  Spec => []Agreement
  BY Zenon
<1> DEFINE NoTimeout == \A m \in msgs : m.type # "Timeout"
<1>1. Init => NoTimeout
  BY DEF Init, PrefixPrepare, Prepare
<1>2. TypeOK /\ NoTimeout /\ [Next]_vars => NoTimeout'
  <2> SUFFICES ASSUME TypeOK, NoTimeout, [Next]_vars, NEW m \in msgs' \ msgs, m.type = "Timeout"
               PROVE  FALSE
    BY Zenon
  <2>1. Next
    BY Zenon DEF vars
  <2>2. PICK n \in Nodes : Step(n)
    BY Zenon, <2>1, NextIsStep
  <2>3. OnTimeout(n) \/ OnTimeoutTick(n)
    BY Zenon, <2>2, StepSends DEF SentBy
  <2> QED
    BY Zenon, <2>3 DEF OnTimeout, OnTimeoutTick, Received
<1>3. NoTimeout /\ ForksExplained => Agreement
  BY Zenon DEF ForksExplained, ForkNeedsLateAck, Agreement
<1> HIDE DEF NoTimeout
<1>4. Spec => []ForksExplained
  BY Zenon, ForksNeedLateAcks
<1> QED
  BY <1>1, <1>2, <1>3, <1>4, TypeCorrect, PTL DEF Spec
=============================================================================
