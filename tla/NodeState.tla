----------------------------- MODULE NodeState -----------------------------
(***************************************************************************)
(* The node state: what the blocks of the chain make of the contracts.     *)
(* A block first expires transactions, then handles its transactions one   *)
(* by one; each of these may settle transactions, which unblocks others.   *)
(* The handling of a block runs to its end without interruption: the steps *)
(* below are the iterations of its loops, and pc says which loop it is in. *)
(*                                                                         *)
(*   "idle"    between two blocks                                          *)
(*   "block"   clear_timeouts while "expiring" is not empty, then the      *)
(*             transactions of the block                                   *)
(*   "settle"  settle_txs_until_done                                       *)
(*   "purge"   on_settled_blob_tx, once the contracts are updated          *)
(*                                                                         *)
(* Heights are relative: timeouts[d] is the list of the transactions that  *)
(* time out d blocks after the current one.  A block whose height does not *)
(* follow the current one is refused and changes nothing.                  *)
(***************************************************************************)
EXTENDS OrderedTxMap

CONSTANTS
    Registered,  \* the contracts that exist at the start
    ProofTxs,    \* the proof transactions: sequences of proofs of blobs
    MaxWindow,   \* the longest timeout window, in blocks
    MaxProofs,   \* bound: proofs kept for a blob
    AfterFork    \* whether the height is over 445 000

ASSUME NodeStateAssumption ==
    /\ MaxWindow \in Nat \ {0} /\ MaxProofs \in Nat /\ AfterFork \in BOOLEAN

NoTimeout == MaxWindow + 1

VARIABLES
    contracts,    \* the contracts, by name
    map,          \* unsettled_transactions.map
    tx_order,     \* unsettled_transactions.tx_order
    timeouts,     \* Timeouts
    pc,           \* where the handling of the block is
    expiring,     \* transactions at their timeout in this block, still to process
    to_settle,    \* blob_tx_to_try_and_settle
    unsettlable,  \* unsettlable_txs
    purging,      \* deleted contracts whose transactions are still to remove
    nuking,       \* txs_to_nuke: for each transaction, the outputs forced on it
    verified      \* verified_blobs of the last settlement: blob and proof used

vars == <<contracts, map, tx_order, timeouts, pc, expiring, to_settle, unsettlable, purging,
          nuking, verified>>

queues == <<map, tx_order>>
settling == <<to_settle, unsettlable, purging, nuking, verified>>

Init ==
    /\ contracts = Registered
    /\ map = <<>>
    /\ tx_order = [n \in Names |-> <<>>]
    /\ timeouts = [d \in 1..MaxWindow |-> <<>>]
    /\ pc = "idle"
    /\ expiring = <<>> /\ to_settle = {} /\ unsettlable = {}
    /\ purging = {} /\ nuking = <<>> /\ verified = <<>>

---------------------------------------------------------------------------
(* Timeouts. *)

(* The window of a transaction with these blobs: the shortest of its       *)
(* contracts.  Up to the fork it was folded over the blobs in order, and a *)
(* contract without timeout undid the windows before it.                   *)
Shorter(w, c) == IF c.window < w THEN c.window ELSE w

LegacyShorter(w, c) ==
    IF w # NoTimeout /\ c.window = NoTimeout THEN NoTimeout ELSE Shorter(w, c)

ContractsOf(blobs) ==
    SelectSeq([i \in 1..Len(blobs) |-> contracts[blobs[i].contract]], LAMBDA c : c # Absent)

M_get_tx_timeout_window(blobs) == FoldLeft(LegacyShorter, NoTimeout, ContractsOf(blobs))

get_tx_timeout_window(blobs) ==
    IF AfterFork THEN FoldLeft(Shorter, NoTimeout, ContractsOf(blobs))
    ELSE FoldLeft(LegacyShorter, NoTimeout, ContractsOf(blobs))

(* The list with t added; an entry listed twice at a height expires once. *)
Listed(list, t) == IF Contains(list, t) THEN list ELSE Append(list, t)

(* A window of 0 names the current height, whose list is already gone. *)
SetTimeout(t, window) ==
    [d \in 1..MaxWindow |-> IF d = window THEN Listed(timeouts[d], t) ELSE timeouts[d]]

---------------------------------------------------------------------------
(* Blocks. *)

(* The blobs of a transaction that are left, with their proofs. *)
BlobsLeft(t) ==
    LET indices == SetToSortSeq(DOMAIN map[t], <)
    IN [j \in 1..Len(indices) |-> [blob |-> TxOf[t].blobs[indices[j]],
                                   proofs |-> map[t][indices[j]]]]

LeftWindow(t) ==
    LET blobs == BlobsLeft(t)
    IN get_tx_timeout_window([j \in 1..Len(blobs) |-> blobs[j].blob])

BeginBlock ==
    /\ pc = "idle"
    /\ pc' = "block"
    /\ expiring' = timeouts[1]
    /\ timeouts' = [d \in 1..MaxWindow |-> IF d < MaxWindow THEN timeouts[d + 1] ELSE <<>>]
    /\ verified' = <<>>
    /\ UNCHANGED <<contracts, queues, to_settle, unsettlable, purging, nuking>>

(* OrderedTxMap::remove: t leaves the map and its queues, and the heads of *)
(* these queues join the transactions to try.                              *)
RemoveTx(t, to_try) ==
    LET names == get_contracts_blocked_by_tx(map, t)
    IN /\ map' = Unmapped(map, t)
       /\ tx_order' = Dequeue(tx_order, names, t)
       /\ to_settle' = to_try \cup get_next_txs(tx_order', names)

(* One transaction at its timeout: removed if it is still unsettled, and   *)
(* what it blocked is tried.                                               *)
ExpireNext ==
    /\ pc = "block" /\ expiring # <<>>
    /\ expiring' = Tail(expiring)
    /\ IF Head(expiring) \in DOMAIN map
       THEN RemoveTx(Head(expiring), {}) /\ pc' = "settle"
       ELSE UNCHANGED <<queues, to_settle, pc>>
    /\ UNCHANGED <<contracts, timeouts, unsettlable, purging, nuking, verified>>

(* The static checks of a blob transaction: its identity, and who may act  *)
(* on the "hyle" contract.                                                 *)
validate_hyle_contract_blobs(tx) ==
    \A i \in DOMAIN tx.blobs :
        tx.blobs[i].contract = Hyle =>
            LET kind == tx.blobs[i].action.kind
            IN \/ kind \in {"program", "delete", "window"} /\ tx.tld
               \/ kind = "nuke" /\ tx.signed
               \/ kind = "register"

Accepted(tx) ==
    /\ tx.identified
    /\ tx.blobs # <<>>
    /\ validate_hyle_contract_blobs(tx)
    /\ \A i \in DOMAIN tx.blobs : contracts[tx.blobs[i].contract] # Absent

IsNative(b) == contracts[b.contract].native

(* The output of a native verifier that refused its blob. *)
NativeFailure(b) ==
    [program |-> contracts[b.contract].program, initial_state |-> 0, next_state |-> 0,
     success |-> FALSE, state_reads |-> {}, effects |-> <<>>]

(* The blobs that wait for a proof; a native blob is verified at once and  *)
(* is left out if it is valid.                                             *)
UnsettledBlobs(tx) ==
    [i \in {j \in DOMAIN tx.blobs : ~(IsNative(tx.blobs[j]) /\ tx.blobs[j].valid)} |->
        IF IsNative(tx.blobs[i]) THEN <<NativeFailure(tx.blobs[i])>> ELSE <<>>]

(* Bound: a nuke is sequenced while its targets keep fewer proofs than the *)
(* bound.                                                                  *)
RoomForNukes(tx) ==
    \A i \in DOMAIN tx.blobs : tx.blobs[i].action.kind = "nuke" =>
        \A u \in DOMAIN tx.blobs[i].action.outputs \cap DOMAIN map :
            \A j \in DOMAIN map[u] : Len(map[u][j]) < MaxProofs

handle_blob_tx(t) ==
    LET tx == TxOf[t]
        added == [u \in DOMAIN map \cup {t} |->
                    IF u = t THEN UnsettledBlobs(tx) ELSE map[u]]
        names == get_contracts_blocked_by_tx(added, t)
        next == \A n \in names : tx_order[n] = <<>>
        proofless == \A i \in DOMAIN tx.blobs :
                        IsNative(tx.blobs[i]) \/ tx.blobs[i].contract = Hyle
    IN /\ pc = "block" /\ expiring = <<>>
       /\ RoomForNukes(tx)
       /\ t \notin DOMAIN map
       /\ Accepted(tx)
       /\ map' = added
       /\ tx_order' = Enqueue(tx_order, names, t)
       /\ timeouts' = IF next THEN SetTimeout(t, get_tx_timeout_window(tx.blobs))
                      ELSE timeouts
       /\ IF next /\ proofless THEN pc' = "settle" /\ to_settle' = {t}
          ELSE UNCHANGED <<pc, to_settle>>
       /\ UNCHANGED <<contracts, expiring, unsettlable, purging, nuking, verified>>

---------------------------------------------------------------------------
(* Proofs. *)

(* verify_hyle_output: the proof speaks of this very transaction, and the  *)
(* action of the blob is its first effect.                                 *)
verify_hyle_output(p) ==
    LET action == TxOf[p.tx].blobs[p.index].action
        first == p.output.effects[1]
    IN /\ p.coherent
       /\ p.index \in DOMAIN map[p.tx]
       /\ action.kind = "register" =>
            /\ p.output.effects # <<>> /\ first.kind = "register"
            /\ first.name = action.name /\ first.contract = action.contract
       /\ action.kind = "delete" =>
            /\ p.output.effects # <<>> /\ first.kind = "delete" /\ first.name = action.name

(* The proofs that handle_blob_proof keeps; the others are ignored. *)
handle_blob_proof(p) == p.tx \in DOMAIN map /\ verify_hyle_output(p)

(* The map with the outputs of these proofs added to those of their blobs. *)
WithProofs(proofs) ==
    LET Of(t, i) == SelectSeq(proofs, LAMBDA p : p.tx = t /\ p.index = i)
    IN [t \in DOMAIN map |-> [i \in DOMAIN map[t] |->
            map[t][i] \o [k \in 1..Len(Of(t, i)) |-> Of(t, i)[k].output]]]

(* A verified proof transaction: every acceptable proof in it is kept, and *)
(* the transactions proven are tried if they are next.                     *)
HandleProofTx(proofs) ==
    LET kept == SelectSeq(proofs, handle_blob_proof)
    IN /\ pc = "block" /\ expiring = <<>>
       /\ \A p \in Range(kept) : Len(map[p.tx][p.index]) < MaxProofs
       /\ map' = WithProofs(kept)
       /\ to_settle' = {p.tx : p \in {q \in Range(kept) :
                                            is_next_to_settle(map, tx_order, q.tx)}}
       /\ pc' = "settle"
       /\ UNCHANGED <<contracts, tx_order, timeouts, expiring, unsettlable, purging, nuking,
                      verified>>

---------------------------------------------------------------------------
(* Settlement. *)

M_VerifiedBlobs(t, used) == [i \in DOMAIN map[t] |-> 1]

(* verified_blobs of a settlement: for each blob left, by its index in the *)
(* transaction, the entry of that index in the list of the proofs used.    *)
VerifiedBlobs(t, used) ==
    [i \in DOMAIN map[t] |-> IF i \in DOMAIN used THEN used[i] ELSE 0]

(* The first transaction to try settles: it leaves the map, its changes    *)
(* are applied when it succeeded, and what it blocked is tried next.       *)
SettledAs(t, branch) ==
    LET blobs == TxOf[t].blobs
        indices == SetToSortSeq(DOMAIN map[t], <)
        deleted == {n \in Names : branch.changes[n] = Absent}
        Nukes(collected, i) ==
            IF blobs[i].action.kind = "nuke" THEN blobs[i].action.outputs @@ collected
            ELSE collected
        nukes == FoldLeft(Nukes, <<>>, indices)
    IN /\ RemoveTx(t, to_settle \ {t})
       /\ IF branch.failed
          THEN UNCHANGED <<contracts, purging, nuking, pc, verified>>
          ELSE /\ contracts' = Overlay(contracts, branch.changes)
               /\ purging' = deleted
               /\ nuking' = nukes
               /\ pc' = IF deleted = {} /\ nukes = <<>> THEN "settle" ELSE "purge"
               /\ verified' = VerifiedBlobs(t, branch.used)
       /\ UNCHANGED unsettlable

NotSettled(t) ==
    /\ to_settle' = to_settle \ {t}
    /\ unsettlable' = unsettlable \cup {t}
    /\ UNCHANGED <<contracts, queues, purging, nuking, pc, verified>>

M_MaySettle(t, result) == result # <<>>

(* A transaction settles as a success only when it is next on all of its   *)
(* contracts; as a failure, which changes no contract, whenever it is      *)
(* tried.                                                                  *)
MaySettle(t, result) ==
    /\ result # <<>>
    /\ result[1].failed \/ is_next_to_settle(map, tx_order, t)

try_to_settle_blob_tx(t) ==
    LET blobs == BlobsLeft(t)
        registered == \A j \in DOMAIN blobs : contracts[blobs[j].blob.contract] # Absent
        result == SettlementResult(contracts, blobs)
    IN IF t \in DOMAIN map /\ registered /\ MaySettle(t, result)
       THEN SettledAs(t, result[1]) ELSE NotSettled(t)

SettleNext ==
    /\ pc = "settle" /\ to_settle # {}
    /\ try_to_settle_blob_tx(Min(to_settle))
    /\ UNCHANGED <<timeouts, expiring>>

(* The first transaction queued on a deleted contract is timed out. *)
PurgeHead(n) == RemoveTx(Head(tx_order[n]), to_settle \ {Head(tx_order[n])})

M_PurgeNext ==
    /\ pc = "purge" /\ purging # {}
    /\ \E n \in purging :
         /\ purging' = purging \ {n}
         /\ IF tx_order[n] = <<>> THEN UNCHANGED <<queues, to_settle>> ELSE PurgeHead(n)
    /\ UNCHANGED <<contracts, timeouts, pc, expiring, unsettlable, nuking, verified>>

(* The transactions of a deleted contract are timed out one by one, and    *)
(* what they blocked is tried.  (In the code one that is timed out here    *)
(* may be left in the set to try, where it is then found missing.)         *)
PurgeNext ==
    /\ pc = "purge" /\ purging # {}
    /\ \E n \in purging :
         IF tx_order[n] = <<>>
         THEN purging' = purging \ {n} /\ UNCHANGED <<queues, to_settle>>
         ELSE PurgeHead(n) /\ UNCHANGED purging
    /\ UNCHANGED <<contracts, timeouts, pc, expiring, unsettlable, nuking, verified>>

(* The outputs of a nuke are added to the proofs of their blobs, a failed  *)
(* one as if it started from the current state, and their transactions are *)
(* tried at once.                                                          *)
NukeApplies(x) ==
    /\ x.tx \in DOMAIN map /\ x.index \in DOMAIN map[x.tx]
    /\ contracts[TxOf[x.tx].blobs[x.index].contract] # Absent

NukedProof(x) ==
    LET c == contracts[TxOf[x.tx].blobs[x.index].contract]
        o == x.output
    IN [x EXCEPT !.output = [o EXCEPT !.program = c.program,
                                      !.initial_state = IF o.success THEN @ ELSE c.state,
                                      !.next_state = IF o.success THEN @ ELSE c.state]]

ForceNuked ==
    LET targets == SetToSortSeq(DOMAIN nuking, <)
        outputs == SelectSeq(FlattenSeq([j \in 1..Len(targets) |-> nuking[targets[j]]]),
                             NukeApplies)
    IN /\ pc = "purge" /\ purging = {}
       /\ map' = WithProofs([k \in 1..Len(outputs) |-> NukedProof(outputs[k])])
       /\ to_settle' = to_settle \cup {x.tx : x \in Range(outputs)}
       /\ nuking' = <<>>
       /\ pc' = "settle"
       /\ UNCHANGED <<contracts, tx_order, timeouts, expiring, unsettlable, purging, verified>>

M_SettleDone ==
    /\ pc = "settle" /\ to_settle = {}
    /\ unsettlable' = {} /\ pc' = "block"
    /\ UNCHANGED <<contracts, queues, timeouts, expiring, to_settle, purging, nuking, verified>>

(* Nothing is left to try: those that could not settle and are next get a  *)
(* timeout, in the order of their hashes.                                  *)
SettleDone ==
    LET due == SetToSortSeq({t \in unsettlable : is_next_to_settle(map, tx_order, t)}, <)
        Schedule(lists, t) ==
            [d \in 1..MaxWindow |-> IF d = LeftWindow(t) THEN Listed(lists[d], t) ELSE lists[d]]
    IN /\ pc = "settle" /\ to_settle = {}
       /\ timeouts' = FoldLeft(Schedule, timeouts, due)
       /\ unsettlable' = {}
       /\ pc' = "block"
       /\ UNCHANGED <<contracts, queues, expiring, to_settle, purging, nuking, verified>>

EndBlock ==
    /\ pc = "block" /\ expiring = <<>>
    /\ pc' = "idle"
    /\ UNCHANGED <<contracts, queues, timeouts, expiring, settling>>

Next ==
    \/ BeginBlock \/ ExpireNext
    \/ \E t \in Txs : handle_blob_tx(t)
    \/ \E proofs \in ProofTxs : HandleProofTx(proofs)
    \/ SettleNext \/ PurgeNext \/ ForceNuked \/ SettleDone \/ EndBlock

Spec == Init /\ [][Next]_vars

(***************************************************************************)
(* The chain does not stop, the handling of a block that has begun goes on *)
(* to its end, and a block has finitely many transactions.  These are      *)
(*      WF_vars(BeginBlock)                                                *)
(*      WF_vars(ExpireNext \/ SettleNext \/ PurgeNext \/ ForceNuked        *)
(*                                               \/ SettleDone)            *)
(*      SF_vars(EndBlock)                                                  *)
(* with pc in the place of ENABLED and of the actions: pc alone says which *)
(* of them can be taken, and which one a step is.                          *)
(***************************************************************************)
InLoop == pc \in {"settle", "purge"} \/ (pc = "block" /\ expiring # <<>>)
CanEnd == pc = "block" /\ expiring = <<>>

Fairness ==
    /\ []<>(pc # "idle") \/ []<><<pc = "idle" /\ pc' = "block">>_vars
    /\ []<>~InLoop \/ []<><<InLoop>>_vars
    /\ <>[]~CanEnd \/ []<><<CanEnd /\ pc' = "idle">>_vars

FairSpec == Spec /\ Fairness

---------------------------------------------------------------------------
(* Properties. *)

Pending == DOMAIN map

Blocked(t) == get_contracts_blocked_by_tx(map, t)

IsNext(t) == is_next_to_settle(map, tx_order, t)

(* Every variable keeps its type. *)
TypeOK ==
    /\ \A n \in Names : contracts[n] # Absent =>
            contracts[n].native \in BOOLEAN /\ contracts[n].window \in 0..NoTimeout
    /\ Pending \subseteq Txs
    /\ \A t \in Pending : DOMAIN map[t] \subseteq DOMAIN TxOf[t].blobs
    /\ tx_order \in [Names -> Seq(Txs)]
    /\ timeouts \in [1..MaxWindow -> Seq(Txs)]
    /\ pc \in {"idle", "block", "settle", "purge"}
    /\ expiring \in Seq(Txs)
    /\ to_settle \subseteq Txs /\ unsettlable \subseteq Txs /\ purging \subseteq Names
    /\ pc \in {"idle", "block"} => to_settle = {} /\ unsettlable = {}
    /\ pc # "purge" => purging = {} /\ nuking = <<>>

(* The two halves of OrderedTxMap agree ("struct used to guarantee         *)
(* coherence between the 2 fields"): a transaction is in the queue of a    *)
(* contract, once, exactly when it is in the map and touches the contract. *)
(* A queue entry without its transaction would block the contract forever, *)
(* and make the loop that purges a deleted contract endless.               *)
QueuesCoherent ==
    \A n \in Names :
        /\ IsInjective(tx_order[n])
        /\ Range(tx_order[n]) = {t \in Pending : n \in Blocked(t)}

(* Every blob left in an unsettled transaction is for a contract that      *)
(* exists, also after contracts were deleted under the transactions queued *)
(* on them: the check "some blob contracts are not registered" of          *)
(* try_to_settle_blob_tx never fails.                                      *)
KnownContracts ==
    \A t \in Pending : \A i \in DOMAIN map[t] :
        LET n == TxOf[t].blobs[i].contract IN contracts[n] # Absent \/ n \in purging

(* No head of line is forgotten: between two blocks, a transaction that is *)
(* next on all of its contracts and has a timeout window is listed to time *)
(* out, whichever way it came to be next: sequenced on free contracts, or  *)
(* because what preceded it settled, failed, timed out or was purged.      *)
NextHasTimeout ==
    pc = "idle" =>
        \A t \in Pending :
            IsNext(t) /\ LeftWindow(t) # NoTimeout =>
                \E d \in 1..MaxWindow : Contains(timeouts[d], t)

(* The state is well-formed and its lists of timeouts forget nobody        *)
(* (NodeState, Timeouts).                                                  *)
TimeoutsCoherent == TypeOK /\ NextHasTimeout

(* The contracts that a transaction can change: those it is queued on,     *)
(* those that the effects of its proofs name, of which verify_hyle_output  *)
(* compares only the first with the blob, and those that its blobs of the  *)
(* "hyle" contract give a new program or window.                           *)
Named(t) ==
    LET blobs == {TxOf[t].blobs[i] : i \in DOMAIN map[t]}
        outputs == UNION {Range(map[t][i]) : i \in DOMAIN map[t]}
    IN Blocked(t)
       \cup {e.name : e \in UNION {Range(o.effects) : o \in outputs}}
       \cup {b.action.name : b \in {x \in blobs : x.action.kind \in {"program", "window"}}}

(* Contracts change in the sequenced order: only by the settlement of a    *)
(* transaction that is first in every queue it is in, and only those that  *)
(* it names.  A contract is changed by a transaction that is not in its    *)
(* queue only through a further effect of a proof or the "hyle" contract.  *)
OnlyHeadSettles ==
    [][\A n \in Names :
        contracts'[n] # contracts[n] =>
            \E t \in Pending \ DOMAIN map' : IsNext(t) /\ n \in Named(t)]_vars

(* What a block reports is what happened: the proofs that verified_blobs   *)
(* names for the blobs of a settled transaction fit one after the other on *)
(* the contracts before the settlement, and lead to those after it.        *)
ReportReplays ==
    [][verified' # verified /\ verified' # <<>> =>
        LET t == CHOOSE u \in Pending : u \notin DOMAIN map'
            blobs == TxOf[t].blobs
            Proved(i) == IF verified'[i] \in DOMAIN map[t][i] THEN {map[t][i][verified'[i]]} ELSE {}
            Replay(outcomes, i) ==
                IF blobs[i].contract = Hyle
                THEN {handle_blob_for_hyle_tld(contracts, o, blobs[i].action) : o \in outcomes}
                ELSE {process_proof(contracts, x[1], blobs[i], x[2]) :
                        x \in {y \in outcomes \X Proved(i) :
                                    ProofFits(contracts, y[1], blobs[i], y[2])}}
        IN \E changes \in FoldLeft(Replay, {NoChange}, SetToSortSeq(DOMAIN map[t], <)) :
                contracts' = Overlay(contracts, changes)]_vars

(* Every sequenced transaction eventually leaves the map: it settles or    *)
(* fails, or it times out, also when its proofs never come and whatever    *)
(* is queued before it.                                                    *)
EveryTxResolves == \A t \in Txs : t \in Pending ~> t \notin Pending
=============================================================================
