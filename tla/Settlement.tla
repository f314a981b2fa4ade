----------------------------- MODULE Settlement -----------------------------
(***************************************************************************)
(* The pure part of settlement in the node state: what one proof does to   *)
(* the contracts, what a blob of the "hyle" contract does to them, and     *)
(* which combination of the proofs received for the blobs of a transaction *)
(* settles it.                                                             *)
(*                                                                         *)
(* A name is a model value with its Parent, the part after the first dot.  *)
(* A contract is its program, its state, its timeout window and whether a  *)
(* native verifier checks its blobs; the registrations that the model      *)
(* considers have a valid program id, a short enough commitment and their  *)
(* default window already filled in.                                       *)
(***************************************************************************)
EXTENDS Integers, Sequences, SequencesExt

CONSTANTS
    Names,      \* contract names
    Hyle,       \* the name of the "hyle" contract
    Parent,     \* the domain of each name: the part after its first dot, if any
    NoParent,   \* ... of a name with no dot
    NativeList, \* NATIVE_VERIFIERS_CONTRACT_LIST
    Absent,     \* a contract that does not exist
    Untouched   \* a contract that a settlement does not change

ASSUME NamesAssumption ==
    /\ Hyle \in Names /\ Parent \in [Names -> Names \cup {NoParent}]
    /\ NoParent \notin Names /\ Parent[Hyle] = NoParent
    /\ NativeList \subseteq Names \ {Hyle}
    /\ Absent # Untouched

NoChange == [n \in Names |-> Untouched]

validate_contract_name_registration(owner, new) ==
    \/ Parent[new] = owner
    \/ IF owner = Hyle THEN Parent[new] = NoParent ELSE new = owner

get_contract(contracts, changes, n) ==
    IF changes[n] = Untouched THEN contracts[n] ELSE changes[n]

---------------------------------------------------------------------------
(* One proof of a blob. *)

(* An on-chain effect of a proof: its blob's contract registers or deletes *)
(* a name that it may name.                                                *)
EffectAllowed(blob, e) ==
    /\ validate_contract_name_registration(blob.contract, e.name)
    /\ e.kind = "register" => blob.action.kind = "register"

ApplyEffect(changes, e) ==
    [changes EXCEPT ![e.name] = IF e.kind = "register" THEN e.contract ELSE Absent]

(* Whether process_proof accepts the proof on top of the changes made by   *)
(* the transaction's earlier blobs.                                        *)
ProofFits(contracts, changes, blob, proof) ==
    LET c == get_contract(contracts, changes, blob.contract)
    IN /\ c # Absent
       /\ proof.initial_state = c.state
       /\ proof.program = c.program
       /\ \A r \in proof.state_reads :
             LET other == get_contract(contracts, changes, r.name)
             IN other # Absent /\ other.state = r.state
       /\ \A i \in DOMAIN proof.effects : EffectAllowed(blob, proof.effects[i])

(* The changes after it: the effects in order, then the new state, unless  *)
(* the effects deleted the contract.                                       *)
process_proof(contracts, changes, blob, proof) ==
    LET n == blob.contract
        c == get_contract(contracts, changes, n)
        done == FoldLeft(ApplyEffect, changes, proof.effects)
        base == IF done[n] = Untouched THEN c ELSE done[n]
    IN IF done[n] = Absent THEN done
       ELSE [done EXCEPT ![n] = [base EXCEPT !.state = proof.next_state]]

---------------------------------------------------------------------------
(* A blob of the "hyle" contract: no proof, checked on the spot. *)

HyleBlobFits(contracts, changes, action) ==
    CASE action.kind = "register" ->
            /\ validate_contract_name_registration(Hyle, action.name)
            /\ action.name = Hyle \/ contracts[action.name] = Absent
            /\ changes[action.name] = Untouched
      [] action.kind = "delete" ->
            /\ action.name # Hyle
            /\ \/ contracts[action.name] # Absent
               \/ changes[action.name] # Untouched
      [] action.kind \in {"program", "window"} ->
            action.name # Hyle /\ get_contract(contracts, changes, action.name) # Absent
      [] action.kind = "nuke" -> TRUE
      [] OTHER -> FALSE

handle_blob_for_hyle_tld(contracts, changes, action) ==
    LET c == get_contract(contracts, changes, action.name)
    IN CASE action.kind = "register" -> [changes EXCEPT ![action.name] = action.contract]
         [] action.kind = "delete" -> [changes EXCEPT ![action.name] = Absent]
         [] action.kind = "program" ->
                [changes EXCEPT ![action.name] = [c EXCEPT !.program = action.program]]
         [] action.kind = "window" ->
                [changes EXCEPT ![action.name] = [c EXCEPT !.window = action.window]]
         [] OTHER -> changes

---------------------------------------------------------------------------
(***************************************************************************)
(* settle_blobs_recursively searches the proofs of the blobs depth first,  *)
(* in the order in which they arrived, for the first combination that      *)
(* settles every blob or proves that one of them failed.  The search is    *)
(* written blob by blob: Expand replaces a branch by what each proof of    *)
(* the next blob makes of it, in order, and a branch that failed stays.    *)
(* The first branch left after the last blob is the search's answer; when  *)
(* none is left the transaction is not ready.                              *)
(***************************************************************************)
Branch(failed, changes, used) == [failed |-> failed, changes |-> changes, used |-> used]

(* "blob" is a blob of the transaction with the proofs received for it.    *)
Expand(contracts, branch, blob, proofs) ==
    LET After(k) == Branch(~proofs[k].success,
                           process_proof(contracts, branch.changes, blob, proofs[k]),
                           Append(branch.used, k))
        fitting == SelectSeq([k \in 1..Len(proofs) |-> k],
                             LAMBDA k : ProofFits(contracts, branch.changes, blob, proofs[k]))
    IN CASE branch.failed -> <<branch>>
         [] ~branch.failed /\ blob.contract = Hyle ->
                LET fits == HyleBlobFits(contracts, branch.changes, blob.action)
                IN <<Branch(~fits,
                            IF fits THEN handle_blob_for_hyle_tld(contracts, branch.changes,
                                                                  blob.action)
                            ELSE branch.changes,
                            Append(branch.used, 1))>>
         [] OTHER -> [j \in 1..Len(fitting) |-> After(fitting[j])]

settle_blobs_recursively(contracts, blobs) ==
    LET ExpandAll(branches, b) ==
            FlattenSeq([j \in 1..Len(branches) |->
                            Expand(contracts, branches[j], b.blob, b.proofs)])
    IN FoldLeft(ExpandAll, <<Branch(FALSE, NoChange, <<>>)>>, blobs)

(* A native blob whose verification failed settles the transaction as      *)
(* failed, whatever the other blobs have.                                  *)
NativeFailed(blobs) ==
    \E j \in DOMAIN blobs :
        /\ blobs[j].blob.contract \in NativeList
        /\ \E k \in DOMAIN blobs[j].proofs : ~blobs[j].proofs[k].success

(* The answers of the search: at most one branch. *)
SettlementResult(contracts, blobs) ==
    IF NativeFailed(blobs) THEN <<Branch(TRUE, NoChange, <<>>)>>
    ELSE LET found == settle_blobs_recursively(contracts, blobs)
         IN IF found = <<>> THEN <<>> ELSE <<found[1]>>

Overlay(contracts, changes) == [n \in Names |-> get_contract(contracts, changes, n)]
=============================================================================
