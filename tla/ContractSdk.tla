---------------------------- MODULE ContractSdk ----------------------------
(***************************************************************************)
(* What the contract SDK does for every contract: find the action of a     *)
(* blob and who calls it, hand over the blobs it calls, and turn the       *)
(* result of the execution into the output that is proved.                 *)
(*                                                                         *)
(* A Rust Option or Result is a set: {} for None and for any error, {v}    *)
(* for a value.  A blob is the record                                      *)
(*   contract, action   the action has a field type: the enum it is of     *)
(*   structured         whether it is a StructuredBlobData                 *)
(*   caller, callees    an index and a sequence of indices, both optional  *)
(* and indices count from 1.  Blobs that are not structured are taken not  *)
(* to parse as such by accident.                                           *)
(***************************************************************************)
EXTENDS Naturals, Sequences, FiniteSets, SequencesExt

parse_structured_blob(blobs, index, type) ==
    {blobs[i] : i \in {j \in {index} \cap DOMAIN blobs :
                            blobs[j].structured /\ blobs[j].action.type = type}}

(* The indices of the blobs that say index is their caller, in order. *)
CalledBy(blobs, index) ==
    SelectSeq([i \in DOMAIN blobs |-> i],
              LAMBDA i : blobs[i].structured /\ blobs[i].caller = {index})

ClaimsAsCallee(blob, index) ==
    blob.structured /\ \E callees \in blob.callees : Contains(callees, index)

(* Who calls the blob: the contract of its caller, or the identity of the transaction. *)
(* Nobody, an error, unless callers and callees agree about it.                        *)
check_caller_callees(calldata, blob) ==
    LET blobs == calldata.blobs
        index == calldata.index
    IN  IF \E callees \in blob.callees : callees # CalledBy(blobs, index)
        THEN {}
        ELSE IF blob.caller = {}
        THEN IF \E i \in DOMAIN blobs : ClaimsAsCallee(blobs[i], index)
             THEN {}
             ELSE {calldata.identity}
        ELSE {blobs[i].contract : i \in {j \in blob.caller \cap DOMAIN blobs :
                                            j # index /\ ClaimsAsCallee(blobs[j], index)}}

(* The execution context of a structured blob, with the blobs it has to account for. *)
parse_calldata(calldata, type) ==
    UNION {{[action |-> blob.action, caller |-> caller, contract |-> blob.contract,
             callees_blobs |-> LET called == CalledBy(calldata.blobs, calldata.index)
                               IN  [i \in DOMAIN called |-> calldata.blobs[called[i]]]]
               : caller \in check_caller_callees(calldata, blob)}
             : blob \in parse_structured_blob(calldata.blobs, calldata.index, type)}

(* The action of a blob that is not structured: no caller and no callees. *)
parse_raw_calldata(calldata, type) ==
    {[action |-> calldata.blobs[i].action, caller |-> calldata.identity,
      contract |-> calldata.blobs[i].contract, callees_blobs |-> <<>>]
        : i \in {j \in {calldata.index} \cap DOMAIN calldata.blobs :
                    /\ ~calldata.blobs[j].structured
                    /\ calldata.blobs[j].action.type = type}}

(* The context without the first blob that is this call, if there is one. *)
is_in_callee_blobs(ctx, contract, action) ==
    LET calls == {i \in DOMAIN ctx.callees_blobs :
                        /\ ctx.callees_blobs[i].contract = contract
                        /\ ctx.callees_blobs[i].action = action}
    IN  {[ctx EXCEPT !.callees_blobs = RemoveAt(@, i)]
            : i \in {j \in calls : \A k \in calls : j <= k}}

---------------------------------------------------------------------------
(* The result of an execution: the state it leaves, also when it is an error. *)
Ok(state, ctx) == [ok |-> TRUE, state |-> state, left |-> ctx.callees_blobs]
Err(state) == [ok |-> FALSE, state |-> state, left |-> <<>>]

Consumed(res) == res.ok /\ res.left = <<>>

(* The output to prove.  A contract that has not accounted for all its callees fails. *)
as_hyle_output(calldata, initial, next, res) ==
    [blob |-> <<calldata.tx, calldata.index>>, success |-> Consumed(res), initial |-> initial,
     next |-> IF Consumed(res) THEN next ELSE initial]

---------------------------------------------------------------------------
(* Transactions as the client SDK builds them. *)
NewTx(identity, id) == [identity |-> identity, id |-> id, blobs |-> <<>>, private |-> <<>>]

add_action(tx, contract, action, private, caller, callees) ==
    [tx EXCEPT !.blobs = Append(@, [contract |-> contract, action |-> action,
                                    structured |-> TRUE, caller |-> caller,
                                    callees |-> callees]),
               !.private = Append(@, private)]

add_raw_action(tx, contract, action, private) ==
    [tx EXCEPT !.blobs = Append(@, [contract |-> contract, action |-> action,
                                    structured |-> FALSE, caller |-> {}, callees |-> {}]),
               !.private = Append(@, private)]

build_zk_program_input(tx, index) ==
    [tx |-> tx.id, identity |-> tx.identity, blobs |-> tx.blobs, index |-> index,
     private_input |-> tx.private[index]]
=============================================================================
