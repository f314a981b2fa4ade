---------------------------- MODULE MCNodeState ----------------------------
(* Small instances of NodeState. *)
EXTENDS NodeState

Contract(program, state, window) ==
    [program |-> program, state |-> state, window |-> window, native |-> FALSE]
NativeContract(window) == [Contract(0, 0, window) EXCEPT !.native = TRUE]

Blob(contract, action) == [contract |-> contract, action |-> action, valid |-> TRUE]
Invalid(blob) == [blob EXCEPT !.valid = FALSE]
Call(n) == Blob(n, [kind |-> "call"])
Register(owner, n, c) == Blob(owner, [kind |-> "register", name |-> n, contract |-> c])
Delete(owner, n) == Blob(owner, [kind |-> "delete", name |-> n])
UpdateProgram(n, p) == Blob("hyle", [kind |-> "program", name |-> n, program |-> p])
UpdateWindow(n, w) == Blob("hyle", [kind |-> "window", name |-> n, window |-> w])
Nuke(outputs) == Blob("hyle", [kind |-> "nuke", outputs |-> outputs])

Tx(blobs) == [identified |-> TRUE, tld |-> FALSE, signed |-> FALSE, blobs |-> blobs]
TldTx(blobs) == [Tx(blobs) EXCEPT !.tld = TRUE, !.signed = TRUE]

Output(from, to) ==
    [program |-> 0, initial_state |-> from, next_state |-> to, success |-> TRUE,
     state_reads |-> {}, effects |-> <<>>]
Failure(from) == [Output(from, from) EXCEPT !.success = FALSE]
Proof(t, i, output) == [tx |-> t, index |-> i, coherent |-> TRUE, output |-> output]

MCNames == {"hyle", "a", "b", "c.a", "d.a", "sha3"}
MCParent == [n \in MCNames |-> IF n \in {"c.a", "d.a"} THEN "a" ELSE NoParent]
HyleContract == Contract(9, 0, NoTimeout)

(* Three transactions that all touch a contract with a window, before or   *)
(* after one without; proofs that fit only in one order, a failure, and    *)
(* two competing proofs of one blob.                                       *)
QueueRegistered ==
    [n \in MCNames |-> CASE n = "hyle" -> HyleContract
                         [] n = "a" -> Contract(0, 0, 2)
                         [] n = "b" -> Contract(0, 0, NoTimeout)
                         [] OTHER -> Absent]
QueueTxs ==
    <<Tx(<<Call("a"), Call("b")>>), Tx(<<Call("a")>>), Tx(<<Call("b"), Call("b"), Call("a")>>)>>
QueueProofs ==
    {<<Proof(1, 1, Output(0, 1)), Proof(1, 2, Output(0, 1))>>,
     <<Proof(1, 1, Failure(1)), Proof(2, 1, Output(0, 1))>>,
     <<Proof(3, 1, Output(1, 0)), Proof(3, 1, Output(1, 2)), Proof(3, 3, Output(1, 0))>>,
     <<Proof(3, 2, Output(2, 0))>>}

(* Actions of the "hyle" contract against calls queued on their targets: b *)
(* is deleted and registered again, a's program and window are changed, a  *)
(* registers its subdomain c.a and with the same proof deletes d.a, on     *)
(* which a transaction is queued, a native blob is refused, and a nuke     *)
(* makes one transaction fail and settles another.                         *)
TldRegistered ==
    [QueueRegistered EXCEPT !["sha3"] = NativeContract(1), !["b"] = Contract(0, 0, 2),
                             !["d.a"] = Contract(0, 0, 1)]
TldTxs ==
    <<TldTx(<<Delete("hyle", "b"), UpdateWindow("a", 1), UpdateProgram("a", 1)>>),
      Tx(<<Register("hyle", "b", Contract(0, 0, 1))>>),
      Tx(<<Call("a"), Call("b")>>),
      Tx(<<Call("b"), Call("d.a"), Invalid(Call("sha3"))>>),
      Tx(<<Register("a", "c.a", Contract(0, 0, 1))>>),
      TldTx(<<Nuke((5 :> <<[tx |-> 5, index |-> 1, output |-> Failure(0)]>>) @@
                   (3 :> <<[tx |-> 3, index |-> 1, output |-> Output(0, 0)],
                           [tx |-> 3, index |-> 2, output |-> Output(0, 1)]>>))>>)>>
RegisterC == [kind |-> "register", name |-> "c.a", contract |-> Contract(0, 0, 1)]
DeleteD == [kind |-> "delete", name |-> "d.a"]
TldProofs ==
    {<<Proof(5, 1, [Output(0, 1) EXCEPT !.effects = <<RegisterC, DeleteD>>,
                                        !.state_reads = {[name |-> "b", state |-> 0]}])>>}

(* A native blob before the others. *)
NativeTxs == <<Tx(<<Call("sha3"), Call("a"), Call("b")>>)>>
NativeProofs == {<<Proof(1, 2, Output(0, 1))>>, <<Proof(1, 2, Output(1, 0))>>,
                 <<Proof(1, 3, Output(0, 1))>>}
=============================================================================
