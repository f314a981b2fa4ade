---------------------------- MODULE MCConsumers ----------------------------
(***************************************************************************)
(* Consumers for TLC: of three transactions on the prover's contract one   *)
(* needs the effect of another and one always fails.                       *)
(***************************************************************************)
EXTENDS Consumers

CONSTANTS t1, t2, t3

MCTxs == {t1, t2, t3}
MCNeeds == (t1 :> {} @@ t2 :> {t1} @@ t3 :> {})
MCBroken == {t3}
=============================================================================
