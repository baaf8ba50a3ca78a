------------------------------ MODULE MCClaim ------------------------------
(***************************************************************************)
(* Claim for TLC.  A record's length is bounded by Target, and every segment*)
(* takes at most Target bytes of them, so the state space is finite as it   *)
(* stands.                                                                  *)
(***************************************************************************)
EXTENDS Claim, TLC

\* Rows on a plain volume are longer than a keyless record with a short key.
\* On a whole-block volume a record takes whole blocks and a row part of one.
PlainKinds == {[span |-> 1, row |-> 2], [span |-> 3, row |-> 1]}
BlockKinds == {[span |-> 2, row |-> 1], [span |-> 4, row |-> 3]}

Symmetry == Permutations(Writers)
=============================================================================
