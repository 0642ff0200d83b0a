--------------------------- MODULE MCProofSearch ----------------------------
(***************************************************************************)
(* ProofSearch with a uint that is not a multiple of MiningRounds.         *)
(***************************************************************************)
EXTENDS ProofSearch, FiniteSetsExt

\* None, one or two valid proofs, anywhere.
MCWinningSets == UNION {kSubset(k, 0 .. UintRange - 1) : k \in 0 .. 2}
=============================================================================
