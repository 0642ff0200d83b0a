---------------------------- MODULE ProofSearch -----------------------------
(***************************************************************************)
(* The search for a proof: FindProof, in miner.go and tcp_miner.go alike.  *)
(*                                                                         *)
(* A round tries up to MiningRounds values of the uint32 field Proof under *)
(* the mutex, ends at the first one that makes the hash small enough, and  *)
(* emits START_MINING for the next round.  Between two rounds a received   *)
(* block may start a new search.  SpartanGold has one step for all of      *)
(* this, "a proof is found"; here is what lies behind it.                  *)
(***************************************************************************)
EXTENDS Integers

CONSTANTS
  UintRange,      \* 2^32 in the code
  MiningRounds,   \* NUM_ROUNDS_MINING
  WinningSets,    \* which values may make a block's hash small enough
  MaxSearches     \* bound: searches started

ASSUME ProofSearchAssumption ==
  /\ UintRange \in Nat \ {0}
  /\ MiningRounds \in 1 .. UintRange - 1
  /\ WinningSets \subseteq SUBSET (0 .. UintRange - 1)
  /\ MaxSearches \in Nat

VARIABLES
  winning,        \* the values of Proof that hasValidProof accepts
  Proof,          \* the field of CurrentBlock
  announced,      \* the proofs that were announced for this block
  searches        \* how many searches were started

vars == <<winning, Proof, announced, searches>>

StartNewSearch ==
  /\ winning' \in WinningSets
  /\ Proof' = 0
  /\ announced' = {}

Init ==
  /\ winning \in WinningSets
  /\ Proof = 0
  /\ announced = {}
  /\ searches = 1

\* A mistake ProofIsFound rules out: every round counted from 0.
PauseAfterFirstRound == MiningRounds % UintRange

\* A uint32 sum: near 2^32 it is below Proof.
pausePoint == (Proof + MiningRounds) % UintRange

\* The valid proofs that a round would meet.
Ahead == {p \in winning : Proof <= p /\ p < pausePoint}

\* A mistake SmallestProof rules out: any valid proof of the round.
StopsAnywhere(p) == p \in Ahead

\* The round stops at the first of them.
StopsAt(p) == p \in Ahead /\ \A q \in Ahead : p <= q

\* The field is left at the valid proof, or where the next round begins.
FindProof ==
  /\ \/ \E p \in winning :
          /\ StopsAt(p)
          /\ Proof' = p
          /\ announced' = announced \cup {p}
     \/ /\ Ahead = {}
        /\ Proof' = IF Proof < pausePoint THEN pausePoint ELSE Proof
        /\ UNCHANGED announced
  /\ UNCHANGED <<winning, searches>>

\* ReceiveBlock cuts over between two rounds.
CutOver ==
  /\ searches < MaxSearches
  /\ searches' = searches + 1
  /\ StartNewSearch

Next == FindProof \/ CutOver

Spec == Init /\ [][Next]_vars

\* Every round ends by starting the next one, and goroutines get to run.
FairSpec == Spec /\ WF_vars(FindProof)

-----------------------------------------------------------------------------

TypeOK ==
  /\ winning \in WinningSets
  /\ Proof \in 0 .. UintRange - 1
  /\ announced \subseteq winning
  /\ searches \in Nat

\* However the rounds are cut, no value is skipped: all that is below Proof
\* was tried in vain, so what is announced is the smallest valid proof, and
\* the same one in every later round.
SmallestProof ==
  /\ \A p \in winning : Proof <= p
  /\ announced \subseteq {Proof}

\* The last multiple of MiningRounds, from which pausePoint wraps.
Reach == (UintRange - 1) - ((UintRange - 1) % MiningRounds)

\* A valid proof is found unless a cutover comes first, or it is one of the
\* last values, from Reach on: the search stalls there, round after round, and
\* never tries them.
ProofIsFound ==
  \A s \in 1 .. MaxSearches :
    (searches = s /\ \E p \in winning : p < Reach)
      ~> (searches # s \/ announced # {})
=============================================================================
