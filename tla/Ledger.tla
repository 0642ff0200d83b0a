------------------------------- MODULE Ledger -------------------------------
(***************************************************************************)
(* The account ledger that a block carries: block.go and transaction.go.   *)
(*                                                                         *)
(* A Block holds Balances and NextNonce lists that are a function of the   *)
(* chain it ends.  They are left out of its hash (GetHash) and recomputed  *)
(* by every receiver (Rerun), so this module keeps them apart from the     *)
(* hashed part of the block, as a "ledger" record                          *)
(*                                                                         *)
(*     [balances : [Address -> uint32], nextNonce : [Address -> uint32]]   *)
(*                                                                         *)
(* Both lists are functions that are 0 where the list has no entry, which  *)
(* is what BalanceOf and AddTransaction read in that case.                 *)
(*                                                                         *)
(* A transaction is the record                                             *)
(*                                                                         *)
(*     [from, nonce, fee, outputs, signed]                                 *)
(*                                                                         *)
(* with outputs a sequence of [address, amount].  Id() hashes the whole    *)
(* transaction, so two transactions have one id iff the records are equal. *)
(* The RSA signature is the flag signed: TRUE iff Sig verifies.            *)
(***************************************************************************)
EXTENDS Integers, Sequences, SequencesExt, FiniteSets

CONSTANTS
  Address,               \* addresses, a hash of a public key in the code
  NoAddress,             \* the empty RewardAddr of a genesis block
  StartingBalances,      \* the balances MakeGenesis is given
  COINBASE_AMT_ALLOWED,  \* coins created by a block
  UintRange              \* 2^32 in the code: one past the largest uint32

ASSUME LedgerAssumption ==
  /\ IsFiniteSet(Address) /\ NoAddress \notin Address
  /\ COINBASE_AMT_ALLOWED \in Nat
  /\ UintRange \in Nat \ {0}
  /\ StartingBalances \in [Address -> 0 .. UintRange - 1]

\* Arithmetic on uint32 wraps around, subtraction below zero included.
Uint(i) == i % UintRange

Amount == 0 .. UintRange - 1

Output == [address : Address, amount : Amount]

LedgerType == [balances : [Address -> Amount], nextNonce : [Address -> Amount]]

-----------------------------------------------------------------------------
(* Transactions *)

\* What a sender gives away: all the outputs and the fee.
TotalOutput(tx) ==
  FoldLeft(LAMBDA sum, out : Uint(sum + out.amount), tx.fee, tx.outputs)

-----------------------------------------------------------------------------
(* A draft is a ledger together with the transactions that made it: the    *)
(* part of a Block that AddTransaction reads and writes.                   *)

\* NewBlock copies the balances and nonces of its parent as they are: the
\* reward of the parent's miner is not in them yet.
NewDraft(ledger) ==
  [balances |-> ledger.balances, nextNonce |-> ledger.nextNonce, txs |-> <<>>]

\* A mistake NoReplay rules out: the test of replayed nonces forgotten.
AcceptsReplays(draft, tx) ==
  /\ ~ Contains(draft.txs, tx)
  /\ tx.signed
  /\ TotalOutput(tx) <= draft.balances[tx.from]
  /\ tx.nonce <= draft.nextNonce[tx.from]

\* The four refusals of AddTransaction before the nonce test, and the nonce
\* test, which refuses replayed and out-of-order transactions alike.
AcceptsTransaction(draft, tx) ==
  /\ ~ Contains(draft.txs, tx)
  /\ tx.signed
  /\ TotalOutput(tx) <= draft.balances[tx.from]
  /\ tx.nonce = draft.nextNonce[tx.from]

\* The sender is debited first, then every output is credited in turn, to
\* the sender too when it pays itself.
ApplyTransaction(draft, tx) ==
  LET debited == [draft.balances EXCEPT ![tx.from] = Uint(@ - TotalOutput(tx))]
      Credit(bal, out) == [bal EXCEPT ![out.address] = Uint(@ + out.amount)]
  IN  [balances  |-> FoldLeft(Credit, debited, tx.outputs),
       nextNonce |-> [draft.nextNonce EXCEPT ![tx.from] = Uint(@ + 1)],
       txs       |-> Append(draft.txs, tx)]

AddTransaction(draft, tx) ==
  IF AcceptsTransaction(draft, tx) THEN ApplyTransaction(draft, tx) ELSE draft

\* A mistake HonestBlocksReplay rules out: the pool taken over unchecked.
FillUnchecked(ledger, order) == [NewDraft(ledger) EXCEPT !.txs = order]

\* The block a miner makes of its pool: the loop of StartNewSearch ignores
\* the result of AddTransaction, so a refused transaction is left behind.
FillBlock(ledger, order) == FoldLeft(AddTransaction, NewDraft(ledger), order)

-----------------------------------------------------------------------------
(* Rerun *)

\* A mistake GoldConservation rules out: the reward replaces the balance.
PayRewardOnly(ledger, parent) ==
  IF parent.rewardAddr = NoAddress
  THEN ledger
  ELSE [ledger EXCEPT !.balances[parent.rewardAddr] = COINBASE_AMT_ALLOWED]

\* The reward of a block is paid in the ledger of its child.  Only the
\* coinbase is: no code path pays the fees to anyone.
PayReward(ledger, parent) ==
  IF parent.rewardAddr = NoAddress
  THEN ledger
  ELSE [ledger EXCEPT !.balances[parent.rewardAddr] =
                          Uint(@ + COINBASE_AMT_ALLOWED)]

\* Rerun starts from the parent's ledger, pays the parent's miner and enters
\* all the transactions again.  It fails as soon as one is refused; here the
\* refused ones are missing from the draft, so it succeeds iff none is.
Rerun(parent, parentLedger, txs) ==
  FoldLeft(AddTransaction, NewDraft(PayReward(parentLedger, parent)), txs)

RerunSucceeds(parent, parentLedger, txs) ==
  Rerun(parent, parentLedger, txs).txs = txs

\* The Balances and NextNonce that a successful Rerun leaves in the block.
LedgerAfter(parent, parentLedger, txs) ==
  LET draft == Rerun(parent, parentLedger, txs)
  IN  [balances |-> draft.balances, nextNonce |-> draft.nextNonce]

GenesisLedger ==
  [balances |-> StartingBalances, nextNonce |-> [a \in Address |-> 0]]

-----------------------------------------------------------------------------
(* Gold, counted without wrapping around: what the ledgers are measured by. *)

TotalOf(balances) == SumFunction(balances)

FeesOf(txs) == SumFunction([i \in DOMAIN txs |-> txs[i].fee])

\* Of a payment or a transaction.
ExactTotal(tx) ==
  tx.fee + SumFunction([i \in DOMAIN tx.outputs |-> tx.outputs[i].amount])
=============================================================================
