----------------------------- MODULE BlockLists -----------------------------
(***************************************************************************)
(* The ledger as block.go stores it: Balances and NextNonce are lists of   *)
(* [id, value] that are searched from the front, and an account has no     *)
(* entry until something needs one.  Ledger.tla states the same operations *)
(* with functions; this module is what the code does to get there.         *)
(*                                                                         *)
(* A block under construction is the record                                *)
(*                                                                         *)
(*     [balances, nextNonce, txs, refused, panicked]                       *)
(*                                                                         *)
(* refused is TRUE once AddTransaction returned false, panicked once an    *)
(* index of -1 was used: the process is gone.                              *)
(***************************************************************************)
EXTENDS Ledger

CONSTANT GenesisBalances    \* Balances of the genesis block, in map order

-----------------------------------------------------------------------------
(* Lists *)

\* FindBalanceIndex, FindNextNonceIndex: the first entry of a, or 0.
FindIndex(list, a) == SelectInSeq(list, LAMBDA e : e.id = a)

\* The value of that entry, or 0.
ValueOf(list, a) ==
  LET i == FindIndex(list, a) IN IF i = 0 THEN 0 ELSE list[i].value

BalanceOf(blk, a) == ValueOf(blk.balances, a)

SufficientFund(blk, tx) == TotalOutput(tx) <= BalanceOf(blk, tx.from)

\* A mistake BalancesAreExact rules out: a second entry for the account.
AppendBalance(list, a, value) == Append(list, [id |-> a, value |-> value])

\* The entry of a is changed, or appended if there is none.
SetBalance(list, a, value) ==
  LET i == FindIndex(list, a)
  IN  IF i = 0 THEN Append(list, [id |-> a, value |-> value])
               ELSE [list EXCEPT ![i].value = value]

\* NewBlock and Rerun copy the lists of the parent.
CopyOf(parent) ==
  [balances |-> parent.balances, nextNonce |-> parent.nextNonce,
   txs |-> <<>>, refused |-> FALSE, panicked |-> FALSE]

GenesisBlock ==
  CopyOf([balances |-> GenesisBalances, nextNonce |-> <<>>])

-----------------------------------------------------------------------------
(* AddTransaction *)

\* The refusals that come first and leave the block alone.
RefusedAtOnce(blk, tx) ==
  \/ Contains(blk.txs, tx)
  \/ ~ tx.signed
  \/ ~ SufficientFund(blk, tx)

\* A mistake ListsKeepTheLedger rules out: an entry for every transaction.
AppendNonceEntry(blk, a) ==
  [blk EXCEPT !.nextNonce = Append(@, [id |-> a, value |-> 0])]

\* The sender gets an entry before its nonce is compared, and keeps it when
\* the transaction is refused.
WithNonceEntry(blk, a) ==
  IF FindIndex(blk.nextNonce, a) = 0
  THEN [blk EXCEPT !.nextNonce = Append(@, [id |-> a, value |-> 0])]
  ELSE blk

Credit(blk, out) ==
  [blk EXCEPT !.balances =
     SetBalance(@, out.address, Uint(BalanceOf(blk, out.address) + out.amount))]

\* The nonce and the transaction are entered before the balance of the sender
\* is looked for; nothing is credited when there is none.
EnterTransaction(blk, tx) ==
  LET nonceAt   == FindIndex(blk.nextNonce, tx.from)
      balanceAt == FindIndex(blk.balances, tx.from)
      entered   == [blk EXCEPT !.nextNonce[nonceAt].value = Uint(@ + 1),
                               !.txs = Append(@, tx)]
  IN  IF balanceAt = 0
      THEN [entered EXCEPT !.panicked = TRUE]
      ELSE FoldLeft(Credit,
                    [entered EXCEPT !.balances[balanceAt].value =
                                       Uint(@ - TotalOutput(tx))],
                    tx.outputs)

\* Past the first refusals, an old or early nonce still is one.
EnterInOrder(blk, tx) ==
  IF ValueOf(blk.nextNonce, tx.from) = tx.nonce
  THEN EnterTransaction(blk, tx)
  ELSE [blk EXCEPT !.refused = TRUE]

\* A mistake OnlyNothingPanics and FilledBlocksReplay rule out: the funds are
\* not looked at.
AddWithoutFunds(blk, tx) ==
  IF blk.panicked THEN blk
  ELSE IF Contains(blk.txs, tx) \/ ~ tx.signed THEN [blk EXCEPT !.refused = TRUE]
  ELSE EnterInOrder(WithNonceEntry(blk, tx.from), tx)

AddTransactionToLists(blk, tx) ==
  IF blk.panicked THEN blk
  ELSE IF RefusedAtOnce(blk, tx) THEN [blk EXCEPT !.refused = TRUE]
  ELSE EnterInOrder(WithNonceEntry(blk, tx.from), tx)

-----------------------------------------------------------------------------
(* What miners and receivers do with it *)

FillLists(parent, order) ==
  FoldLeft(AddTransactionToLists, CopyOf(parent), order)

\* Rerun stops at the first refused transaction.
Reenter(blk, tx) == IF blk.refused THEN blk ELSE AddTransactionToLists(blk, tx)

\* It reads the balance of the parent's miner in the parent, and changes it in
\* the copy.
PayMiner(parent, rewardAddr) ==
  IF rewardAddr = NoAddress THEN CopyOf(parent)
  ELSE [CopyOf(parent) EXCEPT !.balances =
          SetBalance(@, rewardAddr,
                     Uint(BalanceOf(parent, rewardAddr) + COINBASE_AMT_ALLOWED))]

RerunLists(parent, rewardAddr, txs) ==
  FoldLeft(Reenter, PayMiner(parent, rewardAddr), txs)
=============================================================================
