---------------------------- MODULE BlockFilling ----------------------------
(***************************************************************************)
(* A chain on the lists of block.go.  A miner enters its pool into a block *)
(* on top of the head, and the receivers rerun the block that it found,    *)
(* which is the next head.                                                 *)
(*                                                                         *)
(* The wallets that made the pool may have posted two transactions at one  *)
(* nonce, spent more than they own or sent an unsigned one: nothing is     *)
(* assumed of a transaction but its type.                                  *)
(***************************************************************************)
EXTENDS BlockLists

CONSTANTS
  Transactions,   \* what a pool may hold
  MaxOrder,       \* bound: transactions in a pool
  MaxHeight       \* bound: blocks on the chain

\* The genesis block lists the starting balances, which are a map in MakeGenesis.
ASSUME FillingAssumption ==
  /\ Transactions \subseteq [from : Address, nonce : Nat, fee : Amount,
                            signed : BOOLEAN, outputs : Seq(Output)]
  /\ GenesisBalances \in Seq([id : Address, value : Amount])
  /\ \A i, j \in DOMAIN GenesisBalances :
       GenesisBalances[i].id = GenesisBalances[j].id => i = j
  /\ StartingBalances = [a \in Address |-> ValueOf(GenesisBalances, a)]
  /\ MaxOrder \in Nat /\ MaxHeight \in Nat

VARIABLES
  head,         \* Balances and NextNonce of the head
  rewardAddr,   \* of the head, whose reward the next block pays
  height,
  order         \* the pool, in the order ToArray gives

vars == <<head, rewardAddr, height, order>>

ListsOf(blk) == [balances |-> blk.balances, nextNonce |-> blk.nextNonce]

Init ==
  /\ head = ListsOf(GenesisBlock)
  /\ rewardAddr = NoAddress
  /\ height = 0
  /\ order = <<>>

\* The block that StartNewSearch makes of the pool.
filled == FillLists(head, order)

\* The same block, as its receivers compute it.
rerun == RerunLists(head, rewardAddr, filled.txs)

Pool(tx) ==
  /\ Len(order) < MaxOrder
  /\ order' = Append(order, tx)
  /\ UNCHANGED <<head, rewardAddr, height>>

\* The block of miner m becomes the head, unless Rerun refuses it.
Accept(m) ==
  /\ height < MaxHeight
  /\ ~ filled.panicked
  /\ ~ rerun.refused
  /\ head' = ListsOf(rerun)
  /\ rewardAddr' = m
  /\ height' = height + 1
  /\ order' = <<>>

Next ==
  \/ \E tx \in Transactions : Pool(tx)
  \/ \E m \in Address : Accept(m)

Spec == Init /\ [][Next]_vars

-----------------------------------------------------------------------------
(* The lists and the ledger *)

AsLedger(blk) ==
  [balances  |-> [a \in Address |-> ValueOf(blk.balances, a)],
   nextNonce |-> [a \in Address |-> ValueOf(blk.nextNonce, a)]]

AsDraft(blk) ==
  [balances  |-> AsLedger(blk).balances,
   nextNonce |-> AsLedger(blk).nextNonce, txs |-> blk.txs]

\* What a receiver takes from the header of the head.
parent == [rewardAddr |-> rewardAddr]

\* The reward that the next block pays.
RewardDue == IF rewardAddr = NoAddress THEN 0 ELSE COINBASE_AMT_ALLOWED

\* Neither the gold there is nor what an entered transaction gives away
\* reaches 2^32.  The code tests neither.
NothingWraps ==
  /\ TotalOf(AsLedger(head).balances) + RewardDue < UintRange
  /\ \A i \in DOMAIN filled.txs : ExactTotal(filled.txs[i]) < UintRange

\* What a miner fills from any pool is accepted by every receiver, although
\* that pays the miner of the head first and the miner did not: as long as
\* nothing wraps.  An account that a reward takes past 2^32 has less for the
\* receivers than for the miner.
FilledBlocksReplay ==
  NothingWraps /\ ~ filled.panicked =>
    RerunSucceeds(parent, AsLedger(head), filled.txs)

OneEntryEach(list) == IsInjective([i \in DOMAIN list |-> list[i].id])

\* The lists are the functions of Ledger, account by account, for the miner
\* that fills a block and for the receiver that reruns it; no account ever has
\* two entries, of which only the first would count.
ListsKeepTheLedger ==
  ~ filled.panicked =>
    /\ AsDraft(filled) = FillBlock(AsLedger(head), order)
    /\ rerun.refused = ~ RerunSucceeds(parent, AsLedger(head), filled.txs)
    /\ ~ rerun.refused =>
         AsLedger(rerun) = LedgerAfter(parent, AsLedger(head), filled.txs)
    /\ \A blk \in {filled, rerun} :
         OneEntryEach(blk.balances) /\ OneEntryEach(blk.nextNonce)

\* AddTransaction takes the index of the sender's balance without looking at
\* it (block.go:252).  The one transaction that gets there from an account
\* without an entry is one that gives nothing away.
OnlyNothingPanics ==
  filled.panicked => /\ TotalOutput(Last(filled.txs)) = 0
                     /\ FindIndex(filled.balances, Last(filled.txs).from) = 0

\* What tx gives to a, and takes from it.
ReceivedBy(a, tx) ==
  SumFunction([k \in DOMAIN tx.outputs |->
                 IF tx.outputs[k].address = a THEN tx.outputs[k].amount ELSE 0])

TakenFrom(a, tx) == IF tx.from = a THEN ExactTotal(tx) ELSE 0

\* TotalOutput adds in uint32 (transaction.go:143): outputs of 2^32 in all pass
\* for nothing and are credited in full.  As long as nothing wraps, a block
\* keeps the books: an account has what it had, less what it sent and paid in
\* fees, plus what it was sent, and is never overdrawn, its own outputs to
\* itself included.
BalancesAreExact ==
  LET txs == filled.txs
  IN  NothingWraps =>
        /\ \A a \in Address :
             BalanceOf(filled, a)
               = BalanceOf(head, a)
                   + SumFunction([i \in DOMAIN txs |-> ReceivedBy(a, txs[i])])
                   - SumFunction([i \in DOMAIN txs |-> TakenFrom(a, txs[i])])
        /\ \A i \in DOMAIN txs : txs[i].signed
=============================================================================
