---------------------------- MODULE SpartanGold -----------------------------
(***************************************************************************)
(* A SpartanGold network: Clients and Miners on one FakeNet, started from  *)
(* one genesis block.                                                      *)
(*                                                                         *)
(* A step is one handler, one user call or one round of mining; each runs  *)
(* under the mutex of its node.  The module composes the handlers and      *)
(* states what the network guarantees.                                     *)
(***************************************************************************)
EXTENDS Miner

CONSTANT Joined      \* the nodes registered from the start

ASSUME SpartanGoldAssumption == Joined \subseteq Node

\* All the gold there can be fits into uint32, and so does what a user pays at
\* once: the code tests neither.
ASSUME GoldAssumption ==
  /\ TotalOf(StartingBalances) + COINBASE_AMT_ALLOWED * MaxBlocks < UintRange
  /\ \A payment \in Payment : ExactTotal(payment) < UintRange

vars == <<netVars, block, chainVars, walletVars, minerVars>>

Init ==
  /\ NetInit(Joined)
  /\ ClientInit
  /\ MinerInit

-----------------------------------------------------------------------------
(* Steps *)

Join(n) ==
  /\ Register(n)
  /\ UNCHANGED <<block, chainVars, walletVars, minerVars>>

ReceiveBlock(n, b) ==
  /\ Pending(n, PROOF_FOUND(b))
  /\ \/ IgnoreBlock(n, b) /\ UNCHANGED minerVars
     \/ StickBlock(n, b, Clients) /\ UNCHANGED minerVars
     \/ /\ AcceptBlock(n, b)
        /\ UNCHANGED clock
        /\ IF n \in MinerNode THEN CutOver(n, b)
           ELSE UNCHANGED <<CurrentBlock, Transactions>>

HandleBlock(n) == \E b \in DOMAIN block : ReceiveBlock(n, b)

HandleRequest(n) ==
  \E call \in DOMAIN calls[n] :
    /\ call.op = "MISSING_BLOCK"
    /\ ProvideMissingBlock(n, call.from, call.prev)
    /\ UNCHANGED minerVars

HandleTransaction(m) ==
  \E call \in DOMAIN calls[m] :
    \/ call.op = "POST_TRANSACTION" /\ AddTransactionBytes(m, call.tx)
    \/ call.op = "AddTransaction" /\ AddOwnTransaction(m, call.tx)

UserStep(n) ==
  /\ \/ \E payment \in Payment : PostTransaction(n, payment)
     \/ ResendPendingTransactions(n)
  /\ UNCHANGED minerVars

Mine(m) == Initialize(m) \/ FindProof(m, Clients) \/ FindProofAgain(m, Clients)

Next ==
  \/ \E n \in Node :
       Join(n) \/ HandleBlock(n) \/ HandleRequest(n) \/ UserStep(n)
  \/ \E m \in MinerNode : HandleTransaction(m) \/ Mine(m)

Spec == Init /\ [][Next]_vars

\* Go runs every goroutine, and its mutex lets every waiter in: no handler
\* waits for ever.  Nothing obliges a user, a late node or a miner's luck.
Fairness ==
  /\ \A n \in Node : WF_vars(HandleBlock(n)) /\ WF_vars(HandleRequest(n))
  /\ \A m \in MinerNode : WF_vars(HandleTransaction(m))

FairSpec == Spec /\ Fairness

-----------------------------------------------------------------------------
(* Types *)

BlockId == {Genesis} \cup MinerNode \X Nat

Transaction ==
  [from : Node, nonce : 0 .. MaxNonce - 1, fee : Amount, signed : BOOLEAN,
   outputs : Seq(Output)]

Message ==
  [op : {"PROOF_FOUND"}, block : DOMAIN block]
    \cup [op : {"MISSING_BLOCK"}, from : Node, prev : DOMAIN block]

\* Which identities, nodes and blocks each variable mentions.
StructureOK ==
  /\ Clients \subseteq Node
  /\ Genesis \in DOMAIN block
  /\ DOMAIN block \subseteq BlockId
  /\ \A n \in Node :
       /\ DOMAIN Blocks[n] \subseteq DOMAIN block
       /\ PendingBlocks[n] \subseteq DOMAIN block
       /\ LastBlock[n] \in DOMAIN Blocks[n]
       /\ LastConfirmedBlock[n] \in DOMAIN Blocks[n]
       /\ \A c \in DOMAIN calls[n] :
            \/ c \in Message
            \/ c.op \in {"POST_TRANSACTION", "AddTransaction"}
  /\ \A m \in MinerNode : clock[m] \in Nat

\* The numbers and transactions they carry.
ValuesOK ==
  /\ \A b \in DOMAIN block : block[b].txs \in Seq(Transaction)
  /\ \A n \in Node :
       /\ \A b \in DOMAIN Blocks[n] : Blocks[n][b] \in LedgerType
       /\ PendingOutgoingTransactions[n] \subseteq Transaction
       /\ Nonce[n] \in 0 .. MaxNonce
       /\ \A c \in DOMAIN calls[n] :
            /\ calls[n][c] \in Nat \ {0}
            /\ c \notin Message => c.tx \in Transaction
  /\ \A m \in MinerNode :
       /\ Transactions[m] \subseteq Transaction
       /\ Initialized(m) => CurrentBlock[m].txs \in Seq(Transaction)

\* The type invariant.
TypeOK == StructureOK /\ ValuesOK

-----------------------------------------------------------------------------
(* Chains and ledgers *)

\* The head of a node is a longest chain among the blocks it knows, and the
\* confirmed block is CONFIRMED_DEPTH below it: blocks that arrive out of
\* order, stuck and unstuck, never leave a shorter chain in place.
HeadIsLongest ==
  \A n \in Node :
    LET head == block[LastBlock[n]]
        low  == IF head.len > CONFIRMED_DEPTH
                THEN head.len - CONFIRMED_DEPTH ELSE 0
    IN  /\ \A b \in DOMAIN Blocks[n] : block[b].len <= head.len
        /\ block[LastConfirmedBlock[n]].len = low
        /\ block[LastConfirmedBlock[n]] \in Lineage(head)

\* A node knows the whole chain of each block it knows: the walks of
\* SetLastConfirmed and SyncTransaction never meet a missing block, which
\* would be a nil pointer.
ChainsAreComplete ==
  \A n \in Node : \A b \in DOMAIN Blocks[n] : block[b].prev # NoBlock =>
    /\ block[b].prev \in DOMAIN Blocks[n]
    /\ block[b].len = block[block[b].prev].len + 1
    /\ block[b].chain = Chain(block[block[b].prev])

\* A miner always searches on the head of its own longest chain, although
\* the cutover test compares lengths with the current block, not the head.
MiningOnHead ==
  \A m \in MinerNode :
    Initialized(m) => CurrentBlock[m].prev = LastBlock[m]

\* Balances and nonces are not covered by a block's hash: each node computes
\* its own.  Two nodes that know a block have the same ledger for it.
LedgerAgreement ==
  \A n1, n2 \in Node : \A b \in DOMAIN Blocks[n1] \cap DOMAIN Blocks[n2] :
    Blocks[n1][b] = Blocks[n2][b]

\* No announced block is refused by Rerun, at any node that has its parent but
\* not yet the block: a refused block would cut that node off from all its
\* descendants.  The miner fills the block before the reward of the parent is
\* paid, Rerun after.
HonestBlocksReplay ==
  \A n \in Node : \A b \in DOMAIN block \ DOMAIN Blocks[n] :
    block[b].prev \in DOMAIN Blocks[n] => Valid(n, b)

\* Rewards for all blocks of a chain but the last, which its child pays, are
\* the only gold created, and the fees, which no code pays out, the only gold
\* destroyed.
GoldConservation ==
  \A n \in Node : \A b \in DOMAIN Blocks[n] :
    LET len      == block[b].len
        Fees(h)  == FeesOf(block[Chain(block[b])[h]].txs)
        rewarded == IF len = 0 THEN 0 ELSE len - 1
    IN  TotalOf(Blocks[n][b].balances)
          = TotalOf(StartingBalances) + COINBASE_AMT_ALLOWED * rewarded
              - SumFunction([h \in 0 .. len |-> Fees(h)])

\* On any chain the transactions of a sender have the nonces 0, 1, 2, ...,
\* each once and in this order, however often they were resent, returned to a
\* pool or mined on another branch.
NoReplay ==
  \A n \in Node : \A b \in DOMAIN Blocks[n] : \A a \in Node :
    LET next    == Blocks[n][b].nextNonce[a]
        heights == 0 .. block[b].len
        Txs(h)  == block[Chain(block[b])[h]].txs
        Own(h)  == {i \in DOMAIN Txs(h) : Txs(h)[i].from = a}
    IN  /\ \A k \in 0 .. next - 1 :
             \E h \in heights : \E i \in Own(h) : Txs(h)[i].nonce = k
        /\ \A h \in heights : \A i \in Own(h) :
             /\ Txs(h)[i].nonce \in 0 .. next - 1
             /\ \A g \in heights : \A j \in Own(g) :
                  g < h \/ (g = h /\ j < i) => Txs(g)[j].nonce < Txs(h)[i].nonce

\* All that SpartanGold does to its blocks is what LongestChain promises: a
\* proof extends the chain its miner follows, never a stale one; a block is
\* known after its ancestors only; the head moves to a longer chain and never
\* otherwise.
Tree == [b \in DOMAIN block |-> [parent |-> block[b].prev, height |-> block[b].len]]

Known == [n \in Node |-> DOMAIN Blocks[n]]

Chains == INSTANCE LongestChain
  WITH Start <- [n \in Node |-> Genesis],
       tree <- Tree, known <- Known, head <- LastBlock

FollowsLongestChain == Chains!Spec

-----------------------------------------------------------------------------
(* Missing blocks *)

\* A block that waits for its parent is never forgotten: the parent is on its
\* way, or waits itself, or a node that has it holds an unanswered request.
\* A parent is requested once, by the first block that waits for it.
NoStrandedBlocks ==
  \A n \in Node : \A u \in PendingBlocks[n] :
    LET prev == block[u].prev
    IN  /\ prev \notin DOMAIN Blocks[n]
        /\ \/ prev \in PendingBlocks[n]
           \/ Pending(n, PROOF_FOUND(prev))
           \/ \E k \in Node : /\ prev \in DOMAIN Blocks[k]
                              /\ Pending(k, MISSING_BLOCK(n, prev))
                              /\ n \in Clients

\* Only registered nodes ask for blocks: ProvideMissingBlock never sends to an
\* address that the network does not know, which is a nil client (FakeNet.go:80).
RequestersRegistered ==
  \A n \in Node : \A c \in DOMAIN calls[n] :
    c.op = "MISSING_BLOCK" => c.from \in Clients

-----------------------------------------------------------------------------
(* Wallets *)

\* The transactions a node waits for are exactly those it posted that its
\* confirmed chain does not have: what is left can be resent, and nothing
\* confirmed is still counted as spent.
WalletExact(n) ==
  LET next == Blocks[n][LastConfirmedBlock[n]].nextNonce[n]
  IN  {tx.nonce : tx \in PendingOutgoingTransactions[n]} = next .. Nonce[n] - 1

\* SetLastConfirmed looks for pending transactions in one block only.  This
\* keeps the wallet exact as long as no step leaves the confirmed chain.
WalletStaysExact ==
  [][\A n \in Node :
       WalletExact(n)
         /\ block[LastConfirmedBlock[n]] \in Lineage(block[LastConfirmedBlock[n]])'
       => WalletExact(n)']_vars

\* The payments that wait are covered by the confirmed balance, added up
\* exactly: PendingSpent is the same sum on uint32.
FundsCovered(n) ==
  MapThenSumSet(TotalOutput, PendingOutgoingTransactions[n]) <= ConfirmedBalance(n)

\* What a wallet has promised stays covered, through payments, confirmations
\* and cutovers, as long as the step does not leave the confirmed chain: a
\* block that takes gold from the balance takes its payments from the wallet.
FundsStayCovered ==
  [][\A n \in Node :
       WalletExact(n) /\ FundsCovered(n)
         /\ block[LastConfirmedBlock[n]] \in Lineage(block[LastConfirmedBlock[n]])'
       => FundsCovered(n)']_vars

\* What is available is never more than the confirmed balance, that is, the
\* unsigned subtraction does not go below zero.  A step that does leave the
\* confirmed chain refutes it (run reorg).
AvailableGoldCovered ==
  \A n \in Node : AvailableGold(n) <= ConfirmedBalance(n)

-----------------------------------------------------------------------------
(* Mining *)

\* What m will enter into a block, is trying to mine, or has on its chain.
Held(m) ==
  Transactions[m] \cup
    (IF Initialized(m)
     THEN UNION {ToSet(h.txs) : h \in Lineage(CurrentBlock[m])}
     ELSE {})

\* What CurrentBlock[m] leaves of the gold that a has at the head of m.
GoldLeft(m, a) ==
  LET txs      == CurrentBlock[m].txs
      Spent(i) == IF txs[i].from = a THEN TotalOutput(txs[i]) ELSE 0
  IN  Blocks[m][LastBlock[m]].balances[a]
        - SumFunction([i \in DOMAIN txs |-> Spent(i)])

\* A miner loses a transaction in three ways only.  It is entered before its
\* predecessor: the pool has no order, and what is refused is dropped.  Its
\* sender lacks the gold on the branch of the miner, beside the transactions
\* that are entered.  Or it was in an abandoned block with other transactions.
TransactionsAreKept ==
  [][\A m \in MinerNode : \A tx \in Held(m) \ Held(m)' :
       \/ tx.nonce > (Blocks[m][LastBlock[m]].nextNonce[tx.from])'
       \/ TotalOutput(tx) > GoldLeft(m, tx.from)'
       \/ /\ Initialized(m)
          /\ \E h \in Lineage(CurrentBlock[m]) :
               Contains(h.txs, tx) /\ Len(h.txs) > 1]_vars

\* "This function should determine what transactions need to be added or
\* deleted" (miner.go:241): those of the abandoned blocks that the new ones do
\* not have, whenever a cutover is about to happen.
Abandoned(m, b) ==
  LET Txs(headers) == UNION {ToSet(h.txs) : h \in headers}
      old == Lineage(CurrentBlock[m])
      new == Lineage(block[b])
  IN  Txs(old \ new) \ Txs(new \ old)

SyncReturnsAbandoned ==
  \A m \in MinerNode : \A b \in DOMAIN block \ DOMAIN Blocks[m] :
    /\ Initialized(m)
    /\ Pending(m, PROOF_FOUND(b))
    /\ ParentKnown(m, b)
    /\ block[b].len >= CurrentBlock[m].len
    => SyncTransaction(m, b) = Abandoned(m, b)

-----------------------------------------------------------------------------
(* Progress *)

\* A block that has been found reaches every node that was registered then.
BlocksSpread ==
  \A n \in Joined : \A m \in MinerNode : \A k \in 0 .. MaxBlocks - 1 :
    (<<m, k>> \in DOMAIN block) ~> (<<m, k>> \in DOMAIN Blocks[n])

\* A node that received a block before its ancestors, as a late one does,
\* gets all of them in the end.
BlocksGetUnstuck ==
  \A n \in Node : (PendingBlocks[n] # {}) ~> (PendingBlocks[n] = {})
=============================================================================
