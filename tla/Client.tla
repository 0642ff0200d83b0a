------------------------------- MODULE Client -------------------------------
(***************************************************************************)
(* The wallet half of every node: client.go, and the methods that miner.go *)
(* repeats for Miner.                                                      *)
(*                                                                         *)
(* block is the set of genesis blocks and of blocks whose proof has been   *)
(* found, by id.  The id stands for GetHash: the proof, the timestamp and  *)
(* the reward address make it unique.  A header is the hashed part of a    *)
(* Block,                                                                  *)
(*                                                                         *)
(*     [id, prev, len, rewardAddr, txs, chain]                             *)
(*                                                                         *)
(* with prev for PrevBlockHash and len for ChainLength.  chain[h] is the   *)
(* ancestor at height h, h in 0 .. len - 1: it is what a walk along        *)
(* PrevBlockHash reads, so that a walk is a lookup.                        *)
(*                                                                         *)
(* Each handler holds the node's mutex from its first line to its last,    *)
(* and is therefore one action.                                            *)
(***************************************************************************)
EXTENDS FakeNet, Ledger

CONSTANTS
  MinerNode,         \* the nodes that are Miners; the others are Clients
  Genesis,           \* the id of the one genesis block all nodes start from
  NoBlock,           \* the nil pointer, and the empty PrevBlockHash
  CONFIRMED_DEPTH,   \* how far below the head a block counts as confirmed
  Payment,           \* what the users may pay: [from, outputs, fee]
  MaxNonce,          \* bound: transactions each user posts
  MaxCopies          \* bound: equal calls that may wait at one node

ASSUME ClientAssumption ==
  /\ Node # {} /\ Node \subseteq Address
  /\ MinerNode \subseteq Node
  /\ Genesis \notin MinerNode \X Nat
  /\ NoBlock \notin (MinerNode \X Nat) \cup {Genesis}
  /\ CONFIRMED_DEPTH \in Nat \ {0}
  /\ MaxCopies \in Nat

\* Payments fit into uint32, and so few are made that no nonce wraps around.
ASSUME PaymentAssumption ==
  /\ Payment \subseteq [from : Node, fee : Amount, outputs : Seq(Output)]
  /\ MaxNonce \in 0 .. UintRange - 1

VARIABLES
  block,                        \* id -> header of every block ever proven
  Blocks,                       \* Blocks[n]: id -> ledger of the known blocks
  PendingBlocks,                \* PendingBlocks[n]: the stuck blocks of n
  LastBlock,                    \* the head of n's longest chain
  LastConfirmedBlock,
  PendingOutgoingTransactions,  \* what n posted and has not seen confirmed
  Nonce                         \* the nonce of n's next transaction

walletVars == <<PendingOutgoingTransactions, Nonce>>
chainVars  == <<Blocks, PendingBlocks, LastBlock, LastConfirmedBlock>>

\* m[key] = value, for the Go map m.
With(m, key, value) ==
  [k \in DOMAIN m \cup {key} |-> IF k = key THEN value ELSE m[k]]

GenesisHeader(g) ==
  [id |-> g, prev |-> NoBlock, len |-> 0, rewardAddr |-> NoAddress,
   txs |-> <<>>, chain |-> <<>>]

\* NewClient and NewMiner, with the genesis block as starting block.
ClientInit ==
  /\ block = [b \in {Genesis} |-> GenesisHeader(b)]
  /\ Blocks = [n \in Node |-> [b \in {Genesis} |-> GenesisLedger]]
  /\ PendingBlocks = [n \in Node |-> {}]
  /\ LastBlock = [n \in Node |-> Genesis]
  /\ LastConfirmedBlock = [n \in Node |-> Genesis]
  /\ PendingOutgoingTransactions = [n \in Node |-> {}]
  /\ Nonce = [n \in Node |-> 0]

-----------------------------------------------------------------------------
(* The messages of blockchain.go *)

PROOF_FOUND(b)         == [op |-> "PROOF_FOUND", block |-> b]
MISSING_BLOCK(n, prev) == [op |-> "MISSING_BLOCK", from |-> n, prev |-> prev]
POST_TRANSACTION(tx)   == [op |-> "POST_TRANSACTION", tx |-> tx]

\* Not a message: the call of AddTransaction that ends the PostTransaction of
\* a Miner, after the mutex was released.
AddTransactionCall(tx) == [op |-> "AddTransaction", tx |-> tx]

-----------------------------------------------------------------------------
(* ReceiveBlock *)

IsGenesisBlock(b) == block[b].len = 0

hasValidProof(b) == b \in DOMAIN block

\* ReceiveBlock drops a block it has, and a block without a proof.
Refused(n, b) ==
  \/ b \in DOMAIN Blocks[n]
  \/ ~ hasValidProof(b) /\ ~ IsGenesisBlock(b)

ParentKnown(n, b) ==
  \/ IsGenesisBlock(b)
  \/ block[b].prev \in DOMAIN Blocks[n]

\* A block that Rerun refuses is dropped too.
Valid(n, b) ==
  ~ IsGenesisBlock(b) =>
    LET p == block[b].prev
    IN  RerunSucceeds(block[p], Blocks[n][p], block[b].txs)

\* A mistake LedgerAgreement rules out: Rerun from the head, not the parent.
LedgerOnHead(n, b) ==
  IF IsGenesisBlock(b) THEN GenesisLedger
  ELSE LedgerAfter(block[block[b].prev], Blocks[n][LastBlock[n]], block[b].txs)

AcceptedLedger(n, b) ==
  LET p == block[b].prev
  IN  IF IsGenesisBlock(b) THEN GenesisLedger
      ELSE LedgerAfter(block[p], Blocks[n][p], block[b].txs)

\* The handler returns without changing the node.
IgnoreBlock(n, b) ==
  /\ Refused(n, b) \/ (ParentKnown(n, b) /\ ~ Valid(n, b))
  /\ calls' = Finish(calls, n, PROOF_FOUND(b))
  /\ UNCHANGED <<Clients, block, chainVars, walletVars>>

StuckOn(n, prev) == {u \in PendingBlocks[n] : block[u].prev = prev}

\* A mistake NoStrandedBlocks rules out: the parent is not asked for.
RequestNothing(pool, receivers, n, prev) == pool

RequestMissingBlock(pool, receivers, n, prev) ==
  Broadcast(pool, receivers, MISSING_BLOCK(n, prev))

\* The parent is unknown: the block waits for it.  Only the first block that
\* waits for this parent asks the network for it.
StickBlock(n, b, receivers) ==
  /\ ~ Refused(n, b)
  /\ ~ ParentKnown(n, b)
  /\ PendingBlocks' = [PendingBlocks EXCEPT ![n] = @ \cup {b}]
  /\ LET prev == block[b].prev
         rest == Finish(calls, n, PROOF_FOUND(b))
     IN  calls' = IF StuckOn(n, prev) = {}
                  THEN RequestMissingBlock(rest, receivers, n, prev)
                  ELSE rest
  /\ UNCHANGED <<Clients, block, Blocks, LastBlock, LastConfirmedBlock, walletVars>>

\* The block CONFIRMED_DEPTH below the head, or the genesis block.
ConfirmedAncestor(head) ==
  LET len == block[head].len
  IN  block[head].chain[IF len > CONFIRMED_DEPTH
                        THEN len - CONFIRMED_DEPTH ELSE 0]

\* A mistake FundsStayAvailable rules out: nothing stops being pending.
ConfirmNothing(n, head) ==
  /\ LastConfirmedBlock' =
       [LastConfirmedBlock EXCEPT ![n] = ConfirmedAncestor(head)]
  /\ UNCHANGED PendingOutgoingTransactions

\* A mistake WalletStaysExact rules out: the head taken for the confirmed block.
ConfirmHead(n, head) ==
  /\ LastConfirmedBlock' =
       [LastConfirmedBlock EXCEPT ![n] = ConfirmedAncestor(head)]
  /\ PendingOutgoingTransactions' =
       [PendingOutgoingTransactions EXCEPT ![n] =
          {tx \in @ : ~ Contains(block[head].txs, tx)}]

\* Only the transactions of the confirmed block itself stop being pending.
SetLastConfirmed(n, head) ==
  LET confirmed == ConfirmedAncestor(head)
  IN  /\ LastConfirmedBlock' = [LastConfirmedBlock EXCEPT ![n] = confirmed]
      /\ PendingOutgoingTransactions' =
           [PendingOutgoingTransactions EXCEPT ![n] =
              {tx \in @ : ~ Contains(block[confirmed].txs, tx)}]

\* A mistake HeadIsLongest rules out: the last block received is the head.
AnyLength(n, b) == TRUE

Longer(n, b) == block[LastBlock[n]].len < block[b].len

\* The block is stored with its own ledger, becomes the head when its chain is
\* longer, and the blocks that waited for it are received again.
AcceptBlock(n, b) ==
  /\ ~ Refused(n, b)
  /\ ParentKnown(n, b)
  /\ Valid(n, b)
  /\ Blocks' = [Blocks EXCEPT ![n] = With(@, b, AcceptedLedger(n, b))]
  /\ IF Longer(n, b)
     THEN /\ LastBlock' = [LastBlock EXCEPT ![n] = b]
          /\ SetLastConfirmed(n, b)
     ELSE UNCHANGED <<LastBlock, LastConfirmedBlock,
                      PendingOutgoingTransactions>>
  /\ PendingBlocks' = [PendingBlocks EXCEPT ![n] = @ \ StuckOn(n, b)]
  /\ calls' = SpawnAll(Finish(calls, n, PROOF_FOUND(b)), n,
                       {PROOF_FOUND(u) : u \in StuckOn(n, b)})
  /\ UNCHANGED <<Clients, block, Nonce>>

\* A mistake BlocksGetUnstuck rules out: the answer goes to its sender.
ProvideToSelf(n, from, prev) ==
  /\ Pending(n, MISSING_BLOCK(from, prev))
  /\ LET rest == Finish(calls, n, MISSING_BLOCK(from, prev))
     IN  calls' = IF prev \in DOMAIN Blocks[n]
                  THEN SendMessage(rest, n, PROOF_FOUND(prev))
                  ELSE rest
  /\ UNCHANGED <<Clients, block, chainVars, walletVars>>

\* A node answers a request for a block it has, and drops the others.
ProvideMissingBlock(n, from, prev) ==
  /\ Pending(n, MISSING_BLOCK(from, prev))
  /\ LET rest == Finish(calls, n, MISSING_BLOCK(from, prev))
     IN  calls' = IF prev \in DOMAIN Blocks[n]
                  THEN SendMessage(rest, from, PROOF_FOUND(prev))
                  ELSE rest
  /\ UNCHANGED <<Clients, block, chainVars, walletVars>>

-----------------------------------------------------------------------------
(* Spending *)

ConfirmedBalance(n) == Blocks[n][LastConfirmedBlock[n]].balances[n]

PendingSpent(n) ==
  Uint(MapThenSumSet(TotalOutput, PendingOutgoingTransactions[n]))

\* A mistake FundsStayCovered rules out: what waits is not counted as spent.
ConfirmedGold(n) == ConfirmedBalance(n)

\* uint32 subtraction: it wraps when more is pending than confirmed.
AvailableGold(n) == Uint(ConfirmedBalance(n) - PendingSpent(n))

NewTransaction(n, payment) ==
  [from |-> n, nonce |-> Nonce[n], fee |-> payment.fee,
   outputs |-> payment.outputs, signed |-> TRUE]

\* PostTransaction panics when the payment exceeds the available gold: the
\* user makes no such payment.
PostTransaction(n, payment) ==
  LET tx == NewTransaction(n, payment)
  IN  /\ payment.from = n
      /\ Nonce[n] < MaxNonce
      /\ TotalOutput(tx) <= AvailableGold(n)
      /\ PendingOutgoingTransactions' =
           [PendingOutgoingTransactions EXCEPT ![n] = @ \cup {tx}]
      /\ Nonce' = [Nonce EXCEPT ![n] = Uint(@ + 1)]
      /\ LET sent == Broadcast(calls, Clients \cap MinerNode, POST_TRANSACTION(tx))
         IN  calls' = IF n \in MinerNode
                      THEN Spawn(sent, n, AddTransactionCall(tx))
                      ELSE sent
      /\ UNCHANGED <<Clients, block, chainVars>>

\* Every pending transaction is broadcast again.
ResendPendingTransactions(n) ==
  LET again == {POST_TRANSACTION(tx) : tx \in PendingOutgoingTransactions[n]}
  IN  /\ again # {}
      /\ \A k \in Node, c \in again : Copies(k, c) < MaxCopies
      /\ calls' = BroadcastAll(calls, Clients \cap MinerNode, again)
      /\ UNCHANGED <<Clients, block, chainVars, walletVars>>
=============================================================================
