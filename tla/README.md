# GoSpartanGold in TLA+

GoSpartanGold is a small proof-of-work blockchain: clients with wallets, miners
that search proofs, an in-process network for tests and a TCP network for real
processes. This directory holds TLA+ models of its protocol, the TLC
configurations that check them, and TLAPS proofs of the main theorems.

    tlc -config fork.cfg    MCSpartanGold   # and pool, unstuck, reorg, sync
    tlc -config merge.cfg   MCTcpMiner      # and rest, strand
    tlc -config peers.cfg   MCPeers
    tlc -config framing.cfg MCFraming
    tlc -config search.cfg  MCProofSearch
    tlc -config ledger.cfg  MCLedger
    tlapm SpartanGoldProofs.tla
    tlapm TcpNetworkProofs.tla
    tlapm LedgerProofs.tla                  # and FoldProofs
    tlapm BlockFillingProofs.tla
    tlapm PeersProofs.tla
    tlapm ProofSearchProofs.tla
    tlapm FramingProofs.tla

## 1. Inventory of the system

| component | source | state | operations | hard behaviour |
|---|---|---|---|---|
| Ledger | `block.go`, `transaction.go`, `blockchain.go` | `Balances`, `NextNonce`, `Transactions` of a block | `NewBlock`, `AddTransaction`, `Rerun`, `TotalOutput`, `MakeGenesis` | balances are not hashed and recomputed by each receiver; the reward is paid one block late; `uint32` everywhere |
| FakeNet | `FakeNet.go` | registered clients | `Register`, `Broadcast`, `SendMessage` | one goroutine per receiver: any order, duplicates; unknown receiver |
| Client | `client.go` | known blocks, stuck blocks, head, last confirmed block, pending transactions, nonce | `ReceiveBlock`, `RequestMissingBlock`, `ProvideMissingBlock`, `SetLastConfirmed`, `PostTransaction`, `ResendPendingTransactions` | blocks before their ancestors; reorganisations; a parent is requested once |
| Miner | `miner.go` | as Client, and current block, pool | as Client, and `Initialize`, `StartNewSearch`, `FindProof`, `SyncTransaction`, `AddTransaction` | own block received by a goroutine; cutover while blocks arrive; transactions moved between branches |
| Set | `set.go` | a locked map by hash | `Add`, `Remove`, `ToArray`, `Clear` | order of Go's map iteration |
| Proof of work | `utils.go`, `block.go`, `miner.go` | target, `Proof` | `FindProof`'s rounds, `CalculateTarget`, `hasValidProof` | `uint32` search bound |
| RealNet | `RealNet.go` | known connections of one process | as FakeNet, over TCP | a broadcast ends at the first failing `Dial`; unknown or ended receivers |
| TcpMiner | `tcp_miner.go` | as Miner, and connections | as Miner, and `RegisterWith`, `HandleConnection`, `StartListening`, `SaveJson` | framing, unlocked lists and checks, one-sided registration, restarts |
| Command line | `run.go` | the config file | menu, `main` | each process makes its own genesis block; the menu's thread runs beside the handlers |

How they interact. A node calls `Broadcast` or `SendMessage` of its network; the
network starts a goroutine per receiver that emits the event on the receiver's
emitter; the emitter calls `ReceiveBlockBytes`, `ProvideMissingBlock`,
`AddTransactionBytes` or `FindProof`. Each of these takes the mutex of its node
first and holds it to the end. Nodes on FakeNet share no state but its map of
clients. On RealNet every process has a map of its own, and a message is a TCP
connection: dialled, written, closed. The listener of the receiver reads it to what
it takes for its end and starts a goroutine, `HandleConnection`, that either enters
a new connection (`REGISTER`) or emits the event as FakeNet does. The one call that spans two critical sections is
`Miner.PostTransaction`, which unlocks before it calls `AddTransaction`.

What makes each part correct: ledgers depend on the chain alone and create no
gold but rewards (Ledger); no message goes to nobody (FakeNet); the head is a
longest chain, all ancestors are known, stuck blocks get unstuck, the wallet
counts each of its transactions once (Client); the search is always on the head
and pools lose no transaction that could still be mined (Miner); nodes with the
same blocks agree (network). `PROJECT.json` lists the hazards at their lines.

## 2. Modules

| module | models |
|---|---|
| `Ledger` | the account rules, as operators: `NewDraft`, `AddTransaction`, `FillBlock`, `PayReward`, `Rerun` |
| `BlockLists` | the same rules on the lists of `block.go`, where accounts may have no entry |
| `BlockFilling` | a chain on those lists: a miner fills a block from a pool, the receivers rerun it, and it is the next head; what relates the lists to `Ledger` |
| `FakeNet` | `Clients`, and the goroutines: `calls[n]` is the bag of handler calls that wait for node `n` |
| `Client` | a node's blocks and wallet, one action per branch of `ReceiveBlock` (`IgnoreBlock`, `StickBlock`, `AcceptBlock`) and per other operation |
| `Miner` | the search, the cutover and the pool |
| `LongestChain` | abstract: a growing forest of blocks of which every node knows a part and follows a longest chain |
| `SpartanGold` | the FakeNet network: `Init`, `Next`, fairness, and its properties |
| `ProofSearch` | the rounds of `FindProof` on a `uint32` |
| `RealNet` | who can send to whom, whom a broadcast is written to and whom it reaches |
| `Registration` | `REGISTER` messages and their goroutines, connection lists, config files, processes that end and start |
| `Peers` | `Registration` as a specification of its own, and its properties |
| `Framing` | connections, bytes in flight, the reads of `StartListening` |
| `TcpMiner` | processes that mine on RealNet, driven by the menu of `run.go` |
| `TcpNetwork` | the properties of these |
| `MC...` | small instances for TLC |
| `FoldProofs` | proofs: induction along the left folds the ledger is computed by |
| `LedgerProofs` | proofs: what the operators of `Ledger` do to types, nonces, the sum of the gold and what a sender spends, and the nonces along a chain |
| `SpartanGoldProofs` | proofs: the block trees, the messages, the refinement and requests for missing blocks; types and nonces of the transactions everywhere in the network, the gold, that no announced block is refused, and what wallets can count on |
| `TcpNetworkProofs` | proofs: chains, ledgers and transactions of processes that restart and miss messages, and agreement at rest of those that do not |
| `BlockFillingProofs`, `PeersProofs`, `ProofSearchProofs`, `FramingProofs` | proofs about these modules |

`Ledger` and `FakeNet` are extended by `Client`, `Client` by `Miner`, `Miner` by
`SpartanGold`; `Ledger` by `BlockLists`, and that by `BlockFilling`; `RealNet` by `Registration` and `TcpMiner`.
`TcpMiner` instantiates `SpartanGold`, for its handlers, which are those of `Miner`,
and for its properties. `SpartanGold` and `TcpNetwork` instantiate `LongestChain`.

### How the code becomes state and steps

* **A handler is one step**, because it runs under its node's mutex. The
  goroutine that waits for the mutex is an element of `calls[n]`.
  `PostTransaction` of a miner is two steps, with an `AddTransactionCall` in
  between. `ResendPendingTransactions` of a Client takes no mutex in the code;
  it is a step here (see the hazards).
* **Block ids.** A header carries its id in place of its hash. `GetHash` leaves
  `Balances` and `NextNonce` out, so the variable `block` has the hashed part of
  each block and `Blocks[n][id]` the ledger node `n` computed for it. A new block
  reads the clock, so ids are never equal by accident: `<<miner, counter>>`.
  Only blocks with a found proof get an id, as only these are ever sent or stored.
* **Chains.** `block[b].chain[h]` is the ancestor at height `h`, so that the walks
  of `SetLastConfirmed` and `SyncTransaction` along `PrevBlockHash` are lookups.
  That the walks never meet a missing block is the invariant `ChainsAreComplete`.
* **Mining.** `FindProof` may succeed at any time. A round without success only
  changes `Proof` and is a stuttering step. After a success the loop breaks with
  `Proof` unchanged, so the next round finds the same proof: `FindProofAgain`.
* **Pools.** `Set` is a set; the iteration order of Go maps is `\E order` in
  `StartNewSearch`. `AddTransaction`'s refusals are ignored and the pool is
  cleared, as in the code.
* **`SyncTransaction`.** `go.mod` says `go 1.18`, where a range loop has one
  variable: `&transaction.Tx` is the same pointer in all iterations over a block.
  The sets are keyed by the hash at insertion, and hold these pointers. `cbTxs` is
  keyed rightly, but its values are the last transaction of their block; the
  transactions that `nbTxs` yields for removal are last transactions only. The
  operator `SyncTransaction` gives the resulting set.
* **Posting.** `PostTransaction` panics if the payment is not covered. The user
  steps of the model make covered payments only.
* **Late nodes.** A node exists with the genesis block before it is registered, as
  `miner3` in `miner_test.go` does; `Initialize` comes after `Register` there and
  here. Before `Initialize`, a miner has no listener for transactions and loses
  them.

* **The handlers of TcpMiner** repeat those of Miner line for line, and are taken from there
  by `INSTANCE`. A handler that broadcasts has the receivers as a parameter: on FakeNet
  these are all `Clients`, on RealNet any member of `Reach(n)`. The instance needs a
  `Genesis`, the one all nodes of a FakeNet share; here it is `NoGenesis`, the id of no block.
* **Delivery on RealNet.** A broadcast ends at the first `Dial` that fails, and the map may
  yield the dead client at any place: it is written to all clients when all of them run, and
  otherwise to any of those that run (`WrittenTo`). What is written need not arrive. The
  listener takes a read of less than 512 bytes for the end of a message
  (`tcp_miner.go:565`) and `HandleConnection` drops a fragment (514); `Framing` says when a
  message is cut. `Broadcast` and `SendMessage` ignore the error of `Write`
  (`RealNet.go:48`). In `TcpMiner` and `Registration` therefore *every* message may be
  missed: `Reach(n)` is any set of the clients that run, and an answer of
  `ProvideMissingBlock` or `RegisterWith` may be made in vain.
* **History variables.** `missed` in `TcpMiner` says that a running node has missed a block, a
  request or an answer that was written to it; `unheard` in `Registration` has the nodes that
  missed a `REGISTER`. No step depends on either. They let properties say what holds until a
  message is dropped. `merge`, whose properties do not speak of them, leaves them out of the
  fingerprint of a state (`VIEW WithoutHistory`), which is sound for that reason.
* **A process** is a node in `up`. When it ends (`Exit`, or the panic of
  `CheckFunds`), what was on its way to it is gone, it knows nobody, and its last
  memory stays in the variables, unread, until `StartProcess` overwrites it. Keys and
  addresses stay the same, as they are in the config file.
* **Genesis blocks.** `MakeGenesis` reads the clock, so every process starts with a
  genesis block of its own, `<<n, k>>` as any block of that node. All of them have the
  same ledger. A block whose parent is unknown is stuck until its chain is fetched, down
  to the other genesis block, which is accepted without `Rerun`, as `ReceiveBlock` does
  for a block without predecessor. `SyncTransaction` and `SetLastConfirmed` walk as in
  the code when the two chains share no block.
* **The menu's thread** is `user[n]`. A transfer is checked in the menu (without the
  fee), checked in `PostTransaction` (with it, or the process panics), posted under the
  mutex, and added to the pool under the mutex again: four steps.
* **Registration.** In `Registration` the goroutine of a `REGISTER` has a step for
  each access to shared memory: test, answer, register, read the list, write the list.
  Two equal goroutines are two members of a bag. `TcpMiner` abstracts all of this to
  `Meet(n, p)`: at some moment `n` comes to know `p`, or never.
* **Framing.** Of a message only its length matters; bytes arrive in any pieces, `Read`
  returns what is there. `HandleConnection` drops what is no JSON object.
* **Proof search.** Which values of `Proof` are valid is a set that each new search
  chooses; the hash is not modelled.
* **Lists.** An entry is `[id, value]`, an index of 0 is Go's -1, and what follows an
  index of -1 is a panic. The order of a genesis block's entries is that of a Go map.

Operators introduced by a comment "A mistake ... rules out" are plausible wrong
versions of the operator that follows. They are used to test the properties: with
the wrong version in place, TLC reports the named property violated.

## 3. Runs

| run | instance | checks |
|---|---|---|
| `fork` | two miners that pay each other, one registers at any time, 3 blocks | `MiningOnHead`, `HeadIsLongest`, `ChainsAreComplete`, `NoStrandedBlocks`, `RequestersRegistered`, `LedgerAgreement`, `HonestBlocksReplay`, `NoReplay`, `WalletStaysExact`, `FundsStayCovered`, `TransactionsAreKept` |
| `pool` | a client with 2 payments and resends, two miners, 3 blocks | `TypeOK`, `NoReplay`, `GoldConservation`, `TransactionsAreKept` |
| `unstuck` | two miners, one late, fair, repeated announcements, 2 blocks | `FollowsLongestChain`, `BlocksSpread`, `BlocksGetUnstuck` |
| `ledger` | every pool of up to 3 transactions, on the genesis block and on a block mined from such a pool by any miner | `FilledBlocksReplay`, `ListsKeepTheLedger`, `OnlyNothingPanics`, `BalancesAreExact` |
| `search` | a uint of 14 values, rounds of 4, 2 searches, fair | `SmallestProof`, `ProofIsFound` |
| `framing` | two connections, reads of 3 bytes, fair | `PanicsAtMultiples`, `InTimeIsWhole`, `MessagesEnd` |
| `peers` | two nodes, 2 connects, 2 exits, 3 handlers, fair | `KnowsBack`, `SomeoneIsSaved`, `RegistrationEnds` |
| `merge` | two processes that meet later, one ends and restarts, payments, 3 blocks | `MiningOnHead`, `HeadIsLongest`, `LedgerAgreement`, `HonestBlocksReplay`, `NoReplay`, `NonceIsFresh`, `FollowsLongestChain` |
| `rest` | two processes that know each other, a payment with resends, 3 blocks, fair | `AgreeAtRest`, `FundsStayAvailable`, `BlocksGetUnstuck` |
| `reorg` | one miner late, one payment, 5 blocks | violates `AvailableGoldCovered` |
| `sync` | two payments, 2 blocks | violates `SyncReturnsAbandoned` |
| `strand` | two processes that meet later, 1 block | violates `NoStrandedBlocks` |

### What the passing runs show

* `fork`: the blocks of two miners interleave in every order; each may work on,
  announce and abandon a branch while payments are in a pool, in the current
  block or in a mined block of either branch, in any order, alone or together. Both miners pay, through the `PostTransaction` that
  unlocks between the post and the own pool. `mickey` pays most of what he has, and `minnie` more than she had
  without it: on a branch that lacks the first payment the second is refused and dropped. The second
  miner joins at any time: from the start, or with a chain of blocks to fetch that arrives in any
  order. Wallets are confirmed, cut over and confirmed again on the way, and stay exact and covered.
* `pool`: the wallet of a Client posts two payments and resends them, so that copies of each are in
  flight while the earlier ones are mined, confirmed or dropped, at two miners whose blocks fork. The two payments reach
  a pool in either order and a block in either order, together or alone. What is mined on a branch,
  abandoned, returned to the pool, resent and mined again is executed once on every branch, and every
  branch has the same gold.
* Both show `TransactionsAreKept`. All three of its ways to lose a transaction occur in `fork`, and all but the lack of
  funds in `pool`: without the disjunct of a way that occurs, TLC finds the property violated.
* `unstuck`: progress (section 4), and that all of it is a behaviour of `LongestChain`.
* `ledger`: pools with equal nonces, gaps, overdrafts, self-payments, several
  outputs and a missing signature, on the genesis block and on every block that can be mined
  on it, in which accounts have no entry until somebody pays them.
  `BlockLists` and `Ledger` compute the same. One payment of nothing, from an account without
  an entry, indexes `Balances` at -1. One transaction has outputs of 2^32 in all, passes for
  nothing and takes an account so close to 2^32 that the next reward wraps it around:
  receivers, who pay the reward first, then refuse what the miner has entered.
  `FilledBlocksReplay` and `BalancesAreExact` are about the blocks in which nothing wraps
  (`NothingWraps`); in this run the first is false without that condition.
* `search`: whatever the valid values and wherever a cutover comes, the rounds together
  try the values in order without a gap. `ProofIsFound` also says where they stall:
  when `Proof + MiningRounds` passes 2^32, `pausePoint` is below `Proof` and every later
  round is empty, so the last values are never tried.
* `framing`: with senders that write any length around a multiple of the read size,
  or nothing at all because they end after `Dial`, the listener panics only at the end of
  such a message. A message that is there when it is accepted is read whole; one
  that still arrives may be cut, and what is left of it is not read. The run says when
  either happens, not that it does not.
* `peers`: two registrations that cross end with both sides registered, self-registration
  included, unless a side misses a `REGISTER`, and answers do not go back and forth. The unlocked append loses
  entries, but never all; what is left may be the miner itself.
* `merge`: each process starts on its own genesis block. Registration on one side only,
  broadcasts that reach nobody or break off at a dead process, messages that are dropped and a
  process that starts over while the other has its blocks: whatever comes, head, confirmed
  block, search and ledgers belong together, and a block that was found is accepted wherever
  its parent is known. A restarted wallet posts again with
  nonce 0: no chain executes it twice.
* `rest`: when neither has messages waiting and none was missed, both chains are equally
  long, although a missing block is requested only once and the two trees share no block at
  first: for any number of processes this is proved (`TcpProcessesAgreeAtRest`). Blocks that
  arrive between the steps of a transfer do not take away the funds that were checked.

### Bounds

* `MaxBlocks` bounds the proven blocks. Two blocks make a fork, three a cutover to
  the longer branch, a confirmed block, and a late node with two missing ancestors. All
  properties of `fork`, `pool` and `merge` but `TransactionsAreKept` are
  also proved, for any number. With
  `CONFIRMED_DEPTH = 1`, no reorganisation passes the confirmed block before five
  blocks: `reorg` has five. In `fork` the condition of `WalletStaysExact` and
  `FundsStayCovered` is therefore always true; the theorems `WalletsStayExact` and
  `WalletsStayCovered` hold whatever reorganisations come before the step.
* `CONFIRMED_DEPTH` is 1 instead of 6: the code uses it only to count down from the
  head. The theorems hold for every positive value.
* `FewBlocks` says who mines in `fork` and `pool`: `minnie` two blocks and `mickey` one, in any order, which is enough for
  a cutover in either direction. `Traffic` is the number of calls that wait, at all nodes together: up to 7 in `fork`, where
  a found block makes up to 3 calls and a payment as many, so that two blocks, or a block and a payment, are on their way
  at once with a call to spare, and up to 5 in `pool`, where they make 4 and 2.
* In `merge` `mickey` finds at most one of the three blocks (`MickeyFindsOne`); `minnie`, who restarts, finds any
  number of them, with any of its processes.
* `MaxNonce` bounds the transactions of each user, `MaxCopies` the equal calls that
  wait at a node, which resends and repeated announcements would make unbounded.
  At 0 it switches both off. The union of the runs has both.
* `UintRange` is 64 instead of 2^32, above every sum of the instances but those that
  `ledger` makes wrap on purpose. In `search` it is 14, no multiple of the round.
* `MaxOrder` is 3 and `MaxHeight` 1 in `ledger`: a pool with a transaction, one that needs it, and
  one between them, on a head whose miner has yet to be paid. Its four properties are also proved, for pools and
  chains of any length.
* `merge`, `rest` and `strand` have two nodes, so that a broadcast reaches all others or
  nobody. That one which breaks off between two clients leaves chains and ledgers right
  rests on the theorems of `TcpNetworkProofs`, which are for any number of nodes.
* `MaxProcesses` bounds the restarts: in `merge` the process with the payments ends, at any
  point, or panics over a fee, and starts again. `MayMeet` says who may register with whom
  after the start, `KnownAtFirst` who is in the config files.
* `MaxConnects` and `MaxExits` bound the choices of users in `peers`. `MaxHandlers`
  bounds the goroutines alive when an answer is sent, of which a node that registers with
  itself can have any number.
* `CHUNK` is 3 instead of 512, with lengths from 0 to past two chunks: below, at and above a
  multiple. `MaxSearches` is 2: one search that is cut over, and its successor.

A run stops at its bounds, so deadlock is not checked in any of them. Node symmetry
is not used: the nodes of an instance have different roles.

### Findings

1. **Transactions are lost at a cutover** (`sync`, `miner.go:259`). Of each abandoned
   block at most its last transaction returns to the pool. The run abandons the block that its miner was
   still trying to mine. `TransactionsAreKept` says what remains true: nothing is lost from
   abandoned blocks of one transaction, and nothing else is lost but what is entered out of
   order or cannot be paid on the new branch.
2. **A deep reorganisation breaks the wallet** (`reorg`, `miner.go:400`). Blocks that
   become confirmed *below* the new last confirmed block are not searched for pending
   transactions. One of them is counted as pending for ever, and the unsigned
   subtraction in `AvailableGold` wraps around. With the depth of 6 it takes a
   reorganisation of more than 6 blocks. `WalletStaysExact` and
   `FundsStayCovered` say what remains true: a step that keeps the confirmed block on the
   confirmed chain keeps the wallet exact and covered.
3. **A block can be stranded** (`strand`, `tcp_miner.go:219`). A parent is requested
   once, from those who are registered at that moment. A node that registers with
   another is sent blocks before it has entered the other itself; the request then
   reaches nobody, and later blocks on the same parent do not ask again. On FakeNet, where
   registration is one map, this cannot happen (`fork`).
### What the preconditions leave out

Some properties hold under a condition. The cases outside it are outcomes of the code
that its users should know of:

* `NonceIsFresh` speaks of the first process with a key. `SaveJson` does not keep `Nonce`,
  so a restarted wallet counts from 0 and what it posts is refused until it has caught up
  with its own past.
* `SomeoneIsSaved` says one connection is saved, not all: `KnownTcpConnections` is
  appended to without a lock (`tcp_miner.go:534`).
* `FundsStayAvailable` is about the race between the checks and the post. The menu's check
  leaves the fee out (`run.go:148`), so a transfer of all the gold passes it and panics in
  `PostTransaction`: the IF of `CheckFunds`. The property asks for a wallet that is exact and
  covered. After a reorganisation it may not be: `AvailableGold` is then a difference that
  has wrapped around, and drops when a payment is confirmed that makes it right again.
  `TcpFundsStayCovered` says when this cannot happen.
* `FilledBlocksReplay` and `BalancesAreExact` are for blocks in which nothing wraps around.
  `TotalOutput` adds in `uint32` and so does every credit, and the code tests neither
  (`transaction.go:143`, `block.go:257`): gold can be credited that was never debited, and a miner can fill a block that
  its receivers refuse.
* `AgreeAtRest` is for nodes that run, knew each other from the start and missed no block or
  request. After an exit, a broadcast breaks off at the dead node (`RealNet.go:43`), and nodes behind it in the map's
  order miss blocks until a later one gets through.
* `NoStrandedBlocks` and `BlocksGetUnstuck` hold on TCP until a message is dropped. A block, a request or an
  answer that a listener cuts at a short read (`tcp_miner.go:565`) is dropped (514), and a parent is requested
  once: processes that have known each other from the start can then keep different chains for
  ever. A block with transactions takes several reads. `TcpBlocksAreRequested` says that
  this and the third finding are the only ways.
* `TotalOutput` includes the fee, which `AddTransaction` and `PostTransaction` need (`transaction.go:142`), and so it is in
  the model; `transaction_test.go:126` expects 300 of outputs of 100 and 200 and a fee of 100.
* `AddTransaction` fills the pool of the next search, not the current block as its
  comment says (`miner.go:283`), and returns nothing.

## 4. Fairness

`FairSpec` has weak fairness of each node's handlers: `HandleBlock`,
`HandleRequest`, `HandleTransaction`. The code justifies it: a started goroutine is
scheduled, no handler blocks while it holds its mutex (the network's mutex is held
for the length of a map access), and Go's mutex hands itself to a waiter that has
waited for a millisecond. Weak fairness of a node's handler, not of each call, is
enough on these instances, as the calls that wait at a node are bounded by
`MaxCopies`. Nothing is assumed of `Join`, `Initialize`, user steps or mining: no
luck is promised. `BlocksSpread` is for nodes registered from the start, for a
broadcast reaches only those; late nodes are the subject of `BlocksGetUnstuck`.

The other fair specifications assume as little:

* `ProofSearch`: weak fairness of `FindProof`; every round ends by starting the next.
* `Framing`: weak fairness of the listener, which is one goroutine, and of the arrival of
  bytes that were written. Nobody is obliged to send.
* `Peers`: weak fairness of the handlers of one sender at one node, of the step that registers
  it, and of `Initialize`. The second is needed for a node that registers with itself: each
  of its handlers answers with another `REGISTER` until one has registered.
* `TcpMiner`: weak fairness of `HandleBlock` and `HandleRequest`. Users, exits, starts,
  meetings and mining are free. A fair handler handles every call that waits; that a message
  becomes a call is nobody's duty, and `BlocksGetUnstuck` promises nothing after one is
  missed. The same holds of `Peers`.

## 5. Proofs

About `SpartanGold` is proved, for every choice of the constants that satisfies the
assumptions below:

| theorem | module | statement |
|---|---|---|
| `TreeInvariant` | `SpartanGoldProofs` | `Spec => []TreeInv` |
| `LedgersAgree` | `SpartanGoldProofs` | `Spec => []LedgerAgreement` |
| `CompleteChains` | `SpartanGoldProofs` | `Spec => []ChainsAreComplete` |
| `MinersOnHead` | `SpartanGoldProofs` | `Spec => []MiningOnHead` |
| `LongestHead` | `SpartanGoldProofs` | `Spec => []HeadIsLongest` |
| `NetInvariant` | `SpartanGoldProofs` | `Spec => []NetInv` |
| `RequestersAreRegistered` | `SpartanGoldProofs` | `Spec => []RequestersRegistered` |
| `StructureInvariant` | `SpartanGoldProofs` | `Spec => []StructureOK` |
| `ImplementsLongestChain` | `SpartanGoldProofs` | `Spec => FollowsLongestChain` |
| `ReplayInvariant` | `SpartanGoldProofs` | `Spec => []ReplayInv` |
| `TypeInvariant` | `SpartanGoldProofs` | `Spec => []TypeOK` |
| `NothingIsReplayed` | `SpartanGoldProofs` | `Spec => []NoReplay` |
| `MinedInvariant` | `SpartanGoldProofs` | `Spec => []MinedInv` |
| `GoldIsConserved` | `SpartanGoldProofs` | `Spec => []GoldConservation` |
| `HonestBlocksAreReplayed` | `SpartanGoldProofs` | `Spec => []HonestBlocksReplay` |
| `NoBlockIsStranded` | `SpartanGoldProofs` | `Spec /\ []HonestBlocksReplay => []NoStrandedBlocks` |
| `NoBlockIsForgotten` | `SpartanGoldProofs` | `Spec => []NoStrandedBlocks` |
| `WalletsStayExact` | `SpartanGoldProofs` | `Spec => WalletStaysExact` |
| `WalletsStayCovered` | `SpartanGoldProofs` | `Spec => FundsStayCovered` |
| `GoldIsPromisedOnce` | `SpartanGoldProofs` | `Spec /\ ConfirmedIsFinal => []AvailableGoldCovered`, and every wallet is exact |

and about `TcpNetwork`, in `TcpNetworkProofs`:

| theorem | statement |
|---|---|
| `ForestInvariant` | `Spec => []ForestInv` |
| `TcpLedgersAgree` | `Spec => []LedgerAgreement` |
| `TcpMinersOnHead` | `Spec => []MiningOnHead` |
| `TcpLongestHead` | `Spec => []HeadIsLongest` |
| `TcpImplementsLongestChain` | `Spec => FollowsLongestChain` |
| `SentInvariant` | `Spec => []SentInv` |
| `HonestInvariant` | `Spec => []HonestInv` |
| `TcpHonestBlocksAreReplayed` | `Spec => []HonestBlocksReplay` |
| `MergeInvariant` | `Spec => [](Whole => MergeInv)` |
| `TcpProcessesAgreeAtRest` | `Spec => []AgreeAtRest` |
| `TcpBlocksAreRequested` | `Spec => [](Complete /\ ~ missed => NoStrandedBlocks)` |
| `TcpNothingIsReplayed` | `Spec => []NoReplay` |
| `TcpNonceIsFresh` | `Spec => []NonceIsFresh` |
| `TcpFundsStayAvailable` | `Spec => FundsStayAvailable` |
| `TcpFundsStayCovered` | `Spec /\ TransfersAreFinal => [](\A n \in Node : OnlyProcess(n) => WalletExact(n) /\ FundsCovered(n))` |

about `BlockFilling`, in `BlockFillingProofs`:

| theorem | statement |
|---|---|
| `FillingInvariant` | `Spec => []FillingInv` |
| `ListsAreTheLedger` | `Spec => []ListsKeepTheLedger` |
| `NothingElsePanics` | `Spec => []OnlyNothingPanics` |
| `FilledBlocksAreReplayed` | `Spec => []FilledBlocksReplay` |
| `BooksAreExact` | `Spec => []BalancesAreExact` |

and about the other modules:

| theorem | module | statement |
|---|---|---|
| `PeersInvariant` | `PeersProofs` | `Spec => []PeersInv` |
| `WhoIsEnteredKnowsBack` | `PeersProofs` | `Spec => []KnowsBack` |
| `SomeoneStays` | `PeersProofs` | `Spec => []SomeoneIsSaved` |
| `SmallestProofFound` | `ProofSearchProofs` | `Spec => []SmallestProof` |
| `PanicsOnlyAtMultiples` | `FramingProofs` | `Spec => []PanicsAtMultiples` |
| `EarlyMessagesAreWhole` | `FramingProofs` | `Spec => []InTimeIsWhole` |

The assumptions are those of the modules: `LedgerAssumption` (natural amounts, finitely many
addresses), `ClientAssumption` (`CONFIRMED_DEPTH` is positive), `PaymentAssumption` (a payment
is of outputs and a fee that fit into a `uint32`, and so do the nonces), `MinerAssumption`,
`SpartanGoldAssumption`, and `GoldAssumption`. The last is the only one the code does not
establish: that the gold at the start and `MaxBlocks` coinbases fit into a `uint32`, and that
what one payment takes does. The code tests neither; with 25 for each block, the
first takes 170 million blocks to break, and what breaks the second is one of the corners that `ledger`
shows. Only what follows from `MinedInvariant` uses it. Types, nonces and the nonces of wallets hold
whatever wraps around. `FillingAssumption` says what types the pool's transactions have and that the genesis block
lists each account once, with its starting balance. `BlockFilling` has no bound on the gold: the condition is `NothingWraps`, in
the two properties that need it. `TcpMinerAssumption` and
`TcpPaymentAssumption` repeat those of the modules that `TcpMiner` instantiates, for its nodes, and `TcpGoldAssumption` is
`GoldAssumption`, which bounds each chain, from whichever genesis block; `HonestInvariant` and what follows from it use it.
`TcpNetworkProofs` proves the assumption of `LedgerProofs` from them before it uses the lemmas there (`LedgerInstance`).

### Chains

None of the four properties about chains is inductive alone. `MiningOnHead`
needs more: the cutover is decided by the length of the *current block*, so one has
to know that the current block is one longer than the head whenever there is one
(`SearchOK`); then a received block is a new head exactly if it is at least as long
as the current block, unless it is as long as the head, and in both cases the search
ends on the head. That lengths are comparable at all rests on the shape of the tree:
a length is the parent's plus one, chains are the parent's chain and the block
(`TreeOK`), ancestors have the length of their height (`HeightsOK`), ids are not
used twice (`IdsAreUsedOnce`). What a node knows is closed under parents
(`KnownOK`, `AncestorsKnown`), its head is a longest one and the confirmed block
is its ancestor (`HeadOK`). `KnownOK` also says that each ledger is `LedgerAfter` of the
parent's, from which `LedgerAgreement` is carried along: the parents' ledgers
agree, hence those of the children. The ledger operators stay unexpanded: agreement
needs only that `Rerun` is a function of the parent, its ledger and the transactions.

`NetInv` says what may be in `calls`: a proof announced or provided is of a known
block, a request comes from a registered node for a proven block. The argument for
registration: a node that is not registered is never sent a block, so it has no
block to be stuck on and asks for none. `StructureInvariant` combines the two.

`ImplementsLongestChain` is the refinement: with messages, ledgers, pools and searches
forgotten, the initial state is one of `LongestChain`, and every step extends the
tree at a miner's head (this is `MiningOnHead`), lets one node learn a block whose
parent it knows and move its head if the block is longer (this needs that a proven block is one
longer than its parent), or stutters.

### Missing blocks

`NoStrandedBlocks` is not inductive: a request for the parent is consumed by a node that
may not have it, and then nothing is on its way. `StrandInv` adds `ParentsHeld`: some *registered*
node has the parent of every proven block. The miner that found the block had it, a node never loses
a block, and never leaves the network. The request is a broadcast to all registered nodes, so
one of the calls it spawns waits at a node that has the block; that call is `Awaited`'s third case,
and handling it yields the second. A block that arrives ends the wait of those stuck on
it, provided `Rerun` does not refuse it, for `ReceiveBlock` drops a refused block and forgets
who waits for it. So the lemma has the hypothesis `HonestBlocksReplay`, about ledgers; `HonestBlocksAreReplayed`
discharges it (`NoBlockIsForgotten`).

### Induction along folds

A block's transactions are executed by a left fold, the `FoldLeft` of `FillBlock` and `Rerun`. The library's
induction theorems take the property as an operator, which the provers cannot instantiate. `FoldProofs`
does without: `NatSetInduction` is induction for a *set* of naturals, and a property becomes the set of
the numbers where it holds. The module has the step function of the fold as an operator constant, and
`LedgerProofs` instantiates the module once per function that is folded. Its results: a fold
exists and is the last value of a sequence that begins with the base and takes one step per element (`FoldExists`,
`FoldTrace`), it stays in every set its step stays in (`FoldStaysIn`), and the fold of a longer sequence
is one step more (`FoldAppend`). `BlockFillingProofs` uses it for the two folds over lists, of the outputs
of a transaction and of the transactions of a block, and `SumFunction`, a fold too, for the books.

### Types and nonces

`ReplayInv` says of every place in the network where a transaction can be, what there is: waiting calls,
blocks, wallets, pools and current blocks have transactions that some user's `Payment`
made (`Posted`). Of the ledgers it says that `nextNonce[a]` is the number of transactions of `a`
on the chain, which are numbered from 0 in order (`ReplayedOK`). The step is a child of a known block:
`RerunKeepsNonces`, by induction along the fold, says that `Rerun` takes the
transactions of `a` in a block only when their nonces go on from where the parent's ledger ends, and leaves
the next one in the child's ledger. `ReplayedIsReplayFree`, of `LedgerProofs`, is the induction along the
chain. `NoReplay` and the value half of `TypeOK` follow.

### Gold

The sum of the balances of all addresses is `TotalOf`. `LedgerProofs` derives what is needed about sums
over a finite set from their definition (`SumTakesEach`, `SumReplaces`, `SumExtends`), and then that one
application of a transaction lowers the sum by its fee, whoever the receivers are, its sender included
(`ApplyKeepsGold`), provided that nothing wraps around: the sender has the funds because
`AddTransaction` tests them, and a receiver's balance stays below the sum of all. That sum is bounded because
chains are: `MinedInv` counts the proven blocks, of which there are at most
`MaxBlocks`, and says that no chain is longer than their number. `GoldOK` is then proved by induction
along the chain of each block, from `RerunKeepsGold`.

`HonestBlocksReplay` relates two computations that differ in order. A miner fills the block on
the head's ledger, *before* the reward of the head is paid; the receiver pays it first and then replays.
`FilledReplays` says that what the first accepts the second accepts, and with the same result: a
transaction accepted with less gold is accepted with more, and a payment and a reward commute, when
neither wraps around (`ApplyCommutes`, `RewardCommutes`). `HonestInv` carries this through the network: the
transactions of every current block can be replayed on the head it was made for (`SearchReplays`), so
those of a found block can be replayed at its parent (`BlocksReplay`), and as ledgers agree, by every node
that knows the parent.

### Wallets

`WalletExact` says that the pending transactions of a node are those with the nonces from `nextNonce` in the
ledger of its last confirmed block up to its own `Nonce`. `WalletsStayExact` is about a step that keeps the confirmed block on
the confirmed chain. `SetLastConfirmed` removes the transactions of the new confirmed block by
identity, whereas the ledger counts nonces; the two go together only if a nonce of a sender belongs to one transaction.
`Posted`, the set of all that a `Payment` could make, does not say so. `IssuedInv` does: there is a set `S` that carries all
calls, pools, blocks and wallets (`Carried(S)`, of which `ReplayInv` is the case `S = Posted`), in which a
sender and a nonce determine the transaction, and whose nonces their senders have counted (`IssuedOnce`). The handlers keep
`Carried(S)` for *every* `S`, so a step either leaves `S` alone or adds the one transaction that is posted, under the
sender's present `Nonce`. With `S` the witness, a block on the confirmed one
executes exactly the nonces between the two ledgers (`OwnNonces`), and those are the transactions removed
(`ConfirmExact`). The next confirmed block is the same one or a child of it, for a longer head is longer by one block
(`ConfirmedMoves`).

`FundsStayCovered` is about the gold: the pending payments sum up to no more than the confirmed balance
(`FundsOK`, of an exact wallet). A confirmed block takes its transactions from the wallet and their totals from the balance, and can
add to the balance besides (`ConfirmFunds`), and what is posted was available. `WalletsStayCovered` says so of every
step that keeps the confirmed block of a node on its confirmed chain (`StepFunds`), whatever happened before: a wallet that is exact and
covered after a deep reorganisation stays so. The set of pending payments is finite in every behaviour (`WalletsAreFinite`), which the sum needs.

`GoldIsPromisedOnce` goes from steps to behaviours. The hypothesis `ConfirmedIsFinal` is an action formula: each step leaves the
confirmed block on the chain of the next one. Then `FundsOK` is an invariant and `AvailableGold` never wraps around. It cannot be
dropped, as `reorg` shows, and it is what the code means by "confirmed"; every step of `fork` satisfies it. What the theorem says is that
nothing else breaks a wallet: no order of resends, copies, forks and cutovers above the confirmed block.

### Lists

`BlockFillingProofs` reads a list of entries as a function, which is sound while every account has one entry
(`OneEntryEach`): `FindIndex` returns the first, and setting the value there changes the function at one
point. `WellBuilt` are the blocks whose lists are so. `AddTransaction` does one of three things to such a block
(`AddDoes`): it leaves ledger and transactions alone (`Skips`), does to them what `ApplyTransaction` of `Ledger` does
(`EntersInto`), or panics because the sender of nothing has no entry (`PanicsOn`). Creating an entry of 0 is not seen by
the function, which is why `Skips` does not say that the lists are unchanged. `FillsTheDraft` is the simulation, by induction along
the fold over the pool. Its companion `Rerunnable` says that the receiver, who pays the miner of the head first, reaches the same transactions
and does not panic: it has an entry for everybody for whom the miner's block has one.
The invariant of the chain is then just that the head's lists are well built (`FillingInv`).

For `FilledBlocksReplay` the order of reward and transactions matters, and the lemma is `FilledReplays` of
`LedgerProofs`, the one that `HonestBlocksReplay` rests on. It is about a pool whose transactions all fit into a `uint32`, whereas
`NothingWraps` speaks of those in the block: a pool may hold others. `EnteredIsEnough` closes the gap. What a block has entered, entered
once more, gives the same block, so the lemma can be applied to the block's own transactions in place of the pool. The condition
cannot be dropped: with the transaction of `ledger` whose outputs add up to `UintRange` TLC finds an account that is credited past
`UintRange` by the reward, and has too little for what the miner had entered.

`BalancesAreExact` is proved by induction along the fold as well: as long as what a block has entered fits, an account has what it
had, plus the sum of what it was sent, minus the sum of what it gave (`BooksOf`), up to and including a
transaction that panics.

### Restarts and several roots

`ForestInv` is `TreeInv` for a forest. A block is a genesis block or a child (`ForestOK`); what a process knows
is closed under parents, but may hold the roots of other processes, those that ended included, and not its own
first one if it restarted. That a chain is fetched from the root upwards shows in
`AcceptKnown`: an accepted block is a root or has a known parent. When a cutover takes a
process to a chain with another root, nothing changes in the argument: the new head is a known block that is
longer. `StartProcess` throws away a whole tree; the invariant survives, as head, confirmed block, search and
known blocks are all replaced in one step, and by the id that `IdsAreUsedOnce` says is new. The proof has no
hypothesis on `calls`, `Clients` or whom a broadcast reaches. Hence chains and ledgers do not depend
on delivery at all.

`SentInv` follows the transactions. `Sent` is a set that grows, of which everything in calls, pools, searches,
wallets and blocks is a member (`Carried`). A transaction of a sender with one process so far has a nonce its
wallet has counted already; of a sender that restarted, any nonce. The handlers are shown to keep `Carried(S)` for *every*
set `S` of transactions, so that a step from `Sent` to the larger `Sent'` needs one monotonicity lemma
(`CarriedGrows`). What puts something new into the set is the user's thread, four unlocked steps: `UserOK` says
that what it is about to post has the wallet's present nonce, which no handler changes meanwhile, and that what it is about to add to the
pool was posted. `NoReplay` follows as for `SpartanGold`. `NonceIsFresh` follows from it: if the confirmed chain
of a node has used a nonce, the transaction with this nonce is on the chain, hence in `Sent`, hence counted.

`HonestBlocksReplay` needs another argument than in `SpartanGold`. There a miner that fills a block keeps the ledger it
filled it on; here it may end, forget it, and leave behind a block that others come to know later. `HonestInv` therefore
speaks of one ledger for each block of the forest, whoever knows the block and whether anybody does (`LedgersAre`): the one
that `Rerun` gives along its chain. What a process stores, and what it searches on, is that ledger. The ledger is
quantified existentially, a function from blocks; a new block extends it at one place, and a started process adds a genesis ledger. The bound
on the gold travels with it: `HasRoom` says that a block's ledger holds no more than its own chain created, so that the several
genesis blocks, each with all starting balances, do not add up.

Wallets are followed as in `SpartanGold`, with two differences. `IssuedInv` tells payments apart by sender and nonce
for senders with one process so far only, as a restarted wallet uses its nonces again; it is stated of *some* set
that carries all there is, because `Sent` has transactions that were never posted and share their nonces. And
a step may take a process from its own genesis block to another chain, also after it has confirmed blocks. `StepFunds` looks at a step that
does not: it confirms the same block or its child (`ConfirmedMoves`), `SetLastConfirmed` removes just what the child has
of the node's own (`ConfirmExact`), and the balance loses no more than that (`ConfirmFunds`, by `RerunSpends` of the
ledger and the room that `HonestInv` leaves below `UintRange`). Hence `FundsStayAvailable`. `FundsInv` goes from
there to whole behaviours: what the menu's check saw in `CheckFunds` is still there when
`PostTransaction` adds the payment. Its hypothesis, `TransfersAreFinal`, lets a process leave confirmed blocks
until it pays: otherwise no process could join a network.

### Agreement

`AgreeAtRest` is for a network that is `Complete`, all processes run since the start and knew each other then, and in which no
block, request or answer was missed (together: `Whole`). Nobody can leave such a network and come back, and nothing is missed in the past of a
state in which nothing is (`WholeBefore`), so every broadcast so far has reached all others. `MergeInv` then says of every
found block and every process that the block `Arrives`: it is known there, waits there for its parent, or is in a waiting call. For a
block that waits, it says the same of the parent, or that it was `Asked` of a process that has it (`StuckOK`). This second
case is needed for the genesis blocks, which are never announced. In a network that is `Whole` blocks could get lost at two places
still: `ReceiveBlock` drops a block that `Rerun` refuses, which `HonestBlocksReplay` rules out, and `ProvideMissingBlock` drops a
request from a process it does not know. In one that is not, they do get lost at the listener, and the theorem says nothing.
`MergeStep` lists what a step must keep, and each handler is shown to keep it.

At rest nothing is in a waiting call, so a block that waits at a process waits for one that waits there too, which is lower. By
induction on its height there is none (`NothingStuck`), every process knows every block that was found, and as heads are longest chains
(`HeadOK`) they are equally long. That the network comes to rest is a matter of fairness, and of users and miners that stop.

### The other modules

`ProofSearchProofs` proves `SmallestProofFound`, `Spec => []SmallestProof`, for
every width, number of rounds and set of valid values. `SmallestProof` is inductive
with the type invariant: a round that finds nothing has tried all values below
`pausePoint`, and one whose `pausePoint` wrapped leaves `Proof` alone.

`PeersProofs` proves `WhoIsEnteredKnowsBack` and `SomeoneStays`, that is `Spec => []KnowsBack` and
`Spec => []SomeoneIsSaved`, for any number of processes, handlers and restarts. `PeersInv` says there
is a function `loaded`, what each process found in its file when it last started, such that

* (`FilesOK`) what a process still has to load is of `loaded`, and `loaded` stays in its list, in
  what every handler between the read and the write of `append` has read, and in what the file may
  hold. The file itself will not do: the user may save at any time, also while it is loaded;
* (`AnswersOK`) if `b` has entered `a`, or has a handler for `a` past the answer, and `a` is neither loaded nor
  restarted, then `a` has entered `b` or handles `b`'s answer. The step that makes this so is
  `AnswerSender`, which starts the handler at `a` in the same step in which the one at `b` moves on; a handler that skips the
  answer does so because `b` has entered `a` already;
* (`ListsOK`) the clients and the list of a process have a member in common, unless there are no clients or a
  handler is between registering and writing. The write replaces the list, but puts into it a client at least: the
  handler's own.

Restarts are why `loaded` is there and why a handler's node runs (`HandlersOK`): a process that
starts has no clients and no handlers, so no obligation is left from before.

`FramingProofs` proves `PanicsOnlyAtMultiples` and `EarlyMessagesAreWhole`, that is
`Spec => []PanicsAtMultiples` and `Spec => []InTimeIsWhole`, for every size of a read, any
connections and all lengths. Neither is inductive alone. `FramingInv` adds that of the
connection being read whole pieces have been taken (`CurrentOK`), so that an empty
read at its end comes after a multiple of the size (`PanicOK`); that no more is read than has
arrived and no more arrives than was sent (`BytesOK`); that a connection waits once and
unread in the backlog (`BacklogOK`); and that a message that was all there when
accepted has no more bytes to come (`EarlyOK`), so that a read shorter than the size is its end.

### Only model-checked

* Of `SpartanGold`: `TransactionsAreKept`. It is about single steps that move transactions between branches, pools and blocks in bulk,
  and `fork` and `pool` show it for two miners; `AvailableGoldCovered` without `ConfirmedIsFinal` is refuted by `reorg`.
* Liveness under fairness, which is out of reach of the prover.

## 6. Not modelled

* Printing, logging, JSON conversions, RSA, SHA-256 and `CalculateTarget`. A
  signature is a flag; no forged block or transaction is modelled.
* In the network models, absent entries of the `Balances` and `NextNonce` lists: both are
  total functions there, 0 where the list has no entry. `BlockLists` has the lists.
* A listener that stops while its process runs: `StartListening` returns when `Listen` or `Accept` fails
  (`tcp_miner.go:543-555`), and panics on any error of `Read`. `Dials(p)` holds exactly when `p` runs, and `Framing` has the
  one error of `Read` that the protocol itself provokes, the end of the stream. A process whose listener has stopped gets
  no message any more: on the way to it each one is missed, as in the models any message may be.
* Duplicates in `KnownTcpConnections`, and its order: only the members matter.
* The race of `Client.ResendPendingTransactions` (`client.go:182`), which ranges over a map
  without the mutex: Go may abort the process. It is one step here.
* The registration protocol inside `TcpMiner`, which would multiply the two state spaces;
  `Meet` stands for all its outcomes, one-sided ones included. Which bytes of a message arrive in time is not
  in `TcpMiner` either, but in `Framing`; here a message arrives or is missed.
* The display choices of the menu, its parsing, and `main` with option `-c`, which writes
  a first config file.
* `SetGenesisBlock` on a node that has a genesis block: no caller does this.
* `PendingReceivedTransactions` and `ReceivedBlock`, which no code uses, and
  `TotalRewards`, which has no caller.

## 7. Plan

Done: the core (`Ledger`, `FakeNet`, `Client`, `Miner`, `SpartanGold`) and proofs of its
safety properties, wallets included; `LongestChain` and the refinement; `BlockLists`, `BlockFilling` and the proof that they
compute the `Ledger`; `ProofSearch` and `Framing` and their proofs; `RealNet`, `Registration`, `Peers` and its proofs;
`TcpMiner` with restarts and several genesis blocks, and proofs about its chains, nonces and wallets, its
honest blocks and agreement at rest.

Left: a third process in `merge`, as far as the state space allows, and a proof of `TransactionsAreKept`.
