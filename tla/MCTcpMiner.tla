----------------------------- MODULE MCTcpMiner -----------------------------
(***************************************************************************)
(* Small networks of TcpMiner processes for TLC.                           *)
(***************************************************************************)
EXTENDS TcpNetwork, TLC

CONSTANTS minnie, mickey

MCStartingBalances == [n \in Node |-> 4]

NobodyPays == {}

Pay(from, to, amount, fee) ==
  [from |-> from, fee |-> fee,
   outputs |-> <<[address |-> to, amount |-> amount]>>]

\* minnie pays half of her gold, the fee included.
MinniePays == {Pay(minnie, mickey, 1, 1)}

\* Or she wants to pay all of it, and a fee, over which her process panics.
MinnieTries == MinniePays \cup {Pay(minnie, mickey, 4, 1)}

\* The config files name everyone else, or nobody.
EveryoneKnown == [n \in Node |-> Node \ {n}]

NobodyKnown == [n \in Node |-> {}]

\* minnie's process may end once and start again, or nobody's does.
MinnieRestarts == (minnie :> 2) @@ (mickey :> 1)

NobodyRestarts == [n \in Node |-> 1]

\* Everyone may hear from everyone else later, or nobody does.
AllMeet == {<<n, p>> \in Node \X Node : n # p}

NobodyMeets == {}

\* mickey finds one block; its counter starts behind its genesis block.
MickeyFindsOne == clock[mickey] <= 2

\* What the steps depend on, for runs that say nothing of the history.
WithoutHistory ==
  <<netVars, calls, block, chainVars, walletVars, minerVars, user>>
=============================================================================
