--------------------------- MODULE MCSpartanGold ----------------------------
(***************************************************************************)
(* Small SpartanGold networks for TLC.                                     *)
(***************************************************************************)
EXTENDS SpartanGold

CONSTANTS alice, minnie, mickey

\* Everyone has gold to spend at the start.
MCStartingBalances == [n \in Node |-> 4]

Pay(from, to, amount, fee) ==
  [from |-> from, fee |-> fee,
   outputs |-> <<[address |-> to, amount |-> amount]>>]

\* alice pays half of her gold, one unit of it as a fee.
AlicePays == {Pay(alice, minnie, 1, 1)}

\* minnie pays a quarter of her gold.
MinniePays == {Pay(minnie, mickey, 1, 0)}

\* minnie pays all of it at once.
MinnieSpendsAll == {Pay(minnie, mickey, 3, 1)}

\* mickey pays most of his gold, and minnie more than she has without it.
MickeyThenMinnie == {Pay(mickey, minnie, 3, 0), Pay(minnie, mickey, 5, 0)}

NobodyPays == {}

-----------------------------------------------------------------------------
(* Bounds *)

\* The calls that wait, at all nodes together.
Traffic == SumFunction([n \in Node |-> SumFunction(calls[n])])

\* minnie mines up to two blocks and mickey one, in any order.
FewBlocks == clock[minnie] <= 2 /\ clock[mickey] <= 1

ForkBounds == FewBlocks /\ Traffic <= 7

PoolBounds == FewBlocks /\ Traffic <= 5
=============================================================================
