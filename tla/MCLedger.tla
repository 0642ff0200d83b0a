------------------------------ MODULE MCLedger ------------------------------
(***************************************************************************)
(* All small pools on short chains.  The genesis block lists only some     *)
(* accounts; the others appear when they are paid.                         *)
(***************************************************************************)
EXTENDS BlockFilling

CONSTANTS x, y, z      \* three addresses; z has no account at first

MCStartingBalances == (x :> 3) @@ (y :> 1) @@ (z :> 0)

MCGenesisBalances == <<[id |-> y, value |-> 1], [id |-> x, value |-> 3]>>

Out(to, amount) == [address |-> to, amount |-> amount]

Tx(from, nonce, fee, outputs) ==
  [from |-> from, nonce |-> nonce, fee |-> fee, outputs |-> outputs,
   signed |-> TRUE]

\* Payments that open an account, spend from it, go to their own sender, use a
\* nonce too early or twice, and one that only a receiver of gold can afford;
\* transactions of total 0 and more from an account without an entry; one whose
\* outputs add up to 2^w, and take x so far that a reward wraps around; an
\* unsigned one.
MCTransactions ==
  { Tx(x, 0, 1, <<Out(z, 1), Out(y, 1)>>), Tx(x, 1, 0, <<Out(x, 1)>>),
    Tx(y, 0, 0, <<Out(z, 1)>>), Tx(y, 1, 1, <<Out(x, 1)>>),
    Tx(z, 0, 0, <<Out(x, 0)>>), Tx(z, 0, 0, <<Out(y, 1)>>),
    Tx(z, 1, 0, <<Out(x, 0), Out(x, 1)>>),
    Tx(y, 0, 0, <<Out(x, UintRange - 5), Out(z, 5)>>),
    [Tx(x, 0, 0, <<Out(y, 2)>>) EXCEPT !.signed = FALSE] }
=============================================================================
