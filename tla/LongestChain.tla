---------------------------- MODULE LongestChain ----------------------------
(***************************************************************************)
(* What a blockchain of this kind promises, with no messages, no ledgers   *)
(* and no searching: a forest of blocks that only grows at the heads of    *)
(* its miners, of which every node learns a part from the root upwards and *)
(* follows the first of the longest chains it has learned.                 *)
(*                                                                         *)
(* FakeNet nodes start from one root.  A process on the real network makes *)
(* a root of its own each time it is started, and then knows nothing else. *)
(***************************************************************************)
EXTENDS Integers

CONSTANTS
  Node,
  MinerNode,   \* the nodes that add blocks
  NoBlock,     \* the parent of a root
  Start        \* Start[n]: the root that n starts from

VARIABLES
  tree,        \* id -> [parent, height] of every block there is
  known,       \* known[n]: the blocks that n has learned
  head         \* head[n]: the end of the chain that n follows

vars == <<tree, known, head>>

Root == [parent |-> NoBlock, height |-> 0]

ChildOf(b) == [parent |-> b, height |-> tree[b].height + 1]

\* tree' is tree with one new block.
Grow(b, entry) ==
  /\ b \notin DOMAIN tree
  /\ tree' = [c \in DOMAIN tree \cup {b} |-> IF c = b THEN entry ELSE tree[c]]

Init ==
  /\ tree = [b \in {Start[n] : n \in Node} |-> Root]
  /\ known = [n \in Node |-> {Start[n]}]
  /\ head = Start

\* A miner adds a block on top of the chain it follows, and has yet to learn
\* of it like everyone else.
Extend(m) ==
  /\ \E b \in DOMAIN tree' : Grow(b, ChildOf(head[m]))
  /\ UNCHANGED <<known, head>>

\* A node learns a root, or a child of a block it knows, and follows it when
\* its chain is longer than the one it followed.
Learn(n, b) ==
  /\ b \notin known[n]
  /\ tree[b] = Root \/ tree[b].parent \in known[n]
  /\ known' = [known EXCEPT ![n] = @ \cup {b}]
  /\ head' = IF tree[b].height > tree[head[n]].height
             THEN [head EXCEPT ![n] = b] ELSE head
  /\ UNCHANGED tree

\* A node forgets everything and starts from a root of its own.
Restart(n) ==
  \E b \in DOMAIN tree' :
    /\ Grow(b, Root)
    /\ known' = [known EXCEPT ![n] = {b}]
    /\ head' = [head EXCEPT ![n] = b]

Next ==
  \/ \E m \in MinerNode : Extend(m)
  \/ \E n \in Node : \E b \in DOMAIN tree : Learn(n, b)

Spec == Init /\ [][Next]_vars

RestartSpec == Init /\ [][Next \/ \E n \in Node : Restart(n)]_vars
=============================================================================
