--------------------------- MODULE FramingProofs ----------------------------
(***************************************************************************)
(* Proofs about Framing, for every size of a read, any connections and all *)
(* lengths: when the listener panics, and what it reads whole.             *)
(***************************************************************************)
EXTENDS Framing, TLAPS

-----------------------------------------------------------------------------
(* The inductive invariant *)

TypeOK ==
  /\ sent \in [Conn -> Nat \cup {NotDialled}]
  /\ arrived \in [Conn -> Nat]
  /\ backlog \in Seq(Conn)
  /\ current \in Conn \cup {Idle}
  /\ got \in [Conn -> Nat]
  /\ early \subseteq Conn
  /\ delivered \subseteq Conn
  /\ panicked \in BOOLEAN

\* No more is read than has arrived, and no more arrives than was sent.
BytesOK ==
  \A c \in Conn : /\ got[c] <= arrived[c]
                  /\ sent[c] # NotDialled => arrived[c] <= sent[c]
                  /\ sent[c] = NotDialled => arrived[c] = 0

\* A connection waits once, has been dialled, and has not been read from.
BacklogOK ==
  /\ \A i \in 1 .. Len(backlog) :
       /\ sent[backlog[i]] # NotDialled
       /\ backlog[i] # current
       /\ backlog[i] \notin delivered
       /\ got[backlog[i]] = 0
  /\ \A i, j \in 1 .. Len(backlog) : backlog[i] = backlog[j] => i = j

\* Of the current one whole pieces have been read.
CurrentOK ==
  current # Idle => /\ sent[current] # NotDialled
                    /\ current \notin delivered
                    /\ \E q \in Nat : got[current] = q * CHUNK

\* A message that was there when accepted has no more bytes to come.
EarlyOK == \A c \in early : sent[c] # NotDialled /\ arrived[c] = sent[c]

DeliveredOK == \A c \in delivered : sent[c] # NotDialled

PanicOK == panicked => current # Idle /\ got[current] = sent[current]

FramingInv ==
  /\ TypeOK
  /\ BytesOK
  /\ BacklogOK
  /\ CurrentOK
  /\ EarlyOK
  /\ DeliveredOK
  /\ PanicOK
  /\ InTimeIsWhole

-----------------------------------------------------------------------------
(* Facts about numbers and sequences *)

\* A number of whole pieces is a multiple of their size.
LEMMA WholePieces ==
  ASSUME NEW q \in Nat, NEW size \in Nat \ {0}
  PROVE  (q * size) % size = 0
  OBVIOUS

\* One piece more is a whole number of pieces again.
LEMMA NextPiece ==
  ASSUME NEW q \in Nat, NEW size \in Nat
  PROVE  /\ q + 1 \in Nat
         /\ q * size + size = (q + 1) * size
  OBVIOUS

\* What Accept leaves in the backlog is what was there, one place further on.
LEMMA TailOf ==
  ASSUME NEW S, NEW s \in Seq(S), s # << >>
  PROVE  /\ Head(s) = s[1] /\ Head(s) \in S
         /\ 1 \in 1 .. Len(s)
         /\ Tail(s) \in Seq(S)
         /\ Len(Tail(s)) = Len(s) - 1
         /\ \A i \in 1 .. Len(Tail(s)) : i + 1 \in 1 .. Len(s) /\ Tail(s)[i] = s[i + 1]
  OBVIOUS

\* What Send adds to the backlog comes after what was there.
LEMMA AppendTo ==
  ASSUME NEW S, NEW s \in Seq(S), NEW e \in S
  PROVE  /\ Append(s, e) \in Seq(S)
         /\ Len(Append(s, e)) = Len(s) + 1
         /\ \A i \in 1 .. Len(s) : Append(s, e)[i] = s[i]
         /\ Append(s, e)[Len(s) + 1] = e
  OBVIOUS

-----------------------------------------------------------------------------
(* Each step keeps the invariant *)

LEMMA SendKeeps ==
  ASSUME FramingInv, NEW c \in Conn, Send(c)
  PROVE  FramingInv'
<1> USE FramingAssumption DEF Send, FramingInv, TypeOK
<1>1. PICK len \in Lengths : sent' = [sent EXCEPT ![c] = len]
  OBVIOUS
<1>2. len \in Nat /\ len # NotDialled
  BY <1>1 DEF NotDialled
<1>3. TypeOK'
  BY <1>1, <1>2, AppendTo
<1>4. BytesOK'
  BY <1>1, <1>2 DEF BytesOK
<1>5. /\ \A i \in 1 .. Len(backlog) : backlog[i] \in Conn /\ backlog[i] # c
      /\ c \notin early /\ c \notin delivered /\ c # current /\ got[c] = 0
  BY DEF BytesOK, BacklogOK, CurrentOK, EarlyOK, DeliveredOK
<1>6. BacklogOK'
  <2>1. \A i \in 1 .. Len(backlog') :
          \/ i \in 1 .. Len(backlog) /\ backlog'[i] = backlog[i]
          \/ i = Len(backlog) + 1 /\ backlog'[i] = c
    BY AppendTo
  <2>2. \A i \in 1 .. Len(backlog') :
          /\ sent'[backlog'[i]] # NotDialled
          /\ backlog'[i] # current'
          /\ backlog'[i] \notin delivered'
          /\ got'[backlog'[i]] = 0
    BY <1>1, <1>2, <1>5, <2>1 DEF BacklogOK
  <2>3. \A i, j \in 1 .. Len(backlog') : backlog'[i] = backlog'[j] => i = j
    BY <1>5, <2>1 DEF BacklogOK
  <2> QED
    BY <2>2, <2>3 DEF BacklogOK
<1>7. CurrentOK'
  BY <1>1, <1>5 DEF CurrentOK
<1>8. EarlyOK' /\ DeliveredOK' /\ InTimeIsWhole'
  BY <1>1, <1>5 DEF EarlyOK, DeliveredOK, InTimeIsWhole
<1>9. PanicOK'
  BY DEF PanicOK
<1> QED
  BY <1>3, <1>4, <1>6, <1>7, <1>8, <1>9

LEMMA ArriveKeeps ==
  ASSUME FramingInv, NEW c \in Conn, Arrive(c)
  PROVE  FramingInv'
<1> USE FramingAssumption DEF Arrive, FramingInv, TypeOK
<1>1. PICK k \in arrived[c] + 1 .. sent[c] : arrived' = [arrived EXCEPT ![c] = k]
  OBVIOUS
<1>2. /\ sent[c] # NotDialled
      /\ k \in Nat /\ arrived[c] < k /\ k <= sent[c]
  BY <1>1 DEF NotDialled
<1>3. TypeOK'
  BY <1>1, <1>2
<1>4. BytesOK'
  BY <1>1, <1>2 DEF BytesOK
<1>5. BacklogOK' /\ CurrentOK' /\ DeliveredOK' /\ PanicOK' /\ InTimeIsWhole'
  BY DEF BacklogOK, CurrentOK, DeliveredOK, PanicOK, InTimeIsWhole
<1>6. EarlyOK'
  BY <1>1, <1>2 DEF EarlyOK
<1> QED
  BY <1>3, <1>4, <1>5, <1>6

LEMMA AcceptKeeps ==
  ASSUME FramingInv, Accept
  PROVE  FramingInv'
<1> DEFINE c == Head(backlog)
<1> USE FramingAssumption DEF Accept, FramingInv, TypeOK
<1>1. /\ c = backlog[1] /\ c \in Conn /\ c # Idle
      /\ 1 \in 1 .. Len(backlog)
      /\ sent[c] # NotDialled /\ c \notin delivered /\ got[c] = 0
  BY TailOf DEF BacklogOK
<1>2. TypeOK'
  BY <1>1, TailOf
<1>3. BytesOK' /\ DeliveredOK'
  BY DEF BytesOK, DeliveredOK
<1>4. BacklogOK'
  <2>1. \A i \in 1 .. Len(backlog') :
          i + 1 \in 1 .. Len(backlog) /\ backlog'[i] = backlog[i + 1]
    BY TailOf
  <2>2. \A i \in 1 .. Len(backlog') :
          /\ sent'[backlog'[i]] # NotDialled
          /\ backlog'[i] # current'
          /\ backlog'[i] \notin delivered'
          /\ got'[backlog'[i]] = 0
    BY <1>1, <2>1 DEF BacklogOK
  <2>3. \A i, j \in 1 .. Len(backlog') : backlog'[i] = backlog'[j] => i = j
    BY <2>1 DEF BacklogOK
  <2> QED
    BY <2>2, <2>3 DEF BacklogOK
<1>5. CurrentOK'
  <2>1. got[c] = 0 * CHUNK
    BY <1>1
  <2> QED
    BY <1>1, <2>1 DEF CurrentOK
<1>6. EarlyOK' /\ InTimeIsWhole'
  BY <1>1 DEF EarlyOK, InTimeIsWhole
<1>7. PanicOK'
  BY DEF PanicOK
<1> QED
  BY <1>2, <1>3, <1>4, <1>5, <1>6, <1>7

LEMMA ReadKeeps ==
  ASSUME FramingInv, Read
  PROVE  FramingInv'
<1> DEFINE c == current
           n == IF arrived[c] - got[c] < CHUNK THEN arrived[c] - got[c] ELSE CHUNK
<1> USE FramingAssumption DEF Read, FramingInv, TypeOK
<1>1. /\ c \in Conn /\ sent[c] # NotDialled /\ c \notin delivered
      /\ n \in Nat /\ got[c] + n <= arrived[c]
      /\ got' = [got EXCEPT ![c] = @ + n]
      /\ \/ n < CHUNK /\ delivered' = delivered \cup {c} /\ current' = Idle
         \/ n = CHUNK /\ delivered' = delivered /\ current' = current
  BY DEF BytesOK, CurrentOK, IsLast
<1>2. TypeOK'
  BY <1>1
<1>3. BytesOK' /\ EarlyOK' /\ DeliveredOK' /\ PanicOK'
  BY <1>1 DEF BytesOK, EarlyOK, DeliveredOK, PanicOK
<1>4. BacklogOK'
  BY <1>1 DEF BacklogOK
<1>5. CurrentOK'
  <2> SUFFICES ASSUME current' # Idle
               PROVE  /\ sent'[current'] # NotDialled
                      /\ current' \notin delivered'
                      /\ \E q \in Nat : got'[current'] = q * CHUNK
    BY DEF CurrentOK
  <2>1. current' = c /\ delivered' = delivered /\ sent' = sent /\ n = CHUNK
    BY <1>1
  <2>2. PICK q \in Nat : got[c] = q * CHUNK
    BY DEF CurrentOK
  <2>3. CHUNK \in Nat /\ got'[c] = q * CHUNK + CHUNK
    BY <1>1, <2>1, <2>2
  <2>4. q + 1 \in Nat /\ got'[c] = (q + 1) * CHUNK
    BY ONLY <2>3, NextPiece
  <2>5. \E r \in Nat : got'[c] = r * CHUNK
    BY ONLY <2>4
  <2> QED
    BY <1>1, <2>1, <2>5
<1>6. InTimeIsWhole'
  <2>1. n < CHUNK => got[c] + n = arrived[c]
    BY <1>1
  <2> QED
    BY <1>1, <2>1 DEF InTimeIsWhole, EarlyOK
<1> QED
  BY <1>2, <1>3, <1>4, <1>5, <1>6

LEMMA ReadEndKeeps ==
  ASSUME FramingInv, ReadEnd
  PROVE  FramingInv'
<1> USE DEF ReadEnd, FramingInv
<1>1. TypeOK' /\ BytesOK'
  BY DEF TypeOK, BytesOK
<1>2. BacklogOK' /\ CurrentOK'
  BY DEF BacklogOK, CurrentOK
<1>3. EarlyOK' /\ DeliveredOK' /\ PanicOK' /\ InTimeIsWhole'
  BY DEF EarlyOK, DeliveredOK, PanicOK, InTimeIsWhole
<1> QED
  BY <1>1, <1>2, <1>3

-----------------------------------------------------------------------------
(* Theorems *)

\* The inductive invariant: how what was sent, has arrived and was read relate,
\* for the current connection and those that wait.
THEOREM FramingInvariant == Spec => []FramingInv
<1>1. Init => FramingInv
  <2> SUFFICES ASSUME Init PROVE FramingInv
    OBVIOUS
  <2>1. TypeOK
    <3>1. << >> \in Seq(Conn)
      OBVIOUS
    <3> QED
      BY <3>1 DEF Init, TypeOK
  <2>2. BytesOK
    <3>1. \A c \in Conn : sent[c] = NotDialled /\ arrived[c] = 0 /\ got[c] = 0
      BY DEF Init
    <3>2. got \in [Conn -> Nat] /\ arrived \in [Conn -> Nat]
      BY <2>1 DEF TypeOK
    <3>3. ASSUME NEW c \in Conn PROVE got[c] <= arrived[c]
      <4>1. got[c] \in Nat /\ got[c] = arrived[c]
        BY <3>1, <3>2
      <4>2. \A n \in Nat : n <= n
        OBVIOUS
      <4> QED
        BY <4>1, <4>2, Zenon
    <3>4. \A c \in Conn : sent[c] # NotDialled => arrived[c] <= sent[c]
      BY <3>1
    <3> QED
      BY <3>1, <3>3, <3>4 DEF BytesOK
  <2>3. BacklogOK /\ CurrentOK
    BY DEF Init, BacklogOK, CurrentOK
  <2>4. EarlyOK /\ DeliveredOK /\ PanicOK /\ InTimeIsWhole
    BY DEF Init, EarlyOK, DeliveredOK, PanicOK, InTimeIsWhole
  <2> QED
    BY <2>1, <2>2, <2>3, <2>4 DEF FramingInv
<1>2. FramingInv /\ [Next]_vars => FramingInv'
  <2> SUFFICES ASSUME FramingInv, [Next]_vars PROVE FramingInv'
    OBVIOUS
  <2>1. ASSUME NEW c \in Conn, Send(c) PROVE FramingInv'
    BY <2>1, SendKeeps
  <2>2. ASSUME NEW c \in Conn, Arrive(c) PROVE FramingInv'
    BY <2>2, ArriveKeeps
  <2>3. CASE Accept
    BY <2>3, AcceptKeeps
  <2>4. CASE Read
    BY <2>4, ReadKeeps
  <2>5. CASE ReadEnd
    BY <2>5, ReadEndKeeps
  <2>6. CASE UNCHANGED vars
    BY <2>6 DEF vars, FramingInv, TypeOK, BytesOK, BacklogOK, CurrentOK, EarlyOK,
                DeliveredOK, PanicOK, InTimeIsWhole
  <2> QED
    BY <2>1, <2>2, <2>3, <2>4, <2>5, <2>6 DEF Next, Listen
<1> QED
  BY <1>1, <1>2, PTL DEF Spec

\* The listener panics at the end of a message of a multiple of the size of a
\* read, an empty one included, and at no other, for every size.
THEOREM PanicsOnlyAtMultiples == Spec => []PanicsAtMultiples
<1>1. FramingInv => PanicsAtMultiples
  <2> SUFFICES ASSUME FramingInv, panicked PROVE sent[current] % CHUNK = 0
    BY DEF PanicsAtMultiples
  <2>1. /\ current # Idle
        /\ got[current] = sent[current]
    BY DEF FramingInv, PanicOK
  <2>2. PICK q \in Nat : got[current] = q * CHUNK
    BY <2>1 DEF FramingInv, CurrentOK
  <2> QED
    BY <2>1, <2>2, WholePieces, FramingAssumption
<1> QED
  BY <1>1, FramingInvariant, PTL

\* A message that is all there when its connection is accepted is delivered
\* whole, however long it is and whatever else arrives.
THEOREM EarlyMessagesAreWhole == Spec => []InTimeIsWhole
<1>1. FramingInv => InTimeIsWhole
  BY DEF FramingInv
<1> QED
  BY <1>1, FramingInvariant, PTL
=============================================================================
