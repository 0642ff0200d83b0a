----------------------------- MODULE PeersProofs -----------------------------
(***************************************************************************)
(* Proofs about Peers, for any number of nodes, users and restarts.        *)
(*                                                                         *)
(* loaded is what each process found in its file when it last started.     *)
(* The file may be saved at any time, and does not tell.                   *)
(***************************************************************************)
EXTENDS Peers, TLAPS

\* The members of the lists a process started from.
Loaded == [Node -> SUBSET Node]

\* What is in memory is gone with the process, and only then.
ProcessesOK ==
  /\ up \subseteq Node
  /\ \A n \in Node \ up : n \in Exited
  /\ DOMAIN Clients = Node /\ DOMAIN KnownTcpConnections = Node
  /\ DOMAIN loading = Node
  /\ file \in [Node -> SUBSET Node] /\ exits \in Seq(Node)
  /\ \A n \in Node :
       /\ Clients[n] \subseteq Node
       /\ KnownTcpConnections[n] \subseteq Node
       /\ n \notin up => Clients[n] = {} /\ loading[n] = {}

\* A process is there as long as its handlers are.
HandlersOK ==
  \A h \in DOMAIN handlers :
    /\ h \in [at : up, from : Node, seen : SUBSET Node,
              step : {"check", "answer", "register", "read", "write"}]
    /\ h.step \in {"read", "write"} => h.from \in Clients[h.at]

\* What a process found in its file stays in its list and in what it saves.
FilesOK(loaded) ==
  \A n \in up :
    /\ loading[n] \subseteq loaded[n]
    /\ loaded[n] \subseteq KnownTcpConnections[n]
    /\ loaded[n] \subseteq FromFile(n)
    /\ \A h \in DOMAIN handlers :
         h.at = n /\ h.step = "write" => loaded[n] \subseteq h.seen

\* b has answered a: a can send to b, or is about to.
Told(a, b) ==
  \/ b \in Clients[a]
  \/ \E h \in DOMAIN handlers : h.at = a /\ h.from = b

\* b has entered a, or will do so without another answer.
Entered(a, b) ==
  \/ a \in Clients[b]
  \/ \E h \in DOMAIN handlers :
       h.at = b /\ h.from = a /\ h.step \in {"register", "read", "write"}

AnswersOK(loaded) ==
  \A a, b \in up :
    a \notin loaded[b] /\ a \notin Exited /\ a \notin unheard /\ Entered(a, b)
      => Told(a, b)

\* An entry is in the list, or a handler will still write.
ListsOK ==
  \A n \in up :
    \/ Clients[n] \cap KnownTcpConnections[n] # {}
    \/ Clients[n] = {}
    \/ \E h \in DOMAIN handlers : h.at = n /\ h.step \in {"read", "write"}

MembersInv(loaded) ==
  /\ ProcessesOK /\ HandlersOK /\ ListsOK
  /\ FilesOK(loaded) /\ AnswersOK(loaded)

PeersInv == \E loaded \in Loaded : MembersInv(loaded)

-----------------------------------------------------------------------------

LEMMA FileOf ==
  ASSUME NEW n
  PROVE  FromFile(n) = KnownAtFirst[n] \cup (IF n \in Exited THEN file[n] ELSE {})
<1>1. Exited \cap {n} = IF n \in Exited THEN {n} ELSE {}
  OBVIOUS
<1> QED
  BY <1>1 DEF FromFile

LEMMA InitPeers == RegInit => PeersInv
<1> SUFFICES ASSUME RegInit PROVE PeersInv
  OBVIOUS
<1> USE RegistrationAssumption DEF RegInit
<1>1. handlers = <<>> /\ exits = <<>> /\ DOMAIN handlers = {} /\ Exited = {}
  BY DEF Exited
<1>2. ProcessesOK
  BY <1>1 DEF ProcessesOK
<1>3. HandlersOK /\ ListsOK
  BY <1>1 DEF HandlersOK, ListsOK
<1>4. FilesOK(file)
  BY <1>1, FileOf DEF FilesOK
<1>5. AnswersOK(file)
  BY <1>1 DEF AnswersOK, Entered
<1>6. file \in Loaded
  BY DEF Loaded
<1> QED
  BY <1>2, <1>3, <1>4, <1>5, <1>6 DEF PeersInv, MembersInv

\* A handler goes on as g.
LEMMA BagMoves ==
  ASSUME NEW bag, NEW h \in DOMAIN bag, NEW g
  PROVE  /\ g \in DOMAIN BagAdd(BagRemove(bag, h), g)
         /\ DOMAIN bag \ {h} \subseteq DOMAIN BagAdd(BagRemove(bag, h), g)
         /\ DOMAIN BagAdd(BagRemove(bag, h), g) \subseteq DOMAIN bag \cup {g}
  BY DEF BagAdd, BagRemove

LEMMA BagGrows ==
  ASSUME NEW bag, NEW g
  PROVE  DOMAIN BagAdd(bag, g) = DOMAIN bag \cup {g}
  BY DEF BagAdd

LEMMA BagShrinks ==
  ASSUME NEW bag, NEW h
  PROVE  /\ DOMAIN BagRemove(bag, h) \subseteq DOMAIN bag
         /\ DOMAIN bag \ {h} \subseteq DOMAIN BagRemove(bag, h)
  BY DEF BagRemove

\* A REGISTER that arrives starts a handler, one that does not starts none.
LEMMA RegisterArrives ==
  ASSUME NEW bag, NEW n, NEW p, RegisterWith(bag, n, p)
  PROVE  /\ DOMAIN bag \subseteq DOMAIN handlers'
         /\ \A g \in DOMAIN handlers' :
              g \in DOMAIN bag \/ (p \in up /\ g = Handler(p, n, "check", {}))
         /\ p \in up /\ p \notin unheard' =>
              Handler(p, n, "check", {}) \in DOMAIN handlers'
         /\ unheard \subseteq unheard'
<1>1. CASE p \in up /\ handlers' = BagAdd(bag, Handler(p, n, "check", {}))
                   /\ UNCHANGED unheard
  <2>1. DOMAIN BagAdd(bag, Handler(p, n, "check", {})) =
          DOMAIN bag \cup {Handler(p, n, "check", {})}
    BY BagGrows
  <2> HIDE DEF Handler
  <2> QED
    BY <1>1, <2>1
<1>2. CASE p \notin up /\ handlers' = bag /\ UNCHANGED unheard
  BY <1>2
<1>3. CASE handlers' = bag /\ unheard' = unheard \cup {p}
  BY <1>3
<1> QED
  BY <1>1, <1>2, <1>3 DEF RegisterWith, Dials

\* What the parts of the invariant read besides handlers.
LEMMA SameProcesses ==
  ASSUME ProcessesOK, UNCHANGED <<up, Clients, KnownTcpConnections, loading, file, exits>>
  PROVE  /\ ProcessesOK' /\ Exited' = Exited
         /\ \A n : FromFile(n)' = FromFile(n)
  BY DEF ProcessesOK, Exited, FromFile

LEMMA AnswersKept ==
  ASSUME NEW loaded, AnswersOK(loaded), up' = up, Exited' = Exited,
         unheard \subseteq unheard',
         \A a, b \in up : Told(a, b) => Told(a, b)',
         \A a, b \in up :
           Entered(a, b)' => Entered(a, b) \/ Told(a, b)' \/ a \in unheard'
  PROVE  AnswersOK(loaded)'
  BY DEF AnswersOK

\* What is asked of a handler that comes in a step.
Comes(loaded, g) ==
  /\ g \in [at : up, from : Node, seen : SUBSET Node,
            step : {"check", "answer", "register", "read", "write"}]
  /\ g.step \in {"read", "write"} => g.from \in Clients[g.at]
  /\ g.step = "write" => loaded[g.at] \subseteq g.seen
  /\ g.from \in up /\ g.step \in {"register", "read", "write"} =>
       Entered(g.from, g.at) \/ Told(g.from, g.at)' \/ g.from \in unheard'

\* A handler that only moves on, or comes: CheckSender, AnswerSender and
\* ReadKnown, and a user who connects.
LEMMA MoveKeeps ==
  ASSUME NEW loaded, MembersInv(loaded),
         UNCHANGED <<up, Clients, KnownTcpConnections, loading, file, exits>>,
         unheard \subseteq unheard',
         \A g \in DOMAIN handlers' : g \in DOMAIN handlers \/ Comes(loaded, g),
         \A h \in DOMAIN handlers : \E g \in DOMAIN handlers' :
           /\ g.at = h.at /\ g.from = h.from
           /\ h.step \in {"read", "write"} => g.step \in {"read", "write"}
  PROVE  MembersInv(loaded)'
<1>1. ProcessesOK' /\ Exited' = Exited /\ \A n : FromFile(n)' = FromFile(n)
  BY SameProcesses DEF MembersInv
<1>2. HandlersOK'
  BY DEF MembersInv, HandlersOK, Comes
<1>3. ListsOK'
  <2> SUFFICES ASSUME NEW n \in up, Clients[n] \cap KnownTcpConnections[n] = {},
                      Clients[n] # {}
               PROVE  \E g \in DOMAIN handlers' : g.at = n /\ g.step \in {"read", "write"}
    BY DEF ListsOK
  <2> QED
    BY DEF MembersInv, ListsOK
<1>4. FilesOK(loaded)'
  BY <1>1 DEF MembersInv, FilesOK, Comes
<1>5. AnswersOK(loaded)'
  <2>1. ASSUME NEW a \in up, NEW b \in up, Told(a, b)
        PROVE  Told(a, b)'
    BY <2>1 DEF Told
  <2>2. ASSUME NEW a \in up, NEW b \in up, Entered(a, b)'
        PROVE  Entered(a, b) \/ Told(a, b)' \/ a \in unheard'
    BY <2>2 DEF Entered, Comes
  <2> QED
    BY <1>1, <2>1, <2>2, AnswersKept DEF MembersInv
<1> QED
  BY <1>1, <1>2, <1>3, <1>4, <1>5 DEF MembersInv

LEMMA CheckKeeps ==
  ASSUME NEW loaded, MembersInv(loaded), NEW n \in Node, NEW p \in Node,
         CheckSender(n, p), Rest
  PROVE  MembersInv(loaded)'
<1> PICK h \in Handling(n, p, "check") :
      handlers' = Goes(h, IF Recognizes(n, p) THEN "register" ELSE "answer")
  BY DEF CheckSender
<1> DEFINE g == [h EXCEPT !.step = IF Recognizes(n, p) THEN "register" ELSE "answer"]
<1>1. /\ h \in DOMAIN handlers /\ h.at = n /\ h.from = p /\ h.step = "check"
      /\ h \in [at : up, from : Node, seen : SUBSET Node,
                step : {"check", "answer", "register", "read", "write"}]
  BY DEF Handling, MembersInv, HandlersOK
<1>2. /\ g.at = n /\ g.from = p /\ g.step \in {"register", "answer"}
      /\ g \in [at : up, from : Node, seen : SUBSET Node,
                step : {"check", "answer", "register", "read", "write"}]
      /\ g.step = "register" => p \in Clients[n]
  BY <1>1 DEF Recognizes
<1>3. /\ g \in DOMAIN handlers'
      /\ DOMAIN handlers \ {h} \subseteq DOMAIN handlers'
      /\ DOMAIN handlers' \subseteq DOMAIN handlers \cup {g}
  BY <1>1, BagMoves DEF Goes
<1>4. UNCHANGED <<up, Clients, KnownTcpConnections, loading, file, exits, unheard>>
  BY DEF CheckSender, Rest, netVars, memoryVars, countVars
<1>5. g.step \in {"register", "read", "write"} => Entered(p, n)
  BY <1>2 DEF Entered
<1> HIDE DEF g
<1>6. \A k \in DOMAIN handlers : \E k2 \in DOMAIN handlers' :
        /\ k2.at = k.at /\ k2.from = k.from
        /\ k.step \in {"read", "write"} => k2.step \in {"read", "write"}
  BY <1>1, <1>2, <1>3
<1>7. Comes(loaded, g)
  BY <1>2, <1>5 DEF Comes
<1> QED
  BY <1>3, <1>4, <1>6, <1>7, MoveKeeps

LEMMA AnswerKeeps ==
  ASSUME NEW loaded, MembersInv(loaded), NEW n \in Node, NEW p \in Node,
         AnswerSender(n, p), Rest
  PROVE  MembersInv(loaded)'
<1> PICK h \in Handling(n, p, "answer") :
      RegisterWith(Goes(h, "register"), n, p)
  BY DEF AnswerSender
<1> DEFINE g == [h EXCEPT !.step = "register"]
           told == Handler(p, n, "check", {})
<1>1. /\ h \in DOMAIN handlers /\ h.at = n /\ h.from = p /\ h.step = "answer"
      /\ h \in [at : up, from : Node, seen : SUBSET Node,
                step : {"check", "answer", "register", "read", "write"}]
  BY DEF Handling, MembersInv, HandlersOK
<1>2. /\ g.at = n /\ g.from = p /\ g.step = "register"
      /\ g \in [at : up, from : Node, seen : SUBSET Node,
                step : {"check", "answer", "register", "read", "write"}]
  BY <1>1
<1>3. /\ g \in DOMAIN Goes(h, "register")
      /\ DOMAIN handlers \ {h} \subseteq DOMAIN Goes(h, "register")
      /\ DOMAIN Goes(h, "register") \subseteq DOMAIN handlers \cup {g}
  BY <1>1, BagMoves DEF Goes
<1>4. UNCHANGED <<up, Clients, KnownTcpConnections, loading, file, exits>>
  BY DEF AnswerSender, Rest, netVars, memoryVars, countVars
<1>5. /\ told.at = p /\ told.from = n /\ told.step = "check" /\ told.seen = {}
      /\ told = [at |-> p, from |-> n, step |-> "check", seen |-> {}]
  BY DEF Handler
<1> HIDE DEF g, told
<1>6. /\ DOMAIN Goes(h, "register") \subseteq DOMAIN handlers'
      /\ \A k \in DOMAIN handlers' :
           k \in DOMAIN Goes(h, "register") \/ (p \in up /\ k = told)
      /\ p \in up /\ p \notin unheard' => told \in DOMAIN handlers'
      /\ unheard \subseteq unheard'
  BY RegisterArrives DEF told
<1>7. \A k \in DOMAIN handlers : \E k2 \in DOMAIN handlers' :
        /\ k2.at = k.at /\ k2.from = k.from
        /\ k.step \in {"read", "write"} => k2.step \in {"read", "write"}
  BY <1>1, <1>2, <1>3, <1>6
<1>8. p \in up => Told(p, n)' \/ p \in unheard'
  BY <1>5, <1>6 DEF Told
<1>9. Comes(loaded, g)
  BY <1>2, <1>8 DEF Comes
<1>10. p \in up => Comes(loaded, told)
  BY <1>5 DEF Comes
<1> QED
  BY <1>3, <1>4, <1>6, <1>7, <1>9, <1>10, MoveKeeps

LEMMA ReadKeeps ==
  ASSUME NEW loaded, MembersInv(loaded), NEW n \in Node, NEW p \in Node,
         ReadKnown(n, p), Rest
  PROVE  MembersInv(loaded)'
<1> DEFINE Wrote(k) == [k EXCEPT !.step = "write", !.seen = KnownTcpConnections[n]]
<1> PICK h \in Handling(n, p, "read") :
      handlers' = BagAdd(BagRemove(handlers, h), Wrote(h))
  BY DEF ReadKnown
<1> DEFINE g == Wrote(h)
<1>1. /\ h \in DOMAIN handlers /\ h.at = n /\ h.from = p /\ h.step = "read"
      /\ h \in [at : up, from : Node, seen : SUBSET Node,
                step : {"check", "answer", "register", "read", "write"}]
      /\ p \in Clients[n] /\ n \in up
  BY DEF Handling, MembersInv, HandlersOK
<1>2. /\ g.at = n /\ g.from = p /\ g.step = "write" /\ g.seen = KnownTcpConnections[n]
      /\ g \in [at : up, from : Node, seen : SUBSET Node,
                step : {"check", "answer", "register", "read", "write"}]
  BY <1>1 DEF MembersInv, ProcessesOK
<1>3. /\ g \in DOMAIN handlers'
      /\ DOMAIN handlers \ {h} \subseteq DOMAIN handlers'
      /\ DOMAIN handlers' \subseteq DOMAIN handlers \cup {g}
  BY <1>1, BagMoves
<1>4. UNCHANGED <<up, Clients, KnownTcpConnections, loading, file, exits, unheard>>
  BY DEF ReadKnown, Rest, netVars, memoryVars, countVars
<1>5. Entered(p, n)
  BY <1>1 DEF Entered
<1>6. loaded[n] \subseteq KnownTcpConnections[n]
  BY <1>1 DEF MembersInv, FilesOK
<1> HIDE DEF g
<1>7. \A k \in DOMAIN handlers : \E k2 \in DOMAIN handlers' :
        /\ k2.at = k.at /\ k2.from = k.from
        /\ k.step \in {"read", "write"} => k2.step \in {"read", "write"}
  BY <1>1, <1>2, <1>3
<1>8. Comes(loaded, g)
  BY <1>1, <1>2, <1>5, <1>6 DEF Comes
<1> QED
  BY <1>3, <1>4, <1>7, <1>8, MoveKeeps

LEMMA ConnectKeeps ==
  ASSUME NEW loaded, MembersInv(loaded), NEW n \in Node, NEW p \in Node,
         Connect(n, p)
  PROVE  MembersInv(loaded)'
<1> DEFINE told == Handler(p, n, "check", {})
<1>1. /\ told.at = p /\ told.from = n /\ told.step = "check" /\ told.seen = {}
      /\ told = [at |-> p, from |-> n, step |-> "check", seen |-> {}]
  BY DEF Handler
<1>2. UNCHANGED <<up, Clients, KnownTcpConnections, loading, file, exits>>
  BY DEF Connect, netVars, memoryVars
<1> HIDE DEF told
<1>3. /\ DOMAIN handlers \subseteq DOMAIN handlers'
      /\ \A k \in DOMAIN handlers' :
           k \in DOMAIN handlers \/ (p \in up /\ k = told)
      /\ unheard \subseteq unheard'
  BY RegisterArrives DEF told, Connect
<1>4. p \in up => Comes(loaded, told)
  BY <1>1 DEF Comes
<1> QED
  BY <1>2, <1>3, <1>4, MoveKeeps

LEMMA RegisterKeeps ==
  ASSUME NEW loaded, MembersInv(loaded), NEW n \in Node, NEW p \in Node,
         RegisterSender(n, p), Rest
  PROVE  MembersInv(loaded)'
<1> PICK h \in Handling(n, p, "register") : handlers' = Goes(h, "read")
  BY DEF RegisterSender
<1> DEFINE g == [h EXCEPT !.step = "read"]
<1>1. /\ h \in DOMAIN handlers /\ h.at = n /\ h.from = p /\ h.step = "register"
      /\ h \in [at : up, from : Node, seen : SUBSET Node,
                step : {"check", "answer", "register", "read", "write"}]
      /\ n \in up
  BY DEF Handling, MembersInv, HandlersOK
<1>2. /\ g.at = n /\ g.from = p /\ g.step = "read"
      /\ g \in [at : up, from : Node, seen : SUBSET Node,
                step : {"check", "answer", "register", "read", "write"}]
  BY <1>1
<1>3. /\ g \in DOMAIN handlers'
      /\ DOMAIN handlers \ {h} \subseteq DOMAIN handlers'
      /\ DOMAIN handlers' \subseteq DOMAIN handlers \cup {g}
  BY <1>1, BagMoves DEF Goes
<1>4. UNCHANGED <<up, KnownTcpConnections, loading, file, exits, unheard>>
  BY DEF RegisterSender, Rest, memoryVars, countVars
<1>5. /\ DOMAIN Clients' = Node
      /\ \A m \in Node : Clients'[m] = Clients[m] \cup (IF m = n THEN {p} ELSE {})
  BY DEF RegisterSender, Register, MembersInv, ProcessesOK
<1> HIDE DEF g
<1>6. ProcessesOK' /\ Exited' = Exited /\ \A m : FromFile(m)' = FromFile(m)
  BY <1>1, <1>4, <1>5 DEF MembersInv, ProcessesOK, Exited, FromFile
<1>7. HandlersOK'
  <2>1. \A k \in DOMAIN handlers' :
          k \in [at : up, from : Node, seen : SUBSET Node,
                 step : {"check", "answer", "register", "read", "write"}]
    BY <1>1, <1>2, <1>3 DEF MembersInv, HandlersOK
  <2>2. \A k \in DOMAIN handlers' :
          k.step \in {"read", "write"} => k.from \in Clients'[k.at]
    <3> SUFFICES ASSUME NEW k \in DOMAIN handlers', k.step \in {"read", "write"}
                 PROVE  k.from \in Clients'[k.at]
      OBVIOUS
    <3>1. CASE k = g
      BY <1>1, <1>2, <1>5, <3>1 DEF MembersInv, ProcessesOK
    <3>2. CASE k \in DOMAIN handlers
      <4>1. k.from \in Clients[k.at] /\ k.at \in Node
        BY <3>2 DEF MembersInv, HandlersOK, ProcessesOK
      <4> QED
        BY <1>5, <4>1
    <3> QED
      BY <1>3, <3>1, <3>2
  <2> QED
    BY <1>4, <2>1, <2>2 DEF HandlersOK
<1>8. ListsOK'
  <2> SUFFICES ASSUME NEW m \in up
               PROVE  \/ Clients'[m] \cap KnownTcpConnections[m] # {}
                      \/ Clients'[m] = {}
                      \/ \E k \in DOMAIN handlers' : k.at = m /\ k.step \in {"read", "write"}
    BY <1>4 DEF ListsOK
  <2>1. CASE m = n
    BY <1>2, <1>3, <2>1
  <2>2. CASE m # n
    <3>1. Clients'[m] = Clients[m] /\ m \in Node
      BY <1>5, <2>2 DEF MembersInv, ProcessesOK
    <3> QED
      BY <1>1, <1>3, <2>2, <3>1 DEF MembersInv, ListsOK
  <2> QED
    BY <2>1, <2>2
<1>9. FilesOK(loaded)'
  BY <1>2, <1>3, <1>4, <1>6 DEF MembersInv, FilesOK
<1>10. AnswersOK(loaded)'
  <2>1. ASSUME NEW a \in up, NEW b \in up, Told(a, b)
        PROVE  Told(a, b)'
    BY <1>1, <1>2, <1>3, <1>5, <2>1 DEF Told, MembersInv, ProcessesOK
  <2>2. ASSUME NEW a \in up, NEW b \in up, Entered(a, b)'
        PROVE  Entered(a, b)
    BY <1>1, <1>2, <1>3, <1>5, <2>2 DEF Entered, MembersInv, ProcessesOK
  <2> QED
    BY <1>4, <1>6, <2>1, <2>2, AnswersKept DEF MembersInv
<1> QED
  BY <1>6, <1>7, <1>8, <1>9, <1>10 DEF MembersInv

LEMMA LoadKeeps ==
  ASSUME NEW loaded, MembersInv(loaded), NEW n \in Node, Load(n)
  PROVE  MembersInv(loaded)'
<1> PICK p \in loading[n] :
      Register(n, p) /\ loading' = [loading EXCEPT ![n] = @ \ {p}]
  BY DEF Load, LoadOne
<1>1. /\ n \in up /\ p \in loaded[n] /\ p \in KnownTcpConnections[n] /\ p \in Node
  BY DEF MembersInv, ProcessesOK, FilesOK
<1>2. UNCHANGED <<up, KnownTcpConnections, file, exits, handlers, unheard>>
  BY DEF Load, LoadOne, Rest, countVars
<1>3. /\ DOMAIN Clients' = Node /\ DOMAIN loading' = Node
      /\ \A m \in Node :
           /\ Clients'[m] = Clients[m] \cup (IF m = n THEN {p} ELSE {})
           /\ loading'[m] \subseteq loading[m]
  BY DEF Register, MembersInv, ProcessesOK
<1>4. ProcessesOK' /\ Exited' = Exited /\ \A m : FromFile(m)' = FromFile(m)
  BY <1>1, <1>2, <1>3 DEF MembersInv, ProcessesOK, Exited, FromFile
<1>5. HandlersOK'
  BY <1>2, <1>3 DEF MembersInv, ProcessesOK, HandlersOK
<1>6. ListsOK'
  BY <1>1, <1>2, <1>3 DEF MembersInv, ProcessesOK, ListsOK
<1>7. FilesOK(loaded)'
  BY <1>2, <1>3, <1>4 DEF MembersInv, ProcessesOK, FilesOK
<1>8. AnswersOK(loaded)'
  <2> SUFFICES ASSUME NEW a \in up, NEW b \in up, a \notin loaded[b],
                      a \notin Exited, a \notin unheard, Entered(a, b)'
               PROVE  Told(a, b)'
    BY <1>2, <1>4 DEF AnswersOK
  <2>1. Entered(a, b)
    BY <1>1, <1>2, <1>3 DEF Entered, MembersInv, ProcessesOK
  <2>2. Told(a, b)
    BY <2>1 DEF MembersInv, AnswersOK
  <2> QED
    BY <1>2, <1>3, <2>2 DEF Told, MembersInv, ProcessesOK
<1> QED
  BY <1>4, <1>5, <1>6, <1>7, <1>8 DEF MembersInv

LEMMA WriteKeeps ==
  ASSUME NEW loaded, MembersInv(loaded), NEW n \in Node, NEW p \in Node,
         WriteKnown(n, p), Rest
  PROVE  MembersInv(loaded)'
<1> PICK h \in Handling(n, p, "write") :
      /\ KnownTcpConnections' = [KnownTcpConnections EXCEPT ![n] = h.seen \cup {p}]
      /\ handlers' = BagRemove(handlers, h)
  BY DEF WriteKnown
<1>1. /\ h \in DOMAIN handlers /\ h.at = n /\ h.from = p /\ h.step = "write"
      /\ h.seen \subseteq Node /\ p \in Clients[n] /\ n \in up
      /\ loaded[n] \subseteq h.seen
  BY DEF Handling, MembersInv, HandlersOK, FilesOK
<1>2. /\ DOMAIN handlers' \subseteq DOMAIN handlers
      /\ DOMAIN handlers \ {h} \subseteq DOMAIN handlers'
  BY BagShrinks
<1>3. UNCHANGED <<up, Clients, loading, file, exits, unheard>>
  BY DEF WriteKnown, Rest, netVars, countVars
<1>4. /\ DOMAIN KnownTcpConnections' = Node
      /\ KnownTcpConnections'[n] = h.seen \cup {p}
      /\ \A m \in Node \ {n} : KnownTcpConnections'[m] = KnownTcpConnections[m]
  BY DEF MembersInv, ProcessesOK
<1>5. ProcessesOK' /\ Exited' = Exited /\ \A m : FromFile(m)' = FromFile(m)
  BY <1>1, <1>3, <1>4 DEF MembersInv, ProcessesOK, Exited, FromFile
<1>6. HandlersOK'
  BY <1>2, <1>3 DEF MembersInv, HandlersOK
<1>7. ListsOK'
  <2> SUFFICES ASSUME NEW m \in up
               PROVE  \/ Clients[m] \cap KnownTcpConnections'[m] # {}
                      \/ Clients[m] = {}
                      \/ \E k \in DOMAIN handlers' : k.at = m /\ k.step \in {"read", "write"}
    BY <1>3 DEF ListsOK
  <2>1. CASE m = n
    BY <1>1, <1>4, <2>1
  <2>2. CASE m # n
    <3>1. KnownTcpConnections'[m] = KnownTcpConnections[m]
      BY <1>4, <2>2 DEF MembersInv, ProcessesOK
    <3> QED
      BY <1>1, <1>2, <2>2, <3>1 DEF MembersInv, ListsOK
  <2> QED
    BY <2>1, <2>2
<1>8. FilesOK(loaded)'
  BY <1>1, <1>2, <1>3, <1>4, <1>5 DEF MembersInv, ProcessesOK, FilesOK
<1>9. AnswersOK(loaded)'
  <2>1. ASSUME NEW a \in up, NEW b \in up, Told(a, b)
        PROVE  Told(a, b)'
    BY <1>1, <1>2, <1>3, <2>1 DEF Told
  <2>2. ASSUME NEW a \in up, NEW b \in up, Entered(a, b)'
        PROVE  Entered(a, b)
    BY <1>2, <1>3, <2>2 DEF Entered
  <2> QED
    BY <1>3, <1>5, <2>1, <2>2, AnswersKept DEF MembersInv
<1> QED
  BY <1>5, <1>6, <1>7, <1>8, <1>9 DEF MembersInv

LEMMA SaveKeeps ==
  ASSUME NEW loaded, MembersInv(loaded), NEW n \in Node, SaveJson(n)
  PROVE  MembersInv(loaded)'
<1>1. UNCHANGED <<up, Clients, KnownTcpConnections, loading, handlers, exits, unheard>>
  BY DEF SaveJson, netVars, memoryVars, countVars
<1>2. /\ n \in up
      /\ file' \in [Node -> SUBSET Node]
      /\ \A m \in Node : file'[m] = IF m = n THEN KnownTcpConnections[n] ELSE file[m]
  BY DEF SaveJson, MembersInv, ProcessesOK
<1>3. ProcessesOK' /\ Exited' = Exited
  BY <1>1, <1>2 DEF MembersInv, ProcessesOK, Exited
<1>4. HandlersOK' /\ ListsOK'
  BY <1>1 DEF MembersInv, HandlersOK, ListsOK
<1>5. ASSUME NEW m \in up
      PROVE  loaded[m] \subseteq FromFile(m)'
  <2>1. /\ loaded[m] \subseteq FromFile(m)
        /\ loaded[m] \subseteq KnownTcpConnections[m]
        /\ m \in Node
    BY <1>5 DEF MembersInv, FilesOK, ProcessesOK
  <2>2. CASE m \in Exited
    <3>1. file'[m] \subseteq FromFile(m)'
      BY <1>3, <2>2 DEF FromFile
    <3>2. KnownAtFirst[m] \subseteq FromFile(m)'
      BY DEF FromFile
    <3> QED
      BY <1>2, <2>1, <2>2, <3>1, <3>2, FileOf
  <2>3. CASE m \notin Exited
    BY <2>1, <2>3, FileOf DEF FromFile
  <2> QED
    BY <2>2, <2>3
<1>6. FilesOK(loaded)'
  BY <1>1, <1>5 DEF MembersInv, FilesOK
<1>7. AnswersOK(loaded)'
  BY <1>1, <1>3 DEF MembersInv, AnswersOK, Entered, Told
<1> QED
  BY <1>3, <1>4, <1>6, <1>7 DEF MembersInv

\* A process that ends takes its handlers with it.
LEMMA ExitKeeps ==
  ASSUME NEW loaded, MembersInv(loaded), NEW n \in Node, Exit(n)
  PROVE  MembersInv(loaded)'
<1>1. /\ up' = up \ {n} /\ n \in up
      /\ DOMAIN handlers' = {h \in DOMAIN handlers : h.at # n}
      /\ file' = file /\ unheard' = unheard
      /\ exits' \in Seq(Node) /\ Exited' = Exited \cup {n}
  <2>1. exits' = Append(exits, n) /\ exits \in Seq(Node)
    BY DEF Exit, MembersInv, ProcessesOK
  <2>2. /\ DOMAIN exits' = DOMAIN exits \cup {Len(exits) + 1}
        /\ \A i \in DOMAIN exits : exits'[i] = exits[i]
        /\ exits'[Len(exits) + 1] = n
        /\ exits' \in Seq(Node)
    BY <2>1
  <2>3. Exited' = Exited \cup {n}
    BY <2>2 DEF Exited
  <2> QED
    BY <2>2, <2>3 DEF Exit
<1>2. /\ DOMAIN Clients' = Node /\ DOMAIN KnownTcpConnections' = Node
      /\ DOMAIN loading' = Node
      /\ Clients'[n] = {} /\ KnownTcpConnections'[n] = {} /\ loading'[n] = {}
      /\ \A m \in Node \ {n} :
           /\ Clients'[m] = Clients[m] /\ loading'[m] = loading[m]
           /\ KnownTcpConnections'[m] = KnownTcpConnections[m]
  BY DEF Exit, MembersInv, ProcessesOK
<1>3. ProcessesOK'
  <2>1. /\ up' \subseteq Node /\ \A m \in Node \ up' : m \in Exited'
    BY <1>1 DEF MembersInv, ProcessesOK
  <2>2. \A m \in Node :
          /\ Clients'[m] \subseteq Node
          /\ KnownTcpConnections'[m] \subseteq Node
          /\ m \notin up' => Clients'[m] = {} /\ loading'[m] = {}
    BY <1>1, <1>2 DEF MembersInv, ProcessesOK
  <2> QED
    BY <1>1, <1>2, <2>1, <2>2 DEF MembersInv, ProcessesOK
<1>4. HandlersOK'
  <2> SUFFICES ASSUME NEW h \in DOMAIN handlers'
               PROVE  /\ h \in [at : up', from : Node, seen : SUBSET Node,
                                step : {"check", "answer", "register", "read", "write"}]
                      /\ h.step \in {"read", "write"} => h.from \in Clients'[h.at]
    BY DEF HandlersOK
  <2> QED
    BY <1>1, <1>2 DEF MembersInv, HandlersOK, ProcessesOK
<1>5. ASSUME NEW m \in up'
      PROVE  /\ m \in up /\ m # n /\ m \in Node
             /\ m \in Exited' <=> m \in Exited
             /\ \A h : h \in DOMAIN handlers' /\ h.at = m <=>
                       h \in DOMAIN handlers /\ h.at = m
             /\ FromFile(m)' = FromFile(m)
  <2>1. Exited' \cap {m} = Exited \cap {m} /\ m \in up /\ m # n
    BY <1>1, <1>5
  <2> QED
    BY <1>1, <2>1 DEF FromFile, MembersInv, ProcessesOK
<1>6. ListsOK'
  BY <1>2, <1>5 DEF MembersInv, ListsOK
<1>7. FilesOK(loaded)'
  BY <1>2, <1>5 DEF MembersInv, FilesOK
<1>8. AnswersOK(loaded)'
  <2> SUFFICES ASSUME NEW a \in up', NEW b \in up', a \notin loaded[b],
                      a \notin Exited', a \notin unheard', Entered(a, b)'
               PROVE  Told(a, b)'
    BY DEF AnswersOK
  <2>1. Entered(a, b)
    BY <1>2, <1>5 DEF Entered
  <2>2. Told(a, b)
    BY <1>1, <1>5, <2>1 DEF MembersInv, AnswersOK
  <2> QED
    BY <1>2, <1>5, <2>2 DEF Told
<1> QED
  BY <1>3, <1>4, <1>6, <1>7, <1>8 DEF MembersInv

\* A process that starts has what its file holds now.
LEMMA StartKeeps ==
  ASSUME NEW loaded \in Loaded, MembersInv(loaded), NEW n \in Node, Start(n)
  PROVE  \E new \in Loaded : MembersInv(new)'
<1>1. PICK new \in Loaded : /\ new[n] = file[n]
                           /\ \A m \in Node \ {n} : new[m] = loaded[m]
  <2>1. [loaded EXCEPT ![n] = file[n]] \in Loaded
    BY DEF Loaded, MembersInv, ProcessesOK
  <2> QED
    BY <2>1 DEF Loaded
<1>2. /\ n \notin up /\ n \in Exited /\ up' = up \cup {n}
      /\ Clients[n] = {}
      /\ \A h \in DOMAIN handlers : h.at \in up /\ h.at # n
  BY DEF Start, MembersInv, ProcessesOK, HandlersOK
<1>3. UNCHANGED <<Clients, file, handlers, exits, unheard>>
  BY DEF Start, countVars
<1>4. /\ DOMAIN KnownTcpConnections' = Node /\ DOMAIN loading' = Node
      /\ KnownTcpConnections'[n] = file[n] /\ loading'[n] = file[n]
      /\ \A m \in Node \ {n} :
           /\ loading'[m] = loading[m]
           /\ KnownTcpConnections'[m] = KnownTcpConnections[m]
  BY DEF Start, MembersInv, ProcessesOK
<1>5. Exited' = Exited /\ \A m : FromFile(m)' = FromFile(m)
  BY <1>3 DEF Exited, FromFile
<1>6. file[n] \subseteq FromFile(n)
  BY <1>2, FileOf
<1>7. ProcessesOK'
  <2>1. up' \subseteq Node /\ \A m \in Node \ up' : m \in Exited'
    BY <1>2, <1>5 DEF MembersInv, ProcessesOK
  <2>2. \A m \in Node :
          /\ KnownTcpConnections'[m] \subseteq Node
          /\ m \notin up' => Clients[m] = {} /\ loading'[m] = {}
    BY <1>2, <1>4 DEF MembersInv, ProcessesOK
  <2> QED
    BY <1>3, <1>4, <2>1, <2>2 DEF MembersInv, ProcessesOK
<1>8. HandlersOK'
  BY <1>2, <1>3 DEF MembersInv, HandlersOK
<1>9. ListsOK'
  BY <1>2, <1>3, <1>4 DEF MembersInv, ProcessesOK, ListsOK
<1>10. FilesOK(new)'
  <2> SUFFICES ASSUME NEW m \in up'
               PROVE  /\ loading'[m] \subseteq new[m]
                      /\ new[m] \subseteq KnownTcpConnections'[m]
                      /\ new[m] \subseteq FromFile(m)
                      /\ \A h \in DOMAIN handlers :
                           h.at = m /\ h.step = "write" => new[m] \subseteq h.seen
    BY <1>3, <1>5 DEF FilesOK
  <2>1. CASE m = n
    BY <1>1, <1>2, <1>4, <1>6, <2>1
  <2>2. CASE m # n
    <3>1. m \in up /\ m \in Node
      BY <1>2, <2>2 DEF MembersInv, ProcessesOK
    <3> QED
      BY <1>1, <1>4, <2>2, <3>1 DEF MembersInv, FilesOK
  <2> QED
    BY <2>1, <2>2
<1>11. AnswersOK(new)'
  <2> SUFFICES ASSUME NEW a \in up', NEW b \in up', a \notin new[b],
                      a \notin Exited, a \notin unheard, Entered(a, b)
               PROVE  Told(a, b)
    BY <1>3, <1>5 DEF AnswersOK, Entered, Told
  <2>1. a \in up /\ b \in up /\ b # n /\ b \in Node
    BY <1>2 DEF Entered, MembersInv, ProcessesOK
  <2> QED
    BY <1>1, <2>1 DEF MembersInv, AnswersOK
<1> QED
  BY <1>7, <1>8, <1>9, <1>10, <1>11 DEF MembersInv

-----------------------------------------------------------------------------

LEMMA NextPeers == PeersInv /\ [Next]_regVars => PeersInv'
<1> SUFFICES ASSUME PeersInv, [Next]_regVars PROVE PeersInv'
  OBVIOUS
<1> PICK loaded \in Loaded : MembersInv(loaded)
  BY DEF PeersInv
<1>1. (\E kept \in Loaded : MembersInv(kept)') => PeersInv'
  BY DEF PeersInv
<1>2. CASE UNCHANGED regVars
  <2>1. UNCHANGED <<up, Clients, KnownTcpConnections, loading, file, handlers, exits, unheard>>
    BY <1>2 DEF regVars, netVars, memoryVars, countVars
  <2>2. /\ ProcessesOK' /\ Exited' = Exited
        /\ \A n : FromFile(n)' = FromFile(n)
    BY <2>1, SameProcesses DEF MembersInv
  <2>3. MembersInv(loaded)'
    BY <2>1, <2>2 DEF MembersInv, HandlersOK, ListsOK, FilesOK, AnswersOK, Entered, Told
  <2> QED
    BY <1>1, <2>3
<1>3. ASSUME NEW n \in Node, Load(n) \/ SaveJson(n) \/ Exit(n)
      PROVE  PeersInv'
  BY <1>1, <1>3, LoadKeeps, SaveKeeps, ExitKeeps
<1>4. ASSUME NEW n \in Node, Start(n)
      PROVE  PeersInv'
  BY <1>1, <1>4, StartKeeps
<1>5. ASSUME NEW n \in Node, NEW p \in Node, Connect(n, p)
      PROVE  PeersInv'
  BY <1>1, <1>5, ConnectKeeps
<1>6. ASSUME NEW n \in Node, NEW p \in Node, HandleRegister(n, p)
      PROVE  PeersInv'
  BY <1>1, <1>6, CheckKeeps, AnswerKeeps, RegisterKeeps, ReadKeeps, WriteKeeps
     DEF HandleRegister
<1> QED
  BY <1>2, <1>3, <1>4, <1>5, <1>6 DEF Next

\* The strengthening that both properties of registration follow from.
THEOREM PeersInvariant == Spec => []PeersInv
  BY InitPeers, NextPeers, PTL DEF Spec

\* KnowsBack: whoever was entered by a REGISTER, and has neither lost its memory
\* nor missed a REGISTER, was told before it was entered.
THEOREM WhoIsEnteredKnowsBack == Spec => []KnowsBack
<1>1. PeersInv => KnowsBack
  <2> SUFFICES ASSUME NEW loaded \in Loaded, MembersInv(loaded),
                      NEW a \in up, NEW b \in up,
                      a \in Clients[b] \ FromFile(b), a \notin Exited,
                      a \notin unheard
               PROVE  Told(a, b)
    BY DEF PeersInv, KnowsBack, Told
  <2>1. a \notin loaded[b]
    BY DEF MembersInv, FilesOK
  <2> QED
    BY <2>1 DEF MembersInv, AnswersOK, Entered
<1> QED
  BY <1>1, PeersInvariant, PTL

\* SomeoneIsSaved: appends that overlap lose entries of KnownTcpConnections,
\* but of the clients of a miner at rest one at least is in the list.
THEOREM SomeoneStays == Spec => []SomeoneIsSaved
<1>1. PeersInv => SomeoneIsSaved
  BY DEF PeersInv, SomeoneIsSaved, MembersInv, ListsOK
<1> QED
  BY <1>1, PeersInvariant, PTL
=============================================================================
