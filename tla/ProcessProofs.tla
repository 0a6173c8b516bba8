---------------------------- MODULE ProcessProofs ----------------------------
(***************************************************************************)
(* Proofs about module Process, for every number of processes and every    *)
(* way to connect them that the derive macro produces.                     *)
(***************************************************************************)
EXTENDS Process, SequenceTheorems, TLAPS

LEMMA ChildrenNat ==
  /\ Children \subseteq Nat \ {0}
  /\ \A c \in Children : c <= N
BY ProcessAssumption DEF Children

LEMMA PairsType == Pairs \subseteq Children \X Children
BY DEF Pairs

LEMMA MessageType ==
  ASSUME NEW pair \in Children \X Children, NEW side \in Sides, NEW p \in Children
  PROVE  Connect(pair, side, p) \in Messages
BY DEF Connect, Messages, End, Ends

LEMMA AppType == App \in Messages
BY DEF App, Messages

\* What a send to a child leaves behind.
LEMMA PostType ==
  ASSUME TypeOK, NEW c \in Children, NEW m \in Messages, Post(c, m)
  PROVE  ppc' \in ParentStates /\ chan' \in [Children -> Seq(Messages)]
<1>1. CASE cpc[c] \in Ended
  BY <1>1 DEF Post, TypeOK, ParentStates
<1>2. CASE cpc[c] \notin Ended
  <2>1. Append(chan[c], m) \in Seq(Messages)
    BY DEF TypeOK
  <2> QED
    BY <1>2, <2>1 DEF Post, TypeOK
<1> QED
  BY <1>1, <1>2

LEMMA TypeInit == Init => TypeOK
<1> SUFFICES ASSUME Init PROVE TypeOK
  OBVIOUS
<1>1. next \in 1..N
  BY ProcessAssumption DEF Init
<1>2. chan \in [Children -> Seq(Messages)]
  BY DEF Init
<1> QED
  BY <1>1, <1>2, PairsType DEF Init, TypeOK, ParentStates, ChildStates

LEMMA TypeSend ==
  ASSUME TypeOK, SendLeft \/ SendRight
  PROVE  TypeOK'
<1>1. CASE SendLeft
  <2>1. PICK pair \in todo : /\ Post(pair[1], Connect(pair, "left", pair[2]))
                             /\ half' = {pair}
    BY <1>1 DEF SendLeft
  <2>2. pair \in Children \X Children
    BY DEF TypeOK
  <2>3. ppc' \in ParentStates /\ chan' \in [Children -> Seq(Messages)]
    BY <2>1, <2>2, PostType, MessageType DEF Sides
  <2> QED
    BY <1>1, <2>1, <2>3 DEF SendLeft, childVars, TypeOK
<1>2. CASE SendRight
  <2>1. PICK pair \in half : /\ Post(pair[2], Connect(pair, "right", pair[1]))
                             /\ todo' = todo \ {pair}
    BY <1>2 DEF SendRight
  <2>2. pair \in Children \X Children
    BY DEF TypeOK
  <2>3. ppc' \in ParentStates /\ chan' \in [Children -> Seq(Messages)]
    BY <2>1, <2>2, PostType, MessageType DEF Sides
  <2> QED
    BY <1>2, <2>1, <2>3 DEF SendRight, childVars, TypeOK
<1> QED
  BY <1>1, <1>2

LEMMA TypeRecvConnect ==
  ASSUME TypeOK, NEW c \in Children, RecvConnect(c)
  PROVE  TypeOK'
<1> DEFINE m == Head(chan[c])
<1>1. chan[c] \in Seq(Messages) /\ chan[c] # <<>>
  BY DEF RecvConnect, TypeOK
<1>2. m \in Messages /\ Tail(chan[c]) \in Seq(Messages)
  BY <1>1
<1>3. chan' \in [Children -> Seq(Messages)]
  BY <1>2 DEF RecvConnect, TypeOK
<1>4. UNCHANGED parentVars
  BY DEF RecvConnect
<1>5. CASE m.kind = "connect" /\ m.peer \in wait[c]
  <2>1. m.peer \in Children /\ m.end \in Ends \cup {NoEnd}
    BY <1>2, <1>5 DEF Messages, TypeOK
  <2>2. /\ wait' = [wait EXCEPT ![c] = @ \ {m.peer}]
        /\ peer' = [peer EXCEPT ![c][m.peer] = m.end]
        /\ UNCHANGED cpc
    BY <1>5 DEF RecvConnect
  <2>3. wait' \in [Children -> SUBSET Children]
    BY <2>2 DEF TypeOK
  <2>4. peer' \in [Children -> [Children -> Ends \cup {NoEnd}]]
    BY <2>1, <2>2 DEF TypeOK
  <2> QED
    BY <1>3, <1>4, <2>2, <2>3, <2>4 DEF TypeOK, parentVars
<1>6. CASE ~(m.kind = "connect" /\ m.peer \in wait[c])
  BY <1>3, <1>4, <1>6 DEF RecvConnect, TypeOK, parentVars, ChildStates, Ended
<1> QED
  BY <1>5, <1>6

LEMMA TypeStep == TypeOK /\ [Next]_vars => TypeOK'
<1> SUFFICES ASSUME TypeOK, [Next]_vars PROVE TypeOK'
  OBVIOUS
<1> USE DEF ChildStates, Ended, ParentStates
<1>1. CASE Fork
  <2>1. next' \in 1..N
    BY <1>1, ProcessAssumption DEF Fork, TypeOK
  <2> QED
    BY <1>1, <2>1 DEF Fork, TypeOK
<1>2. CASE ForkDone
  BY <1>2 DEF ForkDone, TypeOK, childVars
<1>3. CASE ConnectDone
  BY <1>3, ProcessAssumption DEF ConnectDone, TypeOK, childVars
<1>4. CASE Greet
  <2>1. next \in Children /\ next' \in 1..N
    BY <1>4, ProcessAssumption DEF Greet, TypeOK, Children
  <2>2. ppc' \in ParentStates /\ chan' \in [Children -> Seq(Messages)]
    BY <1>4, <2>1, PostType, AppType DEF Greet
  <2> QED
    BY <1>4, <2>1, <2>2 DEF Greet, TypeOK, childVars
<1>5. CASE ParentEnds \/ ParentFails
  BY <1>5 DEF ParentEnds, ParentFails, TypeOK, childVars
<1>6. ASSUME NEW c \in Children, Exec(c) PROVE TypeOK'
  <2>1. WaitSet(c) \in SUBSET Children
    BY ProcessAssumption DEF WaitSet
  <2> QED
    BY <1>6, <2>1 DEF Exec, TypeOK, parentVars
<1>7. ASSUME NEW c \in Children, RecvApp(c) PROVE TypeOK'
  <2>1. Tail(chan[c]) \in Seq(Messages)
    BY <1>7 DEF RecvApp, TypeOK
  <2> QED
    BY <1>7, <2>1 DEF RecvApp, TypeOK, parentVars, childVars
<1>8. ASSUME NEW c \in Children,
             RecvNone(c) \/ Ready(c) \/ ChildEnds(c) \/ ChildFails(c) \/ Shutdown(c)
      PROVE  TypeOK'
  <2>1. /\ \E x \in ChildStates : cpc' = [cpc EXCEPT ![c] = x]
        /\ UNCHANGED <<ppc, next, todo, half, wait, peer, chan>>
    BY <1>8 DEF RecvNone, Ready, ChildEnds, ChildFails, Shutdown, parentVars
  <2> QED
    BY <2>1 DEF TypeOK
<1>9. CASE Terminated \/ UNCHANGED vars
  BY <1>9 DEF Terminated, vars, TypeOK
<1> QED
  BY <1>1, <1>2, <1>3, <1>4, <1>5, <1>6, <1>7, <1>8, <1>9, TypeSend, TypeRecvConnect
  DEF Next, ParentStep, ChildStep

\* Every reachable state is well typed: among others, no child waits for the
\* parent, and only the pair that is being connected is half connected.
THEOREM TypeCorrect == Spec => []TypeOK
BY TypeInit, TypeStep, PTL DEF Spec

-----------------------------------------------------------------------------
(* Connections.  What a child waits for is at any time what the parent has   *)
(* still to send it together with what is on its way, each connection once.  *)

\* What the derive macro makes of the connect attributes, provided that no
\* process is connected with itself.
WellFormed ==
  \A a, b \in Children : b \in Rows[a] => a \in Rows[b] /\ a # b

Alive(c) == cpc[c] \notin Ended

\* The connections that the child has not got, from before it runs.
Missing(c) == IF cpc[c] \in {"unborn", "forked"} THEN Rows[c] ELSE wait[c]

\* Those that the parent has not sent.
Owed(c) ==
  {q \in Children : <<q, c>> \in todo \/ (<<c, q>> \in todo /\ <<c, q>> \notin half)}

\* Those that are on their way.
IsConnect(c, i) == chan[c][i].kind = "connect"
InPipe(c) ==
  {q \in Children : \E i \in 1..Len(chan[c]) : IsConnect(c, i) /\ chan[c][i].peer = q}

\* The end that child c gets for its connection with q.
EndFor(c, q) == IF c < q THEN End(<<c, q>>, "left") ELSE End(<<q, c>>, "right")

PipeInv(c) ==
  /\ \A i \in 1..Len(chan[c]) : IsConnect(c, i) =>
       chan[c][i].peer \in Children /\ chan[c][i].end = EndFor(c, chan[c][i].peer)
  /\ \A i \in 1..Len(chan[c]) : ~IsConnect(c, i) =>
       todo = {} /\ \A j \in 1..Len(chan[c]) : i < j => ~IsConnect(c, j)
  /\ \A i, j \in 1..Len(chan[c]) :
       IsConnect(c, i) /\ IsConnect(c, j) /\ i # j => chan[c][i].peer # chan[c][j].peer

ChildInv(c) ==
  /\ PipeInv(c)
  /\ Missing(c) = Owed(c) \cup InPipe(c)
  /\ Owed(c) \cap InPipe(c) = {}
  /\ Missing(c) \subseteq Rows[c] /\ c \notin Missing(c)
  /\ \A q \in Children : peer[c][q] # NoEnd <=> q \in Rows[c] \ Missing(c)
  /\ cpc[c] = "main" => wait[c] = {}

LinkInv ==
  /\ \A pair \in todo : pair[1] < pair[2]
  /\ \A p, q \in half : p = q
  /\ ppc = "main" => todo = {}
  /\ ppc = "fork" => \A c \in Children : next <= c => cpc[c] = "unborn"
  /\ \A c, q \in Children :
       peer[c][q] \in {NoEnd, EndFor(c, q)} /\ (c = q => peer[c][q] = NoEnd)
  /\ \A c \in Children : cpc[c] # "invalid"
  /\ \A c \in Children : Alive(c) => ChildInv(c)

ConnectInv == TypeOK /\ LinkInv

LEMMA ConnectInit == ASSUME WellFormed PROVE Init => ConnectInv
<1> SUFFICES ASSUME Init PROVE LinkInv
  BY TypeInit DEF ConnectInv
<1>1. ASSUME NEW c \in Children PROVE ChildInv(c)
  <2>1. InPipe(c) = {} /\ PipeInv(c)
    BY DEF Init, InPipe, PipeInv
  <2>2. Missing(c) = Rows[c] /\ \A q \in Children : peer[c][q] = NoEnd
    BY DEF Init, Missing
  <2>3. Owed(c) = Rows[c]
    <3>1. Rows[c] \subseteq Children
      BY ProcessAssumption
    <3>2. \A q \in Children : <<q, c>> \in Pairs <=> q < c /\ q \in Rows[c]
      BY DEF Pairs, WellFormed
    <3>3. \A q \in Children : <<c, q>> \in Pairs <=> c < q /\ q \in Rows[c]
      BY DEF Pairs, WellFormed
    <3>4. ASSUME NEW q \in Rows[c] PROVE q < c \/ c < q
      <4>1. q \in Children /\ q # c
        BY <3>1 DEF WellFormed
      <4>2. q \in Nat /\ c \in Nat
        BY <4>1, ChildrenNat
      <4> QED
        BY <4>1, <4>2
    <3> QED
      BY <3>1, <3>2, <3>3, <3>4 DEF Owed, Init
  <2>4. c \notin Rows[c]
    BY DEF WellFormed
  <2> QED
    BY <2>1, <2>2, <2>3, <2>4 DEF ChildInv, Init
<1>2. \A pair \in Pairs : pair[1] < pair[2]
  BY DEF Pairs
<1> QED
  BY <1>1, <1>2 DEF Init, LinkInv

\* A child whose state, pipe and debts stay as they are.
LEMMA Untouched ==
  ASSUME NEW c \in Children, ChildInv(c), Owed(c)' = Owed(c), chan'[c] = chan[c],
         cpc'[c] = cpc[c], wait'[c] = wait[c], peer'[c] = peer[c],
         todo = {} => todo' = {}
  PROVE  ChildInv(c)'
<1>1. InPipe(c)' = InPipe(c) /\ PipeInv(c)'
  BY DEF ChildInv, InPipe, PipeInv, IsConnect
<1>2. Missing(c)' = Missing(c)
  BY DEF Missing
<1> QED
  BY <1>1, <1>2 DEF ChildInv

\* A child that is sent a connection it is owed.
LEMMA Delivered ==
  ASSUME TypeOK, NEW c \in Children, NEW q \in Children, NEW m \in Messages,
         ChildInv(c), q \in Owed(c), todo # {},
         m.kind = "connect", m.peer = q, m.end = EndFor(c, q),
         chan' = [chan EXCEPT ![c] = Append(@, m)], Owed(c)' = Owed(c) \ {q},
         cpc' = cpc, wait' = wait, peer' = peer
  PROVE  ChildInv(c)'
<1> DEFINE n == Len(chan[c])
<1>1. /\ n \in Nat /\ Len(chan'[c]) = n + 1
      /\ \A i \in 1..n : chan'[c][i] = chan[c][i]
      /\ chan'[c][n + 1] = m
      /\ \A i \in 1..Len(chan'[c]) : i \in 1..n \/ i = n + 1
  BY DEF TypeOK
<1> HIDE DEF n
<1>2. \A i \in 1..n : IsConnect(c, i) /\ chan[c][i].peer # q
  BY DEF ChildInv, PipeInv, InPipe, n
<1>3. /\ \A i \in 1..n : chan'[c][i].kind = "connect"
      /\ chan'[c][n + 1].kind = "connect"
  BY <1>1, <1>2 DEF IsConnect
<1>4. InPipe(c)' = InPipe(c) \cup {q}
  BY <1>1, <1>2, <1>3 DEF InPipe, IsConnect, n
<1>5. PipeInv(c)'
  <2>1. \A i \in 1..(n + 1) :
          chan'[c][i].peer \in Children /\ chan'[c][i].end = EndFor(c, chan'[c][i].peer)
    BY <1>1, <1>2 DEF ChildInv, PipeInv, n
  <2>2. \A i, j \in 1..(n + 1) : i # j => chan'[c][i].peer # chan'[c][j].peer
    BY <1>1, <1>2 DEF ChildInv, PipeInv, n
  <2> QED
    BY <1>1, <1>3, <2>1, <2>2 DEF PipeInv, IsConnect, EndFor
<1>6. Missing(c)' = Missing(c)
  BY DEF Missing
<1> QED
  BY <1>4, <1>5, <1>6 DEF ChildInv

LEMMA ConnectSendLeft ==
  ASSUME ConnectInv, SendLeft
  PROVE  LinkInv'
<1>1. PICK pair \in todo : /\ Post(pair[1], Connect(pair, "left", pair[2]))
                           /\ half' = {pair}
  BY DEF SendLeft
<1> DEFINE a == pair[1]
           b == pair[2]
           m == Connect(pair, "left", b)
<1>2. /\ pair = <<a, b>> /\ a \in Children /\ b \in Children /\ a < b
      /\ half = {} /\ ppc = "connect"
      /\ UNCHANGED <<next, todo, cpc, wait, peer>>
  BY DEF ConnectInv, LinkInv, TypeOK, SendLeft, childVars
<1>3. m \in Messages /\ m.kind = "connect" /\ m.peer = b /\ m.end = EndFor(a, b)
  BY <1>2, MessageType DEF Connect, EndFor, Sides
<1> HIDE DEF m
<1>4. ~(<<b, a>> \in todo)
  BY <1>2, ChildrenNat DEF ConnectInv, LinkInv
<1>5. ASSUME NEW c \in Children, c # a PROVE Owed(c)' = Owed(c)
  BY <1>1, <1>2, <1>5 DEF Owed
<1>6. Owed(a)' = Owed(a) \ {b} /\ b \in Owed(a)
  BY <1>1, <1>2, <1>4 DEF Owed
<1>7. ppc' \in {"connect", "gone"}
      /\ (chan' = chan \/ chan' = [chan EXCEPT ![a] = Append(@, m)])
      /\ (Alive(a) => chan' = [chan EXCEPT ![a] = Append(@, m)])
  BY <1>1, <1>2 DEF Post, Alive, m
<1>8. ASSUME NEW c \in Children, Alive(c)' PROVE ChildInv(c)'
  <2>1. Alive(c) /\ ChildInv(c)
    BY <1>2, <1>8 DEF Alive, ConnectInv, LinkInv
  <2>2. CASE c = a
    BY <1>2, <1>3, <1>6, <1>7, <2>1, <2>2, Delivered DEF ConnectInv
  <2>3. CASE c # a
    <3>1. chan'[c] = chan[c]
      BY <1>7, <2>3 DEF ConnectInv, TypeOK
    <3> QED
      BY <1>2, <1>5, <2>1, <2>3, <3>1, Untouched
  <2> QED
    BY <2>2, <2>3
<1> QED
  BY <1>1, <1>2, <1>7, <1>8 DEF ConnectInv, LinkInv, EndFor

LEMMA ConnectSendRight ==
  ASSUME ConnectInv, SendRight
  PROVE  LinkInv'
<1>1. PICK pair \in half : /\ Post(pair[2], Connect(pair, "right", pair[1]))
                           /\ todo' = todo \ {pair}
  BY DEF SendRight
<1> DEFINE a == pair[1]
           b == pair[2]
           m == Connect(pair, "right", a)
<1>2. /\ pair = <<a, b>> /\ a \in Children /\ b \in Children /\ a < b
      /\ half = {pair} /\ half' = {} /\ pair \in todo /\ ppc = "connect"
      /\ UNCHANGED <<next, cpc, wait, peer>>
  BY DEF ConnectInv, LinkInv, TypeOK, SendRight, childVars
<1>3. m \in Messages /\ m.kind = "connect" /\ m.peer = a /\ m.end = EndFor(b, a)
  <2>1. ~(b < a)
    BY <1>2, ChildrenNat
  <2> QED
    BY <1>2, <2>1, MessageType DEF Connect, EndFor, Sides
<1> HIDE DEF m
<1>4. ~(<<b, a>> \in todo)
  BY <1>2, ChildrenNat DEF ConnectInv, LinkInv
<1>5. ASSUME NEW c \in Children, c # b PROVE Owed(c)' = Owed(c)
  BY <1>1, <1>2, <1>5 DEF Owed
<1>6. Owed(b)' = Owed(b) \ {a} /\ a \in Owed(b)
  BY <1>1, <1>2, <1>4 DEF Owed
<1>7. ppc' \in {"connect", "gone"}
      /\ (chan' = chan \/ chan' = [chan EXCEPT ![b] = Append(@, m)])
      /\ (Alive(b) => chan' = [chan EXCEPT ![b] = Append(@, m)])
  BY <1>1, <1>2 DEF Post, Alive, m
<1>8. ASSUME NEW c \in Children, Alive(c)' PROVE ChildInv(c)'
  <2>1. Alive(c) /\ ChildInv(c)
    BY <1>2, <1>8 DEF Alive, ConnectInv, LinkInv
  <2>2. CASE c = b
    BY <1>2, <1>3, <1>6, <1>7, <2>1, <2>2, Delivered DEF ConnectInv
  <2>3. CASE c # b
    <3>1. chan'[c] = chan[c]
      BY <1>7, <2>3 DEF ConnectInv, TypeOK
    <3> QED
      BY <1>1, <1>2, <1>5, <2>1, <2>3, <3>1, Untouched
  <2> QED
    BY <2>2, <2>3
<1> QED
  BY <1>1, <1>2, <1>7, <1>8 DEF ConnectInv, LinkInv, EndFor

LEMMA ConnectGreet ==
  ASSUME ConnectInv, Greet
  PROVE  LinkInv'
<1>1. /\ next \in Children /\ todo = {} /\ ppc = "main" /\ Post(next, App)
      /\ UNCHANGED <<todo, half, cpc, wait, peer>>
  BY ProcessAssumption DEF Greet, ConnectInv, LinkInv, TypeOK, Children, childVars
<1>2. ppc' \in {"main", "gone"}
      /\ (chan' = chan \/ chan' = [chan EXCEPT ![next] = Append(@, App)])
  BY <1>1 DEF Post
<1>3. \A c \in Children : Owed(c)' = Owed(c)
  BY <1>1 DEF Owed
<1>4. ASSUME NEW c \in Children, Alive(c)' PROVE ChildInv(c)'
  <2>1. Alive(c) /\ ChildInv(c)
    BY <1>1, <1>4 DEF Alive, ConnectInv, LinkInv
  <2>2. CASE chan'[c] = chan[c]
    BY <1>1, <1>3, <2>1, <2>2, Untouched
  <2>3. CASE chan'[c] = Append(chan[c], App)
    <3> DEFINE n == Len(chan[c])
    <3>1. /\ n \in Nat /\ Len(chan'[c]) = n + 1
          /\ \A i \in 1..n : chan'[c][i] = chan[c][i]
          /\ chan'[c][n + 1].kind # "connect"
          /\ \A i \in 1..Len(chan'[c]) : i \in 1..n \/ i = n + 1
      BY <2>3 DEF ConnectInv, TypeOK, App
    <3> HIDE DEF n
    <3>2. InPipe(c)' = InPipe(c)
      <4>1. \A q : (\E i \in 1..(n + 1) : chan'[c][i].kind = "connect" /\ chan'[c][i].peer = q)
                 <=> \E i \in 1..n : chan[c][i].kind = "connect" /\ chan[c][i].peer = q
        BY <3>1
      <4>2. Len(chan'[c]) = n + 1
        BY <3>1
      <4>3. InPipe(c)' = {q \in Children : \E i \in 1..(n + 1) :
                            chan'[c][i].kind = "connect" /\ chan'[c][i].peer = q}
        BY <4>2 DEF InPipe, IsConnect
      <4>4. InPipe(c) = {q \in Children : \E i \in 1..n :
                            chan[c][i].kind = "connect" /\ chan[c][i].peer = q}
        BY DEF InPipe, IsConnect, n
      <4> QED
        BY <4>1, <4>3, <4>4
    <3>3. PipeInv(c)'
      <4>1. \A i \in 1..(n + 1) : chan'[c][i].kind = "connect" => i \in 1..n
        BY <3>1
      <4>2. \A i \in 1..(n + 1) : chan'[c][i].kind = "connect" =>
              /\ chan'[c][i].peer \in Children
              /\ chan'[c][i].end = EndFor(c, chan'[c][i].peer)
        BY <2>1, <3>1, <4>1 DEF ChildInv, PipeInv, IsConnect, n
      <4>3. \A i, j \in 1..(n + 1) :
              chan'[c][i].kind # "connect" /\ i < j => chan'[c][j].kind # "connect"
        BY <2>1, <3>1, <4>1 DEF ChildInv, PipeInv, IsConnect, n
      <4>4. \A i, j \in 1..(n + 1) :
              /\ chan'[c][i].kind = "connect" /\ chan'[c][j].kind = "connect" /\ i # j
              => chan'[c][i].peer # chan'[c][j].peer
        BY <2>1, <3>1, <4>1 DEF ChildInv, PipeInv, IsConnect, n
      <4> QED
        BY <1>1, <3>1, <4>2, <4>3, <4>4 DEF PipeInv, IsConnect, EndFor
    <3>4. Missing(c)' = Missing(c)
      BY <1>1 DEF Missing
    <3> QED
      BY <1>1, <1>3, <2>1, <3>2, <3>3, <3>4 DEF ChildInv
  <2> QED
    BY <1>1, <1>2, <2>2, <2>3 DEF ConnectInv, TypeOK
<1> QED
  BY <1>1, <1>2, <1>4 DEF ConnectInv, LinkInv, EndFor

\* Taking the first message out of a pipe.
LEMMA PipeTail ==
  ASSUME TypeOK, NEW c \in Children, PipeInv(c), chan[c] # <<>>,
         chan'[c] = Tail(chan[c]), todo' = todo
  PROVE  /\ PipeInv(c)'
         /\ ~IsConnect(c, 1) => InPipe(c) = {} /\ InPipe(c)' = {} /\ todo = {}
         /\ IsConnect(c, 1) =>
              /\ Head(chan[c]).peer \in InPipe(c)
              /\ InPipe(c)' = InPipe(c) \ {Head(chan[c]).peer}
<1> DEFINE n == Len(chan[c])
<1>1. /\ n \in Nat \ {0} /\ Len(chan'[c]) = n - 1 /\ Head(chan[c]) = chan[c][1]
      /\ \A i \in 1..(n - 1) : chan'[c][i] = chan[c][i + 1]
      /\ \A i \in 1..(n - 1) : i + 1 \in 1..n /\ 1 < i + 1
      /\ \A j \in 1..n : j = 1 \/ \E i \in 1..(n - 1) : j = i + 1
  <2>1. chan[c] \in Seq(Messages)
    BY DEF TypeOK
  <2>2. n \in Nat \ {0} /\ Len(chan'[c]) = n - 1 /\ Head(chan[c]) = chan[c][1]
    BY <2>1
  <2>3. \A i \in 1..(n - 1) : chan'[c][i] = chan[c][i + 1]
    BY <2>1
  <2>4. \A j \in 1..n : j = 1 \/ (j - 1 \in 1..(n - 1) /\ j = (j - 1) + 1)
    BY <2>2
  <2> QED
    BY <2>2, <2>3, <2>4
<1> HIDE DEF n
<1>2. PipeInv(c)'
  <2>1. \A i \in 1..(n - 1) : chan'[c][i].kind = "connect" =>
          /\ chan'[c][i].peer \in Children
          /\ chan'[c][i].end = EndFor(c, chan'[c][i].peer)
    BY <1>1 DEF PipeInv, IsConnect, n
  <2>2. \A i, j \in 1..(n - 1) :
          chan'[c][i].kind # "connect" /\ i < j => chan'[c][j].kind # "connect"
    BY <1>1 DEF PipeInv, IsConnect, n
  <2>3. \A i \in 1..(n - 1) : chan'[c][i].kind # "connect" => todo = {}
    BY <1>1 DEF PipeInv, IsConnect, n
  <2>4. \A i, j \in 1..(n - 1) :
          /\ chan'[c][i].kind = "connect" /\ chan'[c][j].kind = "connect" /\ i # j
          => chan'[c][i].peer # chan'[c][j].peer
    <3>1. \A i, j \in 1..(n - 1) : i # j => i + 1 # j + 1
      OBVIOUS
    <3> QED
      BY <1>1, <3>1 DEF PipeInv, IsConnect, n
  <2> QED
    BY <1>1, <2>1, <2>2, <2>3, <2>4 DEF PipeInv, IsConnect, EndFor
<1>3. ASSUME ~IsConnect(c, 1)
      PROVE  InPipe(c) = {} /\ InPipe(c)' = {} /\ todo = {}
  <2>1. todo = {} /\ \A j \in 1..n : ~IsConnect(c, j)
    BY <1>1, <1>3 DEF PipeInv, n
  <2>2. \A i \in 1..(n - 1) : chan'[c][i].kind # "connect"
    BY <1>1, <2>1 DEF IsConnect
  <2> QED
    BY <1>1, <2>1, <2>2 DEF InPipe, IsConnect, n
<1>4. ASSUME IsConnect(c, 1)
      PROVE  /\ Head(chan[c]).peer \in InPipe(c)
             /\ InPipe(c)' = InPipe(c) \ {Head(chan[c]).peer}
  <2> DEFINE h == chan[c][1].peer
  <2>1. h \in InPipe(c)
    BY <1>1, <1>4 DEF PipeInv, InPipe, n
  <2>2. ASSUME NEW q \in InPipe(c)' PROVE q \in InPipe(c) /\ q # h
    <3>1. PICK i \in 1..(n - 1) : chan'[c][i].kind = "connect" /\ chan'[c][i].peer = q
      BY <1>1, <2>2 DEF InPipe, IsConnect
    <3>2. i + 1 \in 1..n /\ i + 1 # 1 /\ IsConnect(c, i + 1) /\ chan[c][i + 1].peer = q
      BY <1>1, <3>1 DEF IsConnect
    <3> QED
      BY <1>1, <1>4, <2>2, <3>2 DEF PipeInv, InPipe, n
  <2>3. ASSUME NEW q \in InPipe(c), q # h PROVE q \in InPipe(c)'
    <3>1. PICK j \in 1..n : IsConnect(c, j) /\ chan[c][j].peer = q
      BY DEF InPipe, n
    <3>2. PICK i \in 1..(n - 1) : j = i + 1
      BY <1>1, <2>3, <3>1
    <3>3. i \in 1..Len(chan'[c]) /\ chan'[c][i].kind = "connect" /\ chan'[c][i].peer = q
      BY <1>1, <3>1, <3>2 DEF IsConnect
    <3> QED
      BY <2>3, <3>3 DEF InPipe, IsConnect
  <2> QED
    BY <1>1, <2>1, <2>2, <2>3
<1> QED
  BY <1>2, <1>3, <1>4

LEMMA ConnectRecv ==
  ASSUME ConnectInv, NEW c \in Children, RecvConnect(c)
  PROVE  LinkInv'
<1> DEFINE m == Head(chan[c])
<1>1. /\ cpc[c] = "waiting" /\ wait[c] # {} /\ chan[c] # <<>>
      /\ chan' = [chan EXCEPT ![c] = Tail(@)]
      /\ UNCHANGED <<ppc, next, todo, half>>
  BY DEF RecvConnect, Connected, parentVars
<1>2. TypeOK /\ ChildInv(c) /\ Missing(c) = wait[c]
  BY <1>1 DEF ConnectInv, LinkInv, Alive, Ended, Missing
<1>3. chan'[c] = Tail(chan[c]) /\ m = chan[c][1] /\ chan[c] \in Seq(Messages)
  BY <1>1, <1>2 DEF TypeOK
<1>4. \A d \in Children : Owed(d)' = Owed(d)
  BY <1>1 DEF Owed
<1>5. IsConnect(c, 1) /\ m.peer \in InPipe(c)
      /\ InPipe(c)' = InPipe(c) \ {m.peer} /\ PipeInv(c)'
  <2>1. ~IsConnect(c, 1) => Owed(c) = {} /\ InPipe(c) = {}
    BY <1>1, <1>2, <1>3, PipeTail DEF ChildInv, Owed
  <2> QED
    BY <1>1, <1>2, <1>3, <2>1, PipeTail DEF ChildInv
<1>6. m.peer \in wait[c] /\ m.kind = "connect"
  BY <1>2, <1>3, <1>5 DEF ChildInv, IsConnect
<1>7. /\ wait' = [wait EXCEPT ![c] = @ \ {m.peer}]
      /\ peer' = [peer EXCEPT ![c][m.peer] = m.end]
      /\ UNCHANGED cpc
  BY <1>6 DEF RecvConnect
<1>8. m.peer \in Children /\ m.end = EndFor(c, m.peer) /\ m.end # NoEnd
  <2>1. m.peer \in Children /\ m.end = EndFor(c, m.peer)
    BY <1>2, <1>3, <1>5 DEF ChildInv, PipeInv, InPipe, TypeOK
  <2> QED
    BY <2>1 DEF EndFor, End, NoEnd
<1> HIDE DEF m
<1>9. ChildInv(c)'
  <2>1. Missing(c)' = Missing(c) \ {m.peer}
    BY <1>1, <1>2, <1>7 DEF Missing, TypeOK
  <2>2. m.peer \notin Owed(c)
    BY <1>2, <1>5 DEF ChildInv
  <2>3. Missing(c)' = Owed(c)' \cup InPipe(c)' /\ Owed(c)' \cap InPipe(c)' = {}
    BY <1>2, <1>4, <1>5, <2>1, <2>2 DEF ChildInv
  <2>4. ASSUME NEW q \in Children
        PROVE  peer'[c][q] # NoEnd <=> q \in Rows[c] \ Missing(c)'
    <3>1. m.peer \in Rows[c]
      BY <1>2, <1>6 DEF ChildInv
    <3>2. CASE q = m.peer
      BY <1>2, <1>7, <1>8, <2>1, <3>1, <3>2 DEF TypeOK
    <3>3. CASE q # m.peer
      <4>1. peer'[c][q] = peer[c][q]
        BY <1>2, <1>7, <1>8, <3>3 DEF TypeOK
      <4> QED
        BY <1>2, <2>1, <3>3, <4>1 DEF ChildInv
    <3> QED
      BY <3>2, <3>3
  <2>5. Missing(c)' \subseteq Rows[c] /\ c \notin Missing(c)'
    BY <1>2, <2>1 DEF ChildInv
  <2> QED
    BY <1>1, <1>5, <1>7, <2>3, <2>4, <2>5 DEF ChildInv
<1>10. ASSUME NEW d \in Children, Alive(d)', d # c PROVE ChildInv(d)'
  <2>1. ChildInv(d)
    BY <1>7, <1>10 DEF ConnectInv, LinkInv, Alive
  <2>2. chan'[d] = chan[d] /\ wait'[d] = wait[d] /\ peer'[d] = peer[d]
    BY <1>1, <1>2, <1>7, <1>10 DEF TypeOK
  <2> QED
    BY <1>1, <1>4, <1>7, <2>1, <2>2, Untouched
<1>11. \A d, q \in Children :
         peer'[d][q] \in {NoEnd, EndFor(d, q)} /\ (d = q => peer'[d][q] = NoEnd)
  <2> SUFFICES ASSUME NEW d \in Children, NEW q \in Children
               PROVE  /\ peer'[d][q] \in {NoEnd, EndFor(d, q)}
                      /\ d = q => peer'[d][q] = NoEnd
    OBVIOUS
  <2>1. peer'[d][q] = IF d = c /\ q = m.peer THEN m.end ELSE peer[d][q]
    BY <1>2, <1>7, <1>8 DEF TypeOK
  <2>2. m.peer # c
    BY <1>2, <1>6 DEF ChildInv
  <2> QED
    BY <1>8, <2>1, <2>2 DEF ConnectInv, LinkInv
<1> QED
  BY <1>1, <1>7, <1>9, <1>10, <1>11 DEF ConnectInv, LinkInv, EndFor

LEMMA ConnectExec ==
  ASSUME ConnectInv, NEW c \in Children, Exec(c)
  PROVE  LinkInv'
<1>1. /\ cpc[c] = "forked"
      /\ cpc' = [cpc EXCEPT ![c] = "waiting"]
      /\ wait' = [wait EXCEPT ![c] = Rows[c]]
      /\ UNCHANGED <<ppc, next, todo, half, peer, chan>>
  BY DEF Exec, WaitSet, parentVars
<1>2. \A d \in Children : Owed(d)' = Owed(d) /\ InPipe(d)' = InPipe(d)
                          /\ (PipeInv(d) => PipeInv(d)')
  BY <1>1 DEF Owed, InPipe, PipeInv, IsConnect, EndFor
<1>3. ASSUME NEW d \in Children, Alive(d)' PROVE ChildInv(d)'
  <2>1. CASE d = c
    <3>1. Missing(c)' = Missing(c) /\ cpc'[c] # "main"
      BY <1>1 DEF ConnectInv, TypeOK, Missing
    <3>2. ChildInv(c)
      BY <1>1 DEF ConnectInv, LinkInv, Alive, Ended
    <3> QED
      BY <1>1, <1>2, <2>1, <3>1, <3>2 DEF ChildInv
  <2>2. CASE d # c
    <3>1. cpc'[d] = cpc[d] /\ wait'[d] = wait[d]
      BY <1>1, <2>2 DEF ConnectInv, TypeOK
    <3>2. ChildInv(d)
      BY <1>3, <3>1 DEF ConnectInv, LinkInv, Alive
    <3> QED
      BY <1>1, <1>2, <3>1, <3>2, Untouched
  <2> QED
    BY <2>1, <2>2
<1>4. \A d \in Children : cpc'[d] # "invalid" /\ (cpc[d] = "unborn" => cpc'[d] = "unborn")
  BY <1>1 DEF ConnectInv, LinkInv, TypeOK
<1> QED
  BY <1>1, <1>3, <1>4 DEF ConnectInv, LinkInv, EndFor

LEMMA ConnectRecvApp ==
  ASSUME ConnectInv, NEW c \in Children, RecvApp(c)
  PROVE  LinkInv'
<1>1. /\ cpc[c] = "main" /\ chan[c] # <<>>
      /\ chan' = [chan EXCEPT ![c] = Tail(@)]
      /\ UNCHANGED <<ppc, next, todo, half, cpc, wait, peer>>
  BY DEF RecvApp, parentVars, childVars
<1>2. TypeOK /\ ChildInv(c) /\ Missing(c) = {}
  BY <1>1 DEF ConnectInv, LinkInv, Alive, Ended, ChildInv, Missing
<1>3. chan'[c] = Tail(chan[c])
  BY <1>1, <1>2 DEF TypeOK
<1>4. PipeInv(c)' /\ InPipe(c)' = {}
  BY <1>1, <1>2, <1>3, PipeTail DEF ChildInv
<1>5. \A d \in Children : Owed(d)' = Owed(d) /\ Missing(d)' = Missing(d)
  BY <1>1 DEF Owed, Missing
<1>6. ASSUME NEW d \in Children, Alive(d)' PROVE ChildInv(d)'
  <2>1. CASE d = c
    BY <1>1, <1>2, <1>4, <1>5, <2>1 DEF ChildInv
  <2>2. CASE d # c
    <3>1. chan'[d] = chan[d]
      BY <1>1, <1>2, <2>2 DEF TypeOK
    <3> QED
      BY <1>1, <1>5, <1>6, <3>1, Untouched DEF ConnectInv, LinkInv, Alive
  <2> QED
    BY <2>1, <2>2
<1> QED
  BY <1>1, <1>6 DEF ConnectInv, LinkInv, EndFor

\* The parent goes on without sending, or a child changes its state only.
LEMMA ConnectOther ==
  ASSUME ConnectInv, UNCHANGED <<todo, half, wait, peer, chan>>,
         ppc' = "main" => todo = {},
         ppc' = "fork" => \A c \in Children : next' <= c => cpc'[c] = "unborn",
         \A c \in Children :
           /\ cpc'[c] # "invalid"
           /\ cpc'[c] = cpc[c] \/ cpc'[c] \in Ended
              \/ (cpc[c] = "unborn" /\ cpc'[c] = "forked")
              \/ (cpc[c] = "waiting" /\ cpc'[c] = "main" /\ wait[c] = {})
  PROVE  LinkInv'
<1>1. ASSUME NEW c \in Children, Alive(c)' PROVE ChildInv(c)'
  <2>1. Alive(c) /\ ChildInv(c)
    BY <1>1 DEF Alive, Ended, ConnectInv, LinkInv
  <2>2. Owed(c)' = Owed(c) /\ InPipe(c)' = InPipe(c) /\ PipeInv(c)'
    BY <2>1 DEF Owed, InPipe, ChildInv, PipeInv, IsConnect, EndFor
  <2>3. Missing(c)' = Missing(c)
    BY <1>1 DEF Missing, Alive
  <2>4. cpc'[c] = "main" => wait[c] = {}
    BY <1>1, <2>1 DEF ChildInv, Alive
  <2> QED
    BY <2>1, <2>2, <2>3, <2>4 DEF ChildInv
<1> QED
  BY <1>1 DEF ConnectInv, LinkInv, EndFor

LEMMA ConnectStep == ConnectInv /\ [Next]_vars => ConnectInv'
<1> SUFFICES ASSUME ConnectInv, [Next]_vars PROVE LinkInv'
  BY TypeStep DEF ConnectInv
<1>1. CASE Fork
  <2>1. next \in Children /\ cpc[next] = "unborn"
    BY <1>1, ProcessAssumption DEF Fork, ConnectInv, LinkInv, TypeOK, Children
  <2>2. \A c \in Children : cpc'[c] = IF c = next THEN "forked" ELSE cpc[c]
    BY <1>1 DEF Fork, ConnectInv, TypeOK
  <2>3. ASSUME NEW c \in Children, next' <= c PROVE cpc'[c] = "unborn"
    <3>1. next' = next + 1 /\ next \in Nat /\ c \in Nat
      BY <1>1, <2>1, ChildrenNat DEF Fork
    <3>2. next <= c /\ c # next
      BY <2>3, <3>1
    <3> QED
      BY <1>1, <2>2, <3>2 DEF Fork, ConnectInv, LinkInv
  <2> QED
    BY <1>1, <2>1, <2>2, <2>3, ConnectOther DEF Fork, ConnectInv, LinkInv
<1>2. CASE ForkDone \/ ConnectDone \/ ParentEnds \/ ParentFails
  BY <1>2, ConnectOther
  DEF ForkDone, ConnectDone, ParentEnds, ParentFails, childVars, ConnectInv, LinkInv
<1>3. ASSUME NEW c \in Children, Ready(c) PROVE LinkInv'
  <2>1. /\ cpc[c] = "waiting" /\ wait[c] = {}
        /\ UNCHANGED <<ppc, next, todo, half, wait, peer, chan>>
        /\ \A d \in Children : cpc'[d] = IF d = c THEN "main" ELSE cpc[d]
    BY <1>3 DEF Ready, Connected, parentVars, ConnectInv, TypeOK
  <2> QED
    BY <2>1, ConnectOther DEF ConnectInv, LinkInv
<1>4. ASSUME NEW c \in Children, RecvNone(c) \/ ChildEnds(c) \/ ChildFails(c) \/ Shutdown(c)
      PROVE  LinkInv'
  <2>1. /\ cpc[c] \in {"forked", "waiting", "main"}
        /\ UNCHANGED <<ppc, next, todo, half, wait, peer, chan>>
        /\ \E x \in {"gone", "lost", "panicked"} :
             \A d \in Children : cpc'[d] = IF d = c THEN x ELSE cpc[d]
    BY <1>4 DEF RecvNone, ChildEnds, ChildFails, Shutdown, parentVars, ConnectInv, TypeOK
  <2> QED
    BY <2>1, ConnectOther DEF ConnectInv, LinkInv, Ended
<1>5. CASE Terminated \/ UNCHANGED vars
  BY <1>5, ConnectOther DEF Terminated, vars, ConnectInv, LinkInv
<1> QED
  BY <1>1, <1>2, <1>3, <1>4, <1>5, ConnectSendLeft, ConnectSendRight, ConnectGreet,
     ConnectRecv, ConnectExec, ConnectRecvApp
  DEF Next, ParentStep, ChildStep

LEMMA ConnectAlways == ASSUME WellFormed PROVE Spec => []ConnectInv
<1>1. Init => ConnectInv
  BY ConnectInit
<1> QED
  BY <1>1, ConnectStep, PTL DEF Spec

\* However many children there are and however they are connected, in whatever
\* order they start and pairs are connected, and whoever fails: no child is
\* ever sent a message that it does not wait for.
THEOREM NoInvalidPeerCorrect == ASSUME WellFormed PROVE Spec => []NoInvalidPeer
<1>1. ConnectInv => NoInvalidPeer
  BY DEF ConnectInv, LinkInv, NoInvalidPeer
<1> QED
  BY <1>1, ConnectAlways, PTL

\* What two children use to talk to each other is one socketpair.
THEOREM ChannelsMatchCorrect == ASSUME WellFormed PROVE Spec => []ChannelsMatch
<1>1. ASSUME ConnectInv PROVE ChannelsMatch
  <2> SUFFICES ASSUME NEW a \in Children, NEW b \in Children,
                      peer[a][b] # NoEnd, peer[b][a] # NoEnd
               PROVE  a # b /\ peer[a][b] = Opposite(peer[b][a])
    BY DEF ChannelsMatch
  <2>1. peer[a][b] = EndFor(a, b) /\ peer[b][a] = EndFor(b, a) /\ a # b
    BY <1>1 DEF ConnectInv, LinkInv
  <2>2. a \in Nat /\ b \in Nat
    BY ChildrenNat
  <2>3. ASSUME NEW pair
        PROVE  /\ Opposite(End(pair, "left")) = End(pair, "right")
               /\ Opposite(End(pair, "right")) = End(pair, "left")
    <3>1. /\ (CHOOSE s \in Sides : s # "left") = "right"
          /\ (CHOOSE s \in Sides : s # "right") = "left"
      BY DEF Sides
    <3> QED
      BY <3>1 DEF Opposite, End
  <2>4. CASE a < b
    <3>1. ~(b < a)
      BY <2>2, <2>4
    <3>2. EndFor(a, b) = End(<<a, b>>, "left") /\ EndFor(b, a) = End(<<a, b>>, "right")
      BY <2>4, <3>1 DEF EndFor
    <3> QED
      BY <2>1, <2>3, <3>2
  <2>5. CASE b < a
    <3>1. ~(a < b)
      BY <2>2, <2>5
    <3>2. EndFor(a, b) = End(<<b, a>>, "right") /\ EndFor(b, a) = End(<<b, a>>, "left")
      BY <2>5, <3>1 DEF EndFor
    <3> QED
      BY <2>1, <2>3, <3>2
  <2> QED
    BY <2>1, <2>2, <2>4, <2>5
<1> QED
  BY <1>1, ConnectAlways, PTL

\* A child gets to its main with exactly the connections it is configured with.
THEOREM MainConnectedCorrect ==
  ASSUME WellFormed PROVE Spec => [](MainConnected /\ NoConnectInMain)
<1>1. ASSUME ConnectInv PROVE MainConnected /\ NoConnectInMain
  <2> SUFFICES ASSUME NEW c \in Children, cpc[c] = "main"
               PROVE  /\ {p \in Children : peer[c][p] # NoEnd} = Rows[c]
                      /\ \A i \in 1..Len(chan[c]) : chan[c][i].kind = "app"
    BY DEF MainConnected, NoConnectInMain
  <2>1. ChildInv(c) /\ Missing(c) = {}
    BY <1>1 DEF ConnectInv, LinkInv, Alive, Ended, ChildInv, Missing
  <2>2. {p \in Children : peer[c][p] # NoEnd} = Rows[c]
    BY <2>1, ProcessAssumption DEF ChildInv
  <2>3. \A i \in 1..Len(chan[c]) : chan[c][i] \in Messages /\ ~IsConnect(c, i)
    <3>1. \A i \in 1..Len(chan[c]) : chan[c][i] \in Messages
      BY <1>1 DEF ConnectInv, TypeOK
    <3>2. \A i \in 1..Len(chan[c]) : ~IsConnect(c, i)
      BY <2>1 DEF ChildInv, PipeInv, InPipe
    <3> QED
      BY <3>1, <3>2
  <2> QED
    BY <2>2, <2>3 DEF IsConnect, Messages
<1> QED
  BY <1>1, ConnectAlways, PTL

\* A connect message of the parent cannot come to a child that is past its wait, where
\* the main function would take it for a message of the application.
THEOREM NoConnectInMainCorrect == ASSUME WellFormed PROVE Spec => []NoConnectInMain
BY MainConnectedCorrect, PTL

\* A child that waits in Child::new waits for something: for a message that its pipe
\* has, which is the next one and one it can take, or for one that the parent still has
\* to send.
Served ==
  \A c \in Children : cpc[c] = "waiting" /\ ~Connected(c) =>
    \/ ppc # "main" /\ Owed(c) # {}
    \/ chan[c] # <<>> /\ Head(chan[c]).kind = "connect" /\ Head(chan[c]).peer \in wait[c]

\* No child is stuck in its setup once Parent::connect is through: the safety half of
\* SetupCompletes.
THEOREM ServedCorrect == ASSUME WellFormed PROVE Spec => []Served
<1>1. ASSUME ConnectInv PROVE Served
  <2> SUFFICES ASSUME NEW c \in Children, cpc[c] = "waiting", wait[c] # {},
                      ~(ppc # "main" /\ Owed(c) # {})
               PROVE  chan[c] # <<>> /\ IsConnect(c, 1) /\ chan[c][1].peer \in wait[c]
    BY DEF Served, Connected, IsConnect
  <2>1. ChildInv(c) /\ Missing(c) = wait[c] /\ chan[c] \in Seq(Messages)
    BY <1>1 DEF ConnectInv, LinkInv, TypeOK, Alive, Ended, Missing
  <2>2. Owed(c) = {}
    <3>1. ppc = "main" => todo = {}
      BY <1>1 DEF ConnectInv, LinkInv
    <3> QED
      BY <3>1 DEF Owed
  <2>3. InPipe(c) = wait[c] /\ PipeInv(c)
    BY <2>1, <2>2 DEF ChildInv
  <2>4. PICK i \in 1..Len(chan[c]) : IsConnect(c, i)
    BY <2>3 DEF InPipe
  <2>5. Len(chan[c]) \in Nat /\ 1 \in 1..Len(chan[c]) /\ chan[c] # <<>>
    BY <2>1, <2>4
  <2>6. IsConnect(c, 1)
    <3>1. 1 < i \/ i = 1
      BY <2>5
    <3> QED
      BY <2>3, <2>4, <2>5, <3>1 DEF PipeInv
  <2>7. chan[c][1].peer \in InPipe(c)
    BY <2>3, <2>5, <2>6 DEF PipeInv, InPipe
  <2> QED
    BY <2>3, <2>5, <2>6, <2>7
<1> QED
  BY <1>1, ConnectAlways, PTL
=============================================================================
