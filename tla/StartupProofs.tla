--------------------------- MODULE StartupProofs ---------------------------
(***************************************************************************)
(* Proofs about module Startup, for every number of children, every set of *)
(* descriptor numbers and every way to log.                                *)
(***************************************************************************)
EXTENDS Startup, SequenceTheorems, TLAPS

Calling ==
  {"session", "dup", "closefrom", "exec", "cloexec",
   "user", "chroot", "chdir", "setgroups", "setresgid", "setresuid"}

SetupPlan == <<"session", "dup", "closefrom", "exec", "cloexec">>

\* The calls of the privilege drop are the last six of a child.
LEMMA Plan ==
  /\ options.privdrop =>
       /\ Len(ChildPlan) = 11
       /\ \A i \in 1..6 : ChildPlan[5 + i] = Privdrop[i]
  /\ ~options.privdrop => Len(ChildPlan) = 5
  /\ \A i \in 1..5 : ChildPlan[i] = SetupPlan[i]
<1> DEFINE s == SetupPlan
           t == IF options.privdrop THEN Privdrop ELSE <<>>
<1>1. s \in Seq(Calling) /\ Len(s) = 5
  BY DEF Calling, SetupPlan
<1>2. t \in Seq(Calling) /\ (options.privdrop => t = Privdrop) /\ (~options.privdrop => t = <<>>)
  <2>1. Privdrop \in Seq(Calling) /\ <<>> \in Seq(Calling)
    BY DEF Privdrop, Calling
  <2> QED
    BY <2>1
<1>3. Len(Privdrop) = 6
  BY DEF Privdrop
<1>5. ChildPlan = s \o t
  BY DEF ChildPlan, SetupPlan
<1> HIDE DEF s, t
<1>0. \A i \in 1..(Len(s) + Len(t)) :
        (s \o t)[i] = IF i <= Len(s) THEN s[i] ELSE t[i - Len(s)]
  BY <1>1, <1>2, ConcatProperties
<1>6. /\ Len(s \o t) = Len(s) + Len(t)
      /\ \A i \in 1..Len(s) : (s \o t)[i] = s[i]
      /\ \A i \in 1..Len(t) : (s \o t)[Len(s) + i] = t[i]
  <2>1. Len(s \o t) = Len(s) + Len(t)
    BY <1>1, <1>2, ConcatProperties
  <2>2. Len(s) \in Nat /\ Len(t) \in Nat
    BY <1>1, <1>2
  <2>3. \A i \in 1..Len(t) : /\ Len(s) + i \in 1..(Len(s) + Len(t))
                              /\ ~(Len(s) + i <= Len(s)) /\ (Len(s) + i) - Len(s) = i
    BY <2>2
  <2> QED
    BY <1>0, <2>1, <2>2, <2>3
<1>7. \A i \in 1..5 : ChildPlan[i] = s[i]
  BY <1>1, <1>5, <1>6
<1>8. ASSUME options.privdrop
      PROVE  Len(ChildPlan) = 11 /\ \A i \in 1..6 : ChildPlan[5 + i] = Privdrop[i]
  <2>1. t = Privdrop
    BY <1>2, <1>8
  <2>2. Len(t) = 6
    BY <1>3, <2>1
  <2>3. Len(ChildPlan) = 11
    BY <1>1, <1>5, <1>6, <2>2
  <2>4. \A i \in 1..6 : ChildPlan[5 + i] = t[i]
    BY <1>1, <1>5, <1>6, <2>2
  <2> QED
    BY <2>1, <2>3, <2>4
<1>9. ASSUME ~options.privdrop PROVE Len(ChildPlan) = 5
  <2>1. t = <<>>
    BY <1>2, <1>9
  <2> QED
    BY <1>1, <1>5, <1>6, <2>1
<1> QED
  BY <1>7, <1>8, <1>9 DEF s

-----------------------------------------------------------------------------
(***************************************************************************)
(* The privilege drop.  The calls that a child has made say which of its   *)
(* credentials have changed: user comes last, and in front of it nothing   *)
(* is refused to a child of a parent that was root.                        *)
(***************************************************************************)
Setup == {"session", "dup", "closefrom", "exec", "cloexec"}

\* The credentials of a child that drops its privileges, after k calls.
Dropping(k) ==
  [uid |-> IF k >= 11 THEN "user" ELSE "root",
   gid |-> IF k >= 10 THEN "user" ELSE "root",
   groups |-> IF k >= 9 THEN "user" ELSE "root",
   root |-> IF k >= 7 THEN "jail" ELSE "system",
   cwd |-> IF k >= 8 THEN "inside" ELSE "outside"]

States == {"begin", "fork", "drop", "main", "gone",
           "unborn", "starting", "waiting", "escaped", "refused"}

Shape ==
  /\ options.privdrop \in BOOLEAN
  /\ pc \in [Procs -> States] /\ done \in [Children -> Nat] /\ cred \in [Procs -> Fields]
  /\ next \in Nat \ {0}

Unborn(c) == pc[c] = "unborn" /\ done[c] = 0

ParentPriv ==
  /\ pc[0] = "begin" /\ cred[0].uid = "root" => cred[0] = Superuser
  /\ pc[0] \in {"fork", "drop", "main"} /\ options.privdrop => cred[0] = Superuser
  /\ \A c \in Children : c > next => Unborn(c)
  /\ pc[0] \in {"begin", "fork"} => \A c \in Children : c >= next => Unborn(c)

ChildPriv(c) ==
  /\ pc[c] # "refused"
  /\ options.privdrop /\ pc[c] \in {"starting", "waiting"} => cred[c] = Dropping(done[c])
  /\ options.privdrop /\ pc[c] = "waiting" => done[c] = 11

PrivInv == Shape /\ ParentPriv /\ \A c \in Children : ChildPriv(c)

LEMMA ChildrenProcs == Children \subseteq Procs \ {0} /\ Children \subseteq Nat /\ 0 \in Procs
BY StartupAssumption DEF Children, Procs

LEMMA PrivInit == Init => PrivInv
<1> SUFFICES ASSUME Init PROVE PrivInv
  OBVIOUS
<1>1. PICK uid \in {"root", "user"} : cred = [p \in Procs |->
        [uid |-> uid, gid |-> uid, groups |-> uid, root |-> "system", cwd |-> "outside"]]
  BY DEF Init
<1>2. /\ pc = [p \in Procs |-> IF p = 0 THEN "begin" ELSE "unborn"]
      /\ next = 1 /\ done = [c \in Children |-> 0]
  BY DEF Init
<1>3. Shape
  <2>1. options.privdrop \in BOOLEAN
    BY DEF Init
  <2> QED
    BY <1>1, <1>2, <2>1 DEF Shape, States, Fields
<1>4. ParentPriv
  BY <1>1, <1>2, ChildrenProcs DEF ParentPriv, Unborn, Superuser
<1>5. \A c \in Children : ChildPriv(c)
  BY <1>2, ChildrenProcs DEF ChildPriv
<1> QED
  BY <1>3, <1>4, <1>5 DEF PrivInv

\* Where a child is in its plan when it makes a call.
Position(call) ==
  CASE call = "session" -> 0 [] call = "dup" -> 1 [] call = "closefrom" -> 2
    [] call = "exec" -> 3 [] call = "cloexec" -> 4 [] OTHER -> 5

LEMMA SetupPosition ==
  ASSUME NEW i \in 1..5
  PROVE  SetupPlan[i] \in Setup /\ Position(SetupPlan[i]) = i - 1
<1>1. CASE i = 1
  BY <1>1 DEF SetupPlan, Setup, Position
<1>2. CASE i = 2
  BY <1>2 DEF SetupPlan, Setup, Position
<1>3. CASE i = 3
  BY <1>3 DEF SetupPlan, Setup, Position
<1>4. CASE i = 4
  BY <1>4 DEF SetupPlan, Setup, Position
<1>5. CASE i = 5
  BY <1>5 DEF SetupPlan, Setup, Position
<1> QED
  BY <1>1, <1>2, <1>3, <1>4, <1>5

LEMMA CallsAt ==
  ASSUME Shape, NEW c \in Children, NEW call, Calls(c, call)
  PROVE  /\ pc[c] = "starting" /\ done[c] \in Nat
         /\ ~options.privdrop => call \in Setup
         /\ call \in Setup => done[c] <= 4 /\ done[c] = Position(call)
         /\ call \notin Setup => /\ options.privdrop /\ done[c] \in 5..10
                                 /\ call = Privdrop[done[c] - 4]
<1> DEFINE k == done[c] + 1
<1>1. done[c] \in Nat /\ pc[c] = "starting"
  BY DEF Shape, Calls
<1>2. k \in Nat /\ k >= 1 /\ k <= Len(ChildPlan) /\ call = ChildPlan[k]
  <2>1. Len(ChildPlan) \in Nat
    BY Plan DEF Shape
  <2> QED
    BY <1>1, <2>1 DEF Calls
<1>3. CASE k <= 5
  <2>0. k \in 1..5
    BY <1>2, <1>3
  <2>1. ChildPlan[k] = SetupPlan[k]
    <3> HIDE DEF k
    <3> QED
      BY <2>0, Plan
  <2>2. call \in Setup /\ Position(call) = k - 1
    <3> HIDE DEF k
    <3> QED
      BY <1>2, <2>0, <2>1, SetupPosition
  <2>3. done[c] <= 4 /\ k - 1 = done[c]
    BY <1>1, <1>3
  <2> QED
    BY <1>1, <2>2, <2>3
<1>4. CASE k > 5
  <2>1. options.privdrop /\ Len(ChildPlan) = 11
    BY <1>2, <1>4, Plan
  <2>2. k - 5 \in 1..6 /\ 5 + (k - 5) = k /\ k - 5 = done[c] - 4 /\ done[c] \in 5..10
    BY <1>1, <1>2, <1>4, <2>1
  <2>3. call = Privdrop[k - 5]
    BY <1>2, <2>1, <2>2, Plan
  <2>4. \A i \in 1..6 : Privdrop[i] \notin Setup
    BY DEF Privdrop, Setup
  <2> QED
    BY <1>1, <2>1, <2>2, <2>3, <2>4
<1> QED
  BY <1>2, <1>3, <1>4

\* A child has made a call, and its credentials are what they should be now.
LEMMA PrivMade ==
  ASSUME PrivInv, NEW c \in Children, pc[c] = "starting", Made(c),
         cred' \in [Procs -> Fields], \A p \in Procs \ {c} : cred'[p] = cred[p],
         options.privdrop => cred'[c] = Dropping(done[c] + 1)
  PROVE  PrivInv'
<1>1. /\ done' = [done EXCEPT ![c] = @ + 1]
      /\ pc' = [pc EXCEPT ![c] = IF done[c] + 1 = Len(ChildPlan) THEN "waiting" ELSE @]
      /\ options' = options /\ next' = next
  BY DEF Made
<1>2. c \in Procs /\ c # 0 /\ 0 \in Procs /\ ~Unborn(c)
  BY ChildrenProcs DEF Unborn
<1>3. Shape'
  BY <1>1, <1>2 DEF PrivInv, Shape, States
<1>4. ParentPriv'
  <2>1. pc'[0] = pc[0] /\ cred'[0] = cred[0]
    BY <1>1, <1>2 DEF PrivInv, Shape
  <2>2. \A e \in Children : Unborn(e) => Unborn(e)'
    BY <1>1, <1>2, ChildrenProcs DEF PrivInv, Shape, Unborn
  <2> QED
    BY <1>1, <2>1, <2>2 DEF PrivInv, ParentPriv
<1>5. ASSUME NEW e \in Children PROVE ChildPriv(e)'
  <2>1. CASE e = c
    <3>1. done'[c] = done[c] + 1 /\ pc'[c] \in {"starting", "waiting"}
      BY <1>1, <1>2 DEF PrivInv, Shape
    <3>2. options.privdrop /\ pc'[c] = "waiting" => done'[c] = 11
      BY <1>1, <1>2, <3>1, Plan DEF PrivInv, Shape
    <3> QED
      BY <1>1, <2>1, <3>1, <3>2 DEF ChildPriv
  <2>2. CASE e # c
    <3>1. e \in Procs \ {c} /\ pc'[e] = pc[e] /\ done'[e] = done[e] /\ cred'[e] = cred[e]
      BY <1>1, <2>2, ChildrenProcs DEF PrivInv, Shape
    <3> QED
      BY <1>1, <3>1 DEF PrivInv, ChildPriv
  <2> QED
    BY <2>1, <2>2
<1> QED
  BY <1>3, <1>4, <1>5 DEF PrivInv

\* The calls in front of the privilege drop.
LEMMA PrivSetup ==
  ASSUME PrivInv, NEW c \in Children, NEW call \in Setup, Calls(c, call), Made(c),
         cred' = cred
  PROVE  PrivInv'
<1>1. pc[c] = "starting" /\ done[c] \in Nat /\ done[c] <= 4
  BY CallsAt DEF PrivInv
<1>2. options.privdrop => cred'[c] = Dropping(done[c] + 1)
  <2>1. options.privdrop => cred[c] = Dropping(done[c])
    BY <1>1 DEF PrivInv, ChildPriv
  <2>2. Dropping(done[c] + 1) = Dropping(done[c])
    BY <1>1 DEF Dropping
  <2> QED
    BY <2>1, <2>2
<1>3. cred' \in [Procs -> Fields] /\ \A p \in Procs \ {c} : cred'[p] = cred[p]
  BY DEF PrivInv, Shape
<1> QED
  BY <1>1, <1>2, <1>3, PrivMade

\* The effect of the i-th call of the privilege drop.
LEMMA PrivAfter ==
  ASSUME NEW k \in 5..10
  PROVE  /\ Dropping(k).uid = "root"
         /\ After(Privdrop[k - 4], Dropping(k)) = Dropping(k + 1)
<1>1. CASE k = 5
  BY <1>1 DEF Privdrop, After, Dropping
<1>2. CASE k = 6
  BY <1>2 DEF Privdrop, After, Dropping
<1>3. CASE k = 7
  BY <1>3 DEF Privdrop, After, Dropping
<1>4. CASE k = 8
  BY <1>4 DEF Privdrop, After, Dropping
<1>5. CASE k = 9
  BY <1>5 DEF Privdrop, After, Dropping
<1>6. CASE k = 10
  BY <1>6 DEF Privdrop, After, Dropping
<1> QED
  BY <1>1, <1>2, <1>3, <1>4, <1>5, <1>6

LEMMA PrivDrop ==
  ASSUME PrivInv, NEW c \in Children, PrivdropCall(c)
  PROVE  PrivInv'
<1>1. PICK i \in 1..Len(Privdrop) :
        /\ Calls(c, Privdrop[i])
        /\ IF Privdrop[i] \in ForRoot /\ cred[c].uid # "root"
           THEN /\ Ends(c, "refused")
                /\ UNCHANGED <<options, next, done, watch, rustLog>>
           ELSE /\ cred' = [cred EXCEPT ![c] = After(Privdrop[i], @)]
                /\ Made(c) /\ UNCHANGED <<table, rustLog>>
  BY DEF PrivdropCall
<1> DEFINE call == Privdrop[i]
<1>2. call \notin Setup
  BY DEF Privdrop, Setup
<1>3. /\ pc[c] = "starting" /\ options.privdrop /\ done[c] \in 5..10
      /\ call = Privdrop[done[c] - 4]
  BY <1>1, <1>2, CallsAt DEF PrivInv
<1>4. cred[c] = Dropping(done[c])
  BY <1>3 DEF PrivInv, ChildPriv
<1>5. cred[c].uid = "root" /\ After(call, cred[c]) = Dropping(done[c] + 1)
  BY <1>3, <1>4, PrivAfter
<1>6. cred' = [cred EXCEPT ![c] = Dropping(done[c] + 1)] /\ Made(c)
  BY <1>1, <1>5
<1>7. Dropping(done[c] + 1) \in Fields
  BY DEF Dropping, Fields
<1>8. /\ cred' \in [Procs -> Fields] /\ cred'[c] = Dropping(done[c] + 1)
      /\ \A p \in Procs \ {c} : cred'[p] = cred[p]
  BY <1>6, <1>7, ChildrenProcs DEF PrivInv, Shape
<1> QED
  BY <1>3, <1>6, <1>8, PrivMade

\* Another process goes on or ends, or this one does, and no privileges are concerned.
LEMMA PrivOther ==
  ASSUME PrivInv, NEW p \in Procs, NEW how \in States \ {"refused", "waiting", "unborn"},
         pc' = [pc EXCEPT ![p] = how], UNCHANGED <<options, next>>,
         \/ p = 0 /\ how \in {"main", "gone"} /\ pc[0] # "unborn" /\ done' = done
         \/ p # 0 /\ pc[p] # "unborn" /\ how \in {"escaped", "gone"}
            /\ done' \in [Children -> Nat]
            /\ \A c \in Children \ {p} : done'[c] = done[c],
         cred' \in [Procs -> Fields], \A q \in Procs \ {p} : cred'[q] = cred[q],
         how = "main" => cred' = cred /\ pc[0] = "fork"
  PROVE  PrivInv'
<1>1. Shape'
  BY DEF PrivInv, Shape
<1>2. \A e \in Children : Unborn(e) => Unborn(e)'
  BY ChildrenProcs DEF PrivInv, Shape, Unborn
<1>3. ParentPriv'
  <2>1. CASE p = 0
    BY <1>2, <2>1, ChildrenProcs DEF PrivInv, Shape, ParentPriv
  <2>2. CASE p # 0
    <3>1. pc'[0] = pc[0] /\ cred'[0] = cred[0]
      BY <2>2, ChildrenProcs DEF PrivInv, Shape
    <3> QED
      BY <1>2, <3>1 DEF PrivInv, ParentPriv
  <2> QED
    BY <2>1, <2>2
<1>4. ASSUME NEW e \in Children PROVE ChildPriv(e)'
  <2>1. CASE e = p
    <3>1. pc'[e] \in {"escaped", "gone"}
      BY <2>1, ChildrenProcs DEF PrivInv, Shape
    <3> QED
      BY <3>1 DEF ChildPriv
  <2>2. CASE e # p
    <3>1. pc'[e] = pc[e] /\ done'[e] = done[e] /\ cred'[e] = cred[e]
      BY <2>2, ChildrenProcs DEF PrivInv, Shape
    <3> QED
      BY <3>1 DEF PrivInv, ChildPriv
  <2> QED
    BY <2>1, <2>2
<1> QED
  BY <1>1, <1>3, <1>4 DEF PrivInv

LEMMA EndsCred ==
  ASSUME PrivInv, NEW p \in Procs, NEW how, Ends(p, how)
  PROVE  /\ pc' = [pc EXCEPT ![p] = how] /\ cred' \in [Procs -> Fields]
         /\ \A q \in Procs \ {p} : cred'[q] = cred[q]
<1>1. Superuser \in Fields
  BY DEF Superuser, Fields
<1> QED
  BY <1>1 DEF Ends, PrivInv, Shape

LEMMA PrivBegin == ASSUME PrivInv, Begin PROVE PrivInv'
<1> DEFINE how == IF options.privdrop /\ cred[0].uid # "root" THEN "gone" ELSE "fork"
<1>1. /\ pc[0] = "begin" /\ pc' = [pc EXCEPT ![0] = how]
      /\ UNCHANGED <<options, next, done, cred>>
  BY DEF Begin
<1>2. how \in {"gone", "fork"} /\ (how = "fork" /\ options.privdrop => cred[0].uid = "root")
  OBVIOUS
<1> HIDE DEF how
<1>3. pc'[0] = how /\ \A e \in Children : pc'[e] = pc[e]
  BY <1>1, ChildrenProcs DEF PrivInv, Shape
<1>4. Shape'
  BY <1>1, <1>2 DEF PrivInv, Shape, States
<1>5. ParentPriv'
  BY <1>1, <1>2, <1>3 DEF PrivInv, ParentPriv, Unborn
<1>6. \A e \in Children : ChildPriv(e)'
  BY <1>1, <1>3 DEF PrivInv, ChildPriv
<1> QED
  BY <1>4, <1>5, <1>6 DEF PrivInv

LEMMA PrivFork == ASSUME PrivInv, Fork PROVE PrivInv'
<1>1. /\ pc[0] = "fork" /\ next <= NChildren
      /\ pc' = [pc EXCEPT ![0] = "drop", ![next] = "starting"]
      /\ cred' = [cred EXCEPT ![next] = cred[0]]
      /\ UNCHANGED <<options, next, done>>
  BY DEF Fork, Iterating
<1>2. CASE next \in Children
  <2>1. next \in Procs /\ next # 0 /\ Unborn(next)
    BY <1>1, <1>2, ChildrenProcs DEF PrivInv, ParentPriv
  <2>2. /\ pc'[0] = "drop" /\ pc'[next] = "starting" /\ cred'[next] = cred[0]
        /\ cred'[0] = cred[0]
        /\ \A e \in Children \ {next} : pc'[e] = pc[e] /\ cred'[e] = cred[e]
    BY <1>1, <2>1, ChildrenProcs DEF PrivInv, Shape
  <2>3. Shape'
    <3>1. pc' \in [Procs -> States]
      BY <1>1, <2>1 DEF PrivInv, Shape, States
    <3>2. cred' \in [Procs -> Fields]
      BY <1>1, <2>1, ChildrenProcs DEF PrivInv, Shape
    <3> QED
      BY <1>1, <3>1, <3>2 DEF PrivInv, Shape
  <2>4. ParentPriv'
    <3>1. \A e \in Children : e > next => e # next
      BY ChildrenProcs DEF PrivInv, Shape
    <3> QED
      BY <1>1, <2>2, <3>1 DEF PrivInv, ParentPriv, Unborn
  <2>5. ASSUME NEW e \in Children PROVE ChildPriv(e)'
    <3>1. CASE e = next
      <4>1. options.privdrop => cred[0] = Superuser
        BY <1>1 DEF PrivInv, ParentPriv
      <4>2. Dropping(0) = Superuser
        BY DEF Dropping, Superuser
      <4>3. done'[next] = 0
        BY <1>1, <2>1 DEF Unborn
      <4> QED
        BY <1>1, <2>2, <3>1, <4>1, <4>2, <4>3 DEF ChildPriv
    <3>2. CASE e # next
      BY <1>1, <2>2, <3>2 DEF PrivInv, ChildPriv
    <3> QED
      BY <3>1, <3>2
  <2> QED
    BY <2>3, <2>4, <2>5 DEF PrivInv
<1>3. next \in Children
  BY <1>1, StartupAssumption DEF PrivInv, Shape, Children
<1> QED
  BY <1>2, <1>3

LEMMA PrivDropRemote == ASSUME PrivInv, DropRemote PROVE PrivInv'
<1>1. /\ pc[0] = "drop" /\ next' = next + 1 /\ pc' = [pc EXCEPT ![0] = "fork"]
      /\ UNCHANGED <<options, done, cred>>
  BY DEF DropRemote
<1>2. pc'[0] = "fork" /\ \A e \in Children : pc'[e] = pc[e]
  BY <1>1, ChildrenProcs DEF PrivInv, Shape
<1>3. Shape'
  <2>1. next' \in Nat \ {0}
    BY <1>1 DEF PrivInv, Shape
  <2>2. pc' \in [Procs -> States]
    BY <1>1 DEF PrivInv, Shape, States
  <2> QED
    BY <1>1, <2>1, <2>2 DEF PrivInv, Shape
<1>4. ParentPriv'
  <2>1. \A e \in Children : e >= next + 1 \/ e > next + 1 => e > next
    BY ChildrenProcs DEF PrivInv, Shape
  <2> QED
    BY <1>1, <1>2, <2>1 DEF PrivInv, ParentPriv, Unborn
<1>5. \A e \in Children : ChildPriv(e)'
  BY <1>1, <1>2 DEF PrivInv, ChildPriv
<1> QED
  BY <1>3, <1>4, <1>5 DEF PrivInv

LEMMA PrivParent ==
  ASSUME PrivInv, Begin \/ Fork \/ DropRemote \/ ForkDone \/ ParentEnds
  PROVE  PrivInv'
<1>1. CASE ForkDone
  <2>1. /\ pc[0] = "fork" /\ pc' = [pc EXCEPT ![0] = "main"]
        /\ UNCHANGED <<options, next, done, cred>>
    BY <1>1 DEF ForkDone
  <2>2. "main" \in States \ {"refused", "waiting", "unborn"}
    BY DEF States
  <2>3. cred' \in [Procs -> Fields] /\ 0 \in Procs
    BY <2>1, ChildrenProcs DEF PrivInv, Shape
  <2> QED
    BY <2>1, <2>2, <2>3, PrivOther
<1>2. CASE ParentEnds
  <2>1. /\ pc[0] # "unborn" /\ Ends(0, "gone") /\ UNCHANGED <<options, next, done>>
    BY <1>2 DEF ParentEnds
  <2>2. "gone" \in States \ {"refused", "waiting", "unborn"}
    BY DEF States
  <2> QED
    BY <2>1, <2>2, EndsCred, PrivOther, ChildrenProcs
<1> QED
  BY <1>1, <1>2, PrivBegin, PrivFork, PrivDropRemote

LEMMA PrivChild ==
  ASSUME PrivInv, NEW c \in Children, ChildCall(c) \/ ChildEnds(c)
  PROVE  PrivInv'
<1>1. CASE NewSession(c) \/ DupRemote(c) \/ CloseRest(c) \/ Execve(c) \/ AdoptPipe(c)
  <2>1. \E call \in Setup : Calls(c, call)
    BY <1>1 DEF NewSession, DupRemote, CloseRest, Execve, AdoptPipe, Setup
  <2>2. Made(c) /\ cred' = cred
    BY <1>1 DEF NewSession, DupRemote, CloseRest, Execve, AdoptPipe
  <2> QED
    BY <2>1, <2>2, PrivSetup
<1>2. CASE ExecFails(c)
  <2>1. /\ pc[c] = "starting" /\ pc' = [pc EXCEPT ![c] = "escaped"]
        /\ UNCHANGED <<options, next, done, cred>>
    BY <1>2 DEF ExecFails, Calls
  <2>2. "escaped" \in States \ {"refused", "waiting", "unborn"}
    BY DEF States
  <2>3. c \in Procs /\ c # 0 /\ cred' \in [Procs -> Fields] /\ done' \in [Children -> Nat]
    BY <2>1, ChildrenProcs DEF PrivInv, Shape
  <2> QED
    BY <2>1, <2>2, <2>3, PrivOther
<1>3. CASE ChildEnds(c)
  <2>1. /\ pc[c] # "unborn" /\ Ends(c, "gone") /\ done' = [done EXCEPT ![c] = 0]
        /\ UNCHANGED <<options, next>>
    BY <1>3 DEF ChildEnds
  <2>2. "gone" \in States \ {"refused", "waiting", "unborn"}
    BY DEF States
  <2>3. c \in Procs /\ c # 0
    BY ChildrenProcs
  <2>4. done' \in [Children -> Nat] /\ \A e \in Children \ {c} : done'[e] = done[e]
    BY <2>1 DEF PrivInv, Shape
  <2> QED
    BY <2>1, <2>2, <2>3, <2>4, EndsCred, PrivOther
<1> QED
  BY <1>1, <1>2, <1>3, PrivDrop DEF ChildCall

LEMMA PrivAlways == Spec => []PrivInv
<1>1. ASSUME PrivInv, [Next]_vars PROVE PrivInv'
  <2>1. CASE UNCHANGED vars
    BY <1>1, <2>1 DEF vars, PrivInv, Shape, ParentPriv, ChildPriv, Unborn
  <2> QED
    BY <1>1, <2>1, PrivParent, PrivChild DEF Next
<1> QED
  BY <1>1, PrivInit, PTL DEF Spec

\* A child of a program that drops privileges has dropped all of them when it waits for
\* connections, whatever fails and however many children there are.
THEOREM ConfinedCorrect == Spec => []Confined
<1>1. PrivInv => Confined
  <2> SUFFICES ASSUME PrivInv, NEW c \in Children, pc[c] = "waiting", options.privdrop
               PROVE  cred[c] = [uid |-> "user", gid |-> "user", groups |-> "user",
                                 root |-> "jail", cwd |-> "inside"]
    BY DEF Confined
  <2>1. cred[c] = Dropping(11)
    BY DEF PrivInv, ChildPriv
  <2> QED
    BY <2>1 DEF Dropping
<1> QED
  BY <1>1, PrivAlways, PTL

\* No call of the privilege drop is made by a child that is not root any more.
THEOREM NoneRefusedCorrect == Spec => []NoneRefused
<1>1. PrivInv => NoneRefused
  BY DEF PrivInv, ChildPriv, NoneRefused
<1> QED
  BY <1>1, PrivAlways, PTL

-----------------------------------------------------------------------------
(***************************************************************************)
(* The descriptors.  The standard streams stay open everywhere, so that no *)
(* new descriptor gets one of their numbers; the calls that a child has    *)
(* made say what else it can still have.                                   *)
(***************************************************************************)
Tables == [Numbers -> [file : Nat, cloexec : BOOLEAN]]

Streams(t) == \A n \in Standard : t[n].file \in {Std, Null} /\ ~t[n].cloexec

\* The descriptors of child c after k calls.
ChildTable(t, c, k) ==
  /\ Streams(t)
  /\ k >= 2 => t[PRIVSEP_FD].file = Far(c) /\ (k <= 4 => ~t[PRIVSEP_FD].cloexec)
  /\ k >= 3 => \A n \in Numbers : n > PRIVSEP_FD => t[n].file = Closed

\* What is left to a child where execve failed.
EscapedTable(t) ==
  \A n \in Numbers : /\ t[n].file # Epoll
                     /\ n > PRIVSEP_FD => t[n].file = Closed

FdShape == table \in [Procs -> Tables] /\ handlers \in [Procs -> SUBSET Numbers]

ParentFd ==
  /\ pc[0] \in {"begin", "fork", "drop", "main"} => Streams(table[0])
  /\ \A n \in handlers[0] : <<n, table[0][n].file>> \in watch

ChildFd(c) ==
  /\ pc[c] \in {"starting", "waiting"} => ChildTable(table[c], c, done[c])
  /\ pc[c] = "escaped" => EscapedTable(table[c])

FdInv == FdShape /\ ParentFd /\ \A c \in Children : ChildFd(c)

LEMMA NumbersNat ==
  /\ Numbers \subseteq Nat /\ Standard \subseteq Numbers /\ PRIVSEP_FD \in Numbers
  /\ PRIVSEP_FD \notin Standard /\ \A n \in Standard : ~(n > PRIVSEP_FD)
  /\ \A n \in Numbers : n \in Standard \/ n = PRIVSEP_FD \/ n > PRIVSEP_FD
<1>1. Numbers \subseteq Nat /\ 0..3 \subseteq Numbers
  BY StartupAssumption
<1> QED
  BY <1>1 DEF Standard, PRIVSEP_FD

LEMMA PipeFiles ==
  ASSUME NEW c \in Nat
  PROVE  /\ Near(c) \in Nat /\ Far(c) \in Nat /\ Near(c) # Far(c)
         /\ c # 0 => {Near(c), Far(c)} \cap {Closed, Std, Null, Epoll} = {}
BY DEF Near, Far, Closed, Std, Null, Epoll

LEMMA NoDescIs == NoDesc \in [file : Nat, cloexec : BOOLEAN] /\ NoDesc.file = Closed
BY DEF NoDesc, Desc, Closed

LEMMA FdInit == Init => FdInv
<1> SUFFICES ASSUME Init PROVE FdInv
  OBVIOUS
<1>1. PICK lib \in [3..4 -> {NoDesc, Desc(Library, FALSE)}], epoll \in 3..5 :
        table = [p \in Procs |->
            IF p # 0 THEN NoTable
            ELSE [n \in Numbers |-> IF n \in Standard THEN Desc(Std, FALSE)
                                    ELSE IF n = epoll THEN Desc(Epoll, TRUE)
                                    ELSE IF n \in 3..4 THEN lib[n] ELSE NoDesc]]
  BY DEF Init
<1>2. /\ pc = [p \in Procs |-> IF p = 0 THEN "begin" ELSE "unborn"]
      /\ handlers = [p \in Procs |-> {}]
  BY DEF Init
<1>3. FdShape
  <2>1. NoTable \in Tables
    BY NoDescIs DEF NoTable, Tables
  <2>2. [n \in Numbers |-> IF n \in Standard THEN Desc(Std, FALSE)
                           ELSE IF n = epoll THEN Desc(Epoll, TRUE)
                           ELSE IF n \in 3..4 THEN lib[n] ELSE NoDesc] \in Tables
    <3>1. {Desc(Std, FALSE), Desc(Epoll, TRUE), Desc(Library, FALSE), NoDesc}
            \subseteq [file : Nat, cloexec : BOOLEAN]
      BY DEF NoDesc, Desc, Closed, Std, Epoll, Library
    <3>2. \A n \in 3..4 : lib[n] \in [file : Nat, cloexec : BOOLEAN]
      BY <3>1
    <3> QED
      BY <3>1, <3>2 DEF Tables
  <2> QED
    BY <1>1, <1>2, <2>1, <2>2 DEF FdShape
<1>4. ParentFd
  <2>1. \A n \in Standard : table[0][n] = Desc(Std, FALSE)
    BY <1>1, ChildrenProcs, NumbersNat
  <2> QED
    BY <1>2, <2>1, ChildrenProcs DEF ParentFd, Streams, Desc
<1>5. \A c \in Children : ChildFd(c)
  BY <1>2, ChildrenProcs DEF ChildFd
<1> QED
  BY <1>3, <1>4, <1>5 DEF FdInv

\* A child has made a call, and its descriptors are what they should be now.
LEMMA FdMade ==
  ASSUME PrivInv, FdInv, NEW c \in Children, pc[c] = "starting", Made(c),
         NEW t \in Tables, table' = [table EXCEPT ![c] = t],
         ChildTable(t, c, done[c] + 1)
  PROVE  FdInv'
<1>1. /\ done' = [done EXCEPT ![c] = @ + 1]
      /\ pc' = [pc EXCEPT ![c] = IF done[c] + 1 = Len(ChildPlan) THEN "waiting" ELSE @]
      /\ handlers' = handlers /\ watch' = watch
  BY DEF Made
<1>2. c \in Procs /\ c # 0 /\ 0 \in Procs
  BY ChildrenProcs
<1>3. FdShape'
  BY <1>1, <1>2 DEF FdInv, FdShape
<1>4. ParentFd'
  <2>1. pc'[0] = pc[0] /\ table'[0] = table[0]
    BY <1>1, <1>2 DEF PrivInv, Shape, FdInv, FdShape
  <2> QED
    BY <1>1, <2>1 DEF FdInv, ParentFd
<1>5. ASSUME NEW e \in Children PROVE ChildFd(e)'
  <2>1. CASE e = c
    <3>1. /\ done'[e] = done[c] + 1 /\ pc'[e] \in {"starting", "waiting"}
          /\ table'[e] = t
      BY <1>1, <1>2, <2>1 DEF PrivInv, Shape, FdInv, FdShape
    <3> QED
      BY <2>1, <3>1 DEF ChildFd
  <2>2. CASE e # c
    <3>1. pc'[e] = pc[e] /\ done'[e] = done[e] /\ table'[e] = table[e]
      BY <1>1, <2>2, ChildrenProcs DEF PrivInv, Shape, FdInv, FdShape
    <3> QED
      BY <3>1 DEF FdInv, ChildFd
  <2> QED
    BY <2>1, <2>2
<1> QED
  BY <1>3, <1>4, <1>5 DEF FdInv

LEMMA FdSession ==
  ASSUME PrivInv, FdInv, NEW c \in Children, NewSession(c) PROVE FdInv'
<1>1. PICK f \in {Std, Null} :
        table' = [table EXCEPT ![c] =
          [n \in Numbers |-> IF n \in Standard THEN Desc(f, FALSE) ELSE table[c][n]]]
  BY DEF NewSession
<1> DEFINE t == [n \in Numbers |-> IF n \in Standard THEN Desc(f, FALSE) ELSE table[c][n]]
<1>2. Calls(c, "session") /\ Made(c)
  BY DEF NewSession
<1>3. pc[c] = "starting" /\ done[c] = 0
  BY <1>2, CallsAt DEF PrivInv, Setup, Position
<1>4. t \in Tables
  <2>1. Desc(f, FALSE) \in [file : Nat, cloexec : BOOLEAN]
    BY DEF Desc, Std, Null
  <2>2. table[c] \in Tables
    BY ChildrenProcs DEF FdInv, FdShape
  <2> QED
    BY <2>1, <2>2 DEF Tables
<1>5. ChildTable(t, c, done[c] + 1)
  BY <1>3, NumbersNat DEF ChildTable, Streams, Desc
<1> HIDE DEF t
<1> QED
  BY <1>1, <1>2, <1>3, <1>4, <1>5, FdMade DEF t

LEMMA FdDup ==
  ASSUME PrivInv, FdInv, NEW c \in Children, DupRemote(c) PROVE FdInv'
<1> DEFINE t == [table[c] EXCEPT ![PRIVSEP_FD] = Desc(Far(c), FALSE)]
<1>1. Calls(c, "dup") /\ Made(c) /\ table' = [table EXCEPT ![c][PRIVSEP_FD] = Desc(Far(c), FALSE)]
  BY DEF DupRemote
<1>2. pc[c] = "starting" /\ done[c] = 1
  BY <1>1, CallsAt DEF PrivInv, Setup, Position
<1>3. table[c] \in Tables /\ Streams(table[c])
  BY <1>2, ChildrenProcs DEF FdInv, FdShape, ChildFd, ChildTable
<1>4. t \in Tables
  <2>1. Desc(Far(c), FALSE) \in [file : Nat, cloexec : BOOLEAN]
    BY ChildrenProcs, PipeFiles DEF Desc
  <2> QED
    BY <1>3, <2>1 DEF Tables
<1>5. /\ t[PRIVSEP_FD] = Desc(Far(c), FALSE)
      /\ \A n \in Standard : t[n] = table[c][n]
  BY <1>3, NumbersNat DEF Tables
<1>6. ChildTable(t, c, done[c] + 1)
  BY <1>2, <1>3, <1>5 DEF ChildTable, Streams, Desc
<1>7. table' = [table EXCEPT ![c] = t]
  BY <1>1
<1> HIDE DEF t
<1> QED
  BY <1>1, <1>2, <1>4, <1>6, <1>7, FdMade

LEMMA FdClose ==
  ASSUME PrivInv, FdInv, NEW c \in Children, CloseRest(c) PROVE FdInv'
<1> DEFINE t == CloseOpenFds(table[c])
<1>1. Calls(c, "closefrom") /\ Made(c) /\ table' = [table EXCEPT ![c] = t]
  BY DEF CloseRest
<1>2. pc[c] = "starting" /\ done[c] = 2
  BY <1>1, CallsAt DEF PrivInv, Setup, Position
<1>3. table[c] \in Tables /\ ChildTable(table[c], c, 2)
  BY <1>2, ChildrenProcs DEF FdInv, FdShape, ChildFd
<1>4. t \in Tables
  BY <1>3, NoDescIs DEF Tables, CloseOpenFds, CloseFrom
<1>5. /\ \A n \in Standard \cup {PRIVSEP_FD} : t[n] = table[c][n]
      /\ \A n \in Numbers : n > PRIVSEP_FD => t[n].file = Closed
  <2>1. \A n \in Numbers : n > PRIVSEP_FD <=> n >= PRIVSEP_FD + 1
    BY NumbersNat DEF PRIVSEP_FD
  <2> QED
    BY <2>1, NumbersNat, NoDescIs DEF CloseOpenFds, CloseFrom, PRIVSEP_FD
<1>6. ChildTable(t, c, done[c] + 1)
  BY <1>2, <1>3, <1>5 DEF ChildTable, Streams
<1> HIDE DEF t
<1> QED
  BY <1>1, <1>2, <1>4, <1>6, FdMade

LEMMA FdExecve ==
  ASSUME PrivInv, FdInv, NEW c \in Children, Execve(c) PROVE FdInv'
<1> DEFINE t == Exec(table[c])
<1>1. Calls(c, "exec") /\ Made(c) /\ table' = [table EXCEPT ![c] = t]
  BY DEF Execve
<1>2. pc[c] = "starting" /\ done[c] = 3
  BY <1>1, CallsAt DEF PrivInv, Setup, Position
<1>3. table[c] \in Tables /\ ChildTable(table[c], c, 3)
  BY <1>2, ChildrenProcs DEF FdInv, FdShape, ChildFd
<1>4. t \in Tables
  BY <1>3, NoDescIs DEF Tables, Exec
<1>5. /\ \A n \in Standard \cup {PRIVSEP_FD} : t[n] = table[c][n]
      /\ \A n \in Numbers : n > PRIVSEP_FD => t[n].file = Closed
  BY <1>3, NumbersNat, NoDescIs DEF Exec, ChildTable, Streams
<1>6. ChildTable(t, c, done[c] + 1)
  BY <1>2, <1>3, <1>5 DEF ChildTable, Streams
<1> HIDE DEF t
<1> QED
  BY <1>1, <1>2, <1>4, <1>6, FdMade

LEMMA FdAdopt ==
  ASSUME PrivInv, FdInv, NEW c \in Children, AdoptPipe(c) PROVE FdInv'
<1> DEFINE t == [table[c] EXCEPT ![PRIVSEP_FD] = [@ EXCEPT !.cloexec = TRUE]]
<1>1. /\ Calls(c, "cloexec") /\ Made(c)
      /\ table' = [table EXCEPT ![c][PRIVSEP_FD].cloexec = TRUE]
  BY DEF AdoptPipe
<1>2. pc[c] = "starting" /\ done[c] = 4
  BY <1>1, CallsAt DEF PrivInv, Setup, Position
<1>3. table[c] \in Tables /\ ChildTable(table[c], c, 4)
  BY <1>2, ChildrenProcs DEF FdInv, FdShape, ChildFd
<1>4. t \in Tables
  BY <1>3, NumbersNat DEF Tables
<1>5. /\ t[PRIVSEP_FD].file = table[c][PRIVSEP_FD].file
      /\ \A n \in Numbers \ {PRIVSEP_FD} : t[n] = table[c][n]
  BY <1>3, NumbersNat DEF Tables
<1>6. ChildTable(t, c, done[c] + 1)
  <2>1. Streams(t)
    BY <1>3, <1>5, NumbersNat DEF ChildTable, Streams
  <2>2. \A n \in Numbers : n > PRIVSEP_FD => n # PRIVSEP_FD
    BY NumbersNat
  <2> QED
    BY <1>2, <1>3, <1>5, <2>1, <2>2 DEF ChildTable
<1>7. table' = [table EXCEPT ![c] = t]
  BY <1>1
<1> HIDE DEF t
<1> QED
  BY <1>1, <1>2, <1>4, <1>6, <1>7, FdMade

\* A process has ended.
LEMMA FdEnds ==
  ASSUME PrivInv, FdInv, NEW p \in Procs, NEW how \in {"gone", "refused"}, Ends(p, how),
         p # 0 => watch' = watch,
         \A c \in Children \ {p} : done'[c] = done[c]
  PROVE  FdInv'
<1>1. /\ pc' = [pc EXCEPT ![p] = how] /\ table' = [table EXCEPT ![p] = NoTable]
      /\ handlers' = [handlers EXCEPT ![p] = {}]
  BY DEF Ends
<1>2. FdShape'
  <2>1. NoTable \in Tables
    BY NoDescIs DEF NoTable, Tables
  <2> QED
    BY <1>1, <2>1 DEF FdInv, FdShape
<1>3. ParentFd'
  <2>1. CASE p = 0
    BY <1>1, <2>1 DEF PrivInv, Shape, FdInv, FdShape, ParentFd
  <2>2. CASE p # 0
    <3>1. pc'[0] = pc[0] /\ table'[0] = table[0] /\ handlers'[0] = handlers[0]
      BY <1>1, <2>2, ChildrenProcs DEF PrivInv, Shape, FdInv, FdShape
    <3> QED
      BY <2>2, <3>1 DEF FdInv, ParentFd
  <2> QED
    BY <2>1, <2>2
<1>4. ASSUME NEW e \in Children PROVE ChildFd(e)'
  <2>1. CASE e = p
    <3>1. pc'[e] = how
      BY <1>1, <2>1 DEF PrivInv, Shape
    <3> QED
      BY <3>1 DEF ChildFd
  <2>2. CASE e # p
    <3>1. pc'[e] = pc[e] /\ done'[e] = done[e] /\ table'[e] = table[e]
      BY <1>1, <2>2, ChildrenProcs DEF PrivInv, Shape, FdInv, FdShape
    <3> QED
      BY <3>1 DEF FdInv, ChildFd
  <2> QED
    BY <2>1, <2>2
<1> QED
  BY <1>2, <1>3, <1>4 DEF FdInv

LEMMA FdPrivdrop ==
  ASSUME PrivInv, FdInv, NEW c \in Children, PrivdropCall(c) PROVE FdInv'
<1>1. PICK i \in 1..Len(Privdrop) :
        /\ Calls(c, Privdrop[i])
        /\ \/ /\ Ends(c, "refused")
              /\ UNCHANGED <<options, next, done, watch, rustLog>>
           \/ Made(c) /\ UNCHANGED <<table, rustLog>>
  BY DEF PrivdropCall
<1>2. Privdrop[i] \notin Setup
  BY DEF Privdrop, Setup
<1>3. pc[c] = "starting" /\ done[c] \in 5..10
  BY <1>1, <1>2, CallsAt DEF PrivInv
<1>4. c \in Procs /\ c # 0
  BY ChildrenProcs
<1>5. CASE Ends(c, "refused") /\ UNCHANGED <<options, next, done, watch, rustLog>>
  BY <1>4, <1>5, FdEnds
<1>6. CASE Made(c) /\ UNCHANGED <<table, rustLog>>
  <2>1. table[c] \in Tables /\ ChildTable(table[c], c, done[c])
    BY <1>3, <1>4 DEF FdInv, FdShape, ChildFd
  <2>2. ChildTable(table[c], c, done[c] + 1)
    BY <1>3, <2>1 DEF ChildTable
  <2>3. table' = [table EXCEPT ![c] = table[c]]
    BY <1>4, <1>6 DEF FdInv, FdShape
  <2> QED
    BY <1>3, <1>6, <2>1, <2>2, <2>3, FdMade
<1> QED
  BY <1>1, <1>5, <1>6

\* By the time execve can fail, the epoll instance is closed in the child, and dropping
\* the copies of the Handlers does not deregister anything.
LEMMA FdExecFails ==
  ASSUME PrivInv, FdInv, NEW c \in Children, ExecFails(c) PROVE FdInv'
<1> DEFINE t == [n \in Numbers |-> IF n \in handlers[c] THEN NoDesc ELSE table[c][n]]
<1>1. /\ Calls(c, "exec") /\ pc' = [pc EXCEPT ![c] = "escaped"]
      /\ table' = [table EXCEPT ![c] = t] /\ done' = done /\ handlers' = handlers
  BY DEF ExecFails
<1>2. pc[c] = "starting" /\ done[c] = 3
  BY <1>1, CallsAt DEF PrivInv, Setup, Position
<1>3. c \in Procs /\ c # 0 /\ 0 \in Procs /\ c \in Nat
  BY ChildrenProcs
<1>4. table[c] \in Tables /\ ChildTable(table[c], c, 3)
  BY <1>2, <1>3 DEF FdInv, FdShape, ChildFd
<1>5. EscapedTable(table[c])
  <2>1. Far(c) # Epoll
    BY <1>3, PipeFiles
  <2>2. Epoll \notin {Std, Null, Closed}
    BY DEF Epoll, Std, Null, Closed
  <2> QED
    BY <1>4, <2>1, <2>2, NumbersNat DEF ChildTable, Streams, EscapedTable
<1>6. watch' = watch
  BY <1>5 DEF ExecFails, Holds, EscapedTable
<1>7. t \in Tables /\ EscapedTable(t)
  <2>1. Closed # Epoll
    BY DEF Closed, Epoll
  <2> QED
    BY <1>4, <1>5, <2>1, NoDescIs DEF Tables, EscapedTable
<1> HIDE DEF t
<1>8. FdShape'
  BY <1>1, <1>7 DEF FdInv, FdShape
<1>9. ParentFd'
  <2>1. pc'[0] = pc[0] /\ table'[0] = table[0]
    BY <1>1, <1>3 DEF PrivInv, Shape, FdInv, FdShape
  <2> QED
    BY <1>1, <1>6, <2>1 DEF FdInv, ParentFd
<1>10. ASSUME NEW e \in Children PROVE ChildFd(e)'
  <2>1. CASE e = c
    <3>1. pc'[e] = "escaped" /\ table'[e] = t
      BY <1>1, <1>3, <2>1 DEF PrivInv, Shape, FdInv, FdShape
    <3> QED
      BY <1>7, <3>1 DEF ChildFd
  <2>2. CASE e # c
    <3>1. pc'[e] = pc[e] /\ done'[e] = done[e] /\ table'[e] = table[e]
      BY <1>1, <2>2, ChildrenProcs DEF PrivInv, Shape, FdInv, FdShape
    <3> QED
      BY <3>1 DEF FdInv, ChildFd
  <2> QED
    BY <2>1, <2>2
<1> QED
  BY <1>8, <1>9, <1>10 DEF FdInv

\* The parent goes on, and nothing changes but where it is.
LEMMA FdSame ==
  ASSUME PrivInv, FdInv, NEW how \in {"gone", "fork", "main"},
         pc[0] \in {"begin", "fork"}, pc' = [pc EXCEPT ![0] = how],
         UNCHANGED <<done, table, handlers, watch>>
  PROVE  FdInv'
<1>1. pc'[0] = how /\ \A e \in Children : pc'[e] = pc[e]
  BY ChildrenProcs DEF PrivInv, Shape
<1> QED
  BY <1>1 DEF FdInv, FdShape, ParentFd, ChildFd

\* The pair of a new child gets numbers that nothing else has.
LEMMA FdFork == ASSUME PrivInv, FdInv, Fork PROVE FdInv'
<1>1. PICK near \in Lowest(table[0]) :
        LET t == [table[0] EXCEPT ![near] = Desc(Near(next), TRUE)] IN
        \E far \in Lowest(t) :
          LET u == [t EXCEPT ![far] = Desc(Far(next), TRUE)]
              hs == handlers[0] \cup {near, far}
          IN /\ table' = [table EXCEPT ![0] = u, ![next] = u]
             /\ handlers' = [handlers EXCEPT ![0] = hs, ![next] = hs]
             /\ watch' = watch \cup {<<near, Near(next)>>, <<far, Far(next)>>}
  BY DEF Fork
<1> DEFINE t == [table[0] EXCEPT ![near] = Desc(Near(next), TRUE)]
<1>2. PICK far \in Lowest(t) :
        LET u == [t EXCEPT ![far] = Desc(Far(next), TRUE)]
            hs == handlers[0] \cup {near, far}
        IN /\ table' = [table EXCEPT ![0] = u, ![next] = u]
           /\ handlers' = [handlers EXCEPT ![0] = hs, ![next] = hs]
           /\ watch' = watch \cup {<<near, Near(next)>>, <<far, Far(next)>>}
  BY <1>1
<1> DEFINE u == [t EXCEPT ![far] = Desc(Far(next), TRUE)]
           hs == handlers[0] \cup {near, far}
<1>3. /\ pc[0] = "fork" /\ next <= NChildren /\ done' = done
      /\ pc' = [pc EXCEPT ![0] = "drop", ![next] = "starting"]
  BY DEF Fork, Iterating
<1>4. next \in Children /\ next \in Procs /\ next # 0 /\ next \in Nat /\ 0 \in Procs
  <2>1. next \in Children
    BY <1>3, StartupAssumption DEF PrivInv, Shape, Children
  <2> QED
    BY <2>1, ChildrenProcs
<1>5. table[0] \in Tables /\ Streams(table[0]) /\ handlers[0] \subseteq Numbers
  BY <1>3, <1>4 DEF FdInv, FdShape, ParentFd
<1>6. near \in Numbers /\ table[0][near].file = Closed
  BY DEF Lowest, IsOpen
<1>7. /\ Desc(Near(next), TRUE) \in [file : Nat, cloexec : BOOLEAN]
      /\ Desc(Far(next), TRUE) \in [file : Nat, cloexec : BOOLEAN]
      /\ Desc(Near(next), TRUE).file = Near(next) /\ Desc(Far(next), TRUE).file = Far(next)
      /\ Near(next) # Closed
  BY <1>4, PipeFiles DEF Desc
<1>8. t \in Tables /\ t[near].file = Near(next) /\ \A n \in Numbers \ {near} : t[n] = table[0][n]
  BY <1>5, <1>6, <1>7 DEF Tables
<1>9. far \in Numbers /\ t[far].file = Closed
  BY DEF Lowest, IsOpen
<1>10. near # far
  BY <1>7, <1>8, <1>9
<1>11. /\ u \in Tables /\ u[near].file = Near(next) /\ u[far].file = Far(next)
       /\ \A n \in Numbers \ {near, far} : u[n] = table[0][n]
  <2> HIDE DEF t
  <2> QED
    BY <1>6, <1>7, <1>8, <1>9, <1>10 DEF Tables
<1>12. near \notin Standard /\ far \notin Standard
  <2>1. Closed \notin {Std, Null}
    BY DEF Closed, Std, Null
  <2>2. near \notin Standard
    BY <1>5, <1>6, <2>1 DEF Streams
  <2>3. far \notin Standard
    <3> HIDE DEF t
    <3> QED
      BY <1>5, <1>8, <1>9, <1>10, <2>1 DEF Streams
  <2> QED
    BY <2>2, <2>3
<1>13. Streams(u)
  <2> HIDE DEF u
  <2> QED
    BY <1>5, <1>11, <1>12, NumbersNat DEF Streams
<1>14. /\ table' = [table EXCEPT ![0] = u, ![next] = u]
       /\ handlers' = [handlers EXCEPT ![0] = hs, ![next] = hs]
       /\ watch' = watch \cup {<<near, Near(next)>>, <<far, Far(next)>>}
  BY <1>2
<1>15. hs \subseteq Numbers
  BY <1>5, <1>6, <1>9
<1> HIDE DEF t, u
<1>16. FdShape'
  BY <1>4, <1>11, <1>14, <1>15 DEF FdInv, FdShape
<1>17. table'[0] = u /\ handlers'[0] = hs
  BY <1>4, <1>14 DEF FdInv, FdShape
<1>18. ParentFd'
  <2>1. ASSUME NEW n \in hs PROVE <<n, u[n].file>> \in watch'
    <3>1. CASE n \in {near, far}
      BY <1>11, <1>14, <3>1
    <3>2. CASE n \notin {near, far}
      <4>1. n \in handlers[0] /\ u[n] = table[0][n]
        BY <1>5, <1>11, <2>1, <3>2
      <4> QED
        BY <1>14, <4>1 DEF FdInv, ParentFd
    <3> QED
      BY <3>1, <3>2
  <2> QED
    BY <1>13, <1>17, <2>1 DEF ParentFd
<1>19. ASSUME NEW e \in Children PROVE ChildFd(e)'
  <2>1. CASE e = next
    <3>1. done'[e] = 0 /\ table'[e] = u /\ pc'[e] = "starting"
      BY <1>3, <1>4, <1>14, <2>1 DEF PrivInv, Shape, ParentPriv, Unborn, FdInv, FdShape
    <3> QED
      BY <1>13, <3>1 DEF ChildFd, ChildTable
  <2>2. CASE e # next
    <3>1. pc'[e] = pc[e] /\ done'[e] = done[e] /\ table'[e] = table[e]
      BY <1>3, <1>14, <2>2, ChildrenProcs DEF PrivInv, Shape, FdInv, FdShape
    <3> QED
      BY <3>1 DEF FdInv, ChildFd
  <2> QED
    BY <2>1, <2>2
<1> QED
  BY <1>16, <1>18, <1>19 DEF FdInv

LEMMA FdDropRemote == ASSUME PrivInv, FdInv, DropRemote PROVE FdInv'
<1> DEFINE t == [n \in Numbers |-> IF n \in Remote THEN NoDesc ELSE table[0][n]]
<1>1. /\ pc[0] = "drop" /\ pc' = [pc EXCEPT ![0] = "fork"] /\ done' = done
      /\ table' = [table EXCEPT ![0] = t]
      /\ handlers' = [handlers EXCEPT ![0] = @ \ Remote]
      /\ watch' = {w \in watch : w[1] \notin Remote}
  BY DEF DropRemote
<1>2. next \in Nat /\ next # 0 /\ 0 \in Procs
  BY ChildrenProcs DEF PrivInv, Shape
<1>3. table[0] \in Tables /\ Streams(table[0]) /\ handlers[0] \subseteq Numbers
  BY <1>1, <1>2 DEF FdInv, FdShape, ParentFd
<1>4. t \in Tables
  BY <1>3, NoDescIs DEF Tables
<1>5. Streams(t)
  <2>1. Far(next) \notin {Std, Null}
    BY <1>2, PipeFiles
  <2>2. \A n \in Standard : n \notin Remote
    BY <1>3, <2>1 DEF Streams, Remote
  <2> QED
    BY <1>3, <2>2, NumbersNat DEF Streams
<1>6. \A n \in handlers[0] \ Remote : t[n] = table[0][n]
  BY <1>3
<1> HIDE DEF t
<1>7. pc'[0] = "fork" /\ table'[0] = t /\ handlers'[0] = handlers[0] \ Remote
  BY <1>1, <1>2 DEF PrivInv, Shape, FdInv, FdShape
<1>8. FdShape'
  BY <1>1, <1>2, <1>3, <1>4 DEF FdInv, FdShape
<1>9. ParentFd'
  <2>1. ASSUME NEW n \in handlers[0] \ Remote PROVE <<n, t[n].file>> \in watch'
    <3>1. <<n, t[n].file>> \in watch
      BY <1>6 DEF FdInv, ParentFd
    <3> QED
      BY <1>1, <2>1, <3>1
  <2> QED
    BY <1>5, <1>7, <2>1 DEF ParentFd
<1>10. ASSUME NEW e \in Children PROVE ChildFd(e)'
  <2>1. pc'[e] = pc[e] /\ done'[e] = done[e] /\ table'[e] = table[e]
    BY <1>1, ChildrenProcs DEF PrivInv, Shape, FdInv, FdShape
  <2> QED
    BY <2>1 DEF FdInv, ChildFd
<1> QED
  BY <1>8, <1>9, <1>10 DEF FdInv

LEMMA FdAlways == Spec => []FdInv
<1>1. ASSUME PrivInv, FdInv, [Next]_vars PROVE FdInv'
  <2>1. CASE UNCHANGED vars
    BY <1>1, <2>1 DEF vars, FdInv, FdShape, ParentFd, ChildFd
  <2>2. CASE Begin
    <3>1. PICK how \in {"gone", "fork"} : pc' = [pc EXCEPT ![0] = how]
      BY <2>2 DEF Begin
    <3> QED
      BY <1>1, <2>2, <3>1, FdSame DEF Begin
  <2>3. CASE ForkDone
    BY <1>1, <2>3, FdSame DEF ForkDone
  <2>4. CASE ParentEnds
    BY <1>1, <2>4, FdEnds, ChildrenProcs DEF ParentEnds
  <2>5. ASSUME NEW c \in Children, ChildCall(c) PROVE FdInv'
    BY <1>1, <2>5, FdSession, FdDup, FdClose, FdExecve, FdExecFails, FdAdopt, FdPrivdrop
       DEF ChildCall
  <2>6. ASSUME NEW c \in Children, ChildEnds(c) PROVE FdInv'
    <3>1. /\ Ends(c, "gone") /\ done' = [done EXCEPT ![c] = 0] /\ watch' = watch
      BY <2>6 DEF ChildEnds
    <3>2. \A e \in Children \ {c} : done'[e] = done[e]
      BY <1>1, <3>1 DEF PrivInv, Shape
    <3> QED
      BY <1>1, <3>1, <3>2, FdEnds, ChildrenProcs
  <2> QED
    BY <1>1, <2>1, <2>2, <2>3, <2>4, <2>5, <2>6, FdFork, FdDropRemote DEF Next
<1> QED
  BY <1>1, FdInit, PrivAlways, PTL DEF Spec

\* The new program of a child has its standard streams and its own half of its own pipe
\* and nothing else, whatever the parent had open.
THEOREM OnlyPipeCorrect == Spec => []OnlyPipe
<1>1. FdInv /\ PrivInv => OnlyPipe
  <2> SUFFICES ASSUME FdInv, PrivInv, NEW c \in Children
               PROVE  LET open == {n \in Numbers : IsOpen(table[c], n)} IN
                 /\ pc[c] \in {"starting", "waiting"} /\ Executed(c) =>
                      /\ open = 0..PRIVSEP_FD /\ table[c][PRIVSEP_FD].file = Far(c)
                      /\ \A n \in Standard : table[c][n].file \in {Std, Null}
                 /\ pc[c] = "escaped" => open \subseteq 0..PRIVSEP_FD /\ ~Holds(c, Epoll)
    BY DEF OnlyPipe
  <2> DEFINE open == {n \in Numbers : IsOpen(table[c], n)}
  <2>1. \A n \in Numbers : n \in 0..PRIVSEP_FD <=> n \in Standard \/ n = PRIVSEP_FD
    BY NumbersNat DEF Standard, PRIVSEP_FD
  <2>2. 0..PRIVSEP_FD \subseteq Numbers
    BY StartupAssumption DEF PRIVSEP_FD
  <2>3. ASSUME pc[c] \in {"starting", "waiting"}, Executed(c)
        PROVE  /\ open = 0..PRIVSEP_FD /\ table[c][PRIVSEP_FD].file = Far(c)
               /\ \A n \in Standard : table[c][n].file \in {Std, Null}
    <3>1. done[c] \in Nat /\ done[c] >= 4
      BY <2>3 DEF PrivInv, Shape, Executed
    <3>2. /\ Streams(table[c]) /\ table[c][PRIVSEP_FD].file = Far(c)
          /\ \A n \in Numbers : n > PRIVSEP_FD => table[c][n].file = Closed
      BY <2>3, <3>1 DEF FdInv, ChildFd, ChildTable
    <3>3. Far(c) # Closed /\ Closed \notin {Std, Null}
      <4>1. Closed \notin {Std, Null}
        BY DEF Closed, Std, Null
      <4> QED
        BY <4>1, ChildrenProcs, PipeFiles
    <3>4. \A n \in Numbers : IsOpen(table[c], n) <=> n \in Standard \/ n = PRIVSEP_FD
      BY <3>2, <3>3, NumbersNat DEF IsOpen, Streams
    <3> QED
      BY <2>1, <2>2, <3>2, <3>4 DEF Streams
  <2>4. ASSUME pc[c] = "escaped"
        PROVE  open \subseteq 0..PRIVSEP_FD /\ ~Holds(c, Epoll)
    <3>1. EscapedTable(table[c])
      BY <2>4 DEF FdInv, ChildFd
    <3> QED
      BY <2>1, <3>1, NumbersNat DEF EscapedTable, IsOpen, Holds
  <2> QED
    BY <2>3, <2>4
<1> QED
  BY <1>1, FdAlways, PrivAlways, PTL

\* The parent's Handlers stay registered with its runtime, whatever its children do.
THEOREM ParentAwakeCorrect == Spec => []ParentAwake
<1>1. FdInv => ParentAwake
  BY DEF FdInv, ParentFd, ParentAwake
<1> QED
  BY <1>1, FdAlways, PTL

-----------------------------------------------------------------------------
(* Types.  The parent forks no child after the last one, so that every pipe  *)
(* has a number of its own.                                                  *)

Files == 0..Far(NChildren)

\* How far the parent has come in its loop.
LoopInv == pc[0] = "drop" => next <= NChildren

TypeInv == TypeOK /\ LoopInv

LEMMA FilesOf ==
  /\ {Closed, Std, Null, Epoll, Library} \subseteq Files
  /\ \A c \in Children : Near(c) \in Files /\ Far(c) \in Files
BY StartupAssumption
DEF Files, Closed, Std, Null, Epoll, Library, Near, Far, Children

LEMMA DescType ==
  ASSUME NEW f \in Files, NEW b \in BOOLEAN
  PROVE  Desc(f, b) \in [file : Files, cloexec : BOOLEAN]
BY DEF Desc

LEMMA NoDescType == NoDesc \in [file : Files, cloexec : BOOLEAN]
BY DescType, FilesOf DEF NoDesc

\* Descriptors of one process.
FdTables == [Numbers -> [file : Files, cloexec : BOOLEAN]]

LEMMA NoTableType == NoTable \in FdTables
BY NoDescType DEF NoTable, FdTables

ParentStates == {"begin", "fork", "drop", "main", "gone"}
ChildStates == {"unborn", "starting", "waiting", "escaped", "refused", "gone"}

LEMMA TypeInit == Init => TypeInv
<1> SUFFICES ASSUME Init PROVE TypeInv
  OBVIOUS
<1>1. PICK lib \in [3..4 -> {NoDesc, Desc(Library, FALSE)}], epoll \in 3..5 :
        table = [p \in Procs |->
            IF p # 0 THEN NoTable
            ELSE [n \in Numbers |-> IF n \in Standard THEN Desc(Std, FALSE)
                                    ELSE IF n = epoll THEN Desc(Epoll, TRUE)
                                    ELSE IF n \in 3..4 THEN lib[n] ELSE NoDesc]]
  BY DEF Init
<1>2. /\ pc = [p \in Procs |-> IF p = 0 THEN "begin" ELSE "unborn"]
      /\ next = 1 /\ done = [c \in Children |-> 0]
      /\ handlers = [p \in Procs |-> {}] /\ watch = {}
  BY DEF Init
<1>3. table \in [Procs -> FdTables]
  <2> DEFINE T == [file : Files, cloexec : BOOLEAN]
             std == Desc(Std, FALSE)
             ep == Desc(Epoll, TRUE)
             li == Desc(Library, FALSE)
             no == NoDesc
  <2>1. std \in T /\ ep \in T /\ li \in T /\ no \in T
    BY FilesOf, DescType, NoDescType
  <2> HIDE DEF T, std, ep, li, no
  <2>2. \A n \in 3..4 : lib[n] \in T
    BY <2>1 DEF li, no
  <2>3. [n \in Numbers |-> IF n \in Standard THEN std ELSE IF n = epoll THEN ep
                           ELSE IF n \in 3..4 THEN lib[n] ELSE no] \in [Numbers -> T]
    BY <2>1, <2>2
  <2> DEFINE first == [n \in Numbers |-> IF n \in Standard THEN std ELSE IF n = epoll THEN ep
                                         ELSE IF n \in 3..4 THEN lib[n] ELSE no]
  <2>4. first \in FdTables
    BY <2>3 DEF FdTables, T
  <2>5. table = [p \in Procs |-> IF p # 0 THEN NoTable ELSE first]
    BY <1>1 DEF std, ep, no
  <2> HIDE DEF first
  <2> QED
    BY <2>4, <2>5, NoTableType
<1>4. cred \in [Procs -> Fields]
  BY PrivInit DEF PrivInv, Shape
<1>5. 0 \in 0..Len(ChildPlan) /\ next \in 1..(NChildren + 1)
  BY <1>2, Plan, StartupAssumption DEF Init
<1>6. pc[0] = "begin" /\ \A c \in Children : pc[c] = "unborn"
  BY <1>2, ChildrenProcs
<1> QED
  BY <1>2, <1>3, <1>4, <1>5, <1>6 DEF TypeInv, TypeOK, LoopInv, FdTables, Files

\* All there is to show of a step that does not touch the options.
LEMMA TypeParts ==
  ASSUME options' = options, PrivInv', LoopInv',
         pc'[0] \in ParentStates, \A c \in Children : pc'[c] \in ChildStates,
         next' \in 1..(NChildren + 1),
         done' \in [Children -> 0..Len(ChildPlan)],
         table' \in [Procs -> FdTables], handlers' \in [Procs -> SUBSET Numbers],
         watch' \subseteq Numbers \X Files
  PROVE  TypeInv'
<1>1. ChildPlan' = ChildPlan
  BY DEF ChildPlan
<1>2. cred' \in [Procs -> Fields]
  BY DEF PrivInv, Shape
<1> QED
  BY <1>1, <1>2
  DEF TypeInv, TypeOK, LoopInv, ParentStates, ChildStates, FdTables, Files

\* What TypeInv says, in the terms of these proofs.
LEMMA TypeHas ==
  ASSUME TypeInv
  PROVE  /\ pc[0] \in ParentStates /\ \A c \in Children : pc[c] \in ChildStates
         /\ next \in 1..(NChildren + 1) /\ (pc[0] = "drop" => next <= NChildren)
         /\ done \in [Children -> 0..Len(ChildPlan)]
         /\ table \in [Procs -> FdTables] /\ handlers \in [Procs -> SUBSET Numbers]
         /\ watch \subseteq Numbers \X Files
BY DEF TypeInv, TypeOK, LoopInv, ParentStates, ChildStates, FdTables, Files

\* A child has made a call.
LEMMA TypeMade ==
  ASSUME PrivInv, TypeInv, PrivInv', NEW c \in Children, pc[c] = "starting",
         done[c] < Len(ChildPlan), Made(c), table' \in [Procs -> FdTables]
  PROVE  TypeInv'
<1>1. /\ done' = [done EXCEPT ![c] = @ + 1]
      /\ pc' = [pc EXCEPT ![c] = IF done[c] + 1 = Len(ChildPlan) THEN "waiting" ELSE @]
      /\ UNCHANGED <<options, next, handlers, watch>>
  BY DEF Made
<1>2. c \in Procs /\ c # 0
  BY ChildrenProcs
<1>3. done' \in [Children -> 0..Len(ChildPlan)]
  <2>1. Len(ChildPlan) \in Nat
    BY Plan DEF PrivInv, Shape
  <2>2. done \in [Children -> 0..Len(ChildPlan)]
    BY TypeHas
  <2>3. done[c] + 1 \in 0..Len(ChildPlan)
    BY <2>1, <2>2
  <2> QED
    BY <1>1, <2>2, <2>3
<1>4. pc'[0] = pc[0] /\ \A e \in Children : pc'[e] \in ChildStates
  <2>1. pc \in [Procs -> States]
    BY DEF PrivInv, Shape
  <2>2. ASSUME NEW e \in Children PROVE pc'[e] \in ChildStates
    <3>1. pc[e] \in ChildStates /\ e \in Procs
      BY TypeHas, ChildrenProcs
    <3> QED
      BY <1>1, <2>1, <3>1 DEF ChildStates
  <2> QED
    BY <1>1, <1>2, <2>1, <2>2
<1>5. LoopInv'
  BY <1>1, <1>4 DEF TypeInv, LoopInv
<1> QED
  BY <1>1, <1>3, <1>4, <1>5, TypeHas, TypeParts

\* A process is gone.
LEMMA TypeEnds ==
  ASSUME PrivInv, TypeInv, PrivInv', NEW p \in Procs, NEW how \in {"gone", "refused"},
         p = 0 => how = "gone", Ends(p, how), UNCHANGED <<options, next>>,
         watch' \subseteq watch, done' \in [Children -> 0..Len(ChildPlan)]
  PROVE  TypeInv'
<1>1. /\ pc' = [pc EXCEPT ![p] = how] /\ table' = [table EXCEPT ![p] = NoTable]
      /\ handlers' = [handlers EXCEPT ![p] = {}]
  BY DEF Ends
<1>2. pc \in [Procs -> States]
  BY DEF PrivInv, Shape
<1>3. pc'[0] \in ParentStates /\ (pc'[0] = "drop" => pc[0] = "drop")
  BY <1>1, <1>2, TypeHas, ChildrenProcs DEF ParentStates
<1>4. ASSUME NEW c \in Children PROVE pc'[c] \in ChildStates
  <2>1. pc[c] \in ChildStates /\ c \in Procs
    BY TypeHas, ChildrenProcs
  <2> QED
    BY <1>1, <1>2, <2>1 DEF ChildStates
<1>5. table' \in [Procs -> FdTables] /\ handlers' \in [Procs -> SUBSET Numbers]
  BY <1>1, TypeHas, NoTableType
<1>6. LoopInv'
  BY <1>3 DEF TypeInv, LoopInv
<1> QED
  BY <1>3, <1>4, <1>5, <1>6, TypeHas, TypeParts

\* The descriptors after each call of a child.
LEMMA TypeTables ==
  ASSUME NEW t \in FdTables, NEW c \in Children, NEW f \in {Std, Null}
  PROVE  /\ [n \in Numbers |-> IF n \in Standard THEN Desc(f, FALSE) ELSE t[n]] \in FdTables
         /\ [t EXCEPT ![PRIVSEP_FD] = Desc(Far(c), FALSE)] \in FdTables
         /\ [t EXCEPT ![PRIVSEP_FD].cloexec = TRUE] \in FdTables
         /\ CloseOpenFds(t) \in FdTables
         /\ Exec(t) \in FdTables
<1> DEFINE T == [file : Files, cloexec : BOOLEAN]
<1>1. f \in Files /\ Far(c) \in Files
  BY FilesOf
<1>2. Desc(f, FALSE) \in T /\ Desc(Far(c), FALSE) \in T /\ NoDesc \in T
  BY <1>1, DescType, NoDescType
<1>3. PRIVSEP_FD \in Numbers /\ t \in [Numbers -> T]
  BY NumbersNat DEF FdTables
<1>4. [t[PRIVSEP_FD] EXCEPT !.cloexec = TRUE] \in T
  BY <1>3
<1>5. [t EXCEPT ![PRIVSEP_FD].cloexec = TRUE]
        = [t EXCEPT ![PRIVSEP_FD] = [t[PRIVSEP_FD] EXCEPT !.cloexec = TRUE]]
  BY <1>3
<1> HIDE DEF T
<1>6. [n \in Numbers |-> IF n \in Standard THEN Desc(f, FALSE) ELSE t[n]] \in [Numbers -> T]
  BY <1>2, <1>3
<1>7. [t EXCEPT ![PRIVSEP_FD] = Desc(Far(c), FALSE)] \in [Numbers -> T]
  BY <1>2, <1>3
<1>8. [t EXCEPT ![PRIVSEP_FD].cloexec = TRUE] \in [Numbers -> T]
  BY <1>3, <1>4, <1>5
<1>9. CloseOpenFds(t) \in [Numbers -> T]
  BY <1>2, <1>3 DEF CloseOpenFds, CloseFrom
<1>10. Exec(t) \in [Numbers -> T]
  BY <1>2, <1>3 DEF Exec
<1> QED
  BY <1>6, <1>7, <1>8, <1>9, <1>10 DEF FdTables, T

LEMMA TypeCall ==
  ASSUME PrivInv, TypeInv, PrivInv', NEW c \in Children, ChildCall(c)
  PROVE  TypeInv'
<1>1. c \in Procs /\ c # 0 /\ table \in [Procs -> FdTables] /\ table[c] \in FdTables
  BY TypeHas, ChildrenProcs
<1>2. ASSUME NEW t \in FdTables, table' = [table EXCEPT ![c] = t]
      PROVE  table' \in [Procs -> FdTables]
  BY <1>1, <1>2
<1>3. ASSUME NEW call, Calls(c, call), Made(c), table' \in [Procs -> FdTables]
      PROVE  TypeInv'
  BY <1>3, TypeMade DEF Calls
<1>4. CASE NewSession(c)
  <2>1. PICK f \in {Std, Null} : table' = [table EXCEPT ![c] =
          [n \in Numbers |-> IF n \in Standard THEN Desc(f, FALSE) ELSE table[c][n]]]
    BY <1>4 DEF NewSession
  <2>2. table' \in [Procs -> FdTables]
    BY <1>1, <1>2, <2>1, TypeTables
  <2> QED
    BY <1>3, <1>4, <2>2 DEF NewSession
<1>5. CASE DupRemote(c)
  <2>1. table' = [table EXCEPT ![c] = [table[c] EXCEPT ![PRIVSEP_FD] = Desc(Far(c), FALSE)]]
    BY <1>1, <1>5 DEF DupRemote
  <2>2. table' \in [Procs -> FdTables]
    BY <1>1, <1>2, <2>1, TypeTables
  <2> QED
    BY <1>3, <1>5, <2>2 DEF DupRemote
<1>6. CASE CloseRest(c)
  <2>1. table' = [table EXCEPT ![c] = CloseOpenFds(table[c])]
    BY <1>1, <1>6 DEF CloseRest
  <2>2. table' \in [Procs -> FdTables]
    BY <1>1, <1>2, <2>1, TypeTables
  <2> QED
    BY <1>3, <1>6, <2>2 DEF CloseRest
<1>7. CASE Execve(c)
  <2>1. table' = [table EXCEPT ![c] = Exec(table[c])]
    BY <1>1, <1>7 DEF Execve
  <2>2. table' \in [Procs -> FdTables]
    BY <1>1, <1>2, <2>1, TypeTables
  <2> QED
    BY <1>3, <1>7, <2>2 DEF Execve
<1>8. CASE AdoptPipe(c)
  <2>1. table' = [table EXCEPT ![c] = [table[c] EXCEPT ![PRIVSEP_FD].cloexec = TRUE]]
    BY <1>1, <1>8 DEF AdoptPipe
  <2>2. table' \in [Procs -> FdTables]
    BY <1>1, <1>2, <2>1, TypeTables
  <2> QED
    BY <1>3, <1>8, <2>2 DEF AdoptPipe
<1>9. CASE PrivdropCall(c)
  <2>1. PICK call : /\ Calls(c, call)
                    /\ \/ Ends(c, "refused") /\ UNCHANGED <<options, next, done, watch>>
                       \/ Made(c) /\ UNCHANGED table
    BY <1>9 DEF PrivdropCall
  <2>2. CASE Ends(c, "refused") /\ UNCHANGED <<options, next, done, watch>>
    BY <1>1, <2>2, TypeHas, TypeEnds
  <2>3. CASE Made(c) /\ UNCHANGED table
    BY <1>1, <1>3, <2>1, <2>3
  <2> QED
    BY <2>1, <2>2, <2>3
<1>10. CASE ExecFails(c)
  <2>1. /\ pc' = [pc EXCEPT ![c] = "escaped"]
        /\ watch' \subseteq watch
        /\ table' = [table EXCEPT ![c] =
             [n \in Numbers |-> IF n \in handlers[c] THEN NoDesc ELSE table[c][n]]]
        /\ UNCHANGED <<options, next, done, handlers>>
    BY <1>10 DEF ExecFails
  <2>2. [n \in Numbers |-> IF n \in handlers[c] THEN NoDesc ELSE table[c][n]] \in FdTables
    BY <1>1, NoDescType DEF FdTables
  <2>3. table' \in [Procs -> FdTables]
    BY <1>2, <2>1, <2>2
  <2>4. pc'[0] = pc[0]
    BY <1>1, <2>1 DEF PrivInv, Shape
  <2>5. ASSUME NEW e \in Children PROVE pc'[e] \in ChildStates
    <3>1. pc[e] \in ChildStates /\ e \in Procs /\ pc \in [Procs -> States]
      BY TypeHas, ChildrenProcs DEF PrivInv, Shape
    <3> QED
      BY <2>1, <3>1 DEF ChildStates
  <2>6. LoopInv'
    BY <2>1, <2>4 DEF TypeInv, LoopInv
  <2> QED
    BY <2>1, <2>3, <2>4, <2>5, <2>6, TypeHas, TypeParts
<1> QED
  BY <1>4, <1>5, <1>6, <1>7, <1>8, <1>9, <1>10 DEF ChildCall

LEMMA TypeFork ==
  ASSUME PrivInv, TypeInv, PrivInv', Fork
  PROVE  TypeInv'
<1>1. PICK near \in Lowest(table[0]) :
        LET t == [table[0] EXCEPT ![near] = Desc(Near(next), TRUE)] IN
        \E far \in Lowest(t) :
          LET u == [t EXCEPT ![far] = Desc(Far(next), TRUE)]
              hs == handlers[0] \cup {near, far}
          IN /\ table' = [table EXCEPT ![0] = u, ![next] = u]
             /\ handlers' = [handlers EXCEPT ![0] = hs, ![next] = hs]
             /\ watch' = watch \cup {<<near, Near(next)>>, <<far, Far(next)>>}
  BY DEF Fork
<1> DEFINE t == [table[0] EXCEPT ![near] = Desc(Near(next), TRUE)]
<1>2. PICK far \in Lowest(t) :
        LET u == [t EXCEPT ![far] = Desc(Far(next), TRUE)]
            hs == handlers[0] \cup {near, far}
        IN /\ table' = [table EXCEPT ![0] = u, ![next] = u]
           /\ handlers' = [handlers EXCEPT ![0] = hs, ![next] = hs]
           /\ watch' = watch \cup {<<near, Near(next)>>, <<far, Far(next)>>}
  BY <1>1
<1> DEFINE u == [t EXCEPT ![far] = Desc(Far(next), TRUE)]
           hs == handlers[0] \cup {near, far}
<1>3. /\ pc[0] = "fork" /\ next <= NChildren
      /\ pc' = [pc EXCEPT ![0] = "drop", ![next] = "starting"]
      /\ UNCHANGED <<options, next, done>>
  BY DEF Fork, Iterating
<1>4. next \in Children /\ next \in Procs /\ 0 \in Procs /\ next # 0
  <2>1. next \in Children
    BY <1>3, TypeHas DEF Children
  <2> QED
    BY <2>1, ChildrenProcs
<1>5. /\ table[0] \in FdTables /\ handlers[0] \subseteq Numbers
      /\ near \in Numbers /\ far \in Numbers
  BY <1>4, TypeHas DEF Lowest
<1>6. Near(next) \in Files /\ Far(next) \in Files
  BY <1>4, FilesOf
<1>7. /\ Desc(Near(next), TRUE) \in [file : Files, cloexec : BOOLEAN]
      /\ Desc(Far(next), TRUE) \in [file : Files, cloexec : BOOLEAN]
  BY <1>6, DescType
<1>8. t \in FdTables
  BY <1>5, <1>7 DEF FdTables
<1>9. u \in FdTables
  <2> HIDE DEF t
  <2> QED
    BY <1>5, <1>7, <1>8 DEF FdTables
<1>10. /\ table' = [table EXCEPT ![0] = u, ![next] = u]
       /\ handlers' = [handlers EXCEPT ![0] = hs, ![next] = hs]
       /\ watch' = watch \cup {<<near, Near(next)>>, <<far, Far(next)>>}
  BY <1>2
<1> HIDE DEF t, u
<1>11. table' \in [Procs -> FdTables] /\ handlers' \in [Procs -> SUBSET Numbers]
  BY <1>4, <1>5, <1>9, <1>10, TypeHas
<1>12. watch' \subseteq Numbers \X Files
  BY <1>5, <1>6, <1>10, TypeHas
<1>13. pc'[0] = "drop"
  BY <1>3, <1>4 DEF PrivInv, Shape
<1>14. ASSUME NEW c \in Children PROVE pc'[c] \in ChildStates
  <2>1. pc[c] \in ChildStates /\ c \in Procs /\ c # 0 /\ pc \in [Procs -> States]
    BY TypeHas, ChildrenProcs DEF PrivInv, Shape
  <2> QED
    BY <1>3, <2>1 DEF ChildStates
<1>15. LoopInv'
  BY <1>3 DEF LoopInv
<1> QED
  BY <1>3, <1>11, <1>12, <1>13, <1>14, <1>15, TypeHas, TypeParts DEF ParentStates

LEMMA TypeDropRemote ==
  ASSUME PrivInv, TypeInv, PrivInv', DropRemote
  PROVE  TypeInv'
<1> DEFINE t == [n \in Numbers |-> IF n \in Remote THEN NoDesc ELSE table[0][n]]
<1>1. /\ pc[0] = "drop" /\ pc' = [pc EXCEPT ![0] = "fork"] /\ next' = next + 1
      /\ table' = [table EXCEPT ![0] = t]
      /\ handlers' = [handlers EXCEPT ![0] = @ \ Remote]
      /\ watch' \subseteq watch /\ UNCHANGED <<options, done>>
  BY DEF DropRemote
<1>2. 0 \in Procs /\ table[0] \in FdTables /\ handlers[0] \subseteq Numbers
  BY ChildrenProcs, TypeHas
<1>3. t \in FdTables
  BY <1>2, NoDescType DEF FdTables
<1> HIDE DEF t
<1>4. table' \in [Procs -> FdTables] /\ handlers' \in [Procs -> SUBSET Numbers]
  BY <1>1, <1>2, <1>3, TypeHas
<1>5. pc'[0] = "fork"
  BY <1>1, <1>2 DEF PrivInv, Shape
<1>6. ASSUME NEW c \in Children PROVE pc'[c] \in ChildStates
  BY <1>1, TypeHas, ChildrenProcs DEF PrivInv, Shape
<1>7. next' \in 1..(NChildren + 1)
  BY <1>1, TypeHas, StartupAssumption
<1>8. LoopInv'
  BY <1>5 DEF LoopInv
<1> QED
  BY <1>1, <1>4, <1>5, <1>6, <1>7, <1>8, TypeHas, TypeParts DEF ParentStates

LEMMA TypeStep ==
  ASSUME PrivInv, TypeInv, PrivInv', [Next]_vars
  PROVE  TypeInv'
<1>1. CASE UNCHANGED vars
  BY <1>1 DEF vars, TypeInv, TypeOK, LoopInv, ChildPlan
<1>2. CASE Begin \/ ForkDone
  <2>1. PICK how \in {"gone", "fork", "main"} :
          pc' = [pc EXCEPT ![0] = how] /\ UNCHANGED <<options, next, done, table, handlers, watch>>
    BY <1>2 DEF Begin, ForkDone
  <2>2. pc'[0] = how /\ \A c \in Children : pc'[c] = pc[c]
    BY <2>1, ChildrenProcs DEF PrivInv, Shape
  <2>3. LoopInv'
    BY <2>2 DEF LoopInv
  <2> QED
    BY <2>1, <2>2, <2>3, TypeHas, TypeParts DEF ParentStates
<1>3. CASE ParentEnds
  <2>1. Ends(0, "gone") /\ watch' = {} /\ UNCHANGED <<options, next, done>>
    BY <1>3 DEF ParentEnds
  <2> QED
    BY <2>1, TypeHas, TypeEnds, ChildrenProcs
<1>4. ASSUME NEW c \in Children, ChildEnds(c) PROVE TypeInv'
  <2>1. Ends(c, "gone") /\ done' = [done EXCEPT ![c] = 0] /\ UNCHANGED <<options, next, watch>>
    BY <1>4 DEF ChildEnds
  <2>2. done' \in [Children -> 0..Len(ChildPlan)]
    BY <2>1, TypeHas, Plan DEF PrivInv, Shape
  <2> QED
    BY <2>1, <2>2, TypeEnds, ChildrenProcs
<1> QED
  BY <1>1, <1>2, <1>3, <1>4, TypeFork, TypeDropRemote, TypeCall DEF Next

\* Every state is well typed: the parent's loop ends in time, no child makes more calls
\* than its plan has, and no descriptor is of a file that there is not.
THEOREM TypeCorrect == Spec => []TypeOK
<1>1. PrivInv /\ PrivInv' /\ TypeInv /\ [Next]_vars => TypeInv'
  BY TypeStep
<1>2. TypeInv => TypeOK
  BY DEF TypeInv
<1> QED
  BY <1>1, <1>2, TypeInit, PrivAlways, PTL DEF Spec

-----------------------------------------------------------------------------
(* Logging.  The new program of a child has the RUST_LOG that the parent has *)
(* passed on, which is never empty.                                          *)

\* The environment of each child that has got as far as execve.
LogInv ==
  /\ DOMAIN rustLog = Procs
  /\ \A c \in Children :
       pc[c] \in {"starting", "waiting"} /\ done[c] >= 4 => rustLog[c] = PassedOn

LEMMA LogInit == Init => LogInv
<1> SUFFICES ASSUME Init PROVE LogInv
  OBVIOUS
<1>1. DOMAIN rustLog = Procs
  BY DEF Init
<1>2. \A c \in Children : pc[c] = "unborn"
  BY ChildrenProcs DEF Init
<1> QED
  BY <1>1, <1>2 DEF LogInv

\* Only execve changes the environment, and only that of its own process.
LEMMA LogStep ==
  ASSUME PrivInv, LogInv, [Next]_vars
  PROVE  LogInv'
<1>1. /\ pc \in [Procs -> States] /\ done \in [Children -> Nat]
      /\ Children \subseteq Procs \ {0} /\ 0 \in Procs
  BY ChildrenProcs DEF PrivInv, Shape
<1>2. ASSUME UNCHANGED <<rustLog, options>>,
             \A e \in Children :
               \/ pc'[e] \notin {"starting", "waiting"}
               \/ done'[e] = 0
               \/ pc[e] \in {"starting", "waiting"} /\ done'[e] = done[e]
      PROVE  LogInv'
  BY <1>2 DEF LogInv, PassedOn, Or
<1>3. CASE UNCHANGED vars
  BY <1>2, <1>3 DEF vars
<1>4. CASE Begin \/ ForkDone \/ ParentEnds \/ DropRemote
  <2>1. PICK how : pc' = [pc EXCEPT ![0] = how] /\ UNCHANGED <<rustLog, options, done>>
    BY <1>4 DEF Begin, ForkDone, ParentEnds, DropRemote, Ends
  <2> QED
    BY <1>1, <1>2, <2>1
<1>5. CASE Fork
  <2>1. /\ pc' = [pc EXCEPT ![0] = "drop", ![next] = "starting"]
        /\ UNCHANGED <<rustLog, options, done>> /\ pc[0] = "fork" /\ next <= NChildren
    BY <1>5 DEF Fork, Iterating
  <2>2. next \in Children /\ done[next] = 0
    BY <2>1, StartupAssumption DEF PrivInv, Shape, ParentPriv, Unborn, Children
  <2> QED
    BY <1>1, <1>2, <2>1, <2>2
<1>6. ASSUME NEW c \in Children, ChildEnds(c) PROVE LogInv'
  <2>1. /\ pc' = [pc EXCEPT ![c] = "gone"] /\ done' = [done EXCEPT ![c] = 0]
        /\ UNCHANGED <<rustLog, options>>
    BY <1>6 DEF ChildEnds, Ends
  <2> QED
    BY <1>1, <1>2, <2>1
<1>7. ASSUME NEW c \in Children, Execve(c) PROVE LogInv'
  <2>1. /\ rustLog' = [rustLog EXCEPT ![c] = PassedOn]
        /\ pc[c] = "starting" /\ done' = [done EXCEPT ![c] = @ + 1]
        /\ pc' = [pc EXCEPT ![c] = IF done[c] + 1 = Len(ChildPlan) THEN "waiting" ELSE @]
        /\ UNCHANGED options
    BY <1>7 DEF Execve, Calls, Made
  <2>2. PassedOn' = PassedOn
    <3>1. rustLog'[0] = rustLog[0]
      BY <1>1, <2>1 DEF LogInv
    <3> QED
      BY <2>1, <3>1 DEF PassedOn
  <2>3. \A e \in Children \ {c} : /\ rustLog'[e] = rustLog[e] /\ pc'[e] = pc[e]
                                  /\ done'[e] = done[e]
    BY <1>1, <2>1 DEF LogInv
  <2>4. rustLog'[c] = PassedOn
    BY <1>1, <2>1 DEF LogInv
  <2>5. DOMAIN rustLog' = Procs
    BY <2>1 DEF LogInv
  <2> QED
    BY <2>2, <2>3, <2>4, <2>5 DEF LogInv
<1>8. ASSUME NEW c \in Children,
             \/ NewSession(c) \/ DupRemote(c) \/ CloseRest(c) \/ AdoptPipe(c) \/ PrivdropCall(c)
      PROVE  LogInv'
  <2>1. PICK call : Calls(c, call) /\ call # "exec" /\ UNCHANGED <<rustLog, options>>
                    /\ (Made(c) \/ (Ends(c, "refused") /\ UNCHANGED done))
    <3>1. \A i \in 1..Len(Privdrop) : Privdrop[i] # "exec"
      BY DEF Privdrop
    <3>2. UNCHANGED options
      BY <1>8 DEF NewSession, DupRemote, CloseRest, AdoptPipe, PrivdropCall, Made
    <3>3. CASE NewSession(c)
      BY <3>2, <3>3 DEF NewSession
    <3>4. CASE DupRemote(c)
      BY <3>2, <3>4 DEF DupRemote
    <3>5. CASE CloseRest(c)
      BY <3>2, <3>5 DEF CloseRest
    <3>6. CASE AdoptPipe(c)
      BY <3>2, <3>6 DEF AdoptPipe
    <3>7. CASE PrivdropCall(c)
      <4>1. PICK call \in {Privdrop[i] : i \in 1..Len(Privdrop)} :
              /\ Calls(c, call) /\ UNCHANGED rustLog
              /\ Made(c) \/ (Ends(c, "refused") /\ UNCHANGED done)
        BY <3>7 DEF PrivdropCall
      <4> QED
        BY <3>1, <3>2, <4>1
    <3> QED
      BY <1>8, <3>3, <3>4, <3>5, <3>6, <3>7
  <2>2. pc[c] = "starting" /\ done[c] # 3
    BY <1>1, <2>1, Plan DEF Calls, SetupPlan
  <2>3. CASE Made(c)
    <3>1. /\ done' = [done EXCEPT ![c] = @ + 1]
          /\ \A e \in Children \ {c} : pc'[e] = pc[e]
      BY <1>1, <2>3 DEF Made
    <3>2. done'[c] >= 4 => done[c] >= 4
      BY <1>1, <2>2, <3>1
    <3>3. rustLog'[0] = rustLog[0] /\ PassedOn' = PassedOn
      BY <2>1 DEF PassedOn
    <3>4. \A e \in Children \ {c} : done'[e] = done[e]
      BY <1>1, <3>1
    <3> QED
      BY <2>1, <2>2, <3>1, <3>2, <3>3, <3>4 DEF LogInv
  <2>4. CASE Ends(c, "refused") /\ UNCHANGED done
    BY <1>1, <1>2, <2>1, <2>4 DEF Ends
  <2> QED
    BY <2>1, <2>3, <2>4
<1>9. ASSUME NEW c \in Children, ExecFails(c) PROVE LogInv'
  <2>1. pc' = [pc EXCEPT ![c] = "escaped"] /\ UNCHANGED <<rustLog, options, done>>
    BY <1>9 DEF ExecFails
  <2> QED
    BY <1>1, <1>2, <2>1
<1> QED
  BY <1>3, <1>4, <1>5, <1>6, <1>7, <1>8, <1>9 DEF Next, ChildCall

\* To the empty string nothing is enabled: it has no directive.
LEMMA NothingLogged == Logged(<<EmptyString>>) = {}
<1>1. FilterString(<<EmptyString>>, <<InfoString>>) = EmptyString
  BY DEF FilterString, Or
<1>2. DOMAIN EmptyString = {1} /\ ~Valid(EmptyString[1])
  BY DEF EmptyString, JustLevel, Part, Valid, Levels
<1>3. \A module, level : ~Enabled(EmptyString, module, level)
  BY <1>2 DEF Enabled, Matching
<1> QED
  BY <1>1, <1>3 DEF Logged, Passing

\* Whatever the modules, the levels and the filter strings are, a child logs what the RUST_LOG
\* of the parent says, without one what log_level says, and without both nothing
\* (process.rs, the environment that is handed to execve).
THEOREM ChildLogsCorrect == Spec => []ChildLogs
<1>1. LogInv => ChildLogs
  <2> SUFFICES ASSUME LogInv, NEW c \in Children,
                      pc[c] \in {"starting", "waiting"}, Executed(c)
               PROVE  /\ rustLog[0] # <<>> => Logged(rustLog[c]) = Logged(rustLog[0])
                      /\ rustLog[0] = <<>> =>
                           Logged(rustLog[c]) =
                             IF options.logLevel = <<>> THEN {} ELSE Passing(options.logLevel[1])
    BY DEF ChildLogs
  <2>1. rustLog[c] = PassedOn
    BY DEF LogInv, Executed
  <2>2. CASE rustLog[0] # <<>>
    BY <2>1, <2>2 DEF PassedOn, Or
  <2>3. CASE rustLog[0] = <<>> /\ options.logLevel # <<>>
    <3>1. rustLog[c] = options.logLevel
      BY <2>1, <2>3 DEF PassedOn, Or
    <3>2. FilterString(rustLog[c], <<InfoString>>) = options.logLevel[1]
      BY <2>3, <3>1 DEF FilterString, Or
    <3> QED
      BY <2>3, <3>2 DEF Logged
  <2>4. CASE rustLog[0] = <<>> /\ options.logLevel = <<>>
    <3>1. rustLog[c] = <<EmptyString>>
      BY <2>1, <2>4 DEF PassedOn, Or
    <3> QED
      BY <2>4, <3>1, NothingLogged
  <2> QED
    BY <2>2, <2>3, <2>4
<1>2. PrivInv /\ LogInv /\ [Next]_vars => LogInv'
  BY LogStep
<1> QED
  BY <1>1, <1>2, LogInit, PrivAlways, PTL DEF Spec

-----------------------------------------------------------------------------
(***************************************************************************)
(* Who has the halves of a pipe.  A process learns that another one has    *)
(* ended when nobody has the half of that one any more (HangsUp), which is *)
(* a matter of time unless a third process keeps it.                       *)
(***************************************************************************)

\* Nothing of a pipe.
Clean(p) == \A c \in Children : ~Holds(p, Near(c)) /\ ~Holds(p, Far(c))

\* The child's half: the child, and the parent until the end of the iteration.
\* The parent's half: the parent, and children on their way to execve.
HalfOK(p) ==
  /\ \A c \in Children : Holds(p, Far(c)) =>
       p = c \/ (p = 0 /\ pc[0] = "drop" /\ c = next)
  /\ \A c \in Children : Holds(p, Near(c)) =>
       p = 0 \/ (pc[p] = "starting" /\ done[p] < 3)

EndedClean(p) == pc[p] \in {"begin", "gone", "refused"} => Clean(p)

\* `remote` is a Handler of the parent, which drops it.
RemoteHeld ==
  pc[0] = "drop" =>
    \A n \in Numbers : table[0][n].file = Far(next) => n \in handlers[0]

HalfInv == (\A p \in Procs : HalfOK(p) /\ EndedClean(p)) /\ RemoteHeld

\* Halves are told from each other and from all else.
LEMMA HalvesDiffer ==
  ASSUME NEW c \in Children, NEW e \in Children
  PROVE  /\ Near(c) # Far(e) /\ (Far(c) = Far(e) => c = e)
         /\ {Near(c), Far(c)} \cap {Closed, Std, Null, Epoll, Library} = {}
         /\ NoDesc.file = Closed /\ Desc(Near(c), TRUE).file = Near(c)
         /\ \A b \in BOOLEAN : Desc(Far(c), b).file = Far(c)
<1>1. c \in Nat /\ e \in Nat /\ c >= 1
  BY StartupAssumption DEF Children
<1> QED
  BY <1>1 DEF Near, Far, Closed, Std, Null, Epoll, Library, NoDesc, Desc

LEMMA HalfInit == Init => HalfInv
<1> SUFFICES ASSUME Init PROVE HalfInv
  OBVIOUS
<1>1. PICK lib \in [3..4 -> {NoDesc, Desc(Library, FALSE)}], epoll \in 3..5 :
        table = [p \in Procs |->
            IF p # 0 THEN NoTable
            ELSE [n \in Numbers |-> IF n \in Standard THEN Desc(Std, FALSE)
                                    ELSE IF n = epoll THEN Desc(Epoll, TRUE)
                                    ELSE IF n \in 3..4 THEN lib[n] ELSE NoDesc]]
  BY DEF Init
<1>2. pc = [p \in Procs |-> IF p = 0 THEN "begin" ELSE "unborn"]
  BY DEF Init
<1>3. /\ NoDesc.file = Closed /\ Desc(Library, FALSE).file = Library
      /\ Desc(Std, FALSE).file = Std /\ Desc(Epoll, TRUE).file = Epoll
  BY DEF NoDesc, Desc
<1>4. ASSUME NEW p \in Procs, NEW n \in Numbers
      PROVE  table[p][n].file \in {Closed, Std, Epoll, Library}
  <2>1. CASE p # 0
    BY <1>1, <1>3, <2>1 DEF NoTable
  <2>2. CASE p = 0
    <3>1. n \in 3..4 => lib[n] = NoDesc \/ lib[n] = Desc(Library, FALSE)
      BY <1>1
    <3>2. table[0][n] = IF n \in Standard THEN Desc(Std, FALSE)
                        ELSE IF n = epoll THEN Desc(Epoll, TRUE)
                        ELSE IF n \in 3..4 THEN lib[n] ELSE NoDesc
      BY <1>1, <2>2
    <3>3. table[0][n] \in {Desc(Std, FALSE), Desc(Epoll, TRUE), NoDesc, Desc(Library, FALSE)}
      BY <3>1, <3>2
    <3> QED
      BY <1>3, <2>2, <3>3
  <2> QED
    BY <2>1, <2>2
<1>5. \A p \in Procs : Clean(p)
  BY <1>4, HalvesDiffer DEF Clean, Holds
<1>6. pc[0] # "drop"
  BY <1>2, ChildrenProcs
<1> QED
  BY <1>5, <1>6 DEF HalfInv, HalfOK, EndedClean, Clean, RemoteHeld

\* A process that does nothing and whose descriptors nobody touches.
LEMMA HalfSame ==
  ASSUME HalfInv, NEW p \in Procs, table'[p] = table[p], pc'[p] = pc[p],
         p # 0 => done'[p] = done[p], p = 0 => next' = next
  PROVE  HalfOK(p)' /\ EndedClean(p)'
<1>1. \A f : Holds(p, f)' <=> Holds(p, f)
  BY DEF Holds
<1>2. HalfOK(p) /\ EndedClean(p)
  BY DEF HalfInv
<1> QED
  BY <1>1, <1>2 DEF HalfOK, EndedClean, Clean

\* A process has ended.
LEMMA HalfEnds ==
  ASSUME PrivInv, FdInv, HalfInv, NEW p \in Procs, NEW how \in {"gone", "refused"},
         Ends(p, how), next' = next, \A c \in Children : c # p => done'[c] = done[c]
  PROVE  HalfInv'
<1>1. /\ pc' = [pc EXCEPT ![p] = how] /\ table' = [table EXCEPT ![p] = NoTable]
      /\ handlers' = [handlers EXCEPT ![p] = {}]
  BY DEF Ends
<1>2. pc \in [Procs -> States] /\ table \in [Procs -> Tables] /\ handlers \in [Procs -> SUBSET Numbers]
  BY DEF PrivInv, Shape, FdInv, FdShape
<1>3. \A c \in Procs : c \in Children \/ c = 0
  BY StartupAssumption DEF Procs, Children
<1>4. ASSUME NEW q \in Procs PROVE HalfOK(q)' /\ EndedClean(q)'
  <2>1. CASE q = p
    <3>1. \A n \in Numbers : table'[q][n].file = Closed
      BY <1>1, <1>2, <2>1, NoDescIs DEF NoTable
    <3>2. Clean(q)'
      BY <3>1, HalvesDiffer DEF Clean, Holds
    <3> QED
      BY <3>2 DEF Clean, HalfOK, EndedClean
  <2>2. CASE q # p
    <3>1. table'[q] = table[q] /\ pc'[q] = pc[q] /\ (q # 0 => done'[q] = done[q])
      BY <1>1, <1>2, <1>3, <2>2
    <3> QED
      BY <3>1, HalfSame
  <2> QED
    BY <2>1, <2>2
<1>5. RemoteHeld'
  <2>1. CASE p = 0
    BY <1>1, <1>2, <2>1 DEF RemoteHeld
  <2>2. CASE p # 0
    <3>1. pc'[0] = pc[0] /\ table'[0] = table[0] /\ handlers'[0] = handlers[0]
      BY <1>1, <1>2, <2>2, ChildrenProcs
    <3> QED
      BY <3>1 DEF HalfInv, RemoteHeld
  <2> QED
    BY <2>1, <2>2
<1> QED
  BY <1>4, <1>5 DEF HalfInv

\* Descriptors with no half but the child's own, and the parent's only if it is early.
HalvesOf(t, c, early) ==
  \A n \in Numbers, e \in Children :
    /\ t[n].file = Far(e) => e = c
    /\ t[n].file = Near(e) => early

LEMMA HalvesLess ==
  ASSUME NEW c \in Children, NEW s, NEW t, NEW early, HalvesOf(s, c, early),
         \A n \in Numbers : t[n].file \in {Closed, Std, Null, Far(c), s[n].file}
  PROVE  HalvesOf(t, c, early)
<1> SUFFICES ASSUME NEW n \in Numbers, NEW e \in Children
             PROVE  (t[n].file = Far(e) => e = c) /\ (t[n].file = Near(e) => early)
  BY DEF HalvesOf
<1>1. (s[n].file = Far(e) => e = c) /\ (s[n].file = Near(e) => early)
  BY DEF HalvesOf
<1>2. Far(c) # Near(e) /\ (Far(c) = Far(e) => c = e)
  BY HalvesDiffer
<1>3. {Near(e), Far(e)} \cap {Closed, Std, Null} = {}
  BY HalvesDiffer
<1> QED
  BY <1>1, <1>2, <1>3

\* A child that has made a call, or has failed to execute, with no half but its own,
\* and the parent's at most before CloseRest.
LEMMA HalfCall ==
  ASSUME PrivInv, FdInv, HalfInv, NEW c \in Children, NEW t, table' = [table EXCEPT ![c] = t],
         NEW how \in {"starting", "waiting", "escaped"}, pc' = [pc EXCEPT ![c] = how],
         \A e \in Children : e # c => done'[e] = done[e],
         next' = next, handlers' = handlers,
         HalvesOf(t, c, how = "starting" /\ done'[c] < 3)
  PROVE  HalfInv'
<1>1. pc \in [Procs -> States] /\ table \in [Procs -> Tables] /\ c \in Procs /\ c # 0 /\ 0 \in Procs
  BY ChildrenProcs DEF PrivInv, Shape, FdInv, FdShape
<1>2. \A q \in Procs : q \in Children \/ q = 0
  BY StartupAssumption DEF Procs, Children
<1>3. ASSUME NEW q \in Procs PROVE HalfOK(q)' /\ EndedClean(q)'
  <2>1. CASE q = c
    <3>1. table'[q] = t /\ pc'[q] = how
      BY <1>1, <2>1
    <3>2. \A e \in Children : Holds(c, Far(e))' => e = c
      BY <2>1, <3>1 DEF HalvesOf, Holds
    <3>3. \A e \in Children : Holds(c, Near(e))' => how = "starting" /\ done'[c] < 3
      BY <2>1, <3>1 DEF HalvesOf, Holds
    <3> QED
      BY <1>1, <2>1, <3>1, <3>2, <3>3 DEF HalfOK, EndedClean
  <2>2. CASE q # c
    <3>1. table'[q] = table[q] /\ pc'[q] = pc[q] /\ (q # 0 => done'[q] = done[q])
      BY <1>1, <1>2, <2>2
    <3> QED
      BY <3>1, HalfSame
  <2> QED
    BY <2>1, <2>2
<1>4. RemoteHeld'
  <2>1. pc'[0] = pc[0] /\ table'[0] = table[0]
    BY <1>1
  <2> QED
    BY <2>1 DEF HalfInv, RemoteHeld
<1> QED
  BY <1>3, <1>4 DEF HalfInv

\* What a child holds while it starts.
LEMMA HalfStarting ==
  ASSUME HalfInv, NEW c \in Children, pc[c] = "starting"
  PROVE  HalvesOf(table[c], c, done[c] < 3)
<1>1. HalfOK(c) /\ c # 0
  BY ChildrenProcs DEF HalfInv
<1> QED
  BY <1>1 DEF HalfOK, Holds, HalvesOf

LEMMA HalfPlanStep ==
  ASSUME PrivInv, FdInv, HalfInv, NEW c \in Children, NEW call, Calls(c, call), Made(c),
         NEW t, table' = [table EXCEPT ![c] = t],
         HalvesOf(t, c, done[c] + 1 < 3)
  PROVE  HalfInv'
<1>1. pc[c] = "starting" /\ done[c] \in Nat
  BY CallsAt DEF PrivInv
<1>2. /\ done' = [done EXCEPT ![c] = @ + 1] /\ next' = next /\ handlers' = handlers
      /\ pc' = [pc EXCEPT ![c] = IF done[c] + 1 = Len(ChildPlan) THEN "waiting" ELSE @]
  BY DEF Made
<1>3. done \in [Children -> Nat]
  BY DEF PrivInv, Shape
<1>4. done'[c] = done[c] + 1 /\ \A e \in Children : e # c => done'[e] = done[e]
  BY <1>2, <1>3
<1>5. Len(ChildPlan) \in Nat /\ Len(ChildPlan) >= 5
  BY Plan DEF PrivInv, Shape
<1> DEFINE how == IF done[c] + 1 = Len(ChildPlan) THEN "waiting" ELSE "starting"
<1>6. how \in {"starting", "waiting", "escaped"} /\ pc' = [pc EXCEPT ![c] = how]
  BY <1>1, <1>2
<1>7. done[c] + 1 < 3 => how = "starting"
  BY <1>1, <1>5
<1> HIDE DEF how
<1>8. HalvesOf(t, c, how = "starting" /\ done'[c] < 3)
  BY <1>4, <1>7 DEF HalvesOf
<1> QED
  BY <1>2, <1>4, <1>6, <1>8, HalfCall

LEMMA HalfChildCall ==
  ASSUME PrivInv, FdInv, HalfInv, NEW c \in Children, ChildCall(c)
  PROVE  HalfInv'
<1>1. c \in Procs /\ c # 0 /\ table[c] \in Tables /\ Shape /\ handlers[c] \subseteq Numbers
  BY ChildrenProcs DEF FdInv, FdShape, PrivInv
<1>2. CASE NewSession(c)
  <2>1. PICK f \in {Std, Null} : table' = [table EXCEPT ![c] =
          [n \in Numbers |-> IF n \in Standard THEN Desc(f, FALSE) ELSE table[c][n]]]
    BY <1>2 DEF NewSession
  <2> DEFINE t == [n \in Numbers |-> IF n \in Standard THEN Desc(f, FALSE) ELSE table[c][n]]
  <2>2. Calls(c, "session") /\ Made(c)
    BY <1>2 DEF NewSession
  <2>3. pc[c] = "starting" /\ done[c] = 0
    BY <1>1, <2>2, CallsAt DEF Setup, Position
  <2>4. Desc(f, FALSE).file = f
    BY DEF Desc
  <2>5. \A n \in Numbers : t[n].file \in {Closed, Std, Null, Far(c), table[c][n].file}
    BY <2>4
  <2>6. table' = [table EXCEPT ![c] = t]
    BY <2>1
  <2> HIDE DEF t
  <2>7. HalvesOf(t, c, done[c] + 1 < 3)
    <3>1. HalvesOf(table[c], c, done[c] < 3) /\ (done[c] < 3 <=> done[c] + 1 < 3)
      BY <2>3, HalfStarting
    <3>2. HalvesOf(t, c, done[c] < 3)
      BY <2>5, <3>1, HalvesLess
    <3> QED
      BY <3>1, <3>2 DEF HalvesOf
  <2> QED
    BY <2>2, <2>6, <2>7, HalfPlanStep
<1>3. CASE DupRemote(c)
  <2> DEFINE t == [table[c] EXCEPT ![PRIVSEP_FD] = Desc(Far(c), FALSE)]
  <2>1. table' = [table EXCEPT ![c] = t] /\ Calls(c, "dup") /\ Made(c)
    BY <1>1, <1>3 DEF DupRemote, FdInv, FdShape
  <2>2. pc[c] = "starting" /\ done[c] = 1
    BY <1>1, <2>1, CallsAt DEF Setup, Position
  <2>3. \A n \in Numbers : t[n] = Desc(Far(c), FALSE) \/ t[n] = table[c][n]
    BY <1>1 DEF Tables
  <2> HIDE DEF t
  <2>4. \A n \in Numbers : t[n].file \in {Closed, Std, Null, Far(c), table[c][n].file}
    BY <2>3, HalvesDiffer
  <2>5. HalvesOf(t, c, done[c] + 1 < 3)
    <3>1. HalvesOf(table[c], c, done[c] < 3) /\ (done[c] < 3 <=> done[c] + 1 < 3)
      BY <2>2, HalfStarting
    <3>2. HalvesOf(t, c, done[c] < 3)
      BY <2>4, <3>1, HalvesLess
    <3> QED
      BY <3>1, <3>2 DEF HalvesOf
  <2> QED
    BY <2>1, <2>5, HalfPlanStep
<1>4. CASE CloseRest(c)
  <2> DEFINE t == CloseOpenFds(table[c])
  <2>1. table' = [table EXCEPT ![c] = t] /\ Calls(c, "closefrom") /\ Made(c)
    BY <1>1, <1>4 DEF CloseRest, FdInv, FdShape
  <2>2. pc[c] = "starting" /\ done[c] = 2
    BY <1>1, <2>1, CallsAt DEF Setup, Position
  <2>3. ChildTable(table[c], c, 2)
    BY <2>2 DEF FdInv, ChildFd
  <2>4. ASSUME NEW n \in Numbers
        PROVE  t[n].file \in {Std, Null, Far(c), Closed}
    <3>1. CASE n \in Standard
      <4>1. t[n] = table[c][n]
        BY <3>1, NumbersNat DEF CloseOpenFds, CloseFrom, Standard, PRIVSEP_FD
      <4> QED
        BY <2>3, <3>1, <4>1 DEF ChildTable, Streams
    <3>2. CASE n = PRIVSEP_FD
      <4>1. t[n] = table[c][n]
        BY <3>2, NumbersNat DEF CloseOpenFds, CloseFrom, PRIVSEP_FD
      <4> QED
        BY <2>3, <3>2, <4>1 DEF ChildTable
    <3>3. CASE n > PRIVSEP_FD
      <4>1. n \in Nat /\ n >= PRIVSEP_FD + 1
        BY <3>3, NumbersNat DEF PRIVSEP_FD
      <4>2. t[n] = NoDesc
        BY <4>1 DEF CloseOpenFds, CloseFrom
      <4> QED
        BY <4>2, NoDescIs
    <3> QED
      BY <3>1, <3>2, <3>3, NumbersNat
  <2> HIDE DEF t
  <2>5. HalvesOf(t, c, FALSE)
    <3> SUFFICES ASSUME NEW n \in Numbers, NEW e \in Children
                 PROVE  (t[n].file = Far(e) => e = c) /\ t[n].file # Near(e)
      BY DEF HalvesOf
    <3>1. {Near(e), Far(e)} \cap {Closed, Std, Null} = {}
      BY HalvesDiffer
    <3>2. Far(c) # Near(e) /\ (Far(c) = Far(e) => c = e)
      BY HalvesDiffer
    <3> QED
      BY <2>4, <3>1, <3>2
  <2>6. HalvesOf(t, c, done[c] + 1 < 3)
    BY <2>5 DEF HalvesOf
  <2> QED
    BY <2>1, <2>6, HalfPlanStep
<1>5. CASE Execve(c)
  <2> DEFINE t == Exec(table[c])
  <2>1. table' = [table EXCEPT ![c] = t] /\ Calls(c, "exec") /\ Made(c)
    BY <1>1, <1>5 DEF Execve, FdInv, FdShape
  <2>2. pc[c] = "starting" /\ done[c] = 3
    BY <1>1, <2>1, CallsAt DEF Setup, Position
  <2>3. \A n \in Numbers : t[n] = NoDesc \/ t[n] = table[c][n]
    BY DEF Exec
  <2> HIDE DEF t
  <2>4. \A n \in Numbers : t[n].file \in {Closed, Std, Null, Far(c), table[c][n].file}
    BY <2>3, NoDescIs
  <2>5. HalvesOf(t, c, done[c] + 1 < 3)
    <3>1. HalvesOf(table[c], c, FALSE)
      BY <2>2, HalfStarting DEF HalvesOf
    <3>2. HalvesOf(t, c, FALSE)
      BY <2>4, <3>1, HalvesLess
    <3> QED
      BY <3>2 DEF HalvesOf
  <2> QED
    BY <2>1, <2>5, HalfPlanStep
<1>6. CASE ExecFails(c)
  <2> DEFINE t == [n \in Numbers |-> IF n \in handlers[c] THEN NoDesc ELSE table[c][n]]
  <2>1. /\ table' = [table EXCEPT ![c] = t] /\ Calls(c, "exec")
        /\ pc' = [pc EXCEPT ![c] = "escaped"] /\ UNCHANGED <<next, done, handlers>>
    BY <1>6 DEF ExecFails
  <2>2. pc[c] = "starting" /\ done[c] = 3
    BY <1>1, <2>1, CallsAt DEF Setup, Position
  <2>3. \A n \in Numbers : t[n] = NoDesc \/ t[n] = table[c][n]
    OBVIOUS
  <2> HIDE DEF t
  <2>4. \A n \in Numbers : t[n].file \in {Closed, Std, Null, Far(c), table[c][n].file}
    BY <2>3, NoDescIs
  <2>5. HalvesOf(t, c, "escaped" = "starting" /\ done'[c] < 3)
    <3>1. HalvesOf(table[c], c, FALSE)
      BY <2>2, HalfStarting DEF HalvesOf
    <3>2. HalvesOf(t, c, FALSE)
      BY <2>4, <3>1, HalvesLess
    <3> QED
      BY <3>2 DEF HalvesOf
  <2>6. "escaped" \in {"starting", "waiting", "escaped"}
    OBVIOUS
  <2> QED
    BY <2>1, <2>5, <2>6, HalfCall
<1>7. CASE AdoptPipe(c)
  <2> DEFINE t == [table[c] EXCEPT ![PRIVSEP_FD].cloexec = TRUE]
  <2>1. table' = [table EXCEPT ![c] = t] /\ Calls(c, "cloexec") /\ Made(c)
    BY <1>1, <1>7 DEF AdoptPipe, FdInv, FdShape
  <2>2. pc[c] = "starting" /\ done[c] = 4
    BY <1>1, <2>1, CallsAt DEF Setup, Position
  <2>3. \A n \in Numbers : t[n].file = table[c][n].file
    BY <1>1 DEF Tables
  <2> HIDE DEF t
  <2>4. \A n \in Numbers : t[n].file \in {Closed, Std, Null, Far(c), table[c][n].file}
    BY <2>3
  <2>5. HalvesOf(t, c, done[c] + 1 < 3)
    <3>1. HalvesOf(table[c], c, FALSE)
      BY <2>2, HalfStarting DEF HalvesOf
    <3>2. HalvesOf(t, c, FALSE)
      BY <2>4, <3>1, HalvesLess
    <3> QED
      BY <3>2 DEF HalvesOf
  <2> QED
    BY <2>1, <2>5, HalfPlanStep
<1>8. CASE PrivdropCall(c)
  <2>1. PICK call : /\ Calls(c, call) /\ call \in {Privdrop[i] : i \in 1..Len(Privdrop)}
                    /\ \/ Ends(c, "refused") /\ UNCHANGED <<next, done>>
                       \/ Made(c) /\ UNCHANGED table
    BY <1>8 DEF PrivdropCall
  <2>2. CASE Ends(c, "refused") /\ UNCHANGED <<next, done>>
    BY <1>1, <2>2, HalfEnds
  <2>3. CASE Made(c) /\ UNCHANGED table
    <3>1. call \notin Setup
      BY <2>1 DEF Privdrop, Setup
    <3>2. pc[c] = "starting" /\ done[c] \in 5..10
      BY <1>1, <2>1, <3>1, CallsAt
    <3>3. table' = [table EXCEPT ![c] = table[c]]
      BY <1>1, <2>3 DEF FdInv, FdShape
    <3>4. HalvesOf(table[c], c, done[c] + 1 < 3)
      BY <3>2, HalfStarting DEF HalvesOf
    <3> QED
      BY <2>1, <2>3, <3>3, <3>4, HalfPlanStep
  <2> QED
    BY <2>1, <2>2, <2>3
<1> QED
  BY <1>2, <1>3, <1>4, <1>5, <1>6, <1>7, <1>8 DEF ChildCall

LEMMA HalfFork ==
  ASSUME PrivInv, FdInv, TypeInv, HalfInv, Fork
  PROVE  HalfInv'
<1>1. PICK near \in Lowest(table[0]) :
        LET t == [table[0] EXCEPT ![near] = Desc(Near(next), TRUE)] IN
        \E far \in Lowest(t) :
          LET u == [t EXCEPT ![far] = Desc(Far(next), TRUE)]
              hs == handlers[0] \cup {near, far}
          IN /\ table' = [table EXCEPT ![0] = u, ![next] = u]
             /\ handlers' = [handlers EXCEPT ![0] = hs, ![next] = hs]
  BY DEF Fork
<1> DEFINE t == [table[0] EXCEPT ![near] = Desc(Near(next), TRUE)]
<1>2. PICK far \in Lowest(t) :
        LET u == [t EXCEPT ![far] = Desc(Far(next), TRUE)]
            hs == handlers[0] \cup {near, far}
        IN /\ table' = [table EXCEPT ![0] = u, ![next] = u]
           /\ handlers' = [handlers EXCEPT ![0] = hs, ![next] = hs]
  BY <1>1
<1> DEFINE u == [t EXCEPT ![far] = Desc(Far(next), TRUE)]
           hs == handlers[0] \cup {near, far}
<1>3. /\ pc[0] = "fork" /\ next <= NChildren /\ next' = next /\ done' = done
      /\ pc' = [pc EXCEPT ![0] = "drop", ![next] = "starting"]
  BY DEF Fork, Iterating
<1>4. next \in Children /\ next \in Procs /\ 0 \in Procs /\ next # 0
  <2>1. next \in Children
    BY <1>3, TypeHas DEF Children
  <2> QED
    BY <2>1, ChildrenProcs
<1>5. /\ pc \in [Procs -> States] /\ table \in [Procs -> Tables] /\ table[0] \in Tables
      /\ handlers \in [Procs -> SUBSET Numbers]
  BY <1>4 DEF PrivInv, Shape, FdInv, FdShape
<1>6. near \in Numbers /\ far \in Numbers /\ DOMAIN table[0] = Numbers
  BY <1>5 DEF Lowest, Tables
<1>7. table' = [table EXCEPT ![0] = u, ![next] = u] /\ handlers' = [handlers EXCEPT ![0] = hs, ![next] = hs]
  BY <1>2
<1>8. \A n \in Numbers : u[n] = IF n = far THEN Desc(Far(next), TRUE)
                                ELSE IF n = near THEN Desc(Near(next), TRUE) ELSE table[0][n]
  BY <1>6
<1> HIDE DEF t, u
<1>9. table'[0] = u /\ table'[next] = u /\ pc'[0] = "drop" /\ pc'[next] = "starting" /\ far \in handlers'[0]
  BY <1>3, <1>4, <1>5, <1>7
<1>10. \A n \in Numbers, e \in Children : table[0][n].file # Far(e)
  <2>1. HalfOK(0) /\ ~(pc[0] = "drop") /\ \A e \in Children : e # 0
    BY <1>3, <1>4, ChildrenProcs DEF HalfInv
  <2> QED
    BY <2>1 DEF HalfOK, Holds
<1>11. \A n \in Numbers, e \in Children : u[n].file = Far(e) => e = next /\ n = far
  <2> SUFFICES ASSUME NEW n \in Numbers, NEW e \in Children, u[n].file = Far(e)
               PROVE  e = next /\ n = far
    OBVIOUS
  <2>1. /\ Desc(Near(next), TRUE).file # Far(e)
        /\ Desc(Far(next), TRUE).file = Far(e) => next = e
    BY <1>4, HalvesDiffer
  <2> QED
    BY <1>8, <1>10, <2>1
<1>12. done[next] = 0
  <2>1. \A c \in Children : c >= next => Unborn(c)
    BY <1>3 DEF PrivInv, ParentPriv
  <2>2. next >= next
    BY DEF PrivInv, Shape
  <2> QED
    BY <1>4, <2>1, <2>2 DEF Unborn
<1>13. ASSUME NEW q \in Procs PROVE HalfOK(q)' /\ EndedClean(q)'
  <2>1. CASE q = 0
    BY <1>3, <1>9, <1>11, <2>1 DEF HalfOK, EndedClean, Holds
  <2>2. CASE q = next
    <3>1. \A e \in Children : Holds(q, Far(e))' => e = q
      BY <1>9, <1>11, <2>2 DEF Holds
    <3>2. pc'[q] = "starting" /\ done'[q] < 3
      BY <1>3, <1>9, <1>12, <2>2
    <3> QED
      BY <3>1, <3>2 DEF HalfOK, EndedClean
  <2>3. CASE q # 0 /\ q # next
    <3>1. table'[q] = table[q] /\ pc'[q] = pc[q] /\ done'[q] = done[q]
      BY <1>3, <1>5, <1>7, <2>3
    <3> QED
      BY <2>3, <3>1, HalfSame
  <2> QED
    BY <2>1, <2>2, <2>3
<1>14. RemoteHeld'
  BY <1>3, <1>4, <1>9, <1>11 DEF RemoteHeld
<1> QED
  BY <1>13, <1>14 DEF HalfInv

LEMMA HalfDropRemote ==
  ASSUME PrivInv, FdInv, HalfInv, DropRemote
  PROVE  HalfInv'
<1> DEFINE t == [n \in Numbers |-> IF n \in Remote THEN NoDesc ELSE table[0][n]]
<1>1. /\ pc[0] = "drop" /\ pc' = [pc EXCEPT ![0] = "fork"] /\ done' = done
      /\ table' = [table EXCEPT ![0] = t]
  BY DEF DropRemote
<1>2. pc \in [Procs -> States] /\ table \in [Procs -> Tables] /\ 0 \in Procs
  BY ChildrenProcs DEF PrivInv, Shape, FdInv, FdShape
<1>3. ASSUME NEW n \in Numbers, NEW e \in Children PROVE t[n].file # Far(e)
  <2>1. CASE n \in Remote
    BY <2>1, HalvesDiffer
  <2>2. CASE n \notin Remote
    <3>1. table[0][n].file # Far(next)
      BY <1>1, <2>2 DEF Remote, HalfInv, RemoteHeld
    <3>2. table[0][n].file = Far(e) => e = next
      BY <1>2, ChildrenProcs DEF HalfInv, HalfOK, Holds
    <3> QED
      BY <2>2, <3>1, <3>2
  <2> QED
    BY <2>1, <2>2
<1> HIDE DEF t
<1>4. pc'[0] = "fork" /\ table'[0] = t
  BY <1>1, <1>2
<1>5. ASSUME NEW q \in Procs PROVE HalfOK(q)' /\ EndedClean(q)'
  <2>1. CASE q = 0
    BY <1>3, <1>4, <2>1 DEF HalfOK, EndedClean, Holds
  <2>2. CASE q # 0
    <3>1. table'[q] = table[q] /\ pc'[q] = pc[q] /\ done'[q] = done[q]
      BY <1>1, <1>2, <2>2
    <3> QED
      BY <2>2, <3>1, HalfSame
  <2> QED
    BY <2>1, <2>2
<1> QED
  BY <1>4, <1>5 DEF HalfInv, RemoteHeld

LEMMA HalfStep ==
  ASSUME PrivInv, FdInv, TypeInv, HalfInv, [Next]_vars
  PROVE  HalfInv'
<1>1. CASE UNCHANGED vars
  BY <1>1 DEF vars, HalfInv, HalfOK, EndedClean, Clean, Holds, RemoteHeld
<1>2. CASE Begin \/ ForkDone
  <2>1. PICK how \in {"gone", "fork", "main"} :
          /\ pc' = [pc EXCEPT ![0] = how] /\ UNCHANGED <<next, done, table, handlers>>
          /\ pc[0] = "begin" \/ (pc[0] = "fork" /\ how = "main")
    BY <1>2 DEF Begin, ForkDone
  <2>2. pc'[0] = how /\ 0 \in Procs /\ \A q \in Procs : q # 0 => pc'[q] = pc[q]
    BY <2>1, ChildrenProcs DEF PrivInv, Shape
  <2>3. \A p, f : Holds(p, f)' <=> Holds(p, f)
    BY <2>1 DEF Holds
  <2>4. HalfOK(0)' /\ EndedClean(0)'
    <3>1. HalfOK(0) /\ EndedClean(0)
      BY <2>2 DEF HalfInv
    <3>2. \A c \in Children : ~Holds(0, Far(c))
      BY <2>1, <3>1, ChildrenProcs DEF HalfOK
    <3>3. how = "gone" => Clean(0)
      BY <2>1, <3>1 DEF EndedClean
    <3> QED
      BY <2>2, <2>3, <3>2, <3>3 DEF HalfOK, EndedClean, Clean
  <2>5. \A q \in Procs : q # 0 => HalfOK(q)' /\ EndedClean(q)'
    BY <2>1, <2>2, HalfSame
  <2> QED
    BY <2>2, <2>4, <2>5 DEF HalfInv, RemoteHeld
<1>3. CASE ParentEnds
  BY <1>3, HalfEnds, ChildrenProcs DEF ParentEnds
<1>4. ASSUME NEW c \in Children, ChildEnds(c) PROVE HalfInv'
  <2>1. Ends(c, "gone") /\ done' = [done EXCEPT ![c] = 0] /\ next' = next
    BY <1>4 DEF ChildEnds
  <2>2. \A e \in Children : e # c => done'[e] = done[e]
    BY <2>1 DEF PrivInv, Shape
  <2> QED
    BY <2>1, <2>2, HalfEnds, ChildrenProcs
<1> QED
  BY <1>1, <1>2, <1>3, <1>4, HalfFork, HalfDropRemote, HalfChildCall DEF Next

\* Nobody but a child has its half of its pipe, except the parent in the iteration
\* that forks it, and nobody but the parent has the other one, except children that
\* have not come to close_open_fds: no earlier and no later child, no program of a
\* child, and nobody who has ended.
Halves == \A p \in Procs : HalfOK(p) /\ EndedClean(p)

\* No half of a pipe gets to a process that it is not for: Parent::new drops `remote`
\* before it forks the next child, and close_open_fds closes what a child has inherited.
THEOREM HalvesCorrect == Spec => []Halves
<1>1. PrivInv /\ FdInv /\ TypeInv /\ HalfInv /\ [Next]_vars => HalfInv'
  BY HalfStep
<1>2. PrivInv /\ PrivInv' /\ TypeInv /\ [Next]_vars => TypeInv'
  BY TypeStep
<1>3. HalfInv => Halves
  BY DEF HalfInv, Halves
<1> QED
  BY <1>1, <1>2, <1>3, HalfInit, TypeInit, PrivAlways, FdAlways, PTL DEF Spec

\* So while somebody has the half of a process that is gone, the parent is in an
\* iteration of its loop or a child starts, and neither of them waits for anything:
\* the safety half of HangsUp, which says that it is over some day.
THEOREM DanglingPasses ==
  Spec => [](Dangling => pc[0] = "drop" \/ \E p \in Children : pc[p] = "starting")
<1>1. ASSUME Halves, Dangling
      PROVE  pc[0] = "drop" \/ \E p \in Children : pc[p] = "starting"
  <2>1. PICK c \in Children, p \in Procs :
          \/ pc[c] = "gone" /\ Holds(p, Far(c))
          \/ pc[0] = "gone" /\ Holds(p, Near(c))
    BY <1>1 DEF Dangling
  <2>2. HalfOK(p) /\ EndedClean(p)
    BY <1>1 DEF Halves
  <2>3. p \in Children \/ p = 0
    BY StartupAssumption DEF Procs, Children
  <2> QED
    BY <2>1, <2>2, <2>3 DEF HalfOK, EndedClean, Clean
<1> QED
  BY <1>1, HalvesCorrect, PTL
=============================================================================
