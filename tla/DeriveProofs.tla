---------------------------- MODULE DeriveProofs ----------------------------
(***************************************************************************)
(* Proofs about module Derive, for every number of variants.  The table    *)
(* that it emits is what the proofs about module Process assume of Rows.   *)
(***************************************************************************)
EXTENDS Derive, TLAPS

LEMMA TypeInit == Init => TypeOK
BY DeriveAssumption DEF Init, TypeOK, Variants

LEMMA TypeStep == TypeOK /\ [Next]_vars => TypeOK'
<1> SUFFICES ASSUME TypeOK, [Next]_vars PROVE TypeOK'
  OBVIOUS
<1> USE DEF input
<1>1. CASE Collect
  BY <1>1 DEF Collect, TypeOK, output
<1>2. CASE NextKey
  BY <1>2 DEF NextKey, TypeOK, output
<1>3. CASE Resolve
  <2>1. PICK e \in entries :
          IF Known(e)
          THEN connect' = Mirror(e) /\ entries' = entries \ {e} /\ UNCHANGED pc
          ELSE pc' = "error" /\ UNCHANGED <<connect, entries>>
    BY <1>3 DEF Resolve
  <2>2. connect' \in [Variants -> SUBSET (Variants \cup Unknown)]
    BY <2>1 DEF Known, Mirror, TypeOK
  <2> QED
    BY <1>3, <2>1, <2>2 DEF Resolve, TypeOK, output
<1>4. CASE Resolved
  BY <1>4 DEF Resolved, TypeOK, walk, output
<1>5. CASE Configure
  <2>1. id \in Variants /\ id + 1 \in 0..K
    BY <1>5, DeriveAssumption DEF Configure, More, TypeOK, Variants
  <2> QED
    BY <1>5, <2>1 DEF Configure, TypeOK, walk, Row
<1>6. CASE Emit
  BY <1>6 DEF Emit, TypeOK, walk, output
<1>7. CASE Finished \/ UNCHANGED vars
  BY <1>7 DEF Finished, vars, TypeOK, walk, output
<1> QED
  BY <1>1, <1>2, <1>3, <1>4, <1>5, <1>6, <1>7 DEF Next

\* The macro keeps its variables in their types, whatever enum it is given.
THEOREM TypeCorrect == Spec => []TypeOK
BY TypeInit, TypeStep, PTL DEF Spec

-----------------------------------------------------------------------------
(***************************************************************************)
(* What the walk has entered so far: everything in the attributes, nothing *)
(* that no attribute asks for, and the other side of each entry that it    *)
(* has come to.                                                            *)
(***************************************************************************)
Seen(k, e) == k \notin keys /\ (k = key => e \notin entries)

Walked ==
  /\ \A v \in Variants : attr[v] \subseteq connect[v]
  /\ \A e \in Variants : \A k \in connect[e] :
       k \in attr[e] \/ (k \in Variants /\ e \in attr[k])
  /\ \A k \in Variants : \A e \in attr[k] :
       Seen(k, e) => e \in Variants /\ k \in connect[e]

AtKey == entries \subseteq attr[key] /\ (entries # {} => key \notin keys)

Accepted == pc \in {"resolve", "configure", "done"}

ResolveInv ==
  /\ TypeOK
  /\ Accepted => Walked /\ AtKey /\ (named \/ noDropAll)
  /\ pc \in {"start", "resolve"} => id = 0
  /\ pc = "start" => entries = {}
  /\ pc \in {"configure", "done"} =>
       keys = {} /\ entries = {} /\ \A v \in Variants : v < id => table[v] = Row(v)
  /\ pc = "done" => id = K /\ first
  /\ pc = "error" => ~Valid

LEMMA ResolveInit == Init => ResolveInv
BY TypeInit DEF Init, ResolveInv, Accepted

LEMMA ResolveNextKey ==
  ASSUME ResolveInv, NextKey
  PROVE  Walked' /\ AtKey'
<1>1. PICK k \in keys : keys' = keys \ {k} /\ key' = k /\ entries' = attr[k]
  BY DEF NextKey
<1>2. pc = "resolve" /\ entries = {} /\ UNCHANGED <<attr, connect>>
  BY DEF NextKey, input
<1>3. Walked
  BY <1>2 DEF ResolveInv, Accepted
<1>4. ASSUME NEW v \in Variants, NEW e \in attr[v], Seen(v, e)'
      PROVE  e \in Variants /\ v \in connect[e]
  <2>1. v # k
    BY <1>1, <1>2, <1>4 DEF Seen
  <2>2. Seen(v, e)
    BY <1>1, <1>2, <1>4, <2>1 DEF Seen
  <2> QED
    BY <1>3, <2>2 DEF Walked
<1> QED
  BY <1>1, <1>2, <1>3, <1>4 DEF Walked, AtKey

LEMMA ResolveEntry ==
  ASSUME ResolveInv, Resolve
  PROVE  ResolveInv'
<1>1. PICK e \in entries :
        IF e \in Variants
        THEN connect' = Mirror(e) /\ entries' = entries \ {e} /\ UNCHANGED pc
        ELSE pc' = "error" /\ UNCHANGED <<connect, entries>>
  BY DEF Resolve, Known
<1>2. pc = "resolve" /\ UNCHANGED <<attr, noDropAll, noDrop, named, first, keys, key, id, table>>
  BY DEF Resolve, input, output
<1>3. TypeOK' /\ TypeOK
  BY TypeStep DEF ResolveInv, Next
<1>4. Walked /\ AtKey /\ (named \/ noDropAll) /\ id = 0
  BY <1>2 DEF ResolveInv, Accepted
<1>5. key \in Variants /\ key \notin keys /\ e \in attr[key]
  BY <1>3, <1>4 DEF TypeOK, AtKey
<1>6. CASE e \in Variants
  <2>1. \A v \in Variants : connect'[v] = IF v = e THEN connect[v] \cup {key} ELSE connect[v]
    BY <1>1, <1>3, <1>6 DEF Mirror, TypeOK
  <2>2. entries' = entries \ {e} /\ pc' = "resolve"
    BY <1>1, <1>2, <1>6
  <2>3. ASSUME NEW v \in Variants, NEW d \in attr[v], Seen(v, d)'
        PROVE  d \in Variants /\ v \in connect'[d]
    <3>1. CASE v = key /\ d = e
      BY <1>6, <2>1, <3>1
    <3>2. CASE ~(v = key /\ d = e)
      <4>1. Seen(v, d)
        BY <1>2, <2>2, <2>3, <3>2 DEF Seen
      <4> QED
        BY <1>4, <2>1, <4>1 DEF Walked
    <3> QED
      BY <3>1, <3>2
  <2>4. \A v \in Variants : attr[v] \subseteq connect'[v]
    BY <1>4, <2>1 DEF Walked
  <2>5. ASSUME NEW v \in Variants, NEW k \in connect'[v]
        PROVE  k \in attr[v] \/ (k \in Variants /\ v \in attr[k])
    <3>1. k \in connect[v] \/ (v = e /\ k = key)
      BY <2>1, <2>5
    <3> QED
      BY <1>4, <1>5, <3>1 DEF Walked
  <2>6. Walked'
    BY <1>2, <2>3, <2>4, <2>5 DEF Walked
  <2>7. AtKey'
    BY <1>2, <1>4, <2>2 DEF AtKey
  <2> QED
    BY <1>2, <1>3, <1>4, <2>2, <2>6, <2>7 DEF ResolveInv, Accepted
<1>7. CASE e \notin Variants
  <2>1. ~Valid'
    BY <1>2, <1>5, <1>7 DEF Valid
  <2> QED
    BY <1>1, <1>3, <1>7, <2>1 DEF ResolveInv, Accepted
<1> QED
  BY <1>6, <1>7

LEMMA ResolveConfigure ==
  ASSUME ResolveInv, Configure
  PROVE  \A v \in Variants : v < id' => table'[v] = Row(v)'
<1>1. /\ id \in Variants /\ id' = id + 1 /\ pc = "configure"
      /\ table' = [table EXCEPT ![id] = Row(id)] /\ UNCHANGED connect
  BY DeriveAssumption DEF Configure, More, ResolveInv, TypeOK, Variants, walk
<1>2. \A v \in Variants : Row(v)' = Row(v)
  BY <1>1 DEF Row
<1>3. \A v \in Variants : table'[v] = IF v = id THEN Row(v) ELSE table[v]
  BY <1>1 DEF ResolveInv, TypeOK
<1>4. \A v \in Variants : v < id + 1 => v = id \/ v < id
  BY <1>1 DEF Variants
<1> QED
  BY <1>1, <1>2, <1>3, <1>4 DEF ResolveInv

LEMMA ResolveStep == ResolveInv /\ [Next]_vars => ResolveInv'
<1> SUFFICES ASSUME ResolveInv, [Next]_vars PROVE ResolveInv'
  OBVIOUS
<1>1. TypeOK'
  BY TypeStep DEF ResolveInv
<1>2. CASE Collect
  <2>1. /\ pc = "start" /\ id = 0 /\ UNCHANGED <<input, entries, output>>
        /\ IF named \/ noDropAll
           THEN pc' = "resolve" /\ keys' = Variants /\ connect' = attr
           ELSE pc' = "error"
    BY <1>2 DEF Collect, ResolveInv
  <2>2. CASE named \/ noDropAll
    <3>1. Walked'
      BY <2>1, <2>2 DEF Walked, Seen, input
    <3>2. AtKey'
      BY <2>1 DEF AtKey, ResolveInv
    <3> QED
      BY <1>1, <2>1, <2>2, <3>1, <3>2 DEF ResolveInv, Accepted, input, output
  <2>3. CASE ~(named \/ noDropAll)
    BY <1>1, <2>1, <2>3 DEF ResolveInv, Accepted, Valid, input
  <2> QED
    BY <2>2, <2>3
<1>3. CASE NextKey
  BY <1>1, <1>3, ResolveNextKey DEF NextKey, ResolveInv, Accepted, input, output
<1>4. CASE Resolve
  BY <1>4, ResolveEntry
<1>5. CASE Resolved
  <2>1. Walked' /\ AtKey'
    BY <1>5 DEF Resolved, ResolveInv, Accepted, Walked, Seen, AtKey, input, walk
  <2>2. \A v \in Variants : ~(v < 0)
    BY DEF Variants
  <2> QED
    BY <1>1, <1>5, <2>1, <2>2 DEF Resolved, ResolveInv, Accepted, input, walk, output
<1>6. CASE Configure
  <2>1. Walked' /\ AtKey'
    BY <1>6 DEF Configure, ResolveInv, Accepted, Walked, Seen, AtKey, input, walk
  <2> QED
    BY <1>1, <1>6, <2>1, ResolveConfigure
    DEF Configure, ResolveInv, Accepted, input, walk
<1>7. CASE Emit
  <2>1. Walked' /\ AtKey'
    BY <1>7 DEF Emit, ResolveInv, Accepted, Walked, Seen, AtKey, input, walk
  <2>2. \A v \in Variants : Row(v)' = Row(v)
    BY <1>7 DEF Emit, walk, Row
  <2>3. id = K
    BY <1>7, DeriveAssumption DEF Emit, More, ResolveInv, TypeOK
  <2> QED
    BY <1>1, <1>7, <2>1, <2>2, <2>3 DEF Emit, ResolveInv, Accepted, Valid, input, walk, output
<1>8. CASE Finished \/ UNCHANGED vars
  BY <1>1, <1>8
  DEF Finished, vars, ResolveInv, Accepted, Walked, Seen, AtKey, Row, Valid,
      input, walk, output
<1> QED
  BY <1>2, <1>3, <1>4, <1>5, <1>6, <1>7, <1>8 DEF Next

LEMMA ResolveAlways == Spec => []ResolveInv
BY ResolveInit, ResolveStep, PTL DEF Spec

\* What the invariant says of a table that is emitted.
LEMMA Table ==
  ASSUME ResolveInv, pc = "done", NEW a \in Children, NEW b \in Children
  PROVE  b \in table[a] <=> b \in attr[a] \/ a \in attr[b]
<1>1. a \in Variants /\ b \in Variants /\ a < K /\ b # 0
  BY DeriveAssumption DEF Children, Variants
<1>2. table[a] = Row(a)
  BY <1>1 DEF ResolveInv
<1>3. b \in table[a] <=> b \in connect[a]
  BY <1>1, <1>2 DEF Row
<1>4. Walked /\ keys = {} /\ entries = {}
  BY DEF ResolveInv, Accepted
<1> QED
  BY <1>1, <1>3, <1>4 DEF Walked, Seen

\* Whatever is asked for and in whatever order the maps are walked, two children
\* agree on whether they are connected.
THEOREM AgreedCorrect == Spec => []Agreed
<1>1. ResolveInv => Agreed
  BY Table DEF Agreed
<1> QED
  BY <1>1, ResolveAlways, PTL

\* And they are connected exactly if one of them asks for it.
THEOREM AsAskedCorrect == Spec => []AsAsked
<1>1. ResolveInv => AsAsked
  BY Table DEF AsAsked
<1> QED
  BY <1>1, ResolveAlways, PTL

\* Whether the enum is accepted does not depend on the order of the walk.
THEOREM VerdictCorrect == Spec => []VerdictOfInput
<1>1. ASSUME ResolveInv, pc = "done" PROVE Valid
  <2>1. Walked /\ keys = {} /\ entries = {} /\ (named \/ noDropAll) /\ first
    BY <1>1 DEF ResolveInv, Accepted
  <2>2. \A v \in Variants : attr[v] \subseteq Variants
    BY <2>1 DEF Walked, Seen
  <2> QED
    BY <2>1, <2>2 DEF Valid
<1>2. ResolveInv => VerdictOfInput
  BY <1>1 DEF VerdictOfInput, ResolveInv
<1> QED
  BY <1>2, ResolveAlways, PTL

-----------------------------------------------------------------------------
(***************************************************************************)
(* What Process is given: its constant Rows is the emitted table, without  *)
(* the connection that every process has with the parent, and its N is K.  *)
(***************************************************************************)
ProcessRows == [c \in Children |-> table[c] \ {0}]

\* An enum in which a child asks for itself is accepted as well: see the run
\* process_self for what becomes of it.
NoSelf == \A c \in Children : c \notin attr[c]

\* ProcessAssumption and WellFormed of ProcessProofs, said of that table.
FitForProcess ==
  /\ ProcessRows \in [Children -> SUBSET Children]
  /\ \A a, b \in Children :
       b \in ProcessRows[a] => a \in ProcessRows[b] /\ a # b

\* Whatever enum the macro accepts, unless a child asks for itself, and in
\* whatever order it walks its maps, the table it emits meets what the theorems
\* about Parent::connect and Child::new assume of their table.
THEOREM FitCorrect == Spec => [](pc = "done" /\ NoSelf => FitForProcess)
<1>1. ASSUME ResolveInv, pc = "done", NoSelf PROVE FitForProcess
  <2>1. Children = Variants \ {0}
    BY DeriveAssumption DEF Children, Variants
  <2>2. ProcessRows \in [Children -> SUBSET Children]
    BY <1>1, <2>1 DEF ProcessRows, ResolveInv, TypeOK
  <2>3. \A a, b \in Children : b \in ProcessRows[a] <=> b \in attr[a] \/ a \in attr[b]
    BY <1>1, <2>1, Table DEF ProcessRows
  <2> QED
    BY <1>1, <2>2, <2>3 DEF FitForProcess, NoSelf
<1> QED
  BY <1>1, ResolveAlways, PTL
=============================================================================
