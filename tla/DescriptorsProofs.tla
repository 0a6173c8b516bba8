------------------------- MODULE DescriptorsProofs -------------------------
(***************************************************************************)
(* Proofs about module Descriptors: who owns what, for every set of        *)
(* numbers and files and every size of control buffers.                    *)
(***************************************************************************)
EXTENDS Descriptors, AncillaryProofs, FiniteSetTheorems

-----------------------------------------------------------------------------
(* Sets in order *)

\* In a finite set there is a member with any given number of smaller ones.
LEMMA Placed ==
  ASSUME NEW S, S \subseteq Nat, IsFiniteSet(S)
  PROVE  \A k \in Nat : k < Cardinality(S) =>
           \E n \in S : Cardinality({m \in S : m < n}) = k
<1> DEFINE Below(n) == {m \in S : m < n}
           C == Cardinality(S)
           T == {k \in Nat : k < C => \E n \in S : Cardinality(Below(n)) = k}
<1>1. C \in Nat
  BY FS_CardinalityType
<1>2. \A n : IsFiniteSet(Below(n))
  <2> SUFFICES ASSUME NEW n PROVE IsFiniteSet(Below(n))
    OBVIOUS
  <2>1. Below(n) \subseteq S
    OBVIOUS
  <2> QED
    BY <2>1, FS_Subset
<1>3. 0 \in T
  <2> SUFFICES ASSUME 0 < C PROVE \E n \in S : Cardinality(Below(n)) = 0
    OBVIOUS
  <2>1. S # {}
    BY FS_EmptySet
  <2>2. PICK n \in S : \A m \in S : n <= m
    BY <2>1, LeastMember
  <2>3. Below(n) = {}
    <3> SUFFICES ASSUME NEW m \in S, m < n PROVE FALSE
      OBVIOUS
    <3>1. m \in Nat /\ n \in Nat /\ n <= m
      BY <2>2
    <3> QED
      BY <3>1
  <2> QED
    BY <2>3, FS_EmptySet
<1>4. ASSUME NEW k \in Nat, k \in T PROVE k + 1 \in T
  <2> SUFFICES ASSUME k + 1 < C PROVE \E n \in S : Cardinality(Below(n)) = k + 1
    OBVIOUS
  <2>1. PICK n \in S : Cardinality(Below(n)) = k
    BY <1>1, <1>4
  <2> DEFINE U == Below(n) \cup {n}
             R == S \ U
  <2>2. IsFiniteSet(U) /\ Cardinality(U) = k + 1
    <3>1. n \notin Below(n)
      OBVIOUS
    <3> QED
      BY <1>2, <2>1, <3>1, FS_AddElement
  <2>3. R # {}
    <3>1. U \subseteq S
      OBVIOUS
    <3>2. U # S
      BY <1>1, <2>2
    <3> QED
      BY <3>1, <3>2
  <2>4. PICK p \in R : \A m \in R : p <= m
    BY <2>3, LeastMember
  <2>5. Below(p) = U
    <3>1. \A m \in S : m \in U <=> m <= n
      OBVIOUS
    <3>2. p \in S /\ n < p
      BY <2>4, <3>1
    <3>3. \A m \in S : m < p <=> m \in U
      BY <2>4, <3>1, <3>2
    <3> QED
      BY <3>3
  <2> QED
    BY <2>2, <2>4, <2>5
<1>5. Nat \subseteq T
  BY <1>3, <1>4, SetInduction
<1> QED
  BY <1>5

LEMMA SortedIs ==
  ASSUME NEW S, S \subseteq Nat, IsFiniteSet(S)
  PROVE  /\ Sorted(S) \in Seq(S) /\ Len(Sorted(S)) = Cardinality(S)
         /\ Cardinality(S) \in Nat
         /\ \A i, j \in 1..Cardinality(S) : Sorted(S)[i] = Sorted(S)[j] => i = j
<1> DEFINE C == Cardinality(S)
           Below(n) == {m \in S : m < n}
           At(i) == CHOOSE n \in S : Cardinality(Below(n)) = i - 1
           s == [i \in 1..C |-> At(i)]
<1>1. C \in Nat
  BY FS_CardinalityType
<1>2. ASSUME NEW i \in 1..C PROVE At(i) \in S /\ Cardinality(Below(At(i))) = i - 1
  <2>1. i - 1 \in Nat /\ i - 1 < C
    BY <1>1
  <2>2. \E n \in S : Cardinality(Below(n)) = i - 1
    BY <2>1, Placed
  <2> QED
    BY <2>2
<1> HIDE DEF At, Below
<1>3. s \in Seq(S) /\ Len(s) = C
  BY <1>1, <1>2
<1>4. \A i, j \in 1..C : s[i] = s[j] => i = j
  <2> SUFFICES ASSUME NEW i \in 1..C, NEW j \in 1..C, s[i] = s[j] PROVE i = j
    OBVIOUS
  <2>1. At(i) = At(j)
    OBVIOUS
  <2>2. i - 1 = j - 1
    BY <1>2, <2>1
  <2> QED
    BY <1>1, <2>2
<1>5. Sorted(S) = s
  BY DEF Sorted, At, Below
<1> QED
  BY <1>1, <1>3, <1>4, <1>5

-----------------------------------------------------------------------------
(* The table and the owners *)

OwnerSet ==
  [kind : {"fd", "handler", "other"}, number : Numbers, file : Files, id : Nat,
   shut : BOOLEAN]

\* The inductive invariant, of a table, owners, the numbers at which a Handler was shut
\* down, what is registered and what is forgotten.
Typed(t, os, d, r, f) ==
  /\ t \in [Numbers -> Files \cup {Closed}] /\ os \subseteq OwnerSet /\ IsFiniteSet(os)
  /\ d \subseteq Numbers /\ r \subseteq Numbers \X Files /\ f \subseteq Files

\* An owner's number is open on its file where no Handler was shut down.
Kept(t, os, d) ==
  \A o \in os : /\ o.shut => o.kind = "handler"
                /\ o.number \notin d => ~o.shut /\ t[o.number] = o.file

Alone(os, d) == \A o, q \in os : o.number \notin d /\ q.number = o.number => q = o

Owned(t, os) == \A n \in Numbers : t[n] # Closed => \E o \in os : o.number = n

\* What is registered is the descriptor of a live Handler, or was forgotten.
Accounted(os, r, f) ==
  \A p \in r : p[2] \in f \/ \E o \in os : /\ o.kind = "handler" /\ ~o.shut
                                           /\ o.number = p[1] /\ o.file = p[2]

Awake(os, d, r) ==
  \A o \in os : o.kind = "handler" /\ o.number \notin d => <<o.number, o.file>> \in r

Sound(t, os, d, r, f) ==
  Typed(t, os, d, r, f) /\ Kept(t, os, d) /\ Alone(os, d) /\ Owned(t, os)
    /\ Accounted(os, r, f) /\ Awake(os, d, r)

LEMMA FilesAre ==
  /\ Numbers \subseteq Nat /\ Files \subseteq Nat \ {0} /\ Closed \notin Files
  /\ IsFiniteSet(Numbers) /\ IsFiniteSet(Files)
BY DescriptorsAssumption DEF Closed

LEMMA OwnerIs ==
  ASSUME NEW kind \in {"fd", "handler", "other"}, NEW n \in Numbers, NEW g \in Files,
         NEW i \in Nat
  PROVE  /\ Owner(kind, n, g, i) \in OwnerSet
         /\ Owner(kind, n, g, i).kind = kind /\ Owner(kind, n, g, i).number = n
         /\ Owner(kind, n, g, i).file = g /\ ~Owner(kind, n, g, i).shut
BY DEF Owner, OwnerSet

\* There are fewer owners than ids to choose from.
LEMMA UnusedIs ==
  ASSUME IsFiniteSet(owners), NEW n
  PROVE  \E i \in 0..Cardinality(owners) : \A o \in owners : o.number = n => o.id # i
<1> DEFINE C == Cardinality(owners)
           used == {o.id : o \in owners}
<1>1. C \in Nat
  BY FS_CardinalityType
<1>2. IsFiniteSet(used) /\ Cardinality(used) <= C /\ Cardinality(used) \in Nat
  <2> DEFINE id == [o \in owners |-> o.id]
  <2>1. id \in Surjection(owners, used)
    BY DEF Surjection
  <2> HIDE DEF id, used
  <2> QED
    BY <2>1, FS_Surjection, FS_CardinalityType
<1>3. Cardinality(0..C) = C + 1
  <2>1. 0 \in Int /\ C \in Int /\ C - 0 + 1 = C + 1 /\ ~(0 > C)
    BY <1>1
  <2> HIDE DEF C
  <2> QED
    BY <2>1, FS_Interval
<1>4. ~(0..C \subseteq used)
  <2> SUFFICES ASSUME 0..C \subseteq used PROVE FALSE
    OBVIOUS
  <2>1. Cardinality(0..C) <= Cardinality(used)
    BY <1>2, FS_Subset
  <2> HIDE DEF C, used
  <2> QED
    BY <1>1, <1>2, <1>3, <2>1
<1>5. PICK i \in 0..C : i \notin used
  BY <1>4
<1> QED
  BY <1>5

LEMMA NewOwnerIs ==
  ASSUME IsFiniteSet(owners), NEW kind \in {"fd", "handler", "other"}, NEW n \in Numbers,
         NEW g \in Files
  PROVE  /\ NewOwner(kind, n, g) \in OwnerSet
         /\ NewOwner(kind, n, g).kind = kind /\ NewOwner(kind, n, g).number = n
         /\ NewOwner(kind, n, g).file = g /\ ~NewOwner(kind, n, g).shut
<1> DEFINE i == CHOOSE i \in 0..Cardinality(owners) :
                  \A o \in owners : o.number = n => o.id # i
<1>1. i \in 0..Cardinality(owners)
  BY UnusedIs
<1>2. i \in Nat
  BY <1>1
<1>3. NewOwner(kind, n, g) = Owner(kind, n, g, i)
  BY DEF NewOwner
<1> HIDE DEF i
<1> QED
  BY <1>2, <1>3, OwnerIs

\* The reactor drops what is registered with files that are gone, which no Handler has.
LEMMA Filtered ==
  ASSUME NEW t, NEW os, NEW d, NEW r, NEW f, Sound(t, os, d, r, f), NEW e
  PROVE  Sound(t, os, d, {p \in r : p[2] \in Alive(t, e)}, f \cap Alive(t, e))
<1> DEFINE r2 == {p \in r : p[2] \in Alive(t, e)}
           f2 == f \cap Alive(t, e)
<1>1. Typed(t, os, d, r2, f2)
  BY DEF Sound, Typed
<1>2. Accounted(os, r2, f2)
  BY DEF Sound, Accounted
<1>3. Awake(os, d, r2)
  <2> SUFFICES ASSUME NEW o \in os, o.kind = "handler", o.number \notin d
               PROVE  <<o.number, o.file>> \in r2
    BY DEF Awake
  <2>1. <<o.number, o.file>> \in r /\ t[o.number] = o.file
    BY DEF Sound, Awake, Kept
  <2>2. o.number \in Numbers /\ o.file \in Files
    BY DEF Sound, Typed, OwnerSet
  <2>3. o.file \in Alive(t, e)
    BY <2>1, <2>2, FilesAre DEF Alive
  <2> QED
    BY <2>1, <2>3
<1> QED
  BY <1>1, <1>2, <1>3 DEF Sound

\* A number that no value has is one like the others, whatever was shut down there.
LEMMA Cleared ==
  ASSUME NEW t, NEW os, NEW d, NEW r, NEW f, Sound(t, os, d, r, f),
         NEW d2, d2 = {n \in d : \E o \in os : o.number = n}
  PROVE  Sound(t, os, d2, r, f)
<1>1. d2 \subseteq d /\ \A o \in os : o.number \in d2 <=> o.number \in d
  OBVIOUS
<1>2. Typed(t, os, d2, r, f)
  BY <1>1 DEF Sound, Typed
<1>3. Kept(t, os, d2) /\ Alone(os, d2) /\ Awake(os, d2, r)
  BY <1>1 DEF Sound, Kept, Alone, Awake
<1> QED
  BY <1>2, <1>3 DEF Sound

\* Free numbers are opened, each with a new owner.
LEMMA Opened ==
  ASSUME NEW t, NEW os, NEW d, NEW r, NEW f, Sound(t, os, d, r, f),
         NEW t2 \in [Numbers -> Files \cup {Closed}], NEW os2, os \subseteq os2,
         IsFiniteSet(os2),
         \A n \in Numbers : t2[n] # t[n] => t[n] = Closed /\ \E o \in os2 : o.number = n,
         \A o \in os2 \ os : /\ o \in OwnerSet /\ ~o.shut /\ o.file = t2[o.number]
                             /\ t[o.number] = Closed,
         \A o, q \in os2 \ os : o.number = q.number => o = q,
         NEW r2, r \subseteq r2, r2 \subseteq Numbers \X Files,
         \A o \in os2 \ os : o.kind = "handler" => <<o.number, o.file>> \in r2,
         NEW f2, f \subseteq f2, f2 \subseteq Files,
         \A p \in r2 \ r :
            p[2] \in f2 \/ \E o \in os2 : /\ o.kind = "handler" /\ ~o.shut
                                          /\ o.number = p[1] /\ o.file = p[2]
  PROVE  Sound(t2, os2, d, r2, f2)
<1>1. ASSUME NEW o \in os, o.number \notin d
      PROVE  /\ o.number \in Numbers /\ t[o.number] # Closed /\ t2[o.number] = t[o.number]
  <2>1. o.number \in Numbers /\ o.file \in Files
    BY DEF Sound, Typed, OwnerSet
  <2>2. t[o.number] # Closed
    BY <1>1, <2>1, FilesAre DEF Sound, Kept
  <2> QED
    BY <2>1, <2>2
<1>2. Typed(t2, os2, d, r2, f2)
  <2>1. os \subseteq OwnerSet /\ d \subseteq Numbers
    BY DEF Sound, Typed
  <2> QED
    BY <2>1 DEF Typed
<1>3. Kept(t2, os2, d)
  BY <1>1 DEF Sound, Kept
<1>4. Alone(os2, d)
  BY <1>1 DEF Sound, Alone
<1>5. Owned(t2, os2)
  <2> SUFFICES ASSUME NEW n \in Numbers, t2[n] # Closed PROVE \E o \in os2 : o.number = n
    BY DEF Owned
  <2> QED
    BY DEF Sound, Owned
<1>6. Accounted(os2, r2, f2)
  BY DEF Sound, Accounted
<1>7. Awake(os2, d, r2)
  BY DEF Sound, Awake
<1> QED
  BY <1>2, <1>3, <1>4, <1>5, <1>6, <1>7 DEF Sound

\* An owner goes, and its number is closed.
LEMMA Gone ==
  ASSUME NEW t, NEW os, NEW d, NEW r, NEW f, Sound(t, os, d, r, f), NEW o \in os,
         NEW r2, r2 \subseteq r, \A p \in r \ r2 : p[1] = o.number,
         NEW f2, f \subseteq f2, f2 \subseteq Files,
         o.kind = "handler" /\ ~o.shut => <<o.number, o.file>> \notin r2 \/ o.file \in f2
  PROVE  Sound([t EXCEPT ![o.number] = Closed], os \ {o}, d, r2, f2)
<1> DEFINE n == o.number
           t2 == [t EXCEPT ![n] = Closed]
           os2 == os \ {o}
<1>1. /\ n \in Numbers /\ \A q \in os2 : q.number \in Numbers
      /\ \A q \in os2 : q.number \notin d => q.number # n
  BY DEF Sound, Typed, OwnerSet, Alone
<1>2. t2 \in [Numbers -> Files \cup {Closed}] /\ t2[n] = Closed
      /\ \A m \in Numbers : m # n => t2[m] = t[m]
  BY <1>1 DEF Sound, Typed
<1> HIDE DEF t2, n
<1>3. Typed(t2, os2, d, r2, f2)
  <2>1. IsFiniteSet(os2) /\ os2 \subseteq OwnerSet
    BY FS_Subset DEF Sound, Typed
  <2> QED
    BY <1>2, <2>1 DEF Sound, Typed
<1>4. Kept(t2, os2, d)
  BY <1>1, <1>2 DEF Sound, Kept
<1>5. Alone(os2, d)
  BY DEF Sound, Alone
<1>6. Owned(t2, os2)
  BY <1>2 DEF Sound, Owned, n
<1>7. Accounted(os2, r2, f2)
  <2> SUFFICES ASSUME NEW p \in r2, p[2] \notin f2
               PROVE  \E q \in os2 : /\ q.kind = "handler" /\ ~q.shut
                                     /\ q.number = p[1] /\ q.file = p[2]
    BY DEF Accounted
  <2>1. PICK q \in os : /\ q.kind = "handler" /\ ~q.shut
                        /\ q.number = p[1] /\ q.file = p[2]
    BY DEF Sound, Accounted
  <2>2. p = <<p[1], p[2]>>
    BY DEF Sound, Typed
  <2>3. q # o
    BY <2>1, <2>2
  <2> QED
    BY <2>1, <2>3
<1>8. Awake(os2, d, r2)
  <2> SUFFICES ASSUME NEW q \in os2, q.kind = "handler", q.number \notin d
               PROVE  <<q.number, q.file>> \in r2
    BY DEF Awake
  <2>1. <<q.number, q.file>> \in r
    BY DEF Sound, Awake
  <2>2. <<q.number, q.file>>[1] # n
    BY <1>1
  <2> QED
    BY <2>1, <2>2 DEF n
<1> HIDE DEF os2
<1>9. Sound(t2, os2, d, r2, f2)
  BY <1>3, <1>4, <1>5, <1>6, <1>7, <1>8 DEF Sound
<1> QED
  BY <1>9 DEF t2, os2, n

\* An owner becomes one of another kind, of what its number is open on.
LEMMA Turned ==
  ASSUME NEW t, NEW os, NEW d, NEW r, NEW f, Sound(t, os, d, r, f), NEW o \in os,
         o.kind # "handler",
         NEW o2 \in OwnerSet, o2.number = o.number, ~o2.shut,
         o2.file = o.file \/ o2.file = t[o.number],
         NEW r2, r2 = r \/ (r2 = r \cup {<<o2.number, o2.file>>} /\ o2.kind = "handler"),
         o2.kind = "handler" => <<o2.number, o2.file>> \in r2
  PROVE  Sound(t, (os \ {o}) \cup {o2}, d, r2, f)
<1> DEFINE os2 == (os \ {o}) \cup {o2}
           n == o.number
<1>1. n \in Numbers /\ o2.file \in Files /\ o2.number = n
  BY DEF Sound, Typed, OwnerSet
<1>2. /\ \A q \in os : q # o /\ q.number = n => n \in d
      /\ n \notin d => t[n] = o2.file
  BY DEF Sound, Alone, Kept
<1>3. Typed(t, os2, d, r2, f)
  <2>1. r2 \subseteq Numbers \X Files
    BY <1>1 DEF Sound, Typed
  <2>2. IsFiniteSet(os2)
    <3>1. IsFiniteSet(os \ {o})
      BY FS_Subset DEF Sound, Typed
    <3> QED
      BY <3>1, FS_AddElement
  <2> QED
    BY <2>1, <2>2 DEF Sound, Typed
<1>4. Kept(t, os2, d)
  BY <1>2 DEF Sound, Kept
<1>5. Alone(os2, d)
  BY <1>2 DEF Sound, Alone
<1>6. Owned(t, os2)
  <2> SUFFICES ASSUME NEW m \in Numbers, t[m] # Closed PROVE \E q \in os2 : q.number = m
    BY DEF Owned
  <2>1. PICK q \in os : q.number = m
    BY DEF Sound, Owned
  <2> QED
    BY <2>1
<1>7. Accounted(os2, r2, f)
  <2> SUFFICES ASSUME NEW p \in r2, p[2] \notin f
               PROVE  \E q \in os2 : /\ q.kind = "handler" /\ ~q.shut
                                     /\ q.number = p[1] /\ q.file = p[2]
    BY DEF Accounted
  <2>1. CASE p \in r
    <3>1. PICK q \in os : /\ q.kind = "handler" /\ ~q.shut
                          /\ q.number = p[1] /\ q.file = p[2]
      BY <2>1 DEF Sound, Accounted
    <3> QED
      BY <3>1
  <2>2. CASE p \notin r
    <3>1. p = <<o2.number, o2.file>> /\ o2.kind = "handler"
      BY <2>2
    <3> QED
      BY <3>1
  <2> QED
    BY <2>1, <2>2
<1>8. Awake(os2, d, r2)
  BY DEF Sound, Awake
<1> HIDE DEF os2
<1>9. Sound(t, os2, d, r2, f)
  BY <1>3, <1>4, <1>5, <1>6, <1>7, <1>8 DEF Sound
<1> QED
  BY <1>9 DEF os2

\* A Handler is shut down: its number is closed, and is one where that has happened.
LEMMA ShutAway ==
  ASSUME NEW t, NEW os, NEW d, NEW r, NEW f, Sound(t, os, d, r, f), NEW o \in os,
         o.kind = "handler",
         NEW o2 \in OwnerSet, o2.number = o.number, o2.kind = "handler", o2.shut,
         NEW f2, f \subseteq f2, f2 \subseteq Files, o.file \in f2
  PROVE  Sound([t EXCEPT ![o.number] = Closed], (os \ {o}) \cup {o2}, d \cup {o.number}, r, f2)
<1> DEFINE n == o.number
           t2 == [t EXCEPT ![n] = Closed]
           os2 == (os \ {o}) \cup {o2}
           d2 == d \cup {n}
<1>1. n \in Numbers /\ \A q \in os : q.number \in Numbers
  BY DEF Sound, Typed, OwnerSet
<1>2. t2 \in [Numbers -> Files \cup {Closed}] /\ t2[n] = Closed
      /\ \A m \in Numbers : m # n => t2[m] = t[m]
  BY <1>1 DEF Sound, Typed
<1> HIDE DEF t2
<1>3. Typed(t2, os2, d2, r, f2)
  <2>1. IsFiniteSet(os2)
    <3>1. IsFiniteSet(os \ {o})
      BY FS_Subset DEF Sound, Typed
    <3> QED
      BY <3>1, FS_AddElement
  <2> QED
    BY <1>1, <1>2, <2>1 DEF Sound, Typed
<1>4. Kept(t2, os2, d2)
  BY <1>1, <1>2 DEF Sound, Kept
<1>5. Alone(os2, d2)
  BY DEF Sound, Alone
<1>6. Owned(t2, os2)
  <2> SUFFICES ASSUME NEW m \in Numbers, t2[m] # Closed PROVE \E q \in os2 : q.number = m
    BY DEF Owned
  <2>1. t[m] # Closed
    BY <1>2
  <2>2. PICK q \in os : q.number = m
    BY <2>1 DEF Sound, Owned
  <2> QED
    BY <2>2
<1>7. Accounted(os2, r, f2)
  <2> SUFFICES ASSUME NEW p \in r, p[2] \notin f2
               PROVE  \E q \in os2 : /\ q.kind = "handler" /\ ~q.shut
                                     /\ q.number = p[1] /\ q.file = p[2]
    BY DEF Accounted
  <2>1. PICK q \in os : /\ q.kind = "handler" /\ ~q.shut
                        /\ q.number = p[1] /\ q.file = p[2]
    BY DEF Sound, Accounted
  <2> QED
    BY <2>1
<1>8. Awake(os2, d2, r)
  BY DEF Sound, Awake
<1> HIDE DEF os2, d2
<1>9. Sound(t2, os2, d2, r, f2)
  BY <1>3, <1>4, <1>5, <1>6, <1>7, <1>8 DEF Sound
<1> QED
  BY <1>9 DEF t2, os2, d2, n

-----------------------------------------------------------------------------
(* Free numbers and fresh files *)

LEMMA FreeNumbersAre ==
  ASSUME Sound(table, owners, shutAt, reactor, forgotten)
  PROVE  /\ FreeNumbers \in Seq(Numbers) /\ FreeNumbers \in Seq(Nat) /\ Len(FreeNumbers) \in Nat
         /\ \A i \in 1..Len(FreeNumbers) :
              FreeNumbers[i] \in Numbers /\ table[FreeNumbers[i]] = Closed
         /\ \A i, j \in 1..Len(FreeNumbers) : FreeNumbers[i] = FreeNumbers[j] => i = j
<1> DEFINE S == {n \in Numbers : table[n] = Closed}
<1>1. S \subseteq Numbers /\ S \subseteq Nat
  BY FilesAre
<1>2. IsFiniteSet(S)
  BY <1>1, FilesAre, FS_Subset
<1>3. FreeNumbers = Sorted(S)
  BY DEF FreeNumbers
<1>4. \A n \in S : table[n] = Closed
  OBVIOUS
<1> HIDE DEF S
<1>5. /\ FreeNumbers \in Seq(S) /\ Len(FreeNumbers) \in Nat
      /\ \A i, j \in 1..Len(FreeNumbers) : FreeNumbers[i] = FreeNumbers[j] => i = j
  BY <1>1, <1>2, <1>3, SortedIs
<1>6. FreeNumbers \in Seq(Numbers) /\ FreeNumbers \in Seq(Nat)
  BY <1>1, <1>5, SeqMonotonic
<1>7. \A i \in 1..Len(FreeNumbers) : FreeNumbers[i] \in S
  BY <1>5, ElementOfSeq
<1> HIDE DEF FreeNumbers
<1> QED
  BY <1>1, <1>4, <1>5, <1>6, <1>7

LEMMA FreshAre ==
  /\ Fresh \in Seq(Files) /\ Len(Fresh) \in Nat
  /\ \A i \in 1..Len(Fresh) : Fresh[i] \in Files
  /\ \A i, j \in 1..Len(Fresh) : Fresh[i] = Fresh[j] => i = j
<1> DEFINE S == Files \ (Alive(table, elsewhere) \cup {o.file : o \in owners})
<1>1. S \subseteq Files /\ S \subseteq Nat
  BY FilesAre
<1>2. IsFiniteSet(S)
  BY <1>1, FilesAre, FS_Subset
<1>3. Fresh = Sorted(S)
  BY DEF Fresh
<1> HIDE DEF S
<1>4. /\ Fresh \in Seq(S) /\ Len(Fresh) \in Nat
      /\ \A i, j \in 1..Len(Fresh) : Fresh[i] = Fresh[j] => i = j
  BY <1>1, <1>2, <1>3, SortedIs
<1>5. Fresh \in Seq(Files)
  BY <1>1, <1>4, SeqMonotonic
<1>6. \A i \in 1..Len(Fresh) : Fresh[i] \in Files
  BY <1>5, ElementOfSeq
<1> HIDE DEF Fresh
<1> QED
  BY <1>4, <1>5, <1>6

\* Different numbers that can be used.
Usables(ns) ==
  /\ ns \in Seq(Numbers) /\ \A i, j \in 1..Len(ns) : ns[i] = ns[j] => i = j
  /\ \A i \in 1..Len(ns) : table[ns[i]] = Closed

LEMMA OneUsable ==
  ASSUME Sound(table, owners, shutAt, reactor, forgotten), FreeNumbers # <<>>
  PROVE  Usables(<<FreeNumbers[1]>>)
<1>1. Len(FreeNumbers) >= 1
  BY FreeNumbersAre, EmptySeq
<1>2. FreeNumbers[1] \in Numbers /\ table[FreeNumbers[1]] = Closed
  BY <1>1, FreeNumbersAre
<1> DEFINE n == FreeNumbers[1]
<1> HIDE DEF n
<1>3. <<n>> \in Seq(Numbers) /\ Len(<<n>>) = 1 /\ <<n>>[1] = n
  BY <1>2 DEF n
<1>4. Usables(<<n>>)
  BY <1>2, <1>3 DEF Usables, n
<1> QED
  BY <1>4 DEF n

LEMMA FirstUsable ==
  ASSUME Sound(table, owners, shutAt, reactor, forgotten), NEW k \in 0..Len(FreeNumbers)
  PROVE  /\ Usables(SubSeq(FreeNumbers, 1, k)) /\ Len(SubSeq(FreeNumbers, 1, k)) = k
         /\ \A i \in 1..k : SubSeq(FreeNumbers, 1, k)[i] = FreeNumbers[i]
         /\ SubSeq(FreeNumbers, 1, k) \in Seq(Nat)
<1> DEFINE s == SubSeq(FreeNumbers, 1, k)
<1>1. /\ FreeNumbers \in Seq(Numbers) /\ Len(FreeNumbers) \in Nat
      /\ \A i \in 1..Len(FreeNumbers) : FreeNumbers[i] \in Numbers
  BY FreeNumbersAre
<1>2. k \in Nat /\ k <= Len(FreeNumbers) /\ 1..k \subseteq 1..Len(FreeNumbers)
  BY <1>1
<1> DEFINE F == FreeNumbers
<1>3. s \in Seq(Numbers) /\ Len(s) = k /\ \A i \in 1..k : s[i] = F[i]
  <2>1. /\ s \in Seq(Numbers) /\ Len(s) = IF 1 <= k THEN k - 1 + 1 ELSE 0
        /\ \A i \in 1..(k - 1 + 1) : s[i] = F[1 + i - 1]
    <3>1. \A i \in 1..k : F[i] \in Numbers
      BY <1>1, <1>2
    <3> HIDE DEF F
    <3> QED
      BY <1>2, <3>1, SubSeqProperties DEF F
  <2>2. k - 1 + 1 = k /\ \A i \in 1..k : 1 + i - 1 = i
    BY <1>2
  <2> HIDE DEF s, F
  <2> QED
    BY <1>2, <2>1, <2>2
<1> HIDE DEF s
<1>4. Usables(s)
  BY <1>2, <1>3, FreeNumbersAre DEF Usables
<1>5. s \in Seq(Nat)
  BY <1>3, FilesAre, SeqMonotonic
<1> QED
  BY <1>3, <1>4, <1>5 DEF s

NewOwners(kind, ns, fs) == {NewOwner(kind, ns[i], fs[i]) : i \in 1..Len(ns)}
NewEntries(ns, fs) == {<<ns[i], fs[i]>> : i \in 1..Len(ns)}

LEMMA NewOwnersFinite ==
  ASSUME NEW kind, NEW ns, Usables(ns), NEW fs
  PROVE  IsFiniteSet(NewOwners(kind, ns, fs))
<1> DEFINE I == 1..Len(ns)
           new == [i \in I |-> NewOwner(kind, ns[i], fs[i])]
<1>1. IsFiniteSet(I)
  <2>1. Len(ns) \in Nat
    BY DEF Usables
  <2>2. Len(ns) \in Int /\ 1 \in Int
    BY <2>1
  <2> QED
    BY <2>2, FS_Interval
<1>2. new \in Surjection(I, NewOwners(kind, ns, fs))
  BY DEF Surjection, NewOwners
<1> HIDE DEF I, new
<1> QED
  BY <1>1, <1>2, FS_Surjection

\* Opening different numbers opens each on its file.
LEMMA OpenIs ==
  ASSUME NEW ns, Usables(ns), NEW fs
  PROVE  /\ \A i \in 1..Len(ns) : Open(ns, fs)[ns[i]] = fs[i]
         /\ \A n \in Numbers : (\A i \in 1..Len(ns) : ns[i] # n) => Open(ns, fs)[n] = table[n]
<1> DEFINE I == 1..Len(ns)
<1>1. /\ \A i \in I : ns[i] \in Numbers
      /\ \A i, j \in I : ns[i] = ns[j] => i = j
  BY ElementOfSeq DEF Usables
<1>2. ASSUME NEW i \in I PROVE Open(ns, fs)[ns[i]] = fs[i]
  <2>1. (CHOOSE j \in I : ns[j] = ns[i]) = i
    BY <1>1
  <2> HIDE DEF I
  <2>2. \E j \in I : ns[j] = ns[i]
    OBVIOUS
  <2>3. Open(ns, fs)[ns[i]] = IF \E j \in I : ns[j] = ns[i]
                              THEN fs[CHOOSE j \in I : ns[j] = ns[i]] ELSE table[ns[i]]
    BY <1>1 DEF Open, I
  <2> QED
    BY <2>1, <2>2, <2>3
<1>3. \A n \in Numbers : (\A i \in I : ns[i] # n) => Open(ns, fs)[n] = table[n]
  BY DEF Open
<1> QED
  BY <1>2, <1>3

LEMMA OpenSound ==
  ASSUME Sound(table, owners, shutAt, reactor, forgotten),
         NEW ns, Usables(ns), NEW fs, \A i \in 1..Len(ns) : fs[i] \in Files,
         NEW kind \in {"fd", "handler", "other"}, NEW r2, NEW f2,
         r2 = reactor \/ r2 = reactor \cup NewEntries(ns, fs),
         kind = "handler" => r2 = reactor \cup NewEntries(ns, fs),
         forgotten \subseteq f2, f2 \subseteq Files,
         r2 = reactor \/ kind = "handler" \/ \A i \in 1..Len(ns) : fs[i] \in f2
  PROVE  Sound(Open(ns, fs), owners \cup NewOwners(kind, ns, fs), shutAt, r2, f2)
<1> DEFINE I == 1..Len(ns)
           t2 == Open(ns, fs)
           new == NewOwners(kind, ns, fs)
           os2 == owners \cup new
<1>1. /\ \A i \in I : t2[ns[i]] = fs[i]
      /\ \A n \in Numbers : (\A i \in I : ns[i] # n) => t2[n] = table[n]
      /\ t2 = [n \in Numbers |-> t2[n]]
  <2>1. t2 = [n \in Numbers |-> t2[n]]
    BY DEF Open
  <2> QED
    BY <2>1, OpenIs
<1>2. /\ \A i \in I : ns[i] \in Numbers /\ table[ns[i]] = Closed
      /\ \A i, j \in I : ns[i] = ns[j] => i = j
  BY ElementOfSeq DEF Usables
<1>3. \A i \in I : /\ NewOwner(kind, ns[i], fs[i]) \in OwnerSet
                   /\ NewOwner(kind, ns[i], fs[i]).kind = kind
                   /\ NewOwner(kind, ns[i], fs[i]).number = ns[i]
                   /\ NewOwner(kind, ns[i], fs[i]).file = fs[i]
                   /\ ~NewOwner(kind, ns[i], fs[i]).shut
                   /\ NewOwner(kind, ns[i], fs[i]) \in new
  BY <1>2, NewOwnerIs DEF NewOwners, Sound, Typed
<1>4. \A o \in new : \E i \in I : o = NewOwner(kind, ns[i], fs[i])
  BY DEF NewOwners
<1>5. /\ r2 \subseteq Numbers \X Files
      /\ \A p \in r2 \ reactor : \E i \in I : p = <<ns[i], fs[i]>>
      /\ kind = "handler" => \A i \in I : <<ns[i], fs[i]>> \in r2
  <2>1. reactor \subseteq Numbers \X Files
    BY DEF Sound, Typed
  <2> QED
    BY <1>2, <2>1 DEF NewEntries
<1> HIDE DEF new, t2, I
<1>6. t2 \in [Numbers -> Files \cup {Closed}]
  <2>1. table \in [Numbers -> Files \cup {Closed}]
    BY DEF Sound, Typed
  <2>2. \A n \in Numbers : t2[n] \in Files \cup {Closed}
    BY <1>1, <2>1 DEF I
  <2> QED
    BY <1>1, <2>2
<1>7. \A n \in Numbers : t2[n] # table[n] => table[n] = Closed /\ \E o \in os2 : o.number = n
  BY <1>1, <1>2, <1>3
<1>8. \A o \in os2 \ owners : /\ o \in OwnerSet /\ ~o.shut /\ o.file = t2[o.number]
                              /\ table[o.number] = Closed
  BY <1>1, <1>2, <1>3, <1>4 DEF I
<1>9. \A o, q \in os2 \ owners : o.number = q.number => o = q
  BY <1>2, <1>3, <1>4
<1>10. \A o \in os2 \ owners : o.kind = "handler" => <<o.number, o.file>> \in r2
  BY <1>3, <1>4, <1>5
<1>11. \A p \in r2 \ reactor :
         p[2] \in f2 \/ \E o \in os2 : /\ o.kind = "handler" /\ ~o.shut
                                       /\ o.number = p[1] /\ o.file = p[2]
  <2> SUFFICES ASSUME NEW p \in r2 \ reactor, p[2] \notin f2
               PROVE  \E o \in os2 : /\ o.kind = "handler" /\ ~o.shut
                                     /\ o.number = p[1] /\ o.file = p[2]
    OBVIOUS
  <2>1. PICK i \in I : p = <<ns[i], fs[i]>>
    BY <1>5
  <2>2. kind = "handler"
    BY <2>1 DEF I
  <2> QED
    BY <1>3, <2>1, <2>2
<1>12. reactor \subseteq r2 /\ owners \subseteq os2
  OBVIOUS
<1>13. IsFiniteSet(os2)
  <2>1. IsFiniteSet(owners) /\ IsFiniteSet(new)
    BY NewOwnersFinite DEF Sound, Typed, new
  <2> QED
    BY <2>1, FS_Union
<1> HIDE DEF os2
<1>14. Sound(t2, os2, shutAt, r2, f2)
  BY <1>5, <1>6, <1>7, <1>8, <1>9, <1>10, <1>11, <1>12, <1>13, Opened
<1> QED
  BY <1>14 DEF t2, os2, new

LEMMA OneNew ==
  ASSUME NEW kind, NEW n, NEW g
  PROVE  NewOwners(kind, <<n>>, <<g>>) = {NewOwner(kind, n, g)}
<1>1. Len(<<n>>) = 1 /\ <<n>>[1] = n /\ <<g>>[1] = g
  OBVIOUS
<1> QED
  BY <1>1 DEF NewOwners

-----------------------------------------------------------------------------
(* The steps *)

TableSound == Sound(table, owners, shutAt, reactor, forgotten) /\ elsewhere \subseteq Files

\* What a step does to the table and the owners, before the kernel forgets what is gone.
LEMMA KernelStep ==
  ASSUME TableSound, NEW t, NEW r, NEW f, Sound(t, owners', shutAt', r, f),
         KernelForgetting(t, elsewhere, r, f)
  PROVE  TableSound'
<1>1. /\ table' = t /\ elsewhere' = elsewhere
      /\ reactor' = {p \in r : p[2] \in Alive(t, elsewhere)}
      /\ forgotten' = f \cap Alive(t, elsewhere)
  BY DEF KernelForgetting
<1>2. Sound(t, owners', shutAt', {p \in r : p[2] \in Alive(t, elsewhere)},
            f \cap Alive(t, elsewhere))
  BY Filtered
<1>3. Sound(table', owners', shutAt', reactor', forgotten')
  BY <1>1, <1>2
<1> QED
  BY <1>1, <1>3 DEF TableSound

LEMMA OwnersStep ==
  ASSUME TableSound, NEW t, NEW r, NEW f, NEW os, Sound(t, os, shutAt, r, f),
         KernelForgetting(t, elsewhere, r, f), OwnersBecome(os)
  PROVE  TableSound'
<1>1. owners' = os /\ shutAt' = {n \in shutAt : \E o \in os : o.number = n}
  BY DEF OwnersBecome
<1>2. Sound(t, owners', shutAt', r, f)
  BY <1>1, Cleared
<1> QED
  BY <1>2, KernelStep

LEMMA OneOpened ==
  ASSUME TableSound, FreeNumbers # <<>>, NEW g \in Files,
         NEW kind \in {"fd", "other"}
  PROVE  Sound(Open(<<FreeNumbers[1]>>, <<g>>), owners \cup {NewOwner(kind, FreeNumbers[1], g)},
               shutAt, reactor, forgotten)
<1> DEFINE n == FreeNumbers[1]
           ns == <<n>>
           fs == <<g>>
<1>1. Usables(ns)
  BY OneUsable DEF TableSound
<1> HIDE DEF n
<1>2. Len(ns) = 1 /\ fs[1] = g
  OBVIOUS
<1>3. \A i \in 1..Len(ns) : fs[i] \in Files
  BY <1>2
<1>4. /\ kind # "handler" /\ kind \in {"fd", "handler", "other"}
      /\ forgotten \subseteq Files /\ Sound(table, owners, shutAt, reactor, forgotten)
  BY DEF TableSound, Sound, Typed
<1>5. owners \cup NewOwners(kind, ns, fs) = owners \cup {NewOwner(kind, n, g)}
  BY OneNew
<1> HIDE DEF ns, fs
<1>6. Sound(Open(ns, fs), owners \cup NewOwners(kind, ns, fs), shutAt, reactor, forgotten)
  BY <1>1, <1>3, <1>4, OpenSound
<1> QED
  BY <1>5, <1>6 DEF ns, fs, n

LEMMA OpenOtherStep ==
  ASSUME TableSound, OpenOther
  PROVE  TableSound'
<1> DEFINE n == FreeNumbers[1]
           g == Fresh[1]
           t == Open(<<n>>, <<g>>)
           os == owners \cup {NewOwner("other", n, g)}
<1>1. /\ FreeNumbers # <<>> /\ Fresh # <<>> /\ OwnersBecome(os)
      /\ KernelForgetting(t, elsewhere, reactor, forgotten)
  BY DEF OpenOther, Kernel
<1>2. g \in Files
  BY <1>1, FreshAre, EmptySeq
<1>3. Sound(t, os, shutAt, reactor, forgotten)
  BY <1>1, <1>2, OneOpened
<1> HIDE DEF t, os
<1> QED
  BY <1>1, <1>3, OwnersStep

LEMMA DuplicateStep ==
  ASSUME TableSound, NEW o \in owners, Duplicate(o)
  PROVE  TableSound'
<1> DEFINE n == FreeNumbers[1]
           g == table[o.number]
           t == Open(<<n>>, <<g>>)
           os == owners \cup {NewOwner("fd", n, g)}
<1>1. /\ FreeNumbers # <<>> /\ g # Closed /\ OwnersBecome(os)
      /\ KernelForgetting(t, elsewhere, reactor, forgotten)
  BY DEF Duplicate, Kernel
<1>2. g \in Files
  BY <1>1 DEF TableSound, Sound, Typed, OwnerSet
<1> HIDE DEF g
<1>3. Sound(t, os, shutAt, reactor, forgotten)
  BY <1>1, <1>2, OneOpened
<1> HIDE DEF t, os
<1> QED
  BY <1>1, <1>3, OwnersStep

LEMMA PairOpened ==
  ASSUME TableSound, NEW kind \in {"handler", "fd"}, MakePair(kind),
         NEW f2, forgotten \subseteq f2, f2 \subseteq Files,
         kind = "fd" => {Fresh[1], Fresh[2]} \subseteq f2
  PROVE  Sound(table', owners', shutAt', reactor', f2) /\ elsewhere' = elsewhere
<1> DEFINE ns == SubSeq(FreeNumbers, 1, 2)
           fs == SubSeq(Fresh, 1, 2)
<1>1. /\ Len(FreeNumbers) >= 2 /\ Len(Fresh) >= 2 /\ table' = Open(ns, fs)
      /\ OwnersBecome(owners \cup {NewOwner(kind, FreeNumbers[i], Fresh[i]) : i \in 1..2})
      /\ reactor' = reactor \cup {<<FreeNumbers[i], Fresh[i]>> : i \in 1..2}
      /\ elsewhere' = elsewhere
  BY DEF MakePair
<1>2. /\ Usables(ns) /\ Len(ns) = 2 /\ ns[1] = FreeNumbers[1] /\ ns[2] = FreeNumbers[2]
  <2>1. 2 \in 0..Len(FreeNumbers)
    BY <1>1, FreeNumbersAre
  <2> HIDE DEF ns
  <2> QED
    BY <2>1, FirstUsable DEF TableSound, ns
<1>3. fs[1] = Fresh[1] /\ fs[2] = Fresh[2]
  <2> DEFINE F == Fresh
  <2>1. F \in Seq(Files) /\ Len(F) \in Nat /\ Len(F) >= 2
    BY <1>1, FreshAre
  <2> HIDE DEF F
  <2>2. SubSeq(F, 1, 2)[1] = F[1] /\ SubSeq(F, 1, 2)[2] = F[2]
    BY <2>1
  <2> QED
    BY <2>2 DEF F
<1>4. Fresh[1] \in Files /\ Fresh[2] \in Files
  BY <1>1, FreshAre
<1> HIDE DEF ns, fs
<1>5. /\ owners' = owners \cup NewOwners(kind, ns, fs)
      /\ shutAt' = {n \in shutAt : \E o \in owners' : o.number = n}
  <2>1. {NewOwner(kind, FreeNumbers[i], Fresh[i]) : i \in 1..2} = NewOwners(kind, ns, fs)
    BY <1>2, <1>3 DEF NewOwners
  <2> QED
    BY <1>1, <2>1 DEF OwnersBecome
<1>6. reactor' = reactor \cup NewEntries(ns, fs)
  BY <1>1, <1>2, <1>3 DEF NewEntries
<1>7. \A i \in 1..Len(ns) : fs[i] \in Files /\ (kind = "fd" => fs[i] \in f2)
  BY <1>2, <1>3, <1>4
<1>8. Sound(table, owners, shutAt, reactor, forgotten)
  BY DEF TableSound
<1> DEFINE r2 == reactor \cup NewEntries(ns, fs)
<1>9. /\ r2 = reactor \cup NewEntries(ns, fs) /\ kind \in {"fd", "handler", "other"}
      /\ kind = "handler" \/ \A i \in 1..Len(ns) : fs[i] \in f2
  BY <1>7
<1> HIDE DEF r2
<1>10. Sound(Open(ns, fs), owners \cup NewOwners(kind, ns, fs), shutAt, r2, f2)
  BY <1>2, <1>7, <1>8, <1>9, OpenSound
<1>11. Sound(table', owners', shutAt, reactor', f2)
  BY <1>1, <1>5, <1>6, <1>9, <1>10
<1> QED
  BY <1>1, <1>5, <1>11, Cleared

LEMMA PairStep ==
  ASSUME TableSound, Pair
  PROVE  TableSound'
<1> DEFINE f2 == forgotten
           kind == "handler"
<1>1. MakePair(kind) /\ forgotten' = f2
  BY DEF Pair
<1>2. forgotten \subseteq f2 /\ f2 \subseteq Files /\ kind \in {"handler", "fd"} /\ kind # "fd"
  BY DEF TableSound, Sound, Typed
<1> HIDE DEF f2, kind
<1>3. Sound(table', owners', shutAt', reactor', f2) /\ elsewhere' = elsewhere
  BY <1>1, <1>2, PairOpened
<1> QED
  BY <1>1, <1>3 DEF TableSound

LEMMA SocketpairStep ==
  ASSUME TableSound, Socketpair
  PROVE  TableSound'
<1> DEFINE f2 == forgotten \cup {Fresh[1], Fresh[2]}
           kind == "fd"
<1>1. MakePair(kind) /\ forgotten' = f2
  BY DEF Socketpair
<1>2. Fresh[1] \in Files /\ Fresh[2] \in Files
  BY <1>1, FreshAre DEF MakePair
<1>3. /\ forgotten \subseteq f2 /\ f2 \subseteq Files /\ kind \in {"handler", "fd"}
      /\ {Fresh[1], Fresh[2]} \subseteq f2
  BY <1>2 DEF TableSound, Sound, Typed
<1> HIDE DEF f2, kind
<1>4. Sound(table', owners', shutAt', reactor', f2) /\ elsewhere' = elsewhere
  BY <1>1, <1>3, PairOpened
<1> QED
  BY <1>1, <1>4 DEF TableSound

LEMMA IntoRawFdStep ==
  ASSUME TableSound, NEW o \in owners, IntoRawFd(o)
  PROVE  TableSound'
<1> DEFINE o2 == [o EXCEPT !.kind = "other"]
           os == (owners \ {o}) \cup {o2}
<1>1. /\ o.kind = "fd" /\ OwnersBecome(os) /\ o \in OwnerSet
      /\ table' = table /\ elsewhere' = elsewhere /\ reactor' = reactor /\ forgotten' = forgotten
      /\ Sound(table, owners, shutAt, reactor, forgotten)
  BY DEF IntoRawFd, TableSound, Sound, Typed
<1>2. ~o.shut /\ o.kind # "handler"
  BY <1>1 DEF Sound, Kept
<1>3. /\ o2 \in OwnerSet /\ o2.number = o.number /\ o2.file = o.file /\ o2.kind = "other"
      /\ ~o2.shut
  BY <1>1, <1>2 DEF OwnerSet
<1> HIDE DEF o2
<1>4. Sound(table, os, shutAt, reactor, forgotten)
  <2> DEFINE r2 == reactor
  <2>1. r2 = reactor /\ o2.kind # "handler" /\ (o2.file = o.file \/ o2.file = table[o.number])
    BY <1>3
  <2>2. /\ r2 = reactor \/ (r2 = reactor \cup {<<o2.number, o2.file>>} /\ o2.kind = "handler")
        /\ o2.kind = "handler" => <<o2.number, o2.file>> \in r2
    BY <2>1
  <2> HIDE DEF r2
  <2>3. Sound(table, os, shutAt, r2, forgotten)
    BY <1>1, <1>2, <1>3, <2>1, <2>2, Turned
  <2> QED
    BY <2>1, <2>3
<1> HIDE DEF os
<1>5. owners' = os /\ shutAt' = {n \in shutAt : \E q \in os : q.number = n}
  BY <1>1 DEF OwnersBecome
<1>6. Sound(table, os, shutAt', reactor, forgotten)
  BY <1>4, <1>5, Cleared
<1> QED
  BY <1>1, <1>5, <1>6 DEF TableSound

LEMMA FromRawFdStep ==
  ASSUME TableSound, NEW o \in owners, FromRawFd(o)
  PROVE  TableSound'
<1> DEFINE n == o.number
           g == table[n]
<1>1. /\ o.kind \in {"fd", "other"} /\ o \in OwnerSet /\ o.kind # "handler"
      /\ Sound(table, owners, shutAt, reactor, forgotten)
  BY DEF FromRawFd, TableSound, Sound, Typed
<1>2. ~o.shut /\ n \in Numbers /\ g \in Files \cup {Closed} /\ forgotten \subseteq Files
  BY <1>1 DEF Sound, Typed, Kept, OwnerSet
<1>3. CASE Registrable(n)
  <2> DEFINE o2 == [o EXCEPT !.kind = "handler", !.file = g]
             os == (owners \ {o}) \cup {o2}
             r2 == reactor \cup {<<n, g>>}
  <2>1. KernelForgetting(table, elsewhere, r2, forgotten) /\ OwnersBecome(os)
    BY <1>3 DEF FromRawFd, Kernel, Adopted
  <2>2. g \in Files
    BY <1>2, <1>3 DEF Registrable
  <2>3. /\ o2 \in OwnerSet /\ o2.number = n /\ o2.file = g /\ o2.kind = "handler"
        /\ ~o2.shut
    BY <1>1, <1>2, <2>2 DEF OwnerSet
  <2>4. r2 = reactor \cup {<<o2.number, o2.file>>} /\ <<o2.number, o2.file>> \in r2
    BY <2>3
  <2> HIDE DEF o2, r2
  <2>5. Sound(table, os, shutAt, r2, forgotten)
    BY <1>1, <2>3, <2>4, Turned
  <2> HIDE DEF os
  <2> QED
    BY <2>1, <2>5, OwnersStep
<1>4. CASE ~Registrable(n)
  <2> DEFINE t == [table EXCEPT ![n] = Closed]
             os == owners \ {o}
             r2 == reactor
             f2 == forgotten
  <2>1. KernelForgetting(t, elsewhere, r2, f2) /\ OwnersBecome(os)
    BY <1>4 DEF FromRawFd, Kernel, Close
  <2>2. r2 \subseteq reactor /\ reactor \ r2 = {} /\ forgotten \subseteq f2 /\ f2 \subseteq Files
    BY <1>2
  <2> HIDE DEF r2, f2
  <2>3. Sound(t, os, shutAt, r2, f2)
    BY <1>1, <2>2, Gone
  <2> HIDE DEF t, os
  <2> QED
    BY <2>1, <2>3, OwnersStep
<1> QED
  BY <1>3, <1>4

LEMMA DropStep ==
  ASSUME TableSound, NEW o \in owners, Drop(o)
  PROVE  TableSound'
<1> DEFINE n == o.number
           t == [table EXCEPT ![n] = Closed]
           os == owners \ {o}
           r2 == Dropped(o)
           f2 == forgotten \cup LeftBehind(o)
<1>1. /\ KernelForgetting(t, elsewhere, r2, f2) /\ OwnersBecome(os)
      /\ Sound(table, owners, shutAt, reactor, forgotten)
  BY DEF Drop, Close, TableSound
<1>2. r2 \subseteq reactor /\ \A p \in reactor \ r2 : p[1] = n
  BY DEF Dropped, Deregistered
<1>3. o.kind = "handler" /\ ~o.shut => <<n, o.file>> \notin r2 \/ o.file \in f2
  BY DEF Dropped, Deregistered, LeftBehind
<1>4. forgotten \subseteq f2 /\ f2 \subseteq Files
  BY <1>1 DEF LeftBehind, Sound, Typed, OwnerSet
<1> HIDE DEF r2, f2
<1>5. Sound(t, os, shutAt, r2, f2)
  BY <1>1, <1>2, <1>3, <1>4, Gone
<1> HIDE DEF t, os
<1> QED
  BY <1>1, <1>5, OwnersStep

LEMMA ShutdownStep ==
  ASSUME TableSound, NEW o \in owners, Shutdown(o)
  PROVE  TableSound'
<1> DEFINE n == o.number
           t == [table EXCEPT ![n] = Closed]
           o2 == [o EXCEPT !.shut = TRUE]
           os == (owners \ {o}) \cup {o2}
           f2 == forgotten \cup {o.file}
<1>1. /\ KernelForgetting(t, elsewhere, reactor, f2) /\ owners' = os
      /\ shutAt' = shutAt \cup {n}
      /\ o.kind = "handler" /\ o \in OwnerSet
      /\ Sound(table, owners, shutAt, reactor, forgotten)
  BY DEF Shutdown, Close, TableSound, Sound, Typed
<1>2. /\ o2 \in OwnerSet /\ o2.number = n /\ o2.kind = "handler" /\ o2.shut
  BY <1>1 DEF OwnerSet
<1>3. forgotten \subseteq f2 /\ f2 \subseteq Files /\ o.file \in f2
  BY <1>1 DEF Sound, Typed, OwnerSet
<1> HIDE DEF o2, f2
<1>4. Sound(t, os, shutAt \cup {n}, reactor, f2)
  BY <1>1, <1>2, <1>3, ShutAway
<1>5. Sound(t, owners', shutAt', reactor, f2)
  BY <1>1, <1>4
<1> HIDE DEF t, os
<1> QED
  BY <1>1, <1>5, KernelStep

LEMMA ElsewhereStep ==
  ASSUME TableSound, UNCHANGED ownerVars, NEW e, e \subseteq Files, Kernel(table, e, reactor)
  PROVE  TableSound'
<1>1. /\ table' = table /\ elsewhere' = e
      /\ reactor' = {p \in reactor : p[2] \in Alive(table, e)}
      /\ forgotten' = forgotten \cap Alive(table, e)
  BY DEF Kernel, KernelForgetting
<1>2. Sound(table, owners, shutAt, {p \in reactor : p[2] \in Alive(table, e)},
            forgotten \cap Alive(table, e))
  BY Filtered DEF TableSound
<1> QED
  BY <1>1, <1>2 DEF TableSound, ownerVars

LEMMA SendRightsStep ==
  ASSUME TableSound, UNCHANGED ownerVars, NEW b, SendRights(b)
  PROVE  TableSound'
<1> DEFINE fds == Rights(b)
           e == elsewhere \cup {table[fds[i]] : i \in 1..Len(fds)}
<1>1. Kernel(table, e, reactor)
  BY DEF SendRights
<1>2. e \subseteq Files
  BY DEF SendRights, TableSound, Sound, Typed
<1> HIDE DEF e
<1> QED
  BY <1>1, <1>2, ElsewhereStep

-----------------------------------------------------------------------------
(* Receiving *)

LEMMA CapsAligned ==
  /\ HandlerCap \in Nat /\ UserCap \in Nat /\ MaxBatch \in Nat
  /\ Aligned(HandlerCap) /\ Aligned(UserCap) /\ Aligned(0)
<1>1. HandlerCap \in Nat /\ UserCap \in Nat /\ MaxBatch \in Nat
  BY DescriptorsAssumption
<1>2. ASSUME NEW m \in Nat, m % AlignTo = 0 PROVE Aligned(m)
  <2> DEFINE a == AlignTo
             q == m \div a
  <2>1. a \in Nat \ {0}
    BY Sizes
  <2>2. q \in Nat /\ m = (a * q) + (m % a) /\ m % a = 0
    <3> HIDE DEF a
    <3>1. m % a = 0
      BY <1>2 DEF a
    <3> QED
      BY <2>1, <3>1, Division
  <2> HIDE DEF q
  <2>3. m = q * a
    BY <2>1, <2>2
  <2> QED
    BY <2>2, <2>3 DEF Aligned
<1> QED
  BY <1>1, <1>2, WholeCaps, HeaderAligned

LEMMA BatchIs ==
  ASSUME TableSound, NEW fs \in Batches
  PROVE  Len(fs) \in Nat /\ \A i \in 1..Len(fs) : fs[i] \in Files
<1> DEFINE S == elsewhere \cup {Fresh[i] : i \in 1..Least(1, Len(Fresh))}
<1>1. S \subseteq Files
  <2> SUFFICES ASSUME NEW i \in 1..Least(1, Len(Fresh)) PROVE Fresh[i] \in Files
    BY DEF TableSound
  <2>1. i \in 1..Len(Fresh)
    BY FreshAre, LeastIs
  <2> QED
    BY <2>1, FreshAre
<1>2. PICK k \in 0..MaxBatch : fs \in [1..k -> S]
  BY DEF Batches
<1> HIDE DEF S
<1>3. k \in Nat
  BY <1>2, CapsAligned
<1>4. Len(fs) = k
  BY <1>2, <1>3
<1> QED
  BY <1>1, <1>2, <1>3, <1>4

LEMMA RoomIs ==
  ASSUME NEW cap \in Nat, NEW b \in Buffers(cap)
  PROVE  FdRoom(b) \in Nat
<1> DEFINE r == b.cap - b.length
<1>1. r \in Nat /\ CmsgLen(0) = HdrLen
  BY BufferIs, LengthIs, Sizes
<1>2. FdRoom(b) = IF r <= HdrLen THEN 0 ELSE (r - HdrLen) \div FdLen
  BY <1>1 DEF FdRoom
<1> HIDE DEF r
<1>3. r > HdrLen => (r - HdrLen) \div FdLen \in Nat
  <2> SUFFICES ASSUME r > HdrLen PROVE (r - HdrLen) \div FdLen \in Nat
    OBVIOUS
  <2> DEFINE n == r - HdrLen
  <2>1. n \in Nat
    BY <1>1, Sizes
  <2> HIDE DEF n
  <2>2. n \div FdLen \in Nat
    BY <2>1, Sizes, Division
  <2> QED
    BY <2>2 DEF n
<1> QED
  BY <1>1, <1>2, <1>3, Sizes

\* So many descriptors came in that there were numbers and room for, and the program finds
\* just these in its buffer.
Arrived(r, cap, creds, fs) ==
  /\ \E k \in 0..Len(FreeNumbers) : /\ k <= Len(fs) /\ r.numbers = SubSeq(FreeNumbers, 1, k)
                                   /\ Len(r.numbers) = k
  /\ Usables(r.numbers) /\ r.numbers \in Seq(Nat)
  /\ \A i \in 1..Len(r.numbers) : r.files[i] \in Files
  /\ r.buffer \in Buffers(cap)
  /\ HoldsMessages(r.buffer, CredMessages(cap, creds) \o RightMessages(r.numbers))
  /\ Rights(r.buffer) = r.numbers

LEMMA ReceivedIs ==
  ASSUME TableSound, NEW cap \in Nat, Aligned(cap), NEW b \in Buffers(cap),
         NEW creds, creds = <<>> \/ \E pid \in Nat : creds = <<pid>>,
         NEW fs \in Batches
  PROVE  Arrived(Received(b, creds, fs), cap, creds, fs)
<1> DEFINE c == PutCreds(Clear(b), creds)
           k == Least(FdRoom(c), Least(Len(fs), Len(FreeNumbers)))
           ns == SubSeq(FreeNumbers, 1, k)
           r == Received(b, creds, fs)
<1>1. r = [buffer |-> PutRights(c, ns, Len(fs)), numbers |-> ns, files |-> SubSeq(fs, 1, k)]
  BY DEF Received
<1>2. Sound(table, owners, shutAt, reactor, forgotten)
  BY DEF TableSound
<1>3. /\ Len(fs) \in Nat /\ (\A i \in 1..Len(fs) : fs[i] \in Files)
      /\ Len(FreeNumbers) \in Nat
  BY <1>2, BatchIs, FreeNumbersAre
<1>4. FdRoom(c) \in Nat
  <2>1. c \in Buffers(cap)
    BY ClearHolds, CredsHold
  <2> HIDE DEF c
  <2> QED
    BY <2>1, RoomIs
<1>5. k \in Nat /\ k <= FdRoom(c) /\ k <= Len(fs) /\ k <= Len(FreeNumbers)
  <2> DEFINE m == Least(Len(fs), Len(FreeNumbers))
             d == FdRoom(c)
  <2>1. m \in Nat /\ m <= Len(fs) /\ m <= Len(FreeNumbers)
    BY <1>3, LeastIs
  <2> HIDE DEF m, d
  <2>2. Least(d, m) \in Nat /\ Least(d, m) <= d /\ Least(d, m) <= m
    BY <1>4, <2>1, LeastIs DEF d
  <2> QED
    BY <1>3, <2>1, <2>2 DEF m, d
<1> HIDE DEF k
<1>6. k \in 0..Len(FreeNumbers)
  BY <1>3, <1>5
<1>7. Usables(ns) /\ Len(ns) = k /\ ns \in Seq(Nat)
  BY <1>2, <1>6, FirstUsable
<1>8. /\ PutRights(c, ns, Len(fs)) \in Buffers(cap)
      /\ HoldsMessages(PutRights(c, ns, Len(fs)), CredMessages(cap, creds) \o RightMessages(ns))
      /\ Rights(PutRights(c, ns, Len(fs))) = ns
  <2> HIDE DEF ns
  <2> QED
    BY <1>5, <1>7, ReceivedHolds
<1>9. \A i \in 1..k : SubSeq(fs, 1, k)[i] \in Files
  <2> SUFFICES ASSUME NEW i \in 1..k PROVE SubSeq(fs, 1, k)[i] \in Files
    OBVIOUS
  <2>1. i \in 1..Len(fs) /\ fs[i] \in Files
    BY <1>3, <1>5
  <2>2. \A j \in 1..k : fs[j] \in Files
    BY <1>3, <1>5
  <2>3. SubSeq(fs, 1, k) \in Seq(Files) /\ Len(SubSeq(fs, 1, k)) = k
    <3>1. /\ SubSeq(fs, 1, k) \in Seq(Files)
          /\ Len(SubSeq(fs, 1, k)) = IF 1 <= k THEN k - 1 + 1 ELSE 0
      BY <1>5, <2>2, SubSeqProperties
    <3> QED
      BY <1>5, <3>1
  <2> QED
    BY <2>3, ElementOfSeq
<1> HIDE DEF c, ns
<1>10. r.buffer = PutRights(c, ns, Len(fs)) /\ r.numbers = ns /\ r.files = SubSeq(fs, 1, k)
  <2> DEFINE X == PutRights(c, ns, Len(fs))
             Z == SubSeq(fs, 1, k)
  <2>1. r = [buffer |-> X, numbers |-> ns, files |-> Z]
    BY <1>1 DEF ns
  <2> HIDE DEF X, Z, r
  <2>2. r.buffer = X /\ r.numbers = ns /\ r.files = Z
    BY <2>1
  <2> QED
    BY <2>2 DEF X, Z
<1>11. \E j \in 0..Len(FreeNumbers) : j <= Len(fs) /\ ns = SubSeq(FreeNumbers, 1, j) /\ Len(ns) = j
  BY <1>5, <1>6, <1>7 DEF ns
<1> HIDE DEF r
<1>12. Arrived(r, cap, creds, fs)
  BY <1>7, <1>8, <1>9, <1>10, <1>11 DEF Arrived
<1> QED
  BY <1>12 DEF r

LEMMA RecvStep ==
  ASSUME TableSound, Recv
  PROVE  TableSound'
<1>1. PICK fs \in Batches :
        LET r == Received(NewBuffer(HandlerCap), <<>>, fs)
            fds == Rights(r.buffer)
            t == Open(r.numbers, r.files)
        IN /\ Kernel([n \in Numbers |-> IF n \in Surplus(fds) THEN Closed ELSE t[n]],
                     elsewhere, reactor)
           /\ OwnersBecome(owners \cup
                (IF fds = <<>> THEN {} ELSE {NewOwner("fd", fds[1], t[fds[1]])}))
  BY DEF Recv
<1> DEFINE r == Received(NewBuffer(HandlerCap), <<>>, fs)
           ns == r.numbers
           t == Open(ns, r.files)
           t2 == [n \in Numbers |-> IF n \in Surplus(ns) THEN Closed ELSE t[n]]
           os == owners \cup (IF ns = <<>> THEN {} ELSE {NewOwner("fd", ns[1], t[ns[1]])})
<1>2. /\ \E k \in 0..Len(FreeNumbers) : /\ k <= Len(fs) /\ ns = SubSeq(FreeNumbers, 1, k)
                                        /\ Len(ns) = k
      /\ Usables(ns) /\ (\A i \in 1..Len(ns) : r.files[i] \in Files)
      /\ Rights(r.buffer) = ns
  <2> DEFINE cap == HandlerCap
             b == NewBuffer(cap)
             creds == <<>>
  <2>1. cap \in Nat /\ Aligned(cap) /\ b \in Buffers(cap)
    BY CapsAligned, NewHolds
  <2>2. creds = <<>> \/ \E pid \in Nat : creds = <<pid>>
    OBVIOUS
  <2>3. r = Received(b, creds, fs)
    OBVIOUS
  <2> HIDE DEF r, creds, b, cap
  <2>4. Arrived(r, cap, creds, fs)
    BY <2>1, <2>2, <2>3, ReceivedIs
  <2> QED
    BY <2>4 DEF Arrived
<1>3. KernelForgetting(t2, elsewhere, reactor, forgotten) /\ OwnersBecome(os)
  BY <1>1, <1>2 DEF Kernel
<1>4. Sound(table, owners, shutAt, reactor, forgotten) /\ table = [n \in Numbers |-> table[n]]
  BY DEF TableSound, Sound, Typed
<1>5. /\ \A i \in 1..Len(ns) : /\ t[ns[i]] = r.files[i] /\ ns[i] \in Numbers
                               /\ table[ns[i]] = Closed
      /\ \A n \in Numbers : (\A i \in 1..Len(ns) : ns[i] # n) => t[n] = table[n]
      /\ \A i, j \in 1..Len(ns) : ns[i] = ns[j] => i = j
      /\ Len(ns) \in Nat /\ (Len(ns) = 0 <=> ns = <<>>)
  <2>1. ns \in Seq(Numbers)
    BY <1>2 DEF Usables
  <2> HIDE DEF r
  <2>2. Len(ns) \in Nat /\ (Len(ns) = 0 <=> ns = <<>>)
    BY <2>1, EmptySeq
  <2>3. /\ \A i \in 1..Len(ns) : t[ns[i]] = r.files[i]
        /\ \A n \in Numbers : (\A i \in 1..Len(ns) : ns[i] # n) => t[n] = table[n]
    <3> DEFINE fs2 == r.files
               ns2 == ns
    <3>1. Usables(ns2)
      BY <1>2
    <3> HIDE DEF fs2, ns2
    <3>2. /\ \A i \in 1..Len(ns2) : Open(ns2, fs2)[ns2[i]] = fs2[i]
          /\ \A n \in Numbers : (\A i \in 1..Len(ns2) : ns2[i] # n) =>
                                Open(ns2, fs2)[n] = table[n]
      BY <3>1, OpenIs
    <3> QED
      BY <3>2 DEF fs2, ns2
  <2>4. /\ \A i \in 1..Len(ns) : ns[i] \in Numbers /\ table[ns[i]] = Closed
        /\ \A i, j \in 1..Len(ns) : ns[i] = ns[j] => i = j
    <3> HIDE DEF ns
    <3> QED
      BY <1>2, <2>1, ElementOfSeq DEF Usables
  <2> QED
    BY <2>2, <2>3, <2>4
<1>6. CASE ns = <<>>
  <2>1. Len(ns) = 0
    BY <1>5, <1>6
  <2>2. \A n \in Numbers : t2[n] = table[n]
    BY <1>5, <2>1 DEF Surplus
  <2>3. t2 = table
    <3>1. t2 = [n \in Numbers |-> t2[n]]
      OBVIOUS
    <3> HIDE DEF t2
    <3> QED
      BY <1>4, <2>2, <3>1
  <2>4. os = owners
    BY <1>6
  <2> HIDE DEF t2, os
  <2> QED
    BY <1>3, <1>4, <2>3, <2>4, OwnersStep
<1>7. CASE ns # <<>>
  <2> DEFINE n1 == FreeNumbers[1]
             g == r.files[1]
             o == Open(<<n1>>, <<g>>)
  <2>1. /\ 1 \in 1..Len(ns) /\ ns[1] = n1 /\ FreeNumbers # <<>>
    <3>1. 1 \in 1..Len(ns)
      BY <1>5, <1>7
    <3>2. PICK k \in 0..Len(FreeNumbers) : ns = SubSeq(FreeNumbers, 1, k) /\ Len(ns) = k
      BY <1>2
    <3>3. Len(FreeNumbers) \in Nat /\ 1 \in 1..k /\ 1 <= Len(FreeNumbers)
      BY <1>4, <3>1, <3>2, FreeNumbersAre
    <3>4. SubSeq(FreeNumbers, 1, k)[1] = FreeNumbers[1]
      BY <1>4, <3>3, FirstUsable
    <3>5. FreeNumbers # <<>>
      BY <3>3
    <3> HIDE DEF r
    <3> QED
      BY <3>1, <3>2, <3>4, <3>5
  <2>2. g \in Files /\ t[ns[1]] = g
    BY <1>2, <1>5, <2>1
  <2>3. os = owners \cup {NewOwner("fd", n1, g)}
    BY <1>7, <2>1, <2>2
  <2>4. /\ o[n1] = g /\ \A n \in Numbers : n # n1 => o[n] = table[n]
    <3>1. Usables(<<n1>>)
      BY <1>4, <2>1, OneUsable
    <3> DEFINE ns2 == <<n1>>
               fs2 == <<g>>
    <3>2. Len(ns2) = 1 /\ ns2[1] = n1 /\ fs2[1] = g
      OBVIOUS
    <3> HIDE DEF n1, g, ns2, fs2
    <3>3. /\ \A i \in 1..Len(ns2) : Open(ns2, fs2)[ns2[i]] = fs2[i]
          /\ \A n \in Numbers : (\A i \in 1..Len(ns2) : ns2[i] # n) =>
                                Open(ns2, fs2)[n] = table[n]
      BY <3>1, OpenIs DEF ns2
    <3>4. \A n \in Numbers : n # n1 => \A i \in 1..Len(ns2) : ns2[i] # n
      BY <3>2
    <3>5. o = Open(ns2, fs2)
      BY DEF ns2, fs2
    <3> HIDE DEF o
    <3> QED
      BY <3>2, <3>3, <3>4, <3>5
  <2>5. \A n \in Numbers : t2[n] = o[n]
    <3> SUFFICES ASSUME NEW n \in Numbers PROVE t2[n] = o[n]
      OBVIOUS
    <3>1. t2[n] = IF n \in Surplus(ns) THEN Closed ELSE t[n]
      OBVIOUS
    <3>2. \A m : m \in Surplus(ns) <=> \E i \in 2..Len(ns) : m = ns[i]
      BY DEF Surplus
    <3> HIDE DEF t2, o, t, g, n1, r
    <3>3. CASE n = n1
      <4>1. n \notin Surplus(ns)
        BY <1>5, <2>1, <3>2, <3>3
      <4> QED
        BY <2>1, <2>2, <2>4, <3>1, <3>3, <4>1
    <3>4. CASE \E i \in 2..Len(ns) : n = ns[i]
      <4>1. PICK i \in 2..Len(ns) : n = ns[i]
        BY <3>4
      <4>2. i \in 1..Len(ns) /\ i # 1
        BY <1>5, <4>1
      <4>3. n # n1 /\ table[n] = Closed
        BY <1>5, <2>1, <4>1, <4>2
      <4> QED
        BY <2>4, <3>1, <3>2, <3>4, <4>3
    <3>5. CASE n # n1 /\ ~\E i \in 2..Len(ns) : n = ns[i]
      <4>1. \A i \in 1..Len(ns) : i = 1 \/ i \in 2..Len(ns)
        BY <1>5
      <4>2. \A i \in 1..Len(ns) : ns[i] # n
        BY <2>1, <3>5, <4>1
      <4> QED
        BY <1>5, <2>4, <3>1, <3>2, <3>5, <4>2
    <3> QED
      BY <3>3, <3>4, <3>5
  <2>6. t2 = o
    <3>1. t2 = [n \in Numbers |-> t2[n]] /\ o = [n \in Numbers |-> o[n]]
      BY DEF Open
    <3> HIDE DEF t2, o
    <3> QED
      BY <2>5, <3>1
  <2> DEFINE kind == "fd"
  <2>7. kind \in {"fd", "other"}
    OBVIOUS
  <2> HIDE DEF g, kind, t2, os
  <2>8. Sound(o, owners \cup {NewOwner(kind, n1, g)}, shutAt, reactor, forgotten)
    BY <2>1, <2>2, <2>7, OneOpened
  <2>9. Sound(t2, os, shutAt, reactor, forgotten)
    BY <2>3, <2>6, <2>8 DEF kind
  <2> QED
    BY <1>3, <2>9, OwnersStep
<1> QED
  BY <1>6, <1>7

-----------------------------------------------------------------------------
(* A program with a control buffer of its own *)

BufferSound ==
  /\ anc.cap \in {0, UserCap} /\ anc \in Buffers(anc.cap) /\ HoldsMessages(anc, added)

LEMMA UserRecvStep ==
  ASSUME TableSound, BufferSound, UserRecv
  PROVE  TableSound' /\ BufferSound'
<1>1. PICK fs \in Batches, creds \in {<<>>, <<1>>} :
        LET r == Received(anc, creds, fs)
            fds == Rights(r.buffer)
            t == Open(r.numbers, r.files)
        IN /\ Kernel(t, elsewhere, reactor)
           /\ OwnersBecome(owners \cup {NewOwner("fd", fds[i], t[fds[i]]) : i \in 1..Len(fds)})
           /\ anc' = r.buffer
           /\ added' =
                (IF creds = <<>> \/ UserCap < HdrLen THEN <<>>
                 ELSE <<[kind |-> "creds",
                         items |-> IF UserCap >= CmsgLen(CredLen) THEN creds ELSE <<>>]>>)
                \o (IF r.numbers = <<>> THEN <<>>
                    ELSE <<[kind |-> "rights", items |-> r.numbers]>>)
  BY DEF UserRecv
<1> DEFINE r == Received(anc, creds, fs)
           ns == r.numbers
           files == r.files
           t == Open(ns, files)
           kind == "fd"
<1>2. anc.cap = UserCap
  BY DEF UserRecv, Blocking, BufferSound
<1>3. Arrived(r, UserCap, creds, fs)
  <2>1. creds = <<>> \/ \E pid \in Nat : creds = <<pid>>
    OBVIOUS
  <2>2. anc \in Buffers(UserCap) /\ UserCap \in Nat /\ Aligned(UserCap)
    BY <1>2, CapsAligned DEF BufferSound
  <2> HIDE DEF r
  <2> QED
    BY <2>1, <2>2, ReceivedIs DEF r
<1>4. Usables(ns) /\ (\A i \in 1..Len(ns) : files[i] \in Files) /\ Rights(r.buffer) = ns
  <2> HIDE DEF r
  <2> QED
    BY <1>3 DEF Arrived
<1>5. /\ KernelForgetting(t, elsewhere, reactor, forgotten)
      /\ OwnersBecome(owners \cup {NewOwner(kind, ns[i], t[ns[i]]) : i \in 1..Len(ns)})
  BY <1>1, <1>4 DEF Kernel
<1>6. /\ anc' = r.buffer
      /\ added' = CredMessages(UserCap, creds) \o RightMessages(ns)
  BY <1>1 DEF CredMessages, RightMessages
<1>7. BufferSound'
  <2>1. /\ r.buffer \in Buffers(UserCap)
        /\ HoldsMessages(r.buffer, CredMessages(UserCap, creds) \o RightMessages(ns))
    <3> HIDE DEF r
    <3> QED
      BY <1>3 DEF Arrived
  <2>2. r.buffer.cap = UserCap
    BY <2>1, BufferIs, CapsAligned
  <2> HIDE DEF r
  <2> QED
    BY <1>6, <2>1, <2>2 DEF BufferSound
<1> HIDE DEF files, ns, r
<1>8. \A i \in 1..Len(ns) : t[ns[i]] = files[i]
  BY <1>4, OpenIs
<1>9. OwnersBecome(owners \cup NewOwners(kind, ns, files))
  <2> HIDE DEF t, kind
  <2> QED
    BY <1>5, <1>8 DEF NewOwners
<1>10. Sound(t, owners \cup NewOwners(kind, ns, files), shutAt, reactor, forgotten)
  <2>1. /\ kind # "handler" /\ kind \in {"fd", "handler", "other"}
        /\ forgotten \subseteq Files /\ Sound(table, owners, shutAt, reactor, forgotten)
    BY DEF TableSound, Sound, Typed
  <2> HIDE DEF kind
  <2> QED
    BY <1>4, <2>1, OpenSound
<1> DEFINE os == owners \cup NewOwners(kind, ns, files)
<1> HIDE DEF t, kind, os
<1>11. TableSound'
  BY <1>5, <1>9, <1>10, OwnersStep DEF os
<1> QED
  BY <1>7, <1>11

LEMMA UserAddStep ==
  ASSUME BufferSound, NEW kind \in Kinds, NEW items \in Seq(Nat), UserAdd(kind, items)
  PROVE  BufferSound'
<1>1. /\ anc.cap \in Nat /\ anc \in Buffers(anc.cap) /\ HoldsMessages(anc, added)
      /\ anc.cap \in {0, UserCap}
  BY CapsAligned DEF BufferSound
<1>2. /\ anc' = Add(anc, kind, items)
      /\ added' = IF Fits(anc, kind, items)
                  THEN Append(added, [kind |-> kind, items |-> items]) ELSE added
  BY DEF UserAdd
<1>3. anc' \in Buffers(anc.cap) /\ HoldsMessages(anc', added')
  <2>1. CASE Fits(anc, kind, items)
    BY <1>1, <1>2, <2>1, AddHolds
  <2>2. CASE ~Fits(anc, kind, items)
    BY <1>1, <1>2, <2>2, AddNothing
  <2> QED
    BY <2>1, <2>2
<1>4. anc'.cap = anc.cap
  BY <1>1, <1>3, BufferIs
<1> QED
  BY <1>1, <1>3, <1>4 DEF BufferSound

LEMMA UserClearStep ==
  ASSUME BufferSound, UserClear
  PROVE  BufferSound'
<1>1. anc.cap \in Nat /\ anc \in Buffers(anc.cap) /\ anc.cap \in {0, UserCap}
  BY CapsAligned DEF BufferSound
<1>2. anc' = Clear(anc) /\ added' = <<>>
  BY DEF UserClear
<1>3. anc' \in Buffers(anc.cap) /\ HoldsMessages(anc', added')
  BY <1>1, <1>2, ClearHolds
<1>4. anc'.cap = anc.cap
  BY <1>1, <1>3, BufferIs
<1> QED
  BY <1>1, <1>3, <1>4 DEF BufferSound

LEMMA UserSendStep ==
  ASSUME BufferSound, UserSend
  PROVE  BufferSound'
<1> DEFINE no == FALSE
<1>1. /\ anc.cap \in Nat /\ anc \in Buffers(anc.cap) /\ anc.cap \in {0, UserCap}
      /\ HoldsMessages(anc, added)
  BY CapsAligned DEF BufferSound
<1>2. anc' = Flagged(anc, no) /\ added' = added /\ no \in BOOLEAN
  BY DEF UserSend, Flagged
<1> HIDE DEF no
<1>3. anc' \in Buffers(anc.cap) /\ HoldsMessages(anc', added') /\ anc'.cap = anc.cap
  BY <1>1, <1>2, FlaggedHolds
<1> QED
  BY <1>1, <1>3 DEF BufferSound

-----------------------------------------------------------------------------
(* The invariant *)

IInv == TableSound /\ BufferSound

LEMMA InitSound ==
  Init => IInv
<1> SUFFICES ASSUME Init PROVE IInv
  OBVIOUS
<1>1. /\ 0 \in Numbers /\ 1 \in Numbers /\ 1 \in Files /\ 2 \in Files /\ Closed = 0
  BY DescriptorsAssumption DEF Closed
<1>2. /\ table \in [Numbers -> Files \cup {Closed}] /\ table[0] = 1 /\ table[1] = 2
      /\ \A n \in Numbers : n # 0 /\ n # 1 => table[n] = Closed
  BY <1>1 DEF Init
<1>3. PICK kind \in {"handler", "other"} :
        /\ owners = {Stdin, Owner(kind, 1, 2, 0)}
        /\ reactor = IF kind = "handler" THEN {<<1, 2>>} ELSE {}
  BY DEF Init
<1> DEFINE o == Owner(kind, 1, 2, 0)
<1>4. /\ o \in OwnerSet /\ o.kind = kind /\ o.number = 1 /\ o.file = 2 /\ ~o.shut
  BY <1>1, OwnerIs
<1>5. /\ Stdin \in OwnerSet /\ Stdin.kind = "other" /\ Stdin.number = 0 /\ Stdin.file = 1
      /\ ~Stdin.shut
  BY <1>1, OwnerIs DEF Stdin
<1>6. owners = {Stdin, o} /\ forgotten = {} /\ elsewhere = {} /\ shutAt = {}
  BY <1>3 DEF Init
<1> HIDE DEF o
<1>7. Typed(table, owners, shutAt, reactor, forgotten)
  <2>1. IsFiniteSet(owners)
    <3>1. IsFiniteSet({Stdin} \cup {o}) /\ {Stdin} \cup {o} = {Stdin, o}
      BY FS_Singleton, FS_AddElement
    <3> QED
      BY <1>6, <3>1
  <2> QED
    BY <1>1, <1>2, <1>3, <1>4, <1>5, <1>6, <2>1 DEF Typed
<1>8. Kept(table, owners, shutAt)
  BY <1>2, <1>4, <1>5, <1>6 DEF Kept
<1>9. Alone(owners, shutAt)
  BY <1>4, <1>5, <1>6 DEF Alone
<1>10. Owned(table, owners)
  BY <1>2, <1>4, <1>5, <1>6 DEF Owned
<1>11. Accounted(owners, reactor, forgotten)
  BY <1>3, <1>4, <1>6 DEF Accounted
<1>12. Awake(owners, shutAt, reactor)
  BY <1>3, <1>4, <1>5, <1>6 DEF Awake
<1>13. TableSound
  BY <1>6, <1>7, <1>8, <1>9, <1>10, <1>11, <1>12 DEF TableSound, Sound
<1>14. BufferSound
  <2>1. PICK cap \in {0, UserCap} : anc = NewBuffer(cap)
    BY DEF Init
  <2>2. cap \in Nat /\ added = <<>>
    BY CapsAligned DEF Init
  <2> QED
    BY <2>1, <2>2, NewHolds DEF BufferSound
<1> QED
  BY <1>13, <1>14 DEF IInv

LEMMA NextSound ==
  IInv /\ [Next]_vars => IInv'
<1> SUFFICES ASSUME TableSound, BufferSound, [Next]_vars
             PROVE  TableSound' /\ BufferSound'
  BY DEF IInv
<1>1. UNCHANGED ancVars => BufferSound'
  BY DEF ancVars, BufferSound
<1>2. UNCHANGED <<table, ownerVars, elsewhere, reactor, forgotten>> => TableSound'
  BY DEF TableSound, ownerVars
<1>3. CASE OpenOther
  BY <1>1, <1>3, OpenOtherStep DEF OpenOther
<1>4. CASE Pair
  BY <1>1, <1>4, PairStep DEF Pair, MakePair
<1>5. CASE Socketpair
  BY <1>1, <1>5, SocketpairStep DEF Socketpair, MakePair
<1>6. CASE Elsewhere
  <2>1. PICK f \in elsewhere : Kernel(table, elsewhere \ {f}, reactor)
    BY <1>6 DEF Elsewhere
  <2> DEFINE e == elsewhere \ {f}
  <2>2. e \subseteq Files /\ UNCHANGED ownerVars /\ UNCHANGED ancVars
    BY <1>6 DEF TableSound, Elsewhere
  <2> HIDE DEF e
  <2> QED
    BY <1>1, <2>1, <2>2, ElsewhereStep DEF e
<1>7. CASE Recv
  BY <1>1, <1>7, RecvStep DEF Recv
<1>8. ASSUME NEW o \in owners, Duplicate(o) PROVE TableSound' /\ BufferSound'
  BY <1>1, <1>8, DuplicateStep DEF Duplicate
<1>9. ASSUME NEW o \in owners, IntoRawFd(o) PROVE TableSound' /\ BufferSound'
  BY <1>1, <1>9, IntoRawFdStep DEF IntoRawFd
<1>10. ASSUME NEW o \in owners, FromRawFd(o) PROVE TableSound' /\ BufferSound'
  BY <1>1, <1>10, FromRawFdStep DEF FromRawFd
<1>11. ASSUME NEW o \in owners, Drop(o) PROVE TableSound' /\ BufferSound'
  BY <1>1, <1>11, DropStep DEF Drop
<1>12. ASSUME NEW o \in owners, Shutdown(o) PROVE TableSound' /\ BufferSound'
  BY <1>1, <1>12, ShutdownStep DEF Shutdown
<1>13. ASSUME NEW o \in owners, Send(o) PROVE TableSound' /\ BufferSound'
  <2> DEFINE b == Add(NewBuffer(HandlerCap), "rights", <<o.number>>)
  <2>1. SendRights(b) /\ UNCHANGED ownerVars /\ UNCHANGED ancVars
    BY <1>13 DEF Send
  <2> HIDE DEF b
  <2> QED
    BY <1>1, <2>1, SendRightsStep
<1>14. CASE AddFds
  <2>1. PICK o \in owners : UserAdd("rights", <<o.number>>)
    BY <1>14 DEF AddFds
  <2> DEFINE kind == "rights"
             items == <<o.number>>
  <2>2. kind \in Kinds /\ items \in Seq(Nat)
    <3>1. o.number \in Nat
      BY FilesAre DEF TableSound, Sound, Typed, OwnerSet
    <3> QED
      BY <3>1 DEF Kinds
  <2>3. UNCHANGED <<table, ownerVars, elsewhere, reactor, forgotten>>
    BY <2>1 DEF UserAdd
  <2> HIDE DEF kind, items
  <2> QED
    BY <1>2, <2>1, <2>2, <2>3, UserAddStep DEF kind, items
<1>15. CASE AddCreds
  <2> DEFINE kind == "creds"
             items == <<1>>
  <2>1. UserAdd(kind, items) /\ kind \in Kinds /\ items \in Seq(Nat)
    BY <1>15 DEF AddCreds, Kinds
  <2>2. UNCHANGED <<table, ownerVars, elsewhere, reactor, forgotten>>
    BY <2>1 DEF UserAdd
  <2> HIDE DEF kind, items
  <2> QED
    BY <1>2, <2>1, <2>2, UserAddStep
<1>16. CASE UserClear
  BY <1>2, <1>16, UserClearStep DEF UserClear
<1>17. CASE UserSend
  <2>1. CASE SendRights(anc)
    <3>1. UNCHANGED ownerVars
      BY <1>17 DEF UserSend
    <3> QED
      BY <1>17, <2>1, <3>1, SendRightsStep, UserSendStep
  <2>2. CASE UNCHANGED <<table, elsewhere, reactor, forgotten>>
    <3>1. UNCHANGED ownerVars
      BY <1>17 DEF UserSend
    <3> QED
      BY <1>2, <1>17, <2>2, <3>1, UserSendStep
  <2> QED
    BY <1>17, <2>1, <2>2 DEF UserSend
<1>18. CASE UserRecv
  BY <1>18, UserRecvStep
<1>19. CASE UNCHANGED vars
  BY <1>1, <1>2, <1>19 DEF vars, ancVars, ownerVars
<1> QED
  BY <1>3, <1>4, <1>5, <1>6, <1>7, <1>8, <1>9, <1>10, <1>11, <1>12, <1>13, <1>14, <1>15,
     <1>16, <1>17, <1>18, <1>19 DEF Next

LEMMA Invariance ==
  Spec => []IInv
BY InitSound, NextSound, PTL DEF Spec

-----------------------------------------------------------------------------
(* Theorems *)

\* The state of descriptors and control buffers is what the program can represent: every
\* descriptor number is open on one file or closed, and every header lies in its buffer.
THEOREM TypeCorrect ==
  Spec => []TypeOK
<1>1. IInv => TypeOK
  <2> SUFFICES ASSUME IInv PROVE TypeOK
    OBVIOUS
  <2>1. Typed(table, owners, shutAt, reactor, forgotten) /\ elsewhere \subseteq Files
    BY DEF IInv, TableSound, Sound
  <2>2. /\ anc.cap \in {0, UserCap} /\ anc \in Buffers(anc.cap) /\ anc.cap \in Nat
        /\ anc.cap <= UserCap
    BY CapsAligned DEF IInv, BufferSound
  <2>3. /\ anc.length \in 0..anc.cap /\ anc.truncated \in BOOLEAN
        /\ \A o \in DOMAIN anc.head : o \in 0..anc.cap /\ anc.head[o] \in Headers
    BY <2>2, BufferIs
  <2>4. 0..anc.cap \subseteq 0..UserCap
    BY <2>2, CapsAligned
  <2>5. added \in Seq([kind : Kinds, items : Seq(Nat)])
    BY HoldsAligned DEF IInv, BufferSound, MessageSet
  <2> QED
    BY <2>1, <2>2, <2>3, <2>4, <2>5 DEF TypeOK, Typed, OwnerSet
<1> QED
  BY <1>1, Invariance, PTL

\* Every descriptor has one owner, and it is open on the file it was opened for, unless a
\* Handler was shut down that had the same number and a value has had it ever since: what
\* the two closes of that number (imsg.rs, Handler::shutdown; drop) can hurt is confined to
\* it, and no other drop of an Fd or a Handler closes what belongs to somebody else.
THEOREM OwnersKeepCorrect ==
  Spec => []OwnersKeep
<1>1. IInv => OwnersKeep
  BY DEF IInv, TableSound, Sound, Kept, Alone, OwnersKeep
<1> QED
  BY <1>1, Invariance, PTL

\* No descriptor is left open without an owner that closes it, also not those that come
\* with a message and are not asked for (recv_message closes every one but the first).
THEOREM NoLeakCorrect ==
  Spec => []NoLeak
<1>1. IInv => NoLeak
  BY DEF IInv, TableSound, Sound, Owned, NoLeak
<1> QED
  BY <1>1, Invariance, PTL

\* Walking the control buffer of a program (SocketAncillary::messages) yields what was
\* added or received since it was cleared, and nothing else.
THEOREM WalkedCorrect ==
  Spec => []WalkedAsAdded
<1>1. IInv => WalkedAsAdded
  BY WalkYields DEF IInv, BufferSound, WalkedAsAdded
<1> QED
  BY <1>1, Invariance, PTL

\* A Handler is registered with the reactor, so that a message or the end of the stream
\* wakes it up, unless it has its number in common with one that was shut down: no other
\* Handler that is dropped takes its registration away.
THEOREM HandlersAwakeCorrect ==
  Spec => []HandlersAwake
<1>1. IInv => HandlersAwake
  BY DEF IInv, TableSound, Sound, Awake, HandlersAwake
<1> QED
  BY <1>1, Invariance, PTL

\* Handler::from_raw_fd succeeds with every descriptor, also one whose number was the one of
\* a Handler before, unless its file was left registered by a Handler (forgotten by
\* Handler::socketpair, shut down, or dropped when its number was not open on it) or it
\* has its number in common with one that was shut down.
THEOREM AdoptableCorrect ==
  Spec => []Adoptable
<1>1. IInv => Adoptable
  <2> SUFFICES ASSUME IInv, NEW o \in owners, o.kind \in {"fd", "other"}, o.file \notin forgotten,
                      o.number \notin shutAt
               PROVE  Registrable(o.number)
    BY DEF Adoptable
  <2>1. Sound(table, owners, shutAt, reactor, forgotten)
    BY DEF IInv, TableSound
  <2>2. ~o.shut /\ table[o.number] = o.file /\ o.file \in Files
    BY <2>1 DEF Sound, Kept, Typed, OwnerSet
  <2>3. <<o.number, o.file>> \notin reactor
    <3> SUFFICES ASSUME <<o.number, o.file>> \in reactor PROVE FALSE
      OBVIOUS
    <3>1. PICK q \in owners : q.kind = "handler" /\ q.number = o.number
      BY <2>1 DEF Sound, Accounted
    <3>2. q = o
      BY <2>1, <3>1 DEF Sound, Alone
    <3> QED
      BY <3>1, <3>2
  <2> QED
    BY <2>2, <2>3, FilesAre DEF Registrable
<1> QED
  BY <1>1, Invariance, PTL
=============================================================================
