-------------------------- MODULE AncillaryProofs --------------------------
(***************************************************************************)
(* Proofs about module Ancillary: for every size of headers, descriptors   *)
(* and buffers, walking a buffer yields what was put into it.              *)
(*                                                                         *)
(* The walk is recursive.  Induction over it takes a form that speaks of   *)
(* sets and not of predicates: every set of natural numbers has a least    *)
(* member, and a set with 0 and the successor of each member has them all. *)
(***************************************************************************)
EXTENDS Ancillary, WellFoundedInduction, SequenceTheorems, TLAPS

LEMMA LeastMember ==
  ASSUME NEW S, S \subseteq Nat, S # {}
  PROVE  \E m \in S : \A n \in S : m <= n
<1> DEFINE R == {ss \in Nat \X Nat : ss[1] < ss[2]}
<1>1. IsWellFoundedOn(R, Nat)
  BY NatLessThanWellFounded DEF OpToRel
<1>2. PICK x \in S : \A y \in S : ~(<<y, x>> \in R)
  <2> HIDE DEF R
  <2> QED
    BY <1>1, WFMin
<1>3. ASSUME NEW y \in S PROVE x <= y
  <2>1. <<y, x>> \notin R
    BY <1>2
  <2>2. <<y, x>> \in Nat \X Nat /\ <<y, x>>[1] = y /\ <<y, x>>[2] = x
    OBVIOUS
  <2>3. ~(y < x)
    BY <2>1, <2>2
  <2> QED
    BY <2>3
<1> QED
  BY <1>3

LEMMA SetInduction ==
  ASSUME NEW S, 0 \in S, \A n \in Nat : n \in S => n + 1 \in S
  PROVE  Nat \subseteq S
<1> SUFFICES ASSUME Nat \ S # {} PROVE FALSE
  OBVIOUS
<1>1. PICK m \in Nat \ S : \A n \in Nat \ S : m <= n
  BY LeastMember
<1>2. m # 0 /\ m - 1 \in Nat
  BY <1>1
<1>3. m - 1 \in S
  BY <1>1, <1>2
<1> QED
  BY <1>1, <1>2, <1>3

-----------------------------------------------------------------------------
(* Alignment *)

Aligned(n) == \E q \in Nat : n = q * AlignTo

LEMMA Sizes ==
  /\ HdrLen \in Nat \ {0} /\ AlignTo \in Nat \ {0}
  /\ FdLen \in Nat \ {0} /\ CredLen \in Nat \ {0}
BY AncillaryAssumption

LEMMA Division ==
  ASSUME NEW a \in Nat \ {0}, NEW m \in Nat
  PROVE  m \div a \in Nat /\ m % a \in Nat /\ m % a < a /\ m = (a * (m \div a)) + (m % a)
OBVIOUS

LEMMA Product ==
  ASSUME NEW p \in Nat, NEW q \in Nat
  PROVE  p * q \in Nat /\ (p + 1) * q = p * q + q
OBVIOUS

LEMMA AlignUpIs ==
  ASSUME NEW n \in Nat
  PROVE  /\ AlignUp(n) \in Nat /\ Aligned(AlignUp(n))
         /\ n <= AlignUp(n) /\ AlignUp(n) < n + AlignTo
<1> DEFINE a == AlignTo
           m == n + a - 1
           q == m \div a
<1>1. a \in Nat \ {0} /\ m \in Nat
  BY Sizes
<1> HIDE DEF a
<1>2. q \in Nat /\ m % a \in Nat /\ m % a < a /\ m = (a * q) + (m % a)
  <2> HIDE DEF m
  <2> QED
    BY <1>1, Division
<1>3. AlignUp(n) = q * a
  BY DEF AlignUp, a
<1>4. q * a \in Nat /\ q * a = a * q
  <2> HIDE DEF q
  <2> QED
    BY <1>1, <1>2
<1>5. n <= q * a /\ q * a < n + a
  <2> HIDE DEF q
  <2> QED
    BY <1>1, <1>2, <1>4
<1>6. Aligned(AlignUp(n))
  BY <1>2, <1>3 DEF Aligned, a
<1> QED
  BY <1>3, <1>4, <1>5, <1>6 DEF a

LEMMA MultipleLeast ==
  ASSUME NEW a \in Nat \ {0}, NEW p \in Nat, NEW q \in Nat, p * a < q * a + a
  PROVE  p * a <= q * a
<1>1. p <= q
  OBVIOUS
<1>2. PICK d \in Nat : q = p + d
  <2>1. q - p \in Nat /\ q = p + (q - p)
    BY <1>1
  <2> QED
    BY <2>1
<1>3. q * a = p * a + d * a /\ d * a \in Nat /\ p * a \in Nat
  BY <1>2
<1> QED
  BY <1>3

LEMMA AlignUpLeast ==
  ASSUME NEW n \in Nat, NEW m \in Nat, Aligned(m), n <= m
  PROVE  AlignUp(n) <= m
<1>1. PICK p \in Nat : AlignUp(n) = p * AlignTo
  BY AlignUpIs DEF Aligned
<1>2. PICK q \in Nat : m = q * AlignTo
  BY DEF Aligned
<1>3. p * AlignTo < q * AlignTo + AlignTo
  BY <1>1, <1>2, AlignUpIs, Sizes
<1> QED
  BY <1>1, <1>2, <1>3, MultipleLeast, Sizes

LEMMA AlignUpAligned ==
  ASSUME NEW n \in Nat, Aligned(n)
  PROVE  AlignUp(n) = n
BY AlignUpIs, AlignUpLeast

LEMMA AlignedSum ==
  ASSUME NEW m \in Nat, NEW n \in Nat, Aligned(m)
  PROVE  Aligned(n) <=> Aligned(m + n)
<1>1. PICK q \in Nat : m = q * AlignTo
  BY DEF Aligned
<1>2. AlignTo \in Nat \ {0}
  BY Sizes
<1>3. ASSUME Aligned(n) PROVE Aligned(m + n)
  <2>1. PICK p \in Nat : n = p * AlignTo
    BY <1>3 DEF Aligned
  <2>2. m + n = (q + p) * AlignTo
    BY <1>1, <1>2, <2>1
  <2> QED
    BY <2>2 DEF Aligned
<1>4. ASSUME Aligned(m + n) PROVE Aligned(n)
  <2>1. PICK p \in Nat : m + n = p * AlignTo
    BY <1>4 DEF Aligned
  <2>2. q <= p
    BY <1>1, <1>2, <2>1
  <2>3. p - q \in Nat /\ n = (p - q) * AlignTo
    BY <1>1, <1>2, <2>1, <2>2
  <2> QED
    BY <2>3 DEF Aligned
<1> QED
  BY <1>3, <1>4

LEMMA AlignUpSum ==
  ASSUME NEW m \in Nat, NEW n \in Nat, Aligned(m)
  PROVE  AlignUp(m + n) = m + AlignUp(n)
<1>1. Aligned(m + AlignUp(n))
  BY AlignedSum, AlignUpIs
<1>2. AlignUp(m + n) <= m + AlignUp(n)
  BY <1>1, AlignUpIs, AlignUpLeast
<1>3. m + n <= AlignUp(m + n) /\ AlignUp(m + n) \in Nat
  BY AlignUpIs
<1>4. PICK d \in Nat : AlignUp(m + n) = m + d
  <2>1. AlignUp(m + n) - m \in Nat
    BY <1>3
  <2> QED
    BY <1>3, <2>1
<1>5. Aligned(d) /\ n <= d
  BY <1>3, <1>4, AlignUpIs, AlignedSum
<1>6. AlignUp(n) <= d
  BY <1>5, AlignUpLeast
<1> QED
  BY <1>2, <1>4, <1>6, AlignUpIs

LEMMA HeaderAligned ==
  /\ Aligned(HdrLen) /\ AlignUp(HdrLen) = HdrLen /\ Aligned(0) /\ AlignUp(0) = 0
<1>1. Aligned(HdrLen)
  <2>1. HdrLen = (AlignTo * (HdrLen \div AlignTo)) + (HdrLen % AlignTo) /\ HdrLen \div AlignTo \in Nat
    BY Sizes, Division
  <2> DEFINE q == HdrLen \div AlignTo
  <2>2. q \in Nat /\ HdrLen = (AlignTo * q) + 0
    BY <2>1, AncillaryAssumption
  <2> HIDE DEF q
  <2>3. HdrLen = q * AlignTo
    BY <2>2, Sizes
  <2> QED
    BY <2>2, <2>3 DEF Aligned
<1>2. Aligned(0)
  <2>1. 0 = 0 * AlignTo
    BY Sizes
  <2> QED
    BY <2>1 DEF Aligned
<1> QED
  BY <1>1, <1>2, AlignUpAligned, Sizes

LEMMA LengthIs ==
  ASSUME NEW n \in Nat
  PROVE  /\ CmsgLen(n) = HdrLen + n /\ CmsgLen(n) \in Nat
         /\ CmsgSpace(n) = AlignUp(CmsgLen(n))
BY HeaderAligned, AlignUpSum, Sizes DEF CmsgLen, CmsgSpace

-----------------------------------------------------------------------------
(* The walk *)

HeadsOK(b) ==
  /\ b.length \in Nat
  /\ \A o \in DOMAIN b.head : b.head[o].len \in Nat

LEMMA HeaderLen ==
  ASSUME NEW b, HeadsOK(b), NEW o
  PROVE  HeaderAt(b, o).len \in Nat
BY DEF HeadsOK, HeaderAt, Zero

\* The walk goes forward, so that the recursion is over the rest of the buffer.
LEMMA NextBehind ==
  ASSUME NEW b, HeadsOK(b), NEW o \in 0..b.length, NEW n \in NextHdr(b, o)
  PROVE  n \in 0..b.length /\ n > o
<1>1. HeaderAt(b, o).len \in Nat
  BY HeaderLen
<1>2. /\ n = o + AlignUp(HeaderAt(b, o).len) /\ HeaderAt(b, o).len >= HdrLen
      /\ n + HdrLen <= b.length
  BY DEF NextHdr
<1>3. AlignUp(HeaderAt(b, o).len) \in Nat /\ HeaderAt(b, o).len <= AlignUp(HeaderAt(b, o).len)
  BY <1>1, AlignUpIs
<1> QED
  BY <1>1, <1>2, <1>3, Sizes DEF HeadsOK

\* Where the walk goes from each offset.
IsWalk(b, f, S) ==
  f = [o \in S |-> <<o>> \o IF NextHdr(b, o) = {} THEN <<>>
                            ELSE f[CHOOSE n \in NextHdr(b, o) : TRUE]]

LEMMA WalkExists ==
  ASSUME NEW b, HeadsOK(b)
  PROVE  \E f : IsWalk(b, f, 0..b.length)
<1> DEFINE L == b.length
           Z == {k \in Nat : k <= L => \E f : IsWalk(b, f, (L - k)..L)}
<1>1. L \in Nat
  BY DEF HeadsOK
<1>2. ASSUME NEW f, NEW lo \in 0..L,
             \A o \in lo..L : o > lo =>
               f[o] = <<o>> \o IF NextHdr(b, o) = {} THEN <<>>
                               ELSE f[CHOOSE n \in NextHdr(b, o) : TRUE]
      PROVE  \E g : IsWalk(b, g, lo..L)
  <2> DEFINE To(o) == CHOOSE n \in NextHdr(b, o) : TRUE
             g == [o \in lo..L |->
                     IF o > lo THEN f[o]
                     ELSE <<o>> \o IF NextHdr(b, o) = {} THEN <<>> ELSE f[To(o)]]
  <2>1. \A o \in lo..L : NextHdr(b, o) # {} => To(o) \in lo..L /\ To(o) > lo
    <3> SUFFICES ASSUME NEW o \in lo..L, NextHdr(b, o) # {}
                 PROVE  To(o) \in lo..L /\ To(o) > lo
      OBVIOUS
    <3>1. To(o) \in NextHdr(b, o)
      OBVIOUS
    <3> HIDE DEF To
    <3> QED
      BY <1>1, <3>1, NextBehind DEF L
  <2>2. \A o \in lo..L : NextHdr(b, o) # {} => g[To(o)] = f[To(o)]
    <3> HIDE DEF To
    <3> QED
      BY <2>1
  <2>3. \A o \in lo..L :
          g[o] = <<o>> \o IF NextHdr(b, o) = {} THEN <<>> ELSE g[To(o)]
    <3> SUFFICES ASSUME NEW o \in lo..L
                 PROVE  g[o] = <<o>> \o IF NextHdr(b, o) = {} THEN <<>> ELSE g[To(o)]
      OBVIOUS
    <3>1. g[o] = <<o>> \o IF NextHdr(b, o) = {} THEN <<>> ELSE f[To(o)]
      <4> HIDE DEF L
      <4> QED
        BY <1>2
    <3> HIDE DEF g, To
    <3> QED
      BY <2>2, <3>1
  <2>4. g = [o \in lo..L |-> g[o]]
    OBVIOUS
  <2>5. g = [o \in lo..L |-> <<o>> \o IF NextHdr(b, o) = {} THEN <<>> ELSE g[To(o)]]
    <3> HIDE DEF g, To
    <3> QED
      BY <2>3, <2>4
  <2> HIDE DEF g
  <2> QED
    BY <2>5 DEF IsWalk
<1>3. 0 \in Z
  <2>1. L \in 0..L /\ \A o \in L..L : ~(o > L)
    BY <1>1
  <2>2. \E f : IsWalk(b, f, L..L)
    <3> HIDE DEF L
    <3> QED
      BY <1>2, <2>1
  <2>3. L - 0 = L
    BY <1>1
  <2> QED
    BY <2>2, <2>3
<1>4. ASSUME NEW k \in Nat, k \in Z PROVE k + 1 \in Z
  <2> SUFFICES ASSUME k + 1 <= L PROVE \E f : IsWalk(b, f, (L - (k + 1))..L)
    OBVIOUS
  <2>1. PICK f : IsWalk(b, f, (L - k)..L)
    BY <1>1, <1>4
  <2> DEFINE lo == L - (k + 1)
  <2>2. lo \in 0..L /\ \A o \in lo..L : o > lo => o \in (L - k)..L
    BY <1>1
  <2>3. \A o \in lo..L : o > lo =>
          f[o] = <<o>> \o IF NextHdr(b, o) = {} THEN <<>>
                          ELSE f[CHOOSE n \in NextHdr(b, o) : TRUE]
    BY <2>1, <2>2 DEF IsWalk
  <2>4. \E g : IsWalk(b, g, lo..L)
    <3> HIDE DEF lo, L
    <3> QED
      BY <1>2, <2>2, <2>3
  <2> QED
    BY <2>4
<1>5. L \in Z
  <2> HIDE DEF Z, L
  <2> QED
    BY <1>1, <1>3, <1>4, SetInduction
<1>6. \E f : IsWalk(b, f, (L - L)..L)
  BY <1>1, <1>5
<1> QED
  BY <1>1, <1>6

\* A chain: each of these offsets is the one where the walk goes from the one before.
Chain(b, at, n) ==
  /\ n \in Nat \ {0} /\ HdrLen <= b.length
  /\ at \in Seq(Nat) /\ Len(at) = n
  /\ at[1] = 0 /\ \A i \in 1..n : at[i] <= b.length
  /\ \A i \in 1..(n - 1) : NextHdr(b, at[i]) = {at[i + 1]}
  /\ NextHdr(b, at[n]) = {}

LEMMA ChainVisited ==
  ASSUME NEW b, HeadsOK(b), NEW at, NEW n, Chain(b, at, n)
  PROVE  Visited(b) = at
<1> DEFINE L == b.length
           f == CHOOSE g : g = [o \in 0..L |->
                  <<o>> \o IF NextHdr(b, o) = {} THEN <<>>
                           ELSE g[CHOOSE m \in NextHdr(b, o) : TRUE]]
<1>1. IsWalk(b, f, 0..L)
  <2>1. \E g : g = [o \in 0..L |->
                  <<o>> \o IF NextHdr(b, o) = {} THEN <<>>
                           ELSE g[CHOOSE m \in NextHdr(b, o) : TRUE]]
    BY WalkExists DEF IsWalk
  <2>2. f = [o \in 0..L |-> <<o>> \o IF NextHdr(b, o) = {} THEN <<>>
                                     ELSE f[CHOOSE m \in NextHdr(b, o) : TRUE]]
    BY <2>1
  <2> QED
    BY <2>2 DEF IsWalk
<1>2. Visited(b) = f[0]
  BY Sizes DEF Visited, Chain, HeadsOK
<1> HIDE DEF f
<1>3. /\ n \in Nat \ {0} /\ at \in Seq(Nat) /\ Len(at) = n
      /\ \A i \in 1..n : at[i] \in 0..L
  BY DEF Chain
<1> DEFINE Z == {k \in Nat : k < n => f[at[n - k]] = SubSeq(at, n - k, n)}
<1>4. 0 \in Z
  <2>1. f[at[n]] = <<at[n]>> \o <<>>
    <3>1. at[n] \in 0..L /\ NextHdr(b, at[n]) = {}
      BY <1>3 DEF Chain
    <3> QED
      BY <1>1, <3>1 DEF IsWalk
  <2>2. SubSeq(at, n, n) = <<at[n]>> \o SubSeq(at, n + 1, n)
    BY <1>3, SubSeqRecursiveFirst
  <2>3. SubSeq(at, n + 1, n) = <<>>
    BY <1>3, SubSeqEmpty
  <2> QED
    BY <1>3, <2>1, <2>2, <2>3
<1>5. ASSUME NEW k \in Nat, k \in Z PROVE k + 1 \in Z
  <2> SUFFICES ASSUME k + 1 < n
               PROVE  f[at[n - (k + 1)]] = SubSeq(at, n - (k + 1), n)
    OBVIOUS
  <2> DEFINE i == n - (k + 1)
  <2>1. i \in 1..(n - 1) /\ i + 1 = n - k /\ i \in 1..n
    BY <1>3
  <2>2. f[at[i + 1]] = SubSeq(at, i + 1, n)
    BY <1>3, <1>5, <2>1
  <2> HIDE DEF i
  <2>3. NextHdr(b, at[i]) = {at[i + 1]}
    BY <2>1 DEF Chain
  <2>4. f[at[i]] = <<at[i]>> \o f[at[i + 1]]
    <3>1. (CHOOSE m \in {at[i + 1]} : TRUE) = at[i + 1]
      OBVIOUS
    <3>2. at[i] \in 0..L
      BY <1>3, <2>1
    <3> QED
      BY <1>1, <2>3, <3>1, <3>2 DEF IsWalk
  <2>5. SubSeq(at, i, n) = <<at[i]>> \o SubSeq(at, i + 1, n)
    BY <1>3, <2>1, SubSeqRecursiveFirst
  <2> QED
    BY <2>2, <2>4, <2>5 DEF i
<1>6. n - 1 \in Z
  <2> HIDE DEF Z
  <2>1. Nat \subseteq Z
    BY <1>4, <1>5, SetInduction
  <2> QED
    BY <1>3, <2>1
<1>7. f[at[1]] = SubSeq(at, 1, n)
  BY <1>3, <1>6
<1>8. SubSeq(at, 1, n) = at
  BY <1>3, SubSeqFull
<1> QED
  BY <1>2, <1>7, <1>8 DEF Chain

-----------------------------------------------------------------------------
(* What a buffer holds *)

MessageSet == [kind : Kinds, items : Seq(Nat)]

\* The buffer is filled with headers for these messages, which begin at these offsets;
\* the last offset is where the next one will be.
Layout(b, ms, at) ==
  /\ ms \in Seq(MessageSet) /\ at \in Seq(Nat) /\ Len(at) = Len(ms) + 1
  /\ at[1] = 0 /\ at[Len(ms) + 1] = b.length
  /\ \A i \in 1..(Len(ms) + 1) : Aligned(at[i]) /\ at[i] <= b.length
  /\ \A i \in 1..Len(ms) :
       LET h == HeaderAt(b, at[i]) IN
       /\ at[i] < b.length /\ at[i + 1] = at[i] + AlignUp(h.len) /\ h.len >= HdrLen
       /\ ms[i] = [kind |-> h.kind, items |-> Items(h)]

HoldsMessages(b, ms) == HeadsOK(b) /\ \E at : Layout(b, ms, at)

LEMMA EmptyHolds ==
  ASSUME NEW b, HeadsOK(b), b.length = 0
  PROVE  HoldsMessages(b, <<>>) /\ Messages(b) = <<>>
<1> DEFINE at == <<0>>
<1>1. at \in Seq(Nat) /\ Len(at) = 1 /\ at[1] = 0
  OBVIOUS
<1>2. Layout(b, <<>>, at)
  <2>1. <<>> \in Seq(MessageSet) /\ Len(<<>>) = 0
    BY EmptySeq
  <2> HIDE DEF at
  <2> QED
    BY <1>1, <2>1, HeaderAligned DEF Layout
<1>3. Visited(b) = <<>>
  BY Sizes DEF Visited
<1>4. Messages(b) = <<>>
  BY <1>3 DEF Messages
<1> QED
  BY <1>2, <1>4 DEF HoldsMessages

LEMMA LayoutAt ==
  ASSUME NEW b, NEW ms, NEW at, Layout(b, ms, at), NEW i \in 1..Len(ms)
  PROVE  /\ Len(ms) \in Nat /\ at[i] \in Nat /\ at[i + 1] \in Nat
         /\ at[i] < b.length /\ at[i + 1] <= b.length
         /\ at[i + 1] = at[i] + AlignUp(HeaderAt(b, at[i]).len)
         /\ HeaderAt(b, at[i]).len >= HdrLen
<1>1. Len(ms) \in Nat /\ i \in 1..(Len(ms) + 1) /\ i + 1 \in 1..(Len(ms) + 1)
  BY DEF Layout
<1>2. /\ at[i] < b.length /\ at[i + 1] = at[i] + AlignUp(HeaderAt(b, at[i]).len)
      /\ HeaderAt(b, at[i]).len >= HdrLen
  BY DEF Layout
<1>3. at[i + 1] <= b.length
  BY <1>1 DEF Layout
<1>4. at[i] \in Nat /\ at[i + 1] \in Nat
  BY <1>1 DEF Layout
<1> QED
  BY <1>1, <1>2, <1>3, <1>4

LEMMA LayoutNext ==
  ASSUME NEW b, HeadsOK(b), NEW ms, NEW at, Layout(b, ms, at), NEW i \in 1..Len(ms)
  PROVE  /\ i = Len(ms) => NextHdr(b, at[i]) = {}
         /\ i # Len(ms) => NextHdr(b, at[i]) = {at[i + 1]}
<1> DEFINE h == HeaderAt(b, at[i])
           n == at[i] + AlignUp(h.len)
<1>1. Len(ms) \in Nat /\ i \in 1..(Len(ms) + 1) /\ i + 1 \in 1..(Len(ms) + 1)
  BY DEF Layout
<1>2. /\ n = at[i + 1] /\ h.len >= HdrLen /\ n \in Nat
      /\ at[i + 1] <= b.length /\ b.length \in Nat
  BY LayoutAt DEF HeadsOK
<1>3. NextHdr(b, at[i]) =
        {m \in {n} : /\ h.len >= HdrLen /\ n + HdrLen <= b.length
                     /\ n + AlignUp(HeaderAt(b, n).len) <= b.length}
  BY DEF NextHdr
<1> HIDE DEF n, h
<1>4. CASE i = Len(ms)
  <2>1. n = b.length
    BY <1>2, <1>4 DEF Layout
  <2> QED
    BY <1>2, <1>3, <1>4, <2>1, Sizes
<1>5. CASE i # Len(ms)
  <2>1. i + 1 \in 1..Len(ms) /\ (i + 1) + 1 \in 1..(Len(ms) + 1)
    BY <1>1, <1>5
  <2> DEFINE g == HeaderAt(b, at[i + 1])
             d == at[(i + 1) + 1]
  <2>2. /\ d = at[i + 1] + AlignUp(g.len) /\ g.len >= HdrLen
        /\ d <= b.length /\ at[i + 1] \in Nat
    BY <2>1, LayoutAt
  <2>3. g.len \in Nat
    BY HeaderLen
  <2> HIDE DEF g, d
  <2>4. AlignUp(g.len) \in Nat /\ g.len <= AlignUp(g.len)
    BY <2>3, AlignUpIs
  <2>5. n + HdrLen <= b.length /\ n + AlignUp(g.len) <= b.length
    BY <1>2, <2>2, <2>3, <2>4, Sizes
  <2> QED
    BY <1>2, <1>3, <1>5, <2>5 DEF g
<1> QED
  BY <1>4, <1>5

\* Walking a buffer yields the messages that it holds.
THEOREM WalkYields ==
  ASSUME NEW b, NEW ms, HoldsMessages(b, ms)
  PROVE  Messages(b) = ms
<1>1. PICK at : Layout(b, ms, at)
  BY DEF HoldsMessages
<1>2. HeadsOK(b) /\ b.length \in Nat
  BY DEF HoldsMessages, HeadsOK
<1>3. ms \in Seq(MessageSet) /\ at \in Seq(Nat) /\ Len(ms) \in Nat /\ Len(at) = Len(ms) + 1
  BY <1>1 DEF Layout
<1>4. CASE Len(ms) = 0
  <2>1. ms = <<>>
    BY <1>3, <1>4, EmptySeq
  <2>2. b.length = 0
    BY <1>1, <1>4 DEF Layout
  <2> QED
    BY <1>2, <2>1, <2>2, EmptyHolds
<1>5. CASE Len(ms) # 0
  <2> DEFINE n == Len(ms)
             w == SubSeq(at, 1, n)
  <2>1. n \in Nat \ {0}
    BY <1>3, <1>5
  <2>2. w \in Seq(Nat) /\ Len(w) = n /\ \A i \in 1..n : w[i] = at[i]
    <3> HIDE DEF n
    <3>1. \A i \in 1..n : at[i] \in Nat
      BY <1>3, <2>1 DEF n
    <3>2. /\ w \in Seq(Nat) /\ Len(w) = n
          /\ \A i \in 1..n : w[i] = at[1 + i - 1]
      BY <2>1, <3>1, SubSeqProperties
    <3> QED
      BY <2>1, <3>2
  <2> HIDE DEF w
  <2>3. HdrLen <= b.length
    <3>1. 1 \in 1..n /\ 2 \in 1..(n + 1)
      BY <2>1
    <3> DEFINE h == HeaderAt(b, at[1])
    <3>2. /\ at[1] = 0 /\ at[1 + 1] = at[1] + AlignUp(h.len) /\ h.len >= HdrLen
          /\ at[1 + 1] <= b.length
      <4>1. at[1] = 0
        BY <1>1 DEF Layout
      <4> QED
        BY <1>1, <3>1, <4>1, LayoutAt
    <3>3. h.len \in Nat
      BY <1>2, HeaderLen
    <3> HIDE DEF h
    <3> QED
      BY <1>2, <3>2, <3>3, AlignUpIs, Sizes
  <2>4. Chain(b, w, n)
    <3>1. \A i \in 1..n : w[i] <= b.length
      BY <1>1, <2>1, <2>2 DEF Layout
    <3>2. ASSUME NEW i \in 1..(n - 1) PROVE NextHdr(b, w[i]) = {w[i + 1]}
      <4>1. i \in 1..n /\ i # n /\ i + 1 \in 1..n
        BY <2>1
      <4>2. NextHdr(b, at[i]) = {at[i + 1]}
        BY <1>1, <1>2, <4>1, LayoutNext
      <4> QED
        BY <2>2, <4>1, <4>2
    <3>3. NextHdr(b, w[n]) = {}
      <4>1. n \in 1..n /\ w[n] = at[n]
        BY <2>1, <2>2
      <4>2. NextHdr(b, at[n]) = {}
        BY <1>1, <1>2, <4>1, LayoutNext
      <4> QED
        BY <4>1, <4>2
    <3>4. w[1] = 0
      BY <1>1, <2>1, <2>2 DEF Layout
    <3> QED
      BY <2>1, <2>2, <2>3, <3>1, <3>2, <3>3, <3>4 DEF Chain
  <2>5. Visited(b) = w
    BY <1>2, <2>4, ChainVisited
  <2>6. \A i \in 1..n : ms[i] = [kind |-> HeaderAt(b, w[i]).kind, items |-> Items(HeaderAt(b, w[i]))]
    BY <1>1, <2>2 DEF Layout
  <2>7. Messages(b) = [i \in 1..n |-> [kind |-> HeaderAt(b, w[i]).kind,
                                      items |-> Items(HeaderAt(b, w[i]))]]
    BY <2>2, <2>5 DEF Messages
  <2>8. ms = [i \in 1..n |-> ms[i]]
    BY <1>3
  <2> QED
    BY <2>6, <2>7, <2>8
<1> QED
  BY <1>4, <1>5

\* A message is put behind what a buffer holds: the headers in front stay as they are,
\* and the new header and its padding fill the rest.
LEMMA HoldsMore ==
  ASSUME NEW b, NEW ms, HoldsMessages(b, ms), NEW c, HeadsOK(c), NEW m \in MessageSet,
         \A o : o < b.length => HeaderAt(c, o) = HeaderAt(b, o),
         NEW h, h = HeaderAt(c, b.length),
         h.len >= HdrLen, m = [kind |-> h.kind, items |-> Items(h)],
         c.length = b.length + AlignUp(h.len)
  PROVE  HoldsMessages(c, Append(ms, m))
<1>1. PICK at : Layout(b, ms, at)
  BY DEF HoldsMessages
<1> DEFINE n == Len(ms)
           to == Append(at, c.length)
           mt == Append(ms, m)
<1>2. /\ ms \in Seq(MessageSet) /\ at \in Seq(Nat) /\ n \in Nat /\ Len(at) = n + 1
      /\ at[n + 1] = b.length /\ b.length \in Nat /\ c.length \in Nat
  BY <1>1 DEF Layout, HoldsMessages, HeadsOK
<1>3. /\ to \in Seq(Nat) /\ Len(to) = n + 2
      /\ \A i \in 1..(n + 1) : to[i] = at[i]
      /\ to[n + 2] = c.length
  BY <1>2, AppendProperties
<1>4. /\ mt \in Seq(MessageSet) /\ Len(mt) = n + 1
      /\ \A i \in 1..n : mt[i] = ms[i]
      /\ mt[n + 1] = m
  BY <1>2, AppendProperties
<1>5. h.len \in Nat /\ AlignUp(h.len) \in Nat /\ h.len <= AlignUp(h.len)
      /\ b.length < c.length /\ Aligned(AlignUp(h.len))
  <2>1. h.len \in Nat
    BY HeaderLen
  <2>2. AlignUp(h.len) \in Nat /\ h.len <= AlignUp(h.len) /\ Aligned(AlignUp(h.len))
    BY <2>1, AlignUpIs
  <2> QED
    BY <1>2, <2>1, <2>2, Sizes
<1>6. Aligned(b.length) /\ \A i \in 1..(n + 1) : Aligned(at[i]) /\ at[i] <= b.length
  <2>1. n + 1 \in 1..(n + 1)
    BY <1>2
  <2> QED
    BY <1>1, <1>2, <2>1 DEF Layout
<1>7. Aligned(c.length)
  BY <1>2, <1>5, <1>6, AlignedSum
<1> HIDE DEF to, mt
<1>8. \A i \in 1..(n + 2) : Aligned(to[i]) /\ to[i] <= c.length
  <2> SUFFICES ASSUME NEW i \in 1..(n + 2) PROVE Aligned(to[i]) /\ to[i] <= c.length
    OBVIOUS
  <2>1. CASE i \in 1..(n + 1)
    <3>1. to[i] = at[i] /\ at[i] \in Nat
      BY <1>2, <1>3, <2>1
    <3> QED
      BY <1>2, <1>5, <1>6, <2>1, <3>1
  <2>2. CASE i = n + 2
    BY <1>2, <1>3, <1>7, <2>2
  <2> QED
    BY <1>2, <2>1, <2>2
<1>9. ASSUME NEW i \in 1..(n + 1)
      PROVE  LET g == HeaderAt(c, to[i]) IN
             /\ to[i] < c.length /\ to[i + 1] = to[i] + AlignUp(g.len) /\ g.len >= HdrLen
             /\ mt[i] = [kind |-> g.kind, items |-> Items(g)]
  <2>1. CASE i \in 1..n
    <3>1. i \in 1..(n + 1) /\ i + 1 \in 1..(n + 1)
      BY <1>2, <2>1
    <3>2. to[i] = at[i] /\ to[i + 1] = at[i + 1] /\ at[i] \in Nat
      BY <1>2, <1>3, <3>1
    <3>3. LET g == HeaderAt(b, at[i]) IN
             /\ at[i] < b.length /\ at[i + 1] = at[i] + AlignUp(g.len) /\ g.len >= HdrLen
             /\ ms[i] = [kind |-> g.kind, items |-> Items(g)]
      BY <1>1, <2>1 DEF Layout
    <3>4. HeaderAt(c, at[i]) = HeaderAt(b, at[i])
      BY <3>3
    <3>5. at[i] < c.length
      BY <1>2, <1>5, <3>2, <3>3
    <3> QED
      BY <1>4, <2>1, <3>2, <3>3, <3>4, <3>5
  <2>2. CASE i = n + 1
    <3>1. to[i] = b.length /\ i + 1 = n + 2
      <4>1. n + 1 \in 1..(n + 1) /\ i = n + 1 /\ (n + 1) + 1 = n + 2
        BY <1>2, <2>2
      <4>2. to[n + 1] = at[n + 1]
        BY <1>3, <4>1
      <4> QED
        BY <1>2, <4>1, <4>2
    <3> QED
      BY <1>3, <1>4, <1>5, <2>2, <3>1
  <2> QED
    BY <1>2, <2>1, <2>2
<1>10. to[1] = 0 /\ to[(n + 1) + 1] = c.length
  <2>1. 1 \in 1..(n + 1) /\ (n + 1) + 1 = n + 2
    BY <1>2
  <2> QED
    BY <1>1, <1>3, <2>1 DEF Layout
<1>11. Layout(c, mt, to)
  <2>1. Len(mt) + 1 = n + 2 /\ (n + 1) + 1 = n + 2
    BY <1>2, <1>4
  <2> HIDE DEF n
  <2> QED
    BY <1>3, <1>4, <1>8, <1>9, <1>10, <2>1 DEF Layout
<1> QED
  BY <1>11 DEF HoldsMessages, mt

-----------------------------------------------------------------------------
(* Adding *)

HeadFunctions(cap) == UNION {[D -> Headers] : D \in SUBSET (0..cap)}
Buffers(cap) ==
  [cap : {cap}, length : 0..cap, truncated : BOOLEAN, head : HeadFunctions(cap)]

LEMMA HeadFunctionIs ==
  ASSUME NEW cap \in Nat, NEW f \in HeadFunctions(cap)
  PROVE  /\ DOMAIN f \subseteq 0..cap /\ f \in [DOMAIN f -> Headers]
         /\ \A o \in DOMAIN f : f[o] \in Headers
BY DEF HeadFunctions

LEMMA BufferIs ==
  ASSUME NEW cap \in Nat, NEW b \in Buffers(cap)
  PROVE  /\ HeadsOK(b) /\ b.cap = cap /\ b.length \in 0..cap /\ b.truncated \in BOOLEAN
         /\ DOMAIN b.head \subseteq 0..cap /\ \A o \in DOMAIN b.head : b.head[o] \in Headers
<1>1. /\ b.cap = cap /\ b.length \in 0..cap /\ b.truncated \in BOOLEAN
      /\ b.head \in HeadFunctions(cap)
  BY DEF Buffers
<1>2. DOMAIN b.head \subseteq 0..cap /\ \A o \in DOMAIN b.head : b.head[o] \in Headers
  BY <1>1, HeadFunctionIs
<1>3. \A h \in Headers : h.len \in Nat
  BY DEF Headers
<1> QED
  BY <1>1, <1>2, <1>3 DEF HeadsOK

\* The ways in which a buffer is updated; the definitions keep the EXCEPT in one place.
Regrown(b, l, tr, hd) == [b EXCEPT !.length = l, !.truncated = tr, !.head = hd]
Resized(b, l, tr) == [b EXCEPT !.length = l, !.truncated = tr]
Filled(b, l, hd) == [b EXCEPT !.length = l, !.head = hd]
Flagged(b, tr) == [b EXCEPT !.truncated = tr]
Headed(b, hd) == [b EXCEPT !.head = hd]

Buffer(cap, l, tr, hd) == [cap |-> cap, length |-> l, truncated |-> tr, head |-> hd]
AnyBuffer(A, B, C, D) == [cap : A, length : B, truncated : C, head : D]

LEMMA BufferOf ==
  ASSUME NEW A, NEW B, NEW C, NEW D, NEW e \in AnyBuffer({A}, {B}, {C}, {D})
  PROVE  e = Buffer(A, B, C, D)
BY DEF AnyBuffer, Buffer

LEMMA BufferFields ==
  ASSUME NEW A, NEW B, NEW C, NEW D
  PROVE  /\ Buffer(A, B, C, D) \in AnyBuffer({A}, {B}, {C}, {D})
         /\ Buffer(A, B, C, D).cap = A /\ Buffer(A, B, C, D).length = B
         /\ Buffer(A, B, C, D).truncated = C /\ Buffer(A, B, C, D).head = D
BY DEF AnyBuffer, Buffer

LEMMA RegrownIs ==
  ASSUME NEW A, NEW B, NEW C, NEW D, NEW l, NEW tr, NEW hd
  PROVE  Regrown(Buffer(A, B, C, D), l, tr, hd) = Buffer(A, l, tr, hd)
<1> DEFINE b == Buffer(A, B, C, D)
<1>1. b \in AnyBuffer({A}, {B}, {C}, {D})
  BY BufferFields
<1> HIDE DEF b
<1>2. Regrown(b, l, tr, hd) \in AnyBuffer({A}, {l}, {tr}, {hd})
  BY <1>1 DEF AnyBuffer, Regrown
<1> QED
  BY <1>2, BufferOf DEF b

LEMMA ResizedIs ==
  ASSUME NEW A, NEW B, NEW C, NEW D, NEW l, NEW tr
  PROVE  Resized(Buffer(A, B, C, D), l, tr) = Buffer(A, l, tr, D)
<1> DEFINE b == Buffer(A, B, C, D)
<1>1. b \in AnyBuffer({A}, {B}, {C}, {D})
  BY BufferFields
<1> HIDE DEF b
<1>2. Resized(b, l, tr) \in AnyBuffer({A}, {l}, {tr}, {D})
  BY <1>1 DEF AnyBuffer, Resized
<1> QED
  BY <1>2, BufferOf DEF b

LEMMA FilledIs ==
  ASSUME NEW A, NEW B, NEW C, NEW D, NEW l, NEW hd
  PROVE  Filled(Buffer(A, B, C, D), l, hd) = Buffer(A, l, C, hd)
<1> DEFINE b == Buffer(A, B, C, D)
<1>1. b \in AnyBuffer({A}, {B}, {C}, {D})
  BY BufferFields
<1> HIDE DEF b
<1>2. Filled(b, l, hd) \in AnyBuffer({A}, {l}, {C}, {hd})
  BY <1>1 DEF AnyBuffer, Filled
<1> QED
  BY <1>2, BufferOf DEF b

LEMMA FlaggedIs ==
  ASSUME NEW A, NEW B, NEW C, NEW D, NEW tr
  PROVE  Flagged(Buffer(A, B, C, D), tr) = Buffer(A, B, tr, D)
<1> DEFINE b == Buffer(A, B, C, D)
<1>1. b \in AnyBuffer({A}, {B}, {C}, {D})
  BY BufferFields
<1> HIDE DEF b
<1>2. Flagged(b, tr) \in AnyBuffer({A}, {B}, {tr}, {D})
  BY <1>1 DEF AnyBuffer, Flagged
<1> QED
  BY <1>2, BufferOf DEF b

LEMMA HeadedIs ==
  ASSUME NEW A, NEW B, NEW C, NEW D, NEW hd
  PROVE  Headed(Buffer(A, B, C, D), hd) = Buffer(A, B, C, hd)
<1> DEFINE b == Buffer(A, B, C, D)
<1>1. b \in AnyBuffer({A}, {B}, {C}, {D})
  BY BufferFields
<1> HIDE DEF b
<1>2. Headed(b, hd) \in AnyBuffer({A}, {B}, {C}, {hd})
  BY <1>1 DEF AnyBuffer, Headed
<1> QED
  BY <1>2, BufferOf DEF b

LEMMA BufferEta ==
  ASSUME NEW cap \in Nat, NEW b \in Buffers(cap)
  PROVE  b = Buffer(cap, b.length, b.truncated, b.head)
<1>1. b \in AnyBuffer({cap}, {b.length}, {b.truncated}, {b.head})
  BY DEF Buffers, AnyBuffer
<1> QED
  BY <1>1, BufferOf

LEMMA BufferIn ==
  ASSUME NEW cap \in Nat, NEW l \in 0..cap, NEW tr \in BOOLEAN, NEW hd \in HeadFunctions(cap)
  PROVE  Buffer(cap, l, tr, hd) \in Buffers(cap)
BY DEF Buffer, Buffers

LEMMA KindUnit ==
  ASSUME NEW kind \in Kinds
  PROVE  UnitLen(kind) \in Nat \ {0}
BY Sizes DEF UnitLen

LEMMA ItemsIs ==
  ASSUME NEW kind \in Kinds, NEW items \in Seq(Nat)
  PROVE  LET u == Len(items) * UnitLen(kind)
             h == [len |-> CmsgLen(u), kind |-> kind, items |-> items]
         IN u \in Nat /\ h \in Headers /\ Items(h) = items
<1> DEFINE k == Len(items)
           d == UnitLen(kind)
           u == k * d
           h == [len |-> CmsgLen(u), kind |-> kind, items |-> items]
<1>1. k \in Nat /\ d \in Nat \ {0}
  BY KindUnit
<1> HIDE DEF d, k
<1>2. u \in Nat /\ u \div d = k
  BY <1>1
<1> HIDE DEF u
<1>3. CmsgLen(u) = HdrLen + u /\ CmsgLen(u) \in Nat /\ CmsgLen(0) = HdrLen
  BY <1>2, LengthIs, Sizes
<1>4. h \in Headers
  BY <1>3 DEF Headers
<1>5. DataLen(h) = u
  BY <1>2, <1>3, Sizes DEF DataLen
<1>6. Items(h) = [i \in 1..k |-> IF i <= k THEN items[i] ELSE 0]
  BY <1>2, <1>5 DEF Items, d, k
<1>7. Items(h) = [i \in 1..k |-> items[i]]
  BY <1>1, <1>6
<1>8. items = [i \in 1..k |-> items[i]]
  BY DEF k
<1> HIDE DEF h
<1> QED
  BY <1>2, <1>4, <1>7, <1>8 DEF h, u, k, d

\* The new header is where the walk over the grown buffer ends: at its old end.
LEMMA GrownWalk ==
  ASSUME NEW b, NEW ms, HoldsMessages(b, ms), NEW c, HeadsOK(c),
         NEW g \in Nat, c.length = b.length + HdrLen + g,
         \A o : o < b.length => HeaderAt(c, o) = HeaderAt(b, o),
         HeaderAt(c, b.length) = Zero
  PROVE  Visited(c)[Len(Visited(c))] = b.length
<1>1. PICK at : Layout(b, ms, at)
  BY DEF HoldsMessages
<1> DEFINE n == Len(ms)
<1>2. /\ n \in Nat /\ at \in Seq(Nat) /\ Len(at) = n + 1 /\ at[1] = 0
      /\ at[n + 1] = b.length /\ b.length \in Nat /\ HeadsOK(b)
      /\ \A i \in 1..(n + 1) : at[i] <= b.length
  BY <1>1 DEF Layout, HoldsMessages, HeadsOK
<1>3. c.length \in Nat /\ HdrLen <= c.length
  BY <1>2, Sizes
<1>4. \A i \in 1..(n + 1) : at[i] <= c.length
  <2> SUFFICES ASSUME NEW i \in 1..(n + 1) PROVE at[i] <= c.length
    OBVIOUS
  <2>1. at[i] \in Nat /\ at[i] <= b.length
    BY <1>2
  <2> QED
    BY <1>2, <2>1, Sizes
<1>5. ASSUME NEW i \in 1..n PROVE NextHdr(c, at[i]) = {at[i + 1]}
  <2> DEFINE h == HeaderAt(b, at[i])
             m == at[i + 1]
  <2>1. /\ at[i] < b.length /\ at[i] \in Nat /\ m \in Nat /\ m <= b.length
        /\ m = at[i] + AlignUp(h.len) /\ h.len >= HdrLen
    BY <1>1, LayoutAt
  <2>2. HeaderAt(c, at[i]) = h
    BY <2>1
  <2>3. m + HdrLen <= c.length /\ m <= c.length
    <3>1. m \in Nat /\ m <= b.length /\ b.length \in Nat /\ HdrLen \in Nat
      BY <1>2, <2>1, Sizes
    <3> HIDE DEF h, m
    <3> QED
      BY <3>1
  <2>4. m + AlignUp(HeaderAt(c, m).len) <= c.length
    <3>1. CASE i = n
      <4>1. m = b.length
        BY <1>2, <3>1
      <4>2. HeaderAt(c, m).len = 0
        BY <4>1 DEF Zero
      <4>3. m \in Nat /\ m <= c.length
        BY <2>1, <2>3
      <4> HIDE DEF h, m
      <4> QED
        BY <4>2, <4>3, HeaderAligned
    <3>2. CASE i # n
      <4>1. i + 1 \in 1..n
        BY <1>2, <3>2
      <4> DEFINE e == HeaderAt(b, m)
      <4>2. /\ m < b.length /\ at[(i + 1) + 1] \in Nat /\ at[(i + 1) + 1] <= b.length
            /\ at[(i + 1) + 1] = m + AlignUp(e.len)
        BY <1>1, <4>1, LayoutAt
      <4>3. HeaderAt(c, m) = e
        BY <4>2
      <4> HIDE DEF e, m
      <4> QED
        BY <1>2, <4>2, <4>3, Sizes
    <3> QED
      BY <3>1, <3>2
  <2>5. NextHdr(c, at[i]) = {q \in {m} : /\ h.len >= HdrLen /\ m + HdrLen <= c.length
                                         /\ m + AlignUp(HeaderAt(c, m).len) <= c.length}
    <3> HIDE DEF h, m
    <3> QED
      BY <2>1, <2>2 DEF NextHdr
  <2> HIDE DEF h, m
  <2>6. NextHdr(c, at[i]) = {m}
    BY <2>1, <2>3, <2>4, <2>5
  <2> QED
    BY <2>6 DEF m
<1>6. NextHdr(c, b.length) = {}
  <2>1. ~(HeaderAt(c, b.length).len >= HdrLen)
    BY Sizes DEF Zero
  <2> QED
    BY <2>1 DEF NextHdr
<1>7. Chain(c, at, n + 1)
  <2>1. n + 1 \in Nat \ {0} /\ (n + 1) - 1 = n
    BY <1>2
  <2> QED
    BY <1>2, <1>3, <1>4, <1>5, <1>6, <2>1 DEF Chain
<1>8. Visited(c) = at
  BY <1>7, ChainVisited
<1> QED
  BY <1>2, <1>8

\* What fits is added behind what the buffer holds.
THEOREM AddHolds ==
  ASSUME NEW cap \in Nat, NEW b \in Buffers(cap), NEW ms, HoldsMessages(b, ms),
         NEW kind \in Kinds, NEW items \in Seq(Nat), Fits(b, kind, items)
  PROVE  LET c == Add(b, kind, items) IN
         /\ c \in Buffers(cap)
         /\ HoldsMessages(c, Append(ms, [kind |-> kind, items |-> items]))
<1> DEFINE u == Len(items) * UnitLen(kind)
           h == [len |-> CmsgLen(u), kind |-> kind, items |-> items]
           G == Grown(b, kind, items)
           D == {p \in DOMAIN b.head : p < b.length \/ p >= G}
           hd == [o \in D |-> b.head[o]]
           cleared == [b EXCEPT !.length = G, !.truncated = FALSE, !.head = hd]
           no == FALSE
           at == Visited(cleared)[Len(Visited(cleared))]
           hd2 == [o \in D \cup {at} |-> IF o = at THEN h ELSE hd[o]]
           c == [cleared EXCEPT !.head = hd2]
<1>1. /\ HeadsOK(b) /\ b.cap = cap /\ b.length \in 0..cap
      /\ DOMAIN b.head \subseteq 0..cap /\ \A o \in DOMAIN b.head : b.head[o] \in Headers
  BY BufferIs
<1>2. u \in Nat /\ h \in Headers /\ Items(h) = items
  BY ItemsIs
<1>3. /\ CmsgLen(u) = HdrLen + u /\ CmsgLen(u) \in Nat
      /\ G = b.length + AlignUp(CmsgLen(u)) /\ G = b.length + HdrLen + AlignUp(u)
      /\ AlignUp(u) \in Nat /\ G \in Nat
  <2>1. CmsgSpace(u) = AlignUp(CmsgLen(u)) /\ CmsgSpace(u) = HdrLen + AlignUp(u)
    BY <1>2, LengthIs, HeaderAligned DEF CmsgSpace
  <2>2. G = b.length + CmsgSpace(u)
    BY DEF Grown
  <2>3. AlignUp(u) \in Nat /\ CmsgLen(u) = HdrLen + u /\ CmsgLen(u) \in Nat
    <3> HIDE DEF u
    <3> QED
      BY <1>2, LengthIs, AlignUpIs
  <2> HIDE DEF u, G
  <2> QED
    BY <1>1, <1>2, <2>1, <2>2, <2>3, Sizes
<1>4. G <= cap /\ b.length < G
  <2>1. G <= cap
    BY <1>1 DEF Fits
  <2> HIDE DEF G
  <2> QED
    BY <1>1, <1>3, <2>1, Sizes
<1> HIDE DEF u, G
<1>5. cleared = Buffer(cap, G, FALSE, hd)
  <2>1. cleared = Regrown(b, G, FALSE, hd)
    BY DEF Regrown
  <2> HIDE DEF cleared, hd
  <2>2. b = Buffer(cap, b.length, b.truncated, b.head)
    BY BufferEta
  <2>3. Regrown(Buffer(cap, b.length, b.truncated, b.head), G, no, hd)
          = Buffer(cap, G, no, hd)
    <3> HIDE DEF no
    <3> QED
      BY RegrownIs
  <2> QED
    BY <2>1, <2>2, <2>3
<1>6. DOMAIN hd = D /\ D \subseteq 0..cap /\ \A o \in D : hd[o] = b.head[o] /\ hd[o] \in Headers
  BY <1>1
<1>7. HeadsOK(cleared) /\ cleared.length = G /\ cleared.head = hd
  <2>1. \A o \in D : hd[o].len \in Nat
    BY <1>6 DEF Headers
  <2> HIDE DEF hd, D
  <2> QED
    BY <1>3, <1>5, <1>6, <2>1, BufferFields DEF HeadsOK
<1>8. \A o : o < b.length => HeaderAt(cleared, o) = HeaderAt(b, o)
  <2>1. \A o : o < b.length => (o \in D <=> o \in DOMAIN b.head)
    OBVIOUS
  <2> HIDE DEF cleared, D, hd
  <2> QED
    BY <1>6, <1>7, <2>1 DEF HeaderAt
<1>9. HeaderAt(cleared, b.length) = Zero
  <2>1. b.length \notin D
    BY <1>1, <1>3, <1>4
  <2> HIDE DEF cleared, D, hd
  <2> QED
    BY <1>6, <1>7, <2>1 DEF HeaderAt
<1>10. at = b.length
  <2> HIDE DEF cleared
  <2> QED
    BY <1>3, <1>7, <1>8, <1>9, GrownWalk
<1>11. Add(b, kind, items) = c
  BY DEF Add, G, u
<1> HIDE DEF at
<1>12. c = Buffer(cap, G, FALSE, hd2)
  <2>1. c = Headed(cleared, hd2) /\ cleared = Buffer(cap, G, no, hd)
    BY <1>5 DEF Headed
  <2>2. c = Buffer(cap, G, no, hd2)
    <3> HIDE DEF c, cleared, hd, hd2, no
    <3>1. Headed(Buffer(cap, G, no, hd), hd2) = Buffer(cap, G, no, hd2)
      BY HeadedIs
    <3> QED
      BY <2>1, <3>1
  <2> QED
    BY <2>2
<1>13. /\ DOMAIN hd2 = D \cup {b.length} /\ hd2[b.length] = h
       /\ \A o \in D : o # b.length => hd2[o] = b.head[o]
       /\ \A o \in DOMAIN hd2 : hd2[o] \in Headers
  <2> HIDE DEF h, D, hd
  <2> QED
    BY <1>2, <1>6, <1>10
<1>14. c \in Buffers(cap)
  <2>1. DOMAIN hd2 \in SUBSET (0..cap) /\ hd2 \in [DOMAIN hd2 -> Headers]
    <3> HIDE DEF h, D, hd
    <3>1. DOMAIN hd2 \subseteq 0..cap
      BY <1>1, <1>6, <1>13
    <3>2. hd2 = [o \in DOMAIN hd2 |-> hd2[o]]
      OBVIOUS
    <3> HIDE DEF hd2
    <3> QED
      BY <1>13, <3>1, <3>2
  <2>2. hd2 \in HeadFunctions(cap)
    <3> HIDE DEF hd2
    <3> QED
      BY <2>1 DEF HeadFunctions
  <2>3. G \in 0..cap
    BY <1>3, <1>4
  <2> HIDE DEF hd2, c
  <2> QED
    BY <1>12, <2>2, <2>3, BufferIn
<1> HIDE DEF hd2
<1>15. c.length = b.length + AlignUp(h.len) /\ c.head = hd2 /\ h.len >= HdrLen
  <2>1. h.len = CmsgLen(u)
    OBVIOUS
  <2> HIDE DEF h
  <2> QED
    BY <1>2, <1>3, <1>12, <2>1, BufferFields, Sizes
<1>16. HeaderAt(c, b.length) = h
  <2> HIDE DEF h, c, D
  <2> QED
    BY <1>13, <1>15 DEF HeaderAt
<1>17. \A o : o < b.length => HeaderAt(c, o) = HeaderAt(b, o)
  <2>1. \A o : o < b.length => (o \in D <=> o \in DOMAIN b.head)
    OBVIOUS
  <2>2. \A o : o < b.length => o # b.length
    BY <1>1
  <2> HIDE DEF h, c, D
  <2> QED
    BY <1>13, <1>15, <2>1, <2>2 DEF HeaderAt
<1>18. [kind |-> kind, items |-> items] \in MessageSet
  BY DEF MessageSet
<1>19. [kind |-> kind, items |-> items] = [kind |-> h.kind, items |-> Items(h)]
  BY <1>2
<1>20. HeadsOK(c)
  <2> HIDE DEF c
  <2> QED
    BY <1>14, BufferIs
<1>21. HoldsMessages(c, Append(ms, [kind |-> kind, items |-> items]))
  <2> HIDE DEF h, c
  <2> QED
    BY <1>15, <1>16, <1>17, <1>18, <1>19, <1>20, HoldsMore
<1> QED
  BY <1>11, <1>14, <1>21

-----------------------------------------------------------------------------
(* Other changes of a buffer *)

LEMMA SameMessages ==
  ASSUME NEW b, NEW ms, HoldsMessages(b, ms), NEW c, c.length = b.length, c.head = b.head
  PROVE  HoldsMessages(c, ms)
<1>1. PICK at : Layout(b, ms, at)
  BY DEF HoldsMessages
<1>2. \A o : HeaderAt(c, o) = HeaderAt(b, o)
  BY DEF HeaderAt
<1>3. Layout(c, ms, at)
  BY <1>1, <1>2 DEF Layout
<1>4. HeadsOK(c)
  BY DEF HoldsMessages, HeadsOK
<1> QED
  BY <1>3, <1>4 DEF HoldsMessages

\* The flag is no part of what a buffer holds.
LEMMA FlaggedHolds ==
  ASSUME NEW cap \in Nat, NEW b \in Buffers(cap), NEW tr \in BOOLEAN
  PROVE  /\ Flagged(b, tr) \in Buffers(cap)
         /\ Flagged(b, tr).length = b.length /\ Flagged(b, tr).cap = cap
         /\ \A ms : HoldsMessages(b, ms) => HoldsMessages(Flagged(b, tr), ms)
<1> DEFINE c == Flagged(b, tr)
<1>1. b = Buffer(cap, b.length, b.truncated, b.head)
  BY BufferEta
<1>2. c = Buffer(cap, b.length, tr, b.head)
  <2>1. Flagged(Buffer(cap, b.length, b.truncated, b.head), tr)
          = Buffer(cap, b.length, tr, b.head)
    BY FlaggedIs
  <2> QED
    BY <1>1, <2>1
<1>3. b.length \in 0..cap /\ b.head \in HeadFunctions(cap)
  BY DEF Buffers
<1> HIDE DEF c
<1>4. c \in Buffers(cap)
  BY <1>2, <1>3, BufferIn
<1>5. c.length = b.length /\ c.head = b.head /\ c.cap = cap
  BY <1>2 DEF Buffer
<1>6. \A ms : HoldsMessages(b, ms) => HoldsMessages(c, ms)
  BY <1>5, SameMessages
<1> QED
  BY <1>4, <1>5, <1>6 DEF c

\* What does not fit leaves the buffer as it is.
LEMMA AddNothing ==
  ASSUME NEW cap \in Nat, NEW b \in Buffers(cap), NEW ms, HoldsMessages(b, ms),
         NEW kind, NEW items, ~Fits(b, kind, items)
  PROVE  Add(b, kind, items) \in Buffers(cap) /\ HoldsMessages(Add(b, kind, items), ms)
<1>1. Add(b, kind, items) = Flagged(b, FALSE)
  BY DEF Add, Flagged
<1> DEFINE no == FALSE
<1>2. no \in BOOLEAN /\ Add(b, kind, items) = Flagged(b, no)
  BY <1>1
<1> HIDE DEF no
<1>3. Flagged(b, no) \in Buffers(cap) /\ HoldsMessages(Flagged(b, no), ms)
  BY <1>2, FlaggedHolds
<1> QED
  BY <1>2, <1>3

LEMMA ClearHolds ==
  ASSUME NEW cap \in Nat, NEW b \in Buffers(cap)
  PROVE  /\ Clear(b) \in Buffers(cap) /\ Clear(b).length = 0
         /\ HoldsMessages(Clear(b), <<>>)
<1> DEFINE c == Clear(b)
           no == FALSE
<1>1. b = Buffer(cap, b.length, b.truncated, b.head)
  BY BufferEta
<1>2. c = Buffer(cap, 0, no, b.head)
  <2>1. c = Resized(b, 0, no)
    BY DEF Clear, Resized
  <2>2. Resized(Buffer(cap, b.length, b.truncated, b.head), 0, no)
          = Buffer(cap, 0, no, b.head)
    <3> HIDE DEF no
    <3> QED
      BY ResizedIs
  <2> HIDE DEF no, c
  <2> QED
    BY <1>1, <2>1, <2>2
<1>3. b.head \in HeadFunctions(cap) /\ no \in BOOLEAN
  BY DEF Buffers
<1> HIDE DEF c, no
<1>4. c \in Buffers(cap)
  BY <1>2, <1>3, BufferIn
<1>5. c.length = 0 /\ HeadsOK(c)
  <2>1. c.length = 0
    BY <1>2 DEF Buffer
  <2> QED
    BY <1>4, <2>1, BufferIs
<1> QED
  BY <1>4, <1>5, EmptyHolds DEF c

LEMMA NewHolds ==
  ASSUME NEW cap \in Nat
  PROVE  /\ NewBuffer(cap) \in Buffers(cap) /\ NewBuffer(cap).cap = cap
         /\ HoldsMessages(NewBuffer(cap), <<>>)
<1> DEFINE b == NewBuffer(cap)
           no == FALSE
           hd == [o \in {} |-> Zero]
<1>1. b = Buffer(cap, 0, no, hd)
  BY DEF NewBuffer, Buffer
<1>2. hd \in HeadFunctions(cap)
  <2>1. hd \in [{} -> Headers] /\ {} \in SUBSET (0..cap)
    OBVIOUS
  <2> HIDE DEF hd
  <2> QED
    BY <2>1 DEF HeadFunctions
<1>3. no \in BOOLEAN
  OBVIOUS
<1> HIDE DEF b, no, hd
<1>4. b \in Buffers(cap)
  BY <1>1, <1>2, <1>3, BufferIn
<1>5. b.length = 0 /\ HeadsOK(b) /\ b.cap = cap
  <2>1. b.length = 0 /\ b.cap = cap
    BY <1>1 DEF Buffer
  <2> QED
    BY <1>4, <2>1, BufferIs
<1> QED
  BY <1>4, <1>5, EmptyHolds DEF b

-----------------------------------------------------------------------------
(* The kernel's side *)

LEMMA HoldsAligned ==
  ASSUME NEW b, NEW ms, HoldsMessages(b, ms)
  PROVE  Aligned(b.length) /\ ms \in Seq(MessageSet)
<1>1. PICK at : Layout(b, ms, at)
  BY DEF HoldsMessages
<1>2. ms \in Seq(MessageSet) /\ Len(ms) + 1 \in 1..(Len(ms) + 1)
  BY <1>1 DEF Layout
<1> QED
  BY <1>1, <1>2 DEF Layout

LEMMA AlignedDifference ==
  ASSUME NEW m \in Nat, NEW n \in Nat, Aligned(m), Aligned(n), n <= m
  PROVE  Aligned(m - n)
<1>1. m - n \in Nat /\ m = n + (m - n)
  OBVIOUS
<1> QED
  BY <1>1, AlignedSum

LEMMA LeastIs ==
  ASSUME NEW a \in Nat, NEW c \in Nat
  PROVE  /\ Least(a, c) \in Nat /\ Least(a, c) <= a /\ Least(a, c) <= c
         /\ a <= c => Least(a, c) = a
         /\ c <= a => Least(a, c) = c
BY DEF Least

LEMMA ItemsOf ==
  ASSUME NEW h \in Headers, h.len >= HdrLen
  PROVE  Items(h) \in Seq(Nat)
<1> DEFINE d == UnitLen(h.kind)
           n == h.len - HdrLen
           k == n \div d
<1>1. h.len \in Nat /\ h.kind \in Kinds /\ h.items \in Seq(Nat)
  BY DEF Headers
<1>2. d \in Nat \ {0}
  BY <1>1, KindUnit
<1>3. n \in Nat
  BY <1>1, Sizes
<1>4. DataLen(h) = n
  <2>1. CmsgLen(0) = HdrLen
    BY LengthIs, Sizes
  <2> QED
    BY <2>1 DEF DataLen
<1>5. k \in Nat
  <2> HIDE DEF d, n
  <2> QED
    BY <1>2, <1>3, Division
<1>6. Items(h) = [i \in 1..k |-> IF i <= Len(h.items) THEN h.items[i] ELSE 0]
  BY <1>4 DEF Items
<1>7. \A i \in 1..k : (IF i <= Len(h.items) THEN h.items[i] ELSE 0) \in Nat
  <2> HIDE DEF k
  <2> QED
    BY <1>1, <1>5
<1> HIDE DEF k
<1> QED
  BY <1>5, <1>6, <1>7

\* The length of what fits of a header: all of it, or the rest of an aligned buffer.
LEMMA CutLength ==
  ASSUME NEW cap \in Nat, Aligned(cap), NEW from \in Nat, Aligned(from), from <= cap,
         NEW len \in Nat
  PROVE  Least(from + AlignUp(len), cap) = from + AlignUp(Least(len, cap - from))
<1> DEFINE r == cap - from
<1>1. r \in Nat /\ Aligned(r) /\ cap = from + r
  BY AlignedDifference
<1>2. AlignUp(len) \in Nat /\ len <= AlignUp(len)
  BY AlignUpIs
<1> HIDE DEF r
<1>3. CASE len <= r
  <2>1. AlignUp(len) <= r /\ Least(len, r) = len
    BY <1>1, <1>3, AlignUpLeast, LeastIs
  <2> QED
    BY <1>1, <1>2, <2>1, LeastIs DEF r
<1>4. CASE r < len
  <2>1. AlignUp(r) = r /\ Least(len, r) = r
    BY <1>1, <1>4, AlignUpAligned, LeastIs
  <2>2. cap <= from + AlignUp(len) /\ from + AlignUp(len) \in Nat
    BY <1>1, <1>2, <1>4
  <2>3. Least(from + AlignUp(len), cap) = cap
    BY <2>2, LeastIs
  <2> QED
    BY <1>1, <2>1, <2>3 DEF r
<1> QED
  BY <1>1, <1>3, <1>4

\* What the kernel writes is behind what the buffer holds, cut off at its end.
LEMMA PutHolds ==
  ASSUME NEW cap \in Nat, Aligned(cap), NEW b \in Buffers(cap), NEW ms, HoldsMessages(b, ms),
         HdrLen <= cap - b.length, NEW kind \in Kinds, NEW items \in Seq(Nat),
         NEW len \in Nat, HdrLen <= len,
         NEW h, h = [len |-> Least(len, cap - b.length), kind |-> kind, items |-> items]
  PROVE  /\ Put(b, kind, items, len) \in Buffers(cap)
         /\ Put(b, kind, items, len).length = b.length + AlignUp(h.len)
         /\ HoldsMessages(Put(b, kind, items, len),
                          Append(ms, [kind |-> kind, items |-> Items(h)]))
<1> DEFINE L == b.length
           r == cap - L
           G == Least(L + AlignUp(len), cap)
           D == {p \in DOMAIN b.head : p < L \/ p >= G}
           hd == [o \in D \cup {L} |-> IF o = L THEN h ELSE b.head[o]]
           c == [b EXCEPT !.length = G, !.head = hd]
<1>1. /\ HeadsOK(b) /\ b.cap = cap /\ L \in 0..cap
      /\ DOMAIN b.head \subseteq 0..cap /\ \A o \in DOMAIN b.head : b.head[o] \in Headers
  BY BufferIs
<1>2. Put(b, kind, items, len) = c
  BY <1>1 DEF Put
<1>3. /\ r \in Nat /\ h \in Headers /\ h.len = Least(len, r) /\ h.len <= r
      /\ h.len >= HdrLen /\ h.kind = kind
  <2>1. r \in Nat
    BY <1>1
  <2>2. Least(len, r) \in Nat /\ Least(len, r) <= r /\ Least(len, r) >= HdrLen
    <3> HIDE DEF r
    <3> QED
      BY <2>1, Sizes DEF Least, r
  <2>3. h = [len |-> Least(len, r), kind |-> kind, items |-> items]
    OBVIOUS
  <2> HIDE DEF r
  <2> QED
    BY <2>1, <2>2, <2>3 DEF Headers
<1>4. G = L + AlignUp(h.len) /\ G \in 0..cap
  <2>1. Aligned(L)
    BY HoldsAligned
  <2>2. G = L + AlignUp(Least(len, r))
    BY <1>1, <2>1, CutLength
  <2>3. L + AlignUp(len) \in Nat
    <3>1. AlignUp(len) \in Nat
      BY AlignUpIs
    <3>2. L \in Nat
      BY <1>1
    <3> HIDE DEF L
    <3> QED
      BY <3>1, <3>2
  <2>4. G \in Nat /\ G <= cap
    BY <2>3, LeastIs
  <2> HIDE DEF G
  <2> QED
    BY <1>3, <2>2, <2>4
<1>5. c = Buffer(cap, G, b.truncated, hd)
  <2>1. c = Filled(b, G, hd)
    BY DEF Filled
  <2> HIDE DEF c, G, hd
  <2>2. b = Buffer(cap, b.length, b.truncated, b.head)
    BY BufferEta
  <2>3. Filled(Buffer(cap, b.length, b.truncated, b.head), G, hd)
          = Buffer(cap, G, b.truncated, hd)
    BY FilledIs
  <2> QED
    BY <2>1, <2>2, <2>3
<1> HIDE DEF G
<1>6. /\ DOMAIN hd = D \cup {L} /\ hd[L] = h
      /\ \A o \in D : o # L => hd[o] = b.head[o]
      /\ \A o \in DOMAIN hd : hd[o] \in Headers
  <2>1. D \subseteq DOMAIN b.head
    OBVIOUS
  <2> HIDE DEF D, L
  <2> QED
    BY <1>1, <1>3, <2>1
<1>7. hd \in HeadFunctions(cap)
  <2>1. DOMAIN hd \in SUBSET (0..cap)
    BY <1>1, <1>6
  <2>2. hd = [o \in DOMAIN hd |-> hd[o]]
    OBVIOUS
  <2> HIDE DEF hd
  <2>3. hd \in [DOMAIN hd -> Headers]
    BY <1>6, <2>2
  <2> QED
    BY <2>1, <2>3 DEF HeadFunctions
<1> HIDE DEF c, hd
<1>8. c \in Buffers(cap)
  <2>1. b.truncated \in BOOLEAN
    BY BufferIs
  <2> QED
    BY <1>4, <1>5, <1>7, <2>1, BufferIn
<1>9. c.length = G /\ c.head = hd /\ HeadsOK(c)
  <2>1. c.length = G /\ c.head = hd
    BY <1>5 DEF Buffer
  <2> QED
    BY <1>8, <2>1, BufferIs
<1>10. HeaderAt(c, L) = h
  <2> HIDE DEF D, L
  <2> QED
    BY <1>6, <1>9 DEF HeaderAt
<1>11. \A o : o < L => HeaderAt(c, o) = HeaderAt(b, o)
  <2>1. \A o : o < L => (o \in D <=> o \in DOMAIN b.head)
    OBVIOUS
  <2>2. \A o : o < L => o # L
    BY <1>1
  <2> HIDE DEF D, L
  <2> QED
    BY <1>6, <1>9, <2>1, <2>2 DEF HeaderAt
<1> DEFINE m == [kind |-> kind, items |-> Items(h)]
<1>12. m \in MessageSet /\ m = [kind |-> h.kind, items |-> Items(h)]
  BY <1>3, ItemsOf DEF MessageSet
<1>13. HoldsMessages(c, Append(ms, m))
  <2> HIDE DEF m
  <2> QED
    BY <1>3, <1>4, <1>9, <1>10, <1>11, <1>12, HoldsMore
<1> QED
  BY <1>2, <1>4, <1>8, <1>9, <1>13

\* What a program with this control buffer should find after recvmsg.
CredMessages(cap, creds) ==
  IF creds = <<>> \/ cap < HdrLen THEN <<>>
  ELSE <<[kind |-> "creds", items |-> IF cap >= CmsgLen(CredLen) THEN creds ELSE <<>>]>>
RightMessages(fds) ==
  IF fds = <<>> THEN <<>> ELSE <<[kind |-> "rights", items |-> fds]>>

LEMMA CredItems ==
  ASSUME NEW cap \in Nat, HdrLen <= cap, NEW pid \in Nat,
         NEW h, h = [len |-> Least(CmsgLen(CredLen), cap), kind |-> "creds", items |-> <<pid>>]
  PROVE  Items(h) = IF cap >= CmsgLen(CredLen) THEN <<pid>> ELSE <<>>
<1> DEFINE d == CredLen
<1>1. /\ CmsgLen(d) = HdrLen + d /\ CmsgLen(0) = HdrLen
      /\ d \in Nat \ {0} /\ HdrLen \in Nat /\ HdrLen + d \in Nat
  BY LengthIs, Sizes
<1> HIDE DEF d
<1>2. UnitLen(h.kind) = d /\ DataLen(h) = Least(HdrLen + d, cap) - HdrLen
      /\ h.items = <<pid>>
  BY <1>1 DEF UnitLen, DataLen, d
<1>3. CASE cap >= HdrLen + d
  <2>1. Least(HdrLen + d, cap) = HdrLen + d
    BY <1>1, <1>3, LeastIs
  <2>2. ((HdrLen + d) - HdrLen) \div d = 1
    BY <1>1
  <2>3. Items(h) = [i \in 1..1 |-> IF i <= Len(<<pid>>) THEN <<pid>>[i] ELSE 0]
    BY <1>2, <2>1, <2>2 DEF Items
  <2>4. Items(h) = <<pid>>
    BY <2>3
  <2> QED
    BY <1>1, <1>3, <2>4 DEF d
<1>4. CASE cap < HdrLen + d
  <2>1. Least(HdrLen + d, cap) = cap
    BY <1>1, <1>4, LeastIs
  <2>2. (cap - HdrLen) \div d = 0
    <3>1. PICK e \in Nat : e = cap - HdrLen /\ e < d
      BY <1>1, <1>4
    <3>2. e \div d = 0
      BY <1>1, <3>1
    <3> QED
      BY <3>1, <3>2
  <2>3. Items(h) = [i \in 1..0 |-> IF i <= Len(<<pid>>) THEN <<pid>>[i] ELSE 0]
    BY <1>2, <2>1, <2>2 DEF Items
  <2>4. Items(h) = <<>>
    BY <2>3
  <2> QED
    BY <1>1, <1>4, <2>4 DEF d
<1> QED
  BY <1>1, <1>3, <1>4

\* The credentials come first.
LEMMA CredsHold ==
  ASSUME NEW cap \in Nat, Aligned(cap), NEW b \in Buffers(cap), b.length = 0,
         HoldsMessages(b, <<>>), NEW creds, creds = <<>> \/ \E pid \in Nat : creds = <<pid>>
  PROVE  /\ PutCreds(b, creds) \in Buffers(cap)
         /\ HoldsMessages(PutCreds(b, creds), CredMessages(cap, creds))
<1>1. b.cap = cap
  BY BufferIs
<1>2. CASE creds = <<>>
  BY <1>2 DEF PutCreds, CredMessages
<1>3. CASE creds # <<>> /\ cap < HdrLen
  <2> DEFINE yes == TRUE
  <2>1. PutCreds(b, creds) = Flagged(b, yes) /\ yes \in BOOLEAN
    BY <1>1, <1>3 DEF PutCreds, Flagged
  <2>2. CredMessages(cap, creds) = <<>>
    BY <1>3 DEF CredMessages
  <2> HIDE DEF yes
  <2> QED
    BY <2>1, <2>2, FlaggedHolds
<1>4. CASE creds # <<>> /\ HdrLen <= cap
  <2>1. PICK pid \in Nat : creds = <<pid>>
    BY <1>4
  <2> DEFINE len == CmsgLen(CredLen)
             c == Put(b, "creds", creds, len)
             tr == b.cap - b.length < len
             h == [len |-> Least(len, cap - b.length), kind |-> "creds", items |-> creds]
  <2>2. len \in Nat /\ HdrLen <= len /\ "creds" \in Kinds /\ creds \in Seq(Nat)
    <3>1. CredLen \in Nat /\ len = HdrLen + CredLen
      BY LengthIs, Sizes
    <3>2. creds \in Seq(Nat)
      BY <2>1
    <3> HIDE DEF len
    <3> QED
      BY <3>1, <3>2, Sizes DEF Kinds
  <2>3. PutCreds(b, creds) = Flagged(c, tr) /\ tr \in BOOLEAN
    <3>1. ~(b.cap - b.length < HdrLen)
      BY <1>1, <1>4, Sizes
    <3> QED
      BY <1>4, <3>1 DEF PutCreds, Flagged
  <2>4. HdrLen <= cap - b.length /\ cap - b.length = cap
    BY <1>4
  <2> HIDE DEF len, tr
  <2>5. /\ c \in Buffers(cap)
        /\ HoldsMessages(c, Append(<<>>, [kind |-> "creds", items |-> Items(h)]))
    BY <2>2, <2>4, PutHolds
  <2>6. Items(h) = IF cap >= CmsgLen(CredLen) THEN creds ELSE <<>>
    <3>1. h = [len |-> Least(CmsgLen(CredLen), cap), kind |-> "creds", items |-> <<pid>>]
      BY <2>1, <2>4 DEF len
    <3> HIDE DEF h
    <3> QED
      BY <1>4, <2>1, <3>1, CredItems
  <2> HIDE DEF h, c
  <2>7. Append(<<>>, [kind |-> "creds", items |-> Items(h)])
          = <<[kind |-> "creds", items |-> Items(h)]>>
    OBVIOUS
  <2>8. CredMessages(cap, creds) = <<[kind |-> "creds", items |-> Items(h)]>>
    <3>1. ~(cap < HdrLen)
      BY <1>4, Sizes
    <3> QED
      BY <1>4, <2>6, <3>1 DEF CredMessages
  <2> QED
    BY <2>3, <2>5, <2>7, <2>8, FlaggedHolds
<1> QED
  BY <1>2, <1>3, <1>4, Sizes

\* Descriptors that there is room for are put behind what the buffer holds.
LEMMA RightsHold ==
  ASSUME NEW cap \in Nat, Aligned(cap), NEW b \in Buffers(cap), NEW ms, HoldsMessages(b, ms),
         NEW fds \in Seq(Nat), Len(fds) <= FdRoom(b), NEW count
  PROVE  /\ PutRights(b, fds, count) \in Buffers(cap)
         /\ HoldsMessages(PutRights(b, fds, count), ms \o RightMessages(fds))
<1> DEFINE tr == b.truncated \/ Len(fds) < count
           c == Flagged(b, tr)
<1>1. /\ c \in Buffers(cap) /\ c.length = b.length /\ c.cap = cap /\ HoldsMessages(c, ms)
  <2>1. tr \in BOOLEAN
    OBVIOUS
  <2> HIDE DEF tr
  <2> QED
    BY <2>1, FlaggedHolds
<1>2. ms \in Seq(MessageSet)
  BY HoldsAligned
<1>3. CASE fds = <<>>
  <2>1. PutRights(b, fds, count) = c
    BY <1>3 DEF PutRights, Flagged
  <2>2. ms \o RightMessages(fds) = ms
    BY <1>2, <1>3, ConcatEmptySeq DEF RightMessages
  <2> QED
    BY <1>1, <2>1, <2>2
<1>4. CASE fds # <<>>
  <2> DEFINE k == Len(fds)
             u == k * FdLen
             len == CmsgLen(u)
             r == cap - c.length
             h == [len |-> Least(len, r), kind |-> "rights", items |-> fds]
             d == Put(c, "rights", fds, len)
  <2>1. PutRights(b, fds, count) = d
    BY <1>4 DEF PutRights, Flagged
  <2>2. k \in Nat \ {0}
    BY <1>4, EmptySeq
  <2>3. r \in Nat /\ b.cap = cap /\ r = b.cap - b.length
    BY <1>1, BufferIs
  <2>4. HdrLen <= r /\ u \in Nat /\ u <= r - HdrLen
    <3>1. CmsgLen(0) = HdrLen
      BY LengthIs, Sizes
    <3>2. FdRoom(b) = IF r <= HdrLen THEN 0 ELSE (r - HdrLen) \div FdLen
      BY <2>3, <3>1 DEF FdRoom
    <3> DEFINE n == r - HdrLen
               q == n \div FdLen
    <3> HIDE DEF r, k
    <3>3. r > HdrLen /\ k <= q /\ n \in Nat
      BY <2>2, <2>3, <3>2, Sizes DEF k
    <3>4. q \in Nat /\ n = (FdLen * q) + (n % FdLen) /\ n % FdLen \in Nat
      <4> HIDE DEF n
      <4> QED
        BY <3>3, Sizes, Division
    <3> HIDE DEF n, q
    <3>5. u \in Nat /\ u <= FdLen * q
      <4>1. PICK e \in Nat : q = k + e
        <5>1. q - k \in Nat /\ q = k + (q - k)
          BY <2>2, <3>3, <3>4
        <5> QED
          BY <5>1
      <4>2. FdLen * q = k * FdLen + e * FdLen /\ e * FdLen \in Nat
        BY <2>2, <4>1, Sizes
      <4> QED
        BY <2>2, <4>2, Sizes
    <3> HIDE DEF u
    <3>6. u <= n
      <4>1. FdLen * q \in Nat
        BY <3>4, Sizes
      <4> DEFINE p == FdLen * q
      <4> HIDE DEF p
      <4> QED
        BY <3>4, <3>5, <4>1 DEF p
    <3> QED
      BY <2>3, <3>3, <3>5, <3>6, Sizes DEF n
  <2>5. len = HdrLen + u /\ len \in Nat /\ HdrLen <= len /\ len <= r
    <3> HIDE DEF u, r
    <3>1. len = HdrLen + u
      BY <2>4, LengthIs
    <3> HIDE DEF len
    <3> QED
      BY <2>3, <2>4, <3>1, Sizes
  <2>6. h = [len |-> len, kind |-> "rights", items |-> fds]
    <3>1. Least(len, r) = len
      <4> HIDE DEF len, r
      <4> QED
        BY <2>5 DEF Least
    <3> QED
      BY <3>1
  <2>7. Items(h) = fds
    <3>1. UnitLen("rights") = FdLen /\ "rights" \in Kinds
      BY DEF UnitLen, Kinds
    <3> HIDE DEF h
    <3> QED
      BY <2>6, <3>1, ItemsIs
  <2>8. /\ d \in Buffers(cap)
        /\ HoldsMessages(d, Append(ms, [kind |-> "rights", items |-> Items(h)]))
    <3>1. "rights" \in Kinds
      BY DEF Kinds
    <3> HIDE DEF c, len
    <3> QED
      BY <1>1, <2>4, <2>5, <3>1, PutHolds
  <2>9. ms \o RightMessages(fds) = Append(ms, [kind |-> "rights", items |-> fds])
    <3>1. [kind |-> "rights", items |-> fds] \in MessageSet
      BY DEF MessageSet, Kinds
    <3> DEFINE m == [kind |-> "rights", items |-> fds]
    <3>2. RightMessages(fds) = <<m>>
      BY <1>4 DEF RightMessages
    <3> HIDE DEF m
    <3> QED
      BY <1>2, <3>1, <3>2, AppendIsConcat DEF m
  <2> HIDE DEF d, h
  <2> QED
    BY <2>1, <2>7, <2>8, <2>9
<1> QED
  BY <1>3, <1>4

-----------------------------------------------------------------------------
(* The descriptors in a buffer *)

\* Those in its i-th message.
RightsAt(ms, i) ==
  IF i \in 1..Len(ms) /\ ms[i].kind = "rights" THEN ms[i].items ELSE <<>>

LEMMA RightsOf ==
  ASSUME NEW b, NEW ms \in Seq(MessageSet), Messages(b) = ms, Len(ms) <= 2
  PROVE  Rights(b) = RightsAt(ms, 1) \o RightsAt(ms, 2)
<1> DEFINE n == Len(ms)
           I == 1..(n + 1)
           X(i) == RightsAt(ms, i)
           f == CHOOSE g : g = [i \in I |-> IF i > n THEN <<>> ELSE
                  (IF ms[i].kind = "rights" THEN ms[i].items ELSE <<>>) \o g[i + 1]]
           g == [i \in I |-> IF i = 1 THEN X(1) \o X(2) ELSE IF i = 2 THEN X(2) ELSE <<>>]
<1>1. n \in 0..2
  <2>1. n \in Nat /\ n <= 2
    BY LenProperties
  <2> HIDE DEF n
  <2> QED
    BY <2>1
<1>2. \A i \in 1..3 : X(i) \in Seq(Nat)
  <2>1. \A i \in 1..n : ms[i] \in MessageSet
    BY <1>1
  <2> QED
    BY <2>1 DEF RightsAt, MessageSet
<1>3. Rights(b) = f[1]
  BY DEF Rights
<1>4. \A i \in I : i <= n =>
        (IF ms[i].kind = "rights" THEN ms[i].items ELSE <<>>) = X(i)
  BY <1>1 DEF RightsAt
<1>5. \A i \in 1..3 : i > n => X(i) = <<>>
  BY <1>1 DEF RightsAt
<1>6. ASSUME NEW S, NEW s \in Seq(S) PROVE s \o <<>> = s /\ <<>> \o s = s
  BY ConcatEmptySeq
<1> HIDE DEF X
<1>7. ASSUME NEW i \in I
      PROVE  g[i] = IF i > n THEN <<>> ELSE X(i) \o g[i + 1]
  <2>1. CASE i = 1 /\ i > n
    BY <1>1, <1>2, <1>5, <1>6, <2>1
  <2>2. CASE i = 1 /\ i <= n
    BY <1>1, <1>2, <1>6, <2>2
  <2>3. CASE i = 2 /\ i > n
    BY <1>1, <1>2, <1>5, <2>3
  <2>4. CASE i = 2 /\ i <= n
    BY <1>1, <1>2, <1>6, <2>4
  <2>5. CASE i = 3
    BY <1>1, <2>5
  <2> QED
    BY <1>1, <2>1, <2>2, <2>3, <2>4, <2>5
<1>8. g = [i \in I |-> IF i > n THEN <<>> ELSE
             (IF ms[i].kind = "rights" THEN ms[i].items ELSE <<>>) \o g[i + 1]]
  <2>1. \A i \in I : g[i] = IF i > n THEN <<>> ELSE
             (IF ms[i].kind = "rights" THEN ms[i].items ELSE <<>>) \o g[i + 1]
    BY <1>1, <1>4, <1>7
  <2>2. g = [i \in I |-> g[i]]
    OBVIOUS
  <2> HIDE DEF g, I
  <2> QED
    BY <2>1, <2>2
<1>9. f = [i \in I |-> IF i > n THEN <<>> ELSE
             (IF ms[i].kind = "rights" THEN ms[i].items ELSE <<>>) \o f[i + 1]]
  <2>1. \E e : e = [i \in I |-> IF i > n THEN <<>> ELSE
             (IF ms[i].kind = "rights" THEN ms[i].items ELSE <<>>) \o e[i + 1]]
    <3> HIDE DEF g
    <3> QED
      BY <1>8
  <2> HIDE DEF I
  <2> QED
    BY <2>1
<1>10. ASSUME NEW i \in I PROVE f[i] = IF i > n THEN <<>> ELSE X(i) \o f[i + 1]
  <2> HIDE DEF f
  <2>1. f[i] = IF i > n THEN <<>> ELSE
             (IF ms[i].kind = "rights" THEN ms[i].items ELSE <<>>) \o f[i + 1]
    BY <1>9
  <2> QED
    BY <1>1, <1>4, <2>1
<1> HIDE DEF f
<1>11. CASE n = 0
  <2>1. f[1] = <<>>
    BY <1>10, <1>11
  <2> QED
    BY <1>2, <1>3, <1>5, <1>6, <1>11, <2>1 DEF X
<1>12. CASE n = 1
  <2>1. f[1] = X(1) \o f[2] /\ f[2] = <<>>
    BY <1>10, <1>12
  <2>2. X(2) = <<>>
    BY <1>5, <1>12
  <2> QED
    BY <1>3, <2>1, <2>2 DEF X
<1>13. CASE n = 2
  <2>1. f[1] = X(1) \o f[2] /\ f[2] = X(2) \o f[3] /\ f[3] = <<>>
    BY <1>10, <1>13
  <2>2. f[2] = X(2)
    BY <1>2, <1>6, <2>1
  <2> QED
    BY <1>3, <2>1, <2>2 DEF X
<1> QED
  BY <1>1, <1>11, <1>12, <1>13

\* What recvmsg leaves in a buffer: the messages that came, whatever was there before,
\* and a walk over it comes to just the descriptors that were installed.
THEOREM ReceivedHolds ==
  ASSUME NEW cap \in Nat, Aligned(cap), NEW b \in Buffers(cap),
         NEW creds, creds = <<>> \/ \E pid \in Nat : creds = <<pid>>,
         NEW fds \in Seq(Nat), Len(fds) <= FdRoom(PutCreds(Clear(b), creds)), NEW count
  PROVE  LET d == PutRights(PutCreds(Clear(b), creds), fds, count) IN
         /\ d \in Buffers(cap)
         /\ HoldsMessages(d, CredMessages(cap, creds) \o RightMessages(fds))
         /\ Rights(d) = fds
<1> DEFINE c == PutCreds(Clear(b), creds)
           d == PutRights(c, fds, count)
           mc == CredMessages(cap, creds)
           mr == RightMessages(fds)
           ms == mc \o mr
<1>1. /\ Clear(b) \in Buffers(cap) /\ Clear(b).length = 0
      /\ HoldsMessages(Clear(b), <<>>)
  BY ClearHolds
<1>2. c \in Buffers(cap) /\ HoldsMessages(c, mc)
  BY <1>1, CredsHold
<1> HIDE DEF c
<1>3. d \in Buffers(cap) /\ HoldsMessages(d, ms)
  BY <1>2, RightsHold DEF c
<1>4. Messages(d) = ms /\ ms \in Seq(MessageSet)
  BY <1>3, WalkYields, HoldsAligned
<1>5. mc = <<>> \/ \E items \in Seq(Nat) : mc = <<[kind |-> "creds", items |-> items]>>
  <2>1. <<>> \in Seq(Nat) /\ \A pid \in Nat : <<pid>> \in Seq(Nat)
    OBVIOUS
  <2> QED
    BY <2>1 DEF CredMessages
<1>6. mr = IF fds = <<>> THEN <<>> ELSE <<[kind |-> "rights", items |-> fds]>>
  BY DEF RightMessages
<1>7. fds \o <<>> = fds /\ <<>> \o fds = fds /\ <<>> \o <<>> = <<>>
  BY ConcatEmptySeq, EmptySeq
<1> HIDE DEF mc, mr
<1>8. Len(ms) <= 2 /\ RightsAt(ms, 1) \o RightsAt(ms, 2) = fds
  <2>1. CASE mc = <<>> /\ fds = <<>>
    <3>1. ms = <<>>
      BY <1>6, <1>7, <2>1
    <3> HIDE DEF ms
    <3> QED
      BY <1>7, <2>1, <3>1 DEF RightsAt
  <2>2. CASE mc = <<>> /\ fds # <<>>
    <3>1. ms = <<[kind |-> "rights", items |-> fds]>>
      BY <1>6, <2>2
    <3>2. Len(ms) = 1 /\ ms[1].kind = "rights" /\ ms[1].items = fds
      BY <3>1
    <3> HIDE DEF ms
    <3> QED
      BY <1>7, <3>2 DEF RightsAt
  <2>3. CASE mc # <<>> /\ fds = <<>>
    <3>1. PICK items \in Seq(Nat) : mc = <<[kind |-> "creds", items |-> items]>>
      BY <1>5, <2>3
    <3>2. ms = <<[kind |-> "creds", items |-> items]>>
      BY <1>6, <2>3, <3>1
    <3>3. Len(ms) = 1 /\ ms[1].kind = "creds"
      BY <3>2
    <3> HIDE DEF ms
    <3> QED
      BY <1>7, <2>3, <3>3 DEF RightsAt
  <2>4. CASE mc # <<>> /\ fds # <<>>
    <3>1. PICK items \in Seq(Nat) : mc = <<[kind |-> "creds", items |-> items]>>
      BY <1>5, <2>4
    <3> DEFINE x == [kind |-> "creds", items |-> items]
               y == [kind |-> "rights", items |-> fds]
    <3>2. Len(ms) = 2 /\ ms[1] = x /\ ms[2] = y
      <4>1. ms = <<x>> \o <<y>>
        BY <1>6, <2>4, <3>1
      <4> HIDE DEF x, y, ms
      <4>2. <<x>> \in Seq({x, y}) /\ <<y>> \in Seq({x, y})
        OBVIOUS
      <4>3. Len(<<x>>) = 1 /\ Len(<<y>>) = 1 /\ <<x>>[1] = x /\ <<y>>[1] = y
        OBVIOUS
      <4> QED
        BY <4>1, <4>2, <4>3, ConcatProperties
    <3>3. /\ Len(ms) = 2 /\ ms[1].kind = "creds"
          /\ ms[2].kind = "rights" /\ ms[2].items = fds
      BY <3>2
    <3> HIDE DEF ms
    <3> QED
      BY <1>7, <3>3 DEF RightsAt
  <2> QED
    BY <2>1, <2>2, <2>3, <2>4
<1> HIDE DEF d, ms
<1>9. Rights(d) = fds
  BY <1>4, <1>8, RightsOf
<1> QED
  BY <1>3, <1>9 DEF d, c, ms, mc, mr
=============================================================================
