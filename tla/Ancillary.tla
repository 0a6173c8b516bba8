----------------------------- MODULE Ancillary -----------------------------
(***************************************************************************)
(* Control messages in a caller's buffer (privsep/src/net/ancillary.rs):   *)
(* SocketAncillary, what add_fds and add_creds append to it, what recvmsg  *)
(* leaves in it, and the iterators that walk it.                           *)
(*                                                                         *)
(* A buffer is a record of its capacity, its length, its truncated flag    *)
(* and the headers in it by offset.  Bytes that are no header are data,    *)
(* padding or stale; where the code has cleared them they read as zero.    *)
(* An item is a descriptor number or the pid of a credential.              *)
(***************************************************************************)
EXTENDS Naturals, Sequences

CONSTANTS
  HdrLen,    \* size of cmsghdr
  AlignTo,   \* alignment of control messages
  FdLen,     \* size of RawFd
  CredLen    \* size of ucred

\* The C library sees to it that data begin right behind a header.
ASSUME AncillaryAssumption ==
  /\ {HdrLen, AlignTo, FdLen, CredLen} \subseteq Nat \ {0}
  /\ HdrLen % AlignTo = 0

Kinds == {"rights", "creds"}
UnitLen(kind) == IF kind = "rights" THEN FdLen ELSE CredLen

\* CMSG_ALIGN, CMSG_LEN and CMSG_SPACE.
AlignUp(n) == ((n + AlignTo - 1) \div AlignTo) * AlignTo
CmsgLen(n) == AlignUp(HdrLen) + n
CmsgSpace(n) == AlignUp(HdrLen) + AlignUp(n)

Headers == [len : Nat, kind : Kinds, items : Seq(Nat)]
Zero == [len |-> 0, kind |-> "rights", items |-> <<>>]

NewBuffer(cap) ==
  [cap |-> cap, length |-> 0, truncated |-> FALSE, head |-> [o \in {} |-> Zero]]

HeaderAt(b, o) == IF o \in DOMAIN b.head THEN b.head[o] ELSE Zero

-----------------------------------------------------------------------------
(* Walking *)

\* CMSG_NXTHDR: where the next header is, as a set with at most one offset.
NextHdr(b, o) ==
  LET n == o + AlignUp(HeaderAt(b, o).len)
  IN {m \in {n} : /\ HeaderAt(b, o).len >= HdrLen
                  /\ n + HdrLen <= b.length
                  /\ n + AlignUp(HeaderAt(b, n).len) <= b.length}

\* The offsets that Messages visits, in order, beginning with CMSG_FIRSTHDR.
Visited(b) ==
  LET from[o \in 0..b.length] ==
        <<o>> \o IF NextHdr(b, o) = {} THEN <<>>
                 ELSE from[CHOOSE n \in NextHdr(b, o) : TRUE]
  IN IF b.length >= HdrLen THEN from[0] ELSE <<>>

\* Mutant: the padding counts as data.
DataLenPadded(h) == AlignUp(h.len) - CmsgLen(0)

\* The bytes of data behind a header (try_from_cmsghdr).
DataLen(h) == h.len - CmsgLen(0)

\* AncillaryDataIter: whole units of the data; padding reads as zero.
Items(h) ==
  [i \in 1..(DataLen(h) \div UnitLen(h.kind)) |->
     IF i <= Len(h.items) THEN h.items[i] ELSE 0]

\* What messages() yields.
Messages(b) ==
  LET at == Visited(b) IN
  [i \in 1..Len(at) |->
     LET h == HeaderAt(b, at[i]) IN [kind |-> h.kind, items |-> Items(h)]]

\* The descriptors that a loop over messages() and ScmRights comes to.
Rights(b) ==
  LET ms == Messages(b)
      from[i \in 1..(Len(ms) + 1)] ==
        IF i > Len(ms) THEN <<>>
        ELSE (IF ms[i].kind = "rights" THEN ms[i].items ELSE <<>>) \o from[i + 1]
  IN from[1]

-----------------------------------------------------------------------------
(* Adding: add_to_ancillary_data *)

\* Mutants: the padding is not part of the new message; the data have to fit, but
\* not their header.
GrownUnpadded(b, kind, items) == b.length + CmsgLen(Len(items) * UnitLen(kind))
FitsData(b, kind, items) == b.length + Len(items) * UnitLen(kind) <= b.cap

\* The length that the buffer will have.
Grown(b, kind, items) == b.length + CmsgSpace(Len(items) * UnitLen(kind))

Fits(b, kind, items) == Grown(b, kind, items) <= b.cap

\* The new part is cleared, and the header goes where the walk over the longer
\* buffer ends.
Add(b, kind, items) ==
  LET cleared ==
        [b EXCEPT !.length = Grown(b, kind, items), !.truncated = FALSE,
                  !.head = [o \in {p \in DOMAIN b.head :
                                     p < b.length \/ p >= Grown(b, kind, items)}
                              |-> b.head[o]]]
      at == Visited(cleared)[Len(Visited(cleared))]
      h == [len |-> CmsgLen(Len(items) * UnitLen(kind)), kind |-> kind, items |-> items]
  IN IF Fits(b, kind, items)
     THEN [cleared EXCEPT
             !.head = [o \in DOMAIN cleared.head \cup {at} |->
                         IF o = at THEN h ELSE cleared.head[o]]]
     ELSE [b EXCEPT !.truncated = FALSE]

Clear(b) == [b EXCEPT !.length = 0, !.truncated = FALSE]

-----------------------------------------------------------------------------
(* The kernel's side of recvmsg *)

Least(a, c) == IF a <= c THEN a ELSE c

\* The kernel writes a header with as many bytes as fit.
Put(b, kind, items, len) ==
  [b EXCEPT !.length = Least(@ + AlignUp(len), b.cap),
            !.head = [o \in {p \in DOMAIN b.head : p < b.length \/
                               p >= Least(b.length + AlignUp(len), b.cap)} \cup {b.length} |->
                        IF o = b.length
                        THEN [len |-> Least(len, b.cap - b.length), kind |-> kind,
                              items |-> items]
                        ELSE b.head[o]]]

\* The credentials of the sender, if the socket is to pass them.
PutCreds(b, creds) ==
  IF creds = <<>> THEN b
  ELSE IF b.cap - b.length < HdrLen THEN [b EXCEPT !.truncated = TRUE]
  ELSE [Put(b, "creds", creds, CmsgLen(CredLen)) EXCEPT
          !.truncated = b.cap - b.length < CmsgLen(CredLen)]

\* How many descriptors the rest of the buffer takes.
FdRoom(b) == IF b.cap - b.length <= HdrLen THEN 0
             ELSE (b.cap - b.length - CmsgLen(0)) \div FdLen

\* The descriptors that were installed, of `count` that came.
PutRights(b, fds, count) ==
  LET c == [b EXCEPT !.truncated = @ \/ Len(fds) < count]
  IN IF fds = <<>> THEN c ELSE Put(c, "rights", fds, CmsgLen(Len(fds) * FdLen))
=============================================================================
