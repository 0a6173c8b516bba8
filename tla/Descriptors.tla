---------------------------- MODULE Descriptors ----------------------------
(***************************************************************************)
(* The file descriptors of one process: which number is open on which file *)
(* and which value in the program owns it (privsep/src/net/fd.rs, and the  *)
(* parts of privsep/src/imsg.rs and net/stream.rs that make, send, receive *)
(* and close descriptors).  Descriptors are sent and received in control   *)
(* messages, the buffers of module Ancillary.                              *)
(*                                                                         *)
(* A file is an open file description.  It lives while a number of this    *)
(* process is open on it or another process or a message in flight holds   *)
(* it, and while it lives the reactor of the runtime keeps what was        *)
(* registered with it, by number and file (epoll(7)).                      *)
(*                                                                         *)
(* Handler::shutdown closes a number that its socket closes again when it  *)
(* is dropped.  The kernel hands the number out in between, so that two    *)
(* values have one number and whichever goes first closes the other's.     *)
(***************************************************************************)
EXTENDS Ancillary, FiniteSets

CONSTANTS
  Numbers,       \* descriptor numbers
  Files,         \* open file descriptions
  HandlerCap,    \* size of the control buffer of Handler
  UserCap,       \* size of the control buffer of a program that has its own
  MaxBatch,      \* bound: descriptors that come with one message
  MaxHeld,       \* bound: files that are held elsewhere
  ShutNumbers,   \* bound: numbers of the Handlers that may be shut down
  MaxShared      \* bound: values that have the same number

ASSUME DescriptorsAssumption ==
  /\ Numbers \subseteq Nat /\ Files \subseteq Nat \ {0}
  /\ IsFiniteSet(Numbers) /\ IsFiniteSet(Files)
  /\ {0, 1} \subseteq Numbers /\ {1, 2} \subseteq Files
  /\ {HandlerCap, UserCap, MaxBatch, MaxHeld, MaxShared} \subseteq Nat
  /\ ShutNumbers \subseteq Numbers

\* Control buffers end where a header could begin, as the one of Handler does: the walk
\* does not come to a header that is cut off within its padding.
ASSUME WholeCaps == HandlerCap % AlignTo = 0 /\ UserCap % AlignTo = 0

VARIABLES
  table,      \* the file each number is open on, or Closed
  owners,     \* the values that own a descriptor
  elsewhere,  \* files that are held by other processes and messages
  reactor,    \* numbers and files registered with the reactor
  shutAt,     \* numbers of Handlers that were shut down, while a value has the number
  forgotten,  \* files whose Handler left them registered: it was forgotten, shut down,
              \* or dropped when its number was not open on the file any more
  anc,        \* the control buffer of a program that has its own
  added       \* what was put into it, message by message

vars == <<table, owners, shutAt, elsewhere, reactor, forgotten, anc, added>>
ownerVars == <<owners, shutAt>>
ancVars == <<anc, added>>

Closed == 0

\* An owner, of a number that was open on this file when it was made; i tells the owners
\* of one number apart.  "other" is a descriptor that code outside of the library has
\* opened.
Owner(kind, n, f, i) ==
  [kind |-> kind, number |-> n, file |-> f, id |-> i, shut |-> FALSE]

\* Standard input, which is never dropped.
Stdin == Owner("other", 0, 1, 0)

TypeOK ==
  /\ table \in [Numbers -> Files \cup {Closed}]
  /\ owners \subseteq [kind : {"fd", "handler", "other"}, number : Numbers,
                       file : Files, id : Nat, shut : BOOLEAN]
  /\ shutAt \subseteq Numbers
  /\ elsewhere \subseteq Files /\ forgotten \subseteq Files
  /\ reactor \subseteq Numbers \X Files
  /\ anc.cap \in {0, UserCap} /\ anc.length \in 0..UserCap /\ anc.truncated \in BOOLEAN
  /\ \A o \in DOMAIN anc.head : o \in 0..UserCap /\ anc.head[o] \in Headers
  /\ added \in Seq([kind : Kinds, items : Seq(Nat)])

-----------------------------------------------------------------------------
(* The kernel's table and the reactor *)

Sorted(S) ==
  [i \in 1..Cardinality(S) |-> CHOOSE n \in S : Cardinality({m \in S : m < n}) = i - 1]

\* The numbers that the kernel hands out, the lowest first.
FreeNumbers == Sorted({n \in Numbers : table[n] = Closed})

Alive(t, e) == (e \cup {t[n] : n \in Numbers}) \ {Closed}

\* Files that nobody has anything to do with.
Fresh == Sorted(Files \ (Alive(table, elsewhere) \cup {o.file : o \in owners}))

\* The table and the files elsewhere are now t and e, and the reactor was told of r:
\* what was registered with a file is gone with it.
KernelForgetting(t, e, r, f) ==
  /\ table' = t /\ elsewhere' = e
  /\ reactor' = {p \in r : p[2] \in Alive(t, e)}
  /\ forgotten' = f \cap Alive(t, e)
Kernel(t, e, r) == KernelForgetting(t, e, r, forgotten)

Open(ns, fs) ==
  [n \in Numbers |-> IF \E i \in 1..Len(ns) : ns[i] = n
                     THEN fs[CHOOSE i \in 1..Len(ns) : ns[i] = n] ELSE table[n]]

Close(n) == [table EXCEPT ![n] = Closed]

\* The number is taken from the reactor, with the file it is open on.
Deregistered(n) == reactor \ {<<n, table[n]>>}

\* A new owner of a number, which other values may have as well.
NewOwner(kind, n, f) ==
  Owner(kind, n, f, CHOOSE i \in 0..Cardinality(owners) :
                      \A o \in owners : o.number = n => o.id # i)

\* The owners are now these.
OwnersBecome(os) ==
  /\ owners' = os
  /\ shutAt' = {n \in shutAt : \E o \in os : o.number = n}

\* The program is on a runtime and uses Handlers, or it blocks on a socket of the
\* standard library and has a control buffer of its own.
Blocking == anc.cap # 0

Init ==
  /\ table = [n \in Numbers |-> IF n = 0 THEN 1 ELSE IF n = 1 THEN 2 ELSE Closed]
  /\ elsewhere = {} /\ forgotten = {} /\ shutAt = {} /\ added = <<>>
  /\ \/ /\ anc = NewBuffer(0)
        /\ owners = {Stdin, Owner("handler", 1, 2, 0)} /\ reactor = {<<1, 2>>}
     \/ /\ anc = NewBuffer(UserCap)
        /\ owners = {Stdin, Owner("other", 1, 2, 0)} /\ reactor = {}

-----------------------------------------------------------------------------
(* Making and dropping owners *)

OpenOther ==
  /\ ~Blocking /\ FreeNumbers # <<>> /\ Fresh # <<>>
  /\ Kernel(Open(<<FreeNumbers[1]>>, <<Fresh[1]>>), elsewhere, reactor)
  /\ OwnersBecome(owners \cup {NewOwner("other", FreeNumbers[1], Fresh[1])})
  /\ UNCHANGED ancVars

\* Both halves of a new socketpair have an owner of this kind.
MakePair(kind) ==
  /\ ~Blocking /\ Len(FreeNumbers) >= 2 /\ Len(Fresh) >= 2
  /\ table' = Open(SubSeq(FreeNumbers, 1, 2), SubSeq(Fresh, 1, 2))
  /\ OwnersBecome(owners \cup {NewOwner(kind, FreeNumbers[i], Fresh[i]) : i \in 1..2})
  /\ reactor' = reactor \cup {<<FreeNumbers[i], Fresh[i]>> : i \in 1..2}
  /\ UNCHANGED <<elsewhere, ancVars>>

\* Handler::pair.
Pair == MakePair("handler") /\ UNCHANGED forgotten

\* Handler::socketpair: the Handlers of a pair are forgotten, registered as they are.
Socketpair == MakePair("fd") /\ forgotten' = forgotten \cup {Fresh[1], Fresh[2]}

Duplicate(o) ==
  /\ ~Blocking /\ o.kind = "fd" /\ FreeNumbers # <<>> /\ table[o.number] # Closed
  /\ Kernel(Open(<<FreeNumbers[1]>>, <<table[o.number]>>), elsewhere, reactor)
  /\ OwnersBecome(owners \cup {NewOwner("fd", FreeNumbers[1], table[o.number])})
  /\ UNCHANGED ancVars

\* into_raw_fd: the descriptor belongs to other code, which wraps it again or not.
IntoRawFd(o) ==
  /\ ~Blocking /\ o.kind = "fd"
  /\ OwnersBecome((owners \ {o}) \cup {[o EXCEPT !.kind = "other"]})
  /\ UNCHANGED <<table, elsewhere, reactor, forgotten, ancVars>>

\* The reactor takes a number and a file once.
Registrable(n) == table[n] # Closed /\ <<n, table[n]>> \notin reactor

\* Mutant: a Handler of a descriptor that is not registered with the reactor.
AdoptedUnregistered(n) == reactor

\* What is registered once the reactor has taken a number.
Adopted(n) == reactor \cup {<<n, table[n]>>}

\* Handler::from_raw_fd takes the descriptor, with what is open there now; it is closed if
\* the reactor refuses it.
FromRawFd(o) ==
  /\ ~Blocking /\ o.kind \in {"fd", "other"} /\ o # Stdin
  /\ IF Registrable(o.number)
     THEN /\ Kernel(table, elsewhere, Adopted(o.number))
          /\ OwnersBecome((owners \ {o}) \cup
               {[o EXCEPT !.kind = "handler", !.file = table[o.number]]})
     ELSE /\ Kernel(Close(o.number), elsewhere, reactor)
          /\ OwnersBecome(owners \ {o})
  /\ UNCHANGED ancVars

\* Mutant: the reactor is not told.
DroppedSilently(o) == reactor

\* What is registered once the owner is dropped: a Handler tells the reactor.
Dropped(o) == IF o.kind = "handler" THEN Deregistered(o.number) ELSE reactor

\* A Handler whose number is not open on its file cannot take it from the reactor.
LeftBehind(o) ==
  IF o.kind = "handler" /\ table[o.number] # o.file THEN {o.file} ELSE {}

\* Drop: the number is closed, whatever it is open on.  A program that blocks keeps
\* its socket.
Drop(o) ==
  /\ o # Stdin /\ (Blocking => o.kind = "fd")
  /\ KernelForgetting(Close(o.number), elsewhere, Dropped(o), forgotten \cup LeftBehind(o))
  /\ OwnersBecome(owners \ {o})
  /\ UNCHANGED ancVars

\* Handler::shutdown closes the number, whatever it is open on, and does not drop the
\* socket, which will close it again.
Shutdown(o) ==
  /\ o.kind = "handler" /\ o.number \in ShutNumbers
  /\ Cardinality({q \in owners : q.number = o.number}) < MaxShared
  /\ KernelForgetting(Close(o.number), elsewhere, reactor, forgotten \cup {o.file})
  /\ owners' = (owners \ {o}) \cup {[o EXCEPT !.shut = TRUE]}
  /\ shutAt' = shutAt \cup {o.number}
  /\ UNCHANGED ancVars

-----------------------------------------------------------------------------
(* Handler *)

\* Some Handler can send and receive.
Usable == \E o \in owners : o.kind = "handler" /\ ~o.shut /\ table[o.number] # Closed

\* The files behind the descriptors in a buffer are now in a message as well.
SendRights(b) ==
  LET fds == Rights(b)
      held == elsewhere \cup {table[fds[i]] : i \in 1..Len(fds)}
  IN /\ \A i \in 1..Len(fds) : fds[i] \in Numbers /\ table[fds[i]] # Closed
     /\ Cardinality(held) <= MaxHeld
     /\ Kernel(table, held, reactor)

\* send_message with a descriptor; the buffer has room for one.
Send(o) ==
  /\ Usable /\ o.kind = "fd"
  /\ Fits(NewBuffer(HandlerCap), "rights", <<o.number>>)
  /\ SendRights(Add(NewBuffer(HandlerCap), "rights", <<o.number>>))
  /\ UNCHANGED <<ownerVars, ancVars>>

\* What a message can bring: files that another process has or makes.
Batches ==
  UNION {[1..k -> elsewhere \cup {Fresh[i] : i \in 1..Least(1, Len(Fresh))}] :
           k \in 0..MaxBatch}

\* recvmsg with this buffer, and with credentials if the socket passes them: the
\* buffer and the numbers that were installed.
Received(b, creds, fs) ==
  LET c == PutCreds(Clear(b), creds)
      k == Least(FdRoom(c), Least(Len(fs), Len(FreeNumbers)))
  IN [buffer |-> PutRights(c, SubSeq(FreeNumbers, 1, k), Len(fs)),
      numbers |-> SubSeq(FreeNumbers, 1, k), files |-> SubSeq(fs, 1, k)]

\* Mutant: only the first descriptor becomes an Fd.
SurplusKept(fds) == {}

\* Descriptors that recv_message closes: every one but the first.
Surplus(fds) == {fds[i] : i \in 2..Len(fds)}

\* recv_message gets a message: the first descriptor is returned as an Fd.
Recv ==
  /\ Usable
  /\ \E fs \in Batches :
       LET r == Received(NewBuffer(HandlerCap), <<>>, fs)
           fds == Rights(r.buffer)
           t == Open(r.numbers, r.files)
       IN /\ Kernel([n \in Numbers |-> IF n \in Surplus(fds) THEN Closed ELSE t[n]],
                    elsewhere, reactor)
          /\ OwnersBecome(owners \cup
               (IF fds = <<>> THEN {} ELSE {NewOwner("fd", fds[1], t[fds[1]])}))
  /\ UNCHANGED ancVars

\* Other processes close a file.
Elsewhere ==
  /\ \E f \in elsewhere : Kernel(table, elsewhere \ {f}, reactor)
  /\ UNCHANGED <<ownerVars, ancVars>>

-----------------------------------------------------------------------------
(* A program with a control buffer of its own (StdUnixStreamExt) *)

UserAdd(kind, items) ==
  /\ Blocking
  /\ anc' = Add(anc, kind, items)
  /\ added' = IF Fits(anc, kind, items)
              THEN Append(added, [kind |-> kind, items |-> items]) ELSE added
  /\ UNCHANGED <<table, ownerVars, elsewhere, reactor, forgotten>>

\* add_fds with an Fd that the program has.
AddFds == \E o \in owners : o.kind = "fd" /\ UserAdd("rights", <<o.number>>)

\* add_creds.
AddCreds == UserAdd("creds", <<1>>)

UserClear ==
  /\ Blocking
  /\ anc' = Clear(anc) /\ added' = <<>>
  /\ UNCHANGED <<table, ownerVars, elsewhere, reactor, forgotten>>

\* send_vectored_with_ancillary of StdUnixStreamExt; sendmsg may fail.
UserSend ==
  /\ Blocking
  /\ SendRights(anc) \/ UNCHANGED <<table, elsewhere, reactor, forgotten>>
  /\ anc' = [anc EXCEPT !.truncated = FALSE]
  /\ UNCHANGED <<ownerVars, added>>

\* recv_vectored_with_ancillary of StdUnixStreamExt.  The program makes an Fd of every
\* descriptor that it walks to.
UserRecv ==
  Blocking /\ \E fs \in Batches, creds \in {<<>>, <<1>>} :
    LET r == Received(anc, creds, fs)
        fds == Rights(r.buffer)
        t == Open(r.numbers, r.files)
    IN /\ Kernel(t, elsewhere, reactor)
       /\ OwnersBecome(owners \cup {NewOwner("fd", fds[i], t[fds[i]]) : i \in 1..Len(fds)})
       /\ anc' = r.buffer
       /\ added' =
            (IF creds = <<>> \/ UserCap < HdrLen THEN <<>>
             ELSE <<[kind |-> "creds",
                     items |-> IF UserCap >= CmsgLen(CredLen) THEN creds ELSE <<>>]>>)
            \o (IF r.numbers = <<>> THEN <<>>
                ELSE <<[kind |-> "rights", items |-> r.numbers]>>)

-----------------------------------------------------------------------------
Next ==
  \/ OpenOther \/ Pair \/ Socketpair \/ Elsewhere \/ Recv
  \/ \E o \in owners : \/ Duplicate(o) \/ IntoRawFd(o) \/ FromRawFd(o)
                       \/ Drop(o) \/ Shutdown(o) \/ Send(o)
  \/ AddFds \/ AddCreds \/ UserClear \/ UserSend \/ UserRecv

Spec == Init /\ [][Next]_vars
-----------------------------------------------------------------------------
(* Properties *)

\* A value that owns a descriptor owns it alone, and the number is open on the file it was
\* made for ("Wrapper for RawFd that closes the file descriptor when dropped"): no drop
\* closes what belongs to somebody else.  It fails where a Handler was shut down, whose
\* number is closed twice, and the damage stays there: it gets neither to values with
\* other numbers nor to those that get the number when all that had it are gone.
OwnersKeep ==
  \A o \in owners : o.number \notin shutAt =>
    /\ table[o.number] = o.file
    /\ \A q \in owners : q.number = o.number => q = o

\* An Fd is open on its file until it is dropped ("Owned, droppable file descriptors").
OpenUntilDropped == \A o \in owners : o.kind = "fd" => table[o.number] = o.file

\* Every open descriptor has an owner that will close it, also those that came
\* with a message and were not asked for ("auto-close all the remaining ones").
NoLeak ==
  \A n \in Numbers : table[n] # Closed => \E o \in owners : o.number = n

\* Whatever was added to a control buffer or received in it, walking it yields
\* just that, in order, and nothing of what it held before.
WalkedAsAdded == Messages(anc) = added

\* A live Handler is registered with the reactor, which wakes it up, unless it shares
\* its fate with one that was shut down and had the same number: no drop of anybody else
\* deregisters it.
HandlersAwake ==
  \A o \in owners : o.kind = "handler" /\ o.number \notin shutAt =>
    <<o.number, o.file>> \in reactor

\* A descriptor can be turned into a Handler, also where Handlers of the same number were
\* dropped before, if its file was not left registered by one that was forgotten, shut
\* down or damaged, and no Handler was shut down at its number.
Adoptable ==
  \A o \in owners : o.kind \in {"fd", "other"} /\ o.number \notin shutAt =>
    Registrable(o.number) \/ o.file \in forgotten
=============================================================================
