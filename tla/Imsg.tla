-------------------------------- MODULE Imsg --------------------------------
(***************************************************************************)
(* One direction of a pair of imsg Handlers (privsep/src/imsg.rs): tasks    *)
(* that call send_message on one end, the socket between them, tasks that  *)
(* call recv_message on the other end.                                     *)
(*                                                                         *)
(* The byte stream is modelled by positions.  `msgs` lists the messages in *)
(* the order in which their first byte entered the socket, each with the   *)
(* place of that byte; `wrote`, `read` and `consumed` count the bytes that *)
(* entered the socket, that recvmsg moved to the read buffer, and that     *)
(* split_to removed from it.  A file descriptor is identified with the     *)
(* number of the message it was sent with; 0 is no descriptor.             *)
(*                                                                         *)
(* The socket is a Linux AF_UNIX stream socket (unix(7)): sendmsg queues   *)
(* segments of at most SkbMax bytes, the descriptor goes with the first    *)
(* one, and sendmsg returns early when the queue is full; recvmsg joins    *)
(* segments but stops behind a segment that carried a descriptor.          *)
(***************************************************************************)
EXTENDS Naturals, Sequences, FiniteSets

CONSTANTS
  Senders,      \* tasks that send on one end
  Receivers,    \* tasks that receive on the other end
  ThreadOf,     \* the thread that polls each receiving task
  Ids,          \* message ids the senders pass
  Reserved,     \* Message::RESERVED
  Bases,        \* Message.length the senders pass; HeaderLen from Message::new
  Payloads,     \* lengths of the serialized payloads
  FdArgs,       \* whether a send passes a descriptor: a subset of BOOLEAN
  FdFirst,      \* TRUE if no descriptor is sent after a message without one
  HeaderLen,    \* Message::HEADER_LENGTH
  MaxLen,       \* u16::MAX
  BufLen,       \* Handler::BUFFER_LENGTH
  SkbMax,       \* most bytes in one segment of the socket's queue
  SockCap,      \* bytes in the queue at which the socket is full
  StopOnError,  \* TRUE if a sender gives up after an error
  MayCancel,    \* TRUE if a pending recv_message may be dropped (select!)
  MaxMsgs       \* bound: number of messages sent

ASSUME ImsgAssumption ==
  /\ Ids \subseteq Nat /\ Bases \subseteq Nat /\ Payloads \subseteq Nat
  /\ FdArgs \subseteq BOOLEAN
  /\ FdFirst \in BOOLEAN /\ StopOnError \in BOOLEAN /\ MayCancel \in BOOLEAN
  /\ {HeaderLen, BufLen, SkbMax, SockCap} \subseteq Nat \ {0}
  /\ HeaderLen <= SkbMax
  /\ Reserved \in Nat /\ MaxLen \in Nat /\ MaxMsgs \in Nat

VARIABLES
  msgs,      \* messages with a byte in the stream
  cur,       \* the message each sender is in the middle of writing, or 0
  stopped,   \* senders that gave up after an error
  open,      \* the sending end is open
  wrote,     \* bytes written into the socket
  read,      \* bytes read from the socket
  consumed,  \* bytes split off the read buffer
  rpc,       \* where each receiver is in recv_message
  fdres,     \* fd_result of each recv_message call
  results    \* what the calls of recv_message returned, in order

sendVars == <<msgs, cur, stopped, open, wrote>>
recvVars == <<read, consumed, rpc, fdres, results>>
vars == <<sendVars, recvVars>>

Min2(a, b) == IF a <= b THEN a ELSE b

Frames ==
  [id : Nat, len : Nat, size : Nat, fd : BOOLEAN,
   start : Nat, out : Nat, whole : BOOLEAN]

Results == [msg : Nat, fd : Nat, ok : BOOLEAN]

TypeOK ==
  /\ msgs \in Seq(Frames)
  /\ cur \in [Senders -> Nat]
  /\ \A s \in Senders : cur[s] <= Len(msgs)
  /\ stopped \subseteq Senders
  /\ open \in BOOLEAN
  /\ wrote \in Nat /\ read \in Nat /\ consumed \in Nat
  /\ consumed <= read /\ read <= wrote
  /\ rpc \in [Receivers -> {"idle", "lock", "await", "done"}]
  /\ fdres \in [Receivers -> Nat]
  /\ results \in Seq(Results)

Init ==
  /\ msgs = <<>>
  /\ cur = [s \in Senders |-> 0]
  /\ stopped = {}
  /\ open = TRUE
  /\ wrote = 0 /\ read = 0 /\ consumed = 0
  /\ rpc = [r \in Receivers |-> "idle"]
  /\ fdres = [r \in Receivers |-> 0]
  /\ results = <<>>

-----------------------------------------------------------------------------
(* Sending *)

\* send_message refuses these ids.
Refused(id) == id < Reserved

\* Mutants: the sum is truncated to u16; the header is counted twice.
WireLenTruncated(base, p) == {(base + p) % (MaxLen + 1)}
WireLenDouble(base, p) == {l \in {base + p + HeaderLen} : l <= MaxLen}

\* The header's length field: the serialized payload plus what the caller's
\* header already said, if that fits u16.
WireLen(base, p) == {l \in {base + p} : l <= MaxLen}

\* Bytes that sendmsg puts into the stream: the header and the payload.
FrameSize(p) == HeaderLen + p

\* A message whose first segment has just been queued.
Frame(id, l, p, fd) ==
  [id |-> id, len |-> l, size |-> FrameSize(p), fd |-> fd, start |-> wrote,
   out |-> Min2(FrameSize(p), SkbMax), whole |-> TRUE]

\* The socket takes another segment.
Room == wrote - read < SockCap

OnError(s) == IF StopOnError THEN stopped \cup {s} ELSE stopped

\* The comparison of the byte count with the header, once sendmsg is through.
SendResult(s, count, l) == IF count # l THEN OnError(s) ELSE stopped

Ready(s) == open /\ cur[s] = 0 /\ s \notin stopped

FdAllowed(fd) == (FdFirst /\ fd) => \A k \in 1..Len(msgs) : msgs[k].fd

\* send_message up to the first segment, and to the end if that is all.
\* Nothing before the first segment touches shared state.
SendMessage(s) ==
  /\ Ready(s) /\ Room /\ Len(msgs) < MaxMsgs
  /\ \E id \in Ids, base \in Bases, p \in Payloads, fd \in FdArgs :
       /\ ~Refused(id)
       /\ FdAllowed(fd)
       /\ \E l \in WireLen(base, p) :
            LET m == Frame(id, l, p, fd) IN
            /\ msgs' = Append(msgs, m)
            /\ wrote' = wrote + m.out
            /\ IF m.out < m.size
               THEN cur' = [cur EXCEPT ![s] = Len(msgs) + 1] /\ UNCHANGED stopped
               ELSE stopped' = SendResult(s, m.out, l) /\ UNCHANGED cur
  /\ UNCHANGED <<open, recvVars>>

\* send_message fails before it reaches the socket.
SendRejected(s) ==
  /\ Ready(s)
  /\ \E id \in Ids, base \in Bases, p \in Payloads :
       Refused(id) \/ WireLen(base, p) = {}
  /\ stopped' = OnError(s)
  /\ UNCHANGED <<msgs, cur, open, wrote, recvVars>>

\* sendmsg queues a further segment of the message it is writing.
SendMore(s) ==
  /\ cur[s] # 0 /\ Room
  /\ LET m == msgs[cur[s]]
         n == Min2(m.size - m.out, SkbMax)
     IN
     /\ msgs' = [msgs EXCEPT ![cur[s]].out = @ + n,
                             ![cur[s]].whole = @ /\ wrote = m.start + m.out]
     /\ wrote' = wrote + n
     /\ IF m.out + n < m.size
        THEN UNCHANGED <<cur, stopped>>
        ELSE /\ stopped' = SendResult(s, m.out + n, m.len)
             /\ cur' = [cur EXCEPT ![s] = 0]
  /\ UNCHANGED <<open, recvVars>>

\* sendmsg finds the queue full and returns what it wrote: "short message".
ShortWrite(s) ==
  /\ cur[s] # 0 /\ ~Room
  /\ cur' = [cur EXCEPT ![s] = 0]
  /\ stopped' = OnError(s)
  /\ UNCHANGED <<msgs, open, wrote, recvVars>>

\* The sending Handler is dropped or its process ends.
Close ==
  /\ open /\ \A s \in Senders : cur[s] = 0
  /\ open' = FALSE
  /\ UNCHANGED <<msgs, cur, stopped, wrote, recvVars>>

-----------------------------------------------------------------------------
(* Receiving *)

\* Mutant: a call that sees the end of the stream never unlocks.
LockFreeLeak == \A r \in Receivers : rpc[r] \notin {"await", "done"}

\* The read buffer's mutex is held across the await on the socket.
LockFree == \A r \in Receivers : rpc[r] # "await"

\* A thread blocked in lock(), or between await and lock(), polls no other task.
Runs(r) == \A o \in Receivers \ {r} : ThreadOf[o] = ThreadOf[r] => rpc[o] # "lock"

\* The message whose first byte is at the front of the read buffer.
AtFront == {k \in 1..Len(msgs) : msgs[k].start = consumed}

Complete(m) == m.whole /\ m.out = m.size

\* The length field at the front of the buffer.  In front of anything but a
\* message the header is made of other bytes and can hold any value.
LenAtFront ==
  IF AtFront # {} THEN {msgs[k].len : k \in AtFront} ELSE 0..MaxLen

\* Mutants: the payload is not waited for; the last byte is never enough.
SplitsEarly == {l \in LenAtFront : read - consumed >= HeaderLen}
SplitsStrict == {l \in LenAtFront : read - consumed >= HeaderLen /\ read - consumed > l}

\* The lengths with which the front of the buffer is a whole message.
Splits == {l \in LenAtFront : read - consumed >= HeaderLen /\ read - consumed >= l}

\* The message, if the l bytes at the front are exactly one, and 0 otherwise.
Taken(l) ==
  {k \in AtFront : Complete(msgs[k]) /\ msgs[k].size = l}
    \cup {k \in {0} : \A j \in AtFront : ~(Complete(msgs[j]) /\ msgs[j].size = l)}

\* Mutant: fd_result outlives the call.
ReleasedNever(r) == fdres

\* The call ends and its fd_result with it.
Released(r) == [fdres EXCEPT ![r] = 0]

RecvCall(r) ==
  /\ rpc[r] = "idle" /\ Runs(r)
  /\ Len(results) <= MaxMsgs   \* bound; never reached while messages are intact
  /\ rpc' = [rpc EXCEPT ![r] = "lock"]
  /\ UNCHANGED <<sendVars, read, consumed, fdres, results>>

\* A complete message is split off and decoded; a payload that is not of the
\* type the caller asks for is an error that drops the descriptor with it.
TakeMessage(r) ==
  /\ rpc[r] = "lock" /\ LockFree
  /\ \E l \in Splits : \E k \in Taken(l), ok \in BOOLEAN :
       /\ consumed' = consumed + l
       /\ results' = Append(results,
            [msg |-> k, fd |-> IF ok THEN fdres[r] ELSE 0, ok |-> ok])
  /\ rpc' = [rpc EXCEPT ![r] = "idle"]
  /\ fdres' = Released(r)
  /\ UNCHANGED <<sendVars, read>>

AwaitData(r) ==
  /\ rpc[r] = "lock" /\ LockFree
  /\ LenAtFront \ Splits # {}
  /\ rpc' = [rpc EXCEPT ![r] = "await"]
  /\ UNCHANGED <<sendVars, read, consumed, fdres, results>>

\* Messages whose descriptor is still in the socket's queue.
Pending == {k \in 1..Len(msgs) : msgs[k].fd /\ msgs[k].start >= read}

Cut(k) == msgs[k].start + Min2(msgs[k].size, SkbMax)

\* What recvmsg can return: all there is up to the end of the first segment
\* with a descriptor, at most a buffer full.
Readable ==
  {n \in 1..Min2(BufLen, wrote - read) :
     /\ \A k \in Pending : read + n <= Cut(k)
     /\ \/ n = Min2(BufLen, wrote - read)
        \/ \E k \in Pending : read + n = Cut(k)}

\* Descriptors that come with the next n bytes.
Arrived(n) == {k \in Pending : msgs[k].start < read + n}

\* A call keeps the first descriptor it gets and closes the others.
KeepFirst(r, k) == IF fdres[r] = 0 THEN k ELSE fdres[r]

RecvMsg(r) ==
  /\ rpc[r] = "await" /\ Runs(r)
  /\ \E n \in Readable :
       /\ read' = read + n
       /\ \/ Arrived(n) = {} /\ UNCHANGED fdres
          \/ \E k \in Arrived(n) : fdres' = [fdres EXCEPT ![r] = KeepFirst(r, k)]
  /\ rpc' = [rpc EXCEPT ![r] = "lock"]
  /\ UNCHANGED <<sendVars, consumed, results>>

\* recvmsg returns 0: recv_message returns None, whatever is in the buffer.
RecvEof(r) ==
  /\ rpc[r] = "await" /\ Runs(r)
  /\ ~open /\ read = wrote
  /\ rpc' = [rpc EXCEPT ![r] = "done"]
  /\ fdres' = Released(r)
  /\ UNCHANGED <<sendVars, read, consumed, results>>

\* The future of a call is dropped at its await, and fd_result with it.
Cancel(r) ==
  /\ MayCancel /\ rpc[r] = "await" /\ Runs(r)
  /\ rpc' = [rpc EXCEPT ![r] = "idle"]
  /\ fdres' = Released(r)
  /\ UNCHANGED <<sendVars, read, consumed, results>>

Terminated ==
  /\ \A r \in Receivers : rpc[r] = "done"
  /\ UNCHANGED vars

-----------------------------------------------------------------------------
SendStep(s) == SendMessage(s) \/ SendRejected(s) \/ SendMore(s) \/ ShortWrite(s)

RecvStep(r) == RecvCall(r) \/ TakeMessage(r) \/ AwaitData(r) \/ RecvMsg(r) \/ RecvEof(r)

Next ==
  \/ \E s \in Senders : SendStep(s)
  \/ Close
  \/ \E r \in Receivers : RecvStep(r) \/ Cancel(r)
  \/ Terminated

Spec == Init /\ [][Next]_vars

\* A sendmsg that has started returns, the sending end is closed some day, and
\* a receiver calls recv_message again until it gets None.
Fairness ==
  /\ \A s \in Senders : WF_vars(SendMore(s) \/ ShortWrite(s))
  /\ WF_vars(Close)
  /\ \A r \in Receivers : WF_vars(RecvStep(r))

FairSpec == Spec /\ Fairness
-----------------------------------------------------------------------------
(* Properties *)

\* The i-th result is exactly the i-th message sent: recv_message cuts the
\* stream where send_message joined it, however reads and writes split it.
Framing == \A i \in 1..Len(results) : results[i].msg = i

\* A message is returned with the descriptor it was sent with, or with none if
\* it was sent with none; only a message that does not decode loses it.
FdWithMessage ==
  \A i \in 1..Len(results) :
    results[i].ok => results[i].fd = IF msgs[i].fd THEN i ELSE 0

\* A descriptor never comes with a message later than its own: recvmsg hands it
\* out with the first byte of its message, and the call in progress keeps it.
FdNeverLate ==
  \A i \in 1..Len(results) : results[i].fd # 0 => results[i].fd >= i

\* No two calls of recv_message return the same descriptor, and none returns one
\* that another call still holds in fd_result.
FdOnce ==
  /\ \A i, j \in 1..Len(results) :
       i # j /\ results[i].fd # 0 => results[i].fd # results[j].fd
  /\ \A r \in Receivers : fdres[r] # 0 =>
       /\ \A i \in 1..Len(results) : results[i].fd # fdres[r]
       /\ \A o \in Receivers \ {r} : fdres[o] # fdres[r]

\* recv_message does not report the end of the stream while a message that was
\* sent completely has not been returned.
EofAfterAll ==
  \A r \in Receivers : rpc[r] = "done" =>
    \A k \in 1..Len(msgs) : Complete(msgs[k]) => k <= Len(results)

\* A call that waits for the socket leaves its thread to other tasks (the await
\* is the yield point of recv_message): none of them is blocked in lock().
YieldsThread ==
  \A r, o \in Receivers :
    r # o /\ ThreadOf[r] = ThreadOf[o] => ~(rpc[r] = "await" /\ rpc[o] = "lock")

Lost == [msg |-> 0, fd |-> 0]

\* The abstract channel: what send_message accepted is what recv_message returns.
Chan == INSTANCE Channel WITH
  Message <- [msg : 1..MaxMsgs, fd : 0..MaxMsgs],
  Undecodable <- Lost,
  sent <- [k \in 1..Len(msgs) |-> [msg |-> k, fd |-> IF msgs[k].fd THEN k ELSE 0]],
  got <- [i \in 1..Len(results) |->
            IF results[i].ok THEN [msg |-> results[i].msg, fd |-> results[i].fd]
                             ELSE Lost]

\* The pair of Handlers implements the abstract channel.
ImplementsChannel == Chan!Spec

\* Every message that was sent completely is returned.
Delivered ==
  \A k \in 1..MaxMsgs :
    (k <= Len(msgs) /\ Complete(msgs[k])) ~> k <= Len(results)

\* Once the sending end is closed, every receiver gets None.
EndSeen == \A r \in Receivers : ~open ~> rpc[r] = "done"
=============================================================================
