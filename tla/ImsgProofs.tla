----------------------------- MODULE ImsgProofs -----------------------------
(***************************************************************************)
(* Proofs about module Imsg, for every set of senders and receivers and    *)
(* every value of the sizes.                                               *)
(***************************************************************************)
EXTENDS Imsg, SequenceTheorems, TLAPS

-----------------------------------------------------------------------------
(* Types.  No sender writes more than its message, so the byte counters only *)
(* grow and stay ordered.                                                    *)

OutOK == \A k \in 1..Len(msgs) : msgs[k].out <= msgs[k].size

TypeInv == TypeOK /\ OutOK

\* The first segment of any message: a frame no longer than the message.
LEMMA FrameType ==
  ASSUME NEW id \in Ids, NEW base \in Bases, NEW p \in Payloads, NEW fd \in FdArgs,
         NEW l \in WireLen(base, p), wrote \in Nat
  PROVE  /\ Frame(id, l, p, fd) \in Frames
         /\ Frame(id, l, p, fd).out <= Frame(id, l, p, fd).size
         /\ Frame(id, l, p, fd).size = HeaderLen + p
         /\ Frame(id, l, p, fd).out = Min2(HeaderLen + p, SkbMax)
         /\ Frame(id, l, p, fd).len = l
         /\ Frame(id, l, p, fd).start = wrote
         /\ Frame(id, l, p, fd).whole = TRUE
         /\ Frame(id, l, p, fd).fd = fd
BY ImsgAssumption DEF Frame, Frames, FrameSize, WireLen, Min2

LEMMA MsgType ==
  ASSUME TypeInv, NEW k \in 1..Len(msgs)
  PROVE  /\ msgs[k] \in Frames
         /\ {msgs[k].id, msgs[k].len, msgs[k].size, msgs[k].start, msgs[k].out} \subseteq Nat
         /\ {msgs[k].fd, msgs[k].whole} \subseteq BOOLEAN
         /\ msgs[k].out <= msgs[k].size
<1>1. msgs[k] \in Frames /\ msgs[k].out <= msgs[k].size
  BY DEF TypeInv, TypeOK, OutOK
<1> QED
  BY <1>1 DEF Frames

LEMMA TypeInit == Init => TypeInv
BY ImsgAssumption DEF Init, TypeInv, TypeOK, OutOK

LEMMA TypeSendMessage ==
  ASSUME TypeInv, NEW s \in Senders, SendMessage(s)
  PROVE  TypeInv'
<1>1. PICK id \in Ids, base \in Bases, p \in Payloads, fd \in FdArgs :
        \E l \in WireLen(base, p) :
          LET m == Frame(id, l, p, fd) IN
          /\ msgs' = Append(msgs, m)
          /\ wrote' = wrote + m.out
          /\ IF m.out < m.size
             THEN cur' = [cur EXCEPT ![s] = Len(msgs) + 1] /\ UNCHANGED stopped
             ELSE stopped' = SendResult(s, m.out, l) /\ UNCHANGED cur
  BY DEF SendMessage
<1>2. PICK l \in WireLen(base, p) :
          LET m == Frame(id, l, p, fd) IN
          /\ msgs' = Append(msgs, m)
          /\ wrote' = wrote + m.out
          /\ IF m.out < m.size
             THEN cur' = [cur EXCEPT ![s] = Len(msgs) + 1] /\ UNCHANGED stopped
             ELSE stopped' = SendResult(s, m.out, l) /\ UNCHANGED cur
  BY <1>1
<1> DEFINE m == Frame(id, l, p, fd)
<1>3. /\ wrote \in Nat /\ msgs \in Seq(Frames) /\ Len(msgs) \in Nat
      /\ cur \in [Senders -> Nat] /\ \A t \in Senders : cur[t] <= Len(msgs)
  BY DEF TypeInv, TypeOK
<1>4. m \in Frames /\ m.out <= m.size /\ m.out \in Nat
  <2>1. m \in Frames /\ m.out <= m.size
    BY <1>3, FrameType
  <2> QED
    BY <2>1 DEF Frames
<1> HIDE DEF m
<1>5. /\ msgs' = Append(msgs, m)
      /\ wrote' = wrote + m.out
      /\ cur' = [cur EXCEPT ![s] = Len(msgs) + 1] \/ cur' = cur
      /\ stopped' = stopped \/ stopped' = stopped \cup {s}
  BY <1>2 DEF m, SendResult, OnError
<1>6. UNCHANGED <<open, read, consumed, rpc, fdres, results>>
  BY DEF SendMessage, recvVars
<1>7. Len(msgs') = Len(msgs) + 1 /\ msgs' \in Seq(Frames)
  BY <1>3, <1>4, <1>5
<1>8. cur' \in [Senders -> Nat] /\ \A t \in Senders : cur'[t] <= Len(msgs')
  <2>1. CASE cur' = [cur EXCEPT ![s] = Len(msgs) + 1]
    BY <1>3, <1>7, <2>1
  <2>2. CASE cur' = cur
    BY <1>3, <1>7, <2>2
  <2> QED
    BY <1>5, <2>1, <2>2
<1>9. OutOK'
  BY <1>3, <1>4, <1>5, <1>7 DEF TypeInv, OutOK
<1>10. TypeOK'
  BY <1>4, <1>5, <1>6, <1>7, <1>8 DEF TypeInv, TypeOK
<1> QED
  BY <1>9, <1>10 DEF TypeInv

LEMMA TypeSendMore ==
  ASSUME TypeInv, NEW s \in Senders, SendMore(s)
  PROVE  TypeInv'
<1> DEFINE m == msgs[cur[s]]
           n == Min2(m.size - m.out, SkbMax)
<1>1. /\ msgs' = [msgs EXCEPT ![cur[s]].out = @ + n,
                              ![cur[s]].whole = @ /\ wrote = m.start + m.out]
      /\ wrote' = wrote + n
      /\ cur' = cur \/ cur' = [cur EXCEPT ![s] = 0]
      /\ stopped' = stopped \/ stopped' = stopped \cup {s}
      /\ UNCHANGED <<open, read, consumed, rpc, fdres, results>>
  BY DEF SendMore, SendResult, OnError, recvVars
<1>2. cur[s] \in 1..Len(msgs) /\ m \in Frames /\ m.out <= m.size
  BY DEF SendMore, TypeInv, TypeOK, OutOK
<1>3. n \in Nat /\ m.out + n <= m.size
  <2>1. m.out \in Nat /\ m.size \in Nat /\ m.out <= m.size
    BY <1>2, MsgType
  <2> HIDE DEF m
  <2>2. SkbMax \in Nat
    BY ImsgAssumption
  <2> QED
    BY <2>1, <2>2 DEF Min2
<1> HIDE DEF n
<1>4. msgs' = [msgs EXCEPT ![cur[s]] =
                 [m EXCEPT !.out = m.out + n,
                           !.whole = m.whole /\ wrote = m.start + m.out]]
  BY <1>1, <1>2 DEF TypeInv, TypeOK
<1> DEFINE b == m.whole /\ wrote = m.start + m.out
           q == [m EXCEPT !.out = m.out + n, !.whole = b]
<1>5. b \in BOOLEAN
  BY <1>2, MsgType
<1> HIDE DEF b, m
<1>6. q \in Frames /\ q.out <= q.size
  <2>1. m \in [id : Nat, len : Nat, size : Nat, fd : BOOLEAN,
                start : Nat, out : Nat, whole : BOOLEAN]
    BY <1>2 DEF Frames
  <2>2. m.out + n \in Nat
    BY <2>1, <1>3
  <2>3. q \in [id : Nat, len : Nat, size : Nat, fd : BOOLEAN,
                start : Nat, out : Nat, whole : BOOLEAN]
    BY <2>1, <2>2, <1>5
  <2>4. q.out = m.out + n /\ q.size = m.size
    BY <2>1
  <2> QED
    BY <1>3, <2>3, <2>4 DEF Frames
<1> HIDE DEF q
<1>7. msgs' = [msgs EXCEPT ![cur[s]] = q]
  BY <1>4 DEF q, b, m
<1>8. Len(msgs') = Len(msgs) /\ msgs' \in Seq(Frames)
  BY <1>2, <1>6, <1>7 DEF TypeInv, TypeOK
<1>9. OutOK'
  BY <1>2, <1>6, <1>7, <1>8 DEF TypeInv, TypeOK, OutOK
<1>10. cur' \in [Senders -> Nat] /\ \A t \in Senders : cur'[t] <= Len(msgs')
  <2>1. /\ cur \in [Senders -> Nat] /\ \A t \in Senders : cur[t] <= Len(msgs)
        /\ Len(msgs) \in Nat
    BY DEF TypeInv, TypeOK
  <2>2. CASE cur' = cur
    BY <1>8, <2>1, <2>2
  <2>3. CASE cur' = [cur EXCEPT ![s] = 0]
    BY <1>8, <2>1, <2>3
  <2> QED
    BY <1>1, <2>2, <2>3
<1>11. TypeOK'
  BY <1>1, <1>3, <1>8, <1>10 DEF TypeInv, TypeOK
<1> QED
  BY <1>9, <1>11 DEF TypeInv

LEMMA TypeTakeMessage ==
  ASSUME TypeInv, NEW r \in Receivers, TakeMessage(r)
  PROVE  TypeInv'
<1>1. PICK l \in Splits : \E k \in Taken(l), ok \in BOOLEAN :
        /\ consumed' = consumed + l
        /\ results' = Append(results,
             [msg |-> k, fd |-> IF ok THEN fdres[r] ELSE 0, ok |-> ok])
  BY DEF TakeMessage
<1>2. PICK k \in Taken(l), ok \in BOOLEAN :
        /\ consumed' = consumed + l
        /\ results' = Append(results,
             [msg |-> k, fd |-> IF ok THEN fdres[r] ELSE 0, ok |-> ok])
  BY <1>1
<1>3. l \in Nat /\ consumed + l <= read
  <2>1. LenAtFront \subseteq Nat
    <3>1. \A j \in AtFront : msgs[j].len \in Nat
      BY MsgType DEF AtFront
    <3>2. 0..MaxLen \subseteq Nat
      BY ImsgAssumption
    <3> QED
      BY <3>1, <3>2 DEF LenAtFront
  <2> QED
    BY <2>1 DEF Splits, TypeInv, TypeOK
<1>4. k \in Nat
  BY DEF Taken, AtFront
<1>5. results' \in Seq(Results)
  <2>1. [msg |-> k, fd |-> IF ok THEN fdres[r] ELSE 0, ok |-> ok] \in Results
    BY <1>4 DEF Results, TypeInv, TypeOK
  <2> QED
    BY <1>2, <2>1 DEF TypeInv, TypeOK
<1> QED
  BY <1>2, <1>3, <1>5
  DEF TakeMessage, Released, TypeInv, TypeOK, OutOK, sendVars

LEMMA TypeRecvMsg ==
  ASSUME TypeInv, NEW r \in Receivers, RecvMsg(r)
  PROVE  TypeInv'
<1>1. PICK n \in Readable :
        /\ read' = read + n
        /\ \/ Arrived(n) = {} /\ UNCHANGED fdres
           \/ \E k \in Arrived(n) : fdres' = [fdres EXCEPT ![r] = KeepFirst(r, k)]
  BY DEF RecvMsg
<1>2. n \in Nat /\ read + n <= wrote
  BY ImsgAssumption DEF Readable, Min2, TypeInv, TypeOK
<1>3. fdres' \in [Receivers -> Nat]
  <2>1. CASE UNCHANGED fdres
    BY <2>1 DEF TypeInv, TypeOK
  <2>2. CASE \E k \in Arrived(n) : fdres' = [fdres EXCEPT ![r] = KeepFirst(r, k)]
    BY <2>2 DEF TypeInv, TypeOK, Arrived, Pending, KeepFirst
  <2> QED
    BY <1>1, <2>1, <2>2
<1>4. consumed <= read' /\ read' <= wrote /\ read' \in Nat
  BY <1>1, <1>2 DEF TypeInv, TypeOK
<1>5. rpc' \in [Receivers -> {"idle", "lock", "await", "done"}]
  BY DEF RecvMsg, TypeInv, TypeOK
<1> QED
  BY <1>3, <1>4, <1>5 DEF RecvMsg, TypeInv, TypeOK, OutOK, sendVars

LEMMA TypeStep == TypeInv /\ [Next]_vars => TypeInv'
<1> SUFFICES ASSUME TypeInv, [Next]_vars PROVE TypeInv'
  OBVIOUS
<1>1. ASSUME NEW s \in Senders, SendRejected(s) PROVE TypeInv'
  BY <1>1 DEF SendRejected, OnError, TypeInv, TypeOK, OutOK, recvVars
<1>2. ASSUME NEW s \in Senders, ShortWrite(s) PROVE TypeInv'
  <2>1. cur' = [cur EXCEPT ![s] = 0] /\ stopped' \subseteq Senders
    BY <1>2 DEF ShortWrite, OnError, TypeInv, TypeOK
  <2>2. cur' \in [Senders -> Nat] /\ \A t \in Senders : cur'[t] <= Len(msgs)
    <3>1. cur \in [Senders -> Nat] /\ Len(msgs) \in Nat
      BY DEF TypeInv, TypeOK
    <3> QED
      BY <2>1, <3>1 DEF TypeInv, TypeOK
  <2> QED
    BY <1>2, <2>1, <2>2 DEF ShortWrite, TypeInv, TypeOK, OutOK, recvVars
<1>3. CASE Close
  BY <1>3 DEF Close, TypeInv, TypeOK, OutOK, recvVars
<1>4. ASSUME NEW r \in Receivers, RecvCall(r) PROVE TypeInv'
  BY <1>4 DEF RecvCall, TypeInv, TypeOK, OutOK, sendVars
<1>5. ASSUME NEW r \in Receivers, AwaitData(r) PROVE TypeInv'
  BY <1>5 DEF AwaitData, TypeInv, TypeOK, OutOK, sendVars
<1>6. ASSUME NEW r \in Receivers, RecvEof(r) \/ Cancel(r) PROVE TypeInv'
  <2>1. /\ rpc' = [rpc EXCEPT ![r] = "done"] \/ rpc' = [rpc EXCEPT ![r] = "idle"]
        /\ fdres' = [fdres EXCEPT ![r] = 0]
        /\ UNCHANGED <<msgs, cur, stopped, open, wrote, read, consumed, results>>
    BY <1>6 DEF RecvEof, Cancel, Released, sendVars
  <2>2. /\ rpc' \in [Receivers -> {"idle", "lock", "await", "done"}]
        /\ fdres' \in [Receivers -> Nat]
    BY <2>1 DEF TypeInv, TypeOK
  <2> QED
    BY <2>1, <2>2 DEF TypeInv, TypeOK, OutOK
<1>7. CASE UNCHANGED vars
  BY <1>7 DEF vars, sendVars, recvVars, TypeInv, TypeOK, OutOK
<1> QED
  BY <1>1, <1>2, <1>3, <1>4, <1>5, <1>6, <1>7, TypeSendMessage, TypeSendMore,
     TypeTakeMessage, TypeRecvMsg
  DEF Next, SendStep, RecvStep, Terminated

\* Every reachable state is well typed, and the bytes consumed are among the
\* bytes read, which are among the bytes written: recv_message never splits
\* more off the buffer than it holds.
THEOREM TypeCorrect == Spec => []TypeOK
<1>1. Spec => []TypeInv
  BY TypeInit, TypeStep, PTL DEF Spec
<1>2. TypeInv => TypeOK
  BY DEF TypeInv
<1> QED
  BY <1>1, <1>2, PTL

-----------------------------------------------------------------------------
(* Framing.  The assumptions on the callers and on the sizes under which the *)
(* stream is a sequence of whole messages.                                   *)

\* Every message fits one segment, so that no sendmsg is interrupted.
OneSegment == \A p \in Payloads : FrameSize(p) <= SkbMax

\* One task sends, and it gives up after an error.
OneSender == StopOnError /\ \A s, t \in Senders : s = t

\* Nobody writes behind a message that is not complete.
WholeSends == OneSegment \/ OneSender

\* Headers come from Message::new.
FreshHeaders == Bases = {HeaderLen}

\* Where message k starts, or will start.
StartOf(k) == IF k <= Len(msgs) THEN msgs[k].start ELSE wrote

\* A message lies in front of the next one with what there is of it.
Placed(m, end) ==
  /\ m.whole
  /\ m.len = m.size
  /\ m.size >= HeaderLen
  /\ m.out > 0
  /\ m.start + m.out <= wrote
  /\ m.start + m.out = end

\* Only the last message can be incomplete, while its sender writes it or after the
\* sender has given up.
Unfinished(k) ==
  /\ k = Len(msgs)
  /\ OneSender
  /\ \A s \in Senders : cur[s] = k \/ s \in stopped

\* The messages lie behind each other, with the right lengths.
StreamInv ==
  /\ \A s \in Senders : cur[s] # 0 => open /\ msgs[cur[s]].out < msgs[cur[s]].size
  /\ \A k \in 1..Len(msgs) : Placed(msgs[k], StartOf(k + 1))
  /\ \A k \in 1..Len(msgs) : msgs[k].out < msgs[k].size => Unfinished(k)
  /\ \A j, k \in 1..Len(msgs) : j < k => msgs[j].start < msgs[k].start
  /\ OneSegment => \A k \in 1..Len(msgs) : msgs[k].out = msgs[k].size

\* The read buffer starts where the next message to return starts.
FrontInv ==
  /\ Len(results) <= Len(msgs)
  /\ \A i \in 1..Len(results) : Complete(msgs[i])
  /\ consumed = StartOf(Len(results) + 1)
  /\ Framing

FramingInv == TypeInv /\ StreamInv /\ FrontInv

LEMMA FramingInit == Init => FramingInv
<1> SUFFICES ASSUME Init PROVE StreamInv /\ FrontInv
  BY TypeInit DEF FramingInv
<1> QED
  BY DEF Init, StreamInv, FrontInv, Framing, StartOf

\* What a send adds: one message at the end of the stream, or the start of one.
LEMMA SendFrame ==
  ASSUME FreshHeaders, TypeInv, NEW s \in Senders, SendMessage(s)
  PROVE  \E m \in Frames :
           /\ msgs' = Append(msgs, m)
           /\ wrote' = wrote + m.out
           /\ m.start = wrote /\ m.whole /\ m.len = m.size /\ m.size >= HeaderLen
           /\ m.out > 0 /\ m.out <= m.size
           /\ OneSegment => m.out = m.size /\ m.size <= SkbMax
           /\ cur' = IF m.out < m.size THEN [cur EXCEPT ![s] = Len(msgs) + 1] ELSE cur
           /\ FdAllowed(m.fd)
           /\ UNCHANGED <<stopped, open, read, consumed, rpc, fdres, results>>
<1>1. PICK id \in Ids, base \in Bases, p \in Payloads, fd \in FdArgs :
        /\ FdAllowed(fd)
        /\ \E l \in WireLen(base, p) :
             LET m == Frame(id, l, p, fd) IN
             /\ msgs' = Append(msgs, m)
             /\ wrote' = wrote + m.out
             /\ IF m.out < m.size
                THEN cur' = [cur EXCEPT ![s] = Len(msgs) + 1] /\ UNCHANGED stopped
                ELSE stopped' = SendResult(s, m.out, l) /\ UNCHANGED cur
  BY DEF SendMessage
<1>2. PICK l \in WireLen(base, p) :
        LET m == Frame(id, l, p, fd) IN
        /\ msgs' = Append(msgs, m)
        /\ wrote' = wrote + m.out
        /\ IF m.out < m.size
           THEN cur' = [cur EXCEPT ![s] = Len(msgs) + 1] /\ UNCHANGED stopped
           ELSE stopped' = SendResult(s, m.out, l) /\ UNCHANGED cur
  BY <1>1
<1> DEFINE m == Frame(id, l, p, fd)
<1>3. /\ m \in Frames /\ m.size = HeaderLen + p /\ m.out = Min2(HeaderLen + p, SkbMax)
      /\ m.len = l /\ m.start = wrote /\ m.whole = TRUE /\ m.fd = fd
  <2>1. wrote \in Nat
    BY DEF TypeInv, TypeOK
  <2> QED
    BY <2>1, FrameType
<1> HIDE DEF m
<1>4. /\ l = HeaderLen + p /\ p \in Nat /\ HeaderLen \in Nat \ {0} /\ SkbMax \in Nat \ {0}
      /\ OneSegment => HeaderLen + p <= SkbMax
  BY ImsgAssumption DEF OneSegment, FreshHeaders, WireLen, FrameSize
<1>5. /\ m.out \in Nat /\ m.size \in Nat /\ m.out > 0 /\ m.out <= m.size
      /\ m.len = m.size /\ m.size >= HeaderLen
      /\ OneSegment => m.out = m.size /\ m.size <= SkbMax
  BY <1>3, <1>4 DEF Min2
<1>6. /\ msgs' = Append(msgs, m) /\ wrote' = wrote + m.out
      /\ cur' = IF m.out < m.size THEN [cur EXCEPT ![s] = Len(msgs) + 1] ELSE cur
  BY <1>2 DEF m
<1>7. UNCHANGED stopped
  <2>1. CASE m.out < m.size
    BY <1>2, <2>1 DEF m
  <2>2. CASE ~(m.out < m.size)
    <3>1. stopped' = SendResult(s, m.out, l)
      BY <1>2, <2>2 DEF m
    <3>2. m.out = l
      BY <1>3, <1>5, <2>2
    <3> QED
      BY <3>1, <3>2 DEF SendResult
  <2> QED
    BY <2>1, <2>2
<1>8. UNCHANGED <<open, read, consumed, rpc, fdres, results>>
  BY DEF SendMessage, recvVars
<1> QED
  BY <1>1, <1>3, <1>5, <1>6, <1>7, <1>8

\* Where it fits one segment, the message is whole at once.
LEMMA SendWhole ==
  ASSUME OneSegment, FreshHeaders, TypeInv, NEW s \in Senders, SendMessage(s)
  PROVE  \E m \in Frames :
           /\ msgs' = Append(msgs, m)
           /\ wrote' = wrote + m.size
           /\ m.start = wrote /\ Complete(m)
           /\ m.len = m.size /\ m.size >= HeaderLen /\ m.size <= SkbMax
           /\ FdAllowed(m.fd)
           /\ UNCHANGED <<cur, open, read, consumed, rpc, fdres, results>>
<1>1. PICK m \in Frames :
        /\ msgs' = Append(msgs, m)
        /\ wrote' = wrote + m.out
        /\ m.start = wrote /\ m.whole /\ m.len = m.size /\ m.size >= HeaderLen
        /\ m.out = m.size /\ m.size <= SkbMax
        /\ cur' = IF m.out < m.size THEN [cur EXCEPT ![s] = Len(msgs) + 1] ELSE cur
        /\ FdAllowed(m.fd)
        /\ UNCHANGED <<open, read, consumed, rpc, fdres, results>>
  BY SendFrame
<1>2. ~(m.out < m.size)
  BY <1>1 DEF Frames
<1> QED
  BY <1>1, <1>2 DEF Complete

\* Of a message that is not the last, nothing is missing.
LEMMA Whole ==
  ASSUME FramingInv, NEW k \in 1..Len(msgs),
         msgs[k].out = msgs[k].size \/ k < Len(msgs) \/ OneSegment
  PROVE  /\ Complete(msgs[k])
         /\ msgs[k].start + msgs[k].size <= wrote
         /\ msgs[k].start + msgs[k].size = StartOf(k + 1)
<1>1. msgs[k].out \in Nat /\ msgs[k].size \in Nat /\ msgs[k].out <= msgs[k].size
  BY MsgType DEF FramingInv
<1>2. msgs[k].out = msgs[k].size
  BY <1>1 DEF FramingInv, StreamInv, Unfinished
<1>3. Placed(msgs[k], StartOf(k + 1))
  BY DEF FramingInv, StreamInv
<1> QED
  BY <1>2, <1>3 DEF Placed, Complete

\* While a message is left to return, it is the one at the front of the buffer.
LEMMA FrontIsNext ==
  ASSUME FramingInv, Len(results) < Len(msgs)
  PROVE  /\ AtFront = {Len(results) + 1}
         /\ consumed = msgs[Len(results) + 1].start
         /\ LenAtFront = {msgs[Len(results) + 1].size}
<1> DEFINE c == Len(results) + 1
<1>1. c \in 1..Len(msgs) /\ c \in Nat
  BY DEF FramingInv, TypeInv, TypeOK
<1>2. consumed = msgs[c].start
  BY <1>1 DEF FramingInv, FrontInv, StartOf
<1>3. \A j \in 1..Len(msgs) : msgs[j].start = msgs[c].start => j = c
  <2> SUFFICES ASSUME NEW j \in 1..Len(msgs), j # c
               PROVE  msgs[j].start # msgs[c].start
    OBVIOUS
  <2>1. j < c \/ c < j
    BY <1>1
  <2>2. msgs[j].start \in Nat /\ msgs[c].start \in Nat
    BY <1>1, MsgType DEF FramingInv
  <2> QED
    BY <1>1, <2>1, <2>2 DEF FramingInv, StreamInv
<1>4. AtFront = {c}
  BY <1>1, <1>2, <1>3 DEF AtFront
<1>5. msgs[c].len = msgs[c].size
  BY <1>1 DEF FramingInv, StreamInv, Placed
<1> QED
  BY <1>2, <1>4, <1>5 DEF LenAtFront

\* The read buffer holds a whole message only if there is one left to return,
\* and then it is that one.
LEMMA FrontWhole ==
  ASSUME FramingInv, NEW l \in Splits, NEW k \in Taken(l)
  PROVE  /\ Len(results) < Len(msgs)
         /\ k = Len(results) + 1
         /\ l = msgs[k].size
         /\ Complete(msgs[k])
<1> DEFINE c == Len(results) + 1
<1>1. /\ c \in Nat \ {0} /\ Len(msgs) \in Nat /\ Len(results) \in Nat
      /\ consumed \in Nat /\ read \in Nat /\ wrote \in Nat
      /\ consumed <= read /\ read <= wrote /\ HeaderLen \in Nat \ {0}
      /\ c <= Len(msgs) + 1
  BY ImsgAssumption DEF FramingInv, TypeInv, TypeOK, FrontInv
<1>2. read - consumed >= HeaderLen
  BY DEF Splits
<1>3. c <= Len(msgs)
  BY <1>1, <1>2 DEF FramingInv, FrontInv, StartOf
<1>4. AtFront = {c} /\ LenAtFront = {msgs[c].size}
  BY <1>1, <1>3, FrontIsNext
<1>5. l = msgs[c].size /\ read - consumed >= msgs[c].size
  BY <1>4 DEF Splits
<1>6. Complete(msgs[c])
  <2>1. c \in 1..Len(msgs)
    BY <1>1, <1>3
  <2>2. consumed = msgs[c].start
    BY <1>1, <1>3, FrontIsNext
  <2>3. /\ msgs[c].start \in Nat /\ msgs[c].size \in Nat /\ msgs[c].out \in Nat
        /\ msgs[c].out <= msgs[c].size
    BY <2>1, MsgType DEF FramingInv
  <2>4. CASE c = Len(msgs)
    <3>1. msgs[c].start + msgs[c].out = StartOf(c + 1)
      BY <2>1 DEF FramingInv, StreamInv, Placed
    <3>2. StartOf(c + 1) = wrote
      BY <1>1, <2>4 DEF StartOf
    <3>3. msgs[c].out = msgs[c].size
      <4> DEFINE st == msgs[c].start
                 sz == msgs[c].size
                 ou == msgs[c].out
      <4>1. /\ st \in Nat /\ sz \in Nat /\ ou \in Nat /\ ou <= sz
            /\ consumed = st /\ read - consumed >= sz /\ st + ou = wrote
        BY <1>5, <2>2, <2>3, <3>1, <3>2
      <4> HIDE DEF st, sz, ou, c
      <4>2. ou = sz
        BY <1>1, <4>1
      <4> QED
        BY <4>2 DEF st, sz, ou
    <3> QED
      BY <2>1, <3>3, Whole
  <2>5. CASE c < Len(msgs)
    BY <2>1, <2>5, Whole
  <2> QED
    BY <1>1, <1>3, <2>4, <2>5
<1>7. k = c
  BY <1>4, <1>5, <1>6 DEF Taken
<1> QED
  BY <1>1, <1>3, <1>5, <1>6, <1>7

LEMMA FramingSend ==
  ASSUME WholeSends, FreshHeaders, FramingInv, NEW s \in Senders, SendMessage(s)
  PROVE  StreamInv' /\ FrontInv'
<1>1. PICK m \in Frames :
           /\ msgs' = Append(msgs, m)
           /\ wrote' = wrote + m.out
           /\ m.start = wrote /\ m.whole /\ m.len = m.size /\ m.size >= HeaderLen
           /\ m.out > 0 /\ m.out <= m.size
           /\ OneSegment => m.out = m.size
           /\ cur' = IF m.out < m.size THEN [cur EXCEPT ![s] = Len(msgs) + 1] ELSE cur
           /\ UNCHANGED <<stopped, open, read, consumed, rpc, fdres, results>>
  BY SendFrame DEF FramingInv
<1>2. /\ msgs \in Seq(Frames) /\ Len(msgs) \in Nat /\ wrote \in Nat
      /\ m.size \in Nat /\ m.start \in Nat /\ m.out \in Nat
      /\ cur \in [Senders -> Nat] /\ \A t \in Senders : cur[t] <= Len(msgs)
  BY DEF FramingInv, TypeInv, TypeOK, Frames
<1> DEFINE n == Len(msgs) + 1
<1>3. /\ Len(msgs') = n
      /\ \A k \in 1..Len(msgs) : msgs'[k] = msgs[k]
      /\ msgs'[n] = m
      /\ \A k \in 1..Len(msgs') : k \in 1..Len(msgs) \/ k = n
  BY <1>1, <1>2
<1>4. \A k \in 1..n : StartOf(k)' = StartOf(k)
  BY <1>1, <1>2, <1>3 DEF StartOf
\* Nothing is incomplete when a sender is ready.
<1>5. open /\ cur[s] = 0 /\ \A k \in 1..Len(msgs) : msgs[k].out = msgs[k].size
  <2>1. open /\ cur[s] = 0 /\ s \notin stopped
    BY DEF SendMessage, Ready
  <2>2. ASSUME NEW k \in 1..Len(msgs) PROVE ~Unfinished(k)
    BY <2>1 DEF Unfinished
  <2>3. ASSUME NEW k \in 1..Len(msgs) PROVE msgs[k].out = msgs[k].size
    <3>1. msgs[k].out \in Nat /\ msgs[k].size \in Nat /\ msgs[k].out <= msgs[k].size
      BY MsgType DEF FramingInv
    <3> QED
      BY <2>2, <3>1 DEF FramingInv, StreamInv
  <2> QED
    BY <2>1, <2>3
<1>6. \A k \in 1..Len(msgs') : Placed(msgs[k], StartOf(k + 1))'
  <2> SUFFICES ASSUME NEW k \in 1..Len(msgs') PROVE Placed(msgs[k], StartOf(k + 1))'
    OBVIOUS
  <2>1. CASE k = n
    <3>1. StartOf(k + 1)' = wrote + m.out
      <4>1. ~(k + 1 <= Len(msgs'))
        BY <1>2, <1>3, <2>1
      <4> QED
        BY <1>1, <4>1 DEF StartOf
    <3>2. msgs'[k] = m
      BY <1>3, <2>1
    <3> QED
      BY <1>1, <1>2, <3>1, <3>2 DEF Placed
  <2>2. CASE k \in 1..Len(msgs)
    <3>1. msgs[k].start \in Nat /\ msgs[k].out \in Nat
      BY <2>2, MsgType DEF FramingInv
    <3>2. StartOf(k + 1)' = StartOf(k + 1)
      BY <1>2, <1>4, <2>2
    <3>3. Placed(msgs[k], StartOf(k + 1)) /\ msgs'[k] = msgs[k]
      BY <1>3, <2>2 DEF FramingInv, StreamInv
    <3>4. msgs[k].start + msgs[k].out <= wrote'
      BY <1>1, <1>2, <3>1, <3>3 DEF Placed
    <3> QED
      BY <3>2, <3>3, <3>4 DEF Placed
  <2> QED
    BY <1>3, <2>1, <2>2
<1>7. ASSUME NEW j \in 1..Len(msgs'), NEW k \in 1..Len(msgs'), j < k
      PROVE  msgs'[j].start < msgs'[k].start
  <2>1. j \in 1..Len(msgs) /\ msgs[j].start \in Nat /\ msgs[j].out \in Nat
    <3>1. j \in 1..Len(msgs)
      BY <1>2, <1>3, <1>7
    <3> QED
      BY <3>1, MsgType DEF FramingInv
  <2>2. CASE k = n
    <3>1. msgs[j].start + msgs[j].out <= wrote /\ msgs[j].out > 0
      BY <2>1 DEF FramingInv, StreamInv, Placed
    <3> QED
      BY <1>1, <1>2, <1>3, <2>1, <2>2, <3>1
  <2>3. CASE k \in 1..Len(msgs)
    BY <1>3, <1>7, <2>1, <2>3 DEF FramingInv, StreamInv
  <2> QED
    BY <1>3, <2>2, <2>3
<1>8. ASSUME NEW t \in Senders, cur'[t] # 0
      PROVE  open' /\ msgs'[cur'[t]].out < msgs'[cur'[t]].size
  <2>1. CASE cur'[t] = cur[t]
    <3>1. cur[t] \in 1..Len(msgs)
      BY <1>2, <1>8, <2>1
    <3> QED
      BY <1>1, <1>3, <1>8, <2>1, <3>1 DEF FramingInv, StreamInv
  <2>2. CASE cur'[t] = n /\ m.out < m.size
    BY <1>1, <1>3, <1>5, <2>2
  <2> QED
    BY <1>1, <1>2, <2>1, <2>2
<1>9. ASSUME NEW k \in 1..Len(msgs'), msgs'[k].out < msgs'[k].size
      PROVE  Unfinished(k)'
  <2>1. k = n /\ m.out < m.size
    <3>1. CASE k \in 1..Len(msgs)
      <4>1. msgs[k].size \in Nat /\ msgs'[k] = msgs[k] /\ msgs[k].out = msgs[k].size
        BY <1>3, <1>5, <3>1, MsgType DEF FramingInv
      <4> QED
        BY <1>9, <4>1
    <3>2. CASE k = n
      BY <1>3, <1>9, <3>2
    <3> QED
      BY <1>3, <3>1, <3>2
  <2>2. OneSender
    BY <1>1, <1>2, <2>1 DEF WholeSends
  <2>3. cur'[s] = n
    BY <1>1, <1>2, <2>1
  <2>4. \A t \in Senders : cur'[t] = n
    BY <2>2, <2>3 DEF OneSender
  <2> QED
    BY <1>3, <2>1, <2>2, <2>4 DEF Unfinished, OneSender
<1>10. ASSUME OneSegment, NEW k \in 1..Len(msgs') PROVE msgs'[k].out = msgs'[k].size
  BY <1>1, <1>3, <1>5, <1>10
<1>11. StreamInv'
  BY <1>6, <1>7, <1>8, <1>9, <1>10 DEF StreamInv, OneSegment, FrameSize
<1>12. FrontInv'
  <2>1. Len(results) + 1 \in 1..n /\ \A i \in 1..Len(results) : i \in 1..Len(msgs)
    BY <1>2 DEF FramingInv, FrontInv, TypeInv, TypeOK
  <2>2. \A i \in 1..Len(results) : msgs'[i] = msgs[i]
    BY <1>3, <2>1
  <2> QED
    BY <1>1, <1>2, <1>3, <1>4, <2>1, <2>2 DEF FramingInv, FrontInv, Framing, Complete
<1> QED
  BY <1>11, <1>12

\* A further segment changes what there is of a message, and nothing else of it.
LEMMA MoreKeeps ==
  ASSUME TypeInv, NEW s \in Senders, SendMore(s)
  PROVE  /\ Len(msgs') = Len(msgs)
         /\ \A k \in 1..Len(msgs) :
              msgs'[k].start = msgs[k].start /\ msgs'[k].size = msgs[k].size
<1> DEFINE c == cur[s]
           n == Min2(msgs[c].size - msgs[c].out, SkbMax)
<1>1. msgs' = [msgs EXCEPT ![c].out = @ + n,
                           ![c].whole = @ /\ wrote = msgs[c].start + msgs[c].out]
  BY DEF SendMore
<1>2. msgs \in Seq(Frames) /\ \A k \in 1..Len(msgs) : msgs[k] \in Frames
  BY MsgType DEF TypeInv, TypeOK
<1> HIDE DEF n
<1>3. Len(msgs') = Len(msgs)
  BY <1>1, <1>2
<1> QED
  BY <1>1, <1>2, <1>3 DEF Frames

\* A further segment goes behind the last message, which is the sender's own.
LEMMA FramingMore ==
  ASSUME FramingInv, NEW s \in Senders, SendMore(s)
  PROVE  StreamInv' /\ FrontInv' /\ UNCHANGED stopped
<1> DEFINE c == cur[s]
           m == msgs[c]
           n == Min2(m.size - m.out, SkbMax)
<1>1. /\ cur \in [Senders -> Nat] /\ msgs \in Seq(Frames) /\ Len(msgs) \in Nat
      /\ wrote \in Nat /\ consumed \in Nat /\ Len(results) \in Nat
      /\ \A k \in 1..Len(msgs) : msgs[k] \in Frames
  BY MsgType DEF FramingInv, TypeInv, TypeOK
<1>2. c \in 1..Len(msgs) /\ m.out < m.size /\ open
  BY <1>1 DEF SendMore, FramingInv, TypeInv, TypeOK, StreamInv
<1>3. c = Len(msgs) /\ OneSender /\ \A t \in Senders : t = s
  BY <1>2 DEF FramingInv, StreamInv, Unfinished, OneSender
<1>4. /\ m.start \in Nat /\ m.out \in Nat /\ m.size \in Nat
      /\ m.whole /\ m.len = m.size /\ m.size >= HeaderLen /\ m.out > 0
      /\ m.start + m.out = wrote
  <2>1. Placed(m, StartOf(c + 1)) /\ m \in Frames
    BY <1>1, <1>2 DEF FramingInv, StreamInv
  <2>2. StartOf(c + 1) = wrote
    BY <1>1, <1>3 DEF StartOf
  <2> QED
    BY <2>1, <2>2 DEF Placed, Frames
<1>5. n \in Nat \ {0} /\ n <= m.size - m.out
  <2> HIDE DEF m
  <2> QED
    BY <1>2, <1>4, ImsgAssumption DEF Min2
<1>6. /\ msgs' = [msgs EXCEPT ![c].out = @ + n, ![c].whole = @ /\ wrote = m.start + m.out]
      /\ wrote' = wrote + n
      /\ IF m.out + n < m.size
         THEN UNCHANGED <<cur, stopped>>
         ELSE /\ stopped' = SendResult(s, m.out + n, m.len)
              /\ cur' = [cur EXCEPT ![s] = 0]
      /\ UNCHANGED <<open, read, consumed, rpc, fdres, results>>
  BY DEF SendMore, recvVars
<1> HIDE DEF n
<1>7. msgs' = [msgs EXCEPT ![c] =
                 [m EXCEPT !.out = m.out + n, !.whole = m.whole /\ wrote = m.start + m.out]]
  BY <1>1, <1>2, <1>6
<1>8. /\ Len(msgs') = Len(msgs)
      /\ \A k \in 1..Len(msgs) : k # c => msgs'[k] = msgs[k]
      /\ msgs'[c].start = m.start /\ msgs'[c].out = m.out + n /\ msgs'[c].whole
      /\ msgs'[c].len = m.len /\ msgs'[c].size = m.size
  <2>1. Len(msgs') = Len(msgs) /\ \A k \in 1..Len(msgs) : k # c => msgs'[k] = msgs[k]
    BY <1>1, <1>2, <1>7
  <2> DEFINE q == [m EXCEPT !.out = m.out + n,
                            !.whole = m.whole /\ wrote = m.start + m.out]
  <2>3. m \in Frames
    BY <1>1, <1>2
  <2>2. msgs'[c] = q
    <3>1. msgs' = [msgs EXCEPT ![c] = q]
      BY <1>7
    <3> HIDE DEF q
    <3> QED
      BY <1>1, <1>2, <3>1
  <2> HIDE DEF m
  <2> QED
    BY <1>4, <2>1, <2>2, <2>3 DEF Frames
<1> HIDE DEF m, c
<1>9. UNCHANGED stopped
  <2>1. CASE m.out + n < m.size
    BY <1>6, <2>1
  <2>2. CASE ~(m.out + n < m.size)
    <3>1. m.out + n = m.len
      BY <1>2, <1>4, <1>5, <2>2
    <3> QED
      BY <1>6, <2>2, <3>1 DEF SendResult
  <2> QED
    BY <2>1, <2>2
<1>10. \A k \in 1..Len(msgs) : StartOf(k)' = StartOf(k)
  BY <1>1, <1>8 DEF StartOf, m
<1>11. \A k \in 1..Len(msgs') : Placed(msgs[k], StartOf(k + 1))'
  <2> SUFFICES ASSUME NEW k \in 1..Len(msgs) PROVE Placed(msgs[k], StartOf(k + 1))'
    BY <1>8
  <2>1. CASE k = c
    <3>1. StartOf(k + 1)' = wrote'
      <4>1. ~(k + 1 <= Len(msgs'))
        BY <1>1, <1>3, <1>8, <2>1
      <4> QED
        BY <4>1 DEF StartOf
    <3>2. m.start + (m.out + n) = wrote' /\ m.out + n > 0
      BY <1>4, <1>5, <1>6
    <3>3. wrote' \in Nat
      BY <1>1, <1>5, <1>6
    <3>4. /\ msgs'[k].start = m.start /\ msgs'[k].out = m.out + n /\ msgs'[k].whole
          /\ msgs'[k].len = m.len /\ msgs'[k].size = m.size
      BY <1>8, <2>1
    <3> QED
      BY <1>4, <3>1, <3>2, <3>3, <3>4 DEF Placed
  <2>2. CASE k # c
    <3>1. k + 1 \in 1..Len(msgs)
      BY <1>1, <1>3, <2>2
    <3>2. Placed(msgs[k], StartOf(k + 1)) /\ msgs'[k] = msgs[k]
      BY <1>8, <2>2 DEF FramingInv, StreamInv
    <3>3. msgs[k].start \in Nat /\ msgs[k].out \in Nat
      BY MsgType DEF FramingInv
    <3>4. msgs[k].start + msgs[k].out <= wrote'
      <4>1. msgs[k].start + msgs[k].out <= wrote
        BY <3>2 DEF Placed
      <4>2. wrote \in Nat /\ wrote' \in Nat /\ wrote <= wrote'
        BY <1>1, <1>5, <1>6
      <4> QED
        BY <3>3, <4>1, <4>2
    <3> QED
      BY <1>10, <3>1, <3>2, <3>4 DEF Placed
  <2> QED
    BY <2>1, <2>2
<1>12. \A j, k \in 1..Len(msgs') : j < k => msgs'[j].start < msgs'[k].start
  <2>1. \A k \in 1..Len(msgs) : msgs'[k].start = msgs[k].start
    BY <1>8 DEF m
  <2> QED
    BY <1>8, <2>1 DEF FramingInv, StreamInv
<1>13. ASSUME NEW t \in Senders, cur'[t] # 0
       PROVE  open' /\ msgs'[cur'[t]].out < msgs'[cur'[t]].size
  <2>1. t = s
    BY <1>3
  <2>2. m.out + n < m.size
    BY <1>1, <1>6, <1>13, <2>1
  <2>3. cur'[t] = c
    BY <1>6, <2>1, <2>2 DEF c
  <2> QED
    BY <1>2, <1>6, <1>8, <2>2, <2>3
<1>14. ASSUME NEW k \in 1..Len(msgs'), msgs'[k].out < msgs'[k].size
       PROVE  Unfinished(k)'
  <2>1. k = c
    <3> SUFFICES ASSUME k # c PROVE FALSE
      OBVIOUS
    <3>1. msgs[k].out < msgs[k].size /\ k \in 1..Len(msgs)
      BY <1>8, <1>14
    <3> QED
      BY <1>3, <3>1 DEF FramingInv, StreamInv, Unfinished
  <2>2. m.out + n < m.size
    BY <1>8, <1>14, <2>1
  <2>3. \A t \in Senders : cur'[t] = c
    BY <1>3, <1>6, <2>2 DEF c
  <2> QED
    BY <1>3, <1>8, <2>1, <2>3 DEF Unfinished, OneSender
<1>15. ~OneSegment
  <2>1. m.out # m.size
    BY <1>2, <1>4
  <2> QED
    BY <1>2, <2>1 DEF FramingInv, StreamInv, m
<1>16. StreamInv'
  BY <1>11, <1>12, <1>13, <1>14, <1>15 DEF StreamInv, OneSegment, FrameSize
<1>17. FrontInv'
  <2>1. Len(results) < Len(msgs)
    <3> SUFFICES ASSUME Len(results) = Len(msgs) PROVE FALSE
      BY <1>1 DEF FramingInv, FrontInv
    <3>1. Complete(m)
      BY <1>2, <1>3 DEF FramingInv, FrontInv, m
    <3> QED
      BY <1>2, <1>4, <3>1 DEF Complete
  <2>2. Len(results) + 1 \in 1..Len(msgs) /\ \A i \in 1..Len(results) : i \in 1..Len(msgs) /\ i # c
    BY <1>1, <1>3, <2>1
  <2>3. \A i \in 1..Len(results) : msgs'[i] = msgs[i]
    BY <1>8, <2>2
  <2> QED
    BY <1>6, <1>8, <1>10, <2>2, <2>3 DEF FramingInv, FrontInv, Framing, Complete
<1> QED
  BY <1>9, <1>16, <1>17

\* After a short write the message stays incomplete, and the sender has given up.
LEMMA FramingShort ==
  ASSUME FramingInv, NEW s \in Senders, ShortWrite(s)
  PROVE  StreamInv' /\ FrontInv'
<1>1. /\ cur[s] # 0 /\ cur' = [cur EXCEPT ![s] = 0] /\ stopped' = OnError(s)
      /\ UNCHANGED <<msgs, open, wrote, consumed, results>>
  BY DEF ShortWrite, recvVars
<1>2. cur \in [Senders -> Nat]
  BY DEF FramingInv, TypeInv, TypeOK
<1>3. ASSUME NEW k \in 1..Len(msgs), msgs[k].out < msgs[k].size
      PROVE  Unfinished(k)'
  <2>1. Unfinished(k)
    BY <1>3 DEF FramingInv, StreamInv
  <2>2. s \in stopped' /\ \A t \in Senders : t = s
    BY <1>1, <2>1 DEF Unfinished, OneSender, OnError
  <2> QED
    BY <1>1, <2>1, <2>2 DEF Unfinished, OneSender
<1>4. StreamInv'
  BY <1>1, <1>2, <1>3 DEF FramingInv, StreamInv, Placed, StartOf, OneSegment, FrameSize
<1>5. FrontInv'
  BY <1>1 DEF FramingInv, FrontInv, Framing, StartOf, Complete
<1> QED
  BY <1>4, <1>5

\* Where messages fit one segment, no sendmsg is in the middle of one.
LEMMA NoMore ==
  ASSUME OneSegment, FramingInv, NEW s \in Senders
  PROVE  ~SendMore(s) /\ ~ShortWrite(s)
<1> SUFFICES ASSUME cur[s] # 0 PROVE FALSE
  BY DEF SendMore, ShortWrite
<1>1. cur[s] \in 1..Len(msgs)
  BY DEF FramingInv, TypeInv, TypeOK
<1>2. msgs[cur[s]].out < msgs[cur[s]].size /\ msgs[cur[s]].out = msgs[cur[s]].size
  BY <1>1 DEF FramingInv, StreamInv
<1> QED
  BY <1>1, <1>2, MsgType DEF FramingInv

LEMMA FramingTake ==
  ASSUME FramingInv, NEW r \in Receivers, TakeMessage(r)
  PROVE  StreamInv' /\ FrontInv'
<1>1. PICK l \in Splits : \E k \in Taken(l), ok \in BOOLEAN :
        /\ consumed' = consumed + l
        /\ results' = Append(results,
             [msg |-> k, fd |-> IF ok THEN fdres[r] ELSE 0, ok |-> ok])
  BY DEF TakeMessage
<1>2. PICK k \in Taken(l), ok \in BOOLEAN :
        /\ consumed' = consumed + l
        /\ results' = Append(results,
             [msg |-> k, fd |-> IF ok THEN fdres[r] ELSE 0, ok |-> ok])
  BY <1>1
<1>3. /\ Len(results) < Len(msgs) /\ k = Len(results) + 1 /\ l = msgs[k].size
      /\ Complete(msgs[k])
  BY FrontWhole
<1>4. UNCHANGED <<msgs, cur, stopped, open, wrote>>
  BY DEF TakeMessage, sendVars
<1>5. /\ Len(results) \in Nat /\ Len(msgs) \in Nat /\ results \in Seq(Results)
  BY DEF FramingInv, TypeInv, TypeOK
<1>6. consumed' = StartOf(k + 1)
  <2>1. k \in 1..Len(msgs) /\ msgs[k].out = msgs[k].size
    BY <1>3, <1>5 DEF Complete
  <2>2. msgs[k].start + msgs[k].size = StartOf(k + 1)
    BY <2>1, Whole
  <2> QED
    BY <1>2, <1>3, <2>2, FrontIsNext
<1>7. /\ Len(results') = Len(results) + 1
      /\ \A i \in 1..Len(results) : results'[i] = results[i]
      /\ results'[Len(results) + 1].msg = k
  BY <1>2, <1>5
<1>8. StreamInv'
  BY <1>4 DEF FramingInv, StreamInv, Placed, Unfinished, StartOf
<1>9. FrontInv'
  <2>0. \A i \in 1..Len(results') : Complete(msgs'[i])
    BY <1>3, <1>4, <1>5, <1>7 DEF FramingInv, FrontInv
  <2>1. Len(results') <= Len(msgs')
    BY <1>3, <1>4, <1>5, <1>7
  <2>2. consumed' = StartOf(Len(results) + 1)'
    BY <1>3, <1>4, <1>5, <1>6, <1>7 DEF StartOf
  <2>3. Framing'
    BY <1>3, <1>5, <1>7 DEF FramingInv, FrontInv, Framing
  <2> QED
    BY <2>0, <2>1, <2>2, <2>3 DEF FrontInv, Complete
<1> QED
  BY <1>8, <1>9

LEMMA FramingStep ==
  ASSUME WholeSends, FreshHeaders
  PROVE  FramingInv /\ [Next]_vars => FramingInv'
<1> SUFFICES ASSUME FramingInv, [Next]_vars PROVE StreamInv' /\ FrontInv'
  BY TypeStep DEF FramingInv
<1>1. CASE /\ UNCHANGED <<msgs, cur, wrote, consumed, results>>
           /\ stopped \subseteq stopped'
           /\ open' = open \/ \A s \in Senders : cur[s] = 0
  <2>1. StreamInv'
    BY <1>1 DEF FramingInv, StreamInv, Placed, Unfinished, StartOf
  <2>2. FrontInv'
    BY <1>1 DEF FramingInv, FrontInv, Framing, StartOf, Complete
  <2> QED
    BY <2>1, <2>2
<1>3. ASSUME NEW s \in Senders, SendRejected(s)
      PROVE  UNCHANGED <<msgs, cur, wrote, consumed, results, open>> /\ stopped \subseteq stopped'
  BY <1>3 DEF SendRejected, OnError, recvVars
<1>4. ASSUME NEW r \in Receivers,
             RecvCall(r) \/ AwaitData(r) \/ RecvMsg(r) \/ RecvEof(r) \/ Cancel(r)
      PROVE  UNCHANGED <<msgs, cur, wrote, consumed, results, open, stopped>>
  BY <1>4 DEF RecvCall, AwaitData, RecvMsg, RecvEof, Cancel, sendVars
<1>5. CASE Close \/ Terminated \/ UNCHANGED vars
  BY <1>1, <1>5 DEF Close, Terminated, vars, sendVars, recvVars
<1> QED
  BY <1>1, <1>3, <1>4, <1>5, FramingSend, FramingMore, FramingShort, FramingTake
  DEF Next, SendStep, RecvStep

\* However many tasks receive, whatever the sizes of the buffers, and whether or not
\* calls are cancelled: recv_message returns the messages that were sent, each once,
\* whole and in order.  Where messages take several segments, only one task may send.
THEOREM FramingCorrect ==
  ASSUME WholeSends, FreshHeaders
  PROVE  Spec => []Framing
<1>1. FramingInv /\ [Next]_vars => FramingInv'
  BY FramingStep
<1>2. FramingInv => Framing
  BY DEF FramingInv, FrontInv
<1> QED
  BY FramingInit, <1>1, <1>2, PTL DEF Spec

-----------------------------------------------------------------------------
(* The end of the stream.  A receiver waits with the mutex held, so the      *)
(* buffer it found without a whole message is still the buffer it has when   *)
(* recvmsg returns 0.                                                        *)

WaitInv ==
  /\ \A r, o \in Receivers : rpc[r] = "await" /\ rpc[o] = "await" => r = o
  /\ \A r \in Receivers :
       rpc[r] = "await" /\ Len(results) < Len(msgs)
         => read - consumed < msgs[Len(results) + 1].size
  /\ \A r \in Receivers : rpc[r] = "done" =>
       /\ ~open /\ read = wrote
       /\ \A k \in 1..Len(msgs) : Complete(msgs[k]) => k <= Len(results)

EndInv == FramingInv /\ WaitInv

LEMMA EndInit == Init => EndInv
BY FramingInit DEF Init, EndInv, WaitInv

LEMMA EndSend ==
  ASSUME FreshHeaders, EndInv, NEW s \in Senders, SendMessage(s)
  PROVE  WaitInv'
<1>1. PICK m \in Frames :
           /\ msgs' = Append(msgs, m)
           /\ m.size >= HeaderLen
           /\ UNCHANGED <<open, read, consumed, rpc, fdres, results>>
  BY SendFrame DEF EndInv, FramingInv
<1>2. /\ msgs \in Seq(Frames) /\ Len(msgs) \in Nat /\ Len(results) \in Nat
      /\ Len(results) <= Len(msgs) /\ m.size \in Nat /\ HeaderLen \in Nat \ {0}
      /\ consumed \in Nat /\ read \in Nat /\ wrote \in Nat
      /\ consumed <= read /\ read <= wrote
  BY ImsgAssumption
  DEF EndInv, FramingInv, FrontInv, TypeInv, TypeOK, Frames
<1>3. open
  BY DEF SendMessage, Ready
<1>4. ASSUME NEW r \in Receivers, rpc[r] = "await"
      PROVE  read - consumed < msgs'[Len(results) + 1].size
  <2>1. CASE Len(results) < Len(msgs)
    <3>1. msgs'[Len(results) + 1] = msgs[Len(results) + 1]
      BY <1>1, <1>2, <2>1
    <3> QED
      BY <1>4, <2>1, <3>1 DEF EndInv, WaitInv
  <2>2. CASE Len(results) = Len(msgs)
    <3>1. msgs'[Len(results) + 1] = m
      BY <1>1, <1>2, <2>2
    <3>2. consumed = wrote
      BY <1>2, <2>2 DEF EndInv, FramingInv, FrontInv, StartOf
    <3> QED
      BY <1>1, <1>2, <3>1, <3>2
  <2> QED
    BY <1>2, <2>1, <2>2
<1> QED
  BY <1>1, <1>3, <1>4 DEF EndInv, WaitInv

LEMMA EndMore ==
  ASSUME EndInv, NEW s \in Senders, SendMore(s)
  PROVE  WaitInv'
<1>1. open /\ cur[s] \in 1..Len(msgs) /\ cur[s] # 0
  BY DEF SendMore, EndInv, FramingInv, StreamInv, TypeInv, TypeOK
<1>2. UNCHANGED <<open, read, consumed, rpc, results>>
  BY DEF SendMore, recvVars
<1>3. Len(msgs') = Len(msgs) /\ \A k \in 1..Len(msgs) : msgs'[k].size = msgs[k].size
  BY <1>1, MoreKeeps DEF EndInv, FramingInv
<1>4. Len(results) < Len(msgs) => Len(results) + 1 \in 1..Len(msgs)
  BY DEF EndInv, FramingInv, TypeInv, TypeOK
<1> QED
  BY <1>1, <1>2, <1>3, <1>4 DEF EndInv, WaitInv

LEMMA EndTake ==
  ASSUME EndInv, NEW r \in Receivers, TakeMessage(r)
  PROVE  WaitInv'
<1>1. PICK l \in Splits : Taken(l) # {}
  BY DEF TakeMessage
<1> DEFINE c == Len(results) + 1
<1>2. c \in 1..Len(msgs) /\ Complete(msgs[c]) /\ ~(c <= Len(results))
  BY <1>1, FrontWhole DEF EndInv, FramingInv, TypeInv, TypeOK
<1>3. \A o \in Receivers : rpc[o] # "done"
  BY <1>2 DEF EndInv, WaitInv
<1>4. rpc' = [rpc EXCEPT ![r] = "idle"] /\ \A o \in Receivers : rpc[o] # "await"
  BY DEF TakeMessage, LockFree
<1>5. \A o \in Receivers : rpc'[o] # "await" /\ rpc'[o] # "done"
  BY <1>3, <1>4 DEF EndInv, FramingInv, TypeInv, TypeOK
<1> QED
  BY <1>5 DEF WaitInv

LEMMA EndAwait ==
  ASSUME EndInv, NEW r \in Receivers, AwaitData(r)
  PROVE  WaitInv'
<1>1. /\ rpc' = [rpc EXCEPT ![r] = "await"] /\ \A o \in Receivers : rpc[o] # "await"
      /\ UNCHANGED <<msgs, open, wrote, read, consumed, results>>
  BY DEF AwaitData, LockFree, sendVars
<1>2. ASSUME Len(results) < Len(msgs)
      PROVE  read - consumed < msgs[Len(results) + 1].size
  <2> DEFINE c == Len(results) + 1
  <2>1. c \in 1..Len(msgs)
    BY <1>2 DEF EndInv, FramingInv, TypeInv, TypeOK
  <2>2. msgs[c].size \in Nat /\ msgs[c].size >= HeaderLen
    BY <2>1, MsgType DEF EndInv, FramingInv, StreamInv, Placed
  <2>3. msgs[c].size \notin Splits /\ msgs[c].size \in LenAtFront
    BY <1>2, FrontIsNext DEF AwaitData, EndInv
  <2>4. ~(read - consumed >= HeaderLen /\ read - consumed >= msgs[c].size)
    BY <2>3 DEF Splits
  <2> QED
    BY <2>2, <2>4, ImsgAssumption DEF EndInv, FramingInv, TypeInv, TypeOK
<1>3. \A o \in Receivers : rpc'[o] = "await" => o = r
  BY <1>1 DEF EndInv, FramingInv, TypeInv, TypeOK
<1>4. \A o \in Receivers : rpc'[o] = "done" => rpc[o] = "done"
  BY <1>1 DEF EndInv, FramingInv, TypeInv, TypeOK
<1> QED
  BY <1>1, <1>2, <1>3, <1>4 DEF EndInv, WaitInv

LEMMA EndRecv ==
  ASSUME EndInv, NEW r \in Receivers, RecvMsg(r)
  PROVE  WaitInv'
<1>1. PICK n \in Readable : TRUE
  BY DEF RecvMsg
<1>2. read # wrote
  BY <1>1, ImsgAssumption DEF Readable, Min2, EndInv, FramingInv, TypeInv, TypeOK
<1>3. \A o \in Receivers : rpc[o] # "done"
  BY <1>2 DEF EndInv, WaitInv
<1>4. rpc' = [rpc EXCEPT ![r] = "lock"] /\ rpc[r] = "await"
  BY DEF RecvMsg
<1>5. \A o \in Receivers : rpc'[o] # "done" /\ rpc'[o] # "await"
  BY <1>3, <1>4 DEF EndInv, WaitInv, FramingInv, TypeInv, TypeOK
<1> QED
  BY <1>5 DEF WaitInv

LEMMA EndEof ==
  ASSUME EndInv, NEW r \in Receivers, RecvEof(r)
  PROVE  WaitInv'
<1>1. /\ rpc[r] = "await" /\ ~open /\ read = wrote
      /\ rpc' = [rpc EXCEPT ![r] = "done"]
      /\ UNCHANGED <<msgs, open, wrote, read, consumed, results>>
  BY DEF RecvEof, sendVars
<1>2. ASSUME NEW k \in 1..Len(msgs), Complete(msgs[k]) PROVE k <= Len(results)
  <2> SUFFICES ASSUME Len(results) < k PROVE FALSE
    BY DEF EndInv, FramingInv, TypeInv, TypeOK
  <2> DEFINE c == Len(results) + 1
  <2>1. c \in 1..Len(msgs) /\ Len(results) < Len(msgs) /\ (c = k \/ c < Len(msgs))
    BY DEF EndInv, FramingInv, TypeInv, TypeOK
  <2>2. /\ msgs[c].start \in Nat /\ msgs[c].size \in Nat
        /\ msgs[c].start + msgs[c].size <= wrote
    BY <1>2, <2>1, MsgType, Whole DEF EndInv, FramingInv, Complete
  <2>3. consumed = msgs[c].start
    BY <2>1, FrontIsNext DEF EndInv
  <2>4. read - consumed < msgs[c].size
    BY <1>1, <2>1 DEF EndInv, WaitInv
  <2> QED
    BY <1>1, <2>2, <2>3, <2>4 DEF EndInv, FramingInv, TypeInv, TypeOK
<1>3. \A o \in Receivers : /\ rpc'[o] = "await" => rpc[o] = "await"
                           /\ rpc'[o] = "done" => o = r \/ rpc[o] = "done"
  BY <1>1 DEF EndInv, FramingInv, TypeInv, TypeOK
<1> QED
  BY <1>1, <1>2, <1>3 DEF EndInv, WaitInv

LEMMA EndStep ==
  ASSUME WholeSends, FreshHeaders
  PROVE  EndInv /\ [Next]_vars => EndInv'
<1> SUFFICES ASSUME EndInv, [Next]_vars PROVE WaitInv'
  BY FramingStep DEF EndInv
<1>2. ASSUME NEW s \in Senders, SendRejected(s) \/ ShortWrite(s) PROVE WaitInv'
  BY <1>2 DEF SendRejected, ShortWrite, recvVars, EndInv, WaitInv, Complete
<1>3. CASE Close
  BY <1>3 DEF Close, recvVars, EndInv, WaitInv, Complete
<1>4. ASSUME NEW r \in Receivers, RecvCall(r) \/ Cancel(r) PROVE WaitInv'
  <2>1. /\ UNCHANGED <<msgs, open, wrote, read, consumed, results>>
        /\ rpc' = [rpc EXCEPT ![r] = "lock"] \/ rpc' = [rpc EXCEPT ![r] = "idle"]
    BY <1>4 DEF RecvCall, Cancel, sendVars
  <2>2. \A o \in Receivers : /\ rpc'[o] = "await" => rpc[o] = "await"
                             /\ rpc'[o] = "done" => rpc[o] = "done"
    BY <2>1 DEF EndInv, FramingInv, TypeInv, TypeOK
  <2> QED
    BY <2>1, <2>2 DEF EndInv, WaitInv, Complete
<1>5. CASE Terminated \/ UNCHANGED vars
  BY <1>5 DEF Terminated, vars, sendVars, recvVars, EndInv, WaitInv, Complete
<1> QED
  BY <1>2, <1>3, <1>4, <1>5, EndSend, EndMore, EndTake, EndAwait, EndRecv, EndEof
  DEF Next, SendStep, RecvStep

\* When recv_message reports the end of the stream to any receiver, every message that
\* was sent completely has been returned, to it or to another.
THEOREM EndCorrect ==
  ASSUME WholeSends, FreshHeaders
  PROVE  Spec => []EofAfterAll
<1>1. EndInv /\ [Next]_vars => EndInv'
  BY EndStep
<1>2. EndInv => EofAfterAll
  BY DEF EndInv, WaitInv, EofAfterAll
<1> QED
  BY EndInit, <1>1, <1>2, PTL DEF Spec

-----------------------------------------------------------------------------
(* Descriptors.  The traffic of this repository sends all its descriptors    *)
(* before its first message without one (the connect messages come before    *)
(* anything else), and one call at a time receives.  The kernel then never   *)
(* joins a segment with a descriptor to an earlier message.                  *)

\* No descriptor after a message without one; one receiver, which may drop its
\* calls; a segment fits the read buffer.
FdsFirst ==
  /\ FdFirst
  /\ \A r, o \in Receivers : r = o
  /\ SkbMax <= BufLen

\* The descriptor of the next message to return has been read.
NextFdRead ==
  /\ Len(results) < Len(msgs)
  /\ msgs[Len(results) + 1].fd
  /\ msgs[Len(results) + 1].start < read

FdInv ==
  /\ \A k \in 1..Len(msgs) : msgs[k].size <= SkbMax
  /\ \A j, k \in 1..Len(msgs) : j < k /\ msgs[k].fd => msgs[j].fd
  /\ \A k \in 1..Len(msgs) : msgs[k].fd =>
       read <= msgs[k].start \/ msgs[k].start + msgs[k].size <= read
  /\ \A k \in 1..Len(msgs) :
       msgs[k].fd /\ Len(results) + 1 < k => read <= msgs[k].start
  /\ \A r \in Receivers : fdres[r] = IF NextFdRead THEN Len(results) + 1 ELSE 0
  /\ FdWithMessage

ChannelInv == EndInv /\ FdInv

LEMMA Ordered ==
  ASSUME FramingInv, NEW j \in 1..Len(msgs), NEW k \in 1..Len(msgs), j < k
  PROVE  /\ msgs[j].start + msgs[j].size <= msgs[k].start
         /\ msgs[j].start < msgs[k].start
<1>1. j + 1 \in 1..Len(msgs) /\ (j + 1 = k \/ j + 1 < k)
  BY DEF FramingInv, TypeInv, TypeOK
<1>2. msgs[j].start + msgs[j].size = msgs[j + 1].start
  <2>1. j < Len(msgs) /\ j + 1 <= Len(msgs)
    BY DEF FramingInv, TypeInv, TypeOK
  <2>2. msgs[j].start + msgs[j].size = StartOf(j + 1)
    BY <2>1, Whole
  <2> QED
    BY <2>1, <2>2 DEF StartOf
<1>3. {msgs[j + 1].start, msgs[k].start, msgs[j].start, msgs[j].size} \subseteq Nat
  BY <1>1, MsgType DEF FramingInv
<1>4. msgs[j].start < msgs[k].start
  BY DEF FramingInv, StreamInv
<1>5. j + 1 < k => msgs[j + 1].start < msgs[k].start
  BY <1>1 DEF FramingInv, StreamInv
<1> QED
  BY <1>1, <1>2, <1>3, <1>4, <1>5

LEMMA FdInit == Init => ChannelInv
BY EndInit DEF Init, ChannelInv, FdInv, NextFdRead, FdWithMessage

LEMMA FdSend ==
  ASSUME OneSegment, FreshHeaders, FdsFirst, ChannelInv, NEW s \in Senders, SendMessage(s)
  PROVE  FdInv'
<1>1. PICK m \in Frames :
           /\ msgs' = Append(msgs, m)
           /\ m.start = wrote
           /\ m.size >= HeaderLen /\ m.size <= SkbMax
           /\ FdAllowed(m.fd)
           /\ UNCHANGED <<cur, open, read, consumed, rpc, fdres, results>>
  BY SendWhole DEF ChannelInv, EndInv, FramingInv
<1>2. /\ msgs \in Seq(Frames) /\ Len(msgs) \in Nat /\ Len(results) \in Nat
      /\ Len(results) <= Len(msgs)
      /\ read \in Nat /\ wrote \in Nat /\ read <= wrote
  BY DEF ChannelInv, EndInv, FramingInv, FrontInv, TypeInv, TypeOK
<1>3. /\ Len(msgs') = Len(msgs) + 1
      /\ \A k \in 1..Len(msgs) : msgs'[k] = msgs[k]
      /\ msgs'[Len(msgs) + 1] = m
      /\ \A k \in 1..Len(msgs') : k \in 1..Len(msgs) \/ k = Len(msgs) + 1
  BY <1>1, <1>2
<1>4. \A k \in 1..Len(msgs') : msgs'[k].size <= SkbMax
  BY <1>1, <1>3 DEF ChannelInv, FdInv
<1>5. ASSUME NEW j \in 1..Len(msgs'), NEW k \in 1..Len(msgs'), j < k, msgs'[k].fd
      PROVE  msgs'[j].fd
  <2>1. j \in 1..Len(msgs)
    BY <1>2, <1>3, <1>5
  <2>2. CASE k \in 1..Len(msgs)
    BY <1>3, <1>5, <2>1, <2>2 DEF ChannelInv, FdInv
  <2>3. CASE k = Len(msgs) + 1
    BY <1>1, <1>3, <1>5, <2>1, <2>3 DEF FdsFirst, FdAllowed
  <2> QED
    BY <1>3, <2>2, <2>3
<1>6. ASSUME NEW k \in 1..Len(msgs'), msgs'[k].fd
      PROVE  /\ read <= msgs'[k].start \/ msgs'[k].start + msgs'[k].size <= read
             /\ Len(results) + 1 < k => read <= msgs'[k].start
  <2>1. CASE k \in 1..Len(msgs)
    BY <1>3, <1>6, <2>1 DEF ChannelInv, FdInv
  <2>2. CASE k = Len(msgs) + 1
    BY <1>1, <1>2, <1>3, <2>2
  <2> QED
    BY <1>3, <2>1, <2>2
<1>7. NextFdRead' <=> NextFdRead
  <2>1. CASE Len(results) < Len(msgs)
    <3>1. msgs'[Len(results) + 1] = msgs[Len(results) + 1]
      BY <1>2, <1>3, <2>1
    <3> QED
      BY <1>1, <1>2, <1>3, <2>1, <3>1 DEF NextFdRead
  <2>2. CASE Len(results) = Len(msgs)
    <3>1. msgs'[Len(results) + 1].start = wrote
      BY <1>1, <1>3, <2>2
    <3> QED
      BY <1>1, <1>2, <2>2, <3>1 DEF NextFdRead
  <2> QED
    BY <1>2, <2>1, <2>2
<1>8. FdWithMessage'
  <2>1. ASSUME NEW i \in 1..Len(results) PROVE msgs'[i].fd = msgs[i].fd
    BY <1>2, <1>3
  <2> QED
    BY <1>1, <2>1 DEF ChannelInv, FdInv, FdWithMessage
<1> QED
  BY <1>1, <1>4, <1>5, <1>6, <1>7, <1>8 DEF ChannelInv, FdInv

\* A message that does decode is taken with the descriptor it was sent with.
LEMMA FdTake ==
  ASSUME FdsFirst, ChannelInv, NEW r \in Receivers, TakeMessage(r)
  PROVE  FdInv'
<1>1. PICK l \in Splits : \E k \in Taken(l), ok \in BOOLEAN :
        results' = Append(results,
             [msg |-> k, fd |-> IF ok THEN fdres[r] ELSE 0, ok |-> ok])
  BY DEF TakeMessage
<1>2. PICK k \in Taken(l), ok \in BOOLEAN :
        results' = Append(results,
             [msg |-> k, fd |-> IF ok THEN fdres[r] ELSE 0, ok |-> ok])
  BY <1>1
<1>3. Len(results) < Len(msgs) /\ k = Len(results) + 1 /\ l = msgs[k].size
  BY FrontWhole DEF ChannelInv, EndInv
<1>4. UNCHANGED <<msgs, read>> /\ fdres' = [fdres EXCEPT ![r] = 0]
  BY DEF TakeMessage, Released, sendVars
<1>5. /\ Len(results) \in Nat /\ Len(msgs) \in Nat /\ results \in Seq(Results)
      /\ fdres \in [Receivers -> Nat] /\ k \in 1..Len(msgs)
  BY <1>3 DEF ChannelInv, EndInv, FramingInv, TypeInv, TypeOK
<1>6. /\ Len(results') = Len(results) + 1
      /\ \A i \in 1..Len(results) : results'[i] = results[i]
      /\ results'[k].fd = (IF ok THEN fdres[r] ELSE 0) /\ results'[k].ok = ok
      /\ \A i \in 1..Len(results') : i \in 1..Len(results) \/ i = k
  BY <1>2, <1>3, <1>5
<1>7. fdres[r] = IF msgs[k].fd THEN k ELSE 0
  <2>1. read - consumed >= HeaderLen /\ consumed = msgs[k].start
    BY <1>3, FrontIsNext DEF Splits, ChannelInv, EndInv
  <2>2. msgs[k].start < read
    BY <2>1, ImsgAssumption DEF ChannelInv, EndInv, FramingInv, TypeInv, TypeOK
  <2> QED
    BY <1>3, <2>2 DEF ChannelInv, FdInv, NextFdRead
<1>8. FdWithMessage'
  BY <1>4, <1>5, <1>6, <1>7 DEF ChannelInv, FdInv, FdWithMessage
<1>9. ~NextFdRead'
  <2>1. CASE Len(results) + 1 < Len(msgs)
    <3> DEFINE d == Len(results) + 2
    <3>1. d \in 1..Len(msgs) /\ Len(results) + 1 < d /\ Len(results') + 1 = d
      BY <1>5, <1>6, <2>1
    <3>2. msgs[d].fd => read <= msgs[d].start
      BY <3>1 DEF ChannelInv, FdInv
    <3>3. read \in Nat /\ msgs[d].start \in Nat
      BY <3>1, MsgType DEF ChannelInv, EndInv, FramingInv, TypeInv, TypeOK
    <3> QED
      BY <1>4, <3>1, <3>2, <3>3 DEF NextFdRead
  <2>2. CASE ~(Len(results) + 1 < Len(msgs))
    BY <1>4, <1>6, <2>2 DEF NextFdRead
  <2> QED
    BY <2>1, <2>2
<1>10. \A o \in Receivers : fdres'[o] = 0
  BY <1>4, <1>5 DEF FdsFirst
<1>11. \A j \in 1..Len(msgs) :
         msgs[j].fd /\ Len(results') + 1 < j => read <= msgs[j].start
  BY <1>5, <1>6 DEF ChannelInv, FdInv
<1> QED
  BY <1>4, <1>8, <1>9, <1>10, <1>11 DEF ChannelInv, FdInv

LEMMA FdRecv ==
  ASSUME OneSegment, FdsFirst, ChannelInv, NEW r \in Receivers, RecvMsg(r)
  PROVE  FdInv'
<1> DEFINE c == Len(results) + 1
           end(k) == msgs[k].start + msgs[k].size
<1>1. PICK n \in Readable :
        /\ read' = read + n
        /\ \/ Arrived(n) = {} /\ UNCHANGED fdres
           \/ \E k \in Arrived(n) : fdres' = [fdres EXCEPT ![r] = KeepFirst(r, k)]
  BY DEF RecvMsg
<1>2. rpc[r] = "await" /\ UNCHANGED <<msgs, results>>
  BY DEF RecvMsg, sendVars
<1>3. /\ Len(msgs) \in Nat /\ Len(results) \in Nat /\ c \in Nat
      /\ consumed \in Nat /\ read \in Nat /\ wrote \in Nat
      /\ consumed <= read /\ read <= wrote
      /\ BufLen \in Nat \ {0} /\ SkbMax \in Nat \ {0} /\ SkbMax <= BufLen
      /\ HeaderLen \in Nat \ {0}
      /\ fdres \in [Receivers -> Nat] /\ Len(results) <= Len(msgs)
  BY ImsgAssumption
  DEF FdsFirst, ChannelInv, EndInv, FramingInv, FrontInv, TypeInv, TypeOK
<1>4. n \in Nat \ {0} /\ n <= wrote - read /\ n <= BufLen
  BY <1>3 DEF Readable, Min2
<1>5. Len(results) < Len(msgs) /\ c \in 1..Len(msgs)
  <2>1. Len(results) # Len(msgs)
    BY <1>3, <1>4 DEF ChannelInv, EndInv, FramingInv, FrontInv, StartOf
  <2> QED
    BY <1>3, <2>1
<1>6. /\ consumed = msgs[c].start /\ read < end(c)
      /\ msgs[c].start \in Nat /\ msgs[c].size \in Nat
      /\ msgs[c].size <= SkbMax /\ end(c) <= wrote
  <2>1. consumed = msgs[c].start
    BY <1>5, FrontIsNext DEF ChannelInv, EndInv
  <2>2. msgs[c].start \in Nat /\ msgs[c].size \in Nat
    BY <1>5, MsgType DEF ChannelInv, EndInv, FramingInv
  <2>3. read - consumed < msgs[c].size
    BY <1>2, <1>5 DEF ChannelInv, EndInv, WaitInv
  <2>4. end(c) <= wrote
    BY <1>5, Whole DEF ChannelInv, EndInv
  <2> QED
    BY <1>3, <1>5, <2>1, <2>2, <2>3, <2>4 DEF ChannelInv, FdInv
<1>7. ASSUME NEW k \in 1..Len(msgs)
      PROVE  /\ msgs[k].start \in Nat /\ msgs[k].size \in Nat /\ msgs[k].size > 0
             /\ Cut(k) = end(k)
             /\ k < c => end(k) <= consumed /\ msgs[k].start < read
             /\ c < k => end(c) <= msgs[k].start
  <2>1. msgs[k].start \in Nat /\ msgs[k].size \in Nat
    BY MsgType DEF ChannelInv, EndInv, FramingInv
  <2>2. msgs[k].size > 0
    BY <1>3, <2>1 DEF ChannelInv, EndInv, FramingInv, StreamInv, Placed
  <2>3. Cut(k) = end(k)
    BY <1>3, <2>1 DEF Cut, Min2, ChannelInv, FdInv
  <2>4. k < c => end(k) <= consumed /\ msgs[k].start < consumed
    BY <1>5, <1>6, Ordered DEF ChannelInv, EndInv
  <2>5. c < k => end(c) <= msgs[k].start
    BY <1>5, Ordered DEF ChannelInv, EndInv
  <2> QED
    BY <1>3, <2>1, <2>2, <2>3, <2>4, <2>5
<1>8. \A k \in Pending : k \in 1..Len(msgs) /\ msgs[k].fd /\ read <= msgs[k].start /\ c <= k
  BY <1>3, <1>5, <1>7 DEF Pending
<1>9. CASE ~msgs[c].fd
  <2>1. \A k \in 1..Len(msgs) : msgs[k].fd => k < c
    BY <1>3, <1>5, <1>9 DEF ChannelInv, FdInv
  <2>2. Arrived(n) = {}
    BY <1>3, <1>8, <2>1 DEF Arrived
  <2>3. UNCHANGED fdres
    BY <1>1, <2>2
  <2>4. \A k \in 1..Len(msgs) : msgs[k].fd => end(k) <= read'
    BY <1>1, <1>3, <1>4, <1>7, <2>1
  <2>5. ~NextFdRead /\ ~NextFdRead'
    BY <1>2, <1>9 DEF NextFdRead
  <2>6. \A k \in 1..Len(msgs) :
          msgs[k].fd /\ Len(results) + 1 < k => read' <= msgs[k].start
    BY <1>3, <2>1
  <2> QED
    BY <1>2, <2>3, <2>4, <2>5, <2>6 DEF ChannelInv, FdInv, FdWithMessage
<1>10. CASE msgs[c].fd
  <2>1. read = consumed /\ c \in Pending
    BY <1>3, <1>5, <1>6, <1>10 DEF ChannelInv, FdInv, Pending
  <2>2. read + n <= end(c)
    BY <1>5, <1>7, <2>1 DEF Readable
  <2>3. Arrived(n) = {c}
    <3>1. \A k \in Arrived(n) : k = c
      <4> SUFFICES ASSUME NEW k \in Arrived(n), c < k PROVE FALSE
        BY <1>3, <1>8 DEF Arrived
      <4>1. k \in 1..Len(msgs) /\ msgs[k].start < read + n
        BY <1>8 DEF Arrived
      <4>2. msgs[k].start \in Nat /\ end(c) <= msgs[k].start /\ end(c) \in Nat
        BY <1>6, <1>7, <4>1
      <4> HIDE DEF end
      <4> QED
        BY <1>3, <1>4, <2>2, <4>1, <4>2
    <3>2. c \in Arrived(n)
      BY <1>3, <1>4, <1>6, <2>1 DEF Arrived
    <3> QED
      BY <3>1, <3>2
  <2>4. read + n = end(c)
    <3>1. CASE n = Min2(BufLen, wrote - read)
      <4>1. n = BufLen \/ n = wrote - read
        BY <3>1 DEF Min2
      <4> DEFINE st == msgs[c].start
                 sz == msgs[c].size
      <4>2. /\ st \in Nat /\ sz \in Nat /\ read = st /\ sz <= SkbMax
            /\ st + sz <= wrote /\ read + n <= st + sz
        BY <1>6, <2>1, <2>2
      <4> HIDE DEF st, sz
      <4>3. ASSUME n = BufLen PROVE read + n = st + sz
        BY <1>3, <4>2, <4>3
      <4>4. ASSUME n = wrote - read PROVE read + n = st + sz
        BY <1>3, <1>4, <4>2, <4>4
      <4>5. read + n = st + sz
        BY <4>1, <4>3, <4>4
      <4> QED
        BY <4>5 DEF st, sz
    <3>2. CASE \E k \in Pending : read + n = Cut(k)
      <4>1. PICK k \in Pending : read + n = Cut(k)
        BY <3>2
      <4>2. CASE k = c
        BY <1>5, <1>7, <4>1, <4>2
      <4>3. CASE c < k
        <5>1. k \in 1..Len(msgs)
          BY <1>8, <4>1
        <5>2. /\ msgs[k].start \in Nat /\ msgs[k].size \in Nat /\ msgs[k].size > 0
              /\ end(c) <= msgs[k].start /\ read + n = end(k)
          BY <1>7, <4>1, <4>3, <5>1
        <5>3. end(c) \in Nat /\ end(k) > msgs[k].start
          BY <1>6, <5>2
        <5> HIDE DEF end
        <5> QED
          BY <1>3, <1>4, <2>2, <5>2, <5>3
      <4> QED
        BY <1>3, <1>8, <4>1, <4>2, <4>3
    <3> QED
      BY <3>1, <3>2 DEF Readable
  <2>5. ~NextFdRead
    BY <1>6, <2>1 DEF NextFdRead
  <2>6. fdres' = [fdres EXCEPT ![r] = c]
    BY <1>1, <2>3, <2>5 DEF KeepFirst, ChannelInv, FdInv
  <2>7. \A o \in Receivers : fdres'[o] = c
    BY <1>3, <2>6 DEF FdsFirst
  <2>8. NextFdRead'
    BY <1>1, <1>2, <1>3, <1>4, <1>5, <1>6, <1>10, <2>1 DEF NextFdRead
  <2>9. \A k \in 1..Len(msgs) : c < k => read' <= msgs[k].start
    BY <1>1, <1>7, <2>4
  <2>10. \A k \in 1..Len(msgs) : read' <= msgs[k].start \/ end(k) <= read'
    <3> SUFFICES ASSUME NEW k \in 1..Len(msgs)
                 PROVE  read' <= msgs[k].start \/ end(k) <= read'
      OBVIOUS
    <3>1. CASE c < k
      BY <2>9, <3>1
    <3>2. CASE k = c
      BY <1>1, <1>3, <1>4, <1>6, <2>4, <3>2
    <3>3. CASE k < c
      <4>1. end(k) <= consumed /\ msgs[k].start \in Nat /\ msgs[k].size \in Nat
        BY <1>7, <3>3
      <4> QED
        BY <1>1, <1>3, <1>4, <4>1
    <3> QED
      BY <1>3, <3>1, <3>2, <3>3
  <2> QED
    BY <1>2, <2>7, <2>8, <2>9, <2>10 DEF ChannelInv, FdInv, FdWithMessage
<1> QED
  BY <1>9, <1>10

\* A call that waits holds no descriptor: its message came with it, so that there
\* is none to lose when the call is dropped.
LEMMA AwaitNoFd ==
  ASSUME ChannelInv, NEW r \in Receivers, rpc[r] = "await"
  PROVE  ~NextFdRead
<1> SUFFICES ASSUME NextFdRead PROVE FALSE
  OBVIOUS
<1> DEFINE c == Len(results) + 1
<1>1. c \in 1..Len(msgs) /\ Len(results) < Len(msgs)
  BY DEF NextFdRead, ChannelInv, EndInv, FramingInv, TypeInv, TypeOK
<1>2. msgs[c].start \in Nat /\ msgs[c].size \in Nat /\ read \in Nat
  BY <1>1, MsgType DEF ChannelInv, EndInv, FramingInv, TypeInv, TypeOK
<1>3. msgs[c].start + msgs[c].size <= read
  BY <1>1, <1>2 DEF NextFdRead, ChannelInv, FdInv
<1>4. consumed = msgs[c].start /\ read - consumed < msgs[c].size
  BY <1>1, FrontIsNext DEF ChannelInv, EndInv, WaitInv
<1> QED
  BY <1>2, <1>3, <1>4

LEMMA FdStep ==
  ASSUME OneSegment, FreshHeaders, FdsFirst
  PROVE  ChannelInv /\ [Next]_vars => ChannelInv'
<1> SUFFICES ASSUME ChannelInv, [Next]_vars PROVE FdInv'
  BY EndStep DEF ChannelInv, WholeSends
<1>1. CASE UNCHANGED <<msgs, read, fdres, results>>
  BY <1>1 DEF ChannelInv, FdInv, NextFdRead, FdWithMessage
<1>2. ASSUME NEW s \in Senders PROVE ~SendMore(s) /\ ~ShortWrite(s)
  BY NoMore DEF ChannelInv, EndInv
<1>3. ASSUME NEW s \in Senders, SendRejected(s)
      PROVE  UNCHANGED <<msgs, read, fdres, results>>
  BY <1>3 DEF SendRejected, recvVars
<1>4. ASSUME NEW r \in Receivers, RecvCall(r) \/ AwaitData(r)
      PROVE  UNCHANGED <<msgs, read, fdres, results>>
  BY <1>4 DEF RecvCall, AwaitData, sendVars
<1>5. ASSUME NEW r \in Receivers, RecvEof(r) PROVE FdInv'
  <2>1. WaitInv'
    BY EndEof, <1>5 DEF ChannelInv
  <2>2. /\ UNCHANGED <<msgs, read, results>> /\ fdres' = [fdres EXCEPT ![r] = 0]
        /\ rpc' = [rpc EXCEPT ![r] = "done"]
    BY <1>5 DEF RecvEof, Released, sendVars
  <2>3. Len(results) = Len(msgs)
    <3>1. /\ Len(results) \in Nat /\ Len(msgs) \in Nat /\ Len(results) <= Len(msgs)
          /\ rpc'[r] = "done"
      BY <2>2 DEF ChannelInv, EndInv, FramingInv, FrontInv, TypeInv, TypeOK
    <3>2. \A k \in 1..Len(msgs) : Complete(msgs[k])
      BY Whole DEF ChannelInv, EndInv
    <3>3. \A k \in 1..Len(msgs) : k <= Len(results)
      BY <2>1, <2>2, <3>1, <3>2 DEF WaitInv, Complete
    <3>4. Len(msgs) # 0 => Len(msgs) \in 1..Len(msgs)
      BY <3>1
    <3> QED
      BY <3>1, <3>3, <3>4
  <2>4. ~NextFdRead /\ ~NextFdRead'
    BY <2>2, <2>3 DEF NextFdRead, ChannelInv, EndInv, FramingInv, TypeInv, TypeOK
  <2>5. \A o \in Receivers : fdres'[o] = 0
    BY <2>2 DEF FdsFirst, ChannelInv, EndInv, FramingInv, TypeInv, TypeOK
  <2> QED
    BY <2>2, <2>4, <2>5 DEF ChannelInv, FdInv, FdWithMessage
<1>6. ASSUME NEW r \in Receivers, Cancel(r) PROVE FdInv'
  <2>1. /\ UNCHANGED <<msgs, read, results>> /\ fdres' = [fdres EXCEPT ![r] = 0]
        /\ rpc[r] = "await"
    BY <1>6 DEF Cancel, Released, sendVars
  <2>2. ~NextFdRead
    BY <2>1, AwaitNoFd
  <2>3. ~NextFdRead'
    BY <2>1, <2>2 DEF NextFdRead
  <2>4. \A o \in Receivers : fdres'[o] = 0
    BY <2>1 DEF FdsFirst, ChannelInv, EndInv, FramingInv, TypeInv, TypeOK
  <2> QED
    BY <2>1, <2>3, <2>4 DEF ChannelInv, FdInv, FdWithMessage
<1>7. CASE Close \/ Terminated \/ UNCHANGED vars
  BY <1>1, <1>7 DEF Close, Terminated, vars, sendVars, recvVars
<1> QED
  BY <1>1, <1>2, <1>3, <1>4, <1>5, <1>6, <1>7, FdSend, FdTake, FdRecv
  DEF Next, SendStep, RecvStep

\* Where descriptors come first and one task receives, every message that
\* decodes is returned with the descriptor it was sent with, and no other.
THEOREM FdCorrect ==
  ASSUME OneSegment, FreshHeaders, FdsFirst
  PROVE  Spec => []FdWithMessage
<1>1. ChannelInv /\ [Next]_vars => ChannelInv'
  BY FdStep
<1>2. ChannelInv => FdWithMessage
  BY DEF ChannelInv, FdInv
<1> QED
  BY FdInit, <1>1, <1>2, PTL DEF Spec

-----------------------------------------------------------------------------
(* The abstract channel. *)

\* What Channel's variables stand for, and what one more message adds to them.
SentOf(k) == [msg |-> k, fd |-> IF msgs[k].fd THEN k ELSE 0]
GotOf(i) ==
  IF results[i].ok THEN [msg |-> results[i].msg, fd |-> results[i].fd] ELSE Lost

Sent == [k \in 1..Len(msgs) |-> SentOf(k)]
Got == [i \in 1..Len(results) |-> GotOf(i)]

Items == [msg : Nat, fd : Nat]

LEMMA SentGotType ==
  ASSUME TypeInv
  PROVE  /\ Sent \in Seq(Items) /\ Len(Sent) = Len(msgs)
         /\ Got \in Seq(Items) /\ Len(Got) = Len(results)
<1>1. Len(msgs) \in Nat /\ Len(results) \in Nat /\ results \in Seq(Results)
  BY DEF TypeInv, TypeOK
<1>2. \A k \in 1..Len(msgs) : SentOf(k) \in Items
  BY DEF SentOf, Items
<1>3. \A i \in 1..Len(results) : results[i].msg \in Nat /\ results[i].fd \in Nat
  <2>1. \A i \in 1..Len(results) : results[i] \in Results
    BY <1>1
  <2> QED
    BY <2>1 DEF Results
<1>4. \A i \in 1..Len(results) : GotOf(i) \in Items
  BY <1>3 DEF GotOf, Lost, Items
<1> QED
  BY <1>1, <1>2, <1>4 DEF Sent, Got

\* A sequence that extends another by one element is that one with it appended.
LEMMA OneMore ==
  ASSUME NEW S, NEW s \in Seq(S), NEW t \in Seq(S), NEW x \in S,
         Len(t) = Len(s) + 1, \A i \in 1..Len(s) : t[i] = s[i], t[Len(s) + 1] = x
  PROVE  t = Append(s, x)
<1>1. /\ Append(s, x) \in Seq(S) /\ Len(Append(s, x)) = Len(t)
      /\ \A i \in 1..Len(s) : Append(s, x)[i] = t[i]
      /\ Append(s, x)[Len(s) + 1] = t[Len(s) + 1]
  BY AppendProperties
<1>2. \A i \in 1..Len(t) : i \in 1..Len(s) \/ i = Len(s) + 1
  OBVIOUS
<1>3. \A i \in 1..Len(t) : t[i] = Append(s, x)[i]
  BY <1>1, <1>2
<1> QED
  BY <1>1, <1>3, SeqEqual

LEMMA ChannelSend ==
  ASSUME OneSegment, FreshHeaders, ChannelInv, NEW s \in Senders, SendMessage(s)
  PROVE  Chan!Send
<1>1. PICK m \in Frames : msgs' = Append(msgs, m) /\ UNCHANGED results
  BY SendWhole DEF ChannelInv, EndInv, FramingInv
<1> DEFINE n == Len(msgs)
           x == [msg |-> n + 1, fd |-> IF m.fd THEN n + 1 ELSE 0]
<1>2. /\ msgs \in Seq(Frames) /\ n \in Nat
      /\ Len(msgs') = n + 1
      /\ \A k \in 1..n : msgs'[k] = msgs[k]
      /\ msgs'[n + 1] = m
  BY <1>1 DEF ChannelInv, EndInv, FramingInv, TypeInv, TypeOK
<1>3. x \in [msg : 1..MaxMsgs, fd : 0..MaxMsgs]
  <2>1. n < MaxMsgs /\ MaxMsgs \in Nat
    BY ImsgAssumption DEF SendMessage
  <2> QED
    BY <1>2, <2>1
<1>4. Sent \in Seq(Items) /\ Len(Sent) = n /\ Sent' \in Seq(Items) /\ Len(Sent') = n + 1
  <2>1. TypeInv /\ TypeInv'
    BY TypeStep DEF ChannelInv, EndInv, FramingInv, Next, SendStep
  <2>2. /\ Sent \in Seq(Items) /\ Len(Sent) = Len(msgs)
        /\ (Sent \in Seq(Items) /\ Len(Sent) = Len(msgs))'
    BY <2>1, SentGotType, PTL
  <2> QED
    BY <1>2, <2>2 DEF Items
<1>5. Sent' = Append(Sent, x)
  <2>1. \A k \in 1..n : Sent'[k] = Sent[k]
    BY <1>2 DEF Sent, SentOf
  <2>2. Sent'[n + 1] = x
    BY <1>2 DEF Sent, SentOf
  <2>3. x \in Items
    BY <1>2 DEF Items
  <2> QED
    BY <1>4, <2>1, <2>2, <2>3, OneMore
<1> QED
  BY <1>1, <1>3, <1>5 DEF Chan!Send, Sent, SentOf

LEMMA ChannelReceive ==
  ASSUME OneSegment, FreshHeaders, FdsFirst, ChannelInv, NEW r \in Receivers,
         TakeMessage(r), ChannelInv'
  PROVE  Chan!Receive
<1>1. PICK l \in Splits : \E k \in Taken(l), ok \in BOOLEAN :
        results' = Append(results,
             [msg |-> k, fd |-> IF ok THEN fdres[r] ELSE 0, ok |-> ok])
  BY DEF TakeMessage
<1>2. PICK k \in Taken(l), ok \in BOOLEAN :
        results' = Append(results,
             [msg |-> k, fd |-> IF ok THEN fdres[r] ELSE 0, ok |-> ok])
  BY <1>1
<1> DEFINE n == Len(results)
           x == IF ok THEN SentOf(k) ELSE Lost
<1>3. n < Len(msgs) /\ k = n + 1 /\ UNCHANGED msgs
  BY FrontWhole DEF ChannelInv, EndInv, TakeMessage, sendVars
<1>4. /\ n \in Nat /\ Len(msgs) \in Nat /\ results \in Seq(Results)
  BY DEF ChannelInv, EndInv, FramingInv, TypeInv, TypeOK
<1>5. /\ Len(results') = n + 1
      /\ \A i \in 1..n : results'[i] = results[i]
      /\ results'[k].msg = k /\ results'[k].ok = ok
  BY <1>2, <1>3, <1>4
<1>6. ok => results'[k].fd = IF msgs[k].fd THEN k ELSE 0
  <2>1. k \in 1..Len(results') /\ FdWithMessage'
    BY <1>3, <1>4, <1>5 DEF ChannelInv, FdInv
  <2> QED
    BY <1>3, <1>5, <2>1 DEF FdWithMessage
<1>7. Got \in Seq(Items) /\ Len(Got) = n /\ Got' \in Seq(Items) /\ Len(Got') = n + 1
  <2>1. TypeInv /\ TypeInv'
    BY DEF ChannelInv, EndInv, FramingInv
  <2>2. /\ Got \in Seq(Items) /\ Len(Got) = Len(results)
        /\ (Got \in Seq(Items) /\ Len(Got) = Len(results))'
    BY <2>1, SentGotType, PTL
  <2> QED
    BY <1>5, <2>2 DEF Items
<1>8. Got' = Append(Got, x)
  <2>1. \A i \in 1..n : Got'[i] = Got[i]
    BY <1>4, <1>5 DEF Got, GotOf, Lost
  <2>2. Got'[n + 1] = x
    <3>1. Got'[k] = GotOf(k)'
      BY <1>3, <1>4, <1>5 DEF Got
    <3>2. GotOf(k)' = x
      BY <1>5, <1>6 DEF GotOf, SentOf, Lost
    <3> QED
      BY <1>3, <3>1, <3>2
  <2>3. x \in Items
    BY <1>3, <1>4 DEF Items, SentOf, Lost
  <2> QED
    BY <1>7, <2>1, <2>2, <2>3, OneMore
<1>9. Len(Sent) = Len(msgs) /\ Sent[n + 1] = SentOf(k) /\ Sent' = Sent
  <2>1. Len(Sent) = Len(msgs)
    BY <1>4 DEF Sent
  <2>2. n + 1 \in 1..Len(msgs)
    BY <1>3, <1>4
  <2> QED
    BY <1>3, <2>1, <2>2 DEF Sent, SentOf
<1>10. x \in {Sent[Len(Got) + 1], Lost} /\ Len(Got) < Len(Sent)
  BY <1>3, <1>7, <1>9
<1> QED
  BY <1>8, <1>9, <1>10 DEF Chan!Receive, Sent, SentOf, Got, GotOf

LEMMA ChannelInit == Init => Chan!Init
BY DEF Init, Chan!Init

LEMMA ChannelStep ==
  ASSUME OneSegment, FreshHeaders, FdsFirst, ChannelInv, [Next]_vars, ChannelInv'
  PROVE  Chan!Next \/ UNCHANGED <<Sent, Got>>
<1>1. ASSUME UNCHANGED <<msgs, results>> PROVE UNCHANGED <<Sent, Got>>
  BY <1>1 DEF Sent, SentOf, Got, GotOf, Lost
<1>2. ASSUME NEW s \in Senders PROVE ~SendMore(s) /\ ~ShortWrite(s)
  BY NoMore DEF ChannelInv, EndInv
<1>3. ASSUME NEW s \in Senders, SendRejected(s) PROVE UNCHANGED <<msgs, results>>
  BY <1>3 DEF SendRejected, recvVars
<1>4. ASSUME NEW r \in Receivers,
             RecvCall(r) \/ AwaitData(r) \/ RecvMsg(r) \/ RecvEof(r) \/ Cancel(r)
      PROVE  UNCHANGED <<msgs, results>>
  BY <1>4 DEF RecvCall, AwaitData, RecvMsg, RecvEof, Cancel, sendVars
<1>5. ASSUME Close \/ Terminated \/ UNCHANGED vars PROVE UNCHANGED <<msgs, results>>
  BY <1>5 DEF Close, Terminated, vars, sendVars, recvVars
<1> QED
  BY <1>1, <1>2, <1>3, <1>4, <1>5, ChannelSend, ChannelReceive
  DEF Next, SendStep, RecvStep, Chan!Next

\* Under the same assumptions the two Handlers are a channel: every step of
\* imsg.rs is a send, a receive, or nothing that either user can see.
THEOREM ChannelImplemented ==
  ASSUME OneSegment, FreshHeaders, FdsFirst
  PROVE  Spec => ImplementsChannel
<1>1. ChannelInv /\ [Next]_vars => ChannelInv'
  BY FdStep
<1>2. ChannelInv /\ ChannelInv' /\ [Next]_vars => [Chan!Next]_<<Sent, Got>>
  BY ChannelStep
<1>3. Spec => Chan!Init /\ [][Chan!Next]_<<Sent, Got>>
  BY FdInit, ChannelInit, <1>1, <1>2, PTL DEF Spec
<1> QED
  BY <1>3, PTL DEF ImplementsChannel, Chan!Spec, Sent, SentOf, Got, GotOf

-----------------------------------------------------------------------------
(* No descriptor twice.  Whatever a call holds or has returned has been read  *)
(* from the socket, and recvmsg hands out only what has not.  This needs none *)
(* of the assumptions on sizes, headers or receivers.                         *)

WasRead(f) == f \in 1..Len(msgs) /\ msgs[f].start < read

OnceInv ==
  /\ \A i \in 1..Len(results) : results[i].fd # 0 => WasRead(results[i].fd)
  /\ \A r \in Receivers : fdres[r] # 0 => WasRead(fdres[r])
  /\ FdOnce

LEMMA OnceInit == Init => OnceInv
BY DEF Init, OnceInv, FdOnce

\* Descriptors are only dropped, and messages stay where they are.
LEMMA OnceSame ==
  ASSUME TypeInv, OnceInv, UNCHANGED <<read, results>>,
         Len(msgs') \in Nat, Len(msgs) <= Len(msgs'),
         \A k \in 1..Len(msgs) : msgs'[k].start = msgs[k].start,
         \A r \in Receivers : fdres'[r] = fdres[r] \/ fdres'[r] = 0
  PROVE  OnceInv'
<1>1. ASSUME NEW f, WasRead(f) PROVE f \in 1..Len(msgs') /\ msgs'[f].start < read'
  <2>1. Len(msgs) \in Nat
    BY DEF TypeInv, TypeOK
  <2> QED
    BY <1>1, <2>1 DEF WasRead
<1>2. (\A i \in 1..Len(results) : results[i].fd # 0 => WasRead(results[i].fd))'
  BY <1>1 DEF OnceInv, WasRead
<1>3. (\A r \in Receivers : fdres[r] # 0 => WasRead(fdres[r]))'
  BY <1>1 DEF OnceInv, WasRead
<1>4. FdOnce'
  BY DEF OnceInv, FdOnce
<1> QED
  BY <1>2, <1>3, <1>4 DEF OnceInv

\* What a call returns, it does not hold any more.
LEMMA OnceTake ==
  ASSUME TypeInv, OnceInv, NEW r \in Receivers, TakeMessage(r)
  PROVE  OnceInv'
<1>1. PICK l \in Splits : \E k \in Taken(l), ok \in BOOLEAN :
        results' = Append(results,
             [msg |-> k, fd |-> IF ok THEN fdres[r] ELSE 0, ok |-> ok])
  BY DEF TakeMessage
<1>2. PICK k \in Taken(l), ok \in BOOLEAN :
        results' = Append(results,
             [msg |-> k, fd |-> IF ok THEN fdres[r] ELSE 0, ok |-> ok])
  BY <1>1
<1>3. UNCHANGED <<msgs, read>> /\ fdres' = [fdres EXCEPT ![r] = 0]
  BY DEF TakeMessage, Released, sendVars
<1>4. /\ Len(results) \in Nat /\ results \in Seq(Results)
      /\ fdres \in [Receivers -> Nat]
  BY DEF TypeInv, TypeOK
<1> DEFINE last == Len(results) + 1
<1>5. /\ Len(results') = last
      /\ \A i \in 1..Len(results) : results'[i] = results[i]
      /\ results'[last].fd \in {0, fdres[r]}
      /\ \A i \in 1..Len(results') : i \in 1..Len(results) \/ i = last
  BY <1>2, <1>4
<1>6. /\ fdres'[r] = 0
      /\ \A o \in Receivers \ {r} : fdres'[o] = fdres[o]
  BY <1>3, <1>4
<1> HIDE DEF last
<1>7. /\ \A i \in 1..Len(results') : results'[i].fd # 0 => WasRead(results'[i].fd)
      /\ \A o \in Receivers : fdres'[o] # 0 => WasRead(fdres'[o])
  BY <1>5, <1>6 DEF OnceInv
<1>8. ASSUME NEW i \in 1..Len(results'), NEW j \in 1..Len(results'),
             i # j, results'[i].fd # 0
      PROVE  results'[i].fd # results'[j].fd
  BY <1>5, <1>8 DEF OnceInv, FdOnce
<1>9. ASSUME NEW o \in Receivers, fdres'[o] # 0
      PROVE  /\ \A i \in 1..Len(results') : results'[i].fd # fdres'[o]
             /\ \A p \in Receivers \ {o} : fdres'[p] # fdres'[o]
  BY <1>5, <1>6, <1>9 DEF OnceInv, FdOnce
<1> QED
  BY <1>3, <1>7, <1>8, <1>9 DEF OnceInv, FdOnce, WasRead

LEMMA OnceRecv ==
  ASSUME TypeInv, OnceInv, NEW r \in Receivers, RecvMsg(r)
  PROVE  OnceInv'
<1>1. PICK n \in Readable :
        /\ read' = read + n
        /\ \/ Arrived(n) = {} /\ UNCHANGED fdres
           \/ \E k \in Arrived(n) : fdres' = [fdres EXCEPT ![r] = KeepFirst(r, k)]
  BY DEF RecvMsg
<1>2. UNCHANGED <<msgs, results>>
  BY DEF RecvMsg, sendVars
<1>3. /\ read \in Nat /\ wrote \in Nat /\ BufLen \in Nat /\ read <= wrote
      /\ fdres \in [Receivers -> Nat]
  BY ImsgAssumption DEF TypeInv, TypeOK
<1>4. n \in Nat \ {0}
  BY <1>3 DEF Readable, Min2
<1>5. ASSUME NEW f, WasRead(f) PROVE f \in 1..Len(msgs') /\ msgs'[f].start < read'
  <2>1. msgs[f].start \in Nat
    BY <1>5, MsgType DEF WasRead
  <2> QED
    BY <1>1, <1>2, <1>3, <1>4, <1>5, <2>1 DEF WasRead
<1>6. ASSUME NEW k \in Arrived(n)
      PROVE  /\ k \in Nat \ {0} /\ ~WasRead(k)
             /\ k \in 1..Len(msgs') /\ msgs'[k].start < read'
  <2>1. /\ k \in 1..Len(msgs) /\ msgs[k].start \in Nat
        /\ msgs[k].start >= read /\ msgs[k].start < read + n
    BY MsgType DEF Arrived, Pending
  <2> QED
    BY <1>1, <1>2, <1>3, <2>1 DEF WasRead
<1>7. CASE fdres' = fdres
  BY <1>2, <1>5, <1>7 DEF OnceInv, FdOnce, WasRead
<1>8. ASSUME NEW k \in Arrived(n), fdres' = [fdres EXCEPT ![r] = k], fdres[r] = 0
      PROVE  OnceInv'
  <2>1. /\ fdres'[r] = k
        /\ \A o \in Receivers \ {r} : fdres'[o] = fdres[o]
    BY <1>3, <1>8
  <2>2. /\ \A i \in 1..Len(results) : results[i].fd # k
        /\ \A o \in Receivers \ {r} : fdres[o] # k
    BY <1>6 DEF OnceInv
  <2>3. FdOnce'
    BY <1>2, <2>1, <2>2 DEF OnceInv, FdOnce
  <2>4. (\A o \in Receivers : fdres[o] # 0 => WasRead(fdres[o]))'
    BY <1>5, <1>6, <2>1 DEF OnceInv, WasRead
  <2>5. (\A i \in 1..Len(results) : results[i].fd # 0 => WasRead(results[i].fd))'
    BY <1>2, <1>5 DEF OnceInv, WasRead
  <2> QED
    BY <2>3, <2>4, <2>5 DEF OnceInv
<1>9. ASSUME NEW k \in Arrived(n), fdres' = [fdres EXCEPT ![r] = KeepFirst(r, k)]
      PROVE  OnceInv'
  <2>1. CASE fdres[r] = 0
    BY <1>8, <1>9, <2>1 DEF KeepFirst
  <2>2. CASE fdres[r] # 0
    BY <1>3, <1>7, <1>9, <2>2 DEF KeepFirst
  <2> QED
    BY <2>1, <2>2
<1> QED
  BY <1>1, <1>7, <1>9

LEMMA OnceStep == TypeInv /\ OnceInv /\ [Next]_vars => OnceInv'
<1> SUFFICES ASSUME TypeInv, OnceInv, [Next]_vars PROVE OnceInv'
  OBVIOUS
<1>1. Len(msgs) \in Nat /\ msgs \in Seq(Frames) /\ fdres \in [Receivers -> Nat]
  BY DEF TypeInv, TypeOK
<1>2. CASE /\ UNCHANGED <<msgs, read, results>>
           /\ \/ UNCHANGED fdres
              \/ \E r \in Receivers : fdres' = [fdres EXCEPT ![r] = 0]
  BY <1>1, <1>2, OnceSame
<1>3. ASSUME NEW s \in Senders, SendMessage(s) PROVE OnceInv'
  <2>1. /\ \E m \in Frames : msgs' = Append(msgs, m)
        /\ UNCHANGED <<read, results, fdres>>
    <3>0. PICK id \in Ids, base \in Bases, p \in Payloads, fd \in FdArgs :
            \E l \in WireLen(base, p) : msgs' = Append(msgs, Frame(id, l, p, fd))
      BY <1>3 DEF SendMessage
    <3>1. PICK l \in WireLen(base, p) : msgs' = Append(msgs, Frame(id, l, p, fd))
      BY <3>0
    <3>2. wrote \in Nat
      BY DEF TypeInv, TypeOK
    <3>3. Frame(id, l, p, fd) \in Frames
      BY <3>2, FrameType
    <3>4. UNCHANGED <<read, results, fdres>>
      BY <1>3 DEF SendMessage, recvVars
    <3> QED
      BY <3>1, <3>3, <3>4
  <2>2. /\ Len(msgs') = Len(msgs) + 1
        /\ \A k \in 1..Len(msgs) : msgs'[k] = msgs[k]
    <3>1. PICK m \in Frames : msgs' = Append(msgs, m)
      BY <2>1
    <3> QED
      BY <1>1, <3>1, AppendProperties
  <2> QED
    BY <1>1, <2>1, <2>2, OnceSame
<1>4. ASSUME NEW s \in Senders, SendMore(s) PROVE OnceInv'
  <2>1. UNCHANGED <<read, results, fdres>>
    BY <1>4 DEF SendMore, recvVars
  <2> QED
    BY <1>1, <1>4, <2>1, MoreKeeps, OnceSame
<1>5. ASSUME NEW s \in Senders, SendRejected(s) \/ ShortWrite(s)
      PROVE  UNCHANGED <<msgs, read, results, fdres>>
  BY <1>5 DEF SendRejected, ShortWrite, recvVars
<1>6. ASSUME NEW r \in Receivers, RecvCall(r) \/ AwaitData(r)
      PROVE  UNCHANGED <<msgs, read, results, fdres>>
  BY <1>6 DEF RecvCall, AwaitData, sendVars
<1>7. ASSUME NEW r \in Receivers, RecvEof(r) \/ Cancel(r)
      PROVE  UNCHANGED <<msgs, read, results>> /\ fdres' = [fdres EXCEPT ![r] = 0]
  BY <1>7 DEF RecvEof, Cancel, Released, sendVars
<1>8. CASE Close \/ Terminated \/ UNCHANGED vars
  BY <1>2, <1>8 DEF Close, Terminated, vars, sendVars, recvVars
<1> QED
  BY <1>2, <1>3, <1>4, <1>5, <1>6, <1>7, <1>8, OnceTake, OnceRecv
  DEF Next, SendStep, RecvStep

\* However many tasks receive, whatever is sent and whether or not sends are cut
\* short: no descriptor is returned twice, or held by two calls.
THEOREM OnceCorrect == Spec => []FdOnce
<1>1. OnceInv => FdOnce
  BY DEF OnceInv
<1>2. (TypeInv /\ OnceInv) /\ [Next]_vars => (TypeInv /\ OnceInv)'
  BY TypeStep, OnceStep
<1> QED
  BY TypeInit, OnceInit, <1>1, <1>2, PTL DEF Spec

-----------------------------------------------------------------------------
(* No descriptor late.  While one task receives, what it holds belongs to a  *)
(* message that has not been returned, also where descriptors come mixed.    *)

OneReceiver == \A r, o \in Receivers : r = o

AheadInv ==
  /\ \A r \in Receivers : fdres[r] # 0 => Len(results) < fdres[r]
  /\ FdNeverLate

\* What is still in the socket has not been returned.
LEMMA PendingAhead ==
  ASSUME FramingInv, NEW k \in Pending
  PROVE  k \in Nat /\ Len(results) < k
<1> SUFFICES ASSUME k <= Len(results) PROVE FALSE
  BY DEF Pending, FramingInv, TypeInv, TypeOK
<1>1. /\ k \in 1..Len(msgs) /\ msgs[k].start >= read /\ consumed <= read
      /\ Len(results) \in Nat /\ Len(msgs) \in Nat /\ Len(results) <= Len(msgs)
      /\ read \in Nat /\ consumed \in Nat
  BY DEF Pending, FramingInv, FrontInv, TypeInv, TypeOK
<1>2. /\ msgs[k].start \in Nat /\ msgs[k].out \in Nat
      /\ msgs[k].out > 0 /\ msgs[k].start + msgs[k].out <= wrote
  BY <1>1, MsgType DEF FramingInv, StreamInv, Placed
<1>3. CASE Len(results) = Len(msgs)
  BY <1>1, <1>2, <1>3 DEF FramingInv, FrontInv, StartOf
<1>4. CASE Len(results) < Len(msgs)
  <2>1. Len(results) + 1 \in 1..Len(msgs) /\ k < Len(results) + 1
    BY <1>1, <1>4
  <2>2. msgs[k].start < msgs[Len(results) + 1].start
    BY <1>1, <2>1 DEF FramingInv, StreamInv
  <2>3. consumed = msgs[Len(results) + 1].start
    BY <1>4, FrontIsNext
  <2> QED
    BY <1>1, <1>2, <2>2, <2>3
<1> QED
  BY <1>1, <1>3, <1>4

LEMMA AheadInit == Init => AheadInv
BY DEF Init, AheadInv, FdNeverLate

LEMMA AheadTake ==
  ASSUME OneReceiver, FramingInv, AheadInv, NEW r \in Receivers, TakeMessage(r)
  PROVE  AheadInv'
<1>1. PICK l \in Splits : \E k \in Taken(l), ok \in BOOLEAN :
        results' = Append(results,
             [msg |-> k, fd |-> IF ok THEN fdres[r] ELSE 0, ok |-> ok])
  BY DEF TakeMessage
<1>2. PICK k \in Taken(l), ok \in BOOLEAN :
        results' = Append(results,
             [msg |-> k, fd |-> IF ok THEN fdres[r] ELSE 0, ok |-> ok])
  BY <1>1
<1>3. fdres' = [fdres EXCEPT ![r] = 0]
  BY DEF TakeMessage, Released
<1>4. /\ Len(results) \in Nat /\ results \in Seq(Results)
      /\ fdres \in [Receivers -> Nat] /\ fdres[r] \in Nat
  BY DEF FramingInv, TypeInv, TypeOK
<1> DEFINE last == Len(results) + 1
<1>5. /\ Len(results') = last
      /\ \A i \in 1..Len(results) : results'[i] = results[i]
      /\ results'[last].fd \in {0, fdres[r]}
      /\ \A i \in 1..Len(results') : i \in 1..Len(results) \/ i = last
  BY <1>2, <1>4
<1>6. \A o \in Receivers : fdres'[o] = 0
  BY <1>3, <1>4 DEF OneReceiver
<1>7. results'[last].fd # 0 => results'[last].fd >= last
  BY <1>4, <1>5 DEF AheadInv
<1> HIDE DEF last
<1>8. FdNeverLate'
  BY <1>5, <1>7 DEF AheadInv, FdNeverLate
<1> QED
  BY <1>6, <1>8 DEF AheadInv

LEMMA AheadRecv ==
  ASSUME FramingInv, AheadInv, NEW r \in Receivers, RecvMsg(r)
  PROVE  AheadInv'
<1>1. \/ UNCHANGED fdres
      \/ \E k \in Pending : fdres' = [fdres EXCEPT ![r] = KeepFirst(r, k)]
  BY DEF RecvMsg, Arrived
<1>2. UNCHANGED results /\ fdres \in [Receivers -> Nat]
  BY DEF RecvMsg, FramingInv, TypeInv, TypeOK
<1>3. \A o \in Receivers : fdres'[o] # 0 => Len(results) < fdres'[o]
  BY <1>1, <1>2, PendingAhead DEF AheadInv, KeepFirst
<1> QED
  BY <1>2, <1>3 DEF AheadInv, FdNeverLate

LEMMA AheadStep ==
  ASSUME WholeSends, FreshHeaders, OneReceiver
  PROVE  FramingInv /\ AheadInv /\ [Next]_vars => (FramingInv /\ AheadInv)'
<1> SUFFICES ASSUME FramingInv, AheadInv, [Next]_vars PROVE AheadInv'
  BY FramingStep
<1>1. fdres \in [Receivers -> Nat]
  BY DEF FramingInv, TypeInv, TypeOK
<1>2. CASE /\ UNCHANGED results
           /\ \/ UNCHANGED fdres
              \/ \E r \in Receivers : fdres' = [fdres EXCEPT ![r] = 0]
  BY <1>1, <1>2 DEF AheadInv, FdNeverLate
<1>3. ASSUME NEW s \in Senders, SendStep(s) PROVE UNCHANGED <<results, fdres>>
  BY <1>3 DEF SendStep, SendMessage, SendRejected, SendMore, ShortWrite, recvVars
<1>4. ASSUME NEW r \in Receivers, RecvCall(r) \/ AwaitData(r)
      PROVE  UNCHANGED <<results, fdres>>
  BY <1>4 DEF RecvCall, AwaitData
<1>5. ASSUME NEW r \in Receivers, RecvEof(r) \/ Cancel(r)
      PROVE  UNCHANGED results /\ fdres' = [fdres EXCEPT ![r] = 0]
  BY <1>5 DEF RecvEof, Cancel, Released
<1>6. CASE Close \/ Terminated \/ UNCHANGED vars
  BY <1>2, <1>6 DEF Close, Terminated, vars, recvVars
<1> QED
  BY <1>2, <1>3, <1>4, <1>5, <1>6, AheadTake, AheadRecv DEF Next, RecvStep

\* Where one task receives, which may drop its calls, no message is returned with the
\* descriptor of an earlier one, in whatever order descriptors are sent.
THEOREM NeverLateCorrect ==
  ASSUME WholeSends, FreshHeaders, OneReceiver
  PROVE  Spec => []FdNeverLate
<1>1. (FramingInv /\ AheadInv) /\ [Next]_vars => (FramingInv /\ AheadInv)'
  BY AheadStep
<1>2. AheadInv => FdNeverLate
  BY DEF AheadInv
<1> QED
  BY FramingInit, AheadInit, <1>1, <1>2, PTL DEF Spec
=============================================================================
