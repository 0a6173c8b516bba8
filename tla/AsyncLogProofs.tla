--------------------------- MODULE AsyncLogProofs ---------------------------
(***************************************************************************)
(* Proofs about module AsyncLog, for every set of threads and any number   *)
(* of records.                                                             *)
(***************************************************************************)
EXTENDS AsyncLog, TLAPS

-----------------------------------------------------------------------------
(* Types *)

LEMMA InitType == Init => TypeOK
<1> SUFFICES ASSUME Init PROVE TypeOK
  OBVIOUS
<1>1. /\ sent \in Seq(Record) /\ target \in Seq(Record)
      /\ queue \in Seq(Record \cup {Close})
  <2>1. \A S : <<>> \in Seq(S)
    OBVIOUS
  <2> QED
    BY <2>1 DEF Init
<1> QED
  BY <1>1 DEF Init, TypeOK

LEMMA TypeLetGo ==
  ASSUME TypeOK, NEW who \in Threads \cup {"guard"}, LetGo(who)
  PROVE  /\ drain' \in {"used", "closing", "gone"}
         /\ dropper' \in Threads \cup {"guard", "nobody"}
         /\ late' \in BOOLEAN /\ crashed' \in BOOLEAN
         /\ sent' \in Seq(Record) /\ target' \in Seq(Record)
         /\ queue' \in Seq(Record \cup {Close})
         /\ task' \in {"recv", "write", "ended", "cancelled"}
<1>1. Append(queue, Close) \in Seq(Record \cup {Close})
  BY DEF TypeOK
<1>2. Listening \in BOOLEAN
  BY DEF Listening
<1> QED
  BY <1>1, <1>2 DEF LetGo, TypeOK, dropping, channel

LEMMA TypeStep == TypeOK /\ [Next]_vars => TypeOK'
<1> SUFFICES ASSUME TypeOK, [Next]_vars PROVE TypeOK'
  OBVIOUS
<1> USE DEF channel, dropping
<1>1. CASE GuardStep
  <2>1. CASE Restore
    BY <2>1, TypeLetGo DEF Restore, TypeOK
  <2>2. CASE Release
    BY <2>2, TypeLetGo DEF Release, TypeOK
  <2>3. CASE Reset
    BY <2>3 DEF Reset, TypeOK
  <2>4. CASE Shutdown
    BY <2>4 DEF Shutdown, AfterShutdown, TypeOK
  <2> QED
    BY <1>1, <2>1, <2>2, <2>3, <2>4 DEF GuardStep
<1>2. CASE DropStep
  BY <1>2 DEF DropStep, DropDone, DropLate, TypeOK
<1>3. CASE Recv
  <2>1. queue # <<>> /\ Head(queue) \in Record \cup {Close}
    BY <1>3 DEF Recv, TypeOK
  <2>2. Tail(queue) \in Seq(Record \cup {Close})
    BY <2>1 DEF TypeOK
  <2>3. target' \in Seq(Record) /\ task' \in {"recv", "write", "ended", "cancelled"}
    <3>1. CASE Head(queue) = Close
      BY <1>3, <3>1 DEF Recv, IsClose, TypeOK
    <3>2. CASE Head(queue) # Close
      <4>1. Append(target, Head(queue)) \in Seq(Record)
        BY <2>1, <3>2 DEF TypeOK
      <4> QED
        BY <1>3, <3>2, <4>1 DEF Recv, IsClose
    <3> QED
      BY <3>1, <3>2
  <2> QED
    BY <1>3, <2>2, <2>3 DEF Recv, TypeOK
<1>4. CASE Written
  BY <1>4 DEF Written, AfterWrite, AfterShutdown, TypeOK
<1>5. ASSUME NEW t \in Threads, ThreadStep(t) PROVE TypeOK'
  <2>1. CASE Find(t)
    BY <2>1 DEF Find, TypeOK
  <2>2. CASE Log(t)
    <3>1. Len(sent) + 1 \in Record
      BY DEF TypeOK, Record
    <3>2. /\ Append(sent, Len(sent) + 1) \in Seq(Record)
          /\ Append(queue, Len(sent) + 1) \in Seq(Record \cup {Close})
      BY <3>1 DEF TypeOK
    <3>3. /\ at' \in [Threads -> {"idle", "found", "logged", "panicked"}]
          /\ sent' \in Seq(Record) /\ queue' \in Seq(Record \cup {Close})
      <4>1. CASE Listening
        BY <2>2, <3>2, <4>1 DEF Log, TypeOK
      <4>2. CASE ~Listening
        BY <2>2, <4>2 DEF Log, TypeOK
      <4> QED
        BY <4>1, <4>2
    <3> QED
      BY <2>2, <3>3 DEF Log, TypeOK
  <2>3. CASE Return(t)
    BY <2>3, TypeLetGo DEF Return, TypeOK
  <2> QED
    BY <1>5, <2>1, <2>2, <2>3 DEF ThreadStep
<1>6. CASE Ended \/ UNCHANGED vars
  BY <1>6 DEF Ended, vars, TypeOK
<1> QED
  BY <1>1, <1>2, <1>3, <1>4, <1>5, <1>6 DEF Next, TaskStep

\* The variables of AsyncLog keep their types: the guard, the drain and the task go
\* through their states whoever is the last to let go of the drain.
THEOREM TypeCorrect == Spec => []TypeOK
<1>1. Init => TypeOK
  BY InitType
<1> QED
  BY <1>1, TypeStep, PTL DEF Spec

-----------------------------------------------------------------------------
(***************************************************************************)
(* The invariant.  Records are numbered as they are queued, so that it can *)
(* be said of each of the three sequences alone what it holds.  Once the   *)
(* drain is dropped nobody is left who could log with it.                  *)
(***************************************************************************)
HasClose == queue # <<>> /\ queue[Len(queue)] = Close

Quiet ==
  /\ global # "async" /\ guard \in {"released", "dropped"}
  /\ \A t \in Threads : at[t] = "idle"

Numbered ==
  /\ \A i \in 1..Len(sent) : sent[i] = i
  /\ \A i \in 1..Len(target) : target[i] = i
  /\ \A i \in 1..Len(queue) :
       queue[i] = Len(target) + i \/ (queue[i] = Close /\ i = Len(queue))

Counted ==
  /\ task # "ended" /\ HasClose => Len(sent) + 1 = Len(target) + Len(queue)
  /\ task # "ended" /\ ~HasClose => Len(sent) = Len(target) + Len(queue)
  /\ task = "ended" => drain # "used" /\ queue = <<>> /\ Len(target) = Len(sent)

Dropped ==
  /\ HasClose => drain # "used"
  /\ drain # "used" => Quiet
  /\ drain = "gone" /\ ~late => ~Listening
  /\ task = "cancelled" \/ crashed => ~running

LogInv == TypeOK /\ Numbered /\ Counted /\ Dropped

LEMMA LogInit == Init => LogInv
<1> SUFFICES ASSUME Init PROVE LogInv
  OBVIOUS
<1>1. Numbered
  BY DEF Init, Numbered
<1>2. Counted
  BY DEF Init, Counted, HasClose
<1>3. Dropped
  BY DEF Init, Dropped, HasClose, Listening
<1> QED
  BY <1>1, <1>2, <1>3, InitType DEF LogInv

\* A thread that uses the drain keeps it from being dropped.
LEMMA UsedBy ==
  ASSUME Dropped, \/ global = "async"
                  \/ guard \in {"held", "restored"}
                  \/ \E t \in Threads : at[t] # "idle"
  PROVE  drain = "used" /\ ~HasClose
BY DEF Dropped, Quiet

\* The last user lets go of the drain.
LEMMA LogLetGo ==
  ASSUME LogInv, TypeOK', drain = "used" \/ Quiet', NEW who, LetGo(who),
         running' = running
  PROVE  LogInv'
<1>1. CASE drain = "used" /\ Users(global', guard', at') = {}
  <2>1. Quiet'
    <3>1. Owners(global', guard') = {} /\ \A t \in Threads : at'[t] = "idle"
      BY <1>1 DEF Users
    <3>2. global' # "async" /\ guard' \notin {"held", "restored"}
      BY <3>1 DEF Owners
    <3> QED
      BY <3>1, <3>2 DEF Quiet, TypeOK
  <2>2. CASE Listening
    <3>1. /\ drain' = "closing" /\ crashed' = FALSE /\ task' = task
          /\ queue' = Append(queue, Close) /\ sent' = sent /\ target' = target
      BY <1>1, <2>2 DEF LetGo
    <3>2. /\ Len(queue') = Len(queue) + 1 /\ queue'[Len(queue) + 1] = Close
          /\ \A i \in 1..Len(queue) : queue'[i] = queue[i]
          /\ queue' # <<>>
      <4> DEFINE S == Record \cup {Close}
      <4>1. queue \in Seq(S) /\ Close \in S
        BY DEF LogInv, TypeOK
      <4> HIDE DEF S
      <4> QED
        BY <3>1, <4>1
    <3>3. ~HasClose /\ HasClose'
      BY <1>1, <3>2 DEF LogInv, Dropped, HasClose, TypeOK
    <3>4. Numbered'
      <4>1. \A i \in 1..Len(queue) : queue[i] = Len(target) + i
        BY <3>3 DEF LogInv, Numbered, HasClose, TypeOK
      <4> QED
        BY <3>1, <3>2, <4>1 DEF LogInv, Numbered, TypeOK
    <3>5. Counted'
      BY <2>2, <3>1, <3>2, <3>3 DEF LogInv, Counted, Listening, TypeOK
    <3>6. Dropped'
      BY <2>1, <2>2, <3>1 DEF LogInv, Dropped, Listening
    <3> QED
      BY <3>4, <3>5, <3>6 DEF LogInv
  <2>3. CASE ~Listening
    <3>1. /\ drain' = "gone" /\ crashed' = TRUE
          /\ queue' = queue /\ sent' = sent /\ task' = task /\ target' = target
      BY <1>1, <2>3 DEF LetGo
    <3>2. task = "cancelled"
      BY <1>1, <2>3 DEF LogInv, Counted, Listening, TypeOK
    <3> QED
      BY <2>1, <2>3, <3>1, <3>2
      DEF LogInv, Numbered, Counted, Dropped, HasClose, Listening
  <2> QED
    BY <2>2, <2>3
<1>2. CASE ~(drain = "used" /\ Users(global', guard', at') = {})
  <2>1. UNCHANGED <<dropping, channel>>
    BY <1>2 DEF LetGo
  <2> QED
    BY <2>1 DEF dropping, channel, LogInv, Numbered, Counted, Dropped, HasClose,
      Listening
<1> QED
  BY <1>1, <1>2

LEMMA LogGuard == ASSUME LogInv, TypeOK', GuardStep PROVE LogInv'
<1>1. CASE Restore
  <2>1. drain = "used"
    BY <1>1, UsedBy DEF LogInv, Restore
  <2> QED
    BY <1>1, <2>1, LogLetGo DEF Restore
<1>2. CASE Release
  <2>1. drain = "used"
    BY <1>2, UsedBy DEF LogInv, Release
  <2> QED
    BY <1>2, <2>1, LogLetGo DEF Release
<1>3. CASE Reset
  BY <1>3 DEF Reset, dropping, channel, LogInv, Numbered, Counted, Dropped,
    HasClose, Listening, Quiet
<1>4. CASE Shutdown
  BY <1>4 DEF Shutdown, AfterShutdown, dropping, LogInv, Numbered, Counted, Dropped, HasClose,
    Listening, Quiet
<1> QED
  BY <1>1, <1>2, <1>3, <1>4 DEF GuardStep

LEMMA LogDrop == ASSUME LogInv, TypeOK', DropStep PROVE LogInv'
<1>1. /\ drain = "closing" /\ drain' = "gone"
      /\ late' = TRUE \/ (late' = late /\ ~Listening)
      /\ UNCHANGED <<running, global, guard, at, crashed, sent, queue, task, target>>
  <2>1. CASE DropDone
    <3>1. ~Listening
      BY <2>1 DEF DropDone, Joined, Listening
    <3> QED
      BY <2>1, <3>1 DEF DropDone, channel
  <2>2. CASE DropLate
    BY <2>2 DEF DropLate, MayTimeOut, channel
  <2> QED
    BY <2>1, <2>2 DEF DropStep
<1>2. Numbered' /\ Counted'
  BY <1>1 DEF LogInv, Numbered, Counted, HasClose
<1>3. Dropped'
  BY <1>1 DEF LogInv, Dropped, HasClose, Listening, Quiet
<1> QED
  BY <1>2, <1>3 DEF LogInv

LEMMA LogRecv == ASSUME LogInv, TypeOK', Recv PROVE LogInv'
<1> DEFINE S == Record \cup {Close}
<1>0. queue \in Seq(S) /\ queue # <<>> /\ queue' = Tail(queue)
  BY DEF Recv, LogInv, TypeOK
<1> HIDE DEF S
<1>1. /\ Head(queue) = queue[1] /\ Len(queue) \in Nat /\ Len(queue) >= 1
      /\ 1 \in 1..Len(queue) /\ Len(queue) \in 1..Len(queue)
      /\ Len(target) \in Nat /\ Len(sent) \in Nat
  BY <1>0 DEF LogInv, TypeOK
<1>2. /\ queue' \in Seq(S) /\ Len(queue') = Len(queue) - 1
      /\ \A i \in 1..Len(queue') : queue'[i] = queue[i + 1]
  BY <1>0
<1>3. /\ task = "recv" /\ Listening
      /\ UNCHANGED <<running, global, guard, at, drain, late, crashed, sent>>
  BY DEF Recv, Listening, dropping
<1>4. Quiet' = Quiet
  BY <1>3 DEF Quiet
<1>5. CASE queue[1] = Close
  <2>1. task' = "ended" /\ target' = target
    BY <1>1, <1>5 DEF Recv, IsClose
  <2>2. Len(queue) = 1
    <3>1. queue[1] = Len(target) + 1 \/ 1 = Len(queue)
      BY <1>1 DEF LogInv, Numbered
    <3> QED
      BY <1>1, <1>5, <3>1 DEF Close
  <2>3. HasClose /\ drain # "used"
    BY <1>0, <1>5, <2>2 DEF HasClose, LogInv, Dropped
  <2>4. queue' = <<>>
    BY <1>2, <2>2
  <2>5. Numbered'
    BY <1>3, <2>1, <2>4 DEF LogInv, Numbered
  <2>6. Counted'
    <3>1. Len(sent) + 1 = Len(target) + 1
      BY <1>3, <2>2, <2>3 DEF LogInv, Counted
    <3> QED
      BY <1>1, <1>3, <2>1, <2>3, <2>4, <3>1 DEF Counted
  <2>7. Dropped'
    BY <1>3, <1>4, <2>1, <2>3, <2>4 DEF LogInv, Dropped, HasClose, Listening
  <2> QED
    BY <2>5, <2>6, <2>7 DEF LogInv
<1>6. CASE queue[1] # Close
  <2>1. task' = "write" /\ target' = Append(target, queue[1])
    BY <1>1, <1>6 DEF Recv, IsClose
  <2>2. queue[1] = Len(target) + 1
    BY <1>1, <1>6 DEF LogInv, Numbered
  <2>3. /\ Len(target') = Len(target) + 1 /\ target'[Len(target) + 1] = queue[1]
        /\ \A i \in 1..Len(target) : target'[i] = target[i]
    BY <2>1, <2>2 DEF LogInv, TypeOK
  <2>4. HasClose' <=> HasClose
    <3>1. CASE Len(queue) = 1
      <4>1. queue' = <<>>
        BY <1>2, <3>1
      <4> QED
        BY <1>6, <3>1, <4>1 DEF HasClose
    <3>2. CASE Len(queue) # 1
      <4>1. Len(queue') \in 1..Len(queue') /\ Len(queue') + 1 = Len(queue)
        BY <1>1, <1>2, <3>2
      <4>2. queue' # <<>> /\ queue'[Len(queue')] = queue[Len(queue)]
        BY <1>2, <4>1
      <4> QED
        BY <1>0, <4>2 DEF HasClose
    <3> QED
      BY <3>1, <3>2
  <2>5. Numbered'
    <3>1. \A i \in 1..Len(target') : target'[i] = i
      <4>1. \A i \in 1..Len(target) : target[i] = i
        BY DEF LogInv, Numbered
      <4> QED
        BY <1>1, <2>2, <2>3, <4>1
    <3>2. \A i \in 1..Len(queue') :
            queue'[i] = Len(target') + i \/ (queue'[i] = Close /\ i = Len(queue'))
      <4> SUFFICES ASSUME NEW i \in 1..Len(queue')
                   PROVE  \/ queue'[i] = Len(target') + i
                          \/ queue'[i] = Close /\ i = Len(queue')
        OBVIOUS
      <4>1. i + 1 \in 1..Len(queue) /\ queue'[i] = queue[i + 1]
        BY <1>1, <1>2
      <4>2. \/ queue[i + 1] = Len(target) + (i + 1)
            \/ queue[i + 1] = Close /\ i + 1 = Len(queue)
        BY <4>1 DEF LogInv, Numbered
      <4> QED
        BY <1>1, <1>2, <2>3, <4>1, <4>2
    <3> QED
      BY <1>3, <3>1, <3>2 DEF LogInv, Numbered
  <2>6. Counted'
    <3>1. /\ HasClose => Len(sent) + 1 = Len(target) + Len(queue)
          /\ ~HasClose => Len(sent) = Len(target) + Len(queue)
      BY <1>3 DEF LogInv, Counted
    <3>2. Len(sent') = Len(sent) /\ Len(target') + Len(queue') = Len(target) + Len(queue)
      BY <1>1, <1>2, <1>3, <2>3
    <3> QED
      BY <2>1, <2>4, <3>1, <3>2 DEF Counted
  <2>7. Dropped'
    BY <1>3, <1>4, <2>1, <2>4 DEF LogInv, Dropped, Listening
  <2> QED
    BY <2>5, <2>6, <2>7 DEF LogInv
<1> QED
  BY <1>5, <1>6

LEMMA LogWritten == ASSUME LogInv, TypeOK', Written PROVE LogInv'
<1>1. /\ task = "write" /\ (task' = "recv" \/ (task' = "cancelled" /\ ~running))
      /\ UNCHANGED <<running, global, guard, at, drain, late, crashed, sent, queue,
                     target>>
  BY DEF Written, AfterWrite, AfterShutdown, dropping
<1> QED
  BY <1>1 DEF LogInv, Numbered, Counted, Dropped, HasClose, Listening, Quiet

LEMMA LogThread ==
  ASSUME LogInv, TypeOK', NEW t \in Threads, ThreadStep(t)
  PROVE  LogInv'
<1>1. CASE Find(t)
  <2>1. drain = "used" /\ ~HasClose
    BY <1>1, UsedBy DEF LogInv, Find
  <2> QED
    BY <1>1, <2>1 DEF Find, dropping, channel, LogInv, Numbered, Counted, Dropped,
      HasClose, Listening
<1>2. CASE Log(t)
  <2>1. drain = "used" /\ ~HasClose
    BY <1>2, UsedBy DEF LogInv, Log
  <2>2. UNCHANGED <<running, drain, late, crashed, task, target>>
    BY <1>2 DEF Log, dropping
  <2>3. CASE Listening
    <3> DEFINE n == Len(sent) + 1
               S == Record \cup {Close}
    <3>1. sent' = Append(sent, n) /\ queue' = Append(queue, n)
      BY <1>2, <2>3 DEF Log
    <3>2. /\ sent \in Seq(Record) /\ queue \in Seq(S)
          /\ Len(target) \in Nat /\ Len(sent) \in Nat /\ Len(queue) \in Nat
          /\ n \in Record /\ n \in S /\ n # Close
      BY DEF LogInv, TypeOK, Record, Close
    <3>3. n = Len(target) + Len(queue) + 1
      BY <2>1, <2>3, <3>2 DEF LogInv, Counted, Listening
    <3> HIDE DEF n, S
    <3>4. /\ Len(sent') = Len(sent) + 1 /\ sent'[Len(sent) + 1] = n
          /\ \A i \in 1..Len(sent) : sent'[i] = sent[i]
      BY <3>1, <3>2
    <3>5. /\ Len(queue') = Len(queue) + 1 /\ queue'[Len(queue) + 1] = n
          /\ \A i \in 1..Len(queue) : queue'[i] = queue[i]
      BY <3>1, <3>2
    <3>6. \A i \in 1..Len(queue) : queue[i] = Len(target) + i
      BY <2>1, <3>2 DEF LogInv, Numbered, HasClose
    <3>7. Numbered'
      <4>1. \A i \in 1..Len(sent') : sent'[i] = i
        BY <3>2, <3>4 DEF LogInv, Numbered, n
      <4>2. \A i \in 1..Len(queue') : queue'[i] = Len(target) + i
        BY <3>2, <3>3, <3>5, <3>6
      <4> QED
        BY <2>2, <4>1, <4>2 DEF LogInv, Numbered
    <3>8. ~HasClose'
      BY <3>2, <3>5 DEF HasClose
    <3>9. Counted'
      BY <2>1, <2>2, <2>3, <3>2, <3>3, <3>4, <3>5, <3>8
      DEF LogInv, Counted, Listening, n
    <3>10. Dropped'
      BY <2>1, <2>2, <3>8 DEF LogInv, Dropped
    <3> QED
      BY <3>7, <3>9, <3>10 DEF LogInv
  <2>4. CASE ~Listening
    <3>1. UNCHANGED <<sent, queue>>
      BY <1>2, <2>4 DEF Log
    <3> QED
      BY <2>1, <2>2, <3>1 DEF LogInv, Numbered, Counted, Dropped, HasClose
  <2> QED
    BY <2>3, <2>4
<1>3. CASE Return(t)
  <2>1. drain = "used"
    BY <1>3, UsedBy DEF LogInv, Return
  <2> QED
    BY <1>3, <2>1, LogLetGo DEF Return
<1> QED
  BY <1>1, <1>2, <1>3 DEF ThreadStep

LEMMA LogStep == LogInv /\ [Next]_vars => LogInv'
<1> SUFFICES ASSUME LogInv, [Next]_vars PROVE LogInv'
  OBVIOUS
<1>1. TypeOK'
  BY TypeStep DEF LogInv
<1>2. CASE Ended \/ UNCHANGED vars
  <2>1. UNCHANGED <<running, global, guard, at, drain, late, crashed, sent, queue, task,
                    target>>
    BY <1>2 DEF Ended, vars, dropping, channel
  <2> QED
    BY <1>1, <2>1 DEF LogInv, Numbered, Counted, Dropped, HasClose, Listening, Quiet
<1>3. ASSUME NEW t \in Threads, ThreadStep(t) PROVE LogInv'
  BY <1>1, <1>3, LogThread
<1>4. CASE GuardStep
  BY <1>1, <1>4, LogGuard
<1>5. CASE DropStep
  BY <1>1, <1>5, LogDrop
<1>6. CASE Recv
  BY <1>1, <1>6, LogRecv
<1>7. CASE Written
  BY <1>1, <1>7, LogWritten
<1> QED
  BY <1>2, <1>3, <1>4, <1>5, <1>6, <1>7 DEF Next, TaskStep

LEMMA LogAlways == Spec => []LogInv
BY LogInit, LogStep, PTL DEF Spec

-----------------------------------------------------------------------------
(* Theorems *)

\* When the drain was dropped in time and the runtime did not take the task away,
\* all that was logged has been written, in order, by however many threads.
THEOREM FlushedCorrect == Spec => []Flushed
<1>1. LogInv => Flushed
  <2> SUFFICES ASSUME LogInv, drain = "gone", ~late, task # "cancelled"
               PROVE  target = sent
    BY DEF Flushed
  <2>1. task = "ended"
    BY DEF LogInv, Dropped, Listening, TypeOK
  <2>2. Len(target) = Len(sent)
    BY <2>1 DEF LogInv, Counted
  <2>3. \A i \in 1..Len(sent) : target[i] = sent[i]
    BY <2>2 DEF LogInv, Numbered
  <2> QED
    BY <2>2, <2>3 DEF LogInv, TypeOK
<1> QED
  BY <1>1, LogAlways, PTL

\* Close is the last message of the channel, whoever drops the drain and whatever
\* the threads that are logging do meanwhile.
THEOREM CloseLastCorrect == Spec => []CloseLast
<1>1. LogInv => CloseLast
  BY DEF LogInv, TypeOK, Numbered, CloseLast, Close
<1> QED
  BY <1>1, LogAlways, PTL

\* The unwrap in Async's drop finds the channel open as long as the runtime runs.
THEOREM CloseTakenCorrect == Spec => []CloseTaken
<1>1. LogInv => CloseTaken
  BY DEF LogInv, Dropped, CloseTaken
<1> QED
  BY <1>1, LogAlways, PTL
=============================================================================
