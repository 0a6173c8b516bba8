------------------------------ MODULE AsyncLog ------------------------------
(***************************************************************************)
(* The asynchronous logger (log/src/lib.rs): async_logger installs a drain *)
(* that queues records for a task, LoggerGuard takes it away again, and    *)
(* the last one to let go of the drain, the guard or a thread that is just *)
(* logging, waits up to a second for the task to write what is queued.     *)
(*                                                                         *)
(* slog-scope keeps the global logger in a shared pointer: a thread that   *)
(* logs holds on to the logger that it has found there until it is done.   *)
(* The guard that slog-scope returned is a field of LoggerGuard and takes  *)
(* the global logger away once more when the fields are dropped.           *)
(***************************************************************************)
EXTENDS Naturals, Sequences

CONSTANTS
  Threads,     \* threads that log
  MaxRecords   \* bound: threads start to log a record while there are fewer

ASSUME AsyncLogAssumption == MaxRecords \in Nat /\ "guard" \notin Threads

VARIABLES
  workers,  \* the runtime has a thread besides the one that drops the guard
  running,  \* the runtime is running
  global,   \* the global logger of slog-scope
  guard,    \* how far LoggerGuard is dropped
  at,       \* what each thread does with the logger it has found
  drain,    \* the Async drain is in use, being dropped, or dropped
  dropper,  \* who drops it: a thread, "guard", or "nobody"
  late,     \* the drop has not waited for the task to end
  crashed,  \* the unwrap of Async's drop has panicked
  sent,     \* records that were queued, in order
  queue,    \* the channel from the drain to the task
  task,     \* what the logging task does
  target    \* records handed to the target, in order

channel == <<sent, queue, task, target>>
dropping == <<drain, dropper, late, crashed>>
vars == <<workers, running, global, guard, at, dropping, channel>>

Record == Nat \ {0}
Close == 0     \* Message::Close

TypeOK ==
  /\ workers \in BOOLEAN /\ running \in BOOLEAN
  /\ late \in BOOLEAN /\ crashed \in BOOLEAN
  /\ global \in {"async", "default", "none"}
  /\ guard \in {"held", "restored", "released", "dropped"}
  /\ at \in [Threads -> {"idle", "found", "logged", "panicked"}]
  /\ drain \in {"used", "closing", "gone"}
  /\ dropper \in Threads \cup {"guard", "nobody"}
  /\ sent \in Seq(Record) /\ target \in Seq(Record)
  /\ queue \in Seq(Record \cup {Close})
  /\ task \in {"recv", "write", "ended", "cancelled"}

\* async_logger has returned.
Init ==
  /\ workers \in BOOLEAN /\ running = TRUE
  /\ global = "async" /\ guard = "held"
  /\ at = [t \in Threads |-> "idle"]
  /\ drain = "used" /\ dropper = "nobody"
  /\ late = FALSE /\ crashed = FALSE
  /\ sent = <<>> /\ queue = <<>> /\ task = "recv" /\ target = <<>>

-----------------------------------------------------------------------------
(* Holding and dropping the drain *)

Listening == task \in {"recv", "write"}

Owners(g, h) ==
  {o \in {"global", "guard"} :
     IF o = "global" THEN g = "async" ELSE h \in {"held", "restored"}}

\* Mutant: threads that are logging are not counted.
UsersOwners(g, h, a) == Owners(g, h)

\* Who holds the logger when the global one is g, the guard is in state h, and the
\* threads do a.
Users(g, h, a) == Owners(g, h) \cup {t \in Threads : a[t] # "idle"}

\* Async's drop up to the join: Close is queued, or its unwrap panics.  It runs
\* where the last user lets go.
LetGo(who) ==
  IF drain = "used" /\ Users(global', guard', at') = {}
  THEN /\ drain' = IF Listening THEN "closing" ELSE "gone"
       /\ dropper' = IF Listening THEN who ELSE dropper
       /\ crashed' = ~Listening
       /\ queue' = IF Listening THEN Append(queue, Close) ELSE queue
       /\ UNCHANGED <<late, sent, task, target>>
  ELSE UNCHANGED <<dropping, channel>>

\* Mutant: the drop does not wait for the task.
JoinedEarly == TRUE

\* The task has ended, which is what drop waits for.
Joined == task \in {"ended", "cancelled"}

DropDone ==
  /\ drain = "closing" /\ Joined
  /\ drain' = "gone" /\ dropper' = "nobody"
  /\ UNCHANGED <<workers, running, global, guard, at, late, crashed, channel>>

\* Mutant: the limit is lifted if the runtime has one thread.
MayTimeOutNever == drain = "closing" /\ workers

\* The second is over, or the waiter has got no runtime to wait with.
MayTimeOut == drain = "closing"

DropLate ==
  /\ MayTimeOut
  /\ drain' = "gone" /\ dropper' = "nobody" /\ late' = TRUE
  /\ UNCHANGED <<workers, running, global, guard, at, crashed, channel>>

-----------------------------------------------------------------------------
(* Logging *)

\* A thread finds the logger that is in force.  What it logs with the default
\* logger, or with none, does not concern the drain.
Find(t) ==
  /\ at[t] = "idle" /\ global = "async" /\ running
  /\ Len(sent) < MaxRecords
  /\ at' = [at EXCEPT ![t] = "found"]
  /\ UNCHANGED <<workers, running, global, guard, dropping, channel>>

\* The drain queues the record; an error is a panic of the fuse around it.
Log(t) ==
  /\ at[t] = "found"
  /\ IF Listening
     THEN /\ at' = [at EXCEPT ![t] = "logged"]
          /\ sent' = Append(sent, Len(sent) + 1)
          /\ queue' = Append(queue, Len(sent) + 1)
     ELSE /\ at' = [at EXCEPT ![t] = "panicked"]
          /\ UNCHANGED <<sent, queue>>
  /\ UNCHANGED <<workers, running, global, guard, dropping, task, target>>

\* The thread returns, or unwinds, and lets go of the logger.
Return(t) ==
  /\ at[t] \in {"logged", "panicked"}
  /\ at' = [at EXCEPT ![t] = "idle"]
  /\ UNCHANGED <<workers, running, global, guard>>
  /\ LetGo(t)

-----------------------------------------------------------------------------
(* LoggerGuard *)

\* Its drop: the default logger is in force.
Restore ==
  /\ guard = "held"
  /\ guard' = "restored" /\ global' = "default"
  /\ UNCHANGED <<workers, running, at>>
  /\ LetGo("guard")

\* The field _logger.
Release ==
  /\ guard = "restored" /\ dropper # "guard"
  /\ guard' = "released"
  /\ UNCHANGED <<workers, running, global, at>>
  /\ LetGo("guard")

\* The field _guard: no logger is in force.
Reset ==
  /\ guard = "released" /\ dropper # "guard"
  /\ guard' = "dropped" /\ global' = "none"
  /\ UNCHANGED <<workers, running, at, dropping, channel>>

\* What becomes of the task at its next recv when the runtime is being shut down: it
\* ends where it waits or yields, but goes on with a message that is there.
AfterShutdown == {"cancelled"} \cup {s \in {"recv"} : queue # <<>>}

\* The main function has returned and the runtime is shut down.
Shutdown ==
  /\ running /\ guard = "dropped"
  /\ running' = FALSE
  /\ task' \in IF task = "recv" THEN AfterShutdown ELSE {task}
  /\ UNCHANGED <<workers, global, guard, at, dropping, sent, queue, target>>

-----------------------------------------------------------------------------
(* The logging task *)

\* Someone polls the task: not the thread that is stuck in drop.
Polled == workers \/ dropper # "guard"

\* Mutant: Close is written like a record.
IsCloseNever == FALSE

IsClose == Head(queue) = Close

Recv ==
  /\ task = "recv" /\ Polled /\ queue # <<>>
  /\ IF IsClose
     THEN task' = "ended" /\ UNCHANGED target
     ELSE task' = "write" /\ target' = Append(target, Head(queue))
  /\ queue' = Tail(queue)
  /\ UNCHANGED <<workers, running, global, guard, at, dropping, sent>>

\* Mutant: an error of the target ends the task.
AfterWriteError == {"ended"}

\* log_str has returned, and its error is ignored.
AfterWrite == IF running THEN {"recv"} ELSE AfterShutdown

Written ==
  /\ task = "write" /\ Polled
  /\ task' \in AfterWrite
  /\ UNCHANGED <<workers, running, global, guard, at, dropping, sent, queue, target>>

Ended ==
  /\ guard = "dropped" /\ drain = "gone" /\ ~running
  /\ \A t \in Threads : at[t] = "idle"
  /\ UNCHANGED vars

GuardStep == Restore \/ Release \/ Reset \/ Shutdown
DropStep == DropDone \/ DropLate
TaskStep == Recv \/ Written
ThreadStep(t) == Find(t) \/ Log(t) \/ Return(t)

Next ==
  \/ GuardStep \/ DropStep \/ TaskStep
  \/ \E t \in Threads : ThreadStep(t)
  \/ Ended

Spec == Init /\ [][Next]_vars

Fairness ==
  /\ WF_vars(Release \/ Reset) /\ WF_vars(DropStep) /\ WF_vars(TaskStep)
  /\ \A t \in Threads : WF_vars(Log(t) \/ Return(t))

FairSpec == Spec /\ Fairness
-----------------------------------------------------------------------------
(* Properties *)

\* Once the drain is dropped in time, everything that was logged with it has been
\* written, in order; also what a thread logged while the guard was dropped.  Only
\* a runtime that is shut down meanwhile takes the task away.
Flushed == drain = "gone" /\ ~late /\ task # "cancelled" => target = sent

\* Nothing is queued behind Close, where nobody would read it.
CloseLast == \A i \in 1..Len(queue) : queue[i] = Close => i = Len(queue)

\* A guard that is being dropped is dropped some day, even if the thread that
\* drops it is the only one that could run the logging task.
DropReturns == guard # "held" ~> guard = "dropped"

\* What is queued is written some day, also after a drop that was late, unless
\* the runtime is shut down.
WrittenSomeDay == \A k \in 1..MaxRecords : Len(sent) >= k ~> Len(target) >= k \/ ~running

\* The logging task is there to take Close when the drain is dropped (the unwrap in
\* Async's drop), unless a thread that was logging drops it when the runtime has
\* been shut down.
CloseTaken == crashed => ~running
=============================================================================
