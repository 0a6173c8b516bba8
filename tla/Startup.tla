------------------------------ MODULE Startup ------------------------------
(***************************************************************************)
(* How one child process comes into being (privsep/src/process.rs): what   *)
(* Parent::new does between fork and execve, and Child::new before it      *)
(* waits for connections, system call by system call.  Module Process has  *)
(* the messages behind it.                                                 *)
(*                                                                         *)
(* Process 0 is the parent.  A descriptor is a file and its close-on-exec  *)
(* flag.  A forked child has a copy of the descriptors and shares the      *)
(* files, among them the epoll instance of the parent's runtime: `watch`   *)
(* is what is registered there, by number and file.                        *)
(***************************************************************************)
EXTENDS EnvLog, FiniteSets

CONSTANTS
  NChildren,   \* number of children
  Numbers,     \* descriptor numbers
  LogLevels,   \* values of the option log_level
  RustLogs     \* values of RUST_LOG in the parent

Children == 1..NChildren
Procs == 0..NChildren

ASSUME StartupAssumption ==
  /\ NChildren \in Nat /\ Numbers \subseteq Nat /\ 0..3 \subseteq Numbers

PRIVSEP_FD == 3
Standard == 0..2

\* Files: standard streams, /dev/null, the epoll instance, what a library has opened,
\* and the parent's and the child's half of the pipe of each child.
Closed == 0
Std == 1
Null == 2
Epoll == 3
Library == 4
Near(c) == 2 * c + 3
Far(c) == 2 * c + 4

Desc(f, cloexec) == [file |-> f, cloexec |-> cloexec]
NoDesc == Desc(Closed, FALSE)

VARIABLES
  options,  \* of the program: privdrop and log_level
  pc,       \* where each process is
  next,     \* the child to fork
  done,     \* how many calls of its plan each child has made
  table,    \* the descriptors of each process
  handlers, \* numbers of the Handlers in each process's run of Parent::new
  watch,    \* what is registered with the parent's runtime
  cred,     \* credentials, root and working directory of each process
  rustLog   \* RUST_LOG of each process

vars == <<options, pc, next, done, table, handlers, watch, cred, rustLog>>

Superuser ==
  [uid |-> "root", gid |-> "root", groups |-> "root", root |-> "system", cwd |-> "outside"]

\* Mutants: the user is changed before the group, and the working directory before
\* the root.
PrivdropUidFirst == <<"user", "chroot", "chdir", "setgroups", "setresuid", "setresgid">>
PrivdropChdirFirst == <<"user", "chdir", "chroot", "setgroups", "setresgid", "setresuid">>

\* The calls of Child::new that drop the privileges, in order.
Privdrop == <<"user", "chroot", "chdir", "setgroups", "setresgid", "setresuid">>

\* All calls of a child: in the fork of the parent, and then in the new program.
ChildPlan ==
  <<"session", "dup", "closefrom", "exec", "cloexec">>
    \o (IF options.privdrop THEN Privdrop ELSE <<>>)

Executed(c) == done[c] >= 4

Fields == [uid : {"root", "user"}, gid : {"root", "user"}, groups : {"root", "user"},
           root : {"system", "jail"}, cwd : {"outside", "inside"}]

TypeOK ==
  /\ pc[0] \in {"begin", "fork", "drop", "main", "gone"}
  /\ \A c \in Children : pc[c] \in {"unborn", "starting", "waiting", "escaped", "refused", "gone"}
  /\ next \in 1..(NChildren + 1)
  /\ done \in [Children -> 0..Len(ChildPlan)]
  /\ table \in [Procs -> [Numbers -> [file : 0..Far(NChildren), cloexec : BOOLEAN]]]
  /\ handlers \in [Procs -> SUBSET Numbers]
  /\ watch \subseteq Numbers \X (0..Far(NChildren))
  /\ cred \in [Procs -> Fields]

-----------------------------------------------------------------------------
(* Descriptors *)

NoTable == [n \in Numbers |-> NoDesc]

IsOpen(t, n) == t[n].file # Closed
Holds(p, f) == \E n \in Numbers : table[p][n].file = f

\* The lowest number that is not open, as a set with at most one.
Lowest(t) ==
  {n \in Numbers : ~IsOpen(t, n) /\ \A m \in Numbers : m < n => IsOpen(t, m)}

\* Every descriptor of t from the first on is closed.
CloseFrom(t, first) == [n \in Numbers |-> IF n >= first THEN NoDesc ELSE t[n]]

\* Mutants: one more is left open; the close-on-exec flags are relied upon.
CloseFromNext(t) == CloseFrom(t, PRIVSEP_FD + 2)
CloseNothing(t) == t

\* close_open_fds: nothing is left but the standard streams and the pipe.
CloseOpenFds(t) == CloseFrom(t, PRIVSEP_FD + 1)

Exec(t) == [n \in Numbers |-> IF t[n].cloexec THEN NoDesc ELSE t[n]]

Init ==
  /\ options \in [privdrop : BOOLEAN, logLevel : LogLevels]
  /\ pc = [p \in Procs |-> IF p = 0 THEN "begin" ELSE "unborn"]
  /\ next = 1 /\ done = [c \in Children |-> 0]
  /\ \E lib \in [3..4 -> {NoDesc, Desc(Library, FALSE)}], epoll \in 3..5 :
       /\ epoll \in 3..4 => lib[epoll] = NoDesc
       /\ table = [p \in Procs |->
            IF p # 0 THEN NoTable
            ELSE [n \in Numbers |-> IF n \in Standard THEN Desc(Std, FALSE)
                                    ELSE IF n = epoll THEN Desc(Epoll, TRUE)
                                    ELSE IF n \in 3..4 THEN lib[n] ELSE NoDesc]]
  /\ handlers = [p \in Procs |-> {}] /\ watch = {}
  /\ \E uid \in {"root", "user"} : cred = [p \in Procs |->
       [uid |-> uid, gid |-> uid, groups |-> uid, root |-> "system", cwd |-> "outside"]]
  /\ \E value \in RustLogs : rustLog = [p \in Procs |-> value]

-----------------------------------------------------------------------------
(* The parent *)

\* Privileges can only be dropped by root.
Begin ==
  /\ pc[0] = "begin"
  /\ pc' = [pc EXCEPT ![0] =
       IF options.privdrop /\ cred[0].uid # "root" THEN "gone" ELSE "fork"]
  /\ UNCHANGED <<options, next, done, table, handlers, watch, cred, rustLog>>

\* Mutant: the loop runs past the last child.
IteratingPast == next <= NChildren + 1

\* The loop of Parent::new is not over.
Iterating == next <= NChildren

\* Handler::pair, which fails if the process is out of numbers, and fork: the child has
\* a copy of everything.
Fork ==
  /\ pc[0] = "fork" /\ Iterating
  /\ \E near \in Lowest(table[0]) :
       LET t == [table[0] EXCEPT ![near] = Desc(Near(next), TRUE)] IN
       \E far \in Lowest(t) :
         LET u == [t EXCEPT ![far] = Desc(Far(next), TRUE)]
             hs == handlers[0] \cup {near, far}
         IN /\ table' = [table EXCEPT ![0] = u, ![next] = u]
            /\ handlers' = [handlers EXCEPT ![0] = hs, ![next] = hs]
            /\ watch' = watch \cup {<<near, Near(next)>>, <<far, Far(next)>>}
  /\ pc' = [pc EXCEPT ![0] = "drop", ![next] = "starting"]
  /\ cred' = [cred EXCEPT ![next] = cred[0]]
  /\ UNCHANGED <<options, next, done, rustLog>>

\* Mutant: the parent keeps the child's half of the pipe.
RemoteKept == {}

\* Handlers that the parent drops at the end of an iteration: `remote`.
Remote == {n \in handlers[0] : table[0][n].file = Far(next)}

DropRemote ==
  /\ pc[0] = "drop"
  /\ table' = [table EXCEPT ![0] =
       [n \in Numbers |-> IF n \in Remote THEN NoDesc ELSE table[0][n]]]
  /\ handlers' = [handlers EXCEPT ![0] = @ \ Remote]
  /\ watch' = {w \in watch : w[1] \notin Remote}
  /\ next' = next + 1
  /\ pc' = [pc EXCEPT ![0] = "fork"]
  /\ UNCHANGED <<options, done, cred, rustLog>>

ForkDone ==
  /\ pc[0] = "fork" /\ ~Iterating
  /\ pc' = [pc EXCEPT ![0] = "main"]
  /\ UNCHANGED <<options, next, done, table, handlers, watch, cred, rustLog>>

\* A process ends, and all of its descriptors are closed.  What it was allowed to do
\* does not matter any more.
Ends(p, how) ==
  /\ pc' = [pc EXCEPT ![p] = how]
  /\ table' = [table EXCEPT ![p] = NoTable]
  /\ handlers' = [handlers EXCEPT ![p] = {}]
  /\ cred' = [cred EXCEPT ![p] = Superuser]

\* The parent fails or is killed.
ParentEnds ==
  /\ pc[0] \in {"fork", "drop", "main"}
  /\ Ends(0, "gone") /\ watch' = {}
  /\ UNCHANGED <<options, next, done, rustLog>>

-----------------------------------------------------------------------------
(* A child *)

Calls(c, call) ==
  pc[c] = "starting" /\ done[c] < Len(ChildPlan) /\ ChildPlan[done[c] + 1] = call

\* The call has been made; after the last one, the child waits for connections.
Made(c) ==
  /\ done' = [done EXCEPT ![c] = @ + 1]
  /\ pc' = [pc EXCEPT ![c] = IF done[c] + 1 = Len(ChildPlan) THEN "waiting" ELSE @]
  /\ UNCHANGED <<options, next, handlers, watch>>

\* new_session: the standard streams are /dev/null if the program is in the background
\* and that opens.
NewSession(c) ==
  /\ Calls(c, "session")
  /\ \E f \in {Std, Null} :
       table' = [table EXCEPT ![c] =
         [n \in Numbers |-> IF n \in Standard THEN Desc(f, FALSE) ELSE table[c][n]]]
  /\ Made(c) /\ UNCHANGED <<cred, rustLog>>

\* dup2(remote, PRIVSEP_FD), and the flag is cleared.  Neither this nor setsid fails
\* in a process that has just been forked.
DupRemote(c) ==
  /\ Calls(c, "dup")
  /\ table' = [table EXCEPT ![c][PRIVSEP_FD] = Desc(Far(c), FALSE)]
  /\ Made(c) /\ UNCHANGED <<cred, rustLog>>

CloseRest(c) ==
  /\ Calls(c, "closefrom")
  /\ table' = [table EXCEPT ![c] = CloseOpenFds(@)]
  /\ Made(c) /\ UNCHANGED <<cred, rustLog>>

\* Mutant: only the environment of the parent is passed on.
PassedOnEnv == Or(rustLog[0], <<EmptyString>>)

\* RUST_LOG of a child.
PassedOn == Or(Or(rustLog[0], options.logLevel), <<EmptyString>>)

Execve(c) ==
  /\ Calls(c, "exec")
  /\ table' = [table EXCEPT ![c] = Exec(@)]
  /\ rustLog' = [rustLog EXCEPT ![c] = PassedOn]
  /\ Made(c) /\ UNCHANGED cred

\* execve fails.  The error goes through Parent::new into the program of the parent,
\* which goes on in the child and drops the copies of the Handlers.
ExecFails(c) ==
  /\ Calls(c, "exec")
  /\ pc' = [pc EXCEPT ![c] = "escaped"]
  /\ watch' =
       IF Holds(c, Epoll) THEN watch \ {<<n, table[c][n].file>> : n \in handlers[c]} ELSE watch
  /\ table' = [table EXCEPT ![c] =
       [n \in Numbers |-> IF n \in handlers[c] THEN NoDesc ELSE table[c][n]]]
  /\ UNCHANGED <<options, next, done, handlers, cred, rustLog>>

\* set_cloexec(PRIVSEP_FD, true) and Handler::from_raw_fd.
AdoptPipe(c) ==
  /\ Calls(c, "cloexec")
  /\ table' = [table EXCEPT ![c][PRIVSEP_FD].cloexec = TRUE]
  /\ Made(c) /\ UNCHANGED <<cred, rustLog>>

\* A call that only root may make.
ForRoot == {"chroot", "setgroups", "setresgid", "setresuid"}

\* The credentials after a call; chdir stays outside if the root is not changed yet.
After(call, cr) ==
  CASE call = "user" -> cr
    [] call = "chroot" -> [cr EXCEPT !.root = "jail"]
    [] call = "chdir" -> [cr EXCEPT !.cwd = IF cr.root = "jail" THEN "inside" ELSE "outside"]
    [] call = "setgroups" -> [cr EXCEPT !.groups = "user"]
    [] call = "setresgid" -> [cr EXCEPT !.gid = "user"]
    [] call = "setresuid" -> [cr EXCEPT !.uid = "user"]

PrivdropCall(c) ==
  \E call \in {Privdrop[i] : i \in 1..Len(Privdrop)} :
    /\ Calls(c, call)
    /\ IF call \in ForRoot /\ cred[c].uid # "root"
       THEN /\ Ends(c, "refused")
            /\ UNCHANGED <<options, next, done, watch, rustLog>>
       ELSE /\ cred' = [cred EXCEPT ![c] = After(call, @)]
            /\ Made(c) /\ UNCHANGED <<table, rustLog>>

\* A call fails in the new program, or the child is killed.
ChildEnds(c) ==
  /\ pc[c] \in {"starting", "waiting", "escaped"}
  /\ Ends(c, "gone") /\ done' = [done EXCEPT ![c] = 0]
  /\ UNCHANGED <<options, next, watch, rustLog>>

-----------------------------------------------------------------------------
ChildCall(c) ==
  \/ NewSession(c) \/ DupRemote(c) \/ CloseRest(c) \/ Execve(c) \/ ExecFails(c)
  \/ AdoptPipe(c) \/ PrivdropCall(c)

Next ==
  \/ Begin \/ Fork \/ DropRemote \/ ForkDone \/ ParentEnds
  \/ \E c \in Children : ChildCall(c) \/ ChildEnds(c)

\* Nothing makes a process wait here.  An escaped child runs on with a runtime whose
\* threads it has not got, and may never end.
Fairness ==
  /\ WF_vars(Begin \/ Fork \/ DropRemote \/ ForkDone)
  /\ \A c \in Children : WF_vars(ChildCall(c))

Spec == Init /\ [][Next]_vars /\ Fairness
-----------------------------------------------------------------------------
(* Properties *)

\* The new program has its standard streams and its own half of its own pipe and
\* nothing else, whatever the parent had open and at whatever number ("we make
\* sure that any additional file descriptors are closed"); where execve failed,
\* no more than that.
OnlyPipe ==
  \A c \in Children :
    LET open == {n \in Numbers : IsOpen(table[c], n)} IN
    /\ pc[c] \in {"starting", "waiting"} /\ Executed(c) =>
         /\ open = 0..PRIVSEP_FD /\ table[c][PRIVSEP_FD].file = Far(c)
         /\ \A n \in Standard : table[c][n].file \in {Std, Null}
    /\ pc[c] = "escaped" => open \subseteq 0..PRIVSEP_FD /\ ~Holds(c, Epoll)

\* The parent's Handlers stay registered with its runtime, even when a child that it
\* has forked drops the copies: Child and parent share the epoll instance.
ParentAwake ==
  pc[0] \in {"fork", "drop", "main"} =>
    \A n \in handlers[0] : <<n, table[0][n].file>> \in watch

\* A child that waits for connections has given up everything: user, group, groups,
\* root and the working directory outside of the new root.
Confined ==
  \A c \in Children : pc[c] = "waiting" /\ options.privdrop =>
    cred[c] = [uid |-> "user", gid |-> "user", groups |-> "user",
               root |-> "jail", cwd |-> "inside"]

\* No call of the privilege drop comes too late for a process that is still allowed
\* to make it.
NoneRefused == \A c \in Children : pc[c] # "refused"

\* What a child logs, whose only source is the RUST_LOG made up for it, while the parent's
\* filter is one of its own: the same as the parent if that has a RUST_LOG, and otherwise
\* what log_level says, or nothing at all without a log_level.
ChildLogs ==
  \A c \in Children : pc[c] \in {"starting", "waiting"} /\ Executed(c) =>
    /\ rustLog[0] # <<>> => Logged(rustLog[c]) = Logged(rustLog[0])
    /\ rustLog[0] = <<>> =>
         Logged(rustLog[c]) =
           IF options.logLevel = <<>> THEN {} ELSE Passing(options.logLevel[1])

\* "The log_level if RUST_LOG is not set": also the parent logs what it says.
LogLevelObeyed ==
  pc[0] = "main" /\ rustLog[0] = <<>> /\ options.logLevel # <<>> =>
    Logged(rustLog[0]) = Passing(options.logLevel[1])

\* Somebody still has the half of a pipe of a process that is gone.
Dangling ==
  \E c \in Children, p \in Procs :
    \/ pc[c] = "gone" /\ Holds(p, Far(c))
    \/ pc[0] = "gone" /\ Holds(p, Near(c))

\* The other end of a pipe sees the end of a process: nobody keeps the half of one
\* that is gone.  Module Process takes this for granted.
HangsUp == []<>~Dangling
=============================================================================
