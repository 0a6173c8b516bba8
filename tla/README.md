# Specifications of privsep-rs

TLA+ models of the privilege separation library in this repository, the TLC
configurations that check them, and proofs checked by TLAPS. Every definition is
translated from the source at this commit; `PROJECT.json` names the lines behind
each one (`map`), the runs, one mutation of the code per property that makes the
property fail (`mutants`), the hazards, and where the code departs from what it
says of itself (`findings`).

## 1. The system

A program that uses the library is an enum of processes. The same binary runs as
the privileged parent and, executed again under another `argv[0]`, as each child.

| Component | State | Operations | Talks to |
|---|---|---|---|
| `Handler` (`privsep/src/imsg.rs`) | a UNIX stream socket, a shutdown flag, a read buffer under a mutex | `pair`, `socketpair`, `from_raw_fd`, `send_message`, `recv_message`, `shutdown` | its twin in another process, through the kernel |
| stream extension (`net/stream.rs`) | none; readiness is tokio's | a send and a receive that wait until the socket takes or has data | `Handler`, kernel |
| control messages (`net/ancillary.rs`) | a caller's byte buffer with its length | add descriptors, walk what was received | stream extension |
| `Fd` (`net/fd.rs`) | one descriptor number | close on drop, duplicate, give up | `Handler`, user code |
| `Parent` (`process.rs`) | pipes and pids of the children | `new` (fork and execute), `connect` (a socketpair for each two children) | children, over their pipes |
| `Child` (`process.rs`) | a pipe to the parent, a `Handler` per peer | `new` (drop privileges, wait for connections), `shutdown` | parent, other children |
| derive macro (`privsep-derive/src/lib.rs`) | `connect_map` while it runs | resolve connections, emit tables, options and `main` | its output is the input of `Parent` and `Child` |
| logging (`log/src/lib.rs`) | the global logger, a queue, a logging task | set, log, flush on drop | slog-scope, tokio |
| filters (`log/src/envlogger.rs`) | a list of directives | parse, look up | logging |
| example and test | the main loops | greet, echo, end | all of the above |

What is hard here:

* **Framing and descriptors in a byte stream.** A stream socket keeps no message
  boundaries; descriptors travel beside the bytes, and the kernel decides how
  reads and writes are cut. A write may be short, two tasks may write or read at
  the same time, a receive may be dropped in the middle by `select!`.
* **A mutex held across an await** serialises receivers and can block a thread.
* **Setting up channels between processes that start in any order**, over pipes
  that carry application messages as soon as the parent is done.
* **Ending together.** Nobody is told to stop: a process learns that another has
  ended from its sockets, and forked children hold copies of sockets for a while.
* **Agreement on the table of connections**, which a macro computes by walking
  hash maps in an arbitrary order and two pieces of code read differently.
* **The flush of the logging queue** with a time limit, from a destructor.
* **What a forked process inherits**: descriptors at numbers nobody chose, an epoll
  instance shared with the parent, privileges, the environment.
* **Descriptor numbers**, which the kernel uses again, which the reactor remembers
  with the file behind them, and which arrive unasked for in a padded byte buffer.

What makes each component correct:

* *imsg*: results are the messages sent, once each, whole and in order; each with
  its own descriptor; nothing complete is lost at the end of the stream; every
  receiver gets on.
* *process*: each child gets each configured connection once and no other, the two
  ends of one socketpair; no message reaches a child that cannot take it; all get
  to their main, or all end.
* *derive*: the table is symmetric and exactly what was asked for; the verdict on
  an enum does not depend on hash order; options apply to what they are put on.
* *startup*: the new program has its pipe and nothing else of the parent, has given up
  all privileges before it listens, and logs what the parent was told to log; the parent's
  own Handlers are not disturbed; a pipe reports the end of a process.
* *log*: what was logged before the guard is dropped is written, in order; the
  logger in force is the one set last.
* *descriptors*: a number is closed once, by its owner, and never after reuse; none
  leaks; a live Handler is woken up.
* *control messages*: the walk over a buffer yields what was put into it.

`PROJECT.json` lists the hazards one by one with their lines.

## 2. Modules

| Module | Models | Checked by | Proved in |
|---|---|---|---|
| `Channel` | what one direction of a pair of Handlers promises | (as a property of `Imsg`) | `ImsgProofs` |
| `Imsg` | `imsg.rs`, with what it uses of `net/stream.rs` and of the kernel | `MCImsg` | `ImsgProofs` |
| `Process` | `process.rs`, with the main functions of `examples/simple.rs` | `MCProcess` | `ProcessProofs` |
| `Derive` | `privsep-derive/src/lib.rs` | `MCDerive` | `DeriveProofs` |
| `AsyncLog` | the asynchronous logger and its guard in `log/src/lib.rs` | `MCAsyncLog` | `AsyncLogProofs` |
| `Ancillary` | the control buffer of `net/ancillary.rs`, as operators | `MCDescriptors` | `AncillaryProofs` |
| `Descriptors` | `net/fd.rs` and all that makes, sends, receives and closes descriptors in `imsg.rs` and `net/stream.rs`; extends `Ancillary` | `MCDescriptors` | `DescriptorsProofs` |
| `EnvLog` | the filter of `log/src/envlogger.rs`, as operators | `MCStartup` | (with `Startup`) |
| `Startup` | `process.rs` between `fork` and the wait for connections; extends `EnvLog` | `MCStartup` | `StartupProofs` |

`Process` takes from `Imsg` that a pipe is a FIFO channel of messages with
descriptors, which is the abstract `Channel` that `Imsg` is shown to implement
for callers like `Parent::connect` (every message small, with a new header and a
descriptor, until the first without). It takes from `Derive` that its constant
`Rows` is symmetric, which is `Agreed` there (`FitCorrect` of `DeriveProofs` states it for
that constant), and from `Startup` that a pipe reports
the end of a process, which is `HangsUp` there. `Imsg` sends at most one descriptor
with a message; `Descriptors` shows what becomes of more of them.

### Imsg

One direction: tasks `Senders` on one Handler, tasks `Receivers` on the other.
The byte stream is not a sequence of bytes but of positions: `msgs` holds for each
message where it starts, how many of its bytes are out, what its header says;
`wrote`, `read` and `consumed` count bytes. All that `recv_message` does depends
on these numbers. If the front of the buffer is no message's first byte, the
header is made of arbitrary bytes, and the length is any number (`LenAtFront`).

| Action | Code |
|---|---|
| `SendMessage` | `send_message` to the first segment that the kernel queues, or to its end |
| `SendMore`, `ShortWrite` | the rest of one `sendmsg`; the comparison with the header and the "short message" error |
| `SendRejected` | reserved id; length beyond `u16` |
| `Close` | the Handler is dropped or the process ends |
| `RecvCall` | entry, up to `lock()` |
| `TakeMessage` | a whole message in the buffer: `split_to`, decoding, return |
| `AwaitData` | not enough: `recv_vectored_with_ancillary`, the mutex is kept |
| `RecvMsg` | data: `advance_mut`, descriptors, back to `lock()` |
| `RecvEof` | `recvmsg` returns 0: `None`, whatever the buffer holds |
| `Cancel` | the future is dropped at its await |

`cur` says which message a sender is writing; `rpc` where a receiver is (`idle`,
`lock`, `await`, `done`); `fdres` is `fd_result`; a descriptor is named by the
number of its message. `results` is the history of return values.

*The kernel* (external) is a Linux AF_UNIX stream socket: `sendmsg` queues
segments of at most `SkbMax` bytes, lets others in between, and returns early if
the queue is full (`Room`); the descriptor goes with the first segment; `recvmsg`
joins segments but stops behind one that had a descriptor, and hands it out with
the first byte of that segment.

*Not modelled in Imsg*: `shutdown` (see Descriptors), `peer_id`, `pid` and `flags`,
which nothing here depends on, more than one descriptor in a message, errors of the
socket other than a short write.

### Process

Process 0 is the parent, `1..N-1` are the children. `ppc` and `cpc` say where
everyone is, `todo` and `half` what `Parent::connect` has still to do, `wait` is
`wait_connections`, `peer` the Handlers a child holds, `chan` the pipes from the
parent. A socketpair is named by the pair of children it was made for.

| Action | Code |
|---|---|
| `Fork`, `ForkDone` | the loop of `Parent::new`; its end |
| `SendLeft`, `SendRight`, `ConnectDone` | one turn of the loop of `Parent::connect`, two sends with an await each |
| `Greet`, `ParentEnds` | the parent's main: a message to each child; SIGCHLD or `None` |
| `Exec` | the forked child up to the loop of `Child::new` |
| `RecvConnect`, `RecvNone`, `Ready` | that loop, its two panics, its end |
| `RecvApp`, `ChildEnds` | the child's main: messages; `None` from anyone |
| `Shutdown` | `Child::shutdown` |
| `ParentFails`, `ChildFails` | a system call fails, or the process is killed |

A pipe reports its end (`PipeClosed`) when the parent is gone, everything was
read, and no child that was forked later still holds a copy of the parent's end,
which it does until it executes. A socket between children reports its end when
nobody holds the other one (`Held`): a child, a message on its way, or the parent
between the two sends.

*Abstracted*: the pipes have no limit (a child has at most N-2 connect messages
waiting); the privilege drop is part of `Exec` or fails; messages between
children and to the parent are not there, since nothing in the setup or the end
waits for them; the program runs in the foreground, where SIGCHLD arrives.
`Fork` forks every child, as `as_array` of the macro sets `connect` for all of them.

### Derive

`attr`, `noDropAll`, `noDrop`, `named` and `first` are the input and never
change. `Collect` reads the attributes of the enum, `NextKey` and `Resolve` walk
the copy of `connect_map` in any order and enter the other side of each
connection, `Configure` emits the row and the options of one variant, `Emit`
accepts or refuses. Names, paths and the generated code are not modelled.

### AsyncLog

Threads that log, the guard, and the task that writes, from the return of
`async_logger` on. `sent` is what was queued, `target` what was written, `queue` the
channel between. A record is its number. The drain is a shared pointer inside a
logger; its users are the global logger, the field `_logger` of the guard, and each
thread that has found it and has not returned (`Users`). The last one to let go
runs `Async::drop` (`LetGo`), wherever that is.

| Action | Code |
|---|---|
| `Find`, `Return` | slog-scope: a thread loads the global logger, and lets go of it |
| `Log` | `Async::log`; an error is turned into a panic by `fuse` |
| `Restore` | `LoggerGuard::drop` sets the default logger |
| `Release`, `Reset` | its fields `_logger` and `_guard` are dropped in this order; the second leaves no global logger |
| `DropDone`, `DropLate` | the join in `Async::drop` returns: the task has ended; the second is over or the waiter has no runtime |
| `Recv`, `Written` | a turn of `AsyncLogger::listen` |
| `Shutdown` | the main function returns after the guard is dropped; the runtime drops the task where it waits or yields; one that finds a message may go on (`AfterShutdown`) |

`workers` says whether the runtime has a thread besides the one that drops the
guard; if not, the task is not polled during that drop (`Polled`).

*Abstracted*: the filter and the target, the text of records, other loggers than
the asynchronous one; one guard at a time.

### Ancillary and Descriptors

A control buffer is a record of capacity, length, flag, and of the headers in it by
offset (`head`); bytes that are no header are not kept. That is enough because all
the code reads through headers, and because it clears what it adds: what is stale
lies behind `length`, where only the growth of the buffer reaches, or is cleared
with it. `Visited` is the walk with `CMSG_FIRSTHDR` and `CMSG_NXTHDR`, which both
`Messages::next` and the search for the end in `add_to_ancillary_data` are;
`Items` cuts the data of one message into units. A length that is not a multiple of
the alignment leaves padding, and in `DataLen` it must not count.

Descriptors is one process. `table` maps numbers to files (open file
descriptions), `owners` is the set of values that will close a number: an `Fd`, a
`Handler`, or code outside of the library. `reactor` is what epoll watches, by
number and file; an entry goes away when it is taken away or when the file is
closed everywhere, also in other processes (`elsewhere`).

Any closed number may be handed out by the kernel (`FreeNumbers`), also one that a
Handler has closed in `shutdown` and will close again when it is dropped. So several
owners may have one number, and an owner may have a number that is closed or open on
another file: `file` is what an owner's number was open on when it was made, `id` tells
the owners of one number apart. Every action then does what the code does to the number:
`Drop` and `Shutdown` close what is open there, `FromRawFd`, `Duplicate` and `Send` take
what is open there, and a Handler whose number is not open on its file cannot
deregister it (`LeftBehind`). `shutAt` remembers the numbers at which a Handler was shut
down until no value has them any more.

| Action | Code |
|---|---|
| `Pair`, `Socketpair`, `FromRawFd`, `Shutdown` | the methods of `Handler`; `socketpair` forgets two registered Handlers, `from_raw_fd` closes what the reactor refuses |
| `Duplicate`, `IntoRawFd`, `Drop` | `Fd`; `Drop` is also that of `Handler` and of other code |
| `Send`, `Recv` | the control buffer in `send_message_internal` and `recv_message`: the first descriptor is returned, the others are closed |
| `AddFds`, `AddCreds`, `UserClear`, `UserSend`, `UserRecv` | a program with a buffer of its own and the blocking `StdUnixStreamExt`, as in the example in the docs of `SocketAncillary` |
| `OpenOther`, `Elsewhere` | other code opens a file; other processes close one |

`recvmsg` (external) puts credentials in front, installs as many descriptors as the
rest of the buffer takes and as there are free numbers, and sets the truncated flag
if any are lost.

*Abstracted*: a program either is on a runtime with Handlers or blocks with its own buffer, since the two
share nothing but the table; the capacity of a buffer is a multiple of the alignment
(`WholeCaps`: the Handler's is 128, `imsg.rs:105` and `:155`; in another one the C library's
walk would skip a last header whose padding is cut off); `UserRecv` makes an `Fd` of each descriptor it walks to;
an item of a message is one number; branches for systems other than Linux.

### EnvLog and Startup

A filter string is the sequence of its parts between commas, a part the number of
its fields and what the first and the last of them name. Of the parts that are
directives and match a module (`Matching`) the last one decides (`Enabled`). `Logged` says what a
process with a given `RUST_LOG` logs: the filter is made of it or else of "info", since
`examples/simple.rs:39`, `:127` and `:207` configure the logger with the foreground flag alone,
and `log_level` gets to a process only as the `RUST_LOG` of a child (`PassedOn`). The path of a
module is the sequence of its characters, of which a directive names a prefix.

Startup has the parent and its children as processes with a descriptor table each,
close-on-exec flags, credentials, root and working directory, and `RUST_LOG`. `watch`
is the epoll instance of the parent's runtime, which a forked child shares while it
has a descriptor of it. Each system call of a child is an action; `ChildPlan` is
their order, `done` how many were made.

| Action | Code |
|---|---|
| `Begin` | the test for root at the top of `Parent::new` |
| `Fork`, `DropRemote`, `ForkDone` | `Handler::pair`, which needs two free numbers, and `fork`; the end of an iteration drops `remote`; the end of the loop |
| `NewSession`, `DupRemote`, `CloseRest`, `Execve` | the child's side of the fork |
| `ExecFails` | the error returns through `Parent::new`, and the Handlers that it holds are dropped in the child |
| `AdoptPipe`, `PrivdropCall` | `Child::new` up to the wait |
| `ParentEnds`, `ChildEnds` | a call fails, or the process is killed |

*Abstracted*: `setsid`, `dup2` and `fcntl` do not fail in a process that was just
forked, whose pipe is open (`ChildEnds` is there for it all the same); the standard
streams are open, which the Rust runtime sees to; `CloseRest` closes all from
`PRIVSEP_FD + 1` on, as `close_fds` documents; the user and its directory exist or
the child ends. What a child does that escaped into the program of the parent is
not modelled beyond its descriptors.

## 3. Runs

| Run | Question | Instance | States |
|---|---|---|---|
| `imsg_stream` | is the stream cut where it was joined, whatever its timing | 1 sender that stops at an error, 1 receiver with dropped calls, 3 messages of 2, 3, 6 bytes and a refused one, ids 9 and 10 | 114 000 |
| `imsg_shared` | may receivers share a Handler, and does everyone get on | 1 sender, 2 receivers on threads of their own, 3 messages up to 2 segments, fairness | 171 000 |
| `imsg_channel` | is it the channel of module `Channel` | 2 senders, 1 receiver, 5 messages, descriptors first | 119 000 |
| `process` | does setup end, is it safe in every order, and do all end together | parent and 3 children in a line, failures, `Child::shutdown`, fairness | 20 000 |
| `derive_order` | does the table depend on hash order | 3 variants, every assignment of attributes, an unknown name | 951 000 |
| `async_log` | is what was logged written, and does the drop return | 2 threads, 3 records, one or more runtime threads, fairness | 2 500 |
| `descriptors` | who owns a number, and does the walk over a control buffer yield what is in it | 4 numbers, 3 files, room for two descriptors in a Handler's buffer, 56 bytes in one of the program's own, two values of one number | 148 000 |
| `startup` | what gets into the new program, and in which state it is when it listens | parent and 2 children, epoll and another descriptor in front of, at and behind 3, with and without privdrop, 2 values of `RUST_LOG` and of `log_level` | 181 000 |
| `imsg_mixed_fds`, `imsg_yield`, `process_self`, `descriptors_reuse` | a statement of the repository that the code does not keep | | violated |

**Bounds.** In Imsg, the header is 2 bytes, a segment 3, the read buffer 5, the
queue is full at 4 and `u16::MAX` is 6. These keep the order of the real values
(16; about 36 K; 65535; about 200 K; 65535) where it matters: a message can be a
header alone, one segment, several segments or too long; a segment can hold the
end of the queue; a read can return half a header, half a payload, several
messages, or stop at a descriptor. Unlike in the code the queue can be smaller
than a message of legal length, so that a write can be short without a slow
receiver; a real one is short when earlier messages are still queued.
`MaxMsgs` bounds the messages: a message interacts with the one before it, the
one behind it and the one whose descriptor a call already holds, so three are
needed, and five in `imsg_channel`, where they are small. `RecvCall` stops at
`MaxMsgs + 1` results, which only a torn stream reaches.
In Process, three children in a line are the fewest with a child that is first in one
pair and second in another, and with two that are not connected, so that an end
has to travel; safety is proved for every number of children and every symmetric
table. In Derive three variants have all shapes
of a connection: parent, self, one-sided, mutual, unknown. In AsyncLog two threads can be before and
behind each other and the guard in letting go of the drain, and three records let
one thread log again after the other.
In Descriptors the sizes of the header, a descriptor, a credential and the alignment
are those of 64-bit Linux. `HandlerCap` is 24 instead of 128, so that a message of
two descriptors fills it, and `UserCap` is 56, so that two messages fit and a third does not;
`MaxBatch` descriptors come with a message, one more than is returned; `MaxHeld`
files are held elsewhere. Handlers are shut down at number 1 only (`ShutNumbers`), as often
as one is there, while fewer than `MaxShared` values have the number: two of them are a
Handler and a value that got its number, of any kind, and a chain of more repeats this.
Three other numbers are where the damage must not get. With four numbers and three files a
batch can find two, one or no number free. In Startup two
children are the fewest of which one inherits the pipe of the other; ten numbers
are enough for the parent's descriptors and never run out.

**Fairness.** Imsg: a `sendmsg` that has begun returns, the sender is dropped some
day (the test's task ends), and each receiver calls again until `None` and is
polled when its mutex is free or its socket ready. No fairness of starting a send,
and none of `Cancel`. That is weak fairness; it suffices although receivers
compete for the mutex, because each of them that gets it consumes messages or
learns of the end. Process: weak fairness of the parent's step and of each child's
step, as the scheduler and the reactor provide; none for failures or `Shutdown`.
`SetupCompletes` leaves out the behaviours in which a process fails or ends.
AsyncLog: a thread that has found the logger logs and returns, a drop that has
begun goes on and its waiter's timer fires, the task is polled when it can be. None
for finding a logger, for beginning to drop the guard, nor for `Shutdown`.
Startup: the parent's loop goes on, and each child makes its next call, since nothing
in it waits; none for ends, nor for a child that has escaped.

**Deadlock** is checked in all runs. `Terminated` and `Finished` are the states
in which everything may stand still: all receivers have seen `None`; all
processes have ended, or are in their main with nothing to do; the macro is done.
In AsyncLog it is `Ended`: the guard is dropped, the runtime shut down, and no thread
logs. It is not checked in Startup, which ends where the wait for connections begins.

## 4. What the runs show

With fixed conditions the code does what it should: framing holds for one sender
that stops at an error however long its messages are, and for any number of
senders of small ones; the end of the stream is never reported early; a
descriptor never comes too late, nor twice; setup gives every child what it
waits for, in every order; a process that ends takes the others with it even if
they share no socket; a record is written before the drop of the drain is done,
also one of a thread that logs while the guard is dropped, unless the second is
over, and even then it is written later if the runtime lives on. Every number has one
owner that closes it, whatever comes in a message, and a Handler that is alive is
registered with the reactor, unless a Handler was shut down at that number: the damage of
the double close does not get to other numbers, nor to later values of the same one
(`OwnersKeep`, `HandlersAwake`, `Adoptable`); no number stays open without an owner even
then (`NoLeak`); the walk over a control buffer yields what is in it,
however often it is used. The new program of a child has its standard streams and
its pipe at 3, whichever numbers the parent used, and has dropped everything it
should when it begins to listen; a forked child whose `execve` fails does not
unregister the parent's Handlers from the epoll instance they share, because
`close_open_fds` has closed its copy of it.

The conditions are real, and the findings are what happens without them:

* **mixed_fds** (`imsg.rs:174-188`). A message without a descriptor followed by one
  with: `recvmsg` returns both messages and the descriptor, the call in progress
  returns the first message with it. `imsg_channel` shows that this needs a
  message without a descriptor in front; `Parent::connect` never sends one.
* **yield** (`imsg.rs:141`). `recv_message` twice on one thread: the second blocks in
  `lock()`, and with it the thread that would poll the first. The future is not
  `Send`, so tasks of one thread (`select!`, `join!`, `LocalSet`) are what there is.
* **self** (`process.rs:228`, `:335`). `#[connect(A)]` on `A` is accepted;
  `Parent::connect` leaves the pair out, `Child::new` waits for it. The first
  message of the parent's main then ends the child.
* **reuse** (`imsg.rs:204`). `Handler::shutdown` closes a number that its socket closes
  again when it is dropped. The trace has `duplicate` get the number in between; the drop
  of the Handler then closes the new `Fd`'s descriptor. A new Handler that gets the number
  is also taken from the reactor, and waits for ever. Nothing in the code keeps a program
  from this.

Two more configurations, which are not among the runs, show statements that the code does not
keep and that can be read off one line of it (`tlc -config MCDerivePrivdrop.cfg MCDerive`,
`tlc -config MCStartupLogLevel.cfg MCStartup`; TLC finds each violated):

* **privdrop** (`privsep-derive/src/lib.rs:173`, `PrivdropPerProcess`). `disable_privdrop` on
  a variant has no effect.
* **log_level** (`examples/simple.rs:39`, `LogLevelObeyed`). `process.rs:44` says "The log_level
  if RUST_LOG is not set." The parent of the example logs from `info` on all the same: it
  makes the logger's configuration of `config.foreground`, not of the `Config`
  (`process.rs:48-56`, which nobody uses), where its children get the `log_level` as their
  `RUST_LOG`. With `log_level: Some("debug")` (`simple.rs:271`) the two differ. So `ChildLogs`
  says what a child logs, and compares it with the parent only where that has a `RUST_LOG`.

Noted while modelling, visible in one step and so without a run:
a short write leaves half a message in the stream (`imsg.rs:118`), and a sender that
goes on, like the one in the test, makes the receiver take the next header for
payload (`imsg_stream` shows that stopping suffices); a thread that is still in a log
call when the runtime is shut down drops the drain itself and panics in the `unwrap`
of `log/src/lib.rs:379` (`CloseTaken` says that this is the only way);
a duplicate of the socket of a Handler that was shut down cannot be adopted under its
number as long as the entry in the reactor stays (`imsg.rs:204`); a child of a parent with neither
`RUST_LOG` nor `log_level` logs nothing, since the empty string is passed on
(`process.rs:188`), where the parent logs from `info` on; a child whose `execve` fails
goes on in the program of the parent (`process.rs:192`), with its pipe open as 3;
id 10 is documented as reserved and is accepted (`imsg.rs:70`, `:232`); a header that
was received and is sent again counts its old length too (`imsg.rs:92`, `:220`), which
the example escapes because its payload is empty; `Child::shutdown` always panics,
since a child has no Handler for itself (`process.rs:365-370`); an end of the stream
behind half a message looks like an orderly one (`imsg.rs:169`); dropping a
`LoggerGuard` sets the default logger and then, with its field `_guard`, resets the
global logger, so that none is in force (`log/src/lib.rs:211-219`).

## 5. Proofs

All theorems hold for every value of the constants that satisfies the named
assumption of the module (`ImsgAssumption`, `ProcessAssumption`,
`DeriveAssumption`, `AsyncLogAssumption`, `StartupAssumption`, `AncillaryAssumption`,
`DescriptorsAssumption`, `WholeCaps`), and the further ones they name. Every invariant of
every passing run, and the refinement of `Channel`, is the subject of one.

**Imsg.** What each theorem assumes besides:

| Theorem | Assumes | Which is |
|---|---|---|
| `TypeCorrect`, `OnceCorrect` | nothing | any traffic |
| `FramingCorrect`, `EndCorrect` | `WholeSends`, `FreshHeaders` | every message fits a segment (below about 36 K, as are connect messages and everything in the example), or there is one sender and it gives up after an error; headers come from `Message::new` |
| `NeverLateCorrect` | these and `OneReceiver` | |
| `FdCorrect`, `ChannelImplemented` | `OneSegment`, `FreshHeaders`, `FdsFirst` | no descriptor behind a message without one, one receiver, a segment fits the buffer, as on the pipe from `Parent::connect` |

The last two cannot be had for messages of several segments: the segments of a message
behind the first carry no descriptor, so that one read may join the end of a message
with the next one and its descriptor.

`TypeCorrect`: the invariant adds to `TypeOK` that a message being written is the
sender's own and has bytes to go. `OnceCorrect`: a descriptor that a call has returned
or holds was taken from a segment that is read, and a segment is read once (`OnceInv`).
`Framing` is not inductive: a result is right because the front of the buffer is the
start of the next message. So `StreamInv` says that messages lie behind each other with
the right length and that only the last one can be incomplete, which is either being
written by the one sender or its last; and `FrontInv` that `consumed` is where message
`Len(results) + 1` starts. `EndCorrect` adds that a receiver waiting for data has found
no complete message in the buffer (`WaitInv`), kept by the mutex. `NeverLateCorrect`
needs that a descriptor in `fd_result` belongs to a message that is still to be returned
(`AheadInv`): a segment is only read while the call waits, and what waits has returned
everything before it. The invariant of `FdCorrect`, `FdInv`,
says how far reading may be ahead of returning: a segment with a descriptor is
read as a whole or not at all, no descriptor beyond that of the next message has
been read, and if that one has, it is in `fd_result` of the call in progress. A
dropped call then costs nothing: it waits, so the next message is not in the
buffer, so no descriptor has been read. `ChannelImplemented` maps
`sent` to the messages and `got` to the results, and each step to `Send`,
`Receive` or a stutter.

**Process.** `NoInvalidPeer`, `ChannelsMatch`, `MainConnected` and
`NoConnectInMain` follow from one invariant, `ConnectInv`: for each child alive,
what it waits for is what the parent has still to send it together with what is
in its pipe, and these are disjoint; a connect message in the pipe carries the end
that belongs to this child; behind a message of the application there is none, and
it is there only when the parent is done; the peers it has are those it was
configured with and does not wait for. Sending moves a connection from the first
set to the second, receiving from the second to the third. `ServedCorrect` draws from it that
nobody is stuck: once `Parent::connect` is through, a child that still waits has in front of its pipe
a connect message it waits for. The assumption
`WellFormed` (the table is symmetric, nobody is connected with itself) is `Agreed` of
Derive for the first half; the second half is what finding *self* is about.
`FitCorrect` of `DeriveProofs` puts both together for the table the macro emits.

**Derive.** `AgreedCorrect`, `AsAskedCorrect` and `VerdictCorrect` follow from
`ResolveInv`: the map holds all attributes, nothing that is not asked for, and the
other side of each entry the walk has come to; the walk has come to an entry if
its key was taken and it is not left of that key.

**AsyncLog.** Records are numbered as they are queued, so that the invariant `LogInv`
can say of each sequence alone what it holds: `sent` and `target` are 1, 2, 3 ...,
the queue goes on where `target` stops, and `Close` is at its end or not in it
(`Numbered`). The lengths add up, and an ended task has left nothing (`Counted`). Once
the drain is being dropped, no logger, guard or thread uses it (`Quiet`), so that
nothing is queued behind `Close`; a drop in time finds the task gone; a cancelled task
and a panic mean that the runtime is (`Dropped`). `FlushedCorrect`,
`CloseLastCorrect` and `CloseTakenCorrect` follow for any number of threads and
records.

**Startup.** Both invariants say what the number of calls that a child has made
determines: `PrivInv` its credentials (the user last, so that nothing before it is
refused; the parent that forks it is root), which gives `ConfinedCorrect` and
`NoneRefusedCorrect`; `FdInv` its descriptors. The standard streams are open in
every process, so that no pipe gets one of their numbers; from `closefrom` on
nothing is open behind 3, so that the epoll instance is closed when `execve` fails
and the Handlers that are then dropped in the child stay registered for the
parent. `OnlyPipeCorrect` and `ParentAwakeCorrect` follow, for any number of
children and any finite or infinite set of numbers with 0 to 3 in it. `TypeInv` adds to
`TypeOK` where the loop of `Parent::new` is, so that there is a child to fork. `LogInv` says
that a child that was executed has in `RUST_LOG` what the parent has put there, the
empty string if it had nothing; `ChildLogsCorrect` follows with what a filter made of
the empty string lets through (`NothingLogged`). `HalvesCorrect` says who can have the half
of a pipe: `HalfInv` follows it from the loop that drops `remote` (`RemoteHeld`: it is the
Handler of its number) through the plan of the child to `close_open_fds`. `DanglingPasses`
concludes that while a pipe does not report the end of a process, somebody is in a step that does
not wait; that such a step is made some day is `HangsUp`.

**Ancillary.** `HoldsMessages(b, ms)` says that the headers of the messages lie behind each
other at aligned offsets, each where the padded one before it ends and the last one
ending at `length`, each with the kind and items of its message; what lies behind
`length` is arbitrary. `Visited` is a recursive function of the offset. That it exists for
every buffer (`WalkExists`, from the end of the buffer down), that it is these offsets
(`ChainVisited`), and hence `WalkYields`, are inductions, which the provers cannot take
from the library, whose rules have an operator as a parameter. Here induction is
stated of sets: one with 0 in it that has the successor of each of its members has all
naturals (`SetInduction`, from `LeastMember`). `AddHolds` needs that the walk over the
longer buffer ends at the old length, where the cleared part begins (`GrownWalk`).
`ReceivedHolds` needs that a buffer ends where a header may begin.

**Descriptors.** `Sound` is one inductive invariant of the table, the owners, `shutAt`, the
reactor and the forgotten files. For the numbers that are not in `shutAt`: an owner's number
is open on its file (`Kept`); no two owners have one number (`Alone`); and a Handler is
registered (`Awake`). For all numbers: every open one has an owner (`Owned`), and what is
registered is a Handler's descriptor or a forgotten file (`Accounted`). No one
of them is inductive without the others: a drop closes no stranger's number because of
`Kept` and `Alone`, and a new registration meets no old entry because of `Accounted`. A
number leaves `shutAt` with its last owner (`Cleared`), so that its next owner is alone
again. `Owned` needs that two owners of one number are
never the same value: of so many owners not all ids up to their number are in use
(`UnusedIs`, from the finiteness of the set). A
fresh file is held nowhere, so that an entry for it does not exist. The step of
`recv_message` uses `ReceivedHolds`: the numbers that are walked are those that
were installed, and so all of them but the first are closed. `BufferSound` is
`HoldsMessages` for the program's own buffer. The six theorems hold for any finite set of
numbers and files, any capacity that is a multiple of the alignment, and any sizes
of headers, descriptors and credentials that `AncillaryAssumption` allows.

**Only model-checked**: liveness (`Delivered`, `EndSeen`, `SetupCompletes`, `FateShared`,
`DropReturns`, `WrittenSomeDay`, `HangsUp`), which needs fairness and `ENABLED`, out of this
prover's reach (`ServedCorrect` and `DanglingPasses` prove the safety halves of two of them); and the four violations, which are counterexamples.

## 6. Plan

Built, in this order: `Channel`, `Imsg`, `Process`, `Derive`, `AsyncLog`, `Ancillary` and
`Descriptors`, `EnvLog` and `Startup`, each with its proofs. Next:

1. Proofs: the safety halves of the other liveness properties: what a receiver that waits
   has not got (`Delivered`), who still holds an end when a process does not see another one end
   (`FateShared`), and that a drop in progress has a step to make (`DropReturns`).
2. `AsyncLog`: several guards that overlap, and `sync_logger`.
3. `Simple`: the echo between three processes with dropped receives, composed of
   instances of `Channel`.

## 7. Not modelled

`daemon` and what a runtime does in a process that was forked without its threads
(`examples/simple.rs:56`; also the child whose `execve` failed): whether that makes
progress is a question about tokio, not about this code. The turns of the loops in
`net/stream.rs` that end in `WouldBlock`: they change nothing. Output and wording of log
targets, error conversions, names and token streams of the macro, the build, and the
branches for systems other than Linux.
