------------------------------- MODULE Process -------------------------------
(***************************************************************************)
(* How the parent and its children come to be connected to each other, and *)
(* how they end together (privsep/src/process.rs): Parent::new forks the   *)
(* children, each of which executes the program again and waits in         *)
(* Child::new; Parent::connect makes a socketpair for every two children   *)
(* that are to be connected and sends one end to each.                     *)
(*                                                                         *)
(* Process 0 is the parent; 1..N-1 are the children.  `chan` is the parent *)
(* to child direction of the pipe that a child inherits: the channel that  *)
(* module Imsg implements.  What a process does once it is set up is the   *)
(* main function of privsep/examples/simple.rs: the parent greets every    *)
(* child, and everyone stops when a peer does.                             *)
(***************************************************************************)
EXTENDS Naturals, Sequences, FiniteSets

CONSTANTS
  N,           \* number of processes, the parent included
  Rows,        \* Rows[c]: the children that child c is connected with
  MayFail,     \* TRUE if system calls fail and processes are killed
  MayShutdown  \* TRUE if the children call Child::shutdown

Children == 1..(N - 1)

ASSUME ProcessAssumption ==
  /\ N \in Nat \ {0}
  /\ Rows \in [Children -> SUBSET Children]
  /\ MayFail \in BOOLEAN /\ MayShutdown \in BOOLEAN

VARIABLES
  ppc,     \* where the parent is
  next,    \* in Parent::new, the child to fork; in its main, the one to greet
  todo,    \* pairs of children still to be connected
  half,    \* the pair of which only the left end has been sent, as a set
  cpc,     \* where each child is
  wait,    \* wait_connections of each child
  peer,    \* peers[p].handler of each child: the ends of socketpairs it holds
  chan     \* messages on their way from the parent to each child

vars == <<ppc, next, todo, half, cpc, wait, peer, chan>>

\* Mutants: a pair is not put in order, so that it is found from both sides; the
\* first child is skipped with the parent.
PairsUnordered ==
  {pair \in Children \X Children : pair[1] # pair[2] /\ pair[2] \in Rows[pair[1]]}
PairsSkip ==
  {pair \in Children \X Children :
     1 < pair[1] /\ pair[1] < pair[2] /\ pair[2] \in Rows[pair[1]]}

\* Parent::connect's set of pairs: each found from either side, in order.
Pairs ==
  {pair \in Children \X Children :
     pair[1] < pair[2] /\ (pair[2] \in Rows[pair[1]] \/ pair[1] \in Rows[pair[2]])}

\* An end of the socketpair made for a pair: `left` or `right`.
Sides == {"left", "right"}
End(pair, side) == [pair |-> pair, side |-> side]
Ends == [pair : Children \X Children, side : Sides]
NoEnd == [pair |-> <<0, 0>>, side |-> "none"]

\* Mutant: both children are sent the same end.
ConnectSame(pair, side, p) == [kind |-> "connect", peer |-> p, end |-> End(pair, "left")]

\* Message::connect(p) with an end of the pair, and any other message.
Connect(pair, side, p) == [kind |-> "connect", peer |-> p, end |-> End(pair, side)]
App == [kind |-> "app", peer |-> 0, end |-> NoEnd]

Messages == [kind : {"connect", "app"}, peer : Children \cup {0}, end : Ends \cup {NoEnd}]

ParentStates == {"fork", "connect", "main", "gone"}

\* "invalid" and "lost" are the two panics of Child::new, "panicked" is Peer's.
Ended == {"gone", "invalid", "lost", "panicked"}
ChildStates == {"unborn", "forked", "waiting", "main"} \cup Ended

TypeOK ==
  /\ ppc \in ParentStates
  /\ next \in 1..N
  /\ todo \subseteq Children \X Children
  /\ half \subseteq todo
  /\ cpc \in [Children -> ChildStates]
  /\ wait \in [Children -> SUBSET Children]
  /\ peer \in [Children -> [Children -> Ends \cup {NoEnd}]]
  /\ chan \in [Children -> Seq(Messages)]

Init ==
  /\ ppc = "fork"
  /\ next = 1
  /\ todo = Pairs
  /\ half = {}
  /\ cpc = [c \in Children |-> "unborn"]
  /\ wait = [c \in Children |-> {}]
  /\ peer = [c \in Children |-> [p \in Children |-> NoEnd]]
  /\ chan = [c \in Children |-> <<>>]

childVars == <<cpc, wait, peer>>
parentVars == <<ppc, next, todo, half>>

-----------------------------------------------------------------------------
(* The parent *)

Fork ==
  /\ ppc = "fork" /\ next < N
  /\ cpc' = [cpc EXCEPT ![next] = "forked"]
  /\ next' = next + 1
  /\ UNCHANGED <<ppc, todo, half, wait, peer, chan>>

ForkDone ==
  /\ ppc = "fork" /\ next = N
  /\ ppc' = "connect"
  /\ UNCHANGED <<next, todo, half, childVars, chan>>

\* send_message to a child that has ended fails, and the parent with it.
Post(c, m) ==
  IF cpc[c] \in Ended
  THEN ppc' = "gone" /\ UNCHANGED chan
  ELSE chan' = [chan EXCEPT ![c] = Append(@, m)] /\ UNCHANGED ppc

SendLeft ==
  /\ ppc = "connect" /\ half = {}
  /\ \E pair \in todo :
       /\ Post(pair[1], Connect(pair, "left", pair[2]))
       /\ half' = {pair}
  /\ UNCHANGED <<next, todo, childVars>>

SendRight ==
  /\ ppc = "connect"
  /\ \E pair \in half :
       /\ Post(pair[2], Connect(pair, "right", pair[1]))
       /\ todo' = todo \ {pair}
  /\ half' = {}
  /\ UNCHANGED <<next, childVars>>

ConnectDone ==
  /\ ppc = "connect" /\ todo = {}
  /\ ppc' = "main" /\ next' = 1
  /\ UNCHANGED <<todo, half, childVars, chan>>

\* The parent's main sends a message to every child.
Greet ==
  /\ ppc = "main" /\ next < N
  /\ Post(next, App)
  /\ next' = next + 1
  /\ UNCHANGED <<todo, half, childVars>>

\* The parent's main learns of a child that has ended: SIGCHLD or None.
ParentEnds ==
  /\ ppc = "main" /\ next = N
  /\ \E c \in Children : cpc[c] \in Ended
  /\ ppc' = "gone"
  /\ UNCHANGED <<next, todo, half, childVars, chan>>

\* fork, socketpair or sendmsg fails, or the parent is killed.
ParentFails ==
  /\ MayFail /\ ppc # "gone"
  /\ ppc' = "gone"
  /\ UNCHANGED <<next, todo, half, childVars, chan>>

-----------------------------------------------------------------------------
(* The children *)

\* Mutants: the parent is waited for as well; only later children are.
WaitSetParent(c) == Rows[c] \cup {0}
WaitSetLater(c) == {p \in Rows[c] : p > c}

\* The initial wait_connections.
WaitSet(c) == Rows[c]

\* The child executes the program, drops its privileges and starts to wait.
Exec(c) ==
  /\ cpc[c] = "forked"
  /\ cpc' = [cpc EXCEPT ![c] = "waiting"]
  /\ wait' = [wait EXCEPT ![c] = WaitSet(c)]
  /\ UNCHANGED <<parentVars, peer, chan>>

\* Mutant: the loop ends with one connection missing.
ConnectedEarly(c) == Cardinality(wait[c]) <= 1

\* The condition on which the loop of Child::new ends.
Connected(c) == wait[c] = {}

\* One turn of the loop, with a message: anything but the connect message of a
\* peer that is waited for ends the process.
RecvConnect(c) ==
  /\ cpc[c] = "waiting" /\ ~Connected(c) /\ chan[c] # <<>>
  /\ LET m == Head(chan[c]) IN
     IF m.kind = "connect" /\ m.peer \in wait[c]
     THEN /\ wait' = [wait EXCEPT ![c] = @ \ {m.peer}]
          /\ peer' = [peer EXCEPT ![c][m.peer] = m.end]
          /\ UNCHANGED cpc
     ELSE /\ cpc' = [cpc EXCEPT ![c] = "invalid"]
          /\ UNCHANGED <<wait, peer>>
  /\ chan' = [chan EXCEPT ![c] = Tail(@)]
  /\ UNCHANGED parentVars

\* The pipe from the parent reports its end when nobody holds the parent's end.
\* Children that are forked later have a copy of it until they execute.
PipeClosed(c) ==
  /\ ppc = "gone" /\ chan[c] = <<>>
  /\ \A d \in Children : c < d => cpc[d] # "forked"

RecvNone(c) ==
  /\ cpc[c] = "waiting" /\ ~Connected(c) /\ PipeClosed(c)
  /\ cpc' = [cpc EXCEPT ![c] = "lost"]
  /\ UNCHANGED <<parentVars, wait, peer, chan>>

Ready(c) ==
  /\ cpc[c] = "waiting" /\ Connected(c)
  /\ cpc' = [cpc EXCEPT ![c] = "main"]
  /\ UNCHANGED <<parentVars, wait, peer, chan>>

\* The child's main reads from the parent.
RecvApp(c) ==
  /\ cpc[c] = "main" /\ chan[c] # <<>>
  /\ chan' = [chan EXCEPT ![c] = Tail(@)]
  /\ UNCHANGED <<parentVars, childVars>>

Opposite(e) == End(e.pair, CHOOSE s \in Sides : s # e.side)

\* Someone holds this end: a child, the pipe to a child, or the parent, which
\* has both ends of a pair until it has sent both.
Held(e) ==
  \/ \E c \in Children : cpc[c] \notin Ended /\
       \/ \E p \in Children : peer[c][p] = e
       \/ \E i \in 1..Len(chan[c]) : chan[c][i].end = e
  \/ ppc = "connect" /\ e.pair \in half

\* Mutant: the child's main ignores the end of the pipe to the parent.
HangUpSiblings(c) == \E p \in Children : peer[c][p] # NoEnd /\ ~Held(Opposite(peer[c][p]))

\* The child's main gets None from the parent or from another child.
HangUp(c) ==
  \/ PipeClosed(c)
  \/ \E p \in Children : peer[c][p] # NoEnd /\ ~Held(Opposite(peer[c][p]))

ChildEnds(c) ==
  /\ cpc[c] = "main" /\ HangUp(c)
  /\ cpc' = [cpc EXCEPT ![c] = "gone"]
  /\ UNCHANGED <<parentVars, wait, peer, chan>>

\* A system call of the child fails, or the child is killed.
ChildFails(c) ==
  /\ MayFail /\ cpc[c] \in {"forked", "waiting", "main"}
  /\ cpc' = [cpc EXCEPT ![c] = "gone"]
  /\ UNCHANGED <<parentVars, wait, peer, chan>>

\* Child::shutdown takes the Handler of every entry of peers.  There is one for
\* the parent, for every other child, and for the child itself.
Shutdown(c) ==
  /\ MayShutdown /\ cpc[c] = "main"
  /\ cpc' = [cpc EXCEPT ![c] =
       IF \E p \in Children : peer[c][p] = NoEnd THEN "panicked" ELSE "gone"]
  /\ UNCHANGED <<parentVars, wait, peer, chan>>

-----------------------------------------------------------------------------
\* Everything has ended, or everything is set up and waits for messages.
Terminated ==
  /\ \/ ppc = "gone" /\ \A c \in Children : cpc[c] \in Ended \cup {"unborn"}
     \/ /\ ppc = "main" /\ next = N
        /\ \A c \in Children : cpc[c] = "main" /\ chan[c] = <<>>
  /\ UNCHANGED vars

ParentStep ==
  \/ Fork \/ ForkDone \/ SendLeft \/ SendRight \/ ConnectDone \/ Greet \/ ParentEnds

ChildStep(c) ==
  Exec(c) \/ RecvConnect(c) \/ RecvNone(c) \/ Ready(c) \/ RecvApp(c) \/ ChildEnds(c)

Next ==
  \/ ParentStep \/ ParentFails
  \/ \E c \in Children : ChildStep(c) \/ ChildFails(c) \/ Shutdown(c)
  \/ Terminated

Spec == Init /\ [][Next]_vars

\* Every process that can go on does.
Fairness == WF_vars(ParentStep) /\ \A c \in Children : WF_vars(ChildStep(c))

FairSpec == Spec /\ Fairness

-----------------------------------------------------------------------------
(* Properties *)

\* A child is never sent a connect message it does not wait for, whatever the
\* order in which pairs are connected and children start, and never a message
\* of the application before it is connected ("Received invalid peer message").
NoInvalidPeer == \A c \in Children : cpc[c] # "invalid"

\* The handlers that two children have for each other are the two ends of one
\* socketpair.
ChannelsMatch ==
  \A a, b \in Children :
    peer[a][b] # NoEnd /\ peer[b][a] # NoEnd
      => a # b /\ peer[a][b] = Opposite(peer[b][a])

\* In its main, a child has handlers for all children it is configured with and
\* for no other.
MainConnected ==
  \A c \in Children : cpc[c] = "main" =>
    {p \in Children : peer[c][p] # NoEnd} = Rows[c]

\* No connect message is left for the main function of a child.
NoConnectInMain ==
  \A c \in Children : cpc[c] = "main" =>
    \A i \in 1..Len(chan[c]) : chan[c][i].kind = "app"

AnyEnded == ppc = "gone" \/ \E c \in Children : cpc[c] \in Ended

\* Every process gets to its main, unless one of them ends before, and that not
\* because of a message it does not wait for.
SetupCompletes ==
  <>(\/ AnyEnded /\ NoInvalidPeer
     \/ ppc = "main" /\ \A c \in Children : cpc[c] = "main")

\* A process that ends takes all others with it ("Closing the imsg pipes will
\* terminate the program").
FateShared ==
  AnyEnded ~> (ppc = "gone" /\ \A c \in Children : cpc[c] \in Ended \cup {"unborn"})
=============================================================================
