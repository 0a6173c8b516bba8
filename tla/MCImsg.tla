------------------------------- MODULE MCImsg -------------------------------
(* Constants of the runs of module Imsg. *)
EXTENDS Imsg

\* Every receiving task has a thread of its own.
OwnThread == [r \in Receivers |-> r]

\* All receiving tasks are polled by one thread.
OneThread == [r \in Receivers |-> 1]
=============================================================================
