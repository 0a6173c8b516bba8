------------------------------ MODULE MCProcess ------------------------------
(* Constants of the runs of module Process. *)
EXTENDS Process

\* A line: each child is connected with its neighbours.
Line == [c \in Children |-> {p \in Children : p + 1 = c \/ c + 1 = p}]

\* The two children of examples/simple.rs, the first connected with itself.
SelfConnect == [c \in Children |-> IF c = 1 THEN {1} ELSE {}]
=============================================================================
