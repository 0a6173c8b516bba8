--------------------------- MODULE MCDescriptors ---------------------------
(* Instances of module Descriptors for TLC. *)
EXTENDS Descriptors
=============================================================================
