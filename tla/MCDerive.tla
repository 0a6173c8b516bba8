------------------------------ MODULE MCDerive ------------------------------
(* Constants of the runs of module Derive. *)
EXTENDS Derive

\* No variant has `disable_privdrop`; any variants have it.
NoVariant == {{}}
AnyVariant == SUBSET Variants
=============================================================================
