----------------------------- MODULE MCAsyncLog -----------------------------
(* Instances of module AsyncLog for TLC; the threads are interchangeable, but
   liveness is checked, so that no symmetry is declared. *)
EXTENDS AsyncLog
=============================================================================
