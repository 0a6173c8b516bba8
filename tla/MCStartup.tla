----------------------------- MODULE MCStartup -----------------------------
(* Instances of module Startup for TLC. *)
EXTENDS Startup

\* The modules "a" and "ab".
A == <<"a">>
AB == <<"a", "b">>
MCModules == {A, AB}

\* Not set, "error,ab=trace", and "a=debug,ab=error,=x,-=info,a=b=trace".
MCRustLogs == {<<>>, <<<<JustLevel(2), Part(2, AB, TRUE, 6)>>>>}
MCLogLevels ==
  {<<>>, <<<<Part(2, A, TRUE, 5), Part(2, AB, TRUE, 2), Part(2, <<>>, TRUE, 0),
             Part(2, <<>>, FALSE, 4), Part(3, A, TRUE, 6)>>>>}
=============================================================================
