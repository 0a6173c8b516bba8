------------------------------- MODULE EnvLog -------------------------------
(***************************************************************************)
(* The filter of log records (log/src/envlogger.rs) and the value of       *)
(* RUST_LOG that it is made of.  A string is the sequence of its parts     *)
(* between commas; a part has so many fields between equal signs, of which *)
(* the last may name a level and the first a prefix of modules.  The path  *)
(* of a module is the sequence of its characters: a prefix of "ab" is also *)
(* "a".  What may be missing is a sequence of at most one element.         *)
(***************************************************************************)
EXTENDS Naturals, Sequences, SequencesExt

CONSTANT Modules   \* modules that log

Levels == 1..6     \* critical to trace
Info == 4

\* A part of a filter string; level 0 is no level name, and key says that the first
\* field has only characters of a module.
Part(fields, module, key, level) ==
  [fields |-> fields, module |-> module, key |-> key, level |-> level]
JustLevel(level) == Part(1, <<>>, TRUE, level)

InfoString == <<JustLevel(Info)>>

\* The empty string has one part, which names no level.
EmptyString == <<JustLevel(0)>>

\* Directives::from: parts that are no directive are ignored.
Valid(part) ==
  part.level \in Levels /\ (part.fields = 1 \/ (part.fields = 2 /\ part.key))

\* Filter::match_module, for the parts of a string that are directives.
Matching(string, module) ==
  {i \in DOMAIN string : Valid(string[i])
     /\ (string[i].fields = 1 \/ IsPrefix(string[i].module, module))}

\* Directives::is_enabled: the last directive whose module matches decides.
Enabled(string, module, level) ==
  \E i \in Matching(string, module) :
    /\ \A j \in Matching(string, module) : j <= i
    /\ level <= string[i].level

Or(some, other) == IF some = <<>> THEN other ELSE some

\* Logger::with_default_filter: the string that the filter is made of.
FilterString(rustLog, default) == Or(rustLog, default)[1]

\* The records that a filter lets pass.
Passing(string) == {ml \in Modules \X Levels : Enabled(string, ml[1], ml[2])}

\* What a process with this environment logs.  The program makes the configuration of its
\* logger of the foreground flag alone, which leaves the filter at its default.
Logged(rustLog) == Passing(FilterString(rustLog, <<InfoString>>))
=============================================================================
