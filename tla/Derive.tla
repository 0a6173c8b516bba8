------------------------------- MODULE Derive -------------------------------
(***************************************************************************)
(* How the derive macro resolves who is connected with whom and what each  *)
(* process is started with (derive_privsep_enum in privsep-derive/src/lib.rs). *)
(*                                                                         *)
(* The input is an enum: variant 0 is the parent, the others are children. *)
(* The resolution walks a HashMap of HashSets, so that the order of the     *)
(* keys and of the entries of each is a different one every time the macro *)
(* runs.  The output is the `connect` table that Parent::connect and       *)
(* Child::new of module Process take as their constant Rows.               *)
(***************************************************************************)
EXTENDS Naturals

CONSTANTS
  K,        \* number of variants
  Unknown,  \* identifiers that are not variants
  NoDrops   \* the sets of variants that may have `disable_privdrop`

Variants == 0..(K - 1)
Children == 1..(K - 1)

ASSUME DeriveAssumption ==
  /\ K \in Nat \ {0}
  /\ Unknown \cap Variants = {}
  /\ NoDrops \subseteq SUBSET Variants

VARIABLES
  attr,     \* the identifiers in the `connect` attribute of each variant
  noDropAll, \* the enum has a `disable_privdrop` attribute
  noDrop,   \* the variants that have one
  named,    \* the enum has a `username` attribute
  first,    \* the first variant is called Parent
  pc,       \* where derive_privsep_enum is
  keys,     \* keys that the walk over temp_map has not come to
  key,      \* the key it is at
  entries,  \* entries of that key it has not come to
  connect,  \* connect_map
  id,       \* the variant to configure
  table,    \* the rows of `connect` that are emitted, as sets
  drops     \* the processes that are told to drop their privileges

input == <<attr, noDropAll, noDrop, named, first>>
walk == <<keys, key, entries, connect>>
output == <<id, table, drops>>
vars == <<input, pc, walk, output>>

TypeOK ==
  /\ attr \in [Variants -> SUBSET (Variants \cup Unknown)]
  /\ noDrop \subseteq Variants
  /\ noDropAll \in BOOLEAN /\ named \in BOOLEAN /\ first \in BOOLEAN
  /\ pc \in {"start", "resolve", "configure", "done", "error"}
  /\ keys \subseteq Variants /\ key \in Variants
  /\ entries \subseteq Variants \cup Unknown
  /\ connect \in [Variants -> SUBSET (Variants \cup Unknown)]
  /\ id \in 0..K
  /\ table \in [Variants -> SUBSET Variants]
  /\ drops \subseteq Variants

Init ==
  /\ attr \in [Variants -> SUBSET (Variants \cup Unknown)]
  /\ noDrop \in NoDrops
  /\ noDropAll \in BOOLEAN /\ named \in BOOLEAN /\ first \in BOOLEAN
  /\ pc = "start"
  /\ keys = {} /\ key = 0 /\ entries = {}
  /\ connect = [v \in Variants |-> {}]
  /\ id = 0
  /\ table = [v \in Variants |-> {}]
  /\ drops = {}

-----------------------------------------------------------------------------
\* The global attributes; connect_map is filled, and temp_map is a copy of it.
Collect ==
  /\ pc = "start"
  /\ IF named \/ noDropAll
     THEN pc' = "resolve" /\ keys' = Variants /\ connect' = attr
     ELSE pc' = "error" /\ UNCHANGED <<keys, connect>>
  /\ UNCHANGED <<input, key, entries, output>>

NextKey ==
  /\ pc = "resolve" /\ entries = {}
  /\ \E k \in keys : keys' = keys \ {k} /\ key' = k /\ entries' = attr[k]
  /\ UNCHANGED <<input, pc, connect, output>>

\* Mutants: the key gets the entry it has already; unknown entries are skipped.
MirrorSelf(e) == [connect EXCEPT ![key] = @ \cup {e}]
KnownAny(e) == TRUE

\* The other side of a connection is entered.
Mirror(e) == [connect EXCEPT ![e] = @ \cup {key}]

\* children.contains(entry), where `children` has the parent as well.
Known(e) == e \in Variants

Resolve ==
  /\ pc = "resolve"
  /\ \E e \in entries :
       IF Known(e)
       THEN connect' = Mirror(e) /\ entries' = entries \ {e} /\ UNCHANGED pc
       ELSE pc' = "error" /\ UNCHANGED <<connect, entries>>
  /\ UNCHANGED <<input, keys, key, output>>

Resolved ==
  /\ pc = "resolve" /\ keys = {} /\ entries = {}
  /\ pc' = "configure"
  /\ UNCHANGED <<input, walk, output>>

\* Mutant: the attribute alone, one side of a connection.
RowOneSided(v) == {c \in Variants : c = 0 \/ c \in attr[v]}

\* child_connect: every process is connected with the parent.
Row(v) == {c \in Variants : c = 0 \/ c \in connect[v]}

\* child_disable_privdrop, which looks at the attributes of the enum twice.
PrivdropDisabled(v) == noDropAll

\* Mutant: the loop runs once too often.
MorePast == id <= K

\* A variant is left to configure.
More == id < K

Configure ==
  /\ pc = "configure" /\ More
  /\ table' = [table EXCEPT ![id] = Row(id)]
  /\ drops' = IF PrivdropDisabled(id) THEN drops ELSE drops \cup {id}
  /\ id' = id + 1
  /\ UNCHANGED <<input, pc, walk>>

Emit ==
  /\ pc = "configure" /\ ~More
  /\ pc' = IF first THEN "done" ELSE "error"
  /\ UNCHANGED <<input, walk, output>>

Finished == pc \in {"done", "error"} /\ UNCHANGED vars

Next == Collect \/ NextKey \/ Resolve \/ Resolved \/ Configure \/ Emit \/ Finished

Spec == Init /\ [][Next]_vars

-----------------------------------------------------------------------------
(* Properties *)

\* Two children agree on whether they are connected, in whatever order the maps
\* are walked: otherwise one would wait for a connection in Child::new that
\* Parent::connect announces to the other one alone.
Agreed ==
  pc = "done" => \A a, b \in Children : b \in table[a] <=> a \in table[b]

\* Children are connected if and only if one of them asks for it ("Connect child
\* with the specified peer").
AsAsked ==
  pc = "done" =>
    \A a, b \in Children : b \in table[a] <=> b \in attr[a] \/ a \in attr[b]

Valid ==
  /\ named \/ noDropAll
  /\ first
  /\ \A v \in Variants : attr[v] \subseteq Variants

\* Whether the enum is accepted depends on the enum alone and not on the order
\* in which the maps are walked.
VerdictOfInput == (pc = "done" => Valid) /\ (pc = "error" => ~Valid)

\* A child with `disable_privdrop` keeps its privileges ("disable privdrop for
\* the program or process").
PrivdropPerProcess == pc = "done" => \A c \in Children : c \in noDrop => c \notin drops
=============================================================================
