------------------------------ MODULE LockMode ------------------------------
(***************************************************************************)
(* The five multi-granularity lock modes of src/mode.rs: the compatibility *)
(* matrix that decides every grant, the lattice join that an upgrade       *)
(* resolves to, and covers, which makes a re-acquisition a no-op.          *)
(*                                                                         *)
(* A mode is a string; the two const tables of the source, indexed there   *)
(* through LockMode::index, are records of records indexed by the mode.    *)
(***************************************************************************)
EXTENDS Integers

LockModes == {"IS", "IX", "S", "SIX", "X"}

-----------------------------------------------------------------------------
(* Compatibility: may two different transactions hold these modes at once? *)

COMPAT ==
  [IS  |-> [IS |-> TRUE,  IX |-> TRUE,  S |-> TRUE,  SIX |-> TRUE,  X |-> FALSE],
   IX  |-> [IS |-> TRUE,  IX |-> TRUE,  S |-> FALSE, SIX |-> FALSE, X |-> FALSE],
   S   |-> [IS |-> TRUE,  IX |-> FALSE, S |-> TRUE,  SIX |-> FALSE, X |-> FALSE],
   SIX |-> [IS |-> TRUE,  IX |-> FALSE, S |-> FALSE, SIX |-> FALSE, X |-> FALSE],
   X   |-> [IS |-> FALSE, IX |-> FALSE, S |-> FALSE, SIX |-> FALSE, X |-> FALSE]]

\* Mutant: one cell of the IX row is wrong (IX taken to coexist with S).
compatible_with_IX_S(a, b) == COMPAT[a][b] \/ (a = "IX" /\ b = "S")

compatible_with(a, b) == COMPAT[a][b]

-----------------------------------------------------------------------------
(* The privilege lattice. *)

JOIN ==
  [IS  |-> [IS |-> "IS",  IX |-> "IX",  S |-> "S",   SIX |-> "SIX", X |-> "X"],
   IX  |-> [IS |-> "IX",  IX |-> "IX",  S |-> "SIX", SIX |-> "SIX", X |-> "X"],
   S   |-> [IS |-> "S",   IX |-> "SIX", S |-> "S",   SIX |-> "SIX", X |-> "X"],
   SIX |-> [IS |-> "SIX", IX |-> "SIX", S |-> "SIX", SIX |-> "SIX", X |-> "X"],
   X   |-> [IS |-> "X",   IX |-> "X",   S |-> "X",   SIX |-> "X",   X |-> "X"]]

join(a, b) == JOIN[a][b]

covers(a, b) == join(a, b) = a

is_exclusive(m) == m = "X"

\* Placeholders on a coarse resource for finer locks beneath it.
is_intention(m) == m \in {"IS", "IX", "SIX"}

-----------------------------------------------------------------------------
(* What the variants of the enum are documented to allow on the resource    *)
(* and on what lies beneath it; all of them allow to read parts of it.      *)

ReadsAll(m) == m \in {"S", "SIX", "X"}

\* The parts are locked one by one, further down.
WritesPart(m) == m \in {"IX", "SIX", "X"}

WritesAll(m) == is_exclusive(m)

=============================================================================
