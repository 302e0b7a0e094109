----------------------------- MODULE BoundedLog -----------------------------
(***************************************************************************)
(* What a rotated log promises, without index files or file names: a set   *)
(* of generations that grows at its new end and is trimmed at its old end. *)
(***************************************************************************)
EXTENDS Integers

VARIABLES kept,   \* the generations on disk
          gen     \* the last generation that was opened

Init == kept = {} /\ gen = 0

\* The next generation is added.
Append ==
  /\ gen' = gen + 1
  /\ kept' = kept \cup {gen + 1}

\* Some generations are removed, all older than everything that stays.
Trim ==
  /\ kept' \subseteq kept
  /\ \A old \in kept \ kept', new \in kept' : old < new
  /\ UNCHANGED gen

Next == Append \/ Trim

Spec == Init /\ [][Next]_<<kept, gen>>
=============================================================================
