--------------------------- MODULE MCMutationGate ---------------------------
(***************************************************************************)
(* Small instances of MutationGate for TLC.                                *)
(***************************************************************************)
EXTENDS MutationGate

CONSTANTS c1, c2, prod

\* c1 changes something on the profile prod; c2 belongs to the flat profile.
MCProfileOf == [c \in Calls |-> IF c = c1 THEN prod ELSE "flat"]

=============================================================================
