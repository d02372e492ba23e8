--------------------------- MODULE MCRestartCommand ---------------------------
(* Small instances of RestartCommand.                                       *)
EXTENDS RestartCommand, TLC

(* Nothing distinguishes one UUID from another.                             *)
Symmetry == Permutations(Uuid)
=============================================================================
