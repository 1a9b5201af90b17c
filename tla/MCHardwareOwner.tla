-------------------------- MODULE MCHardwareOwner --------------------------
(***************************************************************************)
(* FileHardwareOwner on three processes (Agent, CLI, GUI) of two tokens.   *)
(***************************************************************************)
EXTENDS HardwareOwner, TLC

Symmetry == Permutations(Proc) \cup Permutations(Token)

=============================================================================
