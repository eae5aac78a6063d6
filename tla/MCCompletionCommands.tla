------------------------ MODULE MCCompletionCommands ------------------------
(***************************************************************************)
(* Model checking of CompletionCommands.                                   *)
(***************************************************************************)
EXTENDS CompletionCommands, TLC

\* Finalizer processes are alike.
Symmetry == Permutations(Finalizers)
=============================================================================
