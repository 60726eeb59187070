-------------------------- MODULE MCCachedReconcile ---------------------------
(***************************************************************************)
(* Instances of CachedReconcile for TLC.                                   *)
(***************************************************************************)
EXTENDS CachedReconcile

Section(on, env) == [on |-> on, env |-> env]

ThreeSections == {Section(TRUE, 0), Section(TRUE, 1), Section(FALSE, 0)}
=============================================================================
