----------------------------- MODULE MCDispatcher -----------------------------
(* The instance of Dispatcher for TLC; no symmetry, as liveness is checked. *)
EXTENDS Dispatcher
=============================================================================
