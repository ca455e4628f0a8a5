----------------------------- MODULE MCEventLoop -----------------------------
(***************************************************************************)
(* Model-checking instances of EventLoop.  Descriptors, nodes and remotes  *)
(* are interchangeable: their symmetry is used where no liveness is        *)
(* checked.                                                                *)
(***************************************************************************)
EXTENDS EventLoop, TLC

Symmetry == Permutations(Nodes) \cup Permutations(Fds) \cup Permutations(Remotes)
=============================================================================
