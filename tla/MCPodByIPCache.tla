---------------------------- MODULE MCPodByIPCache ----------------------------
(* Small instances of the pod cache for TLC. *)
EXTENDS PodByIPCache, TLC

CONSTANTS n1, n2, ip1

\* Names are interchangeable.
Symmetry == Permutations({n1, n2})
=============================================================================
