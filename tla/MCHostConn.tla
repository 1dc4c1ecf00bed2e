----------------------------- MODULE MCHostConn -----------------------------
(* HostConn on small sets of callers, connections and addresses for TLC. *)
EXTENDS HostConn, TLC

\* Callers, connections and addresses are interchangeable.
Symmetry == Permutations(Callers) \cup Permutations(Conns) \cup Permutations(Addrs)
=============================================================================
