--------------------------- MODULE MCEndpointManager ---------------------------
(* EndpointManager on small instances; callers are interchangeable, and so are *)
(* endpoints where Caches does not tell them apart.                            *)
EXTENDS EndpointManager, TLC

Symmetry == Permutations(Callers) \cup Permutations(Eps)

\* Bounds: one endpoint gets a second adapter; the second failure is that of a dial
\* and ends the behaviour, as it leaves the state as CheckNothing does; and of the
\* answers without an active endpoint, which findAndSetObj ignores, the registry
\* gives one.
FewCases ==
  /\ \A e, f \in Eps : made'[e] = 2 /\ made'[f] = 2 => e = f
  /\ failures < 2 /\ (failures' = 2 => UNCHANGED pc)
  /\ ActiveIn(registry') = {} => \A e \in Eps : registry'[e] = "gone"
===============================================================================
