-------------------------- MODULE MCSessionRouting --------------------------
(***************************************************************************)
(* For TLC: symmetry of connections, accounts and client order ids, and a  *)
(* bound on disconnections, which cuts the search and not the model.       *)
(***************************************************************************)
EXTENDS SessionRouting, TLC

RoutingSymmetry ==
  Permutations(Connections) \cup Permutations(Accounts) \cup Permutations(ClientIds)

\* Bound: the last open connection stays, since nobody is left after it to
\* read, to be routed to or to bind and take over what was retained.
SomebodyStays == \E c \in Connections : ~closed[c]
=============================================================================
