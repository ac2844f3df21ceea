-------------------------- MODULE MCRouteOverrides --------------------------
(***************************************************************************)
(* A small instance of RouteOverrides: two addresses; the domain d drifts  *)
(* from a to b, and e, which a wildcard stands for too, shares b with it   *)
(* and with the RU list.                                                   *)
(***************************************************************************)
EXTENDS RouteOverrides

McAnswers ==
  [x \in Domain |-> IF x = "d" THEN SUBSET {"a", "b"} ELSE {{}, {"b"}}]
McExpand == [w \in Wildcard |-> {"e"}]
McMaxListed == [x \in BypassOffered \cup RouteOffered |-> IF x = "d" THEN 2 ELSE 1]
=============================================================================
