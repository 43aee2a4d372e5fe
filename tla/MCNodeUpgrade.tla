--------------------------- MODULE MCNodeUpgrade ---------------------------
(***************************************************************************)
(* Clouds of three nodes: three that are upgraded at the same time without *)
(* disturbances, two with a disturbance beside a host that is not upgraded, *)
(* and one alone with several disturbances.                                *)
(***************************************************************************)
EXTENDS NodeUpgrade, TLC

CONSTANTS n1, n2, n3

MCNode == {n1, n2, n3}

Cloud(b, c) == n1 :> "primary" @@ n2 :> b @@ n3 :> c

MCMaxDisturbances ==
  Cloud("secondary", "compute") :> 0
  @@ Cloud("secondary", "other") :> 1
  @@ Cloud("compute", "other") :> 1
  @@ Cloud("other", "other") :> 3

MCRoles == DOMAIN MCMaxDisturbances

=============================================================================
