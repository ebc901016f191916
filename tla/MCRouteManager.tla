--------------------------- MODULE MCRouteManager ---------------------------
(***************************************************************************)
(* Configurations of RouteManager for TLC.                                 *)
(***************************************************************************)
EXTENDS RouteManager

CONSTANTS n1, n2, n3, r1, r2

\* Restarts with other networks to exclude, as many as before.
MCSameSize == {[nets |-> <<n1, n2>>, routes |-> <<r1, r2>>],
               [nets |-> <<n2, n3>>, routes |-> <<r1, r2>>]}

\* One configuration, at the highest preference that is accepted.
MCOne == {[nets |-> <<n1, n2>>, routes |-> <<r1>>]}

\* A restart with fewer networks to exclude.
MCFewerNets == {[nets |-> <<n1, n2, n3>>, routes |-> <<r1>>],
                [nets |-> <<n1>>, routes |-> <<r1>>]}

\* A restart with other routes to manage.
MCOtherRoutes == {[nets |-> <<n1>>, routes |-> <<r1, r2>>],
                  [nets |-> <<n1>>, routes |-> <<r1>>]}
=============================================================================
