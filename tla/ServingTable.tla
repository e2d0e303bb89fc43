---------------------------- MODULE ServingTable ----------------------------
(***************************************************************************)
(* What the control plane promises about the traffic the injector serves.  *)
(* The table maps each public hostname to the route that answers for it    *)
(* and to the configuration that route was activated with.  A step         *)
(* publishes, moves or withdraws the entry of ONE route; it never takes a  *)
(* hostname from another route and never touches another route's entry     *)
(* (docs/ARCHITECTURE.md, "Atomic activation": unrelated routes are not    *)
(* disturbed).                                                             *)
(*                                                                         *)
(* RouteStore implements this module: its table is what                    *)
(* listActiveConfigs would return.                                         *)
(***************************************************************************)

CONSTANTS RouteIds,    \* the routes' permanent identities
          Hosts,       \* canonical public hostnames
          Configs,     \* the configurations a route may be activated with
          Nobody       \* the entry of a hostname no route answers for

VARIABLE table         \* Hosts -> an entry, or Nobody

Entries == [route : RouteIds, config : Configs]

TableInit == table = [h \in Hosts |-> Nobody]

Owns(r, h) == table[h] # Nobody /\ table[h].route = r

\* Route r now answers for h, and for nothing else, with configuration c.
Publish(r, h, c) ==
    /\ table[h] = Nobody \/ Owns(r, h)
    /\ table' = [k \in Hosts |-> IF k = h THEN [route |-> r, config |-> c]
                                 ELSE IF Owns(r, k) THEN Nobody
                                 ELSE table[k]]

\* Route r was disabled or deleted: it answers for nothing.
Withdraw(r) ==
    table' = [k \in Hosts |-> IF Owns(r, k) THEN Nobody ELSE table[k]]

TableNext ==
    \E r \in RouteIds :
        \/ Withdraw(r)
        \/ \E h \in Hosts, c \in Configs : Publish(r, h, c)

TableSpec == TableInit /\ [][TableNext]_table
=============================================================================
