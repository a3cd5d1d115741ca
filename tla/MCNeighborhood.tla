-------------------------- MODULE MCNeighborhood --------------------------
(* Two interfaces of ours; a neighbour with one address, single, which both   *)
(* interfaces hear; a neighbour with two addresses, double and alias; and a   *)
(* two-hop neighbour, far.                                                    *)
EXTENDS Neighborhood, TLC

CONSTANTS single, double, alias, far, eth, wlan

MCLinks == {<<eth, alias>>, <<eth, single>>, <<wlan, single>>}
MCMain == (double :> double) @@ (alias :> double) @@ (single :> single) @@ (far :> far)
===========================================================================
