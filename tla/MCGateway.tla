----------------------------- MODULE MCGateway -----------------------------
(* Three gateways; a daemon that keeps two IPv4 tunnels and sticks to its  *)
(* gateway, and one with an IPv6 and an IPv4 gateway that compares costs.  *)
EXTENDS Gateway

CONSTANTS ga, gb, gc

MCRank == [g \in Gateways |-> CASE g = ga -> 1 [] g = gb -> 2 [] g = gc -> 3]
Costs(a, b, c) == [g \in Gateways |-> CASE g = ga -> a [] g = gb -> b [] g = gc -> c]
MCTopologies == {Costs(4, 5, 9), Costs(10, 5, 9), Costs(Broken, 5, 17), Costs(4, Broken, None)}

Hna(four, nat, six, up) == [v4 |-> four, nat |-> nat, v6 |-> six, bandwidth |-> up]
From(a, b, c) == [g \in Gateways |-> CASE g = ga -> a [] g = gb -> b [] g = gc -> c]

MCConfigurations ==
  {[families |-> {"v4"}, own |-> {}, use_count |-> 2, thresh |-> 0, takedown |-> 50,
    allow_nat |-> FALSE, stablecount |-> 1,
    hnas |-> From({Hna(TRUE, FALSE, FALSE, TRUE), Hna(TRUE, FALSE, FALSE, FALSE)},
                  {Hna(TRUE, FALSE, FALSE, TRUE), Hna(TRUE, TRUE, FALSE, TRUE)},
                  {Hna(TRUE, FALSE, FALSE, TRUE)})],
   [families |-> {"v4", "v6"}, own |-> {}, use_count |-> 1, thresh |-> 60, takedown |-> 0,
    allow_nat |-> TRUE, stablecount |-> 1,
    hnas |-> From({Hna(TRUE, FALSE, TRUE, TRUE), Hna(FALSE, FALSE, TRUE, TRUE)},
                  {Hna(TRUE, FALSE, TRUE, TRUE), Hna(FALSE, FALSE, FALSE, FALSE)}, {})]}
============================================================================
