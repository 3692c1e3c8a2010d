------------------------------ MODULE MCRouter ------------------------------
(* Neighbors and announcements, with short addresses.                *)
EXTENDS Router

Route(network, length, path, pref, self, origin) ==
    [network |-> network, length |-> length, ASPath |-> path,
     localpref |-> pref, selfOrigin |-> self, origin |-> origin]

(* One neighbor of each kind.  A customer and a peer announce one network, *)
(* and the peer's route is preferred; the provider announces the default   *)
(* route, as in configs/5-1-provider-default-route.conf.                   *)
OneOfEach == <<CUSTOMER, PEER, PROVIDER>>
PolicyRoutes == <<
    {Route(0, 1, <<1, 4>>, 100, TRUE, EGP), Route(1, 1, <<1>>, 100, TRUE, EGP)},
    {Route(0, 1, <<2>>, 200, TRUE, EGP)},
    {Route(0, 0, <<3>>, 100, FALSE, EGP)}>>

(* Two customers whose routes overlap: the second has a longer path to one *)
(* network, another origin of the other, and one to both with a short      *)
(* prefix.                                                                 *)
Two == <<CUSTOMER, CUSTOMER>>
ManyRoutes == <<
    {Route(0, 2, <<1>>, 100, TRUE, EGP), Route(1, 2, <<1>>, 100, TRUE, EGP)},
    {Route(0, 2, <<2, 5>>, 100, TRUE, EGP), Route(1, 2, <<2>>, 100, TRUE, UNK),
     Route(0, 1, <<2>>, 200, FALSE, EGP)}>>

(* The first customer may change its mind about one of its networks.       *)
ChangedRoutes == <<
    {Route(0, 1, <<1>>, 100, TRUE, EGP), Route(0, 1, <<1, 3>>, 100, TRUE, EGP)},
    {Route(1, 1, <<2>>, 100, TRUE, EGP)}>>

(* The customers' routes differ in their origins only.                     *)
OriginRoutes == <<
    {Route(0, 1, <<1>>, 100, TRUE, IGP)},
    {Route(0, 1, <<2>>, 100, TRUE, UNK)}>>

(* With addresses of three bits: a network, its two halves, and two other  *)
(* halves.                                                                 *)
One == <<CUSTOMER>>
NestedRoutes == <<
    {Route(0, 2, <<1>>, 100, TRUE, EGP)} \cup
    {Route(w, 3, <<1>>, 100, TRUE, EGP) : w \in {0, 1, 4, 5}}>>
=============================================================================
