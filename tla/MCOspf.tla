------------------------------- MODULE MCOspf -------------------------------
(* Three routers in a triangle, the speaker at router 1; the two ends of    *)
(* the link between 2 and 3 disagree on the mask, and router 3 started      *)
(* earlier than the others.  Three LSA keys compete for two entries, and    *)
(* the cheapest way from 1 to 2 is by 3.                                    *)
EXTENDS Ospf

TriIfaces == {"o", "a2", "a3", "b1", "b3", "c1", "c2"}

TriNode ==
  [i \in TriIfaces |-> CASE i \in {"o", "a2", "a3"} -> 1
                         [] i \in {"b1", "b3"} -> 2
                         [] i \in {"c1", "c2"} -> 3]

TriPeer ==
  [i \in TriIfaces |-> CASE i = "o"  -> "o"
                         [] i = "a2" -> "b1" [] i = "b1" -> "a2"
                         [] i = "a3" -> "c1" [] i = "c1" -> "a3"
                         [] i = "b3" -> "c2" [] i = "c2" -> "b3"]

TriEnabled == <<<<"o", "a2", "a3">>, <<"b1", "b3">>, <<"c1", "c2">>>>
TriMask    == [i \in TriIfaces |-> IF i = "c2" THEN 16 ELSE 24]
TriScan    == <<2, 2, 1>>

TriKeys  == {"k1", "k2", "k3"}
TriAdv   == [k \in TriKeys |-> CASE k = "k1" -> 1 [] k = "k2" -> 2 [] k = "k3" -> 3]
TriEdges ==
  [k \in TriKeys |-> CASE k = "k1" -> <<{<<2, 3>>, <<3, 1>>}, {<<2, 1>>}>>
                       [] k = "k2" -> <<{<<3, 1>>}, {}>>
                       [] k = "k3" -> <<{<<2, 1>>, <<1, 1>>}, {}>>]

L(k, s) == [key |-> k, seq |-> s]

TriUpdates == {<<L("k1", 1), L("k3", 1)>>, <<L("k1", 2), L("k2", 1)>>}

=============================================================================
