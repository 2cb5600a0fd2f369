------------------------------ MODULE MCSwitch ------------------------------
(* Two switches and a trunk p3 -- q1; stations a and b at the first switch, *)
(* c at the second.  Station a may move from p1 to p2.                      *)
EXTENDS Switch

TreeHome == [p \in {"p1", "p2", "p3", "q1", "q2"} |-> IF p \in {"q1", "q2"} THEN "t" ELSE "s"]

TreePeer ==
  LET half == [p1 |-> "a", p2 |-> "b", p3 |-> "q1", q2 |-> "c"]
  IN  [i \in Ports \cup Stations |->
         IF i \in DOMAIN half THEN half[i] ELSE CHOOSE p \in DOMAIN half : half[p] = i]

TreeTraffic ==
  {<<"p1", "a", "all">>, <<"p2", "a", "all">>, <<"p2", "b", "a">>, <<"q2", "c", "group">>}

=============================================================================
