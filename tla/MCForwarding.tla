---------------------------- MODULE MCForwarding ----------------------------
(* A host A and two routers in a row.  The routers send net "x" to each    *)
(* other; "g" is an unused address of the subnet between them, which R2    *)
(* has no route to.                                                        *)
EXTENDS Forwarding

MCIfaces == {"a", "r1a", "r1b", "r2a"}

MCPeer == [i \in MCIfaces |->
  CASE i = "a" -> "r1a" [] i = "r1a" -> "a" [] i = "r1b" -> "r2a" [] i = "r2a" -> "r1b"]

MCNode == [i \in MCIfaces |->
  CASE i = "a" -> "A" [] i \in {"r1a", "r1b"} -> "R1" [] i = "r2a" -> "R2"]

MCAddresses == MCIfaces \cup {"x", "g"}

MCOnLink == [i \in MCIfaces |->
  IF i \in {"a", "r1a"} THEN {"a", "r1a"} ELSE {"r1b", "r2a", "g"}]

MCRoutes == [r \in {"R1", "R2"} |-> [d \in MCAddresses |->
  IF r = "R1"
  THEN CASE d = "x"           -> [iface |-> "r1b", hop |-> "r2a"]
         [] d \in {"r2a", "g"} -> [iface |-> "r1b", hop |-> "direct"]
         [] d = "a"           -> [iface |-> "r1a", hop |-> "direct"]
         [] OTHER             -> NoRoute
  ELSE CASE d \in {"x", "a", "r1a"} -> [iface |-> "r2a", hop |-> "r1b"]
         [] d = "r1b"           -> [iface |-> "r2a", hop |-> "direct"]
         [] OTHER             -> NoRoute]]

=============================================================================
