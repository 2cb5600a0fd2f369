-------------------------------- MODULE MCRip --------------------------------
(* Two routers in a row behind the speaker, joined by one link or by two.  *)
EXTENDS Rip

RowIfaces == {"a0", "a1", "b1"}
RowNode == [i \in RowIfaces |-> IF i = "b1" THEN "B" ELSE "A"]
RowPeer == [i \in RowIfaces |->
  CASE i = "a0" -> "a0" [] i = "a1" -> "b1" [] i = "b1" -> "a1"]
RowDistance == [r \in {"A", "B"} |-> IF r = "A" THEN 1 ELSE 2]

TwinIfaces == RowIfaces \cup {"a2", "b2"}
TwinNode == [i \in TwinIfaces |-> IF i \in {"b1", "b2"} THEN "B" ELSE "A"]
TwinPeer == [i \in TwinIfaces |->
  CASE i = "a2" -> "b2" [] i = "b2" -> "a2" [] OTHER -> RowPeer[i]]

=============================================================================
