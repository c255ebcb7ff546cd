---------------------------- MODULE MCXmlWriter -----------------------------
(* Instances of XmlWriter for TLC.  The second prefix made is a reserved   *)
(* one, as "xml" is at its turn.                                           *)
EXTENDS XmlWriter, TLC

CONSTANTS u, v, xml

MCPrefixes == {"a", "b", "c", "d", "xml", "xmlns"}
MCPrefixAt == [n \in 0..3 |-> << "a", "xml", "b", "c" >>[n + 1]]
Uris == {u, v, xml}
UriSymmetry == Permutations({u, v})
TwoPrefixes == {"a", "d"}
=============================================================================
