----------------------------- MODULE MCPbStream -----------------------------
(* Instances of PbStream: one or two messages of different lengths, or none. *)
EXTENDS PbStream

Full == {<<<<11, 12, 13>>>>, <<<<21, 22>>, <<31, 32>>>>}
WithEmpty == Full \cup {<<>>}
=============================================================================
