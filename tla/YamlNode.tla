------------------------------ MODULE YamlNode ------------------------------
(* A node of a yaml document, as parse_yaml.hpp sees it through yaml-cpp:  *)
(* its kind and its content.                                               *)
NoNode == [kind |-> "absent"]
NullNode == [kind |-> "null"]
TextNode(v) == [kind |-> "text", content |-> v]
BlankNode == [kind |-> "blank"]
NumberNode(v) == [kind |-> "number", content |-> v]
MapNode(m) == [kind |-> "map", content |-> m]
SeqNode(s) == [kind |-> "seq", content |-> s]
=============================================================================
