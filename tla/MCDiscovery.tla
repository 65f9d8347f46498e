----------------------------- MODULE MCDiscovery -----------------------------
(* A small instance of Discovery for TLC. *)
EXTENDS Discovery

(* Device 1 has a logical node with two functional constraints, device 2   *)
(* two logical nodes; names of a logical node alone, or with a constraint  *)
(* only, are skipped.                                                      *)
MCNames ==
  (1 :> {<<1>>, <<1, "ST">>, <<1, "ST", "Mod">>, <<1, "ST", "Mod", "q">>,
         <<1, "CF", "Mod">>})
  @@ (2 :> {<<1>>, <<1, "MX", "TotW">>, <<2, "SP", "NamPlt">>})

Pair(s, v) == [spec |-> s, val |-> v]
Fields(type, n) == Tree(type, [i \in 1..n |-> Leaf])

(* Equal structures, a shorter value, a longer one, an array, nested ones, *)
(* and the ways they can differ.                                           *)
Shapes ==
  { Pair(Fields("struct", 2), Fields("struct", 2)),
    Pair(Fields("struct", 2), Fields("struct", 1)),
    Pair(Fields("struct", 1), Fields("struct", 2)),
    Pair(Fields("array", 1), Fields("array", 2)),
    Pair(Fields("array", 0), Fields("array", 0)),
    Pair(Fields("array", 0), Fields("array", 1)),
    Pair(Fields("array", 1), Fields("struct", 1)),
    Pair(Fields("struct", 1), Leaf),
    Pair(Leaf, Fields("struct", 2)),
    Pair(Tree("array", <<Fields("struct", 2)>>),
         Tree("array", <<Fields("struct", 2), Fields("struct", 1)>>)),
    Pair(Tree("struct", <<Leaf, Fields("array", 1)>>),
         Tree("struct", <<Leaf, Fields("array", 2)>>)),
    Pair(Tree("struct", <<Leaf, Fields("array", 1)>>),
         Tree("struct", <<Leaf, Fields("struct", 1)>>)) }

(* One job at most reads something composed. *)
MCDevices ==
  LET plain == [j \in Jobs |-> Pair(Leaf, Leaf)]
  IN  {[plain EXCEPT ![j] = s] : j \in Jobs, s \in Shapes}

=============================================================================
