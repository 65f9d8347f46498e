----------------------------- MODULE MCModelTree -----------------------------
(* SCL types for TLC: a node with the object D, and one with E and D. *)
EXTENDS ModelTree

ObjectTypes == {"TD", "TE", "TX", "TY", "TZ"}
AttributeTypes == {"basic", "one", "deep"}
IndexNames == <<"0", "1", "2">>

Array(name, fc, count, type) == [name |-> name, fc |-> fc, count |-> count, type |-> type]
Struct(name, fc, type) == Array(name, fc, 0, type)
Leaf(name, fc) == Struct(name, fc, "basic")
Object(name, type) == [name |-> name, type |-> type]

Structs ==
  [t \in AttributeTypes |->
    CASE t = "basic" -> <<>>
      [] t = "one" -> <<Leaf("i", "")>>
      [] t = "deep" -> <<Leaf("i", ""), Struct("t", "", "one")>>]

SettingAttributes ==
  {<<>>, <<Leaf("a", "ST")>>, <<Leaf("a", "SE")>>,
   <<Leaf("a", "SP"), Leaf("b", "ST"), Leaf("a", "SE")>>,
   <<Leaf("a", "SE"), Struct("s", "SE", "deep")>>,
   <<Struct("u", "CF", "one"), Struct("s", "SE", "deep")>>,
   <<Struct("s", "SE", "deep"), Leaf("a", "ST")>>,
   <<Struct("s", "SP", "deep"), Leaf("b", "ST")>>,
   <<Array("r", "SE", 2, "one"), Leaf("b", "ST")>>}

ArrayAttributes == {<<Array("a", "MX", 2, "one"), Leaf("b", "ST")>>}

(* The objects of D: none, x, or x and y with z below it. *)
SubObjects ==
  {<<>>, <<Object("x", "TX")>>, <<Object("x", "TX"), Object("y", "TY")>>}

File(d, e, s, sdos) ==
  [nodes |-> <<[name |-> "LN1", dos |-> <<Object("D", "TD")>>],
               [name |-> "LN2", dos |-> <<Object("E", "TE"), Object("D", "TD")>>]>>,
   objects |->
     [t \in ObjectTypes |->
       CASE t = "TD" -> [das |-> d, sdos |-> sdos]
         [] t = "TE" -> [das |-> e, sdos |-> <<>>]
         [] t = "TX" -> [das |-> s, sdos |-> <<>>]
         [] t = "TY" -> [das |-> s, sdos |-> <<Object("z", "TZ")>>]
         [] t = "TZ" -> [das |-> s, sdos |-> <<>>]],
   structs |-> Structs]

Models(das) == {File(d, e, s, sdos) : d \in das, e \in das, s \in das, sdos \in SubObjects}

SettingModels ==
  {f \in Models(SettingAttributes) :
     f.objects["TD"].sdos = <<>> => f.objects["TX"].das = <<>>}
ArrayModels == Models(ArrayAttributes)

(* The checked files satisfy the hypothesis of the theorems. *)
ASSUME SettingModelsAssumption == \A f \in SettingModels : DistinctNames(f)

=============================================================================
