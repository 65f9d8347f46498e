------------------------------ MODULE ModelTree ------------------------------
(***************************************************************************)
(* The tree of a generated C model: instantiation of data objects and      *)
(* attributes from their types (scl/model_wrapper.go), and the C variables *)
(* written for them (scl/static_model_generator.go).                       *)
(*                                                                         *)
(* Every logical node, data object and data attribute becomes a variable   *)
(* that points to its parent, its next sibling and its first child.  The   *)
(* pointers are names put together at the place that refers to a variable, *)
(* again and apart from the place that writes it; a header declares the    *)
(* variables in a pass of its own.  Setting-group attributes exist twice,  *)
(* with the constraints SG and SE, so the names of SE attributes get an    *)
(* infix "SE_" after the model prefix unless they have it.                 *)
(*                                                                         *)
(* The three passes (parsing, header, C file) are recursive walks over the *)
(* types.  A step of the model is one iteration of their loops, and todo   *)
(* is what the loops on the call stack have still to visit, innermost      *)
(* first.  A name is the path of names from the logical node and the       *)
(* number of infixes in it.  A file whose types are not all declared is    *)
(* refused by the parser and is no input here.                             *)
(***************************************************************************)
EXTENDS Naturals, Sequences, Functions

CONSTANTS
  Inputs,      \* files, see Files
  DoTypes,     \* identifiers of DOType elements
  DaTypes,     \* identifiers of DAType elements and of basic types
  Digits,      \* how the indices of array elements are written, from 0 on
  PrefixFits   \* the model prefix has the eight characters of "iedModel"

(* The functional constraints of SCL; none is written as "". *)
Constraints ==
  {"", "ST", "MX", "CO", "SP", "SG", "SE", "SV", "CF", "DC", "EX", "SR", "BL", "OR"}

DoDefinitions == [name : STRING, type : DoTypes]
DaDefinitions == [name : STRING, fc : Constraints, count : 0..Len(Digits), type : DaTypes]

(* The nodes with the objects of their types; the types by identifier.  A  *)
(* basic type has no sub-attributes.                                       *)
Files ==
  [nodes : Seq([name : STRING, dos : Seq(DoDefinitions)]),
   objects : [DoTypes -> [das : Seq(DaDefinitions), sdos : Seq(DoDefinitions)]],
   structs : [DaTypes -> Seq(DaDefinitions)]]

(* A node has an object: the generator takes the first without asking.  A  *)
(* sub-attribute has no constraint of its own in SCL.                      *)
ASSUME InputsAssumption ==
  /\ Inputs \subseteq Files
  /\ \A f \in Inputs : \A n \in DOMAIN f.nodes : f.nodes[n].dos # <<>>
  /\ \A f \in Inputs : \A t \in DaTypes :
       \A i \in DOMAIN f.structs[t] : f.structs[t][i].fc = ""

ASSUME DigitsAssumption == Digits \in Seq(STRING) /\ IsInjective(Digits)

ASSUME PrefixAssumption == PrefixFits \in BOOLEAN

VARIABLES
  scl,         \* the file
  phase,       \* "parse", "declare", "define", "done"
  todo,        \* what the loops of the pass have still to visit
  list,        \* attributes made so far for the object at the head of todo
  attributes,  \* attributes[t]: the attributes of the objects of type t
  declared,    \* what the header declares
  defs         \* the variables written so far, in order

vars == <<scl, phase, todo, list, attributes, declared, defs>>

-----------------------------------------------------------------------------
(* Names.                                                                  *)

None == [se |-> 0, path |-> <<>>]
Sub(name, part) == [name EXCEPT !.path = Append(@, part)]
LnName(n) == Sub(None, scl.nodes[n].name)
Element(name, j) == Sub(name, Digits[j])

(* The infix is inserted again in a name that has it. *)
MutEdit(name) == [name EXCEPT !.se = @ + 1]

(* The infix goes to character nine.  Whether it is there already is asked *)
(* of the model prefix, whatever its length.                               *)
Edit(name) == IF PrefixFits /\ name.se > 0 THEN name ELSE [name EXCEPT !.se = @ + 1]

DaName(parent, a) ==
  IF a.fc = "SE" THEN Edit(Sub(parent, a.name)) ELSE Sub(parent, a.name)

(* How a sibling or a first attribute is referred to. *)
DaReference(parent, a) ==
  Sub(IF a.fc = "SE" THEN Edit(parent) ELSE parent, a.name)

FirstAttribute(name, das) == IF das = <<>> THEN None ELSE DaReference(name, das[1])

FirstSub(name, subs) == IF subs = <<>> THEN None ELSE Sub(name, subs[1].name)

-----------------------------------------------------------------------------
(* Instantiation.                                                          *)

(* The constraint is the given one or the definition's own. *)
NewDataAttribute(d, fc) == [d EXCEPT !.fc = IF fc = "" THEN @ ELSE fc]

(* Sub-attributes inherit the constraint. *)
SubAttributes(a) ==
  [i \in DOMAIN scl.structs[a.type] |-> NewDataAttribute(scl.structs[a.type][i], a.fc)]

(* No second copy is made for SE. *)
MutCreateDataAttributes(made, d) == Append(made, NewDataAttribute(d, ""))

(* An SP attribute of the same name is kept. *)
MutKeepSp(made, d) ==
  LET twin == IF d.fc = "SE" THEN Append(made, NewDataAttribute(d, "SG")) ELSE made
  IN  Append(twin, NewDataAttribute(d, ""))

(* createDataAttributes, one definition: an SE definition makes an SG      *)
(* attribute first, and its SE attribute takes the place of the first SP   *)
(* one of the same name.                                                   *)
CreateDataAttributes(made, d) ==
  LET twin == IF d.fc = "SE" THEN Append(made, NewDataAttribute(d, "SG")) ELSE made
      attribute == NewDataAttribute(d, "")
      multi == {i \in DOMAIN twin : twin[i].name = d.name /\ twin[i].fc = "SP"}
  IN  IF attribute.fc = "SE" /\ multi # {}
      THEN [twin EXCEPT ![CHOOSE i \in multi : \A j \in multi : i <= j] = attribute]
      ELSE Append(twin, attribute)

-----------------------------------------------------------------------------
(* What the loops visit: an element of the model with its name and the     *)
(* references to its parent and its sibling.                               *)

Item(kind, of, name, parent, sibling) ==
  [kind |-> kind, of |-> of, name |-> name, parent |-> parent, sibling |-> sibling]

LogicalNodes ==
  [n \in DOMAIN scl.nodes |->
    Item("node", scl.nodes[n], LnName(n), None,
         IF n < Len(scl.nodes) THEN LnName(n + 1) ELSE None)]

(* The last sub-object has no sibling. *)
MutObjects(parent, dos, daSibling) ==
  [i \in DOMAIN dos |->
    Item("object", dos[i], Sub(parent, dos[i].name), parent,
         IF i < Len(dos) THEN Sub(parent, dos[i + 1].name) ELSE None)]

(* Sub-objects come before attributes: the last one's sibling is the first *)
(* attribute of their parent.                                              *)
Objects(parent, dos, daSibling) ==
  [i \in DOMAIN dos |->
    Item("object", dos[i], Sub(parent, dos[i].name), parent,
         IF i < Len(dos) THEN Sub(parent, dos[i + 1].name) ELSE daSibling)]

Attributes(parent, das) ==
  [i \in DOMAIN das |->
    Item("attribute", das[i], DaName(parent, das[i]), parent,
         IF i < Len(das) THEN DaReference(parent, das[i + 1]) ELSE None)]

Elements(name, a) ==
  [j \in 1..a.count |->
    Item("element", a, Element(name, j), name,
         IF j < a.count THEN Element(name, j + 1) ELSE None)]

(* What is visited inside an element. *)
NodeChildren(x) == Objects(x.name, x.of.dos, None)

ObjectChildren(x) ==
  LET das == attributes[x.of.type]
  IN  Objects(x.name, scl.objects[x.of.type].sdos, FirstAttribute(x.name, das))
        \o Attributes(x.name, das)

AttributeChildren(x) == Attributes(x.name, SubAttributes(x.of))

At(p, kind) == phase = p /\ todo # <<>> /\ todo[1].kind = kind

-----------------------------------------------------------------------------
(* Parser.Parse and NewDataObject.                                         *)

Init ==
  /\ scl \in Inputs
  /\ phase = "parse"
  /\ todo = LogicalNodes
  /\ list = [next |-> 1, made |-> <<>>]
  /\ attributes = [t \in DoTypes |-> <<>>]
  /\ declared = {}
  /\ defs = <<>>

ParseLogicalNode ==
  /\ At("parse", "node")
  /\ todo' = NodeChildren(todo[1]) \o Tail(todo)
  /\ UNCHANGED <<scl, phase, list, attributes, declared, defs>>

CreateDataAttribute ==
  /\ At("parse", "object")
  /\ LET das == scl.objects[todo[1].of.type].das
     IN  /\ list.next <= Len(das)
         /\ list' = [next |-> list.next + 1,
                     made |-> CreateDataAttributes(list.made, das[list.next])]
  /\ UNCHANGED <<scl, phase, todo, attributes, declared, defs>>

CreateSubDataObjects ==
  /\ At("parse", "object")
  /\ list.next > Len(scl.objects[todo[1].of.type].das)
  /\ attributes' = [attributes EXCEPT ![todo[1].of.type] = list.made]
  /\ list' = [next |-> 1, made |-> <<>>]
  /\ todo' = Objects(todo[1].name, scl.objects[todo[1].of.type].sdos, None) \o Tail(todo)
  /\ UNCHANGED <<scl, phase, declared, defs>>

(* The next pass starts at the logical nodes. *)
ParseEnd ==
  /\ phase = "parse" /\ todo = <<>>
  /\ phase' = "declare" /\ todo' = LogicalNodes
  /\ UNCHANGED <<scl, list, attributes, declared, defs>>

-----------------------------------------------------------------------------
(* printForwardDeclarations: the header.  A name that was declared is      *)
(* skipped with all that is inside.  There is a map per node for objects   *)
(* and one per object for attributes; the paths of different nodes and     *)
(* objects never meet, so one set stands for all of them.                  *)

Exists(x) == \E y \in declared : y.kind = x.kind /\ y.name = x.name

Declare(children) ==
  /\ IF Exists(todo[1])
     THEN todo' = Tail(todo) /\ UNCHANGED declared
     ELSE todo' = children \o Tail(todo) /\ declared' = declared \cup {todo[1]}
  /\ UNCHANGED <<scl, phase, list, attributes, defs>>

DeclareLogicalNode ==
  /\ At("declare", "node")
  /\ declared' = declared \cup {todo[1]}
  /\ todo' = NodeChildren(todo[1]) \o Tail(todo)
  /\ UNCHANGED <<scl, phase, list, attributes, defs>>

DeclareDataObject == At("declare", "object") /\ Declare(ObjectChildren(todo[1]))

DeclareDataAttribute == At("declare", "attribute") /\ Declare(AttributeChildren(todo[1]))

DeclareEnd ==
  /\ phase = "declare" /\ todo = <<>>
  /\ phase' = "define" /\ todo' = LogicalNodes
  /\ UNCHANGED <<scl, list, attributes, declared, defs>>

-----------------------------------------------------------------------------
(* The C file.                                                             *)

Variable(x, child) ==
  [name |-> x.name, parent |-> x.parent, sibling |-> x.sibling, child |-> child]

Write(child, children) ==
  /\ defs' = Append(defs, Variable(todo[1], child))
  /\ todo' = children \o Tail(todo)
  /\ UNCHANGED <<scl, phase, list, attributes, declared>>

(* printLogicalNodeDefinitions; the parent of a node is its device. *)
PrintLogicalNode ==
  /\ At("define", "node")
  /\ Write(Sub(todo[1].name, todo[1].of.dos[1].name), NodeChildren(todo[1]))

(* printDataObjectDefinitions *)
PrintDataObject ==
  /\ At("define", "object")
  /\ LET x == todo[1]
         sdos == scl.objects[x.of.type].sdos
     IN  Write(IF sdos # <<>> THEN FirstSub(x.name, sdos)
               ELSE FirstAttribute(x.name, attributes[x.of.type]),
               ObjectChildren(x))

(* printDataAttributeDefinitions: a plain attribute, *)
PrintDataAttribute ==
  /\ At("define", "attribute") /\ todo[1].of.count = 0
  /\ Write(FirstSub(todo[1].name, SubAttributes(todo[1].of)), AttributeChildren(todo[1]))

(* an array, *)
PrintArray ==
  /\ At("define", "attribute") /\ todo[1].of.count > 0
  /\ Write(Element(todo[1].name, 1), Elements(todo[1].name, todo[1].of))

(* and an element of one, with its own sub-attributes. *)
PrintArrayElement ==
  /\ At("define", "element")
  /\ Write(FirstSub(todo[1].name, SubAttributes(todo[1].of)), AttributeChildren(todo[1]))

PrintEnd ==
  /\ phase = "define" /\ todo = <<>>
  /\ phase' = "done"
  /\ UNCHANGED <<scl, todo, list, attributes, declared, defs>>

Finished == phase = "done" /\ UNCHANGED vars

Next ==
  \/ ParseLogicalNode \/ CreateDataAttribute \/ CreateSubDataObjects \/ ParseEnd
  \/ DeclareLogicalNode \/ DeclareDataObject \/ DeclareDataAttribute \/ DeclareEnd
  \/ PrintLogicalNode \/ PrintDataObject \/ PrintDataAttribute \/ PrintArray
  \/ PrintArrayElement \/ PrintEnd \/ Finished

Spec == Init /\ [][Next]_vars

-----------------------------------------------------------------------------
(* Properties.                                                             *)

Defined(d) == defs[d].name

(* No two variables have the same name, although setting-group attributes  *)
(* appear under two constraints and types may list an attribute twice.     *)
UniqueNames == \A d, e \in DOMAIN defs : Defined(d) = Defined(e) => d = e

(* A variable refers only to names that the header declares or that are    *)
(* defined above it: the generated C file compiles.                        *)
RefsDeclared ==
  \A d \in DOMAIN defs :
    {defs[d].parent, defs[d].sibling, defs[d].child} \ {None}
      \subseteq {x.name : x \in declared} \cup {Defined(e) : e \in 1..d}

(* The hypothesis that makes it true: elements of arrays are not declared. *)
NoArrays(f) ==
  /\ \A t \in DoTypes : \A i \in DOMAIN f.objects[t].das : f.objects[t].das[i].count = 0
  /\ \A t \in DaTypes : \A i \in DOMAIN f.structs[t] : f.structs[t][i].count = 0

(* The C file of a model without arrays compiles, see RefsDeclared. *)
PlainRefsDeclared == NoArrays(scl) => RefsDeclared

(* The variables below variable d. *)
Below(d) == {e \in DOMAIN defs : defs[e].parent = Defined(d)}

(* From every variable, first child and siblings lead to exactly the       *)
(* variables that have it as parent, in the order of the file: the child   *)
(* and every sibling are such variables, a sibling comes later, and each   *)
(* is the child or the sibling of an earlier one.  So no attribute is      *)
(* invisible to the server and no list of children runs in a circle.       *)
TreeComplete ==
  phase = "done" => \A d \in DOMAIN defs :
    /\ defs[d].child # None => \E e \in Below(d) : Defined(e) = defs[d].child
    /\ \A e \in Below(d) :
         /\ defs[e].sibling # None =>
              \E f \in Below(d) : e < f /\ Defined(f) = defs[e].sibling
         /\ \/ Defined(e) = defs[d].child
            \/ \E f \in Below(d) : f < e /\ defs[f].sibling = Defined(e)

(* Every attribute of the edit buffer (SE) has its active copy (SG) of the *)
(* same type, so that a setting can be confirmed and read back.            *)
EditPairs ==
  \A t \in DoTypes : \A i \in DOMAIN attributes[t] :
    attributes[t][i].fc = "SE" =>
      \E j \in DOMAIN attributes[t] :
        attributes[t][j] = [attributes[t][i] EXCEPT !.fc = "SG"]

(* A hypothesis on files: the names in a type differ, except that an       *)
(* attribute may be listed as SP and then as SE.                           *)
DistinctNames(f) ==
  /\ IsInjective([n \in DOMAIN f.nodes |-> f.nodes[n].name])
  /\ \A n \in DOMAIN f.nodes :
       IsInjective([i \in DOMAIN f.nodes[n].dos |-> f.nodes[n].dos[i].name])
  /\ \A t \in DoTypes :
       /\ IsInjective([i \in DOMAIN f.objects[t].sdos |-> f.objects[t].sdos[i].name])
       /\ \A i \in DOMAIN f.objects[t].sdos, j \in DOMAIN f.objects[t].das :
            f.objects[t].sdos[i].name # f.objects[t].das[j].name
       /\ \A i, j \in DOMAIN f.objects[t].das :
            i < j /\ f.objects[t].das[i].name = f.objects[t].das[j].name
              => f.objects[t].das[i].fc = "SP" /\ f.objects[t].das[j].fc = "SE"
  /\ \A t \in DaTypes :
       IsInjective([i \in DOMAIN f.structs[t] |-> f.structs[t][i].name])

=============================================================================
