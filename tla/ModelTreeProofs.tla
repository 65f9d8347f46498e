--------------------------- MODULE ModelTreeProofs ---------------------------
(***************************************************************************)
(* Proofs about ModelTree, for any files: any number of logical nodes, any *)
(* types, nested to any depth.                                             *)
(***************************************************************************)
EXTENDS ModelTree, WellFoundedInduction, TLAPS

Names == [se : Nat, path : Seq(STRING)]
NodeDefinitions == [name : STRING, dos : Seq(DoDefinitions) \ {<<>>}]

Items ==
  [kind : {"node"}, of : NodeDefinitions, name : Names, parent : Names, sibling : Names]
  \cup [kind : {"object"}, of : DoDefinitions, name : Names, parent : Names, sibling : Names]
  \cup [kind : {"attribute", "element"}, of : DaDefinitions,
        name : Names, parent : Names, sibling : Names]

Variables == [name : Names, parent : Names, sibling : Names, child : Names]

TypeOK ==
  /\ scl \in Inputs
  /\ phase \in {"parse", "declare", "define", "done"}
  /\ todo \in Seq(Items)
  /\ list \in [next : Nat \ {0}, made : Seq(DaDefinitions)]
  /\ attributes \in [DoTypes -> Seq(DaDefinitions)]
  /\ declared \in SUBSET Items
  /\ defs \in Seq(Variables)

-----------------------------------------------------------------------------
(* Sequences.                                                              *)

(* A function on 1..n is a sequence. *)
LEMMA FunctionIsSeq ==
  ASSUME NEW S, NEW n \in Nat, NEW f, f = [i \in 1..n |-> f[i]],
         \A i \in 1..n : f[i] \in S
  PROVE  f \in Seq(S) /\ Len(f) = n /\ DOMAIN f = 1..n
  OBVIOUS

(* A sequence in front of the rest of another. *)
LEMMA FrontIs ==
  ASSUME NEW S, NEW s \in Seq(S), s # <<>>, NEW kids \in Seq(S)
  PROVE  /\ kids \o Tail(s) \in Seq(S)
         /\ Len(kids \o Tail(s)) = Len(kids) + Len(s) - 1
         /\ \A i \in 1..Len(kids) : (kids \o Tail(s))[i] = kids[i]
         /\ \A i \in 2..Len(s) : (kids \o Tail(s))[Len(kids) + i - 1] = s[i]
         /\ \A i \in DOMAIN (kids \o Tail(s)) :
              \/ i \in 1..Len(kids) /\ (kids \o Tail(s))[i] = kids[i]
              \/ i - Len(kids) + 1 \in 2..Len(s) /\ (kids \o Tail(s))[i] = s[i - Len(kids) + 1]
<1>1. Tail(s) \in Seq(S) /\ Len(Tail(s)) = Len(s) - 1
  OBVIOUS
<1>2. \A i \in 1..Len(s) - 1 : Tail(s)[i] = s[i + 1]
  OBVIOUS
<1>3. kids \o Tail(s) \in Seq(S) /\ Len(kids \o Tail(s)) = Len(kids) + Len(s) - 1
  BY <1>1
<1>4. \A i \in 1..Len(kids) : (kids \o Tail(s))[i] = kids[i]
  BY <1>1
<1>5. \A i \in 1..Len(kids) + Len(s) - 1 :
        i > Len(kids) => (kids \o Tail(s))[i] = Tail(s)[i - Len(kids)]
  BY <1>1
<1>6. \A i \in 1..Len(kids) + Len(s) - 1 :
        i > Len(kids) => (kids \o Tail(s))[i] = s[i - Len(kids) + 1]
  BY <1>5, <1>2
<1>7. QED
  BY <1>3, <1>4, <1>6

(* A set of numbers has a smallest one. *)
LEMMA SmallestExists ==
  ASSUME NEW S, S \subseteq Nat, S # {}
  PROVE  \E i \in S : \A j \in S : i <= j
<1> DEFINE R == OpToRel(<, Nat)
<1>1. \A i, j \in Nat : <<i, j>> \in R <=> i < j
  BY DEF OpToRel
<1> HIDE DEF R
<1>2. IsWellFoundedOn(R, Nat)
  BY NatLessThanWellFounded DEF R
<1>3. PICK i \in S : \A j \in S : ~ (<<j, i>> \in R)
  BY <1>2, WFMin
<1>4. i \in Nat /\ \A j \in S : j \in Nat
  OBVIOUS
<1>5. \A j \in S : ~ (j < i)
  BY <1>1, <1>3, <1>4
<1>6. QED
  BY <1>4, <1>5

-----------------------------------------------------------------------------
(* Types.                                                                  *)

LEMMA SubType ==
  ASSUME NEW name \in Names, NEW part \in STRING
  PROVE  /\ Sub(name, part) \in Names
         /\ Sub(name, part).se = name.se
         /\ Sub(name, part).path = Append(name.path, part)
  BY DEF Sub, Names

LEMMA EditType ==
  ASSUME NEW name \in Names
  PROVE  Edit(name) \in Names /\ Edit(name).path = name.path
  BY DEF Edit, Names

LEMMA NoneType == None \in Names
  BY DEF None, Names

LEMMA DaNameType ==
  ASSUME NEW parent \in Names, NEW a \in DaDefinitions
  PROVE  DaName(parent, a) \in Names /\ DaReference(parent, a) \in Names
<1>1. a.name \in STRING
  BY DEF DaDefinitions
<1>2. Sub(parent, a.name) \in Names /\ Edit(parent) \in Names
  BY <1>1, SubType, EditType
<1>3. Edit(Sub(parent, a.name)) \in Names /\ Sub(Edit(parent), a.name) \in Names
  BY <1>1, <1>2, SubType, EditType
<1>4. QED
  BY <1>2, <1>3 DEF DaName, DaReference

LEMMA FileType ==
  ASSUME scl \in Inputs
  PROVE  /\ scl.nodes \in Seq(NodeDefinitions)
         /\ \A t \in DoTypes : /\ scl.objects[t].das \in Seq(DaDefinitions)
                               /\ scl.objects[t].sdos \in Seq(DoDefinitions)
         /\ \A t \in DaTypes : scl.structs[t] \in Seq(DaDefinitions)
<1> DEFINE nodes == scl.nodes
           S == [name : STRING, dos : Seq(DoDefinitions)]
<1>1. scl \in Files /\ \A n \in DOMAIN nodes : nodes[n].dos # <<>>
  BY InputsAssumption
<1>2. nodes \in Seq(S)
  BY <1>1 DEF Files
<1>3. /\ \A t \in DoTypes : /\ scl.objects[t].das \in Seq(DaDefinitions)
                             /\ scl.objects[t].sdos \in Seq(DoDefinitions)
      /\ \A t \in DaTypes : scl.structs[t] \in Seq(DaDefinitions)
  BY <1>1 DEF Files
<1> HIDE DEF nodes
<1>4. \A n \in 1..Len(nodes) : nodes[n] \in S /\ nodes[n].dos # <<>>
  <2> HIDE DEF S
  <2>1. DOMAIN nodes = 1..Len(nodes) /\ \A n \in 1..Len(nodes) : nodes[n] \in S
    BY <1>2
  <2>2. QED
    BY <1>1, <2>1
<1>5. ASSUME NEW n \in 1..Len(nodes)
      PROVE  nodes[n] \in NodeDefinitions
  <2>1. nodes[n] \in S /\ nodes[n].dos # <<>>
    BY <1>4
  <2>2. nodes[n] = [name |-> nodes[n].name, dos |-> nodes[n].dos]
    BY <2>1
  <2>3. nodes[n].name \in STRING /\ nodes[n].dos \in Seq(DoDefinitions) \ {<<>>}
    BY <2>1
  <2>4. QED
    BY ONLY <2>2, <2>3 DEF NodeDefinitions
<1>6. nodes = [n \in 1..Len(nodes) |-> nodes[n]] /\ Len(nodes) \in Nat
  BY <1>2
<1>7. nodes \in Seq(NodeDefinitions)
  BY ONLY <1>5, <1>6, FunctionIsSeq
<1>8. QED
  BY <1>3, <1>7 DEF nodes

LEMMA ObjectsType ==
  ASSUME NEW parent \in Names, NEW dos \in Seq(DoDefinitions), NEW last \in Names
  PROVE  /\ Objects(parent, dos, last) \in Seq(Items)
         /\ Len(Objects(parent, dos, last)) = Len(dos)
<1>0. \A i \in 1..Len(dos) : dos[i] \in DoDefinitions
  OBVIOUS
<1>1. \A i \in 1..Len(dos) : dos[i] \in DoDefinitions /\ dos[i].name \in STRING
  BY <1>0 DEF DoDefinitions
<1>2. \A i \in 1..Len(dos) : Sub(parent, dos[i].name) \in Names
  BY <1>1, SubType
<1>3. \A i \in 1..Len(dos) : Objects(parent, dos, last)[i] \in Items
  BY <1>1, <1>2 DEF Objects, Items, Item
<1>4. QED
  <2>1. Objects(parent, dos, last) = [i \in 1..Len(dos) |-> Objects(parent, dos, last)[i]]
    BY DEF Objects
  <2>2. QED
    BY <1>3, <2>1, FunctionIsSeq

LEMMA AttributesType ==
  ASSUME NEW parent \in Names, NEW das \in Seq(DaDefinitions)
  PROVE  /\ Attributes(parent, das) \in Seq(Items)
         /\ Len(Attributes(parent, das)) = Len(das)
<1>1. \A i \in 1..Len(das) : das[i] \in DaDefinitions
  OBVIOUS
<1>2. \A i \in 1..Len(das) :
        DaName(parent, das[i]) \in Names /\ DaReference(parent, das[i]) \in Names
  BY <1>1, DaNameType
<1>3. \A i \in 1..Len(das) : Attributes(parent, das)[i] \in Items
  BY <1>1, <1>2, NoneType DEF Attributes, Items, Item
<1>4. QED
  <2>1. Attributes(parent, das) = [i \in 1..Len(das) |-> Attributes(parent, das)[i]]
    BY DEF Attributes
  <2>2. Len(das) \in Nat
    OBVIOUS
  <2>3. QED
    BY ONLY <1>3, <2>1, <2>2, FunctionIsSeq

LEMMA ElementType ==
  ASSUME NEW name \in Names, NEW j \in 1..Len(Digits)
  PROVE  /\ Element(name, j) \in Names
         /\ Element(name, j).se = name.se
         /\ Element(name, j).path = Append(name.path, Digits[j])
<1>1. Digits[j] \in STRING
  BY DigitsAssumption
<1>2. QED
  BY <1>1, SubType DEF Element

LEMMA ElementsType ==
  ASSUME NEW name \in Names, NEW a \in DaDefinitions
  PROVE  Elements(name, a) \in Seq(Items) /\ Len(Elements(name, a)) = a.count
<1>1. a.count \in Nat /\ a.count <= Len(Digits)
  BY DigitsAssumption DEF DaDefinitions
<1>2. \A j \in 1..a.count : Element(name, j) \in Names
  BY <1>1, ElementType, DigitsAssumption
<1>3. \A j \in 1..a.count : Elements(name, a)[j] \in Items
  BY <1>1, <1>2, NoneType DEF Elements, Items, Item
<1>4. QED
  BY <1>1, <1>3, FunctionIsSeq DEF Elements

LEMMA NewDataAttributeType ==
  ASSUME NEW d \in DaDefinitions, NEW fc \in Constraints
  PROVE  /\ NewDataAttribute(d, fc) \in DaDefinitions
         /\ NewDataAttribute(d, fc).name = d.name
         /\ NewDataAttribute(d, fc).count = d.count
         /\ NewDataAttribute(d, fc).type = d.type
         /\ NewDataAttribute(d, fc).fc = IF fc = "" THEN d.fc ELSE fc
  BY DEF NewDataAttribute, DaDefinitions

LEMMA SubAttributesType ==
  ASSUME TypeOK, NEW a \in DaDefinitions
  PROVE  /\ SubAttributes(a) \in Seq(DaDefinitions)
         /\ Len(SubAttributes(a)) = Len(scl.structs[a.type])
<1>1. a.type \in DaTypes /\ a.fc \in Constraints
  BY DEF DaDefinitions
<1>2. scl.structs[a.type] \in Seq(DaDefinitions)
  BY <1>1, FileType DEF TypeOK
<1> DEFINE subs == scl.structs[a.type]
<1>3. \A i \in 1..Len(subs) : SubAttributes(a)[i] \in DaDefinitions
  <2>1. \A i \in 1..Len(subs) : subs[i] \in DaDefinitions
    BY <1>2
  <2>2. \A i \in 1..Len(subs) : SubAttributes(a)[i] = NewDataAttribute(subs[i], a.fc)
    BY <1>2 DEF SubAttributes
  <2>3. QED
    BY <1>1, <2>1, <2>2, NewDataAttributeType
<1>4. SubAttributes(a) = [i \in 1..Len(subs) |-> SubAttributes(a)[i]]
  BY <1>2 DEF SubAttributes
<1>5. QED
  BY <1>2, <1>3, <1>4, FunctionIsSeq

LEMMA LogicalNodesType ==
  ASSUME scl \in Inputs
  PROVE  LogicalNodes \in Seq(Items) /\ Len(LogicalNodes) = Len(scl.nodes)
<1>1. scl.nodes \in Seq(NodeDefinitions)
  BY FileType
<1>0. \A n \in 1..Len(scl.nodes) : scl.nodes[n] \in NodeDefinitions
  BY <1>1
<1>2. \A n \in 1..Len(scl.nodes) : scl.nodes[n] \in NodeDefinitions /\ scl.nodes[n].name \in STRING
  BY <1>0 DEF NodeDefinitions
<1>3. \A n \in 1..Len(scl.nodes) : LnName(n) \in Names
  BY <1>2, SubType, NoneType DEF LnName
<1>4. \A n \in 1..Len(scl.nodes) : LogicalNodes[n] \in Items
  BY <1>1, <1>2, <1>3, NoneType DEF LogicalNodes, Items, Item
<1>5. LogicalNodes = [n \in 1..Len(scl.nodes) |-> LogicalNodes[n]] /\ Len(scl.nodes) \in Nat
  BY <1>1 DEF LogicalNodes
<1>6. QED
  BY ONLY <1>4, <1>5, FunctionIsSeq

(* The twin of an SE definition comes first. *)
Twin(made, d) == IF d.fc = "SE" THEN Append(made, NewDataAttribute(d, "SG")) ELSE made

LEMMA TwinType ==
  ASSUME NEW made \in Seq(DaDefinitions), NEW d \in DaDefinitions
  PROVE  /\ Twin(made, d) \in Seq(DaDefinitions)
         /\ Len(Twin(made, d)) = IF d.fc = "SE" THEN Len(made) + 1 ELSE Len(made)
         /\ \A i \in 1..Len(made) : Twin(made, d)[i] = made[i]
         /\ d.fc = "SE" => Twin(made, d)[Len(made) + 1] = NewDataAttribute(d, "SG")
<1>1. "SG" \in Constraints
  BY DEF Constraints
<1>2. NewDataAttribute(d, "SG") \in DaDefinitions
  BY ONLY <1>1, d \in DaDefinitions, NewDataAttributeType
<1>3. QED
  BY <1>2 DEF Twin

(* One definition: the attribute is appended, or takes the place of an SP  *)
(* attribute of the same name.                                             *)
LEMMA CreateIs ==
  ASSUME NEW made \in Seq(DaDefinitions), NEW d \in DaDefinitions
  PROVE  \/ /\ CreateDataAttributes(made, d) = Append(Twin(made, d), d)
            /\ d.fc = "SE" => \A i \in 1..Len(Twin(made, d)) :
                 ~ (Twin(made, d)[i].name = d.name /\ Twin(made, d)[i].fc = "SP")
         \/ /\ d.fc = "SE"
            /\ \E i \in 1..Len(Twin(made, d)) :
                 /\ Twin(made, d)[i].name = d.name /\ Twin(made, d)[i].fc = "SP"
                 /\ CreateDataAttributes(made, d) = [Twin(made, d) EXCEPT ![i] = d]
<1> DEFINE twin == Twin(made, d)
           multi == {i \in DOMAIN twin : twin[i].name = d.name /\ twin[i].fc = "SP"}
           first == CHOOSE i \in multi : \A j \in multi : i <= j
<1>1. NewDataAttribute(d, "") = d
  BY DEF NewDataAttribute, DaDefinitions
<1>2. CreateDataAttributes(made, d) =
        IF d.fc = "SE" /\ multi # {} THEN [twin EXCEPT ![first] = d] ELSE Append(twin, d)
  BY <1>1 DEF CreateDataAttributes, Twin
<1>4. DOMAIN twin = 1..Len(twin)
  BY TwinType
<1>3. multi # {} => first \in multi
  <2>1. multi \subseteq Nat
    BY <1>4
  <2>2. multi # {} => \E i \in multi : \A j \in multi : i <= j
    BY <2>1, SmallestExists
  <2>3. QED
    BY <2>2
<1>5. QED
  BY <1>2, <1>3, <1>4

LEMMA CreateType ==
  ASSUME NEW made \in Seq(DaDefinitions), NEW d \in DaDefinitions
  PROVE  CreateDataAttributes(made, d) \in Seq(DaDefinitions)
<1> DEFINE twin == Twin(made, d)
<1>1. twin \in Seq(DaDefinitions)
  BY TwinType
<1> HIDE DEF twin
<1>2. Append(twin, d) \in Seq(DaDefinitions)
  BY <1>1
<1>3. \A i \in 1..Len(twin) : [twin EXCEPT ![i] = d] \in Seq(DaDefinitions)
  BY <1>1
<1>4. CASE CreateDataAttributes(made, d) = Append(twin, d)
  BY <1>2, <1>4
<1>5. CASE CreateDataAttributes(made, d) # Append(twin, d)
  <2>1. PICK i \in 1..Len(twin) : CreateDataAttributes(made, d) = [twin EXCEPT ![i] = d]
    BY <1>5, CreateIs DEF twin
  <2>2. QED
    BY <1>3, <2>1
<1>6. QED
  BY <1>4, <1>5

LEMMA ItemType ==
  ASSUME NEW x \in Items
  PROVE  /\ x.kind \in {"node", "object", "attribute", "element"}
         /\ x.name \in Names /\ x.parent \in Names /\ x.sibling \in Names
         /\ x.kind = "node" => x.of \in NodeDefinitions
         /\ x.kind = "object" => x.of \in DoDefinitions
         /\ x.kind \in {"attribute", "element"} => x.of \in DaDefinitions
  BY DEF Items

LEMMA FirstType ==
  ASSUME NEW name \in Names
  PROVE  /\ \A das \in Seq(DaDefinitions) :
              FirstAttribute(name, das) \in Names /\ FirstSub(name, das) \in Names
         /\ \A dos \in Seq(DoDefinitions) : FirstSub(name, dos) \in Names
<1>1. ASSUME NEW das \in Seq(DaDefinitions)
      PROVE  FirstAttribute(name, das) \in Names /\ FirstSub(name, das) \in Names
  <2>1. CASE das = <<>>
    BY <2>1, NoneType DEF FirstAttribute, FirstSub
  <2>2. CASE das # <<>>
    <3>1. das[1] \in DaDefinitions
      BY <2>2
    <3>2. das[1].name \in STRING
      BY <3>1 DEF DaDefinitions
    <3>3. DaReference(name, das[1]) \in Names /\ Sub(name, das[1].name) \in Names
      BY <3>1, <3>2, DaNameType, SubType
    <3>4. QED
      BY <2>2, <3>3 DEF FirstAttribute, FirstSub
  <2>3. QED
    BY <2>1, <2>2
<1>2. ASSUME NEW dos \in Seq(DoDefinitions)
      PROVE  FirstSub(name, dos) \in Names
  <2>1. CASE dos = <<>>
    BY <2>1, NoneType DEF FirstSub
  <2>2. CASE dos # <<>>
    <3>1. dos[1] \in DoDefinitions
      BY <2>2
    <3>2. dos[1].name \in STRING
      BY <3>1 DEF DoDefinitions
    <3>3. QED
      BY <2>2, <3>2, SubType DEF FirstSub
  <2>3. QED
    BY <2>1, <2>2
<1>3. QED
  BY <1>1, <1>2

LEMMA ChildrenType ==
  ASSUME TypeOK, NEW x \in Items
  PROVE  /\ x.kind = "node" => NodeChildren(x) \in Seq(Items)
         /\ x.kind = "object" => ObjectChildren(x) \in Seq(Items)
         /\ x.kind = "object" =>
              Objects(x.name, scl.objects[x.of.type].sdos, None) \in Seq(Items)
         /\ x.kind \in {"attribute", "element"} => AttributeChildren(x) \in Seq(Items)
         /\ x.kind \in {"attribute", "element"} => Elements(x.name, x.of) \in Seq(Items)
<1>1. x.name \in Names
  BY ItemType
<1>2. ASSUME x.kind = "node"
      PROVE  NodeChildren(x) \in Seq(Items)
  <2>1. x.of.dos \in Seq(DoDefinitions)
    BY <1>2, ItemType DEF NodeDefinitions
  <2>2. QED
    BY <1>1, <2>1, NoneType, ObjectsType DEF NodeChildren
<1>3. ASSUME x.kind = "object"
      PROVE  /\ ObjectChildren(x) \in Seq(Items)
             /\ Objects(x.name, scl.objects[x.of.type].sdos, None) \in Seq(Items)
  <2>1. x.of.type \in DoTypes
    BY <1>3, ItemType DEF DoDefinitions
  <2>2. scl.objects[x.of.type].sdos \in Seq(DoDefinitions)
    BY <2>1, FileType DEF TypeOK
  <2>3. attributes[x.of.type] \in Seq(DaDefinitions)
    BY <2>1 DEF TypeOK
  <2>4. FirstAttribute(x.name, attributes[x.of.type]) \in Names
    BY <1>1, <2>3, FirstType
  <2>5. Objects(x.name, scl.objects[x.of.type].sdos, FirstAttribute(x.name, attributes[x.of.type]))
          \in Seq(Items)
    BY <1>1, <2>2, <2>4, ObjectsType
  <2>6. Objects(x.name, scl.objects[x.of.type].sdos, None) \in Seq(Items)
    BY <1>1, <2>2, NoneType, ObjectsType
  <2>7. Attributes(x.name, attributes[x.of.type]) \in Seq(Items)
    BY <1>1, <2>3, AttributesType
  <2>8. QED
    BY <2>5, <2>6, <2>7 DEF ObjectChildren
<1>4. ASSUME x.kind \in {"attribute", "element"}
      PROVE  AttributeChildren(x) \in Seq(Items) /\ Elements(x.name, x.of) \in Seq(Items)
  <2>1. x.of \in DaDefinitions
    BY <1>4, ItemType
  <2>2. SubAttributes(x.of) \in Seq(DaDefinitions)
    BY <2>1, SubAttributesType
  <2>3. QED
    BY <1>1, <2>1, <2>2, AttributesType, ElementsType DEF AttributeChildren
<1>5. QED
  BY <1>2, <1>3, <1>4

(* A written variable. *)
LEMMA WriteType ==
  ASSUME TypeOK, todo # <<>>, NEW child \in Names, NEW children \in Seq(Items),
         Write(child, children)
  PROVE  TypeOK'
<1>1. todo[1] \in Items
  BY DEF TypeOK
<1>2. Variable(todo[1], child) \in Variables
  BY <1>1, ItemType DEF Variable, Variables
<1>3. Append(defs, Variable(todo[1], child)) \in Seq(Variables)
  BY <1>2 DEF TypeOK
<1>4. children \o Tail(todo) \in Seq(Items)
  BY FrontIs DEF TypeOK
<1>5. QED
  BY <1>3, <1>4 DEF Write, TypeOK

(* A declared item, or one that is skipped. *)
LEMMA DeclareType ==
  ASSUME TypeOK, todo # <<>>, NEW children \in Seq(Items), Declare(children)
  PROVE  TypeOK'
<1>1. todo[1] \in Items /\ Tail(todo) \in Seq(Items)
  BY DEF TypeOK
<1>2. children \o Tail(todo) \in Seq(Items)
  BY FrontIs DEF TypeOK
<1>3. QED
  BY <1>1, <1>2 DEF Declare, TypeOK

LEMMA TypeInit == Init => TypeOK
<1> SUFFICES ASSUME Init PROVE TypeOK
  OBVIOUS
<1>7. LogicalNodes \in Seq(Items)
  BY LogicalNodesType DEF Init
<1>8. <<>> \in Seq(DaDefinitions) /\ <<>> \in Seq(Variables)
  OBVIOUS
<1>9. QED
  BY <1>7, <1>8 DEF Init, TypeOK

LEMMA TypeStep == TypeOK /\ [Next]_vars => TypeOK'
<1> SUFFICES ASSUME TypeOK, [Next]_vars PROVE TypeOK'
  OBVIOUS
<1>h. todo # <<>> => todo[1] \in Items
  BY DEF TypeOK
<1>n. LogicalNodes \in Seq(Items)
  BY LogicalNodesType DEF TypeOK
<1>1. CASE ParseLogicalNode
  <2>1. NodeChildren(todo[1]) \o Tail(todo) \in Seq(Items)
    BY <1>1, <1>h, ChildrenType, FrontIs DEF ParseLogicalNode, At, TypeOK
  <2>2. QED
    BY <1>1, <2>1 DEF ParseLogicalNode, TypeOK
<1>2. CASE CreateDataAttribute
  <2> DEFINE das == scl.objects[todo[1].of.type].das
  <2>1. todo[1].of.type \in DoTypes
    BY <1>2, <1>h, ItemType DEF CreateDataAttribute, At, DoDefinitions
  <2>2. das \in Seq(DaDefinitions)
    BY <2>1, FileType DEF TypeOK
  <2>3. list.next \in Nat \ {0} /\ list.made \in Seq(DaDefinitions)
    BY DEF TypeOK
  <2>4. list.next <= Len(das)
    BY <1>2 DEF CreateDataAttribute
  <2>5. das[list.next] \in DaDefinitions
    BY <2>2, <2>3, <2>4
  <2>6. CreateDataAttributes(list.made, das[list.next]) \in Seq(DaDefinitions)
    BY <2>3, <2>5, CreateType
  <2>7. list' = [next |-> list.next + 1,
                 made |-> CreateDataAttributes(list.made, das[list.next])]
    BY <1>2 DEF CreateDataAttribute
  <2>8. list' \in [next : Nat \ {0}, made : Seq(DaDefinitions)]
    BY <2>3, <2>6, <2>7
  <2>9. QED
    BY <1>2, <2>8 DEF CreateDataAttribute, TypeOK
<1>3. CASE CreateSubDataObjects
  <2>1. todo[1].kind = "object" /\ todo # <<>>
    BY <1>3 DEF CreateSubDataObjects, At
  <2>2. todo[1].of.type \in DoTypes
    BY <2>1, <1>h, ItemType DEF DoDefinitions
  <2>7. Objects(todo[1].name, scl.objects[todo[1].of.type].sdos, None) \in Seq(Items)
    BY <1>h, <2>1, ChildrenType
  <2>3. todo' \in Seq(Items)
    BY <1>3, <2>1, <2>7, FrontIs DEF CreateSubDataObjects, TypeOK
  <2>4. attributes' \in [DoTypes -> Seq(DaDefinitions)]
    BY <1>3, <2>2 DEF CreateSubDataObjects, TypeOK
  <2>5. list' \in [next : Nat \ {0}, made : Seq(DaDefinitions)]
    <3>1. <<>> \in Seq(DaDefinitions) /\ 1 \in Nat \ {0}
      OBVIOUS
    <3>2. list' = [next |-> 1, made |-> <<>>]
      BY <1>3 DEF CreateSubDataObjects
    <3>3. QED
      BY <3>1, <3>2
  <2>6. QED
    BY <1>3, <2>3, <2>4, <2>5 DEF CreateSubDataObjects, TypeOK
<1>4. CASE ParseEnd
  BY <1>4, <1>n DEF ParseEnd, TypeOK
<1>5. CASE DeclareLogicalNode
  <2>1. NodeChildren(todo[1]) \o Tail(todo) \in Seq(Items)
    BY <1>5, <1>h, ChildrenType, FrontIs DEF DeclareLogicalNode, At, TypeOK
  <2>2. QED
    BY <1>5, <1>h, <2>1 DEF DeclareLogicalNode, At, TypeOK
<1>6. CASE DeclareDataObject
  BY <1>6, <1>h, ChildrenType, DeclareType DEF DeclareDataObject, At
<1>7. CASE DeclareDataAttribute
  BY <1>7, <1>h, ChildrenType, DeclareType DEF DeclareDataAttribute, At
<1>8. CASE DeclareEnd
  BY <1>8, <1>n DEF DeclareEnd, TypeOK
<1>9. CASE PrintLogicalNode
  <2>1. todo # <<>> /\ todo[1].kind = "node"
    BY <1>9 DEF PrintLogicalNode, At
  <2>2. todo[1].of.dos \in Seq(DoDefinitions) /\ todo[1].of.dos # <<>> /\ todo[1].name \in Names
    BY <2>1, <1>h, ItemType DEF NodeDefinitions
  <2>3. todo[1].of.dos[1] \in DoDefinitions
    BY <2>2
  <2>4. Sub(todo[1].name, todo[1].of.dos[1].name) \in Names
    BY <2>2, <2>3, SubType DEF DoDefinitions
  <2>5. QED
    BY <1>9, <1>h, <2>1, <2>4, ChildrenType, WriteType DEF PrintLogicalNode
<1>10. CASE PrintDataObject
  <2> DEFINE x == todo[1]
             sdos == scl.objects[x.of.type].sdos
             child == IF sdos # <<>> THEN FirstSub(x.name, sdos)
                      ELSE FirstAttribute(x.name, attributes[x.of.type])
  <2>1. todo # <<>> /\ x.kind = "object"
    BY <1>10 DEF PrintDataObject, At
  <2>2. x.of.type \in DoTypes /\ x.name \in Names
    BY <2>1, <1>h, ItemType DEF DoDefinitions
  <2>3. sdos \in Seq(DoDefinitions) /\ attributes[x.of.type] \in Seq(DaDefinitions)
    BY <2>2, FileType DEF TypeOK
  <2>4. child \in Names
    BY <2>2, <2>3, FirstType
  <2>5. Write(child, ObjectChildren(x))
    BY <1>10 DEF PrintDataObject
  <2>6. QED
    BY <1>h, <2>1, <2>4, <2>5, ChildrenType, WriteType
<1>a. ASSUME todo # <<>>, todo[1].kind \in {"attribute", "element"}
      PROVE  FirstSub(todo[1].name, SubAttributes(todo[1].of)) \in Names
  BY <1>a, <1>h, ItemType, SubAttributesType, FirstType
<1>11. CASE PrintDataAttribute
  BY <1>11, <1>a, <1>h, ChildrenType, WriteType DEF PrintDataAttribute, At
<1>12. CASE PrintArray
  <2>1. todo # <<>> /\ todo[1].kind = "attribute" /\ todo[1].of.count > 0
    BY <1>12 DEF PrintArray, At
  <2>2. todo[1].of \in DaDefinitions /\ todo[1].name \in Names
    BY <2>1, <1>h, ItemType
  <2>3. 1 \in 1..Len(Digits)
    BY <2>1, <2>2, DigitsAssumption DEF DaDefinitions
  <2>4. Element(todo[1].name, 1) \in Names
    BY <2>2, <2>3, ElementType
  <2>5. QED
    BY <1>12, <1>h, <2>1, <2>4, ChildrenType, WriteType DEF PrintArray
<1>13. CASE PrintArrayElement
  BY <1>13, <1>a, <1>h, ChildrenType, WriteType DEF PrintArrayElement, At
<1>14. CASE PrintEnd
  BY <1>14 DEF PrintEnd, TypeOK
<1>15. CASE UNCHANGED vars
  BY <1>15 DEF vars, TypeOK
<1>16. QED
  BY <1>1, <1>2, <1>3, <1>4, <1>5, <1>6, <1>7, <1>8, <1>9, <1>10, <1>11, <1>12,
     <1>13,
     <1>14, <1>15 DEF Next, Finished

(* Items, attributes and variables are well formed, whatever the file. *)
THEOREM TypeCorrect == Spec => []TypeOK
  BY TypeInit, TypeStep, PTL DEF Spec

-----------------------------------------------------------------------------
(* The attributes of an object.                                            *)

(* The list s follows from made by definition d, which is now at place k:  *)
(* at the end, or where an SP attribute of its name was.  The twin of an   *)
(* SE definition is the first new one.                                     *)
Shape(made, d, s, k) ==
  /\ s \in Seq(DaDefinitions) /\ Len(s) >= Len(made)
  /\ k \in 1..Len(s) /\ s[k] = d
  /\ k <= Len(made) => d.fc = "SE" /\ made[k].fc = "SP" /\ made[k].name = d.name
  /\ k > Len(made) /\ d.fc = "SE" =>
       \A i \in 1..Len(made) : ~ (made[i].name = d.name /\ made[i].fc = "SP")
  /\ \A i \in 1..Len(s) : i # k /\ i <= Len(made) => s[i] = made[i]
  /\ \A i \in 1..Len(s) : i # k /\ i > Len(made) =>
       i = Len(made) + 1 /\ d.fc = "SE" /\ s[i] = NewDataAttribute(d, "SG")
  /\ d.fc = "SE" => /\ Len(made) + 1 \in 1..Len(s) /\ Len(made) + 1 # k
                    /\ s[Len(made) + 1] = NewDataAttribute(d, "SG")

LEMMA CreateShape ==
  ASSUME NEW made \in Seq(DaDefinitions), NEW d \in DaDefinitions
  PROVE  \E k \in Nat : Shape(made, d, CreateDataAttributes(made, d), k)
<1> DEFINE twin == Twin(made, d)
           s == CreateDataAttributes(made, d)
           sg == NewDataAttribute(d, "SG")
<1>1. /\ twin \in Seq(DaDefinitions)
      /\ Len(twin) = IF d.fc = "SE" THEN Len(made) + 1 ELSE Len(made)
      /\ \A i \in 1..Len(made) : twin[i] = made[i]
      /\ d.fc = "SE" => twin[Len(made) + 1] = sg
  BY TwinType
<1>2. sg.fc = "SG"
  BY NewDataAttributeType DEF Constraints
<1>3. s \in Seq(DaDefinitions)
  BY CreateType
<1>4. \/ /\ s = Append(twin, d)
         /\ d.fc = "SE" => \A i \in 1..Len(twin) : ~ (twin[i].name = d.name /\ twin[i].fc = "SP")
      \/ /\ d.fc = "SE"
         /\ \E i \in 1..Len(twin) : /\ twin[i].name = d.name /\ twin[i].fc = "SP"
                                     /\ s = [twin EXCEPT ![i] = d]
  BY CreateIs
<1> HIDE DEF twin, s, sg
<1>5. CASE /\ s = Append(twin, d)
           /\ d.fc = "SE" => \A i \in 1..Len(twin) : ~ (twin[i].name = d.name /\ twin[i].fc = "SP")
  <2>1. /\ Len(s) = Len(twin) + 1 /\ s[Len(twin) + 1] = d
        /\ \A i \in 1..Len(twin) : s[i] = twin[i]
    BY <1>1, <1>5
  <2>2. Len(made) \in Nat
    OBVIOUS
  <2> DEFINE n == Len(made)
             last == Len(twin) + 1
  <2>a. last = (IF d.fc = "SE" THEN n + 2 ELSE n + 1) /\ Len(s) = last
    BY <1>1, <2>1, <2>2
  <2>b. \A i \in 1..n : i \in 1..Len(twin) /\ i # last
    BY <1>1, <2>2
  <2>c. d.fc = "SE" => n + 1 \in 1..Len(twin) /\ n + 1 # last
    BY <1>1, <2>2
  <2>3. Shape(made, d, s, last)
    BY <1>1, <1>3, <1>5, <2>1, <2>2, <2>a, <2>b, <2>c DEF Shape, sg
  <2>4. QED
    BY <1>1, <2>2, <2>3 DEF s
<1>6. CASE /\ d.fc = "SE"
           /\ \E i \in 1..Len(twin) : /\ twin[i].name = d.name /\ twin[i].fc = "SP"
                                       /\ s = [twin EXCEPT ![i] = d]
  <2>1. PICK k \in 1..Len(twin) : /\ twin[k].name = d.name /\ twin[k].fc = "SP"
                                  /\ s = [twin EXCEPT ![k] = d]
    BY <1>6
  <2>2. Len(s) = Len(twin) /\ s[k] = d /\ \A i \in 1..Len(twin) : i # k => s[i] = twin[i]
    BY <1>1, <2>1
  <2>3. k # Len(made) + 1
    BY <1>1, <1>2, <1>6, <2>1
  <2>4. Shape(made, d, s, k)
    BY <1>1, <1>3, <1>6, <2>1, <2>2, <2>3 DEF Shape, sg
  <2>5. QED
    BY <2>4 DEF s
<1>7. QED
  BY <1>4, <1>5, <1>6

(* Every SE attribute has its twin. *)
Paired(made) ==
  \A i \in 1..Len(made) : made[i].fc = "SE" =>
    \E j \in 1..Len(made) : made[j] = [made[i] EXCEPT !.fc = "SG"]

LEMMA CreatePaired ==
  ASSUME NEW made \in Seq(DaDefinitions), NEW d \in DaDefinitions, Paired(made)
  PROVE  Paired(CreateDataAttributes(made, d))
<1> DEFINE s == CreateDataAttributes(made, d)
<1>1. PICK k \in Nat : Shape(made, d, s, k)
  BY CreateShape
<1> HIDE DEF s
<1>2. NewDataAttribute(d, "SG") = [d EXCEPT !.fc = "SG"]
  BY DEF NewDataAttribute
<1>3. SUFFICES ASSUME NEW i \in 1..Len(s), s[i].fc = "SE"
               PROVE  \E j \in 1..Len(s) : s[j] = [s[i] EXCEPT !.fc = "SG"]
  BY DEF Paired, s
<1>4. CASE s[i] = d
  BY <1>1, <1>2, <1>3, <1>4 DEF Shape
<1>5. CASE s[i] # d
  <2>1. i # k
    BY <1>1, <1>5 DEF Shape
  <2>2. NewDataAttribute(d, "SG").fc = "SG"
    BY NewDataAttributeType DEF Constraints
  <2>3. i \in 1..Len(made) /\ s[i] = made[i]
    BY <1>1, <1>3, <2>1, <2>2 DEF Shape
  <2>4. PICK j \in 1..Len(made) : made[j] = [made[i] EXCEPT !.fc = "SG"]
    BY <1>3, <2>3 DEF Paired
  <2>5. made[j].fc = "SG"
    <3>1. made[i] \in DaDefinitions
      BY <2>3
    <3>2. QED
      BY <2>4, <3>1 DEF DaDefinitions
  <2>6. j # k /\ j \in 1..Len(s)
    BY <1>1, <2>5 DEF Shape
  <2>7. s[j] = made[j]
    BY <1>1, <2>6 DEF Shape
  <2>8. QED
    BY <2>3, <2>4, <2>6, <2>7
<1>6. QED
  BY <1>4, <1>5

PairedInv == TypeOK /\ Paired(list.made) /\ \A t \in DoTypes : Paired(attributes[t])

LEMMA PairedInit == Init => PairedInv
<1> SUFFICES ASSUME Init PROVE PairedInv
  OBVIOUS
<1>1. Paired(<<>>)
  BY DEF Paired
<1>2. QED
  BY <1>1, TypeInit DEF Init, PairedInv

LEMMA PairedStep == PairedInv /\ [Next]_vars => PairedInv'
<1> SUFFICES ASSUME PairedInv, [Next]_vars PROVE PairedInv'
  OBVIOUS
<1>t. TypeOK /\ TypeOK'
  BY TypeStep DEF PairedInv
<1>1. CASE CreateDataAttribute
  <2> DEFINE das == scl.objects[todo[1].of.type].das
  <2>1. todo[1] \in Items /\ todo[1].kind = "object"
    BY <1>1, <1>t DEF CreateDataAttribute, At, TypeOK
  <2>2. todo[1].of.type \in DoTypes
    BY <2>1, ItemType DEF DoDefinitions
  <2>3. das \in Seq(DaDefinitions)
    BY <1>t, <2>2, FileType DEF TypeOK
  <2>4. das[list.next] \in DaDefinitions /\ list.made \in Seq(DaDefinitions)
    <3>1. /\ list.next \in Nat \ {0} /\ list.next <= Len(das)
          /\ list.made \in Seq(DaDefinitions)
      BY <1>1, <1>t DEF CreateDataAttribute, TypeOK
    <3> HIDE DEF das
    <3>2. QED
      BY <2>3, <3>1
  <2>5. list'.made = CreateDataAttributes(list.made, das[list.next])
    BY <1>1 DEF CreateDataAttribute
  <2>6. Paired(list'.made)
    BY <2>4, <2>5, CreatePaired DEF PairedInv
  <2>7. QED
    BY <1>1, <1>t, <2>6 DEF CreateDataAttribute, PairedInv
<1>2. CASE CreateSubDataObjects
  <2>1. Paired(<<>>)
    BY DEF Paired
  <2>2. attributes' = [attributes EXCEPT ![todo[1].of.type] = list.made] /\ list'.made = <<>>
    BY <1>2 DEF CreateSubDataObjects
  <2>3. \A t \in DoTypes : attributes'[t] \in {attributes[t], list.made}
    BY <1>t, <2>2 DEF TypeOK
  <2>4. QED
    BY <1>t, <2>1, <2>2, <2>3 DEF PairedInv
<1>3. CASE UNCHANGED <<list, attributes>>
  BY <1>3, <1>t DEF PairedInv
<1>4. QED
  BY <1>1, <1>2, <1>3 DEF Next, vars, Finished, ParseLogicalNode, ParseEnd,
     DeclareLogicalNode, DeclareDataObject, DeclareDataAttribute, Declare,
     DeclareEnd, PrintLogicalNode, PrintDataObject, PrintDataAttribute,
     PrintArray, PrintArrayElement, Write, PrintEnd

(* createDataAttributes: whatever the definitions of a type, each SE       *)
(* attribute of an object has its SG twin.                                 *)
THEOREM Pairs == Spec => []EditPairs
<1>1. PairedInv => EditPairs
  <2> SUFFICES ASSUME PairedInv, NEW t \in DoTypes, NEW i \in DOMAIN attributes[t],
                      attributes[t][i].fc = "SE"
               PROVE  \E j \in DOMAIN attributes[t] :
                        attributes[t][j] = [attributes[t][i] EXCEPT !.fc = "SG"]
    BY DEF EditPairs
  <2>1. DOMAIN attributes[t] = 1..Len(attributes[t])
    BY DEF PairedInv, TypeOK
  <2>2. QED
    BY <2>1 DEF PairedInv, Paired
<1>2. QED
  BY <1>1, PairedInit, PairedStep, PTL DEF Spec

-----------------------------------------------------------------------------
(* Files with distinct names, and a model prefix of the expected length.   *)

Hypothesis == PrefixFits /\ \A f \in Inputs : DistinctNames(f)

(* The attributes made from the first n definitions. *)
Sourced(das, n, made) ==
  \A i \in 1..Len(made) : \E k \in 1..n :
    /\ made[i].name = das[k].name /\ made[i].count = das[k].count
    /\ made[i].fc = das[k].fc \/ (das[k].fc = "SE" /\ made[i].fc = "SG")

(* Of two attributes with the same name one has the constraint SE. *)
OneEdit(made) ==
  \A i, j \in 1..Len(made) : i # j /\ made[i].name = made[j].name =>
    \/ made[i].fc = "SE" /\ made[j].fc # "SE"
    \/ made[i].fc # "SE" /\ made[j].fc = "SE"

DistinctAttributes(das) ==
  \A i, j \in 1..Len(das) :
    i < j /\ das[i].name = das[j].name => das[i].fc = "SP" /\ das[j].fc = "SE"

LEMMA CreateDistinct ==
  ASSUME NEW das \in Seq(DaDefinitions), DistinctAttributes(das),
         NEW n \in Nat, n < Len(das),
         NEW made \in Seq(DaDefinitions), Sourced(das, n, made), OneEdit(made)
  PROVE  LET s == CreateDataAttributes(made, das[n + 1])
         IN  Sourced(das, n + 1, s) /\ OneEdit(s)
<1> DEFINE d == das[n + 1]
           s == CreateDataAttributes(made, d)
           sg == NewDataAttribute(d, "SG")
<1>1. d \in DaDefinitions
  OBVIOUS
<1>2. PICK k \in Nat : Shape(made, d, s, k)
  BY <1>1, CreateShape
<1>3. sg.name = d.name /\ sg.count = d.count /\ sg.fc = "SG"
  BY <1>1, NewDataAttributeType DEF Constraints
<1>4. \A i \in 1..Len(made) : made[i].name = d.name => made[i].fc = "SP" /\ d.fc = "SE"
  <2> SUFFICES ASSUME NEW i \in 1..Len(made), made[i].name = d.name
               PROVE  made[i].fc = "SP" /\ d.fc = "SE"
    OBVIOUS
  <2>1. PICK j \in 1..n : /\ made[i].name = das[j].name
                          /\ made[i].fc = das[j].fc \/ (das[j].fc = "SE" /\ made[i].fc = "SG")
    BY DEF Sourced
  <2>2. j \in 1..Len(das) /\ n + 1 \in 1..Len(das) /\ j < n + 1
    OBVIOUS
  <2>3. das[j].fc = "SP" /\ d.fc = "SE"
    BY <2>1, <2>2 DEF DistinctAttributes
  <2>4. QED
    BY <2>1, <2>3
<1> HIDE DEF d, s, sg
<1>5. \A i \in 1..Len(s) : \/ i = k /\ s[i] = d
                           \/ i # k /\ i \in 1..Len(made) /\ s[i] = made[i]
                           \/ i # k /\ i = Len(made) + 1 /\ d.fc = "SE" /\ s[i] = sg
  BY <1>2 DEF Shape, sg
<1>6. Sourced(das, n + 1, s)
  <2> SUFFICES ASSUME NEW i \in 1..Len(s)
               PROVE  \E m \in 1..n + 1 :
                        /\ s[i].name = das[m].name /\ s[i].count = das[m].count
                        /\ s[i].fc = das[m].fc \/ (das[m].fc = "SE" /\ s[i].fc = "SG")
    BY DEF Sourced
  <2>1. CASE s[i] = d
    BY <2>1 DEF d
  <2>2. CASE i \in 1..Len(made) /\ s[i] = made[i]
    BY <2>2 DEF Sourced
  <2>3. CASE d.fc = "SE" /\ s[i] = sg
    BY <2>3, <1>3 DEF d
  <2>4. QED
    BY <1>5, <2>1, <2>2, <2>3
<1>7. OneEdit(s)
  <2>1. ASSUME NEW i \in 1..Len(s), NEW j \in 1..Len(s), i # j, s[i].name = s[j].name, i = k
        PROVE  s[i].fc = "SE" /\ s[j].fc # "SE"
    <3>1. s[i] = d
      BY <1>2, <2>1 DEF Shape
    <3>2. CASE j \in 1..Len(made) /\ s[j] = made[j]
      BY <1>4, <2>1, <3>1, <3>2
    <3>3. CASE d.fc = "SE" /\ s[j] = sg
      BY <1>3, <3>1, <3>3
    <3>4. QED
      BY <1>5, <2>1, <3>2, <3>3
  <2>2. ASSUME NEW j \in 1..Len(made), j # k, d.fc = "SE", made[j].name = d.name
        PROVE  FALSE
    <3>1. made[j].fc = "SP"
      BY <1>4, <2>2
    <3>2. k \in 1..Len(made) /\ made[k].fc = "SP" /\ made[k].name = d.name
      BY <1>2, <2>2, <3>1 DEF Shape
    <3>3. QED
      BY <2>2, <3>1, <3>2 DEF OneEdit
  <2>3. ASSUME NEW i \in 1..Len(s), NEW j \in 1..Len(s), i # j, s[i].name = s[j].name,
               i # k, j # k
        PROVE  \/ s[i].fc = "SE" /\ s[j].fc # "SE"
               \/ s[i].fc # "SE" /\ s[j].fc = "SE"
    <3>1. CASE i \in 1..Len(made) /\ s[i] = made[i] /\ j \in 1..Len(made) /\ s[j] = made[j]
      BY <2>3, <3>1 DEF OneEdit
    <3>2. CASE i = Len(made) + 1 /\ d.fc = "SE" /\ s[i] = sg
      <4>1. j \in 1..Len(made) /\ s[j] = made[j]
        BY <1>5, <2>3, <3>2
      <4>2. QED
        BY <1>3, <2>2, <2>3, <3>2, <4>1
    <3>3. CASE j = Len(made) + 1 /\ d.fc = "SE" /\ s[j] = sg
      <4>1. i \in 1..Len(made) /\ s[i] = made[i]
        BY <1>5, <2>3, <3>3
      <4>2. QED
        BY <1>3, <2>2, <2>3, <3>3, <4>1
    <3>4. QED
      BY <1>5, <2>3, <3>1, <3>2, <3>3
  <2>4. QED
    BY <2>1, <2>3 DEF OneEdit
<1>8. QED
  BY <1>6, <1>7 DEF s, d

LEMMA DistinctFile ==
  ASSUME Hypothesis, scl \in Inputs
  PROVE  /\ \A t \in DoTypes : DistinctAttributes(scl.objects[t].das)
         /\ \A t \in DoTypes : \A i, j \in 1..Len(scl.objects[t].sdos) :
              i # j => scl.objects[t].sdos[i].name # scl.objects[t].sdos[j].name
         /\ \A t \in DoTypes :
              \A i \in 1..Len(scl.objects[t].sdos), j \in 1..Len(scl.objects[t].das) :
                scl.objects[t].sdos[i].name # scl.objects[t].das[j].name
         /\ \A t \in DaTypes : \A i, j \in 1..Len(scl.structs[t]) :
              i # j => scl.structs[t][i].name # scl.structs[t][j].name
         /\ \A n, m \in 1..Len(scl.nodes) : n # m => scl.nodes[n].name # scl.nodes[m].name
         /\ \A n \in 1..Len(scl.nodes) : \A i, j \in 1..Len(scl.nodes[n].dos) :
              i # j => scl.nodes[n].dos[i].name # scl.nodes[n].dos[j].name
<1>1. DistinctNames(scl)
  BY DEF Hypothesis
<1>2. scl.nodes \in Seq(NodeDefinitions)
  BY FileType
<1>3. \A t \in DoTypes : /\ DOMAIN scl.objects[t].das = 1..Len(scl.objects[t].das)
                         /\ DOMAIN scl.objects[t].sdos = 1..Len(scl.objects[t].sdos)
  BY FileType
<1>4. \A t \in DaTypes : DOMAIN scl.structs[t] = 1..Len(scl.structs[t])
  BY FileType
<1>5. DOMAIN scl.nodes = 1..Len(scl.nodes)
  BY <1>2
<1>6. \A n \in 1..Len(scl.nodes) : DOMAIN scl.nodes[n].dos = 1..Len(scl.nodes[n].dos)
  <2> SUFFICES ASSUME NEW n \in 1..Len(scl.nodes)
               PROVE  DOMAIN scl.nodes[n].dos = 1..Len(scl.nodes[n].dos)
    OBVIOUS
  <2>1. scl.nodes[n] \in NodeDefinitions
    BY <1>2
  <2>2. scl.nodes[n].dos \in Seq(DoDefinitions)
    BY <2>1 DEF NodeDefinitions
  <2>3. QED
    BY <2>2
<1>7. ASSUME NEW t \in DoTypes
      PROVE  DistinctAttributes(scl.objects[t].das)
  <2> DEFINE das == scl.objects[t].das
  <2>1. \A i, j \in DOMAIN das :
          i < j /\ das[i].name = das[j].name => das[i].fc = "SP" /\ das[j].fc = "SE"
    BY <1>1 DEF DistinctNames
  <2>2. DOMAIN das = 1..Len(das)
    BY <1>3
  <2> HIDE DEF das
  <2>3. DistinctAttributes(das)
    BY <2>1, <2>2 DEF DistinctAttributes
  <2>4. QED
    BY <2>3 DEF das
<1>8. ASSUME NEW t \in DoTypes, NEW i \in 1..Len(scl.objects[t].sdos)
      PROVE  /\ \A j \in 1..Len(scl.objects[t].sdos) :
                  i # j => scl.objects[t].sdos[i].name # scl.objects[t].sdos[j].name
             /\ \A j \in 1..Len(scl.objects[t].das) :
                  scl.objects[t].sdos[i].name # scl.objects[t].das[j].name
  <2> DEFINE das == scl.objects[t].das
             sdos == scl.objects[t].sdos
  <2>1. IsInjective([m \in DOMAIN sdos |-> sdos[m].name])
    BY <1>1 DEF DistinctNames
  <2>2. \A m \in DOMAIN sdos, j \in DOMAIN das : sdos[m].name # das[j].name
    BY <1>1 DEF DistinctNames
  <2>3. DOMAIN das = 1..Len(das) /\ DOMAIN sdos = 1..Len(sdos)
    BY <1>3
  <2>4. i \in 1..Len(sdos)
    OBVIOUS
  <2> HIDE DEF das, sdos
  <2>5. \A j \in 1..Len(sdos) : i # j => sdos[i].name # sdos[j].name
    BY <2>1, <2>3, <2>4 DEF IsInjective
  <2>6. \A j \in 1..Len(das) : sdos[i].name # das[j].name
    BY <2>2, <2>3, <2>4
  <2>7. QED
    BY <2>5, <2>6 DEF das, sdos
<1>9. ASSUME NEW t \in DaTypes, NEW i \in 1..Len(scl.structs[t]), NEW j \in 1..Len(scl.structs[t]),
             i # j
      PROVE  scl.structs[t][i].name # scl.structs[t][j].name
  BY <1>1, <1>4, <1>9 DEF DistinctNames, IsInjective
<1>10. ASSUME NEW n \in 1..Len(scl.nodes), NEW m \in 1..Len(scl.nodes), n # m
       PROVE  scl.nodes[n].name # scl.nodes[m].name
  BY <1>1, <1>5, <1>10 DEF DistinctNames, IsInjective
<1>11. ASSUME NEW n \in 1..Len(scl.nodes), NEW i \in 1..Len(scl.nodes[n].dos),
              NEW j \in 1..Len(scl.nodes[n].dos), i # j
       PROVE  scl.nodes[n].dos[i].name # scl.nodes[n].dos[j].name
  <2> DEFINE dos == scl.nodes[n].dos
  <2>1. IsInjective([m \in DOMAIN dos |-> dos[m].name])
    BY <1>1, <1>5 DEF DistinctNames
  <2>2. DOMAIN dos = 1..Len(dos) /\ i \in 1..Len(dos) /\ j \in 1..Len(dos)
    BY <1>6
  <2> HIDE DEF dos
  <2>3. dos[i].name # dos[j].name
    BY <1>11, <2>1, <2>2 DEF IsInjective
  <2>4. QED
    BY <2>3 DEF dos
<1>12. QED
  BY <1>7, <1>8, <1>9, <1>10, <1>11

(* The attributes of every object come from its type, under distinct       *)
(* names.                                                                  *)
Parsing == phase = "parse" /\ todo # <<>> /\ todo[1].kind = "object"

ListsInv ==
  /\ TypeOK
  /\ Parsing => /\ list.next <= Len(scl.objects[todo[1].of.type].das) + 1
                /\ Sourced(scl.objects[todo[1].of.type].das, list.next - 1, list.made)
  /\ phase = "parse" /\ ~ Parsing => list.next = 1 /\ list.made = <<>>
  /\ OneEdit(list.made)
  /\ \A t \in DoTypes :
       /\ Sourced(scl.objects[t].das, Len(scl.objects[t].das), attributes[t])
       /\ OneEdit(attributes[t])

LEMMA EmptyList ==
  \A das, n : Sourced(das, n, <<>>) /\ OneEdit(<<>>)
  BY DEF Sourced, OneEdit

LEMMA ListsInit == Init => ListsInv
<1> SUFFICES ASSUME Init PROVE ListsInv
  OBVIOUS
<1>1. TypeOK
  BY TypeInit
<1>2. list.next = 1 /\ list.made = <<>> /\ \A t \in DoTypes : attributes[t] = <<>>
  BY DEF Init
<1>3. Parsing => 1 <= Len(scl.objects[todo[1].of.type].das) + 1
  <2> SUFFICES ASSUME Parsing PROVE 1 <= Len(scl.objects[todo[1].of.type].das) + 1
    OBVIOUS
  <2>1. todo[1] \in Items
    BY <1>1 DEF Parsing, TypeOK
  <2>2. todo[1].of.type \in DoTypes
    BY <2>1, ItemType DEF Parsing, DoDefinitions
  <2> DEFINE das == scl.objects[todo[1].of.type].das
  <2>3. das \in Seq(DaDefinitions)
    BY <1>1, <2>2, FileType DEF TypeOK
  <2> HIDE DEF das
  <2>4. 1 <= Len(das) + 1
    BY <2>3
  <2>5. QED
    BY <2>4 DEF das
<1>4. QED
  BY <1>1, <1>2, <1>3, EmptyList DEF ListsInv

LEMMA ListsStep ==
  ASSUME Hypothesis, ListsInv, [Next]_vars
  PROVE  ListsInv'
<1>t. TypeOK /\ TypeOK'
  BY TypeStep DEF ListsInv
<1>s. scl' = scl
  BY DEF Next, vars, Finished, ParseLogicalNode, CreateDataAttribute,
     CreateSubDataObjects, ParseEnd, DeclareLogicalNode, DeclareDataObject,
     DeclareDataAttribute, Declare, DeclareEnd, PrintLogicalNode,
     PrintDataObject, PrintDataAttribute, PrintArray, PrintArrayElement, Write,
     PrintEnd
<1>d. Parsing => todo[1].of.type \in DoTypes
  <2> SUFFICES ASSUME Parsing PROVE todo[1].of.type \in DoTypes
    OBVIOUS
  <2>1. todo[1] \in Items
    BY <1>t DEF Parsing, TypeOK
  <2>2. QED
    BY <2>1, ItemType DEF Parsing, DoDefinitions
<1>e. Parsing' => todo'[1].of.type \in DoTypes
  <2> SUFFICES ASSUME Parsing' PROVE todo'[1].of.type \in DoTypes
    OBVIOUS
  <2>1. todo'[1] \in Items
    BY <1>t DEF Parsing, TypeOK
  <2>2. QED
    BY <2>1, ItemType DEF Parsing, DoDefinitions
<1>f. ASSUME NEW t \in DoTypes
      PROVE  scl.objects[t].das \in Seq(DaDefinitions) /\ Len(scl.objects[t].das) \in Nat
             /\ 1 <= Len(scl.objects[t].das) + 1
  <2> DEFINE das == scl.objects[t].das
  <2>1. das \in Seq(DaDefinitions)
    BY <1>t, FileType DEF TypeOK
  <2> HIDE DEF das
  <2>2. Len(das) \in Nat /\ 1 <= Len(das) + 1
    BY <2>1
  <2>3. QED
    BY <2>1, <2>2 DEF das
<1>r. ASSUME list'.next = 1, list'.made = <<>>,
             \A t \in DoTypes :
               /\ Sourced(scl.objects[t].das, Len(scl.objects[t].das), attributes'[t])
               /\ OneEdit(attributes'[t])
      PROVE  ListsInv'
  <2>1. Parsing' => list'.next <= Len(scl.objects[todo'[1].of.type].das) + 1
    BY <1>e, <1>f, <1>r
  <2>2. QED
    BY <1>t, <1>s, <1>r, <2>1, EmptyList DEF ListsInv
<1>1. CASE ParseLogicalNode
  <2>1. ~ Parsing /\ phase = "parse"
    BY <1>1 DEF ParseLogicalNode, At, Parsing
  <2>2. list' = list /\ attributes' = attributes
    BY <1>1 DEF ParseLogicalNode
  <2>3. QED
    BY <1>r, <2>1, <2>2 DEF ListsInv
<1>2. CASE CreateDataAttribute
  <2> DEFINE das == scl.objects[todo[1].of.type].das
             n == list.next - 1
  <2>1. Parsing /\ Parsing' /\ todo' = todo /\ attributes' = attributes /\ phase' = phase
    BY <1>2 DEF CreateDataAttribute, At, Parsing
  <2>2. das \in Seq(DaDefinitions) /\ DistinctAttributes(das)
    BY <1>d, <1>f, <1>t, <2>1, DistinctFile DEF TypeOK
  <2>3. list.next \in Nat \ {0} /\ list.made \in Seq(DaDefinitions)
    BY <1>t DEF TypeOK
  <2>4. list.next <= Len(das) /\ list'.next = list.next + 1
        /\ list'.made = CreateDataAttributes(list.made, das[list.next])
    BY <1>2 DEF CreateDataAttribute
  <2>5. Sourced(das, n, list.made) /\ OneEdit(list.made)
    BY <2>1 DEF ListsInv
  <2>6. Len(das) \in Nat /\ n \in Nat /\ n < Len(das) /\ n + 1 = list.next
    <3> HIDE DEF das
    <3>1. Len(das) \in Nat
      BY <2>2
    <3>2. QED
      BY <2>3, <2>4, <3>1
  <2> HIDE DEF das, n
  <2>7. Sourced(das, n + 1, list'.made) /\ OneEdit(list'.made)
    BY <2>2, <2>3, <2>4, <2>5, <2>6, CreateDistinct
  <2>8. list'.next <= Len(das) + 1 /\ list'.next - 1 = n + 1
    BY <2>3, <2>4, <2>6
  <2>9. QED
    BY <1>t, <1>s, <2>1, <2>7, <2>8 DEF ListsInv, das
<1>3. CASE CreateSubDataObjects
  <2> DEFINE t1 == todo[1].of.type
  <2>1. Parsing /\ list.next > Len(scl.objects[t1].das)
    BY <1>3 DEF CreateSubDataObjects, At, Parsing
  <2>2. t1 \in DoTypes /\ list.next \in Nat
    BY <1>d, <1>t, <2>1 DEF TypeOK
  <2>3. Len(scl.objects[t1].das) \in Nat /\ list.next <= Len(scl.objects[t1].das) + 1
    BY <1>f, <2>1, <2>2 DEF ListsInv
  <2>4. list.next - 1 = Len(scl.objects[t1].das)
    <3> DEFINE n == Len(scl.objects[t1].das)
    <3>1. n \in Nat /\ list.next \in Nat /\ list.next > n /\ list.next <= n + 1
      BY <2>1, <2>2, <2>3
    <3> HIDE DEF n
    <3>2. list.next - 1 = n
      BY <3>1
    <3>3. QED
      BY <3>2 DEF n
  <2>5. Sourced(scl.objects[t1].das, Len(scl.objects[t1].das), list.made) /\ OneEdit(list.made)
    BY <2>1, <2>4 DEF ListsInv
  <2>6. list'.next = 1 /\ list'.made = <<>> /\ attributes' = [attributes EXCEPT ![t1] = list.made]
    BY <1>3 DEF CreateSubDataObjects
  <2>7. \A t \in DoTypes : attributes'[t] = IF t = t1 THEN list.made ELSE attributes[t]
    BY <1>t, <2>6 DEF TypeOK
  <2>8. ASSUME NEW t \in DoTypes
        PROVE  /\ Sourced(scl.objects[t].das, Len(scl.objects[t].das), attributes'[t])
               /\ OneEdit(attributes'[t])
    BY <2>5, <2>7 DEF ListsInv
  <2>9. QED
    BY <1>r, <2>6, <2>8
<1>4. CASE list' = list /\ attributes' = attributes /\ phase' # "parse"
  BY <1>t, <1>s, <1>4 DEF ListsInv, Parsing
<1>5. CASE UNCHANGED vars
  BY <1>t, <1>5 DEF ListsInv, Parsing, vars
<1>6. QED
  BY <1>1, <1>2, <1>3, <1>4, <1>5 DEF Next, Finished, At, ParseEnd,
     DeclareLogicalNode, DeclareDataObject, DeclareDataAttribute, Declare,
     DeclareEnd, PrintLogicalNode, PrintDataObject, PrintDataAttribute,
     PrintArray, PrintArrayElement, Write, PrintEnd

-----------------------------------------------------------------------------
(* Names inside an element of the model.                                   *)

(* Attributes and array elements: all inside has the same infix. *)
Fixed(x) == x.kind \in {"attribute", "element"}

Differ(p, q) == \E i \in 1..Len(p) : i \in 1..Len(q) /\ p[i] # q[i]

(* Nothing inside x has the name of anything inside y. *)
Apart(x, y) ==
  \/ Differ(x.name.path, y.name.path)
  \/ Fixed(x) /\ Fixed(y) /\ x.name.se # y.name.se

(* The name is not that of anything inside x. *)
Away(name, x) ==
  \/ Len(name.path) < Len(x.name.path)
  \/ Differ(name.path, x.name.path)
  \/ Fixed(x) /\ name.se # x.name.se

Inside(k, x) ==
  /\ Len(k.name.path) = Len(x.name.path) + 1
  /\ \A i \in 1..Len(x.name.path) : k.name.path[i] = x.name.path[i]
  /\ Fixed(x) => Fixed(k) /\ k.name.se = x.name.se

LEMMA PathType ==
  ASSUME NEW name \in Names
  PROVE  name.se \in Nat /\ name.path \in Seq(STRING) /\ Len(name.path) \in Nat
  BY DEF Names

LEMMA ApartSymmetric ==
  ASSUME NEW x \in Items, NEW y \in Items, Apart(x, y)
  PROVE  Apart(y, x)
  BY DEF Apart, Differ

LEMMA ApartInside ==
  ASSUME NEW x \in Items, NEW y \in Items, NEW k \in Items, Apart(x, y), Inside(k, x)
  PROVE  Apart(k, y)
<1>1. Len(x.name.path) \in Nat /\ Len(k.name.path) \in Nat
  BY ItemType, PathType
<1>2. QED
  BY <1>1 DEF Apart, Inside, Differ

LEMMA AwayInside ==
  ASSUME NEW name \in Names, NEW x \in Items, NEW k \in Items, Away(name, x), Inside(k, x)
  PROVE  Away(name, k)
<1>1. Len(x.name.path) \in Nat /\ Len(k.name.path) \in Nat /\ Len(name.path) \in Nat
  BY ItemType, PathType
<1>2. QED
  BY <1>1 DEF Away, Inside, Differ

LEMMA ApartAway ==
  ASSUME NEW x \in Items, NEW y \in Items, Apart(x, y)
  PROVE  Away(x.name, y)
  BY DEF Apart, Away

LEMMA InsideAway ==
  ASSUME NEW x \in Items, NEW k \in Items, Inside(k, x)
  PROVE  Away(x.name, k)
<1>1. Len(x.name.path) \in Nat
  BY ItemType, PathType
<1>2. QED
  BY <1>1 DEF Away, Inside

LEMMA AwayOther ==
  ASSUME NEW name \in Names, NEW x \in Items, Away(name, x)
  PROVE  name # x.name
<1>1. Len(name.path) \in Nat
  BY PathType
<1>2. QED
  BY <1>1 DEF Away, Differ

(* What is written and what is pending are apart. *)
Spread(names, s) ==
  /\ \A n \in names : n \in Names /\ \A i \in 1..Len(s) : Away(n, s[i])
  /\ \A i, j \in 1..Len(s) : i # j => Apart(s[i], s[j])

(* The children of x. *)
Family(x, kids) ==
  /\ kids \in Seq(Items)
  /\ \A i \in 1..Len(kids) : Inside(kids[i], x) /\ kids[i].parent = x.name
  /\ \A i, j \in 1..Len(kids) : i # j => Apart(kids[i], kids[j])

LEMMA SpreadStep ==
  ASSUME NEW s \in Seq(Items), s # <<>>, NEW kids, Family(s[1], kids),
         NEW names, Spread(names, s)
  PROVE  Spread(names \cup {s[1].name}, kids \o Tail(s))
<1> DEFINE new == kids \o Tail(s)
           m == Len(kids)
<1>1. kids \in Seq(Items) /\ m \in Nat /\ Len(s) \in Nat
  BY DEF Family
<1>2. \A i \in 1..Len(new) :
        \/ i \in 1..m /\ new[i] = kids[i]
        \/ i - m + 1 \in 2..Len(s) /\ new[i] = s[i - m + 1]
  <2>1. new \in Seq(Items)
    BY <1>1, FrontIs
  <2>2. QED
    BY <1>1, <2>1, FrontIs
<1>3. /\ \A i \in 1..Len(s) : s[i] \in Items
      /\ \A i \in 1..m : kids[i] \in Items /\ Inside(kids[i], s[1])
      /\ 1 \in 1..Len(s)
  BY <1>1 DEF Family
<1>l. Len(new) \in Nat
  BY <1>1, FrontIs
<1> HIDE DEF new, m
<1>4. ASSUME NEW n \in names \cup {s[1].name}
      PROVE  n \in Names /\ \A i \in 1..Len(new) : Away(n, new[i])
  <2>1. n \in Names
    BY <1>3, ItemType DEF Spread
  <2>2. ASSUME NEW i \in 1..m
        PROVE  Away(n, kids[i])
    <3>1. CASE n \in names
      BY <1>3, <2>1, <3>1, AwayInside DEF Spread
    <3>2. CASE n = s[1].name
      BY <1>3, <3>2, InsideAway
    <3>3. QED
      BY <3>1, <3>2
  <2>3. ASSUME NEW i \in 2..Len(s)
        PROVE  Away(n, s[i])
    <3>0. i \in 1..Len(s) /\ i # 1
      BY <1>1
    <3>1. CASE n \in names
      BY <3>0, <3>1 DEF Spread
    <3>2. CASE n = s[1].name
      <4>1. Apart(s[1], s[i])
        BY <1>3, <3>0 DEF Spread
      <4>2. QED
        BY <1>3, <3>0, <3>2, <4>1, ApartAway
    <3>3. QED
      BY <3>1, <3>2
  <2>4. QED
    BY <1>2, <2>1, <2>2, <2>3
<1>5. ASSUME NEW i \in 1..m, NEW j \in 2..Len(s)
      PROVE  Apart(kids[i], s[j]) /\ Apart(s[j], kids[i])
  <2>1. j \in 1..Len(s) /\ j # 1
    BY <1>1
  <2>2. Apart(s[1], s[j])
    BY <1>3, <2>1 DEF Spread
  <2>3. Apart(kids[i], s[j])
    BY <1>3, <2>1, <2>2, ApartInside
  <2>4. QED
    BY <1>3, <2>1, <2>3, ApartSymmetric
<1>6. ASSUME NEW i \in 1..Len(new), NEW j \in 1..Len(new), i # j
      PROVE  Apart(new[i], new[j])
  <2>1. CASE i \in 1..m /\ new[i] = kids[i] /\ j \in 1..m /\ new[j] = kids[j]
    BY <1>6, <2>1 DEF Family, m
  <2>2. CASE i \in 1..m /\ new[i] = kids[i] /\ j - m + 1 \in 2..Len(s) /\ new[j] = s[j - m + 1]
    BY <1>5, <2>2
  <2>3. CASE j \in 1..m /\ new[j] = kids[j] /\ i - m + 1 \in 2..Len(s) /\ new[i] = s[i - m + 1]
    BY <1>5, <2>3
  <2>4. CASE /\ i - m + 1 \in 2..Len(s) /\ new[i] = s[i - m + 1]
             /\ j - m + 1 \in 2..Len(s) /\ new[j] = s[j - m + 1]
    <3>1. i - m + 1 # j - m + 1 /\ i - m + 1 \in 1..Len(s) /\ j - m + 1 \in 1..Len(s)
      BY <1>1, <1>6, <1>l, <2>4 DEF m
    <3>2. QED
      BY <2>4, <3>1 DEF Spread
  <2>5. QED
    BY <1>2, <2>1, <2>2, <2>3, <2>4
<1>7. QED
  BY <1>4, <1>6 DEF Spread, new

-----------------------------------------------------------------------------
(* The children of every kind of element.                                  *)

(* Objects have no infix, SE attributes have it. *)
WellNamed(x) ==
  /\ x.name.path # <<>>
  /\ ~ Fixed(x) => x.name.se = 0
  /\ Fixed(x) /\ x.of.fc = "SE" => x.name.se > 0
  /\ x.kind = "node" => \E n \in 1..Len(scl.nodes) : x.of = scl.nodes[n]

(* No array, in a file without. *)
Plain(x) == NoArrays(scl) => x.kind # "element" /\ (Fixed(x) => x.of.count = 0)

(* The references along the children are their names. *)
Chain(child, kids) ==
  /\ child = IF kids = <<>> THEN None ELSE kids[1].name
  /\ \A i \in 1..Len(kids) :
       kids[i].sibling = IF i < Len(kids) THEN kids[i + 1].name ELSE None

Brood(x, child, kids) ==
  /\ Family(x, kids)
  /\ Chain(child, kids)
  /\ \A i \in 1..Len(kids) : WellNamed(kids[i]) /\ Plain(kids[i])

(* A name with another part. *)
LEMMA SubPath ==
  ASSUME NEW name \in Names, NEW part \in STRING
  PROVE  /\ Sub(name, part).path # <<>>
         /\ Len(Sub(name, part).path) = Len(name.path) + 1
         /\ \A i \in 1..Len(name.path) : Sub(name, part).path[i] = name.path[i]
         /\ Sub(name, part).path[Len(name.path) + 1] = part
<1>1. name.path \in Seq(STRING)
  BY PathType
<1>2. Sub(name, part).path = Append(name.path, part)
  BY SubType
<1>3. QED
  BY <1>1, <1>2

LEMMA SubDiffer ==
  ASSUME NEW name \in Names, NEW part \in STRING, NEW other \in STRING, part # other
  PROVE  Differ(Sub(name, part).path, Sub(name, other).path)
<1>1. Len(name.path) \in Nat
  BY PathType
<1>2. QED
  BY <1>1, SubPath DEF Differ

LEMMA SubInside ==
  ASSUME NEW x \in Items, NEW k \in Items, NEW part \in STRING,
         k.name.path = Sub(x.name, part).path,
         Fixed(x) => Fixed(k) /\ k.name.se = x.name.se
  PROVE  Inside(k, x) /\ k.name.path # <<>>
<1> DEFINE name == x.name
<1>1. name \in Names
  BY ItemType
<1> HIDE DEF name
<1>2. /\ Sub(name, part).path # <<>>
      /\ Len(Sub(name, part).path) = Len(name.path) + 1
      /\ \A i \in 1..Len(name.path) : Sub(name, part).path[i] = name.path[i]
  BY <1>1, SubPath
<1>3. QED
  BY <1>2 DEF Inside, name

(* The name of an attribute, and how it is referred to. *)
LEMMA DaNameIs ==
  ASSUME PrefixFits, NEW name \in Names, NEW a \in DaDefinitions
  PROVE  /\ DaName(name, a) \in Names
         /\ DaName(name, a).path = Sub(name, a.name).path
         /\ DaReference(name, a) = DaName(name, a)
         /\ a.fc # "SE" => DaName(name, a) = Sub(name, a.name)
         /\ a.fc # "SE" => DaName(name, a).se = name.se
         /\ a.fc = "SE" /\ name.se > 0 => DaName(name, a) = Sub(name, a.name)
         /\ a.fc = "SE" /\ name.se > 0 => DaName(name, a).se = name.se
         /\ a.fc = "SE" => DaName(name, a).se > 0
<1>1. a.name \in STRING
  BY DEF DaDefinitions
<1>2. name.se \in Nat /\ Sub(name, a.name) \in Names /\ Sub(name, a.name).se = name.se
  BY <1>1, SubType, PathType
<1>3. Edit(Sub(name, a.name)).path = Sub(name, a.name).path
  BY <1>2, EditType
<1>4. Edit(Sub(name, a.name)) = Sub(Edit(name), a.name)
  BY <1>1, <1>2 DEF Edit, Sub, Names
<1>5. /\ name.se > 0 => Edit(Sub(name, a.name)) = Sub(name, a.name)
      /\ Edit(Sub(name, a.name)).se > 0
  BY <1>2 DEF Edit, Names
<1>6. QED
  BY <1>2, <1>3, <1>4, <1>5, DaNameType DEF DaName, DaReference

LEMMA ObjectsFamily ==
  ASSUME NEW x \in Items, ~ Fixed(x), x.name.se = 0,
         NEW dos \in Seq(DoDefinitions), NEW last \in Names,
         \A i, j \in 1..Len(dos) : i # j => dos[i].name # dos[j].name
  PROVE  /\ Family(x, Objects(x.name, dos, last))
         /\ \A i \in 1..Len(dos) : LET k == Objects(x.name, dos, last)[i]
                                   IN  WellNamed(k) /\ Plain(k)
<1> DEFINE kids == Objects(x.name, dos, last)
<1>1. kids \in Seq(Items) /\ Len(kids) = Len(dos) /\ x.name \in Names
  BY ObjectsType, ItemType
<1>2. \A i \in 1..Len(dos) : dos[i] \in DoDefinitions
  OBVIOUS
<1>3. \A i \in 1..Len(dos) : dos[i].name \in STRING
  BY <1>2 DEF DoDefinitions
<1>4. \A i \in 1..Len(dos) : /\ kids[i].kind = "object" /\ kids[i].parent = x.name
                             /\ kids[i].name = Sub(x.name, dos[i].name)
  BY DEF Objects, Item
<1> HIDE DEF kids
<1>5. ASSUME NEW i \in 1..Len(dos)
      PROVE  /\ Inside(kids[i], x) /\ kids[i].parent = x.name
             /\ WellNamed(kids[i]) /\ Plain(kids[i])
  <2>0. dos[i].name \in STRING /\ kids[i] \in Items /\ kids[i].name = Sub(x.name, dos[i].name)
    BY <1>1, <1>3, <1>4
  <2>4. Sub(x.name, dos[i].name).se = x.name.se
    BY <1>1, <2>0, SubType
  <2>1. kids[i].name.se = 0
    BY <2>0, <2>4
  <2>2. Inside(kids[i], x) /\ kids[i].name.path # <<>>
    BY <2>0, SubInside
  <2>3. QED
    BY <1>4, <2>1, <2>2 DEF WellNamed, Plain, Fixed
<1>6. ASSUME NEW i \in 1..Len(dos), NEW j \in 1..Len(dos), i # j
      PROVE  Apart(kids[i], kids[j])
  BY <1>1, <1>3, <1>4, <1>6, SubDiffer DEF Apart
<1>7. QED
  BY <1>1, <1>5, <1>6 DEF Family, kids

(* The attributes of an object, under their names with infixes, or the     *)
(* sub-attributes of an attribute, which have its constraint.              *)
LEMMA AttributesFamily ==
  ASSUME PrefixFits, NEW x \in Items, x.name.se \in Nat,
         NEW das \in Seq(DaDefinitions), OneEdit(das),
         NoArrays(scl) => \A i \in 1..Len(das) : das[i].count = 0,
         \/ ~ Fixed(x) /\ x.name.se = 0
         \/ /\ Fixed(x) /\ WellNamed(x)
            /\ \A i \in 1..Len(das) : das[i].fc = x.of.fc
  PROVE  /\ Family(x, Attributes(x.name, das))
         /\ \A i \in 1..Len(das) : LET k == Attributes(x.name, das)[i]
                                   IN  WellNamed(k) /\ Plain(k)
         /\ Chain(FirstAttribute(x.name, das), Attributes(x.name, das))
         /\ Fixed(x) => Chain(FirstSub(x.name, das), Attributes(x.name, das))
<1> DEFINE kids == Attributes(x.name, das)
<1>1. kids \in Seq(Items) /\ Len(kids) = Len(das) /\ x.name \in Names
  BY AttributesType, ItemType
<1>2. \A i \in 1..Len(das) : das[i] \in DaDefinitions
  OBVIOUS
<1>3. \A i \in 1..Len(das) : das[i].name \in STRING
  BY <1>2 DEF DaDefinitions
<1>4. \A i \in 1..Len(das) :
        /\ kids[i].kind = "attribute" /\ kids[i].parent = x.name /\ kids[i].of = das[i]
        /\ kids[i].name = DaName(x.name, das[i])
        /\ kids[i].sibling = IF i < Len(das) THEN DaReference(x.name, das[i + 1]) ELSE None
  BY DEF Attributes, Item
<1>n. ASSUME NEW a \in DaDefinitions
      PROVE  /\ DaName(x.name, a).path = Sub(x.name, a.name).path
             /\ DaReference(x.name, a) = DaName(x.name, a)
             /\ a.fc # "SE" => DaName(x.name, a) = Sub(x.name, a.name)
             /\ a.fc # "SE" => DaName(x.name, a).se = x.name.se
             /\ a.fc = "SE" /\ x.name.se > 0 => DaName(x.name, a) = Sub(x.name, a.name)
             /\ a.fc = "SE" /\ x.name.se > 0 => DaName(x.name, a).se = x.name.se
             /\ a.fc = "SE" => DaName(x.name, a).se > 0
  BY <1>1, DaNameIs
<1> HIDE DEF kids
<1>5. ASSUME NEW i \in 1..Len(das)
      PROVE  /\ Inside(kids[i], x) /\ kids[i].parent = x.name
             /\ WellNamed(kids[i]) /\ Plain(kids[i])
  <2>0. /\ das[i].name \in STRING /\ das[i] \in DaDefinitions /\ kids[i] \in Items
        /\ kids[i].name = DaName(x.name, das[i]) /\ Fixed(kids[i])
    BY <1>1, <1>2, <1>3, <1>4 DEF Fixed
  <2>1. kids[i].name.path = Sub(x.name, das[i].name).path
    BY <1>n, <2>0
  <2>2. das[i].fc = "SE" => kids[i].name.se > 0
    BY <1>n, <2>0
  <2>3. Fixed(x) => kids[i].name.se = x.name.se
    BY <1>n, <2>0 DEF WellNamed
  <2>4. Inside(kids[i], x) /\ kids[i].name.path # <<>>
    BY <2>0, <2>1, <2>3, SubInside
  <2>5. WellNamed(kids[i])
    BY <1>4, <2>2, <2>4 DEF WellNamed, Fixed
  <2>6. QED
    BY <1>4, <2>4, <2>5 DEF Plain
<1>6. ASSUME NEW i \in 1..Len(das), NEW j \in 1..Len(das), i # j
      PROVE  Apart(kids[i], kids[j])
  <2>1. /\ kids[i].name.path = Sub(x.name, das[i].name).path
        /\ kids[j].name.path = Sub(x.name, das[j].name).path
    BY <1>2, <1>4, <1>n
  <2>2. CASE das[i].name # das[j].name
    BY <1>1, <1>3, <2>1, <2>2, SubDiffer DEF Apart
  <2>3. CASE das[i].name = das[j].name
    <3>1. ~ Fixed(x) /\ x.name.se = 0
      BY <1>6, <2>3 DEF OneEdit
    <3>2. \A m \in {i, j} : IF das[m].fc = "SE" THEN kids[m].name.se > 0 ELSE kids[m].name.se = 0
      BY <1>2, <1>4, <1>n, <3>1
    <3>3. kids[i].name.se # kids[j].name.se
      BY <1>6, <2>3, <3>2 DEF OneEdit
    <3>4. QED
      BY <1>4, <3>3 DEF Apart, Fixed
  <2>4. QED
    BY <2>2, <2>3
<1>7. \A i \in 1..Len(kids) : kids[i].sibling = IF i < Len(kids) THEN kids[i + 1].name ELSE None
  <2> SUFFICES ASSUME NEW i \in 1..Len(das)
               PROVE  kids[i].sibling = IF i < Len(das) THEN kids[i + 1].name ELSE None
    BY <1>1
  <2>1. CASE i < Len(das)
    <3>1. i + 1 \in 1..Len(das)
      BY <2>1
    <3>2. QED
      BY <1>2, <1>4, <1>n, <2>1, <3>1
  <2>2. CASE ~ (i < Len(das))
    BY <1>4, <2>2
  <2>3. QED
    BY <2>1, <2>2
<1>8. das = <<>> <=> kids = <<>>
  BY <1>1
<1>9. Chain(FirstAttribute(x.name, das), kids)
  <2>1. das # <<>> => 1 \in 1..Len(das)
    OBVIOUS
  <2>2. das # <<>> => DaReference(x.name, das[1]) = kids[1].name
    BY <1>2, <1>4, <1>n, <2>1
  <2>3. QED
    BY <1>7, <1>8, <2>2 DEF Chain, FirstAttribute
<1>10. Fixed(x) => Chain(FirstSub(x.name, das), kids)
  <2> SUFFICES ASSUME Fixed(x) PROVE Chain(FirstSub(x.name, das), kids)
    OBVIOUS
  <2>1. das # <<>> => 1 \in 1..Len(das)
    OBVIOUS
  <2>2. das # <<>> => Sub(x.name, das[1].name) = kids[1].name
    <3>1. SUFFICES ASSUME das # <<>> PROVE Sub(x.name, das[1].name) = kids[1].name
      OBVIOUS
    <3>2. das[1] \in DaDefinitions /\ kids[1].name = DaName(x.name, das[1]) /\ das[1].fc = x.of.fc
      BY <1>2, <1>4, <2>1, <3>1
    <3>3. das[1].fc = "SE" => x.name.se > 0
      BY <3>2 DEF WellNamed
    <3>4. QED
      BY <1>n, <3>2, <3>3
  <2>3. QED
    BY <1>7, <1>8, <2>2 DEF Chain, FirstSub
<1>11. QED
  BY <1>1, <1>5, <1>6, <1>9, <1>10 DEF Family, kids

LEMMA ElementsFamily ==
  ASSUME NEW x \in Items, x.kind = "attribute", WellNamed(x), x.of.count > 0, ~ NoArrays(scl)
  PROVE  Brood(x, Element(x.name, 1), Elements(x.name, x.of))
<1> DEFINE kids == Elements(x.name, x.of)
           n == x.of.count
<1>1. x.of \in DaDefinitions /\ x.name \in Names
  BY ItemType
<1>2. kids \in Seq(Items) /\ Len(kids) = n
  BY <1>1, ElementsType
<1>3. n \in Nat /\ n <= Len(Digits) /\ Len(Digits) \in Nat
  BY <1>1, DigitsAssumption DEF DaDefinitions
<1>4. \A j \in 1..n : j \in 1..Len(Digits) /\ Digits[j] \in STRING
  BY <1>3, DigitsAssumption
<1>5. \A j \in 1..n : /\ kids[j].kind = "element" /\ kids[j].parent = x.name /\ kids[j].of = x.of
                      /\ kids[j].name = Element(x.name, j)
                      /\ kids[j].sibling = IF j < n THEN Element(x.name, j + 1) ELSE None
  BY DEF Elements, Item
<1>6. \A j \in 1..n : Element(x.name, j) = Sub(x.name, Digits[j])
  BY DEF Element
<1> HIDE DEF kids, n
<1>7. ASSUME NEW i \in 1..n
      PROVE  /\ Inside(kids[i], x) /\ kids[i].parent = x.name
             /\ WellNamed(kids[i]) /\ Plain(kids[i])
  <2>0. /\ Digits[i] \in STRING /\ kids[i] \in Items /\ Fixed(kids[i])
        /\ kids[i].name = Sub(x.name, Digits[i])
    BY <1>2, <1>4, <1>5, <1>6 DEF Fixed
  <2>1. kids[i].name.se = x.name.se
    BY <1>1, <2>0, SubType
  <2>2. Inside(kids[i], x) /\ kids[i].name.path # <<>>
    BY <2>0, <2>1, SubInside
  <2>3. QED
    BY <1>5, <2>1, <2>2 DEF WellNamed, Plain, Fixed
<1>8. ASSUME NEW i \in 1..n, NEW j \in 1..n, i # j
      PROVE  Apart(kids[i], kids[j])
  <2>1. Digits[i] # Digits[j]
    BY <1>4, <1>8, DigitsAssumption DEF IsInjective
  <2>2. QED
    BY <1>1, <1>4, <1>5, <1>6, <2>1, SubDiffer DEF Apart
<1>9. Chain(Element(x.name, 1), kids)
  <2>1. 1 \in 1..n /\ kids # <<>>
    BY <1>2, <1>3 DEF n
  <2>2. \A i \in 1..n : i < n => i + 1 \in 1..n
    BY <1>3
  <2>3. QED
    BY <1>2, <1>5, <2>1, <2>2 DEF Chain
<1>10. QED
  BY <1>2, <1>7, <1>8, <1>9 DEF Brood, Family, kids

LEMMA NodeBrood ==
  ASSUME Hypothesis, ListsInv, NEW x \in Items, x.kind = "node", WellNamed(x)
  PROVE  Brood(x, Sub(x.name, x.of.dos[1].name), NodeChildren(x))
<1> DEFINE dos == x.of.dos
           kids == Objects(x.name, dos, None)
<1>1. PICK n \in 1..Len(scl.nodes) : x.of = scl.nodes[n]
  BY DEF WellNamed
<1>2. \A i, j \in 1..Len(dos) : i # j => dos[i].name # dos[j].name
  BY <1>1, DistinctFile DEF ListsInv, TypeOK
<1>3. dos \in Seq(DoDefinitions) /\ dos # <<>> /\ x.name \in Names
  BY ItemType DEF NodeDefinitions
<1>4. ~ Fixed(x) /\ x.name.se = 0
  BY DEF Fixed, WellNamed
<1>k. NodeChildren(x) = kids
  BY DEF NodeChildren
<1>5. kids \in Seq(Items) /\ Len(kids) = Len(dos)
  BY <1>3, NoneType, ObjectsType
<1>6. /\ Family(x, kids)
      /\ \A i \in 1..Len(dos) : WellNamed(kids[i]) /\ Plain(kids[i])
  <2> HIDE DEF dos
  <2>1. QED
    BY <1>2, <1>3, <1>4, NoneType, ObjectsFamily
<1>7. \A i \in 1..Len(dos) :
        /\ kids[i].name = Sub(x.name, dos[i].name)
        /\ kids[i].sibling = IF i < Len(dos) THEN Sub(x.name, dos[i + 1].name) ELSE None
  BY DEF Objects, Item
<1> HIDE DEF kids, dos
<1>8. Chain(Sub(x.name, dos[1].name), kids)
  <2>1. Len(dos) \in Nat /\ 1 \in 1..Len(dos) /\ kids # <<>>
    BY <1>3, <1>5
  <2>2. \A i \in 1..Len(dos) : i < Len(dos) => i + 1 \in 1..Len(dos)
    BY <2>1
  <2>3. QED
    BY <1>5, <1>7, <2>1, <2>2 DEF Chain
<1>9. QED
  BY <1>5, <1>6, <1>8, <1>k DEF Brood, dos

(* Two lists of children one after the other. *)
LEMMA JoinBroods ==
  ASSUME NEW x, NEW a, NEW b, Family(x, a), Family(x, b),
         \A i \in 1..Len(a) : WellNamed(a[i]) /\ Plain(a[i]),
         \A i \in 1..Len(b) : WellNamed(b[i]) /\ Plain(b[i]),
         \A i \in 1..Len(a), j \in 1..Len(b) : Apart(a[i], b[j]) /\ Apart(b[j], a[i]),
         NEW first, Chain(first, b),
         \A i \in 1..Len(a) : a[i].sibling = IF i < Len(a) THEN a[i + 1].name ELSE first,
         NEW child, child = IF a # <<>> THEN a[1].name ELSE first
  PROVE  Brood(x, child, a \o b)
<1> DEFINE s == a \o b
           m == Len(a)
           n == Len(b)
<1>1. a \in Seq(Items) /\ b \in Seq(Items) /\ m \in Nat /\ n \in Nat
  BY DEF Family
<1>2. /\ s \in Seq(Items) /\ Len(s) = m + n
      /\ \A i \in 1..m : s[i] = a[i]
      /\ \A i \in 1..m + n : i > m => s[i] = b[i - m]
  BY <1>1
<1>3. \A i \in 1..m + n : \/ i \in 1..m /\ s[i] = a[i]
                          \/ i - m \in 1..n /\ s[i] = b[i - m]
  BY <1>1, <1>2
<1>4. (m = 0 <=> a = <<>>) /\ (n = 0 <=> b = <<>>) /\ (m + n = 0 <=> s = <<>>)
  BY <1>1, <1>2
<1> HIDE DEF s, m, n
<1>5. ASSUME NEW i \in 1..m + n
      PROVE  Inside(s[i], x) /\ s[i].parent = x.name /\ WellNamed(s[i]) /\ Plain(s[i])
  <2>1. CASE i \in 1..m /\ s[i] = a[i]
    BY <2>1 DEF Family, m
  <2>2. CASE i - m \in 1..n /\ s[i] = b[i - m]
    BY <2>2 DEF Family, n
  <2>3. QED
    BY <1>3, <2>1, <2>2
<1>6. ASSUME NEW i \in 1..m + n, NEW j \in 1..m + n, i # j
      PROVE  Apart(s[i], s[j])
  <2>1. CASE i \in 1..m /\ s[i] = a[i] /\ j \in 1..m /\ s[j] = a[j]
    BY <1>6, <2>1 DEF Family, m
  <2>2. CASE i \in 1..m /\ s[i] = a[i] /\ j - m \in 1..n /\ s[j] = b[j - m]
    BY <2>2 DEF m, n
  <2>3. CASE j \in 1..m /\ s[j] = a[j] /\ i - m \in 1..n /\ s[i] = b[i - m]
    BY <2>3 DEF m, n
  <2>4. CASE i - m \in 1..n /\ s[i] = b[i - m] /\ j - m \in 1..n /\ s[j] = b[j - m]
    <3>1. i - m # j - m
      BY <1>1, <1>6
    <3>2. QED
      BY <2>4, <3>1 DEF Family, n
  <2>5. QED
    BY <1>3, <2>1, <2>2, <2>3, <2>4
<1>7. ASSUME NEW i \in 1..m + n
      PROVE  s[i].sibling = IF i < m + n THEN s[i + 1].name ELSE None
  <2>1. CASE i < m
    <3>1. i + 1 \in 1..m /\ i \in 1..m
      BY <1>1, <2>1
    <3>2. i < m + n
      BY <1>1, <2>1
    <3>3. QED
      BY <1>2, <2>1, <3>1, <3>2 DEF m
  <2>2. CASE i = m
    <3>1. s[i] = a[i] /\ s[i].sibling = first
      BY <1>1, <1>2, <2>2 DEF m
    <3>2. CASE n = 0
      BY <1>1, <1>4, <2>2, <3>1, <3>2 DEF Chain
    <3>3. CASE n > 0
      <4>1. i + 1 \in 1..m + n /\ i + 1 > m /\ (i + 1) - m = 1 /\ i < m + n
        BY <1>1, <2>2, <3>3
      <4>2. s[i + 1] = b[1]
        BY <1>2, <4>1
      <4>3. first = b[1].name
        BY <1>1, <1>4, <3>3 DEF Chain
      <4>4. QED
        BY <3>1, <4>1, <4>2, <4>3
    <3>4. QED
      BY <1>1, <3>2, <3>3
  <2>3. CASE i > m
    <3>1. i - m \in 1..n /\ s[i] = b[i - m]
      BY <1>1, <1>2, <2>3
    <3>2. b[i - m].sibling = IF i - m < n THEN b[i - m + 1].name ELSE None
      BY <3>1 DEF Chain, n
    <3>3. CASE i < m + n
      <4>1. i - m < n /\ i + 1 \in 1..m + n /\ i + 1 > m /\ (i + 1) - m = i - m + 1
        BY <1>1, <2>3, <3>3
      <4>2. s[i + 1] = b[i - m + 1]
        BY <1>2, <4>1
      <4>3. QED
        BY <3>1, <3>2, <3>3, <4>1, <4>2
    <3>4. CASE ~ (i < m + n)
      <4>1. ~ (i - m < n)
        BY <1>1, <2>3, <3>4
      <4>2. QED
        BY <3>1, <3>2, <3>4, <4>1
    <3>5. QED
      BY <3>3, <3>4
  <2>4. QED
    BY <1>1, <2>1, <2>2, <2>3
<1>8. child = IF s = <<>> THEN None ELSE s[1].name
  <2>1. CASE m > 0
    <3>1. s[1] = a[1] /\ a # <<>> /\ s # <<>>
      BY <1>1, <1>2, <1>4, <2>1
    <3>2. QED
      BY <3>1
  <2>2. CASE m = 0 /\ n > 0
    <3>1. s[1] = b[1] /\ a = <<>> /\ b # <<>> /\ s # <<>>
      BY <1>1, <1>2, <1>4, <2>2
    <3>2. QED
      BY <3>1 DEF Chain
  <2>3. CASE m = 0 /\ n = 0
    BY <1>1, <1>4, <2>3 DEF Chain
  <2>4. QED
    BY <1>1, <2>1, <2>2, <2>3
<1>9. QED
  BY <1>2, <1>5, <1>6, <1>7, <1>8 DEF Brood, Family, Chain, s

LEMMA ObjectBrood ==
  ASSUME Hypothesis, ListsInv, NEW x \in Items, x.kind = "object", WellNamed(x)
  PROVE  Brood(x, IF scl.objects[x.of.type].sdos # <<>>
                  THEN FirstSub(x.name, scl.objects[x.of.type].sdos)
                  ELSE FirstAttribute(x.name, attributes[x.of.type]),
               ObjectChildren(x))
<1> DEFINE t == x.of.type
           sdos == scl.objects[t].sdos
           defined == scl.objects[t].das
           das == attributes[t]
           first == FirstAttribute(x.name, das)
           a == Objects(x.name, sdos, first)
           b == Attributes(x.name, das)
<1>1. t \in DoTypes /\ x.name \in Names
  BY ItemType DEF DoDefinitions
<1>2. sdos \in Seq(DoDefinitions) /\ das \in Seq(DaDefinitions) /\ defined \in Seq(DaDefinitions)
  BY <1>1, FileType DEF ListsInv, TypeOK
<1>3. OneEdit(das) /\ Sourced(defined, Len(defined), das)
  BY <1>1 DEF ListsInv
<1>4. /\ \A i, j \in 1..Len(sdos) : i # j => sdos[i].name # sdos[j].name
      /\ \A i \in 1..Len(sdos), j \in 1..Len(defined) : sdos[i].name # defined[j].name
  BY <1>1, DistinctFile DEF ListsInv, TypeOK
<1>5. ~ Fixed(x) /\ x.name.se = 0
  BY DEF Fixed, WellNamed
<1>6. NoArrays(scl) => \A j \in 1..Len(defined) : defined[j].count = 0
  <2>1. DOMAIN defined = 1..Len(defined)
    BY <1>2
  <2>2. QED
    BY <1>1, <2>1 DEF NoArrays
<1>o. ObjectChildren(x) = a \o b
  BY DEF ObjectChildren
<1> HIDE DEF t, sdos, defined, das
<1>7. NoArrays(scl) => \A j \in 1..Len(das) : das[j].count = 0
  BY <1>3, <1>6 DEF Sourced
<1>8. first \in Names
  BY <1>1, <1>2, FirstType
<1>9. /\ a \in Seq(Items) /\ Len(a) = Len(sdos) /\ b \in Seq(Items) /\ Len(b) = Len(das)
  BY <1>1, <1>2, <1>8, ObjectsType, AttributesType
<1> HIDE DEF first
<1>10. Family(x, a) /\ \A i \in 1..Len(sdos) : WellNamed(a[i]) /\ Plain(a[i])
  BY <1>2, <1>4, <1>5, <1>8, ObjectsFamily
<1>11. PrefixFits
  BY DEF Hypothesis
<1>12. /\ Family(x, b) /\ \A i \in 1..Len(das) : WellNamed(b[i]) /\ Plain(b[i])
       /\ Chain(first, b)
  BY <1>2, <1>3, <1>5, <1>7, <1>11, AttributesFamily DEF first
<1>13. ASSUME NEW i \in 1..Len(sdos), NEW j \in 1..Len(das)
       PROVE  Apart(a[i], b[j]) /\ Apart(b[j], a[i])
  <2>1. sdos[i] \in DoDefinitions /\ das[j] \in DaDefinitions
    BY <1>2
  <2>2. sdos[i].name \in STRING /\ das[j].name \in STRING
    BY <2>1 DEF DoDefinitions, DaDefinitions
  <2>3. sdos[i].name # das[j].name
    BY <1>3, <1>4 DEF Sourced
  <2>4. a[i].name = Sub(x.name, sdos[i].name)
    BY <1>2 DEF Objects, Item
  <2>5. b[j].name = DaName(x.name, das[j])
    BY <1>2 DEF Attributes, Item
  <2>6. DaName(x.name, das[j]).path = Sub(x.name, das[j].name).path
    BY <1>1, <1>11, <2>1, DaNameIs
  <2>7. Differ(a[i].name.path, b[j].name.path) /\ Differ(b[j].name.path, a[i].name.path)
    BY <1>1, <2>2, <2>3, <2>4, <2>5, <2>6, SubDiffer
  <2>8. QED
    BY <2>7 DEF Apart
<1>14. ASSUME NEW i \in 1..Len(sdos)
       PROVE  a[i].sibling = IF i < Len(sdos) THEN a[i + 1].name ELSE first
  <2>1. a[i].sibling = IF i < Len(sdos) THEN Sub(x.name, sdos[i + 1].name) ELSE first
    BY <1>2 DEF Objects, Item
  <2>2. i < Len(sdos) => i + 1 \in 1..Len(sdos)
    BY <1>2
  <2>3. \A j \in 1..Len(sdos) : a[j].name = Sub(x.name, sdos[j].name)
    BY <1>2 DEF Objects, Item
  <2>4. QED
    BY <2>1, <2>2, <2>3
<1>15. (IF sdos # <<>> THEN FirstSub(x.name, sdos) ELSE first)
         = IF a # <<>> THEN a[1].name ELSE first
  <2>1. sdos = <<>> <=> a = <<>>
    BY <1>2, <1>9
  <2>2. sdos # <<>> => 1 \in 1..Len(sdos)
    BY <1>2
  <2>3. sdos # <<>> => a[1].name = Sub(x.name, sdos[1].name)
    BY <1>2, <2>2 DEF Objects, Item
  <2>4. QED
    BY <2>1, <2>3 DEF FirstSub
<1> HIDE DEF a, b
<1>16. Brood(x, IF sdos # <<>> THEN FirstSub(x.name, sdos) ELSE first, a \o b)
  BY <1>9, <1>10, <1>12, <1>13, <1>14, <1>15, JoinBroods
<1>17. QED
  BY <1>16, <1>o DEF first, sdos, das, t

LEMMA AttributeBrood ==
  ASSUME Hypothesis, ListsInv, NEW x \in Items, Fixed(x), WellNamed(x)
  PROVE  Brood(x, FirstSub(x.name, SubAttributes(x.of)), AttributeChildren(x))
<1> DEFINE subs == scl.structs[x.of.type]
           das == SubAttributes(x.of)
<1>1. x.of \in DaDefinitions /\ x.name \in Names /\ x.name.se \in Nat
  BY ItemType, PathType DEF Fixed
<1>2. x.of.type \in DaTypes /\ x.of.fc \in Constraints
  BY <1>1 DEF DaDefinitions
<1>3. subs \in Seq(DaDefinitions)
  BY <1>2, FileType DEF ListsInv, TypeOK
<1>4. das \in Seq(DaDefinitions) /\ Len(das) = Len(subs)
  BY <1>1, SubAttributesType DEF ListsInv
<1>5. \A i \in 1..Len(subs) : das[i] = NewDataAttribute(subs[i], x.of.fc)
  BY <1>3 DEF SubAttributes
<1>6. \A i, j \in 1..Len(subs) : i # j => subs[i].name # subs[j].name
  BY <1>2, DistinctFile DEF ListsInv, TypeOK
<1>7. NoArrays(scl) => \A i \in 1..Len(subs) : subs[i].count = 0
  <2>1. DOMAIN subs = 1..Len(subs)
    BY <1>3
  <2>2. QED
    BY <1>2, <2>1 DEF NoArrays
<1>f. \A i \in 1..Len(subs) : subs[i].fc = ""
  <2>1. DOMAIN subs = 1..Len(subs)
    BY <1>3
  <2>2. scl \in Inputs
    BY DEF ListsInv, TypeOK
  <2>3. QED
    BY <1>2, <2>1, <2>2, InputsAssumption
<1>k. AttributeChildren(x) = Attributes(x.name, das)
  BY DEF AttributeChildren
<1> HIDE DEF subs, das
<1>8. \A i \in 1..Len(subs) : subs[i] \in DaDefinitions
  BY <1>3
<1>9. \A i \in 1..Len(subs) : /\ das[i].name = subs[i].name /\ das[i].count = subs[i].count
                              /\ das[i].fc = x.of.fc
  <2> SUFFICES ASSUME NEW i \in 1..Len(subs)
               PROVE  /\ das[i].name = subs[i].name /\ das[i].count = subs[i].count
                      /\ das[i].fc = x.of.fc
    OBVIOUS
  <2>1. subs[i] \in DaDefinitions /\ subs[i].fc = "" /\ das[i] = NewDataAttribute(subs[i], x.of.fc)
    BY <1>5, <1>8, <1>f
  <2>2. /\ NewDataAttribute(subs[i], x.of.fc).name = subs[i].name
        /\ NewDataAttribute(subs[i], x.of.fc).count = subs[i].count
        /\ NewDataAttribute(subs[i], x.of.fc).fc = IF x.of.fc = "" THEN subs[i].fc ELSE x.of.fc
    BY <1>2, <2>1, NewDataAttributeType
  <2>3. QED
    BY <2>1, <2>2
<1>10. OneEdit(das)
  BY <1>4, <1>6, <1>9 DEF OneEdit
<1>11. NoArrays(scl) => \A i \in 1..Len(das) : das[i].count = 0
  BY <1>4, <1>7, <1>9
<1>12. \A i \in 1..Len(das) : das[i].fc = x.of.fc
  BY <1>4, <1>9
<1>13. Attributes(x.name, das) \in Seq(Items) /\ Len(Attributes(x.name, das)) = Len(das)
  BY <1>1, <1>4, AttributesType
<1>14. PrefixFits
  BY DEF Hypothesis
<1>15. /\ Family(x, Attributes(x.name, das))
       /\ \A i \in 1..Len(das) : LET k == Attributes(x.name, das)[i]
                                 IN  WellNamed(k) /\ Plain(k)
       /\ Chain(FirstSub(x.name, das), Attributes(x.name, das))
  BY <1>1, <1>4, <1>10, <1>11, <1>12, <1>14, AttributesFamily
<1>16. QED
  BY <1>13, <1>15, <1>k DEF Brood, das

-----------------------------------------------------------------------------
(* The walks over the header and the C file.                               *)

Good == {x \in Items : WellNamed(x) /\ Plain(x)}

(* What is visited inside an element, when it is no array. *)
Children ==
  [x \in Items |-> IF x.kind = "node" THEN NodeChildren(x)
                   ELSE IF x.kind = "object" THEN ObjectChildren(x)
                   ELSE AttributeChildren(x)]

(* The nodes and the children of what is declared are among the given. *)
Reached(items) ==
  /\ \A n \in 1..Len(scl.nodes) : LogicalNodes[n] \in items
  /\ \A x \in declared : \A i \in 1..Len(Children[x]) : Children[x][i] \in items

(* What is written and then what is pending: the siblings lead to later    *)
(* entries of the same parent, the parent of an entry is written, its      *)
(* children are reached from its first child and that one is an entry.     *)
Linked(written, entries) ==
  /\ \A e \in 1..Len(entries) : entries[e].sibling # None =>
       \E f \in 1..Len(entries) : /\ e < f /\ entries[f].parent = entries[e].parent
                                  /\ entries[f].name = entries[e].sibling
  /\ \A e \in 1..Len(entries) : entries[e].parent # None =>
       \E a \in 1..Len(written) : entries[e].parent = written[a].name
  /\ \A a \in 1..Len(written), e \in 1..Len(entries) :
       entries[e].parent = written[a].name =>
         \/ entries[e].name = written[a].child
         \/ \E f \in 1..Len(entries) : /\ f < e /\ entries[f].parent = entries[e].parent
                                       /\ entries[f].sibling = entries[e].name
  /\ \A a \in 1..Len(written) : written[a].child # None =>
       \E e \in 1..Len(entries) : /\ entries[e].parent = written[a].name
                                  /\ entries[e].name = written[a].child

Header == {None} \cup {x.name : x \in declared}

(* What is pending is declared, and so is what is referred to. *)
Referred ==
  /\ \A i \in 1..Len(todo) :
       todo[i] \in declared /\ todo[i].parent \in Header /\ todo[i].sibling \in Header
  /\ \A d \in 1..Len(defs) :
       defs[d].parent \in Header /\ defs[d].sibling \in Header /\ defs[d].child \in Header

(* While the header is written: no pending name is declared, so nothing is *)
(* skipped, and nothing of the model is lost.                              *)
DeclareInv ==
  /\ defs = <<>>
  /\ todo \in Seq(Good)
  /\ Spread({x.name : x \in declared}, todo)
  /\ Reached(declared \cup {todo[i] : i \in 1..Len(todo)})

(* While the C file is written: the header is complete, no pending name is *)
(* written, the references lead through what is written and pending.       *)
DefineInv ==
  /\ phase = "done" => todo = <<>>
  /\ todo \in Seq(Good)
  /\ Spread({Defined(d) : d \in 1..Len(defs)}, todo)
  /\ Reached(declared)
  /\ UniqueNames
  /\ Linked(defs, defs \o todo)
  /\ NoArrays(scl) => Referred

TreeInv ==
  /\ ListsInv
  /\ phase = "parse" => defs = <<>> /\ declared = {}
  /\ phase = "declare" => DeclareInv
  /\ phase \in {"define", "done"} => DefineInv

(* Another variable is written, and its children are pending. *)
LEMMA LinkedStep ==
  ASSUME NEW written \in Seq(Variables), NEW s \in Seq(Items), s # <<>>, s[1].name # None,
         NEW child \in Names, NEW kids, Family(s[1], kids), Chain(child, kids),
         \A a \in 1..Len(written) : written[a].name # s[1].name,
         Linked(written, written \o s)
  PROVE  Linked(Append(written, Variable(s[1], child)),
                Append(written, Variable(s[1], child)) \o (kids \o Tail(s)))
<1> DEFINE v == Variable(s[1], child)
           w == Append(written, v)
           rest == kids \o Tail(s)
           old == written \o s
           new == w \o rest
           p == Len(written) + 1
           m == Len(kids)
           n == Len(s)
           Moved(e) == IF e <= p THEN e ELSE e + m
<1>1. kids \in Seq(Items) /\ p \in Nat /\ p >= 1 /\ m \in Nat /\ n \in Nat /\ n >= 1
  BY DEF Family
<1>0. s[1] \in Items
  OBVIOUS
<1>2. /\ v \in Variables
      /\ v.name = s[1].name /\ v.parent = s[1].parent /\ v.sibling = s[1].sibling /\ v.child = child
  BY <1>0, ItemType DEF Variable, Variables
<1>3. /\ w \in Seq(Variables) /\ Len(w) = p /\ w[p] = v
      /\ \A a \in 1..p - 1 : w[a] = written[a]
  <2> HIDE DEF v
  <2>1. QED
    BY <1>2
<1>4. /\ rest \in Seq(Items) /\ Len(rest) = m + n - 1
      /\ \A i \in 1..m : rest[i] = kids[i]
      /\ \A i \in 2..n : rest[m + i - 1] = s[i]
  BY <1>1, FrontIs
<1> DEFINE Entries == Variables \cup Items
<1>5. /\ written \in Seq(Entries) /\ s \in Seq(Entries)
      /\ w \in Seq(Entries) /\ rest \in Seq(Entries)
  <2> HIDE DEF w, rest, v
  <2>1. QED
    BY <1>3, <1>4
<1> HIDE DEF v, w, rest, Entries
<1>6. /\ Len(old) = p - 1 + n
      /\ \A e \in 1..p - 1 : old[e] = written[e]
      /\ \A i \in 1..n : old[p - 1 + i] = s[i]
  BY <1>5
<1>7. /\ Len(new) = p + m + n - 1
      /\ \A e \in 1..p : new[e] = w[e]
      /\ \A i \in 1..m + n - 1 : new[p + i] = rest[i]
  <2>1. /\ Len(new) = Len(w) + Len(rest)
        /\ \A e \in 1..Len(w) : new[e] = w[e]
        /\ \A i \in 1..Len(rest) : new[Len(w) + i] = rest[i]
    BY <1>5
  <2>2. Len(w) = p /\ Len(rest) = m + n - 1
    BY <1>3, <1>4
  <2> HIDE DEF new, p, m, n
  <2>3. QED
    BY <1>1, <2>1, <2>2
<1>8l. Len(new) = p + m + n - 1 /\ Len(old) = p - 1 + n
  BY <1>6, <1>7
<1> DEFINE Same(x, y) == x.name = y.name /\ x.parent = y.parent /\ x.sibling = y.sibling
<1> HIDE DEF old, new, p, m, n
<1>8. ASSUME NEW e \in 1..Len(old)
      PROVE  Moved(e) \in 1..Len(new) /\ Same(new[Moved(e)], old[e])
  <2>1. CASE e \in 1..p - 1
    <3>1. Moved(e) = e /\ e \in 1..p /\ e \in 1..Len(new)
      BY <1>1, <1>7, <2>1
    <3>2. new[e] = old[e]
      BY <1>3, <1>6, <1>7, <2>1, <3>1
    <3>3. QED
      BY <3>1, <3>2
  <2>2. CASE e = p
    <3>1. Moved(e) = p /\ p \in 1..p /\ p \in 1..Len(new) /\ 1 \in 1..n /\ p - 1 + 1 = p
      BY <1>1, <1>7, <2>2
    <3>2. new[p] = v /\ old[p] = s[1]
      BY <1>3, <1>6, <1>7, <3>1
    <3>3. QED
      BY <1>2, <2>2, <3>1, <3>2
  <2>3. CASE e > p
    <3> DEFINE i == e - p + 1
    <3>0. e \in Nat /\ e <= p - 1 + n
      BY <1>1, <1>8l
    <3>1. /\ Moved(e) = e + m /\ e + m \in 1..Len(new) /\ i \in 2..n /\ i \in 1..n
          /\ p - 1 + i = e /\ m + i - 1 \in 1..m + n - 1 /\ p + (m + i - 1) = e + m
      BY <1>1, <1>8l, <2>3, <3>0
    <3> HIDE DEF i
    <3>2. new[e + m] = s[i] /\ old[e] = s[i]
      BY <1>4, <1>6, <1>7, <3>1
    <3>3. QED
      BY <3>1, <3>2
  <2>4. QED
    BY <1>1, <1>6, <2>1, <2>2, <2>3
<1>9. \A e, f \in 1..Len(old) : e < f => Moved(e) < Moved(f)
  BY <1>1, <1>6
<1>10. \A i \in 1..m : p + i \in 1..Len(new) /\ new[p + i] = kids[i]
  <2> SUFFICES ASSUME NEW i \in 1..m PROVE p + i \in 1..Len(new) /\ new[p + i] = kids[i]
    OBVIOUS
  <2>1. i \in 1..m + n - 1 /\ p + i \in 1..Len(new)
    BY <1>1, <1>8l
  <2>2. QED
    BY <1>4, <1>7, <2>1
<1>11. ASSUME NEW g \in 1..Len(new)
       PROVE  (\E e \in 1..Len(old) : g = Moved(e)) \/ (\E i \in 1..m : g = p + i)
  <2>1. CASE g <= p
    <3>1. g \in 1..Len(old) /\ g = Moved(g)
      BY <1>1, <1>6, <2>1
    <3>2. QED
      BY <3>1
  <2>2. CASE p < g /\ g <= p + m
    <3>1. g - p \in 1..m /\ g = p + (g - p)
      BY <1>1, <1>7, <2>2
    <3>2. QED
      BY <3>1
  <2>3. CASE p + m < g
    <3>1. g - m \in 1..Len(old) /\ g = Moved(g - m)
      BY <1>1, <1>6, <1>7, <2>3
    <3>2. QED
      BY <3>1
  <2>4. QED
    BY <1>1, <1>7, <2>1, <2>2, <2>3
<1>12. Linked(written, old)
  BY DEF old
<1>13. \A i \in 1..m : /\ kids[i].parent = s[1].name
                       /\ kids[i].sibling = IF i < m THEN kids[i + 1].name ELSE None
  BY DEF Family, Chain, m
<1>14. child = IF m = 0 THEN None ELSE kids[1].name
  BY <1>1 DEF Chain, m
<1>l. Len(written) = p - 1
  BY <1>1 DEF p
<1>15. \A a \in 1..p - 1 : written[a].name # s[1].name
  BY <1>l
<1> HIDE DEF Moved
<1>16. ASSUME NEW g \in 1..Len(new), new[g].sibling # None
       PROVE  \E h \in 1..Len(new) : /\ g < h /\ new[h].parent = new[g].parent
                                     /\ new[h].name = new[g].sibling
  <2>1. ASSUME NEW e \in 1..Len(old), g = Moved(e)
        PROVE  \E h \in 1..Len(new) : /\ g < h /\ new[h].parent = new[g].parent
                                      /\ new[h].name = new[g].sibling
    <3>0. Same(new[g], old[e]) /\ old[e].sibling # None
      BY <1>8, <1>16, <2>1
    <3>1. PICK f \in 1..Len(old) : /\ e < f /\ old[f].parent = old[e].parent
                                   /\ old[f].name = old[e].sibling
      BY <1>12, <3>0 DEF Linked
    <3>2. Moved(f) \in 1..Len(new) /\ Same(new[Moved(f)], old[f]) /\ g < Moved(f)
      BY <1>8, <1>9, <2>1, <3>1
    <3>3. QED
      BY <3>0, <3>1, <3>2
  <2>2. ASSUME NEW i \in 1..m, g = p + i
        PROVE  \E h \in 1..Len(new) : /\ g < h /\ new[h].parent = new[g].parent
                                      /\ new[h].name = new[g].sibling
    <3>0. new[g] = kids[i] /\ kids[i].sibling # None
      BY <1>10, <1>16, <2>2
    <3>1. i < m
      BY <1>13, <3>0
    <3>2. i + 1 \in 1..m /\ g < p + (i + 1)
      BY <1>1, <2>2, <3>1
    <3>3. p + (i + 1) \in 1..Len(new) /\ new[p + (i + 1)] = kids[i + 1]
      BY <1>10, <3>2
    <3>4. kids[i].sibling = kids[i + 1].name /\ kids[i].parent = kids[i + 1].parent
      BY <1>13, <3>1, <3>2
    <3>5. QED
      BY <3>0, <3>2, <3>3, <3>4
  <2>3. QED
    BY <1>11, <2>1, <2>2
<1>17. ASSUME NEW g \in 1..Len(new), new[g].parent # None
       PROVE  \E a \in 1..Len(w) : new[g].parent = w[a].name
  <2>1. ASSUME NEW e \in 1..Len(old), g = Moved(e)
        PROVE  \E a \in 1..Len(w) : new[g].parent = w[a].name
    <3>0. old[e].parent # None
      BY <1>8, <1>17, <2>1
    <3>1. PICK a \in 1..p - 1 : old[e].parent = written[a].name
      BY <1>12, <1>l, <3>0 DEF Linked
    <3>2. a \in 1..Len(w)
      BY <1>1, <1>3, <3>1
    <3>3. QED
      BY <1>3, <1>8, <2>1, <3>1, <3>2
  <2>2. ASSUME NEW i \in 1..m, g = p + i
        PROVE  \E a \in 1..Len(w) : new[g].parent = w[a].name
    <3>1. p \in 1..Len(w)
      BY <1>1, <1>3
    <3>2. QED
      BY <1>2, <1>3, <1>10, <1>13, <2>2, <3>1
  <2>3. QED
    BY <1>11, <2>1, <2>2
<1>18. ASSUME NEW a \in 1..Len(w), NEW g \in 1..Len(new), new[g].parent = w[a].name
       PROVE  \/ new[g].name = w[a].child
              \/ \E h \in 1..Len(new) : /\ h < g /\ new[h].parent = new[g].parent
                                        /\ new[h].sibling = new[g].name
  <2>0. a \in 1..p - 1 \/ a = p
    BY <1>1, <1>3
  <2>1. ASSUME NEW e \in 1..Len(old), g = Moved(e)
        PROVE  \/ new[g].name = w[a].child
               \/ \E h \in 1..Len(new) : /\ h < g /\ new[h].parent = new[g].parent
                                         /\ new[h].sibling = new[g].name
    <3>1. CASE a \in 1..p - 1
      <4>1. \/ old[e].name = written[a].child
            \/ \E f \in 1..Len(old) : /\ f < e /\ old[f].parent = old[e].parent
                                      /\ old[f].sibling = old[e].name
        <5>1. old[e].parent = written[a].name
          BY <1>3, <1>8, <1>18, <2>1, <3>1
        <5>2. a \in 1..Len(written)
          BY <1>l, <3>1
        <5>3. QED
          BY <1>12, <5>1, <5>2 DEF Linked
      <4>2. CASE old[e].name = written[a].child
        BY <1>3, <1>8, <2>1, <3>1, <4>2
      <4>3. ASSUME NEW f \in 1..Len(old), f < e, old[f].parent = old[e].parent,
                   old[f].sibling = old[e].name
            PROVE  \E h \in 1..Len(new) : /\ h < g /\ new[h].parent = new[g].parent
                                          /\ new[h].sibling = new[g].name
        <5>1. Moved(f) \in 1..Len(new) /\ Same(new[Moved(f)], old[f]) /\ Moved(f) < g
          BY <1>8, <1>9, <2>1, <4>3
        <5>2. Same(new[g], old[e])
          BY <1>8, <2>1
        <5>3. QED
          BY <4>3, <5>1, <5>2
      <4>4. QED
        BY <4>1, <4>2, <4>3
    <3>2. CASE a = p
      <4>1. old[e].parent = s[1].name
        BY <1>2, <1>3, <1>8, <1>18, <2>1, <3>2
      <4>2. \E b \in 1..p - 1 : old[e].parent = written[b].name
        BY <1>12, <1>l, <4>1 DEF Linked
      <4>3. QED
        BY <1>15, <4>1, <4>2
    <3>3. QED
      BY <2>0, <3>1, <3>2
  <2>2. ASSUME NEW i \in 1..m, g = p + i
        PROVE  \/ new[g].name = w[a].child
               \/ \E h \in 1..Len(new) : /\ h < g /\ new[h].parent = new[g].parent
                                         /\ new[h].sibling = new[g].name
    <3>1. a = p
      BY <1>3, <1>10, <1>13, <1>15, <1>18, <2>0, <2>2
    <3>2. CASE i = 1
      BY <1>1, <1>2, <1>3, <1>10, <1>14, <2>2, <3>1, <3>2
    <3>3. CASE i > 1
      <4>1. i - 1 \in 1..m /\ i - 1 < m /\ (i - 1) + 1 = i /\ p + (i - 1) < g
        BY <1>1, <2>2, <3>3
      <4>2. kids[i - 1].sibling = kids[i].name /\ kids[i - 1].parent = kids[i].parent
        BY <1>13, <4>1
      <4>3. QED
        BY <1>10, <2>2, <4>1, <4>2
    <3>4. QED
      BY <1>1, <3>2, <3>3
  <2>3. QED
    BY <1>11, <2>1, <2>2
<1>19. ASSUME NEW a \in 1..Len(w), w[a].child # None
       PROVE  \E g \in 1..Len(new) : new[g].parent = w[a].name /\ new[g].name = w[a].child
  <2>1. CASE a \in 1..p - 1
    <3>1. PICK e \in 1..Len(old) : /\ old[e].parent = written[a].name
                                   /\ old[e].name = written[a].child
      BY <1>3, <1>12, <1>19, <1>l, <2>1 DEF Linked
    <3>2. Moved(e) \in 1..Len(new) /\ Same(new[Moved(e)], old[e])
      BY <1>8
    <3>3. w[a] = written[a]
      BY <1>3, <2>1
    <3>4. QED
      BY <3>1, <3>2, <3>3
  <2>2. CASE a = p
    <3>1. 1 \in 1..m /\ child = kids[1].name
      BY <1>1, <1>2, <1>3, <1>14, <1>19, <2>2
    <3>2. QED
      BY <1>2, <1>3, <1>10, <1>13, <2>2, <3>1
  <2>3. QED
    BY <1>1, <1>3, <2>1, <2>2
<1>20. Linked(w, new)
  BY <1>16, <1>17, <1>18, <1>19 DEF Linked
<1>21. QED
  BY <1>20 DEF w, new, v, rest

LEMMA ChildrenAre ==
  ASSUME NEW x \in Items
  PROVE  /\ x.kind = "node" => Children[x] = NodeChildren(x)
         /\ x.kind = "object" => Children[x] = ObjectChildren(x)
         /\ Fixed(x) => Children[x] = AttributeChildren(x)
  BY DEF Children, Fixed

(* Nothing of this changes after parsing. *)
LEMMA FileUnchanged ==
  ASSUME UNCHANGED <<scl, attributes>>
  PROVE  Good' = Good /\ Children' = Children /\ LogicalNodes' = LogicalNodes
<1>1. Good' = Good
  BY DEF Good, WellNamed, Plain, NoArrays
<1>2. Children' = Children
  BY DEF Children, NodeChildren, ObjectChildren, AttributeChildren,
     SubAttributes
<1>3. LogicalNodes' = LogicalNodes
  BY DEF LogicalNodes, LnName
<1>4. QED
  BY <1>1, <1>2, <1>3

LEMMA NodesGood ==
  ASSUME Hypothesis, TypeOK
  PROVE  /\ LogicalNodes \in Seq(Good) /\ Len(LogicalNodes) = Len(scl.nodes)
         /\ Spread({}, LogicalNodes)
         /\ Linked(<<>>, LogicalNodes)
         /\ \A n \in 1..Len(LogicalNodes) :
              /\ LogicalNodes[n].parent = None
              /\ LogicalNodes[n].sibling # None =>
                   \E m \in 1..Len(LogicalNodes) : LogicalNodes[n].sibling = LogicalNodes[m].name
<1> DEFINE nodes == LogicalNodes
           max == Len(scl.nodes)
<1>1. nodes \in Seq(Items) /\ Len(nodes) = max /\ scl \in Inputs
  BY LogicalNodesType DEF TypeOK
<1>2. scl.nodes \in Seq(NodeDefinitions) /\ max \in Nat /\ DOMAIN scl.nodes = 1..max
  BY <1>1, FileType
<1>3. \A n \in 1..max : nodes[n] \in Items /\ nodes[n] =
        Item("node", scl.nodes[n], LnName(n), None, IF n < max THEN LnName(n + 1) ELSE None)
  <2>1. \A n \in 1..max : nodes[n] =
          Item("node", scl.nodes[n], LnName(n), None, IF n < max THEN LnName(n + 1) ELSE None)
    BY <1>2 DEF LogicalNodes
  <2>2. QED
    BY <1>1, <2>1
<1> HIDE DEF nodes, max
<1>4. \A n \in 1..max :
        /\ nodes[n].kind = "node" /\ nodes[n].of = scl.nodes[n] /\ nodes[n].name = LnName(n)
        /\ nodes[n].parent = None
        /\ nodes[n].sibling = IF n < max THEN LnName(n + 1) ELSE None
  <2> SUFFICES ASSUME NEW n \in 1..max
               PROVE  /\ nodes[n].kind = "node" /\ nodes[n].of = scl.nodes[n]
                      /\ nodes[n].name = LnName(n) /\ nodes[n].parent = None
                      /\ nodes[n].sibling = IF n < max THEN LnName(n + 1) ELSE None
    OBVIOUS
  <2> DEFINE next == IF n < max THEN LnName(n + 1) ELSE None
  <2>1. nodes[n] = Item("node", scl.nodes[n], LnName(n), None, next)
    BY <1>3
  <2> HIDE DEF next
  <2>2. /\ nodes[n].kind = "node" /\ nodes[n].of = scl.nodes[n] /\ nodes[n].name = LnName(n)
        /\ nodes[n].parent = None /\ nodes[n].sibling = next
    BY <2>1 DEF Item
  <2>3. QED
    BY <2>2 DEF next
<1>5. \A n \in 1..max : scl.nodes[n] \in NodeDefinitions
  BY <1>2 DEF max
<1>6. \A n \in 1..max : scl.nodes[n].name \in STRING
  BY <1>5 DEF NodeDefinitions
<1>7. None.path = <<>> /\ None.se = 0 /\ Len(None.path) = 0
  BY DEF None
<1>8. \A n \in 1..max : LnName(n) \in Names /\ LnName(n).path # <<>> /\ LnName(n).se = 0
  BY <1>6, <1>7, NoneType, SubPath, SubType DEF LnName
<1>9. ASSUME NEW n \in 1..max
      PROVE  nodes[n] \in Good
  <2>1. WellNamed(nodes[n])
    BY <1>4, <1>8 DEF WellNamed, Fixed, max
  <2>2. Plain(nodes[n])
    BY <1>4 DEF Plain, Fixed
  <2>3. QED
    BY <1>3, <2>1, <2>2 DEF Good
<1>10. nodes \in Seq(Good)
  BY <1>1, <1>9
<1>11. ASSUME NEW n \in 1..max, NEW m \in 1..max, n # m
       PROVE  Apart(nodes[n], nodes[m])
  <2>1. scl.nodes[n].name # scl.nodes[m].name
    BY <1>1, <1>11, DistinctFile DEF max
  <2>2. Differ(LnName(n).path, LnName(m).path)
    BY <1>6, <2>1, NoneType, SubDiffer DEF LnName
  <2>3. QED
    BY <1>4, <2>2 DEF Apart
<1>12. Spread({}, nodes)
  BY <1>1, <1>11 DEF Spread
<1>13. ASSUME NEW n \in 1..max, nodes[n].sibling # None
       PROVE  n < max /\ n + 1 \in 1..max /\ n < n + 1 /\ nodes[n].sibling = nodes[n + 1].name
  <2>1. n < max
    BY <1>4, <1>13
  <2>2. n + 1 \in 1..max /\ n < n + 1
    BY <1>2, <2>1
  <2>3. QED
    BY <1>4, <2>1, <2>2
<1>14. Linked(<<>>, nodes)
  BY <1>1, <1>4, <1>13 DEF Linked
<1>15. QED
  BY <1>1, <1>4, <1>10, <1>12, <1>13, <1>14 DEF nodes, max

LEMMA GoodIs ==
  /\ Good \subseteq Items
  /\ \A x \in Good : WellNamed(x) /\ Plain(x) /\ x.name.path # <<>> /\ x.name # None
<1>1. None.path = <<>>
  BY DEF None
<1>2. QED
  BY <1>1 DEF Good, WellNamed

LEMMA BroodGood ==
  ASSUME NEW x \in Items, NEW child, NEW kids, Brood(x, child, kids)
  PROVE  kids \in Seq(Good) /\ Family(x, kids) /\ Chain(child, kids)
<1>1. kids \in Seq(Items) /\ \A i \in 1..Len(kids) : WellNamed(kids[i]) /\ Plain(kids[i])
  BY DEF Brood, Family
<1>2. \A i \in 1..Len(kids) : kids[i] \in Good
  BY <1>1 DEF Good
<1>3. QED
  BY <1>1, <1>2 DEF Brood

(* One more item is declared. *)
LEMMA DeclareStep ==
  ASSUME Hypothesis, ListsInv, DeclareInv, todo # <<>>,
         NEW kids, kids = Children[todo[1]], NEW child, Brood(todo[1], child, kids),
         todo' = kids \o Tail(todo), declared' = declared \cup {todo[1]},
         UNCHANGED <<scl, attributes, defs>>
  PROVE  DeclareInv'
<1>1. todo \in Seq(Good) /\ todo \in Seq(Items) /\ todo[1] \in Items /\ declared \subseteq Items
  BY GoodIs DEF DeclareInv, ListsInv, TypeOK
<1>2. kids \in Seq(Good) /\ kids \in Seq(Items) /\ Family(todo[1], kids)
  BY <1>1, BroodGood DEF Family
<1>3. todo' \in Seq(Good)
  BY <1>1, <1>2, FrontIs
<1>4. Good' = Good /\ Children' = Children /\ LogicalNodes' = LogicalNodes
  BY FileUnchanged
<1>5. {x.name : x \in declared'} = {x.name : x \in declared} \cup {todo[1].name}
  OBVIOUS
<1>6. Spread({x.name : x \in declared} \cup {todo[1].name}, kids \o Tail(todo))
  BY <1>1, <1>2, SpreadStep DEF DeclareInv
<1>7. /\ Len(todo') \in Nat
      /\ \A i \in 1..Len(kids) : \E j \in 1..Len(todo') : todo'[j] = kids[i]
      /\ \A i \in 2..Len(todo) : \E j \in 1..Len(todo') : todo'[j] = todo[i]
  <2> DEFINE m == Len(kids)
             n == Len(todo)
             new == kids \o Tail(todo)
  <2>1. /\ Len(new) = m + n - 1
        /\ \A i \in 1..m : new[i] = kids[i]
        /\ \A i \in 2..n : new[m + i - 1] = todo[i]
    BY <1>1, <1>2, FrontIs
  <2>2. m \in Nat /\ n \in Nat /\ n >= 1
    BY <1>1, <1>2
  <2> HIDE DEF m, n, new
  <2>3. /\ Len(new) \in Nat
        /\ \A i \in 1..m : i \in 1..Len(new)
        /\ \A i \in 2..n : m + i - 1 \in 1..Len(new)
    BY <2>1, <2>2
  <2>4. QED
    BY <2>1, <2>3 DEF new, m, n
<1> DEFINE before == declared \cup {todo[i] : i \in 1..Len(todo)}
           after == declared' \cup {todo'[i] : i \in 1..Len(todo')}
<1>8. before \subseteq after
  <2>1. ASSUME NEW i \in 1..Len(todo)
        PROVE  todo[i] \in after
    <3>1. CASE i = 1
      BY <3>1
    <3>2. CASE i # 1
      <4>1. i \in 2..Len(todo)
        BY <1>1, <3>2
      <4>2. QED
        BY <1>7, <4>1
    <3>3. QED
      BY <3>1, <3>2
  <2>2. QED
    BY <2>1
<1>9. \A i \in 1..Len(kids) : kids[i] \in after
  BY <1>7
<1> HIDE DEF before, after
<1>10. /\ \A n \in 1..Len(scl.nodes) : LogicalNodes[n] \in before
       /\ \A x \in declared : \A i \in 1..Len(Children[x]) : Children[x][i] \in before
  BY DEF DeclareInv, Reached, before
<1>11. /\ \A n \in 1..Len(scl.nodes) : LogicalNodes[n] \in after
       /\ \A x \in declared' : \A i \in 1..Len(Children[x]) : Children[x][i] \in after
  BY <1>8, <1>9, <1>10
<1>12. /\ \A n \in 1..Len(scl'.nodes) : LogicalNodes'[n] \in after
       /\ \A x \in declared' : \A i \in 1..Len(Children'[x]) : Children'[x][i] \in after
  BY <1>4, <1>11
<1>13. Reached(declared \cup {todo[i] : i \in 1..Len(todo)})'
  BY <1>12 DEF Reached, after
<1>14. QED
  BY <1>3, <1>4, <1>5, <1>6, <1>13 DEF DeclareInv

(* One more variable is written. *)
LEMMA WriteStep ==
  ASSUME Hypothesis, ListsInv, phase = "define", DefineInv, todo # <<>>,
         NEW child \in Names, NEW kids, Brood(todo[1], child, kids),
         NoArrays(scl) => kids = Children[todo[1]],
         Write(child, kids)
  PROVE  DefineInv'
<1> DEFINE x == todo[1]
           v == Variable(x, child)
           rest == kids \o Tail(todo)
           p == Len(defs) + 1
<1>1. /\ todo \in Seq(Good) /\ todo \in Seq(Items) /\ x \in Good /\ x \in Items
      /\ x.name \in Names /\ x.name # None /\ defs \in Seq(Variables) /\ declared \subseteq Items
  BY GoodIs, ItemType DEF DefineInv, ListsInv, TypeOK
<1>2. kids \in Seq(Good) /\ kids \in Seq(Items) /\ Family(x, kids) /\ Chain(child, kids)
  <2>1. kids \in Seq(Good) /\ Family(x, kids) /\ Chain(child, kids)
    BY <1>1, BroodGood
  <2>2. QED
    BY <2>1 DEF Family
<1>3. /\ defs' = Append(defs, v) /\ todo' = rest /\ phase' = phase
      /\ UNCHANGED <<scl, attributes, declared>>
  BY DEF Write
<1>4. v \in Variables /\ v.name = x.name /\ v.parent = x.parent /\ v.sibling = x.sibling
      /\ v.child = child
  BY <1>1, ItemType DEF Variable, Variables
<1> HIDE DEF v
<1>5. /\ Len(defs') = p /\ p \in Nat /\ p >= 1 /\ defs'[p] = v
      /\ \A d \in 1..p - 1 : defs'[d] = defs[d]
      /\ DOMAIN defs' = 1..p /\ DOMAIN defs = 1..p - 1 /\ 1..Len(defs) = 1..p - 1
  BY <1>1, <1>3, <1>4
<1>6. rest \in Seq(Good) /\ Spread({Defined(d) : d \in 1..p - 1} \cup {x.name}, rest)
  <2>1. Spread({Defined(d) : d \in 1..p - 1}, todo)
    BY <1>5 DEF DefineInv
  <2>2. QED
    BY <1>1, <1>2, <2>1, FrontIs, SpreadStep
<1>7. \A d \in 1..p - 1 : Defined(d) # x.name
  <2> SUFFICES ASSUME NEW d \in 1..p - 1 PROVE Defined(d) # x.name
    OBVIOUS
  <2>1. 1 \in 1..Len(todo)
    BY <1>1
  <2>2. Defined(d) \in Names /\ Away(Defined(d), x)
    BY <1>5, <2>1 DEF DefineInv, Spread
  <2>3. QED
    BY <1>1, <2>2, AwayOther
<1>u. Good' = Good /\ Children' = Children /\ LogicalNodes' = LogicalNodes
  BY <1>3, FileUnchanged
<1>n. NoArrays(scl)' = NoArrays(scl)
  BY <1>3
<1>8. \A d \in 1..p : defs'[d].name = IF d = p THEN x.name ELSE Defined(d)
  BY <1>4, <1>5 DEF Defined
<1>s. Spread({Defined(d) : d \in 1..Len(defs)}, todo)'
  <2>1. {defs'[d].name : d \in 1..p} = {Defined(d) : d \in 1..p - 1} \cup {x.name}
    <3> HIDE DEF p, x
    <3>1. \A d \in 1..p : d = p \/ d \in 1..p - 1
      BY <1>5
    <3>2. p \in 1..p /\ \A d \in 1..p - 1 : d \in 1..p /\ d # p
      BY <1>5
    <3>3. QED
      BY <1>8, <3>1, <3>2
  <2>2. {defs'[d].name : d \in 1..Len(defs')} = {Defined(d) : d \in 1..p - 1} \cup {x.name}
    BY <1>5, <2>1
  <2>3. QED
    BY <1>3, <1>6, <2>2 DEF Defined
<1>9. UniqueNames'
  <2>1. ASSUME NEW d \in 1..p, NEW e \in 1..p, defs'[d].name = defs'[e].name
        PROVE  d = e
    <3> HIDE DEF p, x
    <3>1. \A c \in 1..p : c = p \/ c \in 1..p - 1
      BY <1>5
    <3>2. CASE d \in 1..p - 1 /\ e \in 1..p - 1
      <4>1. d # p /\ e # p
        BY <1>5, <3>2
      <4>2. Defined(d) = Defined(e)
        BY <1>8, <2>1, <4>1
      <4>3. QED
        BY <1>5, <3>2, <4>2 DEF DefineInv, UniqueNames
    <3>3. CASE d = p /\ e \in 1..p - 1
      <4>1. e # p
        BY <1>5, <3>3
      <4>2. QED
        BY <1>7, <1>8, <2>1, <3>3, <4>1
    <3>4. CASE e = p /\ d \in 1..p - 1
      <4>1. d # p
        BY <1>5, <3>4
      <4>2. QED
        BY <1>7, <1>8, <2>1, <3>4, <4>1
    <3>5. QED
      BY <3>1, <3>2, <3>3, <3>4
  <2>2. QED
    BY <1>5, <2>1 DEF UniqueNames, Defined
<1>10. Linked(defs', defs' \o todo')
  <2>1. \A a \in 1..Len(defs) : defs[a].name # todo[1].name
    BY <1>5, <1>7 DEF Defined
  <2>2. Linked(defs, defs \o todo)
    BY DEF DefineInv
  <2>3. todo[1].name # None
    BY <1>1
  <2>4. Linked(Append(defs, Variable(todo[1], child)),
               Append(defs, Variable(todo[1], child)) \o (kids \o Tail(todo)))
    BY <1>1, <1>2, <2>1, <2>2, <2>3, LinkedStep
  <2>5. QED
    BY <1>3, <2>4 DEF v
<1>11. ASSUME NoArrays(scl)
       PROVE  Referred'
  <2>1. Referred /\ Reached(declared)
    BY <1>11 DEF DefineInv
  <2>2. 1 \in 1..Len(todo)
    BY <1>1
  <2>3. x \in declared /\ x.parent \in Header /\ x.sibling \in Header /\ x.name \in Header
    BY <2>1, <2>2 DEF Referred, Header
  <2>4. \A i \in 1..Len(kids) : kids[i] \in declared /\ kids[i].name \in Header
    BY <1>11, <2>1, <2>3 DEF Reached, Header
  <2>5. \A i \in 1..Len(kids) : kids[i].parent \in Header
    BY <1>2, <2>3 DEF Family
  <2>6. None \in Header /\ Header' = Header
    BY <1>3 DEF Header
  <2>7. ASSUME NEW i \in 1..Len(kids)
        PROVE  kids[i].sibling \in Header
    <3>1. CASE i < Len(kids)
      <4>1. i + 1 \in 1..Len(kids)
        BY <1>2, <3>1
      <4>2. QED
        BY <1>2, <2>4, <3>1, <4>1 DEF Chain
    <3>2. CASE ~ (i < Len(kids))
      BY <1>2, <2>6, <3>2 DEF Chain
    <3>3. QED
      BY <3>1, <3>2
  <2>8. child \in Header
    <3>1. CASE kids = <<>>
      BY <1>2, <2>6, <3>1 DEF Chain
    <3>2. CASE kids # <<>>
      <4>1. 1 \in 1..Len(kids)
        BY <1>2, <3>2
      <4>2. QED
        BY <1>2, <2>4, <3>2, <4>1 DEF Chain
    <3>3. QED
      BY <3>1, <3>2
  <2>9. ASSUME NEW i \in 1..Len(rest)
        PROVE  rest[i] \in declared /\ rest[i].parent \in Header /\ rest[i].sibling \in Header
    <3> DEFINE m == Len(kids)
               n == Len(todo)
               j == i - m + 1
    <3>1. \/ i \in 1..m /\ rest[i] = kids[i]
          \/ j \in 2..n /\ rest[i] = todo[j]
      <4>1. DOMAIN rest = 1..Len(rest)
        BY <1>6
      <4>2. QED
        BY <1>1, <1>2, <4>1, FrontIs
    <3>2. CASE i \in 1..m /\ rest[i] = kids[i]
      BY <2>4, <2>5, <2>7, <3>2
    <3>3. CASE j \in 2..n /\ rest[i] = todo[j]
      <4>1. n \in Nat
        BY <1>1
      <4> HIDE DEF j
      <4>2. j \in 1..n
        BY <3>3, <4>1
      <4>3. QED
        BY <2>1, <3>3, <4>2 DEF Referred
    <3>4. QED
      BY <3>1, <3>2, <3>3
  <2>10. ASSUME NEW d \in 1..p
         PROVE  /\ defs'[d].parent \in Header /\ defs'[d].sibling \in Header
                /\ defs'[d].child \in Header
    <3>1. CASE d \in 1..p - 1
      BY <1>5, <2>1, <3>1 DEF Referred
    <3>2. CASE d = p
      BY <1>4, <1>5, <2>3, <2>8, <3>2
    <3>3. QED
      BY <1>5, <3>1, <3>2
  <2>11. QED
    BY <1>3, <1>5, <2>6, <2>9, <2>10 DEF Referred
<1>12. Reached(declared)'
  <2>1. Reached(declared)
    BY DEF DefineInv
  <2>2. QED
    BY <1>3, <1>u, <2>1 DEF Reached
<1>13. (phase' = "done" => todo' = <<>>) /\ todo' \in Seq(Good')
  BY <1>3, <1>6, <1>u
<1>14. QED
  BY <1>9, <1>10, <1>11, <1>12, <1>13, <1>n, <1>s DEF DefineInv

LEMMA BroodChild ==
  ASSUME NEW x \in Items, NEW child, NEW kids, Brood(x, child, kids)
  PROVE  child \in Names
<1>1. kids \in Seq(Items) /\ Chain(child, kids)
  BY DEF Brood, Family
<1>2. CASE kids = <<>>
  BY <1>1, <1>2, NoneType DEF Chain
<1>3. CASE kids # <<>>
  <2>1. kids[1] \in Items
    BY <1>1, <1>3
  <2>2. QED
    BY <1>1, <1>3, <2>1, ItemType DEF Chain
<1>4. QED
  BY <1>2, <1>3

LEMMA TreeInit == Init => TreeInv
  BY ListsInit DEF Init, TreeInv

(* The header starts. *)
LEMMA DeclareStart ==
  ASSUME Hypothesis, TreeInv, ParseEnd
  PROVE  DeclareInv'
<1>1. /\ defs' = <<>> /\ declared' = {} /\ todo' = LogicalNodes
      /\ UNCHANGED <<scl, attributes>>
  BY DEF ParseEnd, TreeInv
<1>2. Good' = Good /\ Children' = Children /\ LogicalNodes' = LogicalNodes
  BY <1>1, FileUnchanged
<1>3. /\ LogicalNodes \in Seq(Good) /\ Len(LogicalNodes) = Len(scl.nodes)
      /\ Spread({}, LogicalNodes)
  BY NodesGood DEF TreeInv, ListsInv
<1>4. {x.name : x \in declared'} = {}
  BY <1>1
<1>5. Reached(declared \cup {todo[i] : i \in 1..Len(todo)})'
  BY <1>1, <1>2, <1>3 DEF Reached
<1>6. QED
  BY <1>1, <1>2, <1>3, <1>4, <1>5 DEF DeclareInv

(* The C file starts: all is declared. *)
LEMMA DefineStart ==
  ASSUME Hypothesis, TreeInv, DeclareEnd
  PROVE  DefineInv'
<1>1. /\ defs = <<>> /\ defs' = <<>> /\ todo = <<>> /\ todo' = LogicalNodes /\ phase' = "define"
      /\ UNCHANGED <<scl, attributes, declared>> /\ DeclareInv
  BY DEF DeclareEnd, TreeInv, DeclareInv
<1>2. Good' = Good /\ Children' = Children /\ LogicalNodes' = LogicalNodes
  BY <1>1, FileUnchanged
<1> DEFINE nodes == LogicalNodes
<1>3. /\ nodes \in Seq(Good) /\ Len(nodes) = Len(scl.nodes)
      /\ Spread({}, nodes) /\ Linked(<<>>, nodes)
      /\ \A n \in 1..Len(nodes) :
           /\ nodes[n].parent = None
           /\ nodes[n].sibling # None => \E m \in 1..Len(nodes) : nodes[n].sibling = nodes[m].name
  BY NodesGood DEF TreeInv, ListsInv
<1>4. /\ \A n \in 1..Len(scl.nodes) : nodes[n] \in declared
      /\ \A x \in declared : \A i \in 1..Len(Children[x]) : Children[x][i] \in declared
  <2>1. declared \cup {todo[i] : i \in 1..Len(todo)} = declared
    BY <1>1
  <2>2. Reached(declared)
    BY <1>1, <2>1 DEF DeclareInv
  <2>3. QED
    BY <2>2 DEF Reached
<1> HIDE DEF nodes
<1>n. LogicalNodes = nodes
  BY DEF nodes
<1>5. Reached(declared)'
  BY <1>1, <1>2, <1>4, <1>n DEF Reached
<1>6. Spread({Defined(d) : d \in 1..Len(defs)}, todo)'
  <2>1. {defs'[d].name : d \in 1..Len(defs')} = {}
    BY <1>1
  <2>2. QED
    BY <1>1, <1>3, <1>n, <2>1 DEF Defined
<1>7. UniqueNames'
  BY <1>1 DEF UniqueNames
<1>8. Linked(defs', defs' \o todo')
  <2>1. defs' \o todo' = nodes
    BY <1>1, <1>3, <1>n
  <2>2. QED
    BY <1>1, <1>3, <2>1
<1>9. Referred'
  <2>1. \A n \in 1..Len(nodes) : nodes[n] \in declared /\ nodes[n].name \in Header
    BY <1>3, <1>4 DEF Header
  <2>2. None \in Header /\ Header' = Header
    BY <1>1 DEF Header
  <2>3. \A n \in 1..Len(nodes) : nodes[n].parent \in Header /\ nodes[n].sibling \in Header
    BY <1>3, <2>1, <2>2
  <2>4. QED
    BY <1>1, <1>n, <2>1, <2>2, <2>3 DEF Referred
<1>10. QED
  BY <1>1, <1>2, <1>3, <1>5, <1>6, <1>7, <1>8, <1>9, <1>n DEF DefineInv

(* Nothing is skipped in the header. *)
LEMMA NothingSkipped ==
  ASSUME ListsInv, DeclareInv, todo # <<>>
  PROVE  ~ Exists(todo[1])
<1> SUFFICES ASSUME NEW y \in declared, y.name = todo[1].name PROVE FALSE
  BY DEF Exists
<1>1. todo \in Seq(Items) /\ todo[1] \in Items /\ y \in Items /\ 1 \in 1..Len(todo)
  BY DEF ListsInv, TypeOK
<1>2. Away(y.name, todo[1]) /\ y.name \in Names
  BY <1>1 DEF DeclareInv, Spread
<1>3. QED
  BY <1>1, <1>2, AwayOther

LEMMA TreeStep ==
  ASSUME Hypothesis, TreeInv, [Next]_vars
  PROVE  TreeInv'
<1>l. ListsInv /\ ListsInv'
  BY ListsStep DEF TreeInv
<1>t. TypeOK
  BY <1>l DEF ListsInv
<1> DEFINE x == todo[1]
<1>g. ASSUME todo # <<>>, DeclareInv \/ DefineInv
      PROVE  x \in Items /\ WellNamed(x) /\ Plain(x)
  <2>1. todo \in Seq(Good)
    BY <1>g DEF DeclareInv, DefineInv
  <2>2. x \in Good
    BY <1>g, <2>1
  <2>3. QED
    BY <2>2, GoodIs
<1>1. CASE ParseLogicalNode \/ CreateDataAttribute \/ CreateSubDataObjects
  <2>1. phase = "parse" /\ phase' = "parse" /\ UNCHANGED <<declared, defs>>
    BY <1>1 DEF ParseLogicalNode, CreateDataAttribute, CreateSubDataObjects, At
  <2>2. QED
    BY <1>l, <2>1 DEF TreeInv
<1>2. CASE ParseEnd
  <2>1. phase' = "declare"
    BY <1>2 DEF ParseEnd
  <2>2. QED
    BY <1>2, <1>l, <2>1, DeclareStart DEF TreeInv
<1>d. ASSUME phase = "declare", phase' = "declare", DeclareInv'
      PROVE  TreeInv'
  BY <1>l, <1>d DEF TreeInv
<1>3. CASE DeclareLogicalNode
  <2>1. /\ phase = "declare" /\ phase' = "declare" /\ todo # <<>> /\ x.kind = "node" /\ DeclareInv
        /\ todo' = NodeChildren(x) \o Tail(todo) /\ declared' = declared \cup {x}
        /\ UNCHANGED <<scl, attributes, defs>>
    BY <1>3 DEF DeclareLogicalNode, At, TreeInv
  <2>2. x \in Items /\ WellNamed(x)
    BY <1>g, <2>1
  <2>3. Brood(x, Sub(x.name, x.of.dos[1].name), NodeChildren(x))
    BY <1>l, <2>1, <2>2, NodeBrood
  <2>4. NodeChildren(x) = Children[x]
    BY <2>1, <2>2, ChildrenAre
  <2>5. DeclareInv'
    BY <1>l, <2>1, <2>3, <2>4, DeclareStep
  <2>6. QED
    BY <1>d, <2>1, <2>5
<1>4. CASE DeclareDataObject
  <2>1. /\ phase = "declare" /\ todo # <<>> /\ x.kind = "object" /\ DeclareInv
        /\ Declare(ObjectChildren(x))
    BY <1>4 DEF DeclareDataObject, At, TreeInv
  <2>2. /\ phase' = "declare" /\ UNCHANGED <<scl, attributes, defs>>
        /\ todo' = ObjectChildren(x) \o Tail(todo) /\ declared' = declared \cup {x}
    BY <1>l, <2>1, NothingSkipped DEF Declare
  <2>3. x \in Items /\ WellNamed(x)
    BY <1>g, <2>1
  <2>4. PICK child : Brood(x, child, ObjectChildren(x))
    BY <1>l, <2>1, <2>3, ObjectBrood
  <2>5. ObjectChildren(x) = Children[x]
    BY <2>1, <2>3, ChildrenAre
  <2>6. DeclareInv'
    BY <1>l, <2>1, <2>2, <2>4, <2>5, DeclareStep
  <2>7. QED
    BY <1>d, <2>1, <2>2, <2>6
<1>5. CASE DeclareDataAttribute
  <2>1. /\ phase = "declare" /\ todo # <<>> /\ Fixed(x) /\ DeclareInv
        /\ Declare(AttributeChildren(x))
    BY <1>5 DEF DeclareDataAttribute, At, TreeInv, Fixed
  <2>2. /\ phase' = "declare" /\ UNCHANGED <<scl, attributes, defs>>
        /\ todo' = AttributeChildren(x) \o Tail(todo) /\ declared' = declared \cup {x}
    BY <1>l, <2>1, NothingSkipped DEF Declare
  <2>3. x \in Items /\ WellNamed(x)
    BY <1>g, <2>1
  <2>4. PICK child : Brood(x, child, AttributeChildren(x))
    BY <1>l, <2>1, <2>3, AttributeBrood
  <2>5. AttributeChildren(x) = Children[x]
    BY <2>1, <2>3, ChildrenAre
  <2>6. DeclareInv'
    BY <1>l, <2>1, <2>2, <2>4, <2>5, DeclareStep
  <2>7. QED
    BY <1>d, <2>1, <2>2, <2>6
<1>6. CASE DeclareEnd
  <2>1. phase' = "define"
    BY <1>6 DEF DeclareEnd
  <2>2. QED
    BY <1>6, <1>l, <2>1, DefineStart DEF TreeInv
<1>w. ASSUME phase = "define", todo # <<>>, NEW child, NEW kids, Brood(x, child, kids),
             NoArrays(scl) => kids = Children[x], Write(child, kids)
      PROVE  TreeInv'
  <2>1. DefineInv /\ phase' = "define"
    BY <1>w DEF TreeInv, Write
  <2>2. x \in Items
    BY <1>g, <1>w, <2>1
  <2>3. child \in Names
    BY <1>w, <2>2, BroodChild
  <2>4. DefineInv'
    BY <1>l, <1>w, <2>1, <2>3, WriteStep
  <2>5. QED
    BY <1>l, <2>1, <2>4 DEF TreeInv
<1>7. CASE PrintLogicalNode
  <2>1. /\ phase = "define" /\ todo # <<>> /\ x.kind = "node" /\ DefineInv
        /\ Write(Sub(x.name, x.of.dos[1].name), NodeChildren(x))
    BY <1>7 DEF PrintLogicalNode, At, TreeInv
  <2>2. x \in Items /\ WellNamed(x)
    BY <1>g, <2>1
  <2>3. Brood(x, Sub(x.name, x.of.dos[1].name), NodeChildren(x))
    BY <1>l, <2>1, <2>2, NodeBrood
  <2>4. NodeChildren(x) = Children[x]
    BY <2>1, <2>2, ChildrenAre
  <2>5. QED
    BY <1>w, <2>1, <2>3, <2>4
<1>8. CASE PrintDataObject
  <2> DEFINE child == IF scl.objects[x.of.type].sdos # <<>>
                      THEN FirstSub(x.name, scl.objects[x.of.type].sdos)
                      ELSE FirstAttribute(x.name, attributes[x.of.type])
  <2>1. /\ phase = "define" /\ todo # <<>> /\ x.kind = "object" /\ DefineInv
        /\ Write(child, ObjectChildren(x))
    BY <1>8 DEF PrintDataObject, At, TreeInv
  <2>2. x \in Items /\ WellNamed(x)
    BY <1>g, <2>1
  <2>3. Brood(x, child, ObjectChildren(x))
    BY <1>l, <2>1, <2>2, ObjectBrood
  <2>4. ObjectChildren(x) = Children[x]
    BY <2>1, <2>2, ChildrenAre
  <2> HIDE DEF child
  <2>5. QED
    BY <1>w, <2>1, <2>3, <2>4
<1>9. CASE PrintDataAttribute \/ PrintArrayElement
  <2>1. /\ phase = "define" /\ todo # <<>> /\ Fixed(x) /\ DefineInv
        /\ Write(FirstSub(x.name, SubAttributes(x.of)), AttributeChildren(x))
    BY <1>9 DEF PrintDataAttribute, PrintArrayElement, At, TreeInv, Fixed
  <2>2. x \in Items /\ WellNamed(x)
    BY <1>g, <2>1
  <2>3. Brood(x, FirstSub(x.name, SubAttributes(x.of)), AttributeChildren(x))
    BY <1>l, <2>1, <2>2, AttributeBrood
  <2>4. AttributeChildren(x) = Children[x]
    BY <2>1, <2>2, ChildrenAre
  <2>5. QED
    BY <1>w, <2>1, <2>3, <2>4
<1>10. CASE PrintArray
  <2>1. /\ phase = "define" /\ todo # <<>> /\ x.kind = "attribute" /\ DefineInv /\ x.of.count > 0
        /\ Write(Element(x.name, 1), Elements(x.name, x.of))
    BY <1>10 DEF PrintArray, At, TreeInv
  <2>2. x \in Items /\ WellNamed(x) /\ Plain(x)
    BY <1>g, <2>1
  <2>3. ~ NoArrays(scl)
    BY <2>1, <2>2 DEF Plain, Fixed
  <2>4. Brood(x, Element(x.name, 1), Elements(x.name, x.of))
    BY <2>1, <2>2, <2>3, ElementsFamily
  <2>5. QED
    BY <1>w, <2>1, <2>3, <2>4
<1>11. CASE PrintEnd \/ Finished \/ UNCHANGED vars
  <2>1. /\ UNCHANGED <<scl, todo, attributes, declared, defs>>
        /\ \/ phase = "define" /\ todo = <<>> /\ phase' = "done"
           \/ phase' = phase
    BY <1>11 DEF PrintEnd, Finished, vars
  <2>2. Good' = Good /\ Children' = Children /\ LogicalNodes' = LogicalNodes
    BY <2>1, FileUnchanged
  <2>4. /\ Referred' = Referred /\ UniqueNames' = UniqueNames
        /\ {Defined(d) : d \in 1..Len(defs)}' = {Defined(d) : d \in 1..Len(defs)}
    BY <2>1 DEF Referred, Header, UniqueNames, Defined
  <2>5. DeclareInv => DeclareInv'
    BY <2>1, <2>2 DEF DeclareInv, Reached
  <2>6. DefineInv /\ (phase' = "done" => todo = <<>>) => DefineInv'
    BY <2>1, <2>2, <2>4 DEF DefineInv, Reached
  <2>8. QED
    BY <1>l, <2>1, <2>5, <2>6 DEF TreeInv, DefineInv
<1>12. QED
  BY <1>1, <1>2, <1>3, <1>4, <1>5, <1>6, <1>7, <1>8, <1>9, <1>10, <1>11 DEF Next

(* The inductive invariant of the three passes: parsing lists every        *)
(* attribute under a name of its own, the header declares the whole model, *)
(* and the references of the C file lead to what is written or pending.    *)
THEOREM Tree ==
  ASSUME Hypothesis
  PROVE  Spec => []TreeInv
<1>1. TreeInv /\ [Next]_vars => TreeInv'
  BY TreeStep
<1>2. QED
  BY <1>1, TreeInit, PTL DEF Spec

(* printDataObjectDefinitions and printDataAttributeDefinitions never      *)
(* write two C variables of the same name, however deep the types are      *)
(* nested, with settings under SG and SE and with arrays.                  *)
THEOREM Unique ==
  ASSUME Hypothesis
  PROVE  Spec => []UniqueNames
<1>1. TreeInv => UniqueNames
  <2> SUFFICES ASSUME TreeInv PROVE UniqueNames
    OBVIOUS
  <2>1. CASE phase \in {"define", "done"}
    BY <2>1 DEF TreeInv, DefineInv
  <2>2. CASE phase \in {"parse", "declare"}
    <3>1. defs = <<>>
      BY <2>2 DEF TreeInv, DeclareInv
    <3>2. QED
      BY <3>1 DEF UniqueNames
  <2>3. QED
    BY <2>1, <2>2 DEF TreeInv, ListsInv, TypeOK
<1>2. QED
  BY <1>1, Tree, PTL

(* In the finished C file the first child and the siblings, put together   *)
(* apart from the variables they name, lead from every variable to exactly *)
(* those that have it as parent: the server sees the whole model.          *)
THEOREM Complete ==
  ASSUME Hypothesis
  PROVE  Spec => []TreeComplete
<1>1. TreeInv => TreeComplete
  <2> SUFFICES ASSUME TreeInv, phase = "done", NEW d \in DOMAIN defs
               PROVE  /\ defs[d].child # None => \E e \in Below(d) : Defined(e) = defs[d].child
                      /\ \A e \in Below(d) :
                           /\ defs[e].sibling # None =>
                                \E f \in Below(d) : e < f /\ Defined(f) = defs[e].sibling
                           /\ \/ Defined(e) = defs[d].child
                              \/ \E f \in Below(d) : f < e /\ defs[f].sibling = Defined(e)
    BY DEF TreeComplete
  <2>1. DefineInv /\ todo = <<>> /\ defs \in Seq(Variables)
    BY DEF TreeInv, DefineInv, ListsInv, TypeOK
  <2>2. DOMAIN defs = 1..Len(defs) /\ defs \o todo = defs
    BY <2>1
  <2>3. Linked(defs, defs)
    BY <2>1, <2>2 DEF DefineInv
  <2>4. \A e : e \in Below(d) <=> e \in 1..Len(defs) /\ defs[e].parent = defs[d].name
    BY <2>2 DEF Below, Defined
  <2>5. defs[d].child # None => \E e \in Below(d) : Defined(e) = defs[d].child
    BY <2>2, <2>3, <2>4 DEF Linked, Defined
  <2>6. ASSUME NEW e \in Below(d), defs[e].sibling # None
        PROVE  \E f \in Below(d) : e < f /\ Defined(f) = defs[e].sibling
    <3>1. PICK f \in 1..Len(defs) : /\ e < f /\ defs[f].parent = defs[e].parent
                                    /\ defs[f].name = defs[e].sibling
      BY <2>3, <2>4, <2>6 DEF Linked
    <3>2. QED
      BY <2>4, <3>1 DEF Defined
  <2>7. ASSUME NEW e \in Below(d), Defined(e) # defs[d].child
        PROVE  \E f \in Below(d) : f < e /\ defs[f].sibling = Defined(e)
    <3>1. PICK f \in 1..Len(defs) : /\ f < e /\ defs[f].parent = defs[e].parent
                                    /\ defs[f].sibling = defs[e].name
      BY <2>2, <2>3, <2>4, <2>7 DEF Linked, Defined
    <3>2. QED
      BY <2>4, <3>1 DEF Defined
  <2>8. QED
    BY <2>5, <2>6, <2>7
<1>2. QED
  BY <1>1, Tree, PTL

(* Every name the C file of a model without arrays refers to is declared   *)
(* by the pass of printForwardDeclarations: the file compiles.             *)
THEOREM Compiles ==
  ASSUME Hypothesis
  PROVE  Spec => []PlainRefsDeclared
<1>1. TreeInv => PlainRefsDeclared
  <2> SUFFICES ASSUME TreeInv, NoArrays(scl), NEW d \in DOMAIN defs
               PROVE  {defs[d].parent, defs[d].sibling, defs[d].child} \ {None}
                        \subseteq {x.name : x \in declared} \cup {Defined(e) : e \in 1..d}
    BY DEF PlainRefsDeclared, RefsDeclared
  <2>1. defs \in Seq(Variables) /\ DOMAIN defs = 1..Len(defs)
    BY DEF TreeInv, ListsInv, TypeOK
  <2>2. phase \in {"define", "done"}
    <3>1. defs # <<>>
      BY <2>1
    <3>2. QED
      BY <3>1 DEF TreeInv, DeclareInv, ListsInv, TypeOK
  <2>3. Referred
    BY <2>2 DEF TreeInv, DefineInv
  <2>4. QED
    BY <2>1, <2>3 DEF Referred, Header
<1>2. QED
  BY <1>1, Tree, PTL

=============================================================================
