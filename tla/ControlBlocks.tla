---------------------------- MODULE ControlBlocks ----------------------------
(***************************************************************************)
(* The control blocks of a generated C model (scl/parser.go and            *)
(* scl/static_model_generator.go).                                         *)
(*                                                                         *)
(* The generator writes one C variable per data set, report, log, log      *)
(* control, GOOSE, sampled-values and setting-group control block.  Those  *)
(* of a kind form one list through the whole model: the IedModel points to *)
(* the first and each to the next.  The names of a kind are collected up   *)
(* front, in one pass over all logical nodes; a second pass writes the     *)
(* variables, and takes the name that follows from the collected list by a *)
(* counter per kind.  Nothing ties the two passes together: a kind of      *)
(* block that is listed and not written, or written and not listed, shifts *)
(* every pointer after it.  What the parser refuses decides which of those *)
(* cases can happen.                                                       *)
(*                                                                         *)
(* The logical nodes of all logical devices are numbered in the order of   *)
(* both passes.  A variable's name is its node and its number in the node. *)
(***************************************************************************)
EXTENDS Naturals, Sequences, FiniteSets, Functions

CONSTANTS
  Inputs     \* SCL files; see SclFile

VARIABLES
  scl,       \* the file being processed
  phase,     \* "parse", "select", "sets", "list", "print", or how it ended:
             \* "done", "rejected" with an error, "panic"
  node,      \* the logical node a pass has reached
  printing,  \* the kind of block it writes next, in the print phase
  names,     \* names[k]: the collected names of kind k
  number,    \* number[k]: the counter of kind k
  defs       \* defs[k]: the variables written, each with its next pointer

vars == <<scl, phase, node, printing, names, number, defs>>

(* The kinds in the order printLogicalNodeDefinitions writes them. *)
Order == <<"rcb", "lcb", "log", "gse", "smv", "sgcb">>
Kinds == Range(Order) \cup {"ds"}

(* A file is the logical nodes, what there is for them in the              *)
(* Communication section: none, no access point of this name, or one; and  *)
(* its defects, which make the program give up whatever the blocks are:    *)
(*   types     an undeclared or wrong type, or it does not validate        *)
(*   values    an initial value that is none of its attribute's type       *)
(*   address   a GSE or SMV address or time that is not well-formed        *)
(*   ied, ap   not the IED or the access point that the command names      *)
(*   index     the entry of a data set has an index that is not a number   *)
(* Of a logical node there are                                             *)
(*   rcb    ReportControls: [indexed, enabled, max, clients], with the max *)
(*          of RptEnabled if there is one and its number of ClientLNs      *)
(*   gse    GSEControls: whether the access point has their GSE element    *)
(*   ds, lcb, log, smv, sgcb    how many elements of that name             *)
(*   lln0   whether the lnClass is LLN0                                    *)
ReportControl == [indexed : BOOLEAN, enabled : BOOLEAN, max : Nat, clients : Nat]
IsNode(ln) ==
  /\ ln.rcb \in Seq(ReportControl)
  /\ ln.gse \in Seq(BOOLEAN)
  /\ \A k \in {"ds", "lcb", "log", "smv", "sgcb"} : ln[k] \in Nat
  /\ ln.lln0 \in BOOLEAN
Defects == {"types", "values", "address", "ied", "ap", "index"}
SclFile(f) ==
  /\ f.comm \in {"none", "other", "ap"}
  /\ f.defects \subseteq Defects
  /\ f.nodes \in Seq(Range(f.nodes))
  /\ \A n \in DOMAIN f.nodes : IsNode(f.nodes[n])

ASSUME InputsAssumption == \A f \in Inputs : SclFile(f)

Null == <<0, 0>>
Nodes == DOMAIN scl.nodes
LN(n) == scl.nodes[n]

Init ==
  /\ scl \in Inputs
  /\ phase = "parse"
  /\ node = 1
  /\ printing = 1
  /\ names = [k \in Kinds |-> <<>>]
  /\ number = [k \in Kinds |-> 0]
  /\ defs = [k \in Kinds |-> <<>>]

-----------------------------------------------------------------------------
(* Parser.Parse, and what the command selects.                             *)

(* A parser that believes the max of every RptEnabled. *)
MutParserAccepts(ln) == ln.sgcb > 0 => ln.lln0

(* rptEnabled.max must be 1 when indexed is "false", and only LLN0 may     *)
(* have a SettingControl.                                                  *)
ParserAccepts(ln) ==
  /\ \A i \in DOMAIN ln.rcb :
       ln.rcb[i].enabled /\ ~ln.rcb[i].indexed => ln.rcb[i].max = 1
  /\ ln.sgcb > 0 => ln.lln0

TypesDeclared == "types" \notin scl.defects
ValuesParse == "values" \notin scl.defects
AddressesParse == "address" \notin scl.defects

Parse ==
  /\ phase = "parse"
  /\ IF /\ TypesDeclared /\ ValuesParse /\ AddressesParse
        /\ \A n \in Nodes : ParserAccepts(LN(n))
     THEN phase' = "select"
     ELSE phase' = "rejected"
  /\ UNCHANGED <<scl, node, printing, names, number, defs>>

(* Generate: the IED and its access point.  An IED that is not there is an *)
(* error; an access point that is not there is used all the same.          *)
Select ==
  /\ phase = "select"
  /\ phase' = IF "ied" \in scl.defects THEN "rejected"
              ELSE IF "ap" \in scl.defects THEN "panic" ELSE "sets"
  /\ UNCHANGED <<scl, node, printing, names, number, defs>>

-----------------------------------------------------------------------------
(* The names of the variables, and the pointers between them.              *)

(* The names of count variables in logical node n, and one name for all.   *)
Numbered(n, count) == [j \in 1..count |-> <<n, j>>]
SameName(n, count) == [j \in 1..count |-> <<n, 1>>]

(* The pointer to what follows when c variables of kind k are written. *)
NextName(k, c) == IF c < Len(names[k]) THEN names[k][c + 1] ELSE Null

(* count variables of kind k of logical node n are written. *)
PrintBlocks(n, k, count) ==
  /\ defs' = [defs EXCEPT ![k] = @ \o
       [j \in 1..count |-> [name |-> <<n, j>>, next |-> NextName(k, number[k] + j)]]]
  /\ number' = [number EXCEPT ![k] = @ + count]

(* printDataSets collects the names of all nodes, and then writes all data *)
(* sets, each under the name it finds in the list.                         *)
ListDataSets ==
  /\ phase = "sets" /\ node \in Nodes
  /\ names' = [names EXCEPT !["ds"] = @ \o Numbered(node, LN(node).ds)]
  /\ node' = node + 1
  /\ UNCHANGED <<scl, phase, printing, number, defs>>

IndexError ==
  /\ phase = "sets" /\ node \notin Nodes /\ "index" \in scl.defects
  /\ phase' = "rejected"
  /\ UNCHANGED <<scl, node, printing, names, number, defs>>

PrintDataSets ==
  /\ phase = "sets" /\ node \notin Nodes /\ "index" \notin scl.defects
  /\ defs' = [defs EXCEPT !["ds"] =
       [i \in DOMAIN names["ds"] |->
          [name |-> names["ds"][i], next |-> NextName("ds", i)]]]
  /\ phase' = "list" /\ node' = 1
  /\ UNCHANGED <<scl, printing, names, number>>

-----------------------------------------------------------------------------
(* createLNSubVariableList.                                                *)

Instances(r) == IF r.enabled THEN r.max ELSE 1

(* How many instances there are, with count[i] of ReportControl i. *)
InstanceCount(count) ==
  Cardinality(UNION {{i} \X (1..count[i]) : i \in DOMAIN count})

(* What the list has for a node: every instance of every ReportControl. *)
Listed(ln, k) ==
  CASE k = "rcb" -> InstanceCount([i \in DOMAIN ln.rcb |-> Instances(ln.rcb[i])])
    [] k = "gse" -> Len(ln.gse)
    [] OTHER     -> ln[k]

ListNode ==
  /\ phase = "list" /\ node \in Nodes
  /\ names' = [k \in Kinds |->
       CASE k = "ds"   -> names[k]
         [] k = "sgcb" -> names[k] \o SameName(node, LN(node).sgcb)
         [] OTHER      -> names[k] \o Numbered(node, Listed(LN(node), k))]
  /\ node' = node + 1
  /\ UNCHANGED <<scl, phase, printing, number, defs>>

ListEnd ==
  /\ phase = "list" /\ node \notin Nodes
  /\ phase' = "print" /\ node' = 1
  /\ UNCHANGED <<scl, printing, names, number, defs>>

-----------------------------------------------------------------------------
(* printLogicalNodeDefinitions: for each node, kind after kind.            *)

At(k) == phase = "print" /\ node \in Nodes /\ Order[printing] = k

Advance ==
  /\ IF printing < Len(Order)
     THEN printing' = printing + 1 /\ UNCHANGED node
     ELSE printing' = 1 /\ node' = node + 1
  /\ UNCHANGED <<scl, phase, names>>

Panic == phase' = "panic" /\ UNCHANGED <<scl, node, printing, names, number, defs>>

(* An indexed ReportControl has an instance for each of its max clients; a *)
(* client address is looked up in the Communication section.               *)
Written(r) == IF r.indexed THEN Instances(r) ELSE 1
NeedsAddress(r) == r.indexed /\ r.enabled /\ r.max > 0 /\ r.clients > 0

PrintReportControlBlocks ==
  LET rcb == LN(node).rcb
  IN  /\ At("rcb")
      /\ IF scl.comm = "none" /\ \E i \in DOMAIN rcb : NeedsAddress(rcb[i])
         THEN Panic
         ELSE /\ PrintBlocks(node, "rcb",
                          InstanceCount([i \in DOMAIN rcb |-> Written(rcb[i])]))
              /\ Advance

PrintLogControlBlocks ==
  At("lcb") /\ PrintBlocks(node, "lcb", LN(node).lcb) /\ Advance

(* The counter of another kind is used for logs. *)
MutPrintLogs ==
  LET count == LN(node).log
  IN  /\ At("log")
      /\ defs' = [defs EXCEPT !["log"] = @ \o
           [j \in 1..count |-> [name |-> <<node, j>>,
                                next |-> NextName("log", number["lcb"] + j)]]]
      /\ number' = [number EXCEPT !["log"] = @ + count]
      /\ Advance

PrintLogs == At("log") /\ PrintBlocks(node, "log", LN(node).log) /\ Advance

(* A GSEControl without its GSE element is left out, with a message. *)
PrintGSEControlBlocks ==
  LET gse == LN(node).gse
  IN  /\ At("gse")
      /\ IF scl.comm # "ap" /\ gse # <<>>
         THEN Panic
         ELSE /\ PrintBlocks(node, "gse", Cardinality({i \in DOMAIN gse : gse[i]}))
              /\ Advance

PrintSVControlBlocks ==
  /\ At("smv")
  /\ IF scl.comm # "ap" /\ LN(node).smv > 0
     THEN Panic
     ELSE PrintBlocks(node, "smv", LN(node).smv) /\ Advance

(* The counter is not advanced. *)
MutPrintSettingControlBlock ==
  LET count == IF LN(node).sgcb > 0 THEN 1 ELSE 0
  IN  /\ At("sgcb")
      /\ defs' = [defs EXCEPT !["sgcb"] = @ \o
           [j \in 1..count |-> [name |-> <<node, 1>>,
                                next |-> NextName("sgcb", number["sgcb"] + j)]]]
      /\ UNCHANGED number
      /\ Advance

(* Only the first SettingControl of a node is written. *)
PrintSettingControlBlock ==
  /\ At("sgcb")
  /\ PrintBlocks(node, "sgcb", IF LN(node).sgcb > 0 THEN 1 ELSE 0)
  /\ Advance

PrintEnd ==
  /\ phase = "print" /\ node \notin Nodes
  /\ phase' = "done"
  /\ UNCHANGED <<scl, node, printing, names, number, defs>>

Finished == phase \in {"done", "rejected", "panic"} /\ UNCHANGED vars

PrintNode ==
  \/ PrintReportControlBlocks \/ PrintLogControlBlocks \/ PrintLogs
  \/ PrintGSEControlBlocks \/ PrintSVControlBlocks \/ PrintSettingControlBlock

Next ==
  \/ Parse \/ Select \/ ListDataSets \/ IndexError \/ PrintDataSets
  \/ ListNode \/ ListEnd
  \/ PrintNode \/ PrintEnd \/ Finished

Spec == Init /\ [][Next]_vars

-----------------------------------------------------------------------------
(* Properties.                                                             *)

(* The pointer in the IedModel to the first block of a kind. *)
FirstName(k) == NextName(k, 0)

WrittenNames(k) == [i \in DOMAIN defs[k] |-> defs[k][i].name]

(* Every pointer written so far names the block that is written next, over *)
(* the borders of logical nodes, although it is taken from a list that was *)
(* made before: "next control block in list" (iec61850_model.h).           *)
PointsToNext ==
  \A k \in Kinds : \A i \in 1..Len(defs[k]) - 1 :
    defs[k][i].next = defs[k][i + 1].name

(* When the model is complete the IedModel points to the first block of    *)
(* each kind and the last block to none: the server sees every block.      *)
ListsComplete ==
  phase = "done" => \A k \in Kinds :
    IF defs[k] = <<>> THEN FirstName(k) = Null
    ELSE /\ FirstName(k) = defs[k][1].name
         /\ defs[k][Len(defs[k])].next = Null

(* Every variable that is declared "extern" is defined, and none twice:    *)
(* the generated file compiles and links.                                  *)
DeclaredIsDefined ==
  phase = "done" => \A k \in Kinds :
    Range(names[k]) = Range(WrittenNames(k)) /\ IsInjective(WrittenNames(k))

=============================================================================
