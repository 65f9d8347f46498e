----------------------------- MODULE VariableWalk -----------------------------
(***************************************************************************)
(* GetVariableTypeValues (mms_spec.go) matches the specification of a      *)
(* variable with a value that was read by another request, and collects    *)
(* the leaves.  Both are trees; they agree unless the server was           *)
(* reconfigured between the two requests.                                  *)
(*                                                                         *)
(* A specification is [type, kids]: kids has the fields of a structure,    *)
(* and of an array only the specification of its elements, or nothing.     *)
(* A value is [type, kids] with all elements.  A reference is the sequence *)
(* of indices that leads to a leaf, for names and indices in the text.     *)
(***************************************************************************)
EXTENDS SequencesExt

Leaf == [type |-> "leaf", kids |-> <<>>]
Tree(type, kids) == [type |-> type, kids |-> kids]

Lesser(a, b) == IF a < b THEN a ELSE b

Failure == [ok |-> FALSE, out |-> <<>>]
Leaves(out) == [ok |-> TRUE, out |-> out]

(* Results of the children in order; the first error ends the loop. *)
Join(results) ==
  IF \A i \in DOMAIN results : results[i].ok
  THEN Leaves(FlattenSeq([i \in DOMAIN results |-> results[i].out]))
  ELSE Failure

RECURSIVE Walk(_, _, _)

(* The elements of an array share one specification. *)
WalkArray(spec, val, ref) ==
  IF val.type # "array" \/ (val.kids # <<>> /\ spec.kids = <<>>) THEN Failure
  ELSE Join([i \in DOMAIN val.kids |->
               Walk(spec.kids[1], val.kids[i], Append(ref, i))])

(* Fields beyond the shorter of the two lists are passed over. *)
WalkStructure(spec, val, ref) ==
  IF val.type # "struct" THEN Failure
  ELSE Join([i \in 1..Lesser(Len(spec.kids), Len(val.kids)) |->
               Walk(spec.kids[i], val.kids[i], Append(ref, i))])

(* An element of an array is referred to as the array itself. *)
MutWalk(spec, val, ref) ==
  CASE spec.type = "array" /\ val.type = "array" /\ spec.kids # <<>> ->
         Join([i \in DOMAIN val.kids |-> Walk(spec.kids[1], val.kids[i], ref)])
    [] spec.type = "struct" -> WalkStructure(spec, val, ref)
    [] OTHER -> Leaves(<<[ref |-> ref, type |-> val.type]>>)

(* A leaf of the specification is taken with whatever the value is. *)
Walk(spec, val, ref) ==
  CASE spec.type = "array" -> WalkArray(spec, val, ref)
    [] spec.type = "struct" -> WalkStructure(spec, val, ref)
    [] OTHER -> Leaves(<<[ref |-> ref, type |-> val.type]>>)

-----------------------------------------------------------------------------
(* Reference: what the leaves are, by paths instead of by recursion.       *)

Missing == [type |-> "missing", kids |-> <<>>]

Kid(tree, i) == IF i \in DOMAIN tree.kids THEN tree.kids[i] ELSE Missing
SpecKid(tree, i) == Kid(tree, IF tree.type = "array" THEN 1 ELSE i)

SpecAt(spec, path) == FoldLeft(SpecKid, spec, path)
ValAt(val, path) == FoldLeft(Kid, val, path)

(* Paths of at most two steps, each to one of the first two children. *)
Paths == UNION {[1..n -> 1..2] : n \in 0..2}

(* The path exists in both trees. *)
Shared(spec, val, path) ==
  \A n \in 0..Len(path) : /\ SpecAt(spec, SubSeq(path, 1, n)).type # "missing"
                          /\ ValAt(val, SubSeq(path, 1, n)).type # "missing"

(* At a common path both must be composed in the same way. *)
Agree(spec, val) ==
  \A p \in Paths : Shared(spec, val, p) =>
    LET s == SpecAt(spec, p)
        v == ValAt(val, p)
    IN  /\ s.type # "leaf" => v.type = s.type
        /\ s.type = "array" /\ v.kids # <<>> => s.kids # <<>>

(* Somewhere a structure has another number of fields than specified. *)
LengthsDiffer(spec, val) ==
  \E p \in Paths :
    LET s == SpecAt(spec, p)
        v == ValAt(val, p)
    IN  /\ Shared(spec, val, p) /\ s.type = "struct" /\ v.type = "struct"
        /\ Len(s.kids) # Len(v.kids)

(* Neither has more than the other. *)
Fits(spec, val) ==
  /\ ~LengthsDiffer(spec, val)
  /\ \A p \in Paths : Shared(spec, val, p) =>
       (SpecAt(spec, p).type = "leaf" <=> ValAt(val, p).type = "leaf")

CommonLeaves(spec, val) ==
  {p \in Paths : Shared(spec, val, p) /\ SpecAt(spec, p).type = "leaf"}

=============================================================================
