------------------------------ MODULE Discovery ------------------------------
(***************************************************************************)
(* GetVariableValues as a whole: the goroutines of Gather, each of which   *)
(* walks the specification and the value it has read as in VariableWalk.   *)
(***************************************************************************)
EXTENDS Gather, VariableWalk

(* The parameter Result of Gather. *)
WalkResult(spec, val) == Walk(spec, val, <<>>)

-----------------------------------------------------------------------------
(* Properties.                                                             *)

EntriesOf(j) == {i \in DOMAIN ret : ret[i].job = j}

(* A call that succeeds returns for every logical node and functional      *)
(* constraint of every device exactly once each leaf of the specification, *)
(* with the value found there; or one error, when a request failed or the  *)
(* two are not composed alike.  Where they are composed alike but do not   *)
(* fit, whatever leaf is listed is there in both, once.  It does so        *)
(* however the goroutines, the channel and the return interleave.          *)
ResultComplete ==
  pc = "returned" /\ ~err =>
    \A j \in Jobs :
      LET s == device[j].spec
          v == device[j].val
          found == {i \in EntriesOf(j) : ret[i].type # "error"}
          refs == {ret[i].ref : i \in found}
      IN  IF j \in failed \/ ~Agree(s, v)
          THEN found = {} /\ Cardinality(EntriesOf(j)) = 1
          ELSE /\ refs \subseteq CommonLeaves(s, v)
               /\ Cardinality(found) = Cardinality(refs)
               /\ \A i \in found :
                    ValAt(v, ret[i].ref).type = "leaf" => ret[i].type = "leaf"
               /\ Fits(s, v) => refs = CommonLeaves(s, v) /\ found = EntriesOf(j)

(* The comment on structures of different length says "report a mismatch": *)
(* the result then holds an error for the node.  It does not; fields are   *)
(* left out in silence.                                                    *)
MismatchReported ==
  pc = "returned" /\ ~err =>
    \A j \in Jobs \ failed :
      LengthsDiffer(device[j].spec, device[j].val) =>
        \E i \in EntriesOf(j) : ret[i].type = "error"

=============================================================================
