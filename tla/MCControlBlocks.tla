--------------------------- MODULE MCControlBlocks ---------------------------
(* SCL files for TLC: at most two logical nodes of the given shapes. *)
EXTENDS ControlBlocks, SequencesExt

Rcb(indexed, enabled, max, clients) ==
  [indexed |-> indexed, enabled |-> enabled, max |-> max, clients |-> clients]

Blank == [rcb |-> <<>>, gse |-> <<>>, ds |-> 0, lcb |-> 0, log |-> 0, smv |-> 0,
          sgcb |-> 0, lln0 |-> FALSE]

Reports == {<<>>, <<Rcb(TRUE, FALSE, 0, 0)>>, <<Rcb(FALSE, FALSE, 0, 0)>>,
            <<Rcb(TRUE, TRUE, 2, 1), Rcb(FALSE, TRUE, 1, 0)>>,
            <<Rcb(TRUE, TRUE, 0, 1)>>, <<Rcb(FALSE, TRUE, 2, 0)>>}

(* Every GSEControl has its GSE element, and LLN0 one SettingControl. *)
Complete ==
  {[Blank EXCEPT !.rcb = r, !.gse = g, !.ds = Len(r), !.lcb = Len(g), !.log = l,
                 !.smv = l, !.sgcb = IF z THEN 1 ELSE 0, !.lln0 = z] :
     r \in Reports, g \in {<<>>, <<TRUE>>, <<TRUE, TRUE>>}, l \in 0..1, z \in BOOLEAN}

(* A GSEControl may lack its element. *)
Missing == {[Blank EXCEPT !.gse = g] : g \in {<<>>, <<TRUE>>, <<FALSE>>, <<FALSE, TRUE>>}}

(* A SettingControl on a node that may not have one. *)
Misplaced == {[Blank EXCEPT !.sgcb = 1]}

Files(shapes, comms) ==
  [comm : comms, nodes : SeqOf(shapes, 2), defects : {{}}]

MissingFiles == Files(Missing, {"ap"})

(* Files without the access point, or without any Communication section. *)
IcdFiles == Files(Missing \cup {[Blank EXCEPT !.rcb = r] : r \in Reports},
                  {"none", "other"})

(* Files that are given up, one with a data set. *)
DefectiveFiles ==
  [comm : {"ap"}, nodes : {<<[Blank EXCEPT !.ds = 1]>>},
   defects : {{d} : d \in Defects}]

CompleteFiles ==
  Files(Complete \cup Misplaced, {"ap"}) \cup IcdFiles \cup DefectiveFiles

=============================================================================
