----------------------------- MODULE MCOperations -----------------------------
(* A small instance of ClientOperations for TLC. *)
EXTENDS ClientOperations

CONSTANTS x, y, ob1, ob2, ob3

Use(calls, nodes) == [calls |-> calls, nodes |-> nodes, models |-> {}]
Operate(op, object, models) ==
  [calls |-> {op}, nodes |-> {object}, models |-> models]

(* Every kind of call.  An object is operated directly, at once or at a    *)
(* time (ob1), one is selected (ob2), one is selected with value (ob3),    *)
(* and one is not operated as its model requires.                          *)
MCWorkloads ==
  { Use({"write"}, {x, y}), Use({"setsg"}, {}), Use({"read"}, {}),
    Use({"getsg", "file"}, {}),
    Operate("control", ob1, {"direct_normal", "direct_enhanced"}),
    Operate("controlINC", ob2, {"sbo_normal"}),
    Operate("controlINC", ob3, {"sbo_enhanced"}),
    Operate("controlINC", ob2, {"direct_normal", "sbo_enhanced"}) }

=============================================================================
