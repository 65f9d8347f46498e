------------------------ MODULE ClientOperationsProofs ------------------------
(***************************************************************************)
(* Proofs about the calls of clients and the server they are sent to, for  *)
(* any number of goroutines, connections, attributes, control objects and  *)
(* setting groups, any workloads and any number of ids and file blocks.    *)
(***************************************************************************)
EXTENDS ClientOperations, TLAPS

Locations == {"idle", "readobj", "type", "write", "create", "select", "operate",
              "spec", "sgcb", "sub", "block"}
Stages == {"none", "write", "act", "edit", "value", "confirm"}
SelectKinds == {"select", "selectWithValue"}
OperKinds == {"operate", "operateAt"}
Kinds == {"none", "plain", "read", "decide", "edit", "value", "confirm"}
           \cup SelectKinds \cup OperKinds
Held == {"locked", "half", "handler"}
Unlocking == {"value", "time", "unlock"}
CObjects == {"ref", "mms", "control", "ctlVal", "orIdent", "spec", "sgcb", "cDw"}
              \cup PartSet
Targets == Nodes \cup Groups \cup {None}
Controls == [select : {"none"} \cup SelectKinds, operate : {"none"} \cup OperKinds]
Call == [op : Calls \cup {"none"}, pc : Locations, node : Targets,
         ctl : Controls, stage : Stages, n : Nat, defers : SUBSET CObjects,
         ret : {"none", "ok", "error"}, late : BOOLEAN]
Requests == [kind : Kinds, node : Targets,
             st : {"none", "sent", "waiting", "accepted", "answered"} \cup Held,
             ok : BOOLEAN, late : BOOLEAN]
Edit == [owner : Conns \cup {None}, group : Targets, buf : Conns \cup {None}]

AppTypes ==
  /\ phase \in {"created", "running", "stopping", "stopped", "destroyed"}
  /\ idGen \in 0..MaxIds
  /\ callbacks \in [Ids -> Nodes \cup {None}]
  /\ param \in [Nodes -> 0..MaxIds] /\ latest \in [Nodes -> 0..MaxIds]
  /\ policy \in BOOLEAN
  /\ apc \in [Apps -> {"idle", "store", "install", "stop", "destroy"} \cup Unlocking]
  /\ inst \in [Apps -> [node : Nodes \cup {None}, id : 0..MaxIds]]
DataTypes ==
  /\ lock \in Apps \cup Conns \cup {None}
  /\ meas \in [f : {0, 1}, t : {0, 1}]
  /\ selected \in [Objs -> Conns \cup {None}]
  /\ edit \in Edit
ServedTypes ==
  /\ req \in [Conns -> Requests]
  /\ seen \in [Conns -> [f : {0, 1}, t : {0, 1}]]
  /\ verdict \in [Conns -> [id : 0..MaxIds, ok : BOOLEAN]]
  /\ stored \in [Conns -> [group : Targets, val : Conns \cup {None}] \cup {None}]
CallTypes ==
  /\ workload \in Workloads
  /\ call \in [Conns -> Call]
  /\ live \in [Conns -> SUBSET CObjects]

(* The variables have their types. *)
TypeOK == AppTypes /\ DataTypes /\ ServedTypes /\ CallTypes /\ twice \in BOOLEAN

-----------------------------------------------------------------------------
(* One goroutine installs a handler, and only while nothing is served.     *)
InstallInv ==
  /\ \A n \in Nodes :
       /\ latest[n] = param[n] /\ param[n] <= idGen
       /\ param[n] # 0 => callbacks[param[n]] = n
  /\ \A a \in Apps : apc[a] \in {"store", "install"} =>
       /\ phase \in {"created", "stopped"}
       /\ \A b \in Apps : b # a => apc[b] = "idle"
       /\ inst[a].node \in Nodes /\ inst[a].id = idGen /\ idGen # 0
       /\ \A n \in Nodes : param[n] # idGen
       /\ apc[a] = "install" => callbacks[idGen] = inst[a].node

(* The lock of the data model has one holder: a goroutine of the           *)
(* application that updates values, or a request that is being served.     *)
LockInv ==
  /\ \A a \in Apps : apc[a] \in Unlocking <=> lock = a
  /\ \A k \in Conns : req[k].st \in Held <=> lock = k

(* Value and time stamp differ only between the two updates of a holder. *)
MeasInv ==
  IF \E a \in Apps : apc[a] = "time" THEN meas.f = 1 - meas.t ELSE meas.f = meas.t

(* What is known of a request, also of one its client has given up. *)
RequestInv ==
  \A k \in Conns :
    /\ Serving(k) => phase \in {"running", "stopping"}
    /\ req[k].kind = "decide" => req[k].node \in Nodes
    /\ req[k].kind \in SelectKinds \cup OperKinds => req[k].node \in Objs
    /\ req[k].st = "accepted" => req[k].kind \in OperKinds
    /\ req[k].st = "half" => req[k].kind = "read" /\ seen[k].f = meas.f
    /\ req[k].st = "handler" =>
         /\ req[k].kind = "decide"
         /\ param[req[k].node] # 0 /\ verdict[k].id = param[req[k].node]

ServerInv == InstallInv /\ LockInv /\ MeasInv /\ RequestInv

-----------------------------------------------------------------------------
OpsAt(pc) ==
  CASE pc = "readobj" -> {"read"}
    [] pc \in {"type", "write"} -> {"write", "setsg"}
    [] pc \in {"create", "select", "operate"} -> {"control", "controlINC"}
    [] pc \in {"spec", "sgcb", "sub"} -> {"getsg"}
    [] pc = "block" -> {"file"}
    [] OTHER -> Calls \cup {"none"}

KindAt(pc, stage, ctl) ==
  CASE pc = "readobj" -> "read"
    [] pc = "select" -> ctl.select
    [] pc = "operate" -> ctl.operate
    [] pc = "write" -> RequestOf(stage)
    [] OTHER -> "plain"

(* The request that a call waits for, and what is kept after it returned.  *)
CallInv(k) ==
  LET c == call[k] IN
  /\ c.op \in OpsAt(c.pc)
  /\ c.pc \notin {"idle", "sub"} =>
       /\ req[k].st # "none" /\ req[k].kind = KindAt(c.pc, c.stage, c.ctl)
       /\ req[k].node = c.node
  /\ c.pc = "sub" => req[k].st = "none"
  /\ c.pc # "idle" => ~req[k].late /\ ~c.late /\ c.ret = "none"
  /\ c.pc = "idle" /\ req[k].st # "none" => req[k].late
  /\ req[k].late => c.late
  /\ c.late => c.pc = "idle" /\ c.ret = "error"

(* The stage a call has reached, and the node it works on. *)
StageInv(k) ==
  LET c == call[k] IN
  /\ c.op = "write" /\ c.pc # "idle" => c.stage = "write" /\ c.node \in Attrs
  /\ c.op = "setsg" => c.node \in Groups
  /\ c.op = "setsg" /\ c.pc # "idle" => c.stage \in {"act", "edit", "value", "confirm"}
  /\ c.op \in {"control", "controlINC"} /\ c.pc # "idle" =>
       c.node \in Objs /\ c.ctl.operate \in OperKinds
  /\ c.pc = "select" => c.ctl.select \in SelectKinds
  /\ c.op \in {"getsg", "file"} /\ c.pc # "idle" => c.node = None

Answered(k, ok) == req[k].st = "answered" /\ req[k].ok = ok

(* Both parts that a call has read are of the same update. *)
SnapInv(k) ==
  /\ call[k].op = "read"
  /\ call[k].ret = "ok" \/ (call[k].pc = "readobj" /\ Answered(k, TRUE))
  => seen[k].f = seen[k].t

(* The write that is decided upon has been carried out. *)
CarriedOut(k) == call[k].pc = "write" /\ Answered(k, TRUE)

(* The decision on a write is what its answer says. *)
VerdictInv(k) ==
  call[k].op = "write" =>
    /\ call[k].pc # "idle" => verdict[k].ok = CarriedOut(k)
    /\ call[k].ret = "ok" => verdict[k].ok
    /\ call[k].ret = "error" /\ ~call[k].late => ~verdict[k].ok

BlockInv(k) == call[k].op = "file" /\ call[k].ret = "ok" => call[k].n = Blocks

(* The request of this stage has succeeded, or the call is at a later one. *)
Past(k, stage, later) ==
  \/ call[k].stage \in later
  \/ call[k].stage = stage /\ call[k].pc = "write" /\ Answered(k, TRUE)

Stored(k) == stored[k] = [group |-> call[k].node, val |-> k]

(* While the edit buffer is k's it holds what the call of k has put there, *)
(* and nothing is stored before the confirmation succeeds.                 *)
SettingInv(k) ==
  call[k].op = "setsg" =>
    /\ call[k].pc # "idle" /\ edit.owner = k =>
         /\ Past(k, "edit", {"value", "confirm"}) => edit.group = call[k].node
         /\ Past(k, "value", {"confirm"}) => edit.buf = k
    /\ call[k].pc # "idle" =>
         IF Past(k, "confirm", {}) THEN Stored(k) ELSE stored[k] = None
    /\ call[k].ret = "ok" => Stored(k)
    /\ call[k].ret = "error" /\ ~call[k].late => stored[k] = None

(* What is deferred is there to be freed, and what is there is deferred or *)
(* known to be left.  The parts of a control block that were not reached   *)
(* are still there.                                                        *)
ObjectInv(k) ==
  LET c == call[k] IN
  /\ c.pc # "idle" => /\ c.defers \subseteq live[k]
                      /\ live[k] \subseteq c.defers \cup KnownLeaks(c.op)
  /\ c.pc = "idle" => live[k] \subseteq KnownLeaks(c.op)
  /\ c.pc \in {"type", "write"} => c.defers \subseteq {"ref", "mms"}
  /\ c.pc = "sub" => \A i \in 1..4 : i > c.n => Parts[i] \in live[k]
  /\ "sgcb" \notin c.defers /\ c.defers \cap PartSet = {}

OutcomeInv(k) == SnapInv(k) /\ VerdictInv(k) /\ BlockInv(k) /\ SettingInv(k)
ClientInv(k) == CallInv(k) /\ StageInv(k) /\ OutcomeInv(k) /\ ObjectInv(k)

(* All but what concerns operations. *)
BaseInv == TypeOK /\ ServerInv /\ ~twice /\ \A k \in Conns : ClientInv(k)

-----------------------------------------------------------------------------
(* Operations.                                                             *)

Fates == {"none", "accepted", "started", "done", "failed", "dropped"}
Opers == [by : Conns \cup {None}, id : 0..MaxIds, cur : BOOLEAN,
          st : {"none", "timed", "accepted", "due", "handler"}]
OperTypes == oper \in [Objs -> Opers] /\ fate \in [Conns -> Fates]

(* An operation that belongs to a client's last call is neither ended nor  *)
(* unknown, and the request of one that was just accepted is not answered. *)
OperInv(o) ==
  LET p == oper[o] IN
  /\ p.st = "none" => ~p.cur
  /\ p.st # "none" => p.by \in Conns /\ phase \in {"running", "stopping"}
  /\ p.st = "handler" => param[o] # 0 /\ p.id = param[o]
  /\ p.st = "accepted" => /\ p.cur /\ fate[p.by] = "accepted"
                          /\ req[p.by].st = "accepted" /\ req[p.by].node = o
  /\ p.cur => fate[p.by] \in {"accepted", "started"}

(* A client has one such operation. *)
OneOper ==
  \A o, q \in Objs : oper[o].cur /\ oper[q].cur /\ oper[o].by = oper[q].by => o = q

(* What a client knows of its operation. *)
FateInv(k) ==
  /\ req[k].kind \in OperKinds /\ req[k].st \in {"sent", "waiting", "locked"} =>
       fate[k] = "none"
  /\ req[k].st = "accepted" =>
       oper[req[k].node].st = "accepted" /\ oper[req[k].node].by = k
  /\ call[k].op \in {"control", "controlINC"} =>
       /\ call[k].pc \in {"create", "select"} => fate[k] = "none"
       /\ call[k].pc = "operate" /\ Answered(k, TRUE) => fate[k] # "none"
       /\ call[k].pc = "operate" /\ Answered(k, FALSE) => fate[k] \in {"none", "dropped"}
       /\ call[k].ret = "ok" => fate[k] # "none"
       /\ call[k].ret = "error" /\ ~call[k].late => fate[k] \in {"none", "dropped"}

ControlInv ==
  /\ OperTypes /\ OneOper
  /\ \A o \in Objs : OperInv(o)
  /\ \A k \in Conns : FateInv(k)

(* The inductive invariant. *)
IndInv == BaseInv /\ ControlInv

-----------------------------------------------------------------------------
(* What a step of the server is for one connection.                        *)

(* Its request, and its edit if it has one, are left alone, ... *)
Same(k) ==
  /\ req'[k] = req[k] /\ seen'[k] = seen[k]
  /\ verdict'[k] = verdict[k] /\ stored'[k] = stored[k]
  /\ edit'.owner = k => edit' = edit

(* ... or it is being served, ... *)
Proceeds(k) ==
  /\ req[k].st \in {"sent", "waiting", "locked"}
  /\ \E st \in {"waiting", "accepted"} \cup Held : req'[k] = [req[k] EXCEPT !.st = st]
  /\ verdict'[k] = verdict[k] \/ ~verdict'[k].ok
  /\ stored'[k] = stored[k] /\ edit' = edit

(* ... or it is answered, with the effects that the answer stands for.     *)
Answers(k, ok) ==
  LET kind == req[k].kind IN
  /\ req[k].st \in {"sent", "accepted"} \cup Held
  /\ \/ req[k].late /\ req'[k] = NoRequest
     \/ req'[k] = [req[k] EXCEPT !.st = "answered", !.ok = ok]
  /\ \/ verdict'[k] = verdict[k] /\ (kind = "decide" => ~ok)
     \/ kind = "decide" /\ verdict'[k].ok = ok
  /\ kind = "read" /\ ok => seen'[k].f = seen'[k].t
  /\ IF kind = "confirm" /\ ok
     THEN edit.owner = k /\ stored'[k] = [group |-> edit.group, val |-> edit.buf]
     ELSE stored'[k] = stored[k]
  /\ edit'.owner = k =>
       IF ok /\ kind = "edit" THEN edit'.group = req[k].node
       ELSE IF ok /\ kind = "value" THEN edit.owner = k /\ edit' = [edit EXCEPT !.buf = k]
       ELSE edit' = edit

Served(k) == Same(k) \/ Proceeds(k) \/ \E ok \in BOOLEAN : Answers(k, ok)

(* A step of the library on the request of connection k. *)
Serves(k) ==
  /\ UNCHANGED <<phase, appVars, meas, apc>>
  /\ \A j \in Conns \ {k} : Same(j)
  /\ Proceeds(k) \/ \E ok \in BOOLEAN : Answers(k, ok)
  /\ (Serving(k))' => phase \in {"running", "stopping"}
  /\ IF req'[k].st \in Held
     THEN lock' = k /\ (req[k].st \in Held \/ lock = None)
     ELSE lock' = IF req[k].st \in Held THEN None ELSE lock
  /\ req'[k].st = "accepted" => req[k].kind \in OperKinds
  /\ req'[k].st = "half" => req[k].kind = "read" /\ seen'[k].f = meas.f
  /\ req'[k].st = "handler" =>
       /\ req[k].kind = "decide"
       /\ param[req[k].node] # 0 /\ verdict'[k].id = param[req[k].node]

(* The fields of a request that is served further or answered. *)
LEMMA RequestFields ==
  ASSUME NEW k \in Conns, TypeOK
  PROVE  /\ Proceeds(k) => /\ req'[k].st \in {"waiting", "accepted"} \cup Held
                           /\ req'[k].kind = req[k].kind /\ req'[k].node = req[k].node
                           /\ req'[k].late = req[k].late
         /\ \A ok \in BOOLEAN : Answers(k, ok) =>
              \/ /\ req[k].late /\ req'[k].st = "none" /\ req'[k].kind = "none"
                 /\ ~req'[k].late
              \/ /\ req'[k].st = "answered" /\ req'[k].ok = ok
                 /\ req'[k].kind = req[k].kind /\ req'[k].node = req[k].node
                 /\ req'[k].late = req[k].late
  <1>1. req[k] \in Requests
    BY DEF TypeOK, ServedTypes
  <1>2. ASSUME Proceeds(k)
        PROVE  /\ req'[k].st \in {"waiting", "accepted"} \cup Held
               /\ req'[k].kind = req[k].kind /\ req'[k].node = req[k].node
               /\ req'[k].late = req[k].late
    <2>1. PICK st \in {"waiting", "accepted"} \cup Held : req'[k] = [req[k] EXCEPT !.st = st]
      BY <1>2 DEF Proceeds
    <2>2. QED
      BY <1>1, <2>1 DEF Requests
  <1>3. ASSUME NEW ok \in BOOLEAN, req'[k] = [req[k] EXCEPT !.st = "answered", !.ok = ok]
        PROVE  /\ req'[k].st = "answered" /\ req'[k].ok = ok
               /\ req'[k].kind = req[k].kind /\ req'[k].node = req[k].node
               /\ req'[k].late = req[k].late
    BY <1>1, <1>3 DEF Requests
  <1>4. ASSUME req'[k] = NoRequest
        PROVE  req'[k].st = "none" /\ req'[k].kind = "none" /\ ~req'[k].late
    BY <1>4 DEF NoRequest
  <1>5. QED
    BY <1>2, <1>3, <1>4 DEF Answers

(* A client's invariant is kept by whatever the server does. *)
LEMMA ServedKeeps ==
  ASSUME NEW k \in Conns, TypeOK, TypeOK', ClientInv(k), Served(k), UNCHANGED clientVars
  PROVE  ClientInv(k)'
  <1> USE DEF ClientInv, clientVars
  <1>1. CallInv(k)'
    <2>1. CASE Same(k)
      BY <2>1 DEF Same, CallInv
    <2>2. CASE Proceeds(k)
      BY <2>2, RequestFields DEF CallInv, Held, Proceeds
    <2>3. ASSUME NEW ok \in BOOLEAN, Answers(k, ok) PROVE CallInv(k)'
      BY <2>3, RequestFields DEF CallInv, Held, Answers
    <2>4. QED
      BY <2>1, <2>2, <2>3 DEF Served
  <1>2. StageInv(k)' /\ ObjectInv(k)' /\ BlockInv(k)'
    BY DEF StageInv, ObjectInv, BlockInv, OutcomeInv
  <1> DEFINE c == call[k]
  <1> USE DEF OutcomeInv
  <1>3. SnapInv(k)'
    BY DEF Served, Same, Proceeds, Answers, Answered, SnapInv, CallInv, OpsAt,
       KindAt, NoRequest, TypeOK, ServedTypes, Requests, Held
  <1>4. VerdictInv(k)'
    <2> SUFFICES ASSUME call[k].op = "write" PROVE VerdictInv(k)'
      BY DEF VerdictInv
    <2>1. CASE Same(k)
      BY <2>1 DEF Same, VerdictInv, CarriedOut, Answered
    <2>2. CASE Proceeds(k)
      <3>1. /\ ~(Answered(k, TRUE))' /\ req[k].st \notin {"none", "answered"}
            /\ verdict[k].ok \in BOOLEAN /\ verdict'[k].ok \in BOOLEAN
        BY <2>2, RequestFields DEF Proceeds, Answered, Held, TypeOK, ServedTypes
      <3>2. call[k].ret # "ok" /\ (call[k].ret = "error" => call[k].late)
        BY <3>1 DEF CallInv
      <3>3. QED
        BY <2>2, <3>1, <3>2 DEF VerdictInv, CarriedOut, Answered, Proceeds
    <2>3. ASSUME NEW ok \in BOOLEAN, Answers(k, ok) PROVE VerdictInv(k)'
      <3>1. CASE call[k].pc = "idle"
        BY <2>3, <3>1 DEF CallInv, VerdictInv, Answers, Held
      <3>2. CASE call[k].pc # "idle"
        <4>1. /\ req'[k].st = "answered" /\ req'[k].ok = ok /\ call[k].ret = "none"
              /\ req[k].st # "answered"
          BY <2>3, <3>2, RequestFields DEF CallInv, Answers, Held
        <4>2. req[k].kind = "decide" <=> call[k].pc = "write"
          BY <2>3, <3>2 DEF CallInv, StageInv, OpsAt, KindAt, RequestOf, Answers, Held
        <4>3. QED
          BY <2>3, <3>2, <4>1, <4>2 DEF VerdictInv, Answers, CarriedOut, Answered
      <3>3. QED
        BY <3>1, <3>2
    <2>4. QED
      BY <2>1, <2>2, <2>3 DEF Served
  <1>5. SettingInv(k)'
    <2> SUFFICES ASSUME call[k].op = "setsg" PROVE SettingInv(k)'
      BY DEF SettingInv
    <2>1. CASE Same(k)
      BY <2>1 DEF Same, SettingInv, Past, Stored, Answered
    <2>2. CASE Proceeds(k)
      BY <2>2, RequestFields DEF CallInv, SettingInv, Past, Stored, Answered,
         Held, Proceeds
    <2>3. ASSUME NEW ok \in BOOLEAN, Answers(k, ok) PROVE SettingInv(k)'
      <3>1. CASE call[k].pc = "idle"
        BY <2>3, <3>1 DEF CallInv, SettingInv, Answers, Stored, Held
      <3>2. CASE call[k].pc # "idle"
        <4>1. /\ req'[k].st = "answered" /\ req'[k].ok = ok
              /\ req[k].node = call[k].node /\ req[k].st # "answered"
              /\ call[k].ret = "none" /\ call[k].pc \in {"type", "write"}
              /\ req[k].kind = KindAt(call[k].pc, call[k].stage, call[k].ctl)
          <5>1. /\ req[k].node = call[k].node /\ ~req[k].late /\ call[k].ret = "none"
                /\ req[k].kind = KindAt(call[k].pc, call[k].stage, call[k].ctl)
                /\ call[k].pc \in {"type", "write"}
            <6>1. call[k].pc \in Locations
              BY DEF TypeOK, CallTypes, Call
            <6>2. QED
              BY <3>2, <6>1 DEF CallInv, OpsAt, Locations
          <5>2. QED
            BY <2>3, <5>1, RequestFields DEF Answers, Held
        <4>2. CASE call[k].pc = "type"
          <5>1. req[k].kind = "plain"
            BY <4>1, <4>2 DEF KindAt
          <5>2. QED
            BY <2>3, <4>1, <4>2, <5>1 DEF SettingInv, Past, Stored, Answered,
               Answers
        <4>3. CASE call[k].pc = "write"
          <5>1. /\ call[k].stage \in {"act", "edit", "value", "confirm"}
                /\ req[k].kind = IF call[k].stage = "act" THEN "plain" ELSE call[k].stage
            BY <3>2, <4>1, <4>3 DEF KindAt, RequestOf, StageInv
          <5>2. (edit.owner = k =>
                  /\ Past(k, "edit", {"value", "confirm"}) => edit.group = call[k].node
                  /\ Past(k, "value", {"confirm"}) => edit.buf = k)'
            BY <2>3, <3>2, <4>1, <4>3, <5>1 DEF SettingInv, Past, Answered,
               Answers, TypeOK, DataTypes, Edit
          <5>3. (IF Past(k, "confirm", {}) THEN Stored(k) ELSE stored[k] = None)'
            BY <2>3, <3>2, <4>1, <4>3, <5>1 DEF SettingInv, Past, Stored,
               Answered, Answers
          <5>4. QED
            BY <4>1, <5>2, <5>3 DEF SettingInv
        <4>4. QED
          BY <4>1, <4>2, <4>3
      <3>3. QED
        BY <3>1, <3>2
    <2>4. QED
      BY <2>1, <2>2, <2>3 DEF Served
  <1>6. QED
    BY <1>1, <1>2, <1>3, <1>4, <1>5

(* The server's invariant is kept by every step of the library. *)
LEMMA ServesKeeps ==
  ASSUME NEW k \in Conns, TypeOK, TypeOK', ServerInv, Serves(k)
  PROVE  ServerInv' /\ \A j \in Conns : Served(j)
  <1> USE ServerAssumption DEF ServerInv, Serves, appVars
  <1>1. InstallInv'
    BY DEF InstallInv
  <1>2. LockInv'
    BY DEF LockInv, Same, TypeOK, DataTypes
  <1>3. MeasInv'
    BY DEF MeasInv
  <1>4. RequestInv'
    <2>1. ASSUME NEW j \in Conns, j # k PROVE req'[j] = req[j] /\ seen'[j] = seen[j] /\ verdict'[j] = verdict[j]
      BY <2>1 DEF Same
    <2>2. /\ req'[k].kind \in {req[k].kind, "none"}
          /\ req'[k].kind # "none" => req'[k].node = req[k].node
      BY RequestFields
    <2>3. ASSUME NEW j \in Conns PROVE
            /\ (Serving(j))' => phase' \in {"running", "stopping"}
            /\ req'[j].kind = "decide" => req'[j].node \in Nodes
            /\ req'[j].kind \in SelectKinds \cup OperKinds => req'[j].node \in Objs
      BY <2>1, <2>2 DEF RequestInv, Serving, SelectKinds, OperKinds
    <2>4. ASSUME NEW j \in Conns PROVE
            /\ req'[j].st = "accepted" => req'[j].kind \in OperKinds
            /\ req'[j].st = "half" => req'[j].kind = "read" /\ seen'[j].f = meas'.f
            /\ req'[j].st = "handler" =>
                 /\ req'[j].kind = "decide"
                 /\ param'[req'[j].node] # 0 /\ verdict'[j].id = param'[req'[j].node]
      <3>1. CASE j # k
        BY <2>1, <3>1 DEF RequestInv
      <3>2. CASE j = k
        BY <3>2, RequestFields
      <3>3. QED
        BY <3>1, <3>2
    <2>5. QED
      BY <2>3, <2>4 DEF RequestInv
  <1>5. \A j \in Conns : Served(j)
    BY DEF Served
  <1>6. QED
    BY <1>1, <1>2, <1>3, <1>4, <1>5

-----------------------------------------------------------------------------
(* The steps of the library.                                               *)

(* The request of k goes on to st. *)
LEMMA AdvanceEffect ==
  ASSUME NEW k \in Conns, TypeOK, NEW st \in {"waiting", "accepted"} \cup Held,
         req' = [req EXCEPT ![k].st = st]
  PROVE  /\ req' \in [Conns -> Requests]
         /\ \A j \in Conns \ {k} : req'[j] = req[j]
         /\ req'[k] = [req[k] EXCEPT !.st = st] /\ req'[k].st = st
  <1>0. req[k] \in Requests
    BY DEF TypeOK, ServedTypes
  <1>1. [req[k] EXCEPT !.st = st] \in Requests
    BY <1>0 DEF Requests
  <1>2. req' = [req EXCEPT ![k] = [req[k] EXCEPT !.st = st]]
    OBVIOUS
  <1>3. [req[k] EXCEPT !.st = st].st = st
    BY <1>0 DEF Requests
  <1>4. QED
    BY <1>1, <1>2, <1>3 DEF TypeOK, ServedTypes

(* The request of k is answered, or forgotten if nobody waits for it. *)
LEMMA AnswerEffect ==
  ASSUME NEW k \in Conns, TypeOK, NEW ok \in BOOLEAN,
         req' = [req EXCEPT ![k] = IF @.late THEN NoRequest
                                   ELSE [@ EXCEPT !.st = "answered", !.ok = ok]]
  PROVE  /\ req' \in [Conns -> Requests]
         /\ \A j \in Conns \ {k} : req'[j] = req[j]
         /\ \/ req[k].late /\ req'[k] = NoRequest
            \/ req'[k] = [req[k] EXCEPT !.st = "answered", !.ok = ok]
         /\ req'[k].st \in {"none", "answered"}
  <1>1. req[k] \in Requests /\ NoRequest \in Requests
    BY DEF TypeOK, ServedTypes, Requests, NoRequest, Kinds, Targets
  <1>2. [req[k] EXCEPT !.st = "answered", !.ok = ok] \in Requests
    BY <1>1 DEF Requests
  <1>3. [req[k] EXCEPT !.st = "answered", !.ok = ok].st = "answered"
    BY <1>1 DEF Requests
  <1>4. NoRequest.st = "none"
    BY DEF NoRequest
  <1>5. QED
    BY <1>1, <1>2, <1>3, <1>4 DEF TypeOK, ServedTypes

(* A decision is typed, and serves the request it is about. *)
LEMMA DecideServes ==
  ASSUME NEW k \in Conns, TypeOK, ServerInv, NEW ok \in BOOLEAN, Decide(k, ok),
         UNCHANGED clientVars, req[k].st \in {"locked", "handler"},
         req[k].kind = "decide"
  PROVE  TypeOK' /\ Serves(k)
  <1> USE ServerAssumption DEF Decide, Answer
  <1>1. /\ req' \in [Conns -> Requests]
        /\ \A j \in Conns \ {k} : req'[j] = req[j]
        /\ \/ req[k].late /\ req'[k] = NoRequest
           \/ req'[k] = [req[k] EXCEPT !.st = "answered", !.ok = ok]
        /\ req'[k].st \in {"none", "answered"}
    BY AnswerEffect
  <1>2. /\ verdict' \in [Conns -> [id : 0..MaxIds, ok : BOOLEAN]]
        /\ \A j \in Conns \ {k} : verdict'[j] = verdict[j]
        /\ verdict'[k].ok = ok
    BY DEF TypeOK, ServedTypes
  <1>3. UNCHANGED <<selected, edit, stored>>
    BY DEF devVars, ctlVars, ctlVars
  <1>4. TypeOK'
    BY <1>1, <1>2, <1>3 DEF TypeOK, AppTypes, DataTypes, ServedTypes, CallTypes,
       appVars, clientVars
  <1>5. Answers(k, ok)
    BY <1>1, <1>2, <1>3 DEF Answers, Held
  <1>6. \A j \in Conns \ {k} : Same(j)
    BY <1>1, <1>2, <1>3 DEF Same
  <1>7. QED
    BY <1>1, <1>4, <1>5, <1>6 DEF Serves, Serving, Held

(* Every step of the library is typed, and serves a request. *)
LEMMA LibraryServes ==
  ASSUME NEW k \in Conns, TypeOK, ServerInv, UNCHANGED clientVars,
         Serve(k) \/ ServeLock(k) \/ ServeStep(k)
  PROVE  TypeOK' /\ Serves(k)
  <1> USE ServerAssumption DEF ServerInv
  <1> DEFINE Kept == /\ UNCHANGED <<phase, appVars, meas, apc>>
                     /\ UNCHANGED clientVars
  <1>a. ASSUME Kept, req' \in [Conns -> Requests], DataTypes',
               seen' \in [Conns -> [f : {0, 1}, t : {0, 1}]],
               verdict' \in [Conns -> [id : 0..MaxIds, ok : BOOLEAN]],
               stored' \in [Conns -> [group : Targets, val : Conns \cup {None}] \cup {None}]
        PROVE  TypeOK'
    BY <1>a DEF TypeOK, AppTypes, ServedTypes, CallTypes, appVars, clientVars
  <1>b. ASSUME NEW ok \in BOOLEAN, Answer(k, ok)
        PROVE  /\ req' \in [Conns -> Requests]
               /\ \A j \in Conns \ {k} : req'[j] = req[j]
               /\ \/ req[k].late /\ req'[k] = NoRequest
                  \/ req'[k] = [req[k] EXCEPT !.st = "answered", !.ok = ok]
               /\ req'[k].st \in {"none", "answered"}
    BY <1>b, AnswerEffect DEF Answer
  <1>1. CASE Serve(k)
    <2>1. /\ req' \in [Conns -> Requests] /\ \A j \in Conns \ {k} : req'[j] = req[j]
          /\ req'[k] = [req[k] EXCEPT !.st = "waiting"] /\ req'[k].st = "waiting"
      BY <1>1, AdvanceEffect DEF Serve
    <2>2. TypeOK'
      BY <1>1, <1>a, <2>1 DEF Serve, TypeOK, DataTypes, ServedTypes, devVars, ctlVars
    <2>3. QED
      BY <1>1, <2>1, <2>2 DEF Serve, Serves, Serving, Same, Proceeds, Held,
         devVars, ctlVars
  <1>2. CASE ServeLock(k)
    <2>1. /\ req' \in [Conns -> Requests] /\ \A j \in Conns \ {k} : req'[j] = req[j]
          /\ req'[k] = [req[k] EXCEPT !.st = "locked"] /\ req'[k].st = "locked"
      BY <1>2, AdvanceEffect DEF ServeLock, Held
    <2>2. TypeOK'
      BY <1>2, <1>a, <2>1 DEF ServeLock, TypeOK, DataTypes, ServedTypes, devVars, ctlVars
    <2>3. QED
      BY <1>2, <2>1, <2>2 DEF ServeLock, Serves, Serving, Same, Proceeds, Held,
         devVars, ctlVars, RequestInv
  <1>3. CASE Refuse(k)
    <2>1. TypeOK'
      BY <1>3, <1>a, <1>b DEF Refuse, Answer, TypeOK, DataTypes, ServedTypes,
         devVars, ctlVars
    <2>2. Answers(k, FALSE)
      BY <1>3, <1>b DEF Refuse, Answers, Held, devVars, ctlVars
    <2>3. QED
      BY <1>3, <1>b, <2>1, <2>2 DEF Refuse, Answer, Serves, Serving, Same, Held,
         devVars, ctlVars
  <1>4. CASE ReadFirst(k)
    <2>1. /\ req' \in [Conns -> Requests] /\ \A j \in Conns \ {k} : req'[j] = req[j]
          /\ req'[k] = [req[k] EXCEPT !.st = "half"] /\ req'[k].st = "half"
      BY <1>4, AdvanceEffect DEF ReadFirst, Held
    <2>2. /\ seen' \in [Conns -> [f : {0, 1}, t : {0, 1}]] /\ seen'[k].f = meas.f
          /\ \A j \in Conns \ {k} : seen'[j] = seen[j]
      BY <1>4 DEF ReadFirst, TypeOK, DataTypes, ServedTypes
    <2>3. TypeOK'
      BY <1>4, <1>a, <2>1, <2>2 DEF ReadFirst, TypeOK, DataTypes, ServedTypes,
         devVars, ctlVars
    <2>4. Proceeds(k) /\ phase \in {"running", "stopping"}
      BY <1>4, <2>1 DEF ReadFirst, AtKind, Proceeds, Serving, Held, RequestInv,
         devVars, ctlVars
    <2>5. QED
      BY <1>4, <2>1, <2>2, <2>3, <2>4 DEF ReadFirst, AtKind, Serves, Serving,
         Same, Proceeds, Held, devVars, ctlVars, RequestInv, LockInv
  <1>5. CASE ReadSecond(k)
    <2>1. /\ seen' \in [Conns -> [f : {0, 1}, t : {0, 1}]] /\ seen'[k].t = meas.t
          /\ \A j \in Conns \ {k} : seen'[j] = seen[j]
          /\ seen'[k].f = seen[k].f
      BY <1>5 DEF ReadSecond, TypeOK, DataTypes, ServedTypes
    <2>2. meas.f = meas.t
      <3>1. \A a \in Apps : apc[a] # "time"
        BY <1>5 DEF ReadSecond, LockInv, Held, Unlocking
      <3>2. QED
        BY <3>1 DEF MeasInv
    <2>3. seen'[k].f = seen'[k].t /\ req[k].kind = "read"
      BY <1>5, <2>1, <2>2 DEF ReadSecond, RequestInv
    <2>4. TypeOK'
      BY <1>5, <1>a, <1>b, <2>1 DEF ReadSecond, Answer, TypeOK, DataTypes,
         ServedTypes, devVars, ctlVars
    <2>5. Answers(k, TRUE)
      BY <1>5, <1>b, <2>3 DEF ReadSecond, Answers, Held, devVars, ctlVars
    <2>6. QED
      BY <1>5, <1>b, <2>1, <2>4, <2>5 DEF ReadSecond, Answer, Serves, Serving,
         Same, Held, devVars, ctlVars
  <1>6. CASE NoHandler(k)
    BY <1>6, DecideServes DEF NoHandler, AtKind, TypeOK, AppTypes
  <1>7. CASE BridgeDenies(k)
    BY <1>7, DecideServes DEF BridgeDenies, AtKind
  <1>8. CASE BridgeCalls(k)
    <2>1. /\ req' \in [Conns -> Requests] /\ \A j \in Conns \ {k} : req'[j] = req[j]
          /\ req'[k] = [req[k] EXCEPT !.st = "handler"] /\ req'[k].st = "handler"
      BY <1>8, AdvanceEffect DEF BridgeCalls, Held
    <2>2. param[req[k].node] \in 0..MaxIds
      BY <1>8 DEF BridgeCalls, AtKind, RequestInv, TypeOK, AppTypes
    <2>3. /\ verdict' \in [Conns -> [id : 0..MaxIds, ok : BOOLEAN]]
          /\ \A j \in Conns \ {k} : verdict'[j] = verdict[j]
          /\ verdict'[k].id = param[req[k].node] /\ ~verdict'[k].ok
      BY <1>8, <2>2 DEF BridgeCalls, TypeOK, ServedTypes
    <2>4. TypeOK'
      BY <1>8, <1>a, <2>1, <2>3 DEF BridgeCalls, TypeOK, DataTypes, ServedTypes,
         devVars, ctlVars
    <2>5. Proceeds(k)
      BY <1>8, <2>1, <2>3 DEF BridgeCalls, AtKind, Proceeds, Held, devVars, ctlVars
    <2>6. lock = k /\ phase \in {"running", "stopping"}
      BY <1>8 DEF BridgeCalls, AtKind, Serving, RequestInv, LockInv, Held
    <2>7. QED
      BY <1>8, <2>1, <2>3, <2>4, <2>5, <2>6 DEF BridgeCalls, AtKind, Serves,
         Same, Held, devVars, ctlVars
  <1>9. ASSUME NEW ok \in BOOLEAN, HandlerReturn(k, ok) PROVE TypeOK' /\ Serves(k)
    BY <1>9, DecideServes DEF HandlerReturn, RequestInv
  <1>10. ASSUME NEW ok \in BOOLEAN, ServePlain(k, ok) PROVE TypeOK' /\ Serves(k)
    <2>1. /\ req' \in [Conns -> Requests]
          /\ \A j \in Conns \ {k} : req'[j] = req[j]
          /\ \/ req[k].late /\ req'[k] = NoRequest
             \/ req'[k] = [req[k] EXCEPT !.st = "answered", !.ok = ok]
          /\ req'[k].st \in {"none", "answered"}
      BY <1>10, AnswerEffect DEF ServePlain
    <2>2. TypeOK'
      BY <1>10, <1>a, <2>1 DEF ServePlain, TypeOK, DataTypes, ServedTypes,
         devVars, ctlVars
    <2>3. Answers(k, ok)
      BY <1>10, <2>1 DEF ServePlain, Answers, devVars, ctlVars
    <2>4. QED
      BY <1>10, <2>1, <2>2, <2>3 DEF ServePlain, Serves, Serving, Same, Held,
         devVars, ctlVars
  <1>11. CASE ServeSelect(k)
    <2>1. req[k].st = "locked" /\ req[k].kind \in SelectKinds
      BY <1>11 DEF ServeSelect, SelectKinds
    <2>2. PICK ok \in BOOLEAN :
            Answer(k, ok) /\ selected' \in [Objs -> Conns \cup {None}]
      <3>1. /\ selected \in [Objs -> Conns \cup {None}]
            /\ [selected EXCEPT ![req[k].node] = k] \in [Objs -> Conns \cup {None}]
        BY DEF TypeOK, DataTypes
      <3>2. \/ Answer(k, TRUE) /\ selected' = [selected EXCEPT ![req[k].node] = k]
            \/ Answer(k, FALSE) /\ selected' = selected
        BY <1>11, Zenon DEF ServeSelect
      <3>3. QED
        BY <3>1, <3>2
    <2>3. TypeOK'
      BY <1>11, <1>a, <1>b, <2>2 DEF ServeSelect, Answer, TypeOK, DataTypes,
         ServedTypes
    <2>4. Answers(k, ok)
      BY <1>11, <1>b, <2>1, <2>2 DEF ServeSelect, Answers, Held, SelectKinds
    <2>5. QED
      BY <1>11, <1>b, <2>1, <2>2, <2>3, <2>4 DEF ServeSelect, Answer, Serves,
         Serving, Same, Held
  <1>12. CASE ServeEditSG(k)
    <2>1. req[k].node \in Targets
      BY DEF TypeOK, ServedTypes, Requests
    <2>2. PICK ok \in BOOLEAN :
            /\ Answer(k, ok) /\ edit' \in Edit
            /\ IF ok THEN edit'.owner = k /\ edit'.group = req[k].node ELSE edit' = edit
      <3>1. CASE edit.owner \in {None, k}
        <4>1. [owner |-> k, group |-> req[k].node, buf |-> None] \in Edit
          BY <2>1 DEF Edit
        <4>2. /\ Answer(k, TRUE)
              /\ edit' = [owner |-> k, group |-> req[k].node, buf |-> None]
          BY <1>12, <3>1 DEF ServeEditSG
        <4>3. edit'.owner = k /\ edit'.group = req[k].node
          BY <4>2
        <4>4. QED
          BY <4>1, <4>2, <4>3
      <3>2. CASE edit.owner \notin {None, k}
        BY <1>12, <3>2 DEF ServeEditSG, TypeOK, DataTypes
      <3>3. QED
        BY <3>1, <3>2
    <2>3. TypeOK'
      BY <1>12, <1>a, <1>b, <2>2 DEF ServeEditSG, Answer, TypeOK, DataTypes,
         ServedTypes, ctlVars
    <2>4. Answers(k, ok)
      BY <1>12, <1>b, <2>2 DEF ServeEditSG, AtKind, Answers, Held
    <2>5. \A j \in Conns \ {k} : Same(j)
      BY <1>12, <1>b, <2>2 DEF ServeEditSG, Same
    <2>6. QED
      BY <1>12, <1>b, <2>2, <2>3, <2>4, <2>5 DEF ServeEditSG, AtKind, Answer,
         Serves, Serving, Held
  <1>13. CASE ServeEditValue(k)
    <2>1. PICK ok \in BOOLEAN :
            /\ Answer(k, ok) /\ edit' \in Edit
            /\ IF ok THEN edit.owner = k /\ edit'.owner = k /\ edit' = [edit EXCEPT !.buf = k]
               ELSE edit' = edit
      BY <1>13 DEF ServeEditValue, TypeOK, DataTypes, Edit
    <2>2. TypeOK'
      BY <1>13, <1>a, <1>b, <2>1 DEF ServeEditValue, Answer, TypeOK, DataTypes,
         ServedTypes, ctlVars
    <2>3. Answers(k, ok)
      BY <1>13, <1>b, <2>1 DEF ServeEditValue, AtKind, Answers, Held
    <2>4. \A j \in Conns \ {k} : Same(j)
      BY <1>13, <1>b, <2>1 DEF ServeEditValue, Same
    <2>5. QED
      BY <1>13, <1>b, <2>1, <2>2, <2>3, <2>4 DEF ServeEditValue, AtKind, Answer,
         Serves, Serving, Held
  <1>14. CASE ServeConfirm(k)
    <2>1. edit.group \in Targets /\ edit.buf \in Conns \cup {None} /\ NoEdit \in Edit /\ NoEdit.owner = None
      BY DEF TypeOK, DataTypes, Edit, NoEdit, Targets
    <2>2. PICK ok \in BOOLEAN :
            /\ Answer(k, ok) /\ edit' \in Edit
            /\ IF ok THEN /\ edit.owner = k /\ edit'.owner = None
                          /\ stored' = [stored EXCEPT ![k] = [group |-> edit.group, val |-> edit.buf]]
               ELSE edit' = edit /\ stored' = stored
      BY <1>14, <2>1 DEF ServeConfirm, TypeOK, DataTypes
    <2>3. /\ stored' \in [Conns -> [group : Targets, val : Conns \cup {None}] \cup {None}]
          /\ stored'[k] = IF ok THEN [group |-> edit.group, val |-> edit.buf] ELSE stored[k]
          /\ \A j \in Conns \ {k} : stored'[j] = stored[j]
      <3>1. [group |-> edit.group, val |-> edit.buf] \in
              [group : Targets, val : Conns \cup {None}]
        BY <2>1
      <3>2. CASE ok
        <4> DEFINE v == [group |-> edit.group, val |-> edit.buf]
        <4>1. v \in [group : Targets, val : Conns \cup {None}] /\ stored' = [stored EXCEPT ![k] = v]
          BY <2>2, <3>1, <3>2
        <4> HIDE DEF v
        <4>2. /\ stored' \in [Conns -> [group : Targets, val : Conns \cup {None}] \cup {None}]
              /\ stored'[k] = v /\ \A j \in Conns \ {k} : stored'[j] = stored[j]
          BY <4>1 DEF TypeOK, ServedTypes
        <4>3. QED
          BY <3>2, <4>2 DEF v
      <3>3. CASE ~ok
        BY <2>2, <3>3 DEF TypeOK, ServedTypes
      <3>4. QED
        BY <3>2, <3>3
    <2>4. TypeOK'
      BY <1>14, <1>a, <1>b, <2>2, <2>3 DEF ServeConfirm, Answer, TypeOK,
         DataTypes, ServedTypes, ctlVars
    <2>5. Answers(k, ok)
      BY <1>14, <1>b, <2>2, <2>3 DEF ServeConfirm, AtKind, Answers, Held
    <2>6. \A j \in Conns \ {k} : Same(j)
      BY <1>14, <1>b, <2>2, <2>3 DEF ServeConfirm, Same
    <2>7. QED
      BY <1>14, <1>b, <2>2, <2>4, <2>5, <2>6 DEF ServeConfirm, AtKind, Answer,
         Serves, Serving, Held
  <1>15. CASE AcceptOperate(k)
    <2>1. /\ req[k].st = "locked" /\ req[k].kind \in OperKinds
          /\ UNCHANGED <<phase, appVars, meas, apc, seen, verdict, selected, edit, stored>>
          /\ lock' = None
      BY <1>15 DEF AcceptOperate, Accept, OperKinds
    <2>2. /\ req' \in [Conns -> Requests] /\ \A j \in Conns \ {k} : req'[j] = req[j]
          /\ req'[k] = [req[k] EXCEPT !.st = "accepted"] /\ req'[k].st = "accepted"
      BY <1>15, AdvanceEffect DEF AcceptOperate
    <2>3. TypeOK'
      BY <1>a, <2>1, <2>2 DEF TypeOK, DataTypes, ServedTypes
    <2>4. Proceeds(k)
      BY <2>1, <2>2 DEF Proceeds
    <2>5. QED
      BY <2>1, <2>2, <2>3, <2>4 DEF Serves, Serving, Same, Held
  <1>16. CASE AcceptTimed(k)
    <2>1. /\ req[k].st = "locked" /\ req[k].kind = "operateAt" /\ Answer(k, TRUE)
          /\ UNCHANGED <<phase, appVars, meas, apc, seen, verdict, selected, edit, stored>>
      BY <1>16 DEF AcceptTimed, Accept
    <2>2. TypeOK'
      BY <1>a, <1>b, <2>1 DEF Answer, TypeOK, DataTypes, ServedTypes
    <2>3. Answers(k, TRUE)
      BY <1>b, <2>1 DEF Answers, Held
    <2>4. QED
      BY <1>b, <2>1, <2>2, <2>3 DEF Answer, Serves, Serving, Same, Held
  <1>17. QED
    BY <1>1, <1>2, <1>3, <1>4, <1>5, <1>6, <1>7, <1>8, <1>9, <1>10, <1>11,
       <1>12, <1>13, <1>14, <1>15, <1>16 DEF ServeStep

-----------------------------------------------------------------------------
(* The steps of the application, and what expires.                         *)

(* A step that leaves the requests alone, and the edit or ends it. *)
LEMMA NothingServed ==
  ASSUME TypeOK, UNCHANGED <<req, seen, verdict, stored>>,
         edit' = edit \/ edit' = NoEdit
  PROVE  /\ \A k \in Conns : Served(k)
         /\ edit' \in Edit
  <1>1. NoEdit.owner = None /\ NoEdit \in Edit
    BY DEF NoEdit, Edit, Targets
  <1>2. QED
    BY <1>1, ServerAssumption DEF Served, Same, TypeOK, DataTypes

(* Every step of the application keeps the server's invariant. *)
LEMMA AppKeeps ==
  ASSUME TypeOK, ServerInv, UNCHANGED clientVars,
         NEW a \in Apps, AppCall(a) \/ AppStep(a)
  PROVE  TypeOK' /\ ServerInv' /\ \A k \in Conns : Served(k)
  <1> USE ServerAssumption DEF ServerInv
  <1> DEFINE Quiet == UNCHANGED <<req, seen, verdict, devVars>>
  <1>a. ASSUME Quiet, AppTypes', UNCHANGED selected,
               lock' \in Apps \cup Conns \cup {None}, meas' \in [f : {0, 1}, t : {0, 1}]
        PROVE  TypeOK' /\ \A k \in Conns : Served(k)
    BY <1>a, NothingServed DEF TypeOK, DataTypes, ServedTypes, CallTypes,
       clientVars, devVars, ctlVars
  <1>1. ASSUME NEW n \in workload.nodes, SetHandler(a, n)
        PROVE  TypeOK' /\ ServerInv' /\ \A k \in Conns : Served(k)
    <2>1. n \in Nodes /\ idGen + 1 \in 0..MaxIds
      <3>1. workload \in [calls : SUBSET Calls, nodes : SUBSET (Attrs \cup Objs),
                          models : SUBSET ControlModels]
        BY DEF TypeOK, CallTypes
      <3>2. QED
        BY <1>1, <3>1 DEF Nodes, SetHandler, TypeOK, AppTypes
    <2>2. AppTypes'
      BY <1>1, <2>1 DEF SetHandler, Goto, TypeOK, AppTypes
    <2>3. TypeOK' /\ \A k \in Conns : Served(k)
      BY <1>1, <1>a, <2>2 DEF SetHandler, TypeOK, DataTypes, devVars, ctlVars
    <2>4. InstallInv'
      BY <1>1, <2>1 DEF SetHandler, Goto, MayInstall, InstallInv, TypeOK,
         AppTypes
    <2>5. LockInv' /\ MeasInv' /\ RequestInv'
      BY <1>1 DEF SetHandler, Goto, MayInstall, LockInv, MeasInv, RequestInv,
         Serving, TypeOK, AppTypes, Unlocking
    <2>6. QED
      BY <2>3, <2>4, <2>5
  <1>2. CASE StoreCallback(a)
    <2>1. /\ inst[a].node \in Nodes /\ inst[a].id = idGen /\ idGen \in Ids
          /\ \A n \in Nodes : param[n] # idGen
      BY <1>2 DEF StoreCallback, InstallInv, TypeOK, AppTypes, Ids
    <2>2. AppTypes'
      BY <1>2, <2>1 DEF StoreCallback, Goto, TypeOK, AppTypes
    <2>3. TypeOK' /\ \A k \in Conns : Served(k)
      BY <1>2, <1>a, <2>2 DEF StoreCallback, TypeOK, DataTypes, devVars, ctlVars
    <2>4. InstallInv'
      BY <1>2, <2>1 DEF StoreCallback, Goto, InstallInv, TypeOK, AppTypes
    <2>5. LockInv' /\ MeasInv' /\ RequestInv'
      BY <1>2 DEF StoreCallback, Goto, LockInv, MeasInv, RequestInv, Serving,
         TypeOK, AppTypes, Unlocking
    <2>6. QED
      BY <2>3, <2>4, <2>5
  <1>3. CASE InstallCallback(a)
    <2>1. /\ inst[a].node \in Nodes /\ inst[a].id = idGen /\ idGen \in Ids
          /\ callbacks[idGen] = inst[a].node
          /\ \A b \in Apps : b # a => apc[b] = "idle"
          /\ phase \in {"created", "stopped"}
      BY <1>3 DEF InstallCallback, InstallInv, TypeOK, AppTypes, Ids
    <2>2. NoInst \in [node : Nodes \cup {None}, id : 0..MaxIds]
      BY DEF NoInst
    <2>3. AppTypes'
      BY <1>3, <2>1, <2>2 DEF InstallCallback, Goto, TypeOK, AppTypes
    <2>4. TypeOK' /\ \A k \in Conns : Served(k)
      BY <1>3, <1>a, <2>3 DEF InstallCallback, TypeOK, DataTypes, devVars, ctlVars
    <2>5. InstallInv'
      BY <1>3, <2>1 DEF InstallCallback, Goto, InstallInv, TypeOK, AppTypes
    <2>6. LockInv' /\ MeasInv'
      BY <1>3 DEF InstallCallback, Goto, LockInv, MeasInv, TypeOK, AppTypes,
         Unlocking
    <2>7. RequestInv'
      BY <1>3, <2>1 DEF InstallCallback, RequestInv, Serving
    <2>8. QED
      BY <2>4, <2>5, <2>6, <2>7
  <1>4. ASSUME NEW p \in BOOLEAN, SetWriteAccessPolicy(a, p)
        PROVE  TypeOK' /\ ServerInv' /\ \A k \in Conns : Served(k)
    <2>1. AppTypes'
      BY <1>4 DEF SetWriteAccessPolicy, TypeOK, AppTypes
    <2>2. TypeOK' /\ \A k \in Conns : Served(k)
      BY <1>4, <1>a, <2>1 DEF SetWriteAccessPolicy, TypeOK, DataTypes, devVars, ctlVars
    <2>3. QED
      BY <1>4, <2>2 DEF SetWriteAccessPolicy, InstallInv, LockInv, MeasInv,
         RequestInv, Serving
  <1>5. CASE Start(a) \/ Destroy(a)
    <2>1. AppTypes'
      BY <1>5 DEF Start, Destroy, TypeOK, AppTypes, appVars
    <2>2. TypeOK' /\ \A k \in Conns : Served(k)
      BY <1>5, <1>a, <2>1 DEF Start, Destroy, TypeOK, DataTypes, devVars, ctlVars
    <2>3. InstallInv'
      BY <1>5 DEF Start, Destroy, MayInstall, InstallInv, appVars
    <2>4. LockInv' /\ MeasInv' /\ RequestInv'
      BY <1>5 DEF Start, Destroy, MayInstall, LockInv, MeasInv, RequestInv,
         Serving, appVars
    <2>5. QED
      BY <2>2, <2>3, <2>4
  <1>6. ASSUME NEW label \in {"stop", "destroy"}, Stop(a, label)
        PROVE  TypeOK' /\ ServerInv' /\ \A k \in Conns : Served(k)
    <2>1. AppTypes'
      BY <1>6 DEF Stop, Goto, TypeOK, AppTypes, appVars
    <2>2. ASSUME NEW k \in Conns
          PROVE  /\ req'[k] \in Requests /\ req'[k].kind = req[k].kind
                 /\ req'[k].node = req[k].node
                 /\ IF req[k].st = "sent"
                    THEN /\ req'[k] = [req[k] EXCEPT !.st = "answered", !.ok = FALSE]
                         /\ req'[k].st = "answered"
                    ELSE req'[k] = req[k]
      <3>1. req[k] \in Requests
        BY DEF TypeOK, ServedTypes
      <3>2. QED
        BY <1>6, <3>1 DEF Stop, Requests
    <2>3. req' \in [Conns -> Requests]
      BY <1>6, <2>2 DEF Stop
    <2>4. TypeOK'
      BY <1>6, <2>1, <2>3 DEF Stop, TypeOK, DataTypes, ServedTypes, CallTypes,
         clientVars, devVars, ctlVars
    <2>5. ASSUME NEW k \in Conns PROVE Served(k)
      <3>1. CASE req[k].st = "sent"
        <4>1. Answers(k, FALSE)
          BY <1>6, <2>2, <3>1 DEF Stop, Answers, devVars, ctlVars
        <4>2. QED
          BY <4>1 DEF Served
      <3>2. CASE req[k].st # "sent"
        BY <1>6, <2>2, <3>2 DEF Stop, Served, Same, devVars, ctlVars
      <3>3. QED
        BY <3>1, <3>2
    <2>6. InstallInv'
      BY <1>6 DEF Stop, Goto, InstallInv, TypeOK, AppTypes, appVars
    <2>7. LockInv' /\ MeasInv'
      BY <1>6, <2>2 DEF Stop, Goto, LockInv, MeasInv, Held, Unlocking, TypeOK,
         AppTypes
    <2>8. RequestInv'
      <3>1. \A k \in Conns : /\ req'[k].kind = req[k].kind /\ req'[k].node = req[k].node
                              /\ req'[k].st \in {"answered", req[k].st}
        BY <2>2
      <3>2. phase' = "stopping" /\ UNCHANGED <<param, meas, seen, verdict>>
        BY <1>6 DEF Stop, appVars
      <3>3. QED
        BY <3>1, <3>2 DEF RequestInv, Serving
    <2>9. QED
      BY <2>4, <2>5, <2>6, <2>7, <2>8
  <1>7. CASE StopReturn(a)
    <2>1. AppTypes'
      BY <1>7 DEF StopReturn, Goto, TypeOK, AppTypes, appVars
    <2>2. ASSUME NEW k \in Conns
          PROVE  /\ req'[k] \in Requests /\ req'[k].kind = req[k].kind
                 /\ req'[k].node = req[k].node
                 /\ IF req[k].st = "accepted"
                    THEN /\ req'[k] = [req[k] EXCEPT !.st = "answered", !.ok = FALSE]
                         /\ req'[k].st = "answered"
                    ELSE req'[k] = req[k]
      <3>1. req[k] \in Requests
        BY DEF TypeOK, ServedTypes
      <3>2. QED
        BY <1>7, <3>1 DEF StopReturn, Closed, Requests
    <2>3. /\ req' \in [Conns -> Requests] /\ UNCHANGED <<appVars, lock, meas, seen, verdict, stored>>
          /\ edit' = NoEdit /\ NoEdit \in Edit /\ NoEdit.owner = None
          /\ selected' \in [Objs -> Conns \cup {None}]
      BY <1>7, <2>2 DEF StopReturn, Closed, NoEdit, Edit, Targets
    <2>4. TypeOK'
      BY <2>1, <2>3 DEF TypeOK, DataTypes, ServedTypes, CallTypes, clientVars
    <2>5. ASSUME NEW k \in Conns PROVE Served(k)
      <3>1. CASE req[k].st = "accepted"
        <4>1. Answers(k, FALSE)
          BY <2>2, <2>3, <3>1 DEF Answers, RequestInv, OperKinds
        <4>2. QED
          BY <4>1 DEF Served
      <3>2. CASE req[k].st # "accepted"
        BY <2>2, <2>3, <3>2 DEF Served, Same
      <3>3. QED
        BY <3>1, <3>2
    <2>6. InstallInv'
      BY <1>7 DEF StopReturn, Goto, InstallInv, TypeOK, AppTypes, appVars
    <2>7. LockInv' /\ MeasInv'
      BY <1>7, <2>2 DEF StopReturn, Goto, LockInv, MeasInv, Held, Unlocking,
         TypeOK, AppTypes
    <2>8. RequestInv'
      <3>1. \A k \in Conns : /\ req'[k].kind = req[k].kind /\ req'[k].node = req[k].node
                              /\ req'[k].st \in {"answered", req[k].st}
                              /\ ~Serving(k)
        BY <1>7, <2>2 DEF StopReturn, Closed
      <3>2. UNCHANGED <<param, meas, seen, verdict>>
        BY <2>3 DEF appVars
      <3>3. QED
        BY <3>1, <3>2 DEF RequestInv, Serving
    <2>9. QED
      BY <2>4, <2>5, <2>6, <2>7, <2>8
  <1>8. CASE LockDataModel(a)
    <2>1. AppTypes'
      BY <1>8 DEF LockDataModel, Goto, TypeOK, AppTypes, appVars, Unlocking
    <2>2. TypeOK' /\ \A k \in Conns : Served(k)
      BY <1>8, <1>a, <2>1 DEF LockDataModel, TypeOK, DataTypes, devVars, ctlVars
    <2>3. InstallInv'
      BY <1>8 DEF LockDataModel, Goto, InstallInv, TypeOK, AppTypes, appVars
    <2>4. LockInv' /\ MeasInv' /\ RequestInv'
      BY <1>8 DEF LockDataModel, Goto, LockInv, MeasInv, RequestInv, Serving,
         Unlocking, Held, TypeOK, AppTypes, appVars
    <2>5. QED
      BY <2>2, <2>3, <2>4
  <1>9. CASE UpdateFloatAttributeValue(a)
    <2>1. AppTypes'
      BY <1>9 DEF UpdateFloatAttributeValue, Goto, TypeOK, AppTypes, appVars,
         Unlocking
    <2>2. meas' \in [f : {0, 1}, t : {0, 1}] /\ meas'.f = 1 - meas.f /\ meas'.t = meas.t
      BY <1>9 DEF UpdateFloatAttributeValue, TypeOK, DataTypes
    <2>3. TypeOK' /\ \A k \in Conns : Served(k)
      BY <1>9, <1>a, <2>1, <2>2 DEF UpdateFloatAttributeValue, TypeOK,
         DataTypes, devVars, ctlVars
    <2>4. lock = a /\ \A b \in Apps : apc[b] # "time"
      BY <1>9 DEF UpdateFloatAttributeValue, LockInv, Unlocking
    <2>5. InstallInv' /\ LockInv'
      BY <1>9 DEF UpdateFloatAttributeValue, Goto, InstallInv, LockInv,
         Unlocking, TypeOK, AppTypes, appVars
    <2>6. MeasInv'
      BY <1>9, <2>2, <2>4 DEF UpdateFloatAttributeValue, Goto, MeasInv, TypeOK,
         AppTypes, DataTypes
    <2>7. RequestInv'
      BY <1>9, <2>4 DEF UpdateFloatAttributeValue, RequestInv, LockInv, Serving,
         Held, appVars
    <2>8. QED
      BY <2>3, <2>5, <2>6, <2>7
  <1>10. CASE UpdateUTCTimeAttributeValue(a)
    <2>1. AppTypes'
      BY <1>10 DEF UpdateUTCTimeAttributeValue, Goto, TypeOK, AppTypes, appVars,
         Unlocking
    <2>2. meas' \in [f : {0, 1}, t : {0, 1}] /\ meas'.f = meas.f /\ meas'.t = 1 - meas.t
      BY <1>10 DEF UpdateUTCTimeAttributeValue, TypeOK, DataTypes
    <2>3. TypeOK' /\ \A k \in Conns : Served(k)
      BY <1>10, <1>a, <2>1, <2>2 DEF UpdateUTCTimeAttributeValue, TypeOK,
         DataTypes, devVars, ctlVars
    <2>4. lock = a /\ \A b \in Apps : b # a => apc[b] # "time"
      BY <1>10 DEF UpdateUTCTimeAttributeValue, LockInv, Unlocking
    <2>5. InstallInv' /\ LockInv'
      BY <1>10 DEF UpdateUTCTimeAttributeValue, Goto, InstallInv, LockInv,
         Unlocking, TypeOK, AppTypes, appVars
    <2>6. MeasInv'
      BY <1>10, <2>2, <2>4 DEF UpdateUTCTimeAttributeValue, Goto, MeasInv,
         TypeOK, AppTypes, DataTypes
    <2>7. RequestInv'
      BY <1>10, <2>2 DEF UpdateUTCTimeAttributeValue, RequestInv, Serving,
         appVars
    <2>8. QED
      BY <2>3, <2>5, <2>6, <2>7
  <1>11. CASE UnlockDataModel(a)
    <2>1. AppTypes'
      BY <1>11 DEF UnlockDataModel, Goto, TypeOK, AppTypes, appVars
    <2>2. TypeOK' /\ \A k \in Conns : Served(k)
      BY <1>11, <1>a, <2>1 DEF UnlockDataModel, TypeOK, DataTypes, devVars, ctlVars
    <2>3. InstallInv'
      BY <1>11 DEF UnlockDataModel, Goto, InstallInv, TypeOK, AppTypes, appVars
    <2>4. LockInv' /\ MeasInv' /\ RequestInv'
      BY <1>11 DEF UnlockDataModel, Goto, LockInv, MeasInv, RequestInv, Serving,
         Unlocking, Held, TypeOK, AppTypes, appVars
    <2>5. QED
      BY <2>2, <2>3, <2>4
  <1>12. QED
    BY <1>1, <1>2, <1>3, <1>4, <1>5, <1>6, <1>7, <1>8, <1>9, <1>10, <1>11
    DEF AppCall, AppStep

(* An expired selection or edit keeps it too. *)
LEMMA ExpiryKeeps ==
  ASSUME TypeOK, ServerInv, UNCHANGED clientVars,
         EditTimeout \/ \E o \in Objs : SelectTimeout(o)
  PROVE  TypeOK' /\ ServerInv' /\ \A k \in Conns : Served(k)
  <1>1. /\ UNCHANGED <<phase, appVars, lock, meas, apc, req, seen, verdict, stored>>
        /\ edit' = edit \/ edit' = NoEdit
        /\ selected' \in [Objs -> Conns \cup {None}]
    BY DEF EditTimeout, SelectTimeout, TypeOK, DataTypes, ctlVars
  <1>2. edit' \in Edit /\ \A k \in Conns : Served(k)
    BY <1>1, NothingServed
  <1>3. TypeOK'
    BY <1>1, <1>2 DEF TypeOK, AppTypes, DataTypes, ServedTypes, CallTypes,
       clientVars, appVars
  <1>4. ServerInv'
    BY <1>1 DEF ServerInv, InstallInv, LockInv, MeasInv, RequestInv, Serving,
       appVars
  <1>5. QED
    BY <1>2, <1>3, <1>4

(* A step of an operation keeps it too: the request that it answers is one *)
(* that was accepted.                                                      *)
LEMMA OperKeeps ==
  ASSUME BaseInv, ControlInv, UNCHANGED clientVars, NEW o \in Objs, OperStep(o)
  PROVE  TypeOK' /\ ServerInv' /\ \A k \in Conns : Served(k)
  <1>1. CASE AnswerOperate(o)
    <2>0. oper[o].by \in Conns
      BY <1>1 DEF AnswerOperate, Executes, ControlInv, OperInv
    <2> PICK k \in Conns : k = oper[o].by
      BY <2>0
    <2>1. req[k].st = "accepted" /\ req[k].kind \in OperKinds
      BY <1>1 DEF AnswerOperate, Executes, ControlInv, OperInv, BaseInv, ServerInv,
         RequestInv
    <2>2. /\ UNCHANGED <<phase, appVars, lock, meas, apc, seen, verdict, selected, edit, stored>>
          /\ req' = [req EXCEPT ![k] = IF @.late THEN NoRequest
                                       ELSE [@ EXCEPT !.st = "answered", !.ok = TRUE]]
      BY <1>1 DEF AnswerOperate
    <2>3. /\ req' \in [Conns -> Requests]
          /\ \A j \in Conns \ {k} : req'[j] = req[j]
          /\ \/ req[k].late /\ req'[k] = NoRequest
             \/ req'[k] = [req[k] EXCEPT !.st = "answered", !.ok = TRUE]
          /\ req'[k].st \in {"none", "answered"}
      BY <2>1, <2>2, AnswerEffect DEF BaseInv
    <2>4. TypeOK'
      BY <2>2, <2>3 DEF BaseInv, TypeOK, AppTypes, DataTypes, ServedTypes,
         CallTypes, clientVars, appVars
    <2>5. Answers(k, TRUE)
      BY <2>1, <2>2, <2>3 DEF Answers, OperKinds
    <2>6. Serves(k)
      <3>1. \A j \in Conns \ {k} : Same(j)
        BY <2>2, <2>3 DEF Same
      <3>2. req[k].st \notin Held /\ req'[k].st \notin Held /\ ~(Serving(k))'
        BY <2>1, <2>3 DEF Serving, Held
      <3>3. req'[k].st \notin {"accepted", "half", "handler"}
        BY <2>3
      <3>4. QED
        BY <2>2, <2>5, <3>1, <3>2, <3>3 DEF Serves
    <2>7. QED
      BY <2>1, <2>4, <2>6, ServesKeeps DEF BaseInv
  <1>2. CASE ~AnswerOperate(o)
    <2>1. /\ UNCHANGED <<phase, appVars, lock, meas, apc, req, seen, verdict, edit, stored>>
          /\ selected' \in [Objs -> Conns \cup {None}]
      BY <1>2 DEF OperStep, TimeReached, OperateUnhandled, ControlDenied,
         ControlCalls, ControlWaits, ControlReturns, Finish, BaseInv, TypeOK,
         DataTypes
    <2>2. edit' \in Edit /\ \A j \in Conns : Served(j)
      BY <2>1, NothingServed DEF BaseInv
    <2>3. TypeOK'
      BY <2>1, <2>2 DEF BaseInv, TypeOK, AppTypes, DataTypes, ServedTypes,
         CallTypes, clientVars, appVars
    <2>4. ServerInv'
      BY <2>1 DEF BaseInv, ServerInv, InstallInv, LockInv, MeasInv, RequestInv,
         Serving, appVars
    <2>5. QED
      BY <2>2, <2>3, <2>4
  <1>3. QED
    BY <1>1, <1>2

(* What is not about operations is kept by every step of the server. *)
LEMMA ServerStep ==
  ASSUME BaseInv, ControlInv, ServerNext, UNCHANGED clientVars
  PROVE  BaseInv' /\ \A k \in Conns : Served(k)
  <1>1. TypeOK' /\ ServerInv' /\ \A k \in Conns : Served(k)
    <2>1. ASSUME NEW k \in Conns, Serve(k) \/ ServeLock(k) \/ ServeStep(k)
          PROVE  TypeOK' /\ ServerInv' /\ \A j \in Conns : Served(j)
      <3>1. TypeOK' /\ Serves(k)
        BY <2>1, LibraryServes DEF BaseInv
      <3>2. QED
        BY <3>1, ServesKeeps DEF BaseInv
    <2>2. QED
      BY <2>1, AppKeeps, ExpiryKeeps, OperKeeps DEF BaseInv, ServerNext
  <1>2. \A k \in Conns : ClientInv(k)'
    BY <1>1, ServedKeeps DEF BaseInv
  <1>3. QED
    BY <1>1, <1>2 DEF BaseInv, clientVars

-----------------------------------------------------------------------------
(* Operations.                                                             *)

(* Whether the request of k moves without becoming, or having been, an     *)
(* operation that is accepted.                                             *)
NoOperation(k) ==
  \/ req'[k] = req[k]
  \/ /\ req[k].st # "accepted" /\ req'[k].st # "accepted"
     /\ req'[k].st = "answered" /\ req'[k].ok => req[k].kind \notin OperKinds

(* A step of the server that leaves the operations alone. *)
LEMMA QuietKeeps ==
  ASSUME BaseInv, ControlInv, UNCHANGED <<oper, fate, call>>,
         \A k \in Conns : Served(k) /\ NoOperation(k),
         \A o \in Objs : oper[o].st # "none" =>
           phase' \in {"running", "stopping"} /\ param'[o] = param[o]
  PROVE  ControlInv'
  <1>1. OperTypes' /\ OneOper'
    BY DEF ControlInv, OperTypes, OneOper
  <1>2. ASSUME NEW o \in Objs PROVE OperInv(o)'
    <2>1. OperInv(o) /\ oper' = oper /\ fate' = fate
      BY DEF ControlInv
    <2>2. oper[o].st = "accepted" => req'[oper[o].by] = req[oper[o].by]
      BY <2>1 DEF OperInv, NoOperation
    <2>3. QED
      BY <2>1, <2>2 DEF OperInv
  <1>3. ASSUME NEW k \in Conns PROVE FateInv(k)'
    <2>1. /\ FateInv(k) /\ ClientInv(k) /\ Served(k) /\ NoOperation(k) /\ TypeOK
          /\ oper' = oper /\ fate' = fate /\ call' = call
      BY DEF ControlInv, BaseInv
    <2>2. CASE req'[k] = req[k]
      BY <2>1, <2>2 DEF FateInv, Answered
    <2>3. CASE req'[k] # req[k]
      <3>1. req'[k].st # "accepted" /\ req[k].st # "accepted"
        BY <2>1, <2>3 DEF NoOperation
      <3>2. req[k].kind \in OperKinds /\ req[k].st \in {"sent", "waiting"} \cup Held
              => fate[k] = "none"
        BY <2>1 DEF FateInv, BaseInv, ServerInv, RequestInv, Held, OperKinds
      <3>3. call[k].pc = "operate" => req[k].kind \in OperKinds /\ ~req[k].late
        BY <2>1 DEF ClientInv, CallInv, StageInv, OpsAt, KindAt
      <3>4. CASE Proceeds(k)
        <4>1. /\ req'[k].st \in {"waiting"} \cup Held /\ req'[k].kind = req[k].kind
              /\ req[k].st \in {"sent", "waiting"} \cup Held
          BY <2>1, <3>1, <3>4, RequestFields DEF Proceeds, Held
        <4>2. req'[k].st \notin {"answered", "accepted"}
          BY <4>1 DEF Held
        <4>3. QED
          BY <2>1, <3>2, <4>1, <4>2 DEF FateInv, Answered
      <3>5. ASSUME NEW ok \in BOOLEAN, Answers(k, ok) PROVE FateInv(k)'
        <4>1. req[k].st \in {"sent", "waiting"} \cup Held
          BY <3>1, <3>5 DEF Answers
        <4>2. CASE req[k].late /\ req'[k].st = "none"
          BY <2>1, <3>3, <4>2 DEF FateInv, Answered
        <4>3. CASE /\ req'[k].st = "answered" /\ req'[k].ok = ok
                   /\ req'[k].kind = req[k].kind
          <5>1. call[k].pc = "operate" => fate[k] = "none" /\ ~req'[k].ok
            BY <2>1, <2>3, <3>2, <3>3, <4>1, <4>3 DEF NoOperation
          <5>2. QED
            BY <2>1, <4>3, <5>1 DEF FateInv, Answered
        <4>4. QED
          BY <2>1, <3>5, <4>2, <4>3, RequestFields
      <3>6. Proceeds(k) \/ \E ok \in BOOLEAN : Answers(k, ok)
        BY <2>1, <2>3 DEF Served, Same
      <3>7. QED
        BY <3>4, <3>5, <3>6
    <2>4. QED
      BY <2>2, <2>3
  <1>4. QED
    BY <1>1, <1>2, <1>3 DEF ControlInv

(* An operation that is accepted. *)
LEMMA AcceptKeeps ==
  ASSUME BaseInv, ControlInv, UNCHANGED clientVars, NEW k \in Conns,
         AcceptOperate(k) \/ AcceptTimed(k)
  PROVE  ControlInv'
  <1> USE ServerAssumption
  <1> PICK o : o = req[k].node
    OBVIOUS
  <1> PICK st \in {"timed", "accepted"} :
        /\ Accept(k, st)
        /\ IF st = "accepted" THEN req' = [req EXCEPT ![k].st = "accepted"] ELSE Answer(k, TRUE)
    BY DEF AcceptOperate, AcceptTimed
  <1> DEFINE new == [by |-> k, st |-> st, id |-> 0, cur |-> TRUE]
  <1>1. /\ req[k].st = "locked" /\ req[k].kind \in OperKinds /\ o \in Objs
        /\ oper[o].st = "none" /\ fate[k] = "none" /\ phase \in {"running", "stopping"}
    <2>1. req[k].st = "locked" /\ req[k].kind \in OperKinds /\ oper[o].st = "none"
      BY DEF AcceptOperate, AcceptTimed, Accept, OperKinds
    <2>2. QED
      BY <2>1 DEF BaseInv, ServerInv, RequestInv, ControlInv, FateInv, Serving
  <1>2. /\ oper \in [Objs -> Opers] /\ fate \in [Conns -> Fates] /\ req[k] \in Requests
        /\ req \in [Conns -> Requests] /\ new \in Opers /\ TypeOK
    BY DEF ControlInv, OperTypes, BaseInv, TypeOK, ServedTypes, Opers
  <1>3. /\ oper' = [oper EXCEPT ![o] = new] /\ fate' = [fate EXCEPT ![k] = "accepted"]
        /\ UNCHANGED <<phase, param, call>>
    BY DEF Accept, appVars, clientVars
  <1>4. new.by = k /\ new.st = st /\ new.cur
    OBVIOUS
  <1> HIDE DEF new
  <1>5. /\ oper' \in [Objs -> Opers] /\ oper'[o] = new
        /\ \A q \in Objs \ {o} : oper'[q] = oper[q]
        /\ fate' \in [Conns -> Fates] /\ fate'[k] = "accepted"
        /\ \A j \in Conns \ {k} : fate'[j] = fate[j]
    BY <1>1, <1>2, <1>3 DEF Fates
  <1>6. /\ \A j \in Conns \ {k} : req'[j] = req[j]
        /\ IF st = "accepted"
           THEN req'[k].st = "accepted" /\ req'[k].node = o
           ELSE \/ req'[k].st = "none"
                \/ req'[k].st = "answered" /\ req'[k].ok
    <2>1. CASE st = "accepted"
      <3>1. req'[k] = [req[k] EXCEPT !.st = "accepted"] /\ \A j \in Conns \ {k} : req'[j] = req[j]
        BY <1>2, <2>1, AdvanceEffect
      <3>2. QED
        BY <1>2, <2>1, <3>1 DEF Requests
    <2>2. CASE st # "accepted"
      <3>1. /\ \A j \in Conns \ {k} : req'[j] = req[j]
            /\ \/ req[k].late /\ req'[k] = NoRequest
               \/ req'[k] = [req[k] EXCEPT !.st = "answered", !.ok = TRUE]
        BY <1>2, <2>2, AnswerEffect DEF Answer
      <3>2. /\ [req[k] EXCEPT !.st = "answered", !.ok = TRUE].st = "answered"
            /\ [req[k] EXCEPT !.st = "answered", !.ok = TRUE].ok = TRUE
            /\ NoRequest.st = "none"
        BY <1>2 DEF Requests, NoRequest
      <3>3. QED
        BY <2>2, <3>1, <3>2
    <2>3. QED
      BY <2>1, <2>2
  <1>7. \A q \in Objs : oper[q].cur => oper[q].by # k
    BY <1>1 DEF ControlInv, OperInv
  <1>8. OperTypes' /\ OneOper'
    BY <1>4, <1>5, <1>7 DEF ControlInv, OperTypes, OneOper
  <1>9. ASSUME NEW q \in Objs PROVE OperInv(q)'
    <2>1. CASE q = o
      BY <1>1, <1>3, <1>4, <1>5, <1>6, <2>1 DEF OperInv
    <2>2. CASE q # o
      <3>1. oper'[q] = oper[q] /\ OperInv(q) /\ oper[q] \in Opers
        BY <1>2, <1>5, <2>2 DEF ControlInv
      <3>2. oper[q].cur => oper[q].by \in Conns /\ fate'[oper[q].by] = fate[oper[q].by]
        BY <1>5, <1>7, <3>1 DEF OperInv
      <3>3. oper[q].cur => req'[oper[q].by] = req[oper[q].by]
        BY <1>6, <1>7, <3>1, <3>2
      <3>4. QED
        BY <1>1, <1>3, <3>1, <3>2, <3>3 DEF OperInv
    <2>3. QED
      BY <2>1, <2>2
  <1>10. ASSUME NEW j \in Conns PROVE FateInv(j)'
    <2>1. CASE j = k
      <3>1. call[k].op \in {"control", "controlINC"} =>
              /\ call[k].pc \in {"idle", "operate"}
              /\ call[k].ret = "error" => call[k].late
        <4>1. ClientInv(k) /\ call[k].pc \in Locations
          BY DEF BaseInv, TypeOK, CallTypes, Call
        <4>2. QED
          BY <1>1, <4>1 DEF ClientInv, CallInv, StageInv, OpsAt, KindAt, Locations,
             OperKinds, SelectKinds
      <3>2. req'[k].st \notin {"sent", "waiting", "locked"} /\ ~(Answered(k, FALSE))'
        BY <1>6 DEF Answered
      <3>3. req'[k].st = "accepted" => oper'[req'[k].node].st = "accepted" /\ oper'[req'[k].node].by = k
        BY <1>4, <1>5, <1>6
      <3>4. QED
        BY <1>3, <1>5, <2>1, <3>1, <3>2, <3>3 DEF FateInv
    <2>2. CASE j # k
      <3>1. FateInv(j) /\ req'[j] = req[j] /\ fate'[j] = fate[j] /\ call' = call
        BY <1>3, <1>5, <1>6, <2>2 DEF ControlInv
      <3>2. req[j].st = "accepted" => oper'[req[j].node] = oper[req[j].node]
        <4>1. req[j].st = "accepted" => req[j].node \in Objs /\ req[j].node # o
          BY <1>1, <3>1 DEF FateInv, BaseInv, ServerInv, RequestInv
        <4>2. QED
          BY <1>5, <4>1
      <3>3. QED
        BY <3>1, <3>2 DEF FateInv, Answered
    <2>3. QED
      BY <2>1, <2>2
  <1>11. QED
    BY <1>8, <1>9, <1>10 DEF ControlInv

(* An operation that goes on or ends, with its request answered before. *)
LEMMA MoveKeeps ==
  ASSUME BaseInv, ControlInv, NEW o \in Objs, NEW new \in Opers,
         oper[o].st \in {"timed", "due", "handler"}, oper' = [oper EXCEPT ![o] = new],
         \/ new.st = "none" /\ ~new.cur
         \/ /\ new.by = oper[o].by /\ new.cur = oper[o].cur /\ new.st \in {"due", "handler"}
            /\ new.st = "handler" => param[o] # 0 /\ new.id = param[o],
         NEW what \in {"started", "done", "failed"},
         fate' = fate \/ Becomes(o, what), new.st # "none" => fate' = fate \/ what = "started",
         UNCHANGED <<req, call, phase, param>>
  PROVE  ControlInv'
  <1>1. /\ oper \in [Objs -> Opers] /\ fate \in [Conns -> Fates]
        /\ oper' \in [Objs -> Opers] /\ oper'[o] = new
        /\ \A q \in Objs \ {o} : oper'[q] = oper[q]
    BY DEF ControlInv, OperTypes
  <1>2. /\ OperInv(o) /\ oper[o].by \in Conns /\ phase \in {"running", "stopping"}
        /\ oper[o].cur \in BOOLEAN
        /\ oper[o].cur => fate[oper[o].by] \in {"accepted", "started"}
    BY <1>1 DEF ControlInv, OperInv, Opers
  <1>3. /\ fate' \in [Conns -> Fates]
        /\ \A j \in Conns : fate'[j] = fate[j] \/ (oper[o].cur /\ j = oper[o].by /\ fate'[j] = what)
    BY <1>1, <1>2 DEF Becomes, Fates
  <1>4. OneOper'
    BY <1>1, <1>2 DEF ControlInv, OneOper
  <1>5. ASSUME NEW q \in Objs PROVE OperInv(q)'
    <2>1. CASE q = o
      <3>1. oper[o].cur => new.st = "none" \/ fate'[oper[o].by] \in {"accepted", "started"}
        BY <1>2, <1>3
      <3>2. QED
        BY <1>1, <1>2, <2>1, <3>1 DEF OperInv
    <2>2. CASE q # o
      <3>1. oper'[q] = oper[q] /\ OperInv(q) /\ OneOper
        BY <1>1, <2>2 DEF ControlInv
      <3>2. oper[q].cur => oper[q].by \in Conns /\ fate'[oper[q].by] = fate[oper[q].by]
        BY <1>3, <2>2, <3>1 DEF OperInv, OneOper
      <3>3. QED
        BY <1>2, <3>1, <3>2 DEF OperInv
    <2>3. QED
      BY <2>1, <2>2
  <1>6. ASSUME NEW j \in Conns PROVE FateInv(j)'
    <2>1. FateInv(j) /\ UNCHANGED <<req, call>>
      BY DEF ControlInv
    <2>2. req[j].st = "accepted" => oper'[req[j].node] = oper[req[j].node]
      <3>1. req[j].st = "accepted" => req[j].node \in Objs /\ req[j].node # o
        BY <2>1 DEF FateInv, BaseInv, ServerInv, RequestInv
      <3>2. QED
        BY <1>1, <3>1
    <2>3. fate'[j] = fate[j] \/ (fate[j] \in {"accepted", "started"} /\ fate'[j] # "none")
      BY <1>2, <1>3
    <2>4. QED
      BY <2>1, <2>2, <2>3 DEF FateInv, Answered
  <1>7. QED
    BY <1>1, <1>3, <1>4, <1>5, <1>6 DEF ControlInv, OperTypes

(* The answer to an operation that was accepted. *)
LEMMA AnsweredKeeps ==
  ASSUME BaseInv, ControlInv, UNCHANGED clientVars, NEW o \in Objs, AnswerOperate(o)
  PROVE  ControlInv'
  <1>0. OperInv(o) /\ oper[o].st = "accepted" /\ oper[o].by \in Conns
    BY DEF AnswerOperate, Executes, ControlInv, OperInv
  <1> PICK k \in Conns : k = oper[o].by
    BY <1>0
  <1> DEFINE new == [oper[o] EXCEPT !.st = "due"]
  <1>1. /\ oper \in [Objs -> Opers] /\ oper[o] \in Opers /\ TypeOK
        /\ oper' = [oper EXCEPT ![o] = new] /\ UNCHANGED <<phase, param, fate, call>>
        /\ req[k] \in Requests
    BY DEF AnswerOperate, ControlInv, OperTypes, BaseInv, TypeOK, ServedTypes,
       appVars, clientVars
  <1>2. new \in Opers /\ new.by = k /\ new.st = "due" /\ new.cur = oper[o].cur
    BY <1>1 DEF Opers
  <1> HIDE DEF new
  <1>3. /\ oper' \in [Objs -> Opers] /\ oper'[o] = new
        /\ \A q \in Objs \ {o} : oper'[q] = oper[q]
    BY <1>1, <1>2
  <1>4. /\ \A j \in Conns \ {k} : req'[j] = req[j]
        /\ req'[k].st = "none" \/ (req'[k].st = "answered" /\ req'[k].ok)
    <2>1. /\ \A j \in Conns \ {k} : req'[j] = req[j]
          /\ \/ req[k].late /\ req'[k] = NoRequest
             \/ req'[k] = [req[k] EXCEPT !.st = "answered", !.ok = TRUE]
      BY <1>1, AnswerEffect DEF AnswerOperate
    <2>2. /\ [req[k] EXCEPT !.st = "answered", !.ok = TRUE].st = "answered"
          /\ [req[k] EXCEPT !.st = "answered", !.ok = TRUE].ok = TRUE
          /\ NoRequest.st = "none"
      BY <1>1 DEF Requests, NoRequest
    <2>3. QED
      BY <2>1, <2>2
  <1>5. OneOper'
    BY <1>2, <1>3 DEF ControlInv, OneOper
  <1>6. ASSUME NEW q \in Objs PROVE OperInv(q)'
    <2>1. CASE q = o
      BY <1>0, <1>1, <1>2, <1>3, <2>1 DEF OperInv
    <2>2. CASE q # o
      <3>1. oper'[q] = oper[q] /\ OperInv(q) /\ OneOper
        BY <1>3, <2>2 DEF ControlInv
      <3>2. oper[q].st = "accepted" => req'[oper[q].by] = req[oper[q].by]
        BY <1>0, <1>4, <2>2, <3>1 DEF OperInv, OneOper
      <3>3. QED
        BY <1>1, <3>1, <3>2 DEF OperInv
    <2>3. QED
      BY <2>1, <2>2
  <1>7. ASSUME NEW j \in Conns PROVE FateInv(j)'
    <2>1. CASE j = k
      <3>1. fate'[k] = "accepted" /\ FateInv(k)
        BY <1>0, <1>1 DEF OperInv, ControlInv
      <3>2. req'[k].st \notin {"sent", "waiting", "locked", "accepted"} /\ ~(Answered(k, FALSE))'
        BY <1>4 DEF Answered
      <3>3. QED
        BY <1>1, <2>1, <3>1, <3>2 DEF FateInv
    <2>2. CASE j # k
      <3>1. FateInv(j) /\ req'[j] = req[j] /\ UNCHANGED <<fate, call>>
        BY <1>1, <1>4, <2>2 DEF ControlInv
      <3>2. req[j].st = "accepted" => oper'[req[j].node] = oper[req[j].node]
        <4>1. req[j].st = "accepted" => req[j].node \in Objs /\ req[j].node # o
          BY <2>2, <3>1 DEF FateInv, BaseInv, ServerInv, RequestInv
        <4>2. QED
          BY <1>3, <4>1
      <3>3. QED
        BY <3>1, <3>2 DEF FateInv, Answered
    <2>3. QED
      BY <2>1, <2>2
  <1>8. QED
    BY <1>1, <1>3, <1>5, <1>6, <1>7 DEF ControlInv, OperTypes

(* Every step of an operation. *)
LEMMA OperStepKeeps ==
  ASSUME BaseInv, ControlInv, UNCHANGED clientVars, NEW o \in Objs, OperStep(o)
  PROVE  ControlInv'
  <1>t. oper[o] \in Opers /\ param[o] \in 0..MaxIds /\ NoOper \in Opers /\ call' = call
    BY ServerAssumption DEF ControlInv, OperTypes, BaseInv, TypeOK, AppTypes, Nodes,
       NoOper, Opers, clientVars
  <1>1. CASE AnswerOperate(o)
    BY <1>1, AnsweredKeeps
  <1>2. CASE TimeReached(o)
    <2> DEFINE new == [oper[o] EXCEPT !.st = "due"]
    <2>1. /\ oper' = [oper EXCEPT ![o] = new] /\ oper[o].st = "timed"
          /\ UNCHANGED <<req, phase, param, fate>>
      BY <1>2 DEF TimeReached, Executes, appVars
    <2>2. new \in Opers /\ new.by = oper[o].by /\ new.cur = oper[o].cur /\ new.st = "due"
      BY <1>t DEF Opers
    <2> HIDE DEF new
    <2>3. QED
      BY <1>t, <2>1, <2>2, MoveKeeps
  <1>3. ASSUME NEW what \in {"done", "failed"}, Finish(o, what), oper[o].st \in {"due", "handler"}
        PROVE  ControlInv'
    <2>1. /\ oper' = [oper EXCEPT ![o] = NoOper] /\ Becomes(o, what)
          /\ UNCHANGED <<req, phase, param>>
      BY <1>3 DEF Finish, appVars
    <2>2. NoOper.st = "none" /\ ~NoOper.cur
      BY DEF NoOper
    <2>3. QED
      BY <1>3, <1>t, <2>1, <2>2, MoveKeeps
  <1>4. CASE OperateUnhandled(o) \/ ControlDenied(o)
    BY <1>3, <1>4 DEF OperateUnhandled, ControlDenied, Executes
  <1>5. ASSUME NEW result \in {"done", "failed"}, ControlReturns(o, result) PROVE ControlInv'
    BY <1>3, <1>5 DEF ControlReturns
  <1>6. CASE ControlCalls(o)
    <2> DEFINE new == [oper[o] EXCEPT !.st = "handler", !.id = param[o]]
    <2>1. /\ oper' = [oper EXCEPT ![o] = new] /\ oper[o].st = "due" /\ param[o] # 0
          /\ Becomes(o, "started") /\ UNCHANGED <<req, phase, param>>
      BY <1>6 DEF ControlCalls, Executes, appVars
    <2>2. /\ new \in Opers /\ new.by = oper[o].by /\ new.cur = oper[o].cur
          /\ new.st = "handler" /\ new.id = param[o]
      BY <1>t DEF Opers
    <2> HIDE DEF new
    <2>3. QED
      BY <1>t, <2>1, <2>2, MoveKeeps
  <1>7. CASE ControlWaits(o)
    <2> DEFINE new == [oper[o] EXCEPT !.st = "due", !.id = 0]
    <2>1. /\ oper' = [oper EXCEPT ![o] = new] /\ oper[o].st = "handler"
          /\ UNCHANGED <<req, phase, param, fate>>
      BY <1>7 DEF ControlWaits, appVars
    <2>2. new \in Opers /\ new.by = oper[o].by /\ new.cur = oper[o].cur /\ new.st = "due"
      <3>1. 0 \in 0..MaxIds
        BY ServerAssumption
      <3>2. QED
        BY <1>t, <3>1 DEF Opers
    <2> HIDE DEF new
    <2>3. QED
      BY <1>t, <2>1, <2>2, MoveKeeps
  <1>8. QED
    BY <1>1, <1>2, <1>4, <1>5, <1>6, <1>7 DEF OperStep

(* Stop drops the operations that are under way. *)
LEMMA StopKeeps ==
  ASSUME BaseInv, ControlInv, UNCHANGED clientVars, NEW a \in Apps, StopReturn(a)
  PROVE  ControlInv'
  <1>1. /\ \A o \in Objs : oper'[o] = NoOper
        /\ NoOper \in Opers /\ NoOper.st = "none" /\ ~NoOper.cur /\ oper' \in [Objs -> Opers]
    <2>1. 0 \in 0..MaxIds
      BY ServerAssumption
    <2>2. NoOper \in Opers /\ NoOper.st = "none" /\ ~NoOper.cur
      BY <2>1 DEF NoOper, Opers
    <2>3. oper' = [o \in Objs |-> NoOper]
      BY DEF StopReturn, Closed
    <2>4. QED
      BY <2>2, <2>3
  <1>2. /\ fate' \in [Conns -> Fates] /\ call' = call
        /\ \A k \in Conns : fate'[k] = IF fate[k] = "accepted" THEN "dropped" ELSE fate[k]
    BY DEF StopReturn, Closed, ControlInv, OperTypes, Fates, clientVars
  <1>3. OperTypes' /\ OneOper' /\ \A o \in Objs : OperInv(o)'
    BY <1>1, <1>2 DEF OperTypes, OneOper, OperInv
  <1>4. ASSUME NEW k \in Conns PROVE FateInv(k)'
    <2>1. FateInv(k) /\ req[k] \in Requests
      BY DEF ControlInv, BaseInv, TypeOK, ServedTypes
    <2>2. CASE req[k].st = "accepted"
      <3>1. req'[k].st = "answered" /\ ~req'[k].ok
        <4>1. req'[k] = [req[k] EXCEPT !.st = "answered", !.ok = FALSE]
          BY <2>2 DEF StopReturn, Closed
        <4>2. QED
          BY <2>1, <4>1 DEF Requests
      <3>2. fate[k] = "accepted"
        BY <2>1, <2>2 DEF FateInv, BaseInv, ServerInv, RequestInv, ControlInv, OperInv
      <3>3. QED
        BY <1>2, <2>1, <3>1, <3>2 DEF FateInv, Answered
    <2>3. CASE req[k].st # "accepted"
      <3>1. req'[k] = req[k]
        BY <2>3 DEF StopReturn, Closed
      <3>2. QED
        BY <1>2, <2>1, <2>3, <3>1 DEF FateInv, Answered
    <2>4. QED
      BY <2>2, <2>3
  <1>5. QED
    BY <1>3, <1>4 DEF ControlInv

(* A step of the server keeps the inductive invariant. *)
LEMMA ServerKeeps ==
  ASSUME IndInv, ServerNext, UNCHANGED clientVars
  PROVE  IndInv'
  <1>0. BaseInv /\ ControlInv /\ call' = call
    BY DEF IndInv, clientVars
  <1>1. BaseInv' /\ \A k \in Conns : Served(k)
    BY <1>0, ServerStep
  <1>2. ASSUME UNCHANGED <<oper, fate>>, \A k \in Conns : NoOperation(k),
               UNCHANGED <<phase, param>> \/ \A o \in Objs : oper[o].st = "none"
        PROVE  ControlInv'
    BY <1>0, <1>1, <1>2, QuietKeeps DEF ControlInv, OperInv
  <1>3. ASSUME NEW k \in Conns, Serve(k) \/ ServeLock(k) \/ ServeStep(k) PROVE ControlInv'
    <2>1. CASE AcceptOperate(k) \/ AcceptTimed(k)
      BY <1>0, <2>1, AcceptKeeps
    <2>2. CASE ~(AcceptOperate(k) \/ AcceptTimed(k))
      <3>t. req \in [Conns -> Requests] /\ req[k] \in Requests
        BY <1>0 DEF BaseInv, TypeOK, ServedTypes
      <3>1. UNCHANGED <<oper, fate, phase, param>>
        BY <1>3, <2>2 DEF Serve, ServeLock, ServeStep, Refuse, ReadFirst, ReadSecond,
           NoHandler, BridgeDenies, BridgeCalls, HandlerReturn, Decide, ServePlain,
           ServeSelect, ServeEditSG, ServeEditValue, ServeConfirm, devVars, ctlVars,
           appVars
      <3>2. /\ \A j \in Conns \ {k} : req'[j] = req[j]
            /\ req[k].st # "accepted"
            /\ \/ \E st \in {"waiting"} \cup Held : req'[k] = [req[k] EXCEPT !.st = st]
               \/ req'[k] = NoRequest
               \/ req'[k] = [req[k] EXCEPT !.st = "answered", !.ok = FALSE]
               \/ /\ req'[k] = [req[k] EXCEPT !.st = "answered", !.ok = TRUE]
                  /\ req[k].kind \notin OperKinds
        <4>0. ASSUME NEW ok \in BOOLEAN, Answer(k, ok)
              PROVE  /\ \A j \in Conns \ {k} : req'[j] = req[j]
                     /\ \/ req'[k] = NoRequest
                        \/ req'[k] = [req[k] EXCEPT !.st = "answered", !.ok = ok]
          BY <3>t, <4>0 DEF Answer
        <4>1. CASE Serve(k) \/ ServeLock(k) \/ ReadFirst(k) \/ BridgeCalls(k)
          BY <3>t, <4>1 DEF Serve, ServeLock, ReadFirst, BridgeCalls, AtKind, Held
        <4>2. CASE Refuse(k)
          BY <4>0, <4>2 DEF Refuse
        <4>3. CASE ReadSecond(k) \/ NoHandler(k) \/ BridgeDenies(k) \/ \E ok \in BOOLEAN : HandlerReturn(k, ok)
          <5>1. /\ req[k].st \in {"half", "locked", "handler"} /\ req[k].kind \in {"read", "decide"}
                /\ \E ok \in BOOLEAN : Answer(k, ok)
            BY <1>0, <4>3 DEF ReadSecond, NoHandler, BridgeDenies, HandlerReturn,
               Decide, AtKind, BaseInv, ServerInv, RequestInv, TypeOK, AppTypes
          <5>2. QED
            BY <4>0, <5>1 DEF OperKinds
        <4>4. CASE ServeSelect(k) \/ ServeEditSG(k) \/ ServeEditValue(k) \/ ServeConfirm(k)
          <5>1. /\ req[k].st = "locked" /\ \E ok \in BOOLEAN : Answer(k, ok)
                /\ req[k].kind \in {"select", "selectWithValue", "edit", "value", "confirm"}
            BY <4>4 DEF ServeSelect, ServeEditSG, ServeEditValue, ServeConfirm, AtKind
          <5>2. QED
            BY <4>0, <5>1 DEF OperKinds
        <4>5. ASSUME NEW ok \in BOOLEAN, ServePlain(k, ok)
              PROVE  /\ \A j \in Conns \ {k} : req'[j] = req[j]
                     /\ req[k].st # "accepted" /\ req[k].kind \notin OperKinds
                     /\ \/ req'[k] = NoRequest
                        \/ req'[k] = [req[k] EXCEPT !.st = "answered", !.ok = ok]
          BY <3>t, <4>5 DEF ServePlain, OperKinds
        <4>6. QED
          BY <1>3, <2>2, <4>1, <4>2, <4>3, <4>4, <4>5 DEF ServeStep
      <3>3. NoOperation(k)
        <4>1. /\ \A st \in {"waiting"} \cup Held : [req[k] EXCEPT !.st = st].st = st
              /\ \A ok \in BOOLEAN : /\ [req[k] EXCEPT !.st = "answered", !.ok = ok].st = "answered"
                                      /\ [req[k] EXCEPT !.st = "answered", !.ok = ok].ok = ok
              /\ NoRequest.st = "none"
          BY <3>t DEF Requests, NoRequest
        <4>2. \/ req'[k].st \in {"waiting", "none"} \cup Held
              \/ req'[k].st = "answered" /\ req'[k].ok = FALSE
              \/ req'[k].st = "answered" /\ req[k].kind \notin OperKinds
          BY <3>2, <4>1
        <4>3. QED
          BY <3>2, <4>2 DEF NoOperation, Held
      <3>4. QED
        BY <1>2, <3>1, <3>2, <3>3 DEF NoOperation
    <2>3. QED
      BY <2>1, <2>2
  <1>4. ASSUME NEW a \in Apps, AppCall(a) \/ AppStep(a) PROVE ControlInv'
    <2>1. CASE StopReturn(a)
      BY <1>0, <2>1, StopKeeps
    <2>2. ASSUME NEW label \in {"stop", "destroy"}, Stop(a, label) PROVE ControlInv'
      <3>1. /\ UNCHANGED <<oper, fate, param>> /\ phase' = "stopping"
        BY <2>2 DEF Stop, devVars, ctlVars, appVars
      <3>2. ASSUME NEW k \in Conns PROVE NoOperation(k)
        <4>1. req[k] \in Requests
          BY <1>0 DEF BaseInv, TypeOK, ServedTypes
        <4>2. QED
          BY <2>2, <4>1 DEF Stop, NoOperation, Requests
      <3>3. QED
        BY <1>0, <1>1, <3>1, <3>2, QuietKeeps
    <2>3. CASE \/ LockDataModel(a) \/ UpdateFloatAttributeValue(a)
               \/ UpdateUTCTimeAttributeValue(a) \/ UnlockDataModel(a)
      <3>1. UNCHANGED <<oper, fate, phase, param, req>>
        BY <2>3 DEF LockDataModel, UpdateFloatAttributeValue,
           UpdateUTCTimeAttributeValue, UnlockDataModel, devVars, ctlVars, appVars
      <3>2. QED
        BY <1>2, <3>1 DEF NoOperation
    <2>4. CASE \/ \E n \in workload.nodes : SetHandler(a, n)
               \/ \E policyIs \in BOOLEAN : SetWriteAccessPolicy(a, policyIs)
               \/ Start(a) \/ Destroy(a) \/ StoreCallback(a) \/ InstallCallback(a)
      <3>1. UNCHANGED <<oper, fate, req>> /\ phase \in {"created", "stopped"}
        BY <1>0, <2>4 DEF SetHandler, SetWriteAccessPolicy, Start, Destroy, StoreCallback,
           InstallCallback, MayInstall, devVars, ctlVars, BaseInv, ServerInv, InstallInv
      <3>2. \A o \in Objs : oper[o].st = "none"
        BY <1>0, <3>1 DEF ControlInv, OperInv
      <3>3. QED
        BY <1>2, <3>1, <3>2 DEF NoOperation
    <2>5. QED
      BY <1>4, <2>1, <2>2, <2>3, <2>4 DEF AppCall, AppStep
  <1>5. ASSUME EditTimeout \/ \E o \in Objs : SelectTimeout(o) PROVE ControlInv'
    <2>1. UNCHANGED <<oper, fate, phase, param, req>>
      BY <1>5 DEF EditTimeout, SelectTimeout, ctlVars, appVars
    <2>2. \A k \in Conns : NoOperation(k)
      BY <2>1 DEF NoOperation
    <2>3. QED
      BY <1>2, <2>1, <2>2
  <1>6. ControlInv'
    <2>1. ASSUME NEW o \in Objs, OperStep(o) PROVE ControlInv'
      BY <1>0, <2>1, OperStepKeeps
    <2>2. QED
      BY <1>3, <1>4, <1>5, <2>1 DEF ServerNext
  <1>7. QED
    BY <1>1, <1>6 DEF IndInv

-----------------------------------------------------------------------------
(* The steps of a client.                                                  *)

(* A step of the client of connection k: the server is left alone, and the *)
(* request too while it is being served.                                   *)
Asks(k) ==
  /\ UNCHANGED <<workload, phase, appVars, lock, meas, apc, selected, edit>>
  /\ \A j \in Conns \ {k} :
       /\ req'[j] = req[j] /\ seen'[j] = seen[j] /\ verdict'[j] = verdict[j]
       /\ stored'[j] = stored[j] /\ call'[j] = call[j] /\ live'[j] = live[j]
  /\ IF Serving(k)
     THEN /\ req'[k].st = req[k].st /\ req'[k].kind = req[k].kind
          /\ req'[k].node = req[k].node
          /\ seen'[k] = seen[k] /\ verdict'[k] = verdict[k]
     ELSE ~(Serving(k))'
  /\ req'[k].kind = "decide" => req'[k].node \in Nodes
  /\ req'[k].kind \in SelectKinds \cup OperKinds => req'[k].node \in Objs
  /\ req'[k].st = "accepted" => req'[k].kind \in OperKinds

(* Such a step keeps everything but what concerns this client. *)
LEMMA AskKeeps ==
  ASSUME NEW k \in Conns, IndInv, Asks(k), ServedTypes', CallTypes', twice' \in BOOLEAN,
         ~twice', ClientInv(k)'
  PROVE  BaseInv'
  <1> USE ServerAssumption DEF IndInv, BaseInv, ServerInv, Asks, deviceVars, appVars
  <1>1. TypeOK'
    BY DEF TypeOK, AppTypes, DataTypes
  <1>2. InstallInv' /\ MeasInv'
    BY DEF InstallInv, MeasInv
  <1>3. LockInv'
    BY DEF LockInv, Serving, Held
  <1>4. RequestInv'
    BY DEF RequestInv, Serving
  <1>5. ASSUME NEW j \in Conns, j # k PROVE ClientInv(j)'
    BY <1>5 DEF ClientInv, CallInv, StageInv, OutcomeInv, SnapInv, VerdictInv,
       BlockInv, SettingInv, ObjectInv, Answered, CarriedOut, Past, Stored
  <1>6. QED
    BY <1>1, <1>2, <1>3, <1>4, <1>5

(* It keeps what concerns operations if it leaves them alone, and forgets  *)
(* no request that was accepted.                                           *)
LEMMA AskControl ==
  ASSUME NEW k \in Conns, IndInv, Asks(k), UNCHANGED <<oper, fate>>, FateInv(k)',
         req[k].st = "accepted" => req'[k].st = "accepted" /\ req'[k].node = req[k].node
  PROVE  ControlInv'
  <1> USE DEF IndInv, ControlInv, Asks
  <1>1. OperTypes' /\ OneOper' /\ UNCHANGED <<phase, param>>
    BY DEF OperTypes, OneOper, appVars
  <1>2. ASSUME NEW o \in Objs PROVE OperInv(o)'
    <2>1. OperInv(o)
      OBVIOUS
    <2>2. oper[o].st = "accepted" =>
            /\ req'[oper[o].by].st = "accepted"
            /\ req'[oper[o].by].node = req[oper[o].by].node
      BY <2>1 DEF OperInv
    <2>3. QED
      BY <1>1, <2>1, <2>2 DEF OperInv
  <1>3. ASSUME NEW j \in Conns, j # k PROVE FateInv(j)'
    BY <1>3 DEF FateInv, Answered
  <1>4. QED
    BY <1>1, <1>2, <1>3

(* What the client may say when its call returns. *)
MayReturn(k, ret, late) ==
  LET c == call[k] IN
  /\ c.pc # "idle"
  /\ IF late
     THEN ret = "error"
     ELSE IF ret = "ok"
     THEN /\ c.op # "file"
          /\ c.op = "read" => Answered(k, TRUE)
          /\ c.op = "write" => CarriedOut(k)
          /\ c.op \in {"control", "controlINC"} => c.pc = "operate" /\ Answered(k, TRUE)
          /\ c.op = "setsg" => Past(k, "confirm", {})
     ELSE /\ c.op = "write" => ~CarriedOut(k)
          /\ c.op \in {"control", "controlINC"} =>
               c.pc \in {"create", "select"} \/ (c.pc = "operate" /\ Answered(k, FALSE))
          /\ c.op = "setsg" => ~Past(k, "confirm", {})

(* A call that returns keeps the inductive invariant. *)
LEMMA ReturnKeeps ==
  ASSUME NEW k \in Conns, IndInv, NEW ret \in {"ok", "error"}, NEW late \in BOOLEAN,
         Return(k, ret, late), UNCHANGED <<deviceVars, ghostVars>>,
         MayReturn(k, ret, late),
         late => ret = "error" /\ req' = [req EXCEPT ![k].late = TRUE],
         ~late => \/ req' = [req EXCEPT ![k] = NoRequest] /\ req[k].st = "answered"
                  \/ req' = req /\ req[k].st = "none"
  PROVE  IndInv'
  <1> USE DEF ghostVars
  <1> DEFINE c == call[k]
  <1>t. /\ call \in [Conns -> Call] /\ live \in [Conns -> SUBSET CObjects]
        /\ req \in [Conns -> Requests] /\ c \in Call /\ req[k] \in Requests
        /\ ClientInv(k)
    BY DEF IndInv, BaseInv, TypeOK, CallTypes, ServedTypes
  <1>1. Whole(c.defers) = c.defers /\ c.defers \subseteq live[k]
    BY <1>t DEF ClientInv, ObjectInv, Whole, MayReturn
  <1>2. /\ call' = [call EXCEPT ![k] = call'[k]] /\ call'[k] \in Call
        /\ call'[k].pc = "idle" /\ call'[k].ret = ret /\ call'[k].late = late
        /\ call'[k].op = c.op /\ call'[k].defers = {}
        /\ c.node \in Groups => call'[k].node = c.node
    <2> DEFINE d == [c EXCEPT !.pc = "idle", !.ret = ret,
                 !.late = late, !.defers = {}, !.ctl = NoControl, !.stage = "none",
                 !.node = IF c.node \in Groups THEN c.node ELSE None]
    <2>1. call' = [call EXCEPT ![k] = d]
      BY DEF Return
    <2>2. d \in Call
      <3>1. (IF c.node \in Groups THEN c.node ELSE None) \in Targets
        BY DEF Targets
      <3>2. /\ "idle" \in Locations /\ "none" \in Stages /\ {} \in SUBSET CObjects
            /\ NoControl \in Controls
        BY DEF Locations, Stages, NoControl, Controls
      <3>3. QED
        BY <1>t, <3>1, <3>2 DEF Call
    <2>3. /\ d.pc = "idle" /\ d.ret = ret /\ d.late = late
          /\ d.op = c.op /\ d.defers = {} /\ c.node \in Groups => d.node = c.node
      BY <1>t DEF Call
    <2>4. QED
      BY <1>t, <2>1, <2>2, <2>3
  <1>3. live' = [live EXCEPT ![k] = @ \ c.defers] /\ twice' = twice
    BY <1>1 DEF Return, IndInv, BaseInv, TypeOK
  <1>4. /\ req' \in [Conns -> Requests] /\ \A j \in Conns \ {k} : req'[j] = req[j]
        /\ IF late THEN req'[k].late /\ req'[k].st = req[k].st
           ELSE req'[k].st = "none" /\ ~req'[k].late
        /\ \/ req'[k].kind = "none" /\ ~late
           \/ req'[k].kind = req[k].kind /\ req'[k].node = req[k].node
    <2>1. CASE late
      <3> DEFINE r == [req[k] EXCEPT !.late = TRUE]
      <3>1. /\ r \in Requests /\ r.late /\ r.st = req[k].st
            /\ r.kind = req[k].kind /\ r.node = req[k].node
        BY <1>t DEF Requests
      <3>2. req' = [req EXCEPT ![k] = r]
        BY <2>1
      <3>3. QED
        BY <2>1, <3>1, <3>2, <1>t
    <2>2. CASE ~late /\ req' = req /\ req[k].st = "none"
      BY <2>2, <1>t DEF ClientInv, CallInv, MayReturn, Requests
    <2>3. CASE ~late /\ req' = [req EXCEPT ![k] = NoRequest]
      BY <2>3, <1>t DEF Requests, NoRequest, Kinds, Targets
    <2>4. QED
      BY <2>1, <2>2, <2>3
  <1>5. ServedTypes' /\ CallTypes'
    BY <1>2, <1>3, <1>4, <1>t DEF IndInv, BaseInv, TypeOK, ServedTypes, CallTypes,
       deviceVars
  <1>6. Asks(k)
    BY <1>2, <1>3, <1>4, <1>t DEF Asks, Serving, IndInv, BaseInv, ServerInv, RequestInv,
       MayReturn, deviceVars, SelectKinds, OperKinds
  <1>7. CallInv(k)'
    BY <1>2, <1>4, <1>t DEF CallInv, OpsAt, Call
  <1>8. StageInv(k)' /\ BlockInv(k)'
    BY <1>2, <1>t DEF ClientInv, StageInv, BlockInv, OutcomeInv, MayReturn
  <1>9. SnapInv(k)'
    BY <1>2, <1>4, <1>t DEF ClientInv, CallInv, OutcomeInv, SnapInv, MayReturn,
       Answered, OpsAt, Call, Locations
  <1>10. VerdictInv(k)'
    BY <1>2, <1>4, <1>t DEF ClientInv, OutcomeInv, VerdictInv, MayReturn
  <1>11. SettingInv(k)'
    BY <1>2, <1>4, <1>t DEF ClientInv, OutcomeInv, SettingInv, StageInv, Stored,
       MayReturn
  <1>12. ObjectInv(k)'
    BY <1>1, <1>2, <1>3, <1>t DEF ClientInv, ObjectInv, MayReturn
  <1>13. BaseInv'
    BY <1>3, <1>5, <1>6, <1>7, <1>8, <1>9, <1>10, <1>11, <1>12, AskKeeps DEF
       ClientInv, OutcomeInv, IndInv, BaseInv, TypeOK
  <1>14. FateInv(k)'
    <2>1. FateInv(k) /\ UNCHANGED <<oper, fate>>
      BY DEF IndInv, ControlInv, deviceVars
    <2>2. req'[k].st = "accepted" => req[k].st = "accepted" /\ req'[k].node = req[k].node
      BY <1>4, <1>t
    <2>3. req'[k].kind \in OperKinds => req'[k].kind = req[k].kind
      BY <1>4, <1>t DEF OperKinds
    <2>4. QED
      BY <1>2, <1>4, <2>1, <2>2, <2>3 DEF FateInv, MayReturn
  <1>15. ControlInv'
    BY <1>4, <1>6, <1>14, AskControl DEF deviceVars
  <1>16. QED
    BY <1>13, <1>15 DEF IndInv

(* A request that is sent has no answer yet, or has failed at once. *)
LEMMA SendEffect ==
  ASSUME NEW k \in Conns, TypeOK, NEW kind \in Kinds, NEW node \in Targets,
         Send(k, kind, node)
  PROVE  /\ req' \in [Conns -> Requests] /\ \A j \in Conns \ {k} : req'[j] = req[j]
         /\ req'[k].kind = kind /\ req'[k].node = node
         /\ req'[k].st \in {"sent", "answered"} /\ ~req'[k].ok /\ ~req'[k].late
  <1> DEFINE r == Request(kind, node)
  <1>1. /\ r \in Requests /\ r.kind = kind /\ r.node = node
        /\ r.st \in {"sent", "answered"} /\ ~r.ok /\ ~r.late
    BY DEF Request, Requests
  <1> HIDE DEF r
  <1>2. req' = [req EXCEPT ![k] = r]
    BY DEF Send, r
  <1>3. QED
    BY <1>1, <1>2 DEF TypeOK, ServedTypes

(* The call of k goes on with a new request, or with none. *)
GoesOn(k) ==
  LET c == call[k]
      d == call'[k]
  IN  /\ c.pc # "idle" /\ ~Serving(k) /\ req[k].st # "accepted"
      /\ \A j \in Conns \ {k} :
           req'[j] = req[j] /\ call'[j] = call[j] /\ live'[j] = live[j]
      /\ d.op = c.op /\ d.node = c.node /\ d.ret = c.ret /\ d.late = c.late
      /\ d.ctl = c.ctl
      /\ d.pc = "select" => d.ctl.select \in SelectKinds
      /\ d.pc # "idle" /\ c.op \in OpsAt(d.pc)
      /\ ~req'[k].late
      /\ IF d.pc = "sub"
         THEN req'[k].st = "none" /\ (req'[k].kind = "none" \/ req'[k] = req[k])
         ELSE /\ req'[k].st \in {"sent", "answered"} /\ ~req'[k].ok
              /\ req'[k].node = c.node /\ req'[k].kind = KindAt(d.pc, d.stage, d.ctl)

(* A call that goes on keeps the inductive invariant. *)
LEMMA GoesOnKeeps ==
  ASSUME NEW k \in Conns, IndInv, GoesOn(k), UNCHANGED <<deviceVars, ghostVars, twice>>,
         req' \in [Conns -> Requests], CallTypes', ObjectInv(k)',
         call[k].op = "write" =>
           ~CarriedOut(k) /\ call'[k].stage = call[k].stage,
         call[k].op \in {"control", "controlINC"} => call[k].pc \in {"create", "select"},
         call[k].op = "setsg" =>
           /\ call'[k].stage \in {"act", "edit", "value", "confirm"}
           /\ ~Past(k, "confirm", {})
           /\ call'[k].stage \in {"value", "confirm"} => Past(k, "edit", {"value", "confirm"})
           /\ call'[k].stage = "confirm" => Past(k, "value", {"confirm"})
  PROVE  IndInv'
  <1> USE DEF ghostVars
  <1>t. /\ ClientInv(k) /\ call[k] \in Call /\ call'[k] \in Call
    BY DEF IndInv, BaseInv, TypeOK, CallTypes
  <1>1. ServedTypes' /\ ~twice' /\ twice' \in BOOLEAN
    BY DEF IndInv, BaseInv, TypeOK, ServedTypes
  <1>2. CallInv(k)'
    BY <1>t DEF GoesOn, ClientInv, CallInv
  <1>3. StageInv(k)'
    BY <1>t DEF GoesOn, ClientInv, StageInv
  <1>4. Asks(k)
    <2>1. KindAt(call'[k].pc, call'[k].stage, call'[k].ctl) \in SelectKinds \cup OperKinds
            => call[k].node \in Objs
      BY <1>t, <1>2, <1>3 DEF GoesOn, KindAt, RequestOf, OpsAt, StageInv, Call,
         Locations, CallInv, Stages, SelectKinds, OperKinds
    <2>2. KindAt(call'[k].pc, call'[k].stage, call'[k].ctl) = "decide" => call[k].node \in Nodes
      BY <1>t, <1>2, <1>3 DEF GoesOn, KindAt, RequestOf, OpsAt, StageInv, Call,
         Locations, CallInv, Stages, Nodes, SelectKinds, OperKinds
    <2>3. /\ req[k].kind = "decide" => req[k].node \in Nodes
          /\ req[k].kind \in SelectKinds \cup OperKinds => req[k].node \in Objs
      BY DEF IndInv, BaseInv, ServerInv, RequestInv
    <2>4. QED
      BY <2>1, <2>2, <2>3 DEF GoesOn, Asks, Serving, deviceVars, SelectKinds, OperKinds
  <1>5. SnapInv(k)' /\ BlockInv(k)'
    BY <1>t DEF GoesOn, ClientInv, CallInv, OutcomeInv, SnapInv, BlockInv,
       Answered
  <1>6. VerdictInv(k)'
    BY <1>t DEF GoesOn, ClientInv, CallInv, OutcomeInv, VerdictInv, Answered,
       CarriedOut
  <1>7. SettingInv(k)'
    <2> SUFFICES ASSUME call[k].op = "setsg" PROVE SettingInv(k)'
      BY DEF SettingInv, GoesOn
    <2>1. ~(Answered(k, TRUE))'
      BY DEF GoesOn, Answered
    <2>2. /\ call[k].pc # "idle" /\ call[k].ret = "none" /\ call'[k].ret = "none"
          /\ call'[k].node = call[k].node /\ edit' = edit /\ stored' = stored
      BY <1>t DEF GoesOn, ClientInv, CallInv, deviceVars
    <2>3. stored[k] = None
      BY <1>t, <2>2 DEF ClientInv, OutcomeInv, SettingInv
    <2>4. edit.owner = k =>
            /\ call'[k].stage \in {"value", "confirm"} => edit.group = call[k].node
            /\ call'[k].stage = "confirm" => edit.buf = k
      BY <1>t, <2>2 DEF ClientInv, OutcomeInv, SettingInv
    <2>5. QED
      BY <2>1, <2>2, <2>3, <2>4 DEF SettingInv, Past, Answered
  <1>8. BaseInv'
    BY <1>1, <1>2, <1>3, <1>4, <1>5, <1>6, <1>7, AskKeeps DEF ClientInv,
       OutcomeInv
  <1>9. FateInv(k)'
    <2>1. FateInv(k) /\ fate' = fate
      BY DEF IndInv, ControlInv
    <2>2. req'[k].kind \in OperKinds /\ req'[k].st = "sent" => call[k].op \in {"control", "controlINC"}
      BY <1>t, <1>2, <1>3 DEF GoesOn, KindAt, RequestOf, OpsAt, StageInv, Call,
         Locations, CallInv, Stages, SelectKinds, OperKinds
    <2>3. /\ req'[k].st \in {"none", "sent", "answered"} /\ ~(Answered(k, TRUE))'
          /\ call'[k].op = call[k].op /\ call'[k].ret = call[k].ret /\ call'[k].late = call[k].late
      BY DEF GoesOn, Answered
    <2>4. QED
      BY <2>1, <2>2, <2>3 DEF FateInv
  <1>10. ControlInv'
    BY <1>4, <1>9, AskControl DEF deviceVars, GoesOn
  <1>11. QED
    BY <1>8, <1>10 DEF IndInv

(* The parts of a control block. *)
LEMMA PartNames ==
  /\ PartSet = {"NumOfSG", "ActSG", "EditSG", "CnfEdit"}
  /\ \A i, j \in 1..4 : Parts[i] = Parts[j] => i = j
  <1>1. Parts[1] = "NumOfSG" /\ Parts[2] = "ActSG" /\ Parts[3] = "EditSG" /\ Parts[4] = "CnfEdit"
    BY DEF Parts
  <1>2. \A i \in 1..4 : i \in {1, 2, 3, 4}
    OBVIOUS
  <1>3. QED
    BY <1>1, <1>2 DEF PartSet

(* What the arguments of Begin are. *)
MayBegin(op, node, ctl, pc, stage, objects, kind) ==
  /\ op \in Calls /\ pc \in {"readobj", "type", "create", "spec", "block"}
  /\ op \in OpsAt(pc) /\ stage \in Stages /\ node \in Targets /\ kind \in Kinds
  /\ ctl \in Controls /\ kind = IF pc = "readobj" THEN "read" ELSE "plain"
  /\ op = "write" => stage = "write" /\ node \in Attrs
  /\ op = "setsg" => stage = "act" /\ node \in Groups
  /\ op \in {"control", "controlINC"} => node \in Objs /\ ctl.operate \in OperKinds
  /\ op \in {"getsg", "file"} => node = None
  /\ objects \subseteq {"ref", "cDw"}
  /\ pc = "type" => objects = {}

(* A call that begins keeps the inductive invariant. *)
LEMMA BeginKeeps ==
  ASSUME NEW k \in Conns, IndInv, NEW op, NEW node, NEW ctl, NEW pc, NEW stage,
         NEW objects, NEW kind, MayBegin(op, node, ctl, pc, stage, objects, kind),
         Begin(k, op, node, ctl, pc, stage, objects, kind)
  PROVE  IndInv'
  <1> DEFINE d == [NoCall EXCEPT !.op = op, !.pc = pc, !.node = node, !.ctl = ctl,
                                 !.stage = stage, !.defers = objects]
  <1>t. TypeOK /\ objects \in SUBSET CObjects
    BY DEF IndInv, BaseInv, MayBegin, CObjects
  <1>1. /\ d \in Call /\ d.op = op /\ d.pc = pc /\ d.node = node /\ d.stage = stage
        /\ d.ctl = ctl /\ d.defers = objects /\ d.ret = "none" /\ ~d.late
    BY <1>t DEF MayBegin, NoCall, Call, Locations
  <1> HIDE DEF d
  <1>2. call' = [call EXCEPT ![k] = d] /\ live' = [live EXCEPT ![k] = objects]
    BY DEF Begin, d
  <1>3. /\ call' \in [Conns -> Call] /\ call'[k] = d
        /\ live' \in [Conns -> SUBSET CObjects] /\ live'[k] = objects
        /\ \A j \in Conns \ {k} : call'[j] = call[j] /\ live'[j] = live[j]
    BY <1>t, <1>1, <1>2 DEF TypeOK, CallTypes
  <1>4. /\ req' \in [Conns -> Requests] /\ \A j \in Conns \ {k} : req'[j] = req[j]
        /\ req'[k].kind = kind /\ req'[k].node = node
        /\ req'[k].st \in {"sent", "answered"} /\ ~req'[k].ok /\ ~req'[k].late
    BY <1>t, SendEffect DEF Begin, MayBegin
  <1>5. /\ verdict' \in [Conns -> [id : 0..MaxIds, ok : BOOLEAN]] /\ ~verdict'[k].ok
        /\ \A j \in Conns \ {k} : verdict'[j] = verdict[j]
    BY <1>t, ServerAssumption DEF Begin, TypeOK, ServedTypes
  <1>6. /\ seen' \in [Conns -> [f : {0, 1}, t : {0, 1}]]
        /\ \A j \in Conns \ {k} : seen'[j] = seen[j]
    BY <1>t DEF Begin, TypeOK, ServedTypes
  <1>7. /\ stored' \in [Conns -> [group : Targets, val : Conns \cup {None}] \cup {None}]
        /\ stored'[k] = None
        /\ \A j \in Conns \ {k} : stored'[j] = stored[j]
    BY <1>t DEF Begin, TypeOK, ServedTypes
  <1>8. ServedTypes' /\ CallTypes'
    BY <1>t, <1>3, <1>4, <1>5, <1>6, <1>7 DEF TypeOK, ServedTypes, CallTypes,
       Begin, deviceVars
  <1>9. Asks(k)
    BY <1>3, <1>4, <1>5, <1>6, <1>7 DEF Asks, Begin, MayBegin, Serving, SelectKinds, OperKinds
  <1>10. CallInv(k)'
    BY <1>1, <1>3, <1>4 DEF CallInv, MayBegin, KindAt
  <1>11. StageInv(k)' /\ SnapInv(k)' /\ VerdictInv(k)' /\ BlockInv(k)'
    BY <1>1, <1>3, <1>4, <1>5 DEF StageInv, SnapInv, VerdictInv, BlockInv,
       MayBegin, Answered, CarriedOut
  <1>12. SettingInv(k)'
    BY <1>1, <1>3, <1>4, <1>7 DEF SettingInv, MayBegin, Past, Answered
  <1>13. ObjectInv(k)'
    <2>1. /\ pc \notin {"idle", "sub", "write"} /\ "sgcb" \notin objects
          /\ pc = "type" => objects = {}
      BY DEF MayBegin
    <2>2. objects \cap PartSet = {}
      BY PartNames DEF MayBegin
    <2>3. QED
      BY <1>1, <1>3, <2>1, <2>2 DEF ObjectInv
  <1>14. ~twice' /\ twice' \in BOOLEAN
    BY <1>t DEF Begin, IndInv, BaseInv, TypeOK
  <1>15. BaseInv'
    BY <1>8, <1>9, <1>10, <1>11, <1>12, <1>13, <1>14, AskKeeps DEF ClientInv,
       OutcomeInv
  <1>16. ControlInv'
    <2>1. /\ ControlInv /\ oper \in [Objs -> Opers] /\ fate \in [Conns -> Fates]
          /\ UNCHANGED <<phase, param>> /\ req[k].st = "none"
      BY DEF IndInv, ControlInv, OperTypes, Begin, appVars
    <2>2. ASSUME NEW o \in Objs
          PROVE  /\ oper'[o] \in Opers /\ oper'[o].by = oper[o].by /\ oper'[o].st = oper[o].st
                 /\ oper'[o].id = oper[o].id
                 /\ oper'[o].cur = (oper[o].cur /\ oper[o].by # k)
      <3>1. oper[o] \in Opers
        BY <2>1
      <3>2. oper'[o] = IF oper[o].by = k THEN [oper[o] EXCEPT !.cur = FALSE] ELSE oper[o]
        BY DEF Begin
      <3>3. QED
        BY <3>1, <3>2 DEF Opers
    <2>3. /\ oper' \in [Objs -> Opers] /\ fate' \in [Conns -> Fates] /\ fate'[k] = "none"
          /\ \A j \in Conns \ {k} : fate'[j] = fate[j]
      BY <2>1, <2>2 DEF Begin, Fates
    <2>4. OperTypes' /\ OneOper'
      BY <2>1, <2>2, <2>3 DEF OperTypes, OneOper, ControlInv
    <2>5. ASSUME NEW o \in Objs PROVE OperInv(o)'
      <3>1. OperInv(o)
        BY <2>1 DEF ControlInv
      <3>2. oper[o].st = "accepted" => oper[o].by # k
        BY <2>1, <3>1 DEF OperInv
      <3>3. oper[o].by \in Conns \ {k} =>
              fate'[oper[o].by] = fate[oper[o].by] /\ req'[oper[o].by] = req[oper[o].by]
        BY <1>4, <2>3
      <3>4. QED
        BY <2>1, <2>2, <3>1, <3>2, <3>3 DEF OperInv
    <2>6. ASSUME NEW j \in Conns PROVE FateInv(j)'
      <3>1. CASE j = k
        <4>1. call'[k].ret = "none" /\ call'[k].pc # "operate" /\ req'[k].st # "accepted"
          BY <1>1, <1>3, <1>4 DEF MayBegin
        <4>2. QED
          BY <2>3, <3>1, <4>1 DEF FateInv
      <3>2. CASE j # k
        <4>1. FateInv(j) /\ req'[j] = req[j] /\ fate'[j] = fate[j] /\ call'[j] = call[j]
          BY <1>3, <1>4, <2>1, <2>3, <3>2 DEF ControlInv
        <4>2. req[j].st = "accepted" => req[j].node \in Objs
          BY DEF IndInv, BaseInv, ServerInv, RequestInv
        <4>3. QED
          BY <2>2, <4>1, <4>2 DEF FateInv, Answered
      <3>3. QED
        BY <3>1, <3>2
    <2>7. QED
      BY <2>4, <2>5, <2>6 DEF ControlInv
  <1>17. QED
    BY <1>15, <1>16 DEF IndInv

(* Where a call goes on and what it owns then. *)
LEMMA GoEffect ==
  ASSUME NEW k \in Conns, TypeOK, NEW pc, NEW made, NEW deferred,
         pc \in Locations, made \subseteq CObjects, deferred \subseteq CObjects,
         Go(k, pc, made, deferred)
  PROVE  /\ call' \in [Conns -> Call] /\ live' \in [Conns -> SUBSET CObjects]
         /\ \A j \in Conns \ {k} : call'[j] = call[j] /\ live'[j] = live[j]
         /\ call'[k].pc = pc /\ call'[k].defers = call[k].defers \cup deferred
         /\ call'[k].op = call[k].op /\ call'[k].node = call[k].node
         /\ call'[k].stage = call[k].stage /\ call'[k].n = call[k].n
         /\ call'[k].ctl = call[k].ctl
         /\ call'[k].ret = call[k].ret /\ call'[k].late = call[k].late
         /\ live'[k] = live[k] \cup made
  <1>t. call[k] \in Call /\ call \in [Conns -> Call] /\ live \in [Conns -> SUBSET CObjects]
    BY DEF TypeOK, CallTypes
  <1> DEFINE d == [call[k] EXCEPT !.pc = pc, !.defers = call[k].defers \cup deferred]
  <1>1. /\ d \in Call /\ d.pc = pc /\ d.defers = call[k].defers \cup deferred
        /\ d.op = call[k].op /\ d.node = call[k].node /\ d.stage = call[k].stage
        /\ d.n = call[k].n /\ d.ctl = call[k].ctl /\ d.ret = call[k].ret /\ d.late = call[k].late
    BY <1>t DEF Call
  <1>2. call' = [call EXCEPT ![k] = d]
    BY DEF Go
  <1> HIDE DEF d
  <1>3. QED
    BY <1>t, <1>1, <1>2 DEF Go

(* It still owns what it must free. *)
LEMMA GoObjects ==
  ASSUME NEW k \in Conns, IndInv, call[k].pc # "idle", NEW made, NEW deferred,
         call'[k].defers = call[k].defers \cup deferred, call'[k].op = call[k].op,
         live'[k] = live[k] \cup made, call'[k].pc \notin {"idle", "sub", "type"},
         call'[k].pc = "write" => call[k].pc = "type" /\ deferred \subseteq {"ref", "mms"},
         deferred \subseteq made, made \subseteq deferred \cup KnownLeaks(call[k].op),
         "sgcb" \notin deferred, deferred \cap PartSet = {}
  PROVE  ObjectInv(k)'
  <1>1. ObjectInv(k)
    BY DEF IndInv, BaseInv, ClientInv
  <1>2. /\ call'[k].defers \subseteq live'[k]
        /\ live'[k] \subseteq call'[k].defers \cup KnownLeaks(call'[k].op)
        /\ "sgcb" \notin call'[k].defers /\ call'[k].defers \cap PartSet = {}
    BY <1>1 DEF ObjectInv
  <1>3. call'[k].pc = "write" => call'[k].defers \subseteq {"ref", "mms"}
    BY <1>1 DEF ObjectInv
  <1>4. QED
    BY <1>2, <1>3 DEF ObjectInv

(* Every beginning of a call is one that Begin is meant for. *)
LEMMA CallKeeps ==
  ASSUME NEW k \in Conns, IndInv, ClientCall(k)
  PROVE  IndInv'
  <1>1. CASE ReadObject(k)
    <2>1. MayBegin("read", None, NoControl, "readobj", "none", {"ref"}, "read")
      BY DEF MayBegin, OpsAt, Stages, Targets, Kinds, Calls, NoControl, Controls
    <2>2. QED
      BY <1>1, <2>1, BeginKeeps DEF ReadObject
  <1>2. CASE GetSG(k)
    <2>1. MayBegin("getsg", None, NoControl, "spec", "none", {"ref"}, "plain")
      BY DEF MayBegin, OpsAt, Stages, Targets, Kinds, Calls, NoControl, Controls
    <2>2. QED
      BY <1>2, <2>1, BeginKeeps DEF GetSG
  <1>3. CASE GetFile(k)
    <2>1. MayBegin("file", None, NoControl, "block", "none", {"ref", "cDw"}, "plain")
      BY DEF MayBegin, OpsAt, Stages, Targets, Kinds, Calls, NoControl, Controls
    <2>2. QED
      BY <1>3, <2>1, BeginKeeps DEF GetFile
  <1>4. ASSUME NEW n \in Attrs, WriteObject(k, n) PROVE IndInv'
    <2>1. MayBegin("write", n, NoControl, "type", "write", {}, "plain")
      BY DEF MayBegin, OpsAt, Stages, Targets, Nodes, Kinds, Calls, NoControl,
         Controls
    <2>2. QED
      BY <1>4, <2>1, BeginKeeps DEF WriteObject
  <1>5. ASSUME NEW g \in Groups, WriteSG(k, g) PROVE IndInv'
    <2>1. MayBegin("setsg", g, NoControl, "type", "act", {}, "plain")
      BY DEF MayBegin, OpsAt, Stages, Targets, Kinds, Calls, NoControl, Controls
    <2>2. QED
      BY <1>5, <2>1, BeginKeeps DEF WriteSG
  <1>6. ASSUME NEW op \in {"control", "controlINC"}, NEW o \in Objs,
               NEW model \in workload.models, NEW timed \in BOOLEAN,
               Control(k, op, o, model, timed)
        PROVE  IndInv'
    <2> DEFINE ctl == [select |-> SelectKind(model),
                       operate |-> IF timed THEN "operateAt" ELSE "operate"]
    <2>1. ctl \in Controls /\ ctl.operate \in OperKinds
      BY DEF SelectKind, Controls, SelectKinds, OperKinds
    <2>2. Begin(k, op, o, ctl, "create", "none", {"ref"}, "plain")
      BY <1>6 DEF Control
    <2> HIDE DEF ctl
    <2>3. MayBegin(op, o, ctl, "create", "none", {"ref"}, "plain")
      BY <2>1 DEF MayBegin, OpsAt, Stages, Targets, Nodes, Kinds, Calls
    <2>4. QED
      BY <2>2, <2>3, BeginKeeps
  <1>7. QED
    BY <1>1, <1>2, <1>3, <1>4, <1>5, <1>6 DEF ClientCall

(* Every other step of a client keeps the inductive invariant. *)
LEMMA ClientKeeps ==
  ASSUME NEW k \in Conns, IndInv, ClientStep(k)
  PROVE  IndInv'
  <1> DEFINE c == call[k]
  <1>t. /\ TypeOK /\ c \in Call /\ req[k] \in Requests /\ ClientInv(k)
        /\ call \in [Conns -> Call] /\ req \in [Conns -> Requests]
        /\ live \in [Conns -> SUBSET CObjects]
    BY DEF IndInv, BaseInv, TypeOK, CallTypes, ServedTypes
  <1>i. CallInv(k) /\ StageInv(k) /\ ObjectInv(k)
    BY <1>t DEF ClientInv
  <1>1. CASE Failed(k)
    <2>1. MayReturn(k, "error", FALSE)
      BY <1>1, <1>i, <1>t DEF Failed, MayReturn, CarriedOut, Past, Answered,
         CallInv, OpsAt, Call, Locations, Requests
    <2>2. QED
      BY <1>1, <2>1, ReturnKeeps DEF Failed, Serving
  <1>2. CASE TimedOut(k)
    <2>1. MayReturn(k, "error", TRUE)
      BY <1>2 DEF TimedOut, MayReturn
    <2>2. QED
      BY <1>2, <2>1, ReturnKeeps DEF TimedOut
  <1>3. CASE DropLate(k)
    <2>1. /\ req' \in [Conns -> Requests] /\ \A j \in Conns \ {k} : req'[j] = req[j]
          /\ req'[k].st = "none" /\ ~req'[k].late /\ req'[k].kind = "none"
      BY <1>3, <1>t DEF DropLate, Requests, NoRequest, Kinds, Targets
    <2>2. ServedTypes' /\ CallTypes' /\ ~twice' /\ twice' \in BOOLEAN
      BY <1>3, <1>t, <2>1 DEF DropLate, IndInv, BaseInv, TypeOK, ServedTypes, CallTypes,
         deviceVars, ghostVars
    <2>3. Asks(k)
      BY <1>3, <2>1 DEF DropLate, Asks, Serving, ghostVars, deviceVars,
         SelectKinds, OperKinds
    <2>4. c.pc = "idle" /\ c.late /\ c.ret = "error" /\ call'[k] = c
      BY <1>3, <1>i DEF DropLate, CallInv
    <2>5. ClientInv(k)'
      BY <1>3, <1>t, <2>1, <2>4 DEF DropLate, ghostVars, deviceVars, ClientInv,
         CallInv, StageInv, OutcomeInv, SnapInv, VerdictInv, BlockInv,
         SettingInv, ObjectInv, Stored
    <2>6. FateInv(k)' /\ UNCHANGED <<oper, fate>>
      BY <1>3, <2>1, <2>4 DEF DropLate, ghostVars, deviceVars, IndInv, ControlInv,
         FateInv, Answered, OperKinds
    <2>7. BaseInv' /\ ControlInv'
      BY <1>3, <2>2, <2>3, <2>5, <2>6, AskKeeps, AskControl DEF DropLate
    <2>8. QED
      BY <2>7 DEF IndInv
  <1>4. ASSUME NEW ret \in {"ok", "error"}, ReadObjectReturn(k, ret) PROVE IndInv'
    <2>1. c.op = "read" /\ c.pc = "readobj"
      BY <1>4, <1>i DEF ReadObjectReturn, Done, CallInv, OpsAt
    <2>2. MayReturn(k, ret, FALSE)
      BY <1>4, <2>1 DEF ReadObjectReturn, Done, MayReturn, Answered
    <2>3. QED
      BY <1>4, <2>2, ReturnKeeps DEF ReadObjectReturn, Done, Serving
  <1>5. ASSUME NEW ret \in {"ok", "error"}, GetSGReturn(k, ret) PROVE IndInv'
    <2>1. c.op = "getsg" /\ c.pc = "sub" /\ req[k].st = "none"
      BY <1>5, <1>i DEF GetSGReturn, CallInv, OpsAt
    <2>2. MayReturn(k, ret, FALSE)
      BY <1>5, <2>1 DEF MayReturn
    <2>3. QED
      BY <1>5, <2>1, <2>2, ReturnKeeps DEF GetSGReturn
  <1>6. CASE ConvertFails(k)
    <2>1. c.pc = "type" /\ c.op \in {"write", "setsg"}
      BY <1>6, <1>i DEF ConvertFails, Done, CallInv, OpsAt
    <2>2. MayReturn(k, "error", FALSE)
      BY <2>1 DEF MayReturn, CarriedOut, Past
    <2>3. QED
      BY <1>6, <2>2, ReturnKeeps DEF ConvertFails, Done, Serving
  <1>7. CASE TypeKnown(k)
    <2>1. /\ c.pc = "type" /\ c.op \in {"write", "setsg"} /\ ~Serving(k) /\ req[k].st # "accepted"
          /\ c.stage \in {"write", "act", "edit", "value", "confirm"}
      BY <1>7, <1>i DEF TypeKnown, Done, CallInv, StageInv, OpsAt, Serving
    <2>2. RequestOf(c.stage) \in Kinds /\ c.node \in Targets
      BY <1>t, <2>1 DEF RequestOf, Kinds, Call
    <2>3. /\ req' \in [Conns -> Requests] /\ \A j \in Conns \ {k} : req'[j] = req[j]
          /\ req'[k].kind = RequestOf(c.stage) /\ req'[k].node = c.node
          /\ req'[k].st \in {"sent", "answered"} /\ ~req'[k].ok /\ ~req'[k].late
      BY <1>7, <1>t, <2>2, SendEffect DEF TypeKnown
    <2>4. {"ref", "mms"} \subseteq CObjects /\ "write" \in Locations
      BY DEF CObjects, Locations
    <2>5. /\ call' \in [Conns -> Call] /\ live' \in [Conns -> SUBSET CObjects]
          /\ \A j \in Conns \ {k} : call'[j] = call[j] /\ live'[j] = live[j]
          /\ call'[k].pc = "write" /\ call'[k].defers = c.defers \cup {"ref", "mms"}
          /\ call'[k].op = c.op /\ call'[k].node = c.node /\ call'[k].stage = c.stage
          /\ call'[k].ret = c.ret /\ call'[k].late = c.late /\ call'[k].ctl = c.ctl
          /\ live'[k] = live[k] \cup {"ref", "mms"}
      BY <1>7, <1>t, <2>4, GoEffect DEF TypeKnown
    <2>6. ObjectInv(k)'
      <3>1. {"ref", "mms"} \cap PartSet = {}
        BY PartNames
      <3>2. QED
        BY <2>1, <2>5, <3>1, GoObjects
    <2>7. GoesOn(k)
      BY <2>1, <2>3, <2>5 DEF GoesOn, OpsAt, KindAt
    <2>8. CallTypes' /\ UNCHANGED <<deviceVars, ghostVars, twice>>
      BY <1>7, <1>t, <2>5 DEF TypeKnown, Go, TypeOK, CallTypes, deviceVars
    <2>9. ~CarriedOut(k) /\ ~Past(k, "confirm", {})
      BY <2>1 DEF CarriedOut, Past
    <2>10. c.op = "setsg" => c.stage \in {"act", "edit", "value", "confirm"}
      BY <1>i, <2>1 DEF StageInv
    <2>11. QED
      BY <2>1, <2>3, <2>5, <2>6, <2>7, <2>8, <2>9, <2>10, GoesOnKeeps DEF Past
  <1>8. CASE Written(k)
    <2>1. /\ c.pc = "write" /\ c.op = "setsg" /\ ~Serving(k) /\ req[k].st # "accepted" /\ Answered(k, TRUE)
          /\ c.stage \in {"act", "edit", "value"} /\ c.node \in Targets
      BY <1>8, <1>i, <1>t DEF Written, Done, LastStage, NextStage, CallInv,
         StageInv, OpsAt, Serving, Answered, Call, Requests
    <2>2. /\ req' \in [Conns -> Requests] /\ \A j \in Conns \ {k} : req'[j] = req[j]
          /\ req'[k].kind = "plain" /\ req'[k].node = c.node
          /\ req'[k].st \in {"sent", "answered"} /\ ~req'[k].ok /\ ~req'[k].late
      BY <1>8, <1>t, <2>1, SendEffect DEF Written, Kinds
    <2>3. /\ NextStage(c.stage) \in {"edit", "value", "confirm"}
          /\ NextStage(c.stage) = "value" => c.stage = "edit"
          /\ NextStage(c.stage) = "confirm" => c.stage = "value"
      BY <2>1 DEF NextStage
    <2> DEFINE d == [c EXCEPT !.pc = "type", !.defers = {}, !.stage = NextStage(c.stage)]
    <2>4. /\ d \in Call /\ d.pc = "type" /\ d.defers = {} /\ d.stage = NextStage(c.stage)
          /\ d.op = c.op /\ d.node = c.node /\ d.ret = c.ret /\ d.late = c.late
          /\ d.ctl = c.ctl
      BY <1>t, <2>3 DEF Call, Locations, Stages
    <2>5. call' = [call EXCEPT ![k] = d] /\ live' = [live EXCEPT ![k] = @ \ {"ref", "mms"}]
      BY <1>8 DEF Written
    <2> HIDE DEF d
    <2>6. /\ call' \in [Conns -> Call] /\ live' \in [Conns -> SUBSET CObjects]
          /\ \A j \in Conns \ {k} : call'[j] = call[j] /\ live'[j] = live[j]
          /\ call'[k] = d /\ live'[k] = live[k] \ {"ref", "mms"}
      BY <1>t, <2>4, <2>5
    <2>7. ObjectInv(k)'
      BY <1>i, <2>1, <2>4, <2>6 DEF ObjectInv, KnownLeaks
    <2>8. GoesOn(k)
      BY <2>1, <2>2, <2>4, <2>6 DEF GoesOn, OpsAt, KindAt
    <2>9. CallTypes' /\ UNCHANGED <<deviceVars, ghostVars, twice>>
      BY <1>8, <1>t, <2>6 DEF Written, TypeOK, CallTypes, deviceVars
    <2>10. QED
      BY <2>1, <2>2, <2>3, <2>4, <2>6, <2>7, <2>8, <2>9, GoesOnKeeps DEF Past
  <1>9. CASE WriteReturn(k)
    <2>1. c.pc = "write" /\ c.op \in {"write", "setsg"} /\ Answered(k, TRUE)
      BY <1>9, <1>i, <1>t DEF WriteReturn, Done, CallInv, OpsAt, Answered,
         Requests
    <2>2. c.op = "setsg" => c.stage = "confirm"
      BY <1>9, <1>i, <2>1 DEF WriteReturn, LastStage, NextStage, StageInv
    <2>3. MayReturn(k, "ok", FALSE)
      BY <2>1, <2>2 DEF MayReturn, CarriedOut, Past
    <2>4. QED
      BY <1>9, <2>3, ReturnKeeps DEF WriteReturn, Done, Serving
  <1>10. CASE ControlCreated(k)
    <2> DEFINE direct == c.ctl.select = "none"
               made == {"control", "ctlVal"} \cup (IF direct THEN {"orIdent"} ELSE {})
               deferred == IF c.op = "control" THEN made ELSE made \ {"control"}
               pc == IF direct THEN "operate" ELSE "select"
               kind == IF direct THEN c.ctl.operate ELSE c.ctl.select
    <2>1. /\ c.pc = "create" /\ c.op \in {"control", "controlINC"} /\ ~Serving(k) /\ req[k].st # "accepted"
          /\ c.node \in Targets /\ kind \in Kinds /\ pc \in Locations
          /\ pc = "select" => c.ctl.select \in SelectKinds
      BY <1>10, <1>i, <1>t DEF ControlCreated, Done, CallInv, StageInv, OpsAt,
         Serving, Call, Controls, Kinds, Locations
    <2>2. /\ made \subseteq CObjects /\ deferred \subseteq made
          /\ made \subseteq deferred \cup KnownLeaks(c.op)
          /\ "sgcb" \notin made /\ made \cap PartSet = {}
      BY <2>1, PartNames DEF CObjects, KnownLeaks
    <2>3. /\ Send(k, kind, c.node) /\ Go(k, pc, made, deferred)
          /\ UNCHANGED <<deviceVars, ghostVars>> /\ UNCHANGED twice
      BY <1>10 DEF ControlCreated, Go
    <2>4. /\ pc \in {"select", "operate"} /\ kind = KindAt(pc, c.stage, c.ctl)
      BY DEF KindAt
    <2> HIDE DEF made, deferred, pc, kind
    <2>5. /\ req' \in [Conns -> Requests] /\ \A j \in Conns \ {k} : req'[j] = req[j]
          /\ req'[k].kind = kind /\ req'[k].node = c.node
          /\ req'[k].st \in {"sent", "answered"} /\ ~req'[k].ok /\ ~req'[k].late
      BY <1>t, <2>1, <2>3, SendEffect
    <2>6. /\ call' \in [Conns -> Call] /\ live' \in [Conns -> SUBSET CObjects]
          /\ \A j \in Conns \ {k} : call'[j] = call[j] /\ live'[j] = live[j]
          /\ call'[k].pc = pc /\ call'[k].defers = c.defers \cup deferred
          /\ call'[k].op = c.op /\ call'[k].node = c.node /\ call'[k].stage = c.stage
          /\ call'[k].ret = c.ret /\ call'[k].late = c.late /\ call'[k].ctl = c.ctl
          /\ live'[k] = live[k] \cup made
      <3>1. deferred \subseteq CObjects
        BY <2>2
      <3>2. QED
        BY <1>t, <2>1, <2>2, <2>3, <3>1, GoEffect
    <2>7. ObjectInv(k)'
      <3>1. "sgcb" \notin deferred /\ deferred \cap PartSet = {}
        BY <2>2
      <3>2. QED
        BY <2>1, <2>2, <2>4, <2>6, <3>1, GoObjects
    <2>8. GoesOn(k)
      BY <2>1, <2>4, <2>5, <2>6 DEF GoesOn, OpsAt
    <2>9. CallTypes' /\ ~CarriedOut(k)
      BY <1>t, <2>1, <2>3, <2>6 DEF TypeOK, CallTypes, deviceVars, CarriedOut
    <2>10. QED
      BY <2>1, <2>3, <2>5, <2>6, <2>7, <2>8, <2>9, GoesOnKeeps
  <1>11. CASE ControlSelected(k)
    <2>1. /\ c.pc = "select" /\ c.op \in {"control", "controlINC"} /\ ~Serving(k) /\ req[k].st # "accepted"
          /\ c.node \in Targets /\ c.ctl.operate \in Kinds /\ "operate" \in Locations
      BY <1>11, <1>i, <1>t DEF ControlSelected, Done, CallInv, StageInv, OpsAt,
         Serving, Call, Kinds, Locations
    <2>2. {"orIdent"} \subseteq CObjects /\ {"orIdent"} \cap PartSet = {}
      BY PartNames DEF CObjects
    <2>3. /\ req' \in [Conns -> Requests] /\ \A j \in Conns \ {k} : req'[j] = req[j]
          /\ req'[k].kind = c.ctl.operate /\ req'[k].node = c.node
          /\ req'[k].st \in {"sent", "answered"} /\ ~req'[k].ok /\ ~req'[k].late
      BY <1>11, <1>t, <2>1, SendEffect DEF ControlSelected
    <2>4. /\ call' \in [Conns -> Call] /\ live' \in [Conns -> SUBSET CObjects]
          /\ \A j \in Conns \ {k} : call'[j] = call[j] /\ live'[j] = live[j]
          /\ call'[k].pc = "operate" /\ call'[k].defers = c.defers \cup {"orIdent"}
          /\ call'[k].op = c.op /\ call'[k].node = c.node /\ call'[k].stage = c.stage
          /\ call'[k].ret = c.ret /\ call'[k].late = c.late /\ call'[k].ctl = c.ctl
          /\ live'[k] = live[k] \cup {"orIdent"}
      BY <1>11, <1>t, <2>1, <2>2, GoEffect DEF ControlSelected
    <2>5. ObjectInv(k)'
      BY <2>1, <2>2, <2>4, GoObjects
    <2>6. GoesOn(k)
      BY <2>1, <2>3, <2>4 DEF GoesOn, OpsAt, KindAt
    <2>7. CallTypes' /\ ~CarriedOut(k) /\ UNCHANGED <<deviceVars, ghostVars, twice>>
      BY <1>11, <1>t, <2>1, <2>4 DEF ControlSelected, Go, TypeOK, CallTypes,
         deviceVars, CarriedOut
    <2>8. QED
      BY <2>1, <2>3, <2>4, <2>5, <2>6, <2>7, GoesOnKeeps
  <1>12. CASE ControlReturn(k)
    <2>1. c.pc = "operate" /\ c.op \in {"control", "controlINC"} /\ Answered(k, TRUE)
      BY <1>12, <1>i, <1>t DEF ControlReturn, Done, CallInv, OpsAt, Answered,
         Requests
    <2>2. MayReturn(k, "ok", FALSE)
      BY <2>1 DEF MayReturn
    <2>3. QED
      BY <1>12, <2>2, ReturnKeeps DEF ControlReturn, Done, Serving
  <1>13. CASE SpecRead(k)
    <2>1. /\ c.pc = "spec" /\ c.op = "getsg" /\ ~Serving(k) /\ req[k].st # "accepted" /\ c.node = None
          /\ None \in Targets /\ "plain" \in Kinds /\ "sgcb" \in Locations
      BY <1>13, <1>i, <1>t DEF SpecRead, Done, CallInv, StageInv, OpsAt,
         Serving, Targets, Kinds, Locations
    <2>2. {"spec"} \subseteq CObjects /\ {"spec"} \cap PartSet = {}
      BY PartNames DEF CObjects
    <2>3. /\ req' \in [Conns -> Requests] /\ \A j \in Conns \ {k} : req'[j] = req[j]
          /\ req'[k].kind = "plain" /\ req'[k].node = c.node
          /\ req'[k].st \in {"sent", "answered"} /\ ~req'[k].ok /\ ~req'[k].late
      BY <1>13, <1>t, <2>1, SendEffect DEF SpecRead
    <2>4. /\ call' \in [Conns -> Call] /\ live' \in [Conns -> SUBSET CObjects]
          /\ \A j \in Conns \ {k} : call'[j] = call[j] /\ live'[j] = live[j]
          /\ call'[k].pc = "sgcb" /\ call'[k].defers = c.defers \cup {"spec"}
          /\ call'[k].op = c.op /\ call'[k].node = c.node /\ call'[k].stage = c.stage
          /\ call'[k].ret = c.ret /\ call'[k].late = c.late /\ call'[k].ctl = c.ctl
          /\ live'[k] = live[k] \cup {"spec"}
      BY <1>13, <1>t, <2>1, <2>2, GoEffect DEF SpecRead
    <2>5. ObjectInv(k)'
      BY <2>1, <2>2, <2>4, GoObjects
    <2>6. GoesOn(k)
      BY <2>1, <2>3, <2>4 DEF GoesOn, OpsAt, KindAt
    <2>7. CallTypes' /\ UNCHANGED <<deviceVars, ghostVars, twice>>
      BY <1>13, <1>t, <2>4 DEF SpecRead, Go, TypeOK, CallTypes, deviceVars
    <2>8. QED
      BY <2>1, <2>3, <2>4, <2>5, <2>6, <2>7, GoesOnKeeps
  <1>14. CASE SgcbRead(k)
    <2>1. c.pc = "sgcb" /\ c.op = "getsg" /\ ~Serving(k) /\ req[k].st # "accepted" /\ "sub" \in Locations
      BY <1>14, <1>i DEF SgcbRead, Done, CallInv, OpsAt, Serving, Locations
    <2>2. /\ req' \in [Conns -> Requests] /\ \A j \in Conns \ {k} : req'[j] = req[j]
          /\ req'[k].st = "none" /\ ~req'[k].late /\ req'[k].kind = "none"
      BY <1>14, <1>t DEF SgcbRead, Requests, NoRequest, Kinds, Targets
    <2> DEFINE none == {}
               made == {"sgcb"} \cup PartSet
    <2>3. made \subseteq CObjects /\ none \subseteq CObjects /\ Go(k, "sub", made, none)
      BY <1>14 DEF SgcbRead, CObjects
    <2> HIDE DEF none, made
    <2>4. /\ call' \in [Conns -> Call] /\ live' \in [Conns -> SUBSET CObjects]
          /\ \A j \in Conns \ {k} : call'[j] = call[j] /\ live'[j] = live[j]
          /\ call'[k].pc = "sub" /\ call'[k].defers = c.defers \cup none
          /\ call'[k].op = c.op /\ call'[k].node = c.node /\ call'[k].stage = c.stage
          /\ call'[k].ret = c.ret /\ call'[k].late = c.late /\ call'[k].ctl = c.ctl
          /\ live'[k] = live[k] \cup made
      BY <1>t, <2>1, <2>3, GoEffect
    <2>5. ObjectInv(k)'
      <3>1. \A i \in 1..4 : Parts[i] \in PartSet
        BY DEF PartSet
      <3>2. QED
        BY <1>i, <2>1, <2>4, <3>1 DEF ObjectInv, KnownLeaks, made, none
    <2>6. GoesOn(k)
      BY <2>1, <2>2, <2>4 DEF GoesOn, OpsAt
    <2>7. CallTypes' /\ UNCHANGED <<deviceVars, ghostVars, twice>>
      BY <1>14, <1>t, <2>4 DEF SgcbRead, Go, TypeOK, CallTypes, deviceVars
    <2>8. QED
      BY <2>1, <2>2, <2>4, <2>5, <2>6, <2>7, GoesOnKeeps
  <1>15. CASE SubElement(k)
    <2> DEFINE part == Parts[c.n + 1]
               d == [c EXCEPT !.n = @ + 1]
    <2>1. /\ c.pc = "sub" /\ c.op = "getsg" /\ ~Serving(k) /\ req[k].st # "accepted" /\ c.n \in Nat /\ c.n < 4
          /\ req[k].st = "none"
      BY <1>15, <1>i, <1>t DEF SubElement, CallInv, OpsAt, Serving, Call
    <2>2. c.n + 1 \in 1..4 /\ part \in PartSet /\ part \in live[k]
      <3>1. c.n + 1 \in 1..4 /\ c.n + 1 > c.n
        BY <2>1
      <3>2. QED
        BY <1>i, <2>1, <3>1 DEF ObjectInv, PartSet
    <2>3. /\ d \in Call /\ d.pc = "sub" /\ d.defers = c.defers /\ d.n = c.n + 1
          /\ d.op = c.op /\ d.node = c.node /\ d.stage = c.stage
          /\ d.ret = c.ret /\ d.late = c.late /\ d.ctl = c.ctl
      BY <1>t, <2>1 DEF Call
    <2>4. call' = [call EXCEPT ![k] = d] /\ live' = [live EXCEPT ![k] = @ \ {part}]
      BY <1>15 DEF SubElement
    <2> HIDE DEF d
    <2>5. /\ call' \in [Conns -> Call] /\ live' \in [Conns -> SUBSET CObjects]
          /\ \A j \in Conns \ {k} : call'[j] = call[j] /\ live'[j] = live[j]
          /\ call'[k] = d /\ live'[k] = live[k] \ {part}
      BY <1>t, <2>3, <2>4
    <2>6. ObjectInv(k)'
      <3>1. \A i \in 1..4 : i > c.n + 1 => Parts[i] \in live[k] /\ Parts[i] # part
        BY <1>i, <2>1, <2>2, PartNames DEF ObjectInv
      <3>2. part \notin c.defers
        BY <1>i, <2>2 DEF ObjectInv
      <3>3. c.defers \subseteq live'[k] /\ live'[k] \subseteq c.defers \cup KnownLeaks(c.op)
        BY <1>i, <2>1, <2>5, <3>2 DEF ObjectInv
      <3>4. QED
        BY <1>i, <2>1, <2>3, <2>5, <3>1, <3>3 DEF ObjectInv
    <2>7. /\ UNCHANGED <<deviceVars, ghostVars>> /\ UNCHANGED req /\ twice' = twice
      BY <1>15, <2>2, <1>t DEF SubElement, TypeOK
    <2>8. CallTypes' /\ UNCHANGED <<deviceVars, ghostVars, twice>>
      BY <1>t, <2>5, <2>7 DEF TypeOK, CallTypes, deviceVars
    <2>9. GoesOn(k) /\ req' \in [Conns -> Requests]
      BY <1>i, <1>t, <2>1, <2>3, <2>5, <2>7 DEF GoesOn, CallInv, OpsAt
    <2>10. QED
      BY <2>1, <2>6, <2>8, <2>9, GoesOnKeeps
  <1>16. CASE DownloadFails(k)
    <2>1. c.op = "file" /\ c.pc = "block"
      BY <1>16, <1>i DEF DownloadFails, Done, CallInv, OpsAt
    <2>2. MayReturn(k, "error", FALSE)
      BY <2>1 DEF MayReturn
    <2>3. QED
      BY <1>16, <2>2, ReturnKeeps DEF DownloadFails, Done, Serving
  <1>17. CASE Downloaded(k)
    <2> DEFINE d == [c EXCEPT !.n = @ + 1]
    <2>1. /\ c.pc = "block" /\ c.op = "file" /\ ~Serving(k) /\ req[k].st # "accepted" /\ c.n \in Nat /\ c.node = None
          /\ None \in Targets /\ "plain" \in Kinds
      BY <1>17, <1>i, <1>t DEF Downloaded, Done, CallInv, StageInv, OpsAt,
         Serving, Call, Targets, Kinds
    <2>2. /\ req' \in [Conns -> Requests] /\ \A j \in Conns \ {k} : req'[j] = req[j]
          /\ req'[k].kind = "plain" /\ req'[k].node = c.node
          /\ req'[k].st \in {"sent", "answered"} /\ ~req'[k].ok /\ ~req'[k].late
      BY <1>17, <1>t, <2>1, SendEffect DEF Downloaded
    <2>3. /\ d \in Call /\ d.pc = "block" /\ d.defers = c.defers
          /\ d.op = c.op /\ d.node = c.node /\ d.stage = c.stage
          /\ d.ret = c.ret /\ d.late = c.late /\ d.ctl = c.ctl
      BY <1>t, <2>1 DEF Call
    <2>4. call' = [call EXCEPT ![k] = d] /\ UNCHANGED <<deviceVars, ghostVars, live, twice>>
      BY <1>17 DEF Downloaded
    <2> HIDE DEF d
    <2>5. /\ call' \in [Conns -> Call] /\ call'[k] = d
          /\ \A j \in Conns \ {k} : call'[j] = call[j] /\ live'[j] = live[j]
      BY <1>t, <2>3, <2>4
    <2>6. CallTypes' /\ UNCHANGED <<deviceVars, ghostVars, twice>>
      BY <1>t, <2>4, <2>5 DEF TypeOK, CallTypes, deviceVars
    <2>7. ObjectInv(k)'
      BY <1>i, <2>1, <2>3, <2>4, <2>5 DEF ObjectInv
    <2>8. GoesOn(k)
      BY <2>1, <2>2, <2>3, <2>4, <2>5 DEF GoesOn, OpsAt, KindAt
    <2>9. QED
      BY <2>1, <2>2, <2>6, <2>7, <2>8, GoesOnKeeps
  <1>18. CASE GetFileReturn(k)
    <2> DEFINE d == [c EXCEPT !.pc = "idle", !.ret = "ok", !.n = c.n + 1, !.defers = {}]
    <2>1. c.pc = "block" /\ c.op = "file" /\ ~Serving(k) /\ req[k].st # "accepted" /\ c.n = Blocks - 1 /\ ~c.late
      BY <1>18, <1>i DEF GetFileReturn, Done, CallInv, OpsAt, Serving
    <2>2. /\ req' \in [Conns -> Requests] /\ \A j \in Conns \ {k} : req'[j] = req[j]
          /\ req'[k].st = "none" /\ ~req'[k].late /\ req'[k].kind = "none"
      BY <1>18, <1>t DEF GetFileReturn, Requests, NoRequest, Kinds, Targets
    <2>3. /\ d \in Call /\ d.pc = "idle" /\ d.defers = {} /\ d.op = c.op /\ d.n = Blocks
          /\ d.ret = "ok" /\ d.late = c.late
      <3>1. c.n + 1 = Blocks /\ Blocks \in Nat
        BY <2>1, OperationsAssumption
      <3>2. QED
        BY <1>t, <3>1 DEF Call, Locations
    <2>4. /\ call' = [call EXCEPT ![k] = d] /\ UNCHANGED <<deviceVars, ghostVars, twice>>
          /\ live' = [live EXCEPT ![k] = @ \ c.defers]
      BY <1>18 DEF GetFileReturn
    <2> HIDE DEF d
    <2>5. /\ call' \in [Conns -> Call] /\ live' \in [Conns -> SUBSET CObjects]
          /\ \A j \in Conns \ {k} : call'[j] = call[j] /\ live'[j] = live[j]
          /\ call'[k] = d /\ live'[k] = live[k] \ c.defers
      BY <1>t, <2>3, <2>4
    <2>6. ServedTypes' /\ CallTypes' /\ ~twice' /\ twice' \in BOOLEAN
      BY <1>t, <2>2, <2>4, <2>5 DEF IndInv, BaseInv, TypeOK, ServedTypes, CallTypes,
         deviceVars, ghostVars
    <2>7. Asks(k)
      BY <2>1, <2>2, <2>4, <2>5 DEF Asks, Serving, ghostVars, deviceVars,
         SelectKinds, OperKinds
    <2>8. CallInv(k)' /\ StageInv(k)'
      BY <2>1, <2>2, <2>3, <2>5 DEF CallInv, StageInv, OpsAt, Calls
    <2>9. OutcomeInv(k)'
      BY <2>1, <2>3, <2>5 DEF OutcomeInv, SnapInv, VerdictInv, BlockInv,
         SettingInv
    <2>10. ObjectInv(k)'
      BY <1>i, <2>1, <2>3, <2>5 DEF ObjectInv
    <2>11. FateInv(k)' /\ UNCHANGED <<oper, fate>>
      BY <2>1, <2>2, <2>3, <2>4, <2>5 DEF ghostVars, deviceVars, FateInv, OperKinds
    <2>12. BaseInv' /\ ControlInv'
      BY <2>1, <2>6, <2>7, <2>8, <2>9, <2>10, <2>11, AskKeeps, AskControl DEF ClientInv
    <2>13. QED
      BY <2>12 DEF IndInv
  <1>19. QED
    BY <1>1, <1>2, <1>3, <1>4, <1>5, <1>6, <1>7, <1>8, <1>9, <1>10, <1>11,
       <1>12, <1>13,
       <1>14, <1>15, <1>16, <1>17, <1>18 DEF ClientStep

-----------------------------------------------------------------------------
(* The inductive invariant holds initially. *)
LEMMA InitInd == Init => IndInv
  <1> SUFFICES ASSUME Init PROVE IndInv
    OBVIOUS
  <1> USE ServerAssumption DEF Init, ServerInit
  <1>1. AppTypes
    <2>1. NoInst \in [node : Nodes \cup {None}, id : 0..MaxIds]
      BY DEF NoInst
    <2>2. /\ idGen \in 0..MaxIds /\ param \in [Nodes -> 0..MaxIds]
          /\ latest \in [Nodes -> 0..MaxIds] /\ callbacks \in [Ids -> Nodes \cup {None}]
      OBVIOUS
    <2>3. /\ apc \in [Apps -> {"idle", "store", "install", "stop", "destroy"} \cup Unlocking]
          /\ inst \in [Apps -> [node : Nodes \cup {None}, id : 0..MaxIds]]
      BY <2>1
    <2>4. QED
      BY <2>2, <2>3 DEF AppTypes
  <1>2. DataTypes
    BY DEF DataTypes, NoEdit, Edit, Targets
  <1>3. ServedTypes
    <2>1. NoRequest \in Requests
      BY DEF NoRequest, Requests, Kinds, Targets
    <2>2. QED
      BY <2>1 DEF ServedTypes
  <1>4. CallTypes
    <2>1. NoCall \in Call
      BY DEF NoCall, Call, Calls, Locations, Stages, Targets, NoControl, Controls
    <2>2. QED
      BY <2>1 DEF CallTypes
  <1>5. ServerInv
    <2>1. InstallInv /\ LockInv /\ MeasInv
      BY DEF InstallInv, LockInv, MeasInv, NoRequest, Held, Unlocking
    <2>2. RequestInv
      BY DEF RequestInv, Serving, NoRequest, SelectKinds, OperKinds
    <2>3. QED
      BY <2>1, <2>2 DEF ServerInv
  <1>6. ASSUME NEW k \in Conns PROVE ClientInv(k)
    <2>1. call[k] = NoCall /\ req[k] = NoRequest /\ live[k] = {}
      OBVIOUS
    <2>2. CallInv(k) /\ StageInv(k) /\ ObjectInv(k)
      BY <2>1 DEF CallInv, StageInv, ObjectInv, NoCall, NoRequest, OpsAt
    <2>3. OutcomeInv(k)
      BY <2>1 DEF OutcomeInv, SnapInv, VerdictInv, BlockInv, SettingInv, NoCall
    <2>4. QED
      BY <2>2, <2>3 DEF ClientInv
  <1>7. ControlInv
    <2>1. 0 \in 0..MaxIds
      OBVIOUS
    <2>2. NoOper \in Opers /\ NoOper.st = "none" /\ ~NoOper.cur
      BY <2>1 DEF NoOper, Opers
    <2>3. /\ \A o \in Objs : oper[o] = NoOper
          /\ \A k \in Conns : fate[k] = "none" /\ call[k] = NoCall /\ req[k] = NoRequest
      OBVIOUS
    <2>4. OperTypes /\ OneOper
      BY <2>2, <2>3 DEF OperTypes, OneOper, Fates
    <2>5. (\A o \in Objs : OperInv(o)) /\ \A k \in Conns : FateInv(k)
      BY <2>2, <2>3 DEF OperInv, FateInv, NoCall, NoRequest, Answered
    <2>6. QED
      BY <2>4, <2>5 DEF ControlInv
  <1>8. QED
    BY <1>1, <1>2, <1>3, <1>4, <1>5, <1>6, <1>7 DEF IndInv, BaseInv, TypeOK

(* Every step keeps it. *)
LEMMA StepInd == IndInv /\ [Next]_vars => IndInv'
  <1> SUFFICES ASSUME IndInv, [Next]_vars PROVE IndInv'
    OBVIOUS
  <1>1. CASE UNCHANGED vars
    <2> USE <1>1 DEF vars, serverVars, appVars, devVars, ctlVars, IndInv, BaseInv
    <2>1. TypeOK' /\ ServerInv'
      BY DEF IndInv, TypeOK, AppTypes, DataTypes, ServedTypes, CallTypes,
         ServerInv, InstallInv, LockInv, MeasInv, RequestInv, Serving
    <2>2. ASSUME NEW k \in Conns PROVE ClientInv(k)'
      BY DEF IndInv, ClientInv, CallInv, StageInv, OutcomeInv, SnapInv,
         VerdictInv, BlockInv, SettingInv, ObjectInv, Answered, CarriedOut,
         Past, Stored
    <2>3. ControlInv'
      BY DEF ControlInv, OperTypes, OneOper, OperInv, FateInv, Answered
    <2>4. QED
      BY <2>1, <2>2, <2>3
  <1>2. QED
    BY <1>1, ServerKeeps, CallKeeps, ClientKeeps DEF Next, Finished

(* The variables keep their types, and the inductive invariant holds. *)
THEOREM Invariance == Spec => []IndInv
  BY InitInd, StepInd, PTL DEF Spec

(* writeAccessHandlerBridge and controlHandlerBridge run the handler that  *)
(* was installed last for the node, for any number of handlers.            *)
THEOREM LatestHandlerRuns == Spec => []LatestHandler
  <1>1. IndInv => LatestHandler
    <2> USE DEF IndInv, BaseInv, ServerInv, InstallInv
    <2>1. ASSUME IndInv, NEW k \in Conns, req[k].st = "handler"
          PROVE  verdict[k].id = latest[req[k].node] /\ callbacks[verdict[k].id] = req[k].node
      BY <2>1 DEF RequestInv
    <2>2. ASSUME IndInv, NEW o \in Objs, oper[o].st = "handler"
          PROVE  oper[o].id = latest[o] /\ callbacks[oper[o].id] = o
      BY <2>2 DEF ControlInv, OperInv, Nodes
    <2>3. QED
      BY <2>1, <2>2 DEF LatestHandler
  <1>2. QED
    BY <1>1, Invariance, PTL

(* What ReadObject returns is never torn by an update under the lock. *)
THEOREM ReadsSnapshot == Spec => []Snapshot
  <1>1. IndInv => Snapshot
    BY DEF IndInv, BaseInv, ClientInv, OutcomeInv, SnapInv, Snapshot
  <1>2. QED
    BY <1>1, Invariance, PTL

(* WriteObject and GetFile report what happened. *)
THEOREM OutcomesReported == Spec => []OutcomeReported
  <1>1. IndInv => OutcomeReported
    BY DEF IndInv, BaseInv, ClientInv, OutcomeInv, VerdictInv, BlockInv, OutcomeReported
  <1>2. QED
    BY <1>1, Invariance, PTL

(* A control function that succeeds has had its operation accepted, and of *)
(* one that fails, other than by a timeout, no handler was or will be      *)
(* called, in every control model, at once or at a time.                   *)
THEOREM ControlsReported == Spec => []ControlReported
  <1>1. IndInv => ControlReported
    BY DEF IndInv, ControlInv, FateInv, ControlReported
  <1>2. QED
    BY <1>1, Invariance, PTL

(* WriteSG stores its own value in its own group, or nothing. *)
THEOREM SettingsStored == Spec => []SettingStored
  <1>1. IndInv => SettingStored
    BY DEF IndInv, BaseInv, ClientInv, OutcomeInv, SettingInv, Stored, SettingStored
  <1>2. QED
    BY <1>1, Invariance, PTL

(* No C object is freed twice, and none but the known ones is left. *)
THEOREM AllReleased == Spec => []ObjectsReleased
  <1>1. IndInv => ObjectsReleased
    BY DEF IndInv, BaseInv, ClientInv, ObjectInv, ObjectsReleased
  <1>2. QED
    BY <1>1, Invariance, PTL

=============================================================================
