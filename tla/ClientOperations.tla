--------------------------- MODULE ClientOperations ---------------------------
(***************************************************************************)
(* Calls of a client that take several requests or own C objects, against  *)
(* the server of module Server: ReadObject and WriteObject (client.go),    *)
(* the control functions (client_control.go), WriteSG and GetSG            *)
(* (client_sg.go) and GetFile (client_file.go).                            *)
(*                                                                         *)
(* A call sends its requests one after the other and returns at the first  *)
(* error; a request that is not answered in time is an error too, although *)
(* the server may still serve it.  C objects that the code frees with      *)
(* defer are freed when the call returns, on every path.                   *)
(***************************************************************************)
EXTENDS Server

CONSTANT
  Blocks   \* number of blocks of the file that is fetched

ASSUME OperationsAssumption == Blocks \in Nat \ {0}

VARIABLES
  call,     \* call[k]: the call of connection k, its arguments and progress
  live,     \* live[k]: C objects it has made and not freed
  twice     \* a C object was freed twice

vars == <<workload, serverVars, call, live, twice>>

Parts == <<"NumOfSG", "ActSG", "EditSG", "CnfEdit">>
PartSet == {Parts[i] : i \in 1..4}
Whole(objects) ==
  IF "sgcb" \in objects THEN objects \cup PartSet ELSE objects

NoControl == [select |-> "none", operate |-> "none"]

NoCall == [op |-> "none", pc |-> "idle", node |-> None, ctl |-> NoControl,
           stage |-> "none", n |-> 0, defers |-> {}, ret |-> "none",
           late |-> FALSE]

Init ==
  /\ ServerInit
  /\ call = [k \in Conns |-> NoCall]
  /\ live = [k \in Conns |-> {}]
  /\ twice = FALSE

deviceVars == <<workload, phase, appVars, lock, meas, apc, selected, oper, edit>>
ghostVars == <<seen, verdict, fate, stored>>

-----------------------------------------------------------------------------
(* Requests.  Without a connection a request fails at once.                *)

Request(kind, node) ==
  [kind |-> kind, node |-> node, ok |-> FALSE, late |-> FALSE,
   st |-> IF phase = "running" THEN "sent" ELSE "answered"]

Send(k, kind, node) ==
  req' = [req EXCEPT ![k] = Request(kind, node)]

(* The request of program location pc was answered without an error. *)
Done(k, pc) ==
  /\ call[k].pc = pc
  /\ req[k].st = "answered" /\ req[k].ok

(* The call returns: what was deferred is freed, the outermost object of   *)
(* a value with all its parts.  Of its arguments only a group is kept.     *)
Return(k, ret, late) ==
  /\ call' = [call EXCEPT ![k] = [@ EXCEPT !.pc = "idle", !.ret = ret,
         !.late = late, !.defers = {}, !.ctl = NoControl, !.stage = "none",
         !.node = IF call[k].node \in Groups THEN call[k].node ELSE None]]
  /\ live' = [live EXCEPT ![k] = @ \ Whole(call[k].defers)]
  /\ twice' = (twice \/ ~(Whole(call[k].defers) \subseteq live[k]))

(* The call goes on to another location, with more objects to free. *)
Go(k, pc, made, deferred) ==
  /\ call' = [call EXCEPT ![k] =
       [@ EXCEPT !.pc = pc, !.defers = call[k].defers \cup deferred]]
  /\ live' = [live EXCEPT ![k] = @ \cup made]
  /\ UNCHANGED twice

(* Every error ends the call. *)
Failed(k) ==
  /\ call[k].pc # "idle"
  /\ req[k].st = "answered" /\ ~req[k].ok
  /\ req' = [req EXCEPT ![k] = NoRequest]
  /\ Return(k, "error", FALSE)
  /\ UNCHANGED <<deviceVars, ghostVars>>

(* The request timeout: the server may still serve the request. *)
TimedOut(k) ==
  /\ call[k].pc # "idle"
  /\ req[k].st \in {"sent", "accepted"} \/ Serving(k)
  /\ req' = [req EXCEPT ![k].late = TRUE]
  /\ Return(k, "error", TRUE)
  /\ UNCHANGED <<deviceVars, ghostVars>>

(* An answer that comes after the timeout is dropped. *)
DropLate(k) ==
  /\ req[k].late /\ req[k].st = "answered"
  /\ req' = [req EXCEPT ![k] = NoRequest]
  /\ UNCHANGED <<deviceVars, ghostVars, call, live, twice>>

(* The objects every call of this kind makes before its first request.  An *)
(* operation that is still under way belongs to an earlier call from now.  *)
Begin(k, op, node, ctl, pc, stage, objects, kind) ==
  /\ op \in workload.calls
  /\ call[k].pc = "idle" /\ req[k].st = "none" /\ phase # "destroyed"
  /\ call' = [call EXCEPT ![k] =
       [NoCall EXCEPT !.op = op, !.pc = pc, !.node = node, !.ctl = ctl,
                      !.stage = stage, !.defers = objects]]
  /\ live' = [live EXCEPT ![k] = objects]
  /\ Send(k, kind, node)
  /\ verdict' = [verdict EXCEPT ![k] = [id |-> 0, ok |-> FALSE]]
  /\ stored' = [stored EXCEPT ![k] = None]
  /\ seen' = [seen EXCEPT ![k] = [f |-> 0, t |-> 0]]
  /\ fate' = [fate EXCEPT ![k] = "none"]
  /\ oper' = [o \in Objs |-> IF oper[o].by = k THEN [oper[o] EXCEPT !.cur = FALSE]
                             ELSE oper[o]]
  /\ UNCHANGED <<workload, phase, appVars, lock, meas, apc, selected, edit, twice>>

-----------------------------------------------------------------------------
(* ReadObject.                                                             *)

ReadObject(k) == Begin(k, "read", None, NoControl, "readobj", "none", {"ref"}, "read")

(* The value is deleted on return, also if it cannot be converted. *)
ReadObjectReturn(k, ret) ==
  /\ Done(k, "readobj")
  /\ req' = [req EXCEPT ![k] = NoRequest]
  /\ Return(k, ret, FALSE)
  /\ UNCHANGED <<deviceVars, ghostVars>>

-----------------------------------------------------------------------------
(* WriteObject asks for the type, converts, and writes.  WriteSG is four   *)
(* WriteObjects: ActSG, EditSG, the value, CnfEdit.  The value a client    *)
(* writes is its own, so that every value tells who wrote it.              *)

WriteObject(k, n) ==
  Begin(k, "write", n, NoControl, "type", "write", {}, "plain")

WriteSG(k, g) ==
  Begin(k, "setsg", g, NoControl, "type", "act", {}, "plain")

(* The edit is confirmed before the value is written. *)
MutNextStage(stage) ==
  CASE stage = "act" -> "edit" [] stage = "edit" -> "confirm"
    [] stage = "confirm" -> "value" [] OTHER -> "end"

NextStage(stage) ==
  CASE stage = "act" -> "edit" [] stage = "edit" -> "value"
    [] stage = "value" -> "confirm" [] OTHER -> "end"

RequestOf(stage) ==
  CASE stage = "write" -> "decide" [] stage = "act" -> "plain" [] OTHER -> stage

(* The value cannot be converted to the type. *)
ConvertFails(k) ==
  /\ Done(k, "type")
  /\ req' = [req EXCEPT ![k] = NoRequest]
  /\ Return(k, "error", FALSE)
  /\ UNCHANGED <<deviceVars, ghostVars>>

TypeKnown(k) ==
  /\ Done(k, "type")
  /\ Send(k, RequestOf(call[k].stage), call[k].node)
  /\ Go(k, "write", {"ref", "mms"}, {"ref", "mms"})
  /\ UNCHANGED <<deviceVars, ghostVars>>

LastStage(k) == NextStage(call[k].stage) = "end"

(* One WriteObject has returned, and freed what it made. *)
Written(k) ==
  /\ Done(k, "write") /\ ~LastStage(k)
  /\ Send(k, "plain", call[k].node)
  /\ call' = [call EXCEPT ![k] = [@ EXCEPT !.pc = "type", !.defers = {},
                                           !.stage = NextStage(call[k].stage)]]
  /\ live' = [live EXCEPT ![k] = @ \ {"ref", "mms"}]
  /\ UNCHANGED <<deviceVars, ghostVars, twice>>

WriteReturn(k) ==
  /\ Done(k, "write") /\ LastStage(k)
  /\ req' = [req EXCEPT ![k] = NoRequest]
  /\ Return(k, "ok", FALSE)
  /\ UNCHANGED <<deviceVars, ghostVars>>

-----------------------------------------------------------------------------
(* ControlByControlModel; the variants for integers and floats (INC, APC)  *)
(* do not destroy the control object and always operate at once.  In the   *)
(* enhanced models selection is another request, and the handler for the   *)
(* command termination is nil: what it says is not seen.                   *)

(* The request that selects, if any. *)
SelectKind(model) ==
  CASE model = "sbo_normal" -> "select"
    [] model = "sbo_enhanced" -> "selectWithValue"
    [] OTHER -> "none"

(* A call for a control model, with or without an OperateTime. *)
Control(k, op, o, model, timed) ==
  /\ timed => op = "control"
  /\ Begin(k, op, o, [select |-> SelectKind(model),
                      operate |-> IF timed THEN "operateAt" ELSE "operate"],
           "create", "none", {"ref"}, "plain")

(* Select before operate, or operate at once. *)
ControlCreated(k) ==
  LET ctl == call[k].ctl
      direct == ctl.select = "none"
      made == {"control", "ctlVal"} \cup (IF direct THEN {"orIdent"} ELSE {})
  IN  /\ Done(k, "create")
      /\ Send(k, IF direct THEN ctl.operate ELSE ctl.select, call[k].node)
      /\ Go(k, IF direct THEN "operate" ELSE "select", made,
            IF call[k].op = "control" THEN made ELSE made \ {"control"})
      /\ UNCHANGED <<deviceVars, ghostVars>>

(* A control that is selected counts as operated. *)
MutControlSelected(k) ==
  /\ Done(k, "select")
  /\ req' = [req EXCEPT ![k] = NoRequest]
  /\ Return(k, "ok", FALSE)
  /\ UNCHANGED <<deviceVars, ghostVars>>

ControlSelected(k) ==
  /\ Done(k, "select")
  /\ Send(k, call[k].ctl.operate, call[k].node)
  /\ Go(k, "operate", {"orIdent"}, {"orIdent"})
  /\ UNCHANGED <<deviceVars, ghostVars>>

ControlReturn(k) ==
  /\ Done(k, "operate")
  /\ req' = [req EXCEPT ![k] = NoRequest]
  /\ Return(k, "ok", FALSE)
  /\ UNCHANGED <<deviceVars, ghostVars>>

-----------------------------------------------------------------------------
(* GetSG.                                                                  *)

GetSG(k) == Begin(k, "getsg", None, NoControl, "spec", "none", {"ref"}, "plain")

SpecRead(k) ==
  /\ Done(k, "spec")
  /\ Send(k, "plain", None)
  /\ Go(k, "sgcb", {"spec"}, {"spec"})
  /\ UNCHANGED <<deviceVars, ghostVars>>

(* The value of the block is deleted on return. *)
MutSgcbRead(k) ==
  /\ Done(k, "sgcb")
  /\ req' = [req EXCEPT ![k] = NoRequest]
  /\ Go(k, "sub", {"sgcb"} \cup PartSet, {"sgcb"})
  /\ UNCHANGED <<deviceVars, ghostVars>>

(* Its deletion is commented out in the code. *)
SgcbRead(k) ==
  /\ Done(k, "sgcb")
  /\ req' = [req EXCEPT ![k] = NoRequest]
  /\ Go(k, "sub", {"sgcb"} \cup PartSet, {})
  /\ UNCHANGED <<deviceVars, ghostVars>>

(* getSubElementValue deletes the part it was given, although that belongs *)
(* to the value of the block.                                              *)
SubElement(k) ==
  LET part == Parts[call[k].n + 1]
  IN  /\ call[k].pc = "sub" /\ call[k].n < 4
      /\ call' = [call EXCEPT ![k].n = @ + 1]
      /\ live' = [live EXCEPT ![k] = @ \ {part}]
      /\ twice' = (twice \/ part \notin live[k])
      /\ UNCHANGED <<deviceVars, ghostVars, req>>

(* After the last part, or after one that cannot be converted. *)
GetSGReturn(k, ret) ==
  /\ call[k].pc = "sub" /\ call[k].n > 0
  /\ ret = "ok" => call[k].n = 4
  /\ Return(k, ret, FALSE)
  /\ UNCHANGED <<deviceVars, ghostVars, req>>

-----------------------------------------------------------------------------
(* GetFile: the library asks for block after block and hands each to       *)
(* downloadHandler, until that returns false or the file ends.             *)

GetFile(k) == Begin(k, "file", None, NoControl, "block", "none", {"ref", "cDw"}, "plain")

(* The error of the writer is not looked at when the download has ended. *)
MutDownloadFails(k) ==
  /\ Done(k, "block")
  /\ req' = [req EXCEPT ![k] = NoRequest]
  /\ Return(k, "ok", FALSE)
  /\ UNCHANGED <<deviceVars, ghostVars>>

(* The writer returns an error or has written less than it was given: the  *)
(* error is kept in the downloadWriter and GetFile returns it.             *)
DownloadFails(k) ==
  /\ Done(k, "block")
  /\ req' = [req EXCEPT ![k] = NoRequest]
  /\ Return(k, "error", FALSE)
  /\ UNCHANGED <<deviceVars, ghostVars>>

(* The writer takes the block, and the next is asked for. *)
Downloaded(k) ==
  /\ Done(k, "block") /\ call[k].n < Blocks - 1
  /\ Send(k, "plain", None)
  /\ call' = [call EXCEPT ![k].n = @ + 1]
  /\ UNCHANGED <<deviceVars, ghostVars, live, twice>>

GetFileReturn(k) ==
  /\ Done(k, "block") /\ call[k].n = Blocks - 1
  /\ req' = [req EXCEPT ![k] = NoRequest]
  /\ call' = [call EXCEPT ![k] = [@ EXCEPT !.pc = "idle", !.ret = "ok",
                                           !.n = call[k].n + 1, !.defers = {}]]
  /\ live' = [live EXCEPT ![k] = @ \ call[k].defers]
  /\ UNCHANGED <<deviceVars, ghostVars, twice>>

-----------------------------------------------------------------------------
(* The server is destroyed and no call is under way. *)
Finished ==
  /\ phase = "destroyed"
  /\ \A k \in Conns : call[k].pc = "idle" /\ req[k].st = "none"
  /\ UNCHANGED vars

ClientCall(k) ==
  \/ ReadObject(k) \/ GetSG(k) \/ GetFile(k)
  \/ \E n \in Attrs \cap workload.nodes : WriteObject(k, n)
  \/ \E g \in Groups : WriteSG(k, g)
  \/ \E op \in {"control", "controlINC"}, o \in Objs \cap workload.nodes,
        model \in workload.models, timed \in BOOLEAN : Control(k, op, o, model, timed)

ClientStep(k) ==
  \/ Failed(k) \/ TimedOut(k) \/ DropLate(k)
  \/ \E ret \in {"ok", "error"} : ReadObjectReturn(k, ret) \/ GetSGReturn(k, ret)
  \/ ConvertFails(k) \/ TypeKnown(k) \/ Written(k) \/ WriteReturn(k)
  \/ ControlCreated(k) \/ ControlSelected(k) \/ ControlReturn(k)
  \/ SpecRead(k) \/ SgcbRead(k) \/ SubElement(k)
  \/ DownloadFails(k) \/ Downloaded(k) \/ GetFileReturn(k)

clientVars == <<workload, call, live, twice>>

Next ==
  \/ ServerNext /\ UNCHANGED clientVars
  \/ \E k \in Conns : ClientCall(k) \/ ClientStep(k)
  \/ Finished

(* Goroutines of the server run, handlers return, requests are served, and *)
(* the semaphore of the data model lets everybody in who waits.  Nothing   *)
(* is assumed of the clients.                                              *)
Fairness ==
  /\ \A a \in Apps : WF_vars(AppStep(a) /\ UNCHANGED clientVars)
  /\ \A k \in Conns : /\ WF_vars(ServeStep(k) /\ UNCHANGED clientVars)
                       /\ SF_vars(ServeLock(k) /\ UNCHANGED clientVars)
  /\ WF_vars((\E o \in Objs : OperStep(o)) /\ UNCHANGED clientVars)

Spec == Init /\ [][Next]_vars /\ Fairness

-----------------------------------------------------------------------------
(* Properties.                                                             *)

(* The handler that decides on a write or carries out an operation is the  *)
(* one that was installed last for that very node, whatever else was       *)
(* installed before or since, also over a restart of the server and when   *)
(* an operation waits and the handler is called again.                     *)
LatestHandler ==
  /\ \A k \in Conns : req[k].st = "handler" =>
       /\ verdict[k].id = latest[req[k].node]
       /\ callbacks[verdict[k].id] = req[k].node
  /\ \A o \in Objs : oper[o].st = "handler" =>
       /\ oper[o].id = latest[o]
       /\ callbacks[oper[o].id] = o

(* A client that reads value and time stamp together sees both of the same *)
(* update, never one of them before and the other after it.                *)
Snapshot ==
  \A k \in Conns : call[k].op = "read" /\ call[k].ret = "ok" =>
    seen[k].f = seen[k].t

(* What a call reports is what happened.  WriteObject succeeds exactly if  *)
(* the server has written, GetFile only if the writer has taken every      *)
(* block.  Only after a timeout the caller does not know.                  *)
OutcomeReported ==
  \A k \in Conns :
    /\ call[k].op = "write" =>
         /\ call[k].ret = "ok" => verdict[k].ok
         /\ call[k].ret = "error" /\ ~call[k].late => ~verdict[k].ok
    /\ call[k].op = "file" /\ call[k].ret = "ok" => call[k].n = Blocks

(* A control function that succeeds has had its operation accepted,        *)
(* although select and operate are two requests among those of others; how *)
(* it ends is not said.  One that returns an error other than a timeout    *)
(* has had nothing executed, nor will it: no control handler was or will   *)
(* be called for it, also when the server stops before it has answered.    *)
ControlReported ==
  \A k \in Conns : call[k].op \in {"control", "controlINC"} =>
    /\ call[k].ret = "ok" => fate[k] # "none"
    /\ call[k].ret = "error" /\ ~call[k].late => fate[k] \in {"none", "dropped"}

(* WriteSG is all or nothing for the setting, although it is eight         *)
(* requests and other clients change the active group and compete for the  *)
(* edit buffer between them: success means this value was stored in this   *)
(* group, an error other than a timeout that this call stored nothing.     *)
SettingStored ==
  \A k \in Conns : call[k].op = "setsg" =>
    /\ call[k].ret = "ok" =>
         stored[k] = [group |-> call[k].node, val |-> k]
    /\ call[k].ret = "error" /\ ~call[k].late => stored[k] = None

(* What the code is known to leave behind: the control object in the       *)
(* variants for integers and floats, and the value of the control block in *)
(* GetSG with the parts not reached.                                       *)
KnownLeaks(op) ==
  CASE op = "controlINC" -> {"control"}
    [] op = "getsg" -> {"sgcb"} \cup PartSet
    [] OTHER -> {}

(* No C object is freed twice, and none but the known ones is left when a  *)
(* call has returned, on whichever path.                                   *)
ObjectsReleased ==
  /\ ~twice
  /\ \A k \in Conns : call[k].pc = "idle" => live[k] \subseteq KnownLeaks(call[k].op)

(* Stop and Destroy return, also while clients send requests and other     *)
(* goroutines update values under the lock.                                *)
StopReturns ==
  \A a \in Apps : apc[a] \in {"stop", "destroy"} ~> apc[a] = "idle"

=============================================================================
