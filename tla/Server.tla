-------------------------------- MODULE Server --------------------------------
(***************************************************************************)
(* The server of the wrapper (server.go, server_handler.go).               *)
(*                                                                         *)
(* Handlers for writes and for controls live in two tables shared by the   *)
(* process; the library is given an id that was drawn from callbackIdGen,  *)
(* and calls one Go function, the bridge, which looks the id up and calls  *)
(* the handler.  The tables have no lock.  An application of the kind the  *)
(* examples show installs its handlers while the server is not running,    *)
(* and updates measured values between LockDataModel and UnlockDataModel   *)
(* while it is.                                                            *)
(*                                                                         *)
(* The library is external: it serves the requests of a connection one     *)
(* after the other, each with the data model locked, and the handler of a  *)
(* write runs inside that lock.  An operation that is accepted is handed   *)
(* to a thread of the server, which answers the request and only then      *)
(* calls the control handler, outside the lock, again and again while it   *)
(* says that it is waiting; a time-activated operation is answered when it *)
(* is accepted.  How an operation ends is sent as a command termination,   *)
(* if at all, for which this client has no handler.  IedServer_stop closes *)
(* the connections and waits for the requests that are being served and    *)
(* the handler that is running; operations under way are dropped.  The     *)
(* library keeps the selection of control objects and the setting groups   *)
(* with the edit buffer itself.                                            *)
(***************************************************************************)
EXTENDS Naturals

CONSTANTS
  Apps,     \* goroutines of the server's application
  Conns,    \* connections of clients, one goroutine of the client on each
  Attrs,    \* attributes a client may write
  Objs,     \* control objects
  SboObjs,  \* the control objects that must be selected before operation
  EnhObjs,  \* the control objects with enhanced security
  Groups,   \* setting groups
  None,     \* nobody, nothing
  MaxIds,   \* bound on the ids drawn from callbackIdGen
  Workloads \* calls, nodes and control models that the clients of a behaviour use

Calls == {"read", "write", "control", "controlINC", "setsg", "getsg", "file"}
ControlModels == {"direct_normal", "sbo_normal", "direct_enhanced", "sbo_enhanced"}

ASSUME ServerAssumption ==
  /\ SboObjs \cup EnhObjs \subseteq Objs
  /\ Attrs \cap Objs = {}
  /\ Apps \cap Conns = {}
  /\ None \notin Apps \cup Conns \cup Attrs \cup Objs \cup Groups
  /\ MaxIds \in Nat
  /\ Workloads \subseteq [calls : SUBSET Calls, nodes : SUBSET (Attrs \cup Objs),
                          models : SUBSET ControlModels]

Nodes == Attrs \cup Objs
Ids == 1..MaxIds

VARIABLES
  workload,   \* the calls that clients make and on what, never changed
  phase,      \* where the server is in its life
  idGen,      \* callbackIdGen
  callbacks,  \* callbacks[i]: the node whose handler has id i in the tables
  param,      \* param[n]: the id the library was given for node n, 0 for none
  latest,     \* latest[n]: the id of the last completed installation for n
  policy,     \* whether attributes without a handler may be written
  lock,       \* who holds the lock of the data model
  meas,       \* a measured value and its time stamp, updated together
  apc,        \* apc[a]: where a goroutine of the application is
  inst        \* inst[a]: the node and id it is installing

VARIABLES
  req,        \* req[k]: the request of connection k
  seen,       \* seen[k]: what a read has collected so far
  verdict,    \* verdict[k]: the id of a write's handler, and its decision
  selected,   \* selected[o]: the connection that has selected o
  oper,       \* oper[o]: the operation of control object o
  fate,       \* fate[k]: what became of the operation of k's last call
  edit,       \* who edits which group, and the value in the edit buffer
  stored      \* stored[k]: what the last confirmation of k has stored

appVars == <<idGen, callbacks, param, latest, policy, inst>>
ctlVars == <<selected, oper, fate>>
devVars == <<ctlVars, edit, stored>>
serverVars == <<phase, appVars, lock, meas, apc, req, seen, verdict,
                devVars>>

NoInst == [node |-> None, id |-> 0]
NoOper == [by |-> None, st |-> "none", id |-> 0, cur |-> FALSE]
NoEdit == [owner |-> None, group |-> None, buf |-> None]
NoRequest == [kind |-> "none", node |-> None, st |-> "none",
              ok |-> FALSE, late |-> FALSE]

ServerInit ==
  /\ workload \in Workloads
  /\ phase = "created"
  /\ idGen = 0
  /\ callbacks = [i \in Ids |-> None]
  /\ param = [n \in Nodes |-> 0]
  /\ latest = [n \in Nodes |-> 0]
  /\ policy = FALSE
  /\ lock = None
  /\ meas = [f |-> 0, t |-> 0]
  /\ apc = [a \in Apps |-> "idle"]
  /\ inst = [a \in Apps |-> NoInst]
  /\ req = [k \in Conns |-> NoRequest]
  /\ seen = [k \in Conns |-> [f |-> 0, t |-> 0]]
  /\ verdict = [k \in Conns |-> [id |-> 0, ok |-> FALSE]]
  /\ selected = [o \in Objs |-> None]
  /\ oper = [o \in Objs |-> NoOper]
  /\ fate = [k \in Conns |-> "none"]
  /\ edit = NoEdit
  /\ stored = [k \in Conns |-> None]

-----------------------------------------------------------------------------
(* The application: handlers.                                              *)

Goto(a, label) == apc' = [apc EXCEPT ![a] = label]

(* Handlers are installed before Start or after Stop, by one goroutine.    *)
MayInstall ==
  /\ phase \in {"created", "stopped"}
  /\ \A a \in Apps : apc[a] = "idle"

(* Every handler is stored under the id of the first. *)
MutSetHandler(a, n) ==
  /\ MayInstall /\ idGen < MaxIds
  /\ idGen' = idGen + 1
  /\ inst' = [inst EXCEPT ![a] = [node |-> n, id |-> 1]]
  /\ Goto(a, "store")
  /\ UNCHANGED <<phase, callbacks, param, latest, policy, lock, meas, req,
                 seen, verdict, devVars>>

(* SetHandleWriteAccess and SetControlHandler. *)
SetHandler(a, n) ==
  /\ MayInstall /\ idGen < MaxIds
  /\ idGen' = idGen + 1
  /\ inst' = [inst EXCEPT ![a] = [node |-> n, id |-> idGen']]
  /\ Goto(a, "store")
  /\ UNCHANGED <<phase, callbacks, param, latest, policy, lock, meas, req,
                 seen, verdict, devVars>>

StoreCallback(a) ==
  /\ apc[a] = "store"
  /\ callbacks' = [callbacks EXCEPT ![inst[a].id] = inst[a].node]
  /\ Goto(a, "install")
  /\ UNCHANGED <<phase, idGen, param, latest, policy, inst, lock, meas, req,
                 seen, verdict, devVars>>

(* IedServer_handleWriteAccess, IedServer_setControlHandler. *)
InstallCallback(a) ==
  /\ apc[a] = "install"
  /\ param' = [param EXCEPT ![inst[a].node] = inst[a].id]
  /\ latest' = [latest EXCEPT ![inst[a].node] = idGen]
  /\ inst' = [inst EXCEPT ![a] = NoInst]
  /\ Goto(a, "idle")
  /\ UNCHANGED <<phase, idGen, callbacks, policy, lock, meas, req,
                 seen, verdict, devVars>>

SetWriteAccessPolicy(a, p) ==
  /\ MayInstall /\ p # policy
  /\ policy' = p
  /\ UNCHANGED <<phase, idGen, callbacks, param, latest, inst, lock, meas, apc,
                 req, seen, verdict, devVars>>

-----------------------------------------------------------------------------
(* The application: start, stop and destroy.                               *)

(* IedServer_start; without the port the server stays as it is. *)
Start(a) ==
  /\ MayInstall
  /\ phase' = "running"
  /\ UNCHANGED <<appVars, lock, meas, apc, req, seen, verdict, devVars>>

(* Stop, and the first half of Destroy on a running server: requests that  *)
(* are not yet being served end with their connection.                     *)
Stop(a, label) ==
  /\ phase = "running" /\ apc[a] = "idle"
  /\ phase' = "stopping"
  /\ Goto(a, label)
  /\ req' = [k \in Conns |-> IF req[k].st = "sent"
                             THEN [req[k] EXCEPT !.st = "answered", !.ok = FALSE]
                             ELSE req[k]]
  /\ UNCHANGED <<appVars, lock, meas, seen, verdict, devVars>>

Serving(k) == req[k].st \in {"waiting", "locked", "half", "handler"}

(* The connections are gone, and with them selections, the edit buffer and *)
(* the operations that no handler is busy with.                            *)
Closed ==
  /\ \A k \in Conns : ~Serving(k)
  /\ \A o \in Objs : oper[o].st # "handler"
  /\ selected' = [o \in Objs |-> None]
  /\ oper' = [o \in Objs |-> NoOper]
  /\ fate' = [k \in Conns |-> IF fate[k] = "accepted" THEN "dropped" ELSE fate[k]]
  /\ req' = [k \in Conns |-> IF req[k].st = "accepted"
                             THEN [req[k] EXCEPT !.st = "answered", !.ok = FALSE]
                             ELSE req[k]]
  /\ edit' = NoEdit
  /\ UNCHANGED stored

StopReturn(a) ==
  /\ apc[a] \in {"stop", "destroy"}
  /\ Closed
  /\ phase' = IF apc[a] = "stop" THEN "stopped" ELSE "destroyed"
  /\ Goto(a, "idle")
  /\ UNCHANGED <<appVars, lock, meas, seen, verdict>>

(* Nobody uses the server while and after it is destroyed. *)
Destroy(a) ==
  /\ MayInstall
  /\ phase' = "destroyed"
  /\ UNCHANGED <<appVars, lock, meas, apc, req, seen, verdict, devVars>>

-----------------------------------------------------------------------------
(* The application: an update of two attributes under the lock.            *)

(* The lock is not waited for. *)
MutLockDataModel(a) ==
  /\ phase \in {"running", "stopping"} /\ apc[a] = "idle"
  /\ lock' = a
  /\ Goto(a, "value")
  /\ UNCHANGED <<phase, appVars, meas, req, seen, verdict, devVars>>

LockDataModel(a) ==
  /\ phase \in {"running", "stopping"} /\ apc[a] = "idle"
  /\ lock = None
  /\ lock' = a
  /\ Goto(a, "value")
  /\ UNCHANGED <<phase, appVars, meas, req, seen, verdict, devVars>>

UpdateFloatAttributeValue(a) ==
  /\ apc[a] = "value"
  /\ meas' = [meas EXCEPT !.f = 1 - @]
  /\ Goto(a, "time")
  /\ UNCHANGED <<phase, appVars, lock, req, seen, verdict, devVars>>

UpdateUTCTimeAttributeValue(a) ==
  /\ apc[a] = "time"
  /\ meas' = [meas EXCEPT !.t = 1 - @]
  /\ Goto(a, "unlock")
  /\ UNCHANGED <<phase, appVars, lock, req, seen, verdict, devVars>>

(* The next update goes on under the same lock. *)
MutUnlockDataModel(a) ==
  /\ apc[a] = "unlock"
  /\ Goto(a, "value")
  /\ UNCHANGED <<phase, appVars, lock, meas, req, seen, verdict, devVars>>

UnlockDataModel(a) ==
  /\ apc[a] = "unlock"
  /\ lock' = None
  /\ Goto(a, "idle")
  /\ UNCHANGED <<phase, appVars, meas, req, seen, verdict, devVars>>

-----------------------------------------------------------------------------
(* The library serves a request.                                           *)

(* Requests about types, files, the control block and the active group     *)
(* change nothing here and do not need the lock.                           *)
ServePlain(k, ok) ==
  /\ req[k].st = "sent" /\ req[k].kind = "plain" /\ phase = "running"
  /\ req' = [req EXCEPT ![k] = IF @.late THEN NoRequest
                               ELSE [@ EXCEPT !.st = "answered", !.ok = ok]]
  /\ UNCHANGED <<phase, appVars, lock, meas, apc, seen, verdict, devVars>>

(* Every other request waits for the lock, ... *)
Serve(k) ==
  /\ req[k].st = "sent" /\ req[k].kind # "plain" /\ phase = "running"
  /\ req' = [req EXCEPT ![k].st = "waiting"]
  /\ UNCHANGED <<phase, appVars, lock, meas, apc, seen, verdict, devVars>>

ServeLock(k) ==
  /\ req[k].st = "waiting" /\ lock = None
  /\ lock' = k
  /\ req' = [req EXCEPT ![k].st = "locked"]
  /\ UNCHANGED <<phase, appVars, meas, apc, seen, verdict, devVars>>

(* ... and answers, unless the client has given up waiting. *)
Answer(k, ok) ==
  /\ lock' = None
  /\ req' = [req EXCEPT ![k] = IF @.late THEN NoRequest
                               ELSE [@ EXCEPT !.st = "answered", !.ok = ok]]

AtKind(k, kind) == req[k].st = "locked" /\ req[k].kind = kind

(* Any request may be refused for reasons of its own. *)
Refuse(k) ==
  /\ req[k].st = "locked"
  /\ Answer(k, FALSE)
  /\ UNCHANGED <<phase, appVars, meas, apc, seen, verdict, devVars>>

(* A structure is read attribute by attribute. *)
ReadFirst(k) ==
  /\ AtKind(k, "read")
  /\ seen' = [seen EXCEPT ![k].f = meas.f]
  /\ req' = [req EXCEPT ![k].st = "half"]
  /\ UNCHANGED <<phase, appVars, lock, meas, apc, verdict, devVars>>

ReadSecond(k) ==
  /\ req[k].st = "half"
  /\ seen' = [seen EXCEPT ![k].t = meas.t]
  /\ Answer(k, TRUE)
  /\ UNCHANGED <<phase, appVars, meas, apc, verdict, devVars>>

(* What the library does when the decision on a write is known. *)
Decide(k, ok) ==
  /\ verdict' = [verdict EXCEPT ![k] = [id |-> 0, ok |-> ok]]
  /\ Answer(k, ok)
  /\ UNCHANGED <<phase, appVars, meas, apc, seen, devVars>>

(* Without a handler the policy decides on a write. *)
NoHandler(k) ==
  /\ AtKind(k, "decide") /\ param[req[k].node] = 0
  /\ Decide(k, policy)

(* writeAccessHandlerBridge: no entry, or a value that cannot be converted, *)
(* and the write is denied ...                                             *)
BridgeDenies(k) ==
  /\ AtKind(k, "decide") /\ param[req[k].node] # 0
  /\ Decide(k, FALSE)

(* ... otherwise the handler is called. *)
BridgeCalls(k) ==
  LET i == param[req[k].node]
  IN  /\ AtKind(k, "decide") /\ i # 0
      /\ callbacks[i] # None
      /\ verdict' = [verdict EXCEPT ![k] = [id |-> i, ok |-> FALSE]]
      /\ req' = [req EXCEPT ![k].st = "handler"]
      /\ UNCHANGED <<phase, appVars, lock, meas, apc, seen, devVars>>

HandlerReturn(k, ok) ==
  /\ req[k].st = "handler"
  /\ Decide(k, ok)

-----------------------------------------------------------------------------
(* Control objects.                                                        *)

(* An object is selected in the way of its control model, by one client. *)
ServeSelect(k) ==
  LET o == req[k].node
  IN  /\ req[k].st = "locked" /\ req[k].kind \in {"select", "selectWithValue"}
      /\ IF /\ o \in SboObjs /\ (o \in EnhObjs <=> req[k].kind = "selectWithValue")
            /\ selected[o] = None /\ oper[o].st = "none"
         THEN selected' = [selected EXCEPT ![o] = k] /\ Answer(k, TRUE)
         ELSE UNCHANGED selected /\ Answer(k, FALSE)
      /\ UNCHANGED <<phase, appVars, meas, apc, seen, verdict, oper, fate, edit,
                     stored>>

(* An operation is accepted if the object is idle and, where it must be    *)
(* selected, was selected by this client.                                  *)
Accept(k, st) ==
  LET o == req[k].node
  IN  /\ req[k].st = "locked" /\ oper[o].st = "none"
      /\ o \in SboObjs => selected[o] = k
      /\ oper' = [oper EXCEPT ![o] = [by |-> k, st |-> st, id |-> 0, cur |-> TRUE]]
      /\ fate' = [fate EXCEPT ![k] = "accepted"]
      /\ UNCHANGED <<phase, appVars, meas, apc, seen, verdict, selected, edit, stored>>

AcceptOperate(k) ==
  /\ req[k].kind \in {"operate", "operateAt"}
  /\ Accept(k, "accepted")
  /\ lock' = None
  /\ req' = [req EXCEPT ![k].st = "accepted"]

(* The time is looked at if the object has an operTm and it is to come. *)
AcceptTimed(k) ==
  /\ req[k].kind = "operateAt"
  /\ Accept(k, "timed")
  /\ Answer(k, TRUE)

(* The thread that executes operations does so until the server is stopped. *)
Executes(o, st) == oper[o].st = st /\ phase = "running"

TimeReached(o) ==
  /\ Executes(o, "timed")
  /\ oper' = [oper EXCEPT ![o].st = "due"]
  /\ UNCHANGED <<phase, appVars, lock, meas, apc, req, seen, verdict, selected,
                 fate, edit, stored>>

(* The request is answered before the operation is executed. *)
AnswerOperate(o) ==
  /\ Executes(o, "accepted")
  /\ oper' = [oper EXCEPT ![o].st = "due"]
  /\ req' = [req EXCEPT ![oper[o].by] =
               IF @.late THEN NoRequest ELSE [@ EXCEPT !.st = "answered", !.ok = TRUE]]
  /\ UNCHANGED <<phase, appVars, lock, meas, apc, seen, verdict, selected, fate,
                 edit, stored>>

Becomes(o, what) ==
  fate' = IF oper[o].cur THEN [fate EXCEPT ![oper[o].by] = what] ELSE fate

(* The end of an operation is the end of the selection. *)
Finish(o, what) ==
  /\ oper' = [oper EXCEPT ![o] = NoOper]
  /\ selected' = [selected EXCEPT ![o] = None]
  /\ Becomes(o, what)
  /\ UNCHANGED <<phase, appVars, lock, meas, apc, req, seen, verdict, edit, stored>>

(* Without a handler an operation succeeds. *)
OperateUnhandled(o) ==
  /\ Executes(o, "due") /\ param[o] = 0
  /\ Finish(o, "done")

(* controlHandlerBridge: no entry, or a value that cannot be converted,    *)
(* and the operation fails ...                                             *)
ControlDenied(o) ==
  /\ Executes(o, "due") /\ param[o] # 0
  /\ Finish(o, "failed")

(* ... otherwise the handler is called, ... *)
ControlCalls(o) ==
  /\ Executes(o, "due") /\ param[o] # 0
  /\ callbacks[param[o]] # None
  /\ oper' = [oper EXCEPT ![o] = [@ EXCEPT !.st = "handler", !.id = param[o]]]
  /\ Becomes(o, "started")
  /\ UNCHANGED <<phase, appVars, lock, meas, apc, req, seen, verdict, selected,
                 edit, stored>>

(* ... which carries the operation out, fails, ... *)
ControlReturns(o, result) ==
  /\ oper[o].st = "handler"
  /\ Finish(o, result)

(* ... or says CONTROL_RESULT_WAITING, and will be called again. *)
ControlWaits(o) ==
  /\ oper[o].st = "handler"
  /\ oper' = [oper EXCEPT ![o] = [@ EXCEPT !.st = "due", !.id = 0]]
  /\ UNCHANGED <<phase, appVars, lock, meas, apc, req, seen, verdict, selected,
                 fate, edit, stored>>

-----------------------------------------------------------------------------
(* Setting groups of the device.                                           *)

(* Another client's edit is not interrupted. *)
ServeEditSG(k) ==
  /\ AtKind(k, "edit")
  /\ IF edit.owner \in {None, k}
     THEN /\ edit' = [owner |-> k, group |-> req[k].node,
                      buf |-> None]
          /\ Answer(k, TRUE)
     ELSE UNCHANGED edit /\ Answer(k, FALSE)
  /\ UNCHANGED <<phase, appVars, meas, apc, seen, verdict, ctlVars, stored>>

ServeEditValue(k) ==
  /\ AtKind(k, "value")
  /\ IF edit.owner = k
     THEN edit' = [edit EXCEPT !.buf = k] /\ Answer(k, TRUE)
     ELSE UNCHANGED edit /\ Answer(k, FALSE)
  /\ UNCHANGED <<phase, appVars, meas, apc, seen, verdict, ctlVars, stored>>

ServeConfirm(k) ==
  /\ AtKind(k, "confirm")
  /\ IF edit.owner = k
     THEN /\ stored' = [stored EXCEPT ![k] = [group |-> edit.group, val |-> edit.buf]]
          /\ edit' = NoEdit
          /\ Answer(k, TRUE)
     ELSE UNCHANGED <<stored, edit>> /\ Answer(k, FALSE)
  /\ UNCHANGED <<phase, appVars, meas, apc, seen, verdict, ctlVars>>

(* Selections and edits that are not continued expire. *)
SelectTimeout(o) ==
  /\ selected[o] # None /\ oper[o].st = "none"
  /\ selected' = [selected EXCEPT ![o] = None]
  /\ UNCHANGED <<phase, appVars, lock, meas, apc, req, seen, verdict, oper, fate,
                 edit, stored>>

EditTimeout ==
  /\ edit.owner # None
  /\ edit' = NoEdit
  /\ UNCHANGED <<phase, appVars, lock, meas, apc, req, seen, verdict, ctlVars,
                 stored>>

-----------------------------------------------------------------------------
AppStep(a) ==
  \/ StoreCallback(a) \/ InstallCallback(a) \/ StopReturn(a)
  \/ UpdateFloatAttributeValue(a) \/ UpdateUTCTimeAttributeValue(a)
  \/ UnlockDataModel(a)

(* One goroutine installs handlers, starts, stops and destroys the server; *)
(* all may update values.  Handlers are installed only for the nodes that  *)
(* the clients use, and values updated only if they are read.              *)
Main == CHOOSE a \in Apps : TRUE

AppCall(a) ==
  \/ /\ a = Main
     /\ \/ \E n \in workload.nodes : SetHandler(a, n)
        \/ \E p \in BOOLEAN : "write" \in workload.calls /\ SetWriteAccessPolicy(a, p)
        \/ Start(a) \/ Stop(a, "stop") \/ Stop(a, "destroy") \/ Destroy(a)
  \/ "read" \in workload.calls /\ LockDataModel(a)

ServeStep(k) ==
  \/ Refuse(k) \/ ReadFirst(k) \/ ReadSecond(k)
  \/ NoHandler(k) \/ BridgeDenies(k) \/ BridgeCalls(k)
  \/ \E ok \in BOOLEAN : HandlerReturn(k, ok) \/ ServePlain(k, ok)
  \/ ServeSelect(k) \/ AcceptOperate(k) \/ AcceptTimed(k)
  \/ ServeEditSG(k) \/ ServeEditValue(k) \/ ServeConfirm(k)

OperStep(o) ==
  \/ TimeReached(o) \/ AnswerOperate(o) \/ OperateUnhandled(o)
  \/ ControlDenied(o) \/ ControlCalls(o) \/ ControlWaits(o)
  \/ \E result \in {"done", "failed"} : ControlReturns(o, result)

ServerNext ==
  \/ \E a \in Apps : AppCall(a) \/ AppStep(a)
  \/ \E k \in Conns : Serve(k) \/ ServeLock(k) \/ ServeStep(k)
  \/ \E o \in Objs : OperStep(o) \/ SelectTimeout(o)
  \/ EditTimeout

=============================================================================
