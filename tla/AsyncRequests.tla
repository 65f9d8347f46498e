---------------------------- MODULE AsyncRequests ----------------------------
(***************************************************************************)
(* The asynchronous discovery requests of a client (client_async.go).      *)
(*                                                                         *)
(* A request stores its Go handler in a cgo.Handle and the handle in a     *)
(* block of C memory, and gives the block to the library as the parameter  *)
(* of a callback.  If the library refuses the request, the caller releases *)
(* both.  Otherwise the connection thread calls the bridge once, with the  *)
(* answer, a timeout or the loss of the connection, possibly before the    *)
(* caller is back from the library; the bridge recovers the handler, runs  *)
(* it, and releases handle and block.  The bridge for name lists keeps     *)
(* them when the server announces that more names follow.                  *)
(*                                                                         *)
(* The library is external.  It calls the bridge exactly once for every    *)
(* request it accepted, from one thread, and answers what is outstanding   *)
(* with an error before IedConnection_destroy returns.                     *)
(***************************************************************************)
EXTENDS Naturals

CONSTANTS
  NameRequests,  \* calls of the three name-list operations
  SpecRequests,  \* calls of GetVariableSpecificationAsync
  None           \* no request

ASSUME RequestsAssumption ==
  /\ NameRequests \cap SpecRequests = {}
  /\ None \notin NameRequests \cup SpecRequests

VARIABLES
  conn,    \* the connection: "up", "lost", "closing", "destroyed"
  caller,  \* caller[q]: the goroutine that makes request q
  handle,  \* handle[q]: the cgo.Handle of the request
  block,   \* block[q]: the C memory that holds the handle
  reply,   \* reply[q]: what the library knows of the request
  busy,    \* the request whose bridge the connection thread is running
  stage,   \* how far that bridge is
  calls    \* calls[q]: how often the request's handler was called

vars == <<conn, caller, handle, block, reply, busy, stage, calls>>

Requests == NameRequests \cup SpecRequests

(* A resource that is released when it is not live is "broken": free of    *)
(* freed memory, or Delete of a handle that does not exist, which panics.  *)
Resource == {"none", "live", "released", "broken"}
Replies == {"none", "pending", "more", "last", "error"}
MaxCalls == 2

(* The type invariant. *)
TypeOK ==
  /\ conn \in {"up", "lost", "closing", "destroyed"}
  /\ caller \in [Requests -> {"idle", "stored", "calling", "refused",
                              "accepted", "failed"}]
  /\ handle \in [Requests -> Resource]
  /\ block \in [Requests -> Resource]
  /\ reply \in [Requests -> Replies]
  /\ busy \in Requests \cup {None}
  /\ stage \in {"idle", "recover", "handler"}
  /\ calls \in [Requests -> 0..MaxCalls]

Init ==
  /\ conn = "up"
  /\ caller = [q \in Requests |-> "idle"]
  /\ handle = [q \in Requests |-> "none"]
  /\ block = [q \in Requests |-> "none"]
  /\ reply = [q \in Requests |-> "none"]
  /\ busy = None
  /\ stage = "idle"
  /\ calls = [q \in Requests |-> 0]

Released(v) == IF v = "live" THEN "released" ELSE "broken"

(* h.Delete() and C.free(param). *)
Release(q) ==
  /\ handle' = [handle EXCEPT ![q] = Released(@)]
  /\ block' = [block EXCEPT ![q] = Released(@)]

-----------------------------------------------------------------------------
(* The caller's goroutine.                                                 *)

(* cgo.NewHandle and storeHandleInC. *)
Begin(q) ==
  /\ conn \in {"up", "lost"} /\ caller[q] = "idle"
  /\ handle' = [handle EXCEPT ![q] = "live"]
  /\ block' = [block EXCEPT ![q] = "live"]
  /\ caller' = [caller EXCEPT ![q] = "stored"]
  /\ UNCHANGED <<conn, reply, busy, stage, calls>>

(* The library takes the request; from here its thread may answer. *)
LibraryAccepts(q) ==
  /\ conn = "up" /\ caller[q] = "stored"
  /\ caller' = [caller EXCEPT ![q] = "calling"]
  /\ reply' = [reply EXCEPT ![q] = "pending"]
  /\ UNCHANGED <<conn, handle, block, busy, stage, calls>>

(* It refuses: not connected, too many outstanding calls, send failure. *)
LibraryRefuses(q) ==
  /\ caller[q] = "stored"
  /\ caller' = [caller EXCEPT ![q] = "refused"]
  /\ UNCHANGED <<conn, handle, block, reply, busy, stage, calls>>

(* A caller that cleans up when the request was accepted as well. *)
MutReturnInvokeId(q) ==
  /\ caller[q] = "calling"
  /\ caller' = [caller EXCEPT ![q] = "accepted"]
  /\ Release(q)
  /\ UNCHANGED <<conn, reply, busy, stage, calls>>

(* The invoke id is returned, whether or not the answer has come already. *)
ReturnInvokeId(q) ==
  /\ caller[q] = "calling"
  /\ caller' = [caller EXCEPT ![q] = "accepted"]
  /\ UNCHANGED <<conn, handle, block, reply, busy, stage, calls>>

ReturnError(q) ==
  /\ caller[q] = "refused"
  /\ Release(q)
  /\ caller' = [caller EXCEPT ![q] = "failed"]
  /\ UNCHANGED <<conn, reply, busy, stage, calls>>

-----------------------------------------------------------------------------
(* The connection thread.                                                  *)

(* The library answers a pending request and calls its bridge. *)
Deliver(q, r) ==
  /\ busy = None /\ reply[q] = "pending"
  /\ r \in (IF q \in NameRequests THEN {"more", "last", "error"}
                                  ELSE {"last", "error"})
  /\ conn \in {"lost", "closing"} => r = "error"
  /\ reply' = [reply EXCEPT ![q] = r]
  /\ busy' = q
  /\ stage' = "recover"
  /\ UNCHANGED <<conn, caller, handle, block, calls>>

(* The bridge returns before the handler when there is an error. *)
MutBridgeHandler ==
  /\ stage = "recover"
  /\ calls[busy] < MaxCalls
  /\ calls' = [calls EXCEPT ![busy] = IF reply[busy] = "error" THEN @ ELSE @ + 1]
  /\ stage' = "handler"
  /\ UNCHANGED <<conn, caller, handle, block, reply, busy>>

(* The bridge reads the block, takes the value of the handle, converts and *)
(* frees the C list or specification, and calls the handler.               *)
BridgeHandler ==
  /\ stage = "recover"
  /\ calls[busy] < MaxCalls
  /\ calls' = [calls EXCEPT ![busy] = @ + 1]
  /\ stage' = "handler"
  /\ UNCHANGED <<conn, caller, handle, block, reply, busy>>

EndBridge == busy' = None /\ stage' = "idle"

(* The release condition without its error case. *)
MutNameBridgeReturn ==
  /\ stage = "handler" /\ busy \in NameRequests
  /\ IF reply[busy] = "last" THEN Release(busy) ELSE UNCHANGED <<handle, block>>
  /\ EndBridge
  /\ UNCHANGED <<conn, caller, reply, calls>>

(* nameListCallbackFunctionBridge after the handler. *)
NameBridgeReturn ==
  /\ stage = "handler" /\ busy \in NameRequests
  /\ IF reply[busy] = "more" THEN UNCHANGED <<handle, block>> ELSE Release(busy)
  /\ EndBridge
  /\ UNCHANGED <<conn, caller, reply, calls>>

(* varSpecCallbackFunctionBridge after the handler. *)
SpecBridgeReturn ==
  /\ stage = "handler" /\ busy \in SpecRequests
  /\ Release(busy)
  /\ EndBridge
  /\ UNCHANGED <<conn, caller, reply, calls>>

-----------------------------------------------------------------------------
(* The connection.  The application closes the client when none of its     *)
(* goroutines is inside a request.                                         *)

ConnectionLost ==
  /\ conn = "up" /\ conn' = "lost"
  /\ UNCHANGED <<caller, handle, block, reply, busy, stage, calls>>

Close ==
  /\ conn \in {"up", "lost"}
  /\ \A q \in Requests : caller[q] \notin {"stored", "calling", "refused"}
  /\ conn' = "closing"
  /\ UNCHANGED <<caller, handle, block, reply, busy, stage, calls>>

CloseReturns ==
  /\ conn = "closing"
  /\ busy = None /\ \A q \in Requests : reply[q] # "pending"
  /\ conn' = "destroyed"
  /\ UNCHANGED <<caller, handle, block, reply, busy, stage, calls>>

Finished == conn = "destroyed" /\ UNCHANGED vars

CallerStep(q) ==
  LibraryAccepts(q) \/ LibraryRefuses(q) \/ ReturnInvokeId(q) \/ ReturnError(q)

ThreadStep ==
  \/ \E q \in Requests, r \in Replies : Deliver(q, r)
  \/ BridgeHandler \/ NameBridgeReturn \/ SpecBridgeReturn

Next ==
  \/ \E q \in Requests : Begin(q) \/ CallerStep(q)
  \/ ThreadStep
  \/ ConnectionLost \/ Close \/ CloseReturns
  \/ Finished

(* A call into the library returns, the connection thread runs, and every  *)
(* outstanding request is answered at the latest by its timeout, which the *)
(* thread checks for each request in turn.                                 *)
Fairness ==
  /\ \A q \in Requests : /\ WF_vars(CallerStep(q))
                         /\ SF_vars(\E r \in Replies : Deliver(q, r))
  /\ WF_vars(ThreadStep)

Safety == Init /\ [][Next]_vars
Spec == Safety /\ Fairness

-----------------------------------------------------------------------------
(* Properties.                                                             *)

(* Nothing is freed or deleted twice, whichever of the caller and the      *)
(* bridge comes first.                                                     *)
NoDoubleRelease == \A q \in Requests : "broken" \notin {handle[q], block[q]}

(* While the bridge of a request runs, the block it dereferences and the   *)
(* handle whose value it takes exist: the caller has not released them.    *)
ParameterAlive ==
  busy # None => handle[busy] = "live" /\ block[busy] = "live"

(* A request that is over. *)
Over(q) ==
  \/ caller[q] = "failed"
  \/ reply[q] \in {"more", "last", "error"} /\ busy # q

(* A request that is over holds no handle and no memory, except a page of  *)
(* a name list that announced more names.                                  *)
ReleasedExceptMore ==
  \A q \in Requests :
    Over(q) /\ reply[q] # "more" => {handle[q], block[q]} = {"released"}

(* Every request that returned an invoke id has its handler called, also   *)
(* when the connection is lost or closed meanwhile.                        *)
HandlerCalled ==
  \A q \in Requests : caller[q] = "accepted" ~> calls[q] = 1

-----------------------------------------------------------------------------
(* The inductive invariant: who owns the handle and the block of a request *)
(* at each moment.  Until the library accepts it is the caller, afterwards *)
(* the bridge.                                                             *)

Owned(q) == handle[q] = "live" /\ block[q] = "live"
Gone(q) == handle[q] = "released" /\ block[q] = "released"

CallerInv(q) ==
  /\ caller[q] = "idle" => handle[q] = "none" /\ block[q] = "none"
  /\ caller[q] \in {"stored", "refused"} => Owned(q)
  /\ caller[q] = "failed" => Gone(q)
  /\ caller[q] \in {"calling", "accepted"} <=> reply[q] # "none"

BridgeInv(q) ==
  /\ reply[q] = "more" => q \in NameRequests
  /\ reply[q] \in {"pending", "more"} => Owned(q)
  /\ reply[q] \in {"last", "error"} /\ busy # q => Gone(q)
  /\ busy = q => reply[q] \in {"more", "last", "error"} /\ Owned(q)
  /\ reply[q] \in {"none", "pending"} => calls[q] = 0
  /\ busy = q /\ stage = "recover" => calls[q] = 0
  /\ calls[q] <= 1

IndInv ==
  /\ TypeOK
  /\ busy = None <=> stage = "idle"
  /\ \A q \in Requests : CallerInv(q) /\ BridgeInv(q)

=============================================================================
