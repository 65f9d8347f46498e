------------------------------- MODULE Receiver -------------------------------
(***************************************************************************)
(* The GOOSE and the Sampled Values receivers (goose_receiver.go,          *)
(* goose_subscriber.go, sv_receiver.go, sv_subscriber.go).                 *)
(*                                                                         *)
(* A receiver owns a C object with a list of C subscribers and, once       *)
(* started, a C thread that reads frames and calls the listener of the     *)
(* subscriber a frame belongs to.  The listener is one Go function for all *)
(* receivers: it finds the application's handler in a table shared by the  *)
(* whole process, callbackRefs, under the read lock of an RWMutex, and     *)
(* runs the handler before it gives the lock back.  AddSubscriber,         *)
(* RemoveSubscriber and Destroy change the table under the write lock.     *)
(*                                                                         *)
(* The two flavours have the same shape and differ in the order of the     *)
(* writes in AddSubscriber and in what the C library does on destruction:  *)
(* GooseReceiver_destroy stops a running thread and joins it,              *)
(* SVReceiver_destroy frees the receiver whether or not its thread runs.   *)
(*                                                                         *)
(* A subscriber and its handler id are one value here: the id is drawn     *)
(* from an atomic counter when the subscriber is made and never changes.   *)
(***************************************************************************)
CONSTANTS
  Apps,       \* goroutines of the application
  Receivers,  \* receivers; a receiver's name also names its C thread
  Subs,       \* subscribers
  None,       \* no process, no receiver, no subscriber
  Stopped,    \* flavours used by applications that stop a receiver first
  Unstopped   \* flavours used by applications that do not

ASSUME ConstantsAssumption ==
  /\ Apps \cap Receivers = {}
  /\ None \notin Apps \cup Receivers \cup Subs
  /\ Stopped \cup Unstopped \subseteq {"goose", "sv"}

VARIABLES
  flavour,       \* "goose" or "sv", chosen at the start
  stopFirst,     \* the application adds, removes and destroys only while the
                 \* receiver's thread is not running; chosen at the start
  writer,        \* who has called Lock on the RWMutex and keeps readers out
  readers,       \* processes that hold the read lock
  callbackRefs,  \* subscribers with an entry in the shared table
  refs,          \* refs[r]: the receiver's own record of its subscribers
  clist,         \* clist[r]: the subscriber list of the C receiver
  csub,          \* csub[s]: the C subscriber object
  crecv,         \* crecv[r]: the C receiver object
  thread,        \* thread[r]: the C thread of the receiver
  pc,            \* where each process is
  op,            \* the call a process is executing
  rcv, sub       \* receiver and subscriber that call or callback is about

vars == <<flavour, stopFirst, writer, readers, callbackRefs, refs, clist, csub,
          crecv, thread, pc, op, rcv, sub>>

Procs == Apps \cup Receivers

CallLabels == {"lock", "drain", "crit1", "crit2", "join", "stop"}
CriticalLabels == {"crit1", "crit2", "join"}
Labels == CallLabels \cup {"idle", "rlock", "handler"}
Ops == {"none", "add", "remove", "destroy", "stop", "dispatch"}
Objects == {"none", "live", "freed"}

(* The type invariant. *)
TypeOK ==
  /\ flavour \in {"goose", "sv"}
  /\ stopFirst \in BOOLEAN
  /\ writer \in Apps \cup {None}
  /\ readers \subseteq Procs
  /\ callbackRefs \subseteq Subs
  /\ refs \in [Receivers -> SUBSET Subs]
  /\ clist \in [Receivers -> SUBSET Subs]
  /\ csub \in [Subs -> Objects]
  /\ crecv \in [Receivers -> Objects]
  /\ thread \in [Receivers -> {"none", "running", "stopping", "exited"}]
  /\ pc \in [Procs -> Labels]
  /\ op \in [Procs -> Ops]
  /\ rcv \in [Procs -> Receivers \cup {None}]
  /\ sub \in [Procs -> Subs \cup {None}]

Init ==
  /\ \/ stopFirst = TRUE /\ flavour \in Stopped
     \/ stopFirst = FALSE /\ flavour \in Unstopped
  /\ writer = None
  /\ readers = {}
  /\ callbackRefs = {}
  /\ refs = [r \in Receivers |-> {}]
  /\ clist = [r \in Receivers |-> {}]
  /\ csub = [s \in Subs |-> "none"]
  /\ crecv = [r \in Receivers |-> "none"]
  /\ thread = [r \in Receivers |-> "none"]
  /\ pc = [p \in Procs |-> "idle"]
  /\ op = [p \in Procs |-> "none"]
  /\ rcv = [p \in Procs |-> None]
  /\ sub = [p \in Procs |-> None]

-----------------------------------------------------------------------------
(* Program counters and the RWMutex (package sync).                        *)

(* Flavour and use of the API are chosen once. *)
mode == <<flavour, stopFirst>>

Goto(p, label) == pc' = [pc EXCEPT ![p] = label] /\ UNCHANGED mode

Enter(p, o, r, s, label) ==
  /\ pc[p] = "idle"
  /\ Goto(p, label)
  /\ op' = [op EXCEPT ![p] = o]
  /\ rcv' = [rcv EXCEPT ![p] = r]
  /\ sub' = [sub EXCEPT ![p] = s]

Leave(p) ==
  /\ Goto(p, "idle")
  /\ op' = [op EXCEPT ![p] = "none"]
  /\ rcv' = [rcv EXCEPT ![p] = None]
  /\ sub' = [sub EXCEPT ![p] = None]

callVars == <<op, rcv, sub>>
lockVars == <<writer, readers>>
tableVars == <<callbackRefs, refs>>
libVars == <<clist, csub, crecv, thread>>

(* Lock, first half: the writer wins the inner mutex and announces itself, *)
(* from then on no new reader gets in.                                     *)
LockAnnounce(p) ==
  /\ pc[p] = "lock"
  /\ writer = None
  /\ writer' = p
  /\ Goto(p, "drain")
  /\ UNCHANGED <<readers, tableVars, libVars, callVars>>

(* A lock that does not wait for the readers inside. *)
MutLockNoDrain(p) ==
  /\ pc[p] = "drain"
  /\ Goto(p, "crit1")
  /\ UNCHANGED <<lockVars, tableVars, libVars, callVars>>

(* Lock, second half: the readers that were inside have left. *)
LockDrained(p) ==
  /\ pc[p] = "drain"
  /\ readers = {}
  /\ Goto(p, "crit1")
  /\ UNCHANGED <<lockVars, tableVars, libVars, callVars>>

Unlock(p) == writer' = None

-----------------------------------------------------------------------------
(* How the application uses the API.  It creates an object before it uses  *)
(* it, gives a subscriber to one receiver at a time, does not use an       *)
(* object that is destroyed or being destroyed, and restarts a receiver    *)
(* only when Stop has returned.  With stopFirst it also follows the        *)
(* library's rule that the list of subscribers changes only while the      *)
(* receiver is not running.                                                *)

Running(r) == thread[r] \in {"running", "stopping"}

Quiet(r) == ~Running(r) /\ \A p \in Procs : rcv[p] = r => pc[p] \in CallLabels

Usable(r) ==
  /\ crecv[r] = "live"
  /\ \A p \in Procs : ~(op[p] = "destroy" /\ rcv[p] = r)

Unclaimed(s) ==
  /\ csub[s] = "live"
  /\ \A r \in Receivers : s \notin refs[r] \cup clist[r]
  /\ \A a \in Apps : ~(op[a] \in {"add", "remove"} /\ sub[a] = s)

MayChange(r) == Usable(r) /\ (stopFirst => Quiet(r))

Alone(r) == \A a \in Apps : rcv[a] # r

-----------------------------------------------------------------------------
(* Constructors.                                                           *)

NewGooseReceiver(a, r) ==
  /\ pc[a] = "idle"
  /\ crecv[r] = "none"
  /\ crecv' = [crecv EXCEPT ![r] = "live"]
  /\ UNCHANGED <<lockVars, tableVars, clist, csub, thread, pc, callVars, mode>>

NewGooseSubscriber(a, s) ==
  /\ pc[a] = "idle"
  /\ csub[s] = "none"
  /\ csub' = [csub EXCEPT ![s] = "live"]
  /\ UNCHANGED <<lockVars, tableVars, clist, crecv, thread, pc, callVars, mode>>

(* GooseSubscriber.Destroy; the SV wrapper has no such method. *)
SubscriberDestroy(a, s) ==
  /\ flavour = "goose"
  /\ pc[a] = "idle"
  /\ Unclaimed(s)
  /\ stopFirst => \A p \in Procs : sub[p] # s
  /\ csub' = [csub EXCEPT ![s] = "freed"]
  /\ UNCHANGED <<lockVars, tableVars, clist, crecv, thread, pc, callVars, mode>>

-----------------------------------------------------------------------------
(* AddSubscriber.                                                          *)

AddSubscriber(a, r, s) ==
  /\ MayChange(r) /\ Unclaimed(s)
  /\ Enter(a, "add", r, s, "lock")
  /\ UNCHANGED <<lockVars, tableVars, libVars>>

(* The table entry is made before the subscriber has been given its id. *)
MutGooseAddTables(a) ==
  /\ flavour = "goose" /\ op[a] = "add" /\ pc[a] = "crit1"
  /\ callbackRefs' = callbackRefs \cup {None}
  /\ refs' = [refs EXCEPT ![rcv[a]] = @ \cup {sub[a]}]
  /\ Goto(a, "crit2")
  /\ UNCHANGED <<lockVars, libVars, callVars>>

(* GOOSE: table and refs first, then the listener and the C list. *)
GooseAddTables(a) ==
  /\ flavour = "goose" /\ op[a] = "add" /\ pc[a] = "crit1"
  /\ callbackRefs' = callbackRefs \cup {sub[a]}
  /\ refs' = [refs EXCEPT ![rcv[a]] = @ \cup {sub[a]}]
  /\ Goto(a, "crit2")
  /\ UNCHANGED <<lockVars, libVars, callVars>>

GooseAddLibrary(a) ==
  /\ flavour = "goose" /\ op[a] = "add" /\ pc[a] = "crit2"
  /\ clist' = [clist EXCEPT ![rcv[a]] = @ \cup {sub[a]}]
  /\ Unlock(a) /\ Leave(a)
  /\ UNCHANGED <<readers, tableVars, csub, crecv, thread>>

(* SV: table, then the C list, then refs. *)
SvAddTable(a) ==
  /\ flavour = "sv" /\ op[a] = "add" /\ pc[a] = "crit1"
  /\ callbackRefs' = callbackRefs \cup {sub[a]}
  /\ clist' = [clist EXCEPT ![rcv[a]] = @ \cup {sub[a]}]
  /\ Goto(a, "crit2")
  /\ UNCHANGED <<lockVars, refs, csub, crecv, thread, callVars>>

(* AddSubscriber returns without Unlock. *)
MutSvAddNoUnlock(a) ==
  /\ flavour = "sv" /\ op[a] = "add" /\ pc[a] = "crit2"
  /\ refs' = [refs EXCEPT ![rcv[a]] = @ \cup {sub[a]}]
  /\ Leave(a)
  /\ UNCHANGED <<lockVars, callbackRefs, libVars>>

SvAddRefs(a) ==
  /\ flavour = "sv" /\ op[a] = "add" /\ pc[a] = "crit2"
  /\ refs' = [refs EXCEPT ![rcv[a]] = @ \cup {sub[a]}]
  /\ Unlock(a) /\ Leave(a)
  /\ UNCHANGED <<readers, callbackRefs, libVars>>

-----------------------------------------------------------------------------
(* RemoveSubscriber: the C list first, then the table and refs.            *)

RemoveSubscriber(a, r, s) ==
  /\ MayChange(r) /\ s \in clist[r]
  /\ Enter(a, "remove", r, s, "lock")
  /\ UNCHANGED <<lockVars, tableVars, libVars>>

RemoveLibrary(a) ==
  /\ op[a] = "remove" /\ pc[a] = "crit1"
  /\ clist' = [clist EXCEPT ![rcv[a]] = @ \ {sub[a]}]
  /\ Goto(a, "crit2")
  /\ UNCHANGED <<lockVars, tableVars, csub, crecv, thread, callVars>>

(* The entry of the shared table is left behind. *)
MutRemoveTables(a) ==
  /\ op[a] = "remove" /\ pc[a] = "crit2"
  /\ refs' = [refs EXCEPT ![rcv[a]] = @ \ {sub[a]}]
  /\ Unlock(a) /\ Leave(a)
  /\ UNCHANGED <<readers, callbackRefs, libVars>>

RemoveTables(a) ==
  /\ op[a] = "remove" /\ pc[a] = "crit2"
  /\ callbackRefs' = callbackRefs \ {sub[a]}
  /\ refs' = [refs EXCEPT ![rcv[a]] = @ \ {sub[a]}]
  /\ Unlock(a) /\ Leave(a)
  /\ UNCHANGED <<readers, libVars>>

-----------------------------------------------------------------------------
(* Destroy: the table loses every subscriber in refs, then the library     *)
(* frees the receiver and the subscribers on its list, all under the lock. *)

Destroy(a, r) ==
  /\ MayChange(r) /\ Alone(r)
  /\ Enter(a, "destroy", r, None, "lock")
  /\ UNCHANGED <<lockVars, tableVars, libVars>>

DestroyTable(a) ==
  /\ op[a] = "destroy" /\ pc[a] = "crit1"
  /\ callbackRefs' = callbackRefs \ refs[rcv[a]]
  /\ Goto(a, "crit2")
  /\ UNCHANGED <<lockVars, refs, libVars, callVars>>

(* Every subscriber with a handler is freed, not only the receiver's own. *)
MutFreeReceiver(r) ==
  /\ csub' = [s \in Subs |-> IF s \in clist[r] \cup callbackRefs
                             THEN "freed" ELSE csub[s]]
  /\ crecv' = [crecv EXCEPT ![r] = "freed"]
  /\ clist' = [clist EXCEPT ![r] = {}]

FreeReceiver(r) ==
  /\ csub' = [s \in Subs |-> IF s \in clist[r] THEN "freed" ELSE csub[s]]
  /\ crecv' = [crecv EXCEPT ![r] = "freed"]
  /\ clist' = [clist EXCEPT ![r] = {}]

(* GooseReceiver_destroy stops the thread if it runs ... *)
GooseDestroyStop(a) ==
  /\ flavour = "goose" /\ op[a] = "destroy" /\ pc[a] = "crit2"
  /\ thread' = IF thread[rcv[a]] = "running"
               THEN [thread EXCEPT ![rcv[a]] = "stopping"] ELSE thread
  /\ Goto(a, "join")
  /\ UNCHANGED <<lockVars, tableVars, clist, csub, crecv, callVars>>

(* ... joins it, and frees; then refs and the C pointer become nil. *)
GooseDestroyFree(a) ==
  /\ op[a] = "destroy" /\ pc[a] = "join"
  /\ ~Running(rcv[a])
  /\ FreeReceiver(rcv[a])
  /\ refs' = [refs EXCEPT ![rcv[a]] = {}]
  /\ Unlock(a) /\ Leave(a)
  /\ UNCHANGED <<readers, callbackRefs, thread>>

SvDestroyFree(a) ==
  /\ flavour = "sv" /\ op[a] = "destroy" /\ pc[a] = "crit2"
  /\ FreeReceiver(rcv[a])
  /\ refs' = [refs EXCEPT ![rcv[a]] = {}]
  /\ Unlock(a) /\ Leave(a)
  /\ UNCHANGED <<readers, callbackRefs, thread>>

-----------------------------------------------------------------------------
(* Start and Stop take no lock; Stop returns when the thread has ended.    *)

Start(a, r) ==
  /\ pc[a] = "idle" /\ Usable(r) /\ ~Running(r)
  /\ \A b \in Apps : rcv[b] = r => ~stopFirst /\ op[b] # "stop"
  /\ thread' = [thread EXCEPT ![r] = "running"]
  /\ UNCHANGED <<lockVars, tableVars, clist, csub, crecv, pc, callVars, mode>>

Stop(a, r) ==
  /\ Usable(r) /\ thread[r] = "running"
  /\ thread' = [thread EXCEPT ![r] = "stopping"]
  /\ Enter(a, "stop", r, None, "stop")
  /\ UNCHANGED <<lockVars, tableVars, clist, csub, crecv>>

StopReturn(a) ==
  /\ pc[a] = "stop"
  /\ ~Running(rcv[a])
  /\ Leave(a)
  /\ UNCHANGED <<lockVars, tableVars, libVars>>

-----------------------------------------------------------------------------
(* The library: the thread's loop, and the frame it hands to a listener.   *)
(* The thread looks at the stop flag after each round of the loop, so one  *)
(* more frame may be dispatched after Stop has set it.                     *)

ThreadExit(r) ==
  /\ thread[r] = "stopping" /\ pc[r] = "idle"
  /\ thread' = [thread EXCEPT ![r] = "exited"]
  /\ UNCHANGED <<lockVars, tableVars, clist, csub, crecv, pc, callVars, mode>>

EndRound(p) ==
  thread' = IF p \in Receivers /\ thread[p] = "stopping"
            THEN [thread EXCEPT ![p] = "exited"] ELSE thread

(* A frame for subscriber s reaches the thread of receiver r. *)
Frame(r, s) ==
  /\ Running(r) /\ s \in clist[r]
  /\ Enter(r, "dispatch", r, s, "rlock")
  /\ UNCHANGED <<lockVars, tableVars, libVars>>

(* Tick: the application's goroutine takes the frame instead. *)
Tick(a, r, s) ==
  /\ Usable(r) /\ thread[r] = "running" /\ s \in clist[r]
  /\ Enter(a, "dispatch", r, s, "rlock")
  /\ UNCHANGED <<lockVars, tableVars, libVars>>

-----------------------------------------------------------------------------
(* The listener in Go: cgoReportCallbackBridgeDispatcher and               *)
(* svCGOReportHandler.                                                     *)

(* The read lock is given back before the handler runs. *)
MutDispatchUnlocked(p) ==
  /\ pc[p] = "rlock" /\ writer = None
  /\ sub[p] \in callbackRefs
  /\ Goto(p, "handler")
  /\ UNCHANGED <<lockVars, tableVars, libVars, callVars>>

(* The handler is registered: it runs with the read lock held. *)
DispatchFound(p) ==
  /\ pc[p] = "rlock" /\ writer = None
  /\ sub[p] \in callbackRefs
  /\ readers' = readers \cup {p}
  /\ Goto(p, "handler")
  /\ UNCHANGED <<writer, tableVars, libVars, callVars>>

(* It is not: the frame is dropped and the lock given back at once. *)
DispatchMissing(p) ==
  /\ pc[p] = "rlock" /\ writer = None
  /\ sub[p] \notin callbackRefs
  /\ EndRound(p) /\ Leave(p)
  /\ UNCHANGED <<lockVars, tableVars, clist, csub, crecv>>

(* The listener returns without RUnlock. *)
MutHandlerReturn(p) ==
  /\ pc[p] = "handler"
  /\ EndRound(p) /\ Leave(p)
  /\ UNCHANGED <<lockVars, tableVars, clist, csub, crecv>>

HandlerReturn(p) ==
  /\ pc[p] = "handler"
  /\ readers' = readers \ {p}
  /\ EndRound(p) /\ Leave(p)
  /\ UNCHANGED <<writer, tableVars, clist, csub, crecv>>

-----------------------------------------------------------------------------
(* A process that has used up its objects may rest. *)
Finished ==
  /\ \A p \in Procs : pc[p] = "idle"
  /\ \A r \in Receivers : crecv[r] = "freed"
  /\ UNCHANGED vars

CallStep(a) ==
  \/ LockAnnounce(a) \/ LockDrained(a)
  \/ GooseAddTables(a) \/ GooseAddLibrary(a)
  \/ SvAddTable(a) \/ SvAddRefs(a)
  \/ RemoveLibrary(a) \/ RemoveTables(a)
  \/ DestroyTable(a) \/ GooseDestroyStop(a) \/ GooseDestroyFree(a)
  \/ SvDestroyFree(a)
  \/ StopReturn(a)

DispatchStep(p) == DispatchFound(p) \/ DispatchMissing(p) \/ HandlerReturn(p)

Request(a) ==
  \/ \E r \in Receivers : \/ NewGooseReceiver(a, r) \/ Destroy(a, r)
                          \/ Start(a, r) \/ Stop(a, r)
  \/ \E s \in Subs : NewGooseSubscriber(a, s) \/ SubscriberDestroy(a, s)
  \/ \E r \in Receivers, s \in Subs :
       AddSubscriber(a, r, s) \/ RemoveSubscriber(a, r, s) \/ Tick(a, r, s)

Next ==
  \/ \E a \in Apps : Request(a) \/ CallStep(a)
  \/ \E p \in Procs : DispatchStep(p)
  \/ \E r \in Receivers : ThreadExit(r)
  \/ \E r \in Receivers, s \in Subs : Frame(r, s)
  \/ Finished

(* Handlers return and the Go scheduler runs every goroutine.  sync.Mutex  *)
(* hands itself to a waiter that has waited for a millisecond, and Unlock  *)
(* of an RWMutex lets in every reader that waited: the steps that take the *)
(* lock are strongly fair.  Calls and frames need never come.              *)
Fairness ==
  /\ \A a \in Apps : WF_vars(CallStep(a)) /\ SF_vars(LockAnnounce(a))
  /\ \A p \in Procs : /\ WF_vars(DispatchStep(p))
                      /\ SF_vars(DispatchFound(p) \/ DispatchMissing(p))
  /\ \A r \in Receivers : WF_vars(ThreadExit(r))

Safety == Init /\ [][Next]_vars
Spec == Safety /\ Fairness

-----------------------------------------------------------------------------
(* Properties.                                                             *)

InCritical(p) == pc[p] \in CriticalLabels

(* Whenever no call is inside its critical section the shared table, the   *)
(* receivers' refs and the C lists agree: no frame is dropped because its  *)
(* handler is missing, and no entry outlives its subscription.             *)
RegistryAgrees ==
  (\A a \in Apps : ~InCritical(a)) =>
    /\ callbackRefs = UNION {refs[r] : r \in Receivers}
    /\ clist = refs

(* A handler runs only while its subscriber has an entry in the table:     *)
(* once RemoveSubscriber or Destroy has returned, the handler is not       *)
(* running, although the frame may have been matched before the call.      *)
HandlerRegistered ==
  \A p \in Procs : pc[p] = "handler" => sub[p] \in callbackRefs

(* The report given to a handler refers to a C subscriber that has not     *)
(* been freed, even if the application changes subscribers and destroys    *)
(* receivers while frames arrive.                                          *)
HandlerSeesLive ==
  \A p \in Procs : pc[p] = "handler" => csub[sub[p]] = "live"

(* When the application stops a receiver first, the library's thread never *)
(* outlives its receiver, and a listener call in progress refers to        *)
(* objects that exist.                                                     *)
LibraryPointersLive == stopFirst =>
  /\ \A r \in Receivers : Running(r) => crecv[r] = "live"
  /\ \A p \in Procs : op[p] = "dispatch" =>
       crecv[rcv[p]] = "live" /\ csub[sub[p]] = "live"

(* Every call into the wrapper returns: AddSubscriber, RemoveSubscriber,   *)
(* Stop and Destroy neither deadlock with the dispatcher nor are starved   *)
(* by a stream of frames.                                                  *)
CallsReturn == \A a \in Apps : pc[a] \in CallLabels ~> pc[a] = "idle"

(* Destroy returns, whatever the receiver's thread is doing. *)
DestroyReturns == \A a \in Apps : op[a] = "destroy" ~> op[a] # "destroy"

(* Every frame handed to the listener is handled or dropped, although      *)
(* writers keep coming.                                                    *)
DispatchEnds == \A p \in Procs : op[p] = "dispatch" ~> pc[p] = "idle"

-----------------------------------------------------------------------------
(* The inductive invariant.  The agreement of the tables holds only        *)
(* between critical sections, so it is restated for every point inside     *)
(* one; and the lock protects nothing unless it is known who holds it.     *)

(* What a process at a program location is doing, and on what. *)
CallInv ==
  /\ \A r \in Receivers : op[r] \in {"none", "dispatch"}
  /\ \A p \in Procs :
       /\ pc[p] = "idle" <=> op[p] = "none"
       /\ pc[p] \in {"rlock", "handler"} <=> op[p] = "dispatch"
       /\ pc[p] = "stop" <=> op[p] = "stop"
       /\ op[p] \in {"add", "remove", "destroy", "stop", "dispatch"} =>
            rcv[p] \in Receivers
       /\ op[p] \in {"add", "remove", "dispatch"} => sub[p] \in Subs
       /\ pc[p] = "join" => op[p] = "destroy"

(* The RWMutex: one writer at a time, and no reader beside it. *)
LockInv ==
  /\ \A p \in Procs : pc[p] = "handler" <=> p \in readers
  /\ \A p \in Procs : pc[p] \in CriticalLabels \cup {"drain"} <=> writer = p
  /\ \A p \in Procs : InCritical(p) => readers = {}

(* Destroy has cleared the table of r and not yet freed it. *)
Clearing(r) ==
  \E a \in Apps : op[a] = "destroy" /\ rcv[a] = r /\ pc[a] \in {"crit2", "join"}

(* An addition or removal of s is between its two steps. *)
Halfway(a, r, s) ==
  op[a] \in {"add", "remove"} /\ pc[a] = "crit2" /\ rcv[a] = r /\ sub[a] = s

SvHalfway(a, r, s) == flavour = "sv" /\ op[a] = "add" /\ Halfway(a, r, s)

TableInv ==
  \A s \in Subs : s \in callbackRefs <=>
    \/ \E r \in Receivers : s \in refs[r] /\ ~Clearing(r)
    \/ \E a \in Apps, r \in Receivers : SvHalfway(a, r, s)

ListInv ==
  \A r \in Receivers, s \in Subs : s \in clist[r] <=>
    \/ s \in refs[r] /\ ~\E a \in Apps : Halfway(a, r, s)
    \/ \E a \in Apps : SvHalfway(a, r, s)

(* A subscriber belongs to one receiver, and is alive while it does. *)
OwnerInv ==
  /\ \A r, q \in Receivers : \A s \in refs[r] \cap refs[q] : r = q
  /\ \A r \in Receivers : \A s \in refs[r] : csub[s] = "live"

(* An application that adds a subscriber is the only one to claim it. *)
ClaimInv ==
  /\ \A a \in Apps : op[a] = "add" =>
       /\ csub[sub[a]] = "live"
       /\ \A r \in Receivers : sub[a] \in refs[r] <=>
            pc[a] = "crit2" /\ r = rcv[a] /\ flavour = "goose"
  /\ \A a, b \in Apps : op[a] = "add" /\ sub[a] = sub[b] =>
       \/ a = b
       \/ op[b] \notin {"add", "remove"}
       \/ op[b] = "remove" /\ pc[a] = "crit2" /\ rcv[a] = rcv[b]
  /\ \A a \in Apps : op[a] = "remove" =>
       \A r \in Receivers : sub[a] \in refs[r] => r = rcv[a]

IndInv ==
  /\ TypeOK /\ CallInv /\ LockInv
  /\ HandlerRegistered
  /\ TableInv /\ ListInv /\ OwnerInv /\ ClaimInv

=============================================================================
