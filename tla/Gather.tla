-------------------------------- MODULE Gather --------------------------------
(***************************************************************************)
(* GetVariableValues (client_ld.go): it asks for the logical devices and   *)
(* their variables, groups these by logical node and functional            *)
(* constraint (mms_spec.go), and reads every group in a goroutine of an    *)
(* errgroup; a collector takes their results from an unbuffered channel.   *)
(*                                                                         *)
(* What a goroutine makes of the specification and the value it has read   *)
(* is a parameter here; Discovery gives it the walk of mms_spec.go.  The   *)
(* errgroup, the channel and the server are external.                      *)
(***************************************************************************)
EXTENDS Integers, FiniteSets, Sequences

CONSTANTS
  LDs,      \* logical devices: numbers, in the order of their names
  Names,    \* Names[d]: names of variables, split at the dollar signs
  Devices,  \* Devices: for each job the specification and the value it reads
  Limit,    \* how many goroutines the errgroup runs at a time
  Result(_, _)  \* the leaves of a specification and a value, or not ok

(* What GetLogicalDeviceVariablesHierarchical makes of the names of a      *)
(* device: names with fewer than three parts are skipped.                  *)
Hierarchical(d) == {<<d, n[1], n[2]>> : n \in {m \in Names[d] : Len(m) >= 3}}

Jobs == UNION {Hierarchical(d) : d \in LDs}

(* How a value may be composed. *)
LeafTypes == {"leaf", "struct", "array"}

ASSUME DiscoveryAssumption ==
  /\ LDs \subseteq Nat
  /\ Limit \in Nat \ {0}
  /\ \A dev \in Devices : DOMAIN dev = Jobs
  /\ \A dev \in Devices : \A j \in Jobs :
       Result(dev[j].spec, dev[j].val).out \in Seq([ref : Seq(Nat), type : LeafTypes])

VARIABLES
  device,     \* the specification and value each job reads, never changed
  pc,         \* where GetVariableValues is
  err,        \* whether it returns an error
  todo,       \* logical devices whose variables were not yet listed
  queue,      \* jobs that have no goroutine yet
  worker,     \* worker[j]: where the goroutine of job j is
  out,        \* out[j]: what it has to send
  failed,     \* jobs of which a request has failed
  collector,  \* where the collector is
  batch,      \* what it has received and not yet appended
  ret,        \* the result, appended to by the collector
  closed,     \* the channel is closed
  panic       \* a goroutine has sent on the closed channel

vars == <<device, pc, err, todo, queue, worker, out, failed, collector, batch,
          ret, closed, panic>>
mainVars == <<pc, err, todo, queue>>
workVars == <<worker, out, failed>>
chanVars == <<collector, batch, ret, closed, panic>>

Init ==
  /\ device \in Devices
  /\ pc = "model" /\ err = FALSE
  /\ todo = LDs
  /\ queue = {}
  /\ worker = [j \in Jobs |-> "none"]
  /\ out = [j \in Jobs |-> <<>>]
  /\ failed = {}
  /\ collector = "none"
  /\ batch = <<>>
  /\ ret = <<>>
  /\ closed = FALSE
  /\ panic = FALSE

-----------------------------------------------------------------------------
(* GetVariableValues itself.                                               *)

(* A request fails: the call returns at once, also when the collector has  *)
(* been started.                                                           *)
Fails ==
  /\ pc \in {"model", "list", "dirs"}
  /\ pc' = "returned"
  /\ err' = TRUE
  /\ UNCHANGED <<device, todo, queue, workVars, chanVars>>

GetDeviceModelFromServer ==
  /\ pc = "model"
  /\ pc' = "list"
  /\ UNCHANGED <<device, err, todo, queue, workVars, chanVars>>

(* The list of devices is there; the collector is started. *)
GetLogicalDeviceList ==
  /\ pc = "list"
  /\ pc' = IF todo = {} THEN "spawn" ELSE "dirs"
  /\ collector' = "recv"
  /\ UNCHANGED <<device, err, todo, queue, workVars, batch, ret, closed, panic>>

IsFirst(d, S) == d \in S /\ \A e \in S : d <= e

ListVariables(d) ==
  /\ pc = "dirs" /\ IsFirst(d, todo)
  /\ todo' = todo \ {d}
  /\ queue' = queue \cup Hierarchical(d)
  /\ pc' = IF todo' = {} THEN "spawn" ELSE "dirs"
  /\ UNCHANGED <<device, err, workVars, chanVars>>

Running == {j \in Jobs : worker[j] \notin {"none", "done"}}

(* Devices in the order of the list, logical nodes sorted, functional      *)
(* constraints in any order: they are the keys of a map.                   *)
IsNext(j) ==
  /\ j \in queue
  /\ IsFirst(j[1], {i[1] : i \in queue})
  /\ IsFirst(j[2], {i[2] : i \in {h \in queue : h[1] = j[1]}})

(* eg.Go waits for a place. *)
Spawn(j) ==
  /\ pc = "spawn" /\ IsNext(j)
  /\ Cardinality(Running) < Limit
  /\ worker' = [worker EXCEPT ![j] = "spec"]
  /\ queue' = queue \ {j}
  /\ UNCHANGED <<device, pc, err, todo, out, failed, chanVars>>

(* The channel is closed without waiting for the goroutines. *)
MutWaitGroup ==
  /\ pc = "spawn" /\ queue = {}
  /\ pc' = "close"
  /\ UNCHANGED <<device, err, todo, queue, workVars, chanVars>>

(* eg.Wait; no goroutine of the group returns an error. *)
WaitGroup ==
  /\ pc = "spawn" /\ queue = {} /\ Running = {}
  /\ pc' = "close"
  /\ UNCHANGED <<device, err, todo, queue, workVars, chanVars>>

Close ==
  /\ pc = "close"
  /\ closed' = TRUE
  /\ pc' = "join"
  /\ UNCHANGED <<device, err, todo, queue, workVars, collector, batch, ret, panic>>

(* wg.Wait and return. *)
Return ==
  /\ pc = "join" /\ collector = "ended"
  /\ pc' = "returned"
  /\ UNCHANGED <<device, err, todo, queue, workVars, chanVars>>

-----------------------------------------------------------------------------
(* A goroutine of the group: GetVariableTypeValues, then a send.           *)

Entry(j, ref, type) == [job |-> j, ref |-> ref, type |-> type]

(* An error is sent as an entry of its own. *)
RequestFails(j) ==
  /\ worker[j] \in {"spec", "read"}
  /\ worker' = [worker EXCEPT ![j] = "send"]
  /\ out' = [out EXCEPT ![j] = <<Entry(j, <<>>, "error")>>]
  /\ failed' = failed \cup {j}
  /\ UNCHANGED <<device, mainVars, chanVars>>

GetVariableSpecification(j) ==
  /\ worker[j] = "spec"
  /\ worker' = [worker EXCEPT ![j] = "read"]
  /\ UNCHANGED <<device, mainVars, out, failed, chanVars>>

Entries(j) ==
  LET result == Result(device[j].spec, device[j].val)
  IN  IF result.ok
      THEN [i \in DOMAIN result.out |->
              Entry(j, result.out[i].ref, result.out[i].type)]
      ELSE <<Entry(j, <<>>, "error")>>

ReadAndWalk(j) ==
  /\ worker[j] = "read"
  /\ worker' = [worker EXCEPT ![j] = "send"]
  /\ out' = [out EXCEPT ![j] = Entries(j)]
  /\ UNCHANGED <<device, mainVars, failed, chanVars>>

(* Sending hands the entries to the waiting collector; on a closed channel *)
(* it is a panic.                                                          *)
Send(j) ==
  /\ worker[j] = "send"
  /\ closed \/ collector = "recv"
  /\ IF closed THEN panic' = TRUE /\ UNCHANGED <<batch, collector>>
     ELSE batch' = out[j] /\ collector' = "append" /\ UNCHANGED panic
  /\ worker' = [worker EXCEPT ![j] = "done"]
  /\ out' = [out EXCEPT ![j] = <<>>]
  /\ UNCHANGED <<device, mainVars, failed, ret, closed>>

-----------------------------------------------------------------------------
(* The collector.                                                          *)

(* The first batch ends the loop. *)
MutCollect ==
  /\ collector = "append"
  /\ ret' = ret \o batch
  /\ batch' = <<>>
  /\ collector' = "ended"
  /\ UNCHANGED <<device, mainVars, workVars, closed, panic>>

Collect ==
  /\ collector = "append"
  /\ ret' = ret \o batch
  /\ batch' = <<>>
  /\ collector' = "recv"
  /\ UNCHANGED <<device, mainVars, workVars, closed, panic>>

CollectorEnds ==
  /\ collector = "recv" /\ closed
  /\ collector' = "ended"
  /\ UNCHANGED <<device, mainVars, workVars, batch, ret, closed, panic>>

-----------------------------------------------------------------------------
MainStep ==
  \/ Fails \/ GetDeviceModelFromServer \/ GetLogicalDeviceList
  \/ \E d \in LDs : ListVariables(d)
  \/ \E j \in Jobs : Spawn(j)
  \/ WaitGroup \/ Close \/ Return

WorkerStep(j) ==
  \/ RequestFails(j) \/ GetVariableSpecification(j) \/ ReadAndWalk(j)
  \/ Send(j)

Next ==
  \/ MainStep
  \/ \E j \in Jobs : WorkerStep(j)
  \/ Collect \/ CollectorEnds

(* Goroutines run and requests are answered or time out. *)
Fairness ==
  /\ WF_vars(MainStep)
  /\ \A j \in Jobs : WF_vars(WorkerStep(j))
  /\ WF_vars(Collect \/ CollectorEnds)

Safety == Init /\ [][Next]_vars
Spec == Safety /\ Fairness

-----------------------------------------------------------------------------
(* Properties.                                                             *)

(* No goroutine sends on the closed channel, and a call that has got as    *)
(* far as starting goroutines leaves none behind; only the error return    *)
(* while devices are listed leaves the collector.                          *)
NothingLeft ==
  /\ ~panic
  /\ pc = "returned" /\ collector # "none" =>
       /\ Running = {}
       /\ err \/ collector = "ended"

(* The call returns, although goroutines wait for places, for the channel  *)
(* and for each other.                                                     *)
CallEnds == <>(pc = "returned")

=============================================================================
