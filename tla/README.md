# A TLA+ model of the Go bindings for IEC 61850

This directory specifies the Go code of the repository: the wrapper around
libiec61850 (`*.go` in the root) and the SCL parser and C model generator
(`scl/`, `cmd/scltool`). TLC checks the modules on small instances, TLAPS proves
the central safety properties for every instance. `PROJECT.json` lists components,
runs, mutants, the lines each definition models, findings, hazards and theorems.

    tlc -workers 2 -config receiver.cfg Receiver        # one run
    tlapm ReceiverProofs.tla                            # one module of proofs

## 1. The system

The C library does the protocols, and brings its own threads. The repository holds
its headers and prebuilt archives, not its source: the headers declare what the Go
code calls, and the implementation that is modelled here is the Go code, which owns what lies between them and an application:
C objects and when they are freed, tables that lead from a C callback back to a Go
function, and a few protocols built from several requests.

| component | state | operations | interaction, and what is hard |
|---|---|---|---|
| GOOSE and SV receivers (`goose_receiver.go`, `goose_subscriber.go`, `sv_receiver.go`, `sv_subscriber.go`) | process-wide table of handlers and its RWMutex; `refs` per receiver; C list, C objects, C thread | constructors, AddSubscriber, RemoveSubscriber, Start, Stop, Tick, Destroy, dispatcher | the C thread runs handlers under the read lock; destruction joins the thread; three records of one subscription |
| asynchronous requests (`client_async.go`, `client_async_bridge.c`) | a cgo.Handle and a block of C memory per request | three name-list requests, one for a specification, two bridges | the answer may come before the call returns; who releases |
| picking a report control block (`client_statdr.go`, setters of `client_rcb.go`) | on the server: enabled, owner, data set of each block | PickAndEnableStatDRBRCB, its cleanup | a protocol of separate requests on shared blocks; failures and lost answers between them |
| client (`client.go`, `client_connection_closed.go`, `tls_config.go`) | connection, TLS configuration, `connected` flag, table of closed handlers | connect, InstallConnectionClosedHandler, Close | Close races with itself and with the connection thread |
| SCL parser (`scl/parser.go`, `scl/model.go`, `scl/model_wrapper.go`) | tree of data objects and attributes | Parse, NewDataObject, NewDataAttribute | SG/SE duplication, inherited constraints, what is refused |
| model generator (`scl/static_model_generator.go`, `cmd/scltool`) | lists of names and a counter per kind of control block | Generate | pointers as names put together in several passes that must agree |
| server (`server*.go`, `model.go`) | unlocked tables of write and control handlers, lock of the data model | Start, Stop, Destroy, SetHandleWriteAccess, SetControlHandler, updates under the lock | write handlers run in server threads inside the lock, control handlers outside it and after the answer; Stop waits for both |
| reports (`client_report.go`, `client_report_bridge.c`) | unlocked table of handlers | InstallReportHandler, UninstallReportHandler, bridge | the connection threads of all clients read the table |
| calls of several requests (`client_control.go`, `client_sg.go`, `client_file.go`, ReadObject and WriteObject of `client.go`) | C objects within a call; selections, operations, edit buffer and active group on the server | ControlByControlModel and its variants, WriteSG, GetSG, GetFile | other clients between two requests, timeouts of requests that are still served, operations executed after their answer, early returns and who frees what |
| discovery (`client_ld.go`, `mms_spec.go`) | channel, errgroup, collector goroutine | GetVariableValues, GetVariableTypeValues | goroutines that wait for each other; two trees that need not agree |
| publishers (`goose_publisher.go`, `sv_publisher.go`) | C publisher, memory to free later | Publish, Destroy | Destroy against Publish |
| values (`mms.go`, `mms_spec.go`, `common.go`, `errors.go`) | none | conversions | widths, types, ownership of C values |

What makes them correct: a handler runs only while it is registered and its objects
exist; the records of one registration agree; every call returns; a C object is freed
once, after its last user; a block has one holder, and none is left enabled without
one; what a call reports is what happened on the server, as far as the server has told; no goroutine is left waiting,
and a result holds every leaf once; the generated C program compiles, and the server sees every element of the file.

## 2. Modules

`Receiver` models both receivers. A process is a goroutine or the C thread of a
receiver; `pc`, `op`, `rcv`, `sub` say where it is and on what. `Lock` is two steps as
in package sync: the announcement, after which new readers wait, and the end of the
readers inside. The bodies of AddSubscriber, RemoveSubscriber and Destroy are split
where the code passes from one record to the next. Calls into C that return at once
are one step; Stop and `GooseReceiver_destroy` wait for the thread. `flavour` selects
the order of writes and the destruction of the GOOSE or the SV code, `stopFirst`
whether the application stops a receiver before it changes it; both are chosen in the
initial state from `Stopped` and `Unstopped` and never change, so that one run takes
all the combinations that the code supports. `Running`, `Usable`,
`Unclaimed`, `MayChange` and `Alone` are the assumptions on the application: objects
exist, are used by nobody who destroys them, and a subscriber has one receiver.
SetInterfaceID and the accessors are left out: they reach no state of the wrapper.

`AsyncRequests` follows a request through caller, library and bridge. `Resource` lets a
second release be seen ("broken"). The three name-list operations are one action
sequence, with the same code but for their arguments. The library answers each
accepted request once, by the answer, a timeout or the loss of the connection.

`StatDR` makes every read and write of a session (a goroutine of a connection) a step.
`Write` gives the three outcomes of a request: done, refused or failed, and done with
the answer lost. The rules for blocks are those of the server in the same library and
are external. The data of a block is reduced to enabled, owner, data set (wanted or
other), trigger options set, GI. `RcbAllocator` is the abstract specification: a block
goes to one session at a time. `MCStatDR` adds the symmetry of clients and workers.

`ClientLifecycle` has newClient, the installation of a closed handler, Close in the
order of its parts, and the connection thread that calls the bridge. `owner` and
`called` are history variables. `Once` is the assumption that an application installs
one handler per client; `MaxIds` bounds the ids drawn. It has no specification of its
own: `ReportHandlers` extends it with the table of report handlers, which shares the id
counter, the connection threads and Close with it. The steps of an installation are
those of the code (draw an id, write the map, tell the library); the library keeps one
id per report control block and holds a lock while it delivers, for which
installation and removal wait. `latest` is the history of what was installed last,
`race` records that the map was read and written at once, after which a lookup may find
nothing. `early`, chosen at the start, says whether the application installs handlers
before it enables reports, as `examples/client_example_1` does and
`examples/subscribe_statdr`, which picks a block first, does not.

`Server` models the server object: the handler tables and the ids given to the library,
Start, Stop and Destroy, updates of a value and its time stamp between LockDataModel and
UnlockDataModel, and the two bridges with their refusals. The library (external) serves
one request per connection at a time with the data model locked, and keeps selections
and the edit buffer, both of which expire. One goroutine installs handlers, starts and
stops, while the server is not running, as `test/server/complexModel_test.go` does; any goroutine
updates values. That handlers are installed only then (`MayInstall`) is an assumption on
the application: the code has no such guard.

The source of the library not being there, what it does with an operate was observed on
the archive the repository links (`libiec61850/lib/linux64`), with a server that has
objects of all four control models, and agrees with the headers (`iec61850_client.h:2080-2097`,
`2369-2404`, `iec61850_server.h:1338`, `1505-1507`). `oper[o]` is the operation of a control
object, `fate[k]` what became of the operation of a connection's last call:

- an object that must be selected is selected by the request of its model only (`select`
  or `selectWithValue`), by one client, until it is operated or the selection expires;
- `AcceptOperate`: an operate on an idle object is accepted and handed to a thread of the
  server, which answers it with success (`AnswerOperate`) and only then calls the control
  handler, outside the lock of the data model (`ControlCalls`), in all four models;
- the handler succeeds, fails (`ControlReturns`) or says CONTROL_RESULT_WAITING and is
  called again (`ControlWaits`); without a handler the operation succeeds;
- an operate with a time to come is answered when it is accepted and executed later
  (`AcceptTimed`, `TimeReached`), if the object has an operTm;
- the end of an operation is sent as a command termination in the enhanced models and not
  at all in the others;
- IedServer_stop waits for a handler that runs and drops the operations that are waiting,
  timed or not yet answered.

`ClientOperations` has the client's side: `SelectKind` is the switch over the control
model, and the handler for the command termination is nil, so that no step of a call
depends on it. A client may use a control model that is not the object's; the server
refuses a selection that is not the object's and an operate without the selection that
is. The module also has the specification. A call is a record of its location, arguments
and deferred frees;
`Failed` and `TimedOut` are the error return of every call at every request, and after
a timeout the request stays on its way. `live` and `twice` follow the C objects.
WriteSG is its four WriteObjects, each a request for the type and a write. `workload`,
chosen at the start, says which calls the clients of a behaviour make, on which nodes and
in which control models: calls whose
requests meet no common state are not interleaved with each other. `MCOperations` gives the
workloads of the runs.

`Gather` models GetVariableValues: the loop that lists devices and starts goroutines in
the order of the code (devices, sorted logical nodes, functional constraints of a map in
any order), the limit of the errgroup, the unbuffered channel, the collector, and the
order of `eg.Wait`, `close` and `wg.Wait`. Each goroutine's requests may fail, and then
it sends an error. What it sends otherwise is a parameter, `Result`, so that the proofs
about goroutines hold for every walk. `Discovery` gives it the walk of the code:
`Walk` in `VariableWalk`, the recursion of GetVariableTypeValues over specification and
value; beside it stands a definition by paths (`Agree`, `Fits`, `CommonLeaves`), which the
result is compared with: where specification and value fit, it must be all common leaves;
where one has more than the other, only that nothing else and nothing twice is returned.
`MCDiscovery` builds devices and pairs of trees that agree or differ.

`ControlBlocks` runs the parser's checks, the selection of IED and access point, and
the passes of the generator over logical nodes. A variable is named by its node and
number; `names` and `number` are the generator's lists and counters, `defs` what it has
written with the next pointer. The names of data sets are listed in a pass of their own
and all written at its end; a pass is one step per node, and in the print phase per node
and kind. Kinds of defects that make the program give up, whatever
the control blocks are, are members of a set. `MCControlBlocks` builds the files.

`ModelTree` has the instantiation of types (`CreateDataAttributes`, `NewDataAttribute`)
and the three places that form names: the header, the definitions, the references. A
name is a path and the number of "SE_" infixes in it. The code's three passes (parsing,
header, C file) are recursive walks over the types; a step of the model is one iteration
of one of their loops, and `todo` is what the loops on the call stack have still to visit,
innermost first, each with the references its place puts together. So the order of the
file is the code's, and what a walk computes can be proved by induction over steps. The
header keeps a map of names per node and per object; paths of different nodes and objects
never meet, so one set `declared` stands for the maps. `attributes` is kept by type: the
objects of a type have the same. `MCModelTree` builds the types. These two modules are
deterministic except for their input.

## 3. Runs

| run | shows | states |
|---|---|---|
| `receiver` | both flavours, stopped before changes, and SV while running: handlers registered and on live objects, records agree, library pointers live, calls and dispatches end | 24 818 |
| `receiver_goose_deferred` | *violation*: Destroy of a running GOOSE receiver deadlocks | |
| `async_requests` | one release, live parameter, handler called also when the connection is lost or closed | 11 728 |
| `statdr_shared` | two connections: exclusive, stays enabled, no orphan, implements `RcbAllocator`, every pick ends | 191 472 |
| `client_once` | reports reach the handler installed last, the table is not raced for, one destruction, TLS after connection, own closed handler called, table clean | 121 488 |
| `operations` | handlers of the right node are called, also again, reads are of one update, WriteObject and GetFile report truly, a control that succeeds was accepted and one that fails otherwise than by a timeout is not executed, WriteSG is all or nothing, C objects are released, Stop returns | 360 581 |
| `discovery` | result complete and without repetition where the trees fit, nothing sent on a closed channel, no goroutine left, the call returns | 116 748 |
| `discovery_lengths` | *violation*: a structure of another length than specified is cut without a report | |
| `blocks_complete` | linked and complete lists, declared is defined | 86 014 |
| `blocks_missing_gse` | *violation*: a GSEControl without GSE element breaks the list | |
| `tree_settings` | unique names, references, complete tree, SG/SE pairs, in 1 539 files | 175 608 |
| `tree_arrays` | *violation*: array elements are not declared | |

Bounds. Two goroutines and two receivers give every pair of calls, on one or on two
receivers, against both threads; one subscriber suffices to move it between receivers,
and the proofs cover any number. Two name requests are the least for one to be served
while another waits, and a specification request takes the other bridge. Three blocks,
one of a foreign name, give a pick a failure, a skip and a next block. Two logical nodes
give a border between nodes; every kind of block occurs none, one and (reports, GOOSE)
two times in a node. Types nest two deep, objects three, which gives an inherited
constraint its second step and a first attribute after sub-objects. Two ids in
`client_once` and `operations` let a second handler replace the first of the same block
or node, or belong to another one. Two connections compete for a control object, for
the edit buffer and for the lock; three objects are one to operate directly (at
once or at a time), one to select and one to select with value, and one of them is also
asked in ways its control model does not allow; two setting groups make a value in the
wrong group possible; two blocks of a file have a border between them. Four jobs on two places
make a goroutine wait; the trees nest two deep, which has an array of structures and a
structure with an array, and each job in turn reads one of twelve pairs.

Fairness. Goroutines that can run do (weak fairness of the steps inside calls); handlers
return; a request is answered or times out. Taking the RWMutex is strongly fair, since
sync.Mutex hands itself to a waiter of one millisecond and Unlock admits waiting
readers. An answer of an outstanding request is strongly fair, since the connection
thread checks the timeout of each. The lock inside the library is a semaphore that
goes on to whoever waits: strong fairness for the request that waits for the data model
and for the goroutine that installs a report handler. No application call, no request of
a client, no frame and no report need ever happen.

Deadlock is checked in all passing runs but `discovery`; terminal states are steps named
`Finished`. GetVariableValues ends when it returns, and what may be left then is the
subject of `NothingLeft`.

Findings. (1) `receiver_goose_deferred`: `goose_receiver.go:144-149` joins the thread
under the lock it waits for. (2) `blocks_missing_gse`: `static_model_generator.go:521` skips
what the list keeps. (3) `tree_arrays`: `static_model_generator.go:993` refers to elements
nobody declares. (4) `discovery_lengths`: the branch at `mms_spec.go:266` is empty where its
comment announces a report.

Observations without a run, each reproduced by changing one constant or input:

- Without `stopFirst` as a condition `LibraryPointersLive` fails for SV:
  `SVReceiver_destroy` does not stop the thread. `test/sv_subscriber/sv_subscriber_test.go:38`
  defers the same chain of calls as the GOOSE test.
- A control function that returns no error may belong to an operation that fails. The
  server answers an operate before the control handler is called, or when it accepts one
  with an OperateTime; `client_control.go:200` takes the answer for the result, as the
  header puts it ("true if operation has been successful", `iec61850_client.h:2173`). In
  the enhanced models the outcome comes as a command termination, for which lines 180 and
  182 install a nil handler; in the normal ones it never comes. In `operations` states with
  `call[k].ret = "ok"` and `fate[k] = "failed"` are reached; `ControlReported` says what
  success and failure of such a call do mean.
- Two goroutines of one connection that pick are given the same block: `client_statdr.go:67`
  disables an enabled block, which its own connection is allowed to, where the comment at
  line 22 speaks of a free one; then either cleanup disables the block of the other. One
  client with two `Workers` violates `Exclusive`, also without any fault.
- Where the specification has a leaf and the value, read by a later request, is a structure,
  `mms_spec.go:291` returns the structure, against "only scalar leaves are returned" at line
  204: only the specification is looked at. `ResultComplete` leaves this open.
- In `AsyncRequests`, a request whose answer says that more follows keeps its handle and
  memory for ever (`client_async.go:87`): the library calls back once per request.
- With "lost" in `Faults`, `NoOrphan` fails: the server has enabled the block, the client
  has gone on to the next (`client_statdr.go:106`).
- A block of another data set is skipped, not configured (`client_statdr.go:58`, against
  the comment at line 23), and GI is written before the block is enabled, when this server
  refuses it (line 101).
- `Once = FALSE` violates `TableClean`: the entry of an overwritten handler stays.
- `ReportToLatest` holds with and without `early`, but without it the table is read and
  written at the same time, which the Go runtime may answer by ending the process
  (`client_report.go:16`). The tables of the server are safe only while handlers are
  installed while it does not run (`server_handler.go:45`).
- UninstallReportHandler and Close leave entries in `reportCallbacks` (`client_report.go:186`).
- The control functions for integers and floats do not destroy the control object, GetSG
  does not delete the value of the block (`client_sg.go:66`, commented out; deleting it as
  well would free its parts twice): `KnownLeaks` in `ClientOperations`.
- WriteSG changes the active group first, which stays changed when a later request
  fails (`client_sg.go:27`); and a call that timed out may still have been carried out.
- An error while devices are listed returns without closing the channel: the collector
  goroutine waits for ever (`client_ld.go:55`); `NothingLeft` names the exception.
- A failed connect leaks the connection, a failed key the TLS configuration.
- A file without the access point in its Communication section makes the generator
  panic if it has GSE or SV control blocks, as does a wrong access point name.
- An SE attribute listed before an SP one of the same name gives the SG twin and the SP
  attribute the same C name (`model_wrapper.go:127` replaces SP by SE, not the reverse);
  `DistinctNames` excludes such types from the files of `tree_settings`.
- LookupGSE is given the second part of the device name split at underscores
  (`static_model_generator.go:515`): an LD inst with an underscore loses its GSE as well.
  An LD inst that begins with "SE" meets the prefix test for the infix (line 964). A
  SampledValueControl without SmvOpts ends the generator with a nil dereference (478). The
  files checked have none of these, and the parser's refusals of a GSE type or a smpMod
  (`parser.go:200-217`) are one defect.
- `PrefixFits = FALSE` in `tree_settings` breaks the references to SE attributes: the infix
  is put at character nine whatever the prefix (`static_model_generator.go:964`).
- Not modelled, seen while reading: SetRCBValues sets the option fields and leaves
  them out of the elements it writes (`client_rcb.go:183-188`); SetReportSetting has a value receiver and stores
  nothing (`server_config.go:63`); GetValidity returns 2 for invalid and 1 for reserved,
  which VALIDITY_INVALID and VALIDITY_RESERVED number the other way round (`common.go:48`); `control` ignores the result of operate
  (`client_control.go:253`, unused); Destroy of an SV publisher does not take the lock of
  Publish (`sv_publisher.go:77`); `FCDA` names use ldInst for lnInst
  (`static_model_generator.go:1239`); a data set without entries refers to entry 0 (1297);
  values of SDI elements are never read (`parser.go:457`); an access point without
  Server ends the parser with a nil dereference (`parser.go:94`).

## 4. Proofs

Every module of proofs has an inductive invariant, `IndInv` (`TreeInv` in
`ModelTreeProofs`), as a conjunction of named parts, one lemma or step per action, and
theorems that read a property off it. The theorem `Invariance` (`Tree`) of each module,
that it always holds, is not repeated here.

| theorem | property | hypothesis |
|---|---|---|
| `ReceiverProofs`: `HandlersRegistered`, `HandlersSeeLive`, `RegistriesAgree` | `HandlerRegistered`, `HandlerSeesLive`, `RegistryAgrees` | |
| `ReceiverProofs`: `PointersLive` | `LibraryPointersLive` | (`stopFirst`, in the property) |
| `AsyncRequestsProofs`: `NeverReleasedTwice`, `BridgeParameterAlive`, `OverIsReleased` | `NoDoubleRelease`, `ParameterAlive`, `ReleasedExceptMore` | |
| `StatDRProofs`: `PickedStaysEnabled`, `PickIsExclusive`, `PickAllocates` | `HeldEnabled`, `Exclusive`, `Allocates` | `OneWorker` |
| `StatDRProofs`: `NothingOrphaned` | `NoOrphan` | `AnswersArrive` |
| `ReportHandlersProofs`: `ConnectionDestroyedOnce`, `TlsFreedLast`, `OwnHandlerCalled`, `ReportsToLatest`, `TableNotRaced` | `DestroyedOnce`, `TlsOutlivesConnection`, `OwnHandler`, `ReportToLatest`, `NoTableRace` | |
| `ReportHandlersProofs`: `TableCleaned` | `TableClean` | `Once` |
| `ClientOperationsProofs`: `LatestHandlerRuns`, `ReadsSnapshot`, `OutcomesReported`, `ControlsReported`, `SettingsStored`, `AllReleased` | `LatestHandler`, `Snapshot`, `OutcomeReported`, `ControlReported`, `SettingStored`, `ObjectsReleased` | |
| `GatherProofs`: `NothingIsLeft` | `NothingLeft` | |
| `GatherProofs`: `EveryJobOnce` | half of `ResultComplete` | |
| `ControlBlocksProofs`: `PointersFollow`, `ListsAreComplete`, `EveryNameDefined` | `PointsToNext`, `ListsComplete`, `DeclaredIsDefined` | `WrittenAsListed` |
| `ModelTreeProofs`: `Pairs` | `EditPairs` | |
| `ModelTreeProofs`: `Unique`, `Complete` | `UniqueNames`, `TreeComplete` | `Hypothesis` |
| `ModelTreeProofs`: `Compiles` | `PlainRefsDeclared` | `Hypothesis` (and `NoArrays`, in the property) |

`ReceiverProofs`, for any sets of goroutines, receivers and subscribers, both flavours,
with or without `stopFirst`. `RegistryAgrees` is not inductive: it says nothing inside a
critical section. `IndInv` adds, part by part: `CallInv` (what a location says about the
call), `LockInv` (one writer, no reader beside it, a handler is a reader), `TableInv` and
`ListInv` (the table and the C list in terms of `refs` at every point of every call),
`OwnerInv` (a subscriber has one receiver and is alive), `ClaimInv` (a subscriber being
added is claimed by nobody else). `LibraryPointersLive` speaks of listener calls that
still wait for the lock, of which the lock says nothing. `StopInv` closes the gap: from
the moment a call that changes a receiver asks for the lock, the thread of that receiver
does not run and no listener call of it is in progress, because the application has
stopped it and nobody else may start it. `Settles` names the ways a step can affect that,
so that each action only has to be put into one of them.

`AsyncRequestsProofs`, for any sets of requests. `CallerInv` and `BridgeInv` say who owns
handle and memory at each moment: the caller until the library accepts, then the bridge.

`StatDRProofs`, for any clients, number of blocks and faults. `WriteKeeps` treats all
writes at once: a write needs the server's leave, and a block somebody holds gives it only
to its owner. `StepKeeps` carries four claims through each action: types and `GoneInv` (a
lost connection does not go on), `HeldEnabled`, `NoOrphan`, and that a step changes who
holds blocks in one of two ways (`DropsOrTakes`: sessions drop theirs, or a session
without a block takes a free one). The last is the refinement: under the mapping of
`RcbAllocator` the first is a release or a stutter and the second an acquisition, so
`PickAllocates` shows that the requests of a pick, in any order with those of others, act
like one atomic step. Three results need `OneWorker` (one picking goroutine per
connection); with two a block is picked twice. `NothingOrphaned` holds with any number
of goroutines but needs `AnswersArrive` (no enabling write whose answer is lost); without
it `client_statdr.go:106` leaves a block enabled.

`ReportHandlersProofs`, for any clients, goroutines, blocks and number of ids. The
properties speak of a handler that runs; what makes them true happened long before.
`StageInv` ties the objects of a client to the goroutine that closes it (one at a time,
since the first has set `connected` to false), `HandlerInv` says who owns an id between
drawing it, storing the handler and telling the library, and `ReportInv` does so for
report handlers: an id belongs to one goroutine until it is installed, the library's id
for a block is the latest, and no report of a block is being delivered while its handler
is exchanged. `TableCleaned` needs `Once`: a second closed handler overwrites `handlerId`
and the entry of the first stays.

`ClientOperationsProofs`, for any goroutines, connections, attributes, control objects,
setting groups and file blocks, and any workloads. The invariant has two halves. In
`BaseInv`, `ServerInv` has one holder of the lock
(`LockInv`), value and time stamp of one update unless the holder is between them
(`MeasInv`), ids that lead to the handler of their node (`InstallInv`), and what a request
on its way may be (`RequestInv`). `ClientInv`, per connection, ties a call to its request:
its location gives the kind (`CallInv`, `StageInv`), a success that is known was carried
out (`VerdictInv`), each stage of WriteSG implies what the earlier ones left on the server
(`SettingInv`: an edit belongs to the connection whose confirmation can still succeed,
and a timeout ends the call without a claim), and what is allocated is what the deferred
calls will free (`ObjectInv`). The server moves a request of connection k in one of three
ways (`Same`, `Proceeds`, `Answers`) and the client in three (`Asks`, `GoesOn`,
`MayReturn`); lemmas show that each keeps `ClientInv`, and actions are put into them.
`ControlInv` is about operations, which outlive the call and the request they came from.
`ControlReported` is not inductive: an error is final, and whether anything is still to be
executed for it depends on the object. `OperInv` says, per object, whose operation it is,
that an unanswered one has its request waiting as "accepted", and which handler runs for
it; `FateInv`, per connection, what fate each location of a call and each state of its
request allow; and `OneOper` that a connection's current call has at most one operation,
so that a fate has one cause. A step of the server leaves operations alone (`QuietKeeps`),
accepts one (`AcceptKeeps`), moves one on (`MoveKeeps`, `OperStepKeeps`) or drops all
(`StopKeeps`); a new call disowns those still under way (`AskControl`).

`GatherProofs`, for any devices, any limit and any `Result`. `PhaseInv` orders the phases
of call, goroutines and collector; `JobsInv` says that every job is queued once, and has
ended when the channel is closed; `RetInv` that the result is a
sequence of whole blocks, one for each job that has been collected. Hence `EveryJobOnce`:
a call that succeeds returns what each goroutine sent, all of it, once and unmixed.

`ControlBlocksProofs`, for any number of nodes and blocks. The pointers come from a list
and a counter that two passes keep independently. `Laid` describes the list by offsets,
one per node; `Following` says that the counter of a kind is the offset of the node that
is written next, and `Link` that what is written is the beginning of the list. Both
passes count a node alike: for reports because of what the parser refuses
(`ReportsWritten`), for the rest by `WrittenAsListed`: every GSEControl of a known access
point has its GSE element, which `blocks_missing_gse` shows to be needed, and a node has
at most one SettingControl, as the SCL schema says and the parser does not check.

`ModelTreeProofs`, for any files: any number of nodes, types nested to any depth, arrays.
`EditPairs` holds whatever the definitions are: `CreateShape` says where
createDataAttributes puts an attribute and its twin, and the SP attribute that is replaced
is never the twin of another. The rest needs `Hypothesis`: the names inside a type differ,
except that an attribute may be listed as SP and then as SE, and the model prefix has
eight characters. Its invariant, `TreeInv`, follows the passes. `ListsInv`: the attributes
of an object come from its type, and of two with one name exactly one is SE (`OneEdit`).
`Spread`: no pending item has, or will have inside it, the name of anything declared or
written or of anything inside another pending item. Two ways to differ make it inductive:
a position at which the paths differ, and for attributes the infix, which all inside an
attribute inherits; the setting `a` under SG and `a` under SE differ only in the second.
`DeclareInv` adds that the nodes and the children of what is declared are declared or
pending (so nothing is skipped or lost), `DefineInv` that all is declared, that every
reference is (`Referred`), and `Linked`: in the sequence of what is written followed by
what is pending, a sibling is a later entry of the same parent, every child of a written
variable is its first child or the sibling of an earlier one, and the first child is an
entry. Writing a variable inserts its children behind it in that sequence (`LinkedStep`),
and at the end, with nothing pending, `Linked` is `TreeComplete`. Per kind of element a
lemma (`NodeBrood`, `ObjectBrood`, `AttributeBrood`, `ElementsFamily`) shows that the
references, put together apart from the names, are the names. `tree_arrays` shows why
`PlainRefsDeclared` excludes arrays; the other theorems include them.

The invariant of all modules but `ControlBlocks`, whose offsets TLC cannot enumerate, was
checked with TLC on the instances of the runs before it was proved. The assumptions are
the ASSUMEs of the modules on their constants: disjoint names, `None` no element, counts
natural, files well-formed. The hypotheses of the table are assumptions on the application
or the file, and hold in the passing runs. The external parts are assumptions as well:
package sync, the threads and callbacks of the library, the rules of the server.

Only model-checked. Liveness (`CallsReturn`, `DispatchEnds`, `DestroyReturns`,
`HandlerCalled`, `PickEnds`, `Notified`, `StopReturns`, `CallEnds`) is out of
the prover's reach. `VariableWalk` is a recursion over pairs of trees, compared with a
definition by paths: what it computes needs induction over data and recursive operators,
which the prover does not handle. So of `ResultComplete` the part about goroutines is
proved, and that a walk finds every common leaf is not. (`ModelTree` escapes this because
its steps are those of the loops; there a pass has the program to itself. The walks run in
goroutines, and are one step each because nothing they read changes.)

## 5. Plan

1. Done: receivers, asynchronous requests, StatDR with its allocator, life of a client
   with closed and report handlers, server with the calls of its clients, discovery,
   control blocks and tree of the generator. Proofs of all their safety properties but
   that of the walk.
2. Proofs that are left: the lists of kinds other than `gse` and `sgcb` need no
   hypothesis, which `WrittenAsListed` hides; action properties, such as that a removed
   handler is never called again.
3. Models that are left: SetRCBValues with the flags it writes, entries of data sets and
   DOI values in `ModelTree`.

## 6. Not modelled

- The C library beyond what the Go code relies on: its source is not in the repository.
- Publishers: setters that forward to the library, and Publish and Destroy, whose only
  shared state is the lock named above.
- Value conversion (`mms.go`, `common.go`, `errors.go`): functions of scalars without
  state; the models keep that a conversion may fail.
- The server's authenticator, its connection and RCB event handlers: fields set before
  Start that a bridge reads. Configuration and dynamic models forward to the library.
- Directory queries, GetDataModel, typed reads, ReadDataSetValues, GetFileDirectory:
  one request, or a loop over one list, each.
- String methods and enumerations, declarations of XML structures, printing and file
  output, examples.
