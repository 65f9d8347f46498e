------------------------- MODULE ReportHandlersProofs -------------------------
(***************************************************************************)
(* Proofs about ReportHandlers and the life of clients, for any sets of    *)
(* goroutines, clients and report control blocks and any number of ids.    *)
(***************************************************************************)
EXTENDS ReportHandlers, TLAPS

Making == {"tls", "connect"}
Using == {"store", "install", "rptstore", "rptinstall", "rptremove"}
Closing == {"destroy", "join", "closetls", "unregister"}
Labels == {"idle"} \cup Making \cup Using \cup Closing
Object == {"none", "live", "freed"}
Threads == {"none", "running", "bridge", "handler", "done"}
Report == [st : {"none", "lookup", "handler"}, rcb : Rcbs \cup {None},
           id : 0..MaxIds]

ObjectTypes ==
  /\ conn \in [Clients -> Object] /\ tls \in [Clients -> Object]
  /\ made \in [Clients -> {"none", "making", "ok", "error"}]
  /\ connected \in [Clients -> BOOLEAN]
  /\ destroys \in [Clients -> Nat]
  /\ thread \in [Clients -> Threads]
RegistryTypes ==
  /\ idGen \in 0..MaxIds
  /\ table \subseteq Ids
  /\ handlerId \in [Clients -> 0..MaxIds]
  /\ param \in [Clients -> 0..MaxIds]
  /\ owner \in [Ids -> Clients \cup {None}]
  /\ called \in [Clients -> 0..MaxIds]
CallTypes ==
  /\ pc \in [Apps -> Labels]
  /\ on \in [Apps -> Clients \cup {None}]
  /\ id \in [Apps -> 0..MaxIds]
  /\ rcb \in [Apps -> Rcbs \cup {None}]
ReportTypes ==
  /\ early \in BOOLEAN /\ enabled \in BOOLEAN /\ race \in BOOLEAN
  /\ reportCallbacks \in [Ids -> (Clients \X Rcbs) \cup {None}]
  /\ rptParam \in [Clients -> [Rcbs -> 0..MaxIds]]
  /\ latest \in [Clients -> [Rcbs -> 0..MaxIds]]
  /\ report \in [Clients -> Report]

(* The variables have their types. *)
TypeOK == ObjectTypes /\ RegistryTypes /\ CallTypes /\ ReportTypes

(* What its location says about the call of a goroutine. *)
CallInv ==
  \A a \in Apps :
    /\ pc[a] = "idle" <=> on[a] = None
    /\ pc[a] \in {"store", "install", "rptstore", "rptinstall"} => id[a] \in 1..idGen
    /\ pc[a] \in {"rptstore", "rptinstall", "rptremove"} => rcb[a] \in Rcbs

(* The state of the connection of c before Close begins. *)
Whole(c) ==
  conn[c] = "live" /\ destroys[c] = 0 /\ tls[c] # "freed" /\ thread[c] # "none"

Destroyed(c) == conn[c] = "freed" /\ destroys[c] = 1 /\ thread[c] = "done"

Unused(c) == \A a \in Apps : on[a] # c

(* How far a client has come: made, used and closed by one goroutine.      *)
StageInv ==
  /\ \A a, b \in Apps : on[a] # None /\ on[a] = on[b] => a = b
  /\ \A a \in Apps :
       /\ pc[a] \in Making => made[on[a]] = "making"
       /\ pc[a] \in Using => made[on[a]] = "ok" /\ connected[on[a]]
       /\ pc[a] \in Closing => made[on[a]] = "ok" /\ ~connected[on[a]]
       /\ pc[a] = "destroy" => Whole(on[a])
       /\ pc[a] = "join" => /\ conn[on[a]] = "live" /\ destroys[on[a]] = 1
                            /\ tls[on[a]] # "freed"
                            /\ thread[on[a]] \in {"bridge", "handler", "done"}
       /\ pc[a] \in {"closetls", "unregister"} => Destroyed(on[a])
       /\ pc[a] = "unregister" => tls[on[a]] # "live"
  /\ \A c \in Clients :
       /\ made[c] # "ok" => /\ ~connected[c] /\ destroys[c] = 0
                            /\ conn[c] # "freed" /\ thread[c] = "none"
       /\ made[c] \in {"none", "making"} => tls[c] # "freed"
       /\ made[c] = "ok" /\ connected[c] => Whole(c)
       /\ made[c] = "ok" /\ ~connected[c] /\ Unused(c) =>
            Destroyed(c) /\ tls[c] # "live"

(* Whose handler an id stands for, in every place the id is kept.          *)
HandlerInv ==
  /\ \A i \in Ids : i > idGen => owner[i] = None /\ i \notin table
  /\ \A a \in Apps : pc[a] \in {"store", "install"} =>
       owner[id[a]] = on[a] /\ handlerId[on[a]] = id[a]
  /\ \A c \in Clients :
       /\ param[c] # 0 => owner[param[c]] = c
       /\ called[c] # 0 => owner[called[c]] = c
       /\ made[c] # "ok" => handlerId[c] = 0
       /\ made[c] = "ok" /\ ~connected[c] /\ Unused(c) => handlerId[c] = 0

(* With one handler per client only the remembered id is in the table. *)
OnceInv ==
  \A c \in Clients, i \in Ids : owner[i] = c /\ i \in table => handlerId[c] = i

(* One goroutine installs a report handler, under an id nobody uses yet.   *)
InstallInv ==
  /\ \A a, b \in Apps :
       {pc[a], pc[b]} \subseteq {"rptstore", "rptinstall"} => a = b
  /\ \A a \in Apps :
       /\ pc[a] = "rptstore" =>
            \A c \in Clients, r \in Rcbs : rptParam[c][r] # id[a]
       /\ pc[a] = "rptinstall" => reportCallbacks[id[a]] = <<on[a], rcb[a]>>

(* The id the library was given leads to the handler of that block.        *)
ParamInv ==
  /\ latest = rptParam
  /\ \A c \in Clients, r \in Rcbs :
       rptParam[c][r] # 0 => /\ rptParam[c][r] <= idGen
                             /\ reportCallbacks[rptParam[c][r]] = <<c, r>>

(* A report that is being delivered keeps its thread and its handler.      *)
DeliverInv ==
  \A c \in Clients : report[c].st # "none" =>
    /\ thread[c] \in {"running", "bridge"}
    /\ report[c].rcb \in Rcbs
    /\ report[c].id # 0 /\ report[c].id = rptParam[c][report[c].rcb]
    /\ enabled

(* When handlers are installed before reports are enabled, nobody writes   *)
(* the table while a thread may read it.                                   *)
EarlyInv == early => ~race /\ (enabled => ~Installing)

ReportInv == InstallInv /\ ParamInv /\ DeliverInv /\ EarlyInv

(* The inductive invariant. *)
IndInv == TypeOK /\ CallInv /\ StageInv /\ HandlerInv /\ ReportInv

(* A step that leaves the reports alone keeps what is known about them, if *)
(* no goroutine comes to install a report handler and no thread that       *)
(* delivers a report ends.                                                 *)
LEMMA ReportKept ==
  ASSUME TypeOK, TypeOK', ReportInv, UNCHANGED rptVars, idGen <= idGen',
         \A a \in Apps : pc'[a] \in {"rptstore", "rptinstall"} =>
           pc'[a] = pc[a] /\ on'[a] = on[a] /\ id'[a] = id[a],
         \A c \in Clients :
           report[c].st # "none" /\ thread[c] \in {"running", "bridge"} =>
             thread'[c] \in {"running", "bridge"}
  PROVE  ReportInv'
  <1> USE DEF TypeOK, ReportInv, rptVars
  <1>1. InstallInv'
    BY DEF InstallInv
  <1>2. ParamInv'
    BY ClientsAssumption DEF RegistryTypes, ReportTypes, ParamInv
  <1>3. DeliverInv'
    BY DEF DeliverInv
  <1>4. EarlyInv'
    BY DEF EarlyInv, Installing
  <1>5. QED
    BY <1>1, <1>2, <1>3, <1>4

(* The inductive invariant holds initially. *)
LEMMA InitInd == Init => IndInv
  <1> SUFFICES ASSUME Init PROVE IndInv
    OBVIOUS
  <1> USE ClientsAssumption DEF Init, ClientInit
  <1>1. ObjectTypes /\ RegistryTypes
    BY DEF ObjectTypes, RegistryTypes, Object, Threads, Ids
  <1>2. CallTypes
    BY DEF CallTypes, Labels
  <1>r. NoReport \in Report
    BY DEF NoReport, Report
  <1>p. [r \in Rcbs |-> 0] \in [Rcbs -> 0..MaxIds]
    OBVIOUS
  <1>0. ReportTypes
    BY <1>r, <1>p DEF ReportTypes, Ids
  <1>3. CallInv /\ StageInv /\ HandlerInv
    BY DEF CallInv, StageInv, HandlerInv, Making, Using, Closing, Ids
  <1>4. ReportInv
    BY DEF ReportInv, InstallInv, ParamInv, DeliverInv, EarlyInv, NoReport, Installing
  <1>5. QED
    BY <1>0, <1>1, <1>2, <1>3, <1>4 DEF IndInv, TypeOK

(* Every step keeps the inductive invariant. *)
LEMMA StepInd == IndInv /\ [Next]_vars => IndInv'
  <1> SUFFICES ASSUME IndInv, [Next]_vars PROVE IndInv'
    OBVIOUS
  <1> USE ClientsAssumption DEF IndInv, TypeOK
  <1>1. ASSUME NEW a \in Apps, NEW c \in Clients, NewClient(a, c),
               UNCHANGED rptVars
        PROVE  IndInv'
    <2>1. ObjectTypes' /\ RegistryTypes'
      BY <1>1 DEF CallInv, ObjectTypes, RegistryTypes, CallTypes, NewClient,
         Enter, registry, libThread, rptVars, Object, Threads, Ids
    <2>2. CallTypes' /\ ReportTypes'
      BY <1>1 DEF CallInv, RegistryTypes, CallTypes, ReportTypes, NewClient,
         Enter, registry, libThread, rptVars, Labels, Making, Using, Closing
    <2>3. CallInv'
      BY <1>1 DEF RegistryTypes, CallTypes, CallInv, NewClient, Enter,
         registry, libThread, rptVars
    <2>4. StageInv'
      <3>1. \A b \in Apps : on[b] # c
        BY <1>1 DEF NewClient, CallTypes, CallInv, StageInv, Labels, Making, Using, Closing
      <3>2. QED
        BY <1>1, <3>1 DEF ObjectTypes, CallTypes, CallInv, StageInv, Whole, Destroyed,
           Unused, NewClient, Enter, registry, libThread, rptVars, Making, Using, Closing
    <2>5. HandlerInv'
      BY <1>1 DEF ObjectTypes, RegistryTypes, CallTypes, CallInv, StageInv,
         HandlerInv, Unused, NewClient, Enter, registry, libThread, rptVars,
         Ids, Making, Using, Closing
    <2>6. ReportInv'
      BY <1>1, <2>1, <2>2, ReportKept DEF ObjectTypes, RegistryTypes,
         CallTypes, NewClient, Enter, registry, libThread, rptVars
    <2>7. QED
      BY <2>1, <2>2, <2>3, <2>4, <2>5, <2>6
  <1>2. ASSUME NEW a \in Apps, NEW c \in Clients, Install(a, c),
               UNCHANGED rptVars
        PROVE  IndInv'
    <2>1. ObjectTypes' /\ RegistryTypes'
      BY <1>2 DEF CallInv, ObjectTypes, RegistryTypes, CallTypes, Install,
         MayInstall, Enter, objects, libThread, rptVars, Object, Threads, Ids
    <2>2. CallTypes' /\ ReportTypes'
      BY <1>2 DEF CallInv, RegistryTypes, CallTypes, ReportTypes, Install,
         MayInstall, Enter, objects, libThread, rptVars, Labels, Making,
         Using, Closing
    <2>3. CallInv'
      BY <1>2 DEF RegistryTypes, CallTypes, CallInv, Install, MayInstall,
         Enter, objects, libThread, rptVars
    <2>4. StageInv'
      BY <1>2 DEF ObjectTypes, CallTypes, CallInv, StageInv, Whole, Destroyed,
         Unused, Install, MayInstall, Enter, objects, libThread, rptVars,
         Making, Using, Closing
    <2>5. HandlerInv'
      <3>1. /\ idGen' = idGen + 1 /\ idGen' \in Ids /\ idGen' # 0
            /\ made[c] = "ok" /\ connected[c]
            /\ UNCHANGED <<made, connected, table, param, called>>
            /\ on' = [on EXCEPT ![a] = c] /\ pc' = [pc EXCEPT ![a] = "store"]
            /\ id' = [id EXCEPT ![a] = idGen'] /\ pc[a] = "idle"
            /\ handlerId' = [handlerId EXCEPT ![c] = idGen']
            /\ owner' = [owner EXCEPT ![idGen'] = c]
        BY <1>2 DEF RegistryTypes, Install, MayInstall, Enter, objects, libThread, Ids
      <3>2. \A b \in Apps : on[b] # c
        BY <1>2 DEF Install, MayInstall, Unused, StageInv, CallInv, CallTypes
      <3>3. QED
        BY <3>1, <3>2 DEF RegistryTypes, CallTypes, CallInv, HandlerInv, Unused, Ids
    <2>6. ReportInv'
      BY <1>2, <2>1, <2>2, ReportKept DEF ObjectTypes, RegistryTypes,
         CallTypes, Install, MayInstall, Enter, objects, libThread, rptVars
    <2>7. QED
      BY <2>1, <2>2, <2>3, <2>4, <2>5, <2>6
  <1>3. ASSUME NEW a \in Apps, NEW c \in Clients, Close(a, c),
               UNCHANGED rptVars
        PROVE  IndInv'
    <2>1. ObjectTypes' /\ RegistryTypes'
      BY <1>3 DEF CallInv, ObjectTypes, RegistryTypes, CallTypes, Close,
         MayClose, Enter, registry, libThread, rptVars, Object, Threads, Ids
    <2>2. CallTypes' /\ ReportTypes'
      BY <1>3 DEF CallInv, RegistryTypes, CallTypes, ReportTypes, Close,
         MayClose, Enter, registry, libThread, rptVars, Labels, Making, Using,
         Closing
    <2>3. CallInv'
      BY <1>3 DEF RegistryTypes, CallTypes, CallInv, Close, MayClose, Enter,
         registry, libThread, rptVars
    <2>4. StageInv'
      BY <1>3 DEF ObjectTypes, CallTypes, CallInv, StageInv, Whole, Destroyed,
         Unused, Close, MayClose, Enter, registry, libThread, rptVars, Making,
         Using, Closing
    <2>5. HandlerInv'
      BY <1>3 DEF ObjectTypes, RegistryTypes, CallTypes, CallInv, StageInv,
         HandlerInv, Unused, Close, MayClose, Enter, registry, libThread,
         rptVars, Ids, Making, Using, Closing
    <2>6. ReportInv'
      BY <1>3, <2>1, <2>2, ReportKept DEF ObjectTypes, RegistryTypes,
         CallTypes, Close, MayClose, Enter, registry, libThread, rptVars
    <2>7. QED
      BY <2>1, <2>2, <2>3, <2>4, <2>5, <2>6
  <1>4. ASSUME NEW a \in Apps, CreateTls(a), UNCHANGED rptVars
        PROVE  IndInv'
    <2>0. on[a] \in Clients
      BY <1>4 DEF CallTypes, CallInv, CreateTls
    <2>1. ObjectTypes' /\ RegistryTypes'
      BY <1>4, <2>0 DEF CallInv, ObjectTypes, RegistryTypes, CallTypes,
         CreateTls, Goto, Leave, registry, libThread, rptVars, Object,
         Threads, Ids
    <2>2. CallTypes' /\ ReportTypes'
      <3>1. CASE Goto(a, "connect")
        BY <1>4, <3>1 DEF CallTypes, ReportTypes, Goto, rptVars, Labels, Making
      <3>2. CASE Leave(a)
        BY <1>4, <3>2 DEF CallTypes, ReportTypes, Leave, rptVars, Labels
      <3>3. QED
        BY <1>4, <3>1, <3>2 DEF CreateTls
    <2>3. CallInv'
      BY <1>4, <2>0 DEF RegistryTypes, CallTypes, CallInv, CreateTls, Goto,
         Leave, registry, libThread, rptVars
    <2>4. StageInv'
      BY <1>4, <2>0 DEF ObjectTypes, CallTypes, CallInv, StageInv, Whole,
         Destroyed, Unused, CreateTls, Goto, Leave, registry, libThread,
         rptVars, Making, Using, Closing
    <2>5. HandlerInv'
      <3>1. CASE Goto(a, "connect") /\ UNCHANGED made
        BY <1>4, <2>0, <3>1 DEF ObjectTypes, RegistryTypes, CallTypes, CallInv, HandlerInv,
           Unused, CreateTls, Goto, registry, libThread
      <3>2. CASE made' = [made EXCEPT ![on[a]] = "error"] /\ Leave(a)
        <4>1. made[on[a]] = "making"
          BY <1>4 DEF CreateTls, StageInv, Making
        <4>2. QED
          BY <1>4, <2>0, <3>2, <4>1 DEF ObjectTypes, RegistryTypes, CallTypes, CallInv, HandlerInv,
             Unused, CreateTls, Leave, registry, libThread
      <3>3. QED
        BY <1>4, <3>1, <3>2 DEF CreateTls
    <2>6. ReportInv'
      BY <1>4, <2>0, <2>1, <2>2, ReportKept DEF ObjectTypes, RegistryTypes,
         CallTypes, CreateTls, Goto, Leave, registry, libThread, rptVars
    <2>7. QED
      BY <2>1, <2>2, <2>3, <2>4, <2>5, <2>6
  <1>5. ASSUME NEW a \in Apps, ConnectOk(a), UNCHANGED rptVars
        PROVE  IndInv'
    <2>0. on[a] \in Clients
      BY <1>5 DEF CallTypes, CallInv, ConnectOk
    <2>1. ObjectTypes' /\ RegistryTypes'
      BY <1>5, <2>0 DEF CallInv, ObjectTypes, RegistryTypes, CallTypes,
         ConnectOk, Leave, registry, rptVars, Object, Threads, Ids
    <2>2. CallTypes' /\ ReportTypes'
      BY <1>5, <2>0 DEF CallInv, RegistryTypes, CallTypes, ReportTypes,
         ConnectOk, Leave, registry, rptVars, Labels, Making, Using, Closing
    <2>3. CallInv'
      BY <1>5, <2>0 DEF RegistryTypes, CallTypes, CallInv, ConnectOk, Leave,
         registry, rptVars
    <2>4. StageInv'
      BY <1>5, <2>0 DEF ObjectTypes, CallTypes, CallInv, StageInv, Whole,
         Destroyed, Unused, ConnectOk, Leave, registry, rptVars, Making,
         Using, Closing
    <2>5. HandlerInv'
      BY <1>5, <2>0 DEF ObjectTypes, RegistryTypes, CallTypes, CallInv,
         StageInv, HandlerInv, Unused, ConnectOk, Leave, registry, rptVars,
         Ids, Making, Using, Closing
    <2>6. ReportInv'
      BY <1>5, <2>0, <2>1, <2>2, ReportKept DEF ObjectTypes, RegistryTypes,
         CallTypes, ConnectOk, Leave, registry, rptVars
    <2>7. QED
      BY <2>1, <2>2, <2>3, <2>4, <2>5, <2>6
  <1>6. ASSUME NEW a \in Apps, ConnectError(a), UNCHANGED rptVars
        PROVE  IndInv'
    <2>0. on[a] \in Clients
      BY <1>6 DEF CallTypes, CallInv, ConnectError
    <2>1. ObjectTypes' /\ RegistryTypes'
      BY <1>6, <2>0 DEF CallInv, ObjectTypes, RegistryTypes, CallTypes,
         ConnectError, Leave, registry, libThread, rptVars, Object, Threads,
         Ids
    <2>2. CallTypes' /\ ReportTypes'
      BY <1>6, <2>0 DEF CallInv, RegistryTypes, CallTypes, ReportTypes,
         ConnectError, Leave, registry, libThread, rptVars, Labels, Making,
         Using, Closing
    <2>3. CallInv'
      BY <1>6, <2>0 DEF RegistryTypes, CallTypes, CallInv, ConnectError,
         Leave, registry, libThread, rptVars
    <2>4. StageInv'
      BY <1>6, <2>0 DEF ObjectTypes, CallTypes, CallInv, StageInv, Whole,
         Destroyed, Unused, ConnectError, Leave, registry, libThread, rptVars,
         Making, Using, Closing
    <2>5. HandlerInv'
      BY <1>6, <2>0 DEF ObjectTypes, RegistryTypes, CallTypes, CallInv,
         StageInv, HandlerInv, Unused, ConnectError, Leave, registry,
         libThread, rptVars, Ids, Making, Using, Closing
    <2>6. ReportInv'
      BY <1>6, <2>0, <2>1, <2>2, ReportKept DEF ObjectTypes, RegistryTypes,
         CallTypes, ConnectError, Leave, registry, libThread, rptVars
    <2>7. QED
      BY <2>1, <2>2, <2>3, <2>4, <2>5, <2>6
  <1>7. ASSUME NEW a \in Apps, StoreHandler(a), UNCHANGED rptVars
        PROVE  IndInv'
    <2>0. on[a] \in Clients
      BY <1>7 DEF CallTypes, CallInv, StoreHandler
    <2>1. ObjectTypes' /\ RegistryTypes'
      <3>1. id[a] \in Ids
        BY <1>7 DEF RegistryTypes, CallInv, StoreHandler, Ids
      <3>2. QED
        BY <1>7, <3>1 DEF ObjectTypes, RegistryTypes, StoreHandler, Goto, objects, libThread, rptVars
    <2>2. CallTypes' /\ ReportTypes'
      BY <1>7, <2>0 DEF CallInv, RegistryTypes, CallTypes, ReportTypes,
         StoreHandler, Goto, objects, libThread, rptVars, Labels, Making,
         Using, Closing
    <2>3. CallInv'
      BY <1>7, <2>0 DEF RegistryTypes, CallTypes, CallInv, StoreHandler, Goto,
         objects, libThread, rptVars
    <2>4. StageInv'
      BY <1>7, <2>0 DEF ObjectTypes, CallTypes, CallInv, StageInv, Whole,
         Destroyed, Unused, StoreHandler, Goto, objects, libThread, rptVars,
         Making, Using, Closing
    <2>5. HandlerInv'
      BY <1>7, <2>0 DEF ObjectTypes, RegistryTypes, CallTypes, CallInv,
         StageInv, HandlerInv, Unused, StoreHandler, Goto, objects, libThread,
         rptVars, Ids, Making, Using, Closing
    <2>6. ReportInv'
      BY <1>7, <2>0, <2>1, <2>2, ReportKept DEF ObjectTypes, RegistryTypes,
         CallTypes, StoreHandler, Goto, objects, libThread, rptVars
    <2>7. QED
      BY <2>1, <2>2, <2>3, <2>4, <2>5, <2>6
  <1>8. ASSUME NEW a \in Apps, InstallReturn(a), UNCHANGED rptVars
        PROVE  IndInv'
    <2>0. on[a] \in Clients
      BY <1>8 DEF CallTypes, CallInv, InstallReturn
    <2>1. ObjectTypes' /\ RegistryTypes'
      BY <1>8, <2>0 DEF CallInv, ObjectTypes, RegistryTypes, CallTypes,
         InstallReturn, Leave, objects, libThread, rptVars, Object, Threads,
         Ids
    <2>2. CallTypes' /\ ReportTypes'
      BY <1>8, <2>0 DEF CallInv, RegistryTypes, CallTypes, ReportTypes,
         InstallReturn, Leave, objects, libThread, rptVars, Labels, Making,
         Using, Closing
    <2>3. CallInv'
      BY <1>8, <2>0 DEF RegistryTypes, CallTypes, CallInv, InstallReturn,
         Leave, objects, libThread, rptVars
    <2>4. StageInv'
      BY <1>8, <2>0 DEF ObjectTypes, CallTypes, CallInv, StageInv, Whole,
         Destroyed, Unused, InstallReturn, Leave, objects, libThread, rptVars,
         Making, Using, Closing
    <2>5. HandlerInv'
      BY <1>8, <2>0 DEF ObjectTypes, RegistryTypes, CallTypes, CallInv,
         StageInv, HandlerInv, Unused, InstallReturn, Leave, objects,
         libThread, rptVars, Ids, Making, Using, Closing
    <2>6. ReportInv'
      BY <1>8, <2>0, <2>1, <2>2, ReportKept DEF ObjectTypes, RegistryTypes,
         CallTypes, InstallReturn, Leave, objects, libThread, rptVars
    <2>7. QED
      BY <2>1, <2>2, <2>3, <2>4, <2>5, <2>6
  <1>9. ASSUME NEW a \in Apps, DestroyCloses(a), UNCHANGED rptVars
        PROVE  IndInv'
    <2>0. on[a] \in Clients
      BY <1>9 DEF CallTypes, CallInv, DestroyCloses
    <2>1. ObjectTypes' /\ RegistryTypes'
      BY <1>9, <2>0 DEF CallInv, ObjectTypes, RegistryTypes, CallTypes,
         DestroyCloses, Goto, registry, rptVars, Object, Threads, Ids
    <2>2. CallTypes' /\ ReportTypes'
      BY <1>9, <2>0 DEF CallInv, RegistryTypes, CallTypes, ReportTypes,
         DestroyCloses, Goto, registry, rptVars, Labels, Making, Using,
         Closing
    <2>3. CallInv'
      BY <1>9, <2>0 DEF RegistryTypes, CallTypes, CallInv, DestroyCloses,
         Goto, registry, rptVars
    <2>4. StageInv'
      <3>1. /\ pc[a] = "destroy" /\ Whole(on[a]) /\ ~connected[on[a]]
            /\ made[on[a]] = "ok"
            /\ \A b \in Apps : on[b] = on[a] => b = a
        BY <1>9, <2>0 DEF DestroyCloses, StageInv, Closing, CallTypes
      <3>2. \A d \in Clients : d # on[a] =>
              destroys'[d] = destroys[d] /\ thread'[d] = thread[d]
        BY <1>9, <2>0 DEF DestroyCloses, ObjectTypes
      <3>3. /\ destroys'[on[a]] = 1
            /\ thread'[on[a]] \in {"bridge", "handler", "done"}
        BY <1>9, <2>0, <3>1 DEF DestroyCloses, ObjectTypes, Whole, Threads
      <3>4. pc' = [pc EXCEPT ![a] = "join"] /\ UNCHANGED <<on, conn, tls, made, connected>>
        BY <1>9 DEF DestroyCloses, Goto
      <3>5. QED
        BY <2>0, <3>1, <3>2, <3>3, <3>4 DEF ObjectTypes, CallTypes, CallInv, StageInv,
           Whole, Destroyed, Unused, Making, Using, Closing
    <2>5. HandlerInv'
      BY <1>9, <2>0 DEF ObjectTypes, RegistryTypes, CallTypes, CallInv,
         StageInv, HandlerInv, Unused, DestroyCloses, Goto, registry, rptVars,
         Ids, Making, Using, Closing
    <2>6. ReportInv'
      BY <1>9, <2>0, <2>1, <2>2, ReportKept DEF ObjectTypes, RegistryTypes,
         CallTypes, DestroyCloses, Goto, registry, rptVars
    <2>7. QED
      BY <2>1, <2>2, <2>3, <2>4, <2>5, <2>6
  <1>10. ASSUME NEW a \in Apps, DestroyReturns(a), UNCHANGED rptVars
        PROVE  IndInv'
    <2>0. on[a] \in Clients
      BY <1>10 DEF CallTypes, CallInv, DestroyReturns
    <2>1. ObjectTypes' /\ RegistryTypes'
      BY <1>10, <2>0 DEF CallInv, ObjectTypes, RegistryTypes, CallTypes,
         DestroyReturns, Goto, registry, libThread, rptVars, Object, Threads,
         Ids
    <2>2. CallTypes' /\ ReportTypes'
      BY <1>10, <2>0 DEF CallInv, RegistryTypes, CallTypes, ReportTypes,
         DestroyReturns, Goto, registry, libThread, rptVars, Labels, Making,
         Using, Closing
    <2>3. CallInv'
      BY <1>10, <2>0 DEF RegistryTypes, CallTypes, CallInv, DestroyReturns,
         Goto, registry, libThread, rptVars
    <2>4. StageInv'
      BY <1>10, <2>0 DEF ObjectTypes, CallTypes, CallInv, StageInv, Whole,
         Destroyed, Unused, DestroyReturns, Goto, registry, libThread,
         rptVars, Making, Using, Closing
    <2>5. HandlerInv'
      BY <1>10, <2>0 DEF ObjectTypes, RegistryTypes, CallTypes, CallInv,
         StageInv, HandlerInv, Unused, DestroyReturns, Goto, registry,
         libThread, rptVars, Ids, Making, Using, Closing
    <2>6. ReportInv'
      BY <1>10, <2>0, <2>1, <2>2, ReportKept DEF ObjectTypes, RegistryTypes,
         CallTypes, DestroyReturns, Goto, registry, libThread, rptVars
    <2>7. QED
      BY <2>1, <2>2, <2>3, <2>4, <2>5, <2>6
  <1>11. ASSUME NEW a \in Apps, CloseTls(a), UNCHANGED rptVars
        PROVE  IndInv'
    <2>0. on[a] \in Clients
      BY <1>11 DEF CallTypes, CallInv, CloseTls
    <2>1. ObjectTypes' /\ RegistryTypes'
      BY <1>11, <2>0 DEF CallInv, ObjectTypes, RegistryTypes, CallTypes,
         CloseTls, Goto, registry, libThread, rptVars, Object, Threads, Ids
    <2>2. CallTypes' /\ ReportTypes'
      BY <1>11, <2>0 DEF CallInv, RegistryTypes, CallTypes, ReportTypes,
         CloseTls, Goto, registry, libThread, rptVars, Labels, Making, Using,
         Closing
    <2>3. CallInv'
      BY <1>11, <2>0 DEF RegistryTypes, CallTypes, CallInv, CloseTls, Goto,
         registry, libThread, rptVars
    <2>4. StageInv'
      BY <1>11, <2>0 DEF ObjectTypes, CallTypes, CallInv, StageInv, Whole,
         Destroyed, Unused, CloseTls, Goto, registry, libThread, rptVars,
         Making, Using, Closing
    <2>5. HandlerInv'
      BY <1>11, <2>0 DEF ObjectTypes, RegistryTypes, CallTypes, CallInv,
         StageInv, HandlerInv, Unused, CloseTls, Goto, registry, libThread,
         rptVars, Ids, Making, Using, Closing
    <2>6. ReportInv'
      BY <1>11, <2>0, <2>1, <2>2, ReportKept DEF ObjectTypes, RegistryTypes,
         CallTypes, CloseTls, Goto, registry, libThread, rptVars
    <2>7. QED
      BY <2>1, <2>2, <2>3, <2>4, <2>5, <2>6
  <1>12. ASSUME NEW a \in Apps, Unregister(a), UNCHANGED rptVars
        PROVE  IndInv'
    <2>0. on[a] \in Clients
      BY <1>12 DEF CallTypes, CallInv, Unregister
    <2>1. ObjectTypes' /\ RegistryTypes'
      <3>1. ObjectTypes'
        BY <1>12 DEF ObjectTypes, Unregister, Leave, objects, libThread, rptVars
      <3>2. table' \subseteq Ids
        BY <1>12 DEF RegistryTypes, Unregister
      <3>3. handlerId' \in [Clients -> 0..MaxIds]
        BY <1>12, <2>0 DEF RegistryTypes, Unregister
      <3>4. QED
        BY <1>12, <3>1, <3>2, <3>3 DEF RegistryTypes, Unregister, Leave, objects, libThread, rptVars
    <2>2. CallTypes' /\ ReportTypes'
      BY <1>12, <2>0 DEF CallInv, RegistryTypes, CallTypes, ReportTypes,
         Unregister, Leave, objects, libThread, rptVars, Labels, Making,
         Using, Closing
    <2>3. CallInv'
      BY <1>12, <2>0 DEF RegistryTypes, CallTypes, CallInv, Unregister, Leave,
         objects, libThread, rptVars
    <2>4. StageInv'
      BY <1>12, <2>0 DEF ObjectTypes, CallTypes, CallInv, StageInv, Whole,
         Destroyed, Unused, Unregister, Leave, objects, libThread, rptVars,
         Making, Using, Closing
    <2>5. HandlerInv'
      BY <1>12, <2>0 DEF ObjectTypes, RegistryTypes, CallTypes, CallInv,
         StageInv, HandlerInv, Unused, Unregister, Leave, objects, libThread,
         rptVars, Ids, Making, Using, Closing
    <2>6. ReportInv'
      BY <1>12, <2>0, <2>1, <2>2, ReportKept DEF ObjectTypes, RegistryTypes,
         CallTypes, Unregister, Leave, objects, libThread, rptVars
    <2>7. QED
      BY <2>1, <2>2, <2>3, <2>4, <2>5, <2>6
  <1>13. ASSUME NEW a \in Apps, NEW c \in Clients, NEW r \in Rcbs,
               InstallReportHandler(a, c, r)
        PROVE  IndInv'
    <2>1. ObjectTypes' /\ RegistryTypes'
      BY <1>13 DEF CallInv, ObjectTypes, RegistryTypes, CallTypes,
         InstallReportHandler, MayUse, Enter, objects, libThread
    <2>2. CallTypes' /\ ReportTypes'
      <3>1. CallTypes'
        BY <1>13 DEF RegistryTypes, CallTypes, InstallReportHandler, MayUse, Enter,
           Labels, Using, Ids
      <3>2. ReportTypes'
        BY <1>13 DEF ReportTypes, InstallReportHandler
      <3>3. QED
        BY <3>1, <3>2
    <2>3. CallInv'
      BY <1>13 DEF RegistryTypes, CallTypes, CallInv, InstallReportHandler,
         MayUse, Enter, objects, libThread
    <2>4. StageInv'
      BY <1>13 DEF ObjectTypes, CallTypes, CallInv, StageInv, Whole,
         Destroyed, Unused, InstallReportHandler, MayUse, Enter, objects,
         libThread, Making, Using, Closing
    <2>5. HandlerInv'
      BY <1>13 DEF ObjectTypes, RegistryTypes, CallTypes, CallInv, StageInv,
         HandlerInv, Unused, InstallReportHandler, MayUse, Enter, objects,
         libThread, Ids, Making, Using, Closing
    <2>6. ReportInv'
      <3>1. InstallInv'
        <4>1. /\ pc' = [pc EXCEPT ![a] = "rptstore"] /\ id' = [id EXCEPT ![a] = idGen + 1]
              /\ on' = [on EXCEPT ![a] = c] /\ rcb' = [rcb EXCEPT ![a] = r]
              /\ UNCHANGED <<reportCallbacks, rptParam>> /\ ~Installing
          BY <1>13 DEF InstallReportHandler, Enter
        <4>2. \A d \in Clients, q \in Rcbs : rptParam[d][q] # idGen + 1
          BY DEF ReportInv, ParamInv, RegistryTypes, ReportTypes
        <4>3. \A b \in Apps : pc[b] \notin {"rptstore", "rptinstall"}
          BY <4>1 DEF Installing
        <4>4. QED
          BY <4>1, <4>2, <4>3 DEF InstallInv, CallTypes
      <3>2. ParamInv'
        BY <1>13 DEF ReportInv, RegistryTypes, ReportTypes, ParamInv, InstallReportHandler
      <3>3. DeliverInv'
        BY <1>13 DEF ReportInv, DeliverInv, InstallReportHandler, libThread
      <3>4. EarlyInv'
        BY <1>13 DEF ReportInv, EarlyInv, InstallReportHandler
      <3>5. QED
        BY <3>1, <3>2, <3>3, <3>4 DEF ReportInv
    <2>7. QED
      BY <2>1, <2>2, <2>3, <2>4, <2>5, <2>6
  <1>14. ASSUME NEW a \in Apps, NEW c \in Clients, NEW r \in Rcbs,
               UninstallReportHandler(a, c, r)
        PROVE  IndInv'
    <2>1. ObjectTypes' /\ RegistryTypes'
      BY <1>14 DEF CallInv, ObjectTypes, RegistryTypes, CallTypes,
         UninstallReportHandler, MayUse, Enter, objects, registry, libThread
    <2>2. CallTypes' /\ ReportTypes'
      BY <1>14 DEF CallInv, RegistryTypes, CallTypes, ReportTypes,
         UninstallReportHandler, MayUse, Enter, objects, registry, libThread,
         Labels, Making, Using, Closing, Ids
    <2>3. CallInv'
      BY <1>14 DEF RegistryTypes, CallTypes, CallInv, UninstallReportHandler,
         MayUse, Enter, objects, registry, libThread
    <2>4. StageInv'
      BY <1>14 DEF ObjectTypes, CallTypes, CallInv, StageInv, Whole,
         Destroyed, Unused, UninstallReportHandler, MayUse, Enter, objects,
         registry, libThread, Making, Using, Closing
    <2>5. HandlerInv'
      BY <1>14 DEF ObjectTypes, RegistryTypes, CallTypes, CallInv, StageInv,
         HandlerInv, Unused, UninstallReportHandler, MayUse, Enter, objects,
         registry, libThread, Ids, Making, Using, Closing
    <2>6. ReportInv'
      <3>1. InstallInv'
        BY <1>14 DEF ReportInv, RegistryTypes, CallTypes, ReportTypes, CallInv,
           InstallInv, ParamInv, UninstallReportHandler, MayUse, Enter,
           objects, registry, libThread, Installing
      <3>2. ParamInv'
        BY <1>14 DEF ReportInv, RegistryTypes, CallTypes, ReportTypes, CallInv,
           InstallInv, ParamInv, UninstallReportHandler, MayUse, Enter,
           objects, registry, libThread
      <3>3. DeliverInv'
        BY <1>14 DEF ReportInv, CallTypes, ReportTypes, DeliverInv,
           UninstallReportHandler, MayUse, Enter, objects, registry,
           libThread, Report
      <3>4. EarlyInv'
        BY <1>14 DEF ReportInv, CallTypes, DeliverInv, EarlyInv, UninstallReportHandler,
           MayUse, Enter, objects, registry, libThread, Installing, Reading
      <3>5. QED
        BY <3>1, <3>2, <3>3, <3>4 DEF ReportInv
    <2>7. QED
      BY <2>1, <2>2, <2>3, <2>4, <2>5, <2>6
  <1>15. ASSUME NEW a \in Apps, StoreReportHandler(a)
        PROVE  IndInv'
    <2>0. on[a] \in Clients
      BY <1>15 DEF CallTypes, CallInv, StoreReportHandler
    <2>1. ObjectTypes' /\ RegistryTypes'
      BY <1>15, <2>0 DEF CallInv, ObjectTypes, RegistryTypes, CallTypes,
         StoreReportHandler, Goto, objects, registry, libThread
    <2>2. CallTypes' /\ ReportTypes'
      BY <1>15, <2>0 DEF CallInv, RegistryTypes, CallTypes, ReportTypes,
         StoreReportHandler, Goto, objects, registry, libThread, Labels,
         Making, Using, Closing, Ids
    <2>3. CallInv'
      BY <1>15, <2>0 DEF RegistryTypes, CallTypes, CallInv,
         StoreReportHandler, Goto, objects, registry, libThread
    <2>4. StageInv'
      BY <1>15, <2>0 DEF ObjectTypes, CallTypes, CallInv, StageInv, Whole,
         Destroyed, Unused, StoreReportHandler, Goto, objects, registry,
         libThread, Making, Using, Closing
    <2>5. HandlerInv'
      BY <1>15, <2>0 DEF ObjectTypes, RegistryTypes, CallTypes, CallInv,
         StageInv, HandlerInv, Unused, StoreReportHandler, Goto, objects,
         registry, libThread, Ids, Making, Using, Closing
    <2>6. ReportInv'
      <3>1. /\ pc[a] = "rptstore" /\ pc' = [pc EXCEPT ![a] = "rptinstall"]
            /\ reportCallbacks' = [reportCallbacks EXCEPT ![id[a]] = <<on[a], rcb[a]>>]
            /\ id[a] \in Ids /\ UNCHANGED <<on, id, rcb, rptParam, latest, idGen>>
        BY <1>15 DEF CallInv, RegistryTypes, StoreReportHandler, Goto, objects, registry, libThread, Ids
      <3>2. \A d \in Clients, q \in Rcbs : rptParam[d][q] # id[a]
        BY <3>1 DEF ReportInv, InstallInv
      <3>3. InstallInv'
        BY <3>1 DEF ReportInv, InstallInv, CallTypes, ReportTypes
      <3>4. ParamInv'
        <4>1. \A i \in Ids : i # id[a] => reportCallbacks'[i] = reportCallbacks[i]
          BY <3>1 DEF ReportTypes
        <4>2. \A d \in Clients, q \in Rcbs :
                rptParam[d][q] # 0 => rptParam[d][q] \in Ids
          BY DEF ReportTypes, Ids
        <4>3. QED
          BY <3>1, <3>2, <4>1, <4>2 DEF ReportInv, ParamInv
      <3>5. DeliverInv'
        BY <1>15 DEF ReportInv, DeliverInv, StoreReportHandler, libThread
      <3>6. EarlyInv'
        BY <1>15, <3>1 DEF CallTypes, ReportInv, DeliverInv, EarlyInv, StoreReportHandler,
           Installing, Reading
      <3>7. QED
        BY <3>3, <3>4, <3>5, <3>6 DEF ReportInv
    <2>7. QED
      BY <2>1, <2>2, <2>3, <2>4, <2>5, <2>6
  <1>16. ASSUME NEW a \in Apps, InstallReportReturn(a)
        PROVE  IndInv'
    <2>0. on[a] \in Clients
      BY <1>16 DEF CallTypes, CallInv, InstallReportReturn
    <2>1. ObjectTypes' /\ RegistryTypes'
      BY <1>16, <2>0 DEF CallInv, ObjectTypes, RegistryTypes, CallTypes,
         InstallReportReturn, SetLibrary, Leave, objects, registry, libThread
    <2>2. CallTypes' /\ ReportTypes'
      BY <1>16, <2>0 DEF CallInv, RegistryTypes, CallTypes, ReportTypes,
         InstallReportReturn, SetLibrary, Leave, objects, registry, libThread,
         Labels, Making, Using, Closing, Ids
    <2>3. CallInv'
      BY <1>16, <2>0 DEF RegistryTypes, CallTypes, CallInv,
         InstallReportReturn, SetLibrary, Leave, objects, registry, libThread
    <2>4. StageInv'
      BY <1>16, <2>0 DEF ObjectTypes, CallTypes, CallInv, StageInv, Whole,
         Destroyed, Unused, InstallReportReturn, SetLibrary, Leave, objects,
         registry, libThread, Making, Using, Closing
    <2>5. HandlerInv'
      BY <1>16, <2>0 DEF ObjectTypes, RegistryTypes, CallTypes, CallInv,
         StageInv, HandlerInv, Unused, InstallReportReturn, SetLibrary, Leave,
         objects, registry, libThread, Ids, Making, Using, Closing
    <2>6. ReportInv'
      <3>1. /\ pc[a] = "rptinstall" /\ pc' = [pc EXCEPT ![a] = "idle"]
            /\ rcb[a] \in Rcbs /\ id[a] \in 1..idGen
            /\ UNCHANGED <<reportCallbacks, idGen>> /\ latest' = rptParam'
        BY <1>16 DEF CallInv, ReportInv, ParamInv, InstallReportReturn, SetLibrary, Leave, objects, registry, libThread
      <3>2. \A d \in Clients, q \in Rcbs : rptParam'[d][q] =
              IF d = on[a] /\ q = rcb[a] THEN id[a] ELSE rptParam[d][q]
        BY <1>16, <2>0, <3>1 DEF ReportTypes, InstallReportReturn, SetLibrary, Leave, objects, registry, libThread
      <3>3. InstallInv'
        BY <1>16, <3>1 DEF ReportInv, InstallInv, CallTypes, InstallReportReturn, SetLibrary, Leave, objects, registry, libThread
      <3>4. ParamInv'
        <4>1. reportCallbacks[id[a]] = <<on[a], rcb[a]>>
          BY <3>1 DEF ReportInv, InstallInv
        <4>2. id[a] <= idGen
          BY <3>1 DEF RegistryTypes
        <4>3. ASSUME NEW d \in Clients, NEW q \in Rcbs, rptParam'[d][q] # 0
              PROVE  /\ rptParam'[d][q] <= idGen
                     /\ reportCallbacks[rptParam'[d][q]] = <<d, q>>
          <5>1. CASE d = on[a] /\ q = rcb[a]
            BY <3>2, <4>1, <4>2, <5>1
          <5>2. CASE ~(d = on[a] /\ q = rcb[a])
            BY <3>2, <4>3, <5>2 DEF ReportInv, ParamInv
          <5>3. QED
            BY <5>1, <5>2
        <4>4. QED
          BY <3>1, <4>3 DEF ParamInv
      <3>5. DeliverInv'
        BY <1>16, <3>2 DEF ReportInv, DeliverInv, InstallReportReturn, SetLibrary, Leave, objects, registry, libThread
      <3>6. EarlyInv'
        BY <1>16 DEF CallTypes, ReportInv, EarlyInv, InstallReportReturn, SetLibrary, Leave, objects, registry, libThread, Installing
      <3>7. QED
        BY <3>3, <3>4, <3>5, <3>6 DEF ReportInv
    <2>7. QED
      BY <2>1, <2>2, <2>3, <2>4, <2>5, <2>6
  <1>17. ASSUME NEW a \in Apps, UninstallReturn(a)
        PROVE  IndInv'
    <2>0. on[a] \in Clients
      BY <1>17 DEF CallTypes, CallInv, UninstallReturn
    <2>1. ObjectTypes' /\ RegistryTypes'
      BY <1>17, <2>0 DEF CallInv, ObjectTypes, RegistryTypes, CallTypes,
         UninstallReturn, SetLibrary, Leave, objects, registry, libThread
    <2>2. CallTypes' /\ ReportTypes'
      BY <1>17, <2>0 DEF CallInv, RegistryTypes, CallTypes, ReportTypes,
         UninstallReturn, SetLibrary, Leave, objects, registry, libThread,
         Labels, Making, Using, Closing, Ids
    <2>3. CallInv'
      BY <1>17, <2>0 DEF RegistryTypes, CallTypes, CallInv, UninstallReturn,
         SetLibrary, Leave, objects, registry, libThread
    <2>4. StageInv'
      BY <1>17, <2>0 DEF ObjectTypes, CallTypes, CallInv, StageInv, Whole,
         Destroyed, Unused, UninstallReturn, SetLibrary, Leave, objects,
         registry, libThread, Making, Using, Closing
    <2>5. HandlerInv'
      BY <1>17, <2>0 DEF ObjectTypes, RegistryTypes, CallTypes, CallInv,
         StageInv, HandlerInv, Unused, UninstallReturn, SetLibrary, Leave,
         objects, registry, libThread, Ids, Making, Using, Closing
    <2>6. ReportInv'
      <3>1. /\ pc[a] = "rptremove" /\ pc' = [pc EXCEPT ![a] = "idle"]
            /\ rcb[a] \in Rcbs
            /\ UNCHANGED <<reportCallbacks, idGen>> /\ latest' = rptParam'
        BY <1>17 DEF CallInv, ReportInv, ParamInv, UninstallReturn, SetLibrary, Leave, objects, registry, libThread
      <3>2. \A d \in Clients, q \in Rcbs : rptParam'[d][q] =
              IF d = on[a] /\ q = rcb[a] THEN 0 ELSE rptParam[d][q]
        BY <1>17, <2>0, <3>1 DEF ReportTypes, UninstallReturn, SetLibrary, Leave, objects, registry, libThread
      <3>3. InstallInv'
        BY <1>17, <3>1, <3>2 DEF ReportInv, InstallInv, CallInv, CallTypes, UninstallReturn, SetLibrary, Leave, objects, registry, libThread
      <3>4. ParamInv'
        BY <3>1, <3>2 DEF ReportInv, ParamInv
      <3>5. DeliverInv'
        BY <1>17, <3>2 DEF ReportInv, DeliverInv, UninstallReturn, SetLibrary, Leave, objects, registry, libThread
      <3>6. EarlyInv'
        BY <1>17 DEF CallTypes, ReportInv, EarlyInv, UninstallReturn, SetLibrary, Leave, objects, registry, libThread, Installing
      <3>7. QED
        BY <3>3, <3>4, <3>5, <3>6 DEF ReportInv
    <2>7. QED
      BY <2>1, <2>2, <2>3, <2>4, <2>5, <2>6
  <1>18. ASSUME NEW c \in Clients, Bridge(c), report[c].st = "none",
               UNCHANGED rptVars
        PROVE  IndInv'
    <2>1. ObjectTypes' /\ RegistryTypes'
      <3>1. CASE param[c] \in table
        BY <1>18, <3>1 DEF ObjectTypes, RegistryTypes, Bridge, objects, registry, rptVars, Threads
      <3>2. CASE param[c] \notin table
        BY <1>18, <3>2 DEF ObjectTypes, RegistryTypes, Bridge, objects, registry, rptVars, Threads
      <3>3. QED
        BY <3>1, <3>2
    <2>2. CallTypes' /\ ReportTypes'
      BY <1>18 DEF CallInv, RegistryTypes, CallTypes, ReportTypes, Bridge,
         objects, registry, rptVars, Labels, Making, Using, Closing
    <2>3. CallInv'
      BY <1>18 DEF RegistryTypes, CallTypes, CallInv, Bridge, objects,
         registry, rptVars
    <2>4. StageInv'
      BY <1>18 DEF ObjectTypes, CallTypes, CallInv, StageInv, Whole,
         Destroyed, Unused, Bridge, objects, registry, rptVars, Making, Using,
         Closing
    <2>5. HandlerInv'
      BY <1>18 DEF ObjectTypes, RegistryTypes, CallTypes, CallInv, StageInv,
         HandlerInv, Unused, Bridge, objects, registry, rptVars, Ids, Making,
         Using, Closing
    <2>6. ReportInv'
      BY <1>18, <2>1, <2>2, ReportKept DEF ObjectTypes, RegistryTypes,
         CallTypes, Bridge, objects, registry, rptVars
    <2>7. QED
      BY <2>1, <2>2, <2>3, <2>4, <2>5, <2>6
  <1>19. ASSUME NEW c \in Clients, HandlerReturn(c), UNCHANGED rptVars
        PROVE  IndInv'
    <2>1. ObjectTypes' /\ RegistryTypes'
      BY <1>19 DEF CallInv, ObjectTypes, RegistryTypes, CallTypes,
         HandlerReturn, objects, registry, rptVars, Object, Threads, Ids
    <2>2. CallTypes' /\ ReportTypes'
      BY <1>19 DEF CallInv, RegistryTypes, CallTypes, ReportTypes,
         HandlerReturn, objects, registry, rptVars, Labels, Making, Using,
         Closing
    <2>3. CallInv'
      BY <1>19 DEF RegistryTypes, CallTypes, CallInv, HandlerReturn, objects,
         registry, rptVars
    <2>4. StageInv'
      BY <1>19 DEF ObjectTypes, CallTypes, CallInv, StageInv, Whole,
         Destroyed, Unused, HandlerReturn, objects, registry, rptVars, Making,
         Using, Closing
    <2>5. HandlerInv'
      BY <1>19 DEF ObjectTypes, RegistryTypes, CallTypes, CallInv, StageInv,
         HandlerInv, Unused, HandlerReturn, objects, registry, rptVars, Ids,
         Making, Using, Closing
    <2>6. ReportInv'
      BY <1>19, <2>1, <2>2, ReportKept DEF ObjectTypes, RegistryTypes,
         CallTypes, HandlerReturn, objects, registry, rptVars
    <2>7. QED
      BY <2>1, <2>2, <2>3, <2>4, <2>5, <2>6
  <1>20. ASSUME NEW c \in Clients, ConnectionLost(c), UNCHANGED rptVars
        PROVE  IndInv'
    <2>1. ObjectTypes' /\ RegistryTypes'
      BY <1>20 DEF CallInv, ObjectTypes, RegistryTypes, CallTypes,
         ConnectionLost, objects, registry, rptVars, Object, Threads, Ids
    <2>2. CallTypes' /\ ReportTypes'
      BY <1>20 DEF CallInv, RegistryTypes, CallTypes, ReportTypes,
         ConnectionLost, objects, registry, rptVars, Labels, Making, Using,
         Closing
    <2>3. CallInv'
      BY <1>20 DEF RegistryTypes, CallTypes, CallInv, ConnectionLost, objects,
         registry, rptVars
    <2>4. StageInv'
      BY <1>20 DEF ObjectTypes, CallTypes, CallInv, StageInv, Whole,
         Destroyed, Unused, ConnectionLost, objects, registry, rptVars,
         Making, Using, Closing
    <2>5. HandlerInv'
      BY <1>20 DEF ObjectTypes, RegistryTypes, CallTypes, CallInv, StageInv,
         HandlerInv, Unused, ConnectionLost, objects, registry, rptVars, Ids,
         Making, Using, Closing
    <2>6. ReportInv'
      BY <1>20, <2>1, <2>2, ReportKept DEF ObjectTypes, RegistryTypes,
         CallTypes, ConnectionLost, objects, registry, rptVars
    <2>7. QED
      BY <2>1, <2>2, <2>3, <2>4, <2>5, <2>6
  <1>21. ASSUME NEW c \in Clients, NEW r \in Rcbs, ReportArrives(c, r)
        PROVE  IndInv'
    <2>1. ObjectTypes' /\ RegistryTypes' /\ CallTypes'
      BY <1>21 DEF ObjectTypes, RegistryTypes, CallTypes, ReportArrives,
         clientVars
    <2>2. ReportTypes'
      BY <1>21 DEF RegistryTypes, CallTypes, ReportTypes, ReportArrives,
         clientVars, Report
    <2>3. CallInv' /\ StageInv' /\ HandlerInv'
      BY <1>21 DEF CallInv, StageInv, Whole, Destroyed, Unused, HandlerInv,
         ReportArrives, clientVars
    <2>6. ReportInv'
      <3>1. InstallInv' /\ ParamInv'
        BY <1>21 DEF InstallInv, ParamInv, ReportInv, ReportArrives,
           clientVars
      <3>2. DeliverInv' /\ EarlyInv'
        BY <1>21 DEF ReportTypes, ReportInv, DeliverInv, EarlyInv,
           ReportArrives, clientVars, Report, Installing
      <3>3. QED
        BY <3>1, <3>2 DEF ReportInv
    <2>7. QED
      BY <2>1, <2>2, <2>3, <2>6
  <1>22. ASSUME NEW c \in Clients, ReportBridge(c)
        PROVE  IndInv'
    <2>1. ObjectTypes' /\ RegistryTypes' /\ CallTypes'
      BY <1>22 DEF ObjectTypes, RegistryTypes, CallTypes, ReportBridge,
         clientVars
    <2>2. ReportTypes'
      <3>1. [report[c] EXCEPT !.st = "handler"] \in Report
        BY DEF ReportTypes, Report
      <3>2. QED
        BY <1>22, <3>1 DEF ReportTypes, ReportBridge
    <2>3. CallInv' /\ StageInv' /\ HandlerInv'
      BY <1>22 DEF CallInv, StageInv, Whole, Destroyed, Unused, HandlerInv,
         ReportBridge, clientVars
    <2>6. ReportInv'
      <3>1. InstallInv' /\ ParamInv'
        BY <1>22 DEF InstallInv, ParamInv, ReportInv, ReportBridge, clientVars
      <3>2. DeliverInv' /\ EarlyInv'
        BY <1>22 DEF ReportTypes, ReportInv, DeliverInv, EarlyInv,
           ReportBridge, clientVars, Report, Installing
      <3>3. QED
        BY <3>1, <3>2 DEF ReportInv
    <2>7. QED
      BY <2>1, <2>2, <2>3, <2>6
  <1>23. ASSUME NEW c \in Clients, ReportDropped(c)
        PROVE  IndInv'
    <2>1. ObjectTypes' /\ RegistryTypes' /\ CallTypes'
      BY <1>23 DEF ObjectTypes, RegistryTypes, CallTypes, ReportDropped,
         clientVars, NoReport
    <2>2. ReportTypes'
      BY <1>23 DEF RegistryTypes, CallTypes, ReportTypes, ReportDropped,
         clientVars, NoReport, Report
    <2>3. CallInv' /\ StageInv' /\ HandlerInv'
      BY <1>23 DEF CallInv, StageInv, Whole, Destroyed, Unused, HandlerInv,
         ReportDropped, clientVars, NoReport
    <2>6. ReportInv'
      <3>1. InstallInv' /\ ParamInv'
        BY <1>23 DEF InstallInv, ParamInv, ReportInv, ReportDropped,
           clientVars, NoReport
      <3>2. DeliverInv' /\ EarlyInv'
        BY <1>23 DEF ReportTypes, ReportInv, DeliverInv, EarlyInv,
           ReportDropped, clientVars, NoReport, Report, Installing
      <3>3. QED
        BY <3>1, <3>2 DEF ReportInv
    <2>7. QED
      BY <2>1, <2>2, <2>3, <2>6
  <1>24. ASSUME NEW c \in Clients, ReportHandlerReturn(c)
        PROVE  IndInv'
    <2>1. ObjectTypes' /\ RegistryTypes' /\ CallTypes'
      BY <1>24 DEF ObjectTypes, RegistryTypes, CallTypes, ReportHandlerReturn,
         clientVars, NoReport
    <2>2. ReportTypes'
      BY <1>24 DEF RegistryTypes, CallTypes, ReportTypes, ReportHandlerReturn,
         clientVars, NoReport, Report
    <2>3. CallInv' /\ StageInv' /\ HandlerInv'
      BY <1>24 DEF CallInv, StageInv, Whole, Destroyed, Unused, HandlerInv,
         ReportHandlerReturn, clientVars, NoReport
    <2>6. ReportInv'
      <3>1. InstallInv' /\ ParamInv'
        BY <1>24 DEF InstallInv, ParamInv, ReportInv, ReportHandlerReturn,
           clientVars, NoReport
      <3>2. DeliverInv' /\ EarlyInv'
        BY <1>24 DEF ReportTypes, ReportInv, DeliverInv, EarlyInv,
           ReportHandlerReturn, clientVars, NoReport, Report, Installing
      <3>3. QED
        BY <3>1, <3>2 DEF ReportInv
    <2>7. QED
      BY <2>1, <2>2, <2>3, <2>6
  <1>25. ASSUME EnableReports
        PROVE  IndInv'
    <2>1. ObjectTypes' /\ RegistryTypes' /\ CallTypes'
      BY <1>25 DEF ObjectTypes, RegistryTypes, CallTypes, EnableReports,
         clientVars
    <2>2. ReportTypes'
      BY <1>25 DEF RegistryTypes, CallTypes, ReportTypes, EnableReports,
         clientVars, Report
    <2>3. CallInv' /\ StageInv' /\ HandlerInv'
      BY <1>25 DEF CallInv, StageInv, Whole, Destroyed, Unused, HandlerInv,
         EnableReports, clientVars
    <2>6. ReportInv'
      <3>1. InstallInv'
        BY <1>25 DEF ReportInv, RegistryTypes, CallTypes, ReportTypes, CallInv,
           InstallInv, ParamInv, EnableReports, clientVars, Installing
      <3>2. ParamInv'
        BY <1>25 DEF ReportInv, RegistryTypes, CallTypes, ReportTypes, CallInv,
           InstallInv, ParamInv, EnableReports, clientVars
      <3>3. DeliverInv'
        BY <1>25 DEF ReportInv, CallTypes, ReportTypes, DeliverInv, EnableReports,
           clientVars, Report
      <3>4. EarlyInv'
        BY <1>25 DEF ReportInv, CallTypes, DeliverInv, EarlyInv, EnableReports,
           clientVars, Installing, Reading
      <3>5. QED
        BY <3>1, <3>2, <3>3, <3>4 DEF ReportInv
    <2>7. QED
      BY <2>1, <2>2, <2>3, <2>6
  <1>26. CASE UNCHANGED vars
    <2>1. TypeOK'
      BY <1>26 DEF vars, clientVars, rptVars, ObjectTypes, RegistryTypes,
         CallTypes, ReportTypes
    <2>2. CallInv'
      BY <1>26 DEF vars, clientVars, rptVars, CallInv
    <2>4. HandlerInv'
      BY <1>26 DEF vars, clientVars, Unused, HandlerInv
    <2>5. StageInv'
      BY <1>26 DEF vars, clientVars, StageInv, Whole, Destroyed, Unused
    <2>3. ReportInv'
      BY <1>26 DEF vars, clientVars, rptVars, ReportInv, InstallInv, ParamInv,
         DeliverInv, EarlyInv, Installing
    <2>6. QED
      BY <2>1, <2>2, <2>3, <2>4, <2>5
  <1>27. QED
    BY <1>1, <1>2, <1>3, <1>4, <1>5, <1>6, <1>7, <1>8, <1>9, <1>10, <1>11,
       <1>12, <1>13, <1>14, <1>15, <1>16, <1>17, <1>18, <1>19, <1>20, <1>21,
       <1>22, <1>23, <1>24, <1>25, <1>26 DEF Next, AppCall, AppStep, GoStep,
       ThreadStep, Finished

(* The inductive invariant holds in every reachable state. *)
THEOREM Invariance == Spec => []IndInv
  BY InitInd, StepInd, PTL DEF Spec

(* However many goroutines call Close and whatever the connection thread   *)
(* does, a connection is destroyed at most once.                           *)
THEOREM ConnectionDestroyedOnce == Spec => []DestroyedOnce
  <1>1. IndInv => DestroyedOnce
    <2> SUFFICES ASSUME IndInv, NEW c \in Clients PROVE destroys[c] <= 1
      BY DEF DestroyedOnce
    <2>1. CASE Unused(c)
      BY <2>1 DEF IndInv, StageInv, Whole, Destroyed
    <2>2. CASE ~Unused(c)
      <3>1. PICK a \in Apps : on[a] = c
        BY <2>2 DEF Unused
      <3>2. pc[a] \in Making \cup Using \cup Closing
        BY <3>1, ClientsAssumption DEF IndInv, TypeOK, CallTypes, CallInv, Labels
      <3>3. QED
        BY <3>1, <3>2 DEF IndInv, StageInv, Whole, Destroyed, Making, Using, Closing
    <2>3. QED
      BY <2>1, <2>2
  <1>2. QED
    BY <1>1, Invariance, PTL

(* The TLS configuration is freed after the connection that uses it, and   *)
(* is not left behind by Close.                                            *)
THEOREM TlsFreedLast == Spec => []TlsOutlivesConnection
  <1>1. IndInv => TlsOutlivesConnection
    <2> SUFFICES ASSUME IndInv, NEW c \in Clients, made[c] = "ok"
                 PROVE  /\ tls[c] = "freed" => conn[c] = "freed"
                        /\ Closed(c) => tls[c] # "live"
      BY DEF TlsOutlivesConnection
    <2>1. CASE connected[c]
      BY <2>1 DEF IndInv, StageInv, Whole, Closed
    <2>2. CASE ~connected[c] /\ Unused(c)
      BY <2>2 DEF IndInv, StageInv, Destroyed
    <2>3. CASE ~connected[c] /\ ~Unused(c)
      <3>1. PICK a \in Apps : on[a] = c
        BY <2>3 DEF Unused
      <3>2. pc[a] \in Closing
        BY <3>1, <2>3, ClientsAssumption
           DEF IndInv, TypeOK, CallTypes, CallInv, StageInv, Labels, Making, Using
      <3>3. QED
        BY <3>1, <3>2 DEF IndInv, StageInv, Whole, Destroyed, Closing, Closed
    <2>4. QED
      BY <2>1, <2>2, <2>3
  <1>2. QED
    BY <1>1, Invariance, PTL

(* A closed client was connected before, and nobody uses it. *)
LEMMA ClosedClient ==
  ASSUME IndInv, NEW c \in Clients, Closed(c)
  PROVE  made[c] = "ok" /\ ~connected[c] /\ Unused(c)
  BY DEF IndInv, StageInv, Whole, Closed, Unused

(* The handler called at the end of a connection belongs to its client,    *)
(* and has returned when Close returns.                                    *)
THEOREM OwnHandlerCalled == Spec => []OwnHandler
  <1>1. IndInv => OwnHandler
    BY ClosedClient DEF IndInv, StageInv, Destroyed, HandlerInv, OwnHandler
  <1>2. QED
    BY <1>1, Invariance, PTL

(* A report is delivered to the handler installed last for its block and   *)
(* client, and none after Close.                                           *)
THEOREM ReportsToLatest == Spec => []ReportToLatest
  <1>1. IndInv => ReportToLatest
    <2> SUFFICES ASSUME IndInv, NEW c \in Clients
                 PROVE  /\ report[c].st = "handler" =>
                             /\ report[c].id = latest[c][report[c].rcb]
                             /\ reportCallbacks[report[c].id] = <<c, report[c].rcb>>
                        /\ Closed(c) => report[c].st = "none"
      BY DEF ReportToLatest
    <2>1. Closed(c) => thread[c] = "done"
      BY ClosedClient DEF IndInv, StageInv, Destroyed
    <2>2. QED
      BY <2>1 DEF IndInv, ReportInv, ParamInv, DeliverInv
  <1>2. QED
    BY <1>1, Invariance, PTL

(* Applications that install their handlers before they enable reports     *)
(* never write the table while a connection thread reads it.               *)
THEOREM TableNotRaced == Spec => []NoTableRace
  <1>1. IndInv => NoTableRace
    BY DEF IndInv, ReportInv, EarlyInv, NoTableRace
  <1>2. QED
    BY <1>1, Invariance, PTL

(* With one handler per client, only ids that a client still remembers     *)
(* stay in the table.                                                      *)
LEMMA StepOnce == Once /\ IndInv /\ OnceInv /\ [Next]_vars => OnceInv'
  <1> SUFFICES ASSUME Once, IndInv, OnceInv, [Next]_vars PROVE OnceInv'
    OBVIOUS
  <1> USE ClientsAssumption DEF IndInv, TypeOK, OnceInv
  <1>1. CASE UNCHANGED <<owner, table, handlerId>>
    BY <1>1
  <1>2. ASSUME NEW a \in Apps, NEW c \in Clients, Install(a, c) PROVE OnceInv'
    <2>1. /\ handlerId[c] = 0 /\ idGen + 1 \in Ids /\ idGen + 1 \notin table
          /\ table' = table /\ handlerId' = [handlerId EXCEPT ![c] = idGen + 1]
          /\ owner' = [owner EXCEPT ![idGen + 1] = c]
      BY <1>2 DEF Install, MayInstall, HandlerInv, RegistryTypes, Ids
    <2>2. QED
      BY <2>1 DEF RegistryTypes, Ids
  <1>3. ASSUME NEW a \in Apps, StoreHandler(a) PROVE OnceInv'
    <2>1. /\ owner[id[a]] = on[a] /\ handlerId[on[a]] = id[a]
          /\ table' = table \cup {id[a]} /\ UNCHANGED <<owner, handlerId>>
      BY <1>3 DEF StoreHandler, HandlerInv
    <2>2. QED
      BY <2>1
  <1>4. ASSUME NEW a \in Apps, Unregister(a) PROVE OnceInv'
    <2>1. on[a] \in Clients
      BY <1>4 DEF Unregister, CallTypes, CallInv
    <2>2. QED
      BY <1>4, <2>1 DEF Unregister, RegistryTypes
  <1>5. QED
    BY <1>1, <1>2, <1>3, <1>4
       DEF Next, AppCall, AppStep, GoStep, ThreadStep, Finished, NewClient, Close,
           CreateTls, ConnectOk, ConnectError, InstallReturn, DestroyCloses,
           DestroyReturns, CloseTls, InstallReportHandler, UninstallReportHandler,
           StoreReportHandler, InstallReportReturn, UninstallReturn, Bridge,
           HandlerReturn, ConnectionLost, ReportArrives, ReportBridge, ReportDropped,
           ReportHandlerReturn, EnableReports, registry, clientVars, vars

(* When every client installs at most one handler, Close leaves none of    *)
(* them in the table.                                                      *)
THEOREM TableCleaned ==
  ASSUME Once PROVE Spec => []TableClean
  <1>1. Init => OnceInv
    BY DEF Init, ClientInit, OnceInv
  <1>2. IndInv /\ OnceInv /\ [Next]_vars => OnceInv'
    BY StepOnce
  <1>3. IndInv /\ OnceInv => TableClean
    <2> SUFFICES ASSUME IndInv, OnceInv, NEW c \in Clients, NEW i \in Ids,
                        Closed(c), owner[i] = c
                 PROVE  i \notin table
      BY DEF TableClean
    <2>1. handlerId[c] = 0
      BY ClosedClient DEF IndInv, HandlerInv
    <2>2. QED
      BY <2>1, ClientsAssumption DEF OnceInv, Ids
  <1>4. QED
    BY <1>1, <1>2, <1>3, Invariance, PTL DEF Spec

=============================================================================
