--------------------------- MODULE ReportHandlers ---------------------------
(***************************************************************************)
(* Report handlers of clients (client_report.go), together with the life   *)
(* of the clients.                                                         *)
(*                                                                         *)
(* InstallReportHandler draws an id from callbackIdGen, puts the handler   *)
(* into the table reportCallbacks and gives the id to the library;         *)
(* UninstallReportHandler only tells the library.  The connection thread   *)
(* of any client reads the table when a report arrives.  The table is a Go *)
(* map without a lock: a read during a write may find nothing (or end the  *)
(* process, after which there is nothing to say).                          *)
(*                                                                         *)
(* The library is external: it keeps one handler per report control block, *)
(* calls it in the connection thread, and holds a lock meanwhile for which *)
(* IedConnection_installReportHandler and its counterpart wait.            *)
(***************************************************************************)
EXTENDS ClientLifecycle

CONSTANT Rcbs    \* report control blocks of a client's server

VARIABLES
  early,      \* handlers are installed before reports are enabled
  enabled,    \* some client has enabled reports
  reportCallbacks, \* reportCallbacks[i]: whose handler id i stands for
  rptParam,   \* rptParam[c][r]: the id the library was given, 0 for none
  latest,     \* latest[c][r]: the id installed last and not uninstalled
  rcb,        \* rcb[a]: the report control block a call is about
  report,     \* report[c]: the report the connection thread delivers
  race        \* the table was read and written at the same time

rptVars == <<early, enabled, reportCallbacks, rptParam, latest, rcb, report, race>>
vars == <<clientVars, rptVars>>

NoReport == [st |-> "none", rcb |-> None, id |-> 0]

Init ==
  /\ ClientInit
  /\ early \in BOOLEAN
  /\ enabled = FALSE
  /\ reportCallbacks = [i \in Ids |-> None]
  /\ rptParam = [c \in Clients |-> [r \in Rcbs |-> 0]]
  /\ latest = [c \in Clients |-> [r \in Rcbs |-> 0]]
  /\ rcb = [a \in Apps |-> None]
  /\ report = [c \in Clients |-> NoReport]
  /\ race = FALSE

Reading == \E c \in Clients : report[c].st = "lookup"
Installing == \E a \in Apps : pc[a] \in {"rptstore", "rptinstall"}

-----------------------------------------------------------------------------
(* The application.                                                        *)

(* One goroutine at a time installs report handlers, and nobody uses a     *)
(* client that is being closed.                                            *)
MayUse(c) ==
  /\ made[c] = "ok" /\ connected[c]
  /\ \A b \in Apps : on[b] # c

EnableReports ==
  /\ ~enabled /\ (early => ~Installing)
  /\ enabled' = TRUE
  /\ UNCHANGED <<clientVars, early, reportCallbacks, rptParam, latest, rcb,
                 report, race>>

(* Every client counts its own handlers. *)
MutInstallReportHandler(a, c, r) ==
  /\ MayUse(c) /\ ~Installing /\ idGen < MaxIds
  /\ early => ~enabled
  /\ idGen' = idGen + 1
  /\ id' = [id EXCEPT ![a] = 1]
  /\ rcb' = [rcb EXCEPT ![a] = r]
  /\ Enter(a, c, "rptstore")
  /\ UNCHANGED <<objects, table, handlerId, param, owner, libThread>>
  /\ UNCHANGED <<early, enabled, reportCallbacks, rptParam, latest, report, race>>

InstallReportHandler(a, c, r) ==
  /\ MayUse(c) /\ ~Installing /\ idGen < MaxIds
  /\ early => ~enabled
  /\ idGen' = idGen + 1
  /\ id' = [id EXCEPT ![a] = idGen']
  /\ rcb' = [rcb EXCEPT ![a] = r]
  /\ Enter(a, c, "rptstore")
  /\ UNCHANGED <<objects, table, handlerId, param, owner, libThread>>
  /\ UNCHANGED <<early, enabled, reportCallbacks, rptParam, latest, report, race>>

StoreReportHandler(a) ==
  /\ pc[a] = "rptstore"
  /\ reportCallbacks' = [reportCallbacks EXCEPT ![id[a]] = <<on[a], rcb[a]>>]
  /\ race' = (race \/ Reading)
  /\ Goto(a, "rptinstall")
  /\ UNCHANGED <<objects, registry, libThread>>
  /\ UNCHANGED <<early, enabled, rptParam, latest, rcb, report>>

(* What the library keeps for a block, when no report is delivered. *)
SetLibrary(a, i) ==
  /\ report[on[a]].st = "none"
  /\ rptParam' = [rptParam EXCEPT ![on[a]][rcb[a]] = i]
  /\ latest' = [latest EXCEPT ![on[a]][rcb[a]] = i]
  /\ rcb' = [rcb EXCEPT ![a] = None]
  /\ Leave(a)

InstallReportReturn(a) ==
  /\ pc[a] = "rptinstall"
  /\ SetLibrary(a, id[a])
  /\ UNCHANGED <<objects, registry, libThread>>
  /\ UNCHANGED <<early, enabled, reportCallbacks, report, race>>

UninstallReportHandler(a, c, r) ==
  /\ MayUse(c)
  /\ rptParam[c][r] # 0
  /\ rcb' = [rcb EXCEPT ![a] = r]
  /\ Enter(a, c, "rptremove")
  /\ UNCHANGED <<objects, registry, libThread, id>>
  /\ UNCHANGED <<early, enabled, reportCallbacks, rptParam, latest, report, race>>

(* The handler is also deleted from the table. *)
MutUninstallReturn(a) ==
  /\ pc[a] = "rptremove"
  /\ SetLibrary(a, 0)
  /\ reportCallbacks' =
       [reportCallbacks EXCEPT ![rptParam[on[a]][rcb[a]]] = None]
  /\ race' = (race \/ Reading)
  /\ UNCHANGED <<objects, registry, libThread>>
  /\ UNCHANGED <<early, enabled, report>>

(* The table keeps the handler. *)
UninstallReturn(a) ==
  /\ pc[a] = "rptremove"
  /\ SetLibrary(a, 0)
  /\ UNCHANGED <<objects, registry, libThread>>
  /\ UNCHANGED <<early, enabled, reportCallbacks, report, race>>

-----------------------------------------------------------------------------
(* The connection thread.                                                  *)

ReportArrives(c, r) ==
  /\ enabled /\ thread[c] = "running"
  /\ report[c].st = "none" /\ rptParam[c][r] # 0
  /\ report' = [report EXCEPT ![c] =
                  [st |-> "lookup", rcb |-> r, id |-> rptParam[c][r]]]
  /\ UNCHANGED <<clientVars, early, enabled, reportCallbacks, rptParam, latest,
                 rcb, race>>

(* reportCallbackFunctionBridge finds the handler ... *)
ReportBridge(c) ==
  /\ report[c].st = "lookup"
  /\ reportCallbacks[report[c].id] # None
  /\ report' = [report EXCEPT ![c].st = "handler"]
  /\ UNCHANGED <<clientVars, early, enabled, reportCallbacks, rptParam, latest,
                 rcb, race>>

(* ... or none. *)
ReportDropped(c) ==
  /\ report[c].st = "lookup"
  /\ race \/ reportCallbacks[report[c].id] = None
  /\ report' = [report EXCEPT ![c] = NoReport]
  /\ UNCHANGED <<clientVars, early, enabled, reportCallbacks, rptParam, latest,
                 rcb, race>>

ReportHandlerReturn(c) ==
  /\ report[c].st = "handler"
  /\ report' = [report EXCEPT ![c] = NoReport]
  /\ UNCHANGED <<clientVars, early, enabled, reportCallbacks, rptParam, latest,
                 rcb, race>>

-----------------------------------------------------------------------------
(* Every client is closed or could not be made. *)
Finished ==
  /\ \A c \in Clients : made[c] = "error" \/ conn[c] = "freed"
  /\ \A a \in Apps : pc[a] = "idle"
  /\ UNCHANGED vars

GoStep(a) ==
  \/ AppStep(a) /\ UNCHANGED rptVars
  \/ StoreReportHandler(a) \/ InstallReportReturn(a) \/ UninstallReturn(a)

(* The connection thread does one thing after the other. *)
ThreadStep(c) ==
  \/ Bridge(c) /\ report[c].st = "none" /\ UNCHANGED rptVars
  \/ HandlerReturn(c) /\ UNCHANGED rptVars
  \/ ReportBridge(c) \/ ReportDropped(c) \/ ReportHandlerReturn(c)

Next ==
  \/ \E a \in Apps, c \in Clients :
       \/ AppCall(a, c) /\ UNCHANGED rptVars
       \/ \E r \in Rcbs : InstallReportHandler(a, c, r)
                          \/ UninstallReportHandler(a, c, r)
  \/ \E a \in Apps : GoStep(a)
  \/ \E c \in Clients :
       \/ ConnectionLost(c) /\ UNCHANGED rptVars
       \/ ThreadStep(c)
       \/ \E r \in Rcbs : ReportArrives(c, r)
  \/ EnableReports
  \/ Finished

(* Goroutines and connection threads run, handlers return, and the lock of *)
(* the library lets in who waits for it.                                   *)
Fairness ==
  /\ \A a \in Apps : SF_vars(GoStep(a))
  /\ \A c \in Clients : WF_vars(ThreadStep(c))

Spec == Init /\ [][Next]_vars /\ Fairness

-----------------------------------------------------------------------------
(* Properties.                                                             *)

(* The report handler that runs is the one installed last for that block   *)
(* of that client, also while handlers are replaced, other clients install *)
(* theirs and ids wander through C pointers; when UninstallReportHandler   *)
(* or Close has returned, none of it runs any more.                        *)
ReportToLatest ==
  \A c \in Clients :
    /\ report[c].st = "handler" =>
         /\ report[c].id = latest[c][report[c].rcb]
         /\ reportCallbacks[report[c].id] = <<c, report[c].rcb>>
    /\ Closed(c) => report[c].st = "none"

(* An application that installs its handlers before it enables reports     *)
(* never has the table read and written at the same time, although it      *)
(* uninstalls handlers and closes clients while others receive reports.    *)
NoTableRace == early => ~race

=============================================================================
