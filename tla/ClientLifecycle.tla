--------------------------- MODULE ClientLifecycle ---------------------------
(***************************************************************************)
(* The life of a client: connect, InstallConnectionClosedHandler and Close *)
(* (client.go, client_connection_closed.go, tls_config.go).                *)
(*                                                                         *)
(* A client owns a C connection and perhaps a TLS configuration.  The      *)
(* handler for the end of the connection lives in a table shared by all    *)
(* clients; the library is given the handler's id, and its connection      *)
(* thread looks the id up when the connection ends.  Close destroys the    *)
(* connection, which ends it and joins its thread, then the TLS            *)
(* configuration, and then removes the handler from the table.             *)
(*                                                                         *)
(* The library is external: a connection that was established has a        *)
(* thread, which calls the installed handler once when the peer or         *)
(* IedConnection_destroy ends the connection.  Module ReportHandlers adds  *)
(* the reports that this thread delivers, and the specification.           *)
(***************************************************************************)
EXTENDS Naturals

CONSTANTS
  Apps,        \* goroutines of the application
  Clients,     \* clients, each made at most once
  TlsClients,  \* the clients that use TLS
  None,        \* no client
  MaxIds,      \* bound on the ids drawn from callbackIdGen
  Once         \* the application installs at most one handler per client

ASSUME ClientsAssumption ==
  /\ TlsClients \subseteq Clients
  /\ None \notin Clients
  /\ MaxIds \in Nat
  /\ Once \in BOOLEAN

VARIABLES
  conn,       \* conn[c]: the C connection
  tls,        \* tls[c]: the C TLS configuration
  made,       \* made[c]: what newClient has come to
  connected,  \* connected[c]: the flag Close swaps
  destroys,   \* destroys[c]: calls of IedConnection_destroy
  idGen,      \* callbackIdGen
  table,      \* ids in connectionClosedCallbacks
  handlerId,  \* handlerId[c]: closedHandlerId, 0 for none
  param,      \* param[c]: the id the library was given, 0 for none
  owner,      \* owner[i]: the client whose handler has id i
  thread,     \* thread[c]: the connection thread
  called,     \* called[c]: the id whose handler it has called
  pc,         \* where each goroutine is
  on, id      \* the client and the handler id its call is about

clientVars == <<conn, tls, made, connected, destroys, idGen, table, handlerId, param,
               owner, thread, called, pc, on, id>>

Ids == 1..MaxIds

ClientInit ==
  /\ conn = [c \in Clients |-> "none"]
  /\ tls = [c \in Clients |-> "none"]
  /\ made = [c \in Clients |-> "none"]
  /\ connected = [c \in Clients |-> FALSE]
  /\ destroys = [c \in Clients |-> 0]
  /\ idGen = 0
  /\ table = {}
  /\ handlerId = [c \in Clients |-> 0]
  /\ param = [c \in Clients |-> 0]
  /\ owner = [i \in Ids |-> None]
  /\ thread = [c \in Clients |-> "none"]
  /\ called = [c \in Clients |-> 0]
  /\ pc = [a \in Apps |-> "idle"]
  /\ on = [a \in Apps |-> None]
  /\ id = [a \in Apps |-> 0]

objects == <<conn, tls, made, connected, destroys>>
registry == <<idGen, table, handlerId, param, owner>>
libThread == <<thread, called>>

Enter(a, c, label) ==
  /\ pc[a] = "idle"
  /\ pc' = [pc EXCEPT ![a] = label]
  /\ on' = [on EXCEPT ![a] = c]

Goto(a, label) == pc' = [pc EXCEPT ![a] = label] /\ UNCHANGED <<on, id>>

Leave(a) ==
  /\ pc' = [pc EXCEPT ![a] = "idle"]
  /\ on' = [on EXCEPT ![a] = None]
  /\ id' = [id EXCEPT ![a] = 0]

-----------------------------------------------------------------------------
(* newClient and connect.                                                  *)

NewClient(a, c) ==
  /\ made[c] = "none"
  /\ made' = [made EXCEPT ![c] = "making"]
  /\ Enter(a, c, IF c \in TlsClients THEN "tls" ELSE "connect")
  /\ UNCHANGED <<conn, tls, connected, destroys, registry, libThread, id>>

(* createCTlsConfig; when a key or certificate cannot be loaded it returns *)
(* an error and keeps the configuration.                                   *)
CreateTls(a) ==
  /\ pc[a] = "tls"
  /\ tls' = [tls EXCEPT ![on[a]] = "live"]
  /\ \/ Goto(a, "connect") /\ UNCHANGED made
     \/ made' = [made EXCEPT ![on[a]] = "error"] /\ Leave(a)
  /\ UNCHANGED <<conn, connected, destroys, registry, libThread>>

(* The connection is created and established. *)
ConnectOk(a) ==
  LET c == on[a]
  IN  /\ pc[a] = "connect"
      /\ conn' = [conn EXCEPT ![c] = "live"]
      /\ thread' = [thread EXCEPT ![c] = "running"]
      /\ connected' = [connected EXCEPT ![c] = TRUE]
      /\ made' = [made EXCEPT ![c] = "ok"]
      /\ Leave(a)
      /\ UNCHANGED <<tls, destroys, registry, called>>

(* The connection is created and cannot be established: only the TLS       *)
(* configuration is destroyed.                                             *)
ConnectError(a) ==
  LET c == on[a]
  IN  /\ pc[a] = "connect"
      /\ conn' = [conn EXCEPT ![c] = "live"]
      /\ tls' = [tls EXCEPT ![c] = IF @ = "live" THEN "freed" ELSE @]
      /\ made' = [made EXCEPT ![c] = "error"]
      /\ Leave(a)
      /\ UNCHANGED <<connected, destroys, registry, libThread>>

-----------------------------------------------------------------------------
(* InstallConnectionClosedHandler.  A nil handler changes nothing.         *)

(* The application does not use a client it is closing, and installs from  *)
(* one goroutine at a time.                                                *)
MayInstall(c) ==
  /\ made[c] = "ok" /\ connected[c]
  /\ \A b \in Apps : on[b] # c
  /\ Once => handlerId[c] = 0

(* The id is read from the counter without advancing it. *)
MutInstall(a, c) ==
  /\ MayInstall(c) /\ MaxIds > 0
  /\ handlerId' = [handlerId EXCEPT ![c] = 1]
  /\ owner' = [owner EXCEPT ![1] = c]
  /\ id' = [id EXCEPT ![a] = 1]
  /\ Enter(a, c, "store")
  /\ UNCHANGED <<objects, idGen, table, param, libThread>>

(* callbackIdGen.Add(1), and the client remembers the id. *)
Install(a, c) ==
  /\ MayInstall(c) /\ idGen < MaxIds
  /\ idGen' = idGen + 1
  /\ handlerId' = [handlerId EXCEPT ![c] = idGen']
  /\ owner' = [owner EXCEPT ![idGen'] = c]
  /\ id' = [id EXCEPT ![a] = idGen']
  /\ Enter(a, c, "store")
  /\ UNCHANGED <<objects, table, param, libThread>>

StoreHandler(a) ==
  /\ pc[a] = "store"
  /\ table' = table \cup {id[a]}
  /\ Goto(a, "install")
  /\ UNCHANGED <<objects, idGen, handlerId, param, owner, libThread>>

(* IedConnection_installConnectionClosedHandler. *)
InstallReturn(a) ==
  /\ pc[a] = "install"
  /\ param' = [param EXCEPT ![on[a]] = id[a]]
  /\ Leave(a)
  /\ UNCHANGED <<objects, idGen, table, handlerId, owner, libThread>>

-----------------------------------------------------------------------------
(* Close, which any number of goroutines may call.                         *)

(* Nobody uses the client, but others may be closing it. *)
MayClose(c) ==
  /\ made[c] = "ok"
  /\ \A b \in Apps :
       on[b] = c => pc[b] \in {"destroy", "join", "closetls", "unregister"}

(* The flag is looked at, but not swapped. *)
MutClose(a, c) ==
  /\ MayClose(c) /\ conn[c] = "live"
  /\ Enter(a, c, "destroy")
  /\ UNCHANGED <<objects, registry, libThread, id>>

(* The TLS configuration is destroyed before the connection. *)
MutCloseOrder(a, c) ==
  /\ MayClose(c) /\ connected[c]
  /\ connected' = [connected EXCEPT ![c] = FALSE]
  /\ tls' = [tls EXCEPT ![c] = IF @ = "live" THEN "freed" ELSE @]
  /\ Enter(a, c, "destroy")
  /\ UNCHANGED <<conn, made, destroys, registry, libThread, id>>

(* The handler is removed before the connection is destroyed. *)
MutCloseUnregister(a, c) ==
  /\ MayClose(c) /\ connected[c]
  /\ connected' = [connected EXCEPT ![c] = FALSE]
  /\ table' = table \ {handlerId[c]}
  /\ Enter(a, c, "destroy")
  /\ UNCHANGED <<conn, tls, made, destroys, idGen, handlerId, param, owner,
                 libThread, id>>

(* CompareAndSwap(true, false); when it fails, Close returns at once. *)
Close(a, c) ==
  /\ MayClose(c) /\ connected[c]
  /\ connected' = [connected EXCEPT ![c] = FALSE]
  /\ Enter(a, c, "destroy")
  /\ UNCHANGED <<conn, tls, made, destroys, registry, libThread, id>>

(* IedConnection_destroy ends the connection if the peer has not ... *)
DestroyCloses(a) ==
  LET c == on[a]
  IN  /\ pc[a] = "destroy"
      /\ destroys' = [destroys EXCEPT ![c] = @ + 1]
      /\ thread' = [thread EXCEPT ![c] = IF @ = "running" THEN "bridge" ELSE @]
      /\ Goto(a, "join")
      /\ UNCHANGED <<conn, tls, made, connected, registry, called>>

(* ... and frees it when its thread has ended. *)
DestroyReturns(a) ==
  /\ pc[a] = "join" /\ thread[on[a]] = "done"
  /\ conn' = [conn EXCEPT ![on[a]] = "freed"]
  /\ Goto(a, "closetls")
  /\ UNCHANGED <<tls, made, connected, destroys, registry, libThread>>

CloseTls(a) ==
  /\ pc[a] = "closetls"
  /\ tls' = [tls EXCEPT ![on[a]] = IF @ = "live" THEN "freed" ELSE @]
  /\ Goto(a, "unregister")
  /\ UNCHANGED <<conn, made, connected, destroys, registry, libThread>>

(* The id is reset before it is used to delete the handler. *)
MutUnregister(a) ==
  LET c == on[a]
  IN  /\ pc[a] = "unregister"
      /\ handlerId' = [handlerId EXCEPT ![c] = 0]
      /\ Leave(a)
      /\ UNCHANGED <<objects, idGen, table, param, owner, libThread>>

(* An id of 0 is in no table. *)
Unregister(a) ==
  LET c == on[a]
  IN  /\ pc[a] = "unregister"
      /\ table' = table \ {handlerId[c]}
      /\ handlerId' = [handlerId EXCEPT ![c] = 0]
      /\ Leave(a)
      /\ UNCHANGED <<objects, idGen, param, owner, libThread>>

-----------------------------------------------------------------------------
(* The connection thread.                                                  *)

ConnectionLost(c) ==
  /\ thread[c] = "running"
  /\ thread' = [thread EXCEPT ![c] = "bridge"]
  /\ UNCHANGED <<objects, registry, called, pc, on, id>>

(* connectionClosedHandlerBridge: the handler is looked up under the read  *)
(* lock and called without it.                                             *)
Bridge(c) ==
  /\ thread[c] = "bridge"
  /\ IF param[c] \in table
     THEN /\ thread' = [thread EXCEPT ![c] = "handler"]
          /\ called' = [called EXCEPT ![c] = param[c]]
     ELSE /\ thread' = [thread EXCEPT ![c] = "done"]
          /\ UNCHANGED called
  /\ UNCHANGED <<objects, registry, pc, on, id>>

HandlerReturn(c) ==
  /\ thread[c] = "handler"
  /\ thread' = [thread EXCEPT ![c] = "done"]
  /\ UNCHANGED <<objects, registry, called, pc, on, id>>

AppStep(a) ==
  \/ CreateTls(a) \/ ConnectOk(a) \/ ConnectError(a)
  \/ StoreHandler(a) \/ InstallReturn(a)
  \/ DestroyCloses(a) \/ DestroyReturns(a) \/ CloseTls(a) \/ Unregister(a)

AppCall(a, c) == NewClient(a, c) \/ Install(a, c) \/ Close(a, c)

-----------------------------------------------------------------------------
(* Properties.                                                             *)

Closed(c) == conn[c] = "freed" /\ \A a \in Apps : on[a] # c

(* However many goroutines call Close, the connection is destroyed once.   *)
DestroyedOnce == \A c \in Clients : destroys[c] <= 1

(* The TLS configuration of a client exists as long as its connection, and *)
(* no longer than the client.                                              *)
TlsOutlivesConnection ==
  \A c \in Clients : made[c] = "ok" =>
    /\ tls[c] = "freed" => conn[c] = "freed"
    /\ Closed(c) => tls[c] # "live"

(* The handler that runs when a connection ends is one of its own client,  *)
(* and has returned before Close does.                                     *)
OwnHandler ==
  \A c \in Clients :
    /\ called[c] # 0 => owner[called[c]] = c
    /\ Closed(c) => thread[c] = "done"

(* No handler of a closed client is left in the table. *)
TableClean ==
  \A c \in Clients, i \in Ids : Closed(c) /\ owner[i] = c => i \notin table

(* A handler that was installed when the connection ended is called, also  *)
(* if Close runs at the same time and removes handlers from the table.     *)
Notified ==
  \A c \in Clients : thread[c] = "bridge" /\ param[c] # 0 ~> called[c] # 0

=============================================================================
