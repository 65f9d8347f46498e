---------------------------- MODULE ReceiverProofs ----------------------------
(***************************************************************************)
(* Proofs about Receiver, for any number of goroutines, receivers and      *)
(* subscribers, for both flavours and with or without stopFirst.           *)
(***************************************************************************)
EXTENDS Receiver, TLAPS

USE ConstantsAssumption

-----------------------------------------------------------------------------
(* The initial state satisfies every part of the inductive invariant. *)
LEMMA InitInd == Init => IndInv
  <1> SUFFICES ASSUME Init PROVE IndInv
    OBVIOUS
  <1> USE DEF Init, Procs, Labels, CallLabels, Ops, Objects
  <1>1. TypeOK
    BY DEF TypeOK
  <1>2. CallInv
    BY DEF CallInv
  <1>3. LockInv
    BY DEF LockInv, InCritical, CriticalLabels
  <1>4. HandlerRegistered
    BY DEF HandlerRegistered
  <1>5. TableInv
    BY DEF TableInv, SvHalfway, Halfway
  <1>6. ListInv
    BY DEF ListInv, SvHalfway, Halfway
  <1>7. OwnerInv
    BY DEF OwnerInv
  <1>8. ClaimInv
    BY DEF ClaimInv
  <1>9. QED
    BY <1>1, <1>2, <1>3, <1>4, <1>5, <1>6, <1>7, <1>8 DEF IndInv

(* Every step keeps the types. *)
LEMMA TypeStep == TypeOK /\ CallInv /\ [Next]_vars => TypeOK'
  <1> SUFFICES ASSUME TypeOK, CallInv, [Next]_vars PROVE TypeOK'
    OBVIOUS
  <1> USE DEF TypeOK, Procs, Labels, CallLabels, Ops, Objects, Goto, mode, Enter, Leave,
              Unlock, callVars, lockVars, tableVars, libVars
  <1>1. ASSUME NEW a \in Apps, Request(a) PROVE TypeOK'
    BY <1>1 DEF Request, NewGooseReceiver, Destroy, Start, Stop,
       NewGooseSubscriber, SubscriberDestroy, AddSubscriber, RemoveSubscriber,
       Tick
  <1>2. ASSUME NEW a \in Apps, CallStep(a) PROVE TypeOK'
    BY <1>2, SMTT(30) DEF CallStep, LockAnnounce, LockDrained, GooseAddTables,
       GooseAddLibrary, SvAddTable, SvAddRefs, RemoveLibrary, RemoveTables,
       DestroyTable, GooseDestroyStop, GooseDestroyFree, SvDestroyFree,
       FreeReceiver, StopReturn, CallInv
  <1>3. ASSUME NEW p \in Procs, DispatchStep(p) PROVE TypeOK'
    BY <1>3 DEF DispatchStep, DispatchFound, DispatchMissing, HandlerReturn,
       EndRound
  <1>4. ASSUME NEW r \in Receivers, ThreadExit(r) PROVE TypeOK'
    BY <1>4 DEF ThreadExit
  <1>5. ASSUME NEW r \in Receivers, NEW s \in Subs, Frame(r, s) PROVE TypeOK'
    BY <1>5 DEF Frame
  <1>6. CASE UNCHANGED vars
    BY <1>6 DEF vars
  <1>7. QED
    BY <1>1, <1>2, <1>3, <1>4, <1>5, <1>6 DEF Next, Finished

(* Program counter, call and arguments stay together. *)
LEMMA CallInvStep == TypeOK /\ CallInv /\ [Next]_vars => CallInv'
  <1> SUFFICES ASSUME TypeOK, CallInv, [Next]_vars PROVE CallInv'
    OBVIOUS
  <1> USE DEF CallInv, TypeOK, Procs, Labels, CallLabels, CriticalLabels, Ops, Objects,
              Goto, mode, Enter, Leave, Unlock, callVars, lockVars, tableVars, libVars
  <1>1. ASSUME NEW a \in Apps, Request(a) PROVE CallInv'
    BY <1>1 DEF Request, NewGooseReceiver, Destroy, Start, Stop,
       NewGooseSubscriber, SubscriberDestroy, AddSubscriber, RemoveSubscriber,
       Tick
  <1>2. ASSUME NEW a \in Apps, CallStep(a) PROVE CallInv'
    BY <1>2 DEF CallStep, LockAnnounce, LockDrained, GooseAddTables,
       GooseAddLibrary, SvAddTable, SvAddRefs, RemoveLibrary, RemoveTables,
       DestroyTable, GooseDestroyStop, GooseDestroyFree, SvDestroyFree,
       FreeReceiver, StopReturn
  <1>3. ASSUME NEW p \in Procs, DispatchStep(p) PROVE CallInv'
    BY <1>3 DEF DispatchStep, DispatchFound, DispatchMissing, HandlerReturn,
       EndRound
  <1>4. ASSUME NEW r \in Receivers, ThreadExit(r) PROVE CallInv'
    BY <1>4 DEF ThreadExit
  <1>5. ASSUME NEW r \in Receivers, NEW s \in Subs, Frame(r, s) PROVE CallInv'
    BY <1>5 DEF Frame
  <1>6. CASE UNCHANGED vars
    BY <1>6 DEF vars
  <1>7. QED
    BY <1>1, <1>2, <1>3, <1>4, <1>5, <1>6 DEF Next, Finished

(* The RWMutex excludes a second writer and every reader. *)
LEMMA LockInvStep == TypeOK /\ CallInv /\ LockInv /\ [Next]_vars => LockInv'
  <1> SUFFICES ASSUME TypeOK, CallInv, LockInv, [Next]_vars PROVE LockInv'
    OBVIOUS
  <1> USE DEF LockInv, CallInv, InCritical, TypeOK, Procs, Labels, CallLabels, CriticalLabels, Ops, Objects,
              Goto, mode, Enter, Leave, Unlock, callVars, lockVars, tableVars, libVars
  <1>1. ASSUME NEW a \in Apps, Request(a) PROVE LockInv'
    BY <1>1 DEF Request, NewGooseReceiver, Destroy, Start, Stop,
       NewGooseSubscriber, SubscriberDestroy, AddSubscriber, RemoveSubscriber,
       Tick
  <1>2. ASSUME NEW a \in Apps, CallStep(a) PROVE LockInv'
    BY <1>2 DEF CallStep, LockAnnounce, LockDrained, GooseAddTables,
       GooseAddLibrary, SvAddTable, SvAddRefs, RemoveLibrary, RemoveTables,
       DestroyTable, GooseDestroyStop, GooseDestroyFree, SvDestroyFree,
       FreeReceiver, StopReturn
  <1>3. ASSUME NEW p \in Procs, DispatchStep(p) PROVE LockInv'
    BY <1>3 DEF DispatchStep, DispatchFound, DispatchMissing, HandlerReturn,
       EndRound
  <1>4. ASSUME NEW r \in Receivers, ThreadExit(r) PROVE LockInv'
    BY <1>4 DEF ThreadExit
  <1>5. ASSUME NEW r \in Receivers, NEW s \in Subs, Frame(r, s) PROVE LockInv'
    BY <1>5 DEF Frame
  <1>6. CASE UNCHANGED vars
    BY <1>6 DEF vars
  <1>7. QED
    BY <1>1, <1>2, <1>3, <1>4, <1>5, <1>6 DEF Next, Finished

(* A handler's table entry stays while it runs. *)
LEMMA HandlerStep == TypeOK /\ CallInv /\ LockInv /\ HandlerRegistered /\ [Next]_vars => HandlerRegistered'
  <1> SUFFICES ASSUME TypeOK, CallInv, LockInv, HandlerRegistered, [Next]_vars PROVE HandlerRegistered'
    OBVIOUS
  <1> USE DEF HandlerRegistered, LockInv, CallInv, InCritical, TypeOK, Procs, Labels, CallLabels, CriticalLabels, Ops, Objects,
              Goto, mode, Enter, Leave, Unlock, callVars, lockVars, tableVars, libVars
  <1>1. ASSUME NEW a \in Apps, Request(a) PROVE HandlerRegistered'
    BY <1>1 DEF Request, NewGooseReceiver, Destroy, Start, Stop,
       NewGooseSubscriber, SubscriberDestroy, AddSubscriber, RemoveSubscriber,
       Tick
  <1>2. ASSUME NEW a \in Apps, CallStep(a) PROVE HandlerRegistered'
    BY <1>2 DEF CallStep, LockAnnounce, LockDrained, GooseAddTables,
       GooseAddLibrary, SvAddTable, SvAddRefs, RemoveLibrary, RemoveTables,
       DestroyTable, GooseDestroyStop, GooseDestroyFree, SvDestroyFree,
       FreeReceiver, StopReturn
  <1>3. ASSUME NEW p \in Procs, DispatchStep(p) PROVE HandlerRegistered'
    BY <1>3 DEF DispatchStep, DispatchFound, DispatchMissing, HandlerReturn,
       EndRound
  <1>4. ASSUME NEW r \in Receivers, ThreadExit(r) PROVE HandlerRegistered'
    BY <1>4 DEF ThreadExit
  <1>5. ASSUME NEW r \in Receivers, NEW s \in Subs, Frame(r, s) PROVE HandlerRegistered'
    BY <1>5 DEF Frame
  <1>6. CASE UNCHANGED vars
    BY <1>6 DEF vars
  <1>7. QED
    BY <1>1, <1>2, <1>3, <1>4, <1>5, <1>6 DEF Next, Finished

-----------------------------------------------------------------------------
(* The parts of the invariant about who owns and who claims a subscriber   *)
(* hold one another up, and need the lock to know that one call at a time  *)
(* is between its two steps.                                               *)
Registry == TypeOK /\ CallInv /\ LockInv /\ ListInv /\ OwnerInv /\ ClaimInv

(* A subscriber keeps a single, living owner. *)
LEMMA OwnerStep == Registry /\ [Next]_vars => OwnerInv'
  <1> SUFFICES ASSUME Registry, [Next]_vars PROVE OwnerInv'
    OBVIOUS
  <1> USE DEF Registry, OwnerInv, CallInv, LockInv, ListInv, ClaimInv, 
              InCritical, Halfway, SvHalfway, TypeOK, Procs, Labels, CallLabels,
              CriticalLabels, Ops, Objects, Goto, mode, Enter, Leave, Unlock,
              callVars, lockVars, tableVars, libVars
  <1>1. ASSUME NEW a \in Apps, Request(a) PROVE OwnerInv'
    BY <1>1 DEF Request, NewGooseReceiver, Destroy, Start, Stop,
       NewGooseSubscriber, SubscriberDestroy, AddSubscriber, RemoveSubscriber,
       Tick, Unclaimed
  <1>2. ASSUME NEW a \in Apps, CallStep(a) PROVE OwnerInv'
    <2>1. CASE LockAnnounce(a) \/ LockDrained(a)
      BY <2>1 DEF LockAnnounce, LockDrained
    <2>2. CASE GooseDestroyStop(a) \/ StopReturn(a)
      BY <2>2 DEF GooseDestroyStop, StopReturn
    <2>3. CASE GooseAddLibrary(a) \/ SvAddTable(a) \/ RemoveLibrary(a) \/ DestroyTable(a)
      BY <2>3 DEF GooseAddLibrary, SvAddTable, RemoveLibrary, DestroyTable
    <2>4. CASE GooseAddTables(a)
      BY <2>4 DEF GooseAddTables
    <2>5. CASE SvAddRefs(a)
      BY <2>5 DEF SvAddRefs
    <2>6. CASE RemoveTables(a)
      BY <2>6 DEF RemoveTables
    <2>7. CASE GooseDestroyFree(a)
      BY <2>7 DEF GooseDestroyFree, FreeReceiver
    <2>8. CASE SvDestroyFree(a)
      BY <2>8 DEF SvDestroyFree, FreeReceiver
    <2>9. QED
      BY <1>2, <2>1, <2>2, <2>3, <2>4, <2>5, <2>6, <2>7, <2>8 DEF CallStep
  <1>3. ASSUME NEW p \in Procs, DispatchStep(p) PROVE OwnerInv'
    BY <1>3 DEF DispatchStep, DispatchFound, DispatchMissing, HandlerReturn
  <1>4. ASSUME NEW r \in Receivers, ThreadExit(r) PROVE OwnerInv'
    BY <1>4 DEF ThreadExit
  <1>5. ASSUME NEW r \in Receivers, NEW s \in Subs, Frame(r, s) PROVE OwnerInv'
    BY <1>5 DEF Frame
  <1>6. CASE UNCHANGED vars
    BY <1>6 DEF vars
  <1>7. QED
    BY <1>1, <1>2, <1>3, <1>4, <1>5, <1>6 DEF Next, Finished

(* Claims stay exclusive. *)
LEMMA ClaimStep == Registry /\ [Next]_vars => ClaimInv'
  <1> SUFFICES ASSUME Registry, [Next]_vars PROVE ClaimInv'
    OBVIOUS
  <1> USE DEF Registry, OwnerInv, CallInv, LockInv, ListInv, ClaimInv, 
              InCritical, Halfway, SvHalfway, TypeOK, Procs, Labels, CallLabels,
              CriticalLabels, Ops, Objects, Goto, mode, Enter, Leave, Unlock,
              callVars, lockVars, tableVars, libVars
  <1>1. ASSUME NEW a \in Apps, Request(a) PROVE ClaimInv'
    <2>1. ASSUME NEW r \in Receivers, NewGooseReceiver(a, r) PROVE ClaimInv'
      BY <2>1 DEF NewGooseReceiver
    <2>2. ASSUME NEW r \in Receivers, Destroy(a, r) PROVE ClaimInv'
      BY <2>2 DEF Destroy
    <2>3. ASSUME NEW r \in Receivers, Start(a, r) PROVE ClaimInv'
      BY <2>3 DEF Start
    <2>4. ASSUME NEW r \in Receivers, Stop(a, r) PROVE ClaimInv'
      BY <2>4 DEF Stop
    <2>5. ASSUME NEW s \in Subs, NewGooseSubscriber(a, s) PROVE ClaimInv'
      BY <2>5 DEF NewGooseSubscriber
    <2>6. ASSUME NEW s \in Subs, SubscriberDestroy(a, s) PROVE ClaimInv'
      BY <2>6 DEF SubscriberDestroy, Unclaimed
    <2>7. ASSUME NEW r \in Receivers, NEW s \in Subs, AddSubscriber(a, r, s) PROVE ClaimInv'
      BY <2>7 DEF AddSubscriber, Unclaimed
    <2>8. ASSUME NEW r \in Receivers, NEW s \in Subs, RemoveSubscriber(a, r, s) PROVE ClaimInv'
      BY <2>8 DEF RemoveSubscriber
    <2>9. ASSUME NEW r \in Receivers, NEW s \in Subs, Tick(a, r, s) PROVE ClaimInv'
      BY <2>9 DEF Tick
    <2>10. QED
      BY <1>1, <2>1, <2>2, <2>3, <2>4, <2>5, <2>6, <2>7, <2>8, <2>9
         DEF Request
  <1>2. ASSUME NEW a \in Apps, CallStep(a) PROVE ClaimInv'
    <2>1. CASE LockAnnounce(a)
      BY <2>1 DEF LockAnnounce
    <2>2. CASE LockDrained(a)
      BY <2>2 DEF LockDrained
    <2>3. CASE GooseAddTables(a)
      BY <2>3 DEF GooseAddTables
    <2>4. CASE GooseAddLibrary(a)
      BY <2>4 DEF GooseAddLibrary
    <2>5. CASE SvAddTable(a)
      BY <2>5 DEF SvAddTable
    <2>6. CASE SvAddRefs(a)
      BY <2>6 DEF SvAddRefs
    <2>7. CASE RemoveLibrary(a)
      BY <2>7 DEF RemoveLibrary
    <2>8. CASE RemoveTables(a)
      BY <2>8 DEF RemoveTables
    <2>9. CASE DestroyTable(a)
      BY <2>9 DEF DestroyTable
    <2>10. CASE GooseDestroyStop(a)
      BY <2>10 DEF GooseDestroyStop
    <2>11. CASE GooseDestroyFree(a)
      BY <2>11 DEF GooseDestroyFree, FreeReceiver
    <2>12. CASE SvDestroyFree(a)
      BY <2>12 DEF SvDestroyFree, FreeReceiver
    <2>13. CASE StopReturn(a)
      BY <2>13 DEF StopReturn
    <2>14. QED
      BY <1>2, <2>1, <2>2, <2>3, <2>4, <2>5, <2>6, <2>7, <2>8, <2>9, <2>10,
         <2>11, <2>12, <2>13 DEF CallStep
  <1>3. ASSUME NEW p \in Procs, DispatchStep(p) PROVE ClaimInv'
    <2>1. CASE DispatchFound(p)
      BY <2>1 DEF DispatchFound
    <2>2. CASE DispatchMissing(p)
      BY <2>2 DEF DispatchMissing
    <2>3. CASE HandlerReturn(p)
      BY <2>3 DEF HandlerReturn
    <2>4. QED
      BY <1>3, <2>1, <2>2, <2>3 DEF DispatchStep
  <1>4. ASSUME NEW r \in Receivers, ThreadExit(r) PROVE ClaimInv'
    BY <1>4 DEF ThreadExit
  <1>5. ASSUME NEW r \in Receivers, NEW s \in Subs, Frame(r, s) PROVE ClaimInv'
    BY <1>5 DEF Frame
  <1>6. CASE UNCHANGED vars
    BY <1>6 DEF vars
  <1>7. QED
    BY <1>1, <1>2, <1>3, <1>4, <1>5, <1>6 DEF Next, Finished

(* The C lists keep following the receivers' refs. *)
LEMMA ListStep == Registry /\ [Next]_vars => ListInv'
  <1> SUFFICES ASSUME Registry, [Next]_vars PROVE ListInv'
    OBVIOUS
  <1> USE DEF Registry, OwnerInv, CallInv, LockInv, ListInv, ClaimInv, 
              InCritical, Halfway, SvHalfway, TypeOK, Procs, Labels, CallLabels,
              CriticalLabels, Ops, Objects, Goto, mode, Enter, Leave, Unlock,
              callVars, lockVars, tableVars, libVars
  <1>1. ASSUME NEW a \in Apps, Request(a) PROVE ListInv'
    <2>1. ASSUME NEW r \in Receivers, NewGooseReceiver(a, r) PROVE ListInv'
      BY <2>1, SMTT(30) DEF NewGooseReceiver
    <2>2. ASSUME NEW r \in Receivers, Destroy(a, r) PROVE ListInv'
      BY <2>2 DEF Destroy
    <2>3. ASSUME NEW r \in Receivers, Start(a, r) PROVE ListInv'
      BY <2>3 DEF Start
    <2>4. ASSUME NEW r \in Receivers, Stop(a, r) PROVE ListInv'
      BY <2>4 DEF Stop
    <2>5. ASSUME NEW s \in Subs, NewGooseSubscriber(a, s) PROVE ListInv'
      BY <2>5 DEF NewGooseSubscriber
    <2>6. ASSUME NEW s \in Subs, SubscriberDestroy(a, s) PROVE ListInv'
      BY <2>6 DEF SubscriberDestroy, Unclaimed
    <2>7. ASSUME NEW r \in Receivers, NEW s \in Subs, AddSubscriber(a, r, s) PROVE ListInv'
      BY <2>7 DEF AddSubscriber, Unclaimed
    <2>8. ASSUME NEW r \in Receivers, NEW s \in Subs, RemoveSubscriber(a, r, s) PROVE ListInv'
      BY <2>8 DEF RemoveSubscriber
    <2>9. ASSUME NEW r \in Receivers, NEW s \in Subs, Tick(a, r, s) PROVE ListInv'
      BY <2>9 DEF Tick
    <2>10. QED
      BY <1>1, <2>1, <2>2, <2>3, <2>4, <2>5, <2>6, <2>7, <2>8, <2>9
         DEF Request
  <1>2. ASSUME NEW a \in Apps, CallStep(a) PROVE ListInv'
    <2>1. CASE LockAnnounce(a)
      BY <2>1 DEF LockAnnounce
    <2>2. CASE LockDrained(a)
      BY <2>2 DEF LockDrained
    <2>3. CASE GooseAddTables(a)
      BY <2>3 DEF GooseAddTables
    <2>4. CASE GooseAddLibrary(a)
      BY <2>4 DEF GooseAddLibrary
    <2>5. CASE SvAddTable(a)
      BY <2>5 DEF SvAddTable
    <2>6. CASE SvAddRefs(a)
      BY <2>6 DEF SvAddRefs
    <2>7. CASE RemoveLibrary(a)
      BY <2>7 DEF RemoveLibrary
    <2>8. CASE RemoveTables(a)
      BY <2>8 DEF RemoveTables
    <2>9. CASE DestroyTable(a)
      BY <2>9 DEF DestroyTable
    <2>10. CASE GooseDestroyStop(a)
      BY <2>10 DEF GooseDestroyStop
    <2>11. CASE GooseDestroyFree(a)
      BY <2>11 DEF GooseDestroyFree, FreeReceiver
    <2>12. CASE SvDestroyFree(a)
      BY <2>12 DEF SvDestroyFree, FreeReceiver
    <2>13. CASE StopReturn(a)
      BY <2>13 DEF StopReturn
    <2>14. QED
      BY <1>2, <2>1, <2>2, <2>3, <2>4, <2>5, <2>6, <2>7, <2>8, <2>9, <2>10,
         <2>11, <2>12, <2>13 DEF CallStep
  <1>3. ASSUME NEW p \in Procs, DispatchStep(p) PROVE ListInv'
    <2>1. CASE DispatchFound(p)
      BY <2>1 DEF DispatchFound
    <2>2. CASE DispatchMissing(p)
      BY <2>2 DEF DispatchMissing
    <2>3. CASE HandlerReturn(p)
      BY <2>3 DEF HandlerReturn
    <2>4. QED
      BY <1>3, <2>1, <2>2, <2>3 DEF DispatchStep
  <1>4. ASSUME NEW r \in Receivers, ThreadExit(r) PROVE ListInv'
    BY <1>4 DEF ThreadExit
  <1>5. ASSUME NEW r \in Receivers, NEW s \in Subs, Frame(r, s) PROVE ListInv'
    BY <1>5, SMTT(30) DEF Frame
  <1>6. CASE UNCHANGED vars
    BY <1>6 DEF vars
  <1>7. QED
    BY <1>1, <1>2, <1>3, <1>4, <1>5, <1>6 DEF Next, Finished

(* The shared table keeps following the receivers' refs. *)
LEMMA TableStep == Registry /\ TableInv /\ [Next]_vars => TableInv'
  <1> SUFFICES ASSUME Registry, TableInv, [Next]_vars PROVE TableInv'
    OBVIOUS
  <1> USE DEF Registry, OwnerInv, CallInv, LockInv, ListInv, ClaimInv, TableInv, Clearing,
              InCritical, Halfway, SvHalfway, TypeOK, Procs, Labels, CallLabels,
              CriticalLabels, Ops, Objects, Goto, mode, Enter, Leave, Unlock,
              callVars, lockVars, tableVars, libVars
  <1>1. ASSUME NEW a \in Apps, Request(a) PROVE TableInv'
    <2>1. ASSUME NEW r \in Receivers, NewGooseReceiver(a, r) PROVE TableInv'
      BY <2>1 DEF NewGooseReceiver
    <2>2. ASSUME NEW r \in Receivers, Destroy(a, r) PROVE TableInv'
      BY <2>2 DEF Destroy
    <2>3. ASSUME NEW r \in Receivers, Start(a, r) PROVE TableInv'
      BY <2>3 DEF Start
    <2>4. ASSUME NEW r \in Receivers, Stop(a, r) PROVE TableInv'
      BY <2>4 DEF Stop
    <2>5. ASSUME NEW s \in Subs, NewGooseSubscriber(a, s) PROVE TableInv'
      BY <2>5 DEF NewGooseSubscriber
    <2>6. ASSUME NEW s \in Subs, SubscriberDestroy(a, s) PROVE TableInv'
      BY <2>6 DEF SubscriberDestroy, Unclaimed
    <2>7. ASSUME NEW r \in Receivers, NEW s \in Subs, AddSubscriber(a, r, s) PROVE TableInv'
      BY <2>7 DEF AddSubscriber, Unclaimed
    <2>8. ASSUME NEW r \in Receivers, NEW s \in Subs, RemoveSubscriber(a, r, s) PROVE TableInv'
      BY <2>8 DEF RemoveSubscriber
    <2>9. ASSUME NEW r \in Receivers, NEW s \in Subs, Tick(a, r, s) PROVE TableInv'
      BY <2>9 DEF Tick
    <2>10. QED
      BY <1>1, <2>1, <2>2, <2>3, <2>4, <2>5, <2>6, <2>7, <2>8, <2>9
         DEF Request
  <1>2. ASSUME NEW a \in Apps, CallStep(a) PROVE TableInv'
    <2>1. CASE LockAnnounce(a)
      BY <2>1 DEF LockAnnounce
    <2>2. CASE LockDrained(a)
      BY <2>2, SMTT(30) DEF LockDrained
    <2>3. CASE GooseAddTables(a)
      <3>1. /\ ~\E b \in Apps, r \in Receivers, s \in Subs : SvHalfway(b, r, s)
            /\ ~\E b \in Apps, r \in Receivers, s \in Subs : SvHalfway(b, r, s)'
        BY <2>3 DEF GooseAddTables
      <3>2. \A r \in Receivers : ~Clearing(r) /\ ~Clearing(r)'
        BY <2>3 DEF GooseAddTables
      <3>3. /\ rcv[a] \in Receivers /\ sub[a] \in Subs
            /\ callbackRefs' = callbackRefs \cup {sub[a]}
            /\ refs' = [refs EXCEPT ![rcv[a]] = @ \cup {sub[a]}]
        BY <2>3 DEF GooseAddTables
      <3>4. TypeOK /\ TableInv
        OBVIOUS
      <3> HIDE DEF Registry, OwnerInv, CallInv, LockInv, ListInv, ClaimInv,
                   Clearing, InCritical, Halfway, SvHalfway
      <3>5. QED
        BY <3>1, <3>2, <3>3, <3>4
    <2>4. CASE GooseAddLibrary(a)
      BY <2>4 DEF GooseAddLibrary
    <2>5. CASE SvAddTable(a)
      BY <2>5 DEF SvAddTable
    <2>6. CASE SvAddRefs(a)
      BY <2>6, SMTT(30) DEF SvAddRefs
    <2>7. CASE RemoveLibrary(a)
      BY <2>7 DEF RemoveLibrary
    <2>8. CASE RemoveTables(a)
      BY <2>8 DEF RemoveTables
    <2>9. CASE DestroyTable(a)
      BY <2>9 DEF DestroyTable
    <2>10. CASE GooseDestroyStop(a)
      BY <2>10 DEF GooseDestroyStop
    <2>11. CASE GooseDestroyFree(a)
      BY <2>11, SMTT(30) DEF GooseDestroyFree, FreeReceiver
    <2>12. CASE SvDestroyFree(a)
      BY <2>12, SMTT(30) DEF SvDestroyFree, FreeReceiver
    <2>13. CASE StopReturn(a)
      BY <2>13 DEF StopReturn
    <2>14. QED
      BY <1>2, <2>1, <2>2, <2>3, <2>4, <2>5, <2>6, <2>7, <2>8, <2>9, <2>10,
         <2>11, <2>12, <2>13 DEF CallStep
  <1>3. ASSUME NEW p \in Procs, DispatchStep(p) PROVE TableInv'
    <2>1. CASE DispatchFound(p)
      BY <2>1 DEF DispatchFound
    <2>2. CASE DispatchMissing(p)
      BY <2>2 DEF DispatchMissing
    <2>3. CASE HandlerReturn(p)
      BY <2>3 DEF HandlerReturn
    <2>4. QED
      BY <1>3, <2>1, <2>2, <2>3 DEF DispatchStep
  <1>4. ASSUME NEW r \in Receivers, ThreadExit(r) PROVE TableInv'
    BY <1>4 DEF ThreadExit
  <1>5. ASSUME NEW r \in Receivers, NEW s \in Subs, Frame(r, s) PROVE TableInv'
    BY <1>5 DEF Frame
  <1>6. CASE UNCHANGED vars
    BY <1>6 DEF vars
  <1>7. QED
    BY <1>1, <1>2, <1>3, <1>4, <1>5, <1>6 DEF Next, Finished

-----------------------------------------------------------------------------
(* The parts together are inductive. *)
LEMMA IndStep == IndInv /\ [Next]_vars => IndInv'
  BY TypeStep, CallInvStep, LockInvStep, HandlerStep, OwnerStep, ClaimStep,
     ListStep, TableStep DEF IndInv, Registry

(* The inductive invariant holds in every reachable state. *)
THEOREM Invariance == Safety => []IndInv
  BY InitInd, IndStep, PTL DEF Safety

(* Type correctness of the receivers, for every number of goroutines,      *)
(* receivers and subscribers.                                              *)
THEOREM TypeCorrect == Safety => []TypeOK
  <1>1. IndInv => TypeOK
    BY DEF IndInv
  <1>2. QED
    BY <1>1, Invariance, PTL

(* A running handler is registered: RemoveSubscriber and Destroy return    *)
(* only when the handlers of the subscribers they took out have ended.     *)
THEOREM HandlersRegistered == Safety => []HandlerRegistered
  <1>1. IndInv => HandlerRegistered
    BY DEF IndInv
  <1>2. QED
    BY <1>1, Invariance, PTL

(* A handler never sees a freed C subscriber.  Its table entry comes from  *)
(* some receiver's refs, because no addition is halfway while a reader is  *)
(* inside the lock.                                                        *)
THEOREM HandlersSeeLive == Safety => []HandlerSeesLive
  <1>1. IndInv => HandlerSeesLive
    <2> SUFFICES ASSUME IndInv, NEW p \in Procs, pc[p] = "handler"
                 PROVE  csub[sub[p]] = "live"
      BY DEF HandlerSeesLive
    <2>1. sub[p] \in Subs /\ sub[p] \in callbackRefs
      BY DEF IndInv, CallInv, HandlerRegistered
    <2>2. \A a \in Apps : ~InCritical(a)
      BY DEF IndInv, LockInv, Procs
    <2>3. \E r \in Receivers : sub[p] \in refs[r]
      BY <2>1, <2>2 DEF IndInv, TableInv, SvHalfway, Halfway, InCritical,
                        CriticalLabels
    <2>4. QED
      BY <2>3 DEF IndInv, OwnerInv
  <1>2. QED
    BY <1>1, Invariance, PTL

(* Between critical sections the shared table is exactly the union of the  *)
(* receivers' refs, and every C list is its receiver's refs.               *)
THEOREM RegistriesAgree == Safety => []RegistryAgrees
  <1>1. IndInv => RegistryAgrees
    <2> SUFFICES ASSUME IndInv, \A a \in Apps : ~InCritical(a)
                 PROVE  /\ callbackRefs = UNION {refs[r] : r \in Receivers}
                        /\ clist = refs
      BY DEF RegistryAgrees
    <2> USE DEF IndInv, TypeOK, InCritical, CriticalLabels
    <2>1. \A s \in Subs : s \in callbackRefs <=> \E r \in Receivers : s \in refs[r]
      BY DEF TableInv, Clearing, SvHalfway, Halfway
    <2>2. callbackRefs = UNION {refs[r] : r \in Receivers}
      BY <2>1
    <2>3. \A r \in Receivers, s \in Subs : s \in clist[r] <=> s \in refs[r]
      BY DEF ListInv, SvHalfway, Halfway
    <2>4. clist = refs
      <3>1. ASSUME NEW r \in Receivers PROVE clist[r] = refs[r]
        <4>1. clist[r] \subseteq Subs /\ refs[r] \subseteq Subs
          OBVIOUS
        <4>2. QED
          BY <2>3, <4>1
      <3>2. QED
        BY <3>1
    <2>5. QED
      BY <2>2, <2>4
  <1>2. QED
    BY <1>1, Invariance, PTL

-----------------------------------------------------------------------------
(* What stopping a receiver first buys: while a call that changes r is     *)
(* under way, from the moment it asks for the lock, the thread of r does   *)
(* not run and no listener call of r is in progress.  So the C list keeps  *)
(* the subscriber of every listener call and the receiver is freed only    *)
(* when nothing uses it.                                                   *)
Changing(a) == op[a] \in {"add", "remove", "destroy"}

StopInv ==
  /\ \A r \in Receivers : Running(r) => crecv[r] = "live"
  /\ \A a \in Apps : Changing(a) =>
       ~Running(rcv[a]) /\ \A p \in Procs : op[p] = "dispatch" => rcv[p] # rcv[a]
  /\ \A p \in Procs : op[p] = "dispatch" =>
       crecv[rcv[p]] = "live" /\ sub[p] \in clist[rcv[p]]

(* The use of the API is chosen once. *)
LEMMA ModeStep == [Next]_vars => stopFirst' = stopFirst
  <1> SUFFICES ASSUME [Next]_vars PROVE stopFirst' = stopFirst
    OBVIOUS
  <1> USE DEF Goto, mode, Enter, Leave
  <1>1. ASSUME NEW a \in Apps, Request(a) PROVE stopFirst' = stopFirst
    BY <1>1 DEF Request, NewGooseReceiver, Destroy, Start, Stop,
                NewGooseSubscriber, SubscriberDestroy, AddSubscriber,
                RemoveSubscriber, Tick
  <1>2. ASSUME NEW a \in Apps, CallStep(a) PROVE stopFirst' = stopFirst
    BY <1>2 DEF CallStep, LockAnnounce, LockDrained, GooseAddTables,
                GooseAddLibrary, SvAddTable, SvAddRefs, RemoveLibrary,
                RemoveTables, DestroyTable, GooseDestroyStop,
                GooseDestroyFree, SvDestroyFree, StopReturn
  <1>3. ASSUME NEW p \in Procs, DispatchStep(p) PROVE stopFirst' = stopFirst
    BY <1>3 DEF DispatchStep, DispatchFound, DispatchMissing, HandlerReturn
  <1>4. QED
    BY <1>1, <1>2, <1>3 DEF Next, Finished, vars, ThreadExit, Frame

(* A step that begins no call keeps StopInv if it starts no thread and     *)
(* frees or shortens only what a call under way may change.                *)
Settles ==
  /\ \A p \in Procs : \/ op'[p] = "none"
                      \/ op'[p] = op[p] /\ rcv'[p] = rcv[p] /\ sub'[p] = sub[p]
  /\ \A r \in Receivers : Running(r)' => Running(r)
  /\ \A r \in Receivers :
       \/ crecv[r] = "live" => crecv'[r] = "live"
       \/ \E a \in Apps : Changing(a) /\ rcv[a] = r
  /\ \A r \in Receivers :
       \/ clist[r] \subseteq clist'[r]
       \/ \E a \in Apps : Changing(a) /\ rcv[a] = r

LEMMA SettlesKeeps ==
  ASSUME CallInv, StopInv, Settles PROVE StopInv'
  <1>1. \A r \in Receivers : Running(r)' => crecv'[r] = "live"
    BY DEF StopInv, Settles
  <1>2. \A a \in Apps : Changing(a)' =>
          Changing(a) /\ rcv'[a] = rcv[a] /\ rcv[a] \in Receivers
    BY DEF Settles, Changing, CallInv, Procs
  <1>3. \A p \in Procs : op'[p] = "dispatch" =>
          /\ op[p] = "dispatch" /\ rcv'[p] = rcv[p] /\ sub'[p] = sub[p]
          /\ rcv[p] \in Receivers
    BY DEF Settles, CallInv
  <1>4. ASSUME NEW a \in Apps, Changing(a)'
        PROVE  /\ ~Running(rcv[a])'
               /\ \A p \in Procs : op'[p] = "dispatch" => rcv'[p] # rcv'[a]
    <2>1. ~Running(rcv[a])
      BY <1>2, <1>4 DEF StopInv
    <2>2. \A p \in Procs : op[p] = "dispatch" => rcv[p] # rcv[a]
      BY <1>2, <1>4 DEF StopInv
    <2>3. QED
      BY <1>2, <1>3, <1>4, <2>1, <2>2 DEF Settles, Running
  <1>5. ASSUME NEW p \in Procs, op'[p] = "dispatch"
        PROVE  crecv'[rcv'[p]] = "live" /\ sub'[p] \in clist'[rcv'[p]]
    <2>1. crecv[rcv[p]] = "live" /\ sub[p] \in clist[rcv[p]]
      BY <1>3, <1>5 DEF StopInv
    <2>2. ~\E a \in Apps : Changing(a) /\ rcv[a] = rcv[p]
      BY <1>3, <1>5 DEF StopInv
    <2>3. QED
      BY <1>3, <1>5, <2>1, <2>2 DEF Settles
  <1>6. QED
    BY <1>1, <1>2, <1>4, <1>5 DEF StopInv

(* The steps of the calls, and of a listener call, are such steps. *)
LEMMA CallSettles ==
  ASSUME TypeOK, CallInv, NEW a \in Apps, CallStep(a) PROVE Settles
  <1> USE DEF Settles, Changing, Running, TypeOK, Procs, Goto, Leave, callVars,
              libVars
  <1>1. CASE LockAnnounce(a) \/ LockDrained(a)
    BY <1>1 DEF LockAnnounce, LockDrained
  <1>2. CASE StopReturn(a)
    BY <1>2 DEF StopReturn
  <1>3. CASE GooseAddTables(a) \/ DestroyTable(a)
    BY <1>3 DEF GooseAddTables, DestroyTable
  <1>4. CASE SvAddRefs(a)
    BY <1>4 DEF SvAddRefs
  <1>5. CASE RemoveTables(a)
    BY <1>5 DEF RemoveTables
  <1>6. CASE GooseAddLibrary(a)
    BY <1>6 DEF GooseAddLibrary
  <1>7. CASE SvAddTable(a)
    BY <1>7 DEF SvAddTable
  <1>8. CASE RemoveLibrary(a)
    BY <1>8 DEF RemoveLibrary, CallInv
  <1>9. CASE GooseDestroyStop(a)
    BY <1>9 DEF GooseDestroyStop
  <1>10. CASE GooseDestroyFree(a)
    BY <1>10 DEF GooseDestroyFree, FreeReceiver, CallInv
  <1>11. CASE SvDestroyFree(a)
    BY <1>11 DEF SvDestroyFree, FreeReceiver, CallInv
  <1>12. QED
    BY <1>1, <1>2, <1>3, <1>4, <1>5, <1>6, <1>7, <1>8, <1>9, <1>10, <1>11
       DEF CallStep

LEMMA DispatchSettles ==
  ASSUME TypeOK, CallInv, NEW p \in Procs, DispatchStep(p) PROVE Settles
  <1> USE DEF Settles, Running, TypeOK, Goto, Leave, callVars, libVars
  <1>1. CASE DispatchFound(p)
    BY <1>1 DEF DispatchFound
  <1>2. CASE DispatchMissing(p) \/ HandlerReturn(p)
    <2>1. /\ UNCHANGED <<clist, crecv>> /\ EndRound(p) /\ Leave(p)
      BY <1>2 DEF DispatchMissing, HandlerReturn
    <2>2. \A r \in Receivers : Running(r)' => Running(r)
      BY <2>1 DEF EndRound
    <2>3. \A q \in Procs : \/ op'[q] = "none"
                           \/ /\ op'[q] = op[q] /\ rcv'[q] = rcv[q]
                              /\ sub'[q] = sub[q]
      BY <2>1
    <2>4. QED
      BY <2>1, <2>2, <2>3
  <1>3. QED
    BY <1>1, <1>2 DEF DispatchStep

(* With stopFirst every step keeps StopInv. *)
LEMMA StopStep ==
  ASSUME TypeOK, CallInv, stopFirst, StopInv, [Next]_vars PROVE StopInv'
  <1> USE DEF StopInv, Changing, Running, CallInv, TypeOK, Procs, Labels,
              CallLabels, Ops, Objects, Goto, mode, Enter, Leave, Unlock,
              callVars, lockVars, tableVars, libVars
  <1>1. ASSUME NEW a \in Apps, Request(a) PROVE StopInv'
    <2>1. ASSUME NEW r \in Receivers, NewGooseReceiver(a, r) PROVE StopInv'
      BY <2>1 DEF NewGooseReceiver
    <2>2. ASSUME NEW s \in Subs, NewGooseSubscriber(a, s) \/ SubscriberDestroy(a, s)
          PROVE  StopInv'
      <3>1. Settles
        BY <2>2 DEF NewGooseSubscriber, SubscriberDestroy, Settles
      <3>2. QED
        BY <3>1, SettlesKeeps
    <2>3. ASSUME NEW r \in Receivers, Start(a, r) PROVE StopInv'
      BY <2>3 DEF Start, Usable
    <2>4. ASSUME NEW r \in Receivers, Stop(a, r) PROVE StopInv'
      BY <2>4 DEF Stop, Usable
    <2>5. ASSUME NEW r \in Receivers, NEW s \in Subs \cup {None}, NEW o,
                 o \in {"add", "remove", "destroy"}, MayChange(r),
                 Enter(a, o, r, s, "lock"), UNCHANGED <<lockVars, tableVars, libVars>>
          PROVE  StopInv'
      <3>1. ~Running(r) /\ \A p \in Procs : op[p] = "dispatch" => rcv[p] # r
        BY <2>5 DEF MayChange, Quiet
      <3>2. QED
        BY <2>5, <3>1
    <2>6. ASSUME NEW r \in Receivers, NEW s \in Subs, Tick(a, r, s) PROVE StopInv'
      BY <2>6 DEF Tick, Usable
    <2>7. QED
      BY <1>1, <2>1, <2>2, <2>3, <2>4, <2>5, <2>6
         DEF Request, Destroy, AddSubscriber, RemoveSubscriber
  <1>2. ASSUME NEW a \in Apps, CallStep(a) PROVE StopInv'
    BY <1>2, CallSettles, SettlesKeeps
  <1>3. ASSUME NEW p \in Procs, DispatchStep(p) PROVE StopInv'
    BY <1>3, DispatchSettles, SettlesKeeps
  <1>4. ASSUME NEW r \in Receivers, ThreadExit(r) PROVE StopInv'
    BY <1>4 DEF ThreadExit
  <1>5. ASSUME NEW r \in Receivers, NEW s \in Subs, Frame(r, s) PROVE StopInv'
    BY <1>5 DEF Frame
  <1>6. CASE UNCHANGED vars
    BY <1>6 DEF vars
  <1>7. QED
    BY <1>1, <1>2, <1>3, <1>4, <1>5, <1>6 DEF Next, Finished

(* If the application stops a receiver before it changes or destroys it,   *)
(* no thread outlives its receiver and no listener call refers to a freed  *)
(* receiver or subscriber: also those that wait for the read lock, which   *)
(* HandlersSeeLive says nothing about.                                     *)
THEOREM PointersLive == Safety => []LibraryPointersLive
  <1> DEFINE Inv == IndInv /\ (stopFirst => StopInv)
  <1>1. Init => Inv
    <2> SUFFICES ASSUME Init PROVE StopInv
      BY InitInd
    <2>1. QED
      BY DEF Init, StopInv, Changing, Running, Procs
  <1>2. Inv /\ [Next]_vars => Inv'
    <2> SUFFICES ASSUME Inv, [Next]_vars PROVE Inv'
      OBVIOUS
    <2>1. IndInv'
      BY IndStep
    <2>2. ASSUME stopFirst PROVE StopInv'
      BY <2>2, StopStep DEF IndInv
    <2>3. QED
      BY <2>1, <2>2, ModeStep
  <1>3. Inv => LibraryPointersLive
    <2> SUFFICES ASSUME IndInv, StopInv, NEW p \in Procs, op[p] = "dispatch"
                 PROVE  crecv[rcv[p]] = "live" /\ csub[sub[p]] = "live"
      BY DEF LibraryPointersLive, StopInv
    <2>1. rcv[p] \in Receivers /\ sub[p] \in Subs
      BY DEF IndInv, CallInv
    <2>2. crecv[rcv[p]] = "live" /\ sub[p] \in clist[rcv[p]]
      BY DEF StopInv
    <2>3. \A a \in Apps : ~Halfway(a, rcv[p], sub[p])
      BY DEF StopInv, Changing, Halfway
    <2>4. sub[p] \in refs[rcv[p]]
      BY <2>1, <2>2, <2>3 DEF IndInv, ListInv, SvHalfway
    <2>5. QED
      BY <2>1, <2>2, <2>4 DEF IndInv, OwnerInv
  <1>4. QED
    BY <1>1, <1>2, <1>3, PTL DEF Safety

=============================================================================
