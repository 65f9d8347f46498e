------------------------- MODULE AsyncRequestsProofs -------------------------
(***************************************************************************)
(* Proofs about AsyncRequests, for any number of requests.                 *)
(***************************************************************************)
EXTENDS AsyncRequests, TLAPS

USE RequestsAssumption DEF Requests, MaxCalls, Resource, Replies

(* The inductive invariant holds initially. *)
LEMMA InitInd == Init => IndInv
  BY DEF Init, IndInv, TypeOK, CallerInv, BridgeInv, Owned, Gone

(* Every step keeps the inductive invariant. *)
LEMMA StepInd == IndInv /\ [Next]_vars => IndInv'
  <1> SUFFICES ASSUME IndInv, [Next]_vars PROVE IndInv'
    OBVIOUS
  <1> USE DEF IndInv, TypeOK, CallerInv, BridgeInv, Owned, Gone, Release, Released,
              EndBridge
  <1>1. ASSUME NEW q \in Requests, Begin(q) PROVE IndInv'
    BY <1>1 DEF Begin
  <1>2. ASSUME NEW q \in Requests, LibraryAccepts(q) PROVE IndInv'
    BY <1>2 DEF LibraryAccepts
  <1>3. ASSUME NEW q \in Requests, LibraryRefuses(q) PROVE IndInv'
    BY <1>3 DEF LibraryRefuses
  <1>4. ASSUME NEW q \in Requests, ReturnInvokeId(q) PROVE IndInv'
    BY <1>4 DEF ReturnInvokeId
  <1>5. ASSUME NEW q \in Requests, ReturnError(q) PROVE IndInv'
    BY <1>5 DEF ReturnError
  <1>6. ASSUME NEW q \in Requests, NEW r \in Replies, Deliver(q, r) PROVE IndInv'
    BY <1>6 DEF Deliver
  <1>7. CASE BridgeHandler
    <2>1. busy \in Requests /\ calls[busy] = 0
      BY <1>7 DEF BridgeHandler
    <2>2. calls' = [calls EXCEPT ![busy] = 1]
      BY <1>7, <2>1 DEF BridgeHandler
    <2>3. QED
      BY <1>7, <2>1, <2>2 DEF BridgeHandler
  <1>8. CASE NameBridgeReturn
    BY <1>8 DEF NameBridgeReturn
  <1>9. CASE SpecBridgeReturn
    <2>1. busy \in Requests /\ Owned(busy) /\ reply[busy] \in {"last", "error"}
      BY <1>9 DEF SpecBridgeReturn
    <2>2. handle' = [handle EXCEPT ![busy] = "released"]
          /\ block' = [block EXCEPT ![busy] = "released"]
      BY <1>9, <2>1 DEF SpecBridgeReturn
    <2>3. QED
      BY <1>9, <2>1, <2>2 DEF SpecBridgeReturn
  <1>10. CASE ConnectionLost \/ Close \/ CloseReturns
    BY <1>10 DEF ConnectionLost, Close, CloseReturns
  <1>11. CASE UNCHANGED vars
    BY <1>11 DEF vars
  <1>12. QED
    BY <1>1, <1>2, <1>3, <1>4, <1>5, <1>6, <1>7, <1>8, <1>9, <1>10, <1>11
       DEF Next, CallerStep, ThreadStep, Finished

(* The inductive invariant holds in every reachable state. *)
THEOREM Invariance == Safety => []IndInv
  BY InitInd, StepInd, PTL DEF Safety

(* Type correctness of the asynchronous requests. *)
THEOREM TypeCorrect == Safety => []TypeOK
  <1>1. IndInv => TypeOK
    BY DEF IndInv
  <1>2. QED
    BY <1>1, Invariance, PTL

(* No handle is deleted and no block freed twice, although the caller and  *)
(* the connection thread run concurrently.                                 *)
THEOREM NeverReleasedTwice == Safety => []NoDoubleRelease
  <1>1. IndInv => NoDoubleRelease
    <2> SUFFICES ASSUME IndInv, NEW q \in Requests
                 PROVE  handle[q] # "broken" /\ block[q] # "broken"
      BY DEF NoDoubleRelease
    <2>1. reply[q] \in Replies /\ caller[q] \in {"idle", "stored", "calling",
                                      "refused", "accepted", "failed"}
      BY DEF IndInv, TypeOK
    <2>2. QED
      BY <2>1 DEF IndInv, CallerInv, BridgeInv, Owned, Gone
  <1>2. QED
    BY <1>1, Invariance, PTL

(* The bridge never dereferences a freed block or a deleted handle. *)
THEOREM BridgeParameterAlive == Safety => []ParameterAlive
  <1>1. IndInv => ParameterAlive
    BY DEF IndInv, TypeOK, BridgeInv, Owned, ParameterAlive
  <1>2. QED
    BY <1>1, Invariance, PTL

(* A request that is over has released everything, unless its page of the  *)
(* name list announced more names.                                         *)
THEOREM OverIsReleased == Safety => []ReleasedExceptMore
  <1>1. IndInv => ReleasedExceptMore
    BY DEF IndInv, TypeOK, CallerInv, BridgeInv, Gone, ReleasedExceptMore, Over
  <1>2. QED
    BY <1>1, Invariance, PTL

=============================================================================
