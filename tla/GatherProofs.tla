----------------------------- MODULE GatherProofs -----------------------------
(***************************************************************************)
(* Proofs about Gather, for any devices and names, any limit of the        *)
(* errgroup, and whatever a goroutine makes of what it reads.              *)
(***************************************************************************)
EXTENDS Gather, TLAPS

EntryType == [job : Jobs, ref : Seq(Nat), type : LeafTypes \cup {"error"}]

TypeOK ==
  /\ device \in Devices
  /\ pc \in {"model", "list", "dirs", "spawn", "close", "join", "returned"}
  /\ err \in BOOLEAN
  /\ todo \subseteq LDs
  /\ queue \subseteq Jobs
  /\ worker \in [Jobs -> {"none", "spec", "read", "send", "done"}]
  /\ out \in [Jobs -> Seq(EntryType)]
  /\ failed \subseteq Jobs
  /\ collector \in {"none", "recv", "append", "ended"}
  /\ batch \in Seq(EntryType)
  /\ ret \in Seq(EntryType)
  /\ closed \in BOOLEAN
  /\ panic \in BOOLEAN

Listing == pc \in {"model", "list", "dirs"}
Succeeded == pc = "returned" /\ ~err

(* Goroutines exist only while the call waits for the group, and the       *)
(* channel is closed only after that.                                      *)
PhaseInv ==
  /\ pc \in {"model", "list"} => collector = "none"
  /\ pc \in {"dirs", "spawn", "close"} => collector \in {"recv", "append"}
  /\ Listing \/ err => \A j \in Jobs : worker[j] = "none"
  /\ err => pc = "returned"
  /\ closed <=> pc = "join" \/ Succeeded
  /\ Succeeded => collector = "ended"
  /\ \A j \in Jobs : worker[j] \notin {"none", "done"} => pc = "spawn"
  /\ ~panic

(* Every job is queued once, and has ended when the channel is closed. *)
JobsInv ==
  /\ Listing => queue = UNION {Hierarchical(d) : d \in LDs \ todo}
  /\ pc \in {"model", "list"} => todo = LDs
  /\ pc = "spawn" => \A j \in Jobs : j \in queue <=> worker[j] = "none"
  /\ pc \in {"close", "join"} \/ Succeeded => \A j \in Jobs : worker[j] = "done"

(* What the goroutine of job j sends. *)
Produced(j) == IF j \in failed THEN <<Entry(j, <<>>, "error")>> ELSE Entries(j)

SendInv ==
  \A j \in Jobs : /\ worker[j] \in {"none", "spec", "read"} => j \notin failed
                  /\ worker[j] = "send" => out[j] = Produced(j)

NoEntry(j) == \A i \in 1..Len(ret) : ret[i].job # j

(* The entries of job j in the result are what its goroutine has sent, all *)
(* of it, once, in order and in one piece.                                 *)
Block(j) ==
  \E start \in Nat :
    /\ start + Len(Produced(j)) <= Len(ret)
    /\ \A i \in 1..Len(Produced(j)) : ret[start + i] = Produced(j)[i]
    /\ \A i \in 1..Len(ret) :
         ret[i].job = j => start < i /\ i <= start + Len(Produced(j))

RetInv ==
  /\ \A j \in Jobs : worker[j] # "done" => NoEntry(j)
  /\ collector # "append" => \A j \in Jobs : worker[j] = "done" => Block(j)
  /\ collector = "append" =>
       \E j \in Jobs :
         /\ worker[j] = "done" /\ batch = Produced(j) /\ NoEntry(j)
         /\ \A k \in Jobs \ {j} : worker[k] = "done" => Block(k)

IndInv == TypeOK /\ PhaseInv /\ JobsInv /\ SendInv /\ RetInv

-----------------------------------------------------------------------------
LEMMA EntryIs ==
  ASSUME NEW j \in Jobs, NEW ref \in Seq(Nat), NEW type \in LeafTypes \cup {"error"}
  PROVE  Entry(j, ref, type) \in EntryType /\ Entry(j, ref, type).job = j
  BY DEF Entry, EntryType

(* A goroutine produces entries of its own job. *)
LEMMA EntriesType ==
  ASSUME device \in Devices, NEW j \in Jobs
  PROVE  /\ Entries(j) \in Seq(EntryType)
         /\ \A i \in 1..Len(Entries(j)) : Entries(j)[i].job = j
         /\ <<Entry(j, <<>>, "error")>> \in Seq(EntryType)
         /\ Entry(j, <<>>, "error").job = j
  <1> DEFINE result == Result(device[j].spec, device[j].val)
             found == result.out
             LeafType == [ref : Seq(Nat), type : LeafTypes]
             leaf == [i \in 1..Len(found) |->
                        Entry(j, found[i].ref, found[i].type)]
  <1>1. found \in Seq(LeafType)
    BY DiscoveryAssumption
  <1>2. /\ Len(found) \in Nat /\ DOMAIN found = 1..Len(found)
        /\ \A i \in 1..Len(found) :
             found[i].ref \in Seq(Nat) /\ found[i].type \in LeafTypes
    <2> HIDE DEF found, LeafType
    <2>1. /\ Len(found) \in Nat /\ DOMAIN found = 1..Len(found)
          /\ \A i \in 1..Len(found) : found[i] \in LeafType
      BY <1>1
    <2>2. QED
      BY <2>1 DEF LeafType
  <1>3. /\ Entry(j, <<>>, "error") \in EntryType
        /\ Entry(j, <<>>, "error").job = j
    <2> DEFINE none == <<>>
    <2>1. none \in Seq(Nat)
      OBVIOUS
    <2> HIDE DEF none
    <2>2. Entry(j, none, "error") \in EntryType /\ Entry(j, none, "error").job = j
      BY <2>1, EntryIs
    <2>3. QED
      BY <2>2 DEF none
  <1>4. /\ leaf \in Seq(EntryType) /\ Len(leaf) = Len(found)
        /\ \A i \in 1..Len(leaf) : leaf[i].job = j
    <2> HIDE DEF found
    <2>1. \A i \in 1..Len(found) : leaf[i] \in EntryType /\ leaf[i].job = j
      BY <1>2 DEF Entry, EntryType
    <2>2. leaf = [i \in 1..Len(found) |-> leaf[i]]
      OBVIOUS
    <2> HIDE DEF leaf
    <2>3. leaf \in [1..Len(found) -> EntryType]
      BY <2>1, <2>2
    <2>4. leaf \in Seq(EntryType) /\ Len(leaf) = Len(found)
      BY <1>2, <2>2, <2>3
    <2>5. QED
      BY <2>1, <2>4
  <1>5. Entries(j) = IF result.ok THEN leaf ELSE <<Entry(j, <<>>, "error")>>
    BY <1>2 DEF Entries
  <1> HIDE DEF leaf, result, found
  <1>6. <<Entry(j, <<>>, "error")>> \in Seq(EntryType)
    BY <1>3
  <1>7. CASE result.ok
    BY <1>3, <1>4, <1>5, <1>6, <1>7
  <1>8. CASE ~result.ok
    <2>1. Entries(j) = <<Entry(j, <<>>, "error")>>
      BY <1>5, <1>8
    <2> HIDE DEF Entry
    <2>2. QED
      BY <1>3, <1>6, <2>1
  <1>9. QED
    BY <1>7, <1>8

LEMMA ProducedType ==
  ASSUME TypeOK, NEW j \in Jobs
  PROVE  /\ Produced(j) \in Seq(EntryType)
         /\ \A i \in 1..Len(Produced(j)) : Produced(j)[i].job = j
  <1>1. CASE j \in failed
    <2>1. Produced(j) = <<Entry(j, <<>>, "error")>>
      BY <1>1 DEF Produced
    <2>2. QED
      BY <2>1, EntriesType DEF TypeOK
  <1>2. CASE j \notin failed
    BY <1>2, EntriesType DEF TypeOK, Produced
  <1>3. QED
    BY <1>1, <1>2

(* The result of a step that neither appends nor fails. *)
LEMMA SameBlocks ==
  ASSUME NEW j \in Jobs, ret' = ret, device' = device,
         j \in failed' <=> j \in failed
  PROVE  /\ Produced(j)' = Produced(j)
         /\ Block(j)' <=> Block(j)
         /\ NoEntry(j)' <=> NoEntry(j)
  <1>1. Produced(j)' = Produced(j)
    BY DEF Produced, Entries
  <1>2. QED
    BY <1>1 DEF Block, NoEntry

(* A call that has not begun satisfies the invariant. *)
LEMMA InitInd == Init => IndInv
  <1> SUFFICES ASSUME Init PROVE IndInv
    OBVIOUS
  <1>1. TypeOK
    <2>1. <<>> \in Seq(EntryType)
      OBVIOUS
    <2>2. QED
      BY <2>1 DEF Init, TypeOK
  <1>2. PhaseInv
    BY DEF Init, PhaseInv, Listing, Succeeded
  <1>3. JobsInv
    BY DEF Init, JobsInv, Listing, Succeeded
  <1>4. SendInv
    BY DEF Init, SendInv
  <1>5. RetInv
    BY DEF Init, RetInv, NoEntry
  <1>6. QED
    BY <1>1, <1>2, <1>3, <1>4, <1>5 DEF IndInv

(* Steps of the main goroutine leave results and goroutines alone; Spawn   *)
(* only starts a goroutine.                                                *)
LEMMA KeepsRet ==
  ASSUME IndInv, UNCHANGED <<device, failed, out, batch, ret>>,
         \A j \in Jobs : \/ worker'[j] = worker[j]
                         \/ /\ worker[j] \in {"none", "spec"}
                            /\ worker'[j] \in {"spec", "read"},
         collector' = collector \/ {collector, collector'} \cap {"append"} = {}
  PROVE  SendInv' /\ RetInv'
  <1>1. \A j \in Jobs : /\ Produced(j)' = Produced(j)
                        /\ Block(j)' <=> Block(j)
                        /\ NoEntry(j)' <=> NoEntry(j)
    BY SameBlocks
  <1>2. \A j \in Jobs : worker'[j] = "done" <=> worker[j] = "done"
    OBVIOUS
  <1>3. SendInv'
    BY <1>1 DEF IndInv, SendInv
  <1>4. collector' = "append" <=> collector = "append"
    OBVIOUS
  <1>5. RetInv'
    <2>1. \A j \in Jobs : worker'[j] # "done" => NoEntry(j)'
      BY <1>1, <1>2 DEF IndInv, RetInv
    <2>2. collector' # "append" => \A j \in Jobs : worker'[j] = "done" => Block(j)'
      BY <1>1, <1>2, <1>4 DEF IndInv, RetInv
    <2>3. ASSUME collector' = "append"
          PROVE  \E j \in Jobs :
                   /\ worker'[j] = "done" /\ batch' = Produced(j)' /\ NoEntry(j)'
                   /\ \A k \in Jobs \ {j} : worker'[k] = "done" => Block(k)'
      BY <1>1, <1>2, <1>4, <2>3 DEF IndInv, RetInv
    <2>4. QED
      BY <2>1, <2>2, <2>3 DEF RetInv
  <1>6. QED
    BY <1>3, <1>5

(* A goroutine has something to send. *)
LEMMA ProducesKeeps ==
  ASSUME IndInv, NEW j \in Jobs, worker[j] \in {"spec", "read"},
         worker' = [worker EXCEPT ![j] = "send"],
         \/ /\ out' = [out EXCEPT ![j] = <<Entry(j, <<>>, "error")>>]
            /\ failed' = failed \cup {j}
         \/ out' = [out EXCEPT ![j] = Entries(j)] /\ failed' = failed,
         UNCHANGED <<device, mainVars, chanVars>>
  PROVE  IndInv'
  <1>0. TypeOK /\ PhaseInv /\ JobsInv /\ SendInv /\ RetInv
    BY DEF IndInv
  <1>1. /\ Entries(j) \in Seq(EntryType)
        /\ <<Entry(j, <<>>, "error")>> \in Seq(EntryType)
    BY <1>0, EntriesType DEF TypeOK
  <1>2. TypeOK'
    BY <1>0, <1>1 DEF TypeOK, mainVars, chanVars
  <1>3. PhaseInv' /\ JobsInv'
    BY <1>0 DEF TypeOK, PhaseInv, JobsInv, Listing, Succeeded, mainVars, chanVars
  <1>4. \A k \in Jobs \ {j} : /\ Produced(k)' = Produced(k)
                              /\ Block(k)' <=> Block(k)
                              /\ NoEntry(k)' <=> NoEntry(k)
                              /\ out'[k] = out[k] /\ worker'[k] = worker[k]
    BY <1>0, SameBlocks DEF chanVars, TypeOK
  <1>5. NoEntry(j)'
    BY <1>0 DEF RetInv, NoEntry, chanVars
  <1>6. worker'[j] = "send" /\ out'[j] = Produced(j)'
    <2>1. Entries(j)' = Entries(j)
      BY DEF Entries
    <2>2. j \notin failed
      BY <1>0 DEF SendInv
    <2>3. QED
      BY <1>0, <2>1, <2>2 DEF Produced, TypeOK
  <1>7. SendInv'
    <2>1. ASSUME NEW k \in Jobs \ {j}
          PROVE  /\ worker'[k] \in {"none", "spec", "read"} => k \notin failed'
                 /\ worker'[k] = "send" => out'[k] = Produced(k)'
      BY <1>0, <1>4, <2>1 DEF SendInv
    <2>2. QED
      BY <1>6, <2>1 DEF SendInv
  <1>8. RetInv'
    <2>1. collector' = collector /\ batch' = batch
      BY DEF chanVars
    <2>2. \A k \in Jobs : worker'[k] # "done" => NoEntry(k)'
      BY <1>0, <1>4, <1>5 DEF RetInv
    <2>3. collector # "append" => \A k \in Jobs : worker'[k] = "done" => Block(k)'
      BY <1>0, <1>4, <1>6 DEF RetInv
    <2>4. ASSUME collector = "append"
          PROVE  \E h \in Jobs :
                   /\ worker'[h] = "done" /\ batch = Produced(h)' /\ NoEntry(h)'
                   /\ \A k \in Jobs \ {h} : worker'[k] = "done" => Block(k)'
      <3>1. PICK h \in Jobs :
              /\ worker[h] = "done" /\ batch = Produced(h) /\ NoEntry(h)
              /\ \A k \in Jobs \ {h} : worker[k] = "done" => Block(k)
        BY <1>0, <2>4 DEF RetInv
      <3>2. h # j
        BY <3>1
      <3>3. QED
        BY <1>4, <1>6, <3>1, <3>2
    <2>5. QED
      BY <2>1, <2>2, <2>3, <2>4 DEF RetInv
  <1>9. QED
    BY <1>2, <1>3, <1>7, <1>8 DEF IndInv

(* The send of one goroutine is the batch of the collector. *)
LEMMA SendKeeps ==
  ASSUME IndInv, NEW j \in Jobs, Send(j) PROVE IndInv'
  <1>0. TypeOK /\ PhaseInv /\ JobsInv /\ SendInv /\ RetInv
    BY DEF IndInv
  <1>1. worker[j] = "send" /\ ~closed
    BY <1>0 DEF Send, PhaseInv, Succeeded
  <1>2. /\ collector = "recv" /\ collector' = "append" /\ batch' = out[j]
        /\ worker' = [worker EXCEPT ![j] = "done"]
        /\ out' = [out EXCEPT ![j] = <<>>]
        /\ UNCHANGED <<device, pc, err, todo, queue, failed, ret, closed, panic>>
    BY <1>1 DEF Send, mainVars
  <1>3. TypeOK'
    BY <1>0, <1>2 DEF TypeOK
  <1>4. PhaseInv' /\ JobsInv'
    BY <1>0, <1>1, <1>2 DEF TypeOK, PhaseInv, JobsInv, Listing, Succeeded
  <1>5. \A k \in Jobs : /\ Produced(k)' = Produced(k)
                        /\ Block(k)' <=> Block(k)
                        /\ NoEntry(k)' <=> NoEntry(k)
    BY <1>2, SameBlocks
  <1>6. \A k \in Jobs : IF k = j THEN worker'[k] = "done"
                        ELSE worker'[k] = worker[k] /\ out'[k] = out[k]
    BY <1>0, <1>2 DEF TypeOK
  <1>7. SendInv'
    BY <1>0, <1>2, <1>5, <1>6 DEF SendInv
  <1>8. RetInv'
    <2>1. \A k \in Jobs : worker'[k] # "done" => NoEntry(k)'
      BY <1>0, <1>5, <1>6 DEF RetInv
    <2>2. /\ worker'[j] = "done" /\ batch' = Produced(j)' /\ NoEntry(j)'
          /\ \A k \in Jobs \ {j} : worker'[k] = "done" => Block(k)'
      BY <1>0, <1>1, <1>2, <1>5, <1>6 DEF RetInv, SendInv
    <2>3. QED
      BY <1>2, <2>1, <2>2 DEF RetInv
  <1>9. QED
    BY <1>3, <1>4, <1>7, <1>8 DEF IndInv

(* Appending a batch adds the block of one job and leaves the others. *)
LEMMA CollectKeeps ==
  ASSUME IndInv, Collect PROVE IndInv'
  <1>0. TypeOK /\ PhaseInv /\ JobsInv /\ SendInv /\ RetInv
    BY DEF IndInv
  <1>1. /\ collector = "append" /\ collector' = "recv" /\ ret' = ret \o batch
        /\ batch' = <<>>
        /\ UNCHANGED <<device, pc, err, todo, queue, worker, out, failed, closed,
                       panic>>
    BY DEF Collect, mainVars, workVars
  <1>2. TypeOK'
    BY <1>0, <1>1 DEF TypeOK
  <1>3. PhaseInv' /\ JobsInv'
    BY <1>0, <1>1 DEF PhaseInv, JobsInv, Listing, Succeeded
  <1>4. \A k \in Jobs : Produced(k)' = Produced(k)
    BY <1>1 DEF Produced, Entries
  <1>5. SendInv'
    BY <1>0, <1>1, <1>4 DEF SendInv
  <1>6. PICK j \in Jobs :
          /\ worker[j] = "done" /\ batch = Produced(j) /\ NoEntry(j)
          /\ \A k \in Jobs \ {j} : worker[k] = "done" => Block(k)
    BY <1>0, <1>1 DEF RetInv
  <1>7. /\ Len(ret) \in Nat /\ Len(batch) \in Nat
        /\ Len(ret') = Len(ret) + Len(batch)
        /\ \A i \in 1..Len(ret) : ret'[i] = ret[i]
        /\ \A i \in 1..Len(batch) : ret'[Len(ret) + i] = batch[i]
    BY <1>0, <1>1 DEF TypeOK
  <1>8. \A i \in 1..Len(batch) : batch[i].job = j
    BY <1>0, <1>6, ProducedType
  <1>9. \A i \in 1..Len(ret') : \/ i \in 1..Len(ret) /\ ret'[i] = ret[i]
                                \/ i > Len(ret) /\ ret'[i].job = j
    <2>1. ASSUME NEW i \in 1..Len(ret'), i > Len(ret) PROVE ret'[i].job = j
      <3>1. i - Len(ret) \in 1..Len(batch) /\ Len(ret) + (i - Len(ret)) = i
        BY <1>7, <2>1
      <3>2. QED
        BY <1>7, <1>8, <3>1
    <2>2. QED
      BY <1>7, <2>1
  <1>10. Block(j)'
    <2>1. /\ Len(ret) + Len(Produced(j)') <= Len(ret')
          /\ \A i \in 1..Len(Produced(j)') : ret'[Len(ret) + i] = (Produced(j)')[i]
      BY <1>4, <1>6, <1>7
    <2>2. \A i \in 1..Len(ret') : ret'[i].job = j =>
            Len(ret) < i /\ i <= Len(ret) + Len(Produced(j)')
      BY <1>4, <1>6, <1>7, <1>9 DEF NoEntry
    <2>3. QED
      BY <1>7, <2>1, <2>2 DEF Block
  <1>11. ASSUME NEW k \in Jobs \ {j}, Block(k) PROVE Block(k)'
    <2>1. PICK start \in Nat :
            /\ start + Len(Produced(k)) <= Len(ret)
            /\ \A i \in 1..Len(Produced(k)) : ret[start + i] = Produced(k)[i]
            /\ \A i \in 1..Len(ret) :
                 ret[i].job = k => start < i /\ i <= start + Len(Produced(k))
      BY <1>11 DEF Block
    <2>2. Len(Produced(k)) \in Nat
      BY <1>0, ProducedType
    <2>3. start + Len(Produced(k)) <= Len(ret')
      BY <1>7, <2>1, <2>2
    <2>4. ASSUME NEW i \in 1..Len(Produced(k))
          PROVE  ret'[start + i] = Produced(k)[i]
      <3>1. start + i \in 1..Len(ret)
        BY <1>7, <2>1, <2>2
      <3>2. QED
        BY <1>7, <2>1, <3>1
    <2>5. \A i \in 1..Len(ret') :
            ret'[i].job = k => start < i /\ i <= start + Len(Produced(k))
      BY <1>9, <2>1
    <2>6. QED
      BY <1>4, <2>3, <2>4, <2>5 DEF Block
  <1>12. ASSUME NEW k \in Jobs \ {j}, NoEntry(k) PROVE NoEntry(k)'
    BY <1>9, <1>12 DEF NoEntry
  <1>13. RetInv'
    BY <1>0, <1>1, <1>6, <1>10, <1>11, <1>12 DEF RetInv
  <1>14. QED
    BY <1>2, <1>3, <1>5, <1>13 DEF IndInv

(* Every step preserves the inductive invariant. *)
LEMMA StepInd == IndInv /\ [Next]_vars => IndInv'
  <1> SUFFICES ASSUME IndInv, [Next]_vars PROVE IndInv'
    OBVIOUS
  <1>0. TypeOK /\ PhaseInv /\ JobsInv
    BY DEF IndInv
  <1> USE DEF TypeOK, PhaseInv, JobsInv, Listing, Succeeded, mainVars, workVars,
              chanVars
  <1>1. CASE Fails
    <2>1. TypeOK' /\ PhaseInv' /\ JobsInv'
      BY <1>0, <1>1 DEF Fails
    <2>2. SendInv' /\ RetInv'
      BY <1>1, KeepsRet DEF Fails
    <2>3. QED
      BY <2>1, <2>2 DEF IndInv
  <1>2. CASE GetDeviceModelFromServer
    <2>1. TypeOK' /\ PhaseInv' /\ JobsInv'
      BY <1>0, <1>2 DEF GetDeviceModelFromServer
    <2>2. SendInv' /\ RetInv'
      BY <1>2, KeepsRet DEF GetDeviceModelFromServer
    <2>3. QED
      BY <2>1, <2>2 DEF IndInv
  <1>3. CASE GetLogicalDeviceList
    <2>1. TypeOK' /\ PhaseInv'
      BY <1>0, <1>3 DEF GetLogicalDeviceList
    <2>2. JobsInv'
      BY <1>0, <1>3 DEF GetLogicalDeviceList, Jobs
    <2>3. SendInv' /\ RetInv'
      BY <1>0, <1>3, KeepsRet DEF GetLogicalDeviceList
    <2>4. QED
      BY <2>1, <2>2, <2>3 DEF IndInv
  <1>4. ASSUME NEW d \in LDs, ListVariables(d) PROVE IndInv'
    <2>1. /\ pc = "dirs" /\ d \in todo /\ todo' = todo \ {d}
          /\ queue' = queue \cup Hierarchical(d)
          /\ pc' = IF todo' = {} THEN "spawn" ELSE "dirs"
          /\ UNCHANGED <<device, err, worker, out, failed, collector, batch, ret,
                         closed, panic>>
      BY <1>4 DEF ListVariables, IsFirst
    <2>2. queue' = UNION {Hierarchical(e) : e \in LDs \ todo'}
      <3>1. LDs \ todo' = (LDs \ todo) \cup {d}
        BY <2>1
      <3>2. queue = UNION {Hierarchical(e) : e \in LDs \ todo}
        BY <1>0, <2>1
      <3>3. QED
        BY <2>1, <3>1, <3>2
    <2>3. queue' \subseteq Jobs /\ (todo' = {} => queue' = Jobs)
      BY <2>2 DEF Jobs
    <2>4. TypeOK' /\ PhaseInv'
      BY <1>0, <2>1, <2>3
    <2>5. JobsInv'
      BY <1>0, <2>1, <2>2, <2>3
    <2>6. SendInv' /\ RetInv'
      BY <2>1, KeepsRet
    <2>7. QED
      BY <2>4, <2>5, <2>6 DEF IndInv
  <1>5. ASSUME NEW j \in Jobs, Spawn(j) PROVE IndInv'
    <2>1. j \in queue /\ worker[j] = "none"
      BY <1>0, <1>5 DEF Spawn, IsNext
    <2>2. TypeOK' /\ PhaseInv'
      BY <1>0, <1>5 DEF Spawn
    <2>3. JobsInv'
      BY <1>0, <1>5, <2>1 DEF Spawn
    <2>4. SendInv' /\ RetInv'
      BY <1>0, <1>5, <2>1, KeepsRet DEF Spawn
    <2>5. QED
      BY <2>2, <2>3, <2>4 DEF IndInv
  <1>6. CASE WaitGroup
    <2>1. \A j \in Jobs : worker[j] = "done"
      BY <1>0, <1>6 DEF WaitGroup, Running
    <2>2. TypeOK' /\ PhaseInv' /\ JobsInv'
      BY <1>0, <1>6, <2>1 DEF WaitGroup
    <2>3. SendInv' /\ RetInv'
      BY <1>6, KeepsRet DEF WaitGroup
    <2>4. QED
      BY <2>2, <2>3 DEF IndInv
  <1>7. CASE Close
    <2>1. TypeOK' /\ PhaseInv' /\ JobsInv'
      BY <1>0, <1>7 DEF Close
    <2>2. SendInv' /\ RetInv'
      BY <1>7, KeepsRet DEF Close
    <2>3. QED
      BY <2>1, <2>2 DEF IndInv
  <1>8. CASE Return
    <2>1. TypeOK' /\ PhaseInv' /\ JobsInv'
      BY <1>0, <1>8 DEF Return
    <2>2. SendInv' /\ RetInv'
      BY <1>8, KeepsRet DEF Return
    <2>3. QED
      BY <2>1, <2>2 DEF IndInv
  <1>9. ASSUME NEW j \in Jobs, RequestFails(j) \/ ReadAndWalk(j) PROVE IndInv'
    BY <1>9, ProducesKeeps DEF RequestFails, ReadAndWalk
  <1>10. ASSUME NEW j \in Jobs, GetVariableSpecification(j) PROVE IndInv'
    <2>1. TypeOK' /\ PhaseInv' /\ JobsInv'
      BY <1>0, <1>10 DEF GetVariableSpecification
    <2>2. SendInv' /\ RetInv'
      BY <1>0, <1>10, KeepsRet DEF GetVariableSpecification
    <2>3. QED
      BY <2>1, <2>2 DEF IndInv
  <1>11. ASSUME NEW j \in Jobs, Send(j) PROVE IndInv'
    BY <1>11, SendKeeps
  <1>12. CASE Collect
    BY <1>12, CollectKeeps
  <1>13. CASE CollectorEnds
    <2>1. TypeOK' /\ PhaseInv' /\ JobsInv'
      BY <1>0, <1>13 DEF CollectorEnds
    <2>2. SendInv' /\ RetInv'
      BY <1>13, KeepsRet DEF CollectorEnds
    <2>3. QED
      BY <2>1, <2>2 DEF IndInv
  <1>14. CASE UNCHANGED vars
    <2>1. TypeOK' /\ PhaseInv' /\ JobsInv'
      BY <1>0, <1>14 DEF vars
    <2>2. SendInv' /\ RetInv'
      BY <1>14, KeepsRet DEF vars
    <2>3. QED
      BY <2>1, <2>2 DEF IndInv
  <1>15. QED
    BY <1>1, <1>2, <1>3, <1>4, <1>5, <1>6, <1>7, <1>8, <1>9, <1>10, <1>11, <1>12,
       <1>13, <1>14 DEF Next, MainStep, WorkerStep

-----------------------------------------------------------------------------
(* The inductive invariant holds in every reachable state. *)
THEOREM Invariance == Safety => []IndInv
  BY InitInd, StepInd, PTL DEF Safety

(* GetVariableValues never makes a goroutine send on the closed channel,   *)
(* and leaves no goroutine behind once it has started some, however many   *)
(* there are and however many run at a time.                               *)
THEOREM NothingIsLeft == Safety => []NothingLeft
  <1>1. IndInv => NothingLeft
    BY DEF IndInv, TypeOK, PhaseInv, JobsInv, Listing, Succeeded, NothingLeft,
           Running
  <1>2. QED
    BY <1>1, Invariance, PTL

(* A call that succeeds returns what the goroutine of every logical node   *)
(* and functional constraint has sent.                                     *)
Gathered == Succeeded => \A j \in Jobs : Block(j)

(* The result of GetVariableValues has the entries of every job once, in   *)
(* order and unmixed with others, although goroutines of unknown number    *)
(* append to it through a channel: ret is read only when the collector is  *)
(* through.                                                                *)
THEOREM EveryJobOnce == Safety => []Gathered
  <1>1. IndInv => Gathered
    BY DEF IndInv, PhaseInv, JobsInv, RetInv, Succeeded, Gathered
  <1>2. QED
    BY <1>1, Invariance, PTL

=============================================================================
