----------------------------- MODULE StatDRProofs -----------------------------
(***************************************************************************)
(* Proofs about StatDR, for any number of clients and blocks, with failed  *)
(* requests and lost answers.  Exclusive use of a block needs that each    *)
(* connection has one goroutine that picks; that no block is orphaned      *)
(* needs that no answer is lost.  They are hypotheses of the theorems that *)
(* need them.                                                              *)
(***************************************************************************)
EXTENDS StatDR, TLAPS

OneWorker == \A v, w \in Workers : v = w

(* One goroutine per connection: the connection tells the session. *)
LEMMA ClientTellsSession ==
  ASSUME OneWorker, NEW s \in Sessions, NEW t \in Sessions, Client(s) = Client(t)
  PROVE  s = t
  BY DEF OneWorker, Sessions, Client

LEMMA ClientType == \A s \in Sessions : Client(s) \in Clients
  BY DEF Sessions, Client

(* What holds without a hypothesis. *)
Base == TypeOK /\ GoneInv

AnswersArrive == "lost" \notin Faults

(* What becomes of the blocks that sessions hold: those in S give them up, *)
(* or one session that holds nothing takes a block that nobody holds.      *)
Drops(S) ==
  \A t \in Sessions, b \in Blocks : Holds(t, b)' <=> Holds(t, b) /\ t \notin S

Takes(s, b) ==
  /\ \A c \in Blocks : ~Holds(s, c)
  /\ \A t \in Sessions : ~Holds(t, b)
  /\ \A t \in Sessions, c \in Blocks :
       Holds(t, c)' <=> Holds(t, c) \/ (t = s /\ c = b)

DropsOrTakes ==
  \/ \E S \in SUBSET Sessions : Drops(S)
  \/ \E s \in Sessions, b \in Blocks : Takes(s, b)

(* What is shown of every step. *)
Kept ==
  /\ Base'
  /\ OneWorker /\ HeldEnabled => HeldEnabled'
  /\ AnswersArrive /\ NoOrphan => NoOrphan'
  /\ HeldEnabled => DropsOrTakes

(* The block a successful write of session s leaves behind. *)
Owned(new, s) == [new EXCEPT !.owner = Client(s)]

(* What a write to the server does, seen from every session and block. *)
LEMMA WriteEffect ==
  ASSUME TypeOK, NEW s \in Sessions, NEW b \in Blocks, NEW allowed \in BOOLEAN,
         NEW new \in BlockType, NEW ok \in Labels, NEW err \in Labels,
         Write(s, b, allowed, new, ok, err)
  PROVE  /\ cur' = cur /\ gone' = gone
         /\ \/ /\ allowed /\ pc' = [pc EXCEPT ![s] = ok]
               /\ blk' = [blk EXCEPT ![b] = Owned(new, s)]
            \/ pc' = [pc EXCEPT ![s] = err] /\ blk' = blk
            \/ /\ ~AnswersArrive /\ allowed /\ pc' = [pc EXCEPT ![s] = err]
               /\ blk' = [blk EXCEPT ![b] = Owned(new, s)]
         /\ Owned(new, s) \in BlockType
         /\ Owned(new, s).ena = new.ena
         /\ Owned(new, s).owner = Client(s)
         /\ blk' \in [Blocks -> BlockType]
         /\ pc' \in [Sessions -> Labels]
  <1>1. /\ Owned(new, s) \in BlockType
        /\ Owned(new, s).ena = new.ena
        /\ Owned(new, s).owner = Client(s)
    BY ClientType DEF BlockType, Owned
  <1>2. /\ cur' = cur /\ gone' = gone
        /\ \/ /\ allowed /\ pc' = [pc EXCEPT ![s] = ok]
              /\ blk' = [blk EXCEPT ![b] = Owned(new, s)]
           \/ pc' = [pc EXCEPT ![s] = err] /\ blk' = blk
           \/ /\ ~AnswersArrive /\ allowed /\ pc' = [pc EXCEPT ![s] = err]
              /\ blk' = [blk EXCEPT ![b] = Owned(new, s)]
    BY DEF Write, Goto, AnswersArrive, Owned
  <1>3. QED
    BY <1>1, <1>2 DEF TypeOK

(* A write by a session that does not hold a block afterwards, or that has *)
(* just enabled it, keeps what is to be kept.                              *)
LEMMA WriteKeeps ==
  ASSUME Base, NEW s \in Sessions, NEW b \in Blocks, NEW allowed \in BOOLEAN,
         NEW new \in BlockType,
         NEW ok \in Labels \ {"gone"}, NEW err \in Labels \ {"gone", "held"},
         allowed => Mine(s, b),
         ok = "held" => /\ new.ena /\ cur[s] = b /\ pc[s] # "held"
                        /\ allowed => ~blk[b].ena,
         allowed /\ new.ena => \/ ok = "held"
                               \/ blk[b].ena /\ blk[b].owner = Client(s),
         pc[s] \in {"held", "unsure"} => cur[s] = b /\ ~new.ena /\ err = "unsure",
         cur[s] \in Blocks \/ {ok, err} \subseteq {"idle", "list", "next", "failed"},
         Client(s) \notin gone,
         Write(s, b, allowed, new, ok, err)
  PROVE  Kept
  <1> DEFINE own == Owned(new, s)
  <1>1. /\ cur' = cur /\ gone' = gone
        /\ \/ /\ allowed /\ pc' = [pc EXCEPT ![s] = ok]
              /\ blk' = [blk EXCEPT ![b] = own]
           \/ pc' = [pc EXCEPT ![s] = err] /\ blk' = blk
           \/ /\ ~AnswersArrive /\ allowed /\ pc' = [pc EXCEPT ![s] = err]
              /\ blk' = [blk EXCEPT ![b] = own]
        /\ own.ena = new.ena /\ own.owner = Client(s)
        /\ blk' \in [Blocks -> BlockType]
        /\ pc' \in [Sessions -> Labels]
    BY WriteEffect DEF Base
  <1> HIDE DEF own
  <1>2. TypeOK'
    BY <1>1 DEF Base, TypeOK
  <1>3. GoneInv'
    BY <1>1 DEF Base, TypeOK, GoneInv
  <1>4. ASSUME OneWorker, HeldEnabled PROVE HeldEnabled'
    <2> SUFFICES ASSUME NEW t \in Sessions, NEW c \in Blocks, Holds(t, c)'
                 PROVE  blk'[c].ena /\ blk'[c].owner = Client(t)
      BY DEF HeldEnabled
    <2>1. CASE t = s
      <3>1. blk'[b] = own /\ ok = "held" /\ c = b
        BY <1>1, <2>1 DEF Holds, Base, TypeOK
      <3>2. QED
        BY <1>1, <3>1, <2>1
    <2>2. CASE t # s
      <3>1. Holds(t, c)
        BY <1>1, <2>2 DEF Holds, Base, TypeOK
      <3>2. blk[c].ena /\ blk[c].owner = Client(t)
        BY <1>4, <3>1 DEF HeldEnabled
      <3>3. Client(t) # Client(s) /\ Client(t) # None
        BY <1>4, <2>2, ClientTellsSession, ClientType, StatDRAssumption
      <3>4. c = b => ~allowed
        BY <3>2, <3>3 DEF Mine
      <3>5. blk'[c] = blk[c]
        BY <1>1, <3>4 DEF Base, TypeOK
      <3>6. QED
        BY <3>2, <3>5
    <2>3. QED
      BY <2>1, <2>2
  <1>5. ASSUME AnswersArrive, NoOrphan PROVE NoOrphan'
    <2> SUFFICES ASSUME NEW c \in Blocks, blk'[c].ena, blk'[c].owner \notin gone
                 PROVE  \E t \in Sessions : /\ Client(t) = blk'[c].owner /\ cur'[t] = c
                                            /\ pc'[t] \in {"held", "unsure"}
      BY <1>1 DEF NoOrphan
    <2>1. CASE allowed /\ blk' = [blk EXCEPT ![b] = own] /\ pc' = [pc EXCEPT ![s] = ok]
      <3>1. CASE c = b /\ ok = "held"
        BY <1>1, <2>1, <3>1 DEF Base, TypeOK
      <3>2. CASE c # b \/ ok # "held"
        <4>1. blk[c].ena /\ blk[c].owner = blk'[c].owner
          BY <1>1, <2>1, <3>2 DEF Base, TypeOK
        <4>2. PICK t \in Sessions : /\ Client(t) = blk[c].owner /\ cur[t] = c
                                    /\ pc[t] \in {"held", "unsure"}
          BY <1>5, <4>1 DEF NoOrphan
        <4>3. t # s
          BY <1>1, <2>1, <4>2 DEF Base, TypeOK
        <4>4. QED
          BY <1>1, <2>1, <4>1, <4>2, <4>3 DEF Base, TypeOK
      <3>3. QED
        BY <3>1, <3>2
    <2>2. CASE pc' = [pc EXCEPT ![s] = err] /\ blk' = blk
      <3>1. PICK t \in Sessions : /\ Client(t) = blk[c].owner /\ cur[t] = c
                                  /\ pc[t] \in {"held", "unsure"}
        BY <1>5, <2>2 DEF NoOrphan
      <3>2. QED
        BY <1>1, <2>2, <3>1 DEF Base, TypeOK
    <2>3. QED
      BY <1>1, <1>5, <2>1, <2>2
  <1>6. ASSUME HeldEnabled PROVE DropsOrTakes
    <2>1. CASE pc' = [pc EXCEPT ![s] = ok] /\ ok = "held"
      <3>1. allowed /\ ~blk[b].ena
        BY <1>1, <2>1 DEF Base, TypeOK
      <3>2. \A t \in Sessions : ~Holds(t, b)
        BY <1>6, <3>1 DEF HeldEnabled
      <3>3. \A t \in Sessions, c \in Blocks :
              Holds(t, c)' <=> Holds(t, c) \/ (t = s /\ c = b)
        BY <1>1, <2>1 DEF Holds, Base, TypeOK
      <3>4. \A c \in Blocks : ~Holds(s, c)
        BY <2>1 DEF Holds
      <3>5. QED
        BY <3>2, <3>3, <3>4 DEF DropsOrTakes, Takes
    <2>2. CASE ~(pc' = [pc EXCEPT ![s] = ok] /\ ok = "held")
      <3>1. pc'[s] # "held" /\ \A t \in Sessions : t # s => pc'[t] = pc[t]
        BY <1>1, <2>2 DEF Base, TypeOK
      <3>2. Drops({s})
        BY <1>1, <3>1 DEF Drops, Holds
      <3>3. QED
        BY <3>2 DEF DropsOrTakes
    <2>3. QED
      BY <2>1, <2>2
  <1>7. QED
    BY <1>2, <1>3, <1>4, <1>5, <1>6 DEF Kept, Base

(* A step of a session that writes nothing, holds nothing before and does  *)
(* not end in "held".                                                      *)
LEMMA LocalKeeps ==
  ASSUME Base, NEW s \in Sessions, NEW label \in Labels \ {"gone", "held"},
         NEW i \in 0..N + 1,
         i \in Blocks \/ label \in {"idle", "list", "next", "failed"},
         Client(s) \notin gone, pc[s] \notin {"held", "unsure"},
         cur' = [cur EXCEPT ![s] = i], pc' = [pc EXCEPT ![s] = label],
         blk' = blk, gone' = gone
  PROVE  Kept
  <1>1. TypeOK'
    BY DEF Base, TypeOK
  <1>2. GoneInv'
    BY DEF Base, TypeOK, GoneInv
  <1>3. \A t \in Sessions : t # s => pc'[t] = pc[t] /\ cur'[t] = cur[t]
    BY DEF Base, TypeOK
  <1>4. HeldEnabled => HeldEnabled'
    BY <1>3 DEF Base, TypeOK, HeldEnabled, Holds
  <1>5. NoOrphan => NoOrphan'
    <2> SUFFICES ASSUME NoOrphan, NEW b \in Blocks, blk[b].ena, blk[b].owner \notin gone
                 PROVE  \E t \in Sessions : /\ Client(t) = blk[b].owner /\ cur'[t] = b
                                            /\ pc'[t] \in {"held", "unsure"}
      BY DEF NoOrphan
    <2>1. PICK t \in Sessions : /\ Client(t) = blk[b].owner /\ cur[t] = b
                                /\ pc[t] \in {"held", "unsure"}
      BY DEF NoOrphan
    <2>2. QED
      BY <1>3, <2>1
  <1>6. DropsOrTakes
    <2>1. Drops({s})
      BY <1>3 DEF Drops, Holds, Base, TypeOK
    <2>2. QED
      BY <2>1 DEF DropsOrTakes
  <1>7. QED
    BY <1>1, <1>2, <1>4, <1>5, <1>6 DEF Kept, Base

(* The inductive invariant holds initially. *)
LEMMA InitInd == Init => Base /\ HeldEnabled /\ NoOrphan
  <1> SUFFICES ASSUME Init PROVE Base /\ HeldEnabled /\ NoOrphan
    OBVIOUS
  <1> DEFINE fresh(d) == [ena |-> FALSE, owner |-> None, dat |-> d,
                          trg |-> FALSE, gi |-> FALSE]
  <1>0. \A d \in DataSets : fresh(d) \in BlockType
    BY DEF BlockType
  <1>1. blk \in [Blocks -> BlockType]
    <2>1. blk \in [Blocks -> {fresh(d) : d \in DataSets}]
      BY DEF Init
    <2> HIDE DEF fresh
    <2>2. QED
      BY <1>0, <2>1
  <1>2. TypeOK
    BY <1>1, StatDRAssumption DEF Init, TypeOK, Labels
  <1>3. \A b \in Blocks : ~blk[b].ena
    <2>1. ASSUME NEW b \in Blocks PROVE ~blk[b].ena
      <3>1. PICK d \in DataSets : blk[b] = fresh(d)
        BY DEF Init
      <3>2. QED
        BY <3>1
    <2>2. QED
      BY <2>1
  <1>4. QED
    BY <1>2, <1>3 DEF Init, Base, GoneInv, HeldEnabled, Holds, NoOrphan

(* A session that is not finished belongs to a client that is connected. *)
LEMMA Connected ==
  ASSUME Base, NEW s \in Sessions, pc[s] # "gone"
  PROVE  Client(s) \notin gone
  BY DEF Base, GoneInv

(* Every step keeps what is to be kept. *)
LEMMA StepKeeps == Base /\ [Next]_vars => Kept
  <1> SUFFICES ASSUME Base, [Next]_vars PROVE Kept
    OBVIOUS
  <1>t. TypeOK
    BY DEF Base
  <1>b. \A b \in Blocks : blk[b] \in BlockType
    BY <1>t DEF TypeOK
  <1>1. ASSUME NEW s \in Sessions, Pick(s) PROVE Kept
    <2>1. 0 \in 0..N + 1
      BY StatDRAssumption
    <2>2. QED
      BY <1>1, <2>1, LocalKeeps DEF Pick, Goto, Labels, Picking
  <1>2. ASSUME NEW s \in Sessions, ListNames(s) PROVE Kept
    <2>1. Client(s) \notin gone
      BY <1>2, Connected DEF ListNames
    <2>2. cur[s] \in 0..N + 1 /\ cur' = [cur EXCEPT ![s] = cur[s]]
      BY <1>2, <1>t DEF ListNames, Read, TypeOK
    <2>3. QED
      BY <1>2, <2>1, <2>2, LocalKeeps DEF ListNames, Read, Goto, Labels, Picking
  <1>3. ASSUME NEW s \in Sessions, NextCandidate(s) PROVE Kept
    <2>1. Client(s) \notin gone
      BY <1>3, Connected DEF NextCandidate
    <2>2. cur[s] \in 0..N + 1
      BY <1>t DEF TypeOK
    <2>3. CASE UNCHANGED cur
      <3>1. cur' = [cur EXCEPT ![s] = cur[s]]
        BY <2>3, <1>t DEF TypeOK
      <3>2. pc' = [pc EXCEPT ![s] = "failed"] \/ pc' = [pc EXCEPT ![s] = "read"]
        BY <1>3 DEF NextCandidate, Goto
      <3>3. pc' = [pc EXCEPT ![s] = "read"] => cur[s] \in Blocks
        BY <1>3, <2>3, <1>t DEF NextCandidate, TypeOK, Goto
      <3>4. QED
        BY <1>3, <2>1, <2>2, <3>1, <3>2, <3>3, LocalKeeps
           DEF NextCandidate, Labels, Picking
    <2>4. ASSUME NEW b \in Blocks, cur' = [cur EXCEPT ![s] = b], Goto(s, "read")
          PROVE  Kept
      <3>1. b \in 0..N + 1
        BY StatDRAssumption DEF Blocks
      <3>2. QED
        BY <1>3, <2>1, <2>4, <3>1, LocalKeeps DEF NextCandidate, Goto, Labels, Picking
    <2>5. QED
      BY <1>3, <2>3, <2>4 DEF NextCandidate
  <1>4. ASSUME NEW s \in Sessions, ReadBlock(s) \/ Reread(s) PROVE Kept
    <2>1. Client(s) \notin gone
      BY <1>4, Connected DEF ReadBlock, Reread
    <2>2. /\ cur[s] \in Blocks /\ cur[s] \in 0..N + 1
          /\ cur' = [cur EXCEPT ![s] = cur[s]]
      BY <1>4, <1>t DEF ReadBlock, Reread, Read, TypeOK
    <2>3. \E label \in {"next", "disable", "trg"} : pc' = [pc EXCEPT ![s] = label]
      BY <1>4 DEF ReadBlock, Reread, Read, Goto
    <2>4. QED
      BY <1>4, <2>1, <2>2, <2>3, LocalKeeps
         DEF ReadBlock, Reread, Read, Labels, Picking
  <1>5. ASSUME NEW s \in Sessions, Disable(s) \/ Cleanup(s) PROVE Kept
    <2>1. Client(s) \notin gone
      BY <1>5, Connected DEF Disable, Cleanup
    <2>2. cur[s] \in Blocks
      BY <1>5, <1>t DEF Disable, Cleanup, TypeOK
    <2> DEFINE new == [blk[cur[s]] EXCEPT !.ena = FALSE]
               may == Mine(s, cur[s])
    <2>3. new \in BlockType /\ ~new.ena
      BY <1>b, <2>2 DEF BlockType
    <2>4. may \in BOOLEAN /\ (may => Mine(s, cur[s]))
      BY DEF Mine
    <2>5. \/ pc[s] = "disable" /\ Write(s, cur[s], may, new, "reread", "next")
          \/ Write(s, cur[s], may, new, "idle", "unsure")
      BY <1>5 DEF Disable, Cleanup, DisableWrite
    <2> HIDE DEF new, may
    <2>6. QED
      BY <2>1, <2>2, <2>3, <2>4, <2>5, WriteKeeps DEF Labels, Picking
  <1>6. ASSUME NEW s \in Sessions, Enable(s) PROVE Kept
    <2> DEFINE new == [blk[cur[s]] EXCEPT !.ena = TRUE, !.gi = FALSE]
               may == Mine(s, cur[s]) /\ ~blk[cur[s]].ena
    <2>1. Client(s) \notin gone
      BY <1>6, Connected DEF Enable
    <2>2. cur[s] \in Blocks
      BY <1>6, <1>t DEF Enable, TypeOK
    <2>3. new \in BlockType /\ new.ena
      BY <1>b, <2>2 DEF BlockType
    <2>4. may \in BOOLEAN /\ (may => Mine(s, cur[s]) /\ ~blk[cur[s]].ena)
      BY DEF Mine
    <2>5. pc[s] = "enable" /\ Write(s, cur[s], may, new, "held", "next")
      BY <1>6 DEF Enable, EnableWrite
    <2> HIDE DEF new, may
    <2>6. QED
      BY <2>1, <2>2, <2>3, <2>4, <2>5, WriteKeeps DEF Labels, Picking
  <1>7. ASSUME NEW s \in Sessions, SetTrgOps(s) \/ SetBufTm(s) \/ SetGI(s)
        PROVE  Kept
    <2> DEFINE b == cur[s]
    <2>1. Client(s) \notin gone
      BY <1>7, Connected DEF SetTrgOps, SetBufTm, SetGI
    <2>2. b \in Blocks
      BY <1>7, <1>t DEF SetTrgOps, SetBufTm, SetGI, TypeOK
    <2> DEFINE Setter(new, may, label) ==
                 /\ may => Mine(s, b)
                 /\ may /\ new.ena => blk[b].ena /\ blk[b].owner = Client(s)
                 /\ Write(s, b, may, new, label, label)
    <2>3. \E new \in BlockType, may \in BOOLEAN, label \in {"buf", "gi", "enable"} :
            Setter(new, may, label)
      <3>1. CASE SetTrgOps(s)
        <4> DEFINE new == [blk[b] EXCEPT !.trg = TRUE]
                   may == Mine(s, b) /\ ~blk[b].ena
        <4>1. new \in BlockType /\ new.ena = blk[b].ena
          BY <1>b, <2>2 DEF BlockType
        <4>2. may \in BOOLEAN /\ (may => Mine(s, b) /\ ~blk[b].ena)
          OBVIOUS
        <4>3. Write(s, b, may, new, "buf", "buf")
          BY <3>1 DEF SetTrgOps
        <4> HIDE DEF new, may
        <4>4. QED
          BY <4>1, <4>2, <4>3
      <3>2. CASE SetBufTm(s)
        <4> DEFINE may == Mine(s, b) /\ ~blk[b].ena
        <4>1. may \in BOOLEAN /\ (may => Mine(s, b) /\ ~blk[b].ena)
          OBVIOUS
        <4>2. Write(s, b, may, blk[b], "gi", "gi")
          BY <3>2 DEF SetBufTm
        <4> HIDE DEF may
        <4>3. QED
          BY <1>b, <2>2, <4>1, <4>2
      <3>3. CASE SetGI(s)
        <4> DEFINE new == [blk[b] EXCEPT !.gi = TRUE]
                   may == blk[b].owner = Client(s) /\ blk[b].ena
        <4>1. new \in BlockType
          BY <1>b, <2>2 DEF BlockType
        <4>2. /\ may \in BOOLEAN
              /\ may => Mine(s, b) /\ blk[b].ena /\ blk[b].owner = Client(s)
          BY DEF Mine
        <4>3. Write(s, b, may, new, "enable", "enable")
          BY <3>3 DEF SetGI
        <4> HIDE DEF new, may
        <4>4. QED
          BY <4>1, <4>2, <4>3
      <3>4. QED
        BY <1>7, <3>1, <3>2, <3>3
    <2>4. PICK new \in BlockType, may \in BOOLEAN, label \in {"buf", "gi", "enable"} :
            Setter(new, may, label)
      BY <2>3
    <2>5. pc[s] \in {"trg", "buf", "gi"}
      BY <1>7 DEF SetTrgOps, SetBufTm, SetGI
    <2>6. QED
      BY <2>1, <2>2, <2>4, <2>5, WriteKeeps DEF Labels, Picking
  <1>8. ASSUME NEW s \in Sessions, NEW b \in Blocks, NEW d \in DataSets,
               SetDataSetReference(s, b, d)
        PROVE  Kept
    <2> DEFINE new == [blk[b] EXCEPT !.dat = d]
               may == Mine(s, b) /\ ~blk[b].ena
    <2>1. new \in BlockType /\ new.ena = blk[b].ena
      BY <1>b DEF BlockType
    <2>2. may \in BOOLEAN /\ (may => Mine(s, b) /\ ~blk[b].ena)
      OBVIOUS
    <2>3. Write(s, b, may, new, pc[s], pc[s]) /\ Client(s) \notin gone
      BY <1>8 DEF SetDataSetReference
    <2>4. pc[s] \in {"idle", "failed"}
      BY <1>8 DEF SetDataSetReference
    <2> HIDE DEF new, may
    <2>5. QED
      BY <2>1, <2>2, <2>3, <2>4, WriteKeeps DEF Labels, Picking
  <1>9. ASSUME NEW b \in Blocks, ReservationTimeout(b) PROVE Kept
    <2> DEFINE free == [blk[b] EXCEPT !.owner = None]
    <2>1. free \in BlockType /\ free.ena = blk[b].ena
      BY <1>b DEF BlockType
    <2>2. /\ blk' = [blk EXCEPT ![b] = free] /\ ~blk[b].ena
          /\ pc' = pc /\ cur' = cur /\ gone' = gone
      BY <1>9 DEF ReservationTimeout
    <2> HIDE DEF free
    <2>3. TypeOK'
      BY <1>t, <2>1, <2>2 DEF TypeOK
    <2>4. \A c \in Blocks : blk'[c] = blk[c] \/ (~blk[c].ena /\ ~blk'[c].ena)
      BY <2>1, <2>2, <1>t DEF TypeOK
    <2>5. GoneInv' /\ (HeldEnabled => HeldEnabled') /\ (NoOrphan => NoOrphan')
      BY <2>2, <2>4 DEF Base, GoneInv, HeldEnabled, Holds, NoOrphan
    <2>6. Drops({})
      BY <2>2 DEF Drops, Holds
    <2>7. QED
      BY <2>3, <2>5, <2>6 DEF Base, Kept, DropsOrTakes
  <1>10. ASSUME NEW c \in Clients, ClientLost(c) PROVE Kept
    <2>1. TypeOK'
      BY <1>10, <1>t DEF ClientLost, TypeOK, Labels
    <2>2. /\ blk' = blk /\ cur' = cur /\ gone' = gone \cup {c}
          /\ \A t \in Sessions : pc'[t] = IF Client(t) = c THEN "gone" ELSE pc[t]
      BY <1>10 DEF ClientLost
    <2>3. GoneInv' /\ (HeldEnabled => HeldEnabled')
      BY <2>2 DEF Base, GoneInv, HeldEnabled, Holds
    <2>4. NoOrphan => NoOrphan'
      BY <2>2 DEF NoOrphan
    <2>5. Drops({t \in Sessions : Client(t) = c})
      BY <2>2 DEF Drops, Holds
    <2>6. QED
      BY <2>1, <2>3, <2>4, <2>5 DEF Base, Kept, DropsOrTakes
  <1>11. ASSUME NEW c \in Clients, ServerNotices(c) PROVE Kept
    <2> DEFINE Off(b) == [blk[b] EXCEPT !.ena = FALSE, !.owner = None]
    <2>1. \A b \in Blocks : Off(b) \in BlockType /\ ~Off(b).ena
      BY <1>b DEF BlockType
    <2>2. /\ cur' = cur /\ gone' = gone \ {c} /\ c \in gone
          /\ blk' = [b \in Blocks |-> IF blk[b].owner = c THEN Off(b) ELSE blk[b]]
          /\ pc' = [s \in Sessions |-> IF Client(s) = c THEN "idle" ELSE pc[s]]
      BY <1>11 DEF ServerNotices
    <2> HIDE DEF Off
    <2>3. TypeOK'
      BY <1>t, <2>1, <2>2 DEF TypeOK, Labels
    <2>4. \A t \in Sessions : \/ Client(t) = c /\ pc[t] = "gone" /\ pc'[t] = "idle"
                              \/ Client(t) # c /\ pc'[t] = pc[t]
      BY <2>2 DEF Base, GoneInv
    <2>5. \A b \in Blocks : \/ blk[b].owner = c /\ ~blk'[b].ena
                            \/ blk[b].owner # c /\ blk'[b] = blk[b]
      BY <2>1, <2>2
    <2>6. GoneInv' /\ (HeldEnabled => HeldEnabled')
      BY <2>2, <2>4, <2>5 DEF Base, GoneInv, HeldEnabled, Holds
    <2>7. NoOrphan => NoOrphan'
      <3> SUFFICES ASSUME NoOrphan, NEW b \in Blocks, blk'[b].ena,
                          blk'[b].owner \notin gone'
                   PROVE  \E t \in Sessions : /\ Client(t) = blk'[b].owner
                                              /\ cur'[t] = b
                                              /\ pc'[t] \in {"held", "unsure"}
        BY DEF NoOrphan
      <3>1. blk'[b] = blk[b] /\ blk[b].owner # c /\ blk[b].owner \notin gone
        BY <2>2, <2>5
      <3>2. PICK t \in Sessions : /\ Client(t) = blk[b].owner /\ cur[t] = b
                                  /\ pc[t] \in {"held", "unsure"}
        BY <3>1 DEF NoOrphan
      <3>3. QED
        BY <2>2, <2>4, <3>1, <3>2
    <2>8. Drops({})
      BY <2>2, <2>4 DEF Drops, Holds
    <2>9. QED
      BY <2>3, <2>6, <2>7, <2>8 DEF Base, Kept, DropsOrTakes
  <1>12. CASE UNCHANGED vars
    <2>1. Base' /\ (HeldEnabled => HeldEnabled') /\ (NoOrphan => NoOrphan')
      BY <1>12 DEF vars, Base, TypeOK, GoneInv, HeldEnabled, Holds, NoOrphan
    <2>2. Drops({})
      BY <1>12 DEF vars, Drops, Holds
    <2>3. QED
      BY <2>1, <2>2 DEF Kept, DropsOrTakes
  <1>13. QED
    BY <1>1, <1>2, <1>3, <1>4, <1>5, <1>6, <1>7, <1>8, <1>9, <1>10, <1>11, <1>12
       DEF Next, PickStep

(* With one goroutine per connection the inductive invariant holds in      *)
(* every reachable state.                                                  *)
THEOREM Invariance ==
  ASSUME OneWorker PROVE Safety => []IndInv
  <1>1. Init => IndInv
    BY InitInd DEF Base, IndInv
  <1>2. IndInv /\ [Next]_vars => IndInv'
    BY StepKeeps DEF Base, IndInv, Kept
  <1>3. QED
    BY <1>1, <1>2, PTL DEF Safety

(* A picked block stays enabled for the client that picked it, whatever    *)
(* other clients do and however requests fail.                             *)
THEOREM PickedStaysEnabled ==
  ASSUME OneWorker PROVE Safety => []HeldEnabled
  <1>1. IndInv => HeldEnabled
    BY DEF IndInv
  <1>2. QED
    BY <1>1, Invariance, PTL

LEMMA IndExclusive ==
  ASSUME OneWorker, IndInv PROVE Exclusive
  <1> SUFFICES ASSUME NEW s \in Sessions, NEW t \in Sessions,
                      NEW b \in Blocks, Holds(s, b), Holds(t, b)
               PROVE  s = t
    BY DEF Exclusive
  <1>1. Client(s) = Client(t)
    BY DEF IndInv, HeldEnabled
  <1>2. QED
    BY <1>1, ClientTellsSession

(* No block is returned to two sessions. *)
THEOREM PickIsExclusive ==
  ASSUME OneWorker PROVE Safety => []Exclusive
  <1>1. IndInv => Exclusive
    BY IndExclusive
  <1>2. QED
    BY <1>1, Invariance, PTL

(* If answers arrive, every enabled block is known to a session that can   *)
(* still disable it or belongs to a lost client, however many goroutines   *)
(* of a connection pick and however many requests fail.                    *)
THEOREM NothingOrphaned ==
  ASSUME AnswersArrive PROVE Safety => []NoOrphan
  <1>1. Init => Base /\ NoOrphan
    BY InitInd
  <1>2. Base /\ NoOrphan /\ [Next]_vars => (Base /\ NoOrphan)'
    BY StepKeeps DEF Kept
  <1>3. QED
    BY <1>1, <1>2, PTL DEF Safety

-----------------------------------------------------------------------------
(* Refinement of the allocator.                                            *)

NoneIsNoSession == None \notin Sessions

LEMMA NoneNotSession == NoneIsNoSession
  BY StatDRAssumption DEF NoneIsNoSession, Sessions

(* If blocks are used exclusively, the mapped holder of a block is the     *)
(* session that holds it.                                                  *)
LEMMA HolderIs ==
  ASSUME Exclusive, NEW b \in Blocks
  PROVE  /\ \A s \in Sessions : holderBar[b] = s <=> Holds(s, b)
         /\ holderBar[b] = None <=> \A s \in Sessions : ~Holds(s, b)
  <1>1. CASE \E s \in Sessions : Holds(s, b)
    <2>1. holderBar[b] = CHOOSE s \in Sessions : Holds(s, b)
      BY <1>1 DEF holderBar
    <2>2. holderBar[b] \in Sessions /\ Holds(holderBar[b], b)
      BY <1>1, <2>1
    <2>3. QED
      BY <1>1, <2>2, NoneNotSession DEF Exclusive, NoneIsNoSession
  <1>2. CASE ~\E s \in Sessions : Holds(s, b)
    <2>1. holderBar[b] = None
      BY <1>2 DEF holderBar
    <2>2. QED
      BY <1>2, <2>1, NoneNotSession DEF NoneIsNoSession
  <1>3. QED
    BY <1>1, <1>2

(* The same in the next state. *)
LEMMA HolderIsNext ==
  ASSUME Exclusive', NEW b \in Blocks
  PROVE  /\ \A s \in Sessions : holderBar'[b] = s <=> Holds(s, b)'
         /\ holderBar'[b] = None <=> \A s \in Sessions : ~Holds(s, b)'
  <1>1. CASE \E s \in Sessions : Holds(s, b)'
    <2>1. holderBar'[b] = CHOOSE s \in Sessions : Holds(s, b)'
      BY <1>1 DEF holderBar
    <2>2. \E s \in Sessions : holderBar'[b] = s /\ Holds(s, b)'
      BY <1>1, <2>1
    <2>3. PICK s \in Sessions : holderBar'[b] = s /\ Holds(s, b)'
      BY <2>2
    <2>4. \A t \in Sessions : Holds(t, b)' <=> t = s
      BY <2>3 DEF Exclusive
    <2>5. QED
      BY <2>3, <2>4, NoneNotSession DEF NoneIsNoSession
  <1>2. CASE ~\E s \in Sessions : Holds(s, b)'
    <2>1. holderBar'[b] = None
      BY <1>2 DEF holderBar
    <2>2. QED
      BY <1>2, <2>1, NoneNotSession DEF NoneIsNoSession
  <1>3. QED
    BY <1>1, <1>2

(* Giving blocks up is a release of the allocator. *)
LEMMA DropsReleases ==
  ASSUME Exclusive, Exclusive', NEW S \in SUBSET Sessions, Drops(S)
  PROVE  Allocator!Release(S)
  <1>1. \A b \in Blocks :
          holderBar'[b] = IF holderBar[b] \in S THEN None ELSE holderBar[b]
    <2> SUFFICES ASSUME NEW b \in Blocks
                 PROVE  holderBar'[b] = IF holderBar[b] \in S THEN None
                                        ELSE holderBar[b]
      OBVIOUS
    <2>1. /\ \A s \in Sessions : holderBar[b] = s <=> Holds(s, b)
          /\ holderBar[b] = None <=> \A s \in Sessions : ~Holds(s, b)
      BY HolderIs
    <2>2. /\ \A s \in Sessions : holderBar'[b] = s <=> Holds(s, b)'
          /\ holderBar'[b] = None <=> \A s \in Sessions : ~Holds(s, b)'
      BY HolderIsNext
    <2>3. \A s \in Sessions : Holds(s, b)' <=> Holds(s, b) /\ s \notin S
      BY DEF Drops
    <2>4. QED
      BY <2>1, <2>2, <2>3, NoneNotSession DEF NoneIsNoSession
  <1>2. holderBar' = [b \in Blocks |-> holderBar'[b]]
    BY DEF holderBar
  <1>3. QED
    BY <1>1, <1>2 DEF Allocator!Release

(* Taking a block is an acquisition of the allocator. *)
LEMMA TakesAcquires ==
  ASSUME Exclusive, Exclusive', NEW s \in Sessions, NEW b \in Blocks, Takes(s, b)
  PROVE  Allocator!Acquire(s, b)
  <1>1. holderBar[b] = None /\ \A c \in Blocks : holderBar[c] # s
    BY HolderIs DEF Takes
  <1>2. \A c \in Blocks : holderBar'[c] = IF c = b THEN s ELSE holderBar[c]
    <2> SUFFICES ASSUME NEW c \in Blocks
                 PROVE  holderBar'[c] = IF c = b THEN s ELSE holderBar[c]
      OBVIOUS
    <2>1. /\ \A t \in Sessions : holderBar[c] = t <=> Holds(t, c)
          /\ holderBar[c] = None <=> \A t \in Sessions : ~Holds(t, c)
      BY HolderIs
    <2>2. /\ \A t \in Sessions : holderBar'[c] = t <=> Holds(t, c)'
          /\ holderBar'[c] = None <=> \A t \in Sessions : ~Holds(t, c)'
      BY HolderIsNext
    <2>3. \A t \in Sessions : Holds(t, c)' <=> Holds(t, c) \/ (t = s /\ c = b)
      BY DEF Takes
    <2>4. QED
      BY <2>1, <2>2, <2>3
  <1>3. /\ holderBar' = [c \in Blocks |-> holderBar'[c]]
        /\ holderBar = [c \in Blocks |-> holderBar[c]]
    BY DEF holderBar
  <1>4. holderBar' = [holderBar EXCEPT ![b] = s]
    BY <1>2, <1>3
  <1>5. QED
    BY <1>1, <1>4 DEF Allocator!Acquire

(* With one goroutine per connection, PickAndEnableStatDRBRCB, a sequence  *)
(* of some ten requests that any other client may interleave with, is one  *)
(* atomic acquisition of a free block, and the cleanup function or the     *)
(* loss of the client its release.                                         *)
THEOREM PickAllocates ==
  ASSUME OneWorker PROVE Safety => Allocates
  <1>1. Init => Allocator!Init
    <2> SUFFICES ASSUME Init PROVE holderBar = [b \in Blocks |-> None]
      BY DEF Allocator!Init
    <2>1. \A s \in Sessions, b \in Blocks : ~Holds(s, b)
      BY DEF Init, Holds
    <2>2. QED
      BY <2>1 DEF holderBar
  <1>2. IndInv /\ IndInv' /\ [Next]_vars => [Allocator!Next]_holderBar
    <2> SUFFICES ASSUME IndInv, IndInv', [Next]_vars
                 PROVE  Allocator!Next
      OBVIOUS
    <2>1. Exclusive
      BY IndExclusive
    <2>2. Exclusive'
      <3> SUFFICES ASSUME NEW s \in Sessions, NEW t \in Sessions,
                          NEW b \in Blocks, Holds(s, b)', Holds(t, b)'
                   PROVE  s = t
        BY DEF Exclusive
      <3>1. Client(s) = Client(t)
        BY DEF IndInv, HeldEnabled
      <3>2. QED
        BY <3>1, ClientTellsSession
    <2>3. DropsOrTakes
      BY StepKeeps DEF IndInv, Base, Kept
    <2>4. QED
      BY <2>1, <2>2, <2>3, DropsReleases, TakesAcquires
         DEF DropsOrTakes, Allocator!Next
  <1>3. QED
    BY <1>1, <1>2, Invariance, PTL DEF Safety, Allocates, Allocator!Spec

=============================================================================
