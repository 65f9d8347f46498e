-------------------------------- MODULE StatDR --------------------------------
(***************************************************************************)
(* Picking a buffered report control block (client_statdr.go) with the     *)
(* setters of client_rcb.go.                                               *)
(*                                                                         *)
(* A session is one goroutine of one client that walks the report control  *)
(* blocks of a logical node in the order the server lists them, skips the  *)
(* ones with another name or data set, tries to disable a block that is    *)
(* enabled, writes trigger options, buffer time and GI, and enables the    *)
(* block.  The first block that can be enabled is returned with a cleanup  *)
(* function.  Every read and write is a request of its own, so sessions of *)
(* all clients interleave between any two of them.                         *)
(*                                                                         *)
(* The server is external, and modelled as the server of the same library: *)
(* a block with an owner refuses every other client; a successful write    *)
(* makes the writer the owner; an enabled block refuses every write but    *)
(* RptEna = false and GI, a disabled one refuses GI; the reservation of a  *)
(* disabled block expires.                                                 *)
(***************************************************************************)
EXTENDS Naturals

CONSTANTS
  Clients,   \* connections
  Workers,   \* goroutines that pick blocks on one connection
  N,         \* the server lists blocks 1..N of the logical node
  Foreign,   \* blocks whose name lacks the prefix rcbStatDR
  Faults,    \* "fail": a request fails; "lost": only its answer is lost
  None       \* no client

ASSUME StatDRAssumption ==
  /\ N \in Nat
  /\ Foreign \subseteq 1..N
  /\ Faults \subseteq {"fail", "lost"}
  /\ None \notin Clients
  /\ None \notin Clients \X Workers

VARIABLES
  blk,    \* blk[b]: report control block b of the server
  pc,     \* pc[s]: the next request of session s
  cur,    \* cur[s]: the block it is looking at
  gone    \* clients whose connection the server has still to notice is lost

vars == <<blk, pc, cur, gone>>

Blocks == 1..N
Sessions == Clients \X Workers
Client(s) == s[1]
DataSets == {"wanted", "other"}

BlockType == [ena : BOOLEAN, owner : Clients \cup {None}, dat : DataSets,
              trg : BOOLEAN, gi : BOOLEAN]

Picking == {"list", "next", "read", "disable", "reread", "trg", "buf", "gi",
            "enable"}
Labels == Picking \cup {"idle", "held", "unsure", "failed", "gone"}

(* The type invariant. *)
TypeOK ==
  /\ blk \in [Blocks -> BlockType]
  /\ pc \in [Sessions -> Labels]
  /\ cur \in [Sessions -> 0..N + 1]
  /\ \A s \in Sessions :
       pc[s] \notin {"idle", "list", "next", "failed", "gone"} => cur[s] \in Blocks
  /\ gone \subseteq Clients

Init ==
  /\ blk \in [Blocks -> {[ena |-> FALSE, owner |-> None, dat |-> d,
                          trg |-> FALSE, gi |-> FALSE] : d \in DataSets}]
  /\ pc = [s \in Sessions |-> "idle"]
  /\ cur = [s \in Sessions |-> 0]
  /\ gone = {}

Goto(s, label) == pc' = [pc EXCEPT ![s] = label]

-----------------------------------------------------------------------------
(* Requests.                                                               *)

(* A read of block b; the session continues at label if it is answered.    *)
Read(s, label, err) ==
  /\ \/ Goto(s, label)
     \/ Faults # {} /\ Goto(s, err)
  /\ UNCHANGED <<blk, cur, gone>>

(* The server lets a client write a block that nobody else has reserved. *)
Mine(s, b) == blk[b].owner \in {Client(s), None}

(* A write that turns block b into new, if the server allows it. *)
Write(s, b, allowed, new, ok, err) ==
  /\ \/ /\ allowed
        /\ blk' = [blk EXCEPT ![b] = [new EXCEPT !.owner = Client(s)]]
        /\ Goto(s, ok)
     \/ /\ ~allowed \/ "fail" \in Faults
        /\ UNCHANGED blk
        /\ Goto(s, err)
     \/ /\ allowed /\ "lost" \in Faults
        /\ blk' = [blk EXCEPT ![b] = [new EXCEPT !.owner = Client(s)]]
        /\ Goto(s, err)
  /\ UNCHANGED <<cur, gone>>

(* SetRptEna(ref, false) on a block that is already disabled is accepted   *)
(* as well.                                                                *)
DisableWrite(s, ok, err) ==
  Write(s, cur[s], Mine(s, cur[s]), [blk[cur[s]] EXCEPT !.ena = FALSE], ok, err)

(* SetRptEna(ref, true); enabling clears a GI that was requested before. *)
EnableWrite(s, ok, err) ==
  Write(s, cur[s], Mine(s, cur[s]) /\ ~blk[cur[s]].ena,
        [blk[cur[s]] EXCEPT !.ena = TRUE, !.gi = FALSE], ok, err)

-----------------------------------------------------------------------------
(* PickAndEnableStatDRBRCB.                                                *)

(* A session that holds no block calls it. *)
Pick(s) ==
  /\ pc[s] \in {"idle", "failed"} /\ Client(s) \notin gone
  /\ cur' = [cur EXCEPT ![s] = 0]
  /\ Goto(s, "list")
  /\ UNCHANGED <<blk, gone>>

(* GetLogicalNodeDirectory. *)
ListNames(s) == pc[s] = "list" /\ Read(s, "next", "failed")

(* A block that could not be enabled is tried again. *)
MutRetrySame(s) ==
  /\ pc[s] = "next"
  /\ \/ /\ \A b \in Blocks \ Foreign : b < cur[s]
        /\ Goto(s, "failed") /\ UNCHANGED cur
     \/ \E b \in Blocks \ Foreign :
          /\ b >= cur[s] /\ \A c \in Blocks \ Foreign : c >= cur[s] => b <= c
          /\ cur' = [cur EXCEPT ![s] = b] /\ Goto(s, "read")
  /\ UNCHANGED <<blk, gone>>

(* The loop goes on to the next name with the prefix, or ends in an error. *)
NextCandidate(s) ==
  /\ pc[s] = "next"
  /\ \/ /\ \A b \in Blocks \ Foreign : b <= cur[s]
        /\ Goto(s, "failed") /\ UNCHANGED cur
     \/ \E b \in Blocks \ Foreign :
          /\ b > cur[s] /\ \A c \in Blocks \ Foreign : c > cur[s] => b <= c
          /\ cur' = [cur EXCEPT ![s] = b] /\ Goto(s, "read")
  /\ UNCHANGED <<blk, gone>>

(* GetRCBValues: another data set is skipped, an enabled block is first    *)
(* disabled.                                                               *)
ReadBlock(s) ==
  /\ pc[s] = "read"
  /\ LET b == blk[cur[s]]
     IN  Read(s, IF b.dat # "wanted" THEN "next"
                 ELSE IF b.ena THEN "disable" ELSE "trg", "next")

Disable(s) == pc[s] = "disable" /\ DisableWrite(s, "reread", "next")

(* The second GetRCBValues looks at RptEna only. *)
Reread(s) ==
  /\ pc[s] = "reread"
  /\ Read(s, IF blk[cur[s]].ena THEN "next" ELSE "trg", "next")

(* Errors of SetTrgOps, SetBufTm and SetGI are logged and ignored. *)
SetTrgOps(s) ==
  LET b == cur[s]
  IN  /\ pc[s] = "trg"
      /\ Write(s, b, Mine(s, b) /\ ~blk[b].ena, [blk[b] EXCEPT !.trg = TRUE],
               "buf", "buf")

SetBufTm(s) ==
  LET b == cur[s]
  IN  pc[s] = "buf" /\ Write(s, b, Mine(s, b) /\ ~blk[b].ena, blk[b], "gi", "gi")

SetGI(s) ==
  LET b == cur[s]
  IN  /\ pc[s] = "gi"
      /\ Write(s, b, blk[b].owner = Client(s) /\ blk[b].ena,
               [blk[b] EXCEPT !.gi = TRUE], "enable", "enable")

(* The block is returned although it could not be enabled. *)
MutEnable(s) == pc[s] = "enable" /\ EnableWrite(s, "held", "held")

Enable(s) == pc[s] = "enable" /\ EnableWrite(s, "held", "next")

(* A failed cleanup counts as done. *)
MutCleanup(s) == pc[s] \in {"held", "unsure"} /\ DisableWrite(s, "idle", "idle")

(* The cleanup function; the caller sees its error and may call it again. *)
Cleanup(s) == pc[s] \in {"held", "unsure"} /\ DisableWrite(s, "idle", "unsure")

(* A session may give a block another data set; a pick never looks at the  *)
(* data set of a foreign block.                                            *)
SetDataSetReference(s, b, d) ==
  /\ pc[s] \in {"idle", "failed"} /\ Client(s) \notin gone
  /\ Write(s, b, Mine(s, b) /\ ~blk[b].ena, [blk[b] EXCEPT !.dat = d], pc[s], pc[s])

-----------------------------------------------------------------------------
(* The server and the network.                                             *)

(* The reservation time of a disabled block passes. *)
ReservationTimeout(b) ==
  /\ ~blk[b].ena /\ blk[b].owner # None
  /\ blk' = [blk EXCEPT ![b] = [@ EXCEPT !.owner = None]]
  /\ UNCHANGED <<pc, cur, gone>>

(* The connection breaks: every call of the client ends with an error. *)
ClientLost(c) ==
  /\ c \notin gone
  /\ gone' = gone \cup {c}
  /\ pc' = [s \in Sessions |-> IF Client(s) = c THEN "gone" ELSE pc[s]]
  /\ UNCHANGED <<blk, cur>>

(* The server disables the client's blocks; the client connects anew. *)
ServerNotices(c) ==
  /\ c \in gone
  /\ gone' = gone \ {c}
  /\ blk' = [b \in Blocks |-> IF blk[b].owner = c
                              THEN [blk[b] EXCEPT !.ena = FALSE, !.owner = None]
                              ELSE blk[b]]
  /\ pc' = [s \in Sessions |-> IF Client(s) = c THEN "idle" ELSE pc[s]]
  /\ UNCHANGED cur

-----------------------------------------------------------------------------
PickStep(s) ==
  \/ ListNames(s) \/ NextCandidate(s) \/ ReadBlock(s) \/ Disable(s) \/ Reread(s)
  \/ SetTrgOps(s) \/ SetBufTm(s) \/ SetGI(s) \/ Enable(s)

Next ==
  \/ \E s \in Sessions : Pick(s) \/ PickStep(s) \/ Cleanup(s)
  \/ \E s \in Sessions, b \in Blocks \ Foreign, d \in DataSets :
       SetDataSetReference(s, b, d)
  \/ \E b \in Blocks : ReservationTimeout(b)
  \/ \E c \in Clients : ClientLost(c) \/ ServerNotices(c)

(* Every request is answered or times out. *)
Fairness == \A s \in Sessions : WF_vars(PickStep(s))

Safety == Init /\ [][Next]_vars
Spec == Safety /\ Fairness

-----------------------------------------------------------------------------
(* Properties.                                                             *)

(* Session s has been given block b and has not cleaned up. *)
Holds(s, b) == pc[s] = "held" /\ cur[s] = b

(* A block is given to one session at a time: it was free when picked,     *)
(* although the check and the enabling are separate requests.              *)
Exclusive ==
  \A s, t \in Sessions, b \in Blocks : Holds(s, b) /\ Holds(t, b) => s = t

(* A picked block stays enabled for the client that picked it until it is  *)
(* cleaned up: no other pick, which tries to disable enabled blocks, takes *)
(* it away.                                                                *)
HeldEnabled ==
  \A s \in Sessions, b \in Blocks :
    Holds(s, b) => blk[b].ena /\ blk[b].owner = Client(s)

(* An enabled block is known to some session that can still disable it, or *)
(* belongs to a client whose loss the server has still to notice: a pick   *)
(* that fails half way leaves no block enabled that nobody cleans up.      *)
NoOrphan ==
  \A b \in Blocks : blk[b].ena =>
    \/ blk[b].owner \in gone
    \/ \E s \in Sessions : /\ Client(s) = blk[b].owner /\ cur[s] = b
                           /\ pc[s] \in {"held", "unsure"}

(* A pick ends with a block or with an error, whatever other sessions do.  *)
PickEnds == \A s \in Sessions : pc[s] \in Picking ~> pc[s] \notin Picking

(* The sessions of a lost connection do not go on. *)
GoneInv ==
  \A s \in Sessions : Client(s) \in gone => pc[s] = "gone"

(* The inductive invariant. *)
IndInv == TypeOK /\ GoneInv /\ HeldEnabled

(* With one goroutine per connection, picking implements the allocator.    *)
holderBar ==
  [b \in Blocks |-> IF \E s \in Sessions : Holds(s, b)
                    THEN CHOOSE s \in Sessions : Holds(s, b) ELSE None]
Allocator == INSTANCE RcbAllocator
               WITH NoSession <- None, holder <- holderBar
Allocates == Allocator!Spec

=============================================================================
