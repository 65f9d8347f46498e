------------------------- MODULE ControlBlocksProofs -------------------------
(***************************************************************************)
(* Proofs about ControlBlocks, for any files: any number of logical nodes, *)
(* with any number of blocks of each kind.                                 *)
(***************************************************************************)
EXTENDS ControlBlocks, FiniteSetTheorems, TLAPS

(* Every GSEControl whose access point is there has its GSE element, and a *)
(* node has at most one SettingControl, as the schema of SCL says.  Nothing*)
(* in the parser or the generator makes sure of either.                    *)
WrittenAsListed ==
  \A f \in Inputs : \A n \in DOMAIN f.nodes :
    /\ f.comm = "ap" => \A i \in DOMAIN f.nodes[n].gse : f.nodes[n].gse[i]
    /\ f.nodes[n].sgcb <= 1

Name == Nat \X Nat
Def == [name : Name, next : Name]

TypeOK ==
  /\ scl \in Inputs
  /\ phase \in {"parse", "select", "sets", "list", "print", "done", "rejected",
                "panic"}
  /\ node \in 1..Len(scl.nodes) + 1
  /\ printing \in 1..6
  /\ names \in [Kinds -> Seq(Name)]
  /\ number \in [Kinds -> Nat]
  /\ defs \in [Kinds -> Seq(Def)]

(* What the print phase meets has passed the parser. *)
AcceptedInv ==
  phase \notin {"parse", "rejected"} => \A n \in Nodes : ParserAccepts(LN(n))

(* How many blocks of a kind the nodes of a file have in the list. *)
Counts(f, k) == [n \in 1..Len(f.nodes) |-> Listed(f.nodes[n], k)]

(* The list s has the names of the nodes before m, node by node: the c[n]  *)
(* names of node n follow the first off[n].                                *)
Laid(c, s, m, off) ==
  /\ off[1] = 0
  /\ off[m] = Len(s)
  /\ \A n \in 1..m : off[n] <= Len(s)
  /\ \A n \in 1..m - 1 : off[n + 1] = off[n] + c[n]
  /\ \A n \in 1..m - 1 : \A j \in 1..c[n] : s[off[n] + j] = <<n, j>>

(* A name occurs once. *)
Fresh(s, m) == IsInjective(s) /\ \A i \in 1..Len(s) : s[i][1] < m

ListedTo(c, s, m) == Fresh(s, m) /\ \E off \in [1..m -> Nat] : Laid(c, s, m, off)

(* A counter with value num is where the names of node pos begin. *)
Following(c, s, m, num, pos) ==
  /\ Fresh(s, m)
  /\ \E off \in [1..m -> Nat] : Laid(c, s, m, off) /\ num = off[pos]

End == Len(scl.nodes) + 1

(* The node whose blocks of kind k are written next. *)
Position(k) ==
  IF \E i \in 1..6 : Order[i] = k /\ i < printing THEN node + 1 ELSE node

(* What is written is the beginning of the list. *)
Link(s, d) ==
  /\ Len(d) <= Len(s)
  /\ \A i \in 1..Len(d) :
       d[i] = [name |-> s[i], next |-> IF i < Len(s) THEN s[i + 1] ELSE Null]

(* The list is there and written. *)
Complete(k) == Fresh(names[k], End) /\ Len(defs[k]) = Len(names[k])

(* Where the passes are with kind k. *)
PassInv(k) ==
  /\ phase \in {"parse", "select"} => names[k] = <<>> /\ node = 1
  /\ phase \in {"parse", "select", "sets"} => defs[k] = <<>>
  /\ phase = "sets" => IF k = "ds" THEN ListedTo(Counts(scl, k), names[k], node)
                       ELSE names[k] = <<>>
  /\ phase = "list" => IF k = "ds" THEN Complete(k)
                       ELSE ListedTo(Counts(scl, k), names[k], node)
  /\ phase = "print" =>
       IF k = "ds" THEN Complete(k)
       ELSE Following(Counts(scl, k), names[k], End, number[k], Position(k))
  /\ phase = "done" => Complete(k)

CounterInv ==
  /\ \A k \in Kinds \ {"ds"} : Len(defs[k]) = number[k]
  /\ phase \in {"parse", "select", "sets", "list"} => printing = 1
  /\ phase = "list" => \A k \in Kinds \ {"ds"} : number[k] = 0
  /\ phase = "print" /\ node = End => printing = 1

IndInv ==
  /\ TypeOK /\ AcceptedInv /\ CounterInv
  /\ \A k \in Kinds : Link(names[k], defs[k]) /\ PassInv(k)

-----------------------------------------------------------------------------
LEMMA KindsAre ==
  /\ Kinds = {"rcb", "lcb", "log", "gse", "smv", "sgcb", "ds"}
  /\ Order \in Seq(Kinds) /\ Len(Order) = 6
  /\ \A i, j \in 1..6 : Order[i] = Order[j] => i = j
  BY DEF Kinds, Order, Range

(* Files, nodes and counts have the types the names suggest. *)
LEMMA FileTypes ==
  ASSUME NEW f \in Inputs
  PROVE  /\ Len(f.nodes) \in Nat
         /\ DOMAIN f.nodes = 1..Len(f.nodes)
         /\ \A n \in 1..Len(f.nodes) : IsNode(f.nodes[n])
  BY InputsAssumption DEF SclFile

(* The instances of ReportControls are finitely many. *)
LEMMA InstancesFinite ==
  ASSUME NEW rcb \in Seq(ReportControl), NEW count \in [DOMAIN rcb -> Nat]
  PROVE  InstanceCount(count) \in Nat
  <1> DEFINE Of(i) == {i} \X (1..count[i])
             S == {Of(i) : i \in DOMAIN rcb}
             g == [i \in DOMAIN rcb |-> Of(i)]
  <1>1. IsFiniteSet(DOMAIN rcb)
    <2>1. DOMAIN rcb = 1..Len(rcb) /\ Len(rcb) \in Int
      OBVIOUS
    <2> QED
      BY <2>1, FS_Interval
  <1>2. g \in Surjection(DOMAIN rcb, S)
    BY DEF Surjection
  <1>3. IsFiniteSet(S)
    <2> HIDE DEF S, g
    <2> QED
      BY <1>1, <1>2, FS_Surjection DEF ExistsSurjection
  <1>4. \A T \in S : IsFiniteSet(T)
    <2> SUFFICES ASSUME NEW i \in DOMAIN rcb PROVE IsFiniteSet(Of(i))
      OBVIOUS
    <2>1. IsFiniteSet({i})
      BY FS_Singleton
    <2>2. IsFiniteSet(1..count[i])
      <3>1. count[i] \in Int
        OBVIOUS
      <3> QED
        BY <3>1, FS_Interval
    <2> QED
      BY <2>1, <2>2, FS_Product
  <1>5. IsFiniteSet(UNION S)
    <2> HIDE DEF S
    <2> QED
      BY <1>3, <1>4, FS_UNION
  <1>6. Cardinality(UNION S) \in Nat
    BY <1>5, FS_CardinalityType
  <1>7. DOMAIN count = DOMAIN rcb
    OBVIOUS
  <1> QED
    BY <1>6, <1>7 DEF InstanceCount

(* What the list has for a node is a number. *)
LEMMA ListedNat ==
  ASSUME NEW f \in Inputs, NEW n \in 1..Len(f.nodes), NEW k \in Kinds
  PROVE  Listed(f.nodes[n], k) \in Nat
  <1> DEFINE ln == f.nodes[n]
  <1>1. IsNode(ln)
    BY FileTypes
  <1> HIDE DEF ln
  <1>2. CASE k = "rcb"
    <2> DEFINE count == [i \in DOMAIN ln.rcb |-> Instances(ln.rcb[i])]
    <2>1. ln.rcb \in Seq(ReportControl)
      BY <1>1 DEF IsNode
    <2>2. \A i \in DOMAIN ln.rcb : Instances(ln.rcb[i]) \in Nat
      <3> SUFFICES ASSUME NEW i \in DOMAIN ln.rcb PROVE Instances(ln.rcb[i]) \in Nat
        OBVIOUS
      <3>1. ln.rcb[i] \in ReportControl
        BY <2>1
      <3> QED
        BY <3>1 DEF ReportControl, Instances
    <2>3. count \in [DOMAIN ln.rcb -> Nat]
      BY <2>2
    <2>4. InstanceCount(count) \in Nat
      <3> HIDE DEF count
      <3> QED
        BY <2>1, <2>3, InstancesFinite
    <2> QED
      BY <1>2, <2>4 DEF ln, Listed
  <1>3. CASE k = "gse"
    BY <1>1, <1>3 DEF ln, IsNode, Listed
  <1>4. CASE k \in {"ds", "lcb", "log", "smv", "sgcb"}
    BY <1>1, <1>4 DEF ln, IsNode, Listed
  <1> QED
    BY <1>2, <1>3, <1>4, KindsAre

(* What the parser lets pass is written as often as it is listed. *)
LEMMA ReportsWritten ==
  ASSUME NEW ln, IsNode(ln), ParserAccepts(ln)
  PROVE  InstanceCount([i \in DOMAIN ln.rcb |-> Written(ln.rcb[i])]) = Listed(ln, "rcb")
  <1>1. \A i \in DOMAIN ln.rcb : Written(ln.rcb[i]) = Instances(ln.rcb[i])
    <2> SUFFICES ASSUME NEW i \in DOMAIN ln.rcb
                 PROVE  Written(ln.rcb[i]) = Instances(ln.rcb[i])
      OBVIOUS
    <2>1. ln.rcb[i].enabled /\ ~ln.rcb[i].indexed => ln.rcb[i].max = 1
      BY DEF ParserAccepts
    <2> QED
      BY <2>1 DEF Written, Instances
  <1>2. [i \in DOMAIN ln.rcb |-> Written(ln.rcb[i])]
          = [i \in DOMAIN ln.rcb |-> Instances(ln.rcb[i])]
    BY <1>1
  <1> QED
    BY <1>2 DEF Listed

LEMMA GooseWritten ==
  ASSUME NEW ln, IsNode(ln), \A i \in DOMAIN ln.gse : ln.gse[i]
  PROVE  Cardinality({i \in DOMAIN ln.gse : ln.gse[i]}) = Listed(ln, "gse")
  <1>1. ln.gse \in Seq(BOOLEAN)
    BY DEF IsNode
  <1>2. {i \in DOMAIN ln.gse : ln.gse[i]} = 1..Len(ln.gse) /\ Len(ln.gse) \in Nat
    BY <1>1
  <1>3. Cardinality(1..Len(ln.gse)) = Len(ln.gse)
    BY <1>2, FS_Interval
  <1> QED
    BY <1>2, <1>3 DEF Listed

-----------------------------------------------------------------------------
(* The names in a node. *)
LEMMA NumberedIs ==
  ASSUME NEW m \in Nat, NEW count \in Nat
  PROVE  /\ Numbered(m, count) \in Seq(Name) /\ Len(Numbered(m, count)) = count
         /\ \A j \in 1..count : Numbered(m, count)[j] = <<m, j>>
  <1>1. \A j \in 1..count : <<m, j>> \in Name
    BY DEF Name
  <1> QED
    BY <1>1 DEF Numbered

(* A function on 1..n is a sequence. *)
LEMMA FunctionIsSeq ==
  ASSUME NEW S, NEW n \in Nat, NEW u \in [1..n -> S]
  PROVE  u \in Seq(S) /\ Len(u) = n
  OBVIOUS

(* The first and the last part of a sequence. *)
LEMMA ConcatIs ==
  ASSUME NEW S, NEW s \in Seq(S), NEW u \in Seq(S), NEW t, t = s \o u
  PROVE  /\ t \in Seq(S) /\ Len(t) = Len(s) + Len(u)
         /\ \A i \in 1..Len(s) : t[i] = s[i]
         /\ \A j \in 1..Len(u) : t[Len(s) + j] = u[j]
  OBVIOUS

(* The names of one more node are added to a list. *)
LEMMA Appended ==
  ASSUME NEW N \in Nat, NEW c \in [1..N -> Nat], NEW s \in Seq(Name),
         NEW m \in 1..N, Fresh(s, m), NEW off \in [1..m -> Nat], Laid(c, s, m, off),
         NEW t, t = s \o Numbered(m, c[m])
  PROVE  /\ t \in Seq(Name) /\ Fresh(t, m + 1)
         /\ \E o \in [1..m + 1 -> Nat] : Laid(c, t, m + 1, o)
  <1> DEFINE u == Numbered(m, c[m])
             o == [n \in 1..m + 1 |-> IF n = m + 1 THEN Len(s) + c[m] ELSE off[n]]
  <1>1. c[m] \in Nat /\ Len(s) \in Nat /\ m \in Nat /\ m > 0
    OBVIOUS
  <1>2. u \in Seq(Name) /\ Len(u) = c[m] /\ \A j \in 1..c[m] : u[j] = <<m, j>>
    BY <1>1, NumberedIs
  <1>a. \A i \in 1..Len(s) : s[i] \in Name /\ s[i][1] \in Nat /\ s[i][1] < m
    <2> SUFFICES ASSUME NEW i \in 1..Len(s)
                 PROVE  s[i] \in Name /\ s[i][1] \in Nat /\ s[i][1] < m
      OBVIOUS
    <2>1. s[i] \in Name
      OBVIOUS
    <2>2. s[i][1] \in Nat
      BY <2>1 DEF Name
    <2> QED
      BY <2>1, <2>2 DEF Fresh
  <1>3. /\ t \in Seq(Name) /\ Len(t) = Len(s) + c[m]
        /\ \A i \in 1..Len(s) : t[i] = s[i]
        /\ \A j \in 1..c[m] : t[Len(s) + j] = <<m, j>>
    <2>1. t = s \o u
      OBVIOUS
    <2> HIDE DEF u
    <2>2. /\ t \in Seq(Name) /\ Len(t) = Len(s) + Len(u)
          /\ \A i \in 1..Len(s) : t[i] = s[i]
          /\ \A j \in 1..Len(u) : t[Len(s) + j] = u[j]
      <3>1. u \in Seq(Name)
        BY <1>2
      <3>2. t \in Seq(Name)
        BY <2>1, <3>1, ConcatIs, Zenon
      <3>3. Len(t) = Len(s) + Len(u)
        BY ONLY <2>1, <3>1, s \in Seq(Name)
      <3>4. \A i \in 1..Len(s) : t[i] = s[i]
        BY ONLY <2>1, <3>1, s \in Seq(Name)
      <3>5. \A j \in 1..Len(u) : t[Len(s) + j] = u[j]
        BY ONLY <2>1, <3>1, s \in Seq(Name)
      <3> QED
        BY <3>2, <3>3, <3>4, <3>5
    <2>3. Len(u) = c[m] /\ \A j \in 1..c[m] : u[j] = <<m, j>>
      BY <1>2
    <2> QED
      BY <2>1, <2>2, <2>3, Zenon
  <1>4. \A i \in 1..Len(t) :
          \/ i \in 1..Len(s) /\ t[i] = s[i]
          \/ i - Len(s) \in 1..c[m] /\ t[i] = <<m, i - Len(s)>>
    <2> SUFFICES ASSUME NEW i \in 1..Len(t), i \notin 1..Len(s)
                 PROVE  i - Len(s) \in 1..c[m] /\ t[i] = <<m, i - Len(s)>>
      BY <1>3
    <2>1. i - Len(s) \in 1..c[m] /\ Len(s) + (i - Len(s)) = i
      BY <1>1, <1>3
    <2> QED
      BY <2>1, <1>3
  <1>5. \A i \in 1..Len(t) : t[i][1] < m + 1
    <2> SUFFICES ASSUME NEW i \in 1..Len(t) PROVE t[i][1] < m + 1
      OBVIOUS
    <2>1. CASE i \in 1..Len(s) /\ t[i] = s[i]
      BY <2>1, <1>a, <1>1
    <2>2. CASE t[i] = <<m, i - Len(s)>>
      BY <2>2, <1>1
    <2> QED
      BY <1>4, <2>1, <2>2
  <1>6. ASSUME NEW i \in 1..Len(t), NEW j \in 1..Len(t), t[i] = t[j] PROVE i = j
    <2>1. CASE i \in 1..Len(s) /\ j \in 1..Len(s)
      BY <1>3, <1>6, <2>1 DEF Fresh, IsInjective
    <2>2. CASE i \notin 1..Len(s) /\ j \notin 1..Len(s)
      BY <1>1, <1>3, <1>4, <1>6, <2>2
    <2>3. ASSUME NEW a \in 1..Len(s), NEW b \in 1..Len(t), b \notin 1..Len(s)
          PROVE  t[a] # t[b]
      <3>1. t[a][1] < m /\ t[a][1] \in Nat
        BY <1>3, <1>a
      <3>2. t[b] = <<m, b - Len(s)>>
        BY <1>4, <2>3
      <3> QED
        BY <1>1, <3>1, <3>2
    <2> QED
      BY <1>6, <2>1, <2>2, <2>3
  <1>7. Fresh(t, m + 1)
    <2>1. DOMAIN t = 1..Len(t)
      BY <1>3
    <2> QED
      BY <2>1, <1>5, <1>6 DEF Fresh, IsInjective
  <1>8. /\ o \in [1..m + 1 -> Nat] /\ o[m + 1] = Len(s) + c[m]
        /\ \A n \in 1..m : o[n] = off[n]
    BY <1>1
  <1> HIDE DEF o
  <1>9. Laid(c, t, m + 1, o)
    <2>1. o[1] = 0 /\ o[m + 1] = Len(t)
      BY <1>1, <1>3, <1>8 DEF Laid
    <2>2. ASSUME NEW n \in 1..m + 1 PROVE o[n] <= Len(t)
      <3>1. CASE n = m + 1
        BY <1>1, <1>3, <1>8, <3>1
      <3>2. CASE n \in 1..m
        <4>1. off[n] <= Len(s) /\ off[n] \in Nat
          BY <3>2 DEF Laid
        <4> QED
          BY <1>1, <1>3, <1>8, <3>2, <4>1
      <3> QED
        BY <1>1, <3>1, <3>2
    <2>3. ASSUME NEW n \in 1..m
          PROVE  o[n + 1] = o[n] + c[n]
      <3>1. CASE n = m
        BY <1>1, <1>8, <3>1 DEF Laid
      <3>2. CASE n # m
        <4>1. n \in 1..m - 1 /\ n + 1 \in 1..m
          BY <1>1, <3>2
        <4> QED
          BY <4>1, <1>8 DEF Laid
      <3> QED
        BY <3>1, <3>2
    <2>4. ASSUME NEW n \in 1..m, NEW j \in 1..c[n]
          PROVE  t[o[n] + j] = <<n, j>>
      <3>1. CASE n = m
        BY <1>1, <1>3, <1>8, <3>1 DEF Laid
      <3>2. CASE n # m
        <4>1. n \in 1..m - 1 /\ n + 1 \in 1..m /\ c[n] \in Nat
          BY <1>1, <3>2
        <4>3. off[n] + j \in 1..Len(s)
          <5>1. off[n + 1] = off[n] + c[n] /\ off[n + 1] <= Len(s)
            BY <4>1 DEF Laid
          <5>2. off[n] \in Nat /\ off[n + 1] \in Nat
            BY <4>1
          <5> QED
            BY <1>1, <4>1, <5>1, <5>2, SMTT(30)
        <4> QED
          BY <1>3, <1>8, <4>1, <4>3 DEF Laid
      <3> QED
        BY <3>1, <3>2
    <2>5. (m + 1) - 1 = m
      BY <1>1
    <2> QED
      BY <2>1, <2>2, <2>3, <2>4, <2>5 DEF Laid
  <1> QED
    BY <1>3, <1>7, <1>8, <1>9

(* An empty list, before the first node. *)
LEMMA EmptyListed ==
  ASSUME NEW c PROVE ListedTo(c, <<>>, 1)
  <1> DEFINE off == [n \in 1..1 |-> 0]
  <1>1. off \in [1..1 -> Nat] /\ Laid(c, <<>>, 1, off)
    BY DEF Laid
  <1>2. Fresh(<<>>, 1)
    BY DEF Fresh, IsInjective
  <1> QED
    BY <1>1, <1>2 DEF ListedTo

(* One more node in a list. *)
LEMMA ListedNext ==
  ASSUME NEW N \in Nat, NEW c \in [1..N -> Nat], NEW s \in Seq(Name),
         NEW m \in 1..N, ListedTo(c, s, m), NEW t, t = s \o Numbered(m, c[m])
  PROVE  t \in Seq(Name) /\ ListedTo(c, t, m + 1)
  <1>1. PICK off \in [1..m -> Nat] : Laid(c, s, m, off)
    BY DEF ListedTo
  <1> QED
    BY <1>1, Appended DEF ListedTo

(* Nothing written yet. *)
LEMMA EmptyLink ==
  ASSUME NEW s \in Seq(Name) PROVE Link(s, <<>>)
  BY DEF Link

(* What is written in place i. *)
LEMMA LinkEntry ==
  ASSUME NEW s, NEW d, Link(s, d), NEW i \in 1..Len(d)
  PROVE  /\ d[i].name = s[i]
         /\ d[i].next = IF i < Len(s) THEN s[i + 1] ELSE Null
  <1>1. d[i] = [name |-> s[i], next |-> IF i < Len(s) THEN s[i + 1] ELSE Null]
    BY DEF Link
  <1> QED
    BY <1>1

(* What is written for count blocks of node n. *)
Blocks(s, num, n, count) ==
  [j \in 1..count |->
     [name |-> <<n, j>>,
      next |-> IF num + j < Len(s) THEN s[num + j + 1] ELSE Null]]

(* A list s, and what is written of it before node pos and with node pos.  *)
Before(N, c, s, d, num, pos) ==
  /\ N \in Nat /\ c \in [1..N -> Nat] /\ s \in Seq(Name) /\ d \in Seq(Def)
  /\ num \in Nat /\ pos \in 1..N
  /\ Following(c, s, N + 1, num, pos) /\ Len(d) = num /\ Link(s, d)
After(N, c, s, e, num, pos) ==
  /\ e \in Seq(Def) /\ Len(e) = num + c[pos] /\ Link(s, e)
  /\ Following(c, s, N + 1, num + c[pos], pos + 1)

(* The blocks of one more node are written. *)
LEMMA LinkNext ==
  ASSUME NEW N, NEW c, NEW s, NEW d, NEW num, NEW pos, Before(N, c, s, d, num, pos)
  PROVE  After(N, c, s, d \o Blocks(s, num, pos, c[pos]), num, pos)
  <1> DEFINE e == d \o Blocks(s, num, pos, c[pos])
  <1> SUFFICES ASSUME N \in Nat, c \in [1..N -> Nat], s \in Seq(Name), d \in Seq(Def),
                      num \in Nat, pos \in 1..N,
                      Following(c, s, N + 1, num, pos), Len(d) = num, Link(s, d)
               PROVE  After(N, c, s, e, num, pos)
    BY DEF Before
  <1> DEFINE F(j) == [name |-> <<pos, j>>,
                      next |-> IF num + j < Len(s) THEN s[num + j + 1] ELSE Null]
             u == [j \in 1..c[pos] |-> F(j)]
  <1>1. PICK off \in [1..N + 1 -> Nat] : Laid(c, s, N + 1, off) /\ num = off[pos]
    BY DEF Following
  <1>2. c[pos] \in Nat /\ Len(s) \in Nat /\ pos \in Nat /\ pos + 1 \in 1..N + 1
        /\ pos \in 1..(N + 1) - 1
    OBVIOUS
  <1>3. off[pos + 1] = num + c[pos] /\ off[pos + 1] <= Len(s)
    BY <1>1, <1>2 DEF Laid
  <1>4. Following(c, s, N + 1, num + c[pos], pos + 1)
    BY <1>1, <1>3 DEF Following
  <1>5. \A j \in 1..c[pos] : s[num + j] = <<pos, j>> /\ num + j \in 1..Len(s)
    <2> SUFFICES ASSUME NEW j \in 1..c[pos]
                 PROVE  s[num + j] = <<pos, j>> /\ num + j \in 1..Len(s)
      OBVIOUS
    <2>1. s[num + j] = <<pos, j>>
      BY <1>1, <1>2 DEF Laid
    <2>2. num + j \in 1..Len(s)
      BY <1>2, <1>3
    <2> QED
      BY <2>1, <2>2
  <1>6. \A j \in 1..c[pos] :
          F(j) = [name |-> s[num + j],
                  next |-> IF num + j < Len(s) THEN s[num + j + 1] ELSE Null]
    BY <1>5
  <1>7. \A j \in 1..c[pos] : F(j) \in Def
    <2> SUFFICES ASSUME NEW j \in 1..c[pos] PROVE F(j) \in Def
      OBVIOUS
    <2>1. s[num + j] \in Name
      <3>1. num + j \in 1..Len(s)
        BY <1>5
      <3> QED
        BY ONLY <3>1, s \in Seq(Name)
    <2>2. (IF num + j < Len(s) THEN s[num + j + 1] ELSE Null) \in Name
      <3>1. Null \in Name
        BY DEF Null, Name
      <3>2. ASSUME num + j < Len(s) PROVE s[num + j + 1] \in Name
        <4>1. num + j + 1 \in 1..Len(s)
          BY <1>2, <3>2
        <4> QED
          BY <4>1
      <3> QED
        BY <3>1, <3>2
    <2>3. <<pos, j>> \in Name
      BY <1>5, <2>1
    <2> QED
      BY <2>2, <2>3 DEF Def
  <1>8. u \in Seq(Def) /\ Len(u) = c[pos] /\ \A j \in 1..c[pos] : u[j] = F(j)
    <2> HIDE DEF F
    <2>1. u \in [1..c[pos] -> Def]
      BY <1>7
    <2>2. \A j \in 1..c[pos] : u[j] = F(j)
      OBVIOUS
    <2>3. c[pos] \in Nat
      BY <1>2
    <2> HIDE DEF u
    <2>4. u \in Seq(Def) /\ Len(u) = c[pos]
      BY ONLY <2>1, <2>3, FunctionIsSeq, Zenon
    <2> QED
      BY <2>2, <2>4
  <1>9. e = d \o u
    BY DEF Blocks
  <1> HIDE DEF u, e
  <1>a. u \in Seq(Def)
    BY <1>8
  <1>10. e \in Seq(Def)
    BY ONLY <1>a, <1>9, d \in Seq(Def)
  <1>11. Len(e) = num + c[pos]
    <2>1. Len(e) = Len(d) + Len(u)
      BY ONLY <1>a, <1>9, d \in Seq(Def)
    <2> QED
      BY <1>8, <2>1
  <1>12. \A i \in 1..num : e[i] = d[i]
    BY ONLY <1>a, <1>9, d \in Seq(Def), Len(d) = num
  <1>13. \A j \in 1..c[pos] : e[num + j] = u[j]
    <2>1. \A j \in 1..Len(u) : e[Len(d) + j] = u[j]
      BY ONLY <1>a, <1>9, d \in Seq(Def)
    <2> QED
      BY <1>8, <2>1
  <1>14. Link(s, e)
    <2>1. Len(e) <= Len(s)
      BY <1>3, <1>11
    <2>2. ASSUME NEW i \in 1..Len(e)
          PROVE e[i] = [name |-> s[i], next |-> IF i < Len(s) THEN s[i + 1] ELSE Null]
      <3>1. CASE i \in 1..num
        BY <1>12, <3>1 DEF Link
      <3>2. CASE i \notin 1..num
        <4>1. i - num \in 1..c[pos] /\ num + (i - num) = i
          BY <1>2, <1>11, <3>2
        <4>2. e[i] = F(i - num)
          BY <1>8, <1>13, <4>1
        <4> QED
          BY <1>6, <4>1, <4>2
      <3> QED
        BY <3>1, <3>2
    <2> QED
      BY <2>1, <2>2 DEF Link
  <1> QED
    BY <1>4, <1>10, <1>11, <1>14 DEF After

-----------------------------------------------------------------------------
(* The counts of a file are numbers. *)
LEMMA CountsType ==
  ASSUME NEW f \in Inputs, NEW k \in Kinds
  PROVE  /\ Len(f.nodes) \in Nat /\ DOMAIN f.nodes = 1..Len(f.nodes)
         /\ Counts(f, k) \in [1..Len(f.nodes) -> Nat]
         /\ \A n \in 1..Len(f.nodes) : Counts(f, k)[n] = Listed(f.nodes[n], k)
  <1>1. Len(f.nodes) \in Nat /\ DOMAIN f.nodes = 1..Len(f.nodes)
    BY FileTypes
  <1>2. \A n \in 1..Len(f.nodes) : Listed(f.nodes[n], k) \in Nat
    BY ListedNat
  <1> QED
    BY <1>1, <1>2 DEF Counts

(* What a pass over the nodes has reached. *)
LEMMA NodeIs ==
  ASSUME TypeOK
  PROVE  /\ Len(scl.nodes) \in Nat /\ End \in Nat /\ 1 \in 1..End
         /\ node \in Nodes <=> node \in 1..Len(scl.nodes)
         /\ node \in Nodes => node + 1 \in 1..End /\ node # End
         /\ node \notin Nodes => node = End
  <1>1. Len(scl.nodes) \in Nat /\ DOMAIN scl.nodes = 1..Len(scl.nodes)
    BY FileTypes DEF TypeOK
  <1>2. node \in 1..Len(scl.nodes) + 1
    BY DEF TypeOK
  <1> QED
    BY <1>1, <1>2 DEF End, Nodes

(* A step that ends the program, or does nothing. *)
LEMMA GivesUp ==
  ASSUME IndInv, UNCHANGED <<scl, node, printing, names, number, defs>>,
         \/ phase' = phase
         \/ phase' = "rejected"
         \/ phase' = "panic" /\ phase \notin {"parse", "rejected"}
  PROVE  IndInv'
  <1>1. TypeOK'
    BY DEF IndInv, TypeOK
  <1>2. AcceptedInv'
    BY DEF IndInv, AcceptedInv, Nodes, LN
  <1>3. CounterInv'
    BY DEF IndInv, CounterInv, End
  <1>4. ASSUME NEW k \in Kinds PROVE (Link(names[k], defs[k]) /\ PassInv(k))'
    <2>1. Link(names[k], defs[k]) /\ PassInv(k)
      BY DEF IndInv
    <2>2. Complete(k)' <=> Complete(k)
      BY DEF Complete, End
    <2>3. Position(k)' = Position(k) /\ End' = End
      BY DEF Position, End
    <2> QED
      BY <2>1, <2>2, <2>3 DEF PassInv
  <1> QED
    BY <1>1, <1>2, <1>3, <1>4 DEF IndInv

LEMMA InitInd == Init => IndInv
  <1> SUFFICES ASSUME Init PROVE IndInv
    OBVIOUS
  <1>1. Len(scl.nodes) \in Nat
    BY FileTypes DEF Init
  <1>2. TypeOK
    BY <1>1 DEF Init, TypeOK
  <1>3. AcceptedInv
    BY DEF Init, AcceptedInv
  <1>4. CounterInv
    BY DEF Init, CounterInv
  <1>5. ASSUME NEW k \in Kinds PROVE Link(names[k], defs[k]) /\ PassInv(k)
    <2>1. names[k] = <<>> /\ defs[k] = <<>> /\ phase = "parse" /\ node = 1
      BY DEF Init
    <2>2. Link(<<>>, <<>>)
      BY DEF Link
    <2> QED
      BY <2>1, <2>2 DEF PassInv
  <1> QED
    BY <1>2, <1>3, <1>4, <1>5 DEF IndInv

(* The steps before the first pass. *)
LEMMA BeforeLists ==
  ASSUME IndInv, Parse \/ Select
  PROVE  IndInv'
  <1>1. CASE phase' \in {"rejected", "panic"}
    BY <1>1, GivesUp DEF Parse, Select
  <1>2. CASE Parse /\ phase' = "select"
    <2>1. phase = "parse" /\ UNCHANGED <<scl, node, printing, names, number, defs>>
          /\ \A n \in Nodes : ParserAccepts(LN(n))
      BY <1>2 DEF Parse
    <2>2. TypeOK'
      BY <1>2, <2>1 DEF IndInv, TypeOK
    <2>3. AcceptedInv'
      BY <2>1 DEF AcceptedInv, Nodes, LN
    <2>4. CounterInv'
      BY <1>2, <2>1 DEF IndInv, CounterInv, End
    <2>5. ASSUME NEW k \in Kinds PROVE (Link(names[k], defs[k]) /\ PassInv(k))'
      BY <1>2, <2>1 DEF IndInv, PassInv
    <2> QED
      BY <2>2, <2>3, <2>4, <2>5 DEF IndInv
  <1>3. CASE Select /\ phase' = "sets"
    <2>1. phase = "select" /\ UNCHANGED <<scl, node, printing, names, number, defs>>
      BY <1>3 DEF Select
    <2>2. TypeOK'
      BY <1>3, <2>1 DEF IndInv, TypeOK
    <2>3. AcceptedInv'
      BY <2>1 DEF IndInv, AcceptedInv, Nodes, LN
    <2>4. CounterInv'
      BY <1>3, <2>1 DEF IndInv, CounterInv, End
    <2>5. ASSUME NEW k \in Kinds PROVE (Link(names[k], defs[k]) /\ PassInv(k))'
      <3>1. Link(names[k], defs[k]) /\ names[k] = <<>> /\ node = 1 /\ defs[k] = <<>>
        BY <2>1 DEF IndInv, PassInv
      <3>2. ListedTo(Counts(scl, k), <<>>, 1)
        BY EmptyListed
      <3> QED
        BY <1>3, <2>1, <3>1, <3>2 DEF PassInv
    <2> QED
      BY <2>2, <2>3, <2>4, <2>5 DEF IndInv
  <1> QED
    BY <1>1, <1>2, <1>3 DEF Parse, Select

(* The pass that lists data sets. *)
LEMMA ListDataSetsKeeps ==
  ASSUME IndInv, ListDataSets
  PROVE  IndInv'
  <1>1. /\ phase = "sets" /\ node \in Nodes /\ node' = node + 1 /\ phase' = phase
        /\ names' = [names EXCEPT !["ds"] = @ \o Numbered(node, LN(node).ds)]
        /\ UNCHANGED <<scl, printing, number, defs>>
    BY DEF ListDataSets
  <1>2. TypeOK
    BY DEF IndInv
  <1>3. "ds" \in Kinds
    BY KindsAre
  <1>4. /\ names'["ds"] = names["ds"] \o Numbered(node, Counts(scl, "ds")[node])
        /\ \A k \in Kinds \ {"ds"} : names'[k] = names[k]
    <2>1. Counts(scl, "ds")[node] = LN(node).ds
      <3>1. Counts(scl, "ds")[node] = Listed(scl.nodes[node], "ds")
        BY <1>1, <1>2, <1>3, CountsType, NodeIs DEF TypeOK
      <3> QED
        BY <3>1 DEF Listed, LN
    <2> QED
      BY <1>1, <1>2, <1>3, <2>1 DEF TypeOK
  <1>5. names["ds"] \in Seq(Name) /\ ListedTo(Counts(scl, "ds"), names["ds"], node)
    BY <1>1, <1>2, <1>3 DEF IndInv, PassInv, TypeOK
  <1>6. /\ names'["ds"] \in Seq(Name)
        /\ ListedTo(Counts(scl, "ds"), names'["ds"], node + 1)
    <2>1. /\ Len(scl.nodes) \in Nat /\ node \in 1..Len(scl.nodes)
          /\ Counts(scl, "ds") \in [1..Len(scl.nodes) -> Nat]
      BY <1>1, <1>2, <1>3, CountsType, NodeIs DEF TypeOK
    <2> QED
      BY <1>4, <1>5, <2>1, ListedNext
  <1>7. TypeOK'
    <2>1. names' \in [Kinds -> Seq(Name)]
      BY <1>1, <1>2, <1>3, <1>4, <1>6 DEF TypeOK
    <2>2. node' \in 1..Len(scl.nodes) + 1
      BY <1>1, <1>2, NodeIs DEF End
    <2> QED
      BY <1>1, <1>2, <2>1, <2>2 DEF TypeOK
  <1>8. AcceptedInv'
    BY <1>1 DEF IndInv, AcceptedInv, Nodes, LN
  <1>9. CounterInv'
    BY <1>1 DEF IndInv, CounterInv
  <1>10. ASSUME NEW k \in Kinds PROVE (Link(names[k], defs[k]) /\ PassInv(k))'
    <2>1. defs[k] = <<>> /\ (k # "ds" => names[k] = <<>>)
      BY <1>1 DEF IndInv, PassInv
    <2>2. Link(names'[k], <<>>)
      BY <1>7, EmptyLink DEF TypeOK
    <2> QED
      BY <1>1, <1>4, <1>6, <2>1, <2>2 DEF PassInv
  <1> QED
    BY <1>7, <1>8, <1>9, <1>10 DEF IndInv

(* All data sets are written. *)
LEMMA PrintDataSetsKeeps ==
  ASSUME IndInv, PrintDataSets
  PROVE  IndInv'
  <1>1. /\ phase = "sets" /\ node \notin Nodes /\ node' = 1 /\ phase' = "list"
        /\ defs' = [defs EXCEPT !["ds"] =
             [i \in DOMAIN names["ds"] |->
                [name |-> names["ds"][i], next |-> NextName("ds", i)]]]
        /\ UNCHANGED <<scl, printing, names, number>>
    BY DEF PrintDataSets
  <1>2. TypeOK
    BY DEF IndInv
  <1>3. "ds" \in Kinds
    BY KindsAre
  <1> DEFINE s == names["ds"]
             F(i) == [name |-> s[i], next |-> IF i < Len(s) THEN s[i + 1] ELSE Null]
             d == [i \in 1..Len(s) |-> F(i)]
  <1>4. s \in Seq(Name) /\ Len(s) \in Nat /\ DOMAIN s = 1..Len(s)
    BY <1>2, <1>3 DEF TypeOK
  <1>5. defs'["ds"] = d /\ \A k \in Kinds \ {"ds"} : defs'[k] = defs[k]
    BY <1>1, <1>2, <1>3, <1>4 DEF TypeOK, NextName
  <1>6. Fresh(s, End)
    BY <1>1, <1>2, <1>3, NodeIs DEF IndInv, PassInv, ListedTo
  <1> HIDE DEF s
  <1>7. \A i \in 1..Len(s) : F(i) \in Def
    <2> SUFFICES ASSUME NEW i \in 1..Len(s) PROVE F(i) \in Def
      OBVIOUS
    <2>1. Null \in Name
      BY DEF Null, Name
    <2>2. s[i] \in Name
      BY <1>4
    <2>3. i < Len(s) => s[i + 1] \in Name
      BY <1>4
    <2> QED
      BY <2>1, <2>2, <2>3 DEF Def
  <1>8. d \in Seq(Def) /\ Len(d) = Len(s) /\ \A i \in 1..Len(s) : d[i] = F(i)
    <2> HIDE DEF F
    <2>1. d \in [1..Len(s) -> Def]
      BY <1>7
    <2>2. \A i \in 1..Len(s) : d[i] = F(i)
      OBVIOUS
    <2>3. Len(s) \in Nat
      BY <1>4
    <2> HIDE DEF d
    <2>4. d \in Seq(Def) /\ Len(d) = Len(s)
      BY ONLY <2>1, <2>3, FunctionIsSeq, Zenon
    <2> QED
      BY <2>2, <2>4
  <1> HIDE DEF d
  <1>9. Link(s, d)
    BY <1>4, <1>8 DEF Link
  <1>10. TypeOK'
    <2>1. defs' \in [Kinds -> Seq(Def)]
      BY <1>1, <1>2, <1>3, <1>5, <1>8 DEF TypeOK
    <2>2. node' \in 1..Len(scl.nodes) + 1
      BY <1>1, <1>2, NodeIs DEF End
    <2> QED
      BY <1>1, <1>2, <2>1, <2>2 DEF TypeOK
  <1>11. AcceptedInv'
    BY <1>1 DEF IndInv, AcceptedInv, Nodes, LN
  <1>12. CounterInv'
    <2>1. \A k \in Kinds \ {"ds"} : Len(defs[k]) = number[k] /\ defs[k] = <<>>
      BY <1>1 DEF IndInv, CounterInv, PassInv
    <2>2. printing = 1
      BY <1>1 DEF IndInv, CounterInv
    <2> QED
      BY <1>1, <1>5, <2>1, <2>2 DEF CounterInv
  <1>13. ASSUME NEW k \in Kinds PROVE (Link(names[k], defs[k]) /\ PassInv(k))'
    <2>1. CASE k = "ds"
      <3>1. Link(names[k], defs[k])'
        BY <1>1, <1>5, <1>9, <2>1 DEF s
      <3>2. Complete(k)'
        BY <1>1, <1>5, <1>6, <1>8, <2>1 DEF s, Complete, End
      <3> QED
        BY <1>1, <2>1, <3>1, <3>2 DEF PassInv
    <2>2. CASE k # "ds"
      <3>1. Link(names[k], defs[k]) /\ names[k] = <<>>
        BY <1>1, <2>2 DEF IndInv, PassInv
      <3>2. ListedTo(Counts(scl, k), <<>>, 1)
        BY EmptyListed
      <3> QED
        BY <1>1, <1>5, <2>2, <3>1, <3>2 DEF PassInv
    <2> QED
      BY <2>1, <2>2
  <1> QED
    BY <1>10, <1>11, <1>12, <1>13 DEF IndInv

(* The pass that lists the other kinds.  One SettingControl has the name a *)
(* numbered one would have.                                                *)
LEMMA ListNodeKeeps ==
  ASSUME WrittenAsListed, IndInv, ListNode
  PROVE  IndInv'
  <1>1. /\ phase = "list" /\ node \in Nodes /\ node' = node + 1 /\ phase' = phase
        /\ names' = [k \in Kinds |->
             CASE k = "ds"   -> names[k]
               [] k = "sgcb" -> names[k] \o SameName(node, LN(node).sgcb)
               [] OTHER      -> names[k] \o Numbered(node, Listed(LN(node), k))]
        /\ UNCHANGED <<scl, printing, number, defs>>
    BY DEF ListNode
  <1>2. TypeOK
    BY DEF IndInv
  <1>3. names'["ds"] = names["ds"] /\ "ds" \in Kinds
    BY <1>1, KindsAre
  <1>4. ASSUME NEW k \in Kinds \ {"ds"}
        PROVE  names'[k] = names[k] \o Numbered(node, Counts(scl, k)[node])
    <2>1. Counts(scl, k)[node] = Listed(LN(node), k)
      BY <1>1, <1>2, CountsType, NodeIs DEF TypeOK, LN
    <2>2. CASE k # "sgcb"
      BY <1>1, <2>1, <2>2
    <2>3. CASE k = "sgcb"
      <3>1. Listed(LN(node), k) = LN(node).sgcb
        BY <2>3 DEF Listed
      <3>2. LN(node).sgcb \in Nat /\ LN(node).sgcb <= 1
        <4>1. scl \in Inputs /\ node \in 1..Len(scl.nodes) /\ node \in DOMAIN scl.nodes
          BY <1>1, <1>2, NodeIs DEF TypeOK, Nodes
        <4>2. IsNode(LN(node))
          BY <4>1, FileTypes DEF LN
        <4> QED
          BY <4>1, <4>2 DEF WrittenAsListed, IsNode, LN
      <3>3. SameName(node, LN(node).sgcb) = Numbered(node, LN(node).sgcb)
        BY <3>2 DEF SameName, Numbered
      <3> QED
        BY <1>1, <2>1, <2>3, <3>1, <3>3
    <2> QED
      BY <2>2, <2>3
  <1>5. ASSUME NEW k \in Kinds \ {"ds"}
        PROVE  /\ names'[k] \in Seq(Name)
               /\ ListedTo(Counts(scl, k), names'[k], node + 1)
    <2>1. names[k] \in Seq(Name) /\ ListedTo(Counts(scl, k), names[k], node)
      BY <1>1, <1>2 DEF IndInv, PassInv, TypeOK
    <2>2. /\ Len(scl.nodes) \in Nat /\ node \in 1..Len(scl.nodes)
          /\ Counts(scl, k) \in [1..Len(scl.nodes) -> Nat]
      BY <1>1, <1>2, CountsType, NodeIs DEF TypeOK
    <2> QED
      BY <1>4, <2>1, <2>2, ListedNext
  <1>6. TypeOK'
    <2>1. \A k \in Kinds : names'[k] \in Seq(Name)
      BY <1>2, <1>3, <1>5 DEF TypeOK
    <2>2. names' \in [Kinds -> Seq(Name)]
      BY <1>1, <2>1
    <2>3. node' \in 1..Len(scl.nodes) + 1
      BY <1>1, <1>2, NodeIs DEF End
    <2> QED
      BY <1>1, <1>2, <2>2, <2>3 DEF TypeOK
  <1>7. AcceptedInv'
    BY <1>1 DEF IndInv, AcceptedInv, Nodes, LN
  <1>8. CounterInv'
    BY <1>1 DEF IndInv, CounterInv
  <1>9. ASSUME NEW k \in Kinds PROVE (Link(names[k], defs[k]) /\ PassInv(k))'
    <2>1. CASE k = "ds"
      <3>1. Link(names[k], defs[k]) /\ Complete(k)
        BY <1>1, <2>1 DEF IndInv, PassInv
      <3>2. Complete(k)'
        BY <1>1, <1>3, <2>1, <3>1 DEF Complete, End
      <3> QED
        BY <1>1, <1>3, <2>1, <3>1, <3>2 DEF PassInv
    <2>2. CASE k # "ds"
      <3>1. Len(defs[k]) = 0 /\ defs[k] \in Seq(Def)
        BY <1>1, <1>2, <2>2 DEF IndInv, CounterInv, TypeOK
      <3>2. defs[k] = <<>>
        BY <3>1
      <3>3. Link(names'[k], <<>>)
        BY <1>6, EmptyLink DEF TypeOK
      <3> QED
        BY <1>1, <1>5, <2>2, <3>2, <3>3 DEF PassInv
    <2> QED
      BY <2>1, <2>2
  <1> QED
    BY <1>6, <1>7, <1>8, <1>9 DEF IndInv

(* All names are listed: the print phase begins. *)
LEMMA ListEndKeeps ==
  ASSUME IndInv, ListEnd
  PROVE  IndInv'
  <1>1. /\ phase = "list" /\ node \notin Nodes /\ node' = 1 /\ phase' = "print"
        /\ UNCHANGED <<scl, printing, names, number, defs>>
    BY DEF ListEnd
  <1>2. TypeOK /\ printing = 1 /\ node = End /\ 1 \in 1..End
    BY <1>1, NodeIs DEF IndInv, CounterInv
  <1>3. TypeOK'
    <2>1. node' \in 1..Len(scl.nodes) + 1
      BY <1>1, <1>2, NodeIs DEF End
    <2> QED
      BY <1>1, <1>2, <2>1 DEF TypeOK
  <1>4. AcceptedInv'
    BY <1>1 DEF IndInv, AcceptedInv, Nodes, LN
  <1>5. CounterInv'
    BY <1>1, <1>2 DEF IndInv, CounterInv, End
  <1>6. ASSUME NEW k \in Kinds PROVE (Link(names[k], defs[k]) /\ PassInv(k))'
    <2>1. Link(names[k], defs[k]) /\ End' = End
      BY <1>1 DEF IndInv, End
    <2>2. CASE k = "ds"
      <3>1. Complete(k)'
        BY <1>1, <2>2 DEF IndInv, PassInv, Complete, End
      <3> QED
        BY <1>1, <2>1, <2>2, <3>1 DEF PassInv
    <2>3. CASE k # "ds"
      <3>1. ListedTo(Counts(scl, k), names[k], End) /\ number[k] = 0
        BY <1>1, <1>2, <2>3 DEF IndInv, PassInv, CounterInv
      <3>2. Following(Counts(scl, k), names[k], End, 0, 1)
        BY <3>1 DEF ListedTo, Following, Laid
      <3>3. Position(k)' = 1
        BY <1>1, <1>2 DEF Position
      <3> QED
        BY <1>1, <2>1, <2>3, <3>1, <3>2, <3>3 DEF PassInv
    <2> QED
      BY <2>2, <2>3
  <1> QED
    BY <1>3, <1>4, <1>5, <1>6 DEF IndInv

-----------------------------------------------------------------------------
(* Where the printing of each kind is, before and after a step of it. *)
LEMMA PositionStep ==
  ASSUME TypeOK, node \in Nodes, NEW k, Order[printing] = k, Advance
  PROVE  /\ Position(k) = node /\ Position(k)' = node + 1
         /\ \A kk \in Kinds \ {k, "ds"} : Position(kk)' = Position(kk)
  <1>1. printing \in 1..6 /\ node \in Nat
    BY NodeIs DEF TypeOK
  <1>2. \A i, j \in 1..6 : Order[i] = Order[j] => i = j
    BY KindsAre
  <1>3. Len(Order) = 6
    BY KindsAre
  <1>4. Position(k) = node
    BY <1>1, <1>2 DEF Position
  <1>5. CASE printing < 6
    <2>1. printing' = printing + 1 /\ node' = node
      BY <1>3, <1>5 DEF Advance
    <2>2. Position(k)' = node + 1
      BY <1>1, <2>1 DEF Position
    <2>3. ASSUME NEW kk \in Kinds, kk # k PROVE Position(kk)' = Position(kk)
      BY <1>1, <2>1, <2>3 DEF Position
    <2> QED
      BY <1>4, <2>2, <2>3
  <1>6. CASE printing = 6
    <2>1. printing' = 1 /\ node' = node + 1
      BY <1>3, <1>6 DEF Advance
    <2>2. \A kk : Position(kk)' = node + 1
      BY <1>1, <2>1 DEF Position
    <2>3. ASSUME NEW kk \in Kinds \ {k, "ds"} PROVE Position(kk) = node + 1
      <3>1. PICK i \in 1..6 : Order[i] = kk
        BY <2>3 DEF Kinds, Order, Range
      <3>2. i < 6
        BY <1>6, <3>1, <2>3
      <3> QED
        BY <1>6, <3>1, <3>2 DEF Position
    <2> QED
      BY <1>4, <2>2, <2>3
  <1> QED
    BY <1>1, <1>5, <1>6

(* The blocks of one kind in one node are written, as many as are listed. *)
LEMMA PrintKeeps ==
  ASSUME IndInv, NEW k \in Kinds \ {"ds"}, At(k), Advance,
         NEW count, count = Listed(LN(node), k), PrintBlocks(node, k, count)
  PROVE  IndInv'
  <1>1. /\ phase = "print" /\ node \in Nodes /\ Order[printing] = k
        /\ UNCHANGED <<scl, phase, names>>
    BY DEF At, Advance
  <1>2. TypeOK /\ node \in 1..Len(scl.nodes)
    BY <1>1, NodeIs DEF IndInv
  <1>3. /\ Len(scl.nodes) \in Nat /\ Counts(scl, k) \in [1..Len(scl.nodes) -> Nat]
        /\ Counts(scl, k)[node] = count
    BY <1>2, CountsType DEF TypeOK, LN
  <1> DEFINE s == names[k]
             num == number[k]
             d == defs[k]
             c == Counts(scl, k)
             e == d \o Blocks(s, num, node, c[node])
  <1>4. /\ s \in Seq(Name) /\ d \in Seq(Def) /\ num \in Nat /\ Len(d) = num
        /\ Link(s, d) /\ Following(c, s, Len(scl.nodes) + 1, num, node)
    <2>1. s \in Seq(Name) /\ d \in Seq(Def) /\ num \in Nat
      BY <1>2 DEF TypeOK
    <2>2. Len(d) = num /\ Link(s, d)
      BY DEF IndInv, CounterInv
    <2>3. Following(c, s, End, num, Position(k))
      BY <1>1 DEF IndInv, PassInv
    <2>4. Position(k) = node
      BY <1>1, <1>2, PositionStep
    <2> QED
      BY <2>1, <2>2, <2>3, <2>4 DEF End
  <1>5. /\ e \in Seq(Def) /\ Len(e) = num + c[node] /\ Link(s, e)
        /\ Following(c, s, Len(scl.nodes) + 1, num + c[node], node + 1)
    <2>1. Before(Len(scl.nodes), c, s, d, num, node)
      BY <1>2, <1>3, <1>4 DEF Before
    <2>2. After(Len(scl.nodes), c, s, e, num, node)
      <3> HIDE DEF s, num, d, c
      <3> QED
        BY <2>1, LinkNext
    <2> QED
      BY <2>2 DEF After
  <1>6. /\ defs'[k] = e /\ number'[k] = num + c[node]
        /\ defs' = [defs EXCEPT ![k] = e]
        /\ number' = [number EXCEPT ![k] = num + c[node]]
    BY <1>2, <1>3 DEF PrintBlocks, NextName, TypeOK, Blocks
  <1> HIDE DEF e
  <1>7. \A kk \in Kinds \ {k} : defs'[kk] = defs[kk] /\ number'[kk] = number[kk]
    BY <1>2, <1>6 DEF TypeOK
  <1>8. TypeOK'
    <2>1. defs' \in [Kinds -> Seq(Def)]
      BY <1>2, <1>5, <1>6 DEF TypeOK
    <2>2. num + c[node] \in Nat
      BY <1>2, <1>3, <1>4
    <2>3. number' \in [Kinds -> Nat]
      BY <1>2, <1>6, <2>2 DEF TypeOK
    <2>4. node' \in 1..Len(scl.nodes) + 1 /\ printing' \in 1..6
      <3>1. printing \in 1..6 /\ Len(Order) = 6
        BY <1>2, KindsAre DEF TypeOK
      <3>2. printing' \in 1..6
        BY <3>1 DEF Advance
      <3>3. node' \in {node, node + 1}
        BY DEF Advance
      <3>4. node + 1 \in 1..Len(scl.nodes) + 1 /\ node \in 1..Len(scl.nodes) + 1
        BY <1>2, <1>3
      <3> QED
        BY <3>2, <3>3, <3>4
    <2> QED
      BY <1>1, <1>2, <2>1, <2>3, <2>4 DEF TypeOK
  <1>9. AcceptedInv'
    BY <1>1 DEF IndInv, AcceptedInv, Nodes, LN
  <1>10. CounterInv'
    <2>1. \A kk \in Kinds \ {"ds"} : Len(defs'[kk]) = number'[kk]
      BY <1>5, <1>6, <1>7 DEF IndInv, CounterInv
    <2>2. node' = End => printing' = 1
      BY <1>1, <1>2, NodeIs DEF Advance
    <2> QED
      BY <1>1, <2>1, <2>2 DEF CounterInv, End
  <1>11. ASSUME NEW kk \in Kinds PROVE (Link(names[kk], defs[kk]) /\ PassInv(kk))'
    <2>0. End' = End
      BY <1>1 DEF End
    <2>1. CASE kk = k
      <3>1. Position(k)' = node + 1
        BY <1>1, <1>2, PositionStep
      <3>2. Following(Counts(scl', k), names'[k], End', number'[k], Position(k)')
        BY <1>1, <1>5, <1>6, <2>0, <3>1 DEF End
      <3> QED
        BY <1>1, <1>5, <1>6, <2>1, <3>2 DEF PassInv
    <2>2. CASE kk = "ds"
      <3>1. Link(names[kk], defs[kk]) /\ Complete(kk)
        BY <1>1, <2>2 DEF IndInv, PassInv
      <3>2. Complete(kk)'
        BY <1>1, <1>7, <2>0, <2>2, <3>1 DEF Complete
      <3> QED
        BY <1>1, <1>7, <2>2, <3>1, <3>2 DEF PassInv
    <2>3. CASE kk \notin {k, "ds"}
      <3>1. /\ Link(names[kk], defs[kk])
            /\ Following(Counts(scl, kk), names[kk], End, number[kk], Position(kk))
        BY <1>1, <2>3 DEF IndInv, PassInv
      <3>2. Position(kk)' = Position(kk)
        BY <1>1, <1>2, <2>3, PositionStep
      <3> QED
        BY <1>1, <1>7, <2>0, <2>3, <3>1, <3>2 DEF PassInv
    <2> QED
      BY <2>1, <2>2, <2>3
  <1> QED
    BY <1>8, <1>9, <1>10, <1>11 DEF IndInv

(* Each part of printLogicalNodeDefinitions writes what is listed. *)
LEMMA PrintNodeKeeps ==
  ASSUME WrittenAsListed, IndInv, PrintNode
  PROVE  IndInv'
  <1>1. /\ phase = "print" /\ node \in Nodes
    BY DEF PrintNode, PrintReportControlBlocks, PrintLogControlBlocks,
       PrintLogs, PrintGSEControlBlocks, PrintSVControlBlocks,
       PrintSettingControlBlock, At
  <1>2. /\ scl \in Inputs /\ node \in DOMAIN scl.nodes
        /\ IsNode(LN(node)) /\ ParserAccepts(LN(node))
    <2>1. scl \in Inputs /\ node \in 1..Len(scl.nodes)
      BY <1>1, NodeIs DEF IndInv, TypeOK
    <2> QED
      BY <1>1, <2>1, FileTypes DEF IndInv, AcceptedInv, Nodes, LN
  <1>3. ASSUME Panic PROVE IndInv'
    BY <1>1, <1>3, GivesUp DEF Panic
  <1>4. ASSUME PrintReportControlBlocks, ~Panic PROVE IndInv'
    <2> DEFINE count == InstanceCount([i \in DOMAIN LN(node).rcb |->
                                         Written(LN(node).rcb[i])])
    <2>1. At("rcb") /\ Advance /\ PrintBlocks(node, "rcb", count)
      BY <1>4 DEF PrintReportControlBlocks
    <2>2. count = Listed(LN(node), "rcb")
      BY <1>2, ReportsWritten
    <2> HIDE DEF count
    <2> QED
      BY <2>1, <2>2, PrintKeeps, KindsAre
  <1>5. ASSUME PrintLogControlBlocks PROVE IndInv'
    <2>1. At("lcb") /\ Advance /\ PrintBlocks(node, "lcb", LN(node).lcb)
      BY <1>5 DEF PrintLogControlBlocks
    <2>2. LN(node).lcb = Listed(LN(node), "lcb")
      BY DEF Listed
    <2> QED
      BY <2>1, <2>2, PrintKeeps, KindsAre
  <1>6. ASSUME PrintLogs PROVE IndInv'
    <2>1. At("log") /\ Advance /\ PrintBlocks(node, "log", LN(node).log)
      BY <1>6 DEF PrintLogs
    <2>2. LN(node).log = Listed(LN(node), "log")
      BY DEF Listed
    <2> QED
      BY <2>1, <2>2, PrintKeeps, KindsAre
  <1>7. ASSUME PrintGSEControlBlocks, ~Panic PROVE IndInv'
    <2> DEFINE gse == LN(node).gse
    <2>1. /\ At("gse") /\ Advance /\ (scl.comm = "ap" \/ gse = <<>>)
          /\ PrintBlocks(node, "gse", Cardinality({i \in DOMAIN gse : gse[i]}))
      BY <1>7 DEF PrintGSEControlBlocks
    <2>2. \A i \in DOMAIN gse : gse[i]
      <3>1. CASE scl.comm = "ap"
        BY <1>2, <3>1 DEF WrittenAsListed, LN
      <3>2. CASE gse = <<>>
        BY <3>2
      <3> QED
        BY <2>1, <3>1, <3>2
    <2>3. Cardinality({i \in DOMAIN gse : gse[i]}) = Listed(LN(node), "gse")
      BY <1>2, <2>2, GooseWritten
    <2> HIDE DEF gse
    <2> QED
      BY <2>1, <2>3, PrintKeeps, KindsAre
  <1>8. ASSUME PrintSVControlBlocks, ~Panic PROVE IndInv'
    <2>1. At("smv") /\ Advance /\ PrintBlocks(node, "smv", LN(node).smv)
      BY <1>8 DEF PrintSVControlBlocks
    <2>2. LN(node).smv = Listed(LN(node), "smv")
      BY DEF Listed
    <2> QED
      BY <2>1, <2>2, PrintKeeps, KindsAre
  <1>9. ASSUME PrintSettingControlBlock PROVE IndInv'
    <2> DEFINE count == IF LN(node).sgcb > 0 THEN 1 ELSE 0
    <2>1. At("sgcb") /\ Advance /\ PrintBlocks(node, "sgcb", count)
      BY <1>9 DEF PrintSettingControlBlock
    <2>2. LN(node).sgcb \in Nat /\ LN(node).sgcb <= 1
      BY <1>2 DEF WrittenAsListed, IsNode, LN
    <2>3. count = Listed(LN(node), "sgcb")
      BY <2>2 DEF Listed
    <2> HIDE DEF count
    <2> QED
      BY <2>1, <2>3, PrintKeeps, KindsAre
  <1> QED
    BY <1>3, <1>4, <1>5, <1>6, <1>7, <1>8, <1>9 DEF PrintNode

(* Everything is written. *)
LEMMA PrintEndKeeps ==
  ASSUME IndInv, PrintEnd
  PROVE  IndInv'
  <1>1. /\ phase = "print" /\ node \notin Nodes /\ phase' = "done"
        /\ UNCHANGED <<scl, node, printing, names, number, defs>>
    BY DEF PrintEnd
  <1>2. TypeOK /\ node = End /\ printing = 1
    BY <1>1, NodeIs DEF IndInv, CounterInv
  <1>3. TypeOK'
    BY <1>1, <1>2 DEF TypeOK
  <1>4. AcceptedInv'
    BY <1>1 DEF IndInv, AcceptedInv, Nodes, LN
  <1>5. CounterInv'
    BY <1>1 DEF IndInv, CounterInv, End
  <1>6. ASSUME NEW k \in Kinds PROVE (Link(names[k], defs[k]) /\ PassInv(k))'
    <2>1. Complete(k)
      <3>1. CASE k = "ds"
        BY <1>1, <3>1 DEF IndInv, PassInv
      <3>2. CASE k # "ds"
        <4>1. Position(k) = End
          BY <1>2 DEF Position
        <4>2. Following(Counts(scl, k), names[k], End, number[k], End)
          BY <1>1, <3>2, <4>1 DEF IndInv, PassInv
        <4>3. number[k] = Len(names[k]) /\ Fresh(names[k], End)
          BY <4>2 DEF Following, Laid
        <4> QED
          BY <3>2, <4>3 DEF IndInv, CounterInv, Complete
      <3> QED
        BY <3>1, <3>2
    <2>2. Complete(k)'
      BY <1>1, <2>1 DEF Complete, End
    <2> QED
      BY <1>1, <2>2 DEF IndInv, PassInv
  <1> QED
    BY <1>3, <1>4, <1>5, <1>6 DEF IndInv

LEMMA StepInd == WrittenAsListed /\ IndInv /\ [Next]_vars => IndInv'
  <1> SUFFICES ASSUME WrittenAsListed, IndInv, [Next]_vars PROVE IndInv'
    OBVIOUS
  <1>1. CASE Parse \/ Select
    BY <1>1, BeforeLists
  <1>2. CASE ListDataSets
    BY <1>2, ListDataSetsKeeps
  <1>3. CASE IndexError
    BY <1>3, GivesUp DEF IndexError
  <1>4. CASE PrintDataSets
    BY <1>4, PrintDataSetsKeeps
  <1>5. CASE ListNode
    BY <1>5, ListNodeKeeps
  <1>6. CASE ListEnd
    BY <1>6, ListEndKeeps
  <1>7. CASE PrintNode
    BY <1>7, PrintNodeKeeps
  <1>8. CASE PrintEnd
    BY <1>8, PrintEndKeeps
  <1>9. CASE Finished \/ UNCHANGED vars
    BY <1>9, GivesUp DEF Finished, vars
  <1> QED
    BY <1>1, <1>2, <1>3, <1>4, <1>5, <1>6, <1>7, <1>8, <1>9 DEF Next

-----------------------------------------------------------------------------
(* What is written follows the list in every state, if every GSEControl of *)
(* a known access point has its GSE element and no node has two            *)
(* SettingControls.                                                        *)
THEOREM Invariance ==
  ASSUME WrittenAsListed
  PROVE  Spec => []IndInv
  BY InitInd, StepInd, PTL DEF Spec

(* Every pointer that is written names the block written next, although it *)
(* is taken from the list by a counter.                                    *)
THEOREM PointersFollow ==
  ASSUME WrittenAsListed
  PROVE  Spec => []PointsToNext
  <1>1. IndInv => PointsToNext
    <2> SUFFICES ASSUME IndInv, NEW k \in Kinds, NEW i \in 1..Len(defs[k]) - 1
                 PROVE  defs[k][i].next = defs[k][i + 1].name
      BY DEF PointsToNext
    <2>1. Link(names[k], defs[k]) /\ defs[k] \in Seq(Def) /\ names[k] \in Seq(Name)
      BY DEF IndInv, TypeOK
    <2>2. i \in 1..Len(defs[k]) /\ i + 1 \in 1..Len(defs[k]) /\ i < Len(names[k])
      BY <2>1 DEF Link
    <2>3. /\ defs[k][i].next = names[k][i + 1]
          /\ defs[k][i + 1].name = names[k][i + 1]
      BY <2>1, <2>2, LinkEntry
    <2> QED
      BY <2>3
  <1> QED
    BY <1>1, Invariance, PTL

(* In a complete model the lists begin with the first block and end with   *)
(* the last.                                                               *)
THEOREM ListsAreComplete ==
  ASSUME WrittenAsListed
  PROVE  Spec => []ListsComplete
  <1>1. IndInv => ListsComplete
    <2> SUFFICES ASSUME IndInv, phase = "done", NEW k \in Kinds
                 PROVE  IF defs[k] = <<>> THEN FirstName(k) = Null
                        ELSE /\ FirstName(k) = defs[k][1].name
                             /\ defs[k][Len(defs[k])].next = Null
      BY DEF ListsComplete
    <2>1. /\ Link(names[k], defs[k]) /\ defs[k] \in Seq(Def) /\ names[k] \in Seq(Name)
          /\ Len(defs[k]) = Len(names[k])
      BY DEF IndInv, TypeOK, PassInv, Complete
    <2>2. CASE defs[k] = <<>>
      BY <2>1, <2>2 DEF FirstName, NextName
    <2>3. CASE defs[k] # <<>>
      <3>1. 1 \in 1..Len(defs[k]) /\ Len(defs[k]) \in 1..Len(defs[k])
        BY <2>1, <2>3
      <3>2. defs[k][1].name = names[k][1] /\ defs[k][Len(defs[k])].next = Null
        BY <2>1, <3>1, LinkEntry
      <3> QED
        BY <2>1, <2>3, <3>1, <3>2 DEF FirstName, NextName
    <2> QED
      BY <2>2, <2>3
  <1> QED
    BY <1>1, Invariance, PTL

(* In a complete model every variable that is declared is defined once. *)
THEOREM EveryNameDefined ==
  ASSUME WrittenAsListed
  PROVE  Spec => []DeclaredIsDefined
  <1>1. IndInv => DeclaredIsDefined
    <2> SUFFICES ASSUME IndInv, phase = "done", NEW k \in Kinds
                 PROVE  /\ Range(names[k]) = Range(WrittenNames(k))
                        /\ IsInjective(WrittenNames(k))
      BY DEF DeclaredIsDefined
    <2>1. /\ Link(names[k], defs[k]) /\ defs[k] \in Seq(Def) /\ names[k] \in Seq(Name)
          /\ Len(defs[k]) = Len(names[k]) /\ IsInjective(names[k])
      BY DEF IndInv, TypeOK, PassInv, Complete, Fresh
    <2>2. DOMAIN names[k] = 1..Len(names[k]) /\ DOMAIN defs[k] = 1..Len(names[k])
      BY <2>1
    <2>3. \A i \in 1..Len(names[k]) : defs[k][i].name = names[k][i]
      BY <2>1, LinkEntry
    <2>4. WrittenNames(k) = names[k]
      BY <2>1, <2>2, <2>3 DEF WrittenNames
    <2> QED
      BY <2>1, <2>4
  <1> QED
    BY <1>1, Invariance, PTL

=============================================================================
