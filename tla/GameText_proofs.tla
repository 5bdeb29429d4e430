--------------------------- MODULE GameText_proofs ---------------------------
(***************************************************************************)
(* Proofs about GameText for every value of its constants.                 *)
(***************************************************************************)
EXTENDS GameText, WellFoundedInduction, TLAPS

-----------------------------------------------------------------------------
(***************************************************************************)
(* Sequences.                                                              *)
(***************************************************************************)
\* A set of numbers has a least one, a sequence of sequences is joined to one.
LEMMA LeastNat ==
    ASSUME NEW T, T \subseteq Nat, T # {}
    PROVE  \E x \in T : \A y \in T : x <= y
<1> DEFINE R == {ss \in Nat \X Nat : ss[1] < ss[2]}
<1>0. IsWellFoundedOn(R, Nat)
  BY NatLessThanWellFounded DEF OpToRel
<1>1. PICK x \in T : \A y \in T : ~ (<<y, x>> \in R)
  <2> HIDE DEF R
  <2> QED BY <1>0, WFMin
<1>2. \A y \in T : ~ (y < x)
  BY <1>1
<1>3. QED
  BY <1>2

LEMMA FlattenSteps ==
    ASSUME NEW S, NEW ss \in Seq(Seq(S))
    PROVE  IF ss = <<>> THEN FlattenSeq(ss) = <<>>
           ELSE \E f : /\ FlattenSeq(ss) = f[Len(ss)] /\ f[1] = ss[1]
                       /\ \A i \in 1..Len(ss) : i # 1 => f[i] = f[i-1] \o ss[i]
<1> DEFINE n == Len(ss)
           Flat(f, k) == f = [i \in 1..k |-> IF i = 1 THEN ss[i] ELSE f[i-1] \o ss[i]]
           without == {k \in 0..n : \A f : ~ Flat(f, k)}
<1>0. n \in Nat /\ \A i \in 1..n : ss[i] \in Seq(S)
  OBVIOUS
<1>1. without = {}
  <2> SUFFICES ASSUME without # {} PROVE FALSE
    OBVIOUS
  <2>1. PICK k \in without : \A j \in without : k <= j
    <3>1. without \subseteq Nat
      <4> HIDE DEF Flat, n
      <4> QED BY <1>0
    <3> HIDE DEF without
    <3>2. QED
      BY <3>1, LeastNat
  <2>2. CASE k = 0
    <3> DEFINE f == [i \in 1..0 |-> <<>>]
    <3>1. Flat(f, k)
      <4>1. 1..k = {} /\ 1..0 = {}
        BY <2>2
      <4>2. QED
        BY <4>1
    <3>2. QED
      BY <2>1, <2>2, <3>1
  <2>3. CASE k > 0
    <3>1. k \in 1..n /\ k - 1 \in 0..n /\ ~(k <= k - 1)
      BY <1>0, <2>1, <2>3
    <3>2. k - 1 \notin without
      <4> HIDE DEF without
      <4> QED BY <2>1, <3>1
    <3>3. PICK f : Flat(f, k - 1)
      BY <3>1, <3>2
    <3> DEFINE g == [i \in 1..k |-> IF i = 1 THEN ss[i]
                                    ELSE IF i = k THEN f[k-1] \o ss[i] ELSE f[i]]
    <3>4. \A i \in 1..k : i # 1 => g[i] = g[i-1] \o ss[i]
      <4> SUFFICES ASSUME NEW i \in 1..k, i # 1 PROVE g[i] = g[i-1] \o ss[i]
        OBVIOUS
      <4>1. i - 1 \in 1..(k - 1) /\ i - 1 # k /\ i - 1 \in 1..k
        BY <3>1
      <4>2. g[i-1] = f[i-1]
        BY <3>3, <4>1
      <4>3. CASE i = k
        BY <4>2, <4>3
      <4>4. CASE i # k
        <5>1. i \in 1..(k-1)
          BY <3>1, <4>4
        <5>2. f[i] = f[i-1] \o ss[i]
          BY <3>3, <5>1
        <5>3. g[i] = f[i]
          BY <4>4
        <5>4. QED
          BY <4>2, <5>2, <5>3
      <4>5. QED
        BY <4>3, <4>4
    <3>5. Flat(g, k)
      BY <3>4
    <3>6. QED
      BY <2>1, <3>5
  <2>4. QED
    BY <1>0, <2>1, <2>2, <2>3
<1>2. \E h : Flat(h, n)
  <2>1. n \in 0..n
    BY <1>0
  <2> HIDE DEF Flat, n
  <2>2. QED
    BY <1>1, <2>1
<1>3. CASE n = 0
  BY <1>3 DEF FlattenSeq
<1>4. CASE n # 0
  <2> DEFINE flatten == CHOOSE f : Flat(f, n)
  <2>1. FlattenSeq(ss) = flatten[n]
    BY <1>4 DEF FlattenSeq
  <2>2. Flat(flatten, n)
    BY <1>2
  <2> HIDE DEF flatten
  <2>3. 1 \in 1..n /\ ss # <<>>
    BY <1>0, <1>4
  <2>4. QED
    BY <2>1, <2>2, <2>3
<1>5. QED
  BY <1>3, <1>4

LEMMA FlattenSeqType ==
    ASSUME NEW S, NEW ss \in Seq(Seq(S))
    PROVE  /\ FlattenSeq(ss) \in Seq(S)
           /\ ss # <<>> =>
                \E f : /\ FlattenSeq(ss) = f[Len(ss)] /\ f[1] = ss[1]
                       /\ \A i \in 1..Len(ss) : i # 1 => f[i] = f[i-1] \o ss[i]
                       /\ \A i \in 1..Len(ss) : f[i] \in Seq(S)
<1> DEFINE n == Len(ss)
<1>0. n \in Nat /\ \A i \in 1..n : ss[i] \in Seq(S)
  OBVIOUS
<1>1. CASE ss = <<>>
  <2>1. FlattenSeq(ss) = <<>>
    BY <1>1, FlattenSteps
  <2>2. <<>> \in Seq(S)
    OBVIOUS
  <2>3. QED
    BY <1>1, <2>1, <2>2, Zenon
<1>2. CASE ss # <<>>
  <2> HIDE DEF n
  <2>1. n # 0
    BY <1>2 DEF n
  <2>2. PICK f : /\ FlattenSeq(ss) = f[n] /\ f[1] = ss[1]
                 /\ \A i \in 1..n : i # 1 => f[i] = f[i-1] \o ss[i]
    BY <1>2, FlattenSteps DEF n
  <2> DEFINE untyped == {i \in 1..n : f[i] \notin Seq(S)}
  <2>3. untyped = {}
    <3> SUFFICES ASSUME untyped # {} PROVE FALSE
      OBVIOUS
    <3>1. PICK k \in untyped : \A j \in untyped : k <= j
      <4>1. untyped \subseteq Nat
        BY <1>0
      <4> HIDE DEF untyped
      <4>2. QED
        BY <4>1, LeastNat
    <3>2. CASE k = 1
      BY <1>0, <2>2, <3>1, <3>2
    <3>3. CASE k # 1
      <4>0. k \in 1..n /\ f[k] \notin Seq(S) /\ k - 1 \in 1..n /\ ~(k <= k - 1)
        BY <1>0, <3>1, <3>3
      <4>1. k - 1 \notin untyped
        <5> HIDE DEF untyped
        <5> QED BY <3>1, <4>0
      <4>2. f[k-1] \in Seq(S)
        BY <4>0, <4>1
      <4>3. f[k] = f[k-1] \o ss[k]
        BY <2>2, <3>3, <4>0
      <4>4. ss[k] \in Seq(S)
        BY <1>0, <4>0
      <4>5. QED
        BY <4>0, <4>2, <4>3, <4>4
    <3>4. QED
      BY <3>2, <3>3
  <2>4. FlattenSeq(ss) \in Seq(S)
    BY <1>0, <2>1, <2>2, <2>3
  <2>5. QED
    BY <2>2, <2>3, <2>4 DEF n
<1>3. QED
  BY <1>1, <1>2

LEMMA SubSeqType ==
    ASSUME NEW S, NEW T, S \subseteq T, NEW t \in Seq(S)
    PROVE  t \in Seq(T)
OBVIOUS

Joined(a, b, S) ==
    /\ a \o b \in Seq(S) /\ Len(a) \in Nat /\ Len(b) \in Nat /\ Len(a \o b) = Len(a) + Len(b)
    /\ \A i \in 1..Len(a) : i \in 1..Len(a \o b) /\ (a \o b)[i] = a[i]
    /\ \A i \in 1..Len(b) : Len(a) + i \in 1..Len(a \o b) /\ (a \o b)[Len(a) + i] = b[i]
    /\ \A i \in 1..Len(a \o b) :
          i \in 1..Len(a) \/ (i - Len(a) \in 1..Len(b) /\ i = Len(a) + (i - Len(a)))

LEMMA Concat ==
    ASSUME NEW S, NEW a \in Seq(S), NEW b \in Seq(S)
    PROVE  /\ a \o b \in Seq(S) /\ Len(a \o b) = Len(a) + Len(b)
           /\ \A i \in 1..Len(a) : i \in 1..Len(a \o b) /\ (a \o b)[i] = a[i]
           /\ \A i \in 1..Len(b) : Len(a) + i \in 1..Len(a \o b) /\ (a \o b)[Len(a) + i] = b[i]
           /\ \A i \in 1..Len(a \o b) :
                 i \in 1..Len(a) \/ (i - Len(a) \in 1..Len(b) /\ i = Len(a) + (i - Len(a)))
<1>1. a \o b \in Seq(S) /\ Len(a \o b) = Len(a) + Len(b) /\ Len(a) \in Nat /\ Len(b) \in Nat
  OBVIOUS
<1>2. \A i \in 1..Len(a) : i \in 1..Len(a \o b) /\ (a \o b)[i] = a[i]
  BY <1>1
<1>3. \A i \in 1..Len(b) : Len(a) + i \in 1..Len(a \o b) /\ (a \o b)[Len(a) + i] = b[i]
  BY <1>1
<1>4. \A i \in 1..Len(a \o b) :
         i \in 1..Len(a) \/ (i - Len(a) \in 1..Len(b) /\ i = Len(a) + (i - Len(a)))
  BY <1>1
<1>5. QED
  BY <1>1, <1>2, <1>3, <1>4

LEMMA ConcatJoined ==
    ASSUME NEW S, NEW a \in Seq(S), NEW b \in Seq(S)
    PROVE  Joined(a, b, S)
<1>1. Len(a) \in Nat /\ Len(b) \in Nat
  OBVIOUS
<1>2. QED
  BY <1>1, Concat DEF Joined

-----------------------------------------------------------------------------
(***************************************************************************)
(* The first region that has a value.                                      *)
(***************************************************************************)
LEMMA RegionValueTyped ==
    ASSUME NEW t \in GameRows, NEW r \in Regions
    PROVE  /\ RegionValue(t, r, "name") \in Names \cup {None}
           /\ RegionValue(t, r, "year") \in Years \cup {None}
BY DEF GameRows, RegionRows, RegionValue

LEMMA FirstTyped ==
    ASSUME NEW t \in GameRows
    PROVE  First(t, "name") \in Names \cup {None} /\ First(t, "year") \in Years \cup {None}
<1>1. ASSUME NEW f PROVE First(t, f) = None \/ \E r \in Regions : First(t, f) = RegionValue(t, r, f)
  <2> DEFINE having == {i \in DOMAIN RegionOrder : RegionValue(t, RegionOrder[i], f) # None}
  <2>1. CASE having = {}
    BY <2>1 DEF First
  <2>2. CASE having # {}
    <3>1. having \subseteq Nat
      BY GameTextAssumption DEF GameTextAssumption
    <3> HIDE DEF having
    <3>2. Min(having) \in having
      BY <2>2, <3>1, LeastNat DEF Min
    <3>3. First(t, f) = RegionValue(t, RegionOrder[Min(having)], f)
      BY <2>2 DEF First, having
    <3>4. RegionOrder[Min(having)] \in Regions
      BY <3>2 DEF having, Regions
    <3>5. QED
      BY <3>3, <3>4
  <2>3. QED
    BY <2>1, <2>2
<1>2. QED
  BY <1>1, RegionValueTyped

\* It depends on the regions alone.
LEMMA FirstOfRegions ==
    ASSUME NEW t, NEW u, t.regions = u.regions, NEW f
    PROVE  First(t, f) = First(u, f)
BY DEF First, RegionValue

-----------------------------------------------------------------------------
(***************************************************************************)
(* The plan of an approval: which statements it holds, in which order.     *)
(***************************************************************************)
RegionStatements ==
    [op : {"upsert"}, entry : Entries]
      \cup [op : {"clear"}, region : Regions, field : {"name", "year"}]
      \cup [op : {"drop"}, region : Regions]

ApplyStatements ==
    RegionStatements \cup [op : {"refresh"}] \cup [op : {"name"}, name : Names]
      \cup [op : {"year"}, year : Years] \cup [op : {"column"}, column : Texts]
      \cup [op : {"rom"}, change : RomChange]

Statements == ApplyStatements \cup [op : {"insert", "attach", "save", "approve"}]

RegionOps == {"upsert", "clear", "drop"}

LEMMA StatementOps ==
    /\ \A o \in RegionStatements : o.op \in RegionOps
    /\ \A o \in ApplyStatements : o.op \in RegionOps \cup {"refresh", "name", "year", "column", "rom"}
    /\ \A o \in Statements : o.op \in Ops
<1>1. \A o \in RegionStatements : o.op \in RegionOps
  BY DEF RegionStatements, RegionOps
<1>2. \A o \in ApplyStatements : o.op \in RegionOps \cup {"refresh", "name", "year", "column", "rom"}
  BY <1>1 DEF ApplyStatements
<1>3. \A o \in Statements : o.op \in Ops
  BY <1>2 DEF Statements, Ops, RegionOps
<1>4. QED
  BY <1>1, <1>2, <1>3

Has(t, o) == \E i \in 1..Len(t) : t[i].op = o

\* Every statement that changes regions has a refresh behind it.
Healed(t) == \A i \in 1..Len(t) : t[i].op \in RegionOps => \E j \in i..Len(t) : t[j].op = "refresh"

OnlyDirect(t, p) == \A i \in 1..Len(t) : t[i].op \in {"name", "year"} => Direct(p)

LEMMA HasConcat ==
    ASSUME NEW S, NEW a \in Seq(S), NEW b \in Seq(S), NEW o
    PROVE  Has(a \o b, o) <=> Has(a, o) \/ Has(b, o)
<1>1. ASSUME Has(a, o) PROVE Has(a \o b, o)
  BY <1>1, Concat DEF Has
<1>2. ASSUME Has(b, o) PROVE Has(a \o b, o)
  BY <1>2, Concat DEF Has
<1>3. ASSUME Has(a \o b, o) PROVE Has(a, o) \/ Has(b, o)
  <2>1. PICK i \in 1..Len(a \o b) : (a \o b)[i].op = o
    BY <1>3 DEF Has
  <2>2. CASE i \in 1..Len(a)
    BY <2>1, <2>2, Concat DEF Has
  <2>3. CASE i - Len(a) \in 1..Len(b) /\ i = Len(a) + (i - Len(a))
    <3>1. (a \o b)[i] = b[i - Len(a)]
      BY <2>3, Concat
    <3>2. QED
      BY <2>1, <2>3, <3>1 DEF Has
  <2>4. QED
    BY <2>2, <2>3, Concat
<1>4. QED
  BY <1>1, <1>2, <1>3

LEMMA HealedConcat ==
    ASSUME NEW S, NEW a \in Seq(S), NEW b \in Seq(S), Healed(b),
           Healed(a) \/ Has(b, "refresh")
    PROVE  Healed(a \o b)
<1> SUFFICES ASSUME NEW i \in 1..Len(a \o b), (a \o b)[i].op \in RegionOps
             PROVE  \E j \in i..Len(a \o b) : (a \o b)[j].op = "refresh"
  BY DEF Healed
<1>0. Len(a) \in Nat /\ Len(b) \in Nat /\ Len(a \o b) = Len(a) + Len(b)
  BY Concat
<1>1. CASE i \in 1..Len(a) /\ Healed(a)
  <2>1. PICK j \in i..Len(a) : a[j].op = "refresh"
    BY <1>1, Concat DEF Healed
  <2>2. j \in 1..Len(a) /\ j \in i..Len(a \o b)
    BY <1>0, <1>1
  <2>3. QED
    BY <2>1, <2>2, Concat
<1>2. CASE i \in 1..Len(a) /\ Has(b, "refresh")
  <2>1. PICK k \in 1..Len(b) : b[k].op = "refresh"
    BY <1>2 DEF Has
  <2>2. Len(a) + k \in i..Len(a \o b)
    BY <1>0, <1>2
  <2>3. (a \o b)[Len(a) + k] = b[k]
    BY Concat
  <2>4. QED
    BY <2>1, <2>2, <2>3
<1>3. CASE i - Len(a) \in 1..Len(b) /\ i = Len(a) + (i - Len(a))
  <2>1. (a \o b)[i] = b[i - Len(a)]
    BY <1>3, Concat
  <2>2. PICK k \in (i - Len(a))..Len(b) : b[k].op = "refresh"
    BY <1>3, <2>1 DEF Healed
  <2>3. k \in 1..Len(b) /\ Len(a) + k \in i..Len(a \o b)
    BY <1>0, <1>3
  <2>4. (a \o b)[Len(a) + k] = b[k]
    BY <2>3, Concat
  <2>5. QED
    BY <2>2, <2>3, <2>4
<1>4. QED
  BY <1>1, <1>2, <1>3, Concat

\* A part of what applies a payload.
Segment(t, p) == t \in Seq(ApplyStatements) /\ Healed(t) /\ OnlyDirect(t, p)

LEMMA SegmentConcat ==
    ASSUME NEW a, NEW b, NEW p, Segment(a, p), Segment(b, p)
    PROVE  Segment(a \o b, p)
<1>1. a \in Seq(ApplyStatements) /\ b \in Seq(ApplyStatements)
  BY DEF Segment
<1>2. Healed(a \o b)
  BY <1>1, HealedConcat DEF Segment
<1>3. ASSUME NEW i \in 1..Len(a \o b), (a \o b)[i].op \in {"name", "year"} PROVE Direct(p)
  <2>1. CASE i \in 1..Len(a)
    BY <1>1, <1>3, <2>1, Concat DEF Segment, OnlyDirect
  <2>2. CASE i - Len(a) \in 1..Len(b) /\ i = Len(a) + (i - Len(a))
    <3>1. (a \o b)[i] = b[i - Len(a)]
      BY <1>1, <2>2, Concat
    <3>2. QED
      BY <1>3, <2>2, <3>1 DEF Segment, OnlyDirect
  <2>3. QED
    BY <1>1, <2>1, <2>2, Concat
<1>4. QED
  BY <1>1, <1>2, <1>3, Concat DEF Segment, OnlyDirect

LEMMA WhenType ==
    ASSUME NEW S, NEW c, NEW s, c => s \in Seq(S)
    PROVE  When(c, s) \in Seq(S)
BY DEF When

LEMMA EntryOpsType ==
    ASSUME NEW e \in Entries
    PROVE  EntryOps(e) \in Seq(RegionStatements)
<1>1. ASSUME NEW r \in Regions, NEW f \in {"name", "year"}
      PROVE  Clear(r, f) \in Seq(RegionStatements)
  <2>1. /\ [op |-> "clear", region |-> r, field |-> f] \in RegionStatements
        /\ [op |-> "drop", region |-> r] \in RegionStatements
    BY DEF RegionStatements
  <2>2. QED
    BY <2>1 DEF Clear
<1>2. Upsert(e) \in Seq(RegionStatements)
  <2>1. [op |-> "upsert", entry |-> e] \in RegionStatements
    BY DEF RegionStatements
  <2>2. <<[op |-> "upsert", entry |-> e]>> \in Seq(RegionStatements)
    BY <2>1
  <2>3. QED
    BY <2>2 DEF Upsert, When
<1>3. e.region \in Regions /\ e.name_from \in Regions \cup {None} /\ e.release_from \in Regions \cup {None}
  BY DEF Entries
<1>4. /\ When(e.delete_name, Clear(e.region, "name")) \in Seq(RegionStatements)
      /\ When(e.delete_release, Clear(e.region, "year")) \in Seq(RegionStatements)
      /\ When(e.name_from \notin {None, e.region}, Clear(e.name_from, "name")) \in Seq(RegionStatements)
      /\ When(e.release_from \notin {None, e.region}, Clear(e.release_from, "year")) \in Seq(RegionStatements)
  BY <1>1, <1>3, WhenType
<1>5. QED
  BY <1>2, <1>4, Concat DEF EntryOps

\* Region statements and a refresh behind them.
LEMMA RefreshedSegment ==
    ASSUME NEW a \in Seq(RegionStatements), NEW p
    PROVE  Segment(a \o Op("refresh"), p) /\ Has(a \o Op("refresh"), "refresh")
<1>1. a \in Seq(ApplyStatements)
  BY SubSeqType DEF ApplyStatements
<1>2. /\ Op("refresh") \in Seq(ApplyStatements) /\ Len(Op("refresh")) = 1
      /\ Op("refresh")[1].op = "refresh"
  BY DEF Op, ApplyStatements
<1>3. Has(Op("refresh"), "refresh") /\ Healed(Op("refresh"))
  BY <1>2 DEF Has, Healed, RegionOps
<1>4. Healed(a \o Op("refresh")) /\ Has(a \o Op("refresh"), "refresh")
  BY <1>1, <1>2, <1>3, HealedConcat, HasConcat
<1>5. ASSUME NEW i \in 1..Len(a \o Op("refresh"))
      PROVE  (a \o Op("refresh"))[i].op \notin {"name", "year"}
  <2>1. CASE i \in 1..Len(a)
    <3>1. (a \o Op("refresh"))[i] = a[i] /\ a[i] \in RegionStatements
      BY <1>1, <1>2, <2>1, Concat
    <3>2. QED
      BY <3>1, StatementOps DEF RegionOps
  <2>2. CASE i - Len(a) \in 1..Len(Op("refresh")) /\ i = Len(a) + (i - Len(a))
    <3>1. (a \o Op("refresh"))[i] = Op("refresh")[i - Len(a)] /\ i - Len(a) = 1
      BY <1>1, <1>2, <2>2, Concat
    <3>2. QED
      BY <1>2, <3>1
  <2>3. QED
    BY <1>1, <1>2, <2>1, <2>2, Concat
<1>6. QED
  BY <1>1, <1>2, <1>4, <1>5, Concat DEF Segment, OnlyDirect

LEMMA EmptySegment == \A p : Segment(<<>>, p)
BY DEF Segment, Healed, OnlyDirect

LEMMA WhenSegment ==
    ASSUME NEW c, NEW s, NEW p, c => Segment(s, p)
    PROVE  Segment(When(c, s), p)
BY EmptySegment DEF When

LEMMA PayloadFields ==
    ASSUME NEW p \in Payloads
    PROVE  /\ p \in PayloadShapes /\ p.kind \in {"edit", "new_game"}
           /\ p.regions \in Seq(Entries) /\ p.roms \in Seq(RomChange)
           /\ p.region \in Regions \cup {None} /\ p.region_from \in Regions \cup {None}
           /\ p.name \in Names \cup {None} /\ p.year \in Years \cup {None}
           /\ p.column \in Texts \cup {None} /\ p.game \in Games \cup {None}
           /\ p.kind = "edit" => p.game \in Games
           /\ p.kind = "new_game" => p.game = None /\ p.name \in Names
BY GameTextAssumption DEF GameTextAssumption, PayloadShapes

LEMMA EntryTyped ==
    ASSUME NEW r \in Regions, NEW n \in Names \cup {None}, NEW y \in Years \cup {None},
           NEW nf \in Regions \cup {None}, NEW rf \in Regions \cup {None},
           NEW dn \in BOOLEAN, NEW dr \in BOOLEAN
    PROVE  /\ [Entry(r) EXCEPT !.delete_name = dn, !.delete_release = dr] \in Entries
           /\ [Entry(r) EXCEPT !.name = n, !.name_from = nf] \in Entries
           /\ [Entry(r) EXCEPT !.year = y, !.release_from = rf] \in Entries
           /\ [Entry(r) EXCEPT !.name = n, !.year = y] \in Entries
BY DEF Entry, Entries

LEMMA EntriesSegment ==
    ASSUME NEW p \in Payloads
    PROVE  /\ Segment(EntriesOps(p), p)
           /\ p.regions # <<>> => Has(EntriesOps(p), "refresh")
<1> DEFINE each == [i \in DOMAIN p.regions |-> EntryOps(p.regions[i])]
<1>1. each \in Seq(Seq(RegionStatements))
  <2>1. p.regions \in Seq(Entries)
    BY PayloadFields
  <2>2. \A i \in DOMAIN p.regions : EntryOps(p.regions[i]) \in Seq(RegionStatements)
    BY <2>1, EntryOpsType
  <2>3. DOMAIN p.regions = 1..Len(p.regions) /\ Len(p.regions) \in Nat
    BY <2>1
  <2>4. QED
    BY <2>2, <2>3
<1> HIDE DEF each
<1>2. FlattenSeq(each) \in Seq(RegionStatements)
  BY <1>1, FlattenSeqType
<1>3. EntriesOps(p) = When(p.regions # <<>>, FlattenSeq(each) \o Op("refresh"))
  BY DEF EntriesOps, each
<1>4. QED
  BY <1>2, <1>3, RefreshedSegment, WhenSegment DEF When

LEMMA DeleteSegment ==
    ASSUME NEW p \in Payloads
    PROVE  Segment(DeleteOps(p), p)
<1>1. CASE p.delete # None /\ p.region # None
  <2> DEFINE e == [Entry(p.region) EXCEPT !.delete_name = p.delete = "name",
                                          !.delete_release = p.delete = "release"]
  <2>1. PICK n \in BOOLEAN, y \in BOOLEAN : n = (p.delete = "name") /\ y = (p.delete = "release")
    OBVIOUS
  <2>2. e \in Entries
    <3>1. p.region \in Regions
      BY <1>1, PayloadFields
    <3>2. e = [Entry(p.region) EXCEPT !.delete_name = n, !.delete_release = y]
      BY <2>1
    <3> HIDE DEF e
    <3>3. QED
      BY <3>1, <3>2, EntryTyped
  <2>3. DeleteOps(p) = EntryOps(e) \o Op("refresh")
    BY <1>1 DEF DeleteOps, When
  <2>4. QED
    BY <2>2, <2>3, EntryOpsType, RefreshedSegment
<1>2. CASE ~(p.delete # None /\ p.region # None)
  BY <1>2, EmptySegment DEF DeleteOps, When
<1>3. QED
  BY <1>1, <1>2

\* One statement that changes no region.
LEMMA OneSegment ==
    ASSUME NEW o \in ApplyStatements, NEW p, o.op \notin RegionOps,
           o.op \in {"name", "year"} => Direct(p)
    PROVE  Segment(<<o>>, p)
BY DEF Segment, Healed, OnlyDirect

LEMMA NameSegment ==
    ASSUME NEW p \in Payloads
    PROVE  /\ Segment(NameOps(p), p)
           /\ p.name # None /\ p.regions = <<>> /\ p.region # None => Has(NameOps(p), "refresh")
<1>1. CASE p.name # None /\ p.regions = <<>> /\ p.region = None
  <2>1. [op |-> "name", name |-> p.name] \in ApplyStatements
    BY <1>1, PayloadFields DEF ApplyStatements
  <2>2. Segment(<<[op |-> "name", name |-> p.name]>>, p)
    BY <1>1, <2>1, OneSegment DEF Direct, RegionOps
  <2>3. QED
    BY <1>1, <2>2 DEF NameOps, When
<1>2. CASE p.name # None /\ p.regions = <<>> /\ p.region # None
  <2> DEFINE e == [Entry(p.region) EXCEPT !.name = p.name, !.name_from = p.region_from]
  <2>1. e \in Entries
    BY <1>2, EntryTyped, PayloadFields
  <2>2. NameOps(p) = EntryOps(e) \o Op("refresh")
    BY <1>2 DEF NameOps, When
  <2>3. QED
    BY <2>1, <2>2, EntryOpsType, RefreshedSegment
<1>3. CASE ~(p.name # None /\ p.regions = <<>>)
  BY <1>3, EmptySegment DEF NameOps, When
<1>4. QED
  BY <1>1, <1>2, <1>3

LEMMA ReleaseSegment ==
    ASSUME NEW p \in Payloads
    PROVE  Segment(ReleaseOps(p), p)
<1>1. CASE p.year # None /\ p.regions = <<>> /\ p.region = None
  <2>1. [op |-> "year", year |-> p.year] \in ApplyStatements
    BY <1>1, PayloadFields DEF ApplyStatements
  <2>2. Segment(<<[op |-> "year", year |-> p.year]>>, p)
    BY <1>1, <2>1, OneSegment DEF Direct, RegionOps
  <2>3. QED
    BY <1>1, <2>2 DEF ReleaseOps, When
<1>2. CASE p.year # None /\ p.regions = <<>> /\ p.region # None
  <2> DEFINE e == [Entry(p.region) EXCEPT !.year = p.year, !.release_from = p.region_from]
  <2>1. e \in Entries
    BY <1>2, EntryTyped, PayloadFields
  <2>2. ReleaseOps(p) = EntryOps(e) \o Op("refresh")
    BY <1>2 DEF ReleaseOps, When
  <2>3. QED
    BY <2>1, <2>2, EntryOpsType, RefreshedSegment
<1>3. CASE ~(p.year # None /\ p.regions = <<>>)
  BY <1>3, EmptySegment DEF ReleaseOps, When
<1>4. QED
  BY <1>1, <1>2, <1>3

LEMMA ColumnRomSegments ==
    ASSUME NEW p \in Payloads
    PROVE  Segment(ColumnOps(p), p) /\ Segment(RomOps(p), p)
<1>1. Segment(ColumnOps(p), p)
  <2>1. CASE p.column # None
    <3>1. [op |-> "column", column |-> p.column] \in ApplyStatements
      BY <2>1, PayloadFields DEF ApplyStatements
    <3>2. QED
      BY <2>1, <3>1, OneSegment DEF ColumnOps, When, RegionOps
  <2>2. CASE p.column = None
    BY <2>2, EmptySegment DEF ColumnOps, When
  <2>3. QED
    BY <2>1, <2>2
<1>2. Segment(RomOps(p), p)
  <2>1. p.roms \in Seq(RomChange) /\ Len(p.roms) \in Nat /\ DOMAIN p.roms = 1..Len(p.roms)
    BY PayloadFields
  <2>2. \A i \in DOMAIN p.roms : [op |-> "rom", change |-> p.roms[i]] \in ApplyStatements
    BY <2>1 DEF ApplyStatements
  <2>3. RomOps(p) \in Seq(ApplyStatements) /\ Len(RomOps(p)) = Len(p.roms)
    BY <2>1, <2>2 DEF RomOps
  <2>4. \A i \in 1..Len(RomOps(p)) : RomOps(p)[i].op = "rom"
    BY <2>1, <2>3 DEF RomOps
  <2>5. QED
    BY <2>3, <2>4 DEF Segment, Healed, OnlyDirect, RegionOps
<1>3. QED
  BY <1>1, <1>2

LEMMA ApplySegment ==
    ASSUME NEW p \in Payloads
    PROVE  /\ Segment(ApplyOps(p), p)
           /\ p.regions # <<>> => Has(ApplyOps(p), "refresh")
           /\ p.name # None /\ p.region # None => Has(ApplyOps(p), "refresh")
<1> DEFINE a1 == EntriesOps(p) \o DeleteOps(p)
           a2 == a1 \o NameOps(p)
           a3 == a2 \o ColumnOps(p)
           a4 == a3 \o ReleaseOps(p)
<1>1. Segment(a1, p) /\ (Has(EntriesOps(p), "refresh") => Has(a1, "refresh"))
  BY EntriesSegment, DeleteSegment, SegmentConcat, HasConcat DEF Segment
<1> HIDE DEF a1
<1>2. /\ Segment(a2, p)
      /\ Has(a1, "refresh") \/ Has(NameOps(p), "refresh") => Has(a2, "refresh")
  BY <1>1, NameSegment, SegmentConcat, HasConcat DEF Segment
<1> HIDE DEF a2
<1>3. Segment(a3, p) /\ (Has(a2, "refresh") => Has(a3, "refresh"))
  BY <1>2, ColumnRomSegments, SegmentConcat, HasConcat DEF Segment
<1> HIDE DEF a3
<1>4. Segment(a4, p) /\ (Has(a3, "refresh") => Has(a4, "refresh"))
  BY <1>3, ReleaseSegment, SegmentConcat, HasConcat DEF Segment
<1> HIDE DEF a4
<1>5. Segment(a4 \o RomOps(p), p) /\ (Has(a4, "refresh") => Has(a4 \o RomOps(p), "refresh"))
  BY <1>4, ColumnRomSegments, SegmentConcat, HasConcat DEF Segment
<1>6. ApplyOps(p) = a4 \o RomOps(p)
  BY DEF ApplyOps, a1, a2, a3, a4
<1>7. QED
  BY <1>1, <1>2, <1>3, <1>4, <1>5, <1>6, EntriesSegment, NameSegment

\* The statements of an approval.  What changes regions has a refresh behind it,
\* a value given without a region comes after the game is attached.
Fits(t, p) ==
    /\ t \in Seq(Statements) /\ t # <<>> /\ t[Len(t)].op = "approve"
    /\ Healed(t) /\ OnlyDirect(t, p)
    /\ \A i \in 1..Len(t) :
          /\ t[i].op = "insert" => i = 1 /\ p.kind = "new_game"
          /\ t[i].op = "save" => i = 1
          /\ t[i].op = "approve" => i = Len(t)
          /\ t[i].op \in {"name", "year"} => \A j \in i..Len(t) : t[j].op # "attach"
          /\ t[i].op \in {"refresh", "save"} \cup RegionOps => Has(Plan(p), "refresh")

LEMMA EditPlan ==
    ASSUME NEW p \in Payloads
    PROVE  LET a == ApplyOps(p) \o Op("approve") IN
           /\ a \in Seq(Statements) /\ a # <<>> /\ a[Len(a)].op = "approve"
           /\ Healed(a) /\ OnlyDirect(a, p)
           /\ ~ Has(a, "insert") /\ ~ Has(a, "attach") /\ ~ Has(a, "save")
           /\ \A i \in 1..Len(a) : a[i].op = "approve" => i = Len(a)
           /\ Has(ApplyOps(p), "refresh") => Has(a, "refresh")
<1> DEFINE b == ApplyOps(p)
           e == Op("approve")
           a == b \o e
<1>1. b \in Seq(ApplyStatements) /\ Healed(b) /\ OnlyDirect(b, p)
  BY ApplySegment DEF Segment
<1>2. e \in Seq(Statements) /\ Len(e) = 1 /\ e[1].op = "approve"
  BY DEF Op, Statements
<1> HIDE DEF b, e
<1>3. b \in Seq(Statements)
  BY <1>1, SubSeqType DEF Statements
<1>4. Healed(e)
  BY <1>2 DEF Healed, RegionOps
<1>50. Joined(b, e, Statements)
  BY <1>2, <1>3, ConcatJoined
<1>5. a \in Seq(Statements) /\ Len(a) = Len(b) + 1 /\ Len(b) \in Nat
  BY <1>2, <1>50 DEF Joined
<1>6. Healed(a)
  BY <1>1, <1>2, <1>3, <1>4, HealedConcat
<1>7. \A i \in 1..Len(b) : b[i].op \in RegionOps \cup {"refresh", "name", "year", "column", "rom"}
  BY <1>1, StatementOps
<1>8. \A i \in 1..Len(a) : \/ i \in 1..Len(b) /\ a[i] = b[i]
                           \/ i = Len(a) /\ a[i].op = "approve"
  <2> SUFFICES ASSUME NEW i \in 1..Len(a)
               PROVE  \/ i \in 1..Len(b) /\ a[i] = b[i]
                      \/ i = Len(a) /\ a[i].op = "approve"
    OBVIOUS
  <2>1. CASE i \in 1..Len(b)
    <3>1. a[i] = b[i]
      BY <1>50, <2>1 DEF Joined
    <3>2. QED
      BY <2>1, <3>1
  <2>2. CASE i - Len(b) \in 1..Len(e) /\ i = Len(b) + (i - Len(b))
    <3>1. i - Len(b) = 1 /\ i = Len(a)
      BY <1>2, <1>5, <2>2
    <3>2. a[i] = e[i - Len(b)]
      BY <1>50, <2>2 DEF Joined
    <3>3. QED
      BY <1>2, <3>1, <3>2
  <2>3. QED
    BY <1>50, <2>1, <2>2 DEF Joined
<1>9. ~ Has(a, "insert") /\ ~ Has(a, "attach") /\ ~ Has(a, "save")
  BY <1>7, <1>8 DEF Has, RegionOps
<1>10. \A i \in 1..Len(a) : a[i].op = "approve" => i = Len(a)
  BY <1>7, <1>8 DEF RegionOps
<1>11. OnlyDirect(a, p)
  BY <1>1, <1>8 DEF OnlyDirect
<1>12. Has(b, "refresh") => Has(a, "refresh")
  BY <1>2, <1>3, HasConcat
<1>13. a # <<>> /\ a[Len(a)].op = "approve"
  <2>1. Len(a) \in 1..Len(a) /\ Len(a) \notin 1..Len(b)
    BY <1>5
  <2>2. QED
    BY <1>5, <1>8, <2>1
<1>14. QED
  BY <1>5, <1>6, <1>9, <1>10, <1>11, <1>12, <1>13 DEF a, b, e

\* The statements before a new game is attached.
LEMMA CreatePlan ==
    ASSUME NEW p \in Payloads, p.kind = "new_game"
    PROVE  LET c == CreateOps(p) IN
           /\ c \in Seq(Statements) /\ c # <<>> /\ Has(c, "attach")
           /\ \A i \in 1..Len(c) : /\ c[i].op \in RegionOps \cup {"insert", "refresh", "attach"}
                                   /\ c[i].op = "insert" <=> i = 1
                                   /\ c[i].op = "attach" <=> i = Len(c)
                                   /\ c[i].op = "refresh" => i + 1 = Len(c)
           /\ Healed(c) \/ Has(ApplyOps(p), "refresh")
           /\ Has(c, "refresh") => Has(ApplyOps(p), "refresh")
<1> DEFINE rows == [i \in DOMAIN p.regions |-> [op |-> "upsert", entry |-> p.regions[i]]]
           row == [op |-> "upsert", entry |-> [Entry(p.region) EXCEPT !.name = p.name, !.year = p.year]]
           r == IF p.regions # <<>> THEN rows \o Op("refresh") ELSE When(p.region # None, <<row>>)
           h == Op("insert") \o r
           c == h \o Op("attach")
           S == RegionStatements \cup [op : {"refresh"}]
<1>0. /\ Op("insert") \in Seq(Statements) /\ Len(Op("insert")) = 1 /\ Op("insert")[1].op = "insert"
      /\ Op("attach") \in Seq(Statements) /\ Len(Op("attach")) = 1 /\ Op("attach")[1].op = "attach"
      /\ Op("refresh") \in Seq(S)
  BY DEF Op, Statements
<1>1. rows \in Seq(S)
  <2>1. p.regions \in Seq(Entries) /\ Len(p.regions) \in Nat /\ DOMAIN p.regions = 1..Len(p.regions)
    BY PayloadFields
  <2>2. \A i \in DOMAIN p.regions : [op |-> "upsert", entry |-> p.regions[i]] \in S
    BY <2>1 DEF RegionStatements
  <2>3. QED
    BY <2>1, <2>2
<1>2. r \in Seq(S)
  <2>1. CASE p.regions # <<>>
    <3> HIDE DEF rows, S
    <3>1. QED
      BY <1>0, <1>1, <2>1, Concat
  <2>2. CASE p.regions = <<>> /\ p.region # None
    <3>1. row \in RegionStatements
      BY <2>2, PayloadFields, EntryTyped DEF RegionStatements
    <3> HIDE DEF row
    <3>2. QED
      BY <2>2, <3>1 DEF When
  <2>3. CASE p.regions = <<>> /\ p.region = None
    BY <2>3 DEF When
  <2>4. QED
    BY <2>1, <2>2, <2>3
<1>3. p.regions # <<>> \/ p.region # None => Has(ApplyOps(p), "refresh")
  BY ApplySegment, PayloadFields, GameTextAssumption DEF GameTextAssumption
<1>4. p.regions = <<>> /\ p.region = None => r = <<>>
  BY DEF When
<1>40. \A i \in 1..Len(r) : r[i].op = "refresh" => i = Len(r)
  <2>1. CASE p.regions # <<>>
    <3>1. \A i \in 1..Len(rows) : rows[i].op = "upsert"
      BY PayloadFields
    <3> HIDE DEF rows, S
    <3>2. Joined(rows, Op("refresh"), S) /\ Len(Op("refresh")) = 1
      BY <1>0, <1>1, ConcatJoined DEF Op
    <3>3. r = rows \o Op("refresh")
      BY <2>1
    <3>4. Len(r) = Len(rows) + 1 /\ Len(rows) \in Nat
      BY <3>2, <3>3 DEF Joined
    <3>5. ASSUME NEW i \in 1..Len(r), i # Len(r) PROVE r[i].op = "upsert"
      <4>1. i \in 1..Len(rows)
        BY <3>4, <3>5
      <4>2. QED
        BY <3>1, <3>2, <3>3, <4>1 DEF Joined
    <3>6. QED
      BY <3>5
  <2>2. CASE p.regions = <<>> /\ p.region # None
    <3>1. r = <<row>> /\ row.op = "upsert"
      BY <2>2 DEF When
    <3>2. QED
      BY <3>1
  <2>3. CASE p.regions = <<>> /\ p.region = None
    BY <1>4, <2>3
  <2>4. QED
    BY <2>1, <2>2, <2>3
<1> HIDE DEF r
<1>5. \A o \in S : o.op \in RegionOps \cup {"refresh"}
  BY StatementOps
<1>6. S \subseteq Statements
  BY DEF Statements, ApplyStatements
<1> HIDE DEF S
<1>7. r \in Seq(Statements) /\ Len(r) \in Nat /\ \A i \in 1..Len(r) : r[i].op \in RegionOps \cup {"refresh"}
  BY <1>2, <1>5, <1>6, SubSeqType
<1>8. /\ h \in Seq(Statements) /\ Len(h) = 1 + Len(r)
      /\ \A i \in 1..Len(h) : IF i = 1 THEN h[i].op = "insert"
                              ELSE i - 1 \in 1..Len(r) /\ h[i] = r[i - 1]
  <2>0. Joined(Op("insert"), r, Statements)
    BY <1>0, <1>7, ConcatJoined
  <2>1. h \in Seq(Statements) /\ Len(h) = 1 + Len(r)
    BY <1>0, <2>0 DEF Joined
  <2>2. ASSUME NEW i \in 1..Len(h), i = 1 PROVE h[i].op = "insert"
    BY <1>0, <2>0, <2>2 DEF Joined
  <2>3. ASSUME NEW i \in 1..Len(h), i # 1 PROVE i - 1 \in 1..Len(r) /\ h[i] = r[i - 1]
    <3>1. i - 1 \in 1..Len(r) /\ i = 1 + (i - 1)
      BY <1>7, <2>1, <2>3
    <3>2. h[1 + (i - 1)] = r[i - 1]
      BY <1>0, <2>0, <3>1 DEF Joined
    <3>3. QED
      BY <3>1, <3>2
  <2>4. QED
    BY <2>1, <2>2, <2>3
<1> HIDE DEF h
<1>9. /\ c \in Seq(Statements) /\ Len(c) = Len(h) + 1
      /\ \A i \in 1..Len(c) : IF i = Len(c) THEN c[i].op = "attach"
                              ELSE i \in 1..Len(h) /\ c[i] = h[i]
  <2>0. Joined(h, Op("attach"), Statements)
    BY <1>0, <1>8, ConcatJoined
  <2>1. c \in Seq(Statements) /\ Len(c) = Len(h) + 1 /\ Len(h) \in Nat
    BY <1>0, <2>0 DEF Joined
  <2>2. ASSUME NEW i \in 1..Len(c), i = Len(c) PROVE c[i].op = "attach"
    <3>1. c[Len(h) + 1] = Op("attach")[1]
      BY <1>0, <2>0 DEF Joined
    <3>2. QED
      BY <1>0, <2>1, <2>2, <3>1
  <2>3. ASSUME NEW i \in 1..Len(c), i # Len(c) PROVE i \in 1..Len(h) /\ c[i] = h[i]
    <3>1. i \in 1..Len(h)
      BY <2>1, <2>3
    <3>2. QED
      BY <2>0, <3>1 DEF Joined
  <2>4. QED
    BY <2>1, <2>2, <2>3
<1>10. CreateOps(p) = c
  BY DEF CreateOps, c, h, r, rows, row
<1> HIDE DEF c
<1>11. \A i \in 1..Len(c) : /\ c[i].op \in RegionOps \cup {"insert", "refresh", "attach"}
                            /\ c[i].op = "insert" <=> i = 1
                            /\ c[i].op = "attach" <=> i = Len(c)
  <2> SUFFICES ASSUME NEW i \in 1..Len(c)
               PROVE  /\ c[i].op \in RegionOps \cup {"insert", "refresh", "attach"}
                      /\ c[i].op = "insert" <=> i = 1
                      /\ c[i].op = "attach" <=> i = Len(c)
    OBVIOUS
  <2>1. Len(c) \in Nat /\ Len(c) > 1
    BY <1>7, <1>8, <1>9
  <2>2. CASE i = Len(c)
    <3>1. c[i].op = "attach" /\ i # 1
      BY <1>9, <2>1, <2>2
    <3>2. QED
      BY <2>2, <3>1
  <2>3. CASE i # Len(c) /\ i = 1
    <3>1. c[i].op = "insert"
      BY <1>8, <1>9, <2>3
    <3>2. QED
      BY <2>3, <3>1
  <2>4. CASE i # Len(c) /\ i # 1
    <3>1. c[i].op \in RegionOps \cup {"refresh"}
      BY <1>7, <1>8, <1>9, <2>4
    <3>2. QED
      BY <2>4, <3>1 DEF RegionOps
  <2>5. QED
    BY <2>2, <2>3, <2>4
<1>12. Has(c, "attach") /\ c # <<>>
  <2>1. Len(c) \in 1..Len(c)
    BY <1>7, <1>8, <1>9
  <2>2. QED
    BY <1>11, <2>1 DEF Has
<1>13. Has(ApplyOps(p), "refresh") \/ (Healed(c) /\ ~ Has(c, "refresh"))
  <2> SUFFICES ASSUME ~ Has(ApplyOps(p), "refresh") PROVE Healed(c) /\ ~ Has(c, "refresh")
    OBVIOUS
  <2>1. Len(c) = 2
    BY <1>3, <1>4, <1>8, <1>9
  <2>2. \A i \in 1..Len(c) : c[i].op \in {"insert", "attach"}
    BY <1>11, <2>1
  <2>3. QED
    BY <2>2 DEF Healed, Has, RegionOps
<1>14. ASSUME NEW i \in 1..Len(c), c[i].op = "refresh" PROVE i + 1 = Len(c)
  <2>1. i # Len(c) /\ i # 1
    BY <1>11, <1>14
  <2>2. i \in 1..Len(h) /\ i - 1 \in 1..Len(r) /\ r[i - 1].op = "refresh"
    BY <1>8, <1>9, <1>14, <2>1
  <2>3. i - 1 = Len(r)
    BY <1>40, <2>2
  <2>4. QED
    BY <1>7, <1>8, <1>9, <2>3
<1>15. QED
  BY <1>9, <1>10, <1>11, <1>12, <1>13, <1>14

\* A new game is refreshed after the last change to its regions, not in between.
Ordered(t) ==
    \A i, k \in 1..Len(t) :
       t[i].op \in {"refresh", "save"} /\ i < k /\ t[k].op \in RegionOps =>
          \A j \in k..Len(t) : t[j].op # "attach"

LEMMA PlanFits ==
    ASSUME NEW p \in Payloads
    PROVE  /\ Fits(Plan(p), p)
           /\ p.kind = "new_game" => Plan(p)[1].op = "insert" /\ Has(Plan(p), "attach")
           /\ p.kind = "edit" => ~ Has(Plan(p), "insert") /\ ~ Has(Plan(p), "attach")
           /\ ~ Has(Plan(p), "save")
           /\ Ordered(Plan(p))
<1> DEFINE a == ApplyOps(p) \o Op("approve")
           c == CreateOps(p)
<1>1. /\ a \in Seq(Statements) /\ a # <<>> /\ a[Len(a)].op = "approve"
      /\ Healed(a) /\ OnlyDirect(a, p)
      /\ ~ Has(a, "insert") /\ ~ Has(a, "attach") /\ ~ Has(a, "save")
      /\ \A i \in 1..Len(a) : a[i].op = "approve" => i = Len(a)
      /\ Has(ApplyOps(p), "refresh") => Has(a, "refresh")
  BY EditPlan
<1>2. ApplyOps(p) \in Seq(Statements) /\ Op("approve") \in Seq(Statements)
  BY ApplySegment, SubSeqType DEF Segment, Statements, Op
<1>3. CASE p.kind = "edit"
  <2>1. Plan(p) = a
    <3>1. Plan(p) = (<<>> \o ApplyOps(p)) \o Op("approve")
      BY <1>3 DEF Plan, When
    <3>2. <<>> \o ApplyOps(p) = ApplyOps(p)
      BY <1>2
    <3>3. QED
      BY <3>1, <3>2
  <2> HIDE DEF a
  <2>2. \A i \in 1..Len(a) : a[i].op \in {"refresh"} \cup RegionOps => Has(a, "refresh")
    <3>1. ASSUME NEW i \in 1..Len(a), a[i].op = "refresh" PROVE Has(a, "refresh")
      BY <3>1 DEF Has
    <3>2. ASSUME NEW i \in 1..Len(a), a[i].op \in RegionOps PROVE Has(a, "refresh")
      <4>1. PICK j \in i..Len(a) : a[j].op = "refresh"
        BY <1>1, <3>2 DEF Healed
      <4>2. j \in 1..Len(a)
        BY <1>1
      <4>3. QED
        BY <4>1, <4>2 DEF Has
    <3>3. QED
      BY <3>1, <3>2
  <2>3. Fits(a, p)
    <3>1. \A i \in 1..Len(a) : \A j \in i..Len(a) : j \in 1..Len(a)
      BY <1>1
    <3>2. \A i \in 1..Len(a) : a[i].op # "insert" /\ a[i].op # "attach" /\ a[i].op # "save"
      BY <1>1 DEF Has
    <3>3. QED
      BY <1>1, <2>1, <2>2, <3>1, <3>2 DEF Fits
  <2>4. Ordered(a)
    <3>1. \A k \in 1..Len(a) : \A j \in k..Len(a) : j \in 1..Len(a)
      BY <1>1
    <3>2. QED
      BY <1>1, <3>1 DEF Ordered, Has
  <2>5. QED
    BY <1>1, <1>3, <2>1, <2>3, <2>4
<1>4. CASE p.kind = "new_game"
  <2>1. /\ c \in Seq(Statements) /\ c # <<>> /\ Has(c, "attach")
        /\ \A i \in 1..Len(c) : /\ c[i].op \in RegionOps \cup {"insert", "refresh", "attach"}
                                /\ c[i].op = "insert" <=> i = 1
                                /\ c[i].op = "attach" <=> i = Len(c)
                                /\ c[i].op = "refresh" => i + 1 = Len(c)
        /\ Healed(c) \/ Has(ApplyOps(p), "refresh")
        /\ Has(c, "refresh") => Has(ApplyOps(p), "refresh")
    BY <1>4, CreatePlan
  <2> HIDE DEF c
  <2>2. Plan(p) = c \o a
    <3>1. Plan(p) = (c \o ApplyOps(p)) \o Op("approve")
      BY <1>4 DEF Plan, When, c
    <3>2. QED
      BY <1>2, <2>1, <3>1
  <2> HIDE DEF a
  <2> DEFINE t == c \o a
  <2>3. Joined(c, a, Statements)
    BY <1>1, <2>1, ConcatJoined
  <2>4. Healed(t)
    BY <1>1, <2>1, HealedConcat
  <2>5. Has(t, "attach") /\ ~ Has(t, "save") /\ (Has(ApplyOps(p), "refresh") => Has(t, "refresh"))
    <3>1. ~ Has(c, "save")
      BY <2>1 DEF Has, RegionOps
    <3>2. QED
      BY <1>1, <2>1, <3>1, HasConcat
  <2>6. /\ t \in Seq(Statements) /\ Len(t) = Len(c) + Len(a)
        /\ Len(c) \in Nat /\ Len(a) \in Nat /\ Len(c) > 0 /\ Len(a) > 0
    BY <1>1, <2>1, <2>3 DEF Joined
  <2>7. \A i \in 1..Len(t) : IF i <= Len(c) THEN i \in 1..Len(c) /\ t[i] = c[i]
                             ELSE i - Len(c) \in 1..Len(a) /\ t[i] = a[i - Len(c)]
    <3>1. ASSUME NEW i \in 1..Len(t), i <= Len(c) PROVE i \in 1..Len(c) /\ t[i] = c[i]
      <4>1. i \in 1..Len(c)
        BY <2>6, <3>1
      <4>2. QED
        BY <2>3, <4>1 DEF Joined
    <3>2. ASSUME NEW i \in 1..Len(t), ~(i <= Len(c))
          PROVE  i - Len(c) \in 1..Len(a) /\ t[i] = a[i - Len(c)]
      <4>1. i - Len(c) \in 1..Len(a) /\ i = Len(c) + (i - Len(c))
        BY <2>6, <3>2
      <4>2. t[Len(c) + (i - Len(c))] = a[i - Len(c)]
        BY <2>3, <4>1 DEF Joined
      <4>3. QED
        BY <4>1, <4>2
    <3>3. QED
      BY <3>1, <3>2
  <2>8. \A i \in 1..Len(a) : a[i].op \notin {"insert", "attach", "save"}
    BY <1>1 DEF Has
  <2> HIDE DEF t
  <2>9. ASSUME NEW i \in 1..Len(t)
        PROVE  /\ t[i].op = "insert" => i = 1
               /\ t[i].op = "attach" => i = Len(c)
               /\ t[i].op = "approve" => i = Len(t)
               /\ t[i].op \in {"name", "year"} => i > Len(c) /\ Direct(p)
               /\ t[i].op # "save"
    <3>1. CASE i <= Len(c)
      BY <2>1, <2>7, <3>1 DEF RegionOps
    <3>2. CASE ~(i <= Len(c))
      <4>1. i - Len(c) \in 1..Len(a) /\ t[i] = a[i - Len(c)]
        BY <2>7, <3>2
      <4>2. t[i].op = "approve" => i - Len(c) = Len(a)
        BY <1>1, <4>1
      <4>3. i > Len(c) /\ (i - Len(c) = Len(a) => i = Len(t))
        BY <2>6, <3>2
      <4>4. t[i].op \in {"name", "year"} => Direct(p)
        BY <1>1, <4>1 DEF OnlyDirect
      <4>5. QED
        BY <2>8, <4>1, <4>2, <4>3, <4>4
    <3>3. QED
      BY <3>1, <3>2
  <2>10. ASSUME NEW i \in 1..Len(t), t[i].op \in {"name", "year"}, NEW j \in i..Len(t)
         PROVE  t[j].op # "attach"
    <3>1. i > Len(c)
      BY <2>9, <2>10
    <3>2. j \in 1..Len(t) /\ j > Len(c)
      BY <2>6, <3>1
    <3>3. j # Len(c)
      BY <2>6, <3>2
    <3>4. QED
      BY <2>9, <3>2, <3>3
  <2>11. \A i \in 1..Len(t) : t[i].op \in {"refresh"} \cup RegionOps => Has(t, "refresh")
    <3>1. ASSUME NEW i \in 1..Len(t), t[i].op = "refresh" PROVE Has(t, "refresh")
      BY <3>1 DEF Has
    <3>2. ASSUME NEW i \in 1..Len(t), t[i].op \in RegionOps PROVE Has(t, "refresh")
      <4>1. PICK j \in i..Len(t) : t[j].op = "refresh"
        BY <2>4, <3>2 DEF Healed, t
      <4>2. j \in 1..Len(t)
        BY <2>6
      <4>3. QED
        BY <4>1, <4>2 DEF Has
    <3>3. QED
      BY <3>1, <3>2
  <2>12. t # <<>> /\ t[1].op = "insert"
    <3>1. 1 \in 1..Len(t) /\ 1 <= Len(c) /\ 1 \in 1..Len(c)
      BY <2>6
    <3>2. QED
      BY <2>1, <2>7, <3>1
  <2>13. Fits(t, p)
    <3>1. Plan(p) = t
      BY <2>2 DEF t
    <3>2. Healed(t) /\ OnlyDirect(t, p)
      BY <2>4, <2>9 DEF OnlyDirect
    <3>3. t[Len(t)].op = "approve"
      <4>1. Len(t) \in 1..Len(t) /\ ~(Len(t) <= Len(c)) /\ Len(t) - Len(c) = Len(a)
        BY <2>6
      <4>2. QED
        BY <1>1, <2>7, <4>1
    <3>4. QED
      BY <1>4, <2>6, <2>9, <2>10, <2>11, <2>12, <3>1, <3>2, <3>3 DEF Fits
  <2>14. Ordered(t)
    <3> SUFFICES ASSUME NEW i \in 1..Len(t), NEW k \in 1..Len(t), NEW j \in k..Len(t), i < k,
                        t[i].op \in {"refresh", "save"}, t[k].op \in RegionOps, t[j].op = "attach"
                 PROVE  FALSE
      BY DEF Ordered
    <3>1. j = Len(c) /\ t[i].op = "refresh"
      <4>1. j \in 1..Len(t)
        BY <2>6
      <4>2. QED
        BY <2>9, <4>1
    <3>2. i <= Len(c) /\ k <= Len(c)
      BY <2>6, <3>1
    <3>3. /\ i \in 1..Len(c) /\ t[i] = c[i]
          /\ k \in 1..Len(c) /\ t[k] = c[k]
      BY <2>7, <3>2
    <3>4. i + 1 = Len(c)
      BY <2>1, <3>1, <3>3
    <3>5. k = Len(c)
      BY <2>6, <3>2, <3>4
    <3>6. QED
      BY <2>1, <3>3, <3>5 DEF RegionOps
  <2>15. QED
    BY <1>4, <2>2, <2>5, <2>12, <2>13, <2>14 DEF t
<1>5. QED
  BY <1>3, <1>4, PayloadFields

\* A statement is done: what is left still fits.
LEMMA TailIndex ==
    ASSUME NEW S, NEW t \in Seq(S), t # <<>>
    PROVE  /\ Tail(t) \in Seq(S) /\ Len(t) \in Nat /\ Len(Tail(t)) = Len(t) - 1
           /\ Head(t) = t[1] /\ 1 \in 1..Len(t)
           /\ \A i \in 1..Len(Tail(t)) : i + 1 \in 1..Len(t) /\ Tail(t)[i] = t[i + 1]
           /\ \A i \in 1..Len(t) : i = 1 \/ (i - 1 \in 1..Len(Tail(t)) /\ Tail(t)[i - 1] = t[i])
<1>1. Len(t) \in Nat /\ Len(t) > 0 /\ Tail(t) \in Seq(S) /\ Len(Tail(t)) = Len(t) - 1 /\ Head(t) = t[1]
  OBVIOUS
<1>2. \A i \in 1..Len(Tail(t)) : i + 1 \in 1..Len(t) /\ Tail(t)[i] = t[i + 1]
  BY <1>1
<1>3. ASSUME NEW i \in 1..Len(t), i # 1 PROVE i - 1 \in 1..Len(Tail(t)) /\ Tail(t)[i - 1] = t[i]
  <2>1. i - 1 \in 1..Len(Tail(t)) /\ (i - 1) + 1 = i
    BY <1>1, <1>3
  <2>2. QED
    BY <1>2, <2>1
<1>4. QED
  BY <1>1, <1>2, <1>3

LEMMA TailHas ==
    ASSUME NEW S, NEW t \in Seq(S), t # <<>>, NEW o
    PROVE  /\ Has(t, o) => Head(t).op = o \/ Has(Tail(t), o)
           /\ Has(Tail(t), o) => Has(t, o)
<1>1. /\ Head(t) = t[1]
      /\ \A i \in 1..Len(Tail(t)) : i + 1 \in 1..Len(t) /\ Tail(t)[i] = t[i + 1]
      /\ \A i \in 1..Len(t) : i = 1 \/ (i - 1 \in 1..Len(Tail(t)) /\ Tail(t)[i - 1] = t[i])
  BY TailIndex
<1>2. ASSUME Has(t, o) PROVE Head(t).op = o \/ Has(Tail(t), o)
  BY <1>1, <1>2 DEF Has
<1>3. ASSUME Has(Tail(t), o) PROVE Has(t, o)
  BY <1>1, <1>3 DEF Has
<1>4. QED
  BY <1>2, <1>3

LEMMA FitsTail ==
    ASSUME NEW t, NEW p, Fits(t, p), Head(t).op # "approve"
    PROVE  /\ Fits(Tail(t), p) /\ ~ Has(Tail(t), "save") /\ ~ Has(Tail(t), "insert")
           /\ Head(Tail(t)).op \notin {"save", "insert"}
<1> DEFINE u == Tail(t)
<1>1. /\ u \in Seq(Statements) /\ Len(t) \in Nat /\ Len(u) = Len(t) - 1
      /\ Head(t) = t[1] /\ 1 \in 1..Len(t)
      /\ \A i \in 1..Len(u) : i + 1 \in 1..Len(t) /\ u[i] = t[i + 1]
  BY TailIndex DEF Fits
<1> HIDE DEF u
<1>2. Len(u) > 0 /\ u # <<>> /\ u[Len(u)].op = "approve"
  <2>1. Len(t) # 1
    BY <1>1 DEF Fits
  <2>2. Len(u) \in 1..Len(u) /\ Len(u) + 1 = Len(t)
    BY <1>1, <2>1
  <2>3. QED
    BY <1>1, <2>2 DEF Fits
<1>3. Healed(u)
  <2> SUFFICES ASSUME NEW i \in 1..Len(u), u[i].op \in RegionOps
               PROVE  \E j \in i..Len(u) : u[j].op = "refresh"
    BY DEF Healed
  <2>1. PICK k \in (i + 1)..Len(t) : t[k].op = "refresh"
    BY <1>1 DEF Fits, Healed
  <2>2. k - 1 \in i..Len(u) /\ k - 1 \in 1..Len(u) /\ (k - 1) + 1 = k
    BY <1>1
  <2>3. u[k - 1] = t[k]
    BY <1>1, <2>2
  <2>4. QED
    BY <2>1, <2>2, <2>3
<1>4. OnlyDirect(u, p)
  BY <1>1 DEF Fits, OnlyDirect
<1>5. ASSUME NEW i \in 1..Len(u)
      PROVE  /\ u[i].op # "insert" /\ u[i].op # "save"
             /\ u[i].op = "approve" => i = Len(u)
             /\ u[i].op \in {"refresh", "save"} \cup RegionOps => Has(Plan(p), "refresh")
  <2>1. i + 1 \in 1..Len(t) /\ u[i] = t[i + 1] /\ i + 1 # 1 /\ (i + 1 = Len(t) => i = Len(u))
    BY <1>1
  <2>2. QED
    BY <2>1 DEF Fits
<1>6. ASSUME NEW i \in 1..Len(u), u[i].op \in {"name", "year"}, NEW j \in i..Len(u)
      PROVE  u[j].op # "attach"
  <2>1. i + 1 \in 1..Len(t) /\ u[i] = t[i + 1] /\ j \in 1..Len(u) /\ j + 1 \in (i + 1)..Len(t)
    BY <1>1
  <2>2. t[j + 1].op # "attach"
    BY <1>6, <2>1 DEF Fits
  <2>3. QED
    BY <1>1, <2>1, <2>2
<1>7. Fits(u, p) /\ ~ Has(u, "save") /\ ~ Has(u, "insert")
  BY <1>1, <1>2, <1>3, <1>4, <1>5, <1>6 DEF Fits, Has
<1>8. Head(u) = u[1] /\ 1 \in 1..Len(u)
  BY <1>1, <1>2, TailIndex
<1>9. QED
  BY <1>7, <1>8 DEF Has, u

\* The second half of a refresh takes its place.
LEMMA FitsSave ==
    ASSUME NEW t, NEW p, Fits(t, p), Head(t).op = "refresh"
    PROVE  LET v == Op("save") \o Tail(t) IN
           Fits(v, p) /\ Head(v).op = "save" /\ \A o : Has(t, o) /\ o # "refresh" => Has(v, o)
<1> DEFINE u == Tail(t)
           v == Op("save") \o u
<1>1. Fits(u, p)
  <2>1. Head(t).op # "approve"
    OBVIOUS
  <2>2. QED
    BY <2>1, FitsTail
<1>2. Op("save") \in Seq(Statements) /\ Len(Op("save")) = 1 /\ Op("save")[1].op = "save"
  BY DEF Op, Statements
<1>3. Joined(Op("save"), u, Statements)
  BY <1>1, <1>2, ConcatJoined DEF Fits
<1>4. u \in Seq(Statements) /\ Len(u) \in Nat /\ Len(u) > 0 /\ v \in Seq(Statements) /\ Len(v) = 1 + Len(u)
  <2>1. u \in Seq(Statements) /\ u # <<>>
    BY <1>1 DEF Fits
  <2>2. Len(u) \in Nat /\ Len(u) > 0
    BY <2>1
  <2>3. v \in Seq(Statements) /\ Len(v) = 1 + Len(u)
    BY <1>2, <1>3 DEF Joined
  <2>4. QED
    BY <2>1, <2>2, <2>3
<1>5. v[1].op = "save" /\ Head(v) = v[1] /\ v # <<>>
  BY <1>2, <1>3, <1>4 DEF Joined
<1>6. \A i \in 1..Len(v) : i = 1 \/ (i - 1 \in 1..Len(u) /\ v[i] = u[i - 1])
  <2> SUFFICES ASSUME NEW i \in 1..Len(v), i # 1 PROVE i - 1 \in 1..Len(u) /\ v[i] = u[i - 1]
    OBVIOUS
  <2>1. i - 1 \in 1..Len(u) /\ i = 1 + (i - 1)
    BY <1>4
  <2>2. v[1 + (i - 1)] = u[i - 1]
    BY <1>2, <1>3, <2>1 DEF Joined
  <2>3. QED
    BY <2>1, <2>2
<1>7. \A j \in 1..Len(u) : j + 1 \in 1..Len(v) /\ j + 1 # 1 /\ v[j + 1] = u[j]
  <2> SUFFICES ASSUME NEW j \in 1..Len(u) PROVE j + 1 \in 1..Len(v) /\ j + 1 # 1 /\ v[j + 1] = u[j]
    OBVIOUS
  <2>1. j + 1 \in 1..Len(v) /\ j + 1 # 1 /\ (j + 1) - 1 = j
    BY <1>4
  <2>2. QED
    BY <1>6, <2>1
<1>8. Has(Plan(p), "refresh")
  <2>1. 1 \in 1..Len(t) /\ Head(t) = t[1]
    BY TailIndex DEF Fits
  <2>2. QED
    BY <2>1 DEF Fits
<1> HIDE DEF u, v
<1>9. v[Len(v)].op = "approve"
  <2>1. Len(u) \in 1..Len(u) /\ Len(u) + 1 = Len(v)
    BY <1>4
  <2>2. QED
    BY <1>1, <1>7, <2>1 DEF Fits
<1>10. Healed(v)
  <2> SUFFICES ASSUME NEW i \in 1..Len(v), v[i].op \in RegionOps
               PROVE  \E j \in i..Len(v) : v[j].op = "refresh"
    BY DEF Healed
  <2>1. i # 1
    BY <1>5 DEF RegionOps
  <2>2. i - 1 \in 1..Len(u) /\ v[i] = u[i - 1]
    BY <1>6, <2>1
  <2>3. PICK k \in (i - 1)..Len(u) : u[k].op = "refresh"
    BY <1>1, <2>2 DEF Fits, Healed
  <2>4. k \in 1..Len(u) /\ k + 1 \in i..Len(v)
    BY <1>4, <2>2
  <2>5. QED
    BY <1>7, <2>3, <2>4
<1>11. OnlyDirect(v, p)
  <2> SUFFICES ASSUME NEW i \in 1..Len(v), v[i].op \in {"name", "year"} PROVE Direct(p)
    BY DEF OnlyDirect
  <2>1. i - 1 \in 1..Len(u) /\ v[i] = u[i - 1]
    BY <1>5, <1>6
  <2>2. QED
    BY <1>1, <2>1 DEF Fits, OnlyDirect
<1>12. ASSUME NEW i \in 1..Len(v)
       PROVE  /\ v[i].op = "insert" => i = 1 /\ p.kind = "new_game"
              /\ v[i].op = "save" => i = 1
              /\ v[i].op = "approve" => i = Len(v)
  <2>1. CASE i = 1
    BY <1>5, <2>1
  <2>2. CASE i # 1
    <3>1. i - 1 \in 1..Len(u) /\ v[i] = u[i - 1] /\ (i - 1 = Len(u) => i = Len(v))
      BY <1>4, <1>6, <2>2
    <3>2. i - 1 = 1 => t[2] = u[1] /\ 2 \in 1..Len(t) /\ 2 # 1
      BY <3>1, TailIndex DEF Fits, u
    <3>3. u[i - 1].op # "insert" /\ u[i - 1].op # "save"
      <4>1. (i - 1) + 1 \in 1..Len(t) /\ u[i - 1] = t[(i - 1) + 1] /\ (i - 1) + 1 # 1
        BY <3>1, TailIndex DEF Fits, u
      <4>2. QED
        BY <4>1 DEF Fits
    <3>4. QED
      BY <1>1, <3>1, <3>3 DEF Fits
  <2>3. QED
    BY <2>1, <2>2
<1>13. ASSUME NEW i \in 1..Len(v), v[i].op \in {"name", "year"}, NEW j \in i..Len(v)
       PROVE  v[j].op # "attach"
  <2>1. i # 1
    BY <1>5, <1>13
  <2>2. i - 1 \in 1..Len(u) /\ v[i] = u[i - 1] /\ j \in 1..Len(v) /\ j # 1 /\ j - 1 \in (i - 1)..Len(u)
    BY <1>4, <1>6, <2>1
  <2>3. u[j - 1].op # "attach" /\ v[j] = u[j - 1]
    BY <1>1, <1>6, <1>13, <2>2 DEF Fits
  <2>4. QED
    BY <2>3
<1>14. Fits(v, p)
  BY <1>4, <1>5, <1>8, <1>9, <1>10, <1>11, <1>12, <1>13 DEF Fits
<1>15. ASSUME NEW o, Has(t, o), o # "refresh" PROVE Has(v, o)
  <2>1. Has(u, o)
    BY <1>15, TailHas DEF Fits, u
  <2>2. QED
    BY <1>7, <2>1 DEF Has
<1>16. QED
  BY <1>5, <1>14, <1>15 DEF u, v

-----------------------------------------------------------------------------
(***************************************************************************)
(* Type correctness.  A running approval has a contribution that was made, *)
(* a rest of its plan, and a game unless the next statement inserts it.    *)
(***************************************************************************)
Requests ==
    [sub : Subs \cup {None}, game : Games \cup {None}, todo : Seq(Statements),
     primary : RegionRows \cup {None}, before : GameRows \cup {None}]

RequestFine(p) ==
    LET s == req[p].sub IN
    req[p] # Idle =>
       /\ s \in Subs /\ status[s] # None
       /\ Fits(req[p].todo, payload[s])
       /\ req[p].game = None => Head(req[p].todo).op = "insert"
       /\ req[p].game # None => text[req[p].game] # None
       /\ Head(req[p].todo).op = "save" => req[p].primary # None

SubsFine ==
    \A s \in Subs : /\ status[s] # None => payload[s] \in Payloads
                    /\ target[s] # None => text[target[s]] # None
                    /\ status[s] # None /\ payload[s].kind = "edit" => target[s] # None

TypeInv ==
    /\ TypeOK /\ req \in [Procs -> Requests] /\ SubsFine
    /\ \A p \in Procs : RequestFine(p)

LEMMA IdleTyped == Idle \in Requests
BY DEF Idle, Requests

LEMMA RequestTypes ==
    ASSUME NEW r \in Requests
    PROVE  /\ r.sub \in Subs \cup {None} /\ r.game \in Games \cup {None}
           /\ \A i \in DOMAIN r.todo : r.todo[i].op \in Ops
           /\ r.primary \in RegionRows \cup {None}
           /\ r.before \in GameRows \cup {None}
<1>1. r.todo \in Seq(Statements)
  BY DEF Requests
<1>2. \A i \in DOMAIN r.todo : r.todo[i] \in Statements
  BY <1>1
<1>3. QED
  BY <1>2, StatementOps DEF Requests

LEMMA StatementFields ==
    ASSUME NEW o \in Statements
    PROVE  /\ o.op = "upsert" => o.entry \in Entries
           /\ o.op = "clear" => o.region \in Regions /\ o.field \in {"name", "year"}
           /\ o.op = "drop" => o.region \in Regions
           /\ o.op = "name" => o.name \in Names
           /\ o.op = "year" => o.year \in Years
           /\ o.op = "column" => o.column \in Texts
           /\ o.op = "rom" => o.change \in RomChange
BY DEF Statements, ApplyStatements, RegionStatements

LEMMA TextTyped == TypeOK => text \in [Games -> GameRows \cup {None}]
BY DEF TypeOK

LEMMA HeadFacts ==
    ASSUME TypeInv, NEW p \in Procs, NEW o, At(p, o)
    PROVE  /\ req[p] # Idle /\ req[p] \in Requests /\ req[p].sub \in Subs
           /\ status[req[p].sub] # None /\ payload[req[p].sub] \in Payloads
           /\ Fits(req[p].todo, payload[req[p].sub]) /\ req[p].todo \in Seq(Statements)
           /\ req[p].todo # <<>> /\ Head(req[p].todo).op = o
           /\ This(p) \in Statements /\ This(p) = req[p].todo[1] /\ This(p).op = o
           /\ 1 \in 1..Len(req[p].todo)
           /\ o # "insert" => req[p].game \in Games /\ text[req[p].game] \in GameRows
                              /\ text[req[p].game] # None
<1>1. req[p] # Idle /\ req[p].todo # <<>> /\ Head(req[p].todo).op = o
  BY DEF At, Idle
<1>2. /\ req[p].sub \in Subs /\ status[req[p].sub] # None /\ payload[req[p].sub] \in Payloads
      /\ Fits(req[p].todo, payload[req[p].sub]) /\ req[p] \in Requests
  BY <1>1 DEF TypeInv, RequestFine, SubsFine
<1>3. req[p].todo \in Seq(Statements) /\ req[p].game \in Games \cup {None}
  BY <1>2 DEF Requests
<1>4. This(p) \in Statements /\ This(p) = req[p].todo[1] /\ 1 \in 1..Len(req[p].todo)
  BY <1>1, <1>3, TailIndex DEF This
<1>5. ASSUME o # "insert"
      PROVE  req[p].game \in Games /\ text[req[p].game] \in GameRows /\ text[req[p].game] # None
  <2>1. req[p].game # None /\ text[req[p].game] # None
    BY <1>1, <1>5 DEF TypeInv, RequestFine
  <2>2. QED
    BY <1>3, <2>1, TextTyped DEF TypeInv
<1>6. QED
  BY <1>1, <1>2, <1>3, <1>4, <1>5 DEF This

Grows ==
    /\ \A g \in Games : text[g] # None => text'[g] # None
    /\ \A s \in Subs : status[s] # None => status'[s] # None /\ payload'[s] = payload[s]

\* The other requests of a step.
LEMMA OthersFine ==
    ASSUME TypeInv, Grows, NEW p \in Procs, NEW q \in Procs, req'[q] = req[q]
    PROVE  RequestFine(q)'
<1>1. req[q] \in Requests
  BY DEF TypeInv
<1>2. req[q].game \in Games \cup {None}
  BY <1>1 DEF Requests
<1>3. QED
  BY <1>2 DEF TypeInv, RequestFine, Grows

LEMMA DoneFine ==
    ASSUME TypeInv, Grows, NEW p \in Procs, NEW o, At(p, o), o \notin {"approve", "insert"},
           Done(p)
    PROVE  req' \in [Procs -> Requests] /\ \A q \in Procs : RequestFine(q)'
<1> DEFINE r == req[p]
<1>0. /\ r \in Requests /\ r.todo \in Seq(Statements) /\ r.todo # <<>> /\ r # Idle
      /\ r.game \in Games /\ text[r.game] # None /\ r.sub \in Subs /\ status[r.sub] # None
      /\ Fits(r.todo, payload[r.sub]) /\ Head(r.todo).op = o
  BY HeadFacts
<1>1. Fits(Tail(r.todo), payload[r.sub]) /\ Head(Tail(r.todo)).op # "save"
  BY <1>0, FitsTail
<1>2. Tail(r.todo) \in Seq(Statements)
  BY <1>0
<1>3. req' = [req EXCEPT ![p] = [r EXCEPT !.todo = Tail(r.todo)]]
  BY DEF Done
<1>4. [r EXCEPT !.todo = Tail(r.todo)] \in Requests
  BY <1>0, <1>2 DEF Requests
<1>5. req \in [Procs -> Requests]
  BY DEF TypeInv
<1>6. req' \in [Procs -> Requests]
  BY <1>3, <1>4, <1>5
<1>7. \A q \in Procs \ {p} : req'[q] = req[q]
  BY <1>3, <1>5
<1>8. /\ req'[p].sub = r.sub /\ req'[p].game = r.game /\ req'[p].todo = Tail(r.todo)
  BY <1>0, <1>3, <1>5 DEF Requests
<1>9. RequestFine(p)'
  <2>1. /\ status'[r.sub] # None /\ payload'[r.sub] = payload[r.sub]
        /\ r.game # None /\ text'[r.game] # None
    BY <1>0, GameTextAssumption DEF Grows, GameTextAssumption
  <2>2. QED
    BY <1>0, <1>1, <1>8, <2>1 DEF RequestFine
<1>10. QED
  BY <1>6, <1>7, <1>9, OthersFine

\* The text of the game a request is about.
LEMMA StoreTyped ==
    ASSUME TypeInv, NEW p \in Procs, NEW o, At(p, o), o # "insert", NEW t \in GameRows, Store(p, t),
           UNCHANGED <<status, payload>>
    PROVE  text' \in [Games -> GameRows \cup {None}] /\ Grows
<1>1. req[p].game \in Games /\ text \in [Games -> GameRows \cup {None}] /\ t # None
  BY HeadFacts, TextTyped, GameTextAssumption DEF TypeInv, GameTextAssumption
<1>2. QED
  BY <1>1 DEF Store, Grows

LEMMA RowTyped ==
    ASSUME NEW t \in GameRows, NEW r \in Regions, NEW x \in RegionRows \cup {None}
    PROVE  [t EXCEPT !.regions[r] = x] \in GameRows /\ [t EXCEPT !.regions[r] = x].name = t.name
BY DEF GameRows

\* A change to the regions of the game leaves its name.
NameStored(p) == \E t \in GameRows : Store(p, t) /\ t.name = text[req[p].game].name

LEMMA UpsertTyped ==
    ASSUME TypeInv, NEW p \in Procs, UpsertGameRegion(p)
    PROVE  text' \in [Games -> GameRows \cup {None}] /\ Grows /\ NameStored(p)
<1>0. At(p, "upsert")
  BY DEF UpsertGameRegion
<1>1. PICK t \in GameRows, e \in Entries : t = text[req[p].game] /\ e = This(p).entry /\ At(p, "upsert")
  BY <1>0, HeadFacts, StatementFields
<1> DEFINE old == IF t.regions[e.region] = None THEN [name |-> None, year |-> None] ELSE t.regions[e.region]
           new == [name |-> Or(e.name, old.name), year |-> Or(e.year, old.year)]
<1>2. old.name \in Names \cup {None} /\ old.year \in Years \cup {None}
  BY DEF GameRows, RegionRows, Entries
<1>3. new \in RegionRows /\ e.region \in Regions
  BY <1>2 DEF RegionRows, Entries, Or
<1>4. Store(p, [t EXCEPT !.regions[e.region] = new])
  BY <1>1 DEF UpsertGameRegion
<1> HIDE DEF new
<1> DEFINE u == [t EXCEPT !.regions[e.region] = new]
<1>5. u \in GameRows /\ u.name = t.name
  BY <1>3, RowTyped
<1>6. UNCHANGED <<status, payload>>
  BY DEF UpsertGameRegion, Rest
<1> HIDE DEF u, old
<1>7. Store(p, u)
  BY <1>4 DEF u
<1>8. NameStored(p)
  BY <1>1, <1>5, <1>7 DEF NameStored
<1>9. QED
  BY <1>1, <1>5, <1>6, <1>7, <1>8, StoreTyped

LEMMA ClearTyped ==
    ASSUME TypeInv, NEW p \in Procs, ClearGameRegion(p)
    PROVE  text' \in [Games -> GameRows \cup {None}] /\ Grows /\ NameStored(p)
<1>1. PICK t \in GameRows, r \in Regions, f \in {"name", "year"} :
         t = text[req[p].game] /\ r = This(p).region /\ f = This(p).field /\ At(p, "clear")
  BY HeadFacts, StatementFields DEF ClearGameRegion
<1>2. CASE t.regions[r] = None
  <2>1. Store(p, t)
    BY <1>1, <1>2 DEF ClearGameRegion
  <2>2. NameStored(p)
    BY <1>1, <2>1 DEF NameStored
  <2>3. QED
    BY <1>1, <2>1, <2>2, StoreTyped DEF ClearGameRegion, Rest
<1>3. CASE t.regions[r] # None
  <2>1. t.regions[r] \in RegionRows
    BY <1>3 DEF GameRows
  <2>2. [t.regions[r] EXCEPT ![f] = None] \in RegionRows
    <3>1. CASE f = "name"
      BY <2>1, <3>1 DEF RegionRows
    <3>2. CASE f = "year"
      BY <2>1, <3>2 DEF RegionRows
    <3>3. QED
      BY <3>1, <3>2
  <2>3. Store(p, [t EXCEPT !.regions[r][f] = None])
    BY <1>1, <1>3 DEF ClearGameRegion
  <2>4. [t EXCEPT !.regions[r][f] = None] = [t EXCEPT !.regions[r] = [t.regions[r] EXCEPT ![f] = None]]
    OBVIOUS
  <2>5. [t EXCEPT !.regions[r][f] = None] \in GameRows
    BY <2>2, <2>4, RowTyped
  <2>6. [t EXCEPT !.regions[r][f] = None].name = t.name
    BY <2>2, <2>4, RowTyped
  <2>7. NameStored(p)
    BY <1>1, <2>3, <2>5, <2>6 DEF NameStored
  <2>8. QED
    BY <1>1, <2>3, <2>5, <2>7, StoreTyped DEF ClearGameRegion, Rest
<1>4. QED
  BY <1>2, <1>3

LEMMA DropTyped ==
    ASSUME TypeInv, NEW p \in Procs, DropEmptyRegion(p)
    PROVE  text' \in [Games -> GameRows \cup {None}] /\ Grows /\ NameStored(p)
<1>1. PICK t \in GameRows, r \in Regions :
         t = text[req[p].game] /\ r = This(p).region /\ At(p, "drop")
  BY HeadFacts, StatementFields DEF DropEmptyRegion
<1>2. [t EXCEPT !.regions[r] = None] \in GameRows /\ [t EXCEPT !.regions[r] = None].name = t.name
  BY RowTyped
<1>3. PICK u \in GameRows : Store(p, u) /\ u.name = t.name
  <2>1. Store(p, IF t.regions[r] = [name |-> None, year |-> None] THEN [t EXCEPT !.regions[r] = None] ELSE t)
    BY <1>1 DEF DropEmptyRegion
  <2>2. QED
    BY <1>2, <2>1
<1>4. NameStored(p)
  BY <1>1, <1>3 DEF NameStored
<1>5. QED
  BY <1>1, <1>3, <1>4, StoreTyped DEF DropEmptyRegion, Rest

LEMMA ColumnsTyped ==
    ASSUME TypeInv, NEW p \in Procs, SetGameName(p) \/ SetGameRelease(p) \/ SetGameColumn(p)
    PROVE  text' \in [Games -> GameRows \cup {None}] /\ Grows
<1>1. CASE SetGameName(p)
  <2>1. PICK t \in GameRows, n \in Names : t = text[req[p].game] /\ n = This(p).name /\ At(p, "name")
    BY <1>1, HeadFacts, StatementFields DEF SetGameName
  <2>2. [t EXCEPT !.name = n] \in GameRows
    BY DEF GameRows
  <2>3. QED
    BY <1>1, <2>1, <2>2, StoreTyped DEF SetGameName, Rest
<1>2. CASE SetGameRelease(p)
  <2>1. PICK t \in GameRows, y \in Years : t = text[req[p].game] /\ y = This(p).year /\ At(p, "year")
    BY <1>2, HeadFacts, StatementFields DEF SetGameRelease
  <2>2. [t EXCEPT !.year = y] \in GameRows
    BY DEF GameRows
  <2>3. QED
    BY <1>2, <2>1, <2>2, StoreTyped DEF SetGameRelease, Rest
<1>3. CASE SetGameColumn(p)
  <2>1. PICK t \in GameRows, c \in Texts : t = text[req[p].game] /\ c = This(p).column /\ At(p, "column")
    BY <1>3, HeadFacts, StatementFields DEF SetGameColumn
  <2>2. [t EXCEPT !.column = c] \in GameRows
    BY DEF GameRows
  <2>3. QED
    BY <1>3, <2>1, <2>2, StoreTyped DEF SetGameColumn, Rest
<1>4. QED
  BY <1>1, <1>2, <1>3

LEMMA ListTyped ==
    ASSUME TypeInv, NEW p \in Procs, ListGameRegions(p)
    PROVE  Grows /\ req' \in [Procs -> Requests] /\ \A q \in Procs : RequestFine(q)'
<1> DEFINE r == req[p]
           t == text[r.game]
           found == [name |-> First(t, "name"), year |-> First(t, "year")]
           left == Op("save") \o Tail(r.todo)
<1>1. /\ At(p, "refresh") /\ r \in Requests /\ t \in GameRows /\ r.game \in Games /\ t # None
      /\ Fits(left, payload[r.sub]) /\ r.sub \in Subs /\ status[r.sub] # None
  BY HeadFacts, FitsSave DEF ListGameRegions
<1>2. found \in RegionRows
  BY <1>1, FirstTyped DEF RegionRows
<1>3. req' = [req EXCEPT ![p] = [r EXCEPT !.primary = found, !.todo = left]]
  BY DEF ListGameRegions
<1> HIDE DEF found, left
<1>4. left \in Seq(Statements) /\ [r EXCEPT !.primary = found, !.todo = left] \in Requests
  BY <1>1, <1>2 DEF Requests, Fits
<1>5. req \in [Procs -> Requests] /\ Grows
  BY DEF TypeInv, ListGameRegions, Rest, Grows
<1>6. req' \in [Procs -> Requests] /\ \A q \in Procs \ {p} : req'[q] = req[q]
  BY <1>3, <1>4, <1>5
<1>7. req'[p].sub = r.sub /\ req'[p].game = r.game /\ req'[p].todo = left
  BY <1>1, <1>3, <1>5 DEF Requests
<1>8. RequestFine(p)'
  <2>1. req'[p].primary = found /\ found # None
    BY <1>1, <1>2, <1>3, <1>5, GameTextAssumption DEF Requests, GameTextAssumption
  <2>2. QED
    BY <1>1, <1>5, <1>7, <2>1, GameTextAssumption DEF RequestFine, GameTextAssumption, ListGameRegions, Rest
<1>9. QED
  BY <1>5, <1>6, <1>8, OthersFine

LEMMA SaveTyped ==
    ASSUME TypeInv, NEW p \in Procs, SaveGamePrimary(p)
    PROVE  /\ text' \in [Games -> GameRows \cup {None}] /\ Grows
           /\ req' \in [Procs -> Requests] /\ \A q \in Procs : RequestFine(q)'
<1> DEFINE r == req[p]
<1>1. /\ At(p, "save") /\ r \in Requests /\ r.game \in Games
      /\ Fits(Tail(r.todo), payload[r.sub]) /\ r.sub \in Subs /\ status[r.sub] # None
      /\ Head(Tail(r.todo)).op # "save" /\ r.primary # None
  BY HeadFacts, FitsTail DEF SaveGamePrimary, TypeInv, RequestFine
<1>2. PICK t \in GameRows : t = text[r.game]
  BY <1>1, HeadFacts
<1>20. PICK found \in RegionRows : found = r.primary
  BY <1>1 DEF Requests
<1>3. [t EXCEPT !.name = Or(found.name, @), !.year = Or(found.year, @)] \in GameRows
  BY DEF GameRows, RegionRows, Or
<1>4. text' \in [Games -> GameRows \cup {None}] /\ Grows
  BY <1>1, <1>2, <1>20, <1>3, StoreTyped DEF SaveGamePrimary, Rest
<1>5. req' = [req EXCEPT ![p] = [r EXCEPT !.primary = None, !.todo = Tail(r.todo)]]
  BY DEF SaveGamePrimary
<1>6. [r EXCEPT !.primary = None, !.todo = Tail(r.todo)] \in Requests
  BY <1>1 DEF Requests, Fits
<1>7. req \in [Procs -> Requests]
  BY DEF TypeInv
<1>8. req' \in [Procs -> Requests] /\ \A q \in Procs \ {p} : req'[q] = req[q]
  BY <1>5, <1>6, <1>7
<1>9. req'[p].sub = r.sub /\ req'[p].game = r.game /\ req'[p].todo = Tail(r.todo)
  BY <1>1, <1>5, <1>7 DEF Requests
<1>10. RequestFine(p)'
  <2>1. /\ status'[r.sub] # None /\ payload'[r.sub] = payload[r.sub]
        /\ r.game # None /\ text'[r.game] # None
    BY <1>1, <1>4, HeadFacts, GameTextAssumption DEF Grows, GameTextAssumption
  <2>2. QED
    BY <1>1, <1>9, <2>1 DEF RequestFine
<1>11. QED
  BY <1>4, <1>8, <1>10, OthersFine

LEMMA InsertTyped ==
    ASSUME TypeInv, NEW p \in Procs, InsertGame(p)
    PROVE  /\ text' \in [Games -> GameRows \cup {None}] /\ Grows
           /\ req' \in [Procs -> Requests] /\ \A q \in Procs : RequestFine(q)'
<1> DEFINE r == req[p]
           pl == payload[r.sub]
           new == [name |-> pl.name, year |-> pl.year, column |-> pl.column,
                   regions |-> [x \in Regions |-> None]]
<1>1. PICK g \in Games : /\ text[g] = None /\ text' = [text EXCEPT ![g] = new]
                         /\ req' = [req EXCEPT ![p].todo = Tail(@), ![p].game = g, ![p].before = new]
  BY DEF InsertGame
<1>2. /\ At(p, "insert") /\ r \in Requests /\ r.sub \in Subs /\ status[r.sub] # None
      /\ pl \in Payloads /\ Fits(r.todo, pl) /\ Head(r.todo).op = "insert" /\ r # Idle
      /\ This(p) = r.todo[1] /\ This(p).op = "insert" /\ 1 \in 1..Len(r.todo)
  BY HeadFacts DEF InsertGame
<1>3. pl.kind = "new_game"
  BY <1>2 DEF Fits
<1>4. new \in GameRows /\ new # None
  <2>1. pl.name \in Names /\ pl.year \in Years \cup {None} /\ pl.column \in Texts \cup {None}
    BY <1>2, <1>3, PayloadFields
  <2>2. new \in GameRows
    BY <2>1 DEF GameRows
  <2>3. QED
    BY <2>2, GameTextAssumption DEF GameTextAssumption
<1> HIDE DEF new
<1>5. text' \in [Games -> GameRows \cup {None}] /\ Grows
  BY <1>1, <1>4, TextTyped DEF TypeInv, Grows, InsertGame, Rest
<1>6. Fits(Tail(r.todo), pl) /\ Head(Tail(r.todo)).op # "save"
  BY <1>2, FitsTail
<1>7. req' = [req EXCEPT ![p] = [r EXCEPT !.todo = Tail(r.todo), !.game = g, !.before = new]]
  BY <1>1, <1>2 DEF TypeInv, Requests
<1>8. Tail(r.todo) \in Seq(Statements)
  BY <1>6 DEF Fits
<1>9. [r EXCEPT !.todo = Tail(r.todo), !.game = g, !.before = new] \in Requests
  BY <1>2, <1>4, <1>8 DEF Requests
<1>10. req \in [Procs -> Requests]
  BY DEF TypeInv
<1>11. req' \in [Procs -> Requests] /\ \A q \in Procs \ {p} : req'[q] = req[q]
  BY <1>7, <1>9, <1>10
<1>12. req'[p].sub = r.sub /\ req'[p].game = g /\ req'[p].todo = Tail(r.todo)
  BY <1>2, <1>7, <1>10 DEF Requests
<1>13. RequestFine(p)'
  <2>1. /\ status'[r.sub] # None /\ payload'[r.sub] = pl /\ g # None /\ text'[g] # None
    BY <1>1, <1>2, <1>4, <1>5, TextTyped, GameTextAssumption DEF Grows, GameTextAssumption, TypeInv
  <2>2. QED
    BY <1>2, <1>6, <1>12, <2>1 DEF RequestFine
<1>14. QED
  BY <1>5, <1>11, <1>13, OthersFine

LEMMA ApproveTyped ==
    ASSUME TypeInv, NEW p \in Procs, NEW s \in Subs, ApproveMetadataSubmission(p, s)
    PROVE  req' \in [Procs -> Requests] /\ \A q \in Procs : RequestFine(q)'
<1> DEFINE pl == payload[s]
           r == [sub |-> s, game |-> target[s], primary |-> None, todo |-> Plan(pl),
                 before |-> IF target[s] = None THEN None ELSE text[target[s]]]
<1>1. /\ status[s] = "pending"
      /\ pl.kind = "new_game" => target[s] = None
      /\ req' = [req EXCEPT ![p] = r]
      /\ UNCHANGED <<text, status, payload>>
  BY DEF ApproveMetadataSubmission
<1>2. status[s] # None /\ target[s] \in Games \cup {None}
  <2>1. "pending" # None
    BY GameTextAssumption DEF GameTextAssumption
  <2>2. QED
    BY <1>1, <2>1 DEF TypeInv, TypeOK
<1>3. pl \in Payloads
  BY <1>2 DEF TypeInv, SubsFine
<1>4. /\ Fits(Plan(pl), pl)
      /\ pl.kind = "new_game" => Plan(pl)[1].op = "insert"
      /\ ~ Has(Plan(pl), "save")
  BY <1>3, PlanFits
<1>5. Plan(pl) \in Seq(Statements) /\ Head(Plan(pl)) = Plan(pl)[1] /\ 1 \in 1..Len(Plan(pl))
  <2>1. Plan(pl) \in Seq(Statements) /\ Plan(pl) # <<>>
    BY <1>4 DEF Fits
  <2>2. QED
    BY <2>1, TailIndex
<1>6. r \in Requests
  BY <1>2, <1>5, TextTyped DEF Requests, TypeInv
<1>7. req \in [Procs -> Requests] /\ Grows
  BY <1>1 DEF TypeInv, Grows
<1>8. /\ req' \in [Procs -> Requests] /\ \A q \in Procs \ {p} : req'[q] = req[q]
      /\ req'[p] = r
  BY <1>1, <1>6, <1>7
<1>9. target[s] = None => pl.kind = "new_game"
  BY <1>2, <1>3, PayloadFields DEF TypeInv, SubsFine
<1>10. RequestFine(p)'
  <2>1. target[s] # None => text[target[s]] # None
    BY DEF TypeInv, SubsFine
  <2>2. Head(Plan(pl)).op # "save"
    BY <1>4, <1>5 DEF Has
  <2>3. QED
    BY <1>1, <1>2, <1>4, <1>5, <1>8, <1>9, <2>1, <2>2 DEF RequestFine
<1>11. QED
  BY <1>7, <1>8, <1>10, OthersFine

\* A request that ends.
LEMMA EndTyped ==
    ASSUME TypeInv, Grows, NEW p \in Procs, req' = [req EXCEPT ![p] = Idle]
    PROVE  req' \in [Procs -> Requests] /\ \A q \in Procs : RequestFine(q)'
<1>1. req \in [Procs -> Requests]
  BY DEF TypeInv
<1>2. /\ req' \in [Procs -> Requests] /\ \A q \in Procs \ {p} : req'[q] = req[q]
      /\ req'[p] = Idle
  BY <1>1, IdleTyped
<1>3. RequestFine(p)'
  BY <1>2 DEF RequestFine, Idle
<1>4. QED
  BY <1>2, <1>3, OthersFine

LEMMA NewSubTyped ==
    ASSUME TypeInv, NEW s \in Subs, NEW p \in Payloads, CreateMetadataSubmission(s, p)
    PROVE  TypeInv'
<1>1. /\ status[s] = None /\ status' = [status EXCEPT ![s] = "pending"]
      /\ payload' = [payload EXCEPT ![s] = p] /\ target' = [target EXCEPT ![s] = p.game]
      /\ UNCHANGED <<text, roms, req, started, clean>>
      /\ p.kind = "edit" => text[p.game] # None
  BY DEF CreateMetadataSubmission
<1>2. /\ p.game \in Games \cup {None}
      /\ p.kind = "edit" => p.game \in Games
      /\ p.kind = "new_game" => p.game = None
      /\ p.kind \in {"edit", "new_game"}
  BY PayloadFields
<1>3. status \in [Subs -> {None, "pending", "approved", "rejected"}]
      /\ payload \in [Subs -> Payloads \cup {None}] /\ target \in [Subs -> Games \cup {None}]
  BY DEF TypeInv, TypeOK
<1>4. TypeOK'
  <2>1. /\ status' \in [Subs -> {None, "pending", "approved", "rejected"}]
        /\ payload' \in [Subs -> Payloads \cup {None}] /\ target' \in [Subs -> Games \cup {None}]
    BY <1>1, <1>2, <1>3
  <2>2. QED
    BY <1>1, <2>1 DEF TypeInv, TypeOK
<1>5. SubsFine'
  <2> SUFFICES ASSUME NEW x \in Subs
               PROVE  /\ status'[x] # None => payload'[x] \in Payloads
                      /\ target'[x] # None => text'[target'[x]] # None
                      /\ status'[x] # None /\ payload'[x].kind = "edit" => target'[x] # None
    BY DEF SubsFine
  <2>1. CASE x = s
    <3>1. payload'[x] = p /\ target'[x] = p.game /\ text' = text
      BY <1>1, <1>3, <2>1
    <3>2. QED
      BY <1>1, <1>2, <3>1, GameTextAssumption DEF GameTextAssumption
  <2>2. CASE x # s
    <3>1. /\ payload'[x] = payload[x] /\ target'[x] = target[x] /\ status'[x] = status[x]
          /\ text' = text
      BY <1>1, <1>3, <2>2
    <3>2. QED
      BY <3>1 DEF TypeInv, SubsFine
  <2>3. QED
    BY <2>1, <2>2
<1>6. Grows
  <2>1. "pending" # None
    BY GameTextAssumption DEF GameTextAssumption
  <2>2. QED
    BY <1>1, <1>3, <2>1 DEF Grows
<1>7. \A q \in Procs : RequestFine(q)'
  BY <1>1, <1>6, OthersFine
<1>8. QED
  BY <1>1, <1>4, <1>5, <1>7 DEF TypeInv

\* Contributions keep what they ask for.
LEMMA SubsKept ==
    ASSUME TypeInv, Grows, target' = target
    PROVE  (\A s \in Subs : status'[s] # None => status[s] # None) => SubsFine'
<1> SUFFICES ASSUME \A s \in Subs : status'[s] # None => status[s] # None, NEW s \in Subs
             PROVE  /\ status'[s] # None => payload'[s] \in Payloads
                    /\ target'[s] # None => text'[target'[s]] # None
                    /\ status'[s] # None /\ payload'[s].kind = "edit" => target'[s] # None
  BY DEF SubsFine
<1>1. target[s] \in Games \cup {None}
  BY DEF TypeInv, TypeOK
<1>2. QED
  BY <1>1 DEF TypeInv, SubsFine, Grows

LEMMA AttachTyped ==
    ASSUME TypeInv, NEW p \in Procs, SetMetadataSubmissionGame(p)
    PROVE  TypeInv'
<1> DEFINE r == req[p]
<1>1. /\ At(p, "attach") /\ target' = [target EXCEPT ![r.sub] = r.game] /\ Done(p)
      /\ UNCHANGED <<status, payload, started, clean, text, roms>>
  BY DEF SetMetadataSubmissionGame, Rest
<1>2. r.game \in Games /\ text[r.game] # None /\ r.sub \in Subs
  BY <1>1, HeadFacts
<1>3. Grows
  BY <1>1 DEF Grows
<1>4. req' \in [Procs -> Requests] /\ \A q \in Procs : RequestFine(q)'
  BY <1>1, <1>3, DoneFine
<1>5. target \in [Subs -> Games \cup {None}]
  BY DEF TypeInv, TypeOK
<1>6. target' \in [Subs -> Games \cup {None}]
  BY <1>1, <1>2, <1>5
<1>7. SubsFine'
  <2> SUFFICES ASSUME NEW s \in Subs
               PROVE  /\ status'[s] # None => payload'[s] \in Payloads
                      /\ target'[s] # None => text'[target'[s]] # None
                      /\ status'[s] # None /\ payload'[s].kind = "edit" => target'[s] # None
    BY DEF SubsFine
  <2>1. CASE s = r.sub
    <3>1. target'[s] = r.game /\ r.game # None
      BY <1>1, <1>2, <1>5, <2>1, GameTextAssumption DEF GameTextAssumption
    <3>2. QED
      BY <1>1, <1>2, <3>1 DEF TypeInv, SubsFine
  <2>2. CASE s # r.sub
    <3>1. target'[s] = target[s]
      BY <1>1, <1>5, <2>2
    <3>2. QED
      BY <1>1, <3>1 DEF TypeInv, SubsFine
  <2>3. QED
    BY <2>1, <2>2
<1>8. TypeOK'
  <2>1. \A q \in Procs :
           /\ req'[q].sub \in Subs \cup {None} /\ req'[q].game \in Games \cup {None}
           /\ \A i \in DOMAIN req'[q].todo : req'[q].todo[i].op \in Ops
           /\ req'[q].primary \in RegionRows \cup {None}
           /\ req'[q].before \in GameRows \cup {None}
    BY <1>4, RequestTypes
  <2>2. QED
    BY <1>1, <1>6, <2>1 DEF TypeInv, TypeOK
<1>9. QED
  BY <1>4, <1>7, <1>8 DEF TypeInv

\* Dumps: an id is used once, and a hash once for a game.
RomsTyped ==
    /\ \A x \in roms : x \in [id : Dumps, game : Games, sha1 : Hashes \cup {None}]
    /\ \A x, y \in roms : x.id = y.id \/ (x.game = y.game /\ x.sha1 = y.sha1 /\ x.sha1 # None) => x = y

LEMMA RomFields ==
    ASSUME TypeInv, NEW p \in Procs, At(p, "rom")
    PROVE  This(p).change \in RomChange /\ req[p].game \in Games
BY HeadFacts, StatementFields

LEMMA RomsStep ==
    ASSUME TypeInv, NEW p \in Procs, AddRom(p) \/ UpdateRom(p) \/ DeleteRom(p)
    PROVE  RomsTyped'
<1>1. PICK g \in Games, c \in RomChange : g = req[p].game /\ c = This(p).change
  BY RomFields DEF AddRom, UpdateRom, DeleteRom
<1>2. RomsTyped /\ c.sha1 \in Hashes \cup {None}
  BY DEF TypeInv, TypeOK, RomsTyped, RomChange
<1>3. CASE AddRom(p)
  <2>1. PICK i \in Dumps \ {x.id : x \in roms} :
           roms' = roms \cup {[id |-> i, game |-> g, sha1 |-> c.sha1]}
    BY <1>1, <1>3 DEF AddRom, RomChangeDone
  <2>2. c.sha1 = None \/ \A x \in roms : ~(x.game = g /\ x.sha1 = c.sha1)
    BY <1>1, <1>3 DEF AddRom, HashFree
  <2>3. QED
    BY <1>2, <2>1, <2>2 DEF RomsTyped
<1>4. CASE UpdateRom(p)
  <2> DEFINE old == {x \in roms : x.id = c.id /\ x.game = g}
  <2>1. roms' = (roms \ old) \cup {[x EXCEPT !.sha1 = c.sha1] : x \in old}
    BY <1>1, <1>4 DEF UpdateRom, RomChangeDone
  <2>2. CASE old = {}
    <3>1. roms' = roms
      BY <2>1, <2>2
    <3>2. QED
      BY <1>2, <3>1 DEF RomsTyped
  <2>3. CASE old # {}
    <3>1. PICK x \in roms : x \in old
      BY <2>3
    <3>2. old = {x}
      BY <1>2, <3>1 DEF RomsTyped
    <3>3. c.sha1 = None \/ \A y \in roms \ old : ~(y.game = g /\ y.sha1 = c.sha1)
      BY <1>1, <1>4, <2>3 DEF UpdateRom, HashFree
    <3> DEFINE new == [id |-> x.id, game |-> g, sha1 |-> c.sha1]
    <3>4. x \in [id : Dumps, game : Games, sha1 : Hashes \cup {None}] /\ x.game = g
      BY <1>2, <3>1 DEF RomsTyped
    <3>5. [x EXCEPT !.sha1 = c.sha1] = new
      BY <3>4
    <3>6. roms' = (roms \ {x}) \cup {new}
      <4>1. {[y EXCEPT !.sha1 = c.sha1] : y \in {x}} = {[x EXCEPT !.sha1 = c.sha1]}
        OBVIOUS
      <4>2. roms' = (roms \ {x}) \cup {[y EXCEPT !.sha1 = c.sha1] : y \in {x}}
        BY <2>1, <3>2
      <4>3. QED
        BY <4>1, <4>2, <3>5
    <3>7. \A y \in roms \ {x} : y.id # new.id /\ ~(y.game = g /\ y.sha1 = c.sha1 /\ y.sha1 # None)
      BY <1>2, <3>1, <3>2, <3>3 DEF RomsTyped
    <3>8. new \in [id : Dumps, game : Games, sha1 : Hashes \cup {None}]
      BY <1>2, <3>4
    <3>9. new.game = g /\ new.sha1 = c.sha1
      OBVIOUS
    <3> HIDE DEF new, old
    <3>10. QED
      BY <1>2, <3>6, <3>7, <3>8, <3>9 DEF RomsTyped
  <2>4. QED
    BY <2>2, <2>3
<1>5. CASE DeleteRom(p)
  <2>1. roms' \subseteq roms
    BY <1>5 DEF DeleteRom, RomChangeDone
  <2>2. QED
    BY <1>2, <2>1 DEF RomsTyped
<1>6. QED
  BY <1>3, <1>4, <1>5

LEMMA StatementTyped ==
    ASSUME TypeInv, NEW p \in Procs, Statement(p)
    PROVE  TypeInv'
<1>1. ASSUME text' \in [Games -> GameRows \cup {None}], Grows, UNCHANGED <<status, payload, target, started, clean>>,
             RomsTyped', req' \in [Procs -> Requests], \A q \in Procs : RequestFine(q)'
      PROVE  TypeInv'
  <2>1. SubsFine'
    BY <1>1, SubsKept
  <2>2. \A q \in Procs :
           /\ req'[q].sub \in Subs \cup {None} /\ req'[q].game \in Games \cup {None}
           /\ \A i \in DOMAIN req'[q].todo : req'[q].todo[i].op \in Ops
           /\ req'[q].primary \in RegionRows \cup {None}
           /\ req'[q].before \in GameRows \cup {None}
    BY <1>1, RequestTypes
  <2>3. TypeOK'
    BY <1>1, <2>2 DEF TypeInv, TypeOK, RomsTyped
  <2>4. QED
    BY <1>1, <2>1, <2>3 DEF TypeInv
<1>2. RomsTyped
  BY DEF TypeInv, TypeOK, RomsTyped
<1>3. CASE InsertGame(p)
  <2>1. UNCHANGED <<status, payload, target, started, clean>> /\ RomsTyped'
    BY <1>2, <1>3 DEF InsertGame, Rest, RomsTyped
  <2>2. QED
    BY <1>1, <1>3, <2>1, InsertTyped
<1>4. CASE ListGameRegions(p)
  <2>1. UNCHANGED <<status, payload, target, started, clean, text>> /\ RomsTyped'
    BY <1>2, <1>4 DEF ListGameRegions, Rest, RomsTyped
  <2>2. QED
    BY <1>1, <1>4, <2>1, ListTyped, TextTyped DEF TypeInv
<1>5. CASE SaveGamePrimary(p)
  <2>1. UNCHANGED <<status, payload, target, started, clean>> /\ RomsTyped'
    BY <1>2, <1>5 DEF SaveGamePrimary, Rest, RomsTyped
  <2>2. QED
    BY <1>1, <1>5, <2>1, SaveTyped
<1>6. CASE UpsertGameRegion(p) \/ ClearGameRegion(p) \/ DropEmptyRegion(p)
           \/ SetGameName(p) \/ SetGameRelease(p) \/ SetGameColumn(p)
  <2>0. UNCHANGED <<status, payload, target, started, clean, roms>>
    <3>1. CASE UpsertGameRegion(p)
      BY <3>1 DEF UpsertGameRegion, Rest
    <3>2. CASE ClearGameRegion(p)
      BY <3>2 DEF ClearGameRegion, Rest
    <3>3. CASE DropEmptyRegion(p)
      BY <3>3 DEF DropEmptyRegion, Rest
    <3>4. CASE SetGameName(p) \/ SetGameRelease(p) \/ SetGameColumn(p)
      BY <3>4 DEF SetGameName, SetGameRelease, SetGameColumn, Rest
    <3>5. QED
      BY <1>6, <3>1, <3>2, <3>3, <3>4
  <2>1. UNCHANGED <<status, payload, target, started, clean>> /\ RomsTyped'
    BY <1>2, <2>0 DEF RomsTyped
  <2>2. text' \in [Games -> GameRows \cup {None}] /\ Grows
    BY <1>6, UpsertTyped, ClearTyped, DropTyped, ColumnsTyped
  <2>3. Done(p) /\ \E o : At(p, o) /\ o \notin {"approve", "insert"}
    <3>1. CASE UpsertGameRegion(p)
      <4>1. At(p, "upsert") /\ Done(p)
        BY <3>1 DEF UpsertGameRegion
      <4>2. QED
        BY <4>1
    <3>2. CASE ClearGameRegion(p)
      <4>1. At(p, "clear") /\ Done(p)
        BY <3>2 DEF ClearGameRegion
      <4>2. QED
        BY <4>1
    <3>3. CASE DropEmptyRegion(p)
      <4>1. At(p, "drop") /\ Done(p)
        BY <3>3 DEF DropEmptyRegion
      <4>2. QED
        BY <4>1
    <3>4. CASE SetGameName(p)
      BY <3>4 DEF SetGameName
    <3>5. CASE SetGameRelease(p)
      BY <3>5 DEF SetGameRelease
    <3>6. CASE SetGameColumn(p)
      BY <3>6 DEF SetGameColumn
    <3>7. QED
      BY <1>6, <3>1, <3>2, <3>3, <3>4, <3>5, <3>6
  <2>4. QED
    BY <1>1, <2>1, <2>2, <2>3, DoneFine
<1>7. CASE AddRom(p) \/ UpdateRom(p) \/ DeleteRom(p)
  <2>1. /\ UNCHANGED <<status, payload, target, started, clean, text>>
        /\ Done(p) /\ At(p, "rom")
    BY <1>7 DEF AddRom, UpdateRom, DeleteRom, RomChangeDone, Rest
  <2>2. Grows /\ text' \in [Games -> GameRows \cup {None}]
    BY <2>1, TextTyped DEF Grows, TypeInv
  <2>3. RomsTyped'
    BY <1>7, RomsStep
  <2>4. QED
    BY <1>1, <2>1, <2>2, <2>3, DoneFine
<1>8. CASE SetMetadataSubmissionGame(p)
  BY <1>8, AttachTyped
<1>9. CASE SetMetadataStatus(p)
  <2> DEFINE s == req[p].sub
  <2>1. /\ At(p, "approve") /\ status' = [status EXCEPT ![s] = "approved"]
        /\ req' = [req EXCEPT ![p] = Idle]
        /\ UNCHANGED <<text, roms, payload, target, started, clean>>
    BY <1>9 DEF SetMetadataStatus
  <2>2. s \in Subs /\ status[s] # None /\ "approved" # None
    BY <2>1, HeadFacts, GameTextAssumption DEF GameTextAssumption
  <2>3. /\ status \in [Subs -> {None, "pending", "approved", "rejected"}]
        /\ status' \in [Subs -> {None, "pending", "approved", "rejected"}]
    BY <2>1, <2>2 DEF TypeInv, TypeOK
  <2>4. Grows /\ \A x \in Subs : status'[x] # None => status[x] # None
    BY <2>1, <2>2, <2>3 DEF Grows
  <2>5. req' \in [Procs -> Requests] /\ \A q \in Procs : RequestFine(q)'
    BY <2>1, <2>4, EndTyped
  <2>6. SubsFine'
    BY <2>1, <2>4, SubsKept
  <2>7. QED
    BY <2>1, <2>3, <2>5, <2>6, RequestTypes DEF TypeInv, TypeOK
<1>10. QED
  BY <1>3, <1>4, <1>5, <1>6, <1>7, <1>8, <1>9 DEF Statement

LEMMA TypeStep == TypeInv /\ [Next]_vars => TypeInv'
<1> SUFFICES ASSUME TypeInv, [Next]_vars PROVE TypeInv'
  OBVIOUS
<1>1. CASE UNCHANGED vars
  BY <1>1 DEF vars, TypeInv, TypeOK, SubsFine, RequestFine
<1>2. ASSUME NEW s \in Subs, NEW p \in Payloads, CreateMetadataSubmission(s, p) PROVE TypeInv'
  BY <1>2, NewSubTyped
<1>3. ASSUME NEW s \in Subs, RejectMetadataSubmission(s) PROVE TypeInv'
  <2>1. /\ status[s] = "pending" /\ status' = [status EXCEPT ![s] = "rejected"]
        /\ UNCHANGED <<text, roms, payload, target, req, started, clean>>
    BY <1>3 DEF RejectMetadataSubmission
  <2>2. "rejected" # None /\ "pending" # None
    BY GameTextAssumption DEF GameTextAssumption
  <2>3. /\ status \in [Subs -> {None, "pending", "approved", "rejected"}]
        /\ status' \in [Subs -> {None, "pending", "approved", "rejected"}]
    BY <2>1 DEF TypeInv, TypeOK
  <2>4. Grows /\ \A x \in Subs : status'[x] # None => status[x] # None
    BY <2>1, <2>2, <2>3 DEF Grows
  <2>5. SubsFine' /\ \A q \in Procs : RequestFine(q)'
    BY <2>1, <2>4, SubsKept, OthersFine
  <2>6. QED
    BY <2>1, <2>3, <2>5 DEF TypeInv, TypeOK
<1>4. ASSUME NEW p \in Procs, Statement(p) PROVE TypeInv'
  BY <1>4, StatementTyped
<1>5. ASSUME NEW p \in Procs, Abort(p) PROVE TypeInv'
  <2>1. req' = [req EXCEPT ![p] = Idle] /\ UNCHANGED <<text, roms, status, payload, target, started, clean>>
    BY <1>5 DEF Abort
  <2>2. Grows
    BY <2>1 DEF Grows
  <2>3. req' \in [Procs -> Requests] /\ \A q \in Procs : RequestFine(q)'
    BY <2>1, <2>2, EndTyped
  <2>4. SubsFine'
    BY <2>1, <2>2, SubsKept
  <2>5. QED
    BY <2>1, <2>3, <2>4, RequestTypes DEF TypeInv, TypeOK
<1>6. ASSUME NEW p \in Procs, NEW s \in Subs, ApproveMetadataSubmission(p, s) PROVE TypeInv'
  <2>1. /\ UNCHANGED <<text, roms, status, payload, target>> /\ started' = started \cup {s}
        /\ clean' = (clean /\ AllIdle)
    BY <1>6 DEF ApproveMetadataSubmission
  <2>2. Grows
    BY <2>1 DEF Grows
  <2>3. req' \in [Procs -> Requests] /\ \A q \in Procs : RequestFine(q)'
    BY <1>6, ApproveTyped
  <2>4. SubsFine'
    BY <2>1, <2>2, SubsKept
  <2>5. started' \subseteq Subs /\ clean' \in BOOLEAN
    BY <2>1 DEF TypeInv, TypeOK
  <2>6. QED
    BY <2>1, <2>3, <2>4, <2>5, RequestTypes DEF TypeInv, TypeOK
<1>7. QED
  BY <1>1, <1>2, <1>3, <1>4, <1>5, <1>6 DEF Next

LEMMA TypeInit == Init => TypeInv
<1> SUFFICES ASSUME Init PROVE TypeInv
  OBVIOUS
<1>1. text \in [Games -> GameRows \cup {None}]
  BY GameTextAssumption DEF Init, GameTextAssumption
<1>2. req \in [Procs -> Requests] /\ \A p \in Procs : req[p] = Idle
  BY IdleTyped DEF Init
<1>3. TypeOK
  BY <1>1, <1>2 DEF Init, TypeOK, Idle
<1>4. SubsFine /\ \A p \in Procs : RequestFine(p)
  BY <1>2 DEF Init, SubsFine, RequestFine
<1>5. QED
  BY <1>2, <1>3, <1>4 DEF TypeInv

LEMMA TypeInvHolds == Spec => []TypeInv
BY TypeInit, TypeStep, PTL DEF Spec

\* Whatever is approved in whatever order, overlapping or cut short: games, their
\* regions and their dumps keep their types, no two dumps of a game share a hash,
\* and every statement of an approval is one the payload asks for.
THEOREM TypeCorrect == Spec => []TypeOK
BY TypeInvHolds, PTL DEF TypeInv

-----------------------------------------------------------------------------
(***************************************************************************)
(* A game follows its regions.  While no two approvals overlap, a game     *)
(* that does not has a contribution to answer for it: one that sets the    *)
(* game's values directly, one about the game that is not approved and     *)
(* whose plan refreshes it, or a new game that was inserted, never         *)
(* attached and still has its name, so that it is not inserted again.      *)
(***************************************************************************)
NoChangeBeforeAttach(t) ==
    \A i \in 1..Len(t) : t[i].op \in RegionOps => \A j \in i..Len(t) : t[j].op # "attach"

LEMMA OrderedTail ==
    ASSUME NEW t \in Seq(Statements), t # <<>>, Ordered(t)
    PROVE  /\ Ordered(Tail(t))
           /\ Head(t).op \in {"refresh", "save"} => NoChangeBeforeAttach(Tail(t))
<1> DEFINE u == Tail(t)
<1>1. /\ Len(t) \in Nat /\ Len(u) = Len(t) - 1 /\ Head(t) = t[1] /\ 1 \in 1..Len(t)
      /\ \A i \in 1..Len(u) : i + 1 \in 1..Len(t) /\ u[i] = t[i + 1]
  BY TailIndex
<1> HIDE DEF u
<1>2. \A k \in 1..Len(u) : \A j \in k..Len(u) : j \in 1..Len(u) /\ j + 1 \in (k + 1)..Len(t)
  BY <1>1
<1>3. ASSUME NEW i \in 1..Len(u), NEW k \in 1..Len(u), i < k, u[i].op \in {"refresh", "save"},
             u[k].op \in RegionOps, NEW j \in k..Len(u)
      PROVE  u[j].op # "attach"
  <2>1. i + 1 \in 1..Len(t) /\ k + 1 \in 1..Len(t) /\ i + 1 < k + 1 /\ j + 1 \in (k + 1)..Len(t)
    BY <1>1, <1>2, <1>3
  <2>2. u[i] = t[i + 1] /\ u[k] = t[k + 1] /\ u[j] = t[j + 1]
    BY <1>1, <1>2
  <2>3. QED
    BY <1>3, <2>1, <2>2 DEF Ordered
<1>4. ASSUME Head(t).op \in {"refresh", "save"}, NEW k \in 1..Len(u), u[k].op \in RegionOps,
             NEW j \in k..Len(u)
      PROVE  u[j].op # "attach"
  <2>1. k + 1 \in 1..Len(t) /\ 1 < k + 1 /\ j + 1 \in (k + 1)..Len(t)
    BY <1>1, <1>2
  <2>2. u[k] = t[k + 1] /\ u[j] = t[j + 1]
    BY <1>1, <1>2
  <2>3. QED
    BY <1>1, <1>4, <2>1, <2>2 DEF Ordered
<1>5. QED
  BY <1>3, <1>4 DEF Ordered, NoChangeBeforeAttach, u

LEMMA NoChangeTail ==
    ASSUME NEW t \in Seq(Statements), t # <<>>, NoChangeBeforeAttach(t)
    PROVE  NoChangeBeforeAttach(Tail(t))
<1> DEFINE u == Tail(t)
<1>1. /\ Len(t) \in Nat /\ Len(u) = Len(t) - 1
      /\ \A i \in 1..Len(u) : i + 1 \in 1..Len(t) /\ u[i] = t[i + 1]
  BY TailIndex
<1> HIDE DEF u
<1>2. ASSUME NEW k \in 1..Len(u), u[k].op \in RegionOps, NEW j \in k..Len(u)
      PROVE  u[j].op # "attach"
  <2>1. j \in 1..Len(u) /\ k + 1 \in 1..Len(t) /\ j + 1 \in (k + 1)..Len(t)
    BY <1>1
  <2>2. QED
    BY <1>1, <1>2, <2>1 DEF NoChangeBeforeAttach
<1>3. QED
  BY <1>2 DEF NoChangeBeforeAttach, u

\* "save" stands where "refresh" stood.
LEMMA OrderedSave ==
    ASSUME NEW t \in Seq(Statements), t # <<>>, Head(t).op = "refresh", NEW v,
           v = Op("save") \o Tail(t)
    PROVE  /\ Ordered(t) => Ordered(v)
           /\ NoChangeBeforeAttach(t) => NoChangeBeforeAttach(v)
           /\ v # <<>> /\ Head(v).op = "save" /\ Has(v, "save")
<1> DEFINE u == Tail(t)
<1>1. /\ u \in Seq(Statements) /\ Len(t) \in Nat /\ Len(u) = Len(t) - 1 /\ Head(t) = t[1] /\ 1 \in 1..Len(t)
      /\ \A i \in 1..Len(t) : i = 1 \/ (i - 1 \in 1..Len(u) /\ u[i - 1] = t[i])
  BY TailIndex
<1>2. Op("save") \in Seq(Statements) /\ Len(Op("save")) = 1 /\ Op("save")[1].op = "save"
  BY DEF Op, Statements
<1>3. Joined(Op("save"), u, Statements)
  BY <1>1, <1>2, ConcatJoined
<1>4. v \in Seq(Statements) /\ Len(v) = Len(t) /\ v[1].op = "save"
  BY <1>1, <1>2, <1>3 DEF Joined
<1>5. ASSUME NEW i \in 1..Len(t), i # 1 PROVE v[i] = t[i]
  <2>1. i - 1 \in 1..Len(u) /\ u[i - 1] = t[i] /\ 1 + (i - 1) = i
    BY <1>1, <1>5
  <2>2. v[1 + (i - 1)] = u[i - 1]
    BY <1>2, <1>3, <2>1 DEF Joined
  <2>3. QED
    BY <2>1, <2>2
<1>6. \A i \in 1..Len(t) : v[i] = t[i] \/ (i = 1 /\ t[i].op = "refresh" /\ v[i].op = "save")
  BY <1>1, <1>4, <1>5
<1>7. \A k \in 1..Len(t) : \A j \in k..Len(t) : j \in 1..Len(t)
  BY <1>1
<1>8. \A i \in 1..Len(t) : /\ v[i].op \in RegionOps => t[i].op = v[i].op
                           /\ v[i].op \in {"refresh", "save"} => t[i].op \in {"refresh", "save"}
                           /\ v[i].op = "attach" => t[i].op = "attach"
  BY <1>6 DEF RegionOps
<1> HIDE DEF u
<1>9. Ordered(t) => Ordered(v)
  <2> SUFFICES ASSUME Ordered(t), NEW i \in 1..Len(t), NEW k \in 1..Len(t), NEW j \in k..Len(t), i < k,
                      v[i].op \in {"refresh", "save"}, v[k].op \in RegionOps, v[j].op = "attach"
               PROVE  FALSE
    BY <1>4 DEF Ordered
  <2>1. t[i].op \in {"refresh", "save"} /\ t[k].op \in RegionOps /\ t[j].op = "attach"
    BY <1>7, <1>8
  <2>2. QED
    BY <2>1 DEF Ordered
<1>10. NoChangeBeforeAttach(t) => NoChangeBeforeAttach(v)
  BY <1>4, <1>7, <1>8 DEF NoChangeBeforeAttach
<1>11. v # <<>> /\ Head(v) = v[1]
  BY <1>1, <1>4
<1>12. QED
  BY <1>1, <1>4, <1>9, <1>10, <1>11 DEF Has

\* The statements left of a running approval, its game and what it read.
Running(p) ==
    LET s == req[p].sub
        g == req[p].game
        todo == req[p].todo
    IN
    req[p] # Idle =>
       /\ s \in started /\ status[s] = "pending" /\ Ordered(todo)
       /\ target[s] # None => target[s] = g
       /\ target[s] = None => Has(todo, "attach")
       /\ At(p, "insert") => target[s] = None
       /\ At(p, "save") => req[p].primary = [name |-> First(text[g], "name"), year |-> First(text[g], "year")]
       /\ target[s] = None /\ g # None =>
             /\ text[g].name = payload[s].name \/ NoChangeBeforeAttach(todo)
             /\ \A h \in Games \ {g} : text[h] # None => text[h].name # payload[s].name

Refreshing(p) == Has(req[p].todo, "refresh") \/ Has(req[p].todo, "save")

SetsDirectly(s, g) == Direct(payload[s]) /\ target[s] = g

WillRefresh(s, g) ==
    /\ status[s] # "approved" /\ target[s] = g /\ Has(Plan(payload[s]), "refresh")
    /\ \A p \in Procs : req[p].sub = s => Refreshing(p)

Unattached(s, g) ==
    /\ status[s] # "approved" /\ target[s] = None
    /\ payload[s].kind = "new_game" /\ payload[s].name = text[g].name
    /\ \A p \in Procs : req[p].sub = s /\ req[p].game = g => Refreshing(p)

Witness(s, g) == SetsDirectly(s, g) \/ WillRefresh(s, g) \/ Unattached(s, g)

Explained(g) == text[g] = None \/ FollowsRegions(text[g]) \/ \E s \in started : Witness(s, g)

CanonInv ==
    clean => /\ \A p, q \in Procs : req[p] # Idle /\ req[q] # Idle => p = q
             /\ \A p \in Procs : Running(p)
             /\ \A s \in started : status[s] # None
             /\ \A g \in Games : Explained(g)

\* While p runs nothing else does.
LEMMA OnlyOneRuns ==
    ASSUME TypeInv, CanonInv, clean, NEW p \in Procs, req[p] # Idle
    PROVE  /\ \A q \in Procs \ {p} : req[q] = Idle
           /\ Running(p) /\ req[p].sub \in started /\ req[p].sub \in Subs
           /\ status[req[p].sub] = "pending" /\ "pending" # "approved"
<1>1. req[p].sub \in Subs
  BY DEF TypeInv, RequestFine
<1>2. QED
  BY <1>1 DEF CanonInv, Running

LEMMA OthersIdle ==
    ASSUME TypeInv, CanonInv, clean, NEW p \in Procs, req[p] # Idle,
           \A q \in Procs \ {p} : req'[q] = req[q]
    PROVE  /\ \A q, r \in Procs : req'[q] # Idle /\ req'[r] # Idle => q = r
           /\ \A q \in Procs \ {p} : req'[q] = Idle /\ Running(q)'
<1>1. \A q \in Procs \ {p} : req'[q] = Idle
  BY OnlyOneRuns
<1>2. QED
  BY <1>1 DEF Running

\* What explains a game goes on doing so.
LEMMA WitnessKept ==
    ASSUME TypeInv, CanonInv, clean, NEW p \in Procs, req[p] # Idle,
           NEW h \in Games, NEW s \in started, Witness(s, h),
           target'[s] = target[s], payload'[s] = payload[s], status'[s] = status[s],
           text'[h].name = text[h].name,
           \A q \in Procs \ {p} : req'[q] = req[q],
           \/ req'[p] = Idle
           \/ /\ req'[p].sub = req[p].sub
              /\ req'[p].game = req[p].game
              /\ h = req[p].game /\ Refreshing(p) => Refreshing(p)'
    PROVE  Witness(s, h)'
<1>1. /\ \A q \in Procs \ {p} : req[q] = Idle /\ req'[q] = Idle
      /\ Running(p) /\ Idle.sub = None /\ s # None /\ h # None
  <2>1. s \in Subs
    BY DEF TypeInv, TypeOK
  <2>2. QED
    BY <2>1, OnlyOneRuns, GameTextAssumption DEF GameTextAssumption, Idle
<1>2. ASSUME NEW q \in Procs, req'[q].sub = s
      PROVE  q = p /\ req[p].sub = s /\ req'[p].game = req[p].game
             /\ (h = req[p].game /\ Refreshing(p) => Refreshing(p)')
  BY <1>1, <1>2
<1>3. CASE SetsDirectly(s, h)
  BY <1>3 DEF SetsDirectly, Witness, Direct
<1>4. CASE WillRefresh(s, h)
  <2>1. ASSUME NEW q \in Procs, req'[q].sub = s PROVE Refreshing(q)'
    <3>1. q = p /\ req[p].sub = s /\ (h = req[p].game /\ Refreshing(p) => Refreshing(p)')
      BY <1>2, <2>1
    <3>2. h = req[p].game
      BY <1>1, <1>4, <3>1 DEF WillRefresh, Running
    <3>3. QED
      BY <1>4, <3>1, <3>2 DEF WillRefresh
  <2>2. WillRefresh(s, h)'
    BY <1>4, <2>1 DEF WillRefresh
  <2>3. QED
    BY <2>2 DEF Witness
<1>5. CASE Unattached(s, h)
  <2>1. ASSUME NEW q \in Procs, req'[q].sub = s, req'[q].game = h PROVE Refreshing(q)'
    <3>1. q = p /\ req[p].sub = s /\ req[p].game = h /\ (Refreshing(p) => Refreshing(p)')
      BY <1>2, <2>1
    <3>2. QED
      BY <1>5, <3>1 DEF Unattached
  <2>2. Unattached(s, h)'
    BY <1>5, <2>1 DEF Unattached
  <2>3. QED
    BY <2>2 DEF Witness
<1>6. QED
  BY <1>3, <1>4, <1>5 DEF Witness

\* A game whose text stays.
LEMMA ExplainedKept ==
    ASSUME TypeInv, CanonInv, clean, NEW p \in Procs, req[p] # Idle, NEW h \in Games,
           UNCHANGED <<target, payload, started, status>>,
           \/ text'[h] = text[h]
           \/ /\ text[h] # None /\ text'[h].name = text[h].name /\ text'[h].year = text[h].year
              /\ text'[h].regions = text[h].regions,
           \A q \in Procs \ {p} : req'[q] = req[q],
           \/ req'[p] = Idle
           \/ /\ req'[p].sub = req[p].sub
              /\ req'[p].game = req[p].game
              /\ h = req[p].game /\ Refreshing(p) => Refreshing(p)'
    PROVE  Explained(h)'
<1>1. Explained(h)
  BY DEF CanonInv
<1>2. CASE text[h] = None
  BY <1>2 DEF Explained
<1>3. CASE text[h] # None /\ FollowsRegions(text[h])
  <2>1. CASE text'[h] = text[h]
    BY <1>3, <2>1 DEF Explained
  <2>2. CASE text'[h].name = text[h].name /\ text'[h].year = text[h].year
             /\ text'[h].regions = text[h].regions
    <3>1. First(text'[h], "name") = First(text[h], "name") /\ First(text'[h], "year") = First(text[h], "year")
      BY <2>2, FirstOfRegions
    <3>2. FollowsRegions(text'[h])
      BY <1>3, <2>2, <3>1 DEF FollowsRegions
    <3>3. QED
      BY <3>2 DEF Explained
  <2>3. QED
    BY <2>1, <2>2
<1>4. CASE \E s \in started : Witness(s, h)
  <2>1. PICK s \in started : Witness(s, h)
    BY <1>4
  <2>2. text'[h].name = text[h].name
    OBVIOUS
  <2>3. Witness(s, h)'
    BY <2>1, <2>2, WitnessKept
  <2>4. QED
    BY <2>3 DEF Explained
<1>5. QED
  BY <1>1, <1>2, <1>3, <1>4 DEF Explained

\* One statement less.
LEMMA DoneRequest ==
    ASSUME TypeInv, NEW p \in Procs, NEW o, At(p, o), Done(p)
    PROVE  /\ req'[p].sub = req[p].sub /\ req'[p].game = req[p].game
           /\ req'[p].todo = Tail(req[p].todo)
           /\ \A q \in Procs \ {p} : req'[q] = req[q]
<1>1. req[p] \in Requests /\ req \in [Procs -> Requests]
  BY DEF TypeInv
<1>2. QED
  BY <1>1 DEF Done, Requests

LEMMA RefreshingTail ==
    ASSUME TypeInv, NEW p \in Procs, NEW o, At(p, o), o \notin {"refresh", "save"},
           req'[p].todo = Tail(req[p].todo), Refreshing(p)
    PROVE  Refreshing(p)'
<1>1. req[p].todo \in Seq(Statements) /\ req[p].todo # <<>> /\ Head(req[p].todo).op = o
  BY HeadFacts
<1>2. QED
  BY <1>1, TailHas DEF Refreshing

\* After a statement that neither inserts nor attaches nor reads.
LEMMA RunningKept ==
    ASSUME TypeInv, CanonInv, clean, NEW p \in Procs, NEW o, At(p, o),
           o \notin {"insert", "attach", "approve", "refresh"},
           UNCHANGED <<status, payload, target, started>>,
           req'[p].sub = req[p].sub, req'[p].game = req[p].game, req'[p].todo = Tail(req[p].todo),
           \A h \in Games \ {req[p].game} : text'[h] = text[h],
           target[req[p].sub] = None =>
              text'[req[p].game].name = text[req[p].game].name \/ o = "save"
    PROVE  Running(p)'
<1> DEFINE s == req[p].sub
           g == req[p].game
           t == req[p].todo
<1>1. /\ t \in Seq(Statements) /\ t # <<>> /\ Head(t).op = o /\ req[p] # Idle
      /\ Fits(t, payload[s]) /\ Running(p) /\ g \in Games
  BY HeadFacts, OnlyOneRuns
<1>2. Head(Tail(t)).op \notin {"save", "insert"}
  BY <1>1, FitsTail
<1>3. /\ Ordered(Tail(t)) /\ (o = "save" => NoChangeBeforeAttach(Tail(t)))
      /\ NoChangeBeforeAttach(t) => NoChangeBeforeAttach(Tail(t))
  BY <1>1, OrderedTail, NoChangeTail DEF Running
<1>4. Has(t, "attach") => Has(Tail(t), "attach")
  BY <1>1, TailHas
<1>5. ASSUME target[s] = None
      PROVE  /\ text'[g].name = payload[s].name \/ NoChangeBeforeAttach(Tail(t))
             /\ \A h \in Games \ {g} : text'[h] # None => text'[h].name # payload[s].name
  <2>1. g # None
    BY <1>1, GameTextAssumption DEF GameTextAssumption
  <2>2. text[g].name = payload[s].name \/ NoChangeBeforeAttach(t)
    BY <1>1, <1>5, <2>1 DEF Running
  <2>3. \A h \in Games \ {g} : text[h] # None => text[h].name # payload[s].name
    BY <1>1, <1>5, <2>1 DEF Running
  <2>4. QED
    BY <1>3, <1>5, <2>2, <2>3
<1>6. s \in started /\ status[s] = "pending" /\ (target[s] # None => target[s] = g)
      /\ (target[s] = None => Has(t, "attach"))
  BY <1>1 DEF Running
<1>7. ~ At(p, "insert")' /\ ~ At(p, "save")'
  BY <1>2 DEF At
<1>8. QED
  BY <1>3, <1>4, <1>5, <1>6, <1>7 DEF Running

LEMMA CanonFrom ==
    ASSUME TypeInv, CanonInv, clean, NEW p \in Procs, req[p] # Idle,
           \A q \in Procs \ {p} : req'[q] = req[q],
           started' = started, \A s \in started : status'[s] # None,
           Running(p)', \A h \in Games : Explained(h)'
    PROVE  CanonInv'
<1>1. /\ \A q, r \in Procs : req'[q] # Idle /\ req'[r] # Idle => q = r
      /\ \A q \in Procs \ {p} : Running(q)'
  BY OthersIdle
<1>2. QED
  BY <1>1 DEF CanonInv

LEMMA StartedMade == CanonInv /\ clean => \A s \in started : status[s] # None
BY DEF CanonInv

\* A change to the regions is explained by the refresh that is still to come.
LEMMA RegionCanon ==
    ASSUME TypeInv, CanonInv, clean, NEW p \in Procs, NEW o \in RegionOps, At(p, o), Done(p),
           NEW t \in GameRows, Store(p, t), t.name = text[req[p].game].name,
           UNCHANGED <<status, payload, target, started>>
    PROVE  CanonInv'
<1>0. PICK s \in Subs, g \in Games : s = req[p].sub /\ g = req[p].game
  BY HeadFacts DEF RegionOps
<1> DEFINE todo == req[p].todo
<1>1. /\ todo \in Seq(Statements) /\ todo # <<>> /\ Head(todo).op = o /\ req[p] # Idle
      /\ Fits(todo, payload[s]) /\ g \in Games /\ s \in Subs /\ 1 \in 1..Len(todo)
      /\ text[g] # None /\ payload[s] \in Payloads /\ status[s] # None /\ todo[1].op = o
  <2>1. o # "insert"
    BY DEF RegionOps
  <2>2. QED
    BY <1>0, <2>1, HeadFacts
<1>2. Running(p) /\ s \in started /\ status[s] = "pending" /\ "pending" # "approved"
  BY <1>0, <1>1, OnlyOneRuns
<1>3. /\ req'[p].sub = s /\ req'[p].game = g /\ req'[p].todo = Tail(todo)
      /\ \A q \in Procs \ {p} : req'[q] = req[q]
  BY <1>0, DoneRequest
<1>4. o \notin {"insert", "attach", "approve", "refresh", "save"}
  BY DEF RegionOps
<1>5. text'[g] = t /\ \A h \in Games \ {g} : text'[h] = text[h]
  BY <1>0, <1>1, TextTyped DEF Store, TypeInv
<1>6. Running(p)'
  BY <1>0, <1>3, <1>4, <1>5, RunningKept
<1>7. Has(Plan(payload[s]), "refresh") /\ Has(Tail(todo), "refresh")
  <2>1. Has(Plan(payload[s]), "refresh") /\ Healed(todo)
    BY <1>1 DEF Fits
  <2>2. PICK j \in 1..Len(todo) : todo[j].op = "refresh"
    BY <1>1, <2>1 DEF Healed
  <2>3. Has(todo, "refresh")
    BY <2>2 DEF Has
  <2>4. QED
    BY <1>1, <1>4, <2>1, <2>3, TailHas
<1>8. ASSUME NEW q \in Procs, req'[q].sub = s PROVE Refreshing(q)'
  <2>1. Idle.sub # s
    BY <1>1, GameTextAssumption DEF GameTextAssumption, Idle
  <2>2. q = p
    BY <1>0, <1>1, <1>3, <1>8, <2>1, OnlyOneRuns
  <2>3. QED
    BY <1>3, <1>7, <2>2 DEF Refreshing
<1>9. Witness(s, g)'
  <2>1. CASE target[s] = g
    <3>1. WillRefresh(s, g)'
      BY <1>2, <1>7, <1>8, <2>1 DEF WillRefresh
    <3>2. QED
      BY <3>1 DEF Witness
  <2>2. CASE target[s] = None
    <3>1. payload[s].kind = "new_game"
      BY <1>1, <2>2, PayloadFields DEF TypeInv, SubsFine
    <3>2. Has(todo, "attach") /\ (text[g].name = payload[s].name \/ NoChangeBeforeAttach(todo))
      BY <1>0, <1>1, <1>2, <2>2, GameTextAssumption DEF Running, GameTextAssumption
    <3>3. ~ NoChangeBeforeAttach(todo)
      <4>1. PICK j \in 1..Len(todo) : todo[j].op = "attach"
        BY <3>2 DEF Has
      <4>2. QED
        BY <1>1, <4>1 DEF NoChangeBeforeAttach
    <3>4. Unattached(s, g)'
      BY <1>0, <1>2, <1>5, <1>8, <2>2, <3>1, <3>2, <3>3 DEF Unattached
    <3>5. QED
      BY <3>4 DEF Witness
  <2>3. QED
    BY <1>0, <1>1, <1>2, <2>1, <2>2 DEF Running
<1>10. ASSUME NEW h \in Games, h # g PROVE Explained(h)'
  <2>1. text'[h] = text[h]
    BY <1>5, <1>10
  <2>2. QED
    BY <1>1, <1>3, <1>0, <1>10, <2>1, ExplainedKept
<1>11. Explained(g)'
  BY <1>2, <1>9 DEF Explained
<1>12. QED
  BY <1>1, <1>3, <1>6, <1>10, <1>11, CanonFrom, StartedMade

\* A value without a region is the contributor's.
LEMMA DirectCanon ==
    ASSUME TypeInv, CanonInv, clean, NEW p \in Procs, NEW o \in {"name", "year"}, At(p, o), Done(p),
           NEW t \in GameRows, Store(p, t),
           UNCHANGED <<status, payload, target, started>>
    PROVE  CanonInv'
<1>0. PICK s \in Subs, g \in Games : s = req[p].sub /\ g = req[p].game
  BY HeadFacts
<1> DEFINE todo == req[p].todo
<1>1. /\ todo \in Seq(Statements) /\ todo # <<>> /\ req[p] # Idle
      /\ Fits(todo, payload[s]) /\ g \in Games /\ s \in Subs /\ 1 \in 1..Len(todo)
      /\ text[g] # None /\ status[s] # None /\ todo[1].op = o
  BY <1>0, HeadFacts
<1>2. Running(p) /\ s \in started
  BY <1>0, <1>1, OnlyOneRuns
<1>3. /\ req'[p].sub = s /\ req'[p].game = g /\ req'[p].todo = Tail(todo)
      /\ \A q \in Procs \ {p} : req'[q] = req[q]
  BY <1>0, DoneRequest
<1>4. Direct(payload[s]) /\ ~ Has(todo, "attach")
  BY <1>1 DEF Fits, OnlyDirect, Has
<1>5. target[s] = g /\ g # None
  BY <1>0, <1>1, <1>2, <1>4, GameTextAssumption DEF Running, GameTextAssumption
<1>6. text'[g] = t /\ \A h \in Games \ {g} : text'[h] = text[h]
  BY <1>0, <1>1, TextTyped DEF Store, TypeInv
<1>7. Running(p)'
  BY <1>0, <1>3, <1>5, <1>6, RunningKept
<1>8. Direct(payload[s])'
  BY <1>4 DEF Direct
<1>9. Explained(g)'
  BY <1>2, <1>5, <1>8 DEF Explained, Witness, SetsDirectly
<1>10. ASSUME NEW h \in Games, h # g PROVE Explained(h)'
  <2>1. text'[h] = text[h]
    BY <1>6, <1>10
  <2>2. QED
    BY <1>1, <1>3, <1>0, <1>10, <2>1, ExplainedKept
<1>11. QED
  BY <1>1, <1>3, <1>7, <1>9, <1>10, CanonFrom, StartedMade

\* Other columns, and dumps.
LEMMA PlainCanon ==
    ASSUME TypeInv, CanonInv, clean, NEW p \in Procs, NEW o \in {"column", "rom"}, At(p, o), Done(p),
           \A h \in Games : \/ text'[h] = text[h]
                            \/ /\ h = req[p].game /\ text'[h].name = text[h].name
                               /\ text'[h].year = text[h].year /\ text'[h].regions = text[h].regions,
           UNCHANGED <<status, payload, target, started>>
    PROVE  CanonInv'
<1> DEFINE g == req[p].game
<1>1. req[p] # Idle /\ g \in Games /\ text[g] # None
  BY HeadFacts
<1>2. /\ req'[p].sub = req[p].sub /\ req'[p].game = g /\ req'[p].todo = Tail(req[p].todo)
      /\ \A q \in Procs \ {p} : req'[q] = req[q]
  BY DoneRequest
<1>3. Running(p)'
  BY <1>1, <1>2, RunningKept
<1>4. Refreshing(p) => Refreshing(p)'
  BY <1>2, RefreshingTail
<1>5. ASSUME NEW h \in Games PROVE Explained(h)'
  BY <1>1, <1>2, <1>4, ExplainedKept
<1>6. QED
  BY <1>1, <1>2, <1>3, <1>5, CanonFrom, StartedMade

\* What is saved is what was read: the game follows its regions.
LEMMA SaveCanon ==
    ASSUME TypeInv, CanonInv, clean, NEW p \in Procs, SaveGamePrimary(p)
    PROVE  CanonInv'
<1>0. PICK g \in Games : g = req[p].game
  BY HeadFacts DEF SaveGamePrimary
<1> DEFINE r == req[p]
<1>1. /\ At(p, "save") /\ r # Idle /\ r \in Requests /\ g \in Games /\ text[g] # None
      /\ r.todo \in Seq(Statements)
      /\ UNCHANGED <<status, payload, target, started>>
  BY <1>0, HeadFacts DEF SaveGamePrimary, Rest
<1>2. PICK t \in GameRows : t = text[g]
  BY <1>0, <1>1, HeadFacts
<1>3. r.primary = [name |-> First(t, "name"), year |-> First(t, "year")]
  BY <1>0, <1>1, <1>2, OnlyOneRuns DEF Running
<1> DEFINE new == [t EXCEPT !.name = Or(First(t, "name"), t.name), !.year = Or(First(t, "year"), t.year)]
<1>4. text' = [text EXCEPT ![g] = new]
  <2>1. text' = [text EXCEPT ![g] = [t EXCEPT !.name = Or(r.primary.name, t.name),
                                              !.year = Or(r.primary.year, t.year)]]
    BY <1>0, <1>2 DEF SaveGamePrimary, Store
  <2>2. r.primary.name = First(t, "name") /\ r.primary.year = First(t, "year")
    BY <1>3
  <2>3. QED
    BY <2>1, <2>2
<1>5. /\ new.regions = t.regions /\ new.name = Or(First(t, "name"), t.name)
      /\ new.year = Or(First(t, "year"), t.year)
  BY DEF GameRows
<1> HIDE DEF new
<1>6. First(new, "name") = First(t, "name") /\ First(new, "year") = First(t, "year")
  BY <1>5, FirstOfRegions
<1>7. FollowsRegions(new)
  BY <1>5, <1>6 DEF FollowsRegions, Or
<1>8. text'[g] = new /\ \A h \in Games \ {g} : text'[h] = text[h]
  BY <1>1, <1>4, TextTyped DEF TypeInv
<1>9. /\ req'[p].sub = r.sub /\ req'[p].game = g /\ req'[p].todo = Tail(r.todo)
      /\ \A q \in Procs \ {p} : req'[q] = req[q]
  <2>1. req \in [Procs -> Requests]
    BY DEF TypeInv
  <2>2. req' = [req EXCEPT ![p] = [r EXCEPT !.primary = None, !.todo = Tail(r.todo)]]
    BY DEF SaveGamePrimary
  <2>3. QED
    BY <1>0, <1>1, <2>1, <2>2 DEF Requests
<1>10. Running(p)'
  BY <1>0, <1>1, <1>8, <1>9, RunningKept
<1>11. Explained(g)'
  BY <1>7, <1>8 DEF Explained
<1>12. ASSUME NEW h \in Games, h # g PROVE Explained(h)'
  <2>1. text'[h] = text[h]
    BY <1>8, <1>12
  <2>2. QED
    BY <1>1, <1>9, <1>0, <1>12, <2>1, ExplainedKept
<1>13. QED
  BY <1>1, <1>9, <1>10, <1>11, <1>12, CanonFrom, StartedMade

LEMMA ListCanon ==
    ASSUME TypeInv, CanonInv, clean, NEW p \in Procs, ListGameRegions(p)
    PROVE  CanonInv'
<1> DEFINE r == req[p]
           g == req[p].game
           s == req[p].sub
           found == [name |-> First(text[g], "name"), year |-> First(text[g], "year")]
           left == Op("save") \o Tail(r.todo)
<1>1. /\ At(p, "refresh") /\ r # Idle /\ r \in Requests /\ g \in Games
      /\ r.todo \in Seq(Statements) /\ r.todo # <<>> /\ Head(r.todo).op = "refresh"
      /\ UNCHANGED <<status, payload, target, started, text>> /\ Fits(r.todo, payload[s])
  BY HeadFacts DEF ListGameRegions, Rest
<1>2. Running(p) /\ Ordered(r.todo)
  BY <1>1, OnlyOneRuns DEF Running
<1>3. /\ Ordered(left) /\ (NoChangeBeforeAttach(r.todo) => NoChangeBeforeAttach(left))
      /\ left # <<>> /\ Head(left).op = "save" /\ Has(left, "save")
  BY <1>1, <1>2, OrderedSave
<1>4. Has(r.todo, "attach") => Has(left, "attach")
  BY <1>1, FitsSave
<1> HIDE DEF left, found
<1>5. /\ req'[p].sub = s /\ req'[p].game = g /\ req'[p].todo = left /\ req'[p].primary = found
      /\ \A q \in Procs \ {p} : req'[q] = req[q]
  <2>1. req \in [Procs -> Requests]
    BY DEF TypeInv
  <2>2. req' = [req EXCEPT ![p] = [r EXCEPT !.primary = found, !.todo = left]]
    BY DEF ListGameRegions, found, left
  <2>3. QED
    BY <1>1, <2>1, <2>2 DEF Requests
<1>6. ~ At(p, "insert")' /\ At(p, "save")'
  BY <1>1, <1>3, <1>5 DEF At
<1>7. found = [name |-> First(text'[g], "name"), year |-> First(text'[g], "year")]
  BY <1>1 DEF found
<1>8. Running(p)'
  <2>1. s \in started /\ status[s] = "pending" /\ (target[s] # None => target[s] = g)
        /\ (target[s] = None => Has(left, "attach"))
    BY <1>1, <1>2, <1>4 DEF Running
  <2>2. ASSUME target[s] = None, g # None
        PROVE  /\ text[g].name = payload[s].name \/ NoChangeBeforeAttach(left)
               /\ \A h \in Games \ {g} : text[h] # None => text[h].name # payload[s].name
    BY <1>1, <1>2, <1>3, <2>2 DEF Running
  <2>3. Ordered(req'[p].todo)
    BY <1>3, <1>5
  <2>4. req'[p].primary = [name |-> First(text'[g], "name"), year |-> First(text'[g], "year")]
    BY <1>5, <1>7
  <2>5. QED
    BY <1>1, <1>5, <1>6, <2>1, <2>2, <2>3, <2>4 DEF Running
<1>9. Refreshing(p)'
  BY <1>3, <1>5 DEF Refreshing
<1>10. ASSUME NEW h \in Games PROVE Explained(h)'
  BY <1>1, <1>5, <1>9, ExplainedKept
<1>11. QED
  BY <1>1, <1>5, <1>8, <1>10, CanonFrom, StartedMade

\* A new game has a name nothing else has, and no region yet.
LEMMA InsertCanon ==
    ASSUME TypeInv, CanonInv, clean, NEW p \in Procs, InsertGame(p)
    PROVE  CanonInv'
<1>0. /\ At(p, "insert") /\ req[p] # Idle /\ req[p] \in Requests /\ req[p].sub \in Subs
      /\ Fits(req[p].todo, payload[req[p].sub])
      /\ req[p].todo \in Seq(Statements) /\ req[p].todo # <<>> /\ Head(req[p].todo).op = "insert"
      /\ UNCHANGED <<status, payload, target, started>>
  BY HeadFacts DEF InsertGame, Rest
<1>1. PICK s \in Subs, pl \in Payloads, todo \in Seq(Statements) :
         s = req[p].sub /\ pl = payload[s] /\ todo = req[p].todo
  BY <1>0, HeadFacts
<1> DEFINE new == [name |-> pl.name, year |-> pl.year, column |-> pl.column,
                   regions |-> [x \in Regions |-> None]]
<1>2. PICK g \in Games : /\ text[g] = None /\ text' = [text EXCEPT ![g] = new]
                         /\ req' = [req EXCEPT ![p].todo = Tail(@), ![p].game = g, ![p].before = new]
  BY <1>1 DEF InsertGame
<1>3. \A h \in Games : text[h] # None => text[h].name # pl.name
  BY <1>1, GameTextAssumption DEF InsertGame, NameTaken, GameTextAssumption
<1>4. new.name = pl.name /\ new.regions = [x \in Regions |-> None]
  OBVIOUS
<1> HIDE DEF new
<1>5. text'[g] = new /\ \A h \in Games \ {g} : text'[h] = text[h]
  BY <1>2, TextTyped DEF TypeInv
<1>6. /\ req'[p].sub = s /\ req'[p].game = g /\ req'[p].todo = Tail(todo)
      /\ \A q \in Procs \ {p} : req'[q] = req[q]
  <2>1. req \in [Procs -> Requests]
    BY DEF TypeInv
  <2>2. QED
    BY <1>0, <1>1, <1>2, <2>1 DEF Requests
<1>7. Running(p) /\ s \in started /\ target[s] = None /\ status[s] = "pending" /\ Ordered(todo)
  BY <1>0, <1>1, OnlyOneRuns DEF Running
<1>8. Head(Tail(todo)).op \notin {"save", "insert"} /\ Ordered(Tail(todo))
  BY <1>0, <1>1, <1>7, FitsTail, OrderedTail
<1>9. Has(Tail(todo), "attach")
  BY <1>0, <1>1, <1>7, TailHas DEF Running
<1>10. Running(p)'
  <2>1. ~ At(p, "insert")' /\ ~ At(p, "save")'
    BY <1>6, <1>8 DEF At
  <2>2. text'[g].name = payload[s].name
    BY <1>1, <1>4, <1>5
  <2>3. \A h \in Games \ {g} : text'[h] # None => text'[h].name # payload[s].name
    BY <1>1, <1>3, <1>5
  <2>4. QED
    BY <1>0, <1>6, <1>7, <1>8, <1>9, <2>1, <2>2, <2>3 DEF Running
<1>11. Explained(g)'
  <2>1. \A f : First(new, f) = None
    <3>1. \A i \in DOMAIN RegionOrder : RegionOrder[i] \in Regions
      BY DEF Regions
    <3>2. \A i \in DOMAIN RegionOrder : \A f : RegionValue(new, RegionOrder[i], f) = None
      BY <1>4, <3>1 DEF RegionValue
    <3>3. QED
      BY <3>2 DEF First
  <2>2. QED
    BY <1>5, <2>1 DEF Explained, FollowsRegions
<1>12. ASSUME NEW h \in Games, h # g PROVE Explained(h)'
  <2>1. text'[h] = text[h] /\ Explained(h)
    BY <1>5, <1>12 DEF CanonInv
  <2>2. CASE text[h] = None \/ FollowsRegions(text[h])
    BY <2>1, <2>2 DEF Explained
  <2>3. CASE \E x \in started : Witness(x, h)
    <3>1. PICK x \in started : Witness(x, h)
      BY <2>3
    <3>2. h # None /\ x # None
      <4>1. x \in Subs
        BY DEF TypeInv, TypeOK
      <4>2. QED
        BY <4>1, GameTextAssumption DEF GameTextAssumption
    <3>3. ASSUME NEW q \in Procs, req'[q].sub = x PROVE q = p /\ x = s
      BY <1>0, <1>6, <3>2, <3>3, OnlyOneRuns DEF Idle
    <3>4. CASE SetsDirectly(x, h)
      BY <1>0, <3>4 DEF SetsDirectly, Direct, Witness, Explained
    <3>5. CASE WillRefresh(x, h)
      <4>1. x # s
        BY <1>7, <3>2, <3>5 DEF WillRefresh
      <4>2. WillRefresh(x, h)'
        BY <1>0, <3>3, <3>5, <4>1 DEF WillRefresh
      <4>3. QED
        BY <1>0, <4>2 DEF Witness, Explained
    <3>6. CASE Unattached(x, h)
      <4>1. ASSUME NEW q \in Procs, req'[q].sub = x, req'[q].game = h PROVE FALSE
        BY <1>6, <1>12, <3>3, <4>1
      <4>2. Unattached(x, h)'
        BY <1>0, <2>1, <3>6, <4>1 DEF Unattached
      <4>3. QED
        BY <1>0, <4>2 DEF Witness, Explained
    <3>7. QED
      BY <3>1, <3>4, <3>5, <3>6 DEF Witness
  <2>4. QED
    BY <2>1, <2>2, <2>3 DEF Explained
<1>13. QED
  BY <1>0, <1>6, <1>10, <1>11, <1>12, CanonFrom, StartedMade

\* From here on the contribution is about the game it inserted.
LEMMA AttachCanon ==
    ASSUME TypeInv, CanonInv, clean, NEW p \in Procs, SetMetadataSubmissionGame(p)
    PROVE  CanonInv'
<1>0. /\ At(p, "attach") /\ req[p] # Idle /\ Done(p)
      /\ UNCHANGED <<status, payload, started, text>>
  BY HeadFacts DEF SetMetadataSubmissionGame, Rest
<1>1. PICK s \in Subs, g \in Games, todo \in Seq(Statements) :
         /\ s = req[p].sub /\ g = req[p].game /\ todo = req[p].todo
         /\ todo # <<>> /\ Head(todo).op = "attach" /\ Fits(todo, payload[s])
  BY <1>0, HeadFacts
<1>2. target' = [target EXCEPT ![s] = g] /\ target \in [Subs -> Games \cup {None}]
  BY <1>1 DEF SetMetadataSubmissionGame, TypeInv, TypeOK
<1>3. target'[s] = g /\ \A x \in Subs \ {s} : target'[x] = target[x]
  BY <1>2
<1>4. /\ req'[p].sub = s /\ req'[p].game = g /\ req'[p].todo = Tail(todo)
      /\ \A q \in Procs \ {p} : req'[q] = req[q]
  BY <1>0, <1>1, DoneRequest
<1>5. /\ Running(p) /\ s \in started /\ status[s] = "pending" /\ "pending" # "approved" /\ Ordered(todo)
      /\ target[s] # None => target[s] = g
  BY <1>0, <1>1, OnlyOneRuns DEF Running
<1>6. Head(Tail(todo)).op \notin {"save", "insert"} /\ Ordered(Tail(todo))
  BY <1>1, <1>5, FitsTail, OrderedTail
<1>7. g # None /\ s # None /\ \A h \in Games : h # None
  BY GameTextAssumption DEF GameTextAssumption
<1>8. Running(p)'
  <2>1. ~ At(p, "insert")' /\ ~ At(p, "save")'
    BY <1>4, <1>6 DEF At
  <2>2. QED
    BY <1>0, <1>3, <1>4, <1>5, <1>6, <1>7, <2>1 DEF Running
<1>9. Refreshing(p) => Refreshing(p)'
  BY <1>0, <1>1, <1>4, RefreshingTail
<1>10. ASSUME NEW h \in Games PROVE Explained(h)'
  <2>1. CASE text[h] = None \/ FollowsRegions(text[h])
    BY <1>0, <2>1 DEF Explained
  <2>2. CASE text[h] # None /\ \E x \in started : Witness(x, h)
    <3>1. PICK x \in started : Witness(x, h)
      BY <2>2
    <3>2. CASE target'[x] = target[x]
      <4>1. Witness(x, h)'
        BY <1>0, <1>1, <1>4, <1>9, <3>1, <3>2, WitnessKept
      <4>2. QED
        BY <1>0, <4>1 DEF Explained
    <3>3. CASE target'[x] # target[x]
      <4>1. x \in Subs
        BY DEF TypeInv, TypeOK
      <4>2. x = s /\ target[s] = None
        BY <1>3, <1>5, <3>3, <4>1
      <4>3. Unattached(s, h)
        BY <1>7, <3>1, <4>2 DEF Witness, SetsDirectly, WillRefresh
      <4>4. h = g
        <5>1. \A y \in Games \ {g} : text[y] # None => text[y].name # payload[s].name
          BY <1>0, <1>1, <1>5, <1>7, <4>2 DEF Running
        <5>2. QED
          BY <2>2, <4>3, <5>1 DEF Unattached
      <4>5. Refreshing(p)
        BY <1>1, <4>3, <4>4 DEF Unattached
      <4>6. Has(Plan(payload[s]), "refresh")
        BY <1>1, <4>5 DEF Refreshing, Fits, Has
      <4>7. ASSUME NEW q \in Procs, req'[q].sub = s PROVE Refreshing(q)'
        <5>1. q = p
          BY <1>0, <1>4, <1>7, <4>7, OnlyOneRuns DEF Idle
        <5>2. QED
          BY <1>9, <4>5, <5>1
      <4>8. WillRefresh(s, h)'
        BY <1>0, <1>3, <1>5, <4>4, <4>6, <4>7 DEF WillRefresh
      <4>9. QED
        BY <1>0, <1>5, <4>8 DEF Explained, Witness
    <3>4. QED
      BY <3>2, <3>3
  <2>3. QED
    BY <2>1, <2>2 DEF CanonInv, Explained
<1>11. QED
  BY <1>0, <1>4, <1>8, <1>10, CanonFrom, StartedMade

\* An approval ends with nothing left to refresh.
LEMMA StatusCanon ==
    ASSUME TypeInv, CanonInv, clean, NEW p \in Procs, SetMetadataStatus(p)
    PROVE  CanonInv'
<1>0. /\ At(p, "approve") /\ req[p] # Idle /\ req' = [req EXCEPT ![p] = Idle]
      /\ UNCHANGED <<payload, target, started, text>>
  BY HeadFacts DEF SetMetadataStatus
<1>1. PICK s \in Subs, g \in Games, todo \in Seq(Statements) :
         /\ s = req[p].sub /\ g = req[p].game /\ todo = req[p].todo
         /\ todo # <<>> /\ todo[1].op = "approve" /\ Fits(todo, payload[s])
         /\ 1 \in 1..Len(todo)
  BY <1>0, HeadFacts
<1>2. /\ \A x \in Subs : status'[x] = IF x = s THEN "approved" ELSE status[x]
      /\ \A q \in Procs : req'[q] = IF q = p THEN Idle ELSE req[q]
  BY <1>0, <1>1 DEF SetMetadataStatus, TypeInv, TypeOK
<1>3. Running(p) /\ s \in started /\ started \subseteq Subs
  BY <1>0, <1>1, OnlyOneRuns DEF TypeInv, TypeOK
<1>4. ~ Has(todo, "attach") /\ ~ Refreshing(p)
  <2>1. Len(todo) = 1
    BY <1>1 DEF Fits
  <2>2. \A i \in 1..Len(todo) : todo[i].op = "approve"
    BY <1>1, <2>1
  <2>3. QED
    BY <1>1, <2>2 DEF Has, Refreshing
<1>5. target[s] = g
  BY <1>0, <1>1, <1>3, <1>4 DEF Running
<1>6. \A x \in started : status'[x] # None
  <2>1. "approved" # None
    BY GameTextAssumption DEF GameTextAssumption
  <2>2. QED
    BY <1>2, <1>3, <2>1, StartedMade
<1>7. ASSUME NEW h \in Games PROVE Explained(h)'
  <2>1. CASE text[h] = None \/ FollowsRegions(text[h])
    BY <1>0, <2>1 DEF Explained
  <2>2. CASE \E x \in started : Witness(x, h)
    <3>1. PICK x \in started : Witness(x, h)
      BY <2>2
    <3>2. CASE x # s
      <4>1. Witness(x, h)'
        BY <1>0, <1>2, <1>3, <3>1, <3>2, WitnessKept
      <4>2. QED
        BY <1>0, <4>1 DEF Explained
    <3>3. CASE x = s
      <4>1. ~ WillRefresh(s, h)
        BY <1>1, <1>4 DEF WillRefresh
      <4>2. ~ Unattached(s, h)
        BY <1>5, GameTextAssumption DEF Unattached, GameTextAssumption
      <4>3. SetsDirectly(s, h)'
        BY <1>0, <3>1, <3>3, <4>1, <4>2 DEF Witness, SetsDirectly, Direct
      <4>4. QED
        BY <1>0, <1>3, <4>3 DEF Explained, Witness
    <3>4. QED
      BY <3>2, <3>3
  <2>3. QED
    BY <2>1, <2>2 DEF CanonInv, Explained
<1>8. Running(p)'
  BY <1>2 DEF Running
<1>9. \A q \in Procs \ {p} : req'[q] = req[q]
  BY <1>2
<1>10. QED
  BY <1>0, <1>6, <1>7, <1>8, <1>9, CanonFrom

LEMMA AbortCanon ==
    ASSUME TypeInv, CanonInv, clean, NEW p \in Procs, Abort(p)
    PROVE  CanonInv'
<1>1. /\ req[p] # Idle /\ UNCHANGED <<payload, target, started, text, status>>
      /\ req'[p] = Idle /\ \A q \in Procs \ {p} : req'[q] = req[q]
  BY DEF Abort, TypeInv
<1>2. \A h \in Games : Explained(h)'
  BY <1>1, ExplainedKept
<1>3. Running(p)'
  BY <1>1 DEF Running
<1>4. QED
  BY <1>1, <1>2, <1>3, CanonFrom, StartedMade

LEMMA StatementKeepsClean ==
    ASSUME NEW p \in Procs, Statement(p)
    PROVE  clean' = clean
<1>0. CASE InsertGame(p) \/ SetMetadataSubmissionGame(p)
  BY <1>0 DEF InsertGame, SetMetadataSubmissionGame, Rest
<1>1. CASE ListGameRegions(p) \/ SaveGamePrimary(p)
  BY <1>1 DEF ListGameRegions, SaveGamePrimary, Rest
<1>2. CASE UpsertGameRegion(p)
  BY <1>2 DEF UpsertGameRegion, Rest
<1>3. CASE ClearGameRegion(p)
  BY <1>3 DEF ClearGameRegion, Rest
<1>4. CASE DropEmptyRegion(p)
  BY <1>4 DEF DropEmptyRegion, Rest
<1>5. CASE SetGameName(p) \/ SetGameRelease(p) \/ SetGameColumn(p)
  BY <1>5 DEF SetGameName, SetGameRelease, SetGameColumn, Rest
<1>6. CASE AddRom(p) \/ UpdateRom(p) \/ DeleteRom(p) \/ SetMetadataStatus(p)
  BY <1>6 DEF AddRom, UpdateRom, DeleteRom, RomChangeDone, SetMetadataStatus, Rest
<1>7. QED
  BY <1>0, <1>1, <1>2, <1>3, <1>4, <1>5, <1>6 DEF Statement

LEMMA StatementCanon ==
    ASSUME TypeInv, CanonInv, clean, NEW p \in Procs, Statement(p)
    PROVE  CanonInv'
<1>1. CASE InsertGame(p) \/ SetMetadataSubmissionGame(p) \/ ListGameRegions(p)
           \/ SaveGamePrimary(p) \/ SetMetadataStatus(p)
  BY <1>1, InsertCanon, AttachCanon, ListCanon, SaveCanon, StatusCanon
<1>2. CASE UpsertGameRegion(p) \/ ClearGameRegion(p) \/ DropEmptyRegion(p)
  <2>1. PICK t \in GameRows : Store(p, t) /\ t.name = text[req[p].game].name
    BY <1>2, UpsertTyped, ClearTyped, DropTyped DEF NameStored
  <2>2. CASE UpsertGameRegion(p)
    <3>1. At(p, "upsert") /\ Done(p) /\ UNCHANGED <<status, payload, target, started>>
      BY <2>2 DEF UpsertGameRegion, Rest
    <3>2. QED
      BY <2>1, <3>1, RegionCanon DEF RegionOps
  <2>3. CASE ClearGameRegion(p)
    <3>1. At(p, "clear") /\ Done(p) /\ UNCHANGED <<status, payload, target, started>>
      BY <2>3 DEF ClearGameRegion, Rest
    <3>2. QED
      BY <2>1, <3>1, RegionCanon DEF RegionOps
  <2>4. CASE DropEmptyRegion(p)
    <3>1. At(p, "drop") /\ Done(p) /\ UNCHANGED <<status, payload, target, started>>
      BY <2>4 DEF DropEmptyRegion, Rest
    <3>2. QED
      BY <2>1, <3>1, RegionCanon DEF RegionOps
  <2>5. QED
    BY <1>2, <2>2, <2>3, <2>4
<1>3. CASE SetGameName(p)
  <2>1. At(p, "name") /\ Done(p) /\ UNCHANGED <<status, payload, target, started>>
    BY <1>3 DEF SetGameName, Rest
  <2>2. PICK t \in GameRows, n \in Names : t = text[req[p].game] /\ n = This(p).name
    BY <2>1, HeadFacts, StatementFields
  <2>3. [t EXCEPT !.name = n] \in GameRows /\ Store(p, [t EXCEPT !.name = n])
    BY <1>3, <2>2 DEF SetGameName, GameRows
  <2>4. QED
    BY <2>1, <2>3, DirectCanon
<1>4. CASE SetGameRelease(p)
  <2>1. At(p, "year") /\ Done(p) /\ UNCHANGED <<status, payload, target, started>>
    BY <1>4 DEF SetGameRelease, Rest
  <2>2. PICK t \in GameRows, y \in Years : t = text[req[p].game] /\ y = This(p).year
    BY <2>1, HeadFacts, StatementFields
  <2>3. [t EXCEPT !.year = y] \in GameRows /\ Store(p, [t EXCEPT !.year = y])
    BY <1>4, <2>2 DEF SetGameRelease, GameRows
  <2>4. QED
    BY <2>1, <2>3, DirectCanon
<1>5. CASE SetGameColumn(p)
  <2>1. At(p, "column") /\ Done(p) /\ UNCHANGED <<status, payload, target, started>>
    BY <1>5 DEF SetGameColumn, Rest
  <2>2. PICK t \in GameRows, g \in Games : g = req[p].game /\ t = text[g]
    BY <2>1, HeadFacts
  <2>3. text' = [text EXCEPT ![g] = [t EXCEPT !.column = This(p).column]]
    BY <1>5, <2>2 DEF SetGameColumn, Store
  <2>4. \A h \in Games : \/ text'[h] = text[h]
                         \/ /\ h = g /\ text'[h].name = text[h].name
                            /\ text'[h].year = text[h].year /\ text'[h].regions = text[h].regions
    BY <2>2, <2>3, TextTyped DEF TypeInv, GameRows
  <2>5. QED
    BY <2>1, <2>2, <2>4, PlainCanon
<1>6. CASE AddRom(p) \/ UpdateRom(p) \/ DeleteRom(p)
  <2>1. At(p, "rom") /\ Done(p) /\ UNCHANGED <<text, status, payload, target, started>>
    BY <1>6 DEF AddRom, UpdateRom, DeleteRom, RomChangeDone, Rest
  <2>2. QED
    BY <2>1, PlainCanon
<1>7. QED
  BY <1>1, <1>2, <1>3, <1>4, <1>5, <1>6 DEF Statement

\* No approval starts while another runs, so that the plan is the only one.
LEMMA ApproveCanon ==
    ASSUME TypeInv, CanonInv, clean', NEW p \in Procs, NEW s \in Subs,
           ApproveMetadataSubmission(p, s)
    PROVE  CanonInv'
<1> DEFINE r == [sub |-> s, game |-> target[s], primary |-> None, todo |-> Plan(payload[s]),
                 before |-> IF target[s] = None THEN None ELSE text[target[s]]]
<1>1. /\ clean /\ AllIdle /\ status[s] = "pending" /\ started' = started \cup {s}
      /\ payload[s].kind = "new_game" => target[s] = None
      /\ req' = [req EXCEPT ![p] = r] /\ UNCHANGED <<text, status, payload, target>>
  BY DEF ApproveMetadataSubmission
<1>2. /\ \A q \in Procs \ {p} : req'[q] = Idle
      /\ req'[p].sub = s /\ req'[p].game = target[s] /\ req'[p].todo = Plan(payload[s])
  BY <1>1 DEF TypeInv, AllIdle
<1>3. "pending" # None /\ \A x \in Subs : x # None
  BY GameTextAssumption DEF GameTextAssumption
<1>4. payload[s] \in Payloads /\ payload[s].kind \in {"edit", "new_game"}
  BY <1>1, <1>3, PayloadFields DEF TypeInv, SubsFine
<1>5. /\ Fits(Plan(payload[s]), payload[s]) /\ Ordered(Plan(payload[s]))
      /\ payload[s].kind = "new_game" => Has(Plan(payload[s]), "attach")
      /\ ~ Has(Plan(payload[s]), "save")
  BY <1>4, PlanFits
<1>6. Head(Plan(payload[s])).op # "save" /\ (Head(Plan(payload[s])).op = "insert" => payload[s].kind = "new_game")
  <2>1. Plan(payload[s]) \in Seq(Statements) /\ Plan(payload[s]) # <<>>
    BY <1>5 DEF Fits
  <2>2. Head(Plan(payload[s])) = Plan(payload[s])[1] /\ 1 \in 1..Len(Plan(payload[s]))
    BY <2>1, TailIndex
  <2>3. QED
    BY <1>5, <2>2 DEF Fits, Has
<1>7. target[s] = None => payload[s].kind = "new_game"
  BY <1>1, <1>3, <1>4 DEF TypeInv, SubsFine
<1>8. Running(p)'
  BY <1>1, <1>2, <1>5, <1>6, <1>7 DEF Running, At
<1>9. \A q \in Procs : Running(q)'
  BY <1>2, <1>8 DEF Running
<1>10. \A x \in started' : status'[x] # None
  BY <1>1, <1>3, StartedMade
<1>11. ASSUME NEW h \in Games PROVE Explained(h)'
  <2>1. CASE text[h] = None \/ FollowsRegions(text[h])
    BY <1>1, <2>1 DEF Explained
  <2>2. CASE \E x \in started : Witness(x, h)
    <3>1. PICK x \in started : Witness(x, h)
      BY <2>2
    <3>2. h # None /\ x # None
      BY <1>3, GameTextAssumption DEF GameTextAssumption, TypeInv, TypeOK
    <3>3. ASSUME NEW q \in Procs, req'[q].sub = x PROVE q = p /\ x = s
      BY <1>2, <3>2, <3>3 DEF Idle
    <3>4. CASE SetsDirectly(x, h)
      BY <1>1, <3>4 DEF SetsDirectly, Direct, Witness, Explained
    <3>5. CASE WillRefresh(x, h)
      <4>1. ASSUME NEW q \in Procs, req'[q].sub = x PROVE Refreshing(q)'
        BY <1>2, <3>3, <3>5, <4>1 DEF WillRefresh, Refreshing
      <4>2. WillRefresh(x, h)'
        BY <1>1, <3>5, <4>1 DEF WillRefresh
      <4>3. QED
        BY <1>1, <4>2 DEF Witness, Explained
    <3>6. CASE Unattached(x, h)
      <4>1. ASSUME NEW q \in Procs, req'[q].sub = x, req'[q].game = h PROVE FALSE
        BY <1>2, <3>2, <3>3, <3>6, <4>1 DEF Unattached
      <4>2. Unattached(x, h)'
        BY <1>1, <3>6, <4>1 DEF Unattached
      <4>3. QED
        BY <1>1, <4>2 DEF Witness, Explained
    <3>7. QED
      BY <3>1, <3>4, <3>5, <3>6 DEF Witness
  <2>3. QED
    BY <1>1, <2>1, <2>2 DEF CanonInv, Explained
<1>12. QED
  BY <1>2, <1>9, <1>10, <1>11 DEF CanonInv

\* A contribution that is made or rejected has not been begun, or is not running.
LEMMA SubCanon ==
    ASSUME TypeInv, CanonInv, clean, NEW s \in Subs,
           UNCHANGED <<text, req, started, clean>>,
           \A x \in Subs \ {s} : /\ status'[x] = status[x] /\ payload'[x] = payload[x]
                                 /\ target'[x] = target[x],
           \/ s \notin started
           \/ /\ payload'[s] = payload[s] /\ target'[s] = target[s]
              /\ status'[s] \notin {None, "approved"} /\ status[s] # "approved",
           \A p \in Procs : req[p].sub # s
    PROVE  CanonInv'
<1>1. started \subseteq Subs
  BY DEF TypeInv, TypeOK
<1>2. ASSUME NEW p \in Procs PROVE Running(p)'
  <2>1. CASE req[p] = Idle
    BY <2>1 DEF Running
  <2>2. CASE req[p] # Idle
    <3>1. Running(p) /\ req[p].sub \in Subs /\ req[p].sub # s
      BY <2>2, OnlyOneRuns
    <3>2. QED
      BY <3>1 DEF Running, At
  <2>3. QED
    BY <2>1, <2>2
<1>3. \A x \in started : status'[x] # None
  BY <1>1, StartedMade
<1>4. ASSUME NEW h \in Games PROVE Explained(h)'
  <2>1. CASE text[h] = None \/ FollowsRegions(text[h])
    BY <2>1 DEF Explained
  <2>2. CASE \E x \in started : Witness(x, h)
    <3>1. PICK x \in started : Witness(x, h)
      BY <2>2
    <3>2. /\ payload'[x] = payload[x] /\ target'[x] = target[x]
          /\ status[x] # "approved" => status'[x] # "approved"
      BY <1>1
    <3>3. \A p \in Procs : Refreshing(p)' <=> Refreshing(p)
      BY DEF Refreshing
    <3>4. Witness(x, h)'
      BY <3>1, <3>2, <3>3 DEF Witness, SetsDirectly, WillRefresh, Unattached, Direct
    <3>5. QED
      BY <3>4 DEF Explained
  <2>3. QED
    BY <2>1, <2>2 DEF CanonInv, Explained
<1>5. QED
  BY <1>2, <1>3, <1>4 DEF CanonInv

LEMMA CanonStep == TypeInv /\ CanonInv /\ [Next]_vars => CanonInv'
<1> SUFFICES ASSUME TypeInv, CanonInv, [Next]_vars, clean' PROVE CanonInv'
  BY DEF CanonInv
<1>1. CASE UNCHANGED vars
  <2>1. UNCHANGED <<text, status, payload, target, req, started, clean>>
    BY <1>1 DEF vars
  <2>2. \A p \in Procs : Running(p) <=> Running(p)'
    BY <2>1 DEF Running, At
  <2>3. \A p \in Procs : Refreshing(p) <=> Refreshing(p)'
    BY <2>1 DEF Refreshing
  <2>4. \A g \in Games : Explained(g) <=> Explained(g)'
    BY <2>1, <2>3 DEF Explained, Witness, SetsDirectly, WillRefresh, Unattached, Direct
  <2>5. QED
    BY <2>1, <2>2, <2>4 DEF CanonInv
<1>2. CASE \E s \in Subs : RejectMetadataSubmission(s)
  <2>1. PICK s \in Subs : RejectMetadataSubmission(s)
    BY <1>2
  <2>2. /\ clean /\ \A x \in Subs : status'[x] = IF x = s THEN "rejected" ELSE status[x]
        /\ status[s] = "pending" /\ \A p \in Procs : req[p].sub # s
        /\ UNCHANGED <<text, payload, target, req, started, clean>>
    BY <2>1 DEF RejectMetadataSubmission, TypeInv, TypeOK
  <2>3. "rejected" # None
    BY GameTextAssumption DEF GameTextAssumption
  <2>4. QED
    BY <2>2, <2>3, SubCanon
<1>3. CASE \E s \in Subs : \E p \in Payloads : CreateMetadataSubmission(s, p)
  <2>1. PICK s \in Subs, p \in Payloads : CreateMetadataSubmission(s, p)
    BY <1>3
  <2>2. /\ clean /\ status[s] = None /\ UNCHANGED <<text, req, started, clean>>
        /\ \A x \in Subs \ {s} : /\ status'[x] = status[x] /\ payload'[x] = payload[x]
                                 /\ target'[x] = target[x]
    BY <2>1 DEF CreateMetadataSubmission, TypeInv, TypeOK
  <2>3. s \notin started
    BY <2>2, StartedMade
  <2>4. \A q \in Procs : req[q].sub # s
    <3>1. Idle.sub # s
      BY GameTextAssumption DEF GameTextAssumption, Idle
    <3>2. \A q \in Procs : req[q] # Idle => req[q].sub \in started
      BY <2>2, OnlyOneRuns
    <3>3. QED
      BY <2>3, <3>1, <3>2
  <2>5. QED
    BY <2>2, <2>3, <2>4, SubCanon
<1>4. CASE \E p \in Procs : Statement(p) \/ Abort(p)
  <2>1. PICK p \in Procs : Statement(p) \/ Abort(p)
    BY <1>4
  <2>2. clean
    BY <2>1, StatementKeepsClean DEF Abort
  <2>3. QED
    BY <2>1, <2>2, StatementCanon, AbortCanon
<1>5. CASE \E p \in Procs : \E s \in Subs : ApproveMetadataSubmission(p, s)
  BY <1>5, ApproveCanon
<1>6. QED
  BY <1>1, <1>2, <1>3, <1>4, <1>5 DEF Next

LEMMA CanonInit == Init => CanonInv
<1> SUFFICES ASSUME Init PROVE CanonInv
  OBVIOUS
<1>1. \A p \in Procs : req[p] = Idle
  BY DEF Init
<1>2. \A g \in Games : Explained(g)
  BY CatalogueAssumption DEF Init, Explained, CatalogueAssumption
<1>3. QED
  BY <1>1, <1>2 DEF Init, CanonInv, Running

LEMMA CanonInvHolds == Spec => []CanonInv
BY TypeInvHolds, CanonInit, CanonStep, PTL DEF Spec

\* Once every contribution that was begun on a game is approved, whatever was cut
\* short on the way, the game shows the name and the year of its first region that
\* has one, unless values were given for it without a region.
THEOREM GameFollowsRegions == Spec => []CanonicalFollowsRegions
<1>1. TypeInv /\ CanonInv => CanonicalFollowsRegions
  <2> SUFFICES ASSUME TypeInv, CanonInv, clean, AllIdle, NEW g \in Games, text[g] # None,
                      \A s \in started : target[s] \in {g, None} =>
                         status[s] = "approved" /\ ~Direct(payload[s])
               PROVE  FollowsRegions(text[g])
    BY DEF CanonicalFollowsRegions
  <2>1. ASSUME NEW s \in started, Witness(s, g) PROVE FALSE
    BY <2>1 DEF Witness, SetsDirectly, WillRefresh, Unattached
  <2>2. QED
    BY <2>1 DEF CanonInv, Explained
<1>2. QED
  BY <1>1, TypeInvHolds, CanonInvHolds, PTL

-----------------------------------------------------------------------------
(***************************************************************************)
(* What a plan makes of a value.  Of the statements about it the last one  *)
(* decides; without any the value stays.  The same reading of a payload,   *)
(* entry by entry, is what the contributor asks for: both agree, so what   *)
(* an approval still has to do always leads from the text as it is now to  *)
(* the text that was asked for, and when nothing is left they are equal.   *)
(***************************************************************************)
Leaves(q, T, V, v, w) ==
    \/ w = v /\ \A i \in 1..Len(q) : q[i] \notin T
    \/ \E i \in 1..Len(q) : q[i] \in T /\ w = V[q[i]] /\ \A j \in 1..Len(q) : q[j] \in T => j <= i

LEMMA LeavesConcat ==
    ASSUME NEW S, NEW a \in Seq(S), NEW b \in Seq(S), NEW T, NEW V, NEW v, NEW u, NEW w,
           Leaves(a, T, V, v, u), Leaves(b, T, V, u, w)
    PROVE  Leaves(a \o b, T, V, v, w)
<1>1. /\ a \o b \in Seq(S) /\ Len(a) \in Nat /\ Len(b) \in Nat /\ Len(a \o b) = Len(a) + Len(b)
      /\ \A i \in 1..Len(a) : i \in 1..Len(a \o b) /\ (a \o b)[i] = a[i]
      /\ \A i \in 1..Len(b) : Len(a) + i \in 1..Len(a \o b) /\ (a \o b)[Len(a) + i] = b[i]
      /\ \A i \in 1..Len(a \o b) :
            i \in 1..Len(a) \/ (i - Len(a) \in 1..Len(b) /\ i = Len(a) + (i - Len(a)))
  BY ConcatJoined DEF Joined
<1>2. \A i \in 1..Len(a \o b) :
         \/ i \in 1..Len(a) /\ (a \o b)[i] = a[i]
         \/ i - Len(a) \in 1..Len(b) /\ (a \o b)[i] = b[i - Len(a)]
  BY <1>1
<1> DEFINE c == a \o b
<1>3. Len(c) = Len(a) + Len(b)
  BY <1>1
<1> HIDE DEF c
<1>4. CASE \E k \in 1..Len(b) : b[k] \in T /\ w = V[b[k]] /\ \A j \in 1..Len(b) : b[j] \in T => j <= k
  <2>1. PICK k \in 1..Len(b) : b[k] \in T /\ w = V[b[k]] /\ \A j \in 1..Len(b) : b[j] \in T => j <= k
    BY <1>4
  <2>2. Len(a) + k \in 1..Len(c) /\ c[Len(a) + k] = b[k]
    BY <1>1 DEF c
  <2>3. ASSUME NEW j \in 1..Len(c), c[j] \in T PROVE j <= Len(a) + k
    <3>1. CASE j \in 1..Len(a)
      BY <1>1, <3>1
    <3>2. CASE j - Len(a) \in 1..Len(b) /\ c[j] = b[j - Len(a)]
      <4>1. j - Len(a) <= k
        BY <2>1, <2>3, <3>2
      <4>2. QED
        BY <1>1, <1>3, <4>1
    <3>3. QED
      BY <1>2, <3>1, <3>2 DEF c
  <2>4. QED
    BY <2>1, <2>2, <2>3 DEF Leaves, c
<1>5. CASE w = u /\ \A i \in 1..Len(b) : b[i] \notin T
  <2>1. ASSUME NEW i \in 1..Len(c), c[i] \in T PROVE i \in 1..Len(a) /\ c[i] = a[i]
    BY <1>2, <1>5, <2>1 DEF c
  <2>2. CASE u = v /\ \A i \in 1..Len(a) : a[i] \notin T
    BY <1>5, <2>1, <2>2 DEF Leaves, c
  <2>3. CASE \E k \in 1..Len(a) : a[k] \in T /\ u = V[a[k]] /\ \A j \in 1..Len(a) : a[j] \in T => j <= k
    <3>1. PICK k \in 1..Len(a) : a[k] \in T /\ u = V[a[k]] /\ \A j \in 1..Len(a) : a[j] \in T => j <= k
      BY <2>3
    <3>2. k \in 1..Len(c) /\ c[k] = a[k]
      BY <1>1 DEF c
    <3>3. \A j \in 1..Len(c) : c[j] \in T => j <= k
      BY <2>1, <3>1
    <3>4. QED
      BY <1>5, <3>1, <3>2, <3>3 DEF Leaves, c
  <2>4. QED
    BY <2>2, <2>3 DEF Leaves
<1>6. QED
  BY <1>4, <1>5 DEF Leaves

\* The first statement is done.
LEMMA LeavesTail ==
    ASSUME NEW S, NEW q \in Seq(S), q # <<>>, NEW T, NEW V, NEW v, NEW u, NEW w,
           Leaves(q, T, V, v, w),
           u = IF Head(q) \in T THEN V[Head(q)] ELSE v
    PROVE  Leaves(Tail(q), T, V, u, w)
<1> DEFINE t == Tail(q)
<1>1. /\ Len(q) \in Nat /\ Len(t) = Len(q) - 1 /\ Head(q) = q[1] /\ 1 \in 1..Len(q)
      /\ \A i \in 1..Len(t) : i + 1 \in 1..Len(q) /\ t[i] = q[i + 1]
      /\ \A i \in 1..Len(q) : i = 1 \/ (i - 1 \in 1..Len(t) /\ t[i - 1] = q[i])
  BY TailIndex
<1> HIDE DEF t
<1>2. CASE w = v /\ \A i \in 1..Len(q) : q[i] \notin T
  BY <1>1, <1>2 DEF Leaves, t
<1>3. CASE \E k \in 1..Len(q) : q[k] \in T /\ w = V[q[k]] /\ \A j \in 1..Len(q) : q[j] \in T => j <= k
  <2>1. PICK k \in 1..Len(q) : q[k] \in T /\ w = V[q[k]] /\ \A j \in 1..Len(q) : q[j] \in T => j <= k
    BY <1>3
  <2>2. CASE k = 1
    <3>1. \A j \in 1..Len(t) : t[j] \notin T
      <4> SUFFICES ASSUME NEW j \in 1..Len(t), t[j] \in T PROVE FALSE
        OBVIOUS
      <4>1. j + 1 <= 1
        BY <1>1, <2>1, <2>2
      <4>2. QED
        BY <4>1
    <3>2. QED
      BY <1>1, <2>1, <2>2, <3>1 DEF Leaves, t
  <2>3. CASE k # 1
    <3>1. k - 1 \in 1..Len(t) /\ t[k - 1] = q[k]
      BY <1>1, <2>3
    <3>2. ASSUME NEW j \in 1..Len(t), t[j] \in T PROVE j <= k - 1
      <4>1. j + 1 <= k
        BY <1>1, <2>1, <3>2
      <4>2. QED
        BY <4>1
    <3>3. QED
      BY <2>1, <3>1, <3>2 DEF Leaves, t
  <2>4. QED
    BY <2>2, <2>3
<1>4. QED
  BY <1>2, <1>3 DEF Leaves

LEMMA LeavesNone ==
    ASSUME NEW S, NEW q \in Seq(S), NEW T, NEW V, NEW v, S \cap T = {}
    PROVE  Leaves(q, T, V, v, v)
<1>1. \A i \in 1..Len(q) : q[i] \in S
  OBVIOUS
<1>2. QED
  BY <1>1 DEF Leaves

LEMMA LeavesOne ==
    ASSUME NEW o, NEW T, NEW V, NEW v
    PROVE  Leaves(<<o>>, T, V, v, IF o \in T THEN V[o] ELSE v)
BY DEF Leaves

\* Some value is left.
LEMMA LeavesSome ==
    ASSUME NEW S, NEW q \in Seq(S), NEW T, NEW V, NEW v
    PROVE  \E w : Leaves(q, T, V, v, w)
<1> DEFINE bounds == {k \in 0..Len(q) : \A i \in 1..Len(q) : q[i] \in T => i <= k}
<1>0. Len(q) \in Nat
  OBVIOUS
<1>1. bounds \subseteq Nat /\ Len(q) \in bounds
  BY <1>0
<1>2. PICK k \in bounds : \A j \in bounds : k <= j
  <2> HIDE DEF bounds
  <2> QED BY <1>1, LeastNat
<1>3. k \in 0..Len(q) /\ \A i \in 1..Len(q) : q[i] \in T => i <= k
  OBVIOUS
<1>4. CASE k = 0
  <2>1. \A i \in 1..Len(q) : q[i] \notin T
    BY <1>0, <1>3, <1>4
  <2>2. QED
    BY <2>1 DEF Leaves
<1>5. CASE k # 0
  <2>1. k \in 1..Len(q) /\ k - 1 \in 0..Len(q) /\ ~(k <= k - 1)
    BY <1>0, <1>3, <1>5
  <2>2. k - 1 \notin bounds
    <3> HIDE DEF bounds
    <3> QED BY <1>2, <2>1
  <2>3. PICK i \in 1..Len(q) : q[i] \in T /\ ~(i <= k - 1)
    BY <2>1, <2>2
  <2>4. i <= k
    BY <1>3, <2>3
  <2>5. i = k
    BY <1>0, <1>3, <2>3, <2>4
  <2>6. QED
    BY <1>3, <2>1, <2>3, <2>5 DEF Leaves
<1>6. QED
  BY <1>4, <1>5

\* What a statement and what an entry of a payload say of a value of a region.
RegionWrites(r, f) ==
    {o \in Statements : \/ o.op = "upsert" /\ Sets(o.entry, r, f)
                        \/ o.op = "clear" /\ o.region = r /\ o.field = f}
RegionWritten(f) == [o \in Statements |-> IF o.op = "upsert" THEN Value(o.entry, f) ELSE None]

EntryWrites(r, f) == {e \in Entries : Touches(e, r, f)}
EntryWritten(r, f) == [e \in Entries |-> IF Sets(e, r, f) THEN Value(e, f) ELSE None]

\* Statements and entries that leave the same value.
Same(q, es, r, f) ==
    \A v : \E w : /\ Leaves(q, RegionWrites(r, f), RegionWritten(f), v, w)
                  /\ Leaves(es, EntryWrites(r, f), EntryWritten(r, f), v, w)

LEMMA SameConcat ==
    ASSUME NEW a \in Seq(Statements), NEW b \in Seq(Statements),
           NEW d \in Seq(Entries), NEW e \in Seq(Entries), NEW r, NEW f,
           Same(a, d, r, f), Same(b, e, r, f)
    PROVE  Same(a \o b, d \o e, r, f)
<1> SUFFICES ASSUME NEW v
             PROVE  \E w : /\ Leaves(a \o b, RegionWrites(r, f), RegionWritten(f), v, w)
                           /\ Leaves(d \o e, EntryWrites(r, f), EntryWritten(r, f), v, w)
  BY DEF Same
<1>1. PICK u : /\ Leaves(a, RegionWrites(r, f), RegionWritten(f), v, u)
               /\ Leaves(d, EntryWrites(r, f), EntryWritten(r, f), v, u)
  BY DEF Same
<1>2. PICK w : /\ Leaves(b, RegionWrites(r, f), RegionWritten(f), u, w)
               /\ Leaves(e, EntryWrites(r, f), EntryWritten(r, f), u, w)
  BY DEF Same
<1>3. Leaves(a \o b, RegionWrites(r, f), RegionWritten(f), v, w)
  BY <1>1, <1>2, LeavesConcat
<1>4. Leaves(d \o e, EntryWrites(r, f), EntryWritten(r, f), v, w)
  BY <1>1, <1>2, LeavesConcat
<1>5. QED
  BY <1>3, <1>4

\* Statements that are not about regions.
OtherStatements == {o \in Statements : o.op \notin {"upsert", "clear"}}

LEMMA SameOther ==
    ASSUME NEW a \in Seq(OtherStatements), NEW r, NEW f
    PROVE  Same(a, <<>>, r, f)
<1>1. OtherStatements \cap RegionWrites(r, f) = {}
  BY DEF OtherStatements, RegionWrites
<1>2. \A v : Leaves(a, RegionWrites(r, f), RegionWritten(f), v, v)
  BY <1>1, LeavesNone
<1>3. \A v : Leaves(<<>>, EntryWrites(r, f), EntryWritten(r, f), v, v)
  BY DEF Leaves
<1>4. QED
  BY <1>2, <1>3 DEF Same

\* An entry that is not about the value, without any statement.
LEMMA SameNothing ==
    ASSUME NEW e \in Entries, NEW r, NEW f, ~ Touches(e, r, f)
    PROVE  Same(<<>>, <<e>>, r, f)
<1>1. e \notin EntryWrites(r, f)
  BY DEF EntryWrites
<1>2. \A v : Leaves(<<e>>, EntryWrites(r, f), EntryWritten(r, f), v, v)
  BY <1>1 DEF Leaves
<1>3. \A v : Leaves(<<>>, RegionWrites(r, f), RegionWritten(f), v, v)
  BY DEF Leaves
<1>4. QED
  BY <1>2, <1>3 DEF Same

LEMMA ClearType ==
    ASSUME NEW x \in Regions, NEW k \in {"name", "year"}
    PROVE  Clear(x, k) \in Seq(Statements)
<1>1. [op |-> "clear", region |-> x, field |-> k] \in Statements /\ [op |-> "drop", region |-> x] \in Statements
  BY DEF Statements, ApplyStatements, RegionStatements
<1>2. QED
  BY <1>1 DEF Clear

LEMMA ClearLeaves ==
    ASSUME NEW c \in BOOLEAN, NEW x, c => x \in Regions, NEW k \in {"name", "year"}, NEW r, NEW f, NEW v
    PROVE  /\ When(c, Clear(x, k)) \in Seq(Statements)
           /\ Leaves(When(c, Clear(x, k)), RegionWrites(r, f), RegionWritten(f), v,
                     IF c /\ x = r /\ k = f THEN None ELSE v)
<1>1. CASE ~c
  BY <1>1 DEF When, Leaves
<1>2. CASE c
  <2> DEFINE o == [op |-> "clear", region |-> x, field |-> k]
             d == [op |-> "drop", region |-> x]
             u == IF x = r /\ k = f THEN None ELSE v
  <2>1. o \in Statements /\ d \in Statements
    BY <1>2 DEF Statements, ApplyStatements, RegionStatements
  <2>2. o \in RegionWrites(r, f) <=> x = r /\ k = f
    BY <2>1 DEF RegionWrites
  <2>3. d \notin RegionWrites(r, f) /\ RegionWritten(f)[o] = None
    BY <2>1 DEF RegionWrites, RegionWritten
  <2> HIDE DEF o, d
  <2>4. Leaves(<<o>>, RegionWrites(r, f), RegionWritten(f), v, u)
    BY <2>2, <2>3, LeavesOne
  <2>5. Leaves(<<d>>, RegionWrites(r, f), RegionWritten(f), u, u)
    BY <2>3, LeavesOne
  <2>6. <<o>> \in Seq(Statements) /\ <<d>> \in Seq(Statements)
    BY <2>1
  <2>7. Leaves(<<o>> \o <<d>>, RegionWrites(r, f), RegionWritten(f), v, u)
    BY <2>4, <2>5, <2>6, LeavesConcat
  <2>8. When(c, Clear(x, k)) = <<o>> \o <<d>>
    BY <1>2 DEF When, Clear, o, d
  <2>9. QED
    BY <1>2, <2>6, <2>7, <2>8, Concat
<1>3. QED
  BY <1>1, <1>2

LEMMA UpsertLeaves ==
    ASSUME NEW e \in Entries, NEW r, NEW f \in {"name", "year"}, NEW v
    PROVE  /\ Upsert(e) \in Seq(Statements)
           /\ Leaves(Upsert(e), RegionWrites(r, f), RegionWritten(f), v,
                     IF Sets(e, r, f) THEN Value(e, f) ELSE v)
<1>1. CASE e.name = None /\ e.year = None
  BY <1>1 DEF Upsert, When, Leaves, Sets, Value
<1>2. CASE e.name # None \/ e.year # None
  <2> DEFINE o == [op |-> "upsert", entry |-> e]
  <2>1. o \in Statements
    BY DEF Statements, ApplyStatements, RegionStatements
  <2>2. o \in RegionWrites(r, f) <=> Sets(e, r, f)
    BY <2>1 DEF RegionWrites
  <2>3. RegionWritten(f)[o] = Value(e, f)
    BY <2>1 DEF RegionWritten
  <2>4. Upsert(e) = <<o>>
    BY <1>2 DEF Upsert, When
  <2> HIDE DEF o
  <2>5. (IF o \in RegionWrites(r, f) THEN RegionWritten(f)[o] ELSE v) = IF Sets(e, r, f) THEN Value(e, f) ELSE v
    BY <2>2, <2>3
  <2>6. Leaves(<<o>>, RegionWrites(r, f), RegionWritten(f), v,
               IF o \in RegionWrites(r, f) THEN RegionWritten(f)[o] ELSE v)
    BY LeavesOne
  <2>7. <<o>> \in Seq(Statements)
    BY <2>1
  <2>8. QED
    BY <2>4, <2>5, <2>6, <2>7
<1>3. QED
  BY <1>1, <1>2

\* The statements of an entry do what it says.
LEMMA SameEntry ==
    ASSUME NEW e \in Entries, NEW r \in Regions, NEW f \in {"name", "year"}
    PROVE  Same(EntryOps(e), <<e>>, r, f)
<1> SUFFICES ASSUME NEW v
             PROVE  \E w : /\ Leaves(EntryOps(e), RegionWrites(r, f), RegionWritten(f), v, w)
                           /\ Leaves(<<e>>, EntryWrites(r, f), EntryWritten(r, f), v, w)
  BY DEF Same
<1> DEFINE T == RegionWrites(r, f)
           V == RegionWritten(f)
           s1 == When(e.delete_name, Clear(e.region, "name"))
           s2 == When(e.delete_release, Clear(e.region, "year"))
           s3 == When(e.name_from \notin {None, e.region}, Clear(e.name_from, "name"))
           s4 == When(e.release_from \notin {None, e.region}, Clear(e.release_from, "year"))
           s5 == Upsert(e)
           v1 == IF e.delete_name /\ e.region = r /\ "name" = f THEN None ELSE v
           v2 == IF e.delete_release /\ e.region = r /\ "year" = f THEN None ELSE v1
           v3 == IF e.name_from \notin {None, e.region} /\ e.name_from = r /\ "name" = f THEN None ELSE v2
           v4 == IF e.release_from \notin {None, e.region} /\ e.release_from = r /\ "year" = f THEN None ELSE v3
           w == IF Sets(e, r, f) THEN Value(e, f) ELSE v4
<1>0. /\ e.region \in Regions /\ e.name_from \in Regions \cup {None} /\ e.release_from \in Regions \cup {None}
      /\ e.delete_name \in BOOLEAN /\ e.delete_release \in BOOLEAN
  BY DEF Entries
<1>1. s1 \in Seq(Statements) /\ Leaves(s1, T, V, v, v1)
  BY <1>0, ClearLeaves
<1>2. s2 \in Seq(Statements) /\ Leaves(s2, T, V, v1, v2)
  <2> HIDE DEF v1
  <2> QED BY <1>0, ClearLeaves
<1>3. s3 \in Seq(Statements) /\ Leaves(s3, T, V, v2, v3)
  <2> HIDE DEF v2
  <2>1. PICK c \in BOOLEAN : c = (e.name_from \notin {None, e.region})
    OBVIOUS
  <2>2. c => e.name_from \in Regions
    BY <1>0, <2>1
  <2>3. QED
    BY <2>1, <2>2, ClearLeaves
<1>4. s4 \in Seq(Statements) /\ Leaves(s4, T, V, v3, v4)
  <2> HIDE DEF v3
  <2>1. PICK c \in BOOLEAN : c = (e.release_from \notin {None, e.region})
    OBVIOUS
  <2>2. c => e.release_from \in Regions
    BY <1>0, <2>1
  <2>3. QED
    BY <2>1, <2>2, ClearLeaves
<1>5. s5 \in Seq(Statements) /\ Leaves(s5, T, V, v4, w)
  <2> HIDE DEF v4
  <2> QED BY UpsertLeaves
<1>6. EntryOps(e) = s1 \o s2 \o s3 \o s4 \o s5
  BY DEF EntryOps
<1>7. Leaves(<<e>>, EntryWrites(r, f), EntryWritten(r, f), v, w)
  <2>1. e \in EntryWrites(r, f) <=> Touches(e, r, f)
    BY DEF EntryWrites
  <2>2. EntryWritten(r, f)[e] = IF Sets(e, r, f) THEN Value(e, f) ELSE None
    BY DEF EntryWritten
  <2>3. w = IF Touches(e, r, f) THEN (IF Sets(e, r, f) THEN Value(e, f) ELSE None) ELSE v
    <3>1. r # None
      BY GameTextAssumption DEF GameTextAssumption
    <3>2. CASE Sets(e, r, f)
      BY <3>2 DEF Touches
    <3>3. CASE ~ Sets(e, r, f) /\ f = "name"
      BY <1>0, <3>1, <3>3 DEF Touches, From, Deletes
    <3>4. CASE ~ Sets(e, r, f) /\ f = "year"
      BY <1>0, <3>1, <3>4 DEF Touches, From, Deletes
    <3>5. QED
      BY <3>2, <3>3, <3>4
  <2> HIDE DEF w
  <2>4. QED
    BY <2>1, <2>2, <2>3, LeavesOne
<1> HIDE DEF T, V, s1, s2, s3, s4, s5, v1, v2, v3, v4, w
<1>8. s1 \o s2 \in Seq(Statements) /\ Leaves(s1 \o s2, T, V, v, v2)
  BY <1>1, <1>2, LeavesConcat, Concat
<1>9. s1 \o s2 \o s3 \in Seq(Statements) /\ Leaves(s1 \o s2 \o s3, T, V, v, v3)
  BY <1>3, <1>8, LeavesConcat, Concat
<1>10. s1 \o s2 \o s3 \o s4 \in Seq(Statements) /\ Leaves(s1 \o s2 \o s3 \o s4, T, V, v, v4)
  BY <1>4, <1>9, LeavesConcat, Concat
<1>11. Leaves(s1 \o s2 \o s3 \o s4 \o s5, T, V, v, w)
  BY <1>5, <1>10, LeavesConcat
<1>12. QED
  BY <1>6, <1>7, <1>11 DEF T, V

LEMMA PrefixOf ==
    ASSUME NEW S, NEW q \in Seq(S), NEW k \in 1..Len(q), k # 1
    PROVE  /\ [i \in 1..(k - 1) |-> q[i]] \in Seq(S)
           /\ [i \in 1..k |-> q[i]] = [i \in 1..(k - 1) |-> q[i]] \o <<q[k]>>
<1> DEFINE a == [i \in 1..(k - 1) |-> q[i]]
           b == [i \in 1..k |-> q[i]]
<1>1. k \in Nat /\ k - 1 \in Nat /\ Len(q) \in Nat /\ \A i \in 1..Len(q) : q[i] \in S
  OBVIOUS
<1>2. a \in Seq(S) /\ Len(a) = k - 1 /\ b \in Seq(S) /\ Len(b) = k
  BY <1>1
<1>3. a \o <<q[k]>> \in Seq(S) /\ Len(a \o <<q[k]>>) = k
  BY <1>1, <1>2
<1>4. \A i \in 1..k : (a \o <<q[k]>>)[i] = b[i]
  BY <1>1, <1>2
<1> HIDE DEF a, b
<1>5. a \o <<q[k]>> = b
  BY <1>2, <1>3, <1>4
<1>6. QED
  BY <1>2, <1>5 DEF a, b

LEMMA EntryStatements ==
    ASSUME NEW e \in Entries
    PROVE  EntryOps(e) \in Seq(Statements)
BY EntryOpsType, SubSeqType DEF Statements, ApplyStatements

\* Entry by entry.
LEMMA SameEntries ==
    ASSUME NEW es \in Seq(Entries), es # <<>>, NEW r \in Regions, NEW f \in {"name", "year"}
    PROVE  /\ FlattenSeq([i \in DOMAIN es |-> EntryOps(es[i])]) \in Seq(Statements)
           /\ Same(FlattenSeq([i \in DOMAIN es |-> EntryOps(es[i])]), es, r, f)
<1> DEFINE each == [i \in DOMAIN es |-> EntryOps(es[i])]
           n == Len(es)
<1>0. n \in Nat /\ n # 0 /\ DOMAIN es = 1..n /\ \A i \in 1..n : es[i] \in Entries
  OBVIOUS
<1>1. each \in Seq(Seq(Statements)) /\ Len(each) = n /\ \A i \in 1..n : each[i] = EntryOps(es[i])
  BY <1>0, EntryStatements
<1> HIDE DEF each
<1>2. each # <<>>
  BY <1>0, <1>1
<1>3. PICK g : /\ FlattenSeq(each) = g[n] /\ g[1] = each[1]
               /\ \A i \in 1..n : i # 1 => g[i] = g[i-1] \o each[i]
               /\ \A i \in 1..n : g[i] \in Seq(Statements)
  <2> HIDE DEF n
  <2>1. PICK g : /\ FlattenSeq(each) = g[Len(each)] /\ g[1] = each[1]
                 /\ \A i \in 1..Len(each) : i # 1 => g[i] = g[i-1] \o each[i]
                 /\ \A i \in 1..Len(each) : g[i] \in Seq(Statements)
    BY <1>1, <1>2, FlattenSeqType
  <2>2. QED
    BY <1>1, <2>1
<1> DEFINE differ == {k \in 1..n : ~ Same(g[k], [i \in 1..k |-> es[i]], r, f)}
<1>4. differ = {}
  <2> SUFFICES ASSUME differ # {} PROVE FALSE
    OBVIOUS
  <2>1. PICK k \in differ : \A j \in differ : k <= j
    <3>1. differ \subseteq Nat
      BY <1>0
    <3> HIDE DEF differ
    <3>2. QED
      BY <3>1, LeastNat
  <2>2. k \in 1..n /\ ~ Same(g[k], [i \in 1..k |-> es[i]], r, f)
    OBVIOUS
  <2>3. Same(each[k], <<es[k]>>, r, f) /\ es[k] \in Entries
    BY <1>0, <1>1, <2>2, SameEntry
  <2>4. CASE k = 1
    <3>1. [i \in 1..k |-> es[i]] = <<es[k]>>
      BY <1>0, <2>4
    <3>2. QED
      BY <1>3, <2>2, <2>3, <2>4, <3>1
  <2>5. CASE k # 1
    <3>1. k - 1 \in 1..n /\ ~(k <= k - 1)
      BY <1>0, <2>2, <2>5
    <3>2. Same(g[k-1], [i \in 1..(k-1) |-> es[i]], r, f)
      BY <2>1, <3>1
    <3>3. g[k] = g[k-1] \o each[k] /\ g[k-1] \in Seq(Statements) /\ each[k] \in Seq(Statements)
      <4>1. g[k] = g[k-1] \o each[k] /\ g[k-1] \in Seq(Statements)
        BY <1>3, <2>2, <2>5, <3>1
      <4>2. each[k] \in Seq(Statements)
        BY <1>0, <1>1, <2>2, EntryStatements
      <4>3. QED
        BY <4>1, <4>2
    <3>4. /\ [i \in 1..(k-1) |-> es[i]] \in Seq(Entries)
          /\ [i \in 1..k |-> es[i]] = [i \in 1..(k-1) |-> es[i]] \o <<es[k]>>
      BY <2>2, <2>5, PrefixOf
    <3>5. <<es[k]>> \in Seq(Entries)
      BY <2>3
    <3>6. Same(g[k-1] \o each[k], [i \in 1..(k-1) |-> es[i]] \o <<es[k]>>, r, f)
      BY <2>3, <3>2, <3>3, <3>4, <3>5, SameConcat
    <3>7. QED
      BY <2>2, <3>3, <3>4, <3>6
  <2>6. QED
    BY <2>4, <2>5
<1>5. n \in 1..n
  BY <1>0
<1>6. Same(g[n], [i \in 1..n |-> es[i]], r, f)
  BY <1>4, <1>5
<1>7. [i \in 1..n |-> es[i]] = es
  BY <1>0
<1>8. QED
  BY <1>3, <1>5, <1>6, <1>7 DEF each

LEMMA Refreshed ==
    ASSUME NEW a \in Seq(Statements), NEW es \in Seq(Entries), NEW r, NEW f, Same(a, es, r, f)
    PROVE  a \o Op("refresh") \in Seq(Statements) /\ Same(a \o Op("refresh"), es, r, f)
<1>1. Op("refresh") \in Seq(OtherStatements) /\ Op("refresh") \in Seq(Statements)
  BY DEF Op, OtherStatements, Statements, ApplyStatements
<1>2. Same(Op("refresh"), <<>>, r, f)
  BY <1>1, SameOther
<1>3. Same(a \o Op("refresh"), es \o <<>>, r, f)
  <2>1. <<>> \in Seq(Entries)
    OBVIOUS
  <2>2. QED
    BY <1>1, <1>2, <2>1, SameConcat
<1>4. es \o <<>> = es
  OBVIOUS
<1>5. QED
  BY <1>1, <1>3, <1>4, Concat

LEMMA SameEmpty == \A r, f : Same(<<>>, <<>>, r, f)
BY DEF Same, Leaves

LEMMA EntriesSame ==
    ASSUME NEW p \in Payloads, NEW r \in Regions, NEW f \in {"name", "year"}
    PROVE  EntriesOps(p) \in Seq(Statements) /\ Same(EntriesOps(p), p.regions, r, f)
<1>1. CASE p.regions = <<>>
  BY <1>1, SameEmpty DEF EntriesOps, When
<1>2. CASE p.regions # <<>>
  <2> DEFINE a == FlattenSeq([i \in DOMAIN p.regions |-> EntryOps(p.regions[i])])
  <2>1. EntriesOps(p) = a \o Op("refresh")
    BY <1>2 DEF EntriesOps, When
  <2>2. p.regions \in Seq(Entries)
    BY PayloadFields
  <2>3. a \in Seq(Statements) /\ Same(a, p.regions, r, f)
    BY <1>2, <2>2, SameEntries
  <2> HIDE DEF a
  <2>4. QED
    BY <2>1, <2>2, <2>3, Refreshed
<1>3. QED
  BY <1>1, <1>2

DeleteEntry(p) ==
    [Entry(p.region) EXCEPT !.delete_name = p.delete = "name", !.delete_release = p.delete = "release"]
SetEntry(p) ==
    [Entry(p.region) EXCEPT !.name = p.name, !.year = p.year,
                            !.name_from = IF p.name = None THEN None ELSE p.region_from,
                            !.release_from = IF p.year = None THEN None ELSE p.region_from]

LEMMA ChangesOf ==
    ASSUME NEW p
    PROVE  Changes(p) = p.regions \o When(p.region # None, <<DeleteEntry(p)>>)
                          \o When(p.region # None /\ p.regions = <<>>, <<SetEntry(p)>>)
BY DEF Changes, DeleteEntry, SetEntry

LEMMA NamedEntries ==
    ASSUME NEW p \in Payloads, p.region # None
    PROVE  LET d == DeleteEntry(p) e == SetEntry(p) IN
           /\ d \in Entries /\ d.region = p.region /\ d.name = None /\ d.year = None
           /\ d.name_from = None /\ d.release_from = None
           /\ d.delete_name <=> p.delete = "name"
           /\ d.delete_release <=> p.delete = "release"
           /\ e \in Entries /\ e.region = p.region /\ e.name = p.name /\ e.year = p.year
           /\ e.name_from = IF p.name = None THEN None ELSE p.region_from
           /\ e.release_from = IF p.year = None THEN None ELSE p.region_from
           /\ ~ e.delete_name /\ ~ e.delete_release
<1>1. /\ p.region \in Regions /\ p.region_from \in Regions \cup {None}
      /\ p.name \in Names \cup {None} /\ p.year \in Years \cup {None}
  BY PayloadFields
<1>2. LET d == DeleteEntry(p) IN
      /\ d \in Entries /\ d.region = p.region /\ d.name = None /\ d.year = None
      /\ d.name_from = None /\ d.release_from = None
      /\ d.delete_name <=> p.delete = "name"
      /\ d.delete_release <=> p.delete = "release"
  <2>1. PICK n \in BOOLEAN, y \in BOOLEAN : n = (p.delete = "name") /\ y = (p.delete = "release")
    OBVIOUS
  <2>2. DeleteEntry(p) = [Entry(p.region) EXCEPT !.delete_name = n, !.delete_release = y]
    BY <2>1 DEF DeleteEntry
  <2> DEFINE d == [Entry(p.region) EXCEPT !.delete_name = n, !.delete_release = y]
  <2>3. d \in Entries
    BY <1>1, EntryTyped
  <2>4. /\ d.region = p.region /\ d.name = None /\ d.year = None /\ d.name_from = None
        /\ d.release_from = None /\ d.delete_name = n /\ d.delete_release = y
    BY DEF Entry
  <2> HIDE DEF d
  <2>5. QED
    BY <2>1, <2>2, <2>3, <2>4 DEF d
<1>3. LET e == SetEntry(p) IN
      /\ e \in Entries /\ e.region = p.region /\ e.name = p.name /\ e.year = p.year
      /\ e.name_from = IF p.name = None THEN None ELSE p.region_from
      /\ e.release_from = IF p.year = None THEN None ELSE p.region_from
      /\ ~ e.delete_name /\ ~ e.delete_release
  <2> DEFINE nf == IF p.name = None THEN None ELSE p.region_from
             rf == IF p.year = None THEN None ELSE p.region_from
             e == [Entry(p.region) EXCEPT !.name = p.name, !.year = p.year, !.name_from = nf, !.release_from = rf]
  <2>1. nf \in Regions \cup {None} /\ rf \in Regions \cup {None} /\ SetEntry(p) = e
    BY <1>1 DEF SetEntry
  <2> HIDE DEF nf, rf
  <2>2. /\ e.region = p.region /\ e.name = p.name /\ e.year = p.year /\ e.name_from = nf
        /\ e.release_from = rf /\ e.delete_name = FALSE /\ e.delete_release = FALSE
    BY DEF Entry
  <2>3. e \in Entries
    BY <1>1, <2>1 DEF Entries, Entry
  <2> HIDE DEF e
  <2>4. QED
    BY <2>1, <2>2, <2>3 DEF nf, rf
<1>4. QED
  BY <1>2, <1>3

LEMMA DeleteSame ==
    ASSUME NEW p \in Payloads, NEW r \in Regions, NEW f \in {"name", "year"}
    PROVE  /\ DeleteOps(p) \in Seq(Statements)
           /\ Same(DeleteOps(p), When(p.region # None, <<DeleteEntry(p)>>), r, f)
<1>1. CASE p.region = None
  BY <1>1, SameEmpty DEF DeleteOps, When
<1>2. CASE p.region # None /\ p.delete = None
  <2>1. DeleteOps(p) = <<>> /\ When(p.region # None, <<DeleteEntry(p)>>) = <<DeleteEntry(p)>>
    BY <1>2 DEF DeleteOps, When
  <2>2. DeleteEntry(p) \in Entries
    BY <1>2, NamedEntries
  <2>3. ~ Touches(DeleteEntry(p), r, f)
    <3>1. None # "name" /\ None # "release" /\ r # None
      BY GameTextAssumption DEF GameTextAssumption
    <3>2. QED
      BY <1>2, <3>1, NamedEntries DEF Touches, Sets, Value, From, Deletes
  <2>4. QED
    BY <2>1, <2>2, <2>3, SameNothing
<1>3. CASE p.region # None /\ p.delete # None
  <2>1. /\ DeleteOps(p) = EntryOps(DeleteEntry(p)) \o Op("refresh")
        /\ When(p.region # None, <<DeleteEntry(p)>>) = <<DeleteEntry(p)>>
    BY <1>3 DEF DeleteOps, When, DeleteEntry
  <2>2. DeleteEntry(p) \in Entries
    BY <1>3, NamedEntries
  <2>3. EntryOps(DeleteEntry(p)) \in Seq(Statements) /\ <<DeleteEntry(p)>> \in Seq(Entries)
    BY <2>2, EntryStatements
  <2>4. Same(EntryOps(DeleteEntry(p)), <<DeleteEntry(p)>>, r, f)
    BY <2>2, SameEntry
  <2>5. QED
    BY <2>1, <2>3, <2>4, Refreshed
<1>4. QED
  BY <1>1, <1>2, <1>3

\* Entries that say the same of the value.
LEMMA SameAlike ==
    ASSUME NEW a, NEW d \in Entries, NEW e \in Entries, NEW r, NEW f,
           Same(a, <<d>>, r, f),
           Touches(d, r, f) <=> Touches(e, r, f), Sets(d, r, f) <=> Sets(e, r, f),
           Value(d, f) = Value(e, f)
    PROVE  Same(a, <<e>>, r, f)
<1> SUFFICES ASSUME NEW v
             PROVE  \E w : /\ Leaves(a, RegionWrites(r, f), RegionWritten(f), v, w)
                           /\ Leaves(<<e>>, EntryWrites(r, f), EntryWritten(r, f), v, w)
  BY DEF Same
<1>1. PICK w : /\ Leaves(a, RegionWrites(r, f), RegionWritten(f), v, w)
               /\ Leaves(<<d>>, EntryWrites(r, f), EntryWritten(r, f), v, w)
  BY DEF Same
<1>2. (d \in EntryWrites(r, f)) <=> (e \in EntryWrites(r, f))
  BY DEF EntryWrites
<1>3. EntryWritten(r, f)[d] = EntryWritten(r, f)[e]
  BY DEF EntryWritten
<1>4. Leaves(<<e>>, EntryWrites(r, f), EntryWritten(r, f), v, w)
  BY <1>1, <1>2, <1>3 DEF Leaves
<1>5. QED
  BY <1>1, <1>4

LEMMA SameWithout ==
    ASSUME NEW a, NEW d \in Entries, NEW r, NEW f, Same(a, <<d>>, r, f), ~ Touches(d, r, f)
    PROVE  Same(a, <<>>, r, f)
<1> SUFFICES ASSUME NEW v
             PROVE  \E w : /\ Leaves(a, RegionWrites(r, f), RegionWritten(f), v, w)
                           /\ Leaves(<<>>, EntryWrites(r, f), EntryWritten(r, f), v, w)
  BY DEF Same
<1>1. PICK w : /\ Leaves(a, RegionWrites(r, f), RegionWritten(f), v, w)
               /\ Leaves(<<d>>, EntryWrites(r, f), EntryWritten(r, f), v, w)
  BY DEF Same
<1>2. d \notin EntryWrites(r, f)
  BY DEF EntryWrites
<1>3. w = v
  BY <1>1, <1>2 DEF Leaves
<1>4. QED
  BY <1>1, <1>3 DEF Leaves

LEMMA NameSame ==
    ASSUME NEW p \in Payloads, NEW r \in Regions, NEW f \in {"name", "year"}
    PROVE  /\ NameOps(p) \in Seq(Statements)
           /\ Same(NameOps(p), When(f = "name" /\ p.region # None /\ p.regions = <<>>, <<SetEntry(p)>>), r, f)
<1> DEFINE es == When(f = "name" /\ p.region # None /\ p.regions = <<>>, <<SetEntry(p)>>)
<1>0. r # None
  BY GameTextAssumption DEF GameTextAssumption
<1>1. CASE p.name = None \/ p.regions # <<>>
  <2>1. NameOps(p) = <<>>
    BY <1>1 DEF NameOps, When
  <2>2. CASE f = "name" /\ p.region # None /\ p.regions = <<>>
    <3>1. SetEntry(p) \in Entries /\ es = <<SetEntry(p)>>
      BY <2>2, NamedEntries DEF When
    <3>2. ~ Touches(SetEntry(p), r, f)
      BY <1>0, <1>1, <2>2, NamedEntries DEF Touches, Sets, Value, From, Deletes
    <3>3. QED
      BY <2>1, <3>1, <3>2, SameNothing
  <2>3. CASE ~(f = "name" /\ p.region # None /\ p.regions = <<>>)
    BY <2>1, <2>3, SameEmpty DEF When
  <2>4. QED
    BY <2>2, <2>3
<1>2. CASE p.name # None /\ p.regions = <<>> /\ p.region = None
  <2> DEFINE o == [op |-> "name", name |-> p.name]
  <2>1. o \in OtherStatements /\ o \in Statements
    BY <1>2, PayloadFields DEF OtherStatements, Statements, ApplyStatements
  <2>2. NameOps(p) = <<o>> /\ es = <<>>
    BY <1>2 DEF NameOps, When
  <2> HIDE DEF o
  <2>3. <<o>> \in Seq(OtherStatements) /\ <<o>> \in Seq(Statements)
    BY <2>1
  <2>4. QED
    BY <2>2, <2>3, SameOther
<1>3. CASE p.name # None /\ p.regions = <<>> /\ p.region # None
  <2> DEFINE e == [Entry(p.region) EXCEPT !.name = p.name, !.name_from = p.region_from]
  <2>1. e \in Entries
    BY <1>3, PayloadFields, EntryTyped
  <2>2. NameOps(p) = EntryOps(e) \o Op("refresh")
    BY <1>3 DEF NameOps, When
  <2>3. /\ e.region = p.region /\ e.name = p.name /\ e.year = None /\ e.name_from = p.region_from
        /\ e.release_from = None /\ e.delete_name = FALSE /\ e.delete_release = FALSE
    BY DEF Entry
  <2> HIDE DEF e
  <2>4. EntryOps(e) \in Seq(Statements) /\ Same(EntryOps(e), <<e>>, r, f)
    BY <2>1, EntryStatements, SameEntry
  <2>5. CASE f = "name"
    <3>1. SetEntry(p) \in Entries /\ es = <<SetEntry(p)>> /\ <<SetEntry(p)>> \in Seq(Entries)
      BY <1>3, <2>5, NamedEntries DEF When
    <3>2. /\ Touches(e, r, f) <=> Touches(SetEntry(p), r, f)
          /\ Sets(e, r, f) <=> Sets(SetEntry(p), r, f)
          /\ Value(e, f) = Value(SetEntry(p), f)
      BY <1>3, <2>3, <2>5, NamedEntries DEF Touches, Sets, Value, From, Deletes
    <3>3. Same(EntryOps(e), <<SetEntry(p)>>, r, f)
      BY <2>1, <2>4, <3>1, <3>2, SameAlike
    <3>4. QED
      BY <2>2, <2>4, <3>1, <3>3, Refreshed
  <2>6. CASE f # "name"
    <3>1. f = "year" /\ ~ Touches(e, r, f)
      BY <1>0, <2>3, <2>6 DEF Touches, Sets, Value, From, Deletes
    <3>2. Same(EntryOps(e), <<>>, r, f)
      BY <2>1, <2>4, <3>1, SameWithout
    <3>3. es = <<>> /\ <<>> \in Seq(Entries)
      BY <2>6 DEF When
    <3>4. QED
      BY <2>2, <2>4, <3>2, <3>3, Refreshed
  <2>7. QED
    BY <2>5, <2>6
<1>4. QED
  BY <1>1, <1>2, <1>3

LEMMA ReleaseSame ==
    ASSUME NEW p \in Payloads, NEW r \in Regions, NEW f \in {"name", "year"}
    PROVE  /\ ReleaseOps(p) \in Seq(Statements)
           /\ Same(ReleaseOps(p), When(f = "year" /\ p.region # None /\ p.regions = <<>>, <<SetEntry(p)>>), r, f)
<1> DEFINE es == When(f = "year" /\ p.region # None /\ p.regions = <<>>, <<SetEntry(p)>>)
<1>0. r # None
  BY GameTextAssumption DEF GameTextAssumption
<1>1. CASE p.year = None \/ p.regions # <<>>
  <2>1. ReleaseOps(p) = <<>>
    BY <1>1 DEF ReleaseOps, When
  <2>2. CASE f = "year" /\ p.region # None /\ p.regions = <<>>
    <3>1. SetEntry(p) \in Entries /\ es = <<SetEntry(p)>>
      BY <2>2, NamedEntries DEF When
    <3>2. ~ Touches(SetEntry(p), r, f)
      BY <1>0, <1>1, <2>2, NamedEntries DEF Touches, Sets, Value, From, Deletes
    <3>3. QED
      BY <2>1, <3>1, <3>2, SameNothing
  <2>3. CASE ~(f = "year" /\ p.region # None /\ p.regions = <<>>)
    BY <2>1, <2>3, SameEmpty DEF When
  <2>4. QED
    BY <2>2, <2>3
<1>2. CASE p.year # None /\ p.regions = <<>> /\ p.region = None
  <2> DEFINE o == [op |-> "year", year |-> p.year]
  <2>1. o \in OtherStatements /\ o \in Statements
    BY <1>2, PayloadFields DEF OtherStatements, Statements, ApplyStatements
  <2>2. ReleaseOps(p) = <<o>> /\ es = <<>>
    BY <1>2 DEF ReleaseOps, When
  <2> HIDE DEF o
  <2>3. <<o>> \in Seq(OtherStatements) /\ <<o>> \in Seq(Statements)
    BY <2>1
  <2>4. QED
    BY <2>2, <2>3, SameOther
<1>3. CASE p.year # None /\ p.regions = <<>> /\ p.region # None
  <2> DEFINE e == [Entry(p.region) EXCEPT !.year = p.year, !.release_from = p.region_from]
  <2>1. e \in Entries
    BY <1>3, PayloadFields, EntryTyped
  <2>2. ReleaseOps(p) = EntryOps(e) \o Op("refresh")
    BY <1>3 DEF ReleaseOps, When
  <2>3. /\ e.region = p.region /\ e.name = None /\ e.year = p.year /\ e.name_from = None
        /\ e.release_from = p.region_from /\ e.delete_name = FALSE /\ e.delete_release = FALSE
    BY DEF Entry
  <2> HIDE DEF e
  <2>4. EntryOps(e) \in Seq(Statements) /\ Same(EntryOps(e), <<e>>, r, f)
    BY <2>1, EntryStatements, SameEntry
  <2>5. CASE f = "year"
    <3>1. SetEntry(p) \in Entries /\ es = <<SetEntry(p)>> /\ <<SetEntry(p)>> \in Seq(Entries)
      BY <1>3, <2>5, NamedEntries DEF When
    <3>2. /\ Touches(e, r, f) <=> Touches(SetEntry(p), r, f)
          /\ Sets(e, r, f) <=> Sets(SetEntry(p), r, f)
          /\ Value(e, f) = Value(SetEntry(p), f)
      BY <1>3, <2>3, <2>5, NamedEntries DEF Touches, Sets, Value, From, Deletes
    <3>3. Same(EntryOps(e), <<SetEntry(p)>>, r, f)
      BY <2>1, <2>4, <3>1, <3>2, SameAlike
    <3>4. QED
      BY <2>2, <2>4, <3>1, <3>3, Refreshed
  <2>6. CASE f # "year"
    <3>1. f = "name" /\ ~ Touches(e, r, f)
      BY <1>0, <2>3, <2>6 DEF Touches, Sets, Value, From, Deletes
    <3>2. Same(EntryOps(e), <<>>, r, f)
      BY <2>1, <2>4, <3>1, SameWithout
    <3>3. es = <<>> /\ <<>> \in Seq(Entries)
      BY <2>6 DEF When
    <3>4. QED
      BY <2>2, <2>4, <3>2, <3>3, Refreshed
  <2>7. QED
    BY <2>5, <2>6
<1>4. QED
  BY <1>1, <1>2, <1>3

LEMMA ColumnRomStatements ==
    ASSUME NEW p \in Payloads
    PROVE  /\ ColumnOps(p) \in Seq(Statements) /\ ColumnOps(p) \in Seq(OtherStatements)
           /\ RomOps(p) \in Seq([op : {"rom"}, change : RomChange])
           /\ [op : {"rom"}, change : RomChange] \subseteq OtherStatements
           /\ RomOps(p) \in Seq(Statements) /\ RomOps(p) \in Seq(OtherStatements)
<1>1. ColumnOps(p) \in Seq(OtherStatements)
  <2>1. CASE p.column # None
    <3>1. [op |-> "column", column |-> p.column] \in OtherStatements
      BY <2>1, PayloadFields DEF OtherStatements, Statements, ApplyStatements
    <3>2. ColumnOps(p) = <<[op |-> "column", column |-> p.column]>>
      BY <2>1 DEF ColumnOps, When
    <3>3. QED
      BY <3>1, <3>2
  <2>2. CASE p.column = None
    BY <2>2 DEF ColumnOps, When
  <2>3. QED
    BY <2>1, <2>2
<1>2. RomOps(p) \in Seq([op : {"rom"}, change : RomChange])
  <2>1. p.roms \in Seq(RomChange) /\ Len(p.roms) \in Nat /\ DOMAIN p.roms = 1..Len(p.roms)
    BY PayloadFields
  <2>2. \A i \in DOMAIN p.roms : [op |-> "rom", change |-> p.roms[i]] \in [op : {"rom"}, change : RomChange]
    BY <2>1
  <2>3. QED
    BY <2>1, <2>2 DEF RomOps
<1>3. [op : {"rom"}, change : RomChange] \subseteq OtherStatements
  BY DEF OtherStatements, Statements, ApplyStatements
<1>4. OtherStatements \subseteq Statements
  BY DEF OtherStatements
<1>5. RomOps(p) \in Seq(OtherStatements)
  BY <1>2, <1>3, SubSeqType
<1>6. QED
  BY <1>1, <1>2, <1>3, <1>4, <1>5, SubSeqType

LEMMA ChangesTyped ==
    ASSUME NEW p \in Payloads
    PROVE  /\ Changes(p) \in Seq(Entries)
           /\ When(p.region # None, <<DeleteEntry(p)>>) \in Seq(Entries)
           /\ \A c : (c => p.region # None) => When(c, <<SetEntry(p)>>) \in Seq(Entries)
<1>1. p.region # None => <<DeleteEntry(p)>> \in Seq(Entries) /\ <<SetEntry(p)>> \in Seq(Entries)
  BY NamedEntries
<1>2. When(p.region # None, <<DeleteEntry(p)>>) \in Seq(Entries)
  BY <1>1 DEF When
<1>3. When(p.region # None /\ p.regions = <<>>, <<SetEntry(p)>>) \in Seq(Entries)
  BY <1>1 DEF When
<1>4. p.regions \in Seq(Entries)
  BY PayloadFields
<1>5. Changes(p) \in Seq(Entries)
  BY <1>2, <1>3, <1>4, Concat, ChangesOf
<1>6. QED
  BY <1>1, <1>2, <1>5 DEF When

\* What applies a payload does what the payload says.
LEMMA ApplySame ==
    ASSUME NEW p \in Payloads, NEW r \in Regions, NEW f \in {"name", "year"}
    PROVE  ApplyOps(p) \in Seq(Statements) /\ Same(ApplyOps(p), Changes(p), r, f)
<1> DEFINE named == p.region # None /\ p.regions = <<>>
           d == When(p.region # None, <<DeleteEntry(p)>>)
           n == When(f = "name" /\ p.region # None /\ p.regions = <<>>, <<SetEntry(p)>>)
           y == When(f = "year" /\ p.region # None /\ p.regions = <<>>, <<SetEntry(p)>>)
           s == When(p.region # None /\ p.regions = <<>>, <<SetEntry(p)>>)
           e1 == p.regions \o d
           e2 == e1 \o n
           e4 == e2 \o y
           a1 == EntriesOps(p) \o DeleteOps(p)
           a2 == a1 \o NameOps(p)
           a3 == a2 \o ColumnOps(p)
           a4 == a3 \o ReleaseOps(p)
<1>1. /\ p.regions \in Seq(Entries) /\ d \in Seq(Entries) /\ n \in Seq(Entries) /\ y \in Seq(Entries)
      /\ s \in Seq(Entries) /\ <<>> \in Seq(Entries)
  <2>1. p.region # None => <<SetEntry(p)>> \in Seq(Entries)
    BY NamedEntries
  <2>2. QED
    BY <2>1, ChangesTyped, PayloadFields DEF When
<1>2. Changes(p) = e1 \o s
  BY ChangesOf
<1>3. e4 = e1 \o s
  <2>1. e1 \in Seq(Entries)
    BY <1>1, Concat
  <2> HIDE DEF e1, s
  <2>2. CASE f = "name"
    <3>1. n = s /\ y = <<>>
      BY <2>2 DEF When, s
    <3> HIDE DEF n, y
    <3>2. QED
      BY <1>1, <2>1, <3>1
  <2>3. CASE f = "year"
    <3>1. n = <<>> /\ y = s
      BY <2>3 DEF When, s
    <3> HIDE DEF n, y
    <3>2. QED
      BY <1>1, <2>1, <3>1
  <2>4. QED
    BY <2>2, <2>3
<1>4. EntriesOps(p) \in Seq(Statements) /\ Same(EntriesOps(p), p.regions, r, f)
  BY EntriesSame
<1>5. DeleteOps(p) \in Seq(Statements) /\ Same(DeleteOps(p), d, r, f)
  BY DeleteSame
<1>6. NameOps(p) \in Seq(Statements) /\ Same(NameOps(p), n, r, f)
  BY NameSame
<1>7. ReleaseOps(p) \in Seq(Statements) /\ Same(ReleaseOps(p), y, r, f)
  BY ReleaseSame
<1>8. /\ ColumnOps(p) \in Seq(Statements) /\ Same(ColumnOps(p), <<>>, r, f)
      /\ RomOps(p) \in Seq(Statements) /\ Same(RomOps(p), <<>>, r, f)
  BY ColumnRomStatements, SameOther
<1> HIDE DEF d, n, y, s
<1>9. a1 \in Seq(Statements) /\ e1 \in Seq(Entries) /\ Same(a1, e1, r, f)
  BY <1>1, <1>4, <1>5, SameConcat, Concat
<1> HIDE DEF a1, e1
<1>10. a2 \in Seq(Statements) /\ e2 \in Seq(Entries) /\ Same(a2, e2, r, f)
  BY <1>1, <1>6, <1>9, SameConcat, Concat
<1> HIDE DEF a2, e2
<1>11. a3 \in Seq(Statements) /\ Same(a3, e2, r, f)
  <2>1. Same(a3, e2 \o <<>>, r, f) /\ a3 \in Seq(Statements)
    BY <1>1, <1>8, <1>10, SameConcat, Concat
  <2>2. e2 \o <<>> = e2
    BY <1>10
  <2>3. QED
    BY <2>1, <2>2
<1> HIDE DEF a3
<1>12. a4 \in Seq(Statements) /\ e4 \in Seq(Entries) /\ Same(a4, e4, r, f)
  BY <1>1, <1>7, <1>10, <1>11, SameConcat, Concat
<1> HIDE DEF a4, e4
<1>13. a4 \o RomOps(p) \in Seq(Statements) /\ Same(a4 \o RomOps(p), e4, r, f)
  <2>1. Same(a4 \o RomOps(p), e4 \o <<>>, r, f) /\ a4 \o RomOps(p) \in Seq(Statements)
    BY <1>1, <1>8, <1>12, SameConcat, Concat
  <2>2. e4 \o <<>> = e4
    BY <1>12
  <2>3. QED
    BY <2>1, <2>2
<1>14. ApplyOps(p) = a4 \o RomOps(p)
  BY DEF ApplyOps, a4, a3, a2, a1
<1>15. QED
  BY <1>2, <1>3, <1>13, <1>14

\* What the entries leave is what is expected.
LEMMA LeftExpected ==
    ASSUME NEW p \in Payloads, NEW b, NEW r, NEW f, NEW w,
           Leaves(Changes(p), EntryWrites(r, f), EntryWritten(r, f), RegionValue(b, r, f), w)
    PROVE  w = Expected(b, p, r, f)
<1> DEFINE es == Changes(p)
           about == {i \in DOMAIN es : Touches(es[i], r, f)}
           e == es[Max(about)]
<1>0. es \in Seq(Entries)
  BY ChangesTyped
<1>1. DOMAIN es = 1..Len(es) /\ Len(es) \in Nat /\ \A i \in 1..Len(es) : es[i] \in Entries
  <2> HIDE DEF es
  <2> QED BY <1>0
<1>2. Expected(b, p, r, f) =
        IF about = {} THEN RegionValue(b, r, f) ELSE IF Sets(e, r, f) THEN Value(e, f) ELSE None
  BY DEF Expected
<1> HIDE DEF es
<1>3. \A i \in 1..Len(es) : es[i] \in EntryWrites(r, f) <=> i \in about
  BY <1>1 DEF EntryWrites
<1>4. CASE w = RegionValue(b, r, f) /\ \A i \in 1..Len(es) : es[i] \notin EntryWrites(r, f)
  <2>1. about = {}
    BY <1>1, <1>3, <1>4
  <2>2. QED
    BY <1>2, <1>4, <2>1
<1>5. CASE \E i \in 1..Len(es) : /\ es[i] \in EntryWrites(r, f) /\ w = EntryWritten(r, f)[es[i]]
                                 /\ \A j \in 1..Len(es) : es[j] \in EntryWrites(r, f) => j <= i
  <2>1. PICK i \in 1..Len(es) : /\ es[i] \in EntryWrites(r, f) /\ w = EntryWritten(r, f)[es[i]]
                                /\ \A j \in 1..Len(es) : es[j] \in EntryWrites(r, f) => j <= i
    BY <1>5
  <2>2. about \subseteq 1..Len(es) /\ i \in about /\ \A j \in about : j <= i
    BY <1>1, <1>3, <2>1
  <2> HIDE DEF about
  <2>3. Max(about) = i
    <3>1. \A x \in about : (\A j \in about : x >= j) => x = i
      BY <1>1, <2>2
    <3>2. i \in about /\ \A j \in about : i >= j
      BY <1>1, <2>2
    <3>3. QED
      BY <3>1, <3>2 DEF Max
  <2>4. w = IF Sets(es[i], r, f) THEN Value(es[i], f) ELSE None
    BY <1>1, <2>1 DEF EntryWritten
  <2>5. QED
    BY <1>2, <2>2, <2>3, <2>4
<1>6. QED
  BY <1>4, <1>5 DEF Leaves, es

Kinds(K) == {o \in Statements : o.op \in K}

LEMMA KindsOf ==
    ASSUME NEW a \in Seq(Statements), NEW K, \A i \in 1..Len(a) : a[i].op \in K
    PROVE  a \in Seq(Kinds(K))
<1>1. \A i \in 1..Len(a) : a[i] \in Kinds(K)
  BY DEF Kinds
<1>2. QED
  BY <1>1

LEMMA OpKinds ==
    ASSUME NEW K, NEW o \in {"insert", "attach", "approve", "refresh"}, o \in K
    PROVE  Op(o) \in Seq(Kinds(K)) /\ Op(o) \in Seq(Statements)
<1>1. [op |-> o] \in Statements
  BY DEF Statements, ApplyStatements
<1>2. QED
  BY <1>1 DEF Op, Kinds

Regional == RegionOps \cup {"refresh"}

LEMMA EntryKinds ==
    ASSUME NEW a \in Seq(RegionStatements), NEW K, Regional \subseteq K
    PROVE  a \in Seq(Kinds(K)) /\ a \o Op("refresh") \in Seq(Kinds(K))
<1>1. RegionStatements \subseteq Kinds(K)
  BY StatementOps DEF Kinds, Statements, ApplyStatements, Regional
<1>2. a \in Seq(Kinds(K))
  BY <1>1, SubSeqType
<1>3. QED
  BY <1>2, OpKinds, Concat DEF Regional

\* The kinds of statements in each part of a plan.
LEMMA PartKinds ==
    ASSUME NEW p \in Payloads, NEW K, Regional \subseteq K
    PROVE  /\ EntriesOps(p) \in Seq(Kinds(K)) /\ DeleteOps(p) \in Seq(Kinds(K))
           /\ "name" \in K => NameOps(p) \in Seq(Kinds(K))
           /\ "year" \in K => ReleaseOps(p) \in Seq(Kinds(K))
           /\ "column" \in K => ColumnOps(p) \in Seq(Kinds(K))
           /\ "rom" \in K => RomOps(p) \in Seq(Kinds(K))
           /\ p.kind = "new_game" /\ {"insert", "attach"} \subseteq K => CreateOps(p) \in Seq(Kinds(K))
<1>1. EntriesOps(p) \in Seq(Kinds(K))
  <2> DEFINE each == [i \in DOMAIN p.regions |-> EntryOps(p.regions[i])]
  <2>1. each \in Seq(Seq(RegionStatements))
    <3>1. p.regions \in Seq(Entries)
      BY PayloadFields
    <3>2. \A i \in DOMAIN p.regions : EntryOps(p.regions[i]) \in Seq(RegionStatements)
      BY <3>1, EntryOpsType
    <3>3. DOMAIN p.regions = 1..Len(p.regions) /\ Len(p.regions) \in Nat
      BY <3>1
    <3>4. QED
      BY <3>2, <3>3
  <2> HIDE DEF each
  <2>2. FlattenSeq(each) \in Seq(RegionStatements)
    BY <2>1, FlattenSeqType
  <2>3. EntriesOps(p) = When(p.regions # <<>>, FlattenSeq(each) \o Op("refresh"))
    BY DEF EntriesOps, each
  <2>4. QED
    BY <2>2, <2>3, EntryKinds DEF When
<1>2. DeleteOps(p) \in Seq(Kinds(K))
  <2>1. CASE p.delete # None /\ p.region # None
    <3>1. DeleteOps(p) = EntryOps(DeleteEntry(p)) \o Op("refresh")
      BY <2>1 DEF DeleteOps, When, DeleteEntry
    <3>2. EntryOps(DeleteEntry(p)) \in Seq(RegionStatements)
      BY <2>1, NamedEntries, EntryOpsType
    <3>3. QED
      BY <3>1, <3>2, EntryKinds
  <2>2. CASE ~(p.delete # None /\ p.region # None)
    BY <2>2 DEF DeleteOps, When
  <2>3. QED
    BY <2>1, <2>2
<1>3. ASSUME "name" \in K PROVE NameOps(p) \in Seq(Kinds(K))
  <2>1. CASE p.name # None /\ p.regions = <<>> /\ p.region # None
    <3> DEFINE e == [Entry(p.region) EXCEPT !.name = p.name, !.name_from = p.region_from]
    <3>1. e \in Entries
      BY <2>1, PayloadFields, EntryTyped
    <3>2. NameOps(p) = EntryOps(e) \o Op("refresh")
      BY <2>1 DEF NameOps, When
    <3> HIDE DEF e
    <3>3. QED
      BY <3>1, <3>2, EntryOpsType, EntryKinds
  <2>2. CASE p.name # None /\ p.regions = <<>> /\ p.region = None
    <3>1. [op |-> "name", name |-> p.name] \in Kinds(K)
      BY <1>3, <2>2, PayloadFields DEF Kinds, Statements, ApplyStatements
    <3>2. NameOps(p) = <<[op |-> "name", name |-> p.name]>>
      BY <2>2 DEF NameOps, When
    <3>3. QED
      BY <3>1, <3>2
  <2>3. CASE ~(p.name # None /\ p.regions = <<>>)
    BY <2>3 DEF NameOps, When
  <2>4. QED
    BY <2>1, <2>2, <2>3
<1>4. ASSUME "year" \in K PROVE ReleaseOps(p) \in Seq(Kinds(K))
  <2>1. CASE p.year # None /\ p.regions = <<>> /\ p.region # None
    <3> DEFINE e == [Entry(p.region) EXCEPT !.year = p.year, !.release_from = p.region_from]
    <3>1. e \in Entries
      BY <2>1, PayloadFields, EntryTyped
    <3>2. ReleaseOps(p) = EntryOps(e) \o Op("refresh")
      BY <2>1 DEF ReleaseOps, When
    <3> HIDE DEF e
    <3>3. QED
      BY <3>1, <3>2, EntryOpsType, EntryKinds
  <2>2. CASE p.year # None /\ p.regions = <<>> /\ p.region = None
    <3>1. [op |-> "year", year |-> p.year] \in Kinds(K)
      BY <1>4, <2>2, PayloadFields DEF Kinds, Statements, ApplyStatements
    <3>2. ReleaseOps(p) = <<[op |-> "year", year |-> p.year]>>
      BY <2>2 DEF ReleaseOps, When
    <3>3. QED
      BY <3>1, <3>2
  <2>3. CASE ~(p.year # None /\ p.regions = <<>>)
    BY <2>3 DEF ReleaseOps, When
  <2>4. QED
    BY <2>1, <2>2, <2>3
<1>5. ASSUME "column" \in K PROVE ColumnOps(p) \in Seq(Kinds(K))
  <2>1. CASE p.column # None
    <3>1. [op |-> "column", column |-> p.column] \in Kinds(K)
      BY <1>5, <2>1, PayloadFields DEF Kinds, Statements, ApplyStatements
    <3>2. ColumnOps(p) = <<[op |-> "column", column |-> p.column]>>
      BY <2>1 DEF ColumnOps, When
    <3>3. QED
      BY <3>1, <3>2
  <2>2. CASE p.column = None
    BY <2>2 DEF ColumnOps, When
  <2>3. QED
    BY <2>1, <2>2
<1>6. ASSUME "rom" \in K PROVE RomOps(p) \in Seq(Kinds(K))
  <2>1. [op : {"rom"}, change : RomChange] \subseteq Kinds(K)
    BY <1>6 DEF Kinds, Statements, ApplyStatements
  <2>2. QED
    BY <2>1, ColumnRomStatements, SubSeqType
<1>7. ASSUME p.kind = "new_game", {"insert", "attach"} \subseteq K PROVE CreateOps(p) \in Seq(Kinds(K))
  <2>1. CreateOps(p) \in Seq(Statements) /\ \A i \in 1..Len(CreateOps(p)) : CreateOps(p)[i].op \in K
    BY <1>7, CreatePlan DEF Regional
  <2>2. QED
    BY <2>1, KindsOf
<1>8. QED
  BY <1>1, <1>2, <1>3, <1>4, <1>5, <1>6, <1>7

-----------------------------------------------------------------------------
\* Other columns, and the name when it is given without a region.
ColumnWrites == {o \in Statements : o.op = "column"}
ColumnWritten == [o \in Statements |-> o.column]
NameWrites == {o \in Statements : o.op = "name"}
NameWritten == [o \in Statements |-> o.name]

LEMMA PlanParts ==
    ASSUME NEW p \in Payloads, NEW S, NEW T, NEW V, NEW v, NEW u, NEW w,
           When(p.kind = "new_game", CreateOps(p)) \in Seq(S),
           EntriesOps(p) \in Seq(S), DeleteOps(p) \in Seq(S), NameOps(p) \in Seq(S),
           ColumnOps(p) \in Seq(S), ReleaseOps(p) \in Seq(S), RomOps(p) \in Seq(S), Op("approve") \in Seq(S),
           Leaves(When(p.kind = "new_game", CreateOps(p)), T, V, v, v),
           Leaves(EntriesOps(p), T, V, v, v), Leaves(DeleteOps(p), T, V, v, v),
           Leaves(NameOps(p), T, V, v, u), Leaves(ColumnOps(p), T, V, u, w),
           Leaves(ReleaseOps(p), T, V, w, w), Leaves(RomOps(p), T, V, w, w),
           Leaves(Op("approve"), T, V, w, w)
    PROVE  Plan(p) \in Seq(S) /\ Leaves(Plan(p), T, V, v, w)
<1> DEFINE c == When(p.kind = "new_game", CreateOps(p))
           a1 == EntriesOps(p) \o DeleteOps(p)
           a2 == a1 \o NameOps(p)
           a3 == a2 \o ColumnOps(p)
           a4 == a3 \o ReleaseOps(p)
           a5 == a4 \o RomOps(p)
           b == c \o a5
<1>1. a1 \in Seq(S) /\ Leaves(a1, T, V, v, v)
  BY LeavesConcat, Concat
<1> HIDE DEF a1
<1>2. a2 \in Seq(S) /\ Leaves(a2, T, V, v, u)
  BY <1>1, LeavesConcat, Concat
<1> HIDE DEF a2
<1>3. a3 \in Seq(S) /\ Leaves(a3, T, V, v, w)
  BY <1>2, LeavesConcat, Concat
<1> HIDE DEF a3
<1>4. a4 \in Seq(S) /\ Leaves(a4, T, V, v, w)
  BY <1>3, LeavesConcat, Concat
<1> HIDE DEF a4
<1>5. a5 \in Seq(S) /\ Leaves(a5, T, V, v, w)
  BY <1>4, LeavesConcat, Concat
<1> HIDE DEF a5
<1>6. b \in Seq(S) /\ Leaves(b, T, V, v, w)
  BY <1>5, LeavesConcat, Concat
<1>7. Plan(p) = b \o Op("approve")
  BY DEF Plan, ApplyOps, a5, a4, a3, a2, a1
<1> HIDE DEF b
<1>8. QED
  BY <1>6, <1>7, LeavesConcat, Concat

LEMMA KindsLeave ==
    ASSUME NEW K, NEW K2, NEW k, k \notin K2, NEW a \in Seq(Kinds(K2)), NEW T,
           T = {o \in Statements : o.op = k}, NEW V
    PROVE  \A v : Leaves(a, T, V, v, v)
<1>1. Kinds(K2) \cap T = {}
  BY DEF Kinds
<1>2. QED
  BY <1>1, LeavesNone

LEMMA ColumnPlan ==
    ASSUME NEW p \in Payloads, NEW v
    PROVE  Leaves(Plan(p), ColumnWrites, ColumnWritten, v, Or(p.column, v))
<1> DEFINE K == Regional \cup {"name", "year", "rom", "insert", "attach", "approve"}
           c == When(p.kind = "new_game", CreateOps(p))
           S == Kinds(K)
           w == Or(p.column, v)
<1>1. "column" \notin K
  BY DEF Regional, RegionOps
<1>2. /\ EntriesOps(p) \in Seq(S) /\ DeleteOps(p) \in Seq(S) /\ NameOps(p) \in Seq(S)
      /\ ReleaseOps(p) \in Seq(S) /\ RomOps(p) \in Seq(S) /\ Op("approve") \in Seq(S)
  BY PartKinds, OpKinds
<1>3. c \in Seq(S)
  BY PartKinds DEF When
<1> HIDE DEF K, c, S
<1>4. S \subseteq Statements
  BY DEF S, Kinds
<1>5. /\ c \in Seq(Statements) /\ EntriesOps(p) \in Seq(Statements) /\ DeleteOps(p) \in Seq(Statements)
      /\ NameOps(p) \in Seq(Statements) /\ ReleaseOps(p) \in Seq(Statements)
      /\ RomOps(p) \in Seq(Statements) /\ Op("approve") \in Seq(Statements)
  BY <1>2, <1>3, <1>4, SubSeqType
<1>6. \A a \in Seq(S) : \A x : Leaves(a, ColumnWrites, ColumnWritten, x, x)
  BY <1>1, KindsLeave DEF S, ColumnWrites
<1>7. ColumnOps(p) \in Seq(Statements) /\ Leaves(ColumnOps(p), ColumnWrites, ColumnWritten, v, w)
  <2>1. CASE p.column = None
    BY <2>1 DEF ColumnOps, When, Leaves, Or
  <2>2. CASE p.column # None
    <3> DEFINE o == [op |-> "column", column |-> p.column]
    <3>1. o \in Statements /\ ColumnOps(p) = <<o>>
      BY <2>2, PayloadFields DEF Statements, ApplyStatements, ColumnOps, When
    <3>2. o \in ColumnWrites /\ ColumnWritten[o] = w
      BY <2>2, <3>1 DEF ColumnWrites, ColumnWritten, Or
    <3> HIDE DEF o, w
    <3>3. Leaves(<<o>>, ColumnWrites, ColumnWritten, v, w)
      BY <3>2, LeavesOne
    <3>4. QED
      BY <3>1, <3>3
  <2>3. QED
    BY <2>1, <2>2
<1> HIDE DEF w
<1>8. Leaves(Plan(p), ColumnWrites, ColumnWritten, v, w)
  BY <1>2, <1>3, <1>5, <1>6, <1>7, PlanParts DEF c
<1>9. QED
  BY <1>8 DEF w

\* Without a region nothing is refreshed and the name is the last one given.
LEMMA DirectPlan ==
    ASSUME NEW p \in Payloads, Direct(p), NEW v
    PROVE  /\ ~ Has(Plan(p), "refresh")
           /\ Leaves(Plan(p), NameWrites, NameWritten, v, Or(p.name, v))
<1> DEFINE K == {"column", "year", "rom", "insert", "attach", "approve"}
           K2 == K \cup {"name"}
           c == When(p.kind = "new_game", CreateOps(p))
           w == Or(p.name, v)
<1>0. p.regions = <<>> /\ p.region = None
  BY DEF Direct
<1>1. EntriesOps(p) = <<>> /\ DeleteOps(p) = <<>>
  BY <1>0 DEF EntriesOps, DeleteOps, When
<1>2. c \in Seq(Kinds(K))
  <2>1. CASE p.kind = "new_game"
    <3>1. CreateOps(p) = Op("insert") \o <<>> \o Op("attach")
      BY <1>0 DEF CreateOps, When
    <3>2. Op("insert") \in Seq(Kinds(K)) /\ Op("attach") \in Seq(Kinds(K)) /\ <<>> \in Seq(Kinds(K))
      BY OpKinds
    <3>3. QED
      BY <2>1, <3>1, <3>2, Concat DEF When
  <2>2. CASE p.kind # "new_game"
    BY <2>2 DEF When
  <2>3. QED
    BY <2>1, <2>2
<1>3. ReleaseOps(p) \in Seq(Kinds(K))
  <2>1. CASE p.year = None
    BY <2>1 DEF ReleaseOps, When
  <2>2. CASE p.year # None
    <3>1. [op |-> "year", year |-> p.year] \in Kinds(K)
      BY <2>2, PayloadFields DEF Kinds, Statements, ApplyStatements
    <3>2. ReleaseOps(p) = <<[op |-> "year", year |-> p.year]>>
      BY <1>0, <2>2 DEF ReleaseOps, When
    <3>3. QED
      BY <3>1, <3>2
  <2>3. QED
    BY <2>1, <2>2
<1>4. ColumnOps(p) \in Seq(Kinds(K))
  <2>1. CASE p.column = None
    BY <2>1 DEF ColumnOps, When
  <2>2. CASE p.column # None
    <3>1. [op |-> "column", column |-> p.column] \in Kinds(K)
      BY <2>2, PayloadFields DEF Kinds, Statements, ApplyStatements
    <3>2. ColumnOps(p) = <<[op |-> "column", column |-> p.column]>>
      BY <2>2 DEF ColumnOps, When
    <3>3. QED
      BY <3>1, <3>2
  <2>3. QED
    BY <2>1, <2>2
<1>5. RomOps(p) \in Seq(Kinds(K))
  <2>1. [op : {"rom"}, change : RomChange] \subseteq Kinds(K)
    BY DEF Kinds, Statements, ApplyStatements
  <2> HIDE DEF K
  <2>2. QED
    BY <2>1, ColumnRomStatements, SubSeqType
<1>6. Op("approve") \in Seq(Kinds(K)) /\ "name" \notin K
  BY OpKinds
<1>7. NameOps(p) \in Seq(Kinds(K2)) /\ Leaves(NameOps(p), NameWrites, NameWritten, v, w)
  <2>1. CASE p.name = None
    BY <2>1 DEF NameOps, When, Leaves, Or
  <2>2. CASE p.name # None
    <3> DEFINE o == [op |-> "name", name |-> p.name]
    <3>1. o \in Statements /\ NameOps(p) = <<o>>
      BY <1>0, <2>2, PayloadFields DEF Statements, ApplyStatements, NameOps, When
    <3>2. o \in NameWrites /\ NameWritten[o] = w /\ o \in Kinds(K2)
      BY <2>2, <3>1 DEF NameWrites, NameWritten, Or, Kinds
    <3> HIDE DEF o, w, K2
    <3>3. Leaves(<<o>>, NameWrites, NameWritten, v, w)
      BY <3>2, LeavesOne
    <3>4. QED
      BY <3>1, <3>2, <3>3
  <2>3. QED
    BY <2>1, <2>2
<1>8. Kinds(K) \subseteq Kinds(K2) /\ "refresh" \notin K2
  BY DEF Kinds
<1> HIDE DEF K, K2, c, w
<1>9. \A a \in Seq(Kinds(K)) : a \in Seq(Kinds(K2)) /\ \A x : Leaves(a, NameWrites, NameWritten, x, x)
  BY <1>6, <1>8, KindsLeave, SubSeqType DEF NameWrites
<1>10. <<>> \in Seq(Kinds(K))
  OBVIOUS
<1>11. Plan(p) \in Seq(Kinds(K2)) /\ Leaves(Plan(p), NameWrites, NameWritten, v, w)
  BY <1>1, <1>2, <1>3, <1>4, <1>5, <1>6, <1>7, <1>9, <1>10, PlanParts DEF c
<1>12. ~ Has(Plan(p), "refresh")
  <2> SUFFICES ASSUME NEW i \in 1..Len(Plan(p)) PROVE Plan(p)[i].op # "refresh"
    BY DEF Has
  <2>1. Plan(p)[i] \in Kinds(K2)
    BY <1>11
  <2>2. QED
    BY <1>8, <2>1 DEF Kinds
<1>13. QED
  BY <1>11, <1>12 DEF w

\* A new game is made with values its contribution sets again.
LEMMA CreateWrites ==
    ASSUME NEW p \in Payloads, p.kind = "new_game", NEW r \in Regions, NEW f \in {"name", "year"},
           NEW k \in 1..Len(CreateOps(p)), CreateOps(p)[k] \in RegionWrites(r, f)
    PROVE  \E j \in 1..Len(Changes(p)) : Changes(p)[j] \in EntryWrites(r, f)
<1> DEFINE rows == [i \in DOMAIN p.regions |-> [op |-> "upsert", entry |-> p.regions[i]]]
           first == [Entry(p.region) EXCEPT !.name = p.name, !.year = p.year]
           row == [op |-> "upsert", entry |-> first]
           q == IF p.regions # <<>> THEN rows \o Op("refresh") ELSE When(p.region # None, <<row>>)
           written(o) == o.op = "upsert" /\ Sets(o.entry, r, f)
           d == When(p.region # None, <<DeleteEntry(p)>>)
           s == When(p.region # None /\ p.regions = <<>>, <<SetEntry(p)>>)
<1>0. /\ p.regions \in Seq(Entries) /\ DOMAIN p.regions = 1..Len(p.regions) /\ Len(p.regions) \in Nat
      /\ d \in Seq(Entries) /\ s \in Seq(Entries)
  <2>1. p.regions \in Seq(Entries)
    BY PayloadFields
  <2>2. p.region # None => <<SetEntry(p)>> \in Seq(Entries)
    BY NamedEntries
  <2>3. d \in Seq(Entries)
    BY ChangesTyped
  <2>4. s \in Seq(Entries)
    BY <2>2 DEF When
  <2>5. QED
    BY <2>1, <2>3, <2>4
<1>1. rows \in Seq(Statements) /\ Len(rows) = Len(p.regions)
  <2>1. \A i \in DOMAIN p.regions : [op |-> "upsert", entry |-> p.regions[i]] \in Statements
    BY <1>0 DEF Statements, ApplyStatements, RegionStatements
  <2>2. QED
    BY <1>0, <2>1
<1>2. p.region # None => first \in Entries /\ <<row>> \in Seq(Statements)
  <2> SUFFICES ASSUME p.region # None PROVE first \in Entries /\ <<row>> \in Seq(Statements)
    OBVIOUS
  <2>1. first \in Entries
    BY PayloadFields, EntryTyped
  <2> HIDE DEF first
  <2>2. row \in Statements
    BY <2>1 DEF Statements, ApplyStatements, RegionStatements
  <2>3. QED
    BY <2>1, <2>2
<1>3. Op("insert") \in Seq(Statements) /\ Op("refresh") \in Seq(Statements) /\ Op("attach") \in Seq(Statements)
  BY DEF Op, Statements, ApplyStatements
<1>4. q \in Seq(Statements)
  <2> HIDE DEF rows, row
  <2>1. CASE p.regions # <<>>
    BY <1>1, <1>3, <2>1, Concat
  <2>2. CASE p.regions = <<>>
    BY <1>2, <2>2 DEF When
  <2>3. QED
    BY <2>1, <2>2
<1>5. CreateOps(p) = Op("insert") \o q \o Op("attach")
  BY DEF CreateOps
<1>6. \E i \in 1..Len(q) : q[i] = CreateOps(p)[k]
  <2> DEFINE h == Op("insert") \o q
             o == CreateOps(p)[k]
  <2>1. Joined(Op("insert"), q, Statements) /\ h \in Seq(Statements)
    <3> HIDE DEF q
    <3>1. Joined(Op("insert"), q, Statements)
      BY <1>3, <1>4, ConcatJoined
    <3>2. QED
      BY <3>1 DEF Joined
  <2>2. Len(Op("insert")) = 1 /\ Op("insert")[1].op = "insert" /\ Len(Op("attach")) = 1 /\ Op("attach")[1].op = "attach"
    BY DEF Op
  <2>3. o.op \in {"upsert", "clear"}
    BY DEF RegionWrites
  <2> HIDE DEF h, q
  <2>4. Joined(h, Op("attach"), Statements) /\ CreateOps(p) = h \o Op("attach")
    BY <1>3, <1>5, <2>1, ConcatJoined DEF h
  <2>5. \E i \in 1..Len(h) : h[i] = o
    <3>1. k \in 1..Len(h) \/ (k - Len(h) \in 1..Len(Op("attach")) /\ k = Len(h) + (k - Len(h)))
      BY <2>4 DEF Joined
    <3>2. CASE k \in 1..Len(h)
      BY <2>4, <3>2 DEF Joined
    <3>3. CASE k - Len(h) \in 1..Len(Op("attach")) /\ k = Len(h) + (k - Len(h))
      <4>1. o = Op("attach")[k - Len(h)] /\ k - Len(h) = 1
        BY <2>2, <2>4, <3>3 DEF Joined
      <4>2. QED
        BY <2>2, <2>3, <4>1
    <3>4. QED
      BY <3>1, <3>2, <3>3
  <2>6. PICK i \in 1..Len(h) : h[i] = o
    BY <2>5
  <2>7. i \in 1..Len(Op("insert")) \/ (i - 1 \in 1..Len(q) /\ i = 1 + (i - 1))
    BY <2>1, <2>2, <2>6 DEF Joined, h
  <2>8. CASE i \in 1..Len(Op("insert"))
    <3>1. i = 1
      <4>1. i \in 1..1
        BY <2>2, <2>8, Zenon
      <4>2. QED
        BY <4>1
    <3>2. h[i] = Op("insert")[i]
      BY <2>1, <2>8 DEF Joined, h
    <3>3. QED
      BY <2>2, <2>3, <2>6, <3>1, <3>2
  <2>9. CASE i - 1 \in 1..Len(q) /\ i = 1 + (i - 1)
    <3>1. h[1 + (i - 1)] = q[i - 1]
      BY <2>1, <2>2, <2>9 DEF Joined, h
    <3>2. QED
      BY <2>6, <2>9, <3>1
  <2>10. QED
    BY <2>7, <2>8, <2>9
<1>7. PICK i \in 1..Len(q) : q[i] \in RegionWrites(r, f)
  BY <1>6
<1>8. CASE p.regions # <<>>
  <2>1. q = rows \o Op("refresh")
    BY <1>8
  <2>2. Op("refresh")[1].op = "refresh" /\ Len(Op("refresh")) = 1
    BY DEF Op
  <2>3. \A j \in 1..Len(p.regions) : rows[j] = [op |-> "upsert", entry |-> p.regions[j]]
    BY <1>0
  <2> HIDE DEF rows, q
  <2>4. Joined(rows, Op("refresh"), Statements)
    BY <1>1, <1>3, ConcatJoined
  <2>5. i \in 1..Len(p.regions) /\ q[i] = rows[i]
    <3>1. i \in 1..Len(rows) \/ (i - Len(rows) \in 1..Len(Op("refresh")) /\ i = Len(rows) + (i - Len(rows)))
      BY <2>1, <2>4 DEF Joined
    <3>2. CASE i \in 1..Len(rows)
      BY <1>1, <2>1, <2>4, <3>2 DEF Joined
    <3>3. CASE i - Len(rows) \in 1..Len(Op("refresh")) /\ i = Len(rows) + (i - Len(rows))
      <4>1. q[i] = Op("refresh")[i - Len(rows)] /\ i - Len(rows) = 1
        BY <2>1, <2>2, <2>4, <3>3 DEF Joined
      <4>2. QED
        BY <1>7, <2>2, <4>1 DEF RegionWrites
    <3>4. QED
      BY <3>1, <3>2, <3>3
  <2>6. Sets(p.regions[i], r, f) /\ p.regions[i] \in Entries
    <3>1. q[i] = [op |-> "upsert", entry |-> p.regions[i]]
      BY <2>3, <2>5
    <3>2. QED
      BY <1>0, <1>7, <2>5, <3>1 DEF RegionWrites
  <2>7. p.regions[i] \in EntryWrites(r, f)
    BY <2>6 DEF EntryWrites, Touches
  <2>8. i \in 1..Len(Changes(p)) /\ Changes(p)[i] = p.regions[i]
    <3> HIDE DEF d, s
    <3>1. Joined(p.regions, d, Entries) /\ p.regions \o d \in Seq(Entries)
      <4>1. Joined(p.regions, d, Entries)
        BY <1>0, ConcatJoined
      <4>2. QED
        BY <4>1 DEF Joined
    <3>2. Joined(p.regions \o d, s, Entries)
      BY <1>0, <3>1, ConcatJoined
    <3>3. Changes(p) = p.regions \o d \o s
      BY ChangesOf DEF d, s
    <3>4. i \in 1..Len(p.regions \o d) /\ (p.regions \o d)[i] = p.regions[i]
      BY <2>5, <3>1 DEF Joined
    <3>5. QED
      BY <3>2, <3>3, <3>4 DEF Joined
  <2>9. QED
    BY <2>7, <2>8
<1>9. CASE p.regions = <<>>
  <2>1. p.region # None /\ i = 1 /\ q = <<row>>
    BY <1>7, <1>9 DEF When
  <2>2. Sets(first, r, f)
    <3> HIDE DEF first
    <3>1. q[i] = row
      <4> HIDE DEF q, row
      <4> QED BY <2>1
    <3>2. row \in RegionWrites(r, f)
      BY <1>7, <3>1
    <3>3. row.op = "upsert" /\ row.entry = first
      OBVIOUS
    <3>4. QED
      BY <3>2, <3>3 DEF RegionWrites
  <2>3. first.region = p.region /\ first.name = p.name /\ first.year = p.year
    BY DEF Entry
  <2>4. SetEntry(p) \in EntryWrites(r, f)
    <3> HIDE DEF first
    <3> QED BY <2>1, <2>2, <2>3, NamedEntries DEF EntryWrites, Touches, Sets, Value
  <2>5. Len(s) = 1 /\ s[1] = SetEntry(p)
    BY <1>9, <2>1 DEF When
  <2>6. \E j \in 1..Len(Changes(p)) : Changes(p)[j] = SetEntry(p)
    <3> HIDE DEF d, s
    <3>1. p.regions \o d \in Seq(Entries)
      BY <1>0, Concat
    <3>2. Joined(p.regions \o d, s, Entries)
      BY <1>0, <3>1, ConcatJoined
    <3>3. Changes(p) = p.regions \o d \o s
      BY ChangesOf DEF d, s
    <3>4. 1 \in 1..Len(s)
      BY <2>5
    <3>5. /\ Len(p.regions \o d) + 1 \in 1..Len(p.regions \o d \o s)
          /\ (p.regions \o d \o s)[Len(p.regions \o d) + 1] = s[1]
      BY <3>2, <3>4 DEF Joined
    <3>6. QED
      BY <2>5, <3>3, <3>5
  <2>7. QED
    BY <2>4, <2>6
<1>10. QED
  BY <1>8, <1>9

-----------------------------------------------------------------------------
\* What is left of an approval leads from the text t to what p asks of b.
Owed(todo, t, b, p) ==
    /\ \A r \in Regions, f \in {"name", "year"} :
          Leaves(todo, RegionWrites(r, f), RegionWritten(f), RegionValue(t, r, f), Expected(b, p, r, f))
    /\ Leaves(todo, ColumnWrites, ColumnWritten, t.column, Or(p.column, b.column))
    /\ Direct(p) => /\ Leaves(todo, NameWrites, NameWritten, t.name, Or(p.name, b.name))
                    /\ ~ Has(todo, "refresh") /\ ~ Has(todo, "save")

\* The text of a new game: none in the regions, the rest as it is asked for.
Starts(b, p) ==
    p.kind = "new_game" =>
       /\ \A r \in Regions, f \in {"name", "year"} : RegionValue(b, r, f) = None
       /\ b.column = p.column /\ b.name = p.name

LEMMA OwedPlan ==
    ASSUME NEW p \in Payloads, NEW b, Starts(b, p)
    PROVE  Owed(Plan(p), b, b, p)
<1> DEFINE a == ApplyOps(p) \o Op("approve")
           c == CreateOps(p)
<1>1. Op("approve") \in Seq(OtherStatements) /\ Op("approve") \in Seq(Statements)
  BY DEF Op, OtherStatements, Statements
<1>2. ASSUME NEW r \in Regions, NEW f \in {"name", "year"}
      PROVE  Leaves(Plan(p), RegionWrites(r, f), RegionWritten(f), RegionValue(b, r, f), Expected(b, p, r, f))
  <2> DEFINE T == RegionWrites(r, f)
             V == RegionWritten(f)
             v == RegionValue(b, r, f)
  <2>1. ApplyOps(p) \in Seq(Statements) /\ Same(ApplyOps(p), Changes(p), r, f)
    BY ApplySame
  <2>2. Same(a, Changes(p), r, f)
    <3>1. Same(Op("approve"), <<>>, r, f) /\ <<>> \in Seq(Entries) /\ Changes(p) \in Seq(Entries)
      <4>1. Same(Op("approve"), <<>>, r, f)
        BY <1>1, SameOther
      <4>2. Changes(p) \in Seq(Entries)
        BY ChangesTyped
      <4>3. <<>> \in Seq(Entries)
        OBVIOUS
      <4>4. QED
        BY <4>1, <4>2, <4>3
    <3>2. Same(a, Changes(p) \o <<>>, r, f)
      BY <1>1, <2>1, <3>1, SameConcat
    <3>3. Changes(p) \o <<>> = Changes(p)
      BY <3>1
    <3>4. QED
      BY <3>2, <3>3
  <2>3. a \in Seq(Statements)
    BY <1>1, <2>1, Concat
  <2>4. CASE p.kind # "new_game"
    <3>1. PICK w : Leaves(a, T, V, v, w) /\ Leaves(Changes(p), EntryWrites(r, f), EntryWritten(r, f), v, w)
      BY <2>2 DEF Same
    <3>2. w = Expected(b, p, r, f)
      BY <3>1, LeftExpected
    <3>3. Plan(p) = a
      <4>1. Plan(p) = <<>> \o ApplyOps(p) \o Op("approve")
        BY <2>4 DEF Plan, When
      <4>2. <<>> \o ApplyOps(p) = ApplyOps(p)
        BY <2>1
      <4>3. QED
        BY <4>1, <4>2
    <3>4. QED
      BY <3>1, <3>2, <3>3
  <2>5. CASE p.kind = "new_game"
    <3>1. c \in Seq(Statements)
      BY <2>5, CreatePlan
    <3>2. PICK u : Leaves(c, T, V, v, u)
      BY <3>1, LeavesSome
    <3>3. PICK w : Leaves(a, T, V, u, w) /\ Leaves(Changes(p), EntryWrites(r, f), EntryWritten(r, f), u, w)
      BY <2>2 DEF Same
    <3>4. Leaves(Changes(p), EntryWrites(r, f), EntryWritten(r, f), v, w)
      <4>1. CASE \E j \in 1..Len(Changes(p)) : Changes(p)[j] \in EntryWrites(r, f)
        BY <3>3, <4>1 DEF Leaves
      <4>2. CASE ~ \E j \in 1..Len(Changes(p)) : Changes(p)[j] \in EntryWrites(r, f)
        <5>1. \A k \in 1..Len(c) : c[k] \notin T
          BY <2>5, <4>2, CreateWrites
        <5>2. u = v
          BY <3>2, <5>1 DEF Leaves
        <5>3. QED
          BY <3>3, <5>2
      <4>3. QED
        BY <4>1, <4>2
    <3>5. w = Expected(b, p, r, f)
      BY <3>4, LeftExpected
    <3>6. Plan(p) = c \o a
      <4>1. Plan(p) = c \o ApplyOps(p) \o Op("approve")
        BY <2>5 DEF Plan, When
      <4>2. QED
        BY <1>1, <2>1, <3>1, <4>1
    <3> HIDE DEF a, c, T, V, v
    <3>7. Leaves(Plan(p), T, V, v, w)
      BY <2>3, <3>1, <3>2, <3>3, <3>6, LeavesConcat
    <3>8. QED
      BY <3>5, <3>7 DEF T, V, v
  <2>6. QED
    BY <2>4, <2>5
<1>3. Leaves(Plan(p), ColumnWrites, ColumnWritten, b.column, Or(p.column, b.column))
  BY ColumnPlan
<1>4. ASSUME Direct(p)
      PROVE  /\ Leaves(Plan(p), NameWrites, NameWritten, b.name, Or(p.name, b.name))
             /\ ~ Has(Plan(p), "refresh") /\ ~ Has(Plan(p), "save")
  BY <1>4, DirectPlan, PlanFits
<1>5. QED
  BY <1>2, <1>3, <1>4 DEF Owed

\* A statement is done to t and makes it u.
Executes(o, t, u) ==
    /\ \A r \in Regions, f \in {"name", "year"} :
          RegionValue(u, r, f) = IF o \in RegionWrites(r, f) THEN RegionWritten(f)[o] ELSE RegionValue(t, r, f)
    /\ u.column = IF o \in ColumnWrites THEN ColumnWritten[o] ELSE t.column
    /\ o.op # "save" => u.name = IF o \in NameWrites THEN NameWritten[o] ELSE t.name

LEMMA OwedTail ==
    ASSUME NEW todo \in Seq(Statements), todo # <<>>, NEW t, NEW b, NEW p, Owed(todo, t, b, p),
           NEW u, Executes(Head(todo), t, u)
    PROVE  Owed(Tail(todo), u, b, p)
<1>1. ASSUME NEW r \in Regions, NEW f \in {"name", "year"}
      PROVE  Leaves(Tail(todo), RegionWrites(r, f), RegionWritten(f), RegionValue(u, r, f), Expected(b, p, r, f))
  BY LeavesTail DEF Owed, Executes
<1>2. Leaves(Tail(todo), ColumnWrites, ColumnWritten, u.column, Or(p.column, b.column))
  BY LeavesTail DEF Owed, Executes
<1>3. ASSUME Direct(p)
      PROVE  /\ Leaves(Tail(todo), NameWrites, NameWritten, u.name, Or(p.name, b.name))
             /\ ~ Has(Tail(todo), "refresh") /\ ~ Has(Tail(todo), "save")
  <2>1. ~ Has(todo, "refresh") /\ ~ Has(todo, "save")
    BY <1>3 DEF Owed
  <2>2. Head(todo).op # "save"
    BY <2>1, TailIndex DEF Has
  <2>3. Leaves(Tail(todo), NameWrites, NameWritten, u.name, Or(p.name, b.name))
    BY <1>3, <2>2, LeavesTail DEF Owed, Executes
  <2>4. QED
    BY <2>1, <2>3, TailHas
<1>4. QED
  BY <1>1, <1>2, <1>3 DEF Owed

\* A refresh read the regions and is going to save the game's name and year.
LEMMA OwedSave ==
    ASSUME NEW todo \in Seq(Statements), todo # <<>>, Head(todo).op = "refresh",
           NEW t, NEW b, NEW p, Owed(todo, t, b, p)
    PROVE  Owed(Op("save") \o Tail(todo), t, b, p)
<1> DEFINE o == Head(todo)
           s == Op("save")
<1>1. s \in Seq(Statements) /\ Len(s) = 1 /\ s[1].op = "save"
  BY DEF Op, Statements
<1>2. Tail(todo) \in Seq(Statements) /\ o = todo[1] /\ 1 \in 1..Len(todo)
  BY TailIndex
<1> HIDE DEF s
<1>3. \A T, V, v : s[1] \notin T => Leaves(s, T, V, v, v)
  BY <1>1 DEF Leaves
<1>4. \A T, V, v, w : s[1] \notin T /\ o \notin T /\ Leaves(todo, T, V, v, w) => Leaves(s \o Tail(todo), T, V, v, w)
  <2> SUFFICES ASSUME NEW T, NEW V, NEW v, NEW w, s[1] \notin T, o \notin T, Leaves(todo, T, V, v, w)
               PROVE  Leaves(s \o Tail(todo), T, V, v, w)
    OBVIOUS
  <2>1. Leaves(Tail(todo), T, V, v, w)
    BY LeavesTail
  <2>2. Leaves(s, T, V, v, v)
    BY <1>3
  <2>3. QED
    BY <1>1, <1>2, <2>1, <2>2, LeavesConcat
<1>5. ASSUME NEW r \in Regions, NEW f \in {"name", "year"}
      PROVE  Leaves(s \o Tail(todo), RegionWrites(r, f), RegionWritten(f), RegionValue(t, r, f), Expected(b, p, r, f))
  <2>1. s[1] \notin RegionWrites(r, f) /\ o \notin RegionWrites(r, f)
    BY <1>1 DEF RegionWrites
  <2>2. QED
    BY <1>4, <2>1 DEF Owed
<1>6. Leaves(s \o Tail(todo), ColumnWrites, ColumnWritten, t.column, Or(p.column, b.column))
  <2>1. s[1] \notin ColumnWrites /\ o \notin ColumnWrites
    BY <1>1 DEF ColumnWrites
  <2>2. QED
    BY <1>4, <2>1 DEF Owed
<1>7. ~ Direct(p)
  BY <1>2 DEF Owed, Has
<1>8. QED
  BY <1>5, <1>6, <1>7 DEF Owed, s

-----------------------------------------------------------------------------
\* A running approval still owes what makes the game what was asked for.
Finishes(p) ==
    req[p] # Idle =>
       IF At(p, "insert") THEN req[p].todo = Plan(payload[req[p].sub])
       ELSE Owed(req[p].todo, text[req[p].game], req[p].before, payload[req[p].sub])

FinishInv == clean => \A p \in Procs : Finishes(p)

LEMMA FinishFrom ==
    ASSUME TypeInv, CanonInv, clean, NEW p \in Procs, req[p] # Idle,
           \A q \in Procs \ {p} : req'[q] = req[q], Finishes(p)'
    PROVE  FinishInv'
<1>1. \A q \in Procs \ {p} : req'[q] = Idle
  BY OthersIdle
<1>2. QED
  BY <1>1 DEF FinishInv, Finishes

LEMMA FinishDone ==
    ASSUME TypeInv, CanonInv, FinishInv, clean, NEW p \in Procs, NEW o, At(p, o), o \notin {"insert", "approve"},
           req'[p].sub = req[p].sub, req'[p].game = req[p].game, req'[p].before = req[p].before,
           req'[p].todo = Tail(req[p].todo), \A q \in Procs \ {p} : req'[q] = req[q],
           UNCHANGED payload, Executes(This(p), text[req[p].game], text'[req[p].game])
    PROVE  FinishInv'
<1> DEFINE r == req[p]
           pl == payload[r.sub]
<1>1. r # Idle /\ r.todo \in Seq(Statements) /\ r.todo # <<>> /\ Head(r.todo).op = o /\ Fits(r.todo, pl)
  BY HeadFacts
<1>2. Owed(r.todo, text[r.game], r.before, pl)
  <2>1. ~ At(p, "insert")
    BY <1>1 DEF At
  <2>2. QED
    BY <1>1, <2>1 DEF FinishInv, Finishes
<1>3. Owed(Tail(r.todo), text'[r.game], r.before, pl)
  BY <1>1, <1>2, OwedTail DEF This
<1>4. Finishes(p)'
  <2>1. ~ At(p, "insert")'
    BY <1>1, FitsTail DEF At
  <2>2. QED
    BY <1>3, <2>1 DEF Finishes
<1>5. QED
  BY <1>1, <1>4, FinishFrom

LEMMA DoneBefore ==
    ASSUME TypeInv, NEW p \in Procs, Done(p)
    PROVE  req'[p].before = req[p].before
<1>1. req[p] \in Requests /\ req \in [Procs -> Requests]
  BY DEF TypeInv
<1>2. QED
  BY <1>1 DEF Done, Requests

\* What each statement does to the text of its game.
LEMMA UpsertExecutes ==
    ASSUME TypeInv, NEW p \in Procs, UpsertGameRegion(p)
    PROVE  Executes(This(p), text[req[p].game], text'[req[p].game])
<1>0. At(p, "upsert")
  BY DEF UpsertGameRegion
<1>1. PICK t \in GameRows, e \in Entries, g \in Games, o \in Statements :
         t = text[g] /\ e = o.entry /\ g = req[p].game /\ o = This(p) /\ o.op = "upsert"
  BY <1>0, HeadFacts, StatementFields
<1> DEFINE old == IF t.regions[e.region] = None THEN [name |-> None, year |-> None] ELSE t.regions[e.region]
           new == [name |-> Or(e.name, old.name), year |-> Or(e.year, old.year)]
           u == [t EXCEPT !.regions[e.region] = new]
<1>2. text' = [text EXCEPT ![g] = u]
  BY <1>1 DEF UpsertGameRegion, Store
<1>3. old.name = RegionValue(t, e.region, "name") /\ old.year = RegionValue(t, e.region, "year")
  BY DEF RegionValue
<1>4. new # None /\ new.name = Or(e.name, old.name) /\ new.year = Or(e.year, old.year)
  <2>1. old.name \in Names \cup {None} /\ old.year \in Years \cup {None}
    BY DEF GameRows, RegionRows, Entries
  <2>2. new \in RegionRows
    BY <2>1 DEF RegionRows, Entries, Or
  <2>3. QED
    BY <2>2, GameTextAssumption DEF GameTextAssumption
<1> HIDE DEF old, new
<1>5. /\ u.column = t.column /\ u.name = t.name
      /\ \A r \in Regions : u.regions[r] = IF r = e.region THEN new ELSE t.regions[r]
  BY DEF GameRows
<1> HIDE DEF u
<1>6. text'[g] = u
  BY <1>2, TextTyped DEF TypeInv
<1>7. ASSUME NEW r \in Regions, NEW f \in {"name", "year"}
      PROVE  RegionValue(u, r, f) =
               IF o \in RegionWrites(r, f) THEN RegionWritten(f)[o] ELSE RegionValue(t, r, f)
  <2>1. o \in RegionWrites(r, f) <=> e.region = r /\ Value(e, f) # None
    BY <1>1 DEF RegionWrites, Sets
  <2>2. RegionWritten(f)[o] = Value(e, f)
    BY <1>1 DEF RegionWritten
  <2>3. CASE r # e.region
    BY <1>5, <2>1, <2>3 DEF RegionValue
  <2>4. CASE r = e.region
    <3>1. RegionValue(u, r, f) = new[f]
      BY <1>4, <1>5, <2>4 DEF RegionValue
    <3>2. CASE f = "name"
      <4>1. new[f] = Or(e.name, RegionValue(t, r, f)) /\ Value(e, f) = e.name
        BY <1>3, <1>4, <2>4, <3>2 DEF Value
      <4>2. QED
        BY <2>1, <2>2, <2>4, <3>1, <4>1 DEF Or
    <3>3. CASE f = "year"
      <4>1. new[f] = Or(e.year, RegionValue(t, r, f)) /\ Value(e, f) = e.year
        BY <1>3, <1>4, <2>4, <3>3 DEF Value
      <4>2. QED
        BY <2>1, <2>2, <2>4, <3>1, <4>1 DEF Or
    <3>4. QED
      BY <3>2, <3>3
  <2>5. QED
    BY <2>3, <2>4
<1>8. o \notin ColumnWrites /\ o \notin NameWrites
  BY <1>1 DEF ColumnWrites, NameWrites
<1>9. Executes(o, t, u)
  BY <1>5, <1>7, <1>8 DEF Executes
<1>10. QED
  BY <1>1, <1>6, <1>9

LEMMA ClearExecutes ==
    ASSUME TypeInv, NEW p \in Procs, ClearGameRegion(p)
    PROVE  Executes(This(p), text[req[p].game], text'[req[p].game])
<1>0. At(p, "clear")
  BY DEF ClearGameRegion
<1>1. PICK t \in GameRows, x \in Regions, k \in {"name", "year"}, g \in Games, o \in Statements :
         t = text[g] /\ x = o.region /\ k = o.field /\ g = req[p].game /\ o = This(p) /\ o.op = "clear"
  BY <1>0, HeadFacts, StatementFields
<1> DEFINE u == IF t.regions[x] = None THEN t ELSE [t EXCEPT !.regions[x][k] = None]
<1>2. text' = [text EXCEPT ![g] = u]
  BY <1>1 DEF ClearGameRegion, Store
<1>3. /\ u.column = t.column /\ u.name = t.name
      /\ \A r \in Regions : u.regions[r] = IF r = x /\ t.regions[x] # None THEN [t.regions[x] EXCEPT ![k] = None]
                                           ELSE t.regions[r]
  BY DEF GameRows
<1> HIDE DEF u
<1>4. text'[g] = u
  BY <1>2, TextTyped DEF TypeInv
<1>5. t.regions[x] # None => t.regions[x] \in RegionRows
  BY DEF GameRows
<1>6. ASSUME t.regions[x] # None
      PROVE  /\ [t.regions[x] EXCEPT ![k] = None] # None
             /\ \A f \in {"name", "year"} :
                   [t.regions[x] EXCEPT ![k] = None][f] = IF f = k THEN None ELSE t.regions[x][f]
  <2> DEFINE y == [t.regions[x] EXCEPT ![k] = None]
  <2>1. y \in RegionRows
    BY <1>5, <1>6 DEF RegionRows
  <2>2. y # None
    BY <2>1, GameTextAssumption DEF GameTextAssumption
  <2>3. \A f \in {"name", "year"} : y[f] = IF f = k THEN None ELSE t.regions[x][f]
    BY <1>5, <1>6 DEF RegionRows
  <2>4. QED
    BY <2>2, <2>3
<1>7. ASSUME NEW r \in Regions, NEW f \in {"name", "year"}
      PROVE  RegionValue(u, r, f) =
               IF o \in RegionWrites(r, f) THEN RegionWritten(f)[o] ELSE RegionValue(t, r, f)
  <2>1. o \in RegionWrites(r, f) <=> x = r /\ k = f
    BY <1>1 DEF RegionWrites
  <2>2. RegionWritten(f)[o] = None
    BY <1>1 DEF RegionWritten
  <2>3. CASE r # x \/ t.regions[x] = None
    BY <1>3, <2>1, <2>2, <2>3 DEF RegionValue
  <2>4. CASE r = x /\ t.regions[x] # None
    <3>1. RegionValue(u, r, f) = IF f = k THEN None ELSE t.regions[x][f]
      BY <1>3, <1>6, <2>4 DEF RegionValue
    <3>2. RegionValue(t, r, f) = t.regions[x][f]
      BY <2>4 DEF RegionValue
    <3>3. QED
      BY <2>1, <2>2, <2>4, <3>1, <3>2
  <2>5. QED
    BY <2>3, <2>4
<1>8. o \notin ColumnWrites /\ o \notin NameWrites
  BY <1>1 DEF ColumnWrites, NameWrites
<1>9. Executes(o, t, u)
  BY <1>3, <1>7, <1>8 DEF Executes
<1>10. QED
  BY <1>1, <1>4, <1>9

LEMMA DropExecutes ==
    ASSUME TypeInv, NEW p \in Procs, DropEmptyRegion(p)
    PROVE  Executes(This(p), text[req[p].game], text'[req[p].game])
<1>0. At(p, "drop")
  BY DEF DropEmptyRegion
<1>1. PICK t \in GameRows, x \in Regions, g \in Games, o \in Statements :
         t = text[g] /\ x = o.region /\ g = req[p].game /\ o = This(p) /\ o.op = "drop"
  BY <1>0, HeadFacts, StatementFields
<1> DEFINE empty == [name |-> None, year |-> None]
           u == IF t.regions[x] = empty THEN [t EXCEPT !.regions[x] = None] ELSE t
<1>2. text' = [text EXCEPT ![g] = u]
  BY <1>1 DEF DropEmptyRegion, Store
<1>3. empty.name = None /\ empty.year = None
  OBVIOUS
<1>4. /\ u.column = t.column /\ u.name = t.name
      /\ \A r \in Regions : u.regions[r] = IF r = x /\ t.regions[x] = empty THEN None ELSE t.regions[r]
  BY DEF GameRows
<1> HIDE DEF u, empty
<1>5. text'[g] = u
  BY <1>2, TextTyped DEF TypeInv
<1>6. \A r \in Regions, f \in {"name", "year"} : RegionValue(u, r, f) = RegionValue(t, r, f)
  BY <1>3, <1>4 DEF RegionValue
<1>7. /\ o \notin ColumnWrites /\ o \notin NameWrites
      /\ \A r \in Regions, f \in {"name", "year"} : o \notin RegionWrites(r, f)
  BY <1>1 DEF ColumnWrites, NameWrites, RegionWrites
<1>8. Executes(o, t, u)
  BY <1>4, <1>6, <1>7 DEF Executes
<1>9. QED
  BY <1>1, <1>5, <1>8

\* Statements about the game alone.
LEMMA OwnExecutes ==
    ASSUME NEW o \in Statements, o.op \in {"name", "year", "column", "save", "rom", "attach", "insert"},
           NEW t, NEW u, u.regions = t.regions,
           u.column = IF o.op = "column" THEN o.column ELSE t.column,
           o.op # "save" => u.name = IF o.op = "name" THEN o.name ELSE t.name
    PROVE  Executes(o, t, u)
<1>1. \A r \in Regions, f \in {"name", "year"} : RegionValue(u, r, f) = RegionValue(t, r, f) /\ o \notin RegionWrites(r, f)
  BY DEF RegionValue, RegionWrites
<1>2. u.column = IF o \in ColumnWrites THEN ColumnWritten[o] ELSE t.column
  BY DEF ColumnWrites, ColumnWritten
<1>3. o.op # "save" => u.name = IF o \in NameWrites THEN NameWritten[o] ELSE t.name
  BY DEF NameWrites, NameWritten
<1>4. QED
  BY <1>1, <1>2, <1>3 DEF Executes

LEMMA InsertFinish ==
    ASSUME TypeInv, CanonInv, FinishInv, clean, NEW p \in Procs, InsertGame(p)
    PROVE  FinishInv'
<1>0. At(p, "insert") /\ req[p] # Idle /\ UNCHANGED payload
  BY HeadFacts DEF InsertGame, Rest
<1>1. PICK s \in Subs, pl \in Payloads, todo \in Seq(Statements) :
         /\ s = req[p].sub /\ pl = payload[s] /\ todo = req[p].todo /\ req[p] \in Requests
         /\ todo # <<>> /\ Head(todo) \in Statements /\ Head(todo).op = "insert" /\ Fits(todo, pl)
  BY <1>0, HeadFacts, TailIndex DEF This
<1> DEFINE new == [name |-> pl.name, year |-> pl.year, column |-> pl.column,
                   regions |-> [x \in Regions |-> None]]
<1>2. PICK g \in Games : /\ text' = [text EXCEPT ![g] = new]
                         /\ req' = [req EXCEPT ![p].todo = Tail(@), ![p].game = g, ![p].before = new]
  BY <1>1 DEF InsertGame
<1>3. new.name = pl.name /\ new.column = pl.column /\ new.regions = [x \in Regions |-> None]
  OBVIOUS
<1> HIDE DEF new
<1>4. text'[g] = new
  BY <1>2, TextTyped DEF TypeInv
<1>5. /\ req'[p].sub = s /\ req'[p].game = g /\ req'[p].todo = Tail(todo) /\ req'[p].before = new
      /\ \A q \in Procs \ {p} : req'[q] = req[q]
  <2>1. req \in [Procs -> Requests]
    BY DEF TypeInv
  <2>2. QED
    BY <1>1, <1>2, <2>1 DEF Requests
<1>6. todo = Plan(pl)
  BY <1>0, <1>1 DEF FinishInv, Finishes
<1>7. Starts(new, pl)
  BY <1>3 DEF Starts, RegionValue
<1>8. Owed(todo, new, new, pl)
  BY <1>6, <1>7, OwedPlan
<1>9. Executes(Head(todo), new, new)
  BY <1>1, OwnExecutes
<1>10. Owed(Tail(todo), new, new, pl)
  BY <1>1, <1>8, <1>9, OwedTail
<1>11. ~ At(p, "insert")'
  BY <1>1, <1>5, FitsTail DEF At
<1>12. Finishes(p)'
  BY <1>0, <1>1, <1>4, <1>5, <1>10, <1>11 DEF Finishes
<1>13. QED
  BY <1>0, <1>5, <1>12, FinishFrom

LEMMA ListFinish ==
    ASSUME TypeInv, CanonInv, FinishInv, clean, NEW p \in Procs, ListGameRegions(p)
    PROVE  FinishInv'
<1>0. At(p, "refresh") /\ req[p] # Idle /\ UNCHANGED <<payload, text>>
  BY HeadFacts DEF ListGameRegions, Rest
<1>1. PICK r \in Requests, todo \in Seq(Statements) :
         /\ r = req[p] /\ todo = r.todo /\ todo # <<>> /\ Head(todo).op = "refresh"
  BY <1>0, HeadFacts
<1> DEFINE left == Op("save") \o Tail(todo)
           found == [name |-> First(text[r.game], "name"), year |-> First(text[r.game], "year")]
<1>2. req' = [req EXCEPT ![p].primary = found, ![p].todo = left]
  BY <1>1 DEF ListGameRegions
<1>3. ~ At(p, "insert") /\ Head(left).op = "save"
  <2>1. Op("save") \in Seq(Statements) /\ Len(Op("save")) = 1 /\ Op("save")[1].op = "save"
    BY DEF Op, Statements
  <2>2. Tail(todo) \in Seq(Statements)
    BY <1>1, TailIndex
  <2>3. left \in Seq(Statements) /\ left[1] = Op("save")[1]
    BY <2>1, <2>2, Concat
  <2>4. left # <<>>
    BY <2>1, <2>2
  <2>5. Head(left) = left[1]
    BY <2>3, <2>4
  <2>6. QED
    BY <1>1, <2>1, <2>3, <2>5 DEF At
<1>4. Owed(todo, text[r.game], r.before, payload[r.sub])
  BY <1>0, <1>1, <1>3 DEF FinishInv, Finishes
<1>5. Owed(left, text[r.game], r.before, payload[r.sub])
  BY <1>1, <1>4, OwedSave
<1> HIDE DEF left, found
<1>6. /\ req'[p].sub = r.sub /\ req'[p].game = r.game /\ req'[p].todo = left /\ req'[p].before = r.before
      /\ \A q \in Procs \ {p} : req'[q] = req[q]
  <2>1. req \in [Procs -> Requests]
    BY DEF TypeInv
  <2>2. QED
    BY <1>1, <1>2, <2>1 DEF Requests
<1>7. ~ At(p, "insert")'
  BY <1>3, <1>6 DEF At
<1>8. Finishes(p)'
  BY <1>0, <1>5, <1>6, <1>7 DEF Finishes
<1>9. QED
  BY <1>0, <1>6, <1>8, FinishFrom

LEMMA AttachFinish ==
    ASSUME TypeInv, CanonInv, FinishInv, clean, NEW p \in Procs,
           SetMetadataSubmissionGame(p) \/ AddRom(p) \/ UpdateRom(p) \/ DeleteRom(p)
    PROVE  FinishInv'
<1>1. PICK o \in {"attach", "rom"} : At(p, o) /\ Done(p) /\ UNCHANGED <<payload, text>>
  BY DEF SetMetadataSubmissionGame, AddRom, UpdateRom, DeleteRom, RomChangeDone, Rest
<1>2. This(p) \in Statements /\ This(p).op = o
  BY <1>1, HeadFacts
<1>3. Executes(This(p), text[req[p].game], text'[req[p].game])
  BY <1>1, <1>2, OwnExecutes
<1>4. QED
  BY <1>1, <1>3, DoneRequest, DoneBefore, FinishDone

LEMMA RegionFinish ==
    ASSUME TypeInv, CanonInv, FinishInv, clean, NEW p \in Procs,
           UpsertGameRegion(p) \/ ClearGameRegion(p) \/ DropEmptyRegion(p)
    PROVE  FinishInv'
<1>1. PICK o \in RegionOps : At(p, o) /\ Done(p) /\ UNCHANGED payload
  <2>1. CASE UpsertGameRegion(p)
    BY <2>1 DEF UpsertGameRegion, Rest, RegionOps
  <2>2. CASE ClearGameRegion(p)
    BY <2>2 DEF ClearGameRegion, Rest, RegionOps
  <2>3. CASE DropEmptyRegion(p)
    BY <2>3 DEF DropEmptyRegion, Rest, RegionOps
  <2>4. QED
    BY <2>1, <2>2, <2>3
<1>2. Executes(This(p), text[req[p].game], text'[req[p].game])
  BY UpsertExecutes, ClearExecutes, DropExecutes
<1>3. QED
  BY <1>1, <1>2, DoneRequest, DoneBefore, FinishDone DEF RegionOps

LEMMA SaveFinish ==
    ASSUME TypeInv, CanonInv, FinishInv, clean, NEW p \in Procs, SaveGamePrimary(p)
    PROVE  FinishInv'
<1>0. At(p, "save") /\ UNCHANGED payload
  BY DEF SaveGamePrimary, Rest
<1>1. PICK t \in GameRows, g \in Games, r \in Requests :
         t = text[g] /\ g = req[p].game /\ r = req[p] /\ This(p) \in Statements /\ This(p).op = "save"
  BY <1>0, HeadFacts
<1> DEFINE u == [t EXCEPT !.name = Or(r.primary.name, @), !.year = Or(r.primary.year, @)]
<1>2. text' = [text EXCEPT ![g] = u]
  BY <1>1 DEF SaveGamePrimary, Store
<1>3. u.regions = t.regions /\ u.column = t.column
  BY DEF GameRows
<1> HIDE DEF u
<1>4. text'[g] = u
  BY <1>2, TextTyped DEF TypeInv
<1>5. Executes(This(p), t, u)
  BY <1>1, <1>3, OwnExecutes
<1>6. /\ req'[p].sub = r.sub /\ req'[p].game = r.game /\ req'[p].before = r.before
      /\ req'[p].todo = Tail(r.todo) /\ \A q \in Procs \ {p} : req'[q] = req[q]
  <2>1. req \in [Procs -> Requests]
    BY DEF TypeInv
  <2>2. QED
    BY <1>1, <2>1 DEF SaveGamePrimary, Requests
<1>7. QED
  BY <1>0, <1>1, <1>4, <1>5, <1>6, FinishDone

LEMMA OwnFinish ==
    ASSUME TypeInv, CanonInv, FinishInv, clean, NEW p \in Procs,
           SetGameName(p) \/ SetGameRelease(p) \/ SetGameColumn(p)
    PROVE  FinishInv'
<1>1. PICK o \in {"name", "year", "column"} : At(p, o) /\ Done(p) /\ UNCHANGED payload
  BY DEF SetGameName, SetGameRelease, SetGameColumn, Rest
<1>2. PICK t \in GameRows, g \in Games, x \in Statements :
         t = text[g] /\ g = req[p].game /\ x = This(p) /\ x.op = o
  BY <1>1, HeadFacts
<1>3. PICK u : /\ text' = [text EXCEPT ![g] = u] /\ u.regions = t.regions
               /\ u.column = IF o = "column" THEN x.column ELSE t.column
               /\ u.name = IF o = "name" THEN x.name ELSE t.name
  <2>1. CASE SetGameName(p)
    <3> DEFINE w == [t EXCEPT !.name = x.name]
    <3>1. text' = [text EXCEPT ![g] = w] /\ o = "name"
      BY <1>1, <1>2, <2>1 DEF SetGameName, Store, At, This
    <3>2. w.regions = t.regions /\ w.column = t.column /\ w.name = x.name
      BY DEF GameRows
    <3>3. QED
      BY <3>1, <3>2
  <2>2. CASE SetGameRelease(p)
    <3> DEFINE w == [t EXCEPT !.year = x.year]
    <3>1. text' = [text EXCEPT ![g] = w] /\ o = "year"
      BY <1>1, <1>2, <2>2 DEF SetGameRelease, Store, At, This
    <3>2. w.regions = t.regions /\ w.column = t.column /\ w.name = t.name
      BY DEF GameRows
    <3>3. QED
      BY <3>1, <3>2
  <2>3. CASE SetGameColumn(p)
    <3> DEFINE w == [t EXCEPT !.column = x.column]
    <3>1. text' = [text EXCEPT ![g] = w] /\ o = "column"
      BY <1>1, <1>2, <2>3 DEF SetGameColumn, Store, At, This
    <3>2. w.regions = t.regions /\ w.column = x.column /\ w.name = t.name
      BY DEF GameRows
    <3>3. QED
      BY <3>1, <3>2
  <2>4. QED
    BY <2>1, <2>2, <2>3
<1>4. text'[g] = u
  BY <1>3, TextTyped DEF TypeInv
<1>5. Executes(x, t, u)
  BY <1>2, <1>3, OwnExecutes
<1>6. QED
  BY <1>1, <1>2, <1>4, <1>5, DoneRequest, DoneBefore, FinishDone

LEMMA IdleFinish ==
    ASSUME TypeInv, CanonInv, clean, NEW p \in Procs, Abort(p) \/ SetMetadataStatus(p)
    PROVE  FinishInv'
<1>1. req[p] # Idle
  BY HeadFacts DEF Abort, SetMetadataStatus
<1>2. req'[p] = Idle /\ \A q \in Procs \ {p} : req'[q] = req[q]
  BY DEF Abort, SetMetadataStatus, TypeInv
<1>3. Finishes(p)'
  BY <1>2 DEF Finishes
<1>4. QED
  BY <1>1, <1>2, <1>3, FinishFrom

LEMMA StatementFinish ==
    ASSUME TypeInv, CanonInv, FinishInv, clean, NEW p \in Procs, Statement(p) \/ Abort(p)
    PROVE  FinishInv'
BY InsertFinish, ListFinish, AttachFinish, RegionFinish, SaveFinish, OwnFinish, IdleFinish DEF Statement

LEMMA ApproveFinish ==
    ASSUME TypeInv, clean', NEW p \in Procs, NEW s \in Subs, ApproveMetadataSubmission(p, s)
    PROVE  FinishInv'
<1>1. /\ AllIdle /\ status[s] = "pending" /\ UNCHANGED <<text, payload>>
      /\ payload[s].kind = "new_game" => target[s] = None
      /\ req' = [req EXCEPT ![p] =
                   [sub |-> s, game |-> target[s], primary |-> None, todo |-> Plan(payload[s]),
                    before |-> IF target[s] = None THEN None ELSE text[target[s]]]]
  BY DEF ApproveMetadataSubmission
<1>2. PICK pl \in Payloads : pl = payload[s] /\ (pl.kind = "edit" => target[s] # None)
  <2>1. status[s] # None
    BY <1>1, GameTextAssumption DEF GameTextAssumption
  <2>2. QED
    BY <2>1 DEF TypeInv, SubsFine
<1>3. /\ \A q \in Procs \ {p} : req'[q] = Idle
      /\ req'[p].sub = s /\ req'[p].game = target[s] /\ req'[p].todo = Plan(pl)
      /\ target[s] # None => req'[p].before = text[target[s]]
  BY <1>1, <1>2 DEF TypeInv, AllIdle
<1>4. Plan(pl) \in Seq(Statements) /\ Plan(pl) # <<>>
  BY PlanFits DEF Fits
<1>5. Head(Plan(pl)) = Plan(pl)[1] /\ 1 \in 1..Len(Plan(pl))
  BY <1>4, TailIndex
<1>6. CASE target[s] = None
  <2>1. pl.kind = "new_game"
    BY <1>2, <1>6, PayloadFields
  <2>2. Plan(pl)[1].op = "insert"
    BY <2>1, PlanFits
  <2>3. At(p, "insert")'
    BY <1>3, <1>4, <1>5, <2>2 DEF At
  <2>4. Finishes(p)'
    BY <1>1, <1>2, <1>3, <2>3 DEF Finishes
  <2>5. QED
    BY <1>3, <2>4 DEF FinishInv, Finishes
<1>7. CASE target[s] # None
  <2>1. pl.kind = "edit"
    BY <1>1, <1>2, <1>7, PayloadFields
  <2>2. ~ Has(Plan(pl), "insert")
    BY <2>1, PlanFits
  <2>3. ~ At(p, "insert")'
    BY <1>3, <1>5, <2>2 DEF At, Has
  <2>4. Starts(text[target[s]], pl)
    BY <2>1 DEF Starts
  <2>5. Owed(Plan(pl), text[target[s]], text[target[s]], pl)
    BY <2>4, OwedPlan
  <2>6. Finishes(p)'
    BY <1>1, <1>2, <1>3, <1>7, <2>3, <2>5 DEF Finishes
  <2>7. QED
    BY <1>3, <2>6 DEF FinishInv, Finishes
<1>8. QED
  BY <1>6, <1>7

LEMMA FinishStep == TypeInv /\ CanonInv /\ FinishInv /\ [Next]_vars => FinishInv'
<1> SUFFICES ASSUME TypeInv, CanonInv, FinishInv, [Next]_vars, clean' PROVE FinishInv'
  BY DEF FinishInv
\* What a running approval reads stays.
<1>1. ASSUME clean, UNCHANGED <<text, req>>,
             \A p \in Procs : req[p] # Idle => payload'[req[p].sub] = payload[req[p].sub]
      PROVE  FinishInv'
  BY <1>1 DEF FinishInv, Finishes, At
<1>2. CASE UNCHANGED vars
  BY <1>1, <1>2 DEF vars
<1>3. CASE \E s \in Subs : RejectMetadataSubmission(s)
  BY <1>1, <1>3 DEF RejectMetadataSubmission
<1>4. CASE \E s \in Subs : \E p \in Payloads : CreateMetadataSubmission(s, p)
  <2>1. PICK s \in Subs, p \in Payloads : CreateMetadataSubmission(s, p)
    BY <1>4
  <2>2. /\ clean /\ UNCHANGED <<text, req>> /\ status[s] = None
        /\ \A x \in Subs \ {s} : payload'[x] = payload[x]
    BY <2>1 DEF CreateMetadataSubmission, TypeInv, TypeOK
  <2>3. \A q \in Procs : req[q] # Idle => req[q].sub \in Subs /\ req[q].sub # s
    BY <2>2 DEF TypeInv, RequestFine
  <2>4. QED
    BY <1>1, <2>2, <2>3
<1>5. CASE \E p \in Procs : Statement(p) \/ Abort(p)
  <2>1. PICK p \in Procs : Statement(p) \/ Abort(p)
    BY <1>5
  <2>2. clean
    BY <2>1, StatementKeepsClean DEF Abort
  <2>3. QED
    BY <2>1, <2>2, StatementFinish
<1>6. CASE \E p \in Procs : \E s \in Subs : ApproveMetadataSubmission(p, s)
  BY <1>6, ApproveFinish
<1>7. QED
  BY <1>2, <1>3, <1>4, <1>5, <1>6 DEF Next

LEMMA FinishInit == Init => FinishInv
BY DEF Init, FinishInv, Finishes

LEMMA FinishInvHolds == Spec => []FinishInv
BY TypeInvHolds, CanonInvHolds, FinishInit, FinishStep, PTL DEF Spec

\* Of a contribution in work only the last statement changes the status.
LEMMA StatusChanges ==
    ASSUME TypeInv, CanonInv, clean, [Next]_vars, NEW p \in Procs,
           req[p].sub # None, status'[req[p].sub] # status[req[p].sub]
    PROVE  SetMetadataStatus(p)
<1>1. req[p] # Idle
  BY DEF Idle
<1>2. /\ req[p].sub \in Subs /\ status[req[p].sub] = "pending" /\ "pending" # None
      /\ \A q \in Procs : q # p => req[q] = Idle
  BY <1>1, OnlyOneRuns, GameTextAssumption DEF GameTextAssumption
<1>3. CASE UNCHANGED vars
  BY <1>3 DEF vars
<1>4. CASE \E s \in Subs : RejectMetadataSubmission(s)
  BY <1>2, <1>4 DEF RejectMetadataSubmission, TypeInv, TypeOK
<1>5. CASE \E s \in Subs : \E x \in Payloads : CreateMetadataSubmission(s, x)
  BY <1>2, <1>5 DEF CreateMetadataSubmission, TypeInv, TypeOK
<1>6. CASE \E q \in Procs : Statement(q) /\ ~ SetMetadataStatus(q)
  <2>1. PICK q \in Procs : Statement(q) /\ ~ SetMetadataStatus(q)
    BY <1>6
  <2>0. CASE InsertGame(q) \/ SetMetadataSubmissionGame(q)
    BY <2>0 DEF InsertGame, SetMetadataSubmissionGame, Rest
  <2>2. CASE ListGameRegions(q) \/ SaveGamePrimary(q)
    BY <2>2 DEF ListGameRegions, SaveGamePrimary, Rest
  <2>3. CASE UpsertGameRegion(q)
    BY <2>3 DEF UpsertGameRegion, Rest
  <2>4. CASE ClearGameRegion(q)
    BY <2>4 DEF ClearGameRegion, Rest
  <2>5. CASE DropEmptyRegion(q)
    BY <2>5 DEF DropEmptyRegion, Rest
  <2>6. CASE SetGameName(q) \/ SetGameRelease(q) \/ SetGameColumn(q)
    BY <2>6 DEF SetGameName, SetGameRelease, SetGameColumn, Rest
  <2>7. CASE AddRom(q) \/ UpdateRom(q) \/ DeleteRom(q)
    BY <2>7 DEF AddRom, UpdateRom, DeleteRom, RomChangeDone, Rest
  <2>8. QED
    BY <2>0, <2>1, <2>2, <2>3, <2>4, <2>5, <2>6, <2>7 DEF Statement
<1>7. CASE \E q \in Procs : SetMetadataStatus(q)
  <2>1. PICK q \in Procs : SetMetadataStatus(q)
    BY <1>7
  <2>2. req[q] # Idle
    BY <2>1, HeadFacts DEF SetMetadataStatus
  <2>3. QED
    BY <1>2, <2>1, <2>2
<1>8. CASE \E q \in Procs : Abort(q) \/ \E s \in Subs : ApproveMetadataSubmission(q, s)
  BY <1>8 DEF Abort, ApproveMetadataSubmission
<1>9. QED
  BY <1>3, <1>4, <1>5, <1>6, <1>7, <1>8 DEF Next

\* An approval that ends, at the first attempt or after any number of others that
\* were cut short, has given every region the name and the year its payload says
\* last, has cleared what it deletes or moves, and has left the rest as it was.
THEOREM ApprovalAppliesPayload == Spec => AppliedAsWritten
<1>1. ASSUME TypeInv, CanonInv, FinishInv, [Next]_vars, clean, NEW p \in Procs,
             req[p].sub # None, status'[req[p].sub] # status[req[p].sub]
      PROVE  LET b == req[p].before pl == payload[req[p].sub] t == text[req[p].game] IN
             /\ \A r \in Regions, f \in {"name", "year"} : RegionValue(t, r, f) = Expected(b, pl, r, f)
             /\ t.column = Or(pl.column, b.column)
             /\ Direct(pl) => t.name = Or(pl.name, b.name)
  <2> DEFINE b == req[p].before
             pl == payload[req[p].sub]
             t == text[req[p].game]
             todo == req[p].todo
  <2>1. At(p, "approve")
    BY <1>1, StatusChanges DEF SetMetadataStatus
  <2>2. /\ req[p] # Idle /\ todo \in Seq(Statements) /\ todo # <<>> /\ todo[1].op = "approve"
        /\ Head(todo).op = "approve" /\ 1 \in 1..Len(todo) /\ Fits(todo, pl)
    BY <1>1, <2>1, HeadFacts
  <2>3. Owed(todo, t, b, pl)
    <3>1. ~ At(p, "insert")
      BY <2>2 DEF At
    <3>2. QED
      BY <1>1, <2>2, <3>1 DEF FinishInv, Finishes
  <2>4. \A i \in 1..Len(todo) : todo[i].op = "approve"
    <3>1. Len(todo) = 1
      BY <2>2 DEF Fits
    <3>2. QED
      BY <2>2, <3>1
  <2>5. \A T, V, v, w : Leaves(todo, T, V, v, w) /\ (\A o \in T : o.op # "approve") => v = w
    BY <2>4 DEF Leaves
  <2> HIDE DEF b, pl, t, todo
  <2>6. /\ \A r \in Regions, f \in {"name", "year"} : \A o \in RegionWrites(r, f) : o.op # "approve"
        /\ \A o \in ColumnWrites \cup NameWrites : o.op # "approve"
    BY DEF RegionWrites, ColumnWrites, NameWrites
  <2>7. ASSUME NEW r \in Regions, NEW f \in {"name", "year"}
        PROVE  RegionValue(t, r, f) = Expected(b, pl, r, f)
    BY <2>3, <2>5, <2>6 DEF Owed
  <2>8. t.column = Or(pl.column, b.column)
    BY <2>3, <2>5, <2>6 DEF Owed
  <2>9. Direct(pl) => t.name = Or(pl.name, b.name)
    BY <2>3, <2>5, <2>6 DEF Owed
  <2>10. QED
    BY <2>7, <2>8, <2>9 DEF b, pl, t
<1> DEFINE Applied ==
      clean /\ clean' => \A p \in Procs :
         LET s == req[p].sub g == req[p].game t == text[g] IN
         s # None /\ status'[s] # status[s] =>
            /\ \A r \in Regions, f \in {"name", "year"} :
                  RegionValue(t, r, f) = Expected(req[p].before, payload[s], r, f)
            /\ t.column = Or(payload[s].column, req[p].before.column)
            /\ Direct(payload[s]) => t.name = Or(payload[s].name, req[p].before.name)
<1>2. TypeInv /\ CanonInv /\ FinishInv /\ [Next]_vars => Applied
  BY <1>1
<1> HIDE DEF Applied
<1>3. Spec => [][Applied]_vars
  BY <1>2, TypeInvHolds, CanonInvHolds, FinishInvHolds, PTL DEF Spec
<1>4. QED
  BY <1>3 DEF AppliedAsWritten, Applied
=============================================================================
