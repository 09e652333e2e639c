------------------------ MODULE ValidationRunner_proofs ------------------------
(* Proofs about the validation harness, for suites of any length. A recursive    *)
(* reading of the scripts is out of the provers' reach, so what a script does is *)
(* established from its fragments by concatenation: which operations occur in it, *)
(* in which order those that matter come, and that its finally block undoes what *)
(* its body does. With that, one inductive invariant covers every row.           *)
EXTENDS ValidationRunner, SequenceTheorems, TLAPS

-----------------------------------------------------------------------------
(* Scripts *)

(* How a row goes on after a step; a row that is judged has its report. *)
Outcomes == {"next", "bail", "aborted", "fail", "skip", "error"}
Operations == {"look", "call", "read", "gates", "baseline", "count", "spawn", "connect", "close",
               "sigterm", "exited", "shutdown", "save", "snapshotId", "export", "terminal",
               "release", "releaseOnce", "cancel", "load", "loadRuns", "teardown", "mode",
               "remode", "restore", "mkdir", "hand", "rmdir"}
\* A step as a record, and the steps the scripts are made of.
Command == [op : Operations, bad : SUBSET Outcomes, thrown : SUBSET Outcomes]
\* A row never goes on past a failure of these.
Deciding == {"gates", "count", "mode", "mkdir"}
Step == {x \in Command : x.op \in Deciding => "next" \notin x.bad /\ "next" \notin x.thrown}

\* The operations of a script.
Ops(q) == {q[i].op : i \in DOMAIN q}

\* The operations whose order matters; 0 for the others.
Rank(op) == IF op \in {"baseline", "mode"} THEN 1
            ELSE IF op = "spawn" THEN 2
            ELSE IF op \in {"remode", "mkdir"} THEN 3
            ELSE IF op = "count" THEN 4
            ELSE IF op \in {"gates", "hand"} THEN 5
            ELSE 0

\* Their order, and the ranks a fragment may hold.
InOrder(q, lo, hi) ==
  /\ \A i \in DOMAIN q : Rank(q[i].op) = 0 \/ (lo <= Rank(q[i].op) /\ Rank(q[i].op) <= hi)
  /\ \A i, j \in DOMAIN q :
       i < j /\ Rank(q[i].op) # 0 /\ Rank(q[j].op) # 0 => Rank(q[i].op) <= Rank(q[j].op)

\* The id of a snapshot is taken in the step after its save.
SaveThenId(q) ==
  \A i \in DOMAIN q : q[i].op = "save" => i < Len(q) /\ q[i + 1].op = "snapshotId"

\* The display mode is enforced once.
Once(q) == \A i, j \in DOMAIN q : q[i].op = "mode" /\ q[j].op = "mode" => i = j

\* What is established of every fragment and driver.
Does(q, ops, lo, hi) ==
  q \in Seq(Step) /\ Ops(q) = ops /\ InOrder(q, lo, hi) /\ SaveThenId(q) /\ Once(q)

\* A script that is put together does what its parts do.
LEMMA OpsConcat ==
  ASSUME NEW q \in Seq(Step), NEW r \in Seq(Step)
  PROVE  Ops(q \o r) = Ops(q) \cup Ops(r)
<1>1. q \o r \in Seq(Step) /\ Len(q \o r) = Len(q) + Len(r) /\ Len(q) \in Nat /\ Len(r) \in Nat
  BY ConcatProperties, LenProperties
<1>2. /\ DOMAIN q = 1 .. Len(q) /\ DOMAIN r = 1 .. Len(r)
      /\ DOMAIN (q \o r) = 1 .. Len(q) + Len(r)
  BY <1>1, LenProperties
<1>3. \A i \in 1 .. Len(q) + Len(r) : (q \o r)[i] = IF i <= Len(q) THEN q[i] ELSE r[i - Len(q)]
  BY ConcatProperties
<1>4. Ops(q \o r) \subseteq Ops(q) \cup Ops(r)
  BY <1>1, <1>2, <1>3 DEF Ops
<1>5. ASSUME NEW i \in 1 .. Len(q) PROVE q[i].op \in Ops(q \o r)
  <2>1. i \in DOMAIN (q \o r) /\ (q \o r)[i] = q[i]
    BY <1>1, <1>2, <1>3
  <2> QED BY <2>1 DEF Ops
<1>6. ASSUME NEW i \in 1 .. Len(r) PROVE r[i].op \in Ops(q \o r)
  <2>1. i + Len(q) \in DOMAIN (q \o r) /\ (q \o r)[i + Len(q)] = r[i]
    BY <1>1, <1>2, <1>3
  <2> QED BY <2>1 DEF Ops
<1> QED BY <1>2, <1>4, <1>5, <1>6 DEF Ops

LEMMA DoesConcat ==
  ASSUME NEW q, NEW r, NEW O, NEW P, NEW lo \in Nat, NEW mid \in Nat, NEW mid2 \in Nat,
         NEW hi \in Nat,
         Does(q, O, lo, mid), Does(r, P, mid2, hi), lo <= mid, mid <= mid2, mid2 <= hi,
         "mode" \notin O \cap P
  PROVE  Does(q \o r, O \cup P, lo, hi)
<1>0. q \in Seq(Step) /\ r \in Seq(Step)
  BY DEF Does
<1>1. q \o r \in Seq(Step) /\ Len(q \o r) = Len(q) + Len(r) /\ Len(q) \in Nat /\ Len(r) \in Nat
  BY <1>0, ConcatProperties, LenProperties
<1>2. /\ DOMAIN q = 1 .. Len(q) /\ DOMAIN r = 1 .. Len(r)
      /\ DOMAIN (q \o r) = 1 .. Len(q) + Len(r)
  BY <1>0, <1>1, LenProperties
<1>3. \A i \in 1 .. Len(q) + Len(r) : (q \o r)[i] = IF i <= Len(q) THEN q[i] ELSE r[i - Len(q)]
  BY <1>0, ConcatProperties
<1>4. \A op : Rank(op) \in 0 .. 5
  BY DEF Rank
<1>5. InOrder(q \o r, lo, hi)
  <2>1. InOrder(q, lo, mid) /\ InOrder(r, mid2, hi)
    BY DEF Does
  <2>2. ASSUME NEW i \in DOMAIN (q \o r)
        PROVE  \/ i \in DOMAIN q /\ (q \o r)[i] = q[i]
               \/ i > Len(q) /\ i - Len(q) \in DOMAIN r /\ (q \o r)[i] = r[i - Len(q)]
    BY <1>1, <1>2, <1>3
  <2>3. ASSUME NEW i \in DOMAIN (q \o r)
        PROVE  Rank((q \o r)[i].op) = 0 \/ (lo <= Rank((q \o r)[i].op)
               /\ Rank((q \o r)[i].op) <= hi)
    BY <1>4, <2>1, <2>2 DEF InOrder
  <2>4. ASSUME NEW i \in DOMAIN (q \o r), NEW j \in DOMAIN (q \o r), i < j,
               Rank((q \o r)[i].op) # 0, Rank((q \o r)[j].op) # 0
        PROVE  Rank((q \o r)[i].op) <= Rank((q \o r)[j].op)
    <3>1. CASE i \in DOMAIN q /\ (q \o r)[i] = q[i]
      <4>1. CASE j \in DOMAIN q /\ (q \o r)[j] = q[j]
        BY <2>1, <2>4, <3>1, <4>1 DEF InOrder
      <4>2. CASE j > Len(q) /\ j - Len(q) \in DOMAIN r /\ (q \o r)[j] = r[j - Len(q)]
        <5>1. Rank(q[i].op) <= mid
          BY <1>4, <2>1, <2>4, <3>1 DEF InOrder
        <5>2. mid2 <= Rank(r[j - Len(q)].op)
          BY <1>4, <2>1, <2>4, <4>2 DEF InOrder
        <5>3. Rank(q[i].op) \in 0 .. 5 /\ Rank(r[j - Len(q)].op) \in 0 .. 5
          BY <1>4, Zenon
        <5>4. Rank(q[i].op) <= Rank(r[j - Len(q)].op)
          BY <5>1, <5>2, <5>3
        <5> QED BY <3>1, <4>2, <5>4
      <4> QED BY <2>2, <4>1, <4>2
    <3>2. CASE i > Len(q) /\ i - Len(q) \in DOMAIN r /\ (q \o r)[i] = r[i - Len(q)]
      <4>1. j > Len(q) /\ j - Len(q) \in DOMAIN r /\ (q \o r)[j] = r[j - Len(q)]
        BY <1>1, <1>2, <1>3, <2>4, <3>2
      <4>2. i - Len(q) < j - Len(q)
        BY <1>1, <1>2, <2>4
      <4> QED BY <2>1, <2>4, <3>2, <4>1, <4>2 DEF InOrder
    <3> QED BY <2>2, <3>1, <3>2
  <2> QED BY <2>3, <2>4 DEF InOrder
<1>6. SaveThenId(q \o r)
  <2>1. SaveThenId(q) /\ SaveThenId(r)
    BY DEF Does
  <2> SUFFICES ASSUME NEW i \in DOMAIN (q \o r), (q \o r)[i].op = "save"
               PROVE  i < Len(q \o r) /\ (q \o r)[i + 1].op = "snapshotId"
    BY DEF SaveThenId
  <2>2. CASE i <= Len(q)
    <3>1. i < Len(q) /\ q[i + 1].op = "snapshotId"
      BY <1>2, <1>3, <2>1, <2>2, <1>1 DEF SaveThenId
    <3> QED BY <1>1, <1>2, <1>3, <3>1
  <2>3. CASE i > Len(q)
    <3>1. i - Len(q) \in DOMAIN r /\ r[i - Len(q)].op = "save"
      BY <1>1, <1>2, <1>3, <2>3
    <3>2. i - Len(q) < Len(r) /\ r[i - Len(q) + 1].op = "snapshotId"
      BY <2>1, <3>1 DEF SaveThenId
    <3>3. i + 1 \in 1 .. Len(q) + Len(r) /\ i + 1 > Len(q) /\ i + 1 - Len(q) = i - Len(q) + 1
      BY <1>1, <1>2, <2>3, <3>2
    <3>4. PICK j \in 1 .. Len(q) + Len(r) : j = i + 1 /\ j > Len(q) /\ j - Len(q) = i - Len(q) + 1
      BY <3>3
    <3>5. (q \o r)[j].op = "snapshotId"
      <4>1. (q \o r)[j] = IF j <= Len(q) THEN q[j] ELSE r[j - Len(q)]
        BY <1>3, <3>4
      <4>2. ~(j <= Len(q)) /\ r[j - Len(q)].op = "snapshotId"
        BY <1>1, <3>2, <3>4
      <4> QED BY <4>1, <4>2, Zenon
    <3>6. i < Len(q \o r)
      BY <1>1, <1>2, <3>3
    <3> QED BY <3>4, <3>5, <3>6, Zenon
  <2> QED BY <1>1, <1>2, <2>2, <2>3
<1>7. Once(q \o r)
  <2>1. Once(q) /\ Once(r) /\ Ops(q) = O /\ Ops(r) = P
    BY DEF Does
  <2>2. ASSUME NEW i \in DOMAIN (q \o r), (q \o r)[i].op = "mode"
        PROVE  \/ i \in DOMAIN q /\ q[i].op = "mode" /\ "mode" \in O
               \/ /\ i > Len(q) /\ i - Len(q) \in DOMAIN r
                  /\ r[i - Len(q)].op = "mode" /\ "mode" \in P
    BY <1>1, <1>2, <1>3, <2>1, <2>2 DEF Ops
  <2>3. ASSUME NEW i \in DOMAIN (q \o r), (q \o r)[i].op = "mode",
               NEW j \in DOMAIN (q \o r), (q \o r)[j].op = "mode"
        PROVE  i = j
    <3>1. CASE "mode" \in O
      BY <2>1, <2>2, <2>3, <3>1 DEF Once
    <3>2. CASE "mode" \in P
      <4>1. i > Len(q) /\ i - Len(q) \in DOMAIN r /\ r[i - Len(q)].op = "mode"
        BY <2>2, <2>3, <3>2
      <4>2. j > Len(q) /\ j - Len(q) \in DOMAIN r /\ r[j - Len(q)].op = "mode"
        BY <2>2, <2>3, <3>2
      <4>3. i - Len(q) = j - Len(q)
        BY <2>1, <4>1, <4>2 DEF Once
      <4> QED BY <1>1, <1>2, <4>3
    <3> QED BY <2>2, <2>3, <3>1, <3>2
  <2> QED BY <2>3 DEF Once
<1> QED BY <1>0, <1>1, <1>5, <1>6, <1>7, OpsConcat DEF Does

\* Scripts given by their steps: of one rank and unranked ones.
LEMMA DoesOne ==
  ASSUME NEW a \in Step, NEW k \in Nat,
         Rank(a.op) \in {0, k},
         a.op # "save"
  PROVE  Does(<<a>>, {a.op}, k, k)
<1> DEFINE q == <<a>>
<1>1. q \in Seq(Step) /\ Len(q) = 1 /\ DOMAIN q = 1 .. 1
  OBVIOUS
<1>2. q[1] = a
  OBVIOUS
<1> HIDE DEF q
<1>3. \A i \in DOMAIN q : i = 1
  BY <1>1
<1>4. Ops(q) = {a.op}
  BY <1>1, <1>2 DEF Ops
<1>5. \A i \in DOMAIN q : Rank(q[i].op) \in {0, k}
  BY <1>2, <1>3
<1>6. InOrder(q, k, k)
  BY <1>1, <1>5 DEF InOrder
<1>7. SaveThenId(q)
  BY <1>1, <1>2, <1>3 DEF SaveThenId
<1>8. Once(q)
  BY <1>2, <1>3 DEF Once
<1>9. Does(q, {a.op}, k, k)
  BY <1>1, <1>4, <1>6, <1>7, <1>8 DEF Does
<1> QED BY <1>9 DEF q

LEMMA DoesTwo ==
  ASSUME NEW a \in Step, NEW b \in Step, NEW k \in Nat,
         Rank(a.op) \in {0, k},
         Rank(b.op) \in {0, k},
         a.op = "save" => b.op = "snapshotId",
         b.op # "save",
         a.op # "mode", b.op # "mode"
  PROVE  Does(<<a, b>>, {a.op, b.op}, k, k)
<1> DEFINE q == <<a, b>>
<1>1. q \in Seq(Step) /\ Len(q) = 2 /\ DOMAIN q = 1 .. 2
  OBVIOUS
<1>2. q[1] = a /\ q[2] = b
  OBVIOUS
<1> HIDE DEF q
<1>3. \A i \in DOMAIN q : i = 1 \/ i = 2
  BY <1>1
<1>4. Ops(q) = {a.op, b.op}
  BY <1>1, <1>2 DEF Ops
<1>5. \A i \in DOMAIN q : Rank(q[i].op) \in {0, k}
  BY <1>2, <1>3
<1>6. InOrder(q, k, k)
  BY <1>1, <1>5 DEF InOrder
<1>7. SaveThenId(q)
  BY <1>1, <1>2, <1>3 DEF SaveThenId
<1>8. Once(q)
  BY <1>2, <1>3 DEF Once
<1>9. Does(q, {a.op, b.op}, k, k)
  BY <1>1, <1>4, <1>6, <1>7, <1>8 DEF Does
<1> QED BY <1>9 DEF q

LEMMA DoesThree ==
  ASSUME NEW a \in Step, NEW b \in Step, NEW c \in Step, NEW k \in Nat,
         Rank(a.op) \in {0, k},
         Rank(b.op) \in {0, k},
         Rank(c.op) \in {0, k},
         a.op = "save" => b.op = "snapshotId",
         b.op = "save" => c.op = "snapshotId",
         c.op # "save",
         a.op # "mode", b.op # "mode", c.op # "mode"
  PROVE  Does(<<a, b, c>>, {a.op, b.op, c.op}, k, k)
<1> DEFINE q == <<a, b, c>>
<1>1. q \in Seq(Step) /\ Len(q) = 3 /\ DOMAIN q = 1 .. 3
  OBVIOUS
<1>2. q[1] = a /\ q[2] = b /\ q[3] = c
  OBVIOUS
<1> HIDE DEF q
<1>3. \A i \in DOMAIN q : i = 1 \/ i = 2 \/ i = 3
  BY <1>1
<1>4. Ops(q) = {a.op, b.op, c.op}
  BY <1>1, <1>2 DEF Ops
<1>5. \A i \in DOMAIN q : Rank(q[i].op) \in {0, k}
  BY <1>2, <1>3
<1>6. InOrder(q, k, k)
  BY <1>1, <1>5 DEF InOrder
<1>7. SaveThenId(q)
  BY <1>1, <1>2, <1>3 DEF SaveThenId
<1>8. Once(q)
  BY <1>2, <1>3 DEF Once
<1>9. Does(q, {a.op, b.op, c.op}, k, k)
  BY <1>1, <1>4, <1>6, <1>7, <1>8 DEF Does
<1> QED BY <1>9 DEF q

LEMMA DoesFour ==
  ASSUME NEW a \in Step, NEW b \in Step, NEW c \in Step, NEW d \in Step, NEW k \in Nat,
         Rank(a.op) \in {0, k},
         Rank(b.op) \in {0, k},
         Rank(c.op) \in {0, k},
         Rank(d.op) \in {0, k},
         a.op = "save" => b.op = "snapshotId",
         b.op = "save" => c.op = "snapshotId",
         c.op = "save" => d.op = "snapshotId",
         d.op # "save",
         a.op # "mode", b.op # "mode", c.op # "mode", d.op # "mode"
  PROVE  Does(<<a, b, c, d>>, {a.op, b.op, c.op, d.op}, k, k)
<1> DEFINE q == <<a, b, c, d>>
<1>1. q \in Seq(Step) /\ Len(q) = 4 /\ DOMAIN q = 1 .. 4
  OBVIOUS
<1>2. q[1] = a /\ q[2] = b /\ q[3] = c /\ q[4] = d
  OBVIOUS
<1> HIDE DEF q
<1>3. \A i \in DOMAIN q : i = 1 \/ i = 2 \/ i = 3 \/ i = 4
  BY <1>1
<1>4. Ops(q) = {a.op, b.op, c.op, d.op}
  BY <1>1, <1>2 DEF Ops
<1>5. \A i \in DOMAIN q : Rank(q[i].op) \in {0, k}
  BY <1>2, <1>3
<1>6. InOrder(q, k, k)
  BY <1>1, <1>5 DEF InOrder
<1>7. SaveThenId(q)
  BY <1>1, <1>2, <1>3 DEF SaveThenId
<1>8. Once(q)
  BY <1>2, <1>3 DEF Once
<1>9. Does(q, {a.op, b.op, c.op, d.op}, k, k)
  BY <1>1, <1>4, <1>6, <1>7, <1>8 DEF Does
<1> QED BY <1>9 DEF q

LEMMA DoesFive ==
  ASSUME NEW a \in Step, NEW b \in Step, NEW c \in Step, NEW d \in Step, NEW e \in Step,
         NEW k \in Nat,
         Rank(a.op) \in {0, k},
         Rank(b.op) \in {0, k},
         Rank(c.op) \in {0, k},
         Rank(d.op) \in {0, k},
         Rank(e.op) \in {0, k},
         a.op = "save" => b.op = "snapshotId",
         b.op = "save" => c.op = "snapshotId",
         c.op = "save" => d.op = "snapshotId",
         d.op = "save" => e.op = "snapshotId",
         e.op # "save",
         a.op # "mode", b.op # "mode", c.op # "mode", d.op # "mode", e.op # "mode"
  PROVE  Does(<<a, b, c, d, e>>, {a.op, b.op, c.op, d.op, e.op}, k, k)
<1> DEFINE q == <<a, b, c, d, e>>
<1>1. q \in Seq(Step) /\ Len(q) = 5 /\ DOMAIN q = 1 .. 5
  OBVIOUS
<1>2. q[1] = a /\ q[2] = b /\ q[3] = c /\ q[4] = d /\ q[5] = e
  OBVIOUS
<1> HIDE DEF q
<1>3. \A i \in DOMAIN q : i = 1 \/ i = 2 \/ i = 3 \/ i = 4 \/ i = 5
  BY <1>1
<1>4. Ops(q) = {a.op, b.op, c.op, d.op, e.op}
  BY <1>1, <1>2 DEF Ops
<1>5. \A i \in DOMAIN q : Rank(q[i].op) \in {0, k}
  BY <1>2, <1>3
<1>6. InOrder(q, k, k)
  BY <1>1, <1>5 DEF InOrder
<1>7. SaveThenId(q)
  BY <1>1, <1>2, <1>3 DEF SaveThenId
<1>8. Once(q)
  BY <1>2, <1>3 DEF Once
<1>9. Does(q, {a.op, b.op, c.op, d.op, e.op}, k, k)
  BY <1>1, <1>4, <1>6, <1>7, <1>8 DEF Does
<1> QED BY <1>9 DEF q

LEMMA DoesNone == \A k \in Nat : Does(<<>>, {}, k, k)
<1>1. <<>> \in Seq(Step) /\ DOMAIN <<>> = {}
  BY EmptySeq, LenProperties
<1> QED BY <1>1 DEF Does, Ops, InOrder, SaveThenId, Once

\* What the four ways of writing a step come to.
LEMMA OnIs ==
  ASSUME NEW op \in Operations, NEW bad \in SUBSET Outcomes, NEW thrown \in SUBSET Outcomes,
         op \in Deciding => "next" \notin bad /\ "next" \notin thrown
  PROVE  /\ On(op, bad, thrown) \in Step /\ On(op, bad, thrown).op = op
         /\ On(op, bad, thrown).bad = bad /\ On(op, bad, thrown).thrown = thrown
<1>1. /\ On(op, bad, thrown) \in Command /\ On(op, bad, thrown).op = op
      /\ On(op, bad, thrown).bad = bad /\ On(op, bad, thrown).thrown = thrown
  BY DEF On, Command
<1> QED BY <1>1 DEF Step

LEMMA DoIs ==
  ASSUME NEW op \in Operations
  PROVE  Do(op) \in Step /\ Do(op).op = op /\ Do(op).bad = {} /\ Do(op).thrown = {"error"}
<1>1. {} \in SUBSET Outcomes /\ {"error"} \in SUBSET Outcomes /\ "next" \notin {"error"}
      /\ "next" \notin {}
  BY DEF Outcomes
<1> QED BY <1>1, OnIs DEF Do

LEMMA OrIs ==
  ASSUME NEW op \in Operations, NEW bad \in Outcomes, op \in Deciding => bad # "next"
  PROVE  /\ Or(op, bad) \in Step /\ Or(op, bad).op = op
         /\ Or(op, bad).bad = {bad} /\ Or(op, bad).thrown = {"error"}
<1>1. PICK b \in SUBSET Outcomes, t \in SUBSET Outcomes : b = {bad} /\ t = {"error"}
  BY DEF Outcomes
<1>2. op \in Deciding => "next" \notin b /\ "next" \notin t
  BY <1>1
<1>3. /\ On(op, b, t) \in Step /\ On(op, b, t).op = op
      /\ On(op, b, t).bad = b /\ On(op, b, t).thrown = t
  BY <1>2, OnIs
<1> QED BY <1>1, <1>3 DEF Or

LEMMA TryIs ==
  ASSUME NEW op \in Operations, op \notin Deciding
  PROVE  /\ Try(op) \in Step /\ Try(op).op = op
         /\ Try(op).bad = {"next"} /\ Try(op).thrown = {"next"}
<1>1. {"next"} \in SUBSET Outcomes
  BY DEF Outcomes
<1> QED BY <1>1, OnIs DEF Try

LEMMA DoesConcat3 ==
  ASSUME NEW a, NEW A, NEW b, NEW B, NEW c, NEW C,
         NEW a1 \in Nat, NEW a2 \in Nat, NEW b1 \in Nat, NEW b2 \in Nat, NEW c1 \in Nat,
         NEW c2 \in Nat,
         Does(a, A, a1, a2), Does(b, B, b1, b2), Does(c, C, c1, c2),
         a1 <= a2, a2 <= b1, b1 <= b2, b2 <= c1, c1 <= c2,
         "mode" \notin A \cap B,
         "mode" \notin (A \cup B) \cap C
  PROVE  Does(a \o b \o c, A \cup B \cup C, a1, c2)
<1>1. Does(a \o b, A \cup B, a1, b2) /\ a1 <= b2
  BY DoesConcat
<1> QED BY <1>1, DoesConcat

LEMMA DoesConcat4 ==
  ASSUME NEW a, NEW A, NEW b, NEW B, NEW c, NEW C, NEW d, NEW D,
         NEW a1 \in Nat, NEW a2 \in Nat, NEW b1 \in Nat, NEW b2 \in Nat, NEW c1 \in Nat,
         NEW c2 \in Nat,
         NEW d1 \in Nat, NEW d2 \in Nat,
         Does(a, A, a1, a2), Does(b, B, b1, b2), Does(c, C, c1, c2), Does(d, D, d1, d2),
         a1 <= a2, a2 <= b1, b1 <= b2, b2 <= c1, c1 <= c2, c2 <= d1, d1 <= d2,
         "mode" \notin A \cap B,
         "mode" \notin (A \cup B) \cap C,
         "mode" \notin (A \cup B \cup C) \cap D
  PROVE  Does(a \o b \o c \o d, A \cup B \cup C \cup D, a1, d2)
<1>1. Does(a \o b, A \cup B, a1, b2) /\ a1 <= b2
  BY DoesConcat
<1>2. Does(a \o b \o c, A \cup B \cup C, a1, c2) /\ a1 <= c2
  BY <1>1, DoesConcat
<1> QED BY <1>2, DoesConcat

LEMMA DoesConcat5 ==
  ASSUME NEW a, NEW A, NEW b, NEW B, NEW c, NEW C, NEW d, NEW D, NEW e, NEW E,
         NEW a1 \in Nat, NEW a2 \in Nat, NEW b1 \in Nat, NEW b2 \in Nat, NEW c1 \in Nat,
         NEW c2 \in Nat,
         NEW d1 \in Nat, NEW d2 \in Nat, NEW e1 \in Nat, NEW e2 \in Nat,
         Does(a, A, a1, a2), Does(b, B, b1, b2), Does(c, C, c1, c2), Does(d, D, d1, d2), Does(e,
         E, e1, e2),
         a1 <= a2, a2 <= b1, b1 <= b2, b2 <= c1, c1 <= c2, c2 <= d1, d1 <= d2, d2 <= e1, e1 <= e2,
         "mode" \notin A \cap B,
         "mode" \notin (A \cup B) \cap C,
         "mode" \notin (A \cup B \cup C) \cap D,
         "mode" \notin (A \cup B \cup C \cup D) \cap E
  PROVE  Does(a \o b \o c \o d \o e, A \cup B \cup C \cup D \cup E, a1, e2)
<1>1. Does(a \o b, A \cup B, a1, b2) /\ a1 <= b2
  BY DoesConcat
<1>2. Does(a \o b \o c, A \cup B \cup C, a1, c2) /\ a1 <= c2
  BY <1>1, DoesConcat
<1>3. Does(a \o b \o c \o d, A \cup B \cup C \cup D, a1, d2) /\ a1 <= d2
  BY <1>2, DoesConcat
<1> QED BY <1>3, DoesConcat

-----------------------------------------------------------------------------
(* The fragments, then the drivers *)

LEMMA DoesHelperUp ==
  Does(HelperUp, {"spawn", "connect", "look"}, 2, 2)
<1>1. /\ Do("spawn") \in Step /\ Do("spawn").op = "spawn"
      /\ Do("connect") \in Step /\ Do("connect").op = "connect"
      /\ Do("look") \in Step /\ Do("look").op = "look"
  BY DoIs DEF Operations, Outcomes, Deciding
<1> QED BY <1>1, DoesThree DEF HelperUp, Rank

LEMMA DoesShutDown ==
  ASSUME NEW k \in Nat
  PROVE  Does(ShutDown, {"shutdown", "close"}, k, k)
<1>1. /\ Do("shutdown") \in Step /\ Do("shutdown").op = "shutdown"
      /\ Do("close") \in Step /\ Do("close").op = "close"
  BY DoIs DEF Operations, Outcomes, Deciding
<1> QED BY <1>1, DoesTwo DEF ShutDown, Rank

LEMMA DoesGates ==
  Does(Gates, {"gates"}, 5, 5)
<1>1. Or("gates", "fail") \in Step /\ Or("gates", "fail").op = "gates"
  BY OrIs DEF Operations, Outcomes, Deciding
<1> QED BY <1>1, DoesOne DEF Gates, Rank

LEMMA DoesProc001 ==
  Does(Proc001, {"baseline", "spawn", "connect", "look", "shutdown", "close", "count", "gates"},
    1, 5)
<1>1. Does(<<Do("baseline")>>, {"baseline"}, 1, 1)
  <2>1. Do("baseline") \in Step /\ Do("baseline").op = "baseline"
    BY DoIs DEF Operations, Outcomes, Deciding
  <2> QED BY <2>1, DoesOne DEF Rank
<1>2. Does(HelperUp, {"spawn", "connect", "look"}, 2, 2) BY DoesHelperUp
<1>3. Does(<<Do("look")>>, {"look"}, 2, 2)
  <2>1. Do("look") \in Step /\ Do("look").op = "look"
    BY DoIs DEF Operations, Outcomes, Deciding
  <2> QED BY <2>1, DoesOne DEF Rank
<1>4. Does(ShutDown, {"shutdown", "close"}, 2, 2) BY DoesShutDown
<1>5. Does(<<Do("count")>>, {"count"}, 4, 4)
  <2>1. Do("count") \in Step /\ Do("count").op = "count"
    BY DoIs DEF Operations, Outcomes, Deciding
  <2> QED BY <2>1, DoesOne DEF Rank
<1>6. Does(Gates, {"gates"}, 5, 5) BY DoesGates
<1>7. Does(<<Do("baseline")>> \o HelperUp \o <<Do("look")>> \o ShutDown, {"baseline", "spawn",
        "connect", "look", "shutdown", "close"}, 1, 2)
  BY <1>1, <1>2, <1>3, <1>4, DoesConcat4
<1> QED BY <1>7, <1>5, <1>6, DoesConcat3 DEF Proc001

LEMMA DoesProc007 ==
  Does(Proc007, {"spawn", "connect", "look", "shutdown", "close", "gates"}, 2, 5)
<1>1. Does(HelperUp, {"spawn", "connect", "look"}, 2, 2) BY DoesHelperUp
<1>2. Does(<<Do("look")>>, {"look"}, 2, 2)
  <2>1. Do("look") \in Step /\ Do("look").op = "look"
    BY DoIs DEF Operations, Outcomes, Deciding
  <2> QED BY <2>1, DoesOne DEF Rank
<1>3. Does(ShutDown, {"shutdown", "close"}, 2, 2) BY DoesShutDown
<1>4. Does(Gates, {"gates"}, 5, 5) BY DoesGates
<1> QED BY <1>1, <1>2, <1>3, <1>4, DoesConcat4 DEF Proc007

LEMMA DoesNoted ==
  ASSUME NEW k \in Nat
  PROVE  Does(Noted, {"call"}, k, k)
<1>1. On("call", {"next"}, {"error"}) \in Step /\ On("call", {"next"}, {"error"}).op = "call"
  BY OnIs DEF Operations, Outcomes, Deciding
<1> QED BY <1>1, DoesOne DEF Noted, Rank

LEMMA DoesCap003 ==
  Does(Cap003, {"spawn", "connect", "look", "call", "shutdown", "close", "gates"}, 2, 5)
<1>1. Does(HelperUp, {"spawn", "connect", "look"}, 2, 2) BY DoesHelperUp
<1>2. Does(Noted, {"call"}, 2, 2) BY DoesNoted
<1>3. Does(Noted, {"call"}, 2, 2) BY DoesNoted
<1>4. Does(<<On("look", {}, {"bail"})>>, {"look"}, 2, 2)
  <2>1. On("look", {}, {"bail"}) \in Step /\ On("look", {}, {"bail"}).op = "look"
    BY OnIs DEF Operations, Outcomes, Deciding
  <2> QED BY <2>1, DoesOne DEF Rank
<1>5. Does(Noted, {"call"}, 2, 2) BY DoesNoted
<1>6. Does(ShutDown, {"shutdown", "close"}, 2, 2) BY DoesShutDown
<1>7. Does(Gates, {"gates"}, 5, 5) BY DoesGates
<1>8. Does(HelperUp \o Noted \o Noted \o <<On("look", {}, {"bail"})>>, {"spawn", "connect",
        "look", "call"}, 2, 2)
  BY <1>1, <1>2, <1>3, <1>4, DoesConcat4
<1> QED BY <1>8, <1>5, <1>6, <1>7, DoesConcat4 DEF Cap003

LEMMA DoesProc002 ==
  Does(Proc002, {"baseline", "spawn", "connect", "look", "call", "shutdown", "close", "count",
    "gates"}, 1, 5)
<1>1. Does(<<Do("baseline")>>, {"baseline"}, 1, 1)
  <2>1. Do("baseline") \in Step /\ Do("baseline").op = "baseline"
    BY DoIs DEF Operations, Outcomes, Deciding
  <2> QED BY <2>1, DoesOne DEF Rank
<1>2. Does(HelperUp, {"spawn", "connect", "look"}, 2, 2) BY DoesHelperUp
<1>3. Does(Noted, {"call"}, 2, 2) BY DoesNoted
<1>4. Does(Noted, {"call"}, 2, 2) BY DoesNoted
<1>5. Does(<<Do("look"), Or("call", "bail")>>, {"look", "call"}, 2, 2)
  <2>1. /\ Do("look") \in Step /\ Do("look").op = "look"
        /\ Or("call", "bail") \in Step /\ Or("call", "bail").op = "call"
    BY DoIs, OrIs DEF Operations, Outcomes, Deciding
  <2> QED BY <2>1, DoesTwo DEF Rank
<1>6. Does(ShutDown, {"shutdown", "close"}, 2, 2) BY DoesShutDown
<1>7. Does(<<Do("count")>>, {"count"}, 4, 4)
  <2>1. Do("count") \in Step /\ Do("count").op = "count"
    BY DoIs DEF Operations, Outcomes, Deciding
  <2> QED BY <2>1, DoesOne DEF Rank
<1>8. Does(Gates, {"gates"}, 5, 5) BY DoesGates
<1>9. Does(<<Do("baseline")>> \o HelperUp \o Noted \o Noted, {"baseline", "spawn", "connect",
        "look", "call"}, 1, 2)
  BY <1>1, <1>2, <1>3, <1>4, DoesConcat4
<1> QED BY <1>9, <1>5, <1>6, <1>7, <1>8, DoesConcat5 DEF Proc002

LEMMA DoesProc003 ==
  Does(Proc003, {"baseline", "spawn", "connect", "look", "call", "close", "sigterm", "exited",
    "count", "gates"}, 1, 5)
<1>1. Does(<<Do("baseline")>>, {"baseline"}, 1, 1)
  <2>1. Do("baseline") \in Step /\ Do("baseline").op = "baseline"
    BY DoIs DEF Operations, Outcomes, Deciding
  <2> QED BY <2>1, DoesOne DEF Rank
<1>2. Does(HelperUp, {"spawn", "connect", "look"}, 2, 2) BY DoesHelperUp
<1>3. Does(Noted, {"call"}, 2, 2) BY DoesNoted
<1>4. Does(Noted, {"call"}, 2, 2) BY DoesNoted
<1>5. Does(<<Do("look"), Do("close"), Do("sigterm"), Or("exited", "error"), Do("count")>>,
        {"look", "close", "sigterm", "exited", "count"}, 4, 4)
  <2>1. /\ Do("look") \in Step /\ Do("look").op = "look"
        /\ Do("close") \in Step /\ Do("close").op = "close"
        /\ Do("sigterm") \in Step /\ Do("sigterm").op = "sigterm"
        /\ Or("exited", "error") \in Step /\ Or("exited", "error").op = "exited"
        /\ Do("count") \in Step /\ Do("count").op = "count"
    BY DoIs, OrIs DEF Operations, Outcomes, Deciding
  <2> QED BY <2>1, DoesFive DEF Rank
<1>6. Does(Gates, {"gates"}, 5, 5) BY DoesGates
<1>7. Does(<<Do("baseline")>> \o HelperUp \o Noted \o Noted, {"baseline", "spawn", "connect",
        "look", "call"}, 1, 2)
  BY <1>1, <1>2, <1>3, <1>4, DoesConcat4
<1> QED BY <1>7, <1>5, <1>6, DoesConcat3 DEF Proc003

LEMMA DoesEnvironment ==
  ASSUME NEW k \in Nat
  PROVE  Does(Environment, {"look"}, k, k)
<1>1. Or("look", "skip") \in Step /\ Or("look", "skip").op = "look"
  BY OrIs DEF Operations, Outcomes, Deciding
<1> QED BY <1>1, DoesOne DEF Environment, Rank

LEMMA DoesMotion60 ==
  ASSUME NEW k \in Nat
  PROVE  Does(Motion60, {"load", "loadRuns"}, k, k)
<1>1. /\ Or("load", "skip") \in Step /\ Or("load", "skip").op = "load"
      /\ Or("loadRuns", "fail") \in Step /\ Or("loadRuns", "fail").op = "loadRuns"
  BY OrIs DEF Operations, Outcomes, Deciding
<1> QED BY <1>1, DoesTwo DEF Motion60, Rank

LEMMA DoesCap004Start ==
  Does(Cap004Start, {"look", "load", "loadRuns", "mode", "spawn", "connect"}, 1, 2)
<1>1. Does(Environment, {"look"}, 1, 1) BY DoesEnvironment
<1>2. Does(Motion60, {"load", "loadRuns"}, 1, 1) BY DoesMotion60
<1>3. Does(<<Or("mode", "fail")>>, {"mode"}, 1, 1)
  <2>1. Or("mode", "fail") \in Step /\ Or("mode", "fail").op = "mode"
    BY OrIs DEF Operations, Outcomes, Deciding
  <2> QED BY <2>1, DoesOne DEF Rank
<1>4. Does(HelperUp, {"spawn", "connect", "look"}, 2, 2) BY DoesHelperUp
<1> QED BY <1>1, <1>2, <1>3, <1>4, DoesConcat4 DEF Cap004Start

LEMMA DoesRequestSession ==
  ASSUME NEW bad \in SUBSET Outcomes, NEW k \in Nat
  PROVE  Does(RequestSession(bad), {"call"}, k, k)
<1>1. On("call", bad, {"skip", "error"}) \in Step /\ On("call", bad, {"skip",
        "error"}).op = "call"
  BY OnIs DEF Operations, Outcomes, Deciding
<1> QED BY <1>1, DoesOne DEF RequestSession, Rank

LEMMA DoesStream ==
  ASSUME NEW bad \in Outcomes, NEW k \in Nat
  PROVE  Does(Stream(bad), {"call", "look"}, k, k)
<1>1. /\ Or("call", bad) \in Step /\ Or("call", bad).op = "call"
      /\ Do("look") \in Step /\ Do("look").op = "look"
  BY OrIs, DoIs DEF Operations, Outcomes, Deciding
<1> QED BY <1>1, DoesTwo DEF Stream, Rank

LEMMA DoesCap004Session ==
  Does(Cap004Session, {"call", "remode", "look"}, 3, 3)
<1>1. Does(RequestSession({"fail"}), {"call"}, 3, 3) BY DoesRequestSession DEF Outcomes
<1>2. Does(<<Or("remode", "fail")>>, {"remode"}, 3, 3)
  <2>1. Or("remode", "fail") \in Step /\ Or("remode", "fail").op = "remode"
    BY OrIs DEF Operations, Outcomes, Deciding
  <2> QED BY <2>1, DoesOne DEF Rank
<1>3. Does(Stream("fail"), {"call", "look"}, 3, 3) BY DoesStream DEF Outcomes
<1> QED BY <1>1, <1>2, <1>3, DoesConcat3 DEF Cap004Session

LEMMA DoesCap004Format ==
  ASSUME NEW k \in Nat
  PROVE  Does(Cap004Format, {"look"}, k, k)
<1>1. Or("look", "bail") \in Step /\ Or("look", "bail").op = "look"
  BY OrIs DEF Operations, Outcomes, Deciding
<1> QED BY <1>1, DoesOne DEF Cap004Format, Rank

LEMMA DoesCap004Watch ==
  ASSUME NEW k \in Nat
  PROVE  Does(Cap004Watch, {"look", "call", "shutdown", "close"}, k, k)
<1>1. Does(<<Or("look", "fail"), Try("call")>>, {"look", "call"}, k, k)
  <2>1. /\ Or("look", "fail") \in Step /\ Or("look", "fail").op = "look"
        /\ Try("call") \in Step /\ Try("call").op = "call"
    BY OrIs, TryIs DEF Operations, Outcomes, Deciding
  <2> QED BY <2>1, DoesTwo DEF Rank
<1>2. Does(ShutDown, {"shutdown", "close"}, k, k) BY DoesShutDown
<1> QED BY <1>1, <1>2, DoesConcat DEF Cap004Watch

LEMMA DoesCap004 ==
  Does(Cap004, {"look", "load", "loadRuns", "mode", "spawn", "connect", "call", "remode",
    "shutdown", "close", "gates"}, 1, 5)
<1>1. Does(Cap004Start, {"look", "load", "loadRuns", "mode", "spawn", "connect"}, 1, 2)
  BY DoesCap004Start
<1>2. Does(Cap004Session, {"call", "remode", "look"}, 3, 3) BY DoesCap004Session
<1>3. Does(Cap004Format, {"look"}, 3, 3) BY DoesCap004Format
<1>4. Does(Cap004Watch, {"look", "call", "shutdown", "close"}, 3, 3) BY DoesCap004Watch
<1>5. Does(Gates, {"gates"}, 5, 5) BY DoesGates
<1> QED BY <1>1, <1>2, <1>3, <1>4, <1>5, DoesConcat5 DEF Cap004

LEMMA DoesEnc001Start ==
  Does(Enc001Start, {"look", "load", "loadRuns", "spawn", "connect", "call"}, 2, 2)
<1>1. Does(Environment, {"look"}, 2, 2) BY DoesEnvironment
<1>2. Does(Motion60, {"load", "loadRuns"}, 2, 2) BY DoesMotion60
<1>3. Does(HelperUp, {"spawn", "connect", "look"}, 2, 2) BY DoesHelperUp
<1>4. Does(RequestSession({"fail"}), {"call"}, 2, 2) BY DoesRequestSession DEF Outcomes
<1>5. Does(Stream("error"), {"call", "look"}, 2, 2) BY DoesStream DEF Outcomes
<1> QED BY <1>1, <1>2, <1>3, <1>4, <1>5, DoesConcat5 DEF Enc001Start

LEMMA DoesRealEncoder ==
  ASSUME NEW k \in Nat
  PROVE  Does(RealEncoder, {"look"}, k, k)
<1>1. Or("look", "skip") \in Step /\ Or("look", "skip").op = "look"
  BY OrIs DEF Operations, Outcomes, Deciding
<1> QED BY <1>1, DoesOne DEF RealEncoder, Rank

LEMMA DoesEnc001 ==
  Does(Enc001, {"look", "load", "loadRuns", "spawn", "connect", "call", "gates"}, 2, 5)
<1>1. Does(Enc001Start, {"look", "load", "loadRuns", "spawn", "connect", "call"}, 2, 2)
  BY DoesEnc001Start
<1>2. Does(RealEncoder, {"look"}, 2, 2) BY DoesRealEncoder
<1>3. Does(Noted, {"call"}, 2, 2) BY DoesNoted
<1>4. Does(Gates, {"gates"}, 5, 5) BY DoesGates
<1> QED BY <1>1, <1>2, <1>3, <1>4, DoesConcat4 DEF Enc001

LEMMA DoesSeg001Start ==
  Does(Seg001Start, {"look", "load", "loadRuns", "spawn", "connect", "call"}, 2, 2)
<1>1. Does(Environment, {"look"}, 2, 2) BY DoesEnvironment
<1>2. Does(Motion60, {"load", "loadRuns"}, 2, 2) BY DoesMotion60
<1>3. Does(HelperUp, {"spawn", "connect", "look"}, 2, 2) BY DoesHelperUp
<1>4. Does(RequestSession({"fail"}), {"call"}, 2, 2) BY DoesRequestSession DEF Outcomes
<1>5. Does(Stream("error"), {"call", "look"}, 2, 2) BY DoesStream DEF Outcomes
<1> QED BY <1>1, <1>2, <1>3, <1>4, <1>5, DoesConcat5 DEF Seg001Start

LEMMA DoesSeg001 ==
  Does(Seg001, {"look", "load", "loadRuns", "spawn", "connect", "call", "gates"}, 2, 5)
<1>1. Does(Seg001Start, {"look", "load", "loadRuns", "spawn", "connect", "call"}, 2, 2)
  BY DoesSeg001Start
<1>2. Does(RealEncoder, {"look"}, 2, 2) BY DoesRealEncoder
<1>3. Does(<<Try("look")>>, {"look"}, 2, 2)
  <2>1. Try("look") \in Step /\ Try("look").op = "look"
    BY TryIs DEF Operations, Outcomes, Deciding
  <2> QED BY <2>1, DoesOne DEF Rank
<1>4. Does(Noted, {"call"}, 2, 2) BY DoesNoted
<1>5. Does(Gates, {"gates"}, 5, 5) BY DoesGates
<1> QED BY <1>1, <1>2, <1>3, <1>4, <1>5, DoesConcat5 DEF Seg001

LEMMA DoesSeg003Start ==
  Does(Seg003Start, {"look", "load", "loadRuns", "spawn", "connect", "call"}, 2, 2)
<1>1. Does(Environment, {"look"}, 2, 2) BY DoesEnvironment
<1>2. Does(Motion60, {"load", "loadRuns"}, 2, 2) BY DoesMotion60
<1>3. Does(HelperUp, {"spawn", "connect", "look"}, 2, 2) BY DoesHelperUp
<1>4. Does(RequestSession({"fail"}), {"call"}, 2, 2) BY DoesRequestSession DEF Outcomes
<1>5. Does(Stream("error"), {"call", "look"}, 2, 2) BY DoesStream DEF Outcomes
<1> QED BY <1>1, <1>2, <1>3, <1>4, <1>5, DoesConcat5 DEF Seg003Start

LEMMA DoesSeg003Save ==
  ASSUME NEW k \in Nat
  PROVE  Does(Seg003Save, {"look", "save", "snapshotId", "releaseOnce"}, k, k)
<1>1. Does(RealEncoder, {"look"}, k, k) BY DoesRealEncoder
<1>2. Does(<<Or("save", "next"), Or("snapshotId", "next"), Or("releaseOnce", "next")>>, {"save",
        "snapshotId", "releaseOnce"}, k, k)
  <2>1. /\ Or("save", "next") \in Step /\ Or("save", "next").op = "save"
        /\ Or("snapshotId", "next") \in Step /\ Or("snapshotId", "next").op = "snapshotId"
        /\ Or("releaseOnce", "next") \in Step /\ Or("releaseOnce", "next").op = "releaseOnce"
    BY OrIs DEF Operations, Outcomes, Deciding
  <2> QED BY <2>1, DoesThree DEF Rank
<1> QED BY <1>1, <1>2, DoesConcat DEF Seg003Save

LEMMA DoesSeg003 ==
  Does(Seg003, {"look", "load", "loadRuns", "spawn", "connect", "call", "save", "snapshotId",
    "releaseOnce", "gates"}, 2, 5)
<1>1. Does(Seg003Start, {"look", "load", "loadRuns", "spawn", "connect", "call"}, 2, 2)
  BY DoesSeg003Start
<1>2. Does(Seg003Save, {"look", "save", "snapshotId", "releaseOnce"}, 2, 2) BY DoesSeg003Save
<1>3. Does(Noted, {"call"}, 2, 2) BY DoesNoted
<1>4. Does(Noted, {"call"}, 2, 2) BY DoesNoted
<1>5. Does(Gates, {"gates"}, 5, 5) BY DoesGates
<1> QED BY <1>1, <1>2, <1>3, <1>4, <1>5, DoesConcat5 DEF Seg003

LEMMA DoesExp001Start ==
  Does(Exp001Start, {"baseline", "look", "load", "loadRuns", "spawn", "connect"}, 1, 2)
<1>1. Does(<<Do("baseline")>>, {"baseline"}, 1, 1)
  <2>1. Do("baseline") \in Step /\ Do("baseline").op = "baseline"
    BY DoIs DEF Operations, Outcomes, Deciding
  <2> QED BY <2>1, DoesOne DEF Rank
<1>2. Does(Environment, {"look"}, 1, 1) BY DoesEnvironment
<1>3. Does(Motion60, {"load", "loadRuns"}, 1, 1) BY DoesMotion60
<1>4. Does(HelperUp, {"spawn", "connect", "look"}, 2, 2) BY DoesHelperUp
<1> QED BY <1>1, <1>2, <1>3, <1>4, DoesConcat4 DEF Exp001Start

LEMMA DoesExp001Session ==
  ASSUME NEW k \in Nat
  PROVE  Does(Exp001Session, {"call", "look"}, k, k)
<1>1. Does(RequestSession({"fail"}), {"call"}, k, k) BY DoesRequestSession DEF Outcomes
<1>2. Does(Stream("error"), {"call", "look"}, k, k) BY DoesStream DEF Outcomes
<1>3. Does(RealEncoder, {"look"}, k, k) BY DoesRealEncoder
<1> QED BY <1>1, <1>2, <1>3, DoesConcat3 DEF Exp001Session

LEMMA DoesSaved ==
  ASSUME NEW bad \in Outcomes, NEW k \in Nat
  PROVE  Does(Saved(bad), {"save", "snapshotId"}, k, k)
<1>1. /\ Or("save", bad) \in Step /\ Or("save", bad).op = "save"
      /\ Or("snapshotId", "fail") \in Step /\ Or("snapshotId", "fail").op = "snapshotId"
  BY OrIs DEF Operations, Outcomes, Deciding
<1> QED BY <1>1, DoesTwo DEF Saved, Rank

LEMMA DoesExport ==
  Does(Export, {"mkdir", "export"}, 3, 3)
<1>1. /\ Do("mkdir") \in Step /\ Do("mkdir").op = "mkdir"
      /\ Or("export", "fail") \in Step /\ Or("export", "fail").op = "export"
  BY DoIs, OrIs DEF Operations, Outcomes, Deciding
<1> QED BY <1>1, DoesTwo DEF Export, Rank

LEMMA DoesExp001Export ==
  Does(Exp001Export, {"save", "snapshotId", "mkdir", "export"}, 3, 3)
<1>1. Does(Saved("fail"), {"save", "snapshotId"}, 3, 3) BY DoesSaved DEF Outcomes
<1>2. Does(Export, {"mkdir", "export"}, 3, 3) BY DoesExport
<1> QED BY <1>1, <1>2, DoesConcat DEF Exp001Export

LEMMA DoesReleased ==
  ASSUME NEW k \in Nat
  PROVE  Does(Released, {"release"}, k, k)
<1>1. Try("release") \in Step /\ Try("release").op = "release"
  BY TryIs DEF Operations, Outcomes, Deciding
<1> QED BY <1>1, DoesTwo DEF Released, Rank

LEMMA DoesExportEnds ==
  ASSUME NEW k \in Nat
  PROVE  Does(ExportEnds, {"terminal", "release"}, k, k)
<1>1. Does(<<Do("terminal")>>, {"terminal"}, k, k)
  <2>1. Do("terminal") \in Step /\ Do("terminal").op = "terminal"
    BY DoIs DEF Operations, Outcomes, Deciding
  <2> QED BY <2>1, DoesOne DEF Rank
<1>2. Does(Released, {"release"}, k, k) BY DoesReleased
<1> QED BY <1>1, <1>2, DoesConcat DEF ExportEnds

LEMMA DoesExp001End ==
  Does(Exp001End, {"terminal", "release", "call", "shutdown", "count"}, 4, 4)
<1>1. Does(ExportEnds, {"terminal", "release"}, 4, 4) BY DoesExportEnds
<1>2. Does(<<Try("call"), Do("shutdown"), Do("count")>>, {"call", "shutdown", "count"}, 4, 4)
  <2>1. /\ Try("call") \in Step /\ Try("call").op = "call"
        /\ Do("shutdown") \in Step /\ Do("shutdown").op = "shutdown"
        /\ Do("count") \in Step /\ Do("count").op = "count"
    BY TryIs, DoIs DEF Operations, Outcomes, Deciding
  <2> QED BY <2>1, DoesThree DEF Rank
<1> QED BY <1>1, <1>2, DoesConcat DEF Exp001End

LEMMA DoesExp001 ==
  Does(Exp001, {"baseline", "look", "load", "loadRuns", "spawn", "connect", "call", "save",
    "snapshotId", "mkdir", "export", "terminal", "release", "shutdown", "count", "gates"}, 1, 5)
<1>1. Does(Exp001Start, {"baseline", "look", "load", "loadRuns", "spawn", "connect"}, 1, 2)
  BY DoesExp001Start
<1>2. Does(Exp001Session, {"call", "look"}, 2, 2) BY DoesExp001Session
<1>3. Does(Exp001Export, {"save", "snapshotId", "mkdir", "export"}, 3, 3) BY DoesExp001Export
<1>4. Does(Exp001End, {"terminal", "release", "call", "shutdown", "count"}, 4, 4) BY DoesExp001End
<1>5. Does(Gates, {"gates"}, 5, 5) BY DoesGates
<1> QED BY <1>1, <1>2, <1>3, <1>4, <1>5, DoesConcat5 DEF Exp001

LEMMA DoesProduceStart ==
  Does(ProduceStart, {"look", "load", "loadRuns", "mode", "spawn", "connect"}, 1, 2)
<1>1. Does(<<Do("look")>>, {"look"}, 1, 1)
  <2>1. Do("look") \in Step /\ Do("look").op = "look"
    BY DoIs DEF Operations, Outcomes, Deciding
  <2> QED BY <2>1, DoesOne DEF Rank
<1>2. Does(Environment, {"look"}, 1, 1) BY DoesEnvironment
<1>3. Does(Motion60, {"load", "loadRuns"}, 1, 1) BY DoesMotion60
<1>4. Does(<<Or("mode", "fail")>>, {"mode"}, 1, 1)
  <2>1. Or("mode", "fail") \in Step /\ Or("mode", "fail").op = "mode"
    BY OrIs DEF Operations, Outcomes, Deciding
  <2> QED BY <2>1, DoesOne DEF Rank
<1>5. Does(HelperUp, {"spawn", "connect", "look"}, 2, 2) BY DoesHelperUp
<1> QED BY <1>1, <1>2, <1>3, <1>4, <1>5, DoesConcat5 DEF ProduceStart

LEMMA DoesProduceSession ==
  Does(ProduceSession, {"call", "remode", "look"}, 3, 3)
<1>1. Does(RequestSession({"fail"}), {"call"}, 3, 3) BY DoesRequestSession DEF Outcomes
<1>2. Does(<<Or("remode", "fail")>>, {"remode"}, 3, 3)
  <2>1. Or("remode", "fail") \in Step /\ Or("remode", "fail").op = "remode"
    BY OrIs DEF Operations, Outcomes, Deciding
  <2> QED BY <2>1, DoesOne DEF Rank
<1>3. Does(Stream("error"), {"call", "look"}, 3, 3) BY DoesStream DEF Outcomes
<1>4. Does(RealEncoder, {"look"}, 3, 3) BY DoesRealEncoder
<1> QED BY <1>1, <1>2, <1>3, <1>4, DoesConcat4 DEF ProduceSession

LEMMA DoesProduceExport ==
  Does(ProduceExport, {"save", "snapshotId", "mkdir", "export"}, 3, 3)
<1>1. Does(Saved("fail"), {"save", "snapshotId"}, 3, 3) BY DoesSaved DEF Outcomes
<1>2. Does(Export, {"mkdir", "export"}, 3, 3) BY DoesExport
<1> QED BY <1>1, <1>2, DoesConcat DEF ProduceExport

LEMMA DoesProduceEnd ==
  Does(ProduceEnd, {"terminal", "release", "call", "shutdown", "look", "hand"}, 5, 5)
<1>1. Does(ExportEnds, {"terminal", "release"}, 5, 5) BY DoesExportEnds
<1>2. Does(<<Try("call"), Do("shutdown"), Or("look", "fail"), Do("hand")>>, {"call", "shutdown",
        "look", "hand"}, 5, 5)
  <2>1. /\ Try("call") \in Step /\ Try("call").op = "call"
        /\ Do("shutdown") \in Step /\ Do("shutdown").op = "shutdown"
        /\ Or("look", "fail") \in Step /\ Or("look", "fail").op = "look"
        /\ Do("hand") \in Step /\ Do("hand").op = "hand"
    BY TryIs, DoIs, OrIs DEF Operations, Outcomes, Deciding
  <2> QED BY <2>1, DoesFour DEF Rank
<1> QED BY <1>1, <1>2, DoesConcat DEF ProduceEnd

LEMMA DoesProduce ==
  Does(Produce, {"look", "load", "loadRuns", "mode", "spawn", "connect", "call", "remode",
    "save", "snapshotId", "mkdir", "export", "terminal", "release", "shutdown", "hand"}, 1, 5)
<1>1. Does(ProduceStart, {"look", "load", "loadRuns", "mode", "spawn", "connect"}, 1, 2)
  BY DoesProduceStart
<1>2. Does(ProduceSession, {"call", "remode", "look"}, 3, 3) BY DoesProduceSession
<1>3. Does(ProduceExport, {"save", "snapshotId", "mkdir", "export"}, 3, 3) BY DoesProduceExport
<1>4. Does(ProduceEnd, {"terminal", "release", "call", "shutdown", "look", "hand"}, 5, 5)
  BY DoesProduceEnd
<1> QED BY <1>1, <1>2, <1>3, <1>4, DoesConcat4 DEF Produce

LEMMA DoesReg001Checks ==
  ASSUME NEW k \in Nat
  PROVE  Does(Reg001Checks, {"look"}, k, k)
<1>1. Do("look") \in Step /\ Do("look").op = "look"
  BY DoIs DEF Operations, Outcomes, Deciding
<1> QED BY <1>1, DoesOne DEF Reg001Checks, Rank

LEMMA DoesExp012Start ==
  Does(Exp012Start, {"look", "mode", "load", "loadRuns", "spawn", "connect"}, 1, 2)
<1>1. Does(Environment, {"look"}, 1, 1) BY DoesEnvironment
<1>2. Does(<<Or("mode", "fail")>>, {"mode"}, 1, 1)
  <2>1. Or("mode", "fail") \in Step /\ Or("mode", "fail").op = "mode"
    BY OrIs DEF Operations, Outcomes, Deciding
  <2> QED BY <2>1, DoesOne DEF Rank
<1>3. Does(Motion60, {"load", "loadRuns"}, 1, 1) BY DoesMotion60
<1>4. Does(HelperUp, {"spawn", "connect", "look"}, 2, 2) BY DoesHelperUp
<1> QED BY <1>1, <1>2, <1>3, <1>4, DoesConcat4 DEF Exp012Start

LEMMA DoesExp012Session ==
  Does(Exp012Session, {"call", "remode", "look"}, 3, 3)
<1>1. Does(RequestSession({"fail"}), {"call"}, 3, 3) BY DoesRequestSession DEF Outcomes
<1>2. Does(<<Or("remode", "fail")>>, {"remode"}, 3, 3)
  <2>1. Or("remode", "fail") \in Step /\ Or("remode", "fail").op = "remode"
    BY OrIs DEF Operations, Outcomes, Deciding
  <2> QED BY <2>1, DoesOne DEF Rank
<1>3. Does(Stream("error"), {"call", "look"}, 3, 3) BY DoesStream DEF Outcomes
<1>4. Does(RealEncoder, {"look"}, 3, 3) BY DoesRealEncoder
<1> QED BY <1>1, <1>2, <1>3, <1>4, DoesConcat4 DEF Exp012Session

LEMMA DoesExp012Export ==
  Does(Exp012Export, {"save", "snapshotId", "mkdir", "export", "look"}, 3, 3)
<1>1. Does(Saved("fail"), {"save", "snapshotId"}, 3, 3) BY DoesSaved DEF Outcomes
<1>2. Does(Export, {"mkdir", "export"}, 3, 3) BY DoesExport
<1>3. Does(<<Or("look", "fail")>>, {"look"}, 3, 3)
  <2>1. Or("look", "fail") \in Step /\ Or("look", "fail").op = "look"
    BY OrIs DEF Operations, Outcomes, Deciding
  <2> QED BY <2>1, DoesOne DEF Rank
<1> QED BY <1>1, <1>2, <1>3, DoesConcat3 DEF Exp012Export

LEMMA DoesExp012Watch ==
  ASSUME NEW k \in Nat
  PROVE  Does(Exp012Watch, {"terminal"}, k, k)
<1>1. Do("terminal") \in Step /\ Do("terminal").op = "terminal"
  BY DoIs DEF Operations, Outcomes, Deciding
<1> QED BY <1>1, DoesOne DEF Exp012Watch, Rank

LEMMA DoesExp012End ==
  ASSUME NEW k \in Nat
  PROVE  Does(Exp012End, {"terminal", "release", "call", "shutdown", "close"}, k, k)
<1>1. Does(Exp012Watch, {"terminal"}, k, k) BY DoesExp012Watch
<1>2. Does(Released, {"release"}, k, k) BY DoesReleased
<1>3. Does(<<Try("call")>>, {"call"}, k, k)
  <2>1. Try("call") \in Step /\ Try("call").op = "call"
    BY TryIs DEF Operations, Outcomes, Deciding
  <2> QED BY <2>1, DoesOne DEF Rank
<1>4. Does(ShutDown, {"shutdown", "close"}, k, k) BY DoesShutDown
<1> QED BY <1>1, <1>2, <1>3, <1>4, DoesConcat4 DEF Exp012End

LEMMA DoesExp012 ==
  Does(Exp012, {"look", "mode", "load", "loadRuns", "spawn", "connect", "call", "remode", "save",
    "snapshotId", "mkdir", "export", "terminal", "release", "shutdown", "close", "gates"}, 1, 5)
<1>1. Does(Exp012Start, {"look", "mode", "load", "loadRuns", "spawn", "connect"}, 1, 2)
  BY DoesExp012Start
<1>2. Does(Exp012Session, {"call", "remode", "look"}, 3, 3) BY DoesExp012Session
<1>3. Does(Exp012Export, {"save", "snapshotId", "mkdir", "export", "look"}, 3, 3)
  BY DoesExp012Export
<1>4. Does(Exp012End, {"terminal", "release", "call", "shutdown", "close"}, 3, 3) BY DoesExp012End
<1>5. Does(Gates, {"gates"}, 5, 5) BY DoesGates
<1> QED BY <1>1, <1>2, <1>3, <1>4, <1>5, DoesConcat5 DEF Exp012

LEMMA DoesUi003Start ==
  Does(Ui003Start, {"look", "load", "loadRuns", "spawn", "connect"}, 2, 2)
<1>1. Does(<<Do("look")>>, {"look"}, 2, 2)
  <2>1. Do("look") \in Step /\ Do("look").op = "look"
    BY DoIs DEF Operations, Outcomes, Deciding
  <2> QED BY <2>1, DoesOne DEF Rank
<1>2. Does(Environment, {"look"}, 2, 2) BY DoesEnvironment
<1>3. Does(Motion60, {"load", "loadRuns"}, 2, 2) BY DoesMotion60
<1>4. Does(HelperUp, {"spawn", "connect", "look"}, 2, 2) BY DoesHelperUp
<1> QED BY <1>1, <1>2, <1>3, <1>4, DoesConcat4 DEF Ui003Start

LEMMA DoesUi003Session ==
  ASSUME NEW k \in Nat
  PROVE  Does(Ui003Session, {"call", "look"}, k, k)
<1>1. Does(RequestSession({"skip", "fail"}), {"call"}, k, k) BY DoesRequestSession DEF Outcomes
<1>2. Does(Stream("error"), {"call", "look"}, k, k) BY DoesStream DEF Outcomes
<1>3. Does(RealEncoder, {"look"}, k, k) BY DoesRealEncoder
<1> QED BY <1>1, <1>2, <1>3, DoesConcat3 DEF Ui003Session

LEMMA DoesUi003Export ==
  Does(Ui003Export, {"save", "snapshotId", "mkdir", "export", "look"}, 3, 3)
<1>1. Does(Saved("fail"), {"save", "snapshotId"}, 3, 3) BY DoesSaved DEF Outcomes
<1>2. Does(Export, {"mkdir", "export"}, 3, 3) BY DoesExport
<1>3. Does(<<Or("look", "fail")>>, {"look"}, 3, 3)
  <2>1. Or("look", "fail") \in Step /\ Or("look", "fail").op = "look"
    BY OrIs DEF Operations, Outcomes, Deciding
  <2> QED BY <2>1, DoesOne DEF Rank
<1> QED BY <1>1, <1>2, <1>3, DoesConcat3 DEF Ui003Export

LEMMA DoesUi003Watch ==
  ASSUME NEW k \in Nat
  PROVE  Does(Ui003Watch, {"terminal", "release", "look"}, k, k)
<1>1. Does(ExportEnds, {"terminal", "release"}, k, k) BY DoesExportEnds
<1>2. Does(<<Do("look")>>, {"look"}, k, k)
  <2>1. Do("look") \in Step /\ Do("look").op = "look"
    BY DoIs DEF Operations, Outcomes, Deciding
  <2> QED BY <2>1, DoesOne DEF Rank
<1> QED BY <1>1, <1>2, DoesConcat DEF Ui003Watch

LEMMA DoesUi003 ==
  Does(Ui003, {"look", "load", "loadRuns", "spawn", "connect", "call", "save", "snapshotId",
    "mkdir", "export", "terminal", "release", "gates"}, 2, 5)
<1>1. Does(Ui003Start, {"look", "load", "loadRuns", "spawn", "connect"}, 2, 2) BY DoesUi003Start
<1>2. Does(Ui003Session, {"call", "look"}, 2, 2) BY DoesUi003Session
<1>3. Does(Ui003Export, {"save", "snapshotId", "mkdir", "export", "look"}, 3, 3)
  BY DoesUi003Export
<1>4. Does(Ui003Watch, {"terminal", "release", "look"}, 3, 3) BY DoesUi003Watch
<1>5. Does(Gates, {"gates"}, 5, 5) BY DoesGates
<1> QED BY <1>1, <1>2, <1>3, <1>4, <1>5, DoesConcat5 DEF Ui003

LEMMA DoesReg007Start ==
  Does(Reg007Start, {"look", "spawn", "connect", "call"}, 2, 2)
<1>1. Does(Environment, {"look"}, 2, 2) BY DoesEnvironment
<1>2. Does(HelperUp, {"spawn", "connect", "look"}, 2, 2) BY DoesHelperUp
<1>3. Does(RequestSession({"fail"}), {"call"}, 2, 2) BY DoesRequestSession DEF Outcomes
<1>4. Does(Stream("error"), {"call", "look"}, 2, 2) BY DoesStream DEF Outcomes
<1> QED BY <1>1, <1>2, <1>3, <1>4, DoesConcat4 DEF Reg007Start

LEMMA DoesReg007 ==
  Does(Reg007, {"look", "spawn", "connect", "call", "shutdown", "close", "gates"}, 2, 5)
<1>1. Does(Reg007Start, {"look", "spawn", "connect", "call"}, 2, 2) BY DoesReg007Start
<1>2. Does(Noted, {"call"}, 2, 2) BY DoesNoted
<1>3. Does(ShutDown, {"shutdown", "close"}, 2, 2) BY DoesShutDown
<1>4. Does(Gates, {"gates"}, 5, 5) BY DoesGates
<1> QED BY <1>1, <1>2, <1>3, <1>4, DoesConcat4 DEF Reg007

LEMMA DoesSourceText ==
  Does(SourceText, {"look", "gates"}, 5, 5)
<1>1. Does(<<Do("look")>>, {"look"}, 5, 5)
  <2>1. Do("look") \in Step /\ Do("look").op = "look"
    BY DoIs DEF Operations, Outcomes, Deciding
  <2> QED BY <2>1, DoesOne DEF Rank
<1>2. Does(Gates, {"gates"}, 5, 5) BY DoesGates
<1> QED BY <1>1, <1>2, DoesConcat DEF SourceText

LEMMA DoesPkg001 ==
  Does(Pkg001, {"look", "gates"}, 5, 5)
<1>1. Does(<<Or("look", "skip"), Do("look")>>, {"look"}, 5, 5)
  <2>1. /\ Or("look", "skip") \in Step /\ Or("look", "skip").op = "look"
        /\ Do("look") \in Step /\ Do("look").op = "look"
    BY OrIs, DoIs DEF Operations, Outcomes, Deciding
  <2> QED BY <2>1, DoesTwo DEF Rank
<1>2. Does(Gates, {"gates"}, 5, 5) BY DoesGates
<1> QED BY <1>1, <1>2, DoesConcat DEF Pkg001

-----------------------------------------------------------------------------
(* What a row undoes *)

Undos == {"cancel", "release", "close", "sigterm", "teardown", "restore", "rmdir"}

\* The steps of a finally block go on whatever happens.
Tried(q) == q \in Seq(Step) /\ \A i \in DOMAIN q : q[i].bad = {"next"} /\ q[i].thrown = {"next"}

\* A finally block for a body: it has nothing but undoing steps, and the one for what began.
Undone(began, ended) ==
  /\ ended \subseteq Undos
  /\ "load" \in began => "teardown" \in ended
  /\ "mode" \in began => "restore" \in ended
  /\ "spawn" \in began => "sigterm" \in ended
  /\ "save" \in began => "release" \in ended
  /\ "export" \in began => "cancel" \in ended
  /\ "mkdir" \in began => "rmdir" \in ended

\* Nothing runs after the directory is handed over.
HandsLast(q) == \A i \in DOMAIN q : q[i].op = "hand" => i = Len(q)

\* A caller only reads, and no step of it has a shutdown sequence.
Reads(q) ==
  /\ q \in Seq(Step) /\ Ops(q) \subseteq {"look", "read", "gates"}
  /\ \A i \in DOMAIN q : "bail" \notin q[i].bad /\ "bail" \notin q[i].thrown

\* A row ends in its gates, or hands its directory to its caller.
Judged(w) == "gates" \in Ops(w.body) /\ "hand" \notin Ops(w.body)
Handed(w) == /\ "hand" \in Ops(w.body) /\ HandsLast(w.body)
             /\ "mkdir" \in Ops(w.body) /\ "rmdir" \in Ops(w.cleanup)

\* The discipline every row keeps.
RowOK(w) ==
  /\ Does(w.body, Ops(w.body), 0, 5) /\ "rmdir" \notin Ops(w.body)
  /\ "remode" \in Ops(w.body) => "mode" \in Ops(w.body)
  /\ w.id \in CleanupRows => "count" \in Ops(w.body) /\ Judged(w)
  /\ w.bail \in Seq(Step) /\ Ops(w.bail) \subseteq {"shutdown", "close"}
  /\ w.bailAs \in {"error", "skip"}
  /\ Tried(w.finally) /\ Undone(Ops(w.body), Ops(w.finally))
  /\ Reads(w.caller)
  /\ Tried(w.cleanup) /\ Ops(w.cleanup) \subseteq {"rmdir"}
  /\ Judged(w) \/ Handed(w)

\* Finally blocks put together.
LEMMA TriedConcat ==
  ASSUME NEW q, NEW r, NEW O, NEW P, Tried(q), Tried(r), Ops(q) = O, Ops(r) = P
  PROVE  Tried(q \o r) /\ Ops(q \o r) = O \cup P
<1>1. q \in Seq(Step) /\ r \in Seq(Step)
  BY DEF Tried
<1>2. q \o r \in Seq(Step) /\ Len(q \o r) = Len(q) + Len(r) /\ Len(q) \in Nat /\ Len(r) \in Nat
  BY <1>1, ConcatProperties, LenProperties
<1>3. /\ DOMAIN q = 1 .. Len(q) /\ DOMAIN r = 1 .. Len(r)
      /\ DOMAIN (q \o r) = 1 .. Len(q) + Len(r)
  BY <1>1, <1>2, LenProperties
<1>4. \A i \in 1 .. Len(q) + Len(r) : (q \o r)[i] = IF i <= Len(q) THEN q[i] ELSE r[i - Len(q)]
  BY <1>1, ConcatProperties
<1>5. ASSUME NEW i \in DOMAIN (q \o r)
      PROVE  (\E j \in DOMAIN q : (q \o r)[i] = q[j]) \/ (\E j \in DOMAIN r : (q \o r)[i] = r[j])
  BY <1>2, <1>3, <1>4
<1>6. Tried(q \o r)
  BY <1>2, <1>5 DEF Tried
<1> QED BY <1>1, <1>6, OpsConcat

LEMMA TriedNone == Tried(<<>>) /\ Ops(<<>>) = {}
<1>1. <<>> \in Seq(Step) /\ DOMAIN <<>> = {}
  BY EmptySeq, LenProperties
<1> QED BY <1>1 DEF Tried, Ops

LEMMA TriedOne ==
  ASSUME NEW op \in Operations, op \notin Deciding
  PROVE  Tried(<<Try(op)>>) /\ Ops(<<Try(op)>>) = {op}
<1>1. PICK a \in Step : a = Try(op) /\ a.op = op /\ a.bad = {"next"} /\ a.thrown = {"next"}
  BY TryIs
<1>2. <<a>> \in Seq(Step) /\ DOMAIN <<a>> = {1} /\ <<a>>[1] = a
  OBVIOUS
<1>3. Tried(<<a>>) /\ Ops(<<a>>) = {op}
  BY <1>1, <1>2 DEF Tried, Ops
<1> QED BY <1>1, <1>3

LEMMA TriedTwo ==
  ASSUME NEW op \in Operations, op \notin Deciding, NEW o2 \in Operations, o2 \notin Deciding
  PROVE  Tried(<<Try(op), Try(o2)>>) /\ Ops(<<Try(op), Try(o2)>>) = {op, o2}
<1>1. PICK a \in Step : a = Try(op) /\ a.op = op /\ a.bad = {"next"} /\ a.thrown = {"next"}
  BY TryIs
<1>2. PICK b \in Step : b = Try(o2) /\ b.op = o2 /\ b.bad = {"next"} /\ b.thrown = {"next"}
  BY TryIs
<1>3. /\ <<a, b>> \in Seq(Step) /\ DOMAIN <<a, b>> = {1, 2}
      /\ <<a, b>>[1] = a /\ <<a, b>>[2] = b
  OBVIOUS
<1>4. Tried(<<a, b>>) /\ Ops(<<a, b>>) = {op, o2}
  BY <1>1, <1>2, <1>3 DEF Tried, Ops
<1> QED BY <1>1, <1>2, <1>4

LEMMA FinallyBlocks ==
  /\ Tried(<<Try("sigterm")>>) /\ Ops(<<Try("sigterm")>>) = {"sigterm"}
  /\ Tried(<<Try("rmdir")>>) /\ Ops(<<Try("rmdir")>>) = {"rmdir"}
  /\ Tried(HelperDown) /\ Ops(HelperDown) = {"close", "sigterm"}
  /\ Tried(Cap004Finally) /\ Ops(Cap004Finally) = {"close", "sigterm", "teardown", "restore"}
  /\ Tried(LoadedFinally) /\ Ops(LoadedFinally) = {"close", "sigterm", "teardown"}
  /\ Tried(Seg003Finally) /\ Ops(Seg003Finally) = {"release", "close", "sigterm", "teardown"}
  /\ Tried(Exp001Finally)
  /\ Ops(Exp001Finally) = {"cancel", "release", "close", "sigterm", "teardown", "rmdir"}
  /\ Tried(ModeFinally)
  /\ Ops(ModeFinally) = {"restore", "cancel", "release", "close", "sigterm", "teardown", "rmdir"}
<1>1. /\ Tried(<<Try("sigterm")>>) /\ Ops(<<Try("sigterm")>>) = {"sigterm"}
      /\ Tried(<<Try("rmdir")>>) /\ Ops(<<Try("rmdir")>>) = {"rmdir"}
      /\ Tried(<<Try("teardown")>>) /\ Ops(<<Try("teardown")>>) = {"teardown"}
      /\ Tried(<<Try("release")>>) /\ Ops(<<Try("release")>>) = {"release"}
      /\ Tried(<<Try("restore")>>) /\ Ops(<<Try("restore")>>) = {"restore"}
  BY TriedOne DEF Operations, Deciding
<1>2. /\ Tried(HelperDown) /\ Ops(HelperDown) = {"close", "sigterm"}
      /\ Tried(CancelAndRelease) /\ Ops(CancelAndRelease) = {"cancel", "release"}
  BY TriedTwo DEF Operations, Deciding, HelperDown, CancelAndRelease
<1>3. /\ Tried(<<Try("teardown"), Try("restore")>>)
      /\ Ops(<<Try("teardown"), Try("restore")>>) = {"teardown", "restore"}
  BY TriedTwo DEF Operations, Deciding
<1>4. Tried(Cap004Finally) /\ Ops(Cap004Finally) = {"close", "sigterm", "teardown", "restore"}
  BY <1>2, <1>3, TriedConcat DEF Cap004Finally
<1>5. Tried(LoadedFinally) /\ Ops(LoadedFinally) = {"close", "sigterm", "teardown"}
  BY <1>1, <1>2, TriedConcat DEF LoadedFinally
<1>6. Tried(Seg003Finally) /\ Ops(Seg003Finally) = {"release", "close", "sigterm", "teardown"}
  BY <1>1, <1>5, TriedConcat DEF Seg003Finally
<1>7. /\ Tried(CancelAndRelease \o LoadedFinally)
      /\ Ops(CancelAndRelease \o LoadedFinally) = {"cancel", "release", "close", "sigterm",
           "teardown"}
  BY <1>2, <1>5, TriedConcat
<1>8. /\ Tried(Exp001Finally)
      /\ Ops(Exp001Finally) = {"cancel", "release", "close", "sigterm", "teardown", "rmdir"}
  BY <1>1, <1>7, TriedConcat DEF Exp001Finally
<1>9. /\ Tried(ModeFinally)
      /\ Ops(ModeFinally) = {"restore", "cancel", "release", "close", "sigterm", "teardown",
           "rmdir"}
  BY <1>1, <1>8, TriedConcat DEF ModeFinally
<1> QED BY <1>1, <1>2, <1>4, <1>5, <1>6, <1>8, <1>9

LEMMA PairConcat ==
  ASSUME NEW a \in Step, NEW b \in Step
  PROVE  <<a>> \o <<b>> = <<a, b>>
<1>1. <<a>> \in Seq(Step) /\ <<b>> \in Seq(Step) /\ <<a, b>> \in Seq(Step)
      /\ Len(<<a>>) = 1 /\ Len(<<b>>) = 1 /\ Len(<<a, b>>) = 2
      /\ <<a>>[1] = a /\ <<b>>[1] = b /\ <<a, b>>[1] = a /\ <<a, b>>[2] = b
  OBVIOUS
<1> DEFINE x == <<a>>  y == <<b>>  z == <<a, b>>
<1>2. /\ x \in Seq(Step) /\ y \in Seq(Step) /\ z \in Seq(Step)
      /\ Len(x) = 1 /\ Len(y) = 1 /\ Len(z) = 2
      /\ x[1] = a /\ y[1] = b /\ z[1] = a /\ z[2] = b
  BY <1>1
<1> HIDE DEF x, y, z
<1>3. /\ x \o y \in Seq(Step) /\ Len(x \o y) = 2
      /\ \A i \in 1 .. 2 : (x \o y)[i] = IF i <= 1 THEN x[i] ELSE y[i - 1]
  BY <1>2, ConcatProperties
<1>4. \A i \in 1 .. 2 : (x \o y)[i] = z[i]
  BY <1>2, <1>3
<1>5. x \o y = z
  BY <1>2, <1>3, <1>4, SeqEqual
<1> QED BY <1>5 DEF x, y, z

\* The callers of produceStreamCopyMp4 only read.
LEMMA Callers == Reads(<<>>) /\ Reads(Exp010Reads) /\ Reads(Reg002Reads) /\ Reads(Reg001Reads)
<1>1. ASSUME NEW a \in Step, NEW b \in Step, a.op \in {"look", "read", "gates"},
             b.op \in {"look", "read", "gates"}, "bail" \notin a.bad, "bail" \notin a.thrown,
             "bail" \notin b.bad, "bail" \notin b.thrown
      PROVE  Reads(<<a, b>>)
  <2>1. /\ <<a, b>> \in Seq(Step) /\ DOMAIN <<a, b>> = {1, 2}
        /\ <<a, b>>[1] = a /\ <<a, b>>[2] = b
    OBVIOUS
  <2> QED BY <1>1, <2>1 DEF Reads, Ops
<1>2. PICK a \in Step : /\ a = On("read", {"skip", "error"}, {"aborted"}) /\ a.op = "read"
                        /\ a.bad = {"skip", "error"} /\ a.thrown = {"aborted"}
  <2>1. PICK b \in SUBSET Outcomes, t \in SUBSET Outcomes : b = {"skip", "error"}
        /\ t = {"aborted"}
    BY DEF Outcomes
  <2>2. "read" \in Operations /\ "read" \notin Deciding
    BY DEF Operations, Deciding
  <2>3. PICK op \in Operations : op = "read" /\ op \notin Deciding
    BY <2>2
  <2>4. /\ On(op, b, t) \in Step /\ On(op, b, t).op = op
        /\ On(op, b, t).bad = b /\ On(op, b, t).thrown = t
    BY <2>3, OnIs
  <2> QED BY <2>1, <2>3, <2>4
<1>3. PICK g \in Step : /\ g = On("gates", {"fail"}, {"aborted"}) /\ g.op = "gates"
                        /\ g.bad = {"fail"} /\ g.thrown = {"aborted"}
  <2>1. PICK b \in SUBSET Outcomes, t \in SUBSET Outcomes : b = {"fail"} /\ t = {"aborted"}
    BY DEF Outcomes
  <2>2. "gates" \in Operations
    BY DEF Operations, Deciding
  <2>3. "next" \notin b /\ "next" \notin t
    BY <2>1
  <2>4. /\ On("gates", b, t) \in Step /\ On("gates", b, t).op = "gates"
        /\ On("gates", b, t).bad = b /\ On("gates", b, t).thrown = t
    BY <2>2, <2>3, OnIs
  <2> QED BY <2>1, <2>4
<1>4. Reads(Reg002Reads)
  BY <1>1, <1>2, <1>3 DEF Reg002Reads
<1>5. Exp010Reads = Reg002Reads
  <2>1. <<a>> \o <<g>> = <<a, g>>
    BY PairConcat
  <2> QED BY <1>2, <1>3, <2>1 DEF Exp010Reads, Exp010Frames, Exp010Gates, Reg002Reads
<1>6. Reads(Reg001Reads)
  <2>1. /\ Do("read") \in Step /\ Do("read").op = "read"
        /\ Do("read").bad = {} /\ Do("read").thrown = {"error"}
    BY DoIs DEF Operations, Deciding
  <2>2. /\ Or("gates", "fail") \in Step /\ Or("gates", "fail").op = "gates"
        /\ Or("gates", "fail").bad = {"fail"} /\ Or("gates", "fail").thrown = {"error"}
    <3>1. "gates" \in Operations /\ "fail" \in Outcomes /\ "fail" # "next"
      BY DEF Operations, Outcomes, Deciding
    <3> QED BY <3>1, OrIs
  <2>3. Reg001Reads = <<Do("read"), Or("gates", "fail")>>
    BY <2>1, <2>2, PairConcat DEF Reg001Reads, Gates
  <2>4. \A x, y \in Step :
          /\ x.op = "read" /\ x.bad = {} /\ x.thrown = {"error"}
          /\ y.op = "gates" /\ y.bad = {"fail"} /\ y.thrown = {"error"}
          => Reads(<<x, y>>)
    BY <1>1
  <2>5. Reads(<<Do("read"), Or("gates", "fail")>>)
    BY <2>1, <2>2, <2>4
  <2> QED BY <2>3, <2>5
<1>7. Reads(<<>>)
  BY TriedNone, EmptySeq, LenProperties DEF Reads, Tried
<1> QED BY <1>4, <1>5, <1>6, <1>7

-----------------------------------------------------------------------------
(* The rows *)

\* A driver as the row lemmas below need it.
Drives(q, ops) ==
  /\ Does(q, ops, 0, 5) /\ ops \subseteq Operations \ {"rmdir"}
  /\ "remode" \in ops => "mode" \in ops

LEMMA DoesDrives ==
  ASSUME NEW q, NEW O, NEW lo \in 0 .. 5, NEW hi \in 0 .. 5, Does(q, O, lo, hi),
         O \subseteq Operations \ {"rmdir"}, "remode" \in O => "mode" \in O
  PROVE  Drives(q, O)
<1>1. \A op : Rank(op) \in 0 .. 5
  BY DEF Rank
<1>2. InOrder(q, 0, 5)
  BY <1>1 DEF Does, InOrder
<1> QED BY <1>2 DEF Does, Drives

\* The four ways of writing a row.
LEMMA PlainRow ==
  ASSUME NEW id, NEW b, NEW f, NEW O, NEW F, Drives(b, O), "gates" \in O, "hand" \notin O,
         Tried(f), Ops(f) = F, Undone(O, F), id \in CleanupRows => "count" \in O
  PROVE  RowOK(Row(id, b, f))
<1> DEFINE w == Row(id, b, f)
<1>1. /\ w.id = id /\ w.body = b /\ w.finally = f /\ w.bail = <<>> /\ w.bailAs = "error"
      /\ w.caller = <<>> /\ w.cleanup = <<>>
  BY DEF Row
<1>2. Ops(b) = O
  BY DEF Drives, Does
<1> HIDE DEF w
<1>3. RowOK(w)
  BY <1>1, <1>2, TriedNone, EmptySeq, Callers DEF RowOK, Judged, Drives, Tried
<1> QED BY <1>3 DEF w

LEMMA SpawnedRow ==
  ASSUME NEW id, NEW b, NEW O, Drives(b, O), "gates" \in O, "hand" \notin O,
         Undone(O, {"sigterm"}), id \in CleanupRows => "count" \in O
  PROVE  RowOK(Spawned(id, b))
<1> DEFINE w == Spawned(id, b)
<1>1. /\ w.id = id /\ w.body = b /\ w.finally = <<Try("sigterm")>> /\ w.bail = ShutDown
      /\ w.bailAs = "error" /\ w.caller = <<>> /\ w.cleanup = <<>>
  BY DEF Row, Spawned
<1>2. Ops(b) = O
  BY DEF Drives, Does
<1>3. ShutDown \in Seq(Step) /\ Ops(ShutDown) = {"shutdown", "close"}
  BY DoesShutDown DEF Does
<1> HIDE DEF w
<1>4. RowOK(w)
  BY <1>1, <1>2, <1>3, TriedNone, FinallyBlocks, Callers DEF RowOK, Judged, Drives
<1> QED BY <1>4 DEF w

LEMMA Cap004Rows ==
  ASSUME NEW id, id \notin CleanupRows
  PROVE  RowOK(Cap004Row(id))
<1> DEFINE w == Cap004Row(id)
<1>1. /\ w.id = id /\ w.body = Cap004 /\ w.finally = Cap004Finally
      /\ w.bail = <<Try("shutdown"), Try("close")>>
      /\ w.bailAs = "skip" /\ w.caller = <<>> /\ w.cleanup = <<>>
  BY DEF Row, Cap004Row
<1>2. Drives(Cap004, {"look", "load", "loadRuns", "mode", "spawn", "connect", "call", "remode",
        "shutdown", "close", "gates"})
  BY DoesCap004, DoesDrives DEF Operations
<1>3. Ops(Cap004) = {"look", "load", "loadRuns", "mode", "spawn", "connect", "call", "remode",
        "shutdown", "close", "gates"}
  BY <1>2 DEF Drives, Does
<1>4. /\ <<Try("shutdown"), Try("close")>> \in Seq(Step)
      /\ Ops(<<Try("shutdown"), Try("close")>>) = {"shutdown", "close"}
  BY TriedTwo DEF Operations, Deciding, Tried
<1>5. Undone(Ops(Cap004), Ops(Cap004Finally))
  BY <1>3, FinallyBlocks DEF Undone, Undos
<1> HIDE DEF w
<1>6. RowOK(w)
  BY <1>1, <1>2, <1>3, <1>4, <1>5, TriedNone, FinallyBlocks, Callers DEF RowOK, Judged, Drives
<1> QED BY <1>6 DEF w

\* The directory is handed over in the last step.
LEMMA HandsConcat ==
  ASSUME NEW q \in Seq(Step), NEW r \in Seq(Step), "hand" \notin Ops(q), HandsLast(r)
  PROVE  HandsLast(q \o r)
<1>1. q \o r \in Seq(Step) /\ Len(q \o r) = Len(q) + Len(r) /\ Len(q) \in Nat /\ Len(r) \in Nat
  BY ConcatProperties, LenProperties
<1>2. /\ DOMAIN q = 1 .. Len(q) /\ DOMAIN r = 1 .. Len(r)
      /\ DOMAIN (q \o r) = 1 .. Len(q) + Len(r)
  BY <1>1, LenProperties
<1>3. \A i \in 1 .. Len(q) + Len(r) : (q \o r)[i] = IF i <= Len(q) THEN q[i] ELSE r[i - Len(q)]
  BY ConcatProperties
<1>4. ASSUME NEW i \in DOMAIN (q \o r), (q \o r)[i].op = "hand"
      PROVE  i = Len(q) + Len(r)
  <2>1. i > Len(q)
    BY <1>1, <1>2, <1>3, <1>4 DEF Ops
  <2>2. i - Len(q) \in DOMAIN r /\ r[i - Len(q)].op = "hand"
    BY <1>1, <1>2, <1>3, <1>4, <2>1
  <2> QED BY <1>1, <1>2, <2>1, <2>2 DEF HandsLast
<1> QED BY <1>1, <1>4 DEF HandsLast

LEMMA ProduceHandsLast == HandsLast(Produce)
<1>1. HandsLast(<<Try("call"), Do("shutdown"), Or("look", "fail"), Do("hand")>>)
  <2>1. /\ Try("call").op = "call" /\ Do("shutdown").op = "shutdown"
        /\ Or("look", "fail").op = "look"
    BY DoIs, OrIs, TryIs DEF Operations, Outcomes, Deciding
  <2> DEFINE q == <<Try("call"), Do("shutdown"), Or("look", "fail"), Do("hand")>>
  <2>2. /\ DOMAIN q = 1 .. 4 /\ Len(q) = 4
        /\ q[1] = Try("call") /\ q[2] = Do("shutdown") /\ q[3] = Or("look", "fail")
    OBVIOUS
  <2> HIDE DEF q
  <2>3. \A i \in DOMAIN q : q[i].op = "hand" => i = Len(q)
    BY <2>1, <2>2
  <2> QED BY <2>3 DEF HandsLast, q
<1>2. <<Try("call"), Do("shutdown"), Or("look", "fail"), Do("hand")>> \in Seq(Step)
  <2>1. /\ "call" \in Operations /\ "shutdown" \in Operations /\ "look" \in Operations
        /\ "hand" \in Operations /\ "fail" \in Outcomes
    BY DEF Operations, Outcomes, Deciding
  <2>2. PICK a \in Step : a = Try("call")
    <3>1. "call" \notin Deciding BY DEF Deciding
    <3> QED BY <2>1, <3>1, TryIs
  <2>3. PICK b \in Step : b = Do("shutdown")
    BY <2>1, DoIs
  <2>4. PICK c \in Step : c = Or("look", "fail")
    <3>1. "look" \notin Deciding BY DEF Deciding
    <3> QED BY <2>1, <3>1, OrIs
  <2>5. PICK d \in Step : d = Do("hand")
    BY <2>1, DoIs
  <2>6. <<a, b, c, d>> \in Seq(Step)
    OBVIOUS
  <2> QED BY <2>2, <2>3, <2>4, <2>5, <2>6
<1>3. ExportEnds \in Seq(Step) /\ "hand" \notin Ops(ExportEnds)
  <2>1. Does(ExportEnds, {"terminal", "release"}, 5, 5)
    BY DoesExportEnds
  <2> QED BY <2>1 DEF Does
<1>4. HandsLast(ProduceEnd) /\ ProduceEnd \in Seq(Step)
  BY <1>1, <1>2, <1>3, HandsConcat, DoesProduceEnd DEF ProduceEnd, Does
<1>5. /\ ProduceStart \o ProduceSession \o ProduceExport \in Seq(Step)
      /\ "hand" \notin Ops(ProduceStart \o ProduceSession \o ProduceExport)
  <2>1. /\ ProduceStart \in Seq(Step) /\ "hand" \notin Ops(ProduceStart)
        /\ ProduceSession \in Seq(Step) /\ "hand" \notin Ops(ProduceSession)
        /\ ProduceExport \in Seq(Step) /\ "hand" \notin Ops(ProduceExport)
    BY DoesProduceStart, DoesProduceSession, DoesProduceExport DEF Does
  <2>2. /\ ProduceStart \o ProduceSession \in Seq(Step)
        /\ "hand" \notin Ops(ProduceStart \o ProduceSession)
    BY <2>1, OpsConcat, ConcatProperties
  <2>3. PICK q \in Seq(Step) : q = ProduceStart \o ProduceSession /\ "hand" \notin Ops(q)
    BY <2>2
  <2>4. q \o ProduceExport \in Seq(Step) /\ "hand" \notin Ops(q \o ProduceExport)
    BY <2>1, <2>3, OpsConcat, ConcatProperties
  <2> QED BY <2>3, <2>4, Zenon
<1> QED BY <1>4, <1>5, HandsConcat DEF Produce

LEMMA ProducedRow ==
  ASSUME NEW id, id \notin CleanupRows, NEW before, NEW B, NEW caller, Reads(caller),
         Does(before, B, 0, 0), B \subseteq {"look"}
  PROVE  RowOK(Produced(id, before, caller))
<1> DEFINE w == Produced(id, before, caller)
<1>1. /\ w.id = id /\ w.body = before \o Produce /\ w.finally = ModeFinally /\ w.bail = <<>>
      /\ w.bailAs = "error" /\ w.caller = caller /\ w.cleanup = <<Try("rmdir")>>
  BY DEF Row, Produced
<1>2. /\ Does(before \o Produce, {"look", "load", "loadRuns", "mode", "spawn", "connect", "call",
           "remode", "save", "snapshotId", "mkdir", "export", "terminal", "release", "shutdown",
           "hand"}, 0, 5)
      /\ Ops(before \o Produce) = {"look", "load", "loadRuns", "mode", "spawn", "connect",
           "call", "remode", "save", "snapshotId", "mkdir", "export", "terminal", "release",
           "shutdown", "hand"}
  <2>1. Does(Produce, {"look", "load", "loadRuns", "mode", "spawn", "connect", "call", "remode",
          "save", "snapshotId", "mkdir", "export", "terminal", "release", "shutdown", "hand"}, 1,
          5) BY DoesProduce
  <2>2. Does(before \o Produce, B \cup {"look", "load", "loadRuns", "mode", "spawn", "connect",
          "call", "remode", "save", "snapshotId", "mkdir", "export", "terminal", "release",
          "shutdown", "hand"}, 0, 5)
    BY <2>1, DoesConcat
  <2>3. B \cup {"look", "load", "loadRuns", "mode", "spawn", "connect", "call", "remode", "save",
          "snapshotId", "mkdir", "export", "terminal", "release", "shutdown", "hand"} = {"look",
            "load", "loadRuns", "mode", "spawn", "connect", "call", "remode", "save",
            "snapshotId", "mkdir", "export", "terminal", "release", "shutdown", "hand"}
    OBVIOUS
  <2> QED BY <2>2, <2>3 DEF Does
<1>3. HandsLast(before \o Produce)
  BY ProduceHandsLast, HandsConcat, DoesProduce DEF Does
<1>4. Undone({"look", "load", "loadRuns", "mode", "spawn", "connect", "call", "remode", "save",
        "snapshotId", "mkdir", "export", "terminal", "release", "shutdown", "hand"},
        Ops(ModeFinally))
  BY FinallyBlocks DEF Undone, Undos
<1>5. <<>> \in Seq(Step) /\ Ops(<<>>) = {}
  BY TriedNone DEF Tried
<1> HIDE DEF w
<1>6. RowOK(w)
  BY <1>1, <1>2, <1>3, <1>4, <1>5, FinallyBlocks DEF RowOK, Handed
<1> QED BY <1>6 DEF w

LEMMA SmokeRowsOK ==
  /\ SmokeRows \in Seq({SmokeRows[i] : i \in 1 .. 15}) /\ Len(SmokeRows) = 15
  /\ \A i \in 1 .. 15 : RowOK(SmokeRows[i])
<1>1. RowOK(Row("VAL-PKG-001", Pkg001, <<>>))
  <2>1. Drives(Pkg001, {"look", "gates"})
    BY DoesPkg001, DoesDrives DEF Operations
  <2>2. Undone({"look", "gates"}, {})
    BY DEF Undone
  <2> QED BY <2>1, <2>2, TriedNone, PlainRow DEF CleanupRows
<1>2. RowOK(Spawned("VAL-CAP-003", Cap003))
  <2>1. Drives(Cap003, {"spawn", "connect", "look", "call", "shutdown", "close", "gates"})
    BY DoesCap003, DoesDrives DEF Operations
  <2>2. Undone({"spawn", "connect", "look", "call", "shutdown", "close", "gates"}, {"sigterm"})
    BY DEF Undone, Undos
  <2> QED BY <2>1, <2>2, SpawnedRow DEF CleanupRows
<1>3. RowOK(Cap004Row("VAL-CAP-004"))
  BY Cap004Rows DEF CleanupRows
<1>4. RowOK(Row("VAL-ENC-001", Enc001, LoadedFinally))
  <2>1. Drives(Enc001, {"look", "load", "loadRuns", "spawn", "connect", "call", "gates"})
    BY DoesEnc001, DoesDrives DEF Operations
  <2>2. Tried(LoadedFinally) /\ Ops(LoadedFinally) = {"close", "sigterm", "teardown"}
    BY FinallyBlocks
  <2>3. Undone({"look", "load", "loadRuns", "spawn", "connect", "call", "gates"}, {"close",
          "sigterm", "teardown"})
    BY DEF Undone, Undos
  <2> QED BY <2>1, <2>2, <2>3, PlainRow DEF CleanupRows
<1>5. RowOK(Row("VAL-SEG-001", Seg001, LoadedFinally))
  <2>1. Drives(Seg001, {"look", "load", "loadRuns", "spawn", "connect", "call", "gates"})
    BY DoesSeg001, DoesDrives DEF Operations
  <2>2. Tried(LoadedFinally) /\ Ops(LoadedFinally) = {"close", "sigterm", "teardown"}
    BY FinallyBlocks
  <2>3. Undone({"look", "load", "loadRuns", "spawn", "connect", "call", "gates"}, {"close",
          "sigterm", "teardown"})
    BY DEF Undone, Undos
  <2> QED BY <2>1, <2>2, <2>3, PlainRow DEF CleanupRows
<1>6. RowOK(Row("VAL-SEG-003", Seg003, Seg003Finally))
  <2>1. Drives(Seg003, {"look", "load", "loadRuns", "spawn", "connect", "call", "save",
          "snapshotId", "releaseOnce", "gates"})
    BY DoesSeg003, DoesDrives DEF Operations
  <2>2. Tried(Seg003Finally) /\ Ops(Seg003Finally) = {"release", "close", "sigterm", "teardown"}
    BY FinallyBlocks
  <2>3. Undone({"look", "load", "loadRuns", "spawn", "connect", "call", "save", "snapshotId",
          "releaseOnce", "gates"}, {"release", "close", "sigterm", "teardown"})
    BY DEF Undone, Undos
  <2> QED BY <2>1, <2>2, <2>3, PlainRow DEF CleanupRows
<1>7. RowOK(Row("VAL-EXP-001", Exp001, Exp001Finally))
  <2>1. Drives(Exp001, {"baseline", "look", "load", "loadRuns", "spawn", "connect", "call",
          "save", "snapshotId", "mkdir", "export", "terminal", "release", "shutdown", "count",
          "gates"})
    BY DoesExp001, DoesDrives DEF Operations
  <2>2. Tried(Exp001Finally) /\ Ops(Exp001Finally) = {"cancel", "release", "close", "sigterm",
          "teardown", "rmdir"}
    BY FinallyBlocks
  <2>3. Undone({"baseline", "look", "load", "loadRuns", "spawn", "connect", "call", "save",
          "snapshotId", "mkdir", "export", "terminal", "release", "shutdown", "count", "gates"},
            {"cancel", "release", "close", "sigterm", "teardown", "rmdir"})
    BY DEF Undone, Undos
  <2> QED BY <2>1, <2>2, <2>3, PlainRow DEF CleanupRows
<1>8. RowOK(Produced("VAL-EXP-010", <<>>, Exp010Reads))
  BY DoesNone, Callers, ProducedRow DEF CleanupRows
<1>9. RowOK(Row("VAL-EXP-012", Exp012, Exp012Finally))
  <2>1. Drives(Exp012, {"look", "mode", "load", "loadRuns", "spawn", "connect", "call", "remode",
          "save", "snapshotId", "mkdir", "export", "terminal", "release", "shutdown", "close",
          "gates"})
    BY DoesExp012, DoesDrives DEF Operations
  <2>2. Tried(Exp012Finally) /\ Ops(Exp012Finally) = {"restore", "cancel", "release", "close",
          "sigterm", "teardown", "rmdir"}
    BY FinallyBlocks DEF Exp012Finally
  <2>3. Undone({"look", "mode", "load", "loadRuns", "spawn", "connect", "call", "remode", "save",
          "snapshotId", "mkdir", "export", "terminal", "release", "shutdown", "close", "gates"},
            {"restore", "cancel", "release", "close", "sigterm", "teardown", "rmdir"})
    BY DEF Undone, Undos
  <2> QED BY <2>1, <2>2, <2>3, PlainRow DEF CleanupRows
<1>10. RowOK(Row("VAL-UI-003", Ui003, Ui003Finally))
  <2>1. Drives(Ui003, {"look", "load", "loadRuns", "spawn", "connect", "call", "save",
          "snapshotId", "mkdir", "export", "terminal", "release", "gates"})
    BY DoesUi003, DoesDrives DEF Operations
  <2>2. Tried(Ui003Finally) /\ Ops(Ui003Finally) = {"cancel", "release", "close", "sigterm",
          "teardown", "rmdir"}
    BY FinallyBlocks DEF Ui003Finally
  <2>3. Undone({"look", "load", "loadRuns", "spawn", "connect", "call", "save", "snapshotId",
          "mkdir", "export", "terminal", "release", "gates"}, {"cancel", "release", "close",
            "sigterm", "teardown", "rmdir"})
    BY DEF Undone, Undos
  <2> QED BY <2>1, <2>2, <2>3, PlainRow DEF CleanupRows
<1>11. RowOK(Spawned("VAL-PROC-001", Proc001))
  <2>1. Drives(Proc001, {"baseline", "spawn", "connect", "look", "shutdown", "close", "count",
          "gates"})
    BY DoesProc001, DoesDrives DEF Operations
  <2>2. Undone({"baseline", "spawn", "connect", "look", "shutdown", "close", "count", "gates"},
          {"sigterm"})
    BY DEF Undone, Undos
  <2> QED BY <2>1, <2>2, SpawnedRow DEF CleanupRows
<1>12. RowOK(Spawned("VAL-PROC-002", Proc002))
  <2>1. Drives(Proc002, {"baseline", "spawn", "connect", "look", "call", "shutdown", "close",
          "count", "gates"})
    BY DoesProc002, DoesDrives DEF Operations
  <2>2. Undone({"baseline", "spawn", "connect", "look", "call", "shutdown", "close", "count",
          "gates"}, {"sigterm"})
    BY DEF Undone, Undos
  <2> QED BY <2>1, <2>2, SpawnedRow DEF CleanupRows
<1>13. RowOK(Row("VAL-PROC-003", Proc003, HelperDown))
  <2>1. Drives(Proc003, {"baseline", "spawn", "connect", "look", "call", "close", "sigterm",
          "exited", "count", "gates"})
    BY DoesProc003, DoesDrives DEF Operations
  <2>2. Tried(HelperDown) /\ Ops(HelperDown) = {"close", "sigterm"}
    BY FinallyBlocks
  <2>3. Undone({"baseline", "spawn", "connect", "look", "call", "close", "sigterm", "exited",
          "count", "gates"}, {"close", "sigterm"})
    BY DEF Undone, Undos
  <2> QED BY <2>1, <2>2, <2>3, PlainRow DEF CleanupRows
<1>14. RowOK(Spawned("VAL-PROC-007", Proc007))
  <2>1. Drives(Proc007, {"spawn", "connect", "look", "shutdown", "close", "gates"})
    BY DoesProc007, DoesDrives DEF Operations
  <2>2. Undone({"spawn", "connect", "look", "shutdown", "close", "gates"}, {"sigterm"})
    BY DEF Undone, Undos
  <2> QED BY <2>1, <2>2, SpawnedRow DEF CleanupRows
<1>15. RowOK(Produced("VAL-REG-002", <<>>, Reg002Reads))
  BY DoesNone, Callers, ProducedRow DEF CleanupRows
<1>16. SmokeRows \in Seq({SmokeRows[i] : i \in 1 .. 15}) /\ Len(SmokeRows) = 15
  BY DEF SmokeRows
<1>17. RowOK(SmokeRows[1])
  BY <1>1 DEF SmokeRows
<1>18. RowOK(SmokeRows[2])
  BY <1>2 DEF SmokeRows
<1>19. RowOK(SmokeRows[3])
  BY <1>3 DEF SmokeRows
<1>20. RowOK(SmokeRows[4])
  BY <1>4 DEF SmokeRows
<1>21. RowOK(SmokeRows[5])
  BY <1>5 DEF SmokeRows
<1>22. RowOK(SmokeRows[6])
  BY <1>6 DEF SmokeRows
<1>23. RowOK(SmokeRows[7])
  BY <1>7 DEF SmokeRows
<1>24. RowOK(SmokeRows[8])
  BY <1>8 DEF SmokeRows
<1>25. RowOK(SmokeRows[9])
  BY <1>9 DEF SmokeRows
<1>26. RowOK(SmokeRows[10])
  BY <1>10 DEF SmokeRows
<1>27. RowOK(SmokeRows[11])
  BY <1>11 DEF SmokeRows
<1>28. RowOK(SmokeRows[12])
  BY <1>12 DEF SmokeRows
<1>29. RowOK(SmokeRows[13])
  BY <1>13 DEF SmokeRows
<1>30. RowOK(SmokeRows[14])
  BY <1>14 DEF SmokeRows
<1>31. RowOK(SmokeRows[15])
  BY <1>15 DEF SmokeRows
<1> QED BY <1>16, <1>17, <1>18, <1>19, <1>20, <1>21, <1>22, <1>23, <1>24, <1>25, <1>26, <1>27,
    <1>28, <1>29, <1>30, <1>31

LEMMA CoverageRowsOK ==
  /\ CoverageRows \in Seq({CoverageRows[i] : i \in 1 .. 11}) /\ Len(CoverageRows) = 11
  /\ \A i \in 1 .. 11 : RowOK(CoverageRows[i])
<1>1. RowOK(Cap004Row("VAL-CAP-016"))
  BY Cap004Rows DEF CleanupRows
<1>2. RowOK(Cap004Row("VAL-CAP-013"))
  BY Cap004Rows DEF CleanupRows
<1>3. RowOK(Cap004Row("VAL-CAP-014"))
  BY Cap004Rows DEF CleanupRows
<1>4. RowOK(Row("VAL-UI-002", Ui002, <<>>))
  <2>1. Drives(Ui002, {"look", "gates"})
    BY DoesSourceText, DoesDrives DEF Operations, Ui002
  <2>2. Undone({"look", "gates"}, {})
    BY DEF Undone
  <2> QED BY <2>1, <2>2, TriedNone, PlainRow DEF CleanupRows
<1>5. RowOK(Row("VAL-UI-004", Ui004, <<>>))
  <2>1. Drives(Ui004, {"look", "gates"})
    BY DoesSourceText, DoesDrives DEF Operations, Ui004
  <2>2. Undone({"look", "gates"}, {})
    BY DEF Undone
  <2> QED BY <2>1, <2>2, TriedNone, PlainRow DEF CleanupRows
<1>6. RowOK(Row("VAL-CAP-007", Cap007, <<>>))
  <2>1. Drives(Cap007, {"look", "gates"})
    BY DoesSourceText, DoesDrives DEF Operations, Cap007
  <2>2. Undone({"look", "gates"}, {})
    BY DEF Undone
  <2> QED BY <2>1, <2>2, TriedNone, PlainRow DEF CleanupRows
<1>7. RowOK(Row("VAL-REG-013", Reg013, <<>>))
  <2>1. Drives(Reg013, {"look", "gates"})
    BY DoesSourceText, DoesDrives DEF Operations, Reg013
  <2>2. Undone({"look", "gates"}, {})
    BY DEF Undone
  <2> QED BY <2>1, <2>2, TriedNone, PlainRow DEF CleanupRows
<1>8. RowOK(Row("VAL-REG-004", Reg004, <<>>))
  <2>1. Drives(Reg004, {"look", "gates"})
    BY DoesSourceText, DoesDrives DEF Operations, Reg004
  <2>2. Undone({"look", "gates"}, {})
    BY DEF Undone
  <2> QED BY <2>1, <2>2, TriedNone, PlainRow DEF CleanupRows
<1>9. RowOK(Row("VAL-REG-007", Reg007, HelperDown))
  <2>1. Drives(Reg007, {"look", "spawn", "connect", "call", "shutdown", "close", "gates"})
    BY DoesReg007, DoesDrives DEF Operations
  <2>2. Tried(HelperDown) /\ Ops(HelperDown) = {"close", "sigterm"}
    BY FinallyBlocks
  <2>3. Undone({"look", "spawn", "connect", "call", "shutdown", "close", "gates"}, {"close",
          "sigterm"})
    BY DEF Undone, Undos
  <2> QED BY <2>1, <2>2, <2>3, PlainRow DEF CleanupRows
<1>10. RowOK(Row("VAL-REG-006", Reg006, <<>>))
  <2>1. Drives(Reg006, {"look", "gates"})
    BY DoesSourceText, DoesDrives DEF Operations, Reg006
  <2>2. Undone({"look", "gates"}, {})
    BY DEF Undone
  <2> QED BY <2>1, <2>2, TriedNone, PlainRow DEF CleanupRows
<1>11. RowOK(Produced("VAL-REG-001", Reg001Checks, Reg001Reads))
  <2>1. Does(Reg001Checks, {"look"}, 0, 0) BY DoesReg001Checks
  <2> QED BY <2>1, Callers, ProducedRow DEF CleanupRows
<1>12. CoverageRows \in Seq({CoverageRows[i] : i \in 1 .. 11}) /\ Len(CoverageRows) = 11
  BY DEF CoverageRows
<1>13. RowOK(CoverageRows[1])
  BY <1>1 DEF CoverageRows
<1>14. RowOK(CoverageRows[2])
  BY <1>2 DEF CoverageRows
<1>15. RowOK(CoverageRows[3])
  BY <1>3 DEF CoverageRows
<1>16. RowOK(CoverageRows[4])
  BY <1>4 DEF CoverageRows
<1>17. RowOK(CoverageRows[5])
  BY <1>5 DEF CoverageRows
<1>18. RowOK(CoverageRows[6])
  BY <1>6 DEF CoverageRows
<1>19. RowOK(CoverageRows[7])
  BY <1>7 DEF CoverageRows
<1>20. RowOK(CoverageRows[8])
  BY <1>8 DEF CoverageRows
<1>21. RowOK(CoverageRows[9])
  BY <1>9 DEF CoverageRows
<1>22. RowOK(CoverageRows[10])
  BY <1>10 DEF CoverageRows
<1>23. RowOK(CoverageRows[11])
  BY <1>11 DEF CoverageRows
<1> QED BY <1>12, <1>13, <1>14, <1>15, <1>16, <1>17, <1>18, <1>19, <1>20, <1>21, <1>22, <1>23

(* Every row of both tables keeps the discipline: its finally block undoes whatever its body *)
(* begins, its steps come in order, and it ends in its gates or with the hand-over.          *)
THEOREM AllRows ==
  /\ Len(Rows) = 26 /\ Len(SmokeRows) = 15
  /\ \A i \in 1 .. Len(Rows) : RowOK(Rows[i])
<1>1. PICK A : A = {SmokeRows[i] : i \in 1 .. 15} \cup {CoverageRows[i] : i \in 1 .. 11}
  OBVIOUS
<1>2. /\ SmokeRows \in Seq(A) /\ Len(SmokeRows) = 15
      /\ \A i \in 1 .. 15 : RowOK(SmokeRows[i])
  <2>1. /\ SmokeRows \in Seq({SmokeRows[i] : i \in 1 .. 15}) /\ Len(SmokeRows) = 15
        /\ \A i \in 1 .. 15 : RowOK(SmokeRows[i])
    BY SmokeRowsOK
  <2>2. {SmokeRows[i] : i \in 1 .. 15} \subseteq A
    BY <1>1
  <2> QED BY <2>1, <2>2
<1>3. /\ CoverageRows \in Seq(A) /\ Len(CoverageRows) = 11
      /\ \A i \in 1 .. 11 : RowOK(CoverageRows[i])
  <2>1. /\ CoverageRows \in Seq({CoverageRows[i] : i \in 1 .. 11}) /\ Len(CoverageRows) = 11
        /\ \A i \in 1 .. 11 : RowOK(CoverageRows[i])
    BY CoverageRowsOK
  <2>2. {CoverageRows[i] : i \in 1 .. 11} \subseteq A
    BY <1>1
  <2> QED BY <2>1, <2>2
<1>4. /\ Len(Rows) = 26
      /\ \A i \in 1 .. 26 : Rows[i] = IF i <= 15 THEN SmokeRows[i] ELSE CoverageRows[i - 15]
  <2>1. PICK q \in Seq(A), r \in Seq(A) :
          q = SmokeRows /\ r = CoverageRows /\ Len(q) = 15 /\ Len(r) = 11
    BY <1>2, <1>3
  <2>2. /\ Len(q \o r) = 26
        /\ \A i \in 1 .. 26 : (q \o r)[i] = IF i <= 15 THEN q[i] ELSE r[i - 15]
    <3>1. /\ Len(q \o r) = Len(q) + Len(r)
          /\ \A i \in 1 .. Len(q) + Len(r) :
               (q \o r)[i] = IF i <= Len(q) THEN q[i] ELSE r[i - Len(q)]
      BY ConcatProperties
    <3>2. Len(q) + Len(r) = 26
      BY <2>1
    <3>3. /\ Len(q \o r) = 26
          /\ \A i \in 1 .. 26 : (q \o r)[i] = IF i <= Len(q) THEN q[i] ELSE r[i - Len(q)]
      BY <3>1, <3>2, Zenon
    <3> QED BY <2>1, <3>3, Zenon
  <2> QED BY <2>1, <2>2 DEF Rows
<1>5. ASSUME NEW i \in 1 .. 26 PROVE RowOK(Rows[i])
  <2>1. CASE i <= 15
    <3>1. i \in 1 .. 15 /\ Rows[i] = SmokeRows[i]
      BY <1>4, <2>1
    <3> QED BY <1>2, <3>1, Zenon
  <2>2. CASE i > 15
    <3>1. ~(i <= 15) /\ i - 15 \in 1 .. 11
      BY <2>2
    <3>2. PICK j \in 1 .. 11 : j = i - 15
      BY <3>1
    <3>3. Rows[i] = CoverageRows[j]
      BY <1>4, <3>1, <3>2
    <3>4. RowOK(CoverageRows[j])
      BY <1>3
    <3> QED BY <3>3, <3>4, Zenon
  <2> QED BY <2>1, <2>2
<1> QED BY <1>2, <1>4, <1>5

-----------------------------------------------------------------------------
(* Where a row stands *)

\* The finally block of this row undoes op, and has not come to that yet.
Undoes(op) ==
  /\ op \in Ops(Rows[row].finally)
  /\ \/ part \in {"body", "bail"}
     \/ /\ part = "finally"
        /\ \E i \in pc .. Len(Rows[row].finally) : Rows[row].finally[i].op = op

\* The body has gone on from a step op.
Past(op) == part = "body" /\ \E i \in 1 .. (pc - 1) : Rows[row].body[i].op = op

Control ==
  /\ kind \in {"smoke", "rc", "row"} /\ over \in {"no", "done", "stopped", "aborted"}
  /\ n \in 0 .. MaxRows /\ row \in 0 .. Len(Rows)
  /\ part \in {"between", "body", "bail", "finally", "caller", "cleanup"}
  /\ pc \in 1 .. (Len(Script) + 1)
  /\ report \in Statuses \cup {"none", "aborted"}
  /\ part # "between" => row \in 1 .. Len(Rows) /\ n \in Pid
  /\ part \in {"body", "bail", "caller"} => report = "none"
  /\ part = "cleanup" => report # "none"
  /\ ~Past("gates")

\* How a step may move the row.
GoesOn == pc' = pc + 1 /\ part' = part /\ report' = report
Leaves ==
  /\ pc' = 1
  /\ \/ part \in {"body", "bail"} /\ part' = "bail" /\ report' = report
     \/ /\ report' \in Statuses \cup {"aborted"}
        /\ \/ part \in {"body", "bail"} /\ part' = "finally"
           \/ part = "caller" /\ part' = "cleanup"

InScript == part # "between" /\ pc <= Len(Script)

Moves ==
  /\ InScript /\ UNCHANGED suiteVars
  /\ Leaves \/ (GoesOn /\ s.op # "gates")
  /\ report' = "pass" => report = "pass" \/ (s.op = "gates" /\ local.left = {})

LEMMA RowFacts ==
  ASSUME NEW w, RowOK(w)
  PROVE  /\ w.body \in Seq(Step) /\ w.bail \in Seq(Step) /\ w.finally \in Seq(Step)
         /\ w.caller \in Seq(Step) /\ w.cleanup \in Seq(Step)
  BY DEF RowOK, Does, Tried, Reads

LEMMA Scripts ==
  ASSUME Control
  PROVE  /\ part # "between" => RowOK(Rows[row]) /\ Script \in Seq(Step)
         /\ part = "between" => Script = <<>>
         /\ Len(Script) \in Nat /\ pc \in Nat \ {0}
         /\ part = "body" => Script = Rows[row].body
         /\ part = "bail" => Script = Rows[row].bail
         /\ part = "finally" => Script = Rows[row].finally
         /\ part = "caller" => Script = Rows[row].caller
         /\ part = "cleanup" => Script = Rows[row].cleanup
<1>1. part # "between" => RowOK(Rows[row])
  BY AllRows DEF Control
<1>2. part \in {"between", "body", "bail", "finally", "caller", "cleanup"}
  BY DEF Control
<1>3. /\ part = "between" => Script = <<>>
      /\ part = "body" => Script = Rows[row].body
      /\ part = "bail" => Script = Rows[row].bail
      /\ part = "finally" => Script = Rows[row].finally
      /\ part = "caller" => Script = Rows[row].caller
      /\ part = "cleanup" => Script = Rows[row].cleanup
  BY <1>2 DEF Script
<1>4. part # "between" => Script \in Seq(Step)
  BY <1>1, <1>2, <1>3, RowFacts
<1>5. Len(Script) \in Nat
  <2>1. Len(<<>>) \in Nat
    OBVIOUS
  <2> QED BY <1>3, <1>4, <2>1, LenProperties
<1> QED BY <1>1, <1>3, <1>4, <1>5 DEF Control

\* What a step is allowed to be, by the sequence it is in.
LEMMA Places ==
  ASSUME Control, InScript
  PROVE  /\ s \in Step /\ pc \in DOMAIN Script
         /\ part = "body" => /\ pc \in DOMAIN Rows[row].body /\ s = Rows[row].body[pc]
                             /\ s.op \in Ops(Rows[row].body)
         /\ part = "bail" => s.op \in {"shutdown", "close"}
         /\ part = "finally" => s.op \in Undos /\ s.bad = {"next"} /\ s.thrown = {"next"}
         /\ part = "caller" => /\ s.op \in {"look", "read", "gates"}
                               /\ "bail" \notin s.bad /\ "bail" \notin s.thrown
         /\ part = "cleanup" => s.op = "rmdir" /\ s.bad = {"next"} /\ s.thrown = {"next"}
<1>1. Script \in Seq(Step) /\ pc \in 1 .. Len(Script) /\ DOMAIN Script = 1 .. Len(Script)
  BY Scripts, LenProperties DEF InScript
<1>2. Script[pc] \in Step /\ Script[pc].op \in Ops(Script)
  BY <1>1 DEF Ops
<1>3. RowOK(Rows[row])
  BY Scripts DEF InScript
<1>4. part = "body" => /\ pc \in DOMAIN Rows[row].body /\ Script[pc] = Rows[row].body[pc]
                       /\ Script[pc].op \in Ops(Rows[row].body)
  BY <1>1, <1>2, Scripts
<1>5. part = "bail" => Script[pc].op \in {"shutdown", "close"}
  <2>1. Ops(Rows[row].bail) \subseteq {"shutdown", "close"}
    BY <1>3 DEF RowOK
  <2> QED BY <1>2, <2>1, Scripts
<1>6. part = "finally" => /\ Script[pc].op \in Undos
                          /\ Script[pc].bad = {"next"} /\ Script[pc].thrown = {"next"}
  <2>1. Ops(Rows[row].finally) \subseteq Undos /\ Tried(Rows[row].finally)
    BY <1>3 DEF RowOK, Undone
  <2> QED BY <1>1, <1>2, <2>1, Scripts DEF Tried
<1>7. part = "caller" => /\ Script[pc].op \in {"look", "read", "gates"}
                         /\ "bail" \notin Script[pc].bad /\ "bail" \notin Script[pc].thrown
  <2>1. Reads(Rows[row].caller)
    BY <1>3 DEF RowOK
  <2> QED BY <1>1, <1>2, <2>1, Scripts DEF Reads
<1>8. part = "cleanup" => /\ Script[pc].op = "rmdir"
                          /\ Script[pc].bad = {"next"} /\ Script[pc].thrown = {"next"}
  <2>1. Ops(Rows[row].cleanup) \subseteq {"rmdir"} /\ Tried(Rows[row].cleanup)
    BY <1>3 DEF RowOK
  <2> QED BY <1>1, <1>2, <2>1, Scripts DEF Tried
<1> QED BY <1>1, <1>2, <1>4, <1>5, <1>6, <1>7, <1>8 DEF s

\* A step that fails leaves the sequence, or goes on as its row says.
LEMMA Failing ==
  ASSUME Control, InScript, Bad \/ Throws
  PROVE  /\ Leaves \/ (GoesOn /\ s.op \notin Deciding)
         /\ report' = "pass" => report = "pass"
<1>1. PICK o \in s.bad \cup s.thrown : Outcome(o)
  BY DEF Bad, Throws
<1>2. /\ s.bad \subseteq Outcomes /\ s.thrown \subseteq Outcomes
      /\ s.op \in Deciding => "next" \notin s.bad /\ "next" \notin s.thrown
  BY Places DEF Step, Command
<1>3. part \in {"body", "bail", "finally", "caller", "cleanup"}
  BY DEF Control, InScript
<1>4. part \in {"finally", "cleanup"} => o = "next"
  BY <1>1, Places
<1>5. part = "caller" => o # "bail"
  BY <1>1, Places
<1>6. CASE o = "next"
  BY <1>1, <1>2, <1>6 DEF Outcome, Good, GoesOn
<1>7. CASE o = "bail"
  BY <1>1, <1>3, <1>4, <1>5, <1>7 DEF Outcome, Leaves
<1>8. CASE o \notin {"next", "bail"}
  <2>1. pc' = 1 /\ report' = o /\ part' = IF part = "caller" THEN "cleanup" ELSE "finally"
    BY <1>1, <1>8 DEF Outcome
  <2>2. o \in {"aborted", "fail", "skip", "error"}
    BY <1>1, <1>2, <1>8 DEF Outcomes
  <2> QED BY <1>3, <1>4, <1>8, <2>1, <2>2 DEF Leaves, Statuses
<1> QED BY <1>6, <1>7, <1>8

LEMMA Here ==
  ASSUME NEW ops, At(ops)
  PROVE  InScript /\ s.op \in ops
  BY DEF At, InScript, s

LEMMA Goes ==
  ASSUME NEW ops, Control, At(ops), UNCHANGED suiteVars, Good \/ Bad \/ Throws, "gates" \notin ops
  PROVE  Moves
<1>1. InScript /\ s.op # "gates"
  BY Here
<1>2. CASE Good
  BY <1>1, <1>2 DEF Good, Moves, GoesOn
<1>3. CASE Bad \/ Throws
  BY <1>1, <1>3, Failing DEF Moves
<1> QED BY <1>2, <1>3

\* Where nothing else is said, a row goes on.
LEMMA Decides ==
  ASSUME NEW ops, Control, At(ops), ops \subseteq Deciding, Bad \/ Throws
  PROVE  Leaves
  BY Here, Failing

\* A step forward has the same sequence before it.
LEMMA SameScript ==
  ASSUME part' = part, row' = row
  PROVE  Script' = Script
  BY DEF Script

\* What the body has gone on from, and what is still to be undone, after a step.
LEMMA PastKept ==
  ASSUME NEW op, Control, Moves
  PROVE  /\ Past(op)' => Past(op) \/ (s.op = op /\ GoesOn)
         /\ Past(op)' => GoesOn /\ part = "body"
         /\ Past(op) /\ GoesOn => Past(op)'
<1>1. row' = row
  BY DEF Moves, suiteVars
<1>2. pc \in Nat \ {0} /\ (part = "body" => s = Rows[row].body[pc])
  BY Scripts, Places DEF Moves
<1>3. CASE GoesOn
  <2>1. part' = part /\ pc' = pc + 1
    BY <1>3 DEF GoesOn
  <2>2. Past(op)' <=> part = "body" /\ \E i \in 1 .. pc : Rows[row].body[i].op = op
    <3>1. (pc + 1) - 1 = pc
      BY <1>2
    <3> QED BY <1>1, <2>1, <3>1 DEF Past
  <2>3. \A i \in 1 .. pc : i \in 1 .. (pc - 1) \/ i = pc
    BY <1>2
  <2>4. \A i \in 1 .. (pc - 1) : i \in 1 .. pc
    BY <1>2
  <2>5. Past(op) <=> part = "body" /\ \E i \in 1 .. (pc - 1) : Rows[row].body[i].op = op
    BY DEF Past
  <2>6. part = "body" => s.op = Rows[row].body[pc].op /\ pc \in 1 .. pc
    BY <1>2
  <2>7. ASSUME Past(op)' PROVE part = "body" /\ (Past(op) \/ s.op = op)
    <3>1. part = "body"
      BY <2>2, <2>7
    <3>2. PICK i \in 1 .. pc : Rows[row].body[i].op = op
      BY <2>2, <2>7
    <3> QED BY <2>3, <2>5, <2>6, <3>1, <3>2
  <2>8. ASSUME Past(op) PROVE Past(op)'
    <3>1. PICK i \in 1 .. (pc - 1) : Rows[row].body[i].op = op
      BY <2>5, <2>8
    <3> QED BY <2>2, <2>4, <2>5, <2>8, <3>1
  <2> QED BY <1>3, <2>7, <2>8
<1>4. CASE Leaves
  BY <1>4 DEF Leaves, Past, GoesOn
<1> QED BY <1>3, <1>4 DEF Moves

LEMMA UndoesKept ==
  ASSUME NEW op, Control, Moves, Undoes(op), part = "finally" => s.op # op
  PROVE  Undoes(op)'
<1>1. row' = row
  BY DEF Moves, suiteVars
<1>2. pc \in Nat \ {0} /\ RowOK(Rows[row])
  BY Scripts DEF Moves, InScript
<1>3. op \in Ops(Rows[row].finally)
  BY DEF Undoes
<1>4. CASE part \in {"body", "bail"} /\ GoesOn
  BY <1>1, <1>3, <1>4 DEF Undoes, GoesOn
<1>5. CASE part \in {"body", "bail"} /\ Leaves
  <2>1. part' \in {"bail", "finally"} /\ pc' = 1
    BY <1>5 DEF Leaves
  <2>2. \E i \in 1 .. Len(Rows[row].finally) : Rows[row].finally[i].op = op
    BY <1>2, <1>3, RowFacts, LenProperties DEF Ops
  <2> QED BY <1>1, <1>3, <2>1, <2>2 DEF Undoes
<1>6. CASE part = "finally"
  <2>1. GoesOn
    BY <1>6 DEF Moves, Leaves
  <2>2. PICK i \in pc .. Len(Rows[row].finally) : Rows[row].finally[i].op = op
    BY <1>6 DEF Undoes
  <2>3. s = Rows[row].finally[pc]
    BY <1>6, Scripts DEF s
  <2>4. i # pc
    BY <1>6, <2>2, <2>3
  <2>5. i \in (pc + 1) .. Len(Rows[row].finally)
    BY <1>2, <2>2, <2>4
  <2> QED BY <1>1, <1>3, <1>6, <2>1, <2>2, <2>5 DEF Undoes, GoesOn
<1> QED BY <1>4, <1>5, <1>6 DEF Undoes, Moves

LEMMA ControlKept ==
  ASSUME Control, Moves
  PROVE  Control'
<1>1. kind' = kind /\ over' = over /\ n' = n /\ row' = row
  BY DEF Moves, suiteVars
<1>2. part # "between" /\ RowOK(Rows[row]) /\ pc \in Nat \ {0} /\ Len(Script) \in Nat
      /\ pc <= Len(Script)
  BY Scripts DEF Moves, InScript
<1>3. row \in 1 .. Len(Rows) /\ n \in Pid
  BY <1>2 DEF Control
<1>4. ~Past("gates")'
  BY PastKept DEF Moves, Control, GoesOn, Leaves
<1>5. CASE GoesOn
  <2>1. Script' = Script
    BY <1>1, <1>5, SameScript DEF GoesOn
  <2>2. pc' \in 1 .. (Len(Script) + 1)
    BY <1>2, <1>5 DEF GoesOn
  <2> QED BY <1>1, <1>3, <1>4, <1>5, <2>1, <2>2 DEF Control, GoesOn
<1>6. CASE Leaves
  <2>1. /\ part' \in {"bail", "finally", "cleanup"} /\ pc' = 1
        /\ part' = "bail" => report' = "none"
        /\ part' # "bail" => report' \in Statuses \cup {"aborted"}
    BY <1>6 DEF Leaves, Control
  <2>2. Script' \in Seq(Step)
    BY <1>1, <1>2, <2>1, RowFacts DEF Script
  <2>3. pc' \in 1 .. (Len(Script') + 1)
    BY <2>1, <2>2, LenProperties
  <2>4. "none" \notin Statuses \cup {"aborted"}
    BY DEF Statuses
  <2> QED BY <1>1, <1>3, <1>4, <2>1, <2>3, <2>4 DEF Control
<1> QED BY <1>5, <1>6 DEF Moves

LEMMA StillThere ==
  ASSUME UNCHANGED <<n, row, rowVars>>
  PROVE  /\ part' = part /\ pc' = pc /\ row' = row /\ report' = report /\ n' = n
            /\ Script' = Script
         /\ \A op : (Undoes(op)' <=> Undoes(op)) /\ (Past(op)' <=> Past(op))
<1>1. /\ part' = part /\ pc' = pc /\ row' = row /\ report' = report /\ n' = n
  BY DEF rowVars
<1>2. Script' = Script
  BY <1>1 DEF Script
<1>3. \A op : (Undoes(op)' <=> Undoes(op)) /\ (Past(op)' <=> Past(op))
  BY <1>1 DEF Undoes, Past
<1> QED BY <1>1, <1>2, <1>3

LEMMA ControlStays ==
  ASSUME Control, UNCHANGED <<n, row, rowVars>>, UNCHANGED kind,
         over' \in {"no", "done", "stopped", "aborted"}
  PROVE  Control'
  BY StillThere DEF Control

-----------------------------------------------------------------------------
(* The fixtures *)

Types ==
  /\ local \in Local
  /\ alive \in SUBSET Pid /\ told \in SUBSET Pid /\ socks \in SUBSET Pid
  /\ pinned \in SUBSET Pid /\ exporting \in SUBSET Pid /\ settling \in SUBSET Pid
  /\ deaf \in SUBSET Pid /\ refused \in SUBSET Pid /\ cancelled \in SUBSET Pid
  /\ loads \in SUBSET Pid /\ unstopped \in SUBSET Pid
  /\ dirs \in SUBSET Pid /\ unremoved \in SUBSET Pid
  /\ forced \in BOOLEAN /\ lost \in BOOLEAN

\* What nobody has tried to undo yet: helpers, snapshots, exports and loads.
Untold == alive \ told
Held   == pinned \ (deaf \cup refused)
Going  == exporting \ (deaf \cup cancelled)
Shown  == loads \ unstopped

LoadInv == \A i \in Shown : i = n /\ local.load /\ Undoes("teardown")

ModeInv ==
  /\ Past("mode") => lost \/ local.modeset # "none"
  /\ part = "body" /\ local.modeset # "none" => Past("mode")
  /\ forced => lost \/ (local.modeset = "set" /\ Undoes("restore"))

HelperInv ==
  /\ alive \subseteq 1 .. n
  /\ \A i \in Untold : i = n /\ local.spawned /\ Undoes("sigterm")

SnapshotInv ==
  \A i \in Held :
    /\ i = n /\ local.rpc /\ Undoes("release")
    /\ local.snapshotId \/ (InScript /\ s.op = "snapshotId")

ExportInv ==
  \A i \in Going : i = n /\ local.rpc /\ local.exportId /\ Undoes("cancel")

DirInv ==
  /\ \A i \in dirs \ unremoved : i = n /\ local.dir /\ part # "between"
  /\ n \in dirs \ unremoved /\ ~local.owned => Undoes("rmdir")
  /\ n \in dirs \ unremoved /\ part = "cleanup" =>
       \E i \in pc .. Len(Rows[row].cleanup) : Rows[row].cleanup[i].op = "rmdir"
  /\ Past("mkdir") => n \in dirs
  /\ part = "body" => (local.owned <=> Past("hand"))
  /\ part = "bail" => ~local.owned
  /\ part = "finally" => (local.owned <=> report = "none")
  /\ part \in {"caller", "cleanup"} => local.owned
  /\ part \in {"finally", "caller"} /\ local.owned => n \in dirs
  /\ part # "between" /\ local.owned => Handed(Rows[row])

CountInv ==
  /\ part # "between" => n \notin local.base
  /\ part = "body" /\ ~Past("spawn") => n \notin alive
  /\ Past("count") /\ local.left = {} => n \notin alive
  /\ row > 0 /\ Rows[row].id \in CleanupRows /\ report = "pass" => n \notin alive

Fixtures ==
  /\ Types /\ LoadInv /\ ModeInv /\ HelperInv /\ SnapshotInv /\ ExportInv /\ DirInv /\ CountInv

\* The inductive invariant: what has begun and is not undone is known to the driver, and the
\* step that undoes it is ahead in the finally block.
IInv == Control /\ Fixtures

\* Each part of the invariant is kept by the steps that leave its variables alone.
LEMMA LoadFrame ==
  ASSUME Control, LoadInv, Moves, s.op # "teardown", Shown' \subseteq Shown,
         local'.load = local.load
  PROVE  LoadInv'
<1>1. n' = n
  BY DEF Moves, suiteVars
<1>2. Undoes("teardown") => Undoes("teardown")'
  BY UndoesKept
<1> QED BY <1>1, <1>2 DEF LoadInv

LEMMA ModeFrame ==
  ASSUME Control, ModeInv, Moves, s.op \notin {"mode", "restore"}, forced' = forced, lost' = lost,
         local'.modeset = local.modeset
  PROVE  ModeInv'
<1>1. Past("mode")' => Past("mode")
  BY PastKept
<1>2. part' = "body" => part = "body" /\ GoesOn
  BY DEF Moves, Leaves, GoesOn
<1>3. part' = "body" /\ Past("mode") => Past("mode")'
  BY <1>2, PastKept
<1>4. Undoes("restore") => Undoes("restore")'
  BY UndoesKept
<1> QED BY <1>1, <1>2, <1>3, <1>4 DEF ModeInv

LEMMA HelperFrame ==
  ASSUME Control, HelperInv, Moves, s.op # "sigterm", alive' = alive, Untold' \subseteq Untold,
         local'.spawned = local.spawned
  PROVE  HelperInv'
<1>1. n' = n
  BY DEF Moves, suiteVars
<1>2. Undoes("sigterm") => Undoes("sigterm")'
  BY UndoesKept
<1> QED BY <1>1, <1>2 DEF HelperInv

LEMMA SnapshotFrame ==
  ASSUME Control, SnapshotInv, Moves, s.op \notin {"snapshotId", "release"},
         Held' \subseteq Held,
         local.rpc => local'.rpc, local'.snapshotId = local.snapshotId
  PROVE  SnapshotInv'
<1>1. n' = n
  BY DEF Moves, suiteVars
<1>2. Undoes("release") => Undoes("release")'
  BY UndoesKept
<1>3. ASSUME NEW i \in Held'
      PROVE  i = n /\ local'.rpc /\ Undoes("release")' /\ local'.snapshotId
  BY <1>2 DEF SnapshotInv
<1> QED BY <1>1, <1>3 DEF SnapshotInv

LEMMA ExportFrame ==
  ASSUME Control, ExportInv, Moves, s.op # "cancel",
         Going' \subseteq Going,
         local.rpc => local'.rpc, local'.exportId = local.exportId
  PROVE  ExportInv'
<1>1. n' = n
  BY DEF Moves, suiteVars
<1>2. Undoes("cancel") => Undoes("cancel")'
  BY UndoesKept
<1> QED BY <1>1, <1>2 DEF ExportInv

LEMMA CountFrame ==
  ASSUME Control, CountInv, Moves, s.op \notin {"spawn", "count", "gates"}, alive' = alive,
         local'.base = local.base, local'.left = local.left
  PROVE  CountInv'
<1>1. n' = n /\ row' = row /\ part # "between"
  BY DEF Moves, suiteVars, InScript
<1>2. Past("count")' => Past("count")
  BY PastKept
<1>3. part' = "body" => part = "body" /\ GoesOn
  BY DEF Moves, Leaves, GoesOn
<1>4. part' = "body" /\ Past("spawn") => Past("spawn")'
  BY <1>3, PastKept
<1>5. report' = "pass" => report = "pass"
  BY DEF Moves
<1> QED BY <1>1, <1>2, <1>3, <1>4, <1>5 DEF CountInv

\* The directory is handed over in the last step of a body.
LEMMA NotHanded ==
  ASSUME Control, DirInv, InScript, part = "body"
  PROVE  ~local.owned
<1> SUFFICES ASSUME local.owned PROVE FALSE
  OBVIOUS
<1>1. PICK i \in 1 .. (pc - 1) : Rows[row].body[i].op = "hand"
  BY DEF DirInv, Past
<1>2. HandsLast(Rows[row].body)
  BY DEF DirInv, Handed
<1>3. /\ pc \in Nat /\ pc <= Len(Rows[row].body) /\ Len(Rows[row].body) \in Nat
      /\ DOMAIN Rows[row].body = 1 .. Len(Rows[row].body)
  BY Scripts, LenProperties DEF InScript
<1>4. i = Len(Rows[row].body)
  BY <1>1, <1>2, <1>3 DEF HandsLast
<1> QED BY <1>1, <1>3, <1>4

LEMMA DirFrame ==
  ASSUME Control, DirInv, Moves, s.op \notin {"mkdir", "hand", "rmdir"}, dirs' = dirs, unremoved' = unremoved,
         local'.dir = local.dir, local'.owned = local.owned
  PROVE  DirInv'
<1>1. row' = row /\ n' = n /\ InScript
  BY DEF Moves, suiteVars
<1>2. Undoes("rmdir") => Undoes("rmdir")'
  BY UndoesKept
<1>3. /\ Past("mkdir")' => Past("mkdir")
      /\ Past("hand")' => Past("hand")
      /\ GoesOn /\ Past("hand") => Past("hand")'
  BY PastKept
<1>4. part # "cleanup"
  BY <1>1, Places
<1>5. CASE GoesOn
  <2>1. part' = part /\ report' = report /\ part # "between"
    BY <1>1, <1>5 DEF GoesOn, InScript
  <2> QED BY <1>1, <1>2, <1>3, <1>4, <1>5, <2>1 DEF DirInv
<1>6. CASE Leaves /\ part \in {"body", "bail"}
  <2>1. ~local.owned
    BY <1>1, <1>6, NotHanded DEF DirInv
  <2>2. part' \in {"bail", "finally"} /\ (part' = "finally" => report' # "none")
    BY <1>6 DEF Leaves, Statuses
  <2>3. ~Past("mkdir")'
    BY <2>2 DEF Past
  <2> QED BY <1>1, <1>2, <2>1, <2>2, <2>3 DEF DirInv
<1>7. CASE Leaves /\ part = "caller"
  <2>1. local.owned /\ Handed(Rows[row])
    BY <1>7 DEF DirInv
  <2>2. part' = "cleanup" /\ pc' = 1
    BY <1>7 DEF Leaves
  <2>3. PICK i \in 1 .. Len(Rows[row].cleanup) : Rows[row].cleanup[i].op = "rmdir"
    <3>1. Rows[row].cleanup \in Seq(Step)
      BY <1>1, Scripts, RowFacts DEF InScript
    <3> QED BY <2>1, <3>1, LenProperties DEF Handed, Ops
  <2>4. ~Past("mkdir")'
    BY <2>2 DEF Past
  <2> QED BY <1>1, <2>1, <2>2, <2>3, <2>4 DEF DirInv
<1> QED BY <1>5, <1>6, <1>7 DEF Moves, Leaves

-----------------------------------------------------------------------------
(* Where no step of a script is made *)

\* The environment only takes away.
LEMMA EnvFrame ==
  ASSUME IInv, Control', UNCHANGED <<n, row, rowVars>>, local' = local,
         Types', alive' \subseteq alive, Untold' \subseteq Untold, Held' \subseteq Held,
         Going' \subseteq Going, Shown' \subseteq Shown, UNCHANGED <<lost, dirVars>>,
         forced' => forced
  PROVE  IInv'
<1>1. /\ part' = part /\ pc' = pc /\ row' = row /\ report' = report /\ n' = n /\ Script' = Script
      /\ \A op : (Undoes(op)' <=> Undoes(op)) /\ (Past(op)' <=> Past(op))
  BY StillThere
<1>3. LoadInv'
  BY <1>1 DEF IInv, Fixtures, LoadInv
<1>4. ModeInv'
  BY <1>1 DEF IInv, Fixtures, ModeInv
<1>5. HelperInv'
  BY <1>1 DEF IInv, Fixtures, HelperInv
<1>6. SnapshotInv'
  BY <1>1 DEF IInv, Fixtures, SnapshotInv, InScript, s
<1>7. ExportInv'
  BY <1>1 DEF IInv, Fixtures, ExportInv
<1>8. DirInv'
  BY <1>1 DEF IInv, Fixtures, DirInv, dirVars
<1>9. CountInv'
  BY <1>1 DEF IInv, Fixtures, CountInv
<1> QED BY <1>3, <1>4, <1>5, <1>6, <1>7, <1>8, <1>9 DEF IInv, Fixtures

LEMMA EnvironmentKeeps ==
  ASSUME IInv,
         \/ \E i \in Pid : HelperExits(i) \/ ExportStops(i) \/ LoadEnds(i)
         \/ ModeReverts \/ SuiteEnds \/ UNCHANGED vars
  PROVE  IInv'
<1>1. Types /\ Control
  BY DEF IInv, Fixtures
<1>2. ASSUME NEW i \in Pid, HelperExits(i) PROVE IInv'
  <2>1. /\ UNCHANGED <<suiteVars, rowVars, local, hostVars>>
        /\ alive' = alive \ {i} /\ told' = told \ {i} /\ socks' = socks \ {i}
        /\ pinned' = pinned \ {i} /\ exporting' = exporting \ {i} /\ settling' = settling \ {i}
        /\ deaf' = deaf \ {i} /\ refused' = refused \ {i} /\ cancelled' = cancelled \ {i}
    BY <1>2 DEF HelperExits
  <2>2. Control'
    BY <1>1, <2>1, ControlStays DEF suiteVars, Control
  <2>3. Types'
    BY <1>1, <2>1 DEF Types, hostVars, loadVars, modeVars, dirVars
  <2>4. /\ alive' \subseteq alive /\ Untold' \subseteq Untold /\ Held' \subseteq Held
        /\ Going' \subseteq Going /\ Shown' \subseteq Shown
    BY <2>1 DEF Untold, Held, Going, Shown, hostVars, loadVars
  <2> QED BY <1>1, <2>1, <2>2, <2>3, <2>4, EnvFrame DEF suiteVars, hostVars, modeVars
<1>3. ASSUME NEW i \in Pid, ExportStops(i) \/ LoadEnds(i) PROVE IInv'
  <2>1. /\ UNCHANGED <<suiteVars, rowVars, local, alive, told, socks, pinned, answerVars,
                        modeVars, dirVars>>
        /\ exporting' \in {exporting, exporting \ {i}}
        /\ settling' \in {settling, settling \cup {i}, settling \ {i}}
        /\ (loads' = loads /\ unstopped' = unstopped)
           \/ (loads' = loads \ {i} /\ unstopped' = unstopped \ {i})
    BY <1>3 DEF ExportStops, LoadEnds, helperVars, heldVars, hostVars, loadVars
  <2>2. Control'
    BY <1>1, <2>1, ControlStays DEF suiteVars, Control
  <2>3. Types'
    BY <1>1, <2>1 DEF Types, answerVars, modeVars, dirVars
  <2>4. /\ Untold' \subseteq Untold /\ Held' \subseteq Held
        /\ Going' \subseteq Going /\ Shown' \subseteq Shown
    BY <2>1 DEF Untold, Held, Going, Shown, answerVars
  <2> QED BY <1>1, <2>1, <2>2, <2>3, <2>4, EnvFrame DEF suiteVars, modeVars
<1>4. CASE ModeReverts \/ SuiteEnds \/ UNCHANGED vars
  <2>1. /\ UNCHANGED <<kind, n, row, rowVars, local, helperVars, loadVars, lost, dirVars>>
        /\ forced' = forced \/ forced' = FALSE
        /\ over' = over \/ over' = "done"
    BY <1>4 DEF ModeReverts, SuiteEnds, vars, suiteVars, hostVars, modeVars
  <2>2. Control'
    BY <1>1, <2>1, ControlStays DEF Control
  <2>3. Types'
    BY <1>1, <2>1 DEF Types, helperVars, heldVars, answerVars, loadVars, dirVars
  <2>4. /\ alive' = alive /\ Untold' \subseteq Untold /\ Held' \subseteq Held
        /\ Going' \subseteq Going /\ Shown' \subseteq Shown
    BY <2>1 DEF Untold, Held, Going, Shown, helperVars, heldVars, answerVars, loadVars
  <2>5. forced' => forced
    BY <2>1
  <2> QED BY <1>1, <2>1, <2>2, <2>3, <2>4, <2>5, EnvFrame DEF rowVars
<1> QED BY <1>2, <1>3, <1>4

\* Between rows, and at the end of a finally or a clean-up block, nothing is to be undone.
LEMMA NoneUndone ==
  ASSUME Control, part = "between" \/ (part \in {"finally", "cleanup"} /\ pc > Len(Script)),
           NEW op
  PROVE  ~Undoes(op)
<1>1. CASE part = "finally"
  <2>1. Script = Rows[row].finally /\ Len(Script) \in Nat /\ pc \in Nat
    BY <1>1, Scripts
  <2> QED BY <1>1, <2>1 DEF Undoes
<1>2. CASE part # "finally"
  BY <1>2 DEF Undoes
<1> QED BY <1>1, <1>2

LEMMA FreshIsLocal ==
  /\ Fresh \in Local /\ Fresh.base = {} /\ ~Fresh.owned
  /\ Fresh.modeset = "none"
  BY DEF Fresh, Local

\* A row begins with nothing left but helpers that were told to end.
LEMMA BeginKeeps ==
  ASSUME IInv, Begin
  PROVE  IInv'
<1>1. /\ part = "between" /\ n' = n + 1 /\ local' = Fresh /\ report' = "none" /\ pc' = 1
      /\ row' \in (row + 1) .. Len(IF kind = "smoke" THEN SmokeRows ELSE Rows)
      /\ kind' = kind /\ UNCHANGED <<helperVars, hostVars>>
      /\ (part' = "body" /\ over' = over) \/ (over' = "aborted" /\ part' = "between")
  BY DEF Begin
<1>2. Control /\ Types
  BY DEF IInv, Fixtures
<1>3. \A op : ~Undoes(op)
  BY <1>1, <1>2, NoneUndone
<1>4. \A op : ~Past(op)'
  BY <1>1 DEF Past
<1>5. n' \in Pid
  <2>1. n < IF kind = "row" THEN 1 ELSE MaxRows
    BY DEF Begin
  <2> QED BY <1>1, <1>2, <2>1, MaxRowsAssumption DEF Control, Pid
<1>6. row' \in 1 .. Len(Rows)
  <2>1. row \in 0 .. 26
    BY <1>2, AllRows DEF Control
  <2>2. PICK m \in {15, 26} : row' \in (row + 1) .. m
    BY <1>1, AllRows
  <2>3. row' \in 1 .. 26
    BY <2>1, <2>2
  <2> QED BY <2>3, AllRows
<1>7. Control'
  <2>1. row' \in 0 .. Len(Rows) /\ n' \in 0 .. MaxRows
    BY <1>5, <1>6, AllRows DEF Pid
  <2>2. RowOK(Rows[row'])
    BY <1>6, AllRows
  <2>3. Len(Script') \in Nat
    <3>1. CASE part' = "body"
      <4>1. Script' = Rows[row'].body
        BY <3>1 DEF Script
      <4> QED BY <2>2, <4>1, RowFacts, LenProperties
    <3>2. CASE part' = "between"
      <4>1. Script' = <<>>
        BY <3>2 DEF Script
      <4> QED BY <4>1
    <3> QED BY <1>1, <3>1, <3>2
  <2>4. pc' \in 1 .. (Len(Script') + 1)
    BY <1>1, <2>3
  <2> QED BY <1>1, <1>2, <1>4, <1>5, <1>6, <2>1, <2>4 DEF Control
<1>8. Types'
  BY <1>1, <1>2, FreshIsLocal DEF Types, helperVars, heldVars, answerVars,
     hostVars, loadVars, modeVars, dirVars
<1>9. LoadInv'
  BY <1>1, <1>3 DEF IInv, Fixtures, LoadInv, Shown, hostVars, loadVars
<1>10. ModeInv'
  BY <1>1, <1>3, <1>4, FreshIsLocal DEF IInv, Fixtures, ModeInv, hostVars, modeVars
<1>11. HelperInv'
  <2>1. alive \subseteq told /\ alive \subseteq 1 .. n
    BY <1>3 DEF IInv, Fixtures, HelperInv, Untold
  <2>2. n \in Nat
    BY <1>2, MaxRowsAssumption DEF Control
  <2> QED BY <1>1, <2>1, <2>2 DEF HelperInv, Untold, helperVars
<1>12. SnapshotInv'
  BY <1>1, <1>3 DEF IInv, Fixtures, SnapshotInv, Held, helperVars, heldVars, answerVars
<1>13. ExportInv'
  BY <1>1, <1>3 DEF IInv, Fixtures, ExportInv, Going, helperVars, heldVars, answerVars
<1>14. DirInv'
  <2>1. dirs \subseteq unremoved
    BY <1>1 DEF IInv, Fixtures, DirInv
  <2> QED BY <1>1, <1>4, <2>1, FreshIsLocal DEF DirInv, hostVars, dirVars
<1>15. CountInv'
  <2>1. n' \notin alive
    <3>1. alive \subseteq 1 .. n /\ n \in Nat
      BY <1>2, MaxRowsAssumption DEF IInv, Fixtures, HelperInv, Control
    <3> QED BY <1>1, <3>1
  <2> QED BY <1>1, <1>4, <2>1, FreshIsLocal DEF CountInv, helperVars
<1> QED BY <1>7, <1>8, <1>9, <1>10, <1>11, <1>12, <1>13, <1>14, <1>15 DEF IInv, Fixtures

\* A body that comes to its end has made every step, and its end is a hand-over.
LEMMA BodyEnds ==
  ASSUME Control, DirInv, part = "body", pc > Len(Script)
  PROVE  local.owned /\ n \in dirs
<1>1. RowOK(Rows[row]) /\ Script = Rows[row].body
  BY Scripts
<1>2. /\ pc \in Nat /\ Len(Rows[row].body) \in Nat /\ pc > Len(Rows[row].body)
      /\ DOMAIN Rows[row].body = 1 .. Len(Rows[row].body)
  BY <1>1, Scripts, RowFacts, LenProperties
<1>3. ASSUME NEW op, op \in Ops(Rows[row].body) PROVE Past(op)
  <2>1. PICK i \in 1 .. Len(Rows[row].body) : Rows[row].body[i].op = op
    BY <1>2, <1>3 DEF Ops
  <2>2. i \in 1 .. (pc - 1)
    BY <1>2
  <2> QED BY <2>1, <2>2 DEF Past
<1>4. "gates" \notin Ops(Rows[row].body)
  BY <1>3 DEF Control
<1>5. Handed(Rows[row])
  BY <1>1, <1>4 DEF RowOK, Judged
<1> QED BY <1>3, <1>5 DEF Handed, DirInv

\* A row goes from one of its sequences to the next, or returns.
LEMMA PartEndsKeeps ==
  ASSUME IInv, PartEnds
  PROVE  IInv'
<1>1. /\ part # "between" /\ pc > Len(Script) /\ pc' = 1
      /\ kind' = kind /\ n' = n /\ row' = row /\ local' = local
      /\ UNCHANGED <<helperVars, hostVars>>
  BY DEF PartEnds, Suspend, RowReturns
<1>2. Control /\ Types /\ RowOK(Rows[row])
  BY <1>1, Scripts DEF IInv, Fixtures
<1>3. \/ /\ part = "body" /\ part' = "finally" /\ report' = "none" /\ over' = over
      \/ /\ part = "bail" /\ part' = "finally" /\ report' \in {"error", "skip"} /\ over' = over
      \/ /\ part = "finally" /\ report = "none" /\ part' = "caller" /\ report' = "none"
         /\ over' = over
      \/ /\ part \in {"finally", "cleanup"} /\ report # "none" /\ part' = "between"
         /\ report' = report /\ over' \in {"aborted", "stopped", over}
  <2>1. CASE part = "body"
    BY <1>2, <2>1 DEF PartEnds, Suspend, Control
  <2>2. CASE part = "bail"
    BY <1>2, <2>2 DEF PartEnds, RowOK
  <2>3. CASE part = "finally" /\ report = "none"
    BY <2>3 DEF PartEnds, Suspend
  <2>4. CASE part \in {"finally", "cleanup"} /\ report # "none"
    BY <2>4 DEF PartEnds, RowReturns
  <2>5. part # "caller"
    BY DEF PartEnds
  <2> QED BY <1>1, <1>2, <2>1, <2>2, <2>3, <2>4, <2>5 DEF Control
<1>4. ASSUME NEW op, Undoes(op) PROVE Undoes(op)'
  <2>1. part \in {"body", "bail"}
    BY <1>2, <1>3, <1>4, NoneUndone, <1>1
  <2>2. op \in Ops(Rows[row].finally) /\ Rows[row].finally \in Seq(Step)
    BY <1>2, <1>4, RowFacts DEF Undoes
  <2>3. PICK i \in 1 .. Len(Rows[row].finally) : Rows[row].finally[i].op = op
    BY <2>2, LenProperties DEF Ops
  <2> QED BY <1>1, <1>3, <2>1, <2>2, <2>3 DEF Undoes
<1>5. /\ part' # "body" /\ \A op : ~Past(op)'
      /\ report' = "pass" => report = "pass"
  BY <1>3 DEF Past
<1>6. Control'
  <2>1. Len(Script') \in Nat
    <3>1. CASE part' = "finally"
      <4>1. Script' = Rows[row].finally
        BY <1>1, <3>1 DEF Script
      <4> QED BY <1>2, <4>1, RowFacts, LenProperties
    <3>2. CASE part' = "caller"
      <4>1. Script' = Rows[row].caller
        BY <1>1, <3>2 DEF Script
      <4> QED BY <1>2, <4>1, RowFacts, LenProperties
    <3>3. CASE part' = "between"
      <4>1. Script' = <<>>
        BY <3>3 DEF Script
      <4> QED BY <4>1
    <3> QED BY <1>3, <3>1, <3>2, <3>3
  <2>2. pc' \in 1 .. (Len(Script') + 1)
    BY <1>1, <2>1
  <2>3. over' \in {"no", "done", "stopped", "aborted"}
    BY <1>2, <1>3 DEF Control
  <2>4. report' \in Statuses \cup {"none", "aborted"}
    BY <1>2, <1>3 DEF Control, Statuses
  <2>5. row \in 1 .. Len(Rows) /\ n \in Pid
    BY <1>1, <1>2 DEF Control
  <2>6. /\ part' \in {"between", "finally", "caller"}
        /\ part' = "caller" => report' = "none"
    BY <1>3
  <2> QED BY <1>1, <1>2, <1>5, <2>2, <2>3, <2>4, <2>5, <2>6 DEF Control
<1>7. Types'
  BY <1>1, <1>2 DEF Types, helperVars, heldVars, answerVars,
     hostVars, loadVars, modeVars, dirVars
<1>8. LoadInv'
  BY <1>1, <1>4 DEF IInv, Fixtures, LoadInv, Shown, hostVars, loadVars
<1>9. ModeInv'
  BY <1>1, <1>4, <1>5 DEF IInv, Fixtures, ModeInv, hostVars, modeVars
<1>10. HelperInv'
  BY <1>1, <1>4 DEF IInv, Fixtures, HelperInv, Untold, helperVars
<1>11. SnapshotInv'
  <2>1. ~InScript
    BY <1>1, <1>2, Scripts DEF InScript
  <2> QED BY <1>1, <1>4, <2>1 DEF IInv, Fixtures, SnapshotInv, Held, helperVars, heldVars, answerVars
<1>12. ExportInv'
  BY <1>1, <1>4 DEF IInv, Fixtures, ExportInv, Going, helperVars, heldVars, answerVars
<1>13. CountInv'
  BY <1>1, <1>5 DEF IInv, Fixtures, CountInv, helperVars
<1>14. DirInv'
  <2>0. DirInv /\ dirs' = dirs /\ unremoved' = unremoved
    BY <1>1 DEF IInv, Fixtures, hostVars, dirVars
  <2>1. CASE part = "body"
    <3>1. part' = "finally" /\ report' = "none"
      BY <1>3, <2>1
    <3>2. local.owned /\ n \in dirs
      BY <1>1, <1>2, <2>0, <2>1, BodyEnds
    <3> QED BY <1>1, <1>5, <2>0, <3>1, <3>2 DEF DirInv
  <2>2. CASE part = "bail"
    <3>1. part' = "finally" /\ report' # "none"
      BY <1>3, <2>2
    <3>2. ~local.owned
      BY <2>0, <2>2 DEF DirInv
    <3> QED BY <1>1, <1>4, <1>5, <2>0, <3>1, <3>2 DEF DirInv
  <2>3. CASE part = "finally" /\ report = "none"
    <3>1. part' = "caller"
      BY <1>3, <2>3
    <3>2. local.owned /\ n \in dirs
      BY <2>0, <2>3 DEF DirInv
    <3> QED BY <1>1, <1>5, <2>0, <3>1, <3>2 DEF DirInv
  <2>4. CASE part' = "between"
    <3>1. dirs \subseteq unremoved
      <4>1. CASE part = "finally"
        <5>1. ~local.owned
          BY <1>3, <2>0, <2>4, <4>1 DEF DirInv
        <5>2. ~Undoes("rmdir")
          BY <1>1, <1>2, <4>1, NoneUndone
        <5> QED BY <2>0, <5>1, <5>2 DEF DirInv
      <4>2. CASE part = "cleanup"
        <5>1. Script = Rows[row].cleanup /\ pc \in Nat /\ Len(Script) \in Nat
          BY <1>2, <4>2, Scripts
        <5>2. ~(\E i \in pc .. Len(Rows[row].cleanup) : Rows[row].cleanup[i].op = "rmdir")
          BY <1>1, <5>1
        <5> QED BY <2>0, <4>2, <5>2 DEF DirInv
      <4> QED BY <1>3, <2>4, <4>1, <4>2
    <3> QED BY <1>1, <1>5, <2>0, <2>4, <3>1 DEF DirInv
  <2> QED BY <1>3, <2>1, <2>2, <2>3, <2>4
<1> QED BY <1>6, <1>7, <1>8, <1>9, <1>10, <1>11, <1>12, <1>13, <1>14 DEF IInv, Fixtures

-----------------------------------------------------------------------------
(* The steps *)

SameLoad     == Shown' \subseteq Shown /\ local'.load = local.load
SameMode     == forced' = forced /\ lost' = lost /\ local'.modeset = local.modeset
SameHelper   == alive' = alive /\ Untold' \subseteq Untold /\ local'.spawned = local.spawned
SameSnapshot == /\ Held' \subseteq Held
                /\ (local.rpc => local'.rpc) /\ local'.snapshotId = local.snapshotId
SameExport   == /\ Going' \subseteq Going
                /\ (local.rpc => local'.rpc) /\ local'.exportId = local.exportId
SameDir      == UNCHANGED dirVars /\ local'.dir = local.dir /\ local'.owned = local.owned
SameCount    == alive' = alive /\ local'.base = local.base /\ local'.left = local.left

\* The same, all at once.
LEMMA Frames ==
  ASSUME IInv, Moves
  PROVE  /\ Control'
         /\ SameLoad /\ s.op # "teardown" => LoadInv'
         /\ SameMode /\ s.op \notin {"mode", "restore"} => ModeInv'
         /\ SameHelper /\ s.op # "sigterm" => HelperInv'
         /\ SameSnapshot /\ s.op \notin {"snapshotId", "release"} => SnapshotInv'
         /\ SameExport /\ s.op # "cancel" => ExportInv'
         /\ SameDir /\ s.op \notin {"mkdir", "hand", "rmdir"} => DirInv'
         /\ SameCount /\ s.op \notin {"spawn", "count", "gates"} => CountInv'
<1>1. Control'
  BY ControlKept DEF IInv
<1>2. SameLoad /\ s.op # "teardown" => LoadInv'
  BY LoadFrame DEF IInv, Fixtures, SameLoad
<1>3. SameMode /\ s.op \notin {"mode", "restore"} => ModeInv'
  BY ModeFrame DEF IInv, Fixtures, SameMode
<1>4. SameHelper /\ s.op # "sigterm" => HelperInv'
  BY HelperFrame DEF IInv, Fixtures, SameHelper
<1>5. SameSnapshot /\ s.op \notin {"snapshotId", "release"} => SnapshotInv'
  BY SnapshotFrame DEF IInv, Fixtures, SameSnapshot
<1>6. SameExport /\ s.op # "cancel" => ExportInv'
  BY ExportFrame DEF IInv, Fixtures, SameExport
<1>7. SameDir /\ s.op \notin {"mkdir", "hand", "rmdir"} => DirInv'
  BY DirFrame DEF IInv, Fixtures, SameDir, dirVars
<1>8. SameCount /\ s.op \notin {"spawn", "count", "gates"} => CountInv'
  BY CountFrame DEF IInv, Fixtures, SameCount
<1> QED BY <1>1, <1>2, <1>3, <1>4, <1>5, <1>6, <1>7, <1>8

LEMMA InBody ==
  ASSUME Control, InScript, s.op \notin Undos \cup {"look", "read", "gates", "shutdown"}
  PROVE  part = "body" /\ report = "none"
  BY Places DEF Control, Undos, InScript

\* What a body does its finally block undoes.
LEMMA Undoing ==
  ASSUME Control, InScript, part = "body"
  PROVE  /\ s.op = "load" => Undoes("teardown")
         /\ s.op \in {"mode", "remode"} => Undoes("restore")
         /\ s.op = "spawn" => Undoes("sigterm")
         /\ s.op = "save" => Undoes("release")
         /\ s.op = "export" => Undoes("cancel")
         /\ s.op = "mkdir" => Undoes("rmdir")
<1>1. RowOK(Rows[row])
  BY Scripts DEF InScript
<1>2. s.op \in Ops(Rows[row].body)
  BY Places
<1>3. Undone(Ops(Rows[row].body), Ops(Rows[row].finally))
  BY <1>1 DEF RowOK
<1>4. "remode" \in Ops(Rows[row].body) => "mode" \in Ops(Rows[row].body)
  BY <1>1 DEF RowOK
<1> QED BY <1>2, <1>3, <1>4 DEF Undone, Undoes

\* A step of a higher rank comes after every step of a lower one.
LEMMA Ordered ==
  ASSUME Control, InScript, part = "body", NEW op, Rank(op) # 0, Rank(s.op) # 0
  PROVE  /\ op \in Ops(Rows[row].body) /\ Rank(op) < Rank(s.op) => Past(op)
         /\ Past(op) => Rank(op) <= Rank(s.op)
<1>1. InOrder(Rows[row].body, 0, 5)
  BY Scripts DEF InScript, RowOK, Does
<1>2. /\ pc \in DOMAIN Rows[row].body /\ s = Rows[row].body[pc] /\ pc \in Nat
      /\ DOMAIN Rows[row].body = 1 .. Len(Rows[row].body) /\ Len(Rows[row].body) \in Nat
  BY Places, Scripts, RowFacts, LenProperties DEF InScript
<1>3. \A x : Rank(x) \in 0 .. 5
  BY DEF Rank
<1>4. ASSUME op \in Ops(Rows[row].body), Rank(op) < Rank(s.op) PROVE Past(op)
  <2>1. PICK i \in DOMAIN Rows[row].body : Rows[row].body[i].op = op
    BY <1>4 DEF Ops
  <2>2. ~(pc < i)
    <3> SUFFICES ASSUME pc < i PROVE FALSE
      OBVIOUS
    <3>1. Rank(s.op) <= Rank(op)
      BY <1>1, <1>2, <2>1 DEF InOrder
    <3>2. Rank(op) \in 0 .. 5 /\ Rank(s.op) \in 0 .. 5
      BY <1>3
    <3> QED BY <1>4, <3>1, <3>2
  <2>3. pc # i
    <3> SUFFICES ASSUME pc = i PROVE FALSE
      OBVIOUS
    <3>1. s.op = op
      BY <1>2, <2>1
    <3>2. Rank(op) \in 0 .. 5
      BY <1>3
    <3> QED BY <1>4, <3>1, <3>2
  <2>4. i \in 1 .. (pc - 1)
    BY <1>2, <2>2, <2>3
  <2> QED BY <2>1, <2>4 DEF Past
<1>5. ASSUME Past(op) PROVE Rank(op) <= Rank(s.op)
  <2>1. PICK i \in 1 .. (pc - 1) : Rows[row].body[i].op = op
    BY <1>5 DEF Past
  <2>2. i \in DOMAIN Rows[row].body /\ i < pc
    BY <1>2
  <2> QED BY <1>1, <1>2, <2>1, <2>2 DEF InOrder
<1> QED BY <1>4, <1>5

LEMMA OnceOnly ==
  ASSUME Control, InScript, part = "body", s.op = "mode"
  PROVE  ~Past("mode")
<1>1. Once(Rows[row].body)
  BY Scripts DEF InScript, RowOK, Does
<1>2. /\ pc \in DOMAIN Rows[row].body /\ s = Rows[row].body[pc] /\ pc \in Nat
      /\ DOMAIN Rows[row].body = 1 .. Len(Rows[row].body) /\ Len(Rows[row].body) \in Nat
  BY Places, Scripts, RowFacts, LenProperties DEF InScript
<1>3. ASSUME NEW i \in 1 .. (pc - 1) PROVE Rows[row].body[i].op # "mode"
  <2>1. i \in DOMAIN Rows[row].body /\ i # pc
    BY <1>2
  <2> QED BY <1>1, <1>2, <2>1 DEF Once
<1> QED BY <1>3 DEF Past

LEMMA PastHere ==
  ASSUME Control, Moves, GoesOn, part = "body", NEW op, s.op = op
  PROVE  Past(op)'
<1>1. part' = "body" /\ pc' = pc + 1 /\ row' = row
  BY DEF GoesOn, Moves, suiteVars
<1>2. s = Rows[row].body[pc] /\ pc \in 1 .. ((pc + 1) - 1)
  BY Places, Scripts DEF Moves
<1>3. \E i \in 1 .. (pc' - 1) : Rows[row].body[i].op = op
  BY <1>1, <1>2
<1> QED BY <1>1, <1>3 DEF Past

LEMMA IdNext ==
  ASSUME Control, Moves, GoesOn, part = "body", s.op = "save"
  PROVE  InScript' /\ s'.op = "snapshotId"
<1>1. SaveThenId(Rows[row].body) /\ Script = Rows[row].body
  BY Scripts DEF Moves, InScript, RowOK, Does
<1>2. /\ pc \in DOMAIN Rows[row].body /\ s = Rows[row].body[pc] /\ pc \in Nat
      /\ Len(Rows[row].body) \in Nat
  BY Places, Scripts, RowFacts, LenProperties DEF Moves, InScript
<1>3. pc < Len(Rows[row].body) /\ Rows[row].body[pc + 1].op = "snapshotId"
  BY <1>1, <1>2 DEF SaveThenId
<1>4. part' = "body" /\ pc' = pc + 1 /\ row' = row
  BY DEF GoesOn, Moves, suiteVars
<1>5. Script' = Rows[row].body
  BY <1>4 DEF Script
<1> QED BY <1>2, <1>3, <1>4, <1>5 DEF InScript, s

\* A step that is none of the fixtures' own.
Marked == {"teardown", "mode", "restore", "sigterm", "snapshotId", "release", "cancel", "spawn",
           "count", "gates", "mkdir", "hand", "rmdir"}

LEMMA Quiet ==
  ASSUME IInv, Moves, s.op \notin Marked, Types',
         SameLoad, SameMode, SameHelper, SameSnapshot, SameExport, SameDir, SameCount
  PROVE  IInv'
<1>1. /\ s.op \notin {"teardown", "sigterm", "cancel"} /\ s.op \notin {"mode", "restore"}
      /\ s.op \notin {"snapshotId", "release"} /\ s.op \notin {"mkdir", "hand", "rmdir"}
      /\ s.op \notin {"spawn", "count", "gates"}
  BY DEF Marked
<1> QED BY <1>1, Frames DEF IInv, Fixtures

LEMMA Unchanged ==
  ASSUME IInv, UNCHANGED <<local, helperVars, hostVars>>
  PROVE  /\ Types' /\ SameLoad /\ SameMode /\ SameHelper /\ SameSnapshot /\ SameExport
         /\ SameDir /\ SameCount
<1> USE DEF helperVars, heldVars, answerVars, hostVars, loadVars, modeVars, dirVars
<1>1. Types'
  BY DEF IInv, Fixtures, Types
<1>2. /\ Untold' = Untold /\ Held' = Held /\ Going' = Going /\ Shown' = Shown
  BY DEF Untold, Held, Going, Shown
<1> QED BY <1>1, <1>2 DEF SameLoad, SameMode, SameHelper, SameSnapshot, SameExport, SameDir,
                          SameCount

\* One lemma per kind of step.
LEMMA LookKeeps ==
  ASSUME IInv, Look \/ Call \/ ReadFile \/ Exited \/ LoadRuns
  PROVE  IInv'
<1>1. PICK op \in {"look", "call", "read", "exited", "loadRuns"} :
        At({op}) /\ UNCHANGED suiteVars /\ (Good \/ Bad \/ Throws)
  BY DEF Look, Call, ReadFile, Exited, LoadRuns
<1>2. UNCHANGED <<local, helperVars, hostVars>>
  BY DEF Look, Call, ReadFile, Exited, LoadRuns
<1>3. Moves /\ s.op = op
  <2>1. "gates" \notin {op}
    OBVIOUS
  <2> QED BY <1>1, <2>1, Goes, Here DEF IInv
<1>4. s.op \notin Marked
  BY <1>1, <1>3 DEF Marked
<1> QED BY <1>2, <1>3, <1>4, Unchanged, Quiet

LEMMA ConnectKeeps ==
  ASSUME IInv, Connect \/ Close \/ Shutdown
  PROVE  IInv'
<1>1. PICK op \in {"connect", "close", "shutdown"} :
        At({op}) /\ UNCHANGED suiteVars /\ (Good \/ Bad \/ Throws)
  BY DEF Connect, Close, Shutdown, NoAnswer, Answered, answerVars
<1>2. Moves /\ s.op = op
  <2>1. "gates" \notin {op}
    OBVIOUS
  <2> QED BY <1>1, <2>1, Goes, Here DEF IInv
<1>3. s.op \notin Marked
  BY <1>1, <1>2 DEF Marked
<1>4. Types /\ local \in Local /\ n \in Pid
  BY <1>2 DEF IInv, Fixtures, Types, Control, Moves, InScript
<1>5. /\ local' = local \/ local' = [local EXCEPT !.rpc = TRUE]
      /\ UNCHANGED <<alive, heldVars, refused, cancelled, hostVars>>
      /\ told' \in {told, told \cup {n}} /\ deaf' \in {deaf, deaf \cup {n}}
      /\ socks' \in {socks, socks \cup {n}, socks \ {n}}
  BY DEF Connect, Close, Shutdown, NoAnswer, Answered, answerVars
<1>6. /\ local' \in Local /\ (local.rpc => local'.rpc)
      /\ local'.load = local.load /\ local'.modeset = local.modeset
      /\ local'.spawned = local.spawned /\ local'.snapshotId = local.snapshotId
      /\ local'.exportId = local.exportId /\ local'.dir = local.dir /\ local'.owned = local.owned
      /\ local'.base = local.base /\ local'.left = local.left
  BY <1>4, <1>5 DEF Local
<1>7. Types'
  BY <1>4, <1>5, <1>6 DEF Types, heldVars, hostVars, loadVars, modeVars, dirVars
<1>8. SameLoad /\ SameMode /\ SameHelper /\ SameSnapshot /\ SameExport /\ SameDir /\ SameCount
  <2>1. Untold' \subseteq Untold /\ Held' \subseteq Held /\ Going' \subseteq Going
        /\ Shown' = Shown
    BY <1>5 DEF Untold, Held, Going, Shown, heldVars, hostVars, loadVars
  <2> QED BY <1>5, <1>6, <2>1 DEF SameLoad, SameMode, SameHelper, SameSnapshot, SameExport, SameDir,
                                  SameCount, hostVars, modeVars
<1> QED BY <1>2, <1>3, <1>7, <1>8, Quiet

LEMMA JudgeKeeps ==
  ASSUME IInv, Judge
  PROVE  IInv'
<1>1. /\ At({"gates"}) /\ UNCHANGED <<suiteVars, local, helperVars, hostVars>>
      /\ (local.left = {} /\ Outcome("pass")) \/ Bad \/ Throws
  BY DEF Judge
<1>2. Control /\ InScript /\ s.op = "gates"
  BY <1>1, Here DEF IInv
<1>3. part \in {"body", "caller"}
  BY <1>2, Places DEF Control, InScript, Undos
<1>4. ASSUME Bad \/ Throws PROVE Moves
  <2>1. Leaves /\ (report' = "pass" => report = "pass")
    <3>1. s.op \in Deciding
      BY <1>2 DEF Deciding
    <3> QED BY <1>2, <1>4, <3>1, Failing
  <2> QED BY <1>1, <1>2, <2>1 DEF Moves
<1>5. ASSUME local.left = {}, Outcome("pass") PROVE Moves
  <2>1. pc' = 1 /\ report' = "pass" /\ part' = IF part = "caller" THEN "cleanup" ELSE "finally"
    BY <1>5 DEF Outcome
  <2>2. Leaves
    BY <1>3, <2>1 DEF Leaves, Statuses
  <2> QED BY <1>1, <1>2, <1>5, <2>2 DEF Moves
<1>6. Moves
  BY <1>1, <1>4, <1>5, Zenon
<1>7. CountInv'
  <2>1. n' = n /\ row' = row /\ local' = local /\ alive' = alive
    BY <1>1 DEF suiteVars, helperVars
  <2>2. part # "between" /\ part' # "body"
    BY <1>2, <1>3, <1>6 DEF InScript, Moves, Leaves, GoesOn
  <2>3. ASSUME Rows[row].id \in CleanupRows, report' = "pass" PROVE n \notin alive
    <3>1. local.left = {}
      <4>1. report # "pass"
        BY <1>2, <1>3 DEF Control
      <4> QED BY <1>6, <2>3, <4>1 DEF Moves
    <3>2. "count" \in Ops(Rows[row].body) /\ "hand" \notin Ops(Rows[row].body)
      BY <1>2, <2>3, Scripts DEF InScript, RowOK, Judged
    <3>3. part = "body"
      BY <1>3, <3>2 DEF IInv, Fixtures, DirInv, Handed
    <3>4. Past("count")
      <4>1. Rank("count") # 0 /\ Rank("gates") # 0 /\ Rank("count") < Rank("gates")
        BY DEF Rank
      <4> QED BY <1>2, <3>2, <3>3, <4>1, Ordered
    <3> QED BY <3>1, <3>4 DEF IInv, Fixtures, CountInv
  <2>4. ~Past("count")'
    BY <2>2 DEF Past
  <2> QED BY <2>1, <2>2, <2>3, <2>4 DEF IInv, Fixtures, CountInv
<1>8. /\ Types' /\ SameLoad /\ SameMode /\ SameHelper /\ SameSnapshot /\ SameExport /\ SameDir
  BY <1>1, Unchanged
<1> QED BY <1>2, <1>6, <1>7, <1>8, Frames DEF IInv, Fixtures

LEMMA BaselineKeeps ==
  ASSUME IInv, Baseline
  PROVE  IInv'
<1>1. /\ At({"baseline"}) /\ UNCHANGED <<suiteVars, helperVars, hostVars>>
      /\ Good \/ Bad \/ Throws
      /\ local' = local \/ local' = [local EXCEPT !.base = alive]
  BY DEF Baseline, Running
<1>2. Moves /\ InScript /\ s.op = "baseline"
  BY <1>1, Goes, Here DEF IInv
<1>3. part = "body" /\ report = "none"
  BY <1>2, InBody DEF IInv, Undos
<1>4. Types /\ local \in Local /\ alive \in SUBSET Pid
  BY DEF IInv, Fixtures, Types
<1>5. /\ local' \in Local /\ local'.rpc = local.rpc
      /\ local'.load = local.load /\ local'.modeset = local.modeset
      /\ local'.spawned = local.spawned /\ local'.snapshotId = local.snapshotId
      /\ local'.exportId = local.exportId /\ local'.dir = local.dir /\ local'.owned = local.owned
      /\ local'.base \in {local.base, alive} /\ local'.left = local.left
  BY <1>1, <1>4 DEF Local
<1>6. Types'
  BY <1>1, <1>4, <1>5 DEF Types, helperVars, heldVars, answerVars,
     hostVars, loadVars, modeVars, dirVars
<1>7. SameLoad /\ SameMode /\ SameHelper /\ SameSnapshot /\ SameExport /\ SameDir
  <2>1. Untold' = Untold /\ Held' = Held /\ Going' = Going /\ Shown' = Shown
    BY <1>1 DEF Untold, Held, Going, Shown, helperVars, heldVars, answerVars,
       hostVars, loadVars, modeVars, dirVars
  <2> QED BY <1>1, <1>5, <2>1 DEF SameLoad, SameMode, SameHelper, SameSnapshot, SameExport,
       SameDir, helperVars, hostVars, modeVars, dirVars
<1>8. n \notin alive
  <2>1. ~Past("spawn")
    <3>1. Rank("spawn") # 0 /\ Rank("baseline") # 0 /\ ~(Rank("spawn") <= Rank("baseline"))
      BY DEF Rank
    <3> QED BY <1>2, <1>3, <3>1, Ordered DEF IInv
  <2> QED BY <1>3, <2>1 DEF IInv, Fixtures, CountInv
<1>9. CountInv'
  <2>1. n' = n /\ row' = row /\ alive' = alive
    BY <1>1 DEF suiteVars, helperVars
  <2>2. report' # "pass"
    BY <1>2, <1>3 DEF Moves
  <2> QED BY <1>3, <1>5, <1>8, <2>1, <2>2 DEF IInv, Fixtures, CountInv
<1> QED BY <1>2, <1>6, <1>7, <1>9, Frames DEF IInv, Fixtures

LEMMA CountKeeps ==
  ASSUME IInv, Count
  PROVE  IInv'
<1>1. /\ At({"count"}) /\ UNCHANGED <<suiteVars, helperVars, hostVars>>
      /\ \/ Good /\ local' = [local EXCEPT !.left = alive \ local.base]
         \/ Throws /\ local' = local
  BY DEF Count, Running
<1>2. Moves /\ InScript /\ s.op = "count" /\ Control
  BY <1>1, Goes, Here DEF IInv
<1>3. part = "body" /\ report = "none"
  BY <1>2, InBody DEF Undos
<1>4. Types /\ local \in Local /\ alive \in SUBSET Pid
  BY DEF IInv, Fixtures, Types
<1>5. /\ local' \in Local /\ local'.rpc = local.rpc
      /\ local'.load = local.load /\ local'.modeset = local.modeset
      /\ local'.spawned = local.spawned /\ local'.snapshotId = local.snapshotId
      /\ local'.exportId = local.exportId /\ local'.dir = local.dir /\ local'.owned = local.owned
      /\ local'.base = local.base
  BY <1>1, <1>4 DEF Local
<1>6. Types'
  BY <1>1, <1>4, <1>5 DEF Types, helperVars, heldVars, answerVars,
     hostVars, loadVars, modeVars, dirVars
<1>7. SameLoad /\ SameMode /\ SameHelper /\ SameSnapshot /\ SameExport /\ SameDir
  <2>1. Untold' = Untold /\ Held' = Held /\ Going' = Going /\ Shown' = Shown
    BY <1>1 DEF Untold, Held, Going, Shown, helperVars, heldVars, answerVars,
       hostVars, loadVars, modeVars, dirVars
  <2> QED BY <1>1, <1>5, <2>1 DEF SameLoad, SameMode, SameHelper, SameSnapshot, SameExport,
       SameDir, helperVars, hostVars, modeVars, dirVars
<1>8. CountInv'
  <2>1. n' = n /\ row' = row /\ alive' = alive
    BY <1>1 DEF suiteVars, helperVars
  <2>2. report' # "pass"
    BY <1>2, <1>3 DEF Moves
  <2>3. n \notin local.base
    BY <1>3 DEF IInv, Fixtures, CountInv
  <2>4. part' = "body" /\ Past("spawn") => Past("spawn")'
    BY <1>2, PastKept DEF Moves, Leaves
  <2>5. ASSUME Past("count")', local'.left = {} PROVE n \notin alive
    <3>1. GoesOn
      BY <1>2, <2>5, PastKept
    <3>2. ~Throws
      <4>1. s.op \in Deciding
        BY <1>2 DEF Deciding
      <4>2. Throws => Leaves
        BY <1>2, <4>1, Failing
      <4> QED BY <1>3, <3>1, <4>2 DEF Leaves, GoesOn
    <3>3. local'.left = alive \ local.base
      BY <1>1, <1>4, <3>2 DEF Local
    <3> QED BY <2>3, <2>5, <3>3
  <2> QED BY <1>3, <1>5, <2>1, <2>2, <2>3, <2>4, <2>5 DEF IInv, Fixtures, CountInv
<1> QED BY <1>2, <1>6, <1>7, <1>8, Frames DEF IInv, Fixtures

LEMMA SpawnKeeps ==
  ASSUME IInv, Spawn
  PROVE  IInv'
<1>1. /\ At({"spawn"}) /\ UNCHANGED <<suiteVars, socks, heldVars, answerVars, hostVars>>
      /\ \/ /\ Good /\ alive' = alive \cup {n} /\ local' = [local EXCEPT !.spawned = TRUE]
            /\ told' = told
         \/ Throws /\ alive' = alive /\ told' = told /\ local' = local
         \/ Throws /\ alive' = alive \cup {n} /\ told' = told \cup {n} /\ local' = local
  BY DEF Spawn
<1>2. Moves /\ InScript /\ s.op = "spawn" /\ Control
  BY <1>1, Goes, Here DEF IInv
<1>3. part = "body" /\ report = "none"
  BY <1>2, InBody DEF Undos
<1>4. Types /\ local \in Local /\ n \in Pid
  BY <1>2 DEF IInv, Fixtures, Types, Control, InScript
<1>5. /\ local' \in Local /\ local'.rpc = local.rpc
      /\ local'.load = local.load /\ local'.modeset = local.modeset
      /\ local'.snapshotId = local.snapshotId
      /\ local'.exportId = local.exportId /\ local'.dir = local.dir /\ local'.owned = local.owned
      /\ local'.base = local.base /\ local'.left = local.left
      /\ local'.spawned = local.spawned \/ local'.spawned = TRUE
      /\ alive' = alive \cup {n} => local'.spawned \/ n \in told' \/ alive' = alive
  BY <1>1, <1>4 DEF Local
<1>6. Types'
  BY <1>1, <1>4, <1>5 DEF Types, heldVars, answerVars,
     hostVars, loadVars, modeVars, dirVars
<1>7. SameLoad /\ SameMode /\ SameSnapshot /\ SameExport /\ SameDir
  <2>1. Held' = Held /\ Going' = Going /\ Shown' = Shown
    BY <1>1 DEF Held, Going, Shown, heldVars, answerVars, hostVars, loadVars
  <2> QED BY <1>1, <1>5, <2>1 DEF SameLoad, SameMode, SameSnapshot, SameExport, SameDir, hostVars,
                                  modeVars
<1>8. HelperInv'
  <2>1. n' = n /\ Undoes("sigterm")'
    <3>1. Undoes("sigterm")
      BY <1>2, <1>3, Undoing
    <3> QED BY <1>1, <1>2, <1>3, <3>1, UndoesKept DEF suiteVars
  <2>2. alive' \subseteq 1 .. n
    BY <1>1, <1>4 DEF IInv, Fixtures, HelperInv, Pid
  <2>3. ASSUME NEW i \in Untold' PROVE i = n /\ local'.spawned
    BY <1>1, <1>4, <1>5 DEF IInv, Fixtures, HelperInv, Untold, Local
  <2> QED BY <2>1, <2>2, <2>3 DEF HelperInv
<1>9. CountInv'
  <2>1. n' = n /\ row' = row
    BY <1>1 DEF suiteVars
  <2>2. report' # "pass"
    BY <1>2, <1>3 DEF Moves
  <2>3. part' = "body" => Past("spawn")'
    BY <1>2, <1>3, PastHere DEF Moves, Leaves
  <2>4. ~Past("count")'
    <3>1. Rank("count") # 0 /\ Rank("spawn") # 0 /\ ~(Rank("count") <= Rank("spawn"))
      BY DEF Rank
    <3>2. ~Past("count")
      BY <1>2, <1>3, <3>1, Ordered
    <3> QED BY <1>2, <3>2, PastKept
  <2>5. n \notin local'.base
    BY <1>3, <1>5 DEF IInv, Fixtures, CountInv
  <2> QED BY <2>1, <2>2, <2>3, <2>4, <2>5 DEF CountInv
<1> QED BY <1>2, <1>6, <1>7, <1>8, <1>9, Frames DEF IInv, Fixtures

LEMMA SigtermKeeps ==
  ASSUME IInv, Sigterm
  PROVE  IInv'
<1>1. /\ At({"sigterm"})
      /\ Good \/ Throws
      /\ told' = IF local.spawned THEN told \cup {n} ELSE told
      /\ UNCHANGED <<suiteVars, local, alive, socks, heldVars, answerVars, hostVars>>
  BY DEF Sigterm
<1>2. Moves /\ s.op = "sigterm"
  BY <1>1, Goes, Here DEF IInv
<1>3. Types /\ n \in Pid
  BY <1>2 DEF IInv, Fixtures, Control, Moves, InScript
<1>4. Types'
  BY <1>1, <1>3 DEF Types, heldVars, answerVars,
     hostVars, loadVars, modeVars, dirVars
<1>5. SameLoad /\ SameMode /\ SameSnapshot /\ SameExport /\ SameDir /\ SameCount
  <2>1. Held' = Held /\ Going' = Going /\ Shown' = Shown
    BY <1>1 DEF Held, Going, Shown, heldVars, answerVars, hostVars, loadVars
  <2> QED BY <1>1, <2>1 DEF SameLoad, SameMode, SameSnapshot, SameExport, SameDir, SameCount,
                            hostVars, modeVars
<1>6. HelperInv'
  <2>1. n' = n /\ alive' = alive
    BY <1>1 DEF suiteVars
  <2>2. Untold' = {}
    BY <1>1 DEF IInv, Fixtures, HelperInv, Untold
  <2> QED BY <2>1, <2>2 DEF IInv, Fixtures, HelperInv
<1> QED BY <1>2, <1>4, <1>5, <1>6, Frames DEF IInv, Fixtures

LEMMA SaveKeeps ==
  ASSUME IInv, Save
  PROVE  IInv'
<1>1. /\ At({"save"}) /\ UNCHANGED <<suiteVars, local, alive, told, socks, exporting, settling,
                                        refused, cancelled, hostVars>>
      /\ Good \/ Bad \/ Throws
      /\ \/ Good /\ local.rpc /\ pinned' = pinned \cup {n} /\ deaf' = deaf
         \/ pinned' = pinned /\ deaf' = deaf
         \/ pinned' \in {pinned, pinned \cup {n}} /\ deaf' = deaf \cup {n}
  BY DEF Save, NoAnswer, Answered, Refused, Answers
<1>2. Moves /\ InScript /\ s.op = "save" /\ Control
  BY <1>1, Goes, Here DEF IInv
<1>3. part = "body"
  BY <1>2, InBody DEF Undos
<1>4. Types /\ n \in Pid
  BY <1>2 DEF IInv, Fixtures, Control, InScript
<1>5. Types'
  BY <1>1, <1>4 DEF Types, hostVars, loadVars, modeVars, dirVars
<1>6. SameLoad /\ SameMode /\ SameHelper /\ SameExport /\ SameDir /\ SameCount
  <2>1. Untold' = Untold /\ Going' \subseteq Going /\ Shown' = Shown
    BY <1>1 DEF Untold, Going, Shown, hostVars, loadVars
  <2> QED BY <1>1, <2>1 DEF SameLoad, SameMode, SameHelper, SameExport, SameDir, SameCount, hostVars,
                            modeVars
<1>7. SnapshotInv'
  <2>1. n' = n /\ local' = local
    BY <1>1 DEF suiteVars
  <2>2. \A i \in Held : i = n
    BY DEF IInv, Fixtures, SnapshotInv
  <2>3. CASE Good /\ local.rpc /\ pinned' = pinned \cup {n} /\ deaf' = deaf
    <3>1. Undoes("release")'
      BY <1>2, <1>3, Undoing, UndoesKept
    <3>2. InScript' /\ s'.op = "snapshotId"
      BY <1>2, <1>3, <2>3, IdNext DEF Good, GoesOn
    <3>3. Held' \subseteq Held \cup {n}
      BY <1>1, <2>3 DEF Held
    <3> QED BY <2>1, <2>2, <2>3, <3>1, <3>2, <3>3 DEF SnapshotInv
  <2>4. CASE pinned' \in {pinned, pinned \cup {n}} /\ deaf' = deaf \cup {n}
    <3>1. Held' = {}
      BY <1>1, <2>2, <2>4 DEF Held
    <3> QED BY <3>1 DEF SnapshotInv
  <2>5. CASE pinned' = pinned /\ deaf' = deaf
    <3>1. Held' = Held
      BY <1>1, <2>5 DEF Held
    <3>2. ASSUME NEW i \in Held PROVE local.rpc /\ Undoes("release") /\ local.snapshotId
      BY <1>2 DEF IInv, Fixtures, SnapshotInv
    <3>3. Undoes("release") => Undoes("release")'
      BY <1>2, <1>3, UndoesKept
    <3> QED BY <2>1, <2>2, <3>1, <3>2, <3>3 DEF SnapshotInv
  <2> QED BY <1>1, <2>3, <2>4, <2>5
<1> QED BY <1>2, <1>5, <1>6, <1>7, Frames DEF IInv, Fixtures

LEMMA SnapshotIdKeeps ==
  ASSUME IInv, SnapshotId
  PROVE  IInv'
<1>1. /\ At({"snapshotId"})
      /\ Good \/ Bad \/ Throws
      /\ UNCHANGED <<suiteVars, alive, told, socks, heldVars, refused, cancelled, hostVars>>
      /\ \/ local' = [local EXCEPT !.snapshotId = TRUE] /\ deaf' = deaf
         \/ deaf' = deaf \cup {n} /\ local' = local
  BY DEF SnapshotId, Answered
<1>2. Moves /\ InScript /\ s.op = "snapshotId" /\ Control
  BY <1>1, Goes, Here DEF IInv
<1>3. part = "body"
  BY <1>2, InBody DEF Undos
<1>4. Types /\ local \in Local /\ n \in Pid
  BY <1>2 DEF IInv, Fixtures, Types, Control, InScript
<1>5. /\ local' \in Local /\ local'.rpc = local.rpc
      /\ local'.load = local.load /\ local'.modeset = local.modeset
      /\ local'.spawned = local.spawned
      /\ local'.exportId = local.exportId /\ local'.dir = local.dir /\ local'.owned = local.owned
      /\ local'.base = local.base /\ local'.left = local.left
      /\ local'.snapshotId \/ deaf' = deaf \cup {n}
  BY <1>1, <1>4 DEF Local
<1>6. Types'
  BY <1>1, <1>4, <1>5 DEF Types, heldVars, hostVars,
     loadVars, modeVars, dirVars
<1>7. SameLoad /\ SameMode /\ SameHelper /\ SameExport /\ SameDir /\ SameCount
  <2>1. Untold' = Untold /\ Going' \subseteq Going /\ Shown' = Shown
    BY <1>1 DEF Untold, Going, Shown, heldVars, hostVars, loadVars
  <2> QED BY <1>1, <1>5, <2>1 DEF SameLoad, SameMode, SameHelper, SameExport, SameDir, SameCount,
                                  hostVars, modeVars
<1>8. SnapshotInv'
  <2>1. n' = n /\ Held' \subseteq Held /\ (deaf' = deaf \cup {n} => n \notin Held')
    BY <1>1 DEF suiteVars, heldVars, Held
  <2>2. Undoes("release") => Undoes("release")'
    BY <1>2, <1>3, UndoesKept
  <2> QED BY <1>5, <2>1, <2>2 DEF IInv, Fixtures, SnapshotInv
<1> QED BY <1>2, <1>6, <1>7, <1>8, Frames DEF IInv, Fixtures

LEMMA StartExportKeeps ==
  ASSUME IInv, StartExport
  PROVE  IInv'
<1>1. /\ At({"export"}) /\ UNCHANGED <<suiteVars, alive, told, socks, pinned, settling,
                                          refused, cancelled, hostVars>>
      /\ Good \/ Bad \/ Throws
      /\ \/ /\ local.rpc /\ exporting' = exporting \cup {n} /\ deaf' = deaf
            /\ local' = [local EXCEPT !.exportId = TRUE]
         \/ /\ exporting' \in {exporting, exporting \cup {n}} /\ deaf' = deaf \cup {n}
            /\ local' = local
         \/ exporting' = exporting /\ deaf' = deaf /\ local' = local
  BY DEF StartExport, NoAnswer, Answered, Refused, Answers
<1>2. Moves /\ InScript /\ s.op = "export" /\ Control
  BY <1>1, Goes, Here DEF IInv
<1>3. part = "body"
  BY <1>2, InBody DEF Undos
<1>4. Types /\ local \in Local /\ n \in Pid
  BY <1>2 DEF IInv, Fixtures, Types, Control, InScript
<1>5. /\ local' \in Local /\ local'.rpc = local.rpc
      /\ local'.load = local.load /\ local'.modeset = local.modeset
      /\ local'.spawned = local.spawned /\ local'.snapshotId = local.snapshotId
      /\ local'.dir = local.dir /\ local'.owned = local.owned
      /\ local'.base = local.base /\ local'.left = local.left
      /\ (local.rpc /\ local'.exportId) \/ deaf' = deaf \cup {n} \/
         (exporting' = exporting /\ deaf' = deaf /\ local'.exportId = local.exportId)
  BY <1>1, <1>4 DEF Local
<1>6. Types'
  BY <1>1, <1>4, <1>5 DEF Types, hostVars, loadVars,
     modeVars, dirVars
<1>7. deaf \subseteq deaf' /\ exporting' \subseteq exporting \cup {n}
  BY <1>1
<1>8. SameLoad /\ SameMode /\ SameHelper /\ SameSnapshot /\ SameDir /\ SameCount
  <2>1. Untold' = Untold /\ Held' \subseteq Held /\ Shown' = Shown
    BY <1>1, <1>7 DEF Untold, Held, Shown, hostVars, loadVars
  <2> QED BY <1>1, <1>5, <2>1 DEF SameLoad, SameMode, SameHelper, SameSnapshot, SameDir, SameCount,
                                  hostVars, modeVars
<1>9. ExportInv'
  <2>1. n' = n
    BY <1>1 DEF suiteVars
  <2>2. Undoes("cancel")'
    BY <1>2, <1>3, Undoing, UndoesKept
  <2>3. \A i \in Going' : i = n
    BY <1>1, <1>7 DEF IInv, Fixtures, ExportInv, Going
  <2>4. deaf' = deaf \cup {n} => n \notin Going'
    BY DEF Going
  <2>5. exporting' = exporting /\ deaf' = deaf => Going' = Going
    BY <1>1 DEF Going
  <2> QED BY <1>5, <2>1, <2>2, <2>3, <2>4, <2>5 DEF IInv, Fixtures, ExportInv
<1> QED BY <1>2, <1>6, <1>8, <1>9, Frames DEF IInv, Fixtures

LEMMA TerminalKeeps ==
  ASSUME IInv, Terminal
  PROVE  IInv'
<1>1. /\ At({"terminal"}) /\ UNCHANGED <<suiteVars, helperVars, hostVars>>
      /\ Good \/ Bad \/ Throws
      /\ \/ n \notin exporting /\ local' = [local EXCEPT !.exportId = FALSE]
         \/ local' = local
  BY DEF Terminal
<1>2. Moves /\ InScript /\ s.op = "terminal" /\ Control
  BY <1>1, Goes, Here DEF IInv
<1>3. part = "body"
  BY <1>2, InBody DEF Undos
<1>4. Types /\ local \in Local
  BY DEF IInv, Fixtures, Types
<1>5. /\ local' \in Local /\ local'.rpc = local.rpc
      /\ local'.load = local.load /\ local'.modeset = local.modeset
      /\ local'.spawned = local.spawned /\ local'.snapshotId = local.snapshotId
      /\ local'.dir = local.dir /\ local'.owned = local.owned
      /\ local'.base = local.base /\ local'.left = local.left
      /\ n \notin exporting \/ local'.exportId = local.exportId
  BY <1>1, <1>4 DEF Local
<1>6. Types'
  BY <1>1, <1>4, <1>5 DEF Types, helperVars, heldVars, answerVars,
     hostVars, loadVars, modeVars, dirVars
<1>7. SameLoad /\ SameMode /\ SameHelper /\ SameSnapshot /\ SameDir /\ SameCount
  <2>1. Untold' = Untold /\ Held' = Held /\ Shown' = Shown
    BY <1>1 DEF Untold, Held, Shown, helperVars, heldVars, answerVars, hostVars, loadVars
  <2> QED BY <1>1, <1>5, <2>1 DEF SameLoad, SameMode, SameHelper, SameSnapshot, SameDir,
       SameCount, helperVars, hostVars, modeVars, dirVars
<1>8. ExportInv'
  <2>1. n' = n /\ Going' = Going /\ (n \notin exporting => n \notin Going)
    BY <1>1 DEF suiteVars, Going, helperVars, heldVars, answerVars
  <2>2. Undoes("cancel") => Undoes("cancel")'
    BY <1>2, <1>3, UndoesKept
  <2> QED BY <1>5, <2>1, <2>2 DEF IInv, Fixtures, ExportInv
<1> QED BY <1>2, <1>6, <1>7, <1>8, Frames DEF IInv, Fixtures

LEMMA ReleaseKeeps ==
  ASSUME IInv, Release
  PROVE  IInv'
<1>1. /\ At({"release", "releaseOnce"})
      /\ UNCHANGED <<suiteVars, alive, told, socks, exporting, settling, cancelled, hostVars>>
      /\ Good \/ Bad \/ Throws
      /\ IF local.snapshotId /\ local.rpc
         THEN \/ pinned' = pinned \ {n} /\ deaf' \in {deaf, deaf \cup {n}} /\ refused' = refused
              \/ /\ pinned' = pinned /\ deaf' = deaf
                 /\ refused' = refused \cup {n} \/ (refused' = refused /\ n \notin pinned)
              \/ pinned' = pinned /\ deaf' = deaf \cup {n} /\ refused' = refused
         ELSE pinned' = pinned /\ deaf' = deaf /\ refused' = refused
      /\ \/ local' = local
         \/ local' = [local EXCEPT !.snapshotId = FALSE]
         \/ local' = [local EXCEPT !.snapshotId = @ /\ s.op = "release"]
  BY DEF Release, NoAnswer, Answered, Refused, Answers, Referenced
<1>2. Moves /\ s.op \in {"release", "releaseOnce"}
  BY <1>1, Goes, Here DEF IInv
<1>3. Types /\ local \in Local /\ n \in Pid
  BY <1>2 DEF IInv, Fixtures, Types, Control, Moves, InScript
<1>4. /\ local' \in Local /\ local'.rpc = local.rpc
      /\ local'.load = local.load /\ local'.modeset = local.modeset
      /\ local'.spawned = local.spawned /\ local'.exportId = local.exportId
      /\ local'.dir = local.dir /\ local'.owned = local.owned
      /\ local'.base = local.base /\ local'.left = local.left
  BY <1>1, <1>3 DEF Local
<1>5. /\ pinned' \subseteq pinned
      /\ deaf \subseteq deaf' /\ deaf' \subseteq deaf \cup {n}
      /\ refused \subseteq refused' /\ refused' \subseteq refused \cup {n}
  BY <1>1
<1>6. Types'
  BY <1>1, <1>3, <1>4, <1>5 DEF Types, hostVars, loadVars, modeVars, dirVars
<1>7. SameLoad /\ SameMode /\ SameHelper /\ SameExport /\ SameDir /\ SameCount
  <2>1. Untold' = Untold /\ Going' \subseteq Going /\ Shown' = Shown
    BY <1>1, <1>5 DEF Untold, Going, Shown, hostVars, loadVars
  <2> QED BY <1>1, <1>4, <2>1 DEF SameLoad, SameMode, SameHelper, SameExport, SameDir, SameCount,
                                  hostVars, modeVars
<1>8. SnapshotInv'
  <2>1. \A i \in Held : i = n /\ local.rpc /\ local.snapshotId
    BY <1>2 DEF IInv, Fixtures, SnapshotInv
  <2>2. Held' = {}
    BY <1>1, <2>1 DEF Held
  <2> QED BY <2>2 DEF SnapshotInv
<1> QED BY <1>2, <1>6, <1>7, <1>8, Frames DEF IInv, Fixtures

LEMMA CancelKeeps ==
  ASSUME IInv, Cancel
  PROVE  IInv'
<1>1. /\ At({"cancel"}) /\ UNCHANGED <<suiteVars, local, alive, told, socks, heldVars, refused, hostVars>>
      /\ Good \/ Bad \/ Throws
      /\ IF local.exportId /\ local.rpc
         THEN \/ cancelled' = cancelled \cup {n} /\ deaf' = deaf
              \/ n \notin exporting /\ cancelled' = cancelled /\ deaf' = deaf
              \/ cancelled' = cancelled /\ deaf' = deaf \cup {n}
         ELSE cancelled' = cancelled /\ deaf' = deaf
  BY DEF Cancel, NoAnswer, Answered, Refused, Answers, Referenced
<1>2. Moves /\ s.op = "cancel"
  BY <1>1, Goes, Here DEF IInv
<1>3. Types /\ n \in Pid
  BY <1>2 DEF IInv, Fixtures, Control, Moves, InScript
<1>4. /\ deaf \subseteq deaf' /\ deaf' \subseteq deaf \cup {n}
      /\ cancelled \subseteq cancelled' /\ cancelled' \subseteq cancelled \cup {n}
  BY <1>1
<1>5. Types'
  BY <1>1, <1>3, <1>4 DEF Types, heldVars, hostVars,
     loadVars, modeVars, dirVars
<1>6. SameLoad /\ SameMode /\ SameHelper /\ SameSnapshot /\ SameDir /\ SameCount
  <2>1. Untold' = Untold /\ Held' \subseteq Held /\ Shown' = Shown
    BY <1>1, <1>4 DEF Untold, Held, Shown, heldVars, hostVars, loadVars
  <2> QED BY <1>1, <2>1 DEF SameLoad, SameMode, SameHelper, SameSnapshot, SameDir, SameCount, hostVars,
                            modeVars
<1>7. ExportInv'
  <2>1. \A i \in Going : i = n /\ local.rpc /\ local.exportId
    BY DEF IInv, Fixtures, ExportInv
  <2>2. Going' = {}
    BY <1>1, <2>1 DEF Going, heldVars
  <2> QED BY <2>2 DEF ExportInv
<1> QED BY <1>2, <1>5, <1>6, <1>7, Frames DEF IInv, Fixtures

LEMMA LoadKeeps ==
  ASSUME IInv, Load
  PROVE  IInv'
<1>1. /\ At({"load"}) /\ UNCHANGED <<suiteVars, helperVars, unstopped, modeVars, dirVars>>
      /\ Good \/ Bad \/ Throws
      /\ \/ loads' = loads \cup {n} /\ local' = [local EXCEPT !.load = TRUE]
         \/ loads' = loads /\ local' = local
  BY DEF Load
<1>2. Moves /\ InScript /\ s.op = "load" /\ Control
  BY <1>1, Goes, Here DEF IInv
<1>3. part = "body"
  BY <1>2, InBody DEF Undos
<1>4. Types /\ local \in Local /\ n \in Pid
  BY <1>2 DEF IInv, Fixtures, Types, Control, InScript
<1>5. /\ local' \in Local /\ local'.rpc = local.rpc /\ local'.modeset = local.modeset
      /\ local'.spawned = local.spawned /\ local'.snapshotId = local.snapshotId
      /\ local'.exportId = local.exportId
      /\ local'.dir = local.dir /\ local'.owned = local.owned
      /\ local'.base = local.base /\ local'.left = local.left
      /\ local'.load \/ (loads' = loads /\ local'.load = local.load)
  BY <1>1, <1>4 DEF Local
<1>6. Types'
  BY <1>1, <1>4, <1>5 DEF Types, helperVars, heldVars, answerVars,
     modeVars, dirVars
<1>7. SameMode /\ SameHelper /\ SameSnapshot /\ SameExport /\ SameDir /\ SameCount
  <2>1. Untold' = Untold /\ Held' = Held /\ Going' = Going
    BY <1>1 DEF Untold, Held, Going, helperVars, heldVars, answerVars
  <2> QED BY <1>1, <1>5, <2>1 DEF SameMode, SameHelper, SameSnapshot, SameExport, SameDir, SameCount,
       helperVars, modeVars
<1>8. LoadInv'
  <2>1. Undoes("teardown")'
    BY <1>2, <1>3, Undoing, UndoesKept
  <2>2. n' = n /\ Shown' \subseteq Shown \cup {n} /\ (loads' = loads => Shown' = Shown)
    BY <1>1 DEF suiteVars, Shown
  <2> QED BY <1>5, <2>1, <2>2 DEF IInv, Fixtures, LoadInv
<1> QED BY <1>2, <1>6, <1>7, <1>8, Frames DEF IInv, Fixtures

LEMMA TeardownKeeps ==
  ASSUME IInv, Teardown
  PROVE  IInv'
<1>1. /\ At({"teardown"}) /\ Good
      /\ UNCHANGED <<suiteVars, local, helperVars, modeVars, dirVars>>
      /\ \/ loads' = (IF local.load THEN loads \ {n} ELSE loads) /\ unstopped' = unstopped
         \/ unstopped' = unstopped \cup {n} /\ loads' = loads
  BY DEF Teardown
<1>2. Moves /\ s.op = "teardown"
  BY <1>1, Goes, Here DEF IInv
<1>3. Types /\ n \in Pid
  BY <1>2 DEF IInv, Fixtures, Control, Moves, InScript
<1>4. Types'
  BY <1>1, <1>3 DEF Types, helperVars, heldVars, answerVars, modeVars, dirVars
<1>5. SameMode /\ SameHelper /\ SameSnapshot /\ SameExport /\ SameDir /\ SameCount
  <2>1. Untold' = Untold /\ Held' = Held /\ Going' = Going
    BY <1>1 DEF Untold, Held, Going, helperVars, heldVars, answerVars
  <2> QED BY <1>1, <2>1 DEF SameMode, SameHelper, SameSnapshot, SameExport, SameDir, SameCount,
       helperVars, modeVars
<1>6. LoadInv'
  <2>1. \A i \in Shown : i = n /\ local.load
    BY DEF IInv, Fixtures, LoadInv
  <2>2. Shown' = {}
    BY <1>1, <2>1 DEF Shown
  <2> QED BY <2>2 DEF LoadInv
<1> QED BY <1>2, <1>4, <1>5, <1>6, Frames DEF IInv, Fixtures

LEMMA EnforceKeeps ==
  ASSUME IInv, EnforceDisplayMode
  PROVE  IInv'
<1>1. /\ At({"mode"}) /\ UNCHANGED <<suiteVars, helperVars, loadVars, dirVars>>
      /\ \/ Bad /\ local' = local /\ forced' = forced /\ lost' = lost
         \/ /\ Good /\ local' = [local EXCEPT !.modeset = "same"]
            /\ forced' = forced /\ lost' = lost
         \/ /\ Good \/ Bad
            /\ forced' \in BOOLEAN
            /\ \/ local' = [local EXCEPT !.modeset = "set"] /\ lost' = lost
               \/ local' = local /\ lost' = TRUE
  BY DEF EnforceDisplayMode, modeVars
<1>2. Moves /\ InScript /\ s.op = "mode" /\ Control
  BY <1>1, Goes, Here DEF IInv
<1>3. part = "body"
  BY <1>2, InBody DEF Undos
<1>4. Types /\ local \in Local
  BY DEF IInv, Fixtures, Types
<1>5. /\ local' \in Local /\ local'.rpc = local.rpc /\ local'.load = local.load
      /\ local'.spawned = local.spawned /\ local'.snapshotId = local.snapshotId
      /\ local'.exportId = local.exportId
      /\ local'.dir = local.dir /\ local'.owned = local.owned
      /\ local'.base = local.base /\ local'.left = local.left
  BY <1>1, <1>4 DEF Local
<1>6. /\ forced' \in BOOLEAN /\ lost' \in BOOLEAN
      /\ Bad \/ lost' \/ local'.modeset # "none"
      /\ lost' \/ local'.modeset = "set" \/ (forced' = forced /\ lost' = lost)
  BY <1>1, <1>4 DEF Types, Local
<1>7. Types'
  BY <1>1, <1>4, <1>5, <1>6 DEF Types, helperVars, heldVars, answerVars,
     loadVars, dirVars
<1>8. SameLoad /\ SameHelper /\ SameSnapshot /\ SameExport /\ SameDir /\ SameCount
  <2>1. Untold' = Untold /\ Held' = Held /\ Going' = Going /\ Shown' = Shown
    BY <1>1 DEF Untold, Held, Going, Shown, helperVars, heldVars, answerVars, loadVars
  <2> QED BY <1>1, <1>5, <2>1 DEF SameLoad, SameHelper, SameSnapshot, SameExport, SameDir, SameCount,
       helperVars
<1>9. ModeInv'
  <2>1. Undoes("restore")'
    BY <1>2, <1>3, Undoing, UndoesKept
  <2>2. forced => lost
    <3>1. local.modeset = "none"
      BY <1>2, <1>3, OnceOnly DEF IInv, Fixtures, ModeInv
    <3> QED BY <3>1 DEF IInv, Fixtures, ModeInv
  <2>3. part' = "body" => GoesOn /\ ~Bad
    <3>1. s.op \in Deciding
      BY <1>2 DEF Deciding
    <3>2. Bad => Leaves
      BY <1>2, <3>1, Failing
    <3>3. part' = "body" => ~Leaves
      BY <1>3 DEF Leaves
    <3> QED BY <1>2, <3>2, <3>3 DEF Moves
  <2>4. part' = "body" => Past("mode")'
    BY <1>2, <1>3, <2>3, PastHere
  <2>5. Past("mode")' => part' = "body"
    BY DEF Past
  <2> QED BY <1>6, <2>1, <2>2, <2>3, <2>4, <2>5 DEF ModeInv
<1> QED BY <1>2, <1>7, <1>8, <1>9, Frames DEF IInv, Fixtures

LEMMA RecheckKeeps ==
  ASSUME IInv, RecheckDisplayMode
  PROVE  IInv'
<1>1. /\ At({"remode"}) /\ UNCHANGED <<suiteVars, local, helperVars, loadVars, lost, dirVars>>
      /\ Good \/ Bad \/ Throws
      /\ forced' = forced \/ (forced' = TRUE /\ local.modeset # "same")
  BY DEF RecheckDisplayMode
<1>2. Moves /\ InScript /\ s.op = "remode" /\ Control
  BY <1>1, Goes, Here DEF IInv
<1>3. part = "body"
  BY <1>2, InBody DEF Undos
<1>4. Types'
  BY <1>1 DEF IInv, Fixtures, Types, helperVars, heldVars, answerVars, loadVars, dirVars
<1>5. SameLoad /\ SameHelper /\ SameSnapshot /\ SameExport /\ SameDir /\ SameCount
  <2>1. Untold' = Untold /\ Held' = Held /\ Going' = Going /\ Shown' = Shown
    BY <1>1 DEF Untold, Held, Going, Shown, helperVars, heldVars, answerVars, loadVars
  <2> QED BY <1>1, <2>1 DEF SameLoad, SameHelper, SameSnapshot, SameExport, SameDir, SameCount,
       helperVars
<1>6. ModeInv'
  <2>1. Undoes("restore")'
    BY <1>2, <1>3, Undoing, UndoesKept
  <2>2. Past("mode")
    <3>1. RowOK(Rows[row]) /\ "remode" \in Ops(Rows[row].body)
      BY <1>2, <1>3, Scripts, Places DEF InScript
    <3>2. "mode" \in Ops(Rows[row].body)
      BY <3>1 DEF RowOK
    <3>3. Rank("mode") # 0 /\ Rank("remode") # 0 /\ Rank("mode") < Rank("remode")
      BY DEF Rank
    <3> QED BY <1>2, <1>3, <3>2, <3>3, Ordered
  <2>3. Past("mode")' => part' = "body"
    BY DEF Past
  <2>4. part' = "body" => Past("mode")'
    BY <1>2, <1>3, <2>2, PastKept DEF Moves, Leaves
  <2>5. local.modeset \in {"none", "same", "set"}
    BY DEF IInv, Fixtures, Types, Local
  <2> QED BY <1>1, <2>1, <2>2, <2>3, <2>4, <2>5 DEF IInv, Fixtures, ModeInv
<1> QED BY <1>2, <1>4, <1>5, <1>6, Frames DEF IInv, Fixtures

LEMMA RestoreKeeps ==
  ASSUME IInv, RestoreDisplayMode
  PROVE  IInv'
<1>1. /\ At({"restore"}) /\ Good /\ UNCHANGED <<suiteVars, local, helperVars, loadVars, dirVars>>
      /\ \/ forced' = (forced /\ local.modeset # "set") /\ lost' = lost
         \/ lost' = TRUE /\ forced' = forced
  BY DEF RestoreDisplayMode
<1>2. Moves /\ s.op = "restore"
  BY <1>1, Goes, Here DEF IInv
<1>3. /\ forced' \in BOOLEAN /\ lost' \in BOOLEAN
      /\ forced' => lost'
      /\ lost => lost'
  <2>0. forced \in BOOLEAN /\ lost \in BOOLEAN
    BY DEF IInv, Fixtures, Types
  <2>1. forced => lost \/ local.modeset = "set"
    BY DEF IInv, Fixtures, ModeInv
  <2>2. CASE forced /\ local.modeset # "set"
    <3>1. (forced /\ local.modeset # "set") = TRUE
      BY <2>2
    <3>2. (forced' = TRUE /\ lost' = lost) \/ (lost' = TRUE /\ forced' = forced)
      BY <1>1, <3>1, Zenon
    <3> QED BY <2>0, <2>1, <2>2, <3>2
  <2>3. CASE ~(forced /\ local.modeset # "set")
    <3>1. (forced /\ local.modeset # "set") = FALSE
      BY <2>3
    <3>2. (forced' = FALSE /\ lost' = lost) \/ (lost' = TRUE /\ forced' = forced)
      BY <1>1, <3>1, Zenon
    <3> QED BY <2>0, <3>2
  <2> QED BY <2>2, <2>3
<1>4. Types'
  BY <1>1, <1>3 DEF IInv, Fixtures, Types, helperVars, heldVars, answerVars, loadVars, dirVars
<1>5. SameLoad /\ SameHelper /\ SameSnapshot /\ SameExport /\ SameDir /\ SameCount
  <2>1. Untold' = Untold /\ Held' = Held /\ Going' = Going /\ Shown' = Shown
    BY <1>1 DEF Untold, Held, Going, Shown, helperVars, heldVars, answerVars, loadVars
  <2> QED BY <1>1, <2>1 DEF SameLoad, SameHelper, SameSnapshot, SameExport, SameDir, SameCount,
       helperVars
<1>6. ModeInv'
  <2>1. Past("mode")' => Past("mode")
    BY <1>2, PastKept DEF IInv
  <2>2. part' = "body" => part = "body" /\ GoesOn
    BY <1>2 DEF Moves, Leaves, GoesOn
  <2>3. part' = "body" /\ Past("mode") => Past("mode")'
    BY <1>2, <2>2, PastKept DEF IInv
  <2> QED BY <1>1, <1>3, <2>1, <2>2, <2>3 DEF IInv, Fixtures, ModeInv
<1> QED BY <1>2, <1>4, <1>5, <1>6, Frames DEF IInv, Fixtures

LEMMA MakeDirectoryKeeps ==
  ASSUME IInv, MakeDirectory
  PROVE  IInv'
<1>1. /\ At({"mkdir"}) /\ UNCHANGED <<suiteVars, helperVars, loadVars, modeVars, unremoved>>
      /\ \/ Good /\ dirs' = dirs \cup {n} /\ local' = [local EXCEPT !.dir = TRUE]
         \/ Throws /\ dirs' = dirs /\ local' = local
  BY DEF MakeDirectory
<1>2. Moves /\ InScript /\ s.op = "mkdir" /\ Control
  BY <1>1, Goes, Here DEF IInv
<1>3. part = "body"
  BY <1>2, InBody DEF Undos
<1>4. Types /\ local \in Local /\ n \in Pid
  BY <1>2 DEF IInv, Fixtures, Types, Control, InScript
<1>5. /\ local' \in Local /\ local'.rpc = local.rpc
      /\ local'.load = local.load /\ local'.modeset = local.modeset
      /\ local'.spawned = local.spawned /\ local'.snapshotId = local.snapshotId
      /\ local'.exportId = local.exportId /\ local'.owned = local.owned
      /\ local'.base = local.base /\ local'.left = local.left
      /\ local'.dir \/ (dirs' = dirs /\ local'.dir = local.dir)
  BY <1>1, <1>4 DEF Local
<1>6. Types'
  BY <1>1, <1>4, <1>5 DEF Types, helperVars, heldVars, answerVars,
     loadVars, modeVars
<1>7. SameLoad /\ SameMode /\ SameHelper /\ SameSnapshot /\ SameExport /\ SameCount
  <2>1. Untold' = Untold /\ Held' = Held /\ Going' = Going /\ Shown' = Shown
    BY <1>1 DEF Untold, Held, Going, Shown, helperVars, heldVars, answerVars, loadVars
  <2> QED BY <1>1, <1>5, <2>1 DEF SameLoad, SameMode, SameHelper, SameSnapshot, SameExport,
       SameCount, helperVars, modeVars
<1>8. DirInv'
  <2>1. Undoes("rmdir")'
    BY <1>2, <1>3, Undoing, UndoesKept
  <2>2. ~local.owned
    BY <1>2, <1>3, NotHanded DEF IInv, Fixtures
  <2>3. \/ part' = "body" /\ GoesOn
        \/ part' \in {"bail", "finally"} /\ (part' = "finally" => report' # "none")
    BY <1>2, <1>3 DEF Moves, Leaves, GoesOn, Statuses
  <2>4. part' = "body" => n \in dirs'
    <3>1. s.op \in Deciding
      BY <1>2 DEF Deciding
    <3>2. Throws => Leaves
      BY <1>2, <3>1, Failing
    <3>3. part' = "body" => ~Leaves
      BY <1>3 DEF Leaves
    <3> QED BY <1>1, <3>2, <3>3
  <2>5. \A op : Past(op)' => part' = "body"
    BY DEF Past
  <2>6. Past("hand")' => local.owned
    <3>1. Past("hand")' => Past("hand")
      BY <1>2, PastKept
    <3> QED BY <1>3, <3>1 DEF IInv, Fixtures, DirInv
  <2>7. \A i \in dirs \ unremoved : i = n /\ local.dir
    BY DEF IInv, Fixtures, DirInv
  <2>8. /\ n' = n /\ unremoved' = unremoved /\ dirs' \subseteq dirs \cup {n}
        /\ part' # "between"
    BY <1>1, <2>3 DEF suiteVars
  <2> QED BY <1>5, <2>1, <2>2, <2>3, <2>4, <2>5, <2>6, <2>7, <2>8 DEF DirInv
<1> QED BY <1>2, <1>6, <1>7, <1>8, Frames DEF IInv, Fixtures

LEMMA HandOverKeeps ==
  ASSUME IInv, HandOver
  PROVE  IInv'
<1>1. /\ At({"hand"}) /\ Good /\ local' = [local EXCEPT !.owned = TRUE]
      /\ UNCHANGED <<suiteVars, helperVars, hostVars>>
  BY DEF HandOver
<1>2. Moves /\ InScript /\ s.op = "hand" /\ Control
  BY <1>1, Goes, Here DEF IInv
<1>3. part = "body" /\ GoesOn
  BY <1>1, <1>2, InBody DEF Undos, Good, GoesOn
<1>4. Types /\ local \in Local
  BY DEF IInv, Fixtures, Types
<1>5. /\ local' \in Local /\ local'.rpc = local.rpc
      /\ local'.load = local.load /\ local'.modeset = local.modeset
      /\ local'.spawned = local.spawned /\ local'.snapshotId = local.snapshotId
      /\ local'.exportId = local.exportId /\ local'.dir = local.dir
      /\ local'.base = local.base /\ local'.left = local.left /\ local'.owned
  BY <1>1, <1>4 DEF Local
<1>6. Types'
  BY <1>1, <1>4, <1>5 DEF Types, helperVars, heldVars, answerVars,
     hostVars, loadVars, modeVars, dirVars
<1>7. SameLoad /\ SameMode /\ SameHelper /\ SameSnapshot /\ SameExport /\ SameCount
  <2>1. Untold' = Untold /\ Held' = Held /\ Going' = Going /\ Shown' = Shown
    BY <1>1 DEF Untold, Held, Going, Shown, helperVars, heldVars, answerVars, hostVars, loadVars
  <2> QED BY <1>1, <1>5, <2>1 DEF SameLoad, SameMode, SameHelper, SameSnapshot, SameExport,
       SameCount, helperVars, hostVars, modeVars
<1>8. DirInv'
  <2>1. part' = "body" /\ dirs' = dirs /\ unremoved' = unremoved /\ row' = row /\ n' = n
    BY <1>1, <1>3 DEF GoesOn, hostVars, dirVars, suiteVars
  <2>2. Past("hand")' /\ (Past("mkdir")' => Past("mkdir"))
    BY <1>2, <1>3, PastHere, PastKept
  <2>3. Handed(Rows[row])
    BY <1>2, <1>3, Scripts, Places DEF InScript, RowOK, Judged
  <2> QED BY <1>5, <2>1, <2>2, <2>3 DEF IInv, Fixtures, DirInv
<1> QED BY <1>2, <1>6, <1>7, <1>8, Frames DEF IInv, Fixtures

LEMMA RemoveDirectoryKeeps ==
  ASSUME IInv, RemoveDirectory
  PROVE  IInv'
<1>1. /\ At({"rmdir"}) /\ Good
      /\ \/ /\ dirs' = IF local.dir /\ ~(part = "finally" /\ local.owned) THEN dirs \ {n} ELSE dirs
            /\ unremoved' = unremoved
         \/ /\ local.dir /\ ~(part = "finally" /\ local.owned)
            /\ unremoved' = unremoved \cup {n} /\ dirs' = dirs
      /\ UNCHANGED <<suiteVars, local, helperVars, loadVars, modeVars>>
  BY DEF RemoveDirectory
<1>2. Moves /\ InScript /\ s.op = "rmdir" /\ Control /\ GoesOn
  BY <1>1, Goes, Here DEF IInv, Good, GoesOn
<1>3. part \in {"finally", "cleanup"}
  <2>1. part # "body"
    <3>1. part = "body" => s.op \in Ops(Rows[row].body)
      BY <1>2, Places
    <3>2. "rmdir" \notin Ops(Rows[row].body)
      BY <1>2, Scripts DEF InScript, RowOK
    <3> QED BY <1>2, <3>1, <3>2
  <2> QED BY <1>2, <2>1, Places DEF Control, InScript
<1>4. /\ dirs' \subseteq dirs /\ n \in Pid
      /\ \A i \in dirs' \ unremoved' : i = n /\ part = "finally" /\ local.owned
      /\ part = "finally" /\ local.owned => dirs' = dirs /\ unremoved' = unremoved
  <2>1. \A i \in dirs \ unremoved : i = n /\ local.dir
    BY DEF IInv, Fixtures, DirInv
  <2>2. n \in Pid
    BY <1>2 DEF Control, InScript
  <2> QED BY <1>1, <2>1, <2>2
<1>5. Types'
  BY <1>1, <1>4 DEF IInv, Fixtures, Types, helperVars, heldVars, answerVars,
     loadVars, modeVars
<1>6. SameLoad /\ SameMode /\ SameHelper /\ SameSnapshot /\ SameExport /\ SameCount
  <2>1. Untold' = Untold /\ Held' = Held /\ Going' = Going /\ Shown' = Shown
    BY <1>1 DEF Untold, Held, Going, Shown, helperVars, heldVars, answerVars, loadVars
  <2> QED BY <1>1, <2>1 DEF SameLoad, SameMode, SameHelper, SameSnapshot, SameExport, SameCount,
       helperVars, modeVars
<1>7. DirInv'
  <2>1. /\ part' = part /\ report' = report /\ row' = row /\ n' = n /\ local' = local
        /\ part' # "body" /\ \A op : ~Past(op)'
    BY <1>1, <1>2, <1>3 DEF GoesOn, suiteVars, Past
  <2> QED BY <1>3, <1>4, <2>1 DEF IInv, Fixtures, DirInv
<1> QED BY <1>2, <1>5, <1>6, <1>7, Frames DEF IInv, Fixtures

-----------------------------------------------------------------------------
(* The theorems *)

LEMMA InitHolds ==
  ASSUME Init
  PROVE  IInv
<1>1. /\ part = "between" /\ n = 0 /\ row = 0 /\ pc = 1 /\ report = "none" /\ local = Fresh
      /\ over = "no" /\ kind \in {"smoke", "rc", "row"}
      /\ alive = {} /\ told = {} /\ socks = {}
      /\ pinned = {} /\ exporting = {} /\ settling = {}
      /\ deaf = {} /\ refused = {} /\ cancelled = {}
      /\ loads = {} /\ unstopped = {} /\ dirs = {} /\ unremoved = {}
      /\ forced = FALSE /\ lost = FALSE
  BY DEF Init
<1>2. Script = <<>>
  BY <1>1 DEF Script
<1>3. \A op : ~Past(op)
  BY <1>1 DEF Past
<1>4. Control
  <2>1. n \in 0 .. MaxRows /\ row \in 0 .. Len(Rows)
    BY <1>1, MaxRowsAssumption, AllRows
  <2>2. pc \in 1 .. (Len(Script) + 1)
    BY <1>1, <1>2
  <2> QED BY <1>1, <1>3, <2>1, <2>2 DEF Control
<1>5. Types
  BY <1>1, FreshIsLocal DEF Types
<1>6. LoadInv /\ ModeInv /\ SnapshotInv /\ ExportInv
  BY <1>1, <1>3 DEF LoadInv, ModeInv, SnapshotInv, ExportInv, Held, Going, Shown
<1>7. HelperInv
  BY <1>1 DEF HelperInv, Untold
<1>8. DirInv
  BY <1>1, <1>3 DEF DirInv
<1>9. CountInv
  BY <1>1, <1>3 DEF CountInv
<1> QED BY <1>4, <1>5, <1>6, <1>7, <1>8, <1>9 DEF IInv, Fixtures

LEMMA NextHolds ==
  ASSUME IInv, [Next]_vars
  PROVE  IInv'
<1>1. CASE Begin
  BY <1>1, BeginKeeps
<1>2. CASE PartEnds
  BY <1>2, PartEndsKeeps
<1>3. CASE SuiteEnds \/ ModeReverts
           \/ \E i \in Pid : HelperExits(i) \/ ExportStops(i) \/ LoadEnds(i)
  BY <1>3, EnvironmentKeeps
<1>4. CASE Look \/ Call \/ ReadFile \/ Exited \/ LoadRuns
  BY <1>4, LookKeeps
<1>5. CASE Connect \/ Close \/ Shutdown
  BY <1>5, ConnectKeeps
<1>6. CASE Judge
  BY <1>6, JudgeKeeps
<1>7. CASE Baseline
  BY <1>7, BaselineKeeps
<1>8. CASE Count
  BY <1>8, CountKeeps
<1>9. CASE Spawn
  BY <1>9, SpawnKeeps
<1>10. CASE Sigterm
  BY <1>10, SigtermKeeps
<1>11. CASE Save
  BY <1>11, SaveKeeps
<1>12. CASE SnapshotId
  BY <1>12, SnapshotIdKeeps
<1>13. CASE StartExport
  BY <1>13, StartExportKeeps
<1>14. CASE Terminal
  BY <1>14, TerminalKeeps
<1>15. CASE Release
  BY <1>15, ReleaseKeeps
<1>16. CASE Cancel
  BY <1>16, CancelKeeps
<1>17. CASE Load
  BY <1>17, LoadKeeps
<1>18. CASE Teardown
  BY <1>18, TeardownKeeps
<1>19. CASE EnforceDisplayMode
  BY <1>19, EnforceKeeps
<1>20. CASE RecheckDisplayMode
  BY <1>20, RecheckKeeps
<1>21. CASE RestoreDisplayMode
  BY <1>21, RestoreKeeps
<1>22. CASE MakeDirectory
  BY <1>22, MakeDirectoryKeeps
<1>23. CASE HandOver
  BY <1>23, HandOverKeeps
<1>24. CASE RemoveDirectory
  BY <1>24, RemoveDirectoryKeeps
<1>25. CASE Done \/ UNCHANGED vars
  BY <1>25, EnvironmentKeeps DEF Done
<1> QED BY <1>1, <1>2, <1>3, <1>4, <1>5, <1>6, <1>7, <1>8, <1>9, <1>10, <1>11, <1>12, <1>13,
           <1>14, <1>15, <1>16, <1>17, <1>18, <1>19, <1>20, <1>21, <1>22, <1>23, <1>24, <1>25,
           Zenon DEF Next

(* The inductive invariant holds in every reachable state of a suite of any length: what a *)
(* fixture has begun is known to the driver's variables and lies ahead in its finally block. *)
THEOREM Invariant == Spec => []IInv
<1>1. Init => IInv
  BY InitHolds
<1>2. IInv /\ [Next]_vars => IInv'
  BY NextHolds
<1> QED BY <1>1, <1>2, PTL DEF Spec

(* Every variable of the harness keeps its type, wherever a row is left. *)
THEOREM TypeCorrect == Spec => []TypeOK
<1>1. IInv => TypeOK
  BY DEF IInv, Fixtures, Control, Types, TypeOK
<1> QED BY <1>1, Invariant, PTL

(* Of a row that has returned, by whichever of its steps, everything it began has been tried *)
(* to undo: a load, a directory or a display mode that is left is one whose undoing failed, a *)
(* helper that runs was told to end, an export it runs was asked to cancel and a snapshot it  *)
(* holds was refused its release for the sake of the export, unless an answer of it is        *)
(* missing. For suites of any length.                                                         *)
THEOREM NothingLeft == Spec => []RowsLeaveNothing
<1>1. IInv => RowsLeaveNothing
  <2> SUFFICES ASSUME IInv, part = "between"
               PROVE  /\ loads \subseteq unstopped /\ dirs \subseteq unremoved
                      /\ forced => lost
                      /\ alive \subseteq told
                      /\ exporting \subseteq deaf \cup cancelled
                      /\ pinned \subseteq deaf \cup refused
    BY DEF RowsLeaveNothing
  <2>1. \A op : ~Undoes(op)
    BY NoneUndone DEF IInv
  <2>2. Shown = {} /\ Untold = {} /\ Held = {} /\ Going = {}
    BY <2>1 DEF IInv, Fixtures, LoadInv, HelperInv, SnapshotInv, ExportInv
  <2>3. (forced => lost) /\ dirs \subseteq unremoved
    BY <2>1 DEF IInv, Fixtures, ModeInv, DirInv
  <2> QED BY <2>2, <2>3 DEF Shown, Untold, Held, Going
<1> QED BY <1>1, Invariant, PTL

(* A row about clean-up that passes has counted its own helper out, whatever earlier rows    *)
(* have left running, and a caller of produceStreamCopyMp4 still has the file it reads.      *)
THEOREM CleanupSeen == Spec => []CleanupProven
<1>1. IInv => CleanupProven
  BY DEF IInv, Fixtures, CountInv, DirInv, CleanupProven
<1> QED BY <1>1, Invariant, PTL
=============================================================================
