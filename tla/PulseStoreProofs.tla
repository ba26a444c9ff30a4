---------------------------- MODULE PulseStoreProofs ----------------------------
(* TLAPS proofs about PulseStore, for every size of record, clock width, set of    *)
(* regimes and bound of a behaviour.                                              *)
EXTENDS PulseStore, SequenceTheorems, WellFoundedInduction, TLAPS

-----------------------------------------------------------------------------
(* Induction over a range, and functions defined by recursion over one.           *)

Less == OpToRel(<, Nat)

LEMMA LessIsWellFounded == IsWellFoundedOn(Less, Nat)
  BY NatLessThanWellFounded, Zenon DEF Less

LEMMA LessIs == ASSUME NEW x \in Nat, NEW y \in Nat, x < y PROVE <<x, y>> \in Less
  BY DEF Less, OpToRel

LEMMA LeastElement ==
  ASSUME NEW S \in SUBSET Nat, S # {} PROVE \E x \in S : \A y \in S : x <= y
<1>1. PICK x \in S : \A y \in S : ~(<<y, x>> \in Less)
  <2>1. S \subseteq Nat
    OBVIOUS
  <2> QED  BY <2>1, WFMin, LessIsWellFounded, Zenon
<1>2. ASSUME NEW y \in S PROVE x <= y
  <2>1. x \in Nat /\ y \in Nat /\ ~(<<y, x>> \in Less)
    BY <1>1
  <2>2. ~(y < x)
    BY <2>1, LessIs
  <2> QED  BY <2>1, <2>2
<1> QED  BY <1>2

LEMMA Induction ==
  ASSUME NEW n \in Nat, NEW S, 0 \in S, \A m \in 0 .. n - 1 : m \in S => m + 1 \in S
  PROVE  \A m \in 0 .. n : m \in S
<1> DEFINE Out == {m \in 0 .. n : m \notin S}
<1> SUFFICES ASSUME Out # {} PROVE FALSE
  OBVIOUS
<1>1. PICK x \in Out : \A y \in Out : x <= y
  <2>1. Out \in SUBSET Nat
    OBVIOUS
  <2> HIDE DEF Out
  <2> QED  BY <2>1, LeastElement
<1>2. x \in 1 .. n /\ x - 1 \in 0 .. n - 1 /\ (x - 1) + 1 = x
  BY <1>1
<1>3. x - 1 \in S
  BY <1>1, <1>2
<1> QED  BY <1>1, <1>2, <1>3

LEMMA Recursion ==
  ASSUME NEW A, NEW a \in A, NEW n \in Nat, NEW F \in [1 .. n -> [A -> A]]
  PROVE  \E g \in [0 .. n -> A] : g[0] = a /\ \A k \in 1 .. n : g[k] = F[k][g[k - 1]]
<1> DEFINE Solves(g, m) == g[0] = a /\ \A k \in 1 .. m : g[k] = F[k][g[k - 1]]
<1> DEFINE S == {m \in 0 .. n : \E g \in [0 .. m -> A] : Solves(g, m)}
<1>1. 0 \in S
  <2> DEFINE g == [k \in 0 .. 0 |-> a]
  <2>1. g \in [0 .. 0 -> A] /\ Solves(g, 0) /\ 0 \in 0 .. n
    OBVIOUS
  <2> HIDE DEF g
  <2> QED  BY <2>1
<1>2. ASSUME NEW m \in 0 .. n - 1, m \in S PROVE m + 1 \in S
  <2>1. PICK g \in [0 .. m -> A] : Solves(g, m)
    BY <1>2
  <2> DEFINE h == [k \in 0 .. m + 1 |-> IF k = m + 1 THEN F[m + 1][g[m]] ELSE g[k]]
  <2>2. m \in Nat /\ m + 1 \in 1 .. n /\ g[m] \in A
    OBVIOUS
  <2>3. F[m + 1][g[m]] \in A
    BY <2>2
  <2>4. h \in [0 .. m + 1 -> A]
    BY <2>2, <2>3
  <2>5. h[0] = a /\ h[m + 1] = F[m + 1][h[m]]
    BY <2>1, <2>2
  <2>6. ASSUME NEW k \in 1 .. m PROVE h[k] = F[k][h[k - 1]]
    <3>1. h[k] = g[k] /\ h[k - 1] = g[k - 1]
      BY <2>2
    <3> QED  BY <2>1, <3>1
  <2>7. \A k \in 1 .. m + 1 : k \in 1 .. m \/ (k = m + 1 /\ k - 1 = m)
    BY <2>2
  <2> HIDE DEF h
  <2>8. Solves(h, m + 1)
    BY <2>5, <2>6, <2>7
  <2> QED  BY <2>2, <2>4, <2>8
<1> HIDE DEF S
<1>3. \A m \in 0 .. n : m \in S
  BY <1>1, <1>2, Induction
<1>4. n \in S
  BY <1>3
<1> QED  BY <1>4 DEF S

-----------------------------------------------------------------------------
(* The pass of a load over the body of the file.                                  *)

Kept == {rows \in Seq(RowLine) : Len(rows) <= MaxTransitions}
Acc == [last : Nat, rows : Kept]
Nothing == [last |-> 0, rows |-> <<>>]

LEMMA NothingTyped == Nothing \in Acc
  BY RecordAssumption DEF Nothing, Acc, Kept

LEMMA RowLines ==
  ASSUME NEW line \in Line
  PROVE  /\ line.kind = "row" <=> line \in RowLine
         /\ line.kind = "row" => line.ts \in Nat /\ line.num \in 1 .. MaxTransitions
                                 /\ line.state \in BOOLEAN /\ line.time \in Clocks /\ line.cap \in Nat
  BY DEF Line, RowLine

LEMMA AppendsRow ==
  ASSUME NEW rows \in Kept, NEW line \in RowLine, HasRoom(rows)
  PROVE  Append(rows, line) \in Kept
  BY RecordAssumption DEF Kept, HasRoom

LEMMA KeepTyped == ASSUME NEW acc \in Acc, NEW line \in Line PROVE KeepLine(acc, line) \in Acc
<1>1. CASE ~Counts(line, acc)
  BY <1>1 DEF KeepLine
<1>2. CASE Counts(line, acc)
  <2> DEFINE kept == IF StartsAnew(line, acc) THEN <<>> ELSE acc.rows
  <2>1. line \in RowLine /\ line.ts \in Nat
    BY <1>2, RowLines DEF Counts
  <2>2. kept \in Kept
    BY NothingTyped DEF Acc, Nothing
  <2> HIDE DEF kept
  <2>3. (IF HasRoom(kept) THEN Append(kept, line) ELSE kept) \in Kept
    BY <2>1, <2>2, AppendsRow
  <2>4. KeepLine(acc, line)
          = [last |-> line.ts, rows |-> IF HasRoom(kept) THEN Append(kept, line) ELSE kept]
    BY <1>2 DEF KeepLine, kept
  <2> QED  BY <2>1, <2>3, <2>4 DEF Acc
<1> QED  BY <1>1, <1>2

(* The loop reads line after line, each time from what it has kept so far.        *)
PassOver(acc, body) ==
  /\ acc \in [0 .. Len(body) -> Acc]
  /\ acc[0] = Nothing
  /\ \A n \in 1 .. Len(body) : acc[n] = KeepLine(acc[n - 1], body[n])

LEMMA PassIsLoop ==
  ASSUME NEW body \in Seq(Line)
  PROVE  \E acc : PassOver(acc, body) /\ Pass(body) = acc[Len(body)]
<1> DEFINE n == Len(body)
<1> DEFINE F == [k \in 1 .. n |-> [x \in Acc |-> KeepLine(x, body[k])]]
<1> DEFINE Is(f) == f = [k \in 0 .. n |-> IF k = 0 THEN [last |-> 0, rows |-> <<>>]
                                          ELSE KeepLine(f[k - 1], body[k])]
<1> DEFINE acc == CHOOSE f : Is(f)
<1>1. n \in Nat /\ \A k \in 1 .. n : body[k] \in Line
  OBVIOUS
<1>2. F \in [1 .. n -> [Acc -> Acc]]
  BY <1>1, KeepTyped
<1>3. PICK g \in [0 .. n -> Acc] : g[0] = Nothing /\ \A k \in 1 .. n : g[k] = F[k][g[k - 1]]
  <2>1. n \in Nat
    OBVIOUS
  <2>2. Nothing \in Acc
    BY NothingTyped
  <2> HIDE DEF F, n, Is
  <2> QED  BY <1>2, <2>1, <2>2, Recursion
<1>4. \A k \in 1 .. n : g[k] = KeepLine(g[k - 1], body[k])
  <2> SUFFICES ASSUME NEW k \in 1 .. n PROVE g[k] = KeepLine(g[k - 1], body[k])
    OBVIOUS
  <2>1. k - 1 \in 0 .. n
    BY <1>1
  <2>2. g[k - 1] \in Acc
    BY <2>1
  <2> QED  BY <1>3, <2>2
<1>5. Is(g)
  BY <1>3, <1>4 DEF Nothing
<1>6. Is(acc)
  <2> HIDE DEF Is
  <2> QED  BY <1>5, Zenon
<1>7. Pass(body) = acc[n]
  BY Zenon DEF Pass
<1>8. \A k \in 0 .. n : acc[k] = IF k = 0 THEN Nothing ELSE KeepLine(acc[k - 1], body[k])
  <2> HIDE DEF acc
  <2> QED  BY <1>6 DEF Nothing
<1>9. acc = [k \in 0 .. n |-> acc[k]]
  <2> HIDE DEF acc
  <2> QED  BY <1>6
<1> HIDE DEF acc
<1> DEFINE S == {k \in 0 .. n : acc[k] \in Acc}
<1>10. \A k \in 0 .. n : k \in S
  <2>1. 0 \in S
    BY <1>1, <1>8, NothingTyped
  <2>2. ASSUME NEW k \in 0 .. n - 1, k \in S PROVE k + 1 \in S
    <3>1. k + 1 \in 1 .. n /\ (k + 1) - 1 = k
      BY <1>1
    <3>2. acc[k + 1] = KeepLine(acc[k], body[k + 1])
      BY <1>8, <3>1
    <3> QED  BY <1>1, <2>2, <3>1, <3>2, KeepTyped
  <2> HIDE DEF S
  <2> QED  BY <1>1, <2>1, <2>2, Induction
<1>11. acc \in [0 .. n -> Acc]
  <2>1. \A k \in 0 .. n : acc[k] \in Acc
    BY <1>10
  <2> QED  BY <1>9, <2>1
<1>12. acc[0] = Nothing /\ \A k \in 1 .. n : acc[k] = KeepLine(acc[k - 1], body[k])
  BY <1>1, <1>8
<1>13. PassOver(acc, body)
  BY <1>11, <1>12 DEF PassOver
<1> QED  BY <1>7, <1>13

-----------------------------------------------------------------------------
(* What the pass finds.                                                          *)

RowsIn(body, n) == {p \in 1 .. n : body[p].kind = "row"}
RowsAt(body, n, ts) == {p \in RowsIn(body, n) : body[p].ts = ts}

(* `at` are the places of the rows kept, among the rows of timestamp acc.last in    *)
(* the first n lines.                                                             *)
Places(at, acc, body, n) ==
  /\ at \in [1 .. Len(acc.rows) -> RowsAt(body, n, acc.last)]
  /\ \A i, j \in 1 .. Len(acc.rows) : i < j => at[i] < at[j]
  /\ \A i \in 1 .. Len(acc.rows) : acc.rows[i] = body[at[i]]
  /\ \A p \in RowsAt(body, n, acc.last) :
       \/ \E i \in 1 .. Len(acc.rows) : at[i] = p
       \/ Len(acc.rows) = MaxTransitions /\ \A i \in 1 .. Len(acc.rows) : at[i] < p

(* The latest timestamp, and the rows that carry it.                              *)
Finds(acc, body, n) ==
  /\ \A p \in RowsIn(body, n) : body[p].ts <= acc.last
  /\ acc.last = 0 \/ RowsAt(body, n, acc.last) # {}
  /\ \E at : Places(at, acc, body, n)

LEMMA FindsNothing == ASSUME NEW body PROVE Finds(Nothing, body, 0)
<1>1. RowsIn(body, 0) = {} /\ 1 .. Len(<<>>) = {} /\ Nothing.rows = <<>>
  BY DEF RowsIn, Nothing
<1>2. [i \in {} |-> 0] \in [{} -> RowsAt(body, 0, 0)]
  OBVIOUS
<1>3. Places([i \in {} |-> 0], Nothing, body, 0)
  BY <1>1, <1>2 DEF Places, RowsAt, Nothing
<1>4. \E at : Places(at, Nothing, body, 0)
  BY <1>3
<1> QED  BY <1>1, <1>4 DEF Finds, Nothing

(* One more line, one more turn of the loop.                                      *)
LEMMA FindsOn ==
  ASSUME NEW body \in Seq(Line), NEW n \in 0 .. Len(body) - 1,
         NEW acc \in Acc, Finds(acc, body, n)
  PROVE  Finds(KeepLine(acc, body[n + 1]), body, n + 1)
<1> DEFINE line == body[n + 1]
<1> DEFINE next == KeepLine(acc, line)
<1>1. n \in Nat /\ n + 1 \in 1 .. Len(body) /\ line \in Line /\ \A p \in 1 .. n + 1 : body[p] \in Line
  OBVIOUS
<1>2. /\ acc.last \in Nat /\ acc.rows \in Seq(RowLine) /\ Len(acc.rows) \in Nat
      /\ Len(acc.rows) <= MaxTransitions
  BY DEF Acc, Kept
<1>3. PICK at : Places(at, acc, body, n)
  BY DEF Finds
<1>4. \A p \in 1 .. n + 1 : p \in 1 .. n \/ p = n + 1
  BY <1>1
<1>5. 1 .. n \subseteq 1 .. n + 1 /\ n + 1 \notin 1 .. n
  BY <1>1
<1>6. \A p \in 1 .. n + 1 : body[p].kind = "row" => body[p].ts \in Nat
  BY <1>1, RowLines
<1>7. CASE ~Counts(line, acc)
  <2>1. next = acc
    BY <1>7 DEF KeepLine
  <2>2. line.kind = "row" => line.ts < acc.last
    BY <1>1, <1>2, <1>7, RowLines DEF Counts
  <2>3. RowsAt(body, n + 1, acc.last) = RowsAt(body, n, acc.last)
    BY <1>2, <1>4, <1>5, <1>6, <2>2 DEF RowsAt, RowsIn
  <2>4. \A p \in RowsIn(body, n + 1) : body[p].ts <= acc.last
    BY <1>2, <1>4, <1>6, <2>2 DEF Finds, RowsIn
  <2>5. Places(at, acc, body, n + 1)
    BY <1>3, <2>3 DEF Places
  <2> QED  BY <2>1, <2>3, <2>4, <2>5 DEF Finds
<1>8. CASE Counts(line, acc)
  <2> DEFINE kept == IF StartsAnew(line, acc) THEN <<>> ELSE acc.rows
  <2>1. line.kind = "row" /\ line \in RowLine /\ line.ts \in Nat /\ acc.last <= line.ts
    BY <1>1, <1>2, <1>8, RowLines DEF Counts
  <2>2. next = [last |-> line.ts, rows |-> IF HasRoom(kept) THEN Append(kept, line) ELSE kept]
    BY <1>8 DEF KeepLine
  <2> HIDE DEF kept, next, line
  <2>3. n + 1 \in RowsAt(body, n + 1, line.ts)
    BY <1>1, <2>1 DEF RowsAt, RowsIn, line
  <2>4. \A p \in RowsIn(body, n + 1) : body[p].ts <= line.ts
    <3>1. ASSUME NEW p \in RowsIn(body, n) PROVE body[p].ts <= line.ts
      <4>1. body[p].ts <= acc.last /\ body[p].ts \in Nat
        BY <1>2, <1>5, <1>6 DEF Finds, RowsIn
      <4> QED  BY <1>2, <2>1, <4>1
    <3>2. \A p \in RowsIn(body, n + 1) : p \in RowsIn(body, n) \/ p = n + 1
      BY <1>4 DEF RowsIn
    <3>3. body[n + 1].ts <= line.ts
      BY <2>1 DEF line
    <3> QED  BY <3>1, <3>2, <3>3
  <2>5. (\E g : Places(g, next, body, n + 1)) => Finds(next, body, n + 1)
    BY <2>2, <2>3, <2>4 DEF Finds
  <2>6. CASE StartsAnew(line, acc)
    <3>1. kept = <<>> /\ HasRoom(<<>>) /\ acc.last < line.ts
      BY <2>6, RecordAssumption DEF kept, HasRoom, StartsAnew
    <3>2. next.rows = <<line>> /\ next.last = line.ts
      BY <2>2, <3>1
    <3>3. RowsAt(body, n + 1, line.ts) = {n + 1}
      BY <1>2, <1>4, <1>6, <2>1, <2>3, <3>1 DEF RowsAt, RowsIn, Finds
    <3> DEFINE f == [i \in 1 .. 1 |-> n + 1]
    <3>4. Len(next.rows) = 1 /\ next.rows[1] = line
      BY <3>2
    <3>5. Places(f, next, body, n + 1)
      BY <3>2, <3>3, <3>4 DEF Places, line
    <3> HIDE DEF f
    <3> QED  BY <2>5, <3>5 DEF next, line
  <2>7. CASE ~StartsAnew(line, acc)
    <3>1. kept = acc.rows /\ acc.last = line.ts
      BY <1>2, <2>1, <2>7 DEF kept, StartsAnew
    <3>2. RowsAt(body, n + 1, line.ts) = RowsAt(body, n, line.ts) \cup {n + 1}
      BY <1>4, <1>5, <2>3 DEF RowsAt, RowsIn
    <3>3. \A p \in RowsAt(body, n, line.ts) : p \in 1 .. n
      BY DEF RowsAt, RowsIn
    <3>4. CASE HasRoom(acc.rows)
      <4> DEFINE m == Len(acc.rows)
      <4> DEFINE f == [i \in 1 .. m + 1 |-> IF i = m + 1 THEN n + 1 ELSE at[i]]
      <4>1. /\ next.rows = Append(acc.rows, line) /\ next.last = line.ts
            /\ m < MaxTransitions
        BY <2>2, <3>1, <3>4 DEF HasRoom
      <4>2. /\ m \in Nat /\ Len(next.rows) = m + 1 /\ next.rows[m + 1] = line
            /\ \A i \in 1 .. m : next.rows[i] = acc.rows[i]
        BY <1>2, <4>1
      <4>3. \A i \in 1 .. m + 1 : i \in 1 .. m \/ i = m + 1
        BY <4>2
      <4>4. \A i \in 1 .. m : at[i] \in RowsAt(body, n, line.ts) /\ at[i] \in 1 .. n
        BY <1>3, <3>1, <3>3 DEF Places
      <4>5. f \in [1 .. m + 1 -> RowsAt(body, n + 1, line.ts)]
        BY <2>3, <3>2, <4>3, <4>4
      <4>6. /\ f[m + 1] = n + 1 /\ \A i \in 1 .. m : f[i] = at[i] /\ f[i] \in 1 .. n
        BY <4>2, <4>4
      <4> HIDE DEF f
      <4>7. \A i, j \in 1 .. m + 1 : i < j => f[i] < f[j]
        <5> SUFFICES ASSUME NEW i \in 1 .. m + 1, NEW j \in 1 .. m + 1, i < j PROVE f[i] < f[j]
          OBVIOUS
        <5>1. i \in 1 .. m
          BY <4>2
        <5>2. CASE j \in 1 .. m
          BY <1>3, <4>6, <5>1, <5>2 DEF Places
        <5>3. CASE j = m + 1
          BY <1>1, <4>6, <5>1, <5>3
        <5> QED  BY <4>3, <5>2, <5>3
      <4>8. \A i \in 1 .. m + 1 : next.rows[i] = body[f[i]]
        BY <1>3, <4>2, <4>3, <4>6 DEF Places, line
      <4>9. \A p \in RowsAt(body, n + 1, line.ts) : \E i \in 1 .. m + 1 : f[i] = p
        <5>1. m + 1 \in 1 .. m + 1 /\ 1 .. m \subseteq 1 .. m + 1
          BY <4>2
        <5>2. \A p \in RowsAt(body, n, line.ts) : \E i \in 1 .. m : at[i] = p
          BY <1>2, <1>3, <3>1, <4>1, RecordAssumption DEF Places
        <5> QED  BY <3>2, <4>6, <5>1, <5>2
      <4> HIDE DEF m
      <4>10. Places(f, next, body, n + 1)
        BY <4>1, <4>2, <4>5, <4>7, <4>8, <4>9 DEF Places
      <4> QED  BY <2>5, <4>10 DEF next, line
    <3>5. CASE ~HasRoom(acc.rows)
      <4>1. next.rows = acc.rows /\ next.last = acc.last /\ Len(acc.rows) = MaxTransitions
        BY <1>2, <2>2, <3>1, <3>5, RecordAssumption DEF HasRoom
      <4>2. \A i \in 1 .. Len(acc.rows) : at[i] < n + 1
        <5> SUFFICES ASSUME NEW i \in 1 .. Len(acc.rows) PROVE at[i] < n + 1
          OBVIOUS
        <5>1. at[i] \in 1 .. n
          BY <1>3, <3>1, <3>3 DEF Places
        <5> QED  BY <1>1, <5>1
      <4>3. at \in [1 .. Len(acc.rows) -> RowsAt(body, n + 1, line.ts)]
        BY <1>3, <3>1, <3>2 DEF Places
      <4>4. Places(at, next, body, n + 1)
        BY <1>3, <3>1, <3>2, <4>1, <4>2, <4>3 DEF Places
      <4> QED  BY <2>5, <4>4 DEF next, line
    <3> QED  BY <3>4, <3>5
  <2> QED  BY <2>6, <2>7
<1> QED  BY <1>7, <1>8

(* The pass finds the rows of the latest timestamp, whatever the body is.          *)
LEMMA PassFinds ==
  ASSUME NEW body \in Seq(Line)
  PROVE  Pass(body) \in Acc /\ Finds(Pass(body), body, Len(body))
<1>1. PICK acc : PassOver(acc, body) /\ Pass(body) = acc[Len(body)]
  BY PassIsLoop
<1> DEFINE n == Len(body)
<1> DEFINE S == {m \in 0 .. n : Finds(acc[m], body, m)}
<1>2. n \in Nat /\ \A m \in 0 .. n : acc[m] \in Acc
  <2>1. acc \in [0 .. n -> Acc]
    BY <1>1 DEF PassOver
  <2> QED  BY <2>1
<1>3. 0 \in S
  BY <1>1, <1>2, FindsNothing DEF PassOver
<1>4. ASSUME NEW m \in 0 .. n - 1, m \in S PROVE m + 1 \in S
  <2>1. m \in 0 .. n /\ m + 1 \in 1 .. n /\ m + 1 \in 0 .. n /\ (m + 1) - 1 = m
    BY <1>2
  <2>2. acc[m + 1] = KeepLine(acc[m], body[m + 1])
    BY <1>1, <2>1 DEF PassOver
  <2> QED  BY <1>2, <1>4, <2>1, <2>2, FindsOn
<1>5. n \in 0 .. n
  BY <1>2
<1> HIDE DEF S
<1>6. n \in S
  BY <1>2, <1>3, <1>4, <1>5, Induction
<1> QED  BY <1>1, <1>2, <1>5, <1>6 DEF S

LEMMA BodyTyped ==
  ASSUME NEW lines \in Seq(Line)
  PROVE  /\ Body(lines) \in Seq(Line)
         /\ Len(Body(lines)) = IF lines = <<>> THEN 0 ELSE Len(lines) - 1
         /\ \A i \in 1 .. Len(Body(lines)) : i + 1 \in 1 .. Len(lines) /\ Body(lines)[i] = lines[i + 1]
<1>1. Len(lines) \in Nat /\ \A i \in 2 .. Len(lines) : lines[i] \in Line
  OBVIOUS
<1>2. /\ Body(lines) \in Seq(Line)
      /\ Len(Body(lines)) = IF 2 <= Len(lines) THEN Len(lines) - 2 + 1 ELSE 0
      /\ \A i \in 1 .. Len(lines) - 2 + 1 : Body(lines)[i] = lines[2 + i - 1]
  BY <1>1, SubSeqProperties DEF Body
<1>3. lines = <<>> <=> Len(lines) = 0
  OBVIOUS
<1> QED  BY <1>1, <1>2, <1>3

(* `at` are the places of the loaded rows in the body: what LoadFindsLatest says.   *)
LEMMA LoadsLatest ==
  ASSUME NEW lines \in Seq(Line)
  PROVE  RowsOf(lines) \in Kept /\ IsLatest(RowsOf(lines), Body(lines))
<1> DEFINE body == Body(lines)
<1> DEFINE n == Len(body)
<1> DEFINE acc == Pass(body)
<1> DEFINE rows == {p \in 1 .. n : body[p].kind = "row"}
<1> DEFINE latest == {p \in rows : \A q \in rows : body[q].ts <= body[p].ts}
<1>1. body \in Seq(Line) /\ acc \in Acc /\ Finds(acc, body, n)
  BY BodyTyped, PassFinds
<1>2. RowsOf(lines) = acc.rows /\ acc.rows \in Kept /\ acc.last \in Nat
  BY <1>1 DEF RowsOf, Acc
<1>3. \A p \in rows : body[p].ts \in Nat /\ body[p].ts <= acc.last
  BY <1>1, RowLines DEF Finds, RowsIn
<1> HIDE DEF acc
<1>4. latest = RowsAt(body, n, acc.last)
  <2>1. CASE acc.last = 0
    BY <1>3, <2>1 DEF RowsAt, RowsIn
  <2>2. CASE RowsAt(body, n, acc.last) # {}
    <3>1. PICK q \in rows : body[q].ts = acc.last
      BY <2>2 DEF RowsAt, RowsIn
    <3> QED  BY <1>2, <1>3, <3>1 DEF RowsAt, RowsIn
  <2> QED  BY <1>1, <2>1, <2>2 DEF Finds
<1>5. PICK at : Places(at, acc, body, n)
  BY <1>1 DEF Finds
<1>6. IsLatest(acc.rows, body)
  <2>1. at \in [1 .. Len(acc.rows) -> latest]
    BY <1>4, <1>5 DEF Places
  <2>2. /\ \A i, j \in 1 .. Len(acc.rows) : i < j => at[i] < at[j]
        /\ \A i \in 1 .. Len(acc.rows) : acc.rows[i] = body[at[i]]
        /\ \A p \in latest :
             \/ \E i \in 1 .. Len(acc.rows) : at[i] = p
             \/ Len(acc.rows) = MaxTransitions /\ \A i \in 1 .. Len(acc.rows) : at[i] < p
    BY <1>4, <1>5 DEF Places
  <2> HIDE DEF latest
  <2>3. \E f \in [1 .. Len(acc.rows) -> latest] :
           /\ \A i, j \in 1 .. Len(acc.rows) : i < j => f[i] < f[j]
           /\ \A i \in 1 .. Len(acc.rows) : acc.rows[i] = body[f[i]]
           /\ \A p \in latest :
                \/ \E i \in 1 .. Len(acc.rows) : f[i] = p
                \/ Len(acc.rows) = MaxTransitions /\ \A i \in 1 .. Len(acc.rows) : f[i] < p
    BY <2>1, <2>2
  <2> QED  BY <2>3 DEF IsLatest, latest
<1> QED  BY <1>2, <1>6

-----------------------------------------------------------------------------
(* Types.                                                                        *)

File == Seq(Line) \cup {NoFile}

(* A save has a record to write, and its next row is one of the record.            *)
RowInRecord == saving # "no" => row \in 1 .. Len(transitions)

LEMMA LinesTyped ==
  ASSUME NEW f \in File PROVE Lines(f) \in Seq(Line) /\ (f # NoFile => f \in Seq(Line))
  BY DEF File, Lines

LEMMA HeaderTyped == Header \in Line /\ Garbled \in Line /\ Header.kind # "row" /\ Garbled.kind # "row"
  BY DEF Header, Garbled, Line

LEMMA HeadOverwritten ==
  ASSUME NEW lines \in Seq(Line)
  PROVE  /\ OverwriteHead(lines) \in Seq(Line)
         /\ OverwriteHead(lines) # <<>> /\ OverwriteHead(lines)[1] = Header
         /\ Len(lines) <= 1 => Len(OverwriteHead(lines)) = 1
         /\ \A i \in 1 .. Len(OverwriteHead(lines)) :
              OverwriteHead(lines)[i].kind = "row"
                => i \in 1 .. Len(lines) /\ OverwriteHead(lines)[i] = lines[i]
<1> DEFINE new == OverwriteHead(lines)
<1> DEFINE n == Len(lines)
<1> DEFINE rest == SubSeq(lines, 3, n)
<1>1. n \in Nat /\ \A i \in 3 .. n : lines[i] \in Line
  OBVIOUS
<1>2. CASE lines # <<>> /\ lines[1] = Header
  BY <1>2, HeaderTyped DEF OverwriteHead
<1>3. CASE ~(lines # <<>> /\ lines[1] = Header)
  <2>1. /\ rest \in Seq(Line) /\ Len(rest) = (IF 3 <= n THEN n - 3 + 1 ELSE 0)
        /\ \A i \in 1 .. n - 3 + 1 : rest[i] = lines[3 + i - 1]
    BY <1>1, SubSeqProperties
  <2> HIDE DEF rest
  <2>2. CASE n > 1
    <3> DEFINE two == <<Header>> \o <<Garbled>>
    <3>1. new = two \o rest
      BY <1>3, <2>2 DEF OverwriteHead, rest
    <3>2. two \in Seq(Line) /\ Len(two) = 2 /\ two[1] = Header /\ two[2] = Garbled
      BY HeaderTyped
    <3> HIDE DEF two, new
    <3>3. /\ new \in Seq(Line) /\ Len(new) = 2 + Len(rest)
          /\ \A i \in 1 .. 2 + Len(rest) : new[i] = IF i <= 2 THEN two[i] ELSE rest[i - 2]
      <4>1. /\ two \o rest \in Seq(Line) /\ Len(two \o rest) = Len(two) + Len(rest)
            /\ \A i \in 1 .. Len(two) + Len(rest) :
                 (two \o rest)[i] = IF i <= Len(two) THEN two[i] ELSE rest[i - Len(two)]
        BY <2>1, <3>2, ConcatProperties
      <4> QED  BY <3>1, <3>2, <4>1
    <3>4. Len(new) = n
      BY <1>1, <2>1, <2>2, <3>3
    <3>5. new[1] = Header /\ new[2] = Garbled /\ \A i \in 3 .. n : new[i] = lines[i]
      BY <1>1, <2>1, <2>2, <3>2, <3>3, <3>4
    <3>6. \A i \in 1 .. n : i = 1 \/ i = 2 \/ i \in 3 .. n
      BY <1>1
    <3> QED  BY <2>2, <3>3, <3>4, <3>5, <3>6, HeaderTyped DEF new
  <2>3. CASE n <= 1
    <3>1. rest = <<>>
      BY <1>1, <2>3, SubSeqEmpty DEF rest
    <3>2. new = <<Header>>
      <4>0. ~(Len(lines) > 1)
        BY <1>1, <2>3
      <4>1. new = (<<Header>> \o <<>>) \o rest
        BY <1>3, <4>0, Zenon DEF OverwriteHead, rest
      <4>2. <<Header>> \in Seq(Line)
        BY HeaderTyped
      <4>3. <<Header>> \o <<>> = <<Header>>
        BY <4>2, ConcatEmptySeq
      <4> HIDE DEF new
      <4> QED  BY <3>1, <4>1, <4>3
    <3> HIDE DEF rest
    <3> QED  BY <3>2, HeaderTyped
  <2> QED  BY <1>1, <2>2, <2>3
<1> QED  BY <1>2, <1>3

(* What a write leaves: the line appended, or the file as it was, made where it     *)
(* did not exist when the open succeeded.                                          *)
LEMMA AppendOutcomes ==
  ASSUME NEW line, NEW f \in WriteOutcomes(line, TRUE)
  PROVE  \/ f = Append(Lines(file), line)
         \/ MayFail("open") /\ f = file
         \/ MayFail("write") /\ f = Lines(file)
  BY DEF WriteOutcomes

LEMMA HeaderOutcomes ==
  ASSUME NEW f \in WriteOutcomes(Header, FALSE)
  PROVE  \E base \in {<<>>, file} :
           /\ base = file => MayFail("open") \/ file = <<>>
           /\ \/ f = OverwriteHead(Lines(base))
              \/ MayFail("open") /\ f = base
              \/ MayFail("write") /\ f = Lines(base)
<1>1. PICK base \in Truncations :
        \/ f = OverwriteHead(Lines(base))
        \/ MayFail("open") /\ f = base
        \/ MayFail("write") /\ f = Lines(base)
  BY DEF WriteOutcomes
<1>2. base = <<>> \/ (base = file /\ MayFail("open"))
  BY DEF Truncations
<1> QED  BY <1>1, <1>2

LEMMA EmptyLines == <<>> \in Seq(Line) /\ Lines(<<>>) = <<>>
  BY DEF Lines

LEMMA HeaderWriteTyped ==
  ASSUME file \in File, NEW f \in WriteOutcomes(Header, FALSE) PROVE f \in File
<1>1. PICK base \in {<<>>, file} : \/ f = OverwriteHead(Lines(base))
                                   \/ f = base \/ f = Lines(base)
  BY HeaderOutcomes
<1>2. base \in File
  BY EmptyLines DEF File
<1> QED  BY <1>1, <1>2, LinesTyped, HeadOverwritten DEF File

LEMMA RowTyped ==
  ASSUME RecordTypeOK, timestamp \in Nat, cap \in Nat, row \in 1 .. Len(transitions)
  PROVE  Row(row) \in RowLine
<1>1. transitions[row] \in Transition /\ row \in 1 .. MaxTransitions
  BY RecordAssumption DEF RecordTypeOK
<1> QED  BY <1>1 DEF Row, RowLine, Transition

LEMMA RowWriteTyped ==
  ASSUME file \in File, NEW line \in Line, NEW f \in WriteOutcomes(line, TRUE) PROVE f \in File
<1>1. Lines(file) \in Seq(Line) /\ Append(Lines(file), line) \in Seq(Line)
  BY LinesTyped, AppendProperties
<1> QED  BY <1>1, AppendOutcomes DEF File

LEMMA PrefixTyped ==
  ASSUME NEW S, NEW seq \in Seq(S), NEW q \in Prefixes(seq) PROVE q \in Seq(S)
<1>1. PICK l \in 0 .. Len(seq) : q = SubSeq(seq, 1, l)
  BY DEF Prefixes
<1>2. l \in Int /\ \A i \in 1 .. l : seq[i] \in S
  OBVIOUS
<1> QED  BY <1>1, <1>2, SubSeqProperties

(* What a load can keep is typed, and so is the record made of it.                 *)
LEMMA LoadTyped ==
  ASSUME file \in File, NEW start \in Clocks, LoadWith(start)
  PROVE  loaded' \in Kept /\ RecordTypeOK' /\ Len(transitions') = Len(loaded')
<1>1. loaded' \in Kept
  <2>1. CASE loaded' = <<>>
    BY <2>1, NothingTyped DEF Nothing, Acc
  <2>2. CASE file # NoFile /\ \E lines \in ReadOutcomes : loaded' = RowsOf(lines)
    <3>1. PICK lines \in ReadOutcomes : loaded' = RowsOf(lines)
      BY <2>2
    <3>2. lines \in Seq(Line)
      BY <2>2, PrefixTyped DEF File, ReadOutcomes
    <3> QED  BY <3>1, <3>2, LoadsLatest
  <2> QED  BY <2>1, <2>2 DEF LoadWith, OpenOutcomes
<1> DEFINE n == Len(loaded')
<1> DEFINE rows == loaded'
<1>2. n \in Nat /\ n <= MaxTransitions /\ \A i \in 1 .. n : rows[i] \in RowLine
  BY <1>1 DEF Kept
<1>3. \A i \in 1 .. n : [time |-> Rebased(rows[i], start), state |-> rows[i].state, at |-> 0]
                          \in Transition
  <2> SUFFICES ASSUME NEW i \in 1 .. n
               PROVE  Rebased(rows[i], start) \in Clocks /\ rows[i].state \in BOOLEAN
    BY DEF Transition
  <2>1. rows[i].time \in Int /\ rows[i].state \in BOOLEAN /\ start \in Int
    BY <1>2 DEF RowLine, Clocks
  <2>2. start + rows[i].time \in Int
    BY <2>1
  <2> QED  BY <2>1, <2>2, RecordAssumption DEF Rebased, Clocks
<1>4. transitions' = [i \in 1 .. n |->
         [time |-> Rebased(rows[i], start), state |-> rows[i].state, at |-> 0]]
  BY DEF LoadWith
<1>5. transitions' \in Seq(Transition) /\ Len(transitions') = n
  <2> HIDE DEF n, rows
  <2> QED  BY <1>2, <1>3, <1>4
<1> QED  BY <1>1, <1>2, <1>5 DEF RecordTypeOK

(* The types, and what they rest on.                                              *)
Typed == StoreTypeOK /\ RowInRecord

LEMMA FileIsFile == StoreTypeOK => file \in File
  BY DEF StoreTypeOK, File

LEMMA TypedInit == StoreInit => Typed
<1> SUFFICES ASSUME StoreInit PROVE Typed
  OBVIOUS
<1>1. <<>> \in Seq(Transition) /\ <<>> \in Seq(RowLine) /\ <<>> \in Seq(Nat) /\ Len(<<>>) = 0
  OBVIOUS
<1> QED  BY <1>1, RecordAssumption DEF StoreInit, Typed, StoreTypeOK, RecordTypeOK, RowInRecord

LEMMA TypedSaveBegin == ASSUME Typed, SaveBegin PROVE Typed'
<1>1. /\ row' = 1 /\ timestamp' = seconds /\ saving' \in {"header", "rows"} /\ transitions # <<>>
      /\ UNCHANGED <<regime, transitions, cap, file, seconds, loaded, saved, captures, crashes>>
  BY DEF SaveBegin
<1>2. 1 \in 1 .. Len(transitions) /\ 1 \in 0 .. MaxTransitions
  BY <1>1, RecordAssumption DEF Typed, StoreTypeOK, RecordTypeOK
<1> QED  BY <1>1, <1>2 DEF Typed, StoreTypeOK, RecordTypeOK, RowInRecord

LEMMA TypedSaveHeader == ASSUME Typed, SaveHeader PROVE Typed'
<1>1. /\ saving = "header" /\ file' \in WriteOutcomes(Header, FALSE) /\ saving' = "rows"
      /\ UNCHANGED <<regime, transitions, cap, row, timestamp, seconds, loaded, saved,
                     captures, crashes>>
  BY DEF SaveHeader
<1>2. file' \in File
  BY <1>1, HeaderWriteTyped, FileIsFile DEF Typed
<1> QED  BY <1>1, <1>2 DEF Typed, StoreTypeOK, RecordTypeOK, RowInRecord, File

LEMMA TypedSaveRow == ASSUME Typed, SaveRow PROVE Typed'
<1>1. /\ saving = "rows" /\ file' \in WriteOutcomes(Row(row), TRUE)
      /\ UNCHANGED <<regime, transitions, cap, timestamp, seconds, loaded, captures, crashes>>
  BY DEF SaveRow, RowsAppend
<1>2. row \in 1 .. Len(transitions) /\ Len(transitions) \in Nat
  BY <1>1 DEF Typed, RowInRecord, StoreTypeOK, RecordTypeOK
<1>3. file' \in File
  BY <1>1, <1>2, RowTyped, RowWriteTyped, FileIsFile DEF Typed, StoreTypeOK, Line
<1>4. row' \in 0 .. MaxTransitions /\ saving' \in {"no", "rows"} /\ saved' \in Seq(Nat)
      /\ (saving' # "no" => row' \in 1 .. Len(transitions))
  <2>0. /\ saved \in Seq(Nat) /\ cap \in Nat /\ Len(transitions) <= MaxTransitions
        /\ MaxTransitions \in Nat
    BY RecordAssumption DEF Typed, StoreTypeOK, RecordTypeOK
  <2>1. CASE MoreRows
    <3>1. row' = row + 1 /\ saving' = saving /\ saved' = saved /\ row < Len(transitions)
      BY <2>1 DEF SaveRow, MoreRows
    <3> QED  BY <1>1, <1>2, <2>0, <3>1
  <2>2. CASE ~MoreRows
    <3>1. row' = 0 /\ saving' = "no" /\ saved' = Append(saved, cap)
      BY <2>2 DEF SaveRow
    <3> QED  BY <2>0, <3>1, AppendProperties
  <2> QED  BY <2>1, <2>2
<1> QED  BY <1>1, <1>3, <1>4 DEF Typed, StoreTypeOK, RecordTypeOK, RowInRecord, File

LEMMA TypedLoad == ASSUME Typed, NEW start \in Clocks, LoadWith(start) PROVE Typed'
<1>1. /\ saving = "no" /\ cap' = 0
      /\ UNCHANGED <<file, regime, saving, row, timestamp, seconds, saved, captures, crashes>>
  BY DEF LoadWith, saveVars
<1>2. loaded' \in Seq(RowLine) /\ RecordTypeOK'
  BY LoadTyped, FileIsFile DEF Typed, Kept
<1> QED  BY <1>1, <1>2 DEF Typed, StoreTypeOK, RowInRecord

LEMMA TypedCapture == ASSUME Typed, NEW times \in Times, Capture(times) PROVE Typed'
<1>1. /\ saving = "no" /\ captures' = captures + 1 /\ cap' = captures + 1
      /\ UNCHANGED <<file, regime, saving, row, timestamp, seconds, loaded, saved, crashes>>
      /\ transitions' = [i \in 1 .. MaxTransitions |->
                           [time |-> times[i], state |-> i % 2 = 1, at |-> 0]]
  BY DEF Capture, saveVars
<1> DEFINE entry(i) == [time |-> times[i], state |-> i % 2 = 1, at |-> 0]
<1>2. \A i \in 1 .. MaxTransitions : entry(i) \in Transition
  <2> SUFFICES ASSUME NEW i \in 1 .. MaxTransitions PROVE entry(i) \in Transition
    OBVIOUS
  <2>1. times[i] \in Clocks /\ 0 \in Nat
    BY DEF Times
  <2>2. (i % 2 = 1) \in BOOLEAN
    OBVIOUS
  <2> QED  BY <2>1, <2>2 DEF Transition
<1>3. transitions' \in Seq(Transition) /\ Len(transitions') = MaxTransitions
  <2>1. transitions' = [i \in 1 .. MaxTransitions |-> entry(i)] /\ MaxTransitions \in Nat
    BY <1>1, RecordAssumption
  <2> HIDE DEF entry
  <2> QED  BY <1>2, <2>1
<1> QED  BY <1>1, <1>3, RecordAssumption DEF Typed, StoreTypeOK, RecordTypeOK, RowInRecord

LEMMA TypedSecond == ASSUME Typed, Second PROVE Typed'
  BY DEF Second, saveVars, Typed, StoreTypeOK, RecordTypeOK, RowInRecord

LEMMA TypedCrash == ASSUME Typed, Crash PROVE Typed'
<1>1. /\ crashes' = crashes + 1 /\ file' \in {file, <<>>} /\ transitions' = <<>> /\ cap' = 0
      /\ loaded' = <<>> /\ saving' = "no" /\ row' = 0 /\ seconds' \in 1 .. seconds
      /\ UNCHANGED <<regime, timestamp, saved, captures>>
  BY DEF Crash
<1>2. <<>> \in Seq(Transition) /\ <<>> \in Seq(RowLine) /\ <<>> \in Seq(Line) /\ Len(<<>>) = 0
  OBVIOUS
<1>3. file' \in File /\ 0 \in 0 .. MaxTransitions /\ seconds' \in Nat \ {0} /\ crashes' \in Nat
  <2>1. file' \in File
    BY <1>1, <1>2, FileIsFile DEF Typed, File
  <2>2. seconds \in Nat /\ crashes \in Nat
    BY DEF Typed, StoreTypeOK
  <2> QED  BY <1>1, <2>1, <2>2, RecordAssumption
<1>4. RecordTypeOK' /\ loaded' \in Seq(RowLine)
  BY <1>1, <1>2, RecordAssumption DEF RecordTypeOK
<1>5. /\ regime \in Regimes /\ timestamp \in Nat /\ saved \in Seq(Nat) /\ captures \in Nat
  BY DEF Typed, StoreTypeOK
<1> QED  BY <1>1, <1>3, <1>4, <1>5 DEF Typed, StoreTypeOK, RowInRecord, File

LEMMA TypedStutter == ASSUME Typed, UNCHANGED storeVars PROVE Typed'
  BY DEF storeVars, Typed, StoreTypeOK, RecordTypeOK, RowInRecord

LEMMA TypedHolds == StoreSpec => []Typed
<1>1. Typed /\ [StoreNext]_storeVars => Typed'
  BY TypedSaveBegin, TypedSaveHeader, TypedSaveRow, TypedLoad, TypedCapture, TypedSecond,
     TypedCrash, TypedStutter DEF StoreNext, SaveCapture
<1> QED  BY <1>1, TypedInit, PTL DEF StoreSpec

(* Every variable keeps its type: a load never fills more than the array, whatever  *)
(* faults left in the file (digital.c:231).                                        *)
THEOREM StoreTypeHolds == StoreSpec => []StoreTypeOK
  BY TypedHolds, PTL DEF Typed

(* The one pass of load_pulses_from_file finds the rows of the latest timestamp in   *)
(* the file, whatever faults left in it (digital.c:205-238).                        *)
THEOREM LoadFindsLatestHolds == StoreSpec => []LoadFindsLatest
<1>1. StoreTypeOK => LoadFindsLatest
  BY LoadsLatest DEF StoreTypeOK, LoadFindsLatest
<1> QED  BY <1>1, StoreTypeHolds, PTL

-----------------------------------------------------------------------------
(* A header is only written where no file was found, unless the look failed.       *)
HeaderForNewFile == saving = "header" /\ ~MayFail("open") => file = NoFile

LEMMA PrefixOf ==
  ASSUME NEW lines \in Seq(Line), NEW line \in Line
  PROVE  IsPrefix(lines, lines) /\ IsPrefix(lines, Append(lines, line))
<1> DEFINE n == Len(lines)
<1>1. SubSeq(lines, 1, n) = lines
  BY SubSeqFull
<1>2. n \in Nat /\ \A i \in 1 .. n : lines[i] \in Line /\ Append(lines, line)[i] = lines[i]
  OBVIOUS
<1>3. /\ SubSeq(Append(lines, line), 1, n) \in Seq(Line)
      /\ Len(SubSeq(Append(lines, line), 1, n)) = n
      /\ \A i \in 1 .. n : SubSeq(Append(lines, line), 1, n)[i] = lines[i]
  <2> DEFINE app == Append(lines, line)
  <2>1. \A i \in 1 .. n : app[i] \in Line
    BY <1>2
  <2> HIDE DEF app
  <2>2. /\ SubSeq(app, 1, n) \in Seq(Line)
        /\ Len(SubSeq(app, 1, n)) = IF 1 <= n THEN n - 1 + 1 ELSE 0
        /\ \A i \in 1 .. n - 1 + 1 : SubSeq(app, 1, n)[i] = app[1 + i - 1]
    BY <1>2, <2>1, SubSeqProperties
  <2> QED  BY <1>2, <2>2 DEF app
<1>4. SubSeq(Append(lines, line), 1, n) = lines
  BY <1>3, SeqEqual
<1>5. n <= n /\ n <= Len(Append(lines, line))
  BY <1>2
<1> QED  BY <1>1, <1>4, <1>5 DEF IsPrefix

LEMMA HeaderStep ==
  ASSUME StoreTypeOK, HeaderForNewFile, [StoreNext]_storeVars PROVE HeaderForNewFile'
  BY DEF StoreTypeOK, HeaderForNewFile, StoreNext, SaveCapture, SaveBegin, OpenOutcomes, SaveHeader,
     SaveRow, LoadWith, Capture, Second, Crash, storeVars, saveVars, MayFail

(* As long as no open fails, a step only adds to the file.                         *)
LEMMA Grows ==
  ASSUME Typed, HeaderForNewFile, ~MayFail("open"), file # NoFile,
         SaveHeader \/ SaveRow \/ Crash \/ UNCHANGED file
  PROVE  file' # NoFile /\ IsPrefix(file, file')
<1>1. file \in Seq(Line) /\ Lines(file) = file
  BY DEF Typed, StoreTypeOK, Lines
<1>2. CASE UNCHANGED file
  BY <1>1, <1>2, PrefixOf, HeaderTyped
<1>3. CASE SaveHeader
  BY <1>3 DEF SaveHeader, HeaderForNewFile
<1>4. CASE SaveRow
  <2>1. Row(row) \in Line
    BY <1>4, RowTyped DEF SaveRow, Typed, StoreTypeOK, RowInRecord, Line
  <2>2. file' = Append(file, Row(row)) \/ file' = file
    BY <1>1, <1>4, AppendOutcomes DEF SaveRow, RowsAppend
  <2>3. Append(file, Row(row)) \in Seq(Line)
    BY <1>1, <2>1, AppendProperties
  <2> QED  BY <1>1, <2>1, <2>2, <2>3, PrefixOf, NoFileAssumption
<1>5. CASE Crash
  BY <1>1, <1>5, PrefixOf, HeaderTyped DEF Crash, HeaderForNewFile
<1> QED  BY <1>2, <1>3, <1>4, <1>5

(* As long as no open fails, what was saved stays (digital.c:164, 181).             *)
THEOREM FileOnlyGrowsHolds == StoreSpec => FileOnlyGrows
<1>1. StoreInit => HeaderForNewFile
  BY DEF StoreInit, HeaderForNewFile
<1>2. Typed /\ HeaderForNewFile /\ [StoreNext]_storeVars
        => [~MayFail("open") /\ file # NoFile => file' # NoFile /\ IsPrefix(file, file')]_storeVars
  <2>1. [StoreNext]_storeVars => SaveHeader \/ SaveRow \/ Crash \/ UNCHANGED file
    BY DEF StoreNext, SaveCapture, SaveBegin, LoadWith, Capture, Second, storeVars
  <2> QED  BY <2>1, Grows
<1>3. Typed => StoreTypeOK
  BY DEF Typed
<1> QED  BY <1>1, <1>2, <1>3, HeaderStep, TypedHolds, PTL DEF StoreSpec, FileOnlyGrows

-----------------------------------------------------------------------------
(* Loading, in terms of the places of the file.                                   *)

RowPlaces(lines) == {p \in 1 .. Len(lines) : lines[p].kind = "row"}

(* `at` are the places of the rows kept; the first line is passed over.            *)
LoadedFrom(at, kept, lines) ==
  /\ at \in [1 .. Len(kept) -> RowPlaces(lines) \ {1}]
  /\ \A i, j \in 1 .. Len(kept) : i < j => at[i] < at[j]
  /\ \A i \in 1 .. Len(kept) : kept[i] = lines[at[i]]
  /\ \A i \in 1 .. Len(kept) : \A p \in RowPlaces(lines) \ {1} : lines[p].ts <= lines[at[i]].ts
  /\ \A p \in RowPlaces(lines) \ {1} :
       (\A q \in RowPlaces(lines) \ {1} : lines[q].ts <= lines[p].ts) =>
         \/ \E i \in 1 .. Len(kept) : at[i] = p
         \/ Len(kept) = MaxTransitions /\ \A i \in 1 .. Len(kept) : at[i] < p

LEMMA Loads ==
  ASSUME NEW lines \in Seq(Line)
  PROVE  RowsOf(lines) \in Kept /\ \E at : LoadedFrom(at, RowsOf(lines), lines)
<1> DEFINE kept == RowsOf(lines)
<1> DEFINE body == Body(lines)
<1> DEFINE n == Len(body)
<1> DEFINE m == Len(kept)
<1> DEFINE rows == {p \in 1 .. n : body[p].kind = "row"}
<1> DEFINE latest == {p \in rows : \A q \in rows : body[q].ts <= body[p].ts}
<1> DEFINE places == RowPlaces(lines) \ {1}
<1>1. /\ n = (IF lines = <<>> THEN 0 ELSE Len(lines) - 1) /\ Len(lines) \in Nat
      /\ lines = <<>> <=> Len(lines) = 0
      /\ \A p \in 1 .. n : p + 1 \in 1 .. Len(lines) /\ body[p] = lines[p + 1]
  BY BodyTyped
<1>2. kept \in Kept /\ IsLatest(kept, body)
  BY LoadsLatest
<1>3. PICK f \in [1 .. m -> latest] :
        /\ \A i, j \in 1 .. m : i < j => f[i] < f[j]
        /\ \A i \in 1 .. m : kept[i] = body[f[i]]
        /\ \A p \in latest : \/ \E i \in 1 .. m : f[i] = p
                             \/ m = MaxTransitions /\ \A i \in 1 .. m : f[i] < p
  BY <1>2 DEF IsLatest
<1> HIDE DEF kept, body
<1>4. /\ \A p \in rows : p + 1 \in places
      /\ \A p \in places : p - 1 \in rows
      /\ \A p \in places : p \in Nat /\ p - 1 \in 1 .. n /\ (p - 1) + 1 = p /\ lines[p] = body[p - 1]
  BY <1>1 DEF RowPlaces
<1> DEFINE at == [i \in 1 .. m |-> f[i] + 1]
<1>5. \A i \in 1 .. m : f[i] \in latest /\ f[i] \in rows /\ f[i] \in 1 .. n /\ at[i] = f[i] + 1
  OBVIOUS
<1>6. at \in [1 .. m -> places]
  BY <1>4, <1>5
<1>7. ASSUME NEW i \in 1 .. m, NEW j \in 1 .. m, i < j PROVE at[i] < at[j]
  BY <1>1, <1>3, <1>5, <1>7
<1>8. \A i \in 1 .. m : kept[i] = lines[at[i]]
  BY <1>1, <1>3, <1>5
<1>9. ASSUME NEW i \in 1 .. m, NEW p \in places PROVE lines[p].ts <= lines[at[i]].ts
  BY <1>1, <1>4, <1>5
<1>10. ASSUME NEW p \in places, \A q \in places : lines[q].ts <= lines[p].ts
       PROVE  \/ \E i \in 1 .. m : at[i] = p
              \/ m = MaxTransitions /\ \A i \in 1 .. m : at[i] < p
  <2>1. p - 1 \in rows
    BY <1>4
  <2>2. ASSUME NEW q \in rows PROVE body[q].ts <= body[p - 1].ts
    BY <1>1, <1>4, <1>10
  <2>3. p - 1 \in latest
    BY <2>1, <2>2
  <2>4. CASE \E i \in 1 .. m : f[i] = p - 1
    BY <1>4, <1>5, <2>4
  <2>5. CASE m = MaxTransitions /\ \A i \in 1 .. m : f[i] < p - 1
    BY <1>4, <1>5, <2>5
  <2> QED  BY <1>3, <2>3, <2>4, <2>5
<1> HIDE DEF at, places
<1>11. LoadedFrom(at, kept, lines)
  BY <1>6, <1>7, <1>8, <1>9, <1>10 DEF LoadedFrom, places
<1> QED  BY <1>2, <1>11 DEF kept

LEMMA PrefixPlaces ==
  ASSUME NEW lines \in Seq(Line), NEW q \in Prefixes(lines)
  PROVE  /\ q \in Seq(Line) /\ Len(q) <= Len(lines)
         /\ \A i \in 1 .. Len(q) : i \in 1 .. Len(lines) /\ q[i] = lines[i]
<1>1. PICK l \in 0 .. Len(lines) : q = SubSeq(lines, 1, l)
  BY DEF Prefixes
<1>2. /\ Len(lines) \in Nat /\ l \in Nat /\ l <= Len(lines)
      /\ \A i \in 1 .. l : lines[i] \in Line
  OBVIOUS
<1>3. /\ q \in Seq(Line) /\ Len(q) = (IF 1 <= l THEN l - 1 + 1 ELSE 0)
      /\ \A i \in 1 .. l - 1 + 1 : q[i] = lines[1 + i - 1]
  BY <1>1, <1>2, SubSeqProperties
<1> QED  BY <1>2, <1>3

(* What a load keeps: nothing, or what the pass finds in a beginning of the file.   *)
LEMMA LoadCases ==
  ASSUME file \in File, NEW start, LoadWith(start)
  PROVE  \/ loaded' = <<>>
         \/ /\ file \in Seq(Line)
            /\ \E lines \in Prefixes(file) : /\ loaded' = RowsOf(lines)
                                             /\ ~MayFail("read") => lines = file
<1>1. SUFFICES ASSUME loaded' # <<>>
      PROVE  /\ file \in Seq(Line)
             /\ \E lines \in Prefixes(file) : /\ loaded' = RowsOf(lines)
                                              /\ ~MayFail("read") => lines = file
  OBVIOUS
<1>2. PICK lines \in ReadOutcomes : loaded' = RowsOf(lines)
  BY <1>1 DEF LoadWith
<1>3. file # NoFile
  BY <1>1 DEF LoadWith, OpenOutcomes
<1>4. file \in Seq(Line)
  BY <1>3 DEF File
<1>5. file \in Prefixes(file)
  <2>1. file = SubSeq(file, 1, Len(file)) /\ Len(file) \in 0 .. Len(file)
    BY <1>4, SubSeqFull, LenProperties
  <2> QED  BY <2>1 DEF Prefixes
<1> QED  BY <1>2, <1>4, <1>5 DEF ReadOutcomes

-----------------------------------------------------------------------------
(* Captures apart.  The rows of the file are in the order of their timestamps, and   *)
(* those of one timestamp are of one capture and in its order.                      *)
Ordered(lines) ==
  \A p, q \in RowPlaces(lines) : p < q =>
    \/ lines[p].ts < lines[q].ts
    \/ /\ lines[p].ts = lines[q].ts /\ lines[p].cap = lines[q].cap
       /\ lines[p].num < lines[q].num

(* None is later than the last save, and its own rows come before its next one.     *)
Dated(lines) ==
  \A p \in RowPlaces(lines) :
    /\ lines[p].ts <= timestamp
    /\ saving # "no" /\ lines[p].ts = timestamp => lines[p].cap = cap /\ lines[p].num < row

(* A capture that is still to be saved is later than the last save.                *)
LaterCapture == saving = "no" /\ cap # 0 /\ ~Contains(saved, cap) => timestamp < seconds

FirstCapture == captures = 0 => timestamp = 0 /\ cap = 0

Apart ==
  /\ FirstCapture
  /\ regime.gap > 0 => /\ Ordered(Lines(file)) /\ Dated(Lines(file))
                       /\ LaterCapture /\ LoadedFromOneCapture

LEMMA GapTyped == StoreTypeOK => regime.gap \in Nat
  BY StoreAssumption DEF StoreTypeOK

LEMMA RowPlacesTyped ==
  ASSUME NEW lines \in Seq(Line), NEW p \in RowPlaces(lines)
  PROVE  /\ p \in Nat /\ p \in 1 .. Len(lines) /\ lines[p] \in RowLine
         /\ lines[p].ts \in Nat /\ lines[p].num \in Nat /\ lines[p].num >= 1
<1>1. p \in 1 .. Len(lines) /\ lines[p] \in Line /\ lines[p].kind = "row"
  BY DEF RowPlaces
<1> QED  BY <1>1, RowLines, RecordAssumption

(* Rows may be lost from a file, at its end or under a header, but none is moved.  *)
Fewer(new, lines) ==
  \A p \in RowPlaces(new) : p \in RowPlaces(lines) /\ new[p] = lines[p]

LEMMA FewerKeep ==
  ASSUME NEW new, NEW lines, Fewer(new, lines)
  PROVE  /\ Ordered(lines) => Ordered(new)
         /\ Dated(lines) => Dated(new)
  BY DEF Fewer, Ordered, Dated

LEMMA FewerByHeader ==
  ASSUME file \in File, NEW f \in WriteOutcomes(Header, FALSE)
  PROVE  Fewer(Lines(f), Lines(file))
<1>1. PICK base \in {<<>>, file} : f = OverwriteHead(Lines(base)) \/ f = base \/ f = Lines(base)
  BY HeaderOutcomes
<1>2. base \in File /\ Lines(base) \in Seq(Line) /\ Lines(file) \in Seq(Line)
  BY EmptyLines, LinesTyped DEF File
<1>3. Fewer(Lines(base), Lines(file))
  BY EmptyLines DEF Fewer, RowPlaces
<1>4. CASE f = base \/ f = Lines(base)
  BY <1>2, <1>3, <1>4, NoFileAssumption DEF Lines
<1>5. CASE f = OverwriteHead(Lines(base))
  <2>1. f \in Seq(Line) /\ Lines(f) = f
    BY <1>2, <1>5, HeadOverwritten, NoFileAssumption DEF Lines
  <2>2. \A p \in RowPlaces(f) : p \in RowPlaces(Lines(base)) /\ f[p] = Lines(base)[p]
    BY <1>2, <1>5, HeadOverwritten DEF RowPlaces
  <2> QED  BY <1>3, <2>1, <2>2 DEF Fewer
<1> QED  BY <1>1, <1>4, <1>5

LEMMA FewerByPrefix ==
  ASSUME NEW lines \in Seq(Line), NEW q \in Prefixes(lines) PROVE Fewer(q, lines)
  BY PrefixPlaces DEF Fewer, RowPlaces

LEMMA AppendedPlaces ==
  ASSUME NEW lines \in Seq(Line), NEW line \in RowLine
  PROVE  /\ RowPlaces(Append(lines, line)) = RowPlaces(lines) \cup {Len(lines) + 1}
         /\ \A p \in RowPlaces(lines) : p < Len(lines) + 1 /\ Append(lines, line)[p] = lines[p]
         /\ Append(lines, line)[Len(lines) + 1] = line
<1> DEFINE n == Len(lines)
<1> DEFINE new == Append(lines, line)
<1>1. /\ n \in Nat /\ Len(new) = n + 1 /\ new[n + 1] = line
      /\ \A p \in 1 .. n : new[p] = lines[p]
  BY DEF Line
<1>2. line.kind = "row" /\ \A p \in 1 .. n + 1 : p \in 1 .. n \/ p = n + 1
  BY <1>1 DEF RowLine
<1> HIDE DEF new
<1>3. RowPlaces(new) = RowPlaces(lines) \cup {n + 1}
  BY <1>1, <1>2 DEF RowPlaces
<1>4. \A p \in RowPlaces(lines) : p < n + 1 /\ new[p] = lines[p]
  BY <1>1 DEF RowPlaces
<1> QED  BY <1>1, <1>3, <1>4 DEF new

LEMMA OrderedAppend ==
  ASSUME NEW lines \in Seq(Line), NEW line \in RowLine, Ordered(lines),
         \A p \in RowPlaces(lines) :
           \/ lines[p].ts < line.ts
           \/ lines[p].ts = line.ts /\ lines[p].cap = line.cap /\ lines[p].num < line.num
  PROVE  Ordered(Append(lines, line))
<1> DEFINE n == Len(lines)
<1> DEFINE new == Append(lines, line)
<1>1. /\ RowPlaces(new) = RowPlaces(lines) \cup {n + 1} /\ n \in Nat /\ new[n + 1] = line
      /\ \A p \in RowPlaces(lines) : p < n + 1 /\ p \in Nat /\ new[p] = lines[p]
  BY AppendedPlaces, RowPlacesTyped
<1> HIDE DEF new, n
<1> SUFFICES ASSUME NEW p \in RowPlaces(new), NEW q \in RowPlaces(new), p < q
             PROVE  \/ new[p].ts < new[q].ts
                    \/ /\ new[p].ts = new[q].ts /\ new[p].cap = new[q].cap
                       /\ new[p].num < new[q].num
  BY DEF Ordered, new
<1>2. p \in RowPlaces(lines)
  BY <1>1
<1>3. CASE q \in RowPlaces(lines)
  BY <1>1, <1>2, <1>3 DEF Ordered
<1>4. CASE q = n + 1
  BY <1>1, <1>2, <1>4
<1> QED  BY <1>1, <1>3, <1>4

(* What is loaded from rows in order comes from one capture, in its order.          *)
LEMMA OrderedLoads ==
  ASSUME NEW lines \in Seq(Line), Ordered(lines),
         NEW i \in 1 .. Len(RowsOf(lines)), NEW j \in 1 .. Len(RowsOf(lines)), i < j
  PROVE  /\ RowsOf(lines)[i].cap = RowsOf(lines)[j].cap
         /\ RowsOf(lines)[i].num < RowsOf(lines)[j].num
<1> DEFINE kept == RowsOf(lines)
<1>1. PICK at : LoadedFrom(at, kept, lines)
  BY Loads
<1> HIDE DEF kept
<1>2. /\ i \in 1 .. Len(kept) /\ j \in 1 .. Len(kept)
  BY DEF kept
<1>3. /\ at[i] \in RowPlaces(lines) \ {1} /\ at[j] \in RowPlaces(lines) \ {1} /\ at[i] < at[j]
      /\ kept[i] = lines[at[i]] /\ kept[j] = lines[at[j]]
      /\ lines[at[i]].ts <= lines[at[j]].ts /\ lines[at[j]].ts <= lines[at[i]].ts
  BY <1>1, <1>2 DEF LoadedFrom
<1>4. lines[at[i]].ts \in Nat /\ lines[at[j]].ts \in Nat
  BY <1>3, RowPlacesTyped
<1>5. lines[at[i]].ts = lines[at[j]].ts
  BY <1>3, <1>4
<1> QED  BY <1>3, <1>4, <1>5 DEF Ordered, kept

LEMMA ApartSaveBegin == ASSUME Typed, Apart, SaveCapture PROVE Apart'
<1>1. /\ cap # 0 /\ ~Contains(saved, cap) /\ saving = "no" /\ timestamp' = seconds /\ saving' # "no"
      /\ UNCHANGED <<regime, file, cap, captures, loaded>>
  BY DEF SaveCapture, SaveBegin
<1>2. FirstCapture'
  BY <1>1 DEF Apart, FirstCapture
<1> SUFFICES ASSUME regime.gap > 0
             PROVE  (Ordered(Lines(file)) /\ Dated(Lines(file)) /\ LaterCapture
                       /\ LoadedFromOneCapture)'
  BY <1>1, <1>2 DEF Apart
<1>3. /\ Ordered(Lines(file)) /\ Dated(Lines(file)) /\ LoadedFromOneCapture /\ timestamp < seconds
  BY <1>1 DEF Apart, LaterCapture
<1>4. /\ Lines(file) \in Seq(Line) /\ timestamp \in Nat /\ seconds \in Nat
  BY FileIsFile, LinesTyped DEF Typed, StoreTypeOK
<1>5. \A p \in RowPlaces(Lines(file)) : Lines(file)[p].ts < seconds /\ Lines(file)[p].ts \in Nat
  BY <1>3, <1>4, RowPlacesTyped DEF Dated
<1>6. Dated(Lines(file))'
  BY <1>1, <1>4, <1>5 DEF Dated, Lines
<1> QED  BY <1>1, <1>3, <1>6 DEF Ordered, Lines, LaterCapture, LoadedFromOneCapture

LEMMA ApartSaveHeader == ASSUME Typed, Apart, SaveHeader PROVE Apart'
<1>1. /\ saving = "header" /\ file' \in WriteOutcomes(Header, FALSE) /\ saving' = "rows"
      /\ UNCHANGED <<regime, cap, row, timestamp, captures, loaded>>
  BY DEF SaveHeader
<1>2. Fewer(Lines(file'), Lines(file))
  BY <1>1, FewerByHeader, FileIsFile DEF Typed
<1>3. regime.gap > 0 => Ordered(Lines(file')) /\ Dated(Lines(file'))
  BY <1>2, FewerKeep DEF Apart
<1>4. regime.gap > 0 => Dated(Lines(file))'
  BY <1>1, <1>3 DEF Dated, Lines
<1> QED  BY <1>1, <1>3, <1>4 DEF Apart, FirstCapture, LaterCapture, LoadedFromOneCapture, Ordered, Lines

LEMMA ApartSaveRow == ASSUME Typed, Apart, SaveRow PROVE Apart'
<1> DEFINE old == Lines(file)
<1> DEFINE new == Append(old, Row(row))
<1>1. /\ saving = "rows" /\ file' \in WriteOutcomes(Row(row), TRUE)
      /\ UNCHANGED <<regime, transitions, cap, timestamp, seconds, captures, loaded>>
  BY DEF SaveRow, RowsAppend
<1>2. Row(row) \in RowLine /\ row \in Nat /\ old \in Seq(Line)
  BY <1>1, RowTyped, FileIsFile, LinesTyped DEF Typed, StoreTypeOK, RowInRecord
<1>3. Row(row).ts = timestamp /\ Row(row).cap = cap /\ Row(row).num = row
  BY DEF Row
<1>4. \/ row' = row + 1 /\ saving' = "rows"
      \/ saving' = "no" /\ saved' = Append(saved, cap)
  BY <1>1 DEF SaveRow
<1>5. saving' = "no" => Contains(saved', cap)
  <2>1. saved \in Seq(Nat) /\ cap \in Nat
    BY DEF Typed, StoreTypeOK
  <2>2. Len(saved) + 1 \in 1 .. Len(Append(saved, cap)) /\ Append(saved, cap)[Len(saved) + 1] = cap
    BY <2>1
  <2> QED  BY <1>4, <2>2 DEF Contains
<1>6. FirstCapture' /\ LaterCapture' /\ (LoadedFromOneCapture => LoadedFromOneCapture')
  BY <1>1, <1>5 DEF Apart, FirstCapture, LaterCapture, LoadedFromOneCapture
<1> SUFFICES ASSUME regime.gap > 0 PROVE (Ordered(Lines(file)) /\ Dated(Lines(file)))'
  BY <1>1, <1>6 DEF Apart
<1>7. Ordered(old) /\ Dated(old)
  BY DEF Apart
<1>8. \A p \in RowPlaces(old) :
        /\ old[p].ts \in Nat /\ old[p].ts <= timestamp /\ old[p].num \in Nat
        /\ old[p].ts = timestamp => old[p].cap = cap /\ old[p].num < row
  BY <1>1, <1>2, <1>7, RowPlacesTyped DEF Dated
<1>9. timestamp \in Nat
  BY DEF Typed, StoreTypeOK
<1>10. file' = new \/ Lines(file') = old
  BY <1>1, AppendOutcomes, EmptyLines, NoFileAssumption, FileIsFile DEF Lines, File, Typed
<1>11. CASE Lines(file') = old
  <2>1. \A p \in RowPlaces(old) :
          old[p].ts <= timestamp /\ (saving' # "no" /\ old[p].ts = timestamp
                                       => old[p].cap = cap /\ old[p].num < row')
    BY <1>2, <1>4, <1>8
  <2>2. (Dated(Lines(file)))'
    BY <1>1, <1>11, <2>1 DEF Dated, Lines
  <2> QED  BY <1>7, <1>11, <2>2 DEF Ordered, Lines
<1>12. CASE file' = new
  <2>1. Ordered(new)
    BY <1>2, <1>3, <1>7, <1>8, <1>9, OrderedAppend
  <2>2. /\ RowPlaces(new) = RowPlaces(old) \cup {Len(old) + 1} /\ new[Len(old) + 1] = Row(row)
        /\ \A p \in RowPlaces(old) : new[p] = old[p]
    BY <1>2, AppendedPlaces
  <2>3. new \in Seq(Line) /\ Lines(new) = new
    BY <1>2, AppendProperties, NoFileAssumption DEF Lines, Line
  <2> HIDE DEF new, old
  <2>4. \A p \in RowPlaces(new) :
          new[p].ts <= timestamp /\ (saving' # "no" /\ new[p].ts = timestamp
                                       => new[p].cap = cap /\ new[p].num < row')
    BY <1>2, <1>3, <1>4, <1>8, <1>9, <2>2
  <2>5. Lines(file') = new
    BY <1>12, <2>3
  <2>6. (Dated(Lines(file)))'
    BY <1>1, <2>4, <2>5 DEF Dated, Lines
  <2> QED  BY <2>1, <2>5, <2>6 DEF Ordered, Lines
<1> QED  BY <1>10, <1>11, <1>12

LEMMA ApartLoad == ASSUME Typed, Apart, NEW start \in Clocks, LoadWith(start) PROVE Apart'
<1>1. /\ saving = "no" /\ cap' = 0
      /\ UNCHANGED <<file, regime, saving, row, timestamp, seconds, saved, captures>>
  BY DEF LoadWith, saveVars
<1>2. FirstCapture'
  BY <1>1 DEF Apart, FirstCapture
<1> SUFFICES ASSUME regime.gap > 0
             PROVE  (Ordered(Lines(file)) /\ Dated(Lines(file)) /\ LaterCapture
                       /\ LoadedFromOneCapture)'
  BY <1>1, <1>2 DEF Apart
<1>3. Ordered(Lines(file)) /\ Dated(Lines(file))
  BY DEF Apart
<1>4. LoadedFromOneCapture'
  <2>1. CASE loaded' = <<>>
    BY <2>1 DEF LoadedFromOneCapture
  <2>2. CASE loaded' # <<>>
    <3>1. PICK lines \in Prefixes(file) : file \in Seq(Line) /\ loaded' = RowsOf(lines)
      BY <2>2, LoadCases, FileIsFile DEF Typed
    <3>2. lines \in Seq(Line) /\ Fewer(lines, file) /\ Lines(file) = file
      BY <3>1, PrefixPlaces, FewerByPrefix, NoFileAssumption DEF Lines
    <3>3. Ordered(lines)
      BY <1>3, <3>2, FewerKeep
    <3>4. \A i, j \in 1 .. Len(loaded') : i < j => loaded'[i].cap = loaded'[j].cap
                                                  /\ loaded'[i].num < loaded'[j].num
      BY <3>1, <3>2, <3>3, OrderedLoads
    <3> QED  BY <3>4 DEF LoadedFromOneCapture
  <2> QED  BY <2>1, <2>2
<1> QED  BY <1>1, <1>3, <1>4 DEF Ordered, Dated, Lines, LaterCapture

LEMMA ApartCapture == ASSUME Typed, Apart, NEW times \in Times, Capture(times) PROVE Apart'
<1>1. /\ saving = "no" /\ captures' = captures + 1 /\ cap' = captures + 1
      /\ regime.gap > 0 /\ captures > 0 => seconds >= timestamp + regime.gap
      /\ UNCHANGED <<file, regime, saving, row, timestamp, seconds, loaded, saved>>
  BY DEF Capture, saveVars
<1>2. /\ captures \in Nat /\ timestamp \in Nat /\ seconds \in Nat \ {0} /\ regime.gap \in Nat
  BY GapTyped DEF Typed, StoreTypeOK
<1>3. regime.gap > 0 => timestamp < seconds
  BY <1>1, <1>2 DEF Apart, FirstCapture
<1>4. captures' # 0
  BY <1>1, <1>2
<1> QED  BY <1>1, <1>3, <1>4 DEF Apart, FirstCapture, LaterCapture, LoadedFromOneCapture, Ordered,
                                 Dated, Lines

LEMMA ApartSecond == ASSUME Typed, Apart, Second PROVE Apart'
<1>1. /\ seconds' = seconds + 1
      /\ UNCHANGED <<transitions, cap, file, regime, saving, row, timestamp, loaded, saved,
                     captures, crashes>>
  BY DEF Second, saveVars
<1>2. timestamp < seconds => timestamp < seconds + 1
  BY DEF Typed, StoreTypeOK
<1> QED  BY <1>1, <1>2 DEF Apart, FirstCapture, LaterCapture, LoadedFromOneCapture, Ordered,
    Dated, Lines

LEMMA ApartCrash == ASSUME Typed, Apart, Crash PROVE Apart'
<1>1. /\ file' \in {file, <<>>} /\ cap' = 0 /\ loaded' = <<>> /\ saving' = "no"
      /\ UNCHANGED <<regime, timestamp, saved, captures>>
  BY DEF Crash
<1>2. Fewer(Lines(file'), Lines(file))
  BY <1>1, EmptyLines DEF Fewer, RowPlaces
<1>3. regime.gap > 0 => Ordered(Lines(file')) /\ Dated(Lines(file'))
  BY <1>2, FewerKeep DEF Apart
<1>4. regime.gap > 0 => (Dated(Lines(file)))'
  BY <1>1, <1>3 DEF Dated, Lines
<1>5. LoadedFromOneCapture'
  BY <1>1 DEF LoadedFromOneCapture
<1> QED  BY <1>1, <1>3, <1>4, <1>5 DEF Apart, FirstCapture, LaterCapture, Ordered, Lines

LEMMA ApartStutter == ASSUME Apart, UNCHANGED storeVars PROVE Apart'
  BY DEF storeVars, Apart, FirstCapture, LaterCapture, LoadedFromOneCapture, Ordered, Dated, Lines

LEMMA ApartHolds == StoreSpec => []Apart
<1>1. StoreInit => Apart
  <2> SUFFICES ASSUME StoreInit PROVE Apart
    OBVIOUS
  <2>1. Lines(file) = <<>> /\ loaded = <<>> /\ cap = 0 /\ timestamp = 0
    BY DEF StoreInit, Lines
  <2>2. RowPlaces(<<>>) = {} /\ 1 .. Len(<<>>) = {}
    BY DEF RowPlaces
  <2> QED  BY <2>1, <2>2 DEF Apart, FirstCapture, Ordered, Dated, LaterCapture, LoadedFromOneCapture
<1>2. Typed /\ Apart /\ [StoreNext]_storeVars => Apart'
  BY ApartSaveBegin, ApartSaveHeader, ApartSaveRow, ApartLoad, ApartCapture, ApartSecond,
     ApartCrash, ApartStutter DEF StoreNext
<1> QED  BY <1>1, <1>2, TypedHolds, PTL DEF StoreSpec

(* When captures are at least a second apart, what is loaded comes from one capture, *)
(* in its order, whichever calls failed and wherever power was lost (digital.c:223). *)
THEOREM LoadedFromOneCaptureHolds == StoreSpec => []LoadedFromOneCapture
<1>1. Apart => LoadedFromOneCapture
  BY DEF Apart, LoadedFromOneCapture
<1> QED  BY <1>1, ApartHolds, PTL

-----------------------------------------------------------------------------
(* Power cuts alone.  Every row but the first of its capture follows the one before  *)
(* it.                                                                             *)
Follows(lines) ==
  \A p \in RowPlaces(lines) : lines[p].num > 1 =>
    /\ p - 1 \in RowPlaces(lines)
    /\ lines[p - 1].ts = lines[p].ts /\ lines[p - 1].num = lines[p].num - 1

(* In a save, the row before the next one ends the file.                           *)
Continues(lines) ==
  /\ saving = "header" => row = 1
  /\ saving = "rows" /\ row > 1 =>
       /\ Len(lines) \in RowPlaces(lines)
       /\ lines[Len(lines)].ts = timestamp /\ lines[Len(lines)].num = row - 1

NothingFromNothing == Lines(file) = <<>> => loaded = <<>>

NoHoles ==
  regime.faults = {} =>
    /\ Follows(Lines(file)) /\ Continues(Lines(file))
    /\ NothingFromNothing /\ LoadedIsPrefix

LEMMA PrefixLoads ==
  ASSUME NEW lines \in Seq(Line), Ordered(lines), Follows(lines), lines[1] = Header,
         NEW i \in 1 .. Len(RowsOf(lines))
  PROVE  RowsOf(lines)[i].num = i
<1> DEFINE kept == RowsOf(lines)
<1> DEFINE n == Len(kept)
<1> DEFINE places == RowPlaces(lines) \ {1}
<1>1. PICK at : LoadedFrom(at, kept, lines)
  BY Loads
<1>2. n \in Nat
  BY Loads DEF Kept
<1> HIDE DEF kept
<1>3. /\ \A k \in 1 .. n : at[k] \in places /\ at[k] \in RowPlaces(lines) /\ kept[k] = lines[at[k]]
      /\ \A k, l \in 1 .. n : k < l => at[k] < at[l]
      /\ \A k \in 1 .. n : \A p \in places : lines[p].ts <= lines[at[k]].ts
  BY <1>1 DEF LoadedFrom
<1>4. 1 \notin RowPlaces(lines)
  BY HeaderTyped DEF RowPlaces
<1>5. \A p \in RowPlaces(lines) : p \in places /\ p \in Nat /\ lines[p].num \in Nat
                                  /\ lines[p].num >= 1 /\ lines[p].ts \in Nat
  BY <1>4, RowPlacesTyped
<1> DEFINE S == {m \in 0 .. n : m = 0 \/ lines[at[m]].num = m}
<1>6. ASSUME NEW m \in 0 .. n - 1, m \in S PROVE m + 1 \in S
  <2> DEFINE p == at[m + 1]
  <2>1. m + 1 \in 1 .. n /\ p \in RowPlaces(lines) /\ p \in Nat /\ m \in Nat
    BY <1>2, <1>3, <1>5
  <2>2. CASE lines[p].num > 1
    <3>1. /\ p - 1 \in RowPlaces(lines) /\ lines[p - 1].ts = lines[p].ts
          /\ lines[p - 1].num = lines[p].num - 1
      BY <2>1, <2>2 DEF Follows
    <3>2. \A q \in places : lines[q].ts <= lines[p - 1].ts
      BY <1>3, <2>1, <3>1
    <3>3. p - 1 \in places
      BY <1>5, <3>1
    <3>4. \/ \E k \in 1 .. n : at[k] = p - 1
          \/ \A k \in 1 .. n : at[k] < p - 1
      BY <1>1, <3>2, <3>3 DEF LoadedFrom
    <3>5. ~(p < p - 1)
      BY <2>1
    <3>6. PICK k \in 1 .. n : at[k] = p - 1
      BY <2>1, <3>4, <3>5
    <3>7. k = m
      <4>1. k < m + 1
        <5>1. CASE k = m + 1
          BY <2>1, <3>6, <5>1
        <5>2. CASE k > m + 1
          <6>1. p < at[k]
            BY <1>3, <2>1, <5>2
          <6> QED  BY <2>1, <3>6, <6>1
        <5> QED  BY <2>1, <5>1, <5>2
      <4>2. CASE k < m
        <5>1. m \in 1 .. n
          BY <2>1, <4>2
        <5>2. at[k] < at[m] /\ at[m] < p /\ at[m] \in Nat
          BY <1>3, <1>5, <2>1, <4>2, <5>1
        <5> QED  BY <2>1, <3>6, <5>2
      <4> QED  BY <2>1, <4>1, <4>2
    <3>8. lines[p - 1].num = m
      <4>1. m # 0
        BY <3>7, <1>2
      <4> QED  BY <1>6, <3>6, <3>7, <4>1
    <3>9. lines[p].num = m + 1
      <4> DEFINE num == lines[p].num
      <4>1. num \in Nat /\ num - 1 = m /\ m \in Nat
        BY <1>5, <2>1, <3>1, <3>8
      <4> HIDE DEF num
      <4>2. num = m + 1
        BY <4>1
      <4> QED  BY <4>2 DEF num
    <3> QED  BY <1>2, <2>1, <3>9
  <2>3. CASE ~(lines[p].num > 1)
    <3>1. lines[p].num = 1
      BY <1>5, <2>1, <2>3
    <3>2. CASE m # 0
      <4>1. m \in 1 .. n /\ m < m + 1
        BY <2>1, <3>2
      <4>2. at[m] < p /\ at[m] \in RowPlaces(lines) /\ at[m] \in places /\ p \in places
        BY <1>3, <2>1, <4>1
      <4>3. lines[at[m]].ts <= lines[p].ts /\ lines[p].ts <= lines[at[m]].ts
        BY <1>3, <2>1, <4>1, <4>2
      <4>4. lines[at[m]].ts = lines[p].ts
        <5>1. lines[at[m]].ts \in Nat /\ lines[p].ts \in Nat
          BY <1>5, <2>1, <4>2
        <5> QED  BY <4>3, <5>1
      <4>5. \/ lines[at[m]].ts < lines[p].ts
            \/ lines[at[m]].num < lines[p].num
        BY <2>1, <4>2 DEF Ordered
      <4>6. lines[at[m]].num < lines[p].num
        BY <1>5, <2>1, <4>2, <4>4, <4>5
      <4> QED  BY <1>5, <3>1, <4>2, <4>6
    <3> QED  BY <2>1, <3>1, <3>2
  <2> QED  BY <2>2, <2>3
<1>7. 0 \in S
  BY <1>2
<1>8. i \in 0 .. n /\ i # 0 /\ i \in 1 .. n
  BY <1>2 DEF kept
<1> HIDE DEF S
<1>9. i \in S
  BY <1>2, <1>6, <1>7, <1>8, Induction
<1> QED  BY <1>3, <1>8, <1>9 DEF S, kept

(* When no call fails, a header makes a file of one line.                          *)
LEMMA CleanHeader ==
  ASSUME regime.faults = {}, NEW f \in WriteOutcomes(Header, FALSE)
  PROVE  f \in Seq(Line) /\ Lines(f) = f /\ Len(f) = 1 /\ f[1] = Header /\ RowPlaces(f) = {}
<1>1. PICK base \in {<<>>, file} : (base = file => file = <<>>) /\ f = OverwriteHead(Lines(base))
  BY HeaderOutcomes DEF MayFail
<1>2. f = OverwriteHead(<<>>) /\ <<>> \in Seq(Line) /\ Len(<<>>) <= 1
  BY <1>1, EmptyLines
<1>3. f \in Seq(Line) /\ Len(f) = 1 /\ f[1] = Header
  BY <1>2, HeadOverwritten
<1>4. f # NoFile
  BY <1>3, NoFileAssumption
<1>5. RowPlaces(f) = {}
  BY <1>3, HeaderTyped DEF RowPlaces
<1> QED  BY <1>3, <1>4, <1>5 DEF Lines

(* When no call fails, a row is appended.                                          *)
LEMMA CleanRow ==
  ASSUME Typed, regime.faults = {}, SaveRow
  PROVE  /\ Lines(file) \in Seq(Line) /\ Row(row) \in RowLine
         /\ file' = Append(Lines(file), Row(row)) /\ file' \in Seq(Line) /\ Lines(file') = file'
<1>1. saving = "rows" /\ file' \in WriteOutcomes(Row(row), TRUE)
  BY DEF SaveRow, RowsAppend
<1>2. Lines(file) \in Seq(Line) /\ Row(row) \in RowLine
  BY <1>1, RowTyped, FileIsFile, LinesTyped DEF Typed, StoreTypeOK, RowInRecord
<1>3. file' = Append(Lines(file), Row(row))
  BY <1>1, AppendOutcomes DEF MayFail
<1>4. file' \in Seq(Line) /\ file' # NoFile
  BY <1>2, <1>3, AppendProperties, NoFileAssumption DEF Line
<1> QED  BY <1>2, <1>3, <1>4 DEF Lines

LEMMA NoHolesSaveBegin == ASSUME Typed, NoHoles, SaveBegin PROVE NoHoles'
<1>1. row' = 1 /\ UNCHANGED <<regime, file, loaded>>
  BY DEF SaveBegin
<1>2. (Continues(Lines(file)))'
  BY <1>1 DEF Continues
<1> QED  BY <1>1, <1>2 DEF NoHoles, Follows, NothingFromNothing, LoadedIsPrefix, Lines

LEMMA NoHolesSaveHeader == ASSUME Typed, HeaderForNewFile, NoHoles, SaveHeader PROVE NoHoles'
<1>1. /\ saving = "header" /\ saving' = "rows" /\ file' \in WriteOutcomes(Header, FALSE)
      /\ UNCHANGED <<regime, row, timestamp, loaded>>
  BY DEF SaveHeader
<1> SUFFICES ASSUME regime.faults = {}
             PROVE  (Follows(Lines(file)) /\ Continues(Lines(file)) /\ NothingFromNothing
                       /\ LoadedIsPrefix)'
  BY <1>1 DEF NoHoles
<1>2. Lines(file') = file' /\ Len(file') = 1 /\ RowPlaces(file') = {}
  BY <1>1, CleanHeader
<1>3. row = 1 /\ loaded = <<>>
  BY <1>1 DEF NoHoles, Continues, HeaderForNewFile, MayFail, NothingFromNothing, Lines
<1>4. (Follows(Lines(file)))'
  BY <1>2 DEF Follows, Lines
<1>5. (Continues(Lines(file)))'
  BY <1>1, <1>3 DEF Continues
<1> QED  BY <1>1, <1>3, <1>4, <1>5 DEF NothingFromNothing, LoadedIsPrefix

LEMMA NoHolesSaveRow == ASSUME Typed, Apart, NoHoles, SaveRow PROVE NoHoles'
<1> DEFINE old == Lines(file)
<1> DEFINE n == Len(old)
<1> DEFINE new == Append(old, Row(row))
<1>1. /\ saving = "rows" /\ UNCHANGED <<regime, timestamp, loaded>>
      /\ row' = row + 1 \/ saving' = "no"
  BY DEF SaveRow
<1> SUFFICES ASSUME regime.faults = {}
             PROVE  (Follows(Lines(file)) /\ Continues(Lines(file)) /\ NothingFromNothing
                       /\ LoadedIsPrefix)'
  BY <1>1 DEF NoHoles
<1>2. old \in Seq(Line) /\ Row(row) \in RowLine /\ Lines(file') = new /\ new \in Seq(Line)
  BY CleanRow
<1>3. /\ RowPlaces(new) = RowPlaces(old) \cup {n + 1} /\ new[n + 1] = Row(row)
      /\ \A p \in RowPlaces(old) : new[p] = old[p] /\ p < n + 1
  <2>1. old \in Seq(Line) /\ Row(row) \in RowLine
    BY <1>2
  <2> DEFINE r == Row(row)
  <2> HIDE DEF old, r
  <2>2. /\ RowPlaces(Append(old, r)) = RowPlaces(old) \cup {Len(old) + 1}
        /\ \A p \in RowPlaces(old) : p < Len(old) + 1 /\ Append(old, r)[p] = old[p]
        /\ Append(old, r)[Len(old) + 1] = r
    BY <2>1, AppendedPlaces DEF r
  <2> QED  BY <2>2 DEF r
<1>4. /\ n \in Nat /\ Len(new) = n + 1
      /\ n > 0 => new[1] = old[1]
      /\ n = 0 <=> old = <<>>
      /\ row \in Nat /\ row >= 1
  BY <1>1, <1>2 DEF Line, Typed, RowInRecord, StoreTypeOK, RecordTypeOK
<1>5. Row(row).ts = timestamp /\ Row(row).num = row
  BY DEF Row
<1>6. Follows(old) /\ Continues(old) /\ NothingFromNothing /\ LoadedIsPrefix
  BY DEF NoHoles
<1>7. row > 1 => n \in RowPlaces(old) /\ old[n].ts = timestamp /\ old[n].num = row - 1
  BY <1>1, <1>6 DEF Continues
<1>8. NothingFromNothing' /\ LoadedIsPrefix'
  <2>1. CASE n = 0
    BY <1>1, <1>2, <1>4, <1>6, <2>1 DEF NothingFromNothing, LoadedIsPrefix
  <2>2. CASE n > 0
    <3>1. new # <<>>
      BY <1>4
    <3>2. old # <<>> /\ new[1] = old[1]
      BY <1>4, <2>2
    <3> HIDE DEF new, old
    <3> QED  BY <1>1, <1>2, <1>6, <3>1, <3>2 DEF NothingFromNothing, LoadedIsPrefix, old
  <2> QED  BY <1>4, <2>1, <2>2
<1> HIDE DEF new, old, n
<1>9. Follows(new)
  <2> SUFFICES ASSUME NEW p \in RowPlaces(new), new[p].num > 1
               PROVE  /\ p - 1 \in RowPlaces(new)
                      /\ new[p - 1].ts = new[p].ts /\ new[p - 1].num = new[p].num - 1
    BY DEF Follows
  <2>1. CASE p \in RowPlaces(old)
    <3>1. /\ p - 1 \in RowPlaces(old) /\ old[p - 1].ts = old[p].ts
          /\ old[p - 1].num = old[p].num - 1
      BY <1>3, <1>6, <2>1 DEF Follows
    <3> QED  BY <1>3, <2>1, <3>1
  <2>2. CASE p = n + 1
    <3>1. row > 1 /\ (n + 1) - 1 = n
      BY <1>3, <1>4, <1>5, <2>2
    <3> QED  BY <1>3, <1>5, <1>7, <2>2, <3>1
  <2> QED  BY <1>3, <2>1, <2>2
<1>10. (Continues(Lines(file)))'
  <2>1. saving' # "no" => row' = row + 1 /\ row = (row + 1) - 1
    BY <1>1, <1>4
  <2>2. n + 1 \in RowPlaces(new) /\ new[n + 1].ts = timestamp /\ new[n + 1].num = row
    BY <1>3, <1>5
  <2>3. saving' # "header"
    BY DEF SaveRow
  <2> QED  BY <1>1, <1>2, <1>4, <2>1, <2>2, <2>3 DEF Continues
<1> QED  BY <1>2, <1>8, <1>9, <1>10 DEF Lines

LEMMA NoHolesLoad ==
  ASSUME Typed, Apart, NoHoles, NEW start \in Clocks, LoadWith(start) PROVE NoHoles'
<1>1. saving = "no" /\ UNCHANGED <<file, regime, saving, row, timestamp>>
  BY DEF LoadWith, saveVars
<1> SUFFICES ASSUME regime.faults = {}
             PROVE  (Follows(Lines(file)) /\ Continues(Lines(file)) /\ NothingFromNothing
                       /\ LoadedIsPrefix)'
  BY <1>1 DEF NoHoles
<1>2. Follows(Lines(file)) /\ Continues(Lines(file))
  BY DEF NoHoles
<1>3. (Follows(Lines(file)) /\ Continues(Lines(file)))'
  BY <1>1, <1>2 DEF Follows, Continues, Lines
<1>4. loaded' = <<>> \/ (file \in Seq(Line) /\ loaded' = RowsOf(file))
  BY LoadCases, FileIsFile DEF Typed, MayFail
<1>5. CASE loaded' = <<>>
  BY <1>3, <1>5 DEF NothingFromNothing, LoadedIsPrefix
<1>6. CASE file \in Seq(Line) /\ loaded' = RowsOf(file)
  <2>1. Lines(file) = file /\ Lines(file') = file
    BY <1>1, <1>6, NoFileAssumption DEF Lines
  <2>2. file = <<>> => loaded' = <<>>
    <3>1. SUFFICES ASSUME file = <<>> PROVE RowsOf(file) = <<>>
      BY <1>6
    <3>2. PICK at : LoadedFrom(at, RowsOf(file), file)
      BY <1>6, Loads
    <3>3. RowsOf(file) \in Seq(RowLine)
      BY <1>6, Loads DEF Kept
    <3>4. RowPlaces(file) = {}
      BY <3>1 DEF RowPlaces
    <3>5. \A i \in 1 .. Len(RowsOf(file)) : at[i] \in {}
      BY <3>2, <3>4 DEF LoadedFrom
    <3> QED  BY <3>3, <3>5
  <2>3. regime.gap > 0 /\ file[1] = Header => \A i \in 1 .. Len(loaded') : loaded'[i].num = i
    BY <1>2, <1>6, <2>1, PrefixLoads DEF Apart
  <2>4. NothingFromNothing' /\ LoadedIsPrefix'
    BY <1>1, <2>1, <2>2, <2>3 DEF NothingFromNothing, LoadedIsPrefix
  <2> QED  BY <1>3, <2>4
<1> QED  BY <1>4, <1>5, <1>6

LEMMA NoHolesCrash == ASSUME Typed, NoHoles, Crash PROVE NoHoles'
<1>1. /\ file' \in {file, <<>>} /\ loaded' = <<>> /\ saving' = "no" /\ UNCHANGED regime
  BY DEF Crash
<1>2. Follows(<<>>) /\ Lines(<<>>) = <<>>
  BY EmptyLines DEF Follows, RowPlaces
<1>3. regime.faults = {} => Follows(Lines(file))
  BY DEF NoHoles
<1>4. regime.faults = {} => Follows(Lines(file'))
  BY <1>1, <1>2, <1>3
<1> QED  BY <1>1, <1>4 DEF NoHoles, Follows, Continues, NothingFromNothing, LoadedIsPrefix, Lines

LEMMA NoHolesOther ==
  ASSUME NoHoles, UNCHANGED <<regime, file, saving, row, timestamp, loaded>> PROVE NoHoles'
  BY DEF NoHoles, Follows, Continues, NothingFromNothing, LoadedIsPrefix, Lines

LEMMA NoHolesHolds == StoreSpec => []NoHoles
<1>1. StoreInit => NoHoles /\ HeaderForNewFile
  <2> SUFFICES ASSUME StoreInit PROVE NoHoles /\ HeaderForNewFile
    OBVIOUS
  <2>1. Lines(file) = <<>> /\ loaded = <<>> /\ saving = "no" /\ RowPlaces(<<>>) = {}
    BY DEF StoreInit, Lines, RowPlaces
  <2> QED  BY <2>1 DEF NoHoles, HeaderForNewFile, Follows, Continues, NothingFromNothing, LoadedIsPrefix
<1>2. Typed /\ Apart /\ NoHoles /\ HeaderForNewFile /\ [StoreNext]_storeVars => NoHoles'
  <2> SUFFICES ASSUME Typed, Apart, NoHoles, HeaderForNewFile, [StoreNext]_storeVars PROVE NoHoles'
    OBVIOUS
  <2>1. CASE SaveCapture \/ SaveHeader \/ SaveRow \/ Crash
    BY <2>1, NoHolesSaveBegin, NoHolesSaveHeader, NoHolesSaveRow, NoHolesCrash DEF SaveCapture
  <2>2. CASE \E start \in Clocks : LoadWith(start)
    BY <2>2, NoHolesLoad
  <2>3. CASE (\E times \in Times : Capture(times)) \/ Second \/ UNCHANGED storeVars
    BY <2>3, NoHolesOther DEF Capture, Second, saveVars, storeVars
  <2> QED  BY <2>1, <2>2, <2>3 DEF StoreNext
<1>3. Typed => StoreTypeOK
  BY DEF Typed
<1> QED  BY <1>1, <1>2, <1>3, HeaderStep, TypedHolds, ApartHolds, PTL DEF StoreSpec

(* When no call fails and the file has its header, power cuts only shorten what is   *)
(* loaded: it is a beginning of a capture, without holes (digital.c:164-184).       *)
THEOREM LoadedIsPrefixHolds == StoreSpec => []LoadedIsPrefix
<1>1. NoHoles => LoadedIsPrefix
  BY DEF NoHoles, LoadedIsPrefix
<1> QED  BY <1>1, NoHolesHolds, PTL

-----------------------------------------------------------------------------
(* Arithmetic modulo the clock.                                                   *)
LEMMA DivMod ==
  ASSUME NEW n \in Nat \ {0}, NEW x \in Int
  PROVE  /\ x % n \in 0 .. n - 1 /\ x \div n \in Int
         /\ x = n * (x \div n) + (x % n)
  OBVIOUS

LEMMA ModPlus ==
  ASSUME NEW n \in Nat \ {0}, NEW y \in Int, NEW k \in Int
  PROVE  (y + n * k) % n = y % n
<1> DEFINE q == y \div n
<1> DEFINE r == y % n
<1> DEFINE p == q + k
<1>1. r \in 0 .. n - 1 /\ q \in Int /\ y = n * q + r
  BY DivMod
<1> HIDE DEF q, r
<1>2. y + n * k = r + n * p /\ p \in Int
  BY <1>1
<1> HIDE DEF p
<1>3. (r + n * p) % n = r
  BY <1>1, <1>2
<1> QED  BY <1>2, <1>3 DEF r

(* Readings of a clock that wraps differ by what has passed, modulo the wrap.    *)
LEMMA Difference ==
  ASSUME NEW n \in Nat \ {0}, NEW a \in Int, NEW b \in Int
  PROVE  /\ ((b % n) - (a % n)) % n = (b - a) % n
         /\ ((b % n) - a) % n = (b - a) % n
<1> DEFINE i == a \div n
<1> DEFINE j == b \div n
<1> DEFINE r == a % n
<1> DEFINE s == b % n
<1>1. /\ r \in Int /\ i \in Int /\ a = n * i + r
      /\ s \in Int /\ j \in Int /\ b = n * j + s
  BY DivMod
<1> DEFINE k == i - j
<1> DEFINE l == 0 - j
<1> HIDE DEF i, j, r, s
<1>2. n * k = n * i - n * j /\ k \in Int /\ n * l = 0 - n * j /\ l \in Int
      /\ n * i \in Int /\ n * j \in Int
  BY <1>1
<1> HIDE DEF k, l
<1>3. s - r = (b - a) + n * k /\ s - a = (b - a) + n * l /\ b - a \in Int
  BY <1>1, <1>2
<1> DEFINE d == b - a
<1> HIDE DEF d
<1>4. d \in Int /\ s - r = d + n * k /\ s - a = d + n * l
  BY <1>3 DEF d
<1>5. (d + n * k) % n = d % n /\ (d + n * l) % n = d % n
  BY <1>2, <1>4, ModPlus
<1> QED  BY <1>4, <1>5 DEF d, r, s

-----------------------------------------------------------------------------
(* The file as a log.  The place of the last row of the k-th capture that was saved.  *)
End(k) == 1 + k * MaxTransitions

LEMMA Ends ==
  ASSUME NEW n \in Nat
  PROVE  /\ End(n) \in Nat /\ End(n) >= 1 /\ End(n + 1) = End(n) + MaxTransitions
         /\ \A k \in 1 .. n : /\ End(k) = k * MaxTransitions + 1
                              /\ End(k - 1) + 1 = (k - 1) * MaxTransitions + 2
                              /\ End(k - 1) \in Nat /\ End(k) \in Nat /\ End(k) <= End(n)
<1> DEFINE M == MaxTransitions
<1>1. M \in Nat
  BY RecordAssumption
<1> HIDE DEF M
<1>2. \A k \in Nat : k * M \in Nat /\ (k + 1) * M = k * M + M
  BY <1>1
<1>3. ASSUME NEW k \in 1 .. n PROVE k * M <= n * M
  <2>1. n - k \in Nat /\ (n - k) * M \in Nat /\ n * M = k * M + (n - k) * M
    BY <1>1
  <2> QED  BY <1>1, <1>2, <2>1
<1>4. \A k \in Nat : End(k) = 1 + k * M
  BY DEF End, M
<1>5. ASSUME NEW k \in 1 .. n
      PROVE  /\ End(k) = k * M + 1 /\ End(k - 1) + 1 = (k - 1) * M + 2
             /\ End(k - 1) \in Nat /\ End(k) \in Nat /\ End(k) <= End(n)
  BY <1>2, <1>3, <1>4
<1>6. End(n) \in Nat /\ End(n) >= 1 /\ End(n + 1) = End(n) + M
  <2>1. n * M \in Nat /\ (n + 1) * M = n * M + M /\ End(n) = 1 + n * M /\ End(n + 1) = 1 + (n + 1) * M
    BY <1>2, <1>4
  <2> DEFINE m == n * M
  <2> HIDE DEF m
  <2>2. m \in Nat /\ End(n) = 1 + m /\ End(n + 1) = 1 + (m + M)
    BY <2>1 DEF m
  <2> QED  BY <1>1, <2>2
<1> QED  BY <1>5, <1>6 DEF M

LEMMA Part ==
  ASSUME NEW lines \in Seq(Line), NEW a \in Nat, NEW b \in Nat, 1 <= a, a <= b + 1, b <= Len(lines)
  PROVE  /\ SubSeq(lines, a, b) \in Seq(Line) /\ Len(SubSeq(lines, a, b)) = b - a + 1
         /\ \A i \in 1 .. b - a + 1 : SubSeq(lines, a, b)[i] = lines[a + i - 1]
<1>1. \A i \in a .. b : lines[i] \in Line
  OBVIOUS
<1>2. /\ SubSeq(lines, a, b) \in Seq(Line)
      /\ Len(SubSeq(lines, a, b)) = (IF a <= b THEN b - a + 1 ELSE 0)
      /\ \A i \in 1 .. b - a + 1 : SubSeq(lines, a, b)[i] = lines[a + i - 1]
  BY <1>1, SubSeqProperties
<1> QED  BY <1>2

(* What is appended leaves the parts before it as they were.                       *)
LEMMA PartKept ==
  ASSUME NEW lines \in Seq(Line), NEW line \in Line,
         NEW a \in Nat, NEW b \in Nat, 1 <= a, a <= b + 1, b <= Len(lines)
  PROVE  SubSeq(Append(lines, line), a, b) = SubSeq(lines, a, b)
<1> DEFINE new == Append(lines, line)
<1>1. /\ new \in Seq(Line) /\ Len(new) = Len(lines) + 1 /\ Len(lines) \in Nat
      /\ \A i \in 1 .. Len(lines) : new[i] = lines[i]
  OBVIOUS
<1> HIDE DEF new
<1>2. b <= Len(new)
  BY <1>1
<1>3. /\ SubSeq(new, a, b) \in Seq(Line) /\ Len(SubSeq(new, a, b)) = b - a + 1
      /\ \A i \in 1 .. b - a + 1 : SubSeq(new, a, b)[i] = new[a + i - 1]
  BY <1>1, <1>2, Part
<1>4. /\ SubSeq(lines, a, b) \in Seq(Line) /\ Len(SubSeq(lines, a, b)) = b - a + 1
      /\ \A i \in 1 .. b - a + 1 : SubSeq(lines, a, b)[i] = lines[a + i - 1]
  BY Part
<1>5. \A i \in 1 .. b - a + 1 : a + i - 1 \in 1 .. Len(lines)
  BY <1>1
<1>6. \A i \in 1 .. b - a + 1 : SubSeq(new, a, b)[i] = SubSeq(lines, a, b)[i]
  BY <1>1, <1>3, <1>4, <1>5
<1>7. SubSeq(new, a, b) = SubSeq(lines, a, b)
  BY <1>3, <1>4, <1>6, SeqEqual
<1> QED  BY <1>7 DEF new

TrainsIn(n, lines) ==
  [k \in 1 .. n |->
     IF k * MaxTransitions < Len(lines)
     THEN TrainOf(SubSeq(lines, (k - 1) * MaxTransitions + 2, k * MaxTransitions + 1))
     ELSE <<>>]

LEMMA TrainsKept ==
  ASSUME NEW lines \in Seq(Line), NEW line \in Line, NEW n \in Nat, End(n) <= Len(lines)
  PROVE  TrainsIn(n, Append(lines, line)) = TrainsIn(n, lines)
<1> DEFINE M == MaxTransitions
<1> DEFINE new == Append(lines, line)
<1>1. new \in Seq(Line) /\ Len(new) = Len(lines) + 1 /\ Len(lines) \in Nat
  OBVIOUS
<1>2. ASSUME NEW k \in 1 .. n
      PROVE  /\ k * M < Len(lines) /\ k * M < Len(new)
             /\ SubSeq(new, (k - 1) * M + 2, k * M + 1) = SubSeq(lines, (k - 1) * M + 2, k * M + 1)
  <2> DEFINE a == (k - 1) * M + 2
  <2> DEFINE b == k * M + 1
  <2>1. End(k) = b /\ End(k - 1) + 1 = a /\ End(k - 1) \in Nat /\ End(k) \in Nat /\ End(k) <= End(n)
        /\ End(n) \in Nat
    BY Ends
  <2>2. End((k - 1) + 1) = End(k - 1) + M /\ (k - 1) + 1 = k /\ M \in Nat
    BY Ends, RecordAssumption
  <2>3. k * M = b - 1 /\ k * M \in Nat
    BY <2>1, <2>2
  <2> HIDE DEF a, b, M
  <2>4. a \in Nat /\ b \in Nat /\ 1 <= a /\ a <= b + 1 /\ b <= Len(lines)
    BY <1>1, <2>1, <2>2
  <2>5. SubSeq(new, a, b) = SubSeq(lines, a, b)
    BY <2>4, PartKept
  <2>6. k * M < Len(lines) /\ k * M < Len(new)
    BY <1>1, <2>3, <2>4
  <2> QED  BY <2>5, <2>6 DEF a, b
<1> HIDE DEF new
<1> QED  BY <1>2 DEF TrainsIn, new

(* A whole capture more is a train more.                                           *)
LEMMA TrainsGrow ==
  ASSUME NEW lines \in Seq(Line), NEW line \in Line, NEW n \in Nat,
         End(n) <= Len(lines), End(n + 1) = Len(lines) + 1
  PROVE  TrainsIn(n + 1, Append(lines, line))
           = Append(TrainsIn(n, lines),
                    TrainOf(SubSeq(Append(lines, line), End(n) + 1, End(n + 1))))
<1> DEFINE M == MaxTransitions
<1> DEFINE new == Append(lines, line)
<1> DEFINE last == TrainOf(SubSeq(new, End(n) + 1, End(n + 1)))
<1>1. Len(new) = Len(lines) + 1 /\ TrainsIn(n, new) = TrainsIn(n, lines)
  BY TrainsKept
<1>2. /\ End(n + 1) = (n + 1) * M + 1 /\ End(n) + 1 = ((n + 1) - 1) * M + 2
      /\ n + 1 \in Nat /\ n + 1 \in 1 .. n + 1 /\ (n + 1) - 1 = n /\ End(n + 1) \in Nat
  BY Ends
<1> HIDE DEF new
<1>3. (n + 1) * M < Len(new)
  <2>1. (n + 1) * M = End(n + 1) - 1 /\ (n + 1) * M \in Int
    BY <1>2, RecordAssumption
  <2> QED  BY <1>1, <1>2, <2>1
<1>4. TrainsIn(n + 1, new)[n + 1] = last
  BY <1>2, <1>3 DEF TrainsIn
<1>5. \A k \in 1 .. n : TrainsIn(n + 1, new)[k] = TrainsIn(n, new)[k]
  BY DEF TrainsIn
<1> DEFINE old == TrainsIn(n, lines)
<1>6. /\ old = [k \in 1 .. n |-> old[k]]
      /\ TrainsIn(n + 1, new) = [k \in 1 .. n + 1 |-> IF k = n + 1 THEN last ELSE old[k]]
  <2>1. TrainsIn(n + 1, new) = [k \in 1 .. n + 1 |-> TrainsIn(n + 1, new)[k]]
    BY DEF TrainsIn
  <2>2. \A k \in 1 .. n + 1 : k = n + 1 \/ k \in 1 .. n
    OBVIOUS
  <2>3. \A k \in 1 .. n + 1 : TrainsIn(n + 1, new)[k] = IF k = n + 1 THEN last ELSE old[k]
    BY <1>1, <1>4, <1>5, <2>2
  <2>4. old = [k \in 1 .. n |-> old[k]]
    BY DEF TrainsIn
  <2> HIDE DEF last, old
  <2> QED  BY <2>1, <2>3, <2>4
<1> HIDE DEF old, last
<1>7. Append(old, last) = [k \in 1 .. n + 1 |-> IF k = n + 1 THEN last ELSE old[k]]
  <2>1. Len(old) = n
    BY <1>6
  <2> DEFINE S == {old[k] : k \in 1 .. n} \cup {last}
  <2>2. \A k \in 1 .. n : old[k] \in S
    OBVIOUS
  <2>3. last \in S
    OBVIOUS
  <2> HIDE DEF S
  <2>4. old \in Seq(S)
    BY <1>6, <2>2
  <2>5. /\ Append(old, last) \in Seq(S) /\ Len(Append(old, last)) = n + 1
        /\ \A k \in 1 .. n + 1 : Append(old, last)[k] = IF k = n + 1 THEN last ELSE old[k]
    BY <2>1, <2>3, <2>4
  <2> DEFINE app == Append(old, last)
  <2> HIDE DEF app
  <2>6. app = [k \in 1 .. n + 1 |-> app[k]]
    <3>1. app \in Seq(S) /\ Len(app) = n + 1
      BY <2>5 DEF app
    <3>2. app \in [1 .. n + 1 -> S]
      BY <3>1, LenProperties
    <3> QED  BY <3>2
  <2> QED  BY <2>5, <2>6 DEF app
<1> QED  BY <1>6, <1>7 DEF old, last, new

(* The train of a sequence is in its levels and the gaps between its times.         *)
LEMMA SameTrain ==
  ASSUME NEW s, NEW t, Len(s) = Len(t), Len(t) \in Nat,
         \A i \in 1 .. Len(t) : s[i].state = t[i].state,
         \A i \in 2 .. Len(t) :
           (s[i].time - s[i - 1].time) % ClockMod = (t[i].time - t[i - 1].time) % ClockMod
  PROVE  TrainOf(s) = TrainOf(t)
<1> DEFINE n == Len(t)
<1>1. ASSUME NEW i \in 1 .. n
      PROVE  (IF i = 1 THEN 0 ELSE (s[i].time - s[i - 1].time) % ClockMod)
               = (IF i = 1 THEN 0 ELSE (t[i].time - t[i - 1].time) % ClockMod)
  <2>1. i = 1 \/ i \in 2 .. n
    OBVIOUS
  <2> QED  BY <2>1
<1> QED  BY <1>1 DEF TrainOf

(* After `start` come the rows of the last save, and no other is as late.            *)
LastBlock(lines, start) ==
  /\ \A p \in RowPlaces(lines) : p <= start => lines[p].ts < timestamp
  /\ \A i \in 1 .. Len(lines) - start :
       /\ lines[start + i].kind = "row" /\ lines[start + i].num = i
       /\ lines[start + i].ts = timestamp

(* What is loaded then is that block.                                              *)
LEMMA LastBlockLoads ==
  ASSUME NEW lines \in Seq(Line), NEW a \in Nat, a >= 1, Len(lines) = a + MaxTransitions,
         Ordered(lines), Follows(lines), lines[1] = Header, LastBlock(lines, a), timestamp \in Nat
  PROVE  /\ Len(RowsOf(lines)) = MaxTransitions
         /\ \A i \in 1 .. MaxTransitions : RowsOf(lines)[i] = lines[a + i]
<1> DEFINE M == MaxTransitions
<1> DEFINE kept == RowsOf(lines)
<1> DEFINE n == Len(kept)
<1> DEFINE places == RowPlaces(lines) \ {1}
<1>1. PICK at : LoadedFrom(at, kept, lines)
  BY Loads
<1>2. n \in Nat /\ n <= M /\ M \in Nat \ {0}
  BY Loads, RecordAssumption DEF Kept
<1>3. \A i \in 1 .. n : kept[i].num = i
  BY PrefixLoads
<1> HIDE DEF kept
<1>4. \A j \in 1 .. M : /\ a + j \in places /\ lines[a + j].num = j
                        /\ lines[a + j].ts = timestamp
  <2> SUFFICES ASSUME NEW j \in 1 .. M
               PROVE  a + j \in places /\ lines[a + j].num = j /\ lines[a + j].ts = timestamp
    OBVIOUS
  <2>1. j \in 1 .. Len(lines) - a /\ a + j \in 1 .. Len(lines) /\ a + j # 1
    BY <1>2
  <2> QED  BY <2>1 DEF LastBlock, RowPlaces
<1>5. \A p \in places : p \in Nat /\ p \in RowPlaces(lines) /\ p <= a + M /\ lines[p].ts \in Nat
  BY <1>2, RowPlacesTyped
<1>6. \A p \in places : \/ p <= a /\ lines[p].ts < timestamp
                        \/ p - a \in 1 .. M /\ p = a + (p - a) /\ lines[p].ts = timestamp
  <2> SUFFICES ASSUME NEW p \in places
               PROVE  \/ p <= a /\ lines[p].ts < timestamp
                      \/ p - a \in 1 .. M /\ p = a + (p - a) /\ lines[p].ts = timestamp
    OBVIOUS
  <2>1. CASE p <= a
    BY <1>5, <2>1 DEF LastBlock
  <2>2. CASE ~(p <= a)
    <3>1. p - a \in 1 .. M /\ p = a + (p - a)
      BY <1>2, <1>5, <2>2
    <3> QED  BY <1>4, <3>1
  <2> QED  BY <2>1, <2>2
<1> HIDE DEF places
<1>7. \A i \in 1 .. n : at[i] \in places /\ kept[i] = lines[at[i]]
                        /\ \A p \in places : lines[p].ts <= lines[at[i]].ts
  BY <1>1 DEF LoadedFrom, places
<1>8. ASSUME NEW i \in 1 .. n PROVE at[i] = a + i /\ i \in 1 .. M
  <2>1. M \in 1 .. M
    BY <1>2
  <2>2. timestamp <= lines[at[i]].ts /\ lines[at[i]].ts \in Nat
    BY <1>4, <1>5, <1>7, <2>1
  <2>3. at[i] - a \in 1 .. M /\ at[i] = a + (at[i] - a)
    BY <1>6, <1>7, <2>2
  <2>4. lines[at[i]].num = at[i] - a
    BY <1>4, <2>3
  <2>5. at[i] - a = i
    BY <1>3, <1>7, <2>4
  <2> QED  BY <2>3, <2>5
<1>9. n = M
  <2>1. a + M \in places /\ lines[a + M].ts = timestamp
    BY <1>2, <1>4
  <2>2. \A q \in places : lines[q].ts <= lines[a + M].ts
    BY <1>5, <1>6, <2>1
  <2>3. \/ \E i \in 1 .. n : at[i] = a + M
        \/ n = M
    BY <1>1, <2>1, <2>2 DEF LoadedFrom, places
  <2>4. ASSUME NEW i \in 1 .. n, at[i] = a + M PROVE n = M
    BY <1>2, <1>8, <2>4
  <2> QED  BY <2>3, <2>4
<1> QED  BY <1>7, <1>8, <1>9 DEF kept

-----------------------------------------------------------------------------
(* The refinement of the log of pulse trains.                                      *)

NewFile == file = NoFile /\ saved = <<>> /\ saving \in {"no", "header"}

Written == IF saving = "rows" THEN row - 1 ELSE 0

WholeFile ==
  /\ file # NoFile /\ saving \in {"no", "rows"}
  /\ saving = "no" => saved # <<>>
  /\ file[1] = Header
  /\ Len(file) = End(Len(saved)) + Written

(* Where the rows of the save that runs, or of the last one, begin.                 *)
Start == IF saving = "rows" THEN End(Len(saved)) ELSE End(Len(saved) - 1)

OfRecord ==
  saving = "rows" =>
    \A i \in 1 .. Written : /\ file[Start + i].state = transitions[i].state
                            /\ file[Start + i].time = transitions[i].time

FullRecord == cap # 0 \/ saving # "no" => Len(transitions) = MaxTransitions

LogInv ==
  Reliable =>
    /\ NewFile \/ (WholeFile /\ LastBlock(file, Start) /\ OfRecord)
    /\ FullRecord

(* The log and the train at hand, as StoreIsLog reads them.                         *)
LogOf == IF Reliable THEN SavedTrains(Lines(file)) ELSE <<>>
RamOf == IF Reliable THEN TrainOf(transitions) ELSE <<>>

LEMMA LogIs == SavedTrains(Lines(file)) = TrainsIn(Len(saved), Lines(file))
  BY DEF SavedTrains, TrainsIn

(* Everything the steps rest on.                                                   *)
StoreInv == Typed /\ Apart /\ HeaderForNewFile /\ NoHoles /\ LogInv

LEMMA ReliableMeans ==
  ASSUME StoreInv, Reliable
  PROVE  /\ regime.faults = {} /\ regime.gap > 0 /\ ~Crash
         /\ file \in File /\ Lines(file) \in Seq(Line) /\ saved \in Seq(Nat) /\ Len(saved) \in Nat
         /\ timestamp \in Nat /\ seconds \in Nat /\ RecordTypeOK /\ MaxTransitions \in Nat \ {0}
<1>1. /\ file \in File /\ saved \in Seq(Nat) /\ timestamp \in Nat /\ seconds \in Nat /\ RecordTypeOK
      /\ crashes \in Nat
  BY FileIsFile DEF StoreInv, Typed, StoreTypeOK
<1>2. ~Crash
  BY <1>1 DEF Reliable, Crash
<1> QED  BY <1>1, <1>2, LinesTyped, RecordAssumption DEF Reliable

LEMMA LogSaveBegin ==
  ASSUME StoreInv, Reliable, SaveCapture
  PROVE  LogInv' /\ LogOf' = LogOf /\ RamOf' = RamOf
<1>1. /\ cap # 0 /\ ~Contains(saved, cap) /\ saving = "no" /\ timestamp' = seconds /\ row' = 1
      /\ \E opened \in OpenOutcomes : saving' = IF opened THEN "rows" ELSE "header"
      /\ UNCHANGED <<regime, transitions, cap, file, saved>>
  BY DEF SaveCapture, SaveBegin
<1>2. saving' = IF file # NoFile THEN "rows" ELSE "header"
  BY <1>1, ReliableMeans DEF OpenOutcomes, MayFail
<1>3. LogOf' = LogOf /\ RamOf' = RamOf
  BY <1>1 DEF LogOf, RamOf, Reliable, SavedTrains, Lines
<1>4. FullRecord'
  BY <1>1 DEF StoreInv, LogInv, FullRecord
<1>5. CASE NewFile
  <2>1. NewFile'
    BY <1>1, <1>2, <1>5 DEF NewFile
  <2> QED  BY <1>3, <1>4, <2>1 DEF LogInv
<1>6. CASE WholeFile /\ LastBlock(file, Start)
  <2>1. /\ file # NoFile /\ file[1] = Header /\ Len(file) = End(Len(saved)) /\ Lines(file) = file
        /\ saving' = "rows" /\ End(Len(saved)) \in Nat
    BY <1>1, <1>2, <1>6, Ends, ReliableMeans DEF WholeFile, Written, Lines
  <2>2. \A p \in RowPlaces(file) : file[p].ts < seconds
    <3>1. timestamp < seconds
      BY <1>1, ReliableMeans DEF StoreInv, Apart, LaterCapture
    <3>2. \A p \in RowPlaces(file) : file[p].ts <= timestamp /\ file[p].ts \in Nat
      BY <2>1, ReliableMeans, RowPlacesTyped DEF StoreInv, Apart, Dated
    <3> QED  BY <3>1, <3>2, ReliableMeans
  <2>3. Written' = 0 /\ Start' = End(Len(saved))
    BY <1>1, <2>1 DEF Written, Start
  <2>4. WholeFile'
    BY <1>1, <2>1, <2>3 DEF WholeFile
  <2>5. (LastBlock(file, Start))'
    BY <1>1, <2>1, <2>2, <2>3 DEF LastBlock
  <2>6. OfRecord'
    BY <2>3 DEF OfRecord
  <2> QED  BY <1>3, <1>4, <2>4, <2>5, <2>6 DEF LogInv
<1> QED  BY <1>5, <1>6 DEF StoreInv, LogInv

LEMMA LogSaveHeader ==
  ASSUME StoreInv, Reliable, SaveHeader
  PROVE  LogInv' /\ LogOf' = LogOf /\ RamOf' = RamOf
<1>1. /\ saving = "header" /\ saving' = "rows" /\ file' \in WriteOutcomes(Header, FALSE)
      /\ UNCHANGED <<regime, transitions, cap, saved, row, timestamp>>
  BY DEF SaveHeader
<1>2. NewFile /\ FullRecord
  BY <1>1 DEF StoreInv, LogInv, WholeFile
<1>3. /\ file' \in Seq(Line) /\ Len(file') = 1 /\ file'[1] = Header /\ RowPlaces(file') = {}
      /\ file' # NoFile
  BY <1>1, CleanHeader, ReliableMeans, NoFileAssumption
<1>4. row = 1
  BY <1>1, ReliableMeans DEF StoreInv, NoHoles, Continues
<1>5. saved = <<>> /\ Len(saved) = 0
  BY <1>2 DEF NewFile
<1>6. LogOf' = LogOf /\ RamOf' = RamOf
  <2>1. SavedTrains(Lines(file)) = TrainsIn(0, Lines(file))
    BY <1>5, LogIs
  <2>2. (SavedTrains(Lines(file)))' = TrainsIn(0, Lines(file'))
    BY <1>1, <1>5 DEF SavedTrains, TrainsIn, Lines
  <2>3. TrainsIn(0, Lines(file')) = TrainsIn(0, Lines(file))
    BY DEF TrainsIn
  <2> QED  BY <1>1, <2>1, <2>2, <2>3 DEF LogOf, RamOf, Reliable
<1>7. End(0) = 1
  BY RecordAssumption DEF End
<1>8. Written' = 0 /\ Start' = 1
  BY <1>1, <1>4, <1>5, <1>7 DEF Written, Start
<1>9. WholeFile'
  BY <1>1, <1>3, <1>5, <1>7, <1>8 DEF WholeFile
<1>10. (LastBlock(file, Start))'
  BY <1>3, <1>8 DEF LastBlock
<1>11. OfRecord' /\ FullRecord'
  BY <1>1, <1>2, <1>8 DEF OfRecord, FullRecord
<1> QED  BY <1>6, <1>9, <1>10, <1>11 DEF LogInv

LEMMA LogSaveRow ==
  ASSUME StoreInv, Reliable, SaveRow
  PROVE  /\ LogInv' /\ RamOf' = RamOf
         /\ LogOf' = LogOf \/ (RamOf # <<>> /\ LogOf' = Append(LogOf, RamOf))
<1> DEFINE n == Len(saved)
<1> DEFINE M == MaxTransitions
<1> DEFINE a == End(n)
<1> DEFINE new == Append(file, Row(row))
<1>1. /\ saving = "rows" /\ UNCHANGED <<regime, transitions, cap, timestamp>>
  BY DEF SaveRow
<1>2. WholeFile /\ LastBlock(file, a) /\ OfRecord /\ Len(transitions) = M /\ Start = a
      /\ Written = row - 1
  BY <1>1 DEF StoreInv, LogInv, NewFile, FullRecord, Start, Written
<1>3. /\ file # NoFile /\ file \in Seq(Line) /\ Lines(file) = file /\ file[1] = Header
      /\ Len(file) = a + (row - 1) /\ row \in 1 .. M
  <2>1. row \in 1 .. Len(transitions)
    BY <1>1 DEF StoreInv, Typed, RowInRecord
  <2> QED  BY <1>2, <2>1, ReliableMeans DEF WholeFile, File, Lines
<1>4. n \in Nat /\ M \in Nat \ {0} /\ a \in Nat /\ a >= 1 /\ End(n + 1) = a + M
  BY ReliableMeans, Ends
<1>5. /\ file' = new /\ new \in Seq(Line) /\ Lines(file') = new /\ Row(row) \in RowLine
      /\ Row(row) \in Line
  BY <1>3, CleanRow, ReliableMeans DEF StoreInv, Line
<1>6. /\ Len(new) = a + row /\ new[a + row] = Row(row)
      /\ \A i \in 1 .. Len(file) : new[i] = file[i]
  <2>1. Len(file) + 1 = a + row
    BY <1>3, <1>4
  <2>2. Len(new) = Len(file) + 1 /\ new[Len(file) + 1] = Row(row)
        /\ \A i \in 1 .. Len(file) : new[i] = file[i]
    BY <1>3, <1>5
  <2> QED  BY <2>1, <2>2
<1>7. /\ RowPlaces(new) = RowPlaces(file) \cup {a + row}
      /\ \A p \in RowPlaces(file) : new[p] = file[p]
  <2>1. Len(file) + 1 = a + row
    BY <1>3, <1>4
  <2> QED  BY <1>3, <1>5, <2>1, AppendedPlaces
<1>8. /\ Row(row).kind = "row" /\ Row(row).num = row /\ Row(row).ts = timestamp
      /\ Row(row).state = transitions[row].state /\ Row(row).time = transitions[row].time
  BY DEF Row
<1> HIDE DEF new, n, M, a
<1>9. new[1] = Header /\ new # NoFile
  <2>1. 1 \in 1 .. Len(file)
    BY <1>3, <1>4
  <2> QED  BY <1>3, <1>5, <1>6, <2>1, NoFileAssumption
<1>10. \A i \in 1 .. row :
         /\ new[a + i].kind = "row" /\ new[a + i].num = i /\ new[a + i].ts = timestamp
         /\ new[a + i].state = transitions[i].state /\ new[a + i].time = transitions[i].time
  <2> SUFFICES ASSUME NEW i \in 1 .. row
               PROVE  /\ new[a + i].kind = "row" /\ new[a + i].num = i /\ new[a + i].ts = timestamp
                      /\ new[a + i].state = transitions[i].state
                      /\ new[a + i].time = transitions[i].time
    OBVIOUS
  <2>1. CASE i = row
    BY <1>6, <1>8, <2>1
  <2>2. CASE i # row
    <3>1. i \in 1 .. Len(file) - a /\ i \in 1 .. Written /\ a + i \in 1 .. Len(file)
      BY <1>2, <1>3, <1>4, <2>2
    <3> QED  BY <1>1, <1>2, <1>6, <3>1 DEF LastBlock, OfRecord
  <2> QED  BY <2>1, <2>2
<1>11. \A p \in RowPlaces(new) : p <= a => new[p].ts < timestamp
  <2> SUFFICES ASSUME NEW p \in RowPlaces(new), p <= a PROVE new[p].ts < timestamp
    OBVIOUS
  <2>1. p # a + row
    BY <1>3, <1>4
  <2> QED  BY <1>2, <1>7, <2>1 DEF LastBlock
<1>12. LastBlock(new, a)
  <2>1. Len(new) - a = row
    BY <1>3, <1>4, <1>6
  <2> QED  BY <1>10, <1>11, <2>1 DEF LastBlock
<1>13. RamOf' = RamOf /\ FullRecord'
  BY <1>1, <1>2 DEF RamOf, Reliable, FullRecord, M
<1>14. LogOf = TrainsIn(n, file)
  BY <1>3, LogIs DEF LogOf, n
<1>15. End(n) <= Len(file)
  BY <1>3, <1>4 DEF a
<1>16. CASE MoreRows
  <2>1. row' = row + 1 /\ saving' = "rows" /\ saved' = saved
    BY <1>1, <1>16 DEF SaveRow
  <2>2. Written' = row /\ Start' = a
    BY <1>3, <2>1 DEF Written, Start, a, n
  <2>3. WholeFile'
    BY <1>5, <1>6, <1>9, <2>1, <2>2 DEF WholeFile, a, n
  <2>4. (LastBlock(file, Start))'
    BY <1>1, <1>5, <1>12, <2>2 DEF LastBlock
  <2>5. OfRecord'
    BY <1>1, <1>5, <1>10, <2>2 DEF OfRecord
  <2>6. LogOf' = TrainsIn(n, new)
    BY <1>1, <1>5, <2>1 DEF LogOf, Reliable, SavedTrains, TrainsIn, n
  <2>7. TrainsIn(n, new) = TrainsIn(n, file)
    BY <1>3, <1>4, <1>5, <1>15, TrainsKept DEF new
  <2> QED  BY <1>13, <1>14, <2>3, <2>4, <2>5, <2>6, <2>7 DEF LogInv
<1>17. CASE ~MoreRows
  <2>1. saving' = "no" /\ saved' = Append(saved, cap) /\ row = M
    <3>1. ~(row < M)
      BY <1>2, <1>17 DEF MoreRows
    <3>2. row = M
      BY <1>3, <1>4, <3>1
    <3> QED  BY <1>17, <3>2 DEF SaveRow
  <2>2. Len(saved') = n + 1 /\ saved' # <<>> /\ (n + 1) - 1 = n
    <3>1. saved \in Seq(Nat) /\ cap \in Nat
      BY DEF StoreInv, Typed, StoreTypeOK
    <3> QED  BY <2>1, <3>1 DEF n
  <2>3. Written' = 0 /\ Start' = a
    BY <2>1, <2>2 DEF Written, Start, a
  <2>4. WholeFile'
    BY <1>4, <1>5, <1>6, <1>9, <2>1, <2>2, <2>3 DEF WholeFile
  <2>5. (LastBlock(file, Start))'
    BY <1>1, <1>5, <1>12, <2>3 DEF LastBlock
  <2>6. OfRecord'
    BY <2>1 DEF OfRecord
  <2>7. LogOf' = TrainsIn(n + 1, new)
    BY <1>1, <1>5, <2>2 DEF LogOf, Reliable, SavedTrains, TrainsIn
  <2>8. End(n + 1) = Len(file) + 1
    BY <1>3, <1>4, <2>1
  <2>9. TrainsIn(n + 1, new) = Append(TrainsIn(n, file), TrainOf(SubSeq(new, a + 1, a + M)))
    <3>1. TrainsIn(n + 1, new)
            = Append(TrainsIn(n, file), TrainOf(SubSeq(new, End(n) + 1, End(n + 1))))
      BY <1>3, <1>4, <1>5, <1>15, <2>8, TrainsGrow DEF new
    <3> QED  BY <1>4, <3>1 DEF a
  <2>10. TrainOf(SubSeq(new, a + 1, a + M)) = TrainOf(transitions)
    <3> DEFINE part == SubSeq(new, a + 1, a + M)
    <3>1. /\ Len(part) = (a + M) - (a + 1) + 1
          /\ \A i \in 1 .. (a + M) - (a + 1) + 1 : part[i] = new[(a + 1) + i - 1]
      BY <1>4, <1>5, <1>6, <2>1, Part
    <3> HIDE DEF part
    <3>2. Len(part) = M /\ \A i \in 1 .. M : part[i] = new[a + i]
      BY <1>4, <3>1
    <3>3. \A i \in 1 .. M : part[i].state = transitions[i].state /\ part[i].time = transitions[i].time
      BY <1>10, <2>1, <3>2
    <3>4. \A i \in 2 .. M : i \in 1 .. M /\ i - 1 \in 1 .. M
      BY <1>4
    <3>5. \A i \in 2 .. M : (part[i].time - part[i - 1].time) % ClockMod
                              = (transitions[i].time - transitions[i - 1].time) % ClockMod
      BY <3>3, <3>4
    <3>6. TrainOf(part) = TrainOf(transitions)
      BY <1>2, <1>4, <3>2, <3>3, <3>5, SameTrain
    <3> QED  BY <3>6 DEF part
  <2>11. RamOf = TrainOf(transitions) /\ RamOf # <<>>
    <3>1. TrainOf(transitions) # <<>>
      <4>1. 1 \in DOMAIN TrainOf(transitions)
        BY <1>2, <1>4 DEF TrainOf
      <4> QED  BY <4>1
    <3> QED  BY <3>1 DEF RamOf
  <2> QED  BY <1>13, <1>14, <2>4, <2>5, <2>6, <2>7, <2>9, <2>10, <2>11 DEF LogInv
<1> QED  BY <1>16, <1>17

(* A load counts its times from a new start, and the gaps stay.                    *)
LEMMA RebasedGap ==
  ASSUME NEW start \in Clocks, NEW r \in RowLine, NEW s \in RowLine
  PROVE  (Rebased(s, start) - Rebased(r, start)) % ClockMod = (s.time - r.time) % ClockMod
<1>1. start \in Int /\ r.time \in Int /\ s.time \in Int /\ ClockMod \in Nat \ {0}
  BY RecordAssumption DEF RowLine, Clocks
<1> DEFINE b == start + s.time
<1> DEFINE a == start + r.time
<1>2. a \in Int /\ b \in Int /\ b - a = s.time - r.time
  BY <1>1
<1> HIDE DEF a, b
<1>3. ((b % ClockMod) - (a % ClockMod)) % ClockMod = (b - a) % ClockMod
  BY <1>1, <1>2, Difference
<1> QED  BY <1>2, <1>3 DEF Rebased, a, b

LEMMA LogLoad ==
  ASSUME StoreInv, Reliable, NEW start \in Clocks, LoadWith(start)
  PROVE  /\ LogInv' /\ LogOf' = LogOf
         /\ RamOf' = IF LogOf = <<>> THEN <<>> ELSE LogOf[Len(LogOf)]
<1> DEFINE n == Len(saved)
<1> DEFINE M == MaxTransitions
<1> DEFINE a == End(n - 1)
<1>1. /\ saving = "no" /\ cap' = 0
      /\ UNCHANGED <<file, regime, saving, row, timestamp, seconds, saved>>
      /\ transitions' = [i \in 1 .. Len(loaded') |->
           [time |-> Rebased(loaded'[i], start), state |-> loaded'[i].state, at |-> 0]]
  BY DEF LoadWith, saveVars
<1>2. LogOf' = LogOf /\ RamOf' = (TrainOf(transitions))'
  BY <1>1 DEF LogOf, RamOf, Reliable, SavedTrains, Lines
<1>3. FullRecord'
  BY <1>1 DEF FullRecord
<1>4. LogInv'
  BY <1>1, <1>3 DEF StoreInv, LogInv, NewFile, WholeFile, Written, Start, LastBlock, OfRecord
<1>5. LogOf = TrainsIn(n, Lines(file)) /\ n \in Nat
  BY LogIs, ReliableMeans DEF LogOf
<1>6. CASE NewFile
  <2>1. loaded' = <<>>
    BY <1>6, ReliableMeans DEF LoadWith, OpenOutcomes, MayFail, NewFile
  <2>2. Len(transitions') = 0 /\ n = 0
    BY <1>1, <1>6, <2>1 DEF NewFile
  <2>3. (TrainOf(transitions))' = <<>>
    BY <2>2 DEF TrainOf
  <2>4. LogOf = <<>>
    BY <1>5, <2>2 DEF TrainsIn
  <2> QED  BY <1>2, <1>4, <2>3, <2>4
<1>7. CASE WholeFile /\ LastBlock(file, Start)
  <2>1. /\ file # NoFile /\ file \in Seq(Line) /\ Lines(file) = file /\ file[1] = Header
        /\ Len(file) = End(n) + 0 /\ n # 0 /\ Start = a
    BY <1>1, <1>7, ReliableMeans DEF WholeFile, File, Lines, Written, Start
  <2>2. /\ n - 1 \in Nat /\ M \in Nat \ {0} /\ a \in Nat /\ a >= 1 /\ Len(file) = a + M
        /\ (n - 1) + 1 = n
    <3>1. n - 1 \in Nat /\ (n - 1) + 1 = n
      BY <1>5, <2>1
    <3>2. a \in Nat /\ a >= 1 /\ End((n - 1) + 1) = a + M
      BY <3>1, Ends
    <3> QED  BY <2>1, <3>1, <3>2, RecordAssumption
  <2>3. loaded' = RowsOf(file)
    BY <2>1, ReliableMeans DEF LoadWith, OpenOutcomes, ReadOutcomes, MayFail
  <2>4. Ordered(file) /\ Follows(file) /\ timestamp \in Nat /\ LastBlock(file, a)
    BY <1>7, <2>1, ReliableMeans DEF StoreInv, Apart, NoHoles
  <2>5. Len(loaded') = M /\ \A i \in 1 .. M : loaded'[i] = file[a + i]
    BY <2>1, <2>2, <2>3, <2>4, LastBlockLoads
  <2> HIDE DEF a, M, n
  <2> DEFINE part == SubSeq(file, a + 1, a + M)
  <2>6. Len(part) = M /\ \A i \in 1 .. M : part[i] = file[a + i]
    <3>1. /\ Len(part) = (a + M) - (a + 1) + 1
          /\ \A i \in 1 .. (a + M) - (a + 1) + 1 : part[i] = file[(a + 1) + i - 1]
      BY <2>1, <2>2, Part
    <3> HIDE DEF part
    <3> QED  BY <2>2, <3>1
  <2>7. \A i \in 1 .. M : loaded'[i] \in RowLine
    BY <2>1, <2>3, <2>5, Loads DEF Kept
  <2> HIDE DEF part
  <2>8. /\ Len(transitions') = M
        /\ \A i \in 1 .. M : /\ transitions'[i].time = Rebased(part[i], start)
                             /\ transitions'[i].state = part[i].state
                             /\ part[i] \in RowLine
    BY <1>1, <2>2, <2>5, <2>6, <2>7
  <2>9. ASSUME NEW i \in 2 .. M
        PROVE  (transitions'[i].time - transitions'[i - 1].time) % ClockMod
                 = (part[i].time - part[i - 1].time) % ClockMod
    <3>1. i \in 1 .. M /\ i - 1 \in 1 .. M
      BY <2>2
    <3> QED  BY <2>8, <3>1, RebasedGap
  <2>10. TrainOf(transitions') = TrainOf(part)
    BY <2>2, <2>6, <2>8, <2>9, SameTrain
  <2>11. (TrainOf(transitions))' = TrainOf(transitions')
    BY DEF TrainOf
  <2>12. LogOf = TrainsIn(n, file) /\ n \in 1 .. n
    BY <1>5, <2>1 DEF n
  <2>13. TrainsIn(n, file)[n] = TrainOf(part)
    <3>1. /\ End(n) = n * M + 1 /\ a + 1 = (n - 1) * M + 2 /\ End(n) = a + M
      <4>1. n \in Nat /\ n \in 1 .. n
        BY <1>5, <2>12 DEF n
      <4> QED  BY <2>1, <2>2, <4>1, Ends DEF a, M
    <3>2. n * M < Len(file)
      <4>1. n \in Nat /\ M \in Nat
        BY <1>5, <2>2 DEF n
      <4>2. n * M \in Nat
        BY <4>1
      <4> QED  BY <2>2, <3>1, <4>2
    <3> QED  BY <2>12, <3>1, <3>2 DEF TrainsIn, part, M
  <2>14. LogOf # <<>> /\ Len(LogOf) = n
    <3>1. LogOf = [k \in 1 .. n |-> LogOf[k]]
      BY <2>12 DEF TrainsIn
    <3>2. n \in Nat
      BY <1>5 DEF n
    <3> QED  BY <2>12, <3>1, <3>2
  <2> QED  BY <1>2, <1>4, <2>10, <2>11, <2>12, <2>13, <2>14
<1> QED  BY <1>6, <1>7 DEF StoreInv, LogInv

LEMMA LogCapture ==
  ASSUME StoreInv, Reliable, NEW times \in Times, Capture(times)
  PROVE  LogInv' /\ LogOf' = LogOf /\ RamOf' \in Trains
<1>1. /\ saving = "no" /\ UNCHANGED <<file, regime, saving, row, timestamp, saved>>
      /\ transitions' = [i \in 1 .. MaxTransitions |->
                           [time |-> times[i], state |-> i % 2 = 1, at |-> 0]]
  BY DEF Capture, saveVars
<1>2. RecordTypeOK' /\ Len(transitions') = MaxTransitions
  <2>1. Typed'
    BY TypedCapture DEF StoreInv
  <2> QED  BY <1>1, <2>1, RecordAssumption DEF Typed, StoreTypeOK
<1>3. LogOf' = LogOf /\ RamOf' = (TrainOf(transitions))'
  BY <1>1 DEF LogOf, RamOf, Reliable, SavedTrains, Lines
<1>4. FullRecord'
  BY <1>2 DEF FullRecord
<1>5. LogInv'
  BY <1>1, <1>4 DEF StoreInv, LogInv, NewFile, WholeFile, Written, Start, LastBlock, OfRecord
<1> DEFINE seq == transitions'
<1> DEFINE gap(i) == IF i = 1 THEN 0 ELSE (seq[i].time - seq[i - 1].time) % ClockMod
<1>6. ASSUME NEW i \in 1 .. MaxTransitions PROVE seq[i].state \in BOOLEAN /\ gap(i) \in Clocks
  <2>1. \A j \in 1 .. MaxTransitions : seq[j] \in Transition
    BY <1>2 DEF RecordTypeOK
  <2>2. \A j \in 1 .. MaxTransitions : seq[j].state \in BOOLEAN /\ seq[j].time \in Int
    BY <2>1 DEF Transition, Clocks
  <2>3. CASE i = 1
    BY <2>2, <2>3, RecordAssumption DEF Clocks
  <2>4. CASE i # 1
    <3>1. i - 1 \in 1 .. MaxTransitions
      BY <2>4, RecordAssumption
    <3> DEFINE d == seq[i].time - seq[i - 1].time
    <3>2. d \in Int
      BY <2>2, <3>1
    <3> HIDE DEF d
    <3>3. d % ClockMod \in Clocks
      BY <3>2, RecordAssumption DEF Clocks
    <3> QED  BY <2>2, <2>4, <3>3 DEF d
  <2> QED  BY <2>3, <2>4
<1>7. (TrainOf(transitions))' = [i \in 1 .. MaxTransitions |-> [state |-> seq[i].state, gap |-> gap(i)]]
  BY <1>2 DEF TrainOf
<1> HIDE DEF gap, seq
<1>8. (TrainOf(transitions))' \in Trains
  BY <1>6, <1>7 DEF Trains
<1> QED  BY <1>3, <1>5, <1>8

LEMMA LogUntouched ==
  ASSUME LogInv, UNCHANGED <<regime, transitions, cap, file, saving, row, timestamp, saved>>
  PROVE  LogInv' /\ LogOf' = LogOf /\ RamOf' = RamOf
  BY DEF LogInv, NewFile, WholeFile, Written, Start, LastBlock, OfRecord, FullRecord, LogOf, RamOf,
         Reliable, SavedTrains, TrainOf, Lines

LEMMA LogStep ==
  ASSUME StoreInv, [StoreNext]_storeVars
  PROVE  /\ LogInv'
         /\ UNCHANGED <<LogOf, RamOf>>
              \/ (LogOf' = LogOf /\ RamOf' \in Trains)
              \/ (RamOf # <<>> /\ LogOf' = Append(LogOf, RamOf) /\ RamOf' = RamOf)
              \/ (LogOf' = LogOf /\ RamOf' = IF LogOf = <<>> THEN <<>> ELSE LogOf[Len(LogOf)])
<1>1. CASE ~Reliable
  <2>1. regime' = regime
    BY DEF StoreNext, SaveCapture, SaveBegin, SaveHeader, SaveRow, LoadWith, Capture, Second, Crash,
           storeVars, saveVars
  <2>2. ~Reliable'
    BY <1>1, <2>1 DEF Reliable
  <2> QED  BY <1>1, <2>2 DEF LogInv, LogOf, RamOf
<1>2. CASE Reliable
  <2>1. CASE SaveCapture
    BY <1>2, <2>1, LogSaveBegin
  <2>2. CASE SaveHeader
    BY <1>2, <2>2, LogSaveHeader
  <2>3. CASE SaveRow
    BY <1>2, <2>3, LogSaveRow
  <2>4. ASSUME NEW start \in Clocks, LoadWith(start) PROVE LogInv' /\ LogOf' = LogOf
          /\ RamOf' = IF LogOf = <<>> THEN <<>> ELSE LogOf[Len(LogOf)]
    BY <1>2, <2>4, LogLoad
  <2>5. ASSUME NEW times \in Times, Capture(times) PROVE LogInv' /\ LogOf' = LogOf /\ RamOf' \in Trains
    BY <1>2, <2>5, LogCapture
  <2>6. CASE Second \/ UNCHANGED storeVars
    BY <2>6, LogUntouched DEF StoreInv, Second, saveVars, storeVars
  <2>7. ~Crash
    BY <1>2, ReliableMeans
  <2> QED  BY <2>1, <2>2, <2>3, <2>4, <2>5, <2>6, <2>7 DEF StoreNext
<1> QED  BY <1>1, <1>2

(* Without faults, and with captures at least a second apart, saving row by row and   *)
(* loading by the latest timestamp implements the log of pulse trains: what is       *)
(* loaded is the last train saved, with its gaps, although every load counts its     *)
(* times from a new start_time (digital.c:144-245).                                 *)
THEOREM StoreIsLogHolds == StoreSpec => StoreIsLog
<1>1. StoreInit => StoreInv /\ Log!LogInit
  <2> SUFFICES ASSUME StoreInit PROVE StoreInv /\ Log!LogInit
    OBVIOUS
  <2>1. /\ Lines(file) = <<>> /\ loaded = <<>> /\ saving = "no" /\ RowPlaces(<<>>) = {}
        /\ transitions = <<>> /\ saved = <<>> /\ file = NoFile /\ cap = 0 /\ timestamp = 0
    BY DEF StoreInit, Lines, RowPlaces
  <2>2. Apart /\ HeaderForNewFile /\ NoHoles
    BY <2>1 DEF Apart, FirstCapture, Ordered, Dated, LaterCapture, LoadedFromOneCapture, NoHoles,
                HeaderForNewFile, Follows, Continues, NothingFromNothing, LoadedIsPrefix
  <2>3. LogInv
    BY <2>1 DEF LogInv, NewFile, FullRecord
  <2>4. SavedTrains(<<>>) = <<>> /\ TrainOf(<<>>) = <<>>
    BY <2>1 DEF SavedTrains, TrainOf
  <2>5. Log!LogInit
    BY <2>1, <2>4 DEF Log!LogInit
  <2> QED  BY <2>2, <2>3, <2>5, TypedInit DEF StoreInv
<1>2. StoreInv /\ [StoreNext]_storeVars => [Log!LogNext]_(Log!logVars)
  <2> SUFFICES ASSUME StoreInv, [StoreNext]_storeVars PROVE [Log!LogNext]_(Log!logVars)
    OBVIOUS
  <2>1. /\ LogOf = IF Reliable THEN SavedTrains(Lines(file)) ELSE <<>>
        /\ RamOf = IF Reliable THEN TrainOf(transitions) ELSE <<>>
        /\ LogOf' = (IF Reliable THEN SavedTrains(Lines(file)) ELSE <<>>)'
        /\ RamOf' = (IF Reliable THEN TrainOf(transitions) ELSE <<>>)'
    BY DEF LogOf, RamOf
  <2> QED  BY <2>1, LogStep DEF Log!LogNext, Log!Capture, Log!Save, Log!Load, Log!logVars
<1>3. StoreInv /\ [StoreNext]_storeVars => LogInv'
  BY LogStep
<1>4. StoreInit => LogInv
  BY <1>1 DEF StoreInv
<1>5. Typed /\ Apart /\ HeaderForNewFile /\ NoHoles /\ LogInv => StoreInv
  BY DEF StoreInv
<1>6. Typed => StoreTypeOK
  BY DEF Typed
<1>7. StoreInit => HeaderForNewFile /\ Log!LogInit
  BY <1>1 DEF StoreInv
<1> QED  BY <1>2, <1>3, <1>4, <1>5, <1>6, <1>7, HeaderStep, TypedHolds, ApartHolds, NoHolesHolds, PTL
            DEF StoreSpec, StoreIsLog, Log!LogSpec
=============================================================================
