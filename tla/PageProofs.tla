----------------------------- MODULE PageProofs -----------------------------
(***************************************************************************)
(* Theorems about Page, for any choice of windows, history kept, size of a *)
(* batch, lead of the browser's clock and bounds on pictures and seconds.  *)
(*                                                                         *)
(* The three invariants about the chart are inductive together, given what *)
(* insertion, a whole event of history and pruning do to its data.         *)
(* LiveIsCurrent is not: that the first live picture is the newest of all  *)
(* the page has seen rests on the connection having nothing left to send   *)
(* that is older than what was replayed or shown before it (Current).      *)
(***************************************************************************)
EXTENDS Page, Extrema, TLAPS, SequenceTheorems, FiniteSetTheorems

DataPoint == [x : Nat, y : Nat]

(* What the types leave out: both lists are sequences. *)
Lists == chart \in Seq(DataPoint) /\ takenAt \in Seq(Nat)

(* Nothing the page has seen is newer than what its connection may send. *)
Current ==
  /\ eventSource \in {"replaying", "replayed"} =>
       \A v \in handed \cup {shown, latestStats} : v <= sentFrom
  /\ eventSource = "live" => sentFrom = latestStats + 1 /\ latestStats # 0

-----------------------------------------------------------------------------
(* What is done to a chart's data. *)

LEMMA PointFields ==
  ASSUME NEW p \in DataPoint
  PROVE  p.x \in Nat /\ p.y \in Nat /\ p = [x |-> p.x, y |-> p.y]
BY DEF DataPoint

Ascending(data) == \A i \in 1 .. Len(data) - 1 : data[i].x < data[i + 1].x

(* Where a point belongs: after the last one that is no later. *)
Place(data, new) == Max({0} \cup {k \in 1 .. Len(data) : data[k].x <= new.x})

LEMMA PlaceOf ==
  ASSUME NEW data \in Seq(DataPoint), NEW new \in DataPoint
  PROVE  /\ Place(data, new) \in 0 .. Len(data)
         /\ Place(data, new) > 0 => data[Place(data, new)].x <= new.x
         /\ \A j \in Place(data, new) + 1 .. Len(data) : new.x < data[j].x
<1> DEFINE noLater == {k \in 1 .. Len(data) : data[k].x <= new.x}
           S == {0} \cup noLater
<1>1. PICK n \in Nat : n = Len(data)
  BY LenProperties
<1>2. new.x \in Nat /\ \A k \in 1 .. n : data[k].x \in Nat
  BY <1>1, PointFields, ElementOfSeq
<1>3. S \in SUBSET (0 .. n) /\ S # {}
  BY <1>1
<1>4. \E k \in S : \A j \in S : j <= k
  <2> HIDE DEF S
  <2> QED BY <1>3, Largest
<1>5. PICK i : i = Place(data, new)
  OBVIOUS
<1>6. i = Max(S)
  BY <1>5 DEF Place
<1>7. i \in S /\ \A j \in S : j <= i
  <2> HIDE DEF S
  <2>1. S \subseteq Int
    BY <1>3
  <2>2. \E k \in S : \A j \in S : k >= j
    BY <1>4, <2>1
  <2>3. Max(S) \in S /\ \A j \in S : Max(S) >= j
    BY <2>2 DEF Max
  <2> QED BY <1>6, <2>1, <2>3
<1>8. i \in 0 .. n /\ (i > 0 => data[i].x <= new.x)
  BY <1>1, <1>3, <1>7
<1>9. ASSUME NEW j \in i + 1 .. n PROVE new.x < data[j].x
  <2>1. j \in 1 .. n /\ ~(j <= i)
    BY <1>8
  <2>2. j \notin S
    <3> HIDE DEF S
    <3> QED BY <1>7, <2>1
  <2> QED BY <1>1, <1>2, <2>1, <2>2
<1> QED BY <1>1, <1>5, <1>8, <1>9

Splice(after, data, new, n, i) ==
  /\ after \in Seq(DataPoint) /\ Len(after) = n + 1
  /\ \A k \in 1 .. n + 1 :
       after[k] = IF k <= i THEN data[k] ELSE IF k = i + 1 THEN new ELSE data[k - 1]

(* An element inserted leaves those before it, and moves the others by one. *)
LEMMA InsertedAt ==
  ASSUME NEW data \in Seq(DataPoint), NEW new \in DataPoint,
         NEW n \in Nat, n = Len(data), NEW i \in 0 .. n,
         NEW after, after = InsertAt(data, i + 1, new)
  PROVE  Splice(after, data, new, n, i)
<1>1. n = Len(data)
  OBVIOUS
<1>2. \A k \in 1 .. n : data[k] \in DataPoint
  BY <1>1, ElementOfSeq
<1>3. PICK front : front = SubSeq(data, 1, i)
  OBVIOUS
<1>4. PICK back : back = SubSeq(data, i + 1, n)
  OBVIOUS
<1>5. i \in Nat /\ i <= n
  BY <1>1
<1>6. front \in Seq(DataPoint) /\ Len(front) = i /\ \A k \in 1 .. i : front[k] = data[k]
  <2>1. \A k \in 1 .. i : data[k] \in DataPoint
    BY <1>2, <1>5
  <2>2. /\ SubSeq(data, 1, i) \in Seq(DataPoint)
        /\ Len(SubSeq(data, 1, i)) = IF 1 <= i THEN i - 1 + 1 ELSE 0
        /\ \A k \in 1 .. i - 1 + 1 : SubSeq(data, 1, i)[k] = data[1 + k - 1]
    BY <1>5, <2>1, SubSeqProperties
  <2> QED BY <1>3, <1>5, <2>2
<1>7. back \in Seq(DataPoint) /\ Len(back) = n - i /\ \A k \in 1 .. n - i : back[k] = data[i + k]
  <2>1. \A k \in i + 1 .. n : data[k] \in DataPoint
    BY <1>2, <1>5
  <2>2. /\ SubSeq(data, i + 1, n) \in Seq(DataPoint)
        /\ Len(SubSeq(data, i + 1, n)) = IF i + 1 <= n THEN n - (i + 1) + 1 ELSE 0
        /\ \A k \in 1 .. n - (i + 1) + 1 : SubSeq(data, i + 1, n)[k] = data[i + 1 + k - 1]
    BY <1>1, <1>5, <2>1, SubSeqProperties
  <2> QED BY <1>1, <1>4, <1>5, <2>2
<1>8. <<new>> \in Seq(DataPoint) /\ Len(<<new>>) = 1 /\ <<new>>[1] = new
  OBVIOUS
<1>9. PICK head : head = front \o <<new>>
  OBVIOUS
<1>10. /\ head \in Seq(DataPoint) /\ Len(head) = i + 1
       /\ \A k \in 1 .. i + 1 : head[k] = IF k <= i THEN data[k] ELSE new
  <2>1. /\ front \o <<new>> \in Seq(DataPoint) /\ Len(front \o <<new>>) = i + 1
        /\ \A k \in 1 .. i + 1 : (front \o <<new>>)[k] = IF k <= i THEN front[k] ELSE <<new>>[k - i]
    BY <1>6, <1>8, ConcatProperties
  <2> QED BY <1>5, <1>6, <1>8, <1>9, <2>1
<1>11. InsertAt(data, i + 1, new) = head \o back
  <2>1. (i + 1) - 1 = i
    BY <1>5
  <2>2. SubSeq(data, 1, (i + 1) - 1) = front /\ SubSeq(data, i + 1, Len(data)) = back
    BY <1>1, <1>3, <1>4, <2>1
  <2> QED BY <1>9, <2>2 DEF InsertAt
<1>12. /\ head \o back \in Seq(DataPoint) /\ Len(head \o back) = i + 1 + (n - i)
       /\ \A k \in 1 .. i + 1 + (n - i) :
            (head \o back)[k] = IF k <= i + 1 THEN head[k] ELSE back[k - (i + 1)]
  <2>1. PICK a, b : a = Len(head) /\ b = Len(back)
    OBVIOUS
  <2>2. /\ head \o back \in Seq(DataPoint) /\ Len(head \o back) = a + b
        /\ \A k \in 1 .. a + b : (head \o back)[k] = IF k <= a THEN head[k] ELSE back[k - a]
    BY <1>7, <1>10, <2>1, ConcatProperties
  <2>3. a = i + 1 /\ b = n - i
    BY <1>7, <1>10, <2>1
  <2> QED BY <2>2, <2>3
<1>13. ASSUME NEW k \in 1 .. n + 1
       PROVE  (head \o back)[k] = IF k <= i THEN data[k] ELSE IF k = i + 1 THEN new ELSE data[k - 1]
  <2>1. k \in 1 .. i + 1 + (n - i)
    BY <1>5
  <2>2. CASE k <= i + 1
    <3>1. k \in 1 .. i + 1
      BY <1>5, <2>2
    <3> QED BY <1>5, <1>10, <1>12, <2>1, <2>2, <3>1
  <2>3. CASE ~(k <= i + 1)
    <3>1. k - (i + 1) \in 1 .. n - i /\ i + (k - (i + 1)) = k - 1 /\ ~(k <= i) /\ k # i + 1
      BY <1>5, <2>3
    <3> QED BY <1>7, <1>12, <2>1, <2>3, <3>1
  <2> QED BY <2>2, <2>3
<1>14. i + 1 + (n - i) = n + 1
  BY <1>5
<1>15. after = head \o back
  BY <1>11
<1> QED BY <1>12, <1>13, <1>14, <1>15 DEF Splice

OfEither(after, data, new) ==
  \A k \in DOMAIN after : after[k] = new \/ \E j \in DOMAIN data : after[k] = data[j]

HasSecond(data, second) == \E k \in DOMAIN data : data[k].x = second

KeepsSeconds(after, data) == \A j \in DOMAIN data : HasSecond(after, data[j].x)

(* A point put into the data is the only one of its second there; every other *)
(* second keeps its point, and the order is kept (insertSortedAndDedup).      *)
LEMMA InsertOf ==
  ASSUME NEW data \in Seq(DataPoint), NEW new \in DataPoint,
         NEW after, after = InsertSortedAndDedup(data, new)
  PROVE  /\ after \in Seq(DataPoint) /\ (Ascending(data) => Ascending(after))
         /\ OfEither(after, data, new) /\ KeepsSeconds(after, data) /\ HasSecond(after, new.x)
<1>1. PICK n \in Nat : n = Len(data)
  BY LenProperties
<1>2. PICK i : i = Place(data, new)
  OBVIOUS
<1>3. DOMAIN data = 1 .. n /\ \A k \in 1 .. n : data[k] \in DataPoint /\ data[k].x \in Nat
  BY <1>1, PointFields, ElementOfSeq, LenProperties
<1>4. /\ i \in 0 .. n /\ (i > 0 => data[i].x <= new.x)
      /\ \A j \in i + 1 .. n : new.x < data[j].x
  BY <1>1, <1>2, PlaceOf
<1>5. after = IF i > 0 /\ data[i].x = new.x THEN [data EXCEPT ![i].y = new.y]
              ELSE InsertAt(data, i + 1, new)
  BY <1>2 DEF InsertSortedAndDedup, Place
<1>6. new.x \in Nat /\ new = [x |-> new.x, y |-> new.y]
  BY PointFields
<1>7. CASE i > 0 /\ data[i].x = new.x
  <2>1. i \in 1 .. n
    BY <1>4, <1>7
  <2>2. data[i] = [x |-> data[i].x, y |-> data[i].y]
    BY <1>3, <2>1, PointFields
  <2>3. [data[i] EXCEPT !.y = new.y] = new
    BY <1>6, <1>7, <2>2
  <2>4. after = [data EXCEPT ![i] = new]
    BY <1>5, <1>7, <2>3
  <2>5. /\ after \in Seq(DataPoint) /\ Len(after) = n
        /\ \A j \in 1 .. n : after[j] = IF j = i THEN new ELSE data[j]
    BY <1>1, <2>1, <2>4, ExceptSeq
  <2>6. DOMAIN after = 1 .. n
    BY <2>5, LenProperties
  <2>7. \A j \in 1 .. n : after[j].x = data[j].x
    BY <1>7, <2>5
  <2>8. Ascending(data) => Ascending(after)
    BY <1>1, <2>5, <2>7 DEF Ascending
  <2>9. \A k \in 1 .. n : after[k] = new \/ \E j \in 1 .. n : after[k] = data[j]
    BY <2>5
  <2>10. OfEither(after, data, new)
    BY <1>3, <2>6, <2>9 DEF OfEither
  <2>11. KeepsSeconds(after, data) /\ HasSecond(after, new.x)
    BY <1>3, <1>7, <2>1, <2>6, <2>7 DEF KeepsSeconds, HasSecond
  <2> QED BY <2>5, <2>8, <2>10, <2>11
<1>8. CASE ~(i > 0 /\ data[i].x = new.x)
  <2>1. after = InsertAt(data, i + 1, new)
    BY <1>5, <1>8
  <2>2. /\ after \in Seq(DataPoint) /\ Len(after) = n + 1
        /\ \A k \in 1 .. n + 1 :
             after[k] = IF k <= i THEN data[k] ELSE IF k = i + 1 THEN new ELSE data[k - 1]
    <3>1. n \in Nat /\ n = Len(data) /\ i \in 0 .. n
      BY <1>1, <1>4
    <3>2. Splice(after, data, new, n, i)
      BY <2>1, <3>1, InsertedAt
    <3> QED BY <3>2 DEF Splice
  <2>3. DOMAIN after = 1 .. n + 1
    BY <2>2, LenProperties
  <2>4. /\ \A k \in 1 .. n + 1 : k <= i => k \in 1 .. n /\ after[k] = data[k]
        /\ i + 1 \in 1 .. n + 1 /\ after[i + 1] = new
        /\ \A k \in 1 .. n + 1 : k > i + 1 => k - 1 \in 1 .. n /\ after[k] = data[k - 1]
    BY <1>4, <2>2
  <2>5. \A k \in 1 .. n + 1 : after[k] = new \/ \E j \in 1 .. n : after[k] = data[j]
    <3> TAKE k \in 1 .. n + 1
    <3>1. k <= i \/ k = i + 1 \/ k > i + 1
      BY <1>4
    <3> QED BY <2>4, <3>1
  <2>6. \A j \in 1 .. n : \E k \in 1 .. n + 1 : after[k].x = data[j].x
    <3> TAKE j \in 1 .. n
    <3>1. CASE j <= i
      <4>1. j \in 1 .. n + 1
        OBVIOUS
      <4> QED BY <2>4, <3>1, <4>1
    <3>2. CASE ~(j <= i)
      <4>1. j + 1 \in 1 .. n + 1 /\ j + 1 > i + 1 /\ (j + 1) - 1 = j
        BY <1>4, <3>2
      <4>2. after[j + 1] = data[j]
        BY <2>4, <4>1
      <4> QED BY <4>1, <4>2
    <3> QED BY <3>1, <3>2
  <2>7. ASSUME Ascending(data) PROVE Ascending(after)
    <3>1. \A k \in 1 .. n - 1 : data[k].x < data[k + 1].x
      BY <1>1, <2>7 DEF Ascending
    <3> SUFFICES ASSUME NEW k \in 1 .. n PROVE after[k].x < after[k + 1].x
      BY <1>1, <2>2 DEF Ascending
    <3>2. k \in 1 .. n + 1 /\ k + 1 \in 1 .. n + 1 /\ (k + 1) - 1 = k
      OBVIOUS
    <3>3. CASE k < i
      <4>1. k \in 1 .. n - 1 /\ k <= i /\ k + 1 <= i
        BY <1>4, <3>3
      <4> QED BY <2>4, <3>1, <3>2, <4>1
    <3>4. CASE k = i
      <4>1. after[k] = data[i] /\ after[k + 1] = new
        BY <2>4, <3>2, <3>4
      <4>2. i > 0 /\ data[i].x <= new.x /\ data[i].x # new.x /\ data[i].x \in Nat
        BY <1>3, <1>4, <1>8, <3>4
      <4> QED BY <1>6, <4>1, <4>2
    <3>5. CASE k = i + 1
      <4>1. after[k] = new /\ after[k + 1] = data[k]
        <5>1. k + 1 > i + 1
          BY <1>4, <3>5
        <5> QED BY <2>4, <3>2, <3>5, <5>1
      <4>2. k \in i + 1 .. n
        BY <1>4, <3>5
      <4> QED BY <1>4, <4>1, <4>2
    <3>6. CASE k > i + 1
      <4>1. k - 1 \in 1 .. n - 1 /\ (k - 1) + 1 = k /\ k + 1 > i + 1
        BY <1>4, <3>6
      <4>2. after[k] = data[k - 1] /\ after[k + 1] = data[k]
        BY <2>4, <3>2, <3>6, <4>1
      <4>3. data[k - 1].x < data[(k - 1) + 1].x
        BY <3>1, <4>1
      <4> QED BY <4>1, <4>2, <4>3
    <3> QED BY <1>4, <3>3, <3>4, <3>5, <3>6
  <2>8. \E k \in 1 .. n + 1 : after[k].x = new.x
    BY <2>4
  <2>9. OfEither(after, data, new)
    BY <1>3, <2>3, <2>5 DEF OfEither
  <2>10. KeepsSeconds(after, data) /\ HasSecond(after, new.x)
    BY <1>3, <2>3, <2>6, <2>8 DEF KeepsSeconds, HasSecond
  <2> QED BY <2>2, <2>7, <2>9, <2>10
<1> QED BY <1>7, <1>8

-----------------------------------------------------------------------------
(* A whole event of history. *)

(* What Charted goes through exists: data after every number of records. *)
Passes(f, data, records, n) ==
  f = [i \in 0 .. n |-> IF i = 0 THEN data ELSE InsertSortedAndDedup(f[i - 1], Point(records[i]))]

LEMMA Steps ==
  ASSUME NEW data, NEW records, NEW n \in Nat
  PROVE  \E f : Passes(f, data, records, n)
<1> DEFINE Step(g, i) == IF i = 0 THEN data ELSE InsertSortedAndDedup(g[i - 1], Point(records[i]))
           UpTo(g, m) == g = [i \in 0 .. m |-> Step(g, i)]
           lacking == {m \in Nat : ~\E g : UpTo(g, m)}
<1>1. lacking = {}
  <2> SUFFICES ASSUME lacking # {} PROVE FALSE
    OBVIOUS
  <2>1. PICK m \in lacking : \A k \in lacking : m <= k
    <3>1. lacking \in SUBSET Nat
      OBVIOUS
    <3> HIDE DEF lacking
    <3> QED BY <3>1, Smallest
  <2>2. m \in Nat /\ ~\E g : UpTo(g, m)
    OBVIOUS
  <2>3. m # 0
    <3> SUFFICES ASSUME m = 0 PROVE FALSE
      OBVIOUS
    <3> DEFINE g == [i \in 0 .. 0 |-> data]
    <3>1. \A i \in 0 .. 0 : Step(g, i) = data
      OBVIOUS
    <3>2. [i \in 0 .. 0 |-> Step(g, i)] = [i \in 0 .. 0 |-> data]
      <4> HIDE DEF Step, g
      <4> QED BY <3>1
    <3>3. UpTo(g, 0)
      BY <3>2
    <3> HIDE DEF UpTo
    <3> QED BY <2>2, <3>3
  <2>4. m - 1 \in Nat /\ m - 1 \notin lacking
    <3>1. m - 1 \in Nat /\ ~(m <= m - 1)
      BY <2>2, <2>3
    <3> HIDE DEF lacking
    <3> QED BY <2>1, <3>1
  <2>5. PICK g : UpTo(g, m - 1)
    <3> HIDE DEF UpTo
    <3> QED BY <2>4
  <2> DEFINE h == [i \in 0 .. m |-> IF i = m THEN Step(g, m) ELSE g[i]]
  <2>6. \A i \in 0 .. m : h[i] = Step(h, i)
    <3> SUFFICES ASSUME NEW i \in 0 .. m PROVE h[i] = Step(h, i)
      OBVIOUS
    <3>1. CASE i = 0
      <4>1. 0 \in 0 .. m - 1 /\ i # m
        BY <2>2, <2>3, <3>1
      <4>2. g[0] = data
        BY <2>5, <4>1
      <4> QED BY <3>1, <4>1, <4>2
    <3>2. CASE i # 0
      <4>1. i - 1 \in 0 .. m /\ i - 1 # m
        BY <2>2, <3>2
      <4>2. h[i - 1] = g[i - 1]
        BY <4>1
      <4>3. Step(h, i) = Step(g, i)
        BY <4>2
      <4>4. i # m => g[i] = Step(g, i)
        <5> SUFFICES ASSUME i # m PROVE g[i] = Step(g, i)
          OBVIOUS
        <5>1. i \in 0 .. m - 1
          BY <2>2
        <5> QED BY <2>5, <5>1
      <4>5. h[i] = IF i = m THEN Step(g, m) ELSE g[i]
        OBVIOUS
      <4> HIDE DEF Step, h
      <4> QED BY <4>3, <4>4, <4>5
    <3> QED BY <3>1, <3>2
  <2>7. h = [i \in 0 .. m |-> h[i]]
    OBVIOUS
  <2>8. [i \in 0 .. m |-> h[i]] = [i \in 0 .. m |-> Step(h, i)]
    <3> HIDE DEF Step, h
    <3> QED BY <2>6
  <2>9. UpTo(h, m)
    <3> HIDE DEF Step, h
    <3> QED BY <2>7, <2>8
  <2> HIDE DEF UpTo
  <2> QED BY <2>2, <2>9
<1>2. PICK g : UpTo(g, n)
  <2> HIDE DEF UpTo
  <2> QED BY <1>1
<1> QED BY <1>2 DEF Passes

(* What a chart is after an event: the points it had, and those of the      *)
(* records, in order; no second that had a point is left without.           *)
LEMMA ChartedOf ==
  ASSUME NEW data \in Seq(DataPoint), NEW n \in Nat, NEW records, Len(records) = n,
         \A i \in 1 .. n : Point(records[i]) \in DataPoint,
         NEW after, after = Charted(data, records)
  PROVE  /\ after \in Seq(DataPoint) /\ (Ascending(data) => Ascending(after))
         /\ KeepsSeconds(after, data)
         /\ \A i \in 1 .. n : HasSecond(after, Point(records[i]).x)
         /\ \A k \in DOMAIN after : \/ \E j \in DOMAIN data : after[k] = data[j]
                                    \/ \E i \in 1 .. n : after[k] = Point(records[i])
<1> DEFINE Step(g, i) == IF i = 0 THEN data ELSE InsertSortedAndDedup(g[i - 1], Point(records[i]))
           all == CHOOSE g : Passes(g, data, records, n)
<1>1. after = all[n]
  BY DEF Charted, Passes
<1>2. Passes(all, data, records, n)
  BY Steps
<1>3. PICK f : f = all
  OBVIOUS
<1>4. after = f[n] /\ f = [i \in 0 .. n |-> Step(f, i)]
  <2> HIDE DEF all
  <2> QED BY <1>1, <1>2, <1>3 DEF Passes
<1> HIDE DEF all
<1>5. f[0] = data
  BY <1>4
<1>6. \A i \in 1 .. n : f[i] = InsertSortedAndDedup(f[i - 1], Point(records[i]))
  BY <1>4
<1> HIDE DEF Step
<1> DEFINE Kept(d) == d \in Seq(DataPoint) /\ (Ascending(data) => Ascending(d)) /\ KeepsSeconds(d, data)
           Shown(i, d) == \A r \in 1 .. i : HasSecond(d, Point(records[r]).x)
           From(i, d) == \A k \in DOMAIN d : \/ \E j \in DOMAIN data : d[k] = data[j]
                                             \/ \E r \in 1 .. i : d[k] = Point(records[r])
           Good(i) == Kept(f[i]) /\ Shown(i, f[i]) /\ From(i, f[i])
           bad == {i \in 0 .. n : ~Good(i)}
<1>7. Good(0)
  <2>1. KeepsSeconds(data, data)
    BY DEF KeepsSeconds, HasSecond
  <2>2. Kept(f[0]) /\ From(0, f[0])
    BY <1>5, <2>1
  <2>3. Shown(0, f[0])
    OBVIOUS
  <2> QED BY <2>2, <2>3
<1>8. ASSUME NEW i \in 1 .. n, Good(i - 1) PROVE Good(i)
  <2>1. PICK d : d = f[i - 1]
    OBVIOUS
  <2>2. PICK new \in DataPoint : new = Point(records[i])
    OBVIOUS
  <2>3. PICK e : e = f[i]
    OBVIOUS
  <2>4. d \in Seq(DataPoint) /\ (Ascending(data) => Ascending(d)) /\ KeepsSeconds(d, data)
    BY <1>8, <2>1
  <2>5. /\ e \in Seq(DataPoint) /\ (Ascending(d) => Ascending(e))
        /\ OfEither(e, d, new) /\ KeepsSeconds(e, d) /\ HasSecond(e, new.x)
    <3>1. e = InsertSortedAndDedup(d, new)
      BY <1>6, <2>1, <2>2, <2>3
    <3> QED BY <2>4, <3>1, InsertOf
  <2>6. ASSUME NEW s, HasSecond(d, s) PROVE HasSecond(e, s)
    BY <2>5, <2>6 DEF HasSecond, KeepsSeconds
  <2>7. Kept(e)
    <3>1. KeepsSeconds(e, data)
      BY <2>4, <2>6 DEF KeepsSeconds
    <3> QED BY <2>4, <2>5, <3>1
  <2>8. Shown(i, e)
    <3> SUFFICES ASSUME NEW r \in 1 .. i PROVE HasSecond(e, Point(records[r]).x)
      OBVIOUS
    <3>1. CASE r = i
      BY <2>2, <2>5, <3>1
    <3>2. CASE r # i
      <4>1. r \in 1 .. i - 1
        BY <3>2
      <4>2. HasSecond(d, Point(records[r]).x)
        BY <1>8, <2>1, <4>1
      <4> QED BY <2>6, <4>2
    <3> QED BY <3>1, <3>2
  <2>9. From(i, e)
    <3> SUFFICES ASSUME NEW k \in DOMAIN e
                 PROVE  \/ \E j \in DOMAIN data : e[k] = data[j]
                        \/ \E r \in 1 .. i : e[k] = Point(records[r])
      OBVIOUS
    <3>1. CASE e[k] = new
      BY <2>2, <3>1
    <3>2. ASSUME NEW m \in DOMAIN d, e[k] = d[m]
          PROVE  \/ \E j \in DOMAIN data : e[k] = data[j]
                 \/ \E r \in 1 .. i : e[k] = Point(records[r])
      <4>1. From(i - 1, d)
        BY <1>8, <2>1
      <4>2. \/ \E j \in DOMAIN data : d[m] = data[j]
            \/ \E r \in 1 .. i - 1 : d[m] = Point(records[r])
        BY <4>1
      <4>3. \A r \in 1 .. i - 1 : r \in 1 .. i
        OBVIOUS
      <4> QED BY <3>2, <4>2, <4>3
    <3> QED BY <2>5, <3>1, <3>2 DEF OfEither
  <2> HIDE DEF Kept, Shown, From
  <2> QED BY <2>3, <2>7, <2>8, <2>9
<1>9. bad = {}
  <2> SUFFICES ASSUME bad # {} PROVE FALSE
    OBVIOUS
  <2> HIDE DEF Good
  <2>1. PICK i \in bad : \A j \in bad : i <= j
    <3>1. bad \in SUBSET Nat
      OBVIOUS
    <3> HIDE DEF bad
    <3> QED BY <3>1, Smallest
  <2>2. i \in 0 .. n /\ ~Good(i)
    OBVIOUS
  <2>3. i # 0
    BY <1>7, <2>2
  <2>4. i \in 1 .. n /\ i - 1 \in 0 .. n /\ ~(i <= i - 1)
    BY <2>2, <2>3
  <2>5. i - 1 \notin bad
    <3> HIDE DEF bad
    <3> QED BY <2>1, <2>4
  <2>6. Good(i - 1)
    BY <2>4, <2>5
  <2> QED BY <1>8, <2>2, <2>4, <2>6
<1>10. Good(n)
  <2> HIDE DEF Good
  <2> QED BY <1>9
<1> QED BY <1>4, <1>10

(* The records of an event are logged versions, the last of them the newest. *)
LEMMA RecordsOf ==
  ASSUME TypeOK, NEW records \in InOrder(NextRecords)
  PROVE  \E n \in Nat :
           /\ Len(records) = n /\ DOMAIN records = 1 .. n
           /\ n = 0 <=> records = <<>>
           /\ \A i \in 1 .. n : records[i] \in Versions
           /\ n # 0 => /\ Last(records) = records[n] /\ n \in 1 .. n
                       /\ \A i \in 1 .. n : records[i] <= records[n]
<1> DEFINE n == Cardinality(NextRecords)
<1>1. latest \in Nat
  BY ConstantsTyped DEF TypeOK
<1>2. NextRecords \subseteq Versions
  BY DEF NextRecords, TypeOK
<1>3. n \in Nat
  <2>1. IsFiniteSet(1 .. latest)
    BY <1>1, FS_Interval
  <2>2. IsFiniteSet(NextRecords)
    BY <1>2, <2>1, FS_Subset DEF Versions
  <2> QED BY <2>2, FS_CardinalityType
<1>4. records \in [1 .. n -> NextRecords] /\ \A i, j \in DOMAIN records : i < j => records[i] < records[j]
  BY DEF InOrder
<1>5. PICK m \in Nat : m = n
  BY <1>3
<1> HIDE DEF n
<1>6. records \in [1 .. m -> Versions]
  <2>1. records \in [1 .. m -> NextRecords]
    BY <1>4, <1>5
  <2> HIDE <1>4
  <2> QED BY <1>2, <2>1
<1>7. DOMAIN records = 1 .. m /\ \A i \in 1 .. m : records[i] \in Versions /\ records[i] \in Nat
  BY <1>1, <1>6 DEF Versions
<1>8. records \in Seq(Versions) /\ Len(records) = m
  BY <1>6
<1>9. m = 0 <=> records = <<>>
  BY <1>8, EmptySeq
<1>10. m # 0 => \A i \in 1 .. m : records[i] <= records[m]
  <2> SUFFICES ASSUME m # 0, NEW i \in 1 .. m PROVE records[i] <= records[m]
    OBVIOUS
  <2>1. m \in 1 .. m /\ (i = m \/ i < m)
    OBVIOUS
  <2>2. i < m => records[i] < records[m]
    BY <1>4, <1>7, <2>1
  <2>3. records[i] \in Nat /\ records[m] \in Nat
    BY <1>7, <2>1
  <2> QED BY <2>1, <2>2, <2>3
<1>11. m # 0 => m \in 1 .. m
  OBVIOUS
<1> QED BY <1>7, <1>8, <1>9, <1>10, <1>11 DEF Last

(* Pruning keeps the points that are recent, and the order (renderLoop). *)
LEMMA PrunedOf ==
  ASSUME NEW data \in Seq(DataPoint), MemoryCutoff \in Int, NEW after, after = Pruned(data)
  PROVE  /\ after \in Seq(DataPoint) /\ (Ascending(data) => Ascending(after))
         /\ \A k \in DOMAIN after : \E j \in DOMAIN data : after[k] = data[j]
         /\ \A j \in DOMAIN data : data[j].x >= MemoryCutoff => HasSecond(after, data[j].x)
<1> DEFINE recent == {i \in 1 .. Len(data) : data[i].x >= MemoryCutoff}
<1>1. PICK n \in Nat : n = Len(data)
  BY LenProperties
<1>2. DOMAIN data = 1 .. n /\ \A k \in 1 .. n : data[k] \in DataPoint /\ data[k].x \in Nat
  BY <1>1, PointFields, ElementOfSeq, LenProperties
<1>3. CASE recent = {}
  <2>1. after = <<>>
    BY <1>3 DEF Pruned
  <2>2. /\ after \in Seq(DataPoint) /\ Len(after) = 0 /\ DOMAIN after = {}
    BY <2>1, EmptySeq
  <2>3. Ascending(after)
    BY <2>2 DEF Ascending
  <2>4. \A j \in DOMAIN data : ~(data[j].x >= MemoryCutoff)
    BY <1>1, <1>2, <1>3
  <2> HIDE DEF recent
  <2> QED BY <2>2, <2>3, <2>4
<1>4. CASE recent # {}
  <2>1. recent \in SUBSET Nat
    OBVIOUS
  <2>2. PICK m : m = Min(recent)
    OBVIOUS
  <2>3. m \in recent /\ \A j \in recent : m <= j
    <3> HIDE DEF recent
    <3>1. \E k \in recent : \A j \in recent : k <= j
      BY <1>4, <2>1, Smallest
    <3> QED BY <2>2, <3>1 DEF Min
  <2>4. m \in 1 .. n
    BY <1>1, <2>3
  <2>5. after = SubSeq(data, m, n)
    BY <1>1, <1>4, <2>2 DEF Pruned
  <2>6. \A k \in m .. n : data[k] \in DataPoint
    BY <1>2, <2>4
  <2>7. /\ SubSeq(data, m, n) \in Seq(DataPoint)
        /\ Len(SubSeq(data, m, n)) = IF m <= n THEN n - m + 1 ELSE 0
        /\ \A k \in 1 .. n - m + 1 : SubSeq(data, m, n)[k] = data[m + k - 1]
    BY <2>4, <2>6, SubSeqProperties
  <2>8. PICK len \in Nat : len = (n - m) + 1
    BY <2>4
  <2>9. m <= n /\ n - m + 1 = len /\ \A k \in 1 .. len : m + k - 1 = (m - 1) + k
    BY <2>4, <2>8
  <2>10. /\ after \in Seq(DataPoint) /\ Len(after) = len /\ \A k \in 1 .. len : after[k] = data[(m - 1) + k]
    BY <2>5, <2>7, <2>9
  <2>11. DOMAIN after = 1 .. len
    BY <2>10, LenProperties
  <2>12. \A k \in 1 .. len : (m - 1) + k \in 1 .. n
    BY <2>4, <2>8
  <2>13. \A k \in DOMAIN after : \E j \in DOMAIN data : after[k] = data[j]
    BY <1>2, <2>10, <2>11, <2>12
  <2>14. ASSUME Ascending(data) PROVE Ascending(after)
    <3> SUFFICES ASSUME NEW k \in 1 .. len - 1 PROVE after[k].x < after[k + 1].x
      BY <2>10 DEF Ascending
    <3>1. k \in 1 .. len /\ k + 1 \in 1 .. len /\ (m - 1) + k \in 1 .. n - 1
          /\ (m - 1) + (k + 1) = ((m - 1) + k) + 1
      BY <2>4, <2>8
    <3>2. data[(m - 1) + k].x < data[((m - 1) + k) + 1].x
      BY <1>1, <2>14, <3>1 DEF Ascending
    <3> QED BY <2>10, <3>1, <3>2
  <2>15. ASSUME NEW j \in DOMAIN data, data[j].x >= MemoryCutoff PROVE HasSecond(after, data[j].x)
    <3>1. j \in 1 .. n /\ m <= j
      BY <1>1, <1>2, <2>3, <2>15
    <3>2. (j - m) + 1 \in 1 .. len /\ (m - 1) + ((j - m) + 1) = j
      BY <2>4, <2>8, <3>1
    <3>3. after[(j - m) + 1] = data[j]
      BY <2>10, <3>2
    <3> QED BY <2>11, <3>2, <3>3 DEF HasSecond
  <2> HIDE DEF recent
  <2> QED BY <2>10, <2>13, <2>14, <2>15
<1> QED BY <1>3, <1>4

-----------------------------------------------------------------------------
(* Types. *)

Typed == TypeOK /\ Lists

LEMMA Facts ==
  ASSUME Typed
  PROVE  /\ latest \in Nat /\ latest >= 1 /\ clock \in Nat
         /\ \A v \in Versions : takenAt[v] \in Nat /\ takenAt[v] <= clock
         /\ \A v \in Versions : /\ Point(v) \in [x : 0 .. clock, y : Versions]
                                /\ Point(v) \in DataPoint /\ Point(v).x = takenAt[v] /\ Point(v).y = v
         /\ MaxHistory \in Nat /\ Ahead \in Nat /\ MaxSecond \in Nat
         /\ \A w \in Windows : w \in 0 .. MaxHistory
         /\ MemoryCutoff \in Int /\ MemoryCutoff <= Larger(clock, Ahead)
<1>1. latest \in Nat /\ latest >= 1 /\ clock \in Nat
  BY ConstantsTyped DEF Typed, TypeOK
<1>2. \A v \in Versions : takenAt[v] \in Nat /\ takenAt[v] <= clock /\ v \in Nat
  BY <1>1 DEF Typed, TypeOK, Versions
<1>3. MaxHistory \in Nat /\ Ahead \in Nat /\ MaxSecond \in Nat /\ \A w \in Windows : w \in 0 .. MaxHistory
  BY ConstantsTyped
<1>4. MemoryCutoff \in Int /\ MemoryCutoff <= Larger(clock, Ahead)
  <2>1. latestDataTime \in 0 .. Larger(clock, Ahead) /\ Larger(clock, Ahead) \in Nat
    BY <1>1, <1>3 DEF Typed, TypeOK, Larger
  <2> QED BY <1>3, <2>1 DEF MemoryCutoff
<1>5. ASSUME NEW v \in Versions
      PROVE  /\ Point(v) \in [x : 0 .. clock, y : Versions]
             /\ Point(v) \in DataPoint /\ Point(v).x = takenAt[v] /\ Point(v).y = v
  <2>1. takenAt[v] \in 0 .. clock /\ takenAt[v] \in Nat /\ v \in Nat
    BY <1>1, <1>2
  <2> QED BY <2>1 DEF Point, DataPoint
<1> QED BY <1>1, <1>2, <1>3, <1>4, <1>5

(* The pictures published stay what they are. *)
Grown ==
  /\ latest' \in Nat /\ latest <= latest' /\ Versions \subseteq Versions'
  /\ clock <= clock' /\ clock' \in Nat
  /\ \A v \in Versions : takenAt'[v] = takenAt[v]
  /\ Lists => takenAt' \in Seq(Nat)

LEMMA Published ==
  ASSUME Typed, takenAt' = Append(takenAt, clock)
  PROVE  /\ latest' = latest + 1 /\ takenAt' \in Seq(Nat)
         /\ takenAt'[latest + 1] = clock /\ \A v \in Versions : takenAt'[v] = takenAt[v]
<1>1. takenAt \in Seq(Nat) /\ clock \in Nat
  BY Facts DEF Typed, Lists
<1>2. /\ Append(takenAt, clock) \in Seq(Nat) /\ Len(Append(takenAt, clock)) = Len(takenAt) + 1
      /\ \A i \in 1 .. Len(takenAt) : Append(takenAt, clock)[i] = takenAt[i]
      /\ Append(takenAt, clock)[Len(takenAt) + 1] = clock
  BY <1>1, AppendProperties
<1> QED BY <1>2 DEF Versions, latest

LEMMA GrownByStep ==
  ASSUME Typed, [Next]_vars
  PROVE  Grown
<1>1. latest \in Nat /\ clock \in Nat
  BY Facts
<1>2. CASE Publish \/ Restart
  <2>1. takenAt' = Append(takenAt, clock) /\ clock' = clock
    BY <1>2 DEF Publish, Restart
  <2>2. latest' = latest + 1
    BY <2>1, Published
  <2>3. Versions \subseteq Versions'
    BY <1>1, <2>2 DEF Versions
  <2>4. takenAt' \in Seq(Nat) /\ \A v \in Versions : takenAt'[v] = takenAt[v]
    BY <2>1, Published
  <2>5. latest' \in Nat /\ latest <= latest' /\ clock <= clock' /\ clock' \in Nat
    BY <1>1, <2>1, <2>2
  <2> QED BY <2>3, <2>4, <2>5 DEF Grown
<1>3. CASE ~(Publish \/ Restart)
  <2>1. takenAt' = takenAt
    BY <1>3 DEF Next, Tick, LogPicture, Connect, Lose, ChangeWindow, History, Stats, RenderLoop, Draw,
       IntervalPasses, vars, server
  <2>2. clock' = clock \/ clock' = clock + 1
    BY <1>3 DEF Next, Tick, LogPicture, Connect, Lose, ChangeWindow, History, Stats, RenderLoop, Draw,
       IntervalPasses, vars, server
  <2>3. latest' = latest /\ Versions' = Versions
    BY <2>1 DEF Versions, latest
  <2>4. clock <= clock' /\ clock' \in Nat
    BY <1>1, <2>2
  <2> QED BY <1>1, <2>1, <2>3, <2>4 DEF Grown, Lists
<1> QED BY <1>2, <1>3

(* What the types say of each of the page's parts. *)
ConnectionTyped ==
  /\ eventSource \in {"connecting", "replaying", "replayed", "live"}
  /\ sentFrom \in 1 .. latest + 1 /\ replayed \in 0 .. latest
  /\ historyMin \in (0 - MaxHistory) .. clock /\ currentWindow \in Windows

ServerTyped ==
  /\ clock \in 0 .. MaxSecond
  /\ latest \in 1 .. MaxVersion /\ (\A v \in Versions : takenAt[v] \in 0 .. clock)
  /\ logged \subseteq Versions /\ takenAt \in Seq(Nat)

ChartTyped ==
  /\ chart \in Seq(DataPoint) /\ \A i \in DOMAIN chart : chart[i].x <= clock /\ chart[i].y \in Versions
  /\ handed \subseteq Versions /\ horizon \in 0 .. Larger(clock, Ahead)

PictureTyped ==
  /\ latestDataTime \in 0 .. Larger(clock, Ahead) /\ latestStats \in 0 .. latest
  /\ needsRender \in BOOLEAN /\ rendered \in {"recently", "earlier"}
  /\ shown \in 0 .. latest

LEMMA InParts == Typed <=> ServerTyped /\ ConnectionTyped /\ ChartTyped /\ PictureTyped
<1>1. ASSUME NEW data \in Seq(DataPoint), NEW now \in Nat, NEW n \in Nat
      PROVE  (\A i \in DOMAIN data : data[i] \in [x : 0 .. now, y : 1 .. n])
               <=> (\A i \in DOMAIN data : data[i].x <= now /\ data[i].y \in 1 .. n)
  <2> SUFFICES ASSUME NEW i \in DOMAIN data
               PROVE data[i] \in [x : 0 .. now, y : 1 .. n] <=> data[i].x <= now /\ data[i].y \in 1 .. n
    OBVIOUS
  <2>1. data[i] \in DataPoint
    BY ElementOfSeq, LenProperties
  <2> QED BY <2>1 DEF DataPoint
<1>2. chart \in Seq(DataPoint) /\ clock \in Nat /\ latest \in Nat =>
        ((\A i \in DOMAIN chart : chart[i] \in [x : 0 .. clock, y : Versions])
           <=> (\A i \in DOMAIN chart : chart[i].x <= clock /\ chart[i].y \in Versions))
  BY <1>1 DEF Versions
<1>3. clock \in 0 .. MaxSecond /\ latest \in 1 .. MaxVersion => clock \in Nat /\ latest \in Nat
  BY ConstantsTyped
<1> QED BY <1>2, <1>3 DEF Typed, TypeOK, Lists, ServerTyped, ConnectionTyped, ChartTyped, PictureTyped

LEMMA ServerStep == ASSUME Typed, [Next]_vars PROVE ServerTyped'
<1>1. Grown /\ latest \in Nat /\ clock \in Nat /\ MaxSecond \in Nat /\ latest >= 1
  BY Facts, GrownByStep
<1>2. takenAt' \in Seq(Nat)
  BY <1>1 DEF Grown, Typed
<1>3. clock' \in 0 .. MaxSecond
  BY <1>1 DEF Next, Tick, Publish, Restart, LogPicture, Connect, Lose, ChangeWindow, History, Stats,
     RenderLoop, Draw, IntervalPasses, vars, server, Typed, TypeOK
<1>4. CASE Publish \/ Restart
  <2>1. takenAt' = Append(takenAt, clock) /\ clock' = clock /\ latest < MaxVersion /\ logged' \subseteq logged
    BY <1>4 DEF Publish, Restart
  <2>2. latest' = latest + 1 /\ takenAt'[latest + 1] = clock
    BY <2>1, Published
  <2>3. latest' \in 1 .. MaxVersion
    BY <1>1, <2>1, <2>2, ConstantsTyped
  <2>4. \A v \in Versions' : takenAt'[v] \in 0 .. clock'
    <3> SUFFICES ASSUME NEW v \in Versions' PROVE takenAt'[v] \in 0 .. clock
      BY <2>1
    <3>1. v \in Versions \/ v = latest + 1
      BY <1>1, <2>2 DEF Versions
    <3>2. v \in Versions => takenAt'[v] = takenAt[v] /\ takenAt[v] \in 0 .. clock
      BY <1>1 DEF Grown, Typed, TypeOK
    <3> QED BY <1>1, <2>2, <3>1, <3>2
  <2>5. logged' \subseteq Versions'
    BY <1>1, <2>1 DEF Grown, Typed, TypeOK
  <2> QED BY <1>2, <1>3, <2>3, <2>4, <2>5 DEF ServerTyped
<1>5. CASE ~(Publish \/ Restart)
  <2>1. takenAt' = takenAt
    BY <1>5 DEF Next, Tick, LogPicture, Connect, Lose, ChangeWindow, History, Stats, RenderLoop, Draw,
       IntervalPasses, vars, server
  <2>2. latest' = latest /\ Versions' = Versions
    BY <2>1 DEF Versions, latest
  <2>3. latest' \in 1 .. MaxVersion
    BY <2>2 DEF Typed, TypeOK
  <2>4. \A v \in Versions' : takenAt'[v] \in 0 .. clock'
    BY <1>1, <2>1, <2>2, SMTT(30) DEF Grown, Typed, TypeOK
  <2>5. logged' \subseteq logged \cup {latest}
    BY <1>5 DEF Next, Tick, LogPicture, Connect, Lose, ChangeWindow, History, Stats, RenderLoop, Draw,
       IntervalPasses, vars, server
  <2>6. logged' \subseteq Versions'
    BY <1>1, <2>2, <2>5 DEF Typed, TypeOK, Versions
  <2> QED BY <1>2, <1>3, <2>3, <2>4, <2>6 DEF ServerTyped
<1> QED BY <1>4, <1>5

(* The ranges of versions and seconds only widen. *)
LEMMA Wider ==
  ASSUME NEW n \in Nat, NEW m \in Nat, n >= 1, n <= m, NEW c \in Nat, NEW d \in Nat, c <= d, NEW k \in Nat
  PROVE  /\ 1 .. n + 1 \subseteq 1 .. m + 1 /\ 1 .. n \subseteq 1 .. m + 1
         /\ 0 .. n \subseteq 0 .. m /\ 1 .. n \subseteq 0 .. m
         /\ (0 - k) .. c \subseteq (0 - k) .. d /\ \A w \in 0 .. k : c - w \in (0 - k) .. d
         /\ n \in 1 .. m + 1 /\ 1 \in 1 .. m + 1 /\ 0 \in 0 .. m /\ 0 \in (0 - k) .. d
         /\ \A v \in 1 .. n : v + 1 \in 1 .. m + 1
OBVIOUS

LEMMA ConnectionStep == ASSUME Typed, [Next]_vars PROVE ConnectionTyped'
<1>1. /\ Grown /\ latest \in Nat /\ clock \in Nat /\ latest >= 1 /\ MaxHistory \in Nat
      /\ \A w \in Windows : w \in 0 .. MaxHistory
  BY Facts, GrownByStep
<1>2. /\ 1 .. latest + 1 \subseteq 1 .. latest' + 1 /\ 1 .. latest \subseteq 1 .. latest' + 1
      /\ 0 .. latest \subseteq 0 .. latest' /\ 1 .. latest \subseteq 0 .. latest'
      /\ (0 - MaxHistory) .. clock \subseteq (0 - MaxHistory) .. clock'
      /\ \A w \in 0 .. MaxHistory : clock - w \in (0 - MaxHistory) .. clock'
      /\ latest \in 1 .. latest' + 1 /\ 1 \in 1 .. latest' + 1 /\ 0 \in 0 .. latest'
      /\ 0 \in (0 - MaxHistory) .. clock'
      /\ \A v \in 1 .. latest : v + 1 \in 1 .. latest' + 1
  <2>1. latest' \in Nat /\ latest <= latest' /\ clock <= clock' /\ clock' \in Nat
    BY <1>1 DEF Grown
  <2> QED BY <1>1, <2>1, Wider
<1>3. ConnectionTyped
  BY InParts
<1>4. CASE UNCHANGED <<connection, currentWindow>>
  BY <1>2, <1>3, <1>4 DEF ConnectionTyped, connection
<1>5. ASSUME Closed, currentWindow' \in Windows PROVE ConnectionTyped'
  BY <1>2, <1>5 DEF ConnectionTyped, Closed
<1>6. CASE Connect
  <2>1. historyMin' = clock - currentWindow /\ currentWindow \in 0 .. MaxHistory
    BY <1>1, <1>3, <1>6 DEF Connect, ConnectionTyped
  <2>2. historyMin' \in (0 - MaxHistory) .. clock'
    BY <1>2, <2>1
  <2> QED BY <1>2, <1>3, <1>6, <2>2 DEF ConnectionTyped, Connect
<1>7. CASE History
  <2>1. PICK records \in InOrder(NextRecords) :
           IF records = <<>> THEN UNCHANGED <<replayed, sentFrom>>
           ELSE replayed' = Last(records) /\ sentFrom' = Larger(sentFrom, Last(records))
    BY <1>7 DEF History
  <2>2. records # <<>> => Last(records) \in Versions
    BY RecordsOf DEF Typed
  <2>3. records # <<>> => Last(records) \in 1 .. latest
    BY <2>2 DEF Versions
  <2>4. sentFrom' \in 1 .. latest' + 1 /\ replayed' \in 0 .. latest'
    <3>1. sentFrom \in 1 .. latest + 1 /\ replayed \in 0 .. latest
      BY <1>3 DEF ConnectionTyped
    <3>2. CASE records = <<>>
      BY <1>2, <2>1, <3>1, <3>2
    <3>3. CASE records # <<>>
      <4>1. PICK r : r = Last(records)
        OBVIOUS
      <4>2. r \in 1 .. latest /\ sentFrom' = Larger(sentFrom, r) /\ replayed' = r
        BY <2>1, <2>3, <3>3, <4>1
      <4>3. Larger(sentFrom, r) \in {sentFrom, r}
        BY DEF Larger
      <4> QED BY <1>2, <3>1, <4>2, <4>3
    <3> QED BY <3>2, <3>3
  <2>5. /\ eventSource' \in {"replaying", "replayed"} /\ historyMin' = historyMin
        /\ currentWindow' = currentWindow
    BY <1>7 DEF History
  <2>6. historyMin' \in (0 - MaxHistory) .. clock'
    BY <1>2, <1>3, <2>5 DEF ConnectionTyped
  <2> QED BY <1>3, <2>4, <2>5, <2>6 DEF ConnectionTyped
<1>8. CASE Stats
  <2>1. PICK v \in sentFrom .. latest : sentFrom' = v + 1
    BY <1>8 DEF Stats
  <2>2. sentFrom \in Nat /\ sentFrom >= 1
    BY <1>1, <1>3 DEF ConnectionTyped
  <2>3. v \in 1 .. latest
    BY <1>1, <2>2
  <2>4. sentFrom' \in 1 .. latest' + 1
    BY <1>2, <2>1, <2>3
  <2> QED BY <1>2, <1>3, <1>8, <2>4 DEF ConnectionTyped, Stats
<1>9. CASE Restart \/ Lose
  BY <1>3, <1>5, <1>9 DEF Restart, Lose, ConnectionTyped
<1>10. CASE ChangeWindow
  BY <1>5, <1>10 DEF ChangeWindow
<1> QED BY <1>4, <1>6, <1>7, <1>8, <1>9, <1>10 DEF Next, Tick, Publish, LogPicture, RenderLoop, Draw,
       IntervalPasses, vars

LEMMA PictureStep == ASSUME Typed, [Next]_vars PROVE PictureTyped'
<1>1. /\ Grown /\ latest \in Nat /\ clock \in Nat /\ Ahead \in Nat
      /\ \A v \in Versions : takenAt[v] \in Nat /\ takenAt[v] <= clock
  BY Facts, GrownByStep
<1>2. 0 .. latest \subseteq 0 .. latest' /\ Versions \subseteq 0 .. latest'
  BY <1>1 DEF Grown, Versions
<1>3. 0 .. Larger(clock, Ahead) \subseteq 0 .. Larger(clock', Ahead)
      /\ \A v \in Versions : takenAt[v] \in 0 .. Larger(clock', Ahead)
  <2>1. clock' \in Nat /\ clock <= clock'
    BY <1>1 DEF Grown
  <2> QED BY <1>1, <2>1 DEF Larger
<1>4. PictureTyped
  BY InParts
<1>5. CASE UNCHANGED <<picture, frame>>
  BY <1>2, <1>3, <1>4, <1>5 DEF PictureTyped, picture, frame
<1>6. CASE History
  <2>1. PICK records \in InOrder(NextRecords) :
          IF records = <<>> THEN UNCHANGED <<latestStats, latestDataTime>>
          ELSE /\ latestStats' = Last(records)
               /\ latestDataTime' = Larger(latestDataTime, takenAt[Last(records)])
    BY <1>6 DEF History
  <2>2. records # <<>> => Last(records) \in Versions
    BY RecordsOf DEF Typed
  <2>3. latestStats' \in 0 .. latest' /\ latestDataTime' \in 0 .. Larger(clock', Ahead)
    <3>1. latestStats \in 0 .. latest /\ latestDataTime \in 0 .. Larger(clock, Ahead)
      BY <1>4 DEF PictureTyped
    <3>2. \A a, b : Larger(a, b) \in {a, b}
      BY DEF Larger
    <3>3. CASE records = <<>>
      BY <1>2, <1>3, <2>1, <3>1, <3>3
    <3>4. CASE records # <<>>
      <4>1. PICK r \in Versions : r = Last(records)
        BY <2>2, <3>4
      <4>2. latestStats' = r /\ latestDataTime' = Larger(latestDataTime, takenAt[r])
        BY <2>1, <3>4, <4>1
      <4>3. latestDataTime' \in {latestDataTime, takenAt[r]}
        BY <3>2, <4>2
      <4> QED BY <1>2, <1>3, <3>1, <4>1, <4>2, <4>3
    <3> QED BY <3>3, <3>4
  <2>4. needsRender' = TRUE /\ UNCHANGED frame
    BY <1>6 DEF History
  <2> QED BY <1>2, <1>4, <2>3, <2>4 DEF PictureTyped, frame
<1>7. CASE Stats
  <2>1. PICK v \in sentFrom .. latest : latestStats' = v /\ latestDataTime' = takenAt[v]
    BY <1>7 DEF Stats, Latest
  <2>2. v \in Versions
    BY <1>1, <2>1 DEF Typed, TypeOK, Versions
  <2>3. needsRender' = TRUE /\ UNCHANGED frame
    BY <1>7 DEF Stats
  <2> QED BY <1>2, <1>3, <1>4, <2>1, <2>2, <2>3 DEF PictureTyped, frame
<1>8. CASE Draw
  BY <1>2, <1>3, <1>4, <1>8 DEF PictureTyped, Draw
<1>9. CASE IntervalPasses
  BY <1>2, <1>3, <1>4, <1>9 DEF PictureTyped, IntervalPasses, picture
<1> QED BY <1>5, <1>6, <1>7, <1>8, <1>9 DEF Next, Tick, Publish, LogPicture, RenderLoop, Restart, Connect, Lose,
       ChangeWindow, vars

-----------------------------------------------------------------------------
(* The chart. *)

(* A chart's points are of pictures handed over, in order, and every second *)
(* handed over and not pruned has its point.                                *)
Good(data, given, since) ==
  /\ data \in Seq(DataPoint) /\ Ascending(data)
  /\ \A k \in DOMAIN data : data[k].y \in given /\ data[k] = Point(data[k].y)
  /\ \A v \in given : takenAt[v] >= since => HasSecond(data, takenAt[v])
  /\ given \subseteq Versions /\ since \in 0 .. Larger(clock, Ahead)

ChartInv == ChartTyped /\ ChartIsClean /\ NoOldArrays /\ NoHole

LEMMA ChartIsGood == ServerTyped => (ChartInv <=> Good(chart, handed, horizon))
<1> SUFFICES ASSUME ServerTyped PROVE ChartInv <=> Good(chart, handed, horizon)
  OBVIOUS
<1>1. chart \in Seq(DataPoint) => DOMAIN chart = 1 .. Len(chart)
  BY LenProperties
<1>2. ASSUME NEW v \in Versions PROVE Point(v).x <= clock
  <2>1. takenAt[v] \in 0 .. clock /\ clock \in Int
    BY <1>2 DEF ServerTyped
  <2> QED BY <2>1 DEF Point
<1>3. NoOldArrays /\ handed \subseteq Versions =>
        \A i \in DOMAIN chart : chart[i].x <= clock /\ chart[i].y \in Versions
  BY <1>2 DEF NoOldArrays
<1>4. ChartIsClean <=> Ascending(chart)
  BY DEF ChartIsClean, Ascending
<1>5. NoHole <=> \A v \in handed : takenAt[v] >= horizon => HasSecond(chart, takenAt[v])
  BY DEF NoHole, HasSecond
<1> QED BY <1>3, <1>4, <1>5 DEF ChartInv, ChartTyped, Good, NoOldArrays

(* An event's points. *)
LEMMA StatsGood ==
  ASSUME Typed, NEW data, NEW given, NEW since, Good(data, given, since), NEW v \in Versions
  PROVE  Good(InsertSortedAndDedup(data, Point(v)), given \cup {v}, since)
<1>1. PICK new \in DataPoint : new = Point(v) /\ new.y = v /\ new.x = takenAt[v]
  BY Facts
<1>2. PICK after : after = InsertSortedAndDedup(data, new)
  OBVIOUS
<1>3. /\ after \in Seq(DataPoint) /\ (Ascending(data) => Ascending(after))
      /\ OfEither(after, data, new) /\ KeepsSeconds(after, data) /\ HasSecond(after, new.x)
  BY <1>2, InsertOf DEF Good
<1>4. \A k \in DOMAIN after : after[k].y \in given \cup {v} /\ after[k] = Point(after[k].y)
  BY <1>1, <1>3 DEF OfEither, Good
<1>5. \A u \in given \cup {v} : takenAt[u] >= since => HasSecond(after, takenAt[u])
  <2> SUFFICES ASSUME NEW u \in given, takenAt[u] >= since PROVE HasSecond(after, takenAt[u])
    BY <1>1, <1>3
  <2>1. HasSecond(data, takenAt[u])
    BY DEF Good
  <2> QED BY <1>3, <2>1 DEF KeepsSeconds, HasSecond
<1> QED BY <1>1, <1>2, <1>3, <1>4, <1>5 DEF Good

LEMMA HistoryGood ==
  ASSUME Typed, NEW data, NEW given, NEW since, Good(data, given, since),
         NEW records \in InOrder(NextRecords)
  PROVE  Good(Charted(data, records), given \cup ToSet(records), since)
<1>1. PICK n \in Nat : /\ Len(records) = n /\ DOMAIN records = 1 .. n
                       /\ \A i \in 1 .. n : records[i] \in Versions
  BY RecordsOf DEF Typed
<1>2. \A i \in 1 .. n : /\ Point(records[i]) \in DataPoint /\ Point(records[i]).y = records[i]
                        /\ Point(records[i]).x = takenAt[records[i]]
  BY <1>1, Facts
<1>3. PICK after : after = Charted(data, records)
  OBVIOUS
<1>4. /\ after \in Seq(DataPoint) /\ (Ascending(data) => Ascending(after))
      /\ KeepsSeconds(after, data)
      /\ \A i \in 1 .. n : HasSecond(after, Point(records[i]).x)
      /\ \A k \in DOMAIN after : \/ \E j \in DOMAIN data : after[k] = data[j]
                                 \/ \E i \in 1 .. n : after[k] = Point(records[i])
  <2>1. data \in Seq(DataPoint)
    BY DEF Good
  <2> QED BY <1>1, <1>2, <1>3, <2>1, ChartedOf
<1>5. ToSet(records) = {records[i] : i \in 1 .. n}
  BY <1>1 DEF ToSet
<1>6. \A k \in DOMAIN after : after[k].y \in given \cup ToSet(records) /\ after[k] = Point(after[k].y)
  <2> TAKE k \in DOMAIN after
  <2>1. CASE \E j \in DOMAIN data : after[k] = data[j]
    BY <2>1 DEF Good
  <2>2. CASE \E i \in 1 .. n : after[k] = Point(records[i])
    BY <1>2, <1>5, <2>2
  <2> QED BY <1>4, <2>1, <2>2
<1>7. \A u \in given \cup ToSet(records) : takenAt[u] >= since => HasSecond(after, takenAt[u])
  <2>1. ASSUME NEW u \in given, takenAt[u] >= since PROVE HasSecond(after, takenAt[u])
    <3>1. HasSecond(data, takenAt[u])
      BY <2>1 DEF Good
    <3> QED BY <1>4, <3>1 DEF KeepsSeconds, HasSecond
  <2>2. \A u \in ToSet(records) : HasSecond(after, takenAt[u])
    BY <1>2, <1>4, <1>5
  <2> QED BY <2>1, <2>2
<1>8. ToSet(records) \subseteq Versions
  BY <1>1, <1>5
<1> QED BY <1>3, <1>4, <1>6, <1>7, <1>8 DEF Good

LEMMA DrawGood ==
  ASSUME Typed, NEW data, NEW given, NEW since, Good(data, given, since)
  PROVE  Good(Pruned(data), given, Larger(since, MemoryCutoff))
<1>1. /\ MemoryCutoff \in Int /\ clock \in Nat /\ Ahead \in Nat
      /\ MemoryCutoff <= Larger(clock, Ahead)
      /\ \A v \in Versions : takenAt[v] \in Nat
  BY Facts
<1>2. PICK after : after = Pruned(data)
  OBVIOUS
<1>3. /\ after \in Seq(DataPoint) /\ (Ascending(data) => Ascending(after))
      /\ \A k \in DOMAIN after : \E j \in DOMAIN data : after[k] = data[j]
      /\ \A j \in DOMAIN data : data[j].x >= MemoryCutoff => HasSecond(after, data[j].x)
  BY <1>1, <1>2, PrunedOf DEF Good
<1>4. PICK most \in Int : most = Larger(clock, Ahead)
  BY <1>1 DEF Larger
<1>5. since \in 0 .. most
  BY <1>4 DEF Good
<1>6. PICK until \in Int : until = Larger(since, MemoryCutoff)
  BY <1>1, <1>5 DEF Larger
<1>7. until \in 0 .. most /\ since <= until /\ MemoryCutoff <= until
  BY <1>1, <1>4, <1>5, <1>6 DEF Larger
<1>8. ASSUME NEW u \in given, takenAt[u] >= until PROVE HasSecond(after, takenAt[u])
  <2>1. takenAt[u] \in Nat /\ takenAt[u] >= since /\ takenAt[u] >= MemoryCutoff
    BY <1>1, <1>5, <1>7, <1>8 DEF Good
  <2>2. HasSecond(data, takenAt[u])
    BY <2>1 DEF Good
  <2> QED BY <1>3, <2>1, <2>2 DEF HasSecond
<1>9. \A k \in DOMAIN after : after[k].y \in given /\ after[k] = Point(after[k].y)
  BY <1>3 DEF Good
<1> QED BY <1>2, <1>3, <1>4, <1>6, <1>7, <1>8, <1>9 DEF Good

LEMMA ChartIsGoodNext == ServerTyped' => (ChartInv' <=> Good(chart, handed, horizon)')
BY ChartIsGood, PTL

(* A chart stays good while only the server moves on. *)
LEMMA ServerGood ==
  ASSUME Typed, Grown, NEW data, NEW given, NEW since, Good(data, given, since)
  PROVE  Good(data, given, since)'
<1>1. /\ Versions \subseteq Versions' /\ \A v \in Versions : takenAt'[v] = takenAt[v] /\ Point(v)' = Point(v)
  BY DEF Grown, Point
<1>2. 0 .. Larger(clock, Ahead) \subseteq 0 .. Larger(clock', Ahead)
  <2>1. clock \in Nat /\ clock' \in Nat /\ clock <= clock' /\ Ahead \in Nat
    BY Facts DEF Grown
  <2> QED BY <2>1 DEF Larger
<1>3. given \subseteq Versions
  BY DEF Good
<1>4. \A k \in DOMAIN data : data[k].y \in given /\ data[k] = Point(data[k].y)'
  BY <1>1, <1>3 DEF Good
<1>5. \A v \in given : takenAt'[v] >= since => HasSecond(data, takenAt'[v])
  BY <1>1, <1>3 DEF Good
<1>6. given \subseteq Versions' /\ since \in 0 .. Larger(clock', Ahead)
  BY <1>1, <1>2 DEF Good
<1> QED BY <1>4, <1>5, <1>6 DEF Good

LEMMA ChartStep == ASSUME Typed, ChartInv, [Next]_vars PROVE ChartInv'
<1>1. Good(chart, handed, horizon) /\ Grown
  BY InParts, ChartIsGood, GrownByStep
<1>2. SUFFICES Good(chart, handed, horizon)'
  BY ServerStep, ChartIsGoodNext
<1>3. PICK data, given, since : data = chart' /\ given = handed' /\ since = horizon'
  OBVIOUS
<1>4. SUFFICES Good(data, given, since)
  <2>1. ASSUME Good(data, given, since)' PROVE Good(chart, handed, horizon)'
    BY <1>3, <2>1 DEF Good
  <2> QED BY <1>1, <2>1, ServerGood
<1>5. CASE UNCHANGED points
  BY <1>1, <1>3, <1>5 DEF points
<1>6. CASE ChangeWindow
  <2>1. data = <<>> /\ given = {} /\ since = 0
    BY <1>3, <1>6 DEF ChangeWindow, ClearedCharts
  <2>2. <<>> \in Seq(DataPoint) /\ Len(<<>>) = 0 /\ DOMAIN <<>> = {}
    BY EmptySeq
  <2>3. Ascending(<<>>)
    BY <2>2 DEF Ascending
  <2>4. 0 \in 0 .. Larger(clock, Ahead)
    BY Facts DEF Larger
  <2> QED BY <2>1, <2>2, <2>3, <2>4 DEF Good
<1>7. CASE History
  <2>1. PICK records \in InOrder(NextRecords) :
          chart' = Charted(chart, records) /\ handed' = handed \cup ToSet(records)
    BY <1>7 DEF History
  <2>2. horizon' = horizon
    BY <1>7 DEF History
  <2> QED BY <1>1, <1>3, <2>1, <2>2, HistoryGood
<1>8. CASE Stats
  <2>1. PICK v \in sentFrom .. latest :
          chart' = InsertSortedAndDedup(chart, Point(v)) /\ handed' = handed \cup {v}
    BY <1>8 DEF Stats
  <2>2. v \in Versions
    BY <2>1, Facts DEF Typed, TypeOK, Versions
  <2>3. horizon' = horizon
    BY <1>8 DEF Stats
  <2> QED BY <1>1, <1>3, <2>1, <2>2, <2>3, StatsGood
<1>9. CASE Draw
  <2>1. chart' = Pruned(chart) /\ horizon' = Larger(horizon, MemoryCutoff) /\ handed' = handed
    BY <1>9 DEF Draw
  <2> QED BY <1>1, <1>3, <2>1, DrawGood
<1> QED BY <1>5, <1>6, <1>7, <1>8, <1>9 DEF Next, Tick, Publish, LogPicture, Restart, Connect, Lose, RenderLoop,
       IntervalPasses, vars

-----------------------------------------------------------------------------
(* The picture. *)

CurrentInv == Current /\ LiveIsCurrent

LEMMA CurrentStep == ASSUME Typed, CurrentInv, [Next]_vars PROVE CurrentInv'
<1>1. /\ Grown /\ latest \in Nat /\ latest >= 1
      /\ \A v \in Versions : takenAt'[v] = takenAt[v]
  BY Facts, GrownByStep DEF Grown
<1>2. /\ sentFrom \in 1 .. latest + 1 /\ handed \subseteq Versions
      /\ shown \in 0 .. latest /\ latestStats \in 0 .. latest
  BY DEF Typed, TypeOK
<1>3. eventSource = "live" => latestStats \in Versions
  BY <1>1, <1>2 DEF CurrentInv, Current, Versions
<1>4. CASE UNCHANGED <<connection, handed, shown, picture>>
  <2>1. /\ eventSource' = eventSource /\ sentFrom' = sentFrom /\ handed' = handed /\ shown' = shown
        /\ latestStats' = latestStats /\ latestDataTime' = latestDataTime
    BY <1>4 DEF connection, picture
  <2>2. Current'
    BY <2>1 DEF CurrentInv, Current
  <2>3. LiveIsCurrent'
    BY <1>1, <1>3, <2>1 DEF CurrentInv, LiveIsCurrent
  <2> QED BY <2>2, <2>3 DEF CurrentInv
<1>5. CASE eventSource' = "connecting"
  BY <1>5 DEF CurrentInv, Current, LiveIsCurrent
<1>6. CASE Connect
  <2>1. /\ eventSource' = "replaying" /\ sentFrom' = latest /\ handed' = handed /\ shown' = shown
        /\ latestStats' = latestStats
    BY <1>6 DEF Connect, points, picture, frame
  <2>2. \A v \in handed \cup {shown, latestStats} : v <= latest
    BY <1>1, <1>2 DEF Versions
  <2> QED BY <2>1, <2>2 DEF CurrentInv, Current, LiveIsCurrent
<1>7. CASE History
  <2>1. PICK records \in InOrder(NextRecords) :
          /\ handed' = handed \cup ToSet(records)
          /\ IF records = <<>> THEN UNCHANGED <<sentFrom, latestStats>>
             ELSE sentFrom' = Larger(sentFrom, Last(records)) /\ latestStats' = Last(records)
    BY <1>7 DEF History
  <2>2. /\ eventSource = "replaying" /\ eventSource' \in {"replaying", "replayed"} /\ shown' = shown
    BY <1>7 DEF History, frame
  <2>3. PICK n \in Nat : /\ DOMAIN records = 1 .. n /\ (n = 0 <=> records = <<>>)
                         /\ \A i \in 1 .. n : records[i] \in Versions
                         /\ n # 0 => /\ Last(records) = records[n] /\ n \in 1 .. n
                                     /\ \A i \in 1 .. n : records[i] <= records[n]
    BY RecordsOf DEF Typed
  <2>4. ToSet(records) = {records[i] : i \in 1 .. n}
    BY <2>3 DEF ToSet
  <2>5. \A v \in handed \cup {shown, latestStats} : v \in Nat /\ v <= sentFrom
    BY <1>1, <1>2, <2>2 DEF CurrentInv, Current, Versions
  <2>6. \A v \in handed' \cup {shown', latestStats'} : v <= sentFrom'
    <3>1. CASE n = 0
      <4>1. handed' = handed /\ sentFrom' = sentFrom /\ latestStats' = latestStats
        BY <2>1, <2>3, <2>4, <3>1
      <4> QED BY <2>2, <2>5, <4>1
    <3>2. CASE n # 0
      <4>1. PICK r \in Versions : r = records[n]
        BY <2>3, <3>2
      <4>2. sentFrom' = Larger(sentFrom, r) /\ latestStats' = r
        BY <2>1, <2>3, <3>2, <4>1
      <4>3. sentFrom <= sentFrom' /\ r <= sentFrom' /\ sentFrom \in Nat /\ r \in Nat /\ sentFrom' \in Nat
        BY <1>1, <1>2, <4>2 DEF Larger, Versions
      <4>4. \A v \in ToSet(records) : v <= r /\ v \in Nat
        BY <1>1, <2>3, <2>4, <3>2, <4>1 DEF Versions
      <4>5. \A v \in handed' \cup {shown', latestStats'} :
              v \in handed \cup {shown, latestStats} \/ v \in ToSet(records) \/ v = r
        BY <2>1, <2>2, <4>2
      <4>6. \A v : v \in Nat /\ (v <= r \/ v <= sentFrom) => v <= sentFrom'
        BY <4>3
      <4> QED BY <2>5, <4>3, <4>4, <4>5, <4>6
    <3> QED BY <3>1, <3>2
  <2> QED BY <2>2, <2>6 DEF CurrentInv, Current, LiveIsCurrent
<1>8. CASE Stats
  <2>1. PICK v \in sentFrom .. latest :
          /\ latestStats' = v /\ latestDataTime' = takenAt[v]
          /\ handed' = handed \cup {v} /\ sentFrom' = v + 1
    BY <1>8 DEF Stats, Latest
  <2>2. /\ eventSource \in {"replayed", "live"} /\ eventSource' = "live" /\ shown' = shown
        /\ takenAt' = takenAt
    BY <1>8 DEF Stats, frame, server
  <2>3. v \in Nat /\ v # 0 /\ sentFrom <= v
    BY <1>1, <1>2, <2>1
  <2>4. \A u \in handed \cup {shown} : u \in Nat /\ (u <= sentFrom \/ u + 1 <= sentFrom)
    <3>1. handed \cup {shown} \subseteq Nat
      BY <1>1, <1>2 DEF Versions
    <3>2. eventSource = "replayed" => \A u \in handed \cup {shown} : u <= sentFrom
      BY DEF CurrentInv, Current
    <3>3. eventSource = "live" => \A u \in handed \cup {shown} : u + 1 <= sentFrom
      <4>1. eventSource = "live" => sentFrom = latestStats + 1 /\ latestStats \in Nat
        BY <1>2 DEF CurrentInv, Current
      <4> QED BY <3>1, <4>1 DEF CurrentInv, LiveIsCurrent
    <3> QED BY <2>2, <3>1, <3>2, <3>3
  <2>5. \A u \in handed \cup {shown} : u <= v
    BY <1>2, <2>3, <2>4
  <2>6. \A u \in handed' \cup {shown'} : u <= v
    BY <2>1, <2>2, <2>3, <2>5
  <2> QED BY <2>1, <2>2, <2>3, <2>6 DEF CurrentInv, Current, LiveIsCurrent
<1>9. CASE Draw
  <2>1. /\ eventSource' = eventSource /\ sentFrom' = sentFrom /\ handed' = handed /\ shown' = latestStats
        /\ latestStats' = latestStats /\ latestDataTime' = latestDataTime /\ takenAt' = takenAt
    BY <1>9 DEF Draw, connection, server
  <2>2. latestStats <= latestStats
    BY <1>2
  <2> QED BY <2>1, <2>2 DEF CurrentInv, Current, LiveIsCurrent
<1>10. CASE Restart \/ Lose \/ ChangeWindow
  BY <1>5, <1>10 DEF Restart, Lose, ChangeWindow, Closed
<1>11. CASE IntervalPasses
  BY <1>4, <1>11 DEF IntervalPasses, points
<1> QED BY <1>4, <1>6, <1>7, <1>8, <1>9, <1>10, <1>11
       DEF Next, Tick, Publish, LogPicture, RenderLoop, vars, points, frame

-----------------------------------------------------------------------------
(* Theorems. *)

PageInv == Typed /\ ChartInv /\ CurrentInv

LEMMA PageInit == Init => PageInv
<1> SUFFICES ASSUME Init PROVE PageInv
  OBVIOUS
<1>1. takenAt = <<0>> /\ latest = 1 /\ Versions = {1} /\ takenAt[1] = 0 /\ takenAt \in Seq(Nat)
  BY DEF Init, latest, Versions
<1>2. chart = <<>> /\ chart \in Seq(DataPoint) /\ Len(chart) = 0 /\ DOMAIN chart = {}
  BY EmptySeq DEF Init
<1>3. Larger(0, Ahead) \in Nat /\ Ahead <= Larger(0, Ahead) /\ MaxHistory \in Nat
  BY ConstantsTyped DEF Larger
<1>4. ServerTyped /\ ConnectionTyped
  BY <1>1, <1>3, ConstantsTyped DEF Init, ServerTyped, ConnectionTyped
<1>5. ChartTyped /\ PictureTyped
  <2>1. clock = 0 /\ Larger(clock, Ahead) = Larger(0, Ahead)
    BY DEF Init
  <2>2. PICK most \in Nat : most = Larger(clock, Ahead) /\ Ahead <= most /\ Ahead \in Nat
    BY <1>3, <2>1, ConstantsTyped
  <2>3. latestDataTime \in 0 .. most /\ 0 \in 0 .. most /\ 0 \in 0 .. latest
    BY <1>1, <2>2 DEF Init
  <2> QED BY <1>2, <2>2, <2>3 DEF Init, ChartTyped, PictureTyped
<1>6. ChartIsClean /\ NoOldArrays /\ NoHole
  BY <1>2 DEF Init, ChartIsClean, NoOldArrays, NoHole
<1>7. CurrentInv
  BY DEF Init, CurrentInv, Current, LiveIsCurrent
<1> QED BY <1>4, <1>5, <1>6, <1>7, InParts DEF PageInv, ChartInv

LEMMA InPartsNext == Typed' <=> ServerTyped' /\ ConnectionTyped' /\ ChartTyped' /\ PictureTyped'
BY InParts, PTL

LEMMA PageStep == PageInv /\ [Next]_vars => PageInv'
<1> SUFFICES ASSUME PageInv, [Next]_vars PROVE PageInv'
  OBVIOUS
<1>1. ServerTyped' /\ ConnectionTyped' /\ PictureTyped'
  BY ServerStep, ConnectionStep, PictureStep DEF PageInv
<1>2. ChartInv' /\ CurrentInv'
  BY ChartStep, CurrentStep DEF PageInv
<1>3. Typed'
  BY <1>1, <1>2, InPartsNext DEF ChartInv
<1> QED BY <1>2, <1>3 DEF PageInv

LEMMA PageHolds == Spec => []PageInv
BY PageInit, PageStep, PTL DEF Spec

(* Every variable stays in its type. *)
THEOREM TypeCorrect == Spec => []TypeOK
<1>1. PageInv => TypeOK
  BY DEF PageInv, Typed
<1> QED BY <1>1, PageHolds, PTL

(* However replays and live pictures arrive over each other, a chart's points *)
(* are in order, one to a second, as Chart.js is told (insertSortedAndDedup). *)
THEOREM ChartsAreClean == Spec => []ChartIsClean
<1>1. PageInv => ChartIsClean
  BY DEF PageInv, ChartInv
<1> QED BY <1>1, PageHolds, PTL

(* No chart shows a point of a window chosen before, or of a connection       *)
(* before that choice (initSse).                                              *)
THEOREM ChartsAreOfOneWindow == Spec => []NoOldArrays
<1>1. PageInv => NoOldArrays
  BY DEF PageInv, ChartInv
<1> QED BY <1>1, PageHolds, PTL

(* Neither a replay over live points nor the pruning of a frame leaves out a  *)
(* second that was handed over (the history listener and renderLoop).         *)
THEOREM ChartsAreWhole == Spec => []NoHole
<1>1. PageInv => NoHole
  BY DEF PageInv, ChartInv
<1> QED BY <1>1, PageHolds, PTL

(* Whatever a replay has shown, and however often the connection was lost, a  *)
(* live page keeps the newest picture it was ever handed (the two listeners). *)
THEOREM LivePagesAreCurrent == Spec => []LiveIsCurrent
<1>1. PageInv => LiveIsCurrent
  BY DEF PageInv, CurrentInv
<1> QED BY <1>1, PageHolds, PTL

=============================================================================
