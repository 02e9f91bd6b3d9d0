-------------------------- MODULE WriteQueue_proofs --------------------------
(***************************************************************************)
(* Proofs about module WriteQueue, for any numbers of set points, requests *)
(* and restarts: what the pop of a heap of equal elements does, and the    *)
(* invariants of the queue, the tables of the button and the registers.    *)
(***************************************************************************)
EXTENDS WriteQueue, FiniteSetTheorems, TLAPS

Request ==
    [no : Nat, what : {"sp", "press", "release", "other"}, sp : Nat]

TypeOK ==
    /\ heap \in Seq(Request) /\ late \subseteq Request
    /\ made \in Nat /\ expired \in Nat /\ sent \in Nat /\ restarts \in Nat
    /\ panel \in BOOLEAN /\ owed \in BOOLEAN
    /\ button \in {"none", "press", "clean"}
    /\ regSP \in Nat /\ regOK \in {0, 1} /\ confirms \in Nat
    /\ crowded \in BOOLEAN /\ upset \in BOOLEAN /\ orphan \in BOOLEAN

(* No request has a number, or a set point, that was not given out yet.    *)
GivenOut ==
    /\ \A i \in 1..Len(heap) : heap[i].no <= made /\ heap[i].sp <= sent
    /\ \A r \in late : r.sp <= sent
    /\ regSP <= sent

(* The queue has the one request about the button that its tables call     *)
(* for, or none when it is to be made.                                     *)
Pending(what) == \E i \in 1..Len(heap) : heap[i].what = what

Debts ==
    /\ button = "press" <=> Pending("press")
    /\ button = "clean" <=> owed \/ Pending("release")
    /\ ~(owed /\ Pending("release"))
    /\ \A i, j \in 1..Len(heap) :
          heap[i].what \in {"press", "release"} /\ heap[j].what = heap[i].what => i = j

Sorted == InOrder /\ (~crowded => Len(heap) < 4)

(* As long as nothing has upset the order, a confirmation has its set      *)
(* point in the register or before it in the queue.                        *)
Ahead(h, n, j) == \E i \in 1..(j - 1) : h[i].what = "sp" /\ h[i].sp >= n

Paired ==
    /\ ~crowded
    /\ \A i, j \in 1..Len(heap) :
          i < j /\ heap[i].what = "sp" /\ heap[j].what = "sp" => heap[i].sp <= heap[j].sp
    /\ \A i \in 1..Len(heap) :
          /\ heap[i].what = "sp" => regSP <= heap[i].sp
          /\ heap[i].what = "press" => regSP >= heap[i].sp \/ Ahead(heap, heap[i].sp, i)
    /\ panel => regSP >= sent \/ Ahead(heap, sent, Len(heap) + 1)
    /\ regOK = 1 => regSP >= confirms

IInv ==
    TypeOK /\ GivenOut /\ Debts /\ Sorted /\ (upset \/ Paired) /\ PressedIsOwed

-----------------------------------------------------------------------------
(* The path of the hole                                                    *)

LEMMA PathStart ==
    ASSUME NEW n \in Nat
    PROVE  0 \in Path(n) /\ Path(n) \subseteq 0..n
BY DEF Path

LEMMA PathNext ==
    ASSUME NEW n \in Nat, NEW q \in Path(n), 2 * q + 2 < n
    PROVE  2 * q + 2 \in Path(n)
<1>1. 2 * q + 2 \in 0..n
  BY PathStart
<1>2. ASSUME NEW S \in SUBSET (0..n), 0 \in S, \A r \in S : 2 * r + 2 < n => 2 * r + 2 \in S
      PROVE  2 * q + 2 \in S
  <2>1. q \in S
    BY <1>2 DEF Path
  <2> QED BY <1>2, <2>1
<1> QED BY <1>1, <1>2 DEF Path

(* What holds at the root and is handed down holds all along the path.     *)
LEMMA PathInduction ==
    ASSUME NEW n \in Nat, NEW T \in SUBSET Path(n), 0 \in T,
           \A q \in T : 2 * q + 2 < n => 2 * q + 2 \in T
    PROVE  Path(n) = T
<1>1. T \in SUBSET (0..n)
  BY PathStart
<1> QED BY <1>1 DEF Path

LEMMA PathBound ==
    ASSUME NEW n \in Nat \ {0}, NEW p \in Path(n)
    PROVE  p \in 0..(n - 1)
<1> DEFINE T == {q \in Path(n) : q < n}
<1>1. 0 \in T
  BY PathStart
<1>2. \A q \in T : 2 * q + 2 < n => 2 * q + 2 \in T
  BY PathNext
<1>3. Path(n) = T
  <2> HIDE DEF T
  <2>1. T \in SUBSET Path(n)
    BY DEF T
  <2> QED BY <1>1, <1>2, <2>1, PathInduction
<1> QED BY <1>3, PathStart

LEMMA PathFrom ==
    ASSUME NEW n \in Nat, NEW p \in Path(n)
    PROVE  p = 0 \/ \E q \in Path(n) : 2 * q + 2 < n /\ p = 2 * q + 2
<1> DEFINE T == {r \in Path(n) : r = 0 \/ \E q \in Path(n) : 2 * q + 2 < n /\ r = 2 * q + 2}
<1>1. 0 \in T /\ T \in SUBSET Path(n)
  BY PathStart
<1>2. \A q \in T : 2 * q + 2 < n => 2 * q + 2 \in T
  BY PathNext
<1>3. Path(n) = T
  <2> HIDE DEF T
  <2> QED BY <1>1, <1>2, PathInduction
<1> QED BY <1>3

(* There is nothing between a place and the next.                          *)
LEMMA PathOrder ==
    ASSUME NEW n \in Nat, NEW p \in Path(n), NEW q \in Path(n)
    PROVE  p <= q \/ p >= 2 * q + 2
<1> DEFINE T == {r \in Path(n) : \A s \in Path(n) : s <= r \/ s >= 2 * r + 2}
<1>0. \A r \in Path(n) : r \in Nat
  BY PathStart
<1>1. 0 \in T
  <2>1. ASSUME NEW s \in Path(n) PROVE s <= 0 \/ s >= 2
    BY <1>0, PathFrom
  <2> QED BY <2>1, PathStart
<1>2. ASSUME NEW r \in T, 2 * r + 2 < n PROVE 2 * r + 2 \in T
  <2>1. 2 * r + 2 \in Path(n) /\ r \in Nat
    BY <1>0, <1>2, PathNext
  <2>2. ASSUME NEW s \in Path(n) PROVE s <= 2 * r + 2 \/ s >= 2 * (2 * r + 2) + 2
    <3>1. CASE s = 0
      BY <2>1, <3>1
    <3>2. ASSUME NEW t \in Path(n), s = 2 * t + 2 PROVE s <= 2 * r + 2 \/ s >= 2 * (2 * r + 2) + 2
      <4>1. t \in Nat /\ (t <= r \/ t >= 2 * r + 2)
        BY <1>0
      <4> QED BY <2>1, <3>2, <4>1
    <3> QED BY <3>1, <3>2, PathFrom
  <2> QED BY <2>1, <2>2
<1>3. Path(n) = T
  <2>1. T \in SUBSET Path(n)
    OBVIOUS
  <2> HIDE DEF T
  <2> QED BY <1>1, <1>2, <2>1, PathInduction
<1> QED BY <1>3

(* The path ends: it is finite, so not all its places have a next one.     *)
LEMMA PathEnds ==
    ASSUME NEW n \in Nat
    PROVE  \E p \in Path(n) : 2 * p + 2 >= n
<1>1. SUFFICES ASSUME \A p \in Path(n) : 2 * p + 2 < n PROVE FALSE
  BY PathStart
<1>2. IsFiniteSet(Path(n))
  <2>1. IsFiniteSet(0..n) /\ Path(n) \in SUBSET (0..n)
    BY PathStart, FS_Interval
  <2> QED BY <2>1, FS_Subset
<1> DEFINE R == Path(n) \ {0}
           f == [p \in Path(n) |-> 2 * p + 2]
<1>3. IsFiniteSet(R) /\ Cardinality(R) = Cardinality(Path(n)) - 1
  BY <1>2, PathStart, FS_RemoveElement
<1>4. f \in [Path(n) -> R]
  <2>1. ASSUME NEW p \in Path(n) PROVE 2 * p + 2 \in R
    BY <1>1, PathNext, PathStart
  <2> QED BY <2>1
<1>5. Cardinality(R) < Cardinality(Path(n))
  BY <1>2, <1>3, FS_CardinalityType
<1>6. \E x, y \in Path(n) : x # y /\ f[x] = f[y]
  <2> HIDE DEF f, R
  <2> QED BY <1>2, <1>3, <1>4, <1>5, FS_PigeonHole
<1> QED BY <1>6, PathStart

-----------------------------------------------------------------------------
(* The pop                                                                 *)

(* Where the element comes from that stands at place p after the pop.      *)
Last(n) == CHOOSE p \in Path(n) : 2 * p + 2 >= n
Left(n) == 2 * Last(n) + 2 = n
Hole(n) == IF Left(n) THEN 2 * Last(n) + 1 ELSE Last(n)
From(n, p) ==
    IF p = Hole(n) THEN n
    ELSE IF p = Last(n) THEN Hole(n)
    ELSE IF p \in Path(n) THEN 2 * p + 2
    ELSE p

LEMMA LastFacts ==
    ASSUME NEW n \in Nat \ {0}
    PROVE  /\ Last(n) \in Path(n) /\ 2 * Last(n) + 2 >= n /\ Last(n) \in 0..(n - 1)
           /\ \A q \in Path(n) \ {Last(n)} : 2 * q + 2 < n /\ q < Last(n)
<1>1. Last(n) \in Path(n) /\ 2 * Last(n) + 2 >= n
  BY PathEnds DEF Last
<1>2. Last(n) \in 0..(n - 1)
  BY <1>1, PathBound
<1>3. ASSUME NEW q \in Path(n) \ {Last(n)} PROVE 2 * q + 2 < n /\ q < Last(n)
  <2>1. q \in 0..(n - 1)
    BY PathBound
  <2>2. q <= Last(n) \/ q >= 2 * Last(n) + 2
    BY <1>1, PathOrder
  <2>3. Last(n) <= q \/ Last(n) >= 2 * q + 2
    BY <1>1, PathOrder
  <2> QED BY <1>1, <1>2, <2>1, <2>2, <2>3
<1> QED BY <1>1, <1>2, <1>3

LEMMA FromRange ==
    ASSUME NEW n \in Nat \ {0}, NEW p \in 0..(n - 1)
    PROVE  From(n, p) \in 1..n
<1>1. CASE p = Hole(n)
  BY <1>1 DEF From
<1>2. CASE p # Hole(n) /\ p = Last(n)
  BY <1>2, LastFacts DEF From, Hole, Left
<1>3. CASE p # Hole(n) /\ p # Last(n) /\ p \in Path(n)
  BY <1>3, LastFacts DEF From
<1>4. CASE p # Hole(n) /\ p # Last(n) /\ p \notin Path(n)
  BY <1>4, PathStart DEF From
<1> QED BY <1>1, <1>2, <1>3, <1>4

LEMMA FromInjective ==
    ASSUME NEW n \in Nat \ {0}, NEW p \in 0..(n - 1), NEW q \in 0..(n - 1),
           From(n, p) = From(n, q)
    PROVE  p = q
<1> DEFINE l == Last(n)
           h == Hole(n)
<1>1. /\ l \in Path(n) /\ l \in 0..(n - 1)
      /\ \A r \in Path(n) \ {l} : r \in Nat /\ 2 * r + 2 < n /\ 2 * r + 2 \in Path(n)
  BY LastFacts, PathNext, PathStart
<1>2. h = l \/ (2 * l + 2 = n /\ h = 2 * l + 1)
  BY DEF Hole, Left
(* Only the hole gets the last element, and only the last place the one in *)
(* front of it.                                                            *)
<1>3. ASSUME NEW r \in 0..(n - 1), r # h PROVE From(n, r) < n
  BY <1>1, <1>2, <1>3 DEF From
<1>4. h \in 0..(n - 1) /\ From(n, h) = n
  BY <1>1, <1>2 DEF From
<1>5. CASE p = h \/ q = h
  BY <1>3, <1>4, <1>5
<1>6. ASSUME NEW r \in 0..(n - 1), r # h, r # l, l # h PROVE From(n, r) # h
  <2>1. 2 * l + 2 = n /\ h = 2 * l + 1
    BY <1>2, <1>6
  <2>2. CASE r \in Path(n)
    <3>1. From(n, r) = 2 * r + 2 /\ r \in Nat
      BY <1>1, <1>6, <2>2 DEF From
    <3> QED BY <1>1, <2>1, <3>1
  <2>3. CASE r \notin Path(n)
    BY <1>6, <2>3 DEF From
  <2> QED BY <2>2, <2>3
<1>7. CASE p # h /\ q # h /\ (p = l \/ q = l)
  BY <1>6, <1>7 DEF From
<1>8. CASE p \notin {h, l} /\ q \notin {h, l}
  <2>1. /\ From(n, p) = IF p \in Path(n) THEN 2 * p + 2 ELSE p
        /\ From(n, q) = IF q \in Path(n) THEN 2 * q + 2 ELSE q
    BY <1>8 DEF From
  <2>2. CASE p \in Path(n) /\ q \in Path(n)
    <3>1. 2 * p + 2 = 2 * q + 2
      BY <2>1, <2>2
    <3> QED BY <3>1
  <2>3. CASE p \in Path(n) /\ q \notin Path(n)
    <3>1. From(n, p) \in Path(n)
      BY <1>1, <1>8, <2>1, <2>3
    <3> QED BY <2>1, <2>3, <3>1
  <2>4. CASE p \notin Path(n) /\ q \in Path(n)
    <3>1. From(n, q) \in Path(n)
      BY <1>1, <1>8, <2>1, <2>4
    <3> QED BY <2>1, <2>4, <3>1
  <2>5. CASE p \notin Path(n) /\ q \notin Path(n)
    BY <2>1, <2>5
  <2> QED BY <2>2, <2>3, <2>4, <2>5
<1> QED BY <1>5, <1>7, <1>8

LEMMA PoppedIs ==
    ASSUME heap \in Seq(Request), heap # << >>
    PROVE  LET n == Len(heap) - 1 IN
           /\ n \in Nat
           /\ Popped = [i \in 1..n |-> heap[From(n, i - 1) + 1]]
<1> DEFINE n == Len(heap) - 1
<1>1. n \in Nat /\ Len(heap) \in Nat
  OBVIOUS
<1>2. ASSUME NEW i \in 1..n PROVE Popped[i] = heap[From(n, i - 1) + 1]
  <2> DEFINE p == i - 1
  <2>1. n \in Nat \ {0} /\ p \in 0..(n - 1)
    <3> HIDE DEF n
    <3> QED BY <1>1
  <2>2. /\ Last(n) \in 0..(n - 1) /\ Last(n) \in Path(n)
        /\ Hole(n) = IF 2 * Last(n) + 2 = n THEN 2 * Last(n) + 1 ELSE Last(n)
    BY <2>1, LastFacts DEF Hole, Left
  <2>3. Popped[i] = CASE p = Hole(n)                        -> heap[n + 1]
                      [] p = Last(n) /\ Left(n)             -> heap[Hole(n) + 1]
                      [] p \in Path(n) \ {Last(n), Hole(n)} -> heap[2 * p + 3]
                      [] OTHER                              -> heap[p + 1]
    BY DEF Popped, Hole, Left, Last
  <2>4. CASE p = Hole(n)
    <3>1. Popped[i] = heap[n + 1]
      BY <2>2, <2>3, <2>4 DEF Left
    <3> QED BY <2>4, <3>1 DEF From
  <2>5. CASE p # Hole(n) /\ p = Last(n)
    <3>1. Left(n)
      BY <2>5 DEF Hole
    <3>2. Popped[i] = heap[Hole(n) + 1]
      BY <2>3, <2>5, <3>1
    <3> QED BY <2>5, <3>2 DEF From
  <2>6. CASE p # Hole(n) /\ p # Last(n) /\ p \in Path(n)
    <3>1. Popped[i] = heap[2 * p + 3]
      BY <2>3, <2>6
    <3>2. From(n, p) + 1 = 2 * p + 3
      BY <2>1, <2>6 DEF From
    <3> QED BY <3>1, <3>2
  <2>7. CASE p # Hole(n) /\ p # Last(n) /\ p \notin Path(n)
    <3>1. Popped[i] = heap[p + 1]
      BY <2>3, <2>7
    <3> QED BY <2>7, <3>1 DEF From
  <2> QED BY <2>4, <2>5, <2>6, <2>7
<1>3. Popped = [i \in 1..n |-> Popped[i]]
  BY DEF Popped
<1> QED BY <1>1, <1>2, <1>3

(* cleanWriteRequests and processNextWrite take the top of the heap and    *)
(* nothing else: every other request is in the heap after the pop, once,   *)
(* whatever its length.                                                    *)
THEOREM PopTakesTheTop ==
    ASSUME heap \in Seq(Request), heap # << >>
    PROVE  LET n == Len(heap) - 1 IN
           /\ Popped \in Seq(Request) /\ Len(Popped) = n
           /\ \E f \in [1..n -> 2..(n + 1)] :
                /\ \A i \in 1..n : Popped[i] = heap[f[i]]
                /\ \A i, j \in 1..n : f[i] = f[j] => i = j
                /\ \A k \in 2..(n + 1) : \E i \in 1..n : f[i] = k
<1> DEFINE n == Len(heap) - 1
           f == [i \in 1..n |-> From(n, i - 1) + 1]
<1>1. n \in Nat /\ Popped = [i \in 1..n |-> heap[From(n, i - 1) + 1]]
  BY PoppedIs
<1>2. \A i \in 1..n : From(n, i - 1) + 1 \in 2..(n + 1)
  <2> HIDE DEF n
  <2> TAKE i \in 1..n
  <2>1. n \in Nat \ {0} /\ i - 1 \in 0..(n - 1)
    BY <1>1
  <2> QED BY <2>1, FromRange
<1>3. f \in [1..n -> 2..(n + 1)] /\ \A i \in 1..n : Popped[i] = heap[f[i]]
  BY <1>1, <1>2
<1>4. ASSUME NEW i \in 1..n, NEW j \in 1..n, f[i] = f[j] PROVE i = j
  <2>1. From(n, i - 1) = From(n, j - 1)
    <3>1. From(n, i - 1) \in Nat /\ From(n, j - 1) \in Nat
      <4> HIDE DEF n
      <4>1. n \in Nat \ {0} /\ i - 1 \in 0..(n - 1) /\ j - 1 \in 0..(n - 1)
        BY <1>1
      <4> QED BY <4>1, FromRange
    <3> QED BY <1>4, <3>1
  <2> HIDE DEF n
  <2>2. n \in Nat \ {0} /\ i - 1 \in 0..(n - 1) /\ j - 1 \in 0..(n - 1)
    BY <1>1
  <2>3. i - 1 = j - 1
    BY <2>1, <2>2, FromInjective
  <2> QED BY <1>1, <2>3
(* A function into fewer places than it has arguments would not be one to  *)
(* one.                                                                    *)
<1>5. ASSUME NEW k \in 2..(n + 1) PROVE \E i \in 1..n : f[i] = k
  <2> HIDE DEF n, f
  <2>1. SUFFICES ASSUME \A i \in 1..n : f[i] # k PROVE FALSE
    OBVIOUS
  <2> DEFINE R == (2..(n + 1)) \ {k}
  <2>2. IsFiniteSet(1..n) /\ Cardinality(1..n) = n
    BY <1>1, FS_Interval
  <2>3. IsFiniteSet(2..(n + 1)) /\ Cardinality(2..(n + 1)) = n
    BY <1>1, FS_Interval
  <2>4. IsFiniteSet(R) /\ Cardinality(R) = n - 1
    BY <2>3, FS_RemoveElement
  <2>5. f \in [1..n -> R]
    BY <1>3, <2>1
  <2>6. Cardinality(R) < Cardinality(1..n)
    BY <1>1, <2>2, <2>4
  <2>7. \E i, j \in 1..n : i # j /\ f[i] = f[j]
    <3> HIDE DEF R
    <3> QED BY <2>2, <2>4, <2>5, <2>6, FS_PigeonHole
  <2> QED BY <1>4, <2>7
<1>6. Popped \in Seq(Request) /\ Len(Popped) = n
  <2>1. \A i \in 1..n : Popped[i] \in Request
    <3> TAKE i \in 1..n
    <3>1. f[i] \in 2..(n + 1)
      <4> HIDE DEF f, n
      <4> QED BY <1>3
    <3>2. n + 1 = Len(heap)
      OBVIOUS
    <3>3. Popped[i] = heap[f[i]]
      BY <1>3
    <3> HIDE DEF f, n
    <3>4. f[i] \in 1..Len(heap)
      BY <1>1, <3>1, <3>2
    <3> QED BY <3>3, <3>4
  <2>2. Popped = [i \in 1..n |-> Popped[i]]
    BY <1>1
  <2> HIDE DEF n
  <2> QED BY <1>1, <2>1, <2>2
<1> HIDE DEF f
<1>7. \A i, j \in 1..n : f[i] = f[j] => i = j
  BY <1>4
<1>8. \A k \in 2..(n + 1) : \E i \in 1..n : f[i] = k
  BY <1>5
<1> QED BY <1>3, <1>6, <1>7, <1>8

(* With three requests or fewer the pop keeps the order.                   *)
LEMMA PopShort ==
    ASSUME heap \in Seq(Request), heap # << >>, Len(heap) < 4
    PROVE  \A i \in 1..(Len(heap) - 1) : Popped[i] = heap[i + 1]
<1> DEFINE n == Len(heap) - 1
<1>1. n \in 0..2 /\ \A i \in 1..n : Popped[i] = heap[From(n, i - 1) + 1]
  <2>1. n \in Nat /\ Popped = [i \in 1..n |-> heap[From(n, i - 1) + 1]]
    BY PoppedIs
  <2>2. n <= 2
    OBVIOUS
  <2> HIDE DEF n
  <2> QED BY <2>1, <2>2
<1>2. ASSUME NEW i \in 1..n PROVE From(n, i - 1) = i
  <2> HIDE DEF n
  <2>1. n \in {1, 2} /\ i - 1 \in {0, 1} /\ i - 1 < n
    BY <1>1
  <2>2. \A p \in Path(n) : p = 0
    BY <2>1, PathFrom, PathStart
  <2>3. Last(n) = 0
    BY <2>1, <2>2, LastFacts
  <2>4. Hole(n) = n - 1
    BY <2>1, <2>3 DEF Hole, Left
  <2> QED BY <2>1, <2>3, <2>4 DEF From
<1> QED BY <1>1, <1>2

-----------------------------------------------------------------------------
(* What a step does to the queue                                           *)

What == {"sp", "press", "release", "other"}

LEMMA PushFacts ==
    ASSUME TypeOK, NEW what \in What, NEW sp \in Nat, Push(what, sp)
    PROVE  /\ heap' \in Seq(Request) /\ Len(heap') = Len(heap) + 1
           /\ \A i \in 1..Len(heap) : heap'[i] = heap[i]
           /\ heap'[Len(heap) + 1].no = made + 1
           /\ heap'[Len(heap) + 1].what = what
           /\ heap'[Len(heap) + 1].sp = sp
           /\ made' = made + 1 /\ expired' = expired
<1> DEFINE r == [no |-> made + 1, what |-> what, sp |-> sp]
<1>1. r \in Request /\ heap \in Seq(Request) /\ heap' = Append(heap, r)
  BY DEF TypeOK, Request, What, Push
<1>2. /\ heap' \in Seq(Request) /\ Len(heap') = Len(heap) + 1
      /\ \A i \in 1..Len(heap) : heap'[i] = heap[i]
      /\ heap'[Len(heap) + 1] = r
  <2> HIDE DEF r
  <2> QED BY <1>1
<1> QED BY <1>2 DEF Push

(* The heap after a pop, as the requests that were behind the top.         *)
LEMMA PopFacts ==
    ASSUME TypeOK, heap # << >>, Pop
    PROVE  /\ Top \in Request /\ Len(heap) \in Nat \ {0}
           /\ heap' \in Seq(Request) /\ Len(heap') = Len(heap) - 1
           /\ made' = made /\ expired' = expired
           /\ \E f \in [1..Len(heap') -> 2..Len(heap)] :
                /\ \A i \in 1..Len(heap') : heap'[i] = heap[f[i]]
                /\ \A i, j \in 1..Len(heap') : f[i] = f[j] => i = j
                /\ \A k \in 2..Len(heap) : \E i \in 1..Len(heap') : f[i] = k
           /\ Len(heap) < 4 => \A i \in 1..Len(heap') : heap'[i] = heap[i + 1]
<1>1. heap \in Seq(Request) /\ heap' = Popped /\ made' = made /\ expired' = expired
  BY DEF TypeOK, Pop
<1>2. Len(heap) \in Nat \ {0} /\ Top \in Request
  BY <1>1 DEF Top
<1> DEFINE n == Len(heap) - 1
<1>3. /\ heap' \in Seq(Request) /\ Len(heap') = n
      /\ \E f \in [1..n -> 2..(n + 1)] :
           /\ \A i \in 1..n : heap'[i] = heap[f[i]]
           /\ \A i, j \in 1..n : f[i] = f[j] => i = j
           /\ \A k \in 2..(n + 1) : \E i \in 1..n : f[i] = k
  BY <1>1, PopTakesTheTop
<1>4. n + 1 = Len(heap)
  BY <1>2
<1>5. Len(heap) < 4 => \A i \in 1..n : heap'[i] = heap[i + 1]
  BY <1>1, PopShort
<1>6. Len(heap') = Len(heap) - 1
  BY <1>3
<1> HIDE DEF n
<1>7. \E f \in [1..Len(heap') -> 2..Len(heap)] :
        /\ \A i \in 1..Len(heap') : heap'[i] = heap[f[i]]
        /\ \A i, j \in 1..Len(heap') : f[i] = f[j] => i = j
        /\ \A k \in 2..Len(heap) : \E i \in 1..Len(heap') : f[i] = k
  <2>1. n = Len(heap') /\ n + 1 = Len(heap)
    BY <1>3, <1>4
  <2> DEFINE OneToOne(a, b) ==
               \E f \in [1..a -> 2..b] :
                 /\ \A i \in 1..a : heap'[i] = heap[f[i]]
                 /\ \A i, j \in 1..a : f[i] = f[j] => i = j
                 /\ \A k \in 2..b : \E i \in 1..a : f[i] = k
  <2>2. OneToOne(n, n + 1)
    BY <1>3
  <2> HIDE DEF OneToOne
  <2>3. OneToOne(Len(heap'), Len(heap))
    BY <2>1, <2>2
  <2> QED BY <2>3 DEF OneToOne
<1>8. Len(heap) < 4 => \A i \in 1..Len(heap') : heap'[i] = heap[i + 1]
  BY <1>3, <1>5
<1> QED BY <1>1, <1>2, <1>3, <1>6, <1>7, <1>8

LEMMA ApplyFacts ==
    ASSUME NEW r \in Request, NEW mine, Apply(r, mine)
    PROVE  /\ r.what = "sp"    => regSP' = r.sp
           /\ r.what # "sp"    => regSP' = regSP
           /\ r.what = "press" => regOK' = 1 /\ confirms' = r.sp /\ orphan' = ~mine
           /\ r.what = "release" => regOK' = 0 /\ confirms' = confirms /\ orphan' = FALSE
           /\ r.what \in {"sp", "other"} =>
                 regOK' = regOK /\ confirms' = confirms /\ orphan' = orphan
BY DEF Apply

-----------------------------------------------------------------------------
(* Types                                                                   *)

LEMMA ApplyTyped ==
    ASSUME TypeOK, NEW r \in Request, Apply(r, TRUE) \/ Apply(r, button # "none")
    PROVE  regSP' \in Nat /\ regOK' \in {0, 1} /\ confirms' \in Nat /\ orphan' \in BOOLEAN
<1>1. r.sp \in Nat /\ r.what \in What
  BY DEF Request, What
<1>2. CASE r.what = "press"
  BY <1>1, <1>2 DEF Apply, TypeOK
<1>3. CASE r.what = "release"
  BY <1>1, <1>3 DEF Apply, TypeOK
<1>4. CASE r.what \in {"sp", "other"}
  BY <1>1, <1>4 DEF Apply, TypeOK
<1> QED BY <1>1, <1>2, <1>3, <1>4 DEF What

LEMMA SuccessTyped ==
    ASSUME TypeOK, NEW what \in What, Success(what) \/ TimeOut(what)
    PROVE  button' \in {"none", "press", "clean"} /\ owed' \in BOOLEAN
<1>1. CASE what = "press"
  BY <1>1 DEF Success, TimeOut, TypeOK
<1>2. CASE what = "release"
  BY <1>2 DEF Success, TimeOut, TypeOK
<1>3. CASE what \in {"sp", "other"}
  BY <1>3 DEF Success, TimeOut, TypeOK, tables
<1> QED BY <1>1, <1>2, <1>3 DEF What

LEMMA TypeStep ==
    ASSUME TypeOK, [Next]_vars
    PROVE  TypeOK'
<1>0. ASSUME UNCHANGED vars PROVE TypeOK'
  BY <1>0 DEF vars, queue, tables, operator, regs, TypeOK
<1>1. ASSUME Next PROVE crowded' \in BOOLEAN /\ upset' \in BOOLEAN
  BY <1>1 DEF Next, Witness
<1>2. CASE Next /\ SendSP
  <2>1. Push("sp", sent + 1) /\ sent + 1 \in Nat
    BY <1>2 DEF SendSP, TypeOK
  <2>2. heap' \in Seq(Request) /\ made' \in Nat /\ expired' \in Nat
    BY <2>1, PushFacts DEF What, TypeOK
  <2> QED BY <1>1, <1>2, <2>1, <2>2 DEF SendSP, TypeOK, tables, regs
<1>3. CASE Next /\ Confirm
  <2>1. CASE button = "none"
    <3>1. Push("press", sent) /\ button' = "press"
      BY <1>3, <2>1 DEF Confirm
    <3>2. heap' \in Seq(Request) /\ made' \in Nat /\ expired' \in Nat
      BY <3>1, PushFacts DEF What, TypeOK
    <3> QED BY <1>1, <1>3, <3>1, <3>2 DEF Confirm, TypeOK, regs
  <2>2. CASE button # "none"
    BY <1>1, <1>3, <2>2 DEF Confirm, TypeOK, queue, regs
  <2> QED BY <2>1, <2>2
<1>4. CASE Next /\ (Other \/ Release)
  <2>1. Push("other", 0) \/ Push("release", 0)
    BY <1>4 DEF Other, Release
  <2>2. heap' \in Seq(Request) /\ made' \in Nat /\ expired' \in Nat
    BY <2>1, PushFacts DEF What, TypeOK
  <2>3. owed' \in BOOLEAN
    BY <1>4 DEF Other, Release, tables, TypeOK
  <2> QED BY <1>1, <1>4, <2>2, <2>3 DEF Other, Release, TypeOK, operator, tables, regs
<1>5. CASE Next /\ Write
  <2>1. heap # << >> /\ Pop /\ Apply(Top, TRUE) /\ Success(Top.what)
    BY <1>5 DEF Write, Writable
  <2>2. heap' \in Seq(Request) /\ made' \in Nat /\ expired' \in Nat /\ Top \in Request
    BY <2>1, PopFacts DEF TypeOK
  <2>3. regSP' \in Nat /\ regOK' \in {0, 1} /\ confirms' \in Nat /\ orphan' \in BOOLEAN
    BY <2>1, <2>2, ApplyTyped
  <2>4. button' \in {"none", "press", "clean"} /\ owed' \in BOOLEAN
    BY <2>1, <2>2, SuccessTyped DEF Request, What
  <2> QED BY <1>1, <1>5, <2>2, <2>3, <2>4 DEF Write, TypeOK, operator
<1>6. CASE Next /\ WriteFails
  <2>1. Top \in Request
    BY <1>6 DEF WriteFails, Writable, Top, TypeOK
  <2>2. late' \subseteq Request
    BY <1>6, <2>1 DEF WriteFails, TypeOK
  <2>3. regSP' \in Nat /\ regOK' \in {0, 1} /\ confirms' \in Nat /\ orphan' \in BOOLEAN
    <3>1. CASE Apply(Top, TRUE)
      BY <2>1, <3>1, ApplyTyped
    <3>2. CASE UNCHANGED regs
      BY <3>2 DEF regs, TypeOK
    <3> QED BY <1>6, <3>1, <3>2 DEF WriteFails
  <2> QED BY <1>1, <1>6, <2>2, <2>3 DEF WriteFails, TypeOK, queue, tables, operator
<1>7. ASSUME Next, NEW r \in late, LateWrite(r) PROVE TypeOK'
  <2>1. r \in Request /\ Apply(r, button # "none") /\ late' \subseteq Request
    BY <1>7 DEF LateWrite, TypeOK
  <2>2. regSP' \in Nat /\ regOK' \in {0, 1} /\ confirms' \in Nat /\ orphan' \in BOOLEAN
    BY <2>1, ApplyTyped
  <2> QED BY <1>1, <1>7, <2>1, <2>2 DEF LateWrite, TypeOK, queue, tables, operator
<1>8. CASE Next /\ Expire
  <2>1. expired' \in Nat
    BY <1>8 DEF Expire, TypeOK
  <2> QED BY <1>1, <1>8, <2>1 DEF Expire, TypeOK, tables, operator, regs
<1>9. CASE Next /\ Clean
  <2>1. heap # << >> /\ Pop /\ TimeOut(Top.what)
    BY <1>9 DEF Clean
  <2>2. heap' \in Seq(Request) /\ made' \in Nat /\ expired' \in Nat /\ Top \in Request
    BY <2>1, PopFacts DEF TypeOK
  <2>3. button' \in {"none", "press", "clean"} /\ owed' \in BOOLEAN
    BY <2>1, <2>2, SuccessTyped DEF Request, What
  <2>4. orphan' \in BOOLEAN
    BY <1>9 DEF Clean
  <2> QED BY <1>1, <1>9, <2>2, <2>3, <2>4 DEF Clean, TypeOK, operator
<1>10. CASE Next /\ Restart
  <2>1. /\ heap' \in Seq(Request) /\ restarts' \in Nat /\ button' = "none"
        /\ owed' \in BOOLEAN /\ panel' \in BOOLEAN /\ orphan' \in BOOLEAN
    <3>1. restarts' = restarts + 1 /\ restarts \in Nat /\ heap' = << >>
      BY <1>10 DEF Restart, TypeOK
    <3>2. owed' \in BOOLEAN /\ panel' \in BOOLEAN /\ orphan' \in BOOLEAN /\ button' = "none"
      BY <1>10 DEF Restart
    <3> QED BY <3>1, <3>2
  <2> QED BY <1>1, <1>10, <2>1 DEF Restart, TypeOK
<1> QED
  BY <1>0, <1>2, <1>3, <1>4, <1>5, <1>6, <1>7, <1>8, <1>9, <1>10 DEF Next

-----------------------------------------------------------------------------
(* Numbers and set points that were given out                              *)

LEMMA GivenOutStep ==
    ASSUME TypeOK, GivenOut, [Next]_vars
    PROVE  GivenOut'
<1> USE DEF GivenOut
<1>0. /\ made \in Nat /\ sent \in Nat /\ regSP \in Nat /\ Len(heap) \in Nat /\ 0 <= sent
      /\ \A i \in 1..Len(heap) : heap[i] \in Request /\ heap[i].no \in Nat /\ heap[i].sp \in Nat
      /\ \A r \in late : r \in Request /\ r.sp \in Nat
  <2>1. \A r \in Request : r.no \in Nat /\ r.sp \in Nat
    BY DEF Request
  <2>2. \A i \in 1..Len(heap) : heap[i] \in Request
    BY DEF TypeOK
  <2> QED BY <2>1, <2>2 DEF TypeOK
<1>1. ASSUME NEW what \in What, NEW sp \in Nat, Push(what, sp), sp <= sent', sent' \in Nat, sent <= sent',
             UNCHANGED <<late, regSP>>
      PROVE  GivenOut'
  <2>1. /\ Len(heap') = Len(heap) + 1 /\ made' = made + 1
        /\ \A i \in 1..Len(heap) : heap'[i] = heap[i]
        /\ heap'[Len(heap) + 1].no = made + 1 /\ heap'[Len(heap) + 1].sp = sp
    BY <1>1, PushFacts
  <2>2. ASSUME NEW i \in 1..Len(heap') PROVE heap'[i].no <= made' /\ heap'[i].sp <= sent'
    <3>1. CASE i = Len(heap) + 1
      BY <1>0, <1>1, <2>1, <3>1
    <3>2. CASE i # Len(heap) + 1
      <4>1. i \in 1..Len(heap)
        BY <1>0, <2>1, <3>2
      <4> QED BY <1>0, <1>1, <2>1, <4>1
    <3> QED BY <3>1, <3>2
  <2> QED BY <1>0, <1>1, <2>2
<1>2. ASSUME heap # << >>, Pop, UNCHANGED sent
      PROVE  /\ \A i \in 1..Len(heap') : heap'[i].no <= made' /\ heap'[i].sp <= sent'
             /\ Top \in Request /\ Top.sp <= sent
  <2>1. /\ made' = made /\ Len(heap) \in Nat \ {0} /\ Top \in Request
        /\ \E f \in [1..Len(heap') -> 2..Len(heap)] : \A i \in 1..Len(heap') : heap'[i] = heap[f[i]]
    BY <1>2, PopFacts
  <2>2. PICK f \in [1..Len(heap') -> 2..Len(heap)] : \A i \in 1..Len(heap') : heap'[i] = heap[f[i]]
    BY <2>1
  <2>3. \A i \in 1..Len(heap') : f[i] \in 1..Len(heap)
    BY <2>1
  <2> QED BY <1>2, <2>1, <2>2, <2>3 DEF Top
<1>3. ASSUME heap # << >>, Apply(Top, TRUE) PROVE regSP' <= sent
  <2>1. Top \in Request /\ Top.sp <= sent
    BY <1>0, <1>3 DEF Top, TypeOK
  <2> QED BY <1>0, <2>1, <1>3, ApplyFacts
<1>4. CASE SendSP
  BY <1>0, <1>1, <1>4 DEF SendSP, What, regs
<1>5. CASE Confirm
  BY <1>0, <1>1, <1>5 DEF Confirm, What, regs, queue
<1>6. CASE Other \/ Release
  BY <1>0, <1>1, <1>6 DEF Other, Release, What, regs, operator
<1>7. CASE Write
  BY <1>0, <1>2, <1>3, <1>7 DEF Write, Writable, operator
<1>8. CASE WriteFails
  <2>1. Top \in Request /\ Top.sp <= sent /\ heap # << >>
    BY <1>0, <1>8 DEF WriteFails, Writable, Top, TypeOK
  <2>2. regSP' <= sent
    BY <1>0, <1>3, <1>8, <2>1 DEF WriteFails, regs
  <2> QED BY <1>8, <2>1, <2>2 DEF WriteFails, queue, operator
<1>9. ASSUME NEW r \in late, LateWrite(r) PROVE GivenOut'
  <2>1. regSP' <= sent
    BY <1>0, <1>9, ApplyFacts DEF LateWrite
  <2> QED BY <1>9, <2>1 DEF LateWrite, queue, operator
<1>10. CASE Expire
  BY <1>10 DEF Expire, operator, regs
<1>11. CASE Clean
  BY <1>0, <1>2, <1>11 DEF Clean, operator
<1>12. CASE Restart
  BY <1>12 DEF Restart
<1>13. CASE UNCHANGED vars
  BY <1>13 DEF vars, queue, operator, regs
<1> QED
  BY <1>4, <1>5, <1>6, <1>7, <1>8, <1>9, <1>10, <1>11, <1>12, <1>13 DEF Next

-----------------------------------------------------------------------------
(* What the tables of the button owe                                       *)

LEMMA PushPending ==
    ASSUME TypeOK, Debts, NEW what \in What, NEW sp \in Nat, Push(what, sp)
    PROVE  /\ \A w \in What : Pending(w)' <=> Pending(w) \/ w = what
           /\ (what \in {"press", "release"} /\ ~Pending(what)) \/ what \in {"sp", "other"} =>
                \A i, j \in 1..Len(heap') :
                  heap'[i].what \in {"press", "release"} /\ heap'[j].what = heap'[i].what => i = j
<1>1. /\ Len(heap') = Len(heap) + 1 /\ Len(heap) \in Nat
      /\ \A i \in 1..Len(heap) : heap'[i] = heap[i]
      /\ heap'[Len(heap) + 1].what = what
  BY PushFacts DEF TypeOK
<1>2. /\ \A i \in 1..Len(heap) : i \in 1..Len(heap') /\ i # Len(heap')
      /\ \A i \in 1..Len(heap') : i \in 1..Len(heap) \/ i = Len(heap')
      /\ Len(heap') \in 1..Len(heap')
      /\ heap'[Len(heap')].what = what
  BY <1>1
<1>3. ASSUME NEW w \in What PROVE Pending(w)' <=> Pending(w) \/ w = what
  BY <1>1, <1>2 DEF Pending
<1>4. ASSUME (what \in {"press", "release"} /\ ~Pending(what)) \/ what \in {"sp", "other"},
             NEW i \in 1..Len(heap'), NEW j \in 1..Len(heap'),
             heap'[i].what \in {"press", "release"}, heap'[j].what = heap'[i].what
      PROVE  i = j
  BY <1>1, <1>2, <1>4 DEF Pending, Debts
<1> QED BY <1>3, <1>4

LEMMA PopPending ==
    ASSUME TypeOK, Debts, heap # << >>, Pop
    PROVE  /\ Top.what \in What
           /\ \A w \in What : w # Top.what => (Pending(w)' <=> Pending(w))
           /\ Pending(Top.what)
           /\ \A w \in {"press", "release"} : w = Top.what => ~Pending(w)'
           /\ \A i, j \in 1..Len(heap') :
                heap'[i].what \in {"press", "release"} /\ heap'[j].what = heap'[i].what => i = j
<1>1. /\ Top \in Request /\ Len(heap) \in Nat \ {0}
      /\ \E f \in [1..Len(heap') -> 2..Len(heap)] :
           /\ \A i \in 1..Len(heap') : heap'[i] = heap[f[i]]
           /\ \A i, j \in 1..Len(heap') : f[i] = f[j] => i = j
           /\ \A k \in 2..Len(heap) : \E i \in 1..Len(heap') : f[i] = k
  BY PopFacts
<1>2. PICK f \in [1..Len(heap') -> 2..Len(heap)] :
           /\ \A i \in 1..Len(heap') : heap'[i] = heap[f[i]]
           /\ \A i, j \in 1..Len(heap') : f[i] = f[j] => i = j
           /\ \A k \in 2..Len(heap) : \E i \in 1..Len(heap') : f[i] = k
  BY <1>1
<1>3. /\ 1 \in 1..Len(heap) /\ Top = heap[1]
      /\ \A k \in 2..Len(heap) : k \in 1..Len(heap) /\ k # 1
      /\ \A k \in 1..Len(heap) : k = 1 \/ k \in 2..Len(heap)
      /\ \A i \in 1..Len(heap') : f[i] \in 2..Len(heap)
  BY <1>1 DEF Top
<1>4. Top.what \in What /\ Pending(Top.what)
  BY <1>1, <1>3 DEF Request, What, Pending
<1>5. ASSUME NEW w \in What, w # Top.what PROVE Pending(w)' <=> Pending(w)
  <2>1. ASSUME Pending(w)' PROVE Pending(w)
    BY <1>2, <1>3, <2>1 DEF Pending
  <2>2. ASSUME Pending(w) PROVE Pending(w)'
    <3>1. PICK k \in 1..Len(heap) : heap[k].what = w
      BY <2>2 DEF Pending
    <3>2. k \in 2..Len(heap)
      BY <1>3, <1>5, <3>1
    <3>3. PICK i \in 1..Len(heap') : f[i] = k
      BY <1>2, <3>2
    <3> QED BY <1>2, <3>1, <3>3 DEF Pending
  <2> QED BY <2>1, <2>2
<1>6. ASSUME NEW w \in {"press", "release"}, w = Top.what PROVE ~Pending(w)'
  <2>1. ASSUME NEW i \in 1..Len(heap') PROVE heap'[i].what # w
    BY <1>2, <1>3, <1>6 DEF Debts
  <2> QED BY <2>1 DEF Pending
<1>7. ASSUME NEW i \in 1..Len(heap'), NEW j \in 1..Len(heap'),
             heap'[i].what \in {"press", "release"}, heap'[j].what = heap'[i].what
      PROVE  i = j
  <2>1. f[i] \in 1..Len(heap) /\ f[j] \in 1..Len(heap)
    BY <1>3
  <2>2. heap[f[i]].what \in {"press", "release"} /\ heap[f[j]].what = heap[f[i]].what
    BY <1>2, <1>7
  <2>3. f[i] = f[j]
    BY <2>1, <2>2 DEF Debts
  <2> QED BY <1>2, <2>3
<1> QED BY <1>4, <1>5, <1>6, <1>7

LEMMA DebtsStep ==
    ASSUME TypeOK, Debts, [Next]_vars
    PROVE  Debts'
<1> DEFINE Once == \A i, j \in 1..Len(heap) :
                     heap[i].what \in {"press", "release"} /\ heap[j].what = heap[i].what => i = j
(* A step that leaves the heap and the tables alone.                       *)
<1>1. ASSUME UNCHANGED <<heap, button, owed>> PROVE Debts'
  BY <1>1 DEF Debts, Pending
<1>2. ASSUME NEW what \in {"sp", "other"}, NEW sp \in Nat, Push(what, sp),
             UNCHANGED <<button, owed>>
      PROVE  Debts'
  <2>1. (Pending("press")' <=> Pending("press")) /\ (Pending("release")' <=> Pending("release"))
    BY <1>2, PushPending DEF What
  <2>2. Once'
    BY <1>2, PushPending DEF What
  <2> QED BY <1>2, <2>1, <2>2 DEF Debts
<1>3. CASE SendSP
  BY <1>2, <1>3 DEF SendSP, tables, TypeOK
<1>4. CASE Confirm
  <2>1. CASE button # "none"
    BY <1>1, <1>4, <2>1 DEF Confirm, queue
  <2>2. CASE button = "none"
    <3>1. Push("press", sent) /\ button' = "press" /\ owed' = owed /\ sent \in Nat
      BY <1>4, <2>2 DEF Confirm, TypeOK
    <3>2. ~Pending("press") /\ ~Pending("release") /\ ~owed
      BY <2>2 DEF Debts
    <3>3. Pending("press")' /\ ~Pending("release")'
      BY <3>1, <3>2, PushPending DEF What
    <3>4. Once'
      BY <3>1, <3>2, PushPending DEF What
    <3> QED BY <3>1, <3>2, <3>3, <3>4 DEF Debts
  <2> QED BY <2>1, <2>2
<1>5. CASE Other
  BY <1>2, <1>5 DEF Other, tables
<1>6. CASE Release
  <2>1. owed /\ ~owed' /\ Push("release", 0) /\ button' = button
    BY <1>6 DEF Release
  <2>2. button = "clean" /\ ~Pending("press") /\ ~Pending("release")
    BY <2>1 DEF Debts
  <2>3. ~Pending("press")' /\ Pending("release")'
    BY <2>1, <2>2, PushPending DEF What
  <2>4. Once'
    BY <2>1, <2>2, PushPending DEF What
  <2> QED BY <2>1, <2>2, <2>3, <2>4 DEF Debts
<1>7. CASE Write \/ Clean
  <2>1. heap # << >> /\ Pop /\ (Success(Top.what) \/ TimeOut(Top.what))
    BY <1>7 DEF Write, Writable, Clean
  <2>2. Once' /\ Top.what \in What
    BY <2>1, PopPending
  <2>3. CASE Top.what = "press"
    <3>1. Pending("press") /\ ~Pending("press")' /\ (Pending("release")' <=> Pending("release"))
      BY <2>1, <2>3, PopPending DEF What
    <3>2. button = "press" /\ ~owed /\ ~Pending("release")
      BY <3>1 DEF Debts
    <3>3. (button' = "clean" /\ owed') \/ (button' = "none" /\ owed' = owed)
      BY <2>1, <2>3 DEF Success, TimeOut
    <3> QED BY <2>2, <3>1, <3>2, <3>3 DEF Debts
  <2>4. CASE Top.what = "release"
    <3>1. Pending("release") /\ ~Pending("release")' /\ (Pending("press")' <=> Pending("press"))
      BY <2>1, <2>4, PopPending DEF What
    <3>2. button = "clean" /\ ~owed /\ ~Pending("press")
      BY <3>1 DEF Debts
    <3>3. (button' = "none" /\ owed' = owed) \/ (button' = button /\ owed')
      BY <2>1, <2>4 DEF Success, TimeOut
    <3> QED BY <2>2, <3>1, <3>2, <3>3 DEF Debts
  <2>5. CASE Top.what \in {"sp", "other"}
    <3>1. (Pending("release")' <=> Pending("release")) /\ (Pending("press")' <=> Pending("press"))
      BY <2>1, <2>5, PopPending DEF What
    <3>2. UNCHANGED <<button, owed>>
      BY <2>1, <2>5 DEF Success, TimeOut, tables
    <3> QED BY <2>2, <3>1, <3>2 DEF Debts
  <2> QED BY <2>2, <2>3, <2>4, <2>5 DEF What
<1>8. CASE Restart
  <2>1. heap' = << >> /\ button' = "none" /\ owed' = FALSE
    BY <1>8 DEF Restart
  <2>2. ~Pending("press")' /\ ~Pending("release")' /\ Once'
    BY <2>1 DEF Pending
  <2> QED BY <2>1, <2>2 DEF Debts
<1>9. CASE WriteFails \/ Expire \/ UNCHANGED vars \/ \E r \in late : LateWrite(r)
  BY <1>1, <1>9 DEF WriteFails, Expire, LateWrite, vars, queue, tables
<1> QED
  BY <1>3, <1>4, <1>5, <1>6, <1>7, <1>8, <1>9 DEF Next

(* A press that takes effect has its tables filled, or is known to have    *)
(* nobody who takes it back.                                               *)
LEMMA PressedStep ==
    ASSUME TypeOK, Debts, PressedIsOwed, [Next]_vars
    PROVE  PressedIsOwed'
<1>1. ASSUME UNCHANGED regs, button' # "none" \/ button' = button PROVE PressedIsOwed'
  BY <1>1 DEF PressedIsOwed, regs
<1>2. ASSUME NEW r \in Request, NEW mine \in BOOLEAN, Apply(r, mine),
             r.what = "press" /\ mine => button' # "none",
             r.what \in {"sp", "other"} => button' = button
      PROVE  PressedIsOwed'
  <2>1. r.what \in {"sp", "press", "release", "other"}
    BY DEF Request
  <2>2. CASE r.what = "press"
    BY <1>2, <2>2, ApplyFacts DEF PressedIsOwed
  <2>3. CASE r.what = "release"
    BY <1>2, <2>3, ApplyFacts DEF PressedIsOwed
  <2>4. CASE r.what \in {"sp", "other"}
    BY <1>2, <2>4, ApplyFacts DEF PressedIsOwed
  <2> QED BY <2>1, <2>2, <2>3, <2>4
<1>3. ASSUME heap # << >> PROVE Top \in Request /\ (Top.what = "press" => button = "press")
  <2>1. heap[1] \in Request /\ 1 \in 1..Len(heap)
    BY <1>3 DEF TypeOK
  <2> QED BY <2>1 DEF Top, Debts, Pending
<1>4. CASE SendSP \/ Confirm \/ Other \/ Release \/ Expire \/ UNCHANGED vars
  BY <1>1, <1>4 DEF SendSP, Confirm, Other, Release, Expire, vars, tables
<1>5. CASE Write
  <2>1. Top \in Request /\ Apply(Top, TRUE) /\ Success(Top.what)
    BY <1>3, <1>5 DEF Write, Writable
  <2> QED BY <1>2, <2>1 DEF Success, tables
<1>6. CASE WriteFails
  <2>1. Top \in Request /\ (Top.what = "press" => button = "press") /\ button' = button
    BY <1>3, <1>6 DEF WriteFails, Writable, tables
  <2> QED BY <1>1, <1>2, <1>6, <2>1 DEF WriteFails
<1>7. ASSUME NEW r \in late, LateWrite(r) PROVE PressedIsOwed'
  BY <1>2, <1>7 DEF LateWrite, TypeOK, tables
<1>8. CASE Clean
  <2>1. Top \in Request /\ (Top.what = "press" => button = "press") /\ TimeOut(Top.what)
    BY <1>3, <1>8 DEF Clean
  <2>2. regOK' = regOK /\ orphan' = (orphan \/ (Top.what = "press" /\ regOK = 1))
    BY <1>8 DEF Clean
  <2>3. CASE Top.what = "press"
    BY <2>2, <2>3 DEF PressedIsOwed
  <2>4. CASE Top.what = "release"
    <3>1. Pending("release") /\ button' = button
      BY <1>8, <2>1, <2>4, PopPending DEF Clean, TimeOut
    <3> QED BY <2>2, <3>1 DEF PressedIsOwed
  <2>5. CASE Top.what \in {"sp", "other"}
    BY <2>1, <2>2, <2>5 DEF PressedIsOwed, TimeOut, tables
  <2> QED BY <2>1, <2>3, <2>4, <2>5 DEF Request
<1>9. CASE Restart
  BY <1>9 DEF Restart, PressedIsOwed
<1> QED
  BY <1>4, <1>5, <1>6, <1>7, <1>8, <1>9 DEF Next

-----------------------------------------------------------------------------
(* The order of the requests                                               *)

LEMMA HeapStep ==
    ASSUME TypeOK, Next
    PROVE  \/ heap' = heap
           \/ \E what \in What, sp \in Nat : Push(what, sp)
           \/ heap # << >> /\ Pop
           \/ heap' = << >>
<1>1. CASE SendSP
  BY <1>1 DEF SendSP, What, TypeOK
<1>2. CASE Confirm
  BY <1>2 DEF Confirm, What, TypeOK, queue
<1>3. CASE Other \/ Release
  BY <1>3 DEF Other, Release, What
<1>4. CASE Write \/ Clean
  BY <1>4 DEF Write, Writable, Clean
<1>5. CASE WriteFails \/ Expire \/ Restart \/ \E r \in late : LateWrite(r)
  BY <1>5 DEF WriteFails, Expire, Restart, LateWrite, queue
<1> QED BY <1>1, <1>2, <1>3, <1>4, <1>5 DEF Next

LEMMA SortedStep ==
    ASSUME TypeOK, GivenOut, Sorted, [Next]_vars
    PROVE  Sorted'
<1>1. CASE UNCHANGED vars
  BY <1>1 DEF vars, queue, Sorted, InOrder
<1>2. SUFFICES ASSUME Next, ~crowded'
               PROVE  /\ \A i, j \in 1..Len(heap') : i < j => heap'[i].no < heap'[j].no
                      /\ Len(heap') < 4
  BY <1>1 DEF Sorted, InOrder
<1>3. heap' \in Seq(Request) /\ Len(heap') \in Nat
  BY TypeStep DEF TypeOK
<1>4. heap' = << >> \/ (~crowded /\ Len(heap') < 4)
  <2>1. crowded' = (heap' # << >> /\ (crowded \/ Len(heap') >= 4))
    BY <1>2 DEF Next, Witness
  <2>2. heap' = << >> \/ (~crowded /\ ~(Len(heap') >= 4))
    BY <1>2, <2>1
  <2> QED BY <1>3, <2>2
<1>5. CASE heap' = << >>
  BY <1>5
<1>6. CASE heap' # << >>
  <2>1. /\ Len(heap') < 4 /\ Len(heap) < 4 /\ Len(heap) \in Nat
        /\ \A i, j \in 1..Len(heap) : i < j => heap[i].no < heap[j].no
    BY <1>4, <1>6 DEF Sorted, InOrder, TypeOK
  <2>2. CASE heap' = heap
    BY <2>1, <2>2
  <2>3. ASSUME NEW what \in What, NEW sp \in Nat, Push(what, sp),
               NEW i \in 1..Len(heap'), NEW j \in 1..Len(heap'), i < j
        PROVE  heap'[i].no < heap'[j].no
    <3>1. /\ Len(heap') = Len(heap) + 1 /\ made \in Nat
          /\ \A k \in 1..Len(heap) : heap'[k] = heap[k]
          /\ heap'[Len(heap) + 1].no = made + 1
      BY <2>3, PushFacts DEF TypeOK
    <3>2. i \in 1..Len(heap) /\ heap[i] \in Request /\ heap[i].no <= made
      BY <2>1, <2>3, <3>1 DEF GivenOut, TypeOK
    <3>3. CASE j = Len(heap) + 1
      BY <3>1, <3>2, <3>3 DEF Request
    <3>4. CASE j # Len(heap) + 1
      <4>1. j \in 1..Len(heap)
        BY <2>1, <3>1, <3>4
      <4> QED BY <2>1, <2>3, <3>1, <3>2, <4>1
    <3> QED BY <3>3, <3>4
  <2>4. CASE heap # << >> /\ Pop
    <3>1. /\ Len(heap') = Len(heap) - 1
          /\ \A i \in 1..Len(heap') : heap'[i] = heap[i + 1]
      BY <2>1, <2>4, PopFacts
    <3>2. \A i \in 1..Len(heap') : i \in Nat /\ i + 1 \in 1..Len(heap)
      BY <2>1, <3>1
    <3>3. \A i, j \in 1..Len(heap') : i < j => i + 1 < j + 1
      OBVIOUS
    <3> QED BY <2>1, <3>1, <3>2, <3>3
  <2> QED BY <1>2, <1>6, <2>1, <2>2, <2>3, <2>4, HeapStep
<1> QED BY <1>5, <1>6

-----------------------------------------------------------------------------
(* A confirmation and its set point                                        *)

(* What Paired says of the heap.                                           *)
SetPointsAscend ==
    \A i, j \in 1..Len(heap) :
        i < j /\ heap[i].what = "sp" /\ heap[j].what = "sp" => heap[i].sp <= heap[j].sp
PressesFollow ==
    \A i \in 1..Len(heap) :
        /\ heap[i].what = "sp" => regSP <= heap[i].sp
        /\ heap[i].what = "press" => regSP >= heap[i].sp \/ Ahead(heap, heap[i].sp, i)

LEMMA HeapTyped ==
    ASSUME TypeOK
    PROVE  /\ Len(heap) \in Nat /\ sent \in Nat /\ regSP \in Nat /\ confirms \in Nat
           /\ \A i \in 1..Len(heap) :
                 heap[i] \in Request /\ heap[i].sp \in Nat /\ heap[i].what \in What
<1>1. \A i \in 1..Len(heap) : heap[i] \in Request
  BY DEF TypeOK
<1> QED BY <1>1 DEF TypeOK, Request, What

(* A new request leaves the pairs that are there, and brings its own.      *)
LEMMA PushPairs ==
    ASSUME TypeOK, GivenOut, Paired, NEW what \in What, NEW sp \in Nat, Push(what, sp),
           UNCHANGED regSP,
           what = "sp" => sp >= sent,
           what = "press" => regSP >= sp \/ Ahead(heap, sp, Len(heap) + 1)
    PROVE  /\ SetPointsAscend' /\ PressesFollow'
           /\ \A n \in Nat : Ahead(heap, n, Len(heap) + 1) => Ahead(heap', n, Len(heap') + 1)
           /\ what = "sp" => Ahead(heap', sp, Len(heap') + 1)
<1> DEFINE n == Len(heap)
<1>1. /\ Len(heap') = n + 1 /\ n \in Nat
      /\ \A i \in 1..n : heap'[i] = heap[i]
      /\ heap'[n + 1].what = what /\ heap'[n + 1].sp = sp
  BY PushFacts DEF TypeOK
<1>2. /\ sent \in Nat /\ regSP \in Nat /\ regSP <= sent
      /\ \A i \in 1..n : heap[i].sp \in Nat /\ heap[i].sp <= sent
  BY HeapTyped DEF GivenOut
<1>3. \A i \in 1..Len(heap') : i \in 1..n \/ i = n + 1
  BY <1>1
<1>4. ASSUME NEW i \in 1..Len(heap'), NEW j \in 1..Len(heap'), i < j,
             heap'[i].what = "sp", heap'[j].what = "sp"
      PROVE  heap'[i].sp <= heap'[j].sp
  <2>1. i \in 1..n
    BY <1>1, <1>4
  <2>2. CASE j \in 1..n
    BY <1>1, <1>4, <2>1, <2>2 DEF Paired
  <2>3. CASE j = n + 1
    BY <1>1, <1>2, <1>4, <2>1, <2>3
  <2> QED BY <1>3, <2>2, <2>3
<1>5. ASSUME NEW m \in Nat, NEW j \in 1..(n + 1), Ahead(heap, m, j) PROVE Ahead(heap', m, j)
  <2>1. PICK i \in 1..(j - 1) : heap[i].what = "sp" /\ heap[i].sp >= m
    BY <1>5 DEF Ahead
  <2>2. i \in 1..n
    BY <1>1
  <2> QED BY <1>1, <2>1, <2>2 DEF Ahead
<1>6. ASSUME NEW i \in 1..Len(heap')
      PROVE  /\ heap'[i].what = "sp" => regSP' <= heap'[i].sp
             /\ heap'[i].what = "press" => regSP' >= heap'[i].sp \/ Ahead(heap', heap'[i].sp, i)
  <2>1. CASE i \in 1..n
    <3>1. heap'[i] = heap[i] /\ i \in 1..(n + 1)
      BY <1>1, <2>1
    <3> QED BY <1>2, <1>5, <2>1, <3>1 DEF Paired
  <2>2. CASE i = n + 1
    <3>1. what = "sp" => regSP <= sp
      BY <1>2
    <3>2. what = "press" => regSP >= sp \/ Ahead(heap', sp, i)
      BY <1>1, <1>5, <2>2
    <3> QED BY <1>1, <2>2, <3>1, <3>2
  <2> QED BY <1>3, <2>1, <2>2
<1>7. ASSUME NEW m \in Nat, Ahead(heap, m, n + 1) PROVE Ahead(heap', m, Len(heap') + 1)
  <2>1. PICK i \in 1..n : heap[i].what = "sp" /\ heap[i].sp >= m
    BY <1>1, <1>7 DEF Ahead
  <2>2. i \in 1..(Len(heap') + 1 - 1)
    BY <1>1
  <2> QED BY <1>1, <2>1, <2>2 DEF Ahead
<1>8. what = "sp" => Ahead(heap', sp, Len(heap') + 1)
  <2>1. n + 1 \in 1..(Len(heap') + 1 - 1)
    BY <1>1
  <2> QED BY <1>1, <2>1 DEF Ahead
<1>9. SetPointsAscend'
  BY <1>4 DEF SetPointsAscend
<1>10. PressesFollow'
  BY <1>6 DEF PressesFollow
<1> QED BY <1>7, <1>8, <1>9, <1>10

(* The top takes effect: the register only grows, and a press finds its    *)
(* set point there.                                                        *)
LEMMA ApplyPairs ==
    ASSUME TypeOK, Paired, heap # << >>, Apply(Top, TRUE)
    PROVE  /\ regSP' \in Nat /\ regSP' >= regSP
           /\ Top.what = "sp" => regSP' >= Top.sp
           /\ \A i \in 1..Len(heap) : heap[i].what = "sp" => regSP' <= heap[i].sp
           /\ regOK' = 1 => regSP' >= confirms'
<1>1. /\ Len(heap) \in Nat /\ 1 \in 1..Len(heap) /\ Top = heap[1]
      /\ Top \in Request /\ Top.sp \in Nat /\ Top.what \in What
      /\ regSP \in Nat /\ confirms \in Nat
      /\ \A i \in 1..Len(heap) : heap[i].sp \in Nat
  BY HeapTyped DEF Top, TypeOK
<1>2. CASE Top.what = "sp"
  <2>1. regSP' = Top.sp /\ regSP <= Top.sp /\ regOK' = regOK /\ confirms' = confirms
    BY <1>1, <1>2, ApplyFacts DEF Paired
  <2>2. \A i \in 1..Len(heap) : heap[i].what = "sp" => Top.sp <= heap[i].sp
    <3> TAKE i \in 1..Len(heap)
    <3>1. i = 1 \/ 1 < i
      BY <1>1
    <3> QED BY <1>1, <1>2, <3>1 DEF Paired
  <2>3. regOK = 1 => regSP >= confirms
    BY DEF Paired
  <2> QED BY <1>1, <2>1, <2>2, <2>3
<1>3. CASE Top.what = "press"
  <2>1. regSP' = regSP /\ confirms' = Top.sp
    BY <1>1, <1>3, ApplyFacts
  <2>2. regSP >= Top.sp \/ Ahead(heap, Top.sp, 1)
    BY <1>1, <1>3 DEF Paired
  <2>3. ~Ahead(heap, Top.sp, 1)
    BY DEF Ahead
  <2>4. \A i \in 1..Len(heap) : heap[i].what = "sp" => regSP <= heap[i].sp
    BY DEF Paired
  <2> QED BY <1>1, <1>3, <2>1, <2>2, <2>3, <2>4
<1>4. CASE Top.what \in {"release", "other"}
  <2>1. regSP' = regSP /\ confirms' = confirms /\ regOK' \in {0, regOK}
    BY <1>1, <1>4, ApplyFacts
  <2>2. /\ regOK = 1 => regSP >= confirms
        /\ \A i \in 1..Len(heap) : heap[i].what = "sp" => regSP <= heap[i].sp
    BY DEF Paired
  <2> QED BY <1>1, <1>4, <2>1, <2>2
<1> QED BY <1>1, <1>2, <1>3, <1>4 DEF What

(* The pop of a short heap keeps the pairs, when the register has what the *)
(* top was needed for.                                                     *)
LEMMA PopPairs ==
    ASSUME TypeOK, Paired, heap # << >>, Len(heap) < 4, Pop,
           regSP' \in Nat, regSP' >= regSP,
           Top.what = "sp" => regSP' >= Top.sp,
           \A i \in 1..Len(heap) : heap[i].what = "sp" /\ i # 1 => regSP' <= heap[i].sp
    PROVE  /\ SetPointsAscend' /\ PressesFollow'
           /\ \A n \in Nat : regSP >= n \/ Ahead(heap, n, Len(heap) + 1) =>
                              regSP' >= n \/ Ahead(heap', n, Len(heap') + 1)
<1>1. /\ Len(heap') = Len(heap) - 1 /\ Len(heap) \in Nat /\ Top = heap[1]
      /\ \A i \in 1..Len(heap') : heap'[i] = heap[i + 1]
      /\ \A i \in 1..Len(heap) : heap[i].sp \in Nat
      /\ regSP \in Nat
  BY PopFacts, HeapTyped DEF Top
<1>2. \A i \in 1..Len(heap') : i \in Nat /\ i + 1 \in 1..Len(heap) /\ i + 1 # 1
  BY <1>1
<1>3. ASSUME NEW n \in Nat, NEW j \in 1..(Len(heap') + 1),
             regSP >= n \/ Ahead(heap, n, j + 1)
      PROVE  regSP' >= n \/ Ahead(heap', n, j)
  <2>1. CASE regSP >= n
    BY <1>1, <2>1
  <2>2. ASSUME NEW i \in 1..j, heap[i].what = "sp", heap[i].sp >= n
        PROVE  regSP' >= n \/ Ahead(heap', n, j)
    <3>1. CASE i = 1
      <4>1. Top.sp \in Nat /\ regSP' >= Top.sp /\ Top.sp >= n
        BY <1>1, <1>2, <2>2, <3>1
      <4> QED BY <4>1
    <3>2. CASE i # 1
      <4> DEFINE k == i - 1
      <4>1. k \in 1..(j - 1) /\ k \in 1..Len(heap') /\ k + 1 = i
        BY <1>1, <3>2
      <4>2. heap'[k] = heap[i]
        BY <1>1, <4>1
      <4> HIDE DEF k
      <4> QED BY <2>2, <4>1, <4>2 DEF Ahead
    <3> QED BY <3>1, <3>2
  <2>3. ASSUME Ahead(heap, n, j + 1) PROVE \E i \in 1..j : heap[i].what = "sp" /\ heap[i].sp >= n
    <3>1. (j + 1) - 1 = j
      OBVIOUS
    <3> QED BY <2>3, <3>1 DEF Ahead
  <2> QED BY <1>3, <2>1, <2>2, <2>3
<1>4. ASSUME NEW i \in 1..Len(heap'), NEW j \in 1..Len(heap'), i < j,
             heap'[i].what = "sp", heap'[j].what = "sp"
      PROVE  heap'[i].sp <= heap'[j].sp
  <2>1. i + 1 < j + 1
    BY <1>2, <1>4
  <2> QED BY <1>1, <1>2, <1>4, <2>1 DEF Paired
<1>5. ASSUME NEW i \in 1..Len(heap')
      PROVE  /\ heap'[i].what = "sp" => regSP' <= heap'[i].sp
             /\ heap'[i].what = "press" => regSP' >= heap'[i].sp \/ Ahead(heap', heap'[i].sp, i)
  <2>1. heap'[i] = heap[i + 1] /\ i + 1 \in 1..Len(heap) /\ i + 1 # 1 /\ heap[i + 1].sp \in Nat
    BY <1>1, <1>2
  <2>2. heap[i + 1].what = "press" =>
          regSP >= heap[i + 1].sp \/ Ahead(heap, heap[i + 1].sp, i + 1)
    BY <2>1 DEF Paired
  <2>3. i \in 1..(Len(heap') + 1)
    BY <1>1
  <2>4. heap[i + 1].what = "press" =>
          regSP' >= heap[i + 1].sp \/ Ahead(heap', heap[i + 1].sp, i)
    BY <1>3, <2>1, <2>2, <2>3
  <2> QED BY <2>1, <2>4
<1>6. ASSUME NEW n \in Nat, regSP >= n \/ Ahead(heap, n, Len(heap) + 1)
      PROVE  regSP' >= n \/ Ahead(heap', n, Len(heap') + 1)
  <2> DEFINE j == Len(heap') + 1
  <2>1. j + 1 = Len(heap) + 1 /\ j \in 1..(Len(heap') + 1)
    <3>1. Len(heap) # 0
      BY <1>1, PopFacts
    <3> QED BY <1>1, <3>1
  <2>2. regSP >= n \/ Ahead(heap, n, j + 1)
    BY <1>6, <2>1
  <2> HIDE DEF j
  <2>3. regSP' >= n \/ Ahead(heap', n, j)
    BY <1>3, <2>1, <2>2
  <2> QED BY <2>3 DEF j
<1>7. SetPointsAscend'
  BY <1>4 DEF SetPointsAscend
<1>8. PressesFollow'
  BY <1>5 DEF PressesFollow
<1> QED BY <1>6, <1>7, <1>8

(* What it means that nothing upset the order in a step.                   *)
LEMMA NotUpset ==
    ASSUME TypeOK, Sorted, upset \/ Paired, Next, ~upset'
    PROVE  \/ heap' = << >> /\ ~panel' /\ regOK' = 0
           \/ /\ Paired /\ Len(heap) < 4 /\ late \ late' = {}
              /\ Len(heap') < Len(heap) => ~(Top.no <= expired) \/ Top.what # "sp"
              /\ ~crowded'
<1> DEFINE A == upset \/ Len(heap') >= 4
           B == Len(heap') < Len(heap) /\ Top.no <= expired /\ Top.what = "sp"
           C == \E r \in late \ late' : TRUE
<1>1. upset' = (~Quiet /\ (A \/ B \/ C))
  BY DEF Next, Witness
<1>2. crowded' = (heap' # << >> /\ (crowded \/ Len(heap') >= 4))
  BY DEF Next, Witness
<1>3. CASE Quiet
  BY <1>3 DEF Quiet
<1>4. CASE ~Quiet
  <2>1. ~A /\ ~B /\ ~C
    <3> HIDE DEF A, B, C
    <3> QED BY <1>1, <1>4
  <2>2. Paired /\ ~(Len(heap') >= 4)
    BY <2>1
  <2>3. ~crowded
    BY <2>2 DEF Paired
  <2>4. ~crowded'
    BY <1>2, <2>2, <2>3
  <2>5. Len(heap) < 4
    BY <2>3 DEF Sorted
  <2> QED BY <2>1, <2>2, <2>4, <2>5
<1> QED BY <1>3, <1>4

LEMMA PairedStep ==
    ASSUME TypeOK, GivenOut, Sorted, upset \/ Paired, [Next]_vars
    PROVE  (upset \/ Paired)'
<1>1. CASE UNCHANGED vars
  BY <1>1 DEF vars, queue, operator, regs, Paired, Ahead
<1>2. SUFFICES ASSUME Next, ~upset' PROVE Paired'
  BY <1>1
<1>3. CASE heap' = << >> /\ ~panel' /\ regOK' = 0
  <2>1. crowded' = (heap' # << >> /\ (crowded \/ Len(heap') >= 4))
    BY <1>2 DEF Next, Witness
  <2>2. ~crowded'
    BY <1>3, <2>1
  <2>3. \A i \in 1..Len(heap') : FALSE
    BY <1>3
  <2> QED BY <1>3, <2>2, <2>3 DEF Paired
<1>4. SUFFICES ASSUME Paired, Len(heap) < 4, late \ late' = {},
                      Len(heap') < Len(heap) => ~(Top.no <= expired) \/ Top.what # "sp",
                      ~crowded'
               PROVE  Paired'
  BY <1>2, <1>3, NotUpset
<1>5. /\ Len(heap) \in Nat /\ sent \in Nat /\ regSP \in Nat /\ regSP <= sent
      /\ regOK = 1 => regSP >= confirms
      /\ panel => regSP >= sent \/ Ahead(heap, sent, Len(heap) + 1)
  BY <1>4, HeapTyped DEF Paired, GivenOut
<1>6. ASSUME SetPointsAscend', PressesFollow', regOK' = 1 => regSP' >= confirms',
             panel' => regSP' >= sent' \/ Ahead(heap', sent', Len(heap') + 1)
      PROVE  Paired'
  BY <1>4, <1>6 DEF Paired, SetPointsAscend, PressesFollow
<1>7. SetPointsAscend /\ PressesFollow
  BY <1>4 DEF Paired, SetPointsAscend, PressesFollow
<1>8. ASSUME UNCHANGED <<heap, sent, regSP, regOK, confirms>>, panel' => panel PROVE Paired'
  <2>1. SetPointsAscend' /\ PressesFollow'
    BY <1>7, <1>8 DEF SetPointsAscend, PressesFollow
  <2> QED BY <1>5, <1>6, <1>8, <2>1
<1>9. CASE SendSP
  <2>1. /\ Push("sp", sent + 1) /\ sent' = sent + 1 /\ sent + 1 \in Nat
        /\ UNCHANGED <<regSP, regOK, confirms>>
    BY <1>5, <1>9 DEF SendSP, regs
  <2>2. SetPointsAscend' /\ PressesFollow' /\ Ahead(heap', sent + 1, Len(heap') + 1)
    BY <1>4, <1>5, <2>1, PushPairs DEF What
  <2> QED BY <1>5, <1>6, <2>1, <2>2
<1>10. CASE Confirm
  <2>1. /\ panel /\ ~panel' /\ sent' = sent
        /\ UNCHANGED <<regSP, regOK, confirms>>
    BY <1>10 DEF Confirm, regs
  <2>2. CASE button = "none"
    <3>1. Push("press", sent)
      BY <1>10, <2>2 DEF Confirm
    <3>2. SetPointsAscend' /\ PressesFollow'
      BY <1>4, <1>5, <2>1, <3>1, PushPairs DEF What
    <3> QED BY <1>5, <1>6, <2>1, <3>2
  <2>3. CASE button # "none"
    BY <1>8, <1>10, <2>1, <2>3 DEF Confirm, queue
  <2> QED BY <2>2, <2>3
<1>11. CASE Other \/ Release
  <2>1. /\ Push("other", 0) \/ Push("release", 0)
        /\ UNCHANGED <<panel, sent, regSP, regOK, confirms>>
    BY <1>11 DEF Other, Release, regs, operator
  <2>2. /\ SetPointsAscend' /\ PressesFollow'
        /\ \A n \in Nat : Ahead(heap, n, Len(heap) + 1) => Ahead(heap', n, Len(heap') + 1)
    BY <1>4, <2>1, PushPairs DEF What
  <2> QED BY <1>5, <1>6, <2>1, <2>2
<1>12. CASE Write
  <2>1. heap # << >> /\ Pop /\ Apply(Top, TRUE) /\ UNCHANGED <<panel, sent>>
    BY <1>12 DEF Write, Writable, operator
  <2>2. /\ regSP' \in Nat /\ regSP' >= regSP
        /\ Top.what = "sp" => regSP' >= Top.sp
        /\ \A i \in 1..Len(heap) : heap[i].what = "sp" => regSP' <= heap[i].sp
        /\ regOK' = 1 => regSP' >= confirms'
    BY <1>4, <2>1, ApplyPairs
  <2>3. /\ SetPointsAscend' /\ PressesFollow'
        /\ \A n \in Nat : regSP >= n \/ Ahead(heap, n, Len(heap) + 1) =>
                           regSP' >= n \/ Ahead(heap', n, Len(heap') + 1)
    BY <1>4, <2>1, <2>2, PopPairs
  <2> QED BY <1>5, <1>6, <2>1, <2>2, <2>3
<1>13. CASE WriteFails
  <2>1. heap # << >> /\ UNCHANGED <<heap, panel, sent>>
    BY <1>13 DEF WriteFails, Writable, queue, operator
  <2>2. CASE UNCHANGED regs
    BY <1>8, <2>1, <2>2 DEF regs
  <2>3. CASE Apply(Top, TRUE)
    <3>1. /\ regSP' \in Nat /\ regSP' >= regSP
          /\ \A i \in 1..Len(heap) : heap[i].what = "sp" => regSP' <= heap[i].sp
          /\ regOK' = 1 => regSP' >= confirms'
      BY <1>4, <2>1, <2>3, ApplyPairs
    <3>2. \A n \in Nat : regSP >= n => regSP' >= n
      BY <1>5, <3>1
    <3>3. SetPointsAscend'
      BY <1>7, <2>1 DEF SetPointsAscend
    <3>4. PressesFollow'
      BY <1>7, <2>1, <3>1, <3>2, HeapTyped DEF PressesFollow
    <3> QED BY <1>5, <1>6, <2>1, <3>1, <3>2, <3>3, <3>4
  <2> QED BY <1>13, <2>2, <2>3 DEF WriteFails
<1>14. ASSUME NEW r \in late, LateWrite(r) PROVE Paired'
  BY <1>4, <1>14 DEF LateWrite
<1>15. CASE Expire
  BY <1>8, <1>15 DEF Expire, operator, regs
<1>16. CASE Clean
  <2>1. /\ heap # << >> /\ Pop /\ Top.no <= expired
        /\ UNCHANGED <<panel, sent, regSP, regOK, confirms>>
    BY <1>16 DEF Clean, operator
  <2>2. Len(heap') < Len(heap)
    BY <1>5, <2>1, PopFacts
  <2>3. Top.what # "sp"
    BY <1>4, <2>1, <2>2
  <2>4. \A i \in 1..Len(heap) : heap[i].what = "sp" => regSP <= heap[i].sp
    BY <1>4 DEF Paired
  <2>5. /\ SetPointsAscend' /\ PressesFollow'
        /\ \A n \in Nat : regSP >= n \/ Ahead(heap, n, Len(heap) + 1) =>
                           regSP' >= n \/ Ahead(heap', n, Len(heap') + 1)
    BY <1>4, <1>5, <2>1, <2>3, <2>4, PopPairs
  <2> QED BY <1>5, <1>6, <2>1, <2>5
<1>17. CASE Restart
  <2>1. heap' = << >> /\ ~panel' /\ UNCHANGED <<regSP, regOK, confirms>>
    BY <1>17 DEF Restart
  <2>2. \A i \in 1..Len(heap') : FALSE
    BY <2>1
  <2> QED BY <1>5, <1>6, <2>1, <2>2 DEF SetPointsAscend, PressesFollow
<1> QED
  BY <1>2, <1>9, <1>10, <1>11, <1>12, <1>13, <1>14, <1>15, <1>16, <1>17 DEF Next

-----------------------------------------------------------------------------
(* The theorems                                                            *)

LEMMA Initially ==
    Init => IInv
<1> SUFFICES ASSUME Init PROVE IInv
  OBVIOUS
<1>1. TypeOK
  <2>1. heap \in Seq(Request) /\ late \subseteq Request
    BY DEF Init
  <2> QED BY <2>1 DEF Init, TypeOK
<1>2. GivenOut /\ Debts /\ Sorted
  BY DEF Init, GivenOut, Debts, Pending, Sorted, InOrder
<1>3. Paired /\ PressedIsOwed
  BY DEF Init, Paired, PressedIsOwed
<1> QED BY <1>1, <1>2, <1>3 DEF IInv

(* Whatever the operator, the other panels, the driver thread, broken      *)
(* connections and restarts do to mPendingWrites and the two button tables *)
(* (RegImage, ModbusMasterDrv, ControlWdg): the six parts of IInv hold.    *)
THEOREM QueueInvariant == Spec => []IInv
<1>1. Init => IInv
  BY Initially
<1>2. IInv /\ [Next]_vars => IInv'
  <2> SUFFICES ASSUME IInv, [Next]_vars PROVE IInv'
    OBVIOUS
  <2>1. TypeOK' /\ GivenOut' /\ Debts'
    BY TypeStep, GivenOutStep, DebtsStep DEF IInv
  <2>2. Sorted' /\ (upset \/ Paired)' /\ PressedIsOwed'
    BY SortedStep, PairedStep, PressedStep DEF IInv
  <2> QED BY <2>1, <2>2 DEF IInv
<1> QED BY <1>1, <1>2, PTL DEF Spec

(* processNextWrite takes the requests in the order addWriteRequest got    *)
(* them, for any number of requests, while no more than three have been    *)
(* pending since the queue was empty.                                      *)
THEOREM RequestsInOrder == Spec => []InOrder
<1>1. IInv => InOrder
  BY DEF IInv, Sorted
<1> QED BY <1>1, QueueInvariant, PTL

(* The confirmation of on_cmdSendSP takes effect only with its set point   *)
(* or a later one in the register, unless four requests met, a set point   *)
(* expired or a broken connection delivered a request late.                *)
THEOREM SetPointsComeFirst == Spec => []SetPointFirst
<1>1. IInv => SetPointFirst
  BY DEF IInv, Paired, SetPointFirst
<1> QED BY <1>1, QueueInvariant, PTL

(* A button pressed at the regulator stands in a table of writeVarAsButton *)
(* until it is released there, unless the press has lost its owner         *)
(* (restart, driverWriteTimeOut).                                          *)
THEOREM PressesAreOwed == Spec => []PressedIsOwed
<1>1. IInv => PressedIsOwed
  BY DEF IInv
<1> QED BY <1>1, QueueInvariant, PTL
=============================================================================
