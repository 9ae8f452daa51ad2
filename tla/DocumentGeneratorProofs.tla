----------------------- MODULE DocumentGeneratorProofs -----------------------
(* The theorems about the generator, for any clock, any number of documents   *)
(* and runs, and any present year.                                            *)
EXTENDS DocumentGenerator, SequenceTheorems, WellFoundedInduction, TLAPS

Id == [prefix : Kind, time : Int, number : Nat, run : Nat]

GenTypeOK ==
    /\ run \in Nat
    /\ clock \in Int
    /\ rewound \in BOOLEAN
    /\ counter \in [Kind -> Nat]
    /\ ids \in Seq(Id)

(* The ids are in the order of their runs; those of a run and a kind are      *)
(* numbered upwards, as far as the counter.                                   *)
Numbered ==
    /\ \A i \in 1..Len(ids) :
           /\ ids[i].run <= run
           /\ ids[i].run = run => ids[i].number <= counter[ids[i].prefix]
    /\ \A i, j \in 1..Len(ids) : i < j =>
           /\ ids[i].run <= ids[j].run
           /\ ids[i].run = ids[j].run /\ ids[i].prefix = ids[j].prefix
                => ids[i].number < ids[j].number

(* As long as the clock was not set back, it is past all earlier runs. *)
Clocked ==
    ~rewound =>
        /\ \A i \in 1..Len(ids) :
               /\ ids[i].time <= clock
               /\ ids[i].run < run => ids[i].time < clock
        /\ \A i, j \in 1..Len(ids) :
               i < j /\ ids[i].run < ids[j].run => ids[i].time < ids[j].time

IdInv == GenTypeOK /\ Numbered /\ Clocked

LEMMA InitIds == ASSUME GenInit PROVE IdInv
<1>1. ids = <<>> /\ Len(ids) = 0 /\ <<>> \in Seq(Id)
  BY DEF GenInit
<1>2. GenTypeOK
  <2>1. counter \in [Kind -> Nat]
    BY DEF GenInit
  <2>2. run = 1 /\ clock = 0
    BY DEF GenInit
  <2>3. rewound \in BOOLEAN
    BY Zenon DEF GenInit
  <2> QED
    BY <1>1, <2>1, <2>2, <2>3 DEF GenTypeOK
<1>3. Numbered /\ Clocked
  BY <1>1 DEF Numbered, Clocked
<1> QED
  BY <1>2, <1>3 DEF IdInv

(* A new document gets the present run and time, and the next number. *)
LEMMA BeginIds == ASSUME IdInv, NEW k \in Kind, Begin(k) PROVE IdInv'
<1> USE DEF IdInv
<1> DEFINE n == Len(ids)
<1>1. /\ ids' = Append(ids, nextID(k)) /\ counter' = [counter EXCEPT ![k] = @ + 1]
      /\ run' = run /\ clock' = clock /\ rewound' = rewound
  BY DEF Begin
<1>2. n \in Nat /\ ids \in Seq(Id) /\ counter[k] \in Nat
  BY DEF GenTypeOK
<1>3. nextID(k) \in Id
  BY <1>2 DEF nextID, Id, GenTypeOK
<1>4. GenTypeOK'
  BY <1>1, <1>2, <1>3 DEF GenTypeOK
<1>5. /\ Len(ids') = n + 1 /\ ids'[n + 1] = nextID(k)
      /\ \A i \in 1..n : ids'[i] = ids[i] /\ ids[i] \in Id
  BY <1>1, <1>2, <1>3
<1>6. /\ nextID(k).run = run /\ nextID(k).time = clock /\ nextID(k).prefix = k
      /\ nextID(k).number = counter[k] + 1 /\ counter'[k] = counter[k] + 1
      /\ \A p \in Kind : counter[p] \in Nat /\ counter'[p] \in Nat /\ counter[p] <= counter'[p]
  BY <1>1 DEF nextID, GenTypeOK
<1>7. \A i \in 1..(n + 1) : i \in 1..n \/ i = n + 1
  BY <1>2
<1>8. \A i \in 1..n : /\ ids[i].run \in Nat /\ ids[i].number \in Nat /\ ids[i].time \in Int
                      /\ ids[i].prefix \in Kind
  BY <1>5 DEF Id
<1>9. Numbered'
  <2>1. ASSUME NEW i \in 1..(n + 1)
        PROVE  /\ ids'[i].run <= run
               /\ ids'[i].run = run => ids'[i].number <= counter'[ids'[i].prefix]
    <3>1. CASE i \in 1..n
      <4>1. /\ ids[i].run <= run
            /\ ids[i].run = run => ids[i].number <= counter[ids[i].prefix]
        BY <3>1 DEF Numbered
      <4>2. /\ counter[ids[i].prefix] <= counter'[ids[i].prefix]
            /\ counter[ids[i].prefix] \in Nat /\ counter'[ids[i].prefix] \in Nat
        BY <1>6, <1>8, <3>1
      <4> QED
        BY <1>5, <1>8, <3>1, <4>1, <4>2
    <3>2. CASE i = n + 1
      BY <1>5, <1>6, <3>2 DEF GenTypeOK
    <3> QED
      BY <1>7, <3>1, <3>2
  <2>2. ASSUME NEW i \in 1..(n + 1), NEW j \in 1..(n + 1), i < j
        PROVE  /\ ids'[i].run <= ids'[j].run
               /\ ids'[i].run = ids'[j].run /\ ids'[i].prefix = ids'[j].prefix
                    => ids'[i].number < ids'[j].number
    <3>1. i \in 1..n
      BY <1>2, <2>2
    <3>2. CASE j \in 1..n
      BY <1>5, <2>2, <3>1, <3>2 DEF Numbered
    <3>3. CASE j = n + 1
      <4>1. /\ ids[i].run <= run
            /\ ids[i].run = run => ids[i].number <= counter[ids[i].prefix]
        BY <3>1 DEF Numbered
      <4> QED
        BY <1>2, <1>5, <1>6, <1>8, <3>1, <3>3, <4>1
    <3> QED
      BY <1>7, <3>2, <3>3
  <2> QED
    BY <1>1, <1>5, <2>1, <2>2 DEF Numbered
<1>10. Clocked'
  <2> SUFFICES ASSUME ~rewound PROVE Clocked'
    BY <1>1 DEF Clocked
  <2>1. ASSUME NEW i \in 1..(n + 1)
        PROVE  ids'[i].time <= clock /\ (ids'[i].run < run => ids'[i].time < clock)
    <3>1. CASE i \in 1..n
      BY <1>5, <3>1 DEF Clocked
    <3>2. CASE i = n + 1
      BY <1>5, <1>6, <3>2 DEF GenTypeOK
    <3> QED
      BY <1>7, <3>1, <3>2
  <2>2. ASSUME NEW i \in 1..(n + 1), NEW j \in 1..(n + 1), i < j, ids'[i].run < ids'[j].run
        PROVE  ids'[i].time < ids'[j].time
    <3>1. i \in 1..n
      BY <1>2, <2>2
    <3>2. CASE j \in 1..n
      BY <1>5, <2>2, <3>1, <3>2 DEF Clocked
    <3>3. CASE j = n + 1
      BY <1>5, <1>6, <2>2, <3>1, <3>3 DEF Clocked
    <3> QED
      BY <1>7, <3>2, <3>3
  <2> QED
    BY <1>1, <1>5, <2>1, <2>2 DEF Clocked
<1> QED
  BY <1>4, <1>9, <1>10

LEMMA IdFields ==
    ASSUME IdInv, NEW i \in 1..Len(ids)
    PROVE  /\ ids[i] \in Id /\ ids[i].prefix \in Kind /\ ids[i].time \in Int
           /\ ids[i].number \in Nat /\ ids[i].run \in Nat
<1>1. ids[i] \in Id
  BY DEF IdInv, GenTypeOK
<1> QED
  BY <1>1 DEF Id

LEMMA PassIds == ASSUME IdInv, Pass PROVE IdInv'
<1> USE DEF IdInv
<1>1. /\ UNCHANGED <<run, counter, ids>> /\ clock' \in Int
      /\ rewound' = (rewound \/ clock' < clock)
  BY GeneratorAssumption DEF Pass
<1>2. GenTypeOK' /\ Numbered'
  BY <1>1 DEF GenTypeOK, Numbered
<1>3. \A i \in 1..Len(ids) : ids[i].time \in Int
  BY IdFields
<1>4. Clocked'
  <2> SUFFICES ASSUME ~rewound' PROVE Clocked'
    BY DEF Clocked
  <2>1. ~rewound /\ clock <= clock' /\ clock \in Int
    <3>1. ~rewound /\ ~(clock' < clock)
      BY <1>1, Zenon
    <3> QED
      BY <1>1, <3>1 DEF GenTypeOK
  <2>2. \A i \in 1..Len(ids) : /\ ids[i].time <= clock'
                               /\ ids[i].run < run => ids[i].time < clock'
    BY <1>1, <1>3, <2>1 DEF Clocked
  <2> QED
    BY <1>1, <2>1, <2>2 DEF Clocked
<1> QED
  BY <1>2, <1>4

(* A new run starts behind all ids in time, or the clock was set back. *)
LEMMA RestartIds == ASSUME IdInv, Restart PROVE IdInv'
<1> USE DEF IdInv
<1>1. /\ run' = run + 1 /\ clock' \in Int /\ UNCHANGED ids
      /\ rewound' = (rewound \/ clock' <= clock)
      /\ counter' = [k \in Kind |-> 0]
  BY GeneratorAssumption DEF Restart
<1>2. GenTypeOK'
  BY <1>1 DEF GenTypeOK
<1>3. \A i \in 1..Len(ids) : ids[i].time \in Int /\ ids[i].run \in Nat
  BY IdFields
<1>4. \A i \in 1..Len(ids) : ids[i].run <= run' /\ ids[i].run # run'
  BY <1>1, <1>3 DEF GenTypeOK, Numbered
<1>5. Numbered'
  BY <1>1, <1>4 DEF Numbered
<1>6. Clocked'
  <2> SUFFICES ASSUME ~rewound' PROVE Clocked'
    BY DEF Clocked
  <2>1. ~rewound /\ clock < clock' /\ clock \in Int
    <3>1. ~rewound /\ ~(clock' <= clock)
      BY <1>1, Zenon
    <3> QED
      BY <1>1, <3>1 DEF GenTypeOK
  <2>2. \A i \in 1..Len(ids) : ids[i].time <= clock' /\ ids[i].time < clock'
    BY <1>1, <1>3, <2>1 DEF Clocked
  <2> QED
    BY <1>1, <2>1, <2>2 DEF Clocked
<1> QED
  BY <1>2, <1>5, <1>6

LEMMA IdStep == ASSUME IdInv, [GenNext]_genVars PROVE IdInv'
<1>1. CASE UNCHANGED <<run, clock, rewound, counter, ids>>
  BY <1>1 DEF IdInv, GenTypeOK, Numbered, Clocked
<1>2. Isbn \/ Year \/ CastOne \/ Deliver \/ UNCHANGED genVars
          => UNCHANGED <<run, clock, rewound, counter, ids>>
  BY DEF Isbn, Year, CastOne, Deliver, genVars
<1> QED
  BY <1>1, <1>2, BeginIds, PassIds, RestartIds DEF GenNext

LEMMA IdsApart ==
    ASSUME IdInv, NEW i \in 1..Len(ids), NEW j \in 1..Len(ids), i < j,
           ids[i].prefix = ids[j].prefix, ids[i].time = ids[j].time,
           ids[i].number = ids[j].number
    PROVE  ids[i].run # ids[j].run /\ rewound
<1>1. ids[i].number \in Nat /\ ids[i].time \in Int /\ ids[i].run \in Nat /\ ids[j].run \in Nat
  BY IdFields
<1>2. ids[i].run # ids[j].run /\ ids[i].run <= ids[j].run
  BY <1>1 DEF IdInv, Numbered
<1>3. ids[i].run < ids[j].run
  BY <1>1, <1>2
<1>4. rewound
  <2>1. ~rewound => ids[i].time < ids[j].time
    BY <1>3 DEF IdInv, Clocked
  <2> QED
    BY <1>1, <2>1
<1> QED
  BY <1>2, <1>4

LEMMA IdsMean == ASSUME IdInv PROVE IdsUnique
<1> SUFFICES ASSUME NEW i \in DOMAIN ids, NEW j \in DOMAIN ids, i < j,
                    [ids[i] EXCEPT !.run = 0] = [ids[j] EXCEPT !.run = 0]
             PROVE  ids[i].run # ids[j].run /\ rewound
  BY DEF IdsUnique
<1>1. i \in 1..Len(ids) /\ j \in 1..Len(ids)
  BY DEF IdInv, GenTypeOK
<1>2. ids[i] \in Id /\ ids[j] \in Id
  BY <1>1, IdFields
<1>3. /\ ids[i].prefix = ids[j].prefix /\ ids[i].time = ids[j].time
      /\ ids[i].number = ids[j].number
  <2>1. /\ [ids[i] EXCEPT !.run = 0].prefix = ids[i].prefix
        /\ [ids[i] EXCEPT !.run = 0].time = ids[i].time
        /\ [ids[i] EXCEPT !.run = 0].number = ids[i].number
        /\ [ids[j] EXCEPT !.run = 0].prefix = ids[j].prefix
        /\ [ids[j] EXCEPT !.run = 0].time = ids[j].time
        /\ [ids[j] EXCEPT !.run = 0].number = ids[j].number
    BY <1>2 DEF Id
  <2> QED
    BY <2>1
<1> QED
  BY <1>1, <1>3, IdsApart

(* Two documents never have the same id, unless they are of two runs and the  *)
(* clock was set back (common.go:134-136).                                    *)
THEOREM UniqueIds == GenSpec => []IdsUnique
<1>1. GenInit => IdInv
  BY InitIds
<1>2. IdInv /\ [GenNext]_genVars => IdInv'
  BY IdStep
<1>3. IdInv => IdsUnique
  BY IdsMean
<1> QED
  BY <1>1, <1>2, <1>3, PTL DEF GenSpec

(* Every genre has conflicts to pick from. *)
LEMMA GenresHaveConflicts ==
    MovieGenres = MovieConflicts /\ BookGenres = BookConflicts
<1>1. MovieGenres = MovieConflicts
  BY DEF MovieGenres, MovieConflicts
<1>2. BookGenres = BookConflicts
  BY DEF BookGenres, BookConflicts
<1> QED
  BY <1>1, <1>2

(* A draw from an empty range needs a clock that says 1981 or less            *)
(* (common.go:138-140, 164-172).                                              *)
THEOREM PanicFree == GenSpec => []NeverPanics
<1>1. GenInit => NeverPanics
  BY DEF GenInit, NeverPanics
<1>2. ASSUME NeverPanics, [GenNext]_genVars PROVE NeverPanics'
  <2> SUFFICES ASSUME ThisYear >= 1982, at # "panic" PROVE at' # "panic"
    BY <1>2 DEF NeverPanics
  <2>1. ASSUME NEW k \in Kind, Begin(k) PROVE at' # "panic"
    <3>1. PICK genre \in IF k = "movie" THEN MovieGenres ELSE BookGenres :
              at' = IF genre \notin Conflicts(k) THEN "panic"
                    ELSE IF k = "movie" THEN "year" ELSE "isbn"
      BY <2>1 DEF Begin
    <3>2. MovieGenres = MovieConflicts /\ BookGenres = BookConflicts
      BY GenresHaveConflicts
    <3>3. CASE k = "movie"
      <4>1. genre \in MovieGenres /\ Conflicts(k) = MovieGenres
        BY <3>2, <3>3 DEF Conflicts
      <4> QED
        BY <3>1, <3>3, <4>1
    <3>4. CASE k # "movie"
      <4>1. genre \in BookGenres /\ Conflicts(k) = BookGenres
        BY <3>2, <3>4 DEF Conflicts
      <4> QED
        BY <3>1, <3>4, <4>1
    <3> QED
      BY <3>3, <3>4
  <2>2. CASE Year
    <3> DEFINE min == IF doc.kind = "movie" THEN 1980 ELSE 1900
               range == ThisYear - min + 1
    <3>1. range \in Nat /\ range >= 3
      BY GeneratorAssumption
    <3>2. ~(range <= 0 \/ range \div 3 <= 0)
      BY <3>1
    <3>3. at' = IF doc.kind = "movie" THEN "cast" ELSE "done"
      BY <2>2, <3>2 DEF Year
    <3> QED
      BY <3>3
  <2>3. CASE Isbn \/ CastOne \/ Deliver \/ Pass \/ Restart \/ UNCHANGED genVars
    BY <2>3 DEF Isbn, CastOne, Deliver, Pass, Restart, genVars
  <2> QED
    BY <1>2, <2>1, <2>2, <2>3 DEF GenNext
<1> QED
  BY <1>1, <1>2, PTL DEF GenSpec

-----------------------------------------------------------------------------
(* What is weighted and added up of a number, from left to right.  The fold   *)
(* takes the greatest index off the set of those that are left.               *)
WeightedDigit(number, i) == (IF i % 2 = 0 THEN 3 ELSE 1) * number[i]
AddStep(t, s, g)   == IF s = {} THEN 0 ELSE g[s \ {Max(s)}] + t[Max(s)]
AddsUp(t, n, g)    == g = [s \in SUBSET (1..n) |-> AddStep(t, s, g)]

Digit == 0..9

(* The sum that FieldsValid asks for. *)
Total(isbn) ==
    LET Weighted(sum, i) == sum + (IF i % 2 = 0 THEN 3 ELSE 1) * isbn[i]
    IN  FoldLeftDomain(Weighted, 0, isbn)

(* What holds of zero and of the successor of each number it holds of. *)
LEMMA AllNumbers ==
    ASSUME NEW T, 0 \in T, \A n \in Nat : n \in T => n + 1 \in T
    PROVE  \A n \in Nat : n \in T
<1> DEFINE D == {n \in Nat : n \notin T}
<1> SUFFICES ASSUME D # {} PROVE FALSE
  OBVIOUS
<1>1. D \subseteq Nat
  OBVIOUS
<1> HIDE DEF D
<1>2. PICK m \in D : \A d \in D : <<d, m>> \notin OpToRel(<, Nat)
  BY <1>1, WFMin, NatLessThanWellFounded, Zenon
<1>3. \A d \in D : ~(d < m)
  BY <1>1, <1>2, Zenon DEF OpToRel
<1>4. m \in Nat /\ m # 0
  BY DEF D
<1>5. m - 1 \in Nat /\ m - 1 < m /\ (m - 1) + 1 = m
  BY <1>4
<1>6. m - 1 \in T
  BY <1>3, <1>5 DEF D
<1> QED
  BY <1>5, <1>6 DEF D

(* The fold takes the last index off first. *)
LEMMA GreatestIndex ==
    ASSUME NEW n \in Nat, NEW s \in SUBSET (1..(n + 1)), n + 1 \in s
    PROVE  Max(s) = n + 1
<1>1. \A y \in s : n + 1 >= y
  OBVIOUS
<1>2. \A x \in s : (\A y \in s : x >= y) => x = n + 1
  OBVIOUS
<1>3. Max(s) \in s /\ \A y \in s : Max(s) >= y
  BY <1>1 DEF Max
<1> QED
  BY <1>2, <1>3

LEMMA MaxIsMember ==
    \A n \in Nat : \A s \in SUBSET (1..n) : s # {} => Max(s) \in 1..n
<1> DEFINE T == {n \in Nat : \A s \in SUBSET (1..n) : s # {} => Max(s) \in 1..n}
<1>1. 0 \in T
  <2>1. \A s \in SUBSET (1..0) : s = {}
    OBVIOUS
  <2> QED
    BY <2>1
<1>2. ASSUME NEW n \in Nat, n \in T PROVE n + 1 \in T
  <2> SUFFICES ASSUME NEW s \in SUBSET (1..(n + 1)), s # {} PROVE Max(s) \in 1..(n + 1)
    OBVIOUS
  <2>1. CASE n + 1 \in s
    BY <2>1, GreatestIndex
  <2>2. CASE n + 1 \notin s
    <3>1. s \in SUBSET (1..n)
      BY <2>2
    <3>2. Max(s) \in 1..n
      BY <1>2, <3>1
    <3> QED
      BY <3>2
  <2> QED
    BY <2>1, <2>2
<1> HIDE DEF T
<1>3. \A n \in Nat : n \in T
  BY <1>1, <1>2, AllNumbers
<1> QED
  BY <1>3 DEF T

(* The function the fold is defined with exists: from the one for n indices   *)
(* there is one for n + 1.                                                    *)
LEMMA AddingExists == ASSUME NEW t PROVE \A n \in Nat : \E g : AddsUp(t, n, g)
<1> DEFINE T == {n \in Nat : \E g : AddsUp(t, n, g)}
<1>1. 0 \in T
  <2> DEFINE g == [s \in SUBSET (1..0) |-> 0]
  <2>1. \A s \in SUBSET (1..0) : s = {}
    OBVIOUS
  <2>2. \A s \in SUBSET (1..0) : AddStep(t, s, g) = 0
    BY <2>1 DEF AddStep
  <2>3. g = [s \in SUBSET (1..0) |-> AddStep(t, s, g)]
    BY <2>2
  <2> QED
    BY <2>3 DEF AddsUp
<1>2. ASSUME NEW n \in Nat, n \in T PROVE n + 1 \in T
  <2>1. PICK g : g = [s \in SUBSET (1..n) |-> AddStep(t, s, g)]
    BY <1>2 DEF AddsUp
  <2> DEFINE h == [s \in SUBSET (1..(n + 1)) |->
                     IF n + 1 \in s THEN g[s \ {n + 1}] + t[n + 1] ELSE g[s]]
  <2>2. \A s \in SUBSET (1..(n + 1)) : n + 1 \notin s => s \in SUBSET (1..n)
    OBVIOUS
  <2>3. \A s \in SUBSET (1..n) : s \in SUBSET (1..(n + 1)) /\ n + 1 \notin s
    OBVIOUS
  <2>4. \A s \in SUBSET (1..n) : h[s] = g[s]
    BY <2>3
  <2>5. ASSUME NEW s \in SUBSET (1..(n + 1)) PROVE h[s] = AddStep(t, s, h)
    <3>1. CASE n + 1 \in s
      <4>1. s \ {n + 1} \in SUBSET (1..n)
        BY <2>2
      <4>2. h[s] = h[s \ {n + 1}] + t[n + 1]
        BY <2>4, <3>1, <4>1
      <4> HIDE DEF h
      <4>3. Max(s) = n + 1 /\ s # {}
        BY <3>1, GreatestIndex
      <4> QED
        BY <4>2, <4>3 DEF AddStep
    <3>2. CASE n + 1 \notin s
      <4>1. s \in SUBSET (1..n) /\ s \ {Max(s)} \in SUBSET (1..n)
        BY <2>2, <3>2
      <4>2. h[s] = g[s] /\ h[s \ {Max(s)}] = g[s \ {Max(s)}]
        BY <2>4, <4>1
      <4> HIDE DEF h
      <4>3. g[s] = AddStep(t, s, g)
        BY <2>1, <4>1
      <4> QED
        BY <4>2, <4>3 DEF AddStep
    <3> QED
      BY <3>1, <3>2
  <2>6. h = [s \in SUBSET (1..(n + 1)) |-> h[s]]
    OBVIOUS
  <2> HIDE DEF h
  <2>7. h = [s \in SUBSET (1..(n + 1)) |-> AddStep(t, s, h)]
    BY <2>5, <2>6
  <2> QED
    BY <2>7 DEF AddsUp
<1> HIDE DEF T
<1>3. \A n \in Nat : n \in T
  BY <1>1, <1>2, AllNumbers
<1> QED
  BY <1>3 DEF T

LEMMA AddedSoFar ==
    ASSUME NEW N \in Nat, NEW t, NEW g, AddsUp(t, N, g)
    PROVE  /\ g[1..0] = 0
           /\ \A n \in Nat : n + 1 <= N => g[1..(n + 1)] = g[1..n] + t[n + 1]
<1>1. \A s \in SUBSET (1..N) : g[s] = AddStep(t, s, g)
  BY DEF AddsUp
<1>2. g[1..0] = 0
  <2>1. 1..0 = {} /\ 1..0 \in SUBSET (1..N)
    OBVIOUS
  <2> QED
    BY <1>1, <2>1 DEF AddStep
<1>3. ASSUME NEW n \in Nat, n + 1 <= N PROVE g[1..(n + 1)] = g[1..n] + t[n + 1]
  <2>1. 1..(n + 1) \in SUBSET (1..N) /\ 1..(n + 1) # {} /\ n + 1 \in 1..(n + 1)
    BY <1>3
  <2>2. Max(1..(n + 1)) = n + 1
    BY <2>1, GreatestIndex
  <2>3. (1..(n + 1)) \ {n + 1} = 1..n
    OBVIOUS
  <2>4. g[1..(n + 1)] = AddStep(t, 1..(n + 1), g)
    BY <1>1, <2>1
  <2> QED
    BY <2>1, <2>2, <2>3, <2>4 DEF AddStep
<1> QED
  BY <1>2, <1>3

(* The two folds, of the code and of FieldsValid, weight and add alike. *)
LEMMA ChecksumIs ==
    ASSUME NEW p, NEW N \in Nat, DOMAIN p = 1..N, \A i \in 1..N : p[i] \in Int
    PROVE  \E g : /\ AddsUp([i \in 1..N |-> WeightedDigit(p, i)], N, g)
                  /\ checksumISBN13(p) = Append(p, (10 - (g[1..N] % 10)) % 10)
<1> DEFINE Code(i) == p[i] * (IF (i - 1) % 2 = 0 THEN 1 ELSE 3)
           Is(g) == g = [s \in SUBSET DOMAIN p |->
                           IF s = {} THEN 0
                           ELSE g[s \ {Max(s)}] + Code([i \in DOMAIN p |-> i][Max(s)])]
           t == [i \in 1..N |-> WeightedDigit(p, i)]
<1>1. checksumISBN13(p) = Append(p, (10 - ((CHOOSE g : Is(g))[DOMAIN p] % 10)) % 10)
  BY DEF checksumISBN13, FoldLeftDomain, FoldLeft, MapThenFoldSet
<1>2. \A i \in 1..N : WeightedDigit(p, i) = Code(i)
  BY DEF WeightedDigit
<1>3. \A s \in SUBSET (1..N) : s # {} => Max(s) \in 1..N
  BY MaxIsMember
<1>4. ASSUME NEW g PROVE Is(g) <=> AddsUp(t, N, g)
  <2> HIDE DEF Code
  <2>1. ASSUME NEW s \in SUBSET (1..N)
        PROVE  (IF s = {} THEN 0 ELSE g[s \ {Max(s)}] + Code([i \in 1..N |-> i][Max(s)]))
                 = AddStep(t, s, g)
    BY <1>2, <1>3 DEF AddStep
  <2> HIDE DEF t
  <2> QED
    BY <2>1 DEF AddsUp
<1> HIDE DEF Is
<1>5. \E g : AddsUp(t, N, g)
  BY AddingExists
<1>6. \E g : Is(g)
  BY <1>4, <1>5
<1>7. Is(CHOOSE g : Is(g))
  BY <1>6, Zenon
<1> QED
  BY <1>1, <1>4, <1>7, Zenon
LEMMA TotalIs ==
    ASSUME NEW p, NEW N \in Nat, DOMAIN p = 1..N, \A i \in 1..N : p[i] \in Int
    PROVE  \E g : /\ AddsUp([i \in 1..N |-> WeightedDigit(p, i)], N, g)
                  /\ Total(p) = g[1..N]
<1> DEFINE Is(g) == g = [s \in SUBSET DOMAIN p |->
                           IF s = {} THEN 0
                           ELSE g[s \ {Max(s)}]
                                 + WeightedDigit(p, [i \in DOMAIN p |-> i][Max(s)])]
           t == [i \in 1..N |-> WeightedDigit(p, i)]
<1>1. Total(p) = (CHOOSE g : Is(g))[DOMAIN p]
  BY DEF Total, FoldLeftDomain, FoldLeft, MapThenFoldSet, WeightedDigit
<1>2. \A s \in SUBSET (1..N) : s # {} => Max(s) \in 1..N
  BY MaxIsMember
<1>3. ASSUME NEW g PROVE Is(g) <=> AddsUp(t, N, g)
  <2>1. ASSUME NEW s \in SUBSET (1..N)
        PROVE  (IF s = {} THEN 0
                ELSE g[s \ {Max(s)}] + WeightedDigit(p, [i \in 1..N |-> i][Max(s)]))
                 = AddStep(t, s, g)
    BY <1>2 DEF AddStep
  <2> HIDE DEF t
  <2> QED
    BY <2>1 DEF AddsUp
<1> HIDE DEF Is
<1>4. \E g : AddsUp(t, N, g)
  BY AddingExists
<1>5. \E g : Is(g)
  BY <1>3, <1>4
<1>6. Is(CHOOSE g : Is(g))
  BY <1>5, Zenon
<1> QED
  BY <1>1, <1>3, <1>6, Zenon

(* The sums of two numbers that begin alike are alike as long as they do. *)
LEMMA SumsAgree ==
    \A N, M \in Nat : \A t, u, g, h :
        /\ N <= M
        /\ AddsUp(t, N, g) /\ AddsUp(u, M, h)
        /\ \A i \in 1..N : t[i] = u[i] /\ t[i] \in Int
        => g[1..N] \in Int /\ h[1..N] = g[1..N]
<1> SUFFICES ASSUME NEW N \in Nat, NEW M \in Nat, N <= M, NEW t, NEW u, NEW g, NEW h,
                    AddsUp(t, N, g), AddsUp(u, M, h),
                    \A i \in 1..N : t[i] = u[i] /\ t[i] \in Int
             PROVE  g[1..N] \in Int /\ h[1..N] = g[1..N]
  OBVIOUS
<1> DEFINE T == {n \in Nat : n <= N => g[1..n] \in Int /\ h[1..n] = g[1..n]}
<1>1. /\ g[1..0] = 0 /\ h[1..0] = 0
      /\ \A n \in Nat : n + 1 <= N => g[1..(n + 1)] = g[1..n] + t[n + 1]
      /\ \A n \in Nat : n + 1 <= M => h[1..(n + 1)] = h[1..n] + u[n + 1]
  BY AddedSoFar
<1>2. 0 \in T
  BY <1>1
<1>3. ASSUME NEW n \in Nat, n \in T PROVE n + 1 \in T
  <2> SUFFICES ASSUME n + 1 <= N
               PROVE  g[1..(n + 1)] \in Int /\ h[1..(n + 1)] = g[1..(n + 1)]
    OBVIOUS
  <2>1. PICK a, b : a = g[1..n] /\ b = t[n + 1]
    OBVIOUS
  <2>2. a \in Int /\ h[1..n] = a
    BY <1>3, <2>1
  <2>3. b \in Int /\ u[n + 1] = b
    BY <2>1
  <2>4. g[1..(n + 1)] = a + b /\ h[1..(n + 1)] = a + b
    BY <1>1, <2>1, <2>2, <2>3
  <2> QED
    BY <2>2, <2>3, <2>4
<1> HIDE DEF T
<1>4. \A n \in Nat : n \in T
  BY <1>2, <1>3, AllNumbers
<1> QED
  BY <1>4 DEF T

LEMMA WeightedIsInt ==
    ASSUME NEW p, NEW i \in Nat, p[i] \in Int
    PROVE  /\ WeightedDigit(p, i) \in Int
           /\ i % 2 = 1 => WeightedDigit(p, i) = p[i]
<1>1. PICK d : d = p[i]
  OBVIOUS
<1>2. d \in Int /\ WeightedDigit(p, i) = (IF i % 2 = 0 THEN 3 ELSE 1) * d
  BY <1>1 DEF WeightedDigit
<1>3. CASE i % 2 = 0
  <2>1. WeightedDigit(p, i) = 3 * d /\ i % 2 # 1
    BY <1>2, <1>3
  <2> QED
    BY <1>2, <2>1
<1>4. CASE i % 2 # 0
  <2>1. WeightedDigit(p, i) = 1 * d
    BY <1>2, <1>4
  <2> QED
    BY <1>1, <1>2, <2>1
<1> QED
  BY <1>3, <1>4

(* What is added to make a multiple of ten is a digit, also after a multiple. *)
LEMMA CheckDigitIs ==
    ASSUME NEW s \in Int
    PROVE  /\ (10 - (s % 10)) % 10 \in 0..9
           /\ (s + ((10 - (s % 10)) % 10)) % 10 = 0
<1>1. PICK r : r = s % 10
  OBVIOUS
<1>2. r \in 0..9
  BY <1>1
<1>3. CASE r = 0
  BY <1>1, <1>3
<1>4. CASE r # 0
  <2>1. (10 - r) % 10 = 10 - r
    BY <1>2, <1>4
  <2>2. (s + (10 - r)) % 10 = 0
    BY <1>1, <1>2
  <2> QED
    BY <1>1, <1>2, <2>1, <2>2
<1> QED
  BY <1>3, <1>4

(* A last digit at an odd place is added to the sum of those before it. *)
LEMMA TotalGrows ==
    ASSUME NEW N \in Nat, N % 2 = 0,
           NEW p, DOMAIN p = 1..N, \A i \in 1..N : p[i] \in Int,
           NEW q, DOMAIN q = 1..(N + 1), \A i \in 1..N : q[i] = p[i], q[N + 1] \in Int
    PROVE  \E s \in Int : /\ checksumISBN13(p) = Append(p, (10 - (s % 10)) % 10)
                          /\ Total(q) = s + q[N + 1]
<1> DEFINE t == [i \in 1..N |-> WeightedDigit(p, i)]
           u == [i \in 1..(N + 1) |-> WeightedDigit(q, i)]
<1>1. PICK g : /\ AddsUp(t, N, g)
               /\ checksumISBN13(p) = Append(p, (10 - (g[1..N] % 10)) % 10)
  BY ChecksumIs
<1>2. PICK h : AddsUp(u, N + 1, h) /\ Total(q) = h[1..(N + 1)]
  <2>1. \A i \in 1..(N + 1) : q[i] \in Int
    OBVIOUS
  <2>2. N + 1 \in Nat
    OBVIOUS
  <2> QED
    BY <2>1, <2>2, TotalIs
<1>3. ASSUME NEW i \in 1..N PROVE t[i] = u[i] /\ t[i] \in Int
  <2>1. i \in Nat /\ p[i] \in Int /\ q[i] = p[i] /\ i \in 1..(N + 1)
    OBVIOUS
  <2>2. WeightedDigit(p, i) \in Int
    BY <2>1, WeightedIsInt
  <2>3. WeightedDigit(q, i) = WeightedDigit(p, i)
    BY <2>1 DEF WeightedDigit
  <2> QED
    BY <2>1, <2>2, <2>3
<1>4. u[N + 1] = q[N + 1]
  <2>1. N + 1 \in 1..(N + 1) /\ N + 1 \in Nat /\ (N + 1) % 2 = 1
    OBVIOUS
  <2>2. WeightedDigit(q, N + 1) = q[N + 1]
    BY <2>1, WeightedIsInt
  <2> QED
    BY <2>1, <2>2
<1> HIDE DEF t, u
<1>5. g[1..N] \in Int /\ h[1..N] = g[1..N]
  <2>1. N + 1 \in Nat /\ N <= N + 1
    OBVIOUS
  <2> QED
    <3>1. \A i \in 1..N : t[i] = u[i] /\ t[i] \in Int
      BY <1>3
    <3>2. AddsUp(t, N, g) /\ AddsUp(u, N + 1, h)
      BY <1>1, <1>2
    <3> QED
      BY <2>1, <3>1, <3>2, SumsAgree
<1>6. h[1..(N + 1)] = h[1..N] + u[N + 1]
  <2>1. N + 1 \in Nat /\ N + 1 <= N + 1
    OBVIOUS
  <2>2. \A n \in Nat : n + 1 <= N + 1 => h[1..(n + 1)] = h[1..n] + u[n + 1]
    BY <1>2, <2>1, AddedSoFar
  <2> QED
    BY <2>1, <2>2
<1> QED
  BY <1>1, <1>2, <1>4, <1>5, <1>6

LEMMA ChecksumIsSum ==
    ASSUME NEW N \in Nat, NEW p, DOMAIN p = 1..N, \A i \in 1..N : p[i] \in Int
    PROVE  \E s \in Int : checksumISBN13(p) = Append(p, (10 - (s % 10)) % 10)
<1> DEFINE t == [i \in 1..N |-> WeightedDigit(p, i)]
<1>1. PICK g : /\ AddsUp(t, N, g)
               /\ checksumISBN13(p) = Append(p, (10 - (g[1..N] % 10)) % 10)
  BY ChecksumIs
<1>2. \A i \in 1..N : t[i] = t[i] /\ t[i] \in Int
  <2>1. ASSUME NEW i \in 1..N PROVE t[i] \in Int
    <3>1. i \in Nat /\ p[i] \in Int
      OBVIOUS
    <3>2. WeightedDigit(p, i) \in Int
      BY <3>1, WeightedIsInt
    <3> QED
      BY <3>2
  <2> QED
    BY <2>1
<1> HIDE DEF t
<1>3. g[1..N] \in Int
  <2>1. N <= N
    OBVIOUS
  <2> QED
    BY <1>1, <1>2, <2>1, SumsAgree
<1> QED
  BY <1>1, <1>3

LEMMA ChecksumIsRight ==
    \A N \in Nat : \A p \in Seq(Digit) : Len(p) = N /\ N % 2 = 0
       => /\ checksumISBN13(p) \in Seq(Digit) /\ Len(checksumISBN13(p)) = N + 1
          /\ Total(checksumISBN13(p)) % 10 = 0
<1> SUFFICES ASSUME NEW N \in Nat, NEW p \in Seq(Digit), Len(p) = N, N % 2 = 0
             PROVE  /\ checksumISBN13(p) \in Seq(Digit) /\ Len(checksumISBN13(p)) = N + 1
                    /\ Total(checksumISBN13(p)) % 10 = 0
  OBVIOUS
<1>1. Digit \subseteq Int /\ \A c \in 0..9 : c \in Digit
  BY DEF Digit
<1>2. DOMAIN p = 1..N /\ \A i \in 1..N : p[i] \in Digit
  OBVIOUS
<1>3. \A i \in 1..N : p[i] \in Int
  BY <1>1, <1>2
<1>4. PICK s \in Int : checksumISBN13(p) = Append(p, (10 - (s % 10)) % 10)
  BY <1>2, <1>3, ChecksumIsSum
<1>5. PICK c : c = (10 - (s % 10)) % 10
  OBVIOUS
<1>6. c \in Digit /\ c \in Int
  BY <1>1, <1>5, CheckDigitIs
<1>7. PICK q : q = Append(p, c)
  OBVIOUS
<1>8. /\ q \in Seq(Digit) /\ Len(q) = N + 1 /\ q[N + 1] = c
      /\ \A i \in 1..N : q[i] = p[i]
  BY <1>6, <1>7, AppendProperties
<1>9. DOMAIN q = 1..(N + 1)
  BY <1>8
<1>10. q[N + 1] \in Int
  BY <1>6, <1>8
<1>11. checksumISBN13(p) = q
  BY <1>4, <1>5, <1>7
<1>12. PICK r \in Int : /\ checksumISBN13(p) = Append(p, (10 - (r % 10)) % 10)
                        /\ Total(q) = r + q[N + 1]
  BY <1>2, <1>3, <1>8, <1>9, <1>10, TotalGrows
<1>13. PICK d : d = (10 - (r % 10)) % 10
  OBVIOUS
<1>14. d \in Digit /\ (r + d) % 10 = 0
  BY <1>1, <1>13, CheckDigitIs
<1>15. q = Append(p, d)
  BY <1>11, <1>12, <1>13
<1>16. q[N + 1] = d
  BY <1>14, <1>15, AppendProperties
<1> QED
  BY <1>8, <1>11, <1>12, <1>14, <1>16

(* A document as far as it is filled, and what FieldsValid says of it. *)
Doc == [kind : Kind, year : Int, cast : Seq(Actors), isbn : Seq(Digit)]

Valid(d) ==
    /\ d.year # 0 => d.year <= ThisYear /\ d.year >= IF d.kind = "movie" THEN 1980 ELSE 1900
    /\ IsInjective(d.cast)
    /\ d.isbn # <<>> =>
          Len(d.isbn) = 13 /\ ToSet(d.isbn) \subseteq 0..9 /\ Total(d.isbn) % 10 = 0

LEMMA FieldsAre == FieldsValid <=> Valid(doc)
BY DEF FieldsValid, Valid, Total

FieldInv == doc \in Doc /\ FieldsValid

LEMMA FieldsOf ==
    ASSUME NEW d \in Doc, Valid(d), doc' = d PROVE FieldInv'
<1>1. Valid(doc)'
  BY DEF Valid
<1>2. FieldsValid' <=> Valid(doc)'
  BY FieldsAre, PTL
<1> QED
  BY <1>1, <1>2 DEF FieldInv, Doc

(* The fields of a document that satisfies the invariant. *)
LEMMA FieldsNow ==
    ASSUME FieldInv
    PROVE  /\ doc = [kind |-> doc.kind, year |-> doc.year, cast |-> doc.cast, isbn |-> doc.isbn]
           /\ doc \in Doc /\ Valid(doc)
           /\ doc.kind \in Kind /\ doc.year \in Int
           /\ doc.cast \in Seq(Actors) /\ doc.isbn \in Seq(Digit)
<1>1. doc \in Doc /\ Valid(doc)
  BY FieldsAre DEF FieldInv
<1> QED
  BY <1>1 DEF Doc

LEMMA NothingFilled ==
    ASSUME NEW d, d.year = 0, d.cast = <<>>, d.isbn = <<>> PROVE Valid(d)
<1>1. IsInjective(d.cast)
  BY DEF IsInjective
<1> QED
  BY <1>1 DEF Valid

LEMMA NoFields ==
    ASSUME NEW k \in Kind, doc' = [NoDoc EXCEPT !.kind = k] PROVE FieldInv'
<1>1. PICK d : d = [NoDoc EXCEPT !.kind = k]
  OBVIOUS
<1>2. d = [kind |-> k, year |-> 0, cast |-> <<>>, isbn |-> <<>>]
  BY <1>1 DEF NoDoc
<1>3. <<>> \in Seq(Actors) /\ <<>> \in Seq(Digit)
  OBVIOUS
<1>4. d \in Doc
  BY <1>2, <1>3 DEF Doc
<1>5. Valid(d)
  BY <1>2, NothingFilled
<1> QED
  BY <1>1, <1>4, <1>5, FieldsOf

LEMMA IsbnFields == ASSUME FieldInv, Isbn PROVE FieldInv'
<1>1. PICK digits \in Numbers :
          doc' = [doc EXCEPT !.isbn = checksumISBN13(<<9, 7, 8>> \o digits)]
  BY DEF Isbn
<1>2. digits \in Seq(Digit) /\ Len(digits) = 9
  <2>1. digits \in [1..9 -> 0..9]
    BY GeneratorAssumption
  <2>2. digits \in [1..9 -> Digit] /\ 9 \in Nat
    BY <2>1 DEF Digit
  <2>3. digits \in Seq(Digit)
    BY <2>2, SeqDef
  <2>4. DOMAIN digits = 1..9
    BY <2>2
  <2>5. PICK n : n = Len(digits)
    OBVIOUS
  <2>6. n \in Nat /\ 1..n = 1..9
    BY <2>3, <2>4, <2>5, LenProperties
  <2>7. n = 9
    BY <2>6
  <2> QED
    BY <2>3, <2>5, <2>7, Zenon
<1>3. <<9, 7, 8>> \in Seq(Digit) /\ Len(<<9, 7, 8>>) = 3
  BY DEF Digit
<1>4. PICK p, q : p = <<9, 7, 8>> \o digits /\ q = checksumISBN13(p)
  OBVIOUS
<1>5. p \in Seq(Digit) /\ Len(p) = 12
  <2>1. PICK prefix : prefix = <<9, 7, 8>>
    OBVIOUS
  <2>2. prefix \in Seq(Digit) /\ Len(prefix) = 3 /\ p = prefix \o digits
    BY <1>3, <1>4, <2>1
  <2>3. p \in Seq(Digit) /\ Len(p) = Len(prefix) + Len(digits)
    BY <1>2, <2>2, ConcatProperties
  <2>4. Len(p) = 3 + 9
    BY <1>2, <2>2, <2>3, Zenon
  <2>5. 3 + 9 = 12
    OBVIOUS
  <2> QED
    BY <2>3, <2>4, <2>5, Zenon
<1>6. q \in Seq(Digit) /\ Len(q) = 12 + 1 /\ Total(q) % 10 = 0
  <2>1. 12 \in Nat /\ 12 % 2 = 0
    OBVIOUS
  <2> QED
    BY <1>4, <1>5, <2>1, ChecksumIsRight
<1>7. doc' = [kind |-> doc.kind, year |-> doc.year, cast |-> doc.cast, isbn |-> q]
  <2>1. doc' = [doc EXCEPT !.isbn = q]
    BY <1>1, <1>4
  <2> QED
    BY <2>1, FieldsNow
<1>8. PICK d : d = [kind |-> doc.kind, year |-> doc.year, cast |-> doc.cast, isbn |-> q]
  OBVIOUS
<1>9. d \in Doc
  BY <1>6, <1>8, FieldsNow DEF Doc
<1>10. ToSet(q) \subseteq 0..9
  <2>1. q \in Seq(Digit)
    BY <1>6
  <2>2. \A i \in DOMAIN q : q[i] \in Digit
    BY <2>1
  <2> QED
    BY <2>2 DEF ToSet, Digit
<1>11. Len(q) = 13
  BY <1>6
<1>12. Valid(d)
  BY <1>6, <1>8, <1>10, <1>11, FieldsNow DEF Valid
<1> QED
  BY <1>7, <1>8, <1>9, <1>12, FieldsOf

(* With three years or more to choose from, the clamp stays above the first.  *)
LEMMA YearsAre ==
    ASSUME NEW min \in Nat, NEW max \in Nat, (max - min + 1) \div 3 > 0,
           NEW y \in weightedYear(min, max)
    PROVE  y \in Int /\ min <= y /\ y <= max
<1>1. PICK r, b : r = max - min + 1 /\ b = r \div 3
  OBVIOUS
<1>2. r \in Int /\ b \in Int /\ b > 0 /\ r >= 3
  BY <1>1
<1>3. \/ \E base \in min..max, boost \in 0..(b - 1) : y = base + boost /\ y <= max
      \/ \E n \in 0..2 : y = max - n
  BY <1>1 DEF weightedYear
<1>4. CASE \E base \in min..max, boost \in 0..(b - 1) : y = base + boost /\ y <= max
  BY <1>4, <1>2
<1>5. CASE \E n \in 0..2 : y = max - n
  BY <1>1, <1>2, <1>5
<1> QED
  BY <1>3, <1>4, <1>5

LEMMA YearFields == ASSUME FieldInv, Year PROVE FieldInv'
<1>1. PICK min : min = IF doc.kind = "movie" THEN 1980 ELSE 1900
  OBVIOUS
<1>2. min \in Nat /\ ThisYear \in Nat /\ min > 0
  BY <1>1, GeneratorAssumption
<1>3. CASE doc' = doc
  BY <1>3, FieldsNow, FieldsOf
<1>4. CASE doc' # doc
  <2>1. /\ (ThisYear - min + 1) \div 3 > 0
        /\ \E y \in weightedYear(min, ThisYear) : doc' = [doc EXCEPT !.year = y]
    <3>1. ~(ThisYear - min + 1 <= 0 \/ (ThisYear - min + 1) \div 3 <= 0)
      BY <1>1, <1>4 DEF Year
    <3>2. doc' \in {[doc EXCEPT !.year = y] : y \in weightedYear(min, ThisYear)}
      BY <1>1, <1>4 DEF Year
    <3>3. (ThisYear - min + 1) \div 3 \in Int
      BY <1>2
    <3> QED
      BY <3>1, <3>2, <3>3
  <2>2. PICK y \in weightedYear(min, ThisYear) : doc' = [doc EXCEPT !.year = y]
    BY <2>1
  <2>3. y \in Int /\ min <= y /\ y <= ThisYear
    BY <1>2, <2>1, YearsAre
  <2>4. doc' = [kind |-> doc.kind, year |-> y, cast |-> doc.cast, isbn |-> doc.isbn]
    BY <2>2, FieldsNow
  <2>5. y >= IF doc.kind = "movie" THEN 1980 ELSE 1900
    BY <1>1, <2>3
  <2>6. PICK d : d = [kind |-> doc.kind, year |-> y, cast |-> doc.cast, isbn |-> doc.isbn]
    OBVIOUS
  <2>7. d \in Doc
    BY <2>3, <2>6, FieldsNow DEF Doc
  <2>8. Valid(d)
    BY <2>3, <2>5, <2>6, FieldsNow DEF Valid
  <2> QED
    BY <2>4, <2>6, <2>7, <2>8, FieldsOf
<1> QED
  BY <1>3, <1>4

(* A name is added to those it is not among. *)
LEMMA CastFields == ASSUME FieldInv, CastOne PROVE FieldInv'
<1>1. PICK a \in Actors \ ToSet(doc.cast) : doc' = [doc EXCEPT !.cast = Append(@, a)]
  BY DEF CastOne
<1>2. PICK cs, ds : cs = doc.cast /\ ds = Append(cs, a)
  OBVIOUS
<1>3. cs \in Seq(Actors) /\ IsInjective(cs)
  BY <1>2, FieldsNow DEF Valid
<1>4. ds \in Seq(Actors) /\ Len(ds) = Len(cs) + 1 /\ ds[Len(cs) + 1] = a
      /\ \A i \in 1..Len(cs) : ds[i] = cs[i]
  BY <1>2, <1>3, AppendProperties
<1>5. \A i \in 1..Len(cs) : cs[i] # a
  <2>1. a \notin ToSet(cs)
    BY <1>1, <1>2
  <2> QED
    BY <1>3, <2>1 DEF ToSet
<1>6. \A i, j \in 1..Len(cs) : cs[i] = cs[j] => i = j
  BY <1>3 DEF IsInjective
<1>7. IsInjective(ds)
  <2>1. PICK n : n = Len(cs)
    OBVIOUS
  <2>2. n \in Nat /\ DOMAIN ds = 1..(n + 1)
    BY <1>3, <1>4, <2>1
  <2>3. ASSUME NEW i \in 1..(n + 1), NEW j \in 1..(n + 1), ds[i] = ds[j] PROVE i = j
    <3>1. (i \in 1..n \/ i = n + 1) /\ (j \in 1..n \/ j = n + 1)
      BY <2>2
    <3> QED
      BY <1>4, <1>5, <1>6, <2>1, <2>3, <3>1
  <2> QED
    BY <2>2, <2>3 DEF IsInjective
<1>8. doc' = [kind |-> doc.kind, year |-> doc.year, cast |-> ds, isbn |-> doc.isbn]
  <2>1. doc' = [doc EXCEPT !.cast = ds]
    BY <1>1, <1>2
  <2> QED
    BY <2>1, FieldsNow
<1>9. PICK d : d = [kind |-> doc.kind, year |-> doc.year, cast |-> ds, isbn |-> doc.isbn]
  OBVIOUS
<1>10. d \in Doc
  BY <1>4, <1>9, FieldsNow DEF Doc
<1>11. Valid(d)
  BY <1>7, <1>9, FieldsNow DEF Valid
<1> QED
  BY <1>8, <1>9, <1>10, <1>11, FieldsOf

LEMMA InitFields == ASSUME GenInit PROVE FieldInv
<1>1. doc = [kind |-> "movie", year |-> 0, cast |-> <<>>, isbn |-> <<>>]
  BY DEF GenInit, NoDoc
<1>2. <<>> \in Seq(Actors) /\ <<>> \in Seq(Digit) /\ "movie" \in Kind
  BY DEF Kind
<1>3. doc \in Doc
  BY <1>1, <1>2 DEF Doc
<1>4. Valid(doc)
  BY <1>1, NothingFilled
<1> QED
  BY <1>3, <1>4, FieldsAre DEF FieldInv

(* Every document has a year between the first of its kind and the present    *)
(* one, a cast without repetition and an ISBN-13 with its check digit, for    *)
(* every draw (common.go:142-196, books.go:65-68).                            *)
THEOREM DocumentsAreValid == GenSpec => []FieldsValid
<1>1. GenInit => FieldInv
  BY InitFields
<1>2. ASSUME FieldInv, [GenNext]_genVars PROVE FieldInv'
  <2>1. ASSUME NEW k \in Kind, Begin(k) PROVE FieldInv'
    BY <2>1, NoFields DEF Begin
  <2>2. CASE Deliver \/ Restart
    <3>1. doc' = [NoDoc EXCEPT !.kind = "movie"] /\ "movie" \in Kind
      BY <2>2 DEF Deliver, Restart, NoDoc, Kind
    <3> QED
      BY <3>1, NoFields
  <2>3. CASE Pass \/ UNCHANGED genVars
    <3>1. doc' = doc
      BY <2>3 DEF Pass, genVars
    <3> QED
      BY <1>2, <3>1, FieldsNow, FieldsOf
  <2> QED
    BY <1>2, <2>1, <2>2, <2>3, IsbnFields, YearFields, CastFields DEF GenNext
<1>3. FieldInv => FieldsValid
  BY DEF FieldInv
<1> QED
  BY <1>1, <1>2, <1>3, PTL DEF GenSpec
=============================================================================
