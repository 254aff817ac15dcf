---------------------------- MODULE QueryProofs ----------------------------
(***************************************************************************)
(* What SELECTs answer, for any columns, statements, size of a chunk and   *)
(* number of rows: plain columns, GROUP BY and aggregates answer as SQL    *)
(* says, when the statements are such as SelectsFit, GroupsFit and         *)
(* AggregatesFit describe.                                                 *)
(*                                                                         *)
(* Each is shown of the states that the invariants of OneTableProofs and   *)
(* two more describe: Replied, that the reply is what the plan of the last *)
(* SELECT gives in this state, and RowsInChunks, that the rows are what    *)
(* the chunks and the buffer have, one after the other.                    *)
(***************************************************************************)
EXTENDS OneTableProofs

-----------------------------------------------------------------------------
(* Lists. *)

(* Induction over the numbers up to n, as membership in a set. *)
LEMMA UpTo ==
    ASSUME NEW n \in Nat, NEW A, 0 \in A, \A k \in 1..n : k - 1 \in A => k \in A
    PROVE  \A k \in 0..n : k \in A
  <1> DEFINE B == {k \in 0..n : k \notin A}
  <1> SUFFICES ASSUME B # {} PROVE FALSE
    OBVIOUS
  <1>1. B \in SUBSET Nat
    OBVIOUS
  <1>2. PICK k \in B : \A m \in B : k <= m
    <2> HIDE DEF B
    <2> QED
      BY <1>1, Smallest
  <1>3. k # 0 /\ k \in 1..n /\ k - 1 \in 0..n
    BY <1>2
  <1>4. k - 1 \notin B
    BY <1>2, <1>3
  <1> QED
    BY <1>2, <1>3, <1>4

(* The places of a sequence are finitely many. *)
LEMMA FinitePlaces ==
    ASSUME NEW n \in Nat, NEW P \in SUBSET (1..n)
    PROVE  IsFiniteSet(P) /\ P \in SUBSET Int
  <1>1. IsFiniteSet(1..n)
    BY FS_Interval
  <1>2. IsFiniteSet(P)
    BY <1>1, FS_Subset
  <1> QED
    BY <1>2

(* Some places of a sequence, in ascending order. *)
LEMMA AscendingIs ==
    ASSUME NEW P \in SUBSET Int, IsFiniteSet(P)
    PROVE  LET at == Ascending(P)
           IN  /\ at \in SetToSeqs(P)
               /\ \A i, j \in DOMAIN at : i < j => at[i] < at[j]
  <1> DEFINE R == {p \in P \X P : p[1] < p[2]}
  <1>2. \A x, y \in P : <<x, y>> \in R <=> x < y
    OBVIOUS
  <1>3. \A x, y \in P : x \in Int /\ y \in Int
    OBVIOUS
  <1>4. \A x \in P : {y \in P : y < x} = Below(P, R, x)
    BY <1>2 DEF Below
  <1> HIDE DEF R
  <1>5. StrictOrder(P, R)
    BY <1>2, <1>3 DEF StrictOrder
  <1>6. PICK s : ListsInOrder(s, P, R)
    BY <1>5, OrderedList
  <1> USE <1>6 DEF ListsInOrder
  <1>7. \A k \in 1..Cardinality(P) :
           s[k] = CHOOSE x \in P : Cardinality({y \in P : y < x}) = k - 1
    BY <1>4
  <1>8. s = [k \in 1..Cardinality(P) |-> s[k]]
    BY DEF SetToSeqs
  <1>9. Ascending(P) = s
    BY <1>7, <1>8 DEF Ascending, Listed
  <1>10. \A i, j \in DOMAIN s : i < j => s[i] < s[j]
    BY <1>2
  <1> QED
    BY <1>9, <1>10

(* An ascending list of all numbers up to n is these numbers. *)
LEMMA AscendingOfAll ==
    ASSUME NEW n \in Nat
    PROVE  Ascending(1..n) = [k \in 1..n |-> k]
  <1> DEFINE at == Ascending(1..n)
  <1>1. IsFiniteSet(1..n) /\ Cardinality(1..n) = n
    BY FS_Interval
  <1>2. at \in SetToSeqs(1..n) /\ \A i, j \in DOMAIN at : i < j => at[i] < at[j]
    BY <1>1, AscendingIs
  <1> HIDE DEF at
  <1>3. /\ DOMAIN at = 1..n /\ \A k \in 1..n : at[k] \in 1..n
        /\ \A x \in 1..n : \E k \in 1..n : at[k] = x
    <2> DEFINE S == 1..n
    <2> HIDE DEF S
    <2>1. /\ DOMAIN at = 1..Cardinality(S) /\ \A k \in DOMAIN at : at[k] \in S
          /\ \A x \in S : \E k \in DOMAIN at : at[k] = x
      BY <1>1, <1>2, ListsAll DEF S
    <2> QED
      BY <1>1, <2>1 DEF S
  <1> DEFINE A == {k \in 0..n : \A i \in 1..k : at[i] = i}
  <1>4. \A k \in 1..n : k - 1 \in A => k \in A
    <2> SUFFICES ASSUME NEW k \in 1..n, \A i \in 1..k - 1 : at[i] = i PROVE at[k] = k
      OBVIOUS
    <2>1. PICK l \in 1..n : at[l] = k
      BY <1>3
    <2>2. ~ (l < k)
      BY <2>1
    <2>3. ~ (l > k)
      <3> SUFFICES ASSUME k < l PROVE FALSE
        BY <2>1
      <3>1. at[k] < k /\ at[k] \in 1..n
        BY <1>2, <1>3, <2>1
      <3>2. at[k] \in 1..k - 1
        BY <3>1
      <3>3. at[at[k]] = at[k]
        BY <3>2
      <3>4. at[at[k]] < at[k]
        BY <1>2, <1>3, <3>1
      <3> QED
        BY <3>1, <3>3, <3>4
    <2> QED
      BY <2>1, <2>2, <2>3
  <1>5. 0 \in A
    OBVIOUS
  <1>6. n \in A
    <2> HIDE DEF A
    <2> QED
      BY <1>4, <1>5, UpTo
  <1> QED
    BY <1>2, <1>3, <1>6 DEF SetToSeqs, at

(* A filter of a sequence. *)
LEMMA ThoseAre ==
    ASSUME NEW seq, NEW n \in Nat, DOMAIN seq = 1..n, NEW P \in SUBSET (1..n)
    PROVE  \E at \in SetToSeqs(P) :
              /\ IsFiniteSet(P) /\ DOMAIN at = 1..Cardinality(P)
              /\ Cardinality(P) \in Nat
              /\ \A i, j \in DOMAIN at : i < j => at[i] < at[j]
              /\ Those(seq, P) = [k \in DOMAIN at |-> seq[at[k]]]
  <1>1. /\ IsFiniteSet(P) /\ Ascending(P) \in SetToSeqs(P)
        /\ \A i, j \in DOMAIN Ascending(P) : i < j => Ascending(P)[i] < Ascending(P)[j]
    BY FinitePlaces, AscendingIs
  <1>2. DOMAIN Ascending(P) = 1..Cardinality(P) /\ Cardinality(P) \in Nat
    BY <1>1, ListsAll
  <1> QED
    BY <1>1, <1>2 DEF Those

(* A filter that leaves nothing out. *)
LEMMA ThoseAll ==
    ASSUME NEW X, NEW seq \in Seq(X)
    PROVE  Those(seq, DOMAIN seq) = seq
  <1>1. DOMAIN seq = 1..Len(seq) /\ Len(seq) \in Nat
    OBVIOUS
  <1>2. Ascending(DOMAIN seq) = [k \in 1..Len(seq) |-> k]
    BY <1>1, AscendingOfAll
  <1> QED
    BY <1>1, <1>2 DEF Those

-----------------------------------------------------------------------------
(* Sums. *)

(* A function defined from one number to the next. *)
Folds(f, R, base, step, n) ==
    /\ f \in [0..n -> R] /\ f[0] = base
    /\ \A i \in 1..n : f[i] = step[i][f[i - 1]]

(* There is such a function for any steps. *)
LEMMA FoldExists ==
    ASSUME NEW n \in Nat, NEW R, NEW base \in R, NEW step,
           \A i \in 1..n : step[i] \in [R -> R]
    PROVE  \E f : Folds(f, R, base, step, n)
  <1> DEFINE A == {k \in 0..n : \E f : Folds(f, R, base, step, k)}
  <1>1. 0 \in A
    <2>1. Folds([i \in 0..0 |-> base], R, base, step, 0)
      BY DEF Folds
    <2> QED
      BY <2>1
  <1>2. ASSUME NEW k \in 1..n, k - 1 \in A PROVE k \in A
    <2>1. PICK f : Folds(f, R, base, step, k - 1)
      BY <1>2
    <2> USE DEF Folds
    <2> DEFINE g == [i \in 0..k |-> IF i = k THEN step[k][f[k - 1]] ELSE f[i]]
    <2>2. f[k - 1] \in R /\ step[k] \in [R -> R]
      BY <2>1
    <2>3. g \in [0..k -> R] /\ g[0] = base
      BY <2>1, <2>2
    <2>4. ASSUME NEW i \in 1..k PROVE g[i] = step[i][g[i - 1]]
      <3>1. CASE i = k
        BY <3>1
      <3>2. CASE i # k
        <4>1. i \in 1..k - 1 /\ i - 1 # k
          BY <3>2
        <4> QED
          BY <2>1, <4>1
      <3> QED
        BY <3>1, <3>2
    <2> HIDE DEF g
    <2>5. Folds(g, R, base, step, k)
      BY <2>3, <2>4
    <2> QED
      BY <2>5
  <1> HIDE DEF A
  <1>3. \A k \in 0..n : k \in A
    BY <1>1, <1>2, UpTo
  <1>4. n \in A
    BY <1>3
  <1> QED
    BY <1>4 DEF A

(* f has the sums of the first of some numbers. *)
SumsOf(f, g, n) ==
    /\ f \in [0..n -> Int] /\ f[0] = 0
    /\ \A i \in 1..n : f[i] = f[i - 1] + g[i]

(* Any numbers have sums. *)
LEMMA SumsExist ==
    ASSUME NEW n \in Nat, NEW g, \A i \in 1..n : g[i] \in Int
    PROVE  \E f : SumsOf(f, g, n)
  <1> DEFINE step == [i \in 1..n |-> [r \in Int |-> r + g[i]]]
  <1>1. \A i \in 1..n : step[i] \in [Int -> Int]
    OBVIOUS
  <1>2. \A i \in 1..n : \A r \in Int : step[i][r] = r + g[i]
    OBVIOUS
  <1> HIDE DEF step
  <1>3. PICK f : Folds(f, Int, 0, step, n)
    <2> DEFINE R == Int
    <2>1. 0 \in R /\ \A i \in 1..n : step[i] \in [R -> R]
      BY <1>1
    <2> HIDE DEF R
    <2>2. \E f : Folds(f, R, 0, step, n)
      BY <2>1, FoldExists
    <2> QED
      BY <2>2 DEF R
  <1>4. f \in [0..n -> Int] /\ f[0] = 0 /\ \A i \in 1..n : f[i - 1] \in Int /\ f[i] = step[i][f[i - 1]]
    BY <1>3 DEF Folds
  <1>5. \A i \in 1..n : f[i] = f[i - 1] + g[i]
    BY <1>2, <1>4
  <1>6. SumsOf(f, g, n)
    BY <1>4, <1>5 DEF SumsOf
  <1> QED
    BY <1>6

(* The sums of consecutive ones of the numbers. *)
LEMMA SumsOfPart ==
    ASSUME NEW n \in Nat, NEW f, NEW g, SumsOf(f, g, n),
           NEW o \in Nat, NEW m \in Nat, o + m <= n, NEW e, NEW d, SumsOf(e, d, m),
           \A j \in 1..m : g[o + j] = d[j] /\ d[j] \in Int
    PROVE  \A j \in 0..m : f[o + j] = f[o] + e[j]
  <1> DEFINE A == {j \in 0..m : f[o + j] = f[o] + e[j]}
  <1>1. 0 \in A
    BY DEF SumsOf
  <1>2. ASSUME NEW j \in 1..m, j - 1 \in A PROVE j \in A
    <2>1. o + j \in 1..n /\ o + j - 1 = o + (j - 1)
      OBVIOUS
    <2>2. f[o + j] = f[o + (j - 1)] + d[j]
      BY <2>1 DEF SumsOf
    <2>3. e[j] = e[j - 1] + d[j]
      BY DEF SumsOf
    <2>4. f[o + (j - 1)] = f[o] + e[j - 1]
      BY <1>2
    <2>5. f[o] \in Int /\ e[j - 1] \in Int /\ d[j] \in Int
      BY DEF SumsOf
    <2>6. j \in 0..m
      OBVIOUS
    <2> QED
      BY <2>2, <2>3, <2>4, <2>5, <2>6
  <1> HIDE DEF A
  <1>3. \A j \in 0..m : j \in A
    BY <1>1, <1>2, UpTo
  <1> QED
    BY <1>3 DEF A

(* The same numbers have the same sums. *)
LEMMA SumsAgree ==
    ASSUME NEW n \in Nat, NEW f, NEW g, SumsOf(f, g, n), NEW e, NEW d, SumsOf(e, d, n),
           \A j \in 1..n : g[j] = d[j] /\ d[j] \in Int
    PROVE  \A j \in 0..n : f[j] = e[j]
  <1>1. \A j \in 1..n : g[0 + j] = d[j]
    OBVIOUS
  <1>2. \A j \in 0..n : f[0 + j] = f[0] + e[j]
    BY <1>1, SumsOfPart
  <1> QED
    BY <1>2 DEF SumsOf

(* One number more. *)
LEMMA SumsWithOneMore ==
    ASSUME NEW n \in Nat, NEW f, NEW g, SumsOf(f, g, n), NEW e, NEW d, SumsOf(e, d, n),
           NEW x \in 1..n, \A j \in 1..n : g[j] \in Int /\ d[j] \in Int,
           \A j \in 1..n : j # x => g[j] = d[j]
    PROVE  f[n] = e[n] + (g[x] - d[x])
  <1> DEFINE A == {j \in 0..n : f[j] = e[j] + (IF x <= j THEN g[x] - d[x] ELSE 0)}
  <1>1. 0 \in A
    BY DEF SumsOf
  <1>2. ASSUME NEW j \in 1..n, j - 1 \in A PROVE j \in A
    <2>1. f[j] = f[j - 1] + g[j] /\ e[j] = e[j - 1] + d[j]
      BY DEF SumsOf
    <2>2. f[j - 1] \in Int /\ e[j - 1] \in Int /\ j \in 0..n
      BY DEF SumsOf
    <2>3. f[j - 1] = e[j - 1] + (IF x <= j - 1 THEN g[x] - d[x] ELSE 0)
      BY <1>2
    <2>4. CASE x = j
      BY <2>1, <2>2, <2>3, <2>4
    <2>5. CASE x < j
      <3>1. g[j] = d[j] /\ x <= j - 1
        BY <2>5
      <3> QED
        BY <2>1, <2>2, <2>3, <2>5, <3>1
    <2>6. CASE x > j
      <3>1. g[j] = d[j] /\ ~ x <= j - 1
        BY <2>6
      <3> QED
        BY <2>1, <2>2, <2>3, <2>6, <3>1
    <2> QED
      BY <2>4, <2>5, <2>6
  <1> HIDE DEF A
  <1>3. n \in A
    BY <1>1, <1>2, UpTo
  <1> QED
    BY <1>3 DEF A

(* A function with the same steps is the same function. *)
LEMMA FoldUnique ==
    ASSUME NEW n \in Nat, NEW R, NEW base, NEW step, NEW f, Folds(f, R, base, step, n),
           NEW h, h[0] = base, \A i \in 1..n : h[i - 1] \in R => h[i] = step[i][h[i - 1]]
    PROVE  \A i \in 0..n : h[i] = f[i]
  <1> DEFINE A == {i \in 0..n : h[i] = f[i]}
  <1> USE DEF Folds
  <1>1. 0 \in A
    OBVIOUS
  <1>2. ASSUME NEW i \in 1..n, i - 1 \in A PROVE i \in A
    <2>1. h[i - 1] = f[i - 1] /\ f[i - 1] \in R /\ i \in 0..n
      BY <1>2
    <2>2. h[i] = f[i]
      BY <2>1
    <2> QED
      BY <2>1, <2>2
  <1> HIDE DEF A
  <1>3. \A i \in 0..n : i \in A
    BY <1>1, <1>2, UpTo
  <1> QED
    BY <1>3 DEF A

(* What a row has in a column. *)
Entries == Literals \cup {Absent}

(* What a row has at a place is a value of a type or nothing. *)
LEMMA EntryShape ==
    ASSUME NEW v \in Entries
    PROVE  /\ v.n \in Nat /\ v = [type |-> v.type, n |-> v.n]
           /\ v.type \in {"int", "float", "string", "null", "absent"}
           /\ v = NullValue <=> v.type = "null"
           /\ v = Absent <=> v.type = "absent"
  BY DEF Entries, Literals, NullValue, Absent

(* The numbers of one type among some values, and zero for the others.     *)
Amounts(values, type) ==
    [i \in DOMAIN values |-> IF values[i].type = type THEN values[i].n ELSE 0]

(* They are numbers, one for each value. *)
LEMMA AmountsAre ==
    ASSUME NEW values \in Seq(Entries), NEW type
    PROVE  /\ Len(values) \in Nat /\ DOMAIN values = 1..Len(values)
           /\ \A i \in 1..Len(values) :
                 /\ values[i] \in Entries /\ values[i].n \in Nat
                 /\ Amounts(values, type)[i] \in Nat
                 /\ Amounts(values, type)[i] = IF values[i].type = type THEN values[i].n ELSE 0
  <1>1. \A i \in 1..Len(values) : values[i] \in Entries /\ values[i].n \in Nat
    BY EntryShape
  <1> QED
    BY <1>1 DEF Amounts

(* The loops over the values compute the sums of these numbers. *)
LEMMA TotalIs ==
    ASSUME NEW values \in Seq(Entries), NEW type
    PROVE  \E f : /\ SumsOf(f, Amounts(values, type), Len(values))
                  /\ Total(values, type) = f[Len(values)]
  <1> DEFINE n == Len(values)
             g == Amounts(values, type)
  <1>1. /\ n \in Nat
        /\ \A i \in 1..n : /\ g[i] \in Int /\ values[i].n \in Nat
                           /\ g[i] = IF values[i].type = type THEN values[i].n ELSE 0
    BY AmountsAre
  <1> HIDE DEF n, g
  <1>2. PICK f : SumsOf(f, g, n)
    BY <1>1, SumsExist
  <1>3. \A i \in 1..n : f[i - 1] \in Int
    BY <1>1, <1>2 DEF SumsOf
  <1>4. ASSUME NEW i \in 1..n
        PROVE  f[i] = IF values[i].type = type THEN f[i - 1] + values[i].n ELSE f[i - 1]
    <2>1. f[i] = f[i - 1] + g[i] /\ f[i - 1] \in Int
      BY <1>2, <1>3 DEF SumsOf
    <2> QED
      BY <1>1, <2>1
  <1> DEFINE loops(h) == h = [i \in 0..n |->
                               IF i = 0 THEN 0
                               ELSE IF values[i].type = type THEN h[i - 1] + values[i].n
                               ELSE h[i - 1]]
             chosen == CHOOSE h : loops(h)
  <1>5. loops(f)
    <2>1. f = [i \in 0..n |-> f[i]] /\ f[0] = 0
      BY <1>2 DEF SumsOf
    <2>2. \A i \in 0..n : f[i] = IF i = 0 THEN 0
                                 ELSE IF values[i].type = type THEN f[i - 1] + values[i].n
                                 ELSE f[i - 1]
      <3> SUFFICES ASSUME NEW i \in 0..n, i # 0
                   PROVE  f[i] = IF values[i].type = type THEN f[i - 1] + values[i].n ELSE f[i - 1]
        BY <2>1
      <3>1. i \in 1..n
        BY <1>1
      <3> QED
        BY <1>4, <3>1
    <2> QED
      BY <2>1, <2>2
  <1>6. loops(chosen)
    BY <1>5
  <1>7. Total(values, type) = chosen[n]
    BY DEF Total, Accumulated, n
  <1> HIDE DEF chosen
  <1>8. /\ chosen[0] = 0
        /\ \A i \in 1..n :
              chosen[i] = IF values[i].type = type THEN chosen[i - 1] + values[i].n
                          ELSE chosen[i - 1]
    BY <1>1, <1>6
  <1>9. \A i \in 0..n : chosen[i] = f[i]
    <2> DEFINE A == {i \in 0..n : chosen[i] = f[i]}
    <2>1. 0 \in A
      BY <1>1, <1>2, <1>8 DEF SumsOf
    <2>2. ASSUME NEW i \in 1..n, i - 1 \in A PROVE i \in A
      <3>1. chosen[i - 1] = f[i - 1] /\ i \in 0..n
        BY <1>1, <2>2
      <3> QED
        BY <1>4, <1>8, <3>1
    <2> HIDE DEF A
    <2>3. \A i \in 0..n : i \in A
      BY <1>1, <2>1, <2>2, UpTo
    <2> QED
      BY <2>3 DEF A
  <1> QED
    BY <1>1, <1>2, <1>7, <1>9 DEF g, n

(* A saturating sum is the sum, or the largest integer if that is less.    *)
LEMMA SaturatedIs ==
    ASSUME NEW values \in Seq(Entries)
    PROVE  /\ Total(values, "int") \in Nat
           /\ Saturated(values) = IF Total(values, "int") > MaxInt THEN MaxInt
                                  ELSE Total(values, "int")
  <1> DEFINE n == Len(values)
             g == Amounts(values, "int")
             step == [i \in 1..n |->
                         [r \in Nat |-> IF r + g[i] > MaxInt THEN MaxInt ELSE r + g[i]]]
  <1>1. /\ n \in Nat
        /\ \A i \in 1..n : /\ g[i] \in Nat /\ values[i].n \in Nat
                           /\ g[i] = IF values[i].type = "int" THEN values[i].n ELSE 0
    BY AmountsAre
  <1>2. PICK f : SumsOf(f, g, n) /\ Total(values, "int") = f[n]
    BY TotalIs
  <1> HIDE DEF n, g
  <1> DEFINE c == [i \in 0..n |-> IF f[i] > MaxInt THEN MaxInt ELSE f[i]]
             loops(h) == h = [i \in 0..n |->
                               IF i = 0 THEN 0
                               ELSE IF values[i].type = "int" THEN SaturatingAdd(h[i - 1], values[i].n)
                               ELSE h[i - 1]]
             chosen == CHOOSE h : loops(h)
  <1>3. \A i \in 0..n : f[i] \in Nat
    <2> DEFINE A == {i \in 0..n : f[i] \in Nat}
    <2>1. 0 \in A
      BY <1>1, <1>2 DEF SumsOf
    <2>2. ASSUME NEW i \in 1..n, i - 1 \in A PROVE i \in A
      <3>1. f[i] = f[i - 1] + g[i] /\ f[i - 1] \in Nat /\ g[i] \in Nat /\ i \in 0..n
        BY <1>1, <1>2, <2>2 DEF SumsOf
      <3>2. f[i] \in Nat
        BY <3>1
      <3> QED
        BY <3>1, <3>2
    <2> HIDE DEF A
    <2>3. \A i \in 0..n : i \in A
      BY <1>1, <2>1, <2>2, UpTo
    <2> QED
      BY <2>3 DEF A
  <1>4. \A i \in 0..n : c[i] \in Nat /\ c[i] <= MaxInt
                        /\ c[i] = IF f[i] > MaxInt THEN MaxInt ELSE f[i]
    BY <1>3, MaxIntAssumption
  <1>5. \A i \in 1..n : i \in 0..n /\ i - 1 \in 0..n /\ f[i] = f[i - 1] + g[i]
    BY <1>1, <1>2 DEF SumsOf
  <1>6. c[0] = 0 /\ DOMAIN c = 0..n /\ c = [i \in 0..n |-> c[i]]
    BY <1>1, <1>2, MaxIntAssumption DEF SumsOf
  <1> HIDE DEF c
  <1>7. ASSUME NEW i \in 1..n
        PROVE  c[i] = IF c[i - 1] + g[i] > MaxInt THEN MaxInt ELSE c[i - 1] + g[i]
    <2>1. f[i - 1] \in Nat /\ f[i] \in Nat /\ g[i] \in Nat /\ f[i] = f[i - 1] + g[i]
      BY <1>1, <1>3, <1>5
    <2>2. /\ c[i] = IF f[i] > MaxInt THEN MaxInt ELSE f[i]
          /\ c[i - 1] = IF f[i - 1] > MaxInt THEN MaxInt ELSE f[i - 1]
      BY <1>4, <1>5
    <2> QED
      BY <2>1, <2>2, MaxIntAssumption
  <1>8. ASSUME NEW r \in Nat, r <= MaxInt, NEW i \in 1..n
        PROVE  (IF values[i].type = "int" THEN SaturatingAdd(r, values[i].n) ELSE r)
                  = IF r + g[i] > MaxInt THEN MaxInt ELSE r + g[i]
    <2>1. CASE values[i].type = "int"
      BY <1>1, <2>1 DEF SaturatingAdd
    <2>2. CASE values[i].type # "int"
      <3>1. g[i] = 0
        BY <1>1, <2>2
      <3> QED
        BY <1>8, <2>2, <3>1, MaxIntAssumption
    <2> QED
      BY <2>1, <2>2
  <1>9. loops(c)
    <2>1. ASSUME NEW i \in 1..n
          PROVE  c[i] = IF values[i].type = "int" THEN SaturatingAdd(c[i - 1], values[i].n)
                        ELSE c[i - 1]
      BY <1>4, <1>5, <1>7, <1>8
    <2>2. \A i \in 0..n : c[i] = IF i = 0 THEN 0
                                 ELSE IF values[i].type = "int"
                                 THEN SaturatingAdd(c[i - 1], values[i].n) ELSE c[i - 1]
      <3> SUFFICES ASSUME NEW i \in 0..n, i # 0
                   PROVE  c[i] = IF values[i].type = "int"
                                 THEN SaturatingAdd(c[i - 1], values[i].n) ELSE c[i - 1]
        BY <1>6
      <3>1. i \in 1..n
        BY <1>1
      <3> QED
        BY <2>1, <3>1
    <2> QED
      BY <1>6, <2>2
  <1>10. loops(chosen)
    BY <1>9
  <1>11. Saturated(values) = chosen[n]
    BY DEF Saturated, Accumulated, n
  <1> HIDE DEF chosen
  <1>12. /\ chosen[0] = 0
         /\ \A i \in 1..n :
               chosen[i] = IF values[i].type = "int" THEN SaturatingAdd(chosen[i - 1], values[i].n)
                           ELSE chosen[i - 1]
    BY <1>1, <1>10
  <1>13. \A i \in 0..n : chosen[i] = c[i]
    <2> DEFINE A == {i \in 0..n : chosen[i] = c[i]}
    <2>1. 0 \in A
      BY <1>1, <1>6, <1>12
    <2>2. ASSUME NEW i \in 1..n, i - 1 \in A PROVE i \in A
      <3>1. chosen[i - 1] = c[i - 1] /\ c[i - 1] \in Nat /\ c[i - 1] <= MaxInt
        BY <1>4, <1>5, <2>2
      <3>2. chosen[i] = c[i]
        BY <1>7, <1>8, <1>12, <3>1
      <3> QED
        BY <1>5, <3>2
    <2> HIDE DEF A
    <2>3. \A i \in 0..n : i \in A
      BY <1>1, <2>1, <2>2, UpTo
    <2> QED
      BY <2>3 DEF A
  <1> QED
    BY <1>1, <1>2, <1>3, <1>4, <1>11, <1>13

(* The sum of some numbers. *)
Sum(g, n) == (CHOOSE f : SumsOf(f, g, n))[n]

Ints(g, n) == \A i \in 1..n : g[i] \in Int

(* The sum is the last of the sums, whichever function has them. *)
LEMMA SumIs ==
    ASSUME NEW n \in Nat, NEW g, Ints(g, n)
    PROVE  /\ \E f : SumsOf(f, g, n)
           /\ \A f : SumsOf(f, g, n) => f[n] = Sum(g, n)
           /\ Sum(g, n) \in Int
  <1>1. \E f : SumsOf(f, g, n)
    BY SumsExist DEF Ints
  <1> DEFINE e == CHOOSE f : SumsOf(f, g, n)
  <1>2. SumsOf(e, g, n)
    BY <1>1
  <1>3. Sum(g, n) = e[n]
    BY DEF Sum
  <1> HIDE DEF e
  <1>4. ASSUME NEW f, SumsOf(f, g, n) PROVE f[n] = e[n]
    BY <1>2, <1>4, SumsAgree DEF Ints
  <1>5. e[n] \in Int
    BY <1>2 DEF SumsOf
  <1> QED
    BY <1>1, <1>3, <1>4, <1>5

(* The same numbers have the same sum. *)
LEMMA SameSum ==
    ASSUME NEW n \in Nat, NEW g, Ints(g, n), NEW d, \A i \in 1..n : g[i] = d[i]
    PROVE  Sum(g, n) = Sum(d, n)
  <1>1. Ints(d, n)
    BY DEF Ints
  <1>2. PICK f : SumsOf(f, g, n)
    BY SumIs
  <1>3. SumsOf(f, d, n)
    BY <1>2 DEF SumsOf
  <1> QED
    BY <1>1, <1>2, <1>3, SumIs

(* Zeros add up to zero. *)
LEMMA SumOfZeros ==
    ASSUME NEW n \in Nat, NEW g, \A i \in 1..n : g[i] = 0
    PROVE  Sum(g, n) = 0
  <1>1. SumsOf([i \in 0..n |-> 0], g, n)
    BY DEF SumsOf
  <1>2. Ints(g, n)
    BY DEF Ints
  <1> QED
    BY <1>1, <1>2, SumIs

(* The sum of natural numbers is one. *)
LEMMA SumOfNaturals ==
    ASSUME NEW n \in Nat, NEW g, \A i \in 1..n : g[i] \in Nat
    PROVE  Sum(g, n) \in Nat
  <1>1. Ints(g, n)
    BY DEF Ints
  <1>2. PICK f : SumsOf(f, g, n)
    BY <1>1, SumIs
  <1> DEFINE A == {i \in 0..n : f[i] \in Nat}
  <1>3. 0 \in A
    BY <1>2 DEF SumsOf
  <1>4. ASSUME NEW i \in 1..n, i - 1 \in A PROVE i \in A
    <2>1. f[i] = f[i - 1] + g[i] /\ f[i - 1] \in Nat /\ g[i] \in Nat /\ i \in 0..n
      BY <1>2, <1>4 DEF SumsOf
    <2>2. f[i] \in Nat
      BY <2>1
    <2> QED
      BY <2>1, <2>2
  <1> HIDE DEF A
  <1>5. \A i \in 0..n : i \in A
    BY <1>3, <1>4, UpTo
  <1>6. f[n] \in Nat
    BY <1>5 DEF A
  <1> QED
    BY <1>1, <1>2, <1>6, SumIs

(* Twice the numbers. *)
LEMMA SumOfDoubles ==
    ASSUME NEW n \in Nat, NEW g, Ints(g, n), NEW d, \A i \in 1..n : d[i] = 2 * g[i]
    PROVE  Sum(d, n) = 2 * Sum(g, n)
  <1>1. PICK f : SumsOf(f, g, n)
    BY SumIs
  <1> DEFINE e == [i \in 0..n |-> 2 * f[i]]
  <1>2. SumsOf(e, d, n)
    <2>1. e \in [0..n -> Int] /\ e[0] = 0
      BY <1>1 DEF SumsOf
    <2>2. ASSUME NEW i \in 1..n PROVE e[i] = e[i - 1] + d[i]
      <3>1. i \in 0..n /\ i - 1 \in 0..n
        OBVIOUS
      <3>2. f[i] = f[i - 1] + g[i] /\ f[i] \in Int /\ f[i - 1] \in Int /\ g[i] \in Int
        BY <1>1, <3>1 DEF SumsOf, Ints
      <3> QED
        BY <3>1, <3>2
    <2> HIDE DEF e
    <2> QED
      BY <2>1, <2>2 DEF SumsOf
  <1>3. Ints(d, n)
    BY DEF Ints
  <1>4. e[n] = Sum(d, n) /\ f[n] = Sum(g, n)
    <2> HIDE DEF e
    <2> QED
      BY <1>1, <1>2, <1>3, SumIs
  <1> QED
    BY <1>4

(* The numbers at some places, and zero elsewhere. *)
Masked(g, P, n) == [i \in 1..n |-> IF i \in P THEN g[i] ELSE 0]

(* They are numbers, zero where they are left out. *)
LEMMA MaskedInts ==
    ASSUME NEW n \in Nat, NEW g, Ints(g, n), NEW P
    PROVE  /\ Ints(Masked(g, P, n), n)
           /\ \A i \in 1..n : Masked(g, P, n)[i] = IF i \in P THEN g[i] ELSE 0
  BY DEF Ints, Masked

(* One more place adds its number to the sum. *)
LEMMA MaskedWithOneMore ==
    ASSUME NEW n \in Nat, NEW g, Ints(g, n), NEW P, NEW x \in 1..n, x \notin P
    PROVE  Sum(Masked(g, P \cup {x}, n), n) = Sum(Masked(g, P, n), n) + g[x]
  <1> DEFINE with == Masked(g, P \cup {x}, n)
             without == Masked(g, P, n)
  <1>1. Ints(with, n) /\ Ints(without, n)
    BY MaskedInts
  <1>2. with[x] = g[x] /\ without[x] = 0 /\ g[x] \in Int
    BY DEF Masked, Ints
  <1>3. \A j \in 1..n : j # x => with[j] = without[j]
    BY DEF Masked
  <1> HIDE DEF with, without
  <1>4. PICK f : SumsOf(f, with, n)
    BY <1>1, SumIs
  <1>5. PICK e : SumsOf(e, without, n)
    BY <1>1, SumIs
  <1>6. f[n] = e[n] + (with[x] - without[x])
    BY <1>1, <1>3, <1>4, <1>5, SumsWithOneMore DEF Ints
  <1>7. f[n] = Sum(with, n) /\ e[n] = Sum(without, n) /\ e[n] \in Int
    BY <1>1, <1>4, <1>5, SumIs
  <1> QED
    BY <1>2, <1>6, <1>7 DEF with, without

(* In whatever order the places are listed, the sum is the same. *)
LEMMA SumOfListing ==
    ASSUME NEW n \in Nat, NEW g, Ints(g, n), NEW P \in SUBSET (1..n), NEW at \in SetToSeqs(P)
    PROVE  /\ Ints([k \in 1..Cardinality(P) |-> g[at[k]]], Cardinality(P))
           /\ Sum([k \in 1..Cardinality(P) |-> g[at[k]]], Cardinality(P)) = Sum(Masked(g, P, n), n)
  <1> DEFINE m == Cardinality(P)
             d == [k \in 1..m |-> g[at[k]]]
             first(k) == {at[l] : l \in 1..k}
  <1>1. IsFiniteSet(P)
    BY FinitePlaces
  <1>2. /\ m \in Nat /\ \A k \in 1..m : at[k] \in P
        /\ \A x \in P : \E k \in 1..m : at[k] = x
        /\ \A k, l \in 1..m : at[k] = at[l] => k = l
    BY <1>1, ListsAll
  <1>3. Ints(d, m) /\ \A k \in 1..m : d[k] = g[at[k]]
    BY <1>2 DEF Ints
  <1> HIDE DEF m, d
  <1>4. PICK e : SumsOf(e, d, m)
    BY <1>2, <1>3, SumIs
  <1> DEFINE A == {k \in 0..m : Sum(Masked(g, first(k), n), n) = e[k]}
  <1>5. 0 \in A
    <2>1. first(0) = {}
      OBVIOUS
    <2>2. \A i \in 1..n : Masked(g, first(0), n)[i] = 0
      BY <2>1, MaskedInts
    <2>3. Sum(Masked(g, first(0), n), n) = 0
      BY <2>2, SumOfZeros
    <2>4. e[0] = 0 /\ 0 \in 0..m
      BY <1>2, <1>4 DEF SumsOf
    <2> QED
      BY <2>3, <2>4
  <1>6. ASSUME NEW k \in 1..m, k - 1 \in A PROVE k \in A
    <2>1. at[k] \notin first(k - 1)
      BY <1>2
    <2>2. first(k) = first(k - 1) \cup {at[k]}
      BY <1>2
    <2>3. at[k] \in 1..n
      BY <1>2
    <2>4. Sum(Masked(g, first(k - 1), n), n) = e[k - 1]
      BY <1>6
    <2> HIDE DEF first
    <2>5. Sum(Masked(g, first(k - 1) \cup {at[k]}, n), n) = e[k - 1] + g[at[k]]
      BY <2>1, <2>3, <2>4, MaskedWithOneMore
    <2>6. e[k] = e[k - 1] + g[at[k]] /\ k \in 0..m
      BY <1>2, <1>3, <1>4 DEF SumsOf
    <2> QED
      BY <2>2, <2>5, <2>6
  <1>7. m \in A
    <2> HIDE DEF A
    <2> QED
      BY <1>2, <1>5, <1>6, UpTo
  <1>8. first(m) = P
    BY <1>2
  <1>9. e[m] = Sum(d, m)
    BY <1>2, <1>3, <1>4, SumIs
  <1> QED
    BY <1>3, <1>7, <1>8, <1>9 DEF m, d

Ones(n) == [i \in 1..n |-> 1]

(* The number of places is a sum too. *)
LEMMA CountIsSum ==
    ASSUME NEW n \in Nat, NEW P \in SUBSET (1..n)
    PROVE  Cardinality(P) = Sum(Masked(Ones(n), P, n), n)
  <1> DEFINE m == Cardinality(P)
             g == Ones(n)
             d == [k \in 1..m |-> g[Ascending(P)[k]]]
  <1>1. IsFiniteSet(P) /\ Ascending(P) \in SetToSeqs(P)
    BY FinitePlaces, AscendingIs
  <1>2. m \in Nat /\ \A k \in 1..m : Ascending(P)[k] \in P
    BY <1>1, ListsAll
  <1>3. Ints(g, n) /\ \A i \in 1..n : g[i] = 1
    BY DEF Ints, Ones
  <1> HIDE DEF m, g
  <1>4. Ints(d, m) /\ \A k \in 1..m : d[k] = 1
    BY <1>2, <1>3 DEF Ints
  <1>5. Sum(d, m) = Sum(Masked(g, P, n), n)
    BY <1>1, <1>3, SumOfListing DEF m
  <1>6. SumsOf([k \in 0..m |-> k], d, m)
    BY <1>2, <1>4 DEF SumsOf
  <1>7. Sum(d, m) = m
    <2> HIDE DEF d
    <2>1. [k \in 0..m |-> k][m] = Sum(d, m)
      BY <1>2, <1>4, <1>6, SumIs
    <2> QED
      BY <1>2, <2>1
  <1> QED
    BY <1>5, <1>7 DEF m, g

-----------------------------------------------------------------------------
(* Aggregates. *)

(* The loop that adds up the numbers of a type gives their sum. *)
LEMMA TotalIsSum ==
    ASSUME NEW values \in Seq(Entries), NEW type
    PROVE  /\ Total(values, type) = Sum(Amounts(values, type), Len(values))
           /\ Ints(Amounts(values, type), Len(values))
           /\ Total(values, type) \in Nat
  <1>1. /\ Len(values) \in Nat
        /\ \A i \in 1..Len(values) : Amounts(values, type)[i] \in Nat
    BY AmountsAre
  <1>2. Ints(Amounts(values, type), Len(values))
    BY <1>1 DEF Ints
  <1>3. Total(values, type) = Sum(Amounts(values, type), Len(values))
    BY <1>1, <1>2, TotalIs, SumIs
  <1> QED
    BY <1>1, <1>2, <1>3, SumOfNaturals

(* The total, the numbers and the count of a column at some of its places. *)
TotalAt(col, P, type) == Sum(Masked(Amounts(col, type), P, Len(col)), Len(col))

NumbersAt(col, P, type) == {col[i].n : i \in {j \in P : col[j].type = type}}

CountAt(col, P, types) == Cardinality({i \in P : col[i].type \in types})

(* They do not depend on the order in which the places are listed. *)
LEMMA OverListing ==
    ASSUME NEW col \in Seq(Entries), NEW P \in SUBSET (1..Len(col)), NEW at \in SetToSeqs(P)
    PROVE  LET values == [k \in 1..Cardinality(P) |-> col[at[k]]]
           IN  /\ values \in Seq(Entries) /\ Len(values) = Cardinality(P)
               /\ \A type : Total(values, type) = TotalAt(col, P, type)
               /\ \A type : Numbers(values, type) = NumbersAt(col, P, type)
               /\ \A types : Count(values, types) = CountAt(col, P, types)
  <1> DEFINE n == Len(col)
             m == Cardinality(P)
             values == [k \in 1..m |-> col[at[k]]]
  <1>1. n \in Nat /\ \A i \in 1..n : col[i] \in Entries
    OBVIOUS
  <1>2. IsFiniteSet(P)
    BY <1>1, FinitePlaces
  <1>3. /\ m \in Nat /\ \A k \in 1..m : at[k] \in P
        /\ \A x \in P : \E k \in 1..m : at[k] = x
        /\ \A k, l \in 1..m : at[k] = at[l] => k = l
    BY <1>2, ListsAll
  <1> HIDE DEF n, m
  <1>4. /\ values \in Seq(Entries) /\ Len(values) = m /\ DOMAIN values = 1..m
        /\ \A k \in 1..m : values[k] = col[at[k]]
    <2>1. \A k \in 1..m : at[k] \in 1..n /\ col[at[k]] \in Entries
      BY <1>1, <1>3 DEF n
    <2>2. DOMAIN values = 1..m /\ \A k \in 1..m : values[k] = col[at[k]]
      OBVIOUS
    <2>3. values \in [1..m -> Entries]
      BY <2>1
    <2> HIDE DEF values
    <2> QED
      BY <1>3, <2>2, <2>3
  <1> HIDE DEF values
  <1>5. ASSUME NEW type PROVE Total(values, type) = TotalAt(col, P, type)
    <2> DEFINE g == Amounts(col, type)
               d == [k \in 1..m |-> g[at[k]]]
    <2>1. Ints(g, n) /\ \A i \in 1..n : g[i] = IF col[i].type = type THEN col[i].n ELSE 0
      BY AmountsAre, TotalIsSum DEF n
    <2> HIDE DEF g
    <2>2. Ints(d, m) /\ Sum(d, m) = Sum(Masked(g, P, n), n)
      BY <1>1, <2>1, SumOfListing DEF m, n
    <2>3. \A k \in 1..m : d[k] = Amounts(values, type)[k]
      <3> SUFFICES ASSUME NEW k \in 1..m PROVE d[k] = Amounts(values, type)[k]
        OBVIOUS
      <3>1. at[k] \in 1..n /\ values[k] = col[at[k]] /\ d[k] = g[at[k]]
        BY <1>3, <1>4 DEF n
      <3>2. Amounts(values, type)[k] = IF values[k].type = type THEN values[k].n ELSE 0
        BY <1>4 DEF Amounts
      <3> QED
        BY <2>1, <3>1, <3>2
    <2>4. Sum(d, m) = Sum(Amounts(values, type), m)
      <3> HIDE DEF d
      <3> QED
        BY <1>3, <2>2, <2>3, SameSum
    <2> QED
      BY <1>4, <2>2, <2>4, TotalIsSum DEF TotalAt, g, n
  <1>6. ASSUME NEW type PROVE Numbers(values, type) = NumbersAt(col, P, type)
    <2>1. ASSUME NEW k \in 1..m, values[k].type = type
          PROVE  values[k].n \in NumbersAt(col, P, type)
      BY <1>3, <1>4, <2>1 DEF NumbersAt
    <2>2. ASSUME NEW i \in P, col[i].type = type
          PROVE  col[i].n \in Numbers(values, type)
      <3>1. PICK k \in 1..m : at[k] = i
        BY <1>3
      <3> QED
        BY <1>4, <2>2, <3>1 DEF Numbers
    <2> QED
      BY <1>4, <2>1, <2>2 DEF Numbers, NumbersAt
  <1>7. ASSUME NEW types PROVE Count(values, types) = CountAt(col, P, types)
    <2> DEFINE Q == {i \in P : col[i].type \in types}
               K == {k \in 1..m : values[k].type \in types}
               g == [i \in 1..n |-> IF i \in Q THEN 1 ELSE 0]
               d == [k \in 1..m |-> g[at[k]]]
    <2>1. Q \in SUBSET (1..n) /\ K \in SUBSET (1..m)
      BY DEF n
    <2>2. Cardinality(K) = Sum(Masked(Ones(m), K, m), m)
      <3> HIDE DEF K
      <3> QED
        BY <1>3, <2>1, CountIsSum
    <2>3. Cardinality(Q) = Sum(Masked(Ones(n), Q, n), n)
      <3> HIDE DEF Q
      <3> QED
        BY <1>1, <2>1, CountIsSum
    <2>4. Ints(g, n) /\ \A i \in 1..n : g[i] = IF i \in Q THEN 1 ELSE 0
      BY DEF Ints
    <2> HIDE DEF g
    <2>5. Ints(d, m) /\ Sum(d, m) = Sum(Masked(g, P, n), n)
      BY <1>1, <2>4, SumOfListing DEF m, n
    <2>6. \A k \in 1..m : d[k] = Masked(Ones(m), K, m)[k]
      <3> SUFFICES ASSUME NEW k \in 1..m PROVE d[k] = Masked(Ones(m), K, m)[k]
        OBVIOUS
      <3>1. k \in K <=> at[k] \in Q
        BY <1>3, <1>4
      <3>2. at[k] \in 1..n
        BY <1>3 DEF n
      <3> QED
        BY <2>4, <3>1, <3>2 DEF Masked, Ones
    <2>7. \A i \in 1..n : Masked(g, P, n)[i] = Masked(Ones(n), Q, n)[i]
      BY <2>4 DEF Masked, Ones
    <2>8. Ints(Masked(g, P, n), n)
      BY <1>1, <2>4, MaskedInts
    <2> HIDE DEF d, Q, K
    <2>9. Sum(d, m) = Sum(Masked(Ones(m), K, m), m)
      BY <1>3, <2>5, <2>6, SameSum
    <2>10. Sum(Masked(g, P, n), n) = Sum(Masked(Ones(n), Q, n), n)
      BY <1>1, <2>7, <2>8, SameSum
    <2>11. Cardinality(K) = Cardinality(Q)
      BY <2>2, <2>3, <2>5, <2>9, <2>10
    <2>12. Count(values, types) = Cardinality(K) /\ CountAt(col, P, types) = Cardinality(Q)
      BY <1>4 DEF Count, CountAt, K, Q
    <2> QED
      BY <2>11, <2>12
  <1> QED
    BY <1>4, <1>5, <1>6, <1>7 DEF values, m

(* An aggregate of the total, the numbers and the count of values of one   *)
(* type.                                                                   *)
AggregateOf(fn, t, total, numbers, count) ==
    IF fn = "count" THEN IntValue(count)
    ELSE IF count = 0 THEN NullValue
    ELSE IF fn = "sum"
    THEN IF t = "float" THEN FloatValue(total)
         ELSE IntValue(IF total > MaxInt THEN MaxInt ELSE total)
    ELSE IF fn = "avg" THEN Quotient(IF t = "float" THEN total ELSE 2 * total, count)
    ELSE [type |-> t, n |-> IF fn = "min" THEN Min(numbers) ELSE Max(numbers)]

OfNumbers == {"sum", "avg", "min", "max"}

(* Strings are only counted. *)
Suits(fn, t) == \/ fn = "count" /\ t \in {"int", "float", "string"}
                \/ fn \in OfNumbers /\ t \in {"int", "float"}

(* Of values of one type, other types have no numbers and no total. *)
LEMMA OneTypeOnly ==
    ASSUME NEW values \in Seq(Entries), NEW t,
           \A i \in DOMAIN values : values[i].type \in {t, "null", "absent"},
           NEW u \in {"int", "float", "string"}, u # t
    PROVE  Numbers(values, u) = {} /\ Total(values, u) = 0
  <1>1. \A i \in DOMAIN values : values[i].type # u
    OBVIOUS
  <1>2. Numbers(values, u) = {}
    BY <1>1 DEF Numbers
  <1>3. Total(values, u) = 0
    BY <1>1, TotalIsSum, AmountsAre, SumOfZeros
  <1> QED
    BY <1>2, <1>3

(* In a column of one type, what is not NULL is of the type, and there is  *)
(* none of it if there are no numbers.                                     *)
LEMMA CountsOfOneType ==
    ASSUME NEW values \in Seq(Entries), NEW t \in {"int", "float", "string"},
           \A i \in DOMAIN values : values[i].type \in {t, "null", "absent"}
    PROVE  /\ NonNull(values) = Count(values, {t})
           /\ t # "string" => Count(values, {"int", "float"}) = Count(values, {t})
           /\ Count(values, {t}) \in Nat
           /\ Count(values, {t}) = 0 <=> Numbers(values, t) = {}
  <1> DEFINE P == {i \in DOMAIN values : values[i].type \in {t}}
  <1>1. NonNull(values) = Count(values, {t})
    <2>1. {i \in DOMAIN values : values[i].type \in {"int", "float", "string"}} = P
      OBVIOUS
    <2> QED
      BY <2>1 DEF NonNull, Count
  <1>2. ASSUME t # "string" PROVE Count(values, {"int", "float"}) = Count(values, {t})
    <2>1. {i \in DOMAIN values : values[i].type \in {"int", "float"}} = P
      BY <1>2
    <2> QED
      BY <2>1 DEF Count
  <1>3. IsFiniteSet(P)
    <2>1. P \in SUBSET (1..Len(values)) /\ Len(values) \in Nat
      OBVIOUS
    <2> HIDE DEF P
    <2> QED
      BY <2>1, FinitePlaces
  <1>4. Count(values, {t}) = Cardinality(P)
    BY DEF Count
  <1>5. Numbers(values, t) = {values[i].n : i \in P}
    BY DEF Numbers
  <1> HIDE DEF P
  <1>6. Cardinality(P) \in Nat /\ (Cardinality(P) = 0 <=> P = {})
    BY <1>3, FS_CardinalityType, FS_EmptySet
  <1> QED
    BY <1>1, <1>2, <1>4, <1>5, <1>6

(* The loop over rows computes the aggregate. *)
LEMMA OverRowsIs ==
    ASSUME NEW values \in Seq(Entries), NEW fn, NEW t, Suits(fn, t),
           \A i \in DOMAIN values : values[i].type \in {t, "null", "absent"}
    PROVE  OverRows(fn, values)
              = AggregateOf(fn, t, Total(values, t), Numbers(values, t), Count(values, {t}))
  <1>1. t \in {"int", "float", "string"} /\ fn \in {"count"} \cup OfNumbers
        /\ (fn # "count" => t \in {"int", "float"})
    BY DEF Suits, OfNumbers
  <1>2. /\ NonNull(values) = Count(values, {t})
        /\ t # "string" => Count(values, {"int", "float"}) = Count(values, {t})
        /\ Count(values, {t}) \in Nat
        /\ Count(values, {t}) = 0 <=> Numbers(values, t) = {}
    BY <1>1, CountsOfOneType
  <1>3. \A u \in {"int", "float", "string"} :
           u # t => Numbers(values, u) = {} /\ Total(values, u) = 0
    BY OneTypeOnly
  <1>4. /\ Total(values, "int") \in Nat /\ Total(values, "float") \in Nat
        /\ Saturated(values) = IF Total(values, "int") > MaxInt THEN MaxInt
                               ELSE Total(values, "int")
    BY TotalIsSum, SaturatedIs
  <1>5. MaxInt \in Nat
    BY MaxIntAssumption
  <1> USE DEF OverRows, AggregateOf, Extreme, OfNumbers
  <1>6. CASE fn = "count"
    BY <1>2, <1>6
  <1>7. CASE t = "int" /\ fn # "count"
    <2>1. Numbers(values, "float") = {} /\ Total(values, "float") = 0
      BY <1>3, <1>7
    <2>2. CASE fn = "sum"
      BY <1>2, <1>4, <1>7, <2>1, <2>2
    <2>3. CASE fn = "avg"
      BY <1>2, <1>4, <1>7, <2>1, <2>3
    <2>4. CASE fn \in {"min", "max"}
      BY <1>2, <1>7, <2>1, <2>4 DEF IntValue
    <2> QED
      BY <1>1, <1>7, <2>2, <2>3, <2>4
  <1>8. CASE t = "float" /\ fn # "count"
    <2>1. Numbers(values, "int") = {} /\ Total(values, "int") = 0 /\ Saturated(values) = 0
      BY <1>3, <1>4, <1>5, <1>8
    <2>2. CASE fn = "sum"
      BY <1>2, <1>4, <1>8, <2>1, <2>2
    <2>3. CASE fn = "avg"
      BY <1>2, <1>4, <1>8, <2>1, <2>3
    <2>4. CASE fn \in {"min", "max"}
      BY <1>2, <1>8, <2>1, <2>4 DEF FloatValue
    <2> QED
      BY <1>1, <1>8, <2>2, <2>3, <2>4
  <1> QED
    BY <1>1, <1>6, <1>7, <1>8

(* Some numbers below a bound have a largest one. *)
LEMMA LargestOfBounded ==
    ASSUME NEW S \in SUBSET Nat, S # {}, NEW bound \in Nat, \A x \in S : x <= bound
    PROVE  Max(S) \in S /\ \A x \in S : x <= Max(S)
  <1> DEFINE B == {bound - x : x \in S}
  <1>1. B \in SUBSET Nat /\ B # {}
    <2>1. \A x \in S : bound - x \in Nat
      OBVIOUS
    <2> QED
      BY <2>1
  <1>2. PICK k \in B : \A m \in B : k <= m
    <2> HIDE DEF B
    <2> QED
      BY <1>1, Smallest
  <1>3. PICK y \in S : k = bound - y
    BY <1>2
  <1>4. \A x \in S : x <= y
    BY <1>2, <1>3
  <1>5. \A x \in S : y >= x
    BY <1>4
  <1>6. \E z \in S : \A x \in S : z >= x
    BY <1>5
  <1>7. Max(S) \in S /\ \A x \in S : Max(S) >= x
    BY <1>6 DEF Max
  <1> QED
    BY <1>7

(* The least and the greatest of twice some numbers. *)
LEMMA ExtremesOfDoubles ==
    ASSUME NEW S \in SUBSET Nat, S # {}, NEW bound \in Nat, \A x \in S : x <= bound
    PROVE  LET D == {2 * x : x \in S}
           IN  /\ Min(D) = 2 * Min(S) /\ Min(S) \in S
               /\ Max(D) = 2 * Max(S) /\ Max(S) \in S
  <1> DEFINE D == {2 * x : x \in S}
  <1>1. \E k \in S : \A m \in S : k <= m
    BY Smallest
  <1>2. Min(S) \in S /\ \A m \in S : Min(S) <= m
    BY <1>1 DEF Min
  <1>3. Max(S) \in S /\ \A m \in S : m <= Max(S)
    BY LargestOfBounded
  <1>4. Min(D) \in D /\ \A m \in D : Min(D) <= m
    <2>1. \E k \in D : \A m \in D : k <= m
      <3>1. 2 * Min(S) \in D /\ \A m \in D : 2 * Min(S) <= m
        <4>1. \A x \in S : x \in Nat /\ Min(S) \in Nat /\ Min(S) <= x
          BY <1>2
        <4>2. \A x \in S : 2 * Min(S) <= 2 * x
          BY <4>1
        <4> QED
          BY <1>2, <4>2
      <3> QED
        BY <3>1
    <2> HIDE DEF D
    <2> QED
      BY <2>1 DEF Min
  <1>5. Max(D) \in D /\ \A m \in D : Max(D) >= m
    <2>1. \E k \in D : \A m \in D : k >= m
      <3>1. 2 * Max(S) \in D /\ \A m \in D : 2 * Max(S) >= m
        <4>1. \A x \in S : x \in Nat /\ Max(S) \in Nat /\ x <= Max(S)
          BY <1>3
        <4>2. \A x \in S : 2 * Max(S) >= 2 * x
          BY <4>1
        <4> QED
          BY <1>3, <4>2
      <3> QED
        BY <3>1
    <2> HIDE DEF D
    <2> QED
      BY <2>1 DEF Max
  <1>6. \A m \in D : m \in Nat
    OBVIOUS
  <1>7. 2 * Min(S) \in D /\ 2 * Max(S) \in D
    BY <1>2, <1>3
  <1>8. Min(D) = 2 * Min(S)
    <2>1. PICK x \in S : Min(D) = 2 * x
      BY <1>4
    <2>2. Min(S) <= x /\ Min(D) <= 2 * Min(S) /\ Min(S) \in Nat /\ x \in Nat
      BY <1>2, <1>4, <1>7
    <2> QED
      BY <2>1, <2>2
  <1>9. Max(D) = 2 * Max(S)
    <2>1. PICK x \in S : Max(D) = 2 * x
      BY <1>5
    <2>2. x <= Max(S) /\ Max(D) >= 2 * Max(S) /\ Max(S) \in Nat /\ x \in Nat
      BY <1>3, <1>5, <1>7
    <2> QED
      BY <2>1, <2>2
  <1> QED
    BY <1>2, <1>3, <1>8, <1>9

(* What a column has at the places of some rows. *)
LEMMA ColumnIs ==
    ASSUME NEW some \in Seq(Rows), NEW c
    PROVE  /\ ColumnOf(some, c) \in Seq(Entries) /\ Len(ColumnOf(some, c)) = Len(some)
           /\ DOMAIN some = 1..Len(some) /\ Len(some) \in Nat
           /\ \A i \in 1..Len(some) : /\ ColumnOf(some, c)[i] = Field(some[i], c)
                                      /\ Field(some[i], c) \in Entries
  <1>1. DOMAIN some = 1..Len(some) /\ Len(some) \in Nat
    OBVIOUS
  <1>2. \A i \in 1..Len(some) : Field(some[i], c) \in Entries
    BY DEF Rows, Field, At, Entries
  <1>3. ColumnOf(some, c) = [i \in 1..Len(some) |-> Field(some[i], c)]
    BY <1>1 DEF ColumnOf
  <1> QED
    BY <1>1, <1>2, <1>3

(* The aggregate in SQL of a column with values of one type. *)
LEMMA SqlAggregateIs ==
    ASSUME TypeOK, NEW P \in SUBSET (DOMAIN rows), NEW agg, NEW t, Suits(agg.fn, t),
           \A i \in P : LET v == Field(rows[i], agg.name)
                        IN  /\ v.type \in {t, "null", "absent"}
                            /\ v.type = "int" => v.n <= MaxInt
    PROVE  LET col == ColumnOf(rows, agg.name)
           IN  SqlAggregate(P, agg)
                 = AggregateOf(agg.fn, t, TotalAt(col, P, t), NumbersAt(col, P, t), CountAt(col, P, {t}))
  <1> DEFINE fn == agg.fn
             col == ColumnOf(rows, agg.name)
             n == Len(rows)
             value(i) == Field(rows[i], agg.name)
             valued == {i \in P : value(i) \notin {NullValue, Absent}}
             g == [i \in 1..n |-> IF i \in valued THEN Numeric(value(i)) ELSE 0]
             loops(h) == h = [i \in 0..n |->
                               IF i = 0 THEN 0
                               ELSE h[i - 1] + (IF i \in valued THEN Numeric(value(i)) ELSE 0)]
             total == CHOOSE h : loops(h)
             halves == {Numeric(value(i)) : i \in valued}
             number(h) == IF \E i \in valued : value(i).type = "float" THEN FloatValue(h)
                          ELSE IntValue(Min({h \div 2, MaxInt}))
  <1>1. /\ col \in Seq(Entries) /\ Len(col) = n /\ n \in Nat /\ DOMAIN rows = 1..n
        /\ \A i \in 1..n : col[i] = value(i) /\ value(i) \in Entries
    BY ColumnIs DEF TypeOK
  <1>2. /\ t \in {"int", "float", "string"} /\ fn \in {"count"} \cup OfNumbers
        /\ (fn # "count" => t \in {"int", "float"})
    BY DEF Suits, OfNumbers
  <1>3. \A i \in P : /\ i \in 1..n /\ value(i).n \in Nat
                     /\ value(i) \notin {NullValue, Absent} <=> value(i).type = t
    <2> SUFFICES ASSUME NEW i \in P
                 PROVE  /\ i \in 1..n /\ value(i).n \in Nat
                        /\ value(i) \notin {NullValue, Absent} <=> value(i).type = t
      OBVIOUS
    <2>1. i \in 1..n /\ value(i) \in Entries
      BY <1>1
    <2>2. /\ value(i).n \in Nat
          /\ value(i) = NullValue <=> value(i).type = "null"
          /\ value(i) = Absent <=> value(i).type = "absent"
      BY <2>1, EntryShape
    <2> QED
      BY <1>2, <2>1, <2>2
  <1>4. valued = {i \in P : col[i].type = t} /\ valued = {i \in P : col[i].type \in {t}}
    BY <1>1, <1>3
  <1>5. \A i \in valued : i \in P /\ i \in 1..n /\ value(i).type = t /\ value(i).n \in Nat
    BY <1>3
  <1>6. Cardinality(valued) = CountAt(col, P, {t})
    BY <1>4 DEF CountAt
  <1>7. NumbersAt(col, P, t) = {value(i).n : i \in valued}
    BY <1>1, <1>4 DEF NumbersAt
  <1> HIDE DEF valued, col, n
  <1>8. Cardinality(valued) \in Nat /\ (Cardinality(valued) = 0 <=> valued = {})
    <2>1. valued \in SUBSET (1..n)
      BY <1>5
    <2>2. IsFiniteSet(valued)
      BY <1>1, <2>1, FinitePlaces
    <2> QED
      BY <2>2, FS_CardinalityType, FS_EmptySet
  <1>9. SqlAggregate(P, agg)
          = IF fn = "count" THEN IntValue(Cardinality(valued))
            ELSE IF valued = {} THEN NullValue
            ELSE CASE fn = "sum" -> number(total[n])
                   [] fn = "avg" -> Quotient(total[n], Cardinality(valued))
                   [] fn = "min" -> number(Min(halves))
                   [] fn = "max" -> number(Max(halves))
    <2>1. SqlAggregate(P, agg)
            = IF fn = "count_star" THEN IntValue(Cardinality(P))
              ELSE IF fn = "count" THEN IntValue(Cardinality(valued))
              ELSE IF valued = {} THEN NullValue
              ELSE CASE fn = "sum" -> number(total[n])
                     [] fn = "avg" -> Quotient(total[n], Cardinality(valued))
                     [] fn = "min" -> number(Min(halves))
                     [] fn = "max" -> number(Max(halves))
      BY DEF SqlAggregate, valued, n
    <2> HIDE DEF total, halves, number
    <2>2. fn # "count_star"
      BY <1>2 DEF OfNumbers
    <2> QED
      BY <2>1, <2>2
  <1> HIDE DEF total, halves, number, fn
  <1> SUFFICES SqlAggregate(P, agg)
                 = AggregateOf(fn, t, TotalAt(col, P, t), NumbersAt(col, P, t), CountAt(col, P, {t}))
    BY DEF col, fn
  <1>10. CASE fn = "count"
    BY <1>6, <1>9, <1>10 DEF AggregateOf
  <1>11. CASE fn # "count" /\ valued = {}
    BY <1>6, <1>8, <1>9, <1>11 DEF AggregateOf
  <1>12. CASE fn # "count" /\ valued # {}
    <2>1. \A i \in 1..n : g[i] \in Nat /\ g[i] = IF i \in valued THEN Numeric(value(i)) ELSE 0
      BY <1>5 DEF Numeric
    <2> HIDE DEF g
    <2>2. Ints(g, n)
      BY <2>1 DEF Ints
    <2>3. PICK f : SumsOf(f, g, n)
      BY <1>1, <2>2, SumIs
    <2>4. loops(f)
      <3>1. f = [i \in 0..n |-> f[i]] /\ f[0] = 0
        BY <2>3 DEF SumsOf
      <3>2. ASSUME NEW i \in 0..n, i # 0
            PROVE  f[i] = f[i - 1] + (IF i \in valued THEN Numeric(value(i)) ELSE 0)
        <4>1. i \in 1..n
          BY <1>1, <3>2
        <4> QED
          BY <2>1, <2>3, <4>1 DEF SumsOf
      <3> HIDE DEF value
      <3> QED
        BY <3>1, <3>2
    <2>5. loops(total)
      BY <2>4 DEF total
    <2>6. total[0] = 0 /\ \A i \in 1..n : total[i] = total[i - 1] + g[i]
      BY <1>1, <2>1, <2>5
    <2>7. \A i \in 0..n : total[i] = f[i]
      <3> DEFINE A == {i \in 0..n : total[i] = f[i]}
      <3>1. 0 \in A
        BY <1>1, <2>3, <2>6 DEF SumsOf
      <3>2. ASSUME NEW i \in 1..n, i - 1 \in A PROVE i \in A
        BY <1>1, <2>3, <2>6, <3>2 DEF SumsOf
      <3> HIDE DEF A
      <3>3. \A i \in 0..n : i \in A
        BY <1>1, <3>1, <3>2, UpTo
      <3> QED
        BY <3>3 DEF A
    <2>8. total[n] = Sum(g, n) /\ Sum(g, n) \in Nat
      <3>1. f[n] = Sum(g, n)
        BY <1>1, <2>2, <2>3, SumIs
      <3>2. Sum(g, n) \in Nat
        BY <1>1, <2>1, SumOfNaturals
      <3> QED
        BY <1>1, <2>7, <3>1, <3>2
    <2> DEFINE d == Masked(Amounts(col, t), P, n)
    <2>9. \A i \in 1..n : d[i] = IF i \in valued THEN value(i).n ELSE 0
      <3> SUFFICES ASSUME NEW i \in 1..n PROVE d[i] = IF i \in valued THEN value(i).n ELSE 0
        OBVIOUS
      <3>1. Amounts(col, t)[i] = IF col[i].type = t THEN col[i].n ELSE 0
        BY <1>1, AmountsAre
      <3>2. d[i] = IF i \in P THEN Amounts(col, t)[i] ELSE 0
        BY DEF Masked
      <3> HIDE DEF d
      <3> QED
        BY <1>1, <1>4, <3>1, <3>2
    <2>10. TotalAt(col, P, t) = Sum(d, n)
      BY <1>1 DEF TotalAt
    <2> HIDE DEF d
    <2>11. \A i \in 1..n : d[i] \in Nat
      BY <1>5, <2>9
    <2>12. Ints(d, n) /\ Sum(d, n) \in Nat
      BY <1>1, <2>11, SumOfNaturals DEF Ints
    <2>13. CASE t = "int"
      <3>1. \A i \in 1..n : g[i] = 2 * d[i]
        BY <1>5, <2>1, <2>9, <2>13 DEF Numeric
      <3>2. total[n] = 2 * TotalAt(col, P, t)
        BY <1>1, <2>8, <2>10, <2>12, <3>1, SumOfDoubles
      <3>3. \A h : number(h) = IntValue(Min({h \div 2, MaxInt}))
        BY <1>5, <2>13 DEF number
      <3>4. ASSUME NEW k \in Nat
            PROVE  number(2 * k) = IntValue(IF k > MaxInt THEN MaxInt ELSE k)
        <4>1. (2 * k) \div 2 = k
          OBVIOUS
        <4>2. Min({k, MaxInt}) = IF k > MaxInt THEN MaxInt ELSE k
          <5>1. MaxInt \in Nat
            BY MaxIntAssumption
          <5>2. PICK x : x = IF k > MaxInt THEN MaxInt ELSE k
            OBVIOUS
          <5>3. x \in {k, MaxInt} /\ \A y \in {k, MaxInt} : x <= y
            BY <5>1, <5>2
          <5>4. Min({k, MaxInt}) \in {k, MaxInt} /\ \A y \in {k, MaxInt} : Min({k, MaxInt}) <= y
            BY <5>3 DEF Min
          <5> QED
            BY <5>1, <5>2, <5>3, <5>4
        <4> QED
          BY <3>3, <4>1, <4>2
      <3> DEFINE S == NumbersAt(col, P, t)
      <3>5. S \in SUBSET Nat /\ S # {} /\ \A x \in S : x <= MaxInt
        BY <1>5, <1>7, <1>12, <2>13
      <3>6. halves = {2 * x : x \in S}
        <4>1. \A i \in valued : Numeric(value(i)) = 2 * value(i).n
          BY <1>5, <2>13 DEF Numeric
        <4> HIDE DEF value
        <4> QED
          BY <1>7, <4>1 DEF halves
      <3> HIDE DEF S
      <3>7. /\ Min(halves) = 2 * Min(S) /\ Max(halves) = 2 * Max(S)
            /\ Min(S) \in S /\ Max(S) \in S
        BY <3>5, <3>6, MaxIntAssumption, ExtremesOfDoubles
      <3>8. number(Min(halves)) = IntValue(Min(S)) /\ number(Max(halves)) = IntValue(Max(S))
        <4>1. \A x \in S : x \in Nat /\ ~ x > MaxInt
          BY <3>5, MaxIntAssumption
        <4> QED
          BY <3>4, <3>7, <4>1
      <3>9. TotalAt(col, P, t) \in Nat
        BY <2>10, <2>12
      <3>10. CASE fn = "sum"
        BY <1>6, <1>8, <1>9, <1>12, <2>13, <3>2, <3>4, <3>9, <3>10 DEF AggregateOf
      <3>11. CASE fn = "avg"
        BY <1>6, <1>8, <1>9, <1>12, <2>13, <3>2, <3>11 DEF AggregateOf
      <3>12. CASE fn = "min"
        BY <1>6, <1>8, <1>9, <1>12, <2>13, <3>8, <3>12 DEF AggregateOf, IntValue, S
      <3>13. CASE fn = "max"
        BY <1>6, <1>8, <1>9, <1>12, <2>13, <3>8, <3>13 DEF AggregateOf, IntValue, S
      <3> QED
        BY <1>2, <1>12, <3>10, <3>11, <3>12, <3>13 DEF OfNumbers
    <2>14. CASE t = "float"
      <3>1. \A i \in 1..n : g[i] = d[i]
        BY <1>5, <2>1, <2>9, <2>14 DEF Numeric
      <3>2. total[n] = TotalAt(col, P, t)
        BY <1>1, <2>2, <2>8, <2>10, <3>1, SameSum
      <3>3. \A h : number(h) = FloatValue(h)
        BY <1>5, <1>12, <2>14 DEF number
      <3>4. halves = NumbersAt(col, P, t)
        <4>1. \A i \in valued : Numeric(value(i)) = value(i).n
          BY <1>5, <2>14 DEF Numeric
        <4> HIDE DEF value
        <4> QED
          BY <1>7, <4>1 DEF halves
      <3>5. CASE fn = "sum"
        BY <1>6, <1>8, <1>9, <1>12, <2>14, <3>2, <3>3, <3>5 DEF AggregateOf
      <3>6. CASE fn = "avg"
        BY <1>6, <1>8, <1>9, <1>12, <2>14, <3>2, <3>6 DEF AggregateOf
      <3>7. CASE fn = "min"
        BY <1>6, <1>8, <1>9, <1>12, <2>14, <3>3, <3>4, <3>7 DEF AggregateOf, FloatValue
      <3>8. CASE fn = "max"
        BY <1>6, <1>8, <1>9, <1>12, <2>14, <3>3, <3>4, <3>8 DEF AggregateOf, FloatValue
      <3> QED
        BY <1>2, <1>12, <3>5, <3>6, <3>7, <3>8 DEF OfNumbers
    <2> QED
      BY <1>2, <1>12, <2>13, <2>14
  <1> QED
    BY <1>10, <1>11, <1>12

-----------------------------------------------------------------------------
(* Plans. *)

(* The results of the nodes of a plan, from the Scan outwards. *)
Results(f, plan, flushed) ==
    f = [k \in 0..Len(plan) |->
            IF k = 0 THEN Result(rows) ELSE Apply(plan[k], f[k - 1], flushed)]

(* A plan of any nodes. *)
IsPlan(plan) == \E X : plan \in Seq(X)

(* Execute gives the last result. *)
LEMMA ExecuteIs ==
    ASSUME NEW plan, IsPlan(plan), NEW flushed
    PROVE  \E f : Results(f, plan, flushed) /\ Execute(plan, flushed) = f[Len(plan)]
  <1> DEFINE n == Len(plan)
             upTo(f, k) == f = [i \in 0..k |->
                                  IF i = 0 THEN Result(rows) ELSE Apply(plan[i], f[i - 1], flushed)]
             A == {k \in 0..n : \E f : upTo(f, k)}
  <1>1. n \in Nat
    BY DEF IsPlan
  <1>2. 0 \in A
    <2>1. upTo([i \in 0..0 |-> Result(rows)], 0)
      OBVIOUS
    <2> HIDE DEF upTo
    <2> QED
      BY <1>1, <2>1
  <1>3. ASSUME NEW k \in 1..n, k - 1 \in A PROVE k \in A
    <2>1. PICK f : upTo(f, k - 1)
      BY <1>3
    <2> DEFINE g == [i \in 0..k |-> IF i = k THEN Apply(plan[k], f[k - 1], flushed) ELSE f[i]]
    <2>2. ASSUME NEW i \in 0..k
          PROVE  g[i] = IF i = 0 THEN Result(rows) ELSE Apply(plan[i], g[i - 1], flushed)
      <3>1. CASE i = k
        <4>1. k - 1 \in 0..k /\ k # 0 /\ k - 1 # k
          OBVIOUS
        <4> QED
          BY <3>1, <4>1
      <3>2. CASE i # k
        <4>1. i \in 0..k - 1
          BY <3>2
        <4>2. g[i] = f[i]
          BY <3>2
        <4>3. i # 0 => i - 1 \in 0..k /\ g[i - 1] = f[i - 1]
          BY <4>1
        <4>4. f[i] = IF i = 0 THEN Result(rows) ELSE Apply(plan[i], f[i - 1], flushed)
          BY <2>1, <4>1
        <4> HIDE DEF g
        <4> QED
          BY <4>2, <4>3, <4>4
      <3> QED
        BY <3>1, <3>2
    <2>3. g = [i \in 0..k |-> g[i]]
      OBVIOUS
    <2> HIDE DEF g
    <2>4. upTo(g, k)
      BY <2>2, <2>3
    <2> HIDE DEF upTo
    <2> QED
      BY <2>4
  <1>4. n \in A
    <2> HIDE DEF A, n
    <2>1. \A k \in 1..n : k - 1 \in A => k \in A
      BY <1>3
    <2>2. \A k \in 0..n : k \in A
      BY <1>1, <1>2, <2>1, UpTo
    <2> QED
      BY <1>1, <2>2
  <1>5. \E f : Results(f, plan, flushed)
    BY <1>4 DEF Results
  <1>6. Execute(plan, flushed) = (CHOOSE f : Results(f, plan, flushed))[Len(plan)]
    BY DEF Execute, Results
  <1> QED
    BY <1>5, <1>6

(* The answer of the outermost node is what it makes of the rest. *)
LEMMA ExecuteNode ==
    ASSUME NEW plan, IsPlan(plan), NEW node, NEW flushed
    PROVE  Execute(Append(plan, node), flushed) = Apply(node, Execute(plan, flushed), flushed)
  <1> DEFINE n == Len(plan)
             more == Append(plan, node)
  <1>1. PICK X : plan \in Seq(X)
    BY DEF IsPlan
  <1>2. n \in Nat /\ more \in Seq(X \cup {node}) /\ Len(more) = n + 1 /\ more[n + 1] = node
        /\ \A i \in 1..n : more[i] = plan[i]
    BY <1>1
  <1>3. IsPlan(more)
    BY <1>2 DEF IsPlan
  <1> HIDE DEF n, more
  <1>4. PICK f : Results(f, plan, flushed) /\ Execute(plan, flushed) = f[n]
    BY ExecuteIs DEF n
  <1>5. PICK g : Results(g, more, flushed) /\ Execute(more, flushed) = g[n + 1]
    BY <1>2, <1>3, ExecuteIs
  <1>6. /\ f[0] = Result(rows)
        /\ \A i \in 1..n : f[i] = Apply(plan[i], f[i - 1], flushed)
    BY <1>2, <1>4 DEF Results, n
  <1>7. /\ g[0] = Result(rows)
        /\ \A i \in 1..n + 1 : g[i] = Apply(more[i], g[i - 1], flushed)
    BY <1>2, <1>5 DEF Results
  <1>8. g[n] = f[n]
    <2> DEFINE A == {i \in 0..n : g[i] = f[i]}
    <2>1. 0 \in A
      BY <1>2, <1>6, <1>7
    <2>2. ASSUME NEW i \in 1..n, i - 1 \in A PROVE i \in A
      <3>1. i \in 1..n + 1 /\ more[i] = plan[i] /\ g[i - 1] = f[i - 1] /\ i \in 0..n
        BY <1>2, <2>2
      <3>2. g[i] = f[i]
        BY <1>6, <1>7, <3>1
      <3> QED
        BY <3>1, <3>2
    <2> HIDE DEF A
    <2>3. \A k \in 1..n : k - 1 \in A => k \in A
      BY <2>2
    <2>4. \A k \in 0..n : k \in A
      BY <1>2, <2>1, <2>3, UpTo
    <2>5. n \in A
      BY <1>2, <2>4
    <2> QED
      BY <2>5 DEF A
  <1>9. g[n + 1] = Apply(node, g[n], flushed)
    <2>1. n + 1 \in 1..n + 1 /\ (n + 1) - 1 = n
      BY <1>2
    <2> QED
      BY <1>2, <1>7, <2>1
  <1> QED
    BY <1>4, <1>5, <1>8, <1>9 DEF more

(* A plan of no nodes gives the rows as they are stored. *)
LEMMA ExecuteScan ==
    ASSUME NEW flushed
    PROVE  Execute(<<>>, flushed) = Result(rows) /\ IsPlan(<<>>)
  <1>1. IsPlan(<<>>)
    BY DEF IsPlan
  <1>2. PICK f : Results(f, <<>>, flushed) /\ Execute(<<>>, flushed) = f[0]
    BY <1>1, ExecuteIs
  <1> QED
    BY <1>1, <1>2 DEF Results

-----------------------------------------------------------------------------
(* The rows that WHERE leaves. *)

(* Some rows of the table, each once, in any order. *)
ListsRows(some, P) == \E at \in SetToSeqs(P) : some = [k \in DOMAIN at |-> rows[at[k]]]

KeptRows(condition) == {i \in DOMAIN rows : Satisfies(rows[i], condition)}

(* A filter gives the rows that satisfy the WHERE it was made of, whether  *)
(* it looks them up or evaluates the predicate.                            *)
LEMMA FilterLists ==
    ASSUME TypeOK, WhereMatches, NEW e \in Clauses, ExprToFilter[e] # Refused
    PROVE  \E some : Filter(ExprToFilter[e]) = Result(some) /\ ListsRows(some, KeptRows(e))
  <1> DEFINE p == ExprToFilter[e]
             found == {i \in DOMAIN rows : Satisfies(rows[i], e)}
  <1>1. /\ \A i \in DOMAIN rows : EvalPredicate(rows[i], p) <=> i \in found
        /\ indexed /\ IdLookup(p) # {} =>
              /\ Filter(p) = Result(Filter(p).rows)
              /\ ListsById(Filter(p).rows, found)
    BY DEF WhereMatches
  <1>2. CASE indexed /\ IdLookup(p) # {}
    BY <1>1, <1>2 DEF ListsById, ListsRows, KeptRows
  <1>3. CASE ~ (indexed /\ IdLookup(p) # {})
    <2> DEFINE holds == {i \in DOMAIN rows : EvalPredicate(rows[i], p)}
    <2>1. holds = found
      BY <1>1
    <2>2. Filter(p) = Result(Those(rows, holds))
      BY <1>3 DEF Filter
    <2>3. DOMAIN rows = 1..Len(rows) /\ Len(rows) \in Nat /\ holds \in SUBSET (1..Len(rows))
      BY IdsOfRows
    <2> HIDE DEF holds, p
    <2>4. PICK at \in SetToSeqs(holds) : Those(rows, holds) = [k \in DOMAIN at |-> rows[at[k]]]
      BY <2>3, ThoseAre
    <2> QED
      BY <2>1, <2>2, <2>4 DEF ListsRows, KeptRows, p
  <1> QED
    BY <1>2, <1>3

(* So does the part of a plan that is made of the WHERE. *)
LEMMA FilterNodesList ==
    ASSUME TypeOK, WhereMatches, NEW query \in Queries, Plannable(query), NEW flushed
    PROVE  /\ IsPlan(FilterNodes(query))
           /\ \E some : /\ Execute(FilterNodes(query), flushed) = Result(some)
                        /\ ListsRows(some, Kept(query))
  <1>1. query.where \in Conditions /\ ExprToFilter[query.where] # Refused
    BY QueriesAssumption DEF Plannable
  <1>2. Kept(query) = KeptRows(query.where)
    BY DEF Kept, KeptRows
  <1>3. CASE query.where = NoWhere
    <2>1. FilterNodes(query) = <<>>
      BY <1>3 DEF FilterNodes
    <2>2. Kept(query) = DOMAIN rows
      BY <1>3 DEF Kept, Satisfies
    <2>3. Those(rows, DOMAIN rows) = rows
      BY ThoseAll DEF TypeOK
    <2>4. DOMAIN rows = 1..Len(rows) /\ Len(rows) \in Nat
      BY IdsOfRows
    <2>5. PICK at \in SetToSeqs(DOMAIN rows) : Those(rows, DOMAIN rows) = [k \in DOMAIN at |-> rows[at[k]]]
      <3> DEFINE P == 1..Len(rows)
      <3>1. P \in SUBSET (1..Len(rows))
        OBVIOUS
      <3> HIDE DEF P
      <3>2. \E at \in SetToSeqs(P) : Those(rows, P) = [k \in DOMAIN at |-> rows[at[k]]]
        BY <2>4, <3>1, ThoseAre
      <3> QED
        BY <2>4, <3>2 DEF P
    <2>6. ListsRows(rows, Kept(query))
      BY <2>2, <2>3, <2>5 DEF ListsRows
    <2> QED
      BY <2>1, <2>6, ExecuteScan
  <1>4. CASE query.where # NoWhere
    <2> DEFINE node == [node |-> "filter", predicate |-> ExprToFilter[query.where]]
    <2>1. FilterNodes(query) = Append(<<>>, node)
      BY <1>4 DEF FilterNodes
    <2>2. IsPlan(Append(<<>>, node))
      <3>1. Append(<<>>, node) \in Seq({node})
        OBVIOUS
      <3> QED
        BY <3>1 DEF IsPlan
    <2>3. Execute(FilterNodes(query), flushed) = Apply(node, Result(rows), flushed)
      BY <2>1, ExecuteScan, ExecuteNode
    <2>4. Apply(node, Result(rows), flushed) = Filter(ExprToFilter[query.where])
      BY DEF Apply
    <2>5. query.where \in Clauses
      BY <1>1, <1>4 DEF Clauses
    <2> HIDE DEF node
    <2> QED
      BY <1>1, <1>2, <2>1, <2>2, <2>3, <2>4, <2>5, FilterLists
  <1> QED
    BY <1>3, <1>4

-----------------------------------------------------------------------------
(* Aggregates of rows. *)

(* What a column has in the rows is what INSERTs have for it: values of    *)
(* one type, and no integer beyond the largest.                            *)
LEMMA ColumnType ==
    ASSUME TypeOK, ColumnsTyped, RowsWritten, NEW c
    PROVE  /\ \A i \in DOMAIN rows : /\ Field(rows[i], c) \in Stored(c)
                                     /\ Field(rows[i], c) \in Entries
                                     /\ Field(rows[i], c).type = "int" => Field(rows[i], c).n <= MaxInt
           /\ \E t \in {"int", "float", "string"} :
                 /\ \A i \in DOMAIN rows : Field(rows[i], c).type \in {t, "null", "absent"}
                 /\ (\A v \in Stored(c) : v.type # "string") => t # "string"
  <1>1. ASSUME NEW i \in DOMAIN rows
        PROVE  /\ Field(rows[i], c) \in Stored(c) /\ Field(rows[i], c) \in Entries
               /\ Field(rows[i], c).type = "int" => Field(rows[i], c).n <= MaxInt
    <2>1. PICK insert \in Insertables : rows[i] = InsertToPlan(insert).values
      BY DEF RowsWritten
    <2>2. Field(rows[i], c) \in Stored(c)
      BY <2>1 DEF Stored
    <2>3. CASE ColumnIndex(c) \in DOMAIN rows[i]
      <3> DEFINE j == ColumnIndex(c)
      <3>1. /\ j \in 1..Len(rows[i]) /\ insert.exprs[j].value \in Literals
            /\ rows[i][j] = ValueOf(insert.exprs[j].value)
        BY <2>1, <2>3, PlannedRow
      <3>2. Field(rows[i], c) = ValueOf(insert.exprs[j].value)
        BY <2>3, <3>1 DEF Field, At
      <3> HIDE DEF j
      <3> QED
        BY <2>2, <3>1, <3>2, MaxIntAssumption DEF ValueOf, IntValue, Entries, Literals, NullValue
    <2>4. CASE ColumnIndex(c) \notin DOMAIN rows[i]
      BY <2>2, <2>4 DEF Field, At, Absent, Entries
    <2> QED
      BY <2>3, <2>4
  <1>2. CASE \E i \in DOMAIN rows : Field(rows[i], c) \notin {NullValue, Absent}
    <2>1. PICK i \in DOMAIN rows : Field(rows[i], c) \notin {NullValue, Absent}
      BY <1>2
    <2> DEFINE t == Field(rows[i], c).type
    <2>2. t \in {"int", "float", "string"}
      BY <1>1, <2>1, EntryShape
    <2>3. ASSUME NEW j \in DOMAIN rows PROVE Field(rows[j], c).type \in {t, "null", "absent"}
      <3>1. CASE Field(rows[j], c) \in {NullValue, Absent}
        BY <3>1 DEF NullValue, Absent
      <3>2. CASE Field(rows[j], c) \notin {NullValue, Absent}
        BY <2>1, <3>2, ColumnOfOneType
      <3> QED
        BY <3>1, <3>2
    <2>4. (\A v \in Stored(c) : v.type # "string") => t # "string"
      BY <1>1, <2>1
    <2> QED
      BY <1>1, <2>2, <2>3, <2>4
  <1>3. CASE \A i \in DOMAIN rows : Field(rows[i], c) \in {NullValue, Absent}
    <2>1. \A i \in DOMAIN rows : Field(rows[i], c).type \in {"int", "null", "absent"}
      BY <1>3 DEF NullValue, Absent
    <2> QED
      BY <1>1, <2>1
  <1> QED
    BY <1>2, <1>3

Aggregate == [item : {"aggregate"}, fn : Functions, name : STRING]

(* A type that a column has, and an aggregate can be asked of.             *)
LEMMA ColumnSuits ==
    ASSUME TypeOK, ColumnsTyped, RowsWritten, NEW agg \in Aggregate, AggregateFits(agg),
           agg.fn # "count_star"
    PROVE  \E t : /\ Suits(agg.fn, t) /\ t \in {"int", "float", "string"}
                  /\ \A i \in DOMAIN rows :
                        LET v == Field(rows[i], agg.name)
                        IN  /\ v \in Entries /\ v \in Stored(agg.name)
                            /\ v.type \in {t, "null", "absent"}
                            /\ v.type = "int" => v.n <= MaxInt
  <1>1. PICK t \in {"int", "float", "string"} :
                 /\ \A i \in DOMAIN rows : Field(rows[i], agg.name).type \in {t, "null", "absent"}
                 /\ (\A v \in Stored(agg.name) : v.type # "string") => t # "string"
    BY ColumnType
  <1>2. Suits(agg.fn, t)
    BY <1>1 DEF AggregateFits, Suits, OfNumbers, Aggregate, Functions
  <1>3. \A i \in DOMAIN rows : /\ Field(rows[i], agg.name) \in Stored(agg.name)
                               /\ Field(rows[i], agg.name) \in Entries
                               /\ Field(rows[i], agg.name).type = "int"
                                    => Field(rows[i], agg.name).n <= MaxInt
    BY ColumnType
  <1> QED
    BY <1>1, <1>2, <1>3

(* Rows that are listed. *)
LEMMA RowsListed ==
    ASSUME TypeOK, NEW P \in SUBSET (DOMAIN rows), NEW at \in SetToSeqs(P),
           NEW some, some = [k \in DOMAIN at |-> rows[at[k]]]
    PROVE  /\ IsFiniteSet(P) /\ Cardinality(P) \in Nat
           /\ DOMAIN at = 1..Cardinality(P)
           /\ some \in Seq(Rows) /\ Len(some) = Cardinality(P)
           /\ \A k \in 1..Cardinality(P) : at[k] \in P /\ some[k] = rows[at[k]]
           /\ \A i \in P : \E k \in 1..Cardinality(P) : at[k] = i
           /\ \A k, l \in 1..Cardinality(P) : at[k] = at[l] => k = l
  <1>1. DOMAIN rows = 1..Len(rows) /\ Len(rows) \in Nat /\ \A i \in DOMAIN rows : rows[i] \in Rows
    BY IdsOfRows
  <1>2. IsFiniteSet(P)
    <2>1. P \in SUBSET (1..Len(rows))
      BY <1>1
    <2> QED
      BY <1>1, <2>1, FinitePlaces
  <1>3. /\ DOMAIN at = 1..Cardinality(P) /\ Cardinality(P) \in Nat
        /\ \A k \in DOMAIN at : at[k] \in P
        /\ \A x \in P : \E k \in DOMAIN at : at[k] = x
        /\ \A k, l \in DOMAIN at : at[k] = at[l] => k = l
    BY <1>2, ListsAll
  <1>4. some \in Seq(Rows) /\ Len(some) = Cardinality(P)
    <2>1. some \in [1..Cardinality(P) -> Rows]
      BY <1>1, <1>3
    <2> QED
      BY <1>3, <2>1
  <1> QED
    BY <1>2, <1>3, <1>4

(* An aggregate of listed rows is the aggregate of SQL of these rows,      *)
(* whatever order they come in.                                            *)
LEMMA AggregateRowsIs ==
    ASSUME TypeOK, ColumnsTyped, RowsWritten, NEW P \in SUBSET (DOMAIN rows), NEW some,
           ListsRows(some, P), NEW agg \in Aggregate, AggregateFits(agg)
    PROVE  AggregateRows(some, agg) = SqlAggregate(P, agg)
  <1>1. PICK at \in SetToSeqs(P) : some = [k \in DOMAIN at |-> rows[at[k]]]
    BY DEF ListsRows
  <1>2. /\ IsFiniteSet(P) /\ Cardinality(P) \in Nat /\ DOMAIN at = 1..Cardinality(P)
        /\ some \in Seq(Rows) /\ Len(some) = Cardinality(P)
        /\ \A k \in 1..Cardinality(P) : at[k] \in P /\ some[k] = rows[at[k]]
    BY <1>1, RowsListed
  <1>3. CASE agg.fn = "count_star"
    BY <1>2, <1>3 DEF AggregateRows, SqlAggregate
  <1>4. CASE agg.fn # "count_star"
    <2> DEFINE name == agg.name
               fn   == agg.fn
               col  == ColumnOf(rows, name)
               values == [k \in 1..Cardinality(P) |-> col[at[k]]]
    <2>1. PICK t : /\ Suits(fn, t) /\ t \in {"int", "float", "string"}
                   /\ \A i \in DOMAIN rows :
                        LET v == Field(rows[i], name)
                        IN  /\ v \in Entries
                            /\ v.type \in {t, "null", "absent"}
                            /\ v.type = "int" => v.n <= MaxInt
      BY <1>4, ColumnSuits
    <2>2. /\ col \in Seq(Entries) /\ Len(col) = Len(rows)
          /\ DOMAIN rows = 1..Len(rows) /\ Len(rows) \in Nat
          /\ \A i \in 1..Len(rows) : col[i] = Field(rows[i], name)
      BY ColumnIs DEF TypeOK
    <2>3. ColumnOf(some, name) = values
      <3>1. /\ ColumnOf(some, name) \in Seq(Entries) /\ Len(ColumnOf(some, name)) = Len(some)
            /\ \A k \in 1..Len(some) : ColumnOf(some, name)[k] = Field(some[k], name)
        BY <1>2, ColumnIs
      <3>2. ColumnOf(some, name) = [k \in 1..Cardinality(P) |-> ColumnOf(some, name)[k]]
        BY <1>2, <3>1
      <3>3. \A k \in 1..Cardinality(P) : ColumnOf(some, name)[k] = col[at[k]]
        BY <1>2, <2>2, <3>1
      <3> HIDE DEF col
      <3> QED
        BY <3>2, <3>3
    <2>4. P \in SUBSET (1..Len(col))
      BY <2>2
    <2> HIDE DEF col
    <2>5. /\ values \in Seq(Entries) /\ Len(values) = Cardinality(P)
          /\ Total(values, t) = TotalAt(col, P, t)
          /\ Numbers(values, t) = NumbersAt(col, P, t)
          /\ Count(values, {t}) = CountAt(col, P, {t})
      BY <2>2, <2>4, OverListing
    <2>6. \A k \in 1..Cardinality(P) : values[k].type \in {t, "null", "absent"}
      BY <1>2, <2>1, <2>2
    <2> HIDE DEF values
    <2>7. \A k \in DOMAIN values : values[k].type \in {t, "null", "absent"}
      BY <2>5, <2>6
    <2>8. OverRows(fn, values)
              = AggregateOf(fn, t, Total(values, t), Numbers(values, t), Count(values, {t}))
      BY <2>1, <2>5, <2>7, OverRowsIs
    <2>9. SqlAggregate(P, agg)
              = AggregateOf(fn, t, TotalAt(col, P, t), NumbersAt(col, P, t), CountAt(col, P, {t}))
      BY <2>1, SqlAggregateIs DEF col
    <2>10. AggregateRows(some, agg) = OverRows(fn, values)
      BY <1>4, <2>3 DEF AggregateRows
    <2> QED
      BY <2>5, <2>8, <2>9, <2>10
  <1> QED
    BY <1>3, <1>4

-----------------------------------------------------------------------------
(* The reply is what the plan of the statement gives now, too: a SELECT    *)
(* changes neither the rows nor the index, and the chunks before it reads  *)
(* them. An aggregate has left nothing in the buffer.                      *)
Replied ==
    Answered =>
        /\ last.query \in Queries /\ Plannable(last.query)
        /\ last.reply = Execute(QueryToPlan(last.query), chunks)
        /\ Aggregates(QueryToPlan(last.query)) => buffer = <<>>

(* No later step changes what the reply is about without a new reply. *)
LEMMA RepliesStand == Spec => []Replied
  <1>1. Init => Replied
    BY DEF Init, Replied, Answered, NoReply
  <1>2. Replied /\ [Next]_vars => Replied'
    <2> SUFFICES ASSUME Replied, [Next]_vars PROVE Replied'
      OBVIOUS
    <2>1. ASSUME NEW insert \in Inserts, InsertRow(insert) PROVE Replied'
      BY <2>1 DEF InsertRow, Replied, Answered, NoReply
    <2>2. ASSUME NEW query \in Queries, Select(query) PROVE Replied'
      <3>1. rows' = rows /\ index' = index /\ indexed' = indexed
        BY <2>2 DEF Select, Flush, stored
      <3>2. last' = [query |-> query, reply |-> Execute(QueryToPlan(query), chunks')]
        BY <2>2 DEF Select
      <3>3. Plannable(query)
        BY <2>2 DEF Select
      <3>4. last'.reply = Execute(QueryToPlan(last'.query), chunks')
        BY <3>2
      <3>5. Execute(QueryToPlan(last.query), chunks)' = Execute(QueryToPlan(last'.query), chunks')
        BY <3>1 DEF Execute, Apply, Filter, ByIndex, LookUp
      <3>6. Aggregates(QueryToPlan(query)) => buffer' = <<>>
        BY <2>2 DEF Select, Flush
      <3>7. last'.query = query
        BY <3>2
      <3>8. Plannable(last.query)' <=> Plannable(query)
        BY <3>7 DEF Plannable
      <3> QED
        BY <3>3, <3>4, <3>5, <3>6, <3>7, <3>8 DEF Replied
    <2>3. ASSUME Refuse PROVE Replied'
      BY <2>3 DEF Refuse, Replied, Answered, NoReply
    <2>4. ASSUME UNCHANGED vars PROVE Replied'
      <3>1. rows' = rows /\ index' = index /\ indexed' = indexed /\ chunks' = chunks /\ last' = last
            /\ buffer' = buffer
        BY <2>4 DEF vars, stored
      <3>2. Execute(QueryToPlan(last.query), chunks)' = Execute(QueryToPlan(last.query), chunks)
        BY <3>1 DEF Execute, Apply, Filter, ByIndex, LookUp
      <3> QED
        BY <3>1, <3>2 DEF Replied, Answered
    <2> QED
      BY <2>1, <2>2, <2>3, <2>4 DEF Next
  <1> QED
    BY <1>1, <1>2, PTL DEF Spec

-----------------------------------------------------------------------------
(* Orders by one thing and then the next, each in an order of its own. *)

OrdersOf(L, n, V) == \A i \in 1..n : StrictOrder(V, L[i])

Precedes(f, g, L, n) ==
    \E i \in 1..n : (\A j \in 1..i - 1 : f[j] = g[j]) /\ <<f[i], g[i]>> \in L[i]

(* Such an order is as strict as those it is made of. *)
LEMMA PrecedesStrictly ==
    ASSUME NEW n \in Nat, NEW V, NEW L, OrdersOf(L, n, V)
    PROVE  /\ \A f \in [1..n -> V] : ~ Precedes(f, f, L, n)
           /\ \A f, g \in [1..n -> V] : f # g => Precedes(f, g, L, n) \/ Precedes(g, f, L, n)
           /\ \A f, g, h \in [1..n -> V] :
                 Precedes(f, g, L, n) /\ Precedes(g, h, L, n) => Precedes(f, h, L, n)
  <1>1. /\ \A i \in 1..n : \A v, w \in V : v # w => <<v, w>> \in L[i] \/ <<w, v>> \in L[i]
        /\ \A i \in 1..n : \A v \in V : <<v, v>> \notin L[i]
        /\ \A i \in 1..n : \A u, v, w \in V : <<u, v>> \in L[i] /\ <<v, w>> \in L[i] => <<u, w>> \in L[i]
    BY DEF OrdersOf, StrictOrder
  <1>2. \A f \in [1..n -> V] : ~ Precedes(f, f, L, n)
    BY <1>1 DEF Precedes
  <1>3. ASSUME NEW f \in [1..n -> V], NEW g \in [1..n -> V], f # g
        PROVE  Precedes(f, g, L, n) \/ Precedes(g, f, L, n)
    <2> DEFINE D == {i \in 1..n : f[i] # g[i]}
    <2>1. D # {}
      <3> SUFFICES ASSUME \A i \in 1..n : f[i] = g[i] PROVE FALSE
        OBVIOUS
      <3> QED
        BY <1>3
    <2>2. D \in SUBSET Nat
      OBVIOUS
    <2> HIDE DEF D
    <2>3. PICK i \in D : \A m \in D : i <= m
      BY <2>1, <2>2, Smallest
    <2>4. i \in 1..n /\ f[i] # g[i] /\ \A j \in 1..i - 1 : f[j] = g[j]
      BY <2>3 DEF D
    <2>5. <<f[i], g[i]>> \in L[i] \/ <<g[i], f[i]>> \in L[i]
      BY <1>1, <2>4
    <2> QED
      BY <2>4, <2>5 DEF Precedes
  <1>4. ASSUME NEW f \in [1..n -> V], NEW g \in [1..n -> V], NEW h \in [1..n -> V],
               Precedes(f, g, L, n), Precedes(g, h, L, n)
        PROVE  Precedes(f, h, L, n)
    <2>1. PICK i \in 1..n : (\A j \in 1..i - 1 : f[j] = g[j]) /\ <<f[i], g[i]>> \in L[i]
      BY <1>4 DEF Precedes
    <2>2. PICK k \in 1..n : (\A j \in 1..k - 1 : g[j] = h[j]) /\ <<g[k], h[k]>> \in L[k]
      BY <1>4 DEF Precedes
    <2>3. CASE i < k
      <3>1. g[i] = h[i]
        BY <2>1, <2>2, <2>3
      <3>2. <<f[i], h[i]>> \in L[i]
        BY <2>1, <2>2, <3>1
      <3>3. \A j \in 1..i - 1 : f[j] = h[j]
        BY <2>1, <2>2, <2>3
      <3> QED
        BY <3>2, <3>3 DEF Precedes
    <2>4. CASE k < i
      <3>1. f[k] = g[k]
        BY <2>1, <2>2, <2>4
      <3>2. <<f[k], h[k]>> \in L[k]
        BY <2>1, <2>2, <3>1
      <3>3. \A j \in 1..k - 1 : f[j] = h[j]
        BY <2>1, <2>2, <2>4
      <3> QED
        BY <3>2, <3>3 DEF Precedes
    <2>5. CASE i = k
      <3>1. <<f[i], h[i]>> \in L[i]
        BY <1>1, <2>1, <2>2, <2>5
      <3>2. \A j \in 1..i - 1 : f[j] = h[j]
        BY <2>1, <2>2, <2>5
      <3> QED
        BY <3>1, <3>2 DEF Precedes
    <2> QED
      BY <2>3, <2>4, <2>5
  <1> QED
    BY <1>2, <1>3, <1>4

-----------------------------------------------------------------------------
(* Groups. *)

(* One value before another in the text of a key: nothing comes first.     *)
TextLess(v, w) ==
    \/ v = Absent /\ w # Absent
    \/ /\ v # Absent /\ w # Absent
       /\ \/ TypeOrder[v.type] < TypeOrder[w.type]
          \/ v.type = w.type /\ v.n < w.n

TextPairs == {p \in Entries \X Entries : TextLess(p[1], p[2])}

(* The order of the texts of two values is strict. *)
LEMMA TextOrder == StrictOrder(Entries, TextPairs)
  <1>1. \A v, w \in Entries : <<v, w>> \in TextPairs <=> TextLess(v, w)
    BY DEF TextPairs
  <1>2. \A v \in Entries : v # Absent => TypeOrder[v.type] \in 1..4
    BY EntryShape DEF TypeOrder
  <1>3. \A v, w \in Entries : v # Absent /\ w # Absent /\ TypeOrder[v.type] = TypeOrder[w.type]
                                => v.type = w.type
    BY EntryShape DEF TypeOrder
  <1>4. \A v, w \in Entries : v # w => TextLess(v, w) \/ TextLess(w, v)
    <2> SUFFICES ASSUME NEW v \in Entries, NEW w \in Entries, v # w
                 PROVE  TextLess(v, w) \/ TextLess(w, v)
      OBVIOUS
    <2>1. v.type = w.type => v.n # w.n
      BY EntryShape
    <2>2. v.n \in Nat /\ w.n \in Nat
      BY EntryShape
    <2> QED
      BY <1>2, <1>3, <2>1, <2>2 DEF TextLess
  <1>5. \A v \in Entries : ~ TextLess(v, v)
    <2> SUFFICES ASSUME NEW v \in Entries PROVE ~ TextLess(v, v)
      OBVIOUS
    <2>1. v.n \in Nat
      BY EntryShape
    <2> QED
      BY <1>2, <2>1 DEF TextLess
  <1>6. \A u, v, w \in Entries : TextLess(u, v) /\ TextLess(v, w) => TextLess(u, w)
    <2> SUFFICES ASSUME NEW u \in Entries, NEW v \in Entries, NEW w \in Entries,
                        TextLess(u, v), TextLess(v, w)
                 PROVE  TextLess(u, w)
      OBVIOUS
    <2>1. u.n \in Nat /\ v.n \in Nat /\ w.n \in Nat
      BY EntryShape
    <2> QED
      BY <1>2, <2>1 DEF TextLess
  <1> QED
    BY <1>1, <1>4, <1>5, <1>6 DEF StrictOrder

(* Keys of groups, of so many columns or fewer.                            *)
KeysOf(m) == {k \in Seq(Literals) : Len(k) <= m}

KeyPairs(K) == {p \in K \X K : TextBefore(p[1], p[2])}

(* So is the order of the texts of keys of a few values. *)
LEMMA KeysOrdered ==
    ASSUME NEW m \in Nat, NEW K \in SUBSET KeysOf(m)
    PROVE  StrictOrder(K, KeyPairs(K))
  <1> DEFINE L == [i \in 1..m |-> TextPairs]
             full(k) == [i \in 1..m |-> At(k, i)]
  <1>1. OrdersOf(L, m, Entries)
    BY TextOrder DEF OrdersOf
  <1>2. \A i \in 1..m : L[i] = TextPairs
    OBVIOUS
  <1>3. ASSUME NEW k \in K PROVE /\ Len(k) \in Nat /\ Len(k) <= m /\ DOMAIN k = 1..Len(k)
                                 /\ \A i \in 1..Len(k) : At(k, i) = k[i] /\ k[i] \in Literals
                                 /\ \A i \in Nat \ DOMAIN k : At(k, i) = Absent
    BY <1>3 DEF KeysOf, At
  <1>4. Absent \notin Literals
    BY DEF Absent, Literals, NullValue
  <1>5. ASSUME NEW k \in K PROVE full(k) \in [1..m -> Entries]
    <2>1. \A i \in 1..m : At(k, i) \in Entries
      BY <1>3 DEF Entries
    <2> QED
      BY <2>1
  <1>6. \A k \in K : \A i \in 1..m : full(k)[i] = At(k, i)
    OBVIOUS
  <1> HIDE DEF L, full
  <1>7. ASSUME NEW k \in K, NEW l \in K PROVE TextBefore(k, l) <=> Precedes(full(k), full(l), L, m)
    <2>1. ASSUME NEW i \in 1..m, \A j \in 1..i - 1 : At(k, j) = At(l, j)
          PROVE  /\ TextLess(At(k, i), At(l, i)) =>
                      /\ i \in DOMAIN l /\ \A j \in 1..i - 1 : At(k, j) = l[j]
                      /\ \/ i > Len(k)
                         \/ TypeOrder[k[i].type] < TypeOrder[l[i].type]
                         \/ k[i].type = l[i].type /\ k[i].n < l[i].n
      <3> SUFFICES ASSUME TextLess(At(k, i), At(l, i))
                   PROVE  /\ i \in DOMAIN l /\ \A j \in 1..i - 1 : At(k, j) = l[j]
                          /\ \/ i > Len(k)
                             \/ TypeOrder[k[i].type] < TypeOrder[l[i].type]
                             \/ k[i].type = l[i].type /\ k[i].n < l[i].n
        OBVIOUS
      <3>1. i \in DOMAIN l
        BY <1>3 DEF TextLess
      <3>2. \A j \in 1..i - 1 : At(l, j) = l[j]
        BY <1>3, <3>1
      <3>3. CASE i \in DOMAIN k
        BY <1>3, <1>4, <2>1, <3>1, <3>2, <3>3 DEF TextLess
      <3>4. CASE i \notin DOMAIN k
        BY <1>3, <2>1, <3>1, <3>2, <3>4
      <3> QED
        BY <3>3, <3>4
    <2>2. Precedes(full(k), full(l), L, m) <=>
            \E i \in 1..m : (\A j \in 1..i - 1 : At(k, j) = At(l, j)) /\ TextLess(At(k, i), At(l, i))
      <3>1. \A i \in 1..m : At(k, i) \in Entries /\ At(l, i) \in Entries
        BY <1>3 DEF Entries
      <3>2. \A i \in 1..m : <<full(k)[i], full(l)[i]>> \in L[i] <=> TextLess(At(k, i), At(l, i))
        BY <1>2, <1>6, <3>1 DEF TextPairs
      <3>3. \A i \in 1..m : \A j \in 1..i - 1 : full(k)[j] = At(k, j) /\ full(l)[j] = At(l, j)
        BY <1>6
      <3> QED
        BY <3>2, <3>3 DEF Precedes
    <2>3. ASSUME TextBefore(k, l) PROVE Precedes(full(k), full(l), L, m)
      <3>1. PICK i \in DOMAIN l :
              /\ \A j \in 1..i - 1 : At(k, j) = l[j]
              /\ \/ i > Len(k)
                 \/ TypeOrder[k[i].type] < TypeOrder[l[i].type]
                 \/ k[i].type = l[i].type /\ k[i].n < l[i].n
        BY <2>3 DEF TextBefore
      <3>2. i \in 1..m /\ i \in 1..Len(l) /\ \A j \in 1..i - 1 : At(k, j) = At(l, j)
        BY <1>3, <3>1
      <3>3. TextLess(At(k, i), At(l, i))
        <4>1. CASE i > Len(k)
          BY <1>3, <1>4, <3>2, <4>1 DEF TextLess
        <4>2. CASE i <= Len(k)
          <5>1. i \in 1..Len(k)
            BY <3>2, <4>2
          <5>2. At(k, i) = k[i] /\ At(l, i) = l[i] /\ k[i] # Absent /\ l[i] # Absent
            BY <1>3, <1>4, <3>2, <5>1
          <5>3. ~ (i > Len(k))
            BY <1>3, <4>2, <3>2
          <5> QED
            BY <3>1, <5>2, <5>3 DEF TextLess
        <4> QED
          BY <1>3, <3>2, <4>1, <4>2
      <3> QED
        BY <2>2, <3>2, <3>3
    <2>4. ASSUME Precedes(full(k), full(l), L, m) PROVE TextBefore(k, l)
      <3>1. PICK i \in 1..m : (\A j \in 1..i - 1 : At(k, j) = At(l, j)) /\ TextLess(At(k, i), At(l, i))
        BY <2>2, <2>4
      <3> QED
        BY <2>1, <3>1 DEF TextBefore
    <2> QED
      BY <2>3, <2>4
  <1>8. ASSUME NEW k \in K, NEW l \in K, full(k) = full(l) PROVE k = l
    <2>1. \A i \in 1..m : At(k, i) = At(l, i)
      BY <1>6, <1>8
    <2>2. \A i \in 1..m : i \in DOMAIN k <=> i \in DOMAIN l
      BY <1>3, <1>4, <2>1
    <2>3. Len(k) = Len(l)
      <3>1. ~ (Len(k) < Len(l))
        BY <1>3, <2>2
      <3>2. ~ (Len(l) < Len(k))
        BY <1>3, <2>2
      <3> QED
        BY <1>3, <3>1, <3>2
    <2>4. \A i \in 1..Len(k) : k[i] = l[i]
      BY <1>3, <2>1, <2>3
    <2>5. k \in Seq(Literals) /\ l \in Seq(Literals)
      BY DEF KeysOf
    <2> QED
      BY <2>3, <2>4, <2>5
  <1>9. \A k, l \in K : <<k, l>> \in KeyPairs(K) <=> Precedes(full(k), full(l), L, m)
    BY <1>7 DEF KeyPairs
  <1>10. /\ \A k \in K : ~ Precedes(full(k), full(k), L, m)
         /\ \A k, l \in K : k # l => Precedes(full(k), full(l), L, m) \/ Precedes(full(l), full(k), L, m)
         /\ \A j, k, l \in K : Precedes(full(j), full(k), L, m) /\ Precedes(full(k), full(l), L, m)
                                 => Precedes(full(j), full(l), L, m)
    <2>1. \A k \in K : full(k) \in [1..m -> Entries]
      BY <1>5
    <2>2. \A k, l \in K : k # l => full(k) # full(l)
      BY <1>8
    <2>3. /\ \A f \in [1..m -> Entries] : ~ Precedes(f, f, L, m)
          /\ \A f, g \in [1..m -> Entries] : f # g => Precedes(f, g, L, m) \/ Precedes(g, f, L, m)
          /\ \A f, g, h \in [1..m -> Entries] :
                Precedes(f, g, L, m) /\ Precedes(g, h, L, m) => Precedes(f, h, L, m)
      BY <1>1, PrecedesStrictly
    <2> QED
      BY <2>1, <2>2, <2>3
  <1> QED
    BY <1>9, <1>10 DEF StrictOrder

(* The keys of some groups in the order of their text. *)
LEMMA KeysListed ==
    ASSUME NEW m \in Nat, NEW K \in SUBSET KeysOf(m), IsFiniteSet(K)
    PROVE  Listed(K, TextBefore) \in SetToSeqs(K)
  <1>1. \A k, l \in K : <<k, l>> \in KeyPairs(K) <=> TextBefore(k, l)
    BY DEF KeyPairs
  <1>2. \A l \in K : {k \in K : TextBefore(k, l)} = Below(K, KeyPairs(K), l)
    BY <1>1 DEF Below
  <1>3. PICK s : ListsInOrder(s, K, KeyPairs(K))
    BY KeysOrdered, OrderedList
  <1> USE <1>3 DEF ListsInOrder
  <1>4. \A k \in 1..Cardinality(K) :
           s[k] = CHOOSE x \in K : Cardinality({y \in K : TextBefore(y, x)}) = k - 1
    BY <1>2
  <1>5. s = [k \in 1..Cardinality(K) |-> s[k]]
    BY DEF SetToSeqs
  <1>6. Listed(K, TextBefore) = s
    BY <1>4, <1>5 DEF Listed
  <1> QED
    BY <1>6

(* The key of a row is one of at most as many values as there are columns. *)
LEMMA GroupKeyIs ==
    ASSUME NEW columns \in Seq(STRING), NEW r \in Rows
    PROVE  GroupKey(r, columns) \in KeysOf(Len(columns))
  <1> DEFINE m == Len(columns)
             values == [i \in DOMAIN columns |-> Field(r, columns[i])]
             P == {i \in DOMAIN values : values[i] # Absent}
  <1>1. m \in Nat /\ DOMAIN columns = 1..m /\ DOMAIN values = 1..m
    OBVIOUS
  <1>2. \A i \in 1..m : values[i] \in Entries
    BY DEF Field, At, Rows, Entries
  <1> HIDE DEF m, values
  <1>3. P \in SUBSET (1..m)
    BY <1>1
  <1>4. \A i \in P : values[i] \in Literals
    BY <1>1, <1>2 DEF Entries
  <1> HIDE DEF P
  <1>5. PICK at \in SetToSeqs(P) :
              /\ IsFiniteSet(P) /\ DOMAIN at = 1..Cardinality(P)
              /\ Cardinality(P) \in Nat
              /\ \A i, j \in DOMAIN at : i < j => at[i] < at[j]
              /\ Those(values, P) = [k \in DOMAIN at |-> values[at[k]]]
    <2>1. m \in Nat /\ DOMAIN values = 1..m
      BY <1>1
    <2> QED
      BY <1>3, <2>1, ThoseAre
  <1>6. \A k \in 1..Cardinality(P) : at[k] \in P
    BY <1>5, ListsAll
  <1>7. Those(values, P) \in Seq(Literals) /\ Len(Those(values, P)) = Cardinality(P)
    <2>1. Those(values, P) \in [1..Cardinality(P) -> Literals]
      BY <1>4, <1>5, <1>6
    <2> QED
      BY <1>5, <2>1
  <1>8. Cardinality(P) <= m
    <2> DEFINE S == 1..m
    <2>1. IsFiniteSet(S) /\ Cardinality(S) = m /\ P \in SUBSET S
      BY <1>1, <1>3, FS_Interval
    <2> HIDE DEF S
    <2> QED
      BY <2>1, FS_Subset
  <1>9. GroupKey(r, columns) = Those(values, P)
    BY DEF GroupKey, Present, values, P
  <1> QED
    BY <1>7, <1>8, <1>9 DEF KeysOf, m

(* Rows listed as some places of the table. *)
RowsAt(some, at, P) == at \in SetToSeqs(P) /\ some = [k \in DOMAIN at |-> rows[at[k]]]

(* Of listed rows, those with some property are listed, too. *)
LEMMA PartListed ==
    ASSUME TypeOK, NEW P \in SUBSET (DOMAIN rows), NEW at, NEW some, RowsAt(some, at, P),
           NEW Q \in SUBSET P
    PROVE  ListsRows(Those(some, {k \in DOMAIN some : at[k] \in Q}), Q)
  <1> DEFINE n == Cardinality(P)
             K == {k \in DOMAIN some : at[k] \in Q}
  <1>1. /\ IsFiniteSet(P) /\ n \in Nat /\ DOMAIN at = 1..n
        /\ some \in Seq(Rows) /\ Len(some) = n
        /\ \A k \in 1..n : at[k] \in P /\ some[k] = rows[at[k]]
        /\ \A i \in P : \E k \in 1..n : at[k] = i
        /\ \A k, l \in 1..n : at[k] = at[l] => k = l
    BY RowsListed DEF RowsAt
  <1> HIDE DEF n
  <1>2. DOMAIN some = 1..n /\ K \in SUBSET (1..n) /\ K = {k \in 1..n : at[k] \in Q}
    BY <1>1
  <1> HIDE DEF K
  <1>3. PICK sub \in SetToSeqs(K) :
              /\ IsFiniteSet(K) /\ DOMAIN sub = 1..Cardinality(K)
              /\ Cardinality(K) \in Nat
              /\ \A i, j \in DOMAIN sub : i < j => sub[i] < sub[j]
              /\ Those(some, K) = [k \in DOMAIN sub |-> some[sub[k]]]
    <2>1. n \in Nat /\ DOMAIN some = 1..n /\ K \in SUBSET (1..n)
      BY <1>1, <1>2
    <2> QED
      BY <2>1, ThoseAre
  <1>4. /\ \A k \in 1..Cardinality(K) : sub[k] \in K
        /\ \A x \in K : \E k \in 1..Cardinality(K) : sub[k] = x
        /\ \A k, l \in 1..Cardinality(K) : sub[k] = sub[l] => k = l
    BY <1>3, ListsAll
  <1> DEFINE bt == [k \in 1..Cardinality(K) |-> at[sub[k]]]
  <1>5. \A k \in 1..Cardinality(K) : sub[k] \in 1..n /\ at[sub[k]] \in Q
    BY <1>2, <1>4
  <1>6. \A x \in Q : \E k \in 1..Cardinality(K) : bt[k] = x
    <2> SUFFICES ASSUME NEW x \in Q PROVE \E k \in 1..Cardinality(K) : bt[k] = x
      OBVIOUS
    <2>1. PICK l \in 1..n : at[l] = x
      BY <1>1
    <2>2. l \in K
      BY <1>2, <2>1
    <2> QED
      BY <1>4, <2>1, <2>2
  <1>7. \A k, l \in 1..Cardinality(K) : bt[k] = bt[l] => k = l
    BY <1>1, <1>4, <1>5
  <1>8. bt \in [1..Cardinality(K) -> Q]
    BY <1>5
  <1>9. Cardinality(Q) = Cardinality(K)
    <2> DEFINE c == Cardinality(K)
    <2> HIDE DEF c
    <2>1. bt \in Bijection(1..c, Q)
      BY <1>6, <1>7, <1>8 DEF Bijection, Injection, Surjection, IsInjective, c
    <2>2. ExistsBijection(1..c, Q)
      BY <2>1 DEF ExistsBijection
    <2> QED
      BY <1>3, <2>2, FS_CountingElements DEF c
  <1>10. bt \in SetToSeqs(Q)
    BY <1>7, <1>8, <1>9 DEF SetToSeqs
  <1>11. Those(some, K) = [k \in DOMAIN bt |-> rows[bt[k]]]
    BY <1>1, <1>3, <1>5
  <1> QED
    BY <1>10, <1>11 DEF ListsRows, K

(* Two lists that end alike begin alike. *)
LEMMA SameBeginnings ==
    ASSUME NEW X, NEW s \in Seq(X), NEW t \in Seq(X), NEW a \in Seq(X), NEW b \in Seq(X),
           Len(a) = Len(b), s \o a = t \o b
    PROVE  s = t
  <1>1. Len(s \o a) = Len(s) + Len(a) /\ Len(t \o b) = Len(t) + Len(b)
    OBVIOUS
  <1>2. Len(s) = Len(t)
    BY <1>1
  <1>3. \A i \in 1..Len(s) : (s \o a)[i] = s[i] /\ (t \o b)[i] = t[i]
    BY <1>2
  <1> QED
    BY <1>2, <1>3

(* The items of one kind. *)
LEMMA ChosenAre ==
    ASSUME NEW query \in Queries, NEW kind
    PROVE  LET some == Chosen(query.items, kind)
           IN  /\ some \in Seq(Items) /\ DOMAIN some = 1..Len(some) /\ Len(some) \in Nat
               /\ \A j \in DOMAIN some : /\ some[j] \in ToSet(query.items) /\ some[j] \in Items
                                         /\ some[j].item = kind
  <1> DEFINE items == query.items
             P == {i \in DOMAIN items : items[i].item = kind}
  <1>1. items \in Seq(Items)
    BY QueriesAssumption
  <1> HIDE DEF items
  <1>2. DOMAIN items = 1..Len(items) /\ Len(items) \in Nat /\ P \in SUBSET (1..Len(items))
    BY <1>1
  <1>3. \A i \in P : items[i] \in ToSet(items) /\ items[i] \in Items /\ items[i].item = kind
    BY <1>1 DEF ToSet
  <1> HIDE DEF P
  <1>4. PICK at \in SetToSeqs(P) :
              /\ IsFiniteSet(P) /\ DOMAIN at = 1..Cardinality(P)
              /\ Cardinality(P) \in Nat
              /\ \A i, j \in DOMAIN at : i < j => at[i] < at[j]
              /\ Those(items, P) = [k \in DOMAIN at |-> items[at[k]]]
    BY <1>2, ThoseAre
  <1>5. \A k \in 1..Cardinality(P) : at[k] \in P
    BY <1>4, ListsAll
  <1>6. Those(items, P) \in [1..Cardinality(P) -> Items]
    BY <1>3, <1>4, <1>5
  <1>7. \A j \in DOMAIN Those(items, P) :
           Those(items, P)[j] \in ToSet(items) /\ Those(items, P)[j].item = kind
    BY <1>3, <1>4, <1>5
  <1>8. Those(items, P) \in Seq(Items)
    BY <1>4, <1>6
  <1>9. Chosen(items, kind) = Those(items, P)
    BY DEF Chosen, P
  <1> HIDE DEF P
  <1>10. LET some == Those(items, P)
         IN  /\ some \in Seq(Items) /\ DOMAIN some = 1..Len(some) /\ Len(some) \in Nat
             /\ \A j \in DOMAIN some : some[j] \in Items
    BY <1>8
  <1> QED
    BY <1>7, <1>9, <1>10 DEF items

(* An item that is an aggregate. *)
LEMMA AggregateItem ==
    ASSUME NEW item \in Items, item.item = "aggregate"
    PROVE  item \in Aggregate
  BY DEF Items, Bare, Star, Aggregate

(* Without ORDER BY and LIMIT there are no nodes for them. *)
LEMMA PlanOfUnlimited ==
    ASSUME TypeOK, NEW query \in Queries, Plannable(query), WhereMatches, Unlimited(query), NEW node,
           ProjectionNodes(query) = <<node>>
    PROVE  QueryToPlan(query) = Append(FilterNodes(query), node)
  <1>1. PICK X : FilterNodes(query) \in Seq(X)
    BY FilterNodesList DEF IsPlan
  <1> DEFINE Y == X \cup {node}
             filters == FilterNodes(query)
  <1>2. filters \in Seq(Y) /\ <<node>> \in Seq(Y)
    BY <1>1
  <1>3. QueryToPlan(query) = filters \o <<node>> \o <<>> \o <<>>
    BY DEF QueryToPlan, OrderNodes, LimitNodes, Unlimited
  <1> HIDE DEF filters, Y
  <1>4. filters \o <<node>> = Append(filters, node) /\ Append(filters, node) \in Seq(Y)
    BY <1>2 DEF Y
  <1>5. \A s \in Seq(Y) : s \o <<>> = s
    OBVIOUS
  <1> QED
    BY <1>3, <1>4, <1>5 DEF filters

(* All the values are there. *)
LEMMA AllPresent ==
    ASSUME NEW values \in Seq(Literals)
    PROVE  Present(values) = values
  <1>1. \A i \in DOMAIN values : values[i] # Absent
    <2>1. Absent \notin Literals
      BY DEF Literals, Absent, NullValue
    <2> QED
      BY <2>1
  <1>2. {i \in DOMAIN values : values[i] # Absent} = DOMAIN values
    BY <1>1
  <1> QED
    BY <1>2, ThoseAll DEF Present

(* A row that has all the columns has values in them. *)
LEMMA ValuesOfColumns ==
    ASSUME NEW r \in Rows, NEW columns \in Seq(STRING), HasAll(r, ToSet(columns))
    PROVE  LET values == [i \in DOMAIN columns |-> Field(r, columns[i])]
           IN  /\ values \in Seq(Literals) /\ Len(values) = Len(columns)
               /\ Present(values) = values
               /\ values = [i \in DOMAIN columns |-> OrNull(Field(r, columns[i]))]
  <1> DEFINE values == [i \in DOMAIN columns |-> Field(r, columns[i])]
  <1>1. DOMAIN columns = 1..Len(columns) /\ Len(columns) \in Nat
    OBVIOUS
  <1>2. \A i \in DOMAIN columns : Field(r, columns[i]) # Absent
    BY DEF HasAll, ToSet
  <1>3. \A i \in DOMAIN columns : Field(r, columns[i]) \in Literals
    BY <1>2 DEF Field, At, Rows
  <1>4. values \in [1..Len(columns) -> Literals]
    BY <1>1, <1>3
  <1>5. values \in Seq(Literals) /\ Len(values) = Len(columns)
    <2> DEFINE n == Len(columns)
    <2> HIDE DEF values, n
    <2>1. values \in [1..n -> Literals] /\ n \in Nat
      BY <1>1, <1>4 DEF n
    <2> QED
      BY <2>1 DEF n
  <1>6. values = [i \in DOMAIN columns |-> OrNull(Field(r, columns[i]))]
    BY <1>2 DEF OrNull
  <1> HIDE DEF values
  <1>7. Present(values) = values
    BY <1>5, AllPresent
  <1> QED
    BY <1>5, <1>6, <1>7 DEF values

(* The rows of a group. *)
Alike(query, k) == {i \in Kept(query) : GroupKey(rows[i], query.group) = k}

(* The rows of a GROUP BY: the keys in their order, each with the          *)
(* aggregates of the rows that have it.                                    *)
GroupRow(query, k) ==
    LET aggs == Chosen(query.items, "aggregate")
    IN  k \o [j \in DOMAIN aggs |-> SqlAggregate(Alike(query, k), aggs[j])]

(* A GROUP BY gives these rows for the keys of the rows that WHERE leaves. *)
LEMMA GroupRows ==
    ASSUME TypeOK, WhereMatches, RowsWritten, ColumnsTyped, GroupsFit,
           NEW query \in Queries, Plannable(query), query.group # <<>>, NEW flushed
    PROVE  LET K == {GroupKey(rows[i], query.group) : i \in Kept(query)}
           IN  /\ K \in SUBSET KeysOf(Len(query.group)) /\ IsFiniteSet(K)
               /\ \E keys \in SetToSeqs(K) :
                     Execute(QueryToPlan(query), flushed)
                       = Result([k \in DOMAIN keys |-> GroupRow(query, keys[k])])
  <1> DEFINE by   == query.group
             aggs == Chosen(query.items, "aggregate")
             node == [node |-> "group", by |-> by, aggs |-> aggs]
             P    == Kept(query)
             K    == {GroupKey(rows[i], by) : i \in P}
             keys == Listed(K, TextBefore)
  <1>1. by \in Seq(STRING) /\ Len(by) \in Nat
    BY QueriesAssumption
  <1>2. /\ aggs \in Seq(Items) /\ DOMAIN aggs = 1..Len(aggs) /\ Len(aggs) \in Nat
        /\ \A j \in DOMAIN aggs : /\ aggs[j] \in ToSet(query.items) /\ aggs[j] \in Items
                                  /\ aggs[j].item = "aggregate"
    BY ChosenAre
  <1> HIDE DEF aggs
  <1>3. /\ Unlimited(query) /\ Known(ToSet(by))
        /\ \A j \in DOMAIN aggs : aggs[j] \in Aggregate /\ AggregateFits(aggs[j])
    BY <1>2, AggregateItem DEF GroupsFit, Plannable
  <1>4. Known(AggColumns(aggs))
    <2> SUFFICES ASSUME NEW c \in AggColumns(aggs) PROVE ColumnIndex(c) # 0
      BY DEF Known
    <2>1. PICK j \in DOMAIN aggs : aggs[j].fn # "count_star" /\ c = aggs[j].name
      BY DEF AggColumns, ToSet
    <2> QED
      BY <1>3, <2>1 DEF AggregateFits
  <1>5. PICK some : Execute(FilterNodes(query), flushed) = Result(some) /\ ListsRows(some, P)
    BY FilterNodesList
  <1>6. IsPlan(FilterNodes(query))
    BY FilterNodesList
  <1>7. Execute(QueryToPlan(query), flushed) = GroupBy(some, by, aggs)
    <2>1. ProjectionNodes(query) = <<node>>
      BY DEF ProjectionNodes, aggs
    <2>2. QueryToPlan(query) = Append(FilterNodes(query), node)
      BY <1>3, <2>1, PlanOfUnlimited
    <2>3. Execute(QueryToPlan(query), flushed) = Apply(node, Result(some), flushed)
      BY <1>5, <1>6, <2>2, ExecuteNode
    <2>4. /\ node.node = "group" /\ node.by = by /\ node.aggs = aggs
          /\ Result(some).kind = "rows" /\ Result(some).rows = some
      BY DEF Result
    <2> HIDE DEF node, by
    <2> QED
      BY <2>3, <2>4 DEF Apply
  <1>8. PICK at : RowsAt(some, at, P)
    BY <1>5 DEF ListsRows, RowsAt
  <1>9. P \in SUBSET (DOMAIN rows)
    BY DEF Kept
  <1>10. /\ IsFiniteSet(P) /\ Cardinality(P) \in Nat /\ DOMAIN some = 1..Cardinality(P)
         /\ \A k \in DOMAIN some : at[k] \in P /\ some[k] = rows[at[k]] /\ some[k] \in Rows
         /\ \A i \in P : \E k \in DOMAIN some : at[k] = i
    BY <1>8, <1>9, RowsListed DEF RowsAt
  <1> HIDE DEF P
  <1>11. {GroupKey(r, by) : r \in ToSet(some)} = K
    <2>1. ToSet(some) = {rows[i] : i \in P}
      BY <1>10 DEF ToSet
    <2> QED
      BY <2>1
  <1>12. K \in SUBSET KeysOf(Len(by))
    <2>1. \A i \in P : rows[i] \in Rows
      BY <1>9, IdsOfRows
    <2> QED
      BY <1>1, <2>1, GroupKeyIs
  <1>13. IsFiniteSet(K)
    <2> DEFINE f == [i \in P |-> GroupKey(rows[i], by)]
    <2>1. f \in Surjection(P, K)
      BY DEF Surjection
    <2> HIDE DEF f, K
    <2> QED
      BY <1>10, <2>1, FS_Surjection
  <1> HIDE DEF K
  <1>14. keys \in SetToSeqs(K)
    BY <1>1, <1>12, <1>13, KeysListed
  <1>15. \A k \in DOMAIN keys : keys[k] \in K
    BY <1>13, <1>14, ListsAll
  <1> DEFINE group(k) == Those(some, {i \in DOMAIN some : GroupKey(some[i], by) = k})
  <1>16. ASSUME NEW k, NEW j \in DOMAIN aggs
         PROVE  AggregateRows(group(k), aggs[j]) = SqlAggregate(Alike(query, k), aggs[j])
    <2> DEFINE Q == Alike(query, k)
    <2>1. Q \in SUBSET P /\ Q \in SUBSET (DOMAIN rows)
      BY <1>9 DEF Alike, P
    <2>2. {i \in DOMAIN some : GroupKey(some[i], by) = k} = {i \in DOMAIN some : at[i] \in Q}
      BY <1>10 DEF Alike, P
    <2>3. group(k) = Those(some, {i \in DOMAIN some : at[i] \in Q})
      BY <2>2
    <2> HIDE DEF group, Q
    <2>4. ListsRows(group(k), Q)
      BY <1>8, <1>9, <2>1, <2>3, PartListed
    <2> QED
      BY <1>3, <2>1, <2>4, AggregateRowsIs DEF Q
  <1>17. ASSUME NEW k
         PROVE  k \o [j \in DOMAIN aggs |-> AggregateRows(group(k), aggs[j])] = GroupRow(query, k)
    <2>1. [j \in DOMAIN aggs |-> AggregateRows(group(k), aggs[j])]
            = [j \in DOMAIN aggs |-> SqlAggregate(Alike(query, k), aggs[j])]
      BY <1>16
    <2> QED
      BY <2>1 DEF GroupRow, aggs
  <1>18. GroupBy(some, by, aggs)
           = Result([i \in DOMAIN keys |->
                        keys[i] \o [j \in DOMAIN aggs |-> AggregateRows(group(keys[i]), aggs[j])]])
    BY <1>3, <1>4, <1>11 DEF GroupBy
  <1>19. [i \in DOMAIN keys |->
              keys[i] \o [j \in DOMAIN aggs |-> AggregateRows(group(keys[i]), aggs[j])]]
           = [i \in DOMAIN keys |-> GroupRow(query, keys[i])]
    <2> HIDE DEF group, keys
    <2> QED
      BY <1>17
  <1>20. Execute(QueryToPlan(query), flushed) = Result([i \in DOMAIN keys |-> GroupRow(query, keys[i])])
    BY <1>7, <1>18, <1>19
  <1> HIDE DEF keys
  <1> QED
    BY <1>12, <1>13, <1>14, <1>20 DEF K, P

(* One list after the other. *)
LEMMA ListsJoined ==
    ASSUME NEW X, NEW s \in Seq(X), NEW t \in Seq(X)
    PROVE  /\ DOMAIN (s \o t) = 1..(Len(s) + Len(t))
           /\ \A j \in 1..(Len(s) + Len(t)) :
                 (s \o t)[j] = IF j <= Len(s) THEN s[j] ELSE t[j - Len(s)]
  OBVIOUS

(* The row of a group in the order of the select list. *)
LEMMA RowOfGroup ==
    ASSUME GroupsFit, NEW query \in Queries, Plannable(query), query.group # <<>>,
           NEW k \in Seq(Literals), Len(k) = Len(query.group)
    PROVE  GroupRow(query, k)
             = [j \in DOMAIN query.items |->
                   IF query.items[j].item = "aggregate"
                   THEN SqlAggregate(Alike(query, k), query.items[j]) ELSE k[j]]
  <1> DEFINE by == query.group
             items == query.items
             aggs == Chosen(items, "aggregate")
             results == [j \in DOMAIN aggs |-> SqlAggregate(Alike(query, k), aggs[j])]
             columns == [j \in DOMAIN by |-> Column(by[j])]
             m == Len(by)
             n == Len(aggs)
             of(j) == IF items[j].item = "aggregate" THEN SqlAggregate(Alike(query, k), items[j]) ELSE k[j]
  <1>1. by \in Seq(STRING) /\ m \in Nat /\ DOMAIN by = 1..m
    BY QueriesAssumption
  <1>2. /\ aggs \in Seq(Items) /\ DOMAIN aggs = 1..n /\ n \in Nat
        /\ \A j \in DOMAIN aggs : aggs[j].item = "aggregate"
    BY ChosenAre
  <1>3. items = columns \o aggs
    BY DEF GroupsFit, Plannable
  <1> HIDE DEF aggs
  <1>4. columns \in Seq(Items) /\ Len(columns) = m
        /\ \A j \in 1..m : columns[j].item = "column"
    <2>1. \A j \in DOMAIN by : Column(by[j]) \in Items
      BY <1>1 DEF Column, Items, Bare
    <2>2. \A j \in 1..m : columns[j].item = "column"
      BY <1>1 DEF Column
    <2> HIDE DEF by
    <2> QED
      BY <1>1, <2>1, <2>2
  <1> HIDE DEF columns, by
  <1>5. DOMAIN items = 1..(m + n)
        /\ \A j \in 1..(m + n) : items[j] = IF j <= m THEN columns[j] ELSE aggs[j - m]
    <2>1. Len(columns) = m /\ Len(aggs) = n
      BY <1>4
    <2>2. columns \in Seq(Items) /\ aggs \in Seq(Items)
      BY <1>2, <1>4
    <2> HIDE DEF m, n, items
    <2>3. /\ DOMAIN (columns \o aggs) = 1..(Len(columns) + Len(aggs))
          /\ \A j \in 1..(Len(columns) + Len(aggs)) :
                (columns \o aggs)[j] = IF j <= Len(columns) THEN columns[j] ELSE aggs[j - Len(columns)]
      BY <2>2, ListsJoined, Zenon
    <2> QED
      BY <1>3, <2>1, <2>3
  <1> DEFINE Y == Literals \cup {SqlAggregate(Alike(query, k), aggs[j]) : j \in DOMAIN aggs}
  <1>6. k \in Seq(Y) /\ results \in Seq(Y) /\ Len(results) = n
    BY <1>2
  <1>7. DOMAIN k = 1..m /\ DOMAIN results = 1..n
    BY <1>2 DEF by
  <1> DEFINE row == k \o results
  <1>8. DOMAIN row = 1..(m + n)
        /\ \A j \in 1..(m + n) : row[j] = IF j <= m THEN k[j] ELSE results[j - m]
    <2>1. m \in Nat /\ n \in Nat /\ Len(k) = m
      BY <1>1, <1>2 DEF by
    <2> HIDE DEF results, Y, m, n
    <2> QED
      BY <1>6, <2>1
  <1>9. row = [j \in 1..(m + n) |-> row[j]]
    <2> HIDE DEF results, Y, m, n
    <2>1. row \in Seq(Y)
      BY <1>6
    <2> HIDE DEF row
    <2> QED
      BY <1>8, <2>1
  <1>10. ASSUME NEW j \in 1..(m + n) PROVE row[j] = of(j)
    <2> HIDE DEF row
    <2>1. CASE j <= m
      <3>1. j \in 1..m
        BY <1>1, <1>2, <2>1
      <3>2. items[j].item = "column"
        BY <1>4, <1>5, <2>1, <3>1
      <3> HIDE DEF items, m, n, results
      <3> QED
        BY <1>8, <2>1, <3>2
    <2>2. CASE ~ j <= m
      <3>1. j - m \in 1..n
        BY <1>1, <1>2, <2>2
      <3>2. items[j] = aggs[j - m] /\ row[j] = results[j - m]
        BY <1>5, <1>8, <2>2
      <3>3. items[j].item = "aggregate"
        BY <1>2, <3>1, <3>2
      <3>4. results[j - m] = SqlAggregate(Alike(query, k), aggs[j - m])
        BY <1>2, <3>1
      <3> HIDE DEF items, m, n, results
      <3> QED
        BY <3>2, <3>3, <3>4
    <2> QED
      BY <2>1, <2>2
  <1>11. row = [j \in DOMAIN items |-> of(j)]
    <2> HIDE DEF row, of, items, m, n
    <2> QED
      BY <1>5, <1>9, <1>10
  <1>12. GroupRow(query, k) = row
    BY DEF GroupRow, aggs
  <1> QED
    BY <1>11, <1>12

(* GROUP BY answers right in every state the invariants describe. *)
LEMMA GroupsStand ==
    ASSUME TypeOK, WhereMatches, RowsWritten, Replied, ColumnsTyped, GroupsFit
    PROVE  GroupsMatch
  <1> DEFINE query == last.query
             by    == query.group
             items == query.items
             aggs  == Chosen(items, "aggregate")
             kept  == Kept(query)
             value(i, c) == OrNull(Field(rows[i], c))
             alike(i)    == {j \in kept : \A c \in ToSet(by) : value(j, c) = value(i, c)}
             row(i) == [k \in DOMAIN items |->
                           LET item == items[k]
                           IN  IF item.item = "aggregate" THEN SqlAggregate(alike(i), item)
                               ELSE value(i, item.name)]
             answer == {row(i) : i \in kept}
             key(i) == GroupKey(rows[i], by)
  <1> SUFFICES ASSUME Answered, by # <<>>, \A i \in kept : HasAll(rows[i], ToSet(by))
               PROVE  ToSet(last.reply.rows) = answer /\ IsInjective(last.reply.rows)
    BY DEF GroupsMatch
  <1> DEFINE K == {GroupKey(rows[i], by) : i \in kept}
  <1>1. /\ query \in Queries /\ Plannable(query)
        /\ last.reply = Execute(QueryToPlan(query), chunks)
    BY DEF Replied
  <1>2. by \in Seq(STRING) /\ Len(by) \in Nat
    BY <1>1, QueriesAssumption
  <1>3. /\ K \in SUBSET KeysOf(Len(by)) /\ IsFiniteSet(K)
        /\ \E keys \in SetToSeqs(K) :
              Execute(QueryToPlan(query), chunks)
                = Result([k \in DOMAIN keys |-> GroupRow(query, keys[k])])
    BY <1>1, GroupRows
  <1>4. PICK keys \in SetToSeqs(K) :
              Execute(QueryToPlan(query), chunks)
                = Result([k \in DOMAIN keys |-> GroupRow(query, keys[k])])
    BY <1>3
  <1> DEFINE reply == [k \in DOMAIN keys |-> GroupRow(query, keys[k])]
  <1>5. last.reply.rows = reply
    BY <1>1, <1>4 DEF Result
  <1>6. ASSUME NEW i \in kept
        PROVE  /\ key(i) = [j \in DOMAIN by |-> value(i, by[j])]
               /\ key(i) \in Seq(Literals) /\ Len(key(i)) = Len(by)
    <2>1. rows[i] \in Rows /\ HasAll(rows[i], ToSet(by))
      BY IdsOfRows DEF Kept
    <2> DEFINE r == rows[i]
               columns == by
    <2>2. r \in Rows /\ columns \in Seq(STRING) /\ HasAll(r, ToSet(columns))
      BY <1>2, <2>1
    <2> HIDE DEF r, columns
    <2>3. LET values == [j \in DOMAIN columns |-> Field(r, columns[j])]
          IN  /\ values \in Seq(Literals) /\ Len(values) = Len(columns)
              /\ Present(values) = values
              /\ values = [j \in DOMAIN columns |-> OrNull(Field(r, columns[j]))]
      BY <2>2, ValuesOfColumns
    <2>4. GroupKey(r, columns) = [j \in DOMAIN columns |-> Field(r, columns[j])]
      BY <2>3 DEF GroupKey
    <2> QED
      BY <2>3, <2>4 DEF r, columns
  <1>7. ASSUME NEW i \in kept PROVE alike(i) = Alike(query, key(i))
    <2>1. ASSUME NEW j \in kept
          PROVE  (\A c \in ToSet(by) : value(j, c) = value(i, c)) <=> key(j) = key(i)
      <3>1. /\ key(i) = [m \in DOMAIN by |-> value(i, by[m])]
            /\ key(j) = [m \in DOMAIN by |-> value(j, by[m])]
        BY <1>6
      <3>2. ToSet(by) = {by[m] : m \in DOMAIN by}
        BY DEF ToSet
      <3> HIDE DEF key, value, by, kept
      <3>3. key(j) = key(i) <=> \A m \in DOMAIN by : value(j, by[m]) = value(i, by[m])
        BY <3>1
      <3> QED
        BY <3>2, <3>3
    <2> QED
      BY <2>1 DEF Alike
  <1>8. answer = {GroupRow(query, k) : k \in K}
    <2>1. ASSUME NEW i \in kept PROVE row(i) = GroupRow(query, key(i))
      <3>1. GroupRow(query, key(i))
              = [j \in DOMAIN items |->
                    IF items[j].item = "aggregate"
                    THEN SqlAggregate(Alike(query, key(i)), items[j]) ELSE key(i)[j]]
        <4> DEFINE k == key(i)
        <4>1. k \in Seq(Literals) /\ Len(k) = Len(query.group)
          BY <1>6
        <4> HIDE DEF k
        <4>2. GroupRow(query, k)
                = [j \in DOMAIN items |->
                      IF items[j].item = "aggregate"
                      THEN SqlAggregate(Alike(query, k), items[j]) ELSE k[j]]
          BY <1>1, <4>1, RowOfGroup
        <4> QED
          BY <4>2 DEF k
      <3>2. ASSUME NEW j \in DOMAIN items, items[j].item # "aggregate"
            PROVE  key(i)[j] = value(i, items[j].name)
        <4>1. items = [m \in DOMAIN by |-> Column(by[m])] \o aggs
          BY <1>1 DEF GroupsFit, Plannable
        <4>2. /\ aggs \in Seq(Items) /\ DOMAIN aggs = 1..Len(aggs) /\ Len(aggs) \in Nat
              /\ \A m \in DOMAIN aggs : aggs[m].item = "aggregate"
          BY <1>1, ChosenAre
        <4> DEFINE columns == [m \in DOMAIN by |-> Column(by[m])]
                   X == Items \cup [item : {"column"}, name : STRING]
        <4>3. columns \in Seq(X) /\ Len(columns) = Len(by) /\ aggs \in Seq(X)
          <5> HIDE DEF by, aggs
          <5>1. columns \in Seq(X) /\ Len(columns) = Len(by)
            BY <1>2 DEF Column
          <5>2. aggs \in Seq(X)
            BY <4>2
          <5> QED
            BY <5>1, <5>2
        <4>4. \A m \in DOMAIN by : columns[m].name = by[m]
          BY DEF Column
        <4> HIDE DEF aggs, columns, X, by, items
        <4>5. j \in 1..Len(by) /\ items[j] = columns[j]
          <5>1. j \in 1..(Len(by) + Len(aggs))
            BY <1>2, <4>1, <4>2, <4>3 DEF columns
          <5>2. CASE j > Len(by)
            <6>1. j - Len(by) \in DOMAIN aggs /\ items[j] = aggs[j - Len(by)]
              BY <1>2, <4>1, <4>2, <4>3, <5>1, <5>2 DEF columns
            <6> QED
              BY <3>2, <4>2, <6>1
          <5>3. CASE ~ j > Len(by)
            BY <1>2, <4>1, <4>2, <4>3, <5>1, <5>3 DEF columns
          <5> QED
            BY <5>2, <5>3
        <4>6. j \in DOMAIN by
          BY <1>2, <4>5
        <4>7. key(i) = [m \in DOMAIN by |-> value(i, by[m])]
          BY <1>6
        <4> HIDE DEF key, value
        <4> QED
          BY <4>4, <4>5, <4>6, <4>7
      <3>3. alike(i) = Alike(query, key(i))
        BY <1>7
      <3> HIDE DEF key, alike, value, items, kept, query
      <3> QED
        BY <3>1, <3>2, <3>3
    <2>2. answer = {GroupRow(query, key(i)) : i \in kept}
      <3> HIDE DEF row, kept, key, query
      <3> QED
        BY <2>1
    <2>3. {GroupRow(query, key(i)) : i \in kept} = {GroupRow(query, k) : k \in K}
      <3> HIDE DEF kept, query, by
      <3> QED
        OBVIOUS
    <2> QED
      BY <2>2, <2>3
  <1> HIDE DEF K, answer
  <1>9. /\ DOMAIN keys = 1..Cardinality(K) /\ Cardinality(K) \in Nat
        /\ \A k \in DOMAIN keys : keys[k] \in K
        /\ \A x \in K : \E k \in DOMAIN keys : keys[k] = x
        /\ \A k, l \in DOMAIN keys : keys[k] = keys[l] => k = l
    BY <1>3, <1>4, ListsAll
  <1>10. ToSet(reply) = answer
    <2>1. ToSet(reply) = {GroupRow(query, keys[k]) : k \in DOMAIN keys}
      BY DEF ToSet
    <2> HIDE DEF reply, query
    <2> QED
      BY <1>8, <1>9, <2>1
  <1>11. ASSUME NEW k \in K, NEW l \in K, GroupRow(query, k) = GroupRow(query, l) PROVE k = l
    <2> DEFINE X == Literals \cup {SqlAggregate(Alike(query, p[1]), aggs[p[2]]) : p \in {k, l} \X DOMAIN aggs}
               results(m) == [j \in DOMAIN aggs |-> SqlAggregate(Alike(query, m), aggs[j])]
    <2>1. k \in Seq(X) /\ l \in Seq(X)
      <3>1. k \in Seq(Literals) /\ l \in Seq(Literals)
        BY <1>3 DEF KeysOf
      <3>2. Literals \subseteq X
        OBVIOUS
      <3> HIDE DEF X
      <3> QED
        BY <3>1, <3>2
    <2>2. DOMAIN aggs = 1..Len(aggs) /\ Len(aggs) \in Nat
      BY <1>1, ChosenAre
    <2>3. \A m \in {k, l} : \A j \in DOMAIN aggs : SqlAggregate(Alike(query, m), aggs[j]) \in X
      <3> SUFFICES ASSUME NEW m \in {k, l}, NEW j \in DOMAIN aggs
                   PROVE  SqlAggregate(Alike(query, m), aggs[j]) \in X
        OBVIOUS
      <3>1. <<m, j>> \in {k, l} \X DOMAIN aggs
        OBVIOUS
      <3> HIDE DEF aggs, query
      <3> QED
        BY <3>1
    <2> HIDE DEF X, aggs, query
    <2>4. \A m \in {k, l} : results(m) \in Seq(X) /\ Len(results(m)) = Len(aggs)
      BY <2>2, <2>3
    <2>5. k \o results(k) = l \o results(l)
      BY <1>11 DEF GroupRow, aggs
    <2> HIDE DEF results
    <2> QED
      BY <2>1, <2>4, <2>5, SameBeginnings
  <1>12. IsInjective(reply)
    <2> SUFFICES ASSUME NEW a \in DOMAIN keys, NEW b \in DOMAIN keys, reply[a] = reply[b]
                 PROVE  a = b
      BY DEF IsInjective
    <2>1. GroupRow(query, keys[a]) = GroupRow(query, keys[b])
      OBVIOUS
    <2> QED
      BY <1>9, <1>11, <2>1
  <1> HIDE DEF reply
  <1> QED
    BY <1>5, <1>10, <1>12

(* GROUP BY answers with one row for each combination of the grouped       *)
(* columns that WHERE leaves, in no row twice: in the order of the select  *)
(* list, their values and the aggregates, in the sense of SQL, of exactly  *)
(* the rows that have them; if no row WHERE leaves lacks one of them.      *)
THEOREM GroupsCorrect ==
    ASSUME ColumnsTyped, ConditionsFit, GroupsFit
    PROVE  Spec => []GroupsMatch
  <1>1. TypeOK /\ WhereMatches /\ RowsWritten /\ Replied => GroupsMatch
    BY GroupsStand
  <1> QED
    BY <1>1, SessionFillsTable, TypeCorrect, WhereCorrect, RowsAreWritten, RepliesStand, PTL

-----------------------------------------------------------------------------
(* A list cut into parts of some lengths: where each part ends, and what   *)
(* the parts have.                                                         *)

Cut(ends, lens, n) ==
    /\ ends \in [0..n -> Nat] /\ ends[0] = 0
    /\ \A i \in 1..n : lens[i] \in Nat /\ ends[i] = ends[i - 1] + lens[i]

PartsOf(parts, g, ends, lens, n) ==
    \A i \in 1..n : \A j \in 1..lens[i] : parts[i][j] = g[ends[i - 1] + j]

(* What is inside of a part is inside of the list.                         *)
LEMMA PartsInside ==
    ASSUME NEW n \in Nat, NEW lens, NEW ends, Cut(ends, lens, n)
    PROVE  /\ \A i \in 0..n : ends[i] \in Nat /\ ends[i] <= ends[n]
           /\ \A i \in 1..n : \A j \in 1..lens[i] : ends[i - 1] + j \in 1..ends[n]
           /\ \A r \in 1..ends[n] : \E i \in 1..n : \E j \in 1..lens[i] : r = ends[i - 1] + j
  <1>1. /\ ends[0] = 0 /\ \A i \in 0..n : ends[i] \in Nat
        /\ \A i \in 1..n : /\ lens[i] \in Nat /\ ends[i - 1] \in Nat /\ ends[i] \in Nat
                           /\ ends[i] = ends[i - 1] + lens[i]
    <2>1. \A i \in 1..n : i \in 0..n /\ i - 1 \in 0..n
      OBVIOUS
    <2> QED
      BY <2>1 DEF Cut
  <1> DEFINE A == {k \in 0..n : \A i \in 0..k : ends[i] <= ends[k]}
             B == {k \in 0..n : \A r \in 1..ends[k] :
                        \E i \in 1..k : \E j \in 1..lens[i] : r = ends[i - 1] + j}
  <1>2. \A k \in 0..n : k \in A
    <2>1. 0 \in A
      BY <1>1
    <2>2. ASSUME NEW k \in 1..n, k - 1 \in A PROVE k \in A
      <3>1. ends[k - 1] <= ends[k] /\ ends[k] \in Nat /\ ends[k - 1] \in Nat
        BY <1>1
      <3>2. \A i \in 0..k - 1 : ends[i] <= ends[k - 1] /\ ends[i] \in Nat
        BY <1>1, <2>2
      <3>3. \A i \in 0..k : ends[i] <= ends[k]
        <4> SUFFICES ASSUME NEW i \in 0..k PROVE ends[i] <= ends[k]
          OBVIOUS
        <4>1. CASE i = k
          BY <3>1, <4>1
        <4>2. CASE i # k
          <5>1. i \in 0..k - 1
            BY <4>2
          <5> QED
            BY <3>1, <3>2, <5>1
        <4> QED
          BY <4>1, <4>2
      <3> QED
        BY <3>3
    <2> HIDE DEF A
    <2>3. \A k \in 1..n : k - 1 \in A => k \in A
      BY <2>2
    <2> QED
      BY <2>1, <2>3, UpTo
  <1>3. \A k \in 0..n : k \in B
    <2>1. 0 \in B
      BY <1>1
    <2>2. ASSUME NEW k \in 1..n, k - 1 \in B PROVE k \in B
      <3>1. ends[k] = ends[k - 1] + lens[k] /\ lens[k] \in Nat /\ ends[k - 1] \in Nat
        BY <1>1
      <3>2. ASSUME NEW r \in 1..ends[k]
            PROVE  \E i \in 1..k : \E j \in 1..lens[i] : r = ends[i - 1] + j
        <4>1. CASE r <= ends[k - 1]
          <5>1. r \in 1..ends[k - 1]
            BY <3>1, <4>1
          <5>2. PICK i \in 1..k - 1 : \E j \in 1..lens[i] : r = ends[i - 1] + j
            BY <2>2, <5>1
          <5>3. i \in 1..k
            OBVIOUS
          <5> QED
            BY <5>2, <5>3
        <4>2. CASE r > ends[k - 1]
          <5>1. r - ends[k - 1] \in 1..lens[k] /\ r = ends[k - 1] + (r - ends[k - 1])
            BY <3>1, <4>2
          <5>2. k \in 1..k
            OBVIOUS
          <5> QED
            BY <5>1, <5>2
        <4> QED
          BY <3>1, <4>1, <4>2
      <3> QED
        BY <3>2
    <2> HIDE DEF B
    <2>3. \A k \in 1..n : k - 1 \in B => k \in B
      BY <2>2
    <2> QED
      BY <2>1, <2>3, UpTo
  <1>4. \A i \in 0..n : ends[i] <= ends[n]
    BY <1>2
  <1>5. ASSUME NEW i \in 1..n, NEW j \in 1..lens[i] PROVE ends[i - 1] + j \in 1..ends[n]
    <2>1. ends[i] <= ends[n] /\ i \in 0..n /\ n \in 0..n
      BY <1>4
    <2>2. ends[n] \in Nat
      BY <1>1, <2>1
    <2> QED
      BY <1>1, <2>1, <2>2
  <1>6. \A r \in 1..ends[n] : \E i \in 1..n : \E j \in 1..lens[i] : r = ends[i - 1] + j
    BY <1>3
  <1> QED
    BY <1>1, <1>4, <1>5, <1>6

(* Every place of the list is in a part. *)
LEMMA PlaceInPart ==
    ASSUME NEW n \in Nat, NEW lens, NEW ends, Cut(ends, lens, n), NEW r \in 1..ends[n]
    PROVE  \E i \in 1..n : \E j \in 1..lens[i] : r = ends[i - 1] + j
  BY PartsInside

(* The sum of the sums of the parts is the sum of the list. *)
LEMMA SumOfParts ==
    ASSUME NEW n \in Nat, NEW lens, NEW ends, Cut(ends, lens, n), NEW g, Ints(g, ends[n]),
           NEW parts, PartsOf(parts, g, ends, lens, n),
           NEW sums, \A i \in 1..n : sums[i] = Sum(parts[i], lens[i])
    PROVE  Ints(sums, n) /\ Sum(sums, n) = Sum(g, ends[n])
  <1>1. /\ ends[0] = 0
        /\ \A i \in 0..n : ends[i] \in Nat /\ ends[i] <= ends[n]
        /\ \A i \in 1..n : i \in 0..n /\ i - 1 \in 0..n /\ lens[i] \in Nat
        /\ \A i \in 1..n : ends[i] = ends[i - 1] + lens[i]
        /\ \A i \in 1..n : \A j \in 1..lens[i] : ends[i - 1] + j \in 1..ends[n]
    <2>1. /\ \A i \in 0..n : ends[i] \in Nat /\ ends[i] <= ends[n]
          /\ \A i \in 1..n : \A j \in 1..lens[i] : ends[i - 1] + j \in 1..ends[n]
      BY PartsInside
    <2>2. /\ ends[0] = 0
          /\ \A i \in 1..n : lens[i] \in Nat /\ ends[i] = ends[i - 1] + lens[i]
      BY DEF Cut
    <2>3. \A i \in 1..n : i \in 0..n /\ i - 1 \in 0..n
      OBVIOUS
    <2> QED
      BY <2>1, <2>2, <2>3
  <1> DEFINE N == ends[n]
  <1>2. N \in Nat
    BY <1>1
  <1> HIDE DEF N
  <1>3. PICK f : SumsOf(f, g, N)
    BY <1>2, SumIs DEF N
  <1>4. f[N] = Sum(g, N)
    BY <1>2, <1>3, SumIs DEF N
  <1>5. f[0] = 0 /\ \A i \in 0..N : f[i] \in Int
    BY <1>2, <1>3 DEF SumsOf
  <1>6. ASSUME NEW i \in 1..n PROVE sums[i] \in Int /\ f[ends[i]] = f[ends[i - 1]] + sums[i]
    <2> DEFINE m == lens[i]
               o == ends[i - 1]
               d == parts[i]
    <2>1. m \in Nat /\ o \in Nat /\ o + m <= N /\ ends[i] = o + m
      BY <1>1, <1>2 DEF N
    <2>2. \A j \in 1..m : g[o + j] = d[j] /\ d[j] \in Int
      <3>1. \A j \in 1..m : d[j] = g[o + j]
        BY DEF PartsOf
      <3>2. \A j \in 1..m : g[o + j] \in Int
        BY <1>1 DEF Ints
      <3> QED
        BY <3>1, <3>2
    <2>3. sums[i] = Sum(d, m)
      OBVIOUS
    <2> HIDE DEF m, o, d
    <2>4. Ints(d, m)
      BY <2>2 DEF Ints
    <2>5. PICK e : SumsOf(e, d, m)
      BY <2>1, <2>4, SumIs
    <2>6. e[m] = Sum(d, m) /\ Sum(d, m) \in Int
      BY <2>1, <2>4, <2>5, SumIs
    <2>7. \A j \in 0..m : f[o + j] = f[o] + e[j]
      <3>1. m \in Nat /\ o \in Nat /\ o + m <= N
        BY <2>1
      <3> QED
        BY <1>2, <1>3, <2>2, <2>5, <3>1, SumsOfPart
    <2>8. f[o + m] = f[o] + e[m]
      BY <2>1, <2>7
    <2> QED
      BY <2>1, <2>3, <2>6, <2>8 DEF o
  <1>7. Ints(sums, n)
    BY <1>6 DEF Ints
  <1>8. PICK e : SumsOf(e, sums, n)
    BY <1>7, SumIs
  <1>9. e[n] = Sum(sums, n)
    BY <1>7, <1>8, SumIs
  <1> DEFINE A == {i \in 0..n : e[i] = f[ends[i]]}
  <1>10. \A i \in 1..n : e[i] = e[i - 1] + sums[i]
    BY <1>8 DEF SumsOf
  <1>11. 0 \in A
    BY <1>1, <1>5, <1>8 DEF SumsOf
  <1>12. ASSUME NEW i \in 1..n, i - 1 \in A PROVE i \in A
    BY <1>6, <1>10, <1>12
  <1> HIDE DEF A
  <1>13. \A i \in 1..n : i - 1 \in A => i \in A
    BY <1>12
  <1>14. \A i \in 0..n : i \in A
    BY <1>11, <1>13, UpTo
  <1>15. e[n] = f[ends[n]]
    BY <1>14 DEF A
  <1> QED
    BY <1>4, <1>7, <1>9, <1>15 DEF N

(* What saturates. *)
Capped(x) == IF x > MaxInt THEN MaxInt ELSE x

(* Sums that stay at the largest integer, added up in the same way.        *)
LEMMA CappedSums ==
    ASSUME NEW n \in Nat, NEW g, NEW h, \A i \in 1..n : g[i] \in Nat /\ h[i] = Capped(g[i])
    PROVE  Capped(Sum(h, n)) = Capped(Sum(g, n))
  <1>1. MaxInt \in Nat
    BY MaxIntAssumption
  <1>2. \A i \in 1..n : h[i] \in Nat /\ g[i] \in Nat /\ (h[i] = g[i] \/ (h[i] >= MaxInt /\ g[i] >= MaxInt))
    BY <1>1 DEF Capped
  <1>3. Ints(g, n) /\ Ints(h, n)
    BY <1>2 DEF Ints
  <1>4. PICK f : SumsOf(f, g, n)
    BY <1>3, SumIs
  <1>5. PICK e : SumsOf(e, h, n)
    BY <1>3, SumIs
  <1>6. f[n] = Sum(g, n) /\ e[n] = Sum(h, n)
    BY <1>3, <1>4, <1>5, SumIs
  <1> DEFINE A == {i \in 0..n : /\ e[i] \in Nat /\ f[i] \in Nat
                                /\ e[i] = f[i] \/ (e[i] >= MaxInt /\ f[i] >= MaxInt)}
  <1>7. f[0] = 0 /\ e[0] = 0
    BY <1>4, <1>5 DEF SumsOf
  <1>8. 0 \in A
    BY <1>7
  <1>9. ASSUME NEW i \in 1..n, i - 1 \in A PROVE i \in A
    <2>1. f[i] = f[i - 1] + g[i] /\ e[i] = e[i - 1] + h[i]
      BY <1>4, <1>5 DEF SumsOf
    <2>2. /\ f[i - 1] \in Nat /\ e[i - 1] \in Nat
          /\ e[i - 1] = f[i - 1] \/ (e[i - 1] >= MaxInt /\ f[i - 1] >= MaxInt)
      BY <1>9
    <2>3. /\ h[i] \in Nat /\ g[i] \in Nat
          /\ h[i] = g[i] \/ (h[i] >= MaxInt /\ g[i] >= MaxInt)
      BY <1>2
    <2>4. e[i] \in Nat /\ f[i] \in Nat /\ (e[i] = f[i] \/ (e[i] >= MaxInt /\ f[i] >= MaxInt))
      BY <1>1, <2>1, <2>2, <2>3
    <2> QED
      BY <2>4
  <1> HIDE DEF A
  <1>10. \A i \in 1..n : i - 1 \in A => i \in A
    BY <1>9
  <1>11. \A i \in 0..n : i \in A
    BY <1>8, <1>10, UpTo
  <1>12. e[n] \in Nat /\ f[n] \in Nat /\ (e[n] = f[n] \/ (e[n] >= MaxInt /\ f[n] >= MaxInt))
    BY <1>11 DEF A
  <1> QED
    BY <1>1, <1>6, <1>12 DEF Capped

(* The sum of small numbers. *)
LEMMA SumOfBounded ==
    ASSUME NEW n \in Nat, NEW g, NEW b \in Nat, \A i \in 1..n : g[i] \in Nat /\ g[i] <= b
    PROVE  Sum(g, n) <= n * b
  <1>1. Ints(g, n)
    BY DEF Ints
  <1>2. PICK f : SumsOf(f, g, n)
    BY <1>1, SumIs
  <1>3. f[n] = Sum(g, n)
    BY <1>1, <1>2, SumIs
  <1> DEFINE A == {i \in 0..n : f[i] <= i * b}
  <1>4. 0 \in A
    BY <1>2 DEF SumsOf
  <1>5. ASSUME NEW i \in 1..n, i - 1 \in A PROVE i \in A
    <2>1. f[i] = f[i - 1] + g[i] /\ f[i - 1] \in Int
      BY <1>2 DEF SumsOf
    <2>2. f[i - 1] <= (i - 1) * b /\ g[i] <= b /\ g[i] \in Nat
      BY <1>5
    <2>3. (i - 1) * b + b = i * b /\ (i - 1) * b \in Int /\ i * b \in Int
      OBVIOUS
    <2> QED
      BY <2>1, <2>2, <2>3
  <1> HIDE DEF A
  <1>6. \A i \in 1..n : i - 1 \in A => i \in A
    BY <1>5
  <1>7. \A i \in 0..n : i \in A
    BY <1>4, <1>6, UpTo
  <1> QED
    BY <1>3, <1>7 DEF A

-----------------------------------------------------------------------------
(* The rows in the chunks. *)

(* How many rows the chunks have. *)
Lens == [i \in DOMAIN chunks |-> Len(chunks[i])]

(* The rows are what the chunks have, one after the other, and then the    *)
(* buffer: where each chunk ends.                                          *)
EndsOf(ends, n) ==
    /\ n = Len(chunks) /\ Cut(ends, Lens, n) /\ PartsOf(chunks, rows, ends, Lens, n)
    /\ Len(rows) = ends[n] + Len(buffer)
    /\ \A j \in 1..Len(buffer) : rows[ends[n] + j] = buffer[j]

(* Some ends cut the rows like this. *)
RowsInChunks == \E ends : EndsOf(ends, Len(chunks))

(* What is not in the chunks is in the buffer. *)
LEMMA EndsAdd ==
    ASSUME TypeOK, NEW ends, NEW n, EndsOf(ends, n)
    PROVE  n \in Nat /\ ends[n] \in Nat /\ Len(rows) = ends[n] + Len(buffer)
  <1>1. n \in Nat
    BY DEF EndsOf, TypeOK
  <1>2. ends \in [0..n -> Nat] /\ Len(rows) = ends[n] + Len(buffer)
    BY DEF EndsOf, Cut
  <1> QED
    BY <1>1, <1>2

(* After an INSERT the rows are still in the chunks and the buffer. *)
LEMMA RowPushed ==
    ASSUME TypeOK, RowsInChunks, NEW row \in Rows, rows' = Append(rows, row), Push(row)
    PROVE  RowsInChunks'
  <1> DEFINE n == Len(chunks)
             N == Len(rows)
             b == Len(buffer)
  <1>1. PICK ends : EndsOf(ends, n)
    BY DEF RowsInChunks
  <1>2. /\ n \in Nat /\ N \in Nat /\ b \in Nat /\ DOMAIN chunks = 1..n
        /\ \A i \in 1..n : chunks[i] \in Seq(Rows) /\ Len(chunks[i]) \in Nat
        /\ buffer \in Seq(Rows) /\ rows \in Seq(Rows)
    BY DEF TypeOK
  <1>3. /\ ends \in [0..n -> Nat] /\ ends[0] = 0
        /\ \A i \in 1..n : ends[i] = ends[i - 1] + Len(chunks[i])
        /\ \A i \in 1..n : \A j \in 1..Len(chunks[i]) : chunks[i][j] = rows[ends[i - 1] + j]
        /\ N = ends[n] + b /\ \A j \in 1..b : rows[ends[n] + j] = buffer[j]
    BY <1>1, <1>2 DEF EndsOf, Cut, PartsOf, Lens
  <1>4. \A i \in 1..n : \A j \in 1..Len(chunks[i]) : ends[i - 1] + j \in 1..N
    <2>1. \A i \in 1..n : Lens[i] = Len(chunks[i])
      BY <1>2 DEF Lens
    <2>2. \A i \in 1..n : \A j \in 1..Lens[i] : ends[i - 1] + j \in 1..ends[n]
      BY <1>1, <1>2, PartsInside DEF EndsOf
    <2>3. ends[n] \in Nat /\ ends[n] <= N
      BY <1>2, <1>3
    <2>4. \A i \in 1..n : \A j \in 1..Len(chunks[i]) : ends[i - 1] + j \in 1..ends[n]
      BY <2>1, <2>2
    <2>5. \A r \in 1..ends[n] : r \in 1..N
      BY <1>2, <2>3
    <2> QED
      BY <2>4, <2>5
  <1>5. /\ Len(rows') = N + 1 /\ rows'[N + 1] = row
        /\ \A r \in 1..N : rows'[r] = rows[r]
    BY <1>2
  <1>6. /\ ends[n] \in Nat /\ b \in Nat /\ N = ends[n] + b
        /\ \A j \in 1..b : ends[n] + j \in 1..N
    <2>1. ends[n] \in Nat /\ N = ends[n] + b
      BY <1>1, EndsAdd
    <2> HIDE DEF n, N, b
    <2> QED
      BY <1>2, <2>1
  <1>7. CASE b + 1 < ChunkSize
    <2>1. buffer' = Append(buffer, row) /\ chunks' = chunks
      BY <1>7 DEF Push
    <2>2. /\ Len(buffer') = b + 1 /\ buffer'[b + 1] = row
          /\ \A j \in 1..b : buffer'[j] = buffer[j]
      BY <1>2, <2>1
    <2>3. Cut(ends, Lens, n)' /\ PartsOf(chunks, rows, ends, Lens, n)'
      BY <1>2, <1>3, <1>4, <1>5, <2>1 DEF Cut, PartsOf, Lens
    <2>4. \A j \in 1..b + 1 : rows'[ends[n] + j] = buffer'[j]
      <3> SUFFICES ASSUME NEW j \in 1..b + 1 PROVE rows'[ends[n] + j] = buffer'[j]
        OBVIOUS
      <3>1. CASE j = b + 1
        BY <1>2, <1>3, <1>5, <1>6, <2>2, <3>1
      <3>2. CASE j # b + 1
        <4>1. j \in 1..b
          BY <1>6, <3>2
        <4>2. ends[n] + j \in 1..N
          BY <1>6, <4>1
        <4> QED
          BY <1>3, <1>5, <2>2, <4>1, <4>2
      <3> QED
        BY <3>1, <3>2
    <2>5. Len(rows') = ends[n] + Len(buffer')
      BY <1>2, <1>3, <1>5, <1>6, <2>2
    <2>6. EndsOf(ends, Len(chunks))'
      BY <2>1, <2>2, <2>3, <2>4, <2>5 DEF EndsOf
    <2> QED
      BY <2>6 DEF RowsInChunks
  <1>8. CASE ~ (b + 1 < ChunkSize)
    <2> DEFINE full == Append(buffer, row)
               further == [i \in 0..n + 1 |-> IF i = n + 1 THEN N + 1 ELSE ends[i]]
    <2>1. buffer' = <<>> /\ chunks' = Append(chunks, full)
      BY <1>8 DEF Push
    <2>2. /\ Len(full) = b + 1 /\ full[b + 1] = row
          /\ \A j \in 1..b : full[j] = buffer[j]
      BY <1>2
    <2>3. /\ Len(chunks') = n + 1 /\ DOMAIN chunks' = 1..n + 1
          /\ chunks'[n + 1] = full /\ \A i \in 1..n : chunks'[i] = chunks[i]
      BY <1>2, <2>1
    <2>4. PICK more : /\ more \in [0..n + 1 -> Nat] /\ more[n + 1] = N + 1
                      /\ \A i \in 0..n : more[i] = ends[i]
      <3>1. /\ further \in [0..n + 1 -> Nat] /\ further[n + 1] = N + 1
            /\ \A i \in 0..n : further[i] = ends[i]
        BY <1>2, <1>3
      <3> HIDE DEF further
      <3> QED
        BY <3>1
    <2>5. \A i \in 1..n + 1 : Lens'[i] = Len(chunks'[i])
      BY <2>3 DEF Lens
    <2> HIDE DEF full, further, n, N, b
    <2>6. ASSUME NEW i \in 1..n + 1
          PROVE  /\ Len(chunks'[i]) \in Nat /\ more[i] = more[i - 1] + Len(chunks'[i])
                 /\ \A j \in 1..Len(chunks'[i]) : chunks'[i][j] = rows'[more[i - 1] + j]
      <3>1. CASE i = n + 1
        <4>1. more[i - 1] = ends[n] /\ more[i] = N + 1 /\ chunks'[i] = full
          BY <1>2, <2>3, <2>4, <3>1
        <4>2. \A j \in 1..b + 1 : full[j] = rows'[ends[n] + j]
          <5> SUFFICES ASSUME NEW j \in 1..b + 1 PROVE full[j] = rows'[ends[n] + j]
            OBVIOUS
          <5>1. CASE j = b + 1
            <6>1. ends[n] + j = N + 1
              BY <1>2, <1>3, <1>6, <5>1
            <6> QED
              BY <1>5, <2>2, <5>1, <6>1
          <5>2. CASE j # b + 1
            <6>1. j \in 1..b
              BY <1>6, <5>2
            <6>2. ends[n] + j \in 1..N
              BY <1>6, <6>1
            <6> QED
              BY <1>3, <1>5, <2>2, <6>1, <6>2
          <5> QED
            BY <5>1, <5>2
        <4>3. N + 1 = ends[n] + (b + 1) /\ b + 1 \in Nat
          BY <1>2, <1>3, <1>6
        <4> QED
          BY <2>2, <4>1, <4>2, <4>3
      <3>2. CASE i # n + 1
        <4>1. i \in 1..n /\ i \in 0..n /\ i - 1 \in 0..n
          BY <1>2, <3>2
        <4>2. chunks'[i] = chunks[i] /\ more[i] = ends[i] /\ more[i - 1] = ends[i - 1]
          BY <2>3, <2>4, <4>1
        <4>3. \A j \in 1..Len(chunks[i]) : chunks[i][j] = rows'[ends[i - 1] + j]
          BY <1>3, <1>4, <1>5, <4>1
        <4> QED
          BY <1>2, <1>3, <4>1, <4>2, <4>3
      <3> QED
        BY <3>1, <3>2
    <2>7. more[0] = 0
      BY <1>2, <1>3, <2>4
    <2>8. Cut(more, Lens', n + 1)
      BY <2>4, <2>5, <2>6, <2>7 DEF Cut
    <2>9. PartsOf(chunks', rows', more, Lens', n + 1)
      BY <2>5, <2>6 DEF PartsOf
    <2>10. Len(buffer') = 0 /\ Len(rows') = more[n + 1] + Len(buffer')
      BY <1>2, <1>5, <2>1, <2>4
    <2>11. EndsOf(more, Len(chunks))'
      <3>1. Len(chunks)' = n + 1
        BY <2>3
      <3>2. \A j \in 1..Len(buffer') : rows'[more[n + 1] + j] = buffer'[j]
        BY <2>10
      <3> QED
        BY <2>8, <2>9, <2>10, <3>1, <3>2 DEF EndsOf
    <2> QED
      BY <2>11 DEF RowsInChunks
  <1> QED
    BY <1>7, <1>8

(* After a flush the rows are still in the chunks, and none in the buffer. *)
LEMMA ChunkFlushed ==
    ASSUME TypeOK, RowsInChunks, Flush
    PROVE  RowsInChunks'
  <1> DEFINE n == Len(chunks)
             N == Len(rows)
             b == Len(buffer)
  <1>1. PICK ends : EndsOf(ends, n)
    BY DEF RowsInChunks
  <1>2. /\ n \in Nat /\ N \in Nat /\ b \in Nat /\ DOMAIN chunks = 1..n
        /\ \A i \in 1..n : chunks[i] \in Seq(Rows) /\ Len(chunks[i]) \in Nat
        /\ buffer \in Seq(Rows) /\ chunks \in Seq(Seq(Rows))
    BY DEF TypeOK
  <1>3. /\ ends \in [0..n -> Nat] /\ ends[0] = 0
        /\ \A i \in 1..n : ends[i] = ends[i - 1] + Len(chunks[i])
        /\ \A i \in 1..n : \A j \in 1..Len(chunks[i]) : chunks[i][j] = rows[ends[i - 1] + j]
        /\ N = ends[n] + b /\ \A j \in 1..b : rows[ends[n] + j] = buffer[j]
    BY <1>1, <1>2 DEF EndsOf, Cut, PartsOf, Lens
  <1>4. rows' = rows
    BY DEF Flush
  <1>5. CASE buffer = <<>>
    <2>1. buffer' = buffer /\ chunks' = chunks
      BY <1>5 DEF Flush
    <2>2. EndsOf(ends, Len(chunks))'
      BY <1>1, <1>4, <2>1 DEF EndsOf, Lens
    <2> QED
      BY <2>2 DEF RowsInChunks
  <1>6. CASE buffer # <<>>
    <2> DEFINE further == [i \in 0..n + 1 |-> IF i = n + 1 THEN N ELSE ends[i]]
    <2>1. buffer' = <<>> /\ chunks' = Append(chunks, buffer)
      BY <1>6 DEF Flush
    <2>2. /\ Len(chunks') = n + 1 /\ DOMAIN chunks' = 1..n + 1
          /\ chunks'[n + 1] = buffer /\ \A i \in 1..n : chunks'[i] = chunks[i]
      BY <1>2, <2>1
    <2>3. \A i \in 1..n + 1 : Lens'[i] = Len(chunks'[i])
      BY <2>2 DEF Lens
    <2>4. PICK more : /\ more \in [0..n + 1 -> Nat] /\ more[n + 1] = N
                      /\ \A i \in 0..n : more[i] = ends[i]
      <3>1. /\ further \in [0..n + 1 -> Nat] /\ further[n + 1] = N
            /\ \A i \in 0..n : further[i] = ends[i]
        BY <1>2, <1>3
      <3> HIDE DEF further
      <3> QED
        BY <3>1
    <2> HIDE DEF further, n, N, b
    <2>5. ASSUME NEW i \in 1..n + 1
          PROVE  /\ Len(chunks'[i]) \in Nat /\ more[i] = more[i - 1] + Len(chunks'[i])
                 /\ \A j \in 1..Len(chunks'[i]) : chunks'[i][j] = rows[more[i - 1] + j]
      <3>1. CASE i = n + 1
        <4>1. more[i - 1] = ends[n] /\ more[i] = N /\ chunks'[i] = buffer /\ Len(buffer) = b
          BY <1>2, <2>2, <2>4, <3>1 DEF b
        <4> QED
          BY <1>2, <1>3, <4>1
      <3>2. CASE i # n + 1
        <4>1. i \in 1..n /\ i \in 0..n /\ i - 1 \in 0..n
          BY <1>2, <3>2
        <4>2. chunks'[i] = chunks[i] /\ more[i] = ends[i] /\ more[i - 1] = ends[i - 1]
          BY <2>2, <2>4, <4>1
        <4> QED
          BY <1>2, <1>3, <4>1, <4>2
      <3> QED
        BY <3>1, <3>2
    <2>6. more[0] = 0
      BY <1>2, <1>3, <2>4
    <2>7. Cut(more, Lens', n + 1)
      BY <2>3, <2>4, <2>5, <2>6 DEF Cut
    <2>8. PartsOf(chunks', rows', more, Lens', n + 1)
      BY <1>4, <2>3, <2>5 DEF PartsOf
    <2>9. Len(buffer') = 0 /\ Len(rows') = more[n + 1] + Len(buffer')
      BY <1>2, <1>4, <2>1, <2>4 DEF N
    <2>10. EndsOf(more, Len(chunks))'
      <3>1. Len(chunks)' = n + 1
        BY <2>2
      <3>2. \A j \in 1..Len(buffer') : rows'[more[n + 1] + j] = buffer'[j]
        BY <2>9
      <3> QED
        BY <2>7, <2>8, <2>9, <3>1, <3>2 DEF EndsOf
    <2> QED
      BY <2>10 DEF RowsInChunks
  <1> QED
    BY <1>5, <1>6

(* If the index refuses no row, the rows are those of the chunks and the   *)
(* buffer, in this order.                                                  *)
LEMMA RowsStayInChunks ==
    ASSUME NullValue \notin Stored("id")
    PROVE  TableSpec => []RowsInChunks
  <1>1. TableInit => RowsInChunks
    <2> SUFFICES ASSUME TableInit PROVE RowsInChunks
      OBVIOUS
    <2>1. rows = <<>> /\ buffer = <<>> /\ chunks = <<>>
      BY DEF TableInit
    <2>2. Cut([i \in 0..0 |-> 0], Lens, 0)
      BY DEF Cut
    <2>3. PartsOf(chunks, rows, [i \in 0..0 |-> 0], Lens, 0)
      BY DEF PartsOf
    <2>4. EndsOf([i \in 0..0 |-> 0], 0)
      BY <2>1, <2>2, <2>3 DEF EndsOf
    <2> QED
      BY <2>1, <2>4 DEF RowsInChunks
  <1>2. TypeOK /\ RowsInChunks /\ [TableNext]_stored => RowsInChunks'
    <2> SUFFICES ASSUME TypeOK, RowsInChunks, [TableNext]_stored PROVE RowsInChunks'
      OBVIOUS
    <2>1. CASE Flush
      BY <2>1, ChunkFlushed
    <2>2. ASSUME NEW insert \in Inserts, Insert(insert) PROVE RowsInChunks'
      <3> DEFINE row == InsertToPlan(insert).values
      <3>1. insert \in Insertables
        BY <2>2 DEF Insertables, Insert
      <3>2. row \in Rows
        BY <3>1, PlannedRow
      <3>3. rows' = Append(rows, row)
        BY <2>2 DEF Insert
      <3>4. Field(row, "id") # NullValue
        BY <3>1 DEF Stored
      <3>5. Push(row)
        BY <2>2, <3>4 DEF Insert
      <3> HIDE DEF row
      <3> QED
        BY <3>2, <3>3, <3>5, RowPushed
    <2>3. CASE UNCHANGED stored
      BY <2>3 DEF stored, RowsInChunks, EndsOf, Lens
    <2> QED
      BY <2>1, <2>2, <2>3 DEF TableNext
  <1> QED
    BY <1>1, <1>2, TypeCorrect, PTL DEF TableSpec

(* The column slices of the chunks, where every row is in a chunk: the     *)
(* column of the rows, except that what is missing is NULL.                *)
LEMMA SlicesAre ==
    ASSUME TypeOK, buffer = <<>>, NEW n, NEW ends, EndsOf(ends, n),
           NEW c, ColumnIndex(c) # 0
    PROVE  LET slices == Slices(chunks, c)
               col    == ColumnOf(rows, c)
           IN  /\ n \in Nat /\ DOMAIN slices = 1..n /\ ends[n] = Len(rows)
               /\ Cut(ends, Lens, n)
               /\ \A i \in 1..n : /\ slices[i] \in Seq(Entries) /\ Len(slices[i]) = Lens[i]
                                  /\ \A j \in 1..Lens[i] :
                                        /\ ends[i - 1] + j \in 1..Len(rows)
                                        /\ slices[i][j] = IF col[ends[i - 1] + j] = Absent THEN NullValue
                                                          ELSE col[ends[i - 1] + j]
  <1> DEFINE slices == Slices(chunks, c)
             col    == ColumnOf(rows, c)
  <1>1. /\ n \in Nat /\ DOMAIN chunks = 1..n
        /\ \A i \in 1..n : chunks[i] \in Seq(Rows) /\ Lens[i] = Len(chunks[i])
    BY DEF TypeOK, EndsOf, Lens
  <1>2. /\ Cut(ends, Lens, n) /\ PartsOf(chunks, rows, ends, Lens, n)
        /\ ends[n] = Len(rows)
    <2>1. /\ Cut(ends, Lens, n) /\ PartsOf(chunks, rows, ends, Lens, n)
          /\ Len(rows) = ends[n] + Len(buffer)
      BY DEF EndsOf
    <2>2. ends[n] \in Nat
      BY <1>1, <2>1 DEF Cut
    <2> QED
      BY <2>1, <2>2
  <1>3. \A i \in 1..n : \A j \in 1..Lens[i] : ends[i - 1] + j \in 1..ends[n]
    BY <1>1, <1>2, PartsInside
  <1>4. DOMAIN slices = 1..n
    BY <1>1 DEF Slices
  <1>5. /\ \A r \in 1..Len(rows) : col[r] = Field(rows[r], c) /\ Field(rows[r], c) \in Entries
    BY ColumnIs DEF TypeOK
  <1>6. ASSUME NEW i \in 1..n
        PROVE  /\ slices[i] \in Seq(Entries) /\ Len(slices[i]) = Lens[i]
               /\ \A j \in 1..Lens[i] :
                     /\ ends[i - 1] + j \in 1..Len(rows)
                     /\ slices[i][j] = IF col[ends[i - 1] + j] = Absent THEN NullValue
                                       ELSE col[ends[i - 1] + j]
    <2> DEFINE value(j) == IF Field(chunks[i][j], c) = Absent THEN NullValue ELSE Field(chunks[i][j], c)
    <2>1. DOMAIN chunks[i] = 1..Lens[i] /\ Lens[i] \in Nat
      BY <1>1
    <2>2. slices[i] = [j \in 1..Lens[i] |-> value(j)]
      BY <1>1, <2>1 DEF Slices
    <2>3. ASSUME NEW j \in 1..Lens[i]
          PROVE  /\ ends[i - 1] + j \in 1..Len(rows)
                 /\ chunks[i][j] = rows[ends[i - 1] + j]
      BY <1>2, <1>3, <2>3 DEF PartsOf
    <2>4. NullValue \in Entries
      BY DEF Entries, Literals
    <2>5. \A j \in 1..Lens[i] :
             /\ ends[i - 1] + j \in 1..Len(rows) /\ value(j) \in Entries
             /\ value(j) = IF col[ends[i - 1] + j] = Absent THEN NullValue ELSE col[ends[i - 1] + j]
      BY <1>5, <2>3, <2>4
    <2> HIDE DEF value, slices
    <2>6. slices[i] \in [1..Lens[i] -> Entries]
      BY <2>2, <2>5
    <2> QED
      BY <2>1, <2>2, <2>5, <2>6
  <1> HIDE DEF slices, col
  <1> QED
    BY <1>1, <1>2, <1>4, <1>6 DEF slices, col

(* What is counted among some values. *)
OnesOf(values, types) ==
    Masked(Ones(Len(values)), {i \in DOMAIN values : values[i].type \in types}, Len(values))

(* To count is to add up ones. *)
LEMMA CountIsSumOfOnes ==
    ASSUME NEW values \in Seq(Entries), NEW types
    PROVE  /\ Count(values, types) = Sum(OnesOf(values, types), Len(values))
           /\ Ints(OnesOf(values, types), Len(values)) /\ Len(values) \in Nat
           /\ \A i \in 1..Len(values) : OnesOf(values, types)[i] = IF values[i].type \in types THEN 1 ELSE 0
           /\ Count(values, types) \in Nat
  <1> DEFINE n == Len(values)
             P == {i \in DOMAIN values : values[i].type \in types}
  <1>1. n \in Nat /\ DOMAIN values = 1..n /\ P \in SUBSET (1..n)
    OBVIOUS
  <1>2. \A i \in 1..n : OnesOf(values, types)[i] = IF values[i].type \in types THEN 1 ELSE 0
    BY <1>1 DEF OnesOf, Masked, Ones
  <1>3. Ints(OnesOf(values, types), n)
    BY <1>2 DEF Ints
  <1> HIDE DEF n, P
  <1>4. Cardinality(P) = Sum(Masked(Ones(n), P, n), n)
    BY <1>1, CountIsSum
  <1>5. Count(values, types) = Cardinality(P) /\ OnesOf(values, types) = Masked(Ones(n), P, n)
    BY DEF Count, OnesOf, n, P
  <1>6. Sum(OnesOf(values, types), n) \in Nat
    <2>1. \A i \in 1..n : OnesOf(values, types)[i] \in Nat
      BY <1>2
    <2> QED
      BY <1>1, <2>1, SumOfNaturals
  <1> QED
    BY <1>1, <1>2, <1>3, <1>4, <1>5, <1>6 DEF n

(* The totals, the counts and the numbers of the slices are those of the   *)
(* column.                                                                 *)
LEMMA SlicesAddUp ==
    ASSUME TypeOK, buffer = <<>>, NEW n, NEW ends, EndsOf(ends, n),
           NEW c, ColumnIndex(c) # 0, NEW t \in {"int", "float", "string"}
    PROVE  LET slices == Slices(chunks, c)
               col    == ColumnOf(rows, c)
           IN  /\ Sum([i \in 1..n |-> Total(slices[i], t)], n) = Total(col, t)
               /\ Sum([i \in 1..n |-> Count(slices[i], {t})], n) = Count(col, {t})
               /\ UNION {Numbers(slices[i], t) : i \in DOMAIN slices} = Numbers(col, t)
  <1> DEFINE slices == Slices(chunks, c)
             col    == ColumnOf(rows, c)
  <1>1. /\ n \in Nat /\ DOMAIN slices = 1..n /\ ends[n] = Len(rows)
        /\ Cut(ends, Lens, n)
        /\ \A i \in 1..n : /\ slices[i] \in Seq(Entries) /\ Len(slices[i]) = Lens[i]
                           /\ \A j \in 1..Lens[i] :
                                 /\ ends[i - 1] + j \in 1..Len(rows)
                                 /\ slices[i][j] = IF col[ends[i - 1] + j] = Absent THEN NullValue
                                                   ELSE col[ends[i - 1] + j]
    BY SlicesAre
  <1>2. col \in Seq(Entries) /\ Len(col) = Len(rows) /\ Len(rows) \in Nat
    BY ColumnIs DEF TypeOK
  <1> HIDE DEF slices, col
  <1>3. \A i \in 1..n : \A j \in 1..Lens[i] :
           /\ slices[i][j].type = t <=> col[ends[i - 1] + j].type = t
           /\ slices[i][j].type = t => slices[i][j] = col[ends[i - 1] + j]
    BY <1>1 DEF NullValue, Absent
  <1>4. Sum([i \in 1..n |-> Total(slices[i], t)], n) = Total(col, t)
    <2> DEFINE g == Amounts(col, t)
               parts == [i \in 1..n |-> Amounts(slices[i], t)]
               sums == [i \in 1..n |-> Total(slices[i], t)]
    <2>1. Ints(g, ends[n]) /\ Total(col, t) = Sum(g, ends[n])
      BY <1>1, <1>2, TotalIsSum
    <2>2. \A i \in 1..n : sums[i] = Sum(parts[i], Lens[i])
      BY <1>1, TotalIsSum
    <2>3. ASSUME NEW i \in 1..n, NEW j \in 1..Lens[i] PROVE parts[i][j] = g[ends[i - 1] + j]
      <3> DEFINE r == ends[i - 1] + j
      <3>1. Amounts(slices[i], t)[j] = IF slices[i][j].type = t THEN slices[i][j].n ELSE 0
        BY <1>1, AmountsAre
      <3>2. r \in 1..Len(col)
        BY <1>1, <1>2
      <3>3. g[r] = IF col[r].type = t THEN col[r].n ELSE 0
        BY <1>2, <3>2, AmountsAre
      <3>4. /\ slices[i][j].type = t <=> col[r].type = t
            /\ slices[i][j].type = t => slices[i][j] = col[r]
        BY <1>3
      <3> HIDE DEF g, r
      <3> QED
        BY <3>1, <3>3, <3>4 DEF r
    <2>4. PartsOf(parts, g, ends, Lens, n)
      BY <2>3 DEF PartsOf
    <2> HIDE DEF g, parts, sums
    <2>5. Sum(sums, n) = Sum(g, ends[n])
      BY <1>1, <2>1, <2>2, <2>4, SumOfParts
    <2> QED
      BY <2>1, <2>5 DEF sums
  <1>5. Sum([i \in 1..n |-> Count(slices[i], {t})], n) = Count(col, {t})
    <2> DEFINE g == OnesOf(col, {t})
               parts == [i \in 1..n |-> OnesOf(slices[i], {t})]
               sums == [i \in 1..n |-> Count(slices[i], {t})]
    <2>1. Ints(g, ends[n]) /\ Count(col, {t}) = Sum(g, ends[n])
      BY <1>1, <1>2, CountIsSumOfOnes
    <2>2. \A i \in 1..n : sums[i] = Sum(parts[i], Lens[i])
      BY <1>1, CountIsSumOfOnes
    <2>3. ASSUME NEW i \in 1..n, NEW j \in 1..Lens[i] PROVE parts[i][j] = g[ends[i - 1] + j]
      <3> DEFINE r == ends[i - 1] + j
      <3>1. OnesOf(slices[i], {t})[j] = IF slices[i][j].type \in {t} THEN 1 ELSE 0
        BY <1>1, CountIsSumOfOnes
      <3>2. r \in 1..Len(col)
        BY <1>1, <1>2
      <3>3. g[r] = IF col[r].type \in {t} THEN 1 ELSE 0
        BY <1>2, <3>2, CountIsSumOfOnes
      <3>4. slices[i][j].type = t <=> col[r].type = t
        BY <1>3
      <3> HIDE DEF g, r
      <3> QED
        BY <3>1, <3>3, <3>4 DEF r
    <2>4. PartsOf(parts, g, ends, Lens, n)
      BY <2>3 DEF PartsOf
    <2> HIDE DEF g, parts, sums
    <2>5. Sum(sums, n) = Sum(g, ends[n])
      BY <1>1, <2>1, <2>2, <2>4, SumOfParts
    <2> QED
      BY <2>1, <2>5 DEF sums
  <1>6. UNION {Numbers(slices[i], t) : i \in DOMAIN slices} = Numbers(col, t)
    <2>1. DOMAIN col = 1..Len(rows) /\ \A i \in 1..n : DOMAIN slices[i] = 1..Lens[i]
      BY <1>1, <1>2
    <2>2. ASSUME NEW x \in UNION {Numbers(slices[i], t) : i \in DOMAIN slices} PROVE x \in Numbers(col, t)
      <3>1. PICK i \in 1..n : x \in Numbers(slices[i], t)
        BY <1>1
      <3>2. PICK j \in 1..Lens[i] : slices[i][j].type = t /\ x = slices[i][j].n
        BY <2>1, <3>1 DEF Numbers
      <3>3. ends[i - 1] + j \in DOMAIN col
        BY <1>1, <2>1, <3>2
      <3>4. col[ends[i - 1] + j].type = t /\ x = col[ends[i - 1] + j].n
        BY <1>3, <3>2
      <3> QED
        BY <3>3, <3>4 DEF Numbers
    <2>3. ASSUME NEW x \in Numbers(col, t) PROVE x \in UNION {Numbers(slices[i], t) : i \in DOMAIN slices}
      <3>1. PICK r \in 1..Len(rows) : col[r].type = t /\ x = col[r].n
        BY <2>1 DEF Numbers
      <3>2. r \in 1..ends[n] /\ n \in Nat /\ Cut(ends, Lens, n)
        BY <1>1, <3>1
      <3>3. PICK i \in 1..n : \E j \in 1..Lens[i] : r = ends[i - 1] + j
        BY <3>2, PlaceInPart
      <3>4. PICK j \in 1..Lens[i] : r = ends[i - 1] + j
        BY <3>3
      <3>5. x \in Numbers(slices[i], t)
        BY <1>3, <2>1, <3>1, <3>4 DEF Numbers
      <3> QED
        BY <1>1, <3>5
    <2> QED
      BY <2>2, <2>3
  <1> QED
    BY <1>4, <1>5, <1>6 DEF slices, col

(* A list of natural numbers as integer values. *)
LEMMA NaturalsAsValues ==
    ASSUME NEW n \in Nat, NEW g, \A i \in 1..n : g[i] \in Nat,
           NEW s, s = [i \in 1..n |-> IntValue(g[i])]
    PROVE  /\ Total(s, "int") = Sum(g, n) /\ Sum(g, n) \in Nat
           /\ Saturated(s) = Capped(Sum(g, n))
  <1>1. s \in [1..n -> Entries] /\ \A i \in 1..n : s[i].type = "int" /\ s[i].n = g[i]
    BY DEF IntValue, Entries, Literals
  <1>2. s \in Seq(Entries) /\ Len(s) = n
    BY <1>1
  <1>3. \A i \in 1..n : Amounts(s, "int")[i] = g[i]
    BY <1>1, <1>2, AmountsAre
  <1>4. Total(s, "int") = Sum(Amounts(s, "int"), n) /\ Ints(Amounts(s, "int"), n)
    BY <1>2, TotalIsSum
  <1>5. Sum(Amounts(s, "int"), n) = Sum(g, n)
    BY <1>3, <1>4, SameSum
  <1>6. Total(s, "int") \in Nat /\ Saturated(s) = Capped(Total(s, "int"))
    BY <1>2, SaturatedIs DEF Capped
  <1> QED
    BY <1>4, <1>5, <1>6

(* Slices with values of one type have nothing of another. *)
LEMMA OneTypeOfSlices ==
    ASSUME NEW n, NEW slices, NEW t,
           \A i \in 1..n : /\ slices[i] \in Seq(Entries)
                           /\ \A j \in DOMAIN slices[i] : slices[i][j].type \in {t, "null", "absent"}
    PROVE  \A u \in {"int", "float", "string"} : u # t =>
              \A i \in 1..n : Numbers(slices[i], u) = {} /\ Total(slices[i], u) = 0
  <1> SUFFICES ASSUME NEW i \in 1..n
               PROVE  \A u \in {"int", "float", "string"} : u # t =>
                         Numbers(slices[i], u) = {} /\ Total(slices[i], u) = 0
    OBVIOUS
  <1> DEFINE values == slices[i]
  <1>1. values \in Seq(Entries) /\ \A j \in DOMAIN values : values[j].type \in {t, "null", "absent"}
    OBVIOUS
  <1> HIDE DEF values
  <1>2. \A u \in {"int", "float", "string"} : u # t => Numbers(values, u) = {} /\ Total(values, u) = 0
    BY <1>1, OneTypeOnly
  <1> QED
    BY <1>2 DEF values

(* Slices with values of one type, and their total, numbers and count.     *)
SlicesHave(slices, n, t, total, numbers, count) ==
    /\ DOMAIN slices = 1..n
    /\ \A i \in 1..n : /\ slices[i] \in Seq(Entries)
                       /\ \A j \in DOMAIN slices[i] : slices[i][j].type \in {t, "null", "absent"}
    /\ total = Sum([i \in 1..n |-> Total(slices[i], t)], n)
    /\ count = Sum([i \in 1..n |-> Count(slices[i], {t})], n)
    /\ numbers = UNION {Numbers(slices[i], t) : i \in DOMAIN slices}
    /\ numbers \in SUBSET Nat /\ (count = 0 <=> numbers = {})

(* Slices with values of one type: what the aggregate over the chunks      *)
(* gives, from their totals, counts and numbers. Where the sum of an       *)
(* average stays at the largest integer, or where that is the minimum, it  *)
(* gives something else.                                                   *)
LEMMA OverChunksIs ==
    ASSUME NEW n \in Nat, NEW slices, NEW fn, NEW t, Suits(fn, t),
           NEW total, NEW numbers, NEW count, SlicesHave(slices, n, t, total, numbers, count),
           t = "int" /\ fn = "avg" => total <= MaxInt,
           t = "int" /\ fn = "min" => MaxInt \notin numbers
    PROVE  OverChunks(fn, slices) = AggregateOf(fn, t, total, numbers, count)
  <1> USE DEF SlicesHave
  <1> DEFINE ints   == UNION {Numbers(slices[i], "int") : i \in DOMAIN slices}
             floats == UNION {Numbers(slices[i], "float") : i \in DOMAIN slices}
             c      == Total(OverSlices(slices, NonNull), "int")
             sum_i  == Saturated(OverSlices(slices, Saturated))
             sum_f  == Total(OverSlices(slices, LAMBDA s : Total(s, "float")), "int")
             totals == [i \in 1..n |-> Total(slices[i], t)]
             counts == [i \in 1..n |-> Count(slices[i], {t})]
  <1>1. t \in {"int", "float", "string"} /\ MaxInt \in Nat
    BY MaxIntAssumption DEF Suits
  <1>2. \A i \in 1..n : /\ Total(slices[i], t) \in Nat
                        /\ NonNull(slices[i]) = Count(slices[i], {t})
                        /\ Count(slices[i], {t}) \in Nat
    BY <1>1, CountsOfOneType, TotalIsSum
  <1>3. \A u \in {"int", "float", "string"} : u # t =>
            \A i \in 1..n : Numbers(slices[i], u) = {} /\ Total(slices[i], u) = 0
    BY OneTypeOfSlices
  <1>4. \A i \in 1..n : Saturated(slices[i]) = Capped(Total(slices[i], "int"))
    BY SaturatedIs DEF Capped
  <1>5. c = count
    <2>1. OverSlices(slices, NonNull) = [i \in 1..n |-> IntValue(counts[i])]
      BY <1>2 DEF OverSlices
    <2>2. \A i \in 1..n : counts[i] \in Nat
      BY <1>2
    <2> HIDE DEF counts
    <2>3. Total(OverSlices(slices, NonNull), "int") = Sum(counts, n)
      BY <2>1, <2>2, NaturalsAsValues
    <2> QED
      BY <2>3 DEF counts
  <1>6. total \in Nat
    <2>1. \A i \in 1..n : totals[i] \in Nat
      BY <1>2
    <2>2. total = Sum(totals, n)
      OBVIOUS
    <2> HIDE DEF totals
    <2> QED
      BY <2>1, <2>2, SumOfNaturals
  <1>7. sum_i = IF t = "int" THEN Capped(total) ELSE 0
    <2> DEFINE h == [i \in 1..n |-> Capped(Total(slices[i], "int"))]
               g == [i \in 1..n |-> Total(slices[i], "int")]
    <2>1. OverSlices(slices, Saturated) = [i \in 1..n |-> IntValue(h[i])]
      BY <1>4 DEF OverSlices
    <2>2. \A i \in 1..n : g[i] \in Nat /\ h[i] = Capped(g[i]) /\ h[i] \in Nat
      BY <1>1, TotalIsSum DEF Capped
    <2>3. t = "int" => g = totals
      OBVIOUS
    <2>4. t # "int" => \A i \in 1..n : g[i] = 0
      BY <1>3
    <2> HIDE DEF h, g, totals
    <2>5. Saturated(OverSlices(slices, Saturated)) = Capped(Sum(h, n))
      BY <2>1, <2>2, NaturalsAsValues
    <2>6. Capped(Sum(h, n)) = Capped(Sum(g, n))
      BY <2>2, CappedSums
    <2>7. t # "int" => Sum(g, n) = 0
      BY <2>4, SumOfZeros
    <2>8. Capped(0) = 0
      BY <1>1 DEF Capped
    <2>9. total = Sum(totals, n)
      BY DEF totals
    <2> QED
      BY <2>3, <2>5, <2>6, <2>7, <2>8, <2>9
  <1>8. sum_f = IF t = "float" THEN total ELSE 0
    <2> DEFINE g == [i \in 1..n |-> Total(slices[i], "float")]
    <2>1. OverSlices(slices, LAMBDA s : Total(s, "float")) = [i \in 1..n |-> IntValue(g[i])]
      BY DEF OverSlices
    <2>2. \A i \in 1..n : g[i] \in Nat
      BY TotalIsSum
    <2>3. t = "float" => g = totals
      OBVIOUS
    <2>4. t # "float" => \A i \in 1..n : g[i] = 0
      BY <1>3
    <2> HIDE DEF g, totals
    <2>5. sum_f = Sum(g, n)
      BY <2>1, <2>2, NaturalsAsValues
    <2>6. t # "float" => Sum(g, n) = 0
      BY <2>4, SumOfZeros
    <2>7. total = Sum(totals, n)
      BY DEF totals
    <2> QED
      BY <2>3, <2>5, <2>6, <2>7
  <1>9. /\ ints = IF t = "int" THEN numbers ELSE {}
        /\ floats = IF t = "float" THEN numbers ELSE {}
    <2>1. t # "int" => ints = {}
      BY <1>3
    <2>2. t # "float" => floats = {}
      BY <1>3
    <2>3. t = "int" => ints = numbers
      OBVIOUS
    <2>4. t = "float" => floats = numbers
      OBVIOUS
    <2> HIDE DEF ints, floats
    <2> QED
      BY <2>1, <2>2, <2>3, <2>4
  <1>10. OverChunks(fn, slices) =
            CASE fn = "count" -> IntValue(c)
              [] fn = "sum" -> IF floats # {} THEN FloatValue(sum_f)
                               ELSE IF ints # {} THEN IntValue(sum_i) ELSE NullValue
              [] fn = "avg" -> IF c = 0 THEN NullValue ELSE Quotient(2 * sum_i + sum_f, c)
              [] fn = "min" -> IF floats = {} /\ ints # {} /\ Min(ints) = MaxInt THEN NullValue
                               ELSE Extreme(floats, ints, Min)
              [] fn = "max" -> Extreme(floats, ints, Max)
    BY DEF OverChunks
  <1>11. t = "int" /\ fn = "min" /\ numbers # {} => Min(numbers) # MaxInt
    <2> SUFFICES ASSUME t = "int", fn = "min", numbers # {} PROVE Min(numbers) # MaxInt
      OBVIOUS
    <2>1. PICK k \in numbers : \A m \in numbers : k <= m
      BY Smallest
    <2>2. Min(numbers) \in numbers
      BY <2>1 DEF Min
    <2> QED
      BY <2>2
  <1> HIDE DEF c, sum_i, sum_f, ints, floats
  <1>12. CASE fn = "count"
    BY <1>5, <1>10, <1>12 DEF AggregateOf
  <1>13. CASE t = "int" /\ fn \in OfNumbers
    <2>1. ints = numbers /\ floats = {} /\ sum_i = Capped(total) /\ sum_f = 0 /\ c = count
      BY <1>5, <1>7, <1>8, <1>9, <1>13
    <2>2. CASE fn = "sum"
      <3>1. OverChunks(fn, slices) = IF numbers # {} THEN IntValue(Capped(total)) ELSE NullValue
        BY <1>10, <2>1, <2>2
      <3>2. AggregateOf(fn, t, total, numbers, count)
              = IF count = 0 THEN NullValue ELSE IntValue(IF total > MaxInt THEN MaxInt ELSE total)
        BY <1>13, <2>2 DEF AggregateOf
      <3> QED
        BY <3>1, <3>2 DEF Capped
    <2>3. CASE fn = "avg"
      <3>1. Capped(total) = total /\ 2 * total + 0 = 2 * total
        BY <1>1, <1>6, <1>13, <2>3 DEF Capped
      <3> QED
        BY <1>10, <1>13, <2>1, <2>3, <3>1 DEF AggregateOf
    <2>4. CASE fn = "min"
      BY <1>10, <1>11, <1>13, <2>1, <2>4 DEF AggregateOf, Extreme, IntValue
    <2>5. CASE fn = "max"
      BY <1>10, <1>13, <2>1, <2>5 DEF AggregateOf, Extreme, IntValue
    <2> QED
      BY <1>13, <2>2, <2>3, <2>4, <2>5 DEF OfNumbers
  <1>14. CASE t = "float" /\ fn \in OfNumbers
    <2>1. ints = {} /\ floats = numbers /\ sum_i = 0 /\ sum_f = total /\ c = count
      BY <1>5, <1>7, <1>8, <1>9, <1>14
    <2>2. CASE fn = "sum"
      BY <1>10, <1>14, <2>1, <2>2 DEF AggregateOf
    <2>3. CASE fn = "avg"
      <3>1. 2 * 0 + total = total
        BY <1>6
      <3> QED
        BY <1>10, <1>14, <2>1, <2>3, <3>1 DEF AggregateOf
    <2>4. CASE fn = "min"
      BY <1>10, <1>14, <2>1, <2>4 DEF AggregateOf, Extreme, FloatValue
    <2>5. CASE fn = "max"
      BY <1>10, <1>14, <2>1, <2>5 DEF AggregateOf, Extreme, FloatValue
    <2> QED
      BY <1>14, <2>2, <2>3, <2>4, <2>5 DEF OfNumbers
  <1> QED
    BY <1>12, <1>13, <1>14 DEF Suits

(* The total of small integers, as an average of them needs it. *)
LEMMA TotalFits ==
    ASSUME NEW col \in Seq(Entries), NEW n, n = Len(col), NEW most \in Nat, n <= most,
           \A i \in 1..n : col[i].type = "int" => /\ col[i].n <= MaxInt
                                                  /\ most * col[i].n <= MaxInt
    PROVE  Total(col, "int") <= MaxInt
  <1> DEFINE S == Numbers(col, "int")
             g == Amounts(col, "int")
  <1>1. n \in Nat /\ DOMAIN col = 1..n /\ MaxInt \in Nat
    BY MaxIntAssumption
  <1>2. \A i \in 1..n : /\ col[i].n \in Nat /\ g[i] \in Nat
                        /\ g[i] = IF col[i].type = "int" THEN col[i].n ELSE 0
    BY <1>1, AmountsAre
  <1>3. Total(col, "int") = Sum(g, n)
    BY TotalIsSum
  <1>4. \A x \in S : \E i \in 1..n : col[i].type = "int" /\ x = col[i].n
    BY <1>1 DEF Numbers
  <1>5. \A i \in 1..n : col[i].type = "int" => col[i].n \in S
    BY <1>1 DEF Numbers
  <1> HIDE DEF S, g
  <1>6. \E b \in Nat : most * b <= MaxInt /\ \A i \in 1..n : g[i] <= b
    <2>1. CASE S = {}
      <3>1. \A i \in 1..n : g[i] <= 0
        BY <1>2, <1>5, <2>1
      <3>2. most * 0 <= MaxInt
        BY <1>1
      <3> QED
        BY <3>1, <3>2
    <2>2. CASE S # {}
      <3>1. S \in SUBSET Nat /\ \A x \in S : x <= MaxInt
        BY <1>2, <1>4
      <3>2. Max(S) \in S /\ \A x \in S : x <= Max(S)
        BY <1>1, <2>2, <3>1, LargestOfBounded
      <3>3. PICK b \in S : \A x \in S : x <= b
        BY <3>2
      <3>4. b \in Nat /\ most * b <= MaxInt
        BY <1>4, <3>1
      <3>5. \A i \in 1..n : g[i] <= b
        BY <1>2, <1>5, <3>3, <3>4
      <3> QED
        BY <3>4, <3>5
    <2> QED
      BY <2>1, <2>2
  <1>7. PICK b \in Nat : most * b <= MaxInt /\ \A i \in 1..n : g[i] <= b
    BY <1>6
  <1>8. Sum(g, n) <= n * b
    BY <1>1, <1>2, <1>7, SumOfBounded
  <1>9. n * b <= most * b
    BY <1>1
  <1>10. Sum(g, n) \in Int /\ n * b \in Int /\ most * b \in Int
    <2>1. Sum(g, n) \in Nat
      BY <1>1, <1>2, SumOfNaturals
    <2> QED
      BY <1>1, <2>1
  <1> DEFINE p == n * b
             q == most * b
  <1>11. Sum(g, n) <= p /\ p <= q /\ q <= MaxInt /\ Sum(g, n) \in Int /\ p \in Int /\ q \in Int
    BY <1>7, <1>8, <1>9, <1>10
  <1> HIDE DEF p, q
  <1>12. Sum(g, n) <= MaxInt
    BY <1>1, <1>11
  <1> QED
    BY <1>3, <1>12

(* The chunks have as many rows as the table, if the buffer has none. *)
LEMMA RowsInTheChunks ==
    ASSUME TypeOK, buffer = <<>>, RowsInChunks
    PROVE  Total(OverSlices(chunks, Len), "int") = Len(rows)
  <1> DEFINE n == Len(chunks)
  <1>1. PICK ends : EndsOf(ends, n)
    BY DEF RowsInChunks
  <1>2. /\ n \in Nat /\ DOMAIN chunks = 1..n /\ Len(rows) \in Nat
        /\ \A i \in 1..n : Lens[i] = Len(chunks[i]) /\ Lens[i] \in Nat
    BY DEF TypeOK, Lens
  <1>3. Cut(ends, Lens, n) /\ Len(rows) = ends[n] + 0
    BY <1>1 DEF EndsOf
  <1>4. ends[n] = Len(rows) /\ SumsOf(ends, Lens, n)
    <2>1. ends \in [0..n -> Nat]
      BY <1>3 DEF Cut
    <2>2. ends \in [0..n -> Int] /\ ends[n] \in Nat
      BY <1>2, <2>1
    <2> QED
      BY <1>3, <2>2 DEF Cut, SumsOf
  <1>5. Ints(Lens, n)
    BY <1>2 DEF Ints
  <1>6. Sum(Lens, n) = Len(rows)
    BY <1>2, <1>4, <1>5, SumIs
  <1>7. OverSlices(chunks, Len) = [i \in 1..n |-> IntValue(Lens[i])]
    BY <1>2 DEF OverSlices
  <1> HIDE DEF n
  <1> QED
    BY <1>2, <1>6, <1>7, NaturalsAsValues

(* The aggregate that the chunks give is that of the rows. *)
LEMMA AggregateOfChunks ==
    ASSUME TypeOK, buffer = <<>>, RowsInChunks, ColumnsTyped, RowsWritten,
           NEW agg \in Aggregate, AggregateFits(agg), agg.fn # "count_star",
           \A v \in Stored(agg.name) : v.type = "int" =>
              /\ agg.fn = "avg" => MaxRows * v.n <= MaxInt
              /\ agg.fn = "min" => v.n # MaxInt
    PROVE  OverChunks(agg.fn, Slices(chunks, agg.name)) = AggregateRows(rows, agg)
  <1> DEFINE n == Len(chunks)
             fn == agg.fn
             c  == agg.name
             col == ColumnOf(rows, c)
             slices == Slices(chunks, c)
  <1>1. PICK ends : EndsOf(ends, n)
    BY DEF RowsInChunks
  <1>2. PICK t : /\ Suits(fn, t) /\ t \in {"int", "float", "string"}
                 /\ \A i \in DOMAIN rows :
                        LET v == Field(rows[i], c)
                        IN  /\ v \in Entries /\ v \in Stored(c)
                            /\ v.type \in {t, "null", "absent"}
                            /\ v.type = "int" => v.n <= MaxInt
    BY ColumnSuits
  <1>3. ColumnIndex(c) # 0
    BY DEF AggregateFits
  <1>4. /\ col \in Seq(Entries) /\ Len(col) = Len(rows) /\ DOMAIN rows = 1..Len(rows) /\ Len(rows) \in Nat
        /\ \A i \in 1..Len(rows) : col[i] = Field(rows[i], c)
    BY ColumnIs DEF TypeOK
  <1>5. /\ n \in Nat /\ DOMAIN slices = 1..n
        /\ \A i \in 1..n : /\ slices[i] \in Seq(Entries) /\ Len(slices[i]) = Lens[i]
                           /\ \A j \in 1..Lens[i] :
                                 /\ ends[i - 1] + j \in 1..Len(rows)
                                 /\ slices[i][j] = IF col[ends[i - 1] + j] = Absent THEN NullValue
                                                   ELSE col[ends[i - 1] + j]
    BY <1>1, <1>3, SlicesAre
  <1>6. /\ Total(col, t) = Sum([i \in 1..n |-> Total(slices[i], t)], n)
        /\ Count(col, {t}) = Sum([i \in 1..n |-> Count(slices[i], {t})], n)
        /\ Numbers(col, t) = UNION {Numbers(slices[i], t) : i \in DOMAIN slices}
    <2>1. t \in {"int", "float", "string"}
      BY <1>2
    <2> HIDE DEF n, c
    <2> QED
      BY <1>1, <1>3, <2>1, SlicesAddUp
  <1> HIDE DEF n, col, slices
  <1>7. \A i \in 1..Len(rows) : col[i].type \in {t, "null", "absent"}
    BY <1>2, <1>4
  <1>8. \A i \in 1..n : /\ slices[i] \in Seq(Entries)
                        /\ \A j \in DOMAIN slices[i] : slices[i][j].type \in {t, "null", "absent"}
    <2> SUFFICES ASSUME NEW i \in 1..n, NEW j \in DOMAIN slices[i]
                 PROVE  slices[i][j].type \in {t, "null", "absent"}
      BY <1>5
    <2>1. j \in 1..Lens[i]
      BY <1>5
    <2> DEFINE r == ends[i - 1] + j
    <2>2. r \in 1..Len(rows) /\ slices[i][j] = IF col[r] = Absent THEN NullValue ELSE col[r]
      BY <1>5, <2>1
    <2> HIDE DEF r
    <2>3. col[r].type \in {t, "null", "absent"}
      BY <1>7, <2>2
    <2> QED
      BY <2>2, <2>3 DEF NullValue
  <1>9. \A i \in DOMAIN col : col[i].type \in {t, "null", "absent"}
    BY <1>4, <1>7
  <1>10. Count(col, {t}) = 0 <=> Numbers(col, t) = {}
    BY <1>2, <1>4, <1>9, CountsOfOneType
  <1>11. \A x \in Numbers(col, t) : \E v \in Stored(c) : v.type = t /\ v.n = x /\ x \in Nat
    <2> SUFFICES ASSUME NEW i \in DOMAIN col, col[i].type = t
                 PROVE  \E v \in Stored(c) : v.type = t /\ v.n = col[i].n /\ col[i].n \in Nat
      BY DEF Numbers
    <2>1. i \in 1..Len(rows) /\ i \in DOMAIN rows
      BY <1>4
    <2>2. col[i] \in Stored(c) /\ col[i] \in Entries
      BY <1>2, <1>4, <2>1
    <2> QED
      BY <2>2, EntryShape
  <1>12. Numbers(col, t) \in SUBSET Nat
    BY <1>11
  <1>13. t = "int" /\ fn = "min" => MaxInt \notin Numbers(col, t)
    BY <1>11
  <1>14. t = "int" /\ fn = "avg" => Total(col, t) <= MaxInt
    <2> SUFFICES ASSUME t = "int", fn = "avg" PROVE Total(col, "int") <= MaxInt
      OBVIOUS
    <2>1. Len(rows) <= MaxRows /\ MaxRows \in Nat
      BY MaxRowsAssumption DEF TypeOK
    <2>2. \A i \in 1..Len(rows) : col[i].type = "int" => col[i].n <= MaxInt /\ MaxRows * col[i].n <= MaxInt
      BY <1>2, <1>4
    <2> QED
      BY <1>4, <2>1, <2>2, TotalFits
  <1>15. OverRows(fn, col)
           = AggregateOf(fn, t, Total(col, t), Numbers(col, t), Count(col, {t}))
    BY <1>2, <1>4, <1>9, OverRowsIs
  <1>16. OverChunks(fn, slices)
           = AggregateOf(fn, t, Total(col, t), Numbers(col, t), Count(col, {t}))
    <2> DEFINE total == Total(col, t)
               count == Count(col, {t})
               numbers == Numbers(col, t)
    <2>1. n \in Nat /\ DOMAIN slices = 1..n /\ Suits(fn, t)
      BY <1>2, <1>5
    <2>2. /\ total = Sum([i \in 1..n |-> Total(slices[i], t)], n)
          /\ count = Sum([i \in 1..n |-> Count(slices[i], {t})], n)
          /\ numbers = UNION {Numbers(slices[i], t) : i \in DOMAIN slices}
      BY <1>6
    <2>3. numbers \in SUBSET Nat /\ (count = 0 <=> numbers = {})
      BY <1>10, <1>12
    <2>4. /\ t = "int" /\ fn = "avg" => total <= MaxInt
          /\ t = "int" /\ fn = "min" => MaxInt \notin numbers
      BY <1>13, <1>14
    <2> HIDE DEF total, count, numbers, fn
    <2>5. SlicesHave(slices, n, t, total, numbers, count)
      BY <1>8, <2>1, <2>2, <2>3 DEF SlicesHave
    <2>6. OverChunks(fn, slices) = AggregateOf(fn, t, total, numbers, count)
      BY <2>1, <2>4, <2>5, OverChunksIs
    <2> QED
      BY <2>6 DEF total, count, numbers
  <1>17. AggregateRows(rows, agg) = OverRows(fn, col)
    BY DEF AggregateRows, col
  <1> QED
    BY <1>15, <1>16, <1>17 DEF slices

(* A SELECT of aggregates answers right in every state the invariants      *)
(* describe.                                                               *)
LEMMA AggregatesStand ==
    ASSUME TypeOK, WhereMatches, RowsWritten, RowsInChunks, Replied, ColumnsTyped, AggregatesFit
    PROVE  AggregatesMatch
  <1> DEFINE query == last.query
             items == query.items
             node  == [node |-> "aggregate", aggs |-> items]
             answer == <<[i \in DOMAIN items |-> SqlAggregate(Kept(query), Unaliased(items[i]))]>>
  <1> SUFFICES ASSUME Answered, query.group = <<>>, ~ Plain(query)
               PROVE  last.reply.rows = answer
    BY DEF AggregatesMatch
  <1>1. /\ query \in Queries /\ Plannable(query)
        /\ last.reply = Execute(QueryToPlan(query), chunks)
        /\ Aggregates(QueryToPlan(query)) => buffer = <<>>
    BY DEF Replied
  <1>2. items \in Seq(Items)
    BY <1>1, QueriesAssumption
  <1>3. /\ Unlimited(query) /\ query.where = NoWhere
        /\ \A item \in ToSet(items) :
              /\ item.item = "aggregate" /\ AggregateFits(item)
              /\ \A v \in Stored(item.name) : v.type = "int" =>
                    /\ item.fn = "avg" => MaxRows * v.n <= MaxInt
                    /\ item.fn = "min" => v.n # MaxInt
    BY <1>1 DEF AggregatesFit
  <1> DEFINE agg(i) == items[i]
  <1>4. ASSUME NEW i \in DOMAIN items
        PROVE  /\ agg(i) \in Aggregate /\ AggregateFits(agg(i)) /\ Unaliased(agg(i)) = agg(i)
               /\ agg(i).item = "aggregate"
               /\ \A v \in Stored(agg(i).name) : v.type = "int" =>
                     /\ agg(i).fn = "avg" => MaxRows * v.n <= MaxInt
                     /\ agg(i).fn = "min" => v.n # MaxInt
    <2>1. agg(i) \in ToSet(items) /\ agg(i) \in Items
      BY <1>2 DEF ToSet
    <2> HIDE DEF agg, items
    <2>2. agg(i).item = "aggregate"
      BY <1>3, <2>1
    <2>3. agg(i) \in Aggregate /\ Unaliased(agg(i)) = agg(i)
      BY <2>1, <2>2, AggregateItem DEF Unaliased
    <2> QED
      BY <1>3, <2>1, <2>2, <2>3
  <1>5. Chosen(items, "aggregate") = items
    <2>1. {i \in DOMAIN items : items[i].item = "aggregate"} = DOMAIN items
      BY <1>4
    <2> HIDE DEF items
    <2>2. Those(items, DOMAIN items) = items
      BY <1>2, ThoseAll
    <2> QED
      BY <2>1, <2>2 DEF Chosen
  <1>6. ProjectionNodes(query) = <<node>>
    BY <1>5 DEF ProjectionNodes
  <1>7. QueryToPlan(query) = Append(<<>>, node)
    <2>1. FilterNodes(query) = <<>>
      BY <1>3 DEF FilterNodes
    <2> HIDE DEF node, query
    <2> QED
      BY <1>1, <1>3, <1>6, <2>1, PlanOfUnlimited
  <1>8. buffer = <<>>
    <2>1. Append(<<>>, node) = <<node>> /\ node.node = "aggregate"
      OBVIOUS
    <2>2. node \in ToSet(<<node>>)
      <3> HIDE DEF node
      <3>1. <<node>>[1] = node /\ 1 \in DOMAIN <<node>>
        OBVIOUS
      <3> QED
        BY <3>1 DEF ToSet
    <2>3. Aggregates(QueryToPlan(query))
      <3> HIDE DEF node
      <3> QED
        BY <1>7, <2>1, <2>2 DEF Aggregates
    <2> QED
      BY <1>1, <2>3
  <1>9. Kept(query) = DOMAIN rows
    BY <1>3 DEF Kept, Satisfies
  <1>10. ListsRows(rows, DOMAIN rows)
    <2>1. PICK some : Execute(FilterNodes(query), chunks) = Result(some) /\ ListsRows(some, Kept(query))
      BY <1>1, FilterNodesList
    <2>2. FilterNodes(query) = <<>>
      BY <1>3 DEF FilterNodes
    <2>3. Result(rows) = Result(some)
      BY <2>1, <2>2, ExecuteScan
    <2>4. rows = some
      BY <2>3 DEF Result
    <2> QED
      BY <1>9, <2>1, <2>4
  <1>11. \A i \in DOMAIN items : AggregateRows(rows, agg(i)) = SqlAggregate(DOMAIN rows, agg(i))
    <2> HIDE DEF agg, items
    <2> QED
      BY <1>4, <1>10, AggregateRowsIs
  <1>12. answer = <<[i \in DOMAIN items |-> AggregateRows(rows, agg(i))]>>
    BY <1>4, <1>9, <1>11
  <1>13. last.reply = Apply(node, Result(rows), chunks)
    <2> HIDE DEF node
    <2>1. IsPlan(<<>>) /\ Execute(<<>>, chunks) = Result(rows)
      BY ExecuteScan
    <2>2. Execute(Append(<<>>, node), chunks) = Apply(node, Execute(<<>>, chunks), chunks)
      BY <2>1, ExecuteNode
    <2> QED
      BY <1>1, <1>7, <2>1, <2>2
  <1>14. node.node = "aggregate" /\ node.aggs = items /\ Result(rows).kind = "rows" /\ Result(rows).rows = rows
    BY DEF Result
  <1>15. CASE chunks = <<>>
    <2>1. Known(AggColumns(items))
      <3> SUFFICES ASSUME NEW c \in AggColumns(items) PROVE ColumnIndex(c) # 0
        BY DEF Known
      <3>1. PICK i \in DOMAIN items : agg(i).fn # "count_star" /\ c = agg(i).name
        BY DEF AggColumns, ToSet
      <3> QED
        BY <1>4, <3>1 DEF AggregateFits
    <2>2. last.reply = AggregateByRows(rows, items)
      <3> HIDE DEF node, items
      <3> QED
        BY <1>13, <1>14, <1>15 DEF Apply
    <2>3. last.reply = Result(<<[i \in DOMAIN items |-> AggregateRows(rows, items[i])]>>)
      BY <2>1, <2>2 DEF AggregateByRows
    <2> QED
      BY <1>12, <2>3 DEF Result
  <1>16. CASE chunks # <<>>
    <2> DEFINE value(i) == IF items[i].fn = "count_star" THEN IntValue(Total(OverSlices(chunks, Len), "int"))
                           ELSE OverChunks(items[i].fn, Slices(chunks, items[i].name))
    <2>1. last.reply = AggregateByChunks(chunks, items)
      <3> HIDE DEF node, items
      <3> QED
        BY <1>13, <1>14, <1>16 DEF Apply
    <2>2. last.reply = Result(<<[i \in DOMAIN items |-> value(i)]>>)
      BY <2>1 DEF AggregateByChunks
    <2>3. ASSUME NEW i \in DOMAIN items PROVE value(i) = AggregateRows(rows, agg(i))
      <3>1. CASE agg(i).fn = "count_star"
        <4>1. Total(OverSlices(chunks, Len), "int") = Len(rows)
          BY <1>8, RowsInTheChunks
        <4> QED
          BY <3>1, <4>1 DEF AggregateRows
      <3>2. CASE agg(i).fn # "count_star"
        <4>1. value(i) = OverChunks(agg(i).fn, Slices(chunks, agg(i).name))
          BY <3>2
        <4> HIDE DEF agg, value, items
        <4>2. OverChunks(agg(i).fn, Slices(chunks, agg(i).name)) = AggregateRows(rows, agg(i))
          BY <1>4, <1>8, <3>2, AggregateOfChunks
        <4> QED
          BY <4>1, <4>2
      <3> QED
        BY <3>1, <3>2
    <2>4. last.reply.rows = <<[i \in DOMAIN items |-> value(i)]>>
      <3> HIDE DEF value, items
      <3> QED
        BY <2>2 DEF Result
    <2> HIDE DEF value, agg
    <2> QED
      BY <1>12, <2>3, <2>4
  <1> QED
    BY <1>15, <1>16

(* A SELECT of aggregates answers with the aggregates, in the sense of     *)
(* SQL, of all rows of the table: the code computes them from the chunks,  *)
(* however earlier statements have cut the rows into them, adding up what  *)
(* each chunk gives, or from the rows if there is no chunk.                *)
THEOREM AggregatesCorrect ==
    ASSUME ColumnsTyped, ConditionsFit, AggregatesFit
    PROVE  Spec => []AggregatesMatch
  <1>1. TypeOK /\ WhereMatches /\ RowsWritten /\ RowsInChunks /\ Replied => AggregatesMatch
    BY AggregatesStand
  <1>2. TableSpec => []RowsInChunks
    BY RowsStayInChunks DEF AggregatesFit
  <1> QED
    BY <1>1, <1>2, SessionFillsTable, TypeCorrect, WhereCorrect, RowsAreWritten, RepliesStand, PTL

-----------------------------------------------------------------------------
(* ORDER BY and LIMIT. *)

(* The elements of a part of a sequence. *)
LEMMA SubSeqIs ==
    ASSUME NEW S, NEW s \in Seq(S), NEW m \in Nat \ {0}, NEW n \in Nat
    PROVE  SubSeq(s, m, n) = [i \in 1..(1 + n - m) |-> s[i + m - 1]]
  OBVIOUS

(* What is equal in an order by several things is left as it was.          *)
LEMMA StableOrder ==
    ASSUME NEW m \in Nat, NEW V, NEW L, OrdersOf(L, m, V), NEW k \in Nat,
           NEW key \in [1..k -> [1..m -> V]],
           NEW R, R = {p \in (1..k) \X (1..k) :
                          \/ Precedes(key[p[1]], key[p[2]], L, m)
                          \/ p[1] < p[2] /\ ~ Precedes(key[p[2]], key[p[1]], L, m)}
    PROVE  /\ StrictOrder(1..k, R)
           /\ \A i, j \in 1..k : <<i, j>> \in R => ~ Precedes(key[j], key[i], L, m)
  <1> DEFINE before(i, j) == Precedes(key[i], key[j], L, m)
  <1>1. \A i, j \in 1..k : <<i, j>> \in R <=> before(i, j) \/ (i < j /\ ~ before(j, i))
    OBVIOUS
  <1>2. /\ \A i \in 1..k : ~ before(i, i)
        /\ \A i, j \in 1..k : key[i] # key[j] => before(i, j) \/ before(j, i)
        /\ \A h, i, j \in 1..k : before(h, i) /\ before(i, j) => before(h, j)
    <2>1. /\ \A f \in [1..m -> V] : ~ Precedes(f, f, L, m)
          /\ \A f, g \in [1..m -> V] : f # g => Precedes(f, g, L, m) \/ Precedes(g, f, L, m)
          /\ \A f, g, h \in [1..m -> V] : Precedes(f, g, L, m) /\ Precedes(g, h, L, m) => Precedes(f, h, L, m)
      BY PrecedesStrictly
    <2>2. \A i \in 1..k : key[i] \in [1..m -> V]
      OBVIOUS
    <2> QED
      BY <2>1, <2>2
  <1>3. \A i, j \in 1..k : key[i] = key[j] =>
            \A h \in 1..k : (before(h, i) <=> before(h, j)) /\ (before(i, h) <=> before(j, h))
    OBVIOUS
  <1> HIDE DEF before
  <1>4. \A i, j \in 1..k : before(i, j) => ~ before(j, i)
    BY <1>2
  <1>5. \A i, j \in 1..k : ~ before(i, j) /\ ~ before(j, i) => key[i] = key[j]
    BY <1>2
  <1>6. \A i, j \in 1..k : i # j => <<i, j>> \in R \/ <<j, i>> \in R
    BY <1>1
  <1>7. \A i \in 1..k : <<i, i>> \notin R
    BY <1>1, <1>2
  <1>8. ASSUME NEW h \in 1..k, NEW i \in 1..k, NEW j \in 1..k, <<h, i>> \in R, <<i, j>> \in R
        PROVE  <<h, j>> \in R
    <2>1. before(h, i) \/ (h < i /\ ~ before(i, h))
      BY <1>1, <1>8
    <2>2. before(i, j) \/ (i < j /\ ~ before(j, i))
      BY <1>1, <1>8
    <2>3. CASE before(h, i) /\ before(i, j)
      BY <1>1, <1>2, <2>3
    <2>4. CASE before(h, i) /\ ~ before(i, j)
      <3>1. key[i] = key[j]
        BY <1>5, <2>2, <2>4
      <3>2. before(h, j)
        BY <1>3, <2>4, <3>1
      <3> QED
        BY <1>1, <3>2
    <2>5. CASE ~ before(h, i) /\ before(i, j)
      <3>1. key[h] = key[i]
        BY <1>5, <2>1, <2>5
      <3>2. before(h, j)
        BY <1>3, <2>5, <3>1
      <3> QED
        BY <1>1, <3>2
    <2>6. CASE ~ before(h, i) /\ ~ before(i, j)
      <3>1. key[h] = key[i] /\ h < i /\ i < j
        BY <1>5, <2>1, <2>2, <2>6
      <3>2. ~ before(j, h)
        BY <1>3, <2>2, <2>6, <3>1
      <3>3. h < j
        BY <3>1
      <3> QED
        BY <1>1, <3>2, <3>3
    <2> QED
      BY <2>3, <2>4, <2>5, <2>6
  <1>9. \A i, j \in 1..k : <<i, j>> \in R => ~ before(j, i)
    BY <1>1, <1>4
  <1> DEFINE S == 1..k
  <1>10. StrictOrder(S, R)
    <2>1. /\ \A i, j \in S : i # j => <<i, j>> \in R \/ <<j, i>> \in R
          /\ \A i \in S : <<i, i>> \notin R
          /\ \A h, i, j \in S : <<h, i>> \in R /\ <<i, j>> \in R => <<h, j>> \in R
      BY <1>6, <1>7, <1>8
    <2> HIDE DEF S
    <2> QED
      BY <2>1 DEF StrictOrder
  <1> QED
    BY <1>9, <1>10 DEF before

(* Columns that rows can be sorted by as SQL does. *)
Sortable(order) ==
    /\ order \in Seq(STRING \X BOOLEAN)
    /\ \A i \in DOMAIN order : /\ ColumnIndex(order[i][1]) # 0
                               /\ {NullValue, Absent} \cap Stored(order[i][1]) = {}

Ups   == {p \in Nat \X Nat : p[1] < p[2]}
Downs == {p \in Nat \X Nat : p[1] > p[2]}

(* What the rows are sorted by, and in which directions.                   *)
SortKey(r, order) == [i \in 1..Len(order) |-> Field(r, order[i][1]).n]
Directions(order) == [i \in 1..Len(order) |-> IF order[i][2] THEN Ups ELSE Downs]

(* Each direction is a strict order of numbers. *)
LEMMA DirectionsOrder ==
    ASSUME NEW order \in Seq(STRING \X BOOLEAN)
    PROVE  OrdersOf(Directions(order), Len(order), Nat)
  <1>1. StrictOrder(Nat, Ups)
    BY DEF StrictOrder, Ups
  <1>2. StrictOrder(Nat, Downs)
    BY DEF StrictOrder, Downs
  <1> QED
    BY <1>1, <1>2 DEF OrdersOf, Directions

(* The comparison of two rows by the columns is that of their keys.        *)
LEMMA SortsByKeys ==
    ASSUME TypeOK, ColumnsTyped, RowsWritten, NEW order, Sortable(order),
           NEW a \in DOMAIN rows, NEW b \in DOMAIN rows
    PROVE  /\ SortKey(rows[a], order) \in [1..Len(order) -> Nat] /\ Len(order) \in Nat
           /\ SortsBefore(rows[a], rows[b], order)
                <=> Precedes(SortKey(rows[a], order), SortKey(rows[b], order), Directions(order), Len(order))
           /\ \A i \in 1..Len(order) :
                 LET v == Field(rows[a], order[i][1])
                     w == Field(rows[b], order[i][1])
                 IN  /\ v.n \in Nat /\ w.n \in Nat /\ Numeric(v) \in Nat /\ Numeric(w) \in Nat
                     /\ Numeric(v) < Numeric(w) <=> v.n < w.n
                     /\ Numeric(v) = Numeric(w) <=> v.n = w.n
  <1> DEFINE m == Len(order)
             v(i) == Field(rows[a], order[i][1])
             w(i) == Field(rows[b], order[i][1])
             f == SortKey(rows[a], order)
             g == SortKey(rows[b], order)
  <1>1. /\ m \in Nat /\ DOMAIN order = 1..m
        /\ \A i \in 1..m : /\ ColumnIndex(order[i][1]) # 0
                           /\ {NullValue, Absent} \cap Stored(order[i][1]) = {}
                           /\ order[i][2] \in BOOLEAN
    <2>1. order \in Seq(STRING \X BOOLEAN)
      BY DEF Sortable
    <2>2. m \in Nat /\ DOMAIN order = 1..m
      BY <2>1
    <2>3. ASSUME NEW i \in 1..m PROVE order[i][2] \in BOOLEAN
      <3>1. order[i] \in STRING \X BOOLEAN
        BY <2>1, <2>2
      <3> QED
        BY <3>1
    <2>4. \A i \in DOMAIN order : /\ ColumnIndex(order[i][1]) # 0
                                  /\ {NullValue, Absent} \cap Stored(order[i][1]) = {}
      BY DEF Sortable
    <2> QED
      BY <2>2, <2>3, <2>4
  <1>2. ASSUME NEW i \in 1..m
        PROVE  /\ v(i).n \in Nat /\ w(i).n \in Nat /\ v(i).type = w(i).type
               /\ v(i) # Absent /\ w(i) # Absent /\ v(i).type \in {"int", "float", "string"}
    <2>1. v(i) \in Stored(order[i][1]) /\ w(i) \in Stored(order[i][1]) /\ v(i) \in Entries /\ w(i) \in Entries
      BY ColumnType
    <2>2. v(i) \notin {NullValue, Absent} /\ w(i) \notin {NullValue, Absent}
      BY <1>1, <2>1
    <2>3. v(i).type = w(i).type
      BY <2>2, ColumnOfOneType
    <2> HIDE DEF v, w
    <2> QED
      BY <2>1, <2>2, <2>3, EntryShape
  <1>3. /\ f = [i \in 1..m |-> v(i).n] /\ g = [i \in 1..m |-> w(i).n]
    BY DEF SortKey
  <1>4. ASSUME NEW i \in 1..m
        PROVE  /\ At(rows[a], ColumnIndex(order[i][1])) = v(i) /\ At(rows[b], ColumnIndex(order[i][1])) = w(i)
    BY DEF Field
  <1> HIDE DEF v, w, f, g
  <1>5. \A i \in 1..m : /\ Before(v(i), w(i)) <=> v(i).n < w(i).n
                        /\ Before(w(i), v(i)) <=> w(i).n < v(i).n
    BY <1>2 DEF Before, Comparable
  <1>6. \A i \in 1..m : <<f[i], g[i]>> \in Directions(order)[i]
                          <=> IF order[i][2] THEN v(i).n < w(i).n ELSE w(i).n < v(i).n
    BY <1>1, <1>2, <1>3 DEF Directions, Ups, Downs
  <1>7. \A i \in 1..m : f[i] = v(i).n /\ g[i] = w(i).n
    BY <1>3
  <1>8. f \in [1..m -> Nat]
    BY <1>2, <1>3
  <1>9. SortsBefore(rows[a], rows[b], order) <=>
            \E i \in 1..m :
                /\ \A j \in 1..i - 1 : ~ Before(v(j), w(j)) /\ ~ Before(w(j), v(j))
                /\ IF order[i][2] THEN Before(v(i), w(i)) ELSE Before(w(i), v(i))
    <2>1. \A i \in 1..m : \A j \in 1..i - 1 : j \in 1..m
      BY <1>1
    <2> QED
      BY <1>1, <1>4, <2>1 DEF SortsBefore
  <1>10. ASSUME NEW i \in 1..m
         PROVE  (\A j \in 1..i - 1 : ~ Before(v(j), w(j)) /\ ~ Before(w(j), v(j)))
                  <=> \A j \in 1..i - 1 : f[j] = g[j]
    <2>1. \A j \in 1..i - 1 : j \in 1..m
      BY <1>1
    <2>2. ASSUME NEW j \in 1..i - 1
          PROVE  (~ Before(v(j), w(j)) /\ ~ Before(w(j), v(j))) <=> f[j] = g[j]
      <3>1. j \in 1..m
        BY <2>1
      <3>2. v(j).n \in Nat /\ w(j).n \in Nat
        BY <1>2, <3>1
      <3>3. (~ (v(j).n < w(j).n) /\ ~ (w(j).n < v(j).n)) <=> v(j).n = w(j).n
        BY <3>2
      <3> QED
        BY <1>5, <1>7, <3>1, <3>3
    <2> QED
      BY <2>2
  <1>11. SortsBefore(rows[a], rows[b], order) <=> Precedes(f, g, Directions(order), m)
    BY <1>5, <1>6, <1>9, <1>10 DEF Precedes
  <1>12. ASSUME NEW i \in 1..m
         PROVE  /\ Numeric(v(i)) \in Nat /\ Numeric(w(i)) \in Nat
                /\ Numeric(v(i)) < Numeric(w(i)) <=> v(i).n < w(i).n
                /\ Numeric(v(i)) = Numeric(w(i)) <=> v(i).n = w(i).n
    BY <1>2 DEF Numeric
  <1> QED
    BY <1>1, <1>2, <1>8, <1>11, <1>12 DEF v, w, f, g

(* What SQL compares of the i-th row to sort by a column, in a direction.  *)
RankBy(i, column) ==
    IF column[2] THEN Numeric(Field(rows[i], column[1]))
    ELSE -Numeric(Field(rows[i], column[1]))

(* Two rows are in the order of SQL if their keys are.                     *)
LEMMA RanksByKeys ==
    ASSUME TypeOK, ColumnsTyped, RowsWritten, NEW order, Sortable(order),
           NEW a \in DOMAIN rows, NEW b \in DOMAIN rows,
           ~ Precedes(SortKey(rows[b], order), SortKey(rows[a], order), Directions(order), Len(order))
    PROVE  ~ \E i \in DOMAIN order : /\ \A j \in 1..i - 1 : RankBy(a, order[j]) = RankBy(b, order[j])
                                     /\ RankBy(a, order[i]) > RankBy(b, order[i])
  <1> DEFINE m == Len(order)
             v(i) == Field(rows[a], order[i][1])
             w(i) == Field(rows[b], order[i][1])
             f == SortKey(rows[a], order)
             g == SortKey(rows[b], order)
  <1>1. m \in Nat /\ DOMAIN order = 1..m
    <2>1. order \in Seq(STRING \X BOOLEAN)
      BY DEF Sortable
    <2> QED
      BY <2>1
  <1>2. \A i \in 1..m : /\ v(i).n \in Nat /\ w(i).n \in Nat
                        /\ Numeric(v(i)) \in Nat /\ Numeric(w(i)) \in Nat
                        /\ Numeric(v(i)) < Numeric(w(i)) <=> v(i).n < w(i).n
                        /\ Numeric(v(i)) = Numeric(w(i)) <=> v(i).n = w(i).n
    BY SortsByKeys
  <1>3. \A i \in 1..m : f[i] = v(i).n /\ g[i] = w(i).n
    BY DEF SortKey
  <1>4. \A i \in 1..m : /\ RankBy(a, order[i]) = IF order[i][2] THEN Numeric(v(i)) ELSE -Numeric(v(i))
                        /\ RankBy(b, order[i]) = IF order[i][2] THEN Numeric(w(i)) ELSE -Numeric(w(i))
    BY DEF RankBy
  <1>5. \A i \in 1..m : Directions(order)[i] = IF order[i][2] THEN Ups ELSE Downs
    BY DEF Directions
  <1>6. ~ \E i \in 1..m : (\A j \in 1..i - 1 : g[j] = f[j]) /\ <<g[i], f[i]>> \in Directions(order)[i]
    BY DEF Precedes
  <1> HIDE DEF m, v, w, f, g
  <1> SUFFICES ASSUME NEW i \in 1..m, \A j \in 1..i - 1 : RankBy(a, order[j]) = RankBy(b, order[j]),
                      RankBy(a, order[i]) > RankBy(b, order[i])
               PROVE  FALSE
    BY <1>1
  <1>7. ASSUME NEW j \in 1..i - 1 PROVE g[j] = f[j]
    <2>1. j \in 1..m /\ RankBy(a, order[j]) = RankBy(b, order[j])
      BY <1>1
    <2>2. Numeric(v(j)) = Numeric(w(j))
      BY <1>2, <1>4, <2>1
    <2> QED
      BY <1>2, <1>3, <2>1, <2>2
  <1>8. <<g[i], f[i]>> \in Directions(order)[i]
    <2>1. CASE order[i][2]
      <3>1. Numeric(v(i)) \in Nat /\ Numeric(w(i)) \in Nat /\ Numeric(v(i)) > Numeric(w(i))
        BY <1>2, <1>4, <2>1
      <3>2. Numeric(w(i)) < Numeric(v(i)) /\ ~ (Numeric(v(i)) < Numeric(w(i)))
            /\ Numeric(v(i)) # Numeric(w(i))
        BY <3>1
      <3>3. v(i).n \in Nat /\ w(i).n \in Nat /\ w(i).n < v(i).n
        BY <1>2, <3>2
      <3> QED
        BY <1>3, <1>5, <2>1, <3>3 DEF Ups
    <2>2. CASE ~ order[i][2]
      <3>1. Numeric(v(i)) \in Nat /\ Numeric(w(i)) \in Nat /\ -Numeric(v(i)) > -Numeric(w(i))
        BY <1>2, <1>4, <2>2
      <3>2. Numeric(v(i)) < Numeric(w(i))
        BY <3>1
      <3> QED
        BY <1>2, <1>3, <1>5, <2>2, <3>2 DEF Downs
    <2> QED
      BY <2>1, <2>2
  <1> QED
    BY <1>6, <1>7, <1>8

(* ORDER BY puts the rows it is given in an order SQL allows, each once.   *)
LEMMA RowsSorted ==
    ASSUME TypeOK, ColumnsTyped, RowsWritten, NEW order, Sortable(order),
           NEW P \in SUBSET (DOMAIN rows), NEW at, NEW some, RowsAt(some, at, P)
    PROVE  \E sorted, by : /\ OrderBy(some, order) = Result(sorted)
                           /\ RowsAt(sorted, by, P) /\ InOrder(by, order)
  <1> DEFINE n == Cardinality(P)
             m == Len(order)
             L == Directions(order)
  <1>1. /\ n \in Nat /\ DOMAIN at = 1..n /\ DOMAIN some = 1..n
        /\ \A k \in 1..n : at[k] \in P /\ some[k] = rows[at[k]]
        /\ \A i \in P : \E k \in 1..n : at[k] = i
        /\ \A k, l \in 1..n : at[k] = at[l] => k = l
    <2>1. at \in SetToSeqs(P) /\ some = [k \in DOMAIN at |-> rows[at[k]]]
      BY DEF RowsAt
    <2>2. /\ Cardinality(P) \in Nat /\ DOMAIN at = 1..Cardinality(P)
          /\ some \in Seq(Rows) /\ Len(some) = Cardinality(P)
          /\ \A k \in 1..Cardinality(P) : at[k] \in P /\ some[k] = rows[at[k]]
          /\ \A i \in P : \E k \in 1..Cardinality(P) : at[k] = i
          /\ \A k, l \in 1..Cardinality(P) : at[k] = at[l] => k = l
      BY <2>1, RowsListed
    <2> QED
      BY <2>2
  <1>2. order \in Seq(STRING \X BOOLEAN) /\ m \in Nat /\ OrdersOf(L, m, Nat)
    <2>1. order \in Seq(STRING \X BOOLEAN)
      BY DEF Sortable
    <2> QED
      BY <2>1, DirectionsOrder
  <1>3. \A k \in 1..n : at[k] \in DOMAIN rows /\ SortKey(rows[at[k]], order) \in [1..m -> Nat]
    <2> SUFFICES ASSUME NEW k \in 1..n PROVE at[k] \in DOMAIN rows /\ SortKey(rows[at[k]], order) \in [1..m -> Nat]
      OBVIOUS
    <2>1. at[k] \in DOMAIN rows
      BY <1>1
    <2> QED
      BY <2>1, SortsByKeys
  <1> DEFINE key == [k \in 1..n |-> SortKey(rows[at[k]], order)]
             R == {p \in (1..n) \X (1..n) :
                      \/ Precedes(key[p[1]], key[p[2]], L, m)
                      \/ p[1] < p[2] /\ ~ Precedes(key[p[2]], key[p[1]], L, m)}
             before(i, j) == \/ SortsBefore(some[i], some[j], order)
                             \/ i < j /\ ~ SortsBefore(some[j], some[i], order)
  <1>4. key \in [1..n -> [1..m -> Nat]]
    BY <1>3
  <1>5. /\ StrictOrder(1..n, R)
        /\ \A i, j \in 1..n : <<i, j>> \in R => ~ Precedes(key[j], key[i], L, m)
    <2>1. n \in Nat /\ m \in Nat /\ OrdersOf(L, m, Nat)
      BY <1>1, <1>2
    <2>2. R = {p \in (1..n) \X (1..n) :
                  \/ Precedes(key[p[1]], key[p[2]], L, m)
                  \/ p[1] < p[2] /\ ~ Precedes(key[p[2]], key[p[1]], L, m)}
      OBVIOUS
    <2> HIDE DEF key, L, m, n, R
    <2> QED
      BY <1>4, <2>1, <2>2, StableOrder
  <1>6. ASSUME NEW i \in 1..n, NEW j \in 1..n
        PROVE  SortsBefore(some[i], some[j], order) <=> Precedes(key[i], key[j], L, m)
    <2>1. at[i] \in DOMAIN rows /\ at[j] \in DOMAIN rows
      BY <1>3
    <2>2. SortsBefore(rows[at[i]], rows[at[j]], order)
            <=> Precedes(SortKey(rows[at[i]], order), SortKey(rows[at[j]], order), L, m)
      BY <2>1, SortsByKeys
    <2> HIDE DEF L, m
    <2> QED
      BY <1>1, <2>2
  <1> HIDE DEF key
  <1>7. \A i, j \in 1..n : before(i, j) <=> <<i, j>> \in R
    BY <1>6
  <1> DEFINE S == 1..n
  <1>8. IsFiniteSet(S) /\ Cardinality(S) = n
    BY <1>1, FS_Interval
  <1>9. \A j \in S : {i \in S : before(i, j)} = Below(S, R, j)
    BY <1>7 DEF Below
  <1> HIDE DEF R, S, before
  <1>10. PICK perm : ListsInOrder(perm, S, R)
    BY <1>5, <1>8, OrderedList DEF S
  <1>11. \A k \in 1..Cardinality(S) :
            perm[k] = CHOOSE x \in S : Cardinality({y \in S : before(y, x)}) = k - 1
    BY <1>9, <1>10 DEF ListsInOrder
  <1>12. perm = [k \in 1..Cardinality(S) |-> perm[k]]
    BY <1>10 DEF ListsInOrder, SetToSeqs
  <1>13. Listed(DOMAIN some, before) = perm
    <2>1. DOMAIN some = S
      BY <1>1 DEF S
    <2> QED
      BY <1>11, <1>12, <2>1 DEF Listed
  <1>14. /\ DOMAIN perm = 1..n /\ \A k \in 1..n : perm[k] \in 1..n
         /\ \A k, l \in 1..n : perm[k] = perm[l] => k = l
         /\ \A a, b \in 1..n : a < b => <<perm[a], perm[b]>> \in R
    <2>1. /\ DOMAIN perm = 1..Cardinality(S) /\ \A k \in DOMAIN perm : perm[k] \in S
          /\ \A k, l \in DOMAIN perm : perm[k] = perm[l] => k = l
      <3>1. perm \in SetToSeqs(S)
        BY <1>10 DEF ListsInOrder
      <3> QED
        BY <1>8, <3>1, ListsAll
    <2>2. \A a, b \in DOMAIN perm : a < b => <<perm[a], perm[b]>> \in R
      BY <1>10 DEF ListsInOrder
    <2> QED
      BY <1>8, <2>1, <2>2 DEF S
  <1> DEFINE sorted == [k \in 1..n |-> some[perm[k]]]
             by == [k \in 1..n |-> at[perm[k]]]
  <1>15. OrderBy(some, order) = Result(sorted)
    <2>1. Known({c[1] : c \in ToSet(order)})
      BY DEF Sortable, Known, ToSet
    <2>2. OrderBy(some, order) =
            IF ~ Known({c[1] : c \in ToSet(order)}) THEN Failed
            ELSE Result([k \in DOMAIN Listed(DOMAIN some, before) |-> some[Listed(DOMAIN some, before)[k]]])
      BY DEF OrderBy, before
    <2> QED
      BY <1>13, <1>14, <2>1, <2>2
  <1>16. RowsAt(sorted, by, P)
    <2>1. \A k \in 1..n : perm[k] \in 1..n /\ by[k] \in P /\ by[k] = at[perm[k]]
      BY <1>1, <1>14
    <2>2. by \in [1..n -> P]
      BY <2>1
    <2>3. \A k, l \in 1..n : by[k] = by[l] => k = l
      BY <1>1, <1>14
    <2>4. by \in SetToSeqs(P)
      BY <2>2, <2>3 DEF SetToSeqs
    <2>5. sorted = [k \in DOMAIN by |-> rows[by[k]]]
      BY <1>1, <2>1
    <2> QED
      BY <2>4, <2>5 DEF RowsAt
  <1>17. ASSUME NEW a \in 1..n, NEW b \in 1..n, a < b
         PROVE  ~ \E i \in DOMAIN order :
                    /\ \A j \in 1..i - 1 : RankBy(by[a], order[j]) = RankBy(by[b], order[j])
                    /\ RankBy(by[a], order[i]) > RankBy(by[b], order[i])
    <2>1. /\ perm[a] \in 1..n /\ perm[b] \in 1..n
          /\ by[a] = at[perm[a]] /\ by[b] = at[perm[b]]
          /\ by[a] \in DOMAIN rows /\ by[b] \in DOMAIN rows
      BY <1>3, <1>14
    <2>2. ~ Precedes(key[perm[b]], key[perm[a]], L, m)
      BY <1>5, <1>14, <1>17, <2>1
    <2>3. key[perm[b]] = SortKey(rows[by[b]], order) /\ key[perm[a]] = SortKey(rows[by[a]], order)
      BY <2>1 DEF key
    <2> HIDE DEF by
    <2> QED
      BY <2>1, <2>2, <2>3, RanksByKeys
  <1>18. InOrder(by, order)
    <2>1. DOMAIN by = 1..n
      OBVIOUS
    <2>2. \A a \in 1..n, i \in DOMAIN order :
            RankBy(by[a], order[i]) = LET k == Numeric(Field(rows[by[a]], order[i][1]))
                                    IN  IF order[i][2] THEN k ELSE -k
      BY DEF RankBy
    <2>3. \A a, b \in 1..n : a < b =>
            ~ \E i \in DOMAIN order :
                /\ \A j \in 1..i - 1 : RankBy(by[a], order[j]) = RankBy(by[b], order[j])
                /\ RankBy(by[a], order[i]) > RankBy(by[b], order[i])
      BY <1>17
    <2> HIDE DEF by
    <2> QED
      BY <2>1, <2>3 DEF InOrder, RankBy
  <1> QED
    BY <1>15, <1>16, <1>18

-----------------------------------------------------------------------------
(* SELECTs of columns. *)

(* A filter that leaves everything out. *)
LEMMA ThoseNone ==
    ASSUME NEW X, NEW seq \in Seq(X)
    PROVE  Those(seq, {}) = <<>>
  <1> DEFINE n == Len(seq)
             P == {i \in 1..n : FALSE}
  <1>1. n \in Nat /\ DOMAIN seq = 1..n /\ P \in SUBSET (1..n)
    OBVIOUS
  <1>2. P = {} /\ Cardinality(P) = 0
    <2>1. P = {}
      OBVIOUS
    <2> HIDE DEF P
    <2> QED
      BY <2>1, FS_EmptySet
  <1> HIDE DEF n, P
  <1>3. PICK at \in SetToSeqs(P) :
              /\ IsFiniteSet(P) /\ DOMAIN at = 1..Cardinality(P)
              /\ Cardinality(P) \in Nat
              /\ \A i, j \in DOMAIN at : i < j => at[i] < at[j]
              /\ Those(seq, P) = [k \in DOMAIN at |-> seq[at[k]]]
    <2> HIDE <1>2
    <2> QED
      BY <1>1, ThoseAre
  <1> DEFINE none == Those(seq, P)
  <1>4. none \in Seq(X) /\ Len(none) = 0
    <2>1. DOMAIN at = {} /\ none = [k \in DOMAIN at |-> seq[at[k]]]
      BY <1>2, <1>3
    <2>2. none \in [1..Cardinality(P) -> X]
      BY <1>2, <1>3, <2>1
    <2> HIDE DEF none
    <2>3. none \in Seq(X) /\ Len(none) = Cardinality(P)
      BY <1>3, <2>2
    <2> QED
      BY <1>2, <2>3
  <1>5. none = <<>>
    <2> HIDE DEF none
    <2> QED
      BY <1>4
  <1> QED
    BY <1>2, <1>5

(* A plan with nothing or one node on top is a plan. *)
LEMMA PlanExtended ==
    ASSUME NEW plan, IsPlan(plan), NEW node
    PROVE  plan \o <<>> = plan /\ plan \o <<node>> = Append(plan, node) /\ IsPlan(Append(plan, node))
  <1>1. PICK X : plan \in Seq(X)
    BY DEF IsPlan
  <1>2. Append(plan, node) \in Seq(X \cup {node})
    BY <1>1
  <1> QED
    BY <1>1, <1>2 DEF IsPlan

(* What the projection makes of a row. *)
Projected(row, items) ==
    IF items = <<Star>> THEN row
    ELSE Present([i \in DOMAIN items |-> Field(row, Unaliased(items[i]).name)])

(* It is the output of the SELECT, if the row is long enough. *)
LEMMA OutputProjected ==
    ASSUME NEW r \in Rows, NEW items \in Seq(Items), Gives(r, items),
           items = <<Star>> \/ \A item \in ToSet(items) : item.item = "column"
    PROVE  Projected(r, items) = Output(r, items)
  <1>1. CASE items = <<Star>>
    <2>1. DOMAIN r = DOMAIN Schema
      BY <1>1 DEF Gives
    <2>2. \A c \in DOMAIN r : r[c] \in Literals
      BY DEF Rows
    <2>3. \A c \in DOMAIN r : OrNull(At(r, c)) = r[c]
      BY <2>2 DEF OrNull, At, Literals, Absent, NullValue
    <2>4. r = [c \in DOMAIN r |-> r[c]]
      BY DEF Rows
    <2>5. Output(r, items) = [c \in DOMAIN Schema |-> OrNull(At(r, c))]
      BY <1>1 DEF Output
    <2>6. Projected(r, items) = r
      BY <1>1 DEF Projected
    <2> QED
      BY <2>1, <2>3, <2>4, <2>5, <2>6
  <1>2. CASE items # <<Star>>
    <2> DEFINE names == [i \in DOMAIN items |-> Unaliased(items[i]).name]
    <2>1. names \in Seq(STRING) /\ DOMAIN names = DOMAIN items
      <3>1. \A i \in DOMAIN items : items[i].item = "column" /\ items[i] \in Items
        BY <1>2 DEF ToSet
      <3>2. \A i \in DOMAIN items : Unaliased(items[i]).name \in STRING
        BY <3>1 DEF Unaliased, Items, Bare, Star
      <3> QED
        BY <3>2
    <2>2. HasAll(r, ToSet(names))
      <3>1. {Unaliased(item).name : item \in ToSet(items)} = ToSet(names)
        BY DEF ToSet
      <3> QED
        BY <1>2, <3>1 DEF Gives
    <2>3. /\ [i \in DOMAIN items |-> Field(r, Unaliased(items[i]).name)]
               = [i \in DOMAIN names |-> Field(r, names[i])]
          /\ [i \in DOMAIN items |-> OrNull(Field(r, Unaliased(items[i]).name))]
               = [i \in DOMAIN names |-> OrNull(Field(r, names[i]))]
      OBVIOUS
    <2>4. /\ Projected(r, items) = Present([i \in DOMAIN items |-> Field(r, Unaliased(items[i]).name)])
          /\ Output(r, items) = [i \in DOMAIN items |-> OrNull(Field(r, Unaliased(items[i]).name))]
      BY <1>2 DEF Projected, Output
    <2> HIDE DEF names
    <2>5. LET values == [i \in DOMAIN names |-> Field(r, names[i])]
          IN  /\ Present(values) = values
              /\ values = [i \in DOMAIN names |-> OrNull(Field(r, names[i]))]
      BY <2>1, <2>2, ValuesOfColumns
    <2> QED
      BY <2>3, <2>4, <2>5
  <1> QED
    BY <1>1, <1>2

(* What the node of the projection makes of the rows. *)
LEMMA RowsProjected ==
    ASSUME NEW query \in Queries, Plain(query), SelectsFit, NEW flushed,
           NEW plan, IsPlan(plan), NEW some \in Seq(Rows), Execute(plan, flushed) = Result(some)
    PROVE  /\ IsPlan(plan \o ProjectionNodes(query))
           /\ Execute(plan \o ProjectionNodes(query), flushed)
                = Result([k \in DOMAIN some |-> Projected(some[k], query.items)])
  <1> DEFINE items == query.items
             output == [k \in DOMAIN some |-> Projected(some[k], items)]
             aggs    == Chosen(items, "aggregate")
             columns == Chosen(items, "column")
  <1>1. items \in Seq(Items) /\ query.group = <<>>
    BY QueriesAssumption DEF Plain
  <1>2. \/ items = <<Star>>
        \/ items # <<>> /\ \A item \in ToSet(items) : item.item = "column"
    BY DEF SelectsFit
  <1>3. CASE items = <<Star>>
    <2>1. DOMAIN items = {1} /\ items[1].item = "star" /\ items # <<>>
      BY <1>3 DEF Star
    <2>2. {i \in DOMAIN items : items[i].item = "aggregate"} = {}
          /\ {i \in DOMAIN items : items[i].item = "column"} = {}
      BY <2>1
    <2>3. aggs = <<>> /\ columns = <<>>
      <3> HIDE DEF items
      <3> QED
        BY <1>1, <2>2, ThoseNone DEF Chosen
    <2>4. ProjectionNodes(query) = <<>>
      <3> HIDE DEF aggs, columns
      <3>1. ProjectionNodes(query) =
              IF query.group # <<>>
              THEN <<[node |-> "group", by |-> query.group, aggs |-> aggs]>>
              ELSE IF aggs = items
              THEN <<[node |-> "aggregate", aggs |-> aggs]>>
              ELSE IF columns # <<>>
              THEN <<[node |-> "project", columns |-> [i \in DOMAIN columns |-> columns[i].name]]>>
              ELSE <<>>
        BY DEF ProjectionNodes, aggs, columns
      <3> QED
        BY <1>1, <2>1, <2>3, <3>1
    <2>5. output = some
      <3>1. \A k \in DOMAIN some : Projected(some[k], items) = some[k]
        BY <1>3 DEF Projected
      <3> HIDE DEF items
      <3> QED
        BY <3>1
    <2> HIDE DEF output
    <2> QED
      BY <2>4, <2>5, PlanExtended DEF output
  <1>4. CASE items # <<>> /\ \A item \in ToSet(items) : item.item = "column"
    <2>1. \A i \in DOMAIN items : items[i].item = "column"
      BY <1>4 DEF ToSet
    <2>2. 1 \in DOMAIN items
      <3> HIDE DEF items
      <3> QED
        BY <1>1, <1>4
    <2>3. {i \in DOMAIN items : items[i].item = "aggregate"} = {}
          /\ {i \in DOMAIN items : items[i].item = "column"} = DOMAIN items
      BY <2>1
    <2>4. aggs = <<>> /\ columns = items
      <3> HIDE DEF items
      <3> QED
        BY <1>1, <2>3, ThoseNone, ThoseAll DEF Chosen
    <2> DEFINE names == [i \in DOMAIN items |-> items[i].name]
               node == [node |-> "project", columns |-> names]
    <2>5. ProjectionNodes(query) = <<node>>
      BY <1>1, <1>4, <2>4 DEF ProjectionNodes
    <2>6. plan \o ProjectionNodes(query) = Append(plan, node) /\ IsPlan(Append(plan, node))
      <3> HIDE DEF node
      <3> QED
        BY <2>5, PlanExtended
    <2>7. Execute(Append(plan, node), flushed) = Apply(node, Result(some), flushed)
      <3> HIDE DEF node
      <3> QED
        BY ExecuteNode
    <2>8. Apply(node, Result(some), flushed) = Project(some, names)
      <3>1. node.node = "project" /\ node.columns = names
            /\ Result(some).kind = "rows" /\ Result(some).rows = some
        BY DEF Result
      <3> HIDE DEF node, names
      <3> QED
        BY <3>1 DEF Apply
    <2>9. items # <<Star>>
      <3>1. <<Star>>[1].item = "star" /\ items[1].item = "column"
        BY <2>1, <2>2 DEF Star
      <3> HIDE DEF items
      <3> QED
        BY <3>1
    <2>10. \A i \in DOMAIN items : Unaliased(items[i]).name = names[i]
      BY <2>1 DEF Unaliased
    <2>11. DOMAIN names = DOMAIN items
      OBVIOUS
    <2> HIDE DEF names, items, node
    <2>12. ASSUME NEW r
           PROVE  Projected(r, items) = Present([i \in DOMAIN names |-> Field(r, names[i])])
      <3>1. [i \in DOMAIN items |-> Field(r, Unaliased(items[i]).name)]
              = [i \in DOMAIN names |-> Field(r, names[i])]
        BY <2>10, <2>11
      <3> QED
        BY <2>9, <3>1 DEF Projected
    <2>13. Project(some, names) = Result([k \in DOMAIN some |-> Projected(some[k], items)])
      BY <2>12 DEF Project
    <2> QED
      BY <2>6, <2>7, <2>8, <2>13 DEF items
  <1> QED
    BY <1>2, <1>3, <1>4

(* The order: the rows, or what the projection made of them, as they are   *)
(* if there is no ORDER BY.                                                *)
LEMMA RowsOrdered ==
    ASSUME TypeOK, ColumnsTyped, RowsWritten, NEW query, Sortable(query.order), NEW flushed,
           NEW plan, IsPlan(plan), NEW P \in SUBSET (DOMAIN rows), NEW at, NEW some,
           RowsAt(some, at, P), Execute(plan, flushed) = Result(some)
    PROVE  /\ IsPlan(plan \o OrderNodes(query))
           /\ \E sorted, by : /\ Execute(plan \o OrderNodes(query), flushed) = Result(sorted)
                              /\ RowsAt(sorted, by, P) /\ InOrder(by, query.order)
  <1>1. CASE query.order = <<>>
    <2>1. plan \o OrderNodes(query) = plan
      BY <1>1, PlanExtended DEF OrderNodes
    <2>2. InOrder(at, query.order)
      BY <1>1 DEF InOrder
    <2> QED
      BY <2>1, <2>2
  <1>2. CASE query.order # <<>>
    <2> DEFINE node == [node |-> "order", columns |-> query.order]
    <2>1. OrderNodes(query) = <<node>>
      BY <1>2 DEF OrderNodes
    <2>2. node.node = "order" /\ node.columns = query.order
          /\ Result(some).kind = "rows" /\ Result(some).rows = some
      BY DEF Result
    <2> HIDE DEF node
    <2>3. plan \o OrderNodes(query) = Append(plan, node) /\ IsPlan(Append(plan, node))
      BY <2>1, PlanExtended
    <2>4. Execute(Append(plan, node), flushed) = Apply(node, Result(some), flushed)
      BY ExecuteNode
    <2>5. Apply(node, Result(some), flushed) = OrderBy(some, query.order)
      BY <2>2 DEF Apply
    <2>6. PICK sorted, by : /\ OrderBy(some, query.order) = Result(sorted)
                            /\ RowsAt(sorted, by, P) /\ InOrder(by, query.order)
      <3> DEFINE order == query.order
      <3>1. Sortable(order)
        OBVIOUS
      <3> HIDE DEF order
      <3>2. \E sorted, by : /\ OrderBy(some, order) = Result(sorted)
                            /\ RowsAt(sorted, by, P) /\ InOrder(by, order)
        BY <3>1, RowsSorted
      <3> QED
        BY <3>2 DEF order
    <2> QED
      BY <2>3, <2>4, <2>5, <2>6
  <1> QED
    BY <1>1, <1>2

(* The smaller of two numbers. *)
LEMMA MinOfTwo ==
    ASSUME NEW a \in Nat, NEW b \in Nat
    PROVE  Min({a, b}) = IF a > b THEN b ELSE a
  BY DEF Min

(* The cut: all of it if there is no LIMIT.                                *)
LEMMA RowsLimited ==
    ASSUME NEW query \in Queries, NEW flushed, NEW plan, IsPlan(plan),
           NEW X, NEW full \in Seq(X), Len(full) <= MaxRows, Execute(plan, flushed) = Result(full)
    PROVE  Execute(plan \o LimitNodes(query), flushed)
             = Result(SubSeq(full, query.offset + 1, Min({query.offset + query.limit, Len(full)})))
  <1> DEFINE n == Len(full)
             limit == query.limit
             offset == query.offset
             end == Min({offset + limit, n})
  <1>1. limit \in Nat /\ offset \in Nat /\ n \in Nat
    BY QueriesAssumption
  <1>2. end = IF offset + limit > n THEN n ELSE offset + limit
    <2>1. offset + limit \in Nat
      BY <1>1
    <2> HIDE DEF limit, offset, n
    <2> QED
      BY <1>1, <2>1, MinOfTwo
  <1>3. CASE limit = NoLimit /\ offset = 0
    <2>1. plan \o LimitNodes(query) = plan
      BY <1>3, PlanExtended DEF LimitNodes
    <2>2. end = n
      <3>1. n <= limit
        BY <1>1, <1>3, NoLimitAssumption, MaxRowsAssumption
      <3>2. offset + limit = limit
        BY <1>1, <1>3
      <3> HIDE DEF n, limit, offset, end
      <3> QED
        BY <1>1, <1>2, <3>1, <3>2
    <2>3. SubSeq(full, 1, n) = full
      OBVIOUS
    <2>4. offset + 1 = 1
      BY <1>3
    <2>5. SubSeq(full, offset + 1, end) = full
      BY <2>2, <2>3, <2>4
    <2> HIDE DEF n, limit, offset, end
    <2> QED
      BY <2>1, <2>5 DEF n, limit, offset, end
  <1>4. CASE ~ (limit = NoLimit /\ offset = 0)
    <2> DEFINE node == [node |-> "limit", limit |-> limit, offset |-> offset]
    <2>1. LimitNodes(query) = <<node>>
      BY <1>4 DEF LimitNodes
    <2>2. node.node = "limit" /\ node.limit = limit /\ node.offset = offset
          /\ Result(full).kind = "rows" /\ Result(full).rows = full
      BY DEF Result
    <2> HIDE DEF node, limit, offset
    <2>3. plan \o LimitNodes(query) = Append(plan, node)
      BY <2>1, PlanExtended
    <2>4. Execute(Append(plan, node), flushed) = Apply(node, Result(full), flushed)
      BY ExecuteNode
    <2>5. Apply(node, Result(full), flushed) = Limit(full, limit, offset)
      BY <2>2 DEF Apply
    <2>6. Limit(full, limit, offset) = Result(SubSeq(full, offset + 1, end))
      BY <1>2 DEF Limit
    <2> QED
      BY <2>3, <2>4, <2>5, <2>6 DEF limit, offset
  <1> QED
    BY <1>3, <1>4

(* To cut a list and then to make something of its elements is the same as *)
(* to do it the other way around.                                          *)
LEMMA CutOfOutputs ==
    ASSUME NEW S, NEW s \in Seq(S), NEW X, NEW g \in [S -> X], NEW m \in Nat \ {0}, NEW n \in Nat,
           n <= Len(s), NEW full, full = [k \in DOMAIN s |-> g[s[k]]], NEW part, part = SubSeq(s, m, n)
    PROVE  /\ full \in Seq(X) /\ Len(full) = Len(s)
           /\ SubSeq(full, m, n) = [k \in DOMAIN part |-> g[part[k]]]
  <1>1. full \in Seq(X) /\ Len(full) = Len(s)
    OBVIOUS
  <1>2. part = [i \in 1..(1 + n - m) |-> s[i + m - 1]]
    BY SubSeqIs
  <1>3. SubSeq(full, m, n) = [i \in 1..(1 + n - m) |-> full[i + m - 1]]
    BY <1>1, SubSeqIs
  <1>4. \A i \in 1..(1 + n - m) : i + m - 1 \in DOMAIN s
    OBVIOUS
  <1>5. \A i \in 1..(1 + n - m) : full[i + m - 1] = g[part[i]]
    BY <1>2, <1>4
  <1>6. DOMAIN part = 1..(1 + n - m)
    BY <1>2
  <1> QED
    BY <1>1, <1>3, <1>5, <1>6

(* The answer before it is cut.                                            *)
LEMMA RowsAnswered ==
    ASSUME TypeOK, WhereMatches, RowsWritten, ColumnsTyped, SelectsFit,
           NEW query \in Queries, Plannable(query), Plain(query), NEW flushed,
           NEW plan, plan = FilterNodes(query) \o ProjectionNodes(query) \o OrderNodes(query)
    PROVE  /\ IsPlan(plan)
           /\ \E by \in SetToSeqs(Kept(query)) :
                 /\ InOrder(by, query.order)
                 /\ Execute(plan, flushed)
                      = Result([k \in DOMAIN by |-> Projected(rows[by[k]], query.items)])
  <1> DEFINE P == Kept(query)
             items == query.items
             projected == FilterNodes(query) \o ProjectionNodes(query)
  <1>1. PICK some : Execute(FilterNodes(query), flushed) = Result(some) /\ ListsRows(some, P)
    BY FilterNodesList
  <1>2. PICK at \in SetToSeqs(P) : some = [k \in DOMAIN at |-> rows[at[k]]]
    BY <1>1 DEF ListsRows
  <1>3. P \in SUBSET (DOMAIN rows)
    BY DEF Kept
  <1>4. RowsAt(some, at, P)
    BY <1>2 DEF RowsAt
  <1>5. some \in Seq(Rows) /\ DOMAIN some = DOMAIN at /\ \A k \in DOMAIN at : some[k] = rows[at[k]]
    <2>1. some \in Seq(Rows)
      <3> HIDE DEF P
      <3> QED
        BY <1>2, <1>3, RowsListed
    <2> QED
      BY <1>2, <2>1
  <1> DEFINE output == [k \in DOMAIN some |-> Projected(some[k], items)]
  <1>6. IsPlan(projected) /\ Execute(projected, flushed) = Result(output)
    <2>1. IsPlan(FilterNodes(query))
      BY FilterNodesList
    <2> QED
      BY <1>1, <1>5, <2>1, RowsProjected
  <1> HIDE DEF projected, output, P
  <1>7. query.order \in Seq(STRING \X BOOLEAN)
    BY QueriesAssumption
  <1>8. Sortable(query.order)
    <2>1. \A c \in ToSet(query.order) : /\ ColumnIndex(c[1]) # 0
                                        /\ {NullValue, Absent} \cap Stored(c[1]) = {}
      BY DEF SelectsFit
    <2> QED
      BY <1>7, <2>1 DEF Sortable, ToSet
  <1>9. plan = projected \o OrderNodes(query)
    BY DEF projected
  <1>10. CASE items = <<Star>>
    <2>1. \A r : Projected(r, items) = r
      BY <1>10 DEF Projected
    <2>2. output = some
      <3>1. output = [k \in DOMAIN some |-> some[k]]
        BY <2>1 DEF output
      <3> QED
        BY <1>5, <3>1
    <2>3. Execute(projected, flushed) = Result(some)
      BY <1>6, <2>2
    <2>4. /\ IsPlan(projected \o OrderNodes(query))
          /\ \E sorted, by : /\ Execute(projected \o OrderNodes(query), flushed) = Result(sorted)
                             /\ RowsAt(sorted, by, P) /\ InOrder(by, query.order)
      BY <1>3, <1>4, <1>6, <1>8, <2>3, RowsOrdered
    <2>5. PICK sorted, by : /\ Execute(plan, flushed) = Result(sorted)
                            /\ RowsAt(sorted, by, P) /\ InOrder(by, query.order)
      BY <1>9, <2>4
    <2>6. by \in SetToSeqs(P) /\ sorted = [k \in DOMAIN by |-> rows[by[k]]]
      BY <2>5 DEF RowsAt
    <2>7. sorted = [k \in DOMAIN by |-> Projected(rows[by[k]], items)]
      BY <2>1, <2>6
    <2> HIDE DEF items
    <2> QED
      BY <1>9, <2>4, <2>5, <2>6, <2>7 DEF items, P
  <1>11. CASE items # <<Star>>
    <2>1. query.order = <<>>
      BY <1>11 DEF SelectsFit
    <2>2. plan = projected
      BY <1>6, <1>9, <2>1, PlanExtended DEF OrderNodes
    <2>3. InOrder(at, query.order)
      BY <2>1 DEF InOrder
    <2>4. output = [k \in DOMAIN at |-> Projected(rows[at[k]], items)]
      <3> HIDE DEF items
      <3> QED
        BY <1>5 DEF output
    <2> HIDE DEF items
    <2> QED
      BY <1>2, <1>6, <2>2, <2>3, <2>4 DEF items, P
  <1> QED
    BY <1>10, <1>11

(* A SELECT of columns answers right in every state the invariants         *)
(* describe.                                                               *)
LEMMA SelectsStand ==
    ASSUME TypeOK, WhereMatches, RowsWritten, Replied, ColumnsTyped, SelectsFit
    PROVE  SelectsMatch
  <1> DEFINE query == last.query
             items == query.items
             P     == Kept(query)
  <1> SUFFICES ASSUME Answered, Plain(query), \A i \in P : Gives(rows[i], items)
               PROVE  last.reply.kind = "rows" /\ last.reply.rows \in SqlAnswers(query)
    BY DEF SelectsMatch
  <1>1. /\ query \in Queries /\ Plannable(query)
        /\ last.reply = Execute(QueryToPlan(query), chunks)
    BY DEF Replied
  <1>2. query.limit \in Nat /\ query.offset \in Nat
    BY <1>1, QueriesAssumption
  <1> DEFINE plan == FilterNodes(query) \o ProjectionNodes(query) \o OrderNodes(query)
  <1>3. /\ IsPlan(plan)
        /\ \E by \in SetToSeqs(P) :
              /\ InOrder(by, query.order)
              /\ Execute(plan, chunks) = Result([k \in DOMAIN by |-> Projected(rows[by[k]], items)])
    BY <1>1, RowsAnswered
  <1>4. QueryToPlan(query) = plan \o LimitNodes(query)
    BY DEF QueryToPlan
  <1> HIDE DEF plan
  <1>5. PICK by \in SetToSeqs(P) :
              /\ InOrder(by, query.order)
              /\ Execute(plan, chunks) = Result([k \in DOMAIN by |-> Projected(rows[by[k]], items)])
    BY <1>3
  <1>6. /\ IsFiniteSet(P) /\ Cardinality(P) \in Nat /\ Cardinality(P) <= MaxRows
        /\ P \in SUBSET (DOMAIN rows)
    <2>1. DOMAIN rows = 1..Len(rows) /\ Len(rows) \in Nat /\ Len(rows) <= MaxRows
      BY IdsOfRows DEF TypeOK
    <2>2. P \in SUBSET (1..Len(rows))
      BY <2>1 DEF Kept
    <2> HIDE DEF P
    <2>3. IsFiniteSet(1..Len(rows)) /\ Cardinality(1..Len(rows)) = Len(rows)
      <3> DEFINE n == Len(rows)
      <3>1. n \in Nat
        BY <2>1
      <3> HIDE DEF n
      <3>2. IsFiniteSet(1..n) /\ Cardinality(1..n) = n
        BY <3>1, FS_Interval
      <3> QED
        BY <3>2 DEF n
    <2>4. IsFiniteSet(P) /\ Cardinality(P) <= Cardinality(1..Len(rows))
      BY <2>2, <2>3, FS_Subset
    <2>5. Cardinality(P) \in Nat
      BY <2>4, FS_CardinalityType
    <2> QED
      BY <2>1, <2>2, <2>3, <2>4, <2>5, MaxRowsAssumption
  <1>7. by \in Seq(P) /\ Len(by) = Cardinality(P)
    <2> HIDE DEF P
    <2>1. DOMAIN by = 1..Cardinality(P) /\ by \in [1..Cardinality(P) -> P]
      BY <1>5 DEF SetToSeqs
    <2> QED
      BY <1>6, <2>1
  <1> DEFINE outputs == [i \in P |-> Projected(rows[i], items)]
             X == {Projected(rows[i], items) : i \in P}
             full == [k \in DOMAIN by |-> Projected(rows[by[k]], items)]
             first == query.offset + 1
             end == Min({query.offset + query.limit, Len(by)})
             s == SubSeq(by, first, end)
  <1>8. first \in Nat \ {0} /\ end \in Nat /\ end <= Len(by)
    <2>1. query.offset + query.limit \in Nat /\ Len(by) \in Nat
      BY <1>2, <1>7
    <2>2. end = IF query.offset + query.limit > Len(by) THEN Len(by) ELSE query.offset + query.limit
      <3> HIDE DEF query
      <3> QED
        BY <2>1, MinOfTwo
    <2> HIDE DEF query, end
    <2> QED
      BY <1>2, <2>1, <2>2
  <1>9. outputs \in [P -> X]
    OBVIOUS
  <1>10. full = [k \in DOMAIN by |-> outputs[by[k]]]
    <2>1. \A k \in DOMAIN by : by[k] \in P
      <3> HIDE DEF P
      <3> QED
        BY <1>7
    <2>2. \A k \in DOMAIN by : outputs[by[k]] = Projected(rows[by[k]], items)
      BY <2>1
    <2> HIDE DEF outputs
    <2> QED
      BY <2>2
  <1>11. /\ full \in Seq(X) /\ Len(full) = Len(by)
         /\ SubSeq(full, first, end) = [k \in DOMAIN s |-> outputs[s[k]]]
    <2> HIDE DEF outputs, X, full, first, end, P
    <2> QED
      BY <1>7, <1>8, <1>9, <1>10, CutOfOutputs
  <1>12. \A k \in DOMAIN s : s[k] \in P
    <2> HIDE DEF first, end, P
    <2>1. s \in Seq(P)
      BY <1>7, <1>8
    <2> QED
      BY <2>1
  <1>13. SubSeq(full, first, end) = [k \in DOMAIN s |-> Output(rows[s[k]], items)]
    <2>1. ASSUME NEW i \in P PROVE Projected(rows[i], items) = Output(rows[i], items)
      <3>1. rows[i] \in Rows /\ Gives(rows[i], items)
        BY <1>6, IdsOfRows
      <3>2. items \in Seq(Items)
        BY <1>1, QueriesAssumption
      <3>3. items = <<Star>> \/ \A item \in ToSet(items) : item.item = "column"
        BY <1>1 DEF SelectsFit
      <3> HIDE DEF items, P
      <3> QED
        BY <3>1, <3>2, <3>3, OutputProjected
    <2>2. \A k \in DOMAIN s : outputs[s[k]] = Output(rows[s[k]], items)
      <3>1. \A k \in DOMAIN s : outputs[s[k]] = Projected(rows[s[k]], items)
        BY <1>12
      <3> HIDE DEF outputs, s, full, P, items
      <3> QED
        BY <1>12, <2>1, <3>1
    <2> HIDE DEF outputs, s, full
    <2> QED
      BY <1>11, <2>2
  <1>14. last.reply = Result(SubSeq(full, first, end))
    <2>1. Len(full) <= MaxRows
      BY <1>6, <1>7, <1>11
    <2>2. Execute(plan, chunks) = Result(full)
      BY <1>5
    <2> HIDE DEF full, X
    <2>3. Execute(plan \o LimitNodes(query), chunks)
            = Result(SubSeq(full, query.offset + 1, Min({query.offset + query.limit, Len(full)})))
      BY <1>1, <1>3, <1>11, <2>1, <2>2, RowsLimited
    <2> QED
      BY <1>1, <1>4, <1>11, <2>3
  <1>15. [k \in DOMAIN s |-> Output(rows[s[k]], items)] \in SqlAnswers(query)
    BY <1>5 DEF SqlAnswers
  <1> DEFINE answer == SubSeq(full, first, end)
  <1>16. answer \in SqlAnswers(query)
    <2> HIDE DEF s, full, first, end, items
    <2> QED
      BY <1>13, <1>15
  <1> HIDE DEF answer
  <1> QED
    BY <1>14, <1>16 DEF Result, answer

(* A SELECT of columns answers with exactly the rows WHERE describes, in   *)
(* an order ORDER BY allows and cut to LIMIT, whatever statements came     *)
(* before it, and whether the index or the row store provides the rows; if *)
(* none of them is too short for the columns it is asked for.              *)
THEOREM SelectsCorrect ==
    ASSUME ColumnsTyped, ConditionsFit, SelectsFit
    PROVE  Spec => []SelectsMatch
  <1>1. TypeOK /\ WhereMatches /\ RowsWritten /\ Replied => SelectsMatch
    BY SelectsStand
  <1> QED
    BY <1>1, SessionFillsTable, TypeCorrect, WhereCorrect, RowsAreWritten, RepliesStand, PTL
=============================================================================
