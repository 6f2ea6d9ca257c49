------------------------ MODULE TableDesigner_proofs ------------------------
(***************************************************************************)
(* Proofs about the table designer, for any number of columns: no column   *)
(* object gets into the table twice, and the statement of a table with a   *)
(* key has its commas right.                                               *)
(***************************************************************************)
EXTENDS TableDesigner, FiniteSetTheorems, SequenceTheorems, WellFoundedInduction, TLAPS

\* The statement shown is the one of the columns and keys of the designer,
\* which the alert keeps from changing.
StatementIsCurrent == screen = "confirm" => sql = GenerateCreateTableSQL
-----------------------------------------------------------------------------
(***************************************************************************)
(* The loops of generateCreateTableSQL.                                    *)
(***************************************************************************)
\* Every set of naturals that is not empty has a least element.
LEMMA LeastExists ==
    ASSUME NEW S, S \subseteq Nat, S # {}
    PROVE  \E k \in S : \A j \in S : k <= j
<1>1. IsWellFoundedOn(OpToRel(<, Nat), Nat)
  BY NatLessThanWellFounded
<1>2. PICK k \in S : \A j \in S : ~(<<j, k>> \in OpToRel(<, Nat))
  BY <1>1, WFMin
<1>3. \A j \in S : ~(j < k)
  BY <1>2 DEF OpToRel
<1> QED
  BY <1>3

\* A set of indexes has a k-th one, for every k up to its size: the least
\* bound with k of them up to it.
LEMMA NthIsIndex ==
    ASSUME NEW n \in Nat, NEW I \in SUBSET (1..n), NEW k \in 1..Cardinality(I)
    PROVE  Nth(I, k) \in I
<1> DEFINE Upto(m) == {j \in I : j <= m}
           M == {m \in 0..n : Cardinality(Upto(m)) >= k}
<1>0. \A j \in I : j \in Int /\ 1 <= j /\ j <= n
  OBVIOUS
<1>1. IsFiniteSet(1..n)
  BY FS_Interval
<1>2. IsFiniteSet(I) /\ Cardinality(I) \in Nat
  BY <1>1, FS_Subset, FS_CardinalityType
<1>3. \A m : Upto(m) \in SUBSET I
  OBVIOUS
<1>4. \A m : IsFiniteSet(Upto(m)) /\ Cardinality(Upto(m)) \in Nat
  BY <1>2, <1>3, FS_Subset, FS_CardinalityType
<1>5. n \in M /\ M \subseteq Nat
  <2>1. Upto(n) = I
    BY <1>0, Zenon
  <2> QED
    BY <2>1, <1>2
<1>6. PICK m \in M : \A l \in M : m <= l
  <2> HIDE DEF M
  <2> QED
    BY <1>5, LeastExists
<1>7. m # 0
  <2>1. ASSUME NEW j \in Upto(0) PROVE FALSE
    BY <1>0, <2>1
  <2>2. Upto(0) = {}
    BY <2>1
  <2>3. Cardinality(Upto(0)) = 0
    BY <2>2, FS_EmptySet
  <2> QED
    BY <2>3
<1>8. m \in Int /\ 1 <= m /\ m <= n /\ Cardinality(Upto(m)) >= k
  BY <1>7
<1>9. Cardinality(Upto(m - 1)) < k
  <2>1. m - 1 \in 0..n
    BY <1>8
  <2>2. m - 1 \notin M
    <3> HIDE DEF M
    <3> QED
      BY <1>6, <1>8
  <2>3. ~(Cardinality(Upto(m - 1)) >= k)
    BY <2>1, <2>2
  <2> HIDE DEF Upto
  <2> QED
    BY <2>3, <1>2, <1>4
<1>10. \A j \in I : (j <= m) = (j <= m - 1 \/ j = m)
  BY <1>0, <1>8
<1>11. m \in I
  <2>1. m \notin I => Upto(m) = Upto(m - 1)
    BY <1>10, Zenon
  <2> HIDE DEF Upto
  <2> QED
    BY <2>1, <1>4, <1>8, <1>9
<1>12. Upto(m) = Upto(m - 1) \cup {m}
  BY <1>10, <1>11, Zenon
<1>13. m \notin Upto(m - 1)
  BY <1>8
<1> HIDE DEF Upto
<1>14. Cardinality(Upto(m)) = Cardinality(Upto(m - 1)) + 1
  BY <1>4, <1>12, <1>13, FS_AddElement
<1>15. Cardinality(Upto(m)) = k
  BY <1>4, <1>8, <1>9, <1>14
<1> USE DEF Upto
<1> QED
  BY <1>11, <1>15 DEF Nth

\* What a loop keeps of an array is an array of some of its elements.
LEMMA SublistType ==
    ASSUME NEW S, NEW s \in Seq(S), NEW I \in SUBSET (1..Len(s))
    PROVE  Sublist(s, I) \in Seq(S)
<1>1. Len(s) \in Nat /\ \A k \in 1..Len(s) : s[k] \in S
  BY LenProperties, ElementOfSeq
<1>2. IsFiniteSet(1..Len(s))
  BY <1>1, FS_Interval
<1>3. Cardinality(I) \in Nat
  BY <1>2, FS_Subset, FS_CardinalityType
<1>4. \A k \in 1..Cardinality(I) : s[Nth(I, k)] \in S
  BY <1>1, NthIsIndex
<1>5. Sublist(s, I) \in [1..Cardinality(I) -> S]
  BY <1>4 DEF Sublist
<1> QED
  BY <1>3, <1>5, SeqDef

\* A function on an initial interval of the positive numbers is a sequence.
LEMMA FunctionIsSeq ==
    ASSUME NEW S, NEW n \in Nat, NEW f \in [1..n -> S]
    PROVE  f \in Seq(S) /\ Len(f) = n
<1>1. f \in Seq(S)
  BY SeqDef
<1>2. 1..n = 1..Len(f) /\ Len(f) \in Nat
  BY <1>1, LenProperties
<1> QED
  BY <1>1, <1>2

\* A list with its commas: how long it is and what it holds.
LEMMA ListedElements ==
    ASSUME NEW S, NEW items \in Seq(S), NEW closed \in BOOLEAN
    PROVE  /\ Listed(items, closed) \in Seq(S \cup {Comma})
           /\ Len(Listed(items, closed)) =
                IF items = <<>> THEN 0 ELSE 2 * Len(items) - (IF closed THEN 0 ELSE 1)
           /\ \A k \in 1..Len(Listed(items, closed)) :
                 Listed(items, closed)[k] = IF k % 2 = 1 THEN items[(k + 1) \div 2] ELSE Comma
<1>1. Len(items) \in Nat /\ (items = <<>> <=> Len(items) = 0)
  BY LenProperties, EmptySeq
<1>2. PICK d \in {0, 1} : d = IF closed THEN 0 ELSE 1
  OBVIOUS
<1>3. PICK n \in Int : n = 2 * Len(items) - d
  BY <1>1
<1>4. PICK m \in Nat : m = IF Len(items) = 0 THEN 0 ELSE n
  <2>1. Len(items) # 0 => n >= 0
    BY <1>1, <1>3
  <2> QED
    BY <1>1, <2>1
<1>5. 1..n = 1..m
  <2>1. Len(items) = 0 => 1..n = {} /\ 1..m = {}
    BY <1>3, <1>4
  <2> QED
    BY <1>4, <2>1
<1>6. \A k \in 1..m : (k + 1) \div 2 \in 1..Len(items)
  <2>1. m <= 2 * Len(items)
    BY <1>1, <1>3, <1>4
  <2> QED
    BY <1>1, <2>1
<1>7. \A k \in 1..m : (IF k % 2 = 1 THEN items[(k + 1) \div 2] ELSE Comma) \in S \cup {Comma}
  BY <1>6, ElementOfSeq
<1>8. Listed(items, closed) = [k \in 1..m |-> IF k % 2 = 1 THEN items[(k + 1) \div 2] ELSE Comma]
  BY <1>2, <1>3, <1>5 DEF Listed
<1>9. Listed(items, closed) \in [1..m -> S \cup {Comma}]
  BY <1>7, <1>8
<1>10. Listed(items, closed) \in Seq(S \cup {Comma})
  BY <1>9, SeqDef
<1>11. Len(Listed(items, closed)) = m
  BY <1>9, <1>10, LenProperties
<1>12. \A k \in 1..m :
          Listed(items, closed)[k] = IF k % 2 = 1 THEN items[(k + 1) \div 2] ELSE Comma
  BY <1>8
<1> QED
  BY <1>1, <1>2, <1>3, <1>4, <1>10, <1>11, <1>12

\* A list that ends with a comma and one after it are the list of both.
LEMMA ListedJoin ==
    ASSUME NEW S, NEW X \in Seq(S), NEW Y \in Seq(S), NEW closed \in BOOLEAN, closed \/ Y # <<>>
    PROVE  Listed(X, TRUE) \o Listed(Y, closed) = Listed(X \o Y, closed)
<1> DEFINE T == S \cup {Comma}
<1>1. Len(X) \in Nat /\ Len(Y) \in Nat /\ (X = <<>> <=> Len(X) = 0) /\ (Y = <<>> <=> Len(Y) = 0)
  BY LenProperties, EmptySeq
<1>2. X \o Y \in Seq(S) /\ Len(X \o Y) = Len(X) + Len(Y) /\ (X \o Y = <<>> <=> Len(X \o Y) = 0)
  BY ConcatProperties, EmptySeq
<1>3. PICK P : P = Listed(X, TRUE)
  OBVIOUS
<1>4. PICK Q : Q = Listed(Y, closed)
  OBVIOUS
<1>5. PICK R : R = Listed(X \o Y, closed)
  OBVIOUS
<1>6. P \in Seq(T) /\ Len(P) = 2 * Len(X)
      /\ \A k \in 1..Len(P) : P[k] = IF k % 2 = 1 THEN X[(k + 1) \div 2] ELSE Comma
  <2>1. TRUE \in BOOLEAN
    OBVIOUS
  <2>2. /\ P \in Seq(S \cup {Comma})
        /\ Len(P) = IF X = <<>> THEN 0 ELSE 2 * Len(X) - (IF TRUE THEN 0 ELSE 1)
        /\ \A k \in 1..Len(P) : P[k] = IF k % 2 = 1 THEN X[(k + 1) \div 2] ELSE Comma
    BY <2>1, <1>3, ListedElements, Zenon
  <2>3. Len(P) = 2 * Len(X)
    BY <1>1, <2>2
  <2> QED
    BY <2>2, <2>3
<1>7. PICK d \in {0, 1} : d = IF closed THEN 0 ELSE 1
  OBVIOUS
<1>8. Q \in Seq(T) /\ Len(Q) = 2 * Len(Y) - d
      /\ \A k \in 1..Len(Q) : Q[k] = IF k % 2 = 1 THEN Y[(k + 1) \div 2] ELSE Comma
  <2>1. /\ Q \in Seq(S \cup {Comma})
        /\ Len(Q) = IF Y = <<>> THEN 0 ELSE 2 * Len(Y) - (IF closed THEN 0 ELSE 1)
        /\ \A k \in 1..Len(Q) : Q[k] = IF k % 2 = 1 THEN Y[(k + 1) \div 2] ELSE Comma
    BY <1>4, ListedElements, Zenon
  <2>2. Len(Q) = 2 * Len(Y) - d
    <3>1. Len(Y) = 0 => d = 0
      BY <1>1, <1>7
    <3>2. Len(Q) = IF Len(Y) = 0 THEN 0 ELSE 2 * Len(Y) - d
      BY <1>1, <1>7, <2>1
    <3> QED
      BY <1>1, <3>1, <3>2
  <2> QED
    BY <2>1, <2>2
<1>9. R \in Seq(T) /\ Len(R) = 2 * (Len(X) + Len(Y)) - d
      /\ \A k \in 1..Len(R) : R[k] = IF k % 2 = 1 THEN (X \o Y)[(k + 1) \div 2] ELSE Comma
  <2>1. /\ R \in Seq(S \cup {Comma})
        /\ Len(R) = IF (X \o Y) = <<>> THEN 0 ELSE 2 * Len((X \o Y)) - (IF closed THEN 0 ELSE 1)
        /\ \A k \in 1..Len(R) : R[k] = IF k % 2 = 1 THEN (X \o Y)[(k + 1) \div 2] ELSE Comma
    BY <1>2, <1>5, ListedElements, Zenon
  <2>2. Len(R) = 2 * (Len(X) + Len(Y)) - d
    <3>1. Len(X) + Len(Y) = 0 => d = 0
      BY <1>1, <1>7
    <3>2. Len(R) = IF Len(X \o Y) = 0 THEN 0 ELSE 2 * Len(X \o Y) - d
      BY <1>2, <1>7, <2>1
    <3> QED
      BY <1>1, <1>2, <3>1, <3>2
  <2> QED
    BY <2>1, <2>2
<1>10. P \o Q \in Seq(T) /\ Len(P \o Q) = Len(P) + Len(Q)
       /\ \A k \in 1..(Len(P) + Len(Q)) : (P \o Q)[k] = IF k <= Len(P) THEN P[k] ELSE Q[k - Len(P)]
  BY <1>6, <1>8, ConcatProperties
<1>11. PICK a \in Nat, b \in Nat : a = Len(X) /\ b = Len(Y)
  BY <1>1
<1>12. \A i \in 1..(a + b) : (X \o Y)[i] = IF i <= a THEN X[i] ELSE Y[i - a]
  BY <1>11, ConcatProperties
<1>13. ASSUME NEW k \in 1..Len(R) PROVE (P \o Q)[k] = R[k]
  <2>1. k \in Nat /\ 1 <= k /\ k <= 2 * (a + b) - d
    BY <1>9, <1>11
  <2>2. CASE k % 2 # 1
    <3>1. R[k] = Comma
      BY <1>9, <2>2
    <3>2. CASE k <= 2 * a
      BY <1>6, <1>8, <1>10, <1>11, <2>1, <2>2, <3>1, <3>2
    <3>3. CASE k > 2 * a
      <4>1. k - 2 * a \in 1..(2 * b - d) /\ (k - 2 * a) % 2 # 1
        BY <2>1, <2>2, <3>3
      <4>2. Q[k - 2 * a] = Comma
        BY <1>8, <1>11, <4>1
      <4>3. k \in 1..(Len(P) + Len(Q)) /\ ~(k <= Len(P)) /\ Len(P) = 2 * a
        BY <1>6, <1>8, <1>11, <2>1, <3>3
      <4> QED
        BY <1>10, <3>1, <4>2, <4>3
    <3>4. k <= 2 * a \/ k > 2 * a
      BY <2>1
    <3> QED
      BY <3>2, <3>3, <3>4
  <2>3. CASE k % 2 = 1
    <3>1. R[k] = (X \o Y)[(k + 1) \div 2] /\ (k + 1) \div 2 \in 1..(a + b)
      <4>1. R[k] = (X \o Y)[(k + 1) \div 2]
        BY <1>9, <2>3
      <4>2. (k + 1) \div 2 \in 1..(a + b)
        BY <2>1, <2>3
      <4> QED
        BY <4>1, <4>2
    <3>2. CASE k <= 2 * a
      <4>1. (k + 1) \div 2 <= a
        BY <2>1, <2>3, <3>2
      <4>2. R[k] = X[(k + 1) \div 2]
        BY <1>12, <3>1, <4>1
      <4>3. P[k] = X[(k + 1) \div 2]
        BY <1>6, <1>11, <2>1, <2>3, <3>2
      <4> QED
        BY <1>6, <1>8, <1>10, <1>11, <2>1, <3>2, <4>2, <4>3
    <3>3. CASE k > 2 * a
      <4>1. PICK j \in 1..(2 * b - d) : j = k - 2 * a
        BY <2>1, <3>3
      <4>2. j % 2 = 1 /\ (k + 1) \div 2 = a + (j + 1) \div 2 /\ (j + 1) \div 2 > 0
        BY <2>1, <2>3, <3>3, <4>1
      <4>3. R[k] = Y[(j + 1) \div 2]
        <5>1. PICK i \in Int : i = (j + 1) \div 2
          BY <4>1
        <5>2. (a + i) \in 1..(a + b) /\ ~(a + i <= a) /\ (a + i) - a = i
          BY <3>1, <4>2, <5>1
        <5> QED
          BY <1>12, <3>1, <4>2, <5>1, <5>2
      <4>4. Q[j] = Y[(j + 1) \div 2]
        BY <1>8, <1>11, <4>1, <4>2
      <4> QED
        BY <1>6, <1>8, <1>10, <1>11, <2>1, <3>3, <4>1, <4>3, <4>4
    <3>4. k <= 2 * a \/ k > 2 * a
      BY <2>1
    <3> QED
      BY <3>2, <3>3, <3>4
  <2> QED
    BY <2>2, <2>3
<1>14. Len(P \o Q) = Len(R)
  BY <1>1, <1>6, <1>8, <1>9, <1>10
<1>15. P \o Q = R
  BY <1>9, <1>10, <1>13, <1>14, SeqEqual
<1> QED
  BY <1>3, <1>4, <1>5, <1>15
-----------------------------------------------------------------------------
(***************************************************************************)
(* The statement of the designer's columns.                                *)
(***************************************************************************)
Entries == [item : {"column", "PRIMARY KEY", "UNIQUE"}, of : Columns]

\* What is listed of some columns.
LEMMA ItemsType ==
    ASSUME NEW what \in {"column", "PRIMARY KEY", "UNIQUE"}, NEW cols \in Seq(Columns)
    PROVE  /\ Items(what, cols) \in Seq(Entries)
           /\ cols # <<>> => Items(what, cols) # <<>>
<1>1. Len(cols) \in Nat /\ \A k \in 1..Len(cols) : cols[k] \in Columns
  BY LenProperties, ElementOfSeq
<1>2. Items(what, cols) \in [1..Len(cols) -> Entries]
  BY <1>1 DEF Items, Entries
<1>3. Items(what, cols) \in Seq(Entries) /\ Len(Items(what, cols)) = Len(cols)
  BY <1>1, <1>2, FunctionIsSeq
<1>4. cols # <<>> => Len(cols) # 0
  BY EmptySeq
<1>5. Len(cols) # 0 => Items(what, cols) # <<>>
  BY <1>3, EmptySeq
<1> QED
  BY <1>3, <1>4, <1>5

\* The columns with a key are columns.
LEMMA WithKeyType ==
    ASSUME columns \in Seq(Columns), NEW key
    PROVE  WithKey(key) \in Seq(Columns)
<1>1. {k \in 1..Len(columns) : key \in keys[columns[k]]} \in SUBSET (1..Len(columns))
  OBVIOUS
<1> QED
  BY <1>1, SublistType DEF WithKey

\* generateCreateTableSQL writes items and commas.
LEMMA StatementType ==
    ASSUME columns \in Seq(Columns)
    PROVE  GenerateCreateTableSQL \in Seq(Tokens)
<1>1. PICK A \in Seq(Entries) : A = Items("column", columns)
  BY ItemsType
<1>2. PICK B \in Seq(Entries) : B = Items("PRIMARY KEY", WithKey("primaryKey"))
  BY ItemsType, WithKeyType
<1>3. PICK C \in Seq(Entries) : C = Items("UNIQUE", WithKey("unique"))
  BY ItemsType, WithKeyType
<1>4. Tokens = Entries \cup {Comma}
  BY DEF Tokens, Entries, Comma
<1>5. Listed(A, TRUE) \in Seq(Tokens)
  BY <1>4, ListedElements
<1>6. Listed(B, C # <<>>) \in Seq(Tokens)
  <2>1. PICK closed \in BOOLEAN : closed = (C # <<>>)
    OBVIOUS
  <2> QED
    BY <1>4, <2>1, ListedElements
<1>7. Listed(C, FALSE) \in Seq(Tokens)
  BY <1>4, ListedElements
<1>8. GenerateCreateTableSQL = Listed(A, TRUE) \o Listed(B, C # <<>>) \o Listed(C, FALSE)
  BY <1>1, <1>2, <1>3 DEF GenerateCreateTableSQL
<1> QED
  BY <1>5, <1>6, <1>7, <1>8, ConcatProperties

\* In the statement of a table with a key, single commas separate the items.
LEMMA StatementSeparated ==
    ASSUME columns \in Seq(Columns),
           WithKey("primaryKey") # <<>> \/ WithKey("unique") # <<>>
    PROVE  GenerateCreateTableSQL =
             Listed(Items("column", columns) \o Items("PRIMARY KEY", WithKey("primaryKey"))
                    \o Items("UNIQUE", WithKey("unique")), FALSE)
<1>1. PICK A \in Seq(Entries) : A = Items("column", columns)
  BY ItemsType
<1>2. PICK B \in Seq(Entries) : /\ B = Items("PRIMARY KEY", WithKey("primaryKey"))
                                /\ WithKey("primaryKey") # <<>> => B # <<>>
  <2>1. PICK W \in Seq(Columns) : W = WithKey("primaryKey")
    BY WithKeyType
  <2>2. Items("PRIMARY KEY", W) \in Seq(Entries) /\ (W # <<>> => Items("PRIMARY KEY", W) # <<>>)
    BY ItemsType
  <2> QED
    BY <2>1, <2>2
<1>3. PICK C \in Seq(Entries) : /\ C = Items("UNIQUE", WithKey("unique"))
                                /\ WithKey("unique") # <<>> => C # <<>>
  <2>1. PICK W \in Seq(Columns) : W = WithKey("unique")
    BY WithKeyType
  <2>2. Items("UNIQUE", W) \in Seq(Entries) /\ (W # <<>> => Items("UNIQUE", W) # <<>>)
    BY ItemsType
  <2> QED
    BY <2>1, <2>2
<1>4. B # <<>> \/ C # <<>>
  BY <1>2, <1>3
<1>5. GenerateCreateTableSQL = Listed(A, TRUE) \o Listed(B, C # <<>>) \o Listed(C, FALSE)
  BY <1>1, <1>2, <1>3 DEF GenerateCreateTableSQL
<1>6. A \o B \in Seq(Entries)
  BY ConcatProperties
<1>7. CASE C # <<>>
  <2>1. (C # <<>>) = TRUE
    BY <1>7
  <2>2. Listed(A, TRUE) \o Listed(B, TRUE) = Listed(A \o B, TRUE)
    BY ListedJoin
  <2>3. Listed(A \o B, TRUE) \o Listed(C, FALSE) = Listed(A \o B \o C, FALSE)
    BY <1>6, <1>7, ListedJoin
  <2> QED
    BY <1>1, <1>2, <1>3, <1>5, <2>1, <2>2, <2>3
<1>8. CASE C = <<>>
  <2>1. (C # <<>>) = FALSE
    BY <1>8
  <2>2. Listed(A, TRUE) \o Listed(B, FALSE) = Listed(A \o B, FALSE)
    BY <1>4, <1>8, ListedJoin
  <2>3. Listed(A \o B, FALSE) \in Seq(Entries \cup {Comma})
    BY <1>6, ListedElements
  <2>4. Listed(C, FALSE) = <<>>
    <3>1. Listed(C, FALSE) \in Seq(Entries \cup {Comma}) /\ Len(Listed(C, FALSE)) = 0
      BY <1>8, ListedElements
    <3> QED
      BY <3>1, EmptySeq
  <2>5. Listed(A \o B, FALSE) \o <<>> = Listed(A \o B, FALSE)
    BY <2>3, ConcatEmptySeq
  <2>6. A \o B \o C = A \o B
    BY <1>6, <1>8, ConcatEmptySeq
  <2> QED
    BY <1>1, <1>2, <1>3, <1>5, <2>1, <2>2, <2>4, <2>5, <2>6
<1> QED
  BY <1>7, <1>8

\* The statement depends on nothing but the columns and their keys.
LEMMA StatementKept ==
    ASSUME UNCHANGED <<columns, keys>>
    PROVE  GenerateCreateTableSQL' = GenerateCreateTableSQL
<1>1. \A key : WithKey(key)' = WithKey(key)
  BY DEF WithKey
<1> QED
  BY <1>1 DEF GenerateCreateTableSQL
-----------------------------------------------------------------------------
(***************************************************************************)
(* The steps.                                                              *)
(***************************************************************************)
Distinct(s) == \A j, k \in 1..Len(s) : s[j] = s[k] => j = k

\* addObject: of an object that is not there yet.
LEMMA AppendDistinct ==
    ASSUME NEW s \in Seq(Columns), NEW c \in Columns, Distinct(s),
           \A k \in 1..Len(s) : s[k] # c
    PROVE  Append(s, c) \in Seq(Columns) /\ Distinct(Append(s, c))
<1>1. Append(s, c) \in Seq(Columns) /\ Len(Append(s, c)) = Len(s) + 1 /\ Len(s) \in Nat
  BY AppendProperties, LenProperties
<1>2. \A k \in 1..Len(s) : Append(s, c)[k] = s[k]
  BY AppendProperties
<1>3. Append(s, c)[Len(s) + 1] = c
  BY AppendProperties
<1>4. ASSUME NEW j \in 1..(Len(s) + 1), NEW k \in 1..(Len(s) + 1), Append(s, c)[j] = Append(s, c)[k]
      PROVE  j = k
  <2>1. (j \in 1..Len(s) \/ j = Len(s) + 1) /\ (k \in 1..Len(s) \/ k = Len(s) + 1)
    BY <1>1
  <2> QED
    BY <1>2, <1>3, <1>4, <2>1 DEF Distinct
<1> QED
  BY <1>1, <1>4 DEF Distinct

\* removeObjectAtIndex: the objects after it move up.
LEMMA RemoveDistinct ==
    ASSUME NEW s \in Seq(Columns), NEW k \in 1..Len(s), Distinct(s)
    PROVE  /\ SubSeq(s, 1, k - 1) \o SubSeq(s, k + 1, Len(s)) \in Seq(Columns)
           /\ Distinct(SubSeq(s, 1, k - 1) \o SubSeq(s, k + 1, Len(s)))
<1>1. PICK n \in Nat : n = Len(s)
  BY LenProperties
<1>2. \A i \in 1..n : s[i] \in Columns
  BY <1>1, ElementOfSeq
<1>3. PICK P : P = SubSeq(s, 1, k - 1)
  OBVIOUS
<1>4. PICK Q : Q = SubSeq(s, k + 1, n)
  OBVIOUS
<1>5. k \in Int /\ 1 <= k /\ k <= n
  BY <1>1
<1>6. P \in Seq(Columns) /\ Len(P) = k - 1 /\ \A i \in 1..(k - 1) : P[i] = s[i]
  <2>1. \A i \in 1..(k - 1) : s[i] \in Columns
    BY <1>2, <1>5
  <2>2. P \in Seq(Columns) /\ Len(P) = (IF 1 <= k - 1 THEN (k - 1) - 1 + 1 ELSE 0)
        /\ \A i \in 1..((k - 1) - 1 + 1) : P[i] = s[1 + i - 1]
    BY <1>3, <1>5, <2>1, SubSeqProperties
  <2> QED
    BY <1>5, <2>2
<1>7. Q \in Seq(Columns) /\ Len(Q) = n - k /\ \A i \in 1..(n - k) : Q[i] = s[k + i]
  <2>1. \A i \in (k + 1)..n : s[i] \in Columns
    BY <1>2, <1>5
  <2>2. Q \in Seq(Columns) /\ Len(Q) = (IF k + 1 <= n THEN n - (k + 1) + 1 ELSE 0)
        /\ \A i \in 1..(n - (k + 1) + 1) : Q[i] = s[(k + 1) + i - 1]
    BY <1>4, <1>5, <2>1, SubSeqProperties
  <2> QED
    BY <1>5, <2>2
<1>8. P \o Q \in Seq(Columns) /\ Len(P \o Q) = n - 1
      /\ \A i \in 1..(n - 1) : (P \o Q)[i] = IF i < k THEN s[i] ELSE s[i + 1]
  <2>1. P \o Q \in Seq(Columns) /\ Len(P \o Q) = Len(P) + Len(Q)
    BY <1>6, <1>7, ConcatProperties
  <2>2. \A i \in 1..(Len(P) + Len(Q)) : (P \o Q)[i] = IF i <= Len(P) THEN P[i] ELSE Q[i - Len(P)]
    BY <1>6, <1>7, ConcatProperties
  <2>3. ASSUME NEW i \in 1..(n - 1) PROVE (P \o Q)[i] = IF i < k THEN s[i] ELSE s[i + 1]
    <3>1. CASE i < k
      BY <1>5, <1>6, <1>7, <2>2, <3>1
    <3>2. CASE ~(i < k)
      <4>1. i - (k - 1) \in 1..(n - k) /\ k + (i - (k - 1)) = i + 1
        BY <1>5, <3>2
      <4>2. Q[i - (k - 1)] = s[i + 1]
        BY <1>7, <4>1
      <4>3. i \in 1..(Len(P) + Len(Q)) /\ ~(i <= Len(P))
        BY <1>5, <1>6, <1>7, <3>2
      <4> QED
        BY <1>6, <2>2, <3>2, <4>2, <4>3
    <3> QED
      BY <3>1, <3>2
  <2> QED
    BY <1>5, <1>6, <1>7, <2>1, <2>3
<1>9. \A i, j \in 1..n : s[i] = s[j] => i = j
  BY <1>1 DEF Distinct
<1>10. ASSUME NEW i \in 1..(n - 1), NEW j \in 1..(n - 1), (P \o Q)[i] = (P \o Q)[j]
       PROVE  i = j
  <2>1. i \in Int /\ j \in Int /\ i \in 1..n /\ j \in 1..n /\ i + 1 \in 1..n /\ j + 1 \in 1..n
    OBVIOUS
  <2>2. (IF i < k THEN s[i] ELSE s[i + 1]) = (IF j < k THEN s[j] ELSE s[j + 1])
    BY <1>8, <1>10
  <2> QED
    BY <1>5, <1>9, <2>1, <2>2
<1>11. Distinct(P \o Q)
  BY <1>8, <1>10 DEF Distinct
<1> QED
  BY <1>1, <1>3, <1>4, <1>8, <1>11

\* The screens and what they show, without the columns.
FrontOK ==
    /\ tables \subseteq TableNames /\ listed \subseteq TableNames
    /\ screen \in {"tables", "lost", "designer", "form", "confirm", "created", "editSQL"}
    /\ tableName \in TableNames \cup {None}
    /\ created \in TableNames \cup {None}
    /\ screen \notin {"tables", "lost"} => tableName \in TableNames

\* The columns of the designer and the statement made of them.
ColumnsOK ==
    /\ columns \in Seq(Columns) /\ Distinct(columns)
    /\ keys \in [Columns -> SUBSET Keys]
    /\ editing \in Columns \cup {None}
    /\ sql \in Seq(Tokens)
    /\ StatementIsCurrent

\* The designer starts without columns.
LEMMA InitOK == Init => FrontOK /\ ColumnsOK
<1> SUFFICES ASSUME Init PROVE FrontOK /\ ColumnsOK
  OBVIOUS
<1>1. FrontOK
  BY DEF Init, FrontOK
<1>2. <<>> \in Seq(Columns) /\ <<>> \in Seq(Tokens) /\ Len(<<>>) = 0
  BY EmptySeq
<1>3. Distinct(<<>>)
  BY <1>2 DEF Distinct
<1>4. ColumnsOK
  BY <1>2, <1>3 DEF Init, ColumnsOK, StatementIsCurrent
<1> QED
  BY <1>1, <1>4

\* A table is created with the name given to the designer, and what the list
\* shows was read from the server.
LEMMA FrontKept ==
    ASSUME FrontOK, [Next]_vars
    PROVE  FrontOK'
<1> USE DEF FrontOK
<1>1. CASE Refresh
  BY <1>1 DEF Refresh, designer
<1>2. CASE Reconnect
  BY <1>2 DEF Reconnect, designer
<1>3. CASE Back
  BY <1>3 DEF Back, LeaveDesigner
<1>4. ASSUME NEW name \in TableNames, NewTable(name) PROVE FrontOK'
  BY <1>4 DEF NewTable
<1>5. CASE AddColumnButtonPressed
  BY <1>5 DEF AddColumnButtonPressed, designer
<1>6. CASE CancelForm
  BY <1>6 DEF CancelForm
<1>7. CASE HideForm
  BY <1>7 DEF HideForm
<1>8. ASSUME NEW c \in Columns, NEW K \in SUBSET Keys, SubmitForm(c, K) PROVE FrontOK'
  BY <1>8 DEF SubmitForm
<1>9. ASSUME NEW k \in 1..Len(columns), ColumnTapped(k) PROVE FrontOK'
  BY <1>9 DEF ColumnTapped, designer
<1>10. ASSUME NEW k \in 1..Len(columns), DeleteColumn(k) PROVE FrontOK'
  BY <1>10 DEF DeleteColumn
<1>11. CASE CreateButtonPressed
  BY <1>11 DEF CreateButtonPressed, designer
<1>12. CASE CancelCreate
  BY <1>12 DEF CancelCreate, designer
<1>13. CASE ExecuteFails
  BY <1>13 DEF ExecuteFails, designer
<1>14. CASE ExecuteSucceeds
  BY <1>14 DEF ExecuteSucceeds, designer
<1>15. CASE PopAfterCreate
  BY <1>15 DEF PopAfterCreate, LeaveDesigner
<1>16. CASE ReviewSQL
  BY <1>16 DEF ReviewSQL, designer
<1>17. CASE ExecuteEdited
  BY <1>17 DEF ExecuteEdited, designer
<1>18. CASE LeaveEditor
  BY <1>18 DEF LeaveEditor, designer
<1>19. CASE UNCHANGED vars
  BY <1>19 DEF vars
<1> QED
  BY <1>1, <1>2, <1>3, <1>4, <1>5, <1>6, <1>7, <1>8, <1>9, <1>10, <1>11, <1>12, <1>13,
     <1>14, <1>15, <1>16, <1>17, <1>18, <1>19 DEF Next

\* The form reports to the designer whenever it disappears; a column is added
\* only by the report of a new one, and a statement is shown only of the
\* columns as they are.
LEMMA ColumnsKept ==
    ASSUME ColumnsOK, [Next]_vars
    PROVE  ColumnsOK'
<1> USE DEF ColumnsOK
<1>0. /\ <<>> \in Seq(Columns) /\ <<>> \in Seq(Tokens) /\ Distinct(<<>>)
      /\ [c \in Columns |-> {}] \in [Columns -> SUBSET Keys]
  <2>1. <<>> \in Seq(Columns) /\ <<>> \in Seq(Tokens) /\ Len(<<>>) = 0
    BY EmptySeq
  <2> QED
    BY <2>1 DEF Distinct
<1>1. CASE Refresh
  BY <1>1 DEF Refresh, designer, StatementIsCurrent
<1>2. CASE Reconnect
  BY <1>2 DEF Reconnect, designer, StatementIsCurrent
<1>3. CASE Back
  BY <1>0, <1>3 DEF Back, LeaveDesigner, StatementIsCurrent
<1>4. ASSUME NEW name \in TableNames, NewTable(name) PROVE ColumnsOK'
  BY <1>0, <1>4 DEF NewTable, StatementIsCurrent
<1>5. CASE AddColumnButtonPressed
  BY <1>5 DEF AddColumnButtonPressed, designer, StatementIsCurrent
<1>6. CASE CancelForm
  BY <1>6 DEF CancelForm, ColumnWasCreated, StatementIsCurrent
<1>7. CASE HideForm
  BY <1>7 DEF HideForm, ColumnWasCreated, StatementIsCurrent
<1>8. ASSUME NEW c \in Columns, NEW K \in SUBSET Keys, SubmitForm(c, K) PROVE ColumnsOK'
  <2>1. keys' \in [Columns -> SUBSET Keys] /\ editing' = None /\ sql' = sql /\ screen' = "designer"
    BY <1>8 DEF SubmitForm
  <2>2. columns' \in Seq(Columns) /\ Distinct(columns')
    <3>1. CASE editing = None
      <4>1. columns' = Append(columns, c) /\ \A k \in 1..Len(columns) : columns[k] # c
        BY <1>8, <3>1, DesignerAssumption DEF SubmitForm, ColumnWasCreated, DesignerAssumption
      <4> QED
        BY <4>1, AppendDistinct
    <3>2. CASE editing # None
      BY <1>8, <3>2 DEF SubmitForm, ColumnWasCreated
    <3> QED
      BY <3>1, <3>2
  <2> QED
    BY <2>1, <2>2 DEF StatementIsCurrent
<1>9. ASSUME NEW k \in 1..Len(columns), ColumnTapped(k) PROVE ColumnsOK'
  BY <1>9, ElementOfSeq DEF ColumnTapped, designer, StatementIsCurrent
<1>10. ASSUME NEW k \in 1..Len(columns), DeleteColumn(k) PROVE ColumnsOK'
  <2>1. columns' \in Seq(Columns) /\ Distinct(columns')
    BY <1>10, RemoveDistinct DEF DeleteColumn
  <2>2. keys' \in [Columns -> SUBSET Keys] /\ editing' = editing /\ sql' = sql /\ screen' = "designer"
    BY <1>10 DEF DeleteColumn
  <2> QED
    BY <2>1, <2>2 DEF StatementIsCurrent
<1>11. CASE CreateButtonPressed
  <2>1. GenerateCreateTableSQL' = GenerateCreateTableSQL
    BY <1>11, StatementKept DEF CreateButtonPressed, designer
  <2>2. GenerateCreateTableSQL \in Seq(Tokens)
    BY StatementType
  <2> QED
    BY <1>11, <2>1, <2>2 DEF CreateButtonPressed, designer, StatementIsCurrent
<1>12. CASE CancelCreate
  BY <1>0, <1>12 DEF CancelCreate, designer, StatementIsCurrent
<1>13. CASE ExecuteFails
  BY <1>0, <1>13 DEF ExecuteFails, designer, StatementIsCurrent
<1>14. CASE ExecuteSucceeds
  BY <1>14 DEF ExecuteSucceeds, designer, StatementIsCurrent
<1>15. CASE PopAfterCreate
  BY <1>0, <1>15 DEF PopAfterCreate, LeaveDesigner, StatementIsCurrent
<1>16. CASE ReviewSQL
  BY <1>16 DEF ReviewSQL, designer, StatementIsCurrent
<1>17. CASE ExecuteEdited
  BY <1>17 DEF ExecuteEdited, designer, StatementIsCurrent
<1>18. CASE LeaveEditor
  BY <1>0, <1>18 DEF LeaveEditor, designer, StatementIsCurrent
<1>19. CASE UNCHANGED vars
  BY <1>19, StatementKept DEF vars, StatementIsCurrent
<1> QED
  BY <1>1, <1>2, <1>3, <1>4, <1>5, <1>6, <1>7, <1>8, <1>9, <1>10, <1>11, <1>12, <1>13,
     <1>14, <1>15, <1>16, <1>17, <1>18, <1>19 DEF Next
-----------------------------------------------------------------------------
(***************************************************************************)
(* The theorems.                                                           *)
(***************************************************************************)
IInv == FrontOK /\ ColumnsOK

\* The inductive invariant holds whatever is added, edited, deleted and created
\* in the designer (NewMySQLTableViewController.m).
THEOREM Invariant == Spec => []IInv
<1>1. Init => IInv
  BY InitOK DEF IInv
<1>2. IInv /\ [Next]_vars => IInv'
  BY FrontKept, ColumnsKept DEF IInv
<1> QED
  BY <1>1, <1>2, PTL DEF Spec

\* Every variable keeps its type, the statement that the three loops of
\* generateCreateTableSQL put together included.
THEOREM TypeCorrect == Spec => []TypeOK
<1>1. IInv => TypeOK
  BY DEF IInv, FrontOK, ColumnsOK, TypeOK
<1> QED
  BY <1>1, Invariant, PTL

\* columnWasCreated: never puts an object into _columns that is there already,
\* however often the form disappears and reports.
THEOREM NoColumnTwice == Spec => []ColumnsDistinct
<1>1. IInv => ColumnsDistinct
  BY DEF IInv, ColumnsOK, Distinct, ColumnsDistinct
<1> QED
  BY <1>1, Invariant, PTL

\* The statement that the alert shows of a table with a key has a single comma
\* between any two items and none at its end, for any number of columns and any
\* of them keyed.
THEOREM CommasRight == Spec => []KeyedSQLSeparated
<1>1. IInv => KeyedSQLSeparated
  BY StatementSeparated DEF IInv, ColumnsOK, StatementIsCurrent, KeyedSQLSeparated
<1> QED
  BY <1>1, Invariant, PTL
=============================================================================
