------------------------- MODULE SFTPBrowser_proofs -------------------------
(***************************************************************************)
(* Proofs about the file manager, for every tree of names and every login  *)
(* directory.  The texts the helper keeps have one of a few shapes         *)
(* (Shape); on these the edits of stepIntoDirectory: and                   *)
(* stepOutOfDirectory go one name down or up, so the browser implements    *)
(* the working directory of WorkingDirectory.tla.                          *)
(***************************************************************************)
EXTENDS SFTPBrowser, FiniteSetTheorems, FunctionTheorems, SequenceTheorems, TLAPS
-----------------------------------------------------------------------------
(***************************************************************************)
(* What a loop keeps of an array.                                          *)
(***************************************************************************)
\* A function on an initial interval of the positive numbers is a sequence.
LEMMA FunctionIsSeq ==
    ASSUME NEW S, NEW n \in Nat, NEW f \in [1..n -> S]
    PROVE  f \in Seq(S) /\ Len(f) = n
<1>1. f \in Seq(S)
  BY SeqDef
<1>2. 1..n = 1..Len(f) /\ Len(f) \in Nat
  BY <1>1, LenProperties
<1> QED
  BY <1>1, <1>2

UpTo(I, i) == {j \in I : j <= i}
Increasing(p, m) == \A j, k \in 1..m : j < k => p[j] < p[k]

\* p lists the m indexes in I, in their order.
Enumerates(p, m, I) ==
    /\ m \in Nat /\ I \subseteq Int /\ p \in [1..m -> I]
    /\ Increasing(p, m)
    /\ \A i \in I : \E k \in 1..m : p[k] = i

\* The first k members of an increasing list of indexes are k, and they are the
\* ones up to the k-th.
LEMMA CountUpTo ==
    ASSUME NEW m, NEW I, NEW p, Enumerates(p, m, I), NEW k \in 1..m
    PROVE  Cardinality(UpTo(I, p[k])) = k
<1> DEFINE T == {j \in I : j <= p[k]}
           f == [j \in 1..k |-> p[j]]
<1> USE DEF Enumerates
<1>0. \A i \in 1..m : p[i] \in Int
  OBVIOUS
<1>1. \A i, j \in 1..m : i <= j => p[i] <= p[j]
  BY <1>0 DEF Increasing
<1>2. \A i, j \in 1..m : p[i] <= p[j] => i <= j
  BY <1>0 DEF Increasing
<1>3. f \in [1..k -> T]
  <2>1. ASSUME NEW j \in 1..k PROVE p[j] \in T
    <3>1. j \in 1..m /\ j <= k
      OBVIOUS
    <3> QED
      BY <1>1, <3>1
  <2> QED
    BY <2>1
<1>4. \A i, j \in 1..k : f[i] = f[j] => i = j
  <2>1. SUFFICES ASSUME NEW i \in 1..k, NEW j \in 1..k, p[i] = p[j] PROVE i = j
    OBVIOUS
  <2>2. i \in 1..m /\ j \in 1..m
    OBVIOUS
  <2> QED
    BY <1>0, <1>2, <2>1, <2>2
<1>5. \A t \in T : \E j \in 1..k : f[j] = t
  <2>1. SUFFICES ASSUME NEW t \in T PROVE \E j \in 1..k : p[j] = t
    OBVIOUS
  <2>2. PICK j \in 1..m : p[j] = t
    OBVIOUS
  <2>3. j <= k
    BY <1>2, <2>2
  <2> QED
    BY <2>2, <2>3
<1>6. f \in Bijection(1..k, T)
  <2> HIDE DEF f, T
  <2> QED
    BY <1>3, <1>4, <1>5, Fun_IsBij
<1>7. ExistsBijection(1..k, T)
  BY <1>6, Fun_ExistsBij
<1>8. Cardinality(T) = k
  BY <1>7, FS_CountingElements
<1> QED
  BY <1>8 DEF UpTo

\* What is kept is found by any increasing list of the indexes kept.
LEMMA SublistIs ==
    ASSUME NEW s, NEW m, NEW I, NEW p, Enumerates(p, m, I), NEW S, \A i \in I : s[i] \in S
    PROVE  /\ Sublist(s, I) \in Seq(S) /\ Len(Sublist(s, I)) = m
           /\ \A k \in 1..m : Sublist(s, I)[k] = s[p[k]]
<1>1. \A k \in 1..m : Cardinality(UpTo(I, p[k])) = k
  BY CountUpTo
<1> USE DEF Enumerates
<1>2. ASSUME NEW k \in 1..m PROVE Nth(I, k) = p[k]
  <2>1. p[k] \in I
    OBVIOUS
  <2>2. \A i \in I : Cardinality(UpTo(I, i)) = k => i = p[k]
    <3>1. SUFFICES ASSUME NEW i \in I, Cardinality(UpTo(I, i)) = k PROVE i = p[k]
      OBVIOUS
    <3>2. PICK l \in 1..m : p[l] = i
      OBVIOUS
    <3>3. l = k
      BY <1>1, <3>1, <3>2
    <3> QED
      BY <3>2, <3>3
  <2> QED
    BY <1>1, <2>1, <2>2 DEF Nth, UpTo
<1>3. Cardinality(I) = m
  <2>1. \A i, j \in 1..m : p[i] = p[j] => i = j
    BY <1>1
  <2>2. p \in Bijection(1..m, I)
    BY <2>1, Fun_IsBij
  <2>3. ExistsBijection(1..m, I)
    BY <2>2, Fun_ExistsBij
  <2> QED
    BY <2>3, FS_CountingElements
<1>4. Sublist(s, I) = [k \in 1..m |-> s[p[k]]]
  BY <1>2, <1>3 DEF Sublist
<1>5. Sublist(s, I) \in [1..m -> S] /\ \A k \in 1..m : Sublist(s, I)[k] = s[p[k]]
  BY <1>4
<1> QED
  BY <1>5, FunctionIsSeq
-----------------------------------------------------------------------------
(***************************************************************************)
(* The texts the helper keeps.                                             *)
(***************************************************************************)
Blank == ""
Components == Names \cup {Blank}

\* A path of names behind a slashes and before one: "/a/b/", or "//a/b/" after
\* a login at the root; no slash at all is the text of a shell that printed
\* nothing.
Shape(text, a, path) ==
    /\ path \in Seq(Names) /\ a \in 0..2 /\ (a = 0 => Len(path) = 0)
    /\ text \in Seq(Components) /\ Len(text) = a + Len(path) + 1
    /\ \A k \in 1..Len(text) :
          text[k] = IF a < k /\ k <= a + Len(path) THEN path[k - a] ELSE Blank

\* No name is empty.
LEMMA BlankIsNoName == Blank \notin Names
  BY BrowserAssumption DEF BrowserAssumption, Blank

\* The server makes of such a text the path in it.
LEMMA DirectoryOfShape ==
    ASSUME NEW text, NEW a, NEW path, Shape(text, a, path)
    PROVE  Directory(text) = path
<1>1. PICK n \in Nat : n = Len(path)
  BY LenProperties DEF Shape
<1>2. a \in Int /\ 0 <= a /\ Len(text) = a + n + 1
  BY <1>1 DEF Shape
<1>3. \A k \in 1..(a + n + 1) : text[k] = IF a < k /\ k <= a + n THEN path[k - a] ELSE Blank
  BY <1>1, <1>2 DEF Shape
<1>4. \A k \in 1..n : path[k] \in Names /\ path[k] # Blank
  BY <1>1, ElementOfSeq, BlankIsNoName DEF Shape
<1> DEFINE I == {k \in 1..Len(text) : text[k] # ""}
           p == [k \in 1..n |-> a + k]
<1>5. I = (a + 1)..(a + n)
  <2>1. ASSUME NEW k \in 1..(a + n + 1) PROVE (text[k] # Blank) <=> (a < k /\ k <= a + n)
    <3>1. CASE a < k /\ k <= a + n
      BY <1>2, <1>3, <1>4, <3>1, k - a \in 1..n
    <3>2. CASE ~(a < k /\ k <= a + n)
      BY <1>3, <3>2
    <3> QED
      BY <3>1, <3>2
  <2>2. I = {k \in 1..(a + n + 1) : text[k] # Blank}
    BY <1>2 DEF Blank
  <2> HIDE DEF I
  <2> QED
    BY <1>2, <2>1, <2>2
<1> HIDE DEF I
<1>6. p \in [1..n -> I] /\ Increasing(p, n) /\ I \subseteq Int
  BY <1>2, <1>5 DEF Increasing
<1>7. \A i \in I : \E k \in 1..n : p[k] = i
  <2>1. SUFFICES ASSUME NEW i \in I PROVE \E k \in 1..n : p[k] = i
    OBVIOUS
  <2>2. i - a \in 1..n /\ a + (i - a) = i
    BY <1>2, <1>5
  <2>3. p[i - a] = i
    BY <2>2
  <2> QED
    BY <2>2, <2>3
<1>8. /\ Sublist(text, I) \in Seq(Components) /\ Len(Sublist(text, I)) = n
      /\ \A k \in 1..n : Sublist(text, I)[k] = text[p[k]]
  <2>1. \A i \in I : text[i] \in Components
    <3>1. I \subseteq 1..Len(text)
      BY DEF I
    <3> QED
      BY <3>1, ElementOfSeq DEF Shape
  <2> HIDE DEF p
  <2>2. Enumerates(p, n, I)
    BY <1>6, <1>7 DEF Enumerates
  <2> QED
    BY <2>1, <2>2, SublistIs
<1>9. \A k \in 1..n : text[p[k]] = path[k]
  <2>1. SUFFICES ASSUME NEW k \in 1..n PROVE text[a + k] = path[k]
    OBVIOUS
  <2>2. a + k \in 1..(a + n + 1) /\ a < a + k /\ a + k <= a + n /\ (a + k) - a = k
    BY <1>2
  <2> QED
    BY <1>3, <2>2
<1>10. path \in Seq(Components)
  BY SeqMonotonic DEF Shape, Components
<1>11. Sublist(text, I) = path
  <2> HIDE DEF p
  <2> QED
    BY <1>1, <1>8, <1>9, <1>10, SeqEqual
<1> QED
  BY <1>11 DEF Directory, I

\* Which empty components the replacement of "//" by "/" drops: the first of a
\* run, not the second.
LEMMA DropRules ==
    ASSUME NEW t, Len(t) \in Nat
    PROVE  /\ \A k : t[k] # Blank => k \notin Dropped(t)
           /\ \A k \in 2..(Len(t) - 1) :
                 t[k] = Blank /\ (k = 2 \/ t[k - 1] # Blank) => k \in Dropped(t)
           /\ t[2] = Blank /\ t[3] = Blank => 3 \notin Dropped(t)
<1> DEFINE B(k) == BlanksUpTo(t, k)
<1>0. \A k : B(k) = {j \in 2..k : \A i \in j..k : t[i] = Blank}
  BY DEF BlanksUpTo, Blank
<1>1. Dropped(t) = {k \in 2..(Len(t) - 1) : Cardinality(B(k)) % 2 = 1}
  BY DEF Dropped
<1> HIDE DEF B
<1>2. ASSUME NEW k \in 2..(Len(t) - 1), t[k] # Blank PROVE Cardinality(B(k)) = 0
  <2>1. ASSUME NEW j \in B(k) PROVE FALSE
    <3>1. j \in 2..k /\ k \in j..k
      BY <1>0, <2>1
    <3> QED
      BY <1>0, <1>2, <2>1, <3>1
  <2>2. B(k) = {}
    BY <2>1
  <2> QED
    BY <2>2, FS_EmptySet
<1>3. ASSUME NEW k \in 2..(Len(t) - 1), t[k] = Blank, k = 2 \/ t[k - 1] # Blank
      PROVE  Cardinality(B(k)) = 1
  <2>1. k \in B(k)
    <3>1. \A i \in k..k : i = k
      OBVIOUS
    <3>2. k \in 2..k
      OBVIOUS
    <3> QED
      BY <1>0, <1>3, <3>1, <3>2
  <2>2. ASSUME NEW j \in B(k) PROVE j = k
    <3>1. j \in 2..k /\ \A i \in j..k : t[i] = Blank
      BY <1>0, <2>2
    <3>2. CASE j # k
      <4>1. k # 2 /\ k - 1 \in j..k
        BY <3>1, <3>2
      <4> QED
        BY <1>3, <3>1, <4>1
    <3> QED
      BY <3>2
  <2>3. B(k) = {k}
    BY <2>1, <2>2
  <2> QED
    BY <2>3, FS_Singleton
<1>4. ASSUME t[2] = Blank, t[3] = Blank PROVE Cardinality(B(3)) = 2
  <2>1. B(3) = {2} \cup {3}
    <3>1. \A i \in 2..3 : i = 2 \/ i = 3
      OBVIOUS
    <3>2. \A i \in 3..3 : i = 3
      OBVIOUS
    <3>3. 2 \in 2..3 /\ 3 \in 2..3
      OBVIOUS
    <3> QED
      BY <1>0, <1>4, <3>1, <3>2, <3>3
  <2>2. IsFiniteSet({2}) /\ Cardinality({2}) = 1
    BY FS_Singleton
  <2>3. PICK T : T = {2}
    OBVIOUS
  <2>4. IsFiniteSet(T) /\ Cardinality(T) = 1 /\ 3 \notin T
    BY <2>2, <2>3
  <2>5. Cardinality(T \cup {3}) = Cardinality(T) + 1
    BY <2>4, FS_AddElement
  <2>6. B(3) = T \cup {3}
    BY <2>1, <2>3
  <2> QED
    BY <2>4, <2>5, <2>6
<1>5. \A k : t[k] # Blank => k \notin Dropped(t)
  BY <1>1, <1>2
<1>6. \A k \in 2..(Len(t) - 1) :
         t[k] = Blank /\ (k = 2 \/ t[k - 1] # Blank) => k \in Dropped(t)
  BY <1>1, <1>3
<1>7. t[2] = Blank /\ t[3] = Blank => 3 \notin Dropped(t)
  BY <1>1, <1>4
<1> QED
  BY <1>5, <1>6, <1>7

KeptOf(U) == (1..Len(U)) \ Dropped(U)

\* The components of U that p lists are those of a text of q behind b slashes.
Picks(U, p, b, q) ==
    \A k \in 1..(b + Len(q) + 1) :
       U[p[k]] = IF b < k /\ k <= b + Len(q) THEN q[k - b] ELSE Blank

\* A text is squeezed to a shape when the components kept have that shape.
LEMMA SqueezedShape ==
    ASSUME NEW U \in Seq(Components), NEW p, NEW m,
           Enumerates(p, m, KeptOf(U)),
           NEW b \in {1, 2}, NEW q \in Seq(Names), m = b + Len(q) + 1, Picks(U, p, b, q)
    PROVE  Shape(Squeeze(U), b, q)
<1>1. PICK I : I = (1..Len(U)) \ Dropped(U)
  OBVIOUS
<1>2. Enumerates(p, m, I) /\ Squeeze(U) = Sublist(U, I)
  BY <1>1 DEF Squeeze, KeptOf
<1>3. \A i \in I : U[i] \in Components
  BY <1>1, ElementOfSeq
<1>4. /\ Sublist(U, I) \in Seq(Components) /\ Len(Sublist(U, I)) = m
      /\ \A k \in 1..m : Sublist(U, I)[k] = U[p[k]]
  BY <1>2, <1>3, SublistIs
<1>5. b \in 0..2 /\ b # 0
  OBVIOUS
<1> QED
  BY <1>2, <1>4, <1>5 DEF Shape, Picks

\* stepIntoDirectory: makes of the text of a path the text of a path one name
\* longer, whichever slashes it had.
LEMMA SteppedIntoShape ==
    ASSUME NEW text, NEW a, NEW path, Shape(text, a, path), NEW name \in Names
    PROVE  \E b \in 1..2 : Shape(SteppedInto(text, name), b, Append(path, name))
<1>1. PICK n \in Nat : n = Len(path)
  BY LenProperties DEF Shape
<1>2. a \in Int /\ 0 <= a /\ Len(text) = a + n + 1 /\ path \in Seq(Names)
      /\ text \in Seq(Components)
  BY <1>1 DEF Shape
<1>3. PICK q \in Seq(Names) : q = Append(path, name)
  BY <1>2, AppendProperties
<1>4. Len(q) = n + 1 /\ (\A k \in 1..n : q[k] = path[k]) /\ q[n + 1] = name
  BY <1>1, <1>2, <1>3, AppendProperties
<1>5. PICK V : V = <<name, Blank>>
  OBVIOUS
<1>6. V \in Seq(Components) /\ Len(V) = 2 /\ V[1] = name /\ V[2] = Blank
  BY <1>5 DEF Components
<1>7. PICK U : U = text \o V
  OBVIOUS
<1>8. /\ U \in Seq(Components) /\ Len(U) = a + n + 3
      /\ \A k \in 1..(a + n + 1) : U[k] = text[k]
      /\ U[a + n + 2] = name /\ U[a + n + 3] = Blank
  <2>1. U \in Seq(Components) /\ Len(U) = Len(text) + Len(V)
    BY <1>2, <1>6, <1>7, ConcatProperties
  <2>2. \A k \in 1..(Len(text) + Len(V)) :
           U[k] = IF k <= Len(text) THEN text[k] ELSE V[k - Len(text)]
    BY <1>2, <1>6, <1>7, ConcatProperties
  <2>3. \A k \in 1..(a + n + 3) : U[k] = IF k <= a + n + 1 THEN text[k] ELSE V[k - (a + n + 1)]
    BY <1>2, <1>6, <2>2
  <2>4. U[a + n + 2] = V[1] /\ U[a + n + 3] = V[2]
    <3>1. /\ a + n + 2 \in 1..(a + n + 3) /\ ~(a + n + 2 <= a + n + 1)
          /\ (a + n + 2) - (a + n + 1) = 1
      BY <1>2
    <3>2. /\ a + n + 3 \in 1..(a + n + 3) /\ ~(a + n + 3 <= a + n + 1)
          /\ (a + n + 3) - (a + n + 1) = 2
      BY <1>2
    <3> QED
      BY <2>3, <3>1, <3>2
  <2> QED
    BY <1>2, <1>6, <2>1, <2>3, <2>4
<1>9. \A k \in 1..(a + n + 1) : U[k] = IF a < k /\ k <= a + n THEN q[k - a] ELSE Blank
  <2>1. SUFFICES ASSUME NEW k \in 1..(a + n + 1)
                 PROVE  text[k] = IF a < k /\ k <= a + n THEN q[k - a] ELSE Blank
    BY <1>8
  <2>2. text[k] = IF a < k /\ k <= a + n THEN path[k - a] ELSE Blank
    BY <1>1, <1>2 DEF Shape
  <2>3. a < k /\ k <= a + n => k - a \in 1..n
    BY <1>2
  <2> QED
    BY <1>4, <2>2, <2>3
<1>10. (\A k \in 1..n : q[k] # Blank) /\ name # Blank
  BY <1>2, <1>4, <1>1, ElementOfSeq, BlankIsNoName
<1>11. SteppedInto(text, name) = Squeeze(U)
  BY <1>5, <1>7 DEF SteppedInto, DirectoryLabel, Blank
<1>12. Len(U) \in Nat
  BY <1>2, <1>8
<1> DEFINE I == (1..Len(U)) \ Dropped(U)
<1>13. Dropped(U) \subseteq 2..(a + n + 2)
  BY <1>2, <1>8 DEF Dropped
<1>14. CASE a = 0
  <2>1. n = 0 /\ Len(U) = 3
    BY <1>1, <1>8, <1>14 DEF Shape
  <2>2. Dropped(U) = {}
    <3>1. U[2] # Blank
      BY <1>8, <1>10, <1>14, <2>1
    <3>2. 2 \notin Dropped(U)
      BY <1>12, <3>1, DropRules
    <3>3. Dropped(U) \subseteq {2}
      BY <1>13, <1>14, <2>1
    <3> QED
      BY <3>2, <3>3
  <2> DEFINE p == [k \in 1..3 |-> k]
  <2>3. I = 1..3
    BY <2>1, <2>2
  <2>4. Enumerates(p, 3, I)
    <3> HIDE DEF I
    <3> QED
      BY <2>3 DEF Enumerates, Increasing
  <2>5. \A k \in 1..3 : U[p[k]] = IF 1 < k /\ k <= 1 + Len(q) THEN q[k - 1] ELSE Blank
    <3>1. U[1] = Blank /\ U[2] = q[1] /\ U[3] = Blank /\ Len(q) = 1
      BY <1>4, <1>8, <1>9, <1>14, <2>1
    <3>2. \A k \in 1..3 : k = 1 \/ k = 2 \/ k = 3
      OBVIOUS
    <3> QED
      BY <3>1, <3>2
  <2>6. 3 = 1 + Len(q) + 1
    BY <1>4, <2>1
  <2>7. Shape(Squeeze(U), 1, q)
    <3>1. Picks(U, p, 1, q)
      BY <2>5, <2>6 DEF Picks
    <3>2. Enumerates(p, 3, KeptOf(U))
      BY <2>4 DEF KeptOf
    <3> HIDE DEF p
    <3>3. 1 \in {1, 2} /\ U \in Seq(Components)
      BY <1>8
    <3> QED
      BY <2>6, <3>1, <3>2, <3>3, SqueezedShape
  <2> QED
    BY <1>3, <1>11, <2>7
<1>15. CASE a = 1
  <2>1. Len(U) = n + 4 /\ U[n + 3] = q[n + 1] /\ U[n + 4] = Blank
    BY <1>4, <1>8, <1>15
  <2>2. \A k \in 1..(n + 2) : U[k] = IF 1 < k /\ k <= 1 + n THEN q[k - 1] ELSE Blank
    BY <1>9, <1>15
  <2>3. \A k \in 2..(n + 1) : U[k] # Blank
    <3>1. SUFFICES ASSUME NEW k \in 2..(n + 1) PROVE U[k] # Blank
      OBVIOUS
    <3>2. k \in 1..(n + 2) /\ 1 < k /\ k <= 1 + n /\ k - 1 \in 1..n
      OBVIOUS
    <3> QED
      BY <1>10, <2>2, <3>2
  <2>4. Dropped(U) = {n + 2}
    <3>1. n + 2 \in Dropped(U)
      <4>1. n + 2 \in 2..(Len(U) - 1) /\ U[n + 2] = Blank
        BY <2>1, <2>2
      <4>2. n + 2 = 2 \/ U[(n + 2) - 1] # Blank
        BY <2>3
      <4> QED
        BY <1>12, <4>1, <4>2, DropRules
    <3>2. n + 3 \notin Dropped(U) /\ \A k \in 2..(n + 1) : k \notin Dropped(U)
      BY <1>8, <1>10, <1>12, <1>15, <2>1, <2>3, DropRules
    <3>3. Dropped(U) \subseteq 2..(n + 3)
      BY <1>13, <1>15
    <3> QED
      BY <3>1, <3>2, <3>3
  <2> DEFINE p == [k \in 1..(n + 3) |-> IF k <= n + 1 THEN k ELSE k + 1]
  <2>5. I = (1..(n + 4)) \ {n + 2}
    BY <2>1, <2>4
  <2>6. Enumerates(p, n + 3, I)
    <3> HIDE DEF I
    <3>1. n + 3 \in Nat /\ I \subseteq Int /\ p \in [1..(n + 3) -> I]
      BY <2>5
    <3>2. Increasing(p, n + 3)
      BY DEF Increasing
    <3>3. ASSUME NEW i \in I PROVE \E k \in 1..(n + 3) : p[k] = i
      <4>1. CASE i <= n + 1
        <5>1. i \in 1..(n + 3) /\ p[i] = i
          BY <2>5, <4>1
        <5> QED
          BY <5>1
      <4>2. CASE ~(i <= n + 1)
        <5>1. i - 1 \in 1..(n + 3) /\ p[i - 1] = i
          BY <2>5, <4>2
        <5> QED
          BY <5>1
      <4> QED
        BY <4>1, <4>2
    <3> QED
      BY <3>1, <3>2, <3>3 DEF Enumerates
  <2>7. \A k \in 1..(n + 3) : U[p[k]] = IF 1 < k /\ k <= 1 + Len(q) THEN q[k - 1] ELSE Blank
    <3>1. SUFFICES ASSUME NEW k \in 1..(n + 3)
                   PROVE  U[p[k]] = IF 1 < k /\ k <= n + 2 THEN q[k - 1] ELSE Blank
      BY <1>4
    <3>2. CASE k <= n + 1
      BY <2>2, <3>2
    <3>3. CASE k = n + 2
      BY <2>1, <3>3
    <3>4. CASE k = n + 3
      BY <2>1, <3>4
    <3>5. k <= n + 1 \/ k = n + 2 \/ k = n + 3
      OBVIOUS
    <3> QED
      BY <3>2, <3>3, <3>4, <3>5
  <2>8. n + 3 = 1 + Len(q) + 1
    BY <1>4
  <2>9. Shape(Squeeze(U), 1, q)
    <3>1. Picks(U, p, 1, q)
      BY <2>7, <2>8 DEF Picks
    <3>2. Enumerates(p, n + 3, KeptOf(U))
      BY <2>6 DEF KeptOf
    <3> HIDE DEF p
    <3>3. 1 \in {1, 2} /\ U \in Seq(Components)
      BY <1>8
    <3> QED
      BY <2>8, <3>1, <3>2, <3>3, SqueezedShape
  <2> QED
    BY <1>3, <1>11, <2>9
<1>16. CASE a = 2 /\ n = 0
  <2>1. Len(U) = 5 /\ U[1] = Blank /\ U[2] = Blank /\ U[3] = Blank /\ U[4] = q[1] /\ U[5] = Blank
    BY <1>4, <1>8, <1>9, <1>16
  <2>2. Dropped(U) = {2}
    <3>1. 2 \in Dropped(U) /\ 3 \notin Dropped(U)
      BY <1>12, <2>1, DropRules
    <3>2. 4 \notin Dropped(U)
      BY <1>4, <1>10, <1>12, <1>16, <2>1, DropRules
    <3>3. Dropped(U) \subseteq {2, 3, 4}
      BY <1>13, <1>16
    <3> QED
      BY <3>1, <3>2, <3>3
  <2> DEFINE p == [k \in 1..4 |-> IF k = 1 THEN 1 ELSE k + 1]
  <2>3. I = (1..5) \ {2}
    BY <2>1, <2>2
  <2>4. Enumerates(p, 4, I)
    <3> HIDE DEF I
    <3>1. I \subseteq Int /\ p \in [1..4 -> I] /\ Increasing(p, 4)
      BY <2>3 DEF Increasing
    <3>2. ASSUME NEW i \in I PROVE \E k \in 1..4 : p[k] = i
      <4>1. CASE i = 1
        BY <4>1, p[1] = 1
      <4>2. CASE i # 1
        <5>1. i - 1 \in 1..4 /\ p[i - 1] = i
          BY <2>3, <4>2
        <5> QED
          BY <5>1
      <4> QED
        BY <4>1, <4>2
    <3> QED
      BY <3>1, <3>2 DEF Enumerates
  <2>5. \A k \in 1..4 : U[p[k]] = IF 2 < k /\ k <= 2 + Len(q) THEN q[k - 2] ELSE Blank
    <3>1. \A k \in 1..4 : k = 1 \/ k = 2 \/ k = 3 \/ k = 4
      OBVIOUS
    <3>2. Len(q) = 1
      BY <1>4, <1>16
    <3> QED
      BY <2>1, <3>1, <3>2
  <2>6. 4 = 2 + Len(q) + 1
    BY <1>4, <1>16
  <2>7. Shape(Squeeze(U), 2, q)
    <3>1. Picks(U, p, 2, q)
      BY <2>5, <2>6 DEF Picks
    <3>2. Enumerates(p, 4, KeptOf(U))
      BY <2>4 DEF KeptOf
    <3> HIDE DEF p
    <3>3. 2 \in {1, 2} /\ U \in Seq(Components)
      BY <1>8
    <3> QED
      BY <2>6, <3>1, <3>2, <3>3, SqueezedShape
  <2> QED
    BY <1>3, <1>11, <2>7
<1>17. CASE a = 2 /\ n # 0
  <2>1. Len(U) = n + 5 /\ U[n + 4] = q[n + 1] /\ U[n + 5] = Blank
    BY <1>4, <1>8, <1>17
  <2>2. \A k \in 1..(n + 3) : U[k] = IF 2 < k /\ k <= 2 + n THEN q[k - 2] ELSE Blank
    BY <1>9, <1>17
  <2>3. \A k \in 3..(n + 2) : U[k] # Blank
    <3>1. SUFFICES ASSUME NEW k \in 3..(n + 2) PROVE U[k] # Blank
      OBVIOUS
    <3>2. k \in 1..(n + 3) /\ 2 < k /\ k <= 2 + n /\ k - 2 \in 1..n
      OBVIOUS
    <3> QED
      BY <1>10, <2>2, <3>2
  <2>4. Dropped(U) = {2, n + 3}
    <3>1. 2 \in Dropped(U)
      BY <1>12, <2>1, <2>2, DropRules
    <3>2. n + 3 \in Dropped(U)
      <4>1. n + 3 \in 2..(Len(U) - 1) /\ U[n + 3] = Blank
        BY <2>1, <2>2
      <4>2. U[(n + 3) - 1] # Blank
        BY <1>17, <2>3
      <4> QED
        BY <1>12, <4>1, <4>2, DropRules
    <3>3. n + 4 \notin Dropped(U) /\ \A k \in 3..(n + 2) : k \notin Dropped(U)
      BY <1>8, <1>10, <1>12, <1>17, <2>1, <2>3, DropRules
    <3>4. Dropped(U) \subseteq 2..(n + 4)
      BY <1>13, <1>17
    <3> QED
      BY <3>1, <3>2, <3>3, <3>4
  <2> DEFINE p == [k \in 1..(n + 3) |-> IF k = 1 THEN 1 ELSE IF k <= n + 1 THEN k + 1 ELSE k + 2]
  <2>5. I = (1..(n + 5)) \ {2, n + 3}
    BY <2>1, <2>4
  <2>6. Enumerates(p, n + 3, I)
    <3> HIDE DEF I
    <3>1. n + 3 \in Nat /\ I \subseteq Int /\ p \in [1..(n + 3) -> I]
      BY <2>5
    <3>2. Increasing(p, n + 3)
      BY DEF Increasing
    <3>3. ASSUME NEW i \in I PROVE \E k \in 1..(n + 3) : p[k] = i
      <4>1. CASE i = 1
        <5>1. 1 \in 1..(n + 3) /\ p[1] = 1
          OBVIOUS
        <5> QED
          BY <4>1, <5>1
      <4>2. CASE i # 1 /\ i <= n + 2
        <5>1. i - 1 \in 1..(n + 3) /\ p[i - 1] = i
          BY <2>5, <4>2
        <5> QED
          BY <5>1
      <4>3. CASE ~(i <= n + 2)
        <5>1. i - 2 \in 1..(n + 3) /\ p[i - 2] = i
          BY <1>17, <2>5, <4>3
        <5> QED
          BY <5>1
      <4> QED
        BY <4>1, <4>2, <4>3
    <3> QED
      BY <3>1, <3>2, <3>3 DEF Enumerates
  <2>7. \A k \in 1..(n + 3) : U[p[k]] = IF 1 < k /\ k <= 1 + Len(q) THEN q[k - 1] ELSE Blank
    <3>1. SUFFICES ASSUME NEW k \in 1..(n + 3)
                   PROVE  U[p[k]] = IF 1 < k /\ k <= n + 2 THEN q[k - 1] ELSE Blank
      BY <1>4
    <3>2. CASE k = 1
      BY <2>2, <3>2
    <3>3. CASE 1 < k /\ k <= n + 1
      <4>1. p[k] = k + 1 /\ k + 1 \in 1..(n + 3) /\ 2 < k + 1 /\ k + 1 <= 2 + n
            /\ (k + 1) - 2 = k - 1
        BY <3>3
      <4> QED
        BY <2>2, <3>3, <4>1
    <3>4. CASE k = n + 2
      BY <1>17, <2>1, <3>4
    <3>5. CASE k = n + 3
      BY <1>17, <2>1, <3>5
    <3>6. k = 1 \/ (1 < k /\ k <= n + 1) \/ k = n + 2 \/ k = n + 3
      OBVIOUS
    <3> QED
      BY <3>2, <3>3, <3>4, <3>5, <3>6
  <2>8. n + 3 = 1 + Len(q) + 1
    BY <1>4
  <2>9. Shape(Squeeze(U), 1, q)
    <3>1. Picks(U, p, 1, q)
      BY <2>7, <2>8 DEF Picks
    <3>2. Enumerates(p, n + 3, KeptOf(U))
      BY <2>6 DEF KeptOf
    <3> HIDE DEF p
    <3>3. 1 \in {1, 2} /\ U \in Seq(Components)
      BY <1>8
    <3> QED
      BY <2>8, <3>1, <3>2, <3>3, SqueezedShape
  <2> QED
    BY <1>3, <1>11, <2>9
<1> QED
  BY <1>14, <1>15, <1>16, <1>17 DEF Shape

\* A path of names between two slashes.
LEMMA BetweenSlashes ==
    ASSUME NEW path \in Seq(Names)
    PROVE  Shape(<<"">> \o path \o <<"">>, 1, path)
<1>1. PICK n \in Nat : n = Len(path)
  BY LenProperties
<1>2. PICK B : B = <<Blank>>
  OBVIOUS
<1>3. B \in Seq(Components) /\ Len(B) = 1 /\ B[1] = Blank
  BY <1>2 DEF Components
<1>4. path \in Seq(Components)
  BY SeqMonotonic DEF Components
<1>5. PICK L : L = B \o path
  OBVIOUS
<1>6. L \in Seq(Components) /\ Len(L) = n + 1
      /\ \A k \in 1..(n + 1) : L[k] = IF k <= 1 THEN B[k] ELSE path[k - 1]
  <2>1. L \in Seq(Components) /\ Len(L) = Len(B) + Len(path)
        /\ \A k \in 1..(Len(B) + Len(path)) :
              L[k] = IF k <= Len(B) THEN B[k] ELSE path[k - Len(B)]
    BY <1>3, <1>4, <1>5, ConcatProperties
  <2>2. Len(B) + Len(path) = n + 1
    BY <1>1, <1>3
  <2> QED
    BY <1>3, <2>1, <2>2
<1>7. PICK T : T = L \o B
  OBVIOUS
<1>8. T \in Seq(Components) /\ Len(T) = n + 2
      /\ \A k \in 1..(n + 2) : T[k] = IF k <= n + 1 THEN L[k] ELSE B[k - (n + 1)]
  <2>1. T \in Seq(Components) /\ Len(T) = Len(L) + Len(B)
        /\ \A k \in 1..(Len(L) + Len(B)) :
              T[k] = IF k <= Len(L) THEN L[k] ELSE B[k - Len(L)]
    BY <1>3, <1>6, <1>7, ConcatProperties
  <2>2. Len(L) + Len(B) = n + 2
    BY <1>3, <1>6
  <2> QED
    BY <1>6, <2>1, <2>2
<1>9. ASSUME NEW k \in 1..(n + 2)
      PROVE  T[k] = IF 1 < k /\ k <= 1 + n THEN path[k - 1] ELSE Blank
  <2>1. CASE k = 1
    BY <1>3, <1>6, <1>8, <2>1
  <2>2. CASE 1 < k /\ k <= n + 1
    BY <1>6, <1>8, <2>2
  <2>3. CASE k = n + 2
    <3>1. ~(k <= n + 1) /\ k - (n + 1) = 1
      BY <2>3
    <3> QED
      BY <1>3, <1>8, <2>3, <3>1
  <2> QED
    BY <2>1, <2>2, <2>3
<1>10. Shape(T, 1, path)
  BY <1>1, <1>8, <1>9 DEF Shape
<1> QED
  BY <1>2, <1>5, <1>7, <1>10 DEF Blank

\* stepOutOfDirectory makes of the text of a path the text of its parent, and
\* of the root the root.
LEMMA SteppedOutShape ==
    ASSUME NEW text, NEW a, NEW path, Shape(text, a, path), a # 0
    PROVE  Shape(SteppedOut(text), 1, Walk!Parent(path))
<1>1. PICK n \in Nat : n = Len(path)
  BY LenProperties DEF Shape
<1>2. a \in Int /\ 1 <= a /\ Len(text) = a + n + 1 /\ path \in Seq(Names)
  BY <1>1 DEF Shape
<1>3. \A k \in 1..(a + n + 1) : text[k] = IF a < k /\ k <= a + n THEN path[k - a] ELSE Blank
  BY <1>1, <1>2 DEF Shape
<1>4. \A k \in 1..n : path[k] \in Names
  BY <1>1, <1>2, ElementOfSeq
<1>5. PICK m \in Nat : m = IF n = 0 THEN 0 ELSE n - 1
  OBVIOUS
<1>6. PICK up \in Seq(Names) : up = Walk!Parent(path)
  <2>1. CASE path = <<>>
    BY <1>2, <2>1 DEF Walk!Parent
  <2>2. CASE path # <<>>
    <3>1. n # 0
      BY <1>1, <1>2, <2>2, EmptySeq
    <3>2. \A k \in 1..(n - 1) : path[k] \in Names
      BY <1>4
    <3>3. SubSeq(path, 1, n - 1) \in Seq(Names)
      BY <3>2, SubSeqProperties
    <3> QED
      BY <1>1, <2>2, <3>3 DEF Walk!Parent
  <2> QED
    BY <2>1, <2>2
<1>7. Len(up) = m /\ \A k \in 1..m : up[k] = path[k]
  <2>1. CASE n = 0
    <3>1. path = <<>>
      BY <1>1, <1>2, <2>1, EmptySeq
    <3>2. up = <<>>
      BY <1>6, <3>1 DEF Walk!Parent
    <3> QED
      BY <1>5, <2>1, <3>2, EmptySeq
  <2>2. CASE n # 0
    <3>1. path # <<>>
      BY <1>1, <2>2, EmptySeq
    <3>2. up = SubSeq(path, 1, n - 1) /\ m = n - 1
      BY <1>1, <1>5, <1>6, <2>2, <3>1 DEF Walk!Parent
    <3>3. \A k \in 1..(n - 1) : path[k] \in Names
      BY <1>4
    <3>4. Len(up) = (IF 1 <= n - 1 THEN (n - 1) - 1 + 1 ELSE 0)
          /\ \A k \in 1..((n - 1) - 1 + 1) : up[k] = path[1 + k - 1]
      BY <3>2, <3>3, SubSeqProperties
    <3> QED
      BY <2>2, <3>2, <3>4
  <2> QED
    BY <2>1, <2>2
<1> DEFINE I == {k \in 1..(Len(text) - 2) : text[k] \notin {"", " "}}
           p == [k \in 1..m |-> a + k]
<1>8. I = (a + 1)..(a + m)
  <2>1. PICK blanks : blanks = {"", " "}
    OBVIOUS
  <2>2. Blank \in blanks /\ \A k \in 1..n : path[k] \notin blanks
    BY <1>4, <2>1, BrowserAssumption DEF BrowserAssumption, Blank
  <2>3. I = {k \in 1..(a + n - 1) : text[k] \notin blanks}
    <3>1. Len(text) - 2 = a + n - 1
      BY <1>2
    <3> QED
      BY <2>1, <3>1, Zenon
  <2> HIDE DEF I
  <2>4. ASSUME NEW k \in 1..(a + n - 1)
        PROVE  (text[k] \notin blanks) <=> (a < k /\ k <= a + n)
    <3>1. k \in 1..(a + n + 1)
      BY <1>2
    <3>2. CASE a < k /\ k <= a + n
      <4>1. k - a \in 1..n
        BY <1>2, <3>2
      <4> QED
        BY <1>3, <2>2, <3>1, <3>2, <4>1
    <3>3. CASE ~(a < k /\ k <= a + n)
      BY <1>3, <2>2, <3>1, <3>3
    <3> QED
      BY <3>2, <3>3
  <2>5. I = {k \in 1..(a + n - 1) : a < k /\ k <= a + n}
    BY <2>3, <2>4
  <2> QED
    BY <1>2, <1>5, <2>5
<1> HIDE DEF I
<1>9. Enumerates(p, m, I)
  <2>1. m \in Nat /\ I \subseteq Int /\ p \in [1..m -> I] /\ Increasing(p, m)
    BY <1>2, <1>8 DEF Increasing
  <2>2. ASSUME NEW i \in I PROVE \E k \in 1..m : p[k] = i
    <3>1. i - a \in 1..m /\ a + (i - a) = i
      BY <1>2, <1>8
    <3>2. p[i - a] = i
      BY <3>1
    <3> QED
      BY <3>1, <3>2
  <2> QED
    BY <2>1, <2>2 DEF Enumerates
<1>10. \A k \in 1..m : p[k] \in 1..(a + n + 1) /\ text[p[k]] = up[k]
  <2>1. SUFFICES ASSUME NEW k \in 1..m PROVE a + k \in 1..(a + n + 1) /\ text[a + k] = up[k]
    OBVIOUS
  <2>2. a + k \in 1..(a + n + 1) /\ a < a + k /\ a + k <= a + n /\ (a + k) - a = k
    BY <1>2, <1>5
  <2>3. text[a + k] = path[k]
    BY <1>3, <2>2
  <2> QED
    BY <1>7, <2>2, <2>3
<1>11. \A i \in I : text[i] \in Names
  <2> SUFFICES ASSUME NEW i \in I PROVE text[i] \in Names
    OBVIOUS
  <2>1. i \in 1..(a + n + 1) /\ a < i /\ i <= a + n /\ i - a \in 1..n
    BY <1>2, <1>5, <1>8
  <2> QED
    BY <1>3, <1>4, <2>1
<1>12. /\ Sublist(text, I) \in Seq(Names) /\ Len(Sublist(text, I)) = m
       /\ \A k \in 1..m : Sublist(text, I)[k] = text[p[k]]
  <2> HIDE DEF p
  <2> QED
    BY <1>9, <1>11, SublistIs
<1>13. Sublist(text, I) = up
  <2> HIDE DEF p
  <2> QED
    BY <1>7, <1>10, <1>12, SeqEqual
<1>14. SteppedOut(text) = <<"">> \o up \o <<"">>
  BY <1>13 DEF SteppedOut, I
<1> QED
  BY <1>6, <1>14, BetweenSlashes

\* The text after initWithSession: is that of a login directory or of the
\* root; without any slash only if `pwd` printed nothing.
LEMMA LoginShape ==
    ASSUME home \in Homes, shell \in {"prints", "silent"}, NEW text \in LoginTexts
    PROVE  \E a \in 0..2, path \in Homes \cup {<<>>} :
              Shape(text, a, path) /\ (a = 0 => shell = "silent")
<1>1. <<>> \in Seq(Names) /\ <<>> \in Seq(Components) /\ Len(<<>>) = 0
  BY EmptySeq
<1>2. CASE text = <<"", "">>
  <2>1. PICK T : T = <<Blank, Blank>>
    OBVIOUS
  <2>2. T \in Seq(Components) /\ Len(T) = 2 /\ T[1] = Blank /\ T[2] = Blank
    BY <2>1 DEF Components
  <2>3. \A k \in 1..2 : T[k] = Blank
    BY <2>2
  <2>4. Shape(T, 1, <<>>)
    BY <1>1, <2>2, <2>3 DEF Shape
  <2>5. text = T
    BY <1>2, <2>1 DEF Blank
  <2> QED
    BY <2>4, <2>5
<1>3. CASE shell = "prints" /\ text = HomeText /\ home = <<>>
  <2>1. PICK T : T = <<Blank, Blank, Blank>>
    OBVIOUS
  <2>2. T \in Seq(Components) /\ Len(T) = 3 /\ T[1] = Blank /\ T[2] = Blank /\ T[3] = Blank
    BY <2>1 DEF Components
  <2>3. \A k \in 1..3 : T[k] = Blank
    BY <2>2
  <2>4. Shape(T, 2, <<>>)
    BY <1>1, <2>2, <2>3 DEF Shape
  <2>5. text = T
    BY <1>3, <2>1 DEF Blank, HomeText
  <2> QED
    BY <2>4, <2>5
<1>4. CASE shell = "prints" /\ text = HomeText /\ home # <<>>
  <2>1. home \in Seq(Names)
    BY BrowserAssumption DEF BrowserAssumption
  <2>2. Shape(text, 1, home)
    BY <1>4, <2>1, BetweenSlashes DEF HomeText
  <2> QED
    BY <2>2
<1>5. CASE shell = "silent" /\ text = <<"">>
  <2>1. PICK T : T = <<Blank>>
    OBVIOUS
  <2>2. T \in Seq(Components) /\ Len(T) = 1 /\ T[1] = Blank
    BY <2>1 DEF Components
  <2>3. \A k \in 1..1 : T[k] = Blank
    BY <2>2
  <2>4. Shape(T, 0, <<>>)
    BY <1>1, <2>2, <2>3 DEF Shape
  <2>5. text = T
    BY <1>5, <2>1 DEF Blank
  <2>6. 0 \in 0..2
    OBVIOUS
  <2>7. <<>> \in Homes \cup {<<>>}
    OBVIOUS
  <2> QED
    BY <1>5, <2>4, <2>5, <2>6, <2>7, Zenon
<1> QED
  BY <1>2, <1>3, <1>4, <1>5 DEF LoginTexts
-----------------------------------------------------------------------------
(***************************************************************************)
(* The navigation stack.                                                   *)
(***************************************************************************)
\* The screens as they are pushed.
Order == <<"list", "overview", "sftp", "file">>

\* The stack is n screens of that order, the first o left out: the button
\* "close" makes the second screen the only one.
At(s, o, n) ==
    /\ o \in 0..2 /\ n \in 1..(4 - o)
    /\ s \in Seq(Screens) /\ Len(s) = n
    /\ \A k \in 1..n : s[k] = Order[o + k]

HasBrowser(s) == \E k \in 1..Len(s) : s[k] = "sftp"

\* The screens of the order.
LEMMA OrderIs ==
    /\ Order[1] = "list" /\ Order[2] = "overview" /\ Order[3] = "sftp" /\ Order[4] = "file"
    /\ \A k \in 1..4 : Order[k] \in Screens
    /\ \A k \in 1..4 : Order[k] = "list" => k = 1
    /\ \A k \in 1..4 : Order[k] = "overview" => k = 2
    /\ \A k \in 1..4 : Order[k] = "sftp" => k = 3
    /\ \A k \in 1..4 : Order[k] = "file" => k = 4
<1>1. Order[1] = "list" /\ Order[2] = "overview" /\ Order[3] = "sftp" /\ Order[4] = "file"
  BY DEF Order
<1>2. \A k \in 1..4 : k = 1 \/ k = 2 \/ k = 3 \/ k = 4
  OBVIOUS
<1> QED
  BY <1>1, <1>2 DEF Screens

\* Which screen is in front, and whether the browser is on the stack.
LEMMA FrontOf ==
    ASSUME NEW s, NEW o, NEW n, At(s, o, n)
    PROVE  /\ o + n \in 1..4 /\ s[Len(s)] = Order[o + n]
           /\ HasBrowser(s) <=> o + n >= 3
<1>1. o \in 0..2 /\ n \in Int /\ 1 <= n /\ n <= 4 - o /\ Len(s) = n
  BY DEF At
<1>2. \A k \in 1..n : s[k] = Order[o + k] /\ o + k \in 1..4
  BY <1>1 DEF At
<1>3. s[Len(s)] = Order[o + n]
  BY <1>1, <1>2
<1>4. ASSUME HasBrowser(s) PROVE o + n >= 3
  <2>1. PICK k \in 1..n : s[k] = "sftp"
    BY <1>1, <1>4 DEF HasBrowser
  <2>2. o + k = 3
    BY <1>2, <2>1, OrderIs
  <2> QED
    BY <1>1, <2>2
<1>5. ASSUME o + n >= 3 PROVE HasBrowser(s)
  <2>1. 3 - o \in 1..n /\ o + (3 - o) = 3
    BY <1>1, <1>5
  <2>2. s[3 - o] = "sftp"
    BY <1>2, <2>1, OrderIs
  <2> QED
    BY <1>1, <2>1, <2>2 DEF HasBrowser
<1> QED
  BY <1>1, <1>3, <1>4, <1>5

\* A screen is pushed on the one before it in the order.
LEMMA PushAt ==
    ASSUME NEW s, NEW o, NEW n, At(s, o, n), NEW screen, o + n < 4, screen = Order[o + n + 1]
    PROVE  At(Append(s, screen), o, n + 1)
<1>1. o \in 0..2 /\ n \in Int /\ 1 <= n /\ n <= 4 - o /\ Len(s) = n /\ s \in Seq(Screens)
  BY DEF At
<1>2. screen \in Screens
  BY <1>1, OrderIs
<1>3. Append(s, screen) \in Seq(Screens) /\ Len(Append(s, screen)) = n + 1
      /\ (\A k \in 1..n : Append(s, screen)[k] = s[k]) /\ Append(s, screen)[n + 1] = screen
  BY <1>1, <1>2, AppendProperties
<1>4. \A k \in 1..(n + 1) : Append(s, screen)[k] = Order[o + k]
  <2>1. SUFFICES ASSUME NEW k \in 1..(n + 1) PROVE Append(s, screen)[k] = Order[o + k]
    OBVIOUS
  <2>2. CASE k = n + 1
    <3>1. o + k = o + n + 1
      BY <1>1, <2>2
    <3> QED
      BY <1>3, <2>2, <3>1
  <2>3. CASE k # n + 1
    BY <1>1, <1>3, <2>3 DEF At
  <2> QED
    BY <2>2, <2>3
<1> QED
  BY <1>1, <1>3, <1>4 DEF At

\* The front screen is popped.
LEMMA PopAt ==
    ASSUME NEW s, NEW o, NEW n, At(s, o, n), n > 1
    PROVE  At(SubSeq(s, 1, Len(s) - 1), o, n - 1)
<1>1. o \in 0..2 /\ n \in Int /\ 2 <= n /\ n <= 4 - o /\ Len(s) = n /\ s \in Seq(Screens)
  BY DEF At
<1>2. PICK r : r = SubSeq(s, 1, n - 1)
  OBVIOUS
<1>3. \A k \in 1..(n - 1) : s[k] \in Screens /\ s[k] = Order[o + k]
  BY <1>1, ElementOfSeq DEF At
<1>4. r \in Seq(Screens) /\ Len(r) = (IF 1 <= n - 1 THEN (n - 1) - 1 + 1 ELSE 0)
      /\ \A k \in 1..((n - 1) - 1 + 1) : r[k] = s[1 + k - 1]
  BY <1>1, <1>2, <1>3, SubSeqProperties
<1>5. Len(r) = n - 1 /\ \A k \in 1..(n - 1) : r[k] = s[k]
  BY <1>1, <1>4
<1>6. At(r, o, n - 1)
  BY <1>1, <1>3, <1>4, <1>5 DEF At
<1> QED
  BY <1>1, <1>2, <1>6

\* The second screen becomes the only one.
LEMMA CloseAt ==
    ASSUME NEW s, NEW o, NEW n, At(s, o, n), n > 1, o + n = 3
    PROVE  At(<<s[2]>>, o + 1, 1)
<1>1. o \in 0..1 /\ 2 \in 1..n /\ s \in Seq(Screens) /\ Len(s) = n /\ s[2] = Order[o + 2]
  BY DEF At
<1>2. PICK x \in Screens : x = s[2]
  BY <1>1, ElementOfSeq
<1>3. PICK r : r = <<x>>
  OBVIOUS
<1>4. r \in Seq(Screens) /\ Len(r) = 1 /\ r[1] = x
  BY <1>3
<1>5. \A k \in 1..1 : r[k] = Order[(o + 1) + k]
  <2>1. SUFFICES ASSUME NEW k \in 1..1 PROVE r[k] = Order[(o + 1) + k]
    OBVIOUS
  <2>2. k = 1 /\ (o + 1) + k = o + 2
    BY <1>1
  <2> QED
    BY <1>1, <1>2, <1>4, <2>2
<1>6. o + 1 \in 0..2 /\ 1 \in 1..(4 - (o + 1))
  BY <1>1
<1> QED
  BY <1>2, <1>3, <1>4, <1>5, <1>6 DEF At
-----------------------------------------------------------------------------
(***************************************************************************)
(* The inductive invariant.                                                *)
(***************************************************************************)
StackOK == \E o \in 0..2 : \E n \in 1..(4 - o) : At(stack, o, n)

\* The text of an open browser has a slash, unless `pwd` printed nothing.
PwdOK == \E a \in 0..2 : /\ Shape(pwd, a, Directory(pwd))
                         /\ a = 0 /\ HasBrowser(stack) => shell = "silent"

\* The rows are entries of the directory the text names.
ListingOK == /\ listing \subseteq Rows
             /\ \A row \in listing : FilePath(pwd, row.name) \in Paths

\* The editor of a file opened from a row works in the browser's directory,
\* which cannot change under it.
Editors == [state : {"closed", "unreadable", "readOnly", "editing", "prompt", "saved"},
            dir : Seq(Components), name : Names \cup {None}]
EditorOK == /\ editor \in Editors
            /\ Top = "file" /\ editor.name # None => editor.dir = pwd

LastOK == /\ last \in [op : {"none", "delete", "save"},
                       row : Paths \cup {None}, path : Paths \cup {None}]
          /\ SaveOverwritesOpenedFile

ServerOK == /\ home \in Homes /\ shell \in {"prints", "silent"}
            /\ fs \in [Paths -> {"none", "file", "dir"}]
            /\ crashed \in {"no", "stepOut", "close"}
            /\ link \in {"closed", "session", "sftp"}
            /\ StepOutInBounds

IInv == StackOK /\ PwdOK /\ ListingOK /\ EditorOK /\ LastOK /\ ServerOK

\* What getDirectoryList may answer.
ListingsFit == \A L \in Listings : /\ L \subseteq Rows
                                   /\ \A row \in L : FilePath(pwd, row.name) \in Paths

\* A row's name behind the directory of the text is the path it was read from.
LEMMA RowsAreEntries == PwdOK => ListingsFit
<1> SUFFICES ASSUME PwdOK, NEW L \in Listings, NEW row \in L
             PROVE  row \in Rows /\ FilePath(pwd, row.name) \in Paths
  BY DEF ListingsFit
<1>1. PICK D \in Seq(Names) : D = Directory(pwd)
  BY DEF PwdOK, Shape
<1>2. PICK p \in InDir(D) : row = [name |-> p[Len(p)], isDir |-> fs[p] = "dir"]
  BY <1>1 DEF Listings
<1>3. p \in Paths /\ p # <<>> /\ SubSeq(p, 1, Len(p) - 1) = D
  BY <1>2 DEF InDir, DirOf
<1>4. p \in Seq(Names) /\ Len(p) \in Nat \ {0}
  BY <1>3, BrowserAssumption, EmptySeq DEF BrowserAssumption
<1>5. p[Len(p)] \in Names
  BY <1>4, ElementOfSeq
<1>6. Append(D, p[Len(p)]) = p
  <2>1. PICK n \in Nat : n = Len(p) /\ n >= 1
    BY <1>4
  <2>2. \A k \in 1..(n - 1) : p[k] \in Names
    BY <1>4, <2>1, ElementOfSeq
  <2>3. D = SubSeq(p, 1, n - 1)
    BY <1>3, <2>1
  <2>4. Len(D) = (IF 1 <= n - 1 THEN (n - 1) - 1 + 1 ELSE 0)
        /\ \A k \in 1..((n - 1) - 1 + 1) : D[k] = p[1 + k - 1]
    BY <2>2, <2>3, SubSeqProperties
  <2>5. Len(D) = n - 1 /\ \A k \in 1..(n - 1) : D[k] = p[k]
    BY <2>1, <2>4
  <2>6. PICK q : q = Append(D, p[n])
    OBVIOUS
  <2>7. q \in Seq(Names) /\ Len(q) = n /\ (\A k \in 1..(n - 1) : q[k] = D[k]) /\ q[n] = p[n]
    BY <1>5, <2>1, <2>5, <2>6, AppendProperties
  <2>8. \A k \in 1..n : q[k] = p[k]
    BY <2>1, <2>5, <2>7
  <2>9. q = p
    BY <1>4, <2>1, <2>7, <2>8, SeqEqual
  <2> QED
    BY <2>1, <2>6, <2>9
<1>7. row \in Rows
  BY <1>2, <1>5 DEF Rows
<1>8. row.name = p[Len(p)]
  BY <1>2
<1> QED
  BY <1>1, <1>3, <1>6, <1>7, <1>8 DEF FilePath

\* After a reload the rows are entries of the directory.
LEMMA ReloadFits == ASSUME PwdOK', Reload PROVE ListingOK'
<1>1. (PwdOK => ListingsFit)'
  BY RowsAreEntries, PTL
<1> QED
  BY <1>1 DEF Reload, ListingOK, ListingsFit
-----------------------------------------------------------------------------
(***************************************************************************)
(* The steps.                                                              *)
(***************************************************************************)
\* A text of the right shape is what the invariant asks for.
LEMMA PwdStep ==
    ASSUME NEW b \in 0..2, NEW q, Shape(pwd', b, q),
           b = 0 /\ HasBrowser(stack') => shell' = "silent"
    PROVE  PwdOK' /\ Directory(pwd') = q
<1>1. Directory(pwd') = q
  BY DirectoryOfShape
<1> QED
  BY <1>1 DEF PwdOK

\* The text stays when a browser is not opened.
LEMMA PwdKept ==
    ASSUME PwdOK, UNCHANGED <<pwd, shell>>, HasBrowser(stack') => HasBrowser(stack)
    PROVE  PwdOK'
  BY DEF PwdOK

\* The text of a helper that has not logged in.
LEMMA EmptyText == Shape(<<Blank>>, 0, <<>>)
<1>1. PICK T : T = <<Blank>>
  OBVIOUS
<1>2. T \in Seq(Components) /\ Len(T) = 1 /\ \A k \in 1..1 : T[k] = Blank
  BY <1>1 DEF Components
<1>3. <<>> \in Seq(Names) /\ Len(<<>>) = 0
  BY EmptySeq
<1>4. Shape(T, 0, <<>>)
  BY <1>2, <1>3 DEF Shape
<1> QED
  BY <1>1, <1>4

\* The file manager opens on the overview of a server.
LEMMA InitIInv == Init => IInv
<1> SUFFICES ASSUME Init PROVE IInv
  OBVIOUS
<1>1. At(stack, 0, 2)
  <2>1. stack \in Seq(Screens) /\ Len(stack) = 2 /\ stack[1] = "list" /\ stack[2] = "overview"
    <3>1. PICK x \in Screens, y \in Screens : x = "list" /\ y = "overview"
      BY DEF Screens
    <3>2. <<x, y>> \in Seq(Screens) /\ Len(<<x, y>>) = 2 /\ <<x, y>>[1] = x /\ <<x, y>>[2] = y
      OBVIOUS
    <3> QED
      BY <3>1, <3>2 DEF Init
  <2>2. \A k \in 1..2 : k = 1 \/ k = 2
    OBVIOUS
  <2>3. \A k \in 1..2 : stack[k] = Order[0 + k]
    BY <2>1, <2>2, OrderIs
  <2> QED
    BY <2>1, <2>3 DEF At
<1>2. StackOK
  <2>1. 0 \in 0..2 /\ 2 \in 1..(4 - 0)
    OBVIOUS
  <2> QED
    BY <1>1, <2>1, Zenon DEF StackOK
<1>3. ~HasBrowser(stack) /\ Top = "overview"
  BY <1>1, FrontOf, OrderIs DEF Top
<1>4. Shape(<<Blank>>, 0, <<>>)
  BY EmptyText
<1>5. PwdOK
  <2>1. Shape(pwd, 0, <<>>)
    BY <1>4 DEF Init, Blank
  <2>2. Directory(pwd) = <<>>
    BY <2>1, DirectoryOfShape
  <2>3. 0 \in 0..2
    OBVIOUS
  <2> QED
    BY <1>3, <2>1, <2>2, <2>3 DEF PwdOK
<1>6. ListingOK
  BY DEF Init, ListingOK
<1>7. EditorOK
  <2>1. <<"">> \in Seq(Components)
    BY <1>4 DEF Shape, Blank
  <2>2. NoEditor \in Editors
    BY <2>1 DEF NoEditor, Editors
  <2> QED
    BY <1>3, <2>2 DEF Init, EditorOK
<1>8. LastOK
  BY DEF Init, LastOK, NoChange, SaveOverwritesOpenedFile
<1>9. ServerOK
  BY DEF Init, ServerOK, StepOutInBounds
<1> QED
  BY <1>2, <1>5, <1>6, <1>7, <1>8, <1>9 DEF IInv

\* What the front screen says of the stack.
LEMMA LevelIs ==
    ASSUME NEW o, NEW n, At(stack, o, n)
    PROVE  /\ o \in Int /\ n \in Int
           /\ Top = "list" => o + n = 1
           /\ Top = "overview" => o + n = 2
           /\ Top = "sftp" => o + n = 3
           /\ Top = "file" => o + n = 4
           /\ HasBrowser(stack) <=> o + n >= 3
<1>1. o + n \in 1..4 /\ Top = Order[o + n] /\ (HasBrowser(stack) <=> o + n >= 3)
  BY FrontOf DEF Top
<1>2. o \in Int /\ n \in Int
  BY DEF At
<1> QED
  BY <1>1, <1>2, OrderIs

\* A new stack of the right form, and what its front screen is.
LEMMA StackStep ==
    ASSUME NEW o, NEW n, At(stack', o, n)
    PROVE  /\ StackOK' /\ Top' = Order[o + n] /\ o + n \in 1..4
           /\ HasBrowser(stack') <=> o + n >= 3
<1>1. o \in 0..2 /\ n \in 1..(4 - o)
  BY DEF At
<1> QED
  BY <1>1, FrontOf DEF StackOK, Top

\* What a step leaves alone.
LEMMA Unchanged ==
    ASSUME IInv
    PROVE  /\ UNCHANGED stack => StackOK'
           /\ UNCHANGED <<stack, pwd, shell>> => PwdOK'
           /\ UNCHANGED <<pwd, listing>> => ListingOK'
           /\ UNCHANGED <<stack, pwd, editor>> => EditorOK'
           /\ UNCHANGED last => LastOK'
           /\ UNCHANGED <<home, shell, fs, crashed, link>> => ServerOK'
<1>1. UNCHANGED stack => StackOK'
  BY DEF IInv, StackOK
<1>2. UNCHANGED <<stack, pwd, shell>> => PwdOK'
  BY DEF IInv, PwdOK
<1>3. UNCHANGED <<pwd, listing>> => ListingOK'
  BY DEF IInv, ListingOK
<1>4. UNCHANGED <<stack, pwd, editor>> => EditorOK'
  BY DEF IInv, EditorOK, Top
<1>5. UNCHANGED last => LastOK'
  BY DEF IInv, LastOK, SaveOverwritesOpenedFile
<1>6. UNCHANGED <<home, shell, fs, crashed, link>> => ServerOK'
  BY DEF IInv, ServerOK, StepOutInBounds
<1> QED
  BY <1>1, <1>2, <1>3, <1>4, <1>5, <1>6

\* The server's files keep their kinds, whoever changes them.
LEMMA FilesStep ==
    ASSUME IInv, UNCHANGED <<home, shell, crashed, link>>,
           \/ UNCHANGED fs
           \/ \E p \in Paths, kind \in {"none", "file", "dir"} : fs' = [fs EXCEPT ![p] = kind]
    PROVE  ServerOK'
<1>1. fs' \in [Paths -> {"none", "file", "dir"}]
  BY DEF IInv, ServerOK
<1> QED
  BY <1>1 DEF IInv, ServerOK, StepOutInBounds

\* Somebody else's change.
LEMMA OtherUserStep == ASSUME IInv, OtherUser PROVE IInv'
<1>1. ServerOK'
  <2>1. \E p \in Paths, kind \in {"none", "file", "dir"} : fs' = [fs EXCEPT ![p] = kind]
    BY DEF OtherUser
  <2>2. UNCHANGED <<home, shell, crashed, link>>
    BY DEF OtherUser, account, browserVars
  <2> QED
    BY <2>1, <2>2, FilesStep
<1>2. StackOK' /\ PwdOK' /\ ListingOK' /\ EditorOK' /\ LastOK'
  BY Unchanged DEF OtherUser, account, browserVars
<1> QED
  BY <1>1, <1>2 DEF IInv

\* A browser opens at a login directory.
LEMMA OpenBrowserStep ==
    ASSUME IInv, OpenBrowser
    PROVE  IInv' /\ HasBrowser(stack') /\ ~HasBrowser(stack) /\ Directory(pwd') \in Homes \cup {<<>>}
<1>1. PICK o, n : At(stack, o, n)
  BY DEF IInv, StackOK
<1>2. o \in Int /\ n \in Int /\ o + n = 2 /\ ~HasBrowser(stack)
  BY <1>1, LevelIs DEF OpenBrowser
<1>3. At(stack', o, n + 1)
  <2>1. "sftp" = Order[o + n + 1]
    BY <1>2, OrderIs
  <2>2. stack' = Append(stack, "sftp")
    BY DEF OpenBrowser, Push
  <2>3. o + n < 4
    BY <1>2
  <2> QED
    BY <1>1, <2>1, <2>2, <2>3, PushAt
<1>4. StackOK' /\ Top' = "sftp" /\ HasBrowser(stack')
  <2>1. StackOK' /\ Top' = Order[o + (n + 1)] /\ (HasBrowser(stack') <=> o + (n + 1) >= 3)
    BY <1>3, StackStep
  <2>2. o + (n + 1) = 3
    BY <1>2
  <2> QED
    BY <2>1, <2>2, OrderIs
<1>6. PICK a \in 0..2, path \in Homes \cup {<<>>} : Shape(pwd', a, path) /\ (a = 0 => shell = "silent")
  <2>1. home \in Homes /\ shell \in {"prints", "silent"} /\ pwd' \in LoginTexts
    BY DEF IInv, ServerOK, OpenBrowser
  <2> QED
    BY <2>1, LoginShape
<1>7. PwdOK' /\ Directory(pwd') = path
  BY <1>6, PwdStep DEF OpenBrowser, account
<1>8. ListingOK'
  BY <1>7, ReloadFits DEF OpenBrowser
<1>9. EditorOK'
  BY <1>4 DEF IInv, EditorOK, OpenBrowser
<1>10. LastOK'
  BY Unchanged DEF OpenBrowser
<1>11. ServerOK'
  BY DEF IInv, ServerOK, StepOutInBounds, OpenBrowser, account
<1> QED
  BY <1>2, <1>4, <1>7, <1>8, <1>9, <1>10, <1>11 DEF IInv

\* The list is read again.
LEMMA RefreshStep == ASSUME IInv, Refresh PROVE IInv'
<1>1. StackOK' /\ PwdOK' /\ EditorOK' /\ LastOK' /\ ServerOK'
  BY Unchanged DEF Refresh, account
<1>2. ListingOK'
  BY <1>1, ReloadFits DEF Refresh
<1> QED
  BY <1>1, <1>2 DEF IInv

\* A row that is a directory is entered.
LEMMA StepIntoStep ==
    ASSUME IInv, NEW row \in listing, StepInto(row)
    PROVE  IInv' /\ HasBrowser(stack) /\ row.name \in Names
           /\ Directory(pwd') = Append(Directory(pwd), row.name)
<1>1. PICK o, n : At(stack, o, n)
  BY DEF IInv, StackOK
<1>2. HasBrowser(stack)
  <2>1. o + n = 3
    BY <1>1, LevelIs DEF StepInto
  <2> QED
    BY <1>1, <2>1, LevelIs
<1>3. row.name \in Names
  BY DEF IInv, ListingOK, Rows
<1>4. PICK a \in 0..2 : Shape(pwd, a, Directory(pwd))
  BY DEF IInv, PwdOK
<1>5. PICK b \in 1..2 : Shape(pwd', b, Append(Directory(pwd), row.name))
  BY <1>3, <1>4, SteppedIntoShape DEF StepInto
<1>6. PwdOK' /\ Directory(pwd') = Append(Directory(pwd), row.name)
  <2>1. b \in 0..2 /\ b # 0
    OBVIOUS
  <2> QED
    BY <1>5, <2>1, PwdStep
<1>7. ListingOK'
  BY <1>6, ReloadFits DEF StepInto
<1>8. StackOK' /\ LastOK' /\ ServerOK'
  BY Unchanged DEF StepInto, account
<1>9. EditorOK'
  BY DEF IInv, EditorOK, StepInto, Top
<1> QED
  BY <1>2, <1>3, <1>6, <1>7, <1>8, <1>9 DEF IInv

\* The parent directory is entered; only the text of a shell that printed
\* nothing is too short for the loop.
LEMMA StepOutStep ==
    ASSUME IInv, crashed = "no", StepOut
    PROVE  IInv' /\ HasBrowser(stack) /\ HasBrowser(stack')
           /\ Directory(pwd') \in {Directory(pwd), Walk!Parent(Directory(pwd))}
<1>1. PICK o, n : At(stack, o, n)
  BY DEF IInv, StackOK
<1>2. HasBrowser(stack) /\ stack' = stack /\ Top = "sftp"
  <2>1. o + n = 3
    BY <1>1, LevelIs DEF StepOut
  <2> QED
    BY <1>1, <2>1, LevelIs DEF StepOut
<1>3. PICK a \in 0..2 : Shape(pwd, a, Directory(pwd)) /\ (a = 0 => shell = "silent")
  BY <1>2 DEF IInv, PwdOK
<1>4. StackOK' /\ LastOK'
  BY Unchanged DEF StepOut
<1>5. EditorOK'
  BY <1>2 DEF IInv, EditorOK, StepOut, Top
<1>6. CASE Len(pwd) >= 2
  <2>1. a # 0
    BY <1>3, <1>6 DEF Shape
  <2>2. pwd' = SteppedOut(pwd) /\ crashed' = crashed
    BY <1>6 DEF StepOut
  <2>3. Shape(pwd', 1, Walk!Parent(Directory(pwd)))
    BY <1>3, <2>1, <2>2, SteppedOutShape
  <2>4. PwdOK' /\ Directory(pwd') = Walk!Parent(Directory(pwd))
    <3>1. 1 \in 0..2 /\ 1 # 0
      OBVIOUS
    <3> QED
      BY <2>3, <3>1, PwdStep
  <2>5. ListingOK'
    BY <2>2, <2>4, ReloadFits DEF StepOut
  <2>6. ServerOK'
    BY <2>2, Unchanged DEF StepOut, account
  <2> QED
    BY <1>2, <1>4, <1>5, <2>4, <2>5, <2>6 DEF IInv
<1>7. CASE ~(Len(pwd) >= 2)
  <2>1. pwd' = pwd /\ crashed' = "stepOut"
    BY <1>7 DEF StepOut
  <2>2. a = 0
    <3>1. Len(pwd) = a + Len(Directory(pwd)) + 1 /\ Len(Directory(pwd)) \in Nat
      BY <1>3, LenProperties DEF Shape
    <3> QED
      BY <1>7, <3>1
  <2>3. listing' = listing
    BY <2>1 DEF StepOut
  <2>4. PwdOK' /\ ListingOK'
    BY <2>1, <2>3, Unchanged DEF StepOut, account
  <2>5. ServerOK'
    BY <1>3, <2>1, <2>2 DEF IInv, ServerOK, StepOutInBounds, StepOut, account
  <2> QED
    BY <1>2, <1>4, <1>5, <2>1, <2>4, <2>5 DEF IInv
<1> QED
  BY <1>6, <1>7

\* A row is deleted, or not; last names paths the server may have.
LEMMA DeleteRowStep ==
    ASSUME IInv, NEW row \in listing, DeleteRow(row)
    PROVE  IInv'
<1>1. PICK path :
         \/ /\ Removable(path, row)
            /\ fs' = [fs EXCEPT ![path] = "none"]
            /\ last' = [op |-> "delete", row |-> FilePath(pwd, row.name), path |-> path]
         \/ UNCHANGED <<fs, last>>
  BY DEF DeleteRow
<1>2. UNCHANGED <<home, shell, stack, crashed, link, pwd, editor>> /\ Reload
  BY DEF DeleteRow, account
<1>3. StackOK' /\ PwdOK' /\ EditorOK'
  BY <1>2, Unchanged
<1>4. ListingOK'
  BY <1>2, <1>3, ReloadFits
<1>5. CASE UNCHANGED <<fs, last>>
  BY <1>2, <1>3, <1>4, <1>5, Unchanged DEF IInv
<1>6. CASE /\ Removable(path, row)
           /\ fs' = [fs EXCEPT ![path] = "none"]
           /\ last' = [op |-> "delete", row |-> FilePath(pwd, row.name), path |-> path]
  <2>1. path \in Paths
    BY <1>6 DEF Removable
  <2>2. FilePath(pwd, row.name) \in Paths
    BY DEF IInv, ListingOK
  <2>3. LastOK'
    BY <1>6, <2>1, <2>2 DEF LastOK, SaveOverwritesOpenedFile
  <2>4. ServerOK'
    <3>1. \E p \in Paths, kind \in {"none", "file", "dir"} : fs' = [fs EXCEPT ![p] = kind]
      BY <1>6, <2>1
    <3> QED
      BY <1>2, <3>1, FilesStep
  <2> QED
    BY <1>3, <1>4, <2>3, <2>4 DEF IInv
<1> QED
  BY <1>1, <1>5, <1>6

\* The browser closes; over an overview that was itself the bottom, the second
\* screen is the browser again.
LEMMA CloseBrowserStep ==
    ASSUME IInv, CloseBrowser
    PROVE  IInv' /\ HasBrowser(stack) /\ pwd' = pwd
<1>1. PICK o, n : At(stack, o, n)
  BY DEF IInv, StackOK
<1>2. o \in Int /\ n \in Int /\ o + n = 3 /\ HasBrowser(stack) /\ Top = "sftp"
  BY <1>1, LevelIs DEF CloseBrowser
<1>3. UNCHANGED <<home, shell, fs, pwd, listing, editor, last>> /\ link' = "closed"
  BY DEF CloseBrowser, account
<1>4. PwdOK'
  BY <1>2, <1>3, PwdKept DEF IInv
<1>5. ListingOK' /\ LastOK'
  BY <1>3, Unchanged
<1>6. ServerOK'
  <2>1. crashed' \in {crashed, "close"}
    BY DEF CloseBrowser
  <2> QED
    BY <1>3, <2>1 DEF IInv, ServerOK, StepOutInBounds
<1>7. StackOK' /\ Top' # "file"
  <2>1. CASE Len(stack) >= 2
    <3>1. n > 1
      BY <1>1, <1>2, <2>1 DEF At
    <3>2. stack' = <<stack[2]>>
      BY <2>1 DEF CloseBrowser
    <3>3. At(stack', o + 1, 1)
      BY <1>1, <1>2, <3>1, <3>2, CloseAt
    <3>4. StackOK' /\ Top' = Order[(o + 1) + 1] /\ (o + 1) + 1 \in 1..4
      BY <3>3, StackStep
    <3>5. (o + 1) + 1 # 4
      BY <1>2, <3>1
    <3> QED
      BY <3>4, <3>5, OrderIs
  <2>2. CASE ~(Len(stack) >= 2)
    <3>1. stack' = stack
      BY <2>2 DEF CloseBrowser
    <3> QED
      BY <1>2, <3>1 DEF IInv, StackOK, Top
  <2> QED
    BY <2>1, <2>2
<1>8. EditorOK'
  BY <1>3, <1>7 DEF IInv, EditorOK
<1> QED
  BY <1>2, <1>3, <1>4, <1>5, <1>6, <1>7, <1>8 DEF IInv

\* A file's screen comes over the browser's.
LEMMA PushFile ==
    ASSUME IInv, Top = "sftp", Push("file")
    PROVE  StackOK' /\ HasBrowser(stack') /\ HasBrowser(stack)
<1>1. PICK o, n : At(stack, o, n)
  BY DEF IInv, StackOK
<1>2. o \in Int /\ n \in Int /\ o + n = 3 /\ HasBrowser(stack)
  BY <1>1, LevelIs
<1>3. At(stack', o, n + 1)
  <2>1. "file" = Order[o + n + 1]
    BY <1>2, OrderIs
  <2>2. stack' = Append(stack, "file")
    BY DEF Push
  <2>3. o + n < 4
    BY <1>2
  <2> QED
    BY <1>1, <2>1, <2>2, <2>3, PushAt
<1>4. StackOK' /\ (HasBrowser(stack') <=> o + (n + 1) >= 3)
  BY <1>3, StackStep
<1> QED
  BY <1>2, <1>4

\* The editor works in the browser's directory.
LEMMA OpenFileStep ==
    ASSUME IInv, NEW row \in listing, OpenFile(row)
    PROVE  IInv' /\ HasBrowser(stack') /\ HasBrowser(stack) /\ pwd' = pwd
<1>1. StackOK' /\ HasBrowser(stack') /\ HasBrowser(stack)
  BY PushFile DEF OpenFile
<1>2. UNCHANGED <<home, shell, fs, crashed, link, pwd, listing, last>>
  BY DEF OpenFile, account, browserVars
<1>3. PwdOK'
  BY <1>1, <1>2, PwdKept DEF IInv
<1>4. ListingOK' /\ LastOK' /\ ServerOK'
  BY <1>2, Unchanged
<1>5. EditorOK'
  <2>1. PICK state \in {"unreadable", "editing"} :
          editor' = [state |-> state, dir |-> pwd, name |-> row.name]
    BY DEF OpenFile
  <2>2. pwd \in Seq(Components) /\ row.name \in Names
    BY DEF IInv, PwdOK, Shape, ListingOK, Rows
  <2> QED
    BY <1>2, <2>1, <2>2 DEF EditorOK, Editors
<1> QED
  BY <1>1, <1>2, <1>3, <1>4, <1>5 DEF IInv

\* The editor of a new file works in a login directory and has no name.
LEMMA NewFileStep ==
    ASSUME IInv, NewFile
    PROVE  IInv' /\ HasBrowser(stack') /\ HasBrowser(stack) /\ pwd' = pwd
<1>1. StackOK' /\ HasBrowser(stack') /\ HasBrowser(stack)
  BY PushFile DEF NewFile
<1>2. UNCHANGED <<home, shell, fs, crashed, link, pwd, listing, last>>
  BY DEF NewFile, account, browserVars
<1>3. PwdOK'
  BY <1>1, <1>2, PwdKept DEF IInv
<1>4. ListingOK' /\ LastOK' /\ ServerOK'
  BY <1>2, Unchanged
<1>5. EditorOK'
  <2>1. PICK text \in LoginTexts : editor' = [state |-> "editing", dir |-> text, name |-> None]
    BY DEF NewFile
  <2>2. home \in Homes /\ shell \in {"prints", "silent"}
    BY DEF IInv, ServerOK
  <2>3. PICK a, path : Shape(text, a, path)
    BY <2>2, LoginShape
  <2>4. text \in Seq(Components)
    BY <2>3 DEF Shape
  <2> QED
    BY <2>1, <2>4 DEF EditorOK, Editors
<1> QED
  BY <1>1, <1>2, <1>3, <1>4, <1>5 DEF IInv

\* The alerts of the editor change its state only.
LEMMA AlertStep ==
    ASSUME IInv, TryReadOnly \/ AskFileName \/ CancelSave
    PROVE  IInv' /\ UNCHANGED <<stack, pwd>>
<1>1. PICK state \in {"readOnly", "prompt", "editing"} : editor' = [editor EXCEPT !.state = state]
  BY DEF TryReadOnly, AskFileName, CancelSave
<1>2. UNCHANGED <<home, shell, fs, stack, crashed, link, pwd, listing, last>>
  BY DEF TryReadOnly, AskFileName, CancelSave, account, browserVars
<1>3. StackOK' /\ PwdOK' /\ ListingOK' /\ LastOK' /\ ServerOK'
  BY <1>2, Unchanged
<1>4. EditorOK'
  BY <1>1, <1>2 DEF IInv, EditorOK, Editors, Top
<1> QED
  BY <1>2, <1>3, <1>4 DEF IInv

\* A file is written, or not.
LEMMA SaveStep ==
    ASSUME IInv, NEW name \in Names, Save(name)
    PROVE  IInv' /\ UNCHANGED <<stack, pwd>>
<1>1. UNCHANGED <<home, shell, stack, crashed, link, pwd, listing>> /\ Top = "file"
  BY DEF Save, account, browserVars
<1>2. StackOK' /\ PwdOK' /\ ListingOK'
  BY <1>1, Unchanged
<1>3. EditorOK'
  <2>1. PICK state \in {"saved", "editing"} : editor' = [editor EXCEPT !.state = state]
    BY DEF Save
  <2> QED
    BY <1>1, <2>1 DEF IInv, EditorOK, Editors, Top
<1>4. PICK path : path = FilePath(editor.dir, name)
  OBVIOUS
<1>5. CASE UNCHANGED <<fs, last>>
  BY <1>1, <1>2, <1>3, <1>5, Unchanged DEF IInv
<1>6. CASE /\ Writable(path)
           /\ fs' = [fs EXCEPT ![path] = "file"]
           /\ last' = [op |-> "save", path |-> path,
                       row |-> IF name = editor.name THEN FilePath(pwd, name) ELSE None]
  <2>1. path \in Paths
    BY <1>6 DEF Writable
  <2>2. name = editor.name => FilePath(pwd, name) = path
    <3>1. name # None
      BY BrowserAssumption DEF BrowserAssumption
    <3> QED
      BY <1>1, <1>4, <3>1 DEF IInv, EditorOK
  <2>3. PICK row \in {path, None} : last' = [op |-> "save", path |-> path, row |-> row]
    BY <1>6, <2>2
  <2>4. LastOK'
    BY <2>1, <2>3 DEF LastOK, SaveOverwritesOpenedFile
  <2>5. ServerOK'
    <3>1. \E p \in Paths, kind \in {"none", "file", "dir"} : fs' = [fs EXCEPT ![p] = kind]
      BY <1>6, <2>1
    <3> QED
      BY <1>1, <3>1, FilesStep
  <2> QED
    BY <1>1, <1>2, <1>3, <2>4, <2>5 DEF IInv
<1> QED
  BY <1>4, <1>5, <1>6 DEF Save

\* The editor is left for the browser below it.
LEMMA LeaveFileStep ==
    ASSUME IInv, LeaveFile
    PROVE  IInv' /\ HasBrowser(stack') /\ HasBrowser(stack) /\ pwd' = pwd
<1>1. PICK o, n : At(stack, o, n)
  BY DEF IInv, StackOK
<1>2. o \in Int /\ n \in Int /\ o + n = 4 /\ HasBrowser(stack)
  BY <1>1, LevelIs DEF LeaveFile
<1>3. n > 1
  BY <1>1, <1>2 DEF At
<1>4. At(stack', o, n - 1)
  BY <1>1, <1>3, PopAt DEF LeaveFile, Pop
<1>5. StackOK' /\ Top' = "sftp" /\ HasBrowser(stack')
  <2>1. StackOK' /\ Top' = Order[o + (n - 1)] /\ (HasBrowser(stack') <=> o + (n - 1) >= 3)
    BY <1>4, StackStep
  <2>2. o + (n - 1) = 3
    BY <1>2
  <2> QED
    BY <2>1, <2>2, OrderIs
<1>6. UNCHANGED <<home, shell, fs, crashed, link, pwd, listing, last>> /\ editor' = NoEditor
  BY DEF LeaveFile, account, browserVars
<1>7. PwdOK'
  BY <1>2, <1>6, PwdKept DEF IInv
<1>8. ListingOK' /\ LastOK' /\ ServerOK'
  BY <1>6, Unchanged
<1>9. EditorOK'
  <2>1. <<"">> \in Seq(Components)
    BY DEF Components, Blank
  <2> QED
    BY <1>5, <1>6, <2>1 DEF EditorOK, Editors, NoEditor
<1> QED
  BY <1>2, <1>5, <1>6, <1>7, <1>8, <1>9 DEF IInv

\* Between the server list and the overview no browser comes or goes.
LEMMA OverviewStep ==
    ASSUME IInv, LeaveOverview \/ OpenOverview
    PROVE  IInv' /\ ~HasBrowser(stack') /\ ~HasBrowser(stack) /\ pwd' = pwd
<1>1. PICK o, n : At(stack, o, n)
  BY DEF IInv, StackOK
<1>2. UNCHANGED <<home, shell, fs, crashed, link, pwd, listing, editor, last>>
  BY DEF LeaveOverview, OpenOverview, account, browserVars
<1>3. StackOK' /\ ~HasBrowser(stack') /\ ~HasBrowser(stack) /\ Top' # "file"
  <2>1. CASE LeaveOverview
    <3>1. o \in Int /\ n \in Int /\ o + n = 2 /\ ~HasBrowser(stack) /\ n > 1
      <4>1. Len(stack) = n /\ Len(stack) > 1 /\ Top = "overview"
        BY <1>1, <2>1 DEF At, LeaveOverview
      <4> QED
        BY <1>1, <4>1, LevelIs
    <3>2. At(stack', o, n - 1)
      BY <1>1, <2>1, <3>1, PopAt DEF LeaveOverview, Pop
    <3>3. StackOK' /\ Top' = Order[o + (n - 1)] /\ (HasBrowser(stack') <=> o + (n - 1) >= 3)
      BY <3>2, StackStep
    <3>4. o + (n - 1) = 1
      BY <3>1
    <3> QED
      BY <3>1, <3>3, <3>4, OrderIs
  <2>2. CASE OpenOverview
    <3>1. o \in Int /\ n \in Int /\ o + n = 1 /\ ~HasBrowser(stack)
      BY <1>1, <2>2, LevelIs DEF OpenOverview
    <3>2. "overview" = Order[o + n + 1] /\ o + n < 4
      BY <3>1, OrderIs
    <3>3. stack' = Append(stack, "overview")
      BY <2>2 DEF OpenOverview, Push
    <3>4. At(stack', o, n + 1)
      BY <1>1, <3>2, <3>3, PushAt
    <3>5. StackOK' /\ Top' = Order[o + (n + 1)] /\ (HasBrowser(stack') <=> o + (n + 1) >= 3)
      BY <3>4, StackStep
    <3>6. o + (n + 1) = 2
      BY <3>1
    <3> QED
      BY <3>1, <3>5, <3>6, OrderIs
  <2> QED
    BY <2>1, <2>2
<1>4. PwdOK'
  BY <1>2, <1>3, PwdKept DEF IInv
<1>5. ListingOK' /\ LastOK' /\ ServerOK'
  BY <1>2, Unchanged
<1>6. EditorOK'
  BY <1>2, <1>3 DEF IInv, EditorOK
<1> QED
  BY <1>2, <1>3, <1>4, <1>5, <1>6 DEF IInv
-----------------------------------------------------------------------------
(***************************************************************************)
(* The theorems.                                                           *)
(***************************************************************************)
\* A step that moves no browser and no working directory.
Stays == (HasBrowser(stack') <=> HasBrowser(stack)) /\ Directory(pwd') = Directory(pwd)

\* The moves of the working directory.
Opens == ~HasBrowser(stack) /\ HasBrowser(stack') /\ Directory(pwd') \in Homes \cup {<<>>}
Enters == /\ HasBrowser(stack) /\ HasBrowser(stack')
          /\ \E name \in Names : Directory(pwd') = Append(Directory(pwd), name)
Leaves == /\ HasBrowser(stack) /\ HasBrowser(stack')
          /\ Directory(pwd') = Walk!Parent(Directory(pwd))
Closes == HasBrowser(stack) /\ ~HasBrowser(stack') /\ Directory(pwd') = Directory(pwd)
Moves == Stays \/ Opens \/ Enters \/ Leaves \/ Closes

\* Every step keeps the invariant, and moves the working directory as
\* WorkingDirectory.tla allows or not at all.
LEMMA NextStep == ASSUME IInv, [Next]_vars PROVE IInv' /\ Moves
<1>1. CASE UNCHANGED vars
  <2>1. IInv'
    BY <1>1, Unchanged DEF IInv, vars
  <2> QED
    BY <1>1, <2>1 DEF vars, Moves, Stays
<1>2. CASE OtherUser
  <2>1. UNCHANGED <<stack, pwd>>
    BY <1>2 DEF OtherUser, browserVars
  <2> QED
    BY <1>2, <2>1, OtherUserStep DEF Moves, Stays
<1>3. CASE OpenBrowser
  BY <1>3, OpenBrowserStep DEF Moves, Opens
<1>4. CASE Refresh
  <2>1. UNCHANGED <<stack, pwd>>
    BY <1>4 DEF Refresh
  <2> QED
    BY <1>4, <2>1, RefreshStep DEF Moves, Stays
<1>5. CASE crashed = "no" /\ StepOut
  <2>1. IInv' /\ HasBrowser(stack) /\ HasBrowser(stack')
        /\ Directory(pwd') \in {Directory(pwd), Walk!Parent(Directory(pwd))}
    BY <1>5, StepOutStep
  <2> QED
    BY <2>1 DEF Moves, Stays, Leaves
<1>6. CASE CloseBrowser
  BY <1>6, CloseBrowserStep DEF Moves, Stays, Closes
<1>7. CASE NewFile
  BY <1>7, NewFileStep DEF Moves, Stays
<1>8. ASSUME NEW row \in listing, StepInto(row) PROVE IInv' /\ Moves
  <2>1. stack' = stack
    BY <1>8 DEF StepInto
  <2> QED
    BY <1>8, <2>1, StepIntoStep DEF Moves, Enters
<1>9. ASSUME NEW row \in listing, DeleteRow(row) PROVE IInv' /\ Moves
  <2>1. UNCHANGED <<stack, pwd>>
    BY <1>9 DEF DeleteRow
  <2> QED
    BY <1>9, <2>1, DeleteRowStep DEF Moves, Stays
<1>10. ASSUME NEW row \in listing, OpenFile(row) PROVE IInv' /\ Moves
  BY <1>10, OpenFileStep DEF Moves, Stays
<1>11. CASE TryReadOnly \/ AskFileName \/ CancelSave
  BY <1>11, AlertStep DEF Moves, Stays
<1>12. CASE LeaveFile
  BY <1>12, LeaveFileStep DEF Moves, Stays
<1>13. ASSUME NEW name \in Names, Save(name) PROVE IInv' /\ Moves
  BY <1>13, SaveStep DEF Moves, Stays
<1>14. CASE LeaveOverview \/ OpenOverview
  BY <1>14, OverviewStep DEF Moves, Stays
<1> QED
  BY <1>1, <1>2, <1>3, <1>4, <1>5, <1>6, <1>7, <1>8, <1>9, <1>10, <1>11, <1>12, <1>13, <1>14 DEF Next

\* The stack is a part of the order of the screens, the working directory has
\* the shape of a path, and the editor of an opened file stays in it, in every
\* reachable state.
THEOREM Invariant == Spec => []IInv
<1>1. Init => IInv
  BY InitIInv
<1>2. IInv /\ [Next]_vars => IInv'
  BY NextStep
<1> QED
  BY <1>1, <1>2, PTL DEF Spec

\* The invariant gives the types.
LEMMA IInvTypes == IInv => TypeOK
<1> SUFFICES ASSUME IInv PROVE TypeOK
  OBVIOUS
<1>1. stack \in Seq(Screens) /\ Len(stack) \in 1..4
  <2>1. PICK o \in 0..2 : \E n \in 1..(4 - o) : At(stack, o, n)
    BY DEF IInv, StackOK
  <2>2. PICK n \in 1..(4 - o) : At(stack, o, n)
    BY <2>1
  <2> QED
    BY <2>2 DEF At
<1>2. pwd \in Seq(Names \cup {""})
  BY DEF IInv, PwdOK, Shape, Components, Blank
<1>3. /\ editor.state \in {"closed", "unreadable", "readOnly", "editing", "prompt", "saved"}
      /\ editor.dir \in Seq(Names \cup {""}) /\ editor.name \in Names \cup {None}
  BY DEF IInv, EditorOK, Editors, Components, Blank
<1>4. /\ last.op \in {"none", "delete", "save"}
      /\ last.row \in Paths \cup {None} /\ last.path \in Paths \cup {None}
  BY DEF IInv, LastOK
<1>5. listing \subseteq Rows
  BY DEF IInv, ListingOK
<1> QED
  BY <1>1, <1>2, <1>3, <1>4, <1>5 DEF IInv, ServerOK, TypeOK

\* The variables of the browser and of the editor keep their types; the stack
\* has between one and four screens, whatever closes and reopens it.
THEOREM TypeCorrect == Spec => []TypeOK
  BY Invariant, IInvTypes, PTL

\* The loop of stepOutOfDirectory (SFTPHelper.m) stays in the array of the
\* text's components for every account whose shell answers `pwd`.
THEOREM StepOutSafe == Spec => []StepOutInBounds
<1>1. IInv => StepOutInBounds
  BY DEF IInv, ServerOK
<1> QED
  BY <1>1, Invariant, PTL

\* A file saved under the name it was opened with is written over the file of
\* the row it was opened from (SFTPFileViewController.m).
THEOREM SavesOver == Spec => []SaveOverwritesOpenedFile
<1>1. IInv => SaveOverwritesOpenedFile
  BY DEF IInv, LastOK
<1> QED
  BY <1>1, Invariant, PTL

\* The text SFTPHelper keeps is a working directory: the browser implements
\* WorkingDirectory.tla, in which a path goes one name down or up.
THEOREM TracksDirectory == Spec => TracksWorkingDirectory
<1>1. Init => Walk!Init
  <2> SUFFICES ASSUME Init PROVE Walk!Init
    OBVIOUS
  <2>1. ~HasBrowser(stack)
    <3>1. stack = <<"list", "overview">>
      BY DEF Init
    <3> QED
      BY <3>1 DEF HasBrowser
  <2>2. Directory(pwd) = <<>>
    BY EmptyText, DirectoryOfShape DEF Init, Blank
  <2> QED
    BY <2>1, <2>2 DEF Walk!Init, HasBrowser
<1>2. IInv /\ [Next]_vars => [Walk!Next]_<<\E k \in 1..Len(stack) : stack[k] = "sftp", Directory(pwd)>>
  <2> SUFFICES ASSUME IInv, [Next]_vars
               PROVE  [Walk!Next]_<<HasBrowser(stack), Directory(pwd)>>
    BY DEF HasBrowser
  <2>1. Moves
    BY NextStep
  <2>2. CASE Stays
    BY <2>2 DEF Stays, HasBrowser
  <2>3. CASE Opens
    BY <2>3 DEF Opens, Walk!Next, Walk!Open, HasBrowser
  <2>4. CASE Enters
    BY <2>4 DEF Enters, Walk!Next, Walk!Enter, HasBrowser
  <2>5. CASE Leaves
    BY <2>5 DEF Leaves, Walk!Next, Walk!Leave, HasBrowser
  <2>6. CASE Closes
    BY <2>6 DEF Closes, Walk!Next, Walk!Close, HasBrowser
  <2> QED
    BY <2>1, <2>2, <2>3, <2>4, <2>5, <2>6 DEF Moves
<1> QED
  BY <1>1, <1>2, Invariant, PTL DEF Spec, TracksWorkingDirectory, Walk!Spec
=============================================================================
