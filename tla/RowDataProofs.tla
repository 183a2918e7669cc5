--------------------------- MODULE RowDataProofs ---------------------------
(***************************************************************************)
(* Facts about the operators of RowData that the proofs about Pipeline     *)
(* cite.                                                                   *)
(***************************************************************************)
EXTENDS RowData, FiniteSetTheorems, TLAPS

(* A finite family of intervals, one for each element of a finite set, has *)
(* finitely many members in all.                                           *)
LEMMA FiniteCopies ==
  ASSUME NEW S, IsFiniteSet(S), NEW n \in [S -> Nat]
  PROVE  IsFiniteSet(UNION {{x} \X (1..n[x]) : x \in S})
<1> DEFINE F == {{x} \X (1..n[x]) : x \in S}
           g == [x \in S |-> {x} \X (1..n[x])]
<1>1. g \in Surjection(S, F)
  BY DEF Surjection
<1>2. IsFiniteSet(F)
  BY <1>1, FS_Surjection
<1>3. \A x \in S : IsFiniteSet({x} \X (1..n[x]))
  <2> TAKE x \in S
  <2>1. IsFiniteSet({x})
    BY FS_Singleton
  <2>2. IsFiniteSet(1..n[x])
    BY FS_Interval
  <2> QED
    BY <2>1, <2>2, FS_Product
<1>4. \A T \in F : IsFiniteSet(T)
  BY <1>3
<1> QED
  BY <1>2, <1>4, FS_UNION

(* Reading a finite set of part objects yields row multiplicities.         *)
LEMMA LoadType ==
  ASSUME NEW P, IsFiniteSet(P), \A o \in P : o.rows \in Rows
  PROVE  Load(P) \in Rows
<1>1. ASSUME NEW i \in Ids
      PROVE  Cardinality(Copies(P, i)) \in Nat
  <2> DEFINE n == [o \in P |-> o.rows[i]]
  <2>1. n \in [P -> Nat]
    BY DEF Rows
  <2>2. Copies(P, i) = UNION {{o} \X (1..n[o]) : o \in P}
    BY DEF Copies
  <2>3. IsFiniteSet(Copies(P, i))
    <3> HIDE DEF n
    <3> QED BY <2>1, <2>2, FiniteCopies
  <2> QED
    BY <2>3, FS_CardinalityType
<1> QED
  BY <1>1 DEF Load, Rows

(* Reading a directory with one part yields the rows of that part.         *)
LEMMA LoadSingleton ==
  ASSUME NEW o, o.rows \in Rows
  PROVE  Load({o}) = o.rows
<1>1. ASSUME NEW i \in Ids
      PROVE  Cardinality(Copies({o}, i)) = o.rows[i]
  <2> DEFINE n == o.rows[i]
  <2>1. n \in Nat
    BY DEF Rows
  <2>2. Copies({o}, i) = {o} \X (1..n)
    BY DEF Copies
  <2> HIDE DEF n
  <2>3. IsFiniteSet({o}) /\ Cardinality({o}) = 1
    BY FS_Singleton
  <2>4. IsFiniteSet(1..n) /\ Cardinality(1..n) = n
    BY <2>1, FS_Interval
  <2>5. Cardinality({o} \X (1..n)) = Cardinality({o}) * Cardinality(1..n)
    BY <2>3, <2>4, FS_Product
  <2>6. Cardinality({o} \X (1..n)) = n
    BY <2>1, <2>3, <2>4, <2>5
  <2> QED
    BY <2>2, <2>6 DEF n
<1> QED
  BY <1>1 DEF Load, Rows

(* An empty directory has no rows.                                         *)
LEMMA LoadEmpty == ~Present(Load({}))
<1>1. ASSUME NEW i \in Ids PROVE Cardinality(Copies({}, i)) = 0
  <2>1. Copies({}, i) = {}
    BY DEF Copies
  <2> QED BY <2>1, FS_EmptySet
<1> QED BY <1>1 DEF Load, Present

(* The number of rows of a set counted once each is its cardinality.       *)
LEMMA SumRowSet ==
  ASSUME NEW S \in SUBSET Ids
  PROVE  Sum(RowSet(S)) = Cardinality(S)
<1> DEFINE r == RowSet(S)
<1>1. UNION {{i} \X (1..r[i]) : i \in Ids} = S \X {1}
  <2>1. \A i \in Ids : r[i] = IF i \in S THEN 1 ELSE 0
    BY DEF RowSet
  <2>2. 1..1 = {1} /\ 1..0 = {}
    OBVIOUS
  <2> HIDE DEF r
  <2>3. \A i \in Ids : {i} \X (1..r[i]) = IF i \in S THEN {i} \X {1} ELSE {}
    BY <2>1, <2>2
  <2> QED BY <2>3
<1>2. IsFiniteSet(S)
  BY IdsFinite, FS_Subset
<1>3. IsFiniteSet({1}) /\ Cardinality({1}) = 1
  BY FS_Singleton
<1>4. Cardinality(S \X {1}) = Cardinality(S) * 1 /\ Cardinality(S) \in Nat
  BY <1>2, <1>3, FS_Product, FS_CardinalityType
<1>5. Cardinality(S \X {1}) = Cardinality(S)
  BY <1>4
<1> QED
  BY <1>1, <1>5 DEF Sum

(* Counting rows yields a number.                                          *)
LEMMA SumType ==
  ASSUME NEW rows \in Rows
  PROVE  Sum(rows) \in Nat
<1>1. IsFiniteSet(UNION {{i} \X (1..rows[i]) : i \in Ids})
  BY IdsFinite, FiniteCopies DEF Rows
<1> QED
  BY <1>1, FS_CardinalityType DEF Sum

(* More rows have a larger sum, and one row more makes it larger by one.   *)
LEMMA SumMonotone ==
  ASSUME NEW x \in Rows, NEW y \in Rows, \A i \in Ids : x[i] <= y[i]
  PROVE  Sum(x) <= Sum(y)
<1> DEFINE X == UNION {{i} \X (1..x[i]) : i \in Ids}
           Y == UNION {{i} \X (1..y[i]) : i \in Ids}
<1>1. IsFiniteSet(Y)
  BY IdsFinite, FiniteCopies DEF Rows
<1>2. ASSUME NEW i \in Ids PROVE {i} \X (1..x[i]) \subseteq {i} \X (1..y[i])
  <2>1. x[i] \in Nat /\ y[i] \in Nat /\ x[i] <= y[i]
    BY DEF Rows
  <2>2. 1..x[i] \subseteq 1..y[i]
    BY <2>1
  <2> QED BY <2>2
<1>3. X \subseteq Y
  BY <1>2
<1> QED BY <1>1, <1>3, FS_Subset DEF Sum

LEMMA SumOneMore ==
  ASSUME NEW x \in Rows, NEW i \in Ids
  PROVE  /\ [x EXCEPT ![i] = @ + 1] \in Rows
         /\ Sum([x EXCEPT ![i] = @ + 1]) = Sum(x) + 1
<1> DEFINE y == [x EXCEPT ![i] = @ + 1]
           X == UNION {{j} \X (1..x[j]) : j \in Ids}
           Y == UNION {{j} \X (1..y[j]) : j \in Ids}
           n == x[i] + 1
<1>1. y \in Rows /\ x[i] \in Nat
  BY DEF Rows
<1>2. \A j \in Ids : y[j] = IF j = i THEN n ELSE x[j]
  BY DEF Rows
<1>3. 1..n = (1..x[i]) \cup {n} /\ n \notin 1..x[i]
  BY <1>1
<1>4. IsFiniteSet(X)
  BY IdsFinite, FiniteCopies DEF Rows
<1> HIDE DEF y, n
<1>5. Y = X \cup {<<i, n>>}
  <2>1. ASSUME NEW e \in Y PROVE e \in X \cup {<<i, n>>}
    <3>1. PICK j \in Ids : e \in {j} \X (1..y[j])
      OBVIOUS
    <3>2. CASE j # i
      <4>1. e \in {j} \X (1..x[j])
        BY <1>2, <3>1, <3>2
      <4> QED BY <4>1
    <3>3. CASE j = i
      <4>1. e \in {i} \X ((1..x[i]) \cup {n})
        BY <1>2, <1>3, <3>1, <3>3
      <4>2. e \in {i} \X (1..x[i]) \/ e = <<i, n>>
        BY <4>1
      <4> QED BY <4>2
    <3> QED BY <3>2, <3>3
  <2>2. ASSUME NEW e \in X PROVE e \in Y
    <3>1. PICK j \in Ids : e \in {j} \X (1..x[j])
      OBVIOUS
    <3>2. 1..x[j] \subseteq 1..y[j]
      BY <1>2, <1>3
    <3>3. e \in {j} \X (1..y[j])
      BY <3>1, <3>2
    <3> QED BY <3>3
  <2>3. <<i, n>> \in Y
    <3>1. <<i, n>> \in {i} \X (1..y[i])
      BY <1>2, <1>3
    <3> QED BY <3>1
  <2> QED BY <2>1, <2>2, <2>3
<1>6. <<i, n>> \notin X
  <2> SUFFICES ASSUME <<i, n>> \in X PROVE FALSE
    OBVIOUS
  <2>1. PICK j \in Ids : <<i, n>> \in {j} \X (1..x[j])
    OBVIOUS
  <2> QED BY <1>3, <2>1
<1>7. Cardinality(Y) = Cardinality(X) + 1
  BY <1>4, <1>5, <1>6, FS_AddElement
<1> QED BY <1>1, <1>7 DEF Sum, y

(* The operators on rows yield rows.                                       *)
LEMMA ProductType == \A x, y \in Nat : x * y \in Nat
OBVIOUS

LEMMA RowOperators ==
  /\ NoRows \in Rows
  /\ \A S \in SUBSET Ids : RowSet(S) \in Rows
  /\ \A x \in Rows, S \in SUBSET Ids : Where(x, S) \in Rows
  /\ \A x, y, z \in Rows : Join(x, y, z) \in Rows
<1>1. NoRows \in Rows
  BY DEF NoRows, Rows
<1>2. ASSUME NEW S \in SUBSET Ids PROVE RowSet(S) \in Rows
  BY DEF RowSet, Rows
<1>3. ASSUME NEW x \in Rows, NEW S \in SUBSET Ids PROVE Where(x, S) \in Rows
  BY DEF Where, Rows
<1>4. ASSUME NEW x \in Rows, NEW y \in Rows, NEW z \in Rows
      PROVE  Join(x, y, z) \in Rows
  <2>1. ASSUME NEW i \in Ids PROVE x[i] * y[i] * z[i] \in Nat
    <3>1. x[i] \in Nat /\ y[i] \in Nat /\ z[i] \in Nat
      BY DEF Rows
    <3> QED BY <3>1, ProductType
  <2> QED BY <2>1 DEF Join, Rows
<1> QED BY <1>1, <1>2, <1>3, <1>4

(* What publish writes is a report.                                        *)
LEMMA PublishReportType ==
  ASSUME NEW s \in Servers, NEW x \in Rows, NEW y \in Rows
  PROVE  PublishReport(s, x, y) \in Reports
<1> DEFINE mine == TotalShare(s, x)
           theirs == TotalShare(Peer(s), y)
           shares == ShareOrder(s, mine, theirs)
<1>1. Accepted(s) \in SUBSET Ids /\ Accepted(Peer(s)) \in SUBSET Ids
  BY HonestType DEF Accepted
<1>2. mine \in Rows /\ theirs \in Rows
  BY <1>1, RowOperators DEF TotalShare
<1>3. shares[1] \in Rows
  BY <1>2 DEF ShareOrder
<1>4. TotalShareFinal(shares[1], shares[2]) \in Rows \cup {Garbled}
  BY <1>3 DEF TotalShareFinal
<1>5. Sum(Where(x, Ids \ Accepted(s))) \in Nat /\ Sum(x) \in Nat
  BY RowOperators, SumType
<1> QED
  BY <1>4, <1>5 DEF PublishReport, UdfPublish, Reports

-----------------------------------------------------------------------------
(* On datasets without duplicates the jobs are operations on sets of ids.  *)

LEMMA WhereRowSet ==
  ASSUME NEW S \in SUBSET Ids, NEW T
  PROVE  Where(RowSet(S), T) = RowSet(S \cap T)
BY DEF Where, RowSet

LEMMA JoinRowSet ==
  ASSUME NEW R \in SUBSET Ids, NEW X \in SUBSET Ids, NEW Y \in SUBSET Ids
  PROVE  Join(RowSet(R), RowSet(X), RowSet(Y)) = RowSet(R \cap X \cap Y)
<1>1. ASSUME NEW i \in Ids
      PROVE  RowSet(R)[i] * RowSet(X)[i] * RowSet(Y)[i] = RowSet(R \cap X \cap Y)[i]
  <2>1. CASE i \in R /\ i \in X /\ i \in Y
    BY <2>1 DEF RowSet
  <2>2. CASE i \notin Y
    <3>1. RowSet(Y)[i] = 0 /\ RowSet(R \cap X \cap Y)[i] = 0
      BY <2>2 DEF RowSet
    <3>2. RowSet(R)[i] \in Nat /\ RowSet(X)[i] \in Nat
      BY DEF RowSet
    <3>3. RowSet(R)[i] * RowSet(X)[i] \in Nat
      BY <3>2, ProductType
    <3> QED BY <3>1, <3>3
  <2>3. CASE i \notin R \/ i \notin X
    <3>1. RowSet(R)[i] * RowSet(X)[i] = 0 /\ RowSet(R \cap X \cap Y)[i] = 0
      BY <2>3 DEF RowSet
    <3>2. RowSet(Y)[i] \in Nat
      BY DEF RowSet
    <3> QED BY <3>1, <3>2
  <2> QED BY <2>1, <2>2, <2>3
<1> QED BY <1>1 DEF Join, RowSet

(* Two servers that each aggregated the same rows, decodable by both,      *)
(* publish the report of those rows, whichever server publishes.           *)
LEMMA PublishSameRows ==
  ASSUME NEW s \in Servers,
         NEW J \in SUBSET Ids, J \subseteq Decodes[s], J \subseteq Decodes[Peer(s)]
  PROVE  PublishReport(s, RowSet(J), RowSet(J)) = Report(J)
<1> DEFINE sum == RowSet(J \cap Honest)
<1>1. J \cap Accepted(s) = J \cap Honest /\ J \cap Accepted(Peer(s)) = J \cap Honest
  BY DEF Accepted
<1>2. TotalShare(s, RowSet(J)) = sum /\ TotalShare(Peer(s), RowSet(J)) = sum
  BY <1>1, WhereRowSet DEF TotalShare
<1>3. ShareOrder(s, sum, sum) = <<sum, sum>>
  BY DEF ShareOrder
<1>4. Where(RowSet(J), Ids \ Accepted(s)) = RowSet(J \ Honest)
  <2>1. J \cap (Ids \ Accepted(s)) = J \ Honest
    BY DEF Accepted
  <2> QED BY <2>1, WhereRowSet
<1>5. /\ Sum(Where(RowSet(J), Ids \ Accepted(s))) = Cardinality(J \ Honest)
      /\ Sum(RowSet(J)) = Cardinality(J)
  BY <1>4, SumRowSet
<1> HIDE DEF sum
<1> QED
  BY <1>2, <1>3, <1>5 DEF PublishReport, UdfPublish, TotalShareFinal, Report, sum
=============================================================================
