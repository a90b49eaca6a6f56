----------------------------- MODULE PprofProofs -----------------------------
(***************************************************************************)
(* Facts about the string table and the builder of Pprof, for any strings, *)
(* frames and stacks: what is in a table or a builder keeps its id, a list *)
(* of locations reads as the stack it was made for, and a profile that     *)
(* encode() makes reads as its reports.  The proofs about Profiles and     *)
(* about Reports rest on them.                                             *)
(***************************************************************************)
EXTENDS Pprof, SequenceTheorems, FiniteSetTheorems, WellFoundedInduction, TLAPS

-----------------------------------------------------------------------------
(***************************************************************************)
(* Sequences                                                               *)
(***************************************************************************)

\* A table, a list of ids or of samples is a sequence, whatever its elements are.
IsSeq(s) == s \in Seq({s[i] : i \in DOMAIN s})

\* A sequence that holds nothing twice.
Distinct(s) == IsSeq(s) /\ IsInjective(s)

\* The elements of t keep their indices in u.
Extends(t, u) == Len(t) =< Len(u) /\ \A i \in 1 .. Len(t) : u[i] = t[i]

\* f is a function.
IsFcn(f) == f = [x \in DOMAIN f |-> f[x]]

\* A sequence of some set is one.
LEMMA SeqIs == ASSUME NEW S, NEW s \in Seq(S) PROVE IsSeq(s)
<1>1. Len(s) \in Nat /\ DOMAIN s = 1 .. Len(s) /\ s = [i \in 1 .. Len(s) |-> s[i]]
  OBVIOUS
<1> DEFINE V == {s[i] : i \in DOMAIN s}
<1>2. s \in [1 .. Len(s) -> V]
  BY <1>1
<1> HIDE DEF V
<1>3. s \in Seq(V)
  BY <1>1, <1>2
<1> QED BY <1>3 DEF IsSeq, V

\* Its length and its indices.
LEMMA SeqFacts ==
    ASSUME NEW t, IsSeq(t)
    PROVE  Len(t) \in Nat /\ DOMAIN t = 1 .. Len(t)
<1> DEFINE V == {t[i] : i \in DOMAIN t}
<1>1. t \in Seq(V)
  BY Zenon DEF IsSeq
<1> HIDE DEF V
<1> QED BY <1>1, LenProperties

\* A sequence extends itself.
LEMMA ExtendsSelf == ASSUME NEW s, IsSeq(s) PROVE Extends(s, s)
BY SeqFacts DEF Extends

\* A sequence extends those that the ones it extends do.
LEMMA ExtendsOn ==
    ASSUME NEW s, NEW u, NEW v, IsSeq(s), IsSeq(u), IsSeq(v), Extends(s, u), Extends(u, v)
    PROVE  Extends(s, v)
<1>1. Len(s) \in Nat /\ Len(u) \in Nat /\ Len(v) \in Nat
  BY SeqFacts, Zenon
<1> QED BY <1>1 DEF Extends

\* What is added is in the sequence, and the rest keeps its place.
LEMMA WithKeeps ==
    ASSUME NEW s, Distinct(s), NEW x
    PROVE  /\ Distinct(With(s, x)) /\ Extends(s, With(s, x))
           /\ IdIn(s, x) \in 1 .. Len(With(s, x)) /\ With(s, x)[IdIn(s, x)] = x
           /\ \A i \in 1 .. Len(With(s, x)) : With(s, x)[i] = x \/ i \in 1 .. Len(s)
<1> DEFINE V == {s[i] : i \in DOMAIN s}
<1>0. s \in Seq(V) /\ Len(s) \in Nat /\ DOMAIN s = 1 .. Len(s)
  BY SeqFacts, Zenon DEF Distinct, IsSeq
<1>1. CASE Contains(s, x)
  <2>1. \E i \in DOMAIN s : s[i] = x
    BY <1>0, <1>1 DEF Contains
  <2> DEFINE j == CHOOSE i \in DOMAIN s : s[i] = x
  <2>2. j \in DOMAIN s /\ s[j] = x
    BY <2>1
  <2>3. IdIn(s, x) = j /\ With(s, x) = s
    BY <1>1 DEF IdIn, With
  <2> HIDE DEF j
  <2> QED BY <1>0, <2>2, <2>3 DEF Extends
<1>2. CASE ~Contains(s, x)
  <2> DEFINE u == Append(s, x)
  <2> HIDE DEF V
  <2>1. x \in V \cup {x} /\ s \in Seq(V \cup {x})
    BY <1>0
  <2>2. /\ u \in Seq(V \cup {x}) /\ Len(u) = Len(s) + 1
        /\ \A i \in 1 .. Len(s) : u[i] = s[i] 
        /\ u[Len(s) + 1] = x
    BY <2>1, <1>0, AppendProperties
  <2> HIDE DEF u
  <2>3. IsSeq(u)
    BY <2>2, SeqIs, Zenon
  <2>4. DOMAIN u = 1 .. Len(u)
    BY <2>2
  <2>5. \A i \in 1 .. Len(s) : u[i] # x
    BY <2>2, <1>0, <1>2 DEF Contains
  <2>6. IsInjective(u)
    <3>1. \A i, j \in 1 .. Len(s) : s[i] = s[j] => i = j
      BY <1>0 DEF Distinct, IsInjective
    <3>2. \A i, j \in 1 .. Len(s) + 1 : u[i] = u[j] => i = j
      BY <3>1, <2>2, <2>5, <1>0, SMT
    <3> QED BY <3>2, <2>2, <2>4 DEF IsInjective
  <2>7. With(s, x) = u /\ IdIn(s, x) = Len(s) + 1
    BY <1>2 DEF With, IdIn, u
  <2>8. Extends(s, u)
    BY <2>2, <1>0 DEF Extends
  <2>9. \A i \in 1 .. Len(u) : u[i] = x \/ i \in 1 .. Len(s)
    BY <2>2, <1>0
  <2>10. Len(s) + 1 \in 1 .. Len(u)
    BY <2>2, <1>0
  <2> QED BY <2>2, <2>3, <2>6, <2>7, <2>8, <2>9, <2>10 DEF Distinct
<1> QED BY <1>1, <1>2

\* The id of what is in a sequence is where it is.
LEMMA IdUnique ==
    ASSUME NEW s, Distinct(s), NEW i \in 1 .. Len(s)
    PROVE  IdIn(s, s[i]) = i
<1>0. Len(s) \in Nat /\ DOMAIN s = 1 .. Len(s)
  BY SeqFacts, Zenon DEF Distinct
<1>1. \A j \in DOMAIN s : s[j] = s[i] => j = i
  BY <1>0, Zenon DEF Distinct, IsInjective
<1>2. Contains(s, s[i])
  BY <1>0 DEF Contains
<1> QED BY <1>0, <1>1, <1>2 DEF IdIn

\* SetToSeq lists a finite set, each element once.
LEMMA Listed ==
    ASSUME NEW S, IsFiniteSet(S)
    PROVE  /\ Cardinality(S) \in Nat
           /\ SetToSeq(S) \in Injection(1 .. Cardinality(S), S)
           /\ SetToSeq(S) \in Surjection(1 .. Cardinality(S), S)
<1>1. Cardinality(S) \in Nat /\ \E f : f \in Bijection(1 .. Cardinality(S), S)
  BY FS_CardinalityType DEF ExistsBijection
<1>2. PICK f : f \in Bijection(1 .. Cardinality(S), S)
  BY <1>1
<1>3. f \in [1 .. Cardinality(S) -> S] /\ IsInjective(f)
  BY <1>2 DEF Bijection, Injection, Surjection, IsInjective
<1> DEFINE g == SetToSeq(S)
<1>4. g \in [1 .. Cardinality(S) -> S] /\ IsInjective(g)
  BY <1>3 DEF SetToSeq
<1> HIDE DEF g
<1>5. g \in Injection(1 .. Cardinality(S), S)
  BY <1>4 DEF Injection, IsInjective
<1>6. IsFiniteSet(1 .. Cardinality(S)) /\ Cardinality(1 .. Cardinality(S)) = Cardinality(S)
  BY <1>1, FS_Interval
<1>7. g \in Surjection(1 .. Cardinality(S), S)
  BY <1>5, <1>6, FS_Injection
<1> QED BY <1>1, <1>5, <1>7 DEF g

-----------------------------------------------------------------------------
(***************************************************************************)
(* The string table                                                        *)
(***************************************************************************)

\* A string table: the empty string first, and no string twice.
IsTable(t) == IsSeq(t) /\ Len(t) > 0 /\ IsInjective(t) /\ t[1] = ""

\* A string that is added is in the table, and the others keep their indices
\* (StringTable::add).
LEMMA AddKeeps ==
    ASSUME NEW t, IsTable(t), NEW s
    PROVE  IsTable(add(t, s)) /\ Extends(t, add(t, s)) /\ Contains(add(t, s), s)
<1> DEFINE u == add(t, s)
<1>1. u = With(t, s)
  BY DEF add, With
<1>2. /\ Distinct(u) /\ Extends(t, u) /\ IdIn(t, s) \in 1 .. Len(u) /\ u[IdIn(t, s)] = s
  BY <1>1, WithKeeps, Zenon DEF IsTable, Distinct
<1> HIDE DEF u
<1>3. Len(t) \in Nat /\ Len(u) \in Nat /\ DOMAIN u = 1 .. Len(u)
  BY <1>2, SeqFacts, Zenon DEF IsTable, Distinct
<1>4. Len(u) > 0 /\ u[1] = ""
  <2>1. Len(t) > 0
    BY Zenon DEF IsTable
  <2>2. Len(t) =< Len(u)
    BY <1>2, Zenon DEF Extends
  <2>3. 1 \in 1 .. Len(t) /\ Len(u) > 0
    BY ONLY <1>3, <2>1, <2>2
  <2> QED BY <1>2, <2>3, Zenon DEF IsTable, Extends
<1>5. Contains(u, s)
  BY <1>2, <1>3 DEF Contains
<1> QED BY <1>2, <1>4, <1>5, Zenon DEF IsTable, Distinct, u

\* The index of a string of the table is the one it is at.
LEMMA IndexResolves ==
    ASSUME NEW t, IsTable(t), NEW s, Contains(t, s)
    PROVE  IndexOf(t, s) \in Nat /\ IndexOf(t, s) < Len(t) /\ t[IndexOf(t, s) + 1] = s
<1>1. Len(t) \in Nat /\ DOMAIN t = 1 .. Len(t)
  BY SeqFacts, Zenon DEF IsTable
<1> DEFINE j == CHOOSE i \in DOMAIN t : t[i] = s
<1>2. j \in DOMAIN t /\ t[j] = s
  BY <1>1 DEF Contains
<1>3. IndexOf(t, s) = j - 1
  BY DEF IndexOf
<1> HIDE DEF j
<1>4. j \in Int /\ j - 1 \in Nat /\ j - 1 < Len(t) /\ j - 1 + 1 = j
  BY <1>1, <1>2
<1> QED BY <1>2, <1>3, <1>4

\* Tables that extend one another.
LEMMA ExtendsTransitive ==
    ASSUME NEW t, NEW u, NEW v, IsTable(t), IsTable(u), IsTable(v),
           Extends(t, u), Extends(u, v)
    PROVE  Extends(t, v)
<1>1. Len(t) \in Nat /\ Len(u) \in Nat /\ Len(v) \in Nat
  BY SeqFacts, Zenon DEF IsTable
<1> QED BY <1>1 DEF Extends

\* A string of a table is one of those that extend it.
LEMMA ContainsOn ==
    ASSUME NEW t, NEW u, IsTable(t), IsTable(u), Extends(t, u), NEW s, Contains(t, s)
    PROVE  Contains(u, s)
<1>1. Len(u) \in Nat /\ Len(t) \in Nat /\ DOMAIN u = 1 .. Len(u) /\ DOMAIN t = 1 .. Len(t)
  BY SeqFacts, Zenon DEF IsTable
<1> QED BY <1>1 DEF Contains, Extends

\* The empty table.
LEMMA NewIsTable == IsTable(NewTable)
<1>1. NewTable \in Seq({""}) /\ Len(NewTable) > 0 /\ NewTable[1] = ""
  BY DEF NewTable
<1>2. IsInjective(NewTable)
  <2>1. DOMAIN NewTable = {1}
    BY DEF NewTable
  <2> QED BY <2>1, Zenon DEF IsInjective
<1> QED BY <1>1, <1>2, SeqIs, Zenon DEF IsTable

\* The type and the unit at i and i + 1 are in the table.
HasType(t, k, i) == Contains(t, Types[k][i]) /\ Contains(t, Types[k][i + 1])

\* The types of k are in the table.
Typed(t, k) == \A i \in DOMAIN Types[k] : Contains(t, Types[k][i])

\* The type and the unit of a value are added.
LEMMA TypeAdded ==
    ASSUME NEW s, NEW t, IsTable(s), IsTable(t), Extends(s, t), NEW k, NEW i
    PROVE  /\ IsTable(add_type(t, k, i)) /\ Extends(s, add_type(t, k, i))
           /\ HasType(add_type(t, k, i), k, i)
           /\ \A j : HasType(t, k, j) => HasType(add_type(t, k, i), k, j)
<1> DEFINE u == add(t, Types[k][i])
<1>1. IsTable(u) /\ Extends(t, u) /\ Contains(u, Types[k][i])
  BY AddKeeps
<1> HIDE DEF u
<1> DEFINE v == add(u, Types[k][i + 1])
<1>2. IsTable(v) /\ Extends(u, v) /\ Contains(v, Types[k][i + 1])
  BY <1>1, AddKeeps
<1> HIDE DEF v
<1>3. Extends(t, v)
  BY <1>1, <1>2, ExtendsTransitive
<1>4. Extends(s, v)
  BY <1>2, <1>3, ExtendsTransitive
<1>5. \A x : Contains(t, x) \/ Contains(u, x) => Contains(v, x)
  BY <1>1, <1>2, <1>3, ContainsOn
<1>6. v = add_type(t, k, i)
  BY DEF v, u, add_type
<1> QED BY <1>1, <1>2, <1>4, <1>5, <1>6, Zenon DEF HasType

\* The types of a profile are added to the table like any other string
\* (set_profile_type).
LEMMA TypesAdded ==
    ASSUME NEW t, IsTable(t), NEW k \in DOMAIN Types
    PROVE  /\ IsTable(set_profile_type(t, k)) /\ Extends(t, set_profile_type(t, k))
           /\ Typed(set_profile_type(t, k), k)
<1>0. Extends(t, t)
  BY ExtendsSelf, Zenon DEF IsTable
<1>1. CASE k = "memory"
  <2> DEFINE a == add_type(t, k, 1)
  <2> DEFINE b == add_type(a, k, 3)
  <2> DEFINE c == add_type(b, k, 5)
  <2> DEFINE d == add_type(c, k, 7)
  <2> DEFINE e == add_type(d, k, 9)
  <2>1. IsTable(a) /\ Extends(t, a) /\ HasType(a, k, 1)
    BY <1>0, TypeAdded
  <2> HIDE DEF a
  <2>2. IsTable(b) /\ Extends(t, b) /\ HasType(b, k, 1) /\ HasType(b, k, 3)
    BY <2>1, TypeAdded
  <2> HIDE DEF b
  <2>3. IsTable(c) /\ Extends(t, c) /\ HasType(c, k, 1) /\ HasType(c, k, 3) /\ HasType(c, k, 5)
    BY <2>2, TypeAdded
  <2> HIDE DEF c
  <2>4. /\ IsTable(d) /\ Extends(t, d) /\ HasType(d, k, 1) /\ HasType(d, k, 3)
        /\ HasType(d, k, 5) /\ HasType(d, k, 7)
    BY <2>3, TypeAdded
  <2> HIDE DEF d
  <2>5. /\ IsTable(e) /\ Extends(t, e) /\ HasType(e, k, 1) /\ HasType(e, k, 3)
        /\ HasType(e, k, 5) /\ HasType(e, k, 7) /\ HasType(e, k, 9)
    BY <2>4, TypeAdded
  <2> HIDE DEF e
  <2>6. DOMAIN Types[k] = 1 .. 10 /\ Len(Types[k]) - 1 = 9
    BY <1>1 DEF Types
  <2>7. set_profile_type(t, k) = e
    BY <1>1, <2>6 DEF set_profile_type, a, b, c, d, e
  <2>8. \A i \in 1 .. 10 : Contains(e, Types[k][i])
    BY ONLY <2>5 DEF HasType
  <2> QED BY <2>5, <2>6, <2>7, <2>8 DEF Typed
<1>2. CASE k = "wall"
  <2> DEFINE a == add_type(t, k, 1)
  <2> DEFINE b == add_type(a, k, 3)
  <2> DEFINE e == add_type(b, k, 5)
  <2>1. IsTable(a) /\ Extends(t, a) /\ HasType(a, k, 1)
    BY <1>0, TypeAdded
  <2> HIDE DEF a
  <2>2. IsTable(b) /\ Extends(t, b) /\ HasType(b, k, 1) /\ HasType(b, k, 3)
    BY <2>1, TypeAdded
  <2> HIDE DEF b
  <2>5. IsTable(e) /\ Extends(t, e) /\ HasType(e, k, 1) /\ HasType(e, k, 3) /\ HasType(e, k, 5)
    BY <2>2, TypeAdded
  <2> HIDE DEF e
  <2>6. DOMAIN Types[k] = 1 .. 6 /\ Len(Types[k]) - 1 = 5
    BY <1>2 DEF Types
  <2>7. set_profile_type(t, k) = e
    BY <1>2, <2>6 DEF set_profile_type, a, b, e
  <2>8. \A i \in 1 .. 6 : Contains(e, Types[k][i])
    BY ONLY <2>5 DEF HasType
  <2> QED BY <2>5, <2>6, <2>7, <2>8 DEF Typed
<1>3. CASE k \in {"cpu", "pyspy"}
  <2> DEFINE a == add_type(t, k, 1)
  <2> DEFINE e == add_type(a, k, 3)
  <2>1. IsTable(a) /\ Extends(t, a) /\ HasType(a, k, 1)
    BY <1>0, TypeAdded
  <2> HIDE DEF a
  <2>5. IsTable(e) /\ Extends(t, e) /\ HasType(e, k, 1) /\ HasType(e, k, 3)
    BY <2>1, TypeAdded
  <2> HIDE DEF e
  <2>6. DOMAIN Types[k] = 1 .. 4 /\ Len(Types[k]) - 1 = 3
    BY <1>3 DEF Types
  <2>7. set_profile_type(t, k) = e
    BY <1>3, <2>6 DEF set_profile_type, a, e
  <2>8. \A i \in 1 .. 4 : Contains(e, Types[k][i])
    BY ONLY <2>5 DEF HasType
  <2> QED BY <2>5, <2>6, <2>7, <2>8 DEF Typed
<1>4. DOMAIN Types = {"memory", "wall", "cpu", "pyspy"}
  BY DEF Types
<1> QED BY <1>1, <1>2, <1>3, <1>4

\* A profile with the string table t shows the types of k.
LEMMA TypesSeen ==
    ASSUME NEW p, NEW t, IsTable(t), NEW k \in DOMAIN Types, Typed(t, k),
           p.types = TypeIds(t, k), p.string_table = t
    PROVE  SeenTypes(p) = Types[k]
<1>1. p.types = [i \in DOMAIN Types[k] |-> IndexOf(t, Types[k][i])]
  BY DEF TypeIds
<1>2. \A i \in DOMAIN Types[k] : t[IndexOf(t, Types[k][i]) + 1] = Types[k][i]
  BY IndexResolves, Zenon DEF Typed
<1>3. SeenTypes(p) = [i \in DOMAIN Types[k] |-> Types[k][i]]
  BY <1>1, <1>2 DEF SeenTypes, Str
<1>4. Types[k] = [i \in DOMAIN Types[k] |-> Types[k][i]]
  BY DEF Types
<1> QED BY <1>3, <1>4

-----------------------------------------------------------------------------
(***************************************************************************)
(* Induction, and folds as the values they go through                      *)
(***************************************************************************)

\* A set of numbers that has 0, and with each number the next, has them all.
LEMMA Induct ==
    ASSUME NEW S, 0 \in S, \A n \in Nat : n \in S => n + 1 \in S
    PROVE  Nat \subseteq S
<1> DEFINE R == OpToRel(<, Nat)
<1> DEFINE T == Nat \ S
<1>1. IsWellFoundedOn(R, Nat)
  BY NatLessThanWellFounded
<1>2. \A x, y \in Nat : y < x => <<y, x>> \in R
  BY DEF OpToRel
<1> HIDE DEF R
<1> SUFFICES ASSUME T # {} PROVE FALSE
  OBVIOUS
<1>3. T \subseteq Nat
  OBVIOUS
<1> HIDE DEF T
<1>4. PICK x \in T : \A y \in T : ~(<<y, x>> \in R)
  BY <1>1, <1>3, WFMin
<1> USE DEF T
<1>5. x \in Nat /\ x # 0 /\ x - 1 \in Nat /\ x - 1 < x
  OBVIOUS
<1>6. x - 1 \notin T
  BY <1>2, <1>4, <1>5
<1> QED BY <1>5, <1>6

\* A function of the sets of the first n + 1 indices: f on those without n + 1,
\* v of the rest on the others.
Grown(g, f, v, n) ==
    /\ g = [T \in SUBSET (1 .. n + 1) |-> g[T]] /\ g[{}] = f[{}]
    /\ \A T \in SUBSET (1 .. n + 1) : T # {} =>
         LET U == T \ {Max(T)}
         IN  /\ U \in SUBSET (1 .. n) /\ g[U] = f[U]
             /\ \/ Max(T) = n + 1 /\ g[T] = v[U]
                \/ T \in SUBSET (1 .. n) /\ g[T] = f[T]

\* There is one.
LEMMA Growth == ASSUME NEW n \in Nat, NEW f, NEW v PROVE \E g : Grown(g, f, v, n)
<1> DEFINE g == [T \in SUBSET (1 .. n + 1) |->
                   IF n + 1 \in T THEN v[T \ {n + 1}] ELSE f[T]]
<1>1. \A U \in SUBSET (1 .. n) : U \in SUBSET (1 .. n + 1) /\ n + 1 \notin U
  OBVIOUS
<1>2. \A U \in SUBSET (1 .. n) : g[U] = f[U]
  BY <1>1
<1>3. {} \in SUBSET (1 .. n) /\ g = [T \in SUBSET (1 .. n + 1) |-> g[T]]
  OBVIOUS
<1>4. ASSUME NEW T \in SUBSET (1 .. n + 1), T # {}
      PROVE  LET U == T \ {Max(T)}
             IN  /\ U \in SUBSET (1 .. n) /\ g[U] = f[U]
                 /\ \/ Max(T) = n + 1 /\ g[T] = v[U]
                    \/ T \in SUBSET (1 .. n) /\ g[T] = f[T]
  <2>1. CASE n + 1 \in T
    <3>1. \A x \in T : n + 1 >= x /\ (x >= n + 1 => x = n + 1)
      OBVIOUS
    <3>2. Max(T) = n + 1
      BY <2>1, <3>1 DEF Max
    <3>3. T \ {n + 1} \in SUBSET (1 .. n) /\ g[T] = v[T \ {n + 1}]
      BY <2>1
    <3> HIDE DEF g
    <3> QED BY <1>2, <3>2, <3>3
  <2>2. CASE n + 1 \notin T
    <3>1. T \in SUBSET (1 .. n) /\ g[T] = f[T]
      <4>1. \A x \in T : x \in 1 .. n
        BY <2>2
      <4> QED BY <2>2, <4>1
    <3>2. T \ {Max(T)} \in SUBSET (1 .. n)
      BY <3>1
    <3> HIDE DEF g
    <3> QED BY <1>2, <3>1, <3>2
  <2> QED BY <2>1, <2>2
<1> HIDE DEF g
<1>5. g[{}] = f[{}]
  BY <1>2, <1>3
<1>6. Grown(g, f, v, n)
  BY <1>3, <1>4, <1>5, Zenon DEF Grown
<1> QED BY <1>6

\* The first i + 1 indices, and without the largest of them.
LEMMA FirstIndices ==
    ASSUME NEW n \in Nat
    PROVE  /\ 1 .. 0 = {} /\ {} \in SUBSET (1 .. n) /\ 0 \in 0 .. n /\ n \in 0 .. n
           /\ \A i \in 0 .. n - 1 :
                /\ i \in 0 .. n /\ i + 1 \in 0 .. n /\ 1 .. i + 1 \in SUBSET (1 .. n)
                /\ 1 .. i + 1 # {}
                /\ Max(1 .. i + 1) = i + 1 /\ (1 .. i + 1) \ {i + 1} = 1 .. i
<1>1. ASSUME NEW i \in 0 .. n - 1 PROVE Max(1 .. i + 1) = i + 1
  <2>1. i + 1 \in 1 .. i + 1 /\ \A x \in 1 .. i + 1 : i + 1 >= x /\ (x >= i + 1 => x = i + 1)
    OBVIOUS
  <2> QED BY <2>1 DEF Max
<1>2. \A i \in 0 .. n - 1 : /\ i \in 0 .. n /\ i + 1 \in 0 .. n /\ i + 1 \in 1 .. i + 1
                            /\ (1 .. i + 1) \ {i + 1} = 1 .. i
                            /\ 1 .. i + 1 \in SUBSET (1 .. n) /\ 1 .. i + 1 # {}
  OBVIOUS
<1>3. 1 .. 0 = {} /\ {} \in SUBSET (1 .. n) /\ 0 \in 0 .. n /\ n \in 0 .. n
  OBVIOUS
<1> QED BY <1>1, <1>2, <1>3, Zenon

\* The function that add_all(t, s) is defined by, on the first n strings, and the
\* tables it goes through.
AddFold(f, t, s, n) ==
    f = [T \in SUBSET (1 .. n) |->
           IF T = {} THEN t ELSE add(f[T \ {Max(T)}], s[Max(T)])]

AddRun(g, t, s, n) ==
    /\ g[0] = t /\ g[n] = add_all(t, s)
    /\ \A i \in 0 .. n - 1 : g[i + 1] = add(g[i], s[i + 1])

\* add_all goes through a table for each string.
LEMMA AddSteps ==
    ASSUME NEW t, NEW s, NEW n \in Nat, DOMAIN s = 1 .. n
    PROVE  \E g : AddRun(g, t, s, n)
<1> DEFINE S == {m \in Nat : \E f : AddFold(f, t, s, m)}
<1>1. 0 \in S
  <2> DEFINE f == [T \in SUBSET (1 .. 0) |-> t]
  <2>1. AddFold(f, t, s, 0)
    BY DEF AddFold
  <2> QED BY <2>1
<1>2. ASSUME NEW m \in Nat, m \in S PROVE m + 1 \in S
  <2> PICK f : AddFold(f, t, s, m)
    BY <1>2
  <2> DEFINE v == [U \in SUBSET (1 .. m) |-> add(f[U], s[m + 1])]
  <2> PICK g : Grown(g, f, v, m)
    BY Growth
  <2>1. g = [T \in SUBSET (1 .. m + 1) |-> g[T]] /\ g[{}] = t
    BY DEF Grown, AddFold
  <2>2. ASSUME NEW T \in SUBSET (1 .. m + 1), T # {}
        PROVE  g[T] = add(g[T \ {Max(T)}], s[Max(T)])
    <3> DEFINE U == T \ {Max(T)}
    <3>1. /\ U \in SUBSET (1 .. m) /\ g[U] = f[U]
          /\ \/ Max(T) = m + 1 /\ g[T] = v[U]
             \/ T \in SUBSET (1 .. m) /\ g[T] = f[T]
      BY <2>2, Zenon DEF Grown
    <3>2. T \in SUBSET (1 .. m) => f[T] = add(f[U], s[Max(T)])
      BY <2>2, Zenon DEF AddFold
    <3>3. v[U] = add(f[U], s[m + 1])
      BY <3>1
    <3> QED BY <3>1, <3>2, <3>3, Zenon
  <2>3. AddFold(g, t, s, m + 1)
    BY <2>1, <2>2, Zenon DEF AddFold
  <2> QED BY <2>3
<1> HIDE DEF S
<1>3. n \in S
  BY <1>1, <1>2, Induct
<1> DEFINE f == CHOOSE f : AddFold(f, t, s, n)
<1>4. AddFold(f, t, s, n)
  BY <1>3 DEF S
<1>5. add_all(t, s) = f[1 .. n]
  BY DEF add_all, FoldLeft, MapThenFoldSet, AddFold
<1> HIDE DEF f
<1> DEFINE g == [i \in 0 .. n |-> f[1 .. i]]
<1>6. g[0] = t /\ g[n] = add_all(t, s)
  <2>1. f[{}] = t
    BY <1>4, Zenon DEF AddFold
  <2> QED BY <1>5, <2>1, FirstIndices
<1>7. ASSUME NEW i \in 0 .. n - 1 PROVE g[i + 1] = add(g[i], s[i + 1])
  <2> DEFINE T == 1 .. i + 1
  <2>1. /\ T \in SUBSET (1 .. n) /\ T # {} /\ Max(T) = i + 1 /\ T \ {i + 1} = 1 .. i
        /\ i \in 0 .. n /\ i + 1 \in 0 .. n
    BY FirstIndices
  <2>2. f[T] = add(f[T \ {Max(T)}], s[Max(T)])
    BY <1>4, <2>1, Zenon DEF AddFold
  <2> QED BY <2>1, <2>2
<1> QED BY <1>6, <1>7 DEF AddRun

\* The builder b with the frames s.
Framed(b, s) == FoldLeft(AddFrame, b, s)

\* The same for the frames.
FrameFold(f, b, s, n) ==
    f = [T \in SUBSET (1 .. n) |->
           IF T = {} THEN b ELSE AddFrame(f[T \ {Max(T)}], s[Max(T)])]

FrameRun(g, b, s, n) ==
    /\ g[0] = b /\ g[n] = Framed(b, s)
    /\ \A i \in 0 .. n - 1 : g[i + 1] = AddFrame(g[i], s[i + 1])

\* Adding frames goes through a builder for each.
LEMMA FrameSteps ==
    ASSUME NEW b, NEW s, NEW n \in Nat, DOMAIN s = 1 .. n
    PROVE  \E g : FrameRun(g, b, s, n)
<1> DEFINE S == {m \in Nat : \E f : FrameFold(f, b, s, m)}
<1>1. 0 \in S
  <2> DEFINE f == [T \in SUBSET (1 .. 0) |-> b]
  <2>1. FrameFold(f, b, s, 0)
    BY DEF FrameFold
  <2> QED BY <2>1
<1>2. ASSUME NEW m \in Nat, m \in S PROVE m + 1 \in S
  <2> PICK f : FrameFold(f, b, s, m)
    BY <1>2
  <2> DEFINE v == [U \in SUBSET (1 .. m) |-> AddFrame(f[U], s[m + 1])]
  <2> PICK g : Grown(g, f, v, m)
    BY Growth
  <2>1. g = [T \in SUBSET (1 .. m + 1) |-> g[T]] /\ g[{}] = b
    BY DEF Grown, FrameFold
  <2>2. ASSUME NEW T \in SUBSET (1 .. m + 1), T # {}
        PROVE  g[T] = AddFrame(g[T \ {Max(T)}], s[Max(T)])
    <3> DEFINE U == T \ {Max(T)}
    <3>1. /\ U \in SUBSET (1 .. m) /\ g[U] = f[U]
          /\ \/ Max(T) = m + 1 /\ g[T] = v[U]
             \/ T \in SUBSET (1 .. m) /\ g[T] = f[T]
      BY <2>2, Zenon DEF Grown
    <3>2. T \in SUBSET (1 .. m) => f[T] = AddFrame(f[U], s[Max(T)])
      BY <2>2, Zenon DEF FrameFold
    <3>3. v[U] = AddFrame(f[U], s[m + 1])
      BY <3>1
    <3> QED BY <3>1, <3>2, <3>3, Zenon
  <2>3. FrameFold(g, b, s, m + 1)
    BY <2>1, <2>2, Zenon DEF FrameFold
  <2> QED BY <2>3
<1> HIDE DEF S
<1>3. n \in S
  BY <1>1, <1>2, Induct
<1> DEFINE f == CHOOSE f : FrameFold(f, b, s, n)
<1>4. FrameFold(f, b, s, n)
  BY <1>3 DEF S
<1>5. Framed(b, s) = f[1 .. n]
  BY DEF Framed, FoldLeft, MapThenFoldSet, FrameFold
<1> HIDE DEF f
<1> DEFINE g == [i \in 0 .. n |-> f[1 .. i]]
<1>6. g[0] = b /\ g[n] = Framed(b, s)
  <2>1. f[{}] = b
    BY <1>4, Zenon DEF FrameFold
  <2> QED BY <1>5, <2>1, FirstIndices
<1>7. ASSUME NEW i \in 0 .. n - 1 PROVE g[i + 1] = AddFrame(g[i], s[i + 1])
  <2> DEFINE T == 1 .. i + 1
  <2>1. /\ T \in SUBSET (1 .. n) /\ T # {} /\ Max(T) = i + 1 /\ T \ {i + 1} = 1 .. i
        /\ i \in 0 .. n /\ i + 1 \in 0 .. n
    BY FirstIndices
  <2>2. f[T] = AddFrame(f[T \ {Max(T)}], s[Max(T)])
    BY <1>4, <2>1, Zenon DEF FrameFold
  <2> QED BY <2>1, <2>2
<1> QED BY <1>6, <1>7 DEF FrameRun

-----------------------------------------------------------------------------
(***************************************************************************)
(* The builder                                                             *)
(***************************************************************************)

\* The ids of the table t.
Ids(t) == 0 .. Len(t) - 1

\* A builder whose functions and locations refer to strings of t and to each other.
Sound(b, t) ==
    /\ b = [functions |-> b.functions, locations |-> b.locations, rows |-> b.rows,
            sample |-> b.sample]
    /\ Distinct(b.functions) /\ Distinct(b.locations)
    /\ \A i \in 1 .. Len(b.functions) : b.functions[i] \in [name : Ids(t), file : Ids(t)]
    /\ \A i \in 1 .. Len(b.locations) :
         b.locations[i] \in [function : 1 .. Len(b.functions), line : Int]

\* The functions and locations of b keep their ids in c.
Grows(b, c) ==
    /\ Extends(b.functions, c.functions) /\ Extends(b.locations, c.locations)
    /\ c.rows = b.rows /\ c.sample = b.sample

\* The frame f has a function i and a location j in b.
Placed(b, f, i, j) ==
    /\ i \in 1 .. Len(b.functions) /\ b.functions[i] = [name |-> f.name, file |-> f.file]
    /\ j \in 1 .. Len(b.locations) /\ b.locations[j] = [function |-> i, line |-> f.line]

HasFrame(b, f) == \E i, j \in Nat : Placed(b, f, i, j)

IsFrame(f, t) == {f.name, f.file} \subseteq Ids(t) /\ f.line \in Int

\* One frame.
LEMMA FrameAdded ==
    ASSUME NEW b, NEW t, Sound(b, t), NEW f, IsFrame(f, t)
    PROVE  Sound(AddFrame(b, f), t) /\ Grows(b, AddFrame(b, f)) /\ HasFrame(AddFrame(b, f), f)
<1> DEFINE fm == [name |-> f.name, file |-> f.file]
<1> DEFINE i == IdIn(b.functions, fm)
<1> DEFINE fs == With(b.functions, fm)
<1> DEFINE lm == [function |-> i, line |-> f.line]
<1> DEFINE j == IdIn(b.locations, lm)
<1> DEFINE ls == With(b.locations, lm)
<1> DEFINE c == AddFrame(b, f)
<1>1. c = [functions |-> fs, locations |-> ls, rows |-> b.rows, sample |-> b.sample]
  <2>1. b = [functions |-> b.functions, locations |-> b.locations, rows |-> b.rows,
             sample |-> b.sample]
    BY Zenon DEF Sound
  <2>2. c = [b EXCEPT !.functions = fs, !.locations = ls]
    BY Zenon DEF AddFrame, With
  <2> HIDE DEF c, fs, ls
  <2> QED BY <2>1, <2>2
<1>2. /\ Distinct(fs) /\ Extends(b.functions, fs) /\ i \in 1 .. Len(fs) /\ fs[i] = fm
      /\ \A n \in 1 .. Len(fs) : fs[n] = fm \/ n \in 1 .. Len(b.functions)
  BY WithKeeps, Zenon DEF Sound
<1>3. fm \in [name : Ids(t), file : Ids(t)]
  BY DEF IsFrame
<1>4. lm = [function |-> i, line |-> f.line]
  OBVIOUS
<1> HIDE DEF i, fs, fm
<1>5. /\ Distinct(ls) /\ Extends(b.locations, ls) /\ j \in 1 .. Len(ls) /\ ls[j] = lm
      /\ \A n \in 1 .. Len(ls) : ls[n] = lm \/ n \in 1 .. Len(b.locations)
  BY WithKeeps, Zenon DEF Sound
<1> HIDE DEF j, ls, c
<1>6. /\ Len(fs) \in Nat /\ Len(ls) \in Nat
      /\ Len(b.functions) \in Nat /\ Len(b.locations) \in Nat
  BY <1>2, <1>5, SeqFacts, Zenon DEF Sound, Distinct
<1>7. \A n \in 1 .. Len(fs) : fs[n] \in [name : Ids(t), file : Ids(t)]
  BY <1>2, <1>3, Zenon DEF Sound, Extends
<1>8. \A n \in 1 .. Len(ls) : ls[n] \in [function : 1 .. Len(fs), line : Int]
  <2>1. lm \in [function : 1 .. Len(fs), line : Int]
    BY <1>2 DEF IsFrame
  <2>2. 1 .. Len(b.functions) \subseteq 1 .. Len(fs)
    BY <1>2, <1>6 DEF Extends
  <2>3. \A n \in 1 .. Len(b.locations) : ls[n] \in [function : 1 .. Len(fs), line : Int]
    <3> SUFFICES ASSUME NEW n \in 1 .. Len(b.locations)
                 PROVE  b.locations[n] \in [function : 1 .. Len(fs), line : Int]
      BY <1>5, Zenon DEF Extends
    <3>1. b.locations[n] \in [function : 1 .. Len(b.functions), line : Int]
      BY Zenon DEF Sound
    <3> QED BY <2>2, <3>1
  <2> HIDE DEF lm
  <2> QED BY <2>1, <2>3, <1>5, Zenon
<1>9. Sound(c, t)
  BY <1>1, <1>2, <1>5, <1>7, <1>8 DEF Sound
<1>10. Grows(b, c)
  BY <1>1, <1>2, <1>5 DEF Grows
<1>11. Placed(c, f, i, j) /\ i \in Nat /\ j \in Nat
  BY <1>1, <1>2, <1>4, <1>5, <1>6 DEF Placed, fm
<1> QED BY <1>9, <1>10, <1>11 DEF HasFrame, c

\* A frame keeps its place.
LEMMA PlacedGrows ==
    ASSUME NEW b, NEW c, NEW t, Sound(b, t), Sound(c, t), Grows(b, c), NEW f, HasFrame(b, f)
    PROVE  HasFrame(c, f)
<1>1. PICK i, j \in Nat : Placed(b, f, i, j)
  BY DEF HasFrame
<1>2. /\ Len(b.functions) \in Nat /\ Len(b.locations) \in Nat
      /\ Len(c.functions) \in Nat /\ Len(c.locations) \in Nat
  BY SeqFacts, Zenon DEF Sound, Distinct
<1>3. i \in 1 .. Len(c.functions) /\ j \in 1 .. Len(c.locations)
  BY <1>1, <1>2 DEF Placed, Grows, Extends
<1>4. c.functions[i] = b.functions[i] /\ c.locations[j] = b.locations[j]
  BY <1>1, Zenon DEF Placed, Grows, Extends
<1>5. Placed(c, f, i, j)
  BY <1>1, <1>3, <1>4, Zenon DEF Placed
<1> QED BY <1>5 DEF HasFrame

\* A builder grows from those that the ones it grows from do.
LEMMA GrowsOn ==
    ASSUME NEW b, NEW c, NEW d, NEW t, Sound(b, t), Sound(c, t), Sound(d, t),
           Grows(b, c), Grows(c, d)
    PROVE  Grows(b, d)
BY ExtendsOn, Zenon DEF Grows, Sound, Distinct

\* A builder grows from itself.
LEMMA GrowsSelf == ASSUME NEW b, NEW t, Sound(b, t) PROVE Grows(b, b)
BY ExtendsSelf, Zenon DEF Grows, Sound, Distinct

\* All frames of a stack.
LEMMA FramesAdded ==
    ASSUME NEW b, NEW t, Sound(b, t), NEW n \in Nat, NEW frames, DOMAIN frames = 1 .. n,
           \A i \in 1 .. n : IsFrame(frames[i], t)
    PROVE  /\ Sound(Framed(b, frames), t)
           /\ Grows(b, Framed(b, frames))
           /\ \A i \in 1 .. n : HasFrame(Framed(b, frames), frames[i])
<1> PICK g : FrameRun(g, b, frames, n)
  BY FrameSteps
<1> DEFINE Good(m) == /\ Sound(g[m], t) /\ Grows(b, g[m])
                      /\ \A i \in 1 .. m : HasFrame(g[m], frames[i])
<1> DEFINE S == {m \in Nat : m =< n => Good(m)}
<1>1. 0 \in S
  <2>1. Good(0)
    BY GrowsSelf DEF FrameRun
  <2> QED BY <2>1
<1>2. ASSUME NEW m \in Nat, m \in S PROVE m + 1 \in S
  <2> SUFFICES ASSUME m + 1 =< n PROVE Good(m + 1)
    OBVIOUS
  <2>1. Good(m)
    BY <1>2
  <2>2. g[m + 1] = AddFrame(g[m], frames[m + 1]) /\ m + 1 \in 1 .. n
    BY DEF FrameRun
  <2>3. Sound(g[m + 1], t) /\ Grows(g[m], g[m + 1]) /\ HasFrame(g[m + 1], frames[m + 1])
    BY <2>1, <2>2, FrameAdded
  <2>4. Grows(b, g[m + 1])
    BY <2>1, <2>3, GrowsOn
  <2>5. \A i \in 1 .. m : HasFrame(g[m + 1], frames[i])
    BY <2>1, <2>3, PlacedGrows
  <2>6. \A i \in 1 .. m + 1 : i \in 1 .. m \/ i = m + 1
    OBVIOUS
  <2> QED BY <2>3, <2>4, <2>5, <2>6
<1> HIDE DEF Good, S
<1>3. n \in S
  BY <1>1, <1>2, Induct
<1>4. Good(n)
  BY <1>3 DEF S
<1> QED BY <1>4 DEF Good, FrameRun

\* A row: the locations of a stack.
IsRow(b, row) == \E n \in Nat : row \in [1 .. n -> 1 .. Len(b.locations)]

\* What a row reads as with the strings of t.
RowReads(b, t, row) ==
    [i \in DOMAIN row |->
        LET l == b.locations[row[i]]
            f == b.functions[l.function]
        IN  [name |-> t[f.name + 1], file |-> t[f.file + 1], line |-> l.line]]

\* Its locations, functions and strings exist.
LEMMA RowParts ==
    ASSUME NEW b, NEW t, Sound(b, t), IsTable(t), NEW row, IsRow(b, row), NEW i \in DOMAIN row
    PROVE  LET l == b.locations[row[i]]
               f == b.functions[l.function]
           IN  /\ row[i] \in 1 .. Len(b.locations) /\ l.function \in 1 .. Len(b.functions)
               /\ l = [function |-> l.function, line |-> l.line]
               /\ f = [name |-> f.name, file |-> f.file]
               /\ f.name + 1 \in 1 .. Len(t) /\ f.file + 1 \in 1 .. Len(t)
               /\ f.name \in Int /\ f.file \in Int
<1>0. Len(t) \in Nat
  BY SeqFacts, Zenon DEF IsTable
<1> DEFINE l == b.locations[row[i]]
<1> DEFINE f == b.functions[l.function]
<1>1. row[i] \in 1 .. Len(b.locations)
  BY DEF IsRow
<1>2. l \in [function : 1 .. Len(b.functions), line : Int]
  BY <1>1, Zenon DEF Sound
<1>3. l.function \in 1 .. Len(b.functions) /\ l = [function |-> l.function, line |-> l.line]
  BY <1>2
<1>4. f \in [name : Ids(t), file : Ids(t)]
  BY <1>3, Zenon DEF Sound
<1> HIDE DEF f
<1>5. f = [name |-> f.name, file |-> f.file] /\ f.name \in Ids(t) /\ f.file \in Ids(t)
  BY <1>4
<1>6. \A x \in Ids(t) : x \in Int /\ x + 1 \in 1 .. Len(t)
  BY <1>0 DEF Ids
<1> QED BY <1>1, <1>3, <1>5, <1>6 DEF f

\* Rows that read the same are the same.
LEMMA ReadsInjective ==
    ASSUME NEW b, NEW t, Sound(b, t), IsTable(t), NEW q, NEW r, IsRow(b, q), IsRow(b, r),
           RowReads(b, t, q) = RowReads(b, t, r)
    PROVE  q = r
<1>1. DOMAIN q = DOMAIN r
  BY DEF RowReads
<1>2. ASSUME NEW i \in DOMAIN q PROVE q[i] = r[i]
  <2> DEFINE k == b.locations[q[i]]
  <2> DEFINE l == b.locations[r[i]]
  <2> DEFINE f == b.functions[k.function]
  <2> DEFINE g == b.functions[l.function]
  <2>1. /\ q[i] \in 1 .. Len(b.locations) /\ k.function \in 1 .. Len(b.functions)
        /\ k = [function |-> k.function, line |-> k.line]
        /\ f = [name |-> f.name, file |-> f.file]
        /\ f.name + 1 \in 1 .. Len(t) /\ f.file + 1 \in 1 .. Len(t)
        /\ f.name \in Int /\ f.file \in Int
    BY RowParts
  <2>2. /\ r[i] \in 1 .. Len(b.locations) /\ l.function \in 1 .. Len(b.functions)
        /\ l = [function |-> l.function, line |-> l.line]
        /\ g = [name |-> g.name, file |-> g.file]
        /\ g.name + 1 \in 1 .. Len(t) /\ g.file + 1 \in 1 .. Len(t)
        /\ g.name \in Int /\ g.file \in Int
    BY <1>1, RowParts
  <2>3. RowReads(b, t, q)[i] = RowReads(b, t, r)[i]
    OBVIOUS
  <2>4. [name |-> t[f.name + 1], file |-> t[f.file + 1], line |-> k.line] =
        [name |-> t[g.name + 1], file |-> t[g.file + 1], line |-> l.line]
    BY <1>1, <2>3, Zenon DEF RowReads
  <2>5. /\ DOMAIN t = 1 .. Len(t) /\ DOMAIN b.functions = 1 .. Len(b.functions)
        /\ DOMAIN b.locations = 1 .. Len(b.locations)
    BY SeqFacts, Zenon DEF Sound, Distinct, IsTable
  <2>6. /\ \A x, y \in DOMAIN t : t[x] = t[y] => x = y
        /\ \A x, y \in DOMAIN b.functions : b.functions[x] = b.functions[y] => x = y
        /\ \A x, y \in DOMAIN b.locations : b.locations[x] = b.locations[y] => x = y
    BY Zenon DEF Sound, Distinct, IsTable, IsInjective
  <2> HIDE DEF f, g
  <2>7. k.line = l.line /\ t[f.name + 1] = t[g.name + 1] /\ t[f.file + 1] = t[g.file + 1]
    BY ONLY <2>4
  <2>8. f.name + 1 = g.name + 1 /\ f.file + 1 = g.file + 1
    BY <2>1, <2>2, <2>5, <2>6, <2>7, Zenon
  <2>9. f.name = g.name /\ f.file = g.file
    BY ONLY <2>1, <2>2, <2>8
  <2> HIDE DEF k, l
  <2>10. b.functions[k.function] = b.functions[l.function]
    BY <2>1, <2>2, <2>9, Zenon DEF f, g
  <2>11. k.function = l.function
    BY <2>1, <2>2, <2>5, <2>6, <2>10, Zenon
  <2>12. k = l
    BY <2>1, <2>2, <2>7, <2>11, Zenon
  <2>13. b.locations[q[i]] = b.locations[r[i]]
    BY <2>12, Zenon DEF k, l
  <2> QED BY <2>1, <2>2, <2>5, <2>6, <2>13, Zenon
<1> QED BY <1>1, <1>2 DEF IsRow

\* A row reads the same when the builder and the table grow.
LEMMA ReadsGrow ==
    ASSUME NEW b, NEW t, Sound(b, t), IsTable(t), NEW c, NEW u, Sound(c, u), IsTable(u),
           Grows(b, c), Extends(t, u), NEW row, IsRow(b, row)
    PROVE  IsRow(c, row) /\ RowReads(c, u, row) = RowReads(b, t, row)
<1>0. /\ Len(b.functions) \in Nat /\ Len(b.locations) \in Nat
      /\ Len(c.functions) \in Nat /\ Len(c.locations) \in Nat
  BY SeqFacts, Zenon DEF Sound, Distinct
<1>1. 1 .. Len(b.locations) \subseteq 1 .. Len(c.locations)
  BY <1>0 DEF Grows, Extends
<1>2. IsRow(c, row)
  BY <1>1 DEF IsRow
<1>3. ASSUME NEW i \in DOMAIN row
      PROVE  LET l == b.locations[row[i]]
                 f == b.functions[l.function]
                 m == c.locations[row[i]]
                 g == c.functions[m.function]
             IN  m = l /\ f = g /\ u[g.name + 1] = t[f.name + 1] /\ u[g.file + 1] = t[f.file + 1]
  <2> DEFINE l == b.locations[row[i]]
  <2> DEFINE f == b.functions[l.function]
  <2>1. /\ row[i] \in 1 .. Len(b.locations) /\ l.function \in 1 .. Len(b.functions)
        /\ f.name + 1 \in 1 .. Len(t) /\ f.file + 1 \in 1 .. Len(t)
    BY RowParts
  <2>2. c.locations[row[i]] = l
    BY <2>1, Zenon DEF Grows, Extends
  <2>3. c.functions[l.function] = f
    BY <2>1, Zenon DEF Grows, Extends
  <2> HIDE DEF l
  <2>4. u[f.name + 1] = t[f.name + 1] /\ u[f.file + 1] = t[f.file + 1]
    BY <2>1, Zenon DEF Extends
  <2> QED BY <2>2, <2>3, <2>4 DEF l
<1> QED BY <1>2, <1>3 DEF RowReads

\* The stack that was placed reads as its frames.
LEMMA PlacedReads ==
    ASSUME NEW b, NEW t, Sound(b, t), NEW n \in Nat, NEW frames, DOMAIN frames = 1 .. n,
           \A i \in 1 .. n : HasFrame(b, frames[i])
    PROVE  /\ IsRow(b, LocationIds(b, frames))
           /\ RowReads(b, t, LocationIds(b, frames)) =
                [i \in 1 .. n |-> [name |-> t[frames[i].name + 1], file |-> t[frames[i].file + 1],
                                   line |-> frames[i].line]]
<1> DEFINE row == LocationIds(b, frames)
<1>1. ASSUME NEW k \in 1 .. n
      PROVE  \E i, j \in Nat : Placed(b, frames[k], i, j) /\ row[k] = j
  <2> PICK i, j \in Nat : Placed(b, frames[k], i, j)
    BY Zenon DEF HasFrame
  <2> DEFINE fm == [name |-> frames[k].name, file |-> frames[k].file]
  <2>1. b.functions[i] = fm /\ i \in 1 .. Len(b.functions)
    BY Zenon DEF Placed
  <2>2. IdIn(b.functions, fm) = i
    BY <2>1, IdUnique, Zenon DEF Sound
  <2> DEFINE lm == [function |-> IdIn(b.functions, fm), line |-> frames[k].line]
  <2>3. b.locations[j] = lm /\ j \in 1 .. Len(b.locations)
    BY <2>2, Zenon DEF Placed
  <2>4. IdIn(b.locations, lm) = j
    BY <2>3, IdUnique, Zenon DEF Sound
  <2>5. row[k] = IdIn(b.locations, lm)
    BY DEF LocationIds
  <2> QED BY <2>4, <2>5
<1>2. row = [k \in 1 .. n |-> row[k]] /\ DOMAIN row = 1 .. n
  BY DEF LocationIds
<1> HIDE DEF row
<1>3. \A k \in 1 .. n : row[k] \in 1 .. Len(b.locations)
  BY <1>1, Zenon DEF Placed
<1>4. IsRow(b, row)
  BY <1>2, <1>3 DEF IsRow
<1>5. ASSUME NEW k \in 1 .. n
      PROVE  RowReads(b, t, row)[k] =
               [name |-> t[frames[k].name + 1], file |-> t[frames[k].file + 1],
                line |-> frames[k].line]
  <2>1. PICK i, j \in Nat : Placed(b, frames[k], i, j) /\ row[k] = j
    BY <1>1
  <2>2. b.locations[row[k]] = [function |-> i, line |-> frames[k].line]
    BY <2>1, Zenon DEF Placed
  <2>3. b.functions[i] = [name |-> frames[k].name, file |-> frames[k].file]
    BY <2>1, Zenon DEF Placed
  <2> QED BY <1>2, <2>2, <2>3 DEF RowReads
<1>6. RowReads(b, t, row) = [k \in 1 .. n |-> RowReads(b, t, row)[k]]
  BY <1>2 DEF RowReads
<1> QED BY <1>4, <1>5, <1>6 DEF row

\* A builder that is new, whatever the table is.
LEMMA NewSound == ASSUME NEW t PROVE Sound(NewBuilder, t)
<1>1. <<>> \in Seq({}) /\ Len(<<>>) = 0 /\ DOMAIN <<>> = {}
  OBVIOUS
<1>2. IsSeq(<<>>)
  BY <1>1, SeqIs, Zenon
<1>3. IsInjective(<<>>)
  BY <1>1 DEF IsInjective
<1>4. 1 .. 0 = {}
  OBVIOUS
<1> QED BY <1>1, <1>2, <1>3, <1>4 DEF NewBuilder, Sound, Distinct

\* A builder stays sound while its table grows.
LEMMA SoundExtends ==
    ASSUME NEW b, NEW t, IsTable(t), Sound(b, t), NEW u, IsTable(u), Extends(t, u)
    PROVE  Sound(b, u)
<1>1. Len(t) \in Nat /\ Len(u) \in Nat
  BY SeqFacts, Zenon DEF IsTable
<1>2. Ids(t) \subseteq Ids(u)
  BY <1>1 DEF Ids, Extends
<1>3. ASSUME NEW i \in 1 .. Len(b.functions)
      PROVE  b.functions[i] \in [name : Ids(u), file : Ids(u)]
  <2>1. b.functions[i] \in [name : Ids(t), file : Ids(t)]
    BY Zenon DEF Sound
  <2> QED BY <1>2, <2>1
<1> QED BY <1>3, Zenon DEF Sound

\* A sample of a row, in a profile with the functions and locations of b and the
\* strings of t: a reader finds all of it, and sees what the row reads as.
LEMMA RowSeen ==
    ASSUME NEW b, NEW t, Sound(b, t), NEW p, p.string_table = t,
           p.pprof.functions = b.functions, p.pprof.locations = b.locations,
           NEW s, IsRow(b, s.location_id),
           \A l \in s.label : l.key \in Ids(t) /\ l.str \in Ids(t)
    PROVE  Resolves(p, s) /\ Seen(p, s).frames = RowReads(b, t, s.location_id)
<1> DEFINE row == s.location_id
<1>1. DOMAIN b.locations = 1 .. Len(b.locations) /\ DOMAIN b.functions = 1 .. Len(b.functions)
  BY SeqFacts, Zenon DEF Sound, Distinct
<1>2. ASSUME NEW j \in DOMAIN row
      PROVE  LET l == b.locations[row[j]]
                 f == b.functions[l.function]
             IN  /\ row[j] \in DOMAIN b.locations /\ l.function \in DOMAIN b.functions
                 /\ {f.name, f.file} \subseteq 0 .. Len(t) - 1
  <2> DEFINE l == b.locations[row[j]]
  <2> DEFINE f == b.functions[l.function]
  <2>1. row[j] \in 1 .. Len(b.locations)
    BY DEF IsRow
  <2>2. l \in [function : 1 .. Len(b.functions), line : Int]
    BY <2>1, Zenon DEF Sound
  <2>3. l.function \in 1 .. Len(b.functions)
    BY <2>2
  <2>4. f \in [name : Ids(t), file : Ids(t)]
    BY <2>3, Zenon DEF Sound
  <2> HIDE DEF f
  <2>5. {f.name, f.file} \subseteq 0 .. Len(t) - 1
    BY <2>4 DEF Ids
  <2> QED BY <1>1, <2>1, <2>3, <2>5 DEF f
<1>3. \A l \in s.label : {l.key, l.str} \subseteq 0 .. Len(t) - 1
  BY DEF Ids
<1>4. Resolves(p, s)
  BY <1>2, <1>3 DEF Resolves
<1>5. Seen(p, s).frames = RowReads(b, t, row)
  BY DEF Seen, RowReads, Str
<1> QED BY <1>4, <1>5

-----------------------------------------------------------------------------
(***************************************************************************)
(* encode(): one stack trace                                               *)
(***************************************************************************)

\* A stack of frames, and the tags of a stack trace.
IsStack(s) ==
    /\ Len(s) \in Nat
    /\ s = [i \in 1 .. Len(s) |-> [name |-> s[i].name, file |-> s[i].file, line |-> s[i].line]]
    /\ \A i \in 1 .. Len(s) : s[i].line \in Int

IsTags(tags) == IsFiniteSet(tags) /\ \A l \in tags : l = [key |-> l.key, value |-> l.value]

IsTrace(x) == IsStack(x.frames) /\ IsTags(x.tags)

\* All the strings are in the table.
LEMMA AllAdded ==
    ASSUME NEW t, IsTable(t), NEW s, NEW n \in Nat, DOMAIN s = 1 .. n
    PROVE  /\ IsTable(add_all(t, s)) /\ Extends(t, add_all(t, s))
           /\ \A i \in 1 .. n : Contains(add_all(t, s), s[i])
<1> PICK g : AddRun(g, t, s, n)
  BY AddSteps
<1> DEFINE Good(m) == /\ IsTable(g[m]) /\ Extends(t, g[m])
                      /\ \A i \in 1 .. m : Contains(g[m], s[i])
<1> DEFINE M == {m \in Nat : m =< n => Good(m)}
<1>1. 0 \in M
  <2>1. Extends(t, t)
    BY ExtendsSelf, Zenon DEF IsTable
  <2> QED BY <2>1 DEF AddRun
<1>2. ASSUME NEW m \in Nat, m \in M PROVE m + 1 \in M
  <2> SUFFICES ASSUME m + 1 =< n PROVE Good(m + 1)
    OBVIOUS
  <2>1. Good(m) /\ m \in 0 .. n - 1
    BY <1>2
  <2>2. g[m + 1] = add(g[m], s[m + 1])
    BY <2>1, Zenon DEF AddRun
  <2>3. /\ IsTable(g[m + 1]) /\ Extends(g[m], g[m + 1]) /\ Contains(g[m + 1], s[m + 1])
    BY <2>1, <2>2, AddKeeps
  <2>4. Extends(t, g[m + 1])
    BY <2>1, <2>3, ExtendsTransitive
  <2>5. \A i \in 1 .. m : Contains(g[m + 1], s[i])
    BY <2>1, <2>3, ContainsOn
  <2>6. \A i \in 1 .. m + 1 : i \in 1 .. m \/ i = m + 1
    OBVIOUS
  <2> QED BY <2>3, <2>4, <2>5, <2>6
<1> HIDE DEF Good, M
<1>3. n \in M
  BY <1>1, <1>2, Induct
<1>4. Good(n)
  BY <1>3 DEF M
<1> QED BY <1>4, Zenon DEF Good, AddRun

\* The indices of the strings of the i-th of n pairs.
LEMMA PairAt ==
    ASSUME NEW n \in Nat, NEW i \in 1 .. n
    PROVE  /\ 2 * i - 1 \in 1 .. 2 * n /\ 2 * i \in 1 .. 2 * n
           /\ (2 * i - 1) % 2 = 1 /\ (2 * i - 1 + 1) \div 2 = i
           /\ (2 * i) % 2 # 1 /\ (2 * i) \div 2 = i
OBVIOUS

\* The names and files of a stack, frame by frame.
LEMMA StringsAt ==
    ASSUME NEW s, NEW n \in Nat, Len(s) = n
    PROVE  /\ Len(Strings(s)) = 2 * n /\ DOMAIN Strings(s) = 1 .. 2 * n
           /\ \A i \in 1 .. n : /\ 2 * i - 1 \in 1 .. 2 * n /\ 2 * i \in 1 .. 2 * n
                                /\ Strings(s)[2 * i - 1] = s[i].name
                                /\ Strings(s)[2 * i] = s[i].file
<1> DEFINE t == Strings(s)
<1>1. t = [i \in 1 .. 2 * n |-> t[i]] /\ DOMAIN t = 1 .. 2 * n
  BY DEF Strings
<1>2. \A i \in 1 .. n : t[2 * i - 1] = s[i].name /\ t[2 * i] = s[i].file
  BY PairAt DEF Strings
<1> HIDE DEF t
<1> DEFINE V == {t[i] : i \in 1 .. 2 * n}
<1>3. t \in [1 .. 2 * n -> V] /\ 2 * n \in Nat
  BY <1>1
<1> HIDE DEF V
<1>4. t \in Seq(V) /\ Len(t) = 2 * n
  BY <1>3
<1> QED BY <1>1, <1>2, <1>4, PairAt DEF t

\* The keys and values of a list of labels, label by label.
LEMMA LabelStringsAt ==
    ASSUME NEW s, NEW n \in Nat, Len(s) = n
    PROVE  /\ DOMAIN LabelStrings(s) = 1 .. 2 * n
           /\ \A i \in 1 .. n : /\ 2 * i - 1 \in 1 .. 2 * n /\ 2 * i \in 1 .. 2 * n
                                /\ LabelStrings(s)[2 * i - 1] = s[i].key
                                /\ LabelStrings(s)[2 * i] = s[i].value
<1>1. DOMAIN LabelStrings(s) = 1 .. 2 * n
  BY DEF LabelStrings
<1>2. \A i \in 1 .. n : /\ LabelStrings(s)[2 * i - 1] = s[i].key
                        /\ LabelStrings(s)[2 * i] = s[i].value
  BY PairAt DEF LabelStrings
<1> QED BY <1>1, <1>2, PairAt

\* The table that add_stacktrace leaves.
TraceTable(t, x) ==
    add_all(add_all(t, Strings(x.frames)), LabelStrings(SetToSeq(x.tags)))

\* It has all the strings of the stack trace.
LEMMA TraceInterned ==
    ASSUME NEW t, IsTable(t), NEW x, IsTrace(x)
    PROVE  /\ IsTable(TraceTable(t, x)) /\ Extends(t, TraceTable(t, x))
           /\ \A i \in 1 .. Len(x.frames) : /\ Contains(TraceTable(t, x), x.frames[i].name)
                                            /\ Contains(TraceTable(t, x), x.frames[i].file)
           /\ \A l \in x.tags : /\ Contains(TraceTable(t, x), l.key)
                                /\ Contains(TraceTable(t, x), l.value)
<1> DEFINE n == Len(x.frames)
<1> DEFINE s == Strings(x.frames)
<1> DEFINE m == Cardinality(x.tags)
<1> DEFINE labels == SetToSeq(x.tags)
<1> DEFINE r == LabelStrings(labels)
<1> DEFINE u == add_all(t, s)
<1> DEFINE v == add_all(u, r)
<1>1. n \in Nat
  BY DEF IsTrace, IsStack
<1>2. m \in Nat /\ labels \in Injection(1 .. m, x.tags) /\ labels \in Surjection(1 .. m, x.tags)
  BY Listed DEF IsTrace, IsTags
<1>3. /\ DOMAIN s = 1 .. 2 * n /\ 2 * n \in Nat
      /\ \A i \in 1 .. n : /\ 2 * i - 1 \in 1 .. 2 * n /\ 2 * i \in 1 .. 2 * n
                           /\ s[2 * i - 1] = x.frames[i].name /\ s[2 * i] = x.frames[i].file
  <2> HIDE DEF n
  <2>1. Len(x.frames) = n
    BY DEF n
  <2>2. 2 * n \in Nat
    BY <1>1
  <2> QED BY <1>1, <2>1, <2>2, StringsAt
<1> HIDE DEF n, m, labels
<1>4. /\ labels \in [1 .. m -> x.tags] /\ Len(labels) = m
      /\ \A l \in x.tags : \E i \in 1 .. m : labels[i] = l
  <2>1. labels \in [1 .. m -> x.tags] /\ \A l \in x.tags : \E i \in 1 .. m : labels[i] = l
    BY <1>2 DEF Injection, Surjection
  <2>2. labels \in Seq(x.tags)
    BY <1>2, <2>1
  <2> QED BY <1>2, <2>1, <2>2, LenProperties
<1>5. /\ DOMAIN r = 1 .. 2 * m /\ 2 * m \in Nat
      /\ \A i \in 1 .. m : /\ 2 * i - 1 \in 1 .. 2 * m /\ 2 * i \in 1 .. 2 * m
                           /\ r[2 * i - 1] = labels[i].key /\ r[2 * i] = labels[i].value
  <2>1. 2 * m \in Nat
    BY <1>2
  <2> QED BY <1>2, <1>4, <2>1, LabelStringsAt
<1> HIDE DEF s, r
<1>6. IsTable(u) /\ Extends(t, u) /\ \A i \in 1 .. 2 * n : Contains(u, s[i])
  BY <1>3, AllAdded
<1> HIDE DEF u
<1>7. IsTable(v) /\ Extends(u, v) /\ \A i \in 1 .. 2 * m : Contains(v, r[i])
  BY <1>5, <1>6, AllAdded
<1> HIDE DEF v
<1>8. Extends(t, v)
  BY <1>6, <1>7, ExtendsTransitive
<1>9. \A i \in 1 .. 2 * n : Contains(v, s[i])
  BY <1>6, <1>7, ContainsOn
<1>10. \A i \in 1 .. n : Contains(v, x.frames[i].name) /\ Contains(v, x.frames[i].file)
  BY <1>3, <1>9
<1>11. \A l \in x.tags : Contains(v, l.key) /\ Contains(v, l.value)
  BY <1>4, <1>5, <1>7
<1> QED BY <1>7, <1>8, <1>10, <1>11 DEF TraceTable, v, u, s, r, labels, n

\* The frames of a stack by the indices of their strings, and the labels of tags.
FrameIds(t, s) == [i \in DOMAIN s |-> frame(t, s[i])]
LabelIds(t, tags) ==
    {[key |-> IndexOf(t, l.key), str |-> IndexOf(t, l.value)] : l \in tags}

\* What labels read as.
LabelsRead(t, labels) == {[key |-> t[l.key + 1], value |-> t[l.str + 1]] : l \in labels}

\* The frames read as the stack.
LEMMA FramesRead ==
    ASSUME NEW t, IsTable(t), NEW s, IsStack(s),
           \A i \in 1 .. Len(s) : Contains(t, s[i].name) /\ Contains(t, s[i].file)
    PROVE  /\ Len(s) \in Nat /\ DOMAIN FrameIds(t, s) = 1 .. Len(s)
           /\ \A i \in 1 .. Len(s) : IsFrame(FrameIds(t, s)[i], t)
           /\ [i \in 1 .. Len(s) |->
                 [name |-> t[FrameIds(t, s)[i].name + 1], file |-> t[FrameIds(t, s)[i].file + 1],
                  line |-> FrameIds(t, s)[i].line]] = s
<1> DEFINE n == Len(s)
<1> DEFINE f == FrameIds(t, s)
<1>1. n \in Nat /\ Len(t) \in Nat
  BY SeqFacts, Zenon DEF IsStack, IsTable
<1>2. s = [i \in 1 .. n |-> [name |-> s[i].name, file |-> s[i].file, line |-> s[i].line]]
  BY Zenon DEF IsStack
<1> HIDE DEF n
<1>3. DOMAIN s = 1 .. n
  BY <1>2
<1>4. DOMAIN f = 1 .. n /\ \A i \in 1 .. n : f[i] = frame(t, s[i])
  BY <1>3 DEF FrameIds
<1> HIDE DEF f
<1>5. ASSUME NEW i \in 1 .. n
      PROVE  /\ IsFrame(f[i], t) /\ t[f[i].name + 1] = s[i].name
             /\ t[f[i].file + 1] = s[i].file /\ f[i].line = s[i].line
  <2>1. /\ f[i].name = IndexOf(t, s[i].name) /\ f[i].file = IndexOf(t, s[i].file)
        /\ f[i].line = s[i].line
    BY <1>4 DEF frame
  <2>2. s[i].line \in Int
    BY DEF IsStack, n
  <2>3. /\ IndexOf(t, s[i].name) \in Nat /\ IndexOf(t, s[i].name) < Len(t)
        /\ t[IndexOf(t, s[i].name) + 1] = s[i].name
    BY IndexResolves DEF n
  <2>4. /\ IndexOf(t, s[i].file) \in Nat /\ IndexOf(t, s[i].file) < Len(t)
        /\ t[IndexOf(t, s[i].file) + 1] = s[i].file
    BY IndexResolves DEF n
  <2>5. f[i].name \in Ids(t) /\ f[i].file \in Ids(t)
    BY <1>1, <2>1, <2>3, <2>4 DEF Ids
  <2> QED BY <2>1, <2>2, <2>3, <2>4, <2>5 DEF IsFrame
<1>6. [i \in 1 .. n |-> [name |-> t[f[i].name + 1], file |-> t[f[i].file + 1],
                         line |-> f[i].line]] = s
  BY <1>2, <1>5
<1> QED BY <1>1, <1>4, <1>5, <1>6 DEF n, f

\* The labels read as the tags.
LEMMA LabelsReadTags ==
    ASSUME NEW t, IsTable(t), NEW tags, IsTags(tags),
           \A l \in tags : Contains(t, l.key) /\ Contains(t, l.value)
    PROVE  /\ \A l \in LabelIds(t, tags) : l.key \in Ids(t) /\ l.str \in Ids(t)
           /\ LabelsRead(t, LabelIds(t, tags)) = tags
<1>1. Len(t) \in Nat
  BY SeqFacts, Zenon DEF IsTable
<1>2. ASSUME NEW l \in tags
      PROVE  /\ IndexOf(t, l.key) \in Ids(t) /\ t[IndexOf(t, l.key) + 1] = l.key
             /\ IndexOf(t, l.value) \in Ids(t) /\ t[IndexOf(t, l.value) + 1] = l.value
  <2>1. /\ IndexOf(t, l.key) \in Nat /\ IndexOf(t, l.key) < Len(t)
        /\ t[IndexOf(t, l.key) + 1] = l.key
    BY IndexResolves
  <2>2. /\ IndexOf(t, l.value) \in Nat /\ IndexOf(t, l.value) < Len(t)
        /\ t[IndexOf(t, l.value) + 1] = l.value
    BY IndexResolves
  <2> QED BY <1>1, <2>1, <2>2 DEF Ids
<1> DEFINE L(l) == [key |-> IndexOf(t, l.key), str |-> IndexOf(t, l.value)]
<1> DEFINE R(m) == [key |-> t[m.key + 1], value |-> t[m.str + 1]]
<1>3. \A l \in tags : R(L(l)) = l
  BY <1>2 DEF IsTags
<1>4. \A l \in tags : L(l).key \in Ids(t) /\ L(l).str \in Ids(t)
  BY <1>2
<1> HIDE DEF L, R
<1>5. LabelIds(t, tags) = {L(l) : l \in tags}
  BY DEF LabelIds, L
<1>6. \A S : LabelsRead(t, S) = {R(m) : m \in S}
  BY DEF LabelsRead, R
<1>7. LabelsRead(t, LabelIds(t, tags)) = tags
  BY <1>3, <1>5, <1>6
<1> QED BY <1>4, <1>5, <1>7

\* The sample s of b has the stack, the tags and the value of the stack trace x.
IsSample(b, t, s, x, v) ==
    /\ s.value = <<v>> /\ IsRow(b, s.location_id) /\ RowReads(b, t, s.location_id) = x.frames
    /\ \A l \in s.label : l.key \in Ids(t) /\ l.str \in Ids(t)
    /\ LabelsRead(t, s.label) = x.tags

\* It still has when the builder and the table grow.
LEMMA SampleGrows ==
    ASSUME NEW b, NEW t, Sound(b, t), IsTable(t), NEW c, NEW u, Sound(c, u), IsTable(u),
           Grows(b, c), Extends(t, u), NEW s, NEW x, NEW v, IsSample(b, t, s, x, v)
    PROVE  IsSample(c, u, s, x, v)
<1>1. IsRow(c, s.location_id) /\ RowReads(c, u, s.location_id) = x.frames
  BY ReadsGrow DEF IsSample
<1>2. Len(t) \in Nat /\ Len(u) \in Nat
  BY SeqFacts, Zenon DEF IsTable
<1>3. ASSUME NEW k \in Ids(t) PROVE k \in Ids(u) /\ u[k + 1] = t[k + 1]
  BY <1>2 DEF Ids, Extends
<1>4. \A l \in s.label : /\ l.key \in Ids(u) /\ l.str \in Ids(u)
                         /\ u[l.key + 1] = t[l.key + 1] /\ u[l.str + 1] = t[l.str + 1]
  BY <1>3 DEF IsSample
<1>5. LabelsRead(u, s.label) = LabelsRead(t, s.label)
  BY <1>4 DEF LabelsRead
<1> QED BY <1>1, <1>4, <1>5, Zenon DEF IsSample

\* Samples say nothing about functions and locations.
LEMMA SampleApart ==
    ASSUME NEW b, NEW t, Sound(b, t), NEW q
    PROVE  LET c == [b EXCEPT !.sample = q]
           IN  /\ Sound(c, t) /\ c.sample = q
               /\ \A s, x, v : IsSample(c, t, s, x, v) <=> IsSample(b, t, s, x, v)
<1> DEFINE c == [b EXCEPT !.sample = q]
<1>1. c = [functions |-> b.functions, locations |-> b.locations, rows |-> b.rows, sample |-> q]
  <2>1. b = [functions |-> b.functions, locations |-> b.locations, rows |-> b.rows,
             sample |-> b.sample]
    BY Zenon DEF Sound
  <2> QED BY <2>1
<1> HIDE DEF c
<1>2. c.functions = b.functions /\ c.locations = b.locations /\ c.rows = b.rows /\ c.sample = q
  BY <1>1
<1>3. Sound(c, t)
  BY <1>1, <1>2, Zenon DEF Sound
<1>4. \A r : (IsRow(c, r) <=> IsRow(b, r)) /\ RowReads(c, t, r) = RowReads(b, t, r)
  BY <1>2, Zenon DEF RowReads, IsRow
<1>5. \A s, x, v : IsSample(c, t, s, x, v) <=> IsSample(b, t, s, x, v)
  BY <1>4, Zenon DEF IsSample
<1> QED BY <1>2, <1>3, <1>5 DEF c

\* One more element.
LEMMA AppendSeq ==
    ASSUME NEW s, IsSeq(s), NEW x
    PROVE  /\ IsSeq(Append(s, x)) /\ Len(Append(s, x)) = Len(s) + 1
           /\ Append(s, x)[Len(s) + 1] = x /\ \A i \in 1 .. Len(s) : Append(s, x)[i] = s[i]
<1> DEFINE V == {s[i] : i \in DOMAIN s}
<1> DEFINE u == Append(s, x)
<1>1. s \in Seq(V) /\ Len(s) \in Nat
  BY SeqFacts, Zenon DEF IsSeq
<1> HIDE DEF V
<1>2. x \in V \cup {x} /\ s \in Seq(V \cup {x})
  BY <1>1
<1>3. /\ u \in Seq(V \cup {x}) /\ Len(u) = Len(s) + 1
      /\ \A i \in 1 .. Len(s) : u[i] = s[i]
      /\ u[Len(s) + 1] = x
  BY <1>1, <1>2, AppendProperties
<1> HIDE DEF u
<1>4. IsSeq(u)
  BY <1>3, SeqIs, Zenon
<1> QED BY <1>3, <1>4 DEF u

\* acc, with the period p, holds the types of its profile, and a sample for each
\* stack trace of q with its count in c.
Encoded(acc, q, c, p) ==
    /\ acc = [strings |-> acc.strings, builder |-> acc.builder, period |-> p]
    /\ IsTable(acc.strings) /\ Typed(acc.strings, "pyspy") /\ Sound(acc.builder, acc.strings)
    /\ Distinct(q) /\ IsSeq(acc.builder.sample) /\ Len(acc.builder.sample) = Len(q)
    /\ \A i \in 1 .. Len(q) :
         IsSample(acc.builder, acc.strings, acc.builder.sample[i], q[i], c[q[i]] * p)

\* One more stack trace (add_stacktrace).
LEMMA TraceAdded ==
    ASSUME NEW acc, NEW q, NEW c, NEW p, Encoded(acc, q, c, p), NEW x, IsTrace(x),
           ~Contains(q, x)
    PROVE  Encoded(add_stacktrace(acc, x, c[x]), With(q, x), c, p)
<1> DEFINE t == acc.strings
<1> DEFINE b == acc.builder
<1> DEFINE u == TraceTable(t, x)
<1> DEFINE n == Len(x.frames)
<1> DEFINE frames == FrameIds(u, x.frames)
<1> DEFINE d == Framed(b, frames)
<1> DEFINE row == LocationIds(d, frames)
<1> DEFINE labels == LabelIds(u, x.tags)
<1> DEFINE s == [location_id |-> row, value |-> <<c[x] * p>>, label |-> labels]
<1> DEFINE samples == Append(d.sample, s)
<1> DEFINE e == [d EXCEPT !.sample = samples]
<1> DEFINE r == With(q, x)
<1>1. /\ acc = [strings |-> t, builder |-> b, period |-> p]
      /\ IsTable(t) /\ Typed(t, "pyspy") /\ Sound(b, t) /\ Distinct(q)
      /\ IsSeq(b.sample) /\ Len(b.sample) = Len(q)
      /\ \A i \in 1 .. Len(q) : IsSample(b, t, b.sample[i], q[i], c[q[i]] * p)
  BY Zenon DEF Encoded
<1>2. add_stacktrace(acc, x, c[x]) = [strings |-> u, builder |-> e, period |-> p]
  <2>1. acc.period = p
    BY <1>1
  <2>2. add_stacktrace(acc, x, c[x]) = [acc EXCEPT !.strings = u, !.builder = e]
    BY <2>1, Zenon DEF add_stacktrace, TraceTable, FrameIds, LabelIds, Framed
  <2> HIDE DEF t, b, u, e
  <2> QED BY <1>1, <2>2
<1> HIDE DEF t, b
<1>3. /\ IsTable(u) /\ Extends(t, u)
      /\ \A i \in 1 .. n : Contains(u, x.frames[i].name) /\ Contains(u, x.frames[i].file)
      /\ \A l \in x.tags : Contains(u, l.key) /\ Contains(u, l.value)
  BY <1>1, TraceInterned
<1> HIDE DEF u
<1>4. /\ n \in Nat /\ DOMAIN frames = 1 .. n /\ \A i \in 1 .. n : IsFrame(frames[i], u)
      /\ [i \in 1 .. n |-> [name |-> u[frames[i].name + 1], file |-> u[frames[i].file + 1],
                            line |-> frames[i].line]] = x.frames
  BY <1>3, FramesRead, Zenon DEF IsTrace
<1>5. /\ \A l \in labels : l.key \in Ids(u) /\ l.str \in Ids(u)
      /\ LabelsRead(u, labels) = x.tags
  BY <1>3, LabelsReadTags, Zenon DEF IsTrace
<1> HIDE DEF n, frames, labels
<1>6. Sound(b, u)
  BY <1>1, <1>3, SoundExtends
<1>7. Sound(d, u) /\ Grows(b, d) /\ \A i \in 1 .. n : HasFrame(d, frames[i])
  BY <1>4, <1>6, FramesAdded
<1> HIDE DEF d
<1>8. IsRow(d, row) /\ RowReads(d, u, row) = x.frames
  BY <1>4, <1>7, PlacedReads
<1> HIDE DEF row
<1>9. IsSample(d, u, s, x, c[x] * p)
  BY <1>5, <1>8 DEF IsSample
<1> HIDE DEF s
<1>10. d.sample = b.sample
  BY <1>7, Zenon DEF Grows
<1>11. \A i \in 1 .. Len(q) : IsSample(d, u, d.sample[i], q[i], c[q[i]] * p)
  BY <1>1, <1>3, <1>7, <1>10, SampleGrows
<1>12. /\ IsSeq(samples) /\ Len(samples) = Len(q) + 1 /\ samples[Len(q) + 1] = s
       /\ \A i \in 1 .. Len(q) : samples[i] = d.sample[i]
  BY <1>1, <1>10, AppendSeq
<1> HIDE DEF samples
<1>13. /\ Sound(e, u) /\ e.sample = samples
       /\ \A y, z, v : IsSample(e, u, y, z, v) <=> IsSample(d, u, y, z, v)
  BY <1>7, SampleApart
<1> HIDE DEF e
<1>14. /\ Distinct(r) /\ Len(r) = Len(q) + 1 /\ r[Len(q) + 1] = x
       /\ \A i \in 1 .. Len(q) : r[i] = q[i]
  <2>1. Distinct(r)
    BY <1>1, WithKeeps
  <2>2. r = Append(q, x)
    BY DEF With
  <2> HIDE DEF r
  <2> QED BY <1>1, <2>1, <2>2, AppendSeq DEF Distinct
<1> HIDE DEF r
<1>15. Len(q) \in Nat
  BY <1>1, SeqFacts DEF Distinct
<1>16. \A i \in 1 .. Len(r) : IsSample(e, u, e.sample[i], r[i], c[r[i]] * p)
  <2> SUFFICES ASSUME NEW i \in 1 .. Len(r)
               PROVE  IsSample(d, u, samples[i], r[i], c[r[i]] * p)
    BY <1>13
  <2>1. CASE i = Len(q) + 1
    BY <1>9, <1>12, <1>14, <2>1
  <2>2. CASE i \in 1 .. Len(q)
    BY <1>11, <1>12, <1>14, <2>2, Zenon
  <2> QED BY <1>14, <1>15, <2>1, <2>2
<1>17. Typed(u, "pyspy")
  BY <1>1, <1>3, ContainsOn DEF Typed
<1> DEFINE a == [strings |-> u, builder |-> e, period |-> p]
<1>18. /\ a.strings = u /\ a.builder = e
       /\ a = [strings |-> a.strings, builder |-> a.builder, period |-> p]
  OBVIOUS
<1> HIDE DEF a
<1>19. IsSeq(a.builder.sample) /\ Len(a.builder.sample) = Len(r)
  BY <1>12, <1>13, <1>14, <1>18
<1>20. Encoded(a, r, c, p)
  BY <1>3, <1>13, <1>14, <1>16, <1>17, <1>18, <1>19, Zenon DEF Encoded
<1> QED BY <1>2, <1>20, Zenon DEF a, r

-----------------------------------------------------------------------------
(***************************************************************************)
(* encode(): all reports                                                   *)
(***************************************************************************)

\* acc with the entries of s, and with the reports of s.
WithEntries(acc, s) == FoldLeft(AddEntry, acc, s)
WithReports(acc, s) == FoldLeft(AddReport, acc, s)

\* The function that WithEntries(acc, s) is defined by, on the first n entries, and
\* what it goes through.
EntryFold(f, acc, s, n) ==
    f = [T \in SUBSET (1 .. n) |->
           IF T = {} THEN acc ELSE AddEntry(f[T \ {Max(T)}], s[Max(T)])]

EntryRun(g, acc, s, n) ==
    /\ g[0] = acc /\ g[n] = WithEntries(acc, s)
    /\ \A i \in 0 .. n - 1 : g[i + 1] = AddEntry(g[i], s[i + 1])

\* The entries are added one by one.
LEMMA EntrySteps ==
    ASSUME NEW acc, NEW s, NEW n \in Nat, DOMAIN s = 1 .. n
    PROVE  \E g : EntryRun(g, acc, s, n)
<1> DEFINE S == {m \in Nat : \E f : EntryFold(f, acc, s, m)}
<1>1. 0 \in S
  <2> DEFINE f == [T \in SUBSET (1 .. 0) |-> acc]
  <2>1. EntryFold(f, acc, s, 0)
    BY DEF EntryFold
  <2> QED BY <2>1
<1>2. ASSUME NEW m \in Nat, m \in S PROVE m + 1 \in S
  <2> PICK f : EntryFold(f, acc, s, m)
    BY <1>2
  <2> DEFINE v == [U \in SUBSET (1 .. m) |-> AddEntry(f[U], s[m + 1])]
  <2> PICK g : Grown(g, f, v, m)
    BY Growth
  <2>1. g = [T \in SUBSET (1 .. m + 1) |-> g[T]] /\ g[{}] = acc
    BY DEF Grown, EntryFold
  <2>2. ASSUME NEW T \in SUBSET (1 .. m + 1), T # {}
        PROVE  g[T] = AddEntry(g[T \ {Max(T)}], s[Max(T)])
    <3> DEFINE U == T \ {Max(T)}
    <3>1. /\ U \in SUBSET (1 .. m) /\ g[U] = f[U]
          /\ \/ Max(T) = m + 1 /\ g[T] = v[U]
             \/ T \in SUBSET (1 .. m) /\ g[T] = f[T]
      BY <2>2, Zenon DEF Grown
    <3>2. T \in SUBSET (1 .. m) => f[T] = AddEntry(f[U], s[Max(T)])
      BY <2>2, Zenon DEF EntryFold
    <3>3. v[U] = AddEntry(f[U], s[m + 1])
      BY <3>1
    <3> QED BY <3>1, <3>2, <3>3, Zenon
  <2>3. EntryFold(g, acc, s, m + 1)
    BY <2>1, <2>2, Zenon DEF EntryFold
  <2> QED BY <2>3
<1> HIDE DEF S
<1>3. n \in S
  BY <1>1, <1>2, Induct
<1> DEFINE f == CHOOSE f : EntryFold(f, acc, s, n)
<1>4. EntryFold(f, acc, s, n)
  BY <1>3 DEF S
<1>5. WithEntries(acc, s) = f[1 .. n]
  BY DEF WithEntries, FoldLeft, MapThenFoldSet, EntryFold
<1> HIDE DEF f
<1> DEFINE g == [i \in 0 .. n |-> f[1 .. i]]
<1>6. g[0] = acc /\ g[n] = WithEntries(acc, s)
  <2>1. f[{}] = acc
    BY <1>4, Zenon DEF EntryFold
  <2> QED BY <1>5, <2>1, FirstIndices
<1>7. ASSUME NEW i \in 0 .. n - 1 PROVE g[i + 1] = AddEntry(g[i], s[i + 1])
  <2> DEFINE T == 1 .. i + 1
  <2>1. /\ T \in SUBSET (1 .. n) /\ T # {} /\ Max(T) = i + 1 /\ T \ {i + 1} = 1 .. i
        /\ i \in 0 .. n /\ i + 1 \in 0 .. n
    BY FirstIndices
  <2>2. f[T] = AddEntry(f[T \ {Max(T)}], s[Max(T)])
    BY <1>4, <2>1, Zenon DEF EntryFold
  <2> QED BY <2>1, <2>2
<1> QED BY <1>6, <1>7 DEF EntryRun

\* The same for the reports.
ReportFold(f, acc, s, n) ==
    f = [T \in SUBSET (1 .. n) |->
           IF T = {} THEN acc ELSE AddReport(f[T \ {Max(T)}], s[Max(T)])]

ReportRun(g, acc, s, n) ==
    /\ g[0] = acc /\ g[n] = WithReports(acc, s)
    /\ \A i \in 0 .. n - 1 : g[i + 1] = AddReport(g[i], s[i + 1])

\* The reports are added one by one.
LEMMA ReportSteps ==
    ASSUME NEW acc, NEW s, NEW n \in Nat, DOMAIN s = 1 .. n
    PROVE  \E g : ReportRun(g, acc, s, n)
<1> DEFINE S == {m \in Nat : \E f : ReportFold(f, acc, s, m)}
<1>1. 0 \in S
  <2> DEFINE f == [T \in SUBSET (1 .. 0) |-> acc]
  <2>1. ReportFold(f, acc, s, 0)
    BY DEF ReportFold
  <2> QED BY <2>1
<1>2. ASSUME NEW m \in Nat, m \in S PROVE m + 1 \in S
  <2> PICK f : ReportFold(f, acc, s, m)
    BY <1>2
  <2> DEFINE v == [U \in SUBSET (1 .. m) |-> AddReport(f[U], s[m + 1])]
  <2> PICK g : Grown(g, f, v, m)
    BY Growth
  <2>1. g = [T \in SUBSET (1 .. m + 1) |-> g[T]] /\ g[{}] = acc
    BY DEF Grown, ReportFold
  <2>2. ASSUME NEW T \in SUBSET (1 .. m + 1), T # {}
        PROVE  g[T] = AddReport(g[T \ {Max(T)}], s[Max(T)])
    <3> DEFINE U == T \ {Max(T)}
    <3>1. /\ U \in SUBSET (1 .. m) /\ g[U] = f[U]
          /\ \/ Max(T) = m + 1 /\ g[T] = v[U]
             \/ T \in SUBSET (1 .. m) /\ g[T] = f[T]
      BY <2>2, Zenon DEF Grown
    <3>2. T \in SUBSET (1 .. m) => f[T] = AddReport(f[U], s[Max(T)])
      BY <2>2, Zenon DEF ReportFold
    <3>3. v[U] = AddReport(f[U], s[m + 1])
      BY <3>1
    <3> QED BY <3>1, <3>2, <3>3, Zenon
  <2>3. ReportFold(g, acc, s, m + 1)
    BY <2>1, <2>2, Zenon DEF ReportFold
  <2> QED BY <2>3
<1> HIDE DEF S
<1>3. n \in S
  BY <1>1, <1>2, Induct
<1> DEFINE f == CHOOSE f : ReportFold(f, acc, s, n)
<1>4. ReportFold(f, acc, s, n)
  BY <1>3 DEF S
<1>5. WithReports(acc, s) = f[1 .. n]
  BY DEF WithReports, FoldLeft, MapThenFoldSet, ReportFold
<1> HIDE DEF f
<1> DEFINE g == [i \in 0 .. n |-> f[1 .. i]]
<1>6. g[0] = acc /\ g[n] = WithReports(acc, s)
  <2>1. f[{}] = acc
    BY <1>4, Zenon DEF ReportFold
  <2> QED BY <1>5, <2>1, FirstIndices
<1>7. ASSUME NEW i \in 0 .. n - 1 PROVE g[i + 1] = AddReport(g[i], s[i + 1])
  <2> DEFINE T == 1 .. i + 1
  <2>1. /\ T \in SUBSET (1 .. n) /\ T # {} /\ Max(T) = i + 1 /\ T \ {i + 1} = 1 .. i
        /\ i \in 0 .. n /\ i + 1 \in 0 .. n
    BY FirstIndices
  <2>2. f[T] = AddReport(f[T \ {Max(T)}], s[Max(T)])
    BY <1>4, <2>1, Zenon DEF ReportFold
  <2> QED BY <2>1, <2>2
<1> QED BY <1>6, <1>7 DEF ReportRun

\* acc has the stack traces of S, with their counts in c and the period p.
Covers(acc, c, p, S) == \E q : Encoded(acc, q, c, p) /\ \A x : Contains(q, x) <=> x \in S

\* One more.
LEMMA CoversMore ==
    ASSUME NEW acc, NEW c, NEW p, NEW S, Covers(acc, c, p, S), NEW x, IsTrace(x), x \notin S
    PROVE  Covers(add_stacktrace(acc, x, c[x]), c, p, S \cup {x})
<1> PICK q : Encoded(acc, q, c, p) /\ \A y : Contains(q, y) <=> y \in S
  BY DEF Covers
<1> DEFINE r == With(q, x)
<1>1. Encoded(add_stacktrace(acc, x, c[x]), r, c, p)
  BY TraceAdded
<1>2. /\ Distinct(r) /\ Extends(q, r) /\ IdIn(q, x) \in 1 .. Len(r) /\ r[IdIn(q, x)] = x
      /\ \A i \in 1 .. Len(r) : r[i] = x \/ i \in 1 .. Len(q)
  BY WithKeeps, Zenon DEF Encoded
<1> HIDE DEF r
<1>3. /\ Len(q) \in Nat /\ DOMAIN q = 1 .. Len(q) /\ Len(r) \in Nat /\ DOMAIN r = 1 .. Len(r)
  BY <1>2, SeqFacts, Zenon DEF Encoded, Distinct
<1>4. \A i \in 1 .. Len(q) : i \in 1 .. Len(r) /\ r[i] = q[i]
  BY <1>2, <1>3 DEF Extends
<1>5. \A y : Contains(r, y) <=> Contains(q, y) \/ y = x
  BY <1>2, <1>3, <1>4 DEF Contains
<1> QED BY <1>1, <1>5 DEF Covers

\* The stack traces of the first m entries of s.
Firsts(s, m) == {s[i][1] : i \in 1 .. m}

\* All the entries of a report.
LEMMA CoversReport ==
    ASSUME NEW acc, NEW c, NEW p, NEW S, Covers(acc, c, p, S),
           NEW r, IsFiniteSet(DOMAIN r.data),
           \A x \in DOMAIN r.data : IsTrace(x) /\ r.data[x] = c[x] /\ x \notin S
    PROVE  Covers(AddReport(acc, r), c, p, S \cup DOMAIN r.data)
<1> DEFINE D == DOMAIN r.data
<1> DEFINE E == {<<x, r.data[x]>> : x \in D}
<1> DEFINE n == Cardinality(E)
<1> DEFINE s == SetToSeq(E)
<1>1. \A e \in E : e[1] \in D /\ e[2] = c[e[1]]
  OBVIOUS
<1>2. \A d, e \in E : d[1] = e[1] => d = e
  OBVIOUS
<1>3. ASSUME NEW x \in D PROVE \E e \in E : e[1] = x
  <2>1. <<x, r.data[x]>> \in E /\ <<x, r.data[x]>>[1] = x
    OBVIOUS
  <2> HIDE DEF E
  <2> QED BY <2>1
<1>4. IsFiniteSet(E)
  <2> DEFINE f == [x \in D |-> <<x, r.data[x]>>]
  <2>1. f \in Surjection(D, E)
    BY DEF Surjection
  <2> QED BY <2>1, FS_Surjection
<1>5. AddReport(acc, r) = WithEntries(acc, s)
  BY DEF AddReport, Entries, WithEntries
<1> HIDE DEF E
<1>6. n \in Nat /\ s \in [1 .. n -> E] /\ DOMAIN s = 1 .. n
      /\ (\A i, j \in 1 .. n : s[i] = s[j] => i = j)
      /\ \A e \in E : \E i \in 1 .. n : s[i] = e
  BY <1>4, Listed DEF Injection, Surjection, IsInjective
<1> HIDE DEF n, s
<1> PICK g : EntryRun(g, acc, s, n)
  BY <1>6, EntrySteps
<1> DEFINE M == {m \in Nat : m =< n => Covers(g[m], c, p, S \cup Firsts(s, m))}
<1>7. 0 \in M
  <2>1. Firsts(s, 0) = {}
    BY DEF Firsts
  <2>2. S \cup Firsts(s, 0) = S
    BY <2>1
  <2> QED BY <2>2 DEF EntryRun
<1>8. ASSUME NEW m \in Nat, m \in M PROVE m + 1 \in M
  <2> SUFFICES ASSUME m + 1 =< n PROVE Covers(g[m + 1], c, p, S \cup Firsts(s, m + 1))
    OBVIOUS
  <2>1. Covers(g[m], c, p, S \cup Firsts(s, m)) /\ m \in 0 .. n - 1 /\ m + 1 \in 1 .. n
    BY <1>6, <1>8
  <2> DEFINE x == s[m + 1][1]
  <2>2. g[m + 1] = AddEntry(g[m], s[m + 1])
    BY <2>1, Zenon DEF EntryRun
  <2>3. s[m + 1] \in E
    BY <1>6, <2>1
  <2>4. x \in D /\ s[m + 1][2] = c[x]
    BY <1>1, <2>3
  <2>5. x \notin Firsts(s, m)
    <3> SUFFICES ASSUME NEW i \in 1 .. m, s[i][1] = x PROVE FALSE
      BY DEF Firsts
    <3>1. i \in 1 .. n /\ i # m + 1
      BY <2>1, <1>6
    <3>2. s[i] \in E
      BY <1>6, <3>1
    <3>3. s[i] = s[m + 1]
      BY <1>2, <2>3, <3>2
    <3> QED BY <1>6, <2>1, <3>1, <3>3
  <2>6. Firsts(s, m + 1) = Firsts(s, m) \cup {x}
    <3>1. 1 .. m + 1 = (1 .. m) \cup {m + 1}
      OBVIOUS
    <3> QED BY <3>1 DEF Firsts
  <2>7. g[m + 1] = add_stacktrace(g[m], x, c[x])
    BY <2>2, <2>4, Zenon DEF AddEntry
  <2> HIDE DEF x
  <2> DEFINE V == S \cup Firsts(s, m)
  <2>8. IsTrace(x) /\ x \notin V /\ Covers(g[m], c, p, V)
    BY <2>1, <2>4, <2>5
  <2>9. V \cup {x} = S \cup Firsts(s, m + 1)
    BY <2>6
  <2> HIDE DEF V
  <2>10. Covers(g[m + 1], c, p, V \cup {x})
    BY <2>7, <2>8, CoversMore
  <2> QED BY <2>9, <2>10
<1> HIDE DEF M
<1>9. n \in M
  BY <1>6, <1>7, <1>8, Induct
<1>10. Covers(g[n], c, p, S \cup Firsts(s, n))
  BY <1>6, <1>9 DEF M
<1>11. Firsts(s, n) = D
  BY <1>1, <1>3, <1>6 DEF Firsts
<1> QED BY <1>5, <1>10, <1>11, Zenon DEF EntryRun, D

\* The stack traces of the first m reports of s.
ReportedBy(s, m) == UNION {DOMAIN s[i].data : i \in 1 .. m}

\* All reports, no two of which have a stack trace in common.
LEMMA CoversReports ==
    ASSUME NEW acc, NEW c, NEW p, Covers(acc, c, p, {}), NEW R, IsFiniteSet(R),
           \A r \in R : /\ IsFiniteSet(DOMAIN r.data)
                        /\ \A x \in DOMAIN r.data : IsTrace(x) /\ r.data[x] = c[x],
           \A r, o \in R : r # o => DOMAIN r.data \cap DOMAIN o.data = {}
    PROVE  Covers(WithReports(acc, SetToSeq(R)), c, p, UNION {DOMAIN r.data : r \in R})
<1> DEFINE n == Cardinality(R)
<1> DEFINE s == SetToSeq(R)
<1>1. n \in Nat /\ s \in [1 .. n -> R] /\ DOMAIN s = 1 .. n
      /\ (\A i, j \in 1 .. n : s[i] = s[j] => i = j)
      /\ \A r \in R : \E i \in 1 .. n : s[i] = r
  BY Listed DEF Injection, Surjection, IsInjective
<1> HIDE DEF n, s
<1> PICK g : ReportRun(g, acc, s, n)
  BY <1>1, ReportSteps
<1> DEFINE M == {m \in Nat : m =< n => Covers(g[m], c, p, ReportedBy(s, m))}
<1>2. 0 \in M
  <2>1. ReportedBy(s, 0) = {}
    BY DEF ReportedBy
  <2> QED BY <2>1 DEF ReportRun
<1>3. ASSUME NEW m \in Nat, m \in M PROVE m + 1 \in M
  <2> SUFFICES ASSUME m + 1 =< n PROVE Covers(g[m + 1], c, p, ReportedBy(s, m + 1))
    OBVIOUS
  <2>1. Covers(g[m], c, p, ReportedBy(s, m)) /\ m \in 0 .. n - 1 /\ m + 1 \in 1 .. n
    BY <1>1, <1>3
  <2> DEFINE r == s[m + 1]
  <2>2. g[m + 1] = AddReport(g[m], r)
    BY <2>1, Zenon DEF ReportRun
  <2>3. r \in R
    BY <1>1, <2>1
  <2>4. ASSUME NEW x \in DOMAIN r.data PROVE x \notin ReportedBy(s, m)
    <3> SUFFICES ASSUME NEW i \in 1 .. m, x \in DOMAIN s[i].data PROVE FALSE
      BY DEF ReportedBy
    <3>1. i \in 1 .. n /\ i # m + 1
      BY <2>1, <1>1
    <3>2. s[i] \in R /\ s[i] # r
      BY <1>1, <2>1, <3>1
    <3> QED BY <2>3, <2>4, <3>2
  <2>5. ReportedBy(s, m + 1) = ReportedBy(s, m) \cup DOMAIN r.data
    <3>1. 1 .. m + 1 = (1 .. m) \cup {m + 1}
      OBVIOUS
    <3> QED BY <3>1 DEF ReportedBy
  <2> HIDE DEF r
  <2>6. Covers(g[m + 1], c, p, ReportedBy(s, m) \cup DOMAIN r.data)
    BY <2>1, <2>2, <2>3, <2>4, CoversReport
  <2> QED BY <2>5, <2>6
<1> HIDE DEF M
<1>4. n \in M
  BY <1>1, <1>2, <1>3, Induct
<1>5. Covers(g[n], c, p, ReportedBy(s, n))
  BY <1>1, <1>4 DEF M
<1>6. ReportedBy(s, n) = UNION {DOMAIN r.data : r \in R}
  BY <1>1 DEF ReportedBy
<1> QED BY <1>5, <1>6, Zenon DEF ReportRun, s

\* The profile q of the reports: a sample for each stack trace of q, with its count.
Reads(P, q, c, p) ==
    /\ SeenTypes(P) = Types["pyspy"]
    /\ Distinct(q) /\ IsSeq(P.pprof.sample) /\ Len(P.pprof.sample) = Len(q)
    /\ \A i \in 1 .. Len(q) :
         /\ Resolves(P, P.pprof.sample[i])
         /\ Seen(P, P.pprof.sample[i]) = [frames |-> q[i].frames, tags |-> q[i].tags]
         /\ P.pprof.sample[i].value[1] = c[q[i]] * p

\* What encode makes of reports that have no stack trace in common, whatever they
\* are: one sample for each stack trace, which reads as its frames and tags and has
\* its count times the period (encode, add_stacktrace, StringTable::add).
THEOREM EncodeReads ==
    ASSUME NEW R, IsFiniteSet(R), NEW c, NEW p,
           \A r \in R : /\ IsFiniteSet(DOMAIN r.data)
                        /\ \A x \in DOMAIN r.data : IsTrace(x) /\ r.data[x] = c[x],
           \A r, o \in R : r # o => DOMAIN r.data \cap DOMAIN o.data = {}
    PROVE  \E q : /\ Reads(encode(R, p), q, c, p)
                  /\ \A x : Contains(q, x) <=> x \in UNION {DOMAIN r.data : r \in R}
<1> DEFINE D == UNION {DOMAIN r.data : r \in R}
<1> DEFINE t == set_profile_type(NewTable, "pyspy")
<1> DEFINE new == [strings |-> t, builder |-> NewBuilder, period |-> p]
<1> DEFINE done == WithReports(new, SetToSeq(R))
<1> DEFINE P == encode(R, p)
<1>1. "pyspy" \in DOMAIN Types
  BY DEF Types
<1>2. IsTable(t) /\ Typed(t, "pyspy")
  BY <1>1, NewIsTable, TypesAdded
<1> HIDE DEF t
<1>3. Encoded(new, <<>>, c, p)
  <2>1. <<>> \in Seq({}) /\ Len(<<>>) = 0 /\ DOMAIN <<>> = {} /\ 1 .. 0 = {}
    OBVIOUS
  <2>2. IsSeq(<<>>) /\ IsInjective(<<>>)
    BY <2>1, SeqIs DEF IsInjective
  <2>3. Sound(NewBuilder, t)
    BY NewSound
  <2>4. new.strings = t /\ new.builder = NewBuilder /\ new.period = p /\ NewBuilder.sample = <<>>
    BY DEF NewBuilder
  <2>5. new = [strings |-> new.strings, builder |-> new.builder, period |-> p]
    OBVIOUS
  <2> HIDE DEF new
  <2> QED BY <1>2, <2>1, <2>2, <2>3, <2>4, <2>5 DEF Encoded, Distinct
<1> HIDE DEF new
<1>4. Covers(new, c, p, {})
  <2>1. \A x : ~Contains(<<>>, x)
    BY DEF Contains
  <2> QED BY <1>3, <2>1 DEF Covers
<1>5. Covers(done, c, p, D)
  BY <1>4, CoversReports
<1>6. /\ P.pprof = done.builder /\ P.string_table = done.strings
      /\ P.types = TypeIds(done.strings, "pyspy")
  BY DEF encode, WithReports, new, t
<1> HIDE DEF done, D, P
<1> PICK q : Encoded(done, q, c, p) /\ \A x : Contains(q, x) <=> x \in D
  BY <1>5 DEF Covers
<1> DEFINE b == done.builder
<1> DEFINE u == done.strings
<1>7. /\ IsTable(u) /\ Typed(u, "pyspy") /\ Sound(b, u) /\ Distinct(q)
      /\ IsSeq(b.sample) /\ Len(b.sample) = Len(q)
      /\ \A i \in 1 .. Len(q) : IsSample(b, u, b.sample[i], q[i], c[q[i]] * p)
  BY Zenon DEF Encoded
<1> HIDE DEF b, u
<1>8. SeenTypes(P) = Types["pyspy"]
  BY <1>1, <1>6, <1>7, TypesSeen DEF u
<1>9. ASSUME NEW i \in 1 .. Len(q)
      PROVE  /\ Resolves(P, b.sample[i])
             /\ Seen(P, b.sample[i]) = [frames |-> q[i].frames, tags |-> q[i].tags]
             /\ b.sample[i].value[1] = c[q[i]] * p
  <2> DEFINE s == b.sample[i]
  <2>1. /\ s.value = <<c[q[i]] * p>> /\ IsRow(b, s.location_id)
        /\ RowReads(b, u, s.location_id) = q[i].frames
        /\ \A l \in s.label : l.key \in Ids(u) /\ l.str \in Ids(u)
        /\ LabelsRead(u, s.label) = q[i].tags
    BY <1>7, Zenon DEF IsSample
  <2> HIDE DEF s
  <2>2. Resolves(P, s) /\ Seen(P, s).frames = q[i].frames
    BY <1>6, <1>7, <2>1, RowSeen DEF b, u
  <2>3. Seen(P, s).tags = q[i].tags
    BY <1>6, <2>1 DEF Seen, Str, LabelsRead, u
  <2>4. Seen(P, s) = [frames |-> Seen(P, s).frames, tags |-> Seen(P, s).tags]
    BY DEF Seen
  <2>5. s.value[1] = c[q[i]] * p
    BY <2>1
  <2> QED BY <2>2, <2>3, <2>4, <2>5 DEF s
<1>10. Reads(P, q, c, p)
  BY <1>6, <1>7, <1>8, <1>9, Zenon DEF Reads, b
<1> QED BY <1>10 DEF P, D
=============================================================================
