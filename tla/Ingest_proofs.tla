----------------------------- MODULE Ingest_proofs -----------------------------
(***************************************************************************)
(* Proofs about Ingest, for any calls, label sets, hashes and batches: the *)
(* table of series, the shutdown that walks its ids, and the counters.     *)
(***************************************************************************)
EXTENDS Ingest, SequenceTheorems, FiniteSetTheorems, WellFoundedInduction, TLAPS

-----------------------------------------------------------------------------
(* Sums over finite sets, from the definition of MapThenFoldSet. *)

\* The order in which MapThenFoldSet goes through a set.
Some(s) == CHOOSE x \in s : TRUE
Less(s) == s \ {Some(s)}

\* g holds the sums of f over the parts of S, by the recursion of MapThenFoldSet.
SumsUp(f, S, g) ==
  g = [s \in SUBSET S |-> IF s = {} THEN 0 ELSE f[Some(s)] + g[Less(s)]]

\* A set that is not empty loses the element that is taken from it.
LEMMA SomeIsIn == ASSUME NEW s, s # {} PROVE Some(s) \in s /\ Less(s) \subseteq s /\ Less(s) # s
BY DEF Some, Less

\* Among sets of parts of a finite set there is one that none of them is part of.
LEMMA MinimalSet ==
  ASSUME NEW S, IsFiniteSet(S), NEW W \in SUBSET (SUBSET S), W # {}
  PROVE  \E s \in W : \A t \in W : t \subseteq s => t = s
<1> DEFINE R == StrictSubsetOrdering(S)
<1>1. IsWellFoundedOn(R, FiniteSubsetsOf(S))
  BY FS_StrictSubsetOrderingWellFounded
<1>2. FiniteSubsetsOf(S) = SUBSET S
  BY FS_FiniteSubsetsOfFinite
<1> HIDE DEF R
<1>3. PICK s \in W : \A t \in W : ~ (<<t, s>> \in R)
  BY <1>1, <1>2, WFMin
<1>4. ASSUME NEW t \in W, t \subseteq s, t # s PROVE FALSE
  <2>1. <<t, s>> \in R
    BY <1>4 DEF R, StrictSubsetOrdering
  <2> QED
    BY <1>3, <2>1
<1> QED
  BY <1>3, <1>4

\* The recursion at one part.
LEMMA SumsUpAt ==
  ASSUME NEW f, NEW S, NEW g, SumsUp(f, S, g), NEW s \in SUBSET S
  PROVE  /\ s = {} => g[s] = 0
         /\ s # {} => g[s] = f[Some(s)] + g[Less(s)]
BY DEF SumsUp

\* The recursion has one solution at most: two would differ at a smallest part.
LEMMA SumsUpUnique ==
  ASSUME NEW f, NEW S, IsFiniteSet(S), NEW g, SumsUp(f, S, g), NEW h, SumsUp(f, S, h)
  PROVE  g = h
<1> DEFINE W == {s \in SUBSET S : g[s] # h[s]}
<1>1. W = {}
  <2> SUFFICES ASSUME W # {} PROVE FALSE
    OBVIOUS
  <2>0. W \in SUBSET (SUBSET S)
    OBVIOUS
  <2>1. PICK s \in W : \A t \in W : t \subseteq s => t = s
    <3> HIDE DEF W
    <3> QED
      BY <2>0, MinimalSet
  <2>2. s # {}
    BY <2>1, SumsUpAt
  <2>3. Less(s) \in SUBSET S /\ Less(s) \subseteq s /\ Less(s) # s
    BY <2>1, <2>2, SomeIsIn
  <2>4. g[Less(s)] = h[Less(s)]
    BY <2>1, <2>3
  <2>5. g[s] = f[Some(s)] + g[Less(s)] /\ h[s] = f[Some(s)] + h[Less(s)]
    BY <2>1, <2>2, SumsUpAt
  <2> QED
    BY <2>1, <2>4, <2>5
<1>2. \A s \in SUBSET S : g[s] = h[s]
  BY <1>1
<1>3. g = [s \in SUBSET S |-> g[s]] /\ h = [s \in SUBSET S |-> h[s]]
  BY DEF SumsUp
<1> QED
  BY <1>2, <1>3

\* A solution for a set holds one for each of its parts.
LEMMA SumsUpPart ==
  ASSUME NEW f, NEW S, NEW g, SumsUp(f, S, g), NEW T \in SUBSET S
  PROVE  SumsUp(f, T, [s \in SUBSET T |-> g[s]])
<1> DEFINE h == [s \in SUBSET T |-> g[s]]
<1>1. ASSUME NEW s \in SUBSET T
      PROVE  h[s] = IF s = {} THEN 0 ELSE f[Some(s)] + h[Less(s)]
  <2>1. CASE s = {}
    BY <2>1, SumsUpAt
  <2>2. CASE s # {}
    <3>1. Less(s) \in SUBSET T
      BY <2>2, SomeIsIn
    <3>2. s \in SUBSET S
      OBVIOUS
    <3> QED
      BY <2>2, <3>1, <3>2, SumsUpAt
  <2> QED
    BY <2>1, <2>2
<1>2. h = [s \in SUBSET T |-> h[s]]
  OBVIOUS
<1> HIDE DEF h
<1>3. SumsUp(f, T, h)
  BY <1>1, <1>2 DEF SumsUp
<1> QED
  BY <1>3 DEF h

SumTable(f, S) == CHOOSE g : SumsUp(f, S, g)

\* The solutions for a set and for a part of it agree about the part.
LEMMA TablesAgree ==
  ASSUME NEW f, NEW S, IsFiniteSet(S), NEW g, SumsUp(f, S, g), NEW T \in SUBSET S
  PROVE  /\ SumsUp(f, T, SumTable(f, T))
         /\ g[T] = SumTable(f, T)[T]
<1> DEFINE h == [s \in SUBSET T |-> g[s]]
<1>1. SumsUp(f, T, h)
  BY SumsUpPart
<1>2. SumsUp(f, T, SumTable(f, T))
  BY <1>1 DEF SumTable
<1>3. IsFiniteSet(T)
  BY FS_Subset
<1> HIDE DEF h
<1>4. h = SumTable(f, T)
  BY <1>1, <1>2, <1>3, SumsUpUnique
<1> QED
  BY <1>2, <1>4 DEF h

\* The recursion has a solution for a finite set: a smallest part without one would have
\* one, put together from those of its own parts.
LEMMA TableExists ==
  ASSUME NEW f, NEW S, IsFiniteSet(S)
  PROVE  \E g : SumsUp(f, S, g)
<1> DEFINE W == {U \in SUBSET S : ~ \E g : SumsUp(f, U, g)}
<1> SUFFICES ASSUME W # {} PROVE FALSE
  OBVIOUS
<1>0. W \in SUBSET (SUBSET S)
  OBVIOUS
<1>1. PICK U \in W : \A t \in W : t \subseteq U => t = U
  <2> HIDE DEF W
  <2> QED
    BY <1>0, MinimalSet
<1>2. ASSUME NEW t \in SUBSET U, t # U
      PROVE  SumsUp(f, t, SumTable(f, t)) /\ IsFiniteSet(t)
  <2>1. t \in SUBSET S
    OBVIOUS
  <2>2. \E g : SumsUp(f, t, g)
    BY <1>1, <1>2, <2>1
  <2> QED
    BY <2>1, <2>2, FS_Subset DEF SumTable
<1> DEFINE below(s) == SumTable(f, Less(s))[Less(s)]
           h == [s \in SUBSET U |-> IF s = {} THEN 0 ELSE f[Some(s)] + below(s)]
<1>3. ASSUME NEW s \in SUBSET U, s # {} PROVE h[Less(s)] = below(s)
  <2> DEFINE t == Less(s)
  <2>1. t \in SUBSET U /\ t # U
    BY <1>3, SomeIsIn
  <2>2. SumsUp(f, t, SumTable(f, t)) /\ IsFiniteSet(t)
    BY <1>2, <2>1
  <2> HIDE DEF t
  <2>3. CASE t = {}
    <3>1. t \in SUBSET t
      OBVIOUS
    <3>2. SumTable(f, t)[t] = 0
      BY <2>2, <2>3, <3>1, SumsUpAt
    <3> QED
      BY <2>1, <2>3, <3>2 DEF t
  <2>4. CASE t # {}
    <3>1. Less(t) \in SUBSET t /\ t \in SUBSET t
      BY <2>4, SomeIsIn
    <3>2. SumTable(f, t)[t] = f[Some(t)] + SumTable(f, t)[Less(t)]
      BY <2>2, <2>4, <3>1, SumsUpAt
    <3>3. SumTable(f, t)[Less(t)] = below(t)
      BY <2>2, <3>1, TablesAgree
    <3> QED
      BY <2>1, <2>4, <3>2, <3>3 DEF t
  <2> QED
    BY <2>3, <2>4
<1>4. SumsUp(f, U, h)
  BY <1>3 DEF SumsUp
<1> QED
  BY <1>1, <1>4

\* MapThenSumSet reads its sum off that solution.
LEMMA SumOverIsTable ==
  ASSUME NEW f, NEW S
  PROVE  SumOver(f, S) = SumTable(f, S)[S]
BY DEF SumOver, MapThenSumSet, MapThenFoldSet, SumTable, SumsUp, Some, Less

\* There is nothing to sum up in an empty set.
LEMMA SumOverEmpty ==
  ASSUME NEW f
  PROVE  SumOver(f, {}) = 0
<1>1. SumsUp(f, {}, SumTable(f, {})) /\ {} \in SUBSET {}
  BY TableExists, FS_EmptySet DEF SumTable
<1> QED
  BY <1>1, SumsUpAt, SumOverIsTable

\* The first step of the recursion.
LEMMA SumOverSome ==
  ASSUME NEW f, NEW S, IsFiniteSet(S), S # {}
  PROVE  SumOver(f, S) = f[Some(S)] + SumOver(f, Less(S))
<1>1. SumsUp(f, S, SumTable(f, S))
  BY TableExists DEF SumTable
<1>2. Less(S) \in SUBSET S /\ S \in SUBSET S
  BY SomeIsIn
<1>3. SumTable(f, S)[S] = f[Some(S)] + SumTable(f, S)[Less(S)]
  BY <1>1, <1>2, SumsUpAt
<1>4. SumTable(f, S)[Less(S)] = SumTable(f, Less(S))[Less(S)]
  BY <1>1, <1>2, TablesAgree
<1> QED
  BY <1>3, <1>4, SumOverIsTable

\* Natural numbers have a natural number as their sum.
LEMMA SumOverType ==
  ASSUME NEW S, IsFiniteSet(S), NEW f, \A x \in S : f[x] \in Nat
  PROVE  SumOver(f, S) \in Nat
<1> DEFINE W == {s \in SUBSET S : SumOver(f, s) \notin Nat}
<1> SUFFICES ASSUME W # {} PROVE FALSE
  OBVIOUS
<1>0. W \in SUBSET (SUBSET S)
  OBVIOUS
<1>1. PICK s \in W : \A t \in W : t \subseteq s => t = s
  <2> HIDE DEF W
  <2> QED
    BY <1>0, MinimalSet
<1>2. s # {}
  <2>1. SumOver(f, {}) \in Nat
    BY SumOverEmpty
  <2> QED
    BY <1>1, <2>1
<1>3. Some(s) \in s /\ Less(s) \in SUBSET S /\ Less(s) \subseteq s /\ Less(s) # s
  BY <1>1, <1>2, SomeIsIn
<1>4. SumOver(f, Less(s)) \in Nat
  BY <1>1, <1>3
<1>5. SumOver(f, s) = f[Some(s)] + SumOver(f, Less(s))
  BY <1>1, <1>2, SumOverSome, FS_Subset
<1>6. f[Some(s)] \in Nat
  BY <1>1, <1>3
<1> QED
  BY <1>1, <1>4, <1>5, <1>6

\* Any element can be summed up first.
LEMMA SumOverRemove ==
  ASSUME NEW S, IsFiniteSet(S), NEW f, \A x \in S : f[x] \in Nat, NEW x \in S
  PROVE  SumOver(f, S) = f[x] + SumOver(f, S \ {x})
<1> DEFINE OK(s) == \A y \in s : SumOver(f, s) = f[y] + SumOver(f, s \ {y})
           W == {s \in SUBSET S : ~ OK(s)}
<1>0. W \in SUBSET (SUBSET S)
  OBVIOUS
<1>1. W = {}
  <2> SUFFICES ASSUME W # {} PROVE FALSE
    OBVIOUS
  <2>1. PICK s \in W : \A t \in W : t \subseteq s => t = s
    <3> HIDE DEF W
    <3> QED
      BY <1>0, MinimalSet
  <2>2. PICK y \in s : SumOver(f, s) # f[y] + SumOver(f, s \ {y})
    BY <2>1
  <2> DEFINE c == Some(s)
  <2>3. c \in s /\ Less(s) = s \ {c} /\ s \in SUBSET S
    BY <2>1, SomeIsIn DEF Less
  <2>4. IsFiniteSet(s) /\ IsFiniteSet(s \ {c, y})
    BY <2>3, FS_Subset
  <2>5. SumOver(f, s) = f[c] + SumOver(f, s \ {c})
    BY <2>2, <2>3, <2>4, SumOverSome
  <2> HIDE DEF c
  <2>6. c # y
    BY <2>2, <2>5
  <2>7. s \ {c} \notin W /\ s \ {y} \notin W
    <3>1. s \ {c} # s /\ s \ {y} # s /\ s \ {c} \subseteq s /\ s \ {y} \subseteq s
      BY <2>2, <2>3
    <3> HIDE DEF W
    <3> QED
      BY <2>1, <3>1
  <2>8. OK(s \ {c}) /\ OK(s \ {y})
    BY <2>3, <2>7
  <2>9. /\ SumOver(f, s \ {c}) = f[y] + SumOver(f, (s \ {c}) \ {y})
        /\ SumOver(f, s \ {y}) = f[c] + SumOver(f, (s \ {y}) \ {c})
    BY <2>2, <2>3, <2>6, <2>8
  <2>10. (s \ {c}) \ {y} = s \ {c, y} /\ (s \ {y}) \ {c} = s \ {c, y}
    OBVIOUS
  <2>11. SumOver(f, s \ {c, y}) \in Nat /\ f[c] \in Nat /\ f[y] \in Nat
    BY <2>2, <2>3, <2>4, SumOverType
  <2> QED
    BY <2>2, <2>5, <2>9, <2>10, <2>11
<1>2. OK(S)
  BY <1>1
<1> QED
  BY <1>2

\* A sum adds up what its elements stand for, whatever else the function holds.
LEMMA SumOverSame ==
  ASSUME NEW S, IsFiniteSet(S), NEW f, NEW h, \A x \in S : f[x] = h[x]
  PROVE  SumOver(f, S) = SumOver(h, S)
<1> DEFINE W == {s \in SUBSET S : SumOver(f, s) # SumOver(h, s)}
<1> SUFFICES ASSUME W # {} PROVE FALSE
  OBVIOUS
<1>0. W \in SUBSET (SUBSET S)
  OBVIOUS
<1>1. PICK s \in W : \A t \in W : t \subseteq s => t = s
  <2> HIDE DEF W
  <2> QED
    BY <1>0, MinimalSet
<1>2. s # {}
  BY <1>1, SumOverEmpty
<1>3. Some(s) \in s /\ Less(s) \in SUBSET S /\ Less(s) \subseteq s /\ Less(s) # s
  BY <1>1, <1>2, SomeIsIn
<1>4. SumOver(f, Less(s)) = SumOver(h, Less(s))
  BY <1>1, <1>3
<1>5. /\ SumOver(f, s) = f[Some(s)] + SumOver(f, Less(s))
      /\ SumOver(h, s) = h[Some(s)] + SumOver(h, Less(s))
  BY <1>1, <1>2, SumOverSome, FS_Subset
<1>6. f[Some(s)] = h[Some(s)]
  BY <1>1, <1>3
<1> QED
  BY <1>1, <1>4, <1>5, <1>6

\* One more element adds its own share.
LEMMA SumOverAdd ==
  ASSUME NEW S, IsFiniteSet(S), NEW f, NEW x, x \notin S,
         \A y \in S \cup {x} : f[y] \in Nat
  PROVE  SumOver(f, S \cup {x}) = SumOver(f, S) + f[x]
<1>1. IsFiniteSet(S \cup {x}) /\ (S \cup {x}) \ {x} = S
  BY FS_AddElement
<1>2. SumOver(f, S \cup {x}) = f[x] + SumOver(f, S)
  BY <1>1, SumOverRemove
<1> QED
  BY <1>2, SumOverType

\* A sum after one of its terms has changed.
LEMMA SumOverChange ==
  ASSUME NEW S, IsFiniteSet(S), NEW x \in S, NEW f, NEW h,
         \A y \in S : f[y] \in Nat /\ h[y] \in Nat,
         \A y \in S \ {x} : f[y] = h[y]
  PROVE  SumOver(h, S) + f[x] = SumOver(f, S) + h[x]
<1>1. IsFiniteSet(S \ {x}) /\ S \ {x} \subseteq S
  BY FS_RemoveElement
<1>2. SumOver(f, S \ {x}) = SumOver(h, S \ {x}) /\ SumOver(f, S \ {x}) \in Nat
  BY <1>1, SumOverSame, SumOverType
<1>3. SumOver(f, S) = f[x] + SumOver(f, S \ {x}) /\ SumOver(h, S) = h[x] + SumOver(h, S \ {x})
  BY SumOverRemove
<1>4. f[x] \in Nat /\ h[x] \in Nat
  OBVIOUS
<1> QED
  BY <1>2, <1>3, <1>4

\* The sum over zeros is zero.
LEMMA SumOverZeros ==
  ASSUME NEW S, IsFiniteSet(S), NEW f, \A x \in S : f[x] = 0
  PROVE  SumOver(f, S) = 0
<1> DEFINE W == {s \in SUBSET S : SumOver(f, s) # 0}
<1> SUFFICES ASSUME W # {} PROVE FALSE
  OBVIOUS
<1>0. W \in SUBSET (SUBSET S)
  OBVIOUS
<1>1. PICK s \in W : \A t \in W : t \subseteq s => t = s
  <2> HIDE DEF W
  <2> QED
    BY <1>0, MinimalSet
<1>2. s # {}
  BY <1>1, SumOverEmpty
<1>3. Some(s) \in s /\ Less(s) \in SUBSET S /\ Less(s) \subseteq s /\ Less(s) # s
  BY <1>1, <1>2, SomeIsIn
<1>4. SumOver(f, Less(s)) = 0
  BY <1>1, <1>3
<1>5. SumOver(f, s) = f[Some(s)] + SumOver(f, Less(s))
  BY <1>1, <1>2, SumOverSome, FS_Subset
<1> QED
  BY <1>1, <1>3, <1>4, <1>5

\* The sum up to the next index.
LEMMA SumOverUpTo ==
  ASSUME NEW n \in Nat, NEW r, \A i \in 1..(n + 1) : r[i] \in Nat
  PROVE  SumOver(r, 1..(n + 1)) = SumOver(r, 1..n) + r[n + 1]
<1>1. 1..(n + 1) = (1..n) \cup {n + 1} /\ n + 1 \notin 1..n /\ IsFiniteSet(1..n)
  BY FS_Interval
<1>2. \A i \in (1..n) \cup {n + 1} : r[i] \in Nat
  BY <1>1
<1>3. SumOver(r, (1..n) \cup {n + 1}) = SumOver(r, 1..n) + r[n + 1]
  <2> DEFINE T == 1..n
             x == n + 1
  <2>1. IsFiniteSet(T) /\ x \notin T /\ \A i \in T \cup {x} : r[i] \in Nat
    BY <1>1, <1>2
  <2> HIDE DEF T, x
  <2>2. SumOver(r, T \cup {x}) = SumOver(r, T) + r[x]
    BY <2>1, SumOverAdd
  <2> QED
    BY <2>2 DEF T, x
<1> QED
  BY <1>1, <1>3

\* A sequence of numbers that grows at its end.
LEMMA SumOverAppend ==
  ASSUME NEW r \in Seq(Nat), NEW x \in Nat
  PROVE  SumOver(Append(r, x), DOMAIN Append(r, x)) = SumOver(r, DOMAIN r) + x
<1> DEFINE n == Len(r)
           a == Append(r, x)
<1>1. n \in Nat /\ DOMAIN r = 1..n /\ \A i \in 1..n : r[i] \in Nat
  BY LenProperties, ElementOfSeq
<1>2. /\ a \in Seq(Nat) /\ Len(a) = n + 1 /\ a[n + 1] = x
      /\ \A i \in 1..n : a[i] = r[i]
  BY <1>1, AppendProperties
<1>3. DOMAIN a = 1..(n + 1)
  BY <1>2, LenProperties
<1> HIDE DEF a, n
<1>4. \A i \in 1..(n + 1) : a[i] \in Nat
  BY <1>1, <1>2
<1>5. SumOver(a, 1..(n + 1)) = SumOver(a, 1..n) + a[n + 1]
  BY <1>1, <1>4, SumOverUpTo
<1>6. SumOver(a, 1..n) = SumOver(r, 1..n)
  <2>1. IsFiniteSet(1..n)
    BY <1>1, FS_Interval
  <2> QED
    BY <1>2, <2>1, SumOverSame
<1> QED
  BY <1>1, <1>2, <1>3, <1>5, <1>6 DEF a

\* A set of natural numbers that is not empty has a least element.
LEMMA LeastExists ==
  ASSUME NEW C \in SUBSET Nat, C # {}
  PROVE  \E n \in C : \A m \in C : n <= m
<1> DEFINE upTo(n) == {m \in C : m <= n}
<1>1. PICK k \in C : TRUE
  OBVIOUS
<1>2. \A n \in C : n \in Nat
  OBVIOUS
<1>0. PICK base : base = 0..k /\ IsFiniteSet(base)
  BY <1>2, FS_Interval
<1> DEFINE W == {upTo(n) : n \in upTo(k)}
<1>3. W \in SUBSET (SUBSET base) /\ W # {}
  <2>1. ASSUME NEW n \in upTo(k), NEW m \in upTo(n) PROVE m \in base
    BY <1>2, <1>0
  <2>2. k \in upTo(k)
    BY <1>2
  <2> HIDE DEF upTo
  <2> QED
    BY <2>1, <2>2
<1>4. PICK s \in W : \A t \in W : t \subseteq s => t = s
  <2>1. IsFiniteSet(base)
    BY <1>0
  <2> HIDE DEF W
  <2> QED
    BY <1>3, <2>1, MinimalSet
<1>5. PICK n \in upTo(k) : s = upTo(n)
  BY <1>4
<1>6. ASSUME NEW m \in C, ~(n <= m) PROVE FALSE
  <2>1. m \in Nat /\ n \in Nat /\ n \in C /\ n <= k /\ m < n
    BY <1>2, <1>5, <1>6
  <2>2. m \in upTo(k) /\ n \notin upTo(m) /\ n \in upTo(n)
    BY <1>2, <2>1
  <2>5. upTo(m) \subseteq upTo(n)
    <3> SUFFICES ASSUME NEW l \in upTo(m) PROVE l \in upTo(n)
      OBVIOUS
    <3> QED
      BY <1>2, <2>1
  <2> HIDE DEF upTo
  <2>3. upTo(m) \in W
    BY <2>2
  <2>4. upTo(m) = s
    BY <1>4, <1>5, <2>5, <2>3
  <2> QED
    BY <1>5, <2>2, <2>4
<1> QED
  BY <1>5, <1>6

\* A sequence of numbers that loses its head.
LEMMA SumOverTail ==
  ASSUME NEW r \in Seq(Nat), r # <<>>
  PROVE  SumOver(r, DOMAIN r) = Head(r) + SumOver(Tail(r), DOMAIN Tail(r))
<1> DEFINE n == Len(r)
           q == Tail(r)
<1>1. n \in Nat \ {0} /\ DOMAIN r = 1..n /\ \A i \in 1..n : r[i] \in Nat
  BY LenProperties, ElementOfSeq, EmptySeq
<1>2. q \in Seq(Nat) /\ Len(q) = n - 1 /\ \A i \in 1..(n - 1) : q[i] = r[i + 1]
  BY HeadTailProperties
<1>3. DOMAIN q = 1..(n - 1) /\ Head(r) = r[1]
  BY <1>2, LenProperties
<1> HIDE DEF q, n
<1> DEFINE Bad == {k \in Nat : k <= n - 1 /\ SumOver(r, 1..(k + 1)) # r[1] + SumOver(q, 1..k)}
<1>4. Bad = {}
  <2> SUFFICES ASSUME Bad # {} PROVE FALSE
    OBVIOUS
  <2>0. Bad \in SUBSET Nat
    OBVIOUS
  <2>1. PICK k \in Bad : \A m \in Bad : k <= m
    <3> HIDE DEF Bad
    <3> QED
      BY <2>0, LeastExists
  <2>2. k \in Nat /\ k <= n - 1 /\ SumOver(r, 1..(k + 1)) # r[1] + SumOver(q, 1..k)
    OBVIOUS
  <2>3. \A m \in Nat : m <= n - 1 /\ m < k => SumOver(r, 1..(m + 1)) = r[1] + SumOver(q, 1..m)
    BY <2>1, <2>2
  <2> HIDE DEF Bad
  <2>4. \A i \in 1..(k + 1) : r[i] \in Nat
    BY <1>1, <2>2
  <2>5. ASSUME NEW i \in 1..k PROVE q[i] = r[i + 1] /\ q[i] \in Nat
    <3>1. i \in 1..(n - 1) /\ i + 1 \in 1..(k + 1)
      BY <1>1, <2>2
    <3> QED
      BY <1>2, <2>4, <3>1
  <2>6. SumOver(r, 1..(k + 1)) = SumOver(r, 1..k) + r[k + 1]
    BY <2>2, <2>4, SumOverUpTo
  <2>7. CASE k = 0
    <3>1. 1..k = {}
      BY <2>7
    <3>2. SumOver(r, 1..k) = 0 /\ SumOver(q, 1..k) = 0
      BY <3>1, SumOverEmpty
    <3> QED
      BY <2>2, <2>4, <2>6, <2>7, <3>2
  <2>8. CASE k # 0
    <3>1. PICK j \in Nat : j + 1 = k /\ j <= n - 1 /\ j < k
      <4>1. k - 1 \in Nat /\ (k - 1) + 1 = k /\ k - 1 <= n - 1 /\ k - 1 < k
        BY <1>1, <2>2, <2>8
      <4> QED
        BY <4>1
    <3>2. SumOver(r, 1..k) = r[1] + SumOver(q, 1..j)
      BY <2>3, <3>1
    <3>3. SumOver(q, 1..k) = SumOver(q, 1..j) + q[k]
      BY <2>5, <3>1, SumOverUpTo
    <3>4. q[k] = r[k + 1] /\ q[k] \in Nat /\ r[1] \in Nat
      BY <2>2, <2>4, <2>5, <2>8
    <3>5. SumOver(q, 1..j) \in Nat
      <4>1. \A i \in 1..j : q[i] \in Nat
        BY <2>5, <3>1
      <4>2. IsFiniteSet(1..j)
        BY <3>1, FS_Interval
      <4> QED
        BY <4>1, <4>2, SumOverType
    <3>6. SumOver(r, 1..(k + 1)) = r[1] + SumOver(q, 1..k)
      BY <2>6, <3>2, <3>3, <3>4, <3>5
    <3> QED
      BY <2>2, <3>6
  <2> QED
    BY <2>7, <2>8
<1>5. SumOver(r, 1..n) = r[1] + SumOver(q, 1..(n - 1))
  <2>1. n - 1 \in Nat /\ n - 1 <= n - 1 /\ (n - 1) + 1 = n
    BY <1>1
  <2>2. n - 1 \notin Bad
    BY <1>4
  <2> QED
    BY <2>1, <2>2
<1> QED
  BY <1>1, <1>3, <1>5 DEF q

-----------------------------------------------------------------------------
(* The table of series. *)

MemSeries ==
  [lset : LabelSets, id : Nat, instances : {"nil", "some", "ehuniv"}, stopped : BOOLEAN]

Creator ==
  [step : {"idle", "load", "store", "publish", "index", "have", "more"},
   lset : LabelSets, seen : Nat, made : Nat]

TableTypeOK ==
  /\ memSeries \in Seq(MemSeries)
  /\ unique \in [Hashes -> Nat]
  /\ conflicts \in [Hashes -> Seq(Nat)]
  /\ id \in Nat
  /\ creator \in [Calls -> Creator]
  /\ raced \in BOOLEAN

\* The labels of each memSeries.
Labels == [i \in DOMAIN memSeries |-> memSeries[i].lset]

\* With the labels L, the entries of hash h - u in unique, q in conflicts - are filed under
\* the hash of their labels, and no two have the same labels.
EntriesDiffer(L, h, u, q) ==
  /\ u = 0 => q = <<>>
  /\ u # 0 => u \in DOMAIN L /\ Hash[L[u]] = h
  /\ \A n \in DOMAIN q :
       /\ q[n] \in DOMAIN L /\ Hash[L[q[n]]] = h /\ L[q[n]] # L[u]
       /\ \A m \in DOMAIN q : L[q[m]] = L[q[n]] => m = n

IsEntry(e, u, q) == e = u \/ \E n \in DOMAIN q : q[n] = e

\* Every memSeries is an entry or has lost its place to a newer one with its labels.
NewestIsEntry(L, uniq, conf) ==
  \A i \in DOMAIN L : \E e \in DOMAIN L :
    L[e] = L[i] /\ i <= e /\ IsEntry(e, uniq[Hash[L[i]]], conf[Hash[L[i]]])

TableFound ==
  /\ TableTypeOK
  /\ \A h \in Hashes : EntriesDiffer(Labels, h, unique[h], conflicts[h])
  /\ NewestIsEntry(Labels, unique, conflicts)

LEMMA TableFacts ==
  ASSUME TableTypeOK
  PROVE  /\ DOMAIN memSeries = 1..Len(memSeries) /\ Len(memSeries) \in Nat
         /\ \A i \in 1..Len(memSeries) :
              /\ memSeries[i] \in MemSeries
              /\ memSeries[i].lset \in LabelSets /\ memSeries[i].id \in Nat
         /\ \A l \in LabelSets : Hash[l] \in Hashes
         /\ \A h \in Hashes :
              /\ unique[h] \in Nat /\ conflicts[h] \in Seq(Nat)
              /\ Len(conflicts[h]) \in Nat /\ DOMAIN conflicts[h] = 1..Len(conflicts[h])
<1>1. memSeries \in Seq(MemSeries)
  BY DEF TableTypeOK
<1>2. DOMAIN memSeries = 1..Len(memSeries) /\ Len(memSeries) \in Nat
  BY <1>1, LenProperties
<1>3. \A i \in 1..Len(memSeries) : memSeries[i] \in MemSeries
  BY <1>1, ElementOfSeq
<1>4. \A i \in 1..Len(memSeries) : memSeries[i].lset \in LabelSets /\ memSeries[i].id \in Nat
  BY <1>3 DEF MemSeries
<1>5. \A h \in Hashes : unique[h] \in Nat /\ conflicts[h] \in Seq(Nat)
  BY DEF TableTypeOK
<1>6. \A h \in Hashes :
        Len(conflicts[h]) \in Nat /\ DOMAIN conflicts[h] = 1..Len(conflicts[h])
  BY <1>5, LenProperties
<1> QED
  BY <1>2, <1>3, <1>4, <1>5, <1>6 DEF Hashes

LEMMA FirstOfOne ==
  ASSUME NEW n \in Nat
  PROVE  (CHOOSE k \in {n} : \A m \in {n} : k <= m) = n
<1>1. \E k \in {n} : \A m \in {n} : k <= m
  OBVIOUS
<1> QED
  BY <1>1

\* What differing entries are, in terms of the memSeries.
LEMMA EntryFacts ==
  ASSUME TableFound, NEW h \in Hashes
  PROVE  /\ unique[h] = 0 => conflicts[h] = <<>>
         /\ unique[h] # 0 => unique[h] \in DOMAIN memSeries
         /\ Entries(h) = {e \in DOMAIN memSeries : IsEntry(e, unique[h], conflicts[h])}
         /\ \A n \in DOMAIN conflicts[h] :
              /\ n \in Nat /\ conflicts[h][n] \in DOMAIN memSeries
              /\ conflicts[h][n] \in Entries(h)
              /\ unique[h] # 0
              /\ memSeries[conflicts[h][n]].lset # memSeries[unique[h]].lset
              /\ \A m \in DOMAIN conflicts[h] :
                   memSeries[conflicts[h][m]].lset = memSeries[conflicts[h][n]].lset => m = n
<1>1. EntriesDiffer(Labels, h, unique[h], conflicts[h]) /\ TableTypeOK
  BY DEF TableFound
<1>2. DOMAIN conflicts[h] = 1..Len(conflicts[h]) /\ Len(conflicts[h]) \in Nat /\ Len(<<>>) = 0
  BY <1>1, TableFacts, EmptySeq
<1>3. DOMAIN Labels = DOMAIN memSeries /\ \A i \in DOMAIN memSeries : Labels[i] = memSeries[i].lset
  BY DEF Labels
<1>4. Entries(h) = {e \in DOMAIN memSeries : IsEntry(e, unique[h], conflicts[h])}
  BY DEF Entries, IsEntry
<1>5. unique[h] = 0 => conflicts[h] = <<>> /\ DOMAIN conflicts[h] = {}
  BY <1>1, <1>2 DEF EntriesDiffer
<1> HIDE DEF Labels
<1>6. ASSUME NEW n \in DOMAIN conflicts[h]
      PROVE  /\ n \in Nat /\ conflicts[h][n] \in DOMAIN memSeries
             /\ conflicts[h][n] \in Entries(h)
             /\ unique[h] # 0
             /\ memSeries[conflicts[h][n]].lset # memSeries[unique[h]].lset
             /\ \A m \in DOMAIN conflicts[h] :
                  memSeries[conflicts[h][m]].lset = memSeries[conflicts[h][n]].lset => m = n
  <2>1. unique[h] # 0 /\ unique[h] \in DOMAIN memSeries /\ conflicts[h][n] \in DOMAIN memSeries
    BY <1>1, <1>3, <1>5 DEF EntriesDiffer
  <2>2. conflicts[h][n] \in Entries(h)
    BY <2>1 DEF Entries
  <2> QED
    BY <1>1, <1>2, <1>3, <2>1, <2>2 DEF EntriesDiffer
<1> QED
  BY <1>1, <1>3, <1>4, <1>5, <1>6 DEF EntriesDiffer

\* getByHash finds an entry with the labels it is given.
LEMMA LookupFinds ==
  ASSUME TableFound, NEW l \in LabelSets,
         NEW e \in Entries(Hash[l]), memSeries[e].lset = l
  PROVE  getByHash(l) = e
<1> DEFINE h == Hash[l]
<1>1. h \in Hashes /\ e \in DOMAIN memSeries /\ e \in Nat \ {0}
  BY TableFacts DEF Entries, TableFound
<1>2. CASE e = unique[h]
  BY <1>1, <1>2 DEF getByHash
<1>3. CASE e # unique[h]
  <2>1. PICK n \in DOMAIN conflicts[h] : conflicts[h][n] = e
    BY <1>3 DEF Entries
  <2>2. memSeries[unique[h]].lset # l /\ n \in Nat
    BY <1>1, <2>1, EntryFacts
  <2>3. With(l, conflicts[h], memSeries) = {n}
    <3>1. \A m \in DOMAIN conflicts[h] : memSeries[conflicts[h][m]].lset = l => m = n
      BY <1>1, <2>1, EntryFacts
    <3> QED
      BY <2>1, <3>1 DEF With
  <2>4. (CHOOSE k \in {n} : \A m \in {n} : k <= m) = n
    BY <2>2, FirstOfOne
  <2>5. getByHash(l) = conflicts[h][CHOOSE k \in {n} : \A m \in {n} : k <= m]
    BY <2>2, <2>3 DEF getByHash
  <2> QED
    BY <2>1, <2>4, <2>5
<1> QED
  BY <1>2, <1>3

LEMMA LookupMisses ==
  ASSUME TableFound, NEW l \in LabelSets,
         \A e \in Entries(Hash[l]) : memSeries[e].lset # l
  PROVE  getByHash(l) = 0
<1> DEFINE h == Hash[l]
<1>1. h \in Hashes
  BY TableFacts DEF TableFound
<1>2. ~(unique[h] # 0 /\ memSeries[unique[h]].lset = l)
  BY <1>1, EntryFacts DEF Entries
<1>3. With(l, conflicts[h], memSeries) = {}
  BY <1>1, EntryFacts DEF With
<1> QED
  BY <1>2, <1>3 DEF getByHash

\* What getByHash returns is an entry with the labels it was given, if it is not nil.
LEMMA LookupIsEntry ==
  ASSUME TableFound, NEW l \in LabelSets, getByHash(l) # 0
  PROVE  /\ getByHash(l) \in DOMAIN memSeries /\ getByHash(l) \in Nat
         /\ getByHash(l) \in Entries(Hash[l]) /\ memSeries[getByHash(l)].lset = l
<1>1. PICK e \in Entries(Hash[l]) : memSeries[e].lset = l
  BY LookupMisses
<1>2. getByHash(l) = e
  BY <1>1, LookupFinds
<1> QED
  BY <1>1, <1>2, TableFacts DEF Entries, TableFound

\* The inductive part of the table says what SeriesAreFound promises.
LEMMA TableIsFound ==
  ASSUME TableFound
  PROVE  SeriesAreFound
<1>1. \A h \in Hashes : unique[h] = 0 => conflicts[h] = <<>>
  BY EntryFacts
<1>2. ASSUME NEW l \in LabelSets
      PROVE  LET all == {i \in DOMAIN memSeries : memSeries[i].lset = l}
             IN IF all = {} THEN getByHash(l) = 0
                ELSE {i \in Entries(Hash[l]) : memSeries[i].lset = l} =
                       {getByHash(l)} /\ \A i \in all : i <= getByHash(l)
  <2> DEFINE all == {i \in DOMAIN memSeries : memSeries[i].lset = l}
  <2>1. CASE all = {}
    <3>1. \A e \in Entries(Hash[l]) : memSeries[e].lset # l
      BY <2>1 DEF Entries
    <3> QED
      BY <2>1, <3>1, LookupMisses
  <2>2. CASE all # {}
    <3>1. ASSUME NEW i \in all
          PROVE  \E e \in Entries(Hash[l]) : memSeries[e].lset = l /\ i <= e
      <4>1. DOMAIN Labels = DOMAIN memSeries /\ \A j \in DOMAIN memSeries : Labels[j] = memSeries[j].lset
        BY DEF Labels
      <4>2. NewestIsEntry(Labels, unique, conflicts)
        BY DEF TableFound
      <4>3. Hash[l] \in Hashes
        BY TableFacts DEF TableFound
      <4> HIDE DEF Labels
      <4>4. PICK e \in DOMAIN memSeries :
              memSeries[e].lset = l /\ i <= e /\ IsEntry(e, unique[Hash[l]], conflicts[Hash[l]])
        BY <4>1, <4>2 DEF NewestIsEntry
      <4> QED
        BY <4>3, <4>4, EntryFacts
    <3>2. \A e \in Entries(Hash[l]) : memSeries[e].lset = l => e = getByHash(l)
      BY LookupFinds
    <3> QED
      BY <2>2, <3>1, <3>2
  <2> QED
    BY <2>1, <2>2
<1> QED
  BY <1>1, <1>2 DEF SeriesAreFound

\* A step that keeps the labels of every memSeries and the maps keeps what is found.
LEMMA SameLabels ==
  ASSUME TableFound, TableTypeOK', UNCHANGED <<unique, conflicts>>,
         DOMAIN memSeries' = DOMAIN memSeries,
         \A i \in DOMAIN memSeries : memSeries'[i].lset = memSeries[i].lset
  PROVE  TableFound'
<1>1. Labels' = Labels
  BY DEF Labels
<1> QED
  BY <1>1 DEF TableFound

\* A new memSeries i takes a place among the entries of its hash h: the free one, that of
\* the entry with its labels, or one behind the others.
TakesPlace(L, l, i, u, q, u2, q2) ==
  \/ (u = 0 \/ L[u] = l) /\ u2 = i /\ q2 = q
  \/ /\ u # 0 /\ L[u] # l /\ u2 = u
     /\ \A n \in DOMAIN q : L[q[n]] # l
     /\ q2 = Append(q, i)
  \/ /\ u # 0 /\ L[u] # l /\ u2 = u
     /\ \E n \in DOMAIN q : L[q[n]] = l /\ q2 = [q EXCEPT ![n] = i]

\* M is L with one more element, l.
OneMore(L, M, len, l) ==
  /\ len \in Nat /\ DOMAIN L = 1..len /\ DOMAIN M = 1..(len + 1)
  /\ \A j \in 1..len : M[j] = L[j]
  /\ M[len + 1] = l

LEMMA PlaceTaken ==
  ASSUME NEW len, NEW L, NEW M, NEW l, OneMore(L, M, len, l),
         NEW u \in Nat, NEW q \in Seq(Nat), EntriesDiffer(L, Hash[l], u, q),
         NEW u2, NEW q2, TakesPlace(L, l, len + 1, u, q, u2, q2)
  PROVE  /\ EntriesDiffer(M, Hash[l], u2, q2)
         /\ IsEntry(len + 1, u2, q2)
         /\ \A e : IsEntry(e, u, q) /\ L[e] # l /\ e # 0 => IsEntry(e, u2, q2)
<1> DEFINE i == len + 1
<1>0. /\ len \in Nat /\ DOMAIN L = 1..len /\ DOMAIN M = 1..(len + 1)
      /\ \A j \in 1..len : M[j] = L[j]
      /\ M[len + 1] = l
  BY DEF OneMore
<1>1. DOMAIN q = 1..Len(q) /\ Len(q) \in Nat /\ Len(<<>>) = 0
  BY LenProperties, EmptySeq
<1>2. i \in DOMAIN M /\ i # 0 /\ i \notin 1..len /\ \A j \in 1..len : j \in DOMAIN M
  BY <1>0
<1>3. u # 0 => u \in 1..len /\ M[u] = L[u] /\ Hash[L[u]] = Hash[l]
  BY <1>0 DEF EntriesDiffer
<1>4. \A n \in DOMAIN q : q[n] \in 1..len /\ M[q[n]] = L[q[n]] /\ Hash[L[q[n]]] = Hash[l]
  BY <1>0 DEF EntriesDiffer
<1>5. \A n \in DOMAIN q : L[q[n]] # L[u] /\ \A m \in DOMAIN q : L[q[m]] = L[q[n]] => m = n
  BY DEF EntriesDiffer
<1>6. u = 0 => DOMAIN q = {}
  BY <1>1 DEF EntriesDiffer
<1>7. M[i] = l
  BY <1>0
<1> HIDE DEF i
<1>8. CASE (u = 0 \/ L[u] = l) /\ u2 = i /\ q2 = q
  <2>1. EntriesDiffer(M, Hash[l], u2, q2)
    BY <1>2, <1>3, <1>4, <1>5, <1>6, <1>7, <1>8 DEF EntriesDiffer
  <2> QED
    BY <1>8, <2>1 DEF IsEntry, i
<1>9. CASE /\ u # 0 /\ L[u] # l /\ u2 = u
           /\ \A n \in DOMAIN q : L[q[n]] # l
           /\ q2 = Append(q, i)
  <2> DEFINE k == Len(q) + 1
  <2>1. /\ DOMAIN q2 = 1..k /\ q2[k] = i /\ k \in Nat
        /\ \A n \in DOMAIN q : q2[n] = q[n] /\ n \in DOMAIN q2 /\ n # k
        /\ \A n \in DOMAIN q2 : n = k \/ n \in DOMAIN q
    <3>0. i \in Nat
      BY <1>0 DEF i
    <3>1. /\ q2 \in Seq(Nat) /\ Len(q2) = k /\ q2[k] = i
          /\ \A n \in 1..Len(q) : q2[n] = q[n]
      BY <1>9, <3>0, AppendProperties
    <3>2. DOMAIN q2 = 1..k
      BY <3>1, LenProperties
    <3> QED
      BY <1>1, <3>1, <3>2
  <2>2. k \in DOMAIN q2
    BY <1>1, <2>1
  <2> HIDE DEF k
  <2>3. ASSUME NEW n \in DOMAIN q2
        PROVE  /\ q2[n] \in DOMAIN M /\ Hash[M[q2[n]]] = Hash[l] /\ M[q2[n]] # M[u2]
               /\ \A m \in DOMAIN q2 : M[q2[m]] = M[q2[n]] => m = n
    <3>1. CASE n = k
      <4>1. q2[n] = i /\ M[q2[n]] = l /\ \A m \in DOMAIN q : M[q2[m]] # l
        BY <1>4, <1>7, <1>9, <2>1, <3>1
      <4> QED
        BY <1>2, <1>3, <1>9, <2>1, <3>1, <4>1
    <3>2. CASE n # k
      BY <1>2, <1>3, <1>4, <1>5, <1>7, <1>9, <2>1, <3>2, SMTT(30)
    <3> QED
      BY <3>1, <3>2
  <2>4. EntriesDiffer(M, Hash[l], u2, q2)
    BY <1>2, <1>3, <1>9, <2>3 DEF EntriesDiffer
  <2>5. IsEntry(i, u2, q2)
    BY <2>1, <2>2 DEF IsEntry
  <2>6. \A e : IsEntry(e, u, q) => IsEntry(e, u2, q2)
    BY <1>9, <2>1 DEF IsEntry
  <2> QED
    BY <2>4, <2>5, <2>6 DEF i
<1>10. CASE /\ u # 0 /\ L[u] # l /\ u2 = u
            /\ \E n \in DOMAIN q : L[q[n]] = l /\ q2 = [q EXCEPT ![n] = i]
  <2>1. PICK k \in DOMAIN q : L[q[k]] = l /\ q2 = [q EXCEPT ![k] = i]
    BY <1>10
  <2>2. /\ DOMAIN q2 = DOMAIN q /\ q2[k] = i
        /\ \A n \in DOMAIN q : n # k => q2[n] = q[n]
    BY <2>1
  <2>3. ASSUME NEW n \in DOMAIN q2
        PROVE  /\ q2[n] \in DOMAIN M /\ Hash[M[q2[n]]] = Hash[l] /\ M[q2[n]] # M[u2]
               /\ \A m \in DOMAIN q2 : M[q2[m]] = M[q2[n]] => m = n
    <3>1. \A m \in DOMAIN q : M[q2[m]] = L[q[m]]
      BY <1>4, <1>7, <2>1, <2>2
    <3> QED
      BY <1>2, <1>3, <1>4, <1>5, <1>10, <2>1, <2>2, <3>1, SMTT(30)
  <2>4. EntriesDiffer(M, Hash[l], u2, q2)
    BY <1>2, <1>3, <1>10, <2>3 DEF EntriesDiffer
  <2>5. IsEntry(i, u2, q2)
    BY <2>1, <2>2 DEF IsEntry
  <2>6. \A e : IsEntry(e, u, q) /\ L[e] # l => IsEntry(e, u2, q2)
    BY <1>10, <2>1, <2>2 DEF IsEntry
  <2> QED
    BY <2>4, <2>5, <2>6 DEF i
<1> QED
  BY <1>8, <1>9, <1>10 DEF TakesPlace, i

\* What Publish appends.
LEMMA PublishAppends ==
  ASSUME TableTypeOK, NEW c \in Calls, Publish(c)
  PROVE  LET i == Len(memSeries) + 1
             l == creator[c].lset
         IN /\ i \in Nat \ {0} /\ l \in LabelSets
            /\ memSeries' \in Seq(MemSeries) /\ Len(memSeries') = i
            /\ DOMAIN memSeries' = 1..i /\ DOMAIN memSeries = 1..Len(memSeries)
            /\ \A j \in 1..Len(memSeries) : memSeries'[j] = memSeries[j]
            /\ memSeries'[i] = [lset |-> l, id |-> id, instances |-> "nil", stopped |-> FALSE]
            /\ set(l, i, memSeries')
            /\ creator' = [creator EXCEPT ![c].step = "index", ![c].made = i]
            /\ UNCHANGED <<series, id, raced>>
<1> DEFINE new == [lset |-> creator[c].lset, id |-> id, instances |-> "nil", stopped |-> FALSE]
<1>1. creator[c].lset \in LabelSets
  BY DEF TableTypeOK, Creator
<1>2. new \in MemSeries
  BY <1>1 DEF TableTypeOK, MemSeries
<1>3. memSeries \in Seq(MemSeries) /\ Len(memSeries) \in Nat
  BY TableFacts DEF TableTypeOK
<1>4. memSeries' = Append(memSeries, new)
  BY DEF Publish
<1>5. /\ set(creator[c].lset, Len(memSeries) + 1, memSeries')
      /\ creator' = [creator EXCEPT ![c].step = "index", ![c].made = Len(memSeries) + 1]
      /\ UNCHANGED <<series, id, raced>>
  BY DEF Publish
<1> HIDE DEF new
<1>6. /\ memSeries' \in Seq(MemSeries) /\ Len(memSeries') = Len(memSeries) + 1
      /\ \A j \in 1..Len(memSeries) : memSeries'[j] = memSeries[j]
      /\ memSeries'[Len(memSeries) + 1] = new
  BY <1>2, <1>3, <1>4, AppendProperties
<1>7. DOMAIN memSeries' = 1..(Len(memSeries) + 1) /\ DOMAIN memSeries = 1..Len(memSeries)
  BY <1>3, <1>6, LenProperties
<1> QED
  BY <1>1, <1>3, <1>5, <1>6, <1>7 DEF new

\* set gives a new memSeries its place, and leaves the other hashes alone.
LEMMA SetPlaces ==
  ASSUME TableFound, NEW l \in LabelSets, NEW i \in Nat \ {0}, NEW all,
         \A j \in DOMAIN memSeries : all[j].lset = memSeries[j].lset,
         set(l, i, all)
  PROVE  LET h == Hash[l]
         IN /\ \A g \in Hashes \ {h} : unique'[g] = unique[g] /\ conflicts'[g] = conflicts[g]
            /\ unique' \in [Hashes -> Nat] /\ conflicts' \in [Hashes -> Seq(Nat)]
            /\ TakesPlace(Labels, l, i, unique[h], conflicts[h], unique'[h], conflicts'[h])
<1> DEFINE h == Hash[l]
           others == With(l, conflicts[h], all)
<1>1. /\ h \in Hashes /\ unique \in [Hashes -> Nat] /\ conflicts \in [Hashes -> Seq(Nat)]
      /\ unique[h] \in Nat /\ conflicts[h] \in Seq(Nat)
      /\ DOMAIN conflicts[h] = 1..Len(conflicts[h]) /\ Len(conflicts[h]) \in Nat
  BY TableFacts DEF TableFound, TableTypeOK
<1>2. /\ unique[h] # 0 => unique[h] \in DOMAIN memSeries
      /\ \A n \in DOMAIN conflicts[h] :
           /\ conflicts[h][n] \in DOMAIN memSeries /\ n \in Nat
           /\ \A m \in DOMAIN conflicts[h] :
                memSeries[conflicts[h][m]].lset = memSeries[conflicts[h][n]].lset => m = n
  BY <1>1, EntryFacts
<1>3. \A j \in DOMAIN memSeries : Labels[j] = memSeries[j].lset /\ all[j].lset = Labels[j]
  BY DEF Labels
<1>4. unique[h] # 0 => all[unique[h]].lset = Labels[unique[h]]
  BY <1>2, <1>3
<1>5. others = {n \in DOMAIN conflicts[h] : Labels[conflicts[h][n]] = l}
  BY <1>2, <1>3 DEF With
<1>6. CASE unique[h] = 0 \/ all[unique[h]].lset = l
  <2>1. unique' = [unique EXCEPT ![h] = i] /\ conflicts' = conflicts
    BY <1>6 DEF set
  <2>2. TakesPlace(Labels, l, i, unique[h], conflicts[h], unique'[h], conflicts'[h])
    BY <1>1, <1>4, <1>6, <2>1 DEF TakesPlace
  <2> QED
    BY <1>1, <2>1, <2>2
<1>7. CASE ~(unique[h] = 0 \/ all[unique[h]].lset = l) /\ others = {}
  <2>1. conflicts' = [conflicts EXCEPT ![h] = Append(@, i)] /\ unique' = unique
    BY <1>7 DEF set
  <2>2. Append(conflicts[h], i) \in Seq(Nat)
    BY <1>1, AppendProperties
  <2>3. TakesPlace(Labels, l, i, unique[h], conflicts[h], unique'[h], conflicts'[h])
    BY <1>1, <1>4, <1>5, <1>7, <2>1 DEF TakesPlace
  <2> QED
    BY <1>1, <2>1, <2>2, <2>3
<1>8. CASE ~(unique[h] = 0 \/ all[unique[h]].lset = l) /\ others # {}
  <2>1. PICK n \in DOMAIN conflicts[h] : Labels[conflicts[h][n]] = l
    BY <1>5, <1>8
  <2>2. others = {n} /\ n \in Nat
    BY <1>2, <1>3, <1>5, <2>1
  <2>3. (CHOOSE k \in {n} : \A m \in {n} : k <= m) = n
    BY <2>2, FirstOfOne
  <2>4. unique' = unique /\ conflicts' = [conflicts EXCEPT ![h] =
            [@ EXCEPT ![CHOOSE k \in others : \A m \in others : k <= m] = i]]
    <3> HIDE <2>1, <2>2, <2>3
    <3> QED
      BY <1>8 DEF set
  <2> HIDE DEF others
  <2>5. conflicts' = [conflicts EXCEPT ![h] = [@ EXCEPT ![n] = i]]
    BY <2>2, <2>3, <2>4
  <2>6. [conflicts[h] EXCEPT ![n] = i] \in Seq(Nat)
    BY <1>1, <2>1, ExceptSeq
  <2>7. TakesPlace(Labels, l, i, unique[h], conflicts[h], unique'[h], conflicts'[h])
    BY <1>1, <1>4, <1>8, <2>1, <2>4, <2>5 DEF TakesPlace
  <2> QED
    BY <1>1, <2>4, <2>5, <2>6, <2>7, ZenonT(40)
<1> QED
  BY <1>6, <1>7, <1>8

\* However creations race, Publish files the new memSeries where lookups find it.
LEMMA PublishFinds ==
  ASSUME TableFound, TableTypeOK', NEW c \in Calls, Publish(c)
  PROVE  TableFound'
<1>0. TableTypeOK
  BY DEF TableFound
<1>a. /\ Len(memSeries) \in Nat /\ creator[c].lset \in LabelSets
      /\ DOMAIN memSeries' = 1..(Len(memSeries) + 1) /\ DOMAIN memSeries = 1..Len(memSeries)
      /\ \A j \in 1..Len(memSeries) : memSeries'[j] = memSeries[j]
      /\ memSeries'[Len(memSeries) + 1] =
           [lset |-> creator[c].lset, id |-> id, instances |-> "nil", stopped |-> FALSE]
      /\ set(creator[c].lset, Len(memSeries) + 1, memSeries')
  <2>1. Len(memSeries) \in Nat
    BY <1>0, TableFacts
  <2> QED
    BY <1>0, <2>1, PublishAppends
<1>b. memSeries'[Len(memSeries) + 1].lset = creator[c].lset
  BY <1>a
<1> DEFINE len == Len(memSeries)
           i == len + 1
           l == creator[c].lset
           h == Hash[l]
<1>1. /\ len \in Nat /\ i \in Nat \ {0} /\ l \in LabelSets
      /\ DOMAIN memSeries' = 1..i /\ DOMAIN memSeries = 1..len
      /\ \A j \in 1..len : memSeries'[j] = memSeries[j]
      /\ memSeries'[i].lset = l /\ set(l, i, memSeries')
  BY <1>a, <1>b
<1> HIDE DEF len, l
<1>2. /\ DOMAIN Labels = 1..len /\ DOMAIN Labels' = 1..(len + 1) /\ Labels'[len + 1] = l
      /\ \A j \in 1..len : Labels'[j] = Labels[j]
  BY <1>1 DEF Labels
<1>3. /\ \A g \in Hashes \ {h} : unique'[g] = unique[g] /\ conflicts'[g] = conflicts[g]
      /\ TakesPlace(Labels, l, i, unique[h], conflicts[h], unique'[h], conflicts'[h])
  <2>1. i \in Nat \ {0} /\ \A j \in DOMAIN memSeries : memSeries'[j].lset = memSeries[j].lset
    BY <1>1
  <2> HIDE DEF i
  <2> QED
    BY <1>1, <2>1, SetPlaces
<1>4. /\ h \in Hashes
      /\ \A j \in 1..len : Hash[Labels[j]] \in Hashes
      /\ \A g \in Hashes : /\ EntriesDiffer(Labels, g, unique[g], conflicts[g])
                           /\ unique[g] \in Nat /\ conflicts[g] \in Seq(Nat)
  <2>1. h \in Hashes /\ \A j \in 1..len : Hash[Labels[j]] \in Hashes
    BY <1>0, <1>1, TableFacts DEF Labels
  <2>2. \A g \in Hashes : unique[g] \in Nat /\ conflicts[g] \in Seq(Nat)
    BY <1>0, TableFacts
  <2>3. \A g \in Hashes : EntriesDiffer(Labels, g, unique[g], conflicts[g])
    BY DEF TableFound
  <2> QED
    BY <2>1, <2>2, <2>3
<1> DEFINE L == Labels
           M == Labels'
<1> HIDE DEF L, M
<1>5. /\ EntriesDiffer(M, h, unique'[h], conflicts'[h])
      /\ IsEntry(i, unique'[h], conflicts'[h])
      /\ \A e : IsEntry(e, unique[h], conflicts[h]) /\ L[e] # l /\ e # 0
                  => IsEntry(e, unique'[h], conflicts'[h])
  <2>1. /\ EntriesDiffer(L, h, unique[h], conflicts[h])
        /\ TakesPlace(L, l, i, unique[h], conflicts[h], unique'[h], conflicts'[h])
        /\ DOMAIN L = 1..len /\ DOMAIN M = 1..(len + 1) /\ M[len + 1] = l
        /\ \A j \in 1..len : M[j] = L[j]
    BY <1>2, <1>3, <1>4 DEF L, M
  <2> DEFINE u == unique[h]
             q == conflicts[h]
             u2 == unique'[h]
             q2 == conflicts'[h]
  <2>2. /\ EntriesDiffer(L, Hash[l], u, q) /\ TakesPlace(L, l, len + 1, u, q, u2, q2)
        /\ u \in Nat /\ q \in Seq(Nat) /\ len \in Nat
    BY <1>1, <1>4, <2>1
  <2> HIDE DEF u, q, u2, q2, h, i
  <2>a. OneMore(L, M, len, l)
    BY <2>1, <2>2 DEF OneMore
  <2>3. /\ EntriesDiffer(M, Hash[l], u2, q2)
        /\ IsEntry(len + 1, u2, q2)
        /\ \A e : IsEntry(e, u, q) /\ L[e] # l /\ e # 0 => IsEntry(e, u2, q2)
    BY <2>a, <2>2, PlaceTaken, SMTT(30)
  <2> QED
    BY <2>3 DEF u, q, u2, q2, h, i
<1>6. ASSUME NEW g \in Hashes
      PROVE  EntriesDiffer(Labels', g, unique'[g], conflicts'[g])
  <2>1. CASE g = h
    BY <1>5, <2>1 DEF M
  <2>2. CASE g # h
    <3>1. unique'[g] = unique[g] /\ conflicts'[g] = conflicts[g]
      BY <1>3, <2>2
    <3>2. EntriesDiffer(Labels, g, unique[g], conflicts[g])
      BY <1>4
    <3>3. /\ \A j \in 1..len : j \in 1..(len + 1)
      BY <1>1
    <3>4. unique[g] = 0 => DOMAIN conflicts[g] = {}
      <4>1. Len(<<>>) = 0
        BY EmptySeq
      <4>2. DOMAIN conflicts[g] = 1..Len(conflicts[g])
        BY <1>4, LenProperties
      <4> QED
        BY <3>2, <4>1, <4>2 DEF EntriesDiffer
    <3> QED
      BY <1>2, <3>1, <3>2, <3>3, <3>4 DEF EntriesDiffer
  <2> QED
    BY <2>1, <2>2
<1>7. ASSUME NEW j \in DOMAIN M
      PROVE  \E e \in DOMAIN M :
               M[e] = M[j] /\ j <= e /\ IsEntry(e, unique'[Hash[M[j]]], conflicts'[Hash[M[j]]])
  <2>0. /\ DOMAIN L = 1..len /\ DOMAIN M = 1..(len + 1) /\ M[len + 1] = l
        /\ \A k \in 1..len : M[k] = L[k]
    BY <1>2 DEF L, M
  <2>1. CASE M[j] = l
    <3>1. j <= i /\ i \in DOMAIN M /\ M[i] = l
      BY <1>1, <2>0
    <3> QED
      BY <1>5, <2>1, <3>1
  <2>2. CASE M[j] # l
    <3>1. j \in 1..len /\ M[j] = L[j]
      BY <1>1, <2>0, <2>2
    <3>2. PICK e \in 1..len :
            L[e] = L[j] /\ j <= e /\ IsEntry(e, unique[Hash[L[j]]], conflicts[Hash[L[j]]])
      <4>1. NewestIsEntry(L, unique, conflicts)
        BY DEF TableFound, L
      <4> QED
        BY <2>0, <3>1, <4>1 DEF NewestIsEntry
    <3>3. IsEntry(e, unique'[Hash[L[j]]], conflicts'[Hash[L[j]]])
      <4>1. Hash[L[j]] \in Hashes /\ e # 0
        BY <1>1, <1>4, <3>1, <3>2 DEF L
      <4>2. CASE Hash[L[j]] = h
        BY <1>5, <2>2, <3>1, <3>2, <4>1, <4>2
      <4>3. CASE Hash[L[j]] # h
        BY <1>3, <3>2, <4>1, <4>3
      <4> QED
        BY <4>2, <4>3
    <3>4. e \in DOMAIN M /\ M[e] = L[e]
      BY <1>1, <2>0, <3>2
    <3> QED
      BY <3>1, <3>2, <3>3, <3>4
  <2> QED
    BY <2>1, <2>2
<1>8. NewestIsEntry(Labels', unique', conflicts')
  BY <1>7 DEF NewestIsEntry, M
<1> QED
  BY <1>6, <1>8 DEF TableFound


-----------------------------------------------------------------------------
(* The ids. *)

Publishing == {c \in Calls : creator[c].step = "publish"}

\* Whoever registers the memSeries i, or has yet to allocate it.
Indexing(c, i) == creator[c].step = "index" /\ creator[c].made = i
Making(c, i) == creator[c].step \in {"index", "have"} /\ creator[c].made = i

\* An id leads to a memSeries that has it, or will; ids are at most as many as there are
\* memSeries and callers about to make one.
IdInv ==
  /\ \A n \in DOMAIN series : series[n] \in DOMAIN memSeries /\ memSeries[series[n]].id = n
  /\ \A i \in DOMAIN memSeries :
       memSeries[i].id \in DOMAIN series \/ \E c \in Calls : Indexing(c, i)
  /\ \A i \in DOMAIN memSeries :
       memSeries[i].instances = "nil" => \E c \in Calls : Making(c, i)
  /\ \A c \in Calls : creator[c].step \in {"index", "have"} => creator[c].made \in DOMAIN memSeries
  /\ id <= Len(memSeries) + Cardinality(Publishing)
  /\ \A c \in Calls : creator[c].step = "store" =>
       creator[c].seen <= Len(memSeries) + Cardinality(Publishing)

\* Without races there is one caller at most between load and index, and ids count.
RaceInv ==
  ~raced =>
    /\ \A i \in DOMAIN memSeries : memSeries[i].id = i
    /\ \A c, d \in Calls : Allocating(c) /\ Allocating(d) => c = d
    /\ \A c \in Calls : creator[c].step = "store" => creator[c].seen = id
    /\ id = Len(memSeries) + Cardinality(Publishing)

TableInv == TableFound /\ IdInv /\ RaceInv

LEMMA IdleType ==
  ASSUME NEW c \in Calls
  PROVE  Idle \in Creator /\ Idle.step = "idle"
<1>1. Delivered[c] \in Seq([lset : LabelSets, samples : Nat]) /\ Delivered[c] # <<>>
  BY IngestAssumption
<1>2. Len(Delivered[c]) \in Nat \ {0}
  BY <1>1, EmptySeq, LenProperties
<1>3. 1 \in 1..Len(Delivered[c])
  BY <1>2
<1> DEFINE S == [lset : LabelSets, samples : Nat]
           d == Delivered[c]
<1> HIDE DEF S, d
<1>a. d \in Seq(S) /\ 1 \in 1..Len(d)
  BY <1>1, <1>3 DEF S, d
<1>b. d[1] \in S
  BY <1>a, ElementOfSeq
<1>c. d[1].lset \in LabelSets
  BY <1>b DEF S
<1>4. (CHOOSE l \in LabelSets : TRUE) \in LabelSets
  BY <1>c
<1> QED
  BY <1>4 DEF Idle, Creator

LEMMA PublishingIsFinite ==
  ASSUME TableTypeOK
  PROVE  /\ IsFiniteSet(Publishing) /\ Cardinality(Publishing) \in Nat
         /\ \A c \in Publishing : Cardinality(Publishing \ {c}) = Cardinality(Publishing) - 1
         /\ \A c \in Calls \ Publishing :
              Cardinality(Publishing \cup {c}) = Cardinality(Publishing) + 1
<1>1. IsFiniteSet(Calls) /\ Publishing \in SUBSET Calls
  BY IngestAssumption DEF Publishing
<1>2. IsFiniteSet(Publishing)
  BY <1>1, FS_Subset
<1> QED
  BY <1>2, FS_CardinalityType, FS_AddElement, FS_RemoveElement

\* Goes moves one caller.
LEMMA GoesMoves ==
  ASSUME TableTypeOK, NEW c \in Calls,
         NEW s \in {"idle", "load", "store", "publish", "index", "have", "more"}, Goes(c, s)
  PROVE  /\ creator' \in [Calls -> Creator]
         /\ creator'[c].step = s /\ creator'[c].lset = creator[c].lset
         /\ creator'[c].seen = creator[c].seen /\ creator'[c].made = creator[c].made
         /\ \A d \in Calls \ {c} : creator'[d] = creator[d]
<1>1. creator \in [Calls -> Creator] /\ creator[c] \in Creator
  BY DEF TableTypeOK
<1>2. [creator[c] EXCEPT !.step = s] \in Creator
  BY <1>1 DEF Creator
<1>3. creator' = [creator EXCEPT ![c] = [creator[c] EXCEPT !.step = s]]
  BY DEF Goes
<1> QED
  BY <1>1, <1>2, <1>3 DEF Creator

LEMMA LookKeeps ==
  ASSUME TableInv, NEW c \in Calls, NEW l \in LabelSets, Look(c, l)
  PROVE  /\ TableInv' /\ creator'[c].step \in {"load", "have"} /\ creator'[c].lset = l
         /\ \A d \in Calls \ {c} : creator'[d] = creator[d]
<1> DEFINE new == [Idle EXCEPT !.step = IF getByHash(l) = 0 THEN "load" ELSE "have",
                               !.lset = l, !.made = getByHash(l)]
<1>1. TableTypeOK /\ TableFound
  BY DEF TableInv, TableFound
<1>2. getByHash(l) \in Nat /\ (getByHash(l) # 0 => getByHash(l) \in DOMAIN memSeries)
  BY <1>1, LookupIsEntry
<1>3. /\ new \in Creator /\ new.lset = l /\ new.made = getByHash(l)
      /\ new.step = IF getByHash(l) = 0 THEN "load" ELSE "have"
  <2>1. Idle \in Creator
    BY IdleType
  <2> QED
    BY <1>2, <2>1 DEF Creator
<1>4. /\ creator[c].step = "idle" /\ creator' = [creator EXCEPT ![c] = new]
      /\ UNCHANGED <<memSeries, unique, conflicts, series, id, raced>>
  BY DEF Look
<1> HIDE DEF new
<1>5. /\ creator' \in [Calls -> Creator] /\ creator'[c] = new
      /\ \A d \in Calls \ {c} : creator'[d] = creator[d]
  BY <1>1, <1>3, <1>4 DEF TableTypeOK
<1>6. creator'[c].step \in {"load", "have"}
  BY <1>3, <1>5
<1>7. TableFound'
  BY <1>1, <1>4, <1>5, SameLabels DEF TableTypeOK
<1>8. Publishing' = Publishing
  BY <1>4, <1>5, <1>6 DEF Publishing
<1>9. IdInv'
  <2>1. IdInv
    BY DEF TableInv
  <2>2. \A i : \A d \in Calls :
          (Indexing(d, i) => Indexing(d, i)') /\ (Making(d, i) => Making(d, i)')
    BY <1>4, <1>5 DEF Indexing, Making
  <2>3. \A d \in Calls : creator'[d].step \in {"index", "have"} =>
          creator'[d].made \in DOMAIN memSeries
    BY <1>2, <1>3, <1>5, <2>1 DEF IdInv
  <2>4. \A d \in Calls : creator'[d].step = "store" =>
          creator'[d].seen <= Len(memSeries) + Cardinality(Publishing)
    BY <1>5, <1>6, <2>1 DEF IdInv
  <2> QED
    BY <1>4, <1>8, <2>1, <2>2, <2>3, <2>4 DEF IdInv
<1>10. RaceInv'
  <2>1. \A d \in Calls : Allocating(d)' => Allocating(d) /\ d # c
    BY <1>5, <1>6 DEF Allocating
  <2>2. \A d \in Calls : creator'[d].step = "store" => creator[d] = creator'[d]
    BY <1>5, <1>6
  <2> QED
    BY <1>4, <1>8, <2>1, <2>2 DEF RaceInv, TableInv
<1> QED
  BY <1>3, <1>5, <1>6, <1>7, <1>9, <1>10 DEF TableInv


LEMMA LoadIdKeeps ==
  ASSUME TableInv, NEW c \in Calls, LoadId(c)
  PROVE  /\ TableInv' /\ creator'[c].step = "store"
         /\ \A d \in Calls \ {c} : creator'[d] = creator[d]
<1> DEFINE new == [creator[c] EXCEPT !.step = "store", !.seen = id]
<1>1. TableTypeOK /\ TableFound
  BY DEF TableInv, TableFound
<1>2. /\ new \in Creator /\ new.step = "store" /\ new.seen = id /\ new.made = creator[c].made
  BY <1>1 DEF TableTypeOK, Creator
<1>3. /\ creator[c].step = "load" /\ creator' = [creator EXCEPT ![c] = new]
      /\ raced' = (raced \/ \E d \in Calls : Allocating(d))
      /\ UNCHANGED <<memSeries, unique, conflicts, series, id>>
  BY DEF LoadId
<1> HIDE DEF new
<1>4. /\ creator' \in [Calls -> Creator] /\ creator'[c] = new
      /\ \A d \in Calls \ {c} : creator'[d] = creator[d]
  BY <1>1, <1>2, <1>3 DEF TableTypeOK
<1>5. TableFound'
  <2>1. raced' \in BOOLEAN
    BY <1>3
  <2> QED
    BY <1>1, <1>3, <1>4, <2>1, SameLabels DEF TableTypeOK
<1>6. Publishing' = Publishing
  BY <1>2, <1>3, <1>4 DEF Publishing
<1>7. IdInv'
  <2>1. IdInv
    BY DEF TableInv
  <2>2. \A i : \A d \in Calls :
          (Indexing(d, i) => Indexing(d, i)') /\ (Making(d, i) => Making(d, i)')
    BY <1>3, <1>4 DEF Indexing, Making
  <2>3. \A d \in Calls : creator'[d].step \in {"index", "have"} =>
          creator'[d].made \in DOMAIN memSeries
    BY <1>2, <1>4, <2>1 DEF IdInv
  <2>4. \A d \in Calls : creator'[d].step = "store" =>
          creator'[d].seen <= Len(memSeries) + Cardinality(Publishing)
    BY <1>2, <1>4, <2>1 DEF IdInv
  <2> QED
    BY <1>3, <1>6, <2>1, <2>2, <2>3, <2>4 DEF IdInv
<1>8. RaceInv'
  <2> SUFFICES ASSUME ~raced'
               PROVE  RaceInv'
    BY DEF RaceInv
  <2>1. ~raced /\ \A d \in Calls : ~Allocating(d)
    BY <1>3
  <2>2. \A d \in Calls : Allocating(d)' => d = c
    BY <1>4, <2>1 DEF Allocating
  <2>3. \A d \in Calls : creator'[d].step = "store" => creator'[d].seen = id
    BY <1>2, <1>4, <2>1 DEF RaceInv, TableInv
  <2> QED
    BY <1>3, <1>6, <2>1, <2>2, <2>3 DEF RaceInv, TableInv
<1> QED
  BY <1>2, <1>4, <1>5, <1>7, <1>8 DEF TableInv

LEMMA StoreIdKeeps ==
  ASSUME TableInv, NEW c \in Calls, StoreId(c)
  PROVE  /\ TableInv' /\ creator'[c].step = "publish"
         /\ \A d \in Calls \ {c} : creator'[d] = creator[d]
<1>1. TableTypeOK /\ TableFound /\ IdInv
  BY DEF TableInv, TableFound
<1>2. /\ creator[c].step = "store" /\ Goes(c, "publish") /\ id' = creator[c].seen + 1
      /\ UNCHANGED <<memSeries, unique, conflicts, series, raced>>
  BY DEF StoreId
<1>3. /\ creator' \in [Calls -> Creator] /\ creator'[c].step = "publish"
      /\ \A d \in Calls \ {c} : creator'[d] = creator[d]
  BY <1>1, <1>2, GoesMoves
<1>4. creator[c].seen \in Nat /\ id' \in Nat /\ id \in Nat /\ Len(memSeries) \in Nat
  BY <1>1, <1>2, TableFacts DEF TableTypeOK, Creator
<1>5. TableFound'
  BY <1>1, <1>2, <1>3, <1>4, SameLabels DEF TableTypeOK
<1>6. Publishing' = Publishing \cup {c} /\ c \in Calls \ Publishing
  BY <1>2, <1>3 DEF Publishing
<1>7. /\ Cardinality(Publishing') = Cardinality(Publishing) + 1
      /\ Cardinality(Publishing) \in Nat
  BY <1>1, <1>6, PublishingIsFinite
<1>8. IdInv'
  <2>1. \A i : \A d \in Calls :
          (Indexing(d, i) => Indexing(d, i)') /\ (Making(d, i) => Making(d, i)')
    BY <1>2, <1>3 DEF Indexing, Making
  <2>2. \A d \in Calls : creator'[d].step \in {"index", "have"} =>
          creator'[d].made \in DOMAIN memSeries
    BY <1>1, <1>3 DEF IdInv
  <2>3. \A d \in Calls : creator'[d].step = "store" =>
          creator'[d].seen <= Len(memSeries) + Cardinality(Publishing')
    <3> SUFFICES ASSUME NEW d \in Calls, creator'[d].step = "store"
                 PROVE  creator'[d].seen <= Len(memSeries) + Cardinality(Publishing')
      OBVIOUS
    <3>1. d # c /\ creator'[d] = creator[d] /\ creator[d].seen \in Nat
      BY <1>1, <1>3 DEF TableTypeOK, Creator
    <3>2. creator[d].seen <= Len(memSeries) + Cardinality(Publishing)
      BY <1>1, <3>1 DEF IdInv
    <3> QED
      BY <1>4, <1>7, <3>1, <3>2
  <2>4. id' <= Len(memSeries) + Cardinality(Publishing')
    BY <1>1, <1>2, <1>4, <1>7 DEF IdInv
  <2> QED
    BY <1>1, <1>2, <2>1, <2>2, <2>3, <2>4 DEF IdInv
<1>9. RaceInv'
  <2> SUFFICES ASSUME ~raced'
               PROVE  RaceInv'
    BY DEF RaceInv
  <2>1. /\ \A i \in DOMAIN memSeries : memSeries[i].id = i
        /\ \A a, b \in Calls : Allocating(a) /\ Allocating(b) => a = b
        /\ creator[c].seen = id
        /\ id = Len(memSeries) + Cardinality(Publishing)
    BY <1>2 DEF RaceInv, TableInv
  <2>2. \A d \in Calls : Allocating(d)' => Allocating(d)
    BY <1>2, <1>3 DEF Allocating
  <2>3. \A d \in Calls : creator'[d].step # "store"
    BY <1>2, <1>3, <2>1 DEF Allocating
  <2> QED
    BY <1>2, <1>4, <1>7, <2>1, <2>2, <2>3 DEF RaceInv
<1> QED
  BY <1>3, <1>5, <1>8, <1>9 DEF TableInv

LEMMA PublishKeeps ==
  ASSUME TableInv, NEW c \in Calls, Publish(c)
  PROVE  /\ TableInv' /\ creator'[c].step = "index"
         /\ \A d \in Calls \ {c} : creator'[d] = creator[d]
         /\ Len(memSeries') = Len(memSeries) + 1
         /\ \A j \in 1..Len(memSeries) : memSeries'[j] = memSeries[j]
         /\ memSeries'[Len(memSeries) + 1].instances = "nil"
         /\ memSeries'[Len(memSeries) + 1].stopped = FALSE
<1> DEFINE i == Len(memSeries) + 1
           new == [creator[c] EXCEPT !.step = "index", !.made = i]
<1>1. TableTypeOK /\ TableFound /\ IdInv
  BY DEF TableInv, TableFound
<1>2. /\ Len(memSeries) \in Nat /\ creator[c].lset \in LabelSets
      /\ memSeries' \in Seq(MemSeries) /\ Len(memSeries') = i
      /\ DOMAIN memSeries' = 1..i /\ DOMAIN memSeries = 1..Len(memSeries)
      /\ \A j \in 1..Len(memSeries) : memSeries'[j] = memSeries[j]
      /\ memSeries'[i] =
           [lset |-> creator[c].lset, id |-> id, instances |-> "nil", stopped |-> FALSE]
      /\ set(creator[c].lset, i, memSeries')
      /\ creator' = [creator EXCEPT ![c] = new]
      /\ UNCHANGED <<series, id, raced>>
  <2>1. Len(memSeries) \in Nat
    BY <1>1, TableFacts
  <2> QED
    BY <1>1, <2>1, PublishAppends, ZenonT(40)
<1>3. /\ memSeries'[i].id = id /\ memSeries'[i].instances = "nil"
      /\ memSeries'[i].stopped = FALSE
  BY <1>2
<1>4. creator[c].step = "publish" /\ i \in Nat
  BY <1>2 DEF Publish
<1>5. new \in Creator /\ new.step = "index" /\ new.made = i
  BY <1>1, <1>4 DEF TableTypeOK, Creator
<1> HIDE DEF new, i
<1>6. /\ creator' \in [Calls -> Creator] /\ creator'[c] = new
      /\ \A d \in Calls \ {c} : creator'[d] = creator[d]
  BY <1>1, <1>2, <1>5 DEF TableTypeOK
<1>7. TableTypeOK'
  <2>1. \A j \in DOMAIN memSeries : memSeries'[j].lset = memSeries[j].lset
    BY <1>2
  <2>2. unique' \in [Hashes -> Nat] /\ conflicts' \in [Hashes -> Seq(Nat)]
    <3>1. i \in Nat \ {0}
      BY <1>2 DEF i
    <3> QED
      BY <1>1, <1>2, <2>1, <3>1, SetPlaces
  <2> QED
    BY <1>1, <1>2, <1>6, <2>2 DEF TableTypeOK
<1>8. TableFound'
  BY <1>1, <1>7, PublishFinds
<1>9. Publishing' = Publishing \ {c} /\ c \in Publishing
  BY <1>4, <1>5, <1>6 DEF Publishing
<1>10. /\ Cardinality(Publishing') = Cardinality(Publishing) - 1
       /\ Cardinality(Publishing) \in Nat
  BY <1>1, <1>9, PublishingIsFinite
<1>11. /\ Len(memSeries') + Cardinality(Publishing') = Len(memSeries) + Cardinality(Publishing)
       /\ i \notin 1..Len(memSeries) /\ i \in DOMAIN memSeries'
       /\ \A j \in DOMAIN memSeries' : j \in DOMAIN memSeries \/ j = i
       /\ \A j \in DOMAIN memSeries : j \in DOMAIN memSeries'
  <2>1. Len(memSeries') + Cardinality(Publishing') = Len(memSeries) + Cardinality(Publishing)
    BY <1>2, <1>10 DEF i
  <2>2. /\ i \notin 1..Len(memSeries) /\ i \in 1..i
        /\ 1..i = 1..Len(memSeries) \cup {i}
    BY <1>2 DEF i
  <2> QED
    BY <1>2, <2>1, <2>2
<1>12. IdInv'
  <2>1. \A j : \A d \in Calls :
          (Indexing(d, j) => Indexing(d, j)') /\ (Making(d, j) => Making(d, j)')
    BY <1>4, <1>6 DEF Indexing, Making
  <2>2. \A j : j = i => Indexing(c, j)' /\ Making(c, j)'
    BY <1>5, <1>6 DEF Indexing, Making
  <2>3. \A d \in Calls : creator'[d].step \in {"index", "have"} =>
          creator'[d].made \in DOMAIN memSeries'
    BY <1>1, <1>5, <1>6, <1>11 DEF IdInv
  <2>4. \A d \in Calls : creator'[d].step = "store" =>
          creator'[d].seen <= Len(memSeries') + Cardinality(Publishing')
    BY <1>1, <1>5, <1>6, <1>11 DEF IdInv
  <2>5. \A n \in DOMAIN series' :
          series'[n] \in DOMAIN memSeries' /\ memSeries'[series'[n]].id = n
    BY <1>1, <1>2, <1>11 DEF IdInv
  <2>6. \A j \in DOMAIN memSeries' :
          memSeries'[j].id \in DOMAIN series' \/ \E d \in Calls : Indexing(d, j)'
    <3> SUFFICES ASSUME NEW j \in DOMAIN memSeries'
                 PROVE  memSeries'[j].id \in DOMAIN series' \/ \E d \in Calls : Indexing(d, j)'
      OBVIOUS
    <3>1. CASE j = i
      BY <2>2, <3>1
    <3>2. CASE j # i
      <4>1. j \in DOMAIN memSeries /\ memSeries'[j] = memSeries[j] /\ series' = series
        BY <1>2, <1>11, <3>2
      <4> QED
        BY <1>1, <2>1, <4>1 DEF IdInv
    <3> QED
      BY <3>1, <3>2
  <2>7. \A j \in DOMAIN memSeries' :
          memSeries'[j].instances = "nil" => \E d \in Calls : Making(d, j)'
    <3> SUFFICES ASSUME NEW j \in DOMAIN memSeries', memSeries'[j].instances = "nil"
                 PROVE  \E d \in Calls : Making(d, j)'
      OBVIOUS
    <3>1. CASE j = i
      BY <2>2, <3>1
    <3>2. CASE j # i
      <4>1. j \in DOMAIN memSeries /\ memSeries'[j] = memSeries[j]
        BY <1>2, <1>11, <3>2
      <4> QED
        BY <1>1, <2>1, <4>1 DEF IdInv
    <3> QED
      BY <3>1, <3>2
  <2>8. id' <= Len(memSeries') + Cardinality(Publishing')
    BY <1>1, <1>2, <1>11 DEF IdInv
  <2> QED
    BY <2>3, <2>4, <2>5, <2>6, <2>7, <2>8 DEF IdInv
<1>13. RaceInv'
  <2> SUFFICES ASSUME ~raced'
               PROVE  RaceInv'
    BY DEF RaceInv
  <2>1. /\ \A j \in DOMAIN memSeries : memSeries[j].id = j
        /\ \A a, b \in Calls : Allocating(a) /\ Allocating(b) => a = b
        /\ id = Len(memSeries) + Cardinality(Publishing)
    BY <1>2 DEF RaceInv, TableInv
  <2>2. \A d \in Calls : Allocating(d)' => Allocating(d)
    BY <1>4, <1>6 DEF Allocating
  <2>3. \A d \in Calls : creator'[d].step # "store"
    BY <1>4, <1>5, <1>6, <2>1 DEF Allocating
  <2>4. Cardinality(Publishing) = 1
    <3>1. Publishing = {c}
      BY <1>4, <2>1 DEF Publishing, Allocating
    <3> QED
      BY <3>1, FS_Singleton
  <2>5. \A j \in DOMAIN memSeries' : memSeries'[j].id = j
    BY <1>2, <1>3, <1>11, <2>1, <2>4 DEF i
  <2>6. id' = Len(memSeries') + Cardinality(Publishing')
    BY <1>2, <1>11, <2>1
  <2> QED
    BY <2>1, <2>2, <2>3, <2>5, <2>6 DEF RaceInv
<1> QED
  BY <1>2, <1>3, <1>5, <1>6, <1>8, <1>12, <1>13 DEF TableInv, i


LEMMA IndexKeeps ==
  ASSUME TableInv, NEW c \in Calls, Index(c)
  PROVE  /\ TableInv' /\ creator'[c].step = "have"
         /\ \A d \in Calls \ {c} : creator'[d] = creator[d]
<1> DEFINE i == creator[c].made
           n == memSeries[i].id
<1>1. TableTypeOK /\ TableFound /\ IdInv
  BY DEF TableInv, TableFound
<1>2. /\ creator[c].step = "index" /\ Goes(c, "have")
      /\ series' = [m \in DOMAIN series \cup {n} |-> IF m = n THEN i ELSE series[m]]
      /\ UNCHANGED <<memSeries, unique, conflicts, id, raced>>
  BY DEF Index
<1>3. i \in DOMAIN memSeries
  BY <1>1, <1>2 DEF IdInv
<1>4. /\ creator' \in [Calls -> Creator] /\ creator'[c].step = "have" /\ creator'[c].made = i
      /\ \A d \in Calls \ {c} : creator'[d] = creator[d]
  BY <1>1, <1>2, GoesMoves
<1>5. TableFound'
  BY <1>1, <1>2, <1>4, SameLabels DEF TableTypeOK
<1>6. Publishing' = Publishing
  BY <1>2, <1>4 DEF Publishing
<1>7. IdInv'
  <2>1. \A j : \A d \in Calls : Making(d, j) => Making(d, j)'
    BY <1>2, <1>4 DEF Making
  <2>2. \A d \in Calls : creator'[d].step \in {"index", "have"} =>
          creator'[d].made \in DOMAIN memSeries
    BY <1>1, <1>3, <1>4 DEF IdInv
  <2>3. \A d \in Calls : creator'[d].step = "store" =>
          creator'[d].seen <= Len(memSeries) + Cardinality(Publishing)
    BY <1>1, <1>4 DEF IdInv
  <2>4. \A m \in DOMAIN series' :
          series'[m] \in DOMAIN memSeries /\ memSeries[series'[m]].id = m
    BY <1>1, <1>2, <1>3 DEF IdInv
  <2>5. ASSUME NEW j \in DOMAIN memSeries
        PROVE  memSeries[j].id \in DOMAIN series' \/ \E d \in Calls : Indexing(d, j)'
    <3>1. CASE memSeries[j].id \in DOMAIN series
      BY <1>2, <3>1
    <3>2. CASE memSeries[j].id \notin DOMAIN series
      <4>1. PICK d \in Calls : Indexing(d, j)
        BY <1>1, <3>2 DEF IdInv
      <4>2. CASE d = c
        BY <1>2, <4>1, <4>2 DEF Indexing
      <4>3. CASE d # c
        BY <1>4, <4>1, <4>3 DEF Indexing
      <4> QED
        BY <4>2, <4>3
    <3> QED
      BY <3>1, <3>2
  <2> QED
    BY <1>1, <1>2, <1>6, <2>1, <2>2, <2>3, <2>4, <2>5 DEF IdInv
<1>8. RaceInv'
  <2>1. \A d \in Calls : Allocating(d)' => Allocating(d)
    BY <1>2, <1>4 DEF Allocating
  <2>2. \A d \in Calls : creator'[d].step = "store" => creator'[d] = creator[d]
    BY <1>4
  <2> QED
    BY <1>2, <1>6, <2>1, <2>2 DEF RaceInv, TableInv
<1> QED
  BY <1>4, <1>5, <1>7, <1>8 DEF TableInv

\* The labels, ids and places of the memSeries stay.
SeriesStay ==
  /\ memSeries' \in Seq(MemSeries) /\ DOMAIN memSeries' = DOMAIN memSeries
  /\ Len(memSeries') = Len(memSeries)
  /\ \A j \in DOMAIN memSeries :
       /\ memSeries'[j].lset = memSeries[j].lset /\ memSeries'[j].id = memSeries[j].id
  /\ UNCHANGED <<unique, conflicts, series, id, raced>>

LEMMA SeriesStayKeeps ==
  ASSUME TableInv, SeriesStay, NEW C \in SUBSET Calls,
         creator' \in [Calls -> Creator],
         \A d \in Calls \ C : creator'[d] = creator[d],
         \A d \in C : /\ creator[d].step \in {"have", "more"}
                      /\ creator'[d].step \in {"more", "idle"},
         \A j \in DOMAIN memSeries : memSeries'[j].instances = "nil" =>
           memSeries[j].instances = "nil" /\ \A d \in C : ~Making(d, j)
  PROVE  TableInv'
<1>1. TableTypeOK /\ TableFound /\ IdInv
  BY DEF TableInv, TableFound
<1>2. TableFound'
  BY <1>1, SameLabels DEF TableTypeOK, SeriesStay
<1>3. Publishing' = Publishing
  BY DEF Publishing
<1>4. IdInv'
  <2>1. \A d \in Calls : creator'[d].step \in {"index", "have"} =>
          creator'[d].made \in DOMAIN memSeries
    BY <1>1 DEF IdInv
  <2>2. \A d \in Calls : creator'[d].step = "store" =>
          creator'[d].seen <= Len(memSeries) + Cardinality(Publishing)
    BY <1>1 DEF IdInv
  <2>3. \A j \in DOMAIN memSeries :
          memSeries'[j].instances = "nil" => \E d \in Calls : Making(d, j)'
    BY <1>1 DEF IdInv, Making
  <2>4. \A j : \A d \in Calls : Indexing(d, j) => Indexing(d, j)'
    BY DEF Indexing
  <2> QED
    BY <1>1, <1>3, <2>1, <2>2, <2>3, <2>4 DEF IdInv, SeriesStay
<1>5. RaceInv'
  <2>1. \A d \in Calls : Allocating(d)' => Allocating(d)
    BY DEF Allocating
  <2>2. \A d \in Calls : creator'[d].step = "store" => creator'[d] = creator[d]
    OBVIOUS
  <2> QED
    BY <1>3, <2>1, <2>2 DEF RaceInv, TableInv, SeriesStay
<1> QED
  BY <1>2, <1>4, <1>5 DEF TableInv

\* A change of one memSeries that spares its labels and its id.
LEMMA OneChanges ==
  ASSUME TableTypeOK, NEW i, NEW new, i \in DOMAIN memSeries => new \in MemSeries,
         i \in DOMAIN memSeries => new.lset = memSeries[i].lset /\ new.id = memSeries[i].id,
         memSeries' = [memSeries EXCEPT ![i] = new],
         UNCHANGED <<unique, conflicts, series, id, raced>>
  PROVE  SeriesStay
<1>1. /\ memSeries \in Seq(MemSeries) /\ DOMAIN memSeries = 1..Len(memSeries)
      /\ Len(memSeries) \in Nat
  BY TableFacts DEF TableTypeOK
<1>2. DOMAIN memSeries' = DOMAIN memSeries
  OBVIOUS
<1>3. memSeries' \in Seq(MemSeries)
  <2>1. CASE i \in DOMAIN memSeries
    BY <1>1, <2>1, ExceptSeq
  <2>2. CASE i \notin DOMAIN memSeries
    <3>1. memSeries = [j \in DOMAIN memSeries |-> memSeries[j]]
      BY <1>1, SeqDef
    <3>2. memSeries' = memSeries
      BY <2>2, <3>1
    <3> QED
      BY <1>1, <3>2
  <2> QED
    BY <2>1, <2>2
<1>4. Len(memSeries') = Len(memSeries)
  BY <1>1, <1>2, <1>3, LenProperties
<1> QED
  BY <1>2, <1>3, <1>4 DEF SeriesStay

LEMMA AllocateKeeps ==
  ASSUME TableInv, NEW c \in Calls, Allocate(c)
  PROVE  /\ TableInv' /\ SeriesStay /\ creator'[c].step = "more"
         /\ \A d \in Calls \ {c} : creator'[d] = creator[d]
         /\ \A j \in DOMAIN memSeries :
              /\ memSeries'[j].stopped = memSeries[j].stopped
              /\ memSeries'[j].instances # memSeries[j].instances =>
                   memSeries[j].instances = "nil" /\ memSeries'[j].instances = "some"
<1> DEFINE i == creator[c].made
           new == [memSeries[i] EXCEPT !.instances = IF @ = "nil" THEN "some" ELSE @]
<1>1. TableTypeOK /\ TableFound /\ IdInv
  BY DEF TableInv, TableFound
<1>2. /\ creator[c].step = "have" /\ Goes(c, "more")
      /\ memSeries' = [memSeries EXCEPT ![i] = new]
      /\ UNCHANGED <<unique, conflicts, series, id, raced>>
  BY DEF Allocate
<1>3. i \in DOMAIN memSeries /\ memSeries[i] \in MemSeries
  BY <1>1, <1>2, TableFacts DEF IdInv
<1>4. /\ new \in MemSeries /\ new.lset = memSeries[i].lset /\ new.id = memSeries[i].id
      /\ new.stopped = memSeries[i].stopped
      /\ new.instances = IF memSeries[i].instances = "nil" THEN "some" ELSE memSeries[i].instances
  BY <1>3 DEF MemSeries
<1> HIDE DEF new
<1>5. SeriesStay
  BY <1>1, <1>2, <1>4, OneChanges
<1>6. \A j \in DOMAIN memSeries : memSeries'[j] = IF j = i THEN new ELSE memSeries[j]
  BY <1>2
<1>7. /\ creator' \in [Calls -> Creator] /\ creator'[c].step = "more"
      /\ \A d \in Calls \ {c} : creator'[d] = creator[d]
  BY <1>1, <1>2, GoesMoves
<1>8. \A j \in DOMAIN memSeries : memSeries'[j].instances = "nil" =>
        memSeries[j].instances = "nil" /\ \A d \in {c} : ~Making(d, j)
  BY <1>4, <1>6 DEF Making
<1>9. TableInv'
  <2>1. {c} \in SUBSET Calls
    OBVIOUS
  <2>2. \A d \in {c} : /\ creator[d].step \in {"have", "more"}
                       /\ creator'[d].step \in {"more", "idle"}
    BY <1>2, <1>7
  <2> QED
    BY <1>5, <1>7, <1>8, <2>1, <2>2, SeriesStayKeeps
<1> QED
  BY <1>4, <1>5, <1>6, <1>7, <1>9

LEMMA MakeUnivKeeps ==
  ASSUME TableInv, NEW c \in Calls, MakeUniv(c)
  PROVE  /\ TableInv' /\ SeriesStay /\ creator'[c].step = "idle"
         /\ \A d \in Calls \ {c} : creator'[d] = creator[d]
         /\ \A j \in DOMAIN memSeries :
              /\ memSeries'[j].stopped = memSeries[j].stopped
              /\ memSeries'[j].instances # memSeries[j].instances =>
                   j = getByHash(creator[c].lset) /\ memSeries'[j].instances = "ehuniv"
<1> DEFINE i == getByHash(creator[c].lset)
           new == [memSeries[i] EXCEPT !.instances = "ehuniv"]
<1>1. TableTypeOK /\ TableFound /\ IdInv
  BY DEF TableInv, TableFound
<1>2. /\ creator[c].step = "more" /\ creator' = [creator EXCEPT ![c] = Idle]
      /\ memSeries' = [memSeries EXCEPT ![i] = new]
      /\ UNCHANGED <<unique, conflicts, series, id, raced>>
  BY DEF MakeUniv
<1> HIDE DEF i
<1>3. i \in DOMAIN memSeries =>
        /\ new \in MemSeries /\ new.lset = memSeries[i].lset /\ new.id = memSeries[i].id
        /\ new.stopped = memSeries[i].stopped /\ new.instances = "ehuniv"
  <2>1. i \in DOMAIN memSeries => memSeries[i] \in MemSeries
    BY <1>1, TableFacts
  <2> QED
    BY <2>1 DEF MemSeries
<1> HIDE DEF new
<1>4. SeriesStay
  BY <1>1, <1>2, <1>3, OneChanges
<1>5. \A j \in DOMAIN memSeries : memSeries'[j] = IF j = i THEN new ELSE memSeries[j]
  BY <1>2
<1>6. /\ creator' \in [Calls -> Creator] /\ creator'[c].step = "idle"
      /\ \A d \in Calls \ {c} : creator'[d] = creator[d]
  BY <1>1, <1>2, IdleType DEF TableTypeOK
<1>7. \A j \in DOMAIN memSeries : memSeries'[j].instances = "nil" =>
        memSeries[j].instances = "nil" /\ \A d \in {c} : ~Making(d, j)
  BY <1>2, <1>3, <1>5 DEF Making
<1>8. TableInv'
  <2>1. {c} \in SUBSET Calls
    OBVIOUS
  <2>2. \A d \in {c} : /\ creator[d].step \in {"have", "more"}
                       /\ creator'[d].step \in {"more", "idle"}
    BY <1>2, <1>6
  <2> QED
    BY <1>4, <1>6, <1>7, <2>1, <2>2, SeriesStayKeeps
<1> QED
  BY <1>3, <1>4, <1>5, <1>6, <1>8 DEF i

LEMMA StopKeeps ==
  ASSUME TableInv, NEW n, StopBackgroundClean(n)
  PROVE  /\ TableInv' /\ SeriesStay /\ UNCHANGED creator
         /\ \A j \in DOMAIN memSeries :
              /\ memSeries'[j].instances = memSeries[j].instances
              /\ memSeries'[j].stopped =
                   (memSeries[j].stopped \/ (j = getByID(n) /\ memSeries[j].instances = "ehuniv"))
<1> DEFINE i == getByID(n)
           new == [memSeries[i] EXCEPT !.stopped = TRUE]
<1>1. TableTypeOK /\ TableFound /\ IdInv
  BY DEF TableInv, TableFound
<1>2. UNCHANGED <<unique, conflicts, series, id, creator, raced>>
  BY DEF StopBackgroundClean
<1>3. i # 0 => i \in DOMAIN memSeries /\ memSeries[i] \in MemSeries
  <2>1. i # 0 => i \in DOMAIN memSeries
    BY <1>1 DEF getByID, IdInv
  <2> QED
    BY <1>1, <2>1, TableFacts
<1>4. DOMAIN memSeries = 1..Len(memSeries) /\ memSeries \in Seq(MemSeries)
  BY <1>1, TableFacts DEF TableTypeOK
<1>a. \A j \in DOMAIN memSeries : memSeries[j].stopped \in BOOLEAN
  BY <1>1, <1>4, TableFacts DEF MemSeries
<1>5. memSeries' = IF i # 0 /\ memSeries[i].instances = "ehuniv"
                     THEN [memSeries EXCEPT ![i] = new] ELSE memSeries
  BY DEF StopBackgroundClean
<1> HIDE DEF i
<1>6. i # 0 =>
        /\ new \in MemSeries /\ new.lset = memSeries[i].lset /\ new.id = memSeries[i].id
        /\ new.instances = memSeries[i].instances /\ new.stopped = TRUE
  BY <1>3 DEF MemSeries
<1> HIDE DEF new
<1>7. 0 \notin DOMAIN memSeries
  BY <1>4
<1>8. SeriesStay /\ \A j \in DOMAIN memSeries :
              /\ memSeries'[j].instances = memSeries[j].instances
              /\ memSeries'[j].stopped =
                   (memSeries[j].stopped \/ (j = i /\ memSeries[j].instances = "ehuniv"))
  <2>1. CASE i # 0 /\ memSeries[i].instances = "ehuniv"
    <3>1. SeriesStay
      BY <1>1, <1>2, <1>5, <1>6, <2>1, OneChanges
    <3>2. \A j \in DOMAIN memSeries : memSeries'[j] = IF j = i THEN new ELSE memSeries[j]
      BY <1>5, <2>1
    <3>3. ASSUME NEW j \in DOMAIN memSeries
          PROVE  /\ memSeries'[j].instances = memSeries[j].instances
                 /\ memSeries'[j].stopped =
                      (memSeries[j].stopped \/ (j = i /\ memSeries[j].instances = "ehuniv"))
      <4>1. CASE j = i
        BY <1>6, <2>1, <3>2, <4>1
      <4>2. CASE j # i
        BY <1>a, <3>2, <4>2
      <4> QED
        BY <4>1, <4>2
    <3> QED
      BY <3>1, <3>3
  <2>2. CASE ~(i # 0 /\ memSeries[i].instances = "ehuniv")
    <3>1. memSeries' = memSeries
      BY <1>5, <2>2
    <3>2. \A j \in DOMAIN memSeries : ~(j = i /\ memSeries[j].instances = "ehuniv")
      BY <1>7, <2>2
    <3> QED
      BY <1>2, <1>4, <1>a, <3>1, <3>2 DEF SeriesStay
  <2> QED
    BY <2>1, <2>2
<1>9. TableInv'
  <2>1. {} \in SUBSET Calls /\ creator' \in [Calls -> Creator]
    BY <1>1, <1>2 DEF TableTypeOK
  <2>2. \A j \in DOMAIN memSeries : memSeries'[j].instances = "nil" =>
           memSeries[j].instances = "nil" /\ \A d \in {} : ~Making(d, j)
    BY <1>8
  <2> QED
    BY <1>2, <1>8, <2>1, <2>2, SeriesStayKeeps
<1> QED
  BY <1>2, <1>8, <1>9 DEF i

LEMMA TableStays ==
  ASSUME TableInv, UNCHANGED tableVars
  PROVE  TableInv'
<1>1. /\ memSeries' = memSeries /\ unique' = unique /\ conflicts' = conflicts
      /\ series' = series /\ id' = id /\ creator' = creator /\ raced' = raced
  BY DEF tableVars
<1>2. TableFound'
  BY <1>1 DEF TableInv, TableFound, TableTypeOK, Labels
<1>3. IdInv'
  BY <1>1 DEF TableInv, IdInv, Indexing, Making, Publishing
<1>4. RaceInv'
  BY <1>1 DEF TableInv, RaceInv, Allocating, Publishing
<1> QED
  BY <1>2, <1>3, <1>4 DEF TableInv

LEMMA TableStarts ==
  ASSUME TableInit
  PROVE  TableInv
<1>1. \A c \in Calls : creator[c] = Idle /\ creator[c].step = "idle" /\ Idle \in Creator
  BY IdleType DEF TableInit
<1>2. /\ memSeries = <<>> /\ Len(memSeries) = 0 /\ DOMAIN memSeries = {}
      /\ memSeries \in Seq(MemSeries)
  <2>1. <<>> \in Seq(MemSeries) /\ Len(<<>>) = 0
    BY EmptySeq
  <2> QED
    BY <2>1, LenProperties DEF TableInit
<1>3. TableTypeOK
  <2>1. <<>> \in Seq(Nat)
    BY EmptySeq
  <2> QED
    BY <1>1, <1>2, <2>1 DEF TableInit, TableTypeOK
<1>4. TableFound
  <2>1. DOMAIN Labels = {}
    BY <1>2 DEF Labels
  <2>2. DOMAIN <<>> = {}
    BY <1>2
  <2>3. \A h \in Hashes : unique[h] = 0 /\ conflicts[h] = <<>>
    BY DEF TableInit
  <2>4. \A h \in Hashes : EntriesDiffer(Labels, h, unique[h], conflicts[h])
    BY <2>2, <2>3 DEF EntriesDiffer
  <2>5. NewestIsEntry(Labels, unique, conflicts)
    BY <2>1 DEF NewestIsEntry
  <2> QED
    BY <1>3, <2>4, <2>5 DEF TableFound
<1>5. Publishing = {} /\ Cardinality(Publishing) = 0 /\ id = 0 /\ DOMAIN series = {}
  <2>1. Publishing = {}
    BY <1>1 DEF Publishing
  <2> QED
    BY <2>1, FS_EmptySet DEF TableInit
<1>6. IdInv
  BY <1>1, <1>2, <1>5 DEF IdInv
<1>7. RaceInv
  BY <1>1, <1>2, <1>5 DEF RaceInv, Allocating
<1> QED
  BY <1>4, <1>6, <1>7 DEF TableInv

\* What the table promises follows.
LEMMA IdsAreLed ==
  ASSUME TableInv
  PROVE  SeriesAreFound /\ IdsAreShared
<1>1. SeriesAreFound
  BY TableIsFound DEF TableInv
<1>2. IdInv /\ RaceInv /\ TableTypeOK
  BY DEF TableInv, TableFound
<1>3. 0 \notin DOMAIN memSeries
  BY <1>2, TableFacts
<1>4. ASSUME NEW i \in DOMAIN memSeries
      PROVE  LET n == memSeries[i].id
             IN \/ getByID(n) # 0 /\ memSeries[getByID(n)].id = n
                \/ \E c \in Calls : creator[c].step = "index" /\ creator[c].made = i
  BY <1>2, <1>3 DEF getByID, IdInv, Indexing
<1>5. IdsAreShared
  BY <1>2, <1>4 DEF IdsAreShared, IdInv, RaceInv, Publishing
<1> QED
  BY <1>1, <1>5


-----------------------------------------------------------------------------
(* The calls and the shutdown. *)

CallSteps == {"none", "sample", "create", "creating", "done", "refused", "aborted"}
CallState == [step : CallSteps, at : Nat, sample : Nat]
Stages == {"serving", "server", "tracker", "scrape", "forwarder", "storage", "exited"}

IngestTypeOK ==
  /\ call \in [Calls -> CallState]
  /\ \A c \in Calls : call[c].at \in 1..Len(Delivered[c]) /\ call[c].sample \in Nat \ {0}
  /\ unread \in BOOLEAN /\ timedOut \in BOOLEAN /\ crashed \in BOOLEAN
  /\ memoryUsed \in Nat /\ received \in Nat /\ failed \in Nat
  /\ totalSamplesReceived \in Nat /\ sketchSamplesInserted \in Nat
  /\ backendSamplesForwarded \in Nat /\ MemoryRejections \in Nat
  /\ stage \in Stages /\ nextId \in Nat

\* A call is in the table's code just while it creates.
CreatorsCreate == \A c \in Calls : creator[c].step = "idle" <=> Step(c) # "creating"

\* Once Shutdown has returned in time no request runs, and no scrape once Stop has.
Quiet ==
  /\ stage \notin {"serving", "server"} /\ ~timedOut => \A c \in Http : ~Running(c)
  /\ stage \in {"forwarder", "storage", "exited"} => \A c \in Calls \ Http : ~Running(c)

\* The loop of StopBackground has stopped the series below nextId, if nobody adds any.
StopInv ==
  /\ stage \in {"serving", "server"} => ~timedOut
  /\ stage \notin {"storage", "exited"} =>
       nextId = 0 /\ \A i \in DOMAIN memSeries : ~memSeries[i].stopped
  /\ stage \in {"storage", "exited"} /\ ~raced /\ ~timedOut =>
       /\ nextId <= id
       /\ \A i \in DOMAIN memSeries :
            memSeries[i].stopped <=> memSeries[i].instances = "ehuniv" /\ memSeries[i].id < nextId
  /\ stage = "exited" => nextId >= id
  /\ crashed /\ stage = "storage" => timedOut
  /\ unread => timedOut

ServeInv == TableInv /\ IngestTypeOK /\ CreatorsCreate /\ Quiet /\ StopInv

LEMMA DeliveredFacts ==
  ASSUME NEW c \in Calls
  PROVE  /\ Len(Delivered[c]) \in Nat \ {0} /\ DOMAIN Delivered[c] = 1..Len(Delivered[c])
         /\ \A k \in 1..Len(Delivered[c]) :
              Delivered[c][k].lset \in LabelSets /\ Delivered[c][k].samples \in Nat
<1> DEFINE S == [lset : LabelSets, samples : Nat]
           d == Delivered[c]
<1>1. d \in Seq(S) /\ d # <<>>
  BY IngestAssumption
<1> HIDE DEF S, d
<1>2. Len(d) \in Nat \ {0} /\ DOMAIN d = 1..Len(d)
  BY <1>1, EmptySeq, LenProperties
<1>3. \A k \in 1..Len(d) : d[k] \in S
  BY <1>1, ElementOfSeq
<1>4. \A k \in 1..Len(d) : d[k].lset \in LabelSets /\ d[k].samples \in Nat
  BY <1>3 DEF S
<1> QED
  BY <1>2, <1>4 DEF d

LEMMA CurrentFacts ==
  ASSUME IngestTypeOK, NEW c \in Calls
  PROVE  /\ Current(c).lset \in LabelSets /\ Current(c).samples \in Nat
         /\ call[c] \in CallState /\ call[c].sample \in Nat \ {0}
<1>1. call[c].at \in 1..Len(Delivered[c]) /\ call[c].sample \in Nat \ {0} /\ call[c] \in CallState
  BY DEF IngestTypeOK
<1> QED
  BY <1>1, DeliveredFacts DEF Current

\* A call is now at step s with sample number k of the same series.
GoesOn(c, s, k) ==
  /\ call' \in [Calls -> CallState]
  /\ call'[c].step = s /\ call'[c].at = call[c].at /\ call'[c].sample = k
  /\ \A d \in Calls \ {c} : call'[d] = call[d]

LEMMA MovesOn ==
  ASSUME IngestTypeOK, NEW c \in Calls, NEW s \in CallSteps, Moves(c, s)
  PROVE  GoesOn(c, s, call[c].sample)
<1>1. call \in [Calls -> CallState] /\ call[c] \in CallState
  BY DEF IngestTypeOK
<1>2. [call[c] EXCEPT !.step = s] \in CallState
  BY <1>1 DEF CallState
<1>3. call' = [call EXCEPT ![c] = [call[c] EXCEPT !.step = s]]
  BY DEF Moves
<1> QED
  BY <1>1, <1>2, <1>3 DEF CallState, GoesOn

LEMMA NextSampleOn ==
  ASSUME IngestTypeOK, NEW c \in Calls, NextSample(c)
  PROVE  GoesOn(c, "sample", call[c].sample + 1)
<1> DEFINE new == [call[c] EXCEPT !.step = "sample", !.sample = call[c].sample + 1]
<1>1. call \in [Calls -> CallState] /\ call[c] \in CallState
  BY DEF IngestTypeOK
<1>2. /\ new \in CallState /\ new.step = "sample"
      /\ new.at = call[c].at /\ new.sample = call[c].sample + 1
  <2>1. call[c].sample + 1 \in Nat /\ "sample" \in CallSteps
    BY <1>1 DEF CallState, CallSteps
  <2> QED
    BY <1>1, <2>1 DEF CallState
<1>3. call' = [call EXCEPT ![c] = new]
  BY DEF NextSample
<1> HIDE DEF new
<1> QED
  BY <1>1, <1>2, <1>3 DEF GoesOn

\* Forward goes on to the next series, or ends the call.
LEMMA ForwardOn ==
  ASSUME IngestTypeOK, NEW c \in Calls, Forward(c)
  PROVE  /\ call' \in [Calls -> CallState]
         /\ call'[c].at \in 1..Len(Delivered[c])
         /\ \/ call'[c].step = "done" /\ call'[c].sample = call[c].sample
            \/ call'[c].step = "sample" /\ call'[c].sample = 1
         /\ \A d \in Calls \ {c} : call'[d] = call[d]
<1> DEFINE new == IF call[c].at = Len(Delivered[c]) THEN [call[c] EXCEPT !.step = "done"]
                  ELSE [step |-> "sample", at |-> call[c].at + 1, sample |-> 1]
<1>1. call \in [Calls -> CallState] /\ call[c] \in CallState /\ call[c].at \in 1..Len(Delivered[c])
  BY DEF IngestTypeOK
<1>2. Len(Delivered[c]) \in Nat
  BY DeliveredFacts
<1>3. /\ new \in CallState /\ new.at \in 1..Len(Delivered[c])
      /\ \/ new.step = "done" /\ new.sample = call[c].sample
         \/ new.step = "sample" /\ new.sample = 1
  <2>1. CASE call[c].at = Len(Delivered[c])
    BY <1>1, <2>1 DEF CallState, CallSteps
  <2>2. CASE call[c].at # Len(Delivered[c])
    BY <1>1, <1>2, <2>2 DEF CallState, CallSteps
  <2> QED
    BY <2>1, <2>2
<1>4. call' = [call EXCEPT ![c] = new]
  BY DEF Forward
<1> HIDE DEF new
<1> QED
  BY <1>1, <1>3, <1>4


\* What a step of call c does to the others and to main.
OnlyMoves(c) ==
  /\ Running(c)
  /\ \A d \in Calls \ {c} : call'[d] = call[d]
  /\ \A j \in DOMAIN memSeries' :
       memSeries'[j].stopped => j \in DOMAIN memSeries /\ memSeries[j].stopped
  /\ crashed' => crashed \/ c \notin Http
  /\ unread' => unread \/ stage = "storage"

\* The steps in the loops over series and samples leave the table alone.
LEMMA LoopKeeps ==
  ASSUME ServeInv, NEW c \in Calls, Works(c),
         Unmatched(c) \/ Known(c) \/ Rejected(c) \/ Create(c) \/ Forward(c)
  PROVE  TableInv' /\ IngestTypeOK' /\ CreatorsCreate' /\ OnlyMoves(c)
<1>1. TableInv /\ IngestTypeOK /\ CreatorsCreate
  BY DEF ServeInv
<1>2. UNCHANGED <<path, tracker, stage, nextId, timedOut>> /\ ~crashed
  BY DEF Works, mainVars, Alive
<1>3. Step(c) = "sample" /\ UNCHANGED <<memoryUsed, received, failed, tableVars>>
  BY DEF Unmatched, Known, Rejected, Create, Forward, Takes
<1>4. TableInv' /\ UNCHANGED <<memSeries, creator>>
  BY <1>1, <1>3, TableStays DEF tableVars
<1>5. Running(c)
  BY <1>3 DEF Running
<1>6. CASE Unmatched(c) \/ Known(c) \/ Rejected(c) \/ Create(c)
  <2>1. Takes(c)
    BY <1>6 DEF Unmatched, Known, Rejected, Create
  <2>2. \E s \in CallSteps, k \in Nat \ {0} : s # "creating" /\ GoesOn(c, s, k)
    <3>1. call[c].sample \in Nat \ {0} /\ call[c].sample + 1 \in Nat \ {0}
      BY <1>1, CurrentFacts
    <3>2. CASE NextSample(c)
      BY <1>1, <3>1, <3>2, NextSampleOn DEF CallSteps
    <3>3. CASE Moves(c, "aborted")
      BY <1>1, <3>1, <3>3, MovesOn DEF CallSteps
    <3>4. CASE Moves(c, "create")
      BY <1>1, <3>1, <3>4, MovesOn DEF CallSteps
    <3> QED
      BY <1>6, <3>2, <3>3, <3>4 DEF Unmatched, Known, Rejected, Create
  <2>3. PICK s \in CallSteps, k \in Nat \ {0} : s # "creating" /\ GoesOn(c, s, k)
    BY <2>2
  <2>4. /\ call' \in [Calls -> CallState]
        /\ \A d \in Calls : call'[d].at \in 1..Len(Delivered[d]) /\ call'[d].sample \in Nat \ {0}
    BY <1>1, <2>3 DEF GoesOn, IngestTypeOK
  <2>5. CreatorsCreate'
    BY <1>1, <1>3, <1>4, <2>3 DEF CreatorsCreate, GoesOn, Step
  <2>6. /\ sketchSamplesInserted' \in Nat /\ MemoryRejections' \in Nat
        /\ totalSamplesReceived' \in Nat /\ backendSamplesForwarded' \in Nat
    <3>1. sketchSamplesInserted' \in Nat
      BY <1>1, <1>6 DEF Unmatched, Known, Rejected, Create, Inserted, IngestTypeOK
    <3>2. MemoryRejections' \in Nat
      BY <1>1, <1>6 DEF Unmatched, Known, Rejected, Create, IngestTypeOK
    <3>3. totalSamplesReceived' \in Nat /\ backendSamplesForwarded' \in Nat
      BY <1>1, <2>1 DEF Takes, IngestTypeOK
    <3> QED
      BY <3>1, <3>2, <3>3
  <2>7. /\ crashed' \in BOOLEAN /\ unread' = unread
        /\ crashed' => c \notin Http
    <3>1. crashed' = (c \notin Http) \/ crashed' = crashed
      BY <1>6 DEF Unmatched, Known, Rejected, Create
    <3>2. unread' = unread
      BY <2>1 DEF Takes
    <3>3. (c \notin Http) \in BOOLEAN
      OBVIOUS
    <3>4. crashed' \in BOOLEAN
      BY <1>1, <3>1, <3>3 DEF IngestTypeOK
    <3>5. crashed' => c \notin Http
      BY <1>2, <3>1
    <3> QED
      BY <3>2, <3>4, <3>5
  <2>8. IngestTypeOK'
    BY <1>1, <1>2, <1>3, <2>4, <2>6, <2>7 DEF IngestTypeOK
  <2> QED
    BY <1>4, <1>5, <2>3, <2>5, <2>7, <2>8 DEF OnlyMoves, GoesOn
<1>7. CASE Forward(c)
  <2>1. /\ call' \in [Calls -> CallState]
        /\ call'[c].at \in 1..Len(Delivered[c])
        /\ \/ call'[c].step = "done" /\ call'[c].sample = call[c].sample
           \/ call'[c].step = "sample" /\ call'[c].sample = 1
        /\ \A d \in Calls \ {c} : call'[d] = call[d]
    BY <1>1, <1>7, ForwardOn
  <2>2. CreatorsCreate'
    BY <1>1, <1>3, <1>4, <2>1 DEF CreatorsCreate, Step
  <2>3. /\ UNCHANGED <<totalSamplesReceived, sketchSamplesInserted, MemoryRejections, crashed>>
        /\ \E queued \in BOOLEAN :
             /\ unread' = (unread \/ (queued /\ stage = "storage"))
             /\ backendSamplesForwarded' =
                  backendSamplesForwarded + (IF queued THEN Current(c).samples ELSE 0)
    BY <1>7 DEF Forward
  <2>4. unread' \in BOOLEAN /\ backendSamplesForwarded' \in Nat
    BY <1>1, <2>3, CurrentFacts DEF IngestTypeOK
  <2>5. IngestTypeOK'
    BY <1>1, <1>2, <1>3, <2>1, <2>3, <2>4 DEF IngestTypeOK
  <2> QED
    BY <1>2, <1>4, <1>5, <2>1, <2>2, <2>3, <2>5 DEF OnlyMoves
<1> QED
  BY <1>6, <1>7

\* The steps in the table's code.
LEMMA CreatingKeeps ==
  ASSUME ServeInv, NEW c \in Calls, Works(c), InTable(c) \/ Creating(c) \/ Created(c)
  PROVE  TableInv' /\ IngestTypeOK' /\ CreatorsCreate' /\ OnlyMoves(c)
<1>1. TableInv /\ IngestTypeOK /\ CreatorsCreate /\ TableTypeOK
  BY DEF ServeInv, TableInv, TableFound
<1>2. UNCHANGED <<path, tracker, stage, nextId, timedOut>> /\ ~crashed
  BY DEF Works, mainVars, Alive
<1>3. /\ UNCHANGED <<unread, received, failed, totalSamplesReceived, backendSamplesForwarded,
                     MemoryRejections, crashed>>
      /\ Step(c) \in {"create", "creating"}
  BY DEF InTable, Creating, Created, ingestVars
<1>4. Running(c)
  BY <1>3 DEF Running
<1>5. DOMAIN memSeries = 1..Len(memSeries) /\ Len(memSeries) \in Nat
  BY <1>1, TableFacts
<1>6. CASE InTable(c)
  <2>1. /\ Look(c, Current(c).lset) /\ Moves(c, "creating")
        /\ UNCHANGED <<memoryUsed, sketchSamplesInserted>>
    BY <1>6 DEF InTable
  <2>2. Current(c).lset \in LabelSets
    BY <1>1, CurrentFacts
  <2>3. /\ TableInv' /\ creator'[c].step \in {"load", "have"}
        /\ \A d \in Calls \ {c} : creator'[d] = creator[d]
    BY <1>1, <2>1, <2>2, LookKeeps
  <2>4. GoesOn(c, "creating", call[c].sample)
    BY <1>1, <2>1, MovesOn DEF CallSteps
  <2>5. CreatorsCreate'
    BY <1>1, <2>3, <2>4 DEF CreatorsCreate, GoesOn, Step
  <2>6. IngestTypeOK'
    BY <1>1, <1>2, <1>3, <2>1, <2>4 DEF IngestTypeOK, GoesOn
  <2>7. memSeries' = memSeries
    BY <2>1 DEF Look
  <2> QED
    BY <1>3, <1>4, <2>3, <2>4, <2>5, <2>6, <2>7 DEF OnlyMoves, GoesOn
<1>7. CASE Creating(c)
  <2>1. Step(c) = "creating" /\ CreatorStep(c) /\ UNCHANGED ingestVars
    BY <1>7 DEF Creating
  <2>2. /\ TableInv' /\ creator'[c].step # "idle"
        /\ \A d \in Calls \ {c} : creator'[d] = creator[d]
        /\ \A j \in DOMAIN memSeries' :
             memSeries'[j].stopped => j \in DOMAIN memSeries /\ memSeries[j].stopped
    <3>1. CASE LoadId(c)
      BY <1>1, <3>1, LoadIdKeeps DEF LoadId
    <3>2. CASE StoreId(c)
      BY <1>1, <3>2, StoreIdKeeps DEF StoreId
    <3>3. CASE Publish(c)
      <4>1. /\ TableInv' /\ creator'[c].step = "index"
            /\ \A d \in Calls \ {c} : creator'[d] = creator[d]
            /\ Len(memSeries') = Len(memSeries) + 1
            /\ \A j \in 1..Len(memSeries) : memSeries'[j] = memSeries[j]
            /\ memSeries'[Len(memSeries) + 1].stopped = FALSE
        BY <1>1, <3>3, PublishKeeps
      <4>2. DOMAIN memSeries' = 1..(Len(memSeries) + 1)
        <5>1. memSeries' \in Seq(MemSeries)
          BY <4>1 DEF TableInv, TableFound, TableTypeOK
        <5> QED
          BY <4>1, <5>1, LenProperties
      <4>3. \A j \in DOMAIN memSeries' : j \in 1..Len(memSeries) \/ j = Len(memSeries) + 1
        BY <1>5, <4>2
      <4> QED
        BY <1>5, <4>1, <4>3
    <3>4. CASE Index(c)
      BY <1>1, <3>4, IndexKeeps DEF Index
    <3>5. CASE Allocate(c)
      <4>1. /\ TableInv' /\ SeriesStay /\ creator'[c].step = "more"
            /\ \A d \in Calls \ {c} : creator'[d] = creator[d]
            /\ \A j \in DOMAIN memSeries : memSeries'[j].stopped = memSeries[j].stopped
        BY <1>1, <3>5, AllocateKeeps
      <4> QED
        BY <4>1 DEF SeriesStay
    <3> QED
      BY <2>1, <3>1, <3>2, <3>3, <3>4, <3>5 DEF CreatorStep
  <2>3. call' = call /\ unread' = unread /\ UNCHANGED <<memoryUsed, sketchSamplesInserted>>
    BY <2>1 DEF ingestVars
  <2>4. CreatorsCreate'
    BY <1>1, <2>1, <2>2, <2>3 DEF CreatorsCreate, Step
  <2>5. IngestTypeOK'
    BY <1>1, <1>2, <1>3, <2>3 DEF IngestTypeOK
  <2> QED
    BY <1>3, <1>4, <2>2, <2>3, <2>4, <2>5 DEF OnlyMoves
<1>8. CASE Created(c)
  <2>1. /\ MakeUniv(c) /\ memoryUsed' = memoryUsed + 1 /\ NextSample(c) /\ Inserted("nil")
    BY <1>8 DEF Created
  <2>2. /\ TableInv' /\ SeriesStay /\ creator'[c].step = "idle"
        /\ \A d \in Calls \ {c} : creator'[d] = creator[d]
        /\ \A j \in DOMAIN memSeries : memSeries'[j].stopped = memSeries[j].stopped
    BY <1>1, <2>1, MakeUnivKeeps
  <2>3. GoesOn(c, "sample", call[c].sample + 1)
    BY <1>1, <2>1, NextSampleOn
  <2>4. CreatorsCreate'
    BY <1>1, <2>2, <2>3 DEF CreatorsCreate, GoesOn, Step
  <2>5. memoryUsed' \in Nat /\ sketchSamplesInserted' \in Nat
    BY <1>1, <2>1 DEF IngestTypeOK, Inserted
  <2>6. /\ call' \in [Calls -> CallState]
        /\ \A d \in Calls : call'[d].at \in 1..Len(Delivered[d]) /\ call'[d].sample \in Nat \ {0}
    <3>1. call[c].sample + 1 \in Nat \ {0}
      BY <1>1, CurrentFacts
    <3> QED
      BY <1>1, <2>3, <3>1 DEF GoesOn, IngestTypeOK
  <2>7. IngestTypeOK'
    BY <1>1, <1>2, <1>3, <2>5, <2>6 DEF IngestTypeOK
  <2> QED
    BY <1>3, <1>4, <2>2, <2>3, <2>4, <2>7 DEF OnlyMoves, GoesOn, SeriesStay
<1> QED
  BY <1>6, <1>7, <1>8

\* So no step of a call disturbs what the shutdown relies on.
LEMMA WorksKeeps ==
  ASSUME ServeInv, NEW c \in Calls, Works(c)
  PROVE  ServeInv'
<1>1. TableInv' /\ IngestTypeOK' /\ CreatorsCreate' /\ OnlyMoves(c)
  BY LoopKeeps, CreatingKeeps DEF Works, CallStep
<1>2. /\ UNCHANGED <<stage, nextId, timedOut>> /\ ~crashed /\ stage # "exited"
      /\ Quiet /\ StopInv /\ c \in Calls /\ stage \in Stages
  BY DEF Works, mainVars, Alive, ServeInv, IngestTypeOK
<1>3. Quiet'
  <2>1. \A d \in Calls : ~Running(d) => ~Running(d)'
    BY <1>1 DEF OnlyMoves, Running, Step
  <2>2. Http \subseteq Calls
    BY IngestAssumption
  <2> QED
    BY <1>2, <2>1, <2>2 DEF Quiet
<1>4. stage = "storage" => timedOut /\ c \in Http
  BY <1>1, <1>2 DEF Quiet, OnlyMoves
<1>5. StopInv'
  <2>1. CASE stage # "storage"
    BY <1>1, <1>2, <2>1 DEF StopInv, OnlyMoves
  <2>2. CASE stage = "storage"
    BY <1>1, <1>2, <1>4, <2>2 DEF StopInv, OnlyMoves
  <2> QED
    BY <2>1, <2>2
<1> QED
  BY <1>1, <1>3, <1>5 DEF ServeInv


LEMMA ArrivalKeeps ==
  ASSUME ServeInv, NEW c \in Calls, Alive, Request(c) \/ Scrape(c),
         UNCHANGED <<path, tracker, mainVars, batchVars>>
  PROVE  /\ ServeInv' /\ Step(c) = "none"
         /\ \E s \in {"sample", "refused"} : GoesOn(c, s, call[c].sample)
<1>1. /\ TableInv /\ IngestTypeOK /\ CreatorsCreate /\ Quiet /\ StopInv
      /\ UNCHANGED <<stage, nextId, timedOut>> /\ stage \in Stages
  BY DEF ServeInv, IngestTypeOK, mainVars
<1>2. /\ Step(c) = "none"
      /\ UNCHANGED <<unread, memoryUsed, totalSamplesReceived, sketchSamplesInserted,
                     backendSamplesForwarded, MemoryRejections, tableVars, crashed>>
  BY DEF Request, Scrape, Begins
<1>3. \E s \in {"sample", "refused"} : GoesOn(c, s, call[c].sample)
  BY <1>1, MovesOn DEF Request, Scrape, CallSteps
<1>4. PICK s \in {"sample", "refused"} : GoesOn(c, s, call[c].sample)
  BY <1>3
<1>5. TableInv' /\ UNCHANGED <<memSeries, creator, id, raced>>
  BY <1>1, <1>2, TableStays DEF tableVars
<1>6. CreatorsCreate'
  BY <1>1, <1>2, <1>4, <1>5 DEF CreatorsCreate, GoesOn, Step
<1>7. received' \in Nat /\ failed' \in Nat
  BY <1>1 DEF Request, Scrape, IngestTypeOK
<1>8. IngestTypeOK'
  BY <1>1, <1>2, <1>4, <1>7 DEF IngestTypeOK, GoesOn
<1>9. Quiet'
  <2>1. Http \subseteq Calls /\ \A d \in Calls \ {c} : Running(d)' => Running(d)
    BY <1>4, IngestAssumption DEF GoesOn, Running, Step
  <2>2. /\ c \in Http => stage = "serving"
        /\ c \notin Http => stage \in {"serving", "server", "tracker", "scrape"}
    BY DEF Request, Scrape
  <2> QED
    BY <1>1, <2>1, <2>2 DEF Quiet
<1>10. StopInv'
  BY <1>1, <1>2, <1>5 DEF StopInv
<1> QED
  BY <1>2, <1>3, <1>5, <1>6, <1>8, <1>9, <1>10 DEF ServeInv

\* A step that changes none of what ServeInv speaks of.
LEMMA ServeStays ==
  ASSUME ServeInv, UNCHANGED <<ingestVars, mainVars, crashed, tableVars>>
  PROVE  ServeInv'
<1>1. TableInv'
  BY TableStays DEF ServeInv
<1>2. /\ UNCHANGED <<call, unread, memoryUsed, received, failed, totalSamplesReceived,
                     sketchSamplesInserted, backendSamplesForwarded, MemoryRejections>>
      /\ UNCHANGED <<stage, nextId, timedOut, crashed>>
      /\ UNCHANGED <<memSeries, id, creator, raced>>
  BY DEF ingestVars, mainVars, tableVars
<1>3. IngestTypeOK'
  BY <1>2 DEF ServeInv, IngestTypeOK
<1>4. CreatorsCreate'
  BY <1>2 DEF ServeInv, CreatorsCreate, Step
<1>5. Quiet'
  BY <1>2 DEF ServeInv, Quiet, Running, Step
<1>6. StopInv'
  BY <1>2 DEF ServeInv, StopInv
<1> QED
  BY <1>1, <1>3, <1>4, <1>5, <1>6 DEF ServeInv

\* The signal and the steps of main other than the loop over the ids.
LEMMA PassesKeeps ==
  ASSUME ServeInv, Alive, UNCHANGED <<ingestVars, tableVars, crashed, nextId>>,
         Signal \/ Shutdown \/ StopTracker \/ StopScrape \/ StopForwarder \/ Exit
  PROVE  ServeInv'
<1>1. TableInv' /\ IngestTypeOK /\ CreatorsCreate /\ Quiet /\ StopInv /\ ~crashed
  BY TableStays DEF ServeInv, Alive
<1>2. /\ UNCHANGED <<call, unread, memoryUsed, received, failed, totalSamplesReceived,
                     sketchSamplesInserted, backendSamplesForwarded, MemoryRejections>>
      /\ UNCHANGED <<memSeries, id, creator, raced>>
  BY DEF ingestVars, tableVars
<1>3. id \in Nat /\ \A i \in DOMAIN memSeries : memSeries[i].id \in Nat
  BY TableFacts DEF ServeInv, TableInv, TableFound, TableTypeOK
<1>4. /\ stage' \in Stages /\ timedOut' \in BOOLEAN
      /\ stage # "server" => timedOut' = timedOut
      /\ stage = "server" => timedOut' = \E c \in Http : Running(c)
  <2>1. timedOut \in BOOLEAN
    BY <1>1 DEF IngestTypeOK
  <2>2. CASE Shutdown
    BY <2>2 DEF Shutdown, Passes, Stages
  <2>3. CASE ~Shutdown
    BY <2>1, <2>3 DEF Signal, StopTracker, StopScrape, StopForwarder, Exit, Passes, Stages
  <2> QED
    BY <2>2, <2>3
<1>5. IngestTypeOK'
  BY <1>1, <1>2, <1>4 DEF IngestTypeOK
<1>6. CreatorsCreate'
  BY <1>1, <1>2 DEF CreatorsCreate, Step
<1>7. \A c : Running(c)' <=> Running(c)
  BY <1>2 DEF Running, Step
<1>8. Quiet'
  <2>1. CASE Shutdown
    BY <1>4, <1>7, <2>1 DEF Shutdown, Passes, Quiet
  <2>2. CASE StopScrape
    BY <1>1, <1>4, <1>7, <2>2 DEF StopScrape, Passes, Quiet
  <2>3. CASE Signal \/ StopTracker \/ StopForwarder \/ Exit
    BY <1>1, <1>4, <1>7, <2>3 DEF Signal, StopTracker, StopForwarder, Exit, Passes, Quiet
  <2> QED
    BY <2>1, <2>2, <2>3
<1>9. StopInv'
  <2>1. CASE Signal \/ Shutdown \/ StopTracker \/ StopScrape
    <3>1. stage' \notin {"storage", "exited"} /\ stage \notin {"storage", "exited"}
      BY <2>1 DEF Signal, Shutdown, StopTracker, StopScrape, Passes
    <3>2. unread => timedOut'
      <4>1. CASE stage = "server"
        BY <1>1, <4>1 DEF StopInv
      <4>2. CASE stage # "server"
        BY <1>1, <1>4, <4>2 DEF StopInv
      <4> QED
        BY <4>1, <4>2
    <3>3. stage' \in {"serving", "server"} => ~timedOut'
      BY <1>1, <1>4, <2>1 DEF StopInv, Signal, Shutdown, StopTracker, StopScrape, Passes
    <3> QED
      BY <1>1, <1>2, <3>1, <3>2, <3>3 DEF StopInv
  <2>2. CASE StopForwarder
    <3>1. stage = "forwarder" /\ stage' = "storage" /\ timedOut' = timedOut
      BY <2>2 DEF StopForwarder, Passes
    <3> QED
      BY <1>1, <1>2, <1>3, <3>1 DEF StopInv
  <2>3. CASE Exit
    <3>1. stage = "storage" /\ stage' = "exited" /\ timedOut' = timedOut /\ nextId >= id
      BY <2>3 DEF Exit, Passes
    <3> QED
      BY <1>1, <1>2, <3>1 DEF StopInv
  <2> QED
    BY <2>1, <2>2, <2>3
<1> QED
  BY <1>1, <1>5, <1>6, <1>8, <1>9 DEF ServeInv

\* One turn of the loop: without races and late requests, nextId leads to the series with
\* that id and no other, and its instances are there.
LEMMA StopStorageKeeps ==
  ASSUME ServeInv, Alive, StopStorage, UNCHANGED <<path, ingestVars, tracker, batchVars>>
  PROVE  ServeInv'
<1>1. /\ TableInv /\ IngestTypeOK /\ CreatorsCreate /\ Quiet /\ StopInv /\ ~crashed
      /\ TableTypeOK /\ IdInv /\ RaceInv
  BY DEF ServeInv, Alive, TableInv, TableFound
<1>2. /\ stage = "storage" /\ nextId < id /\ nextId' = nextId + 1
      /\ UNCHANGED <<stage, timedOut>>
      /\ \/ StopPanics(nextId) /\ crashed' = TRUE /\ UNCHANGED tableVars
         \/ StopBackgroundClean(nextId) /\ UNCHANGED crashed
  BY DEF StopStorage, After
<1>3. UNCHANGED <<call, unread, memoryUsed, received, failed, totalSamplesReceived,
                  sketchSamplesInserted, backendSamplesForwarded, MemoryRejections>>
  BY DEF ingestVars
<1>4. nextId \in Nat /\ id \in Nat /\ timedOut \in BOOLEAN
  BY <1>1 DEF IngestTypeOK, TableTypeOK
<1>5. TableInv' /\ UNCHANGED <<creator, id, raced>>
  <2>1. CASE UNCHANGED tableVars
    BY <1>1, <2>1, TableStays DEF tableVars
  <2>2. CASE StopBackgroundClean(nextId)
    BY <1>1, <2>2, StopKeeps DEF StopBackgroundClean
  <2> QED
    BY <1>2, <2>1, <2>2
<1>6. IngestTypeOK'
  <2>1. nextId' \in Nat
    BY <1>2, <1>4
  <2>2. crashed' \in BOOLEAN
    <3>1. crashed' = TRUE \/ crashed' = crashed
      BY <1>2
    <3> QED
      BY <1>1, <3>1 DEF IngestTypeOK
  <2> QED
    BY <1>1, <1>2, <1>3, <2>1, <2>2 DEF IngestTypeOK
<1>7. CreatorsCreate' /\ Quiet'
  BY <1>1, <1>2, <1>3, <1>5 DEF CreatorsCreate, Quiet, Running, Step
<1>8. ASSUME ~timedOut
      PROVE  \A c \in Calls : creator[c].step = "idle"
  <2>1. \A c \in Calls : ~Running(c)
    BY <1>1, <1>2, <1>8 DEF Quiet
  <2> QED
    BY <1>1, <2>1 DEF CreatorsCreate, Running
<1>9. ASSUME ~timedOut
      PROVE  ~StopPanics(nextId)
  <2>1. \A i \in DOMAIN memSeries : memSeries[i].instances # "nil"
    BY <1>1, <1>8, <1>9 DEF IdInv, Making
  <2> QED
    BY <1>1, <2>1 DEF StopPanics, getByID, IdInv
<1>10. ASSUME ~raced, ~timedOut
       PROVE  /\ nextId' <= id'
              /\ \A i \in DOMAIN memSeries' : memSeries'[i].stopped <=>
                   memSeries'[i].instances = "ehuniv" /\ memSeries'[i].id < nextId'
  <2>1. StopBackgroundClean(nextId)
    BY <1>2, <1>9, <1>10
  <2>2. /\ SeriesStay
        /\ \A j \in DOMAIN memSeries :
             /\ memSeries'[j].instances = memSeries[j].instances
             /\ memSeries'[j].stopped =
                  (memSeries[j].stopped \/ (j = getByID(nextId) /\ memSeries[j].instances = "ehuniv"))
    BY <1>1, <2>1, StopKeeps
  <2>3. nextId' <= id'
    BY <1>2, <1>4, <1>5
  <2>4. \A i \in DOMAIN memSeries : memSeries[i].id = i /\ i \in Nat \ {0}
    BY <1>1, <1>10, TableFacts DEF RaceInv
  <2>5. \A i \in DOMAIN memSeries : memSeries[i].id \in DOMAIN series
    BY <1>1, <1>8, <1>10 DEF IdInv, Indexing
  <2>6. ASSUME NEW i \in DOMAIN memSeries
        PROVE  i = getByID(nextId) <=> i = nextId
    <3>1. CASE i = nextId
      <4>1. nextId \in DOMAIN series
        BY <2>4, <2>5, <3>1
      <4>2. series[nextId] \in DOMAIN memSeries /\ memSeries[series[nextId]].id = nextId
        BY <1>1, <4>1 DEF IdInv
      <4> QED
        BY <2>4, <3>1, <4>1, <4>2 DEF getByID
    <3>2. CASE i # nextId
      <4>1. ASSUME i = getByID(nextId)
            PROVE  FALSE
        <5>1. nextId \in DOMAIN series /\ i = series[nextId]
          BY <2>4, <4>1 DEF getByID
        <5>2. memSeries[i].id = nextId
          BY <1>1, <5>1 DEF IdInv
        <5> QED
          BY <2>4, <3>2, <5>2
      <4> QED
        BY <3>2, <4>1
    <3> QED
      BY <3>1, <3>2
  <2>7. ASSUME NEW i \in DOMAIN memSeries
        PROVE  memSeries'[i].stopped <=>
                 memSeries'[i].instances = "ehuniv" /\ memSeries'[i].id < nextId'
    <3>1. memSeries[i].stopped <=> memSeries[i].instances = "ehuniv" /\ i < nextId
      BY <1>1, <1>2, <1>10, <2>4 DEF StopInv
    <3>2. memSeries'[i].stopped <=>
            memSeries[i].stopped \/ (i = nextId /\ memSeries[i].instances = "ehuniv")
      BY <2>2, <2>6
    <3>3. i < nextId' <=> i < nextId \/ i = nextId
      BY <1>2, <1>4, <2>4
    <3>4. memSeries'[i].instances = memSeries[i].instances /\ memSeries'[i].id = i
      BY <2>2, <2>4 DEF SeriesStay
    <3> QED
      BY <3>1, <3>2, <3>3, <3>4
  <2> QED
    BY <2>2, <2>3, <2>7 DEF SeriesStay
<1>11. StopInv'
  <2>1. crashed' => timedOut
    BY <1>1, <1>2, <1>9
  <2> QED
    BY <1>1, <1>2, <1>3, <1>5, <1>10, <2>1 DEF StopInv
<1> QED
  BY <1>5, <1>6, <1>7, <1>11 DEF ServeInv

LEMMA ServeInvHolds == Spec => []ServeInv
<1>1. Init => ServeInv
  <2> SUFFICES ASSUME Init
               PROVE  ServeInv
    OBVIOUS
  <2>1. TableInv /\ DOMAIN memSeries = {}
    <3>1. TableInv /\ Len(<<>>) = 0 /\ memSeries = <<>>
      BY TableStarts, EmptySeq DEF Init, TableInit
    <3>2. DOMAIN memSeries = 1..Len(memSeries)
      BY <3>1, TableFacts DEF TableInv, TableFound
    <3> QED
      BY <3>1, <3>2
  <2>2. IngestTypeOK
    <3>1. \A c \in Calls : 1 \in 1..Len(Delivered[c])
      BY DeliveredFacts
    <3>2. call \in [Calls -> CallState]
      BY DEF Init, CallState, CallSteps
    <3>3. \A c \in Calls : call[c].at \in 1..Len(Delivered[c]) /\ call[c].sample \in Nat \ {0}
      BY <3>1 DEF Init
    <3> QED
      BY <3>2, <3>3 DEF Init, IngestTypeOK, Stages
  <2>3. CreatorsCreate
    BY IdleType DEF Init, TableInit, CreatorsCreate, Step
  <2>4. Quiet
    BY DEF Init, Quiet
  <2>5. StopInv
    BY <2>1 DEF Init, StopInv
  <2> QED
    BY <2>1, <2>2, <2>3, <2>4, <2>5 DEF ServeInv
<1>2. ServeInv /\ [Next]_vars => ServeInv'
  <2> SUFFICES ASSUME ServeInv, [Next]_vars
               PROVE  ServeInv'
    OBVIOUS
  <2>1. CASE Alive /\ Signal /\ UNCHANGED <<path, ingestVars, tracker, batchVars>>
    BY <2>1, PassesKeeps DEF Signal
  <2>2. ASSUME NEW c \in Calls, Alive, Request(c) \/ Scrape(c),
               UNCHANGED <<path, tracker, mainVars, batchVars>>
        PROVE  ServeInv'
    BY <2>2, ArrivalKeeps
  <2>3. ASSUME NEW c \in Calls, Works(c)
        PROVE  ServeInv'
    BY <2>3, WorksKeeps
  <2>4. CASE Alive /\ Update
    BY <2>4, ServeStays DEF Update
  <2>5. CASE Main
    <3>1. CASE StopStorage
      BY <2>5, <3>1, StopStorageKeeps DEF Main
    <3>2. CASE Shutdown \/ StopTracker \/ StopScrape \/ StopForwarder \/ Exit
      <4>1. UNCHANGED <<ingestVars, tableVars, crashed, nextId>> /\ Alive
        BY <2>5, <3>2 DEF Main, Shutdown, StopTracker, StopScrape, StopForwarder, Exit
      <4> QED
        BY <3>2, <4>1, PassesKeeps
    <3> QED
      BY <2>5, <3>1, <3>2 DEF Main, MainStep
  <2>6. CASE UNCHANGED <<path, ingestVars, tracker, mainVars, crashed, tableVars>>
    BY <2>6, ServeStays
  <2>7. CASE UNCHANGED vars
    BY <2>7, ServeStays DEF vars
  <2> QED
    BY <2>1, <2>2, <2>3, <2>4, <2>5, <2>6, <2>7 DEF Next
<1> QED
  BY <1>1, <1>2, PTL DEF Spec

\* However creations, requests and the shutdown interleave, for any delivered series and
\* any collisions of their hashes: the table finds the newest series of each label set and
\* ids lead where they should, StopBackground stops every series but the newest, and only
\* a request that Shutdown left behind can make it panic.
THEOREM TableServes == Spec => []TableServesItsCallers
<1>1. ServeInv => TableServesItsCallers
  <2> SUFFICES ASSUME ServeInv
               PROVE  TableServesItsCallers
    OBVIOUS
  <2>1. TableInv /\ StopInv /\ TableTypeOK /\ nextId \in Nat
    BY DEF ServeInv, TableInv, TableFound, IngestTypeOK
  <2>2. SeriesAreFound /\ IdsAreShared
    BY <2>1, IdsAreLed
  <2>3. ASSUME stage = "exited", ~raced, ~timedOut
        PROVE  Stopped = {i \in WithUniv : memSeries[i].id < id}
    <3>1. nextId = id
      BY <2>1, <2>3 DEF StopInv, TableTypeOK
    <3> QED
      BY <2>1, <2>3, <3>1 DEF StopInv, Stopped, WithUniv
  <2>4. crashed /\ stage = "storage" => timedOut
    BY <2>1 DEF StopInv
  <2> QED
    BY <2>2, <2>3, <2>4 DEF TableServesItsCallers
<1> QED
  BY <1>1, ServeInvHolds, PTL


-----------------------------------------------------------------------------
(* A batch. *)

BatchTypeOK ==
  /\ ungrouped \in SUBSET BatchSeries
  /\ nodeGroups \in [PNodes -> SUBSET BatchSeries]
  /\ batchRpc \in [PNodes -> {"none", "sent", "served", "ok", "error"}]
  /\ batchServed \in SUBSET PNodes
  /\ batchStored \in [PNodes -> SUBSET BatchSeries]
  /\ batchResult \in {"none", "nil", "error"}
  /\ RPCsSent \in Nat /\ RPCsFailed \in Nat /\ SamplesRouted \in Nat

\* A node stores what it owns and a target matches; nothing is sent before the series are grouped, nor to a node
\* without a group; and after the result no request is under way.
BatchOrder ==
  /\ \A n \in PNodes : \A s \in batchStored[n] :
       s \in BatchMatched /\ OwnsPartition(n, BatchPartition[s])
  /\ \A n \in PNodes : batchRpc[n] # "none" => nodeGroups[n] # {} /\ ungrouped = {}
  /\ batchResult # "none" =>
       ungrouped = {} /\ \A n \in Groups : batchRpc[n] \in {"ok", "error"}
  /\ batchResult = "error" => AllFailed
  /\ batchResult = "nil" => ~AllFailed

StoredSamples == [n \in PNodes |-> Samples(batchStored[n])]
PassedSamples == [n \in PNodes |-> Samples(Passed(n))]
Answered == {n \in PNodes : batchRpc[n] = "ok"}
Failed == {n \in PNodes : batchRpc[n] = "error"}
Sent == {n \in PNodes : batchRpc[n] # "none"}

BatchCounts ==
  /\ SamplesRouted = SumOver(StoredSamples, Answered) + SumOver(PassedSamples, Answered)
  /\ RPCsFailed = Cardinality(Failed)
  /\ RPCsSent = Cardinality(Sent)

BatchInv == BatchTypeOK /\ BatchOrder /\ BatchCounts

LEMMA SamplesType ==
  ASSUME NEW s \in SUBSET BatchSeries
  PROVE  Samples(s) \in Nat
<1>1. IsFiniteSet(s)
  BY BatchAssumption, FS_Subset
<1>2. \A x \in s : SamplesIn[x] \in Nat
  BY BatchAssumption
<1> QED
  BY <1>1, <1>2, SumOverType DEF Samples

LEMMA NodeSetsAreFinite ==
  /\ IsFiniteSet(Answered) /\ IsFiniteSet(Failed) /\ IsFiniteSet(Sent)
  /\ Cardinality(Failed) \in Nat /\ Cardinality(Sent) \in Nat
<1>1. /\ IsFiniteSet(PNodes) /\ Answered \subseteq PNodes /\ Failed \subseteq PNodes
      /\ Sent \subseteq PNodes
  BY BatchAssumption DEF Answered, Failed, Sent
<1>2. IsFiniteSet(Answered) /\ IsFiniteSet(Failed) /\ IsFiniteSet(Sent)
  BY <1>1, FS_Subset
<1> QED
  BY <1>2, FS_CardinalityType

LEMMA GroupKeeps ==
  ASSUME BatchInv, NEW s \in BatchSeries, Group(s)
  PROVE  BatchInv'
<1>1. BatchTypeOK /\ BatchOrder /\ BatchCounts
  BY DEF BatchInv
<1>2. PICK healthy \in SUBSET GetNodesForPartition(BatchPartition[s], ReplicaCount) :
        nodeGroups' = [n \in PNodes |->
                         IF n \in healthy THEN nodeGroups[n] \cup {s} ELSE nodeGroups[n]]
  BY DEF Group
<1>3. /\ s \in ungrouped /\ ungrouped' = ungrouped \ {s}
      /\ UNCHANGED <<batchRpc, batchServed, batchStored, batchResult, RPCsSent, RPCsFailed,
                     SamplesRouted>>
  BY DEF Group
<1>4. BatchTypeOK'
  <2>1. nodeGroups' \in [PNodes -> SUBSET BatchSeries]
    BY <1>1, <1>2 DEF BatchTypeOK
  <2> QED
    BY <1>1, <1>3, <2>1 DEF BatchTypeOK
<1>5. BatchOrder'
  BY <1>1, <1>3 DEF BatchOrder, BatchTypeOK
<1>6. Answered = {} /\ Answered' = Answered /\ Failed' = Failed /\ Sent' = Sent
  BY <1>1, <1>3 DEF BatchOrder, Answered, Failed, Sent
<1>7. /\ SumOver(PassedSamples, {}) = 0 /\ SumOver(PassedSamples', {}) = 0
      /\ SumOver(StoredSamples, {}) = 0 /\ SumOver(StoredSamples', {}) = 0
  BY SumOverEmpty
<1>8. BatchCounts'
  BY <1>1, <1>3, <1>6, <1>7 DEF BatchCounts
<1> QED
  BY <1>4, <1>5, <1>8 DEF BatchInv

LEMMA SendKeeps ==
  ASSUME BatchInv, NEW n \in PNodes, SendGroup(n)
  PROVE  BatchInv'
<1>1. BatchTypeOK /\ BatchOrder /\ BatchCounts
  BY DEF BatchInv
<1>2. /\ ungrouped = {} /\ nodeGroups[n] # {} /\ n \in Groups /\ batchRpc[n] = "none"
      /\ batchRpc' = [batchRpc EXCEPT ![n] = "sent"] /\ RPCsSent' = RPCsSent + 1
      /\ UNCHANGED <<ungrouped, nodeGroups, batchServed, batchStored, batchResult, RPCsFailed,
                     SamplesRouted>>
  BY DEF SendGroup, Groups
<1>3. BatchTypeOK' /\ \A m \in PNodes : batchRpc'[m] = IF m = n THEN "sent" ELSE batchRpc[m]
  BY <1>1, <1>2 DEF BatchTypeOK
<1>4. batchResult = "none"
  BY <1>1, <1>2 DEF BatchOrder
<1>5. BatchOrder'
  BY <1>1, <1>2, <1>3, <1>4 DEF BatchOrder
<1>6. Answered' = Answered /\ Failed' = Failed /\ Sent' = Sent \cup {n} /\ n \notin Sent
  BY <1>2, <1>3 DEF Answered, Failed, Sent
<1>7. Cardinality(Sent \cup {n}) = Cardinality(Sent) + 1
  BY <1>6, NodeSetsAreFinite, FS_AddElement
<1>8. StoredSamples' = StoredSamples /\ PassedSamples' = PassedSamples
  BY <1>2 DEF StoredSamples, PassedSamples, Passed
<1>9. BatchCounts'
  BY <1>1, <1>2, <1>6, <1>7, <1>8 DEF BatchCounts
<1> QED
  BY <1>3, <1>5, <1>9 DEF BatchInv

LEMMA ServeKeeps ==
  ASSUME BatchInv, NEW n \in PNodes, ServeBatch(n)
  PROVE  BatchInv'
<1>1. BatchTypeOK /\ BatchOrder /\ BatchCounts
  BY DEF BatchInv
<1>2. PICK taken \in SUBSET Storable(n) : batchStored' = [batchStored EXCEPT ![n] = taken]
  BY DEF ServeBatch
<1>3. /\ batchRpc[n] \in {"sent", "error"}
      /\ batchServed' = batchServed \cup {n}
      /\ batchRpc' = [batchRpc EXCEPT ![n] = IF @ = "sent" THEN "served" ELSE @]
      /\ UNCHANGED <<ungrouped, nodeGroups, batchResult, RPCsSent, RPCsFailed, SamplesRouted>>
  BY DEF ServeBatch
<1>4. /\ \A m \in PNodes \ {n} : batchRpc'[m] = batchRpc[m] /\ batchStored'[m] = batchStored[m]
      /\ batchStored'[n] = taken
      /\ batchRpc[n] = "sent" => batchRpc'[n] = "served"
      /\ batchRpc[n] = "error" => batchRpc'[n] = "error"
  BY <1>1, <1>2, <1>3 DEF BatchTypeOK
<1>5. BatchTypeOK'
  <2>1. taken \in SUBSET BatchSeries
    BY <1>1, <1>2 DEF BatchTypeOK, Storable
  <2>2. batchStored' \in [PNodes -> SUBSET BatchSeries]
    BY <1>1, <1>2, <2>1 DEF BatchTypeOK
  <2>3. batchRpc' \in [PNodes -> {"none", "sent", "served", "ok", "error"}]
    BY <1>1, <1>3 DEF BatchTypeOK
  <2> QED
    BY <1>1, <1>3, <2>2, <2>3 DEF BatchTypeOK
<1>6. BatchOrder'
  <2>1. \A m \in PNodes : \A s \in batchStored'[m] :
          s \in BatchMatched /\ OwnsPartition(m, BatchPartition[s])
    BY <1>1, <1>2, <1>4 DEF BatchOrder, Storable
  <2>2. \A m \in PNodes : batchRpc'[m] # "none" => nodeGroups[m] # {} /\ ungrouped = {}
    BY <1>1, <1>3, <1>4 DEF BatchOrder
  <2>3. ASSUME batchResult # "none"
        PROVE  batchRpc' = batchRpc
    <3>1. n \in Groups
      BY <1>1, <1>3 DEF BatchOrder, Groups
    <3>2. batchRpc[n] = "error"
      BY <1>1, <1>3, <2>3, <3>1 DEF BatchOrder
    <3> QED
      BY <1>1, <1>3, <3>2 DEF BatchTypeOK
  <2>4. Groups' = Groups
    BY <1>3 DEF Groups
  <2> QED
    BY <1>1, <1>3, <2>1, <2>2, <2>3, <2>4 DEF BatchOrder, AllFailed
<1>7. Answered' = Answered /\ Failed' = Failed /\ Sent' = Sent /\ n \notin Answered
  BY <1>3, <1>4 DEF Answered, Failed, Sent
<1>8. \A m \in Answered : StoredSamples[m] = StoredSamples'[m]
  BY <1>4, <1>7 DEF StoredSamples, Answered
<1>9. SumOver(StoredSamples, Answered) = SumOver(StoredSamples', Answered)
  <2>1. IsFiniteSet(Answered)
    BY NodeSetsAreFinite
  <2> HIDE DEF StoredSamples, Answered
  <2> QED
    BY <1>8, <2>1, SumOverSame
<1>10. PassedSamples' = PassedSamples
  BY <1>3 DEF PassedSamples, Passed
<1>11. BatchCounts'
  BY <1>1, <1>3, <1>7, <1>9, <1>10 DEF BatchCounts
<1> QED
  BY <1>5, <1>6, <1>11 DEF BatchInv

LEMMA AnswerKeeps ==
  ASSUME BatchInv, NEW n \in PNodes, BatchAnswered(n)
  PROVE  BatchInv'
<1>1. BatchTypeOK /\ BatchOrder /\ BatchCounts
  BY DEF BatchInv
<1>2. /\ batchRpc[n] = "served" /\ batchRpc' = [batchRpc EXCEPT ![n] = "ok"]
      /\ SamplesRouted' = SamplesRouted + (Samples(batchStored[n]) + Samples(Passed(n)))
      /\ UNCHANGED <<ungrouped, nodeGroups, batchServed, batchStored, batchResult, RPCsSent,
                     RPCsFailed>>
  BY DEF BatchAnswered, InsertedAt
<1>3. \A m \in PNodes : Samples(batchStored[m]) \in Nat /\ Samples(Passed(m)) \in Nat
  <2>1. \A m \in PNodes : batchStored[m] \in SUBSET BatchSeries /\ Passed(m) \in SUBSET BatchSeries
    BY <1>1 DEF BatchTypeOK, Passed
  <2> QED
    BY <2>1, SamplesType
<1>4. SamplesRouted' \in Nat
  BY <1>1, <1>2, <1>3 DEF BatchTypeOK
<1>5. BatchTypeOK' /\ \A m \in PNodes : batchRpc'[m] = IF m = n THEN "ok" ELSE batchRpc[m]
  BY <1>1, <1>2, <1>4 DEF BatchTypeOK
<1>6. batchResult = "none"
  BY <1>1, <1>2 DEF BatchOrder, Groups, BatchTypeOK
<1>7. BatchOrder'
  BY <1>1, <1>2, <1>5, <1>6 DEF BatchOrder
<1>8. Answered' = Answered \cup {n} /\ Failed' = Failed /\ Sent' = Sent /\ n \notin Answered
  BY <1>2, <1>5 DEF Answered, Failed, Sent
<1>9. /\ SumOver(StoredSamples, Answered \cup {n}) = SumOver(StoredSamples, Answered) + StoredSamples[n]
      /\ SumOver(PassedSamples, Answered \cup {n}) = SumOver(PassedSamples, Answered) + PassedSamples[n]
      /\ SumOver(StoredSamples, Answered) \in Nat /\ SumOver(PassedSamples, Answered) \in Nat
  <2>1. IsFiniteSet(Answered) /\ Answered \subseteq PNodes
    BY NodeSetsAreFinite DEF Answered
  <2>2. \A m \in Answered \cup {n} : StoredSamples[m] \in Nat /\ PassedSamples[m] \in Nat
    BY <1>3, <2>1 DEF StoredSamples, PassedSamples
  <2> HIDE DEF StoredSamples, PassedSamples, Answered
  <2>3. SumOver(StoredSamples, Answered \cup {n}) = SumOver(StoredSamples, Answered) + StoredSamples[n]
    BY <1>8, <2>1, <2>2, SumOverAdd
  <2>4. SumOver(PassedSamples, Answered \cup {n}) = SumOver(PassedSamples, Answered) + PassedSamples[n]
    BY <1>8, <2>1, <2>2, SumOverAdd
  <2> QED
    BY <2>1, <2>2, <2>3, <2>4, SumOverType
<1>10. /\ StoredSamples' = StoredSamples /\ StoredSamples[n] = Samples(batchStored[n])
       /\ PassedSamples' = PassedSamples /\ PassedSamples[n] = Samples(Passed(n))
  BY <1>2 DEF StoredSamples, PassedSamples, Passed
<1>11. BatchCounts'
  <2> HIDE DEF StoredSamples, PassedSamples, Answered
  <2> QED
    BY <1>1, <1>2, <1>3, <1>8, <1>9, <1>10 DEF BatchCounts
<1> QED
  BY <1>5, <1>7, <1>11 DEF BatchInv

LEMMA FailKeeps ==
  ASSUME BatchInv, NEW n \in PNodes, BatchFails(n)
  PROVE  BatchInv'
<1>1. BatchTypeOK /\ BatchOrder /\ BatchCounts
  BY DEF BatchInv
<1>2. /\ batchRpc[n] \in {"sent", "served"} /\ batchRpc' = [batchRpc EXCEPT ![n] = "error"]
      /\ RPCsFailed' = RPCsFailed + 1
      /\ UNCHANGED <<ungrouped, nodeGroups, batchServed, batchStored, batchResult, RPCsSent,
                     SamplesRouted>>
  BY DEF BatchFails
<1>3. BatchTypeOK' /\ \A m \in PNodes : batchRpc'[m] = IF m = n THEN "error" ELSE batchRpc[m]
  BY <1>1, <1>2 DEF BatchTypeOK
<1>4. batchResult = "none"
  BY <1>1, <1>2 DEF BatchOrder, Groups, BatchTypeOK
<1>5. BatchOrder'
  BY <1>1, <1>2, <1>3, <1>4 DEF BatchOrder
<1>6. Answered' = Answered /\ Failed' = Failed \cup {n} /\ Sent' = Sent /\ n \notin Failed
  BY <1>2, <1>3 DEF Answered, Failed, Sent
<1>7. Cardinality(Failed \cup {n}) = Cardinality(Failed) + 1
  BY <1>6, NodeSetsAreFinite, FS_AddElement
<1>8. StoredSamples' = StoredSamples /\ PassedSamples' = PassedSamples
  BY <1>2 DEF StoredSamples, PassedSamples, Passed
<1>9. BatchCounts'
  BY <1>1, <1>2, <1>6, <1>7, <1>8 DEF BatchCounts
<1> QED
  BY <1>3, <1>5, <1>9 DEF BatchInv

LEMMA ReturnKeeps ==
  ASSUME BatchInv, BatchReturns
  PROVE  BatchInv'
<1>1. BatchTypeOK /\ BatchOrder /\ BatchCounts
  BY DEF BatchInv
<1>2. /\ ungrouped = {} /\ \A n \in Groups : batchRpc[n] \in {"ok", "error"}
      /\ batchResult' = IF AllFailed THEN "error" ELSE "nil"
      /\ UNCHANGED <<ungrouped, nodeGroups, batchRpc, batchServed, batchStored, RPCsSent,
                     RPCsFailed, SamplesRouted>>
  BY DEF BatchReturns
<1>3. BatchTypeOK'
  BY <1>1, <1>2 DEF BatchTypeOK
<1>4. Groups' = Groups /\ (AllFailed' <=> AllFailed)
  BY <1>2 DEF Groups, AllFailed
<1>5. BatchOrder'
  BY <1>1, <1>2, <1>4 DEF BatchOrder
<1>6. BatchCounts'
  BY <1>1, <1>2 DEF BatchCounts, StoredSamples, PassedSamples, Passed, Answered, Failed, Sent
<1> QED
  BY <1>3, <1>5, <1>6 DEF BatchInv

LEMMA BatchStays ==
  ASSUME BatchInv, UNCHANGED batchVars
  PROVE  BatchInv'
<1>1. UNCHANGED <<ungrouped, nodeGroups, batchRpc, batchServed, batchStored, batchResult,
                  RPCsSent, RPCsFailed, SamplesRouted>>
  BY DEF batchVars
<1> QED
  BY <1>1 DEF BatchInv, BatchTypeOK, BatchOrder, BatchCounts, Groups, AllFailed,
              StoredSamples, PassedSamples, Passed, Answered, Failed, Sent

LEMMA BatchStarts ==
  ASSUME BatchInit
  PROVE  BatchInv
<1>1. Answered = {} /\ Failed = {} /\ Sent = {}
  BY DEF BatchInit, Answered, Failed, Sent
<1>2. BatchTypeOK /\ BatchOrder
  BY DEF BatchInit, BatchTypeOK, BatchOrder
<1>3. Cardinality({}) = 0 /\ SumOver(StoredSamples, {}) = 0 /\ SumOver(PassedSamples, {}) = 0
  BY FS_EmptySet, SumOverEmpty
<1> QED
  BY <1>1, <1>2, <1>3 DEF BatchInit, BatchInv, BatchCounts

LEMMA BatchAddsUp ==
  ASSUME BatchInv
  PROVE  BatchIsCounted
<1>1. BatchTypeOK /\ BatchOrder /\ BatchCounts
  BY DEF BatchInv
<1>2. ASSUME NEW m \in PNodes, NEW n \in PNodes, m # n
      PROVE  batchStored[m] \cap batchStored[n] = {}
  <2>1. SUFFICES ASSUME NEW s \in batchStored[m], s \in batchStored[n]
                 PROVE  FALSE
    OBVIOUS
  <2>2. s \in BatchSeries /\ BatchPartition[s] \in Partitions
    BY <1>1, BatchAssumption DEF BatchTypeOK
  <2>3. OwnsPartition(m, BatchPartition[s]) /\ OwnsPartition(n, BatchPartition[s])
    BY <1>1, <2>1 DEF BatchOrder
  <2> QED
    BY <1>2, <2>2, <2>3, BatchAssumption DEF AcceptedByNewPartitionMapper
<1>3. IsFiniteSet(Sent) /\ IsFiniteSet(Failed) /\ Cardinality(Sent) \in Nat /\ Cardinality(Failed) \in Nat
  BY NodeSetsAreFinite
<1>4. Sent \subseteq Groups /\ Failed \subseteq Sent
  BY <1>1 DEF BatchOrder, Groups, Failed, Sent
<1>5. ASSUME batchResult = "error"
      PROVE  SamplesRouted = 0 /\ RPCsSent = RPCsFailed /\ RPCsSent > 0
  <2>1. AllFailed
    BY <1>1, <1>5 DEF BatchOrder
  <2>2. Answered = {} /\ Sent = Failed /\ Sent # {}
    BY <1>1, <2>1 DEF BatchOrder, AllFailed, Answered, Failed, Sent, Groups
  <2>3. Cardinality(Sent) # 0
    BY <1>3, <2>2, FS_EmptySet
  <2>4. SumOver(StoredSamples, {}) = 0 /\ SumOver(PassedSamples, {}) = 0
    BY SumOverEmpty
  <2> QED
    BY <1>1, <1>3, <2>2, <2>3, <2>4 DEF BatchCounts
<1>6. ASSUME batchResult = "nil"
      PROVE  RPCsSent = 0 \/ RPCsFailed < RPCsSent
  <2>1. ~AllFailed /\ \A n \in Groups : batchRpc[n] \in {"ok", "error"}
    BY <1>1, <1>6 DEF BatchOrder
  <2>2. CASE Groups = {}
    BY <1>1, <1>4, <2>2, FS_EmptySet DEF BatchCounts
  <2>3. CASE Groups # {}
    <3>1. PICK n \in Groups : batchRpc[n] = "ok"
      BY <2>1, <2>3 DEF AllFailed
    <3>2. n \in Sent /\ n \notin Failed
      BY <3>1 DEF Sent, Failed, Groups
    <3>3. Cardinality(Failed) < Cardinality(Sent)
      BY <1>3, <1>4, <3>2, FS_Subset
    <3> QED
      BY <1>1, <3>3 DEF BatchCounts
  <2> QED
    BY <2>2, <2>3
<1>7. \A n \in PNodes : batchStored[n] \subseteq BatchMatched
  BY <1>1 DEF BatchOrder
<1> QED
  BY <1>1, <1>2, <1>5, <1>6, <1>7 DEF BatchIsCounted, BatchCounts, StoredSamples, PassedSamples,
                                      Answered, Failed, Sent


-----------------------------------------------------------------------------
(* The counters. *)

Holding(c) == Step(c) \in {"create", "creating", "aborted"}
Held == {c \in Calls : Holding(c)}

\* The samples that a call has taken from the series it is at.
TakenBy(c) ==
  IF Step(c) = "sample" THEN call[c].sample - 1
  ELSE IF Step(c) \in {"create", "creating"} THEN call[c].sample ELSE 0
Taken == [c \in Calls |-> TakenBy(c)]
TakenSum == SumOver(Taken, Calls)

Begun == {c \in Http : Step(c) # "none"}
Refused == {c \in Http : Step(c) = "refused"}

\* Of the tracker t when total samples have been received.
IntervalsAddUp(t, total) ==
  /\ t \in [lastTotal : Nat, rates : Seq(Nat), updates : Nat, forgotten : Nat]
  /\ t.lastTotal <= total
  /\ t.lastTotal = t.forgotten + SumOver(t.rates, DOMAIN t.rates)

\* What is forwarded are samples of series that their calls have left behind.
CountInv ==
  /\ sketchSamplesInserted + MemoryRejections + Cardinality(Held) = totalSamplesReceived
  /\ backendSamplesForwarded + TakenSum <= totalSamplesReceived
  /\ IntervalsAddUp(tracker, totalSamplesReceived)
  /\ received = Cardinality(Begun)
  /\ failed = Cardinality(Refused)
  /\ \A c \in Calls : Step(c) = "none" => call[c].sample = 1

LEMMA TakenType ==
  ASSUME IngestTypeOK
  PROVE  /\ \A c \in Calls : TakenBy(c) \in Nat /\ Taken[c] = TakenBy(c)
         /\ TakenSum \in Nat
<1>1. \A c \in Calls : TakenBy(c) \in Nat /\ Taken[c] = TakenBy(c)
  BY CurrentFacts DEF TakenBy, Taken
<1>2. IsFiniteSet(Calls)
  BY IngestAssumption
<1> HIDE DEF Taken
<1> QED
  BY <1>1, <1>2, SumOverType DEF TakenSum

LEMMA CallSetsAreFinite ==
  /\ IsFiniteSet(Held) /\ IsFiniteSet(Begun) /\ IsFiniteSet(Refused)
  /\ Cardinality(Held) \in Nat /\ Cardinality(Begun) \in Nat /\ Cardinality(Refused) \in Nat
<1>1. IsFiniteSet(Calls) /\ Held \subseteq Calls /\ Begun \subseteq Calls /\ Refused \subseteq Calls
  BY IngestAssumption DEF Held, Begun, Refused
<1>2. IsFiniteSet(Held) /\ IsFiniteSet(Begun) /\ IsFiniteSet(Refused)
  BY <1>1, FS_Subset
<1> QED
  BY <1>2, FS_CardinalityType

\* What a move of one call does to the number of samples held and to the sum.
LEMMA OneCallMoves ==
  ASSUME IngestTypeOK, IngestTypeOK', NEW c \in Calls,
         \A d \in Calls \ {c} : call'[d] = call[d]
  PROVE  /\ Cardinality(Held)' + (IF Holding(c) THEN 1 ELSE 0)
              = Cardinality(Held) + (IF Holding(c)' THEN 1 ELSE 0)
         /\ TakenSum' + TakenBy(c) = TakenSum + TakenBy(c)'
         /\ Cardinality(Held)' \in Nat /\ TakenSum' \in Nat
<1>1. \A d \in Calls \ {c} : (Holding(d)' <=> Holding(d)) /\ TakenBy(d)' = TakenBy(d)
  BY DEF Holding, TakenBy, Step
<1>2. IsFiniteSet(Held) /\ Cardinality(Held) \in Nat /\ IsFiniteSet(Calls)
  BY CallSetsAreFinite, IngestAssumption
<1>3. Cardinality(Held)' + (IF Holding(c) THEN 1 ELSE 0)
        = Cardinality(Held) + (IF Holding(c)' THEN 1 ELSE 0)
  <2>1. CASE Holding(c) <=> Holding(c)'
    <3>1. Held' = Held
      BY <1>1, <2>1 DEF Held
    <3> QED
      BY <1>2, <2>1, <3>1
  <2>2. CASE Holding(c) /\ ~Holding(c)'
    <3>1. Held' = Held \ {c} /\ c \in Held
      BY <1>1, <2>2 DEF Held
    <3>2. Cardinality(Held \ {c}) = Cardinality(Held) - 1
      BY <1>2, <3>1, FS_RemoveElement
    <3> QED
      BY <1>2, <2>2, <3>1, <3>2
  <2>3. CASE ~Holding(c) /\ Holding(c)'
    <3>1. Held' = Held \cup {c} /\ c \notin Held
      BY <1>1, <2>3 DEF Held
    <3>2. Cardinality(Held \cup {c}) = Cardinality(Held) + 1
      BY <1>2, <3>1, FS_AddElement
    <3> QED
      BY <1>2, <2>3, <3>1, <3>2
  <2> QED
    BY <2>1, <2>2, <2>3
<1>a. Cardinality(Held)' \in Nat
  <2>1. Held' \subseteq Calls
    BY DEF Held
  <2>2. IsFiniteSet(Held')
    BY <1>2, <2>1, FS_Subset
  <2> QED
    BY <2>2, FS_CardinalityType
<1>4. TakenSum' + TakenBy(c) = TakenSum + TakenBy(c)' /\ TakenSum' \in Nat
  <2>1. \A d \in Calls : TakenBy(d) \in Nat /\ Taken[d] = TakenBy(d)
    BY TakenType
  <2>2. \A d \in Calls : TakenBy(d)' \in Nat /\ Taken'[d] = TakenBy(d)'
    <3>1. \A d \in Calls : call'[d] \in CallState /\ call'[d].sample \in Nat \ {0}
      BY DEF IngestTypeOK
    <3> QED
      BY <3>1 DEF TakenBy, Taken, Step
  <2>3. TakenSum = SumOver(Taken, Calls) /\ TakenSum' = SumOver(Taken', Calls)
    BY DEF TakenSum
  <2> HIDE DEF Taken
  <2>4. \A d \in Calls : Taken[d] \in Nat /\ Taken'[d] \in Nat
    BY <2>1, <2>2
  <2>5. \A d \in Calls \ {c} : Taken[d] = Taken'[d]
    BY <1>1, <2>1, <2>2
  <2>6. SumOver(Taken', Calls) + Taken[c] = SumOver(Taken, Calls) + Taken'[c]
    BY <1>2, <2>4, <2>5, SumOverChange
  <2>7. SumOver(Taken', Calls) \in Nat
    BY <1>2, <2>4, SumOverType
  <2> QED
    BY <2>1, <2>2, <2>3, <2>6, <2>7
<1> QED
  BY <1>3, <1>a, <1>4

\* A running call stays begun and is not refused.
LEMMA RequestsStay ==
  ASSUME CountInv, NEW c \in Calls, Running(c),
         \A d \in Calls \ {c} : call'[d] = call[d],
         call'[c].step \notin {"none", "refused"}, UNCHANGED <<received, failed>>
  PROVE  /\ received' = Cardinality(Begun') /\ failed' = Cardinality(Refused')
         /\ \A d \in Calls : Step(d)' = "none" => call'[d].sample = 1
<1>1. Http \subseteq Calls
  BY IngestAssumption
<1>2. Begun' = Begun /\ Refused' = Refused
  BY <1>1 DEF Begun, Refused, Running, Step
<1>3. \A d \in Calls : Step(d)' = "none" => call'[d].sample = 1
  BY DEF CountInv, Step
<1> QED
  BY <1>2, <1>3 DEF CountInv

LEMMA LoopCounts ==
  ASSUME ServeInv, ServeInv', CountInv, NEW c \in Calls, Works(c),
         Unmatched(c) \/ Known(c) \/ Rejected(c) \/ Create(c)
  PROVE  CountInv'
<1>1. IngestTypeOK /\ IngestTypeOK' /\ tracker' = tracker
  BY DEF ServeInv, Works
<1>2. /\ Step(c) = "sample" /\ totalSamplesReceived' = totalSamplesReceived + 1
      /\ UNCHANGED <<received, failed, backendSamplesForwarded>>
  BY DEF Unmatched, Known, Rejected, Create, Takes
<1>3. call[c].sample \in Nat \ {0} /\ TakenSum \in Nat /\ Cardinality(Held) \in Nat
  BY <1>1, CurrentFacts, TakenType, CallSetsAreFinite
<1>4. ~Holding(c) /\ TakenBy(c) = call[c].sample - 1 /\ Running(c)
  BY <1>2 DEF Holding, TakenBy, Running
<1>5. /\ sketchSamplesInserted \in Nat /\ MemoryRejections \in Nat
      /\ totalSamplesReceived \in Nat /\ backendSamplesForwarded \in Nat
  BY <1>1 DEF IngestTypeOK
<1>6. \/ /\ GoesOn(c, "sample", call[c].sample + 1)
         /\ sketchSamplesInserted' + MemoryRejections' = sketchSamplesInserted + MemoryRejections + 1
      \/ /\ GoesOn(c, "create", call[c].sample) \/ GoesOn(c, "aborted", call[c].sample)
         /\ sketchSamplesInserted' + MemoryRejections' = sketchSamplesInserted + MemoryRejections
  <2>1. CASE Unmatched(c)
    BY <1>1, <1>5, <2>1, NextSampleOn DEF Unmatched, Inserted
  <2>2. CASE Known(c)
    <3>1. CASE Moves(c, "aborted") /\ UNCHANGED <<sketchSamplesInserted, MemoryRejections>>
      BY <1>1, <3>1, MovesOn DEF CallSteps
    <3>2. CASE NextSample(c) /\ Inserted("nil") /\ UNCHANGED MemoryRejections
      BY <1>1, <1>5, <3>2, NextSampleOn DEF Inserted
    <3> QED
      BY <2>2, <3>1, <3>2 DEF Known
  <2>3. CASE Rejected(c)
    BY <1>1, <1>5, <2>3, NextSampleOn DEF Rejected, Inserted
  <2>4. CASE Create(c)
    BY <1>1, <1>5, <2>4, MovesOn DEF Create, CallSteps
  <2> QED
    BY <2>1, <2>2, <2>3, <2>4
<1>7. /\ \A d \in Calls \ {c} : call'[d] = call[d]
      /\ call'[c].step \notin {"none", "refused"}
  BY <1>6 DEF GoesOn
<1>8. /\ Cardinality(Held)' = Cardinality(Held) + (IF Holding(c)' THEN 1 ELSE 0)
      /\ TakenSum' + (call[c].sample - 1) = TakenSum + TakenBy(c)'
  <2>1. /\ Cardinality(Held)' + (IF Holding(c) THEN 1 ELSE 0)
             = Cardinality(Held) + (IF Holding(c)' THEN 1 ELSE 0)
        /\ TakenSum' + TakenBy(c) = TakenSum + TakenBy(c)'
    BY <1>1, <1>7, OneCallMoves
  <2>2. Cardinality(Held)' \in Nat
    BY <1>1, <1>7, OneCallMoves
  <2> QED
    BY <1>4, <2>1, <2>2
<1>9. TakenSum' \in Nat
  BY <1>1, <1>7, OneCallMoves
<1>10. sketchSamplesInserted' + MemoryRejections' + Cardinality(Held)' = totalSamplesReceived'
  <2>1. CASE /\ GoesOn(c, "sample", call[c].sample + 1)
             /\ sketchSamplesInserted' + MemoryRejections' = sketchSamplesInserted + MemoryRejections + 1
    <3>1. ~Holding(c)'
      BY <2>1 DEF GoesOn, Holding, Step
    <3> QED
      BY <1>2, <1>3, <1>5, <1>8, <2>1, <3>1 DEF CountInv
  <2>2. CASE /\ GoesOn(c, "create", call[c].sample) \/ GoesOn(c, "aborted", call[c].sample)
             /\ sketchSamplesInserted' + MemoryRejections' = sketchSamplesInserted + MemoryRejections
    <3>1. Holding(c)'
      BY <2>2 DEF GoesOn, Holding, Step
    <3> QED
      BY <1>2, <1>3, <1>5, <1>8, <2>2, <3>1 DEF CountInv
  <2> QED
    BY <1>6, <2>1, <2>2
<1>11. backendSamplesForwarded' + TakenSum' <= totalSamplesReceived'
  <2>1. TakenBy(c)' \in Nat /\ TakenBy(c)' <= call[c].sample
    <3>1. CASE GoesOn(c, "sample", call[c].sample + 1)
      BY <1>3, <3>1 DEF GoesOn, TakenBy, Step
    <3>2. CASE GoesOn(c, "create", call[c].sample) \/ GoesOn(c, "aborted", call[c].sample)
      BY <1>3, <3>2 DEF GoesOn, TakenBy, Step
    <3> QED
      BY <1>6, <3>1, <3>2
  <2>2. TakenSum' <= TakenSum + 1
    BY <1>3, <1>8, <1>9, <2>1
  <2>3. backendSamplesForwarded + TakenSum <= totalSamplesReceived
    BY DEF CountInv
  <2>4. /\ TakenSum' \in Nat /\ TakenSum \in Nat
        /\ backendSamplesForwarded' = backendSamplesForwarded
        /\ totalSamplesReceived' = totalSamplesReceived + 1
    BY <1>2, <1>3, <1>9
  <2> DEFINE before == TakenSum
             after == TakenSum'
             sent == backendSamplesForwarded
             total == totalSamplesReceived
  <2>5. /\ before \in Nat /\ after \in Nat /\ sent \in Nat /\ total \in Nat
        /\ after <= before + 1 /\ sent + before <= total
    BY <1>5, <2>2, <2>3, <2>4
  <2> HIDE DEF before, after, sent, total
  <2>6. sent + after <= total + 1
    BY <2>5
  <2> QED
    BY <2>4, <2>6 DEF after, sent, total
<1>12. /\ received' = Cardinality(Begun') /\ failed' = Cardinality(Refused')
       /\ \A d \in Calls : Step(d)' = "none" => call'[d].sample = 1
  BY <1>2, <1>4, <1>7, RequestsStay
<1>13. IntervalsAddUp(tracker, totalSamplesReceived')
  BY <1>2, <1>5 DEF CountInv, IntervalsAddUp
<1> QED
  BY <1>1, <1>10, <1>11, <1>12, <1>13 DEF CountInv

LEMMA CreatingCounts ==
  ASSUME ServeInv, ServeInv', CountInv, NEW c \in Calls, Works(c),
         InTable(c) \/ Creating(c) \/ Created(c)
  PROVE  CountInv'
<1>1. IngestTypeOK /\ IngestTypeOK' /\ tracker' = tracker
  BY DEF ServeInv, Works
<1>2. /\ Step(c) \in {"create", "creating"}
      /\ UNCHANGED <<received, failed, totalSamplesReceived, backendSamplesForwarded, MemoryRejections>>
  BY DEF InTable, Creating, Created, ingestVars
<1>3. call[c].sample \in Nat \ {0} /\ TakenSum \in Nat /\ Cardinality(Held) \in Nat
  BY <1>1, CurrentFacts, TakenType, CallSetsAreFinite
<1>4. Holding(c) /\ TakenBy(c) = call[c].sample /\ Running(c)
  BY <1>2 DEF Holding, TakenBy, Running
<1>5. /\ sketchSamplesInserted \in Nat /\ MemoryRejections \in Nat
      /\ totalSamplesReceived \in Nat /\ backendSamplesForwarded \in Nat
  BY <1>1 DEF IngestTypeOK
<1>6. \/ /\ call'[c].step = "creating" /\ call'[c].sample = call[c].sample
         /\ \A d \in Calls \ {c} : call'[d] = call[d]
         /\ sketchSamplesInserted' = sketchSamplesInserted
      \/ /\ call'[c].step = "sample" /\ call'[c].sample = call[c].sample + 1
         /\ \A d \in Calls \ {c} : call'[d] = call[d]
         /\ sketchSamplesInserted' = sketchSamplesInserted + 1
  <2>1. CASE InTable(c)
    BY <1>1, <2>1, MovesOn DEF InTable, CallSteps, GoesOn
  <2>2. CASE Creating(c)
    BY <2>2 DEF Creating, ingestVars, Step
  <2>3. CASE Created(c)
    BY <1>1, <2>3, NextSampleOn DEF Created, Inserted, GoesOn
  <2> QED
    BY <2>1, <2>2, <2>3
<1>7. /\ \A d \in Calls \ {c} : call'[d] = call[d]
      /\ call'[c].step \notin {"none", "refused"}
  BY <1>6
<1>8. /\ Cardinality(Held)' + 1 = Cardinality(Held) + (IF Holding(c)' THEN 1 ELSE 0)
      /\ TakenSum' + call[c].sample = TakenSum + TakenBy(c)'
  BY <1>1, <1>4, <1>7, OneCallMoves
<1>9. TakenSum' \in Nat /\ Cardinality(Held)' \in Nat
  BY <1>1, <1>7, OneCallMoves
<1>10. TakenBy(c)' = call[c].sample
  BY <1>3, <1>6 DEF TakenBy, Step
<1>11. sketchSamplesInserted' + MemoryRejections' + Cardinality(Held)' = totalSamplesReceived'
  <2>1. CASE call'[c].step = "creating" /\ sketchSamplesInserted' = sketchSamplesInserted
    <3>1. Holding(c)'
      BY <2>1 DEF Holding, Step
    <3> QED
      BY <1>2, <1>3, <1>5, <1>8, <1>9, <2>1, <3>1 DEF CountInv
  <2>2. CASE call'[c].step = "sample" /\ sketchSamplesInserted' = sketchSamplesInserted + 1
    <3>1. ~Holding(c)'
      BY <2>2 DEF Holding, Step
    <3> QED
      BY <1>2, <1>3, <1>5, <1>8, <1>9, <2>2, <3>1 DEF CountInv
  <2> QED
    BY <1>6, <2>1, <2>2
<1>12. backendSamplesForwarded' + TakenSum' <= totalSamplesReceived'
  BY <1>2, <1>3, <1>5, <1>8, <1>9, <1>10 DEF CountInv
<1>13. /\ received' = Cardinality(Begun') /\ failed' = Cardinality(Refused')
       /\ \A d \in Calls : Step(d)' = "none" => call'[d].sample = 1
  BY <1>2, <1>4, <1>7, RequestsStay
<1>14. IntervalsAddUp(tracker, totalSamplesReceived')
  BY <1>2 DEF CountInv
<1> QED
  BY <1>1, <1>11, <1>12, <1>13, <1>14 DEF CountInv

LEMMA ForwardCounts ==
  ASSUME ServeInv, ServeInv', CountInv, NEW c \in Calls, Works(c), Forward(c)
  PROVE  CountInv'
<1>1. IngestTypeOK /\ IngestTypeOK' /\ tracker' = tracker
  BY DEF ServeInv, Works
<1>2. /\ Step(c) = "sample" /\ call[c].sample > Current(c).samples
      /\ UNCHANGED <<received, failed, totalSamplesReceived, sketchSamplesInserted, MemoryRejections>>
      /\ \E queued \in BOOLEAN : backendSamplesForwarded' =
           backendSamplesForwarded + (IF queued THEN Current(c).samples ELSE 0)
  BY DEF Forward
<1>3. /\ call[c].sample \in Nat \ {0} /\ TakenSum \in Nat /\ Cardinality(Held) \in Nat
      /\ Current(c).samples \in Nat
  BY <1>1, CurrentFacts, TakenType, CallSetsAreFinite
<1>4. ~Holding(c) /\ TakenBy(c) = call[c].sample - 1 /\ Running(c)
  BY <1>2 DEF Holding, TakenBy, Running
<1>5. /\ sketchSamplesInserted \in Nat /\ MemoryRejections \in Nat
      /\ totalSamplesReceived \in Nat /\ backendSamplesForwarded \in Nat
  BY <1>1 DEF IngestTypeOK
<1>6. /\ \/ call'[c].step = "done"
         \/ call'[c].step = "sample" /\ call'[c].sample = 1
      /\ \A d \in Calls \ {c} : call'[d] = call[d]
  BY <1>1, ForwardOn
<1>7. ~Holding(c)' /\ TakenBy(c)' = 0
  BY <1>6 DEF Holding, TakenBy, Step
<1>8. /\ Cardinality(Held)' + 0 = Cardinality(Held) + 0
      /\ TakenSum' + (call[c].sample - 1) = TakenSum + 0
  BY <1>1, <1>4, <1>6, <1>7, OneCallMoves
<1>9. TakenSum' \in Nat /\ Cardinality(Held)' \in Nat
  BY <1>1, <1>6, OneCallMoves
<1>10. sketchSamplesInserted' + MemoryRejections' + Cardinality(Held)' = totalSamplesReceived'
  BY <1>2, <1>3, <1>8, <1>9 DEF CountInv
<1>11. backendSamplesForwarded' + TakenSum' <= totalSamplesReceived'
  <2>1. TakenSum' + Current(c).samples <= TakenSum
    BY <1>2, <1>3, <1>8, <1>9
  <2>2. backendSamplesForwarded + TakenSum <= totalSamplesReceived
    BY DEF CountInv
  <2>3. \/ backendSamplesForwarded' = backendSamplesForwarded + 0
        \/ backendSamplesForwarded' = backendSamplesForwarded + Current(c).samples
    <3>1. PICK queued \in BOOLEAN :
            backendSamplesForwarded' =
              backendSamplesForwarded + (IF queued THEN Current(c).samples ELSE 0)
      BY <1>2
    <3> QED
      BY <3>1
  <2>4. totalSamplesReceived' = totalSamplesReceived
    BY <1>2
  <2> QED
    BY <1>3, <1>5, <1>9, <2>1, <2>2, <2>3, <2>4
<1>12. /\ received' = Cardinality(Begun') /\ failed' = Cardinality(Refused')
       /\ \A d \in Calls : Step(d)' = "none" => call'[d].sample = 1
  BY <1>2, <1>4, <1>6, RequestsStay
<1>13. IntervalsAddUp(tracker, totalSamplesReceived')
  BY <1>2 DEF CountInv
<1> QED
  BY <1>1, <1>10, <1>11, <1>12, <1>13 DEF CountInv

LEMMA ArrivalCounts ==
  ASSUME ServeInv, CountInv, NEW c \in Calls, Alive, Request(c) \/ Scrape(c),
         UNCHANGED <<path, tracker, mainVars, batchVars>>
  PROVE  CountInv'
<1>1. IngestTypeOK /\ ServeInv' /\ tracker' = tracker
  BY ArrivalKeeps DEF ServeInv
<1>2. Step(c) = "none" /\ \E s \in {"sample", "refused"} : GoesOn(c, s, call[c].sample)
  BY ArrivalKeeps
<1>3. UNCHANGED <<totalSamplesReceived, sketchSamplesInserted, backendSamplesForwarded,
                  MemoryRejections>>
  BY DEF Request, Scrape, Begins
<1>4. /\ call[c].sample \in Nat \ {0} /\ TakenSum \in Nat /\ Cardinality(Held) \in Nat
      /\ IngestTypeOK'
  BY <1>1, CurrentFacts, TakenType, CallSetsAreFinite DEF ServeInv
<1>5. ~Holding(c) /\ TakenBy(c) = 0
  BY <1>2 DEF Holding, TakenBy
<1>6. /\ call'[c].sample = call[c].sample /\ call'[c].step \in {"sample", "refused"}
      /\ \A d \in Calls \ {c} : call'[d] = call[d]
  BY <1>2 DEF GoesOn
<1>7. ~Holding(c)' /\ TakenBy(c)' = 0
  <2>1. call[c].sample = 1
    BY <1>2 DEF CountInv
  <2> QED
    BY <1>6, <2>1 DEF TakenBy, Holding, Step
<1>8. Cardinality(Held)' = Cardinality(Held) /\ TakenSum' = TakenSum
  <2>1. /\ Cardinality(Held)' + 0 = Cardinality(Held) + 0
        /\ TakenSum' + 0 = TakenSum + 0
        /\ Cardinality(Held)' \in Nat /\ TakenSum' \in Nat
    BY <1>1, <1>4, <1>5, <1>6, <1>7, OneCallMoves
  <2> QED
    BY <1>4, <2>1
<1>9. received' = Cardinality(Begun') /\ failed' = Cardinality(Refused')
  <2>0. /\ IsFiniteSet(Begun) /\ IsFiniteSet(Refused) /\ Http \subseteq Calls
        /\ received = Cardinality(Begun) /\ failed = Cardinality(Refused)
    BY CallSetsAreFinite, IngestAssumption DEF CountInv
  <2>1. CASE Request(c)
    <3>1. c \in Http /\ received' = received + 1
      BY <2>1 DEF Request
    <3>2. Begun' = Begun \cup {c} /\ c \notin Begun
      BY <1>2, <1>6, <2>0, <3>1 DEF Begun, Step
    <3>3. received' = Cardinality(Begun')
      BY <2>0, <3>1, <3>2, FS_AddElement
    <3>4. CASE Moves(c, "sample") /\ failed' = failed
      <4>1. call'[c].step = "sample"
        BY <1>1, <3>4, MovesOn DEF CallSteps, GoesOn
      <4>2. Refused' = Refused
        BY <1>2, <1>6, <2>0, <4>1 DEF Refused, Step
      <4> QED
        BY <2>0, <3>3, <3>4, <4>2
    <3>5. CASE Moves(c, "refused") /\ failed' = failed + 1
      <4>1. call'[c].step = "refused"
        BY <1>1, <3>5, MovesOn DEF CallSteps, GoesOn
      <4>2. Refused' = Refused \cup {c} /\ c \notin Refused
        BY <1>2, <1>6, <2>0, <3>1, <4>1 DEF Refused, Step
      <4>3. Cardinality(Refused \cup {c}) = Cardinality(Refused) + 1
        BY <2>0, <4>2, FS_AddElement
      <4> QED
        BY <2>0, <3>3, <3>5, <4>2, <4>3
    <3> QED
      BY <2>1, <3>4, <3>5 DEF Request
  <2>2. CASE Scrape(c)
    <3>1. c \notin Http /\ UNCHANGED <<received, failed>>
      BY <2>2 DEF Scrape
    <3>2. Begun' = Begun /\ Refused' = Refused
      BY <1>6, <2>0, <3>1 DEF Begun, Refused, Step
    <3> QED
      BY <2>0, <3>1, <3>2
  <2> QED
    BY <2>1, <2>2
<1>10. \A d \in Calls : Step(d)' = "none" => call'[d].sample = 1
  BY <1>6 DEF CountInv, Step
<1>11. /\ sketchSamplesInserted' + MemoryRejections' + Cardinality(Held)' = totalSamplesReceived'
       /\ backendSamplesForwarded' + TakenSum' <= totalSamplesReceived'
  BY <1>3, <1>8 DEF CountInv
<1> QED
  BY <1>1, <1>3, <1>9, <1>10, <1>11 DEF CountInv

LEMMA CountStays ==
  ASSUME CountInv, UNCHANGED <<ingestVars, tracker>>
  PROVE  CountInv'
<1>1. UNCHANGED <<call, received, failed, totalSamplesReceived, sketchSamplesInserted,
                  backendSamplesForwarded, MemoryRejections, tracker>>
  BY DEF ingestVars
<1>2. Held' = Held /\ Taken' = Taken /\ Begun' = Begun /\ Refused' = Refused
  BY <1>1 DEF Held, Holding, Taken, TakenBy, Begun, Refused, Step
<1>3. TakenSum' = TakenSum
  BY <1>2 DEF TakenSum
<1> QED
  BY <1>1, <1>2, <1>3 DEF CountInv, Step

LEMMA RatesType ==
  ASSUME NEW r \in Seq(Nat)
  PROVE  SumOver(r, DOMAIN r) \in Nat
<1>1. DOMAIN r = 1..Len(r) /\ Len(r) \in Nat /\ \A i \in 1..Len(r) : r[i] \in Nat
  BY LenProperties, ElementOfSeq
<1>2. IsFiniteSet(1..Len(r))
  BY <1>1, FS_Interval
<1> QED
  BY <1>1, <1>2, SumOverType

\* An update parts the samples further, and may forget the oldest interval.
LEMMA MeasureAddsUp ==
  ASSUME NEW t, NEW total \in Nat, IntervalsAddUp(t, total), NEW elapsed \in 0..1
  PROVE  IntervalsAddUp(Measure(t, total, elapsed), total)
<1> DEFINE d == total - t.lastTotal
           rates == Append(t.rates, d)
<1>1. /\ t \in [lastTotal : Nat, rates : Seq(Nat), updates : Nat, forgotten : Nat]
      /\ t.lastTotal \in Nat /\ t.rates \in Seq(Nat) /\ t.updates \in Nat /\ t.forgotten \in Nat
      /\ t.lastTotal <= total
      /\ t.lastTotal = t.forgotten + SumOver(t.rates, DOMAIN t.rates)
  BY DEF IntervalsAddUp
<1>2. CASE elapsed = 0
  <2>1. Measure(t, total, elapsed) = [t EXCEPT !.updates = @ + 1]
    BY <1>2 DEF Measure
  <2>2. t.updates + 1 \in Nat
    BY <1>1
  <2> QED
    BY <1>1, <2>1, <2>2 DEF IntervalsAddUp
<1>3. CASE elapsed # 0
  <2>1. d \in Nat
    BY <1>1
  <2> HIDE DEF d
  <2>2. /\ rates \in Seq(Nat) /\ rates # <<>> /\ Len(rates) = Len(t.rates) + 1
        /\ SumOver(rates, DOMAIN rates) = SumOver(t.rates, DOMAIN t.rates) + d
    BY <1>1, <2>1, AppendProperties, SumOverAppend
  <2>3. rates = Append(t.rates, total - t.lastTotal)
    BY DEF d
  <2> HIDE DEF rates
  <2>4. SumOver(rates, DOMAIN rates) = Head(rates) + SumOver(Tail(rates), DOMAIN Tail(rates))
    BY <2>2, SumOverTail
  <2>5. Head(rates) \in Nat /\ Tail(rates) \in Seq(Nat)
    BY <2>2, HeadTailProperties
  <2> DEFINE drop == Len(rates) > TrackerWindow
             kept == IF drop THEN Tail(rates) ELSE rates
             gone == IF drop THEN Head(rates) ELSE 0
  <2>6. Measure(t, total, elapsed) =
          [t EXCEPT !.lastTotal = total, !.updates = @ + 1, !.rates = kept, !.forgotten = @ + gone]
    BY <1>3, <2>3 DEF Measure
  <2>7. /\ kept \in Seq(Nat) /\ gone \in Nat
        /\ SumOver(rates, DOMAIN rates) = gone + SumOver(kept, DOMAIN kept)
    <3>1. CASE drop
      BY <2>4, <2>5, <3>1
    <3>2. CASE ~drop
      <4>1. SumOver(rates, DOMAIN rates) = SumOver(t.rates, DOMAIN t.rates) + d
        BY <2>2
      <4>2. SumOver(t.rates, DOMAIN t.rates) \in Nat
        BY <1>1, RatesType
      <4> QED
        BY <2>1, <2>2, <3>2, <4>1, <4>2
    <3> QED
      BY <3>1, <3>2
  <2> HIDE DEF kept, gone
  <2>8. SumOver(kept, DOMAIN kept) \in Nat /\ SumOver(t.rates, DOMAIN t.rates) \in Nat
    BY <1>1, <2>7, RatesType
  <2>9. t.forgotten + gone \in Nat /\ t.updates + 1 \in Nat
    BY <1>1, <2>7
  <2>10. total = (t.forgotten + gone) + SumOver(kept, DOMAIN kept)
    <3>1. total = t.lastTotal + d
      BY <1>1 DEF d
    <3>2. SumOver(t.rates, DOMAIN t.rates) + d = gone + SumOver(kept, DOMAIN kept)
      BY <2>2, <2>7
    <3>3. /\ gone \in Nat /\ t.forgotten \in Nat /\ d \in Nat /\ t.lastTotal \in Nat
          /\ SumOver(kept, DOMAIN kept) \in Nat /\ SumOver(t.rates, DOMAIN t.rates) \in Nat
      BY <1>1, <2>1, <2>7, <2>8
    <3>4. t.lastTotal = t.forgotten + SumOver(t.rates, DOMAIN t.rates)
      BY <1>1
    <3> DEFINE a == SumOver(t.rates, DOMAIN t.rates)
               b == SumOver(kept, DOMAIN kept)
    <3> HIDE DEF a, b
    <3>5. /\ a \in Nat /\ b \in Nat /\ a + d = gone + b /\ t.lastTotal = t.forgotten + a
      BY <3>2, <3>3, <3>4 DEF a, b
    <3>6. total = (t.forgotten + gone) + b
      BY <3>1, <3>3, <3>5
    <3> QED
      BY <3>6 DEF b
  <2> DEFINE m == Measure(t, total, elapsed)
  <2>11. /\ m \in [lastTotal : Nat, rates : Seq(Nat), updates : Nat, forgotten : Nat]
         /\ m.lastTotal = total /\ m.rates = kept /\ m.forgotten = t.forgotten + gone
    BY <1>1, <2>6, <2>7, <2>9
  <2> HIDE DEF m
  <2> QED
    BY <2>10, <2>11 DEF IntervalsAddUp, m
<1> QED
  BY <1>2, <1>3

LEMMA UpdateCounts ==
  ASSUME ServeInv, CountInv, Update
  PROVE  CountInv'
<1>1. PICK elapsed \in 0..1 : tracker' = Measure(tracker, totalSamplesReceived, elapsed)
  BY DEF Update
<1>2. totalSamplesReceived \in Nat /\ IntervalsAddUp(tracker, totalSamplesReceived)
  BY DEF ServeInv, IngestTypeOK, CountInv
<1>3. IntervalsAddUp(tracker', totalSamplesReceived)
  BY <1>1, <1>2, MeasureAddsUp
<1>4. UNCHANGED <<call, received, failed, totalSamplesReceived, sketchSamplesInserted,
                  backendSamplesForwarded, MemoryRejections>>
  BY DEF Update, ingestVars
<1>5. Held' = Held /\ Taken' = Taken /\ Begun' = Begun /\ Refused' = Refused
  BY <1>4 DEF Held, Holding, Taken, TakenBy, Begun, Refused, Step
<1>6. TakenSum' = TakenSum
  BY <1>5 DEF TakenSum
<1> QED
  BY <1>3, <1>4, <1>5, <1>6 DEF CountInv, Step

LEMMA CountStarts ==
  ASSUME Init
  PROVE  CountInv
<1>1. \A c \in Calls : Step(c) = "none" /\ call[c].sample = 1
  BY DEF Init, Step
<1>2. Held = {} /\ Begun = {} /\ Refused = {} /\ \A c \in Calls : Taken[c] = 0
  BY <1>1, IngestAssumption DEF Held, Holding, Begun, Refused, Taken, TakenBy
<1>3. TakenSum = 0
  <2>1. IsFiniteSet(Calls)
    BY IngestAssumption
  <2> HIDE DEF Taken
  <2> QED
    BY <1>2, <2>1, SumOverZeros DEF TakenSum
<1>4. IntervalsAddUp(tracker, 0)
  <2>1. tracker = [lastTotal |-> 0, rates |-> <<>>, updates |-> 0, forgotten |-> 0]
    BY DEF Init
  <2>2. <<>> \in Seq(Nat) /\ DOMAIN <<>> = {} /\ SumOver(<<>>, {}) = 0
    <3>1. <<>> \in Seq(Nat) /\ Len(<<>>) = 0
      BY EmptySeq
    <3>2. DOMAIN <<>> = 1..Len(<<>>)
      BY <3>1, LenProperties
    <3> QED
      BY <3>1, <3>2, SumOverEmpty
  <2>3. tracker.rates = <<>> /\ tracker.lastTotal = 0 /\ tracker.forgotten = 0
    BY <2>1
  <2>4. tracker \in [lastTotal : Nat, rates : Seq(Nat), updates : Nat, forgotten : Nat]
    BY <2>1, <2>2
  <2> QED
    BY <2>2, <2>3, <2>4 DEF IntervalsAddUp
<1>5. Cardinality({}) = 0
  BY FS_EmptySet
<1> QED
  BY <1>1, <1>2, <1>3, <1>4, <1>5 DEF Init, CountInv

LEMMA CountInvHolds == Spec => [](CountInv /\ BatchInv)
<1> DEFINE All == CountInv /\ BatchInv
<1>1. Init => All
  BY CountStarts, BatchStarts DEF Init
<1>2. ServeInv /\ ServeInv' /\ All /\ [Next]_vars => All'
  <2> SUFFICES ASSUME ServeInv, ServeInv', CountInv, BatchInv, [Next]_vars
               PROVE  CountInv' /\ BatchInv'
    OBVIOUS
  <2>1. CASE Alive /\ Signal /\ UNCHANGED <<path, ingestVars, tracker, batchVars>>
    BY <2>1, CountStays, BatchStays
  <2>2. ASSUME NEW c \in Calls, Alive, Request(c) \/ Scrape(c),
               UNCHANGED <<path, tracker, mainVars, batchVars>>
        PROVE  CountInv' /\ BatchInv'
    BY <2>2, ArrivalCounts, BatchStays
  <2>3. ASSUME NEW c \in Calls, Works(c)
        PROVE  CountInv' /\ BatchInv'
    <3>1. UNCHANGED batchVars
      BY <2>3 DEF Works
    <3>2. CountInv'
      BY <2>3, LoopCounts, CreatingCounts, ForwardCounts DEF Works, CallStep
    <3> QED
      BY <3>1, <3>2, BatchStays
  <2>4. CASE Alive /\ Update
    BY <2>4, UpdateCounts, BatchStays DEF Update
  <2>5. CASE Main
    BY <2>5, CountStays, BatchStays DEF Main
  <2>6. CASE BatchNext /\ UNCHANGED <<path, ingestVars, tracker, mainVars, crashed, tableVars>>
    <3>1. BatchInv'
      BY <2>6, GroupKeeps, SendKeeps, ServeKeeps, AnswerKeeps, FailKeeps, ReturnKeeps DEF BatchNext
    <3> QED
      BY <2>6, <3>1, CountStays
  <2>7. CASE UNCHANGED vars
    BY <2>7, CountStays, BatchStays DEF vars
  <2> QED
    BY <2>1, <2>2, <2>3, <2>4, <2>5, <2>6, <2>7 DEF Next
<1> QED
  BY <1>1, <1>2, ServeInvHolds, PTL DEF Spec

\* However calls interleave, panic, are refused or find the memory full, for any series and
\* any number of samples: every sample taken up is counted once, none is forwarded before
\* it is received, the tracker's intervals part the samples whatever its window, and the
\* counters of a batch agree with what its nodes stored and what no target matched, counted
\* for each node that answered, whatever answers are lost or late.
THEOREM CountsAgree == Spec => []CountsAddUp
<1>1. ServeInv /\ CountInv /\ BatchInv => CountsAddUp
  <2> SUFFICES ASSUME ServeInv, CountInv, BatchInv
               PROVE  CountsAddUp
    OBVIOUS
  <2>1. BatchIsCounted /\ IngestTypeOK /\ StopInv
    BY BatchAddsUp DEF ServeInv
  <2>2. InHand \cup Lost = Held
    BY DEF InHand, Lost, Held, Holding
  <2>3. backendSamplesForwarded <= totalSamplesReceived
    <3>1. TakenSum \in Nat
      BY <2>1, TakenType
    <3> QED
      BY <2>1, <3>1 DEF CountInv, IngestTypeOK
  <2> QED
    BY <2>1, <2>2, <2>3 DEF CountInv, CountsAddUp, IntervalsAddUp, StopInv, Begun, Refused
<1> QED
  BY <1>1, ServeInvHolds, CountInvHolds, PTL
=============================================================================
