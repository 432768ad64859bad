------------------------- MODULE PlanToSourceProofs -------------------------
(***************************************************************************)
(* What PlanToSource promises for all layers, requests, catalogs and       *)
(* orders of digests: no layer weakens a rule, a plan is the largest that  *)
(* is supported, planning refuses for four causes only, a script calls    *)
(* each intent after those it depends on, and exactly what can be said is  *)
(* rendered and validated.                                                 *)
(*                                                                         *)
(* Resolution, the planner's passes, the topological order, the rounds of  *)
(* the renderer and its sums are recursive functions of any length.  The   *)
(* prover has no induction over an operator; it has one over a set of      *)
(* numbers (Induction), and that a recursive function exists is proved by  *)
(* it as well.                                                             *)
(***************************************************************************)
EXTENDS PlanToSource, FiniteSetTheorems, SequenceTheorems, WellFoundedInduction, TLAPS

-----------------------------------------------------------------------------
(* Numbers *)

\* A set of numbers that is not empty has a least member.
LEMMA LeastNumber ==
  ASSUME NEW S, S \subseteq Nat, S # {}
  PROVE  \E m \in S : \A n \in S : m <= n
<1> DEFINE R == OpToRel(<, Nat)
<1>1. IsWellFoundedOn(R, Nat) BY NatLessThanWellFounded
<1>2. ASSUME NEW n \in Nat, NEW m \in Nat, n < m PROVE <<n, m>> \in R
  BY <1>2, Zenon DEF OpToRel
<1> HIDE DEF R
<1>3. \E m \in S : \A n \in S : <<n, m>> \notin R BY <1>1, WFMin
<1>4. PICK m \in S : \A n \in S : <<n, m>> \notin R BY <1>3
<1>5. ASSUME NEW n \in S PROVE m <= n
  <2>1. n \in Nat /\ m \in Nat OBVIOUS
  <2>2. ~ (n < m) BY <2>1, <1>2, <1>4
  <2> QED BY <2>1, <2>2
<1> QED BY <1>5

\* What holds of 0, and of n + 1 where it holds of n, holds of every number.
LEMMA Induction ==
  ASSUME NEW S, 0 \in S, \A n \in Nat : n \in S => n + 1 \in S
  PROVE  Nat \subseteq S
<1> SUFFICES ASSUME Nat \ S # {} PROVE FALSE OBVIOUS
<1>1. PICK m \in Nat \ S : \A n \in Nat \ S : m <= n
  BY LeastNumber, Nat \ S \subseteq Nat
<1>2. m # 0 /\ m - 1 \in Nat BY <1>1
<1>3. m - 1 \in S BY <1>1, <1>2
<1>4. (m - 1) + 1 \in S BY <1>2, <1>3
<1> QED BY <1>4, <1>1

\* The same from 1 to N.
LEMMA InductionTo ==
  ASSUME NEW N \in Nat, NEW S, 1 \in S,
         \A n \in 1 .. N : n \in S /\ n + 1 \in 1 .. N => n + 1 \in S
  PROVE  1 .. N \subseteq S
<1> DEFINE T == { n \in Nat : n + 1 \in 1 .. N => n + 1 \in S }
<1>1. 0 \in T OBVIOUS
<1>2. ASSUME NEW n \in Nat, n \in T PROVE n + 1 \in T BY <1>2
<1> HIDE DEF T
<1>3. Nat \subseteq T BY <1>1, <1>2, Induction
<1>4. ASSUME NEW n \in 1 .. N PROVE n \in S
  <2>1. n - 1 \in Nat /\ (n - 1) + 1 = n OBVIOUS
  <2>2. n - 1 \in T BY <1>3, <2>1
  <2> QED BY <2>1, <2>2 DEF T
<1> QED BY <1>4

\* A function with a first value and steps from each value to the next.
Iterates(g, V, first, step, N) ==
  /\ g \in [0 .. N -> V]
  /\ g[0] = first
  /\ \A n \in 1 .. N : g[n] = step[n][g[n - 1]]

\* There is one.
LEMMA RecursionExists ==
  ASSUME NEW V, NEW first \in V, NEW N \in Nat, NEW step \in [1 .. N -> [V -> V]]
  PROVE  \E g : Iterates(g, V, first, step, N)
<1> DEFINE T == { n \in Nat : n <= N => \E g \in [0 .. n -> V] :
                    g = [i \in 0 .. n |-> IF i = 0 THEN first ELSE step[i][g[i - 1]]] }
<1>1. 0 \in T
  <2> DEFINE g == [i \in 0 .. 0 |-> first]
  <2>1. g = [i \in 0 .. 0 |-> IF i = 0 THEN first ELSE step[i][g[i - 1]]] OBVIOUS
  <2> QED BY <2>1
<1>2. ASSUME NEW n \in Nat, n \in T PROVE n + 1 \in T
  <2> SUFFICES ASSUME n + 1 <= N
               PROVE  \E g \in [0 .. n + 1 -> V] :
                        g = [i \in 0 .. n + 1 |-> IF i = 0 THEN first ELSE step[i][g[i - 1]]]
    OBVIOUS
  <2>1. PICK g \in [0 .. n -> V] :
          g = [i \in 0 .. n |-> IF i = 0 THEN first ELSE step[i][g[i - 1]]]
    BY <1>2
  <2> DEFINE h == [i \in 0 .. n + 1 |-> IF i = n + 1 THEN step[n + 1][g[n]] ELSE g[i]]
  <2>2. h \in [0 .. n + 1 -> V]
    <3>1. g[n] \in V /\ n + 1 \in 1 .. N OBVIOUS
    <3>2. step[n + 1][g[n]] \in V BY <3>1
    <3> QED BY <3>2
  <2>3. ASSUME NEW i \in 0 .. n + 1
        PROVE  h[i] = IF i = 0 THEN first ELSE step[i][h[i - 1]]
    <3>1. CASE i = n + 1
      <4>1. h[i] = step[i][g[n]] /\ i # 0 BY <3>1
      <4>2. i - 1 = n /\ n \in 0 .. n + 1 /\ n # n + 1 BY <3>1
      <4>3. h[i - 1] = g[n] BY <4>2
      <4> QED BY <4>1, <4>3
    <3>2. CASE i # n + 1
      <4>1. i \in 0 .. n /\ h[i] = g[i] BY <3>2
      <4>2. g[i] = IF i = 0 THEN first ELSE step[i][g[i - 1]] BY <2>1, <4>1
      <4>3. ASSUME i # 0 PROVE h[i - 1] = g[i - 1]
        <5>1. i - 1 \in 0 .. n + 1 /\ i - 1 # n + 1 BY <4>1, <4>3
        <5> QED BY <5>1
      <4> HIDE DEF h
      <4> QED BY <4>1, <4>2, <4>3
    <3> QED BY <3>1, <3>2
  <2>4. h = [i \in 0 .. n + 1 |-> IF i = 0 THEN first ELSE step[i][h[i - 1]]]
    <3>1. h = [i \in 0 .. n + 1 |-> h[i]] OBVIOUS
    <3> HIDE DEF h
    <3> QED BY <2>3, <3>1
  <2> HIDE DEF h
  <2> QED BY <2>2, <2>4
<1> HIDE DEF T
<1>3. N \in T BY <1>1, <1>2, Induction
<1>4. PICK g \in [0 .. N -> V] :
        g = [n \in 0 .. N |-> IF n = 0 THEN first ELSE step[n][g[n - 1]]]
  BY <1>3 DEF T
<1>5. g[0] = first BY <1>4
<1>6. ASSUME NEW n \in 1 .. N PROVE g[n] = step[n][g[n - 1]]
  <2>1. n \in 0 .. N /\ n # 0 OBVIOUS
  <2> QED BY <1>4, <2>1
<1> QED BY <1>5, <1>6 DEF Iterates

-----------------------------------------------------------------------------
(* Sorting *)

Before(S, rank, x) == { y \in S : rank[y] < rank[x] }

\* A rank tells the members of a finite set apart.
Ranks(rank, S) ==
  /\ IsFiniteSet(S)
  /\ \A x \in S : rank[x] \in Int
  /\ \A x, y \in S : rank[x] = rank[y] => x = y

\* A sequence of the members, each once, by rank.
Sorts(list, S, rank) ==
  LET N == Cardinality(S)
  IN /\ N \in Nat
     /\ list \in [1 .. N -> S]
     /\ \A x \in S : \E n \in 1 .. N : list[n] = x
     /\ \A m, n \in 1 .. N : m < n => rank[list[m]] < rank[list[n]]

\* Every place has its member: as many members come before one as places do.
LEMMA PlacesTaken ==
  ASSUME NEW S, NEW rank, Ranks(rank, S)
  PROVE  /\ Cardinality(S) \in Nat
         /\ \A n \in 1 .. Cardinality(S) :
              \E x \in S : Cardinality(Before(S, rank, x)) = n - 1
         /\ \A x \in S : /\ Cardinality(Before(S, rank, x)) \in Nat
                          /\ Cardinality(Before(S, rank, x)) + 1 \in 1 .. Cardinality(S)
         /\ \A x, y \in S : rank[x] < rank[y] =>
              Cardinality(Before(S, rank, x)) < Cardinality(Before(S, rank, y))
<1> DEFINE before(x) == Before(S, rank, x)
           N == Cardinality(S)
           place == [x \in S |-> Cardinality(before(x)) + 1]
<1>1. IsFiniteSet(S) /\ N \in Nat BY FS_CardinalityType DEF Ranks
<1>2. ASSUME NEW x \in S
      PROVE  /\ before(x) \subseteq S /\ IsFiniteSet(before(x))
             /\ Cardinality(before(x)) \in Nat /\ x \notin before(x)
  <2>1. before(x) \subseteq S BY DEF Before
  <2>2. x \notin before(x) BY DEF Before, Ranks
  <2> QED BY <1>1, <2>1, <2>2, FS_Subset, FS_CardinalityType
<1>3. ASSUME NEW x \in S, NEW T, before(x) \subseteq T, T \subseteq S, x \in T
      PROVE  Cardinality(before(x)) < Cardinality(T)
  <2>1. IsFiniteSet(T) /\ Cardinality(T) \in Nat
    BY <1>1, <1>3, FS_Subset, FS_CardinalityType
  <2>2. /\ Cardinality(before(x)) <= Cardinality(T)
        /\ Cardinality(T) = Cardinality(before(x)) => T = before(x)
    BY <1>3, <2>1, FS_Subset
  <2> QED BY <1>2, <1>3, <2>1, <2>2
<1>4. \A x \in S : Cardinality(before(x)) + 1 \in 1 .. N BY <1>1, <1>2, <1>3
<1>5. place \in [S -> 1 .. N] BY <1>4
<1>6. ASSUME NEW x \in S, NEW y \in S, rank[x] < rank[y]
      PROVE  Cardinality(before(x)) < Cardinality(before(y))
  <2>1. before(x) \subseteq before(y) /\ x \in before(y) BY <1>6 DEF Before, Ranks
  <2> QED BY <1>2, <1>3, <2>1
<1>7. ASSUME NEW x \in S, NEW y \in S, rank[x] < rank[y] PROVE place[x] # place[y]
  BY <1>2, <1>6, <1>7
<1> HIDE DEF before, place, N
<1>8. ASSUME NEW x \in S, NEW y \in S, place[x] = place[y] PROVE x = y
  <2>1. ~ (rank[x] < rank[y]) /\ ~ (rank[y] < rank[x]) BY <1>7, <1>8
  <2> QED BY <2>1 DEF Ranks
<1>9. place \in Injection(S, 1 .. N) BY <1>5, <1>8 DEF Injection, IsInjective
<1>10. IsFiniteSet(1 .. N) /\ Cardinality(1 .. N) = N BY <1>1, FS_Interval
<1>11. place \in Surjection(S, 1 .. N) BY <1>1, <1>9, <1>10, FS_Injection DEF N
<1>12. ASSUME NEW n \in 1 .. N PROVE \E x \in S : Cardinality(before(x)) = n - 1
  <2>1. \E x \in S : place[x] = n BY <1>11 DEF Surjection
  <2>2. PICK x \in S : place[x] = n BY <2>1
  <2>3. Cardinality(before(x)) = n - 1 BY <1>2, <2>2 DEF place
  <2> QED BY <2>3
<1> QED BY <1>1, <1>2, <1>4, <1>6, <1>12 DEF before, N

\* Sorting a set gives its members, each once, by rank.
LEMMA Sorted ==
  ASSUME NEW S, NEW rank, Ranks(rank, S)
  PROVE  Sorts(SortedBy(S, rank), S, rank)
<1> DEFINE before(x) == Before(S, rank, x)
           N == Cardinality(S)
           W(n) == CHOOSE x \in S : Cardinality(before(x)) = n - 1
           list == SortedBy(S, rank)
<1>1. /\ N \in Nat
      /\ \A n \in 1 .. N : \E x \in S : Cardinality(before(x)) = n - 1
      /\ \A x \in S : Cardinality(before(x)) \in Nat /\ Cardinality(before(x)) + 1 \in 1 .. N
      /\ \A x, y \in S : rank[x] < rank[y] => Cardinality(before(x)) < Cardinality(before(y))
  BY PlacesTaken
<1>2. list = [n \in 1 .. N |-> W(n)] BY DEF SortedBy, Before
<1> HIDE DEF before, list, N
<1>3. ASSUME NEW n \in 1 .. N
      PROVE  list[n] \in S /\ Cardinality(before(list[n])) = n - 1
  <2>1. W(n) \in S /\ Cardinality(before(W(n))) = n - 1 BY <1>1
  <2> HIDE DEF W
  <2> QED BY <1>2, <2>1
<1>4. list \in [1 .. N -> S]
  <2> HIDE DEF W
  <2> QED BY <1>2, <1>3
<1>5. ASSUME NEW x \in S, NEW y \in S, Cardinality(before(x)) = Cardinality(before(y))
      PROVE  x = y
  <2>1. Cardinality(before(x)) \in Nat BY <1>1
  <2>2. ~ (rank[x] < rank[y]) /\ ~ (rank[y] < rank[x]) BY <1>1, <1>5, <2>1
  <2> QED BY <2>2 DEF Ranks
<1>6. ASSUME NEW x \in S PROVE \E n \in 1 .. N : list[n] = x
  <2> DEFINE n == Cardinality(before(x)) + 1
  <2>1. n \in 1 .. N /\ Cardinality(before(x)) = n - 1
    <3> HIDE DEF before
    <3>1. Cardinality(before(x)) \in Nat /\ Cardinality(before(x)) + 1 \in 1 .. N BY <1>1
    <3> QED BY <3>1
  <2>2. Cardinality(before(list[n])) = n - 1 BY <1>3, <2>1
  <2> HIDE DEF n
  <2>3. list[n] = x BY <1>3, <1>5, <2>1, <2>2
  <2> QED BY <2>1, <2>3
<1>7. ASSUME NEW m \in 1 .. N, NEW n \in 1 .. N, m < n
      PROVE  rank[list[m]] < rank[list[n]]
  <2>1. /\ list[m] \in S /\ Cardinality(before(list[m])) = m - 1
        /\ list[n] \in S /\ Cardinality(before(list[n])) = n - 1
    BY <1>3
  <2>2. ~ (rank[list[n]] < rank[list[m]])
    <3>1. ~ (Cardinality(before(list[n])) < Cardinality(before(list[m]))) BY <1>7, <2>1
    <3> QED BY <1>1, <2>1, <3>1
  <2>3. rank[list[n]] # rank[list[m]]
    <3>1. list[n] # list[m] BY <1>7, <2>1
    <3> QED BY <2>1, <3>1 DEF Ranks
  <2>4. rank[list[n]] \in Int /\ rank[list[m]] \in Int BY <2>1 DEF Ranks
  <2> QED BY <2>2, <2>3, <2>4
<1> QED BY <1>1, <1>4, <1>6, <1>7 DEF Sorts, list, N

-----------------------------------------------------------------------------
(* Merging.  A path is below another as a sequence begins with another.    *)

\* One path begins with another when it is as long and has its elements.
LEMMA PrefixTells ==
  ASSUME NEW p \in Seq(STRING), NEW q \in Seq(STRING)
  PROVE  IsPrefix(p, q) <=>
           Len(p) <= Len(q) /\ \A i \in 1 .. Len(p) : p[i] = q[i]
<1>1. ASSUME Len(p) <= Len(q)
      PROVE  SubSeq(q, 1, Len(p)) = [i \in 1 .. Len(p) |-> q[i]]
  BY <1>1
<1>2. p = [i \in 1 .. Len(p) |-> p[i]] OBVIOUS
<1>3. ASSUME Len(p) <= Len(q)
      PROVE  SubSeq(q, 1, Len(p)) = p <=> \A i \in 1 .. Len(p) : p[i] = q[i]
  BY <1>1, <1>2, <1>3
<1> QED BY <1>3 DEF IsPrefix

\* What is below a path that is below another is below that.
LEMMA BelowBelow ==
  ASSUME NEW p \in Seq(STRING), NEW q \in Seq(STRING), NEW r \in Seq(STRING),
         IsStrictPrefix(p, q), IsStrictPrefix(q, r)
  PROVE  IsStrictPrefix(p, r)
<1>1. /\ Len(p) <= Len(q) /\ \A i \in 1 .. Len(p) : p[i] = q[i]
      /\ Len(q) <= Len(r) /\ \A i \in 1 .. Len(q) : q[i] = r[i]
  BY PrefixTells DEF IsStrictPrefix
<1>2. Len(p) <= Len(r) /\ \A i \in 1 .. Len(p) : p[i] = r[i]
  BY <1>1
<1>3. p # r
  <2> SUFFICES ASSUME p = r PROVE FALSE OBVIOUS
  <2>1. Len(p) = Len(q) BY <1>1
  <2>2. p = q BY <1>1, <2>1
  <2> QED BY <2>2 DEF IsStrictPrefix
<1> QED BY <1>2, <1>3, PrefixTells DEF IsStrictPrefix

\* Of two paths above one, one is above the other.
LEMMA AboveMeets ==
  ASSUME NEW p \in Seq(STRING), NEW q \in Seq(STRING), NEW r \in Seq(STRING),
         IsStrictPrefix(p, r), IsStrictPrefix(q, r)
  PROVE  Meets(p, q)
<1>1. /\ Len(p) <= Len(r) /\ \A i \in 1 .. Len(p) : p[i] = r[i]
      /\ Len(q) <= Len(r) /\ \A i \in 1 .. Len(q) : q[i] = r[i]
  BY PrefixTells DEF IsStrictPrefix
<1>2. CASE Len(p) <= Len(q)
  <2>1. IsPrefix(p, q) BY <1>1, <1>2, PrefixTells
  <2> QED BY <2>1 DEF Meets, IsStrictPrefix
<1>3. CASE Len(q) <= Len(p)
  <2>1. IsPrefix(q, p) BY <1>1, <1>3, PrefixTells
  <2> QED BY <2>1 DEF Meets, IsStrictPrefix
<1>4. Len(p) <= Len(q) \/ Len(q) <= Len(p) OBVIOUS
<1> QED BY <1>2, <1>3, <1>4

\* The override puts something that is no object above the path.
Covered(override, path) ==
  \E other \in DOMAIN override :
    IsStrictPrefix(other, path) /\ "empty object" \notin override[other]

\* A merge keeps the fields of the base that the override does not cover, and has
\* the override's.
LEMMA MergeKeeps ==
  ASSUME NEW base, NEW override, NEW path \in Seq(STRING),
         DOMAIN base \subseteq Seq(STRING), DOMAIN override \subseteq Seq(STRING)
  PROVE  LET merged == DeepMerge(base, override)
         IN /\ DOMAIN merged \subseteq Seq(STRING)
            /\ HasField(base, path) =>
                 HasField(merged, path) \/ Covered(override, path)
            /\ path \in DOMAIN override =>
                 HasField(merged, path) \/ Covered(override, path)
<1> DEFINE W == Written(base, override)
           K == { p \in DOMAIN base : \A w \in W : ~ Meets(p, w) }
           merged == DeepMerge(base, override)
<1>1. DOMAIN merged = K \cup W BY DEF DeepMerge
<1>2. /\ K \subseteq DOMAIN base /\ W \subseteq DOMAIN override
      /\ \A w \in DOMAIN override :
           w \in W <=> ~ ("empty object" \in override[w] /\ IsObject(base, w))
  BY DEF Written
<1>3. \A p \in DOMAIN base \ K : \E w \in W : Meets(p, w) OBVIOUS
<1> HIDE DEF W, K, merged
<1>4. ASSUME NEW w \in W, NEW leaf \in DOMAIN base,
             IsStrictPrefix(w, leaf), IsStrictPrefix(w, path)
      PROVE  Covered(override, path)
  BY <1>2, <1>4 DEF IsObject, Covered
<1>5. ASSUME NEW leaf \in DOMAIN base, leaf = path \/ IsStrictPrefix(path, leaf)
      PROVE  HasField(merged, path) \/ Covered(override, path)
  <2>1. CASE leaf \in K BY <1>1, <1>5, <2>1 DEF HasField, IsObject
  <2>2. CASE leaf \notin K
    <3>1. PICK w \in W : Meets(leaf, w) BY <1>3, <2>2
    <3>2. w \in Seq(STRING) /\ leaf \in Seq(STRING) /\ w \in DOMAIN merged BY <1>1, <1>2
    <3>3. CASE w = leaf BY <1>5, <3>2, <3>3 DEF HasField, IsObject
    <3>4. CASE IsStrictPrefix(leaf, w)
      <4>1. IsStrictPrefix(path, w) BY <1>5, <3>2, <3>4, BelowBelow
      <4> QED BY <3>2, <4>1 DEF HasField, IsObject
    <3>5. CASE IsStrictPrefix(w, leaf)
      <4>1. Meets(path, w) BY <1>5, <3>2, <3>5, AboveMeets DEF Meets
      <4>2. CASE path = w BY <3>2, <4>2 DEF HasField
      <4>3. CASE IsStrictPrefix(path, w) BY <3>2, <4>3 DEF HasField, IsObject
      <4>4. CASE IsStrictPrefix(w, path) BY <1>4, <3>5, <4>4
      <4> QED BY <4>1, <4>2, <4>3, <4>4 DEF Meets
    <3> QED BY <3>1, <3>3, <3>4, <3>5 DEF Meets
  <2> QED BY <2>1, <2>2
<1>6. HasField(base, path) => HasField(merged, path) \/ Covered(override, path)
  BY <1>5 DEF HasField, IsObject
<1>7. ASSUME path \in DOMAIN override
      PROVE  HasField(merged, path) \/ Covered(override, path)
  <2>1. CASE path \in W BY <1>1, <2>1 DEF HasField
  <2>2. CASE path \notin W
    <3>1. HasField(base, path) BY <1>2, <1>7, <2>2 DEF HasField
    <3> QED BY <1>6, <3>1
  <2> QED BY <2>1, <2>2
<1> QED BY <1>1, <1>2, <1>6, <1>7 DEF merged

-----------------------------------------------------------------------------
(* One boundary.  Rules are well-formed and heard as NotWeakened says; an  *)
(* effective rule is sound for the rules resolved so far.                  *)

RuleTyped(rule) ==
  /\ {"boundaryKey", "enabled", "enforcement", "overridePolicy", "value"} \subseteq DOMAIN rule
  /\ rule.enabled \in BOOLEAN
  /\ rule.enforcement \in DOMAIN EnforcementStrength
  /\ rule.overridePolicy \in DOMAIN PolicyStrength
  /\ DOMAIN rule.value \subseteq Seq(STRING)

\* The rules of a boundary, in order.
Chained(ordered, N, b) ==
  /\ DOMAIN ordered = 1 .. N /\ Len(ordered) = N
  /\ \A i \in 1 .. N : /\ RuleTyped(ordered[i]) /\ ordered[i].boundaryKey = b
                       /\ ValueTyped(ordered[i].value)

\* Rule e is as strong as rule r asks for.
Upholds(e, r) ==
  /\ EnforcementStrength[r.enforcement] <= EnforcementStrength[e.enforcement]
  /\ StrengthOf(r) <= StrengthOf(e)
  /\ r.enforcement = "mandatory" /\ r.enabled => e.enabled

\* It has the fields of the rule at i, if that could only be strengthened.
Keeps(ordered, i, e) ==
  ordered[i].overridePolicy # "allow" =>
    \A path \in DOMAIN ordered[i].value :
      HasField(e.value, path) \/ Overwritten(ordered, i, path)

Denying(ordered, i) == ordered[i].overridePolicy = "deny"

SoundUpTo(ordered, i, e) ==
  /\ RuleTyped(e) /\ e.boundaryKey = ordered[1].boundaryKey
  /\ e.overridePolicy = "deny" <=> \E j \in 1 .. i : Denying(ordered, j)
  /\ \A j \in 1 .. i : IF \E k \in 1 .. j - 1 : Denying(ordered, k)
                       THEN NoEffectiveChange(e, ordered[j])
                       ELSE Upholds(e, ordered[j]) /\ Keeps(ordered, j, e)

\* An override that is not refused upholds the current rule and the incoming one.
LEMMA OverrideUpholds ==
  ASSUME NEW e, NEW r, RuleTyped(e), RuleTyped(r),
         ~ OverrideRefused(e, r), e.overridePolicy # "deny"
  PROVE  LET f == EffectiveAfter(e, r)
         IN /\ RuleTyped(f) /\ f.boundaryKey = r.boundaryKey
            /\ f.overridePolicy = "deny" <=> r.overridePolicy = "deny"
            /\ Upholds(f, r)
            /\ \A p : RuleTyped(p) /\ p.overridePolicy # "deny" /\ Upholds(e, p)
                        => Upholds(f, p) /\ (p.overridePolicy # "allow"
                                               => e.overridePolicy = "strengthen")
            /\ \A path \in Seq(STRING) :
                 \/ path \in DOMAIN r.value
                 \/ e.overridePolicy = "strengthen" /\ HasField(e.value, path)
                 => HasField(f.value, path) \/ Covered(r.value, path)
<1> DEFINE S == IF e.overridePolicy = "strengthen" THEN "deep-merge" ELSE r.mergeStrategy
           f == ApplyOverride(e, r, S)
<1>1. e.overridePolicy \in {"allow", "strengthen"}
  BY DEF RuleTyped, PolicyStrength
<1>2. EffectiveAfter(e, r) = f
  BY <1>1 DEF EffectiveAfter, OverrideAction
<1>3. /\ DOMAIN f = DOMAIN r
      /\ f.boundaryKey = r.boundaryKey /\ f.enabled = r.enabled
      /\ f.enforcement = Stronger(EnforcementStrength, e.enforcement, r.enforcement)
      /\ f.overridePolicy = Stronger(PolicyStrength, e.overridePolicy, r.overridePolicy)
      /\ f.value = IF S = "deep-merge" THEN DeepMerge(e.value, r.value) ELSE r.value
  BY DEF ApplyOverride, RuleTyped
<1> HIDE DEF f
<1>4. /\ e.enforcement \in {"optional", "default", "mandatory"}
      /\ r.enforcement \in {"optional", "default", "mandatory"}
      /\ r.overridePolicy \in {"allow", "strengthen", "deny"}
  BY DEF RuleTyped, EnforcementStrength, PolicyStrength
<1>5. /\ f.enforcement \in {e.enforcement, r.enforcement}
      /\ EnforcementStrength[e.enforcement] <= EnforcementStrength[f.enforcement]
      /\ EnforcementStrength[r.enforcement] <= EnforcementStrength[f.enforcement]
  BY <1>3, <1>4 DEF Stronger, EnforcementStrength
<1>6. /\ f.overridePolicy \in {e.overridePolicy, r.overridePolicy}
      /\ StrengthOf(e) <= StrengthOf(f) /\ StrengthOf(r) <= StrengthOf(f)
      /\ f.overridePolicy = "deny" <=> r.overridePolicy = "deny"
  BY <1>1, <1>3, <1>4 DEF Stronger, PolicyStrength, StrengthOf
<1>7. DOMAIN e.value \subseteq Seq(STRING) /\ DOMAIN r.value \subseteq Seq(STRING)
  BY DEF RuleTyped
<1>8. /\ DOMAIN f.value \subseteq Seq(STRING)
      /\ \A path \in Seq(STRING) :
           \/ path \in DOMAIN r.value
           \/ e.overridePolicy = "strengthen" /\ HasField(e.value, path)
           => HasField(f.value, path) \/ Covered(r.value, path)
  <2>1. CASE S = "deep-merge"
    <3>1. f.value = DeepMerge(e.value, r.value) BY <1>3, <2>1
    <3>2. << >> \in Seq(STRING) OBVIOUS
    <3> HIDE DEF S
    <3> QED BY <1>7, <3>1, <3>2, MergeKeeps
  <2>2. CASE S # "deep-merge"
    <3>1. f.value = r.value /\ e.overridePolicy # "strengthen" BY <1>3, <2>2
    <3> QED BY <1>7, <3>1 DEF HasField
  <2> QED BY <2>1, <2>2
<1>9. Upholds(f, r) /\ RuleTyped(f)
  BY <1>3, <1>5, <1>6, <1>8 DEF Upholds, RuleTyped
<1>10. ASSUME NEW p, RuleTyped(p), p.overridePolicy # "deny", Upholds(e, p)
       PROVE  Upholds(f, p) /\ (p.overridePolicy # "allow" => e.overridePolicy = "strengthen")
  <2>1. /\ p.enforcement \in {"optional", "default", "mandatory"}
        /\ p.overridePolicy \in {"allow", "strengthen"}
    BY <1>10 DEF RuleTyped, EnforcementStrength, PolicyStrength
  <2>2. EnforcementStrength[p.enforcement] <= EnforcementStrength[f.enforcement]
    BY <1>4, <1>5, <1>10, <2>1 DEF Upholds, EnforcementStrength
  <2>3. StrengthOf(p) <= StrengthOf(f)
    BY <1>1, <1>4, <1>6, <1>10, <2>1 DEF Upholds, StrengthOf, PolicyStrength
  <2>4. ASSUME p.enforcement = "mandatory", p.enabled PROVE f.enabled
    <3>1. e.enforcement = "mandatory" BY <1>4, <1>10, <2>4 DEF Upholds, EnforcementStrength
    <3>2. r.enabled BY <3>1 DEF OverrideRefused, RuleTyped
    <3> QED BY <3>2, <1>3
  <2>5. p.overridePolicy # "allow" => e.overridePolicy = "strengthen"
    BY <1>1, <1>10, <2>1 DEF Upholds, StrengthOf, PolicyStrength
  <2> QED BY <2>2, <2>3, <2>4, <2>5 DEF Upholds
<1> QED BY <1>2, <1>3, <1>6, <1>8, <1>9, <1>10

\* One more rule.
LEMMA SoundAfter ==
  ASSUME NEW N \in Nat, NEW b, NEW ordered, Chained(ordered, N, b),
         NEW i \in 1 .. N, i + 1 \in 1 .. N, NEW e,
         SoundUpTo(ordered, i, e), ~ OverrideRefused(e, ordered[i + 1])
  PROVE  SoundUpTo(ordered, i + 1, EffectiveAfter(e, ordered[i + 1]))
<1> DEFINE r == ordered[i + 1]
           f == EffectiveAfter(e, r)
<1>1. /\ RuleTyped(r) /\ r.boundaryKey = b /\ ValueTyped(r.value)
      /\ ordered[1].boundaryKey = b /\ 1 \in 1 .. N
  BY DEF Chained
<1>2. \A j \in 1 .. i : RuleTyped(ordered[j]) BY DEF Chained
<1>3. 1 .. i + 1 = (1 .. i) \cup {i + 1} /\ (i + 1) - 1 = i OBVIOUS
<1>4. \A j \in 1 .. i : 1 .. j - 1 \subseteq 1 .. i OBVIOUS
<1>5. CASE e.overridePolicy = "deny"
  <2>1. f = e BY <1>5 DEF EffectiveAfter, OverrideAction
  <2>2. NoEffectiveChange(e, r) BY <1>5 DEF OverrideRefused
  <2>3. \E k \in 1 .. i : Denying(ordered, k) BY <1>5 DEF SoundUpTo
  <2>4. e.overridePolicy = "deny" <=> \E j \in 1 .. i + 1 : Denying(ordered, j)
    BY <1>3, <1>5, <2>3
  <2>5. ASSUME NEW j \in 1 .. i + 1
        PROVE  IF \E k \in 1 .. j - 1 : Denying(ordered, k)
               THEN NoEffectiveChange(e, ordered[j])
               ELSE Upholds(e, ordered[j]) /\ Keeps(ordered, j, e)
    <3>1. CASE j = i + 1 BY <1>3, <2>2, <2>3, <3>1
    <3>2. CASE j \in 1 .. i BY <3>2 DEF SoundUpTo
    <3> QED BY <1>3, <3>1, <3>2
  <2>6. SoundUpTo(ordered, i + 1, e)
    BY <2>4, <2>5 DEF SoundUpTo
  <2> QED BY <2>1, <2>6
<1>6. CASE e.overridePolicy # "deny"
  <2>1. \A k \in 1 .. i : ~ Denying(ordered, k) BY <1>6 DEF SoundUpTo
  <2>2. \A j \in 1 .. i : ~ (\E k \in 1 .. j - 1 : Denying(ordered, k))
    BY <1>4, <2>1
  <2>3. \A j \in 1 .. i : Upholds(e, ordered[j]) /\ Keeps(ordered, j, e)
    BY <2>2 DEF SoundUpTo
  <2>4. RuleTyped(e) BY DEF SoundUpTo
  <2>5. /\ RuleTyped(f) /\ f.boundaryKey = r.boundaryKey
        /\ f.overridePolicy = "deny" <=> r.overridePolicy = "deny"
        /\ Upholds(f, r)
        /\ \A p : RuleTyped(p) /\ p.overridePolicy # "deny" /\ Upholds(e, p)
                    => Upholds(f, p) /\ (p.overridePolicy # "allow"
                                           => e.overridePolicy = "strengthen")
        /\ \A path \in Seq(STRING) :
             \/ path \in DOMAIN r.value
             \/ e.overridePolicy = "strengthen" /\ HasField(e.value, path)
             => HasField(f.value, path) \/ Covered(r.value, path)
    BY <1>1, <1>6, <2>4, OverrideUpholds
  <2>6. \A j \in 1 .. i :
          Upholds(f, ordered[j]) /\ (ordered[j].overridePolicy # "allow"
                                       => e.overridePolicy = "strengthen")
    BY <1>2, <2>1, <2>3, <2>5 DEF Denying
  <2> HIDE DEF f
  <2>10. i + 1 \in Heard(ordered)
    <3>1. DOMAIN ordered = 1 .. N BY DEF Chained
    <3> QED BY <1>3, <2>1, <3>1 DEF Heard, Denying
  <2>11. ASSUME NEW j \in 1 .. i, NEW path \in Seq(STRING), Covered(r.value, path)
         PROVE  Overwritten(ordered, j, path)
    <3>1. i + 1 > j OBVIOUS
    <3> QED BY <2>10, <2>11, <3>1 DEF Covered, Overwritten
  <2>12. ASSUME NEW j \in 1 .. i PROVE Keeps(ordered, j, f)
    <3> SUFFICES ASSUME ordered[j].overridePolicy # "allow",
                        NEW path \in DOMAIN ordered[j].value
                 PROVE  HasField(f.value, path) \/ Overwritten(ordered, j, path)
      BY DEF Keeps
    <3>1. path \in Seq(STRING) BY <1>2 DEF RuleTyped
    <3>2. e.overridePolicy = "strengthen" BY <2>6
    <3>3. HasField(e.value, path) \/ Overwritten(ordered, j, path) BY <2>3 DEF Keeps
    <3>4. HasField(e.value, path) => HasField(f.value, path) \/ Covered(r.value, path)
      BY <2>5, <3>1, <3>2
    <3> QED BY <2>11, <3>1, <3>3, <3>4
  <2>13. Keeps(ordered, i + 1, f)
    <3> SUFFICES ASSUME NEW path \in DOMAIN r.value PROVE HasField(f.value, path)
      BY DEF Keeps
    <3>1. path \in Seq(STRING) BY <1>1 DEF RuleTyped
    <3>2. HasField(f.value, path) \/ Covered(r.value, path) BY <2>5, <3>1
    <3>3. ~ Covered(r.value, path) BY <1>1 DEF ValueTyped, IsObject, Covered
    <3> QED BY <3>2, <3>3
  <2>7. f.overridePolicy = "deny" <=> \E j \in 1 .. i + 1 : Denying(ordered, j)
    BY <1>3, <2>1, <2>5 DEF Denying
  <2>8. ASSUME NEW j \in 1 .. i + 1
        PROVE  /\ ~ (\E k \in 1 .. j - 1 : Denying(ordered, k))
               /\ Upholds(f, ordered[j]) /\ Keeps(ordered, j, f)
    <3>1. CASE j = i + 1 BY <1>3, <2>1, <2>5, <2>13, <3>1
    <3>2. CASE j \in 1 .. i BY <2>2, <2>6, <2>12, <3>2
    <3> QED BY <1>3, <3>1, <3>2
  <2>9. SoundUpTo(ordered, i + 1, f)
    BY <1>1, <2>5, <2>7, <2>8 DEF SoundUpTo
  <2> QED BY <2>9 DEF f
<1> QED BY <1>5, <1>6

\* The chain of effective rules is the one its recursion describes.
LEMMA EffectiveRulesExist ==
  ASSUME NEW N \in Nat, NEW ordered, DOMAIN ordered = 1 .. N
  PROVE  EffectiveRules(ordered)
           = [i \in 1 .. N |-> IF i = 1 THEN ordered[1]
                               ELSE EffectiveAfter(EffectiveRules(ordered)[i - 1], ordered[i])]
<1> DEFINE T == { n \in Nat : \E g : g = [i \in 1 .. n |->
                    IF i = 1 THEN ordered[1] ELSE EffectiveAfter(g[i - 1], ordered[i])] }
<1>1. 0 \in T
  <2> DEFINE g == [i \in 1 .. 0 |-> ordered[1]]
  <2>1. g = [i \in 1 .. 0 |->
               IF i = 1 THEN ordered[1] ELSE EffectiveAfter(g[i - 1], ordered[i])]
    OBVIOUS
  <2> QED BY <2>1
<1>2. ASSUME NEW n \in Nat, n \in T PROVE n + 1 \in T
  <2>1. PICK g : g = [i \in 1 .. n |->
               IF i = 1 THEN ordered[1] ELSE EffectiveAfter(g[i - 1], ordered[i])]
    BY <1>2
  <2> DEFINE h == [i \in 1 .. n + 1 |->
               IF i = n + 1 THEN IF n = 0 THEN ordered[1] ELSE EffectiveAfter(g[n], ordered[i])
                            ELSE g[i]]
  <2>2. ASSUME NEW i \in 1 .. n + 1
        PROVE  h[i] = IF i = 1 THEN ordered[1] ELSE EffectiveAfter(h[i - 1], ordered[i])
    <3>1. CASE i = n + 1
      <4>1. CASE n = 0 BY <3>1, <4>1
      <4>2. CASE n # 0
        <5>1. h[i] = EffectiveAfter(g[n], ordered[i]) /\ i # 1 BY <3>1, <4>2
        <5>2. i - 1 = n /\ n \in 1 .. n + 1 /\ n # n + 1 BY <3>1, <4>2
        <5>3. h[i - 1] = g[n] BY <5>2
        <5> QED BY <5>1, <5>3
      <4> QED BY <4>1, <4>2
    <3>2. CASE i # n + 1
      <4>1. i \in 1 .. n /\ h[i] = g[i] BY <3>2
      <4>2. g[i] = IF i = 1 THEN ordered[1] ELSE EffectiveAfter(g[i - 1], ordered[i])
        BY <2>1, <4>1
      <4>3. ASSUME i # 1 PROVE h[i - 1] = g[i - 1]
        <5>1. i - 1 \in 1 .. n + 1 /\ i - 1 # n + 1 BY <4>1, <4>3
        <5> QED BY <5>1
      <4> HIDE DEF h
      <4> QED BY <4>1, <4>2, <4>3
    <3> QED BY <3>1, <3>2
  <2>3. h = [i \in 1 .. n + 1 |->
               IF i = 1 THEN ordered[1] ELSE EffectiveAfter(h[i - 1], ordered[i])]
    <3>1. h = [i \in 1 .. n + 1 |-> h[i]] OBVIOUS
    <3> HIDE DEF h
    <3> QED BY <2>2, <3>1
  <2>4. n + 1 \in Nat OBVIOUS
  <2> HIDE DEF h
  <2> QED BY <2>3, <2>4
<1> HIDE DEF T
<1>3. N \in T BY <1>1, <1>2, Induction
<1>4. \E g : g = [i \in DOMAIN ordered |->
               IF i = 1 THEN ordered[1] ELSE EffectiveAfter(g[i - 1], ordered[i])]
  BY <1>3 DEF T
<1> QED BY <1>4 DEF EffectiveRules

\* Whatever the rules of a boundary are, its effective rule is not weakened.
LEMMA BoundaryNotWeakened ==
  ASSUME NEW N \in Nat, N # 0, NEW b, NEW ordered, Chained(ordered, N, b),
         ResolveBoundary(ordered).ok
  PROVE  /\ NotWeakened(ordered, ResolveBoundary(ordered).rule)
         /\ ResolveBoundary(ordered).rule.boundaryKey = b
<1> DEFINE E == EffectiveRules(ordered)
<1>1. DOMAIN ordered = 1 .. N /\ Len(ordered) = N /\ ordered[1].boundaryKey = b
  BY DEF Chained
<1>2. E = [i \in 1 .. N |-> IF i = 1 THEN ordered[1]
                            ELSE EffectiveAfter(E[i - 1], ordered[i])]
  BY <1>1, EffectiveRulesExist
<1>3. /\ ResolveBoundary(ordered).rule = E[N]
      /\ \A i \in 2 .. N : ~ OverrideRefused(E[i - 1], ordered[i])
  BY <1>1 DEF ResolveBoundary, Refused
<1> HIDE DEF E
<1> DEFINE S == { i \in 1 .. N : SoundUpTo(ordered, i, E[i]) }
<1>4. 1 \in S
  <2>1. E[1] = ordered[1] /\ 1 \in 1 .. N BY <1>2
  <2>2. RuleTyped(ordered[1]) BY <2>1 DEF Chained
  <2>3. Upholds(ordered[1], ordered[1])
    BY <2>2 DEF Upholds, RuleTyped, StrengthOf, EnforcementStrength, PolicyStrength
  <2>4. Keeps(ordered, 1, ordered[1]) BY DEF Keeps, HasField
  <2>5. 1 .. 1 = {1} /\ 1 .. 1 - 1 = {} OBVIOUS
  <2> QED BY <2>1, <2>2, <2>3, <2>4, <2>5 DEF SoundUpTo, Denying
<1>5. ASSUME NEW n \in 1 .. N, n \in S, n + 1 \in 1 .. N PROVE n + 1 \in S
  <2>1. n + 1 \in 2 .. N /\ (n + 1) - 1 = n /\ n + 1 # 1 BY <1>5
  <2>2. ~ OverrideRefused(E[n], ordered[n + 1]) BY <1>3, <2>1
  <2>3. E[n + 1] = EffectiveAfter(E[n], ordered[n + 1]) BY <1>2, <1>5, <2>1
  <2>4. SoundUpTo(ordered, n + 1, E[n + 1]) BY <1>5, <2>2, <2>3, SoundAfter
  <2> QED BY <1>5, <2>4
<1> HIDE DEF S
<1>6. 1 .. N \subseteq S BY <1>4, <1>5, InductionTo
<1>7. SoundUpTo(ordered, N, E[N]) BY <1>6 DEF S
<1> DEFINE e == E[N]
<1>8. SoundUpTo(ordered, N, e) BY <1>7
<1> HIDE DEF e
<1>9. \A i \in DOMAIN ordered :
        i \in Heard(ordered) <=> ~ (\E k \in 1 .. i - 1 : Denying(ordered, k))
  BY DEF Heard, Denying
<1>10. NotWeakened(ordered, e)
  BY <1>1, <1>8, <1>9 DEF NotWeakened, SoundUpTo, Upholds, Keeps, Heard
<1> QED BY <1>1, <1>3, <1>8, <1>10 DEF SoundUpTo, e

-----------------------------------------------------------------------------
(* All layers *)

\* A precedence is a number, and levels with one precedence are one level.
LEMMA PrecedenceTells ==
  ASSUME NEW l \in DOMAIN SCOPE_PRECEDENCE, NEW m \in DOMAIN SCOPE_PRECEDENCE
  PROVE  /\ SCOPE_PRECEDENCE[l] \in Nat
         /\ SCOPE_PRECEDENCE[l] = SCOPE_PRECEDENCE[m] => l = m
<1> DEFINE P(k) == CHOOSE i \in 1 .. 5 : ScopeLevels[i] = k
<1>1. ASSUME NEW k \in DOMAIN SCOPE_PRECEDENCE
      PROVE  P(k) \in 1 .. 5 /\ ScopeLevels[P(k)] = k /\ SCOPE_PRECEDENCE[k] = 10 * (P(k) - 1)
  <2>1. \E i \in 1 .. 5 : ScopeLevels[i] = k BY <1>1 DEF SCOPE_PRECEDENCE
  <2>2. P(k) \in 1 .. 5 /\ ScopeLevels[P(k)] = k BY <2>1
  <2> QED BY <2>2, <1>1 DEF SCOPE_PRECEDENCE
<1> HIDE DEF P
<1>2. P(l) \in 1 .. 5 /\ SCOPE_PRECEDENCE[l] = 10 * (P(l) - 1) /\ ScopeLevels[P(l)] = l
  BY <1>1
<1>3. P(m) \in 1 .. 5 /\ SCOPE_PRECEDENCE[m] = 10 * (P(m) - 1) /\ ScopeLevels[P(m)] = m
  BY <1>1
<1> QED BY <1>2, <1>3

\* What resolution has accepted is a chain for every boundary.
LEMMA BoundaryChained ==
  ASSUME NEW layers, LayersTyped(layers), NEW context,
         ResolveKnowledge(layers, context).ok,
         NEW b \in { r.boundaryKey : r \in Candidates(layers) }
  PROVE  \E N \in Nat : N # 0 /\ Chained(Ordered(Candidates(layers), b), N, b)
<1> DEFINE C == Candidates(layers)
           at == { r \in C : r.boundaryKey = b }
           rank == [r \in at |-> SCOPE_PRECEDENCE[r.scope.level]]
           O == Ordered(C, b)
           N == Cardinality(at)
<1>1. Collected(layers, context) /\ NoSameLayerConflicts(C)
  BY DEF ResolveKnowledge, Refused
<1>2. ASSUME NEW r \in C
      PROVE  /\ RuleTyped(r) /\ ValueTyped(r.value)
             /\ r.scope.level \in DOMAIN SCOPE_PRECEDENCE
  <2>1. PICK layer \in layers : r \in layer.rules BY <1>2 DEF Candidates
  <2>2. Stored(layer, r, context) BY <1>1, <2>1 DEF Collected
  <2>3. r.scope.level = layer.level /\ ValidRule(r, context) BY <2>2 DEF Stored
  <2>4. ValueTyped(r.value) /\ DOMAIN r.value \subseteq Seq(STRING)
    BY <1>2 DEF LayersTyped, ValueTyped
  <2> QED BY <1>2, <2>1, <2>3, <2>4 DEF LayersTyped, RuleTyped, ValidRule
<1>3. IsFiniteSet(at) /\ N \in Nat /\ N # 0
  <2>1. IsFiniteSet(at) BY FS_Subset DEF LayersTyped
  <2>2. at # {} OBVIOUS
  <2> QED BY <2>1, <2>2, FS_CardinalityType, FS_EmptySet
<1>4. \A r, q \in at : r.scope.level = q.scope.level => r = q
  BY <1>1 DEF NoSameLayerConflicts
<1>5. Ranks(rank, at)
  <2>1. \A r \in at : rank[r] \in Int BY <1>2, PrecedenceTells
  <2>2. \A r, q \in at : rank[r] = rank[q] => r = q
    BY <1>2, <1>4, PrecedenceTells
  <2> QED BY <1>3, <2>1, <2>2 DEF Ranks
<1>6. /\ O \in [1 .. N -> at]
      /\ O = [i \in 1 .. N |-> O[i]]
  <2>1. O = SortedBy(at, rank) BY DEF Ordered
  <2> HIDE DEF O, rank
  <2> QED BY <1>5, <2>1, Sorted DEF Sorts
<1> HIDE DEF O
<1>7. \A i \in 1 .. N :
        RuleTyped(O[i]) /\ O[i].boundaryKey = b /\ ValueTyped(O[i].value)
  BY <1>2, <1>6
<1>8. DOMAIN O = 1 .. N /\ Len(O) = N
  <2> HIDE DEF N
  <2>1. O \in Seq(at) /\ Len(O) = N BY <1>3, <1>6
  <2> QED BY <1>6, <2>1
<1>9. Chained(O, N, b) BY <1>7, <1>8 DEF Chained
<1> HIDE DEF N
<1> QED BY <1>3, <1>9 DEF O, C

\* What resolution promises of a boundary, and that one rule is left of each.
Resolved(layers, answer) ==
  /\ \A e \in answer.rules : NotWeakened(Ordered(Candidates(layers), e.boundaryKey), e)
  /\ \A e, f \in answer.rules : e.boundaryKey = f.boundaryKey => e = f

\* Resolution keeps that promise.
LEMMA ResolutionSound ==
  ASSUME NEW layers, LayersTyped(layers), NEW context,
         ResolveKnowledge(layers, context).ok
  PROVE  Resolved(layers, ResolveKnowledge(layers, context))
<1> DEFINE C == Candidates(layers)
           B == { r.boundaryKey : r \in C }
           A(b) == ResolveBoundary(Ordered(C, b))
           answer == ResolveKnowledge(layers, context)
<1>1. /\ answer.rules = { A(b).rule : b \in B }
      /\ \A b \in B : A(b).ok
  BY DEF ResolveKnowledge, Refused
<1>2. ASSUME NEW b \in B
      PROVE  NotWeakened(Ordered(C, b), A(b).rule) /\ A(b).rule.boundaryKey = b
  <2>1. PICK N \in Nat : N # 0 /\ Chained(Ordered(C, b), N, b) BY BoundaryChained
  <2>2. A(b).ok BY <1>1
  <2> QED BY <2>1, <2>2, BoundaryNotWeakened
<1> HIDE DEF A, C, B, answer
<1>3. ASSUME NEW e \in answer.rules
      PROVE  e.boundaryKey \in B /\ e = A(e.boundaryKey).rule
  BY <1>1, <1>2
<1>4. \A e \in answer.rules : NotWeakened(Ordered(C, e.boundaryKey), e) BY <1>2, <1>3
<1> QED BY <1>3, <1>4 DEF Resolved, C, answer

-----------------------------------------------------------------------------
(* Planning.  The passes that remove what is not supported take away       *)
(* something or change nothing any more, so that as many passes as there   *)
(* are candidates end with the largest set that supports itself.           *)

\* What a pass leaves.
LeftBy(request, active) == { c \in active : Supported(request, c, active) }

\* A support is one in every larger set.
LEMMA SupportGrows ==
  ASSUME NEW request, NEW small, NEW large, small \subseteq large, NEW c,
         Supported(request, c, small)
  PROVE  Supported(request, c, large)
  BY DEF Supported, FindDependencyRecords

\* The passes are those their recursion describes.
LEMMA PassesExist ==
  ASSUME NEW request, NEW prepared, IsFiniteSet(prepared)
  PROVE  Passes(request, prepared)
           = [n \in 0 .. Cardinality(prepared) |->
                IF n = 0 THEN prepared
                ELSE LeftBy(request, Passes(request, prepared)[n - 1])]
<1> DEFINE N == Cardinality(prepared)
           step == [n \in 1 .. N |-> [x \in SUBSET prepared |-> LeftBy(request, x)]]
<1>1. N \in Nat /\ prepared \in SUBSET prepared BY FS_CardinalityType
<1>2. step \in [1 .. N -> [SUBSET prepared -> SUBSET prepared]] BY DEF LeftBy
<1>3. \A n \in 1 .. N : \A x \in SUBSET prepared : step[n][x] = LeftBy(request, x) OBVIOUS
<1> HIDE DEF N, step
<1>4. PICK g : Iterates(g, SUBSET prepared, prepared, step, N)
  BY <1>1, <1>2, RecursionExists
<1>5. ASSUME NEW n \in 0 .. N
      PROVE  g[n] = IF n = 0 THEN prepared ELSE LeftBy(request, g[n - 1])
  <2>1. n # 0 => n \in 1 .. N /\ n - 1 \in 0 .. N BY <1>1
  <2> QED BY <1>3, <1>4, <2>1 DEF Iterates
<1>6. g = [n \in 0 .. N |-> IF n = 0 THEN prepared ELSE LeftBy(request, g[n - 1])]
  <2>1. g = [n \in 0 .. N |-> g[n]] BY <1>4 DEF Iterates
  <2> QED BY <1>5, <2>1
<1>7. \E f : f = [n \in 0 .. N |-> IF n = 0 THEN prepared ELSE LeftBy(request, f[n - 1])]
  BY <1>6
<1> QED BY <1>7 DEF Passes, LeftBy, N

\* Sets that only lose members, and each of which determines the next, are empty
\* or lose none any more after as many steps as the first has members.
LEMMA Settles ==
  ASSUME NEW base, IsFiniteSet(base), NEW N, N = Cardinality(base), NEW P, P[0] = base,
         \A n \in 0 .. N - 1 : P[n + 1] \subseteq P[n],
         \A m, n \in 0 .. N - 1 : P[m] = P[n] => P[m + 1] = P[n + 1]
  PROVE  \/ P[N] = {}
         \/ \E m \in 0 .. N - 1 : P[m + 1] = P[m] /\ P[m] = P[N]
<1> DEFINE Settled(n) == \E m \in 0 .. n - 1 : P[m + 1] = P[m] /\ P[m] = P[n]
           T == { n \in Nat : n <= N =>
                    /\ IsFiniteSet(P[n])
                    /\ Cardinality(P[n]) <= N - n \/ Settled(n) }
<1>1. N \in Nat BY FS_CardinalityType
<1>2. 0 \in T BY <1>1
<1>3. ASSUME NEW n \in Nat, n \in T PROVE n + 1 \in T
  <2> SUFFICES ASSUME n + 1 <= N
               PROVE  /\ IsFiniteSet(P[n + 1])
                      /\ Cardinality(P[n + 1]) <= N - (n + 1) \/ Settled(n + 1)
    BY <1>1
  <2>1. n \in 0 .. N - 1 /\ n <= N BY <1>1
  <2>2. IsFiniteSet(P[n]) /\ P[n + 1] \in SUBSET P[n] BY <1>3, <2>1
  <2>3. /\ IsFiniteSet(P[n + 1]) /\ Cardinality(P[n]) \in Nat
        /\ Cardinality(P[n + 1]) \in Nat /\ Cardinality(P[n + 1]) <= Cardinality(P[n])
        /\ Cardinality(P[n]) = Cardinality(P[n + 1]) => P[n] = P[n + 1]
    BY <2>2, FS_Subset, FS_CardinalityType
  <2>4. CASE P[n + 1] = P[n]
    <3>1. n \in 0 .. (n + 1) - 1 OBVIOUS
    <3> QED BY <2>3, <2>4, <3>1
  <2>5. CASE P[n + 1] # P[n] /\ Cardinality(P[n]) <= N - n
    BY <1>1, <2>3, <2>5
  <2>6. CASE Settled(n)
    <3>1. PICK m \in 0 .. n - 1 : P[m + 1] = P[m] /\ P[m] = P[n] BY <2>6
    <3>2. m \in 0 .. N - 1 /\ m \in 0 .. (n + 1) - 1 BY <1>1, <2>1
    <3>3. P[m + 1] = P[n + 1] BY <2>1, <3>1, <3>2
    <3> QED BY <2>3, <3>1, <3>2, <3>3
  <2> QED BY <1>3, <2>1, <2>4, <2>5, <2>6
<1> HIDE DEF T
<1>4. N \in T BY <1>1, <1>2, <1>3, Induction
<1>5. IsFiniteSet(P[N]) /\ (Cardinality(P[N]) <= N - N \/ Settled(N)) BY <1>1, <1>4 DEF T
<1>6. Cardinality(P[N]) <= 0 => P[N] = {} BY <1>5, FS_CardinalityType, FS_EmptySet
<1> QED BY <1>1, <1>5, <1>6

\* The passes end with the largest set of candidates that supports itself.
LEMMA LargestSupported ==
  ASSUME NEW request, NEW prepared, IsFiniteSet(prepared)
  PROVE  LET active == ResolveRequiredDependencies(request, prepared)
         IN /\ active \subseteq prepared /\ SelfSupporting(request, active)
            /\ \A s \in SUBSET prepared : SelfSupporting(request, s) => s \subseteq active
<1> DEFINE N == Cardinality(prepared)
           P == Passes(request, prepared)
<1>1. N \in Nat BY FS_CardinalityType
<1>2. P = [n \in 0 .. N |-> IF n = 0 THEN prepared ELSE LeftBy(request, P[n - 1])]
  BY PassesExist
<1>3. ResolveRequiredDependencies(request, prepared) = P[N]
  BY DEF ResolveRequiredDependencies
<1> HIDE DEF P, N
<1>4. P[0] = prepared BY <1>1, <1>2
<1>5. ASSUME NEW n \in 0 .. N - 1 PROVE P[n + 1] = LeftBy(request, P[n])
  <2>1. n + 1 \in 0 .. N /\ n + 1 # 0 /\ (n + 1) - 1 = n BY <1>1
  <2> QED BY <1>2, <2>1
<1>6. \A n \in 0 .. N - 1 : P[n + 1] \subseteq P[n] BY <1>5 DEF LeftBy
<1> DEFINE T == { n \in Nat : n <= N =>
                    /\ P[n] \subseteq prepared
                    /\ \A s \in SUBSET prepared : SelfSupporting(request, s) => s \subseteq P[n] }
<1>7. 0 \in T BY <1>4
<1>8. ASSUME NEW n \in Nat, n \in T PROVE n + 1 \in T
  <2> SUFFICES ASSUME n + 1 <= N
               PROVE  /\ P[n + 1] \subseteq prepared
                      /\ \A s \in SUBSET prepared :
                           SelfSupporting(request, s) => s \subseteq P[n + 1]
    OBVIOUS
  <2>1. n \in 0 .. N - 1 /\ n <= N BY <1>1
  <2>2. P[n + 1] \subseteq prepared BY <1>6, <1>8, <2>1
  <2>3. ASSUME NEW s \in SUBSET prepared, SelfSupporting(request, s)
        PROVE  s \subseteq P[n + 1]
    <3>1. s \subseteq P[n] BY <1>8, <2>1, <2>3
    <3>2. \A c \in s : Supported(request, c, P[n])
      BY <2>3, <3>1, SupportGrows DEF SelfSupporting
    <3> QED BY <1>5, <2>1, <3>1, <3>2 DEF LeftBy
  <2> QED BY <2>2, <2>3
<1> HIDE DEF T
<1>9. N \in T BY <1>1, <1>7, <1>8, Induction
<1>10. /\ P[N] \subseteq prepared
       /\ \A s \in SUBSET prepared : SelfSupporting(request, s) => s \subseteq P[N]
  BY <1>1, <1>9 DEF T
<1>11. \A m, n \in 0 .. N - 1 : P[m] = P[n] => P[m + 1] = P[n + 1] BY <1>5
<1>12. \/ P[N] = {}
       \/ \E m \in 0 .. N - 1 : P[m + 1] = P[m] /\ P[m] = P[N]
  BY <1>4, <1>6, <1>11, Settles DEF N
<1>13. SelfSupporting(request, P[N])
  <2>1. CASE P[N] = {} BY <2>1 DEF SelfSupporting
  <2>2. ASSUME NEW m \in 0 .. N - 1, P[m + 1] = P[m], P[m] = P[N]
        PROVE  SelfSupporting(request, P[N])
    <3>1. P[N] = LeftBy(request, P[N]) BY <1>5, <2>2
    <3> QED BY <3>1 DEF LeftBy, SelfSupporting
  <2> QED BY <1>12, <2>1, <2>2
<1> QED BY <1>3, <1>10, <1>13

\* So what is planned is what some set of usable candidates supports.
LEMMA PlannedIsSupportable ==
  ASSUME NEW request, IsFiniteSet(Usable(request))
  PROVE  ResolveRequiredDependencies(request, Usable(request)) = Supportable(request)
<1> DEFINE A == ResolveRequiredDependencies(request, Usable(request))
           U == Usable(request)
<1>1. /\ A \subseteq U /\ SelfSupporting(request, A)
      /\ \A s \in SUBSET U : SelfSupporting(request, s) => s \subseteq A
  BY LargestSupported
<1> HIDE DEF A, U
<1>2. UNION { s \in SUBSET U : SelfSupporting(request, s) } = A BY <1>1
<1> QED BY <1>2 DEF Supportable, A, U

-----------------------------------------------------------------------------
(* The topological order.  It leaves out intents exactly if some of them   *)
(* wait for each other.                                                    *)

Ids(intents) == { i.id : i \in intents }

\* What a pass takes in.
TakenIn(intents, done) == { i \in intents : i.dependencies \subseteq Ids(done) }

\* Some of the intents, each of which waits for one of them.
Waiting(intents) ==
  \E s \in SUBSET intents : s # {} /\ \A i \in s : i.dependencies \cap Ids(s) # {}

\* The topological order is the one its recursion describes.
LEMMA TopologicalPassesExist ==
  ASSUME NEW intents, IsFiniteSet(intents)
  PROVE  TopologicalPasses(intents)
           = [n \in 0 .. Cardinality(intents) |->
                IF n = 0 THEN {} ELSE TakenIn(intents, TopologicalPasses(intents)[n - 1])]
<1> DEFINE N == Cardinality(intents)
           step == [n \in 1 .. N |-> [x \in SUBSET intents |-> TakenIn(intents, x)]]
<1>1. N \in Nat /\ {} \in SUBSET intents BY FS_CardinalityType
<1>2. step \in [1 .. N -> [SUBSET intents -> SUBSET intents]] BY DEF TakenIn
<1>3. \A n \in 1 .. N : \A x \in SUBSET intents : step[n][x] = TakenIn(intents, x) OBVIOUS
<1> HIDE DEF N, step
<1>4. PICK g : Iterates(g, SUBSET intents, {}, step, N)
  BY <1>1, <1>2, RecursionExists
<1>5. ASSUME NEW n \in 0 .. N
      PROVE  g[n] = IF n = 0 THEN {} ELSE TakenIn(intents, g[n - 1])
  <2>1. n # 0 => n \in 1 .. N /\ n - 1 \in 0 .. N BY <1>1
  <2> QED BY <1>3, <1>4, <2>1 DEF Iterates
<1>6. g = [n \in 0 .. N |-> IF n = 0 THEN {} ELSE TakenIn(intents, g[n - 1])]
  <2>1. g = [n \in 0 .. N |-> g[n]] BY <1>4 DEF Iterates
  <2> QED BY <1>5, <2>1
<1>7. \E f : f = [n \in 0 .. N |-> IF n = 0 THEN {} ELSE TakenIn(intents, f[n - 1])]
  BY <1>6
<1> QED BY <1>7 DEF TopologicalPasses, TakenIn, Ids, N

\* An order is acyclic exactly if no intents wait for each other.
LEMMA AcyclicUnlessWaiting ==
  ASSUME NEW intents, IsFiniteSet(intents), Unambiguous(intents),
         \A i \in intents : i.dependencies \subseteq Ids(intents)
  PROVE  Acyclic(intents) <=> ~ Waiting(intents)
<1> DEFINE N == Cardinality(intents)
           O == TopologicalPasses(intents)
           P == [n \in 0 .. N |-> intents \ O[n]]
<1>1. N \in Nat BY FS_CardinalityType
<1>2. O = [n \in 0 .. N |-> IF n = 0 THEN {} ELSE TakenIn(intents, O[n - 1])]
  BY TopologicalPassesExist
<1>3. Acyclic(intents) <=> O[N] = intents BY DEF Acyclic
<1> HIDE DEF O, N
<1>4. O[0] = {} BY <1>1, <1>2
<1>5. ASSUME NEW n \in 0 .. N - 1 PROVE O[n + 1] = TakenIn(intents, O[n])
  <2>1. n + 1 \in 0 .. N /\ n + 1 # 0 /\ (n + 1) - 1 = n BY <1>1
  <2> QED BY <1>2, <2>1
<1>6. ASSUME NEW small, NEW large, small \subseteq large
      PROVE  TakenIn(intents, small) \subseteq TakenIn(intents, large)
  BY <1>6 DEF TakenIn, Ids
<1> DEFINE G == { n \in Nat : n <= N - 1 => O[n] \subseteq O[n + 1] }
<1>7. 0 \in G BY <1>4
<1>8. ASSUME NEW n \in Nat, n \in G PROVE n + 1 \in G
  <2> SUFFICES ASSUME n + 1 <= N - 1 PROVE O[n + 1] \subseteq O[(n + 1) + 1] OBVIOUS
  <2>1. n \in 0 .. N - 1 /\ n + 1 \in 0 .. N - 1 /\ n <= N - 1 BY <1>1
  <2>2. O[n] \subseteq O[n + 1] BY <1>8, <2>1
  <2>3. O[n + 1] = TakenIn(intents, O[n]) /\ O[(n + 1) + 1] = TakenIn(intents, O[n + 1])
    BY <1>5, <2>1
  <2> QED BY <1>6, <2>2, <2>3
<1> HIDE DEF G
<1>9. ASSUME NEW n \in 0 .. N - 1 PROVE O[n] \subseteq O[n + 1]
  <2>1. n \in Nat /\ n <= N - 1 BY <1>1
  <2> QED BY <1>7, <1>8, <2>1, Induction DEF G
<1>10. ASSUME NEW n \in 0 .. N PROVE O[n] \subseteq intents /\ P[n] = intents \ O[n]
  <2>1. CASE n = 0 BY <1>4, <1>10, <2>1
  <2>2. CASE n # 0 BY <1>2, <1>10, <2>2 DEF TakenIn
  <2> QED BY <2>1, <2>2
<1> HIDE DEF P
<1>11. ASSUME NEW n \in 0 .. N - 1 PROVE n \in 0 .. N /\ n + 1 \in 0 .. N BY <1>1
<1>12. N \in 0 .. N /\ 0 \in 0 .. N BY <1>1
<1>13. P[0] = intents BY <1>4, <1>10, <1>12
<1>14. \A n \in 0 .. N - 1 : P[n + 1] \subseteq P[n] BY <1>9, <1>10, <1>11
<1>15. ASSUME NEW m \in 0 .. N - 1, NEW n \in 0 .. N - 1, P[m] = P[n]
       PROVE  P[m + 1] = P[n + 1]
  <2>1. O[m] = O[n] BY <1>10, <1>11, <1>15
  <2>2. O[m + 1] = O[n + 1] BY <1>5, <2>1
  <2> QED BY <1>10, <1>11, <2>2
<1>16. \/ P[N] = {}
       \/ \E m \in 0 .. N - 1 : P[m + 1] = P[m] /\ P[m] = P[N]
  BY <1>13, <1>14, <1>15, Settles DEF N
<1>17. O[N] = intents \/ O[N] = TakenIn(intents, O[N])
  <2>1. CASE P[N] = {} BY <1>10, <1>12, <2>1
  <2>2. ASSUME NEW m \in 0 .. N - 1, P[m + 1] = P[m], P[m] = P[N]
        PROVE  O[N] = TakenIn(intents, O[N])
    <3>1. O[m + 1] = O[m] /\ O[m] = O[N] BY <1>10, <1>11, <1>12, <2>2
    <3> QED BY <1>5, <3>1
  <2> QED BY <1>16, <2>1, <2>2
<1>18. ASSUME ~ Waiting(intents) PROVE O[N] = intents
  <2> SUFFICES ASSUME O[N] # intents PROVE FALSE OBVIOUS
  <2> DEFINE s == intents \ O[N]
  <2>1. O[N] = TakenIn(intents, O[N]) BY <1>17
  <2>2. s \in SUBSET intents /\ s # {} BY <1>10, <1>12
  <2>3. ASSUME NEW i \in s PROVE i.dependencies \cap Ids(s) # {}
    <3>1. ~ (i.dependencies \subseteq Ids(O[N])) BY <2>1, <2>3 DEF TakenIn
    <3>2. PICK d \in i.dependencies : d \notin Ids(O[N]) BY <3>1
    <3>3. d \in Ids(intents) BY <2>3
    <3>4. PICK j \in intents : d = j.id BY <3>3 DEF Ids
    <3>5. j \in s BY <3>2, <3>4 DEF Ids
    <3>6. d \in Ids(s) BY <3>4, <3>5 DEF Ids
    <3> QED BY <3>6
  <2> HIDE DEF s
  <2> QED BY <1>18, <2>2, <2>3 DEF Waiting
<1>19. ASSUME Waiting(intents) PROVE O[N] # intents
  <2>1. PICK s \in SUBSET intents : s # {} /\ \A i \in s : i.dependencies \cap Ids(s) # {}
    BY <1>19 DEF Waiting
  <2> DEFINE H == { n \in Nat : n <= N => O[n] \cap s = {} }
  <2>2. 0 \in H BY <1>4
  <2>3. ASSUME NEW n \in Nat, n \in H PROVE n + 1 \in H
    <3> SUFFICES ASSUME n + 1 <= N, NEW i \in O[n + 1] \cap s PROVE FALSE OBVIOUS
    <3>1. n \in 0 .. N - 1 /\ n <= N BY <1>1
    <3>2. i.dependencies \subseteq Ids(O[n]) BY <1>5, <3>1 DEF TakenIn
    <3>3. PICK d \in i.dependencies : d \in Ids(s) BY <2>1
    <3>4. PICK j \in s : d = j.id BY <3>3 DEF Ids
    <3>5. PICK k \in O[n] : d = k.id BY <3>2 DEF Ids
    <3>6. O[n] \subseteq intents BY <1>10, <1>11, <3>1
    <3>7. j = k BY <3>4, <3>5, <3>6 DEF Unambiguous
    <3> QED BY <2>3, <3>1, <3>7
  <2> HIDE DEF H
  <2>4. N \in H BY <1>1, <2>2, <2>3, Induction
  <2>5. O[N] \cap s = {} BY <1>1, <2>4 DEF H
  <2> QED BY <2>1, <2>5
<1> QED BY <1>3, <1>18, <1>19

-----------------------------------------------------------------------------
(* Candidates and what is made of them *)

\* The rules of a snapshot are told apart by what documents name of them.
RulesTold(snapshot) ==
  \A r, s \in snapshot.rules : KnowledgeRef(r) = KnowledgeRef(s) => r = s

\* What planning may rely on in a request that is well-formed.
Plannable(request) ==
  /\ ValidPlanningRequest(request)
  /\ RulesTold(request.snapshot)
  /\ IsFiniteSet(EnumerateCandidates(request))

\* A request names finitely many candidates.
LEMMA CandidatesFinite ==
  ASSUME NEW request, NEW snapshot, RequestTyped(request, snapshot)
  PROVE  IsFiniteSet(EnumerateCandidates(request))
<1> DEFINE E == request.entries
           R == request.snapshot.rules
           T == request.inventory.targets
           F == UNION { e.refs : e \in request.entries }
           Q == (E \X R) \X (T \X F)
           Z == [entry : E, rule : R, target : T, ref : F]
           f == [q \in Q |-> [entry |-> q[1][1], rule |-> q[1][2],
                              target |-> q[2][1], ref |-> q[2][2]]]
<1>1. IsFiniteSet(E) /\ IsFiniteSet(R) /\ IsFiniteSet(T) /\ IsFiniteSet(F)
  BY DEF RequestTyped
<1>2. EnumerateCandidates(request) \in SUBSET Z BY DEF EnumerateCandidates
<1> HIDE DEF E, R, T, F
<1>3. IsFiniteSet(E \X R) /\ IsFiniteSet(T \X F) BY <1>1, FS_Product
<1>4. IsFiniteSet(Q) BY <1>3, FS_Product
<1>5. f \in [Q -> Z] OBVIOUS
<1>6. ASSUME NEW z \in Z PROVE \E q \in Q : f[q] = z
  <2> DEFINE q == << << z.entry, z.rule >>, << z.target, z.ref >> >>
  <2>1. q \in Q OBVIOUS
  <2>2. f[q] = z BY <2>1
  <2> QED BY <2>1, <2>2
<1> HIDE DEF f, Z, Q
<1>7. f \in Surjection(Q, Z) BY <1>5, <1>6 DEF Surjection
<1>8. IsFiniteSet(Z) BY <1>4, <1>7, FS_Surjection
<1> QED BY <1>2, <1>8, FS_Subset

\* A candidate has its parts from the request.
LEMMA CandidateParts ==
  ASSUME NEW request, NEW c \in EnumerateCandidates(request)
  PROVE  /\ c.entry \in request.entries /\ c.rule \in request.snapshot.rules
         /\ c.target \in request.inventory.targets
  BY DEF EnumerateCandidates

\* It is told by the target, the capability, the knowledge and the entry it names.
LEMMA CandidateTold ==
  ASSUME NEW request, Plannable(request),
         NEW c \in EnumerateCandidates(request), NEW d \in EnumerateCandidates(request),
         c.target.id = d.target.id, c.ref = d.ref,
         KnowledgeRef(c.rule) = KnowledgeRef(d.rule), c.entry.id = d.entry.id
  PROVE  c = d
<1>1. /\ c.entry \in request.entries /\ d.entry \in request.entries
      /\ c.rule \in request.snapshot.rules /\ d.rule \in request.snapshot.rules
      /\ c.target \in request.inventory.targets /\ d.target \in request.inventory.targets
  BY CandidateParts
<1>2. c.rule = d.rule BY <1>1 DEF Plannable, RulesTold
<1>3. c.target = d.target
  BY <1>1 DEF Plannable, ValidPlanningRequest, ValidInventory
<1>4. c.entry = d.entry
  BY <1>1 DEF Plannable, ValidPlanningRequest, ValidPlanningPolicy
<1>5. /\ c = [entry |-> c.entry, rule |-> c.rule, target |-> c.target, ref |-> c.ref]
      /\ d = [entry |-> d.entry, rule |-> d.rule, target |-> d.target, ref |-> d.ref]
  BY DEF EnumerateCandidates
<1> QED BY <1>2, <1>3, <1>4, <1>5

CandidateId(request, c) == IntentId(Body(request, c))

\* So intents and obligations of different candidates have different identities.
LEMMA IdentitiesTell ==
  ASSUME NEW request, Plannable(request),
         NEW c \in EnumerateCandidates(request), NEW d \in EnumerateCandidates(request),
         \/ CandidateId(request, c) = CandidateId(request, d)
         \/ ObligationOf(c) = ObligationOf(d)
  PROVE  c = d
<1>1. /\ c.target.id = d.target.id /\ c.ref = d.ref
      /\ KnowledgeRef(c.rule) = KnowledgeRef(d.rule) /\ c.entry.id = d.entry.id
  <2>1. CASE CandidateId(request, c) = CandidateId(request, d)
    <3>1. \A e : /\ CandidateId(request, e).target = e.target.id
                 /\ CandidateId(request, e).capability = e.ref
                 /\ CandidateId(request, e).source = KnowledgeRef(e.rule)
                 /\ CandidateId(request, e).entry = e.entry.id
      BY DEF CandidateId, IntentId, Body
    <3> QED BY <2>1, <3>1
  <2>2. CASE ObligationOf(c) = ObligationOf(d)
    <3>1. \A e : /\ ObligationOf(e).target = e.target.id
                 /\ ObligationOf(e).capability = e.ref
                 /\ ObligationOf(e).source = KnowledgeRef(e.rule)
                 /\ ObligationOf(e).entry = e.entry.id
      BY DEF ObligationOf
    <3> QED BY <2>2, <3>1
  <2> QED BY <2>1, <2>2
<1> QED BY <1>1, CandidateTold

\* What is made of one candidate.
IntentOf(request, c, active) ==
  CreateTestIntent(Body(request, c),
                   { CandidateId(request, d) : d \in DependenciesOf(request, c, active) },
                   Body(request, c).tags)

IntentsAsMade(request, active) ==
  /\ FinalizeIntents(request, active) = { IntentOf(request, c, active) : c \in active }
  /\ \A c : /\ IntentOf(request, c, active).id = CandidateId(request, c)
            /\ IntentOf(request, c, active).dependencies
                 = { CandidateId(request, d) : d \in DependenciesOf(request, c, active) }
            /\ DependenciesOf(request, c, active) \subseteq active

\* An intent has the identity of its candidate, and those of the candidates it needs.
LEMMA IntentsMade ==
  ASSUME NEW request, NEW active
  PROVE  IntentsAsMade(request, active)
<1>1. FinalizeIntents(request, active) = { IntentOf(request, c, active) : c \in active }
  BY DEF FinalizeIntents, IntentOf, CandidateId
<1>2. ASSUME NEW c
      PROVE  /\ IntentOf(request, c, active).id = CandidateId(request, c)
             /\ IntentOf(request, c, active).dependencies
                  = { CandidateId(request, d) : d \in DependenciesOf(request, c, active) }
  BY DEF IntentOf, CreateTestIntent, CandidateId
<1>3. ASSUME NEW c PROVE DependenciesOf(request, c, active) \subseteq active
  BY DEF DependenciesOf, FindDependencyRecords
<1> QED BY <1>1, <1>2, <1>3 DEF IntentsAsMade

\* Intents of different candidates are different, and wait for each other exactly
\* where the candidates do.
LEMMA IntentsWait ==
  ASSUME NEW request, Plannable(request),
         NEW active, active \subseteq EnumerateCandidates(request)
  PROVE  LET intents == FinalizeIntents(request, active)
         IN /\ IsFiniteSet(intents) /\ Unambiguous(intents)
            /\ \A i \in intents : i.dependencies \subseteq Ids(intents)
            /\ Waiting(intents) <=>
                 \E s \in (SUBSET active) \ {{}} :
                   \A c \in s : DependenciesOf(request, c, active) \cap s # {}
<1> DEFINE intent(c) == IntentOf(request, c, active)
           id(c) == CandidateId(request, c)
           deps(c) == DependenciesOf(request, c, active)
           I == FinalizeIntents(request, active)
<1>1. /\ I = { intent(c) : c \in active }
      /\ \A c : intent(c).id = id(c)
      /\ \A c : intent(c).dependencies = { id(d) : d \in deps(c) }
      /\ \A c : deps(c) \subseteq active
  BY IntentsMade DEF IntentsAsMade
<1>2. \A c, d \in active : id(c) = id(d) => c = d BY IdentitiesTell
<1>3. IsFiniteSet(active) BY FS_Subset DEF Plannable
<1> HIDE DEF intent, id, deps, I
<1>4. IsFiniteSet(I)
  <2> DEFINE f == [c \in active |-> intent(c)]
  <2>1. f \in Surjection(active, I) BY <1>1 DEF Surjection
  <2> QED BY <1>3, <2>1, FS_Surjection
<1>5. ASSUME NEW i \in I, NEW j \in I, i.id = j.id PROVE i = j
  BY <1>1, <1>2, <1>5
<1>6. ASSUME NEW i \in I PROVE i.dependencies \subseteq Ids(I)
  <2>1. PICK c \in active : i = intent(c) BY <1>1
  <2>2. \A d \in deps(c) : d \in active /\ intent(d) \in I /\ intent(d).id = id(d) BY <1>1
  <2>3. i.dependencies = { id(d) : d \in deps(c) } BY <1>1, <2>1
  <2>4. \A d \in deps(c) : id(d) \in Ids(I) BY <2>2 DEF Ids
  <2> QED BY <2>3, <2>4
<1>7. ASSUME NEW t \in SUBSET I, t # {}, \A i \in t : i.dependencies \cap Ids(t) # {}
      PROVE  \E s \in (SUBSET active) \ {{}} : \A c \in s : deps(c) \cap s # {}
  <2> DEFINE s == { c \in active : intent(c) \in t }
  <2>1. s # {} BY <1>1, <1>7
  <2>2. ASSUME NEW c \in s PROVE deps(c) \cap s # {}
    <3>1. PICK x \in intent(c).dependencies : x \in Ids(t) BY <1>7
    <3>2. PICK d \in deps(c) : x = id(d) BY <1>1, <3>1
    <3>3. PICK j \in t : x = j.id BY <3>1 DEF Ids
    <3>4. PICK e \in active : j = intent(e) BY <1>1
    <3>5. d \in active /\ id(d) = id(e) BY <1>1, <3>2, <3>3, <3>4
    <3>6. d = e BY <1>2, <3>5
    <3>7. d \in s BY <3>3, <3>4, <3>5, <3>6
    <3> QED BY <3>7
  <2> HIDE DEF s
  <2>3. s \in (SUBSET active) \ {{}} BY <2>1 DEF s
  <2> QED BY <2>2, <2>3
<1>8. ASSUME NEW s \in (SUBSET active) \ {{}}, \A c \in s : deps(c) \cap s # {}
      PROVE  Waiting(I)
  <2> DEFINE t == { intent(c) : c \in s }
  <2>1. t \in SUBSET I /\ t # {} BY <1>1, <1>8
  <2>2. ASSUME NEW i \in t PROVE i.dependencies \cap Ids(t) # {}
    <3>1. PICK c \in s : i = intent(c) OBVIOUS
    <3>2. PICK d \in deps(c) : d \in s BY <1>8
    <3>3. intent(d) \in t BY <3>2
    <3>4. id(d) \in Ids(t) /\ id(d) \in i.dependencies BY <1>1, <3>1, <3>2, <3>3 DEF Ids
    <3> QED BY <3>4
  <2> HIDE DEF t
  <2> QED BY <2>1, <2>2 DEF Waiting
<1>9. Waiting(I) <=> \E s \in (SUBSET active) \ {{}} : \A c \in s : deps(c) \cap s # {}
  <2>1. ASSUME Waiting(I)
        PROVE  \E s \in (SUBSET active) \ {{}} : \A c \in s : deps(c) \cap s # {}
    BY <1>7, <2>1 DEF Waiting
  <2> QED BY <1>8, <2>1
<1> QED BY <1>4, <1>5, <1>6, <1>9 DEF Unambiguous, I, deps

-----------------------------------------------------------------------------
(* Derived values.  The candidates that can be used give intents that pass *)
(* the screening unless a value is of another type, or a rule describes    *)
(* what an intent may not hold; a malformed contract gives none.           *)

Spoilt == {"secret", "named", "script", "mistyped"}

\* The payload of a contract passes unless one of its values is spoilt.
LEMMA PayloadPasses ==
  ASSUME NEW fields, NEW c
  PROVE  LET payload == MaterializeContract(fields, c)
         IN Screened(payload) /\ ValidContractPayload(payload) <=>
              \A f \in ToSet(fields) :
                Resolvable(f.name, c) => ResolveField(f.name, c) \cap Spoilt = {}
<1> DEFINE payload == MaterializeContract(fields, c)
           names == { f.name : f \in { g \in ToSet(fields) : Resolvable(g.name, c) } }
<1>1. /\ DOMAIN payload = names
      /\ \A name \in names : payload[name] = ResolveField(name, c)
  BY DEF MaterializeContract
<1> HIDE DEF payload, names
<1>2. Screened(payload) /\ ValidContractPayload(payload) <=>
        \A name \in names : payload[name] \cap Spoilt = {}
  BY <1>1 DEF Screened, NoSensitivePlanningData, NoExecutorCode, Items, SENSITIVE_KEYS,
              EXECUTOR_KEYS, SensitiveStrings, ValidContractPayload, Spoilt
<1>3. (\A name \in names : ResolveField(name, c) \cap Spoilt = {}) <=>
        \A f \in ToSet(fields) :
          Resolvable(f.name, c) => ResolveField(f.name, c) \cap Spoilt = {}
  BY DEF names
<1> QED BY <1>1, <1>2, <1>3 DEF payload

\* A candidate's payloads pass unless a field its capability asks for is spoilt.
LEMMA SpecsPass ==
  ASSUME NEW request, NEW c
  PROVE  NormalizedIntentSpecs(CreateIntentSpecs(Capability(request.catalog, c.ref), c)) <=>
           \A name \in Wanted(request, c) :
             Resolvable(name, c) => ResolveField(name, c) \cap Spoilt = {}
<1> DEFINE cap == Capability(request.catalog, c.ref)
           spec == CreateIntentSpecs(cap, c)
           Pass(fields) == \A f \in ToSet(fields) :
             Resolvable(f.name, c) => ResolveField(f.name, c) \cap Spoilt = {}
<1>1. /\ spec.input = MaterializeContract(cap.input, c)
      /\ spec.assertions = MaterializeContract(cap.assertions, c)
      /\ spec.thresholds = MaterializeContract(cap.thresholds, c)
  BY DEF CreateIntentSpecs
<1> HIDE DEF spec
<1>2. NormalizedIntentSpecs(spec) <=>
        Pass(cap.input) /\ Pass(cap.assertions) /\ Pass(cap.thresholds)
  BY <1>1, PayloadPasses DEF NormalizedIntentSpecs
<1>3. Wanted(request, c) =
        { f.name : f \in UNION { ToSet(cap.input), ToSet(cap.assertions), ToSet(cap.thresholds) } }
  BY DEF Wanted
<1> HIDE DEF cap
<1>4. (\A name \in Wanted(request, c) :
         Resolvable(name, c) => ResolveField(name, c) \cap Spoilt = {})
        <=> Pass(cap.input) /\ Pass(cap.assertions) /\ Pass(cap.thresholds)
  BY <1>3
<1> QED BY <1>2, <1>4 DEF spec, cap

\* Of a candidate, only the rule can spoil a value other than by its type.
LEMMA SpoiltByRule ==
  ASSUME NEW request, ValidPlanningRequest(request),
         NEW c \in EnumerateCandidates(request), NEW name, Resolvable(name, c)
  PROVE  ResolveField(name, c) \cap {"secret", "named", "script"} # {} <=>
           /\ name \notin DOMAIN c.target.own \cup DOMAIN c.target.attributes
           /\ FieldItems(c.rule.value, name) \cap {"named", "script"} # {}
<1>1. /\ c.rule \in request.snapshot.rules /\ c.target \in request.inventory.targets
  BY CandidateParts
<1>2. /\ NoSensitivePlanningData(c.rule.value, FALSE) /\ Screened(c.target.attributes)
      /\ Screened(c.target.own)
  BY <1>1 DEF ValidPlanningRequest, ValidInventory, ValidTarget, Screened
<1>3. ASSUME NEW fields, Screened(fields), name \in DOMAIN fields
      PROVE  fields[name] \cap {"secret", "named", "script"} = {}
  BY <1>3 DEF Screened, NoSensitivePlanningData, NoExecutorCode, Items,
              SENSITIVE_KEYS, EXECUTOR_KEYS, SensitiveStrings
<1>4. CASE name \in DOMAIN c.target.attributes
  <2>1. ResolveField(name, c) = c.target.attributes[name] BY <1>4 DEF ResolveField
  <2> QED BY <1>2, <1>3, <1>4, <2>1
<1>5. CASE name \in DOMAIN c.target.own \ DOMAIN c.target.attributes
  <2>1. ResolveField(name, c) = c.target.own[name] BY <1>5 DEF ResolveField
  <2> QED BY <1>2, <1>3, <1>5, <2>1
<1>6. CASE name \notin DOMAIN c.target.own \cup DOMAIN c.target.attributes
  <2>1. ResolveField(name, c) = FieldItems(c.rule.value, name) BY <1>6 DEF ResolveField
  <2>2. FieldItems(c.rule.value, name) \subseteq Items(c.rule.value)
    BY DEF FieldItems, Items
  <2>3. "secret" \notin FieldItems(c.rule.value, name)
    BY <1>2, <2>2 DEF NoSensitivePlanningData, SensitiveStrings
  <2> QED BY <1>6, <2>1, <2>3
<1> QED BY <1>4, <1>5, <1>6

\* So the intents of a plan can be made unless one of three causes forbids it.
LEMMA PreparableUnlessDerived ==
  ASSUME NEW request, ValidPlanningRequest(request)
  PROVE  Preparable(request, EnumerateCandidates(request)) <=>
           /\ ~ ContractMalformed(request)
           /\ ~ DerivedMistyped(request)
           /\ ~ DerivedDescription(request)
<1> DEFINE U == Usable(request)
           W(c) == Wanted(request, c)
           Described(name, c) ==
             /\ name \notin DOMAIN c.target.own \cup DOMAIN c.target.attributes
             /\ FieldItems(c.rule.value, name) \cap {"named", "script"} # {}
<1>1. U \subseteq EnumerateCandidates(request) BY DEF Usable, Prepared, Asked
<1>2. Preparable(request, EnumerateCandidates(request)) <=>
        /\ ~ ContractMalformed(request)
        /\ \A c \in U : \A name \in W(c) :
             Resolvable(name, c) => ResolveField(name, c) \cap Spoilt = {}
  <2>1. (\A c \in U :
           NormalizedIntentSpecs(CreateIntentSpecs(Capability(request.catalog, c.ref), c)))
        <=> \A c \in U : \A name \in W(c) :
              Resolvable(name, c) => ResolveField(name, c) \cap Spoilt = {}
    BY SpecsPass
  <2>2. Preparable(request, EnumerateCandidates(request)) <=>
          /\ ~ ContractMalformed(request)
          /\ \A c \in U :
               NormalizedIntentSpecs(CreateIntentSpecs(Capability(request.catalog, c.ref), c))
    BY DEF Preparable, ContractMalformed, Usable
  <2> HIDE DEF U, W
  <2> QED BY <2>1, <2>2
<1>3. DerivedMistyped(request) <=>
        \E c \in U : \E name \in W(c) :
          Resolvable(name, c) /\ "mistyped" \in ResolveField(name, c)
  BY DEF DerivedMistyped
<1>4. DerivedDescription(request) <=> \E c \in U : \E name \in W(c) : Described(name, c)
  BY DEF DerivedDescription
<1>5. ASSUME NEW c \in U, NEW name \in W(c)
      PROVE  Described(name, c) <=>
               /\ Resolvable(name, c)
               /\ ResolveField(name, c) \cap {"secret", "named", "script"} # {}
  <2>1. c \in EnumerateCandidates(request) BY <1>1
  <2>2. Described(name, c) => Resolvable(name, c)
    BY DEF Resolvable, FieldItems, FieldNames
  <2> QED BY <2>1, <2>2, SpoiltByRule
<1> HIDE DEF U, W, Described
<1>6. DerivedDescription(request) <=>
        \E c \in U : \E name \in W(c) :
          /\ Resolvable(name, c)
          /\ ResolveField(name, c) \cap {"secret", "named", "script"} # {}
  BY <1>4, <1>5
<1>7. ASSUME NEW items
      PROVE  items \cap Spoilt = {} <=>
               "mistyped" \notin items /\ items \cap {"secret", "named", "script"} = {}
  BY DEF Spoilt
<1>8. (\A c \in U : \A name \in W(c) :
         Resolvable(name, c) => ResolveField(name, c) \cap Spoilt = {})
      <=> ~ DerivedMistyped(request) /\ ~ DerivedDescription(request)
  BY <1>3, <1>6, <1>7
<1> QED BY <1>2, <1>8

-----------------------------------------------------------------------------
(* The plan.  What the planner makes of the candidates it plans is a plan  *)
(* that its validator accepts, unless intents wait for each other.         *)

ObligationMade(request, c, active) ==
  CreateObligation(
    [ target |-> c.target.id, capability |-> c.ref,
      source |-> KnowledgeRef(c.rule), entry |-> c.entry.id ],
    c.entry.mandatory, StatusOf(request, c, active),
    IF c \in active THEN {CandidateId(request, c)} ELSE {})

ObligationsAsMade(request, candidates, active) ==
  /\ CreateObligations(request, candidates, active)
       = { ObligationMade(request, c, active) : c \in candidates }
  /\ \A c : /\ ObligationMade(request, c, active).id = ObligationOf(c)
            /\ ObligationMade(request, c, active).status = StatusOf(request, c, active)
            /\ c \in active =>
                 ObligationMade(request, c, active).intents = {CandidateId(request, c)}
            /\ c \notin active => ObligationMade(request, c, active).intents = {}

\* An obligation has the identity and the status of its candidate.
LEMMA ObligationsMade ==
  ASSUME NEW request, NEW candidates, NEW active
  PROVE  ObligationsAsMade(request, candidates, active)
<1>1. CreateObligations(request, candidates, active)
        = { ObligationMade(request, c, active) : c \in candidates }
  BY DEF CreateObligations, ObligationMade, CandidateId
<1>2. ASSUME NEW c
      PROVE  /\ ObligationMade(request, c, active).id = ObligationOf(c)
             /\ ObligationMade(request, c, active).status = StatusOf(request, c, active)
             /\ c \in active =>
                  ObligationMade(request, c, active).intents = {CandidateId(request, c)}
             /\ c \notin active => ObligationMade(request, c, active).intents = {}
  BY DEF ObligationMade, CreateObligation, ObligationId, ObligationOf
<1> QED BY <1>1, <1>2 DEF ObligationsAsMade

\* Of usable candidates, exactly the planned ones are covered.
LEMMA CoveredIfPlanned ==
  ASSUME NEW request, NEW active, active \subseteq Usable(request), NEW c
  PROVE  /\ StatusOf(request, c, active) \in {"COVERED", "UNPLANNED", "EXEMPT"}
         /\ StatusOf(request, c, active) = "COVERED" <=> c \in active
<1>1. c \in active => ~ Exempt(request, c) BY DEF Usable, Prepared, Asked, Exempt
<1> QED BY <1>1 DEF StatusOf

\* Identities name the parts of the request the candidate was made of.
LEMMA IdentitiesBound ==
  ASSUME NEW request, NEW c \in EnumerateCandidates(request)
  PROVE  /\ BoundToRequest(request, CandidateId(request, c))
         /\ BoundToRequest(request, ObligationOf(c))
         /\ CandidateId(request, c).target = ObligationOf(c).target
         /\ CandidateId(request, c).capability = ObligationOf(c).capability
<1>1. /\ c.entry \in request.entries /\ c.rule \in request.snapshot.rules
      /\ c.target \in request.inventory.targets
  BY CandidateParts
<1>2. /\ CandidateId(request, c).target = c.target.id
      /\ CandidateId(request, c).capability = c.ref
      /\ CandidateId(request, c).source = KnowledgeRef(c.rule)
      /\ CandidateId(request, c).entry = c.entry.id
  BY DEF CandidateId, IntentId, Body
<1>3. /\ ObligationOf(c).target = c.target.id
      /\ ObligationOf(c).capability = c.ref
      /\ ObligationOf(c).source = KnowledgeRef(c.rule)
      /\ ObligationOf(c).entry = c.entry.id
  BY DEF ObligationOf
<1> QED BY <1>1, <1>2, <1>3 DEF BoundToRequest, KnownRef

\* The provenance of an intent names what the intent names.
LEMMA ProvenanceNames ==
  ASSUME NEW intent
  PROVE  /\ ProvenanceOfIntent(CreateProvenance(intent), intent)
         /\ CreateProvenance(intent).source = intent.id.source
  BY DEF CreateProvenance, ProvenanceOfIntent

\* The documents of a plan have the bindings the validator asks for.
LEMMA PlanBound ==
  ASSUME NEW request, Plannable(request),
         NEW active, active \subseteq Usable(request),
         ~ Waiting(FinalizeIntents(request, active))
  PROVE  LET intents == FinalizeIntents(request, active)
         IN ValidPlanBindings(request, intents,
              CreateObligations(request, EnumerateCandidates(request), active),
              { CreateProvenance(i) : i \in intents })
<1> DEFINE E == EnumerateCandidates(request)
           intent(c) == IntentOf(request, c, active)
           id(c) == CandidateId(request, c)
           owed(c) == ObligationMade(request, c, active)
           I == FinalizeIntents(request, active)
           O == CreateObligations(request, E, active)
           P == { CreateProvenance(i) : i \in I }
           ids == { i.id : i \in I }
<1>1. active \subseteq E BY DEF Usable, Prepared, Asked
<1>2. I = { intent(c) : c \in active } /\ \A c : intent(c).id = id(c)
  BY IntentsMade DEF IntentsAsMade
<1>3. /\ O = { owed(c) : c \in E }
      /\ \A c : owed(c).id = ObligationOf(c)
      /\ \A c : /\ c \in active => owed(c).intents = {id(c)}
                /\ c \notin active => owed(c).intents = {}
  <2>1. ObligationsAsMade(request, E, active) BY ObligationsMade
  <2> QED BY <2>1 DEF ObligationsAsMade
<1>4. \A i \in I : i.dependencies \subseteq Ids(I) BY <1>1, IntentsWait
<1>5. ~ Waiting(I) OBVIOUS
<1> HIDE DEF intent, id, owed, I, O
<1>6. ASSUME NEW i \in I
      PROVE  /\ BoundToRequest(request, i.id)
             /\ i.dependencies \subseteq ids \ {i.id}
  <2>1. PICK c \in active : i = intent(c) BY <1>2
  <2>2. BoundToRequest(request, i.id) BY <1>1, <1>2, <2>1, IdentitiesBound DEF id
  <2>3. i.id \notin i.dependencies
    <3> SUFFICES ASSUME i.id \in i.dependencies PROVE FALSE OBVIOUS
    <3>1. {i} \in SUBSET I /\ {i} # {} /\ Ids({i}) = {i.id} BY DEF Ids
    <3>2. \A j \in {i} : j.dependencies \cap Ids({i}) # {} BY <3>1
    <3> QED BY <1>5, <3>1, <3>2 DEF Waiting
  <2> QED BY <1>4, <2>2, <2>3 DEF Ids
<1>7. ASSUME NEW o \in O
      PROVE  /\ BoundToRequest(request, o.id)
             /\ \A x \in o.intents : /\ x \in ids
                                     /\ x.target = o.id.target
                                     /\ x.capability = o.id.capability
  <2>1. PICK c \in E : o = owed(c) BY <1>3
  <2>2. /\ BoundToRequest(request, o.id)
        /\ id(c).target = o.id.target /\ id(c).capability = o.id.capability
    BY <1>3, <2>1, IdentitiesBound DEF id
  <2>3. ASSUME NEW x \in o.intents PROVE x = id(c) /\ x \in ids
    <3>1. c \in active /\ x = id(c) BY <1>3, <2>1
    <3>2. intent(c) \in I /\ intent(c).id = id(c) BY <1>2, <3>1
    <3> QED BY <3>1, <3>2
  <2> QED BY <2>2, <2>3
<1>8. ASSUME NEW p \in P
      PROVE  /\ \E i \in I : ProvenanceOfIntent(p, i)
             /\ KnownRef(request, p.source)
  <2>1. PICK i \in I : p = CreateProvenance(i) OBVIOUS
  <2>2. KnownRef(request, i.id.source) BY <1>6 DEF BoundToRequest
  <2> QED BY <2>1, <2>2, ProvenanceNames
<1>9. ASSUME NEW i \in I
      PROVE  \E p \in P : ProvenanceOfIntent(p, i) /\ p.source = i.id.source
  <2>1. CreateProvenance(i) \in P OBVIOUS
  <2> QED BY <2>1, ProvenanceNames
<1> HIDE DEF P
<1>10. ValidPlanBindings(request, I, O, P) BY <1>6, <1>7, <1>8, <1>9 DEF ValidPlanBindings
<1> QED BY <1>10 DEF I, O, P

PlanOf(request, active) ==
  LET intents == FinalizeIntents(request, active)
  IN CreateTestPlan(request, intents,
       CreateObligations(request, EnumerateCandidates(request), active),
       { CreateProvenance(i) : i \in intents })

\* A plan of usable candidates that do not wait for each other is accepted.
LEMMA PlanAccepted ==
  ASSUME NEW request, Plannable(request), Preparable(request, EnumerateCandidates(request)),
         NEW active, active \subseteq Usable(request),
         ~ Waiting(FinalizeIntents(request, active))
  PROVE  ValidTestPlan(PlanOf(request, active))
<1> DEFINE E == EnumerateCandidates(request)
           I == FinalizeIntents(request, active)
           O == CreateObligations(request, E, active)
           P == { CreateProvenance(i) : i \in I }
<1>1. active \subseteq E BY DEF Usable, Prepared, Asked
<1>2. ValidPlanningRequest(request) BY DEF Plannable
<1>3. ASSUME NEW i \in I PROVE ValidTestIntent(i)
  <2>1. PICK c \in active : i = IntentOf(request, c, active) /\ i.id = CandidateId(request, c)
    BY IntentsMade DEF IntentsAsMade
  <2> DEFINE spec == CreateIntentSpecs(Capability(request.catalog, c.ref), c)
  <2>2. NormalizedIntentSpecs(spec) BY DEF Preparable, Usable
  <2>3. /\ i.id.input = spec.input /\ i.id.assertions = spec.assertions
        /\ i.id.thresholds = spec.thresholds
    <3> HIDE DEF spec
    <3>1. /\ CandidateId(request, c).input = Body(request, c).input
          /\ CandidateId(request, c).assertions = Body(request, c).assertions
          /\ CandidateId(request, c).thresholds = Body(request, c).thresholds
      BY DEF CandidateId, IntentId
    <3>2. /\ Body(request, c).input = spec.input
          /\ Body(request, c).assertions = spec.assertions
          /\ Body(request, c).thresholds = spec.thresholds
      BY DEF Body, spec
    <3> QED BY <2>1, <3>1, <3>2
  <2> QED BY <2>2, <2>3 DEF NormalizedIntentSpecs, ValidTestIntent
<1>4. \A i, j \in I : i.id = j.id => i = j BY <1>1, IntentsWait DEF Unambiguous
<1>5. ObligationsAsMade(request, E, active) BY ObligationsMade
<1>6. ASSUME NEW o \in O PROVE ValidObligation(o)
  <2>1. PICK c \in E : o = ObligationMade(request, c, active) BY <1>5 DEF ObligationsAsMade
  <2>2. o.status \in {"COVERED", "UNPLANNED", "EXEMPT"} /\ (o.status = "COVERED" <=> c \in active)
    BY <1>5, <2>1, CoveredIfPlanned DEF ObligationsAsMade
  <2>3. (c \in active => o.intents = {CandidateId(request, c)}) /\ (c \notin active => o.intents = {})
    BY <1>5, <2>1 DEF ObligationsAsMade
  <2> QED BY <2>2, <2>3 DEF ValidObligation
<1>7. ASSUME NEW o \in O, NEW q \in O, o.id = q.id PROVE o = q
  <2>1. /\ O = { ObligationMade(request, c, active) : c \in E }
        /\ \A c : ObligationMade(request, c, active).id = ObligationOf(c)
    BY <1>5 DEF ObligationsAsMade
  <2>2. PICK c \in E : o = ObligationMade(request, c, active) BY <2>1
  <2>3. PICK d \in E : q = ObligationMade(request, d, active) BY <2>1
  <2>4. c = d BY <1>7, <2>1, <2>2, <2>3, IdentitiesTell
  <2> QED BY <2>2, <2>3, <2>4
<1>8. ValidPlanBindings(request, I, O, P) BY PlanBound
<1> HIDE DEF I, O, P
<1>9. CreatableTestPlan(request, I, O, P)
  BY <1>2, <1>3, <1>4, <1>6, <1>7, <1>8 DEF CreatableTestPlan
<1>10. PlanOf(request, active) = CreateTestPlan(request, I, O, P) BY DEF PlanOf, I, O, P, E
<1>11. LET plan == CreateTestPlan(request, I, O, P)
       IN /\ plan.request = request /\ plan.intents = I
          /\ plan.obligations = O /\ plan.provenance = P
  BY DEF CreateTestPlan
<1> QED BY <1>9, <1>10, <1>11 DEF ValidTestPlan

-----------------------------------------------------------------------------
(* What the planner answers *)

\* In terms of what is planned, an answer is made of these parts.
LEMMA AnswerMade ==
  ASSUME NEW request, NEW catalog, IsFiniteSet(EnumerateCandidates(request))
  PROVE  LET active == Supportable(request)
             intents == FinalizeIntents(request, active)
             answer == PlanTests(request, catalog)
         IN /\ active \subseteq Usable(request)
            /\ answer.ok <=> /\ ValidPlanningRequest(request)
                             /\ ValidCatalog(catalog)
                             /\ request.catalog = catalog
                             /\ Preparable(request, EnumerateCandidates(request))
                             /\ Unambiguous(intents)
                             /\ Acyclic(intents)
                             /\ ValidTestPlan(PlanOf(request, active))
            /\ answer.ok =>
                 /\ answer.plan = PlanOf(request, active)
                 /\ answer.coverage = CreateCoverageMatrix(answer.plan.obligations)
                 /\ answer.graph = CreateProvenanceGraph(answer.plan)
                 /\ answer.dag = DependencyEdges(answer.plan.intents)
                 /\ answer.unsupported =
                      CreateUnsupportedEvidence(request, EnumerateCandidates(request), active,
                                                answer.plan.obligations)
<1> DEFINE E == EnumerateCandidates(request)
           active == ResolveRequiredDependencies(request, Usable(request))
           I == FinalizeIntents(request, active)
           O == CreateObligations(request, E, active)
           answer == PlanTests(request, catalog)
           accepted == /\ ValidPlanningRequest(request)
                       /\ ValidCatalog(catalog)
                       /\ request.catalog = catalog
                       /\ Preparable(request, EnumerateCandidates(request))
                       /\ Unambiguous(I)
                       /\ Acyclic(I)
                       /\ ValidTestPlan(PlanOf(request, active))
<1>1. Usable(request) \subseteq E BY DEF Usable, Prepared, Asked
<1>2. IsFiniteSet(Usable(request)) BY <1>1, FS_Subset
<1>3. active = Supportable(request) /\ active \subseteq Usable(request)
  BY <1>2, PlannedIsSupportable, LargestSupported
<1>4. answer = IF accepted
               THEN [ ok |-> TRUE, plan |-> PlanOf(request, active),
                      coverage |-> CreateCoverageMatrix(O),
                      graph |-> CreateProvenanceGraph(PlanOf(request, active)),
                      dag |-> DependencyEdges(I),
                      unsupported |-> CreateUnsupportedEvidence(request, E, active, O) ]
               ELSE Refused
  BY DEF PlanTests, PlanOf, Usable
<1>5. PlanOf(request, active).intents = I /\ PlanOf(request, active).obligations = O
  BY DEF PlanOf, CreateTestPlan
<1> HIDE DEF active, I, O, E, answer
<1>6. answer.ok <=> accepted BY <1>4 DEF Refused
<1>7. answer.ok => /\ answer.plan = PlanOf(request, active)
                   /\ answer.coverage = CreateCoverageMatrix(O)
                   /\ answer.graph = CreateProvenanceGraph(PlanOf(request, active))
                   /\ answer.dag = DependencyEdges(I)
                   /\ answer.unsupported = CreateUnsupportedEvidence(request, E, active, O)
  BY <1>4, <1>6
<1> QED BY <1>3, <1>5, <1>6, <1>7 DEF E, I, answer

\* What a plan covers is what is planned.
LEMMA CoveredArePlanned ==
  ASSUME NEW request, NEW active, active \subseteq Usable(request)
  PROVE  { o.id : o \in { q \in PlanOf(request, active).obligations : q.status = "COVERED" } }
           = { ObligationOf(c) : c \in active }
<1> DEFINE E == EnumerateCandidates(request)
           owed(c) == ObligationMade(request, c, active)
<1>1. active \subseteq E BY DEF Usable, Prepared, Asked
<1>2. ObligationsAsMade(request, E, active) BY ObligationsMade
<1>3. PlanOf(request, active).obligations = { owed(c) : c \in E }
  BY <1>2 DEF PlanOf, CreateTestPlan, ObligationsAsMade
<1>4. \A c : owed(c).id = ObligationOf(c) /\ (owed(c).status = "COVERED" <=> c \in active)
  BY <1>2, CoveredIfPlanned DEF ObligationsAsMade
<1> HIDE DEF owed
<1> QED BY <1>1, <1>3, <1>4

\* The evidence of what is not planned names the obligations that are not.
LEMMA EvidenceComplete ==
  ASSUME NEW request, NEW candidates, NEW active, NEW plan
  PROVE  ValidUnsupportedEvidence(
           CreateUnsupportedEvidence(request, candidates, active, plan.obligations), plan)
<1> DEFINE Q == { q \in plan.obligations : q.status = "UNPLANNED" }
           why(o) == [ obligation |-> o.id,
                       code |-> UnsupportedCode(request, CHOOSE c \in candidates :
                         o.id = [ target |-> c.target.id, capability |-> c.ref,
                                  source |-> KnowledgeRef(c.rule), entry |-> c.entry.id ], active) ]
           evidence == CreateUnsupportedEvidence(request, candidates, active, plan.obligations)
<1>1. evidence = { why(o) : o \in Q } BY DEF CreateUnsupportedEvidence
<1>2. \A o : why(o).obligation = o.id OBVIOUS
<1> HIDE DEF why, Q, evidence
<1>3. { e.obligation : e \in evidence } = { o.id : o \in Q } BY <1>1, <1>2
<1> QED BY <1>3 DEF ValidUnsupportedEvidence, Q, evidence

\* A request that is well-formed is refused for one of four causes.
LEMMA RefusedIffCause ==
  ASSUME NEW request, Plannable(request), ValidCatalog(request.catalog)
  PROVE  LET answer == PlanTests(request, request.catalog)
         IN /\ answer.ok <=> /\ ~ Circle(request)
                             /\ ~ ContractMalformed(request)
                             /\ ~ DerivedMistyped(request)
                             /\ ~ DerivedDescription(request)
            /\ answer.ok => ValidPlanningResult(answer)
<1> DEFINE active == Supportable(request)
           I == FinalizeIntents(request, active)
           plan == PlanOf(request, active)
           answer == PlanTests(request, request.catalog)
           catalog == request.catalog
<1>1. ValidPlanningRequest(request) /\ IsFiniteSet(EnumerateCandidates(request))
  BY DEF Plannable
<1>2. /\ active \subseteq Usable(request)
      /\ answer.ok <=> /\ ValidPlanningRequest(request)
                       /\ ValidCatalog(catalog)
                       /\ request.catalog = catalog
                       /\ Preparable(request, EnumerateCandidates(request))
                       /\ Unambiguous(I)
                       /\ Acyclic(I)
                       /\ ValidTestPlan(plan)
      /\ answer.ok =>
           /\ answer.plan = plan
           /\ answer.coverage = CreateCoverageMatrix(answer.plan.obligations)
           /\ answer.graph = CreateProvenanceGraph(answer.plan)
           /\ answer.dag = DependencyEdges(answer.plan.intents)
           /\ answer.unsupported =
                CreateUnsupportedEvidence(request, EnumerateCandidates(request), active,
                                          answer.plan.obligations)
  BY <1>1, AnswerMade
<1>3. active \subseteq EnumerateCandidates(request) BY <1>2 DEF Usable, Prepared, Asked
<1>4. /\ IsFiniteSet(I) /\ Unambiguous(I)
      /\ \A i \in I : i.dependencies \subseteq Ids(I)
      /\ Waiting(I) <=> \E s \in (SUBSET active) \ {{}} :
                          \A c \in s : DependenciesOf(request, c, active) \cap s # {}
  BY <1>3, IntentsWait
<1>5. Circle(request) <=> \E s \in (SUBSET active) \ {{}} :
                            \A c \in s : DependenciesOf(request, c, active) \cap s # {}
  BY DEF Circle
<1>6. plan.intents = I BY DEF PlanOf, CreateTestPlan
<1> HIDE DEF active, I, plan, answer
<1>7. Acyclic(I) <=> ~ Circle(request) BY <1>4, <1>5, AcyclicUnlessWaiting
<1>8. Preparable(request, EnumerateCandidates(request)) <=>
        /\ ~ ContractMalformed(request)
        /\ ~ DerivedMistyped(request)
        /\ ~ DerivedDescription(request)
  BY <1>1, PreparableUnlessDerived
<1>9. Preparable(request, EnumerateCandidates(request)) /\ ~ Circle(request) => ValidTestPlan(plan)
  BY <1>2, <1>4, <1>5, PlanAccepted DEF I, plan
<1>10. answer.ok <=> /\ ~ Circle(request)
                     /\ ~ ContractMalformed(request)
                     /\ ~ DerivedMistyped(request)
                     /\ ~ DerivedDescription(request)
  BY <1>1, <1>2, <1>4, <1>7, <1>8, <1>9
<1>11. ASSUME answer.ok PROVE ValidPlanningResult(answer)
  <2>1. ValidTestPlan(answer.plan) /\ Acyclic(answer.plan.intents) BY <1>2, <1>6, <1>11
  <2>2. ValidUnsupportedEvidence(answer.unsupported, answer.plan)
    BY <1>2, <1>11, EvidenceComplete
  <2> QED BY <1>2, <1>11, <2>1, <2>2 DEF ValidPlanningResult
<1> QED BY <1>10, <1>11 DEF answer

\* The rules of a snapshot are told apart, as resolution left one of each boundary.
LEMMA SnapshotTold ==
  ASSUME NEW snapshot \in Snapshots
  PROVE  RulesTold(snapshot)
<1>1. PICK layers \in Layerings :
        /\ ResolveKnowledge(layers, Context).ok
        /\ snapshot = BuildKnowledgeSnapshot(ResolveKnowledge(layers, Context))
  BY DEF Snapshots
<1> DEFINE answer == ResolveKnowledge(layers, Context)
           cut(r) == [ id |-> r.id, boundaryKey |-> r.boundaryKey, tags |-> r.tags,
                       value |-> r.value ]
<1>2. \A e, f \in answer.rules : e.boundaryKey = f.boundaryKey => e = f
  BY <1>1, LayeringAssumption, ResolutionSound DEF Resolved
<1>3. snapshot.rules = { cut(r) : r \in answer.rules } BY <1>1 DEF BuildKnowledgeSnapshot
<1>4. \A r : KnowledgeRef(cut(r)).boundaryKey = r.boundaryKey BY DEF KnowledgeRef
<1> HIDE DEF cut, answer
<1> QED BY <1>2, <1>3, <1>4 DEF RulesTold

-----------------------------------------------------------------------------
(* Lists *)

\* A sequence of the members of a finite set, each once.
Lists(list, S) ==
  LET N == Cardinality(S)
  IN /\ IsFiniteSet(S) /\ N \in Nat
     /\ list \in [1 .. N -> S]
     /\ \A x \in S : \E n \in 1 .. N : list[n] = x
     /\ \A m, n \in 1 .. N : list[m] = list[n] => m = n

\* It is a sequence.
LEMMA Listed ==
  ASSUME NEW S, NEW list, Lists(list, S)
  PROVE  /\ list \in Seq(S) /\ Len(list) = Cardinality(S)
         /\ DOMAIN list = 1 .. Cardinality(S)
         /\ Cardinality(S) \in Nat
         /\ ToSet(list) = S
<1> DEFINE N == Cardinality(S)
<1>1. /\ N \in Nat /\ list \in [1 .. N -> S]
      /\ \A x \in S : \E n \in 1 .. N : list[n] = x
  BY DEF Lists
<1> HIDE DEF N
<1>2. list \in Seq(S) /\ Len(list) = N /\ DOMAIN list = 1 .. N BY <1>1
<1>3. ToSet(list) = S BY <1>1, <1>2 DEF ToSet
<1> QED BY <1>1, <1>2, <1>3 DEF N

\* A sorted set is listed.
LEMMA SortedLists ==
  ASSUME NEW S, NEW rank, Ranks(rank, S)
  PROVE  Lists(SortedBy(S, rank), S)
<1> DEFINE N == Cardinality(S)
           list == SortedBy(S, rank)
<1>1. /\ N \in Nat /\ list \in [1 .. N -> S]
      /\ \A x \in S : \E n \in 1 .. N : list[n] = x
      /\ \A m, n \in 1 .. N : m < n => rank[list[m]] < rank[list[n]]
  BY Sorted DEF Sorts
<1> HIDE DEF N, list
<1>2. ASSUME NEW m \in 1 .. N, NEW n \in 1 .. N, list[m] = list[n] PROVE m = n
  <2>1. rank[list[m]] \in Int /\ rank[list[m]] = rank[list[n]] BY <1>1, <1>2 DEF Ranks
  <2> QED BY <1>1, <2>1
<1> QED BY <1>1, <1>2 DEF Lists, Ranks, N, list

\* A sequence of members that repeats none and is as long as the set lists it.
LEMMA FullList ==
  ASSUME NEW S, IsFiniteSet(S), NEW list \in [1 .. Cardinality(S) -> S],
         \A m, n \in 1 .. Cardinality(S) : list[m] = list[n] => m = n
  PROVE  Lists(list, S)
<1> DEFINE N == Cardinality(S)
<1>1. N \in Nat BY FS_CardinalityType
<1>2. list \in Injection(1 .. N, S) BY DEF Injection, IsInjective
<1>3. IsFiniteSet(1 .. N) /\ Cardinality(1 .. N) = N BY <1>1, FS_Interval
<1>4. list \in Surjection(1 .. N, S) BY <1>2, <1>3, FS_Injection
<1>5. \A x \in S : \E n \in 1 .. N : list[n] = x BY <1>4 DEF Surjection
<1> QED BY <1>1, <1>5 DEF Lists

\* Lists of disjoint sets, one after the other, list both.
LEMMA ListsJoin ==
  ASSUME NEW A, NEW B, A \cap B = {}, NEW a, NEW b, Lists(a, A), Lists(b, B)
  PROVE  Lists(a \o b, A \cup B)
<1> DEFINE M == Cardinality(A)
           N == Cardinality(B)
           j == a \o b
<1>1. /\ IsFiniteSet(A) /\ M \in Nat /\ a \in [1 .. M -> A]
      /\ \A m, n \in 1 .. M : a[m] = a[n] => m = n
      /\ IsFiniteSet(B) /\ N \in Nat /\ b \in [1 .. N -> B]
      /\ \A m, n \in 1 .. N : b[m] = b[n] => m = n
  BY DEF Lists
<1>2. IsFiniteSet(A \cup B) /\ Cardinality(A \cup B) = M + N
  <2>1. /\ IsFiniteSet(A \cup B)
        /\ Cardinality(A \cup B) = Cardinality(A) + Cardinality(B) - Cardinality(A \cap B)
    BY <1>1, FS_Union
  <2>2. Cardinality(A \cap B) = 0 BY FS_EmptySet
  <2> QED BY <1>1, <2>1, <2>2
<1>3. a \in Seq(A \cup B) /\ Len(a) = M /\ b \in Seq(A \cup B) /\ Len(b) = N
  <2> HIDE DEF M, N
  <2>1. a \in [1 .. M -> A \cup B] /\ b \in [1 .. N -> A \cup B] BY <1>1
  <2> QED BY <1>1, <2>1
<1>4. /\ j \in Seq(A \cup B) /\ Len(j) = M + N
      /\ \A i \in 1 .. M + N : j[i] = IF i <= M THEN a[i] ELSE b[i - M]
  <2>1. /\ a \o b \in Seq(A \cup B) /\ Len(a \o b) = Len(a) + Len(b)
        /\ \A i \in 1 .. Len(a) + Len(b) :
             (a \o b)[i] = IF i <= Len(a) THEN a[i] ELSE b[i - Len(a)]
    <3> HIDE DEF M, N
    <3> QED BY <1>3, ConcatProperties
  <2> QED BY <1>3, <2>1
<1> HIDE DEF M, N, j
<1>5. ASSUME NEW m \in 1 .. M + N, NEW n \in 1 .. M + N, j[m] = j[n] PROVE m = n
  <2>1. \A i \in 1 .. M + N : /\ i <= M => i \in 1 .. M /\ j[i] = a[i] /\ a[i] \in A
                              /\ i > M => i - M \in 1 .. N /\ j[i] = b[i - M] /\ b[i - M] \in B
    BY <1>1, <1>4
  <2>2. CASE m <= M /\ n <= M BY <1>1, <1>5, <2>1, <2>2
  <2>3. CASE m > M /\ n > M
    <3>1. m - M = n - M BY <1>1, <1>5, <2>1, <2>3
    <3> QED BY <1>1, <3>1
  <2>4. CASE ~ (m <= M <=> n <= M) BY <1>1, <1>5, <2>1, <2>4
  <2> QED BY <1>1, <2>2, <2>3, <2>4
<1>6. j \in [1 .. M + N -> A \cup B] BY <1>4, LenProperties
<1>7. Lists(j, A \cup B) BY <1>2, <1>5, <1>6, FullList
<1> QED BY <1>7 DEF j

-----------------------------------------------------------------------------
(* Operations in turn *)

\* Each after those of S that it waits for.
InTurn(list, S) ==
  \A n \in DOMAIN list :
    list[n].dependencies \cap Ids(S) \subseteq { list[m].id : m \in 1 .. n - 1 }

Round(list, done) ==
  IF Ready(list, done) = {} THEN done ELSE Append(done, list[Min(Ready(list, done))])

\* The least of some numbers is one of them.
LEMMA LeastTaken ==
  ASSUME NEW T, T \subseteq Nat, T # {}
  PROVE  Min(T) \in T
<1>1. \E m \in T : \A n \in T : m <= n BY LeastNumber
<1> QED BY <1>1 DEF Min

\* A round places one of the members or nothing.
LEMMA RoundTyped ==
  ASSUME NEW S, NEW list, Lists(list, S), NEW done \in Seq(S)
  PROVE  Round(list, done) \in Seq(S)
<1> DEFINE R == Ready(list, done)
<1>1. DOMAIN list = 1 .. Cardinality(S) /\ Cardinality(S) \in Nat BY Listed
<1>2. \A i \in DOMAIN list : list[i] \in S BY <1>1 DEF Lists
<1>3. R \subseteq DOMAIN list /\ R \subseteq Nat BY <1>1 DEF Ready
<1> HIDE DEF R
<1>4. R # {} => list[Min(R)] \in S BY <1>2, <1>3, LeastTaken
<1>5. R # {} => Append(done, list[Min(R)]) \in Seq(S) BY <1>4
<1> QED BY <1>5 DEF Round, R

\* The rounds are those their recursion describes.
LEMMA PlacedExist ==
  ASSUME NEW S, NEW list, Lists(list, S)
  PROVE  LET N == Cardinality(S)
             P == Placed(list)
         IN /\ P \in [0 .. N -> Seq(S)] /\ P[0] = << >>
            /\ \A n \in 1 .. N : P[n] = Round(list, P[n - 1])
<1> DEFINE N == Cardinality(S)
           step == [n \in 1 .. N |-> [x \in Seq(S) |-> Round(list, x)]]
<1>1. N \in Nat /\ Len(list) = N /\ ToSet(list) = S BY Listed
<1>2. << >> \in Seq(S) /\ step \in [1 .. N -> [Seq(S) -> Seq(S)]] BY RoundTyped
<1>3. \A n \in 1 .. N : \A x \in Seq(S) : step[n][x] = Round(list, x) OBVIOUS
<1> HIDE DEF N, step
<1>4. PICK g : Iterates(g, Seq(S), << >>, step, N)
  BY <1>1, <1>2, RecursionExists
<1>5. ASSUME NEW n \in 0 .. N
      PROVE  g[n] = IF n = 0 THEN << >> ELSE Round(list, g[n - 1])
  <2>1. n # 0 => n \in 1 .. N /\ n - 1 \in 0 .. N BY <1>1
  <2> QED BY <1>3, <1>4, <2>1 DEF Iterates
<1>6. g = [n \in 0 .. N |-> IF n = 0 THEN << >> ELSE Round(list, g[n - 1])]
  <2>1. g = [n \in 0 .. N |-> g[n]] BY <1>4 DEF Iterates
  <2> QED BY <1>5, <2>1
<1>7. \E f : f = [n \in 0 .. N |-> IF n = 0 THEN << >> ELSE Round(list, f[n - 1])]
  BY <1>6
<1> DEFINE P == Placed(list)
<1>8. P = [n \in 0 .. N |-> IF n = 0 THEN << >> ELSE Round(list, P[n - 1])]
  BY <1>1, <1>7 DEF Placed, Round
<1> HIDE DEF P
<1>9. P[0] = << >> BY <1>1, <1>8
<1>10. ASSUME NEW n \in 1 .. N PROVE P[n] = Round(list, P[n - 1])
  <2>1. n \in 0 .. N /\ n # 0 BY <1>1
  <2> QED BY <1>8, <2>1
<1> DEFINE T == { n \in Nat : n <= N => P[n] \in Seq(S) }
<1>11. 0 \in T BY <1>2, <1>9
<1>12. ASSUME NEW n \in Nat, n \in T PROVE n + 1 \in T
  <2> SUFFICES ASSUME n + 1 <= N PROVE P[n + 1] \in Seq(S) OBVIOUS
  <2>1. n + 1 \in 1 .. N /\ (n + 1) - 1 = n /\ n <= N BY <1>1
  <2>2. P[n] \in Seq(S) BY <1>12, <2>1
  <2> QED BY <1>10, <2>1, <2>2, RoundTyped
<1> HIDE DEF T
<1>13. \A n \in 0 .. N : P[n] \in Seq(S)
  <2>1. Nat \subseteq T BY <1>11, <1>12, Induction
  <2> QED BY <1>1, <2>1 DEF T
<1>14. P \in [0 .. N -> Seq(S)] BY <1>8, <1>13
<1> QED BY <1>9, <1>10, <1>14 DEF N, P

\* What has been placed after n rounds: n operations, each in turn.
PlacedInTurn(done, n, S) ==
  /\ done \in [1 .. n -> S]
  /\ \A k, m \in 1 .. n : done[k] = done[m] => k = m
  /\ InTurn(done, S)

\* While some are left, one of them is ready, unless some wait for each other.
LEMMA SomeReady ==
  ASSUME NEW S, ~ Waiting(S), NEW list, Lists(list, S), NEW done \in Seq(S),
         Len(done) < Cardinality(S)
  PROVE  Ready(list, done) # {}
<1> DEFINE D == ToSet(done)
           left == S \ D
<1>1. Len(done) \in Nat /\ done \in [1 .. Len(done) -> S] /\ DOMAIN done = 1 .. Len(done)
  BY LenProperties
<1>2. IsFiniteSet(D) /\ Cardinality(D) <= Len(done)
  <2>1. done \in Surjection(1 .. Len(done), D) BY <1>1 DEF Surjection, ToSet
  <2>2. IsFiniteSet(1 .. Len(done)) /\ Cardinality(1 .. Len(done)) = Len(done)
    BY <1>1, FS_Interval
  <2> QED BY <2>1, <2>2, FS_Surjection
<1>3. Cardinality(S) \in Nat BY Listed
<1>4. D # S BY <1>1, <1>2, <1>3
<1>5. D \subseteq S BY <1>1 DEF ToSet
<1> HIDE DEF D
<1>6. left \in SUBSET S /\ left # {} BY <1>4, <1>5
<1>7. PICK x \in left : x.dependencies \cap Ids(left) = {} BY <1>6 DEF Waiting
<1>8. x.dependencies \cap Ids(S) \subseteq Ids(D) BY <1>7 DEF Ids
<1>9. DOMAIN list = 1 .. Cardinality(S) /\ ToSet(list) = S BY Listed
<1>10. PICK i \in DOMAIN list : list[i] = x BY <1>9 DEF Lists
<1>11. i \in Ready(list, done) BY <1>7, <1>8, <1>9, <1>10 DEF Ready, Ids, D
<1> QED BY <1>11

\* A round keeps the turns.
LEMMA RoundInTurn ==
  ASSUME NEW S, ~ Waiting(S), NEW list, Lists(list, S), NEW n \in Nat,
         n < Cardinality(S), NEW done, PlacedInTurn(done, n, S)
  PROVE  PlacedInTurn(Round(list, done), n + 1, S)
<1> DEFINE i == Min(Ready(list, done))
           x == list[i]
           next == Append(done, x)
<1>1. /\ done \in [1 .. n -> S] /\ done \in Seq(S) /\ Len(done) = n
      /\ \A k, m \in 1 .. n : done[k] = done[m] => k = m
      /\ InTurn(done, S)
  BY DEF PlacedInTurn
<1>2. Ready(list, done) # {} BY <1>1, SomeReady
<1>3. ToSet(list) = S /\ DOMAIN list = 1 .. Cardinality(S) /\ Cardinality(S) \in Nat BY Listed
<1>4. i \in Ready(list, done)
  <2>1. Ready(list, done) \subseteq Nat BY <1>3 DEF Ready
  <2> QED BY <1>2, <2>1, LeastTaken
<1>5. Round(list, done) = next BY <1>2 DEF Round
<1> HIDE DEF i
<1>6. /\ x \in S /\ x \notin ToSet(done)
      /\ x.dependencies \cap Ids(S) \subseteq { o.id : o \in ToSet(done) }
  BY <1>3, <1>4 DEF Ready, Lists, Ids
<1> HIDE DEF x
<1>7. ToSet(done) = { done[m] : m \in 1 .. n } BY <1>1 DEF ToSet
<1>8. /\ next \in [1 .. n + 1 -> S] /\ next[n + 1] = x
      /\ \A m \in 1 .. n : next[m] = done[m]
  <2>1. /\ next \in Seq(S) /\ Len(next) = n + 1 /\ next[n + 1] = x
        /\ \A m \in 1 .. n : next[m] = done[m]
    BY <1>1, <1>6, AppendProperties
  <2> HIDE DEF next
  <2> QED BY <2>1, LenProperties
<1> HIDE DEF next
<1>9. \A k, m \in 1 .. n + 1 : next[k] = next[m] => k = m BY <1>1, <1>6, <1>7, <1>8
<1>10. InTurn(next, S)
  <2> SUFFICES ASSUME NEW k \in 1 .. n + 1, NEW d \in next[k].dependencies \cap Ids(S)
               PROVE  \E m \in 1 .. k - 1 : d = next[m].id
    BY <1>8 DEF InTurn
  <2>1. CASE k = n + 1
    <3>1. PICK m \in 1 .. n : d = done[m].id BY <1>6, <1>7, <1>8, <2>1
    <3> QED BY <1>8, <2>1, <3>1
  <2>2. CASE k # n + 1
    <3>1. k \in 1 .. n /\ next[k] = done[k] BY <1>8, <2>2
    <3>2. k \in DOMAIN done BY <1>1, <3>1
    <3>3. d \in { done[m].id : m \in 1 .. k - 1 } BY <1>1, <3>1, <3>2 DEF InTurn
    <3>4. PICK m \in 1 .. k - 1 : d = done[m].id BY <3>3
    <3>5. m \in 1 .. n BY <3>1
    <3> QED BY <1>8, <3>4, <3>5
  <2> QED BY <2>1, <2>2
<1> QED BY <1>5, <1>8, <1>9, <1>10 DEF PlacedInTurn

\* The operations of a group are called once, each in turn.
LEMMA OperationsOrdered ==
  ASSUME NEW S, ~ Waiting(S), NEW list, Lists(list, S)
  PROVE  Lists(OrderOperations(list), S) /\ InTurn(OrderOperations(list), S)
<1> DEFINE N == Cardinality(S)
           P == Placed(list)
<1>1. IsFiniteSet(S) /\ N \in Nat /\ Len(list) = N BY Listed DEF Lists
<1>2. P[0] = << >> /\ \A n \in 1 .. N : P[n] = Round(list, P[n - 1]) BY PlacedExist
<1> HIDE DEF N, P
<1> DEFINE T == { n \in Nat : n <= N => PlacedInTurn(P[n], n, S) }
<1>3. 0 \in T
  <2>1. << >> \in [1 .. 0 -> S] /\ DOMAIN << >> = {} OBVIOUS
  <2> QED BY <1>2, <2>1 DEF PlacedInTurn, InTurn
<1>4. ASSUME NEW n \in Nat, n \in T PROVE n + 1 \in T
  <2> SUFFICES ASSUME n + 1 <= N PROVE PlacedInTurn(P[n + 1], n + 1, S) OBVIOUS
  <2>1. n + 1 \in 1 .. N /\ (n + 1) - 1 = n /\ n < N /\ n <= N BY <1>1
  <2>2. PlacedInTurn(P[n], n, S) BY <1>4, <2>1
  <2>3. PlacedInTurn(Round(list, P[n]), n + 1, S) BY <2>1, <2>2, RoundInTurn DEF N
  <2> QED BY <1>2, <2>1, <2>3
<1> HIDE DEF T
<1>5. N \in T BY <1>1, <1>3, <1>4, Induction
<1>6. PlacedInTurn(P[N], N, S) BY <1>1, <1>5 DEF T
<1>7. OrderOperations(list) = P[N] BY <1>1 DEF OrderOperations, P
<1>8. Lists(P[N], S) BY <1>1, <1>6, FullList DEF PlacedInTurn, N
<1> QED BY <1>6, <1>7, <1>8 DEF PlacedInTurn

\* So do two lists, the second of which waits for nothing later.
LEMMA TurnsJoin ==
  ASSUME NEW A, NEW B, NEW a, NEW b, Lists(a, A), Lists(b, B), NEW S,
         InTurn(a, S), InTurn(b, B),
         \A x \in B : x.dependencies \cap Ids(S) \subseteq Ids(A) \cup Ids(B)
  PROVE  InTurn(a \o b, S)
<1> DEFINE M == Len(a)
           N == Len(b)
           j == a \o b
<1>1. /\ a \in Seq(A \cup B) /\ M \in Nat /\ DOMAIN a = 1 .. M
      /\ b \in Seq(A \cup B) /\ N \in Nat /\ DOMAIN b = 1 .. N
      /\ A = { a[m] : m \in 1 .. M } /\ B = { b[m] : m \in 1 .. N }
  <2>1. a \in Seq(A) /\ DOMAIN a = 1 .. M /\ M \in Nat /\ ToSet(a) = A BY Listed
  <2>2. b \in Seq(B) /\ DOMAIN b = 1 .. N /\ N \in Nat /\ ToSet(b) = B BY Listed
  <2>3. a \in Seq(A \cup B) /\ b \in Seq(A \cup B) BY <2>1, <2>2, SeqMonotonic
  <2> QED BY <2>1, <2>2, <2>3 DEF ToSet
<1>2. /\ DOMAIN j = 1 .. M + N
      /\ \A i \in 1 .. M + N : j[i] = IF i <= M THEN a[i] ELSE b[i - M]
  <2>1. /\ j \in Seq(A \cup B) /\ Len(j) = M + N
        /\ \A i \in 1 .. M + N : j[i] = IF i <= M THEN a[i] ELSE b[i - M]
    BY <1>1, ConcatProperties
  <2> HIDE DEF j
  <2> QED BY <2>1, LenProperties
<1> HIDE DEF M, N, j
<1>3. ASSUME NEW k \in 1 .. M + N, NEW d \in j[k].dependencies \cap Ids(S)
      PROVE  \E m \in 1 .. k - 1 : d = j[m].id
  <2>1. CASE k <= M
    <3>1. k \in DOMAIN a /\ j[k] = a[k] BY <1>1, <1>2, <2>1
    <3>2. d \in { a[m].id : m \in 1 .. k - 1 } BY <1>3, <3>1 DEF InTurn
    <3>3. PICK m \in 1 .. k - 1 : d = a[m].id BY <3>2
    <3>4. m \in 1 .. M + N /\ m <= M BY <1>1, <2>1
    <3> QED BY <1>2, <3>3, <3>4
  <2>2. CASE k > M
    <3>1. k - M \in 1 .. N /\ j[k] = b[k - M] BY <1>1, <1>2, <2>2
    <3>2. j[k] \in B BY <1>1, <3>1
    <3>3. d \in Ids(A) \/ d \in Ids(B) BY <1>3, <3>2
    <3>4. CASE d \in Ids(A)
      <4>1. PICK m \in 1 .. M : d = a[m].id BY <1>1, <3>4 DEF Ids
      <4>2. m \in 1 .. k - 1 /\ m \in 1 .. M + N /\ m <= M BY <1>1, <2>2
      <4> QED BY <1>2, <4>1, <4>2
    <3>5. CASE d \in Ids(B)
      <4>1. k - M \in DOMAIN b BY <1>1, <3>1
      <4>2. d \in { b[m].id : m \in 1 .. (k - M) - 1 } BY <1>3, <3>1, <3>5, <4>1 DEF InTurn
      <4>3. PICK m \in 1 .. (k - M) - 1 : d = b[m].id BY <4>2
      <4>4. /\ M + m \in 1 .. k - 1 /\ M + m \in 1 .. M + N
            /\ ~ (M + m <= M) /\ (M + m) - M = m
        BY <1>1, <2>2
      <4> QED BY <1>2, <4>3, <4>4
    <3> QED BY <3>3, <3>4, <3>5
  <2> QED BY <1>1, <2>1, <2>2
<1>4. InTurn(j, S) BY <1>2, <1>3 DEF InTurn
<1> QED BY <1>4 DEF j

-----------------------------------------------------------------------------
(* Groups *)

Targets(ops) == { o.target : o \in ops }

OfTarget(ops, target) == { o \in ops : o.target = target }

\* A group for each target, which lists its operations; groups are ordered by rank.
Grouping(groups, ops, rank) ==
  LET N == Cardinality(Targets(ops))
  IN /\ Ranks(rank, Targets(ops))
     /\ N \in Nat /\ Len(groups) = N /\ DOMAIN groups = 1 .. N
     /\ \A g \in 1 .. N :
          /\ groups[g] = [target |-> groups[g].target, operations |-> groups[g].operations]
          /\ groups[g].target \in Targets(ops)
          /\ Lists(groups[g].operations, OfTarget(ops, groups[g].target))
     /\ \A t \in Targets(ops) : \E g \in 1 .. N : groups[g].target = t
     /\ \A g, h \in 1 .. N : g < h => rank[groups[g].target] < rank[groups[h].target]

\* No two groups are of one target.
LEMMA GroupsTold ==
  ASSUME NEW groups, NEW ops, NEW rank, Grouping(groups, ops, rank),
         NEW g \in DOMAIN groups, NEW h \in DOMAIN groups
  PROVE  /\ groups[g].target = groups[h].target => g = h
         /\ rank[groups[g].target] <= rank[groups[h].target] <=> g <= h
<1>1. /\ g \in Nat /\ h \in Nat
      /\ rank[groups[g].target] \in Int /\ rank[groups[h].target] \in Int
      /\ g < h => rank[groups[g].target] < rank[groups[h].target]
      /\ h < g => rank[groups[h].target] < rank[groups[g].target]
  BY DEF Grouping, Ranks
<1> QED BY <1>1

\* The groups hold all operations.
LEMMA GroupsHold ==
  ASSUME NEW groups, NEW ops, NEW rank, Grouping(groups, ops, rank)
  PROVE  /\ Operations(groups) = ops
         /\ \A g \in DOMAIN groups :
              ToSet(groups[g].operations) = OfTarget(ops, groups[g].target)
         /\ \A o \in ops : \E g \in DOMAIN groups : groups[g].target = o.target
<1>1. \A g \in DOMAIN groups :
        ToSet(groups[g].operations) = OfTarget(ops, groups[g].target)
  BY Listed DEF Grouping
<1>2. ASSUME NEW o \in ops PROVE \E g \in DOMAIN groups : groups[g].target = o.target
  <2>1. o.target \in Targets(ops) BY DEF Targets
  <2> QED BY <2>1 DEF Grouping
<1>3. Operations(groups) = UNION { OfTarget(ops, groups[g].target) : g \in DOMAIN groups }
  BY <1>1 DEF Operations
<1>4. Operations(groups) = ops BY <1>2, <1>3 DEF OfTarget
<1> QED BY <1>1, <1>2, <1>4

\* The operations of the first groups.
OfFirst(groups, ops, n) == { o \in ops : \E g \in 1 .. n : o.target = groups[g].target }

\* A flattened sequence of groups is what its recursion describes.
LEMMA FlattenedExists ==
  ASSUME NEW groups, NEW ops, NEW rank, Grouping(groups, ops, rank), ops # {}
  PROVE  \E F : /\ Flattened(groups) = F[Len(groups)]
                /\ F[1] = groups[1].operations
                /\ \A n \in 2 .. Len(groups) : F[n] = F[n - 1] \o groups[n].operations
<1> DEFINE N == Len(groups)
           lists == [g \in DOMAIN groups |-> groups[g].operations]
           step == [n \in 1 .. N |->
                      [x \in Seq(ops) |-> IF n = 1 THEN lists[1] ELSE x \o lists[n]]]
<1>1. N \in Nat /\ DOMAIN groups = 1 .. N BY DEF Grouping
<1>2. ASSUME NEW n \in 1 .. N PROVE lists[n] \in Seq(ops)
  <2>1. groups[n].operations \in Seq(OfTarget(ops, groups[n].target))
    BY <1>1, Listed DEF Grouping
  <2>2. groups[n].operations \in Seq(ops)
    BY <2>1, SeqMonotonic, OfTarget(ops, groups[n].target) \subseteq ops DEF OfTarget
  <2> QED BY <1>1, <2>2
<1>3. lists \in Seq(Seq(ops)) /\ Len(lists) = N
  <2>1. lists \in [1 .. N -> Seq(ops)] BY <1>1, <1>2
  <2> HIDE DEF lists
  <2> QED BY <1>1, <2>1
<1>4. N # 0
  <2>1. \E o \in ops : TRUE OBVIOUS
  <2>2. \E g \in DOMAIN groups : TRUE BY <2>1, GroupsHold
  <2> QED BY <1>1, <2>2
<1> HIDE DEF lists, N
<1>5. << >> \in Seq(ops) /\ step \in [1 .. N -> [Seq(ops) -> Seq(ops)]]
  <2>1. ASSUME NEW n \in 1 .. N, NEW x \in Seq(ops)
        PROVE  (IF n = 1 THEN lists[1] ELSE x \o lists[n]) \in Seq(ops)
    BY <1>1, <1>2, ConcatProperties
  <2> QED BY <2>1
<1>6. \A n \in 1 .. N : \A x \in Seq(ops) :
        step[n][x] = IF n = 1 THEN lists[1] ELSE x \o lists[n]
  OBVIOUS
<1> HIDE DEF step
<1>7. PICK g : Iterates(g, Seq(ops), << >>, step, N) BY <1>1, <1>5, RecursionExists
<1> DEFINE f == [i \in 1 .. N |-> g[i]]
<1>8. ASSUME NEW i \in 1 .. N
      PROVE  f[i] = IF i = 1 THEN lists[i] ELSE f[i - 1] \o lists[i]
  <2>1. g[i] = step[i][g[i - 1]] /\ g[i - 1] \in Seq(ops)
    <3>1. i - 1 \in 0 .. N BY <1>1
    <3> QED BY <1>7, <3>1 DEF Iterates
  <2>2. i # 1 => i - 1 \in 1 .. N BY <1>1
  <2> QED BY <1>6, <2>1, <2>2
<1>9. f = [i \in 1 .. Len(lists) |-> IF i = 1 THEN lists[i] ELSE f[i - 1] \o lists[i]]
  <2>1. f = [i \in 1 .. N |-> f[i]] OBVIOUS
  <2> HIDE DEF f
  <2> QED BY <1>3, <1>8, <2>1
<1> DEFINE F == CHOOSE h :
                  h = [i \in 1 .. Len(lists) |-> IF i = 1 THEN lists[i] ELSE h[i - 1] \o lists[i]]
<1>10. F = [i \in 1 .. Len(lists) |-> IF i = 1 THEN lists[i] ELSE F[i - 1] \o lists[i]]
  <2> HIDE DEF f
  <2> QED BY <1>9
<1>11. FlattenSeq(lists) = F[Len(lists)] BY <1>1, <1>3, <1>4 DEF FlattenSeq
<1>12. Flattened(groups) = FlattenSeq(lists) BY DEF Flattened, lists
<1> HIDE DEF F
<1>13. F[1] = lists[1] /\ \A n \in 2 .. N : F[n] = F[n - 1] \o lists[n]
  <2>1. 1 \in 1 .. N /\ \A n \in 2 .. N : n \in 1 .. N /\ n # 1 BY <1>1, <1>4
  <2> QED BY <1>3, <1>10, <2>1
<1>14. lists[1] = groups[1].operations /\ \A n \in 2 .. N : lists[n] = groups[n].operations
  <2>1. 1 \in 1 .. N /\ \A n \in 2 .. N : n \in 1 .. N BY <1>1, <1>4
  <2> QED BY <1>1, <2>1 DEF lists
<1>15. /\ Flattened(groups) = F[N]
       /\ F[1] = groups[1].operations
       /\ \A n \in 2 .. N : F[n] = F[n - 1] \o groups[n].operations
  BY <1>3, <1>11, <1>12, <1>13, <1>14
<1> HIDE DEF f
<1> QED BY <1>15 DEF N

\* No operation waits for one of a later group.
Forward(groups, ops) ==
  \A g, h \in DOMAIN groups :
    \A o \in OfTarget(ops, groups[g].target) : \A p \in OfTarget(ops, groups[h].target) :
      p.id \in o.dependencies => h <= g

GroupsInTurn(groups, ops) ==
  \A g \in DOMAIN groups :
    InTurn(groups[g].operations, OfTarget(ops, groups[g].target))

\* A script calls every operation once, and each in turn if its groups allow it.
LEMMA FlattenedLists ==
  ASSUME NEW groups, NEW ops, NEW rank, Grouping(groups, ops, rank),
         ops # {}, Unambiguous(ops)
  PROVE  /\ Lists(Flattened(groups), ops)
         /\ GroupsInTurn(groups, ops) /\ Forward(groups, ops) => InTurn(Flattened(groups), ops)
<1> DEFINE N == Len(groups)
           A(n) == OfFirst(groups, ops, n)
           B(n) == OfTarget(ops, groups[n].target)
<1>1. N \in Nat /\ DOMAIN groups = 1 .. N BY DEF Grouping
<1>2. PICK F : /\ Flattened(groups) = F[N]
               /\ F[1] = groups[1].operations
               /\ \A n \in 2 .. N : F[n] = F[n - 1] \o groups[n].operations
  BY FlattenedExists
<1>3. \A n \in 1 .. N : Lists(groups[n].operations, B(n)) BY <1>1 DEF Grouping
<1>4. N # 0 /\ A(N) = ops
  <2>1. \A o \in ops : \E g \in 1 .. N : groups[g].target = o.target BY <1>1, GroupsHold
  <2>2. \E o \in ops : TRUE OBVIOUS
  <2>3. N # 0 BY <1>1, <2>1, <2>2
  <2> QED BY <2>1, <2>3 DEF OfFirst
<1>5. 1 \in 1 .. N BY <1>1, <1>4
<1>6. A(1) = B(1)
  <2>1. \A g \in 1 .. 1 : g = 1 OBVIOUS
  <2> QED BY <2>1 DEF OfFirst, OfTarget
<1>7. ASSUME NEW n \in 1 .. N, n + 1 \in 1 .. N
      PROVE  A(n + 1) = A(n) \cup B(n + 1) /\ A(n) \cap B(n + 1) = {}
  <2>1. \A g \in 1 .. n + 1 : g \in 1 .. n \/ g = n + 1 BY <1>1
  <2>2. \A g \in 1 .. n : g \in 1 .. n + 1 /\ g # n + 1 /\ g \in 1 .. N BY <1>1
  <2>3. n + 1 \in 1 .. n + 1 BY <1>1
  <2>4. A(n + 1) = A(n) \cup B(n + 1) BY <2>1, <2>2, <2>3 DEF OfFirst, OfTarget
  <2>5. ASSUME NEW o \in A(n), o \in B(n + 1) PROVE FALSE
    <3>1. PICK g \in 1 .. n : o.target = groups[g].target BY <2>5 DEF OfFirst
    <3>2. o.target = groups[n + 1].target BY <2>5 DEF OfTarget
    <3>3. g \in DOMAIN groups /\ n + 1 \in DOMAIN groups BY <1>1, <1>7, <2>2, <3>1
    <3>4. groups[g].target = groups[n + 1].target BY <3>1, <3>2
    <3>5. g = n + 1 BY <3>3, <3>4, GroupsTold
    <3> QED BY <2>2, <3>1, <3>5
  <2> QED BY <2>4, <2>5
<1>8. ASSUME NEW n \in 1 .. N, n + 1 \in 1 .. N, Forward(groups, ops),
             NEW x \in B(n + 1), NEW d \in x.dependencies \cap Ids(ops)
      PROVE  d \in Ids(A(n)) \cup Ids(B(n + 1))
  <2>1. PICK p \in ops : d = p.id BY DEF Ids
  <2>2. PICK h \in 1 .. N : groups[h].target = p.target BY <1>1, GroupsHold
  <2>3. p \in B(h) BY <2>2 DEF OfTarget
  <2>4. h <= n + 1 BY <1>1, <1>8, <2>1, <2>3 DEF Forward
  <2>5. CASE h = n + 1
    <3>1. p \in B(n + 1) BY <2>3, <2>5
    <3> QED BY <2>1, <3>1 DEF Ids
  <2>6. CASE h # n + 1
    <3>1. h \in 1 .. n BY <1>1, <2>4, <2>6
    <3>2. p \in A(n) BY <2>2, <3>1 DEF OfFirst
    <3> QED BY <2>1, <3>2 DEF Ids
  <2> QED BY <2>5, <2>6
<1> HIDE DEF A, B, N
<1> DEFINE S == { n \in 1 .. N :
                    /\ Lists(F[n], A(n))
                    /\ GroupsInTurn(groups, ops) /\ Forward(groups, ops) => InTurn(F[n], ops) }
<1>9. ASSUME NEW n \in 1 .. N, GroupsInTurn(groups, ops)
      PROVE  InTurn(groups[n].operations, B(n))
  BY <1>1, <1>9 DEF GroupsInTurn, B
<1>10. 1 \in S
  <2>1. Lists(F[1], A(1)) BY <1>2, <1>3, <1>5, <1>6
  <2>2. ASSUME GroupsInTurn(groups, ops), Forward(groups, ops) PROVE InTurn(F[1], ops)
    <3>1. InTurn(F[1], B(1)) BY <1>2, <1>5, <1>9, <2>2
    <3>2. DOMAIN F[1] = 1 .. Len(F[1]) /\ ToSet(F[1]) = B(1)
      BY <1>6, <2>1, Listed
    <3>3. ASSUME NEW n \in DOMAIN F[1], NEW d \in F[1][n].dependencies \cap Ids(ops)
          PROVE  d \in Ids(B(1))
      <4>1. F[1][n] \in B(1) BY <3>2 DEF ToSet
      <4>2. PICK p \in ops : d = p.id BY DEF Ids
      <4>3. PICK h \in 1 .. N : groups[h].target = p.target BY <1>1, GroupsHold
      <4>4. p \in B(h) BY <4>3 DEF OfTarget, B
      <4>5. h <= 1 BY <1>1, <1>5, <2>2, <4>1, <4>2, <4>4 DEF Forward, B
      <4>6. h = 1 BY <4>5
      <4> QED BY <4>2, <4>4, <4>6 DEF Ids
    <3> QED BY <3>1, <3>3 DEF InTurn
  <2> QED BY <1>5, <2>1, <2>2
<1>11. ASSUME NEW n \in 1 .. N, n \in S, n + 1 \in 1 .. N PROVE n + 1 \in S
  <2>1. F[n + 1] = F[n] \o groups[n + 1].operations
    <3>1. n + 1 \in 2 .. N /\ (n + 1) - 1 = n BY <1>1, <1>11
    <3> QED BY <1>2, <3>1
  <2>2. Lists(groups[n + 1].operations, B(n + 1)) BY <1>3, <1>11
  <2>3. Lists(F[n + 1], A(n + 1)) BY <1>7, <1>11, <2>1, <2>2, ListsJoin
  <2>4. ASSUME GroupsInTurn(groups, ops), Forward(groups, ops) PROVE InTurn(F[n + 1], ops)
    <3>1. InTurn(F[n], ops) /\ InTurn(groups[n + 1].operations, B(n + 1))
      BY <1>9, <1>11, <2>4
    <3>2. \A x \in B(n + 1) : x.dependencies \cap Ids(ops) \subseteq Ids(A(n)) \cup Ids(B(n + 1))
      BY <1>8, <1>11, <2>4
    <3> QED BY <1>11, <2>1, <2>2, <3>1, <3>2, TurnsJoin
  <2> QED BY <1>11, <2>3, <2>4
<1> HIDE DEF S
<1>12. N \in S BY <1>1, <1>4, <1>10, <1>11, InductionTo
<1> QED BY <1>2, <1>4, <1>12 DEF S

-----------------------------------------------------------------------------
(* Compilation *)

\* What governance freezes: intents with their identities, that depend on each
\* other and do not wait for each other.
Frozen(intents) ==
  /\ IsFiniteSet(intents)
  /\ Unambiguous(intents)
  /\ \A i \in intents : i.dependencies \subseteq Ids(intents)
  /\ ~ Waiting(intents)

Normalized(intents) == { NormalizeIntent(i) : i \in intents }

\* An operation keeps what an intent is known by and waits for.
LEMMA NormalizedPart ==
  ASSUME NEW i
  PROVE  /\ NormalizeIntent(i).id = i.id
         /\ NormalizeIntent(i).target = i.id.target
         /\ NormalizeIntent(i).dependencies = i.dependencies
BY DEF NormalizeIntent

\* So operations are told apart, and do not wait for each other, as intents.
LEMMA NormalizedKeeps ==
  ASSUME NEW intents, Frozen(intents)
  PROVE  /\ Frozen(Normalized(intents))
         /\ Cardinality(Normalized(intents)) = Cardinality(intents)
         /\ Ids(Normalized(intents)) = Ids(intents)
         /\ Targets(Normalized(intents)) = { i.id.target : i \in intents }
         /\ \A o \in Normalized(intents) : o.target = o.id.target
<1> DEFINE ops == Normalized(intents)
           f == [i \in intents |-> NormalizeIntent(i)]
<1>1. ops = { NormalizeIntent(i) : i \in intents } BY DEF Normalized
<1>2. Ids(ops) = Ids(intents) BY <1>1, NormalizedPart DEF Ids
<1>3. Targets(ops) = { i.id.target : i \in intents } BY <1>1, NormalizedPart DEF Targets
<1> HIDE DEF ops
<1>4. \A i, j \in intents : NormalizeIntent(i) = NormalizeIntent(j) => i = j
  BY NormalizedPart DEF Frozen, Unambiguous
<1>5. f \in Bijection(intents, ops)
  BY <1>1, <1>4 DEF Bijection, Injection, Surjection, IsInjective
<1>6. IsFiniteSet(ops) /\ Cardinality(ops) = Cardinality(intents)
  <2>1. IsFiniteSet(intents) BY DEF Frozen
  <2> HIDE DEF f
  <2>2. ExistsBijection(intents, ops) BY <1>5 DEF ExistsBijection
  <2> QED BY <2>1, <2>2, FS_Bijection
<1>7. Unambiguous(ops) BY <1>1, NormalizedPart DEF Frozen, Unambiguous
<1>8. \A o \in ops : o.dependencies \subseteq Ids(ops) BY <1>1, <1>2, NormalizedPart DEF Frozen
<1>9. ASSUME NEW s \in SUBSET ops, s # {}, \A o \in s : o.dependencies \cap Ids(s) # {}
      PROVE  FALSE
  <2> DEFINE r == { i \in intents : NormalizeIntent(i) \in s }
  <2>1. r \in SUBSET intents /\ r # {} BY <1>1, <1>9
  <2>2. Ids(r) = Ids(s) BY <1>1, NormalizedPart DEF Ids
  <2>3. \A i \in r : i.dependencies \cap Ids(r) # {} BY <1>9, <2>2, NormalizedPart
  <2> QED BY <2>1, <2>3 DEF Frozen, Waiting
<1>10. ~ Waiting(ops) BY <1>9 DEF Waiting
<1>11. \A o \in ops : o.target = o.id.target BY <1>1, NormalizedPart
<1> QED BY <1>2, <1>3, <1>6, <1>7, <1>8, <1>10, <1>11 DEF Frozen, ops

\* An injection into the integers ranks.
LEMMA InjectionRanks ==
  ASSUME NEW S, IsFiniteSet(S), NEW rank \in Injection(S, Int)
  PROVE  Ranks(rank, S)
BY DEF Ranks, Injection, IsInjective

\* The compiler makes a group for each target, in the order of the digests.
LEMMA GroupsMade ==
  ASSUME NEW ops, Frozen(ops), NEW order,
         order.operations \in Injection(Ids(ops), Int),
         order.groups \in Injection(Targets(ops), Int)
  PROVE  Grouping(CreateRequestGroups(ops, order), ops, order.groups)
<1> DEFINE targets == SortedBy(Targets(ops), order.groups)
           N == Cardinality(Targets(ops))
           own(t) == SortedBy(OfTarget(ops, t),
                              [o \in OfTarget(ops, t) |-> order.operations[o.id]])
           groups == CreateRequestGroups(ops, order)
<1>1. groups = [g \in DOMAIN targets |-> [target |-> targets[g], operations |-> own(targets[g])]]
  BY DEF CreateRequestGroups, Targets, OfTarget
<1>2. IsFiniteSet(ops) /\ Unambiguous(ops) BY DEF Frozen
<1>3. IsFiniteSet(Targets(ops))
  <2> DEFINE f == [o \in ops |-> o.target]
  <2>1. f \in Surjection(ops, Targets(ops)) BY DEF Surjection, Targets
  <2> HIDE DEF f
  <2> QED BY <1>2, <2>1, FS_Surjection
<1>4. Ranks(order.groups, Targets(ops)) BY <1>3, InjectionRanks
<1>5. /\ N \in Nat /\ targets \in [1 .. N -> Targets(ops)]
      /\ \A t \in Targets(ops) : \E g \in 1 .. N : targets[g] = t
      /\ \A g, h \in 1 .. N : g < h => order.groups[targets[g]] < order.groups[targets[h]]
  BY <1>4, Sorted DEF Sorts
<1>6. ASSUME NEW t \in Targets(ops) PROVE Lists(own(t), OfTarget(ops, t))
  <2> DEFINE S == OfTarget(ops, t)
             rank == [o \in S |-> order.operations[o.id]]
  <2>1. S \subseteq ops BY DEF OfTarget
  <2>2. IsFiniteSet(S) BY <1>2, <2>1, FS_Subset
  <2>3. \A o \in S : o.id \in Ids(ops) BY <2>1 DEF Ids
  <2>4. \A x, y \in Ids(ops) : /\ order.operations[x] \in Int
                               /\ order.operations[x] = order.operations[y] => x = y
    BY DEF Injection, IsInjective
  <2>5. \A o \in S : rank[o] \in Int BY <2>3, <2>4
  <2>6. ASSUME NEW o \in S, NEW p \in S, rank[o] = rank[p] PROVE o = p
    <3>1. o.id = p.id BY <2>3, <2>4, <2>6
    <3> QED BY <1>2, <2>1, <3>1 DEF Unambiguous
  <2>7. Ranks(rank, S) BY <2>2, <2>5, <2>6 DEF Ranks
  <2> QED BY <2>7, SortedLists
<1> HIDE DEF targets, N, own, groups
<1>7. DOMAIN groups = 1 .. N /\ Len(groups) = N BY <1>1, <1>5
<1>8. ASSUME NEW g \in 1 .. N
      PROVE  /\ groups[g] = [target |-> targets[g], operations |-> own(targets[g])]
             /\ groups[g].target = targets[g] /\ groups[g].operations = own(targets[g])
  BY <1>1, <1>5
<1>9. \A g \in 1 .. N : /\ groups[g].target \in Targets(ops)
                        /\ Lists(groups[g].operations, OfTarget(ops, groups[g].target))
  BY <1>5, <1>6, <1>8
<1> QED BY <1>4, <1>5, <1>7, <1>8, <1>9 DEF Grouping, N, groups

\* What does not wait for itself does not in part either.
LEMMA PartNotWaiting ==
  ASSUME NEW ops, ~ Waiting(ops), NEW part, part \subseteq ops
  PROVE  ~ Waiting(part)
<1>1. \A s \in SUBSET part : s \in SUBSET ops OBVIOUS
<1> QED BY <1>1 DEF Waiting

\* The renderer calls the operations of each group in turn, and leaves none out.
LEMMA GroupsOrdered ==
  ASSUME NEW ops, ~ Waiting(ops), NEW groups, NEW rank, Grouping(groups, ops, rank)
  PROVE  /\ Grouping(OrderGroups(groups), ops, rank)
         /\ GroupsInTurn(OrderGroups(groups), ops)
         /\ \A g \in DOMAIN groups :
              Len(OrderOperations(groups[g].operations)) = Len(groups[g].operations)
<1> DEFINE N == Cardinality(Targets(ops))
           turned == OrderGroups(groups)
<1>1. /\ Ranks(rank, Targets(ops))
      /\ N \in Nat /\ Len(groups) = N /\ DOMAIN groups = 1 .. N
      /\ \A g \in 1 .. N :
           /\ groups[g] = [target |-> groups[g].target, operations |-> groups[g].operations]
           /\ groups[g].target \in Targets(ops)
           /\ Lists(groups[g].operations, OfTarget(ops, groups[g].target))
      /\ \A t \in Targets(ops) : \E g \in 1 .. N : groups[g].target = t
      /\ \A g, h \in 1 .. N : g < h => rank[groups[g].target] < rank[groups[h].target]
  BY DEF Grouping
<1> HIDE DEF N
<1>2. turned = [g \in 1 .. N |-> [groups[g] EXCEPT !.operations = OrderOperations(@)]]
  BY <1>1 DEF OrderGroups
<1> HIDE DEF turned
<1>3. ASSUME NEW g \in 1 .. N
      PROVE  /\ turned[g] = [target |-> groups[g].target,
                             operations |-> OrderOperations(groups[g].operations)]
             /\ turned[g].target = groups[g].target
             /\ turned[g].operations = OrderOperations(groups[g].operations)
  <2>1. turned[g] = [groups[g] EXCEPT !.operations = OrderOperations(@)] BY <1>2
  <2>2. groups[g] = [target |-> groups[g].target, operations |-> groups[g].operations] BY <1>1
  <2>3. turned[g] = [target |-> groups[g].target,
                     operations |-> OrderOperations(groups[g].operations)]
    BY <2>1, <2>2
  <2> QED BY <2>3
<1>4. Len(turned) = N /\ DOMAIN turned = 1 .. N BY <1>1, <1>2
<1>5. ASSUME NEW g \in 1 .. N
      PROVE  /\ Lists(turned[g].operations, OfTarget(ops, turned[g].target))
             /\ InTurn(turned[g].operations, OfTarget(ops, turned[g].target))
             /\ Len(OrderOperations(groups[g].operations)) = Len(groups[g].operations)
  <2> DEFINE S == OfTarget(ops, groups[g].target)
  <2>1. ~ Waiting(S) BY PartNotWaiting DEF OfTarget
  <2>2. Lists(groups[g].operations, S) BY <1>1
  <2> HIDE DEF S
  <2>3. Lists(OrderOperations(groups[g].operations), S)
        /\ InTurn(OrderOperations(groups[g].operations), S)
    BY <2>1, <2>2, OperationsOrdered
  <2>4. Len(OrderOperations(groups[g].operations)) = Len(groups[g].operations)
    BY <2>2, <2>3, Listed
  <2> QED BY <1>3, <2>3, <2>4 DEF S
<1>6. Grouping(turned, ops, rank) BY <1>1, <1>3, <1>4, <1>5 DEF Grouping, N
<1>7. GroupsInTurn(turned, ops) BY <1>4, <1>5 DEF GroupsInTurn
<1> QED BY <1>1, <1>5, <1>6, <1>7 DEF turned

\* Groups are in order where their targets are.
LEMMA ForwardByRank ==
  ASSUME NEW ops, NEW groups, NEW rank, Grouping(groups, ops, rank)
  PROVE  Forward(groups, ops) <=>
           \A o, p \in ops : p.id \in o.dependencies => rank[p.target] <= rank[o.target]
<1>1. \A o \in ops : \E g \in DOMAIN groups : groups[g].target = o.target BY GroupsHold
<1>2. ASSUME Forward(groups, ops), NEW o \in ops, NEW p \in ops, p.id \in o.dependencies
      PROVE  rank[p.target] <= rank[o.target]
  <2>1. PICK g \in DOMAIN groups : groups[g].target = o.target BY <1>1
  <2>2. PICK h \in DOMAIN groups : groups[h].target = p.target BY <1>1
  <2>3. o \in OfTarget(ops, groups[g].target) /\ p \in OfTarget(ops, groups[h].target)
    BY <2>1, <2>2 DEF OfTarget
  <2>4. h <= g BY <1>2, <2>3 DEF Forward
  <2>5. rank[groups[h].target] <= rank[groups[g].target] BY <2>4, GroupsTold
  <2> QED BY <2>1, <2>2, <2>5
<1>3. ASSUME \A o, p \in ops : p.id \in o.dependencies => rank[p.target] <= rank[o.target],
             NEW g \in DOMAIN groups, NEW h \in DOMAIN groups,
             NEW o \in OfTarget(ops, groups[g].target),
             NEW p \in OfTarget(ops, groups[h].target), p.id \in o.dependencies
      PROVE  h <= g
  <2>1. /\ o \in ops /\ o.target = groups[g].target
        /\ p \in ops /\ p.target = groups[h].target
    BY DEF OfTarget
  <2>2. rank[groups[h].target] <= rank[groups[g].target] BY <1>3, <2>1
  <2> QED BY <2>2, GroupsTold
<1> QED BY <1>2, <1>3 DEF Forward

\* The renderer accepts the dependencies of frozen intents whose groups are in order.
LEMMA GraphByRank ==
  ASSUME NEW ops, Frozen(ops), NEW groups, NEW rank, Grouping(groups, ops, rank)
  PROVE  ValidDependencyGraph(groups) <=> Forward(groups, ops)
<1>1. Operations(groups) = ops BY GroupsHold
<1>2. IsFiniteSet(ops) /\ Unambiguous(ops) /\ ~ Waiting(ops)
      /\ \A o \in ops : o.dependencies \subseteq Ids(ops)
  BY DEF Frozen
<1>3. Acyclic(ops) BY <1>2, AcyclicUnlessWaiting
<1>4. ASSUME NEW o \in ops PROVE o.dependencies \subseteq Ids(ops) \ {o.id}
  <2>1. {o} \in SUBSET ops /\ {o} # {} /\ Ids({o}) = {o.id} BY DEF Ids
  <2>2. ASSUME o.id \in o.dependencies PROVE FALSE
    <3>1. \A i \in {o} : i.dependencies \cap Ids({o}) # {} BY <2>1, <2>2
    <3> QED BY <1>2, <2>1, <3>1 DEF Waiting
  <2> QED BY <1>2, <2>2
<1>5. ASSUME NEW o \in ops, NEW g \in DOMAIN groups, groups[g].target = o.target
      PROVE  GroupOf(groups, o.id) = g
  <2>1. \A h \in DOMAIN groups :
          ToSet(groups[h].operations) = OfTarget(ops, groups[h].target)
    BY GroupsHold
  <2>2. o \in ToSet(groups[g].operations) BY <1>5, <2>1 DEF OfTarget
  <2>3. ASSUME NEW h \in DOMAIN groups, \E p \in ToSet(groups[h].operations) : p.id = o.id
        PROVE  h = g
    <3>1. PICK p \in ToSet(groups[h].operations) : p.id = o.id BY <2>3
    <3>2. p \in ops /\ p.target = groups[h].target BY <2>1, <3>1 DEF OfTarget
    <3>3. p = o BY <1>2, <3>1, <3>2 DEF Unambiguous
    <3>4. groups[h].target = groups[g].target BY <1>5, <3>2, <3>3
    <3> QED BY <3>4, GroupsTold
  <2> QED BY <2>2, <2>3 DEF GroupOf
<1>6. \A o \in ops : \E g \in DOMAIN groups : groups[g].target = o.target BY GroupsHold
<1> DEFINE Told == \A o \in ops : \A d \in o.dependencies :
                     GroupOf(groups, d) <= GroupOf(groups, o.id)
<1>7. ValidDependencyGraph(groups) <=> Told
  BY <1>1, <1>3, <1>4 DEF ValidDependencyGraph, Ids
<1>8. ASSUME Told, NEW g \in DOMAIN groups, NEW h \in DOMAIN groups,
             NEW o \in OfTarget(ops, groups[g].target),
             NEW p \in OfTarget(ops, groups[h].target), p.id \in o.dependencies
      PROVE  h <= g
  <2>1. /\ o \in ops /\ groups[g].target = o.target
        /\ p \in ops /\ groups[h].target = p.target
    BY DEF OfTarget
  <2>2. GroupOf(groups, o.id) = g /\ GroupOf(groups, p.id) = h BY <1>5, <2>1
  <2>3. GroupOf(groups, p.id) <= GroupOf(groups, o.id) BY <1>8, <2>1
  <2> QED BY <2>2, <2>3
<1>9. ASSUME Forward(groups, ops), NEW o \in ops, NEW d \in o.dependencies
      PROVE  GroupOf(groups, d) <= GroupOf(groups, o.id)
  <2>1. PICK p \in ops : d = p.id BY <1>2 DEF Ids
  <2>2. PICK g \in DOMAIN groups : groups[g].target = o.target BY <1>6
  <2>3. PICK h \in DOMAIN groups : groups[h].target = p.target BY <1>6
  <2>4. o \in OfTarget(ops, groups[g].target) /\ p \in OfTarget(ops, groups[h].target)
    BY <2>2, <2>3 DEF OfTarget
  <2>5. h <= g BY <1>9, <2>1, <2>4 DEF Forward
  <2>6. GroupOf(groups, o.id) = g /\ GroupOf(groups, p.id) = h BY <1>5, <2>2, <2>3
  <2> QED BY <2>1, <2>5, <2>6
<1> QED BY <1>7, <1>8, <1>9 DEF Forward

-----------------------------------------------------------------------------
(* The script *)

\* The calls of a script, as the renderer flattens the groups.
Called(groups) == Flattened(OrderGroups(groups))

\* In terms of these, an answer of the renderer is made of these parts.
LEMMA RenderedMade ==
  ASSUME NEW spec
  PROVE  LET operations == Called(spec.groups)
             answer == RenderK6ApiSource(spec)
         IN /\ answer.ok <=> /\ ValidRendererInput(spec)
                             /\ "unsafe" \notin UNION { o.texts : o \in ToSet(operations) }
            /\ answer.ok =>
                 /\ answer.source.calls
                      = [i \in DOMAIN operations |-> RenderOperation(operations[i])]
                 /\ answer.source.options = RenderOptions(ToSet(operations))
                 /\ answer.source.helpers <=> \E o \in ToSet(operations) : HasJsonAssertions(o)
                 /\ answer.source.texts = UNION { o.texts : o \in ToSet(operations) }
                 /\ answer.operationCount = Len(operations)
                 /\ answer.assertionCount
                      = Total([i \in DOMAIN operations |-> Cardinality(operations[i].assertions)])
                 /\ answer.thresholdCount
                      = Total([i \in DOMAIN operations |-> Cardinality(operations[i].thresholds)])
<1> DEFINE operations == Called(spec.groups)
           source == RenderSourceDocument(OrderGroups(spec.groups))
           texts == UNION { o.texts : o \in ToSet(operations) }
           assertions == Total([i \in DOMAIN operations |-> Cardinality(operations[i].assertions)])
           thresholds == Total([i \in DOMAIN operations |-> Cardinality(operations[i].thresholds)])
           answer == RenderK6ApiSource(spec)
           accepted == ValidRendererInput(spec) /\ ValidRenderedSourceText(source)
<1>1. source = [ calls |-> [i \in DOMAIN operations |-> RenderOperation(operations[i])],
                 options |-> RenderOptions(ToSet(operations)),
                 helpers |-> \E o \in ToSet(operations) : HasJsonAssertions(o),
                 texts |-> texts ]
  BY DEF RenderSourceDocument, Called
<1>2. answer = IF accepted
               THEN [ ok |-> TRUE, source |-> source, operationCount |-> Len(operations),
                      assertionCount |-> assertions, thresholdCount |-> thresholds ]
               ELSE Refused
  BY DEF RenderK6ApiSource, Called
<1> HIDE DEF operations, texts, assertions, thresholds, answer
<1>3. accepted <=> ValidRendererInput(spec) /\ "unsafe" \notin texts
  BY <1>1 DEF ValidRenderedSourceText
<1>4. /\ source.calls = [i \in DOMAIN operations |-> RenderOperation(operations[i])]
      /\ source.options = RenderOptions(ToSet(operations))
      /\ source.helpers <=> \E o \in ToSet(operations) : HasJsonAssertions(o)
      /\ source.texts = texts
  BY <1>1
<1> HIDE DEF source, accepted
<1>5. answer.ok <=> accepted BY <1>2 DEF Refused
<1>6. answer.ok => /\ answer.source = source
                   /\ answer.operationCount = Len(operations)
                   /\ answer.assertionCount = assertions
                   /\ answer.thresholdCount = thresholds
  BY <1>2, <1>5
<1> QED BY <1>3, <1>4, <1>5, <1>6 DEF answer, operations, texts, assertions, thresholds

Compilation(input) == CompileK6ApiExecutionSpec(input.intents, input.order)

\* What was compiled without being refused: all intents, in groups by the digests.
Compiled(input) ==
  /\ Frozen(input.intents)
  /\ Ranked(input.order, input.intents)
  /\ Compilation(input).ok

\* In terms of what was compiled, what was grouped.
LEMMA CompiledMade ==
  ASSUME NEW input, Compiled(input)
  PROVE  LET ops == Normalized(input.intents)
             groups == Compilation(input).groups
         IN /\ Grouping(groups, ops, input.order.groups)
            /\ Frozen(ops)
            /\ ops # {}
            /\ \A i \in input.intents : NormalizableIntent(i)
<1> DEFINE intents == input.intents
           ops == Normalized(intents)
           order == input.order
           answer == Compilation(input)
           accepted == /\ intents # {}
                       /\ \A i \in intents : NormalizableIntent(i)
                       /\ \A o \in ops : o.dependencies \subseteq { p.id : p \in ops }
<1>1. answer = IF accepted
               THEN [ok |-> TRUE, groups |-> CreateRequestGroups(ops, order)]
               ELSE Refused
  BY DEF Compilation, CompileK6ApiExecutionSpec, Normalized
<1>2. answer.ok /\ Frozen(intents) /\ Ranked(order, intents) BY DEF Compiled
<1> HIDE DEF answer, ops
<1>3. accepted BY <1>1, <1>2 DEF Refused
<1>4. answer.groups = CreateRequestGroups(ops, order) BY <1>1, <1>3
<1>5. ops # {} BY <1>3 DEF ops, Normalized
<1>6. /\ Frozen(ops) /\ Ids(ops) = Ids(intents)
      /\ Targets(ops) = { i.id.target : i \in intents }
  BY <1>2, NormalizedKeeps DEF ops
<1>7. /\ order.operations \in Injection(Ids(ops), Int)
      /\ order.groups \in Injection(Targets(ops), Int)
  BY <1>2, <1>6 DEF Ranked, Ids
<1>8. Grouping(CreateRequestGroups(ops, order), ops, order.groups) BY <1>6, <1>7, GroupsMade
<1> QED BY <1>3, <1>4, <1>5, <1>6, <1>8 DEF answer, ops

\* A script lists the operations; and if the groups are in order, each is in turn.
LEMMA CalledInTurn ==
  ASSUME NEW input, Compiled(input)
  PROVE  LET ops == Normalized(input.intents)
             groups == Compilation(input).groups
         IN /\ Lists(Called(groups), ops)
            /\ ValidDependencyGraph(groups) => InTurn(Called(groups), ops)
<1> DEFINE ops == Normalized(input.intents)
           groups == Compilation(input).groups
           rank == input.order.groups
           turned == OrderGroups(groups)
<1>1. Grouping(groups, ops, rank) /\ Frozen(ops) /\ ops # {} BY CompiledMade
<1> HIDE DEF ops, groups, rank
<1>2. ~ Waiting(ops) /\ Unambiguous(ops) BY <1>1 DEF Frozen
<1>3. Grouping(turned, ops, rank) /\ GroupsInTurn(turned, ops) BY <1>1, <1>2, GroupsOrdered
<1>4. ValidDependencyGraph(groups) <=> Forward(groups, ops) BY <1>1, GraphByRank
<1>5. Forward(turned, ops) <=> Forward(groups, ops) BY <1>1, <1>3, ForwardByRank
<1> HIDE DEF turned
<1>6. /\ Lists(Flattened(turned), ops)
      /\ GroupsInTurn(turned, ops) /\ Forward(turned, ops) => InTurn(Flattened(turned), ops)
  BY <1>1, <1>2, <1>3, FlattenedLists
<1>7. Called(groups) = Flattened(turned) BY DEF Called, turned
<1> QED BY <1>3, <1>4, <1>5, <1>6, <1>7 DEF ops, groups

Rendering(input) == RenderK6ApiSource(Compilation(input))

-----------------------------------------------------------------------------
(* What is accepted *)

\* Assertions and thresholds of different fields are different.
LEMMA FieldsTold ==
  /\ \A a, b \in AssertionFields : AssertionOf[a] = AssertionOf[b] => a = b
  /\ \A s, t \in ThresholdFields : ThresholdOf[s] = ThresholdOf[t] => s = t
  /\ \A t \in ThresholdFields :
       /\ ThresholdOf[t].metric = "HTTP_REQUEST_DURATION_MS" <=> t = "maxDurationMs"
       /\ ValidThreshold(ThresholdOf[t])
<1>1. /\ AssertionOf["statusCodes"] = [kind |-> "STATUS_CODE_IN", operator |-> "IN"]
      /\ AssertionOf["jsonPathExists"] = [kind |-> "JSON_PATH_EXISTS", operator |-> "EXISTS"]
      /\ AssertionOf["jsonPathEquals"] = [kind |-> "JSON_PATH_EQUALS", operator |-> "EQUALS"]
  BY DEF AssertionOf
<1>2. /\ AssertionOf["statusCodes"].kind = "STATUS_CODE_IN"
      /\ AssertionOf["jsonPathExists"].kind = "JSON_PATH_EXISTS"
      /\ AssertionOf["jsonPathEquals"].kind = "JSON_PATH_EQUALS"
  BY <1>1
<1>3. \A a, b \in AssertionFields : AssertionOf[a] = AssertionOf[b] => a = b
  BY <1>2 DEF AssertionFields
<1>4. /\ ThresholdOf["maxDurationMs"] = [metric |-> "HTTP_REQUEST_DURATION_MS",
                                         operator |-> "LESS_THAN_OR_EQUAL"]
      /\ ThresholdOf["maxFailureRate"] = [metric |-> "CHECK_FAILURE_RATE",
                                          operator |-> "LESS_THAN_OR_EQUAL"]
      /\ ThresholdOf["minChecksRate"] = [metric |-> "CHECK_SUCCESS_RATE",
                                         operator |-> "GREATER_THAN_OR_EQUAL"]
  BY DEF ThresholdOf
<1>5. /\ ThresholdOf["maxDurationMs"].metric = "HTTP_REQUEST_DURATION_MS"
      /\ ThresholdOf["maxFailureRate"].metric = "CHECK_FAILURE_RATE"
      /\ ThresholdOf["minChecksRate"].metric = "CHECK_SUCCESS_RATE"
      /\ ThresholdOf["maxDurationMs"].operator = "LESS_THAN_OR_EQUAL"
      /\ ThresholdOf["maxFailureRate"].operator = "LESS_THAN_OR_EQUAL"
      /\ ThresholdOf["minChecksRate"].operator = "GREATER_THAN_OR_EQUAL"
  BY <1>4
<1>6. \A s, t \in ThresholdFields : ThresholdOf[s] = ThresholdOf[t] => s = t
  BY <1>5 DEF ThresholdFields
<1>7. \A t \in ThresholdFields :
        ThresholdOf[t].metric = "HTTP_REQUEST_DURATION_MS" <=> t = "maxDurationMs"
  BY <1>5 DEF ThresholdFields
<1>8. ASSUME NEW t \in ThresholdFields PROVE ValidThreshold(ThresholdOf[t])
  <2>1. \/ ThresholdOf[t].operator = "LESS_THAN_OR_EQUAL"
        \/ /\ ThresholdOf[t].operator = "GREATER_THAN_OR_EQUAL"
           /\ ThresholdOf[t].metric # "HTTP_REQUEST_DURATION_MS"
    BY <1>5 DEF ThresholdFields
  <2> QED BY <2>1 DEF ValidThreshold
<1> QED BY <1>3, <1>6, <1>7, <1>8

\* The keys that an operation's thresholds have in the options.
KeysOf(o) == { << MetricKey(t), o.id >> : t \in o.thresholds }

\* What an operation says, in terms of its intent.
SaysAsIntent(o, i) ==
  /\ o.queryParameters <=> "queryParameters" \in DOMAIN i.id.input
  /\ o.texts = Texts(i.id)
  /\ o.assertions # {} /\ \A a \in o.assertions : ValidAssertion(a)
  /\ \A t \in o.thresholds : ValidThreshold(t)
  /\ Cardinality(o.assertions) = Cardinality(DOMAIN i.id.assertions)
  /\ Cardinality(o.thresholds) = Cardinality(DOMAIN i.id.thresholds)
  /\ Cardinality(o.thresholds) \in Nat
  /\ HasJsonAssertions(o) <=> DOMAIN i.id.assertions \ {"statusCodes"} # {}
  /\ KeysOf(o) # {} <=> DOMAIN i.id.thresholds # {}
  /\ IsFiniteSet(KeysOf(o))
  /\ Cardinality(KeysOf(o)) <= Cardinality(o.thresholds)
  /\ Cardinality(KeysOf(o)) = Cardinality(o.thresholds)
       <=> ~ ({"maxFailureRate", "minChecksRate"} \subseteq DOMAIN i.id.thresholds)

\* It says that: a duration and a rate have a key each, and two rates share one.
LEMMA NormalizedSays ==
  ASSUME NEW i, NormalizableIntent(i)
  PROVE  SaysAsIntent(NormalizeIntent(i), i)
<1> DEFINE o == NormalizeIntent(i)
           A == DOMAIN i.id.assertions
           T == DOMAIN i.id.thresholds
           f == [a \in A |-> AssertionOf[a]]
           g == [t \in T |-> ThresholdOf[t]]
           key(t) == << MetricKey(ThresholdOf[t]), i.id >>
           h == [t \in T |-> key(t)]
<1>1. A \subseteq AssertionFields /\ A # {} /\ T \subseteq ThresholdFields
  BY DEF NormalizableIntent, NormalizableAssertions, NormalizableThresholds
<1>2. /\ o.id = i.id
      /\ o.queryParameters <=> "queryParameters" \in DOMAIN i.id.input
      /\ o.texts = Texts(i.id)
      /\ o.assertions = { AssertionOf[a] : a \in A }
      /\ o.thresholds = { ThresholdOf[t] : t \in T }
  BY DEF NormalizeIntent
<1> HIDE DEF o, A, T
<1>3. IsFiniteSet(A) /\ IsFiniteSet(T)
  <2>1. IsFiniteSet({"statusCodes", "jsonPathExists", "jsonPathEquals"})
    <3>1. IsFiniteSet({"statusCodes"}) BY FS_Singleton
    <3>2. IsFiniteSet({"statusCodes"} \cup {"jsonPathExists"}) BY <3>1, FS_AddElement
    <3>3. IsFiniteSet(({"statusCodes"} \cup {"jsonPathExists"}) \cup {"jsonPathEquals"})
      BY <3>2, FS_AddElement
    <3>4. ({"statusCodes"} \cup {"jsonPathExists"}) \cup {"jsonPathEquals"}
            = {"statusCodes", "jsonPathExists", "jsonPathEquals"}
      OBVIOUS
    <3> QED BY <3>3, <3>4
  <2>2. IsFiniteSet({"maxDurationMs", "maxFailureRate", "minChecksRate"})
    <3>1. IsFiniteSet({"maxDurationMs"}) BY FS_Singleton
    <3>2. IsFiniteSet({"maxDurationMs"} \cup {"maxFailureRate"}) BY <3>1, FS_AddElement
    <3>3. IsFiniteSet(({"maxDurationMs"} \cup {"maxFailureRate"}) \cup {"minChecksRate"})
      BY <3>2, FS_AddElement
    <3>4. ({"maxDurationMs"} \cup {"maxFailureRate"}) \cup {"minChecksRate"}
            = {"maxDurationMs", "maxFailureRate", "minChecksRate"}
      OBVIOUS
    <3> QED BY <3>3, <3>4
  <2> QED BY <1>1, <2>1, <2>2, FS_Subset DEF AssertionFields, ThresholdFields
<1>4. Cardinality(o.assertions) = Cardinality(A)
  <2>1. f \in Bijection(A, o.assertions)
    BY <1>1, <1>2, FieldsTold DEF Bijection, Injection, Surjection, IsInjective
  <2> HIDE DEF f
  <2>2. ExistsBijection(A, o.assertions) BY <2>1 DEF ExistsBijection
  <2> QED BY <1>3, <2>2, FS_Bijection
<1>5. Cardinality(o.thresholds) = Cardinality(T) /\ Cardinality(T) \in Nat
  <2>1. g \in Bijection(T, o.thresholds)
    BY <1>1, <1>2, FieldsTold DEF Bijection, Injection, Surjection, IsInjective
  <2> HIDE DEF g
  <2>2. ExistsBijection(T, o.thresholds) BY <2>1 DEF ExistsBijection
  <2> QED BY <1>3, <2>2, FS_Bijection, FS_CardinalityType
<1>6. KeysOf(o) = { key(t) : t \in T } BY <1>2 DEF KeysOf
<1>7. \A s, t \in T : key(s) = key(t) <=> (s = "maxDurationMs" <=> t = "maxDurationMs")
  <2>1. \A t \in T : MetricKey(ThresholdOf[t])
                       = IF t = "maxDurationMs" THEN "http_req_duration" ELSE "checks"
    BY <1>1, FieldsTold DEF MetricKey
  <2> QED BY <2>1
<1> HIDE DEF key
<1>8. h \in Surjection(T, KeysOf(o)) BY <1>6 DEF Surjection
<1>9. h \in Injection(T, KeysOf(o)) <=> ~ ({"maxFailureRate", "minChecksRate"} \subseteq T)
  <2>1. h \in [T -> KeysOf(o)] BY <1>6
  <2>2. h \in Injection(T, KeysOf(o)) <=> \A s, t \in T : key(s) = key(t) => s = t
    BY <2>1 DEF Injection, IsInjective
  <2>3. \A t \in T : t \in {"maxDurationMs", "maxFailureRate", "minChecksRate"}
    BY <1>1 DEF ThresholdFields
  <2> HIDE DEF h
  <2> QED BY <1>7, <2>2, <2>3
<1> HIDE DEF h
<1>10. /\ IsFiniteSet(KeysOf(o)) /\ Cardinality(KeysOf(o)) <= Cardinality(T)
       /\ Cardinality(KeysOf(o)) = Cardinality(T) <=> h \in Injection(T, KeysOf(o))
  BY <1>3, <1>8, FS_Surjection
<1>11. /\ o.assertions # {} /\ \A a \in o.assertions : ValidAssertion(a)
       /\ \A t \in o.thresholds : ValidThreshold(t)
  BY <1>1, <1>2, FieldsTold DEF ValidAssertion
<1>12. HasJsonAssertions(o) <=> A \ {"statusCodes"} # {}
  <2>1. "statusCodes" \in AssertionFields BY DEF AssertionFields
  <2>2. \A a \in A : AssertionOf[a] = AssertionOf["statusCodes"] <=> a = "statusCodes"
    BY <1>1, <2>1, FieldsTold
  <2> QED BY <1>2, <2>2 DEF HasJsonAssertions
<1>13. KeysOf(o) # {} <=> T # {} BY <1>6
<1> QED BY <1>2, <1>4, <1>5, <1>9, <1>10, <1>11, <1>12, <1>13 DEF SaysAsIntent, o, A, T

\* A sum of numbers is what its recursion describes.
LEMMA TotalExists ==
  ASSUME NEW N \in Nat, NEW counts \in [1 .. N -> Nat]
  PROVE  \E F \in [0 .. N -> Nat] :
           /\ Total(counts) = F[N] /\ F[0] = 0
           /\ \A n \in 1 .. N : F[n] = F[n - 1] + counts[n]
<1> DEFINE step == [n \in 1 .. N |-> [x \in Nat |-> x + counts[n]]]
<1>1. Len(counts) = N OBVIOUS
<1>2. 0 \in Nat /\ step \in [1 .. N -> [Nat -> Nat]] OBVIOUS
<1>3. \A n \in 1 .. N : \A x \in Nat : step[n][x] = x + counts[n] OBVIOUS
<1> HIDE DEF step
<1>4. PICK g : Iterates(g, Nat, 0, step, N) BY <1>2, RecursionExists
<1>5. /\ g \in [0 .. N -> Nat] /\ g[0] = 0
      /\ \A n \in 1 .. N : g[n] = step[n][g[n - 1]]
  BY <1>4 DEF Iterates
<1>6. ASSUME NEW n \in 0 .. N PROVE g[n] = IF n = 0 THEN 0 ELSE g[n - 1] + counts[n]
  <2>1. n # 0 => n \in 1 .. N /\ n - 1 \in 0 .. N OBVIOUS
  <2> QED BY <1>3, <1>5, <2>1
<1>7. g = [n \in 0 .. N |-> IF n = 0 THEN 0 ELSE g[n - 1] + counts[n]]
  <2>1. g = [n \in 0 .. N |-> g[n]] BY <1>5
  <2> QED BY <1>6, <2>1
<1> DEFINE F == CHOOSE f : f = [n \in 0 .. N |-> IF n = 0 THEN 0 ELSE f[n - 1] + counts[n]]
<1>8. F = [n \in 0 .. N |-> IF n = 0 THEN 0 ELSE F[n - 1] + counts[n]] BY <1>7
<1>9. Total(counts) = F[N] BY <1>1 DEF Total
<1> HIDE DEF F
<1>10. F[0] = 0 BY <1>8
<1>11. ASSUME NEW n \in 1 .. N PROVE F[n] = F[n - 1] + counts[n]
  <2>1. n \in 0 .. N /\ n # 0 OBVIOUS
  <2> QED BY <1>8, <2>1
<1> DEFINE S == { n \in Nat : n <= N => F[n] \in Nat }
<1>12. 0 \in S BY <1>10
<1>13. ASSUME NEW n \in Nat, n \in S PROVE n + 1 \in S
  <2> SUFFICES ASSUME n + 1 <= N PROVE F[n + 1] \in Nat OBVIOUS
  <2>1. n + 1 \in 1 .. N /\ (n + 1) - 1 = n /\ n <= N OBVIOUS
  <2>2. F[n] \in Nat /\ counts[n + 1] \in Nat BY <1>13, <2>1
  <2> QED BY <1>11, <2>1, <2>2
<1> HIDE DEF S
<1>14. \A n \in 0 .. N : F[n] \in Nat
  <2>1. Nat \subseteq S BY <1>12, <1>13, Induction
  <2> QED BY <2>1 DEF S
<1>15. F \in [0 .. N -> Nat] BY <1>8, <1>14
<1> QED BY <1>9, <1>10, <1>11, <1>15

\* What some disjoint sets hold is as much as they are allowed together exactly if
\* each holds as much as it is allowed.
LEMMA AllowanceUsed ==
  ASSUME NEW N \in Nat, NEW counts \in [1 .. N -> Nat], NEW K,
         \A n \in 1 .. N : IsFiniteSet(K[n]) /\ Cardinality(K[n]) <= counts[n],
         \A m, n \in 1 .. N : m # n => K[m] \cap K[n] = {}
  PROVE  Cardinality(UNION { K[n] : n \in 1 .. N }) = Total(counts)
           <=> \A n \in 1 .. N : Cardinality(K[n]) = counts[n]
<1> DEFINE U(n) == UNION { K[m] : m \in 1 .. n }
<1>1. PICK F \in [0 .. N -> Nat] : /\ Total(counts) = F[N] /\ F[0] = 0
                                   /\ \A n \in 1 .. N : F[n] = F[n - 1] + counts[n]
  BY TotalExists
<1> DEFINE S == { n \in Nat : n <= N =>
                    /\ IsFiniteSet(U(n)) /\ Cardinality(U(n)) <= F[n]
                    /\ Cardinality(U(n)) = F[n]
                         <=> \A m \in 1 .. n : Cardinality(K[m]) = counts[m] }
<1>2. 0 \in S
  <2>1. U(0) = {} OBVIOUS
  <2>2. \A m \in 1 .. 0 : FALSE OBVIOUS
  <2> HIDE DEF U
  <2>3. IsFiniteSet(U(0)) /\ Cardinality(U(0)) = 0 BY <2>1, FS_EmptySet
  <2>4. Cardinality(U(0)) <= F[0] /\ Cardinality(U(0)) = F[0] BY <1>1, <2>3
  <2> QED BY <2>2, <2>3, <2>4
<1>3. ASSUME NEW n \in Nat, n \in S PROVE n + 1 \in S
  <2> SUFFICES ASSUME n + 1 <= N
               PROVE  /\ IsFiniteSet(U(n + 1)) /\ Cardinality(U(n + 1)) <= F[n + 1]
                      /\ Cardinality(U(n + 1)) = F[n + 1]
                           <=> \A m \in 1 .. n + 1 : Cardinality(K[m]) = counts[m]
    OBVIOUS
  <2>1. n + 1 \in 1 .. N /\ (n + 1) - 1 = n /\ n <= N /\ n \in 0 .. N OBVIOUS
  <2>2. /\ IsFiniteSet(U(n)) /\ Cardinality(U(n)) <= F[n]
        /\ Cardinality(U(n)) = F[n] <=> \A m \in 1 .. n : Cardinality(K[m]) = counts[m]
    BY <1>3, <2>1
  <2>3. \A m \in 1 .. n + 1 : m \in 1 .. n \/ m = n + 1 OBVIOUS
  <2>4. \A m \in 1 .. n : m \in 1 .. n + 1 /\ m \in 1 .. N /\ m # n + 1 BY <2>1
  <2>5. n + 1 \in 1 .. n + 1 OBVIOUS
  <2>6. U(n + 1) = U(n) \cup K[n + 1] BY <2>3, <2>4, <2>5
  <2>7. U(n) \cap K[n + 1] = {} BY <2>1, <2>4
  <2> HIDE DEF U
  <2>8. IsFiniteSet(K[n + 1]) /\ Cardinality(K[n + 1]) <= counts[n + 1] BY <2>1
  <2>9. /\ IsFiniteSet(U(n + 1))
        /\ Cardinality(U(n + 1)) = Cardinality(U(n)) + Cardinality(K[n + 1])
    <3>1. /\ IsFiniteSet(U(n) \cup K[n + 1])
          /\ Cardinality(U(n) \cup K[n + 1])
               = Cardinality(U(n)) + Cardinality(K[n + 1]) - Cardinality(U(n) \cap K[n + 1])
      BY <2>2, <2>8, FS_Union
    <3>2. Cardinality(U(n) \cap K[n + 1]) = 0 BY <2>7, FS_EmptySet
    <3>3. Cardinality(U(n)) \in Nat /\ Cardinality(K[n + 1]) \in Nat
      BY <2>2, <2>8, FS_CardinalityType
    <3>4. /\ IsFiniteSet(U(n + 1))
          /\ Cardinality(U(n + 1)) = Cardinality(U(n) \cup K[n + 1])
      BY <2>6, <3>1
    <3>5. Cardinality(U(n) \cup K[n + 1]) = Cardinality(U(n)) + Cardinality(K[n + 1])
      BY <3>1, <3>2, <3>3
    <3> QED BY <3>4, <3>5
  <2>10. /\ Cardinality(U(n)) \in Nat /\ Cardinality(K[n + 1]) \in Nat
         /\ F[n] \in Nat /\ counts[n + 1] \in Nat /\ F[n + 1] = F[n] + counts[n + 1]
    BY <1>1, <2>1, <2>2, <2>8, FS_CardinalityType
  <2>11. Cardinality(U(n + 1)) = F[n + 1] <=> /\ Cardinality(U(n)) = F[n]
                                              /\ Cardinality(K[n + 1]) = counts[n + 1]
    BY <2>2, <2>8, <2>9, <2>10
  <2>12. Cardinality(U(n + 1)) <= F[n + 1] BY <2>2, <2>8, <2>9, <2>10
  <2>13. (\A m \in 1 .. n + 1 : Cardinality(K[m]) = counts[m])
           <=> /\ \A m \in 1 .. n : Cardinality(K[m]) = counts[m]
               /\ Cardinality(K[n + 1]) = counts[n + 1]
    BY <2>3, <2>4, <2>5
  <2> QED BY <2>2, <2>9, <2>11, <2>12, <2>13
<1> HIDE DEF S
<1>4. N \in S BY <1>2, <1>3, Induction
<1> QED BY <1>1, <1>4 DEF S

\* What was compiled keeps the limits if the intents do.
LEMMA WithinIfBounded ==
  ASSUME NEW input, Compiled(input)
  PROVE  WithinBounds(Compilation(input).groups) <=> Bounded(input.intents)
<1> DEFINE intents == input.intents
           ops == Normalized(intents)
           groups == Compilation(input).groups
<1>1. Grouping(groups, ops, input.order.groups) /\ \A i \in intents : NormalizableIntent(i)
  BY CompiledMade
<1>2. Cardinality(ops) = Cardinality(intents) /\ Targets(ops) = { i.id.target : i \in intents }
  BY NormalizedKeeps DEF Compiled
<1>3. ops = { NormalizeIntent(i) : i \in intents } BY DEF Normalized
<1> HIDE DEF ops, groups
<1>4. Operations(groups) = ops BY <1>1, GroupsHold
<1>5. Len(groups) = Cardinality({ i.id.target : i \in intents }) BY <1>1, <1>2 DEF Grouping
<1>6. \A i \in intents :
        /\ Cardinality(NormalizeIntent(i).assertions) = Cardinality(DOMAIN i.id.assertions)
        /\ Cardinality(NormalizeIntent(i).thresholds) = Cardinality(DOMAIN i.id.thresholds)
  BY <1>1, NormalizedSays DEF SaysAsIntent
<1>7. (\A o \in ops : /\ Cardinality(o.assertions) <= Limits.assertions
                      /\ Cardinality(o.thresholds) <= Limits.thresholds)
        <=> \A i \in intents : /\ Cardinality(DOMAIN i.id.assertions) <= Limits.assertions
                               /\ Cardinality(DOMAIN i.id.thresholds) <= Limits.thresholds
  BY <1>3, <1>6
<1> QED BY <1>2, <1>4, <1>5, <1>7 DEF WithinBounds, Bounded, groups

\* Its groups are valid if no intent needs query parameters.
LEMMA ValidIfNoQuery ==
  ASSUME NEW input, Compiled(input)
  PROVE  LET groups == Compilation(input).groups
         IN /\ groups # << >>
            /\ (\A g \in DOMAIN groups : ValidGroup(groups[g]))
                 <=> \A i \in input.intents : "queryParameters" \notin DOMAIN i.id.input
<1> DEFINE intents == input.intents
           ops == Normalized(intents)
           groups == Compilation(input).groups
<1>1. /\ Grouping(groups, ops, input.order.groups) /\ ops # {}
      /\ \A i \in intents : NormalizableIntent(i)
  BY CompiledMade
<1>2. ops = { NormalizeIntent(i) : i \in intents } BY DEF Normalized
<1> HIDE DEF ops, groups
<1>3. /\ \A g \in DOMAIN groups :
           ToSet(groups[g].operations) = OfTarget(ops, groups[g].target)
      /\ \A o \in ops : \E g \in DOMAIN groups : groups[g].target = o.target
  BY <1>1, GroupsHold
<1>4. groups # << >>
  <2>1. \E o \in ops : TRUE BY <1>1
  <2>2. \E g \in DOMAIN groups : TRUE BY <1>3, <2>1
  <2>3. DOMAIN << >> = {} OBVIOUS
  <2> QED BY <2>2, <2>3
<1>5. ASSUME NEW g \in DOMAIN groups PROVE groups[g].operations # << >>
  <2>1. groups[g].target \in Targets(ops) BY <1>1 DEF Grouping
  <2>2. \E o \in OfTarget(ops, groups[g].target) : TRUE BY <2>1 DEF Targets, OfTarget
  <2>3. \E o \in ToSet(groups[g].operations) : TRUE BY <1>3, <2>2
  <2>4. ToSet(<< >>) = {} BY DEF ToSet
  <2> QED BY <2>3, <2>4
<1>6. \A g \in DOMAIN groups :
        ValidGroup(groups[g]) <=>
          \A o \in OfTarget(ops, groups[g].target) : ValidOperation(o)
  BY <1>3, <1>5 DEF ValidGroup, OfTarget
<1>7. (\A g \in DOMAIN groups : ValidGroup(groups[g])) <=> \A o \in ops : ValidOperation(o)
  BY <1>3, <1>6 DEF OfTarget
<1>8. \A i \in intents :
        ValidOperation(NormalizeIntent(i)) <=> "queryParameters" \notin DOMAIN i.id.input
  BY <1>1, NormalizedSays DEF SaysAsIntent, ValidOperation
<1>9. (\A o \in ops : ValidOperation(o))
        <=> \A i \in intents : "queryParameters" \notin DOMAIN i.id.input
  BY <1>2, <1>8
<1> QED BY <1>4, <1>7, <1>9 DEF groups

\* Its dependencies are accepted if the digests put their targets in order.
LEMMA GraphIfInOrder ==
  ASSUME NEW input, Compiled(input)
  PROVE  ValidDependencyGraph(Compilation(input).groups) <=>
           \A i \in input.intents : \A d \in i.dependencies :
             input.order.groups[d.target] <= input.order.groups[i.id.target]
<1> DEFINE intents == input.intents
           ops == Normalized(intents)
           groups == Compilation(input).groups
           rank == input.order.groups
<1>1. Grouping(groups, ops, rank) /\ Frozen(ops) BY CompiledMade
<1>2. /\ \A o \in ops : o.target = o.id.target
      /\ Ids(ops) = Ids(intents)
  BY NormalizedKeeps DEF Compiled
<1>3. ops = { NormalizeIntent(i) : i \in intents } BY DEF Normalized
<1> HIDE DEF ops, groups, rank
<1>4. ValidDependencyGraph(groups) <=>
        \A o, p \in ops : p.id \in o.dependencies => rank[p.target] <= rank[o.target]
  BY <1>1, GraphByRank, ForwardByRank
<1>5. (\A o, p \in ops : p.id \in o.dependencies => rank[p.target] <= rank[o.target])
        <=> \A o \in ops : \A d \in o.dependencies : rank[d.target] <= rank[o.id.target]
  <2>1. \A o \in ops : \A d \in o.dependencies : \E p \in ops : d = p.id
    BY <1>1 DEF Frozen, Ids
  <2> QED BY <1>2, <2>1
<1>6. (\A o \in ops : \A d \in o.dependencies : rank[d.target] <= rank[o.id.target])
        <=> \A i \in intents : \A d \in i.dependencies : rank[d.target] <= rank[i.id.target]
  BY <1>3, NormalizedPart
<1> QED BY <1>4, <1>5, <1>6 DEF groups, rank

\* So exactly these are rendered.
LEMMA RenderedExactly ==
  ASSUME NEW input, Compiled(input)
  PROVE  Rendering(input).ok <=>
           /\ Bounded(input.intents)
           /\ \A i \in input.intents : "queryParameters" \notin DOMAIN i.id.input
           /\ \A i \in input.intents : Texts(i.id) \cap {"unsafe"} = {}
           /\ \A i \in input.intents : \A d \in i.dependencies :
                input.order.groups[d.target] <= input.order.groups[i.id.target]
<1> DEFINE intents == input.intents
           ops == Normalized(intents)
           spec == Compilation(input)
           groups == spec.groups
           called == Called(groups)
<1>1. /\ Grouping(groups, ops, input.order.groups) /\ ~ Waiting(ops)
      /\ \A i \in intents : NormalizableIntent(i)
  BY CompiledMade DEF Frozen
<1>2. Lists(called, ops) BY CalledInTurn
<1>3. Rendering(input).ok <=> /\ ValidRendererInput(spec)
                              /\ "unsafe" \notin UNION { o.texts : o \in ToSet(called) }
  BY RenderedMade DEF Rendering
<1>4. ops = { NormalizeIntent(i) : i \in intents } BY DEF Normalized
<1> HIDE DEF ops, called, spec
<1>5. \A g \in DOMAIN groups :
        Len(OrderOperations(groups[g].operations)) = Len(groups[g].operations)
  BY <1>1, GroupsOrdered
<1>6. ValidRendererInput(spec) <=> WithinBounds(groups) /\ RenderableSpec(groups)
  BY <1>5 DEF ValidRendererInput
<1>7. RenderableSpec(groups) <=>
        /\ \A i \in intents : "queryParameters" \notin DOMAIN i.id.input
        /\ ValidDependencyGraph(groups)
  <2>1. /\ groups # << >>
        /\ (\A g \in DOMAIN groups : ValidGroup(groups[g]))
             <=> \A i \in intents : "queryParameters" \notin DOMAIN i.id.input
    BY ValidIfNoQuery DEF spec
  <2> QED BY <2>1 DEF RenderableSpec
<1>8. "unsafe" \notin UNION { o.texts : o \in ToSet(called) }
        <=> \A i \in intents : Texts(i.id) \cap {"unsafe"} = {}
  <2>1. ToSet(called) = { NormalizeIntent(i) : i \in intents } BY <1>2, <1>4, Listed
  <2>2. \A i \in intents : NormalizeIntent(i).texts = Texts(i.id)
    BY <1>1, NormalizedSays DEF SaysAsIntent
  <2> QED BY <2>1, <2>2
<1>9. WithinBounds(groups) <=> Bounded(intents) BY WithinIfBounded DEF spec
<1>10. ValidDependencyGraph(groups) <=>
         \A i \in intents : \A d \in i.dependencies :
           input.order.groups[d.target] <= input.order.groups[i.id.target]
  BY GraphIfInOrder DEF spec
<1> QED BY <1>3, <1>6, <1>7, <1>8, <1>9, <1>10

\* The options have as many lines as the script has thresholds if no operation
\* bounds both rates.
LEMMA OptionsCounted ==
  ASSUME NEW ops, Unambiguous(ops), NEW called, Lists(called, ops),
         \A o \in ops : /\ IsFiniteSet(KeysOf(o)) /\ Cardinality(o.thresholds) \in Nat
                        /\ Cardinality(KeysOf(o)) <= Cardinality(o.thresholds)
  PROVE  Cardinality(RenderOptions(ToSet(called)))
             = Total([n \in DOMAIN called |-> Cardinality(called[n].thresholds)])
           <=> \A o \in ops : Cardinality(KeysOf(o)) = Cardinality(o.thresholds)
<1> DEFINE N == Cardinality(ops)
           K == [n \in 1 .. N |-> KeysOf(called[n])]
           counts == [n \in 1 .. N |-> Cardinality(called[n].thresholds)]
<1>1. /\ N \in Nat /\ DOMAIN called = 1 .. N /\ ToSet(called) = ops
      /\ \A n \in 1 .. N : called[n] \in ops
      /\ \A o \in ops : \E n \in 1 .. N : called[n] = o
      /\ \A m, n \in 1 .. N : called[m] = called[n] => m = n
  BY Listed DEF Lists
<1> HIDE DEF N
<1>2. counts \in [1 .. N -> Nat] BY <1>1
<1>3. \A n \in 1 .. N : /\ K[n] = KeysOf(called[n])
                        /\ counts[n] = Cardinality(called[n].thresholds)
  OBVIOUS
<1> HIDE DEF K, counts
<1>4. \A n \in 1 .. N : IsFiniteSet(K[n]) /\ Cardinality(K[n]) <= counts[n] BY <1>1, <1>3
<1>5. ASSUME NEW m \in 1 .. N, NEW n \in 1 .. N, m # n PROVE K[m] \cap K[n] = {}
  <2>1. called[m].id # called[n].id BY <1>1, <1>5 DEF Unambiguous
  <2> QED BY <1>3, <2>1 DEF KeysOf
<1>6. Cardinality(UNION { K[n] : n \in 1 .. N }) = Total(counts)
        <=> \A n \in 1 .. N : Cardinality(K[n]) = counts[n]
  <2>1. N \in Nat BY <1>1
  <2>2. \A m, n \in 1 .. N : m # n => K[m] \cap K[n] = {} BY <1>5
  <2> QED BY <1>2, <1>4, <2>1, <2>2, AllowanceUsed
<1>7. RenderOptions(ToSet(called)) = UNION { KeysOf(o) : o \in ops }
  BY <1>1 DEF RenderOptions, KeysOf
<1>8. { KeysOf(o) : o \in ops } = { K[n] : n \in 1 .. N } BY <1>1, <1>3
<1>9. counts = [n \in DOMAIN called |-> Cardinality(called[n].thresholds)]
  BY <1>1 DEF counts
<1>10. (\A n \in 1 .. N : Cardinality(K[n]) = counts[n])
         <=> \A o \in ops : Cardinality(KeysOf(o)) = Cardinality(o.thresholds)
  BY <1>1, <1>3
<1> QED BY <1>6, <1>7, <1>8, <1>9, <1>10

\* And exactly these scripts pass the validator.
LEMMA ValidatedExactly ==
  ASSUME NEW input, Compiled(input), Rendering(input).ok
  PROVE  ValidateK6ApiSourceStatically(Rendering(input)).ok <=>
           /\ \E i \in input.intents : DOMAIN i.id.assertions \ {"statusCodes"} # {}
           /\ \E i \in input.intents : DOMAIN i.id.thresholds # {}
           /\ \A i \in input.intents :
                ~ ({"maxFailureRate", "minChecksRate"} \subseteq DOMAIN i.id.thresholds)
           /\ \A i \in input.intents : Texts(i.id) \cap {"keyword"} = {}
<1> DEFINE intents == input.intents
           ops == Normalized(intents)
           groups == Compilation(input).groups
           called == Called(groups)
           result == Rendering(input)
           source == result.source
<1>1. Frozen(ops) /\ \A i \in intents : NormalizableIntent(i) BY CompiledMade
<1>2. Lists(called, ops) BY CalledInTurn
<1>3. /\ source.calls = [n \in DOMAIN called |-> RenderOperation(called[n])]
      /\ source.options = RenderOptions(ToSet(called))
      /\ source.helpers <=> \E o \in ToSet(called) : HasJsonAssertions(o)
      /\ source.texts = UNION { o.texts : o \in ToSet(called) }
      /\ result.operationCount = Len(called)
      /\ result.assertionCount
           = Total([n \in DOMAIN called |-> Cardinality(called[n].assertions)])
      /\ result.thresholdCount
           = Total([n \in DOMAIN called |-> Cardinality(called[n].thresholds)])
      /\ "unsafe" \notin UNION { o.texts : o \in ToSet(called) }
  BY RenderedMade DEF Rendering
<1>4. ops = { NormalizeIntent(i) : i \in intents } BY DEF Normalized
<1> HIDE DEF ops, called, result
<1>5. /\ ToSet(called) = ops /\ Len(called) \in Nat /\ DOMAIN called = 1 .. Len(called)
  BY <1>2, Listed
<1>6. \A i \in intents : SaysAsIntent(NormalizeIntent(i), i) BY <1>1, NormalizedSays
<1>7. Len(source.calls) = result.operationCount BY <1>3, <1>5
<1>8. Total([n \in DOMAIN source.calls |-> Cardinality(source.calls[n].checks)])
        = result.assertionCount
  <2>1. DOMAIN source.calls = DOMAIN called BY <1>3
  <2>2. \A n \in DOMAIN called : source.calls[n].checks = called[n].assertions
    BY <1>3 DEF RenderOperation
  <2>3. [n \in DOMAIN source.calls |-> Cardinality(source.calls[n].checks)]
          = [n \in DOMAIN called |-> Cardinality(called[n].assertions)]
    BY <2>1, <2>2
  <2> QED BY <1>3, <2>3
<1>9. source.helpers <=> \E i \in intents : DOMAIN i.id.assertions \ {"statusCodes"} # {}
  <2>1. \A i \in intents : HasJsonAssertions(NormalizeIntent(i))
                             <=> DOMAIN i.id.assertions \ {"statusCodes"} # {}
    BY <1>6 DEF SaysAsIntent
  <2> QED BY <1>3, <1>4, <1>5, <2>1
<1>10. source.options # {} <=> \E i \in intents : DOMAIN i.id.thresholds # {}
  <2>1. source.options = UNION { KeysOf(o) : o \in ops }
    BY <1>3, <1>5 DEF RenderOptions, KeysOf
  <2>2. source.options # {} <=> \E o \in ops : KeysOf(o) # {} BY <2>1
  <2>3. \A i \in intents : KeysOf(NormalizeIntent(i)) # {} <=> DOMAIN i.id.thresholds # {}
    BY <1>6 DEF SaysAsIntent
  <2> QED BY <1>4, <2>2, <2>3
<1>11. Cardinality(source.options) = result.thresholdCount
         <=> \A i \in intents :
               ~ ({"maxFailureRate", "minChecksRate"} \subseteq DOMAIN i.id.thresholds)
  <2>1. \A o \in ops : /\ IsFiniteSet(KeysOf(o)) /\ Cardinality(o.thresholds) \in Nat
                       /\ Cardinality(KeysOf(o)) <= Cardinality(o.thresholds)
    BY <1>4, <1>6 DEF SaysAsIntent
  <2>2. Cardinality(source.options) = result.thresholdCount
          <=> \A o \in ops : Cardinality(KeysOf(o)) = Cardinality(o.thresholds)
    BY <1>1, <1>2, <1>3, <2>1, OptionsCounted DEF Frozen
  <2>3. \A i \in intents :
          Cardinality(KeysOf(NormalizeIntent(i))) = Cardinality(NormalizeIntent(i).thresholds)
            <=> ~ ({"maxFailureRate", "minChecksRate"} \subseteq DOMAIN i.id.thresholds)
    BY <1>6 DEF SaysAsIntent
  <2> QED BY <1>4, <2>2, <2>3
<1>12. source.texts \cap {"unsafe", "keyword"} = {}
         <=> \A i \in intents : Texts(i.id) \cap {"keyword"} = {}
  <2>1. \A i \in intents : NormalizeIntent(i).texts = Texts(i.id) BY <1>6 DEF SaysAsIntent
  <2>2. source.texts = UNION { Texts(i.id) : i \in intents } BY <1>3, <1>4, <1>5, <2>1
  <2>3. "unsafe" \notin source.texts BY <1>3
  <2> HIDE DEF source
  <2>4. source.texts \cap {"unsafe", "keyword"} = {} <=> "keyword" \notin source.texts BY <2>3
  <2>5. "keyword" \in source.texts <=> \E i \in intents : "keyword" \in Texts(i.id) BY <2>2
  <2> QED BY <2>4, <2>5
<1>13. ValidateK6ApiSourceStatically(result).ok <=> ValidSourceText(source, result)
  BY DEF ValidateK6ApiSourceStatically
<1> QED BY <1>7, <1>8, <1>9, <1>10, <1>11, <1>12, <1>13 DEF ValidSourceText, result

-----------------------------------------------------------------------------
(* The path *)

\* What was answered is the answer to what was given.
PathInv ==
  /\ stage = "resolved" => given \in Layerings /\ made = ResolveKnowledge(given, Context)
  /\ stage = "snapshot" => made \in Snapshots
  /\ stage = "planned" =>
       \E snapshot \in Snapshots :
         /\ given \in Requests(snapshot)
         /\ made = PlanTests(given.request, given.catalog)
  /\ stage = "frozen" => Frozen(made)
  /\ stage = "compiled" =>
       /\ Frozen(given.intents) /\ Ranked(given.order, given.intents)
       /\ made = Compilation(given)
  /\ stage = "rendered" => Compiled(given) /\ made = Rendering(given)
  /\ stage = "validated" =>
       /\ Compiled(given) /\ Rendering(given).ok
       /\ made = ValidateK6ApiSourceStatically(Rendering(given))

\* What was planned was asked of a request that has its fields.
LEMMA PlannedOfRequest ==
  ASSUME PathInv, stage = "planned"
  PROVE  /\ made = PlanTests(given.request, given.catalog)
         /\ IsFiniteSet(EnumerateCandidates(given.request))
         /\ RulesTold(given.request.snapshot)
<1>1. PICK snapshot \in Snapshots :
        /\ given \in Requests(snapshot)
        /\ made = PlanTests(given.request, given.catalog)
  BY DEF PathInv
<1>2. RequestTyped(given.request, snapshot) BY <1>1, RequestAssumption
<1>3. given.request.snapshot = snapshot BY <1>2 DEF RequestTyped
<1> QED BY <1>1, <1>2, <1>3, CandidatesFinite, SnapshotTold

\* The intents of a plan may be frozen.
LEMMA PlannedMayFreeze ==
  ASSUME PathInv, stage = "planned", made.ok
  PROVE  Frozen(made.plan.intents)
<1> DEFINE request == given.request
           active == Supportable(request)
           intents == FinalizeIntents(request, active)
<1>1. /\ made = PlanTests(request, given.catalog)
      /\ IsFiniteSet(EnumerateCandidates(request))
      /\ RulesTold(request.snapshot)
  BY PlannedOfRequest
<1>2. /\ active \subseteq Usable(request)
      /\ ValidPlanningRequest(request) /\ Acyclic(intents)
      /\ made.plan = PlanOf(request, active)
  BY <1>1, AnswerMade
<1>3. Plannable(request) BY <1>1, <1>2 DEF Plannable
<1>4. active \subseteq EnumerateCandidates(request) BY <1>2 DEF Usable, Prepared, Asked
<1>5. made.plan.intents = intents BY <1>2 DEF PlanOf, CreateTestPlan
<1> HIDE DEF active
<1>6. /\ IsFiniteSet(intents) /\ Unambiguous(intents)
      /\ \A i \in intents : i.dependencies \subseteq Ids(intents)
  BY <1>3, <1>4, IntentsWait
<1> HIDE DEF intents
<1>7. ~ Waiting(intents) BY <1>2, <1>6, AcyclicUnlessWaiting
<1> QED BY <1>5, <1>6, <1>7 DEF Frozen

\* Every call of the path keeps that.
THEOREM PathAnswers == Spec => []PathInv
<1>1. Init => PathInv BY DEF Init, PathInv
<1>2. PathInv /\ [Next]_vars => PathInv'
  <2> SUFFICES ASSUME PathInv, [Next]_vars PROVE PathInv' OBVIOUS
  <2>1. CASE Resolve BY <2>1 DEF Resolve, PathInv
  <2>2. CASE BuildSnapshot
    <3>1. /\ given \in Layerings /\ made = ResolveKnowledge(given, Context) /\ made.ok
          /\ made' = BuildKnowledgeSnapshot(made) /\ stage' = "snapshot"
      BY <2>2 DEF BuildSnapshot, PathInv
    <3>2. made' \in Snapshots BY <3>1 DEF Snapshots
    <3> QED BY <3>1, <3>2 DEF PathInv
  <2>3. CASE Plan
    <3>1. made \in Snapshots /\ stage' = "planned" BY <2>3 DEF Plan, PathInv
    <3>2. PICK input \in Requests(made) :
            given' = input /\ made' = PlanTests(input.request, input.catalog)
      BY <2>3 DEF Plan
    <3>3. given' \in Requests(made) /\ made' = PlanTests(given'.request, given'.catalog)
      BY <3>2
    <3> QED BY <3>1, <3>3 DEF PathInv
  <2>4. CASE Freeze
    <3>1. stage = "planned" /\ made.ok /\ made' = made.plan.intents /\ stage' = "frozen"
      BY <2>4 DEF Freeze
    <3>2. Frozen(made') BY <3>1, PlannedMayFreeze
    <3> QED BY <3>1, <3>2 DEF PathInv
  <2>5. CASE Compile
    <3>1. Frozen(made) /\ stage' = "compiled" BY <2>5 DEF Compile, PathInv
    <3>2. PICK order : /\ Ranked(order, made)
                       /\ given' = [intents |-> made, order |-> order]
                       /\ made' = CompileK6ApiExecutionSpec(made, order)
      BY <2>5 DEF Compile
    <3>3. given'.intents = made /\ given'.order = order BY <3>2
    <3>4. made' = Compilation(given') BY <3>2, <3>3 DEF Compilation
    <3> QED BY <3>1, <3>2, <3>3, <3>4 DEF PathInv
  <2>6. CASE Render
    <3>1. /\ stage = "compiled" /\ made.ok /\ made' = RenderK6ApiSource(made)
          /\ stage' = "rendered" /\ given' = given
      BY <2>6 DEF Render
    <3>2. Compiled(given) /\ made = Compilation(given) BY <3>1 DEF PathInv, Compiled
    <3>3. Compiled(given') /\ made' = Rendering(given') BY <3>1, <3>2 DEF Rendering
    <3> QED BY <3>1, <3>3 DEF PathInv
  <2>7. CASE Validate
    <3>1. /\ stage = "rendered" /\ made.ok /\ made' = ValidateK6ApiSourceStatically(made)
          /\ stage' = "validated" /\ given' = given
      BY <2>7 DEF Validate
    <3>2. Compiled(given) /\ made = Rendering(given) BY <3>1 DEF PathInv
    <3> QED BY <3>1, <3>2 DEF PathInv
  <2>8. CASE UNCHANGED vars BY <2>8 DEF vars, PathInv
  <2> QED BY <2>1, <2>2, <2>3, <2>4, <2>5, <2>6, <2>7, <2>8 DEF Next
<1> QED BY <1>1, <1>2, PTL DEF Spec

\* What resolution answers is not weaker than any rule that had a say in it,
\* whatever the layers are.
THEOREM ResolutionDoesNotWeaken == Spec => []LaterLayersDoNotWeaken
<1>1. PathInv => LaterLayersDoNotWeaken
  <2> SUFFICES ASSUME PathInv, stage = "resolved", made.ok
               PROVE  \A effective \in made.rules :
                        NotWeakened(Ordered(Candidates(given), effective.boundaryKey), effective)
    BY DEF LaterLayersDoNotWeaken
  <2>1. given \in Layerings /\ made = ResolveKnowledge(given, Context) BY DEF PathInv
  <2>2. LayersTyped(given) BY <2>1, LayeringAssumption
  <2>3. Resolved(given, made) BY <2>1, <2>2, ResolutionSound
  <2> QED BY <2>3 DEF Resolved
<1> QED BY <1>1, PathAnswers, PTL

\* A plan covers the largest set of usable candidates in which every required
\* dependency is met, however many candidates there are.
THEOREM PlansAreLargest == Spec => []LargestSupportedPlan
<1>1. PathInv => LargestSupportedPlan
  <2> SUFFICES ASSUME PathInv, stage = "planned", made.ok
               PROVE  { o.id : o \in { q \in made.plan.obligations : q.status = "COVERED" } }
                        = { ObligationOf(c) : c \in Supportable(given.request) }
    BY DEF LargestSupportedPlan
  <2> DEFINE active == Supportable(given.request)
  <2>1. made = PlanTests(given.request, given.catalog)
        /\ IsFiniteSet(EnumerateCandidates(given.request))
    BY PlannedOfRequest
  <2>2. active \subseteq Usable(given.request) /\ made.plan = PlanOf(given.request, active)
    BY <2>1, AnswerMade
  <2> HIDE DEF active
  <2>3. { o.id : o \in { q \in PlanOf(given.request, active).obligations : q.status = "COVERED" } }
          = { ObligationOf(c) : c \in active }
    BY <2>2, CoveredArePlanned
  <2> QED BY <2>2, <2>3 DEF active
<1> QED BY <1>1, PathAnswers, PTL

\* A well-formed request is refused for a circle, a malformed contract the strategy
\* came upon, a mistyped value or a description in a rule, and for nothing else; and
\* what is answered passes its validator.
THEOREM RefusalsHaveCauses == Spec => []RefusedForCause
<1>1. PathInv => RefusedForCause
  <2> SUFFICES ASSUME PathInv, stage = "planned", WellFormed(given)
               PROVE  /\ made.ok <=> /\ ~ Circle(given.request)
                                     /\ ~ ContractMalformed(given.request)
                                     /\ ~ DerivedMistyped(given.request)
                                     /\ ~ DerivedDescription(given.request)
                      /\ made.ok => ValidPlanningResult(made)
    BY DEF RefusedForCause
  <2>1. /\ made = PlanTests(given.request, given.catalog)
        /\ IsFiniteSet(EnumerateCandidates(given.request))
        /\ RulesTold(given.request.snapshot)
    BY PlannedOfRequest
  <2>2. /\ ValidPlanningRequest(given.request) /\ ValidCatalog(given.request.catalog)
        /\ given.request.catalog = given.catalog
    BY DEF WellFormed
  <2>3. Plannable(given.request) BY <2>1, <2>2 DEF Plannable
  <2>4. made = PlanTests(given.request, given.request.catalog) BY <2>1, <2>2
  <2> QED BY <2>2, <2>3, <2>4, RefusedIffCause
<1> QED BY <1>1, PathAnswers, PTL

\* A script calls every frozen intent once, each after those it depends on.
THEOREM ScriptsCallInTurn == Spec => []DependenciesFirst
<1>1. PathInv => DependenciesFirst
  <2> SUFFICES ASSUME PathInv, stage = "rendered", made.ok
               PROVE  /\ Len(Calls) = Cardinality(given.intents)
                      /\ \A i \in given.intents :
                           \E n \in DOMAIN Calls :
                             /\ Calls[n] = i.id
                             /\ i.dependencies \subseteq { Calls[m] : m \in 1 .. n - 1 }
    BY DEF DependenciesFirst
  <2> DEFINE ops == Normalized(given.intents)
             groups == Compilation(given).groups
             called == Called(groups)
             N == Cardinality(given.intents)
  <2>1. Compiled(given) /\ made = RenderK6ApiSource(Compilation(given))
    BY DEF PathInv, Rendering
  <2>2. /\ ValidRendererInput(Compilation(given))
        /\ made.source.calls = [n \in DOMAIN called |-> RenderOperation(called[n])]
    BY <2>1, RenderedMade
  <2>3. ValidDependencyGraph(groups) BY <2>2 DEF ValidRendererInput, RenderableSpec
  <2>4. Lists(called, ops) /\ InTurn(called, ops) BY <2>1, <2>3, CalledInTurn
  <2>5. /\ Cardinality(ops) = N
        /\ \A o \in ops : o.dependencies \subseteq Ids(ops)
    BY <2>1, NormalizedKeeps DEF Compiled, Frozen
  <2> HIDE DEF called, ops
  <2>6. /\ N \in Nat /\ DOMAIN called = 1 .. N
        /\ \A o \in ops : \E n \in 1 .. N : called[n] = o
    BY <2>4, <2>5, Listed DEF Lists
  <2> HIDE DEF N
  <2>7. Calls = [n \in 1 .. N |-> called[n].id]
    <3>1. \A n \in 1 .. N : made.source.calls[n].id = called[n].id
      BY <2>2, <2>6 DEF RenderOperation
    <3>2. DOMAIN made.source.calls = 1 .. N BY <2>2, <2>6
    <3> QED BY <3>1, <3>2 DEF Calls
  <2> HIDE DEF Calls
  <2>8. Len(Calls) = N /\ DOMAIN Calls = 1 .. N BY <2>6, <2>7
  <2>9. ASSUME NEW i \in given.intents
        PROVE  \E n \in 1 .. N : /\ Calls[n] = i.id
                                 /\ i.dependencies \subseteq { Calls[m] : m \in 1 .. n - 1 }
    <3> DEFINE o == NormalizeIntent(i)
    <3>1. o \in ops /\ o.id = i.id /\ o.dependencies = i.dependencies
      BY NormalizedPart DEF ops, Normalized
    <3> HIDE DEF o
    <3>2. PICK n \in 1 .. N : called[n] = o BY <2>6, <3>1
    <3>3. Calls[n] = i.id BY <2>7, <3>1, <3>2
    <3>4. o.dependencies \subseteq { called[m].id : m \in 1 .. n - 1 }
      BY <2>4, <2>5, <2>6, <3>1, <3>2 DEF InTurn
    <3>5. \A m \in 1 .. n - 1 : m \in 1 .. N /\ called[m].id = Calls[m] BY <2>6, <2>7
    <3>6. o.dependencies \subseteq { Calls[m] : m \in 1 .. n - 1 } BY <3>4, <3>5
    <3> QED BY <3>1, <3>3, <3>6
  <2> QED BY <2>8, <2>9 DEF N
<1> QED BY <1>1, PathAnswers, PTL

\* Exactly those compilations are rendered, and exactly those scripts validated, that
\* the intents and the order of the digests say.
THEOREM AcceptanceIsExact == Spec => []AcceptedExactly
<1>1. PathInv => AcceptedExactly
  <2> SUFFICES ASSUME PathInv PROVE AcceptedExactly OBVIOUS
  <2>1. ASSUME stage = "rendered"
        PROVE  made.ok <=> /\ Bounded(given.intents)
                           /\ \A i \in given.intents : "queryParameters" \notin DOMAIN i.id.input
                           /\ Speakable({"unsafe"})
                           /\ GroupsInOrder
    <3>1. Compiled(given) /\ made = Rendering(given) BY <2>1 DEF PathInv
    <3> QED BY <3>1, RenderedExactly DEF Speakable, GroupsInOrder
  <2>2. ASSUME stage = "validated"
        PROVE  made.ok <=>
                 /\ \E i \in given.intents : DOMAIN i.id.assertions \ {"statusCodes"} # {}
                 /\ \E i \in given.intents : DOMAIN i.id.thresholds # {}
                 /\ \A i \in given.intents :
                      ~ ({"maxFailureRate", "minChecksRate"} \subseteq DOMAIN i.id.thresholds)
                 /\ Speakable({"keyword"})
    <3>1. /\ Compiled(given) /\ Rendering(given).ok
          /\ made = ValidateK6ApiSourceStatically(Rendering(given))
      BY <2>2 DEF PathInv
    <3> QED BY <3>1, ValidatedExactly DEF Speakable
  <2> QED BY <2>1, <2>2 DEF AcceptedExactly
<1> QED BY <1>1, PathAnswers, PTL
=============================================================================
