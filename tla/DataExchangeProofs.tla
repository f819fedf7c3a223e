------------------------- MODULE DataExchangeProofs -------------------------
(***************************************************************************)
(* Masking of values of any depth, and of all that a peer collects.        *)
(*                                                                         *)
(* The library's induction theorems take an operator, which the provers    *)
(* cannot instantiate.  Here a claim about all values is proved of a set:  *)
(* that of the values it fails for has no least element, so it is empty.   *)
(***************************************************************************)
EXTENDS DataExchange, PagingProofs, WellFoundedInduction

-----------------------------------------------------------------------------
(* Induction and recursion along a rank.                                   *)

Less == {p \in Nat \X Nat : p[1] < p[2]}

LEMMA LeastNumber ==
    ASSUME NEW T, T \subseteq Nat, T # {}
    PROVE  \E n \in T : \A m \in T : n <= m
<1>1. IsWellFoundedOn(Less, Nat)
    BY NatLessThanWellFounded DEF OpToRel, Less
<1>2. PICK n \in T : \A m \in T : <<m, n>> \notin Less
    BY <1>1, WFMin
<1>3. \A m \in T : ~(m < n)
    BY <1>2 DEF Less
<1> QED
    BY <1>3

LEMMA LeastRank ==
    ASSUME NEW V, NEW rank \in [V -> Nat], NEW bad \in SUBSET V, bad # {}
    PROVE  \E v \in bad : \A u \in bad : rank[v] <= rank[u]
<1>1. PICK n \in {rank[v] : v \in bad} : \A m \in {rank[v] : v \in bad} : n <= m
    <2> DEFINE T == {rank[v] : v \in bad}
    <2>1. T \subseteq Nat /\ T # {}
        OBVIOUS
    <2> HIDE DEF T
    <2>2. \E n \in T : \A m \in T : n <= m
        BY <2>1, LeastNumber
    <2> QED
        BY <2>2 DEF T
<1> QED
    BY <1>1

\* g is what step makes of it, up to rank n.
Solves(g, V, rank, step, n) == \A v \in V : rank[v] < n => g[v] = step[g][v]

\* step takes functions to functions, and what it makes of one at v depends on
\* its values at smaller ranks only.
Grounded(V, R, rank, step) ==
    /\ rank \in [V -> Nat]
    /\ [V -> R] # {} /\ step \in [[V -> R] -> [V -> R]]
    /\ \A g, h \in [V -> R] : \A v \in V :
        (\A u \in V : rank[u] < rank[v] => g[u] = h[u]) => step[g][v] = step[h][v]

Fixed(V, R, step) == \E f \in [V -> R] : f = step[f]

\* Then the recursion it stands for defines a function.
LEMMA Recursion ==
    ASSUME NEW V, NEW R, NEW rank, NEW step, Grounded(V, R, rank, step)
    PROVE  Fixed(V, R, step)
<1>0. rank \in [V -> Nat] /\ [V -> R] # {} /\ step \in [[V -> R] -> [V -> R]]
    BY DEF Grounded
<1> DEFINE Good(g, n) == Solves(g, V, rank, step, n)
           F == [V -> R]
<1>1. \A n \in Nat : \E g \in F : Good(g, n)
    <2> DEFINE bad == {n \in Nat : ~ \E g \in F : Good(g, n)}
    <2> SUFFICES ASSUME bad # {} PROVE FALSE
        OBVIOUS
    <2>1. PICK n \in bad : \A m \in bad : n <= m
        <3> HIDE DEF bad
        <3>1. bad \subseteq Nat
            BY DEF bad
        <3> QED
            BY <3>1, LeastNumber
    <2>2. CASE n = 0
        BY <1>0, <2>1, <2>2 DEF Solves
    <2>3. CASE n # 0
        <3>1. n - 1 \in Nat /\ n - 1 \notin bad
            BY <2>1, <2>3
        <3>2. PICK g \in F : Good(g, n - 1)
            BY <3>1
        <3>3. step[g] \in F
            BY <1>0
        <3>4. ASSUME NEW v \in V, rank[v] < n PROVE step[g][v] = step[step[g]][v]
            <4>1. ASSUME NEW u \in V, rank[u] < rank[v] PROVE g[u] = step[g][u]
                BY <1>0, <2>1, <3>2, <3>4, <4>1 DEF Solves
            <4> QED
                BY <3>3, <4>1 DEF Grounded
        <3>5. Good(step[g], n)
            BY <3>4 DEF Solves
        <3> QED
            BY <2>1, <3>3, <3>5
    <2> QED
        BY <2>2, <2>3
<1>2. ASSUME NEW n \in Nat, NEW m \in Nat, NEW g \in F, NEW h \in F, Good(g, n), Good(h, m),
             NEW v \in V, rank[v] < n, rank[v] < m
      PROVE  g[v] = h[v]
    <2> DEFINE bad == {w \in V : rank[w] < n /\ rank[w] < m /\ g[w] # h[w]}
    <2> SUFFICES ASSUME bad # {} PROVE FALSE
        BY <1>2
    <2>1. PICK w \in bad : \A u \in bad : rank[w] <= rank[u]
        <3> HIDE DEF bad
        <3>1. bad \in SUBSET V
            BY DEF bad
        <3> QED
            BY <1>0, <3>1, LeastRank
    <2>2. \A u \in V : rank[u] < rank[w] => g[u] = h[u]
        BY <1>0, <2>1
    <2>3. step[g][w] = step[h][w]
        BY <2>1, <2>2 DEF Grounded
    <2> QED
        BY <1>2, <2>1, <2>3 DEF Solves
<1> DEFINE best(n) == CHOOSE g \in F : Good(g, n)
           f == [v \in V |-> best(rank[v] + 1)[v]]
<1>3. \A n \in Nat : best(n) \in F /\ Good(best(n), n)
    BY <1>1
<1>4. f \in F
    <2>1. ASSUME NEW v \in V PROVE best(rank[v] + 1)[v] \in R
        <3>1. rank[v] + 1 \in Nat
            BY <1>0
        <3>2. best(rank[v] + 1) \in F
            BY <1>3, <3>1
        <3> HIDE DEF best
        <3> QED
            BY <3>2
    <2> HIDE DEF best
    <2> QED
        BY <2>1
<1>5. ASSUME NEW v \in V PROVE f[v] = step[f][v]
    <2> DEFINE n == rank[v] + 1
    <2>1. n \in Nat /\ best(n) \in F /\ Good(best(n), n) /\ rank[v] < n
        BY <1>0, <1>3
    <2>2. f[v] = best(n)[v]
        OBVIOUS
    <2> HIDE DEF best
    <2>3. best(n)[v] = step[best(n)][v]
        BY <2>1 DEF Solves
    <2>4. ASSUME NEW u \in V, rank[u] < rank[v] PROVE best(n)[u] = f[u]
        <3>1. rank[u] + 1 \in Nat /\ rank[u] < rank[u] + 1 /\ rank[u] < n
            BY <1>0, <2>1, <2>4
        <3>2. best(rank[u] + 1) \in F /\ Good(best(rank[u] + 1), rank[u] + 1)
            BY <1>3, <3>1
        <3>3. best(n)[u] = best(rank[u] + 1)[u]
            BY <1>2, <2>1, <3>1, <3>2
        <3> QED
            BY <3>3
    <2> HIDE DEF f, n
    <2>5. step[best(n)][v] = step[f][v]
        BY <1>4, <2>1, <2>4 DEF Grounded
    <2> QED
        BY <2>2, <2>3, <2>5
<1> QED
    <2>1. step[f] \in F
        BY <1>0, <1>4
    <2> HIDE DEF f
    <2>2. f = step[f]
        BY <1>4, <1>5, <2>1
    <2> QED
        BY <1>4, <2>2 DEF Fixed

-----------------------------------------------------------------------------
(* JSON values by their depth.                                             *)

LevelUpTo(g, n) == \A d \in 0..n : g[d] = IF d = 0 THEN Scalars ELSE Above(g[d - 1])

\* The levels are what their recursive definition says.
LEMMA Levels ==
    \A d \in Nat : Level[d] = IF d = 0 THEN Scalars ELSE Above(Level[d - 1])
<1>1. \A n \in Nat : \E g : LevelUpTo(g, n)
    <2> DEFINE bad == {n \in Nat : ~ \E g : LevelUpTo(g, n)}
    <2> SUFFICES ASSUME bad # {} PROVE FALSE
        OBVIOUS
    <2>1. PICK n \in bad : \A m \in bad : n <= m
        <3> HIDE DEF bad
        <3>1. bad \subseteq Nat
            BY DEF bad
        <3> QED
            BY <3>1, LeastNumber
    <2>2. CASE n = 0
        <3>1. LevelUpTo([d \in {0} |-> Scalars], n)
            BY <2>2 DEF LevelUpTo
        <3> QED
            BY <2>1, <3>1
    <2>3. CASE n # 0
        <3>1. n - 1 \in Nat /\ n - 1 \notin bad
            BY <2>1, <2>3
        <3>2. PICK g : LevelUpTo(g, n - 1)
            BY <3>1
        <3> DEFINE h == [d \in 0..n |-> IF d = 0 THEN Scalars ELSE Above(g[d - 1])]
        <3>3. ASSUME NEW d \in 0..n, d # 0 PROVE h[d - 1] = g[d - 1]
            <4>1. d - 1 \in 0..(n - 1) /\ d - 1 \in 0..n
                BY <2>1, <3>3
            <4> QED
                BY <3>2, <4>1 DEF LevelUpTo
        <3>4. ASSUME NEW d \in 0..n PROVE h[d] = IF d = 0 THEN Scalars ELSE Above(h[d - 1])
            BY <3>3, <3>4
        <3>5. LevelUpTo(h, n)
            <4> HIDE DEF h
            <4> QED
                BY <3>4 DEF LevelUpTo
        <3> QED
            BY <2>1, <3>5
    <2> QED
        BY <2>2, <2>3
<1>2. ASSUME NEW n \in Nat, NEW m \in Nat, NEW g, NEW h, LevelUpTo(g, n), LevelUpTo(h, m),
             NEW d \in Nat, d <= n, d <= m
      PROVE  g[d] = h[d]
    <2> DEFINE bad == {i \in Nat : i <= n /\ i <= m /\ g[i] # h[i]}
    <2> SUFFICES ASSUME bad # {} PROVE FALSE
        BY <1>2
    <2>1. PICK i \in bad : \A j \in bad : i <= j
        <3> HIDE DEF bad
        <3>1. bad \subseteq Nat
            BY DEF bad
        <3> QED
            BY <3>1, LeastNumber
    <2>2. CASE i = 0
        BY <1>2, <2>1, <2>2 DEF LevelUpTo
    <2>3. CASE i # 0
        <3>1. i - 1 \in Nat /\ i - 1 \notin bad /\ i \in 0..n /\ i \in 0..m
            BY <2>1, <2>3
        <3>2. g[i - 1] = h[i - 1]
            BY <2>1, <3>1
        <3>3. g[i] = Above(g[i - 1]) /\ h[i] = Above(h[i - 1])
            BY <1>2, <2>3, <3>1 DEF LevelUpTo
        <3> QED
            BY <2>1, <3>2, <3>3
    <2> QED
        BY <2>2, <2>3
<1> DEFINE best(n) == CHOOSE g : LevelUpTo(g, n)
           f == [d \in Nat |-> best(d)[d]]
<1>3. \A n \in Nat : LevelUpTo(best(n), n)
    BY <1>1
<1>4. f = [d \in Nat |-> IF d = 0 THEN Scalars ELSE Above(f[d - 1])]
    <2>1. ASSUME NEW d \in Nat PROVE f[d] = IF d = 0 THEN Scalars ELSE Above(f[d - 1])
        <3>1. f[d] = best(d)[d] /\ LevelUpTo(best(d), d)
            BY <1>3
        <3>2. d # 0 => d - 1 \in Nat
            OBVIOUS
        <3>3. d # 0 => f[d - 1] = best(d - 1)[d - 1] /\ LevelUpTo(best(d - 1), d - 1)
            BY <1>3, <3>2
        <3> HIDE DEF f, best
        <3>4. d # 0 => best(d - 1)[d - 1] = best(d)[d - 1]
            BY <1>2, <3>1, <3>2, <3>3
        <3> QED
            BY <3>1, <3>3, <3>4 DEF LevelUpTo
    <2>2. f = [d \in Nat |-> f[d]]
        OBVIOUS
    <2> HIDE DEF f
    <2> QED
        BY <2>1, <2>2
<1>5. Level = CHOOSE g : g = [d \in Nat |-> IF d = 0 THEN Scalars ELSE Above(g[d - 1])]
    BY DEF Level
<1>6. Level = [d \in Nat |-> IF d = 0 THEN Scalars ELSE Above(Level[d - 1])]
    <2> HIDE DEF f
    <2>1. \E g : g = [d \in Nat |-> IF d = 0 THEN Scalars ELSE Above(g[d - 1])]
        BY <1>4
    <2> QED
        BY <1>5, <2>1
<1> QED
    BY <1>6

Item(S) == [name : Names, value : S]

\* The kinds of values exclude each other.
LEMMA Kinds ==
    ASSUME NEW S, NEW v \in Above(S)
    PROVE  \/ /\ IsDict(v) /\ ~IsList(v) /\ ~IsText(v)
              /\ v.dict \in Seq(Item(S)) /\ v = [dict |-> v.dict] /\ v \notin Scalars
           \/ /\ IsList(v) /\ ~IsDict(v) /\ ~IsText(v)
              /\ v.list \in Seq(S) /\ v = [list |-> v.list] /\ v \notin Scalars
           \/ /\ IsText(v) /\ ~IsDict(v) /\ ~IsList(v)
              /\ v.text \in Seq(Tokens) /\ v = [text |-> v.text] /\ v \in Scalars
           \/ /\ ~IsText(v) /\ ~IsDict(v) /\ ~IsList(v) /\ v \in Scalars
<1>1. CASE v \in [dict : Seq(Item(S))]
    BY <1>1 DEF IsDict, IsList, IsText, Scalars
<1>2. CASE v \in [list : Seq(S)]
    BY <1>2 DEF IsDict, IsList, IsText, Scalars
<1>3. CASE v \in [text : Seq(Tokens)]
    BY <1>3 DEF IsDict, IsList, IsText, Scalars
<1>4. CASE v \in [other : Others]
    BY <1>4 DEF IsDict, IsList, IsText, Scalars
<1> QED
    BY <1>1, <1>2, <1>3, <1>4 DEF Above, Scalars, Item

\* The values a value is made of.
Kids(v) ==
    IF IsDict(v) THEN {v.dict[i].value : i \in DOMAIN v.dict}
    ELSE IF IsList(v) THEN {v.list[i] : i \in DOMAIN v.list}
    ELSE {}

LEMMA KidsInside ==
    ASSUME NEW S, NEW v \in Above(S)
    PROVE  Kids(v) \subseteq S /\ (v \in Scalars => Kids(v) = {})
<1>1. CASE IsDict(v)
    <2>1. v.dict \in Seq(Item(S)) /\ v \notin Scalars
        BY <1>1, Kinds
    <2>2. \A i \in DOMAIN v.dict : v.dict[i] \in Item(S)
        BY <2>1
    <2> QED
        BY <1>1, <2>1, <2>2 DEF Kids, Item
<1>2. CASE IsList(v)
    <2>1. v.list \in Seq(S) /\ v \notin Scalars /\ ~IsDict(v)
        BY <1>2, Kinds
    <2>2. \A i \in DOMAIN v.list : v.list[i] \in S
        BY <2>1
    <2> QED
        BY <1>2, <2>1, <2>2 DEF Kids
<1> QED
    BY <1>1, <1>2 DEF Kids

LEMMA AboveGrows ==
    ASSUME NEW S, NEW T, S \subseteq T
    PROVE  Scalars \subseteq Above(S) /\ Above(S) \subseteq Above(T)
<1>1. Seq(S) \subseteq Seq(T)
    OBVIOUS
<1>2. Item(S) \subseteq Item(T)
    BY DEF Item
<1>3. Seq(Item(S)) \subseteq Seq(Item(T))
    BY <1>2
<1>4. [dict : Seq(Item(S))] \subseteq [dict : Seq(Item(T))]
    BY <1>3
<1>5. [list : Seq(S)] \subseteq [list : Seq(T)]
    BY <1>1
<1> QED
    BY <1>4, <1>5 DEF Above, Item

\* What is nested less deep is among what may be nested deeper.
LEMMA LevelsGrow ==
    ASSUME NEW d \in Nat
    PROVE  Scalars \subseteq Level[d] /\ Level[d] \subseteq Level[d + 1]
<1> DEFINE bad == {n \in Nat : ~ (Level[n] \subseteq Level[n + 1])}
<1>1. \A n \in Nat : /\ n + 1 \in Nat /\ n + 1 # 0 /\ (n + 1) - 1 = n
                     /\ Level[n + 1] = Above(Level[n])
    BY Levels
<1>2. Level[0] = Scalars
    BY Levels
<1>3. bad = {}
    <2> SUFFICES ASSUME bad # {} PROVE FALSE
        OBVIOUS
    <2>1. PICK n \in bad : \A m \in bad : n <= m
        <3> HIDE DEF bad
        <3>1. bad \subseteq Nat
            BY DEF bad
        <3> QED
            BY <3>1, LeastNumber
    <2>2. CASE n = 0
        BY <1>1, <1>2, <2>1, <2>2, AboveGrows
    <2>3. CASE n # 0
        <3>1. n - 1 \in Nat /\ n - 1 \notin bad /\ (n - 1) + 1 = n
            BY <2>1, <2>3
        <3>2. Level[n - 1] \subseteq Level[n]
            BY <3>1
        <3>3. Level[n] = Above(Level[n - 1]) /\ Level[n + 1] = Above(Level[n])
            BY <1>1, <2>1, <3>1
        <3> QED
            BY <2>1, <3>2, <3>3, AboveGrows
    <2> QED
        BY <2>2, <2>3
<1>4. Level[d] \subseteq Level[d + 1]
    BY <1>3
<1>5. Scalars \subseteq Level[d]
    <2>1. d # 0 => d - 1 \in Nat /\ Level[d] = Above(Level[d - 1])
        BY Levels
    <2> QED
        BY <1>2, <2>1, AboveGrows
<1> QED
    BY <1>4, <1>5

LEMMA LevelsNested ==
    ASSUME NEW e \in Nat, NEW d \in 0..e
    PROVE  Level[d] \subseteq Level[e]
<1> DEFINE bad == {i \in Nat : i <= e /\ ~(Level[e - i] \subseteq Level[e])}
<1>1. bad = {}
    <2> SUFFICES ASSUME bad # {} PROVE FALSE
        OBVIOUS
    <2>1. PICK i \in bad : \A j \in bad : i <= j
        <3> HIDE DEF bad
        <3>1. bad \subseteq Nat
            BY DEF bad
        <3> QED
            BY <3>1, LeastNumber
    <2>2. CASE i = 0
        BY <2>1, <2>2
    <2>3. CASE i # 0
        <3>1. i \in Nat /\ i <= e /\ i - 1 \in Nat /\ i - 1 \notin bad
            BY <2>1, <2>3
        <3>2. i - 1 <= e /\ e - i \in Nat /\ (e - i) + 1 = e - (i - 1)
            BY <3>1
        <3>3. Level[e - i] \subseteq Level[e - (i - 1)]
            BY <3>2, LevelsGrow
        <3>4. Level[e - (i - 1)] \subseteq Level[e]
            BY <3>1, <3>2
        <3> QED
            BY <2>1, <3>3, <3>4
    <2> QED
        BY <2>2, <2>3
<1>2. e - d \in Nat /\ e - d <= e /\ e - (e - d) = d
    OBVIOUS
<1> QED
    BY <1>1, <1>2

\* What a value that is nested at most d deep may be made of.
Below(d) == IF d = 0 THEN {} ELSE Level[d - 1]

LEMMA LevelsBelow ==
    ASSUME NEW d \in Nat
    PROVE  /\ Level[d] \subseteq Above(Below(d))
           /\ d # 0 => Level[d] = Above(Below(d)) /\ Scalars \subseteq Below(d)
           /\ d = 0 => Level[d] = Scalars
<1>1. d # 0 => d - 1 \in Nat
    OBVIOUS
<1> QED
    BY <1>1, Levels, LevelsGrow, AboveGrows DEF Below

rank == [v \in Json |-> CHOOSE d \in Nat : v \in Level[d] /\ \A e \in Nat : v \in Level[e] => d <= e]

\* The rank of a value is the depth it needs, and what it is made of needs less.
LEMMA Ranks ==
    /\ rank \in [Json -> Nat]
    /\ \A v \in Json : /\ v \in Level[rank[v]] /\ rank[v] <= Depth
                       /\ \A d \in Nat : v \in Level[d] => rank[v] <= d
    /\ \A v \in Json : \A k \in Kids(v) : k \in Json /\ rank[k] < rank[v]
<1>1. ASSUME NEW v \in Json
      PROVE  /\ rank[v] \in Nat /\ v \in Level[rank[v]]
             /\ \A d \in Nat : v \in Level[d] => rank[v] <= d
    <2> DEFINE T == {d \in Nat : v \in Level[d]}
    <2>1. T # {} /\ T \subseteq Nat
        BY RedactionAssumption DEF Json
    <2>2. \E d \in T : \A e \in T : d <= e
        <3> HIDE DEF T
        <3> QED
            BY <2>1, LeastNumber
    <2>3. \E d \in Nat : v \in Level[d] /\ \A e \in Nat : v \in Level[e] => d <= e
        BY <2>2
    <2> QED
        BY <2>3 DEF rank
<1>2. rank \in [Json -> Nat]
    BY <1>1 DEF rank
<1>3. ASSUME NEW v \in Json PROVE rank[v] <= Depth
    BY <1>1, RedactionAssumption DEF Json
<1>4. \A d \in Nat : d <= Depth => Level[d] \subseteq Json
    BY LevelsNested, RedactionAssumption DEF Json
<1>5. ASSUME NEW v \in Json, NEW k \in Kids(v) PROVE k \in Json /\ rank[k] < rank[v]
    <2>1. rank[v] \in Nat /\ v \in Level[rank[v]] /\ rank[v] <= Depth
        BY <1>1, <1>3
    <2>2. k \in Below(rank[v]) /\ rank[v] # 0
        BY <1>5, <2>1, LevelsBelow, KidsInside DEF Below
    <2>3. rank[v] - 1 \in Nat /\ rank[v] - 1 <= Depth /\ k \in Level[rank[v] - 1]
        BY <2>1, <2>2, RedactionAssumption DEF Below
    <2>4. k \in Json
        BY <1>4, <2>3
    <2>5. rank[k] \in Nat /\ rank[k] <= rank[v] - 1
        BY <1>1, <2>3, <2>4
    <2> QED
        BY <2>1, <2>4, <2>5
<1> QED
    BY <1>1, <1>2, <1>3, <1>5

-----------------------------------------------------------------------------
(* Texts.                                                                  *)

Texts == Seq(Tokens)

LEMMA SubTyped ==
    ASSUME NEW text \in Texts, NEW k \in 1..Len(Patterns)
    PROVE  /\ Sub(text, Patterns[k]) \in Texts
           /\ Len(Sub(text, Patterns[k])) = Len(text)
<1>1. \A i \in 1..Len(text) : text[i] \in Tokens
    BY DEF Texts
<1>2. DOMAIN text = 1..Len(text) /\ Len(text) \in Nat
    BY DEF Texts
<1> DEFINE s == [i \in 1..Len(text) |-> IF text[i] \in Patterns[k] THEN MASK ELSE text[i]]
<1>3. s \in Seq(Tokens) /\ Len(s) = Len(text)
    BY <1>1, <1>2, RedactionAssumption
<1>4. Sub(text, Patterns[k]) = s
    BY <1>2 DEF Sub
<1> HIDE DEF s
<1> QED
    BY <1>3, <1>4 DEF Texts

MaskedUpTo(token, k) == \E j \in 1..k : token \in Patterns[j]

\* The loop over the patterns masks the tokens that one of them matches.
LEMMA TextMasked ==
    ASSUME NEW text \in Texts
    PROVE  /\ RedactText(text) \in Texts
           /\ RedactText(text) =
                [i \in DOMAIN text |-> IF text[i] \in Matched THEN MASK ELSE text[i]]
<1> DEFINE V == 0..Len(Patterns)
           F == [V -> Texts]
           With(g, k) == IF k = 0 THEN text ELSE Sub(g[k - 1], Patterns[k])
           step == [g \in F |-> [k \in V |-> With(g, k)]]
           id == [k \in V |-> k]
           start == [k \in V |-> text]
<1>1. Len(Patterns) \in Nat /\ id \in [V -> Nat] /\ start \in F
    BY RedactionAssumption
<1>2. ASSUME NEW g \in F, NEW k \in V PROVE With(g, k) \in Texts
    <2>1. k # 0 => k - 1 \in V /\ k \in 1..Len(Patterns)
        BY <1>1
    <2> QED
        BY <2>1, SubTyped
<1>3. step \in [F -> F]
    <2> HIDE DEF With
    <2> QED
        BY <1>2
<1>4. Grounded(V, Texts, id, step)
    <2>1. ASSUME NEW g \in F, NEW h \in F, NEW k \in V,
                 \A j \in V : id[j] < id[k] => g[j] = h[j]
          PROVE  step[g][k] = step[h][k]
        <3>1. k # 0 => k - 1 \in V /\ id[k - 1] < id[k]
            BY <1>1
        <3>2. With(g, k) = With(h, k)
            BY <2>1, <3>1
        <3> HIDE DEF With
        <3> QED
            BY <3>2
    <2> HIDE DEF V, id, step
    <2> QED
        BY <1>1, <1>3, <2>1 DEF Grounded
<1>5. Fixed(V, Texts, step)
    <2> HIDE DEF V, id, step
    <2> QED
        BY <1>4, Recursion
<1>6. PICK f \in F : f = [k \in V |-> With(f, k)]
    BY <1>5 DEF Fixed
<1> DEFINE sub == CHOOSE s : s = [k \in V |-> With(s, k)]
<1>7. sub = [k \in V |-> With(sub, k)]
    <2> HIDE DEF V, With
    <2> QED
        BY <1>6
<1>8. RedactText(text) = sub[Len(Patterns)]
    BY DEF RedactText
<1> HIDE DEF sub
<1> DEFINE Right(k) == /\ sub[k] \in Texts /\ Len(sub[k]) = Len(text)
                       /\ \A i \in 1..Len(text) :
                            sub[k][i] = IF MaskedUpTo(text[i], k) THEN MASK ELSE text[i]
           bad == {k \in V : ~Right(k)}
<1>9. bad = {}
    <2> SUFFICES ASSUME bad # {} PROVE FALSE
        OBVIOUS
    <2>1. PICK k \in bad : \A j \in bad : k <= j
        <3> HIDE DEF bad
        <3>1. bad \subseteq Nat
            BY <1>1 DEF bad
        <3> QED
            BY <3>1, LeastNumber
    <2>2. CASE k = 0
        <3>1. sub[k] = text
            BY <1>1, <1>7, <2>2
        <3>2. \A i \in 1..Len(text) : ~MaskedUpTo(text[i], k)
            BY <2>2 DEF MaskedUpTo
        <3> QED
            BY <2>1, <3>1, <3>2
    <2>3. CASE k # 0
        <3>1. k - 1 \in V /\ k - 1 \notin bad /\ k \in 1..Len(Patterns) /\ k \in Nat
            BY <1>1, <2>1, <2>3
        <3>2. Right(k - 1)
            BY <3>1
        <3>3. sub[k] = Sub(sub[k - 1], Patterns[k])
            BY <1>7, <2>1, <2>3
        <3>4. sub[k] \in Texts /\ Len(sub[k]) = Len(text)
            BY <3>1, <3>2, <3>3, SubTyped
        <3>5. ASSUME NEW i \in 1..Len(text)
              PROVE  sub[k][i] = IF MaskedUpTo(text[i], k) THEN MASK ELSE text[i]
            <4>1. i \in DOMAIN sub[k - 1]
                BY <3>2 DEF Texts
            <4>2. sub[k][i] = IF sub[k - 1][i] \in Patterns[k] THEN MASK ELSE sub[k - 1][i]
                BY <3>3, <4>1 DEF Sub
            <4>3. sub[k - 1][i] = IF MaskedUpTo(text[i], k - 1) THEN MASK ELSE text[i]
                BY <3>2
            <4>4. MaskedUpTo(text[i], k) <=> MaskedUpTo(text[i], k - 1) \/ text[i] \in Patterns[k]
                BY <3>1 DEF MaskedUpTo
            <4> QED
                BY <4>2, <4>3, <4>4
        <3>6. Right(k)
            BY <3>4, <3>5
        <3> HIDE DEF Right
        <3> QED
            BY <2>1, <3>6
    <2> QED
        BY <2>2, <2>3
<1>10. Right(Len(Patterns))
    BY <1>1, <1>9
<1>11. \A token : MaskedUpTo(token, Len(Patterns)) <=> token \in Matched
    BY RedactionAssumption DEF MaskedUpTo, Matched
<1>12. RedactText(text) \in Texts /\ DOMAIN text = 1..Len(text)
       /\ DOMAIN RedactText(text) = 1..Len(text)
    BY <1>8, <1>10 DEF Texts
<1>13. RedactText(text) = [i \in DOMAIN RedactText(text) |-> RedactText(text)[i]]
    BY <1>12 DEF Texts
<1> QED
    BY <1>8, <1>10, <1>11, <1>12, <1>13

-----------------------------------------------------------------------------
(* The recursion of redact_value.                                          *)

LEMMA MaskedIsText == Masked \in Scalars
<1>1. <<MASK>> \in Seq(Tokens)
    BY RedactionAssumption
<1> QED
    BY <1>1 DEF Masked, Scalars

\* Masking the items of a dict keeps their names and order.
LEMMA ItemsFacts ==
    ASSUME NEW S, NEW items \in Seq(Item(S)), NEW f
    PROVE  /\ DOMAIN Items(items, f) = DOMAIN items
           /\ DOMAIN items = 1..Len(items) /\ Len(items) \in Nat
           /\ \A i \in DOMAIN items :
                /\ items[i].name \in Names /\ items[i].value \in S
                /\ Items(items, f)[i] =
                     [name |-> items[i].name,
                      value |-> IF Sensitive(items[i].name) THEN Masked ELSE f[items[i].value]]
<1>1. DOMAIN items = 1..Len(items) /\ Len(items) \in Nat
    OBVIOUS
<1>2. ASSUME NEW i \in DOMAIN items
      PROVE  /\ items[i].name \in Names /\ items[i].value \in S
             /\ items[i] = [name |-> items[i].name, value |-> items[i].value]
    <2>1. items[i] \in Item(S)
        OBVIOUS
    <2> QED
        BY <2>1 DEF Item
<1>3. ASSUME NEW i \in DOMAIN items
      PROVE  Items(items, f)[i] =
               [name |-> items[i].name,
                value |-> IF Sensitive(items[i].name) THEN Masked ELSE f[items[i].value]]
    BY <1>2 DEF Items
<1> QED
    BY <1>1, <1>2, <1>3 DEF Items

LEMMA ItemsTyped ==
    ASSUME NEW S, NEW T, NEW items \in Seq(Item(S)), NEW f, Masked \in T,
           \A i \in DOMAIN items : f[items[i].value] \in T
    PROVE  Items(items, f) \in Seq(Item(T))
<1> DEFINE w == Items(items, f)
<1>1. /\ DOMAIN w = 1..Len(items) /\ DOMAIN items = 1..Len(items) /\ Len(items) \in Nat
      /\ w = [i \in DOMAIN items |-> w[i]]
    BY ItemsFacts DEF Items
<1>2. ASSUME NEW i \in 1..Len(items) PROVE w[i] \in Item(T)
    <2> DEFINE new == IF Sensitive(items[i].name) THEN Masked ELSE f[items[i].value]
    <2>1. items[i] \in Item(S) /\ i \in DOMAIN items
        BY <1>1
    <2>2. items[i].name \in Names
        BY <2>1 DEF Item
    <2>3. w[i] = [name |-> items[i].name, value |-> new]
        BY <2>1 DEF Items
    <2>4. new \in T
        BY <1>1
    <2> HIDE DEF new, w
    <2> QED
        BY <2>2, <2>3, <2>4 DEF Item
<1> HIDE DEF w
<1>3. w \in [1..Len(items) -> Item(T)]
    BY <1>1, <1>2
<1>4. w \in Seq(Item(T))
    BY <1>1, <1>3
<1> QED
    BY <1>4 DEF w

\* One call of redact_value, where g stands for the calls it makes.
RedactWith(g, v) ==
    IF IsDict(v) THEN [dict |-> Items(v.dict, g)]
    ELSE IF IsList(v) THEN [list |-> [i \in DOMAIN v.list |-> g[v.list[i]]]]
    ELSE IF IsText(v) THEN [text |-> RedactText(v.text)]
    ELSE v

\* Masking does not nest deeper.
LEMMA RedactLevel ==
    ASSUME NEW d \in Nat, NEW v \in Level[d], NEW g, \A k \in Kids(v) : g[k] \in Below(d)
    PROVE  RedactWith(g, v) \in Level[d]
<1>1. v \in Above(Below(d))
    BY LevelsBelow
<1>2. CASE v \in Scalars
    <2>1. CASE IsText(v)
        <3>1. v.text \in Texts /\ ~IsDict(v) /\ ~IsList(v)
            BY <1>1, <2>1, Kinds DEF Texts
        <3>2. RedactText(v.text) \in Seq(Tokens)
            BY <3>1, TextMasked DEF Texts
        <3>3. RedactWith(g, v) = [text |-> RedactText(v.text)]
            BY <2>1, <3>1 DEF RedactWith
        <3>4. RedactWith(g, v) \in Scalars
            BY <3>2, <3>3 DEF Scalars
        <3> QED
            BY <3>4, LevelsGrow
    <2>2. CASE ~IsText(v)
        <3>1. RedactWith(g, v) = v
            BY <1>1, <1>2, <2>2, Kinds DEF RedactWith
        <3> QED
            BY <3>1
    <2> QED
        BY <2>1, <2>2
<1>3. CASE v \notin Scalars
    <2>1. d # 0 /\ Level[d] = Above(Below(d)) /\ Masked \in Below(d)
        BY <1>3, LevelsBelow, MaskedIsText
    <2>2. CASE IsDict(v)
        <3>1. v.dict \in Seq(Item(Below(d)))
            BY <1>1, <2>2, Kinds
        <3>2. \A i \in DOMAIN v.dict : g[v.dict[i].value] \in Below(d)
            BY <2>2 DEF Kids
        <3>3. Items(v.dict, g) \in Seq(Item(Below(d)))
            BY <2>1, <3>1, <3>2, ItemsTyped
        <3>4. [dict |-> Items(v.dict, g)] \in [dict : Seq(Item(Below(d)))]
            BY <3>3
        <3> QED
            BY <2>1, <2>2, <3>4 DEF RedactWith, Above, Item
    <2>3. CASE IsList(v) /\ ~IsDict(v)
        <3>1. v.list \in Seq(Below(d)) /\ DOMAIN v.list = 1..Len(v.list) /\ Len(v.list) \in Nat
            BY <1>1, <2>3, Kinds
        <3>2. \A i \in DOMAIN v.list : g[v.list[i]] \in Below(d)
            BY <2>3 DEF Kids
        <3>3. [i \in DOMAIN v.list |-> g[v.list[i]]] \in Seq(Below(d))
            BY <3>1, <3>2
        <3>4. [list |-> [i \in DOMAIN v.list |-> g[v.list[i]]]] \in [list : Seq(Below(d))]
            BY <3>3
        <3> QED
            BY <2>1, <2>3, <3>4 DEF RedactWith, Above
    <2> QED
        BY <1>1, <1>3, <2>2, <2>3, Kinds
<1> QED
    BY <1>2, <1>3

\* One call depends on what the calls it makes return.
LEMMA RedactRest ==
    ASSUME NEW S, NEW v \in Above(S), NEW g, NEW h, \A k \in Kids(v) : g[k] = h[k]
    PROVE  RedactWith(g, v) = RedactWith(h, v)
<1>1. CASE IsDict(v)
    <2>1. v.dict \in Seq(Item(S))
        BY <1>1, Kinds
    <2>2. \A i \in DOMAIN v.dict : g[v.dict[i].value] = h[v.dict[i].value]
        BY <1>1 DEF Kids
    <2>3. Items(v.dict, g) = Items(v.dict, h)
        BY <2>2 DEF Items
    <2> QED
        BY <1>1, <2>3 DEF RedactWith
<1>2. CASE IsList(v) /\ ~IsDict(v)
    <2>1. \A i \in DOMAIN v.list : g[v.list[i]] = h[v.list[i]]
        BY <1>2 DEF Kids
    <2> QED
        BY <1>2, <2>1 DEF RedactWith
<1> QED
    BY <1>1, <1>2 DEF RedactWith

\* A function that is the recursion wherever that yields a value yields one
\* everywhere.
LEMMA RedactStays ==
    ASSUME NEW g, \A v \in Json : RedactWith(g, v) \in Json => g[v] = RedactWith(g, v)
    PROVE  \A v \in Json : g[v] = RedactWith(g, v) /\ g[v] \in Level[rank[v]]
<1> DEFINE bad == {v \in Json : ~(g[v] = RedactWith(g, v) /\ g[v] \in Level[rank[v]])}
<1> SUFFICES ASSUME bad # {} PROVE FALSE
    OBVIOUS
<1>1. PICK v \in bad : \A u \in bad : rank[v] <= rank[u]
    <2> HIDE DEF bad
    <2>1. bad \in SUBSET Json
        BY DEF bad
    <2> QED
        BY <2>1, Ranks, LeastRank
<1>2. v \in Json /\ rank[v] \in 0..Depth /\ rank[v] \in Nat /\ v \in Level[rank[v]]
    BY <1>1, Ranks
<1>3. ASSUME NEW k \in Kids(v) PROVE g[k] \in Below(rank[v])
    <2>1. k \in Json /\ rank[k] < rank[v] /\ rank[k] \in Nat
        BY <1>2, Ranks
    <2>2. k \notin bad
        BY <1>1, <1>2, <2>1
    <2>3. g[k] \in Level[rank[k]]
        BY <2>1, <2>2
    <2>4. rank[v] - 1 \in Nat /\ rank[k] \in 0..(rank[v] - 1) /\ rank[v] # 0
        BY <1>2, <2>1
    <2> QED
        BY <2>3, <2>4, LevelsNested DEF Below
<1>4. RedactWith(g, v) \in Level[rank[v]]
    BY <1>2, <1>3, RedactLevel
<1>5. RedactWith(g, v) \in Json
    BY <1>2, <1>4, LevelsNested, RedactionAssumption DEF Json
<1> QED
    BY <1>1, <1>2, <1>4, <1>5

\* redact_value does what its text says, and returns a value.
LEMMA Redacts ==
    /\ \A v \in Json : redact[v] = RedactWith(redact, v)
    /\ \A v \in Json : redact[v] \in Json
<1> DEFINE F == [Json -> Json]
           With(g, v) == IF RedactWith(g, v) \in Json THEN RedactWith(g, v) ELSE v
           step == [g \in F |-> [v \in Json |-> With(g, v)]]
<1>1. step \in [F -> F]
    OBVIOUS
<1>2. [v \in Json |-> v] \in F
    OBVIOUS
<1>3. ASSUME NEW g \in F, NEW h \in F, NEW v \in Json,
             \A u \in Json : rank[u] < rank[v] => g[u] = h[u]
      PROVE  step[g][v] = step[h][v]
    <2>1. \A k \in Kids(v) : g[k] = h[k]
        BY <1>3, Ranks
    <2>2. \E S : v \in Above(S)
        BY LevelsBelow, RedactionAssumption DEF Json
    <2>3. RedactWith(g, v) = RedactWith(h, v)
        BY <2>1, <2>2, RedactRest
    <2> QED
        BY <2>3
<1>4. Grounded(Json, Json, rank, step)
    <2> HIDE DEF step
    <2> QED
        BY <1>1, <1>2, <1>3, Ranks DEF Grounded
<1>5. Fixed(Json, Json, step)
    <2> HIDE DEF step
    <2> QED
        BY <1>4, Recursion
<1>6. PICK f \in F : f = [v \in Json |-> With(f, v)]
    BY <1>5 DEF Fixed
<1>7. \A v \in Json : f[v] = RedactWith(f, v)
    BY <1>6, RedactStays
<1>8. f = [v \in Json |-> RedactWith(f, v)]
    <2>1. f = [v \in Json |-> f[v]]
        OBVIOUS
    <2> QED
        BY <1>7, <2>1
<1>9. redact = CHOOSE g : g = [v \in Json |-> RedactWith(g, v)]
    BY DEF redact, RedactWith
<1>10. redact = [v \in Json |-> RedactWith(redact, v)]
    BY <1>8, <1>9
<1>11. \A v \in Json : redact[v] = RedactWith(redact, v)
    BY <1>10
<1>12. \A v \in Json : redact[v] \in Level[rank[v]]
    BY <1>11, RedactStays
<1> QED
    BY <1>11, <1>12, Ranks, LevelsNested, RedactionAssumption DEF Json

-----------------------------------------------------------------------------
(* The leaves of a value.                                                  *)

Steps == [name : Names] \cup [pos : Nat]
Leaf == [path : Seq(Steps), leaf : Json]

\* One level of the recursion, where g stands for the levels below.
LeavesWith(g, v) ==
    IF IsDict(v) /\ v.dict # << >> THEN
        UNION {Step([name |-> v.dict[i].name], g[v.dict[i].value]) : i \in DOMAIN v.dict}
    ELSE IF IsList(v) /\ v.list # << >> THEN
        UNION {Step([pos |-> i], g[v.list[i]]) : i \in DOMAIN v.list}
    ELSE {[path |-> << >>, leaf |-> v]}

\* Every value is above some set, and what it is made of are values.
LEMMA JsonAbove ==
    ASSUME NEW v \in Json
    PROVE  /\ v \in Above(Below(Depth)) /\ Below(Depth) \subseteq Json
           /\ Scalars \subseteq Json
<1>1. Depth # 0 => Depth - 1 \in 0..Depth
    BY RedactionAssumption
<1> QED
    BY <1>1, LevelsBelow, LevelsNested, LevelsGrow, RedactionAssumption DEF Json, Below

LEMMA StepTyped ==
    ASSUME NEW s \in Steps, NEW L \in SUBSET Leaf
    PROVE  /\ Step(s, L) \in SUBSET Leaf
           /\ \A l \in L : [path |-> <<s>> \o l.path, leaf |-> l.leaf] \in Step(s, L)
<1>1. ASSUME NEW l \in L PROVE [path |-> <<s>> \o l.path, leaf |-> l.leaf] \in Leaf
    <2>1. l.path \in Seq(Steps) /\ l.leaf \in Json /\ <<s>> \in Seq(Steps)
        BY DEF Leaf
    <2>2. <<s>> \o l.path \in Seq(Steps)
        BY <2>1, ConcatProperties
    <2> QED
        BY <2>1, <2>2 DEF Leaf
<1> QED
    BY <1>1 DEF Step

LEMMA LeavesTyped ==
    ASSUME NEW v \in Json, NEW g, \A k \in Kids(v) : g[k] \in SUBSET Leaf
    PROVE  LeavesWith(g, v) \in SUBSET Leaf
<1>1. CASE IsDict(v) /\ v.dict # << >>
    <2>1. v.dict \in Seq(Item(Below(Depth)))
        BY <1>1, JsonAbove, Kinds
    <2>2. ASSUME NEW i \in DOMAIN v.dict
          PROVE  Step([name |-> v.dict[i].name], g[v.dict[i].value]) \in SUBSET Leaf
        <3>1. v.dict[i] \in Item(Below(Depth)) /\ g[v.dict[i].value] \in SUBSET Leaf
            BY <1>1, <2>1 DEF Kids
        <3>2. [name |-> v.dict[i].name] \in Steps
            BY <3>1 DEF Item, Steps
        <3> QED
            BY <3>1, <3>2, StepTyped
    <2> QED
        BY <1>1, <2>2 DEF LeavesWith
<1>2. CASE ~IsDict(v) /\ IsList(v) /\ v.list # << >>
    <2>1. v.list \in Seq(Below(Depth))
        BY <1>2, JsonAbove, Kinds
    <2>2. ASSUME NEW i \in DOMAIN v.list PROVE Step([pos |-> i], g[v.list[i]]) \in SUBSET Leaf
        <3>1. g[v.list[i]] \in SUBSET Leaf /\ [pos |-> i] \in Steps
            BY <1>2, <2>1 DEF Kids, Steps
        <3> QED
            BY <3>1, StepTyped
    <2> QED
        BY <1>2, <2>2 DEF LeavesWith
<1>3. CASE ~(IsDict(v) /\ v.dict # << >>) /\ ~(IsList(v) /\ v.list # << >>)
    <2>1. [path |-> << >>, leaf |-> v] \in Leaf
        BY DEF Leaf
    <2> QED
        BY <1>3, <2>1 DEF LeavesWith
<1>4. IsList(v) => ~IsDict(v)
    BY JsonAbove, Kinds
<1> QED
    BY <1>1, <1>2, <1>3, <1>4

LEMMA LeavesRest ==
    ASSUME NEW v \in Json, NEW g, NEW h, \A k \in Kids(v) : g[k] = h[k]
    PROVE  LeavesWith(g, v) = LeavesWith(h, v)
<1>1. CASE IsDict(v)
    <2>1. \A i \in DOMAIN v.dict : g[v.dict[i].value] = h[v.dict[i].value]
        BY <1>1 DEF Kids
    <2> DEFINE A(f) == {Step([name |-> v.dict[i].name], f[v.dict[i].value]) : i \in DOMAIN v.dict}
    <2>2. A(g) = A(h)
        BY <2>1
    <2>3. \A f : LeavesWith(f, v) = IF v.dict # << >> THEN UNION A(f)
                                  ELSE {[path |-> << >>, leaf |-> v]}
        BY <1>1, JsonAbove, Kinds DEF LeavesWith
    <2> HIDE DEF A
    <2> QED
        BY <2>2, <2>3
<1>2. CASE ~IsDict(v) /\ IsList(v)
    <2>1. \A i \in DOMAIN v.list : g[v.list[i]] = h[v.list[i]]
        BY <1>2 DEF Kids
    <2> DEFINE A(f) == {Step([pos |-> i], f[v.list[i]]) : i \in DOMAIN v.list}
    <2>2. A(g) = A(h)
        BY <2>1
    <2>3. \A f : LeavesWith(f, v) = IF v.list # << >> THEN UNION A(f)
                                  ELSE {[path |-> << >>, leaf |-> v]}
        BY <1>2 DEF LeavesWith
    <2> HIDE DEF A
    <2> QED
        BY <2>2, <2>3
<1> QED
    BY <1>1, <1>2 DEF LeavesWith

\* The leaves are what their recursive definition says.
LEMMA LeavesFound ==
    /\ \A v \in Json : leaves[v] = LeavesWith(leaves, v)
    /\ \A v \in Json : leaves[v] \in SUBSET Leaf
<1> DEFINE R == SUBSET Leaf
           F == [Json -> R]
           step == [g \in F |-> [v \in Json |-> LeavesWith(g, v)]]
<1>1. step \in [F -> F]
    <2>1. ASSUME NEW g \in F, NEW v \in Json PROVE LeavesWith(g, v) \in R
        BY LeavesTyped, Ranks
    <2> HIDE DEF R
    <2> QED
        BY <2>1
<1>2. [v \in Json |-> {}] \in F
    OBVIOUS
<1>3. ASSUME NEW g \in F, NEW h \in F, NEW v \in Json,
             \A u \in Json : rank[u] < rank[v] => g[u] = h[u]
      PROVE  step[g][v] = step[h][v]
    <2>1. \A k \in Kids(v) : g[k] = h[k]
        BY <1>3, Ranks
    <2>2. LeavesWith(g, v) = LeavesWith(h, v)
        BY <2>1, LeavesRest
    <2> QED
        BY <2>2
<1>4. Grounded(Json, R, rank, step)
    <2> HIDE DEF step, R
    <2> QED
        BY <1>1, <1>2, <1>3, Ranks DEF Grounded
<1>5. Fixed(Json, R, step)
    <2> HIDE DEF step, R
    <2> QED
        BY <1>4, Recursion
<1>6. PICK f \in F : f = [v \in Json |-> LeavesWith(f, v)]
    BY <1>5 DEF Fixed
<1>7. leaves = CHOOSE g : g = [v \in Json |-> LeavesWith(g, v)]
    BY DEF leaves, LeavesWith
<1>8. leaves = [v \in Json |-> LeavesWith(leaves, v)]
    BY <1>6, <1>7
<1>9. \A v \in Json : leaves[v] = LeavesWith(leaves, v)
    BY <1>8
<1> DEFINE bad == {v \in Json : leaves[v] \notin R}
<1>10. bad = {}
    <2> SUFFICES ASSUME bad # {} PROVE FALSE
        OBVIOUS
    <2>1. PICK v \in bad : \A u \in bad : rank[v] <= rank[u]
        <3> HIDE DEF bad
        <3>1. bad \in SUBSET Json
            BY DEF bad
        <3> QED
            BY <3>1, Ranks, LeastRank
    <2>2. \A k \in Kids(v) : leaves[k] \in R
        BY <2>1, Ranks
    <2>3. LeavesWith(leaves, v) \in R
        BY <2>1, <2>2, LeavesTyped
    <2> QED
        BY <1>9, <2>1, <2>3
<1> QED
    BY <1>9, <1>10

LEMMA LeavesThere == \A v \in Json : leaves[v] # {}
<1> DEFINE bad == {v \in Json : leaves[v] = {}}
<1> SUFFICES ASSUME bad # {} PROVE FALSE
    OBVIOUS
<1>1. PICK v \in bad : \A u \in bad : rank[v] <= rank[u]
    <2> HIDE DEF bad
    <2>1. bad \in SUBSET Json
        BY DEF bad
    <2> QED
        BY <2>1, Ranks, LeastRank
<1>2. v \in Json /\ LeavesWith(leaves, v) = {}
    BY <1>1, LeavesFound
<1>3. \A k \in Kids(v) : k \in Json /\ leaves[k] \in SUBSET Leaf /\ leaves[k] # {}
    BY <1>1, <1>2, Ranks, LeavesFound
<1>4. CASE IsDict(v) /\ v.dict # << >>
    <2>1. v.dict \in Seq(Item(Below(Depth)))
        BY <1>2, <1>4, JsonAbove, Kinds
    <2>2. 1 \in DOMAIN v.dict /\ v.dict[1] \in Item(Below(Depth))
        BY <1>4, <2>1
    <2>3. leaves[v.dict[1].value] # {} /\ leaves[v.dict[1].value] \in SUBSET Leaf
        BY <1>3, <1>4, <2>2 DEF Kids
    <2>4. [name |-> v.dict[1].name] \in Steps
        BY <2>2 DEF Item, Steps
    <2>5. Step([name |-> v.dict[1].name], leaves[v.dict[1].value]) # {}
        BY <2>3, <2>4, StepTyped
    <2> QED
        BY <1>2, <1>4, <2>2, <2>5 DEF LeavesWith
<1>5. CASE ~IsDict(v) /\ IsList(v) /\ v.list # << >>
    <2>1. v.list \in Seq(Below(Depth))
        BY <1>2, <1>5, JsonAbove, Kinds
    <2>2. 1 \in DOMAIN v.list /\ [pos |-> 1] \in Steps
        BY <1>5, <2>1 DEF Steps
    <2>3. leaves[v.list[1]] # {} /\ leaves[v.list[1]] \in SUBSET Leaf
        BY <1>3, <1>5, <2>2 DEF Kids
    <2>4. Step([pos |-> 1], leaves[v.list[1]]) # {}
        BY <2>2, <2>3, StepTyped
    <2> QED
        BY <1>2, <1>5, <2>2, <2>4 DEF LeavesWith
<1>6. IsList(v) => ~IsDict(v)
    BY <1>2, JsonAbove, Kinds
<1> QED
    BY <1>2, <1>4, <1>5, <1>6 DEF LeavesWith

-----------------------------------------------------------------------------
(* Masking of a leaf, one step of its path at a time.                      *)

SensitiveStep(s) == DOMAIN s = {"name"} /\ Sensitive(s.name)

SensitiveAt(path) == {i \in DOMAIN path : SensitiveStep(path[i])}

\* FirstSensitive is the first of them.
LEMMA FirstFacts ==
    ASSUME NEW path \in Seq(Steps)
    PROVE  /\ SensitiveAt(path) = {} => FirstSensitive(path) = 0
           /\ SensitiveAt(path) # {} =>
                /\ FirstSensitive(path) \in SensitiveAt(path)
                /\ \A j \in SensitiveAt(path) : FirstSensitive(path) <= j
           /\ FirstSensitive(path) \in 0..Len(path)
<1> DEFINE at == SensitiveAt(path)
<1>1. at \subseteq 1..Len(path) /\ Len(path) \in Nat
    BY DEF SensitiveAt
<1>2. FirstSensitive(path) = IF at = {} THEN 0 ELSE CHOOSE i \in at : \A j \in at : i <= j
    BY DEF FirstSensitive, SensitiveAt, SensitiveStep
<1> HIDE DEF at
<1>3. at # {} => \E i \in at : \A j \in at : i <= j
    <2>1. at \subseteq Nat
        BY <1>1
    <2> QED
        BY <2>1, LeastNumber
<1>4. at # {} => FirstSensitive(path) \in at /\ \A j \in at : FirstSensitive(path) <= j
    BY <1>2, <1>3
<1>5. FirstSensitive(path) \in 0..Len(path)
    <2>1. at = {} => FirstSensitive(path) = 0
        BY <1>2
    <2>2. at # {} => FirstSensitive(path) \in 1..Len(path)
        BY <1>1, <1>4
    <2> QED
        BY <1>1, <2>1, <2>2
<1> QED
    BY <1>2, <1>4, <1>5 DEF at

\* A number that is in a set and below all others is the first.
LEMMA FirstIs ==
    ASSUME NEW path \in Seq(Steps), NEW n \in SensitiveAt(path),
           \A j \in SensitiveAt(path) : n <= j
    PROVE  FirstSensitive(path) = n
<1>1. SensitiveAt(path) \subseteq Nat
    BY DEF SensitiveAt
<1> QED
    BY <1>1, FirstFacts

Longer(s, l) == [path |-> <<s>> \o l.path, leaf |-> l.leaf]

\* Where masking begins, seen from one step further up.
LEMMA FirstLonger ==
    ASSUME NEW s \in Steps, NEW path \in Seq(Steps)
    PROVE  /\ <<s>> \o path \in Seq(Steps)
           /\ SensitiveStep(s) => FirstSensitive(<<s>> \o path) = 1
           /\ ~SensitiveStep(s) =>
                FirstSensitive(<<s>> \o path) =
                    IF FirstSensitive(path) = 0 THEN 0 ELSE FirstSensitive(path) + 1
<1> DEFINE q == <<s>> \o path
<1>1. /\ <<s>> \in Seq(Steps) /\ Len(<<s>>) = 1 /\ <<s>>[1] = s /\ Len(path) \in Nat
      /\ DOMAIN path = 1..Len(path)
    OBVIOUS
<1>2. /\ q \in Seq(Steps) /\ Len(q) = 1 + Len(path)
      /\ \A i \in 1..(1 + Len(path)) : q[i] = IF i <= 1 THEN <<s>>[i] ELSE path[i - 1]
    BY <1>1, ConcatProperties
<1> HIDE DEF q
<1>3. DOMAIN q = 1..(1 + Len(path)) /\ q[1] = s
    BY <1>1, <1>2
<1>4. \A i \in 1..Len(path) : i + 1 \in DOMAIN q /\ q[i + 1] = path[i]
    BY <1>1, <1>2, <1>3
<1>5. \A i \in DOMAIN q : i # 1 => i - 1 \in 1..Len(path) /\ q[i] = path[i - 1]
    BY <1>1, <1>2, <1>3
<1>6. ASSUME SensitiveStep(s) PROVE FirstSensitive(q) = 1
    <2>1. 1 \in SensitiveAt(q) /\ \A j \in SensitiveAt(q) : 1 <= j
        BY <1>1, <1>3, <1>6 DEF SensitiveAt
    <2> QED
        BY <1>2, <2>1, FirstIs
<1>7. ASSUME ~SensitiveStep(s), SensitiveAt(path) = {} PROVE FirstSensitive(q) = 0
    <2>1. SensitiveAt(q) = {}
        BY <1>1, <1>3, <1>5, <1>7 DEF SensitiveAt
    <2> QED
        BY <1>2, <2>1, FirstFacts
<1>8. ASSUME ~SensitiveStep(s), SensitiveAt(path) # {}
      PROVE  FirstSensitive(q) = FirstSensitive(path) + 1 /\ FirstSensitive(path) # 0
    <2> DEFINE n == FirstSensitive(path)
    <2>1. n \in SensitiveAt(path) /\ \A j \in SensitiveAt(path) : n <= j
        BY <1>8, FirstFacts
    <2> HIDE DEF n
    <2>2. n \in 1..Len(path) /\ SensitiveStep(path[n])
        BY <1>1, <2>1 DEF SensitiveAt
    <2>3. n + 1 \in SensitiveAt(q)
        BY <1>4, <2>2 DEF SensitiveAt
    <2>4. ASSUME NEW j \in SensitiveAt(q) PROVE n + 1 <= j
        <3>1. j \in DOMAIN q /\ SensitiveStep(q[j])
            BY DEF SensitiveAt
        <3>2. j # 1
            BY <1>3, <1>8, <3>1
        <3>3. j - 1 \in SensitiveAt(path)
            BY <1>1, <1>5, <3>1, <3>2 DEF SensitiveAt
        <3>4. n <= j - 1 /\ j \in Nat
            BY <1>1, <1>3, <2>1, <3>1, <3>3
        <3> QED
            BY <1>1, <2>2, <3>4
    <2>5. FirstSensitive(q) = n + 1
        BY <1>2, <2>3, <2>4, FirstIs
    <2> QED
        BY <1>1, <2>2, <2>5 DEF n
<1>9. SensitiveAt(path) = {} => FirstSensitive(path) = 0
    BY FirstFacts
<1> QED
    BY <1>2, <1>6, <1>7, <1>8, <1>9 DEF q

\* What masking makes of a leaf, seen from one step further up.
LEMMA MaskedLonger ==
    ASSUME NEW s \in Steps, NEW l \in Leaf
    PROVE  MaskedLeaf(Longer(s, l)) =
             IF SensitiveStep(s) THEN [path |-> <<s>>, leaf |-> Masked]
             ELSE Longer(s, MaskedLeaf(l))
<1> DEFINE first == FirstSensitive(l.path)
           q == <<s>> \o l.path
<1>1. l.path \in Seq(Steps) /\ <<s>> \in Seq(Steps) /\ Len(<<s>>) = 1
    BY DEF Leaf
<1>2. q \in Seq(Steps) /\ Len(q) = 1 + Len(l.path) /\ Len(l.path) \in Nat /\ q[1] = s
      /\ \A i \in 1..Len(l.path) : q[i + 1] = l.path[i]
    <2>1. \A i \in 1..(1 + Len(l.path)) : q[i] = IF i <= 1 THEN <<s>>[i] ELSE l.path[i - 1]
        BY <1>1, ConcatProperties
    <2>2. q \in Seq(Steps) /\ Len(q) = 1 + Len(l.path) /\ Len(l.path) \in Nat
        BY <1>1, ConcatProperties
    <2> HIDE DEF q
    <2> QED
        BY <2>1, <2>2
<1>3. Longer(s, l).path = q /\ Longer(s, l).leaf = l.leaf
    BY DEF Longer
<1>4. first \in 0..Len(l.path)
    BY <1>1, FirstFacts
<1>5. /\ SensitiveStep(s) => FirstSensitive(q) = 1
      /\ ~SensitiveStep(s) => FirstSensitive(q) = IF first = 0 THEN 0 ELSE first + 1
    BY <1>1, FirstLonger
<1> HIDE DEF q, first
<1>6. CASE SensitiveStep(s)
    <2>1. MaskedLeaf(Longer(s, l)) = [path |-> SubSeq(q, 1, 1), leaf |-> Masked]
        BY <1>3, <1>5, <1>6 DEF MaskedLeaf
    <2>2. SubSeq(q, 1, 1) = <<s>>
        <3> DEFINE a == SubSeq(q, 1, 1)
        <3>1. \A i \in 1..1 : q[i] \in Steps
            BY <1>2
        <3>2. a \in Seq(Steps) /\ Len(a) = 1 /\ a[1] = s
            BY <1>2, <3>1, SubSeqProperties
        <3> HIDE DEF a
        <3>3. a = <<s>>
            BY <1>1, <3>2, SeqEqual
        <3> QED
            BY <3>3 DEF a
    <2> QED
        BY <1>6, <2>1, <2>2
<1>7. CASE ~SensitiveStep(s) /\ first = 0
    <2>1. MaskedLeaf(Longer(s, l)) = [path |-> q, leaf |-> MaskedScalar(l.leaf)]
        BY <1>3, <1>5, <1>7 DEF MaskedLeaf
    <2>2. MaskedLeaf(l) = [path |-> l.path, leaf |-> MaskedScalar(l.leaf)]
        BY <1>7 DEF MaskedLeaf, first
    <2> QED
        BY <1>7, <2>1, <2>2 DEF Longer, q
<1>8. CASE ~SensitiveStep(s) /\ first # 0
    <2>1. MaskedLeaf(Longer(s, l)) = [path |-> SubSeq(q, 1, first + 1), leaf |-> Masked]
        BY <1>3, <1>4, <1>5, <1>8 DEF MaskedLeaf
    <2>2. MaskedLeaf(l) = [path |-> SubSeq(l.path, 1, first), leaf |-> Masked]
        BY <1>4, <1>8 DEF MaskedLeaf, first
    <2>3. SubSeq(q, 1, first + 1) = <<s>> \o SubSeq(l.path, 1, first)
        <3>1. first \in 1..Len(l.path) /\ first \in Int /\ first + 1 \in Int
            BY <1>4, <1>8
        <3>2. \A i \in 1..first : l.path[i] \in Steps
            BY <1>1, <3>1
        <3>3. \A i \in 1..(first + 1) : q[i] \in Steps
            BY <1>2, <3>1
        <3> DEFINE a == SubSeq(q, 1, first + 1)
                   b == SubSeq(l.path, 1, first)
        <3>4. /\ a \in Seq(Steps) /\ Len(a) = first + 1
              /\ \A i \in 1..(first + 1) : a[i] = q[i]
            BY <3>1, <3>3, SubSeqProperties
        <3>5. b \in Seq(Steps) /\ Len(b) = first /\ \A i \in 1..first : b[i] = l.path[i]
            BY <3>1, <3>2, SubSeqProperties
        <3> HIDE DEF a, b
        <3>6. /\ <<s>> \o b \in Seq(Steps) /\ Len(<<s>> \o b) = first + 1
              /\ \A i \in 1..(1 + first) : (<<s>> \o b)[i] = IF i <= 1 THEN <<s>>[i] ELSE b[i - 1]
            BY <1>1, <3>1, <3>5, ConcatProperties
        <3>7. ASSUME NEW i \in 1..(first + 1) PROVE a[i] = (<<s>> \o b)[i]
            <4>1. CASE i = 1
                BY <1>2, <3>1, <3>4, <3>6, <4>1
            <4>2. CASE i # 1
                <5>1. i - 1 \in 1..first /\ i - 1 \in 1..Len(l.path) /\ (i - 1) + 1 = i
                    BY <3>1, <4>2
                <5>2. q[i] = l.path[i - 1]
                    BY <1>2, <5>1
                <5> QED
                    BY <3>1, <3>4, <3>5, <3>6, <4>2, <5>1, <5>2
            <4> QED
                BY <4>1, <4>2
        <3>8. a = <<s>> \o b
            BY <3>1, <3>4, <3>6, <3>7, SeqEqual
        <3> QED
            BY <3>8 DEF a, b
    <2>4. Longer(s, MaskedLeaf(l)) =
            [path |-> <<s>> \o SubSeq(l.path, 1, first), leaf |-> Masked]
        BY <2>2 DEF Longer
    <2>5. MaskedLeaf(Longer(s, l)) = Longer(s, MaskedLeaf(l))
        BY <2>1, <2>3, <2>4
    <2> QED
        BY <1>8, <2>5
<1> QED
    BY <1>6, <1>7, <1>8

-----------------------------------------------------------------------------
(* What redact_value masks.                                                *)

\* One step of a path: what is below it is masked, or the name hides it all.
LEMMA StepMasked ==
    ASSUME NEW s \in Steps, NEW L \in SUBSET Leaf, L # {}
    PROVE  {MaskedLeaf(m) : m \in Step(s, L)} =
             IF SensitiveStep(s) THEN {[path |-> <<s>>, leaf |-> Masked]}
             ELSE Step(s, {MaskedLeaf(l) : l \in L})
<1>1. \A l \in L : MaskedLeaf(Longer(s, l)) =
             IF SensitiveStep(s) THEN [path |-> <<s>>, leaf |-> Masked]
             ELSE Longer(s, MaskedLeaf(l))
    BY MaskedLonger
<1>2. \A M : Step(s, M) = {Longer(s, l) : l \in M}
    BY DEF Step, Longer
<1>3. {MaskedLeaf(m) : m \in Step(s, L)} = {MaskedLeaf(Longer(s, l)) : l \in L}
    BY <1>2
<1>4. CASE SensitiveStep(s)
    <2>1. {MaskedLeaf(Longer(s, l)) : l \in L} = {[path |-> <<s>>, leaf |-> Masked]}
        BY <1>1, <1>4
    <2> QED
        BY <1>3, <1>4, <2>1
<1>5. CASE ~SensitiveStep(s)
    <2>1. {MaskedLeaf(Longer(s, l)) : l \in L} = {Longer(s, MaskedLeaf(l)) : l \in L}
        BY <1>1, <1>5
    <2>2. Step(s, {MaskedLeaf(l) : l \in L}) = {Longer(s, MaskedLeaf(l)) : l \in L}
        BY <1>2
    <2> QED
        BY <1>3, <1>5, <2>1, <2>2
<1> QED
    BY <1>4, <1>5

\* A value that is its own leaf.
Flat(v) == ~(IsDict(v) /\ v.dict # << >>) /\ ~(IsList(v) /\ v.list # << >>)

LEMMA FlatMasked ==
    ASSUME NEW v \in Json, Flat(v)
    PROVE  ExactlyMasked(v, redact[v])
<1>1. leaves[v] = {[path |-> << >>, leaf |-> v]}
    BY LeavesFound DEF LeavesWith, Flat
<1>2. MaskedLeaf([path |-> << >>, leaf |-> v]) = [path |-> << >>, leaf |-> MaskedScalar(v)]
    <2>1. FirstSensitive(<< >>) = 0
        <3>1. << >> \in Seq(Steps) /\ SensitiveAt(<< >>) = {}
            BY DEF SensitiveAt
        <3> QED
            BY <3>1, FirstFacts
    <2> QED
        BY <2>1 DEF MaskedLeaf
<1>3. redact[v] = RedactWith(redact, v) /\ redact[v] \in Json
    BY Redacts
<1>4. redact[v] = MaskedScalar(v) /\ Flat(redact[v])
    <2>1. CASE IsDict(v)
        <3>1. v.dict = << >> /\ v = [dict |-> << >>] /\ ~IsText(v) /\ ~IsList(v)
            BY <2>1, JsonAbove, Kinds DEF Flat
        <3>2. Items(<< >>, redact) = << >>
            BY DEF Items
        <3>3. redact[v] = v
            BY <1>3, <2>1, <3>1, <3>2 DEF RedactWith
        <3> QED
            BY <3>1, <3>3 DEF MaskedScalar
    <2>2. CASE IsList(v)
        <3>1. v.list = << >> /\ v = [list |-> << >>] /\ ~IsText(v) /\ ~IsDict(v)
            BY <2>2, JsonAbove, Kinds DEF Flat
        <3>2. [i \in DOMAIN << >> |-> redact[<< >>[i]]] = << >>
            OBVIOUS
        <3>3. redact[v] = v
            BY <1>3, <2>2, <3>1, <3>2 DEF RedactWith
        <3> QED
            BY <3>1, <3>3 DEF MaskedScalar
    <2>3. CASE IsText(v)
        <3>1. v.text \in Texts /\ ~IsDict(v) /\ ~IsList(v)
            BY <2>3, JsonAbove, Kinds DEF Texts
        <3>2. redact[v] = [text |-> RedactText(v.text)]
            BY <1>3, <2>3, <3>1 DEF RedactWith
        <3>3. redact[v] = MaskedScalar(v)
            BY <2>3, <3>1, <3>2, TextMasked DEF MaskedScalar
        <3>4. ~IsDict(redact[v]) /\ ~IsList(redact[v])
            BY <3>2 DEF IsDict, IsList
        <3> QED
            BY <3>3, <3>4 DEF Flat
    <2>4. CASE ~IsDict(v) /\ ~IsList(v) /\ ~IsText(v)
        BY <1>3, <2>4 DEF RedactWith, MaskedScalar, Flat
    <2> QED
        BY <2>1, <2>2, <2>3, <2>4
<1>5. leaves[redact[v]] = {[path |-> << >>, leaf |-> redact[v]]}
    BY <1>3, <1>4, LeavesFound DEF LeavesWith, Flat
<1>6. {MaskedLeaf(l) : l \in leaves[v]} = {[path |-> << >>, leaf |-> MaskedScalar(v)]}
    BY <1>1, <1>2
<1> QED
    BY <1>4, <1>5, <1>6 DEF ExactlyMasked

\* The leaf that takes the place of what a sensitive name hides.
LEMMA MaskedLeaves == leaves[Masked] = {[path |-> << >>, leaf |-> Masked]}
<1>1. Masked \in Json /\ ~IsDict(Masked) /\ ~IsList(Masked)
    <2>1. Masked \in Json
        BY MaskedIsText, LevelsGrow, RedactionAssumption DEF Json
    <2> QED
        BY <2>1 DEF Masked, IsDict, IsList
<1> QED
    BY <1>1, LeavesFound DEF LeavesWith

LEMMA StepOfMasked ==
    ASSUME NEW s \in Steps
    PROVE  Step(s, leaves[Masked]) = {[path |-> <<s>>, leaf |-> Masked]}
<1>1. <<s>> \o << >> = <<s>>
    <2>1. <<s>> \in Seq(Steps)
        OBVIOUS
    <2> QED
        BY <2>1, ConcatEmptySeq
<1> DEFINE e == [path |-> << >>, leaf |-> Masked]
<1>2. e.path = << >> /\ e.leaf = Masked
    OBVIOUS
<1>3. leaves[Masked] = {e}
    BY MaskedLeaves
<1> HIDE DEF e
<1>4. Step(s, {e}) = {[path |-> <<s>> \o e.path, leaf |-> e.leaf]}
    BY DEF Step
<1> QED
    BY <1>1, <1>2, <1>3, <1>4

LEMMA DictMasked ==
    ASSUME NEW v \in Json, IsDict(v), v.dict # << >>,
           \A k \in Kids(v) : k \in Json /\ ExactlyMasked(k, redact[k])
    PROVE  ExactlyMasked(v, redact[v])
<1> DEFINE n == v.dict
           w == Items(n, redact)
           s(i) == [name |-> n[i].name]
           A(i) == Step(s(i), leaves[n[i].value])
           B(i) == Step(s(i), leaves[w[i].value])
<1>1. n \in Seq(Item(Below(Depth))) /\ ~IsList(v)
    BY JsonAbove, Kinds
<1>2. leaves[v] = UNION {A(i) : i \in DOMAIN n}
    BY LeavesFound DEF LeavesWith
<1>3. redact[v] = [dict |-> w] /\ redact[v] \in Json
    BY Redacts DEF RedactWith
<1>4. DOMAIN w = DOMAIN n /\ n # << >> /\ DOMAIN n = 1..Len(n) /\ Len(n) \in Nat
    BY <1>1, ItemsFacts
<1>5. ASSUME NEW i \in DOMAIN n
      PROVE  /\ s(i) \in Steps /\ (SensitiveStep(s(i)) <=> Sensitive(n[i].name))
             /\ n[i].value \in Kids(v)
             /\ w[i].name = n[i].name
             /\ w[i].value = IF Sensitive(n[i].name) THEN Masked ELSE redact[n[i].value]
    <2>1. n[i] \in Item(Below(Depth))
        BY <1>1
    <2>2. s(i) \in Steps /\ (SensitiveStep(s(i)) <=> Sensitive(n[i].name))
        BY <2>1 DEF Item, Steps, SensitiveStep
    <2>3. n[i].value \in Kids(v)
        BY DEF Kids
    <2>4. w[i].name = n[i].name
          /\ w[i].value = IF Sensitive(n[i].name) THEN Masked ELSE redact[n[i].value]
        BY DEF Items
    <2> HIDE DEF s, w, n
    <2> QED
        BY <2>2, <2>3, <2>4
<1>6. ASSUME NEW i \in DOMAIN n PROVE B(i) = {MaskedLeaf(m) : m \in A(i)}
    <2> DEFINE L == leaves[n[i].value]
    <2>1. /\ n[i].value \in Json /\ ExactlyMasked(n[i].value, redact[n[i].value])
          /\ L \in SUBSET Leaf /\ L # {}
        BY <1>5, LeavesFound, LeavesThere
    <2>2. s(i) \in Steps
        BY <1>5
    <2> HIDE DEF L, s, w, n
    <2>3. {MaskedLeaf(m) : m \in Step(s(i), L)} =
            IF SensitiveStep(s(i)) THEN {[path |-> <<s(i)>>, leaf |-> Masked]}
            ELSE Step(s(i), {MaskedLeaf(l) : l \in L})
        BY <2>1, <2>2, StepMasked
    <2>4. CASE Sensitive(n[i].name)
        <3>1. B(i) = {[path |-> <<s(i)>>, leaf |-> Masked]}
            BY <1>5, <2>2, <2>4, StepOfMasked
        <3> QED
            BY <1>5, <2>3, <2>4, <3>1 DEF L
    <2>5. CASE ~Sensitive(n[i].name)
        <3>1. leaves[w[i].value] = {MaskedLeaf(l) : l \in L}
            BY <1>5, <2>1, <2>5 DEF ExactlyMasked, L
        <3> QED
            BY <1>5, <2>3, <2>5, <3>1 DEF L
    <2> QED
        BY <2>4, <2>5
<1>7. leaves[redact[v]] = UNION {B(i) : i \in DOMAIN n}
    <2>1. IsDict(redact[v]) /\ redact[v].dict = w
        BY <1>3 DEF IsDict
    <2>2. w # << >>
        BY <1>4
    <2> DEFINE u == redact[v]
    <2> HIDE DEF u, w
    <2>3. leaves[u] =
            UNION {Step([name |-> u.dict[i].name], leaves[u.dict[i].value]) : i \in DOMAIN u.dict}
        <3>1. IsDict(u) /\ u.dict # << >> /\ u \in Json
            BY <1>3, <2>1, <2>2 DEF u
        <3> QED
            BY <3>1, LeavesFound DEF LeavesWith
    <2>4. \A i \in DOMAIN n : Step([name |-> w[i].name], leaves[w[i].value]) = B(i)
        BY <1>5
    <2>5. u.dict = w
        BY <2>1 DEF u
    <2> HIDE DEF B, n
    <2> QED
        BY <1>4, <2>3, <2>4, <2>5 DEF u
<1>8. UNION {B(i) : i \in DOMAIN n} = {MaskedLeaf(m) : m \in UNION {A(i) : i \in DOMAIN n}}
    <2> HIDE DEF A, B, n
    <2> QED
        BY <1>6
<1> QED
    BY <1>2, <1>7, <1>8 DEF ExactlyMasked

LEMMA ListMasked ==
    ASSUME NEW v \in Json, IsList(v), v.list # << >>,
           \A k \in Kids(v) : k \in Json /\ ExactlyMasked(k, redact[k])
    PROVE  ExactlyMasked(v, redact[v])
<1> DEFINE n == v.list
           w == [i \in DOMAIN n |-> redact[n[i]]]
           s(i) == [pos |-> i]
           A(i) == Step(s(i), leaves[n[i]])
           B(i) == Step(s(i), leaves[w[i]])
<1>1. n \in Seq(Below(Depth)) /\ ~IsDict(v)
    BY JsonAbove, Kinds
<1>2. leaves[v] = UNION {A(i) : i \in DOMAIN n}
    BY <1>1, LeavesFound DEF LeavesWith
<1>3. redact[v] = [list |-> w] /\ redact[v] \in Json
    BY <1>1, Redacts DEF RedactWith
<1>4. DOMAIN w = DOMAIN n /\ n # << >> /\ DOMAIN n = 1..Len(n) /\ Len(n) \in Nat
    BY <1>1
<1>5. ASSUME NEW i \in DOMAIN n
      PROVE  s(i) \in Steps /\ ~SensitiveStep(s(i)) /\ n[i] \in Kids(v) /\ w[i] = redact[n[i]]
    <2>1. s(i) \in Steps /\ ~SensitiveStep(s(i))
        BY <1>4 DEF Steps, SensitiveStep
    <2>2. n[i] \in Kids(v)
        BY <1>1 DEF Kids
    <2> QED
        BY <2>1, <2>2
<1>6. ASSUME NEW i \in DOMAIN n PROVE B(i) = {MaskedLeaf(m) : m \in A(i)}
    <2> DEFINE L == leaves[n[i]]
    <2>1. /\ n[i] \in Json /\ ExactlyMasked(n[i], redact[n[i]])
          /\ L \in SUBSET Leaf /\ L # {}
        BY <1>5, LeavesFound, LeavesThere
    <2>2. leaves[w[i]] = {MaskedLeaf(l) : l \in L}
        BY <1>5, <2>1 DEF ExactlyMasked
    <2>3. s(i) \in Steps /\ ~SensitiveStep(s(i))
        BY <1>5
    <2> HIDE DEF L, s, w, n
    <2>4. {MaskedLeaf(m) : m \in Step(s(i), L)} = Step(s(i), {MaskedLeaf(l) : l \in L})
        BY <2>1, <2>3, StepMasked
    <2> QED
        BY <2>2, <2>4 DEF L
<1>7. leaves[redact[v]] = UNION {B(i) : i \in DOMAIN n}
    <2>1. IsList(redact[v]) /\ ~IsDict(redact[v]) /\ redact[v].list = w
        BY <1>3 DEF IsList, IsDict
    <2>2. w # << >>
        BY <1>4
    <2> DEFINE u == redact[v]
    <2> HIDE DEF u, w
    <2>3. leaves[u] = UNION {Step([pos |-> i], leaves[u.list[i]]) : i \in DOMAIN u.list}
        <3>1. IsList(u) /\ ~IsDict(u) /\ u.list # << >> /\ u \in Json
            BY <1>3, <2>1, <2>2 DEF u
        <3> QED
            BY <3>1, LeavesFound DEF LeavesWith
    <2>4. u.list = w
        BY <2>1 DEF u
    <2> HIDE DEF n
    <2> QED
        BY <1>4, <2>3, <2>4 DEF u
<1>8. UNION {B(i) : i \in DOMAIN n} = {MaskedLeaf(m) : m \in UNION {A(i) : i \in DOMAIN n}}
    <2> HIDE DEF A, B, n
    <2> QED
        BY <1>6
<1> QED
    BY <1>2, <1>7, <1>8 DEF ExactlyMasked

\* redact_value on any value, at every depth: a leaf below a sensitive name is
\* gone with all that is beside it there, in a text exactly the tokens that a
\* pattern matches are masked, and nothing else is altered.
THEOREM MaskedAtEveryDepth == \A v \in Json : ExactlyMasked(v, RedactValue(v))
<1> DEFINE bad == {v \in Json : ~ExactlyMasked(v, redact[v])}
<1>1. bad = {}
    <2> SUFFICES ASSUME bad # {} PROVE FALSE
        OBVIOUS
    <2>1. PICK v \in bad : \A u \in bad : rank[v] <= rank[u]
        <3> HIDE DEF bad
        <3>1. bad \in SUBSET Json
            BY DEF bad
        <3> QED
            BY <3>1, Ranks, LeastRank
    <2>2. v \in Json /\ rank[v] \in Nat
        BY <2>1, Ranks
    <2>3. \A k \in Kids(v) : k \in Json /\ ExactlyMasked(k, redact[k])
        <3>1. \A k \in Kids(v) : k \in Json /\ rank[k] < rank[v] /\ rank[k] \in Nat
            BY <2>2, Ranks
        <3> QED
            BY <2>1, <2>2, <3>1
    <2>4. ExactlyMasked(v, redact[v])
        BY <2>2, <2>3, DictMasked, ListMasked, FlatMasked DEF Flat
    <2> QED
        BY <2>1, <2>4
<1> QED
    BY <1>1 DEF RedactValue

-----------------------------------------------------------------------------
(* What a peer collects.                                                   *)

\* Each record came over the wire as redact_value made it.
SentRedacted == \A i \in DOMAIN got : received[i] = Redacted(got[i])

LEMMA SentTake == ASSUME Shape, SentRedacted, Take PROVE SentRedacted'
<1> DEFINE sent == [i \in DOMAIN answer.page |-> Redacted(answer.page[i])]
           wire == {Redacted(r) : r \in Records}
           m == Len(got)
           n == Len(answer.page)
<1>1. /\ got \in Seq(Records) /\ answer.page \in Seq(Records) /\ received \in Seq(wire)
      /\ Len(received) = m /\ m \in Nat /\ n \in Nat
      /\ DOMAIN answer.page = 1..n /\ DOMAIN got = 1..m
    BY DEF Shape, TypeOK
<1>2. got' = got \o answer.page /\ received' = received \o sent
    BY DEF Take
<1>3. sent \in Seq(wire) /\ Len(sent) = n
    BY <1>1
<1>4. \A i \in 1..n : sent[i] = Redacted(answer.page[i])
    BY <1>1
<1> HIDE DEF sent, wire, m, n
<1>5. /\ DOMAIN got' = 1..(m + n)
      /\ \A i \in 1..(m + n) : got'[i] = IF i <= m THEN got[i] ELSE answer.page[i - m]
    BY <1>1, <1>2, ConcatProperties DEF m, n
<1>6. \A i \in 1..(m + n) : received'[i] = IF i <= m THEN received[i] ELSE sent[i - m]
    BY <1>1, <1>2, <1>3, ConcatProperties
<1>7. ASSUME NEW i \in 1..(m + n) PROVE received'[i] = Redacted(got'[i])
    <2>1. CASE i <= m
        BY <1>1, <1>5, <1>6, <2>1 DEF SentRedacted
    <2>2. CASE i > m
        <3>1. i - m \in 1..n /\ ~(i <= m)
            BY <1>1, <2>2
        <3> QED
            BY <1>4, <1>5, <1>6, <3>1
    <2> QED
        BY <1>1, <2>1, <2>2
<1> QED
    BY <1>5, <1>7 DEF SentRedacted

LEMMA SentStep == ASSUME Shape, SentRedacted, [Next]_vars PROVE SentRedacted'
<1>1. CASE Take
    BY <1>1, SentTake
<1>2. ASSUME UNCHANGED <<got, received>> PROVE SentRedacted'
    BY <1>2 DEF SentRedacted
<1>3. CASE Serve \/ Refuse \/ Lose \/ UNCHANGED vars
    BY <1>2, <1>3 DEF Serve, Refuse, Lose, vars
<1>4. ASSUME NEW r, NEW i, AddRecord(r) \/ InsertRecord(r, i) \/ DeleteRecord(i)
      PROVE  SentRedacted'
    BY <1>2, <1>4 DEF AddRecord, InsertRecord, DeleteRecord, Change, walk
<1> QED
    BY <1>1, <1>3, <1>4 DEF Next

\* docs/PROTOCOL.md:132-135, for records of any depth, any fields and patterns:
\* all a peer collects is masked exactly where it must be, whatever is lost,
\* asked for again or changed meanwhile.
THEOREM SentMasked == Spec => []SentExactlyMasked
<1>1. Init => Shape /\ SentRedacted
    <2>1. Init => SentRedacted
        <3>1. DOMAIN << >> = {}
            OBVIOUS
        <3> QED
            BY <3>1 DEF Init, SentRedacted
    <2> QED
        BY <2>1, ShapeInit
<1>2. Shape /\ SentRedacted /\ [Next]_vars => Shape' /\ SentRedacted'
    BY ShapeStep, SentStep
<1>3. Shape /\ SentRedacted => SentExactlyMasked
    <2> SUFFICES ASSUME Shape, SentRedacted, NEW i \in DOMAIN got
                 PROVE  ExactlyMasked(got[i], received[i])
        BY DEF SentExactlyMasked
    <2>1. got[i] \in Records
        BY DEF Shape, TypeOK
    <2>2. got[i] \in Json /\ received[i] = RedactValue(got[i])
        BY <2>1, ExchangeAssumption DEF SentRedacted
    <2> QED
        BY <2>2, MaskedAtEveryDepth
<1> QED
    BY <1>1, <1>2, <1>3, PTL DEF Spec

=============================================================================
