--------------------------- MODULE CatalogProofs ---------------------------
(***************************************************************************)
(* Theorems about the catalog.                                              *)
(***************************************************************************)
EXTENDS Catalog, FiniteSetTheorems, WellFoundedInduction, TLAPS

-----------------------------------------------------------------------------
(* Walks.  The closures and the status of an entry are recursive functions:  *)
(* that each exists, and what it finds, goes by the least depth at which it  *)
(* were not so.                                                             *)

LEMMA LeastNatural ==
    ASSUME NEW B \in SUBSET Nat, B # {}
    PROVE  \E n \in B : \A m \in B : n <= m
<1>1. PICK n \in B : \A m \in B : <<m, n>> \notin OpToRel(<, Nat)
    BY NatLessThanWellFounded, WFMin
<1>2. \A m \in B : ~(m < n)
    BY <1>1 DEF OpToRel
<1> QED BY <1>2

\* f is what n rounds reach.
Rounds(f, from, refersTo, n) ==
    f = [k \in 0..n |-> IF k = 0 THEN from
                        ELSE LET near == f[k - 1] IN near \cup UNION {refersTo[x] : x \in near}]

LEMMA RoundsExist ==
    ASSUME NEW from, NEW refersTo, NEW n \in Nat
    PROVE  \E f : Rounds(f, from, refersTo, n)
<1> DEFINE B == {m \in Nat : ~ \E f : Rounds(f, from, refersTo, m)}
           Onward(near) == near \cup UNION {refersTo[x] : x \in near}
<1> SUFFICES ASSUME B # {} PROVE FALSE
    OBVIOUS
<1>1. PICK m \in B : \A k \in B : m <= k
    <2>1. B \in SUBSET Nat
        OBVIOUS
    <2> HIDE DEF B
    <2> QED BY <2>1, LeastNatural
<1>2. CASE m = 0
    <2>1. Rounds([k \in 0..0 |-> from], from, refersTo, 0)
        BY DEF Rounds
    <2> QED BY <1>2, <2>1
<1>3. CASE m # 0
    <2>1. m - 1 \in Nat /\ m - 1 \notin B /\ m \in Nat
        BY <1>1, <1>3
    <2>2. PICK f : Rounds(f, from, refersTo, m - 1)
        BY <2>1
    <2> DEFINE g == [k \in 0..m |-> IF k = m THEN Onward(f[m - 1]) ELSE f[k]]
    <2> HIDE DEF Onward
    <2>3. \A k \in 0..m : g[k] = IF k = 0 THEN from ELSE Onward(g[k - 1])
        <3> TAKE k \in 0..m
        <3>1. CASE k = m
            BY <1>3, <2>1, <3>1
        <3>2. CASE k # m
            <4>1. k \in 0..(m - 1) /\ g[k] = f[k] /\ (k # 0 => g[k - 1] = f[k - 1])
                BY <2>1, <3>2
            <4>2. f[k] = IF k = 0 THEN from ELSE Onward(f[k - 1])
                BY <2>2, <4>1 DEF Rounds, Onward
            <4> QED BY <4>1, <4>2
        <3> QED BY <3>1, <3>2
    <2>4. Rounds(g, from, refersTo, m)
        <3>1. g = [k \in 0..m |-> IF k = 0 THEN from ELSE Onward(g[k - 1])]
            <4> HIDE DEF g
            <4>1. g = [k \in 0..m |-> g[k]]
                BY DEF g
            <4> QED BY <2>3, <4>1
        <3> HIDE DEF g
        <3> QED BY <3>1 DEF Rounds, Onward
    <2> QED BY <1>1, <2>4
<1> QED BY <1>2, <1>3

\* What is reached lies in every set that holds the start and is closed.
LEMMA ReachWithin ==
    ASSUME NEW from, NEW refersTo, IsFiniteSet(DOMAIN refersTo),
           NEW S, from \subseteq S, \A x \in S : refersTo[x] \subseteq S
    PROVE  Reach(from, refersTo) \subseteq S
<1> DEFINE N == Cardinality(DOMAIN refersTo)
<1>1. N \in Nat
    BY FS_CardinalityType
<1>2. PICK f : Rounds(f, from, refersTo, N) /\ Reach(from, refersTo) = f[N]
    <2>1. PICK f : /\ f = CHOOSE g : g = [k \in 0..N |-> IF k = 0 THEN from
                        ELSE LET near == g[k - 1] IN near \cup UNION {refersTo[x] : x \in near}]
                   /\ Reach(from, refersTo) = f[N]
        BY DEF Reach
    <2>2. \E g : g = [k \in 0..N |-> IF k = 0 THEN from
                        ELSE LET near == g[k - 1] IN near \cup UNION {refersTo[x] : x \in near}]
        <3>1. \E g : Rounds(g, from, refersTo, N)
            <4> HIDE DEF N
            <4> QED BY <1>1, RoundsExist
        <3> QED BY <3>1, Zenon DEF Rounds
    <2> QED BY <2>1, <2>2, Zenon DEF Rounds
<1> DEFINE B == {k \in 0..N : ~(f[k] \subseteq S)}
<1>3. ASSUME B # {} PROVE FALSE
    <2>1. PICK k \in B : \A j \in B : k <= j
        <3>1. B \in SUBSET Nat /\ B # {}
            BY <1>3
        <3> HIDE DEF B
        <3> QED BY <3>1, LeastNatural
    <2>2. /\ k \in 0..N
          /\ f[k] = IF k = 0 THEN from ELSE f[k - 1] \cup UNION {refersTo[x] : x \in f[k - 1]}
        BY <1>2 DEF Rounds
    <2>3. k # 0
        BY <2>2
    <2>4. k - 1 \in 0..N /\ k - 1 \notin B
        BY <1>1, <2>1, <2>2, <2>3
    <2>5. f[k - 1] \subseteq S
        BY <2>4
    <2> QED BY <2>1, <2>2, <2>3, <2>5
<1> QED BY <1>1, <1>2, <1>3

\* How far a walk over the elements of X has to go: deeper paths first, then
\* fewer elements to visit.
Measure(X, path, todo) == Cardinality(X \ path) * (Cardinality(X) + 1) + Cardinality(todo)
Bound(X) == Cardinality(X) * (Cardinality(X) + 1) + Cardinality(X) + 1

LEMMA MeasureIsNatural ==
    ASSUME NEW X, IsFiniteSet(X), NEW path, NEW todo \in SUBSET X
    PROVE  /\ Cardinality(X) \in Nat /\ Cardinality(X \ path) \in 0..Cardinality(X)
           /\ Cardinality(todo) \in 0..Cardinality(X)
           /\ Cardinality(X \ path) * (Cardinality(X) + 1) \in Nat
           /\ Measure(X, path, todo) \in Nat
<1>1. IsFiniteSet(todo) /\ IsFiniteSet(X \ path)
      /\ Cardinality(todo) <= Cardinality(X) /\ Cardinality(X \ path) <= Cardinality(X)
    <2>1. X \ path \in SUBSET X
        OBVIOUS
    <2> QED BY <2>1, FS_Subset
<1>2. Cardinality(X) \in Nat /\ Cardinality(todo) \in Nat /\ Cardinality(X \ path) \in Nat
    BY <1>1, FS_CardinalityType
<1>3. Cardinality(X \ path) * (Cardinality(X) + 1) \in Nat
    BY <1>2
<1> QED BY <1>1, <1>2, <1>3 DEF Measure

LEMMA MeasureIsBounded ==
    ASSUME NEW X, IsFiniteSet(X), NEW path, NEW todo \in SUBSET X
    PROVE  Bound(X) \in Nat /\ Measure(X, path, todo) < Bound(X)
<1> DEFINE n == Cardinality(X)
           c == Cardinality(X \ path)
           t == Cardinality(todo)
           low == c * (n + 1)
           high == n * (n + 1)
<1>1. n \in Nat /\ c \in 0..n /\ t \in 0..n
    BY MeasureIsNatural
<1>2. Measure(X, path, todo) = low + t /\ Bound(X) = high + n + 1
    BY DEF Measure, Bound
<1>3. low \in Nat /\ high \in Nat /\ low <= high
    <2> HIDE DEF n, c
    <2>1. c \in Nat /\ c <= n
        BY <1>1
    <2>2. c * (n + 1) <= n * (n + 1)
        BY <1>1, <2>1, SMTT(30)
    <2> QED BY <1>1, <2>1, <2>2
<1> HIDE DEF n, c, t, low, high
<1> QED BY <1>1, <1>2, <1>3

LEMMA MeasurePast ==
    ASSUME NEW X, IsFiniteSet(X), NEW path, NEW todo \in SUBSET X, NEW x \in todo
    PROVE  Measure(X, path, todo \ {x}) < Measure(X, path, todo)
<1>1. IsFiniteSet(todo)
    BY FS_Subset
<1>2. Cardinality(todo \ {x}) = Cardinality(todo) - 1
    BY <1>1, FS_RemoveElement
<1>3. Cardinality(todo) \in Nat
    BY <1>1, FS_CardinalityType
<1> DEFINE low == Cardinality(X \ path) * (Cardinality(X) + 1)
<1>4. low \in Nat
    BY MeasureIsNatural
<1>5. /\ Measure(X, path, todo \ {x}) = low + (Cardinality(todo) - 1)
      /\ Measure(X, path, todo) = low + Cardinality(todo)
    BY <1>2 DEF Measure
<1> HIDE DEF low
<1> QED BY <1>3, <1>4, <1>5

LEMMA MeasureInto ==
    ASSUME NEW X, IsFiniteSet(X), NEW path, NEW todo \in SUBSET X,
           NEW x \in X, x \notin path, NEW below \in SUBSET X
    PROVE  Measure(X, path \cup {x}, below) < Measure(X, path, todo)
<1> DEFINE N == Cardinality(X)
           C == Cardinality(X \ path)
           low == (C - 1) * (N + 1)
           high == C * (N + 1)
<1>1. Cardinality(X \ (path \cup {x})) = C - 1
    <2>1. X \ path \in SUBSET X /\ x \in X \ path
        OBVIOUS
    <2>2. IsFiniteSet(X \ path)
        BY <2>1, FS_Subset
    <2>3. X \ (path \cup {x}) = (X \ path) \ {x}
        OBVIOUS
    <2> QED BY <2>1, <2>2, <2>3, FS_RemoveElement
<1>2. N \in Nat /\ C \in Nat /\ Cardinality(todo) \in 0..N /\ Cardinality(below) \in 0..N
    <2>1. N \in Nat /\ C \in 0..N /\ Cardinality(todo) \in 0..N
        BY MeasureIsNatural
    <2>2. Cardinality(below) \in 0..N
        BY MeasureIsNatural
    <2> HIDE DEF N, C
    <2> QED BY <2>1, <2>2
<1>3. low \in Int /\ high \in Int /\ low + (N + 1) = high
    <2> HIDE DEF C, N
    <2> QED BY <1>2
<1>4. /\ Measure(X, path \cup {x}, below) = low + Cardinality(below)
      /\ Measure(X, path, todo) = high + Cardinality(todo)
    BY <1>1 DEF Measure
<1> HIDE DEF C, N, low, high
<1> QED BY <1>2, <1>3, <1>4

-----------------------------------------------------------------------------
(* The status of an entry.  A context tells of entries depth first; what it  *)
(* has told of them once it is done is closed under what they refer to.      *)

Rest(s) == Measure(Name, s.path, s.todo)
Short(k) == {s \in Walks : Rest(s) < k}

LEMMA RestIsNatural ==
    ASSUME NEW s \in Walks
    PROVE  Rest(s) \in Nat /\ Rest(s) < Bound(Name) /\ Bound(Name) \in Nat
BY MeasureIsNatural, MeasureIsBounded, FiniteAssumption DEF Rest, Walks

\* Going on with what is left to tell, and going down to the skills of an entry.
Onto(s, n, told) == [s EXCEPT !.todo = @ \ {n}, !.told = told]
Under(s, n) == [path |-> s.path \cup {n}, todo |-> SkillDeps(n), told |-> s.told]

LEMMA OntoIsShorter ==
    ASSUME NEW s \in Walks, NEW n \in s.todo, NEW told \in Statuses
    PROVE  /\ Onto(s, n, told) \in Walks /\ Rest(Onto(s, n, told)) < Rest(s)
           /\ Onto(s, n, told).path = s.path /\ Onto(s, n, told).todo = s.todo \ {n}
           /\ Onto(s, n, told).told = told
<1>1. /\ Onto(s, n, told) \in Walks
      /\ Onto(s, n, told).path = s.path /\ Onto(s, n, told).todo = s.todo \ {n}
      /\ Onto(s, n, told).told = told
    BY DEF Walks, Onto
<1>2. s.todo \in SUBSET Name
    BY DEF Walks
<1> QED BY <1>1, <1>2, MeasurePast, FiniteAssumption DEF Rest

LEMMA UnderIsShorter ==
    ASSUME NEW s \in Walks, NEW n \in Name, n \notin s.path
    PROVE  /\ Under(s, n) \in Walks /\ Rest(Under(s, n)) < Rest(s)
           /\ Under(s, n).path = s.path \cup {n} /\ Under(s, n).todo = SkillDeps(n)
           /\ Under(s, n).told = s.told
<1>1. /\ Under(s, n) \in Walks
      /\ Under(s, n).path = s.path \cup {n} /\ Under(s, n).todo = SkillDeps(n)
      /\ Under(s, n).told = s.told
    BY DEF Walks, Under, SkillDeps, Installed
<1>2. s.todo \in SUBSET Name /\ SkillDeps(n) \in SUBSET Name
    BY DEF Walks, SkillDeps, Installed
<1> QED BY <1>1, <1>2, MeasureInto, FiniteAssumption DEF Rest

\* A step of a context, given what it does with what is shorter.
Next1(s) == CHOOSE n \in s.todo : TRUE
CascadeBy(walk, s) ==
    IF s.todo = {} THEN s.told
    ELSE walk[Onto(s, Next1(s), Tell(walk, Next1(s), s.path, s.told))]

LEMMA TellLocal ==
    ASSUME NEW k \in Nat, NEW s \in Short(k + 1), NEW n \in s.todo,
           NEW f, NEW g, \A t \in Short(k) : f[t] \in Statuses /\ f[t] = g[t]
    PROVE  Tell(f, n, s.path, s.told) = Tell(g, n, s.path, s.told)
           /\ Tell(f, n, s.path, s.told) \in Statuses
<1>1. s \in Walks /\ s.told \in Statuses /\ n \in Name
    BY DEF Short, Walks
<1>2. CASE n \in s.path \cup s.told.ready \cup s.told.blocked
    BY <1>1, <1>2 DEF Tell
<1>3. CASE n \notin s.path \cup s.told.ready \cup s.told.blocked
    <2>1. Under(s, n) \in Short(k)
        <3>1. Under(s, n) \in Walks /\ Rest(Under(s, n)) < Rest(s)
            BY <1>1, <1>3, UnderIsShorter
        <3>2. Rest(s) \in Nat /\ Rest(Under(s, n)) \in Nat /\ Rest(s) < k + 1
            BY <1>1, <3>1, RestIsNatural DEF Short
        <3> QED BY <3>1, <3>2 DEF Short
    <2> DEFINE below == f[Under(s, n)]
    <2>2. below \in Statuses /\ below = g[Under(s, n)]
        BY <2>1
    <2>3. /\ [below EXCEPT !.blocked = @ \cup {n}] \in Statuses
          /\ [below EXCEPT !.ready = @ \cup {n}] \in Statuses
        <3> HIDE DEF below
        <3> QED BY <1>1, <2>2 DEF Statuses
    <2>4. /\ Tell(f, n, s.path, s.told) =
                IF HasReason(n) \/ BlockedDeps(n, below) # {}
                THEN [below EXCEPT !.blocked = @ \cup {n}] ELSE [below EXCEPT !.ready = @ \cup {n}]
          /\ Tell(g, n, s.path, s.told) =
                IF HasReason(n) \/ BlockedDeps(n, g[Under(s, n)]) # {}
                THEN [g[Under(s, n)] EXCEPT !.blocked = @ \cup {n}]
                ELSE [g[Under(s, n)] EXCEPT !.ready = @ \cup {n}]
        BY <1>3, Zenon DEF Tell, Under
    <2> HIDE DEF below
    <2> QED BY <2>2, <2>3, <2>4
<1> QED BY <1>2, <1>3

LEMMA CascadeLocal ==
    ASSUME NEW k \in Nat, NEW s \in Short(k + 1),
           NEW f, NEW g, \A t \in Short(k) : f[t] \in Statuses /\ f[t] = g[t]
    PROVE  CascadeBy(f, s) = CascadeBy(g, s) /\ CascadeBy(f, s) \in Statuses
<1>1. s \in Walks /\ s.told \in Statuses
    BY DEF Short, Walks
<1>2. CASE s.todo = {}
    BY <1>1, <1>2, Zenon DEF CascadeBy
<1>3. CASE s.todo # {}
    <2> DEFINE n == Next1(s)
               told == Tell(f, n, s.path, s.told)
    <2>1. n \in s.todo
        BY <1>3 DEF Next1
    <2>2. told = Tell(g, n, s.path, s.told) /\ told \in Statuses
        <3> HIDE DEF n
        <3> QED BY <2>1, TellLocal
    <2>3. Onto(s, n, told) \in Short(k)
        <3> HIDE DEF n, told
        <3>1. Onto(s, n, told) \in Walks /\ Rest(Onto(s, n, told)) < Rest(s)
            BY <1>1, <2>1, <2>2, OntoIsShorter
        <3>2. Rest(s) \in Nat /\ Rest(Onto(s, n, told)) \in Nat /\ Rest(s) < k + 1
            BY <1>1, <3>1, RestIsNatural DEF Short
        <3> QED BY <3>1, <3>2 DEF Short
    <2>4. CascadeBy(f, s) = f[Onto(s, n, told)]
        BY <1>3, Zenon DEF CascadeBy
    <2>5. CascadeBy(g, s) = g[Onto(s, n, told)]
        <3>1. CascadeBy(g, s) = g[Onto(s, n, Tell(g, n, s.path, s.told))]
            BY <1>3, Zenon DEF CascadeBy
        <3> QED BY <2>2, <3>1
    <2> QED BY <2>3, <2>4, <2>5
<1> QED BY <1>2, <1>3

LEMMA CascadeExists ==
    ASSUME NEW k \in Nat
    PROVE  \E g : g = [s \in Short(k) |-> CascadeBy(g, s)] /\ \A s \in Short(k) : g[s] \in Statuses
<1> DEFINE Good(m) == \E g : /\ g = [s \in Short(m) |-> CascadeBy(g, s)]
                             /\ \A s \in Short(m) : g[s] \in Statuses
           B == {m \in Nat : ~Good(m)}
<1> SUFFICES ASSUME B # {} PROVE FALSE
    OBVIOUS
<1>1. PICK m \in B : \A j \in B : m <= j
    <2>1. B \in SUBSET Nat
        OBVIOUS
    <2> HIDE DEF B
    <2> QED BY <2>1, LeastNatural
<1>2. CASE m = 0
    <2>1. Short(0) = {}
        BY RestIsNatural DEF Short
    <2> DEFINE g == [s \in {} |-> TRUE]
    <2>2. g = [s \in {} |-> CascadeBy(g, s)]
        OBVIOUS
    <2>3. Good(0)
        BY <2>1, <2>2, Zenon
    <2> QED BY <1>1, <1>2, <2>3
<1>3. CASE m # 0
    <2>1. m - 1 \in Nat /\ m - 1 \notin B /\ m = (m - 1) + 1 /\ m \in Nat
        BY <1>1, <1>3
    <2>2. PICK f : /\ f = [s \in Short(m - 1) |-> CascadeBy(f, s)]
                   /\ \A s \in Short(m - 1) : f[s] \in Statuses
        BY <2>1
    <2> DEFINE g == [s \in Short(m) |-> IF s \in Short(m - 1) THEN f[s] ELSE CascadeBy(f, s)]
    <2>3. Short(m - 1) \subseteq Short(m)
        BY <2>1, RestIsNatural DEF Short
    <2>4. \A t \in Short(m - 1) : f[t] \in Statuses /\ f[t] = g[t]
        BY <2>2, <2>3
    <2>5. ASSUME NEW s \in Short(m)
          PROVE  g[s] = CascadeBy(g, s) /\ g[s] \in Statuses
        <3>1. CascadeBy(f, s) = CascadeBy(g, s) /\ CascadeBy(f, s) \in Statuses
            <4>1. s \in Short((m - 1) + 1)
                BY <2>1
            <4> HIDE DEF g
            <4> QED BY <2>1, <2>4, <4>1, CascadeLocal
        <3>2. CASE s \in Short(m - 1)
            <4>1. g[s] = f[s] /\ f[s] = CascadeBy(f, s)
                BY <2>2, <2>4, <3>2, Zenon
            <4> QED BY <3>1, <4>1
        <3>3. CASE s \notin Short(m - 1)
            <4>1. g[s] = CascadeBy(f, s)
                BY <3>3
            <4> QED BY <3>1, <4>1
        <3> QED BY <3>2, <3>3
    <2>6. g = [s \in Short(m) |-> CascadeBy(g, s)]
        <3>1. g = [s \in Short(m) |-> g[s]]
            OBVIOUS
        <3> HIDE DEF g
        <3> QED BY <2>5, <3>1, Zenon
    <2>7. Good(m)
        <3> HIDE DEF g
        <3> QED BY <2>5, <2>6
    <2> QED BY <1>1, <2>7
<1> QED BY <1>2, <1>3

\* The context is defined wherever it is asked.
LEMMA CascadeIs ==
    ASSUME NEW names \in SUBSET Name
    PROVE  \E g : /\ \A s \in Walks : g[s] = CascadeBy(g, s) /\ g[s] \in Statuses
                  /\ Cascade(names) = g[[path |-> {}, todo |-> names, told |-> Untold]]
<1> DEFINE s0 == [path |-> {}, todo |-> names, told |-> Untold]
<1>1. s0 \in Walks
    BY DEF Walks, Statuses, Untold
<1>2. Bound(Name) \in Nat /\ Short(Bound(Name)) = Walks
    <2>1. Short(Bound(Name)) = Walks
        BY RestIsNatural DEF Short
    <2> HIDE DEF s0
    <2> QED BY <1>1, <2>1, RestIsNatural
<1>3. PICK h : h = [s \in Walks |-> CascadeBy(h, s)] /\ \A s \in Walks : h[s] \in Statuses
    <2>1. \E h : h = [s \in Short(Bound(Name)) |-> CascadeBy(h, s)]
                 /\ \A s \in Short(Bound(Name)) : h[s] \in Statuses
        BY <1>2, CascadeExists
    <2> QED BY <1>2, <2>1, Zenon
<1>4. PICK g : g = [s \in Walks |-> CascadeBy(g, s)] /\ Cascade(names) = g[s0]
    <2>1. PICK g : /\ g = CHOOSE f : f = [s \in Walks |-> CascadeBy(f, s)]
                   /\ Cascade(names) = g[s0]
        BY Zenon DEF Cascade, CascadeBy, Onto, Next1
    <2> QED BY <1>3, <2>1, Zenon
<1>5. \A s \in Walks : g[s] = CascadeBy(g, s)
    BY <1>4, Zenon
<1> DEFINE B == {k \in Nat : \E s \in Walks : Rest(s) = k /\ g[s] \notin Statuses}
<1>6. ASSUME B # {} PROVE FALSE
    <2>1. PICK k \in B : \A j \in B : k <= j
        <3>1. B \in SUBSET Nat
            OBVIOUS
        <3> HIDE DEF B
        <3> QED BY <1>6, <3>1, LeastNatural
    <2>2. PICK s \in Walks : Rest(s) = k /\ g[s] \notin Statuses
        BY <2>1
    <2>3. k \in Nat /\ s \in Short(k + 1)
        BY <2>1, <2>2 DEF Short
    <2>4. \A t \in Short(k) : g[t] \in Statuses /\ g[t] = g[t]
        <3> SUFFICES ASSUME NEW t \in Short(k) PROVE g[t] \in Statuses
            OBVIOUS
        <3>1. t \in Walks /\ Rest(t) < k /\ Rest(t) \in Nat
            BY RestIsNatural DEF Short
        <3> QED BY <2>1, <2>3, <3>1
    <2>5. CascadeBy(g, s) \in Statuses
        BY <2>3, <2>4, CascadeLocal
    <2> QED BY <1>5, <2>2, <2>5
<1>7. \A s \in Walks : g[s] \in Statuses
    BY <1>6, RestIsNatural
<1> QED BY <1>4, <1>5, <1>7

Told(t) == t.ready \cup t.blocked

\* Every entry on the path has a skill on it, or the one that is to come.
Leading(path, todo) ==
    /\ path \cup todo \subseteq Installed
    /\ \A n \in todo : \A p \in path : SkillDeps(p) \cap (path \cup {n}) # {}

\* What a context that had told old, with path in flight, tells of todo.  What
\* blocks anything new blocks one of todo; what is new refers to what is told
\* or in flight, and without cycles never to what is in flight.
Telling(path, todo, old, new) ==
    /\ old.ready \subseteq new.ready /\ old.blocked \subseteq new.blocked
    /\ todo \subseteq Told(new) \cup path
    /\ \A m \in Told(new) \ Told(old) : SkillDeps(m) \subseteq Told(new) \cup path
    /\ \A m \in new.ready \ old.ready : ~HasReason(m)
    /\ new.blocked # old.blocked => todo \cap new.blocked # {}
    /\ LocalIsAcyclic /\ Leading(path, todo) =>
           \A m \in new.ready \ old.ready : SkillDeps(m) \subseteq new.ready

LEMMA TellingNothing == ASSUME NEW path, NEW old \in Statuses PROVE Telling(path, {}, old, old)
BY DEF Telling

LEMMA TellingBoth ==
    ASSUME NEW path, NEW todo, NEW n \in todo, NEW old \in Statuses, NEW mid \in Statuses, NEW new \in Statuses,
           Telling(path, {n}, old, mid), Telling(path, todo \ {n}, mid, new)
    PROVE  Telling(path, todo, old, new)
<1>1. /\ old.ready \subseteq mid.ready /\ mid.ready \subseteq new.ready
      /\ old.blocked \subseteq mid.blocked /\ mid.blocked \subseteq new.blocked
    BY DEF Telling
<1>2. Told(old) \subseteq Told(mid) /\ Told(mid) \subseteq Told(new)
    BY <1>1 DEF Told
<1>3. todo \subseteq Told(new) \cup path
    BY <1>2 DEF Telling
<1>4. ASSUME NEW m \in Told(new) \ Told(old) PROVE SkillDeps(m) \subseteq Told(new) \cup path
    BY <1>2, <1>4 DEF Telling
<1>5. ASSUME NEW m \in new.ready \ old.ready PROVE ~HasReason(m)
    BY <1>5 DEF Telling
<1>6. ASSUME new.blocked # old.blocked PROVE todo \cap new.blocked # {}
    <2>1. CASE mid.blocked # old.blocked
        BY <1>1, <2>1 DEF Telling
    <2>2. CASE new.blocked # mid.blocked
        BY <2>2 DEF Telling
    <2> QED BY <1>6, <2>1, <2>2
<1>7. ASSUME LocalIsAcyclic, Leading(path, todo), NEW m \in new.ready \ old.ready
      PROVE  SkillDeps(m) \subseteq new.ready
    <2>1. Leading(path, {n}) /\ Leading(path, todo \ {n})
        BY <1>7 DEF Leading
    <2> QED BY <1>1, <1>7, <2>1 DEF Telling
<1> QED BY <1>1, <1>3, <1>4, <1>5, <1>6, <1>7 DEF Telling

\* Without cycles, an entry to come is not in flight, and goes on the path.
LEMMA LeadingOn ==
    ASSUME LocalIsAcyclic, NEW path, NEW n, Leading(path, {n})
    PROVE  /\ SkillDeps(n) \cap (path \cup {n}) = {}
           /\ Leading(path \cup {n}, SkillDeps(n))
<1> DEFINE some == path \cup {n}
<1>1. some \in (SUBSET Installed) \ {{}} /\ \A p \in path : SkillDeps(p) \cap some # {}
    BY DEF Leading
<1>2. \A p : SkillDeps(p) \subseteq row[p].deps /\ SkillDeps(p) \subseteq Installed
    BY DEF SkillDeps
<1>3. ASSUME SkillDeps(n) \cap some # {} PROVE FALSE
    <2>1. PICK p \in some : row[p].deps \cap some = {}
        <3> HIDE DEF some
        <3> QED BY <1>1 DEF LocalIsAcyclic
    <2> QED BY <1>1, <1>2, <1>3, <2>1
<1>4. ASSUME NEW d \in SkillDeps(n), NEW p \in some
      PROVE  SkillDeps(p) \cap (some \cup {d}) # {}
    BY <1>1, <1>4
<1> QED BY <1>1, <1>2, <1>3, <1>4 DEF Leading

\* An entry that is told after its skills.
LEMMA TellingOne ==
    ASSUME NEW path, NEW n, NEW old \in Statuses, NEW below \in Statuses, NEW new,
           Telling(path \cup {n}, SkillDeps(n), old, below),
           n \notin Told(old), n \notin path,
           new = IF HasReason(n) \/ BlockedDeps(n, below) # {}
                 THEN [below EXCEPT !.blocked = @ \cup {n}] ELSE [below EXCEPT !.ready = @ \cup {n}]
    PROVE  Telling(path, {n}, old, new)
<1>1. /\ old.ready \subseteq below.ready /\ old.blocked \subseteq below.blocked
      /\ SkillDeps(n) \subseteq Told(below) \cup path \cup {n}
    BY DEF Telling
<1>2. CASE HasReason(n) \/ BlockedDeps(n, below) # {}
    <2>1. new.ready = below.ready /\ new.blocked = below.blocked \cup {n}
        BY <1>2 DEF Statuses
    <2>2. ASSUME NEW m \in Told(new) \ Told(old) PROVE SkillDeps(m) \subseteq Told(new) \cup path
        BY <1>1, <2>1, <2>2 DEF Telling, Told
    <2>3. ASSUME LocalIsAcyclic, Leading(path, {n}), NEW m \in new.ready \ old.ready
          PROVE  SkillDeps(m) \subseteq new.ready
        BY <2>1, <2>3, LeadingOn DEF Telling
    <2> QED BY <1>1, <2>1, <2>2, <2>3 DEF Telling, Told
<1>3. CASE ~HasReason(n) /\ BlockedDeps(n, below) = {}
    <2>1. new.ready = below.ready \cup {n} /\ new.blocked = below.blocked
        BY <1>3 DEF Statuses
    <2>2. SkillDeps(n) \cap below.blocked = {} /\ below.blocked = old.blocked
        BY <1>3 DEF BlockedDeps, Telling
    <2>3. ASSUME NEW m \in Told(new) \ Told(old) PROVE SkillDeps(m) \subseteq Told(new) \cup path
        BY <1>1, <2>1, <2>3 DEF Telling, Told
    <2>4. ASSUME LocalIsAcyclic, Leading(path, {n}), NEW m \in new.ready \ old.ready
          PROVE  SkillDeps(m) \subseteq new.ready
        <3>1. SkillDeps(n) \cap (path \cup {n}) = {} /\ Leading(path \cup {n}, SkillDeps(n))
            BY <2>4, LeadingOn
        <3>2. CASE m = n
            BY <1>1, <2>1, <2>2, <3>1, <3>2 DEF Told
        <3>3. CASE m # n
            BY <2>1, <2>4, <3>1, <3>3 DEF Telling
        <3> QED BY <3>2, <3>3
    <2>5. ASSUME NEW m \in new.ready \ old.ready PROVE ~HasReason(m)
        BY <1>3, <2>1, <2>5 DEF Telling
    <2> QED BY <1>1, <2>1, <2>2, <2>3, <2>4, <2>5 DEF Telling, Told
<1> QED BY <1>2, <1>3

LEMMA CascadeTells ==
    ASSUME NEW names \in SUBSET Name
    PROVE  Cascade(names) \in Statuses /\ Telling({}, names, Untold, Cascade(names))
<1> DEFINE s0 == [path |-> {}, todo |-> names, told |-> Untold]
<1>1. PICK g : /\ \A s \in Walks : g[s] = CascadeBy(g, s) /\ g[s] \in Statuses
               /\ Cascade(names) = g[s0]
    BY CascadeIs
<1> DEFINE Good(s) == Telling(s.path, s.todo, s.told, g[s])
           B == {k \in Nat : \E s \in Walks : Rest(s) = k /\ ~Good(s)}
<1>2. ASSUME B # {} PROVE FALSE
    <2>1. PICK k \in B : \A j \in B : k <= j
        <3>1. B \in SUBSET Nat
            OBVIOUS
        <3> HIDE DEF B
        <3> QED BY <1>2, <3>1, LeastNatural
    <2>2. PICK s \in Walks : Rest(s) = k /\ ~Good(s)
        BY <2>1
    <2>3. s.told \in Statuses /\ s.todo \subseteq Name /\ s.path \subseteq Name
        BY DEF Walks
    <2>4. ASSUME NEW t \in Walks, Rest(t) < k PROVE Good(t)
        <3>1. Rest(t) \in Nat /\ k \in Nat
            BY RestIsNatural
        <3> QED BY <2>1, <2>4, <3>1
    <2>5. CASE s.todo = {}
        <3>1. g[s] = s.told
            BY <1>1, <2>5, Zenon DEF CascadeBy
        <3> QED BY <2>2, <2>3, <2>5, <3>1, TellingNothing
    <2>6. CASE s.todo # {}
        <3> DEFINE n == Next1(s)
                   told == Tell(g, n, s.path, s.told)
                   onto == Onto(s, n, told)
                   under == Under(s, n)
        <3>1. n \in s.todo /\ n \in Name
            BY <2>3, <2>6 DEF Next1
        <3>2. g[s] = g[onto]
            BY <1>1, <2>6, Zenon DEF CascadeBy
        <3> HIDE DEF n, onto
        <3>3. told \in Statuses /\ Telling(s.path, {n}, s.told, told)
            <4>1. CASE n \in s.path \cup s.told.ready \cup s.told.blocked
                <5>1. told = s.told
                    BY <4>1, Zenon DEF Tell
                <5> HIDE DEF told
                <5> QED BY <2>3, <4>1, <5>1 DEF Telling, Told
            <4>2. CASE n \notin s.path \cup s.told.ready \cup s.told.blocked
                <5> DEFINE below == g[under]
                <5>1. told = IF HasReason(n) \/ BlockedDeps(n, below) # {}
                             THEN [below EXCEPT !.blocked = @ \cup {n}]
                             ELSE [below EXCEPT !.ready = @ \cup {n}]
                    BY <4>2, Zenon DEF Tell, Under
                <5> HIDE DEF told
                <5>2. /\ under \in Walks /\ Rest(under) < k
                      /\ under.path = s.path \cup {n} /\ under.todo = SkillDeps(n) /\ under.told = s.told
                    BY <2>2, <3>1, <4>2, UnderIsShorter
                <5> HIDE DEF under
                <5>3. below \in Statuses
                    BY <1>1, <5>2
                <5>4. Telling(s.path \cup {n}, SkillDeps(n), s.told, below)
                    <6>1. Good(under)
                        BY <2>4, <5>2
                    <6> QED BY <5>2, <6>1
                <5>5. told \in Statuses
                    <6> HIDE DEF below
                    <6> QED BY <3>1, <5>1, <5>3 DEF Statuses
                <5> HIDE DEF below
                <5>6. n \notin Told(s.told) /\ n \notin s.path
                    BY <4>2 DEF Told
                <5> QED BY <2>3, <5>1, <5>3, <5>4, <5>5, <5>6, TellingOne
            <4> QED BY <4>1, <4>2
        <3> HIDE DEF told, under
        <3>4. /\ onto \in Walks /\ Rest(onto) < k
              /\ onto.path = s.path /\ onto.todo = s.todo \ {n} /\ onto.told = told
            BY <2>2, <3>1, <3>3, OntoIsShorter DEF onto
        <3>5. Telling(s.path, s.todo \ {n}, told, g[onto]) /\ g[onto] \in Statuses
            <4>1. Good(onto)
                BY <2>4, <3>4
            <4> QED BY <1>1, <3>4, <4>1
        <3>6. Telling(s.path, s.todo, s.told, g[onto])
            BY <2>3, <3>1, <3>3, <3>5, TellingBoth
        <3> QED BY <2>2, <3>2, <3>6
    <2> QED BY <2>5, <2>6
<1>3. s0 \in Walks /\ s0.path = {} /\ s0.todo = names /\ s0.told = Untold
    BY DEF Walks, Statuses, Untold
<1> HIDE DEF s0
<1>4. Good(s0)
    BY <1>2, <1>3, RestIsNatural
<1> QED BY <1>1, <1>3, <1>4

\* Entries without fault that refer to no skills outside them.
Clear(S) == S \subseteq Name /\ \A m \in S : ~HasReason(m) /\ SkillDeps(m) \subseteq S

\* A context of its own blocks its agent if it blocks anything.
LEMMA LaunchableIsClear ==
    ASSUME NEW n \in Name, Launchable(n)
    PROVE  \E S : n \in S /\ Clear(S)
<1> DEFINE t == Cascade({n})
<1>1. t \in Statuses /\ Telling({}, {n}, Untold, t) /\ n \notin t.blocked
    BY CascadeTells DEF Launchable
<1> HIDE DEF t
<1>2. t.blocked = {}
    BY <1>1 DEF Telling, Untold
<1>3. n \in t.ready /\ Clear(t.ready)
    BY <1>1, <1>2 DEF Telling, Clear, Statuses, Told, Untold
<1> QED BY <1>3

\* The context of a list is as good where the rows have no cycle.
LEMMA ListedIsClear ==
    ASSUME NEW n \in Agents, ListedReady(n), LocalIsAcyclic
    PROVE  \E S : n \in S /\ Clear(S)
<1> DEFINE t == Cascade(Agents)
<1>1. t \in Statuses /\ Telling({}, Agents, Untold, t) /\ n \notin t.blocked
    BY CascadeTells DEF ListedReady, Agents, Installed
<1>2. Leading({}, Agents)
    BY DEF Leading, Agents
<1> HIDE DEF t
<1>3. n \in t.ready /\ Clear(t.ready)
    BY <1>1, <1>2 DEF Telling, Clear, Statuses, Told, Untold
<1> QED BY <1>3

-----------------------------------------------------------------------------
\* What the rows and upstream may hold.
RowsTyped ==
    /\ up \in [Origin -> Content \cup {Gone}]
    /\ row \in [Name -> Row \cup {None}]

LEMMA InstalledRows ==
    ASSUME RowsTyped
    PROVE  /\ Installed \subseteq Name
           /\ \A n \in Installed : row[n] \in Row
    BY DEF RowsTyped, Installed

LEMMA NameAtIn ==
    ASSUME NEW o, At(o) # {}
    PROVE  NameAt(o) \in At(o) /\ NameAt(o) \in Installed /\ row[NameAt(o)].origin = o
    BY DEF NameAt, At

LEMMA NodesTyped ==
    ASSUME RowsTyped, NEW o \in Origin
    PROVE  /\ At(o) # {} => LocalNode(o) \in PlanNode /\ LocalNode(o).origin = o
           /\ up[o] # Gone =>
                up[o] \in Content /\ UpstreamNode(o) \in PlanNode /\ UpstreamNode(o).origin = o
<1>1. ASSUME At(o) # {} PROVE LocalNode(o) \in PlanNode /\ LocalNode(o).origin = o
    <2>1. NameAt(o) \in Name /\ row[NameAt(o)] \in Row
        BY <1>1, NameAtIn, InstalledRows
    <2>2. OriginsOf(row[NameAt(o)].deps) \subseteq Origin
        BY InstalledRows DEF OriginsOf, Row
    <2> QED BY <2>1, <2>2 DEF LocalNode, PlanNode, Row
<1>2. ASSUME up[o] # Gone
      PROVE  up[o] \in Content /\ UpstreamNode(o) \in PlanNode /\ UpstreamNode(o).origin = o
    BY <1>2 DEF RowsTyped, Content, UpstreamNode, PlanNode
<1> QED BY <1>1, <1>2

LEMMA FirstIn ==
    ASSUME NEW todo \in SUBSET Origin, todo # {}
    PROVE  First(todo) \in todo
<1>1. \A o \in todo : Rank(o) \in {1, 2, 3}
    BY DEF Rank
<1>2. \E o \in todo : \A p \in todo : Rank(o) <= Rank(p)
    <2>1. CASE \E o \in todo : Rank(o) = 1
        BY <1>1, <2>1
    <2>2. CASE (\A o \in todo : Rank(o) # 1) /\ \E o \in todo : Rank(o) = 2
        BY <1>1, <2>2
    <2>3. CASE \A o \in todo : Rank(o) = 3
        BY <2>3
    <2> QED BY <1>1, <2>1, <2>2, <2>3
<1> QED BY <1>2, Zenon DEF First

Depth(s) == Measure(Origin, s.path, s.todo)

Near(k) == {s \in Visits : Depth(s) < k}

LEMMA DepthIsNatural ==
    ASSUME NEW s \in Visits
    PROVE  Depth(s) \in Nat /\ Depth(s) < Bound(Origin) /\ Bound(Origin) \in Nat
BY MeasureIsNatural, MeasureIsBounded, FiniteAssumption DEF Depth, Visits

\* Going on with what is left to visit, and going down to dependencies.
Past(s, o, w) == [s EXCEPT !.todo = @ \ {o}, !.found = w]
Into(s, o) == [path |-> s.path \cup {o}, todo |-> up[o].deps, found |-> s.found]

LEMMA PastIsNearer ==
    ASSUME NEW s \in Visits, NEW o \in s.todo, NEW w \in Found
    PROVE  Past(s, o, w) \in Visits /\ Depth(Past(s, o, w)) < Depth(s)
<1>1. /\ Past(s, o, w) \in Visits
      /\ Past(s, o, w).path = s.path /\ Past(s, o, w).todo = s.todo \ {o}
    BY DEF Visits, Past
<1>2. s.todo \in SUBSET Origin
    BY DEF Visits
<1> QED BY <1>1, <1>2, MeasurePast, FiniteAssumption DEF Depth

LEMMA IntoIsNearer ==
    ASSUME NEW s \in Visits, NEW o \in Origin, o \notin s.path, up[o] \in Content
    PROVE  Into(s, o) \in Visits /\ Depth(Into(s, o)) < Depth(s)
<1>1. /\ Into(s, o) \in Visits
      /\ Into(s, o).path = s.path \cup {o} /\ Into(s, o).todo = up[o].deps
    BY DEF Visits, Into, Content
<1>2. s.todo \in SUBSET Origin /\ up[o].deps \in SUBSET Origin
    BY DEF Visits, Content
<1> QED BY <1>1, <1>2, MeasureInto, FiniteAssumption DEF Depth

\* A step of the walk, given the walk from what is nearer its end.
WalkBy(walk, s, sync) ==
    IF s.todo = {} THEN s.found
    ELSE walk[Past(s, First(s.todo), Visit(walk, First(s.todo), s.path, s.found, sync))]

LEMMA RecordedTyped ==
    ASSUME NEW w \in Found, NEW node \in PlanNode
    PROVE  /\ Recorded(w, node) \in Found
           /\ Recorded(w, node).closure = Append(w.closure, node)
           /\ Recorded(w, node).seen = w.seen \cup {node.origin}
           /\ Recorded(w, node).conflicts = w.conflicts
           /\ Recorded(w, node).cyclic = w.cyclic
<1> DEFINE v == Visited(w, node.origin)
           closure == Append(v.closure, node)
<1>1. node.origin \in Origin
    BY DEF PlanNode
<1>2. /\ v \in Found /\ v.closure = w.closure /\ v.seen = w.seen \cup {node.origin}
      /\ v.conflicts = w.conflicts /\ v.cyclic = w.cyclic
    BY <1>1 DEF Found, Visited
<1>3. closure \in Seq(PlanNode)
    BY <1>2 DEF Found
<1>4. Recorded(w, node) = [v EXCEPT !.closure = closure]
    BY DEF Recorded
<1> HIDE DEF v, closure
<1>5. /\ [v EXCEPT !.closure = closure] \in Found
      /\ [v EXCEPT !.closure = closure].closure = closure
      /\ [v EXCEPT !.closure = closure].seen = v.seen
      /\ [v EXCEPT !.closure = closure].conflicts = v.conflicts
      /\ [v EXCEPT !.closure = closure].cyclic = v.cyclic
    BY <1>2, <1>3 DEF Found
<1> QED BY <1>2, <1>4, <1>5 DEF closure

LEMMA VisitLocal ==
    ASSUME RowsTyped, NEW sync \in BOOLEAN, NEW k \in Nat, NEW s \in Near(k + 1), NEW o \in s.todo,
           NEW f, NEW g, \A t \in Near(k) : f[t] \in Found /\ f[t] = g[t]
    PROVE  /\ Visit(f, o, s.path, s.found, sync) = Visit(g, o, s.path, s.found, sync)
           /\ Visit(f, o, s.path, s.found, sync) \in Found
<1> DEFINE w == s.found
<1>1. s \in Visits /\ w \in Found /\ o \in Origin /\ s.path \subseteq Origin
    BY DEF Near, Visits
<1>2. CASE o \in s.path
    <2>1. [w EXCEPT !.cyclic = TRUE] \in Found
        BY <1>1 DEF Found
    <2> QED BY <1>2, <2>1, Zenon DEF Visit
<1>3. CASE o \notin s.path /\ o \in w.seen
    BY <1>1, <1>3, Zenon DEF Visit
<1>4. CASE o \notin s.path /\ o \notin w.seen /\ TakenAsItIs(o, s.path, sync)
    <2>1. Recorded(w, LocalNode(o)) \in Found
        BY <1>1, <1>4, NodesTyped, RecordedTyped DEF TakenAsItIs
    <2> QED BY <1>4, <2>1, Zenon DEF Visit
<1>5. CASE o \notin s.path /\ o \notin w.seen /\ ~TakenAsItIs(o, s.path, sync) /\ Conflicts(o)
    <2>1. [Visited(w, o) EXCEPT !.conflicts = @ \cup {o}] \in Found
        BY <1>1 DEF Found, Visited
    <2> QED BY <1>5, <2>1, Zenon DEF Visit
<1>6. CASE o \notin s.path /\ o \notin w.seen /\ ~TakenAsItIs(o, s.path, sync) /\ ~Conflicts(o)
    <2>1. up[o] # Gone
        BY <1>6 DEF Conflicts, McpConflict, AnchorConflict
    <2>2. Into(s, o) \in Visits /\ Depth(Into(s, o)) < Depth(s)
        BY <1>1, <1>6, <2>1, NodesTyped, IntoIsNearer
    <2>3. Into(s, o) \in Near(k)
        <3>1. Depth(s) \in Nat /\ Depth(Into(s, o)) \in Nat /\ Depth(s) < k + 1
            BY <1>1, <2>2, DepthIsNatural DEF Near
        <3> QED BY <2>2, <3>1 DEF Near
    <2>4. f[Into(s, o)] = g[Into(s, o)] /\ f[Into(s, o)] \in Found
        BY <2>3
    <2>5. Recorded(f[Into(s, o)], UpstreamNode(o)) \in Found
        BY <1>1, <2>1, <2>4, NodesTyped, RecordedTyped
    <2>6. /\ Visit(f, o, s.path, w, sync) = Recorded(f[Into(s, o)], UpstreamNode(o))
          /\ Visit(g, o, s.path, w, sync) = Recorded(g[Into(s, o)], UpstreamNode(o))
        BY <1>6, Zenon DEF Visit, Listed, Descend, Into
    <2> QED BY <2>4, <2>5, <2>6
<1> QED BY <1>2, <1>3, <1>4, <1>5, <1>6

LEMMA WalkLocal ==
    ASSUME RowsTyped, NEW sync \in BOOLEAN, NEW k \in Nat, NEW s \in Near(k + 1),
           NEW f, NEW g, \A t \in Near(k) : f[t] \in Found /\ f[t] = g[t]
    PROVE  WalkBy(f, s, sync) = WalkBy(g, s, sync) /\ WalkBy(f, s, sync) \in Found
<1>1. s \in Visits /\ s.todo \subseteq Origin /\ s.found \in Found
    BY DEF Near, Visits
<1>2. CASE s.todo = {}
    BY <1>1, <1>2, Zenon DEF WalkBy
<1>3. CASE s.todo # {}
    <2> DEFINE o == First(s.todo)
               w == Visit(f, o, s.path, s.found, sync)
    <2>1. o \in s.todo
        BY <1>1, <1>3, FirstIn
    <2>2. w = Visit(g, o, s.path, s.found, sync) /\ w \in Found
        <3> HIDE DEF o
        <3> QED BY <2>1, VisitLocal
    <2>3. Past(s, o, w) \in Near(k)
        <3> HIDE DEF o, w
        <3>1. Past(s, o, w) \in Visits /\ Depth(Past(s, o, w)) < Depth(s)
            BY <1>1, <2>1, <2>2, PastIsNearer
        <3>2. Depth(s) \in Nat /\ Depth(Past(s, o, w)) \in Nat /\ Depth(s) < k + 1
            BY <1>1, <3>1, DepthIsNatural DEF Near
        <3> QED BY <3>1, <3>2 DEF Near
    <2>4. WalkBy(f, s, sync) = f[Past(s, o, w)]
        BY <1>3, Zenon DEF WalkBy
    <2>5. WalkBy(g, s, sync) = g[Past(s, o, w)]
        <3>1. WalkBy(g, s, sync) = g[Past(s, o, Visit(g, o, s.path, s.found, sync))]
            BY <1>3, Zenon DEF WalkBy
        <3> QED BY <2>2, <3>1
    <2> QED BY <2>3, <2>4, <2>5
<1> QED BY <1>2, <1>3

LEMMA WalkExists ==
    ASSUME RowsTyped, NEW sync \in BOOLEAN, NEW k \in Nat
    PROVE  \E g : g = [s \in Near(k) |-> WalkBy(g, s, sync)] /\ \A s \in Near(k) : g[s] \in Found
<1> DEFINE Good(m) == \E g : /\ g = [s \in Near(m) |-> WalkBy(g, s, sync)]
                             /\ \A s \in Near(m) : g[s] \in Found
           B == {m \in Nat : ~Good(m)}
<1> SUFFICES ASSUME B # {} PROVE FALSE
    OBVIOUS
<1>1. PICK m \in B : \A j \in B : m <= j
    <2>1. B \in SUBSET Nat
        OBVIOUS
    <2> HIDE DEF B
    <2> QED BY <2>1, LeastNatural
<1>2. CASE m = 0
    <2>1. Near(0) = {}
        <3>1. \A s \in Visits : Depth(s) \in Nat
            BY DepthIsNatural
        <3> QED BY <3>1 DEF Near
    <2> DEFINE g == [s \in {} |-> TRUE]
    <2>2. g = [s \in {} |-> WalkBy(g, s, sync)]
        OBVIOUS
    <2>3. Good(0)
        BY <2>1, <2>2, Zenon
    <2> QED BY <1>1, <1>2, <2>3
<1>3. CASE m # 0
    <2>1. m - 1 \in Nat /\ m - 1 \notin B /\ m = (m - 1) + 1 /\ m \in Nat
        BY <1>1, <1>3
    <2>2. PICK f : /\ f = [s \in Near(m - 1) |-> WalkBy(f, s, sync)]
                   /\ \A s \in Near(m - 1) : f[s] \in Found
        BY <2>1
    <2> DEFINE g == [s \in Near(m) |-> IF s \in Near(m - 1) THEN f[s] ELSE WalkBy(f, s, sync)]
    <2>3. Near(m - 1) \subseteq Near(m)
        <3>1. \A s \in Visits : Depth(s) \in Nat
            BY DepthIsNatural
        <3> QED BY <2>1, <3>1 DEF Near
    <2>4. \A t \in Near(m - 1) : f[t] \in Found /\ f[t] = g[t]
        BY <2>2, <2>3
    <2>5. ASSUME NEW s \in Near(m)
          PROVE  g[s] = WalkBy(g, s, sync) /\ g[s] \in Found
        <3>1. WalkBy(f, s, sync) = WalkBy(g, s, sync) /\ WalkBy(f, s, sync) \in Found
            <4>1. s \in Near((m - 1) + 1)
                BY <2>1
            <4> HIDE DEF g
            <4> QED BY <2>1, <2>4, <4>1, WalkLocal
        <3>2. CASE s \in Near(m - 1)
            <4>1. g[s] = f[s] /\ f[s] = WalkBy(f, s, sync)
                BY <2>2, <2>4, <3>2, Zenon
            <4> QED BY <3>1, <4>1
        <3>3. CASE s \notin Near(m - 1)
            <4>1. g[s] = WalkBy(f, s, sync)
                BY <3>3
            <4> QED BY <3>1, <4>1
        <3> QED BY <3>2, <3>3
    <2>6. g = [s \in Near(m) |-> WalkBy(g, s, sync)]
        <3>1. g = [s \in Near(m) |-> g[s]]
            OBVIOUS
        <3> HIDE DEF g
        <3> QED BY <2>5, <3>1, Zenon
    <2>7. Good(m)
        <3> HIDE DEF g
        <3> QED BY <2>5, <2>6
    <2> QED BY <1>1, <2>7
<1> QED BY <1>2, <1>3

\* The walk is defined wherever it is called.
LEMMA WalkIs ==
    ASSUME RowsTyped, NEW sync \in BOOLEAN, NEW root \in Origin
    PROVE  \E g : /\ \A s \in Visits : g[s] = WalkBy(g, s, sync) /\ g[s] \in Found
                  /\ UpstreamClosure(root, sync)
                        = g[[path |-> {}, todo |-> {root}, found |-> Nothing]]
<1>1. Bound(Origin) \in Nat /\ Near(Bound(Origin)) = Visits
    <2>1. [path |-> {}, todo |-> {}, found |-> Nothing] \in Visits
        BY DEF Visits, Found, Nothing
    <2> QED BY <2>1, DepthIsNatural DEF Near
<1>2. PICK g : g = [s \in Visits |-> WalkBy(g, s, sync)]
               /\ UpstreamClosure(root, sync) = g[[path |-> {}, todo |-> {root}, found |-> Nothing]]
    <2>1. PICK g : /\ g = CHOOSE f : f = [s \in Visits |-> WalkBy(f, s, sync)]
                   /\ UpstreamClosure(root, sync)
                        = g[[path |-> {}, todo |-> {root}, found |-> Nothing]]
        BY Zenon DEF UpstreamClosure, WalkBy, Past
    <2>2. \E f : f = [s \in Visits |-> WalkBy(f, s, sync)]
        <3>1. \E f : f = [s \in Near(Bound(Origin)) |-> WalkBy(f, s, sync)]
            BY <1>1, WalkExists
        <3> QED BY <1>1, <3>1, Zenon
    <2> QED BY <2>1, <2>2, Zenon
<1>3. \A s \in Visits : g[s] = WalkBy(g, s, sync)
    BY <1>2, Zenon
<1> DEFINE B == {k \in Nat : \E s \in Visits : Depth(s) = k /\ g[s] \notin Found}
<1>4. ASSUME B # {} PROVE FALSE
    <2>1. PICK k \in B : \A j \in B : k <= j
        <3>1. B \in SUBSET Nat
            OBVIOUS
        <3> HIDE DEF B
        <3> QED BY <1>4, <3>1, LeastNatural
    <2>2. PICK s \in Visits : Depth(s) = k /\ g[s] \notin Found
        BY <2>1
    <2>3. k \in Nat /\ s \in Near(k + 1)
        BY <2>1, <2>2 DEF Near
    <2>4. \A t \in Near(k) : g[t] \in Found /\ g[t] = g[t]
        <3> SUFFICES ASSUME NEW t \in Near(k) PROVE g[t] \in Found
            OBVIOUS
        <3>1. t \in Visits /\ Depth(t) < k /\ Depth(t) \in Nat
            BY DepthIsNatural DEF Near
        <3> QED BY <2>1, <2>3, <3>1
    <2>5. WalkBy(g, s, sync) \in Found
        BY <2>3, <2>4, WalkLocal
    <2> QED BY <1>3, <2>2, <2>5
<1>5. \A s \in Visits : g[s] \in Found
    BY <1>4, DepthIsNatural
<1> QED BY <1>2, <1>3, <1>5

\* Entry d is in the closure before place i.
Before(closure, i, d) == \E j \in 1..(i - 1) : closure[j].origin = d

\* What holds of the findings of a walk: what was seen is in the closure or in
\* conflict, and an entry comes after all it depends on unless a cycle was met.
Sound(w, sync) ==
    /\ \A o \in w.seen : o \in w.conflicts \/ \E i \in DOMAIN w.closure : w.closure[i].origin = o
    /\ \A i \in DOMAIN w.closure :
        LET node == w.closure[i]
        IN  IF node.local THEN At(node.origin) # {} /\ ~sync
            ELSE /\ up[node.origin] # Gone /\ node = UpstreamNode(node.origin)
                 /\ \A d \in node.deps :
                        w.cyclic \/ d \in w.conflicts \/ Before(w.closure, i, d)

Extends(w, v) ==
    /\ Len(w.closure) <= Len(v.closure)
    /\ \A i \in DOMAIN w.closure : v.closure[i] = w.closure[i]
    /\ w.seen \subseteq v.seen /\ w.conflicts \subseteq v.conflicts
    /\ w.cyclic => v.cyclic

LEMMA ExtendsTransitive ==
    ASSUME NEW u \in Found, NEW v \in Found, NEW w \in Found, Extends(u, v), Extends(v, w)
    PROVE  Extends(u, w)
<1>1. u.closure \in Seq(PlanNode) /\ v.closure \in Seq(PlanNode) /\ w.closure \in Seq(PlanNode)
    BY DEF Found
<1>2. DOMAIN u.closure \subseteq DOMAIN v.closure
    BY <1>1 DEF Extends
<1> QED BY <1>1, <1>2 DEF Extends

LEMMA ExtendsReflexive == ASSUME NEW w \in Found PROVE Extends(w, w)
<1>1. w.closure \in Seq(PlanNode)
    BY DEF Found
<1> QED BY <1>1 DEF Extends

LEMMA RecordedSound ==
    ASSUME NEW sync, NEW w \in Found, Sound(w, sync), NEW node \in PlanNode,
           IF node.local THEN At(node.origin) # {} /\ ~sync
           ELSE /\ up[node.origin] # Gone /\ node = UpstreamNode(node.origin)
                /\ w.cyclic \/ node.deps \subseteq w.seen
    PROVE  Sound(Recorded(w, node), sync) /\ Extends(w, Recorded(w, node))
           /\ node.origin \in Recorded(w, node).seen
<1> DEFINE v == Recorded(w, node)
           n == Len(w.closure)
<1>1. /\ w.closure \in Seq(PlanNode) /\ n \in Nat /\ DOMAIN w.closure = 1..n
      /\ v.closure = Append(w.closure, node) /\ v.seen = w.seen \cup {node.origin}
      /\ v.conflicts = w.conflicts /\ v.cyclic = w.cyclic
    BY RecordedTyped DEF Found
<1> HIDE DEF v
<1>2. /\ DOMAIN v.closure = 1..(n + 1) /\ v.closure[n + 1] = node
      /\ \A i \in 1..n : v.closure[i] = w.closure[i]
    BY <1>1
<1>3. Extends(w, v)
    BY <1>1, <1>2 DEF Extends
<1>4. ASSUME NEW d \in w.seen, d \notin w.conflicts PROVE Before(v.closure, n + 1, d)
    <2>1. PICK i \in 1..n : w.closure[i].origin = d
        BY <1>1, <1>4 DEF Sound
    <2> QED BY <1>1, <1>2, <2>1 DEF Before
<1>5. ASSUME NEW o \in v.seen
      PROVE  o \in v.conflicts \/ \E i \in DOMAIN v.closure : v.closure[i].origin = o
    <2>1. CASE o = node.origin
        <3>1. n + 1 \in DOMAIN v.closure /\ v.closure[n + 1].origin = o
            BY <1>1, <1>2, <2>1
        <3> QED BY <3>1
    <2>2. CASE o \in w.seen /\ o \notin w.conflicts
        <3>1. PICK i \in 1..n : w.closure[i].origin = o
            BY <1>1, <2>2 DEF Sound
        <3>2. i \in 1..(n + 1) /\ v.closure[i].origin = o
            BY <1>1, <1>2, <3>1
        <3> QED BY <1>2, <3>2
    <2> QED BY <1>1, <1>5, <2>1, <2>2
<1>6. ASSUME NEW i \in DOMAIN v.closure
      PROVE  IF v.closure[i].local THEN At(v.closure[i].origin) # {} /\ ~sync
             ELSE /\ up[v.closure[i].origin] # Gone
                  /\ v.closure[i] = UpstreamNode(v.closure[i].origin)
                  /\ \A d \in v.closure[i].deps :
                        v.cyclic \/ d \in v.conflicts \/ Before(v.closure, i, d)
    <2>1. CASE i = n + 1
        BY <1>1, <1>2, <1>4, <2>1
    <2>2. CASE i \in 1..n
        <3>1. \A d : Before(w.closure, i, d) => Before(v.closure, i, d)
            BY <1>1, <1>2, <2>2 DEF Before
        <3>2. v.closure[i] = w.closure[i]
            BY <1>2, <2>2
        <3> QED BY <1>1, <2>2, <3>1, <3>2 DEF Sound
    <2> QED BY <1>1, <1>2, <1>6, <2>1, <2>2
<1>7. Sound(v, sync)
    BY <1>5, <1>6, Zenon DEF Sound
<1> QED BY <1>1, <1>3, <1>7 DEF v

\* What a visit and a walk promise.
Follows(w, v, sync) == Sound(v, sync) /\ Extends(w, v)

LEMMA VisitSound ==
    ASSUME RowsTyped, NEW sync \in BOOLEAN, NEW s \in Visits, NEW o \in s.todo, Sound(s.found, sync),
           NEW g,
           \A t \in Visits : g[t] \in Found,
           \A t \in Visits : (Depth(t) < Depth(s) /\ Sound(t.found, sync)) =>
                Follows(t.found, g[t], sync) /\ (g[t].cyclic \/ t.todo \subseteq g[t].seen)
    PROVE  LET v == Visit(g, o, s.path, s.found, sync)
           IN  v \in Found /\ Follows(s.found, v, sync) /\ (v.cyclic \/ o \in v.seen)
<1> DEFINE w == s.found
           v == Visit(g, o, s.path, w, sync)
<1>1. w \in Found /\ o \in Origin /\ s.path \subseteq Origin
    BY DEF Visits
<1>2. w.closure \in Seq(PlanNode)
    BY <1>1 DEF Found
<1>3. CASE o \in s.path
    <2> DEFINE x == [w EXCEPT !.cyclic = TRUE]
    <2>1. /\ x \in Found /\ x.cyclic = TRUE /\ x.closure = w.closure /\ x.seen = w.seen
          /\ x.conflicts = w.conflicts
        BY <1>1 DEF Found
    <2>2. v = x
        BY <1>3, Zenon DEF Visit
    <2> HIDE DEF x
    <2>3. Sound(x, sync)
        BY <2>1 DEF Sound
    <2>4. Extends(w, x)
        BY <1>2, <2>1 DEF Extends
    <2> QED BY <2>1, <2>2, <2>3, <2>4 DEF Follows
<1>4. CASE o \notin s.path /\ o \in w.seen
    <2>1. v = w
        BY <1>4, Zenon DEF Visit
    <2> QED BY <1>1, <1>4, <2>1, ExtendsReflexive DEF Follows
<1>5. CASE o \notin s.path /\ o \notin w.seen /\ TakenAsItIs(o, s.path, sync)
    <2>1. v = Recorded(w, LocalNode(o))
        BY <1>5, Zenon DEF Visit
    <2>2. ~sync /\ At(o) # {}
        BY <1>5 DEF TakenAsItIs
    <2>3. LocalNode(o) \in PlanNode /\ LocalNode(o).origin = o /\ LocalNode(o).local
        BY <1>1, <2>2, NodesTyped DEF LocalNode
    <2>4. /\ Recorded(w, LocalNode(o)) \in Found
          /\ Sound(Recorded(w, LocalNode(o)), sync) /\ Extends(w, Recorded(w, LocalNode(o)))
          /\ o \in Recorded(w, LocalNode(o)).seen
        BY <1>1, <2>2, <2>3, RecordedTyped, RecordedSound
    <2> QED BY <2>1, <2>4 DEF Follows
<1>6. CASE o \notin s.path /\ o \notin w.seen /\ ~TakenAsItIs(o, s.path, sync) /\ Conflicts(o)
    <2> DEFINE x == [Visited(w, o) EXCEPT !.conflicts = @ \cup {o}]
    <2>1. /\ x \in Found /\ x.cyclic = w.cyclic /\ x.closure = w.closure
          /\ x.seen = w.seen \cup {o} /\ x.conflicts = w.conflicts \cup {o}
        BY <1>1 DEF Found, Visited
    <2>2. v = x
        BY <1>6, Zenon DEF Visit
    <2> HIDE DEF x
    <2>3. Sound(x, sync)
        BY <2>1 DEF Sound
    <2>4. Extends(w, x)
        BY <1>2, <2>1 DEF Extends
    <2> QED BY <2>1, <2>2, <2>3, <2>4 DEF Follows
<1>7. CASE o \notin s.path /\ o \notin w.seen /\ ~TakenAsItIs(o, s.path, sync) /\ ~Conflicts(o)
    <2> DEFINE t == Into(s, o)
               x == g[t]
    <2>1. up[o] # Gone
        BY <1>7 DEF Conflicts, McpConflict, AnchorConflict
    <2>2. t \in Visits /\ Depth(t) < Depth(s)
        BY <1>1, <1>7, <2>1, NodesTyped, IntoIsNearer
    <2>3. t.found = w /\ t.todo = up[o].deps
        BY DEF Into
    <2>4. x \in Found /\ Follows(w, x, sync) /\ (x.cyclic \/ up[o].deps \subseteq x.seen)
        <3> HIDE DEF t
        <3> QED BY <2>2, <2>3
    <2>5. v = Recorded(x, UpstreamNode(o))
        BY <1>7, Zenon DEF Visit, Listed, Descend, Into
    <2>6. /\ UpstreamNode(o) \in PlanNode /\ UpstreamNode(o).origin = o
          /\ ~UpstreamNode(o).local /\ UpstreamNode(o).deps = up[o].deps
        BY <1>1, <2>1, NodesTyped DEF UpstreamNode
    <2> HIDE DEF x
    <2>7. Sound(Recorded(x, UpstreamNode(o)), sync) /\ Extends(x, Recorded(x, UpstreamNode(o)))
          /\ o \in Recorded(x, UpstreamNode(o)).seen
        BY <2>1, <2>4, <2>6, RecordedSound DEF Follows
    <2>8. Recorded(x, UpstreamNode(o)) \in Found
        BY <2>4, <2>6, RecordedTyped
    <2>9. Extends(w, Recorded(x, UpstreamNode(o)))
        BY <1>1, <2>4, <2>7, <2>8, ExtendsTransitive DEF Follows
    <2> QED BY <2>5, <2>7, <2>8, <2>9 DEF Follows
<1> QED BY <1>3, <1>4, <1>5, <1>6, <1>7

\* Phase 1 lists an entry after all that it depends on, whatever upstream is.
LEMMA ClosureSound ==
    ASSUME RowsTyped, NEW sync \in BOOLEAN, NEW root \in Origin
    PROVE  LET w == UpstreamClosure(root, sync)
           IN  w \in Found /\ Sound(w, sync) /\ (w.cyclic \/ root \in w.seen)
<1> DEFINE start == [path |-> {}, todo |-> {root}, found |-> Nothing]
<1>1. PICK g : /\ \A s \in Visits : g[s] = WalkBy(g, s, sync) /\ g[s] \in Found
               /\ UpstreamClosure(root, sync) = g[start]
    BY WalkIs
<1> DEFINE Kept(s) == Follows(s.found, g[s], sync) /\ (g[s].cyclic \/ s.todo \subseteq g[s].seen)
           B == {k \in Nat : \E s \in Visits : Depth(s) = k /\ Sound(s.found, sync) /\ ~Kept(s)}
<1>2. ASSUME B # {} PROVE FALSE
    <2>1. PICK k \in B : \A j \in B : k <= j
        <3>1. B \in SUBSET Nat
            OBVIOUS
        <3> HIDE DEF B
        <3> QED BY <1>2, <3>1, LeastNatural
    <2>2. PICK s \in Visits : Depth(s) = k /\ Sound(s.found, sync) /\ ~Kept(s)
        BY <2>1
    <2>3. ASSUME NEW t \in Visits, Depth(t) < Depth(s), Sound(t.found, sync) PROVE Kept(t)
        <3>1. Depth(t) \in Nat /\ k \in Nat
            BY DepthIsNatural, <2>1
        <3>2. Depth(t) \notin B
            <4> HIDE DEF B, Kept
            <4> QED BY <2>1, <2>2, <2>3, <3>1
        <3> QED BY <2>3, <3>1, <3>2
    <2>4. CASE s.todo = {}
        <3>1. g[s] = s.found /\ s.found \in Found
            BY <1>1, <2>4, Zenon DEF WalkBy, Visits
        <3> QED BY <2>2, <2>4, <3>1, ExtendsReflexive DEF Follows
    <2>5. CASE s.todo # {}
        <3> DEFINE o == First(s.todo)
                   v == Visit(g, o, s.path, s.found, sync)
                   t == Past(s, o, v)
        <3>1. o \in s.todo /\ s.todo \subseteq Origin
            BY <2>5, FirstIn DEF Visits
        <3>2. v \in Found /\ Follows(s.found, v, sync) /\ (v.cyclic \/ o \in v.seen)
            <4> HIDE DEF o
            <4>1. \A x \in Visits : (Depth(x) < Depth(s) /\ Sound(x.found, sync)) =>
                    Follows(x.found, g[x], sync) /\ (g[x].cyclic \/ x.todo \subseteq g[x].seen)
                BY <2>3
            <4> QED BY <1>1, <2>2, <3>1, <4>1, VisitSound
        <3>3. g[s] = g[t]
            BY <1>1, <2>5, Zenon DEF WalkBy
        <3> HIDE DEF o, v
        <3>4. t \in Visits /\ Depth(t) < Depth(s) /\ t.found = v /\ t.todo = s.todo \ {o}
            <4>1. t \in Visits /\ Depth(t) < Depth(s)
                BY <3>1, <3>2, PastIsNearer
            <4>2. t.found = v /\ t.todo = s.todo \ {o}
                BY DEF Past, Visits
            <4> QED BY <4>1, <4>2
        <3> HIDE DEF t
        <3>5. Follows(v, g[t], sync) /\ (g[t].cyclic \/ s.todo \ {o} \subseteq g[t].seen)
            BY <2>3, <3>2, <3>4 DEF Follows
        <3>6. g[t] \in Found /\ s.found \in Found
            BY <1>1, <3>4 DEF Visits
        <3>7. Extends(s.found, g[t])
            BY <3>2, <3>5, <3>6, ExtendsTransitive DEF Follows
        <3>8. g[t].cyclic \/ o \in g[t].seen
            BY <3>2, <3>5 DEF Follows, Extends
        <3>9. Kept(s)
            BY <3>3, <3>5, <3>7, <3>8 DEF Follows
        <3> QED BY <2>2, <3>9
    <2> QED BY <2>4, <2>5
<1>3. start \in Visits /\ Sound(start.found, sync) /\ start.todo = {root}
    <2>1. Nothing \in Found
        BY DEF Nothing, Found
    <2>2. Sound(Nothing, sync)
        BY DEF Nothing, Sound
    <2> QED BY <2>1, <2>2 DEF Visits
<1>4. Kept(start)
    <2> HIDE DEF start, Kept
    <2>1. Depth(start) \in Nat
        BY <1>3, DepthIsNatural
    <2> QED BY <1>2, <1>3, <2>1
<1> HIDE DEF start
<1> QED BY <1>1, <1>3, <1>4 DEF Follows

-----------------------------------------------------------------------------
(* Plans. *)

\* k is the nodes of s up to place n that are in P, in their order.
Filters(k, s, P, n) ==
    /\ k \in Seq(PlanNode)
    /\ \A j \in 1..n : s[j] \in P => \E h \in 1..Len(k) : k[h] = s[j]
    /\ \A i \in 1..Len(k) :
        \E m \in 1..n : /\ k[i] = s[m] /\ s[m] \in P
                        /\ \A j \in 1..(m - 1) : s[j] \in P => \E h \in 1..(i - 1) : k[h] = s[j]

LEMMA FiltersAppend ==
    ASSUME NEW s \in Seq(PlanNode), NEW P, NEW n \in Nat, n + 1 \in 1..Len(s), NEW k,
           Filters(k, s, P, n)
    PROVE  Filters(IF s[n + 1] \in P THEN Append(k, s[n + 1]) ELSE k, s, P, n + 1)
<1>1. k \in Seq(PlanNode) /\ Len(k) \in Nat /\ s[n + 1] \in PlanNode
    BY DEF Filters
<1>2. CASE s[n + 1] \notin P
    <2>1. \A j \in 1..(n + 1) : s[j] \in P => \E h \in 1..Len(k) : k[h] = s[j]
        <3>1. \A j \in 1..(n + 1) : j \in 1..n \/ j = n + 1
            OBVIOUS
        <3>2. \A j \in 1..n : s[j] \in P => \E h \in 1..Len(k) : k[h] = s[j]
            BY DEF Filters
        <3> QED BY <1>2, <3>1, <3>2, Zenon
    <2>2. \A i \in 1..Len(k) :
            \E m \in 1..(n + 1) : /\ k[i] = s[m] /\ s[m] \in P
                    /\ \A j \in 1..(m - 1) : s[j] \in P => \E h \in 1..(i - 1) : k[h] = s[j]
        <3>1. 1..n \subseteq 1..(n + 1)
            OBVIOUS
        <3> QED BY <3>1, Zenon DEF Filters
    <2>3. Filters(k, s, P, n + 1)
        BY <1>1, <2>1, <2>2, Zenon DEF Filters
    <2> QED BY <1>2, <2>3
<1>3. CASE s[n + 1] \in P
    <2> DEFINE x == Append(k, s[n + 1])
    <2>1. /\ x \in Seq(PlanNode) /\ Len(x) = Len(k) + 1 /\ x[Len(k) + 1] = s[n + 1]
          /\ \A i \in 1..Len(k) : x[i] = k[i]
        BY <1>1
    <2> HIDE DEF x
    <2>2. ASSUME NEW j \in 1..(n + 1), s[j] \in P PROVE \E h \in 1..Len(x) : x[h] = s[j]
        <3>1. CASE j = n + 1
            <4>1. Len(k) + 1 \in 1..Len(x) /\ x[Len(k) + 1] = s[j]
                BY <1>1, <2>1, <3>1
            <4> QED BY <4>1
        <3>2. CASE j # n + 1
            <4>1. j \in 1..n
                BY <2>2, <3>2
            <4>2. PICK h \in 1..Len(k) : k[h] = s[j]
                BY <2>2, <4>1 DEF Filters
            <4>3. h \in 1..Len(x) /\ x[h] = s[j]
                BY <1>1, <2>1, <4>2
            <4> QED BY <4>3
        <3> QED BY <3>1, <3>2
    <2>3. ASSUME NEW i \in 1..Len(x)
          PROVE  \E m \in 1..(n + 1) : /\ x[i] = s[m] /\ s[m] \in P
                    /\ \A j \in 1..(m - 1) : s[j] \in P => \E h \in 1..(i - 1) : x[h] = s[j]
        <3>1. CASE i = Len(k) + 1
            <4>1. \A j \in 1..n : s[j] \in P => \E h \in 1..Len(k) : x[h] = s[j]
                <5>1. \A j \in 1..n : s[j] \in P => \E h \in 1..Len(k) : k[h] = s[j]
                    BY DEF Filters
                <5> QED BY <2>1, <5>1
            <4>2. n + 1 \in 1..(n + 1) /\ (n + 1) - 1 = n /\ i - 1 = Len(k)
                BY <1>1, <3>1
            <4>3. /\ x[i] = s[n + 1] /\ s[n + 1] \in P
                  /\ \A j \in 1..((n + 1) - 1) : s[j] \in P => \E h \in 1..(i - 1) : x[h] = s[j]
                BY <1>3, <2>1, <3>1, <4>1, <4>2
            <4> QED BY <4>2, <4>3
        <3>2. CASE i # Len(k) + 1
            <4>1. i \in 1..Len(k)
                BY <1>1, <2>1, <2>3, <3>2
            <4>2. PICK m \in 1..n : /\ k[i] = s[m] /\ s[m] \in P
                    /\ \A j \in 1..(m - 1) : s[j] \in P => \E h \in 1..(i - 1) : k[h] = s[j]
                BY <4>1 DEF Filters
            <4>3. \A h \in 1..(i - 1) : x[h] = k[h]
                BY <1>1, <2>1, <4>1
            <4>4. m \in 1..(n + 1) /\ x[i] = s[m] /\ s[m] \in P
                BY <2>1, <4>1, <4>2
            <4>5. \A j \in 1..(m - 1) : s[j] \in P => \E h \in 1..(i - 1) : x[h] = s[j]
                <5> TAKE j \in 1..(m - 1)
                <5> HAVE s[j] \in P
                <5>1. PICK h \in 1..(i - 1) : k[h] = s[j]
                    BY <4>2
                <5>2. x[h] = s[j]
                    BY <4>3, <5>1
                <5> QED BY <5>2
            <4> QED BY <4>4, <4>5
        <3> QED BY <3>1, <3>2
    <2>4. Filters(x, s, P, n + 1)
        BY <2>1, <2>2, <2>3, Zenon DEF Filters
    <2> QED BY <1>3, <2>4 DEF x
<1> QED BY <1>2, <1>3

\* f chooses among the first n nodes of s.
Chooses(f, s, P, n) ==
    f = [i \in 0..n |-> IF i = 0 THEN <<>>
            ELSE LET chosen == f[i - 1]
                 IN  IF s[i] \in P THEN Append(chosen, s[i]) ELSE chosen]

LEMMA ChoiceExists ==
    ASSUME NEW s, NEW P, NEW n \in Nat
    PROVE  \E f : Chooses(f, s, P, n)
<1> DEFINE B == {m \in Nat : ~ \E f : Chooses(f, s, P, m)}
           Onward(chosen, i) == IF s[i] \in P THEN Append(chosen, s[i]) ELSE chosen
<1> SUFFICES ASSUME B # {} PROVE FALSE
    OBVIOUS
<1>1. PICK m \in B : \A k \in B : m <= k
    <2>1. B \in SUBSET Nat
        OBVIOUS
    <2> HIDE DEF B
    <2> QED BY <2>1, LeastNatural
<1>2. CASE m = 0
    <2>1. Chooses([i \in 0..0 |-> <<>>], s, P, 0)
        BY DEF Chooses
    <2> QED BY <1>2, <2>1
<1>3. CASE m # 0
    <2>1. m - 1 \in Nat /\ m - 1 \notin B /\ m \in Nat
        BY <1>1, <1>3
    <2>2. PICK f : Chooses(f, s, P, m - 1)
        BY <2>1
    <2> DEFINE g == [i \in 0..m |-> IF i = m THEN Onward(f[m - 1], m) ELSE f[i]]
    <2> HIDE DEF Onward
    <2>3. \A i \in 0..m : g[i] = IF i = 0 THEN <<>> ELSE Onward(g[i - 1], i)
        <3> TAKE i \in 0..m
        <3>1. CASE i = m
            BY <1>3, <2>1, <3>1
        <3>2. CASE i # m
            <4>1. i \in 0..(m - 1) /\ g[i] = f[i] /\ (i # 0 => g[i - 1] = f[i - 1])
                BY <2>1, <3>2
            <4>2. f[i] = IF i = 0 THEN <<>> ELSE Onward(f[i - 1], i)
                BY <2>2, <4>1 DEF Chooses, Onward
            <4> QED BY <4>1, <4>2
        <3> QED BY <3>1, <3>2
    <2>4. Chooses(g, s, P, m)
        <3>1. g = [i \in 0..m |-> IF i = 0 THEN <<>> ELSE Onward(g[i - 1], i)]
            <4>1. g = [i \in 0..m |-> g[i]]
                OBVIOUS
            <4> HIDE DEF g
            <4> QED BY <2>3, <4>1
        <3> HIDE DEF g
        <3> QED BY <3>1 DEF Chooses, Onward
    <2> QED BY <1>1, <2>4
<1> QED BY <1>2, <1>3

\* Choosing keeps the order: what was before a chosen node and is chosen is
\* before it still.
LEMMA ChosenFilters ==
    ASSUME NEW s \in Seq(PlanNode), NEW P
    PROVE  Filters(Chosen(s, P), s, P, Len(s))
<1> DEFINE N == Len(s)
<1>1. N \in Nat
    OBVIOUS
<1>2. PICK f : Chooses(f, s, P, N) /\ Chosen(s, P) = f[N]
    <2>1. PICK f : /\ f = CHOOSE g : g = [i \in 0..N |-> IF i = 0 THEN <<>>
                        ELSE LET chosen == g[i - 1]
                             IN  IF s[i] \in P THEN Append(chosen, s[i]) ELSE chosen]
                   /\ Chosen(s, P) = f[N]
        BY DEF Chosen
    <2>2. \E g : g = [i \in 0..N |-> IF i = 0 THEN <<>>
                        ELSE LET chosen == g[i - 1]
                             IN  IF s[i] \in P THEN Append(chosen, s[i]) ELSE chosen]
        <3>1. \E g : Chooses(g, s, P, N)
            <4> HIDE DEF N
            <4> QED BY <1>1, ChoiceExists
        <3> QED BY <3>1, Zenon DEF Chooses
    <2> QED BY <2>1, <2>2, Zenon DEF Chooses
<1>3. /\ f[0] = <<>>
      /\ \A i \in 1..N : f[i] = IF s[i] \in P THEN Append(f[i - 1], s[i]) ELSE f[i - 1]
    <2>1. \A i \in 0..N : f[i] = IF i = 0 THEN <<>>
                ELSE IF s[i] \in P THEN Append(f[i - 1], s[i]) ELSE f[i - 1]
        BY <1>2, Zenon DEF Chooses
    <2>2. 0 \in 0..N /\ \A i \in 1..N : i \in 0..N /\ i # 0
        BY <1>1
    <2> HIDE DEF N
    <2> QED BY <2>1, <2>2
<1> DEFINE B == {n \in 0..N : ~Filters(f[n], s, P, n)}
<1>4. ASSUME B # {} PROVE FALSE
    <2>1. PICK n \in B : \A j \in B : n <= j
        <3>1. B \in SUBSET Nat /\ B # {}
            BY <1>4
        <3> HIDE DEF B
        <3> QED BY <3>1, LeastNatural
    <2>2. n \in 0..N /\ ~Filters(f[n], s, P, n)
        BY <2>1
    <2>3. n # 0
        <3>1. Filters(<<>>, s, P, 0)
            BY DEF Filters
        <3> QED BY <1>3, <2>2, <3>1
    <2>4. n - 1 \in 0..N /\ n - 1 \notin B /\ n - 1 \in Nat /\ (n - 1) + 1 = n /\ n \in 1..N
        BY <1>1, <2>1, <2>2, <2>3
    <2>5. Filters(f[n - 1], s, P, n - 1)
        BY <2>4
    <2>6. Filters(IF s[n] \in P THEN Append(f[n - 1], s[n]) ELSE f[n - 1], s, P, n)
        <3>1. (n - 1) + 1 \in 1..Len(s)
            BY <2>4
        <3>2. Filters(IF s[(n - 1) + 1] \in P THEN Append(f[n - 1], s[(n - 1) + 1])
                      ELSE f[n - 1], s, P, (n - 1) + 1)
            <4> HIDE DEF B
            <4> QED BY <2>4, <2>5, <3>1, FiltersAppend
        <3> QED BY <2>4, <3>2
    <2> QED BY <1>3, <2>2, <2>4, <2>6
<1>5. N \in 0..N
    BY <1>1
<1> QED BY <1>2, <1>4, <1>5

Plans == [root : Origin, conflicts : SUBSET Origin, cyclic : BOOLEAN, old : Name \cup {None},
          install : Seq(PlanNode), orphans : SUBSET Origin]

LEMMA LocalClosureInstalled ==
    ASSUME RowsTyped, NEW root \in Origin, NEW o \in LocalClosure(root)
    PROVE  At(o) # {} /\ o \in Origin
<1>1. At(o) # {}
    BY Zenon DEF LocalClosure
<1>2. PICK n \in Installed : row[n].origin = o
    BY <1>1 DEF At
<1> QED BY <1>1, <1>2, InstalledRows DEF Row

LEMMA ChosenTyped ==
    ASSUME NEW s \in Seq(PlanNode), NEW P
    PROVE  /\ Chosen(s, P) \in Seq(PlanNode)
           /\ \A i \in DOMAIN Chosen(s, P) : \E m \in DOMAIN s : Chosen(s, P)[i] = s[m] /\ s[m] \in P
<1>1. Filters(Chosen(s, P), s, P, Len(s))
    BY ChosenFilters
<1>2. Chosen(s, P) \in Seq(PlanNode)
    BY <1>1 DEF Filters
<1>3. \A i \in 1..Len(Chosen(s, P)) : \E m \in 1..Len(s) : Chosen(s, P)[i] = s[m] /\ s[m] \in P
    BY <1>1, Zenon DEF Filters
<1> QED BY <1>2, <1>3

\* Which of the nodes of a closure a plan installs.
FetchedNodes(closure) == {n \in NodesOf(closure) : ~n.local}
Stale(root, closure) == {n \in FetchedNodes(closure) : ~UpToDate(n, LocalClosure(root))}
Same(root, closure) == {n \in FetchedNodes(closure) \ Stale(root, closure) : n.origin = root}

LEMMA ChangedIs ==
    ASSUME NEW root, NEW closure
    PROVE  Changed(root, closure) =
             IF Stale(root, closure) = {} THEN <<>>
             ELSE Chosen(closure, Stale(root, closure)) \o Chosen(closure, Same(root, closure))
    BY Zenon DEF Changed, Stale, Same, FetchedNodes

\* What a plan is made of, w being the closure it was made from.
MadeOf(plan, root, sync, w) ==
    /\ plan = [root |-> root, conflicts |-> w.conflicts, cyclic |-> w.cyclic,
               old |-> plan.old, install |-> plan.install, orphans |-> plan.orphans]
    /\ plan.old = (IF Renamed(root, w.closure, sync) THEN NameAt(root) ELSE None)
    /\ plan.install = (IF Renamed(root, w.closure, sync)
         THEN Chosen(w.closure, {n \in NodesOf(w.closure) : n.origin = root})
         ELSE Changed(root, w.closure))
    /\ plan.orphans = (IF sync /\ ~Renamed(root, w.closure, sync) /\ KindOf[root] # "mcp"
         THEN Orphans(root, w.closure) ELSE {})

LEMMA PlanFields ==
    ASSUME NEW root, NEW sync
    PROVE  MadeOf(Plan(root, sync), root, sync, UpstreamClosure(root, sync))
    BY DEF Plan, MadeOf

LEMMA ChangedTyped ==
    ASSUME NEW root, NEW s \in Seq(PlanNode)
    PROVE  Changed(root, s) \in Seq(PlanNode)
<1> DEFINE A == Chosen(s, Stale(root, s))
           B == Chosen(s, Same(root, s))
<1>1. A \in Seq(PlanNode) /\ B \in Seq(PlanNode)
    BY ChosenTyped
<1>2. Changed(root, s) = IF Stale(root, s) = {} THEN <<>> ELSE A \o B
    BY ChangedIs, Zenon
<1> HIDE DEF A, B
<1>3. CASE Stale(root, s) = {}
    BY <1>2, <1>3
<1>4. CASE Stale(root, s) # {}
    BY <1>1, <1>2, <1>4
<1> QED BY <1>3, <1>4

LEMMA PlanTyped ==
    ASSUME RowsTyped, NEW root \in Origin, NEW sync \in BOOLEAN
    PROVE  Plan(root, sync) \in Plans
<1> DEFINE w == UpstreamClosure(root, sync)
           plan == Plan(root, sync)
<1>1. w \in Found
    BY ClosureSound
<1>2. w.closure \in Seq(PlanNode) /\ w.conflicts \subseteq Origin /\ w.cyclic \in BOOLEAN
    BY <1>1 DEF Found
<1>3. w = UpstreamClosure(root, sync) /\ plan = Plan(root, sync)
    OBVIOUS
<1> HIDE DEF w, plan
<1>4. Renamed(root, w.closure, sync) => NameAt(root) \in Name
    <2>1. Renamed(root, w.closure, sync) => At(root) # {}
        BY DEF Renamed
    <2> QED BY <2>1, NameAtIn, InstalledRows
<1>5. Chosen(w.closure, {n \in NodesOf(w.closure) : n.origin = root}) \in Seq(PlanNode)
    BY <1>2, ChosenTyped
<1>6. Changed(root, w.closure) \in Seq(PlanNode)
    BY <1>2, ChangedTyped
<1>7. Orphans(root, w.closure) \subseteq Origin
    BY LocalClosureInstalled DEF Orphans
<1>8. MadeOf(plan, root, sync, w)
    BY <1>3, PlanFields, Zenon
<1>9. plan.old \in Name \cup {None} /\ plan.orphans \subseteq Origin
    BY <1>4, <1>7, <1>8 DEF MadeOf
<1>10. plan.install \in Seq(PlanNode)
    BY <1>5, <1>6, <1>8, Zenon DEF MadeOf
<1>11. plan \in Plans
    BY <1>2, <1>8, <1>9, <1>10 DEF Plans, MadeOf
<1> QED BY <1>3, <1>11

\* A plan to install nodes of which each comes after what it depends on, as
\* far as that is not installed yet.
Ordered(install) ==
    \A i \in DOMAIN install :
        LET node == install[i]
        IN  /\ up[node.origin] # Gone /\ node = UpstreamNode(node.origin)
            /\ \A d \in node.deps : At(d) # {} \/ Before(install, i, d)

LEMMA ChangedOrdered ==
    ASSUME RowsTyped, NEW root \in Origin, NEW sync, NEW w \in Found, Sound(w, sync),
           ~w.cyclic, w.conflicts = {}
    PROVE  Ordered(Changed(root, w.closure))
<1> DEFINE s == w.closure
           stale == Stale(root, s)
           same == Same(root, s)
           A == Chosen(s, stale)
           B == Chosen(s, same)
<1>1. s \in Seq(PlanNode)
    BY DEF Found
<1>2. CASE stale = {}
    BY <1>2, ChangedIs DEF Ordered
<1>3. CASE stale # {}
    <2>1. Changed(root, s) = A \o B
        BY <1>3, ChangedIs
    <2>2. Filters(A, s, stale, Len(s)) /\ Filters(B, s, same, Len(s))
        BY <1>1, ChosenFilters
    <2>3. stale \subseteq FetchedNodes(s) /\ same \subseteq FetchedNodes(s)
        BY DEF Stale, Same
    <2>4. A \in Seq(PlanNode) /\ B \in Seq(PlanNode) /\ Len(s) \in Nat /\ DOMAIN s = 1..Len(s)
        BY <1>1, <2>2 DEF Filters
    <2> HIDE DEF A, B, stale, same
    <2> DEFINE x == A \o B
    <2>5. /\ DOMAIN x = 1..(Len(A) + Len(B)) /\ Len(A) \in Nat /\ Len(B) \in Nat
          /\ \A i \in 1..Len(A) : x[i] = A[i]
          /\ \A i \in 1..Len(B) : x[Len(A) + i] = B[i]
        BY <2>4
    <2> HIDE DEF x
    \* A node that was fetched, at its place in the closure.
    <2>6. ASSUME NEW m \in 1..Len(s), s[m] \in FetchedNodes(s)
          PROVE  /\ up[s[m].origin] # Gone /\ s[m] = UpstreamNode(s[m].origin)
                 /\ \A d \in s[m].deps : Before(s, m, d)
        <3>1. ~s[m].local
            BY <2>6 DEF FetchedNodes
        <3> QED BY <2>4, <3>1 DEF Sound
    \* What comes before it is installed, or chosen for being stale.
    <2>7. ASSUME NEW m \in 1..Len(s), NEW d, Before(s, m, d), At(d) = {}
          PROVE  \E j \in 1..(m - 1) : s[j].origin = d /\ s[j] \in stale
        <3>1. PICK j \in 1..(m - 1) : s[j].origin = d
            BY <2>7 DEF Before
        <3>2. j \in 1..Len(s)
            BY <2>4, <3>1
        <3>3. ~s[j].local
            BY <2>4, <2>7, <3>1, <3>2 DEF Sound
        <3>4. s[j] \in FetchedNodes(s)
            BY <2>4, <3>2, <3>3 DEF FetchedNodes, NodesOf
        <3>5. ~UpToDate(s[j], LocalClosure(root))
            BY <2>7, <3>1, LocalClosureInstalled DEF UpToDate
        <3> QED BY <3>1, <3>4, <3>5 DEF stale, Stale
    <2>8. ASSUME NEW i \in DOMAIN x
          PROVE  /\ up[x[i].origin] # Gone /\ x[i] = UpstreamNode(x[i].origin)
                 /\ \A d \in x[i].deps : At(d) # {} \/ Before(x, i, d)
        <3>1. CASE i \in 1..Len(A)
            <4>1. PICK m \in 1..Len(s) : /\ A[i] = s[m] /\ s[m] \in stale
                    /\ \A j \in 1..(m - 1) : s[j] \in stale => \E h \in 1..(i - 1) : A[h] = s[j]
                BY <2>2, <3>1 DEF Filters
            <4>2. ASSUME NEW d \in x[i].deps, At(d) = {} PROVE Before(x, i, d)
                <5>1. PICK j \in 1..(m - 1) : s[j].origin = d /\ s[j] \in stale
                    <6>1. x[i] = s[m] /\ s[m] \in FetchedNodes(s)
                        BY <2>3, <2>5, <3>1, <4>1
                    <6>2. Before(s, m, d)
                        BY <2>6, <4>2, <6>1, Zenon
                    <6> QED BY <2>7, <4>2, <6>2, Zenon
                <5>2. PICK h \in 1..(i - 1) : A[h] = s[j]
                    BY <4>1, <5>1
                <5>3. x[h].origin = d
                    <6>1. h \in 1..Len(A) /\ h \in Nat
                        BY <2>5, <3>1, <5>2
                    <6>2. x[h] = A[h]
                        BY <2>5, <6>1, Zenon
                    <6> QED BY <5>1, <5>2, <6>2
                <5> QED BY <5>3 DEF Before
            <4> QED BY <2>3, <2>5, <2>6, <3>1, <4>1, <4>2
        <3>2. CASE i \notin 1..Len(A)
            <4> DEFINE k == i - Len(A)
            <4>1. k \in 1..Len(B) /\ x[i] = B[k]
                BY <2>5, <2>8, <3>2
            <4>2. PICK m \in 1..Len(s) : B[k] = s[m] /\ s[m] \in same
                <5> HIDE DEF k
                <5> QED BY <2>2, <4>1 DEF Filters
            <4>3. ASSUME NEW d \in x[i].deps, At(d) = {} PROVE Before(x, i, d)
                <5>1. PICK j \in 1..(m - 1) : s[j].origin = d /\ s[j] \in stale
                    BY <2>3, <2>6, <2>7, <4>1, <4>2, <4>3
                <5>2. j \in 1..Len(s)
                    BY <2>4, <5>1
                <5>3. PICK h \in 1..Len(A) : A[h] = s[j]
                    BY <2>2, <5>1, <5>2 DEF Filters
                <5>4. x[h].origin = d /\ h \in 1..(i - 1)
                    BY <2>5, <2>8, <3>2, <5>1, <5>3
                <5> QED BY <5>4 DEF Before
            <4> QED BY <2>3, <2>6, <4>1, <4>2, <4>3
        <3> QED BY <3>1, <3>2
    <2>9. Ordered(x)
        BY <2>8, Zenon DEF Ordered
    <2> QED BY <2>1, <2>9 DEF x
<1> QED BY <1>2, <1>3

\* A plan without a conflict, a cycle or a rename is in order.
LEMMA PlanOrdered ==
    ASSUME RowsTyped, NEW root \in Origin, NEW sync \in BOOLEAN,
           LET plan == Plan(root, sync)
           IN  ~plan.cyclic /\ plan.conflicts = {} /\ plan.old = None
    PROVE  Ordered(Plan(root, sync).install)
<1> DEFINE w == UpstreamClosure(root, sync)
           plan == Plan(root, sync)
<1>1. w \in Found /\ Sound(w, sync)
    BY ClosureSound
<1>4. w = UpstreamClosure(root, sync) /\ plan = Plan(root, sync)
    OBVIOUS
<1>5. ~plan.cyclic /\ plan.conflicts = {} /\ plan.old = None
    OBVIOUS
<1> HIDE DEF w, plan
<1>6. MadeOf(plan, root, sync, w)
    BY <1>4, PlanFields, Zenon
<1>2. ~Renamed(root, w.closure, sync)
    <2>1. ASSUME Renamed(root, w.closure, sync) PROVE FALSE
        <3>1. NameAt(root) = None
            BY <1>5, <1>6, <2>1, Zenon DEF MadeOf
        <3>2. At(root) # {}
            BY <2>1 DEF Renamed
        <3> QED BY <3>1, <3>2, NameAtIn, InstalledRows, AbsenceAssumption
    <2> QED BY <2>1
<1>3. ~w.cyclic /\ w.conflicts = {} /\ plan.install = Changed(root, w.closure)
    <2>1. plan.install = Changed(root, w.closure)
        BY <1>2, <1>6, Zenon DEF MadeOf
    <2>2. plan.conflicts = w.conflicts /\ plan.cyclic = w.cyclic
        BY <1>6 DEF MadeOf
    <2> QED BY <1>5, <2>1, <2>2
<1>7. Ordered(plan.install)
    BY <1>1, <1>3, ChangedOrdered
<1> QED BY <1>4, <1>7

\* What a sync calls an orphan is none of what the plan installs or needs, and
\* only rows of the root refer to it.  The root is written again, under the
\* name it has, unless it is up to date.
LEMMA PlanOrphans ==
    ASSUME RowsTyped, NEW root \in Origin, NEW sync \in BOOLEAN, sync => At(root) # {},
           LET plan == Plan(root, sync) IN ~plan.cyclic /\ plan.conflicts = {},
           NEW o \in Plan(root, sync).orphans
    PROVE  LET plan == Plan(root, sync)
           IN  /\ plan.old = None /\ KindOf[root] # "mcp" /\ o # root
               /\ \A i \in DOMAIN plan.install :
                    plan.install[i].origin # o /\ o \notin plan.install[i].deps
               /\ \A m \in Installed : row[m].origin # root => o \notin OriginsOf(row[m].deps)
               /\ up[root] # Gone /\ up[root].name = NameAt(root) /\ o \notin up[root].deps
               /\ \/ \E i \in DOMAIN plan.install :
                        plan.install[i].origin = root /\ plan.install[i].name = NameAt(root)
                  \/ row[NameAt(root)].version = up[root].version
<1> DEFINE w == UpstreamClosure(root, sync)
           s == w.closure
           plan == Plan(root, sync)
<1>1. w \in Found /\ Sound(w, sync) /\ (w.cyclic \/ root \in w.seen)
    BY ClosureSound
<1>0. w = UpstreamClosure(root, sync) /\ plan = Plan(root, sync)
    OBVIOUS
<1>a. ~plan.cyclic /\ plan.conflicts = {} /\ o \in plan.orphans
    OBVIOUS
<1> HIDE DEF w, plan
<1>b. MadeOf(plan, root, sync, w)
    BY <1>0, PlanFields, Zenon
<1>2. /\ sync /\ ~Renamed(root, s, sync) /\ KindOf[root] # "mcp" /\ o \in Orphans(root, s)
      /\ ~w.cyclic /\ w.conflicts = {} /\ plan.old = None /\ plan.install = Changed(root, s)
    <2>1. sync /\ ~Renamed(root, s, sync) /\ KindOf[root] # "mcp" /\ o \in Orphans(root, s)
        BY <1>a, <1>b DEF MadeOf
    <2>2. plan.old = None /\ plan.install = Changed(root, s)
        BY <1>b, <2>1, Zenon DEF MadeOf
    <2>3. plan.conflicts = w.conflicts /\ plan.cyclic = w.cyclic
        BY <1>b DEF MadeOf
    <2> QED BY <1>a, <2>1, <2>2, <2>3
<1>3. o \notin ReferencedElsewhere(root) /\ o # root /\ \A i \in DOMAIN s : s[i].origin # o
    BY <1>2, Zenon DEF Orphans
<1>4. s \in Seq(PlanNode)
    BY <1>1 DEF Found
<1>5. ASSUME NEW i \in DOMAIN s, ~s[i].local PROVE o \notin s[i].deps
    <2>1. ASSUME o \in s[i].deps PROVE FALSE
        <3>1. Before(s, i, o)
            BY <1>1, <1>2, <1>5, <2>1 DEF Sound
        <3> QED BY <1>3, <1>4, <3>1 DEF Before
    <2> QED BY <2>1
<1>6. PICK r \in DOMAIN s : s[r].origin = root
    BY <1>1, <1>2 DEF Sound
<1>7. ~s[r].local /\ up[root] # Gone /\ s[r] = UpstreamNode(root)
    BY <1>1, <1>2, <1>6 DEF Sound
<1>8. s[r].name = NameAt(root) /\ up[root].name = NameAt(root) /\ o \notin up[root].deps
    <2>1. s[r].name = NameAt(root)
        BY <1>2, <1>6 DEF Renamed
    <2> QED BY <1>5, <1>6, <1>7, <2>1 DEF UpstreamNode
<1> DEFINE A == Chosen(s, Stale(root, s))
           B == Chosen(s, Same(root, s))
<1>9. Filters(A, s, Stale(root, s), Len(s)) /\ Filters(B, s, Same(root, s), Len(s))
    BY <1>4, ChosenFilters
<1>10. plan.install = IF Stale(root, s) = {} THEN <<>> ELSE A \o B
    BY <1>2, ChangedIs
<1>11. A \in Seq(PlanNode) /\ B \in Seq(PlanNode)
    BY <1>9 DEF Filters
<1>12. Stale(root, s) \subseteq FetchedNodes(s) /\ Same(root, s) \subseteq FetchedNodes(s)
    BY DEF Stale, Same
<1>13. ASSUME NEW i \in DOMAIN plan.install
       PROVE  plan.install[i].origin # o /\ o \notin plan.install[i].deps
    <2>1. \E m \in DOMAIN s : plan.install[i] = s[m] /\ s[m] \in FetchedNodes(s)
        <3>1. CASE Stale(root, s) = {}
            BY <1>10, <1>13, <3>1
        <3>2. CASE Stale(root, s) # {} /\ i \in DOMAIN A
            <4>1. plan.install[i] = A[i]
                BY <1>10, <1>11, <3>2
            <4>2. \E m \in DOMAIN s : A[i] = s[m] /\ s[m] \in Stale(root, s)
                BY <1>4, <3>2, ChosenTyped
            <4> QED BY <1>12, <4>1, <4>2
        <3>3. CASE Stale(root, s) # {} /\ i \notin DOMAIN A
            <4>1. PICK k \in DOMAIN B : plan.install[i] = B[k]
                <5> HIDE DEF A, B
                <5>1. DOMAIN (A \o B) = 1..(Len(A) + Len(B))
                      /\ Len(A) \in Nat /\ Len(B) \in Nat /\ DOMAIN A = 1..Len(A) /\ DOMAIN B = 1..Len(B)
                    BY <1>11
                <5>2. i \in Nat /\ i - Len(A) \in 1..Len(B)
                    BY <1>10, <1>13, <3>3, <5>1
                <5>3. (A \o B)[i] = B[i - Len(A)]
                    BY <1>11, <3>3, <5>1, <5>2
                <5> QED BY <1>10, <3>3, <5>1, <5>2, <5>3
            <4>2. \E m \in DOMAIN s : B[k] = s[m] /\ s[m] \in Same(root, s)
                BY <1>4, <4>1, ChosenTyped
            <4> QED BY <1>12, <4>1, <4>2
        <3> QED BY <3>1, <3>2, <3>3
    <2> QED BY <1>3, <1>5, <2>1 DEF FetchedNodes
<1>14. \A m \in Installed : row[m].origin # root => o \notin OriginsOf(row[m].deps)
    BY <1>3 DEF ReferencedElsewhere
<1>15. \/ \E i \in DOMAIN plan.install :
              plan.install[i].origin = root /\ plan.install[i].name = NameAt(root)
       \/ row[NameAt(root)].version = up[root].version
    <2>1. s[r] \in FetchedNodes(s) /\ r \in 1..Len(s) /\ Len(s) \in Nat
        BY <1>4, <1>6, <1>7 DEF FetchedNodes, NodesOf
    <2>2. CASE s[r] \in Stale(root, s)
        <3>1. PICK h \in 1..Len(A) : A[h] = s[r]
            BY <1>9, <2>1, <2>2 DEF Filters
        <3>2. h \in DOMAIN plan.install /\ plan.install[h] = A[h]
            <4> HIDE DEF A, B
            <4> QED BY <1>10, <1>11, <2>2, <3>1
        <3> QED BY <1>6, <1>8, <3>1, <3>2
    <2>3. CASE s[r] \notin Stale(root, s)
        <3>1. UpToDate(s[r], LocalClosure(root))
            BY <2>1, <2>3 DEF Stale
        <3> QED BY <1>7, <1>8, <3>1 DEF UpToDate, UpstreamNode
    <2> QED BY <2>2, <2>3
<1> QED BY <1>2, <1>3, <1>7, <1>8, <1>13, <1>14, <1>15 DEF plan
-----------------------------------------------------------------------------
(* What holds in every state.  The rows: *)

\* What a row says is what its author once declared, less what was not installed.
Authored(n) ==
    LET r == row[n]
    IN  IF KindOf[r.origin] = "mcp" THEN r.deps = {} /\ r.prereqs = NoPrereqs
        ELSE \E content \in Contents[r.origin] :
                /\ content.name = n /\ content.version = r.version
                /\ OriginsOf(r.deps) \subseteq content.deps

SoundRows ==
    /\ RowsTyped
    /\ \A o \in Origin : up[o] \in Contents[o] \cup {Gone}
    /\ NothingDangles
    /\ \A n \in Installed : Authored(n)

\* The requests: each has written, or failed at, the entries that its todo lacks.
Requests == [at : {"planned", "fetching", "done"}, plan : Plans, todo : Seq(PlanNode),
             poisoned : SUBSET Origin, failed : SUBSET Origin]

Behind(c) == Len(call[c].plan.install) - Len(call[c].todo)

Progress(c) ==
    LET install == call[c].plan.install
        todo == call[c].todo
    IN  /\ Behind(c) \in Nat
        /\ \A i \in 1..Len(todo) : todo[i] = install[Behind(c) + i]
        /\ call[c].at = "planned" => call[c].failed = {} /\ call[c].poisoned = {} /\ Behind(c) = 0
        /\ call[c].at = "done" => todo = <<>>
        /\ call[c].failed = {} => call[c].poisoned = {}

SoundCalls ==
    /\ call \in [Client -> {Idle} \cup Requests]
    /\ calm \subseteq Client
    /\ \A c \in Client : call[c] # Idle => Progress(c)

\* Nothing has overtaken the plan, and nothing has failed.
Unhindered(c) ==
    c \in calm /\ call[c] # Idle /\ call[c].plan.conflicts = {} /\ call[c].failed = {}

Complete(node) ==
    /\ node.name \in Installed /\ row[node.name].origin = node.origin
    /\ \A d \in node.deps \ {node.origin} : At(d) # {} /\ At(d) \cap row[node.name].deps # {}

Promised(c) ==
    /\ Ordered(call[c].plan.install)
    /\ \A i \in 1..Behind(c) : Complete(call[c].plan.install[i])

\* What is to become an orphan is referred to by the root alone, which is
\* still to be written.
Loosening(c, o) ==
    LET plan == call[c].plan
    IN  /\ plan.old = None /\ o # plan.root
        /\ \A i \in DOMAIN plan.install :
                plan.install[i].origin # o /\ o \notin plan.install[i].deps
        /\ \A m \in Installed : row[m].origin # plan.root => o \notin OriginsOf(row[m].deps)
        /\ (\A m, n \in At(plan.root) : m = n) =>
           \A m \in At(plan.root) : o \in OriginsOf(row[m].deps) =>
                \E i \in DOMAIN plan.install :
                    i > Behind(c) /\ plan.install[i].origin = plan.root

Kept(c) ==
    /\ call[c].plan.old = None => Promised(c)
    /\ \A o \in call[c].plan.orphans : Loosening(c, o)

CatalogInv ==
    /\ SoundRows /\ SoundCalls
    /\ \A c \in Client : Unhindered(c) => Kept(c)

-----------------------------------------------------------------------------
(* What writing a row, and removing one, leaves of the others. *)

LEMMA FqnsIn ==
    ASSUME NEW origins
    PROVE  /\ FqnsOf(origins) \subseteq Installed
           /\ OriginsOf(FqnsOf(origins)) \subseteq origins
           /\ \A o \in origins : At(o) # {} => NameAt(o) \in FqnsOf(origins)
<1>1. \A o : At(o) # {} => NameAt(o) \in Installed /\ row[NameAt(o)].origin = o
    BY NameAtIn
<1> QED BY <1>1 DEF FqnsOf, OriginsOf

\* A row as repo.add and repo.update write it.
Written(name, new) ==
    /\ name \in Name /\ new \in Row /\ row' = [row EXCEPT ![name] = new]
    /\ ~TakenByAnother(name, new.origin)
    /\ new.deps \subseteq Installed

LEMMA RowWritten ==
    ASSUME RowsTyped, NEW name, NEW new, Written(name, new)
    PROVE  /\ Installed' = Installed \cup {name}
           /\ row'[name] = new /\ \A m \in Installed \ {name} : row'[m] = row[m]
           /\ \A m \in Installed : row'[m].origin = row[m].origin
           /\ \A o : At(o)' = At(o) \cup (IF o = new.origin THEN {name} ELSE {})
           /\ \A names : names \subseteq Installed => OriginsOf(names)' = OriginsOf(names)
<1>1. /\ row'[name] = new /\ \A m \in Name \ {name} : row'[m] = row[m]
      /\ new # None
    BY AbsenceAssumption DEF Written, RowsTyped
<1>2. Installed' = Installed \cup {name} /\ name \in Name
    BY <1>1 DEF Installed, Written
<1>3. \A m \in Installed : m \in Name /\ row'[m].origin = row[m].origin
    BY <1>1 DEF Installed, Written, TakenByAnother
<1>4. \A o : At(o)' = At(o) \cup (IF o = new.origin THEN {name} ELSE {})
    <2> TAKE o
    <2>1. ASSUME NEW m \in Installed' PROVE (row'[m].origin = o) <=> (m \in At(o) \cup (IF o = new.origin THEN {name} ELSE {}))
        <3>1. CASE m = name
            <4>1. m \in At(o) => o = new.origin
                BY <1>1, <1>3, <3>1 DEF At
            <4> QED BY <1>1, <3>1, <4>1
        <3>2. CASE m # name
            BY <1>2, <1>3, <3>2 DEF At
        <3> QED BY <3>1, <3>2
    <2>2. At(o)' = {m \in Installed' : row'[m].origin = o}
        BY DEF At
    <2>3. At(o) \cup (IF o = new.origin THEN {name} ELSE {}) \subseteq Installed'
        BY <1>2 DEF At
    <2> QED BY <2>1, <2>2, <2>3
<1>5. \A names : names \subseteq Installed => OriginsOf(names)' = OriginsOf(names)
    BY <1>2, <1>3 DEF OriginsOf
<1> QED BY <1>1, <1>2, <1>3, <1>4, <1>5 DEF Installed

LEMMA SoundRowsWritten ==
    ASSUME SoundRows, NEW name, NEW new, Written(name, new), up' = up,
           IF KindOf[new.origin] = "mcp" THEN new.deps = {} /\ new.prereqs = NoPrereqs
           ELSE \E content \in Contents[new.origin] :
                   /\ content.name = name /\ content.version = new.version
                   /\ OriginsOf(new.deps) \subseteq content.deps
    PROVE  SoundRows'
<1>1. /\ Installed' = Installed \cup {name}
      /\ row'[name] = new /\ \A m \in Installed \ {name} : row'[m] = row[m]
      /\ \A names : names \subseteq Installed => OriginsOf(names)' = OriginsOf(names)
    BY RowWritten DEF SoundRows
<1>2. RowsTyped'
    BY DEF SoundRows, RowsTyped, Written
<1>3. NothingDangles'
    BY <1>1 DEF SoundRows, NothingDangles, Written
<1>4. \A o \in Origin : up'[o] \in Contents[o] \cup {Gone}
    BY DEF SoundRows
<1>5. ASSUME NEW m \in Installed' PROVE Authored(m)'
    <2>1. CASE m = name
        <3>1. OriginsOf(new.deps)' = OriginsOf(new.deps)
            BY <1>1 DEF Written
        <3>2. row'[m].deps = new.deps /\ row'[m] = new
            BY <1>1, <2>1
        <3>3. OriginsOf(row[m].deps)' = OriginsOf(new.deps)
            BY <3>1, <3>2 DEF OriginsOf
        <3> QED BY <2>1, <3>2, <3>3 DEF Authored
    <2>2. CASE m # name
        <3>1. m \in Installed /\ row'[m] = row[m] /\ Authored(m) /\ row[m].deps \subseteq Installed
            BY <1>1, <1>5, <2>2 DEF SoundRows, NothingDangles
        <3>2. OriginsOf(row[m].deps)' = OriginsOf(row[m].deps)
            <4>1. OriginsOf(row[m].deps)' = {row'[x].origin : x \in row'[m].deps \cap Installed'}
                BY DEF OriginsOf
            <4>2. \A names : OriginsOf(names)' = {row'[x].origin : x \in names \cap Installed'}
                BY DEF OriginsOf
            <4> QED BY <1>1, <3>1, <4>1, <4>2
        <3> QED BY <3>1, <3>2 DEF Authored
    <2> QED BY <2>1, <2>2
<1> QED BY <1>2, <1>3, <1>4, <1>5 DEF SoundRows

\* A row is removed when no row refers to it.
LEMMA RowRemoved ==
    ASSUME SoundRows, NEW n, MayDelete(n), row' = Removed(n), up' = up
    PROVE  SoundRows'
<1>1. n \in Name /\ n \in Installed /\ \A m \in Installed : n \notin row[m].deps
    BY DEF MayDelete, Dependents, Installed
<1>2. row'[n] = None /\ \A m \in Name \ {n} : row'[m] = row[m]
    BY <1>1 DEF Removed, SoundRows, RowsTyped
<1>3. Installed' = Installed \ {n}
    BY <1>2 DEF Installed
<1>4. RowsTyped'
    BY <1>1 DEF SoundRows, RowsTyped, Removed
<1>5. NothingDangles'
    BY <1>1, <1>2, <1>3 DEF SoundRows, NothingDangles, Installed
<1>6. ASSUME NEW m \in Installed' PROVE Authored(m)'
    <2>1. m \in Installed /\ row'[m] = row[m] /\ Authored(m)
        BY <1>2, <1>3, <1>6 DEF SoundRows, Installed
    <2>2. \A x \in row[m].deps : x \in Installed' /\ x \in Installed /\ row'[x] = row[x]
        BY <1>1, <1>2, <1>3, <2>1 DEF SoundRows, NothingDangles, Installed
    <2>3. OriginsOf(row[m].deps)' = OriginsOf(row[m].deps)
        BY <2>1, <2>2 DEF OriginsOf
    <2> QED BY <2>1, <2>3 DEF Authored
<1>7. \A o \in Origin : up'[o] \in Contents[o] \cup {Gone}
    BY DEF SoundRows
<1> QED BY <1>4, <1>5, <1>6, <1>7 DEF SoundRows

\* The row of an entry that is fetched: install of a skill or an agent.
LEMMA FetchedRow ==
    ASSUME SoundRows, NEW o \in Origin, up[o] # Gone, KindOf[o] # "mcp",
           ~TakenByAnother(up[o].name, o)
    PROVE  LET name == up[o].name
               new == Linked(Carried(Fresh(o, up[o]), name), name, up[o].deps)
           IN  /\ name \in Name /\ new \in Row
               /\ new.origin = o /\ new.version = up[o].version
               /\ new.deps = FqnsOf(up[o].deps) \ (IF KindOf[o] = "skill" THEN {name} ELSE {})
<1> DEFINE name == up[o].name
           fresh == Fresh(o, up[o])
           carried == Carried(fresh, name)
           new == Linked(carried, name, up[o].deps)
<1>1. up[o] \in Content /\ name \in Name /\ up[o].deps \subseteq Origin
    BY DEF SoundRows, RowsTyped, Content
<1>2. fresh \in Row /\ fresh.origin = o /\ fresh.version = up[o].version
    BY <1>1 DEF Fresh, Row, Content
<1> HIDE DEF fresh
<1>3. carried \in Row /\ carried.origin = o /\ carried.version = up[o].version
    <2>1. CASE row[name] = None
        BY <1>2, <2>1 DEF Carried
    <2>2. CASE row[name] # None
        <3>1. row[name] \in Row /\ row[name].off \in BOOLEAN /\ row[name].ack \in BOOLEAN
            BY <1>1, <2>2 DEF SoundRows, RowsTyped, Row
        <3>2. carried = [fresh EXCEPT !.off = row[name].off,
                            !.ack = IF row[name].prereqs = fresh.prereqs THEN row[name].ack ELSE @]
            BY <2>2 DEF Carried
        <3> QED BY <1>2, <3>1, <3>2 DEF Row
    <2> QED BY <2>1, <2>2
<1> HIDE DEF carried
<1>4. FqnsOf(up[o].deps) \subseteq Name
    BY FqnsIn DEF Installed
<1>5. /\ new \in Row /\ new.origin = o /\ new.version = up[o].version
      /\ new.deps = FqnsOf(up[o].deps) \ (IF KindOf[o] = "skill" THEN {name} ELSE {})
    BY <1>3, <1>4 DEF Linked, Row
<1> QED BY <1>1, <1>5 DEF carried, fresh

LEMMA RequestFacts ==
    ASSUME SoundCalls, NEW c \in Client, call[c].at # "idle"
    PROVE  /\ call[c] \in Requests /\ Progress(c) /\ call[c] # Idle
           /\ call[c].plan \in Plans /\ call[c].plan.install \in Seq(PlanNode)
           /\ call[c].todo \in Seq(PlanNode) /\ call[c].plan.old \in Name \cup {None}
<1>1. call[c] # Idle /\ call[c] \in {Idle} \cup Requests
    BY DEF SoundCalls, Idle
<1>2. call[c] \in Requests
    BY <1>1
<1>3. call[c].plan \in Plans /\ call[c].todo \in Seq(PlanNode)
    BY <1>2 DEF Requests
<1>4. call[c].plan.install \in Seq(PlanNode) /\ call[c].plan.old \in Name \cup {None}
    BY <1>3 DEF Plans
<1> QED BY <1>1, <1>2, <1>3, <1>4 DEF SoundCalls

\* The entry at hand is the first of the plan that is not behind.
LEMMA NodeFacts ==
    ASSUME SoundCalls, NEW c \in Client, AtWork(c)
    PROVE  /\ Node(c) \in PlanNode
           /\ Behind(c) \in Nat /\ Behind(c) + 1 \in DOMAIN call[c].plan.install
           /\ Node(c) = call[c].plan.install[Behind(c) + 1]
           /\ Tail(call[c].todo) \in Seq(PlanNode)
           /\ Len(Tail(call[c].todo)) = Len(call[c].todo) - 1
           /\ \A i \in 1..Len(Tail(call[c].todo)) : Tail(call[c].todo)[i] = call[c].todo[i + 1]
<1> DEFINE todo == call[c].todo
           install == call[c].plan.install
<1>1. /\ todo \in Seq(PlanNode) /\ install \in Seq(PlanNode)
      /\ todo # <<>> /\ Progress(c)
    BY RequestFacts DEF AtWork
<1>2. /\ Behind(c) \in Nat /\ Behind(c) = Len(install) - Len(todo)
      /\ \A i \in 1..Len(todo) : todo[i] = install[Behind(c) + i]
    BY <1>1 DEF Progress, Behind
<1>3. Node(c) = Head(todo)
    BY DEF Node
<1> HIDE DEF todo, install
<1>4. /\ Head(todo) = todo[1] /\ Head(todo) \in PlanNode /\ Len(todo) \in Nat /\ Len(todo) >= 1
      /\ Tail(todo) \in Seq(PlanNode) /\ Len(Tail(todo)) = Len(todo) - 1
      /\ \A i \in 1..Len(Tail(todo)) : Tail(todo)[i] = todo[i + 1]
    BY <1>1
<1>5. Behind(c) + 1 \in DOMAIN install /\ todo[1] = install[Behind(c) + 1]
    BY <1>1, <1>2, <1>4
<1> QED BY <1>2, <1>3, <1>4, <1>5 DEF todo, install

LEMMA SoundRowsUnchanged ==
    ASSUME SoundRows, row' = row, up' \in [Origin -> Content \cup {Gone}],
           \A o \in Origin : up'[o] \in Contents[o] \cup {Gone}
    PROVE  SoundRows'
<1>1. Installed' = Installed /\ \A names : OriginsOf(names)' = OriginsOf(names)
    BY DEF Installed, OriginsOf
<1>2. RowsTyped' /\ NothingDangles'
    BY <1>1 DEF SoundRows, RowsTyped, NothingDangles
<1>3. \A n \in Installed : Authored(n)'
    <2> TAKE n \in Installed
    <2>1. Authored(n) /\ OriginsOf(row[n].deps)' = OriginsOf(row[n].deps)
        BY DEF SoundRows, OriginsOf, Installed
    <2> QED BY <2>1 DEF Authored
<1> QED BY <1>1, <1>2, <1>3 DEF SoundRows

\* A row of which only the flags change.
LEMMA SoundRowsFlagged ==
    ASSUME SoundRows, NEW n \in Installed, NEW new \in Row, up' = up, row' = [row EXCEPT ![n] = new],
           new.origin = row[n].origin, new.version = row[n].version, new.deps = row[n].deps,
           new.prereqs = row[n].prereqs
    PROVE  Written(n, new) /\ SoundRows'
<1>1. n \in Name /\ row[n] # None /\ Authored(n) /\ row[n].deps \subseteq Installed
    BY DEF SoundRows, NothingDangles, Installed
<1>2. Written(n, new)
    BY <1>1 DEF Written, TakenByAnother
<1>3. IF KindOf[new.origin] = "mcp" THEN new.deps = {} /\ new.prereqs = NoPrereqs
      ELSE \E content \in Contents[new.origin] :
              /\ content.name = n /\ content.version = new.version
              /\ OriginsOf(new.deps) \subseteq content.deps
    BY <1>1 DEF Authored
<1> HIDE DEF Written
<1> QED BY <1>2, <1>3, SoundRowsWritten

LEMMA AnchoredRow ==
    ASSUME SoundRows, SoundCalls, NEW c \in Client, InstallAnchored(c)
    PROVE  \E new : /\ Written(up[Node(c).origin].name, new) /\ new.origin = Node(c).origin
                    /\ new.deps = FqnsOf(up[Node(c).origin].deps) \
                            (IF KindOf[Node(c).origin] = "skill" THEN {up[Node(c).origin].name} ELSE {})
                    /\ SoundRows'
<1> DEFINE o == Node(c).origin
           name == up[o].name
           new == Linked(Carried(Fresh(o, up[o]), name), name, up[o].deps)
<1>1. o \in Origin
    BY NodeFacts DEF InstallAnchored, Try, PlanNode
<1>2. /\ up[o] # Gone /\ KindOf[o] # "mcp" /\ ~TakenByAnother(name, o)
      /\ row' = [row EXCEPT ![name] = new] /\ up' = up
    BY DEF InstallAnchored, Fetched, Add
<1>3. /\ name \in Name /\ new \in Row
      /\ new.origin = o /\ new.version = up[o].version
      /\ new.deps = FqnsOf(up[o].deps) \ (IF KindOf[o] = "skill" THEN {name} ELSE {})
    BY <1>1, <1>2, FetchedRow
<1> HIDE DEF new
<1>4. /\ new.deps \subseteq Installed /\ OriginsOf(new.deps) \subseteq up[o].deps
    BY <1>3, FqnsIn DEF OriginsOf
<1>5. Written(name, new)
    BY <1>2, <1>3, <1>4 DEF Written
<1>6. up[o] \in Contents[o]
    BY <1>1, <1>2 DEF SoundRows
<1>7. SoundRows'
    BY <1>2, <1>3, <1>4, <1>5, <1>6, SoundRowsWritten
<1> QED BY <1>3, <1>5, <1>7

LEMMA McpRow ==
    ASSUME SoundRows, SoundCalls, NEW c \in Client, InstallMcp(c)
    PROVE  \E new : /\ Written(Node(c).name, new) /\ new.origin = Node(c).origin
                    /\ new.deps = {} /\ SoundRows'
<1> DEFINE o == Node(c).origin
           new == Fresh(o, [version |-> Node(c).version, prereqs |-> NoPrereqs])
<1>1. Node(c) \in PlanNode
    BY NodeFacts DEF InstallMcp, Try
<1>2. o \in Origin /\ Node(c).name \in Name /\ Node(c).version \in Version
    BY <1>1 DEF PlanNode
<1>3. /\ KindOf[o] = "mcp" /\ ~TakenByAnother(Node(c).name, o)
      /\ row' = [row EXCEPT ![Node(c).name] = new] /\ up' = up
    BY DEF InstallMcp, Add
<1>4. new \in Row /\ new.origin = o /\ new.deps = {} /\ new.prereqs = NoPrereqs
    BY <1>2, PrereqsAssumption DEF Fresh, Row
<1> HIDE DEF new
<1>5. Written(Node(c).name, new)
    BY <1>2, <1>3, <1>4 DEF Written
<1>6. SoundRows'
    BY <1>3, <1>4, <1>5, SoundRowsWritten
<1> QED BY <1>4, <1>5, <1>6

LEMMA SoundRowsNext ==
    ASSUME SoundRows, SoundCalls, [Next]_vars
    PROVE  SoundRows'
<1>1. CASE UNCHANGED <<up, row>>
    BY <1>1, SoundRowsUnchanged DEF SoundRows, RowsTyped
<1>2. ASSUME NEW o \in Origin, Publish(o) PROVE SoundRows'
    <2>1. /\ row' = row /\ up' \in [Origin -> Content \cup {Gone}]
          /\ \A p \in Origin : up'[p] \in Contents[p] \cup {Gone}
        BY <1>2, ContentsAssumption DEF Publish, SoundRows, RowsTyped
    <2> QED BY <2>1, SoundRowsUnchanged
<1>3. ASSUME NEW c \in Client, Apply(c) PROVE SoundRows'
    <2>1. CASE call[c].plan.old = None
        BY <1>1, <1>3, <2>1 DEF Apply
    <2>2. CASE call[c].plan.old # None
        BY <1>3, <2>2, RowRemoved DEF Apply
    <2> QED BY <2>1, <2>2
<1>4. ASSUME NEW c \in Client, InstallAnchored(c) PROVE SoundRows'
    BY <1>4, AnchoredRow
<1>5. ASSUME NEW c \in Client, InstallMcp(c) PROVE SoundRows'
    BY <1>5, McpRow
<1>6. ASSUME NEW n \in Name, Update(n) PROVE SoundRows'
    <2>1. PICK content \in Contents[row[n].origin] :
                content.name = n /\ row' = [row EXCEPT ![n] = Patched(n, content)]
        BY <1>6 DEF Update
    <2>2. n \in Installed /\ row[n] \in Row /\ row[n].origin \in Origin
          /\ up' = up /\ row[n] # None
        BY <1>6, InstalledRows DEF Update, SoundRows, Row, Installed
    <2>3. content \in Content
        BY <2>2, ContentsAssumption
    <2> DEFINE old == [row[n] EXCEPT !.version = content.version, !.prereqs = content.prereqs]
               new == Patched(n, content)
    <2>4. old \in Row /\ old.origin = row[n].origin /\ old.version = content.version
          /\ old.prereqs = content.prereqs
        BY <2>2, <2>3 DEF Row, Content
    <2>5. new = Linked(old, n, content.deps)
        BY DEF Patched
    <2> HIDE DEF old, new
    <2>6. FqnsOf(content.deps) \subseteq Installed /\ OriginsOf(FqnsOf(content.deps)) \subseteq content.deps
        BY FqnsIn
    <2>7. /\ new \in Row /\ new.origin = row[n].origin /\ new.version = content.version
          /\ new.prereqs = content.prereqs /\ new.deps \subseteq FqnsOf(content.deps)
        BY <2>4, <2>5, <2>6 DEF Linked, Row, Installed
    <2>8. OriginsOf(new.deps) \subseteq content.deps
        BY <2>6, <2>7 DEF OriginsOf
    <2>9. Written(n, new)
        BY <2>1, <2>2, <2>6, <2>7 DEF Written, TakenByAnother, new
    <2>10. KindOf[new.origin] = "mcp" => new.deps = {} /\ new.prereqs = NoPrereqs
        <3>1. KindOf[new.origin] = "mcp" => content.deps = {} /\ content.prereqs = NoPrereqs
            BY <2>2, <2>7, KindsAssumption
        <3> QED BY <2>7, <3>1 DEF FqnsOf
    <2> QED BY <2>1, <2>2, <2>7, <2>8, <2>9, <2>10, SoundRowsWritten
<1>7. ASSUME NEW n \in Name, Delete(n) PROVE SoundRows'
    BY <1>7, RowRemoved DEF Delete
<1>8. ASSUME NEW n \in Name, Acknowledge(n) PROVE SoundRows'
    <2> DEFINE new == [row[n] EXCEPT !.ack = TRUE]
    <2>1. n \in Installed /\ row[n] \in Row /\ row' = [row EXCEPT ![n] = new] /\ up' = up
        BY <1>8, InstalledRows DEF Acknowledge, SoundRows
    <2>2. /\ new \in Row /\ new.origin = row[n].origin /\ new.version = row[n].version
          /\ new.deps = row[n].deps /\ new.prereqs = row[n].prereqs
        BY <2>1 DEF Row
    <2> HIDE DEF new
    <2> QED BY <2>1, <2>2, SoundRowsFlagged
<1>9. ASSUME NEW n \in Name, SetUserDisabled(n) PROVE SoundRows'
    <2> DEFINE new == [row[n] EXCEPT !.off = ~@]
    <2>1. n \in Installed /\ row[n] \in Row /\ row' = [row EXCEPT ![n] = new] /\ up' = up
        BY <1>9, InstalledRows DEF SetUserDisabled, SoundRows
    <2>2. /\ new \in Row /\ new.origin = row[n].origin /\ new.version = row[n].version
          /\ new.deps = row[n].deps /\ new.prereqs = row[n].prereqs
        BY <2>1 DEF Row
    <2> HIDE DEF new
    <2> QED BY <2>1, <2>2, SoundRowsFlagged
<1> QED BY <1>1, <1>2, <1>3, <1>4, <1>5, <1>6, <1>7, <1>8, <1>9
        DEF Next, vars, Resolve, ResolveSync, Planned, PlanExpires, ApplyRefused, Skip, InstallFails, Return

-----------------------------------------------------------------------------
(* An agent that is taken for ready. *)

LEMMA ReadyByRows ==
    ASSUME SoundRows
    PROVE  ReadyIsAcknowledged
<1> SUFFICES ASSUME NEW n \in Agents, Launchable(n) \/ (ListedReady(n) /\ LocalIsAcyclic)
             PROVE  Acknowledged(n)
    BY DEF ReadyIsAcknowledged
<1>1. PICK S : n \in S /\ Clear(S)
    BY LaunchableIsClear, ListedIsClear DEF Agents, Installed
<1>2. /\ n \in S /\ S \subseteq Name /\ n \in Installed
      /\ \A m \in S : ~HasReason(m) /\ SkillDeps(m) \subseteq S
    BY <1>1 DEF Clear, Agents
<1>3. \A m \in S : ~row[m].off /\ (row[m].prereqs = NoPrereqs \/ row[m].ack)
    BY <1>2 DEF HasReason
<1> DEFINE Kind(m) == KindOf[row[m].origin]
           T == {m \in Name : m \in Installed => (Kind(m) = "skill" /\ m \in S) \/ Kind(m) = "mcp"}
           start == {d \in row[n].deps \cap Installed : Kind(d) # "agent"}
           refersTo == [m \in Name |-> IF m \in Installed THEN row[m].deps ELSE {}]
<1>4. \A m \in Installed : /\ m \in Name /\ row[m].origin \in Origin /\ Kind(m) \in {"skill", "agent", "mcp"}
                           /\ row[m].deps \subseteq Installed /\ Authored(m)
    BY KindOfAssumption, InstalledRows DEF SoundRows, NothingDangles, Row
<1>5. start \subseteq T
    <2>1. ASSUME NEW d \in start PROVE d \in T
        <3>1. Kind(d) = "skill" => d \in SkillDeps(n)
            BY DEF SkillDeps
        <3> QED BY <1>2, <1>4, <3>1
    <2> QED BY <2>1
<1>9. DOMAIN refersTo = Name
      /\ \A x \in Name : refersTo[x] = IF x \in Installed THEN row[x].deps ELSE {}
    OBVIOUS
<1>10. Below(start) = Reach(start, refersTo)
    BY DEF Below
<1> HIDE DEF refersTo
<1>6. ASSUME NEW x \in T PROVE refersTo[x] \subseteq T
    <2>1. CASE x \notin Installed
        BY <1>9, <2>1
    <2>2. CASE x \in Installed /\ Kind(x) = "mcp"
        BY <1>4, <1>9, <2>2 DEF Authored
    <2>3. CASE x \in Installed /\ Kind(x) = "skill" /\ x \in S
        <3>1. PICK content \in Contents[row[x].origin] : OriginsOf(row[x].deps) \subseteq content.deps
            BY <1>4, <2>3 DEF Authored
        <3>2. \A o \in content.deps : KindOf[o] # "agent"
            BY <1>4, <2>3, <3>1, KindsAssumption
        <3>3. ASSUME NEW d \in row[x].deps PROVE d \in T
            <4>1. d \in Installed /\ row[d].origin \in OriginsOf(row[x].deps)
                BY <1>4, <2>3 DEF OriginsOf
            <4>2. Kind(d) # "agent"
                BY <3>1, <3>2, <4>1
            <4>3. Kind(d) = "skill" => d \in SkillDeps(x)
                BY <4>1 DEF SkillDeps
            <4> QED BY <1>2, <1>4, <2>3, <4>1, <4>2, <4>3
        <3> QED BY <1>9, <2>3, <3>3
    <2> QED BY <2>1, <2>2, <2>3
<1>7. Below(start) \subseteq T
    <2>1. IsFiniteSet(DOMAIN refersTo)
        BY <1>9, FiniteAssumption
    <2> HIDE DEF T, start
    <2> QED BY <1>5, <1>6, <1>10, <2>1, ReachWithin
<1>8. ASSUME NEW d \in Resolved(n) PROVE row[d].prereqs = NoPrereqs \/ row[d].ack
    <2>1. d \in T /\ d \in Installed
        BY <1>7, <1>8 DEF Resolved, Installed
    <2>2. CASE Kind(d) = "mcp"
        BY <1>4, <2>1, <2>2 DEF Authored
    <2>3. CASE Kind(d) # "mcp"
        BY <1>3, <2>1, <2>3
    <2> QED BY <2>2, <2>3
<1> QED BY <1>2, <1>3, <1>8 DEF Acknowledged

-----------------------------------------------------------------------------
(* The requests. *)

\* q is what r becomes when it is done with an entry.
DoneWith(q, r, poisoned, failed) ==
    /\ q \in Requests /\ q.todo = Tail(r.todo) /\ q.at = r.at /\ q.plan = r.plan
    /\ q.failed = r.failed \cup failed /\ q.poisoned = r.poisoned \cup poisoned

LEMMA EntryDoneTyped ==
    ASSUME NEW r \in Requests, Tail(r.todo) \in Seq(PlanNode),
           NEW poisoned \in SUBSET Origin, NEW failed \in SUBSET Origin
    PROVE  DoneWith(EntryDone(r, poisoned, failed), r, poisoned, failed)
<1> DEFINE Todos == Seq(PlanNode)
           tail == Tail(r.todo)
           q == EntryDone(r, poisoned, failed)
<1>1. /\ Requests = [at : {"planned", "fetching", "done"}, plan : Plans, todo : Todos,
                     poisoned : SUBSET Origin, failed : SUBSET Origin]
      /\ tail \in Todos
    BY DEF Requests
<1>2. q = [r EXCEPT !.todo = tail, !.poisoned = r.poisoned \cup poisoned,
                    !.failed = r.failed \cup failed]
    BY DEF EntryDone
<1> HIDE DEF Todos, tail, q
<1>3. /\ q \in Requests /\ q.todo = tail /\ q.at = r.at /\ q.plan = r.plan
      /\ q.failed = r.failed \cup failed /\ q.poisoned = r.poisoned \cup poisoned
    BY <1>1, <1>2
<1> QED BY <1>3, Zenon DEF q, tail, DoneWith

LEMMA GoOnFacts ==
    ASSUME SoundCalls, NEW c \in Client, AtWork(c),
           NEW poisoned \in SUBSET Origin, NEW failed \in SUBSET Origin,
           call' = GoOn(c, poisoned, failed)
    PROVE  /\ call'[c] \in Requests /\ call'[c].at = "fetching" /\ call'[c].todo = Tail(call[c].todo)
           /\ call'[c].plan = call[c].plan /\ call'[c].failed = call[c].failed \cup failed
           /\ call'[c].poisoned = call[c].poisoned \cup poisoned
           /\ Behind(c)' = Behind(c) + 1
           /\ \A b \in Client \ {c} : call'[b] = call[b]
           /\ DOMAIN call' = Client
<1>1. call[c] \in Requests /\ call[c].at = "fetching"
      /\ call[c].plan.install \in Seq(PlanNode) /\ call[c].todo \in Seq(PlanNode)
    BY RequestFacts DEF AtWork
<1>2. call \in [Client -> {Idle} \cup Requests]
    BY DEF SoundCalls
<1> DEFINE q == EntryDone(call[c], poisoned, failed)
<1>3. q = call'[c] /\ DOMAIN call' = Client /\ \A b \in Client \ {c} : call'[b] = call[b]
    BY <1>2 DEF GoOn
<1>4. Tail(call[c].todo) \in Seq(PlanNode) /\ Len(Tail(call[c].todo)) = Len(call[c].todo) - 1
    BY NodeFacts
<1>5. /\ call'[c] \in Requests /\ call'[c].at = "fetching" /\ call'[c].todo = Tail(call[c].todo)
      /\ call'[c].plan = call[c].plan /\ call'[c].failed = call[c].failed \cup failed
      /\ call'[c].poisoned = call[c].poisoned \cup poisoned
    <2>1. DoneWith(q, call[c], poisoned, failed)
        BY <1>1, <1>4, EntryDoneTyped
    <2> HIDE DEF q
    <2> QED BY <1>1, <1>3, <2>1, Zenon DEF DoneWith
<1>6. Behind(c)' = Behind(c) + 1
    <2> DEFINE all == Len(call[c].plan.install)
               left == Len(call[c].todo)
               next == Len(Tail(call[c].todo))
    <2>1. all \in Nat /\ left \in Nat /\ next = left - 1
        <3>1. call[c].plan.install \in Seq(PlanNode) /\ call[c].todo \in Seq(PlanNode)
            BY <1>1
        <3>2. \A s \in Seq(PlanNode) : Len(s) \in Nat
            OBVIOUS
        <3> QED BY <1>4, <3>1, <3>2, Zenon
    <2>2. Behind(c)' = Len(call'[c].plan.install) - Len(call'[c].todo)
        BY DEF Behind
    <2>3. Behind(c)' = all - next
        BY <1>5, <2>2
    <2>4. Behind(c) = all - left
        BY DEF Behind
    <2> HIDE DEF all, left, next
    <2> QED BY <2>1, <2>3, <2>4
<1> HIDE DEF q
<1> QED BY <1>3, <1>5, <1>6

LEMMA ProgressGoesOn ==
    ASSUME SoundCalls, NEW c \in Client, AtWork(c),
           NEW poisoned \in SUBSET Origin, NEW failed \in SUBSET Origin,
           failed = {} => poisoned = {} \/ call[c].failed # {},
           call' = GoOn(c, poisoned, failed)
    PROVE  Progress(c)'
<1> DEFINE todo == call[c].todo
           install == call[c].plan.install
<1>1. /\ call'[c].at = "fetching" /\ call'[c].plan = call[c].plan /\ call'[c].todo = Tail(todo)
      /\ call'[c].failed = call[c].failed \cup failed
      /\ call'[c].poisoned = call[c].poisoned \cup poisoned
      /\ Behind(c)' = Behind(c) + 1
    BY GoOnFacts
<1>2. /\ Behind(c) \in Nat
      /\ \A i \in 1..Len(Tail(todo)) : Tail(todo)[i] = todo[i + 1]
      /\ Len(Tail(todo)) = Len(todo) - 1
    BY NodeFacts
<1>3. /\ \A i \in 1..Len(todo) : todo[i] = install[Behind(c) + i]
      /\ call[c].failed = {} => call[c].poisoned = {}
      /\ todo \in Seq(PlanNode)
    BY RequestFacts DEF AtWork, Progress
<1> HIDE DEF todo, install
<1>4. \A i \in 1..Len(Tail(todo)) : Tail(todo)[i] = install[(Behind(c) + 1) + i]
    <2> TAKE i \in 1..Len(Tail(todo))
    <2>1. Len(todo) \in Nat
        BY <1>3
    <2>2. i + 1 \in 1..Len(todo) /\ Behind(c) + (i + 1) = (Behind(c) + 1) + i
        BY <1>2, <2>1
    <2> QED BY <1>2, <1>3, <2>2
<1> QED BY <1>1, <1>2, <1>3, <1>4 DEF Progress, todo, install

MovedTo(q, r, at) ==
    /\ q \in Requests /\ q.at = at /\ q.todo = r.todo /\ q.plan = r.plan
    /\ q.failed = r.failed /\ q.poisoned = r.poisoned

LEMMA CallMoves ==
    ASSUME SoundCalls, NEW c \in Client, call[c].at # "idle", NEW at \in {"planned", "fetching", "done"},
           call' = [call EXCEPT ![c].at = at]
    PROVE  MovedTo(call'[c], call[c], at) /\ \A b \in Client \ {c} : call'[b] = call[b]
           /\ DOMAIN call' = Client
<1> DEFINE q == [call[c] EXCEPT !.at = at]
<1>1. call[c] \in Requests
    BY RequestFacts
<1>2. q = call'[c] /\ DOMAIN call' = Client /\ \A b \in Client \ {c} : call'[b] = call[b]
    BY DEF SoundCalls
<1>3. MovedTo(q, call[c], at)
    <2> DEFINE Todos == Seq(PlanNode)
               r == call[c]
    <2>1. Requests = [at : {"planned", "fetching", "done"}, plan : Plans, todo : Todos,
                      poisoned : SUBSET Origin, failed : SUBSET Origin]
        BY DEF Requests
    <2> HIDE DEF Todos, r
    <2>2. r \in Requests /\ q = [r EXCEPT !.at = at]
        BY <1>1 DEF r
    <2> HIDE DEF q
    <2>3. MovedTo(q, r, at)
        BY <2>1, <2>2 DEF MovedTo
    <2> QED BY <2>3 DEF r
<1> HIDE DEF q
<1> QED BY <1>2, <1>3, Zenon

LEMMA ProgressKept ==
    ASSUME NEW b, Progress(b), call'[b] = call[b]
    PROVE  Progress(b)' /\ Behind(b)' = Behind(b)
<1>1. Behind(b)' = Behind(b)
    BY DEF Behind
<1> QED BY <1>1 DEF Progress

LEMMA SoundCallsChanged ==
    ASSUME SoundCalls, NEW c \in Client, DOMAIN call' = Client, call' = [b \in Client |-> call'[b]],
           \A b \in Client \ {c} : call'[b] = call[b],
           \/ call'[c] = Idle
           \/ call'[c] \in Requests /\ Progress(c)',
           calm' \subseteq Client
    PROVE  SoundCalls'
<1>1. \A b \in Client : call'[b] \in {Idle} \cup Requests
    BY DEF SoundCalls
<1>2. call' \in [Client -> {Idle} \cup Requests]
    BY <1>1
<1>3. \A b \in Client : call'[b] # Idle => Progress(b)'
    <2> TAKE b \in Client
    <2>1. CASE b = c
        BY <2>1
    <2>2. CASE b # c
        BY <2>2, ProgressKept DEF SoundCalls
    <2> QED BY <2>1, <2>2
<1> QED BY <1>2, <1>3 DEF SoundCalls

LEMMA PlannedFacts ==
    ASSUME SoundCalls, NEW c \in Client, NEW plan \in Plans, Planned(c, plan)
    PROVE  /\ call'[c] = [at |-> "planned", plan |-> plan, todo |-> plan.install,
                          poisoned |-> {}, failed |-> {}]
           /\ call'[c] \in Requests /\ Progress(c)' /\ Behind(c)' = 0
           /\ \A b \in Client \ {c} : call'[b] = call[b]
           /\ SoundCalls'
<1> DEFINE q == [at |-> "planned", plan |-> plan, todo |-> plan.install,
                 poisoned |-> {}, failed |-> {}]
<1>1. /\ call'[c] = q /\ \A b \in Client \ {c} : call'[b] = call[b]
      /\ DOMAIN call' = Client /\ call' = [b \in Client |-> call'[b]]
    BY DEF Planned, SoundCalls
<1>2. plan.install \in Seq(PlanNode)
    BY DEF Plans
<1>3. q \in Requests
    <2> DEFINE Todos == Seq(PlanNode)
    <2>1. /\ Requests = [at : {"planned", "fetching", "done"}, plan : Plans, todo : Todos,
                         poisoned : SUBSET Origin, failed : SUBSET Origin]
          /\ plan.install \in Todos
        BY <1>2 DEF Requests
    <2> HIDE DEF Todos
    <2> QED BY <2>1
<1>4. Behind(c)' = Len(q.plan.install) - Len(q.todo)
    BY <1>1 DEF Behind
<1>5. Behind(c)' = 0
    <2>1. \A s \in Seq(PlanNode) : Len(s) \in Nat /\ Len(s) - Len(s) = 0
        OBVIOUS
    <2>2. Behind(c)' = Len(plan.install) - Len(plan.install)
        BY <1>4
    <2> QED BY <1>2, <2>1, <2>2
<1>6. Progress(c)'
    <2> DEFINE s == plan.install
    <2>1. /\ call'[c].todo = s /\ call'[c].plan.install = s /\ call'[c].at = "planned"
          /\ call'[c].failed = {} /\ call'[c].poisoned = {}
        BY <1>1
    <2>2. \A i \in 1..Len(s) : s[i] = s[0 + i]
        <3>1. \A i \in 1..Len(s) : 0 + i = i
            OBVIOUS
        <3> QED BY <3>1
    <2> HIDE DEF s
    <2> QED BY <1>5, <2>1, <2>2 DEF Progress
<1>7. calm' \subseteq Client
    BY DEF Planned, SoundCalls
<1>8. SoundCalls'
    <2> HIDE DEF q
    <2> QED BY <1>1, <1>3, <1>6, <1>7, SoundCallsChanged
<1> QED BY <1>1, <1>3, <1>5, <1>6, <1>8

LEMMA PlansMade ==
    ASSUME SoundRows
    PROVE  /\ \A o \in Origin : Plan(o, FALSE) \in Plans
           /\ \A n \in Installed : row[n].origin \in Origin /\ Plan(row[n].origin, TRUE) \in Plans
<1>1. \A n \in Installed : row[n].origin \in Origin
    BY InstalledRows DEF SoundRows, Row
<1> QED BY <1>1, PlanTyped DEF SoundRows

LEMMA GoOnSound ==
    ASSUME SoundCalls, NEW c \in Client, AtWork(c),
           NEW poisoned \in SUBSET Origin, NEW failed \in SUBSET Origin,
           failed = {} => poisoned = {} \/ call[c].failed # {},
           call' = GoOn(c, poisoned, failed), calm' \subseteq Client
    PROVE  SoundCalls'
<1>1. call' = [b \in Client |-> call'[b]]
    BY DEF GoOn, SoundCalls
<1> QED BY <1>1, GoOnFacts, ProgressGoesOn, SoundCallsChanged

LEMMA SoundCallsNext ==
    ASSUME SoundRows, SoundCalls, [Next]_vars
    PROVE  SoundCalls'
<1>1. CASE UNCHANGED call /\ calm' \subseteq Client
    <2>1. \A b \in Client : call[b] # Idle => Progress(b)'
        BY <1>1, ProgressKept DEF SoundCalls
    <2> QED BY <1>1, <2>1 DEF SoundCalls
<1>2. ASSUME NEW c \in Client, NEW plan \in Plans, Planned(c, plan) PROVE SoundCalls'
    BY <1>2, PlannedFacts
<1>3. ASSUME NEW c \in Client, call' = [call EXCEPT ![c] = Idle], calm' = calm PROVE SoundCalls'
    <2>1. call' = [b \in Client |-> call'[b]] /\ DOMAIN call' = Client /\ call'[c] = Idle
          /\ \A b \in Client \ {c} : call'[b] = call[b]
        BY <1>3 DEF SoundCalls
    <2>2. calm' \subseteq Client
        BY <1>3 DEF SoundCalls
    <2> QED BY <2>1, <2>2, SoundCallsChanged
<1>4. ASSUME NEW c \in Client, NEW at \in {"fetching", "done"}, call[c].at # "idle",
             call' = [call EXCEPT ![c].at = at], at = "done" => call[c].todo = <<>>,
             calm' \subseteq Client
      PROVE  SoundCalls'
    <2>1. MovedTo(call'[c], call[c], at) /\ \A b \in Client \ {c} : call'[b] = call[b]
          /\ DOMAIN call' = Client
        BY <1>4, CallMoves
    <2>2. call' = [b \in Client |-> call'[b]]
        BY <1>4 DEF SoundCalls
    <2>3. Progress(c)
        BY <1>4, RequestFacts
    <2>4. Behind(c)' = Behind(c)
        BY <2>1 DEF Behind, MovedTo
    <2>5. Progress(c)'
        BY <1>4, <2>1, <2>3, <2>4 DEF Progress, MovedTo
    <2>6. call'[c] \in Requests
        BY <2>1 DEF MovedTo
    <2> QED BY <1>4, <2>1, <2>2, <2>5, <2>6, SoundCallsChanged
<1>5. ASSUME NEW c \in Client, Apply(c) PROVE SoundCalls'
    <2>1. calm' \subseteq Client
        BY <1>5 DEF Apply, SoundCalls
    <2> QED BY <1>4, <1>5, <2>1 DEF Apply
<1>6. ASSUME NEW c \in Client, Skip(c) PROVE SoundCalls'
    <2>1. AtWork(c) /\ call[c].failed # {} /\ Node(c).origin \in Origin
        BY <1>6, NodeFacts, RequestFacts DEF Skip, AtWork, Progress, PlanNode
    <2>2. calm' \subseteq Client /\ call' = GoOn(c, {Node(c).origin}, {})
        BY <1>6 DEF Skip, SoundCalls
    <2>3. {Node(c).origin} \in SUBSET Origin /\ {} \in SUBSET Origin
        BY <2>1
    <2> QED BY <2>1, <2>2, <2>3, GoOnSound
<1>7. ASSUME NEW c \in Client, InstallAnchored(c) PROVE SoundCalls'
    BY <1>7, GoOnSound DEF InstallAnchored, Try, Add, SoundCalls
<1>8. ASSUME NEW c \in Client, InstallMcp(c) PROVE SoundCalls'
    BY <1>8, GoOnSound DEF InstallMcp, Try, Add, SoundCalls
<1>9. ASSUME NEW c \in Client, InstallFails(c) PROVE SoundCalls'
    <2>1. AtWork(c) /\ Node(c).origin \in Origin
        BY <1>9, NodeFacts DEF InstallFails, Try, PlanNode
    <2> QED BY <1>9, <2>1, GoOnSound DEF InstallFails, SoundCalls
<1>10. ASSUME NEW c \in Client, Return(c) PROVE SoundCalls'
    BY <1>4, <1>10 DEF Return, SoundCalls
<1>11. ASSUME NEW c \in Client, NEW o \in Origin, Resolve(c, o) PROVE SoundCalls'
    BY <1>2, <1>11, PlansMade DEF Resolve
<1>12. ASSUME NEW c \in Client, NEW n \in Name, ResolveSync(c, n) PROVE SoundCalls'
    BY <1>2, <1>12, PlansMade DEF ResolveSync
<1>13. ASSUME NEW c \in Client, PlanExpires(c) \/ ApplyRefused(c) PROVE SoundCalls'
    BY <1>3, <1>13 DEF PlanExpires, ApplyRefused
<1>14. CASE UNCHANGED vars
    BY <1>1, <1>14 DEF vars, SoundCalls
<1>15. ASSUME NEW o \in Origin, Publish(o) PROVE SoundCalls'
    BY <1>1, <1>15 DEF Publish
<1>16. ASSUME NEW n \in Name, Update(n) \/ Delete(n) \/ Acknowledge(n) \/ SetUserDisabled(n)
       PROVE  SoundCalls'
    BY <1>1, <1>16 DEF Update, Delete, Acknowledge, SetUserDisabled, SoundCalls
<1> QED BY <1>5, <1>6, <1>7, <1>8, <1>9, <1>10, <1>11, <1>12, <1>13, <1>14, <1>15, <1>16 DEF Next

-----------------------------------------------------------------------------
(* The plans that nothing overtakes. *)

\* The rows as far as names, origins and dependencies go.
SameRows ==
    /\ Installed' = Installed /\ up' = up
    /\ \A m \in Installed : row'[m].origin = row[m].origin /\ row'[m].deps = row[m].deps

LEMMA SameRowsFacts ==
    ASSUME SoundRows, SameRows
    PROVE  /\ \A o : At(o)' = At(o)
           /\ \A m \in Installed : OriginsOf(row[m].deps)' = OriginsOf(row[m].deps)
<1>1. \A o : At(o)' = At(o)
    BY DEF At, SameRows
<1>2. ASSUME NEW m \in Installed PROVE OriginsOf(row[m].deps)' = OriginsOf(row[m].deps)
    <2>1. OriginsOf(row[m].deps)' = {row'[x].origin : x \in row[m].deps \cap Installed}
        BY DEF OriginsOf, SameRows
    <2> QED BY <2>1 DEF OriginsOf, SameRows
<1> QED BY <1>1, <1>2

LEMMA KeptOn ==
    ASSUME SoundRows, SameRows, NEW b \in Client, Kept(b),
           call'[b].plan = call[b].plan, Behind(b)' = Behind(b)
    PROVE  Kept(b)'
<1>1. PICK plan : plan = call[b].plan
    OBVIOUS
<1>2. PICK k : k = Behind(b)
    OBVIOUS
<1>3. call'[b].plan = plan /\ Behind(b)' = k
    BY <1>1, <1>2
<1>4. /\ \A o : At(o)' = At(o)
      /\ \A m \in Installed : OriginsOf(row[m].deps)' = OriginsOf(row[m].deps)
    BY SameRowsFacts
<1>5. ASSUME plan.old = None PROVE Promised(b)'
    <2>1. Ordered(plan.install) /\ \A i \in 1..k : Complete(plan.install[i])
        BY <1>1, <1>2, <1>5 DEF Kept, Promised
    <2>2. Ordered(plan.install)'
        BY <1>4, <2>1 DEF Ordered, UpstreamNode, Before, SameRows
    <2>3. \A i \in 1..k : Complete(plan.install[i])'
        BY <1>4, <2>1 DEF Complete, SameRows
    <2> QED BY <1>3, <2>2, <2>3 DEF Promised, Ordered, Complete
<1>6. ASSUME NEW o \in plan.orphans PROVE Loosening(b, o)'
    <2>1. Loosening(b, o)
        BY <1>1, <1>6 DEF Kept
    <2> QED BY <1>1, <1>2, <1>3, <1>4, <2>1 DEF Loosening, SameRows, At
<1> QED BY <1>3, <1>5, <1>6 DEF Kept

\* The plan is as good as its closure when it is made.
LEMMA KeptAtFirst ==
    ASSUME SoundRows, NEW c \in Client, NEW root \in Origin, NEW sync \in BOOLEAN,
           sync => At(root) # {},
           NEW plan, plan = Plan(root, sync), ~plan.cyclic, plan.conflicts = {},
           SameRows, call'[c].plan = plan, Behind(c)' = 0
    PROVE  Kept(c)'
<1>1. RowsTyped /\ plan.root = root /\ plan.install \in Seq(PlanNode) /\ plan \in Plans
    <2>1. RowsTyped
        BY DEF SoundRows
    <2>2. plan \in Plans
        BY <2>1, PlanTyped
    <2>3. MadeOf(plan, root, sync, UpstreamClosure(root, sync))
        BY PlanFields
    <2>4. plan.root = root
        BY <2>3 DEF MadeOf
    <2> QED BY <2>1, <2>2, <2>4 DEF Plans
<1>2. /\ \A o : At(o)' = At(o)
      /\ \A m \in Installed : OriginsOf(row[m].deps)' = OriginsOf(row[m].deps)
    BY SameRowsFacts
<1>3. ASSUME plan.old = None PROVE Promised(c)'
    <2>1. Ordered(plan.install)
        BY <1>1, <1>3, PlanOrdered
    <2>2. Ordered(plan.install)'
        BY <1>2, <2>1 DEF Ordered, UpstreamNode, Before, SameRows
    <2>3. 1..0 = {}
        OBVIOUS
    <2> QED BY <2>2, <2>3 DEF Promised, Ordered
<1>4. ASSUME NEW o \in plan.orphans PROVE Loosening(c, o)'
    <2>1. /\ plan.old = None /\ KindOf[root] # "mcp" /\ o # root
          /\ \A i \in DOMAIN plan.install :
                plan.install[i].origin # o /\ o \notin plan.install[i].deps
          /\ \A m \in Installed : row[m].origin # root => o \notin OriginsOf(row[m].deps)
          /\ up[root] # Gone /\ up[root].name = NameAt(root) /\ o \notin up[root].deps
          /\ \/ \E i \in DOMAIN plan.install : plan.install[i].origin = root
             \/ row[NameAt(root)].version = up[root].version
        BY <1>1, <1>4, PlanOrphans
    <2>3. ASSUME \A m, n \in At(root) : m = n, NEW m \in At(root), o \in OriginsOf(row[m].deps)
          PROVE  \E i \in DOMAIN plan.install : plan.install[i].origin = root
        <3>1. m = NameAt(root) /\ m \in Installed /\ row[m].origin = root
            BY <2>3, NameAtIn DEF At
        <3>2. Authored(m) /\ up[root] \in Contents[root]
            BY <2>1, <3>1 DEF SoundRows
        <3>3. KindOf[root] # "mcp"
            BY <2>1
        <3>4. PICK content \in Contents[root] :
                /\ content.name = m /\ content.version = row[m].version
                /\ OriginsOf(row[m].deps) \subseteq content.deps
            BY <3>1, <3>2, <3>3 DEF Authored
        <3>5. row[m].version # up[root].version
            <4>1. ASSUME row[m].version = up[root].version PROVE content.deps = up[root].deps
                BY <2>1, <3>1, <3>2, <3>4, <4>1, VersionAssumption
            <4> QED BY <2>1, <2>3, <3>4, <4>1
        <3> QED BY <2>1, <3>1, <3>5
    <2>4. \A i \in DOMAIN plan.install : i > 0
        BY <1>1
    <2>5. (\A m, n \in At(root)' : m = n) =>
          \A m \in At(root)' : o \in OriginsOf(row[m].deps)' =>
                \E i \in DOMAIN plan.install : i > 0 /\ plan.install[i].origin = root
        <3>1. \A m \in At(root) : m \in Installed
            BY DEF At
        <3> QED BY <1>2, <2>3, <2>4, <3>1
    <2>6. \A m \in Installed' : row'[m].origin # root => o \notin OriginsOf(row[m].deps)'
        BY <1>2, <2>1 DEF SameRows
    <2>7. call'[c].plan = plan /\ plan.root = root /\ Behind(c)' = 0
        BY <1>1
    <2> QED BY <2>1, <2>5, <2>6, <2>7, Zenon DEF Loosening
<1> QED BY <1>3, <1>4 DEF Kept

\* The request writes the entry at hand.
WritesNode(c, name, new) ==
    /\ AtWork(c) /\ Written(name, new) /\ new.origin = Node(c).origin /\ up' = up
    /\ \/ /\ name = up[Node(c).origin].name
          /\ \E own \in SUBSET {name} : new.deps = FqnsOf(up[Node(c).origin].deps) \ own
       \/ KindOf[Node(c).origin] = "mcp" /\ name = Node(c).name /\ new.deps = {}

LEMMA NodeWritten ==
    ASSUME SoundRows, SoundCalls, NEW c \in Client, NEW name, NEW new, WritesNode(c, name, new),
           Ordered(call[c].plan.install)
    PROVE  /\ Node(c) = UpstreamNode(Node(c).origin) /\ name = Node(c).name
           /\ \E own \in SUBSET {name} : new.deps = FqnsOf(Node(c).deps) \ own
<1> DEFINE o == Node(c).origin
<1>1. /\ Node(c) \in PlanNode /\ Behind(c) + 1 \in DOMAIN call[c].plan.install
      /\ Node(c) = call[c].plan.install[Behind(c) + 1]
    BY NodeFacts DEF WritesNode
<1>2. up[o] # Gone /\ Node(c) = UpstreamNode(o)
    BY <1>1 DEF Ordered
<1>3. Node(c).name = up[o].name /\ Node(c).deps = up[o].deps
    BY <1>2 DEF UpstreamNode
<1>4. o \in Origin
    BY <1>1 DEF PlanNode
<1>5. CASE KindOf[o] = "mcp" /\ name = Node(c).name /\ new.deps = {}
    <2>1. up[o] \in Contents[o]
        BY <1>2, <1>4 DEF SoundRows
    <2>2. up[o].deps = {}
        BY <1>4, <1>5, <2>1, KindsAssumption
    <2>3. FqnsOf(Node(c).deps) = {}
        BY <1>3, <2>2 DEF FqnsOf
    <2>4. new.deps = FqnsOf(Node(c).deps) \ {}
        BY <1>5, <2>3
    <2>5. {} \in SUBSET {name}
        OBVIOUS
    <2> QED BY <1>2, <1>5, <2>4, <2>5
<1>6. CASE name = up[o].name /\ \E own \in SUBSET {name} : new.deps = FqnsOf(up[o].deps) \ own
    BY <1>2, <1>3, <1>6
<1> QED BY <1>5, <1>6 DEF WritesNode

LEMMA PromisedOn ==
    ASSUME SoundRows, SoundCalls, NEW c \in Client, NEW name, NEW new, WritesNode(c, name, new),
           Promised(c), call'[c].plan = call[c].plan, Behind(c)' = Behind(c) + 1
    PROVE  Promised(c)'
<1>1. PICK install : install = call[c].plan.install
    OBVIOUS
<1>2. PICK k : k = Behind(c)
    OBVIOUS
<1>3. PICK node : node = Node(c)
    OBVIOUS
<1>4. /\ node \in PlanNode /\ k \in Nat /\ k + 1 \in DOMAIN install /\ node = install[k + 1]
      /\ install \in Seq(PlanNode)
    BY <1>1, <1>2, <1>3, NodeFacts, RequestFacts DEF WritesNode, AtWork
<1>5. Ordered(install) /\ \A i \in 1..k : Complete(install[i])
    BY <1>1, <1>2 DEF Promised
<1>6. PICK own \in SUBSET {name} : new.deps = FqnsOf(node.deps) \ own
    BY <1>1, <1>3, <1>5, NodeWritten
<1>7. name = node.name /\ new.origin = node.origin /\ node = UpstreamNode(node.origin)
      /\ Written(name, new) /\ up' = up
    BY <1>1, <1>3, <1>5, NodeWritten DEF WritesNode
<1>8. /\ Installed' = Installed \cup {name}
      /\ row'[name] = new /\ \A m \in Installed \ {name} : row'[m] = row[m]
      /\ \A m \in Installed : row'[m].origin = row[m].origin
      /\ \A o : At(o)' = At(o) \cup (IF o = new.origin THEN {name} ELSE {})
    BY <1>7, RowWritten DEF SoundRows
<1>9. \A o : At(o) \subseteq At(o)'
    BY <1>8
<1>10. Ordered(install)'
    BY <1>5, <1>7, <1>9 DEF Ordered, UpstreamNode, Before
<1>11. \A d \in node.deps : At(d) # {}
    <2> TAKE d \in node.deps
    <2>1. At(d) # {} \/ Before(install, k + 1, d)
        BY <1>4, <1>5 DEF Ordered
    <2>2. ASSUME Before(install, k + 1, d) PROVE At(d) # {}
        <3>1. PICK j \in 1..k : install[j].origin = d
            BY <1>4, <2>2 DEF Before
        <3>2. install[j].name \in At(d)
            BY <1>5, <3>1 DEF Complete, At
        <3> QED BY <3>2
    <2> QED BY <2>1, <2>2
<1>12. Complete(node)'
    <2>1. ASSUME NEW d \in node.deps \ {node.origin}
          PROVE  At(d)' # {} /\ At(d)' \cap new.deps # {}
        <3>1. At(d) # {} /\ NameAt(d) \in At(d) /\ NameAt(d) \in Installed /\ row[NameAt(d)].origin = d
            BY <1>11, <2>1, NameAtIn
        <3>2. NameAt(d) \in FqnsOf(node.deps)
            BY <2>1, <3>1, FqnsIn
        <3>3. NameAt(d) # name
            BY <1>7, <1>8, <2>1, <3>1
        <3>4. NameAt(d) \in new.deps
            BY <1>6, <3>2, <3>3
        <3> QED BY <1>9, <3>1, <3>4
    <2>2. name \in Installed' /\ row'[name] = new
        BY <1>8
    <2> QED BY <1>7, <2>1, <2>2, Zenon DEF Complete
<1>13. ASSUME NEW i \in 1..k PROVE Complete(install[i])'
    <2>1. PICK n : n = install[i]
        OBVIOUS
    <2>2. /\ n.name \in Installed /\ row[n.name].origin = n.origin
          /\ \A d \in n.deps \ {n.origin} : At(d) # {} /\ At(d) \cap row[n.name].deps # {}
        BY <1>5, <1>13, <2>1 DEF Complete
    <2>3. CASE n.name = name
        <3>1. n.origin = node.origin
            BY <1>7, <1>8, <2>2, <2>3
        <3>2. i \in DOMAIN install
            BY <1>4
        <3>3. n = node
            BY <1>5, <1>7, <2>1, <3>1, <3>2 DEF Ordered
        <3> QED BY <1>12, <2>1, <3>3
    <2>4. CASE n.name # name
        <3>1. n.name \in Installed' /\ row'[n.name] = row[n.name]
            BY <1>8, <2>2, <2>4
        <3>2. \A d \in n.deps \ {n.origin} : At(d)' # {} /\ At(d)' \cap row'[n.name].deps # {}
            BY <1>9, <2>2, <3>1
        <3>3. Complete(n)'
            BY <2>2, <3>1, <3>2, Zenon DEF Complete
        <3> QED BY <2>1, <3>3
    <2> QED BY <2>3, <2>4
<1>14. \A i \in 1..(k + 1) : Complete(install[i])'
    BY <1>4, <1>12, <1>13
<1>15. call'[c].plan.install = install /\ Behind(c)' = k + 1
    BY <1>1, <1>2
<1> QED BY <1>10, <1>14, <1>15 DEF Promised, Ordered, Complete

LEMMA LooseningOn ==
    ASSUME SoundRows, SoundCalls, NEW c \in Client, NEW name, NEW new, WritesNode(c, name, new),
           Ordered(call[c].plan.install), NEW o, Loosening(c, o),
           call'[c].plan = call[c].plan, Behind(c)' = Behind(c) + 1
    PROVE  Loosening(c, o)'
<1>1. PICK plan : plan = call[c].plan
    OBVIOUS
<1>2. PICK k : k = Behind(c)
    OBVIOUS
<1>3. PICK node : node = Node(c)
    OBVIOUS
<1>4. /\ k \in Nat /\ k + 1 \in DOMAIN plan.install /\ node = plan.install[k + 1]
      /\ DOMAIN plan.install \subseteq Nat
    <2>1. plan.install \in Seq(PlanNode)
        BY <1>1, RequestFacts DEF WritesNode, AtWork
    <2> QED BY <1>1, <1>2, <1>3, <2>1, NodeFacts DEF WritesNode
<1>5. /\ plan.old = None /\ o # plan.root
      /\ \A i \in DOMAIN plan.install :
            plan.install[i].origin # o /\ o \notin plan.install[i].deps
      /\ \A m \in Installed : row[m].origin # plan.root => o \notin OriginsOf(row[m].deps)
      /\ (\A m, n \in At(plan.root) : m = n) =>
         \A m \in At(plan.root) : o \in OriginsOf(row[m].deps) =>
              \E i \in DOMAIN plan.install : i > k /\ plan.install[i].origin = plan.root
    BY <1>1, <1>2, Zenon DEF Loosening
<1>6. PICK own \in SUBSET {name} : new.deps = FqnsOf(node.deps) \ own
    BY <1>3, NodeWritten
<1>7. new.origin = node.origin /\ Written(name, new) /\ up' = up /\ new.deps \subseteq Installed
    BY <1>3 DEF WritesNode, Written
<1>8. /\ Installed' = Installed \cup {name}
      /\ row'[name] = new /\ \A m \in Installed \ {name} : row'[m] = row[m]
      /\ \A m \in Installed : row'[m].origin = row[m].origin
      /\ \A p : At(p)' = At(p) \cup (IF p = new.origin THEN {name} ELSE {})
    BY <1>7, RowWritten DEF SoundRows
\* What the rows refer to now.
<1>9. o \notin OriginsOf(row[name].deps)'
    <2>1. o \notin node.deps
        BY <1>4, <1>5
    <2>2. OriginsOf(FqnsOf(node.deps)) \subseteq node.deps
        BY FqnsIn
    <2>3. \A x \in new.deps : row[x].origin # o
        BY <1>6, <1>7, <2>1, <2>2 DEF OriginsOf
    <2>4. OriginsOf(row[name].deps)' = {row'[x].origin : x \in new.deps \cap Installed'}
        BY <1>8 DEF OriginsOf
    <2> QED BY <1>7, <1>8, <2>3, <2>4
<1>10. ASSUME NEW m \in Installed \ {name}, o \notin OriginsOf(row[m].deps)
       PROVE  o \notin OriginsOf(row[m].deps)'
    <2>1. row'[m].deps = row[m].deps /\ row[m].deps \subseteq Installed
        BY <1>8 DEF SoundRows, NothingDangles
    <2>2. \A x \in row[m].deps : row[x].origin # o
        BY <1>10, <2>1 DEF OriginsOf
    <2>3. OriginsOf(row[m].deps)' = {row'[x].origin : x \in row[m].deps \cap Installed'}
        BY <2>1 DEF OriginsOf
    <2> QED BY <1>8, <2>1, <2>2, <2>3
<1>11. ASSUME NEW m \in Installed', row'[m].origin # plan.root
       PROVE  o \notin OriginsOf(row[m].deps)'
    <2>1. CASE m = name
        BY <1>9, <2>1
    <2>2. CASE m # name
        BY <1>5, <1>8, <1>10, <1>11, <2>2
    <2> QED BY <2>1, <2>2
<1>12. ASSUME \A m, n \in At(plan.root)' : m = n,
              NEW m \in At(plan.root)', o \in OriginsOf(row[m].deps)'
       PROVE  \E i \in DOMAIN plan.install : i > k + 1 /\ plan.install[i].origin = plan.root
    <2>1. m # name
        BY <1>9, <1>12
    <2>2. m \in At(plan.root) /\ m \in Installed
        BY <1>8, <1>12, <2>1 DEF At
    <2>3. new.origin # plan.root
        BY <1>8, <1>12, <2>1, <2>2
    <2>4. \A x, y \in At(plan.root) : x = y
        BY <1>8, <1>12
    <2>5. o \in OriginsOf(row[m].deps)
        BY <1>10, <1>12, <2>1, <2>2
    <2>6. PICK i \in DOMAIN plan.install : i > k /\ plan.install[i].origin = plan.root
        BY <1>5, <2>2, <2>4, <2>5
    <2>7. i # k + 1
        BY <1>4, <1>7, <2>3, <2>6
    <2> QED BY <1>4, <2>6, <2>7
<1>13. call'[c].plan = plan /\ Behind(c)' = k + 1
    BY <1>1, <1>2
<1> QED BY <1>5, <1>11, <1>12, <1>13, Zenon DEF Loosening

LEMMA KeptWritten ==
    ASSUME SoundRows, SoundCalls, NEW c \in Client, NEW name, NEW new, WritesNode(c, name, new),
           Kept(c), call'[c].plan = call[c].plan, Behind(c)' = Behind(c) + 1
    PROVE  Kept(c)'
<1>1. PICK plan : plan = call[c].plan
    OBVIOUS
<1>2. ASSUME plan.old = None PROVE Promised(c)' /\ \A o \in plan.orphans : Loosening(c, o)'
    <2>1. Promised(c) /\ \A o \in plan.orphans : Loosening(c, o)
        BY <1>1, <1>2 DEF Kept
    <2>2. Ordered(call[c].plan.install)
        BY <2>1 DEF Promised
    <2> QED BY <1>1, <2>1, <2>2, PromisedOn, LooseningOn
<1>3. ASSUME plan.old # None PROVE plan.orphans = {}
    BY <1>1, <1>3 DEF Kept, Loosening
<1>4. call'[c].plan = plan
    BY <1>1
<1> QED BY <1>2, <1>3, <1>4 DEF Kept

LEMMA NobodyIsCalm ==
    ASSUME calm' = {}
    PROVE  \A b \in Client : ~Unhindered(b)'
    BY DEF Unhindered

LEMMA KeptNext ==
    ASSUME CatalogInv, [Next]_vars
    PROVE  \A b \in Client : Unhindered(b)' => Kept(b)'
<1> USE DEF CatalogInv
<1>1. ASSUME SameRows, NEW c \in Client, \A b \in Client \ {c} : call'[b] = call[b],
             calm' \subseteq calm \cup {c}, Unhindered(c)' => Kept(c)'
      PROVE  \A b \in Client : Unhindered(b)' => Kept(b)'
    <2>1. ASSUME NEW b \in Client, b # c, Unhindered(b)' PROVE Kept(b)'
        <3>1. call'[b] = call[b] /\ Unhindered(b)
            BY <1>1, <2>1 DEF Unhindered
        <3>2. Behind(b)' = Behind(b)
            BY <3>1 DEF Behind
        <3> QED BY <1>1, <3>1, <3>2, KeptOn
    <2> QED BY <1>1, <2>1
<1>2. ASSUME SameRows, call' = call, calm' = calm
      PROVE  \A b \in Client : Unhindered(b)' => Kept(b)'
    <2> SUFFICES ASSUME NEW b \in Client, Unhindered(b)' PROVE Kept(b)'
        OBVIOUS
    <2>1. call'[b] = call[b] /\ Unhindered(b)
        BY <1>2 DEF Unhindered
    <2>2. Behind(b)' = Behind(b)
        BY <2>1 DEF Behind
    <2> QED BY <1>2, <2>1, <2>2, KeptOn
<1>3. UNCHANGED <<up, row>> => SameRows
    BY DEF SameRows, Installed
<1>4. ASSUME NEW c \in Client, NEW root \in Origin, NEW sync \in BOOLEAN, sync => At(root) # {},
             Planned(c, Plan(root, sync))
      PROVE  \A b \in Client : Unhindered(b)' => Kept(b)'
    <2>1. PICK plan : plan = Plan(root, sync)
        OBVIOUS
    <2>2. plan \in Plans
        BY <2>1, PlanTyped DEF SoundRows
    <2>3. Planned(c, plan)
        BY <1>4, <2>1
    <2>4. /\ call'[c].plan = plan /\ Behind(c)' = 0 /\ \A b \in Client \ {c} : call'[b] = call[b]
        <3>1. call'[c] = [at |-> "planned", plan |-> plan, todo |-> plan.install,
                          poisoned |-> {}, failed |-> {}]
            BY <2>2, <2>3, PlannedFacts, Zenon
        <3>2. Behind(c)' = 0 /\ \A b \in Client \ {c} : call'[b] = call[b]
            BY <2>2, <2>3, PlannedFacts, Zenon
        <3> QED BY <3>1, <3>2
    <2>5. SameRows /\ calm' \subseteq calm \cup {c} /\ ~plan.cyclic
        BY <1>3, <2>3 DEF Planned
    <2>6. ASSUME Unhindered(c)' PROVE Kept(c)'
        <3>1. plan.conflicts = {}
            BY <2>4, <2>6 DEF Unhindered
        <3> QED BY <1>4, <2>1, <2>4, <2>5, <3>1, KeptAtFirst
    <2> QED BY <1>1, <2>4, <2>5, <2>6
<1>5. ASSUME NEW c \in Client, NEW at \in {"fetching", "done"}, call[c].at # "idle",
             call' = [call EXCEPT ![c].at = at], SameRows, calm' \subseteq calm
      PROVE  \A b \in Client : Unhindered(b)' => Kept(b)'
    <2>1. MovedTo(call'[c], call[c], at) /\ \A b \in Client \ {c} : call'[b] = call[b]
        BY <1>5, CallMoves
    <2>2. Behind(c)' = Behind(c) /\ call'[c].plan = call[c].plan /\ call'[c].failed = call[c].failed
        BY <2>1 DEF MovedTo, Behind
    <2>3. call[c] # Idle
        BY <1>5 DEF Idle
    <2>4. ASSUME Unhindered(c)' PROVE Kept(c)'
        <3>1. Unhindered(c)
            BY <1>5, <2>2, <2>3, <2>4 DEF Unhindered
        <3> QED BY <1>5, <2>2, <3>1, KeptOn
    <2> QED BY <1>1, <1>5, <2>1, <2>4
<1>6. ASSUME NEW c \in Client, Apply(c) PROVE \A b \in Client : Unhindered(b)' => Kept(b)'
    <2>1. CASE call[c].plan.old = None
        BY <1>3, <1>5, <1>6, <2>1 DEF Apply
    <2>2. CASE call[c].plan.old # None
        <3>1. /\ calm' = calm \cap {c} /\ call[c].at # "idle"
              /\ call' = [call EXCEPT ![c].at = "fetching"]
            BY <1>6, <2>2 DEF Apply
        <3>2. MovedTo(call'[c], call[c], "fetching")
            BY <3>1, CallMoves
        <3>3. call'[c].plan = call[c].plan /\ call'[c].failed = call[c].failed
            BY <3>2 DEF MovedTo
        <3>4. ASSUME NEW b \in Client, Unhindered(b)' PROVE b = c
            BY <3>1, <3>4 DEF Unhindered
        <3>5. ASSUME Unhindered(c)' PROVE Kept(c)'
            <4>1. Unhindered(c)
                BY <3>1, <3>3, <3>5 DEF Unhindered, Idle
            <4>2. \A o \in call[c].plan.orphans : call[c].plan.old = None
                BY <4>1 DEF Kept, Loosening
            <4> QED BY <2>2, <3>3, <4>2 DEF Kept
        <3> QED BY <3>4, <3>5
    <2> QED BY <2>1, <2>2
<1>7. ASSUME NEW c \in Client, AtWork(c), NEW name, NEW new, WritesNode(c, name, new),
             call' = GoOn(c, {}, {}), calm' = calm \cap {c}
      PROVE  \A b \in Client : Unhindered(b)' => Kept(b)'
    <2>1. /\ call'[c].plan = call[c].plan /\ call'[c].failed = call[c].failed \cup {}
          /\ Behind(c)' = Behind(c) + 1
        <3>1. {} \in SUBSET Origin
            OBVIOUS
        <3>2. call'[c].plan = call[c].plan
            BY <1>7, <3>1, GoOnFacts
        <3>3. call'[c].failed = call[c].failed \cup {}
            BY <1>7, <3>1, GoOnFacts
        <3>4. Behind(c)' = Behind(c) + 1
            BY <1>7, <3>1, GoOnFacts
        <3> QED BY <3>2, <3>3, <3>4
    <2>2. ASSUME NEW b \in Client, Unhindered(b)' PROVE b = c
        BY <1>7, <2>2 DEF Unhindered
    <2>3. call[c] # Idle
        BY <1>7 DEF AtWork, Idle
    <2>4. ASSUME Unhindered(c)' PROVE Kept(c)'
        <3>1. Unhindered(c)
            BY <1>7, <2>1, <2>3, <2>4 DEF Unhindered
        <3> QED BY <1>7, <2>1, <3>1, KeptWritten
    <2> QED BY <2>2, <2>4
<1>8. ASSUME NEW c \in Client, InstallAnchored(c)
      PROVE  \A b \in Client : Unhindered(b)' => Kept(b)'
    <2>1. PICK new : /\ Written(up[Node(c).origin].name, new) /\ new.origin = Node(c).origin
                     /\ new.deps = FqnsOf(up[Node(c).origin].deps) \
                          (IF KindOf[Node(c).origin] = "skill" THEN {up[Node(c).origin].name} ELSE {})
        BY <1>8, AnchoredRow
    <2>2. AtWork(c) /\ call' = GoOn(c, {}, {}) /\ calm' = calm \cap {c} /\ up' = up
        BY <1>8 DEF InstallAnchored, Try, Add
    <2>3. WritesNode(c, up[Node(c).origin].name, new)
        <3>1. (IF KindOf[Node(c).origin] = "skill" THEN {up[Node(c).origin].name} ELSE {})
                \in SUBSET {up[Node(c).origin].name}
            OBVIOUS
        <3> QED BY <2>1, <2>2, <3>1, Zenon DEF WritesNode
    <2> QED BY <1>7, <2>2, <2>3
<1>9. ASSUME NEW c \in Client, InstallMcp(c)
      PROVE  \A b \in Client : Unhindered(b)' => Kept(b)'
    <2>1. PICK new : Written(Node(c).name, new) /\ new.origin = Node(c).origin /\ new.deps = {}
        BY <1>9, McpRow
    <2>2. AtWork(c) /\ call' = GoOn(c, {}, {}) /\ calm' = calm \cap {c} /\ up' = up
          /\ KindOf[Node(c).origin] = "mcp"
        BY <1>9 DEF InstallMcp, Try, Add
    <2>3. WritesNode(c, Node(c).name, new)
        BY <2>1, <2>2, Zenon DEF WritesNode
    <2> QED BY <1>7, <2>2, <2>3
<1>10. ASSUME NEW c \in Client, Skip(c) \/ InstallFails(c)
       PROVE  \A b \in Client : Unhindered(b)' => Kept(b)'
    <2>1. /\ UNCHANGED <<up, row, calm>> /\ AtWork(c)
          /\ Node(c).origin \in Origin
        BY <1>10, NodeFacts DEF Skip, InstallFails, Try, PlanNode
    <2>2. /\ call'[c].failed # {} /\ \A b \in Client \ {c} : call'[b] = call[b]
        <3>1. CASE Skip(c)
            <4>1. call[c].failed # {}
                BY <2>1, <3>1, RequestFacts DEF Skip, AtWork, Progress
            <4>2. call' = GoOn(c, {Node(c).origin}, {}) /\ {Node(c).origin} \in SUBSET Origin
                  /\ {} \in SUBSET Origin
                BY <2>1, <3>1 DEF Skip
            <4> QED BY <2>1, <4>1, <4>2, GoOnFacts
        <3>2. CASE InstallFails(c)
            <4>1. call' = GoOn(c, {Node(c).origin}, {Node(c).origin})
                  /\ {Node(c).origin} \in SUBSET Origin
                BY <2>1, <3>2 DEF InstallFails
            <4> QED BY <2>1, <4>1, GoOnFacts
        <3> QED BY <1>10, <3>1, <3>2
    <2>3. ~Unhindered(c)'
        BY <2>2 DEF Unhindered
    <2> QED BY <1>1, <1>3, <2>1, <2>2, <2>3
<1>11. ASSUME NEW c \in Client, Return(c) PROVE \A b \in Client : Unhindered(b)' => Kept(b)'
    BY <1>3, <1>5, <1>11 DEF Return
<1>12. ASSUME NEW c \in Client, PlanExpires(c) \/ ApplyRefused(c)
       PROVE  \A b \in Client : Unhindered(b)' => Kept(b)'
    <2>1. /\ call' = [call EXCEPT ![c] = Idle] /\ UNCHANGED <<up, row, calm>>
        BY <1>12 DEF PlanExpires, ApplyRefused
    <2>2. call'[c] = Idle /\ \A b \in Client \ {c} : call'[b] = call[b]
        BY <2>1 DEF SoundCalls
    <2>3. ~Unhindered(c)'
        BY <2>2 DEF Unhindered, Idle
    <2> QED BY <1>1, <1>3, <2>1, <2>2, <2>3
<1>13. ASSUME NEW c \in Client, NEW o \in Origin, Resolve(c, o)
       PROVE  \A b \in Client : Unhindered(b)' => Kept(b)'
    BY <1>4, <1>13 DEF Resolve
<1>14. ASSUME NEW c \in Client, NEW n \in Name, ResolveSync(c, n)
       PROVE  \A b \in Client : Unhindered(b)' => Kept(b)'
    <2>1. n \in Installed /\ row[n].origin \in Origin /\ Planned(c, Plan(row[n].origin, TRUE))
        BY <1>14, PlansMade DEF ResolveSync
    <2>2. At(row[n].origin) # {}
        BY <2>1 DEF At
    <2> QED BY <1>4, <2>1, <2>2
<1>15. ASSUME NEW n \in Name, Acknowledge(n) \/ SetUserDisabled(n)
       PROVE  \A b \in Client : Unhindered(b)' => Kept(b)'
    <2>1. n \in Installed /\ row[n] \in Row /\ UNCHANGED <<up, call, calm>>
        BY <1>15, InstalledRows DEF Acknowledge, SetUserDisabled, SoundRows
    <2>2. \E new \in Row : /\ row' = [row EXCEPT ![n] = new]
                           /\ new.origin = row[n].origin /\ new.deps = row[n].deps
        <3>1. CASE Acknowledge(n)
            <4> DEFINE new == [row[n] EXCEPT !.ack = TRUE]
            <4>1. row' = [row EXCEPT ![n] = new]
                BY <3>1 DEF Acknowledge
            <4>2. new \in Row /\ new.origin = row[n].origin /\ new.deps = row[n].deps
                BY <2>1 DEF Row
            <4> HIDE DEF new
            <4> QED BY <4>1, <4>2
        <3>2. CASE SetUserDisabled(n)
            <4> DEFINE new == [row[n] EXCEPT !.off = ~@]
            <4>1. row' = [row EXCEPT ![n] = new]
                BY <3>2 DEF SetUserDisabled
            <4>2. new \in Row /\ new.origin = row[n].origin /\ new.deps = row[n].deps
                BY <2>1 DEF Row
            <4> HIDE DEF new
            <4> QED BY <4>1, <4>2
        <3> QED BY <1>15, <3>1, <3>2
    <2>3. SameRows
        <3>1. n \in Name /\ row \in [Name -> Row \cup {None}] /\ None \notin Row
            BY <2>1, AbsenceAssumption DEF Installed, SoundRows, RowsTyped
        <3> QED BY <2>1, <2>2, <3>1 DEF SameRows, Installed
    <2> QED BY <1>2, <2>1, <2>3
<1>16. ASSUME calm' = {} PROVE \A b \in Client : Unhindered(b)' => Kept(b)'
    BY <1>16, NobodyIsCalm
<1>17. ASSUME NEW o \in Origin, Publish(o) PROVE calm' = {}
    BY <1>17 DEF Publish
<1>18. ASSUME NEW n \in Name, Update(n) \/ Delete(n) PROVE calm' = {}
    BY <1>18 DEF Update, Delete
<1>19. CASE UNCHANGED vars
    BY <1>2, <1>3, <1>19 DEF vars
<1> QED BY <1>6, <1>8, <1>9, <1>10, <1>11, <1>12, <1>13, <1>14, <1>15, <1>16, <1>17, <1>18, <1>19 DEF Next

-----------------------------------------------------------------------------
(* The theorems. *)

LEMMA CatalogInvInit == Init => CatalogInv
<1> SUFFICES ASSUME Init PROVE CatalogInv
    OBVIOUS
<1>1. Installed = {}
    BY DEF Init, Installed
<1>2. /\ up \in [Origin -> Content \cup {Gone}]
      /\ \A o \in Origin : up[o] \in Contents[o] \cup {Gone}
    BY InitiallyAssumption, ContentsAssumption DEF Init
<1>3. SoundRows
    BY <1>1, <1>2 DEF Init, SoundRows, RowsTyped, NothingDangles
<1>4. SoundCalls
    BY DEF Init, SoundCalls
<1>5. \A c \in Client : ~Unhindered(c)
    BY DEF Init, Unhindered
<1> QED BY <1>3, <1>4, <1>5 DEF CatalogInv

LEMMA CatalogInvNext == CatalogInv /\ [Next]_vars => CatalogInv'
<1> SUFFICES ASSUME CatalogInv, [Next]_vars PROVE CatalogInv'
    OBVIOUS
<1>1. SoundRows'
    BY SoundRowsNext DEF CatalogInv
<1>2. SoundCalls'
    BY SoundCallsNext DEF CatalogInv
<1> QED BY <1>1, <1>2, KeptNext DEF CatalogInv

\* The rows and the requests are sound, and a plan that nothing overtakes
\* stays as good as it was (SoundRows, SoundCalls, Kept).
THEOREM CatalogIsSound == Spec => []CatalogInv
    BY CatalogInvInit, CatalogInvNext, PTL DEF Spec

\* A dependency names an entry that is installed, whatever is installed,
\* edited and deleted in between (repo.add, repo.delete).
THEOREM DependenciesAreInstalled == Spec => []NothingDangles
<1>1. CatalogInv => NothingDangles
    BY DEF CatalogInv, SoundRows
<1> QED BY <1>1, CatalogIsSound, PTL

\* An agent that a launch takes for ready runs with skills and MCPs that need no
\* acknowledgement or have it, over cycles too; one that the list calls ready
\* does where the rows have no cycle (computeWithDeps, resolveAgent).
THEOREM ReadyAgentsAreAcknowledged == Spec => []ReadyIsAcknowledged
<1>1. CatalogInv => ReadyIsAcknowledged
    BY ReadyByRows DEF CatalogInv
<1> QED BY <1>1, CatalogIsSound, PTL

LEMMA DoneFacts ==
    ASSUME CatalogInv, NEW c \in calm, call[c].at = "done", call[c].failed = {},
           call[c].plan.conflicts = {}
    PROVE  /\ c \in Client /\ Kept(c) /\ Behind(c) = Len(call[c].plan.install)
           /\ call[c].plan.install \in Seq(PlanNode)
<1>1. c \in Client /\ call[c] # Idle
    BY DEF CatalogInv, SoundCalls, Idle
<1>2. Kept(c)
    BY <1>1 DEF CatalogInv, Unhindered
<1>3. call[c].plan.install \in Seq(PlanNode) /\ call[c].todo = <<>>
    BY <1>1, RequestFacts DEF CatalogInv, Progress
<1>4. Behind(c) = Len(call[c].plan.install)
    <2>1. \A s \in Seq(PlanNode) : Len(s) - Len(<<>>) = Len(s)
        OBVIOUS
    <2> QED BY <1>3, <2>1 DEF Behind
<1> QED BY <1>1, <1>2, <1>3, <1>4

\* What an application without a failure wrote has all it depends on, in the
\* order of the plan (buildUpstreamClosure, executePlan, install).
THEOREM AppliedPlansAreComplete == Spec => []InstalledIsComplete
<1>1. ASSUME CatalogInv PROVE InstalledIsComplete
    <2> SUFFICES ASSUME NEW c \in calm, call[c].at = "done", call[c].failed = {},
                        call[c].plan.conflicts = {}, call[c].plan.old = None,
                        NEW i \in DOMAIN call[c].plan.install
                 PROVE  Complete(call[c].plan.install[i])
        BY DEF InstalledIsComplete, Complete, Installed
    <2>1. Promised(c) /\ Behind(c) = Len(call[c].plan.install)
          /\ call[c].plan.install \in Seq(PlanNode)
        BY <1>1, DoneFacts DEF Kept
    <2>2. i \in 1..Behind(c)
        BY <2>1
    <2> QED BY <2>1, <2>2 DEF Promised
<1> QED BY <1>1, CatalogIsSound, PTL

\* Nobody refers to what a sync without a failure called orphaned
\* (diffClosures, computeReverseDepIndex).
THEOREM FlaggedOrphansAreLoose == Spec => []OrphansAreLoose
<1>1. ASSUME CatalogInv PROVE OrphansAreLoose
    <2> SUFFICES ASSUME NEW c \in calm, call[c].at = "done", call[c].failed = {},
                        call[c].plan.conflicts = {},
                        \A m, n \in At(call[c].plan.root) : m = n,
                        NEW o \in call[c].plan.orphans, NEW n \in At(o),
                        NEW m \in Dependents(n)
                 PROVE  FALSE
        BY DEF OrphansAreLoose
    <2>1. /\ Loosening(c, o) /\ Behind(c) = Len(call[c].plan.install)
          /\ call[c].plan.install \in Seq(PlanNode)
        BY <1>1, DoneFacts DEF Kept
    <2>2. m \in Installed /\ o \in OriginsOf(row[m].deps)
        BY DEF Dependents, OriginsOf, At
    <2>3. m \in At(call[c].plan.root)
        BY <2>1, <2>2 DEF Loosening, At
    <2>4. PICK i \in DOMAIN call[c].plan.install : i > Behind(c)
        BY <2>1, <2>2, <2>3 DEF Loosening
    <2> QED BY <2>1, <2>4
<1> QED BY <1>1, CatalogIsSound, PTL
=============================================================================
