--------------------------- MODULE ReadSideProofs ---------------------------
(***************************************************************************)
(* Theorems about what readers get, for any filings, transactions, jobs,   *)
(* page sizes and length of a window: the materialized views (Views, with  *)
(* the query of ClusterBuys) keep up with the jobs, show each pair of      *)
(* insiders and no cluster twice; requests of several statements (Queries) *)
(* and the pages of the sales list (SalesPage) leave nothing out.          *)
(***************************************************************************)
EXTENDS Views, SalesPage, FiniteSetTheorems, SequenceTheorems, TLAPS

----------------------------------------------------------------------------
(* Sets                                                                    *)

\* Of the subsets of a finite set, those in Bad have one that is minimal.
LEMMA Minimal ==
    ASSUME NEW S, IsFiniteSet(S), NEW Bad \in SUBSET (SUBSET S), Bad # {}
    PROVE  \E s \in Bad : \A t \in Bad : t \subseteq s => t = s
<1>1. IsWellFoundedOn(StrictSubsetOrdering(S), SUBSET S)
    BY FS_StrictSubsetOrderingWellFounded, FS_FiniteSubsetsOfFinite
<1>2. PICK s \in Bad : \A t \in Bad : <<t, s>> \notin StrictSubsetOrdering(S)
    BY <1>1, WFMin
<1>3. QED
    BY <1>2 DEF StrictSubsetOrdering

LEMMA Least ==
    ASSUME NEW N \in SUBSET Nat, N # {}
    PROVE  \E n \in N : \A m \in N : n <= m
<1> DEFINE R == {ss \in Nat \X Nat : ss[1] < ss[2]}
<1>1. IsWellFoundedOn(R, Nat)
    BY NatLessThanWellFounded DEF OpToRel
<1>2. PICK n \in N : \A m \in N : <<m, n>> \notin R
    <2> HIDE DEF R
    <2>1. QED
        BY <1>1, WFMin, Zenon
<1>3. \A m \in N : n <= m
    <2>1. ASSUME NEW m \in N PROVE n <= m
        <3>1. <<m, n>> \in Nat \X Nat /\ <<m, n>> \notin R
            BY <1>2
        <3>2. QED
            BY <3>1
    <2>2. QED
        BY <2>1
<1>4. QED
    BY <1>3

----------------------------------------------------------------------------
(* The value of a window: the sum that MapThenSumSet computes recursively   *)

Total(S) == MapThenSumSet(LAMBDA p : p.value, S)
First(s) == CHOOSE x \in s : TRUE
SumsUp(g, S) ==
    g = [s \in SUBSET S |-> IF s = {} THEN 0 ELSE First(s).value + g[s \ {First(s)}]]

LEMMA TotalIsSum ==
    ASSUME NEW S, \E h : SumsUp(h, S)
    PROVE  \E g : SumsUp(g, S) /\ Total(S) = g[S]
<1>1. PICK g : g = CHOOSE iter : SumsUp(iter, S)
    OBVIOUS
<1>2. SumsUp(g, S)
    BY <1>1
<1>3. Total(S) = g[S]
    BY <1>1 DEF Total, MapThenSumSet, MapThenFoldSet, SumsUp, First
<1>4. QED
    BY <1>2, <1>3

LEMMA FirstIn == \A s : s # {} => First(s) \in s
BY DEF First

\* The sums of the subsets of a set do not depend on the set.
LEMMA SumsAgree ==
    ASSUME NEW S, IsFiniteSet(S), NEW s \in SUBSET S, NEW g, NEW h, SumsUp(g, S), SumsUp(h, s)
    PROVE  g[s] = h[s]
<1> DEFINE Bad == {t \in SUBSET s : g[t] # h[t]}
<1>1. CASE Bad = {}
    BY <1>1
<1>2. CASE Bad # {}
    <2>1. IsFiniteSet(s)
        BY FS_Subset
    <2>2. PICK t \in Bad : \A u \in Bad : u \subseteq t => u = t
        <3> HIDE DEF Bad
        <3>1. Bad \in SUBSET (SUBSET s)
            BY DEF Bad
        <3>2. QED
            BY <1>2, <2>1, <3>1, Minimal
    <2>3. t \in SUBSET s /\ t \in SUBSET S
        OBVIOUS
    <2>4. t # {}
        BY <2>2, <2>3 DEF SumsUp
    <2>5. First(t) \in t
        BY <2>4, FirstIn
    <2>6. g[t \ {First(t)}] = h[t \ {First(t)}]
        BY <2>2, <2>3, <2>5
    <2>7. g[t] = First(t).value + g[t \ {First(t)}]
        BY <2>3, <2>4 DEF SumsUp
    <2>8. h[t] = First(t).value + h[t \ {First(t)}]
        BY <2>3, <2>4 DEF SumsUp
    <2>9. QED
        BY <2>2, <2>6, <2>7, <2>8
<1>3. QED
    BY <1>1, <1>2

LEMMA SumsRestrict ==
    ASSUME NEW S, NEW s \in SUBSET S, NEW g, SumsUp(g, S)
    PROVE  SumsUp([t \in SUBSET s |-> g[t]], s)
<1> DEFINE h == [t \in SUBSET s |-> g[t]]
<1>1. ASSUME NEW t \in SUBSET s
      PROVE  h[t] = IF t = {} THEN 0 ELSE First(t).value + h[t \ {First(t)}]
    <2>1. t \in SUBSET S /\ t \ {First(t)} \in SUBSET s
        OBVIOUS
    <2>2. g[t] = IF t = {} THEN 0 ELSE First(t).value + g[t \ {First(t)}]
        BY <2>1 DEF SumsUp
    <2>3. QED
        BY <2>1, <2>2
<1>2. QED
    BY <1>1 DEF SumsUp

LEMMA TotalRecurs ==
    ASSUME NEW S, IsFiniteSet(S), \E h : SumsUp(h, S)
    PROVE  Total(S) = IF S = {} THEN 0 ELSE First(S).value + Total(S \ {First(S)})
<1>1. PICK g : SumsUp(g, S) /\ Total(S) = g[S]
    BY TotalIsSum
<1>2. g[S] = IF S = {} THEN 0 ELSE First(S).value + g[S \ {First(S)}]
    BY <1>1 DEF SumsUp
<1>3. PICK rest : rest = S \ {First(S)}
    OBVIOUS
<1>4. rest \in SUBSET S
    BY <1>3
<1>5. \E h : SumsUp(h, rest)
    BY <1>1, <1>4, SumsRestrict
<1>6. PICK h : SumsUp(h, rest) /\ Total(rest) = h[rest]
    BY <1>5, TotalIsSum
<1>7. g[rest] = h[rest]
    BY <1>1, <1>4, <1>6, SumsAgree
<1>8. QED
    BY <1>1, <1>2, <1>3, <1>6, <1>7

\* The recursion has a solution on every finite set.
LEMMA SumsExist ==
    ASSUME NEW S, IsFiniteSet(S)
    PROVE  \E g : SumsUp(g, S)
<1> DEFINE Bad == {s \in SUBSET S : ~\E g : SumsUp(g, s)}
<1>1. CASE Bad = {}
    BY <1>1
<1>2. CASE Bad # {}
    <2>1. PICK s \in Bad : \A u \in Bad : u \subseteq s => u = s
        <3> HIDE DEF Bad
        <3>1. Bad \in SUBSET (SUBSET S)
            BY DEF Bad
        <3>2. QED
            BY <1>2, <3>1, Minimal
    <2>2. ASSUME NEW u \in SUBSET s, u # s
          PROVE  Total(u) = IF u = {} THEN 0 ELSE First(u).value + Total(u \ {First(u)})
        <3>1. u \in SUBSET S /\ u \notin Bad
            BY <2>1, <2>2
        <3>2. IsFiniteSet(u) /\ \E g : SumsUp(g, u)
            BY <3>1, FS_Subset
        <3>3. QED
            BY <3>2, TotalRecurs
    <2>3. PICK g : g = [t \in SUBSET s |-> IF t = {} THEN 0 ELSE First(t).value + Total(t \ {First(t)})]
        OBVIOUS
    <2>4. ASSUME NEW t \in SUBSET s
          PROVE  g[t] = IF t = {} THEN 0 ELSE First(t).value + g[t \ {First(t)}]
        <3>1. CASE t = {}
            BY <2>3, <3>1
        <3>2. CASE t # {}
            <4>1. PICK u : u = t \ {First(t)}
                OBVIOUS
            <4>2. u \in SUBSET s /\ u # s
                BY <3>2, <4>1, FirstIn
            <4>3. g[u] = Total(u)
                BY <2>2, <2>3, <4>2
            <4>4. g[t] = First(t).value + Total(u)
                BY <2>3, <3>2, <4>1
            <4>5. QED
                BY <3>2, <4>1, <4>3, <4>4
        <3>3. QED
            BY <3>1, <3>2
    <2>5. SumsUp(g, s)
        BY <2>3, <2>4 DEF SumsUp
    <2>6. QED
        BY <2>1, <2>5
<1>3. QED
    BY <1>1, <1>2

LEMMA TotalStep ==
    ASSUME NEW S, IsFiniteSet(S)
    PROVE  Total(S) = IF S = {} THEN 0 ELSE First(S).value + Total(S \ {First(S)})
BY SumsExist, TotalRecurs

LEMMA TotalIsNat ==
    ASSUME NEW S, IsFiniteSet(S), \A t \in S : t.value \in Nat
    PROVE  Total(S) \in Nat
<1> DEFINE Bad == {s \in SUBSET S : Total(s) \notin Nat}
<1>1. CASE Bad = {}
    BY <1>1
<1>2. CASE Bad # {}
    <2>1. PICK s \in Bad : \A u \in Bad : u \subseteq s => u = s
        <3> HIDE DEF Bad
        <3>1. Bad \in SUBSET (SUBSET S)
            BY DEF Bad
        <3>2. QED
            BY <1>2, <3>1, Minimal
    <2>2. s \in SUBSET S /\ IsFiniteSet(s) /\ Total(s) \notin Nat
        BY <2>1, FS_Subset
    <2>3. s # {}
        BY <2>2, TotalStep
    <2>4. PICK rest : rest = s \ {First(s)}
        OBVIOUS
    <2>5. Total(rest) \in Nat
        <3>1. rest \in SUBSET S /\ rest \subseteq s /\ rest # s
            BY <2>2, <2>3, <2>4, FirstIn
        <3>2. QED
            BY <2>1, <3>1
    <2>6. First(s).value \in Nat
        BY <2>2, <2>3, FirstIn
    <2>7. Total(s) = First(s).value + Total(rest)
        BY <2>2, <2>3, <2>4, TotalStep
    <2>8. QED
        BY <2>2, <2>5, <2>6, <2>7
<1>3. QED
    BY <1>1, <1>2

\* The order of the summation does not matter.
LEMMA TotalRemove ==
    ASSUME NEW S, IsFiniteSet(S), \A t \in S : t.value \in Nat, NEW x \in S
    PROVE  Total(S) = x.value + Total(S \ {x})
<1> DEFINE Bad == {s \in SUBSET S : \E y \in s : Total(s) # y.value + Total(s \ {y})}
<1>1. CASE Bad = {}
    BY <1>1
<1>2. CASE Bad # {}
    <2>1. PICK s \in Bad : \A u \in Bad : u \subseteq s => u = s
        <3> HIDE DEF Bad
        <3>1. Bad \in SUBSET (SUBSET S)
            BY DEF Bad
        <3>2. QED
            BY <1>2, <3>1, Minimal
    <2>2. PICK y \in s : Total(s) # y.value + Total(s \ {y})
        BY <2>1
    <2>3. s \in SUBSET S /\ IsFiniteSet(s)
        BY <2>1, FS_Subset
    <2>4. PICK first : first = First(s)
        OBVIOUS
    <2>5. first \in s
        BY <2>2, <2>4, FirstIn
    <2>6. Total(s) = first.value + Total(s \ {first})
        BY <2>2, <2>3, <2>4, TotalStep
    <2>7. y # first
        BY <2>2, <2>6
    <2>8. Total(s \ {first}) = y.value + Total((s \ {first}) \ {y})
        <3>1. s \ {first} \in SUBSET S /\ s \ {first} \subseteq s /\ s \ {first} # s /\ y \in s \ {first}
            BY <2>2, <2>3, <2>5, <2>7
        <3>2. QED
            BY <2>1, <3>1
    <2>9. Total(s \ {y}) = first.value + Total((s \ {y}) \ {first})
        <3>1. s \ {y} \in SUBSET S /\ s \ {y} \subseteq s /\ s \ {y} # s /\ first \in s \ {y}
            BY <2>2, <2>3, <2>5, <2>7
        <3>2. QED
            BY <2>1, <3>1
    <2>10. PICK rest : rest = (s \ {y}) \ {first}
        OBVIOUS
    <2>11. (s \ {first}) \ {y} = rest
        BY <2>10
    <2>12. Total(rest) \in Nat
        <3>1. rest \in SUBSET S
            BY <2>3, <2>10
        <3>2. IsFiniteSet(rest) /\ \A t \in rest : t.value \in Nat
            BY <3>1, FS_Subset
        <3>3. QED
            BY <3>2, TotalIsNat
    <2>13. first.value \in Nat /\ y.value \in Nat
        BY <2>2, <2>3, <2>5
    <2>14. Total(s) = first.value + (y.value + Total(rest))
        BY <2>6, <2>8, <2>11
    <2>15. Total(s \ {y}) = first.value + Total(rest)
        BY <2>9, <2>10
    <2>16. QED
        BY <2>2, <2>12, <2>13, <2>14, <2>15
<1>3. QED
    BY <1>1, <1>2

\* Fewer purchases are worth less.
LEMMA TotalIsStrict ==
    ASSUME NEW S, IsFiniteSet(S), \A t \in S : t.value \in Nat \ {0}, NEW part \in SUBSET S, part # S
    PROVE  Total(part) < Total(S)
<1> DEFINE Bad == {s \in SUBSET S : part \subseteq s /\ part # s /\ ~(Total(part) < Total(s))}
<1>1. CASE Bad = {}
    BY <1>1
<1>2. CASE Bad # {}
    <2>1. PICK s \in Bad : \A u \in Bad : u \subseteq s => u = s
        <3> HIDE DEF Bad
        <3>1. Bad \in SUBSET (SUBSET S)
            BY DEF Bad
        <3>2. QED
            BY <1>2, <3>1, Minimal
    <2>2. PICK x \in s : x \notin part
        BY <2>1
    <2>3. PICK rest : rest = s \ {x}
        OBVIOUS
    <2>4. /\ s \in SUBSET S /\ rest \in SUBSET S /\ part \subseteq rest /\ rest # s /\ rest \subseteq s
          /\ \A t \in S : t.value \in Nat
        BY <2>1, <2>2, <2>3
    <2>5. Total(s) = x.value + Total(rest)
        <3>1. IsFiniteSet(s) /\ \A t \in s : t.value \in Nat
            BY <2>4, FS_Subset
        <3>2. QED
            BY <2>2, <2>3, <3>1, TotalRemove
    <2>6. Total(part) \in Nat /\ Total(rest) \in Nat /\ x.value \in Nat \ {0}
        <3>1. IsFiniteSet(rest) /\ IsFiniteSet(part)
            BY <2>4, FS_Subset
        <3>2. QED
            BY <2>2, <2>4, <3>1, TotalIsNat
    <2>7. part = rest \/ Total(part) < Total(rest)
        BY <2>1, <2>4
    <2>8. Total(part) < Total(s)
        BY <2>5, <2>6, <2>7
    <2>9. QED
        BY <2>1, <2>8
<1>3. QED
    BY <1>1, <1>2

----------------------------------------------------------------------------
(* The query of sec_cluster_buys                                            *)

Valued(T) == IsFiniteSet(T) /\ \A t \in T : t.value \in Nat /\ t.day \in Int \cup {NoDay}

LEMMA Bounds == MinValue \in Nat \ {0} /\ Span \in Nat
BY ViewsAssumption

LEMMA LastOfDays ==
    ASSUME NEW S \in SUBSET Int, NEW top \in Int, \A d \in S : d <= top, S # {}
    PROVE  Max(S) \in S /\ \A d \in S : d <= Max(S)
<1> DEFINE Left == {top - d : d \in S}
<1>1. Left \in SUBSET Nat /\ Left # {}
    <2>1. \A d \in S : top - d \in Nat
        OBVIOUS
    <2>2. QED
        BY <2>1
<1>2. PICK x \in Left : \A y \in Left : x <= y
    <2> HIDE DEF Left
    <2>1. QED
        BY <1>1, Least
<1>3. PICK last \in S : x = top - last
    OBVIOUS
<1>4. \A d \in S : d <= last
    <2>1. ASSUME NEW d \in S PROVE d <= last
        <3>1. top - last <= top - d
            BY <1>2, <1>3
        <3>2. QED
            BY <3>1
    <2>2. QED
        BY <2>1
<1>5. QED
    BY <1>4 DEF Max

\* What a window of the query has: it opens with a purchase and reaches to its last.
OpenedBy(T, w, p) ==
    /\ w = Window(T, p.ticker, p.day)
    /\ w.ticker = p.ticker /\ w.start = p.day
    /\ p \in Bought(T, w.ticker, w.start)
    /\ w.value = Total(Bought(T, w.ticker, w.start))
    /\ w.insiders = Cardinality({t.insider : t \in Bought(T, w.ticker, w.start)} \ {NoInsider})
    /\ w.end \in Int /\ w.end <= w.start + Span
    /\ \A q \in Bought(T, w.ticker, w.start) : q.day <= w.end
    /\ \E q \in Bought(T, w.ticker, w.start) : w.end = q.day

LEMMA WindowFacts ==
    ASSUME NEW T, Valued(T), NEW p \in Purchases(T), NEW w, w = Window(T, p.ticker, p.day)
    PROVE  OpenedBy(T, w, p)
<1>1. p.day \in Int
    BY DEF Valued, Purchases
<1> DEFINE bought == Bought(T, p.ticker, p.day)
           days == {q.day : q \in bought}
<1>2. /\ w.ticker = p.ticker /\ w.start = p.day /\ w.end = Max(days)
      /\ w.value = Total(bought)
      /\ w.insiders = Cardinality({t.insider : t \in bought} \ {NoInsider})
    BY DEF Window, Total
<1>3. p \in bought
    BY <1>1, Bounds DEF Bought
<1>4. /\ days \in SUBSET Int /\ days # {}
      /\ \A d \in days : d <= p.day + Span
    BY <1>3 DEF Bought, Valued, Purchases
<1>5. Max(days) \in days /\ \A d \in days : d <= Max(days)
    <2> HIDE DEF days
    <2>1. p.day + Span \in Int
        BY <1>1, Bounds
    <2>2. QED
        BY <1>4, <2>1, LastOfDays
<1>6. \E q \in bought : w.end = q.day
    BY <1>2, <1>5
<1>7. \A q \in bought : q.day <= w.end
    BY <1>2, <1>5
<1>8. w.end \in Int /\ w.end <= w.start + Span
    BY <1>2, <1>4, <1>5
<1>9. QED
    BY <1>2, <1>3, <1>6, <1>7, <1>8 DEF OpenedBy

LEMMA WindowsOpen ==
    ASSUME NEW T, Valued(T), NEW w \in Windows(T)
    PROVE  \E p \in Purchases(T) : OpenedBy(T, w, p)
<1>1. PICK p \in Purchases(T) : w = Window(T, p.ticker, p.day)
    BY DEF Windows
<1>2. QED
    BY <1>1, WindowFacts

LEMMA BoughtIsFinite ==
    ASSUME NEW T, Valued(T), NEW ticker, NEW start
    PROVE  /\ IsFiniteSet(Bought(T, ticker, start))
           /\ \A t \in Bought(T, ticker, start) : t \in Purchases(T) /\ t.value \in Nat \ {0} /\ t.day \in Int
<1>1. Bought(T, ticker, start) \in SUBSET T
    BY DEF Bought, Purchases
<1>2. IsFiniteSet(Bought(T, ticker, start))
    BY <1>1, FS_Subset DEF Valued
<1>3. \A t \in Bought(T, ticker, start) : t \in Purchases(T) /\ t.value \in Nat \ {0} /\ t.day \in Int
    BY Bounds DEF Bought, Purchases, Valued
<1>4. QED
    BY <1>2, <1>3

LEMMA TwoInsiders ==
    ASSUME NEW B, IsFiniteSet(B), NEW p \in B, NEW q \in B, p.insider # q.insider,
           NoInsider \notin {p.insider, q.insider}
    PROVE  /\ Cardinality({t.insider : t \in B} \ {NoInsider}) \in Nat
           /\ Cardinality({t.insider : t \in B} \ {NoInsider}) >= 2
<1>1. PICK all, insiders : all = {t.insider : t \in B} /\ insiders = all \ {NoInsider}
    OBVIOUS
<1>2. PICK by : by = [t \in B |-> t.insider]
    OBVIOUS
<1>3. by \in Surjection(B, all)
    BY <1>1, <1>2 DEF Surjection
<1>4. IsFiniteSet(insiders)
    BY <1>1, <1>3, FS_Surjection, FS_Subset
<1>5. PICK a, b : a = p.insider /\ b = q.insider
    OBVIOUS
<1>6. IsFiniteSet({a}) /\ Cardinality({a}) = 1
    BY FS_Singleton
<1>7. Cardinality({a} \cup {b}) = 2
    <2>1. b \notin {a}
        BY <1>5
    <2>2. PICK one : one = {a}
        OBVIOUS
    <2>3. Cardinality(one \cup {b}) = Cardinality(one) + 1
        BY <1>6, <2>1, <2>2, FS_AddElement
    <2>4. QED
        BY <1>6, <2>2, <2>3
<1>8. {a} \cup {b} \in SUBSET insiders
    BY <1>1, <1>5
<1>9. Cardinality({a} \cup {b}) <= Cardinality(insiders) /\ Cardinality(insiders) \in Nat
    BY <1>4, <1>8, FS_Subset, FS_CardinalityType
<1>10. QED
    BY <1>1, <1>7, <1>9

\* Of the windows that have both purchases the first is not suppressed: what would
\* suppress it opened earlier and, reaching as far, has both as well.
LEMMA PairsAreShown ==
    ASSUME NEW T, Valued(T), NEW p \in Purchases(T), NEW q \in Purchases(T),
           p.ticker = q.ticker, p.insider # q.insider, NoInsider \notin {p.insider, q.insider},
           p.day <= q.day, q.day <= p.day + Span
    PROVE  \E c \in Clusters(T) : {p, q} \subseteq Bought(T, c.ticker, c.start)
<1> DEFINE has(w) == {p, q} \subseteq Bought(T, w.ticker, w.start)
           Ages == {w.start - (q.day - Span) : w \in {v \in Windows(T) : has(v)}}
<1>1. p.day \in Int /\ q.day \in Int /\ Span \in Nat
    BY Bounds DEF Valued, Purchases
<1>2. PICK own : own = Window(T, p.ticker, p.day)
    OBVIOUS
<1>3. own \in Windows(T) /\ has(own)
    <2>1. /\ own.ticker = p.ticker /\ own.start = p.day
          /\ own.insiders = Cardinality({t.insider : t \in Bought(T, own.ticker, own.start)} \ {NoInsider})
        BY <1>2, WindowFacts DEF OpenedBy
    <2>2. has(own)
        BY <1>1, <2>1 DEF Bought
    <2>3. own.insiders \in Nat /\ own.insiders >= 2
        <3>1. IsFiniteSet(Bought(T, own.ticker, own.start))
            BY BoughtIsFinite
        <3>2. p \in Bought(T, own.ticker, own.start) /\ q \in Bought(T, own.ticker, own.start)
            BY <2>2
        <3>3. QED
            BY <2>1, <3>1, <3>2, TwoInsiders
    <2>4. own \in Windows(T)
        BY <1>2, <2>3 DEF Windows
    <2>5. QED
        BY <2>2, <2>4
<1>4. ASSUME NEW w \in Windows(T)
      PROVE  w.start \in Int
    <2>1. PICK o \in Purchases(T) : OpenedBy(T, w, o)
        BY WindowsOpen
    <2>2. w.start = o.day
        BY <2>1 DEF OpenedBy
    <2>3. QED
        BY <2>2 DEF Valued, Purchases
<1>5. Ages \in SUBSET Nat /\ Ages # {}
    <2>1. ASSUME NEW w \in Windows(T), has(w)
          PROVE  w.start - (q.day - Span) \in Nat
        <3>1. q.day <= w.start + Span
            BY <2>1 DEF Bought
        <3>2. QED
            BY <1>1, <1>4, <3>1
    <2>2. QED
        BY <1>3, <2>1
<1>6. PICK age \in Ages : \A other \in Ages : age <= other
    <2> HIDE DEF Ages
    <2>1. QED
        BY <1>5, Least
<1>7. PICK c \in Windows(T) : has(c) /\ age = c.start - (q.day - Span)
    BY <1>6
<1>8. ASSUME NEW outer \in Windows(T), Suppresses(outer, c)
      PROVE  FALSE
    <2>1. outer.ticker = c.ticker /\ outer.end >= c.end /\ outer.start < c.start
        BY <1>8 DEF Suppresses
    <2>2. PICK o \in Purchases(T) : OpenedBy(T, outer, o)
        BY WindowsOpen
    <2>3. outer.end \in Int /\ outer.end <= outer.start + Span
        BY <2>2 DEF OpenedBy
    <2>4. PICK f \in Purchases(T) : OpenedBy(T, c, f)
        BY WindowsOpen
    <2>5. c.end \in Int /\ p.day <= c.end /\ q.day <= c.end
        BY <1>7, <2>4 DEF OpenedBy
    <2>6. c.start <= p.day /\ c.start <= q.day /\ p.ticker = c.ticker
        BY <1>7 DEF Bought
    <2>7. outer.start \in Int /\ c.start \in Int
        BY <1>4
    <2>8. has(outer)
        BY <1>1, <2>1, <2>3, <2>5, <2>6, <2>7 DEF Bought
    <2>9. age <= outer.start - (q.day - Span)
        BY <1>6, <2>8
    <2>10. QED
        BY <1>1, <1>7, <2>1, <2>7, <2>9
<1>9. c \in Clusters(T)
    BY <1>7, <1>8 DEF Clusters
<1>10. QED
    BY <1>7, <1>9

\* A window that lies in another opened later, with fewer purchases, so the other
\* has a larger value and suppresses it.
LEMMA ContainedIsSuppressed ==
    ASSUME NEW T, Valued(T), NEW c \in Windows(T), NEW d \in Windows(T), c # d,
           Bought(T, c.ticker, c.start) \subseteq Bought(T, d.ticker, d.start)
    PROVE  Suppresses(d, c)
<1>1. PICK inner, outer : inner = Bought(T, c.ticker, c.start) /\ outer = Bought(T, d.ticker, d.start)
    OBVIOUS
<1>2. PICK p \in Purchases(T) : OpenedBy(T, c, p)
    BY WindowsOpen
<1>3. PICK q \in Purchases(T) : OpenedBy(T, d, q)
    BY WindowsOpen
<1>4. /\ p \in inner /\ c = Window(T, p.ticker, p.day)
      /\ c.ticker = p.ticker /\ c.start = p.day /\ c.value = Total(inner)
      /\ c.end \in Int /\ \E t \in inner : c.end = t.day
    BY <1>1, <1>2 DEF OpenedBy
<1>5. /\ q \in outer /\ d = Window(T, q.ticker, q.day)
      /\ d.ticker = q.ticker /\ d.start = q.day /\ d.value = Total(outer)
      /\ d.end \in Int /\ \A t \in outer : t.day <= d.end
    BY <1>1, <1>3 DEF OpenedBy
<1>6. inner \subseteq outer
    BY <1>1
<1>7. d.ticker = c.ticker /\ d.start <= c.start
    BY <1>1, <1>2, <1>4, <1>6 DEF Bought
<1>8. d.end >= c.end
    BY <1>4, <1>5, <1>6
<1>9. c.start \in Int /\ d.start \in Int
    BY <1>4, <1>5 DEF Valued, Purchases
<1>10. d.start # c.start
    BY <1>4, <1>5, <1>7
<1>11. d.start < c.start
    BY <1>7, <1>9, <1>10
<1>12. q \notin inner
    BY <1>1, <1>5, <1>9, <1>11 DEF Bought
<1>13. Total(inner) < Total(outer) /\ Total(inner) \in Nat /\ Total(outer) \in Nat
    <2>1. IsFiniteSet(outer) /\ \A t \in outer : t.value \in Nat \ {0}
        BY <1>1, BoughtIsFinite
    <2>2. IsFiniteSet(inner) /\ \A t \in inner : t.value \in Nat \ {0}
        BY <1>1, BoughtIsFinite
    <2>3. inner \in SUBSET outer /\ inner # outer
        BY <1>5, <1>6, <1>12
    <2>4. Total(inner) < Total(outer)
        BY <2>1, <2>3, TotalIsStrict
    <2>5. QED
        BY <2>1, <2>2, <2>4, TotalIsNat
<1>14. d.value > c.value
    BY <1>4, <1>5, <1>13
<1>15. QED
    BY <1>7, <1>8, <1>11, <1>14 DEF Suppresses

----------------------------------------------------------------------------
(* The refreshes of the views                                              *)

ViewStates == {"missing", "empty", "filled"}
JobPlaces == {"idle", "concurrent", "normal", "refreshed", "raised"}

ViewsTypeInv ==
    /\ stored \in SUBSET Transactions
    /\ commits \in Nat
    /\ view \in [View -> ViewStates]
    /\ basis \in [View -> SUBSET Transactions]
    /\ pc \in [Jobs -> JobPlaces]
    /\ next \in [Jobs -> DOMAIN ViewNames]
    /\ owed \in [Jobs -> SUBSET Transactions]
    /\ barred \in [Jobs -> SUBSET Transactions]

\* What is stored is what each job must show and may show.
StoredInv == \A j \in Jobs : owed[j] \subseteq stored /\ stored \cap barred[j] = {}

\* The view is as this job must leave it.
Fresh(j, v) == owed[j] \subseteq basis[v] /\ basis[v] \cap barred[j] = {}

\* A refresh begins with the first view, and has left those before the one it has
\* come to as it must.
RefreshInv ==
    \A j \in Jobs :
        /\ pc[j] \notin {"concurrent", "normal"} => next[j] = 1
        /\ pc[j] \in {"concurrent", "normal"} =>
              \A i \in DOMAIN ViewNames : i < next[j] => Fresh(j, ViewNames[i])

ViewsInv == ViewsTypeInv /\ StoredInv /\ RefreshInv /\ NothingStale

LEMMA ViewNamesFacts ==
    /\ DOMAIN ViewNames = 1 .. 2 /\ Len(ViewNames) = 2
    /\ ViewNames[1] = "sec_cluster_buys" /\ ViewNames[2] = "sec_ingestion_summary"
    /\ View = {"sec_cluster_buys", "sec_ingestion_summary"}
<1>1. DOMAIN ViewNames = 1 .. 2 /\ Len(ViewNames) = 2
      /\ ViewNames[1] = "sec_cluster_buys" /\ ViewNames[2] = "sec_ingestion_summary"
    BY DEF ViewNames
<1>2. DOMAIN ViewNames = {1, 2}
    BY <1>1
<1>3. QED
    BY <1>1, <1>2 DEF View

LEMMA ViewsInitInv == ViewsInit => ViewsInv
BY ViewNamesFacts DEF Fresh, ViewsInit, ViewsInv, ViewsTypeInv, StoredInv, RefreshInv, NothingStale, ViewStates, JobPlaces

LEMMA BootKeepsInv == ViewsInv /\ Boot => ViewsInv'
BY ViewNamesFacts DEF Fresh, ViewsInv, Boot, ViewsTypeInv, StoredInv, RefreshInv, NothingStale, ViewStates, JobPlaces

\* What a view must show becomes less by a commit, and what it may show more.
LEMMA CommitKeepsInv ==
    ASSUME ViewsInv, NEW rows \in SUBSET Transactions, Commit(rows)
    PROVE  ViewsInv'
<1>1. /\ UNCHANGED <<view, basis, pc, next>>
      /\ stored' = rows /\ commits' \in Nat
      /\ \A j \in Jobs : owed'[j] = owed[j] \cap rows /\ barred'[j] = barred[j] \ rows
      /\ owed' \in [Jobs -> SUBSET Transactions] /\ barred' \in [Jobs -> SUBSET Transactions]
    BY DEF Commit, ViewsInv, ViewsTypeInv
<1>2. \A j \in Jobs, v \in View : Fresh(j, v) => Fresh(j, v)'
    BY <1>1 DEF Fresh
<1>3. ViewsTypeInv' /\ StoredInv'
    BY <1>1 DEF ViewsInv, ViewsTypeInv, StoredInv
<1>4. RefreshInv'
    BY <1>1, <1>2, ViewNamesFacts DEF ViewsInv, RefreshInv
<1>5. NothingStale'
    BY <1>1, <1>2 DEF ViewsInv, NothingStale, Fresh
<1>6. QED
    BY <1>3, <1>4, <1>5 DEF ViewsInv

LEMMA StoreKeepsInv == ViewsInv /\ (Store \/ Lose) => ViewsInv'
BY CommitKeepsInv DEF ViewsInv, ViewsTypeInv, Store, Lose

LEMMA StartRefreshKeepsInv ==
    ASSUME ViewsInv, NEW j \in Jobs, StartRefresh(j)
    PROVE  ViewsInv'
<1>1. /\ pc[j] \in {"idle", "refreshed", "raised"}
      /\ pc' = [pc EXCEPT ![j] = "concurrent"]
      /\ owed' = [owed EXCEPT ![j] = stored]
      /\ barred' = [barred EXCEPT ![j] = Transactions \ stored]
      /\ UNCHANGED <<stored, commits, view, basis, next>>
    BY DEF StartRefresh
<1>2. ViewsTypeInv' /\ StoredInv'
    BY <1>1 DEF ViewsInv, ViewsTypeInv, StoredInv, JobPlaces
<1>3. \A k \in Jobs \ {j} : pc'[k] = pc[k] /\ \A v \in View : Fresh(k, v)' = Fresh(k, v)
    BY <1>1 DEF ViewsInv, ViewsTypeInv, Fresh
<1>4. RefreshInv'
    BY <1>1, <1>3, ViewNamesFacts DEF ViewsInv, ViewsTypeInv, RefreshInv
<1>5. NothingStale'
    BY <1>1, <1>3 DEF ViewsInv, ViewsTypeInv, NothingStale, Fresh
<1>6. QED
    BY <1>2, <1>4, <1>5 DEF ViewsInv

\* A view that is refreshed is as every job must leave it.
LEMMA RefreshedKeepsInv ==
    ASSUME ViewsInv, NEW j \in Jobs, pc[j] \in {"concurrent", "normal"}, Refreshed(j),
           UNCHANGED <<stored, commits, owed, barred>>
    PROVE  ViewsInv'
<1>1. PICK v : v = ViewNames[next[j]] /\ v \in View
    BY ViewNamesFacts DEF ViewsInv, ViewsTypeInv
<1>2. /\ basis' = [basis EXCEPT ![v] = stored]
      /\ view' = [view EXCEPT ![v] = "filled"]
    BY <1>1 DEF Refreshed
<1>3. \A k \in Jobs : Fresh(k, v)' /\ \A u \in View : Fresh(k, u) => Fresh(k, u)'
    BY <1>1, <1>2 DEF ViewsInv, ViewsTypeInv, StoredInv, Fresh
<1>4. basis' \in [View -> SUBSET Transactions] /\ view' \in [View -> ViewStates]
    BY <1>2 DEF ViewsInv, ViewsTypeInv, ViewStates
<1>5. StoredInv'
    BY DEF ViewsInv, StoredInv
<1>6. CASE next[j] = 1
    <2>1. /\ pc' = [pc EXCEPT ![j] = "concurrent"]
          /\ next' = [next EXCEPT ![j] = 2]
        BY <1>6, ViewNamesFacts DEF Refreshed
    <2>2. ViewsTypeInv'
        BY <1>4, <2>1, ViewNamesFacts DEF ViewsInv, ViewsTypeInv, JobPlaces
    <2>3. RefreshInv'
        BY <1>1, <1>3, <1>6, <2>1, ViewNamesFacts DEF ViewsInv, ViewsTypeInv, RefreshInv
    <2>4. NothingStale'
        BY <1>3, <2>1 DEF ViewsInv, ViewsTypeInv, NothingStale, Fresh
    <2>5. QED
        BY <1>5, <2>2, <2>3, <2>4 DEF ViewsInv
<1>7. CASE next[j] = 2
    <2>1. /\ pc' = [pc EXCEPT ![j] = "refreshed"]
          /\ next' = [next EXCEPT ![j] = 1]
        BY <1>7, ViewNamesFacts DEF Refreshed, Leave
    <2>2. ViewsTypeInv'
        BY <1>4, <2>1, ViewNamesFacts DEF ViewsInv, ViewsTypeInv, JobPlaces
    <2>3. RefreshInv'
        BY <1>3, <2>1, ViewNamesFacts DEF ViewsInv, ViewsTypeInv, RefreshInv
    <2>4. Fresh(j, "sec_cluster_buys")
        BY <1>7, ViewNamesFacts DEF ViewsInv, RefreshInv
    <2>5. \A u \in View : Fresh(j, u)'
        BY <1>1, <1>3, <1>7, <2>4, ViewNamesFacts
    <2>6. NothingStale'
        BY <1>3, <2>1, <2>5 DEF ViewsInv, ViewsTypeInv, NothingStale, Fresh
    <2>7. QED
        BY <1>5, <2>2, <2>3, <2>6 DEF ViewsInv
<1>8. QED
    BY <1>6, <1>7, ViewNamesFacts DEF ViewsInv, ViewsTypeInv

LEMMA ConcurrentKeepsInv ==
    ASSUME ViewsInv, NEW j \in Jobs, RefreshConcurrently(j)
    PROVE  ViewsInv'
<1>1. pc[j] = "concurrent" /\ UNCHANGED <<stored, commits, owed, barred>>
    BY DEF RefreshConcurrently
<1>2. CASE Refreshed(j)
    BY <1>1, <1>2, RefreshedKeepsInv
<1>3. CASE pc' = [pc EXCEPT ![j] = "normal"] /\ UNCHANGED <<view, basis, next>>
    BY <1>1, <1>3 DEF Fresh, ViewsInv, ViewsTypeInv, StoredInv, RefreshInv, NothingStale, JobPlaces
<1>4. QED
    BY <1>2, <1>3 DEF RefreshConcurrently

LEMMA NormalKeepsInv ==
    ASSUME ViewsInv, NEW j \in Jobs, RefreshNormally(j)
    PROVE  ViewsInv'
<1>1. pc[j] = "normal" /\ UNCHANGED <<stored, commits, owed, barred>>
    BY DEF RefreshNormally
<1>2. CASE Refreshed(j)
    BY <1>1, <1>2, RefreshedKeepsInv
<1>3. CASE Leave(j, "raised") /\ UNCHANGED <<view, basis>>
    BY <1>1, <1>3, ViewNamesFacts DEF Fresh, Leave, ViewsInv, ViewsTypeInv, StoredInv, RefreshInv, NothingStale, JobPlaces
<1>4. QED
    BY <1>2, <1>3 DEF RefreshNormally

LEMMA ViewsStutterKeepsInv == ViewsInv /\ UNCHANGED viewVars => ViewsInv'
BY DEF Fresh, viewVars, ViewsInv, ViewsTypeInv, StoredInv, RefreshInv, NothingStale

LEMMA ViewsStepKeepsInv == ViewsInv /\ [ViewsNext]_viewVars => ViewsInv'
BY BootKeepsInv, StoreKeepsInv, StartRefreshKeepsInv, ConcurrentKeepsInv, NormalKeepsInv,
   ViewsStutterKeepsInv DEF ViewsNext

LEMMA ViewsInvHolds == ViewsSpec => []ViewsInv
BY ViewsInitInv, ViewsStepKeepsInv, PTL DEF ViewsSpec

\* Only a refresh changes what a filled view shows, to what is stored.
LEMMA FilledStaysFilled ==
    ASSUME ViewsInv, ViewsNext, NEW v \in View, view[v] = "filled"
    PROVE  view'[v] = "filled" /\ basis[v] \cap stored \subseteq basis'[v]
<1>1. CASE Boot
    BY <1>1 DEF Boot
<1>2. CASE Store \/ Lose
    BY <1>2 DEF Store, Lose, Commit
<1>3. CASE \E j \in Jobs : StartRefresh(j)
    BY <1>3 DEF StartRefresh
<1>4. ASSUME NEW j \in Jobs, Refreshed(j)
      PROVE  view'[v] = "filled" /\ basis[v] \cap stored \subseteq basis'[v]
    BY <1>4 DEF Refreshed, ViewsInv, ViewsTypeInv
<1>5. CASE \E j \in Jobs : RefreshConcurrently(j)
    BY <1>4, <1>5 DEF RefreshConcurrently
<1>6. CASE \E j \in Jobs : RefreshNormally(j)
    BY <1>4, <1>6 DEF RefreshNormally
<1>7. QED
    BY <1>1, <1>2, <1>3, <1>5, <1>6 DEF ViewsNext

LEMMA SeenIsValued == ViewsInv => Valued(Seen)
<1>1. ViewsInv => Seen \in SUBSET Transactions
    BY ViewNamesFacts DEF ViewsInv, ViewsTypeInv, Seen
<1>2. QED
    BY <1>1, ViewsAssumption, FS_Subset DEF Valued

----------------------------------------------------------------------------
(* The theorems about the views                                            *)

\* The views and the places of the jobs keep their types, whatever jobs overlap
\* (ensure_materialized_views, refresh_materialized_views).
THEOREM ViewsTypeCorrect == ViewsSpec => []ViewsTypeInv
BY ViewsInvHolds, PTL DEF ViewsInv

\* A job that ends without an error leaves in both views what was there when its
\* refresh began and has been since, and nothing that was not there at any time since,
\* whatever the other jobs and the restarts did meanwhile (refresh_materialized_views).
THEOREM RefreshLeavesNothingStale == ViewsSpec => []NothingStale
BY ViewsInvHolds, PTL DEF ViewsInv

\* A filled view can be read from then on, and drops no transaction that is stored
\* (ensure_materialized_views, _refresh_materialized_view).
THEOREM OnlyDeletedRowsLeaveViews == ViewsSpec => ViewsKeepWhatIsStored
<1>1. ViewsInv /\ [ViewsNext]_viewVars
        => [\A v \in View :
                view[v] = "filled" => view'[v] = "filled" /\ basis[v] \cap stored \subseteq basis'[v]]_viewVars
    BY FilledStaysFilled DEF viewVars
<1>2. QED
    BY <1>1, ViewsInvHolds, PTL DEF ViewsSpec, ViewsKeepWhatIsStored

\* Any two insiders who buy within the span of a window are together in a cluster that
\* the view shows, however the windows suppress one another (sec_cluster_buys).
THEOREM EachPairIsShown == ViewsSpec => []NoClusterLost
<1>1. ASSUME ViewsInv
      PROVE  NoClusterLost
    <2>1. PICK T : T = Seen
        OBVIOUS
    <2>2. Valued(T) /\ Shown = Clusters(T)
        BY <1>1, <2>1, SeenIsValued DEF Shown, Seen
    <2>3. ASSUME NEW p \in Purchases(T), NEW q \in Purchases(T),
                 p.ticker = q.ticker, p.insider # q.insider, NoInsider \notin {p.insider, q.insider},
                 p.day <= q.day, q.day <= p.day + Span
          PROVE  \E c \in Clusters(T) : {p, q} \subseteq Bought(T, c.ticker, c.start)
        BY <2>2, <2>3, PairsAreShown
    <2>4. QED
        BY <2>1, <2>2, <2>3 DEF NoClusterLost
<1>2. QED
    BY <1>1, ViewsInvHolds, PTL

\* Of two clusters that the view shows neither has all the purchases of the other
\* (the NOT EXISTS of sec_cluster_buys).
THEOREM NoClusterTwice == ViewsSpec => []NoneContained
<1>1. ASSUME ViewsInv
      PROVE  NoneContained
    <2>1. PICK T : T = Seen
        OBVIOUS
    <2>2. Valued(T) /\ Shown = Clusters(T)
        BY <1>1, <2>1, SeenIsValued DEF Shown, Seen
    <2>3. ASSUME NEW c \in Clusters(T), NEW d \in Clusters(T), c # d,
                 Bought(T, c.ticker, c.start) \subseteq Bought(T, d.ticker, d.start)
          PROVE  FALSE
        <3>1. /\ c \in Windows(T) /\ d \in Windows(T)
              /\ ~Suppresses(d, c)
            BY DEF Clusters
        <3>2. QED
            BY <2>2, <2>3, <3>1, ContainedIsSuppressed
    <2>4. QED
        BY <2>1, <2>2, <2>3 DEF NoneContained
<1>2. QED
    BY <1>1, ViewsInvHolds, PTL

----------------------------------------------------------------------------
(* The requests of several statements                                      *)

ParseStatus == {"unknown", "failed", "parsed"}
Answers == ParseStatus \cup (SUBSET Filing) \cup (SUBSET AllRows) \cup BOOLEAN
StorageInv == status \in [Filing -> ParseStatus] /\ complete \in BOOLEAN

\* What the first statement has reported as parsed stays so until the next one.
AnswerInv ==
    request # None =>
        /\ request \in [kind : {"detail"}, accession : Filing] \cup [kind : {"summary"}]
        /\ answer \in Seq(Answers)
        /\ Len(answer) <= Len(Statements(request))
        /\ request.kind = "detail" /\ Len(answer) >= 1 =>
              (answer[1] = "parsed" => request.accession \in Parsed)
        /\ request.kind = "detail" /\ Len(answer) >= 2 =>
              (answer[1] = "parsed" => answer[2] = Rows[request.accession])
        /\ request.kind = "summary" /\ Len(answer) >= 1 => answer[1] \subseteq Parsed
        /\ request.kind = "summary" /\ Len(answer) >= 2 =>
              UNION {Rows[f] : f \in answer[1]} \subseteq answer[2]

LEMMA CommitKeepsStorage ==
    ASSUME StorageInv, NEW f \in Filing, NEW outcome \in {"failed", "parsed"}, CommitFiling(f, outcome)
    PROVE  StorageInv' /\ Parsed \subseteq Parsed' /\ Stored \subseteq Stored'
<1>1. StorageInv' /\ Parsed \subseteq Parsed'
    BY DEF StorageInv, CommitFiling, Parsed, ParseStatus
<1>2. QED
    BY <1>1 DEF Stored

LEMMA CompleteKeepsStorage ==
    ASSUME StorageInv, CommitComplete
    PROVE  StorageInv' /\ UNCHANGED status
<1>1. complete' \in BOOLEAN
    BY Zenon DEF CommitComplete
<1>2. QED
    BY <1>1 DEF CommitComplete, StorageInv

\* What was reported stays true when the worker commits more.
LEMMA AnswerSurvives ==
    ASSUME AnswerInv, Parsed \subseteq Parsed', UNCHANGED <<request, answer>>
    PROVE  AnswerInv'
BY DEF AnswerInv, Statements

LEMMA AskKeepsAnswer ==
    ASSUME Ask
    PROVE  AnswerInv'
<1>1. /\ request' \in [kind : {"detail"}, accession : Filing] \cup [kind : {"summary"}]
      /\ answer' = <<>>
    BY DEF Ask
<1>2. Len(answer') = 0 /\ answer' \in Seq(Answers)
    BY <1>1
<1>3. Len(Statements(request')) \in Nat
    BY DEF Statements
<1>4. QED
    BY <1>1, <1>2, <1>3 DEF AnswerInv, Statements

LEMMA StatementsOf ==
    /\ request.kind = "detail" => Statements(request) = <<"filing", "transactions">>
    /\ request.kind = "summary" => Statements(request) = <<"filings", "transactions", "backfill">>
BY DEF Statements

LEMMA ResultOf ==
    /\ Result(request, "filing") = status[request.accession]
    /\ Result(request, "transactions") =
          IF request.kind = "detail" THEN IF request.accession \in Parsed THEN Rows[request.accession] ELSE {}
                                     ELSE Stored
    /\ Result(request, "filings") = Parsed
    /\ Result(request, "backfill") = complete
BY DEF Result

LEMMA ExecuteKeepsAnswer ==
    ASSUME StorageInv, AnswerInv, Execute, UNCHANGED <<status, complete>>
    PROVE  AnswerInv'
<1>1. /\ request # None
      /\ request \in [kind : {"detail"}, accession : Filing] \cup [kind : {"summary"}]
      /\ answer \in Seq(Answers)
      /\ Len(answer) < Len(Statements(request))
    <2>1. Len(answer) # Len(Statements(request))
        BY DEF Execute, Answered
    <2>2. Len(answer) \in Nat /\ Len(Statements(request)) \in Nat
        BY DEF AnswerInv, Execute, Statements
    <2>3. QED
        BY <2>1, <2>2 DEF AnswerInv, Execute
<1>2. PICK n \in Nat : n = Len(answer) + 1
    BY <1>1
<1>3. PICK result : result = Result(request, Statements(request)[n])
    OBVIOUS
<1>4. CASE request' = None
    BY <1>4 DEF AnswerInv
<1>5. CASE request' = request /\ answer' = Append(answer, result)
    <2>1. CASE request.kind = "detail"
        <3>1. request.accession \in Filing /\ Statements(request) = <<"filing", "transactions">>
            BY <1>1, <2>1, StatementsOf
        <3>2. CASE n = 1
            <4>1. result = status[request.accession]
                BY <1>3, <3>1, <3>2, ResultOf
            <4>2. result \in Answers
                BY <3>1, <4>1 DEF StorageInv, Answers
            <4>3. answer' \in Seq(Answers) /\ Len(answer') = 1 /\ answer'[1] = result
                BY <1>1, <1>2, <1>5, <3>2, <4>2
            <4>4. result = "parsed" => request.accession \in Parsed
                BY <3>1, <4>1 DEF Parsed
            <4>5. QED
                BY <1>1, <1>5, <2>1, <3>1, <4>3, <4>4 DEF AnswerInv, Parsed
        <3>3. CASE n = 2
            <4>1. result = IF request.accession \in Parsed THEN Rows[request.accession] ELSE {}
                BY <1>3, <2>1, <3>1, <3>3, ResultOf
            <4>2. result \in Answers
                <5>1. Rows[request.accession] \in SUBSET AllRows /\ {} \in SUBSET AllRows
                    BY <3>1 DEF AllRows
                <5>2. result \in SUBSET AllRows
                    BY <4>1, <5>1
                <5>3. QED
                    BY <5>2 DEF Answers
            <4>3. answer' \in Seq(Answers) /\ Len(answer') = 2 /\ answer'[1] = answer[1] /\ answer'[2] = result
                BY <1>1, <1>2, <1>5, <3>3, <4>2
            <4>4. answer[1] = "parsed" => request.accession \in Parsed
                BY <1>1, <1>2, <2>1, <3>3 DEF AnswerInv
            <4>5. QED
                BY <1>1, <1>5, <2>1, <3>1, <4>1, <4>3, <4>4 DEF AnswerInv, Parsed
        <3>4. QED
            BY <1>1, <1>2, <3>1, <3>2, <3>3
    <2>2. CASE request.kind = "summary"
        <3>1. Statements(request) = <<"filings", "transactions", "backfill">>
            BY <2>2, StatementsOf
        <3>2. CASE n = 1
            <4>1. result = Parsed /\ result \in Answers
                BY <1>3, <3>1, <3>2, ResultOf DEF Parsed, Answers
            <4>2. answer' \in Seq(Answers) /\ Len(answer') = 1 /\ answer'[1] = result
                BY <1>1, <1>2, <1>5, <3>2, <4>1
            <4>3. QED
                BY <1>1, <1>5, <2>2, <3>1, <4>1, <4>2 DEF AnswerInv, Parsed
        <3>3. CASE n = 2
            <4>1. result = Stored
                BY <1>3, <2>2, <3>1, <3>3, ResultOf
            <4>2. result \in Answers
                <5>1. Stored \in SUBSET AllRows
                    BY DEF AllRows, Stored, Parsed
                <5>2. result \in SUBSET AllRows
                    BY <4>1, <5>1
                <5>3. QED
                    BY <5>2 DEF Answers
            <4>3. answer' \in Seq(Answers) /\ Len(answer') = 2 /\ answer'[1] = answer[1] /\ answer'[2] = result
                BY <1>1, <1>2, <1>5, <3>3, <4>2
            <4>4. answer[1] \subseteq Parsed
                BY <1>1, <1>2, <2>2, <3>3 DEF AnswerInv
            <4>5. UNION {Rows[f] : f \in answer[1]} \subseteq Stored
                BY <4>4 DEF Stored
            <4>6. QED
                BY <1>1, <1>5, <2>2, <3>1, <4>1, <4>3, <4>4, <4>5 DEF AnswerInv, Parsed
        <3>4. CASE n = 3
            <4>1. result = complete
                BY <1>3, <3>1, <3>4, ResultOf
            <4>2. result \in Answers
                <5>1. result \in BOOLEAN
                    BY <4>1, Zenon DEF StorageInv
                <5>2. QED
                    BY <5>1, Zenon DEF Answers
            <4>3. /\ answer' \in Seq(Answers) /\ Len(answer') = 3
                  /\ answer'[1] = answer[1] /\ answer'[2] = answer[2]
                BY <1>1, <1>2, <1>5, <3>4, <4>2
            <4>4. answer[1] \subseteq Parsed /\ UNION {Rows[f] : f \in answer[1]} \subseteq answer[2]
                BY <1>1, <1>2, <2>2, <3>4 DEF AnswerInv
            <4>5. QED
                BY <1>1, <1>5, <2>2, <3>1, <4>3, <4>4 DEF AnswerInv, Parsed
        <3>5. QED
            BY <1>1, <1>2, <3>1, <3>2, <3>3, <3>4
    <2>3. QED
        BY <1>1, <2>1, <2>2
<1>6. QED
    BY <1>2, <1>3, <1>4, <1>5 DEF Execute

\* Where the statements of a request have put their answers.
LEMMA ReturnedIs ==
    ASSUME AnswerInv, Answered
    PROVE  /\ request.kind = "detail" =>
                  /\ Len(answer) = 2
                  /\ Returned("filing") = answer[1]
                  /\ Returned("transactions") = answer[2]
           /\ request.kind = "summary" =>
                  /\ Len(answer) = 3
                  /\ Returned("filings") = answer[1]
                  /\ Returned("transactions") = answer[2]
<1>1. request # None /\ Len(answer) = Len(Statements(request)) /\ DOMAIN answer = 1 .. Len(answer)
    BY DEF Answered, AnswerInv
<1>2. CASE request.kind = "detail"
    <2>1. Len(answer) = 2 /\ Statements(request)[1] = "filing" /\ Statements(request)[2] = "transactions"
        <3>1. PICK list : list = Statements(request)
            OBVIOUS
        <3>2. list = <<"filing", "transactions">>
            BY <1>2, <3>1, StatementsOf
        <3>3. Len(list) = 2 /\ list[1] = "filing" /\ list[2] = "transactions"
            BY <3>2
        <3>4. QED
            BY <1>1, <3>1, <3>3
    <2>2. DOMAIN answer = {1, 2}
        BY <1>1, <2>1
    <2>3. (CHOOSE i \in DOMAIN answer : Statements(request)[i] = "filing") = 1
        BY <2>1, <2>2
    <2>4. (CHOOSE i \in DOMAIN answer : Statements(request)[i] = "transactions") = 2
        BY <2>1, <2>2
    <2>5. QED
        BY <1>2, <2>1, <2>3, <2>4 DEF Returned
<1>3. CASE request.kind = "summary"
    <2>1. /\ Len(answer) = 3 /\ Statements(request)[1] = "filings"
          /\ Statements(request)[2] = "transactions" /\ Statements(request)[3] = "backfill"
        <3>1. PICK list : list = Statements(request)
            OBVIOUS
        <3>2. list = <<"filings", "transactions", "backfill">>
            BY <1>3, <3>1, StatementsOf
        <3>3. Len(list) = 3 /\ list[1] = "filings" /\ list[2] = "transactions" /\ list[3] = "backfill"
            BY <3>2
        <3>4. QED
            BY <1>1, <3>1, <3>3
    <2>2. DOMAIN answer = {1, 2, 3}
        BY <1>1, <2>1
    <2>3. (CHOOSE i \in DOMAIN answer : Statements(request)[i] = "filings") = 1
        BY <2>1, <2>2
    <2>4. (CHOOSE i \in DOMAIN answer : Statements(request)[i] = "transactions") = 2
        BY <2>1, <2>2
    <2>5. QED
        BY <1>3, <2>1, <2>3, <2>4 DEF Returned
<1>4. QED
    BY <1>2, <1>3

LEMMA AnswersAgree == AnswerInv => ParsedComesWithRows /\ SummaryCoversFilings
<1> SUFFICES ASSUME AnswerInv PROVE ParsedComesWithRows /\ SummaryCoversFilings
    OBVIOUS
<1>1. ParsedComesWithRows
    BY ReturnedIs DEF ParsedComesWithRows, AnswerInv, Answered
<1>2. SummaryCoversFilings
    BY ReturnedIs DEF SummaryCoversFilings, AnswerInv, Answered
<1>3. QED
    BY <1>1, <1>2

----------------------------------------------------------------------------
(* The sales page                                                          *)

\* The rows of the last search, and those of them that come before a row.
Found == Stored \cap searched
Earlier(r) == {s \in Found : Precedes(s, r)}

\* The rows of the first page that have not been seen come after so many of those
\* that are stored by now.
Behind(n, seen) == \A r \in before \ seen : Cardinality(Earlier(r)) >= n

\* With these rows at the offset of the page, all rows up to the last of them are seen.
Continues(rows, seen) ==
    /\ \A i \in DOMAIN rows, r \in before : Precedes(r, rows[i]) => r \in seen
    /\ Behind(offset + Len(rows), seen)

Requests(from) == [offset : {from}, limit : Nat, filter : {searched}, rows : Seq(AllRows) \cup {None}]

\* While no requests overlap there is one at most, for the offset of the page and, as
\* the filters are those of the search, for its rows.
InStep ==
    /\ offset \in Nat
    /\ before \subseteq Found
    /\ flight \in Seq(Requests(offset))
    /\ Len(flight) <= 1
    /\ flight # <<>> =>
          /\ ~Rendered
          /\ flight[1].rows = None => Behind(offset, shown)
          /\ flight[1].rows # None =>
                Continues(flight[1].rows, shown \cup Range(flight[1].rows))
    /\ Rendered =>
          /\ screen.size \in Nat
          /\ screen.rows \in Seq(AllRows)
          /\ Continues(screen.rows, shown)

InOrder == ~overlapped /\ ~refiltered
PageInv == field \in Nat /\ (InOrder => InStep)

LEMMA RowsAreFinite ==
    ASSUME NEW fs \in SUBSET Filing
    PROVE  IsFiniteSet(UNION {Rows[f] : f \in fs})
<1>1. IsFiniteSet(fs) /\ \A f \in fs : IsFiniteSet(Rows[f])
    BY QueriesAssumption, FS_Subset
<1>2. PICK sets : sets = {Rows[f] : f \in fs}
    OBVIOUS
<1>3. PICK of : of = [f \in fs |-> Rows[f]]
    OBVIOUS
<1>4. of \in Surjection(fs, sets)
    BY <1>2, <1>3 DEF Surjection
<1>5. IsFiniteSet(sets)
    BY <1>1, <1>4, FS_Surjection
<1>6. \A rows \in sets : IsFiniteSet(rows)
    BY <1>1, <1>2
<1>7. QED
    BY <1>2, <1>5, <1>6, FS_UNION

LEMMA StoredFacts == Stored \in SUBSET AllRows /\ IsFiniteSet(Stored)
<1>1. Parsed \in SUBSET Filing
    BY DEF Parsed
<1>2. IsFiniteSet(UNION {Rows[f] : f \in Parsed})
    BY <1>1, RowsAreFinite
<1>3. QED
    BY <1>1, <1>2 DEF Stored, AllRows

LEMMA FoundFacts == Found \in SUBSET AllRows /\ IsFiniteSet(Found)
BY StoredFacts, FS_Subset DEF Found

\* The list of sales has one order.
LEMMA Ordered ==
    ASSUME NEW r \in AllRows, NEW s \in AllRows
    PROVE  /\ r # s => Precedes(r, s) \/ Precedes(s, r)
           /\ ~(Precedes(r, s) /\ Precedes(s, r))
           /\ ~Precedes(r, r)
<1>1. Key[r] \in [date : Nat, filed : Nat, id : Nat] /\ Key[s] \in [date : Nat, filed : Nat, id : Nat]
    BY SalesPageAssumption DEF AllRows
<1>2. Key[r].id = Key[s].id => r = s
    BY KeyAssumption DEF AllRows
<1>3. /\ Key[r].date \in Nat /\ Key[r].filed \in Nat /\ Key[r].id \in Nat
      /\ Key[s].date \in Nat /\ Key[s].filed \in Nat /\ Key[s].id \in Nat
    BY <1>1
<1>4. QED
    BY <1>2, <1>3 DEF Precedes

\* A list that the ORDER BY allows has every stored row, each before its successors.
LEMMA OrdersList ==
    ASSUME NEW list \in Orders(Found), NEW n, n = Cardinality(Found)
    PROVE  /\ n \in Nat /\ list \in [1 .. n -> Found]
           /\ \A r \in Found : \E k \in 1 .. n : list[k] = r
           /\ \A i, j \in 1 .. n : list[i] = list[j] => i = j
           /\ \A i, j \in 1 .. n : Precedes(list[i], list[j]) <=> i < j
<1>1. n \in Nat
    BY FoundFacts, FS_CardinalityType
<1>2. /\ list \in [1 .. n -> Found]
      /\ \A i, j \in 1 .. n : list[i] = list[j] => i = j
      /\ \A i, j \in DOMAIN list : Precedes(list[i], list[j]) => i < j
    BY DEF Orders, SetToSeqs
<1>3. list \in Surjection(1 .. n, Found)
    <2>1. list \in Injection(1 .. n, Found)
        BY <1>2 DEF Injection, IsInjective
    <2>2. Cardinality(1 .. n) = n
        BY <1>1, FS_Interval
    <2>3. QED
        BY <2>1, <2>2, FoundFacts, FS_Injection
<1>4. \A r \in Found : \E k \in 1 .. n : list[k] = r
    BY <1>3 DEF Surjection
<1>5. ASSUME NEW i \in 1 .. n, NEW j \in 1 .. n, i < j
      PROVE  Precedes(list[i], list[j])
    <2>1. list[i] \in AllRows /\ list[j] \in AllRows
        BY <1>2, FoundFacts
    <2>2. list[i] # list[j]
        BY <1>2, <1>5
    <2>3. ~Precedes(list[j], list[i])
        BY <1>1, <1>2, <1>5
    <2>4. QED
        BY <2>1, <2>2, <2>3, Ordered
<1>6. QED
    BY <1>1, <1>2, <1>4, <1>5

\* The place of a row in the list is the number of those before it, and one.
LEMMA PlaceInList ==
    ASSUME NEW list \in Orders(Found), NEW k \in 1 .. Cardinality(Found)
    PROVE  Cardinality(Earlier(list[k])) = k - 1
<1>1. PICK n : n = Cardinality(Found)
    OBVIOUS
<1>2. /\ n \in Nat /\ list \in [1 .. n -> Found] /\ k \in 1 .. n
      /\ \A r \in Found : \E i \in 1 .. n : list[i] = r
      /\ \A i, j \in 1 .. n : list[i] = list[j] => i = j
      /\ \A i, j \in 1 .. n : Precedes(list[i], list[j]) <=> i < j
    BY <1>1, OrdersList
<1>3. PICK earlier : earlier = Earlier(list[k])
    OBVIOUS
<1>4. PICK g : g = [i \in 1 .. k - 1 |-> list[i]]
    OBVIOUS
<1>5. \A i \in 1 .. k - 1 : i \in 1 .. n /\ i < k /\ g[i] = list[i]
    BY <1>2, <1>4
<1>6. \A i \in 1 .. k - 1 : g[i] \in earlier
    BY <1>2, <1>3, <1>5 DEF Earlier
<1>7. \A s \in earlier : \E i \in 1 .. k - 1 : g[i] = s
    <2>1. SUFFICES ASSUME NEW s \in earlier PROVE \E i \in 1 .. k - 1 : g[i] = s
        OBVIOUS
    <2>2. PICK i \in 1 .. n : list[i] = s
        BY <1>2, <1>3 DEF Earlier
    <2>3. i < k
        BY <1>2, <1>3, <2>2 DEF Earlier
    <2>4. i \in 1 .. k - 1
        BY <1>2, <2>3
    <2>5. QED
        BY <1>5, <2>2, <2>4
<1>8. g \in [1 .. k - 1 -> earlier]
    BY <1>4, <1>6
<1>9. \A i, j \in 1 .. k - 1 : g[i] = g[j] => i = j
    BY <1>2, <1>5
<1>10. g \in Bijection(1 .. k - 1, earlier)
    BY <1>7, <1>8, <1>9 DEF Bijection, Injection, Surjection, IsInjective
<1>11. k - 1 \in Nat
    BY <1>2
<1>12. QED
    BY <1>3, <1>10, <1>11, FS_CountingElements DEF ExistsBijection

LEMMA LimitIsNat ==
    ASSUME NEW limit \in Nat
    PROVE  ClampLimit(limit) \in Nat
<1>1. DefaultLimit \in Nat /\ MaxLimit \in Nat
    BY SalesPageAssumption
<1>2. PICK low : low = Min({limit, MaxLimit})
    OBVIOUS
<1>3. low \in Nat
    BY <1>1, <1>2 DEF Min
<1>4. Max({1, low}) \in Nat
    BY <1>3 DEF Max
<1>5. QED
    BY <1>1, <1>2, <1>4 DEF ClampLimit

LEMMA MinOfTwo ==
    ASSUME NEW a \in Nat, NEW b \in Nat
    PROVE  Min({a, b}) \in {a, b} /\ Min({a, b}) <= b
<1>1. \E x \in {a, b} : \A y \in {a, b} : x <= y
    <2>1. CASE a <= b
        BY <2>1
    <2>2. CASE b <= a
        BY <2>2
    <2>3. QED
        BY <2>1, <2>2
<1>2. QED
    BY <1>1 DEF Min

PageOf(list, from, limit) == SubSeq(list, from + 1, Min({from + limit, Len(list)}))

\* The rows of a page are those of the list from its offset on.
LEMMA PageOfList ==
    ASSUME NEW list, NEW n \in Nat, list \in [1 .. n -> AllRows], NEW from \in Nat, NEW limit \in Nat,
           NEW rows, rows = PageOf(list, from, limit)
    PROVE  /\ rows \in Seq(AllRows)
           /\ Len(rows) \in Nat
           /\ Len(rows) > 0 => from + Len(rows) <= n
           /\ \A i \in 1 .. Len(rows) : rows[i] = list[from + i]
<1>1. list \in Seq(AllRows) /\ Len(list) = n
    OBVIOUS
<1>2. PICK last : last = Min({from + limit, n})
    OBVIOUS
<1>3. last \in Nat /\ last <= n
    <2>1. PICK top \in Nat : top = from + limit
        OBVIOUS
    <2>2. last \in {top, n} /\ last <= n
        BY <1>2, <2>1, MinOfTwo
    <2>3. QED
        BY <2>1, <2>2
<1>4. rows = SubSeq(list, from + 1, last)
    BY <1>1, <1>2 DEF PageOf
<1>5. PICK first : first = from + 1
    OBVIOUS
<1>6. first \in Int /\ last \in Int /\ \A i \in first .. last : list[i] \in AllRows
    BY <1>3, <1>5
<1>7. /\ SubSeq(list, first, last) \in Seq(AllRows)
      /\ Len(SubSeq(list, first, last)) = IF first <= last THEN last - first + 1 ELSE 0
      /\ \A i \in 1 .. last - first + 1 : SubSeq(list, first, last)[i] = list[first + i - 1]
    BY <1>6, SubSeqProperties
<1>8. /\ rows \in Seq(AllRows)
      /\ Len(rows) = IF first <= last THEN last - first + 1 ELSE 0
      /\ \A i \in 1 .. last - first + 1 : rows[i] = list[first + i - 1]
    BY <1>4, <1>5, <1>7
<1>9. PICK len : len = Len(rows)
    OBVIOUS
<1>10. /\ len \in Nat
       /\ first <= last => len = last - first + 1
       /\ ~(first <= last) => len = 0
    BY <1>6, <1>8, <1>9
<1>11. len > 0 => from + len <= n
    BY <1>3, <1>5, <1>10
<1>12. ASSUME NEW i \in 1 .. len PROVE rows[i] = list[from + i]
    <2>1. first <= last /\ i \in 1 .. last - first + 1
        BY <1>6, <1>10
    <2>2. first + i - 1 = from + i
        BY <1>5, <1>10
    <2>3. QED
        BY <1>8, <2>1, <2>2
<1>13. QED
    BY <1>8, <1>9, <1>10, <1>11, <1>12

\* A page continues where the rows that have not been seen come no earlier.
LEMMA PageContinues ==
    ASSUME NEW list \in Orders(Found), NEW from \in Nat,
           NEW rows \in Seq(AllRows), Len(rows) > 0 => from + Len(rows) <= Cardinality(Found),
           \A i \in 1 .. Len(rows) : rows[i] = list[from + i],
           NEW first \in SUBSET Found, NEW seen,
           \A r \in first \ seen : Cardinality(Earlier(r)) >= from
    PROVE  /\ \A i \in DOMAIN rows, r \in first : Precedes(r, rows[i]) => r \in seen \cup Range(rows)
           /\ \A r \in first \ (seen \cup Range(rows)) : Cardinality(Earlier(r)) >= from + Len(rows)
<1>1. PICK n, len : n = Cardinality(Found) /\ len = Len(rows)
    OBVIOUS
<1>2. /\ n \in Nat /\ list \in [1 .. n -> Found]
      /\ \A r \in Found : \E k \in 1 .. n : list[k] = r
      /\ \A i, j \in 1 .. n : Precedes(list[i], list[j]) <=> i < j
    BY <1>1, OrdersList
<1>3. len \in Nat /\ DOMAIN rows = 1 .. len
    BY <1>1
<1>4. len > 0 => from + len <= n
    BY <1>1
<1>5. \A i \in 1 .. len : rows[i] = list[from + i]
    BY <1>1
<1>6. ASSUME NEW k \in 1 .. n, list[k] \in first \ seen
      PROVE  /\ k > from
             /\ k <= from + len => list[k] \in Range(rows)
             /\ k > from + len => Cardinality(Earlier(list[k])) >= from + len
    <2>1. Cardinality(Earlier(list[k])) = k - 1
        BY <1>1, PlaceInList
    <2>2. k > from
        BY <1>2, <1>6, <2>1
    <2>3. ASSUME k <= from + len PROVE list[k] \in Range(rows)
        <3>1. k - from \in 1 .. len /\ from + (k - from) = k
            BY <1>2, <1>3, <2>2, <2>3
        <3>2. rows[k - from] = list[k]
            BY <1>5, <3>1
        <3>3. QED
            BY <1>3, <3>1, <3>2 DEF Range
    <2>4. QED
        BY <1>2, <1>3, <2>1, <2>2, <2>3
<1>7. ASSUME NEW i \in DOMAIN rows, NEW r \in first, Precedes(r, rows[i]), r \notin seen
      PROVE  r \in Range(rows)
    <2>1. PICK k \in 1 .. n : list[k] = r
        BY <1>2
    <2>2. from + i \in 1 .. n /\ i <= len
        BY <1>2, <1>3, <1>4
    <2>3. Precedes(list[k], list[from + i])
        BY <1>3, <1>5, <1>7, <2>1
    <2>4. k < from + i
        BY <1>2, <2>2, <2>3
    <2>5. k <= from + len
        BY <1>2, <1>3, <2>2, <2>4
    <2>6. QED
        BY <1>6, <1>7, <2>1, <2>5
<1>8. ASSUME NEW r \in first, r \notin seen, r \notin Range(rows)
       PROVE  Cardinality(Earlier(r)) >= from + len
    <2>1. PICK k \in 1 .. n : list[k] = r
        BY <1>2
    <2>2. ~(k <= from + len)
        BY <1>6, <1>8, <2>1
    <2>3. k > from + len
        BY <1>2, <1>3, <2>2
    <2>4. QED
        BY <1>6, <1>8, <2>1, <2>3
<1>9. QED
    BY <1>1, <1>3, <1>7, <1>8

\* What comes before a row only becomes more.
LEMMA EarlierGrows ==
    ASSUME Found \subseteq Found', NEW r
    PROVE  /\ Cardinality(Earlier(r)) \in Nat /\ Cardinality(Earlier(r)') \in Nat
           /\ Cardinality(Earlier(r)) <= Cardinality(Earlier(r)')
<1>1. Parsed' \in SUBSET Filing
    BY DEF Parsed
<1>2. PICK fs \in SUBSET Filing : fs = Parsed'
    BY <1>1
<1>3. IsFiniteSet(UNION {Rows[f] : f \in fs})
    BY RowsAreFinite
<1>4. IsFiniteSet(Found')
    <2>1. IsFiniteSet(Stored')
        BY <1>2, <1>3 DEF Stored
    <2>2. Found' \in SUBSET (Stored')
        BY DEF Found
    <2>3. QED
        BY <2>1, <2>2, FS_Subset
<1>5. PICK old, new, stored2 : old = Earlier(r) /\ new = Earlier(r)' /\ stored2 = Found'
    OBVIOUS
<1>6. old \subseteq new /\ new \subseteq stored2
    BY <1>5 DEF Earlier
<1>7. IsFiniteSet(new)
    BY <1>4, <1>5, <1>6, FS_Subset
<1>8. IsFiniteSet(old) /\ Cardinality(old) <= Cardinality(new)
    BY <1>6, <1>7, FS_Subset
<1>9. Cardinality(old) \in Nat /\ Cardinality(new) \in Nat
    BY <1>7, <1>8, FS_CardinalityType
<1>10. QED
    BY <1>5, <1>8, <1>9

LEMMA BehindSurvives ==
    ASSUME Found \subseteq Found', before' = before, NEW n \in Nat, NEW m \in Nat, m <= n, NEW seen, Behind(n, seen)
    PROVE  \A r \in before' \ seen : Cardinality(Earlier(r)') >= m
<1> SUFFICES ASSUME NEW r \in before \ seen PROVE Cardinality(Earlier(r)') >= m
    OBVIOUS
<1>1. Cardinality(Earlier(r)) >= n
    BY DEF Behind
<1>2. QED
    BY <1>1, EarlierGrows

Request(from, limit, rows) == [offset |-> from, limit |-> limit, filter |-> searched, rows |-> rows]

LEMMA SameStore ==
    ASSUME UNCHANGED status
    PROVE  Parsed' = Parsed /\ Stored' = Stored
BY DEF Parsed, Stored

LEMMA SameRows ==
    ASSUME UNCHANGED <<status, searched>>
    PROVE  /\ Found' = Found /\ \A r : Earlier(r)' = Earlier(r)
           /\ \A from : Requests(from)' = Requests(from)
BY SameStore DEF Found, Earlier, Requests

\* With a request that was sent while none was on its way the page is in step.
LEMMA SentInStep ==
    ASSUME field \in Nat, flight = <<>>, filter = searched', NEW from \in Nat, Run(from), offset' = from,
           before' \subseteq Found',
           \A r \in before' \ shown' : Cardinality(Earlier(r)') >= from
    PROVE  InStep'
<1>1. /\ flight' = <<[offset |-> from, limit |-> field, filter |-> filter, rows |-> None]>>
      /\ screen' = [is |-> "loading"]
    BY DEF Run
<1>2. /\ flight' \in Seq(Requests(from)')
      /\ Len(flight') = 1 /\ flight'[1].rows = None
    <2>1. PICK q : q = [offset |-> from, limit |-> field, filter |-> filter, rows |-> None]
        OBVIOUS
    <2>2. q \in Requests(from)' /\ q.rows = None
        BY <2>1 DEF Requests
    <2>3. flight' = <<q>>
        BY <1>1, <2>1
    <2>4. QED
        BY <2>2, <2>3
<1>3. ~Rendered'
    BY <1>1 DEF Rendered
<1>4. Behind(offset, shown)'
    BY DEF Behind
<1>5. QED
    BY <1>2, <1>3, <1>4 DEF InStep

LEMMA SearchKeepsPage ==
    ASSUME PageInv, Search, UNCHANGED status
    PROVE  PageInv'
<1>1. field' \in Nat /\ field \in Nat
    BY DEF Search, PageInv
<1>2. CASE flight # <<>>
    BY <1>1, <1>2 DEF Search, PageInv, InOrder
<1>3. CASE flight = <<>>
    <2>1. Run(0) /\ offset' = 0 /\ before' = {} /\ searched' = filter
        BY DEF Search
    <2>2. InStep'
        BY <1>1, <1>3, <2>1, SentInStep
    <2>3. QED
        BY <1>1, <2>2 DEF PageInv
<1>4. QED
    BY <1>2, <1>3

LEMMA EditFieldKeepsPage ==
    ASSUME PageInv, EditField, UNCHANGED status
    PROVE  PageInv'
<1>1. field' \in Nat
    BY SalesPageAssumption DEF EditField, PageInv
<1>2. UNCHANGED <<offset, flight, screen, before, shown, searched, overlapped, refiltered>>
    BY DEF EditField, history
<1>3. QED
    BY <1>1, <1>2, SameRows DEF PageInv, InOrder, InStep, Rendered, Behind, Continues

LEMMA OneInFlight ==
    ASSUME InStep, NEW i \in DOMAIN flight
    PROVE  i = 1 /\ Len(flight) = 1 /\ flight \in Seq(Requests(offset)) /\ flight # <<>>
<1>1. flight \in Seq(Requests(offset)) /\ Len(flight) <= 1
    BY DEF InStep
<1>2. Len(flight) \in Nat /\ DOMAIN flight = 1 .. Len(flight)
    BY <1>1
<1>3. PICK n \in Nat : n = Len(flight) /\ i \in 1 .. n
    BY <1>2
<1>4. n = 1 /\ i = 1
    BY <1>1, <1>3
<1>5. QED
    BY <1>1, <1>3, <1>4

LEMMA ServeKeepsPage ==
    ASSUME PageInv, Serve, UNCHANGED status
    PROVE  PageInv'
<1>1. UNCHANGED <<offset, field, screen, shown, searched, overlapped, refiltered>> /\ field \in Nat
    BY DEF Serve, PageInv, history
<1>2. SUFFICES ASSUME InOrder PROVE InStep'
    BY <1>1 DEF PageInv, InOrder
<1>3. InStep
    BY <1>2 DEF PageInv
<1>4. PICK i, rows :
          /\ i \in DOMAIN flight
          /\ flight[i].rows = None
          /\ rows \in SearchResults(flight[i])
          /\ flight' = [flight EXCEPT ![i].rows = rows]
          /\ before' = IF flight[i].offset = 0 THEN Stored \cap flight[i].filter ELSE before
    BY DEF Serve
<1>5. i = 1 /\ Len(flight) = 1 /\ flight \in Seq(Requests(offset)) /\ flight # <<>>
    BY <1>3, <1>4, OneInFlight
<1>6. PICK q : q = flight[1] /\ q \in Requests(offset)
    BY <1>5
<1>7. PICK limit \in Nat : limit = q.limit /\ q.offset = offset /\ offset \in Nat /\ q.filter = searched
    BY <1>3, <1>6 DEF Requests, InStep
<1>8. PICK list \in Orders(Found) :
          rows = PageOf(list, offset, ClampLimit(limit))
    BY <1>4, <1>5, <1>6, <1>7 DEF SearchResults, PageOf, Found
<1>9. PICK n : n = Cardinality(Found)
    OBVIOUS
<1>10. n \in Nat /\ list \in [1 .. n -> AllRows]
    BY <1>9, OrdersList, FoundFacts
<1>11. /\ rows \in Seq(AllRows) /\ Len(rows) \in Nat
       /\ Len(rows) > 0 => offset + Len(rows) <= n
       /\ \A k \in 1 .. Len(rows) : rows[k] = list[offset + k]
    <2>1. PICK from \in Nat, most \in Nat : from = offset /\ most = ClampLimit(limit)
        BY <1>7, LimitIsNat
    <2>2. rows = PageOf(list, from, most)
        BY <1>8, <2>1
    <2>3. /\ rows \in Seq(AllRows) /\ Len(rows) \in Nat
          /\ Len(rows) > 0 => from + Len(rows) <= n
          /\ \A k \in 1 .. Len(rows) : rows[k] = list[from + k]
        BY <1>10, <2>2, PageOfList
    <2>4. QED
        BY <2>1, <2>3
<1>12. before' \in SUBSET Found /\ (offset = 0 \/ before' = before)
    BY <1>3, <1>4, <1>5, <1>6, <1>7 DEF InStep, Found
<1>13. ASSUME NEW r \in before' \ shown
       PROVE  Cardinality(Earlier(r)) >= offset
    <2>1. Cardinality(Earlier(r)) \in Nat
        BY <1>1, SameRows, EarlierGrows
    <2>2. CASE offset = 0
        BY <2>1, <2>2
    <2>3. CASE before' = before
        <3>1. flight[1].rows = None
            BY <1>4, <1>5
        <3>2. Behind(offset, shown)
            BY <1>3, <1>5, <3>1 DEF InStep
        <3>3. QED
            BY <1>13, <2>3, <3>2 DEF Behind
    <2>4. QED
        BY <1>12, <2>2, <2>3
<1>14. /\ \A k \in DOMAIN rows, r \in before' : Precedes(r, rows[k]) => r \in shown \cup Range(rows)
       /\ \A r \in before' \ (shown \cup Range(rows)) : Cardinality(Earlier(r)) >= offset + Len(rows)
    <2>1. PICK from, first, seen :
              /\ from \in Nat /\ first \in SUBSET Found
              /\ from = offset /\ first = before' /\ seen = shown
        BY <1>7, <1>12
    <2>2. \A r \in first \ seen : Cardinality(Earlier(r)) >= from
        BY <1>13, <2>1
    <2>3. /\ Len(rows) > 0 => from + Len(rows) <= Cardinality(Found)
          /\ \A k \in 1 .. Len(rows) : rows[k] = list[from + k]
        BY <1>9, <1>11, <2>1
    <2>4. /\ \A k \in DOMAIN rows, r \in first : Precedes(r, rows[k]) => r \in seen \cup Range(rows)
          /\ \A r \in first \ (seen \cup Range(rows)) : Cardinality(Earlier(r)) >= from + Len(rows)
        BY <1>11, <2>1, <2>2, <2>3, PageContinues
    <2>5. QED
        BY <2>1, <2>4
<1>15. /\ flight' \in Seq(Requests(offset))
       /\ Len(flight') = 1 /\ flight'[1].rows = rows
    <2>1. PICK p : p = [q EXCEPT !.rows = rows]
        OBVIOUS
    <2>2. p \in Requests(offset) /\ p.rows = rows
        BY <1>6, <1>11, <2>1 DEF Requests
    <2>3. flight' = [flight EXCEPT ![1] = p]
        BY <1>4, <1>5, <1>6, <2>1
    <2>4. PICK S, old, new : S = Requests(offset) /\ old = flight /\ new = flight'
        OBVIOUS
    <2>5. old \in Seq(S) /\ Len(old) = 1 /\ p \in S /\ new = [old EXCEPT ![1] = p]
        BY <1>5, <2>2, <2>3, <2>4
    <2>6. new \in Seq(S) /\ Len(new) = 1 /\ new[1] = p
        BY <2>5
    <2>7. QED
        BY <2>2, <2>4, <2>6
<1>16. Continues(flight[1].rows, shown \cup Range(flight[1].rows))'
    BY <1>1, <1>14, <1>15, SameRows DEF Continues, Behind
<1>17. InStep'
    <2>1. ~Rendered' /\ offset' \in Nat /\ before' \subseteq Found'
        BY <1>1, <1>3, <1>5, <1>12, SameRows DEF InStep, Rendered
    <2>2. flight' \in Seq(Requests(offset))' /\ Len(flight') <= 1
        BY <1>1, <1>15 DEF Requests
    <2>3. rows = None => Behind(offset, shown)'
        BY <1>1, <1>13, SameRows DEF Behind
    <2>4. QED
        BY <1>15, <1>16, <2>1, <2>2, <2>3 DEF InStep
<1>18. QED
    BY <1>17

LEMMA RemoveOnly ==
    ASSUME NEW S, NEW list \in Seq(S), Len(list) = 1
    PROVE  RemoveAt(list, 1) = <<>>
<1>1. SubSeq(list, 1, 0) = <<>> /\ SubSeq(list, 2, 1) = <<>>
    BY SubSeqEmpty
<1>2. QED
    BY <1>1 DEF RemoveAt

LEMMA RenderKeepsPage ==
    ASSUME PageInv, Render, UNCHANGED status
    PROVE  PageInv'
<1>1. UNCHANGED <<offset, field, before, searched, overlapped, refiltered>> /\ field \in Nat
    BY DEF Render, PageInv, history
<1>2. SUFFICES ASSUME InOrder PROVE InStep'
    BY <1>1 DEF PageInv, InOrder
<1>3. InStep
    BY <1>2 DEF PageInv
<1>4. PICK i \in DOMAIN flight :
          /\ flight[i].rows # None
          /\ screen' = [is |-> "rows", rows |-> flight[i].rows, size |-> field]
          /\ shown' = shown \cup Range(flight[i].rows)
          /\ flight' = RemoveAt(flight, i)
    BY DEF Render
<1>5. i = 1 /\ Len(flight) = 1 /\ flight \in Seq(Requests(offset)) /\ flight # <<>>
    BY <1>3, <1>4, OneInFlight
<1>6. PICK rows : rows = flight[1].rows
    OBVIOUS
<1>7. rows \in Seq(AllRows) /\ Continues(rows, shown \cup Range(rows))
    <2>1. flight[1] \in Requests(offset)
        BY <1>5
    <2>2. rows \in Seq(AllRows)
        BY <1>4, <1>5, <1>6, <2>1 DEF Requests
    <2>3. QED
        BY <1>3, <1>4, <1>5, <1>6, <2>2 DEF InStep
<1>8. /\ screen'.rows = rows /\ screen'.size = field
      /\ shown' = shown \cup Range(rows)
    BY <1>4, <1>5, <1>6
<1>9. flight' = <<>>
    BY <1>4, <1>5, RemoveOnly
<1>10. Continues(screen.rows, shown)'
    BY <1>1, <1>7, <1>8, SameRows DEF Continues, Behind
<1>11. QED
    BY <1>1, <1>3, <1>7, <1>8, <1>9, <1>10, SameRows DEF InStep

LEMMA FailureKeepsPage ==
    ASSUME PageInv, RequestFails, UNCHANGED status
    PROVE  PageInv'
<1>1. /\ UNCHANGED <<offset, field, before, shown, searched, overlapped, refiltered>>
      /\ field \in Nat /\ screen' = [is |-> "error"]
    BY DEF RequestFails, PageInv, history
<1>2. SUFFICES ASSUME InOrder PROVE InStep'
    BY <1>1 DEF PageInv, InOrder
<1>3. InStep
    BY <1>2 DEF PageInv
<1>4. PICK i \in DOMAIN flight : flight' = RemoveAt(flight, i)
    BY DEF RequestFails
<1>5. flight' = <<>>
    BY <1>3, <1>4, OneInFlight, RemoveOnly
<1>6. ~Rendered'
    BY <1>1 DEF Rendered
<1>7. QED
    BY <1>1, <1>3, <1>5, <1>6, SameRows DEF InStep

\* The buttons lead to an offset that is not beyond the rows on the screen.
LEMMA ClickKeepsPage ==
    ASSUME PageInv, Rendered, NEW to, Turn(to), UNCHANGED status,
           InStep => to \in Nat /\ to <= offset + Len(screen.rows)
    PROVE  PageInv'
<1> USE DEF Turn
<1>1. SUFFICES ASSUME ~overlapped, ~refiltered' PROVE InStep'
    BY DEF PageInv, InOrder
<1>2. InStep /\ field \in Nat /\ filter = searched' /\ offset' \in Nat /\ offset' <= offset + Len(screen.rows)
    BY <1>1 DEF PageInv, InOrder
<1>3. flight = <<>>
    BY <1>2 DEF InStep
<1>4. Behind(offset + Len(screen.rows), shown) /\ offset + Len(screen.rows) \in Nat
    BY <1>2 DEF InStep, Continues
<1>5. PICK n \in Nat, from \in Nat : n = offset + Len(screen.rows) /\ from = offset'
    BY <1>2, <1>4
<1>6. from <= n /\ Behind(n, shown)
    BY <1>2, <1>4, <1>5
<1>7. \A r \in before' \ shown' : Cardinality(Earlier(r)') >= from
    <2>1. PICK seen : seen = shown
        OBVIOUS
    <2>2. \A r \in before' \ seen : Cardinality(Earlier(r)') >= from
        BY <1>6, <2>1, SameRows, BehindSurvives
    <2>3. QED
        BY <2>1, <2>2
<1>8. before' \subseteq Found'
    BY <1>2, SameRows DEF InStep
<1>9. QED
    BY <1>2, <1>3, <1>5, <1>7, <1>8, SentInStep

LEMMA NextKeepsPage ==
    ASSUME PageInv, ClickNext, UNCHANGED status
    PROVE  PageInv'
<1>1. Rendered /\ Len(screen.rows) >= screen.size /\ Turn(offset + screen.size)
    BY DEF ClickNext, NextOffset
<1>2. InStep => offset + screen.size \in Nat /\ offset + screen.size <= offset + Len(screen.rows)
    BY <1>1 DEF InStep
<1>3. QED
    BY <1>1, <1>2, ClickKeepsPage

LEMMA PreviousKeepsPage ==
    ASSUME PageInv, ClickPrevious, UNCHANGED status
    PROVE  PageInv'
<1>1. PICK to : to = Max({0, offset - screen.size})
    OBVIOUS
<1>2. Rendered /\ Turn(to)
    BY <1>1 DEF ClickPrevious
<1>3. InStep => to \in Nat /\ to <= offset + Len(screen.rows)
    <2>1. SUFFICES ASSUME InStep PROVE to \in Nat /\ to <= offset + Len(screen.rows)
        OBVIOUS
    <2>2. offset \in Nat /\ screen.size \in Nat /\ Len(screen.rows) \in Nat
        BY <1>2, <2>1 DEF InStep
    <2>3. PICK n \in Int : n = offset - screen.size /\ n <= offset
        BY <2>2
    <2>4. Max({0, n}) = IF n >= 0 THEN n ELSE 0
        BY DEF Max
    <2>5. QED
        BY <1>1, <2>2, <2>3, <2>4
<1>4. QED
    BY <1>2, <1>3, ClickKeepsPage

\* The worker commits while the reader reads.
LEMMA PageSurvives ==
    ASSUME PageInv, Stored \subseteq Stored', UNCHANGED pageVars
    PROVE  PageInv'
<1>1. /\ UNCHANGED <<offset, field, flight, screen, before, shown, searched, overlapped, refiltered>>
      /\ Found \subseteq Found'
    BY DEF pageVars, history, Found
<1>2. SUFFICES ASSUME InOrder PROVE InStep'
    BY <1>1 DEF PageInv, InOrder
<1>3. InStep
    BY <1>2 DEF PageInv
<1>4. ASSUME NEW n \in Nat, NEW seen, Behind(n, seen)
      PROVE  \A r \in before' \ seen : Cardinality(Earlier(r)') >= n
    BY <1>1, <1>4, BehindSurvives
<1>5. before' \subseteq Found' /\ offset' \in Nat /\ flight' \in Seq(Requests(offset))'
    BY <1>1, <1>3 DEF InStep, Requests
<1>6. Behind(offset, shown) => Behind(offset, shown)'
    BY <1>1, <1>3, <1>4 DEF InStep, Behind
<1>7. ASSUME NEW rows \in Seq(AllRows), NEW seen, Continues(rows, seen)
      PROVE  /\ \A i \in DOMAIN rows, r \in before' : Precedes(r, rows[i]) => r \in seen
             /\ \A r \in before' \ seen : Cardinality(Earlier(r)') >= offset' + Len(rows)
    <2>1. PICK n \in Nat : n = offset + Len(rows)
        BY <1>3 DEF InStep
    <2>2. Behind(n, seen)
        BY <1>7, <2>1 DEF Continues
    <2>3. QED
        BY <1>1, <1>4, <1>7, <2>1, <2>2 DEF Continues
<1>8. Rendered => Continues(screen.rows, shown)'
    BY <1>1, <1>3, <1>7 DEF InStep, Continues, Behind
<1>9. flight # <<>> /\ flight[1].rows # None
          => Continues(flight[1].rows, shown \cup Range(flight[1].rows))'
    <2>1. SUFFICES ASSUME flight # <<>>, flight[1].rows # None
                   PROVE  Continues(flight[1].rows, shown \cup Range(flight[1].rows))'
        OBVIOUS
    <2>2. PICK rows, seen : rows = flight[1].rows /\ seen = shown \cup Range(rows)
        OBVIOUS
    <2>3. rows \in Seq(AllRows) /\ Continues(rows, seen)
        <3>1. 1 \in DOMAIN flight
            BY <1>3, <2>1 DEF InStep
        <3>2. flight[1] \in Requests(offset)
            BY <1>3, <3>1, OneInFlight
        <3>3. rows \in Seq(AllRows)
            BY <2>1, <2>2, <3>2 DEF Requests
        <3>4. QED
            BY <1>3, <2>1, <2>2, <3>3 DEF InStep
    <2>4. QED
        BY <1>1, <1>7, <2>2, <2>3 DEF Continues, Behind
<1>10. QED
    BY <1>1, <1>3, <1>5, <1>6, <1>8, <1>9 DEF InStep, Rendered

----------------------------------------------------------------------------
(* Both beside the worker                                                  *)

ReadInv == StorageInv /\ AnswerInv /\ PageInv

LEMMA ReadInitInv == Init => ReadInv
<1> SUFFICES ASSUME Init PROVE ReadInv
    OBVIOUS
<1>1. complete \in BOOLEAN
    BY Zenon DEF Init, StorageInit
<1>2. StorageInv
    BY <1>1 DEF Init, StorageInit, StorageInv, ParseStatus
<1>3. AnswerInv
    BY DEF Init, QueryInit, AnswerInv
<1>4. PageInv
    <2>1. DefaultLimit \in Nat
        BY SalesPageAssumption
    <2>2. PICK q : q = [offset |-> 0, limit |-> DefaultLimit, filter |-> AllRows, rows |-> None]
        OBVIOUS
    <2>3. q \in Requests(0) /\ q.rows = None
        BY <2>1, <2>2 DEF Init, PageInit, Requests
    <2>4. flight = <<q>> /\ offset = 0 /\ field = DefaultLimit /\ before = {} /\ ~Rendered
        BY <2>2 DEF Init, PageInit, Rendered
    <2>5. QED
        BY <2>1, <2>3, <2>4 DEF PageInv, InStep, Behind
<1>5. QED
    BY <1>2, <1>3, <1>4 DEF ReadInv

LEMMA ReadStepKeepsInv == ReadInv /\ [Next]_vars => ReadInv'
<1> SUFFICES ASSUME ReadInv, [Next]_vars PROVE ReadInv'
    OBVIOUS
<1>1. ASSUME NEW f \in Filing, NEW outcome \in {"failed", "parsed"}, CommitFiling(f, outcome),
             UNCHANGED <<queryVars, reader, pageVars>>
      PROVE  ReadInv'
    BY <1>1, CommitKeepsStorage, AnswerSurvives, PageSurvives DEF ReadInv, queryVars
<1>2. CASE CommitComplete /\ UNCHANGED <<queryVars, reader, pageVars>>
    BY <1>2, CompleteKeepsStorage, SameStore, AnswerSurvives, PageSurvives DEF ReadInv, queryVars
<1>3. CASE (Ask \/ Execute) /\ UNCHANGED <<storage, reader, pageVars>>
    <2>1. UNCHANGED <<status, complete>>
        BY <1>3 DEF storage
    <2>2. StorageInv' /\ PageInv'
        BY <1>3, <2>1, SameStore, PageSurvives DEF ReadInv, StorageInv
    <2>3. AnswerInv'
        BY <1>3, <2>1, AskKeepsAnswer, ExecuteKeepsAnswer DEF ReadInv
    <2>4. QED
        BY <2>2, <2>3 DEF ReadInv
<1>4. CASE PageNext /\ UNCHANGED <<storage, queryVars, reader>>
    <2>1. UNCHANGED <<status, complete, request, answer>>
        BY <1>4 DEF storage, queryVars
    <2>2. StorageInv' /\ AnswerInv'
        BY <2>1, SameStore, AnswerSurvives DEF ReadInv, StorageInv
    <2>3. PageInv'
        BY <1>4, <2>1, SearchKeepsPage, EditFieldKeepsPage, ServeKeepsPage, RenderKeepsPage,
           FailureKeepsPage, NextKeepsPage, PreviousKeepsPage DEF PageNext, ReadInv
    <2>4. QED
        BY <2>2, <2>3 DEF ReadInv
<1>5. CASE UNCHANGED vars
    <2>1. UNCHANGED <<status, complete, request, answer>> /\ UNCHANGED pageVars
        BY <1>5 DEF vars, storage, queryVars
    <2>2. QED
        BY <2>1, SameStore, AnswerSurvives, PageSurvives DEF ReadInv, StorageInv
<1>6. QED
    BY <1>1, <1>2, <1>3, <1>4, <1>5 DEF Next

LEMMA ReadInvHolds == Spec => []ReadInv
BY ReadInitInv, ReadStepKeepsInv, PTL DEF Spec

----------------------------------------------------------------------------
(* The theorems about requests and pages                                   *)

\* A filing that is reported as parsed comes with all its transactions, though they are
\* read by another statement (filing_detail).
THEOREM DetailIsComplete == Spec => []ParsedComesWithRows
BY ReadInvHolds, AnswersAgree, PTL DEF ReadInv

\* The transactions that are counted include those of every filing that is counted as
\* parsed (summary).
THEOREM SummaryIsCovered == Spec => []SummaryCoversFilings
BY ReadInvHolds, AnswersAgree, PTL DEF ReadInv

\* Turning the pages of the sales list leaves out no row that was there at the first
\* page, whatever is ingested and however the page size is edited meanwhile, unless a
\* search overlaps with another request or a page is requested under other filters
\* than the search (salesPage, search_transactions).
THEOREM NoRowIsSkipped == Spec => []PagingSkipsNothing
<1>1. ReadInv => PagingSkipsNothing
    BY DEF ReadInv, PageInv, InOrder, InStep, Continues, PagingSkipsNothing
<1>2. QED
    BY <1>1, ReadInvHolds, PTL
=============================================================================
