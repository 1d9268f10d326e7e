------------------------- MODULE Backtest_proofs -------------------------
(***************************************************************************)
(* The backtest, for every history, setting and answer of a model: what a  *)
(* model learns from lies in the past, every row of features looks back    *)
(* only, models are replaced in time, the book, the curve and the report   *)
(* agree, levels trade adversely, and the vote of the rules respects those *)
(* who agree and those at an extreme.                                      *)
(***************************************************************************)
EXTENDS BacktestReport, FiniteSetTheorems, TLAPS

(***************************************************************************)
(* Induction on the positions of a series, and the functions defined so.   *)
(***************************************************************************)
LEMMA NatInductive ==
    ASSUME NEW Good \in SUBSET Nat, 0 \in Good, \A n \in Good : n + 1 \in Good
    PROVE  Good = Nat
<1> SUFFICES ASSUME Nat \ Good # {} PROVE FALSE
  OBVIOUS
<1>1. IsWellFoundedOn(OpToRel(<, Nat), Nat)
  BY NatLessThanWellFounded
<1>2. PICK n \in Nat \ Good : \A m \in Nat \ Good : ~ (<<m, n>> \in OpToRel(<, Nat))
  BY <1>1, WFMin
<1>3. \A m \in Nat \ Good : ~(m < n)
  BY <1>2 DEF OpToRel
<1>4. n - 1 \in Nat
  OBVIOUS
<1>5. (n - 1) + 1 \in Good
  BY <1>3, <1>4
<1> QED
  BY <1>4, <1>5

\* A property of the first position that passes on to the next holds at every one.
LEMMA PositionInduction ==
    ASSUME NEW a \in Int, NEW b \in Int, NEW Good \in SUBSET (a .. b),
           a <= b => a \in Good, \A k \in a + 1 .. b : k - 1 \in Good => k \in Good
    PROVE  Good = a .. b
<1> DEFINE Steps == {n \in Nat : a + n <= b => a + n \in Good}
<1>1. 0 \in Steps
  OBVIOUS
<1>2. ASSUME NEW n \in Steps PROVE n + 1 \in Steps
  <2> SUFFICES ASSUME a + (n + 1) <= b PROVE a + (n + 1) \in Good
    OBVIOUS
  <2>1. a + n \in Good /\ (a + (n + 1)) - 1 = a + n /\ a + (n + 1) \in a + 1 .. b
    OBVIOUS
  <2> QED BY <2>1
<1> HIDE DEF Steps
<1>3. Steps = Nat
  <2>1. Steps \in SUBSET Nat
    BY DEF Steps
  <2> QED BY <1>1, <1>2, <2>1, NatInductive
<1>4. ASSUME NEW k \in a .. b PROVE k \in Good
  <2>1. k - a \in Nat /\ a + (k - a) = k
    OBVIOUS
  <2>2. k - a \in Steps
    BY <1>3, <2>1
  <2> QED BY <2>1, <2>2 DEF Steps
<1> QED BY <1>4

\* A series is defined by its first value and by what follows each value.
IsSeries(f, a, b, S, base, G) ==
    /\ f \in [a .. b -> S]
    /\ \A k \in a .. b : f[k] = IF k = a THEN base ELSE G[k][f[k - 1]]

\* Such a series exists, and is unique, as far as one likes.
LEMMA SeriesExists ==
    ASSUME NEW a \in Int, NEW b \in Int, NEW S, NEW base \in S, NEW G \in [Int -> [S -> S]]
    PROVE  \E f : IsSeries(f, a, b, S, base, G)
<1> DEFINE Is(f, c) == \A k \in a .. c : f[k] = IF k = a THEN base ELSE G[k][f[k - 1]]
           Good == {c \in a .. b : \E f \in [a .. c -> S] : Is(f, c)}
<1>1. ASSUME a <= b PROVE a \in Good
  <2> DEFINE f == [k \in a .. a |-> base]
  <2>1. f \in [a .. a -> S] /\ Is(f, a)
    OBVIOUS
  <2> HIDE DEF f, Is
  <2> QED BY <1>1, <2>1
<1>2. ASSUME NEW c \in a + 1 .. b, c - 1 \in Good PROVE c \in Good
  <2>1. PICK f \in [a .. c - 1 -> S] : Is(f, c - 1)
    BY <1>2
  <2> DEFINE g == [k \in a .. c |-> IF k = c THEN G[c][f[c - 1]] ELSE f[k]]
  <2>2. c - 1 \in a .. c - 1 /\ c \in Int
    OBVIOUS
  <2>3. g \in [a .. c -> S]
    BY <2>1, <2>2
  <2>4. ASSUME NEW k \in a .. c PROVE g[k] = IF k = a THEN base ELSE G[k][g[k - 1]]
    <3>1. CASE k = c
      BY <2>2, <3>1
    <3>2. CASE k # c
      <4>1. k \in a .. c - 1 /\ (k # a => k - 1 \in a .. c - 1)
        BY <3>2
      <4>2. g[k] = f[k] /\ (k # a => g[k - 1] = f[k - 1])
        BY <3>2, <4>1
      <4> QED BY <2>1, <4>1, <4>2
    <3> QED BY <3>1, <3>2
  <2>5. Is(g, c)
    BY <2>4
  <2>6. c \in a .. b
    OBVIOUS
  <2> HIDE DEF g, Is
  <2> QED BY <2>3, <2>5, <2>6
<1>3. CASE a <= b
  <2>1. b \in Good
    <3>1. Good \in SUBSET (a .. b)
      OBVIOUS
    <3> HIDE DEF Good
    <3>2. Good = a .. b
      BY <1>1, <1>2, <3>1, PositionInduction
    <3> QED BY <1>3, <3>2
  <2>2. PICK f \in [a .. b -> S] : Is(f, b)
    BY <2>1
  <2> QED BY <2>2 DEF IsSeries
<1>4. CASE b < a
  <2> DEFINE f == [k \in a .. b |-> base]
  <2>1. f \in [a .. b -> S] /\ \A k \in a .. b : f[k] = IF k = a THEN base ELSE G[k][f[k - 1]]
    BY <1>4
  <2> HIDE DEF f
  <2> QED BY <2>1 DEF IsSeries
<1> QED BY <1>3, <1>4

(***************************************************************************)
(* Sums, and the two averages that the indicators are made of.  A series   *)
(* v has integers on the positions first..last.                            *)
(***************************************************************************)
IntegersOn(v, first, last) == \A k \in first .. last : v[k] \in Int

\* SumOver is the last member of the series of its partial sums.
LEMMA SumOverSeries ==
    ASSUME NEW v, NEW a \in Int, NEW b \in Int, a - 1 <= b, IntegersOn(v, a, b)
    PROVE  \E s \in [a - 1 .. b -> Int] :
              /\ SumOver(v, a, b) = s[b]
              /\ \A k \in a - 1 .. b : s[k] = IF k < a THEN 0 ELSE s[k - 1] + v[k]
<1> DEFINE term(k) == IF k \in a .. b THEN v[k] ELSE 0
           G == [k \in Int |-> [x \in Int |-> x + term(k)]]
           Is(s) == s = [k \in a - 1 .. b |-> IF k < a THEN 0 ELSE s[k - 1] + v[k]]
<1>1. G \in [Int -> [Int -> Int]]
  BY DEF IntegersOn
<1>2. PICK f : IsSeries(f, a - 1, b, Int, 0, G)
  <2>1. a - 1 \in Int /\ 0 \in Int
    OBVIOUS
  <2> HIDE DEF G
  <2> QED BY <1>1, <2>1, SeriesExists
<1>3. ASSUME NEW k \in a - 1 .. b
      PROVE  f[k] = IF k < a THEN 0 ELSE f[k - 1] + v[k]
  <2>1. CASE k = a - 1
    <3>1. f[k] = 0
      <4> HIDE DEF G
      <4> QED BY <1>2, <2>1 DEF IsSeries
    <3> QED BY <2>1, <3>1
  <2>2. CASE k # a - 1
    <3>1. k \in a .. b /\ k - 1 \in a - 1 .. b /\ f[k - 1] \in Int /\ k \in Int
      BY <1>2, <2>2 DEF IsSeries
    <3>2. G[k][f[k - 1]] = f[k - 1] + v[k]
      BY <3>1
    <3>3. f[k] = G[k][f[k - 1]]
      BY <1>2, <2>2 DEF IsSeries
    <3> QED BY <3>1, <3>2, <3>3
  <2> QED BY <2>1, <2>2
<1>4. Is(f)
  BY <1>2, <1>3 DEF IsSeries
<1>5. Is(CHOOSE s : Is(s))
  <2> HIDE DEF Is
  <2> QED BY <1>4
<1> DEFINE c == CHOOSE s : Is(s)
<1>6. SumOver(v, a, b) = c[b]
  BY DEF SumOver
<1> HIDE DEF c
<1>7. c = [k \in a - 1 .. b |-> IF k < a THEN 0 ELSE c[k - 1] + v[k]]
  BY <1>5 DEF c
<1>8. \A k \in a - 1 .. b : c[k] = IF k < a THEN 0 ELSE c[k - 1] + v[k]
  BY <1>7
<1>9. c \in [a - 1 .. b -> Int]
  <2> DEFINE Good == {k \in a - 1 .. b : c[k] \in Int}
  <2>1. a - 1 <= b => a - 1 \in Good
    BY <1>8
  <2>2. ASSUME NEW k \in (a - 1) + 1 .. b, k - 1 \in Good PROVE k \in Good
    <3>1. k \in a .. b /\ k \in a - 1 .. b /\ ~(k < a) /\ c[k - 1] \in Int
      BY <2>2
    <3>2. v[k] \in Int
      BY <3>1 DEF IntegersOn
    <3>3. c[k] = c[k - 1] + v[k]
      BY <1>8, <3>1
    <3> QED BY <3>1, <3>2, <3>3
  <2> HIDE DEF Good
  <2>3. Good \in SUBSET (a - 1 .. b) /\ a - 1 \in Int
    BY DEF Good
  <2>4. Good = a - 1 .. b
    BY <2>1, <2>2, <2>3, PositionInduction
  <2> QED BY <1>7, <2>4 DEF Good
<1> QED BY <1>6, <1>8, <1>9

\* A sum is an integer, and takes in one summand at a time.
LEMMA SumOverStep ==
    ASSUME NEW v, NEW a \in Int, NEW b \in Int, a - 1 <= b, IntegersOn(v, a, b)
    PROVE  /\ SumOver(v, a, b) \in Int
           /\ SumOver(v, a, b) = IF b < a THEN 0 ELSE SumOver(v, a, b - 1) + v[b]
<1>1. PICK s \in [a - 1 .. b -> Int] :
        /\ SumOver(v, a, b) = s[b]
        /\ \A k \in a - 1 .. b : s[k] = IF k < a THEN 0 ELSE s[k - 1] + v[k]
  BY SumOverSeries
<1>2. ASSUME a <= b PROVE SumOver(v, a, b - 1) = s[b - 1]
  <2>1. IntegersOn(v, a, b - 1) /\ a - 1 <= b - 1 /\ b - 1 \in Int
    BY <1>2 DEF IntegersOn
  <2>2. PICK r \in [a - 1 .. b - 1 -> Int] :
          /\ SumOver(v, a, b - 1) = r[b - 1]
          /\ \A k \in a - 1 .. b - 1 : r[k] = IF k < a THEN 0 ELSE r[k - 1] + v[k]
    BY <2>1, SumOverSeries
  <2> DEFINE Good == {k \in a - 1 .. b - 1 : r[k] = s[k]}
  <2>3. a - 1 <= b - 1 => a - 1 \in Good
    BY <1>1, <2>1, <2>2
  <2>4. ASSUME NEW k \in (a - 1) + 1 .. b - 1, k - 1 \in Good PROVE k \in Good
    BY <1>1, <2>2, <2>4
  <2> HIDE DEF Good
  <2>5. Good \in SUBSET (a - 1 .. b - 1) /\ a - 1 \in Int /\ b - 1 \in Int
    BY DEF Good
  <2>6. Good = a - 1 .. b - 1
    BY <2>3, <2>4, <2>5, PositionInduction
  <2>7. b - 1 \in Good
    BY <2>1, <2>6
  <2> QED BY <2>2, <2>7 DEF Good
<1> QED BY <1>1, <1>2

\* A sum looks at nothing but its own positions.
LEMMA SumOverSame ==
    ASSUME NEW v, NEW w, NEW a \in Int, NEW b \in Int, a - 1 <= b, IntegersOn(v, a, b),
           \A k \in a .. b : w[k] = v[k]
    PROVE  SumOver(w, a, b) = SumOver(v, a, b)
<1> DEFINE Good == {k \in a - 1 .. b : SumOver(w, a, k) = SumOver(v, a, k)}
<1>0. \A k \in a - 1 .. b : IntegersOn(v, a, k) /\ IntegersOn(w, a, k) /\ a - 1 <= k /\ k \in Int
  BY DEF IntegersOn
<1>1. a - 1 <= b => a - 1 \in Good
  <2>1. a - 1 \in a - 1 .. b /\ a - 1 < a
    OBVIOUS
  <2>2. SumOver(w, a, a - 1) = 0 /\ SumOver(v, a, a - 1) = 0
    BY <1>0, <2>1, SumOverStep
  <2> QED BY <2>1, <2>2
<1>2. ASSUME NEW k \in (a - 1) + 1 .. b, k - 1 \in Good PROVE k \in Good
  <2>1. k \in a .. b /\ k \in a - 1 .. b /\ ~(k < a)
    OBVIOUS
  <2>2. SumOver(w, a, k) = SumOver(w, a, k - 1) + w[k]
        /\ SumOver(v, a, k) = SumOver(v, a, k - 1) + v[k]
    BY <1>0, <2>1, SumOverStep
  <2> QED BY <1>2, <2>1, <2>2
<1> HIDE DEF Good
<1>3. Good \in SUBSET (a - 1 .. b) /\ a - 1 \in Int
  BY DEF Good
<1>4. Good = a - 1 .. b
  BY <1>1, <1>2, <1>3, PositionInduction
<1> QED BY <1>4 DEF Good

\* The same for a mean.
LEMMA MeanOverSame ==
    ASSUME NEW v, NEW w, NEW a \in Int, NEW b \in Int, a <= b, IntegersOn(v, a, b),
           \A k \in a .. b : w[k] = v[k]
    PROVE  MeanOver(w, a, b) = MeanOver(v, a, b) /\ MeanOver(v, a, b) \in Int
<1>1. SumOver(w, a, b) = SumOver(v, a, b) /\ SumOver(v, a, b) \in Int
  BY SumOverSame, SumOverStep
<1>2. b - a + 1 \in Nat \ {0}
  OBVIOUS
<1> QED BY <1>1, <1>2 DEF MeanOver

\* The averages are the series that their definitions say they are.
EmaNext(v, p, k, x) == (2 * v[k] + (p - 1) * x) \div (p + 1)
\* The value after another of Wilder's smoothing.
WilderNext(v, p, k, x) == ((p - 1) * x + v[k]) \div p

\* What these averages are: a mean, and what follows it.
IsEma(e, v, first, last, p) ==
    LET seed == first + p - 1
    IN  /\ e \in [seed .. last -> Int]
        /\ \A k \in seed .. last :
              e[k] = IF k = seed THEN MeanOver(v, first, seed) ELSE EmaNext(v, p, k, e[k - 1])

IsWilder(e, v, first, last, p) ==
    LET seed == first + p - 1
    IN  /\ e \in [seed .. last -> Int]
        /\ \A k \in seed .. last :
              e[k] = IF k = seed THEN MeanOver(v, first, seed) ELSE WilderNext(v, p, k, e[k - 1])

\* Ema is the series that EmaNext defines; before its seed there is none.
LEMMA EmaIs ==
    ASSUME NEW v, NEW first \in Int, NEW last \in Int, NEW p \in Nat \ {0},
           IntegersOn(v, first, last)
    PROVE  IsEma(Ema(v, first, last, p), v, first, last, p)
<1> DEFINE seed == first + p - 1
           term(k) == IF k \in first .. last THEN v[k] ELSE 0
           G == [k \in Int |-> [x \in Int |-> (2 * term(k) + (p - 1) * x) \div (p + 1)]]
           base == IF seed <= last THEN MeanOver(v, first, seed) ELSE 0
           Is(e) == e = [k \in seed .. last |->
                            IF k = seed THEN MeanOver(v, first, seed)
                                        ELSE (2 * v[k] + (p - 1) * e[k - 1]) \div (p + 1)]
<1>1. seed \in Int /\ first <= seed /\ seed .. last \subseteq first .. last
  OBVIOUS
<1>2. base \in Int
  <2>1. ASSUME seed <= last PROVE MeanOver(v, first, seed) \in Int
    <3>1. IntegersOn(v, first, seed)
      BY <2>1 DEF IntegersOn
    <3> HIDE DEF seed
    <3> QED BY <1>1, <3>1, MeanOverSame
  <2> QED BY <2>1
<1>3. G \in [Int -> [Int -> Int]]
  <2> SUFFICES ASSUME NEW k \in Int, NEW x \in Int
               PROVE (2 * term(k) + (p - 1) * x) \div (p + 1) \in Int
    OBVIOUS
  <2>1. term(k) \in Int
    BY DEF IntegersOn
  <2> HIDE DEF term
  <2>2. 2 * term(k) + (p - 1) * x \in Int /\ p + 1 \in Nat \ {0}
    BY <2>1
  <2> QED BY <2>2
<1> HIDE DEF seed, base
<1>4. PICK f : IsSeries(f, seed, last, Int, base, G)
  <2> HIDE DEF G
  <2> QED BY <1>1, <1>2, <1>3, SeriesExists
<1>5. f \in [seed .. last -> Int]
  BY <1>4 DEF IsSeries
<1>6. ASSUME NEW k \in seed .. last
      PROVE  f[k] = IF k = seed THEN MeanOver(v, first, seed)
                    ELSE (2 * v[k] + (p - 1) * f[k - 1]) \div (p + 1)
  <2>1. CASE k = seed
    <3>1. f[k] = base
      <4> HIDE DEF G
      <4> QED BY <1>4, <2>1 DEF IsSeries
    <3>2. seed <= last
      BY <1>1, <2>1
    <3> QED BY <2>1, <3>1, <3>2 DEF base
  <2>2. CASE k # seed
    <3>1. k \in first .. last /\ k - 1 \in seed .. last /\ k \in Int
      BY <1>1, <2>2
    <3>2. f[k - 1] \in Int
      BY <1>5, <3>1
    <3>3. f[k] = G[k][f[k - 1]]
      <4> HIDE DEF G
      <4> QED BY <1>4, <2>2 DEF IsSeries
    <3>4. G[k][f[k - 1]] = (2 * term(k) + (p - 1) * f[k - 1]) \div (p + 1) /\ term(k) = v[k]
      BY <3>1, <3>2
    <3> QED BY <2>2, <3>3, <3>4
  <2> QED BY <2>1, <2>2
<1>7. Is(f)
  BY <1>5, <1>6
<1>8. Is(CHOOSE e : Is(e))
  <2> HIDE DEF Is
  <2> QED BY <1>7
<1> DEFINE c == CHOOSE e : Is(e)
<1>9. Ema(v, first, last, p) = c
  BY DEF Ema, seed
<1> HIDE DEF c
<1>10. c = [k \in seed .. last |->
                            IF k = seed THEN MeanOver(v, first, seed)
                                        ELSE (2 * v[k] + (p - 1) * c[k - 1]) \div (p + 1)]
  BY <1>8 DEF c
<1>11. DOMAIN c = seed .. last
       /\ \A k \in seed .. last : c[k] = IF k = seed THEN MeanOver(v, first, seed)
                                        ELSE EmaNext(v, p, k, c[k - 1])
  BY <1>10 DEF EmaNext
<1>12. c \in [seed .. last -> Int]
  <2> DEFINE Good == {k \in seed .. last : c[k] \in Int}
  <2>1. seed <= last => seed \in Good
    BY <1>1, <1>2, <1>11 DEF base
  <2>2. ASSUME NEW k \in seed + 1 .. last, k - 1 \in Good PROVE k \in Good
    <3>1. k \in seed .. last /\ k # seed /\ k \in first .. last /\ c[k - 1] \in Int
      BY <1>1, <2>2
    <3>2. v[k] \in Int
      BY <3>1 DEF IntegersOn
    <3>3. 2 * v[k] + (p - 1) * c[k - 1] \in Int /\ p + 1 \in Nat \ {0}
      BY <3>1, <3>2
    <3>4. c[k] = (2 * v[k] + (p - 1) * c[k - 1]) \div (p + 1)
      BY <1>11, <3>1 DEF EmaNext
    <3> QED BY <3>1, <3>3, <3>4
  <2> HIDE DEF Good
  <2>3. Good \in SUBSET (seed .. last)
    BY DEF Good
  <2>4. Good = seed .. last
    BY <1>1, <2>1, <2>2, <2>3, PositionInduction
  <2> QED BY <1>10, <2>4 DEF Good
<1> QED BY <1>9, <1>11, <1>12 DEF seed, IsEma

\* The same for the smoothing of RSI and ATR.
LEMMA WilderIs ==
    ASSUME NEW v, NEW first \in Int, NEW last \in Int, NEW p \in Nat \ {0},
           IntegersOn(v, first, last)
    PROVE  IsWilder(Wilder(v, first, last, p), v, first, last, p)
<1> DEFINE seed == first + p - 1
           term(k) == IF k \in first .. last THEN v[k] ELSE 0
           G == [k \in Int |-> [x \in Int |-> ((p - 1) * x + term(k)) \div p]]
           base == IF seed <= last THEN MeanOver(v, first, seed) ELSE 0
           Is(e) == e = [k \in seed .. last |->
                            IF k = seed THEN MeanOver(v, first, seed)
                                        ELSE ((p - 1) * e[k - 1] + v[k]) \div p]
<1>1. seed \in Int /\ first <= seed /\ seed .. last \subseteq first .. last
  OBVIOUS
<1>2. base \in Int
  <2>1. ASSUME seed <= last PROVE MeanOver(v, first, seed) \in Int
    <3>1. IntegersOn(v, first, seed)
      BY <2>1 DEF IntegersOn
    <3> HIDE DEF seed
    <3> QED BY <1>1, <3>1, MeanOverSame
  <2> QED BY <2>1
<1>3. G \in [Int -> [Int -> Int]]
  <2> SUFFICES ASSUME NEW k \in Int, NEW x \in Int
               PROVE ((p - 1) * x + term(k)) \div p \in Int
    OBVIOUS
  <2>1. term(k) \in Int
    BY DEF IntegersOn
  <2> HIDE DEF term
  <2>2. (p - 1) * x + term(k) \in Int /\ p \in Nat \ {0}
    BY <2>1
  <2> QED BY <2>2
<1> HIDE DEF seed, base
<1>4. PICK f : IsSeries(f, seed, last, Int, base, G)
  <2> HIDE DEF G
  <2> QED BY <1>1, <1>2, <1>3, SeriesExists
<1>5. f \in [seed .. last -> Int]
  BY <1>4 DEF IsSeries
<1>6. ASSUME NEW k \in seed .. last
      PROVE  f[k] = IF k = seed THEN MeanOver(v, first, seed)
                    ELSE ((p - 1) * f[k - 1] + v[k]) \div p
  <2>1. CASE k = seed
    <3>1. f[k] = base
      <4> HIDE DEF G
      <4> QED BY <1>4, <2>1 DEF IsSeries
    <3>2. seed <= last
      BY <1>1, <2>1
    <3> QED BY <2>1, <3>1, <3>2 DEF base
  <2>2. CASE k # seed
    <3>1. k \in first .. last /\ k - 1 \in seed .. last /\ k \in Int
      BY <1>1, <2>2
    <3>2. f[k - 1] \in Int
      BY <1>5, <3>1
    <3>3. f[k] = G[k][f[k - 1]]
      <4> HIDE DEF G
      <4> QED BY <1>4, <2>2 DEF IsSeries
    <3>4. G[k][f[k - 1]] = ((p - 1) * f[k - 1] + term(k)) \div p /\ term(k) = v[k]
      BY <3>1, <3>2
    <3> QED BY <2>2, <3>3, <3>4
  <2> QED BY <2>1, <2>2
<1>7. Is(f)
  BY <1>5, <1>6
<1>8. Is(CHOOSE e : Is(e))
  <2> HIDE DEF Is
  <2> QED BY <1>7
<1> DEFINE c == CHOOSE e : Is(e)
<1>9. Wilder(v, first, last, p) = c
  BY DEF Wilder, seed
<1> HIDE DEF c
<1>10. c = [k \in seed .. last |->
                            IF k = seed THEN MeanOver(v, first, seed)
                                        ELSE ((p - 1) * c[k - 1] + v[k]) \div p]
  BY <1>8 DEF c
<1>11. DOMAIN c = seed .. last
       /\ \A k \in seed .. last : c[k] = IF k = seed THEN MeanOver(v, first, seed)
                                        ELSE WilderNext(v, p, k, c[k - 1])
  BY <1>10 DEF WilderNext
<1>12. c \in [seed .. last -> Int]
  <2> DEFINE Good == {k \in seed .. last : c[k] \in Int}
  <2>1. seed <= last => seed \in Good
    BY <1>1, <1>2, <1>11 DEF base
  <2>2. ASSUME NEW k \in seed + 1 .. last, k - 1 \in Good PROVE k \in Good
    <3>1. k \in seed .. last /\ k # seed /\ k \in first .. last /\ c[k - 1] \in Int
      BY <1>1, <2>2
    <3>2. v[k] \in Int
      BY <3>1 DEF IntegersOn
    <3>3. (p - 1) * c[k - 1] + v[k] \in Int /\ p \in Nat \ {0}
      BY <3>1, <3>2
    <3>4. c[k] = ((p - 1) * c[k - 1] + v[k]) \div p
      BY <1>11, <3>1 DEF WilderNext
    <3> QED BY <3>1, <3>3, <3>4
  <2> HIDE DEF Good
  <2>3. Good \in SUBSET (seed .. last)
    BY DEF Good
  <2>4. Good = seed .. last
    BY <1>1, <2>1, <2>2, <2>3, PositionInduction
  <2> QED BY <1>10, <2>4 DEF Good
<1> QED BY <1>9, <1>11, <1>12 DEF seed, IsWilder

\* An average looks at nothing behind the position it is taken at: a series that
\* is cut off after m has the same averages up to there.
LEMMA EmaPrefix ==
    ASSUME NEW v, NEW w, NEW first \in Int, NEW last \in Int, NEW p \in Nat \ {0},
           NEW m \in Int, m <= last, IntegersOn(v, first, last),
           \A k \in first .. m : w[k] = v[k]
    PROVE  \A k \in first + p - 1 .. m :
              /\ Ema(w, first, m, p)[k] = Ema(v, first, last, p)[k]
              /\ Ema(v, first, last, p)[k] \in Int
<1> DEFINE seed == first + p - 1
           e == Ema(v, first, last, p)
           d == Ema(w, first, m, p)
           Good == {k \in seed .. m : d[k] = e[k]}
<1>1. IntegersOn(w, first, m)
  BY DEF IntegersOn
<1>2. /\ e \in [seed .. last -> Int]
      /\ \A k \in seed .. last :
            e[k] = IF k = seed THEN MeanOver(v, first, seed) ELSE EmaNext(v, p, k, e[k - 1])
  <2>1. IsEma(e, v, first, last, p)
    BY EmaIs
  <2> HIDE DEF e
  <2> QED BY <2>1 DEF IsEma
<1>3. /\ d \in [seed .. m -> Int]
      /\ \A k \in seed .. m :
            d[k] = IF k = seed THEN MeanOver(w, first, seed) ELSE EmaNext(w, p, k, d[k - 1])
  <2>1. IsEma(d, w, first, m, p)
    BY <1>1, EmaIs
  <2> HIDE DEF d
  <2> QED BY <2>1 DEF IsEma
<1> HIDE DEF e, d
<1>4. seed \in Int /\ first <= seed /\ seed .. m \subseteq seed .. last
  OBVIOUS
<1>5. seed <= m => seed \in Good
  <2> SUFFICES ASSUME seed <= m PROVE seed \in Good
    OBVIOUS
  <2>1. MeanOver(w, first, seed) = MeanOver(v, first, seed)
    <3>1. IntegersOn(v, first, seed) /\ \A k \in first .. seed : w[k] = v[k]
      BY DEF IntegersOn
    <3> HIDE DEF seed
    <3> QED BY <1>4, <3>1, MeanOverSame
  <2>2. seed \in seed .. m /\ seed \in seed .. last
    BY <1>4
  <2> QED BY <1>2, <1>3, <2>1, <2>2
<1>6. ASSUME NEW k \in seed + 1 .. m, k - 1 \in Good PROVE k \in Good
  <2>1. k \in seed .. m /\ k \in seed .. last /\ k # seed /\ w[k] = v[k]
    BY <1>4
  <2>2. EmaNext(w, p, k, d[k - 1]) = EmaNext(v, p, k, e[k - 1])
    BY <1>6, <2>1 DEF EmaNext
  <2> QED BY <1>2, <1>3, <2>1, <2>2
<1> HIDE DEF Good
<1>7. Good \in SUBSET (seed .. m)
  BY DEF Good
<1> HIDE DEF seed
<1>8. Good = seed .. m
  BY <1>4, <1>5, <1>6, <1>7, PositionInduction
<1> QED BY <1>2, <1>4, <1>8 DEF Good, seed, e, d

\* The same for the smoothing of RSI and ATR.
LEMMA WilderPrefix ==
    ASSUME NEW v, NEW w, NEW first \in Int, NEW last \in Int, NEW p \in Nat \ {0},
           NEW m \in Int, m <= last, IntegersOn(v, first, last),
           \A k \in first .. m : w[k] = v[k]
    PROVE  \A k \in first + p - 1 .. m :
              /\ Wilder(w, first, m, p)[k] = Wilder(v, first, last, p)[k]
              /\ Wilder(v, first, last, p)[k] \in Int
<1> DEFINE seed == first + p - 1
           e == Wilder(v, first, last, p)
           d == Wilder(w, first, m, p)
           Good == {k \in seed .. m : d[k] = e[k]}
<1>1. IntegersOn(w, first, m)
  BY DEF IntegersOn
<1>2. /\ e \in [seed .. last -> Int]
      /\ \A k \in seed .. last :
            e[k] = IF k = seed THEN MeanOver(v, first, seed) ELSE WilderNext(v, p, k, e[k - 1])
  <2>1. IsWilder(e, v, first, last, p)
    BY WilderIs
  <2> HIDE DEF e
  <2> QED BY <2>1 DEF IsWilder
<1>3. /\ d \in [seed .. m -> Int]
      /\ \A k \in seed .. m :
            d[k] = IF k = seed THEN MeanOver(w, first, seed) ELSE WilderNext(w, p, k, d[k - 1])
  <2>1. IsWilder(d, w, first, m, p)
    BY <1>1, WilderIs
  <2> HIDE DEF d
  <2> QED BY <2>1 DEF IsWilder
<1> HIDE DEF e, d
<1>4. seed \in Int /\ first <= seed /\ seed .. m \subseteq seed .. last
  OBVIOUS
<1>5. seed <= m => seed \in Good
  <2> SUFFICES ASSUME seed <= m PROVE seed \in Good
    OBVIOUS
  <2>1. MeanOver(w, first, seed) = MeanOver(v, first, seed)
    <3>1. IntegersOn(v, first, seed) /\ \A k \in first .. seed : w[k] = v[k]
      BY DEF IntegersOn
    <3> HIDE DEF seed
    <3> QED BY <1>4, <3>1, MeanOverSame
  <2>2. seed \in seed .. m /\ seed \in seed .. last
    BY <1>4
  <2> QED BY <1>2, <1>3, <2>1, <2>2
<1>6. ASSUME NEW k \in seed + 1 .. m, k - 1 \in Good PROVE k \in Good
  <2>1. k \in seed .. m /\ k \in seed .. last /\ k # seed /\ w[k] = v[k]
    BY <1>4
  <2>2. WilderNext(w, p, k, d[k - 1]) = WilderNext(v, p, k, e[k - 1])
    BY <1>6, <2>1 DEF WilderNext
  <2> QED BY <1>2, <1>3, <2>1, <2>2
<1> HIDE DEF Good
<1>7. Good \in SUBSET (seed .. m)
  BY DEF Good
<1> HIDE DEF seed
<1>8. Good = seed .. m
  BY <1>4, <1>5, <1>6, <1>7, PositionInduction
<1> QED BY <1>2, <1>4, <1>8 DEF Good, seed, e, d

(***************************************************************************)
(* Features look back only.                                                *)
(***************************************************************************)
\* A series that is cut off.
CutOff(w, v) ==
    /\ w \in Seq(Int) /\ v \in Seq(Int)
    /\ Len(w) <= Len(v)
    /\ \A k \in 1 .. Len(w) : w[k] = v[k]

\* What is used of one.
LEMMA CutOffFacts ==
    ASSUME NEW w, NEW v, CutOff(w, v)
    PROVE  /\ Len(w) \in Nat /\ Len(v) \in Nat /\ Len(w) <= Len(v)
           /\ IntegersOn(w, 1, Len(w)) /\ IntegersOn(v, 1, Len(v))
           /\ \A k \in 1 .. Len(w) : w[k] = v[k]
BY DEF CutOff, IntegersOn

\* An average of the series cut off is the average, cut off.
LEMMA EmaCut ==
    ASSUME NEW w, NEW v, CutOff(w, v), NEW p \in Nat \ {0}
    PROVE  /\ DOMAIN Ema(w, 1, Len(w), p) = p .. Len(w)
           /\ DOMAIN Ema(v, 1, Len(v), p) = p .. Len(v)
           /\ \A k \in p .. Len(w) :
                 /\ Ema(w, 1, Len(w), p)[k] = Ema(v, 1, Len(v), p)[k]
                 /\ Ema(w, 1, Len(w), p)[k] \in Int
           /\ \A k \in p .. Len(v) : Ema(v, 1, Len(v), p)[k] \in Int
<1>1. 1 \in Int /\ 1 + p - 1 = p
  OBVIOUS
<1>2. DOMAIN Ema(w, 1, Len(w), p) = 1 + p - 1 .. Len(w)
  BY <1>1, CutOffFacts, EmaIs DEF IsEma
<1>3. /\ DOMAIN Ema(v, 1, Len(v), p) = 1 + p - 1 .. Len(v)
      /\ \A k \in 1 + p - 1 .. Len(v) : Ema(v, 1, Len(v), p)[k] \in Int
  BY <1>1, CutOffFacts, EmaIs DEF IsEma
<1>4. \A k \in 1 + p - 1 .. Len(w) :
         /\ Ema(w, 1, Len(w), p)[k] = Ema(v, 1, Len(v), p)[k]
         /\ Ema(v, 1, Len(v), p)[k] \in Int
  <2> DEFINE one == 1
             m == Len(w)
             n == Len(v)
  <2>1. one \in Int /\ m \in Int /\ n \in Int /\ m <= n /\ IntegersOn(v, one, n)
        /\ \A k \in one .. m : w[k] = v[k]
    BY CutOffFacts
  <2> HIDE DEF one, m, n
  <2>2. \A k \in one + p - 1 .. m :
         /\ Ema(w, one, m, p)[k] = Ema(v, one, n, p)[k]
         /\ Ema(v, one, n, p)[k] \in Int
    BY <2>1, EmaPrefix
  <2> QED BY <2>2 DEF one, m, n
<1> QED BY <1>1, <1>2, <1>3, <1>4

\* Gains, losses and true ranges look at one position before.
LEMMA LargerType == \A x, y \in Int : Larger(x, y) \in Int
BY DEF Larger

\* Gains and losses between neighbours look one position back.
LEMMA MovesCut ==
    ASSUME NEW w, NEW v, CutOff(w, v)
    PROVE  /\ IntegersOn(Gains(v), 2, Len(v)) /\ IntegersOn(Losses(v), 2, Len(v))
           /\ \A k \in 2 .. Len(w) : Gains(w)[k] = Gains(v)[k] /\ Losses(w)[k] = Losses(v)[k]
<1>1. ASSUME NEW k \in 2 .. Len(v) PROVE Gains(v)[k] \in Int /\ Losses(v)[k] \in Int
  <2>1. v[k] - v[k - 1] \in Int /\ v[k - 1] - v[k] \in Int
    <3>1. k \in 1 .. Len(v) /\ k - 1 \in 1 .. Len(v)
      BY CutOffFacts
    <3>2. v[k] \in Int /\ v[k - 1] \in Int
      BY <3>1, CutOffFacts DEF IntegersOn
    <3> QED BY <3>2
  <2> DEFINE up == v[k] - v[k - 1]
             down == v[k - 1] - v[k]
  <2>2. Gains(v)[k] = 100 * Larger(up, 0) /\ Losses(v)[k] = 100 * Larger(down, 0)
    BY DEF Gains, Losses
  <2>3. up \in Int /\ down \in Int
    BY <2>1
  <2> HIDE DEF up, down
  <2>5. 0 \in Int
    OBVIOUS
  <2>4. Larger(up, 0) \in Int /\ Larger(down, 0) \in Int
    BY <2>3, <2>5, LargerType
  <2> QED BY <2>2, <2>4
<1>2. ASSUME NEW k \in 2 .. Len(w)
      PROVE Gains(w)[k] = Gains(v)[k] /\ Losses(w)[k] = Losses(v)[k]
  <2>1. k \in 2 .. Len(v) /\ k \in 1 .. Len(w) /\ k - 1 \in 1 .. Len(w)
    BY CutOffFacts
  <2>2. w[k] = v[k] /\ w[k - 1] = v[k - 1]
    BY <2>1, CutOffFacts
  <2> QED BY <2>1, <2>2 DEF Gains, Losses
<1> QED BY <1>1, <1>2 DEF IntegersOn

\* Two series that agree wherever the shorter one is defined.
SameOn(w, v, first, last) == \A k \in first .. last : w[k] = v[k]

\* Wilder's smoothing of what is given from the second position on.
LEMMA SmoothedCut ==
    ASSUME NEW a, NEW b, NEW m \in Int, NEW n \in Int, m <= n, NEW p \in Nat \ {0},
           IntegersOn(b, 2, n), SameOn(a, b, 2, m)
    PROVE  \A k \in p + 1 .. m : Wilder(a, 2, m, p)[k] = Wilder(b, 2, n, p)[k]
<1> DEFINE two == 2
<1>1. two \in Int /\ IntegersOn(b, two, n) /\ \A j \in two .. m : a[j] = b[j]
  BY DEF SameOn
<1>2. two + p - 1 = p + 1
  OBVIOUS
<1> HIDE DEF two
<1>3. \A k \in two + p - 1 .. m :
         /\ Wilder(a, two, m, p)[k] = Wilder(b, two, n, p)[k]
         /\ Wilder(b, two, n, p)[k] \in Int
  BY <1>1, WilderPrefix
<1> QED BY <1>2, <1>3 DEF two

\* The RSI column looks back only.
LEMMA RsiColumnCut ==
    ASSUME NEW w, NEW v, CutOff(w, v), NEW p \in Nat \ {0}, NEW k \in p + 1 .. Len(w)
    PROVE  RsiColumn(w, p)[k] = RsiColumn(v, p)[k]
<1>1. 2 \in Int /\ 2 + p - 1 = p + 1 /\ k \in p + 1 .. Len(v) /\ Len(w) \in Int /\ Len(v) \in Int
  BY CutOffFacts
<1> DEFINE gw == Wilder(Gains(w), 2, Len(w), p)
           gv == Wilder(Gains(v), 2, Len(v), p)
           lw == Wilder(Losses(w), 2, Len(w), p)
           lv == Wilder(Losses(v), 2, Len(v), p)
<1>2. gw[k] = gv[k]
  <2>1. SameOn(Gains(w), Gains(v), 2, Len(w))
    BY MovesCut DEF SameOn
  <2>2. IntegersOn(Gains(v), 2, Len(v)) /\ Len(w) <= Len(v)
    BY MovesCut, CutOffFacts
  <2> QED BY <1>1, <2>1, <2>2, SmoothedCut
<1>3. lw[k] = lv[k]
  <2>1. SameOn(Losses(w), Losses(v), 2, Len(w))
    BY MovesCut DEF SameOn
  <2>2. IntegersOn(Losses(v), 2, Len(v)) /\ Len(w) <= Len(v)
    BY MovesCut, CutOffFacts
  <2> QED BY <1>1, <2>1, <2>2, SmoothedCut
<1>4. RsiColumn(w, p)[k] =
        RsiOf(gw[k], lw[k], IF gw[k] > 0 THEN 10000 ELSE IF k = p + 1 THEN 0 ELSE 5000)
  BY DEF RsiColumn
<1>5. RsiColumn(v, p)[k] =
        RsiOf(gv[k], lv[k], IF gv[k] > 0 THEN 10000 ELSE IF k = p + 1 THEN 0 ELSE 5000)
  BY <1>1 DEF RsiColumn
<1> QED BY <1>2, <1>3, <1>4, <1>5

\* The histogram, and whether it crossed zero lately.
LEMMA HistCut ==
    ASSUME NEW w, NEW v, CutOff(w, v)
    PROVE  LET s == MacdSlow + MacdSignal - 1
           IN  /\ DOMAIN HistColumn(w) = s .. Len(w)
               /\ DOMAIN HistColumn(v) = s .. Len(v)
               /\ \A k \in s .. Len(w) : HistColumn(w)[k] = HistColumn(v)[k]
<1>0. /\ MacdFast \in Nat \ {0} /\ MacdSlow \in Nat \ {0} /\ MacdSignal \in Nat \ {0}
      /\ MacdFast <= MacdSlow
  BY IndicatorAssumption
<1> DEFINE n == Len(v)
           m == Len(w)
           lw == MacdLine(w, MacdFast, MacdSlow)
           lv == MacdLine(v, MacdFast, MacdSlow)
           s == MacdSlow + MacdSignal - 1
<1>1. m \in Nat /\ n \in Nat /\ m <= n
  BY CutOffFacts
<1>2. IntegersOn(lv, MacdSlow, n)
  <2>1. ASSUME NEW k \in MacdSlow .. n PROVE lv[k] \in Int
    <3>1. k \in MacdFast .. n
      BY <1>0, <1>1
    <3>2. Ema(v, 1, n, MacdFast)[k] \in Int /\ Ema(v, 1, n, MacdSlow)[k] \in Int
      BY <1>0, <3>1, EmaCut
    <3>3. lv[k] = Ema(v, 1, n, MacdFast)[k] - Ema(v, 1, n, MacdSlow)[k]
      BY DEF MacdLine
    <3> QED BY <3>2, <3>3
  <2> QED BY <2>1 DEF IntegersOn
<1>3. \A k \in MacdSlow .. m : lw[k] = lv[k]
  <2>1. ASSUME NEW k \in MacdSlow .. m PROVE lw[k] = lv[k]
    <3>1. k \in MacdFast .. m /\ k \in MacdSlow .. n
      BY <1>0, <1>1
    <3>2. Ema(w, 1, m, MacdFast)[k] = Ema(v, 1, n, MacdFast)[k]
          /\ Ema(w, 1, m, MacdSlow)[k] = Ema(v, 1, n, MacdSlow)[k]
      BY <1>0, <3>1, EmaCut
    <3>3. lv[k] = Ema(v, 1, n, MacdFast)[k] - Ema(v, 1, n, MacdSlow)[k]
          /\ lw[k] = Ema(w, 1, m, MacdFast)[k] - Ema(w, 1, m, MacdSlow)[k]
      BY <3>1 DEF MacdLine
    <3> QED BY <3>2, <3>3
  <2> QED BY <2>1
<1> HIDE DEF lw, lv, n, m
<1>4. IntegersOn(lw, MacdSlow, m)
  BY <1>0, <1>1, <1>2, <1>3 DEF IntegersOn
<1>5. /\ DOMAIN Ema(lw, MacdSlow, m, MacdSignal) = s .. m
      /\ DOMAIN Ema(lv, MacdSlow, n, MacdSignal) = s .. n
      /\ \A k \in s .. m :
            Ema(lw, MacdSlow, m, MacdSignal)[k] = Ema(lv, MacdSlow, n, MacdSignal)[k]
  <2>1. MacdSlow \in Int /\ m \in Int /\ n \in Int
    BY <1>0, <1>1
  <2>2. DOMAIN Ema(lw, MacdSlow, m, MacdSignal) = s .. m
    BY <1>0, <1>4, <2>1, EmaIs DEF IsEma
  <2>3. DOMAIN Ema(lv, MacdSlow, n, MacdSignal) = s .. n
    BY <1>0, <1>2, <2>1, EmaIs DEF IsEma
  <2>4. \A k \in s .. m :
            Ema(lw, MacdSlow, m, MacdSignal)[k] = Ema(lv, MacdSlow, n, MacdSignal)[k]
    BY <1>0, <1>1, <1>2, <1>3, <2>1, EmaPrefix
  <2> QED BY <2>2, <2>3, <2>4
<1>6. HistColumn(w) = [k \in DOMAIN Ema(lw, MacdSlow, m, MacdSignal) |->
                          lw[k] - Ema(lw, MacdSlow, m, MacdSignal)[k]]
      /\ HistColumn(v) = [k \in DOMAIN Ema(lv, MacdSlow, n, MacdSignal) |->
                          lv[k] - Ema(lv, MacdSlow, n, MacdSignal)[k]]
  BY DEF HistColumn, Macd, lw, lv, m, n
<1>7. ASSUME NEW k \in s .. m PROVE HistColumn(w)[k] = HistColumn(v)[k]
  <2>1. k \in s .. n /\ k \in MacdSlow .. m
    BY <1>0, <1>1
  <2> HIDE DEF s
  <2>2. lw[k] = lv[k]
        /\ Ema(lw, MacdSlow, m, MacdSignal)[k] = Ema(lv, MacdSlow, n, MacdSignal)[k]
    BY <1>3, <1>5, <2>1
  <2> QED BY <1>5, <1>6, <2>1, <2>2
<1> QED BY <1>5, <1>6, <1>7 DEF m, n

\* The crossing of two averages is read off two neighbouring positions.
LEMMA CrossedCut ==
    ASSUME NEW w, NEW v, CutOff(w, v), NEW k \in 1 .. Len(w)
    PROVE  Crossed(HistColumn(w), k) <=> Crossed(HistColumn(v), k)
<1> DEFINE s == MacdSlow + MacdSignal - 1
<1>0. s \in Int /\ Len(w) \in Nat /\ Len(v) \in Nat /\ Len(w) <= Len(v)
  BY IndicatorAssumption, CutOffFacts
<1>1. /\ DOMAIN HistColumn(w) = s .. Len(w)
      /\ DOMAIN HistColumn(v) = s .. Len(v)
      /\ \A j \in s .. Len(w) : HistColumn(w)[j] = HistColumn(v)[j]
  BY HistCut
<1> HIDE DEF s
<1>2. ASSUME NEW lag \in 1 .. 3
      PROVE  /\ {k - lag, k - lag + 1} \subseteq DOMAIN HistColumn(w)
                <=> {k - lag, k - lag + 1} \subseteq DOMAIN HistColumn(v)
             /\ {k - lag, k - lag + 1} \subseteq DOMAIN HistColumn(w) =>
                   /\ HistColumn(w)[k - lag] = HistColumn(v)[k - lag]
                   /\ HistColumn(w)[k - lag + 1] = HistColumn(v)[k - lag + 1]
  <2>1. k - lag <= Len(w) /\ k - lag + 1 <= Len(w) /\ k - lag \in Int /\ k - lag + 1 \in Int
    BY <1>0
  <2>2. \A j \in {k - lag, k - lag + 1} : j \in s .. Len(w) <=> j \in s .. Len(v)
    BY <1>0, <2>1
  <2> QED BY <1>1, <2>2
<1> QED BY <1>2 DEF Crossed

\* The ATR column looks back only.
LEMMA AtrCut ==
    ASSUME NEW hw, NEW lw, NEW cw, NEW hv, NEW lv, NEW cv, NEW p \in Nat \ {0},
           CutOff(hw, hv), CutOff(lw, lv), CutOff(cw, cv),
           Len(hw) = Len(cw), Len(lw) = Len(cw), Len(hv) = Len(cv), Len(lv) = Len(cv)
    PROVE  \A k \in p + 1 .. Len(cw) : Atr(hw, lw, cw, p)[k] = Atr(hv, lv, cv, p)[k]
<1> DEFINE tw == TrueRanges(hw, lw, cw)
           tv == TrueRanges(hv, lv, cv)
<1>0. Len(cw) \in Nat /\ Len(cv) \in Nat /\ Len(cw) <= Len(cv)
  BY CutOffFacts
<1>1. IntegersOn(tv, 2, Len(cv))
  <2>1. ASSUME NEW k \in 2 .. Len(cv) PROVE tv[k] \in Int
    <3>1. k \in 1 .. Len(cv) /\ k - 1 \in 1 .. Len(cv)
      BY <1>0
    <3>2. hv[k] \in Int /\ lv[k] \in Int /\ cv[k - 1] \in Int
      BY <3>1, CutOffFacts DEF IntegersOn
    <3>3. hv[k] - lv[k] \in Int /\ Abs(hv[k] - cv[k - 1]) \in Int /\ Abs(lv[k] - cv[k - 1]) \in Int
      BY <3>2 DEF Abs
    <3>4. Larger(Abs(hv[k] - cv[k - 1]), Abs(lv[k] - cv[k - 1])) \in Int
      BY <3>3, LargerType
    <3>5. Larger(hv[k] - lv[k], Larger(Abs(hv[k] - cv[k - 1]), Abs(lv[k] - cv[k - 1]))) \in Int
      BY <3>3, <3>4, LargerType
    <3> QED BY <3>5 DEF TrueRanges
  <2> HIDE DEF tv
  <2> QED BY <2>1 DEF IntegersOn
<1>2. \A k \in 2 .. Len(cw) : tw[k] = tv[k]
  <2>1. ASSUME NEW k \in 2 .. Len(cw) PROVE tw[k] = tv[k]
    <3>1. k \in 2 .. Len(cv) /\ k \in 1 .. Len(cw) /\ k - 1 \in 1 .. Len(cw)
      BY <1>0
    <3>2. hw[k] = hv[k] /\ lw[k] = lv[k] /\ cw[k - 1] = cv[k - 1]
      BY <3>1, CutOffFacts
    <3> QED BY <3>1, <3>2 DEF TrueRanges
  <2> QED BY <2>1
<1> HIDE DEF tw, tv
<1>3. \A k \in p + 1 .. Len(cw) : Wilder(tw, 2, Len(cw), p)[k] = Wilder(tv, 2, Len(cv), p)[k]
  <2> DEFINE m == Len(cw)
             n == Len(cv)
  <2>1. m \in Int /\ n \in Int /\ m <= n
    BY <1>0
  <2>3. IntegersOn(tv, 2, n) /\ SameOn(tw, tv, 2, m)
    BY <1>1, <1>2 DEF SameOn
  <2> HIDE DEF m, n
  <2>2. \A k \in p + 1 .. m : Wilder(tw, 2, m, p)[k] = Wilder(tv, 2, n, p)[k]
    BY <2>1, <2>3, SmoothedCut
  <2> QED BY <2>2 DEF m, n
<1> QED BY <1>3 DEF Atr, tw, tv

\* So do the Bollinger bands, a window of the closes.
LEMMA BandsCut ==
    ASSUME NEW w, NEW v, CutOff(w, v), NEW p \in Nat \ {0}, NEW k \in p .. Len(w)
    PROVE  Bands(w, k, p) = Bands(v, k, p)
<1> DEFINE qw == [j \in DOMAIN w |-> w[j] * w[j]]
           qv == [j \in DOMAIN v |-> v[j] * v[j]]
           a == k - p + 1
<1>0. /\ Len(w) \in Nat /\ Len(v) \in Nat /\ Len(w) <= Len(v)
      /\ a \in Int /\ k \in Int /\ a - 1 <= k /\ a .. k \subseteq 1 .. Len(w)
      /\ k \in 1 .. Len(w)
  BY CutOffFacts
<1>1. DOMAIN w = 1 .. Len(w) /\ DOMAIN v = 1 .. Len(v)
  BY DEF CutOff
<1>2. IntegersOn(v, a, k) /\ \A j \in a .. k : w[j] = v[j]
  BY <1>0, CutOffFacts DEF IntegersOn
<1>3. IntegersOn(qv, a, k) /\ \A j \in a .. k : qw[j] = qv[j]
  <2>1. ASSUME NEW j \in a .. k PROVE qv[j] \in Int /\ qw[j] = qv[j]
    <3>1. j \in DOMAIN w /\ j \in DOMAIN v
      BY <1>0, <1>1
    <3>2. v[j] \in Int /\ w[j] = v[j]
      BY <1>2 DEF IntegersOn
    <3> QED BY <3>1, <3>2
  <2> HIDE DEF qv, qw
  <2> QED BY <2>1 DEF IntegersOn
<1> HIDE DEF a
<1>4. SumOver(w, a, k) = SumOver(v, a, k)
  BY <1>0, <1>2, SumOverSame
<1>5. SumOver(qw, a, k) = SumOver(qv, a, k)
  <2> HIDE DEF qw, qv
  <2> QED BY <1>0, <1>3, SumOverSame
<1>6. w[k] = v[k]
  BY <1>0, CutOffFacts
<1> QED BY <1>4, <1>5, <1>6 DEF Bands, a

(***************************************************************************)
(* Buffers of bars.                                                        *)
(***************************************************************************)
BarRecords == [open : Int, high : Int, low : Int, close : Int, volume : Int]
\* The columns of a bar.
Fields == {"open", "high", "low", "close", "volume"}

\* What is known of a history at one of its bars.
KnownOf(known, bars) ==
    /\ known \in Seq(BarRecords) /\ bars \in Seq(BarRecords)
    /\ Len(known) <= Len(bars)
    /\ \A k \in 1 .. Len(known) : known[k] = bars[k]

\* A column of bars is a series.
LEMMA ColumnOf ==
    ASSUME NEW bars \in Seq(BarRecords), NEW field \in Fields
    PROVE  /\ Column(bars, field) \in Seq(Int) /\ Len(Column(bars, field)) = Len(bars)
           /\ \A k \in 1 .. Len(bars) : Column(bars, field)[k] = bars[k][field]
<1>1. Len(bars) \in Nat /\ DOMAIN bars = 1 .. Len(bars)
  OBVIOUS
<1>2. ASSUME NEW k \in 1 .. Len(bars) PROVE bars[k][field] \in Int
  <2>1. bars[k] \in BarRecords
    OBVIOUS
  <2> QED BY <2>1 DEF BarRecords, Fields
<1>3. Column(bars, field) = [k \in 1 .. Len(bars) |-> bars[k][field]]
  BY <1>1 DEF Column
<1> QED BY <1>1, <1>2, <1>3

\* The columns of the bars known are those of all bars, cut off.
LEMMA ColumnCut ==
    ASSUME NEW known, NEW bars, KnownOf(known, bars), NEW field \in Fields
    PROVE  /\ CutOff(Column(known, field), Column(bars, field))
           /\ Len(Column(known, field)) = Len(known) /\ Len(Column(bars, field)) = Len(bars)
<1>1. known \in Seq(BarRecords) /\ bars \in Seq(BarRecords) /\ Len(known) <= Len(bars)
      /\ Len(known) \in Nat /\ Len(bars) \in Nat
      /\ \A k \in 1 .. Len(known) : known[k] = bars[k] /\ k \in 1 .. Len(bars)
  BY DEF KnownOf
<1>2. /\ Column(known, field) \in Seq(Int) /\ Len(Column(known, field)) = Len(known)
      /\ \A k \in 1 .. Len(known) : Column(known, field)[k] = known[k][field]
  BY <1>1, ColumnOf
<1>3. /\ Column(bars, field) \in Seq(Int) /\ Len(Column(bars, field)) = Len(bars)
      /\ \A k \in 1 .. Len(bars) : Column(bars, field)[k] = bars[k][field]
  BY <1>1, ColumnOf
<1> QED BY <1>1, <1>2, <1>3 DEF CutOff

\* The row of a bar is the same from its buffer and from the whole history.
LEMMA RowCut ==
    ASSUME NEW known, NEW bars, KnownOf(known, bars), NEW k \in MinBars .. Len(known)
    PROVE  RowAt(known, Precomputed(known), k) = RowAt(bars, Precomputed(bars), k)
<1> DEFINE w == Column(known, "close")
           v == Column(bars, "close")
           vw == Column(known, "volume")
           vv == Column(bars, "volume")
           s == Precomputed(known)
           r == Precomputed(bars)
           c == bars[k]
<1>1. CutOff(w, v) /\ Len(w) = Len(known) /\ Len(v) = Len(bars)
  BY ColumnCut DEF Fields
<1>2. CutOff(vw, vv) /\ Len(vw) = Len(known) /\ Len(vv) = Len(bars)
  BY ColumnCut DEF Fields
<1>3. s = [closes |-> w, volumes |-> vw,
           rsi  |-> [p \in RsiPeriods |-> RsiColumn(w, p)],
           hist |-> HistColumn(w), atr |-> AtrColumn(known),
           ema  |-> [p \in AverageWindows |-> EmaColumn(w, p)]]
  BY DEF Precomputed
<1>4. r = [closes |-> v, volumes |-> vv,
           rsi  |-> [p \in RsiPeriods |-> RsiColumn(v, p)],
           hist |-> HistColumn(v), atr |-> AtrColumn(bars),
           ema  |-> [p \in AverageWindows |-> EmaColumn(v, p)]]
  BY DEF Precomputed
<1>5. /\ MinBars \in Nat \ {0, 1} /\ AtrPeriod \in 1 .. MinBars - 1 /\ TrendLag \in 1 .. MinBars - 1
      /\ ReturnLags \subseteq 1 .. MinBars - 1 /\ VolumeLags \subseteq 1 .. MinBars - 1
      /\ RsiPeriods \subseteq 1 .. MinBars - 1
      /\ AverageWindows \subseteq 1 .. MinBars /\ BBPeriod \in 1 .. MinBars
      /\ MacdSlow + MacdSignal - 1 \in 1 .. MinBars
      /\ EmaShort \in AverageWindows /\ EmaLong \in AverageWindows
  BY FeatureAssumption
<1>6. /\ Len(known) \in Nat /\ Len(bars) \in Nat /\ Len(known) <= Len(bars)
      /\ k \in 1 .. Len(known) /\ known[k] = c
  BY <1>5 DEF KnownOf
<1>7. \A lag \in 1 .. MinBars - 1 : k - lag \in 1 .. Len(known)
  BY <1>5, <1>6
<1> HIDE DEF w, v, vw, vv, s, r
<1>8. /\ s.closes = w /\ s.volumes = vw /\ s.hist = HistColumn(w) /\ s.atr = AtrColumn(known)
      /\ s.rsi = [p \in RsiPeriods |-> RsiColumn(w, p)]
      /\ s.ema = [p \in AverageWindows |-> EmaColumn(w, p)]
  BY <1>3
<1>9. /\ r.closes = v /\ r.volumes = vv /\ r.hist = HistColumn(v) /\ r.atr = AtrColumn(bars)
      /\ r.rsi = [p \in RsiPeriods |-> RsiColumn(v, p)]
      /\ r.ema = [p \in AverageWindows |-> EmaColumn(v, p)]
  BY <1>4
<1>10. PriceFeatures(c, s, k) = PriceFeatures(c, r, k)
  <2>1. \A lag \in ReturnLags : s.closes[k - lag] = r.closes[k - lag]
    BY <1>1, <1>5, <1>7, <1>8, <1>9, CutOffFacts
  <2> QED BY <2>1 DEF PriceFeatures
<1>11. VolumeFeatures(c, s, k) = VolumeFeatures(c, r, k)
  <2>1. s.volumes[k - TrendLag] = r.volumes[k - TrendLag]
    BY <1>2, <1>5, <1>7, <1>8, <1>9, CutOffFacts
  <2>2. ASSUME NEW lag \in VolumeLags
        PROVE  SumOver(s.volumes, k - lag, k - 1) = SumOver(r.volumes, k - lag, k - 1)
    <3> DEFINE a == k - lag
               b == k - 1
    <3>1. a \in Int /\ b \in Int /\ a - 1 <= b /\ a .. b \subseteq 1 .. Len(known)
      BY <1>5, <1>6
    <3>2. IntegersOn(vv, a, b) /\ \A j \in a .. b : vw[j] = vv[j]
      <4>1. \A j \in 1 .. Len(known) : vw[j] = vv[j]
        BY <1>2, CutOffFacts
      <4>2. \A j \in 1 .. Len(known) : vv[j] \in Int
        BY <1>2, <1>6, CutOffFacts DEF IntegersOn
      <4> HIDE DEF a, b
      <4> QED BY <3>1, <4>1, <4>2 DEF IntegersOn
    <3> HIDE DEF a, b
    <3>3. SumOver(vw, a, b) = SumOver(vv, a, b)
      BY <3>1, <3>2, SumOverSame
    <3> QED BY <1>8, <1>9, <3>3 DEF a, b
  <2> QED BY <2>1, <2>2 DEF VolumeFeatures
<1>12. MomentumFeatures(c, s, k) = MomentumFeatures(c, r, k)
  <2>1. ASSUME NEW p \in RsiPeriods PROVE s.rsi[p][k] = r.rsi[p][k]
    <3>1. p \in Nat \ {0} /\ k \in p + 1 .. Len(w)
      BY <1>1, <1>5, <1>6
    <3>2. RsiColumn(w, p)[k] = RsiColumn(v, p)[k]
      BY <1>1, <3>1, RsiColumnCut
    <3> QED BY <1>8, <1>9, <3>2
  <2>2. s.hist[k] = r.hist[k]
    <3>1. k \in MacdSlow + MacdSignal - 1 .. Len(w)
      BY <1>1, <1>5, <1>6
    <3> QED BY <1>1, <1>8, <1>9, <3>1, HistCut
  <2>3. Crossed(s.hist, k) = Crossed(r.hist, k)
    <3>1. Crossed(s.hist, k) <=> Crossed(r.hist, k)
      BY <1>1, <1>6, <1>8, <1>9, CrossedCut
    <3> QED BY <3>1 DEF Crossed
  <2>4. [p \in RsiPeriods |-> s.rsi[p][k]] = [p \in RsiPeriods |-> r.rsi[p][k]]
    BY <2>1
  <2> QED BY <2>2, <2>3, <2>4 DEF MomentumFeatures
<1>13. VolatilityFeatures(c, s, k) = VolatilityFeatures(c, r, k)
  <2>1. s.atr[k] = r.atr[k]
    <3>1. /\ CutOff(Column(known, "high"), Column(bars, "high"))
          /\ Len(Column(known, "high")) = Len(known) /\ Len(Column(bars, "high")) = Len(bars)
      BY ColumnCut DEF Fields
    <3>2. /\ CutOff(Column(known, "low"), Column(bars, "low"))
          /\ Len(Column(known, "low")) = Len(known) /\ Len(Column(bars, "low")) = Len(bars)
      BY ColumnCut DEF Fields
    <3>3. AtrPeriod \in Nat \ {0} /\ k \in AtrPeriod + 1 .. Len(w)
      BY <1>1, <1>5, <1>6
    <3>4. Atr(Column(known, "high"), Column(known, "low"), w, AtrPeriod)[k]
          = Atr(Column(bars, "high"), Column(bars, "low"), v, AtrPeriod)[k]
      BY <1>1, <3>1, <3>2, <3>3, AtrCut
    <3> QED BY <1>8, <1>9, <3>4 DEF AtrColumn, w, v
  <2>2. BandAt(s.closes, k) = BandAt(r.closes, k)
    <3>1. BBPeriod \in Nat \ {0} /\ k \in BBPeriod .. Len(w)
      BY <1>1, <1>5, <1>6
    <3> QED BY <1>1, <1>8, <1>9, <3>1, BandsCut DEF BandAt
  <2> QED BY <2>1, <2>2 DEF VolatilityFeatures
<1>14. TrendFeatures(c, s, k) = TrendFeatures(c, r, k)
  <2>1. ASSUME NEW p \in AverageWindows PROVE s.ema[p][k] = r.ema[p][k]
    <3>1. p \in Nat \ {0} /\ k \in p .. Len(w)
      BY <1>1, <1>5, <1>6
    <3>2. EmaColumn(w, p)[k] = EmaColumn(v, p)[k]
      BY <1>1, <3>1, EmaCut DEF EmaColumn
    <3> QED BY <1>8, <1>9, <3>2
  <2>2. [p \in AverageWindows |-> SafeDiv(c.close - s.ema[p][k], c.close, 0)]
        = [p \in AverageWindows |-> SafeDiv(c.close - r.ema[p][k], c.close, 0)]
    BY <2>1
  <2>3. s.ema[EmaShort][k] = r.ema[EmaShort][k] /\ s.ema[EmaLong][k] = r.ema[EmaLong][k]
    BY <1>5, <2>1
  <2> QED BY <2>2, <2>3 DEF TrendFeatures
<1> QED BY <1>6, <1>10, <1>11, <1>12, <1>13, <1>14 DEF RowAt, s, r

(***************************************************************************)
(* The book of the replay.                                                 *)
(***************************************************************************)

\* What the book holds.
Sides == {"buy", "sell"}
Positions == [side : Sides, entry : Int, entered : Bars, qty : Nat]
Reasons == {"signal", "stop_loss", "take_profit", "eod"}
Closed == [side : Sides, entered : Bars, exited : Bars, raw : Int, pnl : Int, reason : Reasons]
Books == [position : Positions \cup {None}, realized : Int, trades : Seq(Closed)]

\* Arithmetic of the book: what is divided, charged and slipped is an integer.
LEMMA DivNat == \A a \in Nat, b \in Nat \ {0} : a \div b \in Nat
OBVIOUS

LEMMA Rates ==
    /\ {FeePct, SlippagePct, StopLossPct, TakeProfitPct, MaxPositionPct,
        MinOrder, MaxOrder, InitialBalance, LastBar} \subseteq Nat
    /\ SlippagePct < 1000 /\ StopLossPct < 1000
BY EngineAssumption

LEMMA PerMilleType == \A x, p \in Int : PerMille(x, p) \in Int
BY DEF PerMille

LEMMA FillType == \A side \in Sides, raw \in Nat : Fill(side, raw) \in Nat
<1> SUFFICES ASSUME NEW side \in Sides, NEW raw \in Nat PROVE Fill(side, raw) \in Nat
  OBVIOUS
<1>1. raw * (1000 + SlippagePct) \in Nat /\ raw * (1000 - SlippagePct) \in Nat
  BY Rates
<1> QED BY <1>1, DivNat DEF Fill, PerMille

LEMMA FillWhole == \A side \in Sides, raw \in Int : Fill(side, raw) \in Int
<1> SUFFICES ASSUME NEW side \in Sides, NEW raw \in Int PROVE Fill(side, raw) \in Int
  OBVIOUS
<1> DEFINE rate == IF side = "buy" THEN 1000 + SlippagePct ELSE 1000 - SlippagePct
<1>1. rate \in Int
  BY Rates
<1>2. Fill(side, raw) = PerMille(raw, rate)
  BY DEF Fill
<1> HIDE DEF rate
<1> QED BY <1>1, <1>2, PerMilleType

LEMMA SizeType == \A r \in Int : Size(r) \in Nat
BY Rates, PerMilleType DEF Size

LEMMA BarType == ASSUME candles \in Histories, NEW b \in Bars PROVE IsBar(candles[b])
BY EngineAssumption

\* _open puts a position at the bar's open into the book and changes nothing else.
LEMMA Opened ==
    ASSUME candles \in Histories, NEW b \in Books, NEW side \in Sides, NEW bar \in Bars
    PROVE  LET o == Open(b, side, bar)
           IN  /\ o \in Books
               /\ o.position \in Positions
               /\ o.position.side = side /\ o.position.entered = bar
               /\ o.position.entry = Fill(side, candles[bar].open)
               /\ o.realized = b.realized /\ o.trades = b.trades
<1> DEFINE entry == Fill(side, candles[bar].open)
           qty == IF entry > 0 THEN (1000 * Size(b.realized)) \div entry ELSE 0
           p == [side |-> side, entry |-> entry, entered |-> bar, qty |-> qty]
<1>1. entry \in Nat
  BY BarType, FillType DEF IsBar
<1>2. b.realized \in Int
  BY DEF Books
<1>3. 1000 * Size(b.realized) \in Nat
  BY <1>2, SizeType
<1> HIDE DEF entry
<1>4. qty \in Nat
  BY <1>1, <1>3, DivNat
<1> HIDE DEF qty
<1>5. p \in Positions
  BY <1>1, <1>4 DEF Positions
<1>6. Open(b, side, bar) = [b EXCEPT !.position = p]
  BY DEF Open, entry, qty
<1> HIDE DEF p
<1>7. [b EXCEPT !.position = p] = [position |-> p, realized |-> b.realized, trades |-> b.trades]
  BY DEF Books
<1>8. p.side = side /\ p.entered = bar /\ p.entry = entry
  BY DEF p
<1> QED BY <1>5, <1>6, <1>7, <1>8 DEF Books, entry

\* _close ends the position and appends the one trade that tells of it.
LEMMA ClosedOut ==
    ASSUME NEW b \in Books, b.position # None, NEW raw \in Int, NEW bar \in Bars,
           NEW reason \in Reasons
    PROVE  LET c == Close(b, raw, bar, reason)
           IN  /\ c \in Books
               /\ c.position = None
               /\ \E t \in Closed :
                     /\ c.trades = Append(b.trades, t)
                     /\ t.side = b.position.side /\ t.entered = b.position.entered
                     /\ t.exited = bar /\ t.raw = raw /\ t.reason = reason
                     /\ c.realized = b.realized + t.pnl
<1> DEFINE p == b.position
           exit == Fill(OtherSide(p.side), raw)
           net == (Gain(p, exit) * p.qty - PerMille((p.entry + exit) * p.qty, FeePct)) \div 1000
           t == [side |-> p.side, entered |-> p.entered, exited |-> bar,
                 raw |-> raw, pnl |-> net, reason |-> reason]
<1>1. p \in Positions
  BY DEF Books
<1>2. exit \in Int
  BY <1>1, FillWhole DEF OtherSide, Sides, Positions
<1> HIDE DEF exit
<1>3. Gain(p, exit) * p.qty \in Int /\ (p.entry + exit) * p.qty \in Int
  BY <1>1, <1>2 DEF Positions, Gain
<1>4. PerMille((p.entry + exit) * p.qty, FeePct) \in Int
  <2>1. FeePct \in Int
    BY Rates
  <2> HIDE DEF p
  <2> QED BY <1>3, <2>1, PerMilleType
<1>5. net \in Int
  BY <1>3, <1>4
<1>6. t \in Closed
  BY <1>1, <1>5 DEF Closed, Positions
<1>7. Close(b, raw, bar, reason) =
        [position |-> None, realized |-> b.realized + net, trades |-> Append(b.trades, t)]
  BY DEF Close, exit
<1> HIDE DEF net
<1>8. t.side = p.side /\ t.entered = p.entered /\ t.exited = bar /\ t.raw = raw
      /\ t.reason = reason /\ t.pnl = net
  OBVIOUS
<1> HIDE DEF t
<1>9. b.realized + net \in Int /\ Append(b.trades, t) \in Seq(Closed)
  BY <1>5, <1>6 DEF Books
<1> QED BY <1>6, <1>7, <1>8, <1>9 DEF Books

(***************************************************************************)
(* What the book says of the bars up to bar n.                             *)
(***************************************************************************)
TradesOf(b) == {b.trades[k] : k \in 1 .. Len(b.trades)}

\* A trade at a level, as BracketsAreAdverse asks for it.
Fair(t) ==
    LET c == candles[t.exited]
        profit == t.reason = "take_profit"
        entry == Fill(t.side, candles[t.entered].open)
        p == [side |-> t.side, entry |-> entry]
    IN  /\ profit => ~Stopped(p, c)
        /\ t.reason \in {"stop_loss", "take_profit"} =>
              \/ c.low <= t.raw /\ t.raw <= c.high
              \/ t.entered < t.exited /\ ((t.side = "buy") = (profit = (c.open > t.raw)))

\* The results of some trades, added up.
Profits(trades) == SumOver([k \in DOMAIN trades |-> trades[k].pnl], 1, Len(trades))

\* Trades lie behind each other, before the open position, before n.
InSequence(b, n) ==
    /\ \A k \in 1 .. Len(b.trades) :
          b.trades[k].entered <= b.trades[k].exited /\ b.trades[k].exited <= n
    /\ \A j, k \in 1 .. Len(b.trades) : j < k => b.trades[j].exited <= b.trades[k].entered
    /\ b.position # None =>
          /\ b.position.entered <= n
          /\ \A k \in 1 .. Len(b.trades) : b.trades[k].exited <= b.position.entered

\* The book: its entries are fills at opens, its equity is the sum of its trades.
BookInv(b, n) ==
    /\ b \in Books
    /\ InSequence(b, n)
    /\ b.position # None =>
          b.position.entry = Fill(b.position.side, candles[b.position.entered].open)
    /\ b.realized = InitialBalance + Profits(b.trades)
    /\ LevelsApart => \A k \in 1 .. Len(b.trades) : Fair(b.trades[k])

\* Whether a book says that the close of bar n was in the market.
InMarketAt(b, n) ==
    \/ \E k \in 1 .. Len(b.trades) : b.trades[k].entered <= n /\ n < b.trades[k].exited
    \/ b.position # None /\ b.position.entered <= n

\* No position is not a position.
LEMMA NoneIsNoPosition == None \notin Positions /\ None \notin Sides
BY EngineAssumption DEF Positions, Sides

\* One more trade adds its result to the profits.
LEMMA ProfitsOfAppend ==
    ASSUME NEW s \in Seq(Closed), NEW t \in Closed
    PROVE  Profits(Append(s, t)) = Profits(s) + t.pnl /\ Profits(s) \in Int
<1> DEFINE v == [k \in DOMAIN s |-> s[k].pnl]
           w == [k \in DOMAIN Append(s, t) |-> Append(s, t)[k].pnl]
           n == Len(s)
<1>1. n \in Nat /\ Len(Append(s, t)) = n + 1 /\ DOMAIN s = 1 .. n
      /\ DOMAIN Append(s, t) = 1 .. n + 1
  OBVIOUS
<1>2. \A k \in 1 .. n : Append(s, t)[k] = s[k] /\ s[k] \in Closed
  OBVIOUS
<1>3. Append(s, t)[n + 1] = t
  OBVIOUS
<1>4. \A k \in 1 .. n : w[k] = v[k] /\ v[k] \in Int
  BY <1>1, <1>2 DEF Closed
<1>5. w[n + 1] = t.pnl /\ t.pnl \in Int
  BY <1>1, <1>3 DEF Closed
<1>6. IntegersOn(v, 1, n) /\ IntegersOn(w, 1, n + 1)
  <2>1. ASSUME NEW k \in 1 .. n + 1 PROVE w[k] \in Int
    <3>1. CASE k = n + 1
      BY <1>5, <3>1
    <3>2. CASE k # n + 1
      <4>1. k \in 1 .. n
        BY <1>1, <3>2
      <4> QED BY <1>4, <4>1
    <3> QED BY <3>1, <3>2
  <2> QED BY <1>4, <2>1 DEF IntegersOn
<1>7. Profits(Append(s, t)) = SumOver(w, 1, n + 1) /\ Profits(s) = SumOver(v, 1, n)
  BY <1>1 DEF Profits
<1> HIDE DEF v, w
<1>8. SumOver(w, 1, n + 1) = SumOver(w, 1, n) + w[n + 1]
  <2>1. 1 - 1 <= n + 1 /\ n + 1 \in Int /\ ~(n + 1 < 1) /\ 1 \in Int /\ (n + 1) - 1 = n
    BY <1>1
  <2> HIDE DEF n
  <2> QED BY <1>6, <2>1, SumOverStep
<1>9. SumOver(w, 1, n) = SumOver(v, 1, n) /\ SumOver(v, 1, n) \in Int
  <2>1. 1 - 1 <= n /\ n \in Int /\ 1 \in Int
    BY <1>1
  <2> HIDE DEF n
  <2> QED BY <1>4, <1>6, <2>1, SumOverSame, SumOverStep
<1> QED BY <1>5, <1>7, <1>8, <1>9

\* A position is entered at this bar's open.
LEMMA OpenKeeps ==
    ASSUME candles \in Histories, NEW n \in Bars, NEW b, BookInv(b, n), b.position = None,
           NEW side \in Sides
    PROVE  LET o == Open(b, side, n)
           IN  /\ BookInv(o, n)
               /\ \A m \in Bars : m < n => (InMarketAt(o, m) <=> InMarketAt(b, m))
<1> DEFINE o == Open(b, side, n)
<1>0. b \in Books /\ n \in Int
  BY DEF BookInv, Bars
<1>1. /\ o \in Books
      /\ o.position \in Positions
      /\ o.position.side = side /\ o.position.entered = n
      /\ o.position.entry = Fill(side, candles[n].open)
      /\ o.realized = b.realized /\ o.trades = b.trades
  BY <1>0, Opened
<1> HIDE DEF o
<1>2. BookInv(o, n)
  BY <1>0, <1>1 DEF BookInv, InSequence
<1>3. ASSUME NEW m \in Bars, m < n PROVE InMarketAt(o, m) <=> InMarketAt(b, m)
  <2>1. ~(o.position.entered <= m)
    BY <1>0, <1>1, <1>3 DEF Bars
  <2> QED BY <1>1, <2>1 DEF InMarketAt
<1> QED BY <1>2, <1>3 DEF o

\* A position is closed at this bar.
LEMMA CloseKeeps ==
    ASSUME candles \in Histories, NEW n \in Bars, NEW b, BookInv(b, n), b.position # None,
           NEW raw \in Int, NEW reason \in Reasons,
           LevelsApart => \A t \in Closed :
               (/\ t.side = b.position.side /\ t.entered = b.position.entered
                /\ t.exited = n /\ t.raw = raw /\ t.reason = reason) => Fair(t)
    PROVE  LET c == Close(b, raw, n, reason)
           IN  /\ BookInv(c, n)
               /\ c.position = None
               /\ \A m \in Bars : m < n => (InMarketAt(c, m) <=> InMarketAt(b, m))
<1> DEFINE c == Close(b, raw, n, reason)
           p == b.position
<1>0. b \in Books /\ n \in Int
  BY DEF BookInv, Bars
<1>1. c \in Books /\ c.position = None
  BY <1>0, ClosedOut
<1>2. PICK t \in Closed :
        /\ c.trades = Append(b.trades, t)
        /\ t.side = p.side /\ t.entered = p.entered
        /\ t.exited = n /\ t.raw = raw /\ t.reason = reason
        /\ c.realized = b.realized + t.pnl
  BY <1>0, ClosedOut
<1> HIDE DEF c
<1> DEFINE s == b.trades
           k1 == Len(s) + 1
<1>3. s \in Seq(Closed) /\ p \in Positions
  BY <1>0 DEF Books
<1>4. Len(s) \in Nat /\ Len(c.trades) = k1 /\ c.trades[k1] = t
      /\ \A k \in 1 .. Len(s) : c.trades[k] = s[k] /\ s[k] \in Closed
  BY <1>2, <1>3
<1>5. \A k \in 1 .. k1 : k = k1 \/ k \in 1 .. Len(s)
  BY <1>4
<1>6. p.entered \in Int /\ p.entered <= n
      /\ \A k \in 1 .. Len(s) : s[k].exited \in Int /\ s[k].entered \in Int
             /\ s[k].entered <= s[k].exited /\ s[k].exited <= n /\ s[k].exited <= p.entered
  <2>1. InSequence(b, n)
    BY DEF BookInv
  <2>2. p.entered \in Int /\ p.entered <= n
    <3>1. p.entered \in Bars
      BY <1>3 DEF Positions
    <3>2. p.entered \in Int
      BY <3>1 DEF Bars
    <3>3. p.entered <= n
      BY <2>1 DEF InSequence
    <3> QED BY <3>2, <3>3
  <2>3. \A k \in 1 .. Len(s) : s[k].exited \in Int /\ s[k].entered \in Int
    BY <1>4 DEF Closed, Bars
  <2>4. \A k \in 1 .. Len(s) : s[k].entered <= s[k].exited /\ s[k].exited <= n
                                /\ s[k].exited <= p.entered
    BY <2>1 DEF InSequence
  <2> QED BY <2>2, <2>3, <2>4
<1>7. InSequence(c, n)
  <2>1. \A k \in 1 .. Len(c.trades) :
            c.trades[k].entered <= c.trades[k].exited /\ c.trades[k].exited <= n
    BY <1>0, <1>2, <1>4, <1>5, <1>6
  <2>2. ASSUME NEW j \in 1 .. Len(c.trades), NEW k \in 1 .. Len(c.trades), j < k
        PROVE  c.trades[j].exited <= c.trades[k].entered
    <3>1. j \in 1 .. Len(s)
      BY <1>4, <2>2
    <3>2. CASE k = k1
      BY <1>2, <1>4, <1>6, <3>1, <3>2
    <3>3. CASE k \in 1 .. Len(s)
      BY <1>4, <2>2, <3>1, <3>3 DEF BookInv, InSequence
    <3> QED BY <1>4, <1>5, <3>2, <3>3
  <2> QED BY <1>1, <2>1, <2>2 DEF InSequence
<1>8. c.realized = InitialBalance + Profits(c.trades)
  <2>1. Profits(c.trades) = Profits(s) + t.pnl /\ Profits(s) \in Int /\ t.pnl \in Int
    BY <1>2, <1>3, ProfitsOfAppend DEF Closed
  <2>2. b.realized = InitialBalance + Profits(s) /\ InitialBalance \in Int
    BY Rates DEF BookInv
  <2> HIDE DEF s
  <2> QED BY <1>2, <2>1, <2>2
<1>9. LevelsApart => \A k \in 1 .. Len(c.trades) : Fair(c.trades[k])
  <2>1. LevelsApart => Fair(t) /\ \A k \in 1 .. Len(s) : Fair(s[k])
    BY <1>2 DEF BookInv
  <2> HIDE DEF LevelsApart, Fair
  <2> QED BY <1>4, <1>5, <2>1
<1>10. BookInv(c, n)
  BY <1>1, <1>7, <1>8, <1>9 DEF BookInv
<1>11. ASSUME NEW m \in Bars, m < n PROVE InMarketAt(c, m) <=> InMarketAt(b, m)
  <2>1. (\E k \in 1 .. k1 : c.trades[k].entered <= m /\ m < c.trades[k].exited)
        <=> \/ \E k \in 1 .. Len(s) : s[k].entered <= m /\ m < s[k].exited
            \/ t.entered <= m /\ m < t.exited
    <3>1. k1 \in 1 .. k1 /\ 1 .. Len(s) \subseteq 1 .. k1
      BY <1>4
    <3> HIDE DEF k1, s
    <3> QED BY <1>4, <1>5, <3>1
  <2>2. t.entered <= m /\ m < t.exited <=> p.entered <= m
    BY <1>2, <1>11
  <2> QED BY <1>1, <1>4, <2>1, <2>2 DEF InMarketAt
<1> QED BY <1>1, <1>10, <1>11 DEF c

(***************************************************************************)
(* Prices.  Adding per mille never lowers a price and taking some away     *)
(* never raises it, whatever the rounding.                                 *)
(***************************************************************************)
LEMMA PerMilleUp == \A x, q \in Nat : x <= PerMille(x, 1000 + q)
<1> SUFFICES ASSUME NEW x \in Nat, NEW q \in Nat PROVE x <= (x * (1000 + q)) \div 1000
  BY DEF PerMille
<1>1. x * q \in Nat /\ x * (1000 + q) = 1000 * x + x * q
  OBVIOUS
<1>2. x <= (1000 * x + x * q) \div 1000
  <2> DEFINE y == x * q
  <2> HIDE DEF y
  <2>1. y \in Nat
    BY <1>1 DEF y
  <2>2. x <= (1000 * x + y) \div 1000
    BY <2>1
  <2> QED BY <2>2 DEF y
<1> QED BY <1>1, <1>2

\* The other way round.
LEMMA PerMilleDown == \A x, q \in Nat : PerMille(x, 1000 - q) <= x
<1> SUFFICES ASSUME NEW x \in Nat, NEW q \in Nat PROVE (x * (1000 - q)) \div 1000 <= x
  BY DEF PerMille
<1>1. x * q \in Nat /\ x * (1000 - q) = 1000 * x - x * q
  OBVIOUS
<1>2. (1000 * x - x * q) \div 1000 <= x
  <2> DEFINE y == x * q
  <2> HIDE DEF y
  <2>1. y \in Nat
    BY <1>1 DEF y
  <2>2. (1000 * x - y) \div 1000 <= x
    BY <2>1
  <2> QED BY <2>2 DEF y
<1> QED BY <1>1, <1>2

\* A target is on the far side of the open that was entered at.
LEMMA TakeBeyondEntry ==
    \A o \in Nat :
        /\ o <= TakePrice([side |-> "buy", entry |-> Fill("buy", o)])
        /\ TakePrice([side |-> "sell", entry |-> Fill("sell", o)]) <= o
<1> SUFFICES ASSUME NEW o \in Nat
             PROVE  /\ o <= TakePrice([side |-> "buy", entry |-> Fill("buy", o)])
                    /\ TakePrice([side |-> "sell", entry |-> Fill("sell", o)]) <= o
  OBVIOUS
<1> DEFINE up == Fill("buy", o)
           down == Fill("sell", o)
<1>0. SlippagePct \in Nat /\ TakeProfitPct \in Nat
  BY Rates
<1>1. up \in Nat /\ down \in Nat
  BY FillType DEF Sides
<1>2. o <= up /\ down <= o
  BY <1>0, PerMilleUp, PerMilleDown DEF Fill
<1> HIDE DEF up, down
<1>3. up <= PerMille(up, 1000 + TakeProfitPct) /\ PerMille(down, 1000 - TakeProfitPct) <= down
  BY <1>0, <1>1, PerMilleUp, PerMilleDown
<1>4. PerMille(up, 1000 + TakeProfitPct) \in Int /\ PerMille(down, 1000 - TakeProfitPct) \in Int
  BY <1>0, <1>1, PerMilleType
<1>5. TakePrice([side |-> "buy", entry |-> up]) = PerMille(up, 1000 + TakeProfitPct)
      /\ TakePrice([side |-> "sell", entry |-> down]) = PerMille(down, 1000 - TakeProfitPct)
  BY DEF TakePrice
<1>6. o <= PerMille(up, 1000 + TakeProfitPct) /\ PerMille(down, 1000 - TakeProfitPct) <= o
  BY <1>1, <1>2, <1>3, <1>4
<1> QED BY <1>5, <1>6 DEF up, down

\* What a bar's range says of a position's levels.
LEMMA LevelTypes ==
    ASSUME NEW p \in Positions
    PROVE  /\ StopPrice(p) \in Int /\ TakePrice(p) \in Int
           /\ p.entry \in Nat => StopPrice(p) \in Nat
<1>1. p.entry \in Int /\ {StopLossPct, TakeProfitPct} \subseteq Nat /\ StopLossPct < 1000
  BY Rates DEF Positions
<1>2. StopPrice(p) \in Int /\ TakePrice(p) \in Int
  <2> DEFINE stop == IF p.side = "buy" THEN 1000 - StopLossPct ELSE 1000 + StopLossPct
             take == IF p.side = "buy" THEN 1000 + TakeProfitPct ELSE 1000 - TakeProfitPct
  <2>1. stop \in Int /\ take \in Int
    BY <1>1
  <2>2. StopPrice(p) = PerMille(p.entry, stop) /\ TakePrice(p) = PerMille(p.entry, take)
    BY DEF StopPrice, TakePrice
  <2> HIDE DEF stop, take
  <2> QED BY <1>1, <2>1, <2>2, PerMilleType
<1>3. ASSUME p.entry \in Nat PROVE StopPrice(p) \in Nat
  <2>1. p.entry * (1000 - StopLossPct) \in Nat /\ p.entry * (1000 + StopLossPct) \in Nat
    BY <1>1, <1>3
  <2> QED BY <2>1, DivNat DEF StopPrice, PerMille
<1> QED BY <1>2, <1>3

\* The levels of a position are those of what it was filled at.
LEMMA SameLevels ==
    ASSUME NEW p \in Positions, NEW q, q = [side |-> p.side, entry |-> p.entry]
    PROVE  /\ StopPrice(q) = StopPrice(p) /\ TakePrice(q) = TakePrice(p)
           /\ \A c : Stopped(q, c) = Stopped(p, c)
BY DEF StopPrice, TakePrice, Stopped

\* The hypotheses of the lemmas on a bracket that is hit.
Held(b, n) ==
    /\ candles \in Histories
    /\ BookInv(b, n)
    /\ b.position # None

\* What is used of one.
LEMMA HeldFacts ==
    ASSUME NEW n \in Bars, NEW b, Held(b, n)
    PROVE  LET p == b.position
               c == candles[n]
           IN  /\ b \in Books /\ p \in Positions
               /\ IsBar(c) /\ p.entered \in Bars /\ p.entered <= n
               /\ p.entry = Fill(p.side, candles[p.entered].open) /\ p.entry \in Nat
               /\ StopPrice(p) \in Nat /\ TakePrice(p) \in Int
<1>1. b \in Books /\ InSequence(b, n) /\ b.position # None /\ candles \in Histories
      /\ b.position.entry = Fill(b.position.side, candles[b.position.entered].open)
  BY DEF Held, BookInv
<1>2. b.position \in Positions
  BY <1>1 DEF Books
<1>3. b.position.entered \in Bars /\ b.position.side \in Sides
  BY <1>2 DEF Positions
<1>4. IsBar(candles[n]) /\ IsBar(candles[b.position.entered])
  BY <1>1, <1>3, BarType
<1>5. b.position.entry \in Nat
  BY <1>1, <1>3, <1>4, FillType DEF IsBar
<1>6. StopPrice(b.position) \in Nat /\ TakePrice(b.position) \in Int
  BY <1>2, <1>5, LevelTypes
<1> QED BY <1>1, <1>2, <1>3, <1>4, <1>5, <1>6 DEF InSequence

\* A stop that a bar sets off is traded as BracketsAreAdverse asks for.
LEMMA StopIsFair ==
    ASSUME NEW n \in Bars, NEW b, Held(b, n), LevelsApart,
           Stopped(b.position, candles[n]),
           NEW t \in Closed,
           t.side = b.position.side, t.entered = b.position.entered, t.exited = n,
           t.raw = StopPrice(b.position), t.reason = "stop_loss"
    PROVE  Fair(t)
<1> DEFINE p == b.position
           c == candles[n]
<1>1. /\ p \in Positions /\ IsBar(c) /\ p.entered \in Bars /\ p.entered <= n
      /\ p.entry = Fill(p.side, candles[p.entered].open)
      /\ StopPrice(p) \in Nat
  BY HeldFacts
<1>2. c.low \in Int /\ c.high \in Int /\ c.open \in Int /\ c.low <= c.open /\ c.open <= c.high
  BY <1>1 DEF IsBar
<1>3. p.side \in Sides /\ p.entered \in Int /\ n \in Int
  BY <1>1 DEF Positions, Bars
<1>4. p.entered = n =>
        /\ p.side = "buy" => StopPrice(p) <= c.open
        /\ p.side = "sell" => StopPrice(p) >= c.open
  <2> SUFFICES ASSUME p.entered = n
               PROVE  /\ p.side = "buy" => StopPrice(p) <= c.open
                      /\ p.side = "sell" => StopPrice(p) >= c.open
    OBVIOUS
  <2>1. StopPrice(p) = StopPrice([side |-> p.side, entry |-> Fill(p.side, c.open)])
    BY <1>1, SameLevels
  <2>2. candles \in Histories
    BY DEF Held
  <2> QED BY <2>1, <2>2 DEF LevelsApart
<1>5. \/ c.low <= t.raw /\ t.raw <= c.high
      \/ t.entered < t.exited /\ ((t.side = "buy") = (FALSE = (c.open > t.raw)))
  <2>1. CASE p.side = "buy"
    <3>1. c.low <= StopPrice(p)
      BY <2>1 DEF Stopped
    <3>2. StopPrice(p) <= c.high \/ (~(c.open > StopPrice(p)) /\ p.entered < n)
      BY <1>1, <1>2, <1>3, <1>4, <2>1
    <3> QED BY <2>1, <3>1, <3>2
  <2>2. CASE p.side = "sell"
    <3>1. c.high >= StopPrice(p)
      BY <2>2 DEF Stopped
    <3>2. c.low <= StopPrice(p) \/ (c.open > StopPrice(p) /\ p.entered < n)
      BY <1>1, <1>2, <1>3, <1>4, <2>2
    <3> QED BY <1>1, <1>2, <2>2, <3>1, <3>2
  <2> QED BY <1>3, <2>1, <2>2 DEF Sides
<1> QED BY <1>5 DEF Fair

\* So is a target that a bar reaches without touching the stop.
LEMMA TakeIsFair ==
    ASSUME NEW n \in Bars, NEW b, Held(b, n),
           ~Stopped(b.position, candles[n]), Reached(b.position, candles[n]),
           NEW t \in Closed,
           t.side = b.position.side, t.entered = b.position.entered, t.exited = n,
           t.raw = TakePrice(b.position), t.reason = "take_profit"
    PROVE  Fair(t)
<1> DEFINE p == b.position
           c == candles[n]
<1>1. /\ p \in Positions /\ IsBar(c) /\ p.entered \in Bars /\ p.entered <= n
      /\ p.entry = Fill(p.side, candles[p.entered].open)
      /\ TakePrice(p) \in Int
  BY HeldFacts
<1>2. c.low \in Int /\ c.high \in Int /\ c.open \in Nat /\ c.low <= c.open /\ c.open <= c.high
  BY <1>1 DEF IsBar
<1>3. p.side \in Sides /\ p.entered \in Int /\ n \in Int
  BY <1>1 DEF Positions, Bars
<1>4. p.entered = n =>
        /\ p.side = "buy" => c.open <= TakePrice(p)
        /\ p.side = "sell" => TakePrice(p) <= c.open
  <2> SUFFICES ASSUME p.entered = n
               PROVE  /\ p.side = "buy" => c.open <= TakePrice(p)
                      /\ p.side = "sell" => TakePrice(p) <= c.open
    OBVIOUS
  <2>1. TakePrice(p) = TakePrice([side |-> p.side, entry |-> Fill(p.side, c.open)])
    BY <1>1, SameLevels
  <2> QED BY <1>2, <2>1, TakeBeyondEntry
<1>5. \/ c.low <= t.raw /\ t.raw <= c.high
      \/ t.entered < t.exited /\ ((t.side = "buy") = (TRUE = (c.open > t.raw)))
  <2>1. CASE p.side = "buy"
    <3>1. c.high >= TakePrice(p)
      BY <2>1 DEF Reached
    <3>2. c.low <= TakePrice(p) \/ (c.open > TakePrice(p) /\ p.entered < n)
      BY <1>1, <1>2, <1>3, <1>4, <2>1
    <3> QED BY <1>1, <1>2, <2>1, <3>1, <3>2
  <2>2. CASE p.side = "sell"
    <3>1. c.low <= TakePrice(p)
      BY <2>2 DEF Reached
    <3>2. TakePrice(p) <= c.high \/ (~(c.open > TakePrice(p)) /\ p.entered < n)
      BY <1>1, <1>2, <1>3, <1>4, <2>2
    <3> QED BY <2>2, <3>1, <3>2
  <2> QED BY <1>3, <2>1, <2>2 DEF Sides
<1>6. ~Stopped([side |-> t.side, entry |-> Fill(t.side, candles[t.entered].open)], c)
  BY <1>1, SameLevels
<1> QED BY <1>5, <1>6 DEF Fair

\* (1) What was decided is filled at the open.
LEMMA FillPendingKeeps ==
    ASSUME candles \in Histories, NEW n \in Bars, NEW b, BookInv(b, n),
           pending \in Sides \cup {None}
    PROVE  LET f == FillPending(b, n)
           IN  /\ BookInv(f, n)
               /\ \A m \in Bars : m < n => (InMarketAt(f, m) <=> InMarketAt(b, m))
<1> DEFINE open == candles[n].open
<1>1. CASE pending = None
  BY <1>1 DEF FillPending
<1>2. CASE pending # None /\ b.position = None
  <2>1. FillPending(b, n) = Open(b, pending, n) /\ pending \in Sides
    BY <1>2 DEF FillPending
  <2> QED BY <1>2, <2>1, OpenKeeps
<1>3. CASE pending # None /\ b.position # None /\ b.position.side = pending
  BY <1>3 DEF FillPending
<1>4. CASE pending # None /\ b.position # None /\ b.position.side # pending
  <2> DEFINE c == Close(b, open, n, "signal")
  <2>1. FillPending(b, n) = Open(c, pending, n) /\ pending \in Sides
    BY <1>4 DEF FillPending
  <2>2. open \in Nat /\ "signal" \in Reasons
    BY BarType DEF IsBar, Reasons
  <2>3. \A t : t.reason = "signal" => Fair(t)
    BY DEF Fair
  <2>4. /\ BookInv(c, n) /\ c.position = None
        /\ \A m \in Bars : m < n => (InMarketAt(c, m) <=> InMarketAt(b, m))
    BY <1>4, <2>2, <2>3, CloseKeeps
  <2> HIDE DEF c
  <2>5. /\ BookInv(Open(c, pending, n), n)
        /\ \A m \in Bars : m < n => (InMarketAt(Open(c, pending, n), m) <=> InMarketAt(c, m))
    BY <2>1, <2>4, OpenKeeps
  <2> QED BY <2>1, <2>4, <2>5
<1> QED BY <1>1, <1>2, <1>3, <1>4

\* (2) Stop and target.
LEMMA CheckBracketsKeeps ==
    ASSUME candles \in Histories, NEW n \in Bars, NEW b, BookInv(b, n)
    PROVE  LET f == CheckBrackets(b, n)
           IN  /\ BookInv(f, n)
               /\ \A m \in Bars : m < n => (InMarketAt(f, m) <=> InMarketAt(b, m))
<1>1. CASE b.position = None
  BY <1>1 DEF CheckBrackets
<1> DEFINE p == b.position
           c == candles[n]
<1>2. CASE p # None /\ Stopped(p, c)
  <2>1. Held(b, n) /\ StopPrice(p) \in Nat /\ "stop_loss" \in Reasons
    BY <1>2, HeldFacts DEF Held, Reasons
  <2>2. LevelsApart => \A t \in Closed :
           (/\ t.side = p.side /\ t.entered = p.entered
            /\ t.exited = n /\ t.raw = StopPrice(p) /\ t.reason = "stop_loss") => Fair(t)
    BY <1>2, <2>1, StopIsFair
  <2>3. CheckBrackets(b, n) = Close(b, StopPrice(p), n, "stop_loss")
    BY <1>2 DEF CheckBrackets
  <2> QED BY <1>2, <2>1, <2>2, <2>3, CloseKeeps
<1>3. CASE p # None /\ ~Stopped(p, c) /\ Reached(p, c)
  <2>1. Held(b, n) /\ TakePrice(p) \in Int /\ "take_profit" \in Reasons
    BY <1>3, HeldFacts DEF Held, Reasons
  <2>2. \A t \in Closed :
           (/\ t.side = p.side /\ t.entered = p.entered
            /\ t.exited = n /\ t.raw = TakePrice(p) /\ t.reason = "take_profit") => Fair(t)
    BY <1>3, <2>1, TakeIsFair
  <2>3. CheckBrackets(b, n) = Close(b, TakePrice(p), n, "take_profit")
    BY <1>3 DEF CheckBrackets
  <2> QED BY <1>3, <2>1, <2>2, <2>3, CloseKeeps
<1>4. CASE p # None /\ ~Stopped(p, c) /\ ~Reached(p, c)
  BY <1>4 DEF CheckBrackets, Held
<1> QED BY <1>1, <1>2, <1>3, <1>4

\* A point of the equity curve.
Points == [equity : Int, inMarket : BOOLEAN]

\* The replay's invariant: the book knows nothing of the bar looked at next, and
\* the curve says of each bar what the book says of it.
EngineInv ==
    /\ candles \in Histories
    /\ i \in 0 .. LastBar + 1
    /\ pending \in Sides \cup {None}
    /\ BookInv(book, i - 1)
    /\ curve \in Seq(Points) /\ Len(curve) = i
    /\ \A k \in 1 .. i : curve[k].inMarket <=> InMarketAt(book, k - 1)
    /\ book.position = None /\ i > 0 => curve[i].equity = book.realized
    /\ over \in BOOLEAN
    /\ over => i = LastBar + 1 /\ book.position = None

\* The equity of a bar is an integer.
LEMMA EquityType ==
    ASSUME NEW n \in Bars, NEW b \in Books, candles \in Histories
    PROVE  EquityPoint(b, n) \in Points
<1>1. candles[n].close \in Int
  BY BarType DEF IsBar
<1>2. b.realized \in Int
  BY DEF Books
<1>3. ASSUME b.position # None
      PROVE  (Gain(b.position, candles[n].close) * b.position.qty) \div 1000 \in Int
  <2>1. b.position \in Positions
    BY <1>3 DEF Books
  <2>2. Gain(b.position, candles[n].close) * b.position.qty \in Int
    BY <1>1, <2>1 DEF Positions, Gain
  <2> QED BY <2>2
<1>4. Equity(b, candles[n].close) \in Int
  BY <1>2, <1>3 DEF Equity
<1> QED BY <1>4 DEF EquityPoint, Points

\* Between the bars nothing changes.
LEMMA BookLater ==
    ASSUME NEW n \in Int, NEW b, BookInv(b, n)
    PROVE  BookInv(b, n + 1)
<1>1. b \in Books /\ InSequence(b, n)
  BY DEF BookInv
<1>2. \A k \in 1 .. Len(b.trades) : b.trades[k] \in Closed
  BY <1>1 DEF Books
<1>3. \A k \in 1 .. Len(b.trades) : b.trades[k].exited \in Int
  BY <1>2 DEF Closed, Bars
<1>4. b.position # None => b.position.entered \in Int
  BY <1>1 DEF Books, Positions, Bars
<1>5. InSequence(b, n + 1)
  BY <1>1, <1>3, <1>4 DEF InSequence
<1> QED BY <1>5 DEF BookInv

\* The market's state at the bar itself is that of the book after it.
LEMMA InMarketNow ==
    ASSUME NEW n \in Bars, NEW b, BookInv(b, n)
    PROVE  InMarketAt(b, n) <=> b.position # None
<1>1. b \in Books /\ InSequence(b, n) /\ n \in Int
  BY DEF BookInv, Bars
<1>2. \A k \in 1 .. Len(b.trades) : b.trades[k] \in Closed
  BY <1>1 DEF Books
<1>3. \A k \in 1 .. Len(b.trades) : b.trades[k].exited \in Int /\ b.trades[k].exited <= n
  BY <1>1, <1>2 DEF InSequence, Closed, Bars
<1>4. \A k \in 1 .. Len(b.trades) : ~(n < b.trades[k].exited)
  BY <1>1, <1>3
<1>5. b.position # None => b.position.entered <= n
  BY <1>1 DEF InSequence
<1> QED BY <1>4, <1>5 DEF InMarketAt

\* An empty book satisfies the invariant.
LEMMA EngineStarts == EngineInit => EngineInv
<1> SUFFICES ASSUME EngineInit PROVE EngineInv
  OBVIOUS
<1> USE DEF EngineInit
<1>1. LastBar \in Nat /\ InitialBalance \in Int
  BY Rates
<1>2. book \in Books /\ Len(book.trades) = 0 /\ book.trades = << >> /\ book.position = None
  BY <1>1 DEF Books
<1>3. Profits(<< >>) = 0
  <2> DEFINE v == [k \in DOMAIN << >> |-> << >>[k].pnl]
  <2>1. Profits(<< >>) = SumOver(v, 1, 0)
    BY DEF Profits
  <2>2. IntegersOn(v, 1, 0) /\ 1 \in Int /\ 0 \in Int /\ 1 - 1 <= 0 /\ 0 < 1
    BY DEF IntegersOn
  <2> HIDE DEF v
  <2> QED BY <2>1, <2>2, SumOverStep
<1>4. BookInv(book, i - 1)
  <2>1. InSequence(book, i - 1)
    BY <1>2 DEF InSequence
  <2>2. \A k \in 1 .. Len(book.trades) : Fair(book.trades[k])
    BY <1>2
  <2> QED BY <1>1, <1>2, <1>3, <2>1, <2>2 DEF BookInv
<1>5. curve \in Seq(Points) /\ Len(curve) = 0 /\ i = 0
  OBVIOUS
<1>7. candles \in Histories /\ pending = None /\ ~over /\ over \in BOOLEAN
  OBVIOUS
<1>6. i \in 0 .. LastBar + 1 /\ 1 .. i = {} /\ ~(i > 0)
  BY <1>1, <1>5
<1> QED BY <1>4, <1>5, <1>6, <1>7 DEF EngineInv

\* One turn of the loop.
LEMMA ReplayKeeps ==
    ASSUME EngineInv, NEW d \in Sides \cup {None}, ReplayBar(d)
    PROVE  EngineInv'
<1> DEFINE filled == FillPending(book, i)
           after == CheckBrackets(filled, i)
           point == EquityPoint(after, i)
<1>1. candles \in Histories /\ i \in Bars /\ i \in Nat /\ i \in Int /\ LastBar \in Nat
  BY Rates DEF EngineInv, ReplayBar, Bars
<1>2. BookInv(book, i)
  <2>1. BookInv(book, i - 1) /\ i - 1 \in Int /\ (i - 1) + 1 = i
    BY <1>1 DEF EngineInv
  <2> QED BY <2>1, BookLater
<1>3. /\ BookInv(filled, i)
      /\ \A m \in Bars : m < i => (InMarketAt(filled, m) <=> InMarketAt(book, m))
  BY <1>1, <1>2, FillPendingKeeps DEF EngineInv
<1> HIDE DEF filled
<1>4. /\ BookInv(after, i)
      /\ \A m \in Bars : m < i => (InMarketAt(after, m) <=> InMarketAt(filled, m))
  BY <1>1, <1>3, CheckBracketsKeeps
<1>5. /\ book' = after /\ curve' = Append(curve, point) /\ i' = i + 1
      /\ candles' = candles /\ over' = over /\ i <= LastBar
      /\ pending' = IF i < LastBar THEN d ELSE None
  BY DEF ReplayBar, filled
<1> HIDE DEF after
<1>6. after \in Books
  BY <1>4 DEF BookInv
<1>7. point \in Points
  BY <1>1, <1>6, EquityType
<1>8. curve \in Seq(Points) /\ Len(curve) = i
  BY DEF EngineInv
<1>9. /\ curve' \in Seq(Points) /\ Len(curve') = i + 1 /\ curve'[i + 1] = point
      /\ \A k \in 1 .. i : curve'[k] = curve[k]
  BY <1>1, <1>5, <1>7, <1>8
<1>10. BookInv(book, i - 1)'
  <2>1. BookInv(book', i)
    BY <1>4, <1>5
  <2>2. (i - 1)' = i
    BY <1>1, <1>5
  <2> QED BY <1>5, <2>1, <2>2 DEF BookInv, Fair
<1>11. ASSUME NEW k \in 1 .. i + 1 PROVE curve'[k].inMarket <=> InMarketAt(after, k - 1)
  <2>1. CASE k = i + 1
    <3>1. curve'[k].inMarket <=> after.position # None
      <4>1. point.inMarket = (after.position # None)
        BY DEF EquityPoint
      <4>2. curve'[k] = point
        BY <1>9, <2>1
      <4> HIDE DEF point
      <4> QED BY <4>1, <4>2
    <3>2. InMarketAt(after, i) <=> after.position # None
      BY <1>1, <1>4, InMarketNow
    <3>3. k - 1 = i
      BY <1>1, <2>1
    <3> QED BY <3>1, <3>2, <3>3
  <2>2. CASE k # i + 1
    <3>1. k \in 1 .. i /\ k - 1 \in Bars /\ k - 1 < i
      BY <1>1, <2>2 DEF Bars
    <3>2. curve[k].inMarket <=> InMarketAt(book, k - 1)
      BY <3>1 DEF EngineInv
    <3> QED BY <1>3, <1>4, <1>9, <3>1, <3>2
  <2> QED BY <2>1, <2>2
<1>12. ASSUME after.position = None PROVE point.equity = after.realized
  BY <1>12 DEF EquityPoint, Equity
<1>13. i' \in 0 .. LastBar + 1 /\ pending' \in Sides \cup {None} /\ over' \in BOOLEAN
       /\ over' = FALSE
  BY <1>1, <1>5 DEF EngineInv
<1>14. \A k \in 1 .. i' : curve'[k].inMarket <=> InMarketAt(book, k - 1)'
  BY <1>5, <1>11 DEF InMarketAt
<1> HIDE DEF point
<1> QED BY <1>1, <1>5, <1>9, <1>10, <1>12, <1>13, <1>14 DEF EngineInv

\* What is still open is closed at the last close.
LEMMA EndKeeps ==
    ASSUME EngineInv, EndOfData
    PROVE  EngineInv'
<1> DEFINE raw == candles[LastBar].close
           after == Close(book, raw, LastBar, "eod")
           point == [equity |-> after.realized, inMarket |-> FALSE]
<1>1. /\ candles \in Histories /\ LastBar \in Bars /\ LastBar \in Nat
      /\ i = LastBar + 1 /\ BookInv(book, LastBar)
      /\ curve \in Seq(Points) /\ Len(curve) = i
      /\ candles' = candles /\ i' = i /\ pending' = pending /\ over' = TRUE
  <2>1. LastBar \in Nat
    BY Rates
  <2>2. i = LastBar + 1 /\ i - 1 = LastBar
    BY <2>1 DEF EndOfData
  <2> QED BY <2>1, <2>2 DEF EngineInv, EndOfData, Bars
<1>2. CASE book.position = None
  <2>1. book' = book /\ curve' = curve
    BY <1>2 DEF EndOfData
  <2>2. BookInv(book, i - 1)'
    <3>1. BookInv(book, i - 1)
      BY DEF EngineInv
    <3> QED BY <1>1, <2>1, <3>1 DEF BookInv, Fair
  <2>3. \A k \in 1 .. i' : curve'[k].inMarket <=> InMarketAt(book, k - 1)'
    BY <1>1, <2>1 DEF EngineInv, InMarketAt
  <2> QED BY <1>1, <1>2, <2>1, <2>2, <2>3 DEF EngineInv
<1>3. CASE book.position # None
  <2>1. book' = after /\ curve' = [curve EXCEPT ![Len(curve)] = point]
    BY <1>3 DEF EndOfData
  <2>2. raw \in Int /\ "eod" \in Reasons /\ \A t : t.reason = "eod" => Fair(t)
    BY <1>1, BarType DEF IsBar, Reasons, Fair
  <2>3. /\ BookInv(after, LastBar) /\ after.position = None
        /\ \A m \in Bars : m < LastBar => (InMarketAt(after, m) <=> InMarketAt(book, m))
    BY <1>1, <1>3, <2>2, CloseKeeps
  <2> HIDE DEF after
  <2>4. point \in Points
    BY <2>3 DEF BookInv, Books, Points
  <2>5. /\ curve' \in Seq(Points) /\ Len(curve') = i /\ curve'[i] = point
        /\ \A k \in 1 .. i : k # i => curve'[k] = curve[k]
    BY <1>1, <2>1, <2>4
  <2>6. BookInv(book, i - 1)'
    <3>1. BookInv(book', LastBar) /\ (i - 1)' = LastBar
      BY <1>1, <2>1, <2>3
    <3> QED BY <1>1, <3>1 DEF BookInv, Fair
  <2>7. ASSUME NEW k \in 1 .. i PROVE curve'[k].inMarket <=> InMarketAt(after, k - 1)
    <3>1. CASE k = i
      <4>1. ~InMarketAt(after, LastBar) /\ k - 1 = LastBar
        BY <1>1, <2>3, <3>1, InMarketNow
      <4> QED BY <2>5, <3>1, <4>1
    <3>2. CASE k # i
      <4>1. k - 1 \in Bars /\ k - 1 < LastBar
        BY <1>1, <3>2 DEF Bars
      <4> QED BY <2>3, <2>5, <3>2, <4>1 DEF EngineInv
    <3> QED BY <3>1, <3>2
  <2>8. \A k \in 1 .. i' : curve'[k].inMarket <=> InMarketAt(book, k - 1)'
    BY <1>1, <2>1, <2>7 DEF InMarketAt
  <2>9. curve'[i].equity = after.realized
    BY <2>5
  <2>10. i' \in 0 .. LastBar + 1 /\ pending' \in Sides \cup {None}
    BY <1>1 DEF EngineInv
  <2> HIDE DEF point
  <2> QED BY <1>1, <2>1, <2>3, <2>5, <2>6, <2>8, <2>9, <2>10 DEF EngineInv
<1> QED BY <1>2, <1>3

\* What reads only the engine's variables stands when they do.
LEMMA EngineStutters == EngineInv /\ UNCHANGED engineVars => EngineInv'
<1> SUFFICES ASSUME EngineInv, UNCHANGED engineVars PROVE EngineInv'
  OBVIOUS
<1>1. candles' = candles /\ i' = i /\ pending' = pending /\ book' = book /\ curve' = curve
      /\ over' = over
  BY DEF engineVars
<1>2. BookInv(book, i - 1)'
  BY <1>1 DEF EngineInv, BookInv, Fair
<1>3. \A k \in 1 .. i' : curve'[k].inMarket <=> InMarketAt(book, k - 1)'
  BY <1>1 DEF EngineInv, InMarketAt
<1> QED BY <1>1, <1>2, <1>3 DEF EngineInv

(***************************************************************************)
(* The deciders.                                                           *)
(***************************************************************************)
DeciderInv ==
    /\ decider \in Deciders
    /\ lastTrain \in Bars
    /\ asked \in -1 .. LastBar - 1
    /\ model # None => model = Samples(lastTrain)

\* The inductive invariant of the replay.
ReplayInv == EngineInv /\ DeciderInv

\* The settings of the deciders, as the proofs use them.
LEMMA DecidersSettings ==
    /\ LastBar \in Nat /\ Start \in Nat \ {0} /\ Horizon \in Nat \ {0}
    /\ InitialTrain \in Nat /\ RetrainEvery \in Nat
BY EngineAssumption, WalkForwardAssumption, LabelAssumption, FeatureAssumption DEF Start

\* What a fit is trained on depends on the history only.
LEMMA SamplesFixed ==
    ASSUME candles' = candles, NEW t
    PROVE  Samples(t)' = Samples(t) /\ TrainingBars(t)' = TrainingBars(t)
           /\ Trainable(t)' = Trainable(t)
BY DEF Samples, TrainingBars, YFull, Closes, Trainable, ClassesOf

\* Before the first bar nothing was fitted.
LEMMA ReplayInvStarts == Init => ReplayInv
<1> SUFFICES ASSUME Init PROVE ReplayInv
  OBVIOUS
<1>1. EngineInv
  BY EngineStarts DEF Init
<1>2. lastTrain \in Bars /\ asked \in -1 .. LastBar - 1
  BY DecidersSettings DEF Init, Bars
<1> QED BY <1>1, <1>2 DEF Init, ReplayInv, DeciderInv

\* What a turn of the loop does to the decider's own state.
LEMMA Asking ==
    ASSUME ReplayInv, NextBar
    PROVE  /\ i \in Bars /\ i' = i + 1 /\ candles' = candles
           /\ decider' = decider
           /\ \/ i < LastBar /\ asked' = i
              \/ i = LastBar /\ asked' = asked /\ model' = model /\ lastTrain' = lastTrain
           /\ \/ model' = model /\ lastTrain' = lastTrain
              \/ model' = Samples(i) /\ lastTrain' = i
<1>1. PICK d \in {"buy", "sell", None} :
        /\ ReplayBar(d)
        /\ IF i < LastBar
           THEN /\ DecideWalkForward(i, d) \/ DecideRules(i, d) \/ DecideRandom(i, d)
                /\ asked' = i
           ELSE d = None /\ UNCHANGED <<model, lastTrain, asked>>
        /\ UNCHANGED decider
  BY DEF NextBar
<1>2. i \in Bars /\ i' = i + 1 /\ candles' = candles /\ (i < LastBar \/ i = LastBar)
  BY <1>1, DecidersSettings DEF ReplayInv, EngineInv, ReplayBar, Bars
<1>3. CASE i < LastBar
  BY <1>1, <1>2, <1>3
     DEF DecideWalkForward, DecideRules, DecideRandom, MaybeRetrain
<1>4. CASE i = LastBar
  <2>1. ~(i < LastBar)
    BY <1>4, DecidersSettings
  <2> QED BY <1>1, <1>2, <1>4, <2>1
<1> QED BY <1>2, <1>3, <1>4

\* A turn of the loop, the close at the end and a stutter keep the invariant.
LEMMA ReplayInvKeeps == ReplayInv /\ [Next]_vars => ReplayInv'
<1> SUFFICES ASSUME ReplayInv, [Next]_vars PROVE ReplayInv'
  OBVIOUS
<1> USE DEF ReplayInv
<1>1. CASE NextBar
  <2>1. EngineInv'
    <3>1. PICK d \in {"buy", "sell", None} : ReplayBar(d)
      BY <1>1 DEF NextBar
    <3>2. d \in Sides \cup {None}
      BY DEF Sides
    <3> QED BY <3>1, <3>2, ReplayKeeps
  <2>2. DeciderInv'
    <3>1. lastTrain' \in Bars /\ decider' \in Deciders
      BY <1>1, Asking DEF DeciderInv
    <3>2. asked' \in -1 .. LastBar - 1
      BY <1>1, Asking, DecidersSettings DEF DeciderInv, Bars
    <3>3. model' # None => model' = Samples(lastTrain')
      BY <1>1, Asking DEF DeciderInv
    <3>4. Samples(lastTrain') = Samples(lastTrain)'
      BY <1>1, Asking DEF Samples, TrainingBars, YFull, Closes
    <3> QED BY <3>1, <3>2, <3>3, <3>4 DEF DeciderInv
  <2> QED BY <2>1, <2>2
<1>2. CASE Finish
  <2>1. EngineInv'
    BY <1>2, EndKeeps DEF Finish
  <2>2. DeciderInv'
    BY <1>2 DEF Finish, EndOfData, DeciderInv, Samples, TrainingBars, YFull, Closes
  <2> QED BY <2>1, <2>2
<1>3. CASE UNCHANGED vars
  <2>1. EngineInv'
    BY <1>3, EngineStutters DEF vars, engineVars
  <2>2. DeciderInv'
    BY <1>3 DEF vars, DeciderInv, Samples, TrainingBars, YFull, Closes
  <2> QED BY <2>1, <2>2
<1> QED BY <1>1, <1>2, <1>3 DEF Next

\* The inductive invariant of the replay (run_with_decider, engine.py:92-218, with the
\* deciders of walkforward.py and benchmarks.py): every theorem below rests on it.
THEOREM ReplayInvHolds == Spec => []ReplayInv
BY ReplayInvStarts, ReplayInvKeeps, PTL DEF Spec

\* The types of the variables are part of it.
LEMMA TypesOf == ReplayInv => TypeOK
<1> SUFFICES ASSUME ReplayInv PROVE TypeOK
  OBVIOUS
<1> USE DEF ReplayInv
<1>1. book \in Books /\ (book.position = None \/ book.position \in Positions)
  BY DEF EngineInv, BookInv, Books
<1>2. \A t \in Trades : t.entered \in Bars /\ t.exited \in Bars /\ t.pnl \in Int
  <2>1. \A k \in 1 .. Len(book.trades) : book.trades[k] \in Closed
    BY <1>1 DEF Books
  <2> QED BY <2>1 DEF Trades, Closed
<1>3. model = None \/ DOMAIN model \subseteq Bars
  <2>1. TrainingBars(lastTrain) \subseteq Bars
    BY DecidersSettings DEF TrainingBars, Bars, DeciderInv
  <2> QED BY <2>1 DEF DeciderInv, Samples
<1>4. candles \in Histories /\ pending \in {"buy", "sell", None} /\ over \in BOOLEAN
      /\ decider \in Deciders /\ lastTrain \in Bars /\ asked \in -1 .. LastBar - 1
  BY DEF EngineInv, DeciderInv, Sides
<1>5. i \in 0 .. N /\ Len(curve) = i
  BY DEF EngineInv, N
<1>6. book.realized \in Int
  BY <1>1 DEF Books
<1>7. book.position = None \/
          /\ book.position.side \in {"buy", "sell"}
          /\ book.position.entered \in Bars
          /\ book.position.qty \in Nat
  BY <1>1 DEF Positions, Sides
<1> QED BY <1>2, <1>3, <1>4, <1>5, <1>6, <1>7 DEF TypeOK

\* The variables of run_with_decider (engine.py:92-218) and of the walk-forward model
\* keep their types: one equity point for each bar replayed, trades between bars that
\* exist, a model of samples or none.
THEOREM BacktestTypes == Spec => []TypeOK
BY ReplayInvHolds, TypesOf, PTL

\* What the curve says of a bar the book says at the end.
LEMMA CurveOf == ReplayInv => CurveMatchesTrades
<1> SUFFICES ASSUME ReplayInv PROVE CurveMatchesTrades
  OBVIOUS
<1> USE DEF ReplayInv
<1>1. InSequence(book, i - 1)
  BY DEF EngineInv, BookInv
<1>2. \A k \in 1 .. Len(curve) : curve[k].inMarket <=> InMarketAt(book, k - 1)
  BY DEF EngineInv
<1>3. \A m : InMarketAt(book, m) <=>
          \/ \E t \in Trades : t.entered <= m /\ m < t.exited
          \/ book.position # None /\ book.position.entered <= m
  BY DEF InMarketAt, Trades
<1> QED BY <1>1, <1>2, <1>3 DEF CurveMatchesTrades, InSequence

\* Trades are disjoint in time and cover exactly the points of the curve that are marked
\* in_market, through reversals, brackets and the close at the end (_open, _close and
\* run_with_decider, engine.py:92-218).
THEOREM CurveAgreesWithTrades == Spec => []CurveMatchesTrades
BY ReplayInvHolds, CurveOf, PTL

\* The realized equity is the initial balance and the sum of all trades.
LEMMA BalanceOf == ReplayInv => BooksBalance
<1> SUFFICES ASSUME ReplayInv PROVE BooksBalance
  OBVIOUS
<1> USE DEF ReplayInv
<1>1. book.realized = InitialBalance + TotalPnl
  BY DEF EngineInv, BookInv, Profits, TotalPnl
<1>2. ASSUME over PROVE FinalEquity = book.realized
  <2>1. i = LastBar + 1 /\ book.position = None /\ curve \in Seq(Points) /\ Len(curve) = i
    BY <1>2 DEF EngineInv
  <2>2. i > 0 /\ curve # << >>
    BY <2>1, DecidersSettings
  <2>3. curve[i].equity = book.realized
    BY <2>1, <2>2 DEF EngineInv
  <2> QED BY <2>1, <2>2, <2>3 DEF FinalEquity
<1> QED BY <1>1, <1>2 DEF BooksBalance

\* The final equity that compute_metrics takes from the curve is the initial balance and
\* the profit of all trades, from which it takes the expectancy (metrics.py).
THEOREM ReportAddsUp == Spec => []BooksBalance
BY ReplayInvHolds, BalanceOf, PTL

\* Every trade of the book at a level is a fair one.
LEMMA BracketsOf == LevelsApart /\ ReplayInv => BracketsAreAdverse
<1> SUFFICES ASSUME LevelsApart, ReplayInv PROVE BracketsAreAdverse
  OBVIOUS
<1>1. \A k \in 1 .. Len(book.trades) : Fair(book.trades[k])
  BY DEF ReplayInv, EngineInv, BookInv
<1>2. \A t \in Trades : Fair(t)
  BY <1>1 DEF Trades
<1> QED BY <1>2 DEF BracketsAreAdverse, Fair

\* "Adverse level checked first" (engine.py:172): a bar that takes a profit
\* has not touched the stop, and a level that is traded at was in the bar's range or the
\* bar opened beyond it, if the stop is further from the entry than the slippage.
THEOREM LevelsTradeAdversely ==
    ASSUME LevelsApart
    PROVE  Spec => []BracketsAreAdverse
BY ReplayInvHolds, BracketsOf, PTL

\* A label realised at the fit is the label the whole history gives.
LEMMA PastOf == ReplayInv => TrainsOnThePast
<1> SUFFICES ASSUME ReplayInv, model # None,
                    NEW b \in DOMAIN model
             PROVE  b <= lastTrain /\ model[b] = Generate(Closes, lastTrain + 1)[b]
  BY DEF TrainsOnThePast
<1>1. model = Samples(lastTrain) /\ lastTrain \in 0 .. LastBar
  BY DEF ReplayInv, DeciderInv, Bars
<1>2. b \in Start .. lastTrain - Horizon /\ model[b] = YFull[b]
  BY <1>1 DEF Samples, TrainingBars
<1>3. b \in 0 .. lastTrain /\ b + Horizon <= lastTrain /\ b + Horizon <= LastBar
      /\ b \in 0 .. LastBar /\ lastTrain + 1 - 1 = lastTrain /\ LastBar + 1 - 1 = LastBar
      /\ lastTrain \in Int /\ LastBar \in Int
  BY <1>1, <1>2, DecidersSettings
<1>4. YFull[b] = ReturnLabel(Closes[b], Closes[b + Horizon])
  BY <1>3 DEF YFull, Generate, N
<1>5. Generate(Closes, lastTrain + 1)[b] = ReturnLabel(Closes[b], Closes[b + Horizon])
  BY <1>3 DEF Generate
<1> QED BY <1>2, <1>3, <1>4, <1>5

\* No look-ahead (walkforward.py:11): y_full holds the labels of the whole history, and
\* what _maybe_retrain takes of it is what the bars known at the fit give by themselves.
THEOREM NoLookAhead == Spec => []TrainsOnThePast
BY ReplayInvHolds, PastOf, PTL

(***************************************************************************)
(* The term of a model.                                                    *)
(***************************************************************************)
\* What could be fitted at one bar can be fitted at every later one: bars that
\* are realised stay realised.
LEMMA StaysTrainable ==
    ASSUME NEW s \in Int, NEW t \in Int, s <= t, Trainable(s)
    PROVE  Trainable(t)
<1>1. TrainingBars(s) \subseteq TrainingBars(t)
  BY DecidersSettings DEF TrainingBars
<1>2. \A r \in Int : IsFiniteSet(TrainingBars(r))
  <2>1. ASSUME NEW r \in Int PROVE IsFiniteSet(TrainingBars(r))
    <3>1. Start \in Int /\ r - Horizon \in Int
      BY DecidersSettings
    <3>2. IsFiniteSet(Start .. r - Horizon)
      BY <3>1, FS_Interval
    <3>3. TrainingBars(r) \subseteq Start .. r - Horizon
      BY DEF TrainingBars
    <3> QED BY <3>2, <3>3, FS_Subset
  <2> QED BY <2>1
<1>3. Cardinality(TrainingBars(s)) <= Cardinality(TrainingBars(t))
  BY <1>1, <1>2, FS_Subset
<1>4. Cardinality(TrainingBars(s)) \in Nat /\ Cardinality(TrainingBars(t)) \in Nat
  BY <1>2, FS_CardinalityType
<1> DEFINE C(r) == {YFull[b] : b \in TrainingBars(r)}
<1>5. \A r : ClassesOf(Samples(r)) = C(r)
  BY DEF ClassesOf, Samples
<1>6. C(s) \subseteq C(t)
  BY <1>1
<1>7. IsFiniteSet(C(s)) /\ IsFiniteSet(C(t))
  <2>1. ASSUME NEW r \in Int PROVE IsFiniteSet(C(r))
    <3> DEFINE f == [b \in TrainingBars(r) |-> YFull[b]]
    <3>1. f \in Surjection(TrainingBars(r), C(r))
      BY DEF Surjection
    <3> HIDE DEF f, C
    <3> QED BY <1>2, <3>1, FS_Surjection
  <2> QED BY <2>1
<1>8. Cardinality(C(s)) <= Cardinality(C(t))
      /\ Cardinality(C(s)) \in Nat /\ Cardinality(C(t)) \in Nat
  BY <1>6, <1>7, FS_Subset, FS_CardinalityType
<1>9. MinTrainSamples \in Nat
  BY WalkForwardAssumption
<1> HIDE DEF C
<1> QED BY <1>3, <1>4, <1>5, <1>8, <1>9, DecidersSettings DEF Trainable

\* A model is in its term, and could be fitted again: what makes ModelInTerm inductive.
TermInv ==
    /\ i <= LastBar => asked = i - 1
    /\ model # None =>
          /\ decider = "walk_forward"
          /\ Trainable(lastTrain)
          /\ InitialTrain <= lastTrain /\ lastTrain <= asked
          /\ asked < lastTrain + RetrainEvery

\* There is no model to begin with.
LEMMA TermStarts == Init => TermInv
BY DEF Init, EngineInit, TermInv

\* A bar asks a fresh model, a new one, or none: the old one is never too old.
LEMMA TermKeeps ==
    ASSUME RetrainEvery > 0, ReplayInv, TermInv, [Next]_vars
    PROVE  TermInv'
<1>1. CASE NextBar
  <2>1. /\ i \in Bars /\ i' = i + 1 /\ candles' = candles /\ decider' = decider
        /\ \/ i < LastBar /\ asked' = i
           \/ i = LastBar /\ asked' = asked /\ model' = model /\ lastTrain' = lastTrain
    BY <1>1, Asking
  <2>2. \A t : Trainable(t)' = Trainable(t)
    BY <2>1, SamplesFixed
  <2>3. i \in Int /\ LastBar \in Int /\ InitialTrain \in Int /\ RetrainEvery \in Int
        /\ i <= LastBar /\ lastTrain \in Int
    BY <2>1, DecidersSettings DEF Bars, ReplayInv, DeciderInv
  <2>4. CASE i = LastBar /\ asked' = asked /\ model' = model /\ lastTrain' = lastTrain
    BY <2>1, <2>2, <2>3, <2>4 DEF TermInv
  <2>5. CASE i < LastBar /\ asked' = i
    <3> SUFFICES ASSUME model' # None
                 PROVE  /\ decider' = "walk_forward"
                        /\ Trainable(lastTrain)'
                        /\ InitialTrain <= lastTrain' /\ lastTrain' <= i
                        /\ i < lastTrain' + RetrainEvery
      BY <2>1, <2>3, <2>5 DEF TermInv
    <3>1. asked = i - 1
      BY <2>3 DEF TermInv
    <3>2. PICK d : DecideWalkForward(i, d) \/ DecideRules(i, d) \/ DecideRandom(i, d)
      BY <1>1, <2>5 DEF NextBar
    <3>3. CASE DecideRules(i, d) \/ DecideRandom(i, d)
      BY <3>3 DEF DecideRules, DecideRandom, TermInv
    <3>4. CASE DecideWalkForward(i, d) /\ i < InitialTrain
      <4>1. model' = model
        BY <3>4 DEF DecideWalkForward
      <4> QED BY <2>3, <3>1, <3>4, <4>1 DEF TermInv
    <3>5. CASE DecideWalkForward(i, d) /\ ~(i < InitialTrain)
      <4>1. MaybeRetrain(i) /\ decider = "walk_forward" /\ InitialTrain <= i
        BY <2>3, <3>5 DEF DecideWalkForward
      <4>2. CASE ~Fresh(i) /\ Trainable(i)
        <5>1. lastTrain' = i
          BY <4>1, <4>2 DEF MaybeRetrain
        <5> QED BY <2>1, <2>2, <2>3, <4>1, <4>2, <5>1
      <4>3. CASE Fresh(i) \/ ~Trainable(i)
        <5>1. model' = model /\ lastTrain' = lastTrain
          BY <4>1, <4>3 DEF MaybeRetrain
        <5>2. Trainable(lastTrain) /\ InitialTrain <= lastTrain /\ lastTrain <= i
          BY <2>3, <3>1, <5>1 DEF TermInv
        <5>3. Trainable(i)
          BY <2>3, <5>2, StaysTrainable
        <5>4. i - lastTrain < RetrainEvery
          BY <4>3, <5>3 DEF Fresh
        <5> QED BY <2>1, <2>2, <2>3, <4>1, <5>1, <5>2, <5>4
      <4> QED BY <4>2, <4>3
    <3> QED BY <3>2, <3>3, <3>4, <3>5
  <2> QED BY <2>1, <2>4, <2>5
<1>2. CASE Finish
  <2>1. /\ i' = i /\ candles' = candles /\ decider' = decider /\ model' = model
        /\ lastTrain' = lastTrain /\ asked' = asked
    BY <1>2 DEF Finish, EndOfData
  <2>2. \A t : Trainable(t)' = Trainable(t)
    BY <2>1, SamplesFixed
  <2> QED BY <2>1, <2>2 DEF TermInv
<1>3. CASE UNCHANGED vars
  <2>1. /\ i' = i /\ candles' = candles /\ decider' = decider /\ model' = model
        /\ lastTrain' = lastTrain /\ asked' = asked
    BY <1>3 DEF vars
  <2>2. \A t : Trainable(t)' = Trainable(t)
    BY <2>1, SamplesFixed
  <2> QED BY <2>1, <2>2 DEF TermInv
<1> QED BY <1>1, <1>2, <1>3 DEF Next

\* A model answers for the retrain_every bars after its fit and no other
\* (walkforward.py:12, _maybe_retrain): a fit that is due never fails for want of samples
\* or classes once an earlier one succeeded.
THEOREM ModelsServeTheirTerm ==
    ASSUME RetrainEvery > 0
    PROVE  Spec => []ModelInTerm
<1>1. TermInv => ModelInTerm
  BY DEF TermInv, ModelInTerm
<1>2. ReplayInv /\ TermInv /\ [Next]_vars => TermInv'
  BY TermKeeps
<1> QED BY <1>1, <1>2, TermStarts, ReplayInvHolds, PTL DEF Spec

(***************************************************************************)
(* What the models are trained on and asked with.                          *)
(***************************************************************************)
LEMMA BufferOf ==
    ASSUME candles \in Histories, NEW t \in Bars
    PROVE  KnownOf(Buffer(t), Buffer(LastBar)) /\ Len(Buffer(t)) = t + 1
<1>1. LastBar \in Bars /\ LastBar \in Nat /\ t \in Nat /\ t <= LastBar
  BY DecidersSettings DEF Bars
<1>2. ASSUME NEW b \in Bars PROVE candles[b] \in BarRecords
  <2>1. candles[b] \in [open : Nat \ {0}, high : Nat \ {0}, low : Nat \ {0},
                        close : Nat \ {0}, volume : Nat]
    BY BarType DEF IsBar
  <2> QED BY <2>1 DEF BarRecords
<1>3. ASSUME NEW n \in Bars
      PROVE  Buffer(n) \in Seq(BarRecords) /\ Len(Buffer(n)) = n + 1
             /\ \A k \in 1 .. n + 1 : Buffer(n)[k] = candles[k - 1]
  <2>1. n + 1 \in Nat /\ \A k \in 1 .. n + 1 : k - 1 \in Bars
    BY DecidersSettings DEF Bars
  <2>2. \A k \in 1 .. n + 1 : candles[k - 1] \in BarRecords
    BY <1>2, <2>1
  <2>3. Buffer(n) = [k \in 1 .. n + 1 |-> candles[k - 1]]
    BY DEF Buffer
  <2> QED BY <2>1, <2>2, <2>3
<1>4. Buffer(t) \in Seq(BarRecords) /\ Len(Buffer(t)) = t + 1
      /\ \A k \in 1 .. t + 1 : Buffer(t)[k] = candles[k - 1]
  BY <1>3
<1>5. Buffer(LastBar) \in Seq(BarRecords) /\ Len(Buffer(LastBar)) = LastBar + 1
      /\ \A k \in 1 .. LastBar + 1 : Buffer(LastBar)[k] = candles[k - 1]
  BY <1>1, <1>3
<1>6. ASSUME NEW k \in 1 .. t + 1 PROVE Buffer(t)[k] = Buffer(LastBar)[k]
  <2>1. k \in 1 .. LastBar + 1
    BY <1>1
  <2> QED BY <1>4, <1>5, <2>1
<1>7. Len(Buffer(t)) <= Len(Buffer(LastBar))
  BY <1>1, <1>4, <1>5
<1> QED BY <1>4, <1>5, <1>6, <1>7 DEF KnownOf

\* The row of a bar in the matrix is what the live agent computes at that bar.
LEMMA MatrixRow ==
    ASSUME candles \in Histories, NEW t \in Bars, t >= Start
    PROVE  /\ t - Start + 1 \in DOMAIN BuildFeatureMatrix(Buffer(LastBar))
           /\ BuildFeatureMatrix(Buffer(LastBar))[t - Start + 1] = BuildFeatures(Buffer(t))
<1> DEFINE all == Buffer(LastBar)
           r == t - Start + 1
           matrix == BuildFeatureMatrix(all)
<1>1. LastBar \in Nat /\ t \in Nat /\ t <= LastBar /\ MinBars \in Nat \ {0, 1}
      /\ LastBar \in Bars /\ Start = MinBars - 1
  BY DecidersSettings, FeatureAssumption DEF Bars, Start
<1>2. KnownOf(Buffer(t), all) /\ Len(Buffer(t)) = t + 1 /\ Len(all) = LastBar + 1
  BY <1>1, BufferOf
<1> HIDE DEF all
<1>3. Larger(Len(all) - MinBars + 1, 0) = LastBar + 2 - MinBars
  BY <1>1, <1>2 DEF Larger
<1>4. DOMAIN matrix = 1 .. LastBar + 2 - MinBars
      /\ \A q \in 1 .. LastBar + 2 - MinBars :
            matrix[q] = RowAt(all, Precomputed(all), q + MinBars - 1)
  BY <1>3 DEF BuildFeatureMatrix
<1>5. r \in 1 .. LastBar + 2 - MinBars /\ r + MinBars - 1 = t + 1
  BY <1>1
<1>6. BuildFeatures(Buffer(t)) = RowAt(Buffer(t), Precomputed(Buffer(t)), t + 1)
  BY <1>1, <1>2 DEF BuildFeatures
<1>7. t + 1 \in MinBars .. Len(Buffer(t))
  BY <1>1, <1>2
<1>8. RowAt(Buffer(t), Precomputed(Buffer(t)), t + 1) = RowAt(all, Precomputed(all), t + 1)
  BY <1>2, <1>7, RowCut
<1> HIDE DEF matrix, r
<1> QED BY <1>4, <1>5, <1>6, <1>8 DEF all, r, matrix

\* The rows of the matrix are those of the buffers.
LEMMA CausalOf == ReplayInv => RowsAreCausal
<1> SUFFICES ASSUME ReplayInv, NEW t \in Bars
             PROVE  IF HasRow(t) THEN XFull[RowForBar(t)] = BuildFeatures(Buffer(t))
                                 ELSE t + 1 < MinBars
  BY DEF RowsAreCausal
<1>1. candles \in Histories
  BY DEF ReplayInv, EngineInv
<1>2. ASSUME HasRow(t) PROVE XFull[RowForBar(t)] = BuildFeatures(Buffer(t))
  BY <1>1, <1>2, MatrixRow DEF HasRow, XFull, RowForBar
<1>3. ASSUME ~HasRow(t) PROVE t + 1 < MinBars
  <2>1. t \in Nat /\ t <= LastBar /\ LastBar \in Nat /\ MinBars \in Nat
    BY DecidersSettings, FeatureAssumption DEF Bars
  <2> QED BY <1>3, <2>1 DEF HasRow, RowForBar, Start, N
<1> QED BY <1>2, <1>3

\* "Each row uses bars [0 .. i]" (build_feature_matrix, feature_engineer.py:280): each row
\* computed from the whole history is the one the live agent computes from its buffer,
\* for histories the buffer holds whole (500 bars in candle_buffer.py:46).
THEOREM RowsLookBack == Spec => []RowsAreCausal
BY ReplayInvHolds, CausalOf, PTL

\* Rows and labels of the data set start at the same bar and end at the last label.
LEMMA SamplesOf == MinSamples >= 2 /\ ReplayInv => SamplesAligned
<1> SUFFICES ASSUME MinSamples >= 2, ReplayInv PROVE SamplesAligned
  OBVIOUS
<1> DEFINE bars == Buffer(LastBar)
           rows == BuildFeatureMatrix(bars)
           closes == [b \in 0 .. Len(bars) - 1 |-> bars[b + 1].close]
           labels == Generate(closes, Len(bars))
           start == MinBars - 1
           end == Len(bars) - Horizon
           samples == LoadData(bars)
           count == IF end <= start THEN 0 ELSE end - start
<1>1. /\ LastBar \in Nat /\ LastBar \in Bars /\ Horizon \in Nat \ {0}
      /\ MinBars \in Nat \ {0, 1} /\ Start = MinBars - 1 /\ candles \in Histories
  BY DecidersSettings, FeatureAssumption DEF Bars, Start, ReplayInv, EngineInv
<1>2. KnownOf(bars, bars) /\ Len(bars) = LastBar + 1
  BY <1>1, BufferOf
<1>3. \A b \in Bars : closes[b] = Closes[b]
  <2>1. \A k \in 1 .. LastBar + 1 : bars[k] = candles[k - 1]
    BY DEF Buffer
  <2>2. ASSUME NEW b \in Bars PROVE closes[b] = Closes[b]
    <3>1. b + 1 \in 1 .. LastBar + 1 /\ b \in 0 .. Len(bars) - 1 /\ (b + 1) - 1 = b
      BY <1>1, <1>2 DEF Bars
    <3> HIDE DEF bars
    <3>2. closes[b] = bars[b + 1].close /\ bars[b + 1] = candles[b]
      BY <2>1, <3>1
    <3> QED BY <3>2 DEF Closes
  <2> QED BY <2>2
<1>4. samples = IF end <= start THEN << >>
                ELSE [k \in 1 .. end - start |-> [row |-> rows[k], label |-> labels[start + k - 1]]]
  BY DEF LoadData
<1> HIDE DEF bars, rows, labels, samples, closes
<1>5. /\ end = LastBar + 1 - Horizon /\ count \in Nat
  BY <1>1, <1>2
<1>6. /\ Len(samples) = count
      /\ \A k \in 1 .. count : samples[k] = [row |-> rows[k], label |-> labels[start + k - 1]]
  <2>1. CASE end <= start
    BY <1>4, <2>1
  <2>2. CASE ~(end <= start)
    <3>1. end - start \in Nat /\ count = end - start
      BY <1>5, <2>2
    <3> QED BY <1>4, <2>2, <3>1
  <2> QED BY <2>1, <2>2
<1>7. count = Cardinality({b \in Bars : b >= Start /\ b + Horizon <= LastBar})
  <2>1. {b \in Bars : b >= Start /\ b + Horizon <= LastBar} = Start .. LastBar - Horizon
    BY <1>1 DEF Bars
  <2>2. Start \in Int /\ LastBar - Horizon \in Int
    BY <1>1
  <2>3. Cardinality(Start .. LastBar - Horizon)
        = IF Start > LastBar - Horizon THEN 0 ELSE LastBar - Horizon - Start + 1
    BY <2>2, FS_Interval
  <2>4. count = IF Start > LastBar - Horizon THEN 0 ELSE LastBar - Horizon - Start + 1
    BY <1>1, <1>5
  <2> QED BY <2>1, <2>3, <2>4
<1>8. ASSUME NEW k \in 1 .. count
      PROVE  /\ samples[k].row = BuildFeatures(Buffer(Start + k - 1))
             /\ samples[k].label =
                   ReturnLabel(Closes[Start + k - 1], Closes[Start + k - 1 + Horizon])
  <2> DEFINE b == Start + k - 1
  <2>1. /\ b \in Bars /\ b >= Start /\ b - Start + 1 = k /\ start + k - 1 = b
        /\ b + Horizon \in Bars /\ b + Horizon <= Len(bars) - 1 /\ b \in 0 .. Len(bars) - 1
    BY <1>1, <1>2, <1>5 DEF Bars
  <2> HIDE DEF b
  <2>2. rows[k] = BuildFeatures(Buffer(b))
    BY <1>1, <2>1, MatrixRow DEF rows, bars
  <2>3. labels[b] = ReturnLabel(closes[b], closes[b + Horizon])
    BY <2>1 DEF labels, Generate
  <2>4. closes[b] = Closes[b] /\ closes[b + Horizon] = Closes[b + Horizon]
    BY <1>3, <2>1
  <2>5. samples[k].row = rows[k] /\ samples[k].label = labels[b]
    <3>1. samples[k] = [row |-> rows[k], label |-> labels[start + k - 1]]
      BY <1>6
    <3> HIDE DEF start
    <3> QED BY <2>1, <3>1
  <2> QED BY <2>2, <2>3, <2>4, <2>5 DEF b
<1>9. Trained(samples) => TrainSize(samples) \in 1 .. Len(samples) - 1
  <2>1. MinSamples \in Nat
    BY TrainingAssumption
  <2> HIDE DEF count
  <2> QED BY <1>5, <1>6, <2>1 DEF Trained, TrainSize
<1> HIDE DEF count
<1> QED BY <1>6, <1>7, <1>8, <1>9 DEF SamplesAligned, samples, bars

\* The data set of load_data_from_db (model_trainer.py:76-165) pairs the row of a bar with the return after
\* that bar, for every bar that has both, and what a model is measured with is never empty.
THEOREM SamplesAreAligned ==
    ASSUME MinSamples >= 2
    PROVE  Spec => []SamplesAligned
BY ReplayInvHolds, SamplesOf, PTL

(***************************************************************************)
(* The drawdown of the report.                                             *)
(***************************************************************************)
Fractions == Int \X (Nat \ {0})
\* What the pass carries from value to value.
PassStates == [peak : Int, worst : Fractions, len : Nat, longest : Nat]

\* A drawdown that is not deeper than another.
NotDeeper(d, e) == d[1] * e[2] <= e[1] * d[2]

\* Inequalities may be multiplied by what is not negative.
LEMMA Scale == \A x, y \in Int, z \in Nat : x <= y => x * z <= y * z
<1> SUFFICES ASSUME NEW x \in Int, NEW y \in Int, NEW z \in Nat, x <= y PROVE x * z <= y * z
  OBVIOUS
<1>1. (y - x) * z >= 0
  BY SMTT(30)
<1>2. (y - x) * z = y * z - x * z
  OBVIOUS
<1> QED BY <1>1, <1>2

\* And divided by what is positive.
LEMMA Unscale == \A x, y \in Int, z \in Nat \ {0} : x * z <= y * z => x <= y
<1> SUFFICES ASSUME NEW x \in Int, NEW y \in Int, NEW z \in Nat \ {0}, y < x PROVE y * z < x * z
  OBVIOUS
<1>1. (x - y) * z > 0
  BY SMTT(30)
<1>2. (x - y) * z = x * z - y * z
  OBVIOUS
<1> QED BY <1>1, <1>2

\* One of two fractions is deeper, or neither.
LEMMA FractionOrder ==
    ASSUME NEW d \in Fractions, NEW e \in Fractions
    PROVE  /\ d[1] \in Int /\ d[2] \in Nat \ {0}
           /\ NotDeeper(d, e) <=> ~Deeper(d, e)
           /\ Deeper(d, e) => NotDeeper(e, d)
<1>1. d[1] \in Int /\ d[2] \in Nat \ {0} /\ e[1] \in Int /\ e[2] \in Nat \ {0}
  BY DEF Fractions
<1>2. d[1] * e[2] \in Int /\ e[1] * d[2] \in Int
  BY <1>1
<1> QED BY <1>1, <1>2 DEF NotDeeper, Deeper

\* Being no deeper is transitive.
LEMMA FractionTransitive ==
    ASSUME NEW d \in Fractions, NEW e \in Fractions, NEW f \in Fractions,
           NotDeeper(d, e), NotDeeper(e, f)
    PROVE  NotDeeper(d, f)
<1> DEFINE a == d[1]
           x == d[2]
           b == e[1]
           y == e[2]
           c == f[1]
           z == f[2]
<1>1. a \in Int /\ b \in Int /\ c \in Int /\ x \in Nat /\ y \in Nat \ {0} /\ z \in Nat
      /\ a * y <= b * x /\ b * z <= c * y
  BY FractionOrder DEF NotDeeper
<1> HIDE DEF a, b, c, x, y, z
<1>2. (a * y) * z <= (b * x) * z
  <2>1. a * y \in Int /\ b * x \in Int
    BY <1>1
  <2> QED BY <1>1, <2>1, Scale
<1>3. (b * z) * x <= (c * y) * x
  <2>1. b * z \in Int /\ c * y \in Int
    BY <1>1
  <2> QED BY <1>1, <2>1, Scale
<1>4. (a * y) * z = (a * z) * y /\ (b * x) * z = (b * z) * x /\ (c * y) * x = (c * x) * y
  BY <1>1
<1>5. a * z \in Int /\ c * x \in Int /\ (a * z) * y \in Int /\ (b * z) * x \in Int /\ (c * x) * y \in Int
  BY <1>1
<1>6. (a * z) * y <= (c * x) * y
  BY <1>2, <1>3, <1>4, <1>5
<1>7. a * z <= c * x
  BY <1>1, <1>5, <1>6, Unscale
<1> QED BY <1>7 DEF NotDeeper, a, c, x, z

\* The drop below a higher peak is the deeper one, unless the value is a debt.
LEMMA HigherPeakIsDeeper ==
    ASSUME NEW v \in Int, NEW low \in Nat \ {0}, NEW high \in Nat \ {0},
           low <= high, v >= 0 \/ low = high
    PROVE  NotDeeper(Drawdown(low, v), Drawdown(high, v))
<1>1. Drawdown(low, v) = <<low - v, low>> /\ Drawdown(high, v) = <<high - v, high>>
  BY DEF Drawdown
<1>2. (low - v) * high <= (high - v) * low
  <2>1. CASE low = high
    BY <2>1
  <2>2. CASE v >= 0
    <3>1. v \in Nat /\ low \in Int /\ high \in Int
      BY <2>2
    <3>2. low * v <= high * v
      BY <3>1, Scale
    <3>3. (low - v) * high = low * high - high * v /\ (high - v) * low = low * high - low * v
      OBVIOUS
    <3>4. low * v \in Int /\ high * v \in Int /\ low * high \in Int
      BY <3>1
    <3> QED BY <3>2, <3>3, <3>4
  <2> QED BY <2>1, <2>2
<1> QED BY <1>1, <1>2 DEF NotDeeper

\* A drawdown is a fraction.
LEMMA DrawdownType ==
    \A peak, v \in Int : Drawdown(peak, v) \in Fractions /\ NoDrawdown \in Fractions
BY DEF Drawdown, NoDrawdown, Fractions

\* A step of the pass keeps its types.
LEMMA StepType ==
    ASSUME NEW s \in PassStates, NEW v \in Int
    PROVE  DrawdownStep(s, v) \in PassStates
<1>1. s.peak \in Int /\ s.worst \in Fractions /\ s.len \in Nat /\ s.longest \in Nat
  BY DEF PassStates
<1>2. CASE v >= s.peak
  BY <1>1, <1>2 DEF DrawdownStep, PassStates
<1>3. CASE ~(v >= s.peak)
  <2> DEFINE worst == IF Deeper(Drawdown(s.peak, v), s.worst) THEN Drawdown(s.peak, v) ELSE s.worst
  <2>1. worst \in Fractions
    BY <1>1, DrawdownType
  <2> HIDE DEF worst
  <2>2. DrawdownStep(s, v) = [peak |-> s.peak, worst |-> worst, len |-> s.len + 1,
          longest |-> IF s.len + 1 > s.longest THEN s.len + 1 ELSE s.longest]
    BY <1>3 DEF DrawdownStep, worst
  <2> QED BY <1>1, <2>1, <2>2 DEF PassStates
<1> QED BY <1>2, <1>3

\* The single pass as a series of states.
LEMMA PassIs ==
    ASSUME NEW eq \in Seq(Int), Len(eq) > 0
    PROVE  \E s \in [0 .. Len(eq) -> PassStates] :
              /\ MaxDrawdown(eq) = s[Len(eq)]
              /\ s[0] = [peak |-> eq[1], worst |-> NoDrawdown, len |-> 0, longest |-> 0]
              /\ \A k \in 1 .. Len(eq) : s[k] = DrawdownStep(s[k - 1], eq[k])
<1> DEFINE n == Len(eq)
           base == [peak |-> eq[1], worst |-> NoDrawdown, len |-> 0, longest |-> 0]
           at(k) == IF k \in 1 .. n THEN eq[k] ELSE 0
           G == [k \in Int |-> [s \in PassStates |-> DrawdownStep(s, at(k))]]
           Is(s) == s = [k \in 0 .. n |-> IF k = 0 THEN base ELSE DrawdownStep(s[k - 1], eq[k])]
<1>1. n \in Nat \ {0} /\ \A k \in 1 .. n : eq[k] \in Int
  OBVIOUS
<1>2. base \in PassStates
  BY <1>1, DrawdownType DEF PassStates
<1>3. G \in [Int -> [PassStates -> PassStates]]
  <2>1. \A k \in Int : at(k) \in Int
    BY <1>1
  <2> HIDE DEF at
  <2> QED BY <2>1, StepType
<1> HIDE DEF n, base
<1>4. PICK f : IsSeries(f, 0, n, PassStates, base, G)
  <2>1. 0 \in Int /\ n \in Int
    BY <1>1
  <2> HIDE DEF G
  <2> QED BY <1>2, <1>3, <2>1, SeriesExists
<1>5. f \in [0 .. n -> PassStates]
  BY <1>4 DEF IsSeries
<1>6. ASSUME NEW k \in 0 .. n
      PROVE  f[k] = IF k = 0 THEN base ELSE DrawdownStep(f[k - 1], eq[k])
  <2>1. CASE k = 0
    <3> HIDE DEF G
    <3> QED BY <1>4, <2>1 DEF IsSeries
  <2>2. CASE k # 0
    <3>1. k \in 1 .. n /\ k - 1 \in 0 .. n /\ k \in Int
      BY <1>1, <2>2
    <3>2. f[k - 1] \in PassStates
      BY <1>5, <3>1
    <3>3. f[k] = G[k][f[k - 1]]
      <4> HIDE DEF G
      <4> QED BY <1>4, <2>2 DEF IsSeries
    <3>4. G[k][f[k - 1]] = DrawdownStep(f[k - 1], at(k)) /\ at(k) = eq[k]
      BY <3>1, <3>2
    <3> QED BY <2>2, <3>3, <3>4
  <2> QED BY <2>1, <2>2
<1>7. Is(CHOOSE s : Is(s))
  <2>1. Is(f)
    BY <1>5, <1>6
  <2> HIDE DEF Is
  <2> QED BY <2>1
<1> DEFINE c == CHOOSE s : Is(s)
<1>8. MaxDrawdown(eq) = c[n]
  BY DEF MaxDrawdown, n, base
<1> HIDE DEF c
<1>9. c = [k \in 0 .. n |-> IF k = 0 THEN base ELSE DrawdownStep(c[k - 1], eq[k])]
  BY <1>7 DEF c
<1>10. \A k \in 0 .. n : c[k] = IF k = 0 THEN base ELSE DrawdownStep(c[k - 1], eq[k])
  BY <1>9
<1>11. c \in [0 .. n -> PassStates]
  <2> DEFINE Good == {k \in 0 .. n : c[k] \in PassStates}
  <2>1. 0 <= n => 0 \in Good
    BY <1>1, <1>2, <1>10
  <2>2. ASSUME NEW k \in 0 + 1 .. n, k - 1 \in Good PROVE k \in Good
    <3>1. k \in 0 .. n /\ k # 0 /\ eq[k] \in Int /\ c[k - 1] \in PassStates
      BY <1>1, <2>2
    <3>2. DrawdownStep(c[k - 1], eq[k]) \in PassStates
      BY <3>1, StepType
    <3> QED BY <1>10, <3>1, <3>2
  <2> HIDE DEF Good
  <2>3. Good \in SUBSET (0 .. n) /\ 0 \in Int /\ n \in Int
    BY <1>1 DEF Good
  <2>4. Good = 0 .. n
    BY <2>1, <2>2, <2>3, PositionInduction
  <2> QED BY <1>9, <2>4 DEF Good
<1>12. c[0] = base /\ \A k \in 1 .. n : c[k] = DrawdownStep(c[k - 1], eq[k])
  BY <1>1, <1>10
<1> QED BY <1>8, <1>11, <1>12 DEF n, base

\* A value that max_drawdown measures from an earlier one, and a value below one.
Falling(eq, j, m) == eq[j] > 0 /\ (eq[m] >= 0 \/ \A n \in 1 .. m : eq[n] <= eq[j])
Under(eq, m) == \E j \in 1 .. m : eq[j] > eq[m]
Run(eq, p, q) == p <= q /\ \A m \in p .. q : Under(eq, m)

\* What the pass knows after k values.
PeakInv(eq, s, k) ==
    /\ \E j \in 1 .. k : eq[j] = s.peak
    /\ \A j \in 1 .. k : eq[j] <= s.peak

WorstInv(eq, s, k) ==
    /\ s.worst[1] >= 0
    /\ \/ s.worst = NoDrawdown
       \/ \E j, m \in 1 .. k : /\ j <= m /\ Falling(eq, j, m)
                               /\ s.worst = Drawdown(eq[j], eq[m])
    /\ \A j, m \in 1 .. k :
          j <= m /\ Falling(eq, j, m) => NotDeeper(Drawdown(eq[j], eq[m]), s.worst)

TailInv(eq, s, k) ==
    /\ s.len < k /\ s.len <= s.longest
    /\ ~Under(eq, k - s.len)
    /\ \A m \in k - s.len + 1 .. k : Under(eq, m)

LongestInv(eq, s, k) ==
    /\ \A p, q \in 1 .. k : Run(eq, p, q) => q - p + 1 <= s.longest
    /\ s.longest = 0 \/ \E p, q \in 1 .. k : Run(eq, p, q) /\ q - p + 1 = s.longest

LengthInv(eq, s, k) == TailInv(eq, s, k) /\ LongestInv(eq, s, k)

PassInv(eq, s, k) == PeakInv(eq, s, k) /\ WorstInv(eq, s, k) /\ LengthInv(eq, s, k)

\* The next value of a series.
NextValue(eq, s, k) ==
    /\ eq \in Seq(Int) /\ s \in PassStates
    /\ k \in Nat \ {0} /\ k + 1 \in 1 .. Len(eq)

\* What the next value is, and that it is the only new one.
LEMMA NextValueFacts ==
    ASSUME NEW eq, NEW s, NEW k, NextValue(eq, s, k)
    PROVE  /\ k \in Nat /\ k \in Int /\ k > 0 /\ 1 .. k \subseteq 1 .. k + 1
           /\ \A j \in 1 .. k + 1 : eq[j] \in Int /\ j \in Int /\ (j # k + 1 => j \in 1 .. k)
           /\ eq[k + 1] \in Int /\ k + 1 \in 1 .. k + 1
           /\ s.peak \in Int /\ s.worst \in Fractions /\ s.len \in Nat /\ s.longest \in Nat
<1>1. k \in Nat /\ k > 0 /\ Len(eq) \in Nat /\ k + 1 <= Len(eq)
  BY DEF NextValue
<1>2. \A j \in 1 .. k + 1 : j \in 1 .. Len(eq)
  BY <1>1
<1>3. \A j \in 1 .. Len(eq) : eq[j] \in Int
  BY DEF NextValue
<1>4. s.peak \in Int /\ s.worst \in Fractions /\ s.len \in Nat /\ s.longest \in Nat
  BY DEF NextValue, PassStates
<1>5. \A j \in 1 .. k + 1 : j # k + 1 => j \in 1 .. k
  BY <1>1
<1>6. k + 1 \in 1 .. k + 1 /\ 1 .. k \subseteq 1 .. k + 1
  BY <1>1
<1> QED BY <1>1, <1>2, <1>3, <1>4, <1>5, <1>6

\* The peak stays the highest value.
LEMMA PeakKeeps ==
    ASSUME NEW eq, NEW s, NEW k, NextValue(eq, s, k), PeakInv(eq, s, k)
    PROVE  PeakInv(eq, DrawdownStep(s, eq[k + 1]), k + 1)
<1> DEFINE v == eq[k + 1]
           t == DrawdownStep(s, v)
<1>1. t.peak = IF v >= s.peak THEN v ELSE s.peak
  <2>1. CASE v >= s.peak
    BY <2>1 DEF DrawdownStep, NextValue, PassStates
  <2>2. CASE ~(v >= s.peak)
    BY <2>2 DEF DrawdownStep
  <2> QED BY <2>1, <2>2
<1> HIDE DEF t
<1>2. ASSUME NEW j \in 1 .. k + 1 PROVE eq[j] <= t.peak
  <2>1. CASE j = k + 1
    BY <1>1, <2>1, NextValueFacts
  <2>2. CASE j # k + 1
    <3>1. eq[j] <= s.peak /\ eq[j] \in Int
      BY <2>2, NextValueFacts DEF PeakInv
    <3> QED BY <1>1, <3>1, NextValueFacts
  <2> QED BY <2>1, <2>2
<1>3. \E j \in 1 .. k + 1 : eq[j] = t.peak
  BY <1>1, NextValueFacts DEF PeakInv
<1> QED BY <1>2, <1>3 DEF PeakInv, t

\* The worst fall stays the worst, and one that happened.
LEMMA WorstKeeps ==
    ASSUME NEW eq, NEW s, NEW k, NextValue(eq, s, k), PeakInv(eq, s, k), WorstInv(eq, s, k)
    PROVE  WorstInv(eq, DrawdownStep(s, eq[k + 1]), k + 1)
<1> DEFINE v == eq[k + 1]
           t == DrawdownStep(s, v)
           d == Drawdown(s.peak, v)
<1>0. v \in Int /\ s.peak \in Int /\ s.worst \in Fractions /\ d \in Fractions
      /\ NoDrawdown \in Fractions
  BY NextValueFacts, DrawdownType
<1>1. t.worst = IF v >= s.peak THEN s.worst ELSE IF Deeper(d, s.worst) THEN d ELSE s.worst
  <2>1. CASE v >= s.peak
    BY <2>1 DEF DrawdownStep, NextValue, PassStates
  <2>2. CASE ~(v >= s.peak)
    BY <2>2 DEF DrawdownStep
  <2> QED BY <2>1, <2>2
<1> HIDE DEF t
<1>2. s.worst[1] \in Nat /\ s.worst[2] \in Nat \ {0}
  BY <1>0, FractionOrder DEF WorstInv
<1>3. t.worst \in Fractions /\ NotDeeper(s.worst, t.worst) /\ t.worst[1] >= 0
  <2>1. CASE t.worst = s.worst
    BY <1>0, <1>2, <2>1 DEF NotDeeper
  <2>2. CASE t.worst = d /\ Deeper(d, s.worst)
    <3>1. NotDeeper(s.worst, d) /\ d[1] \in Int /\ d[2] \in Nat \ {0}
      BY <1>0, <2>2, FractionOrder
    <3>2. d[1] * s.worst[2] > s.worst[1] * d[2]
      BY <2>2 DEF Deeper
    <3>3. s.worst[1] * d[2] \in Nat
      BY <1>2, <3>1
    <3>4. ASSUME d[1] < 0 PROVE FALSE
      <4>1. d[1] <= 0 /\ 0 \in Int /\ s.worst[2] \in Nat
        BY <1>2, <3>1, <3>4
      <4>2. d[1] * s.worst[2] <= 0 * s.worst[2]
        BY <3>1, <4>1, Scale
      <4>3. d[1] * s.worst[2] \in Int /\ 0 * s.worst[2] = 0
        BY <1>2, <3>1
      <4> QED BY <3>2, <3>3, <4>2, <4>3
    <3> QED BY <1>0, <2>2, <3>1, <3>4
  <2> QED BY <1>1, <2>1, <2>2
\* Old falls.
<1>4. ASSUME NEW j \in 1 .. k, NEW m \in 1 .. k, j <= m, Falling(eq, j, m)
      PROVE  NotDeeper(Drawdown(eq[j], eq[m]), t.worst)
  <2>1. NotDeeper(Drawdown(eq[j], eq[m]), s.worst)
    BY <1>4 DEF WorstInv
  <2>2. Drawdown(eq[j], eq[m]) \in Fractions
    BY NextValueFacts, DrawdownType
  <2> QED BY <1>0, <1>3, <2>1, <2>2, FractionTransitive
\* Falls to the new value.
<1>5. ASSUME NEW j \in 1 .. k + 1, Falling(eq, j, k + 1)
      PROVE  NotDeeper(Drawdown(eq[j], v), t.worst)
  <2> DEFINE e == eq[j]
  <2>1. e \in Nat \ {0} /\ (v >= 0 \/ \A n \in 1 .. k + 1 : eq[n] <= e)
    BY <1>5, NextValueFacts DEF Falling
  <2>2. Drawdown(e, v) \in Fractions /\ Drawdown(e, v) = <<e - v, e>>
    BY <1>0, <2>1, DrawdownType DEF Drawdown
  <2>3. CASE v >= e
    <3>1. (e - v) <= 0 /\ e - v \in Int /\ t.worst[1] \in Nat /\ t.worst[2] \in Nat
      BY <1>0, <1>3, <2>1, <2>3, FractionOrder
    <3>2. (e - v) * t.worst[2] <= 0 * t.worst[2] /\ 0 \in Int
      BY <3>1, Scale
    <3>3. t.worst[1] * e \in Nat /\ (e - v) * t.worst[2] \in Int /\ 0 * t.worst[2] = 0
      BY <2>1, <3>1
    <3>4. (e - v) * t.worst[2] <= t.worst[1] * e
      BY <3>2, <3>3
    <3> HIDE DEF e
    <3>5. NotDeeper(Drawdown(e, v), t.worst)
      BY <2>2, <3>4 DEF NotDeeper
    <3> QED BY <3>5 DEF e
  <2>4. CASE ~(v >= e)
    <3>1. j \in 1 .. k /\ e <= s.peak
      BY <1>0, <2>1, <2>4, NextValueFacts DEF PeakInv
    <3>2. s.peak \in Nat \ {0} /\ ~(v >= s.peak)
      BY <1>0, <2>1, <2>4, <3>1
    <3>3. v >= 0 \/ e = s.peak
      <4> SUFFICES ASSUME ~(v >= 0) PROVE e = s.peak
        OBVIOUS
      <4>1. PICK h \in 1 .. k : eq[h] = s.peak
        BY DEF PeakInv
      <4>2. eq[h] <= e
        BY <2>1, <4>1, NextValueFacts
      <4> QED BY <1>0, <2>1, <3>1, <4>1, <4>2
    <3>4. NotDeeper(Drawdown(e, v), d)
      <4> HIDE DEF e, v
      <4> QED BY <1>0, <2>1, <3>1, <3>2, <3>3, HigherPeakIsDeeper
    <3>5. NotDeeper(d, t.worst)
      <4>1. CASE Deeper(d, s.worst)
        <5>1. t.worst = d
          BY <1>1, <3>2, <4>1
        <5>2. d[1] \in Int /\ d[2] \in Nat
          BY <1>0, FractionOrder
        <5> QED BY <5>1, <5>2 DEF NotDeeper
      <4>2. CASE ~Deeper(d, s.worst)
        <5>1. t.worst = s.worst
          BY <1>1, <3>2, <4>2
        <5> QED BY <1>0, <4>2, <5>1, FractionOrder
      <4> QED BY <4>1, <4>2
    <3> HIDE DEF d, e
    <3>6. NotDeeper(Drawdown(e, v), t.worst)
      BY <1>0, <1>3, <2>2, <3>4, <3>5, FractionTransitive
    <3> QED BY <3>6 DEF e
  <2> QED BY <2>3, <2>4
<1>6. \A j, m \in 1 .. k + 1 :
         j <= m /\ Falling(eq, j, m) => NotDeeper(Drawdown(eq[j], eq[m]), t.worst)
  <2>1. ASSUME NEW j \in 1 .. k + 1, NEW m \in 1 .. k + 1, j <= m, Falling(eq, j, m)
        PROVE  NotDeeper(Drawdown(eq[j], eq[m]), t.worst)
    <3>1. CASE m = k + 1
      BY <1>5, <2>1, <3>1
    <3>2. CASE m # k + 1
      <4>1. m \in 1 .. k /\ j \in 1 .. k
        BY <2>1, <3>2, NextValueFacts
      <4> QED BY <1>4, <2>1, <4>1
    <3> QED BY <3>1, <3>2
  <2> QED BY <2>1
\* The reported one happened.
<1>7. \/ t.worst = NoDrawdown
      \/ \E j, m \in 1 .. k + 1 : /\ j <= m /\ Falling(eq, j, m)
                                  /\ t.worst = Drawdown(eq[j], eq[m])
  <2>1. CASE t.worst = s.worst
    <3>1. \A j \in 1 .. k : j \in 1 .. k + 1
      BY NextValueFacts
    <3> QED BY <2>1, <3>1 DEF WorstInv
  <2>2. CASE t.worst = d /\ s.peak <= 0
    BY <1>0, <2>2 DEF Drawdown
  <2>3. CASE t.worst = d /\ s.peak > 0 /\ ~(v >= s.peak)
    <3>1. PICK h \in 1 .. k : eq[h] = s.peak
      BY DEF PeakInv
    <3>2. \A n \in 1 .. k + 1 : eq[n] <= s.peak
      BY <1>0, <2>3, NextValueFacts DEF PeakInv
    <3>3. Falling(eq, h, k + 1)
      BY <2>3, <3>1, <3>2 DEF Falling
    <3>4. h \in 1 .. k + 1 /\ k + 1 \in 1 .. k + 1 /\ h <= k + 1
      BY <3>1, NextValueFacts
    <3> QED BY <2>3, <3>1, <3>3, <3>4
  <2> QED BY <1>0, <1>1, <2>1, <2>2, <2>3
<1> QED BY <1>3, <1>6, <1>7 DEF WorstInv, t

\* The longest run stays the longest, and one that happened.
LEMMA LengthKeeps ==
    ASSUME NEW eq, NEW s, NEW k, NextValue(eq, s, k), PeakInv(eq, s, k), LengthInv(eq, s, k)
    PROVE  LengthInv(eq, DrawdownStep(s, eq[k + 1]), k + 1)
<1> DEFINE v == eq[k + 1]
           t == DrawdownStep(s, v)
<1>0. /\ v \in Int /\ s.peak \in Int /\ s.len \in Nat /\ s.longest \in Nat /\ k \in Nat
      /\ s.len < k /\ s.len <= s.longest
  BY NextValueFacts DEF LengthInv, TailInv
<1>1. Under(eq, k + 1) <=> ~(v >= s.peak)
  <2>1. ASSUME v >= s.peak PROVE ~Under(eq, k + 1)
    <3>1. \A j \in 1 .. k + 1 : eq[j] <= v
      BY <1>0, <2>1, NextValueFacts DEF PeakInv
    <3>2. \A j \in 1 .. k + 1 : ~(eq[j] > v)
      BY <1>0, <3>1, NextValueFacts
    <3> QED BY <3>2 DEF Under
  <2>2. ASSUME ~(v >= s.peak) PROVE Under(eq, k + 1)
    <3>1. PICK h \in 1 .. k : eq[h] = s.peak
      BY DEF PeakInv
    <3>2. h \in 1 .. k + 1 /\ eq[h] > v
      BY <1>0, <2>2, <3>1, NextValueFacts
    <3> QED BY <3>2 DEF Under
  <2> QED BY <2>1, <2>2
<1>2. CASE v >= s.peak
  <2>1. t.len = 0 /\ t.longest = s.longest
    BY <1>2 DEF DrawdownStep, NextValue, PassStates
  <2> HIDE DEF t
  <2>2. ~Under(eq, k + 1) /\ (k + 1) - 0 = k + 1 /\ (k + 1) - 0 + 1 = k + 2
    BY <1>0, <1>1, <1>2
  <2>3. \A p, q \in 1 .. k + 1 : Run(eq, p, q) <=> p \in 1 .. k /\ q \in 1 .. k /\ Run(eq, p, q)
    <3>1. ASSUME NEW p \in 1 .. k + 1, NEW q \in 1 .. k + 1, Run(eq, p, q)
          PROVE  p \in 1 .. k /\ q \in 1 .. k
      <4>1. q # k + 1
        <5> SUFFICES ASSUME q = k + 1 PROVE FALSE
          OBVIOUS
        <5>1. q \in p .. q /\ p <= q
          BY <3>1 DEF Run
        <5> QED BY <2>2, <3>1, <5>1 DEF Run
      <4>2. p <= q /\ p \in Int /\ q \in Int
        BY <3>1 DEF Run
      <4> QED BY <1>0, <4>1, <4>2
    <3> QED BY <3>1
  <2>4. \A p, q \in 1 .. k + 1 : Run(eq, p, q) => q - p + 1 <= t.longest
    BY <2>1, <2>3 DEF LengthInv, LongestInv
  <2>5. t.longest = 0 \/ \E p, q \in 1 .. k + 1 : Run(eq, p, q) /\ q - p + 1 = t.longest
    <3>1. \A p \in 1 .. k : p \in 1 .. k + 1
      BY NextValueFacts
    <3> QED BY <2>1, <3>1 DEF LengthInv, LongestInv
  <2>6. t.len < k + 1 /\ ~Under(eq, (k + 1) - t.len) /\ t.len <= t.longest
        /\ (k + 1) - t.len + 1 .. k + 1 = {}
    BY <1>0, <2>1, <2>2
  <2>7. \A m \in (k + 1) - t.len + 1 .. k + 1 : Under(eq, m)
    BY <2>6
  <2>8. TailInv(eq, t, k + 1)
    BY <2>6, <2>7 DEF TailInv
  <2>9. LongestInv(eq, t, k + 1)
    BY <2>4, <2>5 DEF LongestInv
  <2> QED BY <2>8, <2>9 DEF LengthInv, t
<1>3. CASE ~(v >= s.peak)
  <2>1. t.len = s.len + 1 /\ t.longest = IF s.len + 1 > s.longest THEN s.len + 1 ELSE s.longest
    BY <1>3 DEF DrawdownStep
  <2> HIDE DEF t
  <2>2. t.len < k + 1 /\ (k + 1) - t.len = k - s.len /\ t.len <= t.longest
        /\ t.len \in Nat /\ t.longest \in Nat /\ s.longest <= t.longest
    BY <1>0, <2>1
  <2>3. ~Under(eq, (k + 1) - t.len)
    BY <2>2 DEF LengthInv, TailInv
  <2>4. ASSUME NEW m \in (k + 1) - t.len + 1 .. k + 1 PROVE Under(eq, m)
    <3>1. CASE m = k + 1
      BY <1>1, <1>3, <3>1
    <3>2. CASE m # k + 1
      <4>1. m \in k - s.len + 1 .. k
        BY <1>0, <2>2, <3>2
      <4> QED BY <4>1 DEF LengthInv, TailInv
    <3> QED BY <3>1, <3>2
  <2>5. ASSUME NEW p \in 1 .. k + 1, NEW q \in 1 .. k + 1, Run(eq, p, q)
        PROVE  q - p + 1 <= t.longest
    <3>0. p <= q /\ p \in Int /\ q \in Int
      BY <2>5 DEF Run
    <3>1. CASE q # k + 1
      <4>1. p \in 1 .. k /\ q \in 1 .. k
        BY <1>0, <3>0, <3>1
      <4>2. q - p + 1 <= s.longest
        BY <2>5, <4>1 DEF LengthInv, LongestInv
      <4> QED BY <1>0, <2>2, <3>0, <4>2
    <3>2. CASE q = k + 1
      <4>1. ~(k - s.len \in p .. q)
        <5>1. ~Under(eq, k - s.len)
          BY DEF LengthInv, TailInv
        <5> QED BY <2>5, <5>1 DEF Run
      <4>2. k - s.len < p
        BY <1>0, <3>0, <3>2, <4>1
      <4>3. q - p + 1 <= t.len
        BY <1>0, <2>1, <3>0, <3>2, <4>2
      <4> QED BY <2>2, <3>0, <4>3
    <3> QED BY <3>1, <3>2
  <2>6. t.longest = 0 \/ \E p, q \in 1 .. k + 1 : Run(eq, p, q) /\ q - p + 1 = t.longest
    <3>1. CASE t.longest = s.longest
      <4>1. \A p \in 1 .. k : p \in 1 .. k + 1
        BY NextValueFacts
      <4> QED BY <3>1, <4>1 DEF LengthInv, LongestInv
    <3>2. CASE t.longest = t.len
      <4> DEFINE p == (k + 1) - t.len + 1
                 q == k + 1
      <4>1. p \in 1 .. k + 1 /\ q \in 1 .. k + 1 /\ p <= q /\ q - p + 1 = t.longest
        BY <1>0, <2>1, <2>2, <3>2
      <4>2. Run(eq, p, q)
        BY <2>4, <4>1 DEF Run
      <4> HIDE DEF p, q
      <4> QED BY <4>1, <4>2
    <3> QED BY <2>1, <3>1, <3>2
  <2>7. TailInv(eq, t, k + 1)
    BY <2>2, <2>3, <2>4 DEF TailInv
  <2>8. LongestInv(eq, t, k + 1)
    BY <2>5, <2>6 DEF LongestInv
  <2> QED BY <2>7, <2>8 DEF LengthInv, t
<1> QED BY <1>2, <1>3

\* So the pass ends with what it claims.
LEMMA PassHolds ==
    ASSUME NEW eq \in Seq(Int), Len(eq) > 0
    PROVE  MaxDrawdown(eq) \in PassStates /\ PassInv(eq, MaxDrawdown(eq), Len(eq))
<1> DEFINE n == Len(eq)
<1>1. PICK s \in [0 .. n -> PassStates] :
        /\ MaxDrawdown(eq) = s[n]
        /\ s[0] = [peak |-> eq[1], worst |-> NoDrawdown, len |-> 0, longest |-> 0]
        /\ \A k \in 1 .. n : s[k] = DrawdownStep(s[k - 1], eq[k])
  BY PassIs
<1>2. n \in Nat \ {0} /\ \A k \in 1 .. n : eq[k] \in Int
  OBVIOUS
<1> DEFINE Good == {k \in 1 .. n : PassInv(eq, s[k], k)}
<1>3. 1 \in Good
  <2>1. 1 \in 1 .. n /\ 1 - 1 = 0 /\ eq[1] \in Int
    BY <1>2
  <2>2. s[1] = DrawdownStep(s[0], eq[1])
    BY <1>1, <2>1
  <2>3. s[1] = [peak |-> eq[1], worst |-> NoDrawdown, len |-> 0, longest |-> 0]
    <3>1. s[0].peak = eq[1] /\ eq[1] >= eq[1]
      BY <1>1, <2>1
    <3>2. DrawdownStep(s[0], eq[1]) = [s[0] EXCEPT !.peak = eq[1], !.len = 0]
      BY <2>1, <3>1 DEF DrawdownStep
    <3>3. [s[0] EXCEPT !.peak = eq[1], !.len = 0]
          = [peak |-> eq[1], worst |-> NoDrawdown, len |-> 0, longest |-> 0]
      <4> DEFINE b == [peak |-> eq[1], worst |-> NoDrawdown, len |-> 0, longest |-> 0]
                 v == eq[1]
      <4>1. [b EXCEPT !.peak = v, !.len = 0] = b
        OBVIOUS
      <4> QED BY <1>1, <4>1
    <3> QED BY <2>2, <3>2, <3>3
  <2> DEFINE t == s[1]
  <2>4. t.peak = eq[1] /\ t.worst = NoDrawdown /\ t.len = 0 /\ t.longest = 0
    BY <2>3
  <2> HIDE DEF t
  <2>5. PeakInv(eq, t, 1)
    BY <2>1, <2>4 DEF PeakInv
  <2>6. WorstInv(eq, t, 1)
    <3>1. t.worst[1] = 0 /\ t.worst[2] = 1
      BY <2>4 DEF NoDrawdown
    <3>2. ASSUME NEW j \in 1 .. 1, NEW m \in 1 .. 1, Falling(eq, j, m)
          PROVE  NotDeeper(Drawdown(eq[j], eq[m]), t.worst)
      <4>1. j = 1 /\ m = 1 /\ eq[1] > 0
        BY <3>2 DEF Falling
      <4>2. Drawdown(eq[j], eq[m]) = <<eq[1] - eq[1], eq[1]>>
        BY <4>1 DEF Drawdown
      <4> QED BY <2>1, <3>1, <4>2 DEF NotDeeper
    <3> QED BY <2>4, <3>1, <3>2 DEF WorstInv
  <2>7. ~Under(eq, 1)
    BY <2>1 DEF Under
  <2>8. TailInv(eq, t, 1)
    BY <2>4, <2>7 DEF TailInv
  <2>9. LongestInv(eq, t, 1)
    <3>1. \A p, q \in 1 .. 1 : ~Run(eq, p, q)
      BY <2>7 DEF Run
    <3> QED BY <2>4, <3>1 DEF LongestInv
  <2> QED BY <2>1, <2>5, <2>6, <2>8, <2>9 DEF PassInv, LengthInv, t
<1>4. ASSUME NEW k \in 1 + 1 .. n, k - 1 \in Good PROVE k \in Good
  <2> DEFINE h == k - 1
  <2>1. h \in 1 .. n /\ h \in Nat \ {0} /\ h + 1 = k /\ h \in 0 .. n /\ k \in 1 .. n
    BY <1>2
  <2>2. PassInv(eq, s[h], h)
    BY <1>4
  <2> HIDE DEF h
  <2>3. NextValue(eq, s[h], h)
    BY <1>1, <2>1 DEF NextValue
  <2>4. s[k] = DrawdownStep(s[h], eq[h + 1])
    BY <1>1, <2>1 DEF h
  <2>5. PassInv(eq, DrawdownStep(s[h], eq[h + 1]), h + 1)
    BY <2>2, <2>3, PeakKeeps, WorstKeeps, LengthKeeps DEF PassInv
  <2> QED BY <2>1, <2>4, <2>5
<1>5. Good \in SUBSET (1 .. n) /\ 1 \in Int /\ n \in Int /\ (1 <= n => 1 \in Good)
  BY <1>2, <1>3
<1> HIDE DEF Good, n
<1>6. Good = 1 .. n
  BY <1>4, <1>5, PositionInduction
<1>7. n \in Good /\ n \in 0 .. n
  BY <1>2, <1>6
<1> QED BY <1>1, <1>7 DEF Good, n

\* What the pass knows at the end is what DrawdownIsWorst says.
LEMMA DrawdownOf == ReplayInv => DrawdownIsWorst
<1> SUFFICES ASSUME ReplayInv, over PROVE DrawdownIsWorst
  BY DEF DrawdownIsWorst
<1> DEFINE eq == EquityOf(curve)
           n == Len(eq)
           report == MaxDrawdown(eq)
<1>1. eq \in Seq(Int) /\ n > 0 /\ n \in Nat
  <2>1. curve \in Seq(Points) /\ Len(curve) = LastBar + 1 /\ LastBar \in Nat
    BY DecidersSettings DEF ReplayInv, EngineInv
  <2>2. \A k \in 1 .. Len(curve) : curve[k].equity \in Int
    <3>1. \A k \in 1 .. Len(curve) : curve[k] \in Points
      BY <2>1
    <3> QED BY <3>1 DEF Points
  <2>3. eq = [k \in 1 .. Len(curve) |-> curve[k].equity]
    BY DEF EquityOf
  <2> QED BY <2>1, <2>2, <2>3
<1>2. report \in PassStates /\ WorstInv(eq, report, n) /\ LongestInv(eq, report, n)
  BY <1>1, PassHolds DEF PassInv, LengthInv
<1> HIDE DEF eq, n, report
<1> DEFINE Pairs == {p \in (1 .. n) \X (1 .. n) : p[1] <= p[2]}
           Falls == {p \in Pairs :
                /\ eq[p[1]] > 0
                /\ eq[p[2]] >= 0 \/ \A m \in 1 .. p[2] : eq[m] <= eq[p[1]]}
           under(k) == \E j \in 1 .. k : eq[j] > eq[k]
           Runs == {p \in Pairs : \A k \in p[1] .. p[2] : under(k)}
<1>3. \A p \in Falls : p[1] \in 1 .. n /\ p[2] \in 1 .. n /\ p[1] <= p[2] /\ Falling(eq, p[1], p[2])
  BY DEF Falling
<1>4. \A j, m \in 1 .. n : j <= m /\ Falling(eq, j, m) => <<j, m>> \in Falls
  BY DEF Falling
<1>5. \A p \in Runs : p[1] \in 1 .. n /\ p[2] \in 1 .. n /\ Run(eq, p[1], p[2])
  BY DEF Run, Under
<1>6. \A j, m \in 1 .. n : Run(eq, j, m) => <<j, m>> \in Runs
  BY DEF Run, Under
<1> HIDE DEF Falls, Runs
<1>7. \/ report.worst = NoDrawdown
      \/ \E p \in Falls : report.worst = Drawdown(eq[p[1]], eq[p[2]])
  <2> SUFFICES ASSUME report.worst # NoDrawdown
               PROVE  \E p \in Falls : report.worst = Drawdown(eq[p[1]], eq[p[2]])
    OBVIOUS
  <2>1. PICK j \in 1 .. n, m \in 1 .. n : /\ j <= m /\ Falling(eq, j, m)
                                          /\ report.worst = Drawdown(eq[j], eq[m])
    BY <1>2 DEF WorstInv
  <2>2. <<j, m>> \in Falls /\ <<j, m>>[1] = j /\ <<j, m>>[2] = m
    BY <1>4, <2>1
  <2> QED BY <2>1, <2>2
<1>8. \A p \in Falls : ~Deeper(Drawdown(eq[p[1]], eq[p[2]]), report.worst)
  <2>1. ASSUME NEW p \in Falls PROVE ~Deeper(Drawdown(eq[p[1]], eq[p[2]]), report.worst)
    <3>1. NotDeeper(Drawdown(eq[p[1]], eq[p[2]]), report.worst)
      BY <1>2, <1>3 DEF WorstInv
    <3>2. Drawdown(eq[p[1]], eq[p[2]]) \in Fractions
      <4>1. eq[p[1]] \in Int /\ eq[p[2]] \in Int
        BY <1>1, <1>3 DEF n
      <4> QED BY <4>1, DrawdownType
    <3>3. report.worst \in Fractions
      BY <1>2 DEF PassStates
    <3> QED BY <3>1, <3>2, <3>3, FractionOrder
  <2> QED BY <2>1
<1>9. \A p \in Runs : p[2] - p[1] + 1 <= report.longest
  BY <1>2, <1>5 DEF LongestInv
<1>10. report.longest = 0 \/ \E p \in Runs : p[2] - p[1] + 1 = report.longest
  <2> SUFFICES ASSUME report.longest # 0
               PROVE  \E p \in Runs : p[2] - p[1] + 1 = report.longest
    OBVIOUS
  <2>1. PICK j \in 1 .. n, m \in 1 .. n : Run(eq, j, m) /\ m - j + 1 = report.longest
    BY <1>2 DEF LongestInv
  <2>2. <<j, m>> \in Runs /\ <<j, m>>[1] = j /\ <<j, m>>[2] = m
    BY <1>6, <2>1
  <2> QED BY <2>1, <2>2
<1> QED BY <1>7, <1>8, <1>9, <1>10 DEF DrawdownIsWorst, Falls, Runs, n, eq, report

\* The single pass of max_drawdown (metrics.py:41-62) finds the deepest fall below an
\* earlier positive value and the longest run below an earlier value of any curve.
THEOREM DrawdownIsMaximal == Spec => []DrawdownIsWorst
BY ReplayInvHolds, DrawdownOf, PTL

(***************************************************************************)
(* The vote of the indicators.                                             *)
(***************************************************************************)
Has(r, x) == IF r[x] = Missing THEN 0 ELSE 1
\* How far it pulls, and where to.
Pull(r, x) == IF r[x] = Missing THEN 0 ELSE Scalar(r[x])

\* Readings of one side pull to that side.
LEMMA ScalarType ==
    /\ \A d \in Directions : Scalar(d) \in {-2, -1, 0, 1, 2} /\ d # Missing
    /\ \A d \in Bulls : Scalar(d) \in {1, 2} /\ d # Missing
    /\ \A d \in Bears : Scalar(d) \in {-2, -1} /\ d # Missing
    /\ Scalar("strong_buy") = 2 /\ Scalar("strong_sell") = -2
BY DEF Scalar, Directions, Missing, Bulls, Bears

\* A sum over the four indicators.
LEMMA SumOfFour ==
    ASSUME NEW v, IntegersOn(v, 1, 4)
    PROVE  SumOver(v, 1, 4) = v[1] + v[2] + v[3] + v[4]
<1> DEFINE one == 1
<1>1. \A k \in 0 .. 4 : k \in Int /\ one - 1 <= k /\ IntegersOn(v, one, k) /\ one \in Int
  BY DEF IntegersOn
<1>2. \A k \in 1 .. 4 : v[k] \in Int
  BY DEF IntegersOn
<1>3. \A k \in 0 .. 4 : SumOver(v, one, k) = IF k < one THEN 0 ELSE SumOver(v, one, k - 1) + v[k]
  <2> HIDE DEF one
  <2> QED BY <1>1, SumOverStep
<1>4. SumOver(v, 1, 0) = 0
  BY <1>3
<1>5. SumOver(v, 1, 1) = v[1]
  BY <1>2, <1>3, <1>4
<1>6. SumOver(v, 1, 2) = v[1] + v[2]
  BY <1>2, <1>3, <1>5
<1>7. SumOver(v, 1, 3) = v[1] + v[2] + v[3]
  BY <1>2, <1>3, <1>6
<1> QED BY <1>2, <1>3, <1>7

\* The same over those that could be computed.
LEMMA OfPresentIs ==
    ASSUME NEW r \in AllReadings, NEW f \in [VoterNames -> Int]
    PROVE  LET part(x) == IF r[x] = Missing THEN 0 ELSE f[x]
           IN  OfPresent(r, f) = part("rsi") + part("macd") + part("bb") + part("ema")
<1> DEFINE part(x) == IF r[x] = Missing THEN 0 ELSE f[x]
           v == [k \in 1 .. 4 |-> IF r[Voters[k]] = Missing THEN 0 ELSE f[Voters[k]]]
<1>1. Voters[1] = "rsi" /\ Voters[2] = "macd" /\ Voters[3] = "bb" /\ Voters[4] = "ema"
  BY DEF Voters
<1>2. VoterNames = {"rsi", "macd", "bb", "ema"}
  <2>1. \A k \in 1 .. 4 : k = 1 \/ k = 2 \/ k = 3 \/ k = 4
    OBVIOUS
  <2> QED BY <1>1, <2>1 DEF VoterNames
<1>3. v[1] = part("rsi") /\ v[2] = part("macd") /\ v[3] = part("bb") /\ v[4] = part("ema")
  BY <1>1
<1>4. \A x \in VoterNames : part(x) \in Int
  OBVIOUS
<1>5. part("rsi") \in Int /\ part("macd") \in Int /\ part("bb") \in Int /\ part("ema") \in Int
  BY <1>2, <1>4
<1>6. IntegersOn(v, 1, 4)
  <2>1. \A k \in 1 .. 4 : k = 1 \/ k = 2 \/ k = 3 \/ k = 4
    OBVIOUS
  <2> HIDE DEF v, part
  <2> QED BY <1>3, <1>5, <2>1 DEF IntegersOn
<1>7. OfPresent(r, f) = SumOver(v, 1, 4)
  BY DEF OfPresent
<1> HIDE DEF v, part
<1>8. OfPresent(r, f) = part("rsi") + part("macd") + part("bb") + part("ema")
  BY <1>3, <1>6, <1>7, SumOfFour
<1> QED BY <1>8 DEF part

\* The numbers of a reading.
LEMMA VoteNumbers ==
    ASSUME NEW r \in AllReadings
    PROVE  LET h1 == Has(r, "rsi") h2 == Has(r, "macd") h3 == Has(r, "bb") h4 == Has(r, "ema")
               p1 == Pull(r, "rsi") p2 == Pull(r, "macd") p3 == Pull(r, "bb") p4 == Pull(r, "ema")
               n == h1 + h2 + h3 + h4
           IN  /\ Count(r) = n
               /\ TotalWeight(r) = 5 * h1 + 6 * h2 + 4 * h3 + 5 * h4
               /\ Score(r) = 5 * p1 + 6 * p2 + 4 * p3 + 5 * p4
               /\ Spread(r) = n * (p1 * p1 + p2 * p2 + p3 * p3 + p4 * p4)
                              - (p1 + p2 + p3 + p4) * (p1 + p2 + p3 + p4)
<1> DEFINE names == {"rsi", "macd", "bb", "ema"}
           ones == [x \in VoterNames |-> 1]
           pulls == [x \in VoterNames |-> Scalar(r[x])]
           scores == [x \in VoterNames |-> Weight[x] * Scalar(r[x])]
           squares == [x \in VoterNames |-> Scalar(r[x]) * Scalar(r[x])]
<1>1. VoterNames = names
  <2>1. \A k \in 1 .. 4 : k = 1 \/ k = 2 \/ k = 3 \/ k = 4
    OBVIOUS
  <2>2. Voters[1] = "rsi" /\ Voters[2] = "macd" /\ Voters[3] = "bb" /\ Voters[4] = "ema"
    BY DEF Voters
  <2> QED BY <2>1, <2>2 DEF VoterNames
<1>2. \A x \in names : Scalar(r[x]) \in {-2, -1, 0, 1, 2}
  <2>1. \A x \in names : r[x] \in Directions \cup {Missing}
    BY <1>1 DEF AllReadings
  <2>2. Scalar(Missing) = 0
    BY DEF Scalar, Missing
  <2> QED BY <2>1, <2>2, ScalarType
<1>3. Weight["rsi"] = 5 /\ Weight["macd"] = 6 /\ Weight["bb"] = 4 /\ Weight["ema"] = 5
  BY DEF Weight
<1>4. Weight \in [VoterNames -> Int]
  BY <1>1 DEF Weight
<1>5. ones \in [VoterNames -> Int] /\ pulls \in [VoterNames -> Int]
  BY <1>1, <1>2
<1>6. scores \in [VoterNames -> Int] /\ squares \in [VoterNames -> Int]
  <2>1. \A x \in VoterNames : Weight[x] \in Int /\ Scalar(r[x]) \in Int
    BY <1>1, <1>2, <1>4
  <2>2. \A x \in VoterNames : Weight[x] * Scalar(r[x]) \in Int /\ Scalar(r[x]) * Scalar(r[x]) \in Int
    BY <2>1
  <2> QED BY <2>2
<1>7. Count(r) = Has(r, "rsi") + Has(r, "macd") + Has(r, "bb") + Has(r, "ema")
  <2>1. \A x \in names : ones[x] = 1
    BY <1>1
  <2>2. Count(r) = OfPresent(r, ones)
    BY DEF Count
  <2> HIDE DEF ones
  <2> QED BY <1>5, <2>1, <2>2, OfPresentIs DEF Has
<1>8. TotalWeight(r) = 5 * Has(r, "rsi") + 6 * Has(r, "macd") + 4 * Has(r, "bb") + 5 * Has(r, "ema")
  <2>1. TotalWeight(r) = OfPresent(r, Weight)
    BY DEF TotalWeight
  <2> QED BY <1>3, <1>4, <2>1, OfPresentIs DEF Has
<1>9. Score(r) = 5 * Pull(r, "rsi") + 6 * Pull(r, "macd") + 4 * Pull(r, "bb") + 5 * Pull(r, "ema")
  <2>1. /\ scores["rsi"] = 5 * Scalar(r["rsi"]) /\ scores["macd"] = 6 * Scalar(r["macd"])
        /\ scores["bb"] = 4 * Scalar(r["bb"]) /\ scores["ema"] = 5 * Scalar(r["ema"])
    BY <1>1, <1>3
  <2>2. Score(r) = OfPresent(r, scores)
    BY DEF Score
  <2> HIDE DEF scores
  <2> QED BY <1>2, <1>6, <2>1, <2>2, OfPresentIs DEF Pull
<1>10. OfPresent(r, pulls) = Pull(r, "rsi") + Pull(r, "macd") + Pull(r, "bb") + Pull(r, "ema")
  <2>1. \A x \in names : pulls[x] = Scalar(r[x])
    BY <1>1
  <2> HIDE DEF pulls
  <2> QED BY <1>5, <2>1, OfPresentIs DEF Pull
<1>11. OfPresent(r, squares)
       = Pull(r, "rsi") * Pull(r, "rsi") + Pull(r, "macd") * Pull(r, "macd")
         + Pull(r, "bb") * Pull(r, "bb") + Pull(r, "ema") * Pull(r, "ema")
  <2>1. \A x \in names : squares[x] = Scalar(r[x]) * Scalar(r[x])
    BY <1>1
  <2> HIDE DEF squares
  <2> QED BY <1>6, <2>1, OfPresentIs DEF Pull
<1>12. Spread(r) = Count(r) * OfPresent(r, squares) - OfPresent(r, pulls) * OfPresent(r, pulls)
  BY DEF Spread
<1> HIDE DEF ones, pulls, scores, squares
<1> QED BY <1>7, <1>8, <1>9, <1>10, <1>11, <1>12

\* Agreement of those who point to one side: their opinions differ by at most one.
LEMMA UnanimousArithmetic ==
    \A h1, h2, h3, h4 \in {0, 1}, s1, s2, s3, s4 \in {0, 1, 2} :
        LET n == h1 + h2 + h3 + h4
            sum == s1 + s2 + s3 + s4
            squares == s1 * s1 + s2 * s2 + s3 * s3 + s4 * s4
        IN  /\ h1 <= s1 /\ s1 <= 2 * h1 /\ h2 <= s2 /\ s2 <= 2 * h2
            /\ h3 <= s3 /\ s3 <= 2 * h3 /\ h4 <= s4 /\ s4 <= 2 * h4
            => 4 * (n * squares - sum * sum) <= n * n
BY SMTT(60)

\* Agreement with one at the other extreme is too small for any score.
LEMMA ExtremeArithmetic ==
    \A h1, h2, h3, h4 \in {0, 1}, s1, s2, s3, s4 \in {-2, -1, 0, 1, 2} :
        LET n == h1 + h2 + h3 + h4
            w == 5 * h1 + 6 * h2 + 4 * h3 + 5 * h4
            score == 5 * s1 + 6 * s2 + 4 * s3 + 5 * s4
            sum == s1 + s2 + s3 + s4
            squares == s1 * s1 + s2 * s2 + s3 * s3 + s4 * s4
        IN  /\ (h1 = 0 => s1 = 0) /\ (h2 = 0 => s2 = 0) /\ (h3 = 0 => s3 = 0) /\ (h4 = 0 => s4 = 0)
            /\ s1 = -2 \/ s2 = -2 \/ s3 = -2 \/ s4 = -2
            /\ 2 * score >= w
            => 4 * n * n * (w + score) * (w + score) < 9 * w * w * (n * squares - sum * sum)
BY SMTT(120)

\* The confidence of those who agree reaches one half, whatever the volume.
LEMMA AgreementSuffices ==
    ASSUME NEW n \in Nat, NEW w \in Nat, NEW size \in Nat, NEW a \in Nat, NEW spread \in Int,
           w <= size, 4 * spread <= n * n
    PROVE  LET rest == a * n * w + 2 * n * size
           IN  rest >= 0 /\ rest * rest >= 9 * w * w * spread
<1> DEFINE rest == a * n * w + 2 * n * size
           q == 2 * n * w
<1>1. n * n \in Nat /\ w * w \in Nat /\ n * w \in Nat /\ n * size \in Nat
  OBVIOUS
<1>2. a * n * w \in Nat
  <2>1. a * (n * w) \in Nat /\ a * (n * w) = a * n * w
    BY <1>1
  <2> QED BY <2>1
<1>3. n * w <= n * size
  <2>1. w * n <= size * n
    BY Scale
  <2>2. w * n = n * w /\ size * n = n * size
    OBVIOUS
  <2> QED BY <2>1, <2>2
<1>4. rest \in Nat /\ q \in Nat /\ q <= rest
  <2>1. 2 * n * size = 2 * (n * size) /\ q = 2 * (n * w)
    OBVIOUS
  <2> QED BY <1>1, <1>2, <1>3, <2>1
<1> HIDE DEF rest, q
<1>5. q * q <= rest * rest
  <2>1. q * q <= rest * q /\ q * rest <= rest * rest /\ q * rest = rest * q
    BY <1>4, Scale
  <2>2. q * q \in Nat /\ rest * q \in Nat /\ rest * rest \in Nat
    BY <1>4
  <2> QED BY <2>1, <2>2
<1>6. 36 * ((w * w) * spread) <= 9 * ((w * w) * (n * n))
  <2>1. (4 * spread) * (w * w) <= (n * n) * (w * w)
    <3>1. 4 * spread \in Int
      OBVIOUS
    <3> QED BY <1>1, <3>1, Scale
  <2>2. (4 * spread) * (w * w) = 4 * ((w * w) * spread) /\ (n * n) * (w * w) = (w * w) * (n * n)
    OBVIOUS
  <2>3. (w * w) * spread \in Int /\ (w * w) * (n * n) \in Nat
    BY <1>1
  <2> QED BY <2>1, <2>2, <2>3
<1>7. q * q = 4 * ((w * w) * (n * n)) /\ 9 * w * w * spread = 9 * ((w * w) * spread)
  BY DEF q
<1>8. (w * w) * spread \in Int /\ (w * w) * (n * n) \in Nat /\ rest * rest \in Nat
  BY <1>1, <1>4
<1>9. 9 * ((w * w) * spread) <= rest * rest
  BY <1>5, <1>6, <1>7, <1>8
<1> QED BY <1>4, <1>7, <1>9 DEF rest

\* What an indicator contributes, and what it does if it points to one side.
LEMMA Contribution ==
    ASSUME NEW r \in AllReadings, NEW x \in {"rsi", "macd", "bb", "ema"}
    PROVE  /\ Has(r, x) \in {0, 1} /\ Pull(r, x) \in {-2, -1, 0, 1, 2}
           /\ Has(r, x) = 0 => Pull(r, x) = 0
           /\ Says(r, Bulls) => Has(r, x) <= Pull(r, x) /\ Pull(r, x) <= 2 * Has(r, x)
           /\ Says(r, Bears) => Has(r, x) <= -Pull(r, x) /\ -Pull(r, x) <= 2 * Has(r, x)
           /\ r[x] = "strong_sell" => Pull(r, x) = -2
           /\ r[x] = "strong_buy" => Pull(r, x) = 2
<1>1. x \in VoterNames
  <2>1. Voters[1] = "rsi" /\ Voters[2] = "macd" /\ Voters[3] = "bb" /\ Voters[4] = "ema"
    BY DEF Voters
  <2> QED BY <2>1 DEF VoterNames
<1>2. r[x] \in Directions \cup {Missing}
  BY <1>1 DEF AllReadings
<1>3. Has(r, x) \in {0, 1} /\ Pull(r, x) \in {-2, -1, 0, 1, 2} /\ (Has(r, x) = 0 => Pull(r, x) = 0)
  BY <1>2, ScalarType DEF Has, Pull
<1>4. ASSUME Says(r, Bulls) PROVE Has(r, x) <= Pull(r, x) /\ Pull(r, x) <= 2 * Has(r, x)
  <2>1. r[x] = Missing \/ r[x] \in Bulls
    BY <1>1, <1>4 DEF Says
  <2> QED BY <2>1, ScalarType DEF Has, Pull
<1>5. ASSUME Says(r, Bears) PROVE Has(r, x) <= -Pull(r, x) /\ -Pull(r, x) <= 2 * Has(r, x)
  <2>1. r[x] = Missing \/ r[x] \in Bears
    BY <1>1, <1>5 DEF Says
  <2> QED BY <2>1, ScalarType DEF Has, Pull
<1>6. "strong_sell" # Missing /\ "strong_buy" # Missing
  BY DEF Missing
<1> QED BY <1>3, <1>4, <1>5, <1>6, ScalarType DEF Pull

\* Volume moves the confidence by a tenth at most.
LEMMA VolumeType == \A volume \in Volumes : VolumeTenths(volume) \in {-1, 0, 1}
BY DEF VolumeTenths, Volumes, Missing

\* Two or more that point to one side are heard.
LEMMA UnanimousVote ==
    ASSUME MinConfidence <= 5, NEW r \in AllReadings, NEW volume \in Volumes, Count(r) >= 2
    PROVE  /\ Says(r, Bulls) => Vote(r, volume, MinConfidence) \in Bulls
           /\ Says(r, Bears) => Vote(r, volume, MinConfidence) \in Bears
<1> DEFINE h1 == Has(r, "rsi") h2 == Has(r, "macd") h3 == Has(r, "bb") h4 == Has(r, "ema")
           p1 == Pull(r, "rsi") p2 == Pull(r, "macd") p3 == Pull(r, "bb") p4 == Pull(r, "ema")
           n == h1 + h2 + h3 + h4
           w == 5 * h1 + 6 * h2 + 4 * h3 + 5 * h4
           score == 5 * p1 + 6 * p2 + 4 * p3 + 5 * p4
           spread == n * (p1 * p1 + p2 * p2 + p3 * p3 + p4 * p4)
                     - (p1 + p2 + p3 + p4) * (p1 + p2 + p3 + p4)
           a == 6 + VolumeTenths(volume) - MinConfidence
<1>1. Count(r) = n /\ TotalWeight(r) = w /\ Score(r) = score /\ Spread(r) = spread
  BY VoteNumbers
<1>2. /\ h1 \in {0, 1} /\ h2 \in {0, 1} /\ h3 \in {0, 1} /\ h4 \in {0, 1}
      /\ p1 \in {-2, -1, 0, 1, 2} /\ p2 \in {-2, -1, 0, 1, 2}
      /\ p3 \in {-2, -1, 0, 1, 2} /\ p4 \in {-2, -1, 0, 1, 2}
  BY Contribution
<1>3. Says(r, Bulls) => /\ h1 <= p1 /\ p1 <= 2 * h1 /\ h2 <= p2 /\ p2 <= 2 * h2
                        /\ h3 <= p3 /\ p3 <= 2 * h3 /\ h4 <= p4 /\ p4 <= 2 * h4
  BY Contribution
<1>4. Says(r, Bears) => /\ h1 <= -p1 /\ -p1 <= 2 * h1 /\ h2 <= -p2 /\ -p2 <= 2 * h2
                        /\ h3 <= -p3 /\ -p3 <= 2 * h3 /\ h4 <= -p4 /\ -p4 <= 2 * h4
  BY Contribution
<1>5. a \in Nat
  <2>1. MinConfidence \in 0 .. 5
    BY ConfidenceAssumption
  <2>2. VolumeTenths(volume) \in {-1, 0, 1}
    BY VolumeType
  <2> QED BY <2>1, <2>2
<1> HIDE DEF h1, h2, h3, h4, p1, p2, p3, p4
<1>6. n \in Nat /\ w \in Nat /\ score \in Int /\ spread \in Int /\ n >= 2 /\ w > 0
  <2>1. n \in Nat /\ w \in Nat /\ score \in Int /\ n >= 2
    BY <1>1, <1>2
  <2>2. w > 0
    BY <1>2, <2>1
  <2>3. spread \in Int
    BY <1>2
  <2> QED BY <2>1, <2>2, <2>3
<1>7. ASSUME Says(r, Bulls) PROVE 4 * spread <= n * n /\ w <= score
  <2>1. p1 \in {0, 1, 2} /\ p2 \in {0, 1, 2} /\ p3 \in {0, 1, 2} /\ p4 \in {0, 1, 2}
    BY <1>2, <1>3, <1>7
  <2>2. 4 * spread <= n * n
    BY <1>2, <1>3, <1>7, <2>1, UnanimousArithmetic
  <2>3. w <= score
    BY <1>2, <1>3, <1>7
  <2> QED BY <2>2, <2>3
<1>8. ASSUME Says(r, Bears) PROVE 4 * spread <= n * n /\ w <= -score
  <2> DEFINE q1 == -p1 q2 == -p2 q3 == -p3 q4 == -p4
  <2>1. q1 \in {0, 1, 2} /\ q2 \in {0, 1, 2} /\ q3 \in {0, 1, 2} /\ q4 \in {0, 1, 2}
    BY <1>2, <1>4, <1>8
  <2>2. spread = n * (q1 * q1 + q2 * q2 + q3 * q3 + q4 * q4)
                 - (q1 + q2 + q3 + q4) * (q1 + q2 + q3 + q4)
        /\ -score = 5 * q1 + 6 * q2 + 4 * q3 + 5 * q4
    BY <1>2
  <2>3. /\ h1 <= q1 /\ q1 <= 2 * h1 /\ h2 <= q2 /\ q2 <= 2 * h2
        /\ h3 <= q3 /\ q3 <= 2 * h3 /\ h4 <= q4 /\ q4 <= 2 * h4
    BY <1>4, <1>8
  <2> HIDE DEF q1, q2, q3, q4
  <2>4. 4 * spread <= n * n
    BY <1>2, <2>1, <2>2, <2>3, UnanimousArithmetic
  <2>5. w <= 5 * q1 + 6 * q2 + 4 * q3 + 5 * q4
    BY <1>2, <2>1, <2>3
  <2> QED BY <2>2, <2>4, <2>5
<1> HIDE DEF n, w, score, spread, a
<1>9. ASSUME 4 * spread <= n * n, NEW size \in Nat, size = Abs(score), w <= size
      PROVE  Confident(r, volume, MinConfidence)
  <2>1. LET rest == a * n * w + 2 * n * size IN rest >= 0 /\ rest * rest >= 9 * w * w * spread
    BY <1>5, <1>6, <1>9, AgreementSuffices
  <2> QED BY <1>1, <1>9, <2>1 DEF Confident, a
<1>10. ASSUME Says(r, Bulls) PROVE Vote(r, volume, MinConfidence) \in Bulls
  <2>1. score \in Nat /\ score = Abs(score) /\ w <= score /\ 4 * spread <= n * n
    BY <1>6, <1>7, <1>10 DEF Abs
  <2>2. Confident(r, volume, MinConfidence)
    BY <1>9, <2>1
  <2>3. Vote(r, volume, MinConfidence) = DirectionOf(score, w)
    BY <1>1, <1>6, <2>2 DEF Vote
  <2>4. DirectionOf(score, w) \in Bulls
    BY <1>6, <2>1 DEF DirectionOf, Bulls
  <2> QED BY <2>3, <2>4
<1>11. ASSUME Says(r, Bears) PROVE Vote(r, volume, MinConfidence) \in Bears
  <2>1. -score \in Nat /\ -score = Abs(score) /\ w <= -score /\ 4 * spread <= n * n
    BY <1>6, <1>8, <1>11 DEF Abs
  <2>2. Confident(r, volume, MinConfidence)
    BY <1>9, <2>1
  <2>3. Vote(r, volume, MinConfidence) = DirectionOf(score, w)
    BY <1>1, <1>6, <2>2 DEF Vote
  <2>4. DirectionOf(score, w) \in Bears
    BY <1>6, <2>1 DEF DirectionOf, Bears
  <2> QED BY <2>3, <2>4
<1> QED BY <1>10, <1>11

\* If the spread is that large, no volume makes up for it.
LEMMA ConfidenceFails ==
    ASSUME NEW n \in Nat, NEW w \in Nat, NEW size \in Nat, NEW a \in Int, NEW spread \in Int,
           a <= 2,
           4 * n * n * (w + size) * (w + size) < 9 * w * w * spread
    PROVE  LET rest == a * n * w + 2 * n * size
           IN  ~ (rest >= 0 /\ rest * rest >= 9 * w * w * spread)
<1> DEFINE rest == a * n * w + 2 * n * size
           bound == 2 * n * (w + size)
<1>1. n * w \in Nat /\ n * size \in Nat /\ w * w \in Nat
  OBVIOUS
<1>2. a * (n * w) \in Int /\ a * n * w = a * (n * w)
  BY <1>1
<1>3. a * (n * w) <= 2 * (n * w)
  <2>1. 2 \in Int
    OBVIOUS
  <2> QED BY <1>1, <2>1, Scale
<1>4. rest \in Int /\ bound \in Nat /\ rest <= bound
  <2>1. bound = 2 * (n * w) + 2 * (n * size) /\ 2 * n * size = 2 * (n * size)
    OBVIOUS
  <2> QED BY <1>1, <1>2, <1>3, <2>1
<1>5. bound * bound = 4 * n * n * (w + size) * (w + size)
  OBVIOUS
<1>6. 9 * w * w * spread \in Int
  OBVIOUS
<1> HIDE DEF rest, bound
<1>7. rest >= 0 => rest * rest <= bound * bound
  <2> SUFFICES ASSUME rest >= 0 PROVE rest * rest <= bound * bound
    OBVIOUS
  <2>0. rest \in Nat
    BY <1>4
  <2>1. rest * rest <= bound * rest /\ rest * bound <= bound * bound /\ bound * rest = rest * bound
    BY <1>4, <2>0, Scale
  <2>2. rest * rest \in Nat /\ rest * bound \in Nat /\ bound * bound \in Nat
    BY <1>4, <2>0
  <2> QED BY <2>1, <2>2
<1>8. rest >= 0 => rest * rest \in Nat /\ bound * bound \in Nat
  BY <1>4
<1>9. bound * bound < 9 * w * w * spread
  BY <1>5
<1>10. ~ (rest >= 0 /\ rest * rest >= 9 * w * w * spread)
  BY <1>4, <1>6, <1>7, <1>8, <1>9
<1> QED BY <1>10 DEF rest

\* A vote to one side is confident and scores at least a half.
LEMMA VoteScores ==
    ASSUME NEW r \in AllReadings, NEW volume \in Volumes, Score(r) \in Int, TotalWeight(r) \in Nat,
           Vote(r, volume, MinConfidence) \in Bulls \cup Bears
    PROVE  /\ Count(r) >= 2 /\ Confident(r, volume, MinConfidence)
           /\ Vote(r, volume, MinConfidence) \in Bulls => 2 * Score(r) >= TotalWeight(r)
           /\ Vote(r, volume, MinConfidence) \in Bears => 2 * Score(r) <= -TotalWeight(r)
<1>1. "none" \notin Bulls \cup Bears
  BY DEF Bulls, Bears
<1>2. ~ (Count(r) < 2 \/ ~Confident(r, volume, MinConfidence))
  BY <1>1 DEF Vote
<1>3. Vote(r, volume, MinConfidence) = DirectionOf(Score(r), TotalWeight(r))
  BY <1>2 DEF Vote
<1>5. Count(r) \in Int
  <2>1. Count(r) = Has(r, "rsi") + Has(r, "macd") + Has(r, "bb") + Has(r, "ema")
    BY VoteNumbers
  <2>2. Has(r, "rsi") \in {0, 1} /\ Has(r, "macd") \in {0, 1} /\ Has(r, "bb") \in {0, 1} /\ Has(r, "ema") \in {0, 1}
    BY Contribution
  <2> QED BY <2>1, <2>2
<1>4. /\ DirectionOf(Score(r), TotalWeight(r)) \in Bulls => 2 * Score(r) >= TotalWeight(r)
      /\ DirectionOf(Score(r), TotalWeight(r)) \in Bears => 2 * Score(r) <= -TotalWeight(r)
  BY DEF DirectionOf, Bulls, Bears
<1> QED BY <1>2, <1>3, <1>4, <1>5

\* Whom one at the other extreme contradicts is not heard.
LEMMA ExtremeVote ==
    ASSUME MinConfidence >= 5, NEW r \in AllReadings, NEW volume \in Volumes,
           NEW x \in VoterNames
    PROVE  /\ r[x] = "strong_sell" => Vote(r, volume, MinConfidence) \notin Bulls
           /\ r[x] = "strong_buy" => Vote(r, volume, MinConfidence) \notin Bears
<1> DEFINE h1 == Has(r, "rsi") h2 == Has(r, "macd") h3 == Has(r, "bb") h4 == Has(r, "ema")
           p1 == Pull(r, "rsi") p2 == Pull(r, "macd") p3 == Pull(r, "bb") p4 == Pull(r, "ema")
           n == h1 + h2 + h3 + h4
           w == 5 * h1 + 6 * h2 + 4 * h3 + 5 * h4
           score == 5 * p1 + 6 * p2 + 4 * p3 + 5 * p4
           spread == n * (p1 * p1 + p2 * p2 + p3 * p3 + p4 * p4)
                     - (p1 + p2 + p3 + p4) * (p1 + p2 + p3 + p4)
           a == 6 + VolumeTenths(volume) - MinConfidence
<1>1. Count(r) = n /\ TotalWeight(r) = w /\ Score(r) = score /\ Spread(r) = spread
  BY VoteNumbers
<1>2. /\ h1 \in {0, 1} /\ h2 \in {0, 1} /\ h3 \in {0, 1} /\ h4 \in {0, 1}
      /\ p1 \in {-2, -1, 0, 1, 2} /\ p2 \in {-2, -1, 0, 1, 2}
      /\ p3 \in {-2, -1, 0, 1, 2} /\ p4 \in {-2, -1, 0, 1, 2}
      /\ (h1 = 0 => p1 = 0) /\ (h2 = 0 => p2 = 0) /\ (h3 = 0 => p3 = 0) /\ (h4 = 0 => p4 = 0)
  BY Contribution
<1>x. x = "rsi" \/ x = "macd" \/ x = "bb" \/ x = "ema"
  <2>1. Voters[1] = "rsi" /\ Voters[2] = "macd" /\ Voters[3] = "bb" /\ Voters[4] = "ema"
    BY DEF Voters
  <2> QED BY <2>1 DEF VoterNames
<1>3. r[x] = "strong_sell" => p1 = -2 \/ p2 = -2 \/ p3 = -2 \/ p4 = -2
  BY <1>x, Contribution
<1>4. r[x] = "strong_buy" => p1 = 2 \/ p2 = 2 \/ p3 = 2 \/ p4 = 2
  BY <1>x, Contribution
<1>5. a \in Int /\ a <= 2 /\ MinConfidence # 0
  <2>1. MinConfidence \in 5 .. 10
    BY ConfidenceAssumption
  <2>2. VolumeTenths(volume) \in {-1, 0, 1}
    BY VolumeType
  <2> QED BY <2>1, <2>2
<1> HIDE DEF h1, h2, h3, h4, p1, p2, p3, p4
<1>6. n \in Nat /\ w \in Nat /\ score \in Int /\ spread \in Int
  BY <1>2
<1>7. ASSUME r[x] = "strong_sell", 2 * score >= w
      PROVE  4 * n * n * (w + score) * (w + score) < 9 * w * w * spread
  BY <1>2, <1>3, <1>7, ExtremeArithmetic
<1>8. ASSUME r[x] = "strong_buy", 2 * score <= -w
      PROVE  4 * n * n * (w + (-score)) * (w + (-score)) < 9 * w * w * spread
  <2> DEFINE q1 == -p1 q2 == -p2 q3 == -p3 q4 == -p4
             back == 5 * q1 + 6 * q2 + 4 * q3 + 5 * q4
  <2>1. /\ q1 \in {-2, -1, 0, 1, 2} /\ q2 \in {-2, -1, 0, 1, 2}
        /\ q3 \in {-2, -1, 0, 1, 2} /\ q4 \in {-2, -1, 0, 1, 2}
        /\ (h1 = 0 => q1 = 0) /\ (h2 = 0 => q2 = 0) /\ (h3 = 0 => q3 = 0) /\ (h4 = 0 => q4 = 0)
        /\ q1 = -2 \/ q2 = -2 \/ q3 = -2 \/ q4 = -2
    BY <1>2, <1>4, <1>8
  <2>2. spread = n * (q1 * q1 + q2 * q2 + q3 * q3 + q4 * q4)
                 - (q1 + q2 + q3 + q4) * (q1 + q2 + q3 + q4)
        /\ back = -score
    BY <1>2
  <2>3. 2 * back >= w
    BY <1>6, <1>8, <2>2
  <2> HIDE DEF q1, q2, q3, q4
  <2>4. 4 * n * n * (w + back) * (w + back) < 9 * w * w * spread
    BY <1>2, <2>1, <2>2, <2>3, ExtremeArithmetic
  <2> HIDE DEF back
  <2> QED BY <2>2, <2>4
<1> HIDE DEF n, w, score, spread, a
<1>9. ASSUME NEW size \in Nat, size = Abs(score),
             4 * n * n * (w + size) * (w + size) < 9 * w * w * spread
      PROVE  ~ Confident(r, volume, MinConfidence)
  <2>1. LET rest == a * n * w + 2 * n * size IN ~ (rest >= 0 /\ rest * rest >= 9 * w * w * spread)
    BY <1>5, <1>6, <1>9, ConfidenceFails
  <2> QED BY <1>1, <1>5, <1>9, <2>1 DEF Confident, a
<1>10. ASSUME r[x] = "strong_sell", Vote(r, volume, MinConfidence) \in Bulls PROVE FALSE
  <2>1. 2 * score >= w /\ Confident(r, volume, MinConfidence)
    BY <1>1, <1>6, <1>10, VoteScores
  <2>2. score \in Nat /\ score = Abs(score)
    BY <1>6, <2>1 DEF Abs
  <2> QED BY <1>7, <1>9, <1>10, <2>1, <2>2
<1>11. ASSUME r[x] = "strong_buy", Vote(r, volume, MinConfidence) \in Bears PROVE FALSE
  <2>1. 2 * score <= -w /\ Confident(r, volume, MinConfidence)
    BY <1>1, <1>6, <1>11, VoteScores
  <2>2. -score \in Nat /\ -score = Abs(score)
    BY <1>6, <2>1 DEF Abs
  <2> QED BY <1>8, <1>9, <1>11, <2>1, <2>2
<1> QED BY <1>10, <1>11

\* Two or more indicators that point to one side are neither filtered out nor called
\* neutral (generate, signal_generator.py), for any minimum confidence up to 0.5.
THEOREM UnanimousAreHeard ==
    ASSUME MinConfidence <= 5 PROVE Spec => []UnanimityIsHeard
<1>1. Unheard = {}
  <2> SUFFICES ASSUME NEW p \in Unheard PROVE FALSE
    OBVIOUS
  <2>1. p[1] \in AllReadings /\ p[2] \in Volumes
    BY DEF Unheard
  <2>2. /\ Count(p[1]) >= 2
        /\ \/ Says(p[1], Bulls) /\ Vote(p[1], p[2], MinConfidence) \notin Bulls
           \/ Says(p[1], Bears) /\ Vote(p[1], p[2], MinConfidence) \notin Bears
    BY DEF Unheard
  <2> QED BY <2>1, <2>2, UnanimousVote
<1>2. UnanimityIsHeard
  BY <1>1 DEF UnanimityIsHeard
<1>3. UnanimityIsHeard'
  BY <1>1 DEF UnanimityIsHeard
<1> QED BY <1>2, <1>3, PTL

\* No direction is emitted against an indicator at the other extreme
\* (signal_generator.py:123), for any minimum confidence from 0.5.
THEOREM ExtremesAreRespected ==
    ASSUME MinConfidence >= 5 PROVE Spec => []ExtremesSilence
<1>1. Overruling = {}
  <2> SUFFICES ASSUME NEW p \in Overruling PROVE FALSE
    OBVIOUS
  <2>1. p[1] \in AllReadings /\ p[2] \in Volumes
    BY DEF Overruling
  <2>2. PICK x \in VoterNames :
            \/ p[1][x] = "strong_sell" /\ Vote(p[1], p[2], MinConfidence) \in Bulls
            \/ p[1][x] = "strong_buy" /\ Vote(p[1], p[2], MinConfidence) \in Bears
    BY DEF Overruling
  <2> QED BY <2>1, <2>2, ExtremeVote
<1>2. ExtremesSilence
  BY <1>1 DEF ExtremesSilence
<1>3. ExtremesSilence'
  BY <1>1 DEF ExtremesSilence
<1> QED BY <1>2, <1>3, PTL
===============================================================================
