------------------------- MODULE DrawdownMonitor_proofs -------------------------
(***************************************************************************)
(* Sums over the symbols, for any finite set of them.  TotalOf is a fold,  *)
(* that is a recursive function on sets; the lemmas below say that it      *)
(* exists, and what changing one summand does to it.                       *)
(***************************************************************************)
EXTENDS DrawdownMonitor, FiniteSetTheorems, TLAPS

(***************************************************************************)
(* Induction, for sets of numbers.                                         *)
(***************************************************************************)
LEMMA NatInductive ==
    ASSUME NEW Good \in SUBSET Nat, 0 \in Good, \A n \in Good : n + 1 \in Good
    PROVE  Good = Nat
<1> SUFFICES ASSUME Nat \ Good # {} PROVE FALSE
  OBVIOUS
<1>1. IsWellFoundedOn(OpToRel(<, Nat), Nat)
  BY NatLessThanWellFounded
<1>2. PICK n \in Nat \ Good : \A m \in Nat \ Good : ~ (<<m, n>> \in OpToRel(<, Nat))
  BY <1>1, WFMin
<1>3. \A m \in Nat \ Good : ~(m < n)
  BY <1>2 DEF OpToRel
<1>4. n - 1 \in Nat
  OBVIOUS
<1>5. (n - 1) + 1 \in Good
  BY <1>3, <1>4
<1> QED
  BY <1>4, <1>5

(***************************************************************************)
(* The fold behind TotalOf.                                                *)
(***************************************************************************)
Pick(T) == CHOOSE s \in T : TRUE

\* One turn of the fold: a member of T and the sum of the others.
Turn(f, sum, T) == IF T = {} THEN 0 ELSE f[Pick(T)] + sum[T \ {Pick(T)}]

\* A function that sums up every subset of the symbols with at most n members.
UpTo(n) == {T \in SUBSET Symbols : Cardinality(T) <= n}
SumsUpTo(f, sum, n) ==
    /\ sum \in [UpTo(n) -> Int]
    /\ \A T \in UpTo(n) : sum[T] = Turn(f, sum, T)

LEMMA Smaller ==
    ASSUME NEW T \in SUBSET Symbols, T # {}
    PROVE  /\ Pick(T) \in T
           /\ T \ {Pick(T)} \in SUBSET Symbols
           /\ Cardinality(T) \in Nat
           /\ Cardinality(T \ {Pick(T)}) = Cardinality(T) - 1
<1>1. Pick(T) \in T
  BY DEF Pick
<1>2. IsFiniteSet(T)
  BY LedgerAssumption, FS_Subset
<1> QED
  BY <1>1, <1>2, FS_RemoveElement, FS_CardinalityType

LEMMA SumsExist ==
    ASSUME NEW f \in [Symbols -> Int], NEW n \in Nat
    PROVE  \E sum : SumsUpTo(f, sum, n)
<1> DEFINE Good == {m \in Nat : \E sum : SumsUpTo(f, sum, m)}
<1>1. 0 \in Good
  <2> DEFINE zero == [T \in UpTo(0) |-> 0]
  <2>1. \A T \in UpTo(0) : T = {}
    <3> SUFFICES ASSUME NEW T \in UpTo(0), T # {} PROVE FALSE
      OBVIOUS
    <3>1. Cardinality(T) <= 0 /\ Cardinality(T) \in Nat /\ Cardinality(T \ {Pick(T)}) = Cardinality(T) - 1
      BY Smaller DEF UpTo
    <3>2. Cardinality(T \ {Pick(T)}) \in Nat
      BY LedgerAssumption, FS_Subset, FS_CardinalityType DEF UpTo
    <3> QED
      BY <3>1, <3>2
  <2>2. SumsUpTo(f, zero, 0)
    BY <2>1 DEF SumsUpTo, Turn
  <2> QED
    BY <2>2
<1>2. ASSUME NEW m \in Good PROVE m + 1 \in Good
  <2>1. PICK sum : SumsUpTo(f, sum, m)
    OBVIOUS
  <2> DEFINE next == [T \in UpTo(m + 1) |-> Turn(f, sum, T)]
  <2>2. ASSUME NEW T \in UpTo(m + 1), T # {}
        PROVE  /\ Pick(T) \in Symbols
               /\ T \ {Pick(T)} \in UpTo(m)
               /\ T \ {Pick(T)} \in UpTo(m + 1)
    BY <2>2, Smaller DEF UpTo
  <2>3. \A T \in UpTo(m) : next[T] = sum[T] /\ sum[T] \in Int
    <3>1. UpTo(m) \subseteq UpTo(m + 1)
      <4> SUFFICES ASSUME NEW T \in UpTo(m) PROVE T \in UpTo(m + 1)
        OBVIOUS
      <4>1. Cardinality(T) \in Nat
        BY LedgerAssumption, FS_Subset, FS_CardinalityType DEF UpTo
      <4> QED
        BY <4>1 DEF UpTo
    <3> QED
      BY <2>1, <3>1 DEF SumsUpTo
  <2>4. \A T \in UpTo(m + 1) : Turn(f, sum, T) \in Int
    <3> SUFFICES ASSUME NEW T \in UpTo(m + 1), T # {} PROVE f[Pick(T)] + sum[T \ {Pick(T)}] \in Int
      BY DEF Turn
    <3>1. Pick(T) \in Symbols /\ T \ {Pick(T)} \in UpTo(m)
      BY <2>2
    <3>2. f[Pick(T)] \in Int /\ sum[T \ {Pick(T)}] \in Int
      BY <2>3, <3>1
    <3> QED
      BY <3>2
  <2>5. ASSUME NEW T \in UpTo(m + 1) PROVE next[T] = Turn(f, next, T)
    BY <2>2, <2>3 DEF Turn
  <2>6. SumsUpTo(f, next, m + 1)
    BY <2>4, <2>5 DEF SumsUpTo
  <2> QED
    BY <2>6
<1> HIDE DEF Good
<1>3. Good = Nat
  <2>1. Good \in SUBSET Nat
    BY DEF Good
  <2> QED
    BY <1>1, <1>2, <2>1, NatInductive
<1> QED
  BY <1>3 DEF Good

(***************************************************************************)
(* Induction in the order of the fold.                                     *)
(***************************************************************************)
LEMMA PickInduction ==
    ASSUME NEW Good \in SUBSET SUBSET Symbols,
           {} \in Good,
           \A T \in SUBSET Symbols : T # {} /\ T \ {Pick(T)} \in Good => T \in Good
    PROVE  Good = SUBSET Symbols
<1> DEFINE Sizes == {n \in Nat : \A T \in SUBSET Symbols : Cardinality(T) = n => T \in Good}
<1>1. 0 \in Sizes
  BY LedgerAssumption, FS_Subset, FS_EmptySet
<1>2. ASSUME NEW n \in Sizes PROVE n + 1 \in Sizes
  <2> SUFFICES ASSUME NEW T \in SUBSET Symbols, Cardinality(T) = n + 1 PROVE T \in Good
    OBVIOUS
  <2>1. T # {}
    BY FS_EmptySet
  <2>2. Cardinality(T \ {Pick(T)}) = n /\ T \ {Pick(T)} \in SUBSET Symbols
    BY <2>1, Smaller
  <2> QED
    BY <2>1, <2>2
<1> HIDE DEF Sizes
<1>3. Sizes = Nat
  <2>1. Sizes \in SUBSET Nat
    BY DEF Sizes
  <2> QED
    BY <1>1, <1>2, <2>1, NatInductive
<1>4. \A T \in SUBSET Symbols : Cardinality(T) \in Nat
  BY LedgerAssumption, FS_Subset, FS_CardinalityType
<1> QED
  BY <1>3, <1>4 DEF Sizes

\* The fold TotalOf is defined by sums up every subset.
SumOf(f) == CHOOSE sum : sum = [T \in SUBSET Symbols |-> Turn(f, sum, T)]

LEMMA TotalIsSum == ASSUME NEW f PROVE TotalOf(f) = SumOf(f)[Symbols]
  BY DEF TotalOf, MapThenSumSet, MapThenFoldSet, SumOf, Turn, Pick

LEMMA SumOfAll ==
    ASSUME NEW f \in [Symbols -> Int]
    PROVE  \A T \in SUBSET Symbols :
               SumOf(f)[T] \in Int /\ SumOf(f)[T] = Turn(f, SumOf(f), T)
<1>1. Cardinality(Symbols) \in Nat
  BY LedgerAssumption, FS_CardinalityType
<1>2. UpTo(Cardinality(Symbols)) = SUBSET Symbols
  BY LedgerAssumption, FS_Subset DEF UpTo
<1>3. PICK sum : SumsUpTo(f, sum, Cardinality(Symbols))
  BY <1>1, SumsExist
<1>4. sum = [T \in SUBSET Symbols |-> Turn(f, sum, T)]
  BY <1>2, <1>3 DEF SumsUpTo
<1>5. SumOf(f) = [T \in SUBSET Symbols |-> Turn(f, SumOf(f), T)]
  BY <1>4 DEF SumOf
<1>6. \A T \in SUBSET Symbols : SumOf(f)[T] = Turn(f, SumOf(f), T)
  BY <1>5
<1> DEFINE Good == {T \in SUBSET Symbols : SumOf(f)[T] \in Int}
<1>7. {} \in Good
  <2>1. SumOf(f)[{}] = Turn(f, SumOf(f), {})
    BY <1>6
  <2> QED
    BY <2>1 DEF Turn
<1>8. \A T \in SUBSET Symbols : T # {} /\ T \ {Pick(T)} \in Good => T \in Good
  <2> SUFFICES ASSUME NEW T \in SUBSET Symbols, T # {}, SumOf(f)[T \ {Pick(T)}] \in Int
               PROVE  SumOf(f)[T] \in Int
    OBVIOUS
  <2>1. f[Pick(T)] \in Int
    BY Smaller
  <2>2. SumOf(f)[T] = f[Pick(T)] + SumOf(f)[T \ {Pick(T)}]
    BY <1>6 DEF Turn
  <2> QED
    BY <2>1, <2>2
<1>9. Good = SUBSET Symbols
  <2> HIDE DEF Good
  <2>1. Good \in SUBSET SUBSET Symbols
    BY DEF Good
  <2> QED
    BY <1>7, <1>8, <2>1, PickInduction
<1> QED
  BY <1>6, <1>9

LEMMA SumOfNone == ASSUME NEW f \in [Symbols -> Int] PROVE SumOf(f)[{}] = 0
<1>1. {} \in SUBSET Symbols
  OBVIOUS
<1>2. SumOf(f)[{}] = Turn(f, SumOf(f), {})
  BY <1>1, SumOfAll
<1> QED
  BY <1>2 DEF Turn

LEMMA TotalType == ASSUME NEW f \in [Symbols -> Int] PROVE TotalOf(f) \in Int
  BY TotalIsSum, SumOfAll

\* If two functions differ in one symbol only, so do their totals.
LEMMA TotalDiffers ==
    ASSUME NEW f \in [Symbols -> Int], NEW g \in [Symbols -> Int], NEW s \in Symbols,
           \A t \in Symbols \ {s} : f[t] = g[t]
    PROVE  TotalOf(g) = TotalOf(f) + (g[s] - f[s])
<1> DEFINE Off(T) == IF s \in T THEN g[s] - f[s] ELSE 0
           Good == {T \in SUBSET Symbols : SumOf(g)[T] = SumOf(f)[T] + Off(T)}
<1>1. {} \in Good
  BY SumOfNone
<1>2. \A T \in SUBSET Symbols : T # {} /\ T \ {Pick(T)} \in Good => T \in Good
  <2> SUFFICES ASSUME NEW T \in SUBSET Symbols, T # {}, T \ {Pick(T)} \in Good
               PROVE  SumOf(g)[T] = SumOf(f)[T] + Off(T)
    OBVIOUS
  <2> DEFINE p == Pick(T)
             rest == T \ {p}
  <2>1. p \in T /\ p \in Symbols /\ rest \in SUBSET Symbols
    BY Smaller
  <2>2. SumOf(f)[T] = f[p] + SumOf(f)[rest] /\ SumOf(g)[T] = g[p] + SumOf(g)[rest]
    BY SumOfAll DEF Turn
  <2>3. SumOf(f)[rest] \in Int /\ SumOf(g)[rest] = SumOf(f)[rest] + Off(rest)
    BY <2>1, SumOfAll
  <2>4. f[p] \in Int /\ g[p] \in Int /\ f[s] \in Int /\ g[s] \in Int
    BY <2>1
  <2>5. CASE p = s
    <3>1. Off(rest) = 0 /\ Off(T) = g[s] - f[s]
      BY <2>1, <2>5
    <3> HIDE DEF p, rest, Off
    <3> QED
      BY <2>2, <2>3, <2>4, <2>5, <3>1
  <2>6. CASE p # s
    <3>1. Off(rest) = Off(T) /\ f[p] = g[p] /\ Off(T) \in Int
      BY <2>1, <2>4, <2>6
    <3> HIDE DEF p, rest, Off
    <3> QED
      BY <2>2, <2>3, <2>4, <3>1
  <2> QED
    BY <2>5, <2>6
<1>3. Good = SUBSET Symbols
  <2> HIDE DEF Good
  <2>1. Good \in SUBSET SUBSET Symbols
    BY DEF Good
  <2> QED
    BY <1>1, <1>2, <2>1, PickInduction
<1> QED
  BY <1>3, TotalIsSum

\* Changing one summand changes the total by as much.
LEMMA TotalExcept ==
    ASSUME NEW f \in [Symbols -> Int], NEW s \in Symbols, NEW v \in Int
    PROVE  TotalOf([f EXCEPT ![s] = v]) = TotalOf(f) + (v - f[s])
<1> DEFINE g == [f EXCEPT ![s] = v]
<1>1. g \in [Symbols -> Int] /\ g[s] = v /\ \A t \in Symbols \ {s} : f[t] = g[t]
  OBVIOUS
<1> HIDE DEF g
<1>2. TotalOf(g) = TotalOf(f) + (g[s] - f[s])
  BY <1>1, TotalDiffers
<1> QED
  BY <1>1, <1>2 DEF g

\* Nothing sums up to nothing.
LEMMA TotalOfNone == TotalOf([s \in Symbols |-> 0]) = 0
<1> DEFINE f == [s \in Symbols |-> 0]
           Good == {T \in SUBSET Symbols : SumOf(f)[T] = 0}
<1>0. f \in [Symbols -> Int]
  OBVIOUS
<1>1. {} \in Good
  BY <1>0, SumOfNone
<1>2. ASSUME NEW T \in SUBSET Symbols, T # {}, T \ {Pick(T)} \in Good PROVE T \in Good
  <2>1. SumOf(f)[T] = f[Pick(T)] + SumOf(f)[T \ {Pick(T)}]
    BY <1>0, <1>2, SumOfAll DEF Turn
  <2>2. f[Pick(T)] = 0
    BY <1>2, Smaller
  <2> QED
    BY <1>2, <2>1, <2>2
<1>3. Good = SUBSET Symbols
  <2> HIDE DEF Good
  <2>1. Good \in SUBSET SUBSET Symbols
    BY DEF Good
  <2> QED
    BY <1>1, <1>2, <2>1, PickInduction
<1> QED
  BY <1>0, <1>3, TotalIsSum

--------------------------------------------------------------------------------
(***************************************************************************)
(* The operations of the ledger: their types, and what they do to the      *)
(* value of the portfolio.                                                 *)
(***************************************************************************)
LedgerType == cash \in Int /\ held \in [Symbols -> Positions] /\ cost \in [Symbols -> Int]

\* A flat symbol has no cost.
FlatIsFreeOfCost == \A s \in Symbols : held[s] = "flat" => cost[s] = 0

LEMMA ValueType == LedgerType => PortfolioValue \in Int
  BY TotalType DEF LedgerType, PortfolioValue

LEMMA ValueUnchanged == UNCHANGED ledger => PortfolioValue' = PortfolioValue
  BY DEF ledger, PortfolioValue

\* open_position turns cash into a position.
LEMMA OpenPositionValue ==
    ASSUME LedgerType, FlatIsFreeOfCost, NEW s \in Symbols, NEW side \in Sides, NEW size \in Int,
           held[s] = "flat", OpenPosition(s, size, side)
    PROVE  LedgerType' /\ FlatIsFreeOfCost' /\ PortfolioValue' = PortfolioValue
<1>1. cash' = cash - size /\ cost' = [cost EXCEPT ![s] = size] /\ held' = [held EXCEPT ![s] = side]
  BY DEF OpenPosition
<1>2. cost[s] = 0 /\ cost \in [Symbols -> Int] /\ cash \in Int /\ held \in [Symbols -> Positions]
  BY DEF FlatIsFreeOfCost, LedgerType
<1>3. TotalOf(cost') = TotalOf(cost) + size /\ TotalOf(cost) \in Int
  <2>1. TotalOf([cost EXCEPT ![s] = size]) = TotalOf(cost) + (size - cost[s])
    BY <1>2, TotalExcept
  <2>2. TotalOf(cost) \in Int
    BY <1>2, TotalType
  <2> QED
    BY <1>1, <1>2, <2>1, <2>2
<1>4. PortfolioValue' = cash' + TotalOf(cost')
  BY DEF PortfolioValue
<1> QED
  BY <1>1, <1>2, <1>3, <1>4 DEF PortfolioValue, LedgerType, FlatIsFreeOfCost, Positions, Sides

\* adjust_position_cost moves the difference between cash and the position.
LEMMA AdjustPositionCostValue ==
    ASSUME LedgerType, FlatIsFreeOfCost, NEW s \in Symbols, NEW actual \in Int,
           AdjustPositionCost(s, actual)
    PROVE  LedgerType' /\ FlatIsFreeOfCost' /\ PortfolioValue' = PortfolioValue
<1>1. /\ held[s] # "flat" /\ held' = held
      /\ cash' = cash + cost[s] - actual /\ cost' = [cost EXCEPT ![s] = actual]
  BY DEF AdjustPositionCost
<1>2. cost[s] \in Int /\ cost \in [Symbols -> Int] /\ cash \in Int
  BY DEF LedgerType
<1>3. TotalOf(cost') = TotalOf(cost) + (actual - cost[s]) /\ TotalOf(cost) \in Int
  BY <1>1, <1>2, TotalExcept, TotalType
<1>4. PortfolioValue' = cash' + TotalOf(cost')
  BY DEF PortfolioValue
<1> QED
  BY <1>1, <1>2, <1>3, <1>4 DEF PortfolioValue, LedgerType, FlatIsFreeOfCost

\* close_position realises exactly the result it is told.
LEMMA ClosePositionValue ==
    ASSUME LedgerType, FlatIsFreeOfCost, NEW s \in Symbols, NEW pnl \in Int,
           ClosePosition(s, pnl)
    PROVE  LedgerType' /\ FlatIsFreeOfCost' /\ PortfolioValue' = PortfolioValue + pnl
<1>1. /\ held' = [held EXCEPT ![s] = "flat"]
      /\ cash' = cash + cost[s] + pnl /\ cost' = [cost EXCEPT ![s] = 0]
  BY DEF ClosePosition
<1>2. /\ cost[s] \in Int /\ cost \in [Symbols -> Int] /\ cash \in Int
      /\ held \in [Symbols -> Positions]
  BY DEF LedgerType
<1>3. TotalOf(cost') = TotalOf(cost) + (0 - cost[s]) /\ TotalOf(cost) \in Int
  <2>1. 0 \in Int
    OBVIOUS
  <2>2. TotalOf([cost EXCEPT ![s] = 0]) = TotalOf(cost) + (0 - cost[s])
    BY <1>2, <2>1, TotalExcept
  <2> QED
    BY <1>1, <1>2, <2>2, TotalType
<1>4. PortfolioValue' = cash' + TotalOf(cost')
  BY DEF PortfolioValue
<1> QED
  BY <1>1, <1>2, <1>3, <1>4 DEF PortfolioValue, LedgerType, FlatIsFreeOfCost, Positions

LEMMA LedgerInitValue == LedgerInit => LedgerType /\ FlatIsFreeOfCost /\ PortfolioValue = InitialBalance
<1> SUFFICES ASSUME LedgerInit PROVE LedgerType /\ FlatIsFreeOfCost /\ PortfolioValue = InitialBalance
  OBVIOUS
<1>1. TotalOf(cost) = 0
  BY TotalOfNone DEF LedgerInit
<1> QED
  BY <1>1, LedgerAssumption DEF LedgerInit, LedgerType, FlatIsFreeOfCost, PortfolioValue, Positions, Sides
================================================================================
