--------------------------- MODULE RowSync_proofs ---------------------------
(***************************************************************************)
(* What runs of the sync engine do to the cells of a sheet, for any        *)
(* orders, configurations, batch sizes and number of runs: rules resolve   *)
(* as documented, the mode of a run is respected, links tell what is in    *)
(* the sheet and, for data as RowSync describes it, no key is written      *)
(* twice and nobody else's cell is touched.                                *)
(*                                                                         *)
(* The loops of the pure functions (evaluateRules, compileMappings, the    *)
(* overrides of planSync) are recursive functions of the number of turns.  *)
(* That such a function exists, and what holds after every turn, is shown  *)
(* by TurnInduction: of the turns where it fails, one would be the first.  *)
(***************************************************************************)
EXTENDS RowSync, FiniteSetTheorems, SequenceTheorems, WellFoundedInduction,
        NaturalsInduction, TLAPS

-----------------------------------------------------------------------------
(* Last members of finite sets.                                            *)

\* A strict order has a last member on a finite set: of the sets of what
\* comes after a member, one is smallest.
LEMMA LastExists ==
    ASSUME NEW S, IsFiniteSet(S), S # {}, NEW R,
           \A a \in S : <<a, a>> \notin R,
           \A a, b, c \in S : <<a, b>> \in R /\ <<b, c>> \in R => <<a, c>> \in R
    PROVE  \E a \in S : \A b \in S : <<a, b>> \notin R
<1> DEFINE Later(a) == {b \in S : <<a, b>> \in R}
           T == {Later(a) : a \in S}
<1>1. IsWellFoundedOn(StrictSubsetOrdering(S), FiniteSubsetsOf(S))
  BY FS_StrictSubsetOrderingWellFounded
<1>2. T \subseteq FiniteSubsetsOf(S) /\ T # {}
  <2>1. FiniteSubsetsOf(S) = SUBSET S
    BY FS_FiniteSubsetsOfFinite
  <2>2. \A a \in S : Later(a) \in SUBSET S
    OBVIOUS
  <2> HIDE DEF Later
  <2> QED
    BY <2>1, <2>2
<1> HIDE DEF T
<1>3. PICK x \in T : \A y \in T : <<y, x>> \notin StrictSubsetOrdering(S)
  BY <1>1, <1>2, WFMin, Zenon
<1>4. PICK a \in S : x = Later(a)
  BY DEF T
<1>5. ASSUME NEW b \in S, <<a, b>> \in R PROVE FALSE
  <2>1. Later(b) \in T
    BY DEF T
  <2>2. Later(b) \subseteq Later(a) /\ b \in Later(a) /\ b \notin Later(b)
    BY <1>5
  <2>3. <<Later(b), x>> \in StrictSubsetOrdering(S)
    <3>1. Later(b) \in SUBSET S /\ x \in SUBSET S
      BY <1>4
    <3>2. Later(b) \subseteq x /\ Later(b) # x
      BY <1>4, <2>2
    <3> HIDE DEF Later
    <3> QED
      BY <3>1, <3>2 DEF StrictSubsetOrdering
  <2> QED
    BY <1>3, <2>1, <2>3
<1> QED
  BY <1>5

LEMMA LastOfSet ==
    ASSUME NEW S, S \subseteq Int, IsFiniteSet(S), S # {}
    PROVE  LastOf(S) \in S /\ \A i \in S : i <= LastOf(S)
<1> DEFINE R == {p \in S \X S : p[1] < p[2]}
<1>1. \A a, b \in S : <<a, b>> \in R <=> a < b
  OBVIOUS
<1> HIDE DEF R
<1>2. PICK a \in S : \A b \in S : <<a, b>> \notin R
  <2>1. /\ \A x \in S : <<x, x>> \notin R
        /\ \A x, y, z \in S : <<x, y>> \in R /\ <<y, z>> \in R => <<x, z>> \in R
    BY <1>1
  <2> QED
    BY <2>1, LastExists
<1>3. \A b \in S : ~(a < b) /\ a \in Int /\ b \in Int
  BY <1>1, <1>2
<1>4. \A b \in S : b <= a
  BY <1>3
<1> QED
  BY <1>4 DEF LastOf

LEMMA FirstOfSet ==
    ASSUME NEW S, S \subseteq Int, IsFiniteSet(S), S # {}
    PROVE  \E i \in S : \A j \in S : i <= j
<1> DEFINE R == {p \in S \X S : p[2] < p[1]}
<1>1. \A a, b \in S : <<a, b>> \in R <=> b < a
  OBVIOUS
<1> HIDE DEF R
<1>2. PICK a \in S : \A b \in S : <<a, b>> \notin R
  <2>1. /\ \A x \in S : <<x, x>> \notin R
        /\ \A x, y, z \in S : <<x, y>> \in R /\ <<y, z>> \in R => <<x, z>> \in R
    BY <1>1
  <2> QED
    BY <2>1, LastExists
<1>3. \A b \in S : ~(b < a) /\ a \in Int /\ b \in Int
  BY <1>1, <1>2
<1> QED
  BY <1>3

\* Rows and columns are few.
LEMMA SomeRows ==
    ASSUME NEW S, S \subseteq RowNums
    PROVE  S \subseteq Int /\ (\A r \in S : r > 0) /\ IsFiniteSet(S)
<1>0. S \in SUBSET RowNums
  OBVIOUS
<1>1. MaxRows \in Nat
  BY RowSyncAssumption
<1>2. IsFiniteSet(RowNums)
  BY <1>1, FS_Interval DEF RowNums
<1>3. IsFiniteSet(S)
  BY <1>0, <1>2, FS_Subset
<1> QED
  BY <1>1, <1>3 DEF RowNums

LEMMA SomeColumns ==
    ASSUME NEW S, S \subseteq Columns
    PROVE  S \subseteq Int /\ (\A c \in S : c > 0) /\ IsFiniteSet(S)
<1>0. S \in SUBSET Columns
  OBVIOUS
<1>1. Columns = 1 .. Len(Headers) /\ Len(Headers) \in Nat
  BY HeadersAssumption DEF Columns
<1>2. IsFiniteSet(Columns)
  BY <1>1, FS_Interval
<1>3. IsFiniteSet(S)
  BY <1>0, <1>2, FS_Subset
<1> QED
  BY <1>1, <1>3

LEMMA ColumnByHeader == \A key : columnByHeader(key) \in Columns \cup {0}
<1> SUFFICES ASSUME NEW key PROVE columnByHeader(key) \in Columns \cup {0}
  OBVIOUS
<1> DEFINE named == {c \in Columns : HeaderKeys[c] = key}
<1>1. named # {} => LastOf(named) \in named
  <2>1. named \subseteq Columns
    OBVIOUS
  <2> HIDE DEF named
  <2>2. named \subseteq Int /\ IsFiniteSet(named)
    BY <2>1, SomeColumns
  <2> QED
    BY <2>2, LastOfSet
<1> QED
  BY <1>1 DEF columnByHeader

LEMMA ColumnOfHeader == \A h : columnOf(h) \in Columns \cup {0}
  BY ColumnByHeader DEF columnOf

LEMMA TrimEmpty == Trim(Empty) = Empty
  BY DEF Trim, Empty

LEMMA ImageFinite ==
    ASSUME NEW S, IsFiniteSet(S), NEW f, S \subseteq DOMAIN f
    PROVE  IsFiniteSet({f[x] : x \in S})
<1> DEFINE T == {f[x] : x \in S}
           g == [x \in S |-> f[x]]
<1>1. g \in Surjection(S, T)
  BY DEF Surjection
<1> QED
  BY <1>1, FS_Surjection

-----------------------------------------------------------------------------
(* The loops of the pure functions: they are what their equations say.     *)

\* Of the numbers that are not in S one would be smallest.
LEMMA SetInduction ==
    ASSUME NEW S, 0 \in S, \A n \in Nat : n \in S => n + 1 \in S
    PROVE  Nat \subseteq S
<1> SUFFICES ASSUME Nat \ S # {} PROVE FALSE
  OBVIOUS
<1> DEFINE R == OpToRel(<, Nat)
<1>1. PICK x \in Nat \ S : \A y \in Nat \ S : ~ (<<y, x>> \in R)
  <2>1. IsWellFoundedOn(R, Nat) /\ Nat \ S \subseteq Nat
    BY NatLessThanWellFounded
  <2> HIDE DEF R
  <2> QED
    BY <2>1, WFMin, Zenon
<1>2. \A y \in Nat : y < x => <<y, x>> \in R
  BY DEF OpToRel
<1> HIDE DEF R
<1>3. x # 0 /\ x - 1 \in Nat /\ x - 1 < x /\ x - 1 + 1 = x
  OBVIOUS
<1> QED
  BY <1>1, <1>2, <1>3

\* The turns up to n, for every n: a set of numbers with 0 and the next of
\* each of its numbers below n holds n.
LEMMA TurnInduction ==
    ASSUME NEW n \in Nat, NEW S, 0 \in S, \A i \in 0 .. n - 1 : i \in S => i + 1 \in S
    PROVE  \A i \in 0 .. n : i \in S
<1> DEFINE T == {i \in Nat : i <= n => i \in S}
<1>1. 0 \in T
  OBVIOUS
<1>2. ASSUME NEW i \in Nat, i \in T PROVE i + 1 \in T
  <2>1. i + 1 <= n => i \in 0 .. n - 1
    OBVIOUS
  <2> QED
    BY <1>2, <2>1
<1> HIDE DEF T
<1>3. Nat \subseteq T
  BY <1>1, <1>2, SetInduction
<1> QED
  BY <1>3 DEF T

\* What the loop over the rules has after turn i, if g is what it has after
\* each turn: there is such a g, and AfterRules is its last value.
RuleLoop(g, rules, resolve, i) ==
    IF i = 0 THEN NothingYet ELSE RuleTurn(g[i - 1], rules[i], i, resolve)

LEMMA RuleLoopExists ==
    ASSUME NEW rules, Len(rules) \in Nat, NEW resolve
    PROVE  \E g : g = [i \in 0 .. Len(rules) |-> RuleLoop(g, rules, resolve, i)]
<1> DEFINE Good == {n \in 0 .. Len(rules) :
                      \E g : g = [i \in 0 .. n |-> RuleLoop(g, rules, resolve, i)]}
<1>1. 0 \in Good
  <2> DEFINE g == [i \in 0 .. 0 |-> NothingYet]
  <2>1. g = [i \in 0 .. 0 |-> RuleLoop(g, rules, resolve, i)]
    BY DEF RuleLoop
  <2> QED
    BY <2>1
<1>2. ASSUME NEW n \in 0 .. Len(rules) - 1, n \in Good PROVE n + 1 \in Good
  <2>1. PICK g : g = [i \in 0 .. n |-> RuleLoop(g, rules, resolve, i)]
    BY <1>2
  <2> DEFINE h == [i \in 0 .. n + 1 |-> IF i <= n THEN g[i] ELSE RuleLoop(g, rules, resolve, i)]
  <2>2. ASSUME NEW i \in 0 .. n + 1
        PROVE  h[i] = RuleLoop(h, rules, resolve, i)
    <3>1. i # 0 => i - 1 \in 0 .. n
      BY <2>2
    <3>2. i # 0 => h[i - 1] = g[i - 1]
      BY <3>1
    <3>3. RuleLoop(h, rules, resolve, i) = RuleLoop(g, rules, resolve, i)
      <4> HIDE DEF h
      <4> QED
        BY <3>2 DEF RuleLoop
    <3>4. i <= n => i \in 0 .. n /\ g[i] = RuleLoop(g, rules, resolve, i)
      BY <2>1
    <3> QED
      BY <3>3, <3>4
  <2>3. h = [i \in 0 .. n + 1 |-> h[i]]
    OBVIOUS
  <2>4. h = [i \in 0 .. n + 1 |-> RuleLoop(h, rules, resolve, i)]
    <3> HIDE DEF h
    <3> QED
      BY <2>2, <2>3
  <2>5. n + 1 \in 0 .. Len(rules)
    OBVIOUS
  <2> HIDE DEF h
  <2> QED
    BY <2>4, <2>5
<1>3. \A i \in 0 .. Len(rules) : i \in Good
  <2> HIDE DEF Good
  <2> QED
    BY <1>1, <1>2, TurnInduction
<1> QED
  BY <1>3

LEMMA RuleLoopUnfolds ==
    ASSUME NEW rules, Len(rules) \in Nat, NEW resolve
    PROVE  \E g : /\ AfterRules(rules, resolve) = g[Len(rules)]
                  /\ \A i \in 0 .. Len(rules) : g[i] = RuleLoop(g, rules, resolve, i)
<1> DEFINE f == CHOOSE g : g = [i \in 0 .. Len(rules) |->
                    IF i = 0 THEN NothingYet ELSE RuleTurn(g[i - 1], rules[i], i, resolve)]
<1>1. AfterRules(rules, resolve) = f[Len(rules)]
  BY DEF AfterRules
<1>2. f = [i \in 0 .. Len(rules) |->
                    IF i = 0 THEN NothingYet ELSE RuleTurn(f[i - 1], rules[i], i, resolve)]
  BY RuleLoopExists DEF RuleLoop
<1> HIDE DEF f
<1>3. \A i \in 0 .. Len(rules) : f[i] = RuleLoop(f, rules, resolve, i)
  BY <1>2 DEF RuleLoop
<1> QED
  BY <1>1, <1>3

\* The same for the loop over the mappings.
CompileLoop(g, mappings, i) ==
    IF i = 0 THEN <<>>
    ELSE IF Compiles(mappings[i]) THEN Append(g[i - 1], mappings[i]) ELSE g[i - 1]

LEMMA CompileLoopExists ==
    ASSUME NEW mappings, Len(mappings) \in Nat
    PROVE  \E g : g = [i \in 0 .. Len(mappings) |-> CompileLoop(g, mappings, i)]
<1> DEFINE Good == {n \in 0 .. Len(mappings) :
                      \E g : g = [i \in 0 .. n |-> CompileLoop(g, mappings, i)]}
<1>1. 0 \in Good
  <2> DEFINE g == [i \in 0 .. 0 |-> <<>>]
  <2>1. g = [i \in 0 .. 0 |-> CompileLoop(g, mappings, i)]
    BY DEF CompileLoop
  <2> QED
    BY <2>1
<1>2. ASSUME NEW n \in 0 .. Len(mappings) - 1, n \in Good PROVE n + 1 \in Good
  <2>1. PICK g : g = [i \in 0 .. n |-> CompileLoop(g, mappings, i)]
    BY <1>2
  <2> DEFINE h == [i \in 0 .. n + 1 |-> IF i <= n THEN g[i] ELSE CompileLoop(g, mappings, i)]
  <2>2. ASSUME NEW i \in 0 .. n + 1
        PROVE  h[i] = CompileLoop(h, mappings, i)
    <3>1. i # 0 => i - 1 \in 0 .. n
      BY <2>2
    <3>2. i # 0 => h[i - 1] = g[i - 1]
      BY <3>1
    <3>3. CompileLoop(h, mappings, i) = CompileLoop(g, mappings, i)
      <4> HIDE DEF h
      <4> QED
        BY <3>2 DEF CompileLoop
    <3>4. i <= n => i \in 0 .. n /\ g[i] = CompileLoop(g, mappings, i)
      BY <2>1
    <3> QED
      BY <3>3, <3>4
  <2>3. h = [i \in 0 .. n + 1 |-> h[i]]
    OBVIOUS
  <2>4. h = [i \in 0 .. n + 1 |-> CompileLoop(h, mappings, i)]
    <3> HIDE DEF h
    <3> QED
      BY <2>2, <2>3
  <2>5. n + 1 \in 0 .. Len(mappings)
    OBVIOUS
  <2> HIDE DEF h
  <2> QED
    BY <2>4, <2>5
<1>3. \A i \in 0 .. Len(mappings) : i \in Good
  <2> HIDE DEF Good
  <2> QED
    BY <1>1, <1>2, TurnInduction
<1> QED
  BY <1>3

LEMMA CompileLoopUnfolds ==
    ASSUME NEW mappings, Len(mappings) \in Nat
    PROVE  \E g : /\ compileMappings(mappings) = g[Len(mappings)]
                  /\ \A i \in 0 .. Len(mappings) : g[i] = CompileLoop(g, mappings, i)
<1> DEFINE f == CHOOSE g : g = [i \in 0 .. Len(mappings) |->
                    IF i = 0 THEN <<>>
                    ELSE IF Compiles(mappings[i]) THEN Append(g[i - 1], mappings[i])
                    ELSE g[i - 1]]
<1>1. compileMappings(mappings) = f[Len(mappings)]
  BY DEF compileMappings
<1>2. f = [i \in 0 .. Len(mappings) |->
                    IF i = 0 THEN <<>>
                    ELSE IF Compiles(mappings[i]) THEN Append(f[i - 1], mappings[i])
                    ELSE f[i - 1]]
  BY CompileLoopExists DEF CompileLoop
<1> HIDE DEF f
<1>3. \A i \in 0 .. Len(mappings) : f[i] = CompileLoop(f, mappings, i)
  BY <1>2 DEF CompileLoop
<1> QED
  BY <1>1, <1>3

\* The same for the loop over the overrides.
ColumnFor(ov) == columnByHeader(Lower(ov.column))
OverrideLoop(g, cells, overrides, i) ==
    IF i = 0 THEN cells
    ELSE IF ColumnFor(overrides[i]) = 0 THEN g[i - 1]
    ELSE SetCell(g[i - 1], ColumnFor(overrides[i]), overrides[i].value)

LEMMA OverrideLoopExists ==
    ASSUME NEW cells, NEW overrides, Len(overrides) \in Nat
    PROVE  \E g : g = [i \in 0 .. Len(overrides) |-> OverrideLoop(g, cells, overrides, i)]
<1> DEFINE Good == {n \in 0 .. Len(overrides) :
                      \E g : g = [i \in 0 .. n |-> OverrideLoop(g, cells, overrides, i)]}
<1>1. 0 \in Good
  <2> DEFINE g == [i \in 0 .. 0 |-> cells]
  <2>1. g = [i \in 0 .. 0 |-> OverrideLoop(g, cells, overrides, i)]
    BY DEF OverrideLoop
  <2> QED
    BY <2>1
<1>2. ASSUME NEW n \in 0 .. Len(overrides) - 1, n \in Good PROVE n + 1 \in Good
  <2>1. PICK g : g = [i \in 0 .. n |-> OverrideLoop(g, cells, overrides, i)]
    BY <1>2
  <2> DEFINE h == [i \in 0 .. n + 1 |->
                      IF i <= n THEN g[i] ELSE OverrideLoop(g, cells, overrides, i)]
  <2>2. ASSUME NEW i \in 0 .. n + 1
        PROVE  h[i] = OverrideLoop(h, cells, overrides, i)
    <3>1. i # 0 => i - 1 \in 0 .. n
      BY <2>2
    <3>2. i # 0 => h[i - 1] = g[i - 1]
      BY <3>1
    <3>3. OverrideLoop(h, cells, overrides, i) = OverrideLoop(g, cells, overrides, i)
      <4> HIDE DEF h
      <4> QED
        BY <3>2 DEF OverrideLoop
    <3>4. i <= n => i \in 0 .. n /\ g[i] = OverrideLoop(g, cells, overrides, i)
      BY <2>1
    <3> QED
      BY <3>3, <3>4
  <2>3. h = [i \in 0 .. n + 1 |-> h[i]]
    OBVIOUS
  <2>4. h = [i \in 0 .. n + 1 |-> OverrideLoop(h, cells, overrides, i)]
    <3> HIDE DEF h
    <3> QED
      BY <2>2, <2>3
  <2>5. n + 1 \in 0 .. Len(overrides)
    OBVIOUS
  <2> HIDE DEF h
  <2> QED
    BY <2>4, <2>5
<1>3. \A i \in 0 .. Len(overrides) : i \in Good
  <2> HIDE DEF Good
  <2> QED
    BY <1>1, <1>2, TurnInduction
<1> QED
  BY <1>3

LEMMA OverrideLoopUnfolds ==
    ASSUME NEW cells, NEW overrides, Len(overrides) \in Nat
    PROVE  \E g : /\ Overridden(cells, overrides) = g[Len(overrides)]
                  /\ \A i \in 0 .. Len(overrides) : g[i] = OverrideLoop(g, cells, overrides, i)
<1> DEFINE f == CHOOSE g : g = [i \in 0 .. Len(overrides) |->
                    IF i = 0 THEN cells
                    ELSE IF columnByHeader(Lower(overrides[i].column)) = 0 THEN g[i - 1]
                    ELSE SetCell(g[i - 1], columnByHeader(Lower(overrides[i].column)),
                                 overrides[i].value)]
<1>1. Overridden(cells, overrides) = f[Len(overrides)]
  BY DEF Overridden
<1>2. f = [i \in 0 .. Len(overrides) |->
                    IF i = 0 THEN cells
                    ELSE IF columnByHeader(Lower(overrides[i].column)) = 0 THEN f[i - 1]
                    ELSE SetCell(f[i - 1], columnByHeader(Lower(overrides[i].column)),
                                 overrides[i].value)]
  BY OverrideLoopExists DEF OverrideLoop, ColumnFor
<1> HIDE DEF f
<1>3. \A i \in 0 .. Len(overrides) : f[i] = OverrideLoop(f, cells, overrides, i)
  BY <1>2 DEF OverrideLoop, ColumnFor
<1> QED
  BY <1>1, <1>3

-----------------------------------------------------------------------------
(* Lists of a column and a value: cells and overrides.                     *)

\* As long as it says, of [column, value] only.
PairList(s) ==
    /\ Len(s) \in Nat /\ s = [j \in 1 .. Len(s) |-> s[j]]
    /\ \A j \in 1 .. Len(s) : s[j] = [column |-> s[j].column, value |-> s[j].value]

LEMMA PairListDomain ==
    ASSUME NEW s, PairList(s)
    PROVE  /\ DOMAIN s = 1 .. Len(s) /\ Len(s) \in Nat /\ IsFiniteSet(DOMAIN s)
           /\ s \in Seq(Range(s))
<1>1. DOMAIN s = 1 .. Len(s) /\ Len(s) \in Nat
  BY DEF PairList
<1>2. IsFiniteSet(1 .. Len(s))
  BY <1>1, FS_Interval
<1>3. s \in [1 .. Len(s) -> Range(s)]
  BY <1>1 DEF PairList, Range
<1>4. s \in Seq(Range(s))
  BY <1>1, <1>3
<1> QED
  BY <1>1, <1>2, <1>4

\* A function on an interval of pairs is such a list.
LEMMA PairListMade ==
    ASSUME NEW n \in Nat, NEW t, t = [j \in 1 .. n |-> t[j]],
           \A j \in 1 .. n : t[j] = [column |-> t[j].column, value |-> t[j].value]
    PROVE  PairList(t) /\ Len(t) = n
<1>1. t \in [1 .. n -> {t[j] : j \in 1 .. n}]
  OBVIOUS
<1>2. t \in Seq({t[j] : j \in 1 .. n}) /\ Len(t) = n
  BY <1>1
<1> QED
  BY <1>2 DEF PairList

Pair(e) == e = [column |-> e.column, value |-> e.value]

LEMMA PairAppended ==
    ASSUME NEW s, PairList(s), NEW e, Pair(e)
    PROVE  /\ PairList(Append(s, e)) /\ Len(Append(s, e)) = Len(s) + 1
           /\ \A j \in DOMAIN s : j \in DOMAIN Append(s, e) /\ Append(s, e)[j] = s[j]
           /\ Len(s) + 1 \in DOMAIN Append(s, e) /\ Append(s, e)[Len(s) + 1] = e
           /\ \A j \in DOMAIN Append(s, e) : j \in DOMAIN s \/ j = Len(s) + 1
<1> DEFINE t == Append(s, e)
           S == Range(s) \cup {e}
<1>1. s \in Seq(S) /\ e \in S /\ DOMAIN s = 1 .. Len(s) /\ Len(s) \in Nat
  <2>1. DOMAIN s = 1 .. Len(s) /\ Len(s) \in Nat /\ s \in Seq(Range(s))
    BY PairListDomain
  <2>2. s \in Seq(S)
    BY <2>1
  <2> QED
    BY <2>1, <2>2
<1>2. /\ t \in Seq(S) /\ Len(t) = Len(s) + 1 /\ t[Len(s) + 1] = e
      /\ \A j \in 1 .. Len(s) : t[j] = s[j]
  <2> HIDE DEF S
  <2> QED
    BY <1>1, AppendProperties
<1> HIDE DEF t, S
<1>3. DOMAIN t = 1 .. Len(s) + 1 /\ t = [j \in 1 .. Len(s) + 1 |-> t[j]]
  BY <1>1, <1>2
<1>4. ASSUME NEW j \in 1 .. Len(s) + 1
      PROVE  t[j] = [column |-> t[j].column, value |-> t[j].value]
  <2>1. CASE j \in 1 .. Len(s)
    BY <1>2, <2>1 DEF PairList
  <2>2. CASE j = Len(s) + 1
    BY <1>2, <2>2 DEF Pair
  <2> QED
    BY <1>1, <2>1, <2>2
<1>5. PairList(t)
  <2>1. Len(s) + 1 \in Nat
    BY <1>1
  <2> QED
    BY <1>3, <1>4, <2>1, PairListMade
<1>6. \A j \in 1 .. Len(s) + 1 : j \in 1 .. Len(s) \/ j = Len(s) + 1
  BY <1>1
<1> QED
  BY <1>1, <1>2, <1>3, <1>5, <1>6 DEF t

\* No two pairs of column c.
Single(s, c) ==
    \A i, j \in DOMAIN s : s[i].column = c /\ s[j].column = c => i = j

\* A rule's value is in one cell of its column, which is a new one if the row
\* had none; cells of other columns are as they were, and cells keep their
\* column.
LEMMA SetCellEffect ==
    ASSUME NEW s, PairList(s), NEW c, NEW v, NEW t, t = SetCell(s, c, v)
    PROVE  /\ PairList(t)
           /\ \E j \in DOMAIN t : t[j] = [column |-> c, value |-> v]
           /\ \A j \in DOMAIN s : /\ j \in DOMAIN t /\ t[j].column = s[j].column
                                  /\ s[j].column # c => t[j] = s[j]
           /\ \A j \in DOMAIN t : j \in DOMAIN s \/ t[j].column = c
           /\ \A d : Single(s, d) => Single(t, d)
<1> DEFINE own == {i \in DOMAIN s : s[i].column = c}
<1>1. DOMAIN s = 1 .. Len(s) /\ Len(s) \in Nat /\ IsFiniteSet(DOMAIN s)
  BY PairListDomain
<1>2. CASE own = {}
  <2> DEFINE e == [column |-> c, value |-> v]
  <2>1. t = Append(s, e)
    BY <1>2 DEF SetCell
  <2>2. \A j \in DOMAIN s : s[j].column # c
    BY <1>2
  <2>3. Pair(e) /\ e.column = c
    BY DEF Pair
  <2> HIDE DEF own, e
  <2>4. /\ PairList(t) /\ Len(s) + 1 \in DOMAIN t /\ t[Len(s) + 1] = e
        /\ \A j \in DOMAIN s : j \in DOMAIN t /\ t[j] = s[j]
        /\ \A j \in DOMAIN t : j \in DOMAIN s \/ j = Len(s) + 1
    BY <2>1, <2>3, PairAppended
  <2>5. t[Len(s) + 1] = [column |-> c, value |-> v]
    BY <2>4 DEF e
  <2>6. ASSUME NEW d, Single(s, d) PROVE Single(t, d)
    BY <2>2, <2>3, <2>4, <2>6 DEF Single
  <2> QED
    BY <2>2, <2>3, <2>4, <2>5, <2>6
<1>3. CASE own # {}
  <2> DEFINE f == CHOOSE i \in own : \A j \in own : i <= j
  <2>1. \E i \in own : \A j \in own : i <= j
    <3>1. own \in SUBSET DOMAIN s
      OBVIOUS
    <3>2. IsFiniteSet(own)
      BY <1>1, <3>1, FS_Subset
    <3>3. own \subseteq Int
      BY <1>1
    <3> HIDE DEF own
    <3> QED
      BY <1>3, <3>2, <3>3, FirstOfSet
  <2>2. f \in own
    <3> HIDE DEF own
    <3> QED
      BY <2>1
  <2>3. t = [s EXCEPT ![f].value = v]
    BY <1>3 DEF SetCell
  <2> HIDE DEF f
  <2>4. f \in 1 .. Len(s) /\ s[f].column = c
    BY <1>1, <2>2
  <2>5. /\ t = [j \in 1 .. Len(s) |-> t[j]]
        /\ t[f] = [s[f] EXCEPT !.value = v]
        /\ \A j \in 1 .. Len(s) : j # f => t[j] = s[j]
    BY <1>1, <2>3, <2>4
  <2>6. s[f] = [column |-> s[f].column, value |-> s[f].value]
    BY <2>4 DEF PairList
  <2>7. t[f] = [column |-> c, value |-> v]
    BY <2>4, <2>5, <2>6
  <2>8. ASSUME NEW j \in 1 .. Len(s)
        PROVE  t[j] = [column |-> t[j].column, value |-> t[j].value]
    <3>1. CASE j = f
      BY <2>7, <3>1
    <3>2. CASE j # f
      BY <2>5, <3>2 DEF PairList
    <3> QED
      BY <3>1, <3>2
  <2>9. PairList(t) /\ DOMAIN t = 1 .. Len(s)
    BY <1>1, <2>5, <2>8, PairListMade
  <2>10. ASSUME NEW j \in 1 .. Len(s)
         PROVE  t[j].column = s[j].column /\ (s[j].column # c => t[j] = s[j])
    <3>1. CASE j = f
      BY <2>4, <2>7, <3>1
    <3>2. CASE j # f
      BY <2>5, <3>2
    <3> QED
      BY <3>1, <3>2
  <2>11. ASSUME NEW d, Single(s, d) PROVE Single(t, d)
    BY <1>1, <2>9, <2>10, <2>11 DEF Single
  <2> QED
    BY <1>1, <2>4, <2>7, <2>9, <2>10, <2>11
<1> QED
  BY <1>2, <1>3

\* Map.set: the value of the column is the new one, in one entry or in as
\* many as there were; other entries stay.
LEMMA OverrideEffect ==
    ASSUME NEW s, PairList(s), NEW c, NEW v, NEW t, t = Override(s, c, v)
    PROVE  /\ PairList(t)
           /\ \E j \in DOMAIN t : t[j].column = c
           /\ \A j \in DOMAIN s : j \in DOMAIN t /\ t[j].column = s[j].column
           /\ \A j \in DOMAIN t : \/ t[j] = [column |-> c, value |-> v]
                                  \/ j \in DOMAIN s /\ t[j] = s[j] /\ s[j].column # c
<1>1. DOMAIN s = 1 .. Len(s) /\ Len(s) \in Nat
  BY PairListDomain
<1>2. CASE ~\E i \in DOMAIN s : s[i].column = c
  <2> DEFINE e == [column |-> c, value |-> v]
  <2>1. t = Append(s, e) /\ Pair(e) /\ e.column = c
    BY <1>2 DEF Override, Pair
  <2> HIDE DEF e
  <2>2. /\ PairList(t) /\ Len(s) + 1 \in DOMAIN t /\ t[Len(s) + 1] = e
        /\ \A j \in DOMAIN s : j \in DOMAIN t /\ t[j] = s[j]
        /\ \A j \in DOMAIN t : j \in DOMAIN s \/ j = Len(s) + 1
    BY <2>1, PairAppended
  <2>3. t[Len(s) + 1] = [column |-> c, value |-> v]
    BY <2>2 DEF e
  <2>4. \A j \in DOMAIN s : s[j].column # c
    BY <1>2
  <2> QED
    BY <2>1, <2>2, <2>3, <2>4
<1>3. CASE \E i \in DOMAIN s : s[i].column = c
  <2>1. t = [i \in DOMAIN s |-> IF s[i].column = c THEN [s[i] EXCEPT !.value = v] ELSE s[i]]
    BY <1>3 DEF Override
  <2>2. ASSUME NEW j \in DOMAIN s
        PROVE  /\ s[j].column = c => t[j] = [column |-> c, value |-> v]
               /\ s[j].column # c => t[j] = s[j]
               /\ t[j].column = s[j].column
               /\ t[j] = [column |-> t[j].column, value |-> t[j].value]
    <3>1. s[j] = [column |-> s[j].column, value |-> s[j].value]
      BY <1>1, <2>2 DEF PairList
    <3>2. s[j].column = c => t[j] = [s[j] EXCEPT !.value = v]
      BY <2>1
    <3>3. s[j].column = c => t[j] = [column |-> c, value |-> v]
      BY <3>1, <3>2
    <3>4. s[j].column # c => t[j] = s[j]
      BY <2>1
    <3> QED
      BY <3>1, <3>3, <3>4
  <2>3. DOMAIN t = 1 .. Len(s) /\ t = [j \in 1 .. Len(s) |-> t[j]]
    BY <1>1, <2>1
  <2>4. PairList(t)
    BY <1>1, <2>2, <2>3, PairListMade
  <2> QED
    BY <1>1, <1>3, <2>2, <2>3, <2>4
<1> QED
  BY <1>2, <1>3

-----------------------------------------------------------------------------
(* What the rules of a valid list come to.                                 *)

LoopFields(acc) ==
    acc = [excluded |-> acc.excluded, listed |-> acc.listed, overrides |-> acc.overrides,
           set |-> acc.set, matched |-> acc.matched]
RuleFires(rule, resolve) == rule.enabled /\ RuleMatches(rule, resolve)

\* One turn, by the action of the rule.
LEMMA TurnEffect ==
    ASSUME NEW acc, LoopFields(acc), NEW rule, ValidRule(rule), NEW i, NEW resolve,
           NEW new, new = RuleTurn(acc, rule, i, resolve)
    PROVE  /\ LoopFields(new)
           /\ acc.excluded \/ ~RuleFires(rule, resolve) => new = acc
           /\ ~acc.excluded /\ RuleFires(rule, resolve) =>
                /\ new.excluded <=> rule.action = "EXCLUDE"
                /\ new.listed <=> acc.listed \/ rule.action = "INCLUDE_ONLY"
                /\ new.overrides = IF rule.action = "SET_VALUE"
                                   THEN Override(acc.overrides, Trim(rule.column), rule.value)
                                   ELSE acc.overrides
                /\ new.set = IF rule.action = "USE_MAPPING_SET" THEN rule.set ELSE acc.set
<1>1. CASE acc.excluded \/ ~RuleFires(rule, resolve)
  BY <1>1 DEF RuleTurn, RuleFires
<1>2. CASE ~acc.excluded /\ RuleFires(rule, resolve)
  <2> DEFINE seen == [acc EXCEPT !.matched = @ \cup {i}]
  <2>1. /\ seen = [excluded |-> acc.excluded, listed |-> acc.listed, set |-> acc.set,
                   overrides |-> acc.overrides, matched |-> acc.matched \cup {i}]
    BY DEF LoopFields
  <2>2. new = CASE rule.action = "EXCLUDE"      -> [seen EXCEPT !.excluded = TRUE]
                [] rule.action = "INCLUDE_ONLY" -> [seen EXCEPT !.listed = TRUE]
                [] rule.action = "SET_VALUE" /\ rule.column # Empty ->
                      [seen EXCEPT !.overrides = Override(@, Trim(rule.column), rule.value)]
                [] rule.action = "USE_MAPPING_SET" /\ rule.set # None ->
                      [seen EXCEPT !.set = rule.set]
                [] OTHER -> seen
    BY <1>2 DEF RuleTurn, RuleFires, ApplyRule
  <2>3. \/ rule.action = "EXCLUDE" \/ rule.action = "INCLUDE_ONLY"
        \/ rule.action = "SET_VALUE" /\ rule.column # Empty
        \/ rule.action = "USE_MAPPING_SET" /\ rule.set # None
    BY TrimEmpty DEF ValidRule
  <2> HIDE DEF seen
  <2>4. CASE rule.action = "EXCLUDE"
    <3>1. new = [seen EXCEPT !.excluded = TRUE]
      BY <2>2, <2>4
    <3> QED
      BY <1>2, <2>1, <2>4, <3>1 DEF LoopFields
  <2>5. CASE rule.action = "INCLUDE_ONLY"
    <3>1. new = [seen EXCEPT !.listed = TRUE]
      BY <2>2, <2>5
    <3> QED
      BY <1>2, <2>1, <2>5, <3>1 DEF LoopFields
  <2>6. CASE rule.action = "SET_VALUE" /\ rule.column # Empty
    <3>1. new = [seen EXCEPT !.overrides = Override(@, Trim(rule.column), rule.value)]
      BY <2>2, <2>6
    <3> QED
      BY <1>2, <2>1, <2>6, <3>1 DEF LoopFields
  <2>7. CASE rule.action = "USE_MAPPING_SET" /\ rule.set # None
    <3>1. new = [seen EXCEPT !.set = rule.set]
      BY <2>2, <2>7
    <3> QED
      BY <1>2, <2>1, <2>7, <3>1 DEF LoopFields
  <2> QED
    BY <2>3, <2>4, <2>5, <2>6, <2>7
<1> QED
  BY <1>1, <1>2

\* The rules of an action among the first n that match.
FiredBy(rules, resolve, action, n) == {i \in Fires(rules, resolve, action) : i <= n}

LEMMA FiredNext ==
    ASSUME NEW rules, rules \in Seq(Range(rules)), NEW resolve, NEW action,
           NEW n \in 0 .. Len(rules) - 1
    PROVE  FiredBy(rules, resolve, action, n + 1) =
             FiredBy(rules, resolve, action, n) \cup
             (IF RuleFires(rules[n + 1], resolve) /\ rules[n + 1].action = action THEN {n + 1}
              ELSE {})
<1>1. DOMAIN rules = 1 .. Len(rules) /\ Len(rules) \in Nat
  OBVIOUS
<1>2. n + 1 \in DOMAIN rules
  BY <1>1
<1>3. \A i \in DOMAIN rules : i <= n + 1 <=> i <= n \/ i = n + 1
  BY <1>1
<1>4. \A i : i \in Fires(rules, resolve, action) <=>
              i \in DOMAIN rules /\ RuleFires(rules[i], resolve) /\ rules[i].action = action
  BY DEF Fires, RuleFires
<1>5. n + 1 <= n + 1
  OBVIOUS
<1> QED
  BY <1>2, <1>3, <1>4, <1>5 DEF FiredBy

LEMMA FiredBounds ==
    ASSUME NEW rules, rules \in Seq(Range(rules)), NEW resolve, NEW action
    PROVE  /\ FiredBy(rules, resolve, action, 0) = {}
           /\ FiredBy(rules, resolve, action, Len(rules)) = Fires(rules, resolve, action)
           /\ \A n \in Nat : FiredBy(rules, resolve, action, n) \subseteq DOMAIN rules \cap 1 .. n
<1>1. DOMAIN rules = 1 .. Len(rules) /\ Len(rules) \in Nat
  OBVIOUS
<1> QED
  BY <1>1 DEF FiredBy, Fires

-----------------------------------------------------------------------------
(* The loop up to rule n.                                                  *)

\* The override of a rule.
ValueOf(rule) == [column |-> Trim(rule.column), value |-> rule.value]
\* The overrides are those of the setters in S.
OverridesOf(rules, S, overrides) ==
    /\ PairList(overrides)
    /\ \A i \in S : \E j \in DOMAIN overrides : overrides[j].column = Trim(rules[i].column)
    /\ \A j \in DOMAIN overrides : \E i \in LastSpelled(rules, S) : overrides[j] = ValueOf(rules[i])

LEMMA SetterNext ==
    ASSUME NEW rules, NEW n \in Nat, NEW S, S \subseteq 1 .. n, NEW s, OverridesOf(rules, S, s),
           NEW t, t = Override(s, Trim(rules[n + 1].column), rules[n + 1].value)
    PROVE  OverridesOf(rules, S \cup {n + 1}, t)
<1> DEFINE c == Trim(rules[n + 1].column)
           v == rules[n + 1].value
           T == S \cup {n + 1}
<1>1. /\ PairList(t)
      /\ \E j \in DOMAIN t : t[j].column = c
      /\ \A j \in DOMAIN s : j \in DOMAIN t /\ t[j].column = s[j].column
      /\ \A j \in DOMAIN t : \/ t[j] = [column |-> c, value |-> v]
                             \/ j \in DOMAIN s /\ t[j] = s[j] /\ s[j].column # c
  BY OverrideEffect DEF OverridesOf
<1>2. ASSUME NEW i \in T PROVE \E j \in DOMAIN t : t[j].column = Trim(rules[i].column)
  <2>1. CASE i \in S
    <3>1. PICK j \in DOMAIN s : s[j].column = Trim(rules[i].column)
      BY <2>1 DEF OverridesOf
    <3> QED
      BY <1>1, <3>1
  <2>2. CASE i = n + 1
    BY <1>1, <2>2
  <2> QED
    BY <2>1, <2>2
<1>3. n + 1 \in LastSpelled(rules, T)
  <2>1. \A j \in T : j <= n + 1
    OBVIOUS
  <2> QED
    BY <2>1 DEF LastSpelled
<1>4. ASSUME NEW i \in LastSpelled(rules, S), Trim(rules[i].column) # c
      PROVE  i \in LastSpelled(rules, T)
  BY <1>4 DEF LastSpelled
<1>5. ASSUME NEW j \in DOMAIN t PROVE \E i \in LastSpelled(rules, T) : t[j] = ValueOf(rules[i])
  <2>1. CASE t[j] = [column |-> c, value |-> v]
    BY <1>3, <2>1 DEF ValueOf
  <2>2. CASE j \in DOMAIN s /\ t[j] = s[j] /\ s[j].column # c
    <3>1. PICK i \in LastSpelled(rules, S) : s[j] = ValueOf(rules[i])
      BY <2>2 DEF OverridesOf
    <3>2. Trim(rules[i].column) = s[j].column
      BY <3>1 DEF ValueOf
    <3> QED
      BY <1>4, <2>2, <3>1, <3>2
  <2> QED
    BY <1>1, <2>1, <2>2
<1> QED
  BY <1>1, <1>2, <1>5 DEF OverridesOf

\* The set of the last of the rules in S.
SetOf(rules, S) == IF S = {} THEN None ELSE rules[LastOf(S)].set

LEMMA LastOfNext ==
    ASSUME NEW n \in Nat, NEW S, S \subseteq 1 .. n
    PROVE  LastOf(S \cup {n + 1}) = n + 1
<1>1. \A i \in S \cup {n + 1} : i <= n + 1 /\ i \in Int
  OBVIOUS
<1>2. \A i \in S \cup {n + 1} : (\A j \in S \cup {n + 1} : j <= i) <=> i = n + 1
  BY <1>1
<1> QED
  BY <1>2 DEF LastOf

\* After n rules the loop has what the resolution order says of those n,
\* unless one of them excludes the row.
LoopState(rules, resolve, n, acc) ==
    /\ LoopFields(acc) /\ PairList(acc.overrides)
    /\ acc.excluded <=> FiredBy(rules, resolve, "EXCLUDE", n) # {}
    /\ ~acc.excluded =>
         /\ acc.listed <=> FiredBy(rules, resolve, "INCLUDE_ONLY", n) # {}
         /\ OverridesOf(rules, FiredBy(rules, resolve, "SET_VALUE", n), acc.overrides)
         /\ acc.set = SetOf(rules, FiredBy(rules, resolve, "USE_MAPPING_SET", n))

LEMMA LoopStateNext ==
    ASSUME NEW rules, rules \in Seq(Range(rules)), NEW resolve, NEW n \in 0 .. Len(rules) - 1,
           ValidRule(rules[n + 1]), NEW acc, LoopState(rules, resolve, n, acc),
           NEW new, new = RuleTurn(acc, rules[n + 1], n + 1, resolve)
    PROVE  LoopState(rules, resolve, n + 1, new)
<1> DEFINE rule == rules[n + 1]
           F(action) == FiredBy(rules, resolve, action, n)
           G(action) == FiredBy(rules, resolve, action, n + 1)
<1>1. /\ LoopFields(new)
      /\ acc.excluded \/ ~RuleFires(rule, resolve) => new = acc
      /\ ~acc.excluded /\ RuleFires(rule, resolve) =>
           /\ new.excluded <=> rule.action = "EXCLUDE"
           /\ new.listed <=> acc.listed \/ rule.action = "INCLUDE_ONLY"
           /\ new.overrides = IF rule.action = "SET_VALUE"
                              THEN Override(acc.overrides, Trim(rule.column), rule.value)
                              ELSE acc.overrides
           /\ new.set = IF rule.action = "USE_MAPPING_SET" THEN rule.set ELSE acc.set
  BY TurnEffect DEF LoopState
<1>2. \A action : G(action) = F(action) \cup
         (IF RuleFires(rule, resolve) /\ rule.action = action THEN {n + 1} ELSE {})
  BY FiredNext
<1>3. n \in Nat /\ \A action : F(action) \subseteq 1 .. n
  <2>1. n \in Nat
    OBVIOUS
  <2> QED
    BY <2>1, FiredBounds
<1>4. /\ LoopFields(acc) /\ PairList(acc.overrides)
      /\ acc.excluded <=> F("EXCLUDE") # {}
      /\ ~acc.excluded =>
            /\ acc.listed <=> F("INCLUDE_ONLY") # {}
            /\ OverridesOf(rules, F("SET_VALUE"), acc.overrides)
            /\ acc.set = SetOf(rules, F("USE_MAPPING_SET"))
  BY DEF LoopState
<1> HIDE DEF rule, F, G
<1>5. /\ PairList(new.overrides)
      /\ new.excluded <=> G("EXCLUDE") # {}
      /\ ~new.excluded =>
            /\ new.listed <=> G("INCLUDE_ONLY") # {}
            /\ OverridesOf(rules, G("SET_VALUE"), new.overrides)
            /\ new.set = SetOf(rules, G("USE_MAPPING_SET"))
  <2>1. CASE acc.excluded
    <3>1. F("EXCLUDE") \subseteq G("EXCLUDE")
      BY <1>2
    <3> QED
      BY <1>1, <1>4, <2>1, <3>1
  <2>2. CASE ~acc.excluded /\ ~RuleFires(rule, resolve)
    <3>1. \A action : G(action) = F(action)
      BY <1>2, <2>2
    <3> QED
      BY <1>1, <1>4, <2>2, <3>1
  <2>3. CASE ~acc.excluded /\ RuleFires(rule, resolve)
    <3>1. \A action : G(action) = IF rule.action = action THEN F(action) \cup {n + 1} ELSE F(action)
      BY <1>2, <2>3
    <3>2. new.excluded <=> G("EXCLUDE") # {}
      BY <1>1, <1>4, <2>3, <3>1
    <3>3. new.listed <=> G("INCLUDE_ONLY") # {}
      BY <1>1, <1>4, <2>3, <3>1
    <3>4. OverridesOf(rules, G("SET_VALUE"), new.overrides)
      <4>1. CASE rule.action = "SET_VALUE"
        <5>1. /\ G("SET_VALUE") = F("SET_VALUE") \cup {n + 1}
              /\ new.overrides = Override(acc.overrides, Trim(rules[n + 1].column), rules[n + 1].value)
          BY <1>1, <2>3, <3>1, <4>1 DEF rule
        <5>2. OverridesOf(rules, F("SET_VALUE"), acc.overrides) /\ F("SET_VALUE") \subseteq 1 .. n
          BY <1>3, <1>4, <2>3
        <5>3. \A t : t = Override(acc.overrides, Trim(rules[n + 1].column), rules[n + 1].value)
                 => OverridesOf(rules, F("SET_VALUE") \cup {n + 1}, t)
          BY <1>3, <5>2, SetterNext
        <5> QED
          BY <5>1, <5>3
      <4>2. CASE rule.action # "SET_VALUE"
        BY <1>1, <1>4, <2>3, <3>1, <4>2
      <4> QED
        BY <4>1, <4>2
    <3>5. new.set = SetOf(rules, G("USE_MAPPING_SET"))
      <4>1. CASE rule.action = "USE_MAPPING_SET"
        <5>1. /\ G("USE_MAPPING_SET") = F("USE_MAPPING_SET") \cup {n + 1}
              /\ new.set = rules[n + 1].set
          BY <1>1, <2>3, <3>1, <4>1 DEF rule
        <5>2. LastOf(G("USE_MAPPING_SET")) = n + 1
          BY <1>3, <5>1, LastOfNext
        <5> QED
          BY <5>1, <5>2 DEF SetOf
      <4>2. CASE rule.action # "USE_MAPPING_SET"
        BY <1>1, <1>4, <2>3, <3>1, <4>2
      <4> QED
        BY <4>1, <4>2
    <3> QED
      BY <3>2, <3>3, <3>4, <3>5 DEF OverridesOf
  <2> QED
    BY <2>1, <2>2, <2>3
<1> QED
  BY <1>1, <1>5 DEF LoopState, G

\* evaluateRules, for any list of rules that validateRule lets through.
LEMMA RulesComputed ==
    ASSUME NEW rules, rules \in Seq(Range(rules)), \A rule \in Range(rules) : ValidRule(rule),
           NEW resolve
    PROVE  LoopState(rules, resolve, Len(rules), AfterRules(rules, resolve))
<1>1. Len(rules) \in Nat /\ DOMAIN rules = 1 .. Len(rules)
  OBVIOUS
<1>2. PICK g : /\ AfterRules(rules, resolve) = g[Len(rules)]
               /\ \A i \in 0 .. Len(rules) : g[i] = RuleLoop(g, rules, resolve, i)
  BY <1>1, RuleLoopUnfolds
<1> DEFINE S == {i \in 0 .. Len(rules) : LoopState(rules, resolve, i, g[i])}
<1>3. 0 \in S
  <2>1. g[0] = NothingYet
    BY <1>1, <1>2 DEF RuleLoop
  <2>2. \A action : FiredBy(rules, resolve, action, 0) = {}
    BY FiredBounds
  <2>3. /\ LoopFields(g[0]) /\ g[0].overrides = <<>> /\ g[0].excluded = FALSE
        /\ g[0].listed = FALSE /\ g[0].set = None
    BY <2>1 DEF LoopFields, NothingYet
  <2>4. PairList(<<>>) /\ DOMAIN <<>> = {}
    BY DEF PairList
  <2>5. OverridesOf(rules, {}, <<>>)
    BY <2>4 DEF OverridesOf
  <2>6. LoopState(rules, resolve, 0, g[0])
    BY <2>2, <2>3, <2>4, <2>5 DEF LoopState, SetOf
  <2> QED
    BY <1>1, <2>6
<1>4. ASSUME NEW i \in 0 .. Len(rules) - 1, i \in S PROVE i + 1 \in S
  <2>1. i + 1 \in 0 .. Len(rules) /\ i + 1 # 0 /\ i + 1 - 1 = i /\ i + 1 \in DOMAIN rules
    BY <1>1
  <2>2. g[i + 1] = RuleTurn(g[i], rules[i + 1], i + 1, resolve)
    <3>1. g[i + 1] = RuleLoop(g, rules, resolve, i + 1)
      BY <1>2, <2>1
    <3> QED
      BY <2>1, <3>1 DEF RuleLoop
  <2>3. ValidRule(rules[i + 1])
    BY <2>1 DEF Range
  <2>4. LoopState(rules, resolve, i, g[i])
    BY <1>4
  <2>5. LoopState(rules, resolve, i + 1, g[i + 1])
    BY <2>2, <2>3, <2>4, LoopStateNext
  <2> QED
    BY <2>1, <2>5
<1> HIDE DEF S
<1>5. \A i \in 0 .. Len(rules) : i \in S
  BY <1>1, <1>3, <1>4, TurnInduction
<1>6. Len(rules) \in S
  BY <1>1, <1>5
<1> QED
  BY <1>2, <1>6 DEF S

-----------------------------------------------------------------------------
(* Which mappings write, and the cells of a row.                           *)

LEMMA CompiledMappings ==
    ASSUME NEW mappings, mappings \in Seq(Range(mappings))
    PROVE  compileMappings(mappings) \in Seq({m \in Range(mappings) : Compiles(m)})
<1> DEFINE T == {m \in Range(mappings) : Compiles(m)}
<1>1. Len(mappings) \in Nat /\ DOMAIN mappings = 1 .. Len(mappings)
  OBVIOUS
<1>2. PICK g : /\ compileMappings(mappings) = g[Len(mappings)]
               /\ \A i \in 0 .. Len(mappings) : g[i] = CompileLoop(g, mappings, i)
  BY <1>1, CompileLoopUnfolds
<1> DEFINE S == {i \in 0 .. Len(mappings) : g[i] \in Seq(T)}
<1>3. 0 \in S
  <2>1. g[0] = <<>>
    BY <1>1, <1>2 DEF CompileLoop
  <2> HIDE DEF T
  <2>2. g[0] \in Seq(T)
    <3>1. <<>> \in Seq(T)
      OBVIOUS
    <3> QED
      BY <2>1, <3>1
  <2>3. 0 \in 0 .. Len(mappings)
    BY <1>1
  <2> QED
    BY <2>2, <2>3
<1>4. ASSUME NEW i \in 0 .. Len(mappings) - 1, i \in S PROVE i + 1 \in S
  <2>1. i + 1 \in 0 .. Len(mappings) /\ i + 1 # 0 /\ i + 1 - 1 = i /\ i + 1 \in DOMAIN mappings
    BY <1>1
  <2>2. g[i + 1] = IF Compiles(mappings[i + 1]) THEN Append(g[i], mappings[i + 1]) ELSE g[i]
    <3>1. g[i + 1] = CompileLoop(g, mappings, i + 1)
      BY <1>2, <2>1
    <3> QED
      BY <2>1, <3>1 DEF CompileLoop
  <2>3. Compiles(mappings[i + 1]) => mappings[i + 1] \in T
    BY <2>1 DEF Range
  <2>4. g[i] \in Seq(T)
    BY <1>4
  <2> HIDE DEF T
  <2>5. g[i + 1] \in Seq(T)
    BY <2>2, <2>3, <2>4, AppendProperties
  <2> QED
    BY <2>1, <2>5
<1> HIDE DEF S
<1>5. \A i \in 0 .. Len(mappings) : i \in S
  BY <1>1, <1>3, <1>4, TurnInduction
<1>6. Len(mappings) \in S
  BY <1>1, <1>5
<1> QED
  BY <1>2, <1>6 DEF S

ColumnsOf(s) == {s[j].column : j \in DOMAIN s}

LEMMA CellsMapped ==
    ASSUME NEW mappings, NEW T, mappings \in Seq(T), NEW row
    PROVE  /\ PairList(MappedCells(mappings, row))
           /\ ColumnsOf(MappedCells(mappings, row)) = {columnOf(m.column) : m \in Range(mappings)}
           /\ \A c : NamedOnce(mappings, c) => Single(MappedCells(mappings, row), c)
<1> DEFINE t == MappedCells(mappings, row)
<1>1. Len(mappings) \in Nat /\ DOMAIN mappings = 1 .. Len(mappings)
  OBVIOUS
<1>2. t = [i \in 1 .. Len(mappings) |->
             [column |-> columnOf(mappings[i].column), value |-> resolveCell(mappings[i], row)]]
  BY <1>1 DEF MappedCells
<1>3. \A i \in 1 .. Len(mappings) :
         /\ t[i] = [column |-> t[i].column, value |-> t[i].value]
         /\ t[i].column = columnOf(mappings[i].column)
  BY <1>2
<1>4. t = [i \in 1 .. Len(mappings) |-> t[i]] /\ DOMAIN t = 1 .. Len(mappings)
  BY <1>2
<1> HIDE DEF t
<1>5. PairList(t)
  BY <1>1, <1>3, <1>4, PairListMade
<1>6. ColumnsOf(t) = {columnOf(m.column) : m \in Range(mappings)}
  BY <1>1, <1>3, <1>4 DEF ColumnsOf, Range
<1>7. ASSUME NEW c, NamedOnce(mappings, c) PROVE Single(t, c)
  BY <1>1, <1>3, <1>4, <1>7 DEF NamedOnce, Single
<1> QED
  BY <1>5, <1>6, <1>7 DEF t

\* After n overrides a row has their columns too, each with the value of one
\* of them, and no more cells of a column than it had, but for a first one.
CellFor(ov) == [column |-> ColumnFor(ov), value |-> ov.value]
ColumnsUpTo(overrides, n) == {ColumnFor(overrides[i]) : i \in 1 .. n} \ {0}
CellsUpTo(cells, overrides, n, t) ==
    /\ PairList(t)
    /\ ColumnsOf(t) = ColumnsOf(cells) \cup ColumnsUpTo(overrides, n)
    /\ \A c \in ColumnsUpTo(overrides, n) : \E i \in 1 .. n :
          /\ ColumnFor(overrides[i]) = c
          /\ \E m \in DOMAIN t : t[m] = CellFor(overrides[i])
    /\ \A c : Single(cells, c) => Single(t, c)

LEMMA CellsNext ==
    ASSUME NEW cells, NEW overrides, NEW n \in Nat, 1 .. n + 1 \subseteq DOMAIN overrides,
           NEW s, CellsUpTo(cells, overrides, n, s),
           NEW t, t = IF ColumnFor(overrides[n + 1]) = 0 THEN s
                      ELSE SetCell(s, ColumnFor(overrides[n + 1]), overrides[n + 1].value)
    PROVE  CellsUpTo(cells, overrides, n + 1, t)
<1> DEFINE c == ColumnFor(overrides[n + 1])
           v == overrides[n + 1].value
<1>1. 1 .. n + 1 = 1 .. n \cup {n + 1} /\ 1 .. n \subseteq 1 .. n + 1 /\ n + 1 \in 1 .. n + 1
  OBVIOUS
<1>2. ColumnsUpTo(overrides, n + 1) = ColumnsUpTo(overrides, n) \cup ({c} \ {0})
  BY <1>1 DEF ColumnsUpTo
<1>3. CASE c = 0
  <2>1. t = s /\ ColumnsUpTo(overrides, n + 1) = ColumnsUpTo(overrides, n)
    BY <1>2, <1>3
  <2> QED
    BY <1>1, <2>1 DEF CellsUpTo
<1>4. CASE c # 0
  <2>1. t = SetCell(s, c, v) /\ PairList(s)
    BY <1>4 DEF CellsUpTo
  <2>2. /\ PairList(t)
        /\ \E j \in DOMAIN t : t[j] = [column |-> c, value |-> v]
        /\ \A j \in DOMAIN s : /\ j \in DOMAIN t /\ t[j].column = s[j].column
                               /\ s[j].column # c => t[j] = s[j]
        /\ \A j \in DOMAIN t : j \in DOMAIN s \/ t[j].column = c
        /\ \A d : Single(s, d) => Single(t, d)
    <3> HIDE DEF c, v
    <3> QED
      BY <2>1, SetCellEffect
  <2>3. ColumnsOf(t) = ColumnsOf(s) \cup {c}
    <3>1. PICK j \in DOMAIN t : t[j] = [column |-> c, value |-> v]
      BY <2>2
    <3>2. c \in ColumnsOf(t)
      BY <3>1 DEF ColumnsOf
    <3>3. ColumnsOf(s) \subseteq ColumnsOf(t) /\ ColumnsOf(t) \subseteq ColumnsOf(s) \cup {c}
      BY <2>2 DEF ColumnsOf
    <3> QED
      BY <3>2, <3>3
  <2>4. ColumnsOf(t) = ColumnsOf(cells) \cup ColumnsUpTo(overrides, n + 1)
    BY <1>2, <1>4, <2>3 DEF CellsUpTo
  <2>5. ASSUME NEW d \in ColumnsUpTo(overrides, n + 1)
        PROVE  \E i \in 1 .. n + 1 : /\ ColumnFor(overrides[i]) = d
                                     /\ \E m \in DOMAIN t : t[m] = CellFor(overrides[i])
    <3>1. CASE d = c
      BY <1>1, <2>2, <3>1 DEF CellFor
    <3>2. CASE d # c
      <4>1. d \in ColumnsUpTo(overrides, n)
        BY <1>2, <2>5, <3>2
      <4>2. PICK i \in 1 .. n : /\ ColumnFor(overrides[i]) = d
                                /\ \E m \in DOMAIN s : s[m] = CellFor(overrides[i])
        BY <4>1 DEF CellsUpTo
      <4>3. PICK m \in DOMAIN s : s[m] = CellFor(overrides[i])
        BY <4>2
      <4>4. s[m].column # c
        BY <3>2, <4>2, <4>3 DEF CellFor
      <4> QED
        BY <1>1, <2>2, <4>2, <4>3, <4>4
    <3> QED
      BY <3>1, <3>2
  <2>6. \A d : Single(cells, d) => Single(t, d)
    BY <2>2 DEF CellsUpTo
  <2> HIDE DEF c, v
  <2> QED
    BY <2>2, <2>4, <2>5, <2>6 DEF CellsUpTo
<1> QED
  BY <1>3, <1>4

LEMMA CellsOverridden ==
    ASSUME NEW cells, PairList(cells), NEW overrides, PairList(overrides)
    PROVE  CellsUpTo(cells, overrides, Len(overrides), Overridden(cells, overrides))
<1>1. Len(overrides) \in Nat /\ DOMAIN overrides = 1 .. Len(overrides)
  BY PairListDomain
<1>2. PICK g : /\ Overridden(cells, overrides) = g[Len(overrides)]
               /\ \A i \in 0 .. Len(overrides) : g[i] = OverrideLoop(g, cells, overrides, i)
  BY <1>1, OverrideLoopUnfolds
<1> DEFINE S == {i \in 0 .. Len(overrides) : CellsUpTo(cells, overrides, i, g[i])}
<1>3. 0 \in S
  <2>1. g[0] = cells
    BY <1>1, <1>2 DEF OverrideLoop
  <2>2. ColumnsUpTo(overrides, 0) = {}
    BY DEF ColumnsUpTo
  <2>3. CellsUpTo(cells, overrides, 0, g[0])
    BY <2>1, <2>2 DEF CellsUpTo
  <2> QED
    BY <1>1, <2>3
<1>4. ASSUME NEW i \in 0 .. Len(overrides) - 1, i \in S PROVE i + 1 \in S
  <2>1. /\ i + 1 \in 0 .. Len(overrides) /\ i + 1 # 0 /\ i + 1 - 1 = i /\ i \in Nat
        /\ 1 .. i + 1 \subseteq DOMAIN overrides
    BY <1>1
  <2>2. g[i + 1] = IF ColumnFor(overrides[i + 1]) = 0 THEN g[i]
                   ELSE SetCell(g[i], ColumnFor(overrides[i + 1]), overrides[i + 1].value)
    <3>1. g[i + 1] = OverrideLoop(g, cells, overrides, i + 1)
      BY <1>2, <2>1
    <3> QED
      BY <2>1, <3>1 DEF OverrideLoop
  <2>3. CellsUpTo(cells, overrides, i, g[i])
    BY <1>4
  <2>4. CellsUpTo(cells, overrides, i + 1, g[i + 1])
    BY <2>1, <2>2, <2>3, CellsNext
  <2> QED
    BY <2>1, <2>4
<1> HIDE DEF S
<1>5. \A i \in 0 .. Len(overrides) : i \in S
  BY <1>1, <1>3, <1>4, TurnInduction
<1>6. Len(overrides) \in S
  BY <1>1, <1>5
<1> QED
  BY <1>2, <1>6 DEF S

-----------------------------------------------------------------------------
(* A row as it is built.                                                   *)

\* RowsFollowRules, of one row.
RowFollowsRules(k, row) ==
    LET setters == Fires(k.rules, row.at, "SET_VALUE")
        chosen  == MappingsFor(k, PromisedSet(k.rules, row.at))
    IN  /\ row.include <=> PromisedInclude(k.rules, row.at)
        /\ row.include =>
            /\ {x.column : x \in Range(row.cells)} =
                  {columnOf(m.column) : m \in Range(chosen)}
                  \cup {c \in Columns : RulesFor(k.rules, setters, c) # {}}
            /\ \A c \in Columns : RulesFor(k.rules, setters, c) # {} =>
                 \E i \in LastSpelled(k.rules, RulesFor(k.rules, setters, c)) :
                    /\ [column |-> c, value |-> k.rules[i].value] \in Range(row.cells)
                    /\ NamedOnce(chosen, c) =>
                         \A x \in Range(row.cells) :
                            x.column = c => x.value = k.rules[i].value

CellsWellFormed(k, row) ==
    /\ row.cells \in Seq(Range(row.cells))
    /\ \A x \in Range(row.cells) : x.column \in NamedColumns(k)

LEMMA ChosenMappings ==
    ASSUME NEW k \in Configs, NEW set
    PROVE  LET chosen == MappingsFor(k, set)
               named  == Range(k.mappings) \cup UNION {Range(k.sets[s]) : s \in DOMAIN k.sets}
           IN  \E T : /\ chosen \in Seq(T)
                      /\ T \subseteq {m \in named : Compiles(m)}
<1> DEFINE from == IF set # None /\ set \in DOMAIN k.sets THEN k.sets[set] ELSE k.mappings
           T == {m \in Range(from) : Compiles(m)}
<1>1. from \in Seq(Range(from))
  BY RowSyncAssumption
<1>2. MappingsFor(k, set) = compileMappings(from)
  BY DEF MappingsFor
<1>3. Range(from) \subseteq Range(k.mappings) \cup UNION {Range(k.sets[s]) : s \in DOMAIN k.sets}
  OBVIOUS
<1> HIDE DEF from
<1>4. MappingsFor(k, set) \in Seq(T)
  BY <1>1, <1>2, CompiledMappings
<1>5. T \subseteq {m \in Range(k.mappings) \cup UNION {Range(k.sets[s]) : s \in DOMAIN k.sets} :
                     Compiles(m)}
  BY <1>3
<1> HIDE DEF T
<1> QED
  BY <1>4, <1>5

LEMMA ChosenColumns ==
    ASSUME NEW k \in Configs, NEW set
    PROVE  {columnOf(m.column) : m \in Range(MappingsFor(k, set))} \subseteq NamedColumns(k)
<1> DEFINE U == UNION {Range(k.sets[s]) : s \in DOMAIN k.sets}
           chosen == MappingsFor(k, set)
<1>1. PICK T : chosen \in Seq(T) /\ T \subseteq {m \in Range(k.mappings) \cup U : Compiles(m)}
  BY ChosenMappings
<1>2. SUFFICES ASSUME NEW m \in Range(chosen) PROVE columnOf(m.column) \in NamedColumns(k)
  OBVIOUS
<1>3. m \in T
  <2> HIDE DEF chosen
  <2> QED
    BY <1>1, <1>2 DEF Range
<1>4. columnOf(m.column) # 0
  BY <1>1, <1>3 DEF Compiles
<1>5. m \in Range(k.mappings) \/ \E s \in DOMAIN k.sets : m \in Range(k.sets[s])
  BY <1>1, <1>3
<1>6. CASE m \in Range(k.mappings)
  BY <1>4, <1>6 DEF NamedColumns
<1>7. CASE \E s \in DOMAIN k.sets : m \in Range(k.sets[s])
  BY <1>4, <1>7 DEF NamedColumns
<1> QED
  BY <1>5, <1>6, <1>7

LEMMA PromisedByRules ==
    ASSUME NEW k \in Configs, NEW resolve
    PROVE  LET S == Fires(k.rules, resolve, "SET_VALUE")
           IN  /\ S \subseteq DOMAIN k.rules /\ S \subseteq Int
               /\ \A i \in S : columnOf(k.rules[i].column) = ColumnFor(ValueOf(k.rules[i]))
               /\ PromisedSet(k.rules, resolve) =
                    SetOf(k.rules, Fires(k.rules, resolve, "USE_MAPPING_SET"))
<1> DEFINE S == Fires(k.rules, resolve, "SET_VALUE")
           M == Fires(k.rules, resolve, "USE_MAPPING_SET")
<1>1. k.rules \in Seq(Range(k.rules)) /\ \A rule \in Range(k.rules) : ValidRule(rule)
  BY RowSyncAssumption
<1>2. S \subseteq DOMAIN k.rules /\ DOMAIN k.rules \subseteq Int
  BY <1>1 DEF Fires
<1>3. ASSUME NEW i \in S PROVE columnOf(k.rules[i].column) = ColumnFor(ValueOf(k.rules[i]))
  <2>1. i \in DOMAIN k.rules /\ k.rules[i].action = "SET_VALUE"
    BY DEF Fires
  <2>2. ValidRule(k.rules[i])
    BY <1>1, <2>1 DEF Range
  <2>3. Trim(k.rules[i].column) # Empty
    BY <2>1, <2>2 DEF ValidRule
  <2> QED
    BY <2>3 DEF columnOf, ColumnFor, ValueOf
<1>4. {i \in M : k.rules[i].set # None} = M
  <2> SUFFICES ASSUME NEW i \in M PROVE k.rules[i].set # None
    OBVIOUS
  <2>1. i \in DOMAIN k.rules /\ k.rules[i].action = "USE_MAPPING_SET"
    BY DEF Fires
  <2>2. ValidRule(k.rules[i])
    BY <1>1, <2>1 DEF Range
  <2> QED
    BY <2>1, <2>2 DEF ValidRule
<1>5. PromisedSet(k.rules, resolve) = SetOf(k.rules, M)
  <2> HIDE DEF M
  <2> QED
    BY <1>4 DEF PromisedSet, SetOf, M
<1> QED
  BY <1>2, <1>3, <1>5

\* planSync's use of the outcome, for a row before its cells are resolved.
LEMMA RowResolved ==
    ASSUME NEW k \in Configs, NEW o, NEW r, NEW row,
           row = BuiltRow(k, o, r, EvaluateRules(k.rules, r.at))
    PROVE  RowFollowsRules(k, row) /\ (row.include => CellsWellFormed(k, row))
<1> DEFINE rules == k.rules
           acc == AfterRules(rules, r.at)
           outcome == EvaluateRules(rules, r.at)
           S == Fires(rules, r.at, "SET_VALUE")
           chosen == MappingsFor(k, PromisedSet(rules, r.at))
           cells == MappedCells(MappingsFor(k, acc.set), r)
<1>1. rules \in Seq(Range(rules)) /\ \A rule \in Range(rules) : ValidRule(rule)
  BY RowSyncAssumption
<1>2. LoopState(rules, r.at, Len(rules), acc)
  <2> HIDE DEF rules, acc
  <2> QED
    BY <1>1, RulesComputed DEF acc
<1>3. outcome = [include   |-> ~acc.excluded /\ (Whitelist(rules) => acc.listed),
                 overrides |-> acc.overrides, set |-> acc.set, matched |-> acc.matched]
  BY DEF EvaluateRules, RuleOutcome
<1>4. /\ row.at = r.at /\ row.include = (~acc.excluded /\ (Whitelist(rules) => acc.listed))
      /\ row.cells = Overridden(cells, acc.overrides)
  <2> HIDE DEF acc, outcome, rules
  <2>1. row = BuiltRow(k, o, r, outcome)
    BY DEF outcome, rules
  <2>2. /\ row.at = r.at /\ row.include = outcome.include
        /\ row.cells = Overridden(MappedCells(MappingsFor(k, outcome.set), r), outcome.overrides)
    BY <2>1 DEF BuiltRow, RowWith
  <2> QED
    BY <1>3, <2>2
<1>5. \A action : FiredBy(rules, r.at, action, Len(rules)) = Fires(rules, r.at, action)
  <2> HIDE DEF rules
  <2> QED
    BY <1>1, FiredBounds
<1>6. /\ acc.excluded <=> Fires(rules, r.at, "EXCLUDE") # {}
      /\ ~acc.excluded =>
           /\ acc.listed <=> Fires(rules, r.at, "INCLUDE_ONLY") # {}
           /\ OverridesOf(rules, S, acc.overrides)
           /\ acc.set = PromisedSet(rules, r.at)
  <2>1. PromisedSet(rules, r.at) = SetOf(rules, Fires(rules, r.at, "USE_MAPPING_SET"))
    BY PromisedByRules
  <2> HIDE DEF acc, rules
  <2> QED
    BY <1>2, <1>5, <2>1 DEF LoopState
<1>7. row.include <=> PromisedInclude(rules, row.at)
  <2> HIDE DEF acc, rules
  <2> QED
    BY <1>4, <1>6 DEF PromisedInclude
<1> DEFINE Set(c) == RulesFor(rules, S, c)
<1>8. ASSUME row.include
      PROVE  /\ PairList(row.cells)
             /\ {x.column : x \in Range(row.cells)} =
                   {columnOf(m.column) : m \in Range(chosen)} \cup {c \in Columns : Set(c) # {}}
             /\ \A c \in Columns : Set(c) # {} =>
                   \E i \in LastSpelled(rules, Set(c)) :
                      [column |-> c, value |-> rules[i].value] \in Range(row.cells)
             /\ \A c : NamedOnce(chosen, c) => Single(row.cells, c)
  <2> HIDE DEF acc
  <2> DEFINE ovs == acc.overrides
  <2>1. OverridesOf(rules, S, ovs) /\ acc.set = PromisedSet(rules, r.at)
    BY <1>4, <1>6, <1>8
  <2>2. /\ S \subseteq DOMAIN rules
        /\ \A i \in S : columnOf(rules[i].column) = ColumnFor(ValueOf(rules[i]))
    BY PromisedByRules
  <2> HIDE DEF rules
  <2>3. PairList(ovs)
    <3> HIDE DEF ovs, S
    <3> QED
      BY <2>1 DEF OverridesOf
  <2>4. /\ PairList(cells) /\ ColumnsOf(cells) = {columnOf(m.column) : m \in Range(chosen)}
        /\ \A c : NamedOnce(chosen, c) => Single(cells, c)
    <3>1. PICK T : chosen \in Seq(T)
      BY ChosenMappings DEF rules
    <3>2. cells = MappedCells(chosen, r)
      BY <2>1
    <3> HIDE DEF chosen, cells
    <3> QED
      BY <3>1, <3>2, CellsMapped
  <2>5. CellsUpTo(cells, ovs, Len(ovs), row.cells)
    <3> HIDE DEF cells
    <3> QED
      BY <1>4, <2>3, <2>4, CellsOverridden
  <2>6. DOMAIN ovs = 1 .. Len(ovs)
    BY <2>3, PairListDomain
  <2> HIDE DEF ovs, cells, chosen, S
  <2>7. ASSUME NEW j \in DOMAIN ovs
        PROVE  \E i \in LastSpelled(rules, S) : /\ ovs[j] = ValueOf(rules[i])
                                               /\ i \in Set(ColumnFor(ovs[j]))
    <3>1. PICK i \in LastSpelled(rules, S) : ovs[j] = ValueOf(rules[i])
      BY <2>1 DEF OverridesOf
    <3>2. i \in S
      BY DEF LastSpelled
    <3>3. columnOf(rules[i].column) = ColumnFor(ovs[j])
      BY <2>2, <3>1, <3>2
    <3> QED
      BY <3>1, <3>2, <3>3 DEF RulesFor
  <2>8. ASSUME NEW i \in S
        PROVE  \E j \in DOMAIN ovs : ColumnFor(ovs[j]) = columnOf(rules[i].column)
    <3>1. PICK j \in DOMAIN ovs : ovs[j].column = Trim(rules[i].column)
      BY <2>1 DEF OverridesOf
    <3>2. ColumnFor(ovs[j]) = ColumnFor(ValueOf(rules[i]))
      BY <3>1 DEF ColumnFor, ValueOf
    <3> QED
      BY <2>2, <3>2
  <2>9. ColumnsUpTo(ovs, Len(ovs)) = {c \in Columns : Set(c) # {}}
    <3>1. ASSUME NEW c \in ColumnsUpTo(ovs, Len(ovs)) PROVE c \in Columns /\ Set(c) # {}
      <4>1. PICK j \in DOMAIN ovs : c = ColumnFor(ovs[j]) /\ c # 0
        BY <2>6 DEF ColumnsUpTo
      <4>2. c \in Columns
        BY <4>1, ColumnByHeader DEF ColumnFor
      <4> QED
        BY <2>7, <4>1, <4>2
    <3>2. ASSUME NEW c \in Columns, Set(c) # {} PROVE c \in ColumnsUpTo(ovs, Len(ovs))
      <4>1. PICK i \in S : columnOf(rules[i].column) = c
        BY <3>2 DEF RulesFor
      <4>2. c # 0
        BY SomeColumns
      <4> QED
        BY <2>6, <2>8, <4>1, <4>2 DEF ColumnsUpTo
    <3> QED
      BY <3>1, <3>2
  <2>10. ASSUME NEW c \in Columns, Set(c) # {}
         PROVE  \E i \in LastSpelled(rules, Set(c)) :
                   [column |-> c, value |-> rules[i].value] \in Range(row.cells)
    <3>1. PICK j \in DOMAIN ovs : /\ ColumnFor(ovs[j]) = c
                                  /\ \E m \in DOMAIN row.cells : row.cells[m] = CellFor(ovs[j])
      BY <2>5, <2>6, <2>9, <2>10 DEF CellsUpTo
    <3>2. PICK i \in LastSpelled(rules, S) : ovs[j] = ValueOf(rules[i]) /\ i \in Set(c)
      BY <2>7, <3>1
    <3>3. i \in LastSpelled(rules, Set(c))
      <4>1. Set(c) \subseteq S
        BY DEF RulesFor
      <4> QED
        BY <3>2, <4>1 DEF LastSpelled
    <3>4. CellFor(ovs[j]) = [column |-> c, value |-> rules[i].value]
      BY <3>1, <3>2 DEF CellFor, ValueOf
    <3> QED
      BY <3>1, <3>3, <3>4 DEF Range
  <2>11. {x.column : x \in Range(row.cells)} = ColumnsOf(row.cells)
    BY DEF ColumnsOf, Range
  <2> QED
    BY <2>4, <2>5, <2>9, <2>10, <2>11 DEF CellsUpTo
<1>9. RowFollowsRules(k, row)
  <2>1. ASSUME row.include, NEW c \in Columns, Set(c) # {}
        PROVE  \E i \in LastSpelled(rules, Set(c)) :
                  /\ [column |-> c, value |-> rules[i].value] \in Range(row.cells)
                  /\ NamedOnce(chosen, c) =>
                       \A x \in Range(row.cells) : x.column = c => x.value = rules[i].value
    <3> HIDE DEF chosen, S, rules
    <3>1. PICK i \in LastSpelled(rules, Set(c)) :
                 [column |-> c, value |-> rules[i].value] \in Range(row.cells)
      BY <1>8, <2>1
    <3>2. PICK n \in DOMAIN row.cells : row.cells[n] = [column |-> c, value |-> rules[i].value]
      BY <3>1 DEF Range
    <3>3. ASSUME NamedOnce(chosen, c), NEW m \in DOMAIN row.cells, row.cells[m].column = c
          PROVE  row.cells[m].value = rules[i].value
      <4>1. Single(row.cells, c)
        BY <1>8, <2>1, <3>3
      <4>2. m = n
        BY <3>2, <3>3, <4>1 DEF Single
      <4> QED
        BY <3>2, <4>2
    <3> QED
      BY <3>1, <3>3 DEF Range
  <2>2. chosen = MappingsFor(k, PromisedSet(rules, row.at)) /\ S = Fires(rules, row.at, "SET_VALUE")
    BY <1>4
  <2> HIDE DEF chosen, S
  <2> QED
    BY <1>7, <1>8, <2>1, <2>2 DEF RowFollowsRules
<1>10. ASSUME row.include PROVE CellsWellFormed(k, row)
  <2>1. row.cells \in Seq(Range(row.cells))
    BY <1>8, <1>10, PairListDomain
  <2>2. {columnOf(m.column) : m \in Range(chosen)} \subseteq NamedColumns(k)
    BY ChosenColumns
  <2>3. ASSUME NEW c \in Columns, Set(c) # {} PROVE c \in NamedColumns(k)
    <3>1. PICK i \in S : columnOf(rules[i].column) = c
      BY <2>3 DEF RulesFor
    <3>2. rules[i] \in Range(rules)
      BY PromisedByRules DEF Range
    <3>3. c # 0
      BY SomeColumns
    <3> QED
      BY <3>1, <3>2, <3>3 DEF NamedColumns
  <2>4. {x.column : x \in Range(row.cells)} \subseteq NamedColumns(k)
    <3> HIDE DEF chosen, S, rules, Set
    <3> QED
      BY <1>8, <1>10, <2>2, <2>3
  <2> QED
    BY <2>1, <2>4 DEF CellsWellFormed
<1> QED
  BY <1>9, <1>10

LEMMA RowOfTable ==
    ASSUME NEW k \in Configs, NEW o \in Orders, NEW content \in Contents[o],
           NEW row \in Range(RowTable[k][o][content])
    PROVE  \E r : row = BuiltRow(k, o, r, EvaluateRules(k.rules, r.at))
<1> DEFINE rows == RowsOfOrder(k, o, content)
<1>1. RowTable[k][o][content] = rows
  BY RowSyncAssumption DEF Orders
<1>2. rows = RowsOfPayload(k, o, WithShipment(content))
  BY DEF RowsOfOrder
<1> HIDE DEF rows
<1>3. row \in Range(rows)
  BY <1>1
<1>4. CASE rows = <<>>
  BY <1>3, <1>4 DEF Range
<1>5. CASE rows # <<>>
  BY <1>2, <1>3, <1>5 DEF Range, RowsOfPayload
<1> QED
  BY <1>4, <1>5


\* A row that no rule leaves out has cells of its configuration's columns.
LEMMA RowsAsConfigured ==
    \A k \in Configs, o \in Orders : \A row \in RowsFor(k, o) : CellsWellFormed(k, row)
<1> SUFFICES ASSUME NEW k \in Configs, NEW o \in Orders, NEW row \in RowsFor(k, o)
             PROVE  CellsWellFormed(k, row)
  OBVIOUS
<1>1. PICK content \in Contents[o] : row \in Range(RowTable[k][o][content]) /\ row.include
  BY DEF RowsFor
<1> QED
  BY <1>1, RowOfTable, RowResolved

-----------------------------------------------------------------------------
(* The invariant behind ModeRespected.                                     *)

Grid(s) == s = [r \in RowNums |-> [c \in Columns |-> s[r][c]]]
RunFields == {"phase", "mode", "before", "owned", "plan", "left", "batch", "ranges"}

TypeOK ==
    /\ config \in Configs
    /\ DOMAIN store = Orders
    /\ \A o \in Orders : store[o] = None \/ store[o] \in Contents[o]
    /\ Grid(sheet)
    /\ owner = [r \in RowNums |-> owner[r]]
    /\ DOMAIN run = RunFields

\* The targets of a plan: blank rows for what is new, others for what is not.
TargetsFit ==
    /\ Grid(run.before)
    /\ \A row \in run.plan :
          /\ row.target \in RowNums
          /\ run.mode = "APPEND" => Unused(run.before[row.target])
          /\ run.mode = "UPDATE" => ~Unused(run.before[row.target])

\* A range is a part of a planned row.
PartOf(g, row) ==
    g.target = row.target /\ g.order = row.order /\ g.cells \subseteq Range(row.cells)
OnItsWay ==
    /\ run.left \subseteq run.plan /\ run.batch \subseteq run.plan
    /\ \A g \in run.ranges : \E row \in run.plan : PartOf(g, row)

\* Rows that nothing was planned for are as they were.
OthersWait ==
    \A r \in RowNums : sheet[r] = run.before[r] \/ \E row \in run.plan : row.target = r

RunInv == ~Idle => TargetsFit /\ OnItsWay /\ OthersWait

LEMMA InitRun == Init => TypeOK /\ RunInv
  BY DEF Init, TypeOK, RunInv, Idle, NoRun, Grid, RunFields, BlankRow

-----------------------------------------------------------------------------
(* A plan.                                                                 *)

LEMMA BuiltIsSeq ==
    ASSUME TypeOK, NEW o \in Orders, store[o] # None
    PROVE  Built(o) \in Seq(Range(Built(o)))
  BY RowSyncAssumption DEF TypeOK, Built, Orders

LEMMA PlannedFinite ==
    ASSUME TypeOK, NEW W \in SUBSET Orders, \A o \in W : store[o] # None
    PROVE  IsFiniteSet(PlannedRows(W))
<1> DEFINE I == {x \in DOMAIN OrderList : OrderList[x] \in W}
           J(i) == {x \in DOMAIN Built(OrderList[i]) : Built(OrderList[i])[x].include}
           f(i) == [j \in J(i) |-> PlannedRow(i, j)]
           G(i) == {f(i)[j] : j \in J(i)}
           F == [i \in I |-> G(i)]
<1>1. IsFiniteSet(I)
  <2>1. DOMAIN OrderList = 1 .. Len(OrderList) /\ Len(OrderList) \in Nat
    BY RowSyncAssumption
  <2>2. I \in SUBSET (1 .. Len(OrderList)) /\ IsFiniteSet(1 .. Len(OrderList))
    BY <2>1, FS_Interval
  <2> QED
    BY <2>2, FS_Subset
<1>2. ASSUME NEW i \in I PROVE IsFiniteSet(G(i))
  <2>1. Built(OrderList[i]) \in Seq(Range(Built(OrderList[i])))
    <3>1. OrderList[i] \in Orders /\ store[OrderList[i]] # None
      OBVIOUS
    <3> QED
      BY <3>1, BuiltIsSeq
  <2>2. DOMAIN Built(OrderList[i]) = 1 .. Len(Built(OrderList[i]))
        /\ Len(Built(OrderList[i])) \in Nat
    BY <2>1
  <2>3. IsFiniteSet(J(i))
    <3>1. /\ J(i) \in SUBSET (1 .. Len(Built(OrderList[i])))
          /\ IsFiniteSet(1 .. Len(Built(OrderList[i])))
      BY <2>2, FS_Interval
    <3> QED
      BY <3>1, FS_Subset
  <2>4. J(i) \subseteq DOMAIN f(i)
    OBVIOUS
  <2> HIDE DEF J, f
  <2> QED
    BY <2>3, <2>4, ImageFinite
<1>3. IsFiniteSet({F[i] : i \in I})
  BY <1>1, ImageFinite
<1>4. IsFiniteSet(UNION {F[i] : i \in I})
  <2>1. \A T \in {F[i] : i \in I} : IsFiniteSet(T)
    BY <1>2
  <2> HIDE DEF F
  <2> QED
    BY <1>3, <2>1, FS_UNION
<1>5. PlannedRows(W) = UNION {F[i] : i \in I}
  <2>1. \A i \in I : F[i] = {PlannedRow(i, j) : j \in J(i)}
    OBVIOUS
  <2>2. PlannedRows(W) = UNION {{PlannedRow(i, j) : j \in J(i)} : i \in I}
    BY DEF PlannedRows
  <2> HIDE DEF F, I, J
  <2> QED
    BY <2>1, <2>2
<1> QED
  BY <1>4, <1>5

LEMMA RowOfKeyFound ==
    ASSUME NEW key
    PROVE  /\ RowOfKey(key) # 0 => /\ RowOfKey(key) \in KeyedRows
                                   /\ KeyIn(RowOfKey(key)) = key
           /\ RowOfKey(key) = 0 => \A r \in KeyedRows : KeyIn(r) # key
<1> DEFINE rows == {r \in KeyedRows : KeyIn(r) = key}
<1>1. rows \subseteq RowNums
  BY DEF KeyedRows
<1>2. rows # {} => \E i \in rows : \A j \in rows : i <= j
  <2> HIDE DEF rows
  <2>1. rows \subseteq Int /\ IsFiniteSet(rows)
    BY <1>1, SomeRows
  <2> QED
    BY <2>1, FirstOfSet
<1>3. rows # {} => RowOfKey(key) \in rows
  BY <1>2 DEF RowOfKey
<1>4. rows = {} => RowOfKey(key) = 0
  BY DEF RowOfKey
<1>5. 0 \notin rows
  BY <1>1, SomeRows
<1> QED
  BY <1>3, <1>4, <1>5

LEMMA NextRowIsFree ==
    /\ NextRow \in Nat
    /\ \A r \in KeyedRows \cup UsedRows : r < NextRow
<1> DEFINE S == KeyedRows \cup UsedRows
<1>1. S \subseteq RowNums
  BY DEF KeyedRows, UsedRows
<1> HIDE DEF S
<1>2. S \subseteq Int /\ (\A r \in S : r > 0) /\ IsFiniteSet(S)
  BY <1>1, SomeRows
<1>3. S # {} => LastOf(S) \in S /\ \A r \in S : r <= LastOf(S)
  BY <1>2, LastOfSet
<1>4. Highest(S) \in Nat /\ \A r \in S : r <= Highest(S)
  <2>1. CASE S = {}
    BY <2>1 DEF Highest
  <2>2. CASE S # {}
    <3>1. Highest(S) = LastOf(S)
      BY <2>2 DEF Highest
    <3>2. LastOf(S) \in Int /\ LastOf(S) > 0
      BY <1>2, <1>3, <2>2
    <3> QED
      BY <1>3, <2>2, <3>1, <3>2
  <2> QED
    BY <2>1, <2>2
<1> QED
  BY <1>2, <1>4 DEF NextRow, S

\* What a run that starts has planned: the rows of some orders, and what of
\* them is to be written.
Planned(W, rows, mode) ==
    /\ W \subseteq Orders /\ \A o \in W : store[o] # None
    /\ rows = PlannedRows(W) /\ ~Blocked(rows)
    /\ \A row \in Writable(rows, mode) : row.target \in RowNums
    /\ run' = [NoRun EXCEPT !.phase = "batch", !.mode = mode, !.before = sheet,
                            !.owned = owner, !.plan = Writable(rows, mode),
                            !.left = Writable(rows, mode)]
    /\ UNCHANGED <<store, config, sheet, link, owner, changes, edits>>

LEMMA StartPlans ==
    ASSUME NEW W \in SUBSET Orders, NEW targeted \in BOOLEAN, StartRun(W, targeted)
    PROVE  \E rows, mode : Planned(W, rows, mode)
<1> DEFINE rows == PlannedRows(W)
<1>1. PICK mode \in config.modes : \E todo \in {Writable(rows, mode)} :
            /\ ~Blocked(rows) /\ todo # {}
            /\ \A row \in todo : row.target \in RowNums
            /\ run' = [NoRun EXCEPT !.phase = "batch", !.mode = mode, !.before = sheet,
                                    !.owned = owner, !.plan = todo, !.left = todo]
  <2> HIDE DEF rows
  <2>1. \E x \in {rows} : \E mode \in config.modes : \E todo \in {Writable(x, mode)} :
            /\ ~Blocked(x) /\ todo # {}
            /\ \A row \in todo : row.target \in RowNums
            /\ run' = [NoRun EXCEPT !.phase = "batch", !.mode = mode, !.before = sheet,
                                    !.owned = owner, !.plan = todo, !.left = todo]
    BY Zenon DEF StartRun, rows
  <2> QED
    BY <2>1
<1>2. \A o \in W : store[o] # None
  BY DEF StartRun
<1>3. UNCHANGED <<store, config, sheet, link, owner, changes, edits>>
  BY DEF StartRun
<1>4. Planned(W, rows, mode)
  <2> HIDE DEF rows
  <2> QED
    BY <1>1, <1>2, <1>3 DEF Planned, rows
<1> QED
  BY <1>4

\* A planned row, and the place it was given.
Placed(x, r, mode) ==
    \/ /\ ActionOf(x, mode) = "UPDATE" /\ mode # "APPEND"
       /\ r \in KeyedRows /\ KeyIn(r) = x.key /\ r < NextRow
    \/ /\ ActionOf(x, mode) = "INSERT" /\ mode # "UPDATE"
       /\ r \notin KeyedRows \cup UsedRows /\ NextRow <= r
       /\ \A s \in KeyedRows : KeyIn(s) # x.key
LEMMA PlaceOf ==
    ASSUME TypeOK, NEW W, NEW rows, NEW mode, Planned(W, rows, mode),
           NEW x \in rows, ActionOf(x, mode) \in {"INSERT", "UPDATE"},
           TargetOf(x, rows, mode) \in RowNums
    PROVE  Placed(x, TargetOf(x, rows, mode), mode)
<1> DEFINE r == TargetOf(x, rows, mode)
           S == {y \in rows : ActionOf(y, mode) = "INSERT" /\ Before(y.at, x.at)}
<1>1. CASE ActionOf(x, mode) = "UPDATE"
  <2>1. RowOfKey(x.key) # 0 /\ mode # "APPEND"
    BY <1>1 DEF ActionOf
  <2>2. r = RowOfKey(x.key)
    BY <1>1 DEF TargetOf
  <2>3. r \in KeyedRows /\ KeyIn(r) = x.key
    BY <2>1, <2>2, RowOfKeyFound
  <2>4. r < NextRow
    BY <2>3, NextRowIsFree
  <2>5. Placed(x, r, mode)
    <3> HIDE DEF r
    <3> QED
      BY <1>1, <2>1, <2>3, <2>4 DEF Placed
  <2> QED
    BY <2>5
<1>2. CASE ActionOf(x, mode) = "INSERT"
  <2>1. RowOfKey(x.key) = 0 /\ mode # "UPDATE"
    BY <1>2 DEF ActionOf
  <2>2. r = NextRow + Cardinality(S)
    BY <1>2 DEF TargetOf
  <2>3. Cardinality(S) \in Nat
    <3>1. IsFiniteSet(rows)
      BY PlannedFinite DEF Planned
    <3>2. S \in SUBSET rows
      OBVIOUS
    <3> HIDE DEF S
    <3> QED
      BY <3>1, <3>2, FS_Subset, FS_CardinalityType
  <2>4. NextRow <= r
    <3> HIDE DEF S, r
    <3> QED
      BY <2>2, <2>3, NextRowIsFree
  <2>5. r \notin KeyedRows \cup UsedRows
    <3> HIDE DEF r
    <3> QED
      BY <2>4, NextRowIsFree, SomeRows DEF KeyedRows, UsedRows
  <2>6. \A s \in KeyedRows : KeyIn(s) # x.key
    BY <2>1, RowOfKeyFound
  <2>7. Placed(x, r, mode)
    <3> HIDE DEF r
    <3> QED
      BY <1>2, <2>1, <2>4, <2>5, <2>6 DEF Placed
  <2> QED
    BY <2>7
<1> QED
  BY <1>1, <1>2

\* The key column is one of the sheet, and mapped.
LEMMA KeyColumnMapped ==
    ASSUME NEW rows, ~Blocked(rows)
    PROVE  /\ columnOf(config.key) \in Columns
           /\ columnOf(config.key) \in WritePlan(config.mappings).mapped
  BY ColumnOfHeader DEF Blocked

LEMMA StartRunInv ==
    ASSUME TypeOK, NEW W, NEW rows, NEW mode, Planned(W, rows, mode)
    PROVE  RunInv'
<1> DEFINE todo == Writable(rows, mode)
<1>1. /\ run'.before = sheet /\ run'.plan = todo /\ run'.left = todo /\ run'.batch = {}
      /\ run'.ranges = {} /\ run'.mode = mode /\ sheet' = sheet
  BY DEF Planned, NoRun
<1>2. ASSUME NEW row \in todo
      PROVE  /\ row.target \in RowNums
             /\ mode = "APPEND" => Unused(sheet[row.target])
             /\ mode = "UPDATE" => ~Unused(sheet[row.target])
  <2>1. PICK x \in rows : /\ ActionOf(x, mode) \in {"INSERT", "UPDATE"}
                          /\ row = WithTarget(x, TargetOf(x, rows, mode))
    BY DEF Writable
  <2>2. row.target = TargetOf(x, rows, mode)
    BY <2>1 DEF WithTarget
  <2>3. row.target \in RowNums
    BY DEF Planned
  <2>4. \/ row.target \in KeyedRows /\ mode # "APPEND"
        \/ row.target \notin UsedRows /\ mode # "UPDATE"
    <3>1. Placed(x, row.target, mode)
      BY <2>1, <2>2, <2>3, PlaceOf
    <3> QED
      BY <3>1 DEF Placed
  <2>5. row.target \notin UsedRows => Unused(sheet[row.target])
    BY <2>3 DEF UsedRows, Unused
  <2>6. row.target \in KeyedRows => ~Unused(sheet[row.target])
    <3>1. columnOf(config.key) \in Columns
      BY KeyColumnMapped DEF Planned
    <3> QED
      BY <3>1 DEF KeyedRows, KeyIn, Unused
  <2> QED
    BY <2>3, <2>4, <2>5, <2>6
<1>3. Grid(sheet)
  BY DEF TypeOK
<1> HIDE DEF todo
<1>4. TargetsFit'
  BY <1>1, <1>2, <1>3 DEF TargetsFit, Grid, Unused, RowNums, Columns
<1>5. OnItsWay' /\ OthersWait'
  BY <1>1 DEF OnItsWay, OthersWait, RowNums
<1> QED
  BY <1>4, <1>5 DEF RunInv

-----------------------------------------------------------------------------
(* Requests.                                                               *)

LEMMA AppliedType ==
    ASSUME TypeOK, NEW chunk, Applied(chunk)
    PROVE  Grid(sheet') /\ owner' = [r \in RowNums |-> owner'[r]]
<1> DEFINE new(r, c) == IF Sent(chunk, r, c) = {} THEN sheet[r][c]
                        ELSE Shown(LastSent(chunk, r, c).value)
           to(r) == IF \E g \in chunk : g.target = r
                    THEN (CHOOSE g \in chunk : g.target = r).order ELSE owner[r]
<1>1. sheet' = [r \in RowNums |-> [c \in Columns |-> new(r, c)]]
  BY DEF Applied
<1>2. owner' = [r \in RowNums |-> to(r)]
  BY DEF Applied
<1> HIDE DEF new, to
<1> QED
  BY <1>1, <1>2 DEF Grid

\* What no range goes to stays.
LEMMA OtherRowsStay ==
    ASSUME TypeOK, NEW chunk, Applied(chunk), NEW r \in RowNums,
           \A g \in chunk : g.target # r
    PROVE  sheet'[r] = sheet[r] /\ owner'[r] = owner[r]
<1> DEFINE new(s, c) == Shown(LastSent(chunk, s, c).value)
<1>1. sheet' = [s \in RowNums |-> [c \in Columns |->
                  IF Sent(chunk, s, c) = {} THEN sheet[s][c] ELSE new(s, c)]]
  BY DEF Applied
<1>2. \A c \in Columns : Sent(chunk, r, c) = {}
  BY DEF Sent
<1> HIDE DEF new
<1>3. sheet'[r] = [c \in Columns |-> sheet[r][c]]
  BY <1>1, <1>2
<1>4. sheet[r] = [c \in Columns |-> sheet[r][c]]
  BY DEF TypeOK, Grid
<1>5. owner'[r] = owner[r]
  BY DEF Applied
<1> QED
  BY <1>3, <1>4, <1>5

\* A request of a batch, arrived or not, and what becomes of the run.
Request(chunk) ==
    /\ run.phase = "send" /\ chunk \subseteq run.ranges
    /\ Applied(chunk) \/ UNCHANGED <<sheet, owner>>
    /\ run'.phase \in {"send", "batch"} /\ DOMAIN run' = RunFields
    /\ run'.plan = run.plan /\ run'.mode = run.mode
    /\ run'.before = run.before /\ run'.owned = run.owned
    /\ run'.left \subseteq run.left /\ run'.batch \subseteq run.batch
    /\ run'.ranges \subseteq run.ranges
    /\ UNCHANGED <<store, config, link, runs, changes, edits>>

LEMMA ChunkIsRequest ==
    ASSUME TypeOK, SendChunk \/ ChunkFails
    PROVE  \E chunk : Request(chunk)
<1>1. ASSUME NEW n, NEW chunk \in FirstOf(run.ranges, n) PROVE chunk \subseteq run.ranges
  BY <1>1 DEF FirstOf
<1>2. CASE SendChunk
  <2>1. PICK chunk \in FirstOf(run.ranges, ChunkSize) :
            Applied(chunk) /\ run' = [run EXCEPT !.ranges = @ \ chunk]
    BY <1>2 DEF SendChunk
  <2>2. chunk \subseteq run.ranges
    BY <1>1
  <2> QED
    BY <1>2, <2>1, <2>2 DEF SendChunk, Request, TypeOK, RunFields
<1>3. CASE ChunkFails
  <2>1. PICK stop \in BOOLEAN :
            run' = [run EXCEPT !.phase = "batch", !.batch = {}, !.ranges = {},
                               !.left = IF stop THEN {} ELSE @]
    BY <1>3 DEF ChunkFails
  <2>2. PICK chunk : chunk \subseteq run.ranges /\ (Applied(chunk) \/ UNCHANGED <<sheet, owner>>)
    <3>1. CASE \E chunk \in FirstOf(run.ranges, ChunkSize) : Applied(chunk)
      BY <1>1, <3>1
    <3>2. CASE UNCHANGED <<sheet, owner>>
      BY <3>2
    <3> QED
      BY <1>3, <3>1, <3>2 DEF ChunkFails
  <2>3. run'.left \subseteq run.left /\ run'.phase = "batch" /\ run'.batch = {} /\ run'.ranges = {}
        /\ DOMAIN run' = RunFields /\ run'.plan = run.plan /\ run'.mode = run.mode
        /\ run'.before = run.before /\ run'.owned = run.owned
    BY <2>1 DEF TypeOK, RunFields
  <2> QED
    BY <1>3, <2>2, <2>3 DEF ChunkFails, Request
<1> QED
  BY <1>2, <1>3

-----------------------------------------------------------------------------
(* Steps.                                                                  *)

LEMMA RequestType ==
    ASSUME TypeOK, NEW chunk, Request(chunk)
    PROVE  TypeOK'
<1>1. Grid(sheet') /\ owner' = [r \in RowNums |-> owner'[r]]
  <2>1. CASE Applied(chunk)
    BY <2>1, AppliedType
  <2>2. CASE UNCHANGED <<sheet, owner>>
    BY <2>2 DEF TypeOK, Grid
  <2> QED
    BY <2>1, <2>2 DEF Request
<1> QED
  BY <1>1 DEF Request, TypeOK, Grid, RunFields, Orders, RowNums, Columns

LEMMA TypeStep == TypeOK /\ [Next]_vars => TypeOK'
<1> SUFFICES ASSUME TypeOK, [Next]_vars PROVE TypeOK'
  OBVIOUS
<1> USE DEF Grid, RunFields
<1>1. ASSUME NEW W \in SUBSET Orders, NEW targeted \in BOOLEAN, StartRun(W, targeted)
      PROVE  TypeOK'
  <2>1. PICK rows, mode : Planned(W, rows, mode)
    BY <1>1, StartPlans
  <2> QED
    BY <2>1 DEF Planned, TypeOK, NoRun
<1>2. CASE NextBatch
  BY <1>2 DEF NextBatch, TypeOK
<1>3. CASE SendChunk \/ ChunkFails
  BY <1>3, ChunkIsRequest, RequestType
<1>4. CASE RecordLinks
  BY <1>4 DEF RecordLinks, TypeOK
<1>5. CASE EndRun
  BY <1>5 DEF EndRun, TypeOK, NoRun
<1>6. ASSUME NEW o \in Orders, NEW content \in Contents[o], Import(o, content) PROVE TypeOK'
  BY <1>6 DEF Import, TypeOK
<1>7. ASSUME NEW c \in Configs, Configure(c) PROVE TypeOK'
  BY <1>7 DEF Configure, TypeOK
<1>8. ASSUME NEW r \in RowNums, NEW c \in Columns, NEW t, TypeOrErase(r, c, t) PROVE TypeOK'
  BY <1>8 DEF TypeOrErase, TypeOK
<1>9. ASSUME NEW r \in RowNums, NEW s \in RowNums, SwapRows(r, s) PROVE TypeOK'
  BY <1>9 DEF SwapRows, TypeOK
<1>10. CASE UNCHANGED vars
  BY <1>10 DEF vars, TypeOK
<1> QED
  BY <1>1, <1>2, <1>3, <1>4, <1>5, <1>6, <1>7, <1>8, <1>9, <1>10 DEF Next

\* A range is cut out of its row: it has cells of the row only.
CutFrom(g, row, part) ==
    PartOf(g, row) /\ g.at = row.at \o part.at /\ g.cells = part.cells

LEMMA RangesArePartOf ==
    ASSUME NEW rows, NEW g \in RangesOf(rows)
    PROVE  \E row \in rows : \E part \in buildRowRanges(row.cells) : CutFrom(g, row, part)
<1> DEFINE range(row, part) == [at |-> row.at \o part.at, target |-> row.target,
                                order |-> row.order, cells |-> part.cells]
<1>1. PICK row \in rows : \E part \in buildRowRanges(row.cells) : g = range(row, part)
  <2>1. RangesOf(rows) =
            UNION {{range(row, part) : part \in buildRowRanges(row.cells)} : row \in rows}
    BY DEF RangesOf
  <2> HIDE DEF range
  <2> QED
    BY <2>1
<1>2. PICK part \in buildRowRanges(row.cells) : g = range(row, part)
  BY <1>1
<1>3. part.cells \subseteq Range(row.cells)
  BY DEF buildRowRanges, Range
<1>4. CutFrom(g, row, part)
  BY <1>2, <1>3 DEF PartOf, CutFrom
<1> QED
  BY <1>4

\* What a run that goes on keeps of its plan.
SamePlan ==
    /\ run'.plan = run.plan /\ run'.mode = run.mode
    /\ run'.before = run.before /\ run'.owned = run.owned

LEMMA BatchSteps ==
    ASSUME TypeOK, NextBatch \/ RecordLinks
    PROVE  /\ SamePlan /\ UNCHANGED <<sheet, owner, config, store>>
           /\ ~Idle /\ ~Idle'
           /\ run'.left \subseteq run.left
           /\ \/ run'.batch \subseteq run.left /\ run'.ranges = RangesOf(run'.batch)
              \/ run'.batch \subseteq run.batch /\ run'.ranges = run.ranges
<1>1. CASE NextBatch
  <2>1. PICK rows \in FirstOf(run.left, BatchSize) :
            run' = [run EXCEPT !.phase = "send", !.batch = rows, !.ranges = RangesOf(rows),
                               !.left = @ \ rows]
    BY <1>1 DEF NextBatch
  <2>2. rows \subseteq run.left
    BY <2>1 DEF FirstOf
  <2> QED
    BY <1>1, <2>1, <2>2 DEF NextBatch, TypeOK, RunFields, Idle, SamePlan
<1>2. CASE RecordLinks
  BY <1>2 DEF RecordLinks, TypeOK, RunFields, Idle, SamePlan
<1> QED
  BY <1>1, <1>2

\* The other steps are of a run's end, or happen between runs.
LEMMA Between ==
    ASSUME TypeOK,
           \/ EndRun
           \/ \E o \in Orders : \E content \in Contents[o] : Import(o, content)
           \/ \E c \in Configs : Configure(c)
           \/ \E r \in RowNums, c \in Columns, t \in {Empty, <<"typed">>} : TypeOrErase(r, c, t)
           \/ \E r, s \in RowNums : SwapRows(r, s)
    PROVE  Idle'
  BY DEF EndRun, Import, Configure, TypeOrErase, SwapRows, UserEdit, Idle, NoRun

LEMMA PlanCarriesOn ==
    ASSUME TargetsFit, SamePlan
    PROVE  TargetsFit'
<1>1. Grid(run'.before)
  BY DEF TargetsFit, SamePlan
<1>2. \A row \in run'.plan : /\ row.target \in RowNums
                             /\ run'.mode = "APPEND" => Unused(run'.before[row.target])
                             /\ run'.mode = "UPDATE" => ~Unused(run'.before[row.target])
  BY DEF TargetsFit, SamePlan
<1> QED
  BY <1>1, <1>2 DEF TargetsFit, Grid, Unused, RowNums, Columns

LEMMA BatchRunInv ==
    ASSUME TypeOK, RunInv, NextBatch \/ RecordLinks
    PROVE  RunInv'
<1>1. SamePlan /\ sheet' = sheet /\ TargetsFit /\ OnItsWay /\ OthersWait
  BY BatchSteps DEF RunInv
<1>2. run'.left \subseteq run'.plan /\ run'.batch \subseteq run'.plan
  BY <1>1, BatchSteps DEF OnItsWay, SamePlan
<1>3. ASSUME NEW g \in run'.ranges PROVE \E row \in run.plan : PartOf(g, row)
  <2>1. CASE run'.ranges = RangesOf(run'.batch)
    <3>1. PICK row \in run'.batch : PartOf(g, row)
      BY <1>3, <2>1, RangesArePartOf DEF CutFrom
    <3> QED
      BY <1>1, <1>2, <3>1 DEF SamePlan
  <2>2. CASE run'.ranges = run.ranges
    BY <1>1, <1>3, <2>2 DEF OnItsWay
  <2> QED
    BY <2>1, <2>2, BatchSteps
<1>4. OnItsWay'
  BY <1>1, <1>2, <1>3 DEF OnItsWay, SamePlan, PartOf
<1>5. OthersWait'
  BY <1>1 DEF OthersWait, SamePlan, RowNums
<1> QED
  BY <1>1, <1>4, <1>5, PlanCarriesOn DEF RunInv

LEMMA RequestRunInv ==
    ASSUME TypeOK, RunInv, NEW chunk, Request(chunk)
    PROVE  RunInv'
<1>1. SamePlan /\ TargetsFit /\ OnItsWay /\ OthersWait /\ chunk \subseteq run.ranges
  BY DEF Request, SamePlan, RunInv, Idle
<1>2. OnItsWay'
  BY <1>1 DEF OnItsWay, SamePlan, Request, PartOf
<1>3. ASSUME NEW r \in RowNums, \A row \in run.plan : row.target # r
      PROVE  sheet'[r] = run.before[r]
  <2>1. \A g \in chunk : g.target # r
    BY <1>1, <1>3 DEF OnItsWay, PartOf
  <2>2. sheet'[r] = sheet[r]
    BY <2>1, OtherRowsStay DEF Request
  <2> QED
    BY <1>1, <1>3, <2>2 DEF OthersWait
<1>4. OthersWait'
  BY <1>1, <1>3 DEF OthersWait, SamePlan, RowNums
<1> QED
  BY <1>1, <1>2, <1>4, PlanCarriesOn DEF RunInv

LEMMA RunStep == TypeOK /\ RunInv /\ [Next]_vars => RunInv'
<1> SUFFICES ASSUME TypeOK, RunInv, [Next]_vars PROVE RunInv'
  OBVIOUS
<1>1. ASSUME NEW W \in SUBSET Orders, NEW targeted \in BOOLEAN, StartRun(W, targeted)
      PROVE  RunInv'
  <2>1. PICK rows, mode : Planned(W, rows, mode)
    BY <1>1, StartPlans
  <2> QED
    BY <2>1, StartRunInv
<1>2. CASE NextBatch \/ RecordLinks
  BY <1>2, BatchRunInv
<1>3. CASE SendChunk \/ ChunkFails
  BY <1>3, ChunkIsRequest, RequestRunInv
<1>4. CASE \/ EndRun
           \/ \E o \in Orders : \E content \in Contents[o] : Import(o, content)
           \/ \E c \in Configs : Configure(c)
           \/ \E r \in RowNums, c \in Columns, t \in {Empty, <<"typed">>} : TypeOrErase(r, c, t)
           \/ \E r, s \in RowNums : SwapRows(r, s)
  BY <1>4, Between DEF RunInv
<1>5. CASE UNCHANGED vars
  BY <1>5 DEF vars, RunInv, Idle, TargetsFit, OnItsWay, OthersWait, Grid, Unused, PartOf, RowNums,
              Columns
<1> QED
  BY <1>1, <1>2, <1>3, <1>4, <1>5 DEF Next

\* Type correctness: stores, sheet and run stay what they are.
THEOREM TypesAreKept == Spec => []TypeOK
  BY InitRun, TypeStep, PTL DEF Spec

\* A run that may only append changes no row that held anything, and one
\* that may only update fills no blank row, whatever the configurations, the
\* data and the failures: planSync's choice of the target rows and what
\* writeRows does with it.
THEOREM ModeIsRespected == Spec => []ModeRespected
<1>1. TypeOK /\ RunInv => ModeRespected
  <2> SUFFICES ASSUME TypeOK, RunInv, ~Idle, NEW r \in RowNums, sheet[r] # run.before[r]
               PROVE  /\ run.mode = "APPEND" => Unused(run.before[r])
                      /\ run.mode = "UPDATE" => ~Unused(run.before[r])
    BY DEF ModeRespected
  <2>1. PICK row \in run.plan : row.target = r
    BY DEF RunInv, OthersWait
  <2> QED
    BY <2>1 DEF RunInv, TargetsFit
<1> QED
  BY <1>1, InitRun, TypeStep, RunStep, PTL DEF Spec

\* Every row that is built follows the rules, for any headers, any rules that
\* PUT /api/rules stores, mappings, mapping sets and orders: exclusions,
\* whitelists and the last matching set as documented, and in a column that
\* rules set the value of the last of those that spell it in one way:
\* evaluateRules and planSync's use of it.
THEOREM RulesAreFollowed == Spec => []RowsFollowRules
<1>1. TypeOK => RowsFollowRules
  <2> SUFFICES ASSUME TypeOK, NEW o \in Orders, store[o] # None,
                      NEW row \in Range(RowTable[config][o][store[o]])
               PROVE  RowFollowsRules(config, row)
    BY DEF RowsFollowRules, RowFollowsRules, Built
  <2>1. config \in Configs /\ store[o] \in Contents[o]
    BY DEF TypeOK
  <2> QED
    BY <2>1, RowOfTable, RowResolved
<1>2. Init => TypeOK
  BY InitRun
<1> QED
  BY <1>1, <1>2, TypeStep, PTL DEF Spec

-----------------------------------------------------------------------------
(* What arrives in a cell is a cell of the request: there is a last one.   *)

Places(n) == {at \in Seq(Int) : Len(at) = n}

LEMMA BeforeIsOrder ==
    ASSUME NEW n \in Nat, NEW a \in Places(n), NEW b \in Places(n), NEW c \in Places(n)
    PROVE  ~Before(a, a) /\ (Before(a, b) /\ Before(b, c) => Before(a, c))
<1>0. \A p \in Places(n) : DOMAIN p = 1 .. n /\ \A i \in 1 .. n : p[i] \in Int
  BY DEF Places
<1>1. \A p, q \in Places(n) : Before(p, q) <=>
          \E i \in 1 .. n : p[i] < q[i] /\ \A m \in 1 .. i - 1 : p[m] = q[m]
  BY <1>0 DEF Before
<1>2. ASSUME Before(a, a) PROVE FALSE
  <2>1. PICK i \in 1 .. n : a[i] < a[i]
    BY <1>1, <1>2
  <2>2. a[i] \in Int
    BY <1>0
  <2> QED
    BY <2>1, <2>2
<1>3. ASSUME Before(a, b), Before(b, c) PROVE Before(a, c)
  <2>1. PICK i \in 1 .. n : a[i] < b[i] /\ \A m \in 1 .. i - 1 : a[m] = b[m]
    BY <1>1, <1>3
  <2>2. PICK j \in 1 .. n : b[j] < c[j] /\ \A m \in 1 .. j - 1 : b[m] = c[m]
    BY <1>1, <1>3
  <2>3. \A m \in 1 .. n : a[m] \in Int /\ b[m] \in Int /\ c[m] \in Int
    BY <1>0
  <2>4. CASE i <= j
    <3>1. a[i] < c[i] /\ \A m \in 1 .. i - 1 : a[m] = c[m]
      BY <2>1, <2>2, <2>3, <2>4
    <3> QED
      BY <1>1, <3>1
  <2>5. CASE j < i
    <3>1. a[j] < c[j] /\ \A m \in 1 .. j - 1 : a[m] = c[m]
      BY <2>1, <2>2, <2>3, <2>5
    <3> QED
      BY <1>1, <3>1
  <2> QED
    BY <2>4, <2>5
<1> QED
  BY <1>2, <1>3

LEMMA LastRangeExists ==
    ASSUME NEW n \in Nat, NEW S, IsFiniteSet(S), S # {}, \A g \in S : g.at \in Places(n)
    PROVE  \E g \in S : \A h \in S : ~Before(g.at, h.at)
<1> DEFINE R == {p \in S \X S : Before(p[1].at, p[2].at)}
<1>1. \A a, b \in S : <<a, b>> \in R <=> Before(a.at, b.at)
  OBVIOUS
<1> HIDE DEF R
<1>2. \A a \in S : <<a, a>> \notin R
  BY <1>1, BeforeIsOrder
<1>3. \A a, b, c \in S : <<a, b>> \in R /\ <<b, c>> \in R => <<a, c>> \in R
  BY <1>1, BeforeIsOrder
<1>4. \E a \in S : \A b \in S : <<a, b>> \notin R
  BY <1>2, <1>3, LastExists
<1> QED
  BY <1>1, <1>4

\* The ranges under way are finitely many, each with a place in the batch.
RangesInOrder ==
    /\ IsFiniteSet(run.ranges)
    /\ \A g \in run.ranges : g.at \in Places(4)

LEMMA CellsArrive ==
    ASSUME TypeOK, RangesInOrder, NEW chunk, chunk \subseteq run.ranges, Applied(chunk),
           NEW r \in RowNums, NEW c \in Columns
    PROVE  \/ sheet'[r][c] = sheet[r][c]
           \/ \E g \in chunk : /\ g.target = r
                               /\ \E x \in g.cells : x.column = c /\ sheet'[r][c] = Shown(x.value)
<1> DEFINE sent == Sent(chunk, r, c)
           new(s, d) == Shown(LastSent(chunk, s, d).value)
<1>1. sheet' = [s \in RowNums |-> [d \in Columns |->
                  IF Sent(chunk, s, d) = {} THEN sheet[s][d] ELSE new(s, d)]]
  BY DEF Applied
<1>2. CASE sent = {}
  <2> HIDE DEF new
  <2> QED
    BY <1>1, <1>2
<1>3. CASE sent # {}
  <2>1. sheet'[r][c] = new(r, c)
    <3> HIDE DEF new
    <3> QED
      BY <1>1, <1>3
  <2>2. \E g \in sent : \A h \in sent : ~Before(g.at, h.at)
    <3>1. sent \in SUBSET run.ranges
      BY DEF Sent
    <3> HIDE DEF sent
    <3>2. IsFiniteSet(sent) /\ \A g \in sent : g.at \in Places(4)
      BY <3>1, FS_Subset DEF RangesInOrder
    <3> QED
      BY <1>3, <3>2, LastRangeExists
  <2> DEFINE last == CHOOSE g \in sent : \A h \in sent : ~Before(g.at, h.at)
             x == CHOOSE y \in last.cells : y.column = c
  <2>3. last \in sent
    <3> HIDE DEF sent
    <3> QED
      BY <2>2
  <2>4. last \in chunk /\ last.target = r /\ \E y \in last.cells : y.column = c
    <3> HIDE DEF last
    <3> QED
      BY <2>3 DEF Sent
  <2>5. x \in last.cells /\ x.column = c
    <3> HIDE DEF last
    <3> QED
      BY <2>4
  <2>6. LastSent(chunk, r, c) = x
    BY DEF LastSent
  <2> HIDE DEF last, x
  <2> QED
    BY <2>1, <2>4, <2>5, <2>6
<1> QED
  BY <1>2, <1>3

LEMMA RangesFinite ==
    ASSUME NEW rows, IsFiniteSet(rows), \A row \in rows : row.cells \in Seq(Range(row.cells))
    PROVE  IsFiniteSet(RangesOf(rows))
<1> DEFINE range(row, part) == [at |-> row.at \o part.at, target |-> row.target,
                                order |-> row.order, cells |-> part.cells]
           F == [row \in rows |-> {range(row, part) : part \in buildRowRanges(row.cells)}]
<1>1. ASSUME NEW row \in rows PROVE IsFiniteSet(F[row])
  <2> DEFINE starts == {i \in DOMAIN row.cells : Begins(row.cells, i)}
             cellsOf(i) == {row.cells[j] : j \in
                {x \in DOMAIN row.cells : /\ ~Prior(row.cells, x, i)
                                /\ ~\E m \in DOMAIN row.cells : /\ Begins(row.cells, m)
                                                            /\ Prior(row.cells, i, m)
                                                            /\ ~Prior(row.cells, x, m)}}
             part == [i \in starts |-> [at |-> <<row.cells[i].column, i>>, cells |-> cellsOf(i)]]
             parts == {part[i] : i \in starts}
             f == [y \in parts |-> range(row, y)]
  <2>1. IsFiniteSet(starts)
    <3>1. DOMAIN row.cells = 1 .. Len(row.cells) /\ Len(row.cells) \in Nat
      OBVIOUS
    <3>2. IsFiniteSet(1 .. Len(row.cells)) /\ starts \in SUBSET (1 .. Len(row.cells))
      BY <3>1, FS_Interval
    <3> HIDE DEF starts
    <3> QED
      BY <3>2, FS_Subset
  <2>2. starts \subseteq DOMAIN part
    OBVIOUS
  <2>3. buildRowRanges(row.cells) = parts
    <3> HIDE DEF cellsOf
    <3>1. buildRowRanges(row.cells) =
            {[at |-> <<row.cells[i].column, i>>, cells |-> cellsOf(i)] : i \in starts}
      BY DEF buildRowRanges, cellsOf
    <3> QED
      BY <3>1
  <2>4. IsFiniteSet(parts)
    <3> HIDE DEF part, starts
    <3> QED
      BY <2>1, <2>2, ImageFinite
  <2> HIDE DEF parts
  <2>5. IsFiniteSet({f[y] : y \in parts})
    <3>1. parts \subseteq DOMAIN f
      OBVIOUS
    <3> HIDE DEF f
    <3> QED
      BY <2>4, <3>1, ImageFinite
  <2>6. F[row] = {f[y] : y \in parts}
    <3> HIDE DEF range
    <3> QED
      BY <2>3
  <2> QED
    BY <2>5, <2>6
<1>2. IsFiniteSet({F[row] : row \in rows})
  <2>1. rows \subseteq DOMAIN F
    OBVIOUS
  <2> HIDE DEF F
  <2> QED
    BY <2>1, ImageFinite
<1>3. \A T \in {F[row] : row \in rows} : IsFiniteSet(T)
  <2> HIDE DEF F
  <2> QED
    BY <1>1
<1>4. RangesOf(rows) = UNION {F[row] : row \in rows}
  <2> HIDE DEF range
  <2> QED
    BY DEF RangesOf, range
<1> HIDE DEF F
<1> QED
  BY <1>2, <1>3, <1>4, FS_UNION

-----------------------------------------------------------------------------
(* The invariant behind NoDuplicateKeys.                                   *)

\* A planned row has the key and the cells of a row of its order.
Made(row) ==
    \E built \in RowsFor(config, row.order) : built.key = row.key /\ built.cells = row.cells
PlanBuilt ==
    /\ IsFiniteSet(run.plan)
    /\ \A row \in run.plan : row.order \in Orders /\ Made(row) /\ row.at \in Places(2)

\* A key is planned once, and if it is in the sheet then where it was planned.
KeysFit ==
    /\ columnOf(config.key) \in Columns
    /\ \A a, b \in run.plan : a.key = b.key => a = b
    /\ \A row \in run.plan : /\ row.key # Empty
                             /\ \A r \in RowNums : KeyIn(r) = row.key => r = row.target

KeyInv ==
    /\ NoDuplicateKeys
    /\ ~Idle => PlanBuilt /\ RangesInOrder /\ KeysFit

LEMMA KeysStay ==
    ASSUME sheet' = sheet, config' = config
    PROVE  /\ \A r : KeyIn(r)' = KeyIn(r)
           /\ KeyedRows' = KeyedRows /\ RowNums' = RowNums /\ Columns' = Columns
           /\ columnOf(config.key)' = columnOf(config.key)
<1>1. RowNums' = RowNums /\ Columns' = Columns
  BY DEF RowNums, Columns
<1>2. columnOf(config.key)' = columnOf(config.key)
  BY DEF columnOf, Columns
<1>3. \A r : KeyIn(r)' = KeyIn(r)
  BY <1>2 DEF KeyIn
<1> QED
  BY <1>1, <1>2, <1>3 DEF KeyedRows

LEMMA InitKeys ==
    ASSUME OneKeyColumn, Init
    PROVE  KeyInv
<1>1. columnOf(config.key) \in Columns
  BY DEF OneKeyColumn, Init
<1>2. \A r \in RowNums : sheet[r] = BlankRow
  BY DEF Init
<1>3. KeyedRows = {}
  BY <1>1, <1>2, TrimEmpty DEF KeyedRows, KeyIn, BlankRow
<1>4. Idle
  BY DEF Init, Idle, NoRun
<1> QED
  BY <1>3, <1>4 DEF KeyInv, NoDuplicateKeys

LEMMA PlannedRowMade ==
    ASSUME TypeOK, NEW W \in SUBSET Orders, \A o \in W : store[o] # None,
           NEW row \in PlannedRows(W)
    PROVE  row.order \in Orders /\ Made(row) /\ row.at \in Places(2)
<1>1. PICK i \in {x \in DOMAIN OrderList : OrderList[x] \in W} :
          \E j \in {x \in DOMAIN Built(OrderList[i]) : Built(OrderList[i])[x].include} :
              row = PlannedRow(i, j)
  BY DEF PlannedRows
<1>2. PICK j \in DOMAIN Built(OrderList[i]) :
          Built(OrderList[i])[j].include /\ row = PlannedRow(i, j)
  BY <1>1
<1> DEFINE o == OrderList[i]
           built == Built(o)[j]
<1>3. o \in Orders /\ store[o] # None /\ store[o] \in Contents[o] /\ config \in Configs
  BY <1>1 DEF TypeOK
<1>4. built \in RowsFor(config, o)
  <2>1. built \in Range(Built(o))
    BY <1>2 DEF Range
  <2>2. built \in {x \in Range(RowTable[config][o][store[o]]) : x.include}
    BY <1>2, <2>1 DEF Built
  <2> HIDE DEF built, o
  <2> QED
    BY <1>3, <2>2 DEF RowsFor
<1>5. row.order = o /\ row.key = built.key /\ row.cells = built.cells /\ row.at = <<i, j>>
  BY <1>2 DEF PlannedRow
<1>6. i \in Int /\ j \in Int
  <2>1. DOMAIN OrderList = 1 .. Len(OrderList)
    BY RowSyncAssumption
  <2>2. Built(o) \in Seq(Range(Built(o)))
    BY <1>3, BuiltIsSeq
  <2>3. DOMAIN Built(o) = 1 .. Len(Built(o))
    BY <2>2
  <2> QED
    BY <1>1, <1>2, <2>1, <2>3
<1>7. row.at \in Places(2)
  BY <1>5, <1>6 DEF Places
<1> HIDE DEF built, o
<1> QED
  BY <1>3, <1>4, <1>5, <1>7 DEF Made

LEMMA WritableFinite ==
    ASSUME NEW rows, IsFiniteSet(rows), NEW mode
    PROVE  IsFiniteSet(Writable(rows, mode))
<1> DEFINE S == {x \in rows : ActionOf(x, mode) \in {"INSERT", "UPDATE"}}
           f == [x \in S |-> WithTarget(x, TargetOf(x, rows, mode))]
<1>1. IsFiniteSet(S)
  <2>1. S \in SUBSET rows
    OBVIOUS
  <2> HIDE DEF S
  <2> QED
    BY <2>1, FS_Subset
<1>2. IsFiniteSet({f[x] : x \in S})
  <2>1. S \subseteq DOMAIN f
    OBVIOUS
  <2> HIDE DEF f, S
  <2> QED
    BY <1>1, <2>1, ImageFinite
<1>3. Writable(rows, mode) = {f[x] : x \in S}
  BY DEF Writable
<1> QED
  BY <1>2, <1>3

\* A member of Writable is a planned row with a place.
LEMMA WritableRow ==
    ASSUME TypeOK, NEW W, NEW rows, NEW mode, Planned(W, rows, mode),
           NEW row \in Writable(rows, mode)
    PROVE  /\ row.target \in RowNums
           /\ \E x \in rows : /\ row = WithTarget(x, row.target)
                              /\ row.target = TargetOf(x, rows, mode)
                              /\ Placed(x, row.target, mode)
                              /\ row.at = x.at /\ row.key = x.key
                              /\ row.order = x.order /\ row.cells = x.cells
<1>1. PICK x \in rows : /\ ActionOf(x, mode) \in {"INSERT", "UPDATE"}
                        /\ row = WithTarget(x, TargetOf(x, rows, mode))
  BY DEF Writable
<1>2. row.target = TargetOf(x, rows, mode)
  BY <1>1 DEF WithTarget
<1>3. row.target \in RowNums
  BY DEF Planned
<1>4. Placed(x, row.target, mode)
  BY <1>1, <1>2, <1>3, PlaceOf
<1>5. row.at = x.at /\ row.key = x.key /\ row.order = x.order /\ row.cells = x.cells
  BY <1>1 DEF WithTarget
<1> QED
  BY <1>1, <1>2, <1>3, <1>4, <1>5

LEMMA PlannedAsMade ==
    ASSUME TypeOK, NEW W, NEW rows, NEW mode, Planned(W, rows, mode),
           NEW row \in Writable(rows, mode)
    PROVE  row.order \in Orders /\ Made(row) /\ row.at \in Places(2)
<1>1. PICK x \in rows : /\ row.at = x.at /\ row.key = x.key
                        /\ row.order = x.order /\ row.cells = x.cells
  BY WritableRow
<1>2. x.order \in Orders /\ Made(x) /\ x.at \in Places(2)
  BY PlannedRowMade DEF Planned
<1> QED
  BY <1>1, <1>2 DEF Made

LEMMA StartKeys ==
    ASSUME TypeOK, KeyInv, OneKeyColumn, NEW W, NEW rows, NEW mode, Planned(W, rows, mode)
    PROVE  KeyInv'
<1> DEFINE todo == Writable(rows, mode)
<1>1. /\ run'.plan = todo /\ run'.ranges = {}
      /\ UNCHANGED <<store, config, sheet, owner>>
  BY DEF Planned, NoRun
<1>2. \A row \in todo : row.order \in Orders /\ Made(row) /\ row.at \in Places(2)
  BY PlannedAsMade
<1>3. IsFiniteSet(todo)
  BY PlannedFinite, WritableFinite DEF Planned
<1>4. columnOf(config.key) \in Columns
  BY KeyColumnMapped DEF Planned
<1>5. ASSUME NEW a \in todo, NEW b \in todo, a.key = b.key PROVE a = b
  <2>1. PICK x \in rows : a.key = x.key /\ a = WithTarget(x, TargetOf(x, rows, mode))
    BY WritableRow
  <2>2. PICK y \in rows : b.key = y.key /\ b = WithTarget(y, TargetOf(y, rows, mode))
    BY WritableRow
  <2>3. x = y
    BY <1>5, <2>1, <2>2 DEF Planned, Blocked, CollidingKeys
  <2> QED
    BY <2>1, <2>2, <2>3
<1>6. ASSUME NEW row \in todo
      PROVE  row.key # Empty /\ \A r \in RowNums : KeyIn(r) = row.key => r = row.target
  <2>1. PICK x \in rows : row.key = x.key /\ Placed(x, row.target, mode)
    BY WritableRow
  <2>2. row.key # Empty
    BY <2>1 DEF Planned, Blocked
  <2>3. ASSUME NEW r \in RowNums, KeyIn(r) = row.key PROVE r = row.target
    <3>1. r \in KeyedRows
      BY <2>2, <2>3 DEF KeyedRows
    <3> QED
      BY <2>1, <2>3, <3>1 DEF Placed, KeyInv, NoDuplicateKeys
  <2> QED
    BY <2>2, <2>3
<1> HIDE DEF todo
<1>7. PlanBuilt'
  BY <1>1, <1>2, <1>3 DEF PlanBuilt, Made, RowsFor, Orders
<1>8. RangesInOrder'
  BY <1>1, FS_EmptySet DEF RangesInOrder
<1>9. KeysFit'
  BY <1>1, <1>4, <1>5, <1>6, KeysStay DEF KeysFit
<1>10. NoDuplicateKeys'
  BY <1>1, KeysStay DEF KeyInv, NoDuplicateKeys
<1> QED
  BY <1>7, <1>8, <1>9, <1>10 DEF KeyInv

LEMMA NamedColumnsExist == \A k : NamedColumns(k) \subseteq Columns
<1> SUFFICES ASSUME NEW k, NEW c \in NamedColumns(k) PROVE c \in Columns
  OBVIOUS
<1> DEFINE A == {columnOf(m.column) : m \in Range(k.mappings)}
           B(s) == {columnOf(m.column) : m \in Range(k.sets[s])}
           C == {columnOf(rule.column) : rule \in Range(k.rules)}
<1>1. c # 0 /\ (c \in A \/ c \in C \/ \E s \in DOMAIN k.sets : c \in B(s))
  <2>1. c \in (A \cup (UNION {B(s) : s \in DOMAIN k.sets}) \cup C) \ {0}
    BY DEF NamedColumns
  <2> HIDE DEF A, B, C
  <2>2. c # 0
    BY <2>1, Zenon
  <2>3. c \in A \/ c \in C \/ \E s \in DOMAIN k.sets : c \in B(s)
    BY <2>1
  <2> QED
    BY <2>2, <2>3, Zenon
<1>2. \E h : c = columnOf(h)
  BY <1>1
<1> QED
  BY <1>1, <1>2, ColumnOfHeader

\* The ranges of a batch have their places.
LEMMA RangesOfBatch ==
    ASSUME TypeOK, PlanBuilt, NEW rows, rows \subseteq run.plan
    PROVE  /\ IsFiniteSet(RangesOf(rows))
           /\ \A g \in RangesOf(rows) : g.at \in Places(4)
<1>1. ASSUME NEW row \in rows
      PROVE  /\ row.cells \in Seq(Range(row.cells))
             /\ \A x \in Range(row.cells) : x.column \in NamedColumns(config)
             /\ row.at \in Places(2)
  BY <1>1, RowsAsConfigured DEF PlanBuilt, Made, CellsWellFormed, TypeOK
<1>2. IsFiniteSet(rows)
  <2>1. rows \in SUBSET run.plan
    OBVIOUS
  <2> QED
    BY <2>1, FS_Subset DEF PlanBuilt
<1>3. ASSUME NEW g \in RangesOf(rows) PROVE g.at \in Places(4)
  <2>1. PICK row \in rows : \E part \in buildRowRanges(row.cells) : CutFrom(g, row, part)
    BY <1>3, RangesArePartOf
  <2>2. PICK part \in buildRowRanges(row.cells) : CutFrom(g, row, part)
    BY <2>1
  <2>3. PICK i \in DOMAIN row.cells : part.at = <<row.cells[i].column, i>>
    BY DEF buildRowRanges
  <2>4. row.cells[i] \in Range(row.cells)
    BY DEF Range
  <2>5. row.cells[i].column \in Int
    <3>1. row.cells[i].column \in NamedColumns(config)
      BY <1>1, <2>4
    <3> QED
      BY <3>1, NamedColumnsExist, SomeColumns
  <2>6. i \in Int
    <3>1. DOMAIN row.cells = 1 .. Len(row.cells)
      BY <1>1
    <3> QED
      BY <3>1
  <2>7. part.at \in Seq(Int) /\ Len(part.at) = 2
    BY <2>3, <2>5, <2>6
  <2>8. row.at \in Seq(Int) /\ Len(row.at) = 2
    BY <1>1 DEF Places
  <2>9. g.at \in Seq(Int) /\ Len(g.at) = 4
    <3>1. /\ row.at \o part.at \in Seq(Int)
          /\ Len(row.at \o part.at) = Len(row.at) + Len(part.at)
      BY <2>7, <2>8, ConcatProperties
    <3>2. g.at = row.at \o part.at
      BY <2>2 DEF CutFrom
    <3>3. g.at \in Seq(Int) /\ Len(g.at) = Len(row.at) + Len(part.at)
      BY <3>1, <3>2, Zenon
    <3> QED
      BY <2>7, <2>8, <3>3
  <2> QED
    BY <2>9 DEF Places
<1> QED
  BY <1>1, <1>2, <1>3, RangesFinite

LEMMA PlanBuiltOn ==
    ASSUME PlanBuilt, SamePlan, config' = config
    PROVE  PlanBuilt'
  BY DEF PlanBuilt, SamePlan, Made, RowsFor, Orders

LEMMA BatchKeys ==
    ASSUME TypeOK, RunInv, KeyInv, NextBatch \/ RecordLinks
    PROVE  KeyInv'
<1>1. /\ SamePlan /\ sheet' = sheet /\ config' = config
      /\ OnItsWay /\ PlanBuilt /\ RangesInOrder /\ KeysFit /\ NoDuplicateKeys
  BY BatchSteps DEF RunInv, KeyInv
<1>2. IsFiniteSet(run'.ranges) /\ \A g \in run'.ranges : g.at \in Places(4)
  <2>1. CASE run'.ranges = RangesOf(run'.batch) /\ run'.batch \subseteq run.left
    BY <1>1, <2>1, RangesOfBatch DEF OnItsWay
  <2>2. CASE run'.ranges = run.ranges
    BY <1>1, <2>2 DEF RangesInOrder
  <2> QED
    BY <2>1, <2>2, BatchSteps
<1>3. RangesInOrder'
  BY <1>2 DEF RangesInOrder
<1>4. KeysFit' /\ NoDuplicateKeys'
  BY <1>1, KeysStay DEF KeysFit, NoDuplicateKeys, SamePlan
<1> QED
  BY <1>1, <1>3, <1>4, PlanBuiltOn DEF KeyInv

\* What a request puts into the key column is the key of the row planned there.
LEMMA KeysArrive ==
    ASSUME TypeOK, RunInv, KeyInv, KeysAreShown, NEW chunk, Request(chunk), NEW r \in RowNums
    PROVE  \/ KeyIn(r)' = KeyIn(r)
           \/ \E row \in run.plan : row.target = r /\ KeyIn(r)' = row.key
<1> DEFINE c == columnOf(config.key)
<1>1. /\ OnItsWay /\ PlanBuilt /\ RangesInOrder /\ c \in Columns
      /\ chunk \subseteq run.ranges /\ config' = config
  BY DEF Request, RunInv, KeyInv, Idle, KeysFit
<1>2. KeyIn(r) = Trim(sheet[r][c]) /\ KeyIn(r)' = Trim(sheet'[r][c])
  BY <1>1 DEF KeyIn, columnOf, Columns
<1> HIDE DEF c
<1>3. CASE Applied(chunk)
  <2>1. \/ sheet'[r][c] = sheet[r][c]
        \/ \E g \in chunk : /\ g.target = r
                            /\ \E x \in g.cells : x.column = c /\ sheet'[r][c] = Shown(x.value)
    BY <1>1, <1>3, CellsArrive
  <2>2. ASSUME NEW g \in chunk, g.target = r,
               NEW x \in g.cells, x.column = c, sheet'[r][c] = Shown(x.value)
        PROVE  \E row \in run.plan : row.target = r /\ KeyIn(r)' = row.key
    <3>1. PICK row \in run.plan : PartOf(g, row)
      BY <1>1 DEF OnItsWay
    <3>2. PICK built \in RowsFor(config, row.order) :
              built.key = row.key /\ built.cells = row.cells
      BY <1>1 DEF PlanBuilt, Made
    <3>3. x \in Range(built.cells)
      BY <3>1, <3>2 DEF PartOf
    <3>4. Trim(Shown(x.value)) = built.key
      BY <1>1, <2>2, <3>2, <3>3 DEF KeysAreShown, PlanBuilt, TypeOK, c
    <3> QED
      BY <1>2, <2>2, <3>1, <3>2, <3>4 DEF PartOf
  <2> QED
    BY <1>2, <2>1, <2>2
<1>4. CASE UNCHANGED <<sheet, owner>>
  BY <1>2, <1>4
<1> QED
  BY <1>3, <1>4 DEF Request

LEMMA RequestKeys ==
    ASSUME TypeOK, RunInv, KeyInv, KeysAreShown, NEW chunk, Request(chunk)
    PROVE  KeyInv'
<1>1. /\ SamePlan /\ config' = config /\ PlanBuilt /\ RangesInOrder /\ KeysFit /\ NoDuplicateKeys
      /\ run'.ranges \subseteq run.ranges
  BY DEF Request, SamePlan, KeyInv, Idle
<1>2. RangesInOrder'
  <2>1. run'.ranges \in SUBSET run.ranges
    BY <1>1
  <2>2. IsFiniteSet(run'.ranges)
    BY <1>1, <2>1, FS_Subset DEF RangesInOrder
  <2> QED
    BY <1>1, <2>2 DEF RangesInOrder
<1>3. ASSUME NEW row \in run.plan, NEW r \in RowNums, KeyIn(r)' = row.key
      PROVE  r = row.target
  BY <1>1, <1>3, KeysArrive DEF KeysFit
<1>4. KeysFit'
  <2>1. columnOf(config.key)' = columnOf(config.key) /\ Columns' = Columns /\ RowNums' = RowNums
    BY <1>1 DEF columnOf, Columns, RowNums
  <2>2. run'.plan = run.plan
    BY <1>1 DEF SamePlan
  <2> QED
    BY <1>1, <1>3, <2>1, <2>2 DEF KeysFit
<1>5. ASSUME NEW r \in RowNums, NEW s \in RowNums, KeyIn(r)' = KeyIn(s)', KeyIn(r)' # Empty
      PROVE  r = s
  <2>1. CASE KeyIn(r)' = KeyIn(r) /\ KeyIn(s)' = KeyIn(s)
    BY <1>1, <1>5, <2>1 DEF NoDuplicateKeys, KeyedRows
  <2>2. CASE \E row \in run.plan : row.target = r /\ KeyIn(r)' = row.key
    BY <1>3, <1>5, <2>2
  <2>3. CASE \E row \in run.plan : row.target = s /\ KeyIn(s)' = row.key
    BY <1>3, <1>5, <2>3
  <2> QED
    BY <2>1, <2>2, <2>3, KeysArrive
<1>6. NoDuplicateKeys'
  <2>1. RowNums' = RowNums
    BY DEF RowNums
  <2> QED
    BY <1>5, <2>1 DEF NoDuplicateKeys, KeyedRows
<1> QED
  BY <1>1, <1>2, <1>4, <1>6, PlanBuiltOn DEF KeyInv

\* Between runs: keys stay, are erased, or move with their rows.
LEMMA ConfigureKeys ==
    ASSUME TypeOK, OneKeyColumn, NEW k \in Configs, Configure(k)
    PROVE  \A r : KeyIn(r)' = KeyIn(r)
<1>1. columnOf(config.key) = columnOf(k.key)
  BY DEF OneKeyColumn, TypeOK
<1>2. columnOf(config.key)' = columnOf(k.key) /\ sheet' = sheet
  BY DEF Configure, columnOf, Columns
<1> QED
  BY <1>1, <1>2 DEF KeyIn

LEMMA TypeOrEraseKeys ==
    ASSUME TypeOK, OneKeyColumn, NEW r \in RowNums, NEW c \in Columns, NEW t,
           TypeOrErase(r, c, t)
    PROVE  \A s \in RowNums : KeyIn(s)' = KeyIn(s) \/ KeyIn(s)' = Empty
<1> DEFINE key == columnOf(config.key)
<1>1. key \in Columns
  BY DEF OneKeyColumn, TypeOK
<1>2. columnOf(config.key)' = key /\ sheet' = [sheet EXCEPT ![r][c] = t]
  BY DEF TypeOrErase, columnOf, Columns
<1>3. t # Empty => c # key
  BY DEF TypeOrErase, OneKeyColumn, TypeOK
<1> HIDE DEF key
<1>4. \A s \in RowNums : DOMAIN sheet = RowNums /\ DOMAIN sheet[s] = Columns
  BY DEF TypeOK, Grid
<1>5. ASSUME NEW s \in RowNums
      PROVE  sheet'[s][key] = sheet[s][key] \/ (sheet'[s][key] = t /\ c = key)
  BY <1>1, <1>2, <1>4
<1>6. ASSUME NEW s \in RowNums PROVE KeyIn(s)' = KeyIn(s) \/ KeyIn(s)' = Empty
  <2>1. KeyIn(s)' = Trim(sheet'[s][key]) /\ KeyIn(s) = Trim(sheet[s][key])
    BY <1>2 DEF KeyIn, key
  <2> QED
    BY <1>3, <1>5, <2>1, TrimEmpty
<1> QED
  BY <1>6

LEMMA SwapRowsKeys ==
    ASSUME TypeOK, NEW r \in RowNums, NEW s \in RowNums, SwapRows(r, s)
    PROVE  \A q \in RowNums : LET from == IF q = r THEN s ELSE IF q = s THEN r ELSE q
                              IN  sheet'[q] = sheet[from] /\ KeyIn(q)' = KeyIn(from)
                                  /\ owner'[q] = owner[from]
<1>1. columnOf(config.key)' = columnOf(config.key)
  BY DEF SwapRows, columnOf, Columns
<1>2. DOMAIN sheet = RowNums /\ DOMAIN owner = RowNums
  BY DEF TypeOK, Grid
<1>3. ASSUME NEW q \in RowNums
      PROVE  LET from == IF q = r THEN s ELSE IF q = s THEN r ELSE q
             IN  sheet'[q] = sheet[from] /\ owner'[q] = owner[from]
  BY <1>2 DEF SwapRows
<1> QED
  BY <1>1, <1>3 DEF KeyIn

LEMMA BetweenKeys ==
    ASSUME TypeOK, NoDuplicateKeys, OneKeyColumn,
           \/ EndRun
           \/ \E o \in Orders : \E content \in Contents[o] : Import(o, content)
           \/ \E c \in Configs : Configure(c)
           \/ \E r \in RowNums, c \in Columns, t \in {Empty, <<"typed">>} : TypeOrErase(r, c, t)
           \/ \E r, s \in RowNums : SwapRows(r, s)
    PROVE  NoDuplicateKeys'
<1>1. RowNums' = RowNums
  BY DEF RowNums
<1>2. CASE \A q \in RowNums : KeyIn(q)' = KeyIn(q) \/ KeyIn(q)' = Empty
  BY <1>1, <1>2 DEF NoDuplicateKeys, KeyedRows
<1>3. CASE EndRun \/ \E o \in Orders : \E content \in Contents[o] : Import(o, content)
  <2>1. sheet' = sheet /\ config' = config
    BY <1>3 DEF EndRun, Import
  <2> QED
    BY <1>2, <2>1, KeysStay
<1>4. CASE \E c \in Configs : Configure(c)
  BY <1>2, <1>4, ConfigureKeys
<1>5. CASE \E r \in RowNums, c \in Columns, t \in {Empty, <<"typed">>} : TypeOrErase(r, c, t)
  BY <1>2, <1>5, TypeOrEraseKeys
<1>6. CASE \E r, s \in RowNums : SwapRows(r, s)
  <2>1. PICK r \in RowNums, s \in RowNums : SwapRows(r, s)
    BY <1>6
  <2> DEFINE from(q) == IF q = r THEN s ELSE IF q = s THEN r ELSE q
  <2>2. \A q \in RowNums : KeyIn(q)' = KeyIn(from(q)) /\ from(q) \in RowNums
    BY <2>1, SwapRowsKeys
  <2>3. \A p, q \in RowNums : from(p) = from(q) => p = q
    OBVIOUS
  <2> HIDE DEF from
  <2> QED
    BY <1>1, <2>2, <2>3 DEF NoDuplicateKeys, KeyedRows
<1> QED
  BY <1>3, <1>4, <1>5, <1>6

LEMMA KeyStep ==
    ASSUME OneKeyColumn, KeysAreShown
    PROVE  TypeOK /\ RunInv /\ KeyInv /\ [Next]_vars => KeyInv'
<1> SUFFICES ASSUME TypeOK, RunInv, KeyInv, [Next]_vars PROVE KeyInv'
  OBVIOUS
<1>1. ASSUME NEW W \in SUBSET Orders, NEW targeted \in BOOLEAN, StartRun(W, targeted)
      PROVE  KeyInv'
  <2>1. PICK rows, mode : Planned(W, rows, mode)
    BY <1>1, StartPlans
  <2> QED
    BY <2>1, StartKeys
<1>2. CASE NextBatch \/ RecordLinks
  BY <1>2, BatchKeys
<1>3. CASE SendChunk \/ ChunkFails
  BY <1>3, ChunkIsRequest, RequestKeys
<1>4. CASE \/ EndRun
           \/ \E o \in Orders : \E content \in Contents[o] : Import(o, content)
           \/ \E c \in Configs : Configure(c)
           \/ \E r \in RowNums, c \in Columns, t \in {Empty, <<"typed">>} : TypeOrErase(r, c, t)
           \/ \E r, s \in RowNums : SwapRows(r, s)
  BY <1>4, Between, BetweenKeys DEF KeyInv
<1>5. CASE UNCHANGED vars
  <2>1. sheet' = sheet /\ config' = config /\ run' = run
    BY <1>5 DEF vars
  <2>2. NoDuplicateKeys'
    BY <2>1, KeysStay DEF KeyInv, NoDuplicateKeys
  <2>3. CASE ~Idle
    <3>1. PlanBuilt /\ RangesInOrder /\ KeysFit
      BY <2>3 DEF KeyInv
    <3>2. PlanBuilt' /\ RangesInOrder'
      BY <2>1, <3>1 DEF PlanBuilt, Made, RowsFor, Orders, RangesInOrder
    <3>3. KeysFit'
      BY <2>1, <3>1, KeysStay DEF KeysFit
    <3> QED
      BY <2>2, <3>2, <3>3 DEF KeyInv
  <2>4. CASE Idle
    BY <2>1, <2>2, <2>4 DEF KeyInv, Idle
  <2> QED
    BY <2>3, <2>4
<1> QED
  BY <1>1, <1>2, <1>3, <1>4, <1>5 DEF Next

\* No key is in two rows, after any sequence of runs, failed requests,
\* crashes, configurations and edits, if all configurations share a mapped
\* key column and key cells come back from the sheet as the keys: planSync
\* takes the row of a key where it is, and refuses a plan with a key twice.
THEOREM NoKeyTwice ==
    ASSUME OneKeyColumn, KeysAreShown
    PROVE  Spec => []NoDuplicateKeys
<1>1. Init => TypeOK /\ RunInv /\ KeyInv
  BY InitRun, InitKeys
<1>2. TypeOK /\ RunInv /\ KeyInv /\ [Next]_vars => TypeOK' /\ RunInv' /\ KeyInv'
  BY TypeStep, RunStep, KeyStep
<1>3. KeyInv => NoDuplicateKeys
  BY DEF KeyInv
<1> QED
  BY <1>1, <1>2, <1>3, PTL DEF Spec

-----------------------------------------------------------------------------
(* The invariant behind OtherCellsKept.                                    *)

\* The keys that rows of an order may have.
KeysOf(o) == {row.key : row \in UNION {RowsFor(k, o) : k \in Configs}}

\* A row of the sheet with a key holds an order that may have that key.
Owned ==
    \A r \in RowNums : KeyIn(r) # Empty => owner[r] \in Orders /\ KeyIn(r) \in KeysOf(owner[r])

\* Every planned row has a place of its own, blank or its order's, and only
\* cells of configured columns have changed.
PlacesFit ==
    /\ \A a, b \in run.plan : a.target = b.target => a = b
    /\ \A row \in run.plan :
          /\ KeyIn(row.target) \in {Empty, row.key}
          /\ Unused(run.before[row.target]) \/ run.owned[row.target] = row.order
    /\ \A r \in RowNums, c \in Columns : Kept(r, c) \/ c \in NamedColumns(config)

OwnerInv == Owned /\ (~Idle => PlacesFit)

LEMMA InitOwner ==
    ASSUME OneKeyColumn, Init
    PROVE  OwnerInv
<1>1. columnOf(config.key) \in Columns
  BY DEF OneKeyColumn, Init
<1>2. \A r \in RowNums : sheet[r] = BlankRow
  BY DEF Init
<1>3. \A r \in RowNums : KeyIn(r) = Empty
  BY <1>1, <1>2, TrimEmpty DEF KeyIn, BlankRow
<1>4. Idle
  BY DEF Init, Idle, NoRun
<1> QED
  BY <1>3, <1>4 DEF OwnerInv, Owned

LEMMA MadeKeys ==
    ASSUME TypeOK, NEW row, Made(row)
    PROVE  row.key \in KeysOf(row.order)
  BY DEF Made, KeysOf, TypeOK

LEMMA KeysOfApart ==
    ASSUME KeysKeepApart, NEW o \in Orders, NEW p \in Orders, NEW key, key # Empty,
           key \in KeysOf(o), key \in KeysOf(p)
    PROVE  o = p
<1>1. PICK k \in Configs : \E a \in RowsFor(k, o) : a.key = key
  BY DEF KeysOf
<1>2. PICK l \in Configs : \E b \in RowsFor(l, p) : b.key = key
  BY DEF KeysOf
<1> QED
  BY <1>1, <1>2 DEF KeysKeepApart

LEMMA BeforeIsTotal ==
    ASSUME NEW a \in Places(2), NEW b \in Places(2), a # b
    PROVE  Before(a, b) \/ Before(b, a)
<1>1. /\ DOMAIN a = 1 .. 2 /\ DOMAIN b = 1 .. 2
      /\ a[1] \in Int /\ a[2] \in Int /\ b[1] \in Int /\ b[2] \in Int
  <2>1. a \in Seq(Int) /\ b \in Seq(Int) /\ Len(a) = 2 /\ Len(b) = 2
    BY DEF Places
  <2>2. DOMAIN a = 1 .. 2 /\ DOMAIN b = 1 .. 2
    BY <2>1, LenProperties
  <2>3. 1 \in 1 .. 2 /\ 2 \in 1 .. 2
    OBVIOUS
  <2> QED
    BY <2>1, <2>2, <2>3, ElementOfSeq
<1>2. CASE a[1] # b[1]
  <2>1. a[1] < b[1] \/ b[1] < a[1]
    BY <1>1, <1>2
  <2>2. 1 \in DOMAIN a /\ 1 \in DOMAIN b /\ \A m \in 1 .. 1 - 1 : FALSE
    BY <1>1
  <2> QED
    BY <2>1, <2>2 DEF Before
<1>3. CASE a[1] = b[1]
  <2>1. a[2] # b[2]
    BY <1>3, SeqEqual DEF Places
  <2>2. a[2] < b[2] \/ b[2] < a[2]
    BY <1>1, <2>1
  <2>3. 2 \in DOMAIN a /\ 2 \in DOMAIN b /\ \A m \in 1 .. 2 - 1 : m = 1
    BY <1>1
  <2> QED
    BY <1>3, <2>2, <2>3 DEF Before
<1> QED
  BY <1>2, <1>3

\* A planned row is told by its place.
LEMMA PlacesTell ==
    ASSUME NEW W, NEW x \in PlannedRows(W), NEW y \in PlannedRows(W), x.at = y.at
    PROVE  x = y
<1>1. PICK i, j : x = PlannedRow(i, j)
  BY DEF PlannedRows
<1>2. PICK k, l : y = PlannedRow(k, l)
  BY DEF PlannedRows
<1>3. i = k /\ j = l
  BY <1>1, <1>2 DEF PlannedRow
<1> QED
  BY <1>1, <1>2, <1>3

\* New rows get places of their own: what comes later has more before it.
LEMMA InsertsApart ==
    ASSUME TypeOK, NEW W, NEW rows, NEW mode, Planned(W, rows, mode),
           NEW a \in rows, NEW b \in rows, Before(a.at, b.at),
           ActionOf(a, mode) = "INSERT", ActionOf(b, mode) = "INSERT"
    PROVE  TargetOf(a, rows, mode) # TargetOf(b, rows, mode)
<1> DEFINE S(x) == {y \in rows : ActionOf(y, mode) = "INSERT" /\ Before(y.at, x.at)}
<1>1. \A x \in rows : x.at \in Places(2)
  BY PlannedRowMade DEF Planned
<1>2. IsFiniteSet(rows)
  BY PlannedFinite DEF Planned
<1>3. S(a) \in SUBSET S(b) /\ a \in S(b) /\ a \notin S(a)
  BY <1>1, BeforeIsOrder
<1>4. IsFiniteSet(S(a)) /\ IsFiniteSet(S(b))
  <2>1. S(a) \in SUBSET rows /\ S(b) \in SUBSET rows
    OBVIOUS
  <2> HIDE DEF S
  <2> QED
    BY <1>2, <2>1, FS_Subset
<1>5. TargetOf(a, rows, mode) = NextRow + Cardinality(S(a))
  BY DEF TargetOf
<1>6. TargetOf(b, rows, mode) = NextRow + Cardinality(S(b))
  BY DEF TargetOf
<1> HIDE DEF S
<1>7. Cardinality(S(a)) # Cardinality(S(b))
  BY <1>3, <1>4, FS_Subset
<1>8. Cardinality(S(a)) \in Nat /\ Cardinality(S(b)) \in Nat /\ NextRow \in Nat
  BY <1>4, FS_CardinalityType, NextRowIsFree
<1> QED
  BY <1>5, <1>6, <1>7, <1>8

LEMMA PlacesApart ==
    ASSUME TypeOK, NEW W, NEW rows, NEW mode, Planned(W, rows, mode),
           NEW a \in Writable(rows, mode), NEW b \in Writable(rows, mode), a.target = b.target
    PROVE  a = b
<1>1. PICK x \in rows : /\ a = WithTarget(x, a.target) /\ a.target = TargetOf(x, rows, mode)
                        /\ Placed(x, a.target, mode)
  BY WritableRow
<1>2. PICK y \in rows : /\ b = WithTarget(y, b.target) /\ b.target = TargetOf(y, rows, mode)
                        /\ Placed(y, b.target, mode)
  BY WritableRow
<1> SUFFICES x = y
  BY <1>1, <1>2
<1> DEFINE r == a.target
<1>3. NextRow \in Nat /\ r \in Int
  BY NextRowIsFree, WritableRow, SomeRows
<1>4. CASE ActionOf(x, mode) = "UPDATE" /\ ActionOf(y, mode) = "UPDATE"
  <2>1. x.key = y.key
    BY <1>1, <1>2, <1>4 DEF Placed
  <2> QED
    BY <2>1 DEF Planned, Blocked, CollidingKeys
<1>5. CASE ActionOf(x, mode) = "INSERT" /\ ActionOf(y, mode) = "INSERT"
  <2>1. SUFFICES ASSUME x # y PROVE FALSE
    OBVIOUS
  <2>2. x.at \in Places(2) /\ y.at \in Places(2)
    BY PlannedRowMade DEF Planned
  <2>3. x.at # y.at
    BY <2>1, PlacesTell DEF Planned
  <2>4. Before(x.at, y.at) \/ Before(y.at, x.at)
    BY <2>2, <2>3, BeforeIsTotal
  <2> QED
    BY <1>1, <1>2, <1>5, <2>4, InsertsApart
<1>6. CASE \/ ActionOf(x, mode) = "INSERT" /\ ActionOf(y, mode) = "UPDATE"
           \/ ActionOf(x, mode) = "UPDATE" /\ ActionOf(y, mode) = "INSERT"
  <2>1. r < NextRow /\ NextRow <= r
    BY <1>1, <1>2, <1>6 DEF Placed
  <2> HIDE DEF r
  <2> QED
    BY <1>3, <2>1
<1> QED
  BY <1>1, <1>2, <1>4, <1>5, <1>6 DEF Placed

LEMMA StartOwner ==
    ASSUME TypeOK, KeyInv, OwnerInv, OneKeyColumn, KeysKeepApart,
           NEW W, NEW rows, NEW mode, Planned(W, rows, mode)
    PROVE  OwnerInv'
<1> DEFINE todo == Writable(rows, mode)
<1>1. /\ run'.plan = todo /\ run'.before = sheet /\ run'.owned = owner
      /\ UNCHANGED <<store, config, sheet, owner>>
  BY DEF Planned, NoRun
<1>2. ASSUME NEW row \in todo
      PROVE  /\ KeyIn(row.target) \in {Empty, row.key}
             /\ Unused(sheet[row.target]) \/ owner[row.target] = row.order
  <2>1. PICK x \in rows : /\ row.key = x.key /\ row.order = x.order
                          /\ Placed(x, row.target, mode)
    BY WritableRow
  <2>2. row.target \in RowNums
    BY WritableRow
  <2>3. x.order \in Orders /\ Made(x)
    BY PlannedRowMade DEF Planned
  <2>4. CASE row.target \in KeyedRows /\ KeyIn(row.target) = x.key
    <3>1. x.key # Empty
      BY <2>4 DEF KeyedRows
    <3>2. owner[row.target] \in Orders /\ x.key \in KeysOf(owner[row.target])
      BY <2>2, <2>4, <3>1 DEF OwnerInv, Owned
    <3>3. owner[row.target] = x.order
      BY <2>3, <3>1, <3>2, MadeKeys, KeysOfApart
    <3> QED
      BY <2>1, <2>4, <3>3
  <2>5. CASE row.target \notin KeyedRows \cup UsedRows
    BY <2>2, <2>5 DEF KeyedRows, UsedRows, Unused
  <2> QED
    BY <2>1, <2>4, <2>5 DEF Placed
<1>3. \A a, b \in todo : a.target = b.target => a = b
  BY PlacesApart
<1> HIDE DEF todo
<1>4. Owned'
  BY <1>1, KeysStay DEF OwnerInv, Owned, KeysOf, RowsFor, Orders
<1>5. PlacesFit'
  BY <1>1, <1>2, <1>3, KeysStay DEF PlacesFit, Kept, Unused
<1> QED
  BY <1>4, <1>5 DEF OwnerInv

LEMMA BatchOwner ==
    ASSUME TypeOK, OwnerInv, NextBatch \/ RecordLinks
    PROVE  OwnerInv'
<1>1. SamePlan /\ UNCHANGED <<sheet, owner, config>> /\ Owned /\ PlacesFit
  BY BatchSteps DEF OwnerInv
<1>2. Owned'
  BY <1>1, KeysStay DEF Owned, KeysOf, RowsFor, Orders
<1>3. PlacesFit'
  <2>1. NamedColumns(config)' = NamedColumns(config)
    BY <1>1 DEF NamedColumns, columnOf
  <2>2. \A row : Unused(run.before[row.target])' = Unused(run.before[row.target])
    BY <1>1 DEF SamePlan, Unused, Columns
  <2> QED
    BY <1>1, <2>1, <2>2, KeysStay DEF PlacesFit, Kept, SamePlan
<1> QED
  BY <1>2, <1>3 DEF OwnerInv

LEMMA RequestOwner ==
    ASSUME TypeOK, RunInv, KeyInv, OwnerInv, KeysAreShown,
           NEW chunk, Request(chunk)
    PROVE  OwnerInv'
<1>1. /\ SamePlan /\ config' = config /\ chunk \subseteq run.ranges
      /\ TargetsFit /\ OnItsWay /\ PlanBuilt /\ RangesInOrder /\ KeysFit /\ Owned /\ PlacesFit
  BY DEF Request, SamePlan, RunInv, KeyInv, OwnerInv, Idle
<1>2. ASSUME NEW row \in run.plan PROVE KeyIn(row.target)' \in {Empty, row.key}
  <2>1. row.target \in RowNums
    BY <1>1 DEF TargetsFit
  <2>2. \/ KeyIn(row.target)' = KeyIn(row.target)
        \/ \E x \in run.plan : x.target = row.target /\ KeyIn(row.target)' = x.key
    BY <2>1, KeysArrive
  <2> QED
    BY <1>1, <2>2 DEF PlacesFit
<1>3. ASSUME NEW r \in RowNums, KeyIn(r)' # Empty
      PROVE  owner'[r] \in Orders /\ KeyIn(r)' \in KeysOf(owner'[r])
  <2>1. CASE UNCHANGED <<sheet, owner>>
    BY <1>1, <1>3, <2>1, KeysStay DEF Owned
  <2>2. CASE Applied(chunk) /\ \A g \in chunk : g.target # r
    <3>1. sheet'[r] = sheet[r] /\ owner'[r] = owner[r]
      BY <2>2, OtherRowsStay
    <3>2. KeyIn(r)' = KeyIn(r)
      BY <1>1, <3>1 DEF KeyIn, columnOf, Columns
    <3> QED
      BY <1>1, <1>3, <3>1, <3>2 DEF Owned
  <2>3. CASE Applied(chunk) /\ \E g \in chunk : g.target = r
    <3> DEFINE g == CHOOSE h \in chunk : h.target = r
    <3>1. g \in chunk /\ g.target = r
      BY <2>3
    <3>2. owner'[r] = g.order
      BY <2>3 DEF Applied
    <3> HIDE DEF g
    <3>3. PICK row \in run.plan : PartOf(g, row)
      BY <1>1, <3>1 DEF OnItsWay
    <3>4. row.target = r /\ owner'[r] = row.order
      BY <3>1, <3>2, <3>3 DEF PartOf
    <3>5. KeyIn(r)' = row.key
      BY <1>2, <1>3, <3>4
    <3>6. row.order \in Orders /\ row.key \in KeysOf(row.order)
      BY <1>1, MadeKeys DEF PlanBuilt
    <3> QED
      BY <3>4, <3>5, <3>6
  <2> QED
    BY <2>1, <2>2, <2>3 DEF Request
<1>4. ASSUME NEW r \in RowNums, NEW c \in Columns
      PROVE  sheet'[r][c] = run.before[r][c] \/ c \in NamedColumns(config)
  <2>1. CASE sheet'[r][c] = sheet[r][c]
    BY <1>1, <2>1 DEF PlacesFit, Kept
  <2>2. ASSUME NEW g \in chunk, NEW x \in g.cells, x.column = c
        PROVE  c \in NamedColumns(config)
    <3>1. PICK row \in run.plan : PartOf(g, row)
      BY <1>1 DEF OnItsWay
    <3>2. x \in Range(row.cells)
      BY <3>1 DEF PartOf
    <3>3. \A y \in Range(row.cells) : y.column \in NamedColumns(config)
      BY <1>1, RowsAsConfigured DEF PlanBuilt, Made, CellsWellFormed, TypeOK
    <3> QED
      BY <2>2, <3>2, <3>3
  <2>3. CASE Applied(chunk)
    BY <1>1, <2>1, <2>2, <2>3, CellsArrive
  <2>4. CASE UNCHANGED <<sheet, owner>>
    BY <2>1, <2>4
  <2> QED
    BY <2>3, <2>4 DEF Request
<1>5. Owned'
  <2>1. RowNums' = RowNums /\ Orders' = Orders /\ \A o : KeysOf(o)' = KeysOf(o)
    BY DEF RowNums, Orders, KeysOf, RowsFor
  <2> QED
    BY <1>3, <2>1 DEF Owned
<1>6. PlacesFit'
  <2>1. /\ RowNums' = RowNums /\ Columns' = Columns
        /\ NamedColumns(config)' = NamedColumns(config)
    BY <1>1 DEF RowNums, Columns, NamedColumns, columnOf
  <2>2. \A row : Unused(run.before[row.target])' = Unused(run.before[row.target])
    BY <1>1 DEF SamePlan, Unused, Columns
  <2> QED
    BY <1>1, <1>2, <1>4, <2>1, <2>2 DEF PlacesFit, SamePlan, Kept
<1> QED
  BY <1>5, <1>6 DEF OwnerInv

LEMMA BetweenOwner ==
    ASSUME TypeOK, Owned, OneKeyColumn,
           \/ EndRun
           \/ \E o \in Orders : \E content \in Contents[o] : Import(o, content)
           \/ \E c \in Configs : Configure(c)
           \/ \E r \in RowNums, c \in Columns, t \in {Empty, <<"typed">>} : TypeOrErase(r, c, t)
           \/ \E r, s \in RowNums : SwapRows(r, s)
    PROVE  Owned'
<1>1. RowNums' = RowNums /\ Orders' = Orders /\ \A o : KeysOf(o)' = KeysOf(o)
  BY DEF RowNums, Orders, KeysOf, RowsFor
<1>2. CASE /\ owner' = owner
           /\ \A q \in RowNums : KeyIn(q)' = KeyIn(q) \/ KeyIn(q)' = Empty
  BY <1>1, <1>2 DEF Owned
<1>3. CASE EndRun \/ \E o \in Orders : \E content \in Contents[o] : Import(o, content)
  <2>1. sheet' = sheet /\ config' = config /\ owner' = owner
    BY <1>3 DEF EndRun, Import
  <2> QED
    BY <1>2, <2>1, KeysStay
<1>4. CASE \E c \in Configs : Configure(c)
  <2>1. owner' = owner
    BY <1>4 DEF Configure
  <2> QED
    BY <1>2, <1>4, <2>1, ConfigureKeys
<1>5. CASE \E r \in RowNums, c \in Columns, t \in {Empty, <<"typed">>} : TypeOrErase(r, c, t)
  <2>1. owner' = owner
    BY <1>5 DEF TypeOrErase
  <2> QED
    BY <1>2, <1>5, <2>1, TypeOrEraseKeys
<1>6. CASE \E r, s \in RowNums : SwapRows(r, s)
  <2>1. PICK r \in RowNums, s \in RowNums : SwapRows(r, s)
    BY <1>6
  <2> DEFINE from(q) == IF q = r THEN s ELSE IF q = s THEN r ELSE q
  <2>2. \A q \in RowNums : /\ KeyIn(q)' = KeyIn(from(q)) /\ owner'[q] = owner[from(q)]
                           /\ from(q) \in RowNums
    BY <2>1, SwapRowsKeys
  <2> HIDE DEF from
  <2> QED
    BY <1>1, <2>2 DEF Owned
<1> QED
  BY <1>3, <1>4, <1>5, <1>6

LEMMA OwnerStep ==
    ASSUME OneKeyColumn, KeysAreShown, KeysKeepApart
    PROVE  TypeOK /\ RunInv /\ KeyInv /\ OwnerInv /\ [Next]_vars => OwnerInv'
<1> SUFFICES ASSUME TypeOK, RunInv, KeyInv, OwnerInv, [Next]_vars PROVE OwnerInv'
  OBVIOUS
<1>1. ASSUME NEW W \in SUBSET Orders, NEW targeted \in BOOLEAN, StartRun(W, targeted)
      PROVE  OwnerInv'
  <2>1. PICK rows, mode : Planned(W, rows, mode)
    BY <1>1, StartPlans
  <2> QED
    BY <2>1, StartOwner
<1>2. CASE NextBatch \/ RecordLinks
  BY <1>2, BatchOwner
<1>3. CASE SendChunk \/ ChunkFails
  BY <1>3, ChunkIsRequest, RequestOwner
<1>4. CASE \/ EndRun
           \/ \E o \in Orders : \E content \in Contents[o] : Import(o, content)
           \/ \E c \in Configs : Configure(c)
           \/ \E r \in RowNums, c \in Columns, t \in {Empty, <<"typed">>} : TypeOrErase(r, c, t)
           \/ \E r, s \in RowNums : SwapRows(r, s)
  BY <1>4, Between, BetweenOwner DEF OwnerInv
<1>5. CASE UNCHANGED vars
  <2>1. sheet' = sheet /\ config' = config /\ run' = run /\ owner' = owner
    BY <1>5 DEF vars
  <2>2. Owned'
    BY <2>1, KeysStay DEF OwnerInv, Owned, KeysOf, RowsFor, Orders
  <2>3. CASE ~Idle
    <3>1. PlacesFit
      BY <2>3 DEF OwnerInv
    <3>2. NamedColumns(config)' = NamedColumns(config)
      BY <2>1 DEF NamedColumns, columnOf
    <3>3. \A row : Unused(run.before[row.target])' = Unused(run.before[row.target])
      BY <2>1 DEF Unused, Columns
    <3>4. PlacesFit'
      BY <2>1, <3>1, <3>2, <3>3, KeysStay DEF PlacesFit, Kept
    <3> QED
      BY <2>2, <3>4 DEF OwnerInv
  <2>4. CASE Idle
    BY <2>1, <2>2, <2>4 DEF OwnerInv, Idle
  <2> QED
    BY <2>3, <2>4
<1> QED
  BY <1>1, <1>2, <1>3, <1>4, <1>5 DEF Next

\* However a run ends, and whatever requests of it arrived, it changed only
\* cells of configured columns, in rows that were blank when it was planned
\* or hold the very order it writes there, if moreover rows of two orders
\* never share a key: planSync's target rows and buildRowRanges.
THEOREM OthersCellsAreKept ==
    ASSUME OneKeyColumn, KeysAreShown, KeysKeepApart
    PROVE  Spec => []OtherCellsKept
<1>1. Init => TypeOK /\ RunInv /\ KeyInv /\ OwnerInv
  BY InitRun, InitKeys, InitOwner
<1>2. TypeOK /\ RunInv /\ KeyInv /\ OwnerInv /\ [Next]_vars
        => TypeOK' /\ RunInv' /\ KeyInv' /\ OwnerInv'
  BY TypeStep, RunStep, KeyStep, OwnerStep
<1>3. TypeOK /\ RunInv /\ OwnerInv => OtherCellsKept
  <2> SUFFICES ASSUME RunInv, OwnerInv, ~Idle, NEW r \in RowNums, NEW c \in Columns, ~Kept(r, c)
               PROVE  /\ c \in NamedColumns(config)
                      /\ \E row \in run.plan :
                            /\ row.target = r
                            /\ Unused(run.before[r]) \/ run.owned[r] = row.order
    BY DEF OtherCellsKept
  <2>1. OthersWait /\ PlacesFit
    BY DEF RunInv, OwnerInv
  <2>2. PICK row \in run.plan : row.target = r
    BY <2>1 DEF OthersWait, Kept
  <2> QED
    BY <2>1, <2>2 DEF PlacesFit
<1> QED
  BY <1>1, <1>2, <1>3, PTL DEF Spec

-----------------------------------------------------------------------------
(* The ranges of a row: each cell is in one, and what comes last of a      *)
(* column is in the last range with a cell of that column.                 *)

CellsPlaced(cells) ==
    /\ IsFiniteSet(DOMAIN cells) /\ DOMAIN cells \subseteq Int
    /\ \A i \in DOMAIN cells : cells[i].column \in Int

LEMMA PriorIsOrder ==
    ASSUME NEW cells, CellsPlaced(cells)
    PROVE  /\ \A i \in DOMAIN cells : ~Prior(cells, i, i)
           /\ \A i, j, m \in DOMAIN cells :
                 Prior(cells, i, j) /\ Prior(cells, j, m) => Prior(cells, i, m)
           /\ \A i, j \in DOMAIN cells : i = j \/ Prior(cells, i, j) \/ Prior(cells, j, i)
<1>1. \A i \in DOMAIN cells : i \in Int /\ cells[i].column \in Int
  BY DEF CellsPlaced
<1>2. \A i, j \in DOMAIN cells :
         Prior(cells, i, j) <=>
            cells[i].column < cells[j].column \/ (cells[i].column = cells[j].column /\ i < j)
  BY DEF Prior
<1>3. \A i \in DOMAIN cells : ~Prior(cells, i, i)
  BY <1>1, <1>2
<1>4. ASSUME NEW i \in DOMAIN cells, NEW j \in DOMAIN cells, NEW m \in DOMAIN cells,
             Prior(cells, i, j), Prior(cells, j, m)
      PROVE  Prior(cells, i, m)
  BY <1>1, <1>2, <1>4
<1>5. ASSUME NEW i \in DOMAIN cells, NEW j \in DOMAIN cells
      PROVE  i = j \/ Prior(cells, i, j) \/ Prior(cells, j, i)
  BY <1>1, <1>2
<1> QED
  BY <1>3, <1>4, <1>5

\* The last of some cells.
LEMMA LastPrior ==
    ASSUME NEW cells, CellsPlaced(cells), NEW S, S \subseteq DOMAIN cells, S # {}
    PROVE  /\ \E i \in S : \A j \in S : ~Prior(cells, i, j)
           /\ \E i \in S : \A j \in S : ~Prior(cells, j, i)
<1> DEFINE R == {p \in S \X S : Prior(cells, p[1], p[2])}
           Q == {p \in S \X S : Prior(cells, p[2], p[1])}
<1>1. \A i, j \in S : /\ <<i, j>> \in R <=> Prior(cells, i, j)
                      /\ <<i, j>> \in Q <=> Prior(cells, j, i)
  OBVIOUS
<1> HIDE DEF R, Q
<1>2. IsFiniteSet(S)
  <2>1. S \in SUBSET DOMAIN cells
    OBVIOUS
  <2> QED
    BY <2>1, FS_Subset DEF CellsPlaced
<1>3. /\ \A i \in S : ~Prior(cells, i, i)
      /\ \A i, j, m \in S : Prior(cells, i, j) /\ Prior(cells, j, m) => Prior(cells, i, m)
  BY PriorIsOrder
<1>4. \E i \in S : \A j \in S : <<i, j>> \notin R
  <2>1. /\ \A i \in S : <<i, i>> \notin R
        /\ \A i, j, m \in S : <<i, j>> \in R /\ <<j, m>> \in R => <<i, m>> \in R
    BY <1>1, <1>3
  <2> QED
    BY <1>2, <2>1, LastExists
<1>5. \E i \in S : \A j \in S : <<i, j>> \notin Q
  <2>1. /\ \A i \in S : <<i, i>> \notin Q
        /\ \A i, j, m \in S : <<i, j>> \in Q /\ <<j, m>> \in Q => <<i, m>> \in Q
    BY <1>1, <1>3
  <2> QED
    BY <1>2, <2>1, LastExists
<1> QED
  BY <1>1, <1>4, <1>5

\* The cells of the range that begins with cell i.
CellsFrom(cells, i) ==
    {x \in DOMAIN cells : /\ ~Prior(cells, x, i)
                          /\ \A m \in DOMAIN cells : Begins(cells, m) /\ Prior(cells, i, m)
                                                       => Prior(cells, x, m)}

\* The first cell begins a range; of the beginnings up to x, one is last.
LEMMA EveryCellInRange ==
    ASSUME NEW cells, CellsPlaced(cells), NEW x \in DOMAIN cells
    PROVE  \E i \in DOMAIN cells : Begins(cells, i) /\ x \in CellsFrom(cells, i)
<1> DEFINE S == {i \in DOMAIN cells : Begins(cells, i) /\ ~Prior(cells, x, i)}
<1>1. PICK f \in DOMAIN cells : \A j \in DOMAIN cells : ~Prior(cells, j, f)
  BY LastPrior
<1>2. Begins(cells, f)
  <2>1. \A j \in DOMAIN cells : cells[j].column + 1 # cells[f].column
    <3> SUFFICES ASSUME NEW j \in DOMAIN cells, cells[j].column + 1 = cells[f].column
                 PROVE  FALSE
      OBVIOUS
    <3>1. cells[j].column < cells[f].column
      BY DEF CellsPlaced
    <3> QED
      BY <1>1, <3>1 DEF Prior
  <2> QED
    BY <2>1 DEF Begins
<1>3. f \in S
  BY <1>1, <1>2
<1>4. S \subseteq DOMAIN cells
  OBVIOUS
<1> HIDE DEF S
<1>5. PICK i \in S : \A j \in S : ~Prior(cells, i, j)
  BY <1>3, <1>4, LastPrior
<1>6. i \in DOMAIN cells /\ Begins(cells, i) /\ ~Prior(cells, x, i)
  BY <1>5 DEF S
<1>7. ASSUME NEW m \in DOMAIN cells, Begins(cells, m), Prior(cells, i, m) PROVE Prior(cells, x, m)
  BY <1>5, <1>7 DEF S
<1> QED
  BY <1>6, <1>7 DEF CellsFrom

\* The last cells of the columns: what remains of a row in the sheet.
LastCells(row) ==
    {x \in DOMAIN row.cells : \A y \in DOMAIN row.cells :
        row.cells[y].column = row.cells[x].column => y <= x}

\* Cells of the column of x are in the ranges up to that of x, and in that
\* one x is the only one.
LEMMA LastInRange ==
    ASSUME NEW row, CellsPlaced(row.cells), NEW x \in LastCells(row),
           NEW i \in DOMAIN row.cells, Begins(row.cells, i), x \in CellsFrom(row.cells, i),
           NEW k \in DOMAIN row.cells, Begins(row.cells, k), NEW y \in CellsFrom(row.cells, k),
           row.cells[y].column = row.cells[x].column
    PROVE  /\ k = i => y = x
           /\ k # i => Prior(row.cells, k, i)
<1> DEFINE cells == row.cells
<1>1. x \in DOMAIN cells /\ y \in DOMAIN cells /\ x \in Int /\ y \in Int
  BY DEF CellsFrom, CellsPlaced
<1>2. y <= x
  BY <1>1 DEF LastCells
<1>3. y = x \/ Prior(cells, y, x)
  <2>1. y = x \/ y < x
    BY <1>1, <1>2
  <2> QED
    BY <2>1 DEF Prior
<1>4. /\ ~Prior(cells, y, k) /\ ~Prior(cells, x, i)
      /\ \A m \in DOMAIN cells : Begins(cells, m) /\ Prior(cells, i, m) => Prior(cells, x, m)
  BY DEF CellsFrom
<1>5. ASSUME k = i, y # x PROVE FALSE
  <2>1. Prior(cells, y, x)
    BY <1>3, <1>5
  <2>2. Begins(cells, x)
    <3> SUFFICES ASSUME NEW j \in DOMAIN cells, cells[j].column + 1 = cells[x].column
                 PROVE  \E m \in DOMAIN cells : Prior(cells, j, m) /\ Prior(cells, m, x)
      BY DEF Begins
    <3>1. cells[j].column < cells[y].column
      BY DEF CellsPlaced
    <3> QED
      BY <1>1, <2>1, <3>1 DEF Prior
  <2>3. Prior(cells, i, x)
    <3>1. i = y \/ Prior(cells, i, y)
      BY <1>1, <1>4, <1>5, PriorIsOrder
    <3> HIDE DEF cells
    <3> QED
      BY <1>1, <2>1, <3>1, PriorIsOrder DEF cells
  <2> QED
    BY <1>1, <1>4, <2>2, <2>3, PriorIsOrder
<1>6. ASSUME k # i PROVE Prior(cells, k, i)
  <2>1. ~Prior(cells, x, k)
    BY <1>1, <1>3, <1>4, PriorIsOrder
  <2>2. ~Prior(cells, i, k)
    BY <1>4, <2>1
  <2> QED
    BY <1>6, <2>2, PriorIsOrder
<1> QED
  BY <1>5, <1>6

-----------------------------------------------------------------------------
(* The ranges of a batch.                                                  *)

\* The range of a request that begins with cell i of a row.
RangeAt(row, i) ==
    [at |-> row.at \o <<row.cells[i].column, i>>, target |-> row.target, order |-> row.order,
     cells |-> {row.cells[j] : j \in CellsFrom(row.cells, i)}]

LEMMA RangesAt ==
    ASSUME NEW rows
    PROVE  RangesOf(rows) =
             UNION {{RangeAt(row, i) : i \in {x \in DOMAIN row.cells : Begins(row.cells, x)}} :
                        row \in rows}
<1> DEFINE range(row, part) == [at |-> row.at \o part.at, target |-> row.target,
                                order |-> row.order, cells |-> part.cells]
           part(row, i) == [at |-> <<row.cells[i].column, i>>,
                            cells |-> {row.cells[j] : j \in CellsFrom(row.cells, i)}]
           starts(row) == {x \in DOMAIN row.cells : Begins(row.cells, x)}
<1>1. ASSUME NEW row
      PROVE  buildRowRanges(row.cells) = {part(row, i) : i \in starts(row)}
  <2> DEFINE cells == row.cells
             own(i) == {x \in DOMAIN cells : /\ ~Prior(cells, x, i)
                                /\ ~\E m \in DOMAIN cells : /\ Begins(cells, m)
                                                            /\ Prior(cells, i, m)
                                                            /\ ~Prior(cells, x, m)}
  <2>1. \A i : own(i) = CellsFrom(cells, i)
    BY DEF CellsFrom
  <2>2. buildRowRanges(cells) =
           {[at |-> <<cells[i].column, i>>, cells |-> {cells[j] : j \in own(i)}] :
              i \in starts(row)}
    BY DEF buildRowRanges
  <2> HIDE DEF own
  <2> QED
    BY <2>1, <2>2
<1>2. ASSUME NEW row, NEW i PROVE range(row, part(row, i)) = RangeAt(row, i)
  BY DEF RangeAt
<1>3. RangesOf(rows) = UNION {{range(row, p) : p \in buildRowRanges(row.cells)} : row \in rows}
  BY DEF RangesOf
<1> HIDE DEF range, part, starts
<1>4. \A row : {range(row, p) : p \in buildRowRanges(row.cells)} =
              {RangeAt(row, i) : i \in starts(row)}
  <2> SUFFICES ASSUME NEW row
               PROVE  {range(row, p) : p \in buildRowRanges(row.cells)} =
                      {RangeAt(row, i) : i \in starts(row)}
    OBVIOUS
  <2> QED
    BY <1>1, <1>2
<1> DEFINE S(row) == {range(row, p) : p \in buildRowRanges(row.cells)}
           T(row) == {RangeAt(row, i) : i \in starts(row)}
<1>5. RangesOf(rows) = UNION {T(row) : row \in rows}
  <2>1. \A row : S(row) = T(row)
    BY <1>4
  <2>2. RangesOf(rows) = UNION {S(row) : row \in rows}
    BY <1>3
  <2> HIDE DEF S, T
  <2> QED
    BY <2>1, <2>2
<1> QED
  BY <1>5 DEF starts

LEMMA FourPlaces ==
    ASSUME NEW a \in Places(2), NEW p \in Places(2)
    PROVE  \E u \in Places(4) : /\ u = a \o p /\ DOMAIN u = 1 .. 4
                                /\ u[1] = a[1] /\ u[2] = a[2] /\ u[3] = p[1] /\ u[4] = p[2]
<1> DEFINE u == a \o p
<1>1. a \in Seq(Int) /\ Len(a) = 2 /\ p \in Seq(Int) /\ Len(p) = 2
  BY DEF Places
<1>2. /\ u \in Seq(Int) /\ Len(u) = Len(a) + Len(p)
      /\ \A i \in 1 .. Len(a) + Len(p) : u[i] = IF i <= Len(a) THEN a[i] ELSE p[i - Len(a)]
  BY <1>1, ConcatProperties
<1> HIDE DEF u
<1>3. Len(u) = 4 /\ \A i \in 1 .. 4 : u[i] = IF i <= 2 THEN a[i] ELSE p[i - 2]
  BY <1>1, <1>2
<1>4. u[1] = a[1] /\ u[2] = a[2] /\ u[3] = p[1] /\ u[4] = p[2]
  BY <1>3
<1>5. u \in Places(4) /\ DOMAIN u = 1 .. 4
  <2>1. u \in Seq(Int) /\ Len(u) = 4
    BY <1>2, <1>3
  <2>2. DOMAIN u = 1 .. 4
    BY <2>1, LenProperties
  <2> QED
    BY <2>1, <2>2 DEF Places
<1> QED
  BY <1>4, <1>5 DEF u

LEMMA RangeOrder ==
    ASSUME NEW row, row.at \in Places(2), CellsPlaced(row.cells), NEW k \in DOMAIN row.cells,
           NEW i \in DOMAIN row.cells, Prior(row.cells, k, i)
    PROVE  Before(RangeAt(row, k).at, RangeAt(row, i).at)
<1> DEFINE p == <<row.cells[k].column, k>>
           q == <<row.cells[i].column, i>>
<1>1. p \in Places(2) /\ q \in Places(2)
  BY DEF Places, CellsPlaced
<1>2. RangeAt(row, k).at = row.at \o p /\ RangeAt(row, i).at = row.at \o q
  BY DEF RangeAt
<1>3. p[1] = row.cells[k].column /\ p[2] = k /\ q[1] = row.cells[i].column /\ q[2] = i
  OBVIOUS
<1> HIDE DEF p, q
<1>4. PICK u \in Places(4) : /\ u = row.at \o p /\ DOMAIN u = 1 .. 4
                             /\ u[1] = row.at[1] /\ u[2] = row.at[2]
                             /\ u[3] = p[1] /\ u[4] = p[2]
  BY <1>1, FourPlaces
<1>5. PICK v \in Places(4) : /\ v = row.at \o q /\ DOMAIN v = 1 .. 4
                             /\ v[1] = row.at[1] /\ v[2] = row.at[2]
                             /\ v[3] = q[1] /\ v[4] = q[2]
  BY <1>1, FourPlaces
<1>7. /\ u[1] = v[1] /\ u[2] = v[2]
      /\ u[3] < v[3] \/ (u[3] = v[3] /\ u[4] < v[4])
  BY <1>3, <1>4, <1>5 DEF Prior
<1>8. DOMAIN u = 1 .. 4 /\ RangeAt(row, k).at = u /\ RangeAt(row, i).at = v
  BY <1>2, <1>4, <1>5
<1>9. CASE u[3] < v[3]
  <2>1. 3 \in DOMAIN u /\ \A m \in 1 .. 3 - 1 : m = 1 \/ m = 2
    BY <1>8
  <2> QED
    BY <1>7, <1>8, <1>9, <2>1 DEF Before
<1>10. CASE u[3] = v[3] /\ u[4] < v[4]
  <2>1. 4 \in DOMAIN u /\ \A m \in 1 .. 4 - 1 : m = 1 \/ m = 2 \/ m = 3
    BY <1>8
  <2> QED
    BY <1>7, <1>8, <1>10, <2>1 DEF Before
<1> QED
  BY <1>7, <1>9, <1>10

-----------------------------------------------------------------------------
(* What the rows of a batch wait for.                                      *)

Touches(g, r, c) == g.target = r /\ \E y \in g.cells : y.column = c
InSheet(row, x) == sheet[row.target][row.cells[x].column] = Shown(row.cells[x].value)

\* A range is going to write cell x of a row, and no later one its column.
Carries(g, row, x) ==
    /\ g.target = row.target /\ row.cells[x] \in g.cells
    /\ \A y \in g.cells : y.column = row.cells[x].column => y = row.cells[x]
OnTheWay(ranges, row, x) ==
    \E g \in ranges :
        /\ Carries(g, row, x)
        /\ \A h \in ranges : h # g /\ Touches(h, row.target, row.cells[x].column)
                               => Before(h.at, g.at)
Arrived(row, x) ==
    InSheet(row, x) /\ \A h \in run.ranges : ~Touches(h, row.target, row.cells[x].column)

\* While a batch is sent, every cell that is to remain is in the sheet for
\* good, or in a range yet to be sent that no later one overwrites.
Delivery ==
    run.phase = "send" =>
        \A row \in run.batch : \A x \in LastCells(row) :
            OnTheWay(run.ranges, row, x) \/ Arrived(row, x)

TargetsApart == \A a, b \in run.plan : a.target = b.target => a = b

LinkInv == ~Idle => PlanBuilt /\ RangesInOrder /\ TargetsApart /\ Delivery

LEMMA PlannedCells ==
    ASSUME TypeOK, PlanBuilt, NEW row \in run.plan
    PROVE  /\ CellsPlaced(row.cells) /\ row.at \in Places(2)
           /\ \A i \in DOMAIN row.cells : row.cells[i].column \in Columns
<1>1. /\ row.cells \in Seq(Range(row.cells))
      /\ \A x \in Range(row.cells) : x.column \in NamedColumns(config)
      /\ row.at \in Places(2)
  BY RowsAsConfigured DEF PlanBuilt, Made, CellsWellFormed, TypeOK
<1>2. DOMAIN row.cells = 1 .. Len(row.cells) /\ Len(row.cells) \in Nat
  BY <1>1
<1>3. IsFiniteSet(DOMAIN row.cells) /\ DOMAIN row.cells \subseteq Int
  BY <1>2, FS_Interval
<1>4. ASSUME NEW i \in DOMAIN row.cells PROVE row.cells[i].column \in Columns
  <2>1. row.cells[i] \in Range(row.cells)
    BY DEF Range
  <2> QED
    BY <1>1, <2>1, NamedColumnsExist
<1>5. \A i \in DOMAIN row.cells : row.cells[i].column \in Int
  BY <1>4, SomeColumns
<1> QED
  BY <1>1, <1>3, <1>4, <1>5 DEF CellsPlaced

\* A batch has all its cells ahead of it.
LEMMA BatchDelivers ==
    ASSUME TypeOK, PlanBuilt, TargetsApart, NEW rows, rows \subseteq run.plan,
           NEW row \in rows, NEW x \in LastCells(row)
    PROVE  OnTheWay(RangesOf(rows), row, x)
<1>1. CellsPlaced(row.cells) /\ row.at \in Places(2)
  BY PlannedCells
<1>2. x \in DOMAIN row.cells
  BY DEF LastCells
<1>3. PICK i \in DOMAIN row.cells : Begins(row.cells, i) /\ x \in CellsFrom(row.cells, i)
  BY <1>1, <1>2, EveryCellInRange
<1> DEFINE g == RangeAt(row, i)
           c == row.cells[x].column
<1>4. g \in RangesOf(rows)
  <2>1. i \in {y \in DOMAIN row.cells : Begins(row.cells, y)}
    BY <1>3
  <2> HIDE DEF g
  <2>2. g \in {RangeAt(row, j) : j \in {y \in DOMAIN row.cells : Begins(row.cells, y)}}
    BY <2>1 DEF g
  <2> QED
    BY <2>2, RangesAt
<1>5. Carries(g, row, x)
  <2>1. /\ g.target = row.target /\ g.cells = {row.cells[j] : j \in CellsFrom(row.cells, i)}
    BY DEF RangeAt
  <2> HIDE DEF g
  <2>2. ASSUME NEW y \in g.cells, y.column = c PROVE y = row.cells[x]
    <3>1. PICK j \in CellsFrom(row.cells, i) : y = row.cells[j]
      BY <2>1, <2>2
    <3>2. j = x
      BY <1>1, <1>3, <2>2, <3>1, LastInRange
    <3> QED
      BY <3>1, <3>2
  <2> QED
    BY <1>3, <2>1, <2>2 DEF Carries
<1>6. ASSUME NEW h \in RangesOf(rows), h # g, Touches(h, row.target, c)
      PROVE  Before(h.at, g.at)
  <2>1. PICK other \in rows : h \in {RangeAt(other, j) :
                                       j \in {y \in DOMAIN other.cells : Begins(other.cells, y)}}
    <3> HIDE DEF g, c
    <3> QED
      BY <1>6, RangesAt
  <2>2. PICK k \in DOMAIN other.cells : Begins(other.cells, k) /\ h = RangeAt(other, k)
    BY <2>1
  <2>3. other = row
    <3>1. h.target = other.target
      BY <2>2 DEF RangeAt
    <3>2. h.target = row.target
      BY <1>6 DEF Touches
    <3> QED
      BY <3>1, <3>2 DEF TargetsApart
  <2>4. PICK y \in CellsFrom(row.cells, k) : row.cells[y].column = c
    <3>1. h.cells = {row.cells[j] : j \in CellsFrom(row.cells, k)}
      BY <2>2, <2>3 DEF RangeAt
    <3> HIDE DEF g, c
    <3> QED
      BY <1>6, <3>1 DEF Touches
  <2>5. k # i
    BY <1>6, <2>2, <2>3
  <2>6. Prior(row.cells, k, i)
    BY <1>1, <1>3, <2>2, <2>3, <2>4, <2>5, LastInRange
  <2> QED
    BY <1>1, <1>3, <2>2, <2>3, <2>6, RangeOrder
<1> HIDE DEF g, c
<1> QED
  BY <1>4, <1>5, <1>6 DEF OnTheWay, c

-----------------------------------------------------------------------------
(* A request of the first ranges.                                          *)

\* What the last range for a cell carries is what Google shows.
LEMMA CarriedArrives ==
    ASSUME TypeOK, RangesInOrder, NEW chunk, chunk \subseteq run.ranges, Applied(chunk),
           NEW row, row.target \in RowNums, NEW x, row.cells[x].column \in Columns,
           NEW g \in chunk, Carries(g, row, x),
           \A h \in chunk : h # g /\ Touches(h, row.target, row.cells[x].column)
                              => Before(h.at, g.at)
    PROVE  InSheet(row, x)'
<1> DEFINE r == row.target
           c == row.cells[x].column
           sent == Sent(chunk, r, c)
<1>1. \A h : h \in sent <=> h \in chunk /\ Touches(h, r, c)
  BY DEF Sent, Touches
<1>2. g \in sent
  BY <1>1 DEF Carries, Touches
<1>3. \A h \in sent : ~Before(g.at, h.at)
  <2> SUFFICES ASSUME NEW h \in sent, Before(g.at, h.at) PROVE FALSE
    OBVIOUS
  <2>1. h \in chunk /\ Touches(h, r, c) /\ g.at \in Places(4) /\ h.at \in Places(4)
    BY <1>1 DEF RangesInOrder
  <2>2. h # g
    BY <2>1, BeforeIsOrder
  <2>3. Before(h.at, g.at)
    BY <2>1, <2>2
  <2>4. Before(g.at, g.at)
    BY <2>1, <2>3, BeforeIsOrder
  <2> QED
    BY <2>1, <2>4, BeforeIsOrder
<1>4. \A h \in sent : (\A other \in sent : ~Before(h.at, other.at)) => h = g
  <2> SUFFICES ASSUME NEW h \in sent, h # g PROVE Before(h.at, g.at)
    BY <1>2
  <2> QED
    BY <1>1
<1> HIDE DEF sent
<1>5. (CHOOSE h \in sent : \A other \in sent : ~Before(h.at, other.at)) = g
  BY <1>2, <1>3, <1>4
<1>6. LastSent(chunk, r, c) = CHOOSE y \in g.cells : y.column = c
  BY <1>5 DEF LastSent, sent
<1>7. LastSent(chunk, r, c) = row.cells[x]
  <2>1. row.cells[x] \in g.cells /\ \A y \in g.cells : y.column = c => y = row.cells[x]
    BY DEF Carries
  <2> QED
    BY <1>6, <2>1
<1> DEFINE new(s, d) == Shown(LastSent(chunk, s, d).value)
<1>8. sheet' = [s \in RowNums |-> [d \in Columns |->
                  IF Sent(chunk, s, d) = {} THEN sheet[s][d] ELSE new(s, d)]]
  BY DEF Applied
<1>9. Sent(chunk, r, c) # {} /\ new(r, c) = Shown(row.cells[x].value)
  BY <1>2, <1>7 DEF sent
<1> HIDE DEF new
<1>10. sheet'[r][c] = Shown(row.cells[x].value)
  BY <1>8, <1>9
<1> QED
  BY <1>10 DEF InSheet

LEMMA ChunkDelivers ==
    ASSUME TypeOK, RunInv, LinkInv, SendChunk
    PROVE  Delivery'
<1>1. PICK chunk \in FirstOf(run.ranges, ChunkSize) :
          Applied(chunk) /\ run' = [run EXCEPT !.ranges = @ \ chunk]
  BY DEF SendChunk
<1>2. /\ chunk \subseteq run.ranges
      /\ \A a \in chunk, b \in run.ranges \ chunk : Before(a.at, b.at)
  BY DEF FirstOf
<1>3. /\ run'.ranges = run.ranges \ chunk /\ run'.batch = run.batch /\ run'.phase = "send"
      /\ run.phase = "send"
  BY <1>1 DEF SendChunk, TypeOK, RunFields
<1>4. PlanBuilt /\ RangesInOrder /\ Delivery /\ run.batch \subseteq run.plan /\ TargetsFit
  BY <1>3 DEF LinkInv, RunInv, OnItsWay, Idle
<1> SUFFICES ASSUME NEW row \in run.batch, NEW x \in LastCells(row)
             PROVE  OnTheWay(run'.ranges, row, x) \/ Arrived(row, x)'
  BY <1>3 DEF Delivery, OnTheWay, Carries, Touches, LastCells
<1> DEFINE c == row.cells[x].column
<1>5. row \in run.plan /\ x \in DOMAIN row.cells
  BY <1>4 DEF LastCells
<1>6. c \in Columns /\ row.target \in RowNums
  BY <1>4, <1>5, PlannedCells DEF TargetsFit
<1>7. CASE OnTheWay(run.ranges, row, x)
  <2>1. PICK g \in run.ranges :
            /\ Carries(g, row, x)
            /\ \A h \in run.ranges : h # g /\ Touches(h, row.target, c) => Before(h.at, g.at)
    BY <1>7 DEF OnTheWay
  <2>2. CASE g \notin chunk
    BY <1>3, <2>1, <2>2 DEF OnTheWay
  <2>3. CASE g \in chunk
    <3>1. InSheet(row, x)'
      BY <1>1, <1>2, <1>4, <1>6, <2>1, <2>3, CarriedArrives
    <3>2. ASSUME NEW h \in run'.ranges, Touches(h, row.target, c) PROVE FALSE
      <4>1. h \in run.ranges /\ h # g /\ Before(g.at, h.at)
        BY <1>2, <1>3, <2>3, <3>2
      <4>2. Before(h.at, g.at) /\ g.at \in Places(4) /\ h.at \in Places(4)
        BY <1>4, <2>1, <3>2, <4>1 DEF RangesInOrder
      <4> QED
        BY <4>1, <4>2, BeforeIsOrder
    <3> QED
      BY <3>1, <3>2 DEF Arrived, Touches
  <2> QED
    BY <2>2, <2>3
<1>8. CASE Arrived(row, x)
  <2>1. \A h \in run.ranges : ~Touches(h, row.target, c)
    BY <1>8 DEF Arrived
  <2>2. Sent(chunk, row.target, c) = {}
    BY <1>2, <2>1 DEF Sent, Touches
  <2>3. sheet'[row.target][c] = sheet[row.target][c]
    <3> DEFINE new(s, d) == Shown(LastSent(chunk, s, d).value)
    <3>1. sheet' = [s \in RowNums |-> [d \in Columns |->
                      IF Sent(chunk, s, d) = {} THEN sheet[s][d] ELSE new(s, d)]]
      BY <1>1 DEF Applied
    <3> HIDE DEF new, c
    <3> QED
      BY <1>6, <2>2, <3>1
  <2>4. InSheet(row, x)'
    BY <1>8, <2>3 DEF Arrived, InSheet
  <2> QED
    BY <1>3, <2>1, <2>4 DEF Arrived, Touches
<1> QED
  BY <1>3, <1>4, <1>7, <1>8 DEF Delivery

-----------------------------------------------------------------------------
(* Links are recorded of what arrived.                                     *)

LEMMA StartLinks ==
    ASSUME TypeOK, NEW W, NEW rows, NEW mode, Planned(W, rows, mode)
    PROVE  LinkInv'
<1> DEFINE todo == Writable(rows, mode)
<1>1. /\ run'.plan = todo /\ run'.ranges = {} /\ run'.phase = "batch"
      /\ UNCHANGED <<store, config, sheet, owner>>
  BY DEF Planned, NoRun
<1>2. \A row \in todo : row.order \in Orders /\ Made(row) /\ row.at \in Places(2)
  BY PlannedAsMade
<1>3. IsFiniteSet(todo)
  BY PlannedFinite, WritableFinite DEF Planned
<1>4. \A a, b \in todo : a.target = b.target => a = b
  BY PlacesApart
<1> HIDE DEF todo
<1>5. PlanBuilt'
  BY <1>1, <1>2, <1>3 DEF PlanBuilt, Made, RowsFor, Orders
<1>6. RangesInOrder'
  BY <1>1, FS_EmptySet DEF RangesInOrder
<1>7. TargetsApart' /\ Delivery'
  BY <1>1, <1>4 DEF TargetsApart, Delivery
<1> QED
  BY <1>5, <1>6, <1>7 DEF LinkInv

LEMMA BatchLinks ==
    ASSUME TypeOK, RunInv, LinkInv, NextBatch \/ RecordLinks
    PROVE  LinkInv'
<1>1. SamePlan /\ sheet' = sheet /\ config' = config /\ ~Idle
  BY BatchSteps
<1>2. OnItsWay /\ PlanBuilt /\ RangesInOrder /\ TargetsApart
  BY <1>1 DEF RunInv, LinkInv
<1>3. PlanBuilt' /\ TargetsApart'
  BY <1>1, <1>2, PlanBuiltOn DEF TargetsApart, SamePlan
<1>4. CASE NextBatch
  <2>1. PICK rows \in FirstOf(run.left, BatchSize) :
            run' = [run EXCEPT !.phase = "send", !.batch = rows, !.ranges = RangesOf(rows),
                               !.left = @ \ rows]
    BY <1>4 DEF NextBatch
  <2>2. run'.batch = rows /\ run'.ranges = RangesOf(rows) /\ rows \subseteq run.plan
    BY <1>2, <2>1 DEF TypeOK, RunFields, FirstOf, OnItsWay
  <2>3. RangesInOrder'
    BY <1>2, <2>2, RangesOfBatch DEF RangesInOrder, Places
  <2>4. \A row \in rows : \A x \in LastCells(row) : OnTheWay(RangesOf(rows), row, x)
    BY <1>2, <2>2, BatchDelivers
  <2>5. Delivery'
    BY <2>2, <2>4 DEF Delivery, OnTheWay, Carries, Touches, LastCells
  <2> QED
    BY <1>3, <2>3, <2>5 DEF LinkInv
<1>5. CASE RecordLinks
  <2>1. run'.ranges = run.ranges /\ run'.phase = "batch"
    BY <1>5 DEF RecordLinks, TypeOK, RunFields
  <2>2. RangesInOrder' /\ Delivery'
    BY <1>2, <2>1 DEF RangesInOrder, Delivery, Places
  <2> QED
    BY <1>3, <2>2 DEF LinkInv
<1> QED
  BY <1>4, <1>5

LEMMA RequestLinks ==
    ASSUME TypeOK, RunInv, LinkInv, SendChunk \/ ChunkFails
    PROVE  LinkInv'
<1>1. PICK chunk : Request(chunk)
  BY ChunkIsRequest
<1>2. /\ SamePlan /\ config' = config /\ run'.ranges \subseteq run.ranges
      /\ PlanBuilt /\ RangesInOrder /\ TargetsApart
  BY <1>1 DEF Request, SamePlan, LinkInv, Idle
<1>3. PlanBuilt' /\ TargetsApart'
  BY <1>2, PlanBuiltOn DEF TargetsApart, SamePlan
<1>4. RangesInOrder'
  <2>1. run'.ranges \in SUBSET run.ranges
    BY <1>2
  <2>2. IsFiniteSet(run'.ranges)
    BY <1>2, <2>1, FS_Subset DEF RangesInOrder
  <2> QED
    BY <1>2, <2>2 DEF RangesInOrder, Places
<1>5. Delivery'
  <2>1. CASE SendChunk
    BY <2>1, ChunkDelivers
  <2>2. CASE ChunkFails
    <3>1. run'.phase = "batch"
      BY <2>2 DEF ChunkFails, TypeOK, RunFields
    <3> QED
      BY <3>1 DEF Delivery
  <2> QED
    BY <2>1, <2>2
<1> QED
  BY <1>3, <1>4, <1>5 DEF LinkInv

LEMMA LinkStep == TypeOK /\ RunInv /\ LinkInv /\ [Next]_vars => LinkInv'
<1> SUFFICES ASSUME TypeOK, RunInv, LinkInv, [Next]_vars PROVE LinkInv'
  OBVIOUS
<1>1. CASE \E W \in SUBSET Orders, targeted \in BOOLEAN : StartRun(W, targeted)
  BY <1>1, StartPlans, StartLinks
<1>2. CASE NextBatch \/ RecordLinks
  BY <1>2, BatchLinks
<1>3. CASE SendChunk \/ ChunkFails
  BY <1>3, RequestLinks
<1>4. CASE \/ EndRun
           \/ \E o \in Orders : \E content \in Contents[o] : Import(o, content)
           \/ \E c \in Configs : Configure(c)
           \/ \E r \in RowNums, c \in Columns, t \in {Empty, <<"typed">>} : TypeOrErase(r, c, t)
           \/ \E r, s \in RowNums : SwapRows(r, s)
  <2>1. Idle'
    BY <1>4, Between
  <2> QED
    BY <2>1 DEF LinkInv
<1>5. CASE UNCHANGED vars
  BY <1>5 DEF vars, LinkInv, Idle, PlanBuilt, Made, RowsFor, Orders, RangesInOrder, Places,
              TargetsApart, Delivery, OnTheWay, Arrived, InSheet, Carries, Touches, LastCells
<1> QED
  BY <1>1, <1>2, <1>3, <1>4, <1>5 DEF Next

\* What a row is to show: in each column the last of its cells.
RowShown(row) == \A x \in LastCells(row) : InSheet(row, x)

\* A step that changes what is known of a key does so for a row of the batch.
LinkedRowsAreShown ==
    \A key \in DOMAIN link' : (key \in DOMAIN link => link'[key] # link[key]) =>
        \E row \in run.batch : row.key = key /\ link'[key] = Hash(row) /\ RowShown(row)

LEMMA RecordedRows ==
    ASSUME NEW rows, link' = Linked(rows), NEW key \in DOMAIN link',
           key \in DOMAIN link => link'[key] # link[key]
    PROVE  \E row \in rows : row.key = key /\ link'[key] = Hash(row)
<1> DEFINE mine == {row \in rows : row.key = key}
           picked == CHOOSE row \in rows : row.key = key
<1>1. /\ key \in DOMAIN link \cup {row.key : row \in rows}
      /\ link'[key] = IF \E row \in rows : row.key = key THEN Hash(picked) ELSE link[key]
  BY DEF Linked
<1>2. \E row \in rows : row.key = key
  BY <1>1
<1>3. picked \in rows /\ picked.key = key
  BY <1>2
<1> HIDE DEF picked
<1> QED
  BY <1>1, <1>2, <1>3

\* A hash is recorded in a link only when every column of the row that it is
\* the hash of shows what that row has for it, at the row's place in the
\* sheet, however the batch was cut into requests and whichever of them
\* failed: later runs skip the row by that hash. For any configurations and
\* data. (buildRowRanges, the requests of writeRows, recordLinks.)
THEOREM LinksAreShown == Spec => [][LinkedRowsAreShown]_vars
<1>1. Init => TypeOK /\ RunInv /\ LinkInv
  BY InitRun DEF Init, NoRun, LinkInv, Idle
<1>2. TypeOK /\ RunInv /\ LinkInv /\ [Next]_vars => TypeOK' /\ RunInv' /\ LinkInv'
  BY TypeStep, RunStep, LinkStep
<1>3. TypeOK /\ RunInv /\ LinkInv /\ [Next]_vars => [LinkedRowsAreShown]_vars
  <2> SUFFICES ASSUME TypeOK, RunInv, LinkInv, Next PROVE LinkedRowsAreShown
    OBVIOUS
  <2>1. CASE RecordLinks
    <3> SUFFICES ASSUME NEW key \in DOMAIN link', key \in DOMAIN link => link'[key] # link[key]
                 PROVE  \E row \in run.batch : /\ row.key = key /\ link'[key] = Hash(row)
                                               /\ RowShown(row)
      BY DEF LinkedRowsAreShown
    <3>0. PICK n : \E rows \in FirstOf(run.batch, n) : link' = Linked(rows)
      BY <2>1 DEF RecordLinks
    <3>1. PICK rows \in FirstOf(run.batch, n) : link' = Linked(rows)
      BY <3>0
    <3>2. rows \subseteq run.batch /\ run.phase = "send" /\ run.ranges = {} /\ Delivery
      BY <2>1 DEF RecordLinks, FirstOf, LinkInv, Idle
    <3>3. PICK row \in rows : row.key = key /\ link'[key] = Hash(row)
      BY <3>1, RecordedRows
    <3>4. RowShown(row)
      BY <3>2 DEF Delivery, OnTheWay, Arrived, RowShown
    <3> QED
      BY <3>2, <3>3, <3>4
  <2>2. CASE ~RecordLinks
    <3>1. link' = link
      BY <2>2 DEF Next, StartRun, NextBatch, SendChunk, ChunkFails, EndRun, Import, Configure,
                  TypeOrErase, SwapRows
    <3> QED
      BY <3>1 DEF LinkedRowsAreShown
  <2> QED
    BY <2>1, <2>2
<1> QED
  BY <1>1, <1>2, <1>3, PTL DEF Spec

\* The cell just before one that does not begin its range.
LEMMA CellBefore ==
    ASSUME NEW cells, CellsPlaced(cells), NEW i \in DOMAIN cells,
           NEW x \in CellsFrom(cells, i), x # i
    PROVE  \E j \in CellsFrom(cells, i) :
              /\ Prior(cells, j, x) /\ cells[j].column + 1 = cells[x].column
              /\ ~\E m \in DOMAIN cells : Prior(cells, j, m) /\ Prior(cells, m, x)
<1>1. /\ x \in DOMAIN cells /\ ~Prior(cells, x, i)
      /\ \A m \in DOMAIN cells : Begins(cells, m) /\ Prior(cells, i, m) => Prior(cells, x, m)
  BY DEF CellsFrom
<1>2. Prior(cells, i, x)
  BY <1>1, PriorIsOrder
<1>3. ~Begins(cells, x)
  BY <1>1, <1>2, PriorIsOrder
<1>4. PICK j \in DOMAIN cells : /\ cells[j].column + 1 = cells[x].column
                                /\ ~\E m \in DOMAIN cells : Prior(cells, j, m) /\ Prior(cells, m, x)
  BY <1>3 DEF Begins
<1>5. Prior(cells, j, x)
  <2>1. cells[j].column < cells[x].column
    BY <1>1, <1>4 DEF CellsPlaced
  <2> QED
    BY <2>1 DEF Prior
<1>6. ~Prior(cells, j, i)
  BY <1>2, <1>4
<1>7. \A m \in DOMAIN cells : Begins(cells, m) /\ Prior(cells, i, m) => Prior(cells, j, m)
  BY <1>1, <1>5, PriorIsOrder
<1> QED
  BY <1>4, <1>5, <1>6, <1>7 DEF CellsFrom

\* Columns from that of the first cell to that of any other are all there.
LEMMA NoGap ==
    ASSUME NEW cells, CellsPlaced(cells), NEW i \in DOMAIN cells,
           NEW x \in CellsFrom(cells, i), NEW c \in Int,
           cells[i].column <= c, c <= cells[x].column
    PROVE  \E z \in CellsFrom(cells, i) : cells[z].column = c
<1> DEFINE S == {z \in CellsFrom(cells, i) : c <= cells[z].column}
<1>1. S \subseteq DOMAIN cells /\ x \in S
  BY DEF CellsFrom
<1>2. PICK z \in S : \A y \in S : ~Prior(cells, y, z)
  <2> HIDE DEF S
  <2> QED
    BY <1>1, LastPrior
<1>3. z \in DOMAIN cells /\ z \in CellsFrom(cells, i) /\ c <= cells[z].column
  BY <1>1, <1>2
<1>4. CASE z = i
  BY <1>3, <1>4 DEF CellsPlaced
<1>5. CASE z # i
  <2>1. PICK j \in CellsFrom(cells, i) : Prior(cells, j, z) /\ cells[j].column + 1 = cells[z].column
    BY <1>3, <1>5, CellBefore
  <2>2. ~(c <= cells[j].column)
    BY <1>2, <2>1
  <2>3. cells[j].column \in Int /\ cells[z].column \in Int
    BY <1>3 DEF CellsPlaced, CellsFrom
  <2> QED
    BY <1>3, <2>1, <2>2, <2>3
<1> QED
  BY <1>4, <1>5

\* A column once.
LEMMA OncePerRange ==
    ASSUME NEW cells, CellsPlaced(cells), NEW i \in DOMAIN cells,
           NEW x \in CellsFrom(cells, i), NEW y \in CellsFrom(cells, i),
           cells[x].column = cells[y].column
    PROVE  x = y
<1>1. ASSUME NEW a \in CellsFrom(cells, i), NEW b \in CellsFrom(cells, i), Prior(cells, a, b),
             cells[a].column = cells[b].column
      PROVE  FALSE
  <2>1. a \in DOMAIN cells /\ b \in DOMAIN cells /\ b # i
    BY <1>1, PriorIsOrder DEF CellsFrom
  <2>2. PICK j \in CellsFrom(cells, i) : /\ Prior(cells, j, b)
                                         /\ cells[j].column + 1 = cells[b].column
                                         /\ ~\E m \in DOMAIN cells :
                                               Prior(cells, j, m) /\ Prior(cells, m, b)
    BY <2>1, CellBefore
  <2>3. cells[j].column < cells[a].column
    BY <1>1, <2>1, <2>2 DEF CellsPlaced, CellsFrom
  <2> QED
    BY <1>1, <2>1, <2>2, <2>3 DEF Prior
<1>2. x \in DOMAIN cells /\ y \in DOMAIN cells
  BY DEF CellsFrom
<1> QED
  BY <1>1, <1>2, PriorIsOrder

\* A range is a stretch of columns with one cell in each.
Whole(g) ==
    \A x, y \in g.cells, c \in Columns :
        x.column <= c /\ c <= y.column =>
            \E z \in g.cells : z.column = c /\ \A w \in g.cells : w.column = c => w = z
WholeRanges == \A g \in run.ranges : Whole(g)

\* buildRowRanges makes no other ranges.
LEMMA RangeWhole ==
    ASSUME NEW row, CellsPlaced(row.cells), NEW i \in DOMAIN row.cells
    PROVE  Whole(RangeAt(row, i))
<1> DEFINE cells == row.cells
           own == {cells[j] : j \in CellsFrom(cells, i)}
<1>1. RangeAt(row, i).cells = own
  BY DEF RangeAt
<1> SUFFICES ASSUME NEW x \in own, NEW y \in own, NEW c \in Columns,
                    x.column <= c, c <= y.column
             PROVE  \E z \in own : z.column = c /\ \A w \in own : w.column = c => w = z
  BY <1>1 DEF Whole
<1>2. PICK a \in CellsFrom(cells, i) : x = cells[a]
  OBVIOUS
<1>3. PICK b \in CellsFrom(cells, i) : y = cells[b]
  OBVIOUS
<1>4. c \in Int /\ a \in DOMAIN cells /\ cells[a].column \in Int /\ cells[i].column \in Int
  BY SomeColumns DEF CellsFrom, CellsPlaced
<1>5. cells[i].column <= cells[a].column
  <2>1. ~Prior(cells, a, i)
    BY DEF CellsFrom
  <2> QED
    BY <1>4, <2>1 DEF Prior
<1>6. cells[i].column <= c /\ c <= cells[b].column
  BY <1>2, <1>3, <1>4, <1>5
<1>7. PICK z \in CellsFrom(cells, i) : cells[z].column = c
  BY <1>3, <1>4, <1>6, NoGap
<1>8. \A w \in own : w.column = c => w = cells[z]
  BY <1>7, OncePerRange
<1> QED
  BY <1>7, <1>8

\* Every step keeps the ranges of a request whole.
LEMMA WholeStep == TypeOK /\ RunInv /\ LinkInv /\ WholeRanges /\ [Next]_vars => WholeRanges'
<1> SUFFICES ASSUME TypeOK, RunInv, LinkInv, WholeRanges, [Next]_vars PROVE WholeRanges'
  OBVIOUS
<1>1. SUFFICES \/ run'.ranges \subseteq run.ranges
               \/ \A g \in run'.ranges : Whole(g)
  BY DEF WholeRanges, Whole, Columns
<1>2. CASE \E W \in SUBSET Orders, targeted \in BOOLEAN : StartRun(W, targeted)
  <2>1. PICK W, rows, mode : Planned(W, rows, mode)
    BY <1>2, StartPlans
  <2> QED
    BY <2>1 DEF Planned, NoRun
<1>3. CASE NextBatch
  <2>1. PICK rows \in FirstOf(run.left, BatchSize) :
            run' = [run EXCEPT !.phase = "send", !.batch = rows, !.ranges = RangesOf(rows),
                               !.left = @ \ rows]
    BY <1>3 DEF NextBatch
  <2>2. PlanBuilt /\ OnItsWay
    BY <1>3 DEF NextBatch, LinkInv, RunInv, Idle
  <2>3. run'.ranges = RangesOf(rows) /\ rows \subseteq run.plan
    BY <2>1, <2>2 DEF TypeOK, RunFields, FirstOf, OnItsWay
  <2>4. ASSUME NEW g \in RangesOf(rows) PROVE Whole(g)
    <3>1. PICK row \in rows : g \in {RangeAt(row, i) :
                                       i \in {y \in DOMAIN row.cells : Begins(row.cells, y)}}
      BY <2>4, RangesAt
    <3>2. PICK i \in DOMAIN row.cells : g = RangeAt(row, i)
      BY <3>1
    <3>3. CellsPlaced(row.cells)
      BY <2>2, <2>3, PlannedCells
    <3> QED
      BY <3>2, <3>3, RangeWhole
  <2> QED
    BY <2>3, <2>4
<1>4. CASE SendChunk \/ ChunkFails
  BY <1>4, ChunkIsRequest DEF Request
<1>5. CASE RecordLinks
  BY <1>5 DEF RecordLinks, TypeOK, RunFields
<1>6. CASE EndRun
  BY <1>6 DEF EndRun, NoRun
<1>7. CASE \/ \E o \in Orders : \E content \in Contents[o] : Import(o, content)
           \/ \E c \in Configs : Configure(c)
           \/ \E r \in RowNums, c \in Columns, t \in {Empty, <<"typed">>} : TypeOrErase(r, c, t)
           \/ \E r, s \in RowNums : SwapRows(r, s)
           \/ UNCHANGED vars
  BY <1>7 DEF Import, Configure, TypeOrErase, SwapRows, UserEdit, vars
<1> QED
  BY <1>2, <1>3, <1>4, <1>5, <1>6, <1>7 DEF Next

\* A range that is sent covers a stretch of columns and has one cell for each of
\* them, whatever columns the mappings name, in whatever order and however often:
\* values.batchUpdate gets as many values as the range has columns, and a column
\* between two mapped ones is in no range. (buildRowRanges.)
THEOREM RangesAreWhole == Spec => []WholeRanges
<1>1. Init => TypeOK /\ RunInv /\ LinkInv /\ WholeRanges
  BY InitRun DEF Init, NoRun, LinkInv, Idle, WholeRanges
<1>2. TypeOK /\ RunInv /\ LinkInv /\ WholeRanges /\ [Next]_vars
        => TypeOK' /\ RunInv' /\ LinkInv' /\ WholeRanges'
  BY TypeStep, RunStep, LinkStep, WholeStep
<1> QED
  BY <1>1, <1>2, PTL DEF Spec

=============================================================================
