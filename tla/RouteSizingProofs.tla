------------------------- MODULE RouteSizingProofs -------------------------
(***************************************************************************)
(* What RouteSizing promises of a result, for any number of triggers,      *)
(* cycles and hops, any markets and any limits.  Each step moves one task  *)
(* or appends a pending state; so it is enough to say of a single task     *)
(* what it may look like, and that each constructor of a task gives that.  *)
(*                                                                         *)
(* The last part is about an evaluation during which the state stands      *)
(* still and no call fails (BestIfQuiet): a task then knows every size the *)
(* search has asked for, each quote of it is the path the pools give, and  *)
(* the answer is at least as good as all of them.                          *)
(***************************************************************************)
EXTENDS RouteSizing, FiniteSetTheorems, WellFoundedInduction, TLAPS

Asking == {"grid", "refine", "final"}
Stages == Asking \cup {"balance", "finalize", "done"}

IsQuotes(f) ==
  /\ f \in [DOMAIN f -> Seq(Nat)]
  /\ \A a \in DOMAIN f : a \in Nat /\ f[a] # <<>> /\ f[a][1] = a

Paths(f) == {f[a] : a \in DOMAIN f}

\* AnsweredBy of paths no longer than the cycle, as an operator of the values it
\* reads.
Explains(since, states, c, paths) ==
  LET hops == Len(states[Len(states)].curve[c])
      curves(i) == states[i].curve[c]
  IN /\ \A path \in paths : Len(path) <= hops + 1
     /\ \E s \in [1 .. hops -> since .. Len(states)] :
          /\ \A i, j \in DOMAIN s : i < j => s[i] <= s[j]
          /\ \A path \in paths : \A i \in 1 .. Len(path) - 1 :
               /\ path[i] \in DOMAIN curves(s[i])[i]
               /\ path[i + 1] = curves(s[i])[i][path[i]]

Explained(e, paths) == Explains(trigger[e[1]].since, chain, e[2], paths)

Task(at, upper, quoted, flight, waiting, lost, sized) ==
  [at |-> at, upper |-> upper, quoted |-> quoted, flight |-> flight,
   waiting |-> waiting, lost |-> lost, sized |-> sized]

WellFormed(t) ==
  /\ t \in [at : Stages, upper : Nat \cup {Unknown}, quoted : {t.quoted},
            flight : {t.flight}, waiting : SUBSET Nat, lost : BOOLEAN,
            sized : Seq(Nat)]
  /\ IsQuotes(t.quoted) /\ IsQuotes(t.flight)

Single(sizes) == \E best : sizes = {best}

\* Which locals are in use at which stage.
Staged(e, t) ==
  /\ t.waiting # {} => t.at = "grid" /\ ~batched[e[2]]
  /\ t.waiting \cap (DOMAIN t.flight \cup DOMAIN t.quoted) = {}
  /\ t.at = "refine" => batched[e[2]]
  /\ t.at = "final" => Single(DOMAIN t.flight)
  /\ t.at \notin Asking => t.quoted = Asked({}) /\ t.flight = Asked({})
  /\ t.at \in Asking => t.sized = <<>>

\* The sizes of a round come from the balance that was read.
Bounded(e, t) ==
  /\ t.at \in Asking =>
       /\ t.upper \in Nat
       /\ \E i \in Since(e) : t.upper = chain[i].balance[e[2]]
       /\ t.waiting \cup DOMAIN t.quoted \cup DOMAIN t.flight \subseteq 1 .. t.upper
  /\ t.sized # <<>> => \E i \in Since(e) : t.sized[1] \in 1 .. chain[i].balance[e[2]]

\* QuotesAreReal, with the paths of a batched round equally long.
Answered(e, t) ==
  /\ \A a \in DOMAIN t.quoted : Explained(e, {t.quoted[a]})
  /\ \A a \in DOMAIN t.flight : /\ Len(t.flight[a]) <= Len(Now.curve[e[2]])
                                /\ Explained(e, {t.flight[a]})
  /\ batched[e[2]] =>
       /\ \A a, b \in DOMAIN t.flight : Len(t.flight[a]) = Len(t.flight[b])
       /\ Explained(e, Paths(t.flight))
  /\ Explained(e, {t.sized})

TaskInv(e, t) == WellFormed(t) /\ Staged(e, t) /\ Bounded(e, t) /\ Answered(e, t)

Typed ==
  /\ chain \in Seq(Markets) /\ Len(chain) >= 1
  /\ batched \in [Cycles -> BOOLEAN]
  /\ trigger \in [Triggers -> [at : {"idle", "prefetch", "evaluate"}, since : Nat]]
  /\ \A r \in Triggers : trigger[r].since \in 1 .. Len(chain)
  /\ task \in [Evaluations -> {task[e] : e \in Evaluations}]

\* Nothing is evaluated before the balances are prefetched.
Quiet ==
  \A e \in Evaluations : trigger[e[1]].at # "evaluate" => task[e] = Refused(FALSE)

Permits == /\ IsFiniteSet(Coroutines) /\ free \in Nat
           /\ free + Cardinality(Coroutines) = quote_concurrency

\* If nothing moves a size has one path: it goes on, hop by hop, to the end of
\* the cycle or to a hop that fails.
WalkIn(m, c, p) ==
  /\ p \in Seq(Nat) /\ Len(p) \in 1 .. Len(m.curve[c]) + 1
  /\ \A i \in 1 .. Len(p) - 1 : /\ p[i] \in DOMAIN m.curve[c][i]
                               /\ p[i + 1] = m.curve[c][i][p[i]]
Through(m, c, p) == WalkIn(m, c, p) /\ Len(p) = Len(m.curve[c]) + 1
Stuck(m, c, p) ==
  /\ WalkIn(m, c, p) /\ Len(p) <= Len(m.curve[c])
  /\ p[Len(p)] \notin DOMAIN m.curve[c][Len(p)]

Works(m, c, a) == \E p \in Seq(Nat) : Through(m, c, p) /\ p[1] = a
Grid(m, c) == _candidate_amounts(m.balance[c])

NoWorse(p, q) == Gain(p) > Gain(q) \/ (Gain(p) = Gain(q) /\ p[1] <= q[1])

\* The result of a search in a market that stood still.
Verdict(m, c, path) ==
  IF \A a \in Grid(m, c) : ~Works(m, c, a) THEN path = <<>>
  ELSE /\ path # <<>> /\ Through(m, c, path)
       /\ \A p \in Seq(Nat) : Through(m, c, p) /\ p[1] \in Grid(m, c) => NoWorse(path, p)

\* How far a search in a market that stood still has come: no size of the grid
\* that works is forgotten, and the size to be quoted once more is the best.
Searched(m, c, t) ==
  /\ \A a \in DOMAIN t.quoted : Through(m, c, t.quoted[a])
  /\ \A a \in Grid(m, c) : Works(m, c, a) =>
       \/ a \in DOMAIN t.quoted
       \/ t.at = "grid" /\ a \in t.waiting \cup DOMAIN t.flight
  /\ t.at = "grid" =>
       t.waiting \cup DOMAIN t.flight \cup DOMAIN t.quoted \subseteq Grid(m, c)
  /\ t.at # "grid" => \E a \in Grid(m, c) : Works(m, c, a)
  /\ t.at = "final" => \A a \in DOMAIN t.flight :
       /\ a \in DOMAIN t.quoted
       /\ \A b \in DOMAIN t.quoted : NoWorse(t.quoted[a], t.quoted[b])

Still(m, c, t) ==
  ~t.lost => /\ t.at \in Asking => Searched(m, c, t)
             /\ t.at \in {"finalize", "done"} => Verdict(m, c, t.sized)

Unmoved(e) == trigger[e[1]].since = Len(chain)

StillInv ==
  \A e \in Evaluations :
    trigger[e[1]].at = "evaluate" /\ Unmoved(e) => Still(Now, e[2], task[e])

TInv == Typed /\ \A e \in Evaluations : TaskInv(e, task[e])
IInv == TInv /\ Quiet /\ Permits

-----------------------------------------------------------------------------
(* Finite sets of numbers have best elements.                              *)

LEMMA BestExists ==
  ASSUME NEW D, IsFiniteSet(D), D # {}, D \subseteq Nat, NEW g \in [D -> Int]
  PROVE  \E a \in D : \A b \in D : g[a] > g[b] \/ (g[a] = g[b] /\ a <= b)
<1> DEFINE Best(X, a) == \A b \in X : g[a] > g[b] \/ (g[a] = g[b] /\ a <= b)
           T == {X \in FiniteSubsetsOf(D) : X # {} /\ \A a \in X : ~Best(X, a)}
<1>1. SUFFICES ASSUME D \in T PROVE FALSE
  BY DEF FiniteSubsetsOf
<1>2. PICK X \in T : \A Y \in T : ~ (<<Y, X>> \in StrictSubsetOrdering(D))
  <2>1. T \subseteq FiniteSubsetsOf(D) /\ T # {}
    BY <1>1
  <2>2. IsWellFoundedOn(StrictSubsetOrdering(D), FiniteSubsetsOf(D))
    BY FS_StrictSubsetOrderingWellFounded
  <2> HIDE DEF T
  <2> QED
    BY <2>1, <2>2, WFMin
<1>3. PICK x \in X : TRUE
  OBVIOUS
<1>4. X \subseteq D /\ IsFiniteSet(X)
  BY DEF FiniteSubsetsOf
<1>5. X \ {x} \notin T
  BY <1>2, <1>3, <1>4 DEF StrictSubsetOrdering
<1>6. IsFiniteSet(X \ {x})
  BY <1>4, FS_RemoveElement
<1>7. ASSUME X \ {x} = {} PROVE FALSE
  <2>1. Best(X, x)
    <3> SUFFICES ASSUME NEW b \in X PROVE g[x] = g[b] /\ x <= b
      OBVIOUS
    <3>1. b = x
      BY <1>7
    <3> QED
      BY <3>1, <1>3, <1>4
  <2> QED
    BY <2>1, <1>3
<1>8. ASSUME X \ {x} # {} PROVE FALSE
  <2>1. PICK a \in X \ {x} : Best(X \ {x}, a)
    BY <1>4, <1>5, <1>6, <1>8 DEF FiniteSubsetsOf
  <2>2. g[a] \in Int /\ g[x] \in Int /\ a \in Nat /\ x \in Nat
    BY <1>3, <1>4, <2>1
  <2>3. CASE g[a] > g[x] \/ (g[a] = g[x] /\ a <= x)
    <3>1. Best(X, a)
      BY <2>1, <2>3
    <3> QED
      BY <3>1
  <2>4. CASE ~(g[a] > g[x] \/ (g[a] = g[x] /\ a <= x))
    <3>1. Best(X, x)
      <4> SUFFICES ASSUME NEW b \in X PROVE g[x] > g[b] \/ (g[x] = g[b] /\ x <= b)
        OBVIOUS
      <4>1. g[b] \in Int /\ b \in Nat
        BY <1>4
      <4>2. CASE b = x
        BY <4>2, <2>2
      <4>3. CASE b # x
        BY <4>1, <4>3, <2>1, <2>2, <2>4
      <4> QED
        BY <4>2, <4>3
    <3> QED
      BY <3>1, <1>3
  <2> QED
    BY <2>3, <2>4
<1> QED
  BY <1>7, <1>8

LEMMA MinMax ==
  ASSUME NEW S, IsFiniteSet(S), S # {}, S \subseteq Nat
  PROVE  /\ Min(S) \in S /\ \A a \in S : Min(S) <= a
         /\ Max(S) \in S /\ \A a \in S : Max(S) >= a
<1> DEFINE zero == [a \in S |-> 0]
           self == [a \in S |-> a]
<1>1. PICK m \in S : \A b \in S : zero[m] > zero[b] \/ (zero[m] = zero[b] /\ m <= b)
  <2>1. zero \in [S -> Int]
    OBVIOUS
  <2> HIDE DEF zero
  <2> QED
    BY <2>1, BestExists
<1>2. PICK n \in S : \A b \in S : self[n] > self[b] \/ (self[n] = self[b] /\ n <= b)
  <2>1. self \in [S -> Int]
    OBVIOUS
  <2> HIDE DEF self
  <2> QED
    BY <2>1, BestExists
<1>3. \A b \in S : m <= b
  BY <1>1
<1>4. \A b \in S : n >= b
  BY <1>2
<1> QED
  BY <1>3, <1>4 DEF Min, Max

-----------------------------------------------------------------------------
(* Sizes.                                                                  *)

LEMMA GridSizes ==
  ASSUME NEW upper \in Nat
  PROVE  _candidate_amounts(upper) \subseteq 1 .. upper
BY DEF _candidate_amounts

LEMMA RefinedSizes ==
  ASSUME NEW upper \in Nat, NEW grid, grid \subseteq 1 .. upper,
         NEW best \in 1 .. upper
  PROVE  _refine_amounts(grid, best) \subseteq 1 .. upper
<1> DEFINE below == {a \in grid : a < best}
           above == {a \in grid : a > best}
           lo == IF below # {} THEN Max(below) ELSE IF best = 1 THEN 1 ELSE best \div 2
           hi == IF above # {} THEN Min(above) ELSE best
<1>1. /\ below \subseteq 1 .. upper /\ IsFiniteSet(below)
      /\ above \subseteq 1 .. upper /\ IsFiniteSet(above)
  <2>1. IsFiniteSet(1 .. upper)
    BY FS_Interval
  <2> QED
    BY <2>1, FS_Subset
<1>2. lo \in Nat /\ lo >= 1
  <2> HIDE DEF below
  <2>1. below \subseteq Nat /\ IsFiniteSet(below)
    BY <1>1
  <2>2. ASSUME below # {} PROVE Max(below) \in below
    BY <2>1, <2>2, MinMax
  <2>3. best # 1 => best \div 2 \in Nat /\ best \div 2 >= 1
    OBVIOUS
  <2>4. below # {} => Max(below) \in 1 .. upper
    BY <1>1, <2>2
  <2> QED
    BY <2>3, <2>4
<1>3. hi \in 1 .. upper
  <2> HIDE DEF above
  <2>1. above \subseteq Nat /\ IsFiniteSet(above)
    BY <1>1
  <2>2. ASSUME above # {} PROVE Min(above) \in above
    BY <2>1, <2>2, MinMax
  <2> QED
    BY <1>1, <2>2
<1>4. _refine_amounts(grid, best) \subseteq lo .. hi
  BY DEF _refine_amounts
<1> HIDE DEF lo, hi
<1> QED
  BY <1>2, <1>3, <1>4

\* There is a best size when any was quoted, and it is one of them.
LEMMA BestIsQuoted ==
  ASSUME NEW quoted, IsQuotes(quoted), IsFiniteSet(DOMAIN quoted), DOMAIN quoted # {}
  PROVE  /\ _pick_best(quoted) \in DOMAIN quoted
         /\ \A b \in DOMAIN quoted : NoWorse(quoted[_pick_best(quoted)], quoted[b])
<1> DEFINE g == [a \in DOMAIN quoted |-> Gain(quoted[a])]
<1>1. \A a \in DOMAIN quoted : Gain(quoted[a]) \in Int
  <2> SUFFICES ASSUME NEW a \in DOMAIN quoted PROVE Gain(quoted[a]) \in Int
    OBVIOUS
  <2>1. quoted[a] \in Seq(Nat) /\ quoted[a] # <<>>
    BY DEF IsQuotes
  <2>2. Len(quoted[a]) \in Nat /\ Len(quoted[a]) >= 1
    BY <2>1
  <2>3. quoted[a][Len(quoted[a])] \in Nat /\ quoted[a][1] \in Nat
    BY <2>1, <2>2
  <2> QED
    BY <2>3 DEF Gain
<1>2. g \in [DOMAIN quoted -> Int]
  BY <1>1
<1>3. DOMAIN quoted \subseteq Nat
  BY DEF IsQuotes
<1>4. PICK a \in DOMAIN quoted :
        \A b \in DOMAIN quoted : g[a] > g[b] \/ (g[a] = g[b] /\ a <= b)
  <2> HIDE DEF g
  <2> QED
    BY <1>2, <1>3, BestExists
<1>5. \A b \in DOMAIN quoted :
        \/ Gain(quoted[a]) > Gain(quoted[b])
        \/ Gain(quoted[a]) = Gain(quoted[b]) /\ a <= b
  BY <1>4
<1> DEFINE best == _pick_best(quoted)
<1>6. /\ best \in DOMAIN quoted
      /\ \A b \in DOMAIN quoted :
           \/ Gain(quoted[best]) > Gain(quoted[b])
           \/ Gain(quoted[best]) = Gain(quoted[b]) /\ best <= b
  BY <1>5 DEF _pick_best
<1> HIDE DEF best
<1>7. \A b \in DOMAIN quoted : quoted[b][1] = b
  BY DEF IsQuotes
<1>8. \A b \in DOMAIN quoted : NoWorse(quoted[best], quoted[b])
  BY <1>6, <1>7 DEF NoWorse
<1> QED
  BY <1>6, <1>8 DEF best

-----------------------------------------------------------------------------
(* The path of a size when nothing moves.                                  *)

LEMMA LeastNatural ==
  ASSUME NEW T \in SUBSET Nat, T # {}
  PROVE  \E x \in T : \A y \in T : x <= y
<1>1. PICK x \in T : \A y \in T : ~ (<<y, x>> \in {p \in Nat \X Nat : p[1] < p[2]})
  BY NatLessThanWellFounded, WFMin, Zenon DEF OpToRel
<1>2. ASSUME NEW y \in T
      PROVE  x <= y
  <2>1. <<y, x>> \in Nat \X Nat /\ <<y, x>>[1] = y /\ <<y, x>>[2] = x
    OBVIOUS
  <2>2. ~(y < x)
    BY <1>1, <2>1
  <2> QED
    BY <2>2
<1> QED
  BY <1>2

\* A set of naturals that holds 0 and each successor holds all.
LEMMA Induct ==
  ASSUME NEW S, 0 \in S, \A n \in Nat : n \in S => n + 1 \in S
  PROVE  \A n \in Nat : n \in S
<1> SUFFICES ASSUME Nat \ S # {} PROVE FALSE
  OBVIOUS
<1>1. PICK x \in Nat \ S : \A y \in Nat \ S : x <= y
  <2>1. Nat \ S \in SUBSET Nat
    OBVIOUS
  <2> QED
    BY <2>1, LeastNatural
<1>2. x \in Nat /\ x # 0 /\ x - 1 \in Nat /\ x = (x - 1) + 1
  BY <1>1
<1>3. x - 1 \in S
  BY <1>1, <1>2
<1> QED
  BY <1>1, <1>2, <1>3

\* Two walks that begin with one size agree as far as both go.
LEMMA OneWalk ==
  ASSUME NEW m, NEW c, NEW p, NEW q, WalkIn(m, c, p), WalkIn(m, c, q), p[1] = q[1],
         Len(m.curve[c]) \in Nat
  PROVE  \A i \in Nat : i >= 1 /\ i <= Len(p) /\ i <= Len(q) => p[i] = q[i]
<1> DEFINE S == {n \in Nat : n + 1 <= Len(p) /\ n + 1 <= Len(q) => p[n + 1] = q[n + 1]}
<1>1. 0 \in S
  OBVIOUS
<1>2. ASSUME NEW n \in Nat, n \in S PROVE n + 1 \in S
  <2> SUFFICES ASSUME n + 2 <= Len(p), n + 2 <= Len(q) PROVE p[n + 2] = q[n + 2]
    OBVIOUS
  <2>1. Len(p) \in Nat /\ Len(q) \in Nat
    BY DEF WalkIn
  <2>2. n + 1 \in 1 .. Len(p) - 1 /\ n + 1 \in 1 .. Len(q) - 1
    BY <2>1
  <2>3. p[n + 1] = q[n + 1]
    BY <1>2, <2>1
  <2>4. /\ p[(n + 1) + 1] = m.curve[c][n + 1][p[n + 1]]
        /\ q[(n + 1) + 1] = m.curve[c][n + 1][q[n + 1]]
    BY <2>2 DEF WalkIn
  <2>5. (n + 1) + 1 = n + 2
    OBVIOUS
  <2> QED
    BY <2>3, <2>4, <2>5
<1> HIDE DEF S
<1>3. \A n \in Nat : n \in S
  BY <1>1, <1>2, Induct
<1> SUFFICES ASSUME NEW i \in Nat, i >= 1, i <= Len(p), i <= Len(q) PROVE p[i] = q[i]
  OBVIOUS
<1>4. i - 1 \in Nat /\ (i - 1) + 1 = i
  OBVIOUS
<1>5. i - 1 \in S
  BY <1>3, <1>4
<1> QED
  BY <1>4, <1>5 DEF S

LEMMA OneThrough ==
  ASSUME NEW m, NEW c, NEW p, NEW q, Through(m, c, p), Through(m, c, q), p[1] = q[1],
         Len(m.curve[c]) \in Nat
  PROVE  p = q
<1>1. /\ WalkIn(m, c, p) /\ WalkIn(m, c, q) /\ Len(p) = Len(q) /\ Len(p) \in Nat
      /\ p \in Seq(Nat) /\ q \in Seq(Nat)
  BY DEF Through, WalkIn
<1>2. \A i \in 1 .. Len(p) : p[i] = q[i]
  BY <1>1, OneWalk
<1>3. PICK n : n = Len(p)
  OBVIOUS
<1>4. p \in [1 .. n -> Nat] /\ q \in [1 .. n -> Nat]
  BY <1>1, <1>3
<1>5. \A i \in 1 .. n : p[i] = q[i]
  BY <1>2, <1>3
<1> DEFINE f == [i \in 1 .. n |-> p[i]]
<1>6. p = f
  BY <1>4
<1>7. q = f
  BY <1>4, <1>5
<1> HIDE DEF f
<1> QED
  BY <1>6, <1>7

\* A size whose walk ends at a hop that fails does not work.
LEMMA StuckFails ==
  ASSUME NEW m, NEW c, NEW q, Stuck(m, c, q), Len(m.curve[c]) \in Nat
  PROVE  ~Works(m, c, q[1])
<1> SUFFICES ASSUME NEW p \in Seq(Nat), Through(m, c, p), p[1] = q[1] PROVE FALSE
  BY DEF Works
<1>1. /\ WalkIn(m, c, p) /\ WalkIn(m, c, q) /\ Len(q) \in Nat /\ Len(q) >= 1
      /\ Len(q) \in 1 .. Len(p) - 1 /\ Len(p) \in Nat
      /\ q[Len(q)] \notin DOMAIN m.curve[c][Len(q)]
  BY DEF Through, Stuck, WalkIn
<1>2. p[Len(q)] = q[Len(q)]
  <2>1. \A i \in Nat : i >= 1 /\ i <= Len(p) /\ i <= Len(q) => p[i] = q[i]
    BY <1>1, OneWalk
  <2> QED
    BY <1>1, <2>1
<1>3. p[Len(q)] \in DOMAIN m.curve[c][Len(q)]
  BY <1>1 DEF WalkIn
<1> QED
  BY <1>1, <1>2, <1>3

-----------------------------------------------------------------------------
(* Paths and the pending states that explain them.                         *)

LEMMA Moment ==
  ASSUME Typed, NEW e \in Evaluations
  PROVE  /\ e[1] \in Triggers /\ e[2] \in Cycles
         /\ Len(chain) \in Nat \ {0} /\ Len(chain) \in Since(e)
         /\ Since(e) \subseteq 1 .. Len(chain)
         /\ \A i \in 1 .. Len(chain) : chain[i] \in Markets
         /\ Now \in Markets
         /\ \A i \in Since(e) : chain[i].balance[e[2]] \in Nat
         /\ Now.balance[e[2]] \in Nat
         /\ Len(Now.curve[e[2]]) \in Nat \ {0}
<1>1. e[1] \in Triggers /\ e[2] \in Cycles
  BY DEF Evaluations
<1>2. /\ Len(chain) \in Nat /\ Len(chain) >= 1
      /\ \A i \in 1 .. Len(chain) : chain[i] \in Markets
  BY DEF Typed
<1>3. trigger[e[1]].since \in 1 .. Len(chain)
  BY <1>1 DEF Typed
<1>4. Len(chain) \in Since(e) /\ Since(e) \subseteq 1 .. Len(chain)
  BY <1>2, <1>3 DEF Since
<1>5. Now \in Markets
  BY <1>2 DEF Now
<1>6. \A m \in Markets : m.balance[e[2]] \in Nat /\ Len(m.curve[e[2]]) \in Nat \ {0}
  BY <1>1, MarketsAssumption
<1> QED
  BY <1>1, <1>2, <1>4, <1>5, <1>6

\* A hop that does not fail returns what the pool offers for the amount.
LEMMA HopTaken ==
  ASSUME Typed, NEW e \in Evaluations, NEW path \in Seq(Nat),
         Len(path) \in 1 .. Len(Now.curve[e[2]]), HopOutput(e[2], path) # Reverts
  PROVE  /\ HopOutput(e[2], path) \in Nat
         /\ path[Len(path)] \in DOMAIN Now.curve[e[2]][Len(path)]
         /\ HopOutput(e[2], path) = Now.curve[e[2]][Len(path)][path[Len(path)]]
         /\ Append(path, HopOutput(e[2], path)) \in Seq(Nat)
<1>1. /\ path[Len(path)] \in DOMAIN Now.curve[e[2]][Len(path)]
      /\ HopOutput(e[2], path) = Now.curve[e[2]][Len(path)][path[Len(path)]]
  BY DEF HopOutput
<1>2. HopOutput(e[2], path) \in Nat
  BY <1>1, Moment, MarketsAssumption
<1> QED
  BY <1>1, <1>2

LEMMA ExplainedIs ==
  ASSUME NEW e, NEW P
  PROVE  Explained(e, P) <=> /\ AnsweredBy(e, P)
                             /\ \A path \in P : Len(path) <= Len(Now.curve[e[2]]) + 1
BY DEF Explained, Explains, AnsweredBy, Since, Now

LEMMA NothingAsked ==
  ASSUME Typed, NEW e \in Evaluations, NEW P, \A path \in P : Len(path) \in {0, 1}
  PROVE  Explained(e, P)
<1> DEFINE hops == Len(Now.curve[e[2]])
           s == [i \in 1 .. hops |-> Len(chain)]
<1>1. s \in [1 .. hops -> Since(e)]
  BY Moment
<1>2. \A i, j \in DOMAIN s : i < j => s[i] <= s[j]
  BY Moment
<1>3. ASSUME NEW path \in P PROVE 1 .. Len(path) - 1 = {}
  <2>1. Len(path) = 0 \/ Len(path) = 1
    OBVIOUS
  <2>2. \A n \in {0, 1} : 1 .. n - 1 = {}
    OBVIOUS
  <2> QED
    BY <2>1, <2>2
<1> HIDE DEF s
<1>4. AnsweredBy(e, P)
  BY <1>1, <1>2, <1>3 DEF AnsweredBy
<1>5. \A path \in P : Len(path) <= hops + 1
  <2>1. hops \in Nat \ {0}
    BY Moment
  <2> HIDE DEF hops
  <2> QED
    BY <2>1
<1> QED
  BY <1>4, <1>5, ExplainedIs

\* Paths of one length that some order of states explains, each with the answer
\* of one more hop in the present state.
LEMMA OneHopMore ==
  ASSUME Typed, NEW e \in Evaluations, NEW P, NEW n \in 1 .. Len(Now.curve[e[2]]),
         \A path \in P : path \in Seq(Nat) /\ Len(path) = n,
         Explained(e, P), NEW Q,
         \A next \in Q : \E path \in P :
           HopOutput(e[2], path) # Reverts /\ next = Append(path, HopOutput(e[2], path))
  PROVE  Explained(e, Q)
<1> DEFINE c == e[2]
           hops == Len(Now.curve[c])
           At(s, path) ==
             \A i \in 1 .. Len(path) - 1 :
               /\ path[i] \in DOMAIN chain[s[i]].curve[c][i]
               /\ path[i + 1] = chain[s[i]].curve[c][i][path[i]]
<1>1. PICK s \in [1 .. hops -> Since(e)] :
        /\ \A i, j \in DOMAIN s : i < j => s[i] <= s[j]
        /\ \A path \in P : At(s, path)
  <2>1. AnsweredBy(e, P)
    BY ExplainedIs
  <2> QED
    BY <2>1 DEF AnsweredBy
<1> DEFINE u == [i \in 1 .. hops |-> IF i < n THEN s[i] ELSE Len(chain)]
<1>2. hops \in Nat /\ Len(chain) \in Nat /\ Len(chain) \in Since(e)
      /\ \A i \in Since(e) : i \in Nat /\ i <= Len(chain)
  BY Moment
<1>3. u \in [1 .. hops -> Since(e)]
  BY <1>1, <1>2
<1>u. \A i \in 1 .. hops : u[i] = IF i < n THEN s[i] ELSE Len(chain)
  OBVIOUS
<1> HIDE DEF u
<1>4. \A i, j \in DOMAIN u : i < j => u[i] <= u[j]
  <2> SUFFICES ASSUME NEW i \in 1 .. hops, NEW j \in 1 .. hops, i < j
               PROVE  u[i] <= u[j]
    BY <1>3
  <2>1. s[i] \in Since(e) /\ s[j] \in Since(e) /\ s[i] <= s[j]
    BY <1>1
  <2> QED
    BY <1>2, <1>u, <2>1
<1>5. ASSUME NEW next \in Q PROVE At(u, next) /\ Len(next) <= hops + 1
  <2>1. PICK path \in P :
          HopOutput(c, path) # Reverts /\ next = Append(path, HopOutput(c, path))
    BY <1>5
  <2>2. /\ path \in Seq(Nat) /\ Len(path) = n
        /\ HopOutput(c, path) \in Nat
        /\ path[n] \in DOMAIN Now.curve[c][n]
        /\ HopOutput(c, path) = Now.curve[c][n][path[n]]
    BY <2>1, HopTaken
  <2>3. /\ Len(next) - 1 = n /\ next[n + 1] = HopOutput(c, path)
        /\ \A i \in 1 .. n : next[i] = path[i]
    BY <2>1, <2>2
  <2>4. ASSUME NEW i \in 1 .. n
        PROVE  /\ next[i] \in DOMAIN chain[u[i]].curve[c][i]
               /\ next[i + 1] = chain[u[i]].curve[c][i][next[i]]
    <3>1. CASE i = n
      <4>1. u[i] = Len(chain)
        BY <3>1, <1>u
      <4>2. chain[u[i]] = Now
        BY <4>1 DEF Now
      <4>3. next[i] = path[n] /\ next[i + 1] = HopOutput(c, path)
        BY <2>3, <3>1
      <4> QED
        BY <2>2, <3>1, <4>2, <4>3
    <3>2. CASE i # n
      <4>1. i \in 1 .. n - 1 /\ i + 1 \in 1 .. n /\ u[i] = s[i]
        BY <3>2, <1>2, <1>u
      <4>2. /\ path[i] \in DOMAIN chain[s[i]].curve[c][i]
            /\ path[i + 1] = chain[s[i]].curve[c][i][path[i]]
        BY <1>1, <2>2, <4>1
      <4>3. next[i] = path[i] /\ next[i + 1] = path[i + 1]
        BY <2>3, <4>1
      <4> QED
        BY <4>1, <4>2, <4>3
    <3> QED
      BY <3>1, <3>2
  <2>5. Len(next) <= hops + 1
    <3>1. Len(next) = n + 1
      BY <2>1, <2>2
    <3> QED
      BY <1>2, <3>1
  <2> QED
    BY <2>3, <2>4, <2>5
<1>6. AnsweredBy(e, Q)
  BY <1>3, <1>4, <1>5 DEF AnsweredBy
<1> QED
  BY <1>5, <1>6, ExplainedIs

-----------------------------------------------------------------------------
(* What the constructors of a task give.                                   *)

LEMMA AskedFlight ==
  ASSUME Typed, NEW e \in Evaluations, NEW sizes \in SUBSET Nat
  PROVE  /\ IsQuotes(Asked(sizes)) /\ DOMAIN Asked(sizes) = sizes
         /\ \A a \in sizes : /\ Len(Asked(sizes)[a]) = 1
                             /\ Explained(e, {Asked(sizes)[a]})
         /\ Explained(e, Paths(Asked(sizes)))
<1>1. DOMAIN Asked(sizes) = sizes /\ \A a \in sizes : Asked(sizes)[a] = <<a>>
  BY DEF Asked
<1>2. IsQuotes(Asked(sizes))
  <2>1. Asked(sizes) \in [sizes -> Seq(Nat)]
    BY DEF Asked
  <2> QED
    BY <1>1, <2>1 DEF IsQuotes
<1>3. \A a \in sizes : Len(Asked(sizes)[a]) = 1
  BY <1>1
<1>4. ASSUME NEW a \in sizes PROVE Explained(e, {Asked(sizes)[a]})
  <2>1. \A path \in {Asked(sizes)[a]} : Len(path) \in {0, 1}
    BY <1>3
  <2> HIDE DEF Asked
  <2> QED
    BY <2>1, NothingAsked
<1>5. Explained(e, Paths(Asked(sizes)))
  <2>1. \A path \in Paths(Asked(sizes)) : Len(path) \in {0, 1}
    BY <1>1, <1>3 DEF Paths
  <2> QED
    BY <2>1, NothingAsked
<1> QED
  BY <1>1, <1>2, <1>3, <1>4, <1>5

LEMMA TaskFields ==
  ASSUME NEW at, NEW upper, NEW quoted, NEW flight, NEW waiting, NEW lost, NEW sized
  PROVE  LET t == Task(at, upper, quoted, flight, waiting, lost, sized)
         IN /\ t.at = at /\ t.upper = upper /\ t.quoted = quoted /\ t.flight = flight
            /\ t.waiting = waiting /\ t.lost = lost /\ t.sized = sized
            /\ t \in [at : {at}, upper : {upper}, quoted : {quoted}, flight : {flight},
                      waiting : {waiting}, lost : {lost}, sized : {sized}]
BY DEF Task

LEMMA IsTask ==
  ASSUME NEW t, NEW at, NEW upper, NEW quoted, NEW flight, NEW waiting, NEW lost,
         NEW sized,
         t \in [at : {at}, upper : {upper}, quoted : {quoted}, flight : {flight},
                waiting : {waiting}, lost : {lost}, sized : {sized}]
  PROVE  t = Task(at, upper, quoted, flight, waiting, lost, sized)
BY DEF Task

LEMMA WithStage ==
  ASSUME NEW at, NEW upper, NEW quoted, NEW flight, NEW waiting, NEW lost, NEW sized,
         NEW stage
  PROVE  [Task(at, upper, quoted, flight, waiting, lost, sized) EXCEPT !.at = stage]
           = Task(stage, upper, quoted, flight, waiting, lost, sized)
<1> DEFINE t == Task(at, upper, quoted, flight, waiting, lost, sized)
<1>1. t \in [at : {at}, upper : {upper}, quoted : {quoted}, flight : {flight},
             waiting : {waiting}, lost : {lost}, sized : {sized}]
  BY TaskFields
<1> HIDE DEF t
<1>2. [t EXCEPT !.at = stage] \in
        [at : {stage}, upper : {upper}, quoted : {quoted}, flight : {flight},
         waiting : {waiting}, lost : {lost}, sized : {sized}]
  BY <1>1
<1>3. [t EXCEPT !.at = stage] = Task(stage, upper, quoted, flight, waiting, lost, sized)
  BY <1>2, IsTask
<1> QED
  BY <1>3 DEF t

LEMMA EndedAsTask ==
  ASSUME NEW path, NEW lost
  PROVE  /\ Ended(path, lost)
              = Task("done", Unknown, Asked({}), Asked({}), {}, lost, path)
         /\ Refused(lost)
              = Task("done", Unknown, Asked({}), Asked({}), {}, lost, <<>>)
BY DEF Ended, Refused, Task

\* A task that has ended with a path that the pools offered.
LEMMA EndedTask ==
  ASSUME Typed, NEW e \in Evaluations, NEW path \in Seq(Nat), NEW lost \in BOOLEAN,
         Explained(e, {path}), NEW at \in {"balance", "finalize", "done"},
         path # <<>> => \E i \in Since(e) : path[1] \in 1 .. chain[i].balance[e[2]]
  PROVE  TaskInv(e, Task(at, Unknown, Asked({}), Asked({}), {}, lost, path))
<1> DEFINE t == Task(at, Unknown, Asked({}), Asked({}), {}, lost, path)
<1>1. /\ t.at = at /\ t.upper = Unknown /\ t.quoted = Asked({}) /\ t.flight = Asked({})
      /\ t.waiting = {} /\ t.lost = lost /\ t.sized = path
      /\ t \in [at : {at}, upper : {Unknown}, quoted : {Asked({})}, flight : {Asked({})},
                waiting : {{}}, lost : {lost}, sized : {path}]
  BY TaskFields
<1> HIDE DEF t
<1>2. WellFormed(t)
  <2>1. IsQuotes(Asked({}))
    BY AskedFlight
  <2>2. {} \in SUBSET Nat /\ Unknown \in Nat \cup {Unknown} /\ at \in Stages
    BY DEF Stages
  <2>3. t \in [at : Stages, upper : Nat \cup {Unknown}, quoted : {t.quoted},
               flight : {t.flight}, waiting : SUBSET Nat, lost : BOOLEAN, sized : Seq(Nat)]
    BY <1>1, <2>2
  <2> QED
    BY <1>1, <2>1, <2>3 DEF WellFormed
<1>3. Staged(e, t)
  BY <1>1 DEF Staged, Asking, Asked
<1>4. Bounded(e, t)
  BY <1>1 DEF Bounded, Asking
<1>5. Answered(e, t)
  <2>1. DOMAIN Asked({}) = {} /\ Explained(e, Paths(Asked({})))
    BY AskedFlight
  <2> QED
    BY <1>1, <2>1 DEF Answered
<1> QED
  BY <1>2, <1>3, <1>4, <1>5 DEF TaskInv, t

LEMMA RefusedTask ==
  ASSUME Typed, NEW e \in Evaluations, NEW lost \in BOOLEAN
  PROVE  /\ TaskInv(e, Refused(lost))
         /\ TaskInv(e, [Refused(lost) EXCEPT !.at = "balance"])
<1>1. <<>> \in Seq(Nat) /\ Explained(e, {<<>>})
  BY NothingAsked
<1>2. ASSUME NEW at \in {"balance", "done"}
      PROVE  TaskInv(e, Task(at, Unknown, Asked({}), Asked({}), {}, lost, <<>>))
  BY <1>1, EndedTask
<1> QED
  BY <1>2, EndedAsTask, WithStage

\* A round of quotes: those that ended are kept, and sizes are asked for.
LEMMA RoundTask ==
  ASSUME Typed, NEW e \in Evaluations, NEW at \in Asking, NEW upper \in Nat,
         NEW quoted, NEW waiting, NEW sizes, NEW lost \in BOOLEAN,
         \E i \in Since(e) : upper = chain[i].balance[e[2]],
         waiting \cup DOMAIN quoted \cup sizes \subseteq 1 .. upper,
         IsQuotes(quoted), \A a \in DOMAIN quoted : Explained(e, {quoted[a]}),
         waiting # {} => at = "grid" /\ ~batched[e[2]] /\ sizes = {},
         waiting \cap DOMAIN quoted = {},
         at = "refine" => batched[e[2]],
         at = "final" => Single(sizes)
  PROVE  TaskInv(e, Task(at, upper, quoted, Asked(sizes), waiting, lost, <<>>))
<1> DEFINE t == Task(at, upper, quoted, Asked(sizes), waiting, lost, <<>>)
<1>1. /\ t.at = at /\ t.upper = upper /\ t.quoted = quoted /\ t.flight = Asked(sizes)
      /\ t.waiting = waiting /\ t.lost = lost /\ t.sized = <<>>
      /\ t \in [at : {at}, upper : {upper}, quoted : {quoted}, flight : {Asked(sizes)},
                waiting : {waiting}, lost : {lost}, sized : {<<>>}]
  BY TaskFields
<1> HIDE DEF t
<1>2. sizes \in SUBSET Nat /\ waiting \in SUBSET Nat
  OBVIOUS
<1>3. /\ IsQuotes(Asked(sizes)) /\ DOMAIN Asked(sizes) = sizes
      /\ \A a \in sizes : /\ Len(Asked(sizes)[a]) = 1
                          /\ Explained(e, {Asked(sizes)[a]})
      /\ Explained(e, Paths(Asked(sizes)))
  BY <1>2, AskedFlight
<1>4. WellFormed(t)
  <2>1. at \in Stages /\ <<>> \in Seq(Nat)
    BY DEF Stages
  <2>2. t \in [at : Stages, upper : Nat \cup {Unknown}, quoted : {t.quoted},
               flight : {t.flight}, waiting : SUBSET Nat, lost : BOOLEAN, sized : Seq(Nat)]
    BY <1>1, <1>2, <2>1
  <2> QED
    BY <1>1, <1>3, <2>2 DEF WellFormed
<1>5. Staged(e, t)
  BY <1>1, <1>3 DEF Staged, Asking
<1>6. Bounded(e, t)
  BY <1>1, <1>3 DEF Bounded
<1>7. Answered(e, t)
  <2>1. Explained(e, {<<>>})
    BY NothingAsked
  <2>2. 1 <= Len(Now.curve[e[2]])
    BY Moment
  <2>3. \A a \in sizes : /\ Len(Asked(sizes)[a]) <= Len(Now.curve[e[2]])
                         /\ Explained(e, {Asked(sizes)[a]})
    BY <1>3, <2>2
  <2>4. \A a, b \in sizes : Len(Asked(sizes)[a]) = Len(Asked(sizes)[b])
    BY <1>3
  <2> QED
    BY <1>1, <1>3, <2>1, <2>3, <2>4 DEF Answered
<1> QED
  BY <1>4, <1>5, <1>6, <1>7 DEF TaskInv, t

\* A round goes on: some quotes are further, some have ended.
LEMMA SameRound ==
  ASSUME Typed, NEW e \in Evaluations, NEW t, TaskInv(e, t), t.at \in Asking,
         NEW u, u \in [at : {t.at}, upper : {t.upper}, quoted : {u.quoted},
                       flight : {u.flight}, waiting : SUBSET t.waiting,
                       lost : BOOLEAN, sized : {t.sized}],
         IsQuotes(u.quoted), IsQuotes(u.flight),
         DOMAIN u.quoted \cup DOMAIN u.flight
           \subseteq t.waiting \cup DOMAIN t.quoted \cup DOMAIN t.flight,
         u.waiting \cap (DOMAIN u.flight \cup DOMAIN u.quoted) = {},
         t.at = "final" => DOMAIN u.flight = DOMAIN t.flight,
         \A a \in DOMAIN u.quoted : Explained(e, {u.quoted[a]}),
         \A a \in DOMAIN u.flight : /\ Len(u.flight[a]) <= Len(Now.curve[e[2]])
                                    /\ Explained(e, {u.flight[a]}),
         batched[e[2]] =>
           /\ \A a, b \in DOMAIN u.flight : Len(u.flight[a]) = Len(u.flight[b])
           /\ Explained(e, Paths(u.flight))
  PROVE  TaskInv(e, u)
<1>1. /\ u.at = t.at /\ u.upper = t.upper /\ u.sized = t.sized
      /\ u.waiting \subseteq t.waiting
  OBVIOUS
<1>2. WellFormed(u)
  <2>1. /\ t.at \in Stages /\ t.upper \in Nat \cup {Unknown}
        /\ t.waiting \in SUBSET Nat /\ t.sized \in Seq(Nat)
    BY DEF TaskInv, WellFormed
  <2>2. u \in [at : Stages, upper : Nat \cup {Unknown}, quoted : {u.quoted},
               flight : {u.flight}, waiting : SUBSET Nat, lost : BOOLEAN, sized : Seq(Nat)]
    BY <2>1
  <2> QED
    BY <2>2 DEF WellFormed
<1>3. Staged(e, u)
  BY <1>1 DEF TaskInv, Staged
<1>4. Bounded(e, u)
  BY <1>1 DEF TaskInv, Bounded, Staged
<1>5. Answered(e, u)
  BY <1>1 DEF TaskInv, Answered
<1> QED
  BY <1>2, <1>3, <1>4, <1>5 DEF TaskInv

\* What Settled makes of a round that has ended.
LEMMA SettledTask ==
  ASSUME Typed, NEW e \in Evaluations, NEW t, TaskInv(e, t),
         t.at \in {"grid", "refine"}, t.waiting = {}
  PROVE  /\ TaskInv(e, Settled(e[2], t))
         /\ Settled(e[2], t).sized = <<>>
         /\ Settled(e[2], t).at \in {"done", "refine", "final"}
<1> DEFINE c == e[2]
           best == _pick_best(t.quoted)
           grid == _candidate_amounts(t.upper)
           refined == IF t.at = "grid" /\ batched[c]
                      THEN _refine_amounts(grid, best) ELSE {}
<1>1. /\ t.at \in Asking /\ t.upper \in Nat /\ t.lost \in BOOLEAN /\ t.sized = <<>>
      /\ IsQuotes(t.quoted) /\ DOMAIN t.quoted \subseteq 1 .. t.upper
      /\ \E i \in Since(e) : t.upper = chain[i].balance[c]
      /\ \A a \in DOMAIN t.quoted : Explained(e, {t.quoted[a]})
  BY DEF TaskInv, WellFormed, Staged, Bounded, Answered, Asking
<1>2. t \in [at : {t.at}, upper : {t.upper}, quoted : {t.quoted}, flight : {t.flight},
             waiting : {{}}, lost : {t.lost}, sized : {<<>>}]
  BY <1>1 DEF TaskInv, WellFormed
<1>3. CASE DOMAIN t.quoted = {}
  <2>1. Settled(c, t) = Refused(t.lost)
    BY <1>3 DEF Settled
  <2>2. Refused(t.lost).sized = <<>> /\ Refused(t.lost).at = "done"
    BY DEF Refused, Ended
  <2> QED
    BY <1>1, <2>1, <2>2, RefusedTask
<1>4. CASE DOMAIN t.quoted # {}
  <2>1. best \in DOMAIN t.quoted
    <3>1. IsFiniteSet(1 .. t.upper)
      BY <1>1, FS_Interval
    <3>2. IsFiniteSet(DOMAIN t.quoted)
      BY <1>1, <3>1, FS_Subset
    <3> QED
      BY <1>1, <1>4, <3>2, BestIsQuoted
  <2> HIDE DEF best
  <2>2. refined \subseteq 1 .. t.upper
    <3>1. grid \subseteq 1 .. t.upper
      BY <1>1, GridSizes
    <3> HIDE DEF grid
    <3>2. _refine_amounts(grid, best) \subseteq 1 .. t.upper
      BY <1>1, <2>1, <3>1, RefinedSizes
    <3> QED
      BY <3>2
  <2>3. refined # {} => t.at = "grid" /\ batched[c]
    OBVIOUS
  <2>4. Settled(c, t) = IF refined # {}
                        THEN [t EXCEPT !.at = "refine", !.flight = Asked(refined)]
                        ELSE [t EXCEPT !.at = "final", !.flight = Asked({best})]
    BY <1>4 DEF Settled, Chosen, best
  <2> HIDE DEF refined
  <2>5. CASE refined # {}
    <3> DEFINE u == Task("refine", t.upper, t.quoted, Asked(refined), {}, t.lost, <<>>)
    <3>1. Settled(c, t) \in
            [at : {"refine"}, upper : {t.upper}, quoted : {t.quoted},
             flight : {Asked(refined)}, waiting : {{}}, lost : {t.lost}, sized : {<<>>}]
      BY <1>2, <2>4, <2>5
    <3>2. Settled(c, t) = u
      BY <3>1 DEF Task
    <3>3. /\ "refine" \in Asking /\ {} \cap DOMAIN t.quoted = {}
          /\ {} \cup DOMAIN t.quoted \cup refined \subseteq 1 .. t.upper
      BY <1>1, <2>2 DEF Asking
    <3>4. TaskInv(e, u)
      <4>1. batched[e[2]] /\ ("refine" = "final" => Single(refined))
        BY <2>3, <2>5
      <4> QED
        BY <1>1, <3>3, <4>1, RoundTask
    <3> QED
      BY <3>1, <3>2, <3>4
  <2>6. CASE refined = {}
    <3> DEFINE u == Task("final", t.upper, t.quoted, Asked({best}), {}, t.lost, <<>>)
    <3>1. Settled(c, t) \in
            [at : {"final"}, upper : {t.upper}, quoted : {t.quoted},
             flight : {Asked({best})}, waiting : {{}}, lost : {t.lost}, sized : {<<>>}]
      BY <1>2, <2>4, <2>6
    <3>2. Settled(c, t) = u
      BY <3>1 DEF Task
    <3>3. /\ "final" \in Asking /\ {} \cap DOMAIN t.quoted = {}
          /\ {} \cup DOMAIN t.quoted \cup {best} \subseteq 1 .. t.upper
      BY <1>1, <2>1 DEF Asking
    <3>4. TaskInv(e, u)
      <4>1. Single({best})
        BY DEF Single
      <4> QED
        BY <1>1, <3>3, <4>1, RoundTask
    <3> QED
      BY <3>1, <3>2, <3>4
  <2> QED
    BY <2>5, <2>6
<1> QED
  BY <1>3, <1>4

LEMMA OpenedTask ==
  ASSUME Typed, NEW e \in Evaluations
  PROVE  /\ TaskInv(e, Opened(e[2], Now.balance[e[2]]))
         /\ Opened(e[2], Now.balance[e[2]]).sized = <<>>
         /\ Opened(e[2], Now.balance[e[2]]).at \in {"done", "grid"}
         /\ ~batched[e[2]] => Opened(e[2], Now.balance[e[2]]).flight = Asked({})
<1> DEFINE c == e[2]
           upper == Now.balance[c]
           sizes == _candidate_amounts(upper)
           empty == Refused(FALSE)
           t == [empty EXCEPT !.at = "grid", !.upper = upper]
<1>1. upper \in Nat /\ \E i \in Since(e) : upper = chain[i].balance[c]
  BY Moment DEF Now
<1>2. empty \in [at : {"done"}, upper : {Unknown}, quoted : {Asked({})},
                 flight : {Asked({})}, waiting : {{}}, lost : {FALSE}, sized : {<<>>}]
  BY DEF Refused, Ended
<1>3. empty.sized = <<>> /\ empty.at = "done" /\ empty.flight = Asked({})
  BY <1>2
<1>4. Opened(c, upper) = IF upper = 0 THEN empty
                         ELSE IF batched[c] THEN [t EXCEPT !.flight = Asked(sizes)]
                              ELSE [t EXCEPT !.waiting = sizes]
  BY DEF Opened
<1>5. sizes \subseteq 1 .. upper
  BY <1>1, GridSizes
<1>6. /\ IsQuotes(Asked({})) /\ DOMAIN Asked({}) = {}
  BY AskedFlight
<1>7. "grid" \in Asking
  BY DEF Asking
<1>8. TaskInv(e, empty)
  BY RefusedTask
<1> HIDE DEF empty, upper, sizes
<1>9. t \in [at : {"grid"}, upper : {upper}, quoted : {Asked({})}, flight : {Asked({})},
             waiting : {{}}, lost : {FALSE}, sized : {<<>>}]
  BY <1>2
<1> HIDE DEF t
<1>10. CASE upper = 0
  BY <1>3, <1>4, <1>8, <1>10 DEF upper
<1>11. CASE upper # 0 /\ batched[c]
  <2>1. Opened(c, upper) \in
          [at : {"grid"}, upper : {upper}, quoted : {Asked({})}, flight : {Asked(sizes)},
           waiting : {{}}, lost : {FALSE}, sized : {<<>>}]
    BY <1>4, <1>9, <1>11
  <2>2. Opened(c, upper)
          = Task("grid", upper, Asked({}), Asked(sizes), {}, FALSE, <<>>)
    BY <2>1 DEF Task
  <2>3. TaskInv(e, Task("grid", upper, Asked({}), Asked(sizes), {}, FALSE, <<>>))
    <3>1. {} \cup DOMAIN Asked({}) \cup sizes \subseteq 1 .. upper
      BY <1>5, <1>6
    <3> HIDE DEF Asked
    <3> QED
      BY <1>1, <1>6, <1>7, <3>1, RoundTask
  <2> QED
    BY <1>11, <2>1, <2>2, <2>3 DEF upper
<1>12. CASE upper # 0 /\ ~batched[c]
  <2>1. Opened(c, upper) \in
          [at : {"grid"}, upper : {upper}, quoted : {Asked({})}, flight : {Asked({})},
           waiting : {sizes}, lost : {FALSE}, sized : {<<>>}]
    BY <1>4, <1>9, <1>12
  <2>2. Opened(c, upper)
          = Task("grid", upper, Asked({}), Asked({}), sizes, FALSE, <<>>)
    BY <2>1 DEF Task
  <2>3. TaskInv(e, Task("grid", upper, Asked({}), Asked({}), sizes, FALSE, <<>>))
    <3>1. /\ sizes \cup DOMAIN Asked({}) \cup {} \subseteq 1 .. upper
          /\ sizes \cap DOMAIN Asked({}) = {}
      BY <1>5, <1>6
    <3> HIDE DEF Asked
    <3> QED
      BY <1>1, <1>6, <1>7, <1>12, <3>1, RoundTask
  <2> QED
    BY <1>12, <2>1, <2>2, <2>3 DEF upper
<1> QED
  BY <1>10, <1>11, <1>12

-----------------------------------------------------------------------------
(* Quotes that go on.                                                      *)

LEMMA NextHop ==
  ASSUME Typed, NEW e \in Evaluations, NEW path \in Seq(Nat),
         Len(path) \in 1 .. Len(Now.curve[e[2]]), HopOutput(e[2], path) # Reverts,
         Explained(e, {path})
  PROVE  LET next == Append(path, HopOutput(e[2], path))
         IN /\ next \in Seq(Nat) /\ Len(next) = Len(path) + 1 /\ next[1] = path[1]
            /\ next # <<>> /\ Explained(e, {next})
            /\ next[Len(path) + 1] = Now.curve[e[2]][Len(path)][next[Len(path)]]
<1> DEFINE out == HopOutput(e[2], path)
           next == Append(path, out)
<1>1. /\ out \in Nat /\ next \in Seq(Nat)
      /\ out = Now.curve[e[2]][Len(path)][path[Len(path)]]
  BY HopTaken
<1> HIDE DEF out
<1>2. /\ Len(next) = Len(path) + 1 /\ next[1] = path[1] /\ next # <<>>
      /\ next[Len(path) + 1] = out /\ next[Len(path)] = path[Len(path)]
  <2>1. Len(path) \in Nat /\ Len(path) >= 1
    BY Moment
  <2>2. Len(next) = Len(path) + 1 /\ next[Len(path) + 1] = out
    BY <1>1
  <2>3. \A i \in 1 .. Len(path) : next[i] = path[i]
    BY <1>1
  <2>4. 1 \in 1 .. Len(path) /\ Len(path) \in 1 .. Len(path)
    BY <2>1
  <2> HIDE DEF next
  <2>5. next # <<>>
    <3>1. Len(<<>>) = 0
      OBVIOUS
    <3> QED
      BY <2>1, <2>2, <3>1
  <2> QED
    BY <2>2, <2>3, <2>4, <2>5
<1>3. Explained(e, {next})
  <2>1. \A n \in {next} : \E p \in {path} :
          HopOutput(e[2], p) # Reverts /\ n = Append(p, HopOutput(e[2], p))
    BY DEF out
  <2>2. \A p \in {path} : p \in Seq(Nat) /\ Len(p) = Len(path)
    OBVIOUS
  <2> HIDE DEF next
  <2> QED
    BY <2>1, <2>2, OneHopMore
<1> QED
  BY <1>1, <1>2, <1>3 DEF out

LEMMA UpdatedQuotes ==
  ASSUME NEW q, NEW x, IsQuotes(q), IsQuotes(x)
  PROVE  /\ IsQuotes(Updated(q, x)) /\ DOMAIN Updated(q, x) = DOMAIN q \cup DOMAIN x
         /\ \A a \in DOMAIN Updated(q, x) :
              \/ a \in DOMAIN x /\ Updated(q, x)[a] = x[a]
              \/ a \in DOMAIN q /\ Updated(q, x)[a] = q[a]
<1> DEFINE u == Updated(q, x)
<1>1. DOMAIN u = DOMAIN q \cup DOMAIN x
  BY DEF Updated
<1>2. \A a \in DOMAIN u : \/ a \in DOMAIN x /\ u[a] = x[a]
                          \/ a \in DOMAIN q /\ u[a] = q[a]
  BY DEF Updated
<1>3. u = [a \in DOMAIN u |-> u[a]]
  BY DEF Updated
<1> HIDE DEF u
<1>4. \A a \in DOMAIN u : u[a] \in Seq(Nat) /\ a \in Nat /\ u[a] # <<>> /\ u[a][1] = a
  BY <1>2 DEF IsQuotes
<1>5. IsQuotes(u)
  BY <1>3, <1>4 DEF IsQuotes
<1> QED
  BY <1>1, <1>2, <1>5 DEF u

\* What a step may do to the task of e: the task keeps its invariant, the
\* permits it holds are those given, and a result it finds is a fresh one.
Fresh(e, t) ==
  LET path == t.sized
      hops == Len(path) - 1
  IN path # <<>> /\ task[e].sized = <<>> =>
       path[hops + 1] = Now.curve[e[2]][hops][path[hops]]

HeldBy(e, t) == IF t.at = "grid" /\ ~batched[e[2]] THEN DOMAIN t.flight ELSE {}

\* If nothing has moved since the trigger, the search remains what it should be.
KeepsStill(e, t) ==
  Unmoved(e) /\ Still(Now, e[2], task[e]) => Still(Now, e[2], t)

Moved(e, held) ==
  \E t : /\ task' = [task EXCEPT ![e] = t]
         /\ TaskInv(e, t) /\ Fresh(e, t) /\ KeepsStill(e, t) /\ HeldBy(e, t) = held

\* What was answered in a state that has not moved is a walk in it.
LEMMA ExplainedNow ==
  ASSUME Typed, NEW e \in Evaluations, Unmoved(e),
         NEW path \in Seq(Nat), path # <<>>, Explained(e, {path})
  PROVE  WalkIn(Now, e[2], path)
<1> DEFINE hops == Len(Now.curve[e[2]])
<1>1. AnsweredBy(e, {path}) /\ Len(path) <= hops + 1
  BY ExplainedIs
<1>2. PICK s \in [1 .. hops -> Since(e)] :
        \A i \in 1 .. Len(path) - 1 :
          /\ path[i] \in DOMAIN chain[s[i]].curve[e[2]][i]
          /\ path[i + 1] = chain[s[i]].curve[e[2]][i][path[i]]
  BY <1>1 DEF AnsweredBy
<1>3. hops \in Nat /\ Len(path) \in Nat /\ Len(path) >= 1 /\ Len(chain) \in Nat
  BY Moment
<1>4. Since(e) = {Len(chain)}
  BY <1>3 DEF Since, Unmoved
<1>5. ASSUME NEW i \in 1 .. Len(path) - 1
      PROVE  /\ path[i] \in DOMAIN Now.curve[e[2]][i]
             /\ path[i + 1] = Now.curve[e[2]][i][path[i]]
  <2>1. i \in 1 .. hops
    <3> HIDE DEF hops
    <3> QED
      BY <1>1, <1>3
  <2>2. s[i] = Len(chain)
    BY <1>2, <1>4, <2>1
  <2> QED
    BY <1>2, <2>2 DEF Now
<1> QED
  BY <1>1, <1>3, <1>5 DEF WalkIn

\* A quote in flight whose next hop fails is of a size that does not work.
LEMMA FailedFails ==
  ASSUME Typed, NEW e \in Evaluations, Unmoved(e),
         NEW path \in Seq(Nat), Len(path) \in 1 .. Len(Now.curve[e[2]]),
         Explained(e, {path}), HopOutput(e[2], path) = Reverts
  PROVE  ~Works(Now, e[2], path[1])
<1>1. Len(Now.curve[e[2]]) \in Nat /\ path # <<>>
  BY Moment
<1>2. WalkIn(Now, e[2], path)
  BY <1>1, ExplainedNow
<1>3. path[Len(path)] \notin DOMAIN Now.curve[e[2]][Len(path)]
  <2> SUFFICES ASSUME path[Len(path)] \in DOMAIN Now.curve[e[2]][Len(path)]
               PROVE  FALSE
    OBVIOUS
  <2>1. HopOutput(e[2], path) = Now.curve[e[2]][Len(path)][path[Len(path)]]
    BY DEF HopOutput
  <2>2. HopOutput(e[2], path) \in Nat
    BY <2>1, Moment, MarketsAssumption
  <2> QED
    BY <2>2, RouteSizingAssumption
<1>4. Stuck(Now, e[2], path)
  BY <1>1, <1>2, <1>3 DEF Stuck
<1> QED
  BY <1>1, <1>4, StuckFails

\* A quote that has come to the end of the cycle is of a size that works.
LEMMA CompleteWorks ==
  ASSUME Typed, NEW e \in Evaluations, Unmoved(e), NEW path \in Seq(Nat), path # <<>>,
         Explained(e, {path}), Complete(e[2], path)
  PROVE  Through(Now, e[2], path)
BY ExplainedNow DEF Complete, Through

\* What a settled round keeps of the round.
LEMMA SettledFields ==
  ASSUME NEW c, NEW t,
         t \in [at : {t.at}, upper : {t.upper}, quoted : {t.quoted}, flight : {t.flight},
                waiting : {{}}, lost : {t.lost}, sized : {t.sized}]
  PROVE  LET u == Settled(c, t)
         IN /\ u.lost = t.lost
            /\ DOMAIN t.quoted = {} => u.at = "done" /\ u.sized = <<>>
            /\ DOMAIN t.quoted # {} =>
                 /\ u.quoted = t.quoted /\ u.sized = t.sized
                 /\ \/ u.at = "refine" /\ t.at = "grid"
                    \/ u.at = "final" /\ DOMAIN u.flight = {_pick_best(t.quoted)}
<1> DEFINE best == _pick_best(t.quoted)
           refined == IF t.at = "grid" /\ batched[c]
                      THEN _refine_amounts(_candidate_amounts(t.upper), best) ELSE {}
<1>1. CASE DOMAIN t.quoted = {}
  <2>1. Settled(c, t) = Refused(t.lost)
    BY <1>1 DEF Settled
  <2> QED
    BY <1>1, <2>1 DEF Refused, Ended
<1>2. CASE DOMAIN t.quoted # {}
  <2>1. Settled(c, t) = IF refined # {}
                        THEN [t EXCEPT !.at = "refine", !.flight = Asked(refined)]
                        ELSE [t EXCEPT !.at = "final", !.flight = Asked({best})]
    BY <1>2 DEF Settled, Chosen
  <2>2. refined # {} => t.at = "grid"
    OBVIOUS
  <2>3. DOMAIN Asked({best}) = {best}
    BY DEF Asked
  <2> HIDE DEF best, refined
  <2> DEFINE r == [t EXCEPT !.at = "refine", !.flight = Asked(refined)]
             f == [t EXCEPT !.at = "final", !.flight = Asked({best})]
  <2>4. /\ r.lost = t.lost /\ r.quoted = t.quoted /\ r.sized = t.sized /\ r.at = "refine"
        /\ f.lost = t.lost /\ f.quoted = t.quoted /\ f.sized = t.sized /\ f.at = "final"
        /\ f.flight = Asked({best})
    OBVIOUS
  <2> QED
    BY <1>2, <2>1, <2>2, <2>3, <2>4 DEF best
<1> QED
  BY <1>1, <1>2

\* The end of a round in a state that has not moved: the sizes that work are
\* all quoted, so the best of them is chosen, or none works.
LEMMA SettledStill ==
  ASSUME NEW m, NEW c, NEW t, Still(m, c, t), t.at \in {"grid", "refine"},
         t \in [at : {t.at}, upper : {t.upper}, quoted : {t.quoted}, flight : {t.flight},
                waiting : {{}}, lost : {t.lost}, sized : {t.sized}],
         DOMAIN t.flight = {}, IsQuotes(t.quoted), IsFiniteSet(DOMAIN t.quoted)
  PROVE  Still(m, c, Settled(c, t))
<1> DEFINE u == Settled(c, t)
<1>1. /\ u.lost = t.lost
      /\ DOMAIN t.quoted = {} => u.at = "done" /\ u.sized = <<>>
      /\ DOMAIN t.quoted # {} =>
           /\ u.quoted = t.quoted /\ u.sized = t.sized
           /\ \/ u.at = "refine" /\ t.at = "grid"
              \/ u.at = "final" /\ DOMAIN u.flight = {_pick_best(t.quoted)}
  BY SettledFields
<1> HIDE DEF u
<1> SUFFICES ASSUME ~u.lost
             PROVE  /\ u.at \in Asking => Searched(m, c, u)
                    /\ u.at \in {"finalize", "done"} => Verdict(m, c, u.sized)
  BY DEF Still, u
<1>2. Searched(m, c, t) /\ t.waiting = {}
  BY <1>1 DEF Still, Asking
<1>3. \A a \in Grid(m, c) : Works(m, c, a) => a \in DOMAIN t.quoted
  BY <1>2 DEF Searched
<1>4. CASE DOMAIN t.quoted = {}
  <2>1. Verdict(m, c, u.sized)
    BY <1>1, <1>3, <1>4 DEF Verdict
  <2> QED
    BY <1>1, <1>4, <2>1 DEF Asking
<1>5. CASE DOMAIN t.quoted # {}
  <2>1. \E a \in Grid(m, c) : Works(m, c, a)
    <3>1. CASE t.at = "grid"
      <4>1. PICK a \in DOMAIN t.quoted : a \in Grid(m, c) /\ Through(m, c, t.quoted[a])
        BY <1>2, <1>5, <3>1 DEF Searched
      <4>2. t.quoted[a] \in Seq(Nat) /\ t.quoted[a][1] = a
        BY DEF IsQuotes
      <4> QED
        BY <4>1, <4>2 DEF Works
    <3>2. CASE t.at # "grid"
      BY <1>2, <3>2 DEF Searched
    <3> QED
      BY <3>1, <3>2
  <2> DEFINE best == _pick_best(t.quoted)
  <2>2. best \in DOMAIN t.quoted /\ \A b \in DOMAIN t.quoted : NoWorse(t.quoted[best], t.quoted[b])
    BY <1>5, BestIsQuoted
  <2> HIDE DEF best
  <2>3. u.quoted = t.quoted /\ u.at \in {"refine", "final"}
        /\ (u.at = "final" => DOMAIN u.flight = {best})
    BY <1>1, <1>5 DEF best
  <2>4. Searched(m, c, u)
    BY <1>2, <1>3, <2>1, <2>2, <2>3 DEF Searched
  <2> QED
    BY <2>3, <2>4
<1> QED
  BY <1>4, <1>5

\* Of a search that a call failed in nothing is said.
LEMMA LostStill ==
  ASSUME NEW m, NEW c
  PROVE  Still(m, c, Refused(TRUE))
BY DEF Still, Refused, Ended

\* The search begins with the whole grid, or there is none.
LEMMA OpenedStill ==
  ASSUME Typed, NEW e \in Evaluations
  PROVE  Still(Now, e[2], Opened(e[2], Now.balance[e[2]]))
<1> DEFINE c == e[2]
           upper == Now.balance[c]
           sizes == _candidate_amounts(upper)
           empty == Refused(FALSE)
           t == [empty EXCEPT !.at = "grid", !.upper = upper]
           u == Opened(c, upper)
<1>1. upper \in Nat /\ sizes = Grid(Now, c)
  BY Moment DEF Grid
<1>2. sizes \subseteq 1 .. upper
  BY <1>1, GridSizes
<1>3. empty \in [at : {"done"}, upper : {Unknown}, quoted : {Asked({})},
                 flight : {Asked({})}, waiting : {{}}, lost : {FALSE}, sized : {<<>>}]
  BY DEF Refused, Ended
<1>4. u = IF upper = 0 THEN empty
          ELSE IF batched[c] THEN [t EXCEPT !.flight = Asked(sizes)]
               ELSE [t EXCEPT !.waiting = sizes]
  BY DEF Opened
<1>5. DOMAIN Asked({}) = {} /\ DOMAIN Asked(sizes) = sizes
  BY DEF Asked
<1> HIDE DEF empty, upper, sizes, u
<1>6. t \in [at : {"grid"}, upper : {upper}, quoted : {Asked({})}, flight : {Asked({})},
             waiting : {{}}, lost : {FALSE}, sized : {<<>>}]
  BY <1>3
<1> HIDE DEF t
<1>7. CASE upper = 0
  <2>1. u.at = "done" /\ u.sized = <<>>
    BY <1>3, <1>4, <1>7
  <2>2. sizes = {}
    BY <1>2, <1>7
  <2>3. Verdict(Now, c, u.sized)
    BY <1>1, <2>1, <2>2 DEF Verdict
  <2> QED
    BY <2>1, <2>3 DEF Still, Asking, u, upper
<1>8. CASE upper # 0
  <2>1. /\ u.at = "grid" /\ DOMAIN u.quoted = {}
        /\ u.waiting \cup DOMAIN u.flight = sizes
    BY <1>4, <1>5, <1>6, <1>8
  <2>2. Searched(Now, c, u)
    BY <1>1, <2>1 DEF Searched
  <2> QED
    BY <2>1, <2>2 DEF Still, u, upper
<1> QED
  BY <1>7, <1>8

LEMMA ReadBalanceMoves ==
  ASSUME Typed, NEW e \in Evaluations, ReadBalance(e)
  PROVE  Held(e) = {} /\ Moved(e, {})
<1>1. Held(e) = {}
  BY DEF ReadBalance, Held
<1>2. CASE task' = [task EXCEPT ![e] = Opened(e[2], Now.balance[e[2]])]
  <2> DEFINE t == Opened(e[2], Now.balance[e[2]])
  <2>1. /\ TaskInv(e, t) /\ t.sized = <<>> /\ t.at \in {"done", "grid"}
        /\ ~batched[e[2]] => t.flight = Asked({})
    BY OpenedTask
  <2>k. KeepsStill(e, t)
    BY OpenedStill DEF KeepsStill
  <2> HIDE DEF t
  <2>2. HeldBy(e, t) = {} /\ Fresh(e, t)
    BY <2>1 DEF HeldBy, Fresh, Asked
  <2>3. task' = [task EXCEPT ![e] = t]
    BY <1>2 DEF t
  <2> QED
    BY <1>1, <2>1, <2>k, <2>2, <2>3 DEF Moved
<1>3. CASE task' = [task EXCEPT ![e] = Refused(TRUE)]
  <2>1. TaskInv(e, Refused(TRUE))
    BY RefusedTask
  <2>2. Refused(TRUE).at = "done" /\ Refused(TRUE).sized = <<>>
    BY DEF Refused, Ended
  <2>3. HeldBy(e, Refused(TRUE)) = {} /\ Fresh(e, Refused(TRUE))
    BY <2>2 DEF HeldBy, Fresh
  <2>4. KeepsStill(e, Refused(TRUE))
    BY LostStill DEF KeepsStill
  <2> QED
    BY <1>1, <1>3, <2>1, <2>3, <2>4 DEF Moved
<1> QED
  BY <1>1, <1>2, <1>3 DEF ReadBalance

\* The end of a round changes no permits that are not free already.
LEMMA SettledMoves ==
  ASSUME Typed, NEW e \in Evaluations, NEW t, TaskInv(e, t), KeepsStill(e, t),
         t.at \in {"grid", "refine"}, t.waiting = {}, DOMAIN t.flight = {},
         task' = [task EXCEPT ![e] = Settled(e[2], t)]
  PROVE  Moved(e, {})
<1> DEFINE u == Settled(e[2], t)
<1>1. TaskInv(e, u) /\ u.sized = <<>> /\ u.at \in {"done", "refine", "final"}
  BY SettledTask
<1>k. KeepsStill(e, u)
  <2> SUFFICES ASSUME Still(Now, e[2], t) PROVE Still(Now, e[2], u)
    BY DEF KeepsStill
  <2>1. t \in [at : {t.at}, upper : {t.upper}, quoted : {t.quoted}, flight : {t.flight},
               waiting : {{}}, lost : {t.lost}, sized : {t.sized}]
    BY DEF TaskInv, WellFormed
  <2>2. IsQuotes(t.quoted) /\ t.upper \in Nat /\ DOMAIN t.quoted \subseteq 1 .. t.upper
    BY DEF TaskInv, WellFormed, Bounded, Asking
  <2>3. IsFiniteSet(1 .. t.upper)
    BY <2>2, FS_Interval
  <2>4. IsFiniteSet(DOMAIN t.quoted)
    BY <2>2, <2>3, FS_Subset
  <2> QED
    BY <2>1, <2>2, <2>4, SettledStill
<1> HIDE DEF u
<1>2. HeldBy(e, u) = {} /\ Fresh(e, u)
  BY <1>1 DEF HeldBy, Fresh
<1>3. task' = [task EXCEPT ![e] = u]
  BY DEF u
<1> QED
  BY <1>1, <1>k, <1>2, <1>3 DEF Moved

LEMMA MulticallFailsMoves ==
  ASSUME Typed, NEW e \in Evaluations, TaskInv(e, task[e]), MulticallFails(e)
  PROVE  Held(e) = {} /\ Moved(e, {})
<1> DEFINE t == task[e]
           u == [t EXCEPT !.flight = Asked({}), !.lost = TRUE]
<1>1. t.at \in {"grid", "refine"} /\ batched[e[2]] /\ t.waiting = {} /\ t.at \in Asking
  BY DEF MulticallFails, TaskInv, Staged, Asking
<1>2. Held(e) = {}
  BY <1>1 DEF Held
<1>3. task' = [task EXCEPT ![e] = Settled(e[2], u)]
  BY DEF MulticallFails
<1>4. t \in [at : {t.at}, upper : {t.upper}, quoted : {t.quoted}, flight : {t.flight},
             waiting : {t.waiting}, lost : BOOLEAN, sized : {t.sized}]
  BY DEF TaskInv, WellFormed
<1>e. TaskInv(e, t)
  OBVIOUS
<1> HIDE DEF t
<1>5. u \in [at : {t.at}, upper : {t.upper}, quoted : {t.quoted}, flight : {Asked({})},
             waiting : {t.waiting}, lost : BOOLEAN, sized : {t.sized}]
  BY <1>4
<1>l. u.lost
  BY <1>4
<1> HIDE DEF u
<1>6. /\ u.at = t.at /\ u.quoted = t.quoted /\ u.flight = Asked({})
      /\ u.waiting = t.waiting
  BY <1>5
<1>k. KeepsStill(e, u)
  BY <1>l DEF KeepsStill, Still
<1>7. DOMAIN Asked({}) = {} /\ IsQuotes(Asked({})) /\ Explained(e, Paths(Asked({})))
  BY AskedFlight
<1>8. IsQuotes(t.quoted) /\ \A a \in DOMAIN t.quoted : Explained(e, {t.quoted[a]})
  BY <1>e DEF TaskInv, WellFormed, Answered
<1>9. TaskInv(e, u)
  <2>1. u \in [at : {t.at}, upper : {t.upper}, quoted : {u.quoted}, flight : {u.flight},
               waiting : SUBSET t.waiting, lost : BOOLEAN, sized : {t.sized}]
    BY <1>5
  <2>2. /\ IsQuotes(u.quoted) /\ IsQuotes(u.flight)
        /\ DOMAIN u.quoted \cup DOMAIN u.flight
             \subseteq t.waiting \cup DOMAIN t.quoted \cup DOMAIN t.flight
        /\ u.waiting \cap (DOMAIN u.flight \cup DOMAIN u.quoted) = {} /\ t.at # "final"
        /\ \A a \in DOMAIN u.quoted : Explained(e, {u.quoted[a]})
        /\ DOMAIN u.flight = {} /\ Explained(e, Paths(u.flight))
    BY <1>1, <1>6, <1>7, <1>8
  <2> QED
    BY <1>1, <1>e, <2>1, <2>2, SameRound
<1> QED
  BY <1>1, <1>k, <1>2, <1>3, <1>6, <1>7, <1>9, SettledMoves

LEMMA QuoteInFlight ==
  ASSUME Typed, NEW e \in Evaluations, NEW t, TaskInv(e, t), NEW a \in DOMAIN t.flight
  PROVE  /\ t.flight[a] \in Seq(Nat) /\ t.flight[a][1] = a /\ a \in Nat
         /\ Len(t.flight[a]) \in 1 .. Len(Now.curve[e[2]])
         /\ Explained(e, {t.flight[a]})
<1>1. t.flight[a] \in Seq(Nat) /\ t.flight[a] # <<>> /\ t.flight[a][1] = a /\ a \in Nat
  BY DEF TaskInv, WellFormed, IsQuotes
<1>2. Len(t.flight[a]) <= Len(Now.curve[e[2]]) /\ Explained(e, {t.flight[a]})
  BY DEF TaskInv, Answered
<1>3. Len(t.flight[a]) \in Nat /\ Len(t.flight[a]) >= 1
  BY <1>1
<1>4. Len(Now.curve[e[2]]) \in Nat
  BY Moment
<1> QED
  BY <1>1, <1>2, <1>3, <1>4

LEMMA HopAnswersMoves ==
  ASSUME Typed, NEW e \in Evaluations, TaskInv(e, task[e]), HopAnswers(e)
  PROVE  Held(e) = {} /\ Moved(e, {})
<1> DEFINE t == task[e]
           c == e[2]
           left == {a \in DOMAIN t.flight : HopOutput(c, t.flight[a]) # Reverts}
           flight == [a \in left |-> Append(t.flight[a], HopOutput(c, t.flight[a]))]
           ended == [t EXCEPT !.quoted = Updated(@, flight), !.flight = Asked({})]
           further == [t EXCEPT !.flight = flight]
<1>1. t.at \in {"grid", "refine"} /\ batched[c] /\ t.waiting = {} /\ t.at \in Asking
  BY DEF HopAnswers, TaskInv, Staged, Asking
<1>2. Held(e) = {}
  BY <1>1 DEF Held
<1>3. task' = [task EXCEPT ![e] = IF \A a \in left : Complete(c, flight[a])
                                  THEN Settled(c, ended) ELSE further]
  BY DEF HopAnswers
<1>4. t \in [at : {t.at}, upper : {t.upper}, quoted : {t.quoted}, flight : {t.flight},
             waiting : {t.waiting}, lost : BOOLEAN, sized : {t.sized}]
  BY DEF TaskInv, WellFormed
<1>5. TaskInv(e, t)
  OBVIOUS
<1>f. DOMAIN flight = left /\ left \subseteq DOMAIN t.flight
  OBVIOUS
<1>g. \A a \in left : flight[a] = Append(t.flight[a], HopOutput(c, t.flight[a]))
  OBVIOUS
<1> DEFINE Settles == \A a \in left : Complete(c, flight[a])
<1>s. task' = [task EXCEPT ![e] = IF Settles THEN Settled(c, ended) ELSE further]
  BY <1>3
<1>p. flight \in [left -> Seq(Nat)]
  <2> SUFFICES ASSUME NEW a \in left
               PROVE  Append(t.flight[a], HopOutput(c, t.flight[a])) \in Seq(Nat)
    OBVIOUS
  <2>1. /\ a \in DOMAIN t.flight /\ HopOutput(c, t.flight[a]) # Reverts
        /\ t.flight[a] \in Seq(Nat) /\ Len(t.flight[a]) \in 1 .. Len(Now.curve[c])
        /\ Explained(e, {t.flight[a]})
    BY QuoteInFlight
  <2> QED
    BY <2>1, NextHop
<1>l. \A a \in left : HopOutput(c, t.flight[a]) # Reverts
  OBVIOUS
<1> HIDE DEF t, flight, left
<1>6. ASSUME NEW a \in left
      PROVE  /\ flight[a] \in Seq(Nat) /\ Len(flight[a]) = Len(t.flight[a]) + 1
             /\ flight[a][1] = a /\ flight[a] # <<>> /\ Explained(e, {flight[a]})
             /\ a \in Nat /\ a \in DOMAIN t.flight
  <2>1. a \in DOMAIN t.flight /\ HopOutput(c, t.flight[a]) # Reverts
    BY <1>f, <1>l
  <2>2. /\ t.flight[a] \in Seq(Nat) /\ t.flight[a][1] = a /\ a \in Nat
        /\ Len(t.flight[a]) \in 1 .. Len(Now.curve[c]) /\ Explained(e, {t.flight[a]})
    BY <1>5, <2>1, QuoteInFlight
  <2> DEFINE next == Append(t.flight[a], HopOutput(c, t.flight[a]))
  <2>3. /\ next \in Seq(Nat) /\ Len(next) = Len(t.flight[a]) + 1
        /\ next[1] = t.flight[a][1] /\ next # <<>> /\ Explained(e, {next})
    BY <2>1, <2>2, NextHop
  <2>4. flight[a] = next
    BY <1>g
  <2> HIDE DEF next
  <2> QED
    BY <2>1, <2>2, <2>3, <2>4
<1>7. IsQuotes(flight)
  BY <1>6, <1>f, <1>p DEF IsQuotes
<1>8. \A a, b \in DOMAIN t.flight : Len(t.flight[a]) = Len(t.flight[b])
  BY <1>1, <1>5 DEF TaskInv, Answered
<1>9. \A a, b \in DOMAIN flight : Len(flight[a]) = Len(flight[b])
  BY <1>6, <1>8, <1>f
<1>10. Explained(e, Paths(flight))
  <2>1. CASE left = {}
    <3>1. Paths(flight) = {}
      BY <1>f, <2>1 DEF Paths
    <3> QED
      BY <3>1, NothingAsked
  <2>2. CASE left # {}
    <3>1. PICK b \in left : TRUE
      BY <2>2
    <3> DEFINE n == Len(t.flight[b])
    <3>2. n \in 1 .. Len(Now.curve[c])
      BY <1>5, <1>f, QuoteInFlight
    <3>3. \A p \in Paths(t.flight) : p \in Seq(Nat) /\ Len(p) = n
      <4> SUFFICES ASSUME NEW a \in DOMAIN t.flight
                   PROVE  t.flight[a] \in Seq(Nat) /\ Len(t.flight[a]) = n
        BY DEF Paths
      <4> QED
        BY <1>5, <1>8, <1>f, <3>1, QuoteInFlight
    <3>4. Explained(e, Paths(t.flight))
      BY <1>1, <1>5 DEF TaskInv, Answered
    <3>5. \A next \in Paths(flight) : \E p \in Paths(t.flight) :
            HopOutput(c, p) # Reverts /\ next = Append(p, HopOutput(c, p))
      BY <1>f, <1>g, <1>l DEF Paths
    <3> HIDE DEF n
    <3> QED
      BY <3>2, <3>3, <3>4, <3>5, OneHopMore
  <2> QED
    BY <2>1, <2>2
<1>11. IsQuotes(t.quoted) /\ \A a \in DOMAIN t.quoted : Explained(e, {t.quoted[a]})
  BY <1>5 DEF TaskInv, WellFormed, Answered
<1>n. ASSUME NEW a \in DOMAIN t.flight, a \notin left, Unmoved(e)
      PROVE  ~Works(Now, c, a)
  <2>1. /\ t.flight[a] \in Seq(Nat) /\ t.flight[a][1] = a
        /\ Len(t.flight[a]) \in 1 .. Len(Now.curve[c]) /\ Explained(e, {t.flight[a]})
    BY <1>5, QuoteInFlight
  <2>2. HopOutput(c, t.flight[a]) = Reverts
    BY <1>n DEF left
  <2> QED
    BY <1>n, <2>1, <2>2, FailedFails
<1>12. CASE Settles
  <2> DEFINE q == Updated(t.quoted, flight)
  <2>1. task' = [task EXCEPT ![e] = Settled(c, ended)]
    BY <1>s, <1>12
  <2>2. ended \in [at : {t.at}, upper : {t.upper}, quoted : {q}, flight : {Asked({})},
                   waiting : {t.waiting}, lost : BOOLEAN, sized : {t.sized}]
    BY <1>4
  <2>l. ended.lost = t.lost
    BY <1>4
  <2>3. /\ IsQuotes(q) /\ DOMAIN q = DOMAIN t.quoted \cup DOMAIN flight
        /\ \A a \in DOMAIN q : \/ a \in DOMAIN flight /\ q[a] = flight[a]
                               \/ a \in DOMAIN t.quoted /\ q[a] = t.quoted[a]
    BY <1>7, <1>11, UpdatedQuotes
  <2> HIDE DEF ended, q
  <2>4. /\ ended.at = t.at /\ ended.quoted = q /\ ended.flight = Asked({})
        /\ ended.waiting = t.waiting
    BY <2>2
  <2>5. DOMAIN Asked({}) = {} /\ IsQuotes(Asked({})) /\ Explained(e, Paths(Asked({})))
    BY AskedFlight
  <2>6. \A a \in DOMAIN q : Explained(e, {q[a]})
    BY <1>6, <1>11, <1>f, <2>3
  <2>7. ended \in [at : {t.at}, upper : {t.upper}, quoted : {ended.quoted},
                   flight : {ended.flight}, waiting : SUBSET t.waiting,
                   lost : BOOLEAN, sized : {t.sized}]
    BY <2>2
  <2>8. /\ IsQuotes(ended.quoted) /\ IsQuotes(ended.flight)
        /\ DOMAIN ended.quoted \cup DOMAIN ended.flight
             \subseteq t.waiting \cup DOMAIN t.quoted \cup DOMAIN t.flight
        /\ ended.waiting \cap (DOMAIN ended.flight \cup DOMAIN ended.quoted) = {}
        /\ t.at # "final"
        /\ \A a \in DOMAIN ended.quoted : Explained(e, {ended.quoted[a]})
        /\ DOMAIN ended.flight = {} /\ Explained(e, Paths(ended.flight))
    BY <1>1, <1>f, <2>3, <2>4, <2>5, <2>6
  <2>9. TaskInv(e, ended)
    BY <1>1, <1>5, <2>7, <2>8, SameRound
  <2>10. KeepsStill(e, ended)
    <3> SUFFICES ASSUME Unmoved(e), Still(Now, c, t), ~ended.lost
                 PROVE  Searched(Now, c, ended)
      BY <1>1, <2>4 DEF KeepsStill, Still, t, Asking
    <3>1. Searched(Now, c, t)
      BY <1>1, <2>l DEF Still
    <3>2. \A a \in left : Through(Now, c, flight[a])
      <4> SUFFICES ASSUME NEW a \in left PROVE Through(Now, c, flight[a])
        OBVIOUS
      <4>1. /\ flight[a] \in Seq(Nat) /\ flight[a] # <<>> /\ Explained(e, {flight[a]})
            /\ Complete(c, flight[a])
        BY <1>6, <1>12
      <4> QED
        BY <4>1, CompleteWorks
    <3>3. \A a \in DOMAIN q : Through(Now, c, q[a])
      BY <1>f, <2>3, <3>1, <3>2 DEF Searched
    <3>4. ASSUME NEW a \in Grid(Now, c), Works(Now, c, a)
          PROVE  a \in DOMAIN q
      BY <1>1, <1>f, <1>n, <2>3, <3>1, <3>4 DEF Searched
    <3>5. ended.at = "grid" =>
            ended.waiting \cup DOMAIN ended.flight \cup DOMAIN q \subseteq Grid(Now, c)
      BY <1>f, <2>3, <2>4, <2>5, <3>1 DEF Searched
    <3>6. ended.at # "grid" => \E a \in Grid(Now, c) : Works(Now, c, a)
      BY <2>4, <3>1 DEF Searched
    <3> QED
      BY <1>1, <2>4, <3>3, <3>4, <3>5, <3>6 DEF Searched
  <2> QED
    BY <1>1, <1>2, <2>1, <2>4, <2>5, <2>9, <2>10, SettledMoves
<1>13. CASE ~Settles
  <2>1. task' = [task EXCEPT ![e] = further]
    BY <1>s, <1>13
  <2>2. further \in [at : {t.at}, upper : {t.upper}, quoted : {t.quoted},
                     flight : {flight}, waiting : {t.waiting}, lost : BOOLEAN,
                     sized : {t.sized}]
    BY <1>4
  <2>l. further.lost = t.lost
    BY <1>4
  <2>3. PICK b \in left : Len(flight[b]) # Len(Now.curve[c]) + 1
    BY <1>13 DEF Complete
  <2>4. ASSUME NEW a \in left PROVE Len(flight[a]) <= Len(Now.curve[c])
    <3>1. Len(t.flight[b]) \in 1 .. Len(Now.curve[c]) /\ b \in DOMAIN t.flight
      BY <1>5, <1>f, QuoteInFlight
    <3>2. Len(flight[b]) = Len(t.flight[b]) + 1 /\ Len(flight[a]) = Len(flight[b])
      BY <1>6, <1>9, <1>f
    <3>3. Len(Now.curve[c]) \in Nat
      BY Moment
    <3>4. \A n \in Nat : \A m \in 1 .. n : m + 1 # n + 1 => m + 1 <= n
      OBVIOUS
    <3>5. Len(t.flight[b]) + 1 <= Len(Now.curve[c])
      BY <2>3, <3>1, <3>2, <3>3, <3>4
    <3> QED
      BY <3>2, <3>5
  <2> HIDE DEF further
  <2>5. /\ further.at = t.at /\ further.quoted = t.quoted /\ further.flight = flight
        /\ further.waiting = t.waiting /\ further.sized = t.sized
    BY <2>2
  <2>6. further \in [at : {t.at}, upper : {t.upper}, quoted : {further.quoted},
                     flight : {further.flight}, waiting : SUBSET t.waiting,
                     lost : BOOLEAN, sized : {t.sized}]
    BY <2>2
  <2>7. \A a \in DOMAIN further.flight : /\ Len(further.flight[a]) <= Len(Now.curve[c])
                                         /\ Explained(e, {further.flight[a]})
    BY <1>6, <1>f, <2>4, <2>5
  <2>8. /\ IsQuotes(further.quoted) /\ IsQuotes(further.flight)
        /\ DOMAIN further.quoted \cup DOMAIN further.flight
             \subseteq t.waiting \cup DOMAIN t.quoted \cup DOMAIN t.flight
        /\ further.waiting \cap (DOMAIN further.flight \cup DOMAIN further.quoted) = {}
        /\ t.at # "final"
        /\ \A a \in DOMAIN further.quoted : Explained(e, {further.quoted[a]})
        /\ \A a, b_ \in DOMAIN further.flight :
             Len(further.flight[a]) = Len(further.flight[b_])
        /\ Explained(e, Paths(further.flight))
    BY <1>1, <1>7, <1>9, <1>10, <1>11, <1>f, <2>5
  <2>9. TaskInv(e, further)
    BY <1>1, <1>5, <2>6, <2>7, <2>8, SameRound
  <2>10. HeldBy(e, further) = {} /\ Fresh(e, further)
    <3>1. t.sized = <<>>
      BY <1>1, <1>5 DEF TaskInv, Staged
    <3> QED
      BY <1>1, <2>5, <3>1 DEF HeldBy, Fresh
  <2>11. KeepsStill(e, further)
    <3> SUFFICES ASSUME Unmoved(e), Still(Now, c, t), ~further.lost
                 PROVE  Searched(Now, c, further)
      BY <1>1, <2>5 DEF KeepsStill, Still, t, Asking
    <3>1. Searched(Now, c, t)
      BY <1>1, <2>l DEF Still
    <3>2. ASSUME NEW a \in Grid(Now, c), Works(Now, c, a)
          PROVE  \/ a \in DOMAIN further.quoted
                 \/ further.at = "grid" /\ a \in further.waiting \cup DOMAIN further.flight
      BY <1>f, <1>n, <2>5, <3>1, <3>2 DEF Searched
    <3> QED
      BY <1>1, <1>f, <2>5, <3>1, <3>2 DEF Searched
  <2> QED
    BY <1>2, <2>1, <2>9, <2>10, <2>11 DEF Moved
<1> QED
  BY <1>12, <1>13

LEMMA AcquireMoves ==
  ASSUME Typed, NEW e \in Evaluations, TaskInv(e, task[e]), NEW a, Acquire(e, a)
  PROVE  a \notin Held(e) /\ Moved(e, Held(e) \cup {a})
<1> DEFINE t == task[e]
           f == Updated(t.flight, Asked({a}))
           u == [t EXCEPT !.waiting = @ \ {a}, !.flight = f]
<1>1. /\ a \in t.waiting /\ t.at = "grid" /\ ~batched[e[2]] /\ t.at \in Asking
      /\ a \in Nat
      /\ t.waiting \cap (DOMAIN t.flight \cup DOMAIN t.quoted) = {}
      /\ t.sized = <<>>
  BY DEF Acquire, TaskInv, WellFormed, Staged, Asking
<1>2. task' = [task EXCEPT ![e] = u]
  BY DEF Acquire, Started
<1>3. Held(e) = DOMAIN t.flight
  BY <1>1 DEF Held
<1>4. t \in [at : {t.at}, upper : {t.upper}, quoted : {t.quoted}, flight : {t.flight},
             waiting : {t.waiting}, lost : BOOLEAN, sized : {t.sized}]
  BY DEF TaskInv, WellFormed
<1>5. TaskInv(e, t)
  OBVIOUS
<1>6. /\ IsQuotes(t.quoted) /\ \A b \in DOMAIN t.quoted : Explained(e, {t.quoted[b]})
      /\ IsQuotes(t.flight)
      /\ \A b \in DOMAIN t.flight : /\ Len(t.flight[b]) <= Len(Now.curve[e[2]])
                                    /\ Explained(e, {t.flight[b]})
  BY <1>5 DEF TaskInv, WellFormed, Answered
<1> HIDE DEF t
<1>7. /\ IsQuotes(Asked({a})) /\ DOMAIN Asked({a}) = {a}
      /\ Len(Asked({a})[a]) = 1 /\ Explained(e, {Asked({a})[a]})
  BY <1>1, AskedFlight
<1>8. /\ IsQuotes(f) /\ DOMAIN f = DOMAIN t.flight \cup {a}
      /\ \A b \in DOMAIN f : \/ b = a /\ f[b] = Asked({a})[a]
                             \/ b \in DOMAIN t.flight /\ f[b] = t.flight[b]
  <2>1. /\ IsQuotes(f) /\ DOMAIN f = DOMAIN t.flight \cup DOMAIN Asked({a})
        /\ \A b \in DOMAIN f : \/ b \in DOMAIN Asked({a}) /\ f[b] = Asked({a})[b]
                               \/ b \in DOMAIN t.flight /\ f[b] = t.flight[b]
    BY <1>6, <1>7, UpdatedQuotes
  <2> HIDE DEF f
  <2> QED
    BY <1>7, <2>1
<1> HIDE DEF f
<1>9. u \in [at : {t.at}, upper : {t.upper}, quoted : {t.quoted}, flight : {f},
             waiting : {t.waiting \ {a}}, lost : BOOLEAN, sized : {t.sized}]
  BY <1>4
<1>l. u.lost = t.lost
  BY <1>4
<1> HIDE DEF u
<1>10. /\ u.at = t.at /\ u.quoted = t.quoted /\ u.flight = f
       /\ u.waiting = t.waiting \ {a} /\ u.sized = t.sized
  BY <1>9
<1>k. KeepsStill(e, u)
  <2> SUFFICES ASSUME Still(Now, e[2], t), ~u.lost PROVE Searched(Now, e[2], u)
    BY <1>1, <1>10 DEF KeepsStill, Still, t, Asking
  <2>1. Searched(Now, e[2], t)
    BY <1>1, <1>l DEF Still
  <2>2. u.waiting \cup DOMAIN u.flight = t.waiting \cup DOMAIN t.flight
    BY <1>1, <1>8, <1>10
  <2> QED
    BY <1>1, <1>10, <2>1, <2>2 DEF Searched
<1>11. 1 <= Len(Now.curve[e[2]])
  BY Moment
<1>12. \A b \in DOMAIN u.flight : /\ Len(u.flight[b]) <= Len(Now.curve[e[2]])
                                  /\ Explained(e, {u.flight[b]})
  BY <1>6, <1>7, <1>8, <1>10, <1>11
<1>13. u \in [at : {t.at}, upper : {t.upper}, quoted : {u.quoted}, flight : {u.flight},
              waiting : SUBSET t.waiting, lost : BOOLEAN, sized : {t.sized}]
  BY <1>9
<1>14. /\ IsQuotes(u.quoted) /\ IsQuotes(u.flight)
       /\ DOMAIN u.quoted \cup DOMAIN u.flight
            \subseteq t.waiting \cup DOMAIN t.quoted \cup DOMAIN t.flight
       /\ u.waiting \cap (DOMAIN u.flight \cup DOMAIN u.quoted) = {} /\ t.at # "final"
       /\ \A b \in DOMAIN u.quoted : Explained(e, {u.quoted[b]})
  BY <1>1, <1>6, <1>8, <1>10
<1>15. TaskInv(e, u)
  BY <1>1, <1>5, <1>12, <1>13, <1>14, SameRound
<1>16. HeldBy(e, u) = Held(e) \cup {a} /\ Fresh(e, u)
  BY <1>1, <1>3, <1>8, <1>10 DEF HeldBy, Fresh
<1>17. a \notin Held(e)
  BY <1>1, <1>3
<1> QED
  BY <1>2, <1>k, <1>15, <1>16, <1>17 DEF Moved

\* A coroutine that ends gives its permit back, whatever it found.
LEMMA OverMoves ==
  ASSUME Typed, NEW e \in Evaluations, TaskInv(e, task[e]), task[e].at = "grid",
         ~batched[e[2]], NEW a \in DOMAIN task[e].flight, NEW quoted,
         NEW lost \in BOOLEAN, IsQuotes(quoted), DOMAIN quoted \subseteq {a},
         \A b \in DOMAIN quoted : Explained(e, {quoted[b]}), Over(e, a, quoted, lost),
         Unmoved(e) /\ ~lost =>
           /\ \A b \in DOMAIN quoted : Through(Now, e[2], quoted[b])
           /\ DOMAIN quoted = {} => ~Works(Now, e[2], a)
  PROVE  a \in Held(e) /\ Moved(e, Held(e) \ {a})
<1> DEFINE t == task[e]
           f == [b \in DOMAIN t.flight \ {a} |-> t.flight[b]]
           q == Updated(t.quoted, quoted)
           l == t.lost \/ lost
           u == [t EXCEPT !.quoted = q, !.lost = l, !.flight = f]
<1>1. t.at = "grid" /\ t.at \in Asking /\ t.sized = <<>> /\ a \in DOMAIN t.flight
  BY DEF TaskInv, Staged, Asking
<1>2. task' = [task EXCEPT ![e] = IF u.waiting = {} /\ DOMAIN u.flight = {}
                                  THEN Settled(e[2], u) ELSE u]
  BY DEF Over
<1>3. Held(e) = DOMAIN t.flight
  BY <1>1 DEF Held
<1>4. t \in [at : {t.at}, upper : {t.upper}, quoted : {t.quoted}, flight : {t.flight},
             waiting : {t.waiting}, lost : BOOLEAN, sized : {t.sized}]
  BY DEF TaskInv, WellFormed
<1>5. TaskInv(e, t)
  OBVIOUS
<1>6. /\ IsQuotes(t.quoted) /\ \A b \in DOMAIN t.quoted : Explained(e, {t.quoted[b]})
      /\ IsQuotes(t.flight)
      /\ \A b \in DOMAIN t.flight : /\ Len(t.flight[b]) <= Len(Now.curve[e[2]])
                                    /\ Explained(e, {t.flight[b]})
      /\ t.waiting \cap (DOMAIN t.flight \cup DOMAIN t.quoted) = {}
  BY <1>5 DEF TaskInv, WellFormed, Answered, Staged
<1>7. l \in BOOLEAN /\ (~l => ~t.lost /\ ~lost)
  OBVIOUS
<1> HIDE DEF t
<1>8. /\ DOMAIN f = DOMAIN t.flight \ {a}
      /\ \A b \in DOMAIN f : f[b] = t.flight[b]
  OBVIOUS
<1>9. IsQuotes(f)
  <2>1. f \in [DOMAIN f -> Seq(Nat)]
    BY <1>6 DEF IsQuotes
  <2> HIDE DEF f
  <2> QED
    BY <1>6, <1>8, <2>1 DEF IsQuotes
<1>10. /\ IsQuotes(q) /\ DOMAIN q = DOMAIN t.quoted \cup DOMAIN quoted
       /\ \A b \in DOMAIN q : Explained(e, {q[b]})
       /\ \A b \in DOMAIN q : \/ b \in DOMAIN quoted /\ q[b] = quoted[b]
                              \/ b \in DOMAIN t.quoted /\ q[b] = t.quoted[b]
  <2>1. /\ IsQuotes(q) /\ DOMAIN q = DOMAIN t.quoted \cup DOMAIN quoted
        /\ \A b \in DOMAIN q : \/ b \in DOMAIN quoted /\ q[b] = quoted[b]
                               \/ b \in DOMAIN t.quoted /\ q[b] = t.quoted[b]
    BY <1>6, UpdatedQuotes
  <2> HIDE DEF q
  <2> QED
    BY <1>6, <2>1
<1> HIDE DEF f, q, l
<1>11. u \in [at : {t.at}, upper : {t.upper}, quoted : {q}, flight : {f},
              waiting : {t.waiting}, lost : {l}, sized : {t.sized}]
  BY <1>4
<1> HIDE DEF u
<1>12. /\ u.at = t.at /\ u.quoted = q /\ u.flight = f
       /\ u.waiting = t.waiting /\ u.sized = t.sized
  BY <1>11
<1>13. u \in [at : {t.at}, upper : {t.upper}, quoted : {u.quoted}, flight : {u.flight},
              waiting : SUBSET t.waiting, lost : BOOLEAN, sized : {t.sized}]
  BY <1>7, <1>11
<1>14. \A b \in DOMAIN u.flight : /\ Len(u.flight[b]) <= Len(Now.curve[e[2]])
                                  /\ Explained(e, {u.flight[b]})
  BY <1>6, <1>8, <1>12
<1>15. /\ IsQuotes(u.quoted) /\ IsQuotes(u.flight)
       /\ DOMAIN u.quoted \cup DOMAIN u.flight
            \subseteq t.waiting \cup DOMAIN t.quoted \cup DOMAIN t.flight
       /\ u.waiting \cap (DOMAIN u.flight \cup DOMAIN u.quoted) = {} /\ t.at # "final"
       /\ \A b \in DOMAIN u.quoted : Explained(e, {u.quoted[b]})
  BY <1>1, <1>6, <1>8, <1>9, <1>10, <1>12
<1>16. TaskInv(e, u)
  BY <1>1, <1>5, <1>13, <1>14, <1>15, SameRound
<1>k. KeepsStill(e, u)
  <2> SUFFICES ASSUME Unmoved(e), Still(Now, e[2], t), ~u.lost
               PROVE  Searched(Now, e[2], u)
    BY <1>1, <1>12 DEF KeepsStill, Still, t, Asking
  <2>1. ~t.lost /\ ~lost
    BY <1>7, <1>11
  <2>2. Searched(Now, e[2], t)
    BY <1>1, <2>1 DEF Still
  <2>3. \A b \in DOMAIN q : Through(Now, e[2], q[b])
    BY <1>10, <2>1, <2>2 DEF Searched
  <2>4. ASSUME NEW b \in Grid(Now, e[2]), Works(Now, e[2], b)
        PROVE  b \in DOMAIN q \/ b \in t.waiting \cup DOMAIN f
    <3>1. b \in DOMAIN t.quoted \/ b \in t.waiting \cup DOMAIN t.flight
      BY <2>2, <2>4 DEF Searched
    <3>2. b = a => b \in DOMAIN q
      BY <1>10, <2>1, <2>4
    <3> QED
      BY <1>8, <1>10, <3>1, <3>2
  <2>5. t.waiting \cup DOMAIN f \cup DOMAIN q \subseteq Grid(Now, e[2])
    BY <1>1, <1>8, <1>10, <2>2 DEF Searched
  <2> QED
    BY <1>1, <1>12, <2>3, <2>4, <2>5 DEF Searched
<1>17. a \in Held(e)
  BY <1>1, <1>3
<1>18. CASE u.waiting = {} /\ DOMAIN u.flight = {}
  <2>1. task' = [task EXCEPT ![e] = Settled(e[2], u)]
    BY <1>2, <1>18
  <2>2. Held(e) \ {a} = {}
    BY <1>3, <1>8, <1>12, <1>18
  <2>3. Moved(e, {})
    BY <1>1, <1>12, <1>16, <1>k, <1>18, <2>1, SettledMoves
  <2> QED
    BY <1>17, <2>2, <2>3
<1>19. CASE ~(u.waiting = {} /\ DOMAIN u.flight = {})
  <2>1. task' = [task EXCEPT ![e] = u]
    BY <1>2, <1>19
  <2>2. HeldBy(e, u) = Held(e) \ {a} /\ Fresh(e, u)
    BY <1>1, <1>3, <1>8, <1>12 DEF HeldBy, Fresh
  <2> QED
    BY <1>16, <1>k, <1>17, <2>1, <2>2 DEF Moved
<1> QED
  BY <1>18, <1>19

LEMMA SizeFailsMoves ==
  ASSUME Typed, NEW e \in Evaluations, TaskInv(e, task[e]), NEW a, SizeFails(e, a)
  PROVE  /\ a \in Held(e) /\ Moved(e, Held(e) \ {a}) /\ free' = free + 1
<1>1. /\ task[e].at = "grid" /\ ~batched[e[2]] /\ a \in DOMAIN task[e].flight
      /\ Over(e, a, Asked({}), TRUE) /\ free' = free + 1
  BY DEF SizeFails, Over
<1>2. IsQuotes(Asked({})) /\ DOMAIN Asked({}) = {} /\ TRUE \in BOOLEAN
  BY AskedFlight
<1> QED
  BY <1>1, <1>2, OverMoves

LEMMA SizeAnswersMoves ==
  ASSUME Typed, NEW e \in Evaluations, TaskInv(e, task[e]), NEW a, SizeAnswers(e, a)
  PROVE  /\ a \in Held(e)
         /\ \/ Moved(e, Held(e)) /\ free' = free
            \/ Moved(e, Held(e) \ {a}) /\ free' = free + 1
<1> DEFINE t == task[e]
           path == t.flight[a]
           next == Append(path, HopOutput(e[2], path))
           f == [t.flight EXCEPT ![a] = next]
           u == [t EXCEPT !.flight = f]
<1>1. /\ t.at = "grid" /\ ~batched[e[2]] /\ t.at \in Asking /\ a \in DOMAIN t.flight
      /\ t.sized = <<>>
  BY DEF SizeAnswers, TaskInv, Staged, Asking
<1>2. /\ path \in Seq(Nat) /\ path[1] = a /\ a \in Nat
      /\ Len(path) \in 1 .. Len(Now.curve[e[2]]) /\ Explained(e, {path})
  BY <1>1, QuoteInFlight
<1>3. Held(e) = DOMAIN t.flight
  BY <1>1 DEF Held
<1>4. CASE HopOutput(e[2], path) = Reverts
  <2>1. Over(e, a, Asked({}), FALSE) /\ free' = free + 1
    BY <1>4 DEF SizeAnswers, Over
  <2>2. IsQuotes(Asked({})) /\ DOMAIN Asked({}) = {} /\ FALSE \in BOOLEAN
    BY AskedFlight
  <2>3. Unmoved(e) => ~Works(Now, e[2], a)
    <3> HIDE DEF path
    <3> QED
      BY <1>2, <1>4, FailedFails
  <2> QED
    BY <1>1, <2>1, <2>2, <2>3, OverMoves
<1>5. CASE HopOutput(e[2], path) # Reverts
  <2>1. /\ next \in Seq(Nat) /\ Len(next) = Len(path) + 1 /\ next[1] = path[1]
        /\ next # <<>> /\ Explained(e, {next})
    <3> HIDE DEF path
    <3> QED
      BY <1>2, <1>5, NextHop
  <2>2. CASE Complete(e[2], next)
    <3> DEFINE q == [b \in {a} |-> next]
    <3>1. Over(e, a, q, FALSE) /\ free' = free + 1
      BY <1>5, <2>2 DEF SizeAnswers, Over
    <3> HIDE DEF next
    <3>2. DOMAIN q = {a} /\ q[a] = next /\ q \in [{a} -> Seq(Nat)]
      BY <2>1
    <3> HIDE DEF q
    <3>3. IsQuotes(q) /\ \A b \in DOMAIN q : Explained(e, {q[b]})
      BY <1>2, <2>1, <3>2 DEF IsQuotes
    <3>4. DOMAIN q \subseteq {a} /\ FALSE \in BOOLEAN
      BY <3>2
    <3>5. Unmoved(e) => \A b \in DOMAIN q : Through(Now, e[2], q[b])
      BY <2>1, <2>2, <3>2, CompleteWorks
    <3> QED
      BY <1>1, <3>1, <3>2, <3>3, <3>4, <3>5, OverMoves
  <2>3. CASE ~Complete(e[2], next)
    <3>1. task' = [task EXCEPT ![e] = u] /\ free' = free
      BY <1>1, <1>5, <2>3 DEF SizeAnswers
    <3>2. t \in [at : {t.at}, upper : {t.upper}, quoted : {t.quoted},
                 flight : {t.flight}, waiting : {t.waiting}, lost : BOOLEAN,
                 sized : {t.sized}]
      BY DEF TaskInv, WellFormed
    <3>3. TaskInv(e, t)
      OBVIOUS
    <3>4. Len(next) <= Len(Now.curve[e[2]])
      <4>1. Len(next) # Len(Now.curve[e[2]]) + 1
        BY <2>3 DEF Complete
      <4>2. Len(Now.curve[e[2]]) \in Nat
        BY Moment
      <4>3. \A n \in Nat : \A m \in 1 .. n : m + 1 # n + 1 => m + 1 <= n
        OBVIOUS
      <4> QED
        BY <1>2, <2>1, <4>1, <4>2, <4>3
    <3> HIDE DEF t, next
    <3>5. /\ IsQuotes(t.quoted) /\ \A b \in DOMAIN t.quoted : Explained(e, {t.quoted[b]})
          /\ IsQuotes(t.flight)
          /\ \A b \in DOMAIN t.flight : /\ Len(t.flight[b]) <= Len(Now.curve[e[2]])
                                        /\ Explained(e, {t.flight[b]})
          /\ t.waiting \cap (DOMAIN t.flight \cup DOMAIN t.quoted) = {}
      BY <3>3 DEF TaskInv, WellFormed, Answered, Staged
    <3>6. /\ DOMAIN f = DOMAIN t.flight /\ f[a] = next
          /\ \A b \in DOMAIN f : b # a => f[b] = t.flight[b]
      BY <1>1
    <3>7. IsQuotes(f)
      <4>1. f \in [DOMAIN t.flight -> Seq(Nat)]
        BY <1>1, <2>1, <3>5 DEF IsQuotes
      <4> HIDE DEF f
      <4> QED
        BY <1>2, <2>1, <3>5, <3>6, <4>1 DEF IsQuotes
    <3> HIDE DEF f
    <3>8. u \in [at : {t.at}, upper : {t.upper}, quoted : {t.quoted}, flight : {f},
                 waiting : {t.waiting}, lost : BOOLEAN, sized : {t.sized}]
      BY <3>2
    <3>l. u.lost = t.lost
      BY <3>2
    <3> HIDE DEF u
    <3>9. /\ u.at = t.at /\ u.quoted = t.quoted /\ u.flight = f
          /\ u.waiting = t.waiting /\ u.sized = t.sized
      BY <3>8
    <3>10. u \in [at : {t.at}, upper : {t.upper}, quoted : {u.quoted}, flight : {u.flight},
                  waiting : SUBSET t.waiting, lost : BOOLEAN, sized : {t.sized}]
      BY <3>8
    <3>11. \A b \in DOMAIN u.flight : /\ Len(u.flight[b]) <= Len(Now.curve[e[2]])
                                      /\ Explained(e, {u.flight[b]})
      BY <2>1, <3>4, <3>5, <3>6, <3>9
    <3>12. /\ IsQuotes(u.quoted) /\ IsQuotes(u.flight)
           /\ DOMAIN u.quoted \cup DOMAIN u.flight
                \subseteq t.waiting \cup DOMAIN t.quoted \cup DOMAIN t.flight
           /\ u.waiting \cap (DOMAIN u.flight \cup DOMAIN u.quoted) = {}
           /\ t.at # "final"
           /\ \A b \in DOMAIN u.quoted : Explained(e, {u.quoted[b]})
      BY <1>1, <3>5, <3>6, <3>7, <3>9
    <3>13. TaskInv(e, u)
      BY <1>1, <3>3, <3>10, <3>11, <3>12, SameRound
    <3>14. HeldBy(e, u) = Held(e) /\ Fresh(e, u)
      BY <1>1, <1>3, <3>6, <3>9 DEF HeldBy, Fresh
    <3>15. KeepsStill(e, u)
      <4> SUFFICES ASSUME Still(Now, e[2], t), ~u.lost PROVE Searched(Now, e[2], u)
        BY <1>1, <3>9 DEF KeepsStill, Still, t, Asking
      <4>1. Searched(Now, e[2], t)
        BY <1>1, <3>l DEF Still
      <4> QED
        BY <1>1, <3>6, <3>9, <4>1 DEF Searched
    <3> QED
      BY <1>1, <1>3, <3>1, <3>13, <3>14, <3>15 DEF Moved
  <2> QED
    BY <2>2, <2>3
<1> QED
  BY <1>4, <1>5

LEMMA RefusedMoves ==
  ASSUME Typed, NEW e \in Evaluations, NEW lost \in BOOLEAN,
         task' = [task EXCEPT ![e] = Refused(lost)], KeepsStill(e, Refused(lost))
  PROVE  Moved(e, {})
<1>1. TaskInv(e, Refused(lost))
  BY RefusedTask
<1>2. Refused(lost).at = "done" /\ Refused(lost).sized = <<>>
  BY DEF Refused, Ended
<1>3. HeldBy(e, Refused(lost)) = {} /\ Fresh(e, Refused(lost))
  BY <1>2 DEF HeldBy, Fresh
<1> QED
  BY <1>1, <1>3 DEF Moved

LEMMA FinalAnswersMoves ==
  ASSUME Typed, NEW e \in Evaluations, TaskInv(e, task[e]), FinalAnswers(e)
  PROVE  Held(e) = {} /\ Moved(e, {})
<1> DEFINE t == task[e]
           best == CHOOSE a \in DOMAIN t.flight : TRUE
           path == t.flight[best]
           next == Append(path, HopOutput(e[2], path))
           f == [t.flight EXCEPT ![best] = next]
           u == [t EXCEPT !.flight = f]
<1>1. /\ t.at = "final" /\ t.at \in Asking /\ t.lost \in BOOLEAN /\ t.sized = <<>>
      /\ DOMAIN t.flight # {} /\ t.waiting = {}
      /\ \A a \in DOMAIN t.flight : DOMAIN t.flight = {a}
      /\ DOMAIN t.flight \subseteq 1 .. t.upper
      /\ \E i \in Since(e) : t.upper = chain[i].balance[e[2]]
  BY DEF FinalAnswers, TaskInv, Staged, WellFormed, Bounded, Asking, Single
<1>2. Held(e) = {}
  BY <1>1 DEF Held
<1>3. best \in DOMAIN t.flight
  BY <1>1
<1>4. task' = [task EXCEPT ![e] =
        IF HopOutput(e[2], path) = Reverts THEN Refused(t.lost)
        ELSE IF ~Complete(e[2], next) THEN [t EXCEPT !.flight[best] = next]
        ELSE [Ended(next, t.lost) EXCEPT
                !.at = IF Gain(next) > 0 THEN "finalize" ELSE "done"]]
  BY DEF FinalAnswers
<1>5. TaskInv(e, t)
  OBVIOUS
<1>6. t \in [at : {t.at}, upper : {t.upper}, quoted : {t.quoted}, flight : {t.flight},
             waiting : {t.waiting}, lost : BOOLEAN, sized : {t.sized}]
  BY DEF TaskInv, WellFormed
<1> HIDE DEF t, best
<1>7. /\ path \in Seq(Nat) /\ path[1] = best /\ best \in Nat
      /\ Len(path) \in 1 .. Len(Now.curve[e[2]]) /\ Explained(e, {path})
  BY <1>3, <1>5, QuoteInFlight
<1>w. ASSUME Still(Now, e[2], t), ~t.lost
      PROVE  /\ Searched(Now, e[2], t) /\ best \in DOMAIN t.quoted
             /\ Through(Now, e[2], t.quoted[best]) /\ t.quoted[best][1] = best
             /\ Works(Now, e[2], best)
  <2>1. Searched(Now, e[2], t) /\ IsQuotes(t.quoted)
    BY <1>1, <1>5, <1>w DEF Still, TaskInv, WellFormed
  <2>2. best \in DOMAIN t.quoted /\ Through(Now, e[2], t.quoted[best])
    BY <1>1, <1>3, <2>1 DEF Searched
  <2>3. t.quoted[best] \in Seq(Nat) /\ t.quoted[best][1] = best
    BY <2>1, <2>2 DEF IsQuotes
  <2> QED
    BY <2>1, <2>2, <2>3 DEF Works
<1>8. CASE HopOutput(e[2], path) = Reverts
  <2>1. task' = [task EXCEPT ![e] = Refused(t.lost)]
    BY <1>4, <1>8
  <2>2. KeepsStill(e, Refused(t.lost))
    <3> SUFFICES ASSUME Unmoved(e), Still(Now, e[2], t), ~t.lost PROVE FALSE
      <4>1. Refused(t.lost).lost = t.lost
        BY DEF Refused, Ended
      <4> QED
        BY <4>1 DEF KeepsStill, Still, t
    <3>1. ~Works(Now, e[2], best)
      <4> HIDE DEF path
      <4> QED
        BY <1>7, <1>8, FailedFails
    <3> QED
      BY <1>1, <1>3, <1>w, <3>1
  <2> QED
    BY <1>1, <1>2, <2>1, <2>2, RefusedMoves
<1>9. CASE HopOutput(e[2], path) # Reverts
  <2>1. /\ next \in Seq(Nat) /\ Len(next) = Len(path) + 1 /\ next[1] = path[1]
        /\ next # <<>> /\ Explained(e, {next})
        /\ next[Len(path) + 1] = Now.curve[e[2]][Len(path)][next[Len(path)]]
    <3> HIDE DEF path
    <3> QED
      BY <1>7, <1>9, NextHop
  <2>2. CASE ~Complete(e[2], next)
    <3>1. task' = [task EXCEPT ![e] = u]
      BY <1>3, <1>4, <1>9, <2>2
    <3>2. Len(next) <= Len(Now.curve[e[2]])
      <4>1. Len(next) # Len(Now.curve[e[2]]) + 1
        BY <2>2 DEF Complete
      <4>2. Len(Now.curve[e[2]]) \in Nat
        BY Moment
      <4>3. \A n \in Nat : \A m \in 1 .. n : m + 1 # n + 1 => m + 1 <= n
        OBVIOUS
      <4> QED
        BY <1>7, <2>1, <4>1, <4>2, <4>3
    <3> HIDE DEF next
    <3>3. /\ IsQuotes(t.quoted) /\ \A b \in DOMAIN t.quoted : Explained(e, {t.quoted[b]})
          /\ IsQuotes(t.flight)
          /\ \A b \in DOMAIN t.flight : /\ Len(t.flight[b]) <= Len(Now.curve[e[2]])
                                        /\ Explained(e, {t.flight[b]})
      BY <1>5 DEF TaskInv, WellFormed, Answered
    <3>4. /\ DOMAIN f = DOMAIN t.flight /\ f[best] = next
          /\ \A b \in DOMAIN f : b # best => f[b] = t.flight[b]
      BY <1>3
    <3>5. IsQuotes(f)
      <4>1. f \in [DOMAIN t.flight -> Seq(Nat)]
        BY <1>3, <2>1, <3>3 DEF IsQuotes
      <4> HIDE DEF f
      <4> QED
        BY <1>7, <2>1, <3>3, <3>4, <4>1 DEF IsQuotes
    <3> HIDE DEF f
    <3>6. u \in [at : {t.at}, upper : {t.upper}, quoted : {t.quoted}, flight : {f},
                 waiting : {t.waiting}, lost : BOOLEAN, sized : {t.sized}]
      BY <1>6
    <3>l. u.lost = t.lost
      BY <1>6
    <3> HIDE DEF u
    <3>7. /\ u.at = t.at /\ u.quoted = t.quoted /\ u.flight = f
          /\ u.waiting = t.waiting /\ u.sized = t.sized
      BY <3>6
    <3>8. u \in [at : {t.at}, upper : {t.upper}, quoted : {u.quoted}, flight : {u.flight},
                 waiting : SUBSET t.waiting, lost : BOOLEAN, sized : {t.sized}]
      BY <3>6
    <3>9. \A b \in DOMAIN u.flight : /\ Len(u.flight[b]) <= Len(Now.curve[e[2]])
                                     /\ Explained(e, {u.flight[b]})
      BY <2>1, <3>2, <3>3, <3>4, <3>7
    <3>10. /\ IsQuotes(u.quoted) /\ IsQuotes(u.flight)
           /\ DOMAIN u.quoted \cup DOMAIN u.flight
                \subseteq t.waiting \cup DOMAIN t.quoted \cup DOMAIN t.flight
           /\ u.waiting \cap (DOMAIN u.flight \cup DOMAIN u.quoted) = {}
           /\ DOMAIN u.flight = DOMAIN t.flight
           /\ \A b \in DOMAIN u.quoted : Explained(e, {u.quoted[b]})
      BY <1>1, <3>3, <3>4, <3>5, <3>7
    <3>11. Paths(u.flight) = {u.flight[best]} /\ DOMAIN u.flight = {best}
      BY <1>1, <1>3, <3>4, <3>7 DEF Paths
    <3>12. Explained(e, Paths(u.flight))
      BY <2>1, <3>4, <3>7, <3>11
    <3>13. \A a, b \in DOMAIN u.flight : Len(u.flight[a]) = Len(u.flight[b])
      BY <3>11
    <3>14. TaskInv(e, u)
      BY <1>1, <1>5, <3>8, <3>9, <3>10, <3>12, <3>13, SameRound
    <3>15. HeldBy(e, u) = {} /\ Fresh(e, u)
      BY <1>1, <3>7 DEF HeldBy, Fresh
    <3>16. KeepsStill(e, u)
      <4> SUFFICES ASSUME Still(Now, e[2], t), ~u.lost PROVE Searched(Now, e[2], u)
        BY <1>1, <3>7 DEF KeepsStill, Still, t, Asking
      <4>1. Searched(Now, e[2], t)
        BY <1>w, <3>l
      <4> QED
        BY <1>1, <3>4, <3>7, <4>1 DEF Searched
    <3> QED
      BY <1>2, <3>1, <3>14, <3>15, <3>16 DEF Moved
  <2>3. CASE Complete(e[2], next)
    <3> DEFINE at == IF Gain(next) > 0 THEN "finalize" ELSE "done"
               v == Task(at, Unknown, Asked({}), Asked({}), {}, t.lost, next)
    <3>1. task' = [task EXCEPT ![e] = [Ended(next, t.lost) EXCEPT !.at = at]]
      BY <1>4, <1>9, <2>3
    <3>2. at \in {"balance", "finalize", "done"}
      OBVIOUS
    <3> HIDE DEF at, next
    <3>3. [Ended(next, t.lost) EXCEPT !.at = at] = v
      <4>1. Ended(next, t.lost)
              = Task("done", Unknown, Asked({}), Asked({}), {}, t.lost, next)
        BY EndedAsTask
      <4> QED
        BY <4>1, WithStage
    <3>4. /\ v.at = at /\ v.sized = next /\ v.lost = t.lost
      BY TaskFields
    <3>5. \E i \in Since(e) : next[1] \in 1 .. chain[i].balance[e[2]]
      <4>1. next[1] \in 1 .. t.upper
        BY <1>1, <1>3, <1>7, <2>1
      <4> QED
        BY <1>1, <4>1
    <3>6. TaskInv(e, v)
      BY <1>1, <2>1, <3>2, <3>5, EndedTask
    <3> HIDE DEF v
    <3>7. HeldBy(e, v) = {}
      BY <3>2, <3>4 DEF HeldBy
    <3>8. Fresh(e, v)
      <4>1. Len(next) - 1 = Len(path)
        BY <1>7, <2>1
      <4> QED
        BY <2>1, <3>4, <4>1 DEF Fresh
    <3>9. KeepsStill(e, v)
      <4> SUFFICES ASSUME Unmoved(e), Still(Now, e[2], t), ~t.lost
                   PROVE  Verdict(Now, e[2], next)
        BY <3>2, <3>4 DEF KeepsStill, Still, t, Asking
      <4>1. /\ Searched(Now, e[2], t) /\ best \in DOMAIN t.quoted
            /\ Through(Now, e[2], t.quoted[best]) /\ t.quoted[best][1] = best
        BY <1>w
      <4>2. Through(Now, e[2], next)
        BY <2>1, <2>3, CompleteWorks
      <4>3. next = t.quoted[best]
        <5>1. Len(Now.curve[e[2]]) \in Nat /\ next[1] = best
          BY <1>7, <2>1, Moment
        <5> QED
          BY <4>1, <4>2, <5>1, OneThrough
      <4>4. \E a \in Grid(Now, e[2]) : Works(Now, e[2], a)
        BY <1>1, <4>1 DEF Searched
      <4>5. ASSUME NEW p \in Seq(Nat), Through(Now, e[2], p), p[1] \in Grid(Now, e[2])
            PROVE  NoWorse(next, p)
        <5>1. Works(Now, e[2], p[1])
          BY <4>5 DEF Works
        <5>2. p[1] \in DOMAIN t.quoted /\ Through(Now, e[2], t.quoted[p[1]])
          BY <1>1, <4>1, <4>5, <5>1 DEF Searched
        <5>3. t.quoted[p[1]][1] = p[1] /\ Len(Now.curve[e[2]]) \in Nat
          BY <1>5, <5>2, Moment DEF TaskInv, WellFormed, IsQuotes
        <5>4. p = t.quoted[p[1]]
          BY <4>5, <5>2, <5>3, OneThrough
        <5>5. NoWorse(t.quoted[best], t.quoted[p[1]])
          BY <1>1, <1>3, <4>1, <5>2 DEF Searched
        <5> QED
          BY <4>3, <5>4, <5>5
      <4> QED
        BY <2>1, <4>2, <4>4, <4>5 DEF Verdict
    <3> QED
      BY <1>2, <3>1, <3>3, <3>6, <3>7, <3>8, <3>9 DEF Moved
  <2> QED
    BY <2>2, <2>3
<1> QED
  BY <1>8, <1>9

LEMMA FinalizedMoves ==
  ASSUME Typed, NEW e \in Evaluations, TaskInv(e, task[e]), Finalized(e)
  PROVE  Held(e) = {} /\ Moved(e, {})
<1> DEFINE t == task[e]
           u == [t EXCEPT !.at = "done"]
<1>1. t.at = "finalize"
  BY DEF Finalized
<1>2. t \in [at : Stages, upper : Nat \cup {Unknown}, quoted : {Asked({})},
             flight : {Asked({})}, waiting : {{}}, lost : BOOLEAN, sized : {t.sized}]
  BY <1>1 DEF TaskInv, WellFormed, Staged, Asking
<1>3. /\ t.sized \in Seq(Nat) /\ t.lost \in BOOLEAN /\ Explained(e, {t.sized})
      /\ t.sized # <<>> => \E i \in Since(e) : t.sized[1] \in 1 .. chain[i].balance[e[2]]
  BY DEF TaskInv, WellFormed, Bounded, Answered
<1>4. Held(e) = {}
  BY <1>1 DEF Held
<1>5. task' = [task EXCEPT ![e] = u]
  BY DEF Finalized
<1>6. TaskInv(e, t)
  OBVIOUS
<1>7. Fresh(e, u) /\ HeldBy(e, u) = {}
  <2>1. u.sized = t.sized /\ u.at = "done"
    BY <1>2
  <2> QED
    BY <2>1 DEF Fresh, HeldBy
<1>8. TaskInv(e, u)
  <2> HIDE DEF t
  <2>1. u \in [at : {"done"}, upper : Nat \cup {Unknown}, quoted : {Asked({})},
               flight : {Asked({})}, waiting : {{}}, lost : BOOLEAN, sized : {t.sized}]
    BY <1>2
  <2> HIDE DEF u
  <2>2. /\ u.at = "done" /\ u.quoted = Asked({}) /\ u.flight = Asked({})
        /\ u.waiting = {} /\ u.sized = t.sized
    BY <2>1
  <2>3. WellFormed(u)
    <3>1. IsQuotes(Asked({}))
      BY AskedFlight
    <3>2. u \in [at : Stages, upper : Nat \cup {Unknown}, quoted : {u.quoted},
                 flight : {u.flight}, waiting : SUBSET Nat, lost : BOOLEAN,
                 sized : Seq(Nat)]
      BY <1>3, <2>1, <2>2 DEF Stages
    <3> QED
      BY <2>2, <3>1, <3>2 DEF WellFormed
  <2>4. Staged(e, u)
    BY <2>2 DEF Staged, Asking, Asked
  <2>5. Bounded(e, u)
    BY <1>3, <2>2 DEF Bounded, Asking
  <2>6. Answered(e, u)
    <3>1. DOMAIN Asked({}) = {} /\ Explained(e, Paths(Asked({})))
      BY AskedFlight
    <3> QED
      BY <1>3, <2>2, <3>1 DEF Answered
  <2> QED
    BY <2>3, <2>4, <2>5, <2>6 DEF TaskInv
<1>9. KeepsStill(e, u)
  <2>1. u.sized = t.sized /\ u.at = "done" /\ u.lost = t.lost
    BY <1>2
  <2> QED
    BY <1>1, <2>1 DEF KeepsStill, Still, Asking
<1> QED
  BY <1>4, <1>5, <1>7, <1>8, <1>9 DEF Moved

LEMMA TimesOutMoves ==
  ASSUME Typed, NEW e \in Evaluations, TimesOut(e)
  PROVE  Moved(e, {}) /\ free' = free + Cardinality(Held(e))
<1>1. task' = [task EXCEPT ![e] = Refused(TRUE)]
  BY DEF TimesOut
<1>2. free' = free + Cardinality(Held(e))
  BY DEF TimesOut, Returned
<1>3. KeepsStill(e, Refused(TRUE))
  BY LostStill DEF KeepsStill
<1> QED
  BY <1>1, <1>2, <1>3, RefusedMoves

LEMMA FinalFailsMoves ==
  ASSUME Typed, NEW e \in Evaluations, FinalFails(e)
  PROVE  Held(e) = {} /\ Moved(e, {})
<1>1. task' = [task EXCEPT ![e] = Refused(TRUE)]
  BY DEF FinalFails
<1>2. Held(e) = {}
  BY DEF FinalFails, Held
<1>3. KeepsStill(e, Refused(TRUE))
  BY LostStill DEF KeepsStill
<1> QED
  BY <1>1, <1>2, <1>3, RefusedMoves

\* A step of a task moves it, and passes at most the permits it holds.
PermitsPassed(e) ==
  \/ Moved(e, Held(e)) /\ free' = free
  \/ \E a : a \notin Held(e) /\ Moved(e, Held(e) \cup {a}) /\ free > 0 /\ free' = free - 1
  \/ \E a \in Held(e) : Moved(e, Held(e) \ {a}) /\ free' = free + 1
  \/ Moved(e, {}) /\ free' = free + Cardinality(Held(e))

LEMMA EvaluateMoves ==
  ASSUME Typed, NEW e \in Evaluations, TaskInv(e, task[e]), Evaluate(e)
  PROVE  UNCHANGED <<chain, batched, trigger>> /\ PermitsPassed(e)
<1> DEFINE Same == UNCHANGED <<chain, batched, trigger>>
<1>1. CASE ReadBalance(e)
  <2>1. Same /\ free' = free
    BY <1>1 DEF ReadBalance
  <2> QED
    BY <1>1, <2>1, ReadBalanceMoves DEF PermitsPassed
<1>2. CASE HopAnswers(e)
  <2>1. Same /\ free' = free
    BY <1>2 DEF HopAnswers
  <2> QED
    BY <1>2, <2>1, HopAnswersMoves DEF PermitsPassed
<1>3. CASE MulticallFails(e)
  <2>1. Same /\ free' = free
    BY <1>3 DEF MulticallFails
  <2> QED
    BY <1>3, <2>1, MulticallFailsMoves DEF PermitsPassed
<1>4. CASE FinalAnswers(e)
  <2>1. Same /\ free' = free
    BY <1>4 DEF FinalAnswers
  <2> QED
    BY <1>4, <2>1, FinalAnswersMoves DEF PermitsPassed
<1>5. CASE FinalFails(e)
  <2>1. Same /\ free' = free
    BY <1>5 DEF FinalFails
  <2> QED
    BY <1>5, <2>1, FinalFailsMoves DEF PermitsPassed
<1>6. CASE Finalized(e)
  <2>1. Same /\ free' = free
    BY <1>6 DEF Finalized
  <2> QED
    BY <1>6, <2>1, FinalizedMoves DEF PermitsPassed
<1>7. CASE TimesOut(e)
  <2>1. Same
    BY <1>7 DEF TimesOut
  <2> QED
    BY <1>7, <2>1, TimesOutMoves DEF PermitsPassed
<1>8. ASSUME NEW a, Acquire(e, a) PROVE Same /\ PermitsPassed(e)
  <2>1. Same /\ free > 0 /\ free' = free - 1
    BY <1>8 DEF Acquire
  <2> QED
    BY <1>8, <2>1, AcquireMoves DEF PermitsPassed
<1>9. ASSUME NEW a, SizeAnswers(e, a) PROVE Same /\ PermitsPassed(e)
  <2>1. Same
    BY <1>9 DEF SizeAnswers, Over
  <2> QED
    BY <1>9, <2>1, SizeAnswersMoves DEF PermitsPassed
<1>10. ASSUME NEW a, SizeFails(e, a) PROVE Same /\ PermitsPassed(e)
  <2>1. Same
    BY <1>10 DEF SizeFails, Over
  <2> QED
    BY <1>10, <2>1, SizeFailsMoves DEF PermitsPassed
<1> HIDE DEF Same
<1> QED
  BY <1>1, <1>2, <1>3, <1>4, <1>5, <1>6, <1>7, <1>8, <1>9, <1>10 DEF Evaluate, Same

\* Only a task that has begun takes steps.
LEMMA EvaluateBegun ==
  ASSUME NEW e, Evaluate(e)
  PROVE  task[e] # Refused(FALSE)
<1> SUFFICES ASSUME task[e] = Refused(FALSE) PROVE FALSE
  OBVIOUS
<1>1. task[e].at = "done" /\ task[e].waiting = {} /\ DOMAIN task[e].flight = {}
  BY DEF Refused, Ended, Asked
<1> QED
  BY <1>1 DEF Evaluate, ReadBalance, HopAnswers, MulticallFails, FinalAnswers,
              FinalFails, Finalized, TimesOut, Timed

-----------------------------------------------------------------------------
(* What is true of a task stays true as states are added.                  *)

Grows == chain' = chain \/ \E market \in Markets : chain' = Append(chain, market)

LEMMA MomentGrows ==
  ASSUME Typed, Grows, NEW e \in Evaluations,
         trigger'[e[1]].since = trigger[e[1]].since
  PROVE  /\ Since(e) \subseteq Since(e)'
         /\ \A i \in Since(e) : chain'[i] = chain[i]
         /\ Len(Now'.curve[e[2]]) = Len(Now.curve[e[2]])
<1>1. /\ Len(chain) \in Nat \ {0} /\ Len(chain) \in Since(e) /\ Now \in Markets
      /\ Since(e) \subseteq 1 .. Len(chain) /\ e[2] \in Cycles /\ e[1] \in Triggers
  BY Moment
<1>2. trigger[e[1]].since \in Nat
  BY <1>1 DEF Typed
<1>3. CASE chain' = chain
  BY <1>3 DEF Since, Now
<1>4. ASSUME NEW market \in Markets, chain' = Append(chain, market)
      PROVE  /\ Since(e) \subseteq Since(e)'
             /\ \A i \in Since(e) : chain'[i] = chain[i]
             /\ Len(Now'.curve[e[2]]) = Len(Now.curve[e[2]])
  <2>1. chain \in Seq(Markets)
    BY DEF Typed
  <2>2. /\ Len(chain') = Len(chain) + 1 /\ chain'[Len(chain) + 1] = market
        /\ \A i \in 1 .. Len(chain) : chain'[i] = chain[i]
    BY <1>4, <2>1
  <2>3. Now' = market
    BY <2>2 DEF Now
  <2>4. Len(market.curve[e[2]]) = Len(Now.curve[e[2]])
    BY <1>1, MarketsAssumption
  <2>5. Since(e) \subseteq Since(e)'
    BY <1>1, <1>2, <2>2 DEF Since
  <2> QED
    BY <1>1, <2>2, <2>3, <2>4, <2>5
<1> QED
  BY <1>3, <1>4 DEF Grows

LEMMA ExplainsBy ==
  ASSUME NEW since, NEW states, NEW c, NEW P, NEW hops,
         hops = Len(states[Len(states)].curve[c]),
         NEW s \in [1 .. hops -> since .. Len(states)],
         \A i, j \in 1 .. hops : i < j => s[i] <= s[j],
         \A path \in P : \A i \in 1 .. Len(path) - 1 :
           /\ path[i] \in DOMAIN states[s[i]].curve[c][i]
           /\ path[i + 1] = states[s[i]].curve[c][i][path[i]],
         \A path \in P : Len(path) <= hops + 1
  PROVE  Explains(since, states, c, P)
BY DEF Explains

LEMMA AnswersGrow ==
  ASSUME Typed, Grows, NEW e \in Evaluations,
         trigger'[e[1]].since = trigger[e[1]].since,
         NEW P, \A path \in P : path \in Seq(Nat), Explained(e, P)
  PROVE  Explains(trigger'[e[1]].since, chain', e[2], P)
<1> DEFINE c == e[2]
           hops == Len(Now.curve[c])
<1>1. /\ Since(e) \subseteq Since(e)'
      /\ \A i \in Since(e) : chain'[i] = chain[i]
      /\ Len(Now'.curve[c]) = hops /\ hops \in Nat
  BY Moment, MomentGrows
<1>2. AnsweredBy(e, P) /\ \A path \in P : Len(path) <= hops + 1
  BY ExplainedIs
<1>3. PICK s \in [1 .. hops -> Since(e)] :
        /\ \A i, j \in DOMAIN s : i < j => s[i] <= s[j]
        /\ \A path \in P : \A i \in 1 .. Len(path) - 1 :
             /\ path[i] \in DOMAIN chain[s[i]].curve[c][i]
             /\ path[i + 1] = chain[s[i]].curve[c][i][path[i]]
  BY <1>2 DEF AnsweredBy
<1>4. s \in [1 .. hops -> Since(e)']
  BY <1>1, <1>3
<1>5. ASSUME NEW path \in P, NEW i \in 1 .. Len(path) - 1
      PROVE  /\ path[i] \in DOMAIN chain'[s[i]].curve[c][i]
             /\ path[i + 1] = chain'[s[i]].curve[c][i][path[i]]
  <2>1. /\ path[i] \in DOMAIN chain[s[i]].curve[c][i]
        /\ path[i + 1] = chain[s[i]].curve[c][i][path[i]]
    BY <1>3
  <2>2. i \in 1 .. hops
    <3>1. Len(path) \in Nat /\ Len(path) <= hops + 1
      BY <1>2
    <3> HIDE DEF hops
    <3> QED
      BY <1>1, <3>1
  <2>3. chain'[s[i]] = chain[s[i]]
    BY <1>1, <1>3, <2>2
  <2> QED
    BY <2>1, <2>3
<1> DEFINE newhops == Len(chain'[Len(chain')].curve[c])
<1>6. newhops = hops
  BY <1>1 DEF Now
<1>7. s \in [1 .. newhops -> trigger'[e[1]].since .. Len(chain')]
  BY <1>4, <1>6 DEF Since
<1>8. \A path \in P : Len(path) <= newhops + 1
  BY <1>2, <1>6
<1>9. \A i, j \in 1 .. newhops : i < j => s[i] <= s[j]
  BY <1>3, <1>6
<1> QED
  BY <1>5, <1>7, <1>8, <1>9, ExplainsBy

LEMMA TaskGrows ==
  ASSUME Typed, Grows, NEW e \in Evaluations, batched' = batched,
         trigger'[e[1]].since = trigger[e[1]].since, NEW t, TaskInv(e, t)
  PROVE  TaskInv(e, t)'
<1>1. /\ Since(e) \subseteq Since(e)'
      /\ \A i \in Since(e) : chain'[i] = chain[i]
      /\ Len(Now'.curve[e[2]]) = Len(Now.curve[e[2]])
  BY MomentGrows
<1>2. WellFormed(t)'
  BY DEF TaskInv, WellFormed
<1>3. Staged(e, t)'
  BY DEF TaskInv, Staged
<1>4. Bounded(e, t)'
  <2>1. /\ t.at \in Asking => \E i \in Since(e)' : t.upper = chain'[i].balance[e[2]]
        /\ t.sized # <<>> =>
             \E i \in Since(e)' : t.sized[1] \in 1 .. chain'[i].balance[e[2]]
    BY <1>1 DEF TaskInv, Bounded
  <2> QED
    BY <2>1 DEF TaskInv, Bounded
<1>5. Answered(e, t)'
  <2> DEFINE Grown(P) == Explains(trigger'[e[1]].since, chain', e[2], P)
  <2>g. ASSUME NEW P, \A path \in P : path \in Seq(Nat), Explained(e, P)
        PROVE  Grown(P)
    BY <2>g, AnswersGrow
  <2> HIDE DEF Grown
  <2>1. /\ t.quoted \in [DOMAIN t.quoted -> Seq(Nat)] /\ t.sized \in Seq(Nat)
        /\ t.flight \in [DOMAIN t.flight -> Seq(Nat)]
    BY DEF TaskInv, WellFormed, IsQuotes
  <2>2. ASSUME NEW a \in DOMAIN t.quoted PROVE Grown({t.quoted[a]})
    BY <2>1, <2>g DEF TaskInv, Answered
  <2>3. ASSUME NEW a \in DOMAIN t.flight
        PROVE  Len(t.flight[a]) <= Len(Now'.curve[e[2]]) /\ Grown({t.flight[a]})
    BY <1>1, <2>1, <2>g DEF TaskInv, Answered
  <2>4. ASSUME batched'[e[2]]
        PROVE  /\ \A a, b \in DOMAIN t.flight : Len(t.flight[a]) = Len(t.flight[b])
               /\ Grown(Paths(t.flight))
    <3>1. \A path \in Paths(t.flight) : path \in Seq(Nat)
      BY <2>1 DEF Paths
    <3> QED
      BY <2>4, <3>1, <2>g DEF TaskInv, Answered
  <2>5. Grown({t.sized})
    BY <2>1, <2>g DEF TaskInv, Answered
  <2> QED
    BY <2>2, <2>3, <2>4, <2>5 DEF Answered, Explained, Grown
<1> QED
  BY <1>2, <1>3, <1>4, <1>5 DEF TaskInv

LEMMA TaskNow ==
  ASSUME NEW e \in Evaluations, NEW t, TaskInv(e, t)', t = task'[e]
  PROVE  TaskInv(e, task[e])'
BY DEF TaskInv, WellFormed, Staged, Bounded, Answered, Explained

-----------------------------------------------------------------------------
(* The steps keep the invariant of the tasks.                              *)

LEMMA MovedTask ==
  ASSUME TInv, NEW e \in Evaluations, NEW held, Moved(e, held),
         UNCHANGED <<chain, batched, trigger>>
  PROVE  TInv'
<1>1. PICK t : task' = [task EXCEPT ![e] = t] /\ TaskInv(e, t)
  BY DEF Moved
<1>2. Typed
  BY DEF TInv
<1>3. DOMAIN task = Evaluations
  BY <1>2 DEF Typed
<1>4. Typed'
  BY <1>1, <1>2, <1>3 DEF Typed
<1>5. ASSUME NEW x \in Evaluations PROVE TaskInv(x, task[x])'
  <2>1. PICK u : u = task'[x]
    OBVIOUS
  <2>2. TaskInv(x, u)
    <3>1. u = IF x = e THEN t ELSE task[x]
      BY <1>1, <1>3, <2>1
    <3> QED
      BY <1>1, <3>1 DEF TInv
  <2>3. TaskInv(x, u)'
    BY <1>2, <2>2, TaskGrows DEF Grows
  <2> QED
    BY <2>1, <2>3, TaskNow
<1> QED
  BY <1>4, <1>5 DEF TInv

LEMMA NewStateTask ==
  ASSUME TInv, NEW market \in Markets, NewState(market)
  PROVE  TInv'
<1>1. Typed /\ chain' = Append(chain, market) /\ UNCHANGED <<batched, trigger, task>>
  BY DEF TInv, NewState
<1>2. chain' \in Seq(Markets) /\ Len(chain') = Len(chain) + 1
  BY <1>1 DEF Typed
<1>3. Typed'
  BY <1>1, <1>2 DEF Typed
<1>4. ASSUME NEW x \in Evaluations PROVE TaskInv(x, task[x])'
  <2>1. PICK u : u = task'[x]
    OBVIOUS
  <2>2. TaskInv(x, u)
    BY <1>1, <2>1 DEF TInv
  <2>3. TaskInv(x, u)'
    BY <1>1, <2>2, TaskGrows DEF Grows
  <2> QED
    BY <2>1, <2>3, TaskNow
<1> QED
  BY <1>3, <1>4 DEF TInv

\* Before anything is asked the invariant says nothing of the states so far.
Unasked == Typed => \A e \in Evaluations : TaskInv(e, Refused(FALSE))

LEMMA UnaskedHolds == Unasked
BY RefusedTask DEF Unasked

LEMMA UnaskedLater == Unasked'
BY UnaskedHolds, PTL

LEMMA ArriveTask ==
  ASSUME TInv, Quiet, NEW r \in Triggers, Arrive(r)
  PROVE  TInv'
<1>1. /\ Typed /\ trigger[r].at = "idle" /\ UNCHANGED <<chain, batched, task>>
      /\ trigger' = [trigger EXCEPT ![r] = [at |-> "prefetch", since |-> Len(chain)]]
  BY DEF TInv, Arrive
<1>2. Len(chain) \in Nat /\ Len(chain) >= 1
  BY <1>1 DEF Typed
<1>3. trigger' \in [Triggers -> [at : {"idle", "prefetch", "evaluate"}, since : Nat]]
  BY <1>1, <1>2 DEF Typed
<1>4. \A q \in Triggers : trigger'[q].since \in 1 .. Len(chain)
  BY <1>1, <1>2 DEF Typed
<1>5. Typed'
  BY <1>1, <1>3, <1>4 DEF Typed
<1>6. ASSUME NEW x \in Evaluations PROVE TaskInv(x, task[x])'
  <2>1. PICK u : u = task'[x]
    OBVIOUS
  <2>2. x[1] \in Triggers
    BY DEF Evaluations
  <2>3. CASE x[1] = r
    <3>1. u = Refused(FALSE)
      BY <1>1, <2>1, <2>3 DEF Quiet
    <3>2. TaskInv(x, Refused(FALSE))'
      BY <1>5, UnaskedLater DEF Unasked
    <3>3. task'[x] = Refused(FALSE)
      BY <2>1, <3>1
    <3> QED
      BY <3>2, <3>3 DEF TaskInv, WellFormed, Staged, Bounded, Answered, Explained,
                        Refused, Ended, Asked
  <2>4. CASE x[1] # r
    <3>1. TaskInv(x, u) /\ trigger'[x[1]].since = trigger[x[1]].since
      BY <1>1, <2>1, <2>2, <2>4 DEF TInv
    <3>2. TaskInv(x, u)'
      BY <1>1, <3>1, TaskGrows DEF Grows
    <3> QED
      BY <2>1, <3>2, TaskNow
  <2> QED
    BY <2>3, <2>4
<1> QED
  BY <1>5, <1>6 DEF TInv

\* The two steps of a trigger that set all its tasks at once.
LEMMA TriggerTasks ==
  ASSUME TInv, NEW r \in Triggers, NEW at \in {"idle", "evaluate"}, NEW f,
         trigger' = [trigger EXCEPT ![r].at = at], UNCHANGED <<chain, batched>>,
         task' = [e \in Evaluations |-> f[e]],
         \A e \in Evaluations : TaskInv(e, f[e])
  PROVE  TInv'
<1>1. Typed
  BY DEF TInv
<1>2. /\ trigger' \in [Triggers -> [at : {"idle", "prefetch", "evaluate"}, since : Nat]]
      /\ \A q \in Triggers : trigger'[q].since = trigger[q].since
  BY <1>1 DEF Typed
<1>3. Typed'
  BY <1>1, <1>2 DEF Typed
<1>4. ASSUME NEW x \in Evaluations PROVE TaskInv(x, task[x])'
  <2>1. x[1] \in Triggers
    BY DEF Evaluations
  <2> DEFINE u == f[x]
  <2>2. u = task'[x]
    OBVIOUS
  <2>3. TaskInv(x, u)
    OBVIOUS
  <2> HIDE DEF u
  <2>4. TaskInv(x, u)'
    BY <1>1, <1>2, <2>1, <2>3, TaskGrows DEF Grows
  <2> QED
    BY <2>2, <2>4, TaskNow
<1> QED
  BY <1>3, <1>4 DEF TInv

LEMMA PrefetchTask ==
  ASSUME TInv, NEW r \in Triggers, NEW known, Prefetch(r, known)
  PROVE  TInv'
<1> DEFINE f == [e \in Evaluations |->
                   IF e[1] # r THEN task[e]
                   ELSE IF e[2] \in known THEN Opened(e[2], Now.balance[e[2]])
                        ELSE [Refused(FALSE) EXCEPT !.at = "balance"]]
<1>1. ASSUME NEW e \in Evaluations PROVE TaskInv(e, f[e])
  <2>1. CASE e[1] # r
    BY <2>1 DEF TInv
  <2>2. CASE e[1] = r /\ e[2] \in known
    BY <2>2, OpenedTask DEF TInv
  <2>3. CASE e[1] = r /\ e[2] \notin known
    BY <2>3, RefusedTask DEF TInv
  <2> QED
    BY <2>1, <2>2, <2>3
<1>2. /\ trigger' = [trigger EXCEPT ![r].at = "evaluate"] /\ UNCHANGED <<chain, batched>>
      /\ task' = f
  BY DEF Prefetch
<1>3. f = [e \in Evaluations |-> f[e]]
  OBVIOUS
<1> HIDE DEF f
<1>4. task' = [e \in Evaluations |-> f[e]]
  BY <1>2, <1>3
<1> QED
  BY <1>1, <1>2, <1>4, TriggerTasks

LEMMA AnswerTask ==
  ASSUME TInv, NEW r \in Triggers, Answer(r)
  PROVE  TInv'
<1> DEFINE f == [e \in Evaluations |-> IF e[1] = r THEN Refused(FALSE) ELSE task[e]]
<1>1. ASSUME NEW e \in Evaluations PROVE TaskInv(e, f[e])
  <2>1. TaskInv(e, Refused(FALSE))
    BY RefusedTask DEF TInv
  <2> QED
    BY <2>1 DEF TInv
<1>2. /\ trigger' = [trigger EXCEPT ![r].at = "idle"] /\ UNCHANGED <<chain, batched>>
      /\ task' = f
  BY DEF Answer
<1>3. f = [e \in Evaluations |-> f[e]]
  OBVIOUS
<1> HIDE DEF f
<1>4. task' = [e \in Evaluations |-> f[e]]
  BY <1>2, <1>3
<1> QED
  BY <1>1, <1>2, <1>4, TriggerTasks

-----------------------------------------------------------------------------
(* The steps keep the account of the permits.                              *)

LEMMA HeldMoves ==
  ASSUME Typed, NEW e \in Evaluations, NEW held, Moved(e, held), batched' = batched
  PROVE  Coroutines' = (Coroutines \ ({e} \X Held(e))) \cup ({e} \X held)
<1>1. PICK t : task' = [task EXCEPT ![e] = t] /\ HeldBy(e, t) = held
  BY DEF Moved
<1>2. DOMAIN task = Evaluations
  BY DEF Typed
<1>3. Held(e)' = held
  <2>1. task'[e] = t
    BY <1>1, <1>2
  <2> QED
    BY <1>1, <2>1 DEF Held, HeldBy
<1>4. \A x \in Evaluations : x # e => Held(x)' = Held(x)
  <2> SUFFICES ASSUME NEW x \in Evaluations, x # e PROVE Held(x)' = Held(x)
    OBVIOUS
  <2>1. task'[x] = task[x]
    BY <1>1, <1>2
  <2> QED
    BY <2>1 DEF Held
<1> QED
  BY <1>3, <1>4 DEF Coroutines

LEMMA PassedPermits ==
  ASSUME TInv, Permits, NEW e \in Evaluations, PermitsPassed(e), batched' = batched
  PROVE  Permits'
<1>1. Typed /\ TaskInv(e, task[e])
  BY DEF TInv
<1>2. /\ IsFiniteSet(Coroutines) /\ free \in Nat
      /\ free + Cardinality(Coroutines) = quote_concurrency
  BY DEF Permits
<1>3. quote_concurrency \in Nat
  BY RouteSizingAssumption
<1>4. Cardinality(Coroutines) \in Nat
  BY <1>2, FS_CardinalityType
<1>5. CASE Moved(e, Held(e)) /\ free' = free
  <2>1. Coroutines' = (Coroutines \ ({e} \X Held(e))) \cup ({e} \X Held(e))
    BY <1>1, <1>5, HeldMoves
  <2>2. {e} \X Held(e) \subseteq Coroutines
    BY DEF Coroutines
  <2>3. Coroutines' = Coroutines
    BY <2>1, <2>2
  <2> QED
    BY <1>2, <1>5, <2>3 DEF Permits
<1>6. ASSUME NEW a, a \notin Held(e), Moved(e, Held(e) \cup {a}), free > 0,
             free' = free - 1
      PROVE  Permits'
  <2>1. Coroutines' = (Coroutines \ ({e} \X Held(e))) \cup ({e} \X (Held(e) \cup {a}))
    BY <1>1, <1>6, HeldMoves
  <2>2. {e} \X Held(e) \subseteq Coroutines /\ <<e, a>> \notin Coroutines
    BY <1>6 DEF Coroutines
  <2>3. {e} \X (Held(e) \cup {a}) = ({e} \X Held(e)) \cup {<<e, a>>}
    OBVIOUS
  <2>4. Coroutines' = Coroutines \cup {<<e, a>>}
    BY <2>1, <2>2, <2>3
  <2>5. /\ IsFiniteSet(Coroutines \cup {<<e, a>>})
        /\ Cardinality(Coroutines \cup {<<e, a>>}) = Cardinality(Coroutines) + 1
    BY <1>2, <2>2, FS_AddElement
  <2>6. free' \in Nat /\ free' + (Cardinality(Coroutines) + 1) = quote_concurrency
    BY <1>2, <1>4, <1>6
  <2> QED
    BY <2>4, <2>5, <2>6 DEF Permits
<1>7. ASSUME NEW a \in Held(e), Moved(e, Held(e) \ {a}), free' = free + 1
      PROVE  Permits'
  <2>1. Coroutines' = (Coroutines \ ({e} \X Held(e))) \cup ({e} \X (Held(e) \ {a}))
    BY <1>1, <1>7, HeldMoves
  <2>2. {e} \X Held(e) \subseteq Coroutines /\ <<e, a>> \in Coroutines
    BY DEF Coroutines
  <2>3. {e} \X (Held(e) \ {a}) = ({e} \X Held(e)) \ {<<e, a>>}
    OBVIOUS
  <2>4. Coroutines' = Coroutines \ {<<e, a>>}
    BY <2>1, <2>2, <2>3
  <2>5. /\ IsFiniteSet(Coroutines \ {<<e, a>>})
        /\ Cardinality(Coroutines \ {<<e, a>>}) = Cardinality(Coroutines) - 1
    BY <1>2, <2>2, FS_RemoveElement
  <2>6. free' \in Nat /\ free' + (Cardinality(Coroutines) - 1) = quote_concurrency
    BY <1>2, <1>4, <1>7
  <2> QED
    BY <2>4, <2>5, <2>6 DEF Permits
<1>8. CASE Moved(e, {}) /\ free' = free + Cardinality(Held(e))
  <2> DEFINE own == {e} \X Held(e)
  <2>1. Coroutines' = (Coroutines \ own) \cup ({e} \X {})
    BY <1>1, <1>8, HeldMoves
  <2>2. own \subseteq Coroutines
    BY DEF Coroutines
  <2>3. {e} \X {} = {}
    OBVIOUS
  <2>4. IsFiniteSet(Held(e))
    <3>1. CASE task[e].at = "grid" /\ ~batched[e[2]]
      <4>1. /\ DOMAIN task[e].flight \subseteq 1 .. task[e].upper
            /\ task[e].upper \in Nat
        BY <1>1, <3>1 DEF TaskInv, Bounded, Asking
      <4>2. IsFiniteSet(1 .. task[e].upper)
        BY <4>1, FS_Interval
      <4>3. IsFiniteSet(DOMAIN task[e].flight)
        BY <4>1, <4>2, FS_Subset
      <4> QED
        BY <3>1, <4>3 DEF Held
    <3>2. CASE ~(task[e].at = "grid" /\ ~batched[e[2]])
      BY <3>2, FS_EmptySet DEF Held
    <3> QED
      BY <3>1, <3>2
  <2>5. Cardinality(own) = Cardinality(Held(e)) /\ Cardinality(Held(e)) \in Nat
    <3>1. IsFiniteSet({e}) /\ Cardinality({e}) = 1
      BY FS_Singleton
    <3>2. Cardinality(own) = Cardinality({e}) * Cardinality(Held(e))
      BY <2>4, <3>1, FS_Product
    <3>3. Cardinality(Held(e)) \in Nat
      BY <2>4, FS_CardinalityType
    <3> QED
      BY <3>1, <3>2, <3>3
  <2> HIDE DEF own
  <2>6. Coroutines' = Coroutines \ own
    BY <2>1, <2>3
  <2>7. /\ IsFiniteSet(Coroutines \ own)
        /\ Cardinality(Coroutines \ own)
             = Cardinality(Coroutines) - Cardinality(Held(e))
    <3>1. /\ IsFiniteSet(Coroutines \ own)
          /\ Cardinality(Coroutines \ own)
               = Cardinality(Coroutines) - Cardinality(Coroutines \cap own)
      BY <1>2, FS_Difference
    <3>2. Coroutines \cap own = own
      BY <2>2
    <3> QED
      BY <2>5, <3>1, <3>2
  <2>8. /\ free' \in Nat
        /\ free' + (Cardinality(Coroutines) - Cardinality(Held(e))) = quote_concurrency
    BY <1>2, <1>3, <1>4, <1>8, <2>5
  <2> QED
    BY <2>6, <2>7, <2>8 DEF Permits
<1> QED
  BY <1>5, <1>6, <1>7, <1>8 DEF PermitsPassed

\* The steps of a trigger move no permit.
LEMMA KeptPermits ==
  ASSUME Permits, free' = free, \A e \in Evaluations : Held(e)' = Held(e)
  PROVE  Permits'
<1>1. Coroutines' = Coroutines
  BY DEF Coroutines
<1> QED
  BY <1>1 DEF Permits

LEMMA PrefetchPermits ==
  ASSUME TInv, Quiet, Permits, NEW r \in Triggers, NEW known, Prefetch(r, known)
  PROVE  Permits'
<1>1. ASSUME NEW e \in Evaluations PROVE Held(e)' = Held(e)
  <2>1. CASE e[1] # r
    <3>1. task'[e] = task[e] /\ batched' = batched
      BY <2>1 DEF Prefetch
    <3> QED
      BY <3>1 DEF Held
  <2>2. CASE e[1] = r
    <3>1. task[e] = Refused(FALSE)
      BY <2>2 DEF Quiet, Prefetch
    <3>2. Held(e) = {}
      BY <3>1 DEF Held, Refused, Ended
    <3>3. task'[e] = IF e[2] \in known THEN Opened(e[2], Now.balance[e[2]])
                     ELSE [Refused(FALSE) EXCEPT !.at = "balance"]
      BY <2>2 DEF Prefetch
    <3>4. batched' = batched
      BY DEF Prefetch
    <3>5. CASE e[2] \in known
      <4>1. \/ batched'[e[2]]
            \/ DOMAIN task'[e].flight = {}
        BY <3>3, <3>4, <3>5, OpenedTask DEF TInv, Asked
      <4> QED
        BY <3>2, <4>1 DEF Held
    <3>6. CASE e[2] \notin known
      <4>1. [Refused(FALSE) EXCEPT !.at = "balance"].at # "grid"
        BY EndedAsTask, WithStage, TaskFields
      <4>2. task'[e].at # "grid"
        BY <3>3, <3>6, <4>1
      <4> QED
        BY <3>2, <4>2 DEF Held
    <3> QED
      BY <3>5, <3>6
  <2> QED
    BY <2>1, <2>2
<1> QED
  BY <1>1, KeptPermits DEF Prefetch

LEMMA AnswerPermits ==
  ASSUME Permits, NEW r \in Triggers, Answer(r)
  PROVE  Permits'
<1>1. ASSUME NEW e \in Evaluations PROVE Held(e)' = Held(e)
  <2>1. batched' = batched /\ task'[e] = IF e[1] = r THEN Refused(FALSE) ELSE task[e]
    BY DEF Answer
  <2>2. CASE e[1] # r
    BY <2>1, <2>2 DEF Held
  <2>3. CASE e[1] = r
    <3>1. e[2] \in Cycles /\ e = <<e[1], e[2]>>
      BY DEF Evaluations
    <3>2. task[e].at = "done"
      BY <2>3, <3>1 DEF Answer
    <3>3. Refused(FALSE).at = "done"
      BY DEF Refused, Ended
    <3> QED
      BY <2>1, <2>3, <3>2, <3>3 DEF Held
  <2> QED
    BY <2>2, <2>3
<1> QED
  BY <1>1, KeptPermits DEF Answer

-----------------------------------------------------------------------------
(* The specification keeps the invariant.                                  *)

LEMMA InitInvariant == Init => IInv
<1> SUFFICES ASSUME Init PROVE IInv
  OBVIOUS
<1> USE DEF Init
<1>1. Typed
  <2>1. PICK market \in Markets : chain = <<market>>
    OBVIOUS
  <2>2. chain \in Seq(Markets) /\ Len(chain) = 1
    BY <2>1
  <2>3. trigger \in [Triggers -> [at : {"idle", "prefetch", "evaluate"}, since : Nat]]
    OBVIOUS
  <2>4. \A r \in Triggers : trigger[r].since \in 1 .. Len(chain)
    BY <2>2
  <2>5. task \in [Evaluations -> {task[e] : e \in Evaluations}]
    OBVIOUS
  <2> QED
    BY <2>2, <2>3, <2>4, <2>5 DEF Typed
<1>2. TInv
  BY <1>1, RefusedTask DEF TInv
<1>3. Quiet
  BY DEF Quiet, Evaluations
<1>4. Permits
  <2>1. \A e \in Evaluations : Held(e) = {}
    BY DEF Held, Refused, Ended
  <2>2. Coroutines = {}
    BY <2>1 DEF Coroutines
  <2>3. quote_concurrency \in Nat
    BY RouteSizingAssumption
  <2> QED
    BY <2>2, <2>3, FS_EmptySet DEF Permits
<1> QED
  BY <1>2, <1>3, <1>4 DEF IInv

LEMMA NewStateInvariant ==
  ASSUME IInv, NEW market \in Markets, NewState(market)
  PROVE  IInv'
<1>1. TInv'
  BY NewStateTask DEF IInv
<1>2. Quiet'
  BY DEF IInv, Quiet, NewState
<1>3. Permits'
  <2>1. \A e \in Evaluations : Held(e)' = Held(e)
    BY DEF Held, NewState
  <2> QED
    BY <2>1, KeptPermits DEF IInv, NewState
<1> QED
  BY <1>1, <1>2, <1>3 DEF IInv

LEMMA ArriveInvariant ==
  ASSUME IInv, NEW r \in Triggers, Arrive(r)
  PROVE  IInv'
<1>1. TInv'
  BY ArriveTask DEF IInv
<1>2. Quiet'
  <2> SUFFICES ASSUME NEW e \in Evaluations, trigger'[e[1]].at # "evaluate"
               PROVE  task'[e] = Refused(FALSE)
    BY DEF Quiet
  <2>1. e[1] \in Triggers /\ Typed
    BY DEF Evaluations, IInv, TInv
  <2>2. trigger[e[1]].at # "evaluate"
    BY <2>1 DEF Arrive, Typed
  <2> QED
    BY <2>2 DEF IInv, Quiet, Arrive
<1>3. Permits'
  <2>1. \A e \in Evaluations : Held(e)' = Held(e)
    BY DEF Held, Arrive
  <2> QED
    BY <2>1, KeptPermits DEF IInv, Arrive
<1> QED
  BY <1>1, <1>2, <1>3 DEF IInv

LEMMA PrefetchInvariant ==
  ASSUME IInv, NEW r \in Triggers, NEW known, Prefetch(r, known)
  PROVE  IInv'
<1>1. TInv'
  BY PrefetchTask DEF IInv
<1>2. Quiet'
  <2> SUFFICES ASSUME NEW e \in Evaluations, trigger'[e[1]].at # "evaluate"
               PROVE  task'[e] = Refused(FALSE)
    BY DEF Quiet
  <2>1. e[1] \in Triggers /\ Typed
    BY DEF Evaluations, IInv, TInv
  <2>2. e[1] # r /\ trigger[e[1]].at # "evaluate"
    BY <2>1 DEF Prefetch, Typed
  <2>3. task'[e] = task[e]
    BY <2>2 DEF Prefetch
  <2> QED
    BY <2>2, <2>3 DEF IInv, Quiet
<1>3. Permits'
  BY PrefetchPermits DEF IInv
<1> QED
  BY <1>1, <1>2, <1>3 DEF IInv

LEMMA AnswerInvariant ==
  ASSUME IInv, NEW r \in Triggers, Answer(r)
  PROVE  IInv'
<1>1. TInv'
  BY AnswerTask DEF IInv
<1>2. Quiet'
  <2> SUFFICES ASSUME NEW e \in Evaluations, trigger'[e[1]].at # "evaluate"
               PROVE  task'[e] = Refused(FALSE)
    BY DEF Quiet
  <2>1. e[1] \in Triggers /\ Typed
    BY DEF Evaluations, IInv, TInv
  <2>2. task'[e] = IF e[1] = r THEN Refused(FALSE) ELSE task[e]
    BY DEF Answer
  <2>3. e[1] # r => trigger[e[1]].at # "evaluate"
    BY <2>1 DEF Answer, Typed
  <2> QED
    BY <2>2, <2>3 DEF IInv, Quiet
<1>3. Permits'
  BY AnswerPermits DEF IInv
<1> QED
  BY <1>1, <1>2, <1>3 DEF IInv

LEMMA EvaluateInvariant ==
  ASSUME IInv, NEW e \in Evaluations, Evaluate(e)
  PROVE  IInv'
<1>1. TInv /\ Typed /\ TaskInv(e, task[e]) /\ Quiet /\ Permits
  BY DEF IInv, TInv
<1>2. UNCHANGED <<chain, batched, trigger>> /\ PermitsPassed(e)
  BY <1>1, EvaluateMoves
<1>3. PICK held : Moved(e, held)
  BY <1>2 DEF PermitsPassed
<1>4. TInv'
  BY <1>1, <1>2, <1>3, MovedTask
<1>5. Quiet'
  <2> SUFFICES ASSUME NEW x \in Evaluations, trigger'[x[1]].at # "evaluate"
               PROVE  task'[x] = Refused(FALSE)
    BY DEF Quiet
  <2>1. task[x] = Refused(FALSE)
    BY <1>1, <1>2 DEF Quiet
  <2>2. x # e
    BY <2>1, EvaluateBegun
  <2>3. task'[x] = task[x]
    BY <1>1, <1>3, <2>2 DEF Moved, Typed
  <2> QED
    BY <2>1, <2>3
<1>6. Permits'
  BY <1>1, <1>2, PassedPermits
<1> QED
  BY <1>4, <1>5, <1>6 DEF IInv

LEMMA NextInvariant == IInv /\ [Next]_vars => IInv'
<1> SUFFICES ASSUME IInv, [Next]_vars PROVE IInv'
  OBVIOUS
<1>1. CASE UNCHANGED vars
  <2>1. chain' = chain /\ batched' = batched /\ trigger' = trigger /\ task' = task
        /\ free' = free
    BY <1>1 DEF vars
  <2>2. Typed' /\ Quiet'
    BY <2>1 DEF IInv, TInv, Typed, Quiet
  <2>3. ASSUME NEW x \in Evaluations PROVE TaskInv(x, task[x])'
    <3>1. PICK u : u = task'[x]
      OBVIOUS
    <3>2. TaskInv(x, u)
      BY <2>1, <3>1 DEF IInv, TInv
    <3>3. TaskInv(x, u)'
      BY <2>1, <3>2, TaskGrows DEF IInv, TInv, Grows
    <3> QED
      BY <3>1, <3>3, TaskNow
  <2>4. Permits'
    <3>1. \A e \in Evaluations : Held(e)' = Held(e)
      BY <2>1 DEF Held
    <3> QED
      BY <2>1, <3>1, KeptPermits DEF IInv
  <2> QED
    BY <2>2, <2>3, <2>4 DEF IInv, TInv
<1>2. ASSUME NEW market \in Markets, NewState(market) PROVE IInv'
  BY <1>2, NewStateInvariant
<1>3. ASSUME NEW r \in Triggers, Arrive(r) PROVE IInv'
  BY <1>3, ArriveInvariant
<1>4. ASSUME NEW r \in Triggers, NEW known \in SUBSET Cycles, Prefetch(r, known)
      PROVE  IInv'
  BY <1>4, PrefetchInvariant
<1>5. ASSUME NEW r \in Triggers, Answer(r) PROVE IInv'
  BY <1>5, AnswerInvariant
<1>6. ASSUME NEW e \in Evaluations, Evaluate(e) PROVE IInv'
  BY <1>6, EvaluateInvariant
<1> QED
  BY <1>1, <1>2, <1>3, <1>4, <1>5, <1>6 DEF Next

\* The invariant the other theorems rest on: it says of each task which locals
\* are in use at each stage of _optimize_size, that its sizes come from the
\* balance it read, and which states explain its quotes.
THEOREM Invariant == Spec => []IInv
BY InitInvariant, NextInvariant, PTL DEF Spec

-----------------------------------------------------------------------------
(* What follows.                                                           *)

LEMMA TypesFollow == IInv => TypeOK
<1> SUFFICES ASSUME IInv PROVE TypeOK
  OBVIOUS
<1>1. Typed /\ \A e \in Evaluations : TaskInv(e, task[e])
  BY DEF IInv, TInv
<1>2. free \in 0 .. quote_concurrency
  <2>1. Cardinality(Coroutines) \in Nat /\ quote_concurrency \in Nat /\ free \in Nat
    BY FS_CardinalityType, RouteSizingAssumption DEF IInv, Permits
  <2> QED
    BY <2>1 DEF IInv, Permits
<1>3. trigger \in [Triggers -> [at : {"idle", "prefetch", "evaluate"},
                                since : 1 .. Len(chain)]]
  BY <1>1 DEF Typed
<1>4. ASSUME NEW e \in Evaluations
      PROVE  LET t == task[e] IN
             /\ t.at \in {"balance", "grid", "refine", "final", "finalize", "done"}
             /\ t.waiting \subseteq Nat /\ t.sized \in Seq(Nat)
             /\ IsPaths(t.quoted, Nat \ t.waiting) /\ IsPaths(t.flight, Nat \ t.waiting)
             /\ t.waiting # {} => t.at = "grid" /\ ~batched[e[2]]
  <2> DEFINE t == task[e]
  <2>1. WellFormed(t) /\ Staged(e, t) /\ Bounded(e, t)
    BY <1>1 DEF TaskInv
  <2>2. /\ t.at \in Stages /\ t.waiting \subseteq Nat /\ t.sized \in Seq(Nat)
        /\ IsQuotes(t.quoted) /\ IsQuotes(t.flight)
    BY <2>1 DEF WellFormed
  <2> QED
    BY <2>1, <2>2 DEF Staged, Stages, Asking, IsQuotes, IsPaths
<1> QED
  BY <1>2, <1>3, <1>4 DEF TypeOK

\* The locals of each task have the types and the stages of the code's, and
\* only a fallback task has coroutines that wait (TypeOK).
THEOREM Types == Spec => []TypeOK
BY Invariant, TypesFollow, PTL

LEMMA QuotesFollow == IInv => QuotesAreReal
<1> SUFFICES ASSUME IInv, NEW e \in Evaluations
             PROVE  LET t == task[e] IN
                    /\ \A a \in DOMAIN t.quoted : AnsweredBy(e, {t.quoted[a]})
                    /\ \A a \in DOMAIN t.flight : AnsweredBy(e, {t.flight[a]})
                    /\ batched[e[2]] =>
                         AnsweredBy(e, {t.flight[a] : a \in DOMAIN t.flight})
                    /\ AnsweredBy(e, {t.sized})
  BY DEF QuotesAreReal
<1>1. Answered(e, task[e])
  BY DEF IInv, TInv, TaskInv
<1> QED
  BY <1>1, ExplainedIs DEF Answered, Paths

\* Every quote is made of answers of the pools, in the order of the hops and of
\* the pending states since the trigger; one order explains all of a batched
\* round (_batched_quotes, evaluate_affected).
THEOREM RealQuotes == Spec => []QuotesAreReal
BY Invariant, QuotesFollow, PTL

LEMMA SizesFollow == IInv => SizesAffordable
<1> SUFFICES ASSUME IInv, NEW e \in Evaluations, NEW a \in Sizes(task[e])
             PROVE  \E i \in Since(e) : a \in 1 .. chain[i].balance[e[2]]
  BY DEF SizesAffordable
<1> DEFINE t == task[e]
<1>1. Staged(e, t) /\ Bounded(e, t)
  BY DEF IInv, TInv, TaskInv
<1>2. CASE t.at \in Asking
  BY <1>1, <1>2 DEF Staged, Bounded, Sizes
<1>3. CASE t.at \notin Asking
  <2>1. t.waiting = {} /\ DOMAIN t.quoted = {} /\ DOMAIN t.flight = {}
    BY <1>1, <1>3 DEF Staged, Asking, Asked
  <2> QED
    BY <1>1, <2>1 DEF Bounded, Sizes
<1> QED
  BY <1>2, <1>3

\* No size is asked for, quoted or chosen that the first pool of the cycle could
\* not lend in some pending state since the trigger.
THEOREM AffordableSizes == Spec => []SizesAffordable
BY Invariant, SizesFollow, PTL

\* A permit of the semaphore is free or held by one running coroutine, through
\* every failure, timeout and end of an evaluation (async with, wait_for).
THEOREM ConservedPermits == Spec => []PermitsConserved
<1>1. IInv => PermitsConserved
  BY DEF IInv, Permits, PermitsConserved
<1> QED
  BY <1>1, Invariant, PTL

LEMMA FreshStep ==
  ASSUME IInv, [Next]_vars, NEW e \in Evaluations,
         task'[e].sized # <<>>, task[e].sized = <<>>
  PROVE  LET path == task'[e].sized
             hops == Len(path) - 1
         IN path[hops + 1] = Now.curve[e[2]][hops][path[hops]]
<1>1. Typed /\ TInv
  BY DEF IInv, TInv
<1>2. task'[e] # task[e]
  OBVIOUS
<1>3. Refused(FALSE).sized = <<>> /\ [Refused(FALSE) EXCEPT !.at = "balance"].sized = <<>>
  <2> DEFINE none == Refused(FALSE)
  <2>1. none \in [at : {"done"}, upper : {Unknown}, quoted : {Asked({})},
                  flight : {Asked({})}, waiting : {{}}, lost : {FALSE}, sized : {<<>>}]
    BY DEF Refused, Ended
  <2> HIDE DEF none
  <2>2. none.sized = <<>> /\ [none EXCEPT !.at = "balance"].sized = <<>>
    BY <2>1
  <2> QED
    BY <2>2 DEF none
<1>4. ~ UNCHANGED vars
  BY <1>2 DEF vars
<1>5. ASSUME NEW market \in Markets, NewState(market) PROVE FALSE
  BY <1>2, <1>5 DEF NewState
<1>6. ASSUME NEW r \in Triggers, Arrive(r) PROVE FALSE
  BY <1>2, <1>6 DEF Arrive
<1>7. ASSUME NEW r \in Triggers, NEW known, Prefetch(r, known) PROVE FALSE
  <2>1. \/ task'[e] = task[e]
        \/ task'[e] = Opened(e[2], Now.balance[e[2]])
        \/ task'[e] = [Refused(FALSE) EXCEPT !.at = "balance"]
    BY <1>7 DEF Prefetch
  <2> QED
    BY <1>1, <1>2, <1>3, <2>1, OpenedTask
<1>8. ASSUME NEW r \in Triggers, Answer(r) PROVE FALSE
  <2>1. task'[e] = task[e] \/ task'[e] = Refused(FALSE)
    BY <1>8 DEF Answer
  <2> QED
    BY <1>2, <1>3, <2>1
<1>9. PICK x \in Evaluations : Evaluate(x)
  BY <1>4, <1>5, <1>6, <1>7, <1>8 DEF Next
<1>10. TaskInv(x, task[x])
  BY <1>1 DEF TInv
<1>11. PICK held : Moved(x, held)
  BY <1>1, <1>9, <1>10, EvaluateMoves DEF PermitsPassed
<1>12. PICK t : task' = [task EXCEPT ![x] = t] /\ Fresh(x, t)
  BY <1>11 DEF Moved
<1>13. x = e /\ task'[e] = t
  BY <1>1, <1>2, <1>12 DEF Typed
<1> QED
  BY <1>12, <1>13 DEF Fresh

\* A result that a step of an evaluation finds was returned by the last hop in
\* the present pending state (the re-quote of _optimize_size).
THEOREM FreshAnswers == Spec => FreshAnswer
<1>1. ASSUME IInv, [Next]_vars
      PROVE  \A e \in Evaluations :
               LET path == task'[e].sized
                   hops == Len(path) - 1
               IN path # <<>> /\ task[e].sized = <<>> =>
                    path[hops + 1] = Now.curve[e[2]][hops][path[hops]]
  BY <1>1, FreshStep
<1> QED
  BY <1>1, Invariant, PTL DEF Spec, FreshAnswer

-----------------------------------------------------------------------------
(* What a search in a state that stood still finds.                        *)

\* One more hop, if there was none that failed.
LEMMA WalkOn ==
  ASSUME Typed, NEW e \in Evaluations, NEW path, WalkIn(Now, e[2], path),
         Len(path) <= Len(Now.curve[e[2]]), HopOutput(e[2], path) # Reverts
  PROVE  LET next == Append(path, HopOutput(e[2], path))
         IN /\ WalkIn(Now, e[2], next) /\ Len(next) = Len(path) + 1
            /\ next[1] = path[1]
<1> DEFINE c == e[2]
           hops == Len(Now.curve[c])
           out == HopOutput(c, path)
           next == Append(path, out)
<1>1. /\ path \in Seq(Nat) /\ Len(path) \in 1 .. hops /\ hops \in Nat
      /\ \A i \in 1 .. Len(path) - 1 : /\ path[i] \in DOMAIN Now.curve[c][i]
                                       /\ path[i + 1] = Now.curve[c][i][path[i]]
  BY Moment DEF WalkIn
<1>2. /\ out \in Nat /\ next \in Seq(Nat)
      /\ path[Len(path)] \in DOMAIN Now.curve[c][Len(path)]
      /\ out = Now.curve[c][Len(path)][path[Len(path)]]
  BY <1>1, HopTaken
<1>3. /\ Len(next) = Len(path) + 1 /\ next[Len(path) + 1] = out
      /\ \A i \in 1 .. Len(path) : next[i] = path[i]
  BY <1>1, <1>2
<1> HIDE DEF out, next, hops
<1>4. ASSUME NEW i \in 1 .. Len(next) - 1
      PROVE  /\ next[i] \in DOMAIN Now.curve[c][i]
             /\ next[i + 1] = Now.curve[c][i][next[i]]
  <2>1. CASE i = Len(path)
    <3>1. next[i] = path[Len(path)] /\ next[i + 1] = out
      BY <1>1, <1>3, <2>1
    <3> QED
      BY <1>2, <2>1, <3>1
  <2>2. CASE i # Len(path)
    <3>1. i \in 1 .. Len(path) - 1 /\ i + 1 \in 1 .. Len(path) /\ i \in 1 .. Len(path)
      BY <1>1, <1>3, <2>2
    <3>2. next[i] = path[i] /\ next[i + 1] = path[i + 1]
      BY <1>3, <3>1
    <3> QED
      BY <1>1, <3>1, <3>2
  <2> QED
    BY <2>1, <2>2
<1>5. Len(next) \in 1 .. hops + 1 /\ next[1] = path[1]
  BY <1>1, <1>3
<1>6. WalkIn(Now, c, next)
  BY <1>2, <1>4, <1>5 DEF WalkIn, hops
<1> QED
  BY <1>3, <1>5, <1>6 DEF next, out

\* The recursion that follows a size to its end: the path after each hop.
Followed(c, path, n) ==
  IF Len(path) < n \/ HopOutput(c, path) = Reverts THEN path
  ELSE Append(path, HopOutput(c, path))

Follows(c, a, n, f) ==
  f = [m \in 0 .. n |-> IF m = 0 THEN <<a>> ELSE Followed(c, f[m - 1], m)]

LEMMA FollowExists ==
  ASSUME NEW c, NEW a, NEW n \in Nat
  PROVE  \E f : Follows(c, a, n, f)
<1> DEFINE S == {k \in Nat : \E f : Follows(c, a, k, f)}
<1>1. 0 \in S
  <2> DEFINE f == [m \in 0 .. 0 |-> <<a>>]
  <2>1. f = [m \in 0 .. 0 |-> IF m = 0 THEN <<a>> ELSE Followed(c, f[m - 1], m)]
    OBVIOUS
  <2> QED
    BY <2>1 DEF Follows
<1>2. ASSUME NEW k \in Nat, k \in S PROVE k + 1 \in S
  <2>1. PICK f : Follows(c, a, k, f)
    BY <1>2
  <2> DEFINE g == [m \in 0 .. k + 1 |-> IF m <= k THEN f[m] ELSE Followed(c, f[k], k + 1)]
  <2>2. \A m \in 0 .. k : g[m] = f[m]
    OBVIOUS
  <2>3. ASSUME NEW m \in 0 .. k + 1
        PROVE  g[m] = IF m = 0 THEN <<a>> ELSE Followed(c, g[m - 1], m)
    <3>1. CASE m \in 0 .. k
      <4>1. f[m] = IF m = 0 THEN <<a>> ELSE Followed(c, f[m - 1], m)
        BY <2>1, <3>1 DEF Follows
      <4>2. m # 0 => m - 1 \in 0 .. k
        BY <3>1
      <4> HIDE DEF g
      <4> QED
        BY <2>2, <3>1, <4>1, <4>2
    <3>2. CASE m \notin 0 .. k
      <4>1. m = k + 1 /\ m - 1 = k /\ m # 0 /\ k \in 0 .. k /\ ~(m <= k)
        BY <3>2
      <4>2. g[m] = Followed(c, f[k], k + 1)
        BY <4>1
      <4> HIDE DEF g
      <4> QED
        BY <2>2, <4>1, <4>2
    <3> QED
      BY <3>1, <3>2
  <2>4. Follows(c, a, k + 1, g)
    <3>1. g = [m \in 0 .. k + 1 |-> g[m]]
      OBVIOUS
    <3> HIDE DEF g
    <3> DEFINE h == [m \in 0 .. k + 1 |-> IF m = 0 THEN <<a>> ELSE Followed(c, g[m - 1], m)]
    <3>2. [m \in 0 .. k + 1 |-> g[m]] = h
      BY <2>3
    <3>3. g = h
      BY <3>1, <3>2
    <3> QED
      BY <3>3 DEF Follows
  <2> QED
    BY <2>4
<1> HIDE DEF S
<1>3. n \in S
  BY <1>1, <1>2, Induct
<1> QED
  BY <1>3 DEF S

LEMMA TruePathFollows ==
  ASSUME NEW c, NEW a, Len(Now.curve[c]) \in Nat
  PROVE  \E f : /\ Follows(c, a, Len(Now.curve[c]), f)
                /\ TruePath(c, a) = f[Len(Now.curve[c])]
<1> DEFINE hops == Len(Now.curve[c])
           upTo == CHOOSE f : Follows(c, a, hops, f)
<1>1. Follows(c, a, hops, upTo)
  <2>1. \E f : Follows(c, a, hops, f)
    BY FollowExists
  <2> HIDE DEF hops
  <2> QED
    BY <2>1
<1>2. TruePath(c, a) = upTo[hops]
  BY DEF TruePath, Follows, Followed
<1> QED
  BY <1>1, <1>2

\* The true path of a size goes through the cycle or is stuck on the way.
LEMMA TruePathEnds ==
  ASSUME Typed, NEW e \in Evaluations, NEW a \in Nat
  PROVE  LET path == TruePath(e[2], a)
         IN /\ path[1] = a
            /\ Through(Now, e[2], path) \/ Stuck(Now, e[2], path)
<1> DEFINE c == e[2]
           hops == Len(Now.curve[c])
<1>1. hops \in Nat \ {0}
  BY Moment
<1>2. PICK f : Follows(c, a, hops, f) /\ TruePath(c, a) = f[hops]
  BY <1>1, TruePathFollows
<1> DEFINE On(n) ==
             /\ WalkIn(Now, c, f[n]) /\ f[n][1] = a
             /\ \/ Len(f[n]) = n + 1
                \/ Len(f[n]) <= n /\ HopOutput(c, f[n]) = Reverts
           S == {n \in Nat : n <= hops => On(n)}
<1>3. 0 \in S
  <2>1. f[0] = <<a>>
    BY <1>1, <1>2 DEF Follows
  <2>2. WalkIn(Now, c, <<a>>)
    BY <1>1 DEF WalkIn
  <2> QED
    BY <2>1, <2>2
<1>4. ASSUME NEW n \in Nat, n \in S PROVE n + 1 \in S
  <2> SUFFICES ASSUME n + 1 <= hops PROVE On(n + 1)
    OBVIOUS
  <2>1. On(n)
    <3>1. n <= hops => On(n)
      <4> HIDE DEF On, hops
      <4> QED
        BY <1>4
    <3>2. n <= hops
      <4> HIDE DEF hops
      <4> QED
        BY <1>1
    <3> QED
      BY <3>1, <3>2
  <2>2. f[n + 1] = Followed(c, f[n], n + 1)
    <3>1. n + 1 \in 0 .. hops /\ n + 1 # 0 /\ (n + 1) - 1 = n
      BY <1>1
    <3> HIDE DEF hops, On, S
    <3> QED
      BY <1>2, <3>1 DEF Follows
  <2>3. Len(f[n]) \in Nat
    BY <2>1 DEF WalkIn
  <2>4. CASE Len(f[n]) < n + 1 \/ HopOutput(c, f[n]) = Reverts
    <3>1. f[n + 1] = f[n]
      BY <2>2, <2>4 DEF Followed
    <3>2. HopOutput(c, f[n]) = Reverts /\ Len(f[n]) <= n + 1
      BY <2>1, <2>3, <2>4
    <3> QED
      BY <2>1, <3>1, <3>2
  <2>5. CASE ~(Len(f[n]) < n + 1 \/ HopOutput(c, f[n]) = Reverts)
    <3>1. Len(f[n]) = n + 1
      BY <2>1, <2>3, <2>5
    <3>2. f[n + 1] = Append(f[n], HopOutput(c, f[n]))
      BY <2>2, <2>5 DEF Followed
    <3> DEFINE next == Append(f[n], HopOutput(c, f[n]))
    <3>3. WalkIn(Now, c, next) /\ Len(next) = Len(f[n]) + 1 /\ next[1] = f[n][1]
      BY <2>1, <2>5, <3>1, WalkOn
    <3> HIDE DEF next
    <3> QED
      BY <2>1, <3>1, <3>2, <3>3 DEF next
  <2> QED
    BY <2>4, <2>5
<1> HIDE DEF S
<1>5. hops \in S
  <2> HIDE DEF hops
  <2>1. \A n \in Nat : n \in S
    BY <1>3, <1>4, Induct
  <2> QED
    BY <1>1, <2>1
<1>6. On(hops)
  BY <1>1, <1>5 DEF S
<1>7. CASE Len(f[hops]) = hops + 1
  BY <1>2, <1>6, <1>7 DEF Through
<1>8. CASE Len(f[hops]) <= hops /\ HopOutput(c, f[hops]) = Reverts
  <2> DEFINE path == f[hops]
  <2>1. path \in Seq(Nat) /\ Len(path) \in 1 .. hops
    BY <1>1, <1>6, <1>8 DEF WalkIn
  <2>2. path[Len(path)] \notin DOMAIN Now.curve[c][Len(path)]
    <3> HIDE DEF path
    <3> SUFFICES ASSUME path[Len(path)] \in DOMAIN Now.curve[c][Len(path)] PROVE FALSE
      OBVIOUS
    <3>1. HopOutput(c, path) = Now.curve[c][Len(path)][path[Len(path)]]
      BY DEF HopOutput
    <3>2. HopOutput(c, path) \in Nat
      BY <2>1, <3>1, Moment, MarketsAssumption
    <3> QED
      BY <1>8, <3>2, RouteSizingAssumption DEF path
  <2> QED
    BY <1>2, <1>6, <1>8, <2>2 DEF Stuck
<1> QED
  BY <1>6, <1>7, <1>8

\* A size works exactly if its true path goes through, and then it is the only
\* path of the size that does.
LEMMA TruePathWorks ==
  ASSUME Typed, NEW e \in Evaluations, NEW a \in Nat
  PROVE  LET c == e[2]
             path == TruePath(c, a)
         IN /\ Complete(c, path) <=> Works(Now, c, a)
            /\ Works(Now, c, a) => path \in Seq(Nat) /\ Through(Now, c, path) /\ path[1] = a
            /\ \A p \in Seq(Nat) : Through(Now, c, p) /\ p[1] = a => p = path
<1> DEFINE c == e[2]
           path == TruePath(c, a)
<1>1. Len(Now.curve[c]) \in Nat
  BY Moment
<1>2. path[1] = a /\ (Through(Now, c, path) \/ Stuck(Now, c, path))
  BY TruePathEnds
<1> HIDE DEF path
<1>3. CASE Through(Now, c, path)
  <2>1. path \in Seq(Nat) /\ Complete(c, path)
    BY <1>3 DEF Through, WalkIn, Complete
  <2>2. Works(Now, c, a)
    BY <1>2, <1>3, <2>1 DEF Works
  <2>3. \A p \in Seq(Nat) : Through(Now, c, p) /\ p[1] = a => p = path
    BY <1>1, <1>2, <1>3, OneThrough
  <2> QED
    BY <1>2, <1>3, <2>1, <2>2, <2>3 DEF path
<1>4. CASE Stuck(Now, c, path)
  <2>1. ~Works(Now, c, a)
    BY <1>1, <1>2, <1>4, StuckFails
  <2>2. ~Complete(c, path)
    <3>1. Len(path) \in Nat /\ Len(path) <= Len(Now.curve[c])
      BY <1>4 DEF Stuck, WalkIn
    <3> QED
      BY <1>1, <3>1 DEF Complete
  <2>3. \A p \in Seq(Nat) : Through(Now, c, p) => p[1] # a
    BY <2>1 DEF Works
  <2> QED
    BY <2>1, <2>2, <2>3 DEF path
<1> QED
  BY <1>2, <1>3, <1>4

LEMMA InitStill == Init => StillInv
BY DEF Init, StillInv, Evaluations

LEMMA NextStill == IInv /\ StillInv /\ [Next]_vars => StillInv'
<1> SUFFICES ASSUME IInv, StillInv, [Next]_vars,
                    NEW e \in Evaluations, trigger'[e[1]].at = "evaluate", Unmoved(e)'
             PROVE  Still(Now', e[2], task'[e])
  BY DEF StillInv
<1>1. Typed /\ TInv /\ e[1] \in Triggers
  BY DEF IInv, TInv, Evaluations
<1>2. Len(chain) \in Nat /\ trigger[e[1]].since \in Nat /\ trigger[e[1]].since <= Len(chain)
  BY <1>1 DEF Typed
<1>3. ASSUME chain' = chain, trigger'[e[1]] = trigger[e[1]], task'[e] = task[e]
      PROVE  Still(Now', e[2], task'[e])
  BY <1>3 DEF StillInv, Unmoved, Now
<1>4. CASE UNCHANGED vars
  BY <1>3, <1>4 DEF vars
<1>5. ASSUME NEW market \in Markets, NewState(market)
      PROVE  Still(Now', e[2], task'[e])
  <2>1. Len(chain') = Len(chain) + 1 /\ trigger' = trigger
    BY <1>1, <1>5 DEF NewState, Typed
  <2> QED
    BY <1>2, <2>1 DEF Unmoved
<1>6. ASSUME NEW r \in Triggers, Arrive(r)
      PROVE  Still(Now', e[2], task'[e])
  <2>1. e[1] # r
    BY <1>1, <1>6 DEF Arrive, Typed
  <2> QED
    BY <1>1, <1>3, <1>6, <2>1 DEF Arrive, Typed
<1>7. ASSUME NEW r \in Triggers, NEW known, Prefetch(r, known)
      PROVE  Still(Now', e[2], task'[e])
  <2>1. chain' = chain /\ Now' = Now
    BY <1>7 DEF Prefetch, Now
  <2>2. CASE e[1] # r
    <3>1. task'[e] = task[e] /\ trigger'[e[1]] = trigger[e[1]]
      BY <1>1, <1>7, <2>2 DEF Prefetch, Typed
    <3> QED
      BY <1>3, <2>1, <3>1
  <2>3. CASE e[1] = r /\ e[2] \in known
    <3>1. task'[e] = Opened(e[2], Now.balance[e[2]])
      BY <1>7, <2>3 DEF Prefetch
    <3> QED
      BY <1>1, <2>1, <3>1, OpenedStill
  <2>4. CASE e[1] = r /\ e[2] \notin known
    <3>1. task'[e] = [Refused(FALSE) EXCEPT !.at = "balance"]
      BY <1>7, <2>4 DEF Prefetch
    <3>2. task'[e].at = "balance"
      BY <3>1 DEF Refused, Ended
    <3> QED
      BY <3>2 DEF Still, Asking
  <2> QED
    BY <2>2, <2>3, <2>4
<1>8. ASSUME NEW r \in Triggers, Answer(r)
      PROVE  Still(Now', e[2], task'[e])
  <2>1. e[1] # r
    BY <1>1, <1>8 DEF Answer, Typed
  <2>2. task'[e] = task[e] /\ trigger'[e[1]] = trigger[e[1]] /\ chain' = chain
    BY <1>1, <1>8, <2>1 DEF Answer, Typed
  <2> QED
    BY <1>3, <2>2
<1>9. ASSUME NEW x \in Evaluations, Evaluate(x)
      PROVE  Still(Now', e[2], task'[e])
  <2>1. TaskInv(x, task[x])
    BY <1>1 DEF TInv
  <2>2. UNCHANGED <<chain, batched, trigger>> /\ PermitsPassed(x)
    BY <1>1, <1>9, <2>1, EvaluateMoves
  <2>3. PICK t : task' = [task EXCEPT ![x] = t] /\ KeepsStill(x, t)
    BY <2>2 DEF PermitsPassed, Moved
  <2>4. CASE x = e
    <3>1. task'[e] = t /\ Now' = Now
      BY <1>1, <2>2, <2>3, <2>4 DEF Typed, Now
    <3>2. Unmoved(e) /\ Still(Now, e[2], task[e])
      BY <2>2 DEF StillInv, Unmoved
    <3> QED
      BY <2>3, <2>4, <3>1, <3>2 DEF KeepsStill
  <2>5. CASE x # e
    <3>1. task'[e] = task[e]
      BY <1>1, <2>3, <2>5 DEF Typed
    <3> QED
      BY <1>3, <2>2, <3>1
  <2> QED
    BY <2>4, <2>5
<1> QED
  BY <1>4, <1>5, <1>6, <1>7, <1>8, <1>9 DEF Next

LEMMA BestFollows == IInv /\ StillInv => BestOfQuiet
<1> SUFFICES ASSUME IInv, StillInv, NEW e \in Evaluations,
                    trigger[e[1]].at = "evaluate", Since(e) = {Len(chain)},
                    task[e].at = "done", ~task[e].lost
             PROVE  LET c == e[2]
                        t == task[e]
                        works(a) == Complete(c, TruePath(c, a))
                        grid == {a \in _candidate_amounts(Now.balance[c]) : works(a)}
                    IN IF grid = {} THEN t.sized = <<>>
                       ELSE /\ t.sized # <<>> /\ t.sized = TruePath(c, t.sized[1])
                            /\ \A a \in grid :
                                 \/ Gain(TruePath(c, a)) < Gain(t.sized)
                                 \/ Gain(TruePath(c, a)) = Gain(t.sized) /\ t.sized[1] <= a
  BY DEF BestOfQuiet
<1> DEFINE c == e[2]
           sized == task[e].sized
           grid == {a \in _candidate_amounts(Now.balance[c]) : Complete(c, TruePath(c, a))}
<1>1. Typed /\ TaskInv(e, task[e])
  BY DEF IInv, TInv
<1>2. Unmoved(e)
  <2>1. trigger[e[1]].since \in Since(e)
    BY <1>1, Moment DEF Since, Typed
  <2> QED
    BY <2>1 DEF Unmoved
<1>3. Verdict(Now, c, sized) /\ sized \in Seq(Nat)
  BY <1>1, <1>2 DEF StillInv, Still, TaskInv, WellFormed
<1>4. Grid(Now, c) = _candidate_amounts(Now.balance[c]) /\ Grid(Now, c) \subseteq Nat
  <2>1. Now.balance[c] \in Nat
    BY <1>1, Moment
  <2> QED
    BY <2>1, GridSizes DEF Grid
<1>5. \A a \in Nat : Complete(c, TruePath(c, a)) <=> Works(Now, c, a)
  BY <1>1, TruePathWorks
<1>6. grid = {a \in Grid(Now, c) : Works(Now, c, a)}
  BY <1>4, <1>5
<1> HIDE DEF grid
<1>7. CASE grid = {}
  <2>1. sized = <<>>
    BY <1>3, <1>6, <1>7 DEF Verdict
  <2> QED
    BY <1>7, <2>1 DEF grid
<1>8. CASE grid # {}
  <2>1. /\ sized # <<>> /\ Through(Now, c, sized)
        /\ \A p \in Seq(Nat) : Through(Now, c, p) /\ p[1] \in Grid(Now, c) => NoWorse(sized, p)
    BY <1>3, <1>6, <1>8 DEF Verdict
  <2>2. sized[1] \in Nat
    BY <1>3, <2>1
  <2>3. sized = TruePath(c, sized[1])
    BY <1>1, <1>3, <2>1, <2>2, TruePathWorks
  <2>4. ASSUME NEW a \in grid
        PROVE  \/ Gain(TruePath(c, a)) < Gain(sized)
               \/ Gain(TruePath(c, a)) = Gain(sized) /\ sized[1] <= a
    <3> DEFINE path == TruePath(c, a)
    <3>1. a \in Grid(Now, c) /\ Works(Now, c, a) /\ a \in Nat
      BY <1>4, <1>6
    <3>2. path \in Seq(Nat) /\ Through(Now, c, path) /\ path[1] = a
      BY <1>1, <3>1, TruePathWorks
    <3> HIDE DEF path
    <3>3. NoWorse(sized, path)
      BY <2>1, <3>1, <3>2
    <3>4. Gain(sized) \in Int /\ Gain(path) \in Int
      <4>1. \A p \in Seq(Nat) : p # <<>> => Gain(p) \in Int
        BY DEF Gain
      <4>2. path # <<>>
        <5>1. Len(path) >= 1 /\ Len(<<>>) = 0
          BY <3>2 DEF Through, WalkIn
        <5> QED
          BY <5>1
      <4> QED
        BY <1>3, <2>1, <3>2, <4>1, <4>2
    <3> QED
      BY <3>2, <3>3, <3>4 DEF NoWorse, path
  <2> QED
    BY <1>8, <2>1, <2>3, <2>4 DEF grid
<1> QED
  BY <1>7, <1>8

\* If the pending state stands still from the trigger on and no call is lost, an
\* evaluation finds the size of the grid that gains most, or a refined one that
\* gains more, and none only if every size of the grid fails (_optimize_size).
THEOREM BestIfQuiet == Spec => []BestOfQuiet
<1>1. Spec => []StillInv
  BY Invariant, InitStill, NextStill, PTL DEF Spec
<1> QED
  BY <1>1, Invariant, BestFollows, PTL

=============================================================================
