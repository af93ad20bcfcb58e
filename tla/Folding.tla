------------------------------ MODULE Folding ------------------------------
(***************************************************************************)
(* FoldLeft as a loop: what holds before it and is kept by every item      *)
(* holds after it.  Op(c, x, y) is one item y taken by the value x so far, *)
(* in a context c; Inv(c, k, x) is what is said of x after k items.  A     *)
(* module proves something of its own loop by an INSTANCE of this one.     *)
(***************************************************************************)
EXTENDS Integers, Folds

CONSTANTS Op(_, _, _), Inv(_, _, _)

\* FoldLeft of the community modules.  An instance has copies of all there is here, so
\* that module and the theory of numbers are not extended: induction is a hypothesis.
Largest(S) == CHOOSE x \in S : \A y \in S : x >= y

Fold(c, base, seq) ==
  MapThenFoldSet(LAMBDA x, y : Op(c, y, x), base, LAMBDA k : seq[k], LAMBDA S : Largest(S), DOMAIN seq)

Induction == \A T \in SUBSET Nat : 0 \in T /\ (\A n \in T : n + 1 \in T) => T = Nat

\* What FoldLeft's recursive function says of a set of places.
Equation(c, base, seq, iter, s) ==
  iter[s] = IF s = {} THEN base ELSE Op(c, iter[s \ {Largest(s)}], seq[Largest(s)])

Iterates(c, base, seq, n) ==
  \E iter : /\ iter = [s \in SUBSET (1 .. n) |-> iter[s]]
            /\ \A s \in SUBSET (1 .. n) : Equation(c, base, seq, iter, s)

\* The largest of a set of numbers up to n + 1 that has n + 1.
LEMMA LargestIs ==
  ASSUME NEW n \in Nat, NEW s \in SUBSET (1 .. n + 1), n + 1 \in s
  PROVE  Largest(s) = n + 1
<1>1. \A y \in s : n + 1 >= y
  OBVIOUS
<1>2. \A x \in s : (\A y \in s : x >= y) => x = n + 1
  OBVIOUS
<1> QED
  BY <1>1, <1>2 DEF Largest

LEMMA IteratesNext ==
  ASSUME NEW c, NEW base, NEW seq, NEW n \in Nat, Iterates(c, base, seq, n)
  PROVE  Iterates(c, base, seq, n + 1)
<1>1. PICK f : /\ f = [s \in SUBSET (1 .. n) |-> f[s]]
               /\ \A s \in SUBSET (1 .. n) : Equation(c, base, seq, f, s)
  BY DEF Iterates
<1> DEFINE g == [s \in SUBSET (1 .. n + 1) |->
                   IF n + 1 \in s THEN Op(c, f[s \ {n + 1}], seq[n + 1]) ELSE f[s]]
<1>2. ASSUME NEW s \in SUBSET (1 .. n + 1)
      PROVE  Equation(c, base, seq, g, s)
  <2>1. CASE n + 1 \in s
    <3>1. Largest(s) = n + 1
      BY <2>1, LargestIs
    <3>2. s \ {n + 1} \in SUBSET (1 .. n + 1) /\ n + 1 \notin s \ {n + 1} /\ s # {}
      BY <2>1
    <3>3. g[s] = Op(c, f[s \ {n + 1}], seq[n + 1]) /\ g[s \ {n + 1}] = f[s \ {n + 1}]
      BY <2>1, <3>2
    <3> QED
      BY <3>1, <3>2, <3>3 DEF Equation
  <2>2. CASE n + 1 \notin s
    <3>1. s \in SUBSET (1 .. n)
      BY <2>2
    <3>2. g[s] = f[s]
      BY <2>2
    <3>3. CASE s = {}
      BY <1>1, <3>1, <3>2, <3>3 DEF Equation
    <3>4. CASE s # {}
      <4>1. s \ {Largest(s)} \in SUBSET (1 .. n + 1) /\ n + 1 \notin s \ {Largest(s)}
        BY <2>2
      <4>2. g[s \ {Largest(s)}] = f[s \ {Largest(s)}]
        BY <4>1
      <4> QED
        BY <1>1, <3>1, <3>2, <3>4, <4>2 DEF Equation
    <3> QED
      BY <3>3, <3>4
  <2> QED
    BY <2>1, <2>2
<1>3. g = [s \in SUBSET (1 .. n + 1) |-> g[s]]
  OBVIOUS
<1> HIDE DEF g
<1> QED
  BY <1>2, <1>3 DEF Iterates

LEMMA IteratesAll ==
  ASSUME Induction, NEW c, NEW base, NEW seq
  PROVE  \A n \in Nat : Iterates(c, base, seq, n)
<1> DEFINE T == {n \in Nat : Iterates(c, base, seq, n)}
<1>1. 0 \in T
  <2> DEFINE g == [s \in SUBSET (1 .. 0) |-> base]
  <2>1. \A s \in SUBSET (1 .. 0) : s = {} /\ g[s] = base
    OBVIOUS
  <2>2. g = [s \in SUBSET (1 .. 0) |-> g[s]]
    OBVIOUS
  <2> HIDE DEF g
  <2>3. \A s \in SUBSET (1 .. 0) : Equation(c, base, seq, g, s)
    BY <2>1 DEF Equation
  <2>4. Iterates(c, base, seq, 0)
    BY <2>2, <2>3 DEF Iterates
  <2> QED
    BY <2>4
<1>2. \A n \in T : n + 1 \in T
  BY IteratesNext
<1>3. T = Nat
  <2> HIDE DEF T
  <2>1. T \in SUBSET Nat
    BY DEF T
  <2> QED
    BY <1>1, <1>2, <2>1, Induction DEF Induction
<1> QED
  BY <1>3

\* The values a loop goes through.
Runs(c, base, seq, n) ==
  \E h : /\ h[0] = base
         /\ \A k \in 1 .. n : h[k] = Op(c, h[k - 1], seq[k])
         /\ h[n] = Fold(c, base, seq)

\* FoldLeft goes through its items one after the other, from the base: what a loop of C
\* does (SequencesExt defines it by a recursion on sets of places).
THEOREM FoldRuns ==
  ASSUME Induction, NEW c, NEW base, NEW seq, NEW n \in Nat, DOMAIN seq = 1 .. n
  PROVE  Runs(c, base, seq, n)
<1> DEFINE Body(g) == [s \in SUBSET (1 .. n) |->
                         IF s = {} THEN base ELSE Op(c, g[s \ {Largest(s)}], seq[Largest(s)])]
           iter == CHOOSE g : g = Body(g)
<1>1. \E g : g = Body(g)
  <2>1. PICK g : /\ g = [s \in SUBSET (1 .. n) |-> g[s]]
                 /\ \A s \in SUBSET (1 .. n) : Equation(c, base, seq, g, s)
    BY IteratesAll DEF Iterates
  <2>2. g = Body(g)
    BY <2>1 DEF Equation
  <2> QED
    BY <2>2
<1>2. iter = Body(iter)
  <2> HIDE DEF Body
  <2> QED
    BY <1>1
<1>3. Fold(c, base, seq) = iter[1 .. n]
  BY DEF Fold, MapThenFoldSet
<1> HIDE DEF iter
<1> DEFINE h == [k \in 0 .. n |-> iter[1 .. k]]
<1>4. h[0] = base
  BY <1>2
<1>5. ASSUME NEW k \in 1 .. n
      PROVE  h[k] = Op(c, h[k - 1], seq[k])
  <2>1. 1 .. k \in SUBSET (1 .. n) /\ 1 .. k # {} /\ k \in 0 .. n /\ k - 1 \in 0 .. n
    <3>1. k \in Int /\ 1 <= k /\ k <= n
      OBVIOUS
    <3>2. 1 .. k \in SUBSET (1 .. n)
      BY <3>1
    <3>3. k \in 1 .. k
      BY <3>1
    <3> QED
      BY <3>1, <3>2, <3>3
  <2>2. Largest(1 .. k) = k
    <3>1. k - 1 \in Nat /\ 1 .. k \in SUBSET (1 .. (k - 1) + 1) /\ (k - 1) + 1 \in 1 .. k /\ (k - 1) + 1 = k
      OBVIOUS
    <3> HIDE DEF Body
    <3> QED
      BY <3>1, LargestIs
  <2>3. (1 .. k) \ {k} = 1 .. k - 1
    OBVIOUS
  <2>4. h[k] = iter[1 .. k] /\ h[k - 1] = iter[1 .. k - 1]
    BY <2>1
  <2>5. iter[1 .. k] = Op(c, iter[(1 .. k) \ {Largest(1 .. k)}], seq[Largest(1 .. k)])
    BY <1>2, <2>1
  <2> QED
    BY <2>2, <2>3, <2>4, <2>5
<1>6. h[n] = iter[1 .. n]
  OBVIOUS
<1> HIDE DEF h
<1> QED
  BY <1>3, <1>4, <1>5, <1>6 DEF Runs

\* What holds of the base, and of every next value if it held before, holds of the result.
THEOREM FoldKeeps ==
  ASSUME Induction, NEW c, NEW base, NEW seq, NEW n \in Nat, DOMAIN seq = 1 .. n,
         Inv(c, 0, base),
         \A k \in 1 .. n : \A x : Inv(c, k - 1, x) => Inv(c, k, Op(c, x, seq[k]))
  PROVE  Inv(c, n, Fold(c, base, seq))
<1>1. PICK h : /\ h[0] = base
               /\ \A k \in 1 .. n : h[k] = Op(c, h[k - 1], seq[k])
               /\ h[n] = Fold(c, base, seq)
  <2>1. Runs(c, base, seq, n)
    BY FoldRuns
  <2> QED
    BY <2>1 DEF Runs
<1> DEFINE T == {k \in Nat : k <= n => Inv(c, k, h[k])}
<1>2. 0 \in T
  BY <1>1
<1>3. ASSUME NEW k \in T PROVE k + 1 \in T
  <2>1. SUFFICES ASSUME k + 1 <= n PROVE Inv(c, k + 1, h[k + 1])
    OBVIOUS
  <2>2. k + 1 \in 1 .. n /\ (k + 1) - 1 = k /\ Inv(c, k, h[k])
    BY <2>1
  <2> HIDE DEF T
  <2>3. h[k + 1] = Op(c, h[k], seq[k + 1])
    BY <1>1, <2>2
  <2> QED
    BY <2>2, <2>3
<1>4. T = Nat
  <2> HIDE DEF T
  <2>1. T \in SUBSET Nat
    BY DEF T
  <2> QED
    BY <1>2, <1>3, <2>1, Induction DEF Induction
<1>5. n \in T
  BY <1>4
<1> QED
  BY <1>1, <1>5
=============================================================================
