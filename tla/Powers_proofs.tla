---------------------------- MODULE Powers_proofs ----------------------------
(***************************************************************************)
(* Numbers, for the proofs about the components: what a recursion over     *)
(* numbers defines, powers of two, quotients and remainders.  All          *)
(* induction is by a least counterexample.                                 *)
(***************************************************************************)
EXTENDS Powers, WellFoundedInduction, TLAPS

\* The steps of a recursion: for every number a function on S.
Steps(g, D, S) == g \in [D -> [S -> S]]

\* f is what the recursion from a with these steps defines.
UpTo(f, n, S, a, g) ==
  f \in [0 .. n -> S] /\ f[0] = a /\ \A l \in 1 .. n : f[l] = g[l][f[l - 1]]

Throughout(f, S, a, g) ==
  f \in [Nat -> S] /\ f[0] = a /\ \A l \in Nat : f[l + 1] = g[l][f[l]]

\* The natural numbers are well ordered, which is all the induction used here.
LEMMA Least ==
  ASSUME NEW S \in SUBSET Nat, S # {}
  PROVE  \E least \in S : \A n \in S : least <= n
<1>1. PICK x \in S : \A y \in S : ~(<<y, x>> \in OpToRel(<, Nat))
  BY NatLessThanWellFounded, WFMin, Zenon
<1>2. \A y \in S : ~(y < x)
  BY <1>1, Zenon DEF OpToRel
<1> QED
  BY <1>2

\* Of numbers below a bound there is a greatest one.
LEMMA Greatest ==
  ASSUME NEW m \in Nat, NEW S \in SUBSET (0 .. m), S # {}
  PROVE  \E greatest \in S : \A n \in S : n <= greatest
<1> DEFINE T == {m - s : s \in S}
<1>1. T \in SUBSET Nat /\ T # {}
  <2>1. \A s \in S : m - s \in Nat
    OBVIOUS
  <2> QED
    BY <2>1
<1> HIDE DEF T
<1>2. PICK t \in T : \A u \in T : t <= u
  BY <1>1, Least
<1> USE DEF T
<1>3. PICK s \in S : t = m - s
  BY <1>2
<1>4. \A n \in S : m - s <= m - n
  BY <1>2, <1>3
<1> QED
  BY <1>3, <1>4

\* A recursion from 0 up to a number defines something.
LEMMA RecursionUpTo ==
  ASSUME NEW S, NEW a, a \in S, NEW n, n \in Nat, NEW g, Steps(g, 1 .. n, S)
  PROVE  \E f : UpTo(f, n, S, a, g)
<1> USE DEF Steps, UpTo
<1> DEFINE Fits(f, m) == UpTo(f, m, S, a, g)
           Bad == {m \in 0 .. n : ~\E f : Fits(f, m)}
<1>1. SUFFICES ASSUME Bad # {} PROVE FALSE
  <2>1. n \notin Bad => \E f : Fits(f, n)
    OBVIOUS
  <2> QED
    BY <1>1, <2>1
<1>2. PICK m \in Bad : \A k \in Bad : m <= k
  <2>1. Bad \in SUBSET Nat
    OBVIOUS
  <2> HIDE DEF Bad
  <2> QED
    BY <1>1, <2>1, Least
<1>3. CASE m = 0
  <2>1. Fits([l \in 0 .. 0 |-> a], 0)
    OBVIOUS
  <2> QED
    BY <1>2, <1>3, <2>1
<1>4. CASE m # 0
  <2>1. m - 1 \in 0 .. n /\ m - 1 \notin Bad /\ m \in 1 .. n
    BY <1>2, <1>4
  <2>2. PICK p : Fits(p, m - 1)
    BY <2>1
  <2> DEFINE q == [l \in 0 .. m |-> IF l = m THEN g[m][p[m - 1]] ELSE p[l]]
  <2>3. p[m - 1] \in S /\ g[m] \in [S -> S]
    BY <2>1, <2>2
  <2>4. q \in [0 .. m -> S]
    <3>1. \A l \in 0 .. m : l # m => l \in 0 .. m - 1
      BY <2>1
    <3>2. \A l \in 0 .. m : l # m => p[l] \in S
      BY <2>2, <3>1
    <3> QED
      BY <2>3, <3>2
  <2>5. q[0] = a
    BY <1>4, <2>1, <2>2
  <2>6. ASSUME NEW l \in 1 .. m PROVE q[l] = g[l][q[l - 1]]
    <3>1. l - 1 \in 0 .. m /\ l - 1 # m /\ l \in 0 .. m
      BY <2>1
    <3>2. CASE l = m
      BY <3>1, <3>2
    <3>3. CASE l # m
      <4>1. l \in 1 .. m - 1
        BY <2>1, <3>3
      <4> QED
        BY <2>2, <3>1, <3>3, <4>1
    <3> QED
      BY <3>2, <3>3
  <2> HIDE DEF q
  <2>7. Fits(q, m)
    BY <2>4, <2>5, <2>6
  <2> QED
    BY <1>2, <2>7
<1> QED
  BY <1>2, <1>3, <1>4

\* A recursion over all numbers defines something.
LEMMA Recursion ==
  ASSUME NEW S, NEW a, a \in S, NEW g, Steps(g, Nat, S)
  PROVE  \E f : Throughout(f, S, a, g)
<1> USE DEF Steps
<1> DEFINE Fits(f, m) ==
             f \in [0 .. m -> S] /\ f[0] = a /\ \A l \in 1 .. m : f[l] = g[l - 1][f[l - 1]]
           upTo(m) == CHOOSE f : Fits(f, m)
           f == [m \in Nat |-> upTo(m)[m]]
<1>1. ASSUME NEW m \in Nat PROVE Fits(upTo(m), m)
  <2> DEFINE h == [l \in 1 .. m |-> g[l - 1]]
  <2>1. h \in [1 .. m -> [S -> S]]
    OBVIOUS
  <2>2. \A l \in 1 .. m : h[l] = g[l - 1]
    OBVIOUS
  <2> HIDE DEF h
  <2>3. PICK p : UpTo(p, m, S, a, h)
    <3>1. Steps(h, 1 .. m, S)
      BY <2>1
    <3> HIDE DEF Steps
    <3> QED
      BY <3>1, RecursionUpTo
  <2>4. Fits(p, m)
    BY <2>2, <2>3 DEF UpTo
  <2> QED
    BY <2>4
<1> HIDE DEF upTo
<1>2. \A m \in Nat : upTo(m)[m] \in S
  BY <1>1
<1>3. f \in [Nat -> S] /\ f[0] = a
  BY <1>1, <1>2
<1>4. ASSUME NEW m \in Nat PROVE upTo(m)[m] = upTo(m + 1)[m]
  <2> DEFINE Bad == {k \in 0 .. m : upTo(m)[k] # upTo(m + 1)[k]}
  <2>1. SUFFICES ASSUME Bad # {} PROVE FALSE
    BY <2>1
  <2>2. PICK k \in Bad : \A j \in Bad : k <= j
    <3>1. Bad \in SUBSET Nat
      OBVIOUS
    <3> HIDE DEF Bad
    <3> QED
      BY <2>1, <3>1, Least
  <2>3. Fits(upTo(m), m) /\ Fits(upTo(m + 1), m + 1)
    BY <1>1
  <2>4. k # 0
    BY <2>2, <2>3
  <2>5. k - 1 \in 0 .. m /\ k - 1 \notin Bad /\ k \in 1 .. m /\ k \in 1 .. m + 1
    BY <2>2, <2>4
  <2> QED
    BY <2>2, <2>3, <2>5
<1>5. ASSUME NEW m \in Nat PROVE f[m + 1] = g[m][f[m]]
  <2>1. Fits(upTo(m + 1), m + 1) /\ m + 1 \in Nat /\ m + 1 \in 1 .. m + 1 /\ (m + 1) - 1 = m
    BY <1>1
  <2>2. upTo(m + 1)[m + 1] = g[m][upTo(m + 1)[m]]
    BY <2>1
  <2> QED
    BY <1>4, <2>1, <2>2
<1> HIDE DEF f
<1> QED
  BY <1>3, <1>5 DEF Throughout

-----------------------------------------------------------------------------
(* Powers of two.                                                          *)

\* Power is what its recursion says.
LEMMA PowerRecursion ==
  /\ Power[0] = 1
  /\ \A n \in Nat : Power[n] \in Nat \ {0} /\ Power[n + 1] = 2 * Power[n]
<1> DEFINE g == [n \in Nat |-> [x \in Nat \ {0} |-> 2 * x]]
<1>1. Steps(g, Nat, Nat \ {0}) /\ 1 \in Nat \ {0}
  BY DEF Steps
<1>2. \A n \in Nat, x \in Nat \ {0} : g[n][x] = 2 * x
  OBVIOUS
<1> HIDE DEF g
<1>3. PICK f : Throughout(f, Nat \ {0}, 1, g)
  BY <1>1, Recursion
<1>4. \A n \in Nat : f[n + 1] = 2 * f[n]
  BY <1>2, <1>3 DEF Throughout
<1>5. f = [n \in Nat |-> IF n = 0 THEN 1 ELSE 2 * f[n - 1]]
  <2>1. ASSUME NEW n \in Nat PROVE f[n] = IF n = 0 THEN 1 ELSE 2 * f[n - 1]
    <3>1. n # 0 => n - 1 \in Nat /\ (n - 1) + 1 = n
      OBVIOUS
    <3> QED
      BY <1>3, <1>4, <3>1 DEF Throughout
  <2> QED
    BY <1>3, <2>1 DEF Throughout
<1>6. Power = [n \in Nat |-> IF n = 0 THEN 1 ELSE 2 * Power[n - 1]]
  BY <1>5 DEF Power
<1>7. Power[0] = 1 /\ \A n \in Nat : Power[n + 1] = 2 * Power[n]
  <2>1. ASSUME NEW n \in Nat PROVE Power[n + 1] = 2 * Power[n]
    <3>1. n + 1 \in Nat /\ n + 1 # 0 /\ (n + 1) - 1 = n
      OBVIOUS
    <3> QED
      BY <1>6, <3>1
  <2> QED
    BY <1>6, <2>1
<1>8. \A n \in Nat : Power[n] \in Nat \ {0}
  <2> DEFINE Bad == {n \in Nat : Power[n] \notin Nat \ {0}}
  <2> SUFFICES ASSUME Bad # {} PROVE FALSE
    OBVIOUS
  <2>1. PICK m \in Bad : \A n \in Bad : m <= n
    BY Least
  <2>2. m # 0
    BY <1>7, <2>1
  <2>3. m - 1 \in Nat /\ m - 1 \notin Bad /\ (m - 1) + 1 = m
    BY <2>1, <2>2
  <2>4. Power[m - 1] \in Nat \ {0} /\ Power[m] = 2 * Power[m - 1]
    BY <1>7, <2>3
  <2> QED
    BY <2>1, <2>4
<1> QED
  BY <1>7, <1>8

\* The power of a sum.
LEMMA PowerSum ==
  ASSUME NEW a \in Nat, NEW b \in Nat
  PROVE  Power[a + b] = Power[a] * Power[b]
<1> DEFINE Bad == {n \in Nat : Power[a + n] # Power[a] * Power[n]}
<1> SUFFICES ASSUME Bad # {} PROVE FALSE
  OBVIOUS
<1>1. PICK m \in Bad : \A n \in Bad : m <= n
  BY Least
<1>2. Power[a] \in Nat /\ Power[0] = 1
  BY PowerRecursion
<1>3. m # 0
  BY <1>1, <1>2
<1>4. m - 1 \in Nat /\ m - 1 \notin Bad /\ (m - 1) + 1 = m /\ a + (m - 1) \in Nat /\ (a + (m - 1)) + 1 = a + m
  BY <1>1, <1>3
<1>5. Power[a + (m - 1)] = Power[a] * Power[m - 1] /\ Power[m - 1] \in Nat
  BY <1>4, PowerRecursion
<1>6. Power[m] = 2 * Power[m - 1] /\ Power[a + m] = 2 * Power[a + (m - 1)]
  BY <1>4, PowerRecursion
<1>7. 2 * (Power[a] * Power[m - 1]) = Power[a] * (2 * Power[m - 1])
  BY <1>2, <1>5
<1> QED
  BY <1>1, <1>5, <1>6, <1>7

\* A larger power is at least twice as large.
LEMMA PowerGrows ==
  ASSUME NEW a \in Nat, NEW b \in Nat, a < b
  PROVE  2 * Power[a] <= Power[b]
<1>1. b - a - 1 \in Nat /\ a + 1 \in Nat /\ (a + 1) + (b - a - 1) = b
  OBVIOUS
<1>2. Power[b] = Power[a + 1] * Power[b - a - 1]
  BY <1>1, PowerSum
<1>3. Power[a + 1] = 2 * Power[a] /\ Power[a] \in Nat /\ Power[b - a - 1] \in Nat \ {0}
  BY <1>1, PowerRecursion
<1>4. \A x, y \in Nat : y # 0 => x <= x * y
  OBVIOUS
<1> QED
  BY <1>2, <1>3, <1>4

-----------------------------------------------------------------------------
(* Quotients and remainders.                                               *)

\* They are unique.
LEMMA Remainders ==
  ASSUME NEW m \in Nat \ {0}, NEW q \in Nat, NEW t \in 0 .. m - 1
  PROVE  (m * q + t) % m = t
<1> DEFINE n == m * q + t
           q2 == n \div m
           t2 == n % m
<1>1. n \in Nat
  OBVIOUS
<1> HIDE DEF n
<1>2. q2 \in Int /\ t2 \in 0 .. m - 1 /\ n = m * q2 + t2
  BY <1>1
<1>3. m * q + t = m * q2 + t2
  BY <1>2 DEF n
<1> HIDE DEF q2, t2
<1>4. ASSUME q2 < q PROVE FALSE
  <2>1. m * (q2 + 1) <= m * q
    BY <1>2, <1>4
  <2>2. m * (q2 + 1) = m * q2 + m
    BY <1>2
  <2>3. m * q \in Int /\ m * q2 \in Int
    BY <1>2
  <2> QED
    BY <1>2, <1>3, <2>1, <2>2, <2>3
<1>5. ASSUME q < q2 PROVE FALSE
  <2>1. m * (q + 1) <= m * q2
    BY <1>2, <1>5
  <2>2. m * (q + 1) = m * q + m
    OBVIOUS
  <2>3. m * q \in Int /\ m * q2 \in Int
    BY <1>2
  <2> QED
    BY <1>2, <1>3, <2>1, <2>2, <2>3
<1>6. q2 = q
  BY <1>2, <1>4, <1>5
<1>7. t2 = t
  BY <1>2, <1>3, <1>6
<1> QED
  BY <1>7 DEF t2, n

\* The two halves of a shifted number.
LEMMA Halves ==
  ASSUME NEW p \in Nat, NEW a \in Nat \ {0}, NEW b \in Nat \ {0}
  PROVE  ((p * a) % (a * b)) + (p \div b) * (a * b) = p * a
<1> DEFINE q == p \div b
           t == p % b
<1>1. q \in Nat /\ t \in 0 .. b - 1 /\ p = b * q + t
  OBVIOUS
<1> HIDE DEF q, t
<1>2. a * b \in Nat \ {0}
  OBVIOUS
<1>3. a * t \in 0 .. a * b - 1
  <2>1. a * (t + 1) <= a * b /\ a * (t + 1) = a * t + a /\ a * t \in Nat
    BY <1>1
  <2> QED
    BY <1>2, <2>1
<1>4. p * a = (a * b) * q + a * t
  BY <1>1
<1>5. (p * a) % (a * b) = a * t
  BY <1>1, <1>2, <1>3, <1>4, Remainders
<1> QED
  BY <1>1, <1>2, <1>3, <1>4, <1>5 DEF q

\* A number is its quotient and its remainder.
LEMMA Division ==
  ASSUME NEW n \in Int, NEW m \in Nat \ {0}
  PROVE  \E q \in Int, t \in 0 .. m - 1 : q = n \div m /\ t = n % m /\ n = m * q + t
<1> DEFINE q == n \div m
           t == n % m
<1>1. q \in Int /\ t \in 0 .. m - 1 /\ n = m * q + t
  OBVIOUS
<1> QED
  BY <1>1
=============================================================================
