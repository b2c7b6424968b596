----------------------------- MODULE NatLemmas ------------------------------
(***************************************************************************)
(* Lemmas about the natural numbers: multiples and remainders, induction,  *)
(* recursion.                                                              *)
(*                                                                         *)
(* The provers multiply and divide well enough, but do not find quotients  *)
(* by themselves; the lemmas name them.  Induction and recursion are       *)
(* stated for sets and functions, which the provers can instantiate.       *)
(***************************************************************************)
EXTENDS Integers, WellFoundedInduction, TLAPS

(* A multiple is the divisor times the quotient. *)
LEMMA Quotient ==
  ASSUME NEW p \in Nat \ {0}, NEW a \in Nat, a % p = 0
  PROVE  (a \div p) \in Nat /\ a = p * (a \div p)
  BY SMT

(* What is the divisor times some number is a multiple. *)
LEMMA Multiple ==
  ASSUME NEW p \in Nat \ {0}, NEW q \in Nat
  PROVE  (p * q) % p = 0
  BY SMT

(* One divisor more than a multiple is a multiple. *)
LEMMA NextMultiple ==
  ASSUME NEW p \in Nat \ {0}, NEW a \in Nat, a % p = 0
  PROVE  (a + p) % p = 0
<1> DEFINE q == a \div p
<1>1. q \in Nat /\ a = p * q  BY Quotient
<1> HIDE DEF q
<1>2. a + p = p * (q + 1)  BY <1>1, SMT
<1> QED BY <1>1, <1>2, Multiple

(* No multiple lies between a multiple and the next one. *)
LEMMA NextMultipleIsNext ==
  ASSUME NEW p \in Nat \ {0}, NEW a \in Nat, NEW b \in Nat,
         a % p = 0, b % p = 0, a < b
  PROVE  a + p <= b
<1> DEFINE q == a \div p
           r == b \div p
<1>1. q \in Nat /\ a = p * q  BY Quotient
<1>2. r \in Nat /\ b = p * r  BY Quotient
<1> HIDE DEF q, r
<1>3. q < r  BY <1>1, <1>2, SMT
<1>4. p * q + p <= p * r  BY <1>1, <1>2, <1>3, SMT
<1> QED BY <1>1, <1>2, <1>4

(* A number is its quotient times the divisor, and the remainder. *)
LEMMA Division ==
  ASSUME NEW p \in Nat \ {0}, NEW a \in Nat
  PROVE  /\ (a \div p) \in Nat
         /\ (a % p) \in 0..(p - 1)
         /\ a = p * (a \div p) + (a % p)
  BY SMT

(* The remainder of a sum whose quotient is named. *)
LEMMA Remainder ==
  ASSUME NEW p \in Nat \ {0}, NEW q \in Nat, NEW r \in 0..(p - 1)
  PROVE  (p * q + r) % p = r
  BY SMT

(* Distances in increments and periods grow one step at a time. *)
LEMMA OneMore ==
  ASSUME NEW p \in Nat, NEW n \in Int
  PROVE  (n + 1) * p = n * p + p
  BY SMT

(* The product of naturals is one. *)
LEMMA ProductNotNegative ==
  ASSUME NEW p \in Nat, NEW n \in Nat
  PROVE  n * p \in Nat
  BY SMT
-----------------------------------------------------------------------------
(* Every set of natural numbers that is not empty has a least element. *)
LEMMA LeastNatural ==
  ASSUME NEW T, T \subseteq Nat, T # {}
  PROVE  \E n \in T : \A m \in T : n <= m
<1>1. PICK R : /\ IsWellFoundedOn(R, Nat)
               /\ \A m, n \in Nat : m < n => <<m, n>> \in R
  <2>1. \A m, n \in Nat : m < n => <<m, n>> \in OpToRel(<, Nat)
    BY DEF OpToRel
  <2> QED BY <2>1, NatLessThanWellFounded
<1>2. PICK n \in T : \A m \in T : <<m, n>> \notin R
  <2>1. IsWellFoundedOn(R, Nat)
    BY <1>1
  <2>2. \E n \in T : \A m \in T : ~ (<<m, n>> \in R)
    BY ONLY <2>1, WFMin, T \subseteq Nat, T # {}, Zenon
  <2> QED BY <2>2
<1>3. \A m \in T : ~(m < n)
  BY <1>1, <1>2
<1>4. \A m \in T : n <= m
  BY <1>3
<1> QED BY <1>4

(* Induction, for the set of the numbers that have a property. *)
LEMMA SetInduction ==
  ASSUME NEW T, 0 \in T, \A n \in Nat : n \in T => n + 1 \in T
  PROVE  Nat \subseteq T
<1> SUFFICES ASSUME Nat \ T # {} PROVE FALSE  OBVIOUS
<1> DEFINE U == Nat \ T
<1>1. PICK n \in U : \A m \in U : n <= m
  <2>1. U \subseteq Nat /\ U # {}  OBVIOUS
  <2> HIDE DEF U
  <2> QED BY <2>1, LeastNatural
<1>2. n \in Nat /\ n \notin T /\ n # 0  OBVIOUS
<1>3. n - 1 \in Nat /\ n - 1 \in T
  BY <1>1, <1>2
<1>4. (n - 1) + 1 \in T
  BY <1>3
<1> QED BY <1>2, <1>4

(***************************************************************************)
(* Recursion: there is a function with a given first value, whose other    *)
(* values are computed step by step from the one before.                   *)
(***************************************************************************)
Recursive(S) ==
  \A first \in S : \A step \in [Nat -> [S -> S]] : \E f \in [Nat -> S] :
    f[0] = first /\ \A n \in Nat : f[n + 1] = step[n][f[n]]

LEMMA Recursion == ASSUME NEW S PROVE Recursive(S)
<1> SUFFICES ASSUME NEW first \in S, NEW step \in [Nat -> [S -> S]]
             PROVE  \E f \in [Nat -> S] :
                      f[0] = first /\ \A n \in Nat : f[n + 1] = step[n][f[n]]
  BY DEF Recursive
<1> DEFINE Begins(g, n) ==
      /\ g \in [0..n -> S] /\ g[0] = first
      /\ \A k \in Nat : k < n => g[k + 1] = step[k][g[k]]
<1>1. ASSUME NEW n \in Nat PROVE \E g : Begins(g, n)
  <2> DEFINE T == {m \in Nat : \E g : Begins(g, m)}
  <2>1. 0 \in T
    <3>1. Begins([k \in 0..0 |-> first], 0)
      OBVIOUS
    <3> QED BY <3>1
  <2>2. ASSUME NEW m \in Nat, m \in T PROVE m + 1 \in T
    <3>1. PICK g : Begins(g, m)
      BY <2>2
    <3> DEFINE h == [k \in 0..(m + 1) |-> IF k <= m THEN g[k] ELSE step[m][g[m]]]
    <3>2. g[m] \in S /\ step[m][g[m]] \in S
      BY <3>1
    <3>3. h \in [0..(m + 1) -> S] /\ h[0] = first
      BY <3>1, <3>2
    <3>4. h[m + 1] = step[m][g[m]] /\ \A k \in 0..m : h[k] = g[k]
      OBVIOUS
    <3> HIDE DEF h
    <3>5. ASSUME NEW k \in Nat, k < m + 1 PROVE h[k + 1] = step[k][h[k]]
      <4>1. CASE k = m
        BY <3>4, <4>1
      <4>2. CASE k < m
        <5>1. k \in 0..m /\ k + 1 \in 0..m
          BY <4>2
        <5>2. g[k + 1] = step[k][g[k]]
          BY <3>1, <4>2
        <5> QED BY <3>4, <5>1, <5>2
      <4> QED BY <3>5, <4>1, <4>2
    <3>6. Begins(h, m + 1)
      BY <3>3, <3>5
    <3> QED BY <3>6
  <2> HIDE DEF T
  <2>3. Nat \subseteq T
    BY <2>1, <2>2, SetInduction
  <2> QED BY <2>3 DEF T
<1>2. ASSUME NEW n \in Nat, NEW g, NEW h, Begins(g, n), Begins(h, n + 1)
      PROVE  g[n] = h[n]
  <2> DEFINE T == {k \in Nat : k <= n => g[k] = h[k]}
  <2>1. 0 \in T
    BY <1>2
  <2>2. ASSUME NEW k \in Nat, k \in T PROVE k + 1 \in T
    <3> SUFFICES ASSUME k + 1 <= n PROVE g[k + 1] = h[k + 1]  OBVIOUS
    <3>1. k < n /\ k < n + 1 /\ g[k] = h[k]
      BY <2>2
    <3>2. g[k + 1] = step[k][g[k]] /\ h[k + 1] = step[k][h[k]]
      BY <1>2, <3>1
    <3> QED BY <3>1, <3>2
  <2> HIDE DEF T
  <2>3. Nat \subseteq T
    BY <2>1, <2>2, SetInduction
  <2> QED BY <2>3 DEF T
<1> DEFINE beginning(n) == CHOOSE g : Begins(g, n)
           f == [n \in Nat |-> beginning(n)[n]]
<1>3. \A n \in Nat : Begins(beginning(n), n)
  <2> HIDE DEF Begins
  <2> QED BY <1>1
<1>4. \A n \in Nat : beginning(n)[n] = beginning(n + 1)[n]
  <2> HIDE DEF Begins, beginning
  <2> QED BY <1>2, <1>3
<1>5. f \in [Nat -> S] /\ f[0] = first
  <2> HIDE DEF beginning
  <2> QED BY <1>3
<1>6. ASSUME NEW n \in Nat PROVE f[n + 1] = step[n][f[n]]
  <2> HIDE DEF beginning
  <2>1. Begins(beginning(n + 1), n + 1)
    BY <1>3
  <2>2. beginning(n + 1)[n + 1] = step[n][beginning(n + 1)[n]]
    BY <2>1
  <2>3. f[n + 1] = beginning(n + 1)[n + 1] /\ f[n] = beginning(n)[n]
    BY DEF f
  <2>4. beginning(n)[n] = beginning(n + 1)[n]
    BY <1>4
  <2> QED BY <2>2, <2>3, <2>4
<1> QED
  <2> HIDE DEF f, Begins
  <2>1. \A n \in Nat : f[n + 1] = step[n][f[n]]
    BY <1>6
  <2> QED BY <1>5, <2>1

(* Repeated multiplication. *)
PowersOf(m) == CHOOSE p : p = [n \in Nat |-> IF n = 0 THEN 1 ELSE m * p[n - 1]]

LEMMA Powers ==
  ASSUME NEW m \in Nat \ {0}
  PROVE  /\ PowersOf(m) \in [Nat -> Nat \ {0}]
         /\ PowersOf(m)[0] = 1
         /\ \A n \in Nat : PowersOf(m)[n + 1] = m * PowersOf(m)[n]
<1>0. PICK power : power = PowersOf(m)
  OBVIOUS
<1> DEFINE Eqn(p) == p = [n \in Nat |-> IF n = 0 THEN 1 ELSE m * p[n - 1]]
<1>1. PICK step \in [Nat -> [Nat \ {0} -> Nat \ {0}]] :
        \A n \in Nat : \A p \in Nat \ {0} : step[n][p] = m * p
  <2> DEFINE s == [n \in Nat |-> [p \in Nat \ {0} |-> m * p]]
  <2>1. \A p \in Nat \ {0} : m * p \in Nat \ {0}
    BY SMT
  <2>2. s \in [Nat -> [Nat \ {0} -> Nat \ {0}]]
    BY <2>1
  <2>3. \A n \in Nat : \A p \in Nat \ {0} : s[n][p] = m * p
    BY SMT
  <2> HIDE DEF s
  <2> QED BY <2>2, <2>3
<1>2. PICK f \in [Nat -> Nat \ {0}] :
        f[0] = 1 /\ \A n \in Nat : f[n + 1] = step[n][f[n]]
  <2>1. 1 \in Nat \ {0}  OBVIOUS
  <2>2. Recursive(Nat \ {0})
    BY Recursion
  <2> QED BY ONLY <2>1, <2>2, step \in [Nat -> [Nat \ {0} -> Nat \ {0}]] DEF Recursive
<1>3. \A n \in Nat : f[n + 1] = m * f[n]
  BY <1>1, <1>2
<1>4. Eqn(f)
  <2>1. \A n \in Nat : f[n] = IF n = 0 THEN 1 ELSE m * f[n - 1]
    BY <1>2, <1>3
  <2> QED BY <1>2, <2>1
<1>5. Eqn(power)
  <2>1. power = CHOOSE p : Eqn(p)
    BY <1>0 DEF PowersOf
  <2> HIDE DEF Eqn
  <2> QED BY <1>4, <2>1
<1>6. power[0] = 1 /\ \A n \in Nat : power[n + 1] = m * power[n]
  <2>1. \A n \in Nat : power[n] = IF n = 0 THEN 1 ELSE m * power[n - 1]
    BY <1>5
  <2>2. \A n \in Nat : n + 1 \in Nat /\ n + 1 # 0 /\ (n + 1) - 1 = n
    OBVIOUS
  <2> QED BY <2>1, <2>2
<1>7. \A n \in Nat : power[n] \in Nat \ {0}
  <2> DEFINE T == {n \in Nat : power[n] \in Nat \ {0}}
  <2>1. 0 \in T
    BY <1>6, 0 \in Nat, 1 \in Nat \ {0}
  <2>2. ASSUME NEW n \in Nat, n \in T PROVE n + 1 \in T
    <3>1. \A p \in Nat \ {0} : m * p \in Nat \ {0}
      BY SMT
    <3>2. power[n + 1] = m * power[n] /\ power[n] \in Nat \ {0}
      BY <1>6, <2>2
    <3>3. m * power[n] \in Nat \ {0}
      BY <3>1, <3>2
    <3> QED BY <3>2, <3>3
  <2> HIDE DEF T
  <2>3. Nat \subseteq T
    BY <2>1, <2>2, SetInduction
  <2> QED BY <2>3 DEF T
<1>8. power = [n \in Nat |-> power[n]]
  BY <1>5
<1> QED BY <1>0, <1>6, <1>7, <1>8

(* The quotient and the remainder of a sum that names them. *)
LEMMA NamedQuotient ==
  ASSUME NEW p \in Nat \ {0}, NEW q \in Nat, NEW r \in 0..(p - 1)
  PROVE  (p * q + r) \div p = q /\ (p * q + r) % p = r
  BY SMT

(* Dividing twice. *)
LEMMA NestedDivision ==
  ASSUME NEW p \in Nat \ {0}, NEW q \in Nat \ {0}, NEW a \in Nat
  PROVE  (a \div p) \div q = a \div (p * q)
<1>1. PICK s \in Nat, r \in 0..(p - 1) : a \div p = s /\ a = p * s + r
  BY Division
<1>2. PICK t \in Nat, u \in 0..(q - 1) : s \div q = t /\ s = q * t + u
  BY Division
<1>3. a = (p * q) * t + (p * u + r)
  BY <1>1, <1>2, SMT
<1>4. p * u + r \in 0..(p * q - 1) /\ p * q \in Nat \ {0}
  <2>1. p * u + p <= p * q
    <3>1. u + 1 <= q  OBVIOUS
    <3>2. p * (u + 1) <= p * q
      BY <3>1, SMT
    <3> QED BY <3>2, SMT
  <2> QED BY <2>1, SMT
<1>5. a \div (p * q) = t
  BY <1>3, <1>4, NamedQuotient
<1> QED BY <1>1, <1>2, <1>5

(* The remainder of a division by a product, from that of its factors. *)
LEMMA RemainderOfProduct ==
  ASSUME NEW m \in Nat \ {0}, NEW p \in Nat \ {0}, NEW a \in Nat
  PROVE  m * ((a \div m) % p) + (a % m) = a % (m * p)
<1>1. PICK s \in Nat, r \in 0..(m - 1) : a \div m = s /\ a % m = r /\ a = m * s + r
  BY Division
<1>2. PICK t \in Nat, u \in 0..(p - 1) : s % p = u /\ s = p * t + u
  BY Division
<1>3. a = (m * p) * t + (m * u + r)
  BY <1>1, <1>2, SMT
<1>4. m * u + r \in 0..(m * p - 1) /\ m * p \in Nat \ {0}
  <2>1. m * u + m <= m * p
    <3>1. u + 1 <= p  OBVIOUS
    <3>2. m * (u + 1) <= m * p
      BY <3>1, SMT
    <3> QED BY <3>2, SMT
  <2> QED BY <2>1, SMT
<1>5. a % (m * p) = m * u + r
  BY <1>3, <1>4, NamedQuotient
<1> QED BY <1>1, <1>2, <1>5

(* Less than the divisor. *)
LEMMA SmallRemainder ==
  ASSUME NEW p \in Nat \ {0}, NEW a \in 0..(p - 1)
  PROVE  a % p = a /\ a \div p = 0
  BY SMT

(* Numbers a multiple apart have one remainder, and no others have. *)
LEMMA SameRemainder ==
  ASSUME NEW p \in Nat \ {0}, NEW a \in Nat, NEW d \in Nat
  PROVE  d % p = 0 <=> a % p = (a + d) % p
<1>1. PICK s \in Nat, r \in 0..(p - 1) : a % p = r /\ a = p * s + r
  BY Division
<1>2. PICK b \in Nat : b = a + d
  OBVIOUS
<1>3. PICK t \in Nat, u \in 0..(p - 1) : b % p = u /\ b = p * t + u
  BY Division
<1>4. ASSUME d % p = 0 PROVE r = u
  <2>1. PICK q \in Nat : d = p * q
    BY <1>4, Quotient
  <2>2. p * (s + q) = p * s + p * q
    BY SMT
  <2>3. b = p * (s + q) + r
    BY <1>1, <1>2, <2>1, <2>2
  <2>4. (p * (s + q) + r) % p = r
    BY Remainder
  <2> QED BY <1>3, <2>3, <2>4
<1>5. ASSUME r = u PROVE d % p = 0
  <2>1. p * t >= p * s
    BY <1>1, <1>2, <1>3, <1>5, p * t \in Nat, p * s \in Nat
  <2>2. t >= s
    BY <2>1, SMT
  <2>3. t - s \in Nat /\ p * (t - s) = p * t - p * s
    BY <2>2, SMT
  <2>4. d = p * (t - s)
    BY <1>1, <1>2, <1>3, <1>5, <2>3
  <2> QED BY <2>3, <2>4, Multiple
<1> QED BY <1>1, <1>2, <1>3, <1>4, <1>5

(* Rounding up, the quotient grows only after a multiple. *)
LEMMA CeilingStep ==
  ASSUME NEW p \in Nat \ {0}, NEW n \in Nat
  PROVE  ((n + 1) + p - 1) \div p
           = IF n % p = 0 THEN (n + p - 1) \div p + 1 ELSE (n + p - 1) \div p
<1>1. PICK q \in Nat, r \in 0..(p - 1) : n % p = r /\ n = p * q + r
  BY Division
<1>2. p * (q + 1) = p * q + p
  BY SMT
<1>3. ((n + 1) + p - 1) \div p = q + 1
  <2>1. (n + 1) + p - 1 = p * (q + 1) + r
    BY <1>1, <1>2
  <2> QED BY <2>1, NamedQuotient
<1>4. CASE r = 0
  <2>1. n + p - 1 = p * q + (p - 1) /\ p - 1 \in 0..(p - 1)
    BY <1>1, <1>4
  <2>2. (n + p - 1) \div p = q
    BY <2>1, NamedQuotient
  <2> QED BY <1>1, <1>3, <1>4, <2>2
<1>5. CASE r # 0
  <2>1. n + p - 1 = p * (q + 1) + (r - 1) /\ r - 1 \in 0..(p - 1)
    BY <1>1, <1>2, <1>5
  <2>2. (n + p - 1) \div p = q + 1
    BY <2>1, NamedQuotient
  <2> QED BY <1>1, <1>3, <1>5, <2>2
<1> QED BY <1>4, <1>5

LEMMA NextRemainder ==
  ASSUME NEW m \in Nat \ {0}, NEW n \in Nat
  PROVE  ((n % m) + 1) % m = (n + 1) % m
<1>1. PICK q \in Nat, r \in 0..(m - 1) : n % m = r /\ n = m * q + r
  BY Division
<1>2. CASE r + 1 < m
  <2>1. n + 1 = m * q + (r + 1) /\ r + 1 \in 0..(m - 1)
    BY <1>1, <1>2
  <2> QED BY <1>1, <2>1, Remainder, SmallRemainder
<1>3. CASE r + 1 = m
  <2>0. m * (q + 1) = m * q + m
    BY SMT
  <2>1. n + 1 = m * (q + 1) + 0 /\ r + 1 = m * 1 + 0 /\ 0 \in 0..(m - 1)
    BY <1>1, <1>3, <2>0
  <2>2. (m * (q + 1) + 0) % m = 0 /\ (m * 1 + 0) % m = 0
    BY <2>1, Remainder
  <2> QED BY <1>1, <2>1, <2>2
<1> QED BY <1>2, <1>3
=============================================================================
