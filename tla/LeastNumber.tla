---------------------------- MODULE LeastNumber -----------------------------
(***************************************************************************)
(* Facts about numbers that the proofs share: division with remainder, and *)
(* induction as facts about sets: the least-number principle, from the     *)
(* library's theorem that < is well-founded on the naturals, and what      *)
(* follows from it.                                                        *)
(***************************************************************************)
EXTENDS Integers, WellFoundedInduction, TLAPS

\* Division with remainder, as the provers need it.
LEMMA DivFacts ==
    ASSUME NEW a \in Nat, NEW b \in Nat \ {0}
    PROVE  /\ a \div b \in Nat /\ a % b \in 0 .. b - 1
           /\ a = b * (a \div b) + (a % b)
BY Z3

\* The multiple below a number.
LEMMA DivBelow ==
    ASSUME NEW a \in Nat, NEW b \in Nat \ {0}
    PROVE  a \div b \in Nat /\ b * (a \div b) <= a
BY DivFacts, Z3

\* A quotient is what fits between two multiples.
LEMMA DivBounds ==
    ASSUME NEW a \in Nat, NEW b \in Nat \ {0}, NEW q \in Nat
    PROVE  /\ b * q <= a => q <= a \div b
           /\ a < b * q => a \div b < q
BY DivFacts, Z3

\* Quotient and remainder are the only ones.
LEMMA DivUnique ==
    ASSUME NEW a \in Nat, NEW b \in Nat \ {0}, NEW q \in Nat, NEW r \in 0 .. b - 1,
           a = b * q + r
    PROVE  a \div b = q /\ a % b = r
<1>1. a < b * (q + 1) /\ b * q <= a
  BY Z3
<1>2. a \div b < q + 1 /\ q <= a \div b /\ a \div b \in Nat
  <2>1. q + 1 \in Nat
    OBVIOUS
  <2> QED BY ONLY <1>1, <2>1, a \in Nat, b \in Nat \ {0}, q \in Nat, DivBounds, DivFacts,
              Zenon
<1>3. a \div b = q
  BY <1>2
<1> QED BY <1>3, DivFacts, Z3

\* Whole blocks before an address move its quotient only.
LEMMA DivShift ==
    ASSUME NEW a \in Nat, NEW b \in Nat \ {0}, NEW q \in Nat
    PROVE  (q * b + a) \div b = q + a \div b /\ (q * b + a) % b = a % b
<1>1. a \div b \in Nat /\ a % b \in 0 .. b - 1 /\ a = b * (a \div b) + (a % b)
  BY DivFacts
<1>2. PICK d \in Nat, r \in 0 .. b - 1 : d = a \div b /\ r = a % b /\ a = b * d + r
  BY <1>1
<1>3. q * b + a \in Nat /\ q * b + a = b * (q + d) + r
  BY <1>2, Z3
<1>4. (q * b + a) \div b = q + d /\ (q * b + a) % b = r
  <2>1. q + d \in Nat
    OBVIOUS
  <2> QED BY ONLY <1>3, <2>1, b \in Nat \ {0}, r \in 0 .. b - 1, DivUnique, Zenon
<1> QED BY <1>2, <1>4

\* A non-empty set of naturals has a least element.
LEMMA LeastExists ==
    ASSUME NEW T \in SUBSET Nat, T # {}
    PROVE  \E m \in T : \A k \in T : m <= k
<1> DEFINE R == {ss \in Nat \X Nat : ss[1] < ss[2]}
<1>1. IsWellFoundedOn(R, Nat)
  BY NatLessThanWellFounded DEF OpToRel
<1>2. PICK m \in T : \A y \in T : ~ (<<y, m>> \in R)
  <2> HIDE DEF R
  <2> QED BY <1>1, WFMin, Zenon
<1>3. \A k \in T : m <= k
  <2> TAKE k \in T
  <2>1. ~ (<<k, m>> \in R)
    BY <1>2
  <2> QED BY <2>1 DEF R
<1> QED BY <1>3

\* A non-empty set of naturals below a bound has a greatest element.
LEMMA GreatestExists ==
    ASSUME NEW n \in Nat, NEW T \in SUBSET (0 .. n), T # {}
    PROVE  \E m \in T : \A k \in T : k <= m
<1> DEFINE U == {k \in 0 .. n : n - k \in T}
<1>1. U \in SUBSET Nat /\ U # {}
  <2>1. PICK k : k \in T
    OBVIOUS
  <2>2. k \in 0 .. n /\ n - k \in 0 .. n /\ n - (n - k) = k
    BY <2>1
  <2>3. n - k \in U
    BY <2>1, <2>2
  <2> QED BY <2>3
<1>2. PICK u \in U : \A k \in U : u <= k
  <2> HIDE DEF U
  <2> QED BY <1>1, LeastExists, Zenon
<1>3. \A k \in T : k <= n - u
  <2> TAKE k \in T
  <2>1. k \in 0 .. n /\ n - k \in 0 .. n /\ n - (n - k) = k
    OBVIOUS
  <2>2. n - k \in U
    BY <2>1
  <2> QED BY <1>2, <2>1, <2>2
<1> QED BY <1>2, <1>3

\* Induction up to n: what is in S at 0, and with each number at the next.
LEMMA Induction ==
    ASSUME NEW n \in Nat, NEW S,
           0 \in S, \A m \in 0 .. n - 1 : m \in S => m + 1 \in S
    PROVE  0 .. n \subseteq S
<1> DEFINE T == {k \in 0 .. n : k \notin S}
<1> SUFFICES ASSUME T # {} PROVE FALSE
  OBVIOUS
<1>1. T \in SUBSET Nat
  OBVIOUS
<1>2. PICK m \in T : \A k \in T : m <= k
  <2> HIDE DEF T
  <2> QED BY <1>1, LeastExists, Zenon
<1>3. m \in 1 .. n /\ m \notin S
  OBVIOUS
<1>4. m - 1 \in 0 .. n - 1 /\ m - 1 \notin T /\ (m - 1) + 1 = m
  BY <1>2, <1>3
<1> QED BY <1>3, <1>4

\* A function that never goes down from one argument to the next never goes
\* down at all.
LEMMA Monotone ==
    ASSUME NEW n \in Nat, NEW f \in [0 .. n -> Int],
           \A k \in 1 .. n : f[k - 1] <= f[k],
           NEW i \in 0 .. n, NEW j \in i .. n
    PROVE  f[i] <= f[j]
<1> DEFINE S == {d \in 0 .. n - i : f[i] <= f[i + d]}
<1>1. 0 \in S
  OBVIOUS
<1>2. \A m \in 0 .. (n - i) - 1 : m \in S => m + 1 \in S
  <2> TAKE m \in 0 .. (n - i) - 1
  <2> HAVE m \in S
  <2>1. i + (m + 1) \in 1 .. n /\ (i + (m + 1)) - 1 = i + m /\ i + m \in 0 .. n
    OBVIOUS
  <2>2. f[i + m] <= f[i + (m + 1)]
    BY <2>1
  <2>3. f[i] \in Int /\ f[i + m] \in Int /\ f[i + (m + 1)] \in Int
    BY <2>1
  <2> QED BY <2>2, <2>3
<1>3. 0 .. n - i \subseteq S
  <2> HIDE DEF S
  <2>1. n - i \in Nat
    OBVIOUS
  <2> QED BY <1>1, <1>2, <2>1, Induction, Zenon
<1>4. j - i \in 0 .. n - i /\ i + (j - i) = j
  OBVIOUS
<1> QED BY <1>3, <1>4

\* One that goes up from one argument to the next goes up all the way.
LEMMA StrictlyMonotone ==
    ASSUME NEW n \in Nat, NEW f \in [0 .. n -> Int],
           \A k \in 1 .. n : f[k - 1] < f[k],
           NEW i \in 0 .. n, NEW j \in i + 1 .. n
    PROVE  f[i] < f[j]
<1>1. \A k \in 1 .. n : f[k - 1] <= f[k]
  <2> TAKE k \in 1 .. n
  <2>1. f[k - 1] \in Int /\ f[k] \in Int /\ f[k - 1] < f[k]
    OBVIOUS
  <2> QED BY <2>1
<1>2. i + 1 \in 1 .. n /\ i + 1 \in 0 .. n /\ (i + 1) - 1 = i
  OBVIOUS
<1>3. f[i] < f[i + 1]
  BY <1>2
<1>4. f[i + 1] <= f[j]
  BY <1>1, <1>2, Monotone
<1>5. f[i] \in Int /\ f[i + 1] \in Int /\ f[j] \in Int
  BY <1>2
<1> QED BY <1>3, <1>4, <1>5
=============================================================================
