------------------------ MODULE RsaSignaturesProofs ------------------------
(***************************************************************************)
(* Proofs about Der and RsaSignatures, for bytes of any width, keys of any *)
(* length and any contents: numbers are the bytes they are written as, a   *)
(* key file is read as what was written, and one byte string verifies.     *)
(***************************************************************************)
EXTENDS RsaSignatures, SequenceTheorems, WellFoundedInduction, TLAPS

(* Induction over Nat, of a set: the least number outside would have a     *)
(* predecessor inside.                                                     *)
LEMMA InductiveSet ==
    ASSUME NEW S \in SUBSET Nat, 0 \in S, \A n \in S : n + 1 \in S
    PROVE  S = Nat
<1> SUFFICES ASSUME S # Nat
             PROVE  FALSE
  OBVIOUS
<1> DEFINE T == Nat \ S
           Less == OpToRel(<, Nat)
<1>1. T # {} /\ T \subseteq Nat
  OBVIOUS
<1>2. IsWellFoundedOn(Less, Nat)
  BY NatLessThanWellFounded
<1>3. \A n \in Nat : <<n, n + 1>> \in Less
  BY DEF OpToRel
<1> HIDE DEF Less
<1>4. PICK x \in T : \A y \in T : ~ (<<y, x>> \in Less)
  <2> HIDE DEF T
  <2> QED
    BY <1>1, <1>2, WFMin
<1>5. x # 0 /\ x - 1 \in Nat
  OBVIOUS
<1>6. x - 1 \in T
  BY <1>4, <1>5
<1>7. <<x - 1, (x - 1) + 1>> \in Less /\ (x - 1) + 1 = x
  BY <1>3, <1>5
<1> QED
  BY <1>4, <1>6, <1>7

(* An induction that may use all smaller numbers.                          *)
LEMMA CompleteInductiveSet ==
    ASSUME NEW S \in SUBSET Nat, \A n \in Nat : (\A m \in 0..(n - 1) : m \in S) => n \in S
    PROVE  S = Nat
<1> DEFINE T == {n \in Nat : \A m \in 0..n : m \in S}
<1>1. 0 \in T
  OBVIOUS
<1>2. ASSUME NEW n \in T
      PROVE  n + 1 \in T
  <2>1. \A m \in 0..((n + 1) - 1) : m \in S
    OBVIOUS
  <2>2. n + 1 \in S
    BY <2>1
  <2> QED
    BY <2>1, <2>2
<1>3. T = Nat
  <2>1. T \in SUBSET Nat
    OBVIOUS
  <2> HIDE DEF T
  <2> QED
    BY <1>1, <1>2, <2>1, InductiveSet
<1>4. \A n \in T : n \in S
  OBVIOUS
<1> HIDE DEF T
<1> QED
  BY <1>3, <1>4

(* A set of numbers with a member has a least one.                         *)
LEMMA LeastMember ==
    ASSUME NEW S \in SUBSET Nat, NEW m \in S
    PROVE  \E n \in S : \A k \in Nat : k < n => k \notin S
<1> SUFFICES ASSUME \A n \in S : \E k \in Nat : k < n /\ k \in S
             PROVE  FALSE
  OBVIOUS
<1> DEFINE T == Nat \ S
<1>1. \A n \in Nat : (\A k \in 0..(n - 1) : k \in T) => n \in T
  OBVIOUS
<1>2. T = Nat
  <2>1. T \in SUBSET Nat
    OBVIOUS
  <2> HIDE DEF T
  <2> QED
    BY <1>1, <2>1, CompleteInductiveSet
<1> QED
  BY <1>2

(* A function on Nat whose values follow from earlier ones exists.         *)
Builds(f, base, step, before, n) ==
    f[0] = base /\ \A i \in 1..n : f[i] = step[i][f[before[i]]]

LEMMA FiniteRecursion ==
    ASSUME NEW X, NEW base \in X, NEW step \in [Nat -> [X -> X]],
           NEW before \in [Nat -> Nat], \A i \in Nat \ {0} : before[i] < i,
           NEW n \in Nat
    PROVE  \E f \in [0..n -> X] : Builds(f, base, step, before, n)
<1> DEFINE S == {k \in Nat : \E f \in [0..k -> X] : Builds(f, base, step, before, k)}
<1>1. 0 \in S
  <2>1. [i \in 0..0 |-> base] \in [0..0 -> X]
    OBVIOUS
  <2>2. Builds([i \in 0..0 |-> base], base, step, before, 0)
    BY DEF Builds
  <2> QED
    BY <2>1, <2>2
<1>2. ASSUME NEW k \in S
      PROVE  k + 1 \in S
  <2>1. PICK f \in [0..k -> X] : Builds(f, base, step, before, k)
    OBVIOUS
  <2> DEFINE b == before[k + 1]
             g == [i \in 0..(k + 1) |-> IF i = k + 1 THEN step[k + 1][f[b]] ELSE f[i]]
  <2>2. k \in Nat /\ b \in 0..k
    OBVIOUS
  <2>3. f[b] \in X /\ step[k + 1] \in [X -> X]
    BY <2>2
  <2>4. step[k + 1][f[b]] \in X
    BY <2>3
  <2>5. g \in [0..(k + 1) -> X]
    BY <2>2, <2>4
  <2>6. \A i \in 0..k : g[i] = f[i]
    BY <2>2
  <2>7. g[k + 1] = step[k + 1][g[b]]
    BY <2>2, <2>6
  <2>8. ASSUME NEW i \in 1..k
        PROVE  g[i] = step[i][g[before[i]]]
    <3>1. i \in 0..k /\ before[i] \in 0..k
      BY <2>2
    <3>2. g[i] = f[i] /\ g[before[i]] = f[before[i]]
      BY <2>6, <3>1
    <3>3. f[i] = step[i][f[before[i]]]
      BY <2>1 DEF Builds
    <3> QED
      BY <3>2, <3>3
  <2>9. g[0] = base
    <3>1. g[0] = f[0]
      BY <2>2, <2>6
    <3> QED
      BY <2>1, <3>1 DEF Builds
  <2>10. \A i \in 1..(k + 1) : i = k + 1 \/ i \in 1..k
    BY <2>2
  <2> HIDE DEF g
  <2>11. \A i \in 1..(k + 1) : g[i] = step[i][g[before[i]]]
    BY <2>7, <2>8, <2>10
  <2>12. k + 1 \in Nat
    BY <2>2
  <2> QED
    BY <2>5, <2>9, <2>11, <2>12 DEF Builds
<1>3. S = Nat
  <2> HIDE DEF S
  <2>1. S \in SUBSET Nat
    BY DEF S
  <2> QED
    BY <1>1, <1>2, <2>1, InductiveSet
<1> QED
  BY <1>3

LEMMA BuildsOnce ==
    ASSUME NEW X, NEW base, NEW step,
           NEW before \in [Nat -> Nat], \A i \in Nat \ {0} : before[i] < i,
           NEW m \in Nat, NEW f, Builds(f, base, step, before, m),
           NEW n \in Nat, NEW g, Builds(g, base, step, before, n)
    PROVE  \A i \in Nat : i <= m /\ i <= n => f[i] = g[i]
<1> DEFINE S == {i \in Nat : i <= m /\ i <= n => f[i] = g[i]}
<1>1. ASSUME NEW i \in Nat, \A k \in 0..(i - 1) : k \in S
      PROVE  i \in S
  <2>1. CASE i = 0
    BY <2>1 DEF Builds
  <2>2. CASE i # 0 /\ i <= m /\ i <= n
    <3>1. i \in 1..m /\ i \in 1..n /\ before[i] \in 0..(i - 1) /\ before[i] <= m /\ before[i] <= n
      BY <2>2
    <3>2. f[before[i]] = g[before[i]]
      BY <1>1, <3>1
    <3> QED
      BY <3>1, <3>2 DEF Builds
  <2> QED
    BY <2>1, <2>2
<1>2. S = Nat
  <2>1. S \in SUBSET Nat
    OBVIOUS
  <2> HIDE DEF S
  <2> QED
    BY <1>1, <2>1, CompleteInductiveSet
<1> QED
  BY <1>2

BuildsAll(f, base, step, before) ==
    f[0] = base /\ \A i \in Nat \ {0} : f[i] = step[i][f[before[i]]]

LEMMA Recursion ==
    ASSUME NEW X, NEW base \in X, NEW step \in [Nat -> [X -> X]],
           NEW before \in [Nat -> Nat], \A i \in Nat \ {0} : before[i] < i
    PROVE  \E f \in [Nat -> X] : BuildsAll(f, base, step, before)
<1> DEFINE Prefix(n) == CHOOSE f \in [0..n -> X] : Builds(f, base, step, before, n)
           f == [n \in Nat |-> Prefix(n)[n]]
<1>1. \A n \in Nat : Prefix(n) \in [0..n -> X] /\ Builds(Prefix(n), base, step, before, n)
  BY FiniteRecursion
<1> HIDE DEF Prefix
<1>2. f \in [Nat -> X]
  BY <1>1
<1>3. f[0] = base
  BY <1>1 DEF Builds
<1>4. ASSUME NEW i \in Nat \ {0}
      PROVE  f[i] = step[i][f[before[i]]]
  <2>1. before[i] \in Nat /\ before[i] <= i /\ i <= i /\ i \in 1..i
    OBVIOUS
  <2>2. Prefix(i)[i] = step[i][Prefix(i)[before[i]]]
    BY <1>1, <2>1 DEF Builds
  <2>3. Prefix(i)[before[i]] = Prefix(before[i])[before[i]]
    <3> DEFINE p == Prefix(i)
               q == Prefix(before[i])
               m == before[i]
    <3>1. i \in Nat /\ m \in Nat /\ m <= i /\ m <= m
      BY <2>1
    <3>2. Builds(p, base, step, before, i) /\ Builds(q, base, step, before, m)
      BY <1>1, <3>1
    <3> HIDE DEF p, q, m
    <3>3. p[m] = q[m]
      BY <3>1, <3>2, BuildsOnce
    <3> QED
      BY <3>3 DEF p, q, m
  <2> QED
    BY <2>1, <2>2, <2>3
<1> HIDE DEF f
<1> QED
  BY <1>2, <1>3, <1>4 DEF BuildsAll

Follows(f, base, step) == f[0] = base /\ \A i \in Nat : f[i + 1] = step[i + 1][f[i]]

LEMMA StepByStep ==
    ASSUME NEW X, NEW base \in X, NEW step \in [Nat -> [X -> X]]
    PROVE  \E f \in [Nat -> X] : Follows(f, base, step)
<1> DEFINE before == [i \in Nat |-> IF i = 0 THEN 0 ELSE i - 1]
<1>1. before \in [Nat -> Nat] /\ \A i \in Nat \ {0} : before[i] < i
  OBVIOUS
<1>2. \A i \in Nat : i + 1 \in Nat \ {0} /\ before[i + 1] = i
  OBVIOUS
<1> HIDE DEF before
<1>3. PICK f \in [Nat -> X] : BuildsAll(f, base, step, before)
  BY <1>1, Recursion
<1> QED
  BY <1>2, <1>3 DEF BuildsAll, Follows

----------------------------------------------------------------------------
(* Numbers and bytes.                                                      *)
LEMMA RadixIs == Radix \in Nat /\ Radix >= 8 /\ Half \in Nat /\ Half >= 4 /\ Radix = 2 * Half
BY DerAssumption DEF Radix

LEMMA Division ==
    ASSUME NEW n \in Nat
    PROVE  /\ n \div Radix \in Nat /\ n % Radix \in 0..(Radix - 1)
           /\ n = (n \div Radix) * Radix + (n % Radix)
<1> DEFINE q == n \div Radix
           m == n % Radix
<1>1. q \in Nat /\ m \in 0..(Radix - 1)
  BY RadixIs
<1>2. m = n - q * Radix
  <2>1. q \in Int /\ q = n \div Radix
    BY <1>1
  <2> HIDE DEF q
  <2> QED
    BY <2>1, RadixIs
<1>3. q * Radix \in Nat
  <2> HIDE DEF q
  <2> QED
    BY <1>1, RadixIs
<1>4. n = q * Radix + m
  <2> DEFINE p == q * Radix
  <2> HIDE DEF p, m
  <2> QED
    BY <1>1, <1>2, <1>3 DEF p
<1> QED
  BY <1>1, <1>4, Zenon

LEMMA DivisionOf ==
    ASSUME NEW q \in Nat, NEW m \in 0..(Radix - 1)
    PROVE  /\ q * Radix + m \in Nat
           /\ (q * Radix + m) \div Radix = q /\ (q * Radix + m) % Radix = m
BY RadixIs

LEMMA DivisionIsLess ==
    ASSUME NEW n \in Nat, n # 0
    PROVE  n \div Radix < n
BY RadixIs

LEMMA DivisionIsMonotonic ==
    ASSUME NEW m \in Nat, NEW n \in Nat, m <= n
    PROVE  m \div Radix <= n \div Radix
BY RadixIs

LEMMA DivisionIsZero ==
    ASSUME NEW n \in Nat
    PROVE  n \div Radix = 0 <=> n < Radix
BY RadixIs

(* int.from_bytes, byte after byte. *)
UpTo(bytes) == CHOOSE g : g = [i \in Nat |->
                                  IF i \in DOMAIN bytes THEN g[i - 1] * Radix + bytes[i] ELSE 0]

LEMMA NumberIsUpTo == ASSUME NEW bytes PROVE Number(bytes) = UpTo(bytes)[Len(bytes)]
BY DEF Number, UpTo

LEMMA UpToUnfolds ==
    ASSUME NEW n \in Nat, NEW bytes \in [1..n -> Bytes]
    PROVE  /\ UpTo(bytes) \in [Nat -> Nat]
           /\ UpTo(bytes)[0] = 0
           /\ \A i \in 1..n : UpTo(bytes)[i] = UpTo(bytes)[i - 1] * Radix + bytes[i]
<1> DEFINE step == [i \in Nat |-> [m \in Nat |-> IF i \in 1..n THEN m * Radix + bytes[i] ELSE 0]]
<1>1. ASSUME NEW i \in 1..n, NEW m \in Nat
      PROVE  m * Radix + bytes[i] \in Nat
  <2>1. m * Radix \in Nat /\ bytes[i] \in Nat
    BY RadixIs DEF Bytes
  <2> QED
    BY <2>1
<1>2. step \in [Nat -> [Nat -> Nat]]
  BY <1>1
<1>3. \A i \in Nat \ {0} : i - 1 \in Nat /\ (i - 1) + 1 = i
  OBVIOUS
<1>4. PICK f \in [Nat -> Nat] : Follows(f, 0, step)
  <2> HIDE DEF step
  <2> QED
    BY <1>2, StepByStep
<1>5. ASSUME NEW i \in Nat \ {0}
      PROVE  f[i] = IF i \in 1..n THEN f[i - 1] * Radix + bytes[i] ELSE 0
  <2>1. f[i - 1] \in Nat
    BY <1>3
  <2>2. f[i] = step[i][f[i - 1]]
    <3> HIDE DEF step
    <3> QED
      BY <1>3, <1>4 DEF Follows
  <2> QED
    BY <2>1, <2>2
<1> DEFINE Unfolded(g) == [i \in Nat |->
                              IF i \in DOMAIN bytes THEN g[i - 1] * Radix + bytes[i] ELSE 0]
<1>6. f = Unfolded(f)
  <2>1. \A i \in Nat : f[i] = Unfolded(f)[i]
    BY <1>4, <1>5 DEF Follows
  <2>2. DOMAIN Unfolded(f) = Nat
    OBVIOUS
  <2> QED
    BY <2>1, <2>2
<1>7. UpTo(bytes) = Unfolded(UpTo(bytes))
  BY <1>6 DEF UpTo
<1> DEFINE u == UpTo(bytes)
<1> HIDE DEF u
<1>8. u = Unfolded(u)
  BY <1>7 DEF u
<1>9. u[0] = 0 /\ \A i \in 1..n : u[i] = u[i - 1] * Radix + bytes[i]
  <2>1. \A i \in Nat : u[i] = IF i \in DOMAIN bytes THEN u[i - 1] * Radix + bytes[i] ELSE 0
    BY <1>8
  <2>2. DOMAIN bytes = 1..n /\ n \in Nat
    BY <1>1
  <2>3. \A i \in 1..n : i \in Nat
    BY <2>2
  <2> QED
    BY <2>1, <2>2, <2>3
<1>10. \A i \in Nat : i \notin 1..n => u[i] = 0
  BY <1>8
<1>11. \A i \in Nat : u[i] \in Nat
  <2> DEFINE S == {i \in Nat : u[i] \in Nat}
  <2>1. 0 \in S
    BY <1>9
  <2>2. ASSUME NEW i \in S
        PROVE  i + 1 \in S
    <3>0. i \in Nat /\ i + 1 \in Nat /\ (i + 1) - 1 = i /\ u[i] \in Nat
      OBVIOUS
    <3>1. CASE i + 1 \in 1..n
      <4>1. u[i + 1] = u[i] * Radix + bytes[i + 1]
        BY <1>9, <3>0, <3>1
      <4> QED
        BY <1>1, <3>0, <3>1, <4>1
    <3>2. CASE i + 1 \notin 1..n
      BY <1>10, <3>0, <3>2
    <3> QED
      BY <3>1, <3>2
  <2>3. S = Nat
    <3>1. S \in SUBSET Nat
      OBVIOUS
    <3> HIDE DEF S
    <3> QED
      BY <2>1, <2>2, <3>1, InductiveSet
  <2> QED
    BY <2>3
<1> QED
  <2>1. u \in [Nat -> Nat]
    BY <1>8, <1>11
  <2> QED
    BY <1>9, <2>1 DEF u

LEMMA NumberIs ==
    ASSUME NEW n \in Nat, NEW bytes \in [1..n -> Bytes]
    PROVE  bytes \in Seq(Bytes) /\ Len(bytes) = n /\ Number(bytes) = UpTo(bytes)[n] /\ Number(bytes) \in Nat
<1>1. bytes \in Seq(Bytes)
  BY IsASeq
<1>2. Len(bytes) = n
  OBVIOUS
<1>3. Number(bytes) = UpTo(bytes)[n]
  BY <1>2, NumberIsUpTo, Zenon
<1>4. UpTo(bytes)[n] \in Nat
  BY UpToUnfolds
<1> QED
  BY <1>1, <1>2, <1>3, <1>4, Zenon

(* A number without its last bytes. *)
Without(n) == CHOOSE g : g = [i \in Nat |-> IF i = 0 THEN n ELSE g[i - 1] \div Radix]

LEMMA ShiftedUnfolds ==
    ASSUME NEW n \in Nat
    PROVE  /\ Shifted(n, 0) = n
           /\ \A k \in Nat : /\ Shifted(n, k) \in Nat
                             /\ Shifted(n, k + 1) = Shifted(n, k) \div Radix
<1> DEFINE step == [i \in Nat |-> [m \in Nat |-> m \div Radix]]
<1>1. step \in [Nat -> [Nat -> Nat]]
  BY Division
<1>2. PICK f \in [Nat -> Nat] : Follows(f, n, step)
  <2> HIDE DEF step
  <2> QED
    BY <1>1, StepByStep
<1>3. f[0] = n /\ \A i \in Nat : f[i + 1] = f[i] \div Radix
  <2>1. \A i \in Nat : i + 1 \in Nat /\ f[i] \in Nat
    OBVIOUS
  <2>2. \A i \in Nat, m \in Nat : step[i][m] = m \div Radix
    OBVIOUS
  <2> HIDE DEF step
  <2> QED
    BY <1>2, <2>1, <2>2 DEF Follows
<1> HIDE DEF step
<1>4. ASSUME NEW i \in Nat, i # 0
      PROVE  f[i] = f[i - 1] \div Radix
  <2>1. i - 1 \in Nat /\ (i - 1) + 1 = i
    BY <1>4
  <2>2. f[(i - 1) + 1] = f[i - 1] \div Radix
    BY <1>3, <2>1
  <2> QED
    BY <2>1, <2>2
<1> DEFINE Unfolded(g) == [i \in Nat |-> IF i = 0 THEN n ELSE g[i - 1] \div Radix]
<1>5. f = Unfolded(f)
  BY <1>3, <1>4
<1>6. Without(n) = Unfolded(Without(n))
  BY <1>5 DEF Without
<1> DEFINE w == Without(n)
<1>7. \A k : Shifted(n, k) = w[k]
  BY DEF Shifted, Without
<1> HIDE DEF w
<1>8. w = Unfolded(w)
  BY <1>6 DEF w
<1>9. w[0] = n /\ \A i \in Nat : w[i + 1] = w[i] \div Radix
  <2>1. w[0] = n
    BY <1>8
  <2>2. ASSUME NEW i \in Nat
        PROVE  w[i + 1] = w[i] \div Radix
    <3>1. i + 1 \in Nat /\ i + 1 # 0 /\ (i + 1) - 1 = i
      OBVIOUS
    <3> QED
      BY <1>8, <3>1
  <2> QED
    BY <2>1, <2>2
<1>10. \A i \in Nat : w[i] \in Nat
  <2> DEFINE S == {i \in Nat : w[i] \in Nat}
  <2>1. 0 \in S
    BY <1>9
  <2>2. ASSUME NEW i \in S
        PROVE  i + 1 \in S
    BY <1>9, Division
  <2>3. S = Nat
    <3>1. S \in SUBSET Nat
      OBVIOUS
    <3> HIDE DEF S
    <3> QED
      BY <2>1, <2>2, <3>1, InductiveSet
  <2> QED
    BY <2>3
<1> QED
  BY <1>7, <1>9, <1>10

LEMMA ShiftedIsMonotonic ==
    ASSUME NEW m \in Nat, NEW n \in Nat, m <= n, NEW k \in Nat
    PROVE  Shifted(m, k) <= Shifted(n, k)
<1> DEFINE S == {i \in Nat : Shifted(m, i) <= Shifted(n, i)}
<1>1. 0 \in S
  BY ShiftedUnfolds
<1>2. ASSUME NEW i \in S
      PROVE  i + 1 \in S
  <2>1. i \in Nat /\ Shifted(m, i) <= Shifted(n, i)
    OBVIOUS
  <2>2. Shifted(m, i) \in Nat /\ Shifted(n, i) \in Nat
    BY <2>1, ShiftedUnfolds
  <2>3. Shifted(m, i) \div Radix <= Shifted(n, i) \div Radix
    BY <2>1, <2>2, DivisionIsMonotonic
  <2>4. /\ Shifted(m, i + 1) = Shifted(m, i) \div Radix
        /\ Shifted(n, i + 1) = Shifted(n, i) \div Radix
    BY <2>1, ShiftedUnfolds
  <2> QED
    BY <2>1, <2>3, <2>4
<1>3. S = Nat
  <2>1. S \in SUBSET Nat
    OBVIOUS
  <2> HIDE DEF S
  <2> QED
    BY <1>1, <1>2, <2>1, InductiveSet
<1> QED
  BY <1>3

(* Every number has a size. *)
LEMMA ShiftedVanishes ==
    ASSUME NEW n \in Nat
    PROVE  Shifted(n, n + 1) = 0
<1> DEFINE S == {i \in Nat : Shifted(n, i) + i <= n \/ Shifted(n, i) = 0}
<1>1. 0 \in S
  BY ShiftedUnfolds
<1>2. ASSUME NEW i \in S
      PROVE  i + 1 \in S
  <2> DEFINE a == Shifted(n, i)
             b == Shifted(n, i + 1)
  <2>1. i \in Nat /\ (a + i <= n \/ a = 0)
    OBVIOUS
  <2>2. a \in Nat /\ b = a \div Radix /\ b \in Nat
    BY <2>1, ShiftedUnfolds
  <2>3. a # 0 => b < a
    BY <2>2, DivisionIsLess
  <2>4. a = 0 => b = 0
    BY <2>2, RadixIs
  <2>5. b + (i + 1) <= n \/ b = 0
    <3> HIDE DEF a, b
    <3> QED
      BY <2>1, <2>2, <2>3, <2>4
  <2> QED
    BY <2>1, <2>5
<1>3. S = Nat
  <2>1. S \in SUBSET Nat
    OBVIOUS
  <2> HIDE DEF S
  <2> QED
    BY <1>1, <1>2, <2>1, InductiveSet
<1>4. n + 1 \in S
  BY <1>3
<1>5. Shifted(n, n + 1) \in Nat
  BY ShiftedUnfolds
<1> QED
  BY <1>4, <1>5

IsSize(n, k) == Shifted(n, k) = 0 /\ \A j \in 1..(k - 1) : Shifted(n, j) # 0

LEMMA SizeIs ==
    ASSUME NEW n \in Nat
    PROVE  Size(n) \in Nat \ {0} /\ Size(n) <= n + 1 /\ IsSize(n, Size(n))
<1> DEFINE S == {k \in Nat : k # 0 /\ Shifted(n, k) = 0}
<1>1. S \in SUBSET Nat /\ n + 1 \in S
  BY ShiftedVanishes
<1> HIDE DEF S
<1>2. PICK k \in S : \A j \in Nat : j < k => j \notin S
  BY <1>1, LeastMember
<1>3. k \in 1..(n + 1)
  <2>1. k \in Nat /\ k # 0
    BY <1>1 DEF S
  <2>2. ~ (n + 1 < k)
    BY <1>1, <1>2
  <2> QED
    BY <2>1, <2>2
<1>4. IsSize(n, k)
  <2>1. Shifted(n, k) = 0
    BY DEF S
  <2>2. ASSUME NEW j \in 1..(k - 1)
        PROVE  Shifted(n, j) # 0
    <3>1. j \in Nat /\ j < k /\ j # 0
      BY <1>3
    <3>2. j \notin S
      BY <1>2, <3>1
    <3> QED
      BY <3>1, <3>2 DEF S
  <2> QED
    BY <2>1, <2>2 DEF IsSize
<1>5. Size(n) = CHOOSE i \in 1..(n + 1) : IsSize(n, i)
  BY DEF Size, IsSize
<1>6. Size(n) \in 1..(n + 1) /\ IsSize(n, Size(n))
  BY <1>3, <1>4, <1>5
<1> QED
  BY <1>6

LEMMA SizeOf ==
    ASSUME NEW n \in Nat, NEW k \in Nat \ {0}, IsSize(n, k)
    PROVE  Size(n) = k
<1>1. ASSUME NEW a \in Nat \ {0}, IsSize(n, a), NEW b \in Nat \ {0}, IsSize(n, b)
      PROVE  ~ (a < b)
  <2>1. a < b => a \in 1..(b - 1)
    OBVIOUS
  <2> QED
    BY <1>1, <2>1 DEF IsSize
<1>2. Size(n) \in Nat \ {0} /\ IsSize(n, Size(n))
  BY SizeIs
<1>3. ~ (Size(n) < k) /\ ~ (k < Size(n))
  BY <1>1, <1>2
<1> QED
  BY <1>2, <1>3

(* What to_bytes writes from_bytes reads, if there is room for it.         *)
LEMMA NumberOfBytes ==
    ASSUME NEW n \in Nat, NEW k \in Nat, Shifted(n, k) = 0
    PROVE  ToBytes(n, k) \in [1..k -> Bytes] /\ Number(ToBytes(n, k)) = n
<1> DEFINE b == ToBytes(n, k)
           u == UpTo(b)
<1>1. ASSUME NEW i \in 1..k
      PROVE  Shifted(n, k - i) % Radix \in Bytes
  <2>1. k - i \in Nat
    OBVIOUS
  <2>2. Shifted(n, k - i) \in Nat
    BY <2>1, ShiftedUnfolds
  <2> QED
    BY <2>2, Division DEF Bytes
<1>2. b \in [1..k -> Bytes] /\ \A i \in 1..k : b[i] = Shifted(n, k - i) % Radix
  BY <1>1 DEF ToBytes
<1> HIDE DEF b
<1>3. /\ u[0] = 0
      /\ \A i \in 1..k : u[i] = u[i - 1] * Radix + b[i]
  BY <1>2, UpToUnfolds
<1> HIDE DEF u
<1> DEFINE S == {i \in Nat : i <= k => u[i] = Shifted(n, k - i)}
<1>4. 0 \in S
  BY <1>3
<1>5. ASSUME NEW i \in S
      PROVE  i + 1 \in S
  <2>1. SUFFICES ASSUME i + 1 <= k
                 PROVE  u[i + 1] = Shifted(n, k - (i + 1))
    OBVIOUS
  <2> DEFINE j == k - (i + 1)
  <2>2. i \in Nat /\ i + 1 \in 1..k /\ (i + 1) - 1 = i /\ j \in Nat /\ j + 1 = k - i /\ i <= k
    BY <2>1
  <2>3. u[i] = Shifted(n, k - i)
    BY <2>2
  <2> HIDE DEF j, S
  <2>4. Shifted(n, j) \in Nat /\ u[i] = Shifted(n, j) \div Radix
    <3>1. Shifted(n, j) \in Nat /\ Shifted(n, j + 1) = Shifted(n, j) \div Radix
      BY <2>2, ShiftedUnfolds
    <3> QED
      BY <2>2, <2>3, <3>1
  <2>5. b[i + 1] = Shifted(n, j) % Radix
    BY <1>2, <2>2 DEF j
  <2>6. u[i + 1] = u[i] * Radix + b[i + 1]
    BY <1>3, <2>2
  <2>7. Shifted(n, j) = (Shifted(n, j) \div Radix) * Radix + (Shifted(n, j) % Radix)
    BY <2>4, Division
  <2>8. u[i + 1] = Shifted(n, j)
    BY <2>4, <2>5, <2>6, <2>7, Zenon
  <2> QED
    BY <2>8 DEF j
<1>6. S = Nat
  <2>1. S \in SUBSET Nat
    OBVIOUS
  <2> HIDE DEF S
  <2> QED
    BY <1>4, <1>5, <2>1, InductiveSet
<1>7. u[k] = Shifted(n, k - k)
  BY <1>6
<1>8. u[k] = n
  BY <1>7, ShiftedUnfolds
<1>9. Number(b) = u[k]
  BY <1>2, NumberIs DEF u
<1> QED
  BY <1>2, <1>8, <1>9 DEF b

(* The bytes that are read can be written again: no two strings of one     *)
(* length are the same number.                                             *)
LEMMA ShiftedNumber ==
    ASSUME NEW n \in Nat, NEW bytes \in [1..n -> Bytes], NEW j \in 0..n
    PROVE  Shifted(Number(bytes), j) = UpTo(bytes)[n - j]
<1> DEFINE u == UpTo(bytes)
           m == Number(bytes)
<1>1. /\ u \in [Nat -> Nat]
      /\ \A i \in 1..n : u[i] = u[i - 1] * Radix + bytes[i]
  BY UpToUnfolds
<1>2. m \in Nat /\ m = u[n]
  BY NumberIs
<1> HIDE DEF u, m
<1> DEFINE S == {i \in Nat : i <= n => Shifted(m, i) = u[n - i]}
<1>3. 0 \in S
  <2> HIDE DEF S
  <2>1. Shifted(m, 0) = m
    BY <1>2, ShiftedUnfolds
  <2>2. n - 0 = n
    OBVIOUS
  <2> QED
    BY <1>2, <2>1, <2>2 DEF S
<1>4. ASSUME NEW i \in S
      PROVE  i + 1 \in S
  <2>1. SUFFICES ASSUME i + 1 <= n
                 PROVE  Shifted(m, i + 1) = u[n - (i + 1)]
    OBVIOUS
  <2> DEFINE k == n - i
  <2>2. i \in Nat /\ k \in 1..n /\ k - 1 \in Nat /\ n - (i + 1) = k - 1 /\ i <= n
    BY <2>1
  <2>3. Shifted(m, i) = u[k]
    BY <2>2
  <2> HIDE DEF k, S
  <2>4. Shifted(m, i + 1) = u[k] \div Radix
    <3>1. Shifted(m, i + 1) = Shifted(m, i) \div Radix
      BY <1>2, <2>2, ShiftedUnfolds
    <3> QED
      BY <2>3, <3>1
  <2>5. u[k - 1] \in Nat /\ bytes[k] \in 0..(Radix - 1) /\ u[k] = u[k - 1] * Radix + bytes[k]
    BY <1>1, <2>2 DEF Bytes
  <2>6. u[k] \div Radix = u[k - 1]
    BY <2>5, DivisionOf
  <2> QED
    BY <2>2, <2>4, <2>6
<1>5. S = Nat
  <2>1. S \in SUBSET Nat
    OBVIOUS
  <2> HIDE DEF S
  <2> QED
    BY <1>3, <1>4, <2>1, InductiveSet
<1>6. Shifted(m, j) = u[n - j]
  BY <1>5
<1> QED
  BY <1>6 DEF m, u

LEMMA BytesOfNumber ==
    ASSUME NEW n \in Nat, NEW bytes \in [1..n -> Bytes]
    PROVE  Shifted(Number(bytes), n) = 0 /\ ToBytes(Number(bytes), n) = bytes
<1> DEFINE u == UpTo(bytes)
           m == Number(bytes)
<1>1. /\ u \in [Nat -> Nat]
      /\ u[0] = 0
      /\ \A i \in 1..n : u[i] = u[i - 1] * Radix + bytes[i]
  BY UpToUnfolds
<1>2. \A j \in 0..n : Shifted(m, j) = u[n - j]
  BY ShiftedNumber
<1> HIDE DEF u, m
<1>3. Shifted(m, n) = 0
  BY <1>1, <1>2
<1>4. ASSUME NEW i \in 1..n
      PROVE  Shifted(m, n - i) % Radix = bytes[i]
  <2>1. n - i \in 0..n /\ n - (n - i) = i /\ i - 1 \in Nat
    OBVIOUS
  <2>2. Shifted(m, n - i) = u[i]
    BY <1>2, <2>1
  <2>3. u[i - 1] \in Nat /\ bytes[i] \in 0..(Radix - 1) /\ u[i] = u[i - 1] * Radix + bytes[i]
    BY <1>1, <2>1 DEF Bytes
  <2> QED
    BY <2>2, <2>3, DivisionOf
<1>5. ToBytes(m, n) = bytes
  BY <1>4 DEF ToBytes
<1> QED
  BY <1>3, <1>5 DEF m

(* Only a number's first digit can tell it from a shorter one.             *)
LEMMA DigitsType ==
    ASSUME NEW n \in Nat
    PROVE  /\ Digits(n) \in [1..Size(n) -> Bytes]
           /\ Digits(n) \in Seq(Bytes) /\ Len(Digits(n)) = Size(n)
           /\ Number(Digits(n)) = n
           /\ Size(n) > 1 => Digits(n)[1] # 0
<1> DEFINE k == Size(n)
<1>1. k \in Nat \ {0} /\ Shifted(n, k) = 0 /\ \A j \in 1..(k - 1) : Shifted(n, j) # 0
  BY SizeIs DEF IsSize
<1>2. Digits(n) = ToBytes(n, k)
  BY DEF Digits
<1> HIDE DEF k
<1>3. ToBytes(n, k) \in [1..k -> Bytes] /\ Number(ToBytes(n, k)) = n
  BY <1>1, NumberOfBytes
<1>4. ToBytes(n, k) \in Seq(Bytes) /\ Len(ToBytes(n, k)) = k
  BY <1>1, <1>3, NumberIs
<1>5. ASSUME k > 1
      PROVE  ToBytes(n, k)[1] # 0
  <2> DEFINE m == Shifted(n, k - 1)
  <2>1. k - 1 \in 1..(k - 1) /\ k - 1 \in Nat /\ (k - 1) + 1 = k
    BY <1>1, <1>5
  <2>2. m \in Nat /\ m # 0
    BY <1>1, <2>1, ShiftedUnfolds
  <2>3. Shifted(n, (k - 1) + 1) = m \div Radix
    BY <2>1, ShiftedUnfolds
  <2>4. m \div Radix = 0
    BY <1>1, <2>1, <2>3
  <2>5. ToBytes(n, k)[1] = m % Radix
    BY <1>1, <1>5 DEF ToBytes
  <2> HIDE DEF m
  <2>6. m < Radix
    BY <2>2, <2>4, DivisionIsZero
  <2>7. m % Radix = m
    BY <2>2, <2>6, RadixIs
  <2> QED
    BY <2>2, <2>5, <2>7
<1> QED
  BY <1>2, <1>3, <1>4, <1>5 DEF k

LEMMA DigitsOfNumber ==
    ASSUME NEW n \in Nat \ {0}, NEW bytes \in [1..n -> Bytes], bytes[1] # 0 \/ n = 1
    PROVE  Size(Number(bytes)) = n /\ Digits(Number(bytes)) = bytes
<1> DEFINE u == UpTo(bytes)
           m == Number(bytes)
<1>1. /\ u \in [Nat -> Nat] /\ u[0] = 0
      /\ \A i \in 1..n : u[i] = u[i - 1] * Radix + bytes[i]
  BY UpToUnfolds
<1>2. \A j \in 0..n : Shifted(m, j) = u[n - j]
  BY ShiftedNumber
<1>3. m \in Nat /\ ToBytes(m, n) = bytes
  BY NumberIs, BytesOfNumber
<1> HIDE DEF u, m
<1>4. ASSUME bytes[1] # 0
      PROVE  \A i \in 1..n : u[i] # 0
  <2> DEFINE S == {i \in Nat : i + 1 <= n => u[i + 1] # 0}
  <2>1. 0 \in S
    <3>1. 1 \in 1..n /\ u[1] = u[1 - 1] * Radix + bytes[1] /\ bytes[1] \in Nat
      BY <1>1 DEF Bytes
    <3>2. u[1 - 1] = 0 /\ 0 * Radix = 0
      BY <1>1, RadixIs
    <3> QED
      BY <1>4, <3>1, <3>2
  <2>2. ASSUME NEW i \in S
        PROVE  i + 1 \in S
    <3>1. SUFFICES ASSUME (i + 1) + 1 <= n
                   PROVE  u[(i + 1) + 1] # 0
      OBVIOUS
    <3> DEFINE k == i + 1
    <3>2. k \in Nat /\ k <= n /\ k + 1 \in 1..n /\ (k + 1) - 1 = k /\ u[k] # 0
      BY <3>1
    <3> HIDE DEF S, k
    <3>3. u[k] \in Nat /\ bytes[k + 1] \in Nat /\ u[k + 1] = u[k] * Radix + bytes[k + 1]
      <4>1. u[k] \in Nat
        BY <1>1, <3>2
      <4>2. bytes[k + 1] \in Nat
        BY <3>2 DEF Bytes
      <4>3. u[k + 1] = u[(k + 1) - 1] * Radix + bytes[k + 1]
        BY <1>1, <3>2
      <4> QED
        BY <3>2, <4>1, <4>2, <4>3
    <3>4. u[k] * Radix \in Nat /\ u[k] * Radix # 0
      BY <3>2, <3>3, RadixIs
    <3>5. u[k + 1] # 0
      BY <3>3, <3>4
    <3> QED
      BY <3>5 DEF k
  <2>3. S = Nat
    <3>1. S \in SUBSET Nat
      OBVIOUS
    <3> HIDE DEF S
    <3> QED
      BY <2>1, <2>2, <3>1, InductiveSet
  <2>4. ASSUME NEW i \in 1..n
        PROVE  u[i] # 0
    <3>1. i - 1 \in Nat /\ (i - 1) + 1 = i /\ i <= n
      OBVIOUS
    <3>2. \A j \in S : j + 1 <= n => u[j + 1] # 0
      OBVIOUS
    <3> HIDE DEF S
    <3>3. (i - 1) + 1 <= n => u[(i - 1) + 1] # 0
      BY <2>3, <3>1, <3>2
    <3> QED
      BY <3>1, <3>3
  <2> QED
    BY <2>4
<1>5. IsSize(m, n)
  <2>1. Shifted(m, n) = 0
    BY <1>1, <1>2
  <2>2. ASSUME NEW j \in 1..(n - 1)
        PROVE  Shifted(m, j) # 0
    <3>1. bytes[1] # 0 /\ j \in 0..n /\ n - j \in 1..n
      OBVIOUS
    <3> QED
      BY <1>2, <1>4, <3>1
  <2> QED
    BY <2>1, <2>2 DEF IsSize
<1>6. Size(m) = n
  BY <1>3, <1>5, SizeOf
<1> QED
  BY <1>3, <1>6 DEF Digits, m

(* A zero in front adds nothing.                                           *)
LEMMA LeadingZero ==
    ASSUME NEW n \in Nat, NEW bytes \in [1..n -> Bytes],
           NEW more \in [1..(n + 1) -> Bytes],
           more[1] = 0, \A i \in 1..n : more[i + 1] = bytes[i]
    PROVE  Number(more) = Number(bytes)
<1> DEFINE u == UpTo(bytes)
           v == UpTo(more)
<1>1. /\ u \in [Nat -> Nat] /\ u[0] = 0
      /\ \A i \in 1..n : u[i] = u[i - 1] * Radix + bytes[i]
  BY UpToUnfolds
<1>2. /\ v \in [Nat -> Nat] /\ v[0] = 0
      /\ \A i \in 1..(n + 1) : v[i] = v[i - 1] * Radix + more[i]
  <2> DEFINE m == n + 1
  <2>1. m \in Nat
    OBVIOUS
  <2> HIDE DEF m
  <2>2. more \in [1..m -> Bytes]
    BY DEF m
  <2>3. /\ UpTo(more) \in [Nat -> Nat] /\ UpTo(more)[0] = 0
        /\ \A i \in 1..m : UpTo(more)[i] = UpTo(more)[i - 1] * Radix + more[i]
    BY <2>1, <2>2, UpToUnfolds
  <2> QED
    BY <2>3 DEF m
<1>3. Number(bytes) = u[n] /\ Number(more) = v[n + 1]
  BY NumberIs
<1> HIDE DEF u, v
<1> DEFINE S == {i \in Nat : i <= n => v[i + 1] = u[i]}
<1>4. 0 \in S
  <2>1. v[1] = v[1 - 1] * Radix + more[1]
    BY <1>2
  <2>2. v[1 - 1] = 0 /\ 0 * Radix = 0
    BY <1>2, RadixIs
  <2>3. v[1] = 0
    BY <2>1, <2>2
  <2> QED
    BY <1>1, <2>3
<1>5. ASSUME NEW i \in S
      PROVE  i + 1 \in S
  <2>1. SUFFICES ASSUME i + 1 <= n
                 PROVE  v[(i + 1) + 1] = u[i + 1]
    OBVIOUS
  <2> DEFINE k == i + 1
  <2>2. k \in 1..n /\ k + 1 \in 1..(n + 1) /\ (k + 1) - 1 = k /\ v[k] = u[k - 1]
    BY <2>1
  <2> HIDE DEF S, k
  <2>3. v[k + 1] = v[k] * Radix + more[k + 1]
    BY <1>2, <2>2
  <2>4. u[k] = u[k - 1] * Radix + bytes[k]
    BY <1>1, <2>2
  <2>5. v[k + 1] = u[k]
    BY <2>2, <2>3, <2>4
  <2> QED
    BY <2>5 DEF k
<1>6. S = Nat
  <2>1. S \in SUBSET Nat
    OBVIOUS
  <2> HIDE DEF S
  <2> QED
    BY <1>4, <1>5, <2>1, InductiveSet
<1>7. v[n + 1] = u[n]
  BY <1>6
<1> QED
  BY <1>3, <1>7

----------------------------------------------------------------------------
(* Sequences in parts.                                                     *)
LEMMA FromProperties ==
    ASSUME NEW S, NEW s \in Seq(S), NEW k \in 0..Len(s)
    PROVE  /\ SubSeq(s, 1, k) \in Seq(S) /\ Len(SubSeq(s, 1, k)) = k
           /\ From(s, k + 1) \in Seq(S) /\ Len(From(s, k + 1)) = Len(s) - k
           /\ s = SubSeq(s, 1, k) \o From(s, k + 1)
<1>1. SubSeq(s, 1, k) \in Seq(S) /\ Len(SubSeq(s, 1, k)) = k
  OBVIOUS
<1>2. From(s, k + 1) \in Seq(S) /\ Len(From(s, k + 1)) = Len(s) - k
  BY DEF From
<1>3. SubSeq(s, 1, k) \o SubSeq(s, k + 1, Len(s)) = SubSeq(s, 1, Len(s))
  <2> DEFINE n == Len(s)
  <2>1. n \in Nat
    OBVIOUS
  <2>2. 1 \in 1..n + 1 /\ k \in (1 - 1)..n /\ n \in k..n
    BY <2>1
  <2> QED
    BY <2>2, ConcatAdjacentSubSeq
<1> QED
  BY <1>1, <1>2, <1>3, SubSeqFull DEF From

LEMMA PartsOfConcat ==
    ASSUME NEW S, NEW s \in Seq(S), NEW t \in Seq(S)
    PROVE  SubSeq(s \o t, 1, Len(s)) = s /\ From(s \o t, Len(s) + 1) = t
<1>1. s \o t \in Seq(S) /\ Len(s \o t) = Len(s) + Len(t) /\ Len(s) \in Nat /\ Len(t) \in Nat
  OBVIOUS
<1>2. SubSeq(s \o t, 1, Len(s)) = s
  OBVIOUS
<1>3. SubSeq(s \o t, Len(s) + 1, Len(s) + Len(t)) = t
  OBVIOUS
<1> QED
  BY <1>1, <1>2, <1>3 DEF From

LEMMA HeadAndTail ==
    ASSUME NEW S, NEW x \in S, NEW s \in Seq(S)
    PROVE  /\ <<x>> \o s \in Seq(S) /\ <<x>> \o s # <<>> /\ Len(<<x>> \o s) = Len(s) + 1
           /\ (<<x>> \o s)[1] = x /\ Tail(<<x>> \o s) = s
OBVIOUS

LEMMA HeadThenTail ==
    ASSUME NEW S, NEW s \in Seq(S), s # <<>>
    PROVE  /\ s[1] \in S /\ Tail(s) \in Seq(S) /\ Len(Tail(s)) = Len(s) - 1
           /\ s = <<s[1]>> \o Tail(s)
OBVIOUS

LEMMA Concat ==
    ASSUME NEW S, NEW s \in Seq(S), NEW t \in Seq(S)
    PROVE  /\ s \o t \in Seq(S) /\ Len(s \o t) = Len(s) + Len(t)
           /\ s \o <<>> = s /\ <<>> \o s = s
OBVIOUS

----------------------------------------------------------------------------
(* Lengths, items and integers: what is written is read, and nothing else. *)
Strings == Seq(Bytes)

(* A length that fits behind the byte that says how long it is. *)
Writable(n) == n \in Nat /\ Size(n) < Half

LEMMA SmallSize ==
    ASSUME NEW n \in Nat, n < Radix
    PROVE  Size(n) = 1
<1>1. Shifted(n, 1) = n \div Radix
  <2>1. 0 \in Nat /\ 0 + 1 = 1
    OBVIOUS
  <2>2. Shifted(n, 0 + 1) = Shifted(n, 0) \div Radix /\ Shifted(n, 0) = n
    BY <2>1, ShiftedUnfolds
  <2> QED
    BY <2>1, <2>2
<1>2. n \div Radix = 0
  BY DivisionIsZero
<1>3. IsSize(n, 1)
  BY <1>1, <1>2 DEF IsSize
<1> QED
  BY <1>3, SizeOf

LEMMA SizeIsMonotonic ==
    ASSUME NEW m \in Nat, NEW n \in Nat, m <= n
    PROVE  Size(m) <= Size(n)
<1> DEFINE k == Size(n)
           j == Size(m)
<1>1. k \in Nat \ {0} /\ Shifted(n, k) = 0
  BY SizeIs DEF IsSize
<1>2. j \in Nat \ {0} /\ \A i \in 1..(j - 1) : Shifted(m, i) # 0
  BY SizeIs DEF IsSize
<1> HIDE DEF k, j
<1>3. Shifted(m, k) = 0
  <2>1. Shifted(m, k) \in Nat /\ Shifted(n, k) \in Nat
    BY <1>1, ShiftedUnfolds
  <2>2. Shifted(m, k) <= Shifted(n, k)
    BY <1>1, ShiftedIsMonotonic
  <2> QED
    BY <1>1, <2>1, <2>2
<1>4. ~ (k < j)
  <2>1. k < j => k \in 1..(j - 1)
    BY <1>1, <1>2
  <2> QED
    BY <1>2, <1>3, <2>1
<1>5. j <= k
  BY <1>1, <1>2, <1>4
<1> QED
  BY <1>5 DEF j, k

LEMMA WritableLess ==
    ASSUME NEW m \in Nat, NEW n, Writable(n), m <= n
    PROVE  Writable(m)
<1>1. n \in Nat /\ Size(n) < Half /\ Size(m) <= Size(n)
  BY SizeIsMonotonic DEF Writable
<1>2. Size(m) \in Nat /\ Size(n) \in Nat
  BY <1>1, SizeIs
<1> QED
  BY <1>1, <1>2, RadixIs DEF Writable

LEMMA WriteLengthType ==
    ASSUME NEW n \in Nat
    PROVE  /\ WriteLength(n) \in Seq(Nat) /\ WriteLength(n) # <<>>
           /\ Writable(n) => WriteLength(n) \in Strings
<1>1. CASE n < Half
  <2>1. n \in Bytes /\ WriteLength(n) = <<n>>
    BY <1>1, RadixIs DEF WriteLength, Bytes
  <2> QED
    BY <2>1 DEF Strings
<1>2. CASE ~ (n < Half)
  <2>1. WriteLength(n) = <<Half + Size(n)>> \o Digits(n)
    BY <1>2 DEF WriteLength
  <2>2. Size(n) \in Nat /\ Digits(n) \in Seq(Bytes)
    BY SizeIs, DigitsType
  <2>3. Half + Size(n) \in Nat /\ Digits(n) \in Seq(Nat)
    <3>1. Bytes \subseteq Nat
      BY RadixIs DEF Bytes
    <3>2. Digits(n) \in Seq(Nat)
      BY <2>2, <3>1, SeqMonotonic
    <3> QED
      BY <2>2, <3>2, RadixIs
  <2>4. Writable(n) => Half + Size(n) \in Bytes
    BY <2>2, RadixIs DEF Writable, Bytes
  <2>5. WriteLength(n) \in Seq(Nat) /\ WriteLength(n) # <<>>
    BY <2>1, <2>3, HeadAndTail
  <2>6. Writable(n) => WriteLength(n) \in Strings
    BY <2>1, <2>2, <2>4, HeadAndTail DEF Strings
  <2> QED
    BY <2>5, <2>6
<1> QED
  BY <1>1, <1>2

LEMMA LengthIsRead ==
    ASSUME NEW n, Writable(n), NEW rest \in Strings
    PROVE  ReadLength(WriteLength(n) \o rest) = [length |-> n, rest |-> rest]
<1> DEFINE data == WriteLength(n) \o rest
<1>1. n \in Nat /\ Size(n) \in Nat \ {0} /\ Size(n) < Half
  BY SizeIs DEF Writable
<1>2. CASE n < Half
  <2>1. data = <<n>> \o rest
    BY <1>2 DEF WriteLength
  <2>2. data # <<>> /\ data[1] = n /\ Tail(data) = rest
    BY <1>1, <2>1, HeadAndTail DEF Strings
  <2> HIDE DEF data
  <2>3. ReadLength(data) = [length |-> n, rest |-> rest]
    BY <1>2, <2>2 DEF ReadLength
  <2> QED
    BY <2>3 DEF data
<1>3. CASE ~ (n < Half)
  <2> DEFINE size == Size(n)
             digits == Digits(n)
             tail == digits \o rest
  <2>1. /\ digits \in [1..size -> Bytes]
        /\ digits \in Strings /\ Len(digits) = size
        /\ Number(digits) = n
        /\ size > 1 => digits[1] # 0
    BY <1>1, DigitsType DEF Strings
  <2>2. Half + size \in Bytes /\ Half + size >= Half /\ (Half + size) - Half = size
    BY <1>1, RadixIs DEF Bytes
  <2>3. data = <<Half + size>> \o tail /\ tail \in Strings
    <3>1. data = (<<Half + size>> \o digits) \o rest
      BY <1>3 DEF WriteLength
    <3>2. <<Half + size>> \in Seq(Bytes)
      BY <2>2
    <3> HIDE DEF data, digits, size
    <3>3. data = <<Half + size>> \o (digits \o rest)
      BY <2>1, <3>1, <3>2, ConcatAssociative DEF Strings
    <3> QED
      BY <2>1, <3>3, Concat DEF Strings
  <2>4. SubSeq(tail, 1, size) = digits /\ From(tail, size + 1) = rest /\ size <= Len(tail)
    <3> HIDE DEF digits, size
    <3>1. Len(tail) = size + Len(rest) /\ Len(rest) \in Nat
      BY <2>1, Concat DEF Strings
    <3> QED
      BY <2>1, <3>1, PartsOfConcat, <1>1 DEF Strings, size
  <2>5. tail[1] # 0
    <3>1. tail[1] = digits[1]
      <4> HIDE DEF digits
      <4>1. 1 \in 1..(Len(digits) + Len(rest)) /\ 1 <= Len(digits)
        BY <2>1, <1>1 DEF Strings
      <4> QED
        BY <2>1, <4>1, ConcatProperties DEF Strings
    <3>2. CASE size > 1
      BY <2>1, <3>1, <3>2
    <3>3. CASE size = 1
      <4>1. \A d \in [1..1 -> Bytes] : Number(d) = d[1]
        <5> SUFFICES ASSUME NEW d \in [1..1 -> Bytes]
                     PROVE  Number(d) = d[1]
          OBVIOUS
        <5> DEFINE k == 1
        <5>1. k \in Nat /\ k \in 1..k /\ k - 1 = 0
          OBVIOUS
        <5> HIDE DEF k
        <5>2. d \in [1..k -> Bytes]
          BY DEF k
        <5>3. Number(d) = UpTo(d)[k] /\ UpTo(d)[0] = 0 /\ UpTo(d)[k] = UpTo(d)[k - 1] * Radix + d[k]
          BY <5>1, <5>2, NumberIs, UpToUnfolds
        <5>4. d[1] \in Nat /\ 0 * Radix = 0
          BY RadixIs DEF Bytes
        <5> QED
          BY <5>1, <5>3, <5>4 DEF k
      <4>2. digits[1] = n
        <5> HIDE DEF digits
        <5>1. digits \in [1..1 -> Bytes]
          BY <2>1, <3>3
        <5> QED
          BY <2>1, <4>1, <5>1
      <4>3. n # 0
        BY <1>1, <1>3, RadixIs
      <4> HIDE DEF tail, digits
      <4> QED
        BY <3>1, <4>2, <4>3
    <3> HIDE DEF tail, digits
    <3> QED
      BY <1>1, <3>2, <3>3
  <2> HIDE DEF data, tail, digits, size
  <2>6. data # <<>> /\ data[1] = Half + size /\ Tail(data) = tail
    <3> DEFINE x == Half + size
    <3>1. x \in Bytes /\ data = <<x>> \o tail /\ tail \in Seq(Bytes)
      BY <2>2, <2>3 DEF Strings
    <3> HIDE DEF x
    <3>2. data # <<>> /\ data[1] = x /\ Tail(data) = tail
      BY <3>1, HeadAndTail
    <3> QED
      BY <3>2 DEF x
  <2>7. LongLength(size, tail) = [length |-> n, rest |-> rest]
    <3>1. /\ ~ (size = 0 \/ size > Len(tail) \/ tail[1] = 0)
          /\ Number(SubSeq(tail, 1, size)) = n
      <4>1. size # 0
        BY <1>1 DEF size
      <4>2. ~ (size > Len(tail))
        <5>1. size \in Nat /\ Len(tail) \in Nat
          BY <1>1, <2>3 DEF size, Strings
        <5> QED
          BY <2>4, <5>1
      <4> QED
        BY <2>1, <2>4, <2>5, <4>1, <4>2
    <3> QED
      BY <1>3, <2>4, <3>1, Zenon DEF LongLength
  <2>8. ReadLength(data) = LongLength(size, tail)
    <3>1. ~ (data[1] < Half) /\ data[1] - Half = size
      BY <1>1, <2>2, <2>6, RadixIs DEF size
    <3> QED
      BY <2>6, <3>1 DEF ReadLength
  <2> QED
    BY <2>7, <2>8 DEF data
<1> QED
  BY <1>2, <1>3

LEMMA LengthWasWritten ==
    ASSUME NEW data \in Strings, ReadLength(data) # NoLength
    PROVE  LET after == ReadLength(data)
           IN  /\ Writable(after.length) /\ after.rest \in Strings
               /\ data = WriteLength(after.length) \o after.rest
<1> DEFINE first == data[1]
           tail == Tail(data)
<1>1. data # <<>>
  BY DEF ReadLength
<1>2. first \in Bytes /\ tail \in Strings /\ data = <<first>> \o tail
  BY <1>1, HeadThenTail DEF Strings
<1>3. first \in Nat /\ first < Radix
  BY <1>2, RadixIs DEF Bytes
<1>4. ReadLength(data) = IF first < Half THEN [length |-> first, rest |-> tail]
                         ELSE LongLength(first - Half, tail)
  BY <1>1 DEF ReadLength
<1> HIDE DEF first, tail
<1>5. CASE first < Half
  <2>1. ReadLength(data) = [length |-> first, rest |-> tail]
    BY <1>4, <1>5
  <2>2. Writable(first)
    BY <1>3, SmallSize, RadixIs DEF Writable
  <2>3. WriteLength(first) = <<first>>
    BY <1>5 DEF WriteLength
  <2>4. ReadLength(data).length = first /\ ReadLength(data).rest = tail
    BY <2>1
  <2> QED
    BY <1>2, <2>2, <2>3, <2>4
<1>6. CASE ~ (first < Half)
  <2> DEFINE size == first - Half
             digits == SubSeq(tail, 1, size)
             n == Number(digits)
             rest == From(tail, size + 1)
  <2>1. size \in Nat /\ size < Half /\ first = Half + size
    BY <1>3, <1>6, RadixIs
  <2>2. ReadLength(data) = LongLength(size, tail)
    BY <1>4, <1>6
  <2> HIDE DEF size
  <2>3. /\ ~ (size = 0 \/ size > Len(tail) \/ tail[1] = 0 \/ n < Half)
        /\ ReadLength(data) = [length |-> n, rest |-> rest]
    BY <2>2 DEF LongLength
  <2>4. size \in 0..Len(tail) /\ size # 0
    <3>1. Len(tail) \in Nat
      BY <1>2 DEF Strings
    <3> QED
      BY <2>1, <2>3, <3>1
  <2>5. /\ digits \in Strings /\ Len(digits) = size
        /\ rest \in Strings /\ tail = digits \o rest
    BY <1>2, <2>4, FromProperties DEF Strings
  <2>6. digits \in [1..size -> Bytes] /\ digits[1] = tail[1]
    <3>1. digits \in [1..Len(digits) -> Bytes]
      BY <2>5, LenProperties DEF Strings
    <3>2. digits[1] = tail[1]
      BY <1>2, <2>4 DEF Strings
    <3> QED
      BY <2>5, <3>1, <3>2
  <2>7. Size(n) = size /\ Digits(n) = digits /\ n \in Nat
    <3> HIDE DEF digits, n
    <3>1. digits[1] # 0 /\ size \in Nat \ {0}
      BY <2>1, <2>3, <2>4, <2>6
    <3> QED
      BY <2>6, <3>1, DigitsOfNumber, NumberIs DEF n
  <2> HIDE DEF digits, n, rest
  <2>8. WriteLength(n) = <<first>> \o digits
    BY <2>1, <2>3, <2>7 DEF WriteLength
  <2>9. data = WriteLength(n) \o rest
    <3>1. <<first>> \in Seq(Bytes)
      BY <1>2
    <3>2. (<<first>> \o digits) \o rest = <<first>> \o (digits \o rest)
      BY <2>5, <3>1, ConcatAssociative DEF Strings
    <3> QED
      BY <1>2, <2>5, <2>8, <3>2
  <2>10. Writable(n)
    BY <2>1, <2>7 DEF Writable
  <2> QED
    BY <2>3, <2>5, <2>9, <2>10
<1> QED
  BY <1>5, <1>6

LEMMA TlvType ==
    ASSUME NEW tag \in Bytes, NEW value \in Strings
    PROVE  /\ WriteTlv(tag, value) \in Seq(Nat)
           /\ Len(WriteTlv(tag, value)) > Len(value) + 1
           /\ Writable(Len(value)) => WriteTlv(tag, value) \in Strings
<1> DEFINE n == Len(value)
           head == WriteLength(n)
<1>1. n \in Nat /\ value \in Seq(Nat) /\ tag \in Nat
  <2>1. Bytes \subseteq Nat
    BY RadixIs DEF Bytes
  <2>2. value \in Seq(Nat)
    BY <2>1, SeqMonotonic DEF Strings
  <2> QED
    BY <2>1, <2>2 DEF Strings
<1>2. /\ head \in Seq(Nat) /\ head # <<>>
      /\ Writable(n) => head \in Strings
  BY <1>1, WriteLengthType
<1>3. WriteTlv(tag, value) = (<<tag>> \o head) \o value
  BY DEF WriteTlv
<1> HIDE DEF head, n
<1>4. <<tag>> \o head \in Seq(Nat) /\ Len(<<tag>> \o head) = Len(head) + 1
  BY <1>1, <1>2, HeadAndTail
<1>5. Len(head) \in Nat \ {0}
  BY <1>2, EmptySeq
<1>6. /\ (<<tag>> \o head) \o value \in Seq(Nat)
      /\ Len((<<tag>> \o head) \o value) = (Len(head) + 1) + n
  BY <1>1, <1>4, Concat DEF n
<1>7. ASSUME Writable(n)
      PROVE  (<<tag>> \o head) \o value \in Strings
  <2>1. <<tag>> \o head \in Strings
    BY <1>2, <1>7, HeadAndTail DEF Strings
  <2> QED
    BY <2>1, Concat DEF Strings
<1> QED
  BY <1>1, <1>3, <1>5, <1>6, <1>7 DEF n

LEMMA TlvIsRead ==
    ASSUME NEW tag \in Bytes, NEW value \in Strings, Writable(Len(value)), NEW rest \in Strings
    PROVE  ReadTlv(WriteTlv(tag, value) \o rest) = [tag |-> tag, value |-> value, rest |-> rest]
<1> DEFINE n == Len(value)
           head == WriteLength(n)
           tail == head \o (value \o rest)
           data == WriteTlv(tag, value) \o rest
<1>1. head \in Strings /\ value \o rest \in Strings /\ n \in Nat
  BY WriteLengthType, Concat DEF Strings, Writable
<1>2. data = <<tag>> \o tail
  <2>1. data = ((<<tag>> \o head) \o value) \o rest
    BY DEF WriteTlv
  <2>2. <<tag>> \in Strings
    BY DEF Strings
  <2> HIDE DEF data, head
  <2>3. <<tag>> \o head \in Strings
    BY <1>1, <2>2, Concat DEF Strings
  <2>4. data = (<<tag>> \o head) \o (value \o rest)
    BY <2>1, <2>3, ConcatAssociative DEF Strings
  <2> QED
    BY <1>1, <2>2, <2>4, ConcatAssociative DEF Strings
<1>3. ReadLength(tail) = [length |-> n, rest |-> value \o rest]
  BY <1>1, LengthIsRead
<1>4. SubSeq(value \o rest, 1, n) = value /\ From(value \o rest, n + 1) = rest
  BY PartsOfConcat DEF Strings
<1>5. ~ (n > Len(value \o rest))
  <2>1. Len(value \o rest) = n + Len(rest) /\ Len(rest) \in Nat
    BY Concat DEF Strings
  <2> QED
    BY <1>1, <2>1
<1>6. tail \in Strings
  BY <1>1, Concat DEF Strings
<1> HIDE DEF n, head, tail, data
<1>7. data # <<>> /\ data[1] = tag /\ Tail(data) = tail
  BY <1>2, <1>6, HeadAndTail DEF Strings
<1>8. ReadTlv(data) = Item(tag, [length |-> n, rest |-> value \o rest])
  BY <1>3, <1>7 DEF ReadTlv
<1>9. [length |-> n, rest |-> value \o rest] # NoLength
  BY <1>1 DEF NoLength
<1>10. ReadTlv(data) = [tag |-> tag, value |-> value, rest |-> rest]
  BY <1>4, <1>5, <1>8, <1>9 DEF Item
<1> QED
  BY <1>10 DEF data

LEMMA TlvWasWritten ==
    ASSUME NEW data \in Strings, ReadTlv(data) # NoItem
    PROVE  LET item == ReadTlv(data)
           IN  /\ item = [tag |-> item.tag, value |-> item.value, rest |-> item.rest]
               /\ item.tag \in Bytes /\ item.value \in Strings /\ item.rest \in Strings
               /\ Writable(Len(item.value))
               /\ data = WriteTlv(item.tag, item.value) \o item.rest
<1> DEFINE tag == data[1]
           tail == Tail(data)
           after == ReadLength(tail)
           n == after.length
           value == SubSeq(after.rest, 1, n)
           rest == From(after.rest, n + 1)
<1>1. data # <<>>
  BY DEF ReadTlv
<1>2. tag \in Bytes /\ tail \in Strings /\ data = <<tag>> \o tail
  BY <1>1, HeadThenTail DEF Strings
<1>3. ReadTlv(data) = Item(tag, after)
  BY <1>1 DEF ReadTlv
<1> HIDE DEF tag, tail, after
<1>4. /\ after # NoLength /\ ~ (n > Len(after.rest))
      /\ ReadTlv(data) = [tag |-> tag, value |-> value, rest |-> rest]
  BY <1>3 DEF Item
<1>5. Writable(n) /\ after.rest \in Strings /\ tail = WriteLength(n) \o after.rest
  BY <1>2, <1>4, LengthWasWritten DEF after
<1> DEFINE body == after.rest
<1>6. n \in 0..Len(body)
  <2>1. Len(body) \in Nat /\ n \in Nat
    BY <1>5 DEF Strings, Writable
  <2> QED
    BY <1>4, <2>1
<1>7. value \in Strings /\ Len(value) = n /\ rest \in Strings /\ body = value \o rest
  <2> HIDE DEF n, body
  <2> USE DEF body
  <2> QED
    BY <1>5, <1>6, FromProperties DEF Strings
<1>8. WriteLength(n) \in Strings
  BY <1>5, WriteLengthType DEF Writable
<1> HIDE DEF value, rest, n
<1>9. data = WriteTlv(tag, value) \o rest
  <2> DEFINE head == WriteLength(n)
  <2>1. WriteTlv(tag, value) = (<<tag>> \o head) \o value
    BY <1>7 DEF WriteTlv
  <2>2. data = <<tag>> \o (head \o (value \o rest))
    BY <1>2, <1>5, <1>7
  <2>3. <<tag>> \in Strings
    BY <1>2 DEF Strings
  <2> HIDE DEF head
  <2>4. head \in Strings /\ value \o rest \in Strings /\ <<tag>> \o head \in Strings
    BY <1>7, <1>8, <2>3, Concat DEF Strings, head
  <2>5. data = (<<tag>> \o head) \o (value \o rest)
    BY <2>2, <2>3, <2>4, ConcatAssociative DEF Strings
  <2>6. data = ((<<tag>> \o head) \o value) \o rest
    BY <1>7, <2>4, <2>5, ConcatAssociative DEF Strings
  <2> QED
    BY <2>1, <2>6
<1> DEFINE item == ReadTlv(data)
<1>10. item = [tag |-> tag, value |-> value, rest |-> rest]
  BY <1>4
<1> HIDE DEF item
<1>11. item.tag = tag /\ item.value = value /\ item.rest = rest
  BY <1>10
<1> QED
  BY <1>2, <1>5, <1>7, <1>9, <1>10, <1>11 DEF item

LEMMA ZeroThen ==
    ASSUME NEW digits \in Strings
    PROVE  /\ <<0>> \o digits \in Strings /\ (<<0>> \o digits)[1] = 0
           /\ Len(<<0>> \o digits) = Len(digits) + 1
           /\ \A i \in 1..Len(digits) : (<<0>> \o digits)[i + 1] = digits[i]
           /\ Number(<<0>> \o digits) = Number(digits)
<1> DEFINE n == Len(digits)
           more == <<0>> \o digits
<1>1. n \in Nat /\ digits \in [1..n -> Bytes]
  BY LenProperties DEF Strings
<1>2. 0 \in Bytes
  BY RadixIs DEF Bytes
<1>3. more \in Strings /\ Len(more) = n + 1 /\ more[1] = 0
  BY <1>2, HeadAndTail DEF Strings
<1>4. \A i \in 1..n : more[i + 1] = digits[i]
  BY DEF Strings
<1> HIDE DEF n, more
<1>5. more \in [1..(n + 1) -> Bytes]
  BY <1>3, LenProperties DEF Strings
<1>6. Number(more) = Number(digits)
  BY <1>1, <1>3, <1>4, <1>5, LeadingZero
<1> QED
  BY <1>3, <1>4, <1>6 DEF n, more

LEMMA IntegerIsRead ==
    ASSUME NEW n \in Nat
    PROVE  SignedDigits(n) \in Strings /\ ReadInteger(SignedDigits(n)) = n
<1> DEFINE digits == Digits(n)
           k == Size(n)
           value == SignedDigits(n)
<1>1. /\ k \in Nat \ {0} /\ digits \in [1..k -> Bytes]
      /\ digits \in Strings /\ Len(digits) = k /\ Number(digits) = n
      /\ k > 1 => digits[1] # 0
  BY DigitsType, SizeIs DEF Strings
<1>2. value = IF digits[1] < Half THEN digits ELSE <<0>> \o digits
  BY DEF SignedDigits
<1> HIDE DEF digits, k, value
<1>3. digits[1] \in Nat /\ digits # <<>> /\ 0 < Half
  BY <1>1, RadixIs DEF Bytes
<1>4. CASE digits[1] < Half
  <2>1. ~ (Len(digits) > 1 /\ digits[1] = 0 /\ digits[2] < Half) /\ ~ (digits[1] >= Half)
    BY <1>1, <1>3, <1>4, RadixIs
  <2>2. ReadInteger(digits) = Number(digits)
    BY <1>3, <2>1 DEF ReadInteger
  <2> QED
    BY <1>1, <1>2, <1>4, <2>2 DEF value
<1>5. CASE ~ (digits[1] < Half)
  <2> DEFINE more == <<0>> \o digits
  <2>1. more \in Strings /\ more[1] = 0 /\ Number(more) = n /\ Len(more) = k + 1
    BY <1>1, ZeroThen
  <2>2. more[2] = digits[1]
    <3>1. 1 \in 1..Len(digits) /\ 1 + 1 = 2
      BY <1>1
    <3>2. more[1 + 1] = digits[1]
      BY <1>1, <3>1, ZeroThen
    <3> QED
      BY <3>1, <3>2
  <2> HIDE DEF more
  <2>3. more # <<>> /\ ~ (more[1] >= Half)
    BY <1>1, <1>3, <2>1, RadixIs DEF Strings
  <2>4. ReadInteger(more) = Number(more)
    BY <1>5, <2>2, <2>3 DEF ReadInteger
  <2> QED
    BY <1>2, <1>5, <2>1, <2>4 DEF more, value
<1> QED
  BY <1>4, <1>5

LEMMA IntegerWasWritten ==
    ASSUME NEW value \in Strings, ReadInteger(value) # NoInteger
    PROVE  ReadInteger(value) \in Nat /\ SignedDigits(ReadInteger(value)) = value
<1> DEFINE n == Len(value)
           m == Number(value)
<1>1. /\ ~ (value = <<>> \/ value[1] >= Half \/ (n > 1 /\ value[1] = 0 /\ value[2] < Half))
      /\ ReadInteger(value) = m
  BY DEF ReadInteger
<1>2. n \in Nat \ {0} /\ value \in [1..n -> Bytes]
  BY <1>1, LenProperties, EmptySeq DEF Strings
<1>3. value[1] \in Nat /\ value[1] < Half
  <2>1. value[1] \in Nat
    BY <1>2, RadixIs DEF Bytes
  <2> QED
    BY <1>1, <2>1, RadixIs
<1>4. m \in Nat
  BY <1>2, NumberIs
<1> HIDE DEF m
<1>5. CASE value[1] # 0 \/ n = 1
  <2> HIDE DEF n
  <2>1. Digits(m) = value
    BY <1>2, <1>5, DigitsOfNumber DEF m
  <2> QED
    BY <1>1, <1>3, <1>4, <2>1 DEF SignedDigits
<1>6. CASE value[1] = 0 /\ n # 1
  <2> DEFINE tail == Tail(value)
             k == Len(tail)
  <2>1. tail \in Strings /\ value = <<0>> \o tail /\ Len(tail) = n - 1
    BY <1>1, <1>6, HeadThenTail DEF Strings
  <2>2. k \in Nat \ {0} /\ tail \in [1..k -> Bytes]
    <3>1. n - 1 \in Nat \ {0}
      BY <1>2, <1>6
    <3> QED
      BY <2>1, <3>1, LenProperties DEF Strings
  <2> HIDE DEF tail
  <2>3. Number(tail) = m
    BY <2>1, ZeroThen DEF m
  <2>4. tail[1] = value[2]
    <3>1. 1 \in 1..Len(tail) /\ 1 + 1 = 2
      BY <2>2
    <3>2. (<<0>> \o tail)[1 + 1] = tail[1]
      BY <2>1, <3>1, ZeroThen
    <3> QED
      BY <2>1, <3>1, <3>2
  <2>5. ~ (tail[1] < Half) /\ tail[1] # 0
    <3>1. n > 1
      BY <1>2, <1>6
    <3> QED
      BY <1>1, <1>6, <2>4, <3>1, RadixIs
  <2> HIDE DEF k
  <2>6. Digits(m) = tail
    BY <2>2, <2>3, <2>5, DigitsOfNumber
  <2> QED
    BY <1>1, <1>4, <2>1, <2>5, <2>6 DEF SignedDigits
<1> QED
  BY <1>5, <1>6

----------------------------------------------------------------------------
(* The items of a sequence.                                                *)
Items == [tag : Bytes, value : Strings]
Loops == [items : Seq(Items \cup {NoItem}), rest : Strings]

(* The loop of SequenceItems after each number of turns. *)
Continued(loop) == IF loop.rest = <<>> THEN loop ELSE Turn(loop)
Loop(data) == CHOOSE g : g = [turns \in Nat |->
                  IF turns = 0 THEN [items |-> <<>>, rest |-> data] ELSE Continued(g[turns - 1])]

LEMMA TurnType ==
    ASSUME NEW loop \in Loops
    PROVE  Continued(loop) \in Loops
<1> DEFINE item == ReadTlv(loop.rest)
           cut == [tag |-> item.tag, value |-> item.value]
<1>1. loop.items \in Seq(Items \cup {NoItem}) /\ loop.rest \in Strings
  BY DEF Loops
<1>2. CASE item = NoItem
  <2>1. Turn(loop) = [items |-> <<NoItem>>, rest |-> <<>>]
    BY <1>2 DEF Turn
  <2>2. <<NoItem>> \in Seq(Items \cup {NoItem}) /\ <<>> \in Strings
    BY DEF Strings
  <2> QED
    BY <1>1, <2>1, <2>2 DEF Continued, Loops
<1>3. CASE item # NoItem
  <2>1. item.tag \in Bytes /\ item.value \in Strings /\ item.rest \in Strings
    BY <1>1, <1>3, TlvWasWritten
  <2>2. Turn(loop) = [items |-> Append(loop.items, cut), rest |-> item.rest]
    BY <1>3 DEF Turn
  <2>3. cut \in Items \cup {NoItem}
    BY <2>1 DEF Items
  <2> HIDE DEF cut, item
  <2>4. Append(loop.items, cut) \in Seq(Items \cup {NoItem})
    BY <1>1, <2>3, AppendProperties
  <2> QED
    BY <1>1, <2>1, <2>2, <2>4 DEF Continued, Loops
<1> QED
  BY <1>2, <1>3

LEMMA LoopUnfolds ==
    ASSUME NEW data \in Strings
    PROVE  /\ Loop(data) \in [Nat -> Loops]
           /\ Loop(data)[0] = [items |-> <<>>, rest |-> data]
           /\ \A t \in Nat : Loop(data)[t + 1] = Continued(Loop(data)[t])
           /\ SequenceItems(data) = Loop(data)[Len(data)].items
<1> DEFINE start == [items |-> <<>>, rest |-> data]
           step == [t \in Nat |-> [loop \in Loops |-> Continued(loop)]]
<1>1. start \in Loops
  BY DEF Loops
<1>2. step \in [Nat -> [Loops -> Loops]]
  BY TurnType
<1>3. PICK f \in [Nat -> Loops] : Follows(f, start, step)
  <2> HIDE DEF step, start
  <2> QED
    BY <1>1, <1>2, StepByStep
<1>4. f[0] = start /\ \A t \in Nat : f[t + 1] = Continued(f[t])
  <2>1. \A t \in Nat : t + 1 \in Nat /\ f[t] \in Loops
    OBVIOUS
  <2>2. \A t \in Nat, loop \in Loops : step[t][loop] = Continued(loop)
    OBVIOUS
  <2> HIDE DEF step, start
  <2> QED
    BY <1>3, <2>1, <2>2 DEF Follows
<1> HIDE DEF step, start
<1>5. ASSUME NEW t \in Nat, t # 0
      PROVE  f[t] = Continued(f[t - 1])
  <2>1. t - 1 \in Nat /\ (t - 1) + 1 = t
    BY <1>5
  <2>2. f[(t - 1) + 1] = Continued(f[t - 1])
    BY <1>4, <2>1
  <2> QED
    BY <2>1, <2>2
<1> DEFINE Unfolded(g) == [t \in Nat |-> IF t = 0 THEN start ELSE Continued(g[t - 1])]
<1>6. f = Unfolded(f)
  BY <1>4, <1>5
<1>7. Loop(data) = Unfolded(Loop(data))
  BY <1>6 DEF Loop, start
<1> DEFINE w == Loop(data)
<1>8. SequenceItems(data) = w[Len(data)].items
  BY DEF SequenceItems, Loop, Continued
<1> HIDE DEF w
<1>9. w = Unfolded(w)
  BY <1>7 DEF w
<1>10. w[0] = start /\ \A t \in Nat : w[t + 1] = Continued(w[t])
  <2>1. w[0] = start
    BY <1>9
  <2>2. ASSUME NEW t \in Nat
        PROVE  w[t + 1] = Continued(w[t])
    <3>1. t + 1 \in Nat /\ t + 1 # 0 /\ (t + 1) - 1 = t
      OBVIOUS
    <3> QED
      BY <1>9, <3>1
  <2> QED
    BY <2>1, <2>2
<1>11. \A t \in Nat : w[t] \in Loops
  <2> DEFINE S == {t \in Nat : w[t] \in Loops}
  <2>1. 0 \in S
    BY <1>1, <1>10
  <2>2. ASSUME NEW t \in S
        PROVE  t + 1 \in S
    BY <1>10, TurnType
  <2>3. S = Nat
    <3>1. S \in SUBSET Nat
      OBVIOUS
    <3> HIDE DEF S
    <3> QED
      BY <2>1, <2>2, <3>1, InductiveSet
  <2> QED
    BY <2>3
<1>12. w \in [Nat -> Loops]
  <2>1. DOMAIN w = Nat /\ w = [t \in Nat |-> w[t]]
    BY <1>9
  <2> QED
    BY <1>11, <2>1
<1> QED
  BY <1>8, <1>10, <1>12 DEF w, start

(* So many turns read these items and leave this rest. *)
Reads(data, turns, items, rest) == Loop(data)[turns] = [items |-> items, rest |-> rest]

LEMMA ReadsNone ==
    ASSUME NEW data \in Strings
    PROVE  Reads(data, 0, <<>>, data)
BY LoopUnfolds DEF Reads

LEMMA ReadsOneMore ==
    ASSUME NEW data \in Strings, NEW turns \in Nat, NEW items,
           NEW tag \in Bytes, NEW value \in Strings, Writable(Len(value)), NEW rest \in Strings,
           Reads(data, turns, items, WriteTlv(tag, value) \o rest)
    PROVE  Reads(data, turns + 1, Append(items, [tag |-> tag, value |-> value]), rest)
<1> DEFINE front == WriteTlv(tag, value) \o rest
           loop == Loop(data)[turns]
<1>1. ReadTlv(front) = [tag |-> tag, value |-> value, rest |-> rest]
  BY TlvIsRead
<1>2. [tag |-> tag, value |-> value, rest |-> rest] # NoItem
  BY RadixIs DEF Bytes, NoItem
<1> HIDE DEF front
<1>3. front # <<>>
  <2>1. ReadTlv(<<>>) = NoItem
    BY DEF ReadTlv
  <2> QED
    BY <1>1, <1>2, <2>1
<1>4. loop.items = items /\ loop.rest = front
  BY DEF Reads, front
<1>5. Continued(loop) = [items |-> Append(items, [tag |-> tag, value |-> value]), rest |-> rest]
  <2> HIDE DEF loop
  <2>1. Continued(loop) = Turn(loop)
    BY <1>3, <1>4 DEF Continued
  <2> QED
    BY <1>1, <1>2, <1>4, <2>1 DEF Turn
<1>6. Loop(data)[turns + 1] = Continued(loop)
  BY LoopUnfolds
<1> QED
  BY <1>5, <1>6 DEF Reads

LEMMA ReadsAll ==
    ASSUME NEW data \in Strings, NEW turns \in Nat, turns <= Len(data), NEW items,
           Reads(data, turns, items, <<>>)
    PROVE  SequenceItems(data) = items
<1> DEFINE n == Len(data)
           end == [items |-> items, rest |-> <<>>]
           S == {k \in Nat : Loop(data)[turns + k] = end}
<1>1. 0 \in S
  BY DEF Reads
<1>2. ASSUME NEW k \in S
      PROVE  k + 1 \in S
  <2>1. k \in Nat /\ turns + k \in Nat /\ turns + (k + 1) = (turns + k) + 1
    OBVIOUS
  <2>2. Loop(data)[turns + k] = end
    OBVIOUS
  <2>3. Loop(data)[(turns + k) + 1] = Continued(end)
    <3> HIDE DEF S, end
    <3>1. Loop(data)[(turns + k) + 1] = Continued(Loop(data)[turns + k])
      BY <2>1, LoopUnfolds
    <3> QED
      BY <2>2, <3>1
  <2>4. Continued(end) = end
    BY DEF Continued
  <2> QED
    BY <2>1, <2>3, <2>4
<1>3. S = Nat
  <2>1. S \in SUBSET Nat
    OBVIOUS
  <2> HIDE DEF S
  <2> QED
    BY <1>1, <1>2, <2>1, InductiveSet
<1>4. n - turns \in Nat /\ turns + (n - turns) = n
  BY DEF Strings
<1>5. \A k \in S : Loop(data)[turns + k] = end
  OBVIOUS
<1> HIDE DEF S, end, n
<1>6. Loop(data)[n] = end
  BY <1>3, <1>4, <1>5
<1>7. SequenceItems(data) = Loop(data)[n].items
  BY LoopUnfolds DEF n
<1>8. end.items = items
  BY DEF end
<1> QED
  BY <1>6, <1>7, <1>8

(* The data is the items, each a tag, a length and a value, and a rest.    *)
Layout(data, items, rests) ==
    /\ items \in Seq(Items) /\ rests \in [Nat -> Strings]
    /\ rests[0] = data
    /\ \A i \in 1..Len(items) :
          /\ Writable(Len(items[i].value))
          /\ rests[i - 1] = WriteTlv(items[i].tag, items[i].value) \o rests[i]

Laid(data, loop) ==
    \/ loop.items = <<NoItem>> /\ loop.rest = <<>>
    \/ \E rests \in [Nat -> Strings] :
          Layout(data, loop.items, rests) /\ rests[Len(loop.items)] = loop.rest

LEMMA TurnLays ==
    ASSUME NEW data \in Strings, NEW loop \in Loops, Laid(data, loop)
    PROVE  Laid(data, Continued(loop))
<1> DEFINE item == ReadTlv(loop.rest)
           cut == [tag |-> item.tag, value |-> item.value]
           k == Len(loop.items)
<1>1. CASE loop.rest = <<>>
  BY <1>1 DEF Continued
<1>2. CASE loop.rest # <<>> /\ item = NoItem
  <2>1. Turn(loop) = [items |-> <<NoItem>>, rest |-> <<>>]
    BY <1>2 DEF Turn
  <2>2. Continued(loop).items = <<NoItem>> /\ Continued(loop).rest = <<>>
    BY <1>2, <2>1 DEF Continued
  <2> QED
    BY <2>2 DEF Laid
<1>3. CASE loop.rest # <<>> /\ item # NoItem
  <2>1. PICK rests \in [Nat -> Strings] :
           Layout(data, loop.items, rests) /\ rests[k] = loop.rest
    BY <1>3 DEF Laid
  <2>2. loop.rest \in Strings
    BY DEF Loops
  <2>3. /\ item.tag \in Bytes /\ item.value \in Strings /\ item.rest \in Strings
        /\ Writable(Len(item.value))
        /\ loop.rest = WriteTlv(item.tag, item.value) \o item.rest
    BY <1>3, <2>2, TlvWasWritten
  <2>4. Turn(loop) = [items |-> Append(loop.items, cut), rest |-> item.rest]
    BY <1>3 DEF Turn
  <2>5. Continued(loop).items = Append(loop.items, cut) /\ Continued(loop).rest = item.rest
    BY <1>3, <2>4 DEF Continued
  <2>6. cut \in Items /\ cut.tag = item.tag /\ cut.value = item.value
    BY <2>3 DEF Items
  <2>7. loop.items \in Seq(Items) /\ k \in Nat
    BY <2>1 DEF Layout
  <2> HIDE DEF cut, item
  <2> DEFINE more == Append(loop.items, cut)
             next == [rests EXCEPT ![k + 1] = item.rest]
  <2>8. /\ more \in Seq(Items) /\ Len(more) = k + 1 /\ more[k + 1] = cut
        /\ \A i \in 1..k : more[i] = loop.items[i]
    BY <2>6, <2>7, AppendProperties
  <2> HIDE DEF more, k
  <2>9. next \in [Nat -> Strings] /\ next[k + 1] = item.rest /\ \A i \in Nat : i # k + 1 => next[i] = rests[i]
    BY <2>1, <2>3, <2>7
  <2> HIDE DEF next
  <2>10. next[0] = data
    <3>1. 0 # k + 1
      BY <2>7
    <3> QED
      BY <2>1, <2>9, <3>1 DEF Layout
  <2>11. ASSUME NEW i \in 1..(k + 1)
         PROVE  /\ Writable(Len(more[i].value))
                /\ next[i - 1] = WriteTlv(more[i].tag, more[i].value) \o next[i]
    <3>1. CASE i = k + 1
      <4>1. i - 1 = k /\ k # k + 1 /\ k \in Nat
        BY <2>7, <3>1
      <4>2. next[i - 1] = loop.rest
        BY <2>1, <2>9, <4>1
      <4> QED
        BY <2>3, <2>6, <2>8, <2>9, <3>1, <4>2
    <3>2. CASE i \in 1..k
      <4>1. i \in Nat /\ i - 1 \in Nat /\ i # k + 1 /\ i - 1 # k + 1
        BY <2>7, <3>2
      <4>2. next[i - 1] = rests[i - 1] /\ next[i] = rests[i] /\ more[i] = loop.items[i]
        BY <2>8, <2>9, <3>2, <4>1
      <4> QED
        BY <2>1, <3>2, <4>2 DEF Layout, k
    <3>3. i = k + 1 \/ i \in 1..k
      BY <2>7
    <3> QED
      BY <3>1, <3>2, <3>3
  <2>12. Layout(data, more, next)
    BY <2>8, <2>9, <2>10, <2>11 DEF Layout
  <2>13. next[Len(more)] = item.rest
    BY <2>8, <2>9
  <2> QED
    BY <2>5, <2>9, <2>12, <2>13 DEF Laid, more
<1> QED
  BY <1>1, <1>2, <1>3

LEMMA TurnShortens ==
    ASSUME NEW loop \in Loops, loop.rest # <<>>
    PROVE  Len(Continued(loop).rest) < Len(loop.rest)
<1> DEFINE item == ReadTlv(loop.rest)
<1>1. loop.rest \in Strings /\ Len(loop.rest) \in Nat \ {0}
  BY EmptySeq DEF Loops, Strings
<1>2. CASE item = NoItem
  <2>1. Turn(loop) = [items |-> <<NoItem>>, rest |-> <<>>]
    BY <1>2 DEF Turn
  <2>2. Continued(loop).rest = <<>>
    BY <2>1 DEF Continued
  <2> QED
    BY <1>1, <2>2
<1>3. CASE item # NoItem
  <2>1. /\ item.tag \in Bytes /\ item.value \in Strings /\ item.rest \in Strings
        /\ Writable(Len(item.value))
        /\ loop.rest = WriteTlv(item.tag, item.value) \o item.rest
    BY <1>1, <1>3, TlvWasWritten
  <2>2. Continued(loop).rest = item.rest
    BY <1>3 DEF Continued, Turn
  <2> HIDE DEF item
  <2> DEFINE front == WriteTlv(item.tag, item.value)
  <2>3. front \in Strings /\ Len(front) > Len(item.value) + 1
    BY <2>1, TlvType
  <2> HIDE DEF front
  <2>4. Len(loop.rest) = Len(front) + Len(item.rest)
    BY <2>1, <2>3, Concat DEF front, Strings
  <2>5. Len(front) \in Nat /\ Len(item.rest) \in Nat /\ Len(item.value) \in Nat
    BY <2>1, <2>3 DEF Strings
  <2> QED
    BY <2>2, <2>3, <2>4, <2>5
<1> QED
  BY <1>2, <1>3

LEMMA ItemsWereWritten ==
    ASSUME NEW data \in Strings, SequenceItems(data) # <<NoItem>>
    PROVE  \E rests \in [Nat -> Strings] :
              /\ Layout(data, SequenceItems(data), rests)
              /\ rests[Len(SequenceItems(data))] = <<>>
<1> DEFINE n == Len(data)
           w == Loop(data)
           S == {t \in Nat : /\ Laid(data, w[t])
                             /\ w[t].rest = <<>> \/ Len(w[t].rest) + t <= n}
<1>1. /\ w \in [Nat -> Loops] /\ w[0] = [items |-> <<>>, rest |-> data]
      /\ \A t \in Nat : w[t + 1] = Continued(w[t])
      /\ SequenceItems(data) = w[n].items
  BY LoopUnfolds
<1>2. n \in Nat
  BY DEF Strings
<1> HIDE DEF n, w
<1>3. 0 \in S
  <2>1. w[0].items = <<>> /\ w[0].rest = data
    BY <1>1
  <2> DEFINE rests == [i \in Nat |-> data]
  <2>2. rests \in [Nat -> Strings] /\ Layout(data, <<>>, rests) /\ rests[Len(<<>>)] = data
    BY DEF Layout
  <2>3. Laid(data, w[0])
    BY <2>1, <2>2 DEF Laid
  <2>4. Len(w[0].rest) + 0 <= n
    BY <1>2, <2>1 DEF n
  <2> QED
    BY <2>3, <2>4
<1>4. ASSUME NEW t \in S
      PROVE  t + 1 \in S
  <2>1. t \in Nat /\ Laid(data, w[t]) /\ (w[t].rest = <<>> \/ Len(w[t].rest) + t <= n)
    OBVIOUS
  <2> HIDE DEF S
  <2>2. w[t] \in Loops /\ w[t + 1] = Continued(w[t]) /\ w[t + 1] \in Loops
    BY <1>1, <2>1, TurnType
  <2>3. Laid(data, w[t + 1])
    BY <2>1, <2>2, TurnLays
  <2>4. w[t + 1].rest = <<>> \/ Len(w[t + 1].rest) + (t + 1) <= n
    <3>1. CASE w[t].rest = <<>>
      BY <2>2, <3>1 DEF Continued
    <3>2. CASE w[t].rest # <<>>
      <4>1. Len(w[t + 1].rest) < Len(w[t].rest)
        BY <2>2, <3>2, TurnShortens
      <4>2. Len(w[t + 1].rest) \in Nat /\ Len(w[t].rest) \in Nat
        BY <2>2 DEF Loops, Strings
      <4> DEFINE a == Len(w[t].rest)
                 b == Len(w[t + 1].rest)
      <4>3. a + t <= n /\ b < a /\ a \in Nat /\ b \in Nat
        BY <2>1, <3>2, <4>1, <4>2
      <4> HIDE DEF a, b
      <4>4. b + (t + 1) <= n
        BY <1>2, <2>1, <4>3
      <4> QED
        BY <4>4 DEF b
    <3> QED
      BY <3>1, <3>2
  <2>5. t + 1 \in Nat
    BY <2>1
  <2> QED
    BY <2>3, <2>4, <2>5, Zenon DEF S
<1>5. S = Nat
  <2>1. S \in SUBSET Nat
    OBVIOUS
  <2> HIDE DEF S
  <2> QED
    BY <1>3, <1>4, <2>1, InductiveSet
<1>6. Laid(data, w[n]) /\ (w[n].rest = <<>> \/ Len(w[n].rest) + n <= n)
  BY <1>2, <1>5
<1> HIDE DEF S
<1>7. w[n].rest = <<>>
  <2>1. w[n].rest \in Strings
    BY <1>1, <1>2 DEF Loops
  <2>2. Len(w[n].rest) \in Nat
    BY <2>1 DEF Strings
  <2>3. w[n].rest # <<>> => Len(w[n].rest) # 0
    BY <2>1, EmptySeq DEF Strings
  <2> QED
    BY <1>2, <1>6, <2>2, <2>3
<1> QED
  BY <1>1, <1>6, <1>7 DEF Laid

----------------------------------------------------------------------------
(* Key files.                                                              *)
LEMMA Tags ==
    /\ Tag.INTEGER \in Bytes /\ Tag.BIT_STRING \in Bytes /\ Tag.OCTET_STRING \in Bytes
    /\ Tag.NULL \in Bytes /\ Tag.OID \in Bytes /\ Tag.SEQUENCE \in Bytes
    /\ \A t \in {"INTEGER", "BIT_STRING", "OCTET_STRING", "NULL", "OID", "SEQUENCE"} :
          Tag[t] # NoItem.tag
BY RadixIs DEF Tag, Bytes, NoItem

LEMMA WholeWasWritten ==
    ASSUME NEW data \in Strings, WholeSequence(data) # <<NoItem>>
    PROVE  \E body \in Strings :
              /\ Writable(Len(body)) /\ data = WriteTlv(Tag.SEQUENCE, body)
              /\ WholeSequence(data) = SequenceItems(body)
<1> DEFINE outer == ReadTlv(data)
           body == outer.value
<1>1. /\ outer.tag = Tag.SEQUENCE /\ outer.rest = <<>>
      /\ WholeSequence(data) = SequenceItems(body)
  BY DEF WholeSequence, ItemsOf
<1>2. outer # NoItem
  BY <1>1, Tags
<1>3. /\ outer.tag \in Bytes /\ body \in Strings /\ Writable(Len(body))
      /\ data = WriteTlv(outer.tag, body) \o outer.rest
  BY <1>2, TlvWasWritten
<1>4. WriteTlv(outer.tag, body) \in Strings
  BY <1>3, TlvType
<1> HIDE DEF outer
<1>5. data = WriteTlv(Tag.SEQUENCE, body)
  BY <1>1, <1>3, <1>4, Concat DEF Strings
<1> QED
  BY <1>1, <1>3, <1>5

LEMMA WholeIsRead ==
    ASSUME NEW body \in Strings, Writable(Len(body))
    PROVE  WholeSequence(WriteTlv(Tag.SEQUENCE, body)) = SequenceItems(body)
<1> DEFINE data == WriteTlv(Tag.SEQUENCE, body)
<1>1. data \in Strings /\ <<>> \in Strings
  <2>1. data \in Strings
    BY Tags, TlvType
  <2>2. <<>> \in Strings
    BY DEF Strings
  <2> QED
    BY <2>1, <2>2
<1>2. data \o <<>> = data
  <2> HIDE DEF data
  <2> QED
    BY <1>1, Concat DEF Strings
<1>3. ReadTlv(data) = [tag |-> Tag.SEQUENCE, value |-> body, rest |-> <<>>]
  <2>1. ReadTlv(data \o <<>>) = [tag |-> Tag.SEQUENCE, value |-> body, rest |-> <<>>]
    BY <1>1, Tags, TlvIsRead
  <2> QED
    BY <1>2, <2>1
<1> HIDE DEF data
<1>4. WholeSequence(data) = SequenceItems(body)
  BY <1>3 DEF WholeSequence, ItemsOf
<1> QED
  BY <1>4 DEF data

(* The first items of a sequence, as they are written.                     *)
Tlv(item) == WriteTlv(item.tag, item.value)

Begins(data, items, k, rests) ==
    /\ \A i \in 1..k : /\ items[i] \in Items /\ Writable(Len(items[i].value))
                       /\ Tlv(items[i]) \in Strings
                       /\ rests[i - 1] = Tlv(items[i]) \o rests[i]
    /\ rests[0] = data
    /\ k = Len(items) => rests[k] = <<>>

LEMMA SomeItemsWereWritten ==
    ASSUME NEW data \in Strings, NEW items, items = SequenceItems(data), items # <<NoItem>>,
           NEW k \in Nat, k <= Len(items)
    PROVE  \E rests \in [Nat -> Strings] : Begins(data, items, k, rests)
<1>1. PICK rests \in [Nat -> Strings] : Layout(data, items, rests) /\ rests[Len(items)] = <<>>
  BY ItemsWereWritten
<1>2. items \in Seq(Items) /\ Len(items) \in Nat
  BY <1>1 DEF Layout
<1>3. ASSUME NEW i \in 1..k
      PROVE  /\ items[i] \in Items /\ Writable(Len(items[i].value))
             /\ Tlv(items[i]) \in Strings
             /\ rests[i - 1] = Tlv(items[i]) \o rests[i]
  <2>1. i \in 1..Len(items)
    BY <1>2
  <2>2. items[i] \in Items
    BY <1>2, <2>1, ElementOfSeq
  <2>3. Writable(Len(items[i].value)) /\ rests[i - 1] = Tlv(items[i]) \o rests[i]
    BY <1>1, <2>1 DEF Layout, Tlv
  <2>4. Tlv(items[i]) \in Strings
    BY <2>2, <2>3, TlvType DEF Tlv, Items
  <2> QED
    BY <2>2, <2>3, <2>4
<1>4. rests[0] = data
  BY <1>1 DEF Layout
<1> QED
  BY <1>1, <1>3, <1>4 DEF Begins

LEMMA TwoItemsWereWritten ==
    ASSUME NEW data \in Strings, Len(SequenceItems(data)) = 2
    PROVE  LET items == SequenceItems(data)
           IN  /\ items[1] \in Items /\ items[2] \in Items
               /\ Writable(Len(items[1].value)) /\ Writable(Len(items[2].value))
               /\ Tlv(items[1]) \in Strings /\ Tlv(items[2]) \in Strings
               /\ data = Tlv(items[1]) \o Tlv(items[2])
<1> DEFINE items == SequenceItems(data)
<1>1. items # <<NoItem>>
  OBVIOUS
<1>2. PICK rests \in [Nat -> Strings] : Begins(data, items, 2, rests)
  <2>1. 2 \in Nat /\ 2 <= Len(items)
    OBVIOUS
  <2> QED
    BY <1>1, <2>1, SomeItemsWereWritten
<1>3. Len(items) = 2
  OBVIOUS
<1> HIDE DEF items
<1>4. /\ items[1] \in Items /\ items[2] \in Items
      /\ Writable(Len(items[1].value)) /\ Writable(Len(items[2].value))
      /\ Tlv(items[1]) \in Strings /\ Tlv(items[2]) \in Strings
      /\ rests[1 - 1] = Tlv(items[1]) \o rests[1]
      /\ rests[2 - 1] = Tlv(items[2]) \o rests[2]
  BY <1>2 DEF Begins
<1>5. data = Tlv(items[1]) \o (Tlv(items[2]) \o <<>>)
  BY <1>2, <1>3, <1>4 DEF Begins
<1>6. Tlv(items[2]) \o <<>> = Tlv(items[2])
  BY <1>4, Concat DEF Strings
<1> QED
  BY <1>4, <1>5, <1>6 DEF items

LEMMA PublicKeyWasWritten ==
    ASSUME NEW data \in Strings, PublicKeyOf(WholeSequence(data)).kind = "public"
    PROVE  LET k == PublicKeyOf(WholeSequence(data))
           IN  /\ k.modulus \in Nat /\ k.exponent \in Nat
               /\ data = WritePublic("PKCS#1", k.modulus, k.exponent)
<1> DEFINE items == WholeSequence(data)
           n == ReadInteger(items[1].value)
           e == ReadInteger(items[2].value)
<1>1. /\ Len(items) = 2 /\ HasTag(items, 1, Tag.INTEGER) /\ HasTag(items, 2, Tag.INTEGER)
      /\ ValidModulus(n) /\ ValidPublicExponent(e)
      /\ PublicKeyOf(items) = PublicKey(n, e)
  BY DEF PublicKeyOf, NoKey
<1>2. items[1].tag = Tag.INTEGER /\ items[2].tag = Tag.INTEGER
  BY <1>1 DEF HasTag
<1>3. items # <<NoItem>>
  BY <1>1
<1>4. PICK body \in Strings :
         /\ Writable(Len(body)) /\ data = WriteTlv(Tag.SEQUENCE, body)
         /\ items = SequenceItems(body)
  BY <1>3, WholeWasWritten
<1>5. /\ items[1] \in Items /\ items[2] \in Items
      /\ body = Tlv(items[1]) \o Tlv(items[2])
  BY <1>1, <1>4, TwoItemsWereWritten
<1>6. items[1].value \in Strings /\ items[2].value \in Strings
  BY <1>5 DEF Items
<1> HIDE DEF items
<1>7. n # NoInteger /\ e # NoInteger
  BY <1>1 DEF ValidModulus, ValidPublicExponent, NoInteger
<1>8. /\ n \in Nat /\ SignedDigits(n) = items[1].value
      /\ e \in Nat /\ SignedDigits(e) = items[2].value
  BY <1>6, <1>7, IntegerWasWritten
<1> HIDE DEF n, e
<1>9. Tlv(items[1]) = WriteInteger(n) /\ Tlv(items[2]) = WriteInteger(e)
  BY <1>2, <1>8 DEF Tlv, WriteInteger
<1>10. data = WritePublic("PKCS#1", n, e)
  BY <1>4, <1>5, <1>9 DEF WritePublic
<1>11. PublicKeyOf(items).modulus = n /\ PublicKeyOf(items).exponent = e
  BY <1>1 DEF PublicKey
<1> QED
  BY <1>8, <1>10, <1>11 DEF items

(* A part of a string, with what is before and behind it.                  *)
Within(part, data) == \E a \in Strings, b \in Strings : data = a \o (part \o b)

LEMMA WithinIsPart ==
    ASSUME NEW part \in Strings, NEW data \in Strings, Within(part, data)
    PROVE  IsPart(data, part)
<1>1. PICK a \in Strings, b \in Strings : data = a \o (part \o b)
  BY DEF Within
<1>2. /\ Len(a) \in Nat /\ Len(b) \in Nat /\ Len(part) \in Nat
      /\ Len(data) = Len(a) + (Len(part) + Len(b))
  BY <1>1, Concat DEF Strings
<1>3. Len(a) \in 0..(Len(data) - Len(part))
  BY <1>2
<1>4. SubSeq(data, Len(a) + 1, Len(a) + Len(part)) = part
  BY <1>1, <1>2 DEF Strings
<1> QED
  BY <1>3, <1>4 DEF IsPart

LEMMA WithinConcat ==
    ASSUME NEW part \in Strings, NEW s \in Strings, NEW t \in Strings
    PROVE  /\ Within(part, part \o t)
           /\ Within(part, t) => Within(part, s \o t)
           /\ Within(part, s) => Within(part, s \o t)
<1>1. Within(part, part \o t)
  <2>1. <<>> \in Strings /\ part \o t \in Strings
    BY Concat DEF Strings
  <2>2. part \o t = <<>> \o (part \o t)
    BY <2>1, Concat DEF Strings
  <2> QED
    BY <2>1, <2>2 DEF Within
<1>2. ASSUME Within(part, t)
      PROVE  Within(part, s \o t)
  <2>1. PICK a \in Strings, b \in Strings : t = a \o (part \o b)
    BY <1>2 DEF Within
  <2>2. part \o b \in Strings /\ s \o a \in Strings
    BY Concat DEF Strings
  <2>3. s \o t = (s \o a) \o (part \o b)
    <3> DEFINE c == part \o b
    <3>1. t = a \o c /\ c \in Strings
      BY <2>1, <2>2
    <3> HIDE DEF c
    <3>2. (s \o a) \o c = s \o (a \o c)
      BY <3>1, ConcatAssociative DEF Strings
    <3>3. s \o t = (s \o a) \o c
      BY <3>1, <3>2, Zenon
    <3> QED
      BY <3>3 DEF c
  <2> QED
    BY <2>2, <2>3 DEF Within
<1>3. ASSUME Within(part, s)
      PROVE  Within(part, s \o t)
  <2>1. PICK a \in Strings, b \in Strings : s = a \o (part \o b)
    BY <1>3 DEF Within
  <2>2. part \o b \in Strings /\ b \o t \in Strings
    BY Concat DEF Strings
  <2>3. s \o t = a \o ((part \o b) \o t)
    <3> DEFINE c == part \o b
    <3>1. s = a \o c /\ c \in Strings
      BY <2>1, <2>2
    <3> HIDE DEF c
    <3>2. (a \o c) \o t = a \o (c \o t)
      BY <3>1, ConcatAssociative DEF Strings
    <3>3. s \o t = a \o (c \o t)
      BY <3>1, <3>2, Zenon
    <3> QED
      BY <3>3 DEF c
  <2>4. (part \o b) \o t = part \o (b \o t)
    BY ConcatAssociative DEF Strings
  <2> QED
    BY <2>2, <2>3, <2>4 DEF Within
<1> QED
  BY <1>1, <1>2, <1>3

LEMMA WithinTlv ==
    ASSUME NEW part \in Strings, NEW tag \in Bytes, NEW value \in Strings, Writable(Len(value)),
           Within(part, value)
    PROVE  Within(part, WriteTlv(tag, value))
<1> DEFINE head == <<tag>> \o WriteLength(Len(value))
<1>1. head \in Strings
  <2>1. WriteLength(Len(value)) \in Strings
    BY WriteLengthType DEF Writable
  <2> QED
    BY <2>1, HeadAndTail DEF Strings
<1>2. WriteTlv(tag, value) = head \o value
  BY DEF WriteTlv
<1> HIDE DEF head
<1> QED
  BY <1>1, <1>2, WithinConcat

LEMMA AlgorithmWasWritten ==
    ASSUME NEW data \in Strings, RsaAlgorithm(SequenceItems(data))
    PROVE  \E more \in Strings :
              /\ Within(more, data)
              /\ data = WriteTlv(Tag.OID, RsaOid) \o (WriteTlv(Tag.NULL, <<>>) \o more)
<1> DEFINE items == SequenceItems(data)
           k == 2
<1>1. /\ 1 <= Len(items) /\ items[1].tag = Tag.OID /\ items[1].value = RsaOid
      /\ 2 <= Len(items) /\ items[2].tag = Tag.NULL /\ items[2].value = <<>>
  BY DEF RsaAlgorithm, HasTag
<1>2. items # <<NoItem>>
  BY <1>1, Tags
<1>3. k \in Nat /\ k <= Len(items) /\ 1 \in 1..k /\ 2 \in 1..k
  BY <1>1
<1> HIDE DEF k
<1>4. PICK rests \in [Nat -> Strings] : Begins(data, items, k, rests)
  BY <1>2, <1>3, SomeItemsWereWritten
<1> HIDE DEF items
<1>5. rests[1 - 1] = Tlv(items[1]) \o rests[1] /\ rests[2 - 1] = Tlv(items[2]) \o rests[2]
  BY <1>3, <1>4 DEF Begins
<1>6. data = Tlv(items[1]) \o (Tlv(items[2]) \o rests[2])
  <2>1. 1 - 1 = 0 /\ 2 - 1 = 1 /\ rests[0] = data
    BY <1>4 DEF Begins
  <2>2. data = Tlv(items[1]) \o rests[1] /\ rests[1] = Tlv(items[2]) \o rests[2]
    BY <1>5, <2>1
  <2> HIDE <1>4
  <2> QED
    BY <2>2
<1>7. Tlv(items[1]) = WriteTlv(Tag.OID, RsaOid) /\ Tlv(items[2]) = WriteTlv(Tag.NULL, <<>>)
  BY <1>1 DEF Tlv
<1>8. /\ rests[1] \in Strings /\ rests[2] \in Strings /\ <<>> \in Strings
      /\ Tlv(items[1]) \in Strings /\ Tlv(items[2]) \in Strings
  <2>1. rests[1] \in Strings /\ rests[2] \in Strings
    OBVIOUS
  <2>2. <<>> \in Strings
    BY DEF Strings
  <2>3. Tlv(items[1]) \in Strings /\ Tlv(items[2]) \in Strings
    BY <1>3, <1>4 DEF Begins
  <2> QED
    BY <2>1, <2>2, <2>3
<1>9. Within(rests[2], data)
  <2>1. rests[2] \o <<>> = rests[2] /\ Tlv(items[2]) \o rests[2] \in Strings
    BY <1>8, Concat DEF Strings
  <2>2. Within(rests[2], rests[2])
    BY <1>8, <2>1, WithinConcat
  <2>3. Within(rests[2], Tlv(items[2]) \o rests[2])
    BY <1>8, <2>2, WithinConcat
  <2> QED
    BY <1>6, <1>8, <2>1, <2>3, WithinConcat
<1> QED
  BY <1>6, <1>7, <1>8, <1>9

(* A public key is read from nothing but the file it is written as; only   *)
(* behind the algorithm's parameters there may be more.                    *)
LEMMA WrappedPublicWasWritten ==
    ASSUME NEW der \in Strings,
           PublicKeyOf(WholeSequence(SubjectPublicKey(WholeSequence(der)))).kind = "public"
    PROVE  LET k == PublicKeyOf(WholeSequence(SubjectPublicKey(WholeSequence(der))))
           IN  /\ k.modulus \in Nat /\ k.exponent \in Nat
               /\ \E more \in Strings : Within(more, der) /\ der = WrappedPublic(k.modulus, k.exponent, more)
<1> DEFINE items == WholeSequence(der)
           inner == SubjectPublicKey(items)
           k == PublicKeyOf(WholeSequence(inner))
<1>1. PublicKeyOf(WholeSequence(<<>>)).kind # "public"
  <2>1. ReadTlv(<<>>).tag # Tag.SEQUENCE
    BY Tags DEF ReadTlv
  <2>2. WholeSequence(<<>>) = <<NoItem>>
    BY <2>1 DEF WholeSequence, ItemsOf
  <2>3. Len(<<NoItem>>) # 2
    OBVIOUS
  <2>4. PublicKeyOf(<<NoItem>>) = NoKey("public")
    BY <2>3 DEF PublicKeyOf
  <2> QED
    BY <2>2, <2>4 DEF NoKey
<1>2. inner # <<>>
  BY <1>1
<1>3. /\ Len(items) = 2
      /\ HasTag(items, 1, Tag.SEQUENCE) /\ RsaAlgorithm(SequenceItems(items[1].value))
      /\ HasTag(items, 2, Tag.BIT_STRING) /\ items[2].value # <<>> /\ items[2].value[1] = 0
      /\ inner = Tail(items[2].value)
  BY <1>2 DEF SubjectPublicKey
<1>4. items[1].tag = Tag.SEQUENCE /\ items[2].tag = Tag.BIT_STRING /\ items # <<NoItem>>
  BY <1>3 DEF HasTag
<1>5. PICK body \in Strings :
         /\ Writable(Len(body)) /\ der = WriteTlv(Tag.SEQUENCE, body)
         /\ items = SequenceItems(body)
  BY <1>4, WholeWasWritten
<1>6. /\ items[1] \in Items /\ items[2] \in Items
      /\ body = Tlv(items[1]) \o Tlv(items[2])
  BY <1>3, <1>5, TwoItemsWereWritten
<1>7. items[1].value \in Strings /\ items[2].value \in Strings
  BY <1>6 DEF Items
<1> HIDE DEF items, inner
<1>8. inner \in Strings /\ items[2].value = <<0>> \o inner
  BY <1>3, <1>7, HeadThenTail DEF Strings
<1>9. k.modulus \in Nat /\ k.exponent \in Nat /\ inner = WritePublic("PKCS#1", k.modulus, k.exponent)
  BY <1>8, PublicKeyWasWritten DEF inner, items
<1>10. PICK more \in Strings :
          /\ Within(more, items[1].value)
          /\ items[1].value = WriteTlv(Tag.OID, RsaOid) \o (WriteTlv(Tag.NULL, <<>>) \o more)
  BY <1>3, <1>7, AlgorithmWasWritten
<1> HIDE DEF k
<1>11. der = WrappedPublic(k.modulus, k.exponent, more)
  BY <1>4, <1>5, <1>6, <1>8, <1>9, <1>10 DEF WrappedPublic, AlgorithmThen, Tlv
<1>12. Within(more, der)
  <2>1. /\ Writable(Len(items[1].value)) /\ items[1].tag \in Bytes
        /\ Tlv(items[1]) \in Strings /\ Tlv(items[2]) \in Strings
    BY <1>3, <1>5, <1>6, TwoItemsWereWritten DEF Items
  <2>2. Within(more, Tlv(items[1]))
    BY <1>7, <1>10, <2>1, WithinTlv DEF Tlv
  <2>3. Within(more, body)
    BY <1>6, <2>1, <2>2, WithinConcat
  <2> QED
    BY <1>5, <2>3, Tags, WithinTlv
<1> QED
  BY <1>9, <1>11, <1>12 DEF k, inner, items

(* Of a private key the third number and what follows the fourth may be    *)
(* anything that is written as such.                                       *)
PrivateBody(n, d, third, more) ==
    WriteInteger(0) \o (WriteInteger(n) \o (WriteTlv(Tag.INTEGER, third) \o (WriteInteger(d) \o more)))

LEMMA PrivateKeyWasWritten ==
    ASSUME NEW data \in Strings, PrivateKeyOf(WholeSequence(data)).kind = "private"
    PROVE  LET k == PrivateKeyOf(WholeSequence(data))
           IN  /\ k.modulus \in Nat /\ k.exponent \in Nat
               /\ WriteInteger(k.modulus) \in Strings /\ WriteInteger(k.exponent) \in Strings
               /\ \E third \in Strings, more \in Strings :
                     LET body == PrivateBody(k.modulus, k.exponent, third, more)
                     IN  /\ Writable(Len(third)) /\ Writable(Len(body)) /\ body \in Strings
                         /\ data = WriteTlv(Tag.SEQUENCE, body)
<1> DEFINE items == WholeSequence(data)
           z == ReadInteger(items[1].value)
           n == ReadInteger(items[2].value)
           d == ReadInteger(items[4].value)
           k == 4
<1>1. /\ \A i \in 1..4 : HasTag(items, i, Tag.INTEGER)
      /\ z = 0 /\ ValidModulus(n) /\ d > 0
      /\ PrivateKeyOf(items) = PrivateKey(n, d)
  BY DEF PrivateKeyOf, NoKey
<1>2. /\ items[1].tag = Tag.INTEGER /\ items[2].tag = Tag.INTEGER
      /\ items[3].tag = Tag.INTEGER /\ items[4].tag = Tag.INTEGER
      /\ 4 <= Len(items)
  BY <1>1 DEF HasTag
<1>3. items # <<NoItem>>
  BY <1>2
<1>4. PICK body \in Strings :
         /\ Writable(Len(body)) /\ data = WriteTlv(Tag.SEQUENCE, body)
         /\ items = SequenceItems(body)
  BY <1>3, WholeWasWritten
<1>5. k \in Nat /\ k <= Len(items) /\ 1 \in 1..k /\ 2 \in 1..k /\ 3 \in 1..k /\ 4 \in 1..k
  BY <1>2
<1> HIDE DEF k, items
<1>6. PICK rests \in [Nat -> Strings] : Begins(body, items, k, rests)
  BY <1>3, <1>4, <1>5, SomeItemsWereWritten
<1>7. /\ rests[1 - 1] = Tlv(items[1]) \o rests[1] /\ rests[2 - 1] = Tlv(items[2]) \o rests[2]
      /\ rests[3 - 1] = Tlv(items[3]) \o rests[3] /\ rests[4 - 1] = Tlv(items[4]) \o rests[4]
  BY <1>5, <1>6 DEF Begins
<1>8. body = Tlv(items[1]) \o (Tlv(items[2]) \o (Tlv(items[3]) \o (Tlv(items[4]) \o rests[4])))
  <2>1. 1 - 1 = 0 /\ 2 - 1 = 1 /\ 3 - 1 = 2 /\ 4 - 1 = 3 /\ rests[0] = body
    BY <1>6 DEF Begins
  <2>2. /\ body = Tlv(items[1]) \o rests[1] /\ rests[1] = Tlv(items[2]) \o rests[2]
        /\ rests[2] = Tlv(items[3]) \o rests[3] /\ rests[3] = Tlv(items[4]) \o rests[4]
    BY <1>7, <2>1
  <2> QED
    BY <2>2, Zenon
<1>9. /\ items[1] \in Items /\ items[2] \in Items /\ items[3] \in Items /\ items[4] \in Items
      /\ Writable(Len(items[3].value))
      /\ Tlv(items[2]) \in Strings /\ Tlv(items[4]) \in Strings
  BY <1>5, <1>6 DEF Begins
<1>10. /\ items[1].value \in Strings /\ items[2].value \in Strings
       /\ items[3].value \in Strings /\ items[4].value \in Strings
  BY <1>9 DEF Items
<1>11. z # NoInteger /\ n # NoInteger /\ d # NoInteger
  BY <1>1 DEF ValidModulus, NoInteger
<1>12. /\ SignedDigits(z) = items[1].value
       /\ n \in Nat /\ SignedDigits(n) = items[2].value
       /\ d \in Nat /\ SignedDigits(d) = items[4].value
  BY <1>10, <1>11, IntegerWasWritten
<1> HIDE DEF n, d, z
<1>13. /\ Tlv(items[1]) = WriteInteger(0) /\ Tlv(items[2]) = WriteInteger(n)
       /\ Tlv(items[3]) = WriteTlv(Tag.INTEGER, items[3].value) /\ Tlv(items[4]) = WriteInteger(d)
  BY <1>1, <1>2, <1>12 DEF Tlv, WriteInteger
<1>14. body = PrivateBody(n, d, items[3].value, rests[4])
  BY <1>8, <1>13, Zenon DEF PrivateBody
<1>15. PrivateKeyOf(items).modulus = n /\ PrivateKeyOf(items).exponent = d
  BY <1>1 DEF PrivateKey
<1>16. rests[4] \in Strings
  OBVIOUS
<1> DEFINE key0 == PrivateKeyOf(items)
<1>17. WriteInteger(n) \in Strings /\ WriteInteger(d) \in Strings
  BY <1>9, <1>13
<1> HIDE DEF key0
<1>18. key0.modulus = n /\ key0.exponent = d
  BY <1>15 DEF key0
<1> QED
  BY <1>4, <1>9, <1>10, <1>12, <1>14, <1>16, <1>17, <1>18 DEF items, key0

LEMMA PrivateNumbersAreParts ==
    ASSUME NEW data \in Strings, PrivateKeyOf(WholeSequence(data)).kind = "private"
    PROVE  LET k == PrivateKeyOf(WholeSequence(data))
           IN  /\ WriteInteger(k.modulus) \in Strings /\ Within(WriteInteger(k.modulus), data)
               /\ WriteInteger(k.exponent) \in Strings /\ Within(WriteInteger(k.exponent), data)
<1> DEFINE k == PrivateKeyOf(WholeSequence(data))
           zero == WriteInteger(0)
           n == WriteInteger(k.modulus)
           d == WriteInteger(k.exponent)
<1>1. PICK third \in Strings, more \in Strings :
         LET body == PrivateBody(k.modulus, k.exponent, third, more)
         IN  /\ Writable(Len(third)) /\ Writable(Len(body)) /\ body \in Strings
             /\ data = WriteTlv(Tag.SEQUENCE, body)
  BY PrivateKeyWasWritten
<1>2. n \in Strings /\ d \in Strings
  BY PrivateKeyWasWritten
<1>3. zero \in Strings
  <2>1. Size(0) = 1
    BY SmallSize, RadixIs
  <2>2. SignedDigits(0) \in Strings /\ Len(SignedDigits(0)) \in 1..2
    <3>1. Digits(0) \in Strings /\ Len(Digits(0)) = 1
      BY <2>1, DigitsType DEF Strings
    <3> DEFINE digits == Digits(0)
               padded == <<0>> \o digits
    <3>2. SignedDigits(0) = IF digits[1] < Half THEN digits ELSE padded
      BY DEF SignedDigits
    <3> HIDE DEF digits
    <3>3. digits \in Strings /\ Len(digits) = 1
      BY <3>1 DEF digits
    <3>4. padded \in Strings /\ Len(padded) = 1 + 1
      BY <3>3, ZeroThen
    <3> HIDE DEF padded
    <3>5. CASE digits[1] < Half
      BY <3>2, <3>3, <3>5
    <3>6. CASE ~ (digits[1] < Half)
      BY <3>2, <3>4, <3>6
    <3> QED
      BY <3>5, <3>6
  <2>3. Writable(Len(SignedDigits(0)))
    <3> DEFINE m == Len(SignedDigits(0))
    <3>1. m \in 1..2
      BY <2>2
    <3> HIDE DEF m
    <3>2. m \in Nat /\ m < Radix
      BY <3>1, RadixIs
    <3>3. Writable(m)
      BY <3>2, SmallSize, RadixIs DEF Writable
    <3> QED
      BY <3>3 DEF m
  <2> QED
    BY <2>2, <2>3, Tags, TlvType DEF WriteInteger
<1> DEFINE unread == WriteTlv(Tag.INTEGER, third)
           body == PrivateBody(k.modulus, k.exponent, third, more)
<1>4. unread \in Strings
  BY <1>1, Tags, TlvType
<1>5. body = zero \o (n \o (unread \o (d \o more)))
  BY DEF PrivateBody
<1>6. body \in Strings /\ Writable(Len(body)) /\ data = WriteTlv(Tag.SEQUENCE, body)
  BY <1>1
<1> HIDE DEF n, d, zero, unread, body
<1> DEFINE tail3 == d \o more
           tail2 == unread \o tail3
           tail1 == n \o tail2
<1>7. tail3 \in Strings /\ Within(d, tail3)
  BY <1>2, WithinConcat, Concat DEF Strings
<1> HIDE DEF tail3
<1>8. tail2 \in Strings /\ Within(d, tail2)
  BY <1>2, <1>4, <1>7, WithinConcat, Concat DEF Strings
<1> HIDE DEF tail2
<1>9. tail1 \in Strings /\ Within(d, tail1) /\ Within(n, tail1)
  BY <1>2, <1>8, WithinConcat, Concat DEF Strings
<1> HIDE DEF tail1
<1>10. body = zero \o tail1
  BY <1>5 DEF tail1, tail2, tail3
<1>11. Within(d, body) /\ Within(n, body)
  BY <1>2, <1>3, <1>9, <1>10, WithinConcat
<1>12. Within(d, data) /\ Within(n, data)
  BY <1>2, <1>6, <1>11, Tags, WithinTlv
<1> QED
  BY <1>2, <1>12 DEF n, d

LEMMA PrivateKeyInfoIsPart ==
    ASSUME NEW der \in Strings, PrivateKeyInfo(WholeSequence(der)) # <<>>
    PROVE  LET inner == PrivateKeyInfo(WholeSequence(der))
           IN  inner \in Strings /\ \A part \in Strings : Within(part, inner) => Within(part, der)
<1> DEFINE items == WholeSequence(der)
           inner == PrivateKeyInfo(items)
<1>1. Len(items) = 3 /\ HasTag(items, 3, Tag.OCTET_STRING) /\ inner = items[3].value
  BY DEF PrivateKeyInfo
<1>2. items # <<NoItem>>
  BY <1>1
<1>3. PICK body \in Strings :
         /\ Writable(Len(body)) /\ der = WriteTlv(Tag.SEQUENCE, body)
         /\ items = SequenceItems(body)
  BY <1>2, WholeWasWritten
<1> HIDE DEF items, inner
<1>4. PICK rests \in [Nat -> Strings] : Begins(body, items, 3, rests)
  <2>1. 3 \in Nat /\ 3 <= Len(items)
    BY <1>1
  <2> QED
    BY <1>2, <1>3, <2>1, SomeItemsWereWritten
<1>5. /\ items[3] \in Items /\ Writable(Len(items[3].value))
      /\ Tlv(items[1]) \in Strings /\ Tlv(items[2]) \in Strings /\ Tlv(items[3]) \in Strings
      /\ rests[1 - 1] = Tlv(items[1]) \o rests[1] /\ rests[2 - 1] = Tlv(items[2]) \o rests[2]
      /\ rests[3 - 1] = Tlv(items[3]) \o rests[3]
  BY <1>4 DEF Begins
<1>6. /\ body = Tlv(items[1]) \o rests[1] /\ rests[1] = Tlv(items[2]) \o rests[2]
      /\ rests[2] = Tlv(items[3]) \o rests[3]
  <2>1. 1 - 1 = 0 /\ 2 - 1 = 1 /\ 3 - 1 = 2 /\ rests[0] = body
    BY <1>4 DEF Begins
  <2> QED
    BY <1>5, <2>1
<1>7. inner \in Strings /\ Tlv(items[3]) = WriteTlv(items[3].tag, inner) /\ items[3].tag \in Bytes
  BY <1>1, <1>5 DEF Items, Tlv
<1>8. rests[1] \in Strings /\ rests[2] \in Strings /\ rests[3] \in Strings
  OBVIOUS
<1>9. ASSUME NEW part \in Strings, Within(part, inner)
      PROVE  Within(part, der)
  <2>1. Within(part, Tlv(items[3]))
    BY <1>1, <1>5, <1>7, <1>9, WithinTlv
  <2>2. Within(part, rests[2])
    BY <1>5, <1>6, <1>8, <2>1, WithinConcat
  <2>3. Within(part, rests[1])
    BY <1>5, <1>6, <1>8, <2>2, WithinConcat
  <2>4. Within(part, body)
    BY <1>5, <1>6, <1>8, <2>3, WithinConcat
  <2> QED
    BY <1>3, <2>4, Tags, WithinTlv
<1> QED
  BY <1>7, <1>9 DEF inner, items

----------------------------------------------------------------------------
(* What is written as a key file is read.                                  *)
LEMMA TlvLength ==
    ASSUME NEW tag \in Nat, NEW value \in Seq(Nat)
    PROVE  /\ WriteTlv(tag, value) \in Seq(Nat)
           /\ Len(WriteTlv(tag, value)) \in Nat /\ Len(value) \in Nat
           /\ Len(WriteTlv(tag, value)) > Len(value) + 1
<1> DEFINE head == WriteLength(Len(value))
<1>1. Len(value) \in Nat
  OBVIOUS
<1>2. head \in Seq(Nat) /\ head # <<>>
  BY <1>1, WriteLengthType
<1>3. WriteTlv(tag, value) = (<<tag>> \o head) \o value
  BY DEF WriteTlv
<1> HIDE DEF head
<1>4. Len(head) \in Nat \ {0}
  BY <1>2, EmptySeq
<1>5. <<tag>> \o head \in Seq(Nat) /\ Len(<<tag>> \o head) = Len(head) + 1
  BY <1>2, HeadAndTail
<1> DEFINE front == <<tag>> \o head
<1> HIDE DEF front
<1>6. front \in Seq(Nat) /\ Len(front) = Len(head) + 1 /\ WriteTlv(tag, value) = front \o value
  BY <1>3, <1>5 DEF front
<1>7. front \o value \in Seq(Nat) /\ Len(front \o value) = Len(front) + Len(value)
  BY <1>6, Concat
<1> QED
  BY <1>1, <1>4, <1>6, <1>7

LEMMA StringsAreNumbers == Strings \subseteq Seq(Nat) /\ Bytes \subseteq Nat
<1>1. Bytes \subseteq Nat
  BY RadixIs DEF Bytes
<1>2. ASSUME NEW s \in Strings
      PROVE  s \in Seq(Nat)
  BY <1>1, SeqMonotonic DEF Strings
<1> QED
  BY <1>1, <1>2

LEMMA IntegerLength ==
    ASSUME NEW n \in Nat
    PROVE  /\ SignedDigits(n) \in Strings /\ WriteInteger(n) \in Seq(Nat)
           /\ Len(SignedDigits(n)) \in Nat /\ Len(WriteInteger(n)) \in Nat
           /\ Len(WriteInteger(n)) > Len(SignedDigits(n)) + 1
<1>1. SignedDigits(n) \in Strings
  BY IntegerIsRead
<1>2. SignedDigits(n) \in Seq(Nat) /\ Tag.INTEGER \in Nat
  BY <1>1, StringsAreNumbers, Tags
<1> QED
  BY <1>1, <1>2, TlvLength DEF WriteInteger

(* What is laid out as items is read as them: the converse of              *)
(* ItemsWereWritten.                                                       *)
LEMMA ItemsAreRead ==
    ASSUME NEW data \in Strings, NEW items \in Seq(Items), NEW rests \in [Nat -> Strings],
           Layout(data, items, rests), rests[Len(items)] = <<>>
    PROVE  SequenceItems(data) = items
<1> DEFINE n == Len(items)
           first(i) == SubSeq(items, 1, i)
           S == {i \in Nat : i <= n => /\ Reads(data, i, first(i), rests[i])
                                       /\ Len(rests[i]) + i <= Len(data)}
<1>1. n \in Nat /\ rests[0] = data /\ \A i \in Nat : Len(rests[i]) \in Nat
  <2>1. \A s \in Strings : Len(s) \in Nat
    BY DEF Strings
  <2> QED
    BY <2>1 DEF Layout
<1>2. 0 \in S
  <2>1. first(0) = <<>>
    BY SubSeqEmpty
  <2>2. Reads(data, 0, <<>>, data)
    BY ReadsNone
  <2>3. Len(rests[0]) + 0 <= Len(data)
    BY <1>1
  <2> HIDE DEF first
  <2> QED
    BY <1>1, <2>1, <2>2, <2>3
<1>3. ASSUME NEW i \in S
      PROVE  i + 1 \in S
  <2>1. SUFFICES ASSUME i + 1 <= n
                 PROVE  /\ Reads(data, i + 1, first(i + 1), rests[i + 1])
                        /\ Len(rests[i + 1]) + (i + 1) <= Len(data)
    <3>1. i + 1 \in Nat
      OBVIOUS
    <3> HIDE DEF first
    <3> QED
      BY <3>1
  <2> DEFINE k == i + 1
             item == items[k]
             tag == item.tag
             value == item.value
  <2>2. /\ i \in Nat /\ k \in 1..n /\ k - 1 = i
        /\ Reads(data, i, first(i), rests[i]) /\ Len(rests[i]) + i <= Len(data)
    <3>1. i \in Nat /\ i <= n
      BY <1>1, <2>1
    <3>2. k \in 1..n /\ k - 1 = i
      BY <1>1, <2>1, <3>1
    <3> HIDE DEF first
    <3> QED
      BY <3>1, <3>2
  <2> HIDE DEF S, k
  <2>3. item \in Items
    BY <2>2, ElementOfSeq
  <2>4. Writable(Len(value)) /\ rests[i] = WriteTlv(tag, value) \o rests[k]
    <3>1. rests[k - 1] = WriteTlv(tag, value) \o rests[k] /\ Writable(Len(value))
      BY <2>2 DEF Layout
    <3> QED
      BY <2>2, <3>1
  <2>5. rests[k] \in Strings
    BY <2>2
  <2>6. first(k) = Append(first(i), item)
    <3>1. SubSeq(items, 1, k) = SubSeq(items, 1, k - 1) \o <<items[k]>>
      <4>1. 1 \in 1..n /\ k \in 1..n
        BY <1>1, <2>2
      <4> QED
        BY <4>1, SubSeqRecursiveSecond
    <3>2. i \in 0..n
      BY <1>1, <2>2
    <3>3. SubSeq(items, 1, i) \in Seq(Items)
      BY <3>2, FromProperties
    <3> DEFINE front == SubSeq(items, 1, i)
    <3> HIDE DEF front, n
    <3>4. Append(front, item) = front \o <<item>>
      BY <2>3, <3>3, AppendIsConcat DEF front
    <3> QED
      BY <2>2, <3>1, <3>4 DEF front
  <2> HIDE DEF first, item, n
  <2> DEFINE whole == [tag |-> tag, value |-> value]
  <2>7. tag \in Bytes /\ value \in Strings /\ item = whole
    BY <2>3 DEF Items
  <2> HIDE DEF tag, value
  <2>8. Reads(data, i + 1, Append(first(i), whole), rests[k])
    <3>1. Reads(data, i, first(i), WriteTlv(tag, value) \o rests[k])
      BY <2>2, <2>4
    <3> DEFINE rest == rests[k]
               some == first(i)
    <3>2. rest \in Strings
      BY <2>5
    <3> HIDE DEF rest, some
    <3>3. Reads(data, i, some, WriteTlv(tag, value) \o rest)
      BY <3>1 DEF rest, some
    <3>4. Reads(data, i + 1, Append(some, [tag |-> tag, value |-> value]), rest)
      BY <2>2, <2>4, <2>7, <3>2, <3>3, ReadsOneMore
    <3> QED
      BY <3>4 DEF rest, some
  <2>9. Len(rests[k]) + k <= Len(data)
    <3> DEFINE tlv == WriteTlv(tag, value)
               rest == rests[k]
    <3>1. tlv \in Strings /\ Len(tlv) > Len(value) + 1 /\ Len(value) \in Nat
      BY <2>4, <2>7, TlvType DEF Strings
    <3>2. Len(tlv) \in Nat /\ rest \in Strings /\ rests[i] = tlv \o rest
      BY <2>4, <2>5, <3>1 DEF Strings
    <3> HIDE DEF tlv
    <3>3. Len(rests[i]) = Len(tlv) + Len(rest)
      BY <3>1, <3>2, Concat DEF Strings
    <3>4. Len(rest) \in Nat /\ Len(data) \in Nat
      BY <1>1, <2>2, <3>2 DEF Strings
    <3> DEFINE a == Len(tlv)
               b == Len(value)
               c == Len(rests[i])
               d == Len(rest)
    <3>5. a \in Nat /\ b \in Nat /\ d \in Nat /\ c = a + d /\ a > b + 1 /\ c + i <= Len(data)
      BY <2>2, <3>1, <3>2, <3>3, <3>4
    <3> HIDE DEF a, b, c, d
    <3>6. d + k <= Len(data)
      <4>1. k = i + 1 /\ i \in Nat
        BY <2>2 DEF k
      <4> QED
        BY <3>4, <3>5, <4>1
    <3> QED
      BY <3>6 DEF d
  <2>10. first(k) = Append(first(i), whole)
    BY <2>6, <2>7
  <2>11. Reads(data, i + 1, first(k), rests[k])
    BY <2>8, <2>10
  <2> QED
    BY <2>9, <2>11 DEF k
<1>4. S = Nat
  <2>1. S \in SUBSET Nat
    OBVIOUS
  <2> HIDE DEF S
  <2> QED
    BY <1>2, <1>3, <2>1, InductiveSet
<1>5. Reads(data, n, first(n), rests[n]) /\ Len(rests[n]) + n <= Len(data)
  <2> HIDE DEF first, n
  <2>1. n \in S
    <3> HIDE DEF S
    <3> QED
      BY <1>1, <1>4
  <2>2. n <= n
    BY <1>1
  <2> QED
    BY <2>1, <2>2
<1>6. first(n) = items
  BY SubSeqFull
<1>7. Reads(data, n, items, <<>>)
  BY <1>5, <1>6
<1>8. n <= Len(data)
  <2>1. Len(rests[n]) = 0 /\ Len(data) \in Nat
    <3>1. Len(data) \in Nat
      BY DEF Strings
    <3> QED
      BY <3>1
  <2> QED
    BY <1>1, <1>5, <2>1
<1> HIDE DEF S, first, n
<1> QED
  BY <1>1, <1>7, <1>8, ReadsAll

LEMMA TlvOfItem ==
    ASSUME NEW item \in Items, Writable(Len(item.value))
    PROVE  Tlv(item) \in Strings /\ Tlv(item) \o <<>> = Tlv(item)
<1>1. item.tag \in Bytes /\ item.value \in Strings
  BY DEF Items
<1>2. Tlv(item) \in Strings
  BY <1>1, TlvType DEF Tlv
<1> QED
  BY <1>2, Concat DEF Strings

LEMMA TwoItemsAreRead ==
    ASSUME NEW a \in Items, Writable(Len(a.value)), NEW b \in Items, Writable(Len(b.value))
    PROVE  SequenceItems(Tlv(a) \o Tlv(b)) = <<a, b>>
<1> DEFINE last == Tlv(b)
           data == Tlv(a) \o last
           items == <<a, b>>
           rests == [i \in Nat |-> IF i = 0 THEN data ELSE IF i = 1 THEN last ELSE <<>>]
<1>1. Tlv(a) \in Strings /\ last \in Strings /\ last \o <<>> = last
  BY TlvOfItem
<1> HIDE DEF last
<1>2. data \in Strings
  BY <1>1, Concat DEF Strings
<1> HIDE DEF data
<1>3. rests \in [Nat -> Strings]
  BY <1>1, <1>2 DEF Strings
<1>4. items \in Seq(Items) /\ Len(items) = 2 /\ items[1] = a /\ items[2] = b
  OBVIOUS
<1>5. /\ rests[0] = data /\ rests[1] = last /\ rests[2] = <<>>
      /\ 1 - 1 = 0 /\ 2 - 1 = 1
  OBVIOUS
<1>6. data = Tlv(a) \o last
  BY DEF data
<1> HIDE DEF rests, items
<1>7. ASSUME NEW i \in 1..Len(items)
      PROVE  Writable(Len(items[i].value)) /\ rests[i - 1] = Tlv(items[i]) \o rests[i]
  <2>1. CASE i = 1
    BY <1>4, <1>5, <1>6, <2>1
  <2>2. CASE i = 2
    <3>1. Tlv(items[2]) = last
      BY <1>4 DEF last
    <3> QED
      BY <1>1, <1>4, <1>5, <2>2, <3>1
  <2>3. i = 1 \/ i = 2
    BY <1>4
  <2> QED
    BY <2>1, <2>2, <2>3
<1>8. Layout(data, items, rests) /\ rests[Len(items)] = <<>>
  BY <1>3, <1>4, <1>5, <1>7 DEF Layout, Tlv
<1>9. SequenceItems(data) = items
  BY <1>2, <1>3, <1>4, <1>8, ItemsAreRead
<1> QED
  BY <1>9 DEF data, last, items

LEMMA ThreeItemsAreRead ==
    ASSUME NEW a \in Items, Writable(Len(a.value)), NEW b \in Items, Writable(Len(b.value)),
           NEW c \in Items, Writable(Len(c.value))
    PROVE  SequenceItems(Tlv(a) \o (Tlv(b) \o Tlv(c))) = <<a, b, c>>
<1> DEFINE r2 == Tlv(c)
           r1 == Tlv(b) \o r2
           data == Tlv(a) \o r1
           items == <<a, b, c>>
           rests == [i \in Nat |-> IF i = 0 THEN data ELSE IF i = 1 THEN r1 ELSE IF i = 2 THEN r2 ELSE <<>>]
<1>1. Tlv(a) \in Strings /\ Tlv(b) \in Strings /\ r2 \in Strings /\ r2 \o <<>> = r2
  BY TlvOfItem
<1> HIDE DEF r2
<1>2. r1 \in Strings
  BY <1>1, Concat DEF Strings
<1> HIDE DEF r1
<1>3. data \in Strings
  BY <1>1, <1>2, Concat DEF Strings
<1> HIDE DEF data
<1>4. rests \in [Nat -> Strings]
  BY <1>1, <1>2, <1>3 DEF Strings
<1>5. items \in Seq(Items) /\ Len(items) = 3 /\ items[1] = a /\ items[2] = b /\ items[3] = c
  OBVIOUS
<1>6. /\ rests[0] = data /\ rests[1] = r1 /\ rests[2] = r2 /\ rests[3] = <<>>
      /\ 1 - 1 = 0 /\ 2 - 1 = 1 /\ 3 - 1 = 2
  OBVIOUS
<1>7. data = Tlv(a) \o r1 /\ r1 = Tlv(b) \o r2
  BY DEF data, r1
<1> HIDE DEF rests, items
<1>8. ASSUME NEW i \in 1..Len(items)
      PROVE  Writable(Len(items[i].value)) /\ rests[i - 1] = Tlv(items[i]) \o rests[i]
  <2>1. CASE i = 1
    BY <1>5, <1>6, <1>7, <2>1
  <2>2. CASE i = 2
    BY <1>5, <1>6, <1>7, <2>2
  <2>3. CASE i = 3
    <3>1. Tlv(items[3]) = r2
      BY <1>5 DEF r2
    <3> QED
      BY <1>1, <1>5, <1>6, <2>3, <3>1
  <2>4. i = 1 \/ i = 2 \/ i = 3
    BY <1>5
  <2> QED
    BY <2>1, <2>2, <2>3, <2>4
<1>9. Layout(data, items, rests) /\ rests[Len(items)] = <<>>
  BY <1>4, <1>5, <1>6, <1>8 DEF Layout, Tlv
<1>10. SequenceItems(data) = items
  BY <1>3, <1>4, <1>5, <1>9, ItemsAreRead
<1> QED
  BY <1>10 DEF data, r1, r2, items

FiveItems(a, b, c, d, e) ==
    SequenceItems(Tlv(a) \o (Tlv(b) \o (Tlv(c) \o (Tlv(d) \o Tlv(e))))) = <<a, b, c, d, e>>

LEMMA FiveItemsAreRead ==
    ASSUME NEW a \in Items, Writable(Len(a.value)), NEW b \in Items, Writable(Len(b.value)),
           NEW c \in Items, Writable(Len(c.value)), NEW d \in Items, Writable(Len(d.value)),
           NEW e \in Items, Writable(Len(e.value))
    PROVE  FiveItems(a, b, c, d, e)
<1> DEFINE r4 == Tlv(e)
           r3 == Tlv(d) \o r4
           r2 == Tlv(c) \o r3
           r1 == Tlv(b) \o r2
           data == Tlv(a) \o r1
           items == <<a, b, c, d, e>>
           rests == [i \in Nat |-> IF i = 0 THEN data ELSE IF i = 1 THEN r1 ELSE IF i = 2 THEN r2
                                   ELSE IF i = 3 THEN r3 ELSE IF i = 4 THEN r4 ELSE <<>>]
<1>1. /\ Tlv(a) \in Strings /\ Tlv(b) \in Strings /\ Tlv(c) \in Strings /\ Tlv(d) \in Strings
      /\ r4 \in Strings /\ r4 \o <<>> = r4
  BY TlvOfItem
<1> HIDE DEF r4
<1>2. r3 \in Strings
  BY <1>1, Concat DEF Strings
<1> HIDE DEF r3
<1>3. r2 \in Strings
  BY <1>1, <1>2, Concat DEF Strings
<1> HIDE DEF r2
<1>4. r1 \in Strings
  BY <1>1, <1>3, Concat DEF Strings
<1> HIDE DEF r1
<1>5. data \in Strings
  BY <1>1, <1>4, Concat DEF Strings
<1> HIDE DEF data
<1>6. rests \in [Nat -> Strings]
  BY <1>1, <1>2, <1>3, <1>4, <1>5 DEF Strings
<1>7. /\ items \in Seq(Items) /\ Len(items) = 5
      /\ items[1] = a /\ items[2] = b /\ items[3] = c /\ items[4] = d /\ items[5] = e
  OBVIOUS
<1>8. /\ rests[0] = data /\ rests[1] = r1 /\ rests[2] = r2 /\ rests[3] = r3 /\ rests[4] = r4
      /\ rests[5] = <<>>
      /\ 1 - 1 = 0 /\ 2 - 1 = 1 /\ 3 - 1 = 2 /\ 4 - 1 = 3 /\ 5 - 1 = 4
  OBVIOUS
<1>9. data = Tlv(a) \o r1 /\ r1 = Tlv(b) \o r2 /\ r2 = Tlv(c) \o r3 /\ r3 = Tlv(d) \o r4
  BY DEF data, r1, r2, r3
<1> HIDE DEF rests, items
<1>10. ASSUME NEW i \in 1..Len(items)
       PROVE  Writable(Len(items[i].value)) /\ rests[i - 1] = Tlv(items[i]) \o rests[i]
  <2>1. CASE i = 1
    BY <1>7, <1>8, <1>9, <2>1
  <2>2. CASE i = 2
    BY <1>7, <1>8, <1>9, <2>2
  <2>3. CASE i = 3
    BY <1>7, <1>8, <1>9, <2>3
  <2>4. CASE i = 4
    BY <1>7, <1>8, <1>9, <2>4
  <2>5. CASE i = 5
    <3>1. Tlv(items[5]) = r4
      BY <1>7 DEF r4
    <3> QED
      BY <1>1, <1>7, <1>8, <2>5, <3>1
  <2>6. i = 1 \/ i = 2 \/ i = 3 \/ i = 4 \/ i = 5
    BY <1>7
  <2> QED
    BY <2>1, <2>2, <2>3, <2>4, <2>5, <2>6
<1>11. Layout(data, items, rests) /\ rests[Len(items)] = <<>>
  BY <1>6, <1>7, <1>8, <1>10 DEF Layout, Tlv
<1>12. SequenceItems(data) = items
  BY <1>5, <1>6, <1>7, <1>11, ItemsAreRead
<1> QED
  BY <1>12 DEF data, r1, r2, r3, r4, items, FiveItems

----------------------------------------------------------------------------
(* What fits into a file fits into its length.                             *)
LEMMA PartsFit ==
    ASSUME NEW s \in Seq(Nat), NEW t \in Seq(Nat)
    PROVE  /\ s \o t \in Seq(Nat) /\ Len(s \o t) \in Nat
           /\ Len(s) <= Len(s \o t) /\ Len(t) <= Len(s \o t)
<1>1. s \o t \in Seq(Nat) /\ Len(s \o t) = Len(s) + Len(t) /\ Len(s) \in Nat /\ Len(t) \in Nat
  BY Concat
<1> QED
  BY <1>1

LEMMA ItemFits ==
    ASSUME NEW tag \in Bytes, NEW value \in Strings,
           NEW room, Writable(room), Len(WriteTlv(tag, value)) <= room
    PROVE  LET item == [tag |-> tag, value |-> value]
           IN  /\ item \in Items /\ Writable(Len(item.value))
               /\ Tlv(item) = WriteTlv(tag, value) /\ WriteTlv(tag, value) \in Strings
<1>1. tag \in Nat /\ value \in Seq(Nat) /\ room \in Nat
  BY StringsAreNumbers DEF Writable
<1>2. /\ Len(WriteTlv(tag, value)) \in Nat /\ Len(value) \in Nat
      /\ Len(WriteTlv(tag, value)) > Len(value) + 1
  BY <1>1, TlvLength
<1>3. Len(value) <= room
  BY <1>1, <1>2
<1>4. Writable(Len(value))
  BY <1>2, <1>3, WritableLess
<1>5. WriteTlv(tag, value) \in Strings
  BY <1>4, TlvType
<1> QED
  BY <1>4, <1>5 DEF Items, Tlv

IntegerItem(n) == [tag |-> Tag.INTEGER, value |-> SignedDigits(n)]

LEMMA IntegerFits ==
    ASSUME NEW n \in Nat, NEW room, Writable(room), Len(WriteInteger(n)) <= room
    PROVE  /\ IntegerItem(n) \in Items /\ Writable(Len(IntegerItem(n).value))
           /\ Tlv(IntegerItem(n)) = WriteInteger(n) /\ WriteInteger(n) \in Strings
           /\ IntegerItem(n).tag = Tag.INTEGER /\ ReadInteger(IntegerItem(n).value) = n
<1>1. SignedDigits(n) \in Strings /\ ReadInteger(SignedDigits(n)) = n
  BY IntegerIsRead
<1>2. Len(WriteTlv(Tag.INTEGER, SignedDigits(n))) <= room
  BY DEF WriteInteger
<1>3. /\ IntegerItem(n) \in Items /\ Writable(Len(IntegerItem(n).value))
      /\ Tlv(IntegerItem(n)) = WriteInteger(n) /\ WriteInteger(n) \in Strings
  BY <1>1, <1>2, Tags, ItemFits DEF IntegerItem, WriteInteger
<1> QED
  BY <1>1, <1>3 DEF IntegerItem

LEMMA PublicKeyIsRead ==
    ASSUME NEW n \in Nat, NEW e \in Nat, ValidModulus(n), ValidPublicExponent(e),
           Writable(Len(WritePublic("PKCS#1", n, e)))
    PROVE  /\ WritePublic("PKCS#1", n, e) \in Strings
           /\ PublicKeyOf(WholeSequence(WritePublic("PKCS#1", n, e))) = PublicKey(n, e)
<1> DEFINE body == WriteInteger(n) \o WriteInteger(e)
           file == WriteTlv(Tag.SEQUENCE, body)
           room == Len(file)
           items == <<IntegerItem(n), IntegerItem(e)>>
<1>1. WritePublic("PKCS#1", n, e) = file
  BY DEF WritePublic
<1>2. WriteInteger(n) \in Seq(Nat) /\ WriteInteger(e) \in Seq(Nat)
  BY IntegerLength
<1>3. /\ body \in Seq(Nat) /\ Len(body) \in Nat
      /\ Len(WriteInteger(n)) <= Len(body) /\ Len(WriteInteger(e)) <= Len(body)
  BY <1>2, PartsFit
<1>4. room \in Nat /\ room > Len(body) + 1
  <2>1. Tag.SEQUENCE \in Nat
    BY Tags, StringsAreNumbers
  <2> HIDE DEF body
  <2> QED
    BY <1>3, <2>1, TlvLength
<1>5. Writable(room)
  BY <1>1
<1>6. /\ Len(WriteInteger(n)) \in Nat /\ Len(WriteInteger(e)) \in Nat
  BY IntegerLength
<1> HIDE DEF room, file, body
<1>7. Len(WriteInteger(n)) <= room /\ Len(WriteInteger(e)) <= room /\ Len(body) <= room
  BY <1>3, <1>4, <1>6
<1>8. /\ IntegerItem(n) \in Items /\ Writable(Len(IntegerItem(n).value))
      /\ Tlv(IntegerItem(n)) = WriteInteger(n) /\ WriteInteger(n) \in Strings
      /\ IntegerItem(n).tag = Tag.INTEGER /\ ReadInteger(IntegerItem(n).value) = n
  BY <1>5, <1>7, IntegerFits
<1>9. /\ IntegerItem(e) \in Items /\ Writable(Len(IntegerItem(e).value))
      /\ Tlv(IntegerItem(e)) = WriteInteger(e) /\ WriteInteger(e) \in Strings
      /\ IntegerItem(e).tag = Tag.INTEGER /\ ReadInteger(IntegerItem(e).value) = e
  BY <1>5, <1>7, IntegerFits
<1>10. body \in Strings /\ Writable(Len(body))
  <2>1. body \in Strings
    BY <1>8, <1>9, Concat DEF Strings, body
  <2> QED
    BY <1>3, <1>5, <1>7, <2>1, WritableLess
<1>11. file \in Strings
  BY <1>10, Tags, TlvType DEF file
<1>12. WholeSequence(file) = items
  <2>1. SequenceItems(body) = items
    <3>1. SequenceItems(Tlv(IntegerItem(n)) \o Tlv(IntegerItem(e))) = items
      BY <1>8, <1>9, TwoItemsAreRead
    <3> QED
      BY <1>8, <1>9, <3>1 DEF body
  <2> HIDE DEF items
  <2> QED
    BY <1>10, <2>1, WholeIsRead DEF file
<1>13. Len(items) = 2 /\ items[1] = IntegerItem(n) /\ items[2] = IntegerItem(e)
  OBVIOUS
<1> HIDE DEF items
<1>14. PublicKeyOf(items) = PublicKey(n, e)
  <2>1. HasTag(items, 1, Tag.INTEGER) /\ HasTag(items, 2, Tag.INTEGER)
    BY <1>8, <1>9, <1>13 DEF HasTag
  <2>2. ReadInteger(items[1].value) = n /\ ReadInteger(items[2].value) = e
    BY <1>8, <1>9, <1>13
  <2> QED
    BY <1>13, <2>1, <2>2 DEF PublicKeyOf
<1> QED
  BY <1>1, <1>11, <1>12, <1>14

(* The algorithm's parts are short. *)
AlgorithmBody == WriteTlv(Tag.OID, RsaOid) \o WriteTlv(Tag.NULL, <<>>)

LEMMA ShortStrings ==
    /\ <<>> \in Strings /\ Len(<<>>) = 0 /\ Writable(0)
    /\ RsaOid \in Strings /\ Len(RsaOid) = 1 /\ Writable(1)
<1>1. <<>> \in Strings /\ Len(<<>>) = 0
  BY DEF Strings
<1>2. RsaOid \in Strings /\ Len(RsaOid) = 1
  <2>1. 1 \in Bytes
    BY RadixIs DEF Bytes
  <2> QED
    BY <2>1 DEF Strings, RsaOid
<1>3. \A n \in 0..1 : Writable(n)
  <2> SUFFICES ASSUME NEW n \in 0..1
               PROVE  Writable(n)
    OBVIOUS
  <2>1. n \in Nat /\ n < Radix
    BY RadixIs
  <2>2. Size(n) = 1
    BY <2>1, SmallSize
  <2> QED
    BY <2>1, <2>2, RadixIs DEF Writable
<1> QED
  BY <1>1, <1>2, <1>3

LEMMA AlgorithmIsRead ==
    /\ AlgorithmBody \in Strings
    /\ WriteAlgorithm = WriteTlv(Tag.SEQUENCE, AlgorithmBody)
    /\ RsaAlgorithm(SequenceItems(AlgorithmBody))
<1> DEFINE oid == [tag |-> Tag.OID, value |-> RsaOid]
           null == [tag |-> Tag.NULL, value |-> <<>>]
           items == <<oid, null>>
<1>1. oid \in Items /\ Writable(Len(oid.value)) /\ null \in Items /\ Writable(Len(null.value))
  BY ShortStrings, Tags DEF Items
<1>2. AlgorithmBody = Tlv(oid) \o Tlv(null)
  BY DEF AlgorithmBody, Tlv
<1>3. Tlv(oid) \in Strings /\ Tlv(null) \in Strings
  BY <1>1, TlvOfItem
<1>4. AlgorithmBody \in Strings
  BY <1>2, <1>3, Concat DEF Strings
<1>5. oid.tag = Tag.OID /\ oid.value = RsaOid /\ null.tag = Tag.NULL /\ null.value = <<>>
  OBVIOUS
<1> HIDE DEF oid, null
<1>6. SequenceItems(AlgorithmBody) = items
  BY <1>1, <1>2, TwoItemsAreRead
<1>7. Len(items) = 2 /\ items[1] = oid /\ items[2] = null
  OBVIOUS
<1> HIDE DEF items
<1>8. RsaAlgorithm(items)
  BY <1>5, <1>7 DEF RsaAlgorithm, HasTag
<1> QED
  BY <1>4, <1>6, <1>8 DEF WriteAlgorithm, AlgorithmBody

LEMMA WrappedPublicKeyIsRead ==
    ASSUME NEW n \in Nat, NEW e \in Nat, ValidModulus(n), ValidPublicExponent(e),
           Writable(Len(WritePublic("PKCS#1", n, e))),
           Writable(Len(WritePublic("wrapped", n, e)))
    PROVE  /\ WritePublic("wrapped", n, e) \in Strings
           /\ PublicKeyOf(WholeSequence(SubjectPublicKey(WholeSequence(WritePublic("wrapped", n, e)))))
                 = PublicKey(n, e)
<1> DEFINE bare == WritePublic("PKCS#1", n, e)
           padded == <<0>> \o bare
           algorithm == [tag |-> Tag.SEQUENCE, value |-> AlgorithmBody]
           bits == [tag |-> Tag.BIT_STRING, value |-> padded]
           first == WriteTlv(Tag.SEQUENCE, AlgorithmBody)
           second == WriteTlv(Tag.BIT_STRING, padded)
           body == first \o second
           file == WriteTlv(Tag.SEQUENCE, body)
           room == Len(file)
           items == <<algorithm, bits>>
<1>1. bare \in Strings /\ PublicKeyOf(WholeSequence(bare)) = PublicKey(n, e)
  BY PublicKeyIsRead
<1>2. WritePublic("wrapped", n, e) = file
  BY AlgorithmIsRead DEF WritePublic
<1>3. Writable(room)
  BY <1>2
<1> HIDE DEF bare
<1>4. padded \in Strings /\ padded # <<>> /\ padded[1] = 0 /\ Tail(padded) = bare
  <2>1. 0 \in Bytes
    BY RadixIs DEF Bytes
  <2> QED
    BY <1>1, <2>1, HeadAndTail DEF Strings
<1>5. AlgorithmBody \in Strings
  BY AlgorithmIsRead
<1> HIDE DEF padded
<1>6. first \in Seq(Nat) /\ second \in Seq(Nat)
  BY <1>4, <1>5, Tags, TlvType
<1> HIDE DEF first, second
<1>7. /\ body \in Seq(Nat) /\ Len(body) \in Nat
      /\ Len(first) <= Len(body) /\ Len(second) <= Len(body)
  BY <1>6, PartsFit
<1>8. room \in Nat /\ room > Len(body) + 1
  <2>1. Tag.SEQUENCE \in Nat
    BY Tags, StringsAreNumbers
  <2> HIDE DEF body
  <2> QED
    BY <1>7, <2>1, TlvLength
<1>9. Len(first) \in Nat /\ Len(second) \in Nat
  BY <1>6
<1> HIDE DEF room, file, body
<1>10. Len(first) <= room /\ Len(second) <= room /\ Len(body) <= room
  BY <1>7, <1>8, <1>9
<1>11. /\ algorithm \in Items /\ Writable(Len(algorithm.value))
       /\ Tlv(algorithm) = first /\ first \in Strings
  BY <1>3, <1>5, <1>10, Tags, ItemFits DEF first
<1>12. /\ bits \in Items /\ Writable(Len(bits.value))
       /\ Tlv(bits) = second /\ second \in Strings
  BY <1>3, <1>4, <1>10, Tags, ItemFits DEF second
<1>13. body \in Strings /\ Writable(Len(body))
  <2>1. body \in Strings
    BY <1>11, <1>12, Concat DEF Strings, body
  <2> QED
    BY <1>3, <1>7, <1>10, <2>1, WritableLess
<1>14. file \in Strings
  BY <1>13, Tags, TlvType DEF file
<1>15. /\ algorithm.tag = Tag.SEQUENCE /\ algorithm.value = AlgorithmBody
       /\ bits.tag = Tag.BIT_STRING /\ bits.value = padded
  OBVIOUS
<1> HIDE DEF algorithm, bits
<1>16. WholeSequence(file) = items
  <2>1. SequenceItems(body) = items
    BY <1>11, <1>12, TwoItemsAreRead DEF body
  <2> HIDE DEF items
  <2> QED
    BY <1>13, <2>1, WholeIsRead DEF file
<1>17. Len(items) = 2 /\ items[1] = algorithm /\ items[2] = bits
  OBVIOUS
<1> HIDE DEF items
<1>18. SubjectPublicKey(items) = bare
  <2>1. HasTag(items, 1, Tag.SEQUENCE) /\ HasTag(items, 2, Tag.BIT_STRING)
    BY <1>15, <1>17 DEF HasTag
  <2>2. RsaAlgorithm(SequenceItems(items[1].value))
    BY <1>15, <1>17, AlgorithmIsRead
  <2> QED
    BY <1>4, <1>15, <1>17, <2>1, <2>2 DEF SubjectPublicKey
<1> QED
  BY <1>1, <1>2, <1>14, <1>16, <1>18

Joined(s, t) == s \o t
ThreeParts(a, b, c) == (a \o b) \o c = a \o (b \o c)
FiveParts(a, b, c, d, e) == (((a \o b) \o c) \o d) \o e = a \o (b \o (c \o (d \o e)))

LEMMA JoinedIsAssociative ==
    ASSUME NEW S, NEW s \in Seq(S), NEW t \in Seq(S), NEW u \in Seq(S)
    PROVE  Joined(Joined(s, t), u) = Joined(s, Joined(t, u))
BY ConcatAssociative DEF Joined

LEMMA NumbersInParts ==
    ASSUME NEW a \in Seq(Nat), NEW b \in Seq(Nat), NEW c \in Seq(Nat), NEW d \in Seq(Nat), NEW e \in Seq(Nat)
    PROVE  ThreeParts(a, b, c) /\ FiveParts(a, b, c, d, e)
<1> DEFINE S == Nat
           T == Seq(S)
<1>1. a \in T /\ b \in T /\ c \in T /\ d \in T /\ e \in T
  OBVIOUS
<1> HIDE DEF S
<1>2. ASSUME NEW s \in T, NEW t \in T PROVE Joined(s, t) \in T
  BY Concat DEF Joined
<1>3. ASSUME NEW s \in T, NEW t \in T, NEW u \in T
      PROVE  Joined(Joined(s, t), u) = Joined(s, Joined(t, u))
  BY JoinedIsAssociative
<1> HIDE DEF T
<1>4. Joined(Joined(a, b), c) = Joined(a, Joined(b, c))
  BY <1>1, <1>3
<1>5. Joined(a, b) \in T /\ Joined(d, e) \in T
  BY <1>1, <1>2
<1>6. Joined(Joined(a, b), c) \in T /\ Joined(c, Joined(d, e)) \in T
  BY <1>1, <1>2, <1>5
<1>7. Joined(Joined(Joined(Joined(a, b), c), d), e) = Joined(Joined(Joined(a, b), c), Joined(d, e))
  BY <1>1, <1>3, <1>6
<1>8. Joined(Joined(Joined(a, b), c), Joined(d, e)) = Joined(Joined(a, b), Joined(c, Joined(d, e)))
  BY <1>1, <1>3, <1>5
<1>9. Joined(Joined(a, b), Joined(c, Joined(d, e))) = Joined(a, Joined(b, Joined(c, Joined(d, e))))
  BY <1>1, <1>3, <1>6
<1>10. Joined(Joined(Joined(Joined(a, b), c), d), e) = Joined(a, Joined(b, Joined(c, Joined(d, e))))
  BY <1>7, <1>8, <1>9
<1> QED
  BY <1>4, <1>10, Zenon DEF Joined, ThreeParts, FiveParts

LEMMA PrivateKeyIsRead ==
    ASSUME NEW n \in Nat, NEW e \in Nat, NEW d \in Nat, NEW p \in Nat, ValidModulus(n), d > 0,
           Writable(Len(WritePrivate("PKCS#1", n, e, d, p)))
    PROVE  /\ WritePrivate("PKCS#1", n, e, d, p) \in Strings
           /\ PrivateKeyOf(WholeSequence(WritePrivate("PKCS#1", n, e, d, p))) = PrivateKey(n, d)
<1> DEFINE z == WriteInteger(0)
           wn == WriteInteger(n)
           we == WriteInteger(e)
           wd == WriteInteger(d)
           wp == WriteInteger(p)
           r3 == wd \o wp
           r2 == we \o r3
           r1 == wn \o r2
           body == z \o r1
           file == WriteTlv(Tag.SEQUENCE, body)
           room == Len(file)
           items == <<IntegerItem(0), IntegerItem(n), IntegerItem(e), IntegerItem(d), IntegerItem(p)>>
<1>1. /\ z \in Seq(Nat) /\ wn \in Seq(Nat) /\ we \in Seq(Nat) /\ wd \in Seq(Nat) /\ wp \in Seq(Nat)
  BY IntegerLength
<1>2. WritePrivate("PKCS#1", n, e, d, p) = file
  <2>1. WritePrivate("PKCS#1", n, e, d, p) = WriteTlv(Tag.SEQUENCE, (((z \o wn) \o we) \o wd) \o wp)
    BY DEF WritePrivate
  <2>2. (((z \o wn) \o we) \o wd) \o wp = z \o (wn \o (we \o (wd \o wp)))
    <3> HIDE DEF z, wn, we, wd, wp
    <3>1. FiveParts(z, wn, we, wd, wp)
      BY <1>1, NumbersInParts
    <3> QED
      BY <3>1, Zenon DEF FiveParts
  <2> QED
    BY <2>1, <2>2
<1>3. Writable(room)
  BY <1>2
<1> HIDE DEF z, wn, we, wd, wp
<1>4. /\ r3 \in Seq(Nat) /\ Len(r3) \in Nat /\ Len(wd) <= Len(r3) /\ Len(wp) <= Len(r3)
  BY <1>1, PartsFit
<1> HIDE DEF r3
<1>5. /\ r2 \in Seq(Nat) /\ Len(r2) \in Nat /\ Len(we) <= Len(r2) /\ Len(r3) <= Len(r2)
  BY <1>1, <1>4, PartsFit
<1> HIDE DEF r2
<1>6. /\ r1 \in Seq(Nat) /\ Len(r1) \in Nat /\ Len(wn) <= Len(r1) /\ Len(r2) <= Len(r1)
  BY <1>1, <1>5, PartsFit
<1> HIDE DEF r1
<1>7. /\ body \in Seq(Nat) /\ Len(body) \in Nat /\ Len(z) <= Len(body) /\ Len(r1) <= Len(body)
  BY <1>1, <1>6, PartsFit
<1> HIDE DEF body
<1>8. room \in Nat /\ room > Len(body) + 1
  <2>1. Tag.SEQUENCE \in Nat
    BY Tags, StringsAreNumbers
  <2> QED
    BY <1>7, <2>1, TlvLength
<1> HIDE DEF room, file
<1>9. /\ Len(z) \in Nat /\ Len(wn) \in Nat /\ Len(we) \in Nat /\ Len(wd) \in Nat /\ Len(wp) \in Nat
  BY <1>1
<1>10. /\ Len(z) <= room /\ Len(wn) <= room /\ Len(we) <= room /\ Len(wd) <= room
       /\ Len(wp) <= room /\ Len(body) <= room
  <2> DEFINE a == Len(r1)
             b == Len(r2)
             c == Len(r3)
             t == Len(body)
  <2>1. a \in Nat /\ b \in Nat /\ c \in Nat /\ t \in Nat /\ room \in Nat /\ t <= room
    BY <1>4, <1>5, <1>6, <1>7, <1>8
  <2>2. a <= t /\ b <= a /\ c <= b
    BY <1>5, <1>6, <1>7
  <2>3. a <= room /\ b <= room /\ c <= room
    <3> HIDE DEF a, b, c, t
    <3> QED
      BY <2>1, <2>2
  <2>4. Len(z) <= t /\ Len(wn) <= a /\ Len(we) <= b /\ Len(wd) <= c /\ Len(wp) <= c
    BY <1>4, <1>5, <1>6, <1>7
  <2> QED
    BY <1>9, <2>1, <2>3, <2>4
<1>11. 0 \in Nat
  OBVIOUS
<1>12. /\ IntegerItem(0) \in Items /\ Writable(Len(IntegerItem(0).value))
       /\ Tlv(IntegerItem(0)) = z /\ z \in Strings
       /\ IntegerItem(0).tag = Tag.INTEGER /\ ReadInteger(IntegerItem(0).value) = 0
  BY <1>3, <1>10, <1>11, IntegerFits DEF z
<1>13. /\ IntegerItem(n) \in Items /\ Writable(Len(IntegerItem(n).value))
       /\ Tlv(IntegerItem(n)) = wn /\ wn \in Strings
       /\ IntegerItem(n).tag = Tag.INTEGER /\ ReadInteger(IntegerItem(n).value) = n
  BY <1>3, <1>10, IntegerFits DEF wn
<1>14. /\ IntegerItem(e) \in Items /\ Writable(Len(IntegerItem(e).value))
       /\ Tlv(IntegerItem(e)) = we /\ we \in Strings
       /\ IntegerItem(e).tag = Tag.INTEGER
  BY <1>3, <1>10, IntegerFits DEF we
<1>15. /\ IntegerItem(d) \in Items /\ Writable(Len(IntegerItem(d).value))
       /\ Tlv(IntegerItem(d)) = wd /\ wd \in Strings
       /\ IntegerItem(d).tag = Tag.INTEGER /\ ReadInteger(IntegerItem(d).value) = d
  BY <1>3, <1>10, IntegerFits DEF wd
<1>16. /\ IntegerItem(p) \in Items /\ Writable(Len(IntegerItem(p).value))
       /\ Tlv(IntegerItem(p)) = wp /\ wp \in Strings
  BY <1>3, <1>10, IntegerFits DEF wp
<1>17. body \in Strings /\ Writable(Len(body))
  <2>1. r3 \in Strings
    BY <1>15, <1>16, Concat DEF Strings, r3
  <2>2. r2 \in Strings
    BY <1>14, <2>1, Concat DEF Strings, r2
  <2>3. r1 \in Strings
    BY <1>13, <2>2, Concat DEF Strings, r1
  <2>4. body \in Strings
    BY <1>12, <2>3, Concat DEF Strings, body
  <2> QED
    BY <1>3, <1>7, <1>10, <2>4, WritableLess
<1>18. file \in Strings
  BY <1>17, Tags, TlvType DEF file
<1>19. WholeSequence(file) = items
  <2>1. SequenceItems(body) = items
    <3>1. SequenceItems(Tlv(IntegerItem(0)) \o (Tlv(IntegerItem(n)) \o (Tlv(IntegerItem(e))
             \o (Tlv(IntegerItem(d)) \o Tlv(IntegerItem(p)))))) = items
      <4>1. FiveItems(IntegerItem(0), IntegerItem(n), IntegerItem(e), IntegerItem(d), IntegerItem(p))
        BY <1>12, <1>13, <1>14, <1>15, <1>16, FiveItemsAreRead
      <4> QED
        BY <4>1 DEF FiveItems
    <3>2. body = z \o (wn \o (we \o (wd \o wp)))
      BY DEF body, r1, r2, r3
    <3> HIDE DEF items
    <3> QED
      BY <1>12, <1>13, <1>14, <1>15, <1>16, <3>1, <3>2, Zenon
  <2> HIDE DEF items
  <2> QED
    BY <1>17, <2>1, WholeIsRead DEF file
<1>20. /\ Len(items) = 5
       /\ items[1] = IntegerItem(0) /\ items[2] = IntegerItem(n) /\ items[3] = IntegerItem(e)
       /\ items[4] = IntegerItem(d)
  OBVIOUS
<1> HIDE DEF items
<1>21. PrivateKeyOf(items) = PrivateKey(n, d)
  <2>1. /\ HasTag(items, 1, Tag.INTEGER) /\ HasTag(items, 2, Tag.INTEGER)
        /\ HasTag(items, 3, Tag.INTEGER) /\ HasTag(items, 4, Tag.INTEGER)
    BY <1>12, <1>13, <1>14, <1>15, <1>20 DEF HasTag
  <2>2. \A i \in 1..4 : HasTag(items, i, Tag.INTEGER)
    <3>1. \A i \in 1..4 : i = 1 \/ i = 2 \/ i = 3 \/ i = 4
      OBVIOUS
    <3> QED
      BY <2>1, <3>1
  <2>3. /\ ReadInteger(items[1].value) = 0 /\ ReadInteger(items[2].value) = n
        /\ ReadInteger(items[4].value) = d
    BY <1>12, <1>13, <1>15, <1>20
  <2> QED
    BY <2>2, <2>3 DEF PrivateKeyOf
<1> QED
  BY <1>2, <1>18, <1>19, <1>21

LEMMA WrappedPrivateKeyIsRead ==
    ASSUME NEW n \in Nat, NEW e \in Nat, NEW d \in Nat, NEW p \in Nat, ValidModulus(n), d > 0,
           Writable(Len(WritePrivate("PKCS#1", n, e, d, p))),
           Writable(Len(WritePrivate("wrapped", n, e, d, p)))
    PROVE  /\ WritePrivate("wrapped", n, e, d, p) \in Strings
           /\ PrivateKeyOf(WholeSequence(PrivateKeyInfo(WholeSequence(
                  WritePrivate("wrapped", n, e, d, p))))) = PrivateKey(n, d)
<1> DEFINE bare == WritePrivate("PKCS#1", n, e, d, p)
           zero == IntegerItem(0)
           algorithm == [tag |-> Tag.SEQUENCE, value |-> AlgorithmBody]
           octets == [tag |-> Tag.OCTET_STRING, value |-> bare]
           first == WriteInteger(0)
           second == WriteTlv(Tag.SEQUENCE, AlgorithmBody)
           third == WriteTlv(Tag.OCTET_STRING, bare)
           tail == second \o third
           body == first \o tail
           file == WriteTlv(Tag.SEQUENCE, body)
           room == Len(file)
           items == <<zero, algorithm, octets>>
<1>1. bare \in Strings /\ PrivateKeyOf(WholeSequence(bare)) = PrivateKey(n, d)
  BY PrivateKeyIsRead
<1>2. AlgorithmBody \in Strings
  BY AlgorithmIsRead
<1>3. WritePrivate("wrapped", n, e, d, p) = WriteTlv(Tag.SEQUENCE, (first \o second) \o third)
  BY AlgorithmIsRead DEF WritePrivate
<1> HIDE DEF bare
<1>4. first \in Seq(Nat) /\ second \in Seq(Nat) /\ third \in Seq(Nat)
  <2>1. first \in Seq(Nat)
    BY IntegerLength
  <2> QED
    BY <1>1, <1>2, <2>1, Tags, TlvType
<1> HIDE DEF first, second, third
<1>5. WritePrivate("wrapped", n, e, d, p) = file
  <2>1. (first \o second) \o third = first \o (second \o third)
    <3>1. ThreeParts(first, second, third)
      BY <1>4, NumbersInParts
    <3> QED
      BY <3>1, Zenon DEF ThreeParts
  <2> QED
    BY <1>3, <2>1
<1>6. Writable(room)
  BY <1>5
<1>7. tail \in Seq(Nat) /\ Len(tail) \in Nat /\ Len(second) <= Len(tail) /\ Len(third) <= Len(tail)
  BY <1>4, PartsFit
<1> HIDE DEF tail
<1>8. body \in Seq(Nat) /\ Len(body) \in Nat /\ Len(first) <= Len(body) /\ Len(tail) <= Len(body)
  BY <1>4, <1>7, PartsFit
<1> HIDE DEF body
<1>9. room \in Nat /\ room > Len(body) + 1
  <2>1. Tag.SEQUENCE \in Nat
    BY Tags, StringsAreNumbers
  <2> QED
    BY <1>8, <2>1, TlvLength
<1>10. Len(first) \in Nat /\ Len(second) \in Nat /\ Len(third) \in Nat
  BY <1>4
<1> HIDE DEF room, file
<1>11. /\ Len(first) <= room /\ Len(second) <= room /\ Len(third) <= room /\ Len(body) <= room
  BY <1>7, <1>8, <1>9, <1>10
<1>12. 0 \in Nat
  OBVIOUS
<1>13. /\ zero \in Items /\ Writable(Len(zero.value)) /\ Tlv(zero) = first /\ first \in Strings
       /\ zero.tag = Tag.INTEGER /\ ReadInteger(zero.value) = 0
  BY <1>6, <1>11, <1>12, IntegerFits DEF first
<1>14. /\ algorithm \in Items /\ Writable(Len(algorithm.value))
       /\ Tlv(algorithm) = second /\ second \in Strings
  BY <1>2, <1>6, <1>11, Tags, ItemFits DEF second
<1>15. /\ octets \in Items /\ Writable(Len(octets.value))
       /\ Tlv(octets) = third /\ third \in Strings
  BY <1>1, <1>6, <1>11, Tags, ItemFits DEF third
<1>16. body \in Strings /\ Writable(Len(body))
  <2>1. tail \in Strings
    BY <1>14, <1>15, Concat DEF Strings, tail
  <2>2. body \in Strings
    BY <1>13, <2>1, Concat DEF Strings, body
  <2> QED
    BY <1>6, <1>8, <1>11, <2>2, WritableLess
<1>17. file \in Strings
  BY <1>16, Tags, TlvType DEF file
<1>18. /\ algorithm.tag = Tag.SEQUENCE /\ algorithm.value = AlgorithmBody
       /\ octets.tag = Tag.OCTET_STRING /\ octets.value = bare
  OBVIOUS
<1> HIDE DEF zero, algorithm, octets
<1>19. WholeSequence(file) = items
  <2>1. SequenceItems(body) = items
    <3>1. SequenceItems(Tlv(zero) \o (Tlv(algorithm) \o Tlv(octets))) = items
      BY <1>13, <1>14, <1>15, ThreeItemsAreRead
    <3> HIDE DEF items
    <3> QED
      BY <1>13, <1>14, <1>15, <3>1, Zenon DEF body, tail
  <2> HIDE DEF items
  <2> QED
    BY <1>16, <2>1, WholeIsRead DEF file
<1>20. Len(items) = 3 /\ items[1] = zero /\ items[2] = algorithm /\ items[3] = octets
  OBVIOUS
<1> HIDE DEF items
<1>21. PrivateKeyInfo(items) = bare
  <2>1. /\ HasTag(items, 1, Tag.INTEGER) /\ HasTag(items, 2, Tag.SEQUENCE)
        /\ HasTag(items, 3, Tag.OCTET_STRING)
    BY <1>13, <1>18, <1>20 DEF HasTag
  <2>2. RsaAlgorithm(SequenceItems(items[2].value))
    BY <1>18, <1>20, AlgorithmIsRead
  <2> QED
    BY <1>13, <1>18, <1>20, <2>1, <2>2 DEF PrivateKeyInfo
<1> QED
  BY <1>1, <1>5, <1>17, <1>19, <1>21

----------------------------------------------------------------------------
(* pow(x, e, n) is a number below n. *)
Step(half, x, n, k) == IF k % 2 = 0 THEN (half * half) % n ELSE (((half * half) % n) * x) % n
Raised(x, n) == CHOOSE g : g = [k \in Nat |-> IF k = 0 THEN 1 % n ELSE Step(g[k \div 2], x, n, k)]

LEMMA Remainder ==
    ASSUME NEW n \in Nat, n >= 2, NEW m \in Nat
    PROVE  m % n \in 0..(n - 1)
OBVIOUS

LEMMA PowerIsBelow ==
    ASSUME NEW n \in Nat, n >= 2, NEW x \in 0..(n - 1), NEW e \in Nat
    PROVE  Power(x, e, n) \in 0..(n - 1)
<1> DEFINE X == 0..(n - 1)
           base == 1 % n
           step == [k \in Nat |-> [half \in X |-> Step(half, x, n, k)]]
           before == [k \in Nat |-> k \div 2]
           Unfolded(g) == [k \in Nat |-> IF k = 0 THEN base ELSE Step(g[k \div 2], x, n, k)]
           raised == Raised(x, n)
<1>1. base \in X
  <2>1. 1 \in Nat
    OBVIOUS
  <2> QED
    BY <2>1, Remainder
<1>2. ASSUME NEW k \in Nat, NEW half \in X
      PROVE  Step(half, x, n, k) \in X
  <2>1. half * half \in Nat
    OBVIOUS
  <2> DEFINE m == half * half
  <2> HIDE DEF m
  <2>2. m \in Nat /\ m % n \in X
    BY <2>1, Remainder DEF m
  <2> DEFINE r == m % n
  <2> HIDE DEF r
  <2>3. r \in Nat /\ r * x \in Nat
    BY <2>2 DEF r
  <2> DEFINE s == r * x
  <2> HIDE DEF s
  <2>4. s \in Nat /\ s % n \in X
    BY <2>3, Remainder DEF s
  <2> QED
    BY <2>2, <2>4 DEF Step, m, r, s
<1>3. step \in [Nat -> [X -> X]]
  BY <1>2
<1>4. before \in [Nat -> Nat] /\ \A k \in Nat \ {0} : before[k] < k
  OBVIOUS
<1>5. PICK f \in [Nat -> X] : BuildsAll(f, base, step, before)
  <2> HIDE DEF step, before, base, X
  <2> QED
    BY <1>1, <1>3, <1>4, Recursion
<1>6. \A k \in Nat : k \div 2 \in Nat /\ before[k] = k \div 2
  OBVIOUS
<1> HIDE DEF before
<1>7. \A k \in Nat : f[k] = IF k = 0 THEN base ELSE Step(f[k \div 2], x, n, k)
  <2> SUFFICES ASSUME NEW k \in Nat
               PROVE  f[k] = IF k = 0 THEN base ELSE Step(f[k \div 2], x, n, k)
    OBVIOUS
  <2>1. CASE k = 0
    BY <1>5, <2>1 DEF BuildsAll
  <2>2. CASE k # 0
    <3>1. f[k \div 2] \in X
      BY <1>6
    <3>2. f[k] = step[k][f[k \div 2]]
      <4> HIDE DEF step
      <4> QED
        BY <1>5, <1>6, <2>2 DEF BuildsAll
    <3> HIDE DEF X
    <3> QED
      BY <2>2, <3>1, <3>2
  <2> QED
    BY <2>1, <2>2
<1>8. f = Unfolded(f)
  <2> HIDE DEF X, base
  <2>1. \A k \in Nat : f[k] = Unfolded(f)[k]
    BY <1>7
  <2>2. DOMAIN Unfolded(f) = Nat
    OBVIOUS
  <2> QED
    BY <2>1, <2>2
<1>9. raised = Unfolded(raised)
  BY <1>8 DEF Raised
<1> HIDE DEF raised, base
<1>10. \A k \in Nat : raised[k] = IF k = 0 THEN base ELSE Step(raised[k \div 2], x, n, k)
  BY <1>9
<1> DEFINE S == {k \in Nat : raised[k] \in X}
<1>11. ASSUME NEW k \in Nat, \A j \in 0..(k - 1) : j \in S
       PROVE  k \in S
  <2>1. CASE k = 0
    BY <1>1, <1>10, <2>1
  <2>2. CASE k # 0
    <3>1. k \div 2 \in 0..(k - 1)
      BY <2>2
    <3>2. raised[k \div 2] \in X
      BY <1>11, <3>1
    <3> HIDE DEF X
    <3> QED
      BY <1>2, <1>10, <2>2, <3>2
  <2> QED
    BY <2>1, <2>2
<1>12. S = Nat
  <2>1. S \in SUBSET Nat
    OBVIOUS
  <2> HIDE DEF S
  <2> QED
    BY <1>11, <2>1, CompleteInductiveSet
<1>13. Power(x, e, n) = raised[e]
  BY DEF Power, Raised, Step, raised
<1> QED
  BY <1>12, <1>13

----------------------------------------------------------------------------
(* Signatures.                                                             *)
LEMMA PairIs ==
    ASSUME NEW p \in Pairs
    PROVE  /\ p.modulus \in Nat /\ p.modulus >= 2 /\ ValidModulus(p.modulus)
           /\ p.exponent \in Nat /\ ValidPublicExponent(p.exponent)
           /\ p.privateExponent \in Nat /\ p.privateExponent > 0 /\ p.prime \in Nat
           /\ \A m \in 0..(p.modulus - 1) :
                 /\ Power(m, p.exponent, p.modulus) \in 0..(p.modulus - 1)
                 /\ Power(m, p.privateExponent, p.modulus) \in 0..(p.modulus - 1)
                 /\ Power(Power(m, p.exponent, p.modulus), p.privateExponent, p.modulus) = m
                 /\ Power(Power(m, p.privateExponent, p.modulus), p.exponent, p.modulus) = m
<1>1. /\ p.modulus \in Nat /\ p.modulus >= 2 /\ p.modulus % 2 = 1
      /\ p.exponent \in Nat /\ p.exponent > 1 /\ p.exponent % 2 = 1
      /\ p.privateExponent \in Nat \ {0} /\ p.prime \in Nat
      /\ \A m \in 0..(p.modulus - 1) :
            /\ Power(Power(m, p.exponent, p.modulus), p.privateExponent, p.modulus) = m
            /\ Power(Power(m, p.privateExponent, p.modulus), p.exponent, p.modulus) = m
  BY PairsAssumption
<1>2. \A m \in 0..(p.modulus - 1) :
         /\ Power(m, p.exponent, p.modulus) \in 0..(p.modulus - 1)
         /\ Power(m, p.privateExponent, p.modulus) \in 0..(p.modulus - 1)
  BY <1>1, PowerIsBelow
<1>3. p.privateExponent \in Nat /\ p.privateExponent > 0
  BY <1>1
<1> QED
  BY <1>1, <1>2, <1>3 DEF ValidModulus, ValidPublicExponent

(* The bytes of a number below the modulus.                                *)
LEMMA BytesBelow ==
    ASSUME NEW n \in Nat, NEW m \in 0..(n - 1)
    PROVE  /\ ToBytes(m, Size(n)) \in [1..Size(n) -> Bytes]
           /\ ToBytes(m, Size(n)) \in Strings /\ Len(ToBytes(m, Size(n))) = Size(n)
           /\ Number(ToBytes(m, Size(n))) = m
<1> DEFINE k == Size(n)
<1>1. k \in Nat /\ Shifted(n, k) = 0
  BY SizeIs DEF IsSize
<1>2. m \in Nat /\ m <= n
  OBVIOUS
<1> HIDE DEF k
<1>3. Shifted(m, k) = 0
  <2>1. Shifted(m, k) \in Nat /\ Shifted(m, k) <= Shifted(n, k)
    BY <1>1, <1>2, ShiftedIsMonotonic, ShiftedUnfolds
  <2> QED
    BY <1>1, <2>1
<1>4. ToBytes(m, k) \in [1..k -> Bytes] /\ Number(ToBytes(m, k)) = m
  BY <1>1, <1>2, <1>3, NumberOfBytes
<1>5. ToBytes(m, k) \in Strings /\ Len(ToBytes(m, k)) = k
  BY <1>1, <1>4, NumberIs DEF Strings
<1> QED
  BY <1>4, <1>5 DEF k

(* What is signed has as many bytes as the modulus, and is a number below  *)
(* it: its first byte is 0.                                                *)
LEMMA EncodedIs ==
    ASSUME NEW n \in Nat, n >= 2, NEW c \in Contents, Padding(c, n) >= MinPadding
    PROVE  /\ Encoded(c, n) \in Strings /\ Encoded(c, n) \in [1..Size(n) -> Bytes]
           /\ Number(Encoded(c, n)) \in 0..(n - 1)
<1> DEFINE digest == Digest[c]
           padding == Padding(c, n)
           filler == [i \in 1..padding |-> Radix - 1]
           k == Size(n)
           front == <<0, 1>> \o filler
           middle == front \o <<0>>
           encoded == middle \o digest
<1>1. digest \in Strings /\ Len(digest) \in Nat /\ MinPadding \in Nat
  BY SignaturesAssumption DEF Strings
<1>2. k \in Nat \ {0} /\ IsSize(n, k)
  BY SizeIs
<1>3. padding = k - Len(digest) - 3
  BY DEF Padding
<1>4. Encoded(c, n) = encoded
  BY DEF Encoded
<1> HIDE DEF padding, digest, k
<1>5. padding \in Nat /\ k = padding + Len(digest) + 3
  BY <1>1, <1>2, <1>3 DEF padding
<1>6. filler \in Strings /\ Len(filler) = padding
  <2>1. Radix - 1 \in Bytes
    BY RadixIs DEF Bytes
  <2>2. filler \in [1..padding -> Bytes]
    BY <2>1
  <2> HIDE DEF filler
  <2> QED
    BY <1>5, <2>2, NumberIs DEF Strings
<1> HIDE DEF filler
<1>7. <<0, 1>> \in Strings /\ Len(<<0, 1>>) = 2 /\ <<0>> \in Strings /\ Len(<<0>>) = 1
  <2>1. 0 \in Bytes /\ 1 \in Bytes
    BY RadixIs DEF Bytes
  <2> QED
    BY <2>1 DEF Strings
<1>8. front \in Strings /\ Len(front) = 2 + padding /\ front[1] = 0
  <2> DEFINE start == <<0, 1>>
  <2>1. start \in Strings /\ Len(start) = 2 /\ start[1] = 0
    BY <1>7
  <2> HIDE DEF start
  <2>2. front = start \o filler
    BY DEF start
  <2> HIDE DEF front
  <2>3. 1 \in 1..(Len(start) + Len(filler)) /\ 1 <= Len(start)
    BY <1>5, <1>6, <2>1
  <2>4. (start \o filler)[1] = start[1]
    BY <1>6, <2>1, <2>3, ConcatProperties DEF Strings
  <2> QED
    BY <1>6, <2>1, <2>2, <2>4, Concat DEF Strings
<1> HIDE DEF front
<1>9. middle \in Strings /\ Len(middle) = 3 + padding /\ middle[1] = 0
  <2> DEFINE zero == <<0>>
  <2>1. zero \in Strings /\ Len(zero) = 1
    BY <1>7
  <2>2. middle = front \o zero
    OBVIOUS
  <2> HIDE DEF zero, middle
  <2>3. 1 \in 1..(Len(front) + Len(zero)) /\ 1 <= Len(front)
    BY <1>5, <1>8, <2>1
  <2>4. (front \o zero)[1] = front[1]
    BY <1>8, <2>1, <2>3, ConcatProperties DEF Strings
  <2>5. front \o zero \in Strings /\ Len(front \o zero) = Len(front) + Len(zero)
    BY <1>8, <2>1, Concat DEF Strings
  <2> QED
    BY <1>5, <1>8, <2>1, <2>2, <2>4, <2>5
<1> HIDE DEF middle
<1>10. encoded \in Strings /\ Len(encoded) = k /\ encoded[1] = 0
  <2>1. 1 \in 1..(Len(middle) + Len(digest)) /\ 1 <= Len(middle)
    BY <1>1, <1>5, <1>9
  <2>2. encoded[1] = middle[1]
    BY <1>1, <1>9, <2>1, ConcatProperties DEF Strings
  <2>3. encoded \in Strings /\ Len(encoded) = Len(middle) + Len(digest)
    BY <1>1, <1>9, Concat DEF Strings
  <2> HIDE DEF encoded
  <2> QED
    BY <1>1, <1>5, <1>9, <2>2, <2>3
<1> HIDE DEF encoded
<1>11. encoded \in [1..k -> Bytes]
  <2>1. encoded \in [1..Len(encoded) -> Bytes]
    BY <1>10, LenProperties DEF Strings
  <2> QED
    BY <1>10, <2>1
<1> DEFINE number == Number(encoded)
           j == k - 1
<1>12. number \in Nat
  BY <1>2, <1>11, NumberIs
<1>13. j \in 1..j /\ j \in 0..k /\ k - j = 1 /\ j \in Nat /\ 1 \in 1..k
  BY <1>1, <1>2, <1>5
<1>14. Shifted(number, j) = 0
  <2>1. Shifted(number, j) = UpTo(encoded)[k - j]
    <3> HIDE DEF j
    <3> QED
      BY <1>2, <1>11, <1>13, ShiftedNumber
  <2>2. UpTo(encoded)[1] = UpTo(encoded)[1 - 1] * Radix + encoded[1] /\ UpTo(encoded)[0] = 0
    BY <1>2, <1>11, <1>13, UpToUnfolds
  <2>3. 1 - 1 = 0 /\ 0 * Radix = 0
    BY RadixIs
  <2>4. UpTo(encoded)[1] = 0
    BY <1>10, <2>2, <2>3
  <2> HIDE DEF j, number
  <2> QED
    BY <1>13, <2>1, <2>4
<1>15. Shifted(n, j) # 0
  BY <1>2, <1>13 DEF IsSize
<1>16. number < n
  <2> HIDE DEF number, j
  <2>1. ASSUME n <= number
        PROVE  FALSE
    <3>1. Shifted(n, j) <= Shifted(number, j) /\ Shifted(n, j) \in Nat
      BY <1>12, <1>13, <2>1, ShiftedIsMonotonic, ShiftedUnfolds
    <3> QED
      BY <1>14, <1>15, <3>1
  <2> QED
    BY <1>12, <2>1
<1>17. number \in 0..(n - 1)
  <2> HIDE DEF number
  <2> QED
    BY <1>12, <1>16
<1> QED
  BY <1>4, <1>10, <1>11, <1>17 DEF k

LEMMA EncodedDiffer ==
    ASSUME NEW n \in Nat, NEW c \in Contents, NEW d \in Contents,
           Padding(c, n) >= MinPadding, Encoded(c, n) = Encoded(d, n)
    PROVE  c = d
<1> DEFINE padding == Padding(c, n)
           filler == [i \in 1..padding |-> Radix - 1]
           middle == (<<0, 1>> \o filler) \o <<0>>
<1>1. Digest[c] \in Strings /\ Digest[d] \in Strings /\ MinPadding \in Nat
  BY SignaturesAssumption DEF Strings
<1>2. c # d => Digest[c] # Digest[d] /\ Len(Digest[c]) = Len(Digest[d])
  BY SignaturesAssumption
<1>3. SUFFICES ASSUME c # d
               PROVE  Digest[c] = Digest[d]
  BY <1>2
<1>4. Padding(d, n) = padding
  BY <1>2, <1>3 DEF Padding
<1>5. padding \in Nat
  <2>1. Size(n) \in Nat /\ Len(Digest[c]) \in Nat
    <3>1. Size(n) \in Nat
      BY SizeIs
    <3>2. Len(Digest[c]) \in Nat
      BY <1>1 DEF Strings
    <3> QED
      BY <3>1, <3>2
  <2>2. padding \in Int
    BY <2>1 DEF Padding
  <2> HIDE DEF padding
  <2> QED
    BY <1>1, <2>2 DEF padding
<1>6. Encoded(c, n) = middle \o Digest[c] /\ Encoded(d, n) = middle \o Digest[d]
  BY <1>4 DEF Encoded
<1> HIDE DEF padding
<1>7. filler \in Strings
  <2>1. Radix - 1 \in Bytes
    BY RadixIs DEF Bytes
  <2>2. filler \in [1..padding -> Bytes]
    BY <2>1
  <2> HIDE DEF filler
  <2> QED
    BY <1>5, <2>2, NumberIs DEF Strings
<1> HIDE DEF filler
<1>8. middle \in Strings
  <2>1. 0 \in Bytes /\ 1 \in Bytes
    BY RadixIs DEF Bytes
  <2>2. <<0, 1>> \in Strings /\ <<0>> \in Strings
    BY <2>1 DEF Strings
  <2> DEFINE start == <<0, 1>>
             zero == <<0>>
  <2>3. start \in Strings /\ zero \in Strings
    BY <2>2
  <2> HIDE DEF start, zero
  <2>4. (start \o filler) \o zero \in Strings
    BY <1>7, <2>3, Concat DEF Strings
  <2> QED
    BY <2>4 DEF start, zero
<1> HIDE DEF middle
<1>9. middle \o Digest[c] = middle \o Digest[d]
  BY <1>6
<1>10. /\ From(middle \o Digest[c], Len(middle) + 1) = Digest[c]
       /\ From(middle \o Digest[d], Len(middle) + 1) = Digest[d]
  BY <1>1, <1>8, PartsOfConcat DEF Strings
<1> QED
  BY <1>9, <1>10

PublicOf(p) == PublicKey(p.modulus, p.exponent)
PrivateOf(p) == PrivateKey(p.modulus, p.privateExponent)

LEMMA SignatureIs ==
    ASSUME NEW p \in Pairs, NEW c \in Contents
    PROVE  LET n == p.modulus
               s == SignatureOf(c, PrivateOf(p))
           IN  IF Padding(c, n) < MinPadding THEN s = NoSignature
               ELSE /\ s = ToBytes(Power(Number(Encoded(c, n)), p.privateExponent, n), Size(n))
                    /\ s \in Strings /\ Len(s) = Size(n) /\ s # NoSignature
                    /\ \A d \in Contents : Verifies(d, s, PublicOf(p)) <=> d = c
<1> DEFINE n == p.modulus
           m == Number(Encoded(c, n))
           power == Power(m, p.privateExponent, n)
           s == SignatureOf(c, PrivateOf(p))
<1>1. /\ PrivateOf(p).modulus = n /\ PrivateOf(p).exponent = p.privateExponent
      /\ PublicOf(p).modulus = n /\ PublicOf(p).exponent = p.exponent
  BY DEF PrivateOf, PublicOf, PrivateKey, PublicKey
<1>2. n \in Nat /\ n >= 2
  BY PairIs
<1>3. CASE Padding(c, n) < MinPadding
  BY <1>1, <1>3 DEF SignatureOf
<1>4. CASE ~ (Padding(c, n) < MinPadding)
  <2>0. Size(n) \in Nat \ {0} /\ MinPadding \in Nat /\ \A d \in Contents : Len(Digest[d]) \in Nat
    <3>1. Size(n) \in Nat \ {0}
      BY <1>2, SizeIs
    <3>2. MinPadding \in Nat /\ \A d \in Contents : Len(Digest[d]) \in Nat
      BY SignaturesAssumption
    <3> QED
      BY <3>1, <3>2
  <2>1. \A d \in Contents : Padding(d, n) = Padding(c, n) /\ Padding(c, n) \in Int
    <3>1. \A d \in Contents : Len(Digest[d]) = Len(Digest[c])
      BY SignaturesAssumption
    <3> QED
      BY <2>0, <3>1 DEF Padding
  <2>2. \A d \in Contents : Padding(d, n) >= MinPadding
    BY <1>4, <2>0, <2>1
  <2>3. Encoded(c, n) \in [1..Size(n) -> Bytes] /\ m \in 0..(n - 1)
    BY <1>2, <2>2, EncodedIs
  <2>4. power \in 0..(n - 1) /\ Power(power, p.exponent, n) = m
    BY <2>3, PairIs
  <2>5. s = ToBytes(power, Size(n))
    <3>1. ~ (m >= n)
      <4> HIDE DEF m
      <4> QED
        BY <1>2, <2>3
    <3> HIDE DEF m
    <3> USE DEF m
    <3>2. ~ (Padding(c, PrivateOf(p).modulus) < MinPadding
             \/ Number(Encoded(c, PrivateOf(p).modulus)) >= PrivateOf(p).modulus)
      BY <1>1, <1>4, <3>1
    <3> QED
      BY <1>1, <3>2 DEF SignatureOf
  <2> HIDE DEF m, power, n
  <2>6. s \in Strings /\ Len(s) = Size(n) /\ Number(s) = power /\ s \in [1..Size(n) -> Bytes]
    <3>1. /\ ToBytes(power, Size(n)) \in [1..Size(n) -> Bytes]
          /\ ToBytes(power, Size(n)) \in Strings /\ Len(ToBytes(power, Size(n))) = Size(n)
          /\ Number(ToBytes(power, Size(n))) = power
      BY <1>2, <2>4, BytesBelow
    <3> QED
      BY <2>5, <3>1
  <2> HIDE DEF s
  <2>7. s # NoSignature
    BY <2>0, <2>6 DEF NoSignature
  <2>8. ToBytes(m, Size(n)) = Encoded(c, n)
    <3>1. Size(n) \in Nat
      BY <2>0
    <3> QED
      BY <2>3, <3>1, BytesOfNumber DEF m
  <2>9. ASSUME NEW d \in Contents
        PROVE  Verifies(d, s, PublicOf(p)) <=> d = c
    <3>1. Number(s) < n
      BY <1>2, <2>4, <2>6
    <3>2. ToBytes(Power(Number(s), p.exponent, n), Size(n)) = Encoded(c, n)
      BY <2>4, <2>6, <2>8
    <3>3. Verifies(d, s, PublicOf(p)) <=> Encoded(c, n) = Encoded(d, n)
      <4>1. Padding(d, n) >= MinPadding
        BY <2>2
      <4> QED
        BY <1>1, <2>6, <3>1, <3>2, <4>1 DEF Verifies
    <3>4. Encoded(c, n) = Encoded(d, n) => c = d
      BY <1>2, <2>2, EncodedDiffer
    <3> QED
      BY <3>3, <3>4
  <2> QED
    BY <1>4, <2>5, <2>6, <2>7, <2>9 DEF s, power, m, n
<1> QED
  BY <1>3, <1>4

LEMMA OnlySignature ==
    ASSUME NEW p \in Pairs, NEW c \in Contents, NEW bytes \in [1..Size(p.modulus) -> Bytes],
           Verifies(c, bytes, PublicOf(p))
    PROVE  bytes # NoSignature /\ bytes = SignatureOf(c, PrivateOf(p))
<1> DEFINE n == p.modulus
           m == Number(Encoded(c, n))
           x == Number(bytes)
           k == Size(n)
           power == Power(x, p.exponent, n)
<1>1. PublicOf(p).modulus = n /\ PublicOf(p).exponent = p.exponent
  BY DEF PublicOf, PublicKey
<1>2. n \in Nat /\ n >= 2 /\ k \in Nat \ {0}
  BY PairIs, SizeIs
<1>3. /\ Padding(c, n) >= MinPadding /\ x < n
      /\ ToBytes(power, k) = Encoded(c, n)
  BY <1>1 DEF Verifies
<1>4. bytes \in [1..k -> Bytes]
  OBVIOUS
<1> HIDE DEF k
<1>5. x \in 0..(n - 1) /\ Len(bytes) = k /\ ToBytes(x, k) = bytes
  <2>1. x \in Nat /\ Len(bytes) = k
    BY <1>2, <1>4, NumberIs
  <2>2. ToBytes(x, k) = bytes
    BY <1>2, <1>4, BytesOfNumber
  <2> HIDE DEF x, n
  <2> QED
    BY <1>2, <1>3, <2>1, <2>2
<1> HIDE DEF x
<1>6. power \in 0..(n - 1) /\ Power(power, p.privateExponent, n) = x
  BY <1>5, PairIs
<1> HIDE DEF power
<1>7. Number(ToBytes(power, k)) = power
  BY <1>2, <1>6, BytesBelow DEF k
<1>8. m = power
  BY <1>3, <1>7
<1>9. ~ (Padding(c, n) < MinPadding)
  <2>1. Size(n) \in Nat /\ Len(Digest[c]) \in Nat /\ MinPadding \in Nat
    <3>1. Size(n) \in Nat
      BY <1>2, SizeIs
    <3>2. Len(Digest[c]) \in Nat /\ MinPadding \in Nat
      BY SignaturesAssumption
    <3> QED
      BY <3>1, <3>2
  <2>2. Padding(c, n) \in Int
    BY <2>1 DEF Padding
  <2> QED
    BY <1>3, <2>1, <2>2
<1>10. SignatureOf(c, PrivateOf(p)) = ToBytes(Power(m, p.privateExponent, n), k)
  BY <1>9, SignatureIs DEF k
<1>11. SignatureOf(c, PrivateOf(p)) = bytes
  BY <1>5, <1>6, <1>8, <1>10
<1>12. bytes # NoSignature
  BY <1>2, <1>5 DEF NoSignature
<1> QED
  BY <1>11, <1>12

----------------------------------------------------------------------------
(* The specification.                                                      *)
LEMMA FileIsRead ==
    ASSUME NEW p \in Pairs, NEW kind \in Kinds, NEW form \in Forms, NEW file,
           file.kind = kind, file.form = form, file.footer, file.der = FileOf(p, kind, form)
    PROVE  /\ FileOf(p, kind, form) \in Strings
           /\ ReadPublicKey(file) = IF kind = "public" THEN PublicOf(p) ELSE NoKey("public")
           /\ ReadPrivateKey(file) = IF kind = "private" THEN PrivateOf(p) ELSE NoKey("private")
<1> DEFINE n == p.modulus
           e == p.exponent
           d == p.privateExponent
           q == p.prime
<1>1. /\ n \in Nat /\ ValidModulus(n) /\ e \in Nat /\ ValidPublicExponent(e)
      /\ d \in Nat /\ d > 0 /\ q \in Nat
  BY PairIs
<1>2. /\ WritePublic("PKCS#1", n, e) \in Seq(Nat) /\ WritePublic("wrapped", n, e) \in Seq(Nat)
      /\ WritePrivate("PKCS#1", n, e, d, q) \in Seq(Nat)
      /\ WritePrivate("wrapped", n, e, d, q) \in Seq(Nat)
  <2> HIDE DEF n, e, d, q
  <2>1. \A t \in {"INTEGER", "BIT_STRING", "OCTET_STRING", "SEQUENCE"} : Tag[t] \in Nat
    BY DEF Tag
  <2>2. WriteAlgorithm \in Seq(Nat)
    BY AlgorithmIsRead, StringsAreNumbers, Tags, TlvType
  <2>3. ASSUME NEW value \in Seq(Nat)
        PROVE  /\ WriteTlv(Tag.SEQUENCE, value) \in Seq(Nat)
               /\ WriteTlv(Tag.BIT_STRING, value) \in Seq(Nat)
               /\ WriteTlv(Tag.OCTET_STRING, value) \in Seq(Nat)
    <3>1. Tag.SEQUENCE \in Nat /\ Tag.BIT_STRING \in Nat /\ Tag.OCTET_STRING \in Nat
      BY <2>1 DEF Tag
    <3> QED
      BY <3>1, TlvLength
  <2>4. /\ WriteInteger(0) \in Seq(Nat) /\ WriteInteger(n) \in Seq(Nat) /\ WriteInteger(e) \in Seq(Nat)
        /\ WriteInteger(d) \in Seq(Nat) /\ WriteInteger(q) \in Seq(Nat)
    BY <1>1, IntegerLength
  <2>5. WritePublic("PKCS#1", n, e) \in Seq(Nat)
    <3>1. WriteInteger(n) \o WriteInteger(e) \in Seq(Nat)
      BY <2>4, PartsFit
    <3> QED
      BY <2>3, <3>1 DEF WritePublic
  <2> DEFINE bare == WritePublic("PKCS#1", n, e)
             bits == <<0>> \o bare
  <2>6. bits \in Seq(Nat)
    <3> HIDE DEF bare
    <3> QED
      BY <2>5, HeadAndTail DEF bare
  <2>7. WritePublic("wrapped", n, e) = WriteTlv(Tag.SEQUENCE, WriteAlgorithm \o WriteTlv(Tag.BIT_STRING, bits))
    BY DEF WritePublic
  <2> HIDE DEF bits, bare
  <2>8. WritePublic("wrapped", n, e) \in Seq(Nat)
    <3>1. WriteAlgorithm \o WriteTlv(Tag.BIT_STRING, bits) \in Seq(Nat)
      BY <2>2, <2>3, <2>6, PartsFit
    <3> QED
      BY <2>3, <2>7, <3>1
  <2> QED
    <3> DEFINE private == WritePrivate("PKCS#1", n, e, d, q)
               a == WriteInteger(0)
    <3>1. private \in Seq(Nat)
      <4> DEFINE s1 == a \o WriteInteger(n)
                 s2 == s1 \o WriteInteger(e)
                 s3 == s2 \o WriteInteger(d)
                 s4 == s3 \o WriteInteger(q)
      <4>1. private = WriteTlv(Tag.SEQUENCE, s4)
        BY DEF WritePrivate
      <4> HIDE DEF a
      <4>2. s1 \in Seq(Nat)
        BY <2>4, PartsFit DEF a
      <4> HIDE DEF s1
      <4>3. s2 \in Seq(Nat)
        BY <2>4, <4>2, PartsFit
      <4> HIDE DEF s2
      <4>4. s3 \in Seq(Nat)
        BY <2>4, <4>3, PartsFit
      <4> HIDE DEF s3
      <4>5. s4 \in Seq(Nat)
        BY <2>4, <4>4, PartsFit
      <4> HIDE DEF s4, private
      <4> QED
        BY <2>3, <4>1, <4>5
    <3>2. WritePrivate("wrapped", n, e, d, q)
            = WriteTlv(Tag.SEQUENCE, (a \o WriteAlgorithm) \o WriteTlv(Tag.OCTET_STRING, private))
      BY DEF WritePrivate
    <3> HIDE DEF private, a
    <3>3. a \o WriteAlgorithm \in Seq(Nat)
      BY <2>2, <2>4, PartsFit DEF a
    <3> DEFINE b == a \o WriteAlgorithm
               c == WriteTlv(Tag.OCTET_STRING, private)
    <3>4. b \in Seq(Nat) /\ c \in Seq(Nat)
      BY <2>3, <3>1, <3>3
    <3> HIDE DEF b, c
    <3>5. b \o c \in Seq(Nat)
      BY <3>4, PartsFit
    <3>6. WritePrivate("wrapped", n, e, d, q) \in Seq(Nat)
      BY <2>3, <3>2, <3>5 DEF b, c
    <3> QED
      BY <2>5, <2>8, <3>1, <3>6 DEF private
<1>3. /\ Writable(Len(WritePublic("PKCS#1", n, e))) /\ Writable(Len(WritePublic("wrapped", n, e)))
      /\ Writable(Len(WritePrivate("PKCS#1", n, e, d, q)))
      /\ Writable(Len(WritePrivate("wrapped", n, e, d, q)))
  <2>1. \A k \in Kinds, f \in Forms : Size(Len(FileOf(p, k, f))) < Half
    BY FilesAssumption
  <2>2. /\ FileOf(p, "public", "PKCS#1") = WritePublic("PKCS#1", n, e)
        /\ FileOf(p, "public", "wrapped") = WritePublic("wrapped", n, e)
        /\ FileOf(p, "private", "PKCS#1") = WritePrivate("PKCS#1", n, e, d, q)
        /\ FileOf(p, "private", "wrapped") = WritePrivate("wrapped", n, e, d, q)
    BY DEF FileOf
  <2>3. {"public", "private"} = Kinds /\ {"PKCS#1", "wrapped"} = Forms
    BY DEF Kinds, Forms
  <2>4. \A s \in Seq(Nat) : Len(s) \in Nat
    OBVIOUS
  <2> HIDE DEF n, e, d, q
  <2> QED
    BY <1>2, <2>1, <2>2, <2>3, <2>4 DEF Writable
<1>4. /\ WritePublic("PKCS#1", n, e) \in Strings
      /\ PublicKeyOf(PublicItems("PKCS#1", WritePublic("PKCS#1", n, e))) = PublicKey(n, e)
  BY <1>1, <1>3, PublicKeyIsRead DEF PublicItems
<1>5. /\ WritePublic("wrapped", n, e) \in Strings
      /\ PublicKeyOf(PublicItems("wrapped", WritePublic("wrapped", n, e))) = PublicKey(n, e)
  BY <1>1, <1>3, WrappedPublicKeyIsRead DEF PublicItems
<1>6. /\ WritePrivate("PKCS#1", n, e, d, q) \in Strings
      /\ PrivateKeyOf(PrivateItems("PKCS#1", WritePrivate("PKCS#1", n, e, d, q))) = PrivateKey(n, d)
  <2>1. n \in Nat /\ e \in Nat /\ d \in Nat /\ q \in Nat /\ ValidModulus(n) /\ d > 0
    BY <1>1
  <2> HIDE DEF n, e, d, q
  <2> QED
    BY <1>3, <2>1, PrivateKeyIsRead DEF PrivateItems
<1>7. /\ WritePrivate("wrapped", n, e, d, q) \in Strings
      /\ PrivateKeyOf(PrivateItems("wrapped", WritePrivate("wrapped", n, e, d, q))) = PrivateKey(n, d)
  <2>1. n \in Nat /\ e \in Nat /\ d \in Nat /\ q \in Nat /\ ValidModulus(n) /\ d > 0
    BY <1>1
  <2> HIDE DEF n, e, d, q
  <2> QED
    BY <1>3, <2>1, WrappedPrivateKeyIsRead DEF PrivateItems
<1>8. form = "PKCS#1" \/ form = "wrapped"
  BY DEF Forms
<1>9. CASE kind = "public"
  <2>1. file.der = WritePublic(form, n, e)
    BY <1>9 DEF FileOf
  <2> HIDE DEF n, e, d, q
  <2>2. WritePublic(form, n, e) \in Strings /\ PublicKeyOf(PublicItems(form, file.der)) = PublicKey(n, e)
    BY <1>4, <1>5, <1>8, <2>1
  <2> QED
    BY <1>9, <2>1, <2>2 DEF ReadPublicKey, ReadPrivateKey, PublicOf, n, e
<1>10. CASE kind = "private"
  <2>1. file.der = WritePrivate(form, n, e, d, q)
    BY <1>10 DEF FileOf
  <2> HIDE DEF n, e, d, q
  <2>2. /\ WritePrivate(form, n, e, d, q) \in Strings
        /\ PrivateKeyOf(PrivateItems(form, file.der)) = PrivateKey(n, d)
    BY <1>6, <1>7, <1>8, <2>1
  <2> QED
    BY <1>10, <2>1, <2>2 DEF ReadPublicKey, ReadPrivateKey, PrivateOf, n, d
<1> QED
  BY <1>9, <1>10 DEF Kinds

LEMMA DamagedAreStrings ==
    ASSUME NEW der \in Strings, NEW damaged \in Damaged(der)
    PROVE  damaged \in Strings
<1>1. ASSUME NEW i \in DOMAIN der, NEW b \in Bytes
      PROVE  ReplaceAt(der, i, b) \in Strings
  BY DEF ReplaceAt, Strings
<1>2. ASSUME NEW i \in 1..(Len(der) + 1)
      PROVE  SubSeq(der, 1, i - 1) \in Strings /\ SubSeq(der, i, Len(der)) \in Strings
  <2>1. i - 1 \in 0..Len(der) /\ (i - 1) + 1 = i
    BY DEF Strings
  <2>2. SubSeq(der, 1, i - 1) \in Strings /\ From(der, (i - 1) + 1) \in Strings
    BY <2>1, FromProperties DEF Strings
  <2> QED
    BY <2>1, <2>2 DEF From
<1>3. ASSUME NEW i \in 1..(Len(der) + 1), NEW b \in Bytes
      PROVE  InsertAt(der, i, b) \in Strings
  <2> DEFINE front == SubSeq(der, 1, i - 1)
             back == SubSeq(der, i, Len(der))
             one == <<b>>
  <2>1. front \in Strings /\ back \in Strings
    BY <1>2
  <2>2. one \in Strings
    BY DEF Strings
  <2>3. InsertAt(der, i, b) = (front \o one) \o back
    BY DEF InsertAt
  <2> HIDE DEF front, back, one
  <2>4. front \o one \in Strings
    BY <2>1, <2>2, Concat DEF Strings
  <2>5. (front \o one) \o back \in Strings
    BY <2>1, <2>4, Concat DEF Strings
  <2> QED
    BY <2>3, <2>5
<1>4. ASSUME NEW i \in DOMAIN der
      PROVE  RemoveAt(der, i) \in Strings
  <2>1. i \in 1..(Len(der) + 1) /\ i + 1 \in 1..(Len(der) + 1)
    BY DEF Strings
  <2> DEFINE front == SubSeq(der, 1, i - 1)
             back == SubSeq(der, i + 1, Len(der))
  <2>2. front \in Strings /\ back \in Strings
    BY <1>2, <2>1
  <2>3. RemoveAt(der, i) = front \o back
    BY DEF RemoveAt
  <2> HIDE DEF front, back
  <2>4. front \o back \in Strings
    BY <2>2, Concat DEF Strings
  <2> QED
    BY <2>3, <2>4
<1> QED
  BY <1>1, <1>3, <1>4 DEF Damaged

Files == [kind : Kinds, form : Forms, footer : BOOLEAN, der : Strings]

(* What each stage has come from: a key from the file, a signature from    *)
(* the pair's own private key, a verdict from its public key.              *)
SignaturesInv ==
    /\ TypeOK
    /\ stage \in {"written", "read"} => pem \in Files
    /\ stage = "read" => key \in {ReadPublicKey(pem), ReadPrivateKey(pem)}
    /\ stage = "signed" => key = PairsPrivate /\ signature = SignatureOf(content, key)
    /\ stage = "verified" =>
          signature \in Candidates /\ verdict = Verifies(content, signature, PairsPublic)

LEMMA KindsOfKeys ==
    ASSUME NEW file
    PROVE  /\ ReadPublicKey(file).kind \in {"public", "ValueError"}
           /\ ReadPrivateKey(file).kind \in {"private", "ValueError"}
BY DEF ReadPublicKey, PublicKeyOf, ReadPrivateKey, PrivateKeyOf, PublicKey, PrivateKey, NoKey

LEMMA PristineKeys ==
    ASSUME TypeOK, pem \in Files, Pristine, key \in {ReadPublicKey(pem), ReadPrivateKey(pem)}
    PROVE  /\ key \in {PairsPublic, PairsPrivate,
                       NoKey(IF pem.kind = "public" THEN "private" ELSE "public")}
           /\ key.kind = "public" => key = PairsPublic
           /\ key.kind = "private" => key = PairsPrivate
<1>1. /\ pair \in Pairs /\ pem.kind \in Kinds /\ pem.form \in Forms /\ pem.footer
      /\ pem.der = FileOf(pair, pem.kind, pem.form)
  BY DEF TypeOK, Files, Pristine, Written
<1>2. /\ ReadPublicKey(pem) = IF pem.kind = "public" THEN PublicOf(pair) ELSE NoKey("public")
      /\ ReadPrivateKey(pem) = IF pem.kind = "private" THEN PrivateOf(pair) ELSE NoKey("private")
  BY <1>1, FileIsRead
<1>3. PublicOf(pair) = PairsPublic /\ PrivateOf(pair) = PairsPrivate
  BY DEF PublicOf, PrivateOf, PairsPublic, PairsPrivate
<1>4. /\ PairsPublic.kind = "public" /\ PairsPrivate.kind = "private"
      /\ NoKey("public").kind = "ValueError" /\ NoKey("private").kind = "ValueError"
  BY DEF PairsPublic, PairsPrivate, PublicKey, PrivateKey, NoKey
<1>5. CASE pem.kind = "public"
  <2>1. key = PairsPublic \/ key = NoKey("private")
    BY <1>2, <1>3, <1>5
  <2> QED
    BY <1>4, <1>5, <2>1
<1>6. CASE pem.kind = "private"
  <2>1. key = PairsPrivate \/ key = NoKey("public")
    BY <1>2, <1>3, <1>6
  <2> QED
    BY <1>4, <1>6, <2>1
<1> QED
  BY <1>1, <1>5, <1>6 DEF Kinds

LEMMA SignaturesInitially == Init => SignaturesInv
<1> SUFFICES ASSUME Init
             PROVE  SignaturesInv
  OBVIOUS
<1>1. AnyContent \in Contents
  BY SignaturesAssumption DEF AnyContent
<1>2. <<>> \in Seq(Bytes)
  OBVIOUS
<1>3. TypeOK
  BY <1>1, <1>2 DEF Init, TypeOK, NoFile, NoKey
<1> QED
  BY <1>3 DEF Init, SignaturesInv

LEMMA SignaturesStep == SignaturesInv /\ [Next]_vars => SignaturesInv'
<1> SUFFICES ASSUME SignaturesInv, [Next]_vars
             PROVE  SignaturesInv'
  OBVIOUS
<1>0. TypeOK
  BY DEF SignaturesInv
<1>1. CASE Write
  <2>1. PICK kind \in Kinds, form \in Forms, footer \in BOOLEAN :
           \E der \in {Written(kind, form)} \cup Damaged(Written(kind, form)) :
              pem' = [kind |-> kind, form |-> form, footer |-> footer, der |-> der]
    BY <1>1 DEF Write
  <2>2. PICK der \in {Written(kind, form)} \cup Damaged(Written(kind, form)) :
           pem' = [kind |-> kind, form |-> form, footer |-> footer, der |-> der]
    BY <2>1
  <2>3. Written(kind, form) \in Strings
    <3> DEFINE file == [kind |-> kind, form |-> form, footer |-> TRUE, der |-> FileOf(pair, kind, form)]
    <3>1. /\ file.kind = kind /\ file.form = form /\ file.footer
          /\ file.der = FileOf(pair, kind, form)
      OBVIOUS
    <3> HIDE DEF file
    <3>2. pair \in Pairs
      BY <1>0 DEF TypeOK
    <3> QED
      BY <3>1, <3>2, FileIsRead DEF Written
  <2>4. der \in Strings
    BY <2>3, DamagedAreStrings
  <2>5. pem' \in Files /\ pem'.der \in Seq(Bytes)
    BY <2>2, <2>4 DEF Files, Strings
  <2>6. stage' = "written" /\ UNCHANGED <<pair, key, content, signature, verdict>>
    BY <1>1 DEF Write
  <2> QED
    BY <1>0, <2>5, <2>6 DEF SignaturesInv, TypeOK
<1>2. CASE Read
  <2>1. /\ stage = "written" /\ stage' = "read" /\ key' \in {ReadPublicKey(pem), ReadPrivateKey(pem)}
        /\ UNCHANGED <<pair, pem, content, signature, verdict>>
    BY <1>2 DEF Read
  <2>2. pem \in Files
    BY <2>1 DEF SignaturesInv
  <2>3. key'.kind \in Kinds \cup {"ValueError"}
    BY <2>1, KindsOfKeys DEF Kinds
  <2>4. key' \in {ReadPublicKey(pem'), ReadPrivateKey(pem')}
    BY <2>1
  <2> QED
    BY <1>0, <2>1, <2>2, <2>3, <2>4 DEF SignaturesInv, TypeOK
<1>3. ASSUME Pristine, NEW c \in Contents, Sign(c)
      PROVE  SignaturesInv'
  <2>1. /\ stage = "read" /\ key.kind = "private"
        /\ content' = c /\ signature' = SignatureOf(c, key) /\ stage' = "signed"
        /\ UNCHANGED <<pair, pem, key, verdict>>
    BY <1>3 DEF Sign
  <2>2. pem \in Files /\ key \in {ReadPublicKey(pem), ReadPrivateKey(pem)}
    BY <2>1 DEF SignaturesInv
  <2>3. key = PairsPrivate
    BY <1>0, <1>3, <2>1, <2>2, PristineKeys
  <2>4. PairsPrivate = PrivateOf(pair) /\ PairsPrivate' = PairsPrivate /\ key.modulus = pair.modulus
    BY <2>1, <2>3 DEF PairsPrivate, PrivateOf, PrivateKey
  <2>5. signature' = NoSignature \/ Len(signature') = Size(key.modulus)
    <3>1. pair \in Pairs
      BY <1>0 DEF TypeOK
    <3> QED
      BY <2>1, <2>3, <2>4, <3>1, SignatureIs
  <2> QED
    BY <1>0, <2>1, <2>3, <2>4, <2>5 DEF SignaturesInv, TypeOK
<1>4. ASSUME Pristine, NEW c \in Contents, NEW bytes \in Candidates, Verify(c, bytes)
      PROVE  SignaturesInv'
  <2>1. /\ stage = "read" /\ key.kind = "public"
        /\ content' = c /\ signature' = bytes /\ verdict' = Verifies(c, bytes, key)
        /\ stage' = "verified" /\ pem' = NoFile
        /\ UNCHANGED <<pair, key>>
    BY <1>4 DEF Verify
  <2>2. pem \in Files /\ key \in {ReadPublicKey(pem), ReadPrivateKey(pem)}
    BY <2>1 DEF SignaturesInv
  <2>3. key = PairsPublic
    BY <1>0, <1>4, <2>1, <2>2, PristineKeys
  <2>4. PairsPublic' = PairsPublic /\ Candidates' = Candidates
    BY <2>1 DEF PairsPublic, Candidates
  <2>5. Verifies(c, bytes, key) \in BOOLEAN
    BY DEF Verifies
  <2>6. pem'.der \in Seq(Bytes)
    BY <2>1 DEF NoFile
  <2>7. verdict' = Verifies(content', signature', PairsPublic')
    BY <2>1, <2>3, <2>4
  <2>8. signature' \in Candidates'
    BY <1>4, <2>1, <2>4
  <2>9. TypeOK'
    BY <1>0, <2>1, <2>5, <2>6 DEF TypeOK
  <2> QED
    BY <2>1, <2>7, <2>8, <2>9 DEF SignaturesInv
<1>5. CASE UNCHANGED vars
  <2>1. /\ UNCHANGED <<pair, pem, stage, key, content, signature, verdict>>
    BY <1>5 DEF vars
  <2>2. PairsPublic' = PairsPublic /\ PairsPrivate' = PairsPrivate /\ Candidates' = Candidates
    BY <2>1 DEF PairsPublic, PairsPrivate, Candidates
  <2>3. TypeOK'
    BY <1>0, <2>1 DEF TypeOK
  <2> QED
    BY <2>1, <2>2, <2>3 DEF SignaturesInv
<1> QED
  BY <1>1, <1>2, <1>3, <1>4, <1>5 DEF Next

LEMMA SignaturesInvHolds == Spec => []SignaturesInv
<1> QED
  BY SignaturesInitially, SignaturesStep, PTL DEF Spec

(* Whatever was written, damaged, read, signed or verified, the variables  *)
(* have their types and a signature as many bytes as the modulus (sign).   *)
THEOREM SignaturesAreTyped == Spec => []TypeOK
<1>1. SignaturesInv => TypeOK
  BY DEF SignaturesInv
<1> QED
  BY <1>1, SignaturesInvHolds, PTL

(* Undamaged files of every pair, of both forms, whatever the lengths of   *)
(* their parts, are read as the key that was written (read_public_key,     *)
(* read_private_key, _read_length, _read_integer).                         *)
THEOREM IntactKeysHold == Spec => []IntactKeysAreRead
<1>1. ASSUME SignaturesInv
      PROVE  IntactKeysAreRead
  <2>1. TypeOK /\ (stage = "read" => pem \in Files /\ key \in {ReadPublicKey(pem), ReadPrivateKey(pem)})
    BY <1>1 DEF SignaturesInv
  <2> QED
    BY <2>1, PristineKeys DEF IntactKeysAreRead
<1> QED
  BY <1>1, SignaturesInvHolds, PTL

(* What sign returns verifies with the pair's public key for the content   *)
(* that was signed and for no other, unless the modulus is too short for   *)
(* the padding (sign, verify, _emsa_pkcs1_v15_encode).                     *)
THEOREM SignaturesVerifyAlways == Spec => []SignaturesVerify
<1>1. ASSUME SignaturesInv
      PROVE  SignaturesVerify
  <2> SUFFICES ASSUME stage = "signed"
               PROVE  IF Padding(content, key.modulus) < MinPadding THEN signature = NoSignature
                      ELSE {c \in Contents : Verifies(c, signature, PairsPublic)} = {content}
    BY DEF SignaturesVerify
  <2>1. /\ pair \in Pairs /\ content \in Contents
        /\ key = PairsPrivate /\ signature = SignatureOf(content, key)
    BY <1>1 DEF SignaturesInv, TypeOK
  <2>2. key.modulus = pair.modulus /\ PairsPrivate = PrivateOf(pair) /\ PairsPublic = PublicOf(pair)
    BY <2>1 DEF PairsPrivate, PairsPublic, PrivateOf, PublicOf, PrivateKey
  <2>3. IF Padding(content, pair.modulus) < MinPadding THEN signature = NoSignature
        ELSE \A d \in Contents : Verifies(d, signature, PublicOf(pair)) <=> d = content
    BY <2>1, <2>2, SignatureIs
  <2> QED
    BY <2>1, <2>2, <2>3
<1> QED
  BY <1>1, SignaturesInvHolds, PTL

(* Of all byte strings verify accepts the one that sign makes: a signature *)
(* has one representation, and no other number is raised to the same       *)
(* encoding.                                                               *)
THEOREM OneSignatureAlways == Spec => []OneSignature
<1>1. ASSUME SignaturesInv
      PROVE  OneSignature
  <2> SUFFICES ASSUME stage = "verified"
               PROVE  verdict <=> signature # NoSignature /\ signature = SignatureOf(content, PairsPrivate)
    BY DEF OneSignature
  <2>1. /\ pair \in Pairs /\ content \in Contents
        /\ signature \in Candidates /\ verdict = Verifies(content, signature, PairsPublic)
    BY <1>1 DEF SignaturesInv, TypeOK
  <2>2. PairsPrivate = PrivateOf(pair) /\ PairsPublic = PublicOf(pair) /\ PairsPublic.modulus = pair.modulus
    BY DEF PairsPrivate, PairsPublic, PrivateOf, PublicOf, PublicKey
  <2>3. ASSUME Verifies(content, signature, PublicOf(pair))
        PROVE  signature # NoSignature /\ signature = SignatureOf(content, PrivateOf(pair))
    <3> DEFINE k == Size(pair.modulus)
    <3>1. Len(signature) = k
      BY <2>2, <2>3 DEF Verifies
    <3>2. k \in Nat \ {0}
      BY <2>1, PairIs, SizeIs
    <3>3. signature \in [1..k -> Bytes] \cup {ToBytes(1, k + 1), NoSignature}
      BY <2>1 DEF Candidates
    <3> HIDE DEF k
    <3>4. Len(ToBytes(1, k + 1)) = k + 1
      BY <3>2 DEF ToBytes
    <3>5. signature \in [1..k -> Bytes]
      <4>1. signature # ToBytes(1, k + 1)
        BY <3>1, <3>2, <3>4
      <4>2. signature # NoSignature
        BY <3>1, <3>2 DEF NoSignature
      <4> QED
        BY <3>3, <4>1, <4>2
    <3> QED
      BY <2>1, <2>3, <3>5, OnlySignature DEF k
  <2>4. ASSUME signature # NoSignature, signature = SignatureOf(content, PrivateOf(pair))
        PROVE  Verifies(content, signature, PublicOf(pair))
    BY <2>1, <2>4, SignatureIs
  <2> QED
    BY <2>1, <2>2, <2>3, <2>4
<1> QED
  BY <1>1, SignaturesInvHolds, PTL

(* Whatever was done to the file, no other key is read from it than one    *)
(* that it spells out (_read_length, _read_integer, _sequence_items,       *)
(* read_public_key, read_private_key).                                     *)
THEOREM KeysAreReadAsWrittenAlways == Spec => []KeysAreReadAsWritten
<1>1. ASSUME SignaturesInv
      PROVE  KeysAreReadAsWritten
  <2> SUFFICES ASSUME stage = "read"
               PROVE  KeysAreReadAsWritten
    BY DEF KeysAreReadAsWritten
  <2>1. pem \in Files /\ key \in {ReadPublicKey(pem), ReadPrivateKey(pem)}
    BY <1>1 DEF SignaturesInv
  <2>2. pem.der \in Strings /\ (pem.form = "PKCS#1" \/ pem.form = "wrapped")
    BY <2>1 DEF Files, Forms
  <2>3. ASSUME key.kind = "public"
        PROVE  IF pem.form = "PKCS#1" THEN pem.der = WritePublic("PKCS#1", key.modulus, key.exponent)
               ELSE \E i \in 1..(Len(pem.der) + 1), j \in 0..Len(pem.der) :
                       pem.der = WrappedPublic(key.modulus, key.exponent, SubSeq(pem.der, i, j))
    <3>1. key = PublicKeyOf(PublicItems(pem.form, pem.der))
      <4>1. key = ReadPublicKey(pem)
        BY <2>1, <2>3, KindsOfKeys
      <4> QED
        BY <2>3, <4>1 DEF ReadPublicKey, NoKey
    <3>2. CASE pem.form = "PKCS#1"
      <4>1. key = PublicKeyOf(WholeSequence(pem.der))
        BY <3>1, <3>2 DEF PublicItems
      <4> QED
        BY <2>2, <2>3, <3>2, <4>1, PublicKeyWasWritten
    <3>3. CASE pem.form # "PKCS#1"
      <4>1. key = PublicKeyOf(WholeSequence(SubjectPublicKey(WholeSequence(pem.der))))
        BY <3>1, <3>3 DEF PublicItems
      <4>2. PICK more \in Strings :
               Within(more, pem.der) /\ pem.der = WrappedPublic(key.modulus, key.exponent, more)
        BY <2>2, <2>3, <4>1, WrappedPublicWasWritten
      <4>3. PICK k \in 0..(Len(pem.der) - Len(more)) : SubSeq(pem.der, k + 1, k + Len(more)) = more
        BY <2>2, <4>2, WithinIsPart DEF IsPart
      <4>4. k + 1 \in 1..(Len(pem.der) + 1) /\ k + Len(more) \in 0..Len(pem.der)
        BY <2>2, <4>3 DEF Strings
      <4> QED
        BY <3>3, <4>2, <4>3, <4>4
    <3> QED
      BY <3>2, <3>3
  <2>4. ASSUME key.kind = "private"
        PROVE  IsPart(pem.der, WriteInteger(key.modulus)) /\ IsPart(pem.der, WriteInteger(key.exponent))
    <3>1. key = PrivateKeyOf(PrivateItems(pem.form, pem.der))
      <4>1. key = ReadPrivateKey(pem)
        BY <2>1, <2>4, KindsOfKeys
      <4> QED
        BY <2>4, <4>1 DEF ReadPrivateKey, NoKey
    <3>2. CASE pem.form = "PKCS#1"
      <4>1. key = PrivateKeyOf(WholeSequence(pem.der))
        BY <3>1, <3>2 DEF PrivateItems
      <4> QED
        BY <2>2, <2>4, <4>1, PrivateNumbersAreParts, WithinIsPart
    <3>3. CASE pem.form # "PKCS#1"
      <4> DEFINE inner == PrivateKeyInfo(WholeSequence(pem.der))
      <4>1. key = PrivateKeyOf(WholeSequence(inner))
        BY <3>1, <3>3 DEF PrivateItems
      <4>2. inner # <<>>
        <5>1. PrivateKeyOf(WholeSequence(<<>>)).kind # "private"
          <6>1. ReadTlv(<<>>).tag # Tag.SEQUENCE
            BY Tags DEF ReadTlv
          <6>2. WholeSequence(<<>>) = <<NoItem>>
            BY <6>1 DEF WholeSequence, ItemsOf
          <6>3. ~ HasTag(<<NoItem>>, 2, Tag.INTEGER)
            BY DEF HasTag
          <6>4. PrivateKeyOf(<<NoItem>>) = NoKey("private")
            <7>1. 2 \in 1..4
              OBVIOUS
            <7> QED
              BY <6>3, <7>1 DEF PrivateKeyOf
          <6> QED
            BY <6>2, <6>4 DEF NoKey
        <5> QED
          BY <2>4, <4>1, <5>1
      <4>3. inner \in Strings /\ \A part \in Strings : Within(part, inner) => Within(part, pem.der)
        BY <2>2, <4>2, PrivateKeyInfoIsPart
      <4> HIDE DEF inner
      <4>4. /\ WriteInteger(key.modulus) \in Strings /\ Within(WriteInteger(key.modulus), inner)
            /\ WriteInteger(key.exponent) \in Strings /\ Within(WriteInteger(key.exponent), inner)
        BY <2>4, <4>1, <4>3, PrivateNumbersAreParts
      <4> QED
        BY <2>2, <4>3, <4>4, WithinIsPart
    <3> QED
      BY <3>2, <3>3
  <2> QED
    BY <2>3, <2>4 DEF KeysAreReadAsWritten
<1> QED
  BY <1>1, SignaturesInvHolds, PTL
==============================================================================
