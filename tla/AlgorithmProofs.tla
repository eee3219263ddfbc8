-------------------------- MODULE AlgorithmProofs --------------------------
(***************************************************************************)
(* For operands, texts, lists and calendars of every size: the local tools  *)
(* return what their references compute, and the next run of a cron         *)
(* expression is the first minute its fields name.  The recursive functions *)
(* of the module are climbed by one lemma, Climbing; Booth's rounds keep an  *)
(* invariant of their own, Multiplied, and so do the rounds of the CRC,      *)
(* RestSeen, of Euclid and of the partitions.                                *)
(***************************************************************************)
EXTENDS Algorithms, NaturalsInduction, WellFoundedInduction, FiniteSetTheorems, SequenceTheorems,
        FunctionTheorems, TLAPS

\* What holds at the low end of an interval and goes on from each number to the next holds
\* all along it: the least number where it failed would have a predecessor.
LEMMA Climbing ==
    ASSUME NEW low \in Int, NEW high \in Int, NEW good, low \in good,
           \A k \in low .. high : k # low /\ k - 1 \in good => k \in good
    PROVE  \A k \in low .. high : k \in good
<1> DEFINE bad == {n \in Nat : low + n <= high /\ low + n \notin good}
<1>1. SUFFICES ASSUME bad # {} PROVE FALSE
  <2> SUFFICES ASSUME NEW k \in low .. high, k \notin good PROVE bad # {} OBVIOUS
  <2>1. k - low \in bad OBVIOUS
  <2> QED BY <2>1
<1>2. bad \subseteq Nat OBVIOUS
<1>3. \A n \in bad : low + n <= high /\ low + n \notin good OBVIOUS
<1>4. \A n \in Nat \ bad : low + n <= high => low + n \in good OBVIOUS
<1> HIDE DEF bad
<1>5. PICK n \in bad : \A m \in bad : ~(<<m, n>> \in OpToRel(<, Nat))
  BY <1>1, <1>2, NatLessThanWellFounded, WFMin
<1>6. n \in Nat /\ \A m \in bad : ~(m < n) BY <1>2, <1>5 DEF OpToRel
<1>7. n # 0
  <2>1. n = 0 => low + n = low BY <1>6
  <2> QED BY <1>3, <1>5, <2>1
<1>8. n - 1 \in Nat \ bad BY <1>6, <1>7
<1>9. low + (n - 1) \in good BY <1>3, <1>4, <1>6, <1>8
<1>10. low + n \in low .. high /\ low + n # low /\ (low + n) - 1 = low + (n - 1) BY <1>3, <1>6, <1>7
<1> QED BY <1>3, <1>9, <1>10

\* A recursive function: f begins with first and goes on as step says.
Recurs(f, low, high, S, first, step) ==
    /\ f \in [low .. high -> S] /\ f[low] = first
    /\ \A k \in low .. high : k # low => f[k] = step[k][f[k - 1]]

\* Such a function exists.
LEMMA Recursion ==
    ASSUME NEW low \in Int, NEW high \in Int, low <= high, NEW S, NEW first \in S,
           NEW step \in [low .. high -> [S -> S]]
    PROVE  \E f : Recurs(f, low, high, S, first, step)
<1> DEFINE good == {n \in low .. high : \E f : Recurs(f, low, n, S, first, step)}
<1>1. low \in good
  <2> DEFINE g == [k \in low .. low |-> first]
  <2>1. g \in [low .. low -> S] /\ g[low] = first OBVIOUS
  <2>2. \A k \in low .. low : k = low OBVIOUS
  <2>3. Recurs(g, low, low, S, first, step) BY <2>1, <2>2 DEF Recurs
  <2> QED BY <2>3
<1>2. ASSUME NEW n \in low .. high, n # low, n - 1 \in good PROVE n \in good
  <2>1. PICK f : Recurs(f, low, n - 1, S, first, step) BY <1>2
  <2> DEFINE g == [k \in low .. n |-> IF k = n THEN step[n][f[n - 1]] ELSE f[k]]
  <2>2. f[n - 1] \in S BY <1>2, <2>1 DEF Recurs
  <2>3. step[n][f[n - 1]] \in S
    <3>1. step[n] \in [S -> S] OBVIOUS
    <3> QED BY <2>2, <3>1
  <2>4. g \in [low .. n -> S] /\ g[low] = first BY <1>2, <2>1, <2>3 DEF Recurs
  <2>5. \A k \in low .. n : k # low => g[k] = step[k][g[k - 1]]
    <3> SUFFICES ASSUME NEW k \in low .. n, k # low PROVE g[k] = step[k][g[k - 1]] OBVIOUS
    <3>1. g[k - 1] = f[k - 1] OBVIOUS
    <3>2. CASE k = n BY <1>2, <3>1, <3>2
    <3>3. CASE k # n
      <4>1. k \in low .. n - 1 /\ g[k] = f[k] BY <3>3
      <4> QED BY <2>1, <3>1, <4>1 DEF Recurs
    <3> QED BY <3>2, <3>3
  <2> HIDE DEF g
  <2>6. Recurs(g, low, n, S, first, step) BY <2>4, <2>5 DEF Recurs
  <2> QED BY <2>6
<1> HIDE DEF good
<1>3. \A k \in low .. high : k \in good BY <1>1, <1>2, Climbing
<1>4. high \in good BY <1>3
<1> QED BY <1>4 DEF good

\* Division, and that there is one only.
LEMMA DivisionIs ==
    ASSUME NEW n \in Int, NEW d \in Int, d > 0
    PROVE  /\ n = d * (n \div d) + (n % d)
           /\ n \div d \in Int /\ n % d \in 0 .. d - 1
           /\ n >= 0 => n \div d >= 0
<1>1. n = d * (n \div d) + (n % d) OBVIOUS
<1>2. n \div d \in Int /\ n % d \in 0 .. d - 1 OBVIOUS
<1>3. n >= 0 => n \div d >= 0 OBVIOUS
<1> QED BY <1>1, <1>2, <1>3

\* A quotient and a remainder that fit are the ones that \div and % return.
LEMMA DivisionOnce ==
    ASSUME NEW n \in Int, NEW d \in Int, NEW q \in Int, NEW r \in 0 .. d - 1, n = q * d + r
    PROVE  q = n \div d /\ r = n % d
OBVIOUS

\* d divides n.
LEMMA DividesIs ==
    ASSUME NEW d \in Nat \ {0}, NEW n \in Nat
    PROVE  Divides(d, n) <=> \E q \in Nat : n = d * q
<1>1. n = d * (n \div d) + (n % d) /\ n \div d \in Nat BY DivisionIs
<1>2. Divides(d, n) => \E q \in Nat : n = d * q BY <1>1 DEF Divides
<1>3. ASSUME NEW q \in Nat, n = d * q PROVE n % d = 0
  <2>1. n = q * d + 0 /\ 0 \in 0 .. d - 1 BY <1>3
  <2> QED BY <2>1, DivisionOnce
<1> QED BY <1>2, <1>3 DEF Divides

\* A pair and the pair after it have the same common divisors.
LEMMA RoundDivisors ==
    ASSUME NEW a \in Nat, NEW b \in Nat \ {0}, NEW d \in Nat \ {0}
    PROVE  Divides(d, a) /\ Divides(d, b) <=> Divides(d, b) /\ Divides(d, a % b)
<1> DEFINE c == a \div b
           r == a % b
<1>1. a = b * c + r /\ c \in Nat /\ r \in Nat BY DivisionIs
<1> HIDE DEF c, r
<1>2. ASSUME Divides(d, b), Divides(d, r) PROVE Divides(d, a)
  <2>1. PICK p \in Nat : b = d * p BY <1>2, DividesIs
  <2>2. PICK q \in Nat : r = d * q BY <1>1, <1>2, DividesIs
  <2>3. a = d * (p * c + q) /\ p * c + q \in Nat BY <1>1, <2>1, <2>2
  <2> QED BY <2>3, DividesIs
<1>3. ASSUME Divides(d, b), Divides(d, a) PROVE Divides(d, r)
  <2>1. PICK p \in Nat : b = d * p BY <1>3, DividesIs
  <2>2. PICK q \in Nat : a = d * q BY <1>3, DividesIs
  <2>3. r = d * (q - p * c) BY <1>1, <2>1, <2>2
  <2>4. q - p * c >= 0 /\ q - p * c \in Int
    <3> DEFINE x == q - p * c
    <3>1. x \in Int /\ d * x >= 0 BY <1>1, <2>3
    <3> HIDE DEF x
    <3>2. x >= 0 BY <3>1
    <3> QED BY <3>1, <3>2 DEF x
  <2>5. q - p * c \in Nat BY <2>4
  <2> QED BY <1>1, <2>3, <2>5, DividesIs
<1> QED BY <1>2, <1>3 DEF r

(***************************************************************************)
(* Euclid                                                                  *)
(***************************************************************************)

\* The recursion defines what it says.
LEMMA RemaindersAre ==
    ASSUME NEW left \in Nat, NEW right \in Nat
    PROVE  LET r == Remainders(left, right)
           IN  /\ r \in [0 .. right -> Nat \X Nat]
               /\ \A i \in 0 .. right :
                     r[i] = IF i = 0 THEN <<left, right>>
                            ELSE IF r[i - 1][2] = 0 THEN <<r[i - 1][1], r[i - 1][2]>>
                            ELSE <<r[i - 1][2], r[i - 1][1] % r[i - 1][2]>>
<1> DEFINE round(p) == IF p[2] = 0 THEN <<p[1], p[2]>> ELSE <<p[2], p[1] % p[2]>>
           step == [i \in 0 .. right |-> [p \in Nat \X Nat |-> round(p)]]
           body(f) == [i \in 0 .. right |-> IF i = 0 THEN <<left, right>>
                                            ELSE LET a == f[i - 1][1] IN LET b == f[i - 1][2] IN
                                                 IF b = 0 THEN <<a, b>> ELSE <<b, a % b>>]
<1>1. \A p \in Nat \X Nat : round(p) \in Nat \X Nat
  <2> SUFFICES ASSUME NEW a \in Nat, NEW b \in Nat PROVE round(<<a, b>>) \in Nat \X Nat OBVIOUS
  <2>1. b # 0 => a % b \in Nat BY DivisionIs
  <2> QED BY <2>1
<1>2. step \in [0 .. right -> [Nat \X Nat -> Nat \X Nat]] BY <1>1
<1>3. PICK f : Recurs(f, 0, right, Nat \X Nat, <<left, right>>, step)
  <2> DEFINE S == Nat \X Nat
             first == <<left, right>>
  <2>1. first \in S /\ 0 <= right OBVIOUS
  <2>2. step \in [0 .. right -> [S -> S]] BY <1>2
  <2> HIDE DEF step, S, first
  <2>3. \E f : Recurs(f, 0, right, S, first, step) BY <2>1, <2>2, Recursion
  <2> QED BY <2>3 DEF S, first
<1>4. \A i \in 0 .. right : f[i] = IF i = 0 THEN <<left, right>> ELSE round(f[i - 1])
  <2> TAKE i \in 0 .. right
  <2>1. i # 0 => f[i - 1] \in Nat \X Nat BY <1>3 DEF Recurs
  <2> QED BY <1>3, <2>1 DEF Recurs
<1>5. f = body(f)
  <2>1. f = [i \in 0 .. right |-> f[i]] BY <1>3 DEF Recurs
  <2> QED BY <1>4, <2>1
<1>6. Remainders(left, right) = CHOOSE g : g = body(g) BY DEF Remainders
<1>7. Remainders(left, right) = body(Remainders(left, right))
  <2> HIDE DEF body
  <2> QED BY <1>5, <1>6
<1> DEFINE r == Remainders(left, right)
<1>8. \A i \in 0 .. right : r[i] = IF i = 0 THEN <<left, right>> ELSE round(r[i - 1])
  BY <1>7
<1>9. \A i \in 0 .. right : r[i] \in Nat \X Nat
  <2> DEFINE good == {i \in 0 .. right : r[i] \in Nat \X Nat}
  <2>1. 0 \in good
    <3>1. 0 \in 0 .. right OBVIOUS
    <3>2. r[0] = <<left, right>> BY <1>8, <3>1
    <3>3. r[0] \in Nat \X Nat BY <3>2
    <3> QED BY <3>1, <3>3
  <2>2. ASSUME NEW i \in 0 .. right, i # 0, i - 1 \in good PROVE i \in good
    <3>1. r[i - 1] \in Nat \X Nat /\ r[i] = round(r[i - 1]) BY <1>8, <2>2
    <3> QED BY <1>1, <3>1
  <2> HIDE DEF good
  <2>3. 0 \in Int /\ right \in Int OBVIOUS
  <2>4. \A i \in 0 .. right : i # 0 /\ i - 1 \in good => i \in good BY <2>2
  <2>5. \A i \in 0 .. right : i \in good BY <2>1, <2>3, <2>4, Climbing
  <2> QED BY <2>5 DEF good
<1>10. r \in [0 .. right -> Nat \X Nat]
  <2> HIDE DEF r
  <2>1. r = [i \in 0 .. right |-> r[i]] BY <1>7 DEF r
  <2> QED BY <1>9, <2>1
<1> QED BY <1>8, <1>10

\* Every round keeps the common divisors and makes the second number smaller.
LEMMA RemaindersKeep ==
    ASSUME NEW left \in Nat, NEW right \in Nat, NEW d \in Nat \ {0}
    PROVE  LET last == Remainders(left, right)[right]
           IN  /\ last[2] = 0
               /\ Divides(d, last[1]) <=> Divides(d, left) /\ Divides(d, right)
<1> DEFINE r == Remainders(left, right)
           good == {i \in 0 .. right : /\ r[i][2] <= right - i
                                       /\ Divides(d, r[i][1]) /\ Divides(d, r[i][2])
                                            <=> Divides(d, left) /\ Divides(d, right)}
<1>0. /\ r \in [0 .. right -> Nat \X Nat]
      /\ \A i \in 0 .. right :
            r[i] = IF i = 0 THEN <<left, right>>
                   ELSE IF r[i - 1][2] = 0 THEN <<r[i - 1][1], r[i - 1][2]>>
                   ELSE <<r[i - 1][2], r[i - 1][1] % r[i - 1][2]>>
  BY RemaindersAre
<1> HIDE DEF r
<1>1. 0 \in good BY <1>0
<1>2. ASSUME NEW i \in 0 .. right, i # 0, i - 1 \in good PROVE i \in good
  <2>1. r[i - 1] \in Nat \X Nat BY <1>0, <1>2
  <2>2. PICK a \in Nat, b \in Nat : r[i - 1] = <<a, b>> BY <2>1
  <2>3. r[i] = IF b = 0 THEN <<a, b>> ELSE <<b, a % b>>
    <3>1. r[i - 1][1] = a /\ r[i - 1][2] = b BY <2>2
    <3> QED BY <1>0, <1>2, <3>1
  <2>4. b <= right - (i - 1) /\ (Divides(d, a) /\ Divides(d, b) <=> Divides(d, left) /\ Divides(d, right))
    BY <1>2, <2>2
  <2>5. CASE b = 0 BY <2>3, <2>4, <2>5
  <2>6. CASE b # 0
    <3>1. a % b \in 0 .. b - 1 BY <2>6, DivisionIs
    <3>2. Divides(d, a) /\ Divides(d, b) <=> Divides(d, b) /\ Divides(d, a % b)
      BY <2>6, RoundDivisors
    <3> QED BY <2>3, <2>4, <2>6, <3>1, <3>2
  <2> QED BY <2>5, <2>6
<1> HIDE DEF good
<1>3. \A i \in 0 .. right : i \in good
  <2>1. 0 \in Int /\ right \in Int OBVIOUS
  <2>2. \A i \in 0 .. right : i # 0 /\ i - 1 \in good => i \in good BY <1>2
  <2> QED BY <1>1, <2>1, <2>2, Climbing
<1>4. right \in good BY <1>3
<1>5. r[right] \in Nat \X Nat BY <1>0
<1>6. r[right][2] = 0 BY <1>4, <1>5 DEF good
<1>7. Divides(d, 0) BY DivisionOnce DEF Divides
<1> QED BY <1>4, <1>6, <1>7 DEF good, r

\* What the rounds leave divides both numbers, and no greater number does.
LEMMA GcdIsGreatest ==
    ASSUME NEW left \in Int, NEW right \in Int
    PROVE  euclidean_gcd(left, right).result = GcdReference(left, right)
<1> DEFINE a == Absolute(left)
           b == Absolute(right)
           g == Remainders(a, b)[b][1]
<1>1. a \in Nat /\ b \in Nat BY DEF Absolute
<1>2. euclidean_gcd(left, right).result = g BY DEF euclidean_gcd
<1> HIDE DEF a, b
<1>3. g \in Nat /\ Remainders(a, b)[b][2] = 0 /\ Remainders(a, b)[b] = <<g, 0>>
  <2>1. Remainders(a, b)[b] \in Nat \X Nat
    <3>1. Remainders(a, b) \in [0 .. b -> Nat \X Nat] BY <1>1, RemaindersAre
    <3> QED BY <1>1, <3>1
  <2>2. Remainders(a, b)[b][2] = 0 BY <1>1, RemaindersKeep
  <2> QED BY <2>1, <2>2
<1>4. \A d \in Nat \ {0} : Divides(d, g) <=> Divides(d, a) /\ Divides(d, b)
  BY <1>1, RemaindersKeep
<1> HIDE DEF g
<1>5. ASSUME NEW n \in Nat \ {0} PROVE Divides(n, n) /\ \A d \in Nat \ {0} : Divides(d, n) => d <= n
  <2>1. n = n * 1 BY <1>5
  <2>2. Divides(n, n) BY <2>1, DividesIs
  <2>3. ASSUME NEW d \in Nat \ {0}, Divides(d, n) PROVE d <= n
    <3>1. PICK q \in Nat : n = d * q BY <2>3, DividesIs
    <3>2. q >= 1
      <4>1. q = 0 => d * q = 0 OBVIOUS
      <4> QED BY <3>1, <4>1
    <3>3. d * q >= d BY <3>2
    <3> QED BY <3>1, <3>3
  <2> QED BY <2>2, <2>3
<1>6. \A d \in Nat \ {0} : Divides(d, 0)
  <2> TAKE d \in Nat \ {0}
  <2>1. 0 = d * 0 OBVIOUS
  <2> QED BY <2>1, DividesIs
<1>7. \A m, n \in Nat : (\A d \in Nat \ {0} : Divides(d, m) <=> Divides(d, n)) => m = n
  <2>1. ASSUME NEW m \in Nat, NEW n \in Nat, m < n,
               \A d \in Nat \ {0} : Divides(d, m) <=> Divides(d, n)
        PROVE  FALSE
    <3>1. n \in Nat \ {0} /\ n + 1 \in Nat \ {0} BY <2>1
    <3>2. CASE m # 0
      <4>1. m \in Nat \ {0} BY <3>2
      <4>2. Divides(n, n) BY <1>5, <3>1
      <4>3. Divides(n, m) BY <2>1, <3>1, <4>2
      <4>4. n <= m BY <1>5, <3>1, <4>1, <4>3
      <4> QED BY <2>1, <4>4
    <3>3. CASE m = 0
      <4>1. Divides(n + 1, m) BY <1>6, <3>1, <3>3
      <4>2. Divides(n + 1, n) BY <2>1, <3>1, <4>1
      <4>3. n + 1 <= n BY <1>5, <3>1, <4>2
      <4> QED BY <4>3
    <3> QED BY <3>2, <3>3
  <2>2. ASSUME NEW m \in Nat, NEW n \in Nat, \A d \in Nat \ {0} : Divides(d, m) <=> Divides(d, n)
        PROVE  m = n
    <3>1. m < n \/ n < m \/ m = n OBVIOUS
    <3>2. \A d \in Nat \ {0} : Divides(d, n) <=> Divides(d, m) BY <2>2
    <3> QED BY <2>1, <2>2, <3>1, <3>2
  <2> QED BY <2>2
<1>8. CASE a = 0 \/ b = 0
  <2>1. g = a + b
    <3>1. \A d \in Nat \ {0} : Divides(d, g) <=> Divides(d, a + b) BY <1>1, <1>4, <1>6, <1>8
    <3> QED BY <1>1, <1>3, <1>7, <3>1
  <2> QED BY <1>2, <1>8, <2>1 DEF GcdReference, a, b
<1>9. CASE a # 0 /\ b # 0
  <2> DEFINE greatest(d) == /\ Divides(d, a) /\ Divides(d, b)
                            /\ \A e \in d + 1 .. a : ~(Divides(e, a) /\ Divides(e, b))
  <2>1. g # 0
    <3>1. g = 0 => Divides(a + 1, a) BY <1>1, <1>4, <1>6
    <3>2. ~Divides(a + 1, a)
      <4>1. Divides(a + 1, a) => a + 1 <= a BY <1>1, <1>5, <1>9
      <4> QED BY <1>1, <4>1
    <3> QED BY <3>1, <3>2
  <2>2. Divides(g, a) /\ Divides(g, b) BY <1>3, <1>4, <1>5, <2>1
  <2>3. g \in 1 .. a BY <1>1, <1>3, <1>5, <1>9, <2>1, <2>2
  <2>4. greatest(g)
    <3> SUFFICES ASSUME NEW e \in g + 1 .. a, Divides(e, a), Divides(e, b) PROVE FALSE BY <2>2
    <3>1. e \in Nat \ {0} /\ e > g BY <1>1, <1>3
    <3>2. Divides(e, g) BY <1>4, <3>1
    <3>3. e <= g BY <1>3, <1>5, <2>1, <3>1, <3>2
    <3> QED BY <1>3, <3>1, <3>3
  <2>5. \A d \in 1 .. a : greatest(d) => d = g
    <3> SUFFICES ASSUME NEW d \in 1 .. a, greatest(d) PROVE d = g OBVIOUS
    <3>1. d \in Nat \ {0} BY <1>1
    <3>2. d <= g BY <1>3, <1>4, <1>5, <2>1, <3>1
    <3>3. ~(d < g) BY <1>1, <1>3, <2>2, <2>3, <3>1
    <3> QED BY <1>3, <3>1, <3>2, <3>3
  <2>6. (CHOOSE d \in 1 .. a : greatest(d)) = g
    <3> HIDE DEF greatest
    <3> QED BY <2>3, <2>4, <2>5
  <2> QED BY <1>2, <1>9, <2>6 DEF GcdReference, a, b
<1> QED BY <1>1, <1>8, <1>9

(***************************************************************************)
(* CRC-32                                                                  *)
(***************************************************************************)

\* An element of Xor is in exactly one of the two sets.
LEMMA XorIs == ASSUME NEW x, NEW y, NEW e PROVE e \in Xor(x, y) <=> ~(e \in x <=> e \in y)
BY DEF Xor

\* A bit's step adds up, and what lies behind the register only moves closer.
LEMMA CrcBitAdds ==
    ASSUME NEW b \in SUBSET Nat, NEW m \in SUBSET Nat, 0 \notin m
    PROVE  CrcBit(Xor(b, m)) = Xor(CrcBit(b), ShiftRight(m))
<1>1. \A x \in SUBSET Nat : \A e : e \in ShiftRight(x) <=> e \in Nat /\ e + 1 \in x
  <2> TAKE x \in SUBSET Nat
  <2> TAKE e
  <2>1. ASSUME e \in ShiftRight(x) PROVE e \in Nat /\ e + 1 \in x
    <3>1. PICK i \in x \ {0} : e = i - 1 BY <2>1 DEF ShiftRight
    <3>2. i \in Nat /\ i # 0 OBVIOUS
    <3> QED BY <3>1, <3>2
  <2>2. ASSUME e \in Nat, e + 1 \in x PROVE e \in ShiftRight(x)
    <3>1. e + 1 \in x \ {0} /\ e = (e + 1) - 1 BY <2>2
    <3> QED BY <3>1 DEF ShiftRight
  <2> QED BY <2>1, <2>2
<1>2. Xor(b, m) \in SUBSET Nat BY DEF Xor
<1>3. 0 \in Xor(b, m) <=> 0 \in b BY XorIs
<1>4. ShiftRight(Xor(b, m)) = Xor(ShiftRight(b), ShiftRight(m))
  <2> SUFFICES ASSUME NEW e
               PROVE  e \in ShiftRight(Xor(b, m)) <=> e \in Xor(ShiftRight(b), ShiftRight(m))
    OBVIOUS
  <2> QED BY <1>1, <1>2, XorIs
<1>5. CASE 0 \in b
  <2>1. CrcBit(Xor(b, m)) = Xor(Xor(ShiftRight(b), ShiftRight(m)), Polynomial)
    BY <1>3, <1>4, <1>5 DEF CrcBit
  <2>2. CrcBit(b) = Xor(ShiftRight(b), Polynomial) BY <1>5 DEF CrcBit
  <2> QED BY <2>1, <2>2 DEF Xor
<1>6. CASE 0 \notin b BY <1>3, <1>4, <1>6 DEF CrcBit
<1> QED BY <1>5, <1>6

\* The register stays a word.
LEMMA CrcBitStays == ASSUME NEW b \in SUBSET Word PROVE CrcBit(b) \in SUBSET Word
BY DEF CrcBit, Xor, ShiftRight, Polynomial, Word

\* The bits of the text behind its first j bytes, s places away.
Later(data, j, s) ==
    {x \in Nat : \E l \in j + 1 .. Len(data) : \E i \in data[l] : x = 8 * (l - j - 1) + i + s}

\* What is still to come, one place further; at a byte's end the next one is due.
LEMMA LaterIs ==
    ASSUME NEW data \in Seq(SUBSET (0 .. 7)), NEW j \in Nat
    PROVE  /\ \A s \in Nat : 0 \notin Later(data, j, s + 1)
           /\ \A s \in Nat : ShiftRight(Later(data, j, s + 1)) = Later(data, j, s)
           /\ j < Len(data) => Later(data, j, 0) = Xor(data[j + 1], Later(data, j + 1, 8))
           /\ j = Len(data) => Later(data, j, 0) = {}
<1>0. \A l \in 1 .. Len(data) : data[l] \subseteq 0 .. 7 OBVIOUS
<1>1. ASSUME NEW s \in Nat PROVE 0 \notin Later(data, j, s + 1)
  <2> SUFFICES ASSUME NEW l \in j + 1 .. Len(data), NEW i \in data[l], 0 = 8 * (l - j - 1) + i + (s + 1)
               PROVE  FALSE
    BY DEF Later
  <2>1. i \in Nat BY <1>0
  <2> QED BY <2>1
<1>2. ASSUME NEW s \in Nat PROVE ShiftRight(Later(data, j, s + 1)) = Later(data, j, s)
  <2>1. ASSUME NEW e \in Later(data, j, s) PROVE e \in ShiftRight(Later(data, j, s + 1))
    <3>1. PICK l \in j + 1 .. Len(data) : \E i \in data[l] : e = 8 * (l - j - 1) + i + s
      BY <2>1 DEF Later
    <3>2. PICK i \in data[l] : e = 8 * (l - j - 1) + i + s BY <3>1
    <3>0. i \in Nat BY <1>0
    <3>3. e \in Nat /\ e + 1 = 8 * (l - j - 1) + i + (s + 1) BY <3>1, <3>2, <3>0
    <3>4. e + 1 \in Later(data, j, s + 1) BY <3>3 DEF Later
    <3>5. e + 1 \in Later(data, j, s + 1) \ {0} /\ e = (e + 1) - 1 BY <3>3, <3>4
    <3> QED BY <3>5 DEF ShiftRight
  <2>2. ASSUME NEW e \in ShiftRight(Later(data, j, s + 1)) PROVE e \in Later(data, j, s)
    <3>1. PICK x \in Later(data, j, s + 1) \ {0} : e = x - 1 BY <2>2 DEF ShiftRight
    <3>2. PICK l \in j + 1 .. Len(data) : \E i \in data[l] : x = 8 * (l - j - 1) + i + (s + 1)
      BY <3>1 DEF Later
    <3>3. PICK i \in data[l] : x = 8 * (l - j - 1) + i + (s + 1) BY <3>2
    <3>4. i \in Nat BY <1>0
    <3>5. e \in Nat /\ e = 8 * (l - j - 1) + i + s BY <3>1, <3>3, <3>4
    <3> QED BY <3>5 DEF Later
  <2> QED BY <2>1, <2>2
<1>3. ASSUME j < Len(data) PROVE Later(data, j, 0) = Xor(data[j + 1], Later(data, j + 1, 8))
  <2>1. ASSUME NEW e \in data[j + 1] PROVE e \in Later(data, j, 0) /\ e \notin Later(data, j + 1, 8)
    <3>1. e \in 0 .. 7 /\ j + 1 \in j + 1 .. Len(data) BY <1>0, <1>3
    <3>2. e \in Nat /\ e = 8 * ((j + 1) - j - 1) + e + 0
      <4>1. (j + 1) - j - 1 = 0 OBVIOUS
      <4> QED BY <3>1, <4>1
    <3>3. e \in Later(data, j, 0) BY <3>1, <3>2 DEF Later
    <3>4. ASSUME NEW l \in (j + 1) + 1 .. Len(data), NEW i \in data[l], e = 8 * (l - (j + 1) - 1) + i + 8
          PROVE  FALSE
      <4>1. i \in Nat BY <1>0
      <4>2. l - (j + 1) - 1 \in Nat BY <3>4
      <4> QED BY <3>1, <3>4, <4>1, <4>2
    <3> QED BY <3>3, <3>4 DEF Later
  <2>2. ASSUME NEW e \in Later(data, j + 1, 8) PROVE e \in Later(data, j, 0)
    <3>1. PICK l \in (j + 1) + 1 .. Len(data) : \E i \in data[l] : e = 8 * (l - (j + 1) - 1) + i + 8
      BY <2>2 DEF Later
    <3>2. PICK i \in data[l] : e = 8 * (l - (j + 1) - 1) + i + 8 BY <3>1
    <3>0. i \in Nat BY <1>0
    <3>3. l \in j + 1 .. Len(data) /\ e = 8 * (l - j - 1) + i + 0 /\ e \in Nat BY <3>1, <3>2, <3>0
    <3> QED BY <3>3 DEF Later
  <2>3. ASSUME NEW e \in Later(data, j, 0), e \notin data[j + 1] PROVE e \in Later(data, j + 1, 8)
    <3>1. PICK l \in j + 1 .. Len(data) : \E i \in data[l] : e = 8 * (l - j - 1) + i + 0
      BY <2>3 DEF Later
    <3>2. PICK i \in data[l] : e = 8 * (l - j - 1) + i + 0 BY <3>1
    <3>0. i \in Nat BY <1>0
    <3>3. l # j + 1 BY <2>3, <3>2, <3>0
    <3>4. l \in (j + 1) + 1 .. Len(data) /\ e = 8 * (l - (j + 1) - 1) + i + 8 /\ e \in Nat
      BY <3>1, <3>2, <3>0, <3>3
    <3> QED BY <3>4 DEF Later
  <2> QED BY <2>1, <2>2, <2>3 DEF Xor
<1>4. ASSUME j = Len(data) PROVE Later(data, j, 0) = {}
  <2>1. j + 1 .. Len(data) = {} BY <1>4
  <2> QED BY <2>1 DEF Later
<1> QED BY <1>1, <1>2, <1>3, <1>4

Byte == SUBSET (0 .. 7)
CrcWord == SUBSET Word

\* The eight steps of a byte take it in and let the rest of the text come closer.
ByteSteps(crc, byte) ==
    LET bits[i \in 0 .. 8] == IF i = 0 THEN Xor(crc, byte) ELSE CrcBit(bits[i - 1])
    IN  bits

\* The eight steps of a byte are what their recursion says.
LEMMA ByteStepsAre ==
    ASSUME NEW crc \in CrcWord, NEW byte \in Byte
    PROVE  /\ ByteSteps(crc, byte)[0] = Xor(crc, byte)
           /\ \A i \in 0 .. 8 : /\ ByteSteps(crc, byte)[i] \in CrcWord
                                /\ i # 0 => ByteSteps(crc, byte)[i] = CrcBit(ByteSteps(crc, byte)[i - 1])
           /\ CrcByte(crc, byte) = ByteSteps(crc, byte)[8]
<1> DEFINE first == Xor(crc, byte)
           step == [i \in 0 .. 8 |-> [b \in CrcWord |-> CrcBit(b)]]
           body(f) == [i \in 0 .. 8 |-> IF i = 0 THEN Xor(crc, byte) ELSE CrcBit(f[i - 1])]
<1>1. first \in CrcWord BY DEF Xor, Word, CrcWord, Byte
<1>2. step \in [0 .. 8 -> [CrcWord -> CrcWord]] BY CrcBitStays DEF CrcWord
<1>3. PICK f : Recurs(f, 0, 8, CrcWord, first, step)
  <2> DEFINE S == CrcWord
             high == 8
  <2>1. first \in S /\ step \in [0 .. high -> [S -> S]] /\ high \in Int /\ 0 <= high BY <1>1, <1>2
  <2> HIDE DEF first, step, S, high
  <2>2. \E f : Recurs(f, 0, high, S, first, step) BY <2>1, Recursion
  <2> QED BY <2>2 DEF S, high
<1>4. /\ f \in [0 .. 8 -> CrcWord]
      /\ \A i \in 0 .. 8 : f[i] = IF i = 0 THEN Xor(crc, byte) ELSE CrcBit(f[i - 1])
  <2>1. f \in [0 .. 8 -> CrcWord] BY <1>3 DEF Recurs
  <2>2. ASSUME NEW i \in 0 .. 8, i # 0 PROVE f[i] = CrcBit(f[i - 1])
    <3>1. f[i - 1] \in CrcWord BY <2>1, <2>2
    <3> QED BY <1>3, <2>2, <3>1 DEF Recurs
  <2> QED BY <1>3, <2>1, <2>2 DEF Recurs
<1>5. f = body(f)
  <2>1. f = [i \in 0 .. 8 |-> f[i]] BY <1>4
  <2> QED BY <1>4, <2>1
<1>6. ByteSteps(crc, byte) = CHOOSE g : g = body(g) BY DEF ByteSteps
<1>7. ByteSteps(crc, byte) = body(ByteSteps(crc, byte))
  <2> HIDE DEF body
  <2> QED BY <1>5, <1>6
<1> DEFINE bits == ByteSteps(crc, byte)
<1>8. CrcByte(crc, byte) = bits[8] BY DEF CrcByte, ByteSteps
<1> HIDE DEF bits
<1>9. \A i \in 0 .. 8 : bits[i] = IF i = 0 THEN Xor(crc, byte) ELSE CrcBit(bits[i - 1])
  BY <1>7 DEF bits
<1>10. \A i \in 0 .. 8 : bits[i] \in CrcWord
  <2> DEFINE good == {i \in 0 .. 8 : bits[i] \in CrcWord}
  <2>1. 0 \in good BY <1>1, <1>9
  <2>2. \A i \in 0 .. 8 : i # 0 /\ i - 1 \in good => i \in good BY <1>9, CrcBitStays DEF CrcWord
  <2> HIDE DEF good
  <2>3. \A i \in 0 .. 8 : i \in good BY <2>1, <2>2, Climbing
  <2> QED BY <2>3 DEF good
<1> QED BY <1>8, <1>9, <1>10 DEF bits

\* A byte's steps move what is still to come along with the register.
LEMMA ByteMoves ==
    ASSUME NEW data \in Seq(Byte), NEW j \in Nat, j < Len(data), NEW crc \in CrcWord
    PROVE  \A i \in 0 .. 8 :
              /\ ByteSteps(crc, data[j + 1])[i] \in CrcWord
              /\ i # 0 => CrcBit(Xor(ByteSteps(crc, data[j + 1])[i - 1], Later(data, j + 1, 8 - (i - 1))))
                            = Xor(ByteSteps(crc, data[j + 1])[i], Later(data, j + 1, 8 - i))
<1> DEFINE byte == data[j + 1]
           bits == ByteSteps(crc, byte)
<1>1. byte \in Byte OBVIOUS
<1>2. \A i \in 0 .. 8 : bits[i] \in CrcWord /\ (i # 0 => bits[i] = CrcBit(bits[i - 1]))
  <2> HIDE DEF byte
  <2> QED BY <1>1, ByteStepsAre
<1> HIDE DEF bits
<1>3. ASSUME NEW i \in 0 .. 8, i # 0
      PROVE  CrcBit(Xor(bits[i - 1], Later(data, j + 1, 8 - (i - 1)))) = Xor(bits[i], Later(data, j + 1, 8 - i))
  <2> DEFINE m == Later(data, j + 1, (8 - i) + 1)
  <2>1. 8 - (i - 1) = (8 - i) + 1 /\ 8 - i \in Nat /\ j + 1 \in Nat BY <1>3
  <2>2. m \in SUBSET Nat BY DEF Later
  <2>3. 0 \notin m /\ ShiftRight(m) = Later(data, j + 1, 8 - i) BY <2>1, LaterIs DEF Byte
  <2> HIDE DEF m
  <2>4. bits[i - 1] \in SUBSET Nat
    <3>1. i - 1 \in 0 .. 8 BY <1>3
    <3>2. Word \subseteq Nat BY DEF Word
    <3> QED BY <1>2, <3>1, <3>2 DEF CrcWord
  <2>5. CrcBit(Xor(bits[i - 1], m)) = Xor(CrcBit(bits[i - 1]), ShiftRight(m))
    BY <2>2, <2>3, <2>4, CrcBitAdds
  <2>6. bits[i] = CrcBit(bits[i - 1]) BY <1>2, <1>3
  <2> QED BY <2>1, <2>3, <2>5, <2>6 DEF m
<1> QED BY <1>2, <1>3 DEF bits

\* The register after each byte.
Registers(data) ==
    LET crc[i \in 0 .. Len(data)] == IF i = 0 THEN Word ELSE CrcByte(crc[i - 1], data[i])
    IN  crc

\* The register after each byte is what its recursion says.
LEMMA RegistersAre ==
    ASSUME NEW data \in Seq(Byte)
    PROVE  /\ Registers(data)[0] = Word
           /\ \A i \in 0 .. Len(data) :
                 /\ Registers(data)[i] \in CrcWord
                 /\ i # 0 => Registers(data)[i] = ByteSteps(Registers(data)[i - 1], data[i])[8]
           /\ ~(Len(data) > MaxBytes) =>
                 crc32_utf8(data) = [kind |-> "crc32", result |-> Xor(Registers(data)[Len(data)], Word)]
<1> DEFINE n == Len(data)
           step == [i \in 0 .. n |-> [c \in CrcWord |-> IF i = 0 THEN Word ELSE CrcByte(c, data[i])]]
           body(f) == [i \in 0 .. n |-> IF i = 0 THEN Word ELSE CrcByte(f[i - 1], data[i])]
<1>0. n \in Nat /\ \A i \in 0 .. n : i # 0 => data[i] \in Byte OBVIOUS
<1>1. \A c \in CrcWord : \A i \in 0 .. n : i # 0 => CrcByte(c, data[i]) \in CrcWord
  <2> TAKE c \in CrcWord
  <2> TAKE i \in 0 .. n
  <2> HAVE i # 0
  <2>1. data[i] \in Byte /\ 8 \in 0 .. 8 BY <1>0
  <2> DEFINE byte == data[i]
  <2> HIDE DEF byte
  <2>2. \A k \in 0 .. 8 : ByteSteps(c, byte)[k] \in CrcWord BY <2>1, ByteStepsAre DEF byte
  <2>3. CrcByte(c, byte) = ByteSteps(c, byte)[8] BY <2>1, ByteStepsAre DEF byte
  <2> QED BY <2>1, <2>2, <2>3 DEF byte
<1>2. step \in [0 .. n -> [CrcWord -> CrcWord]]
  <2>1. Word \in CrcWord BY DEF CrcWord
  <2> HIDE DEF n
  <2>2. \A i \in 0 .. n : \A c \in CrcWord : (IF i = 0 THEN Word ELSE CrcByte(c, data[i])) \in CrcWord
    BY <1>1, <2>1
  <2> QED BY <2>2
<1>3. PICK f : Recurs(f, 0, n, CrcWord, Word, step)
  <2> DEFINE S == CrcWord
  <2>1. Word \in S /\ n \in Int /\ 0 <= n BY <1>0 DEF CrcWord
  <2> HIDE DEF n, step
  <2>3. step \in [0 .. n -> [S -> S]] BY <1>2
  <2> HIDE DEF S
  <2>2. \E f : Recurs(f, 0, n, S, Word, step) BY <2>1, <2>3, Recursion
  <2> QED BY <2>2 DEF S
<1>4. /\ f \in [0 .. n -> CrcWord]
      /\ \A i \in 0 .. n : f[i] = IF i = 0 THEN Word ELSE CrcByte(f[i - 1], data[i])
  <2> HIDE DEF n
  <2>1. f \in [0 .. n -> CrcWord] BY <1>3 DEF Recurs
  <2>2. ASSUME NEW i \in 0 .. n, i # 0 PROVE f[i] = CrcByte(f[i - 1], data[i])
    <3>1. f[i - 1] \in CrcWord BY <1>0, <2>1, <2>2
    <3> QED BY <1>3, <2>2, <3>1 DEF Recurs
  <2> QED BY <1>0, <1>3, <2>1, <2>2 DEF Recurs
<1>5. f = body(f)
  <2> HIDE DEF n
  <2>1. f = [i \in 0 .. n |-> f[i]] BY <1>4
  <2> QED BY <1>4, <2>1
<1>6. Registers(data) = CHOOSE g : g = body(g) BY DEF Registers
<1>7. Registers(data) = body(Registers(data))
  <2> HIDE DEF body
  <2> QED BY <1>5, <1>6
<1> DEFINE r == Registers(data)
<1>8. ~(n > MaxBytes) => crc32_utf8(data) = [kind |-> "crc32", result |-> Xor(r[n], Word)]
  BY DEF crc32_utf8, Registers
<1>9. \A i \in 0 .. n : r[i] = IF i = 0 THEN Word ELSE CrcByte(r[i - 1], data[i])
  <2> HIDE DEF r, n
  <2> QED BY <1>7 DEF r
<1> HIDE DEF r
<1>10. \A i \in 0 .. n : r[i] \in CrcWord
  <2> DEFINE good == {i \in 0 .. n : r[i] \in CrcWord}
  <2> HIDE DEF n
  <2>1. 0 \in good BY <1>0, <1>9 DEF CrcWord
  <2>2. ASSUME NEW i \in 0 .. n, i # 0, i - 1 \in good PROVE i \in good
    <3>1. CrcByte(r[i - 1], data[i]) \in CrcWord BY <1>1, <2>2
    <3> QED BY <1>9, <2>2, <3>1
  <2> HIDE DEF good
  <2>3. 0 \in Int /\ n \in Int BY <1>0
  <2>4. \A i \in 0 .. n : i # 0 /\ i - 1 \in good => i \in good BY <2>2
  <2>5. \A i \in 0 .. n : i \in good BY <2>1, <2>3, <2>4, Climbing
  <2> QED BY <2>5 DEF good
<1>11. \A i \in 0 .. n : i # 0 => r[i] = ByteSteps(r[i - 1], data[i])[8]
  <2> TAKE i \in 0 .. n
  <2> HAVE i # 0
  <2>1. r[i - 1] \in CrcWord /\ data[i] \in Byte BY <1>0, <1>10
  <2> QED BY <1>9, <2>1, ByteStepsAre
<1>12. r[0] = Word BY <1>0, <1>9
<1> QED BY <1>8, <1>10, <1>11, <1>12 DEF r

\* The long division: what is left after k bits, and where the bits of the text begin.
Message(data) ==
    LET n == 8 * Len(data) IN UNION {{n + 39 - (8 * j + i) : i \in data[j]} : j \in DOMAIN data}
Dividend(data) == Xor(Message(data), {8 * Len(data) + k : k \in Word})
Subtracted(before, top) ==
    IF top \in before THEN Xor(before, {d + top - 32 : d \in Divisor}) ELSE before
Rests(data) ==
    LET n == 8 * Len(data)
        rest[k \in 0 .. n] ==
            IF k = 0 THEN Dividend(data)
            ELSE LET top == n + 32 - k
                     before == rest[k - 1]
                 IN  IF top \in before THEN Xor(before, {d + top - 32 : d \in Divisor})
                     ELSE before
    IN  rest

\* A step of the division removes the highest power.
LEMMA SubtractedLower ==
    ASSUME NEW top \in Nat, top >= 32, NEW before \in SUBSET (0 .. top)
    PROVE  Subtracted(before, top) \in SUBSET (0 .. top - 1)
<1>1. ASSUME NEW p, p \in {d + top - 32 : d \in Divisor}
      PROVE  p \in 0 .. top
  BY <1>1 DEF Divisor
<1>2. top \in {d + top - 32 : d \in Divisor}
  <2>1. 32 \in Divisor /\ 32 + top - 32 = top BY DEF Divisor
  <2> QED BY <2>1
<1>3. CASE top \in before
  <2> DEFINE minus == {d + top - 32 : d \in Divisor}
  <2>1. Subtracted(before, top) = Xor(before, minus) BY <1>3 DEF Subtracted
  <2> HIDE DEF minus
  <2>2. top \in minus /\ minus \subseteq 0 .. top BY <1>1, <1>2 DEF minus
  <2>3. top \notin Xor(before, minus) BY <1>3, <2>2, XorIs
  <2>4. \A p \in Xor(before, minus) : p \in 0 .. top BY <2>2 DEF Xor
  <2> QED BY <2>1, <2>3, <2>4
<1>4. CASE top \notin before BY <1>4 DEF Subtracted
<1> QED BY <1>3, <1>4

\* The first bit of the text is the highest.
LEMMA DividendIs ==
    ASSUME NEW data \in Seq(Byte)
    PROVE  LET n == 8 * Len(data)
           IN  /\ Dividend(data) \in SUBSET (0 .. n + 31)
               /\ \A p \in 0 .. n + 31 : p \in Dividend(data) <=> n + 31 - p \in Xor(Word, Later(data, 0, 0))
<1> DEFINE n == 8 * Len(data)
<1>0. \A j \in DOMAIN data : j \in 1 .. Len(data) /\ data[j] \subseteq 0 .. 7 BY DEF Byte
<1>N. n \in Nat OBVIOUS
<1>L. n = 8 * Len(data) /\ Len(data) \in Nat /\ DOMAIN data = 1 .. Len(data) OBVIOUS
<1> HIDE DEF n
<1>1. ASSUME NEW p \in Message(data) PROVE p \in 0 .. n + 31 /\ n + 31 - p \in Later(data, 0, 0)
  <2>1. PICK j \in DOMAIN data : p \in {n + 39 - (8 * j + i) : i \in data[j]} BY <1>1 DEF Message, n
  <2>2. PICK i \in data[j] : p = n + 39 - (8 * j + i) BY <2>1
  <2>3. j \in 1 .. Len(data) /\ i \in 0 .. 7 BY <1>0
  <2>a. j \in Int /\ i \in Int /\ 1 <= j /\ j <= Len(data) /\ 0 <= i /\ i <= 7 /\ Len(data) \in Int /\ n \in Int
    BY <1>L, <1>N, <2>3
  <2>b. p \in Int /\ n + 31 - p = 8 * (j - 1) + i BY ONLY <2>2, <2>a, SMT
  <2>c. j - 0 - 1 = j - 1 /\ 8 * (j - 1) + i + 0 = 8 * (j - 1) + i BY <2>a
  <2>d. n + 31 - p = 8 * (j - 0 - 1) + i + 0 BY <2>b, <2>c
  <2>e. 0 + 1 = 1 OBVIOUS
  <2>4. n + 31 - p = 8 * (j - 0 - 1) + i + 0 /\ j \in 0 + 1 .. Len(data) BY <2>3, <2>d, <2>e
  <2>f. 8 * j <= n /\ 8 <= 8 * j BY <1>L, <2>a
  <2>g. p >= 0 /\ p <= n + 31 BY <2>2, <2>a, <2>f
  <2>5. p \in 0 .. n + 31 /\ n + 31 - p \in Nat BY <2>a, <2>b, <2>g
  <2> QED BY <2>4, <2>5 DEF Later
<1>2. ASSUME NEW p \in 0 .. n + 31, n + 31 - p \in Later(data, 0, 0) PROVE p \in Message(data)
  <2>1. PICK j \in 0 + 1 .. Len(data) : \E i \in data[j] : n + 31 - p = 8 * (j - 0 - 1) + i + 0
    BY <1>2 DEF Later
  <2>2. PICK i \in data[j] : n + 31 - p = 8 * (j - 0 - 1) + i + 0 BY <2>1
  <2>3. j \in DOMAIN data /\ j \in Nat /\ i \in 0 .. 7 BY <1>0, <1>L
  <2>a. j \in Int /\ i \in Int /\ p \in Int /\ n \in Int BY <1>N, <1>2, <2>3
  <2>b. j - 0 - 1 = j - 1 BY <2>a
  <2>c. n + 31 - p = 8 * (j - 1) + i BY <2>2, <2>a, <2>b
  <2>4. p = n + 39 - (8 * j + i) BY <2>a, <2>c
  <2>5. p \in {n + 39 - (8 * j + k) : k \in data[j]} BY <2>4
  <2> QED BY <2>3, <2>5 DEF Message, n
<1>3. ASSUME NEW p PROVE p \in {n + k : k \in Word} <=> p \in 0 .. n + 31 /\ n + 31 - p \in Word
  <2>1. ASSUME p \in {n + k : k \in Word} PROVE p \in 0 .. n + 31 /\ n + 31 - p \in Word
    <3>1. PICK k \in Word : p = n + k BY <2>1
    <3>2. k \in 0 .. 31 BY DEF Word
    <3> QED BY <1>N, <3>1, <3>2 DEF Word
  <2>2. ASSUME p \in 0 .. n + 31, n + 31 - p \in Word PROVE p \in {n + k : k \in Word}
    <3>1. p \in Nat /\ n + 31 - p \in 0 .. 31 BY <1>N, <2>2 DEF Word
    <3>2. p - n \in 0 .. 31 /\ p = n + (p - n) BY <1>N, <3>1
    <3> QED BY <3>2 DEF Word
  <2> QED BY <2>1, <2>2
<1>4. Dividend(data) = Xor(Message(data), {n + k : k \in Word}) BY DEF Dividend, n
<1>5. Dividend(data) \in SUBSET (0 .. n + 31) BY <1>1, <1>3, <1>4 DEF Xor
<1>6. \A p \in 0 .. n + 31 : p \in Dividend(data) <=> n + 31 - p \in Xor(Word, Later(data, 0, 0))
  BY <1>1, <1>2, <1>3, <1>4, XorIs
<1> QED BY <1>5, <1>6 DEF n

\* Each step of the division is one of the register, seen from the other end.
LEMMA SubtractedIs ==
    ASSUME NEW top \in Nat, top >= 32, NEW before \in SUBSET (0 .. top),
           NEW regs \in SUBSET Nat, \A p \in 0 .. top : p \in before <=> top - p \in regs
    PROVE  \A p \in 0 .. top - 1 : p \in Subtracted(before, top) <=> (top - 1) - p \in CrcBit(regs)
<1>1. top \in before <=> 0 \in regs
  <2>1. top \in 0 .. top /\ top - top = 0 OBVIOUS
  <2> QED BY <2>1
<1>2. ASSUME NEW p \in 0 .. top - 1 PROVE p \in before <=> (top - 1) - p \in ShiftRight(regs)
  <2>1. p \in 0 .. top /\ top - p \in Nat \ {0} /\ (top - 1) - p = (top - p) - 1 OBVIOUS
  <2>2. p \in before <=> top - p \in regs BY <2>1
  <2>3. ASSUME top - p \in regs PROVE (top - 1) - p \in ShiftRight(regs)
    <3>1. top - p \in regs \ {0} BY <2>1, <2>3
    <3> QED BY <2>1, <3>1 DEF ShiftRight
  <2>4. ASSUME (top - 1) - p \in ShiftRight(regs) PROVE top - p \in regs
    <3>1. PICK i \in regs \ {0} : (top - 1) - p = i - 1 BY <2>4 DEF ShiftRight
    <3>2. i \in Nat OBVIOUS
    <3>3. i = top - p BY <3>1, <3>2
    <3> QED BY <3>3
  <2> QED BY <2>2, <2>3, <2>4
<1>3. ASSUME NEW p \in 0 .. top - 1
      PROVE  p \in {d + top - 32 : d \in Divisor} <=> (top - 1) - p \in Polynomial
  <2>1. ASSUME NEW d \in Divisor, p = d + top - 32 PROVE (top - 1) - p \in Polynomial
    <3>1. d \in Nat /\ d # 32 /\ (top - 1) - p = 31 - d BY <2>1 DEF Divisor
    <3>2. 31 - d \in Polynomial BY <3>1 DEF Divisor, Polynomial
    <3> QED BY <3>1, <3>2
  <2>2. ASSUME (top - 1) - p \in Polynomial PROVE p \in {d + top - 32 : d \in Divisor}
    <3> DEFINE e == (top - 1) - p
    <3>1. e \in Int /\ p = (31 - e) + top - 32 OBVIOUS
    <3>2. 31 - e \in Divisor
      <4> HIDE DEF e
      <4>1. e \in Polynomial BY <2>2 DEF e
      <4> QED BY <4>1 DEF Divisor, Polynomial
    <3> QED BY <3>1, <3>2
  <2> QED BY <2>1, <2>2
<1>4. CASE top \in before
  <2>1. Subtracted(before, top) = Xor(before, {d + top - 32 : d \in Divisor}) BY <1>4 DEF Subtracted
  <2>2. CrcBit(regs) = Xor(ShiftRight(regs), Polynomial) BY <1>1, <1>4 DEF CrcBit
  <2> QED BY <1>2, <1>3, <2>1, <2>2, XorIs
<1>5. CASE top \notin before
  <2>1. Subtracted(before, top) = before /\ CrcBit(regs) = ShiftRight(regs)
    BY <1>1, <1>5 DEF Subtracted, CrcBit
  <2> QED BY <1>2, <2>1
<1> QED BY <1>4, <1>5

\* The rests of the division are what their recursion says.
LEMMA RestsAre ==
    ASSUME NEW data \in Seq(Byte)
    PROVE  LET n == 8 * Len(data)
           IN  /\ Rests(data)[0] = Dividend(data)
               /\ \A k \in 0 .. n : k # 0 => Rests(data)[k] = Subtracted(Rests(data)[k - 1], n + 32 - k)
<1> DEFINE n == 8 * Len(data)
           S == SUBSET Int
           step == [k \in 0 .. n |-> [before \in S |-> Subtracted(before, n + 32 - k)]]
           body(f) == [k \in 0 .. n |-> IF k = 0 THEN Dividend(data)
                                        ELSE LET top == n + 32 - k
                                                 before == f[k - 1]
                                             IN  IF top \in before
                                                 THEN Xor(before, {d + top - 32 : d \in Divisor})
                                                 ELSE before]
<1>1. n \in Nat OBVIOUS
<1>2. Dividend(data) \in S
  <2>1. Dividend(data) \in SUBSET (0 .. n + 31) BY DividendIs
  <2> QED BY <1>1, <2>1
<1>6. Rests(data) = CHOOSE g : g = body(g) BY DEF Rests
<1>3. step \in [0 .. n -> [S -> S]]
  <2> HIDE DEF n
  <2>1. ASSUME NEW k \in 0 .. n, NEW before \in S PROVE Subtracted(before, n + 32 - k) \in S
    <3>1. Divisor \subseteq Int /\ n + 32 - k \in Int BY <1>1 DEF Divisor
    <3>2. {d + (n + 32 - k) - 32 : d \in Divisor} \subseteq Int BY <3>1
    <3> QED BY <3>2 DEF Subtracted, Xor
  <2> HIDE DEF S
  <2> QED BY <2>1
<1>4. PICK f : Recurs(f, 0, n, S, Dividend(data), step)
  <2> DEFINE first == Dividend(data)
  <2>1. first \in S /\ n \in Int /\ 0 <= n BY <1>1, <1>2
  <2> HIDE DEF n, step, S, first
  <2>2. \E f : Recurs(f, 0, n, S, first, step) BY <1>3, <2>1, Recursion
  <2> QED BY <2>2 DEF first
<1>5. f = body(f)
  <2> HIDE DEF n, S
  <2>1. f \in [0 .. n -> S] BY <1>4 DEF Recurs
  <2>2. ASSUME NEW k \in 0 .. n, k # 0 PROVE f[k] = Subtracted(f[k - 1], n + 32 - k)
    <3>1. f[k - 1] \in S BY <1>1, <2>1, <2>2
    <3> QED BY <1>4, <2>2, <3>1 DEF Recurs
  <2>3. f[0] = Dividend(data) BY <1>4 DEF Recurs
  <2>4. f = [k \in 0 .. n |-> f[k]] BY <2>1
  <2> QED BY <2>2, <2>3, <2>4 DEF Subtracted
<1>7. Rests(data) = body(Rests(data))
  <2> HIDE DEF body
  <2> QED BY <1>5, <1>6
<1>8. \A k \in 0 .. n : Rests(data)[k] = IF k = 0 THEN Dividend(data)
                                          ELSE Subtracted(Rests(data)[k - 1], n + 32 - k)
  <2> DEFINE r == Rests(data)
  <2>1. r = body(r) BY <1>7
  <2> HIDE DEF r, n
  <2> QED BY <2>1 DEF Subtracted, r
<1> QED BY <1>1, <1>8

\* The register and the text behind it are the rest of the division, read backwards.
RestSeen(data, k, regs) ==
    LET last == 8 * Len(data) + 31 - k
    IN  /\ Rests(data)[k] \in SUBSET (0 .. last)
        /\ \A p \in 0 .. last : p \in Rests(data)[k] <=> last - p \in regs

\* One step of the register is one step of the division ...
LEMMA OneBit ==
    ASSUME NEW data \in Seq(Byte), NEW k \in Nat, k < 8 * Len(data),
           NEW regs \in SUBSET Nat, RestSeen(data, k, regs)
    PROVE  RestSeen(data, k + 1, CrcBit(regs))
<1> DEFINE n == 8 * Len(data)
           top == n + 31 - k
           before == Rests(data)[k]
<1>1. n \in Nat /\ k < n OBVIOUS
<1>2. Rests(data)[k + 1] = Subtracted(before, top)
  <2>1. k + 1 \in 0 .. n /\ k + 1 # 0 /\ (k + 1) - 1 = k /\ n + 32 - (k + 1) = top BY <1>1
  <2>2. Rests(data)[k + 1] = Subtracted(Rests(data)[(k + 1) - 1], n + 32 - (k + 1)) BY <2>1, RestsAre
  <2> QED BY <2>1, <2>2
<1>3. before \in SUBSET (0 .. top) /\ \A p \in 0 .. top : p \in before <=> top - p \in regs
  BY DEF RestSeen
<1>4. 8 * Len(data) + 31 - (k + 1) = top - 1 BY <1>1
<1>5. top \in Nat /\ top >= 32 BY <1>1
<1> HIDE DEF top, before, n
<1>6. Subtracted(before, top) \in SUBSET (0 .. top - 1) BY <1>3, <1>5, SubtractedLower
<1>7. \A p \in 0 .. top - 1 : p \in Subtracted(before, top) <=> (top - 1) - p \in CrcBit(regs)
  BY <1>3, <1>5, SubtractedIs
<1> QED BY <1>2, <1>4, <1>6, <1>7 DEF RestSeen

\* ... and so the eight steps of a byte are eight.
LEMMA OneByte ==
    ASSUME NEW data \in Seq(Byte), NEW j \in Nat, j < Len(data),
           RestSeen(data, 8 * j, Xor(Registers(data)[j], Later(data, j, 0)))
    PROVE  RestSeen(data, 8 * (j + 1), Xor(Registers(data)[j + 1], Later(data, j + 1, 0)))
<1> DEFINE crc == Registers(data)[j]
           byte == data[j + 1]
           bits == ByteSteps(crc, byte)
           here(i) == Xor(bits[i], Later(data, j + 1, 8 - i))
           good == {i \in 0 .. 8 : RestSeen(data, 8 * j + i, here(i))}
<1>1. j \in 0 .. Len(data) /\ j + 1 \in 0 .. Len(data) /\ j + 1 # 0 /\ (j + 1) - 1 = j OBVIOUS
<1>2. crc \in CrcWord BY <1>1, RegistersAre
<1>3. byte \in Byte OBVIOUS
<1>4. Registers(data)[j + 1] = bits[8] BY <1>1, RegistersAre
<1>5. bits[0] = Xor(crc, byte)
  <2> HIDE DEF crc, byte
  <2> QED BY <1>2, <1>3, ByteStepsAre
<1>6. Later(data, j, 0) = Xor(byte, Later(data, j + 1, 8)) BY LaterIs DEF Byte
<1>7. \A i \in 0 .. 8 : bits[i] \in CrcWord /\ (i # 0 => CrcBit(here(i - 1)) = here(i))
  <2> HIDE DEF crc
  <2> QED BY <1>2, ByteMoves
<1>8. 0 \in good
  <2>1. Xor(crc, Later(data, j, 0)) = Xor(Xor(crc, byte), Later(data, j + 1, 8)) BY <1>6 DEF Xor
  <2>2. 8 * j + 0 = 8 * j /\ 8 - 0 = 8 OBVIOUS
  <2>3. here(0) = Xor(crc, Later(data, j, 0)) BY <1>5, <2>1, <2>2
  <2>4. RestSeen(data, 8 * j + 0, here(0)) BY <2>2, <2>3
  <2> QED BY <2>4
<1>9. ASSUME NEW i \in 0 .. 8, i # 0, i - 1 \in good PROVE i \in good
  <2> DEFINE k == 8 * j + (i - 1)
             regs == here(i - 1)
  <2>1. k \in Nat /\ k < 8 * Len(data) /\ k + 1 = 8 * j + i
    <3>1. j + 1 <= Len(data) /\ Len(data) \in Nat /\ i - 1 <= 7 /\ i - 1 \in Nat BY <1>9
    <3>2. 8 * j + 8 <= 8 * Len(data) BY <3>1
    <3> QED BY <3>1, <3>2
  <2>2. RestSeen(data, k, regs) BY <1>9
  <2>3. regs \in SUBSET Nat
    <3>1. i - 1 \in 0 .. 8 BY <1>9
    <3>W. CrcWord \subseteq SUBSET Nat BY DEF CrcWord, Word
    <3>c. bits[i - 1] \in CrcWord BY <1>7, <3>1
    <3>2. bits[i - 1] \in SUBSET Nat
      <4> HIDE DEF bits
      <4> QED BY <3>W, <3>c
    <3>3. Later(data, j + 1, 8 - (i - 1)) \in SUBSET Nat BY DEF Later
    <3> QED BY <3>2, <3>3 DEF Xor
  <2>4. CrcBit(regs) = here(i) BY <1>7, <1>9
  <2> HIDE DEF k, regs, here
  <2>5. RestSeen(data, k + 1, CrcBit(regs)) BY <2>1, <2>2, <2>3, OneBit
  <2> QED BY <2>1, <2>4, <2>5
<1>10. 8 \in good
  <2> HIDE DEF good
  <2>1. \A i \in 0 .. 8 : i \in good BY <1>8, <1>9, Climbing
  <2> QED BY <2>1
<1>11. RestSeen(data, 8 * j + 8, here(8)) BY <1>10
<1>12. 8 * j + 8 = 8 * (j + 1) /\ 8 - 8 = 0 OBVIOUS
<1> QED BY <1>4, <1>11, <1>12

\* When the text ends the register holds the remainder.
LEMMA CrcIsDivision ==
    ASSUME NEW data \in Seq(Byte), ~(Len(data) > MaxBytes)
    PROVE  crc32_utf8(data) = [kind |-> "crc32", result |-> CrcReference(data)]
<1> DEFINE n == Len(data)
           crc == Registers(data)
           good == {j \in 0 .. n : RestSeen(data, 8 * j, Xor(crc[j], Later(data, j, 0)))}
<1>1. n \in Nat /\ 8 * 0 = 0 OBVIOUS
<1>2. 0 \in good
  <2>1. crc[0] = Word BY RegistersAre
  <2>2. Rests(data)[0] = Dividend(data) BY RestsAre
  <2>3. 8 * n + 31 - 0 = 8 * n + 31 BY <1>1
  <2>4. RestSeen(data, 0, Xor(Word, Later(data, 0, 0))) BY <2>2, <2>3, DividendIs DEF RestSeen
  <2> QED BY <1>1, <2>1, <2>4
<1>3. ASSUME NEW j \in 0 .. n, j # 0, j - 1 \in good PROVE j \in good
  <2> DEFINE h == j - 1
  <2>1. h \in Nat /\ h < Len(data) /\ h + 1 = j BY <1>3
  <2>2. RestSeen(data, 8 * h, Xor(crc[h], Later(data, h, 0))) BY <1>3
  <2> HIDE DEF h
  <2>3. RestSeen(data, 8 * (h + 1), Xor(crc[h + 1], Later(data, h + 1, 0))) BY <2>1, <2>2, OneByte
  <2> QED BY <2>1, <2>3
<1>4. n \in good
  <2> HIDE DEF good, n
  <2>1. \A j \in 0 .. n : j \in good BY <1>1, <1>2, <1>3, Climbing
  <2> QED BY <1>1, <2>1
<1>5. Xor(crc[n], Later(data, n, 0)) = crc[n]
  <2>1. Later(data, n, 0) = {} BY LaterIs DEF Byte
  <2> QED BY <2>1 DEF Xor
<1>6. RestSeen(data, 8 * n, crc[n]) BY <1>4, <1>5
<1>7. crc[n] \in SUBSET (0 .. 31)
  <2>1. n \in 0 .. n BY <1>1
  <2>2. crc[n] \in CrcWord BY <2>1, RegistersAre
  <2> HIDE DEF crc, n
  <2> QED BY <2>2 DEF CrcWord, Word
<1>8. CrcReference(data) = Word \ {31 - k : k \in Rests(data)[8 * n]}
  BY DEF CrcReference, Rests, Dividend, Message
<1> DEFINE rest == Rests(data)[8 * n]
<1>9. /\ rest \in SUBSET (0 .. 31)
      /\ \A p \in 0 .. 31 : p \in rest <=> 31 - p \in crc[n]
  <2>1. 8 * n + 31 - 8 * n = 31 BY <1>1
  <2> QED BY <1>6, <2>1 DEF RestSeen
<1> HIDE DEF rest
<1>10. Word \ {31 - k : k \in rest} = Xor(crc[n], Word)
  <2> HIDE DEF crc, n
  <2>1. ASSUME NEW p \in 0 .. 31 PROVE p \in {31 - k : k \in rest} <=> p \in crc[n]
    <3>1. 31 - p \in 0 .. 31 /\ 31 - (31 - p) = p OBVIOUS
    <3>2. ASSUME p \in crc[n] PROVE p \in {31 - k : k \in rest} BY <1>9, <3>1, <3>2
    <3>3. ASSUME NEW k \in rest, p = 31 - k PROVE p \in crc[n] BY <1>9, <3>3
    <3> QED BY <3>2, <3>3
  <2> QED BY <1>7, <2>1 DEF Xor, Word
<1>11. crc32_utf8(data) = [kind |-> "crc32", result |-> Xor(crc[n], Word)] BY RegistersAre
<1> QED BY <1>8, <1>10, <1>11 DEF rest

(***************************************************************************)
(* Quicksort                                                               *)
(***************************************************************************)

\* The list b has the values of a, and differs from it only between low and high.
Rearranges(f, b, a, n, low, high) ==
    /\ f \in [1 .. n -> 1 .. n]
    /\ \A x, y \in 1 .. n : f[x] = f[y] => x = y
    /\ \A y \in 1 .. n : \E x \in 1 .. n : f[x] = y
    /\ \A x \in 1 .. n : /\ b[x] = a[f[x]]
                         /\ x \in low .. high => f[x] \in low .. high
                         /\ x \notin low .. high => f[x] = x
Rearranged(b, a, n, low, high) == \E f : Rearranges(f, b, a, n, low, high)

Lists(n) == [1 .. n -> Int]

\* A swap exchanges two values.
LEMMA SwapIs ==
    ASSUME NEW n \in Nat, NEW a \in Lists(n), NEW i \in 1 .. n, NEW j \in 1 .. n
    PROVE  /\ Swap(a, i, j) \in Lists(n)
           /\ \A k \in 1 .. n : Swap(a, i, j)[k] = IF k = j THEN a[i] ELSE IF k = i THEN a[j] ELSE a[k]
BY DEF Swap, Lists

\* A list is a rearrangement of itself ...
LEMMA RearrangedSelf ==
    ASSUME NEW n \in Nat, NEW a \in Lists(n), NEW low, NEW high
    PROVE  Rearranged(a, a, n, low, high)
<1> DEFINE f == [x \in 1 .. n |-> x]
<1>1. Rearranges(f, a, a, n, low, high) BY DEF Rearranges
<1> QED BY <1>1 DEF Rearranged

\* ... a rearrangement of a rearrangement is one ...
LEMMA RearrangedMore ==
    ASSUME NEW n \in Nat, NEW a, NEW b, NEW c, NEW low \in Int, NEW high \in Int,
           NEW from \in Int, NEW to \in Int, low <= from, to <= high,
           Rearranged(b, a, n, low, high), Rearranged(c, b, n, from, to)
    PROVE  Rearranged(c, a, n, low, high)
<1>1. PICK f : Rearranges(f, b, a, n, low, high) BY DEF Rearranged
<1>2. PICK g : Rearranges(g, c, b, n, from, to) BY DEF Rearranged
<1> DEFINE h == [x \in 1 .. n |-> f[g[x]]]
<1>3. /\ f \in [1 .. n -> 1 .. n] /\ g \in [1 .. n -> 1 .. n]
      /\ \A x, y \in 1 .. n : f[x] = f[y] => x = y
      /\ \A x, y \in 1 .. n : g[x] = g[y] => x = y
  BY <1>1, <1>2 DEF Rearranges
<1>4. h \in [1 .. n -> 1 .. n] /\ \A x \in 1 .. n : g[x] \in 1 .. n /\ h[x] = f[g[x]] BY <1>3
<1> HIDE DEF h
<1>5. \A x, y \in 1 .. n : h[x] = h[y] => x = y
  <2> TAKE x, y \in 1 .. n
  <2> HAVE h[x] = h[y]
  <2>1. f[g[x]] = f[g[y]] /\ g[x] \in 1 .. n /\ g[y] \in 1 .. n BY <1>4
  <2>2. g[x] = g[y] BY <1>3, <2>1
  <2> QED BY <1>3, <2>2
<1>6. \A y \in 1 .. n : \E x \in 1 .. n : h[x] = y
  <2> TAKE y \in 1 .. n
  <2>1. PICK z \in 1 .. n : f[z] = y BY <1>1 DEF Rearranges
  <2>2. PICK x \in 1 .. n : g[x] = z BY <1>2 DEF Rearranges
  <2> QED BY <1>4, <2>1, <2>2
<1>7. ASSUME NEW x \in 1 .. n
      PROVE  /\ c[x] = a[h[x]]
             /\ x \in low .. high => h[x] \in low .. high
             /\ x \notin low .. high => h[x] = x
  <2>1. c[x] = b[g[x]] /\ b[g[x]] = a[f[g[x]]] BY <1>1, <1>2, <1>4 DEF Rearranges
  <2>2. x \in low .. high => g[x] \in low .. high
    <3>1. CASE x \in from .. to
      <4>1. g[x] \in from .. to BY <1>2, <3>1 DEF Rearranges
      <4> QED BY <4>1
    <3>2. CASE x \notin from .. to
      <4>1. g[x] = x BY <1>2, <3>2 DEF Rearranges
      <4> QED BY <4>1
    <3> QED BY <3>1, <3>2
  <2>3. x \notin low .. high => g[x] = x
    <3>1. x \notin low .. high => x \notin from .. to OBVIOUS
    <3> QED BY <1>2, <3>1 DEF Rearranges
  <2>4. g[x] \in low .. high => f[g[x]] \in low .. high BY <1>1, <1>4 DEF Rearranges
  <2>5. x \notin low .. high => f[x] = x BY <1>1 DEF Rearranges
  <2> QED BY <1>4, <2>1, <2>2, <2>3, <2>4, <2>5
<1>8. Rearranges(h, c, a, n, low, high) BY <1>4, <1>5, <1>6, <1>7 DEF Rearranges
<1> QED BY <1>8 DEF Rearranged

\* ... and so is a swap.
LEMMA SwapRearranges ==
    ASSUME NEW n \in Nat, NEW a \in Lists(n), NEW i \in 1 .. n, NEW j \in 1 .. n,
           NEW low \in Int, NEW high \in Int, i \in low .. high, j \in low .. high
    PROVE  Rearranged(Swap(a, i, j), a, n, low, high)
<1> DEFINE f == [x \in 1 .. n |-> IF x = j THEN i ELSE IF x = i THEN j ELSE x]
           b == Swap(a, i, j)
<1>1. f \in [1 .. n -> 1 .. n] OBVIOUS
<1>2. \A x \in 1 .. n : b[x] = a[f[x]] BY SwapIs
<1>3. \A x, y \in 1 .. n : f[x] = f[y] => x = y OBVIOUS
<1>4. \A y \in 1 .. n : f[y] \in 1 .. n /\ f[f[y]] = y OBVIOUS
<1>5. \A x \in 1 .. n : /\ x \in low .. high => f[x] \in low .. high
                        /\ x \notin low .. high => f[x] = x
  OBVIOUS
<1> HIDE DEF f, b
<1>6. Rearranges(f, b, a, n, low, high) BY <1>1, <1>2, <1>3, <1>4, <1>5 DEF Rearranges
<1> QED BY <1>6 DEF Rearranged, b

\* What has been looked at lies before or behind pivot_index as it should.
Scanned(s, array, n, low, high, i) ==
    /\ s \in [array : Lists(n), pivot_index : low .. i]
    /\ Rearranged(s.array, array, n, low, high - 1)
    /\ \A k \in low .. s.pivot_index - 1 : s.array[k] <= array[high]
    /\ \A k \in s.pivot_index .. i - 1 : array[high] < s.array[k]

\* A step of the scan.
ScanOne(before, array, high, i) ==
    IF before.array[i - 1] <= array[high]
    THEN [array |-> Swap(before.array, before.pivot_index, i - 1),
          pivot_index |-> before.pivot_index + 1]
    ELSE before

\* One step of the scan keeps what it has sorted apart.
LEMMA ScanOneIs ==
    ASSUME NEW n \in Nat, NEW array \in Lists(n), NEW low \in 1 .. n, NEW high \in 1 .. n,
           NEW i \in low + 1 .. high, NEW s, Scanned(s, array, n, low, high, i - 1)
    PROVE  Scanned(ScanOne(s, array, high, i), array, n, low, high, i)
<1> DEFINE a == s.array
           p == s.pivot_index
           x == i - 1
           b == Swap(a, p, x)
           t == ScanOne(s, array, high, i)
<1>1. a \in Lists(n) /\ p \in low .. x /\ x \in low .. high - 1 /\ x \in 1 .. n /\ p \in 1 .. n
  BY DEF Scanned
<1>2. array[high] \in Int /\ \A k \in 1 .. n : a[k] \in Int BY <1>1 DEF Lists
<1>3. CASE a[x] <= array[high]
  <2>1. t = [array |-> b, pivot_index |-> p + 1] BY <1>3 DEF ScanOne
  <2>2. b \in Lists(n) /\ \A k \in 1 .. n : b[k] = IF k = x THEN a[p] ELSE IF k = p THEN a[x] ELSE a[k]
    <3>1. n \in Nat OBVIOUS
    <3> HIDE DEF a, p, x
    <3> QED BY ONLY <1>1, <3>1, SwapIs
  <2>3. Rearranged(b, a, n, low, high - 1)
    <3> HIDE DEF a, p, x
    <3>1. p \in low .. high - 1 /\ high - 1 \in Int /\ low \in Int BY <1>1
    <3> QED BY <1>1, <3>1, SwapRearranges
  <2>4. Rearranged(b, array, n, low, high - 1)
    <3>1. Rearranged(a, array, n, low, high - 1) BY DEF Scanned
    <3> HIDE DEF a, b
    <3>2. high - 1 \in Int /\ low \in Int /\ low <= low /\ high - 1 <= high - 1 OBVIOUS
    <3> QED BY <2>3, <3>1, <3>2, RearrangedMore
  <2>5. ASSUME NEW k \in low .. (p + 1) - 1 PROVE b[k] <= array[high]
    <3>1. k \in 1 .. n /\ k <= x BY <1>1
    <3>2. CASE k = p
      <4>1. b[k] = a[x] BY <2>2, <3>1, <3>2
      <4> QED BY <1>3, <4>1
    <3>3. CASE k # p
      <4>1. k \in low .. p - 1 /\ k # x BY <1>1, <3>3
      <4>2. a[k] <= array[high] BY <4>1 DEF Scanned
      <4> QED BY <2>2, <3>1, <3>3, <4>1, <4>2
    <3> QED BY <3>2, <3>3
  <2>6. ASSUME NEW k \in p + 1 .. i - 1 PROVE array[high] < b[k]
    <3>1. k \in 1 .. n /\ k # p BY <1>1
    <3>2. CASE k = x
      <4>1. p \in p .. (i - 1) - 1 BY <1>1, <3>2
      <4>2. array[high] < a[p] BY <4>1 DEF Scanned
      <4> QED BY <2>2, <3>1, <3>2, <4>2
    <3>3. CASE k # x
      <4>1. k \in p .. (i - 1) - 1 BY <1>1, <3>3
      <4>2. array[high] < a[k] BY <4>1 DEF Scanned
      <4> QED BY <2>2, <3>1, <3>3, <4>2
    <3> QED BY <3>2, <3>3
  <2>7. p + 1 \in low .. i BY <1>1
  <2> HIDE DEF b, p, t
  <2> QED BY <2>1, <2>2, <2>4, <2>5, <2>6, <2>7 DEF Scanned, t
<1>4. CASE ~(a[x] <= array[high])
  <2>1. t = s BY <1>4 DEF ScanOne
  <2>2. p \in low .. i BY <1>1
  <2>3. ASSUME NEW k \in p .. i - 1 PROVE array[high] < a[k]
    <3>1. CASE k = x BY <1>1, <1>2, <1>4, <3>1
    <3>2. CASE k # x
      <4>1. k \in p .. (i - 1) - 1 BY <1>1, <3>2
      <4> QED BY <4>1 DEF Scanned
    <3> QED BY <3>1, <3>2
  <2>4. s \in [array : Lists(n), pivot_index : low .. i] BY <2>2 DEF Scanned
  <2> QED BY <2>1, <2>3, <2>4 DEF Scanned
<1> QED BY <1>3, <1>4

\* The partition puts its pivot between what is not greater and what is.
LEMMA PartitionIs ==
    ASSUME NEW n \in Nat, NEW array \in Lists(n), NEW low \in 1 .. n, NEW high \in 1 .. n, low < high
    PROVE  LET cut == Partition(array, low, high)
           IN  /\ cut \in [array : Lists(n), pivot_index : low .. high]
               /\ Rearranged(cut.array, array, n, low, high)
               /\ \A k \in low .. cut.pivot_index - 1 : cut.array[k] <= cut.array[cut.pivot_index]
               /\ \A k \in cut.pivot_index + 1 .. high : cut.array[cut.pivot_index] < cut.array[k]
<1> DEFINE S == [array : Lists(n), pivot_index : Int]
           first == [array |-> array, pivot_index |-> low]
           step == [i \in low .. high |-> [s \in S |->
                       IF i # low /\ s.pivot_index \in 1 .. n THEN ScanOne(s, array, high, i) ELSE s]]
           body(f) == [i \in low .. high |->
                         IF i = low THEN [array |-> array, pivot_index |-> low]
                         ELSE LET before == f[i - 1] IN
                              IF before.array[i - 1] <= array[high]
                              THEN [array |-> Swap(before.array, before.pivot_index, i - 1),
                                    pivot_index |-> before.pivot_index + 1]
                              ELSE before]
           scan == CHOOSE f : f = body(f)
<1>1. low \in Int /\ high \in Int /\ low <= high /\ first \in S OBVIOUS
<1>2. step \in [low .. high -> [S -> S]]
  <2>1. ASSUME NEW i \in low .. high, NEW s \in S, i # low, s.pivot_index \in 1 .. n
        PROVE  ScanOne(s, array, high, i) \in S
    <3>1. i - 1 \in 1 .. n /\ s.array \in Lists(n) /\ s.pivot_index + 1 \in Int BY <2>1
    <3>2. Swap(s.array, s.pivot_index, i - 1) \in Lists(n) BY <2>1, <3>1, SwapIs
    <3> QED BY <3>1, <3>2 DEF ScanOne
  <2> HIDE DEF S
  <2> QED BY <2>1
<1>3. PICK f : Recurs(f, low, high, S, first, step)
  <2> HIDE DEF S, step, first
  <2> QED BY <1>1, <1>2, Recursion
<1>4. f \in [low .. high -> S] /\ f[low] = first /\ \A k \in low .. high : k # low => f[k] = step[k][f[k - 1]]
  BY <1>3 DEF Recurs
<1>5. \A i \in low .. high : i # low => f[i - 1] \in S BY <1>4
<1> DEFINE good == {i \in low .. high : Scanned(f[i], array, n, low, high, i)}
<1>6. low \in good
  <2>1. Rearranged(array, array, n, low, high - 1) BY RearrangedSelf
  <2>2. low \in low .. low /\ low .. low - 1 = {} /\ low \in low .. high OBVIOUS
  <2>3. Scanned(first, array, n, low, high, low) BY <2>1, <2>2 DEF Scanned
  <2> QED BY <1>4, <2>2, <2>3
<1>7. ASSUME NEW i \in low .. high, i # low, i - 1 \in good
      PROVE  f[i] = ScanOne(f[i - 1], array, high, i) /\ i \in good
  <2>1. Scanned(f[i - 1], array, n, low, high, i - 1) BY <1>7
  <2>2. f[i - 1].pivot_index \in 1 .. n
    <3>1. f[i - 1].pivot_index \in low .. i - 1 BY <2>1 DEF Scanned
    <3> QED BY <3>1
  <2>3. f[i] = ScanOne(f[i - 1], array, high, i) BY <1>4, <1>5, <1>7, <2>2
  <2>4. i \in low + 1 .. high BY <1>7
  <2>5. Scanned(ScanOne(f[i - 1], array, high, i), array, n, low, high, i) BY <2>1, <2>4, ScanOneIs
  <2> QED BY <2>3, <2>5
<1>8. \A i \in low .. high : i \in good
  <2> HIDE DEF good
  <2> QED BY <1>1, <1>6, <1>7, Climbing
<1>9. f = body(f)
  <2>1. ASSUME NEW i \in low .. high, i # low PROVE f[i] = ScanOne(f[i - 1], array, high, i)
    <3>1. i - 1 \in low .. high BY <2>1
    <3>2. i - 1 \in good BY <1>8, <3>1
    <3> QED BY <1>7, <2>1, <3>2
  <2>2. f = [i \in low .. high |-> f[i]] BY <1>4
  <2>3. \A i \in low .. high : f[i] = IF i = low THEN first ELSE ScanOne(f[i - 1], array, high, i)
    BY <1>4, <2>1
  <2> QED BY <2>2, <2>3 DEF ScanOne
<1>10. scan = body(scan)
  <2> HIDE DEF body
  <2> QED BY <1>9
<1>11. \A i \in low .. high : scan[i] = IF i = low THEN first ELSE ScanOne(scan[i - 1], array, high, i)
  <2> HIDE DEF scan
  <2> QED BY <1>10 DEF ScanOne
<1>12. Scanned(scan[high], array, n, low, high, high)
  <2> DEFINE well == {i \in low .. high : Scanned(scan[i], array, n, low, high, i)}
  <2>1. low \in well
    <3>1. scan[low] = first /\ f[low] = first BY <1>4, <1>11
    <3> QED BY <1>6, <3>1
  <2>2. ASSUME NEW i \in low .. high, i # low, i - 1 \in well PROVE i \in well
    <3>1. i \in low + 1 .. high /\ Scanned(scan[i - 1], array, n, low, high, i - 1) BY <2>2
    <3>2. scan[i] = ScanOne(scan[i - 1], array, high, i) BY <1>11, <2>2
    <3> HIDE DEF scan
    <3>3. Scanned(ScanOne(scan[i - 1], array, high, i), array, n, low, high, i) BY <3>1, ScanOneIs
    <3> QED BY <3>2, <3>3
  <2> HIDE DEF well
  <2>3. \A i \in low .. high : i \in well BY <1>1, <2>1, <2>2, Climbing
  <2>4. high \in well BY <1>1, <2>3
  <2> QED BY <2>4 DEF well
<1> DEFINE s == scan[high]
           a == s.array
           p == s.pivot_index
           b == Swap(a, p, high)
           cut == Partition(array, low, high)
<1>13. cut = [s EXCEPT !.array = Swap(@, s.pivot_index, high)] BY DEF Partition
<1> HIDE DEF scan
<1>14. a \in Lists(n) /\ p \in low .. high /\ p \in 1 .. n /\ s \in [array : Lists(n), pivot_index : low .. high]
  BY <1>12 DEF Scanned
<1>15. cut = [array |-> b, pivot_index |-> p] BY <1>13, <1>14
<1> HIDE DEF s, cut
<1>16. b \in Lists(n) /\ \A k \in 1 .. n : b[k] = IF k = high THEN a[p] ELSE IF k = p THEN a[high] ELSE a[k]
  <2> HIDE DEF a, p
  <2> QED BY <1>14, SwapIs
<1>17. a[high] = array[high]
  <2>1. PICK g : Rearranges(g, a, array, n, low, high - 1) BY <1>12 DEF Scanned, Rearranged, s
  <2>2. high \notin low .. high - 1 OBVIOUS
  <2>3. g[high] = high BY <2>1, <2>2 DEF Rearranges
  <2>4. a[high] = array[g[high]] BY <2>1 DEF Rearranges
  <2> QED BY <2>3, <2>4
<1>18. Rearranged(b, array, n, low, high)
  <2>1. Rearranged(a, array, n, low, high - 1) BY <1>12 DEF Scanned, s
  <2> HIDE DEF a, p
  <2>2. high - 1 \in Int /\ low <= low /\ high - 1 <= high /\ high <= high /\ high \in low .. high OBVIOUS
  <2>3. Rearranged(b, a, n, low, high) BY <1>1, <1>14, <2>2, SwapRearranges
  <2>4. Rearranged(array, array, n, low, high) BY RearrangedSelf
  <2>5. Rearranged(a, array, n, low, high) BY <1>1, <2>1, <2>2, <2>4, RearrangedMore
  <2> HIDE DEF b
  <2> QED BY <1>1, <2>2, <2>3, <2>5, RearrangedMore
<1>19. b[p] = array[high]
  <2>1. CASE p = high BY <1>14, <1>16, <1>17, <2>1
  <2>2. CASE p # high BY <1>14, <1>16, <1>17, <2>2
  <2> QED BY <2>1, <2>2
<1>20. ASSUME NEW k \in low .. p - 1 PROVE b[k] <= b[p]
  <2>1. k \in 1 .. n /\ k # p /\ k # high BY <1>14
  <2>2. a[k] <= array[high] BY <1>12 DEF Scanned, s
  <2> QED BY <1>16, <1>19, <2>1, <2>2
<1>21. ASSUME NEW k \in p + 1 .. high PROVE b[p] < b[k]
  <2>1. k \in 1 .. n /\ k # p /\ p \in p .. high - 1 BY <1>14
  <2>2. CASE k = high
    <3>1. array[high] < a[p] BY <1>12, <2>1 DEF Scanned, s
    <3> QED BY <1>16, <1>19, <2>1, <2>2, <3>1
  <2>3. CASE k # high
    <3>1. k \in p .. high - 1 BY <1>14, <2>3
    <3>2. array[high] < a[k] BY <1>12, <3>1 DEF Scanned, s
    <3> QED BY <1>16, <1>19, <2>1, <2>3, <3>2
  <2> QED BY <2>2, <2>3
<1> HIDE DEF b, p
<1> QED BY <1>14, <1>15, <1>16, <1>18, <1>20, <1>21 DEF cut

Cuts(n) == [array : Lists(n), pivot_index : 1 .. n]
Sorts(n) == [array : Lists(n), partitions : Seq(Cuts(n)), ranges : Seq(Int \X Int)]

\* The ranges to sort lie one behind the other, with a pivot between two of them.
Apart(ranges, n) ==
    /\ \A k \in DOMAIN ranges : /\ ranges[k][1] \in 1 .. n + 1 /\ ranges[k][2] \in 0 .. n
                                /\ ranges[k][1] <= ranges[k][2] + 1
    /\ \A j, k \in DOMAIN ranges : j < k => /\ ranges[j][2] + 2 <= ranges[k][1]
                                            /\ ranges[j][1] + (k - j) <= ranges[k][1]

\* Two values out of order lie in one range.
Tidy(array, ranges, n) ==
    \A i, j \in 1 .. n : i < j =>
        \/ array[i] <= array[j]
        \/ \E k \in DOMAIN ranges : ranges[k][1] <= i /\ j <= ranges[k][2]

\* A pivot has its place for good.
Settled(array, partitions, ranges) ==
    \A k \in DOMAIN partitions :
        LET p == partitions[k].pivot_index
        IN  /\ partitions[k].array[p] = array[p]
            /\ \A r \in DOMAIN ranges : ~(ranges[r][1] <= p /\ p <= ranges[r][2])

SortOK(s, values, n) ==
    /\ s \in Sorts(n)
    /\ Rearranged(s.array, values, n, 1, n)
    /\ Apart(s.ranges, n)
    /\ Tidy(s.array, s.ranges, n)
    /\ Settled(s.array, s.partitions, s.ranges)

\* The calls there are still to come.
CallsToCome(ranges, n) ==
    IF ranges = <<>> THEN 0 ELSE 2 * (n - ranges[1][1] + 1) - Len(ranges) + 2

\* There is a call left for a range that is left.
LEMMA CallsLeft ==
    ASSUME NEW n \in Nat, NEW ranges \in Seq(Int \X Int), Apart(ranges, n)
    PROVE  /\ CallsToCome(ranges, n) \in Nat
           /\ ranges # <<>> => CallsToCome(ranges, n) >= 1
<1> SUFFICES ASSUME ranges # <<>> PROVE CallsToCome(ranges, n) \in Nat /\ CallsToCome(ranges, n) >= 1
  BY DEF CallsToCome
<1> DEFINE m == Len(ranges)
<1>1. m \in Nat /\ m >= 1 /\ 1 \in DOMAIN ranges /\ m \in DOMAIN ranges OBVIOUS
<1>2. ranges[1][1] \in 1 .. n + 1 /\ ranges[m][1] \in 1 .. n + 1 BY <1>1 DEF Apart
<1> HIDE DEF m
<1>3. ranges[1][1] + (m - 1) <= ranges[m][1]
  <2>1. CASE m = 1 BY <1>2, <2>1
  <2>2. CASE m # 1
    <3>1. 1 < m BY <1>1, <2>2
    <3> QED BY <1>1, <3>1 DEF Apart
  <2> QED BY <2>1, <2>2
<1>4. CallsToCome(ranges, n) = 2 * (n - ranges[1][1] + 1) - m + 2 BY DEF CallsToCome, m
<1> QED BY <1>1, <1>2, <1>3, <1>4

\* A range of one value at most is done with one call.
LEMMA DropRange ==
    ASSUME NEW n \in Nat, NEW values, NEW s, SortOK(s, values, n),
           s.ranges # <<>>, Head(s.ranges)[1] >= Head(s.ranges)[2]
    PROVE  /\ SortOK([s EXCEPT !.ranges = Tail(@)], values, n)
           /\ CallsToCome(Tail(s.ranges), n) < CallsToCome(s.ranges, n)
<1> DEFINE ranges == s.ranges
           rest == Tail(ranges)
           m == Len(ranges)
<1>1. s \in Sorts(n) /\ ranges \in Seq(Int \X Int) BY DEF SortOK, Sorts
<1>2. m \in Nat /\ m >= 1 /\ DOMAIN ranges = 1 .. m BY <1>1
<1>3. rest \in Seq(Int \X Int) /\ Len(rest) = m - 1 /\ DOMAIN rest = 1 .. m - 1
      /\ \A k \in 1 .. m - 1 : rest[k] = ranges[k + 1]
  BY <1>1, <1>2
<1>4. Head(ranges) = ranges[1] BY <1>1
<1> HIDE DEF m, rest
<1>5. Apart(ranges, n) BY DEF SortOK
<1>6. Apart(rest, n)
  <2>1. ASSUME NEW k \in DOMAIN rest
        PROVE  /\ rest[k][1] \in 1 .. n + 1 /\ rest[k][2] \in 0 .. n
               /\ rest[k][1] <= rest[k][2] + 1
    <3>0. m \in Nat /\ k \in 1 .. m - 1 /\ DOMAIN ranges = 1 .. m BY <1>2, <1>3
    <3>a. k + 1 \in DOMAIN ranges BY ONLY <3>0, SMT
    <3>b. rest[k] = ranges[k + 1] BY <1>3, <3>0
    <3>1. k + 1 \in DOMAIN ranges /\ rest[k] = ranges[k + 1] BY <3>a, <3>b
    <3> QED BY <1>5, <3>1 DEF Apart
  <2>2. ASSUME NEW j \in DOMAIN rest, NEW k \in DOMAIN rest, j < k
        PROVE  rest[j][2] + 2 <= rest[k][1] /\ rest[j][1] + (k - j) <= rest[k][1]
    <3>0. m \in Nat /\ j \in 1 .. m - 1 /\ k \in 1 .. m - 1 /\ DOMAIN ranges = 1 .. m BY <1>2, <1>3
    <3>a. j + 1 \in 1 .. m /\ k + 1 \in 1 .. m BY <3>0
    <3>b. j \in Int /\ k \in Int BY <3>0
    <3>c. j + 1 < k + 1 /\ (k + 1) - (j + 1) = k - j BY <2>2, <3>b
    <3>1. j + 1 \in DOMAIN ranges /\ k + 1 \in DOMAIN ranges /\ j + 1 < k + 1 /\ (k + 1) - (j + 1) = k - j
      BY <3>0, <3>a, <3>c
    <3>2. rest[j] = ranges[j + 1] /\ rest[k] = ranges[k + 1] BY <1>2, <1>3
    <3> QED BY <1>5, <3>1, <3>2 DEF Apart
  <2> QED BY <2>1, <2>2 DEF Apart
<1>7. Tidy(s.array, rest, n)
  <2> SUFFICES ASSUME NEW i \in 1 .. n, NEW j \in 1 .. n, i < j, ~(s.array[i] <= s.array[j])
               PROVE  \E k \in DOMAIN rest : rest[k][1] <= i /\ j <= rest[k][2]
    BY DEF Tidy
  <2>1. PICK k \in DOMAIN ranges : ranges[k][1] <= i /\ j <= ranges[k][2] BY DEF SortOK, Tidy
  <2>2. k # 1
    <3> SUFFICES ASSUME k = 1 PROVE FALSE OBVIOUS
    <3>1. ranges[1][1] >= ranges[1][2] /\ ranges[1][1] \in Int /\ ranges[1][2] \in Int
      BY <1>2, <1>4, <1>5 DEF Apart
    <3> QED BY <2>1, <3>1
  <2>3. k - 1 \in DOMAIN rest /\ (k - 1) + 1 = k BY <1>2, <1>3, <2>2
  <2>4. rest[k - 1] = ranges[k] BY <1>3, <2>3
  <2> QED BY <2>1, <2>3, <2>4
<1>8. Settled(s.array, s.partitions, rest)
  <2>1. Settled(s.array, s.partitions, ranges) BY DEF SortOK
  <2>2. \A r \in DOMAIN rest : r + 1 \in DOMAIN ranges /\ rest[r] = ranges[r + 1] BY <1>2, <1>3
  <2> HIDE DEF ranges
  <2> QED BY <2>1, <2>2 DEF Settled
<1> DEFINE t == [s EXCEPT !.ranges = Tail(@)]
<1>9. t = [array |-> s.array, partitions |-> s.partitions, ranges |-> rest]
  <2>1. s = [array |-> s.array, partitions |-> s.partitions, ranges |-> s.ranges] BY <1>1 DEF Sorts
  <2>2. \A r : r = [array |-> s.array, partitions |-> s.partitions, ranges |-> s.ranges] =>
           [r EXCEPT !.ranges = Tail(@)]
              = [array |-> s.array, partitions |-> s.partitions, ranges |-> Tail(s.ranges)]
    OBVIOUS
  <2> QED BY <2>1, <2>2 DEF rest
<1> HIDE DEF t
<1>10. t \in Sorts(n) BY <1>1, <1>3, <1>9 DEF Sorts
<1>11. SortOK(t, values, n) BY <1>6, <1>7, <1>8, <1>9, <1>10 DEF SortOK
<1>12. CallsToCome(rest, n) < CallsToCome(ranges, n)
  <2>1. CallsToCome(ranges, n) >= 1 BY <1>1, <1>5, CallsLeft
  <2>2. CASE rest = <<>>
    <3>1. CallsToCome(rest, n) = 0 BY <2>2 DEF CallsToCome
    <3>2. CallsToCome(ranges, n) \in Nat BY <1>1, <1>5, CallsLeft
    <3> QED BY <2>1, <3>1, <3>2
  <2>3. CASE rest # <<>>
    <3>1. m - 1 >= 1
      <4>1. m - 1 # 0 BY <1>3, <2>3
      <4> QED BY <1>2, <4>1
    <3>2. rest[1] = ranges[2] /\ 1 \in DOMAIN ranges /\ 2 \in DOMAIN ranges BY <1>2, <1>3, <3>1
    <3>3. ranges[1][1] + (2 - 1) <= ranges[2][1] BY <1>5, <3>2 DEF Apart
    <3>4. ranges[1][1] \in Int /\ ranges[2][1] \in Int BY <1>5, <3>2 DEF Apart
    <3>5. CallsToCome(rest, n) = 2 * (n - ranges[2][1] + 1) - (m - 1) + 2
      BY <1>3, <2>3, <3>2 DEF CallsToCome
    <3>6. CallsToCome(ranges, n) = 2 * (n - ranges[1][1] + 1) - m + 2 BY DEF CallsToCome, m
    <3>7. 2 * (n - ranges[2][1] + 1) - (m - 1) + 2 < 2 * (n - ranges[1][1] + 1) - m + 2
      <4>1. \A x \in Int, y \in Int, k \in Int :
               x + (2 - 1) <= y => 2 * (n - y + 1) - (k - 1) + 2 < 2 * (n - x + 1) - k + 2
        OBVIOUS
      <4>2. m \in Int BY <1>2
      <4> HIDE DEF ranges
      <4> QED BY ONLY <3>3, <3>4, <4>1, <4>2
    <3> HIDE DEF ranges
    <3> QED BY ONLY <3>5, <3>6, <3>7
  <2> QED BY <2>2, <2>3
<1> QED BY <1>11, <1>12 DEF t, rest

\* A partition gives the pivot its place and leaves two smaller ranges.
LEMMA CutRange ==
    ASSUME NEW n \in Nat, NEW values, NEW s, SortOK(s, values, n),
           s.ranges # <<>>, Head(s.ranges)[1] < Head(s.ranges)[2]
    PROVE  LET low == Head(s.ranges)[1]
               high == Head(s.ranges)[2]
               cut == Partition(s.array, low, high)
               more == <<<<low, cut.pivot_index - 1>>, <<cut.pivot_index + 1, high>>>> \o Tail(s.ranges)
           IN  /\ SortOK([array |-> cut.array, partitions |-> Append(s.partitions, cut), ranges |-> more],
                         values, n)
               /\ CallsToCome(more, n) < CallsToCome(s.ranges, n)
<1> DEFINE ranges == s.ranges
           low == Head(ranges)[1]
           high == Head(ranges)[2]
           a == s.array
           cut == Partition(a, low, high)
           p == cut.pivot_index
           two == <<<<low, p - 1>>, <<p + 1, high>>>>
           more == two \o Tail(ranges)
           m == Len(ranges)
           b == cut.array
<1>1. s \in Sorts(n) /\ ranges \in Seq(Int \X Int) /\ a \in Lists(n) /\ s.partitions \in Seq(Cuts(n))
  BY DEF SortOK, Sorts
<1>2. m \in Nat /\ m >= 1 /\ DOMAIN ranges = 1 .. m /\ Head(ranges) = ranges[1] BY <1>1
<1>3. Apart(ranges, n) BY DEF SortOK
<1>4. low \in 1 .. n /\ high \in 1 .. n /\ low < high /\ ranges[1][1] = low /\ ranges[1][2] = high
  <2>1. 1 \in DOMAIN ranges BY <1>2
  <2>2. ranges[1][1] \in 1 .. n + 1 /\ ranges[1][2] \in 0 .. n BY <1>3, <2>1 DEF Apart
  <2> QED BY <1>2, <2>2
<1>5. /\ cut \in [array : Lists(n), pivot_index : low .. high]
      /\ Rearranged(b, a, n, low, high)
      /\ \A k \in low .. p - 1 : b[k] <= b[p]
      /\ \A k \in p + 1 .. high : b[p] < b[k]
  <2>1. a \in Lists(n) /\ low \in 1 .. n /\ high \in 1 .. n /\ low < high BY <1>1, <1>4
  <2> HIDE DEF low, high, a, ranges
  <2>2. LET done == Partition(a, low, high)
        IN  /\ done \in [array : Lists(n), pivot_index : low .. high]
            /\ Rearranged(done.array, a, n, low, high)
            /\ \A k \in low .. done.pivot_index - 1 : done.array[k] <= done.array[done.pivot_index]
            /\ \A k \in done.pivot_index + 1 .. high : done.array[done.pivot_index] < done.array[k]
    BY <2>1, PartitionIs
  <2> QED BY <2>2
<1>6. b \in Lists(n) /\ p \in low .. high /\ p \in 1 .. n /\ cut \in Cuts(n)
  <2> HIDE DEF low, high, cut, ranges, a
  <2>1. b \in Lists(n) /\ p \in low .. high BY ONLY <1>5 DEF b, p
  <2>2. low .. high \subseteq 1 .. n BY ONLY <1>4
  <2>3. cut \in [array : Lists(n), pivot_index : 1 .. n] BY ONLY <1>5, <2>2
  <2> QED BY <2>1, <2>2, <2>3 DEF Cuts
<1> HIDE DEF low, high, cut, p, b
<1>7. /\ more \in Seq(Int \X Int) /\ Len(more) = m + 1 /\ DOMAIN more = 1 .. m + 1
      /\ more[1] = <<low, p - 1>> /\ more[2] = <<p + 1, high>>
      /\ \A k \in 3 .. m + 1 : more[k] = ranges[k - 1]
  <2>1. two \in Seq(Int \X Int) /\ Len(two) = 2 BY <1>4, <1>6
  <2>2. Tail(ranges) \in Seq(Int \X Int) /\ Len(Tail(ranges)) = m - 1
        /\ \A k \in 1 .. m - 1 : Tail(ranges)[k] = ranges[k + 1]
    BY <1>1, <1>2
  <2> DEFINE rest == Tail(ranges)
  <2>3. two[1] = <<low, p - 1>> /\ two[2] = <<p + 1, high>> OBVIOUS
  <2> HIDE DEF two, rest, m
  <2> DEFINE R == Int \X Int
  <2>a. two \in Seq(R) /\ rest \in Seq(R) /\ Len(two) = 2 /\ Len(rest) = m - 1 /\ more = two \o rest
    BY <2>1, <2>2 DEF rest
  <2> HIDE DEF more, R
  <2>4. /\ more \in Seq(R) /\ Len(more) = Len(two) + Len(rest)
        /\ \A k \in 1 .. Len(two) + Len(rest) : more[k] = IF k <= Len(two) THEN two[k] ELSE rest[k - Len(two)]
    BY <2>a, ConcatProperties
  <2>6. \A k \in 1 .. 2 + (m - 1) : more[k] = IF k <= 2 THEN two[k] ELSE rest[k - 2] BY <2>4, <2>a
  <2>b. 2 + (m - 1) = m + 1 /\ 1 \in 1 .. m + 1 /\ 2 \in 1 .. m + 1 /\ 1 <= 2 /\ 2 <= 2 BY <1>2
  <2>7. more[1] = two[1] /\ more[2] = two[2] BY <2>6, <2>b
  <2>8. ASSUME NEW k \in 3 .. m + 1 PROVE more[k] = ranges[k - 1]
    <3>1. k - 2 \in 1 .. m - 1 /\ (k - 2) + 1 = k - 1 /\ k \in 1 .. m + 1 /\ ~(k <= 2) BY <1>2
    <3>2. more[k] = rest[k - 2] BY <2>6, <2>b, <3>1
    <3> QED BY <2>2, <3>1, <3>2 DEF rest
  <2>9. Len(more) = m + 1 BY <2>4, <2>a, <2>b
  <2>10. more \in Seq(Int \X Int) /\ DOMAIN more = 1 .. Len(more) BY <2>4 DEF R
  <2> QED BY <2>3, <2>7, <2>8, <2>9, <2>10
<1> HIDE DEF more, m, two
<1>M. m \in Nat /\ m >= 1 /\ DOMAIN more = 1 .. m + 1 /\ DOMAIN ranges = 1 .. m BY <1>2, <1>7
<1>8. Apart(more, n)
  <2>1. \A k \in 2 .. m : /\ ranges[k][1] \in 1 .. n + 1 /\ ranges[k][2] \in 0 .. n
                          /\ ranges[k][1] <= ranges[k][2] + 1
                          /\ high + 2 <= ranges[k][1] /\ low + (k - 1) <= ranges[k][1]
    <3> TAKE k \in 2 .. m
    <3>1. k \in DOMAIN ranges /\ 1 \in DOMAIN ranges /\ 1 < k BY <1>2
    <3> QED BY <1>3, <1>4, <3>1 DEF Apart
  <2>2. ASSUME NEW k \in DOMAIN more
        PROVE  /\ more[k][1] \in 1 .. n + 1 /\ more[k][2] \in 0 .. n
               /\ more[k][1] <= more[k][2] + 1
    <3>1. CASE k = 1 BY <1>4, <1>6, <1>7, <3>1
    <3>2. CASE k = 2 BY <1>4, <1>6, <1>7, <3>2
    <3>3. CASE k # 1 /\ k # 2
      <4>1. k \in 3 .. m + 1 /\ k - 1 \in 2 .. m BY <1>M, <3>3
      <4> QED BY <1>7, <2>1, <4>1
    <3> QED BY <3>1, <3>2, <3>3
  <2>3. ASSUME NEW j \in DOMAIN more, NEW k \in DOMAIN more, j < k
        PROVE  more[j][2] + 2 <= more[k][1] /\ more[j][1] + (k - j) <= more[k][1]
    <3>1. j \in 1 .. m + 1 /\ k \in 1 .. m + 1 BY <1>7
    <3>2. CASE k = 2
      <4>1. j = 1 BY <2>3, <3>1, <3>2
      <4> QED BY <1>4, <1>6, <1>7, <3>2, <4>1
    <3>3. CASE k # 2
      <4>1. k \in 3 .. m + 1 /\ k - 1 \in 2 .. m BY <1>2, <2>3, <3>1, <3>3
      <4>2. more[k] = ranges[k - 1] /\ ranges[k - 1][1] \in Int /\ high + 2 <= ranges[k - 1][1]
            /\ low + (k - 2) <= ranges[k - 1][1]
        <5>1. more[k] = ranges[k - 1] BY <1>7, <4>1
        <5>2. ranges[k - 1][1] \in Int /\ high + 2 <= ranges[k - 1][1] /\ low + ((k - 1) - 1) <= ranges[k - 1][1]
          BY <2>1, <4>1
        <5>3. (k - 1) - 1 = k - 2 BY <4>1
        <5> QED BY <5>1, <5>2, <5>3
      <4>3. CASE j = 1
        <5>1. low + (k - 1) <= ranges[k - 1][1]
          <6>1. CASE k = 3 BY <1>4, <4>2, <6>1
          <6>2. CASE k # 3
            <7>1. 2 \in DOMAIN ranges /\ k - 1 \in DOMAIN ranges /\ 2 < k - 1 /\ (k - 1) - 2 = k - 3
              BY <1>2, <4>1, <6>2
            <7>2. ranges[2][1] + (k - 3) <= ranges[k - 1][1] BY <1>3, <7>1 DEF Apart
            <7>3. high + 2 <= ranges[2][1] /\ ranges[2][1] \in Int BY <1>2, <2>1, <7>1
            <7> QED BY <1>4, <4>1, <4>2, <7>2, <7>3
          <6> QED BY <6>1, <6>2
        <5>2. more[j][1] = low /\ more[j][2] = p - 1 BY <1>7, <4>3
        <5>3. p - 1 + 2 <= ranges[k - 1][1] BY <1>4, <1>6, <4>2
        <5> QED BY <4>2, <4>3, <5>1, <5>2, <5>3
      <4>4. CASE j = 2
        <5>1. high + 2 + (k - 3) <= ranges[k - 1][1]
          <6>1. CASE k = 3 BY <1>4, <4>2, <6>1
          <6>2. CASE k # 3
            <7>1. 2 \in DOMAIN ranges /\ k - 1 \in DOMAIN ranges /\ 2 < k - 1 /\ (k - 1) - 2 = k - 3
              BY <1>2, <4>1, <6>2
            <7>2. ranges[2][1] + (k - 3) <= ranges[k - 1][1] BY <1>3, <7>1 DEF Apart
            <7>3. high + 2 <= ranges[2][1] /\ ranges[2][1] \in Int BY <1>2, <2>1, <7>1
            <7> QED BY <1>4, <4>1, <4>2, <7>2, <7>3
          <6> QED BY <6>1, <6>2
        <5>2. more[j][1] = p + 1 /\ more[j][2] = high BY <1>7, <4>4
        <5>3. p + 1 + (k - 2) <= ranges[k - 1][1] BY <1>4, <1>6, <4>1, <4>2, <5>1
        <5> QED BY <4>2, <4>4, <5>2, <5>3
      <4>5. CASE j # 1 /\ j # 2
        <5>1. j \in 3 .. m + 1 /\ j - 1 \in DOMAIN ranges /\ k - 1 \in DOMAIN ranges /\ j - 1 < k - 1
              /\ (k - 1) - (j - 1) = k - j
          BY <1>2, <2>3, <3>1, <4>1, <4>5
        <5>2. more[j] = ranges[j - 1] BY <1>7, <5>1
        <5> QED BY <1>3, <4>2, <5>1, <5>2 DEF Apart
      <4> QED BY <4>3, <4>4, <4>5
    <3> QED BY <3>2, <3>3
  <2> QED BY <2>2, <2>3 DEF Apart
<1>9. PICK f : Rearranges(f, b, a, n, low, high) BY <1>5 DEF Rearranged
<1>10. \A x \in 1 .. n : b[x] \in Int /\ a[x] \in Int /\ f[x] \in 1 .. n
  BY <1>1, <1>6, <1>9 DEF Lists, Rearranges
<1>11. Tidy(b, more, n)
  <2> SUFFICES ASSUME NEW i \in 1 .. n, NEW j \in 1 .. n, i < j, ~(b[i] <= b[j])
               PROVE  \E k \in DOMAIN more : more[k][1] <= i /\ j <= more[k][2]
    BY DEF Tidy
  <2>1. Tidy(a, ranges, n) BY DEF SortOK
  <2>2. 1 \in DOMAIN more /\ 2 \in DOMAIN more BY <1>2, <1>7
  <2>3. CASE i \in low .. high /\ j \in low .. high
    <3>a. /\ more[1][1] = low /\ more[1][2] = p - 1 /\ more[2][1] = p + 1 /\ more[2][2] = high
      BY <1>7
    <3>b. low <= i /\ j <= high BY <1>4, <2>3
    <3>1. CASE j <= p - 1 BY <2>2, <3>1, <3>a, <3>b
    <3>2. CASE p + 1 <= i BY <2>2, <3>2, <3>a, <3>b
    <3>3. CASE ~(j <= p - 1) /\ ~(p + 1 <= i)
      <4>1. i = p \/ i \in low .. p - 1 BY <1>4, <1>6, <2>3, <3>3
      <4>2. j = p \/ j \in p + 1 .. high BY <1>4, <1>6, <2>3, <3>3
      <4>3. b[i] <= b[p] BY <1>5, <1>10, <4>1
      <4>4. b[p] <= b[j]
        <5>1. CASE j = p BY <1>6, <1>10, <5>1
        <5>2. CASE j \in p + 1 .. high
          <6>1. b[p] < b[j] BY <1>5, <5>2
          <6> QED BY <1>6, <1>10, <6>1
        <5> QED BY <4>2, <5>1, <5>2
      <4> QED BY <1>6, <1>10, <4>3, <4>4
    <3> QED BY <3>1, <3>2, <3>3
  <2>4. CASE ~(i \in low .. high /\ j \in low .. high)
    <3>1. f[i] < f[j]
      <4>1. i \in low .. high => f[i] \in low .. high BY <1>9 DEF Rearranges
      <4>2. j \in low .. high => f[j] \in low .. high BY <1>9 DEF Rearranges
      <4>3. i \notin low .. high => f[i] = i BY <1>9 DEF Rearranges
      <4>4. j \notin low .. high => f[j] = j BY <1>9 DEF Rearranges
      <4> QED BY <1>4, <2>4, <4>1, <4>2, <4>3, <4>4
    <3>2. b[i] = a[f[i]] /\ b[j] = a[f[j]] BY <1>9 DEF Rearranges
    <3>3. PICK k \in DOMAIN ranges : ranges[k][1] <= f[i] /\ f[j] <= ranges[k][2]
      BY <1>10, <2>1, <3>1, <3>2 DEF Tidy
    <3>4. ranges[k][1] \in Int /\ ranges[k][2] \in Int BY <1>3 DEF Apart
    <3>5. k # 1
      <4> SUFFICES ASSUME k = 1 PROVE FALSE OBVIOUS
      <4>1. f[i] \in low .. high /\ f[j] \in low .. high BY <1>4, <1>10, <3>1, <3>3
      <4>2. i \in low .. high /\ j \in low .. high BY <1>9, <4>1 DEF Rearranges
      <4> QED BY <2>4, <4>2
    <3>6. k \in 2 .. m /\ 1 \in DOMAIN ranges /\ 1 < k BY <1>2, <3>5
    <3>7. high + 2 <= ranges[k][1] BY <1>3, <1>4, <3>6 DEF Apart
    <3>8. f[i] \notin low .. high /\ f[j] \notin low .. high BY <1>4, <1>10, <3>1, <3>3, <3>4, <3>7
    <3>9. f[i] = i /\ f[j] = j BY <1>9, <3>8 DEF Rearranges
    <3>10. k + 1 \in DOMAIN more /\ k + 1 \in 3 .. m + 1 /\ (k + 1) - 1 = k BY <1>M, <3>6
    <3>11. more[k + 1] = ranges[k] BY <1>7, <3>10
    <3> QED BY <3>3, <3>9, <3>10, <3>11
  <2> QED BY <2>3, <2>4
<1> DEFINE cuts == Append(s.partitions, cut)
           c == Len(s.partitions)
<1>12. /\ cuts \in Seq(Cuts(n)) /\ c \in Nat /\ DOMAIN cuts = 1 .. c + 1 /\ cuts[c + 1] = cut
       /\ \A k \in 1 .. c : cuts[k] = s.partitions[k] /\ k \in DOMAIN s.partitions
  BY <1>1, <1>6
<1> HIDE DEF cuts, c
<1>13. Settled(b, cuts, more)
  <2>1. \A q \in 1 .. n : q \notin low .. high => b[q] = a[q]
    BY <1>9 DEF Rearranges
  <2>2. ASSUME NEW q \in 1 .. n, NEW r \in DOMAIN more, more[r][1] <= q, q <= more[r][2]
        PROVE  q # p /\ \E k \in DOMAIN ranges : ranges[k][1] <= q /\ q <= ranges[k][2]
    <3>1. 1 \in DOMAIN ranges BY <1>2
    <3>2. CASE r = 1
      <4>1. low <= q /\ q <= p - 1 BY <1>7, <2>2, <3>2
      <4>2. q # p /\ low <= q /\ q <= high BY <1>4, <1>6, <4>1
      <4> QED BY <1>4, <3>1, <4>2
    <3>3. CASE r = 2
      <4>1. p + 1 <= q /\ q <= high BY <1>7, <2>2, <3>3
      <4>2. q # p /\ low <= q /\ q <= high BY <1>4, <1>6, <4>1
      <4> QED BY <1>4, <3>1, <4>2
    <3>4. CASE r # 1 /\ r # 2
      <4>1. r \in 3 .. m + 1 /\ r - 1 \in DOMAIN ranges /\ 1 < r - 1 BY <1>M, <3>4
      <4>2. more[r] = ranges[r - 1] BY <1>7, <4>1
      <4>3. ranges[1][2] + 2 <= ranges[r - 1][1] /\ ranges[r - 1][1] \in Int
        BY <1>3, <3>1, <4>1 DEF Apart
      <4>4. q # p BY <1>4, <1>6, <2>2, <4>2, <4>3
      <4> QED BY <2>2, <4>1, <4>2, <4>4
    <3> QED BY <3>2, <3>3, <3>4
  <2>3. ASSUME NEW k \in DOMAIN cuts
        PROVE  LET q == cuts[k].pivot_index
               IN  /\ cuts[k].array[q] = b[q]
                   /\ \A r \in DOMAIN more : ~(more[r][1] <= q /\ q <= more[r][2])
    <3>1. CASE k = c + 1
      <4>1. cuts[k].pivot_index = p /\ cuts[k].array = b BY <1>12, <3>1 DEF p, b
      <4> QED BY <1>6, <2>2, <4>1
    <3>2. CASE k # c + 1
      <4> DEFINE q == s.partitions[k].pivot_index
      <4>1. k \in 1 .. c BY <1>12, <3>2
      <4>2. cuts[k] = s.partitions[k] /\ k \in DOMAIN s.partitions BY <1>12, <4>1
      <4>3. Settled(a, s.partitions, ranges) BY DEF SortOK
      <4>4. q \in 1 .. n
        <5>1. s.partitions[k] \in Cuts(n) BY <1>1, <4>2
        <5> QED BY <5>1 DEF Cuts
      <4>5. s.partitions[k].array[q] = a[q] /\ \A r \in DOMAIN ranges : ~(ranges[r][1] <= q /\ q <= ranges[r][2])
        BY <4>2, <4>3 DEF Settled
      <4>6. q \notin low .. high
        <5>1. 1 \in DOMAIN ranges BY <1>2
        <5>2. ~(low <= q /\ q <= high) BY <1>4, <4>5, <5>1
        <5> QED BY <4>4, <5>2
      <4>7. b[q] = a[q] BY <2>1, <4>4, <4>6
      <4> HIDE DEF q
      <4>8. \A r \in DOMAIN more : ~(more[r][1] <= q /\ q <= more[r][2]) BY <2>2, <4>4, <4>5
      <4> QED BY <4>2, <4>5, <4>7, <4>8 DEF q
    <3> QED BY <3>1, <3>2
  <2> QED BY <2>3 DEF Settled
<1> DEFINE t == [array |-> b, partitions |-> cuts, ranges |-> more]
<1>14. Rearranged(b, values, n, 1, n)
  <2>1. Rearranged(a, values, n, 1, n) BY DEF SortOK
  <2> HIDE DEF a
  <2>2. 1 <= low /\ high <= n /\ low \in Int /\ high \in Int /\ n \in Int BY <1>4
  <2> QED BY <1>5, <2>1, <2>2, RearrangedMore
<1>15. t \in Sorts(n) BY <1>6, <1>7, <1>12 DEF Sorts
<1>16. SortOK(t, values, n) BY <1>8, <1>11, <1>13, <1>14, <1>15 DEF SortOK
<1>17. CallsToCome(more, n) < CallsToCome(ranges, n)
  <2>1. more # <<>> BY <1>2, <1>7
  <2>2. CallsToCome(more, n) = 2 * (n - low + 1) - (m + 1) + 2 BY <1>7, <2>1 DEF CallsToCome
  <2>3. CallsToCome(ranges, n) = 2 * (n - low + 1) - m + 2 BY <1>4 DEF CallsToCome, m
  <2> QED BY <1>2, <1>4, <2>2, <2>3
<1> QED BY <1>16, <1>17 DEF more, two, cuts, b, p, cut, low, high

SortStates(values, n) == {s \in Sorts(n) : SortOK(s, values, n)}

\* Each call keeps the state of the sort and leaves fewer calls.
LEMMA SortCallIs ==
    ASSUME NEW n \in Nat, NEW values, NEW s \in SortStates(values, n)
    PROVE  /\ SortCall(s) \in SortStates(values, n)
           /\ s.ranges # <<>> => CallsToCome(SortCall(s).ranges, n) < CallsToCome(s.ranges, n)
           /\ s.ranges = <<>> => SortCall(s) = s
<1>1. SortOK(s, values, n) /\ s \in Sorts(n) BY DEF SortStates
<1>2. CASE s.ranges = <<>> BY <1>2 DEF SortCall
<1> DEFINE low == Head(s.ranges)[1]
           high == Head(s.ranges)[2]
<1>0. ASSUME s.ranges # <<>> PROVE low \in Int /\ high \in Int
  <2>1. s.ranges \in Seq(Int \X Int) BY <1>1 DEF Sorts
  <2>2. Head(s.ranges) \in Int \X Int BY <1>0, <2>1
  <2> QED BY <2>2
<1>3. CASE s.ranges # <<>> /\ low >= high
  <2> DEFINE t == [s EXCEPT !.ranges = Tail(@)]
  <2>1. SortOK(t, values, n) /\ CallsToCome(Tail(s.ranges), n) < CallsToCome(s.ranges, n)
    BY <1>1, <1>3, DropRange
  <2>2. SortCall(s) = t BY <1>3 DEF SortCall
  <2>3. t.ranges = Tail(s.ranges) BY <1>1 DEF Sorts
  <2> HIDE DEF t
  <2>4. t \in Sorts(n) BY <2>1 DEF SortOK
  <2> QED BY <1>3, <2>1, <2>2, <2>3, <2>4 DEF SortStates
<1>4. CASE s.ranges # <<>> /\ low < high
  <2> DEFINE cut == Partition(s.array, low, high)
             more == <<<<low, cut.pivot_index - 1>>, <<cut.pivot_index + 1, high>>>> \o Tail(s.ranges)
             t == [array |-> cut.array, partitions |-> Append(s.partitions, cut), ranges |-> more]
  <2>1. SortOK(t, values, n) /\ CallsToCome(more, n) < CallsToCome(s.ranges, n) BY <1>1, <1>4, CutRange
  <2>2. SortCall(s) = t BY <1>0, <1>4 DEF SortCall
  <2>3. t.ranges = more OBVIOUS
  <2> HIDE DEF t, more
  <2>4. t \in Sorts(n) BY <2>1 DEF SortOK
  <2> QED BY <1>4, <2>1, <2>2, <2>3, <2>4 DEF SortStates
<1> QED BY <1>0, <1>2, <1>3, <1>4

Often(a, n, v) == Cardinality({i \in 1 .. n : a[i] = v})

\* A rearrangement holds each value as often.
LEMMA SameOften ==
    ASSUME NEW n \in Nat, NEW a, NEW b, Rearranged(b, a, n, 1, n), NEW v
    PROVE  Often(b, n, v) = Often(a, n, v)
<1>1. PICK f : Rearranges(f, b, a, n, 1, n) BY DEF Rearranged
<1> DEFINE B == {i \in 1 .. n : b[i] = v}
           A == {i \in 1 .. n : a[i] = v}
           g == [i \in B |-> f[i]]
<1>2. /\ \A x \in 1 .. n : f[x] \in 1 .. n /\ b[x] = a[f[x]]
      /\ \A x, y \in 1 .. n : f[x] = f[y] => x = y
      /\ \A y \in 1 .. n : \E x \in 1 .. n : f[x] = y
  BY <1>1 DEF Rearranges
<1>3. g \in Bijection(B, A)
  <2>1. g \in [B -> A] BY <1>2
  <2>2. \A x, y \in B : g[x] = g[y] => x = y BY <1>2
  <2>3. \A y \in A : \E x \in B : g[x] = y
    <3> TAKE y \in A
    <3>1. PICK x \in 1 .. n : f[x] = y BY <1>2
    <3>2. x \in B BY <1>2, <3>1
    <3> QED BY <3>1, <3>2
  <2> HIDE DEF g, A, B
  <2> QED BY <2>1, <2>2, <2>3, Fun_IsBij DEF Bijection, Injection, Surjection, IsInjective
<1>4. IsFiniteSet(1 .. n) BY FS_Interval
<1>5. IsFiniteSet(A) /\ IsFiniteSet(B) BY <1>4, FS_Subset
<1> HIDE DEF A, B
<1>6. Cardinality(A) = Cardinality(B) BY <1>3, <1>5, FS_Bijection DEF ExistsBijection
<1> QED BY <1>6 DEF A, B, Often

\* When no range is left the list is sorted.
LEMMA QuicksortSorts ==
    ASSUME NEW values \in Seq(Int)
    PROVE  LET n == Len(values)
               sorted == quicksort(values)
           IN  /\ sorted.kind = "quicksort"
               /\ sorted.result \in Lists(n)
               /\ \A i, j \in 1 .. n : i < j => sorted.result[i] <= sorted.result[j]
               /\ Rearranged(sorted.result, values, n, 1, n)
               /\ \A k \in DOMAIN sorted.partitions :
                     LET cut == sorted.partitions[k]
                     IN  cut.array[cut.pivot_index] = sorted.result[cut.pivot_index]
<1> DEFINE n == Len(values)
           end == 2 * n + 1
           S == SortStates(values, n)
           first == [array |-> values, partitions |-> <<>>, ranges |-> <<<<1, n>>>>]
           step == [i \in 0 .. end |-> [s \in S |-> SortCall(s)]]
           body(f) == [i \in 0 .. end |->
               IF i = 0 THEN [array |-> values, partitions |-> <<>>, ranges |-> <<<<1, n>>>>]
               ELSE SortCall(f[i - 1])]
           sort == CHOOSE f : f = body(f)
<1>1. n \in Nat /\ end \in Nat /\ 0 <= end /\ 0 \in 0 .. end /\ end \in 0 .. end /\ values \in Lists(n)
  BY DEF Lists
<1>D. end = 2 * n + 1 OBVIOUS
<1> HIDE DEF n
<1>2. first \in S
  <2> DEFINE ranges == <<<<1, n>>>>
  <2>1. ranges \in Seq(Int \X Int) /\ DOMAIN ranges = {1} /\ ranges[1] = <<1, n>> BY <1>1
  <2>2. Apart(ranges, n)
    <3>1. ranges[1][1] = 1 /\ ranges[1][2] = n BY <2>1
    <3>2. \A k \in DOMAIN ranges : k = 1 BY <2>1
    <3> HIDE DEF ranges
    <3> QED BY <1>1, <3>1, <3>2 DEF Apart
  <2>3. Tidy(values, ranges, n) BY <1>1, <2>1 DEF Tidy
  <2>4. Settled(values, <<>>, ranges) BY DEF Settled
  <2>5. Rearranged(values, values, n, 1, n) BY <1>1, RearrangedSelf
  <2>6. first \in Sorts(n) BY <1>1, <2>1 DEF Sorts
  <2> HIDE DEF ranges
  <2> QED BY <2>2, <2>3, <2>4, <2>5, <2>6 DEF SortStates, SortOK, ranges
<1>3. step \in [0 .. end -> [S -> S]]
  <2>1. \A s \in S : SortCall(s) \in S BY <1>1, SortCallIs
  <2> HIDE DEF S, end
  <2> QED BY <2>1
<1>4. PICK f : Recurs(f, 0, end, S, first, step)
  <2> HIDE DEF S, step, first, end
  <2>1. end \in Int /\ 0 \in Int BY <1>1
  <2> QED BY <1>1, <1>2, <1>3, <2>1, Recursion
<1>5. f = body(f)
  <2> HIDE DEF S, first, end
  <2>1. f \in [0 .. end -> S] /\ f[0] = first BY <1>4 DEF Recurs
  <2>2. ASSUME NEW i \in 0 .. end, i # 0 PROVE f[i] = SortCall(f[i - 1])
    <3>1. i - 1 \in 0 .. end BY <1>1, <2>2
    <3>2. f[i - 1] \in S BY <2>1, <3>1
    <3> QED BY <1>4, <2>2, <3>2 DEF Recurs
  <2>3. f = [i \in 0 .. end |-> f[i]] BY <2>1
  <2> QED BY <2>1, <2>2, <2>3 DEF first
<1>6. sort = body(sort)
  <2> HIDE DEF body
  <2> QED BY <1>5
<1> HIDE DEF sort
<1>7. /\ sort[0] = first
      /\ \A i \in 0 .. end : i # 0 => sort[i] = SortCall(sort[i - 1])
  <2> HIDE DEF end
  <2> QED BY <1>1, <1>6
<1> DEFINE left(i) == CallsToCome(sort[i].ranges, n)
           good == {i \in 0 .. end : sort[i] \in S /\ left(i) \in Nat
                                     /\ (left(i) + i <= end \/ left(i) = 0)}
<1>8. \A s \in S : CallsToCome(s.ranges, n) \in Nat /\ (s.ranges # <<>> => CallsToCome(s.ranges, n) >= 1)
  <2> TAKE s \in S
  <2>1. s.ranges \in Seq(Int \X Int) /\ Apart(s.ranges, n) BY DEF SortStates, SortOK, Sorts
  <2> QED BY <1>1, <2>1, CallsLeft
<1>9. 0 \in good
  <2>1. left(0) = 2 * n + 1
    <3>1. sort[0].ranges = <<<<1, n>>>> BY <1>7
    <3>2. <<<<1, n>>>> # <<>> /\ <<<<1, n>>>>[1][1] = 1 /\ Len(<<<<1, n>>>>) = 1 OBVIOUS
    <3>3. left(0) = 2 * (n - 1 + 1) - 1 + 2 BY <3>1, <3>2 DEF CallsToCome
    <3> QED BY <1>1, <3>3
  <2> QED BY <1>1, <1>2, <1>7, <2>1
<1>10. ASSUME NEW i \in 0 .. end, i # 0, i - 1 \in good PROVE i \in good
  <2> DEFINE s == sort[i - 1]
  <2>1. s \in S /\ sort[i] = SortCall(s) BY <1>7, <1>10
  <2>2. sort[i] \in S BY <1>1, <2>1, SortCallIs
  <2>3. left(i) \in Nat BY <1>8, <2>2
  <2>4. CASE s.ranges = <<>>
    <3>1. sort[i] = s BY <1>1, <2>1, <2>4, SortCallIs
    <3>2. left(i) = 0 BY <2>4, <3>1 DEF CallsToCome
    <3> QED BY <2>2, <2>3, <3>2
  <2>5. CASE s.ranges # <<>>
    <3>1. left(i) < left(i - 1) BY <1>1, <2>1, <2>5, SortCallIs
    <3>2. left(i - 1) >= 1 /\ left(i - 1) \in Nat BY <1>8, <2>1, <2>5
    <3>3. left(i - 1) + (i - 1) <= end BY <1>10, <3>2
    <3> HIDE DEF left, end
    <3>4. left(i) + i <= end BY <1>1, <2>3, <3>1, <3>2, <3>3
    <3> QED BY <2>2, <2>3, <3>4
  <2> QED BY <2>4, <2>5
<1>11. end \in good
  <2> HIDE DEF good, end
  <2>a. 0 \in Int /\ end \in Int BY <1>1
  <2>b. \A i \in 0 .. end : i # 0 /\ i - 1 \in good => i \in good BY <1>10
  <2>1. \A i \in 0 .. end : i \in good BY <1>9, <2>a, <2>b, Climbing
  <2> QED BY <1>1, <2>1
<1> DEFINE last == sort[end]
<1>12. last \in S /\ last.ranges = <<>>
  <2>1. last \in S /\ left(end) \in Nat /\ (left(end) + end <= end \/ left(end) = 0) BY <1>11
  <2> HIDE DEF left, end
  <2>2. left(end) = 0 BY <1>1, <2>1
  <2> QED BY <1>8, <2>1, <2>2 DEF left
<1>13. quicksort(values) = [kind |-> "quicksort", partitions |-> last.partitions, result |-> last.array]
  BY DEF quicksort, SortCalls, sort, n
<1> HIDE DEF last, sort
<1>14. SortOK(last, values, n) /\ last \in Sorts(n) BY <1>12 DEF SortStates
<1>15. \A i, j \in 1 .. n : i < j => last.array[i] <= last.array[j]
  <2>1. DOMAIN last.ranges = {} BY <1>12
  <2> QED BY <1>14, <2>1 DEF SortOK, Tidy
<1>16. \A k \in DOMAIN last.partitions :
          LET cut == last.partitions[k]
          IN  cut.array[cut.pivot_index] = last.array[cut.pivot_index]
  BY <1>14 DEF SortOK, Settled
<1>17. Rearranged(last.array, values, n, 1, n) /\ last.array \in Lists(n) BY <1>14 DEF SortOK, Sorts
<1> QED BY <1>13, <1>15, <1>16, <1>17 DEF n

(***************************************************************************)
(* Powers of two                                                           *)
(***************************************************************************)

\* The powers of two are what their recursion says.
LEMMA TwoToIs ==
    /\ TwoTo[0] = 1
    /\ \A n \in Nat : TwoTo[n] \in Nat \ {0} /\ TwoTo[n + 1] = 2 * TwoTo[n]
<1> DEFINE body(f) == [n \in Nat |-> IF n = 0 THEN 1 ELSE 2 * f[n - 1]]
           S == Nat \ {0}
           step(n) == [k \in 0 .. n |-> [x \in S |-> 2 * x]]
           upto(n) == CHOOSE f : Recurs(f, 0, n, S, 1, step(n))
           g == [n \in Nat |-> upto(n)[n]]
<1>1. ASSUME NEW n \in Nat PROVE Recurs(upto(n), 0, n, S, 1, step(n))
  <2> DEFINE s == step(n)
             first == 1
  <2>1. first \in S /\ s \in [0 .. n -> [S -> S]] /\ 0 <= n BY SMT
  <2> HIDE DEF s, S, first
  <2>2. \E f : Recurs(f, 0, n, S, first, s) BY <2>1, Recursion
  <2> QED BY <2>2 DEF s, first
<1>2. ASSUME NEW n \in Nat
      PROVE  /\ upto(n) \in [0 .. n -> S] /\ upto(n)[0] = 1
             /\ \A k \in 0 .. n : k # 0 => upto(n)[k] = 2 * upto(n)[k - 1]
  <2> DEFINE u == upto(n)
  <2>1. Recurs(u, 0, n, S, 1, step(n)) BY <1>1
  <2> HIDE DEF u
  <2>2. u \in [0 .. n -> S] /\ u[0] = 1 BY <2>1 DEF Recurs
  <2>3. ASSUME NEW k \in 0 .. n, k # 0 PROVE u[k] = 2 * u[k - 1]
    <3>1. u[k - 1] \in S BY <2>2, <2>3
    <3> QED BY <2>1, <2>3, <3>1 DEF Recurs
  <2> QED BY <2>2, <2>3 DEF u
<1> HIDE DEF upto
<1>3. ASSUME NEW n \in Nat PROVE upto(n + 1)[n] = upto(n)[n]
  <2> DEFINE good == {k \in 0 .. n : upto(n + 1)[k] = upto(n)[k]}
  <2>0. n + 1 \in Nat OBVIOUS
  <2>a. upto(n + 1)[0] = 1 /\ upto(n)[0] = 1 BY <1>2, <2>0
  <2>1. 0 \in good BY <2>a
  <2>2. ASSUME NEW k \in 0 .. n, k # 0, k - 1 \in good PROVE k \in good
    <3>1. k \in 0 .. n + 1 /\ n + 1 \in Nat BY <2>2
    <3>2. upto(n + 1)[k] = 2 * upto(n + 1)[k - 1] /\ upto(n)[k] = 2 * upto(n)[k - 1] BY <1>2, <2>2, <3>1
    <3> QED BY <2>2, <3>2
  <2> HIDE DEF good
  <2>3. \A k \in 0 .. n : k \in good BY <2>1, <2>2, Climbing
  <2> QED BY <2>3 DEF good
<1>4. \A n \in Nat : g[n] \in S BY <1>2
<1>5. g[0] = 1 /\ \A n \in Nat : g[n + 1] = 2 * g[n]
  <2>1. g[0] = 1 BY <1>2
  <2>2. ASSUME NEW n \in Nat PROVE g[n + 1] = 2 * g[n]
    <3>1. n + 1 \in Nat /\ n + 1 \in 0 .. n + 1 /\ n + 1 # 0 /\ (n + 1) - 1 = n OBVIOUS
    <3>2. upto(n + 1)[n + 1] = 2 * upto(n + 1)[n] BY <1>2, <3>1
    <3> QED BY <1>3, <3>1, <3>2
  <2> QED BY <2>1, <2>2
<1>6. g = body(g)
  <2>1. g = [n \in Nat |-> g[n]] OBVIOUS
  <2> HIDE DEF g
  <2>2. ASSUME NEW n \in Nat PROVE g[n] = IF n = 0 THEN 1 ELSE 2 * g[n - 1]
    <3>1. n # 0 => n - 1 \in Nat /\ (n - 1) + 1 = n OBVIOUS
    <3>2. n # 0 => g[(n - 1) + 1] = 2 * g[n - 1] BY <1>5, <3>1
    <3> QED BY <1>5, <3>1, <3>2
  <2> QED BY <2>1, <2>2
<1>7. TwoTo = body(TwoTo)
  <2>1. TwoTo = CHOOSE f : f = body(f) BY DEF TwoTo
  <2> HIDE DEF body, g
  <2> QED BY <1>6, <2>1
<1>8. \A n \in Nat : TwoTo[n] = IF n = 0 THEN 1 ELSE 2 * TwoTo[n - 1] BY <1>7
<1>9. TwoTo[0] = 1 BY <1>8
<1>10. ASSUME NEW n \in Nat PROVE TwoTo[n + 1] = 2 * TwoTo[n]
  <2>1. n + 1 \in Nat /\ n + 1 # 0 /\ (n + 1) - 1 = n OBVIOUS
  <2> QED BY <1>8, <2>1
<1>11. ASSUME NEW n \in Nat PROVE TwoTo[n] \in S
  <2> DEFINE good == {k \in 0 .. n : TwoTo[k] \in S}
  <2>1. 0 \in good BY <1>9
  <2>2. ASSUME NEW k \in 0 .. n, k # 0, k - 1 \in good PROVE k \in good
    <3>1. k \in Nat /\ TwoTo[k] = 2 * TwoTo[k - 1] BY <1>8, <2>2
    <3> QED BY <2>2, <3>1
  <2> HIDE DEF good
  <2>3. \A k \in 0 .. n : k \in good BY <2>1, <2>2, Climbing
  <2> QED BY <2>3 DEF good
<1> QED BY <1>9, <1>10, <1>11

\* The power of a sum is the product of the powers.
LEMMA TwoToAdds ==
    ASSUME NEW m \in Nat, NEW n \in Nat
    PROVE  TwoTo[m + n] = TwoTo[m] * TwoTo[n]
<1> DEFINE good == {k \in 0 .. n : TwoTo[m + k] = TwoTo[m] * TwoTo[k]}
<1>1. 0 \in good
  <2>1. TwoTo[m] \in Int /\ m + 0 = m /\ TwoTo[0] = 1 BY TwoToIs
  <2> QED BY <2>1
<1>2. ASSUME NEW k \in 0 .. n, k # 0, k - 1 \in good PROVE k \in good
  <2> DEFINE x == TwoTo[m]
             y == TwoTo[k - 1]
  <2>1. k - 1 \in Nat /\ (k - 1) + 1 = k /\ m + (k - 1) \in Nat /\ (m + (k - 1)) + 1 = m + k BY <1>2
  <2>2. TwoTo[k] = 2 * y /\ TwoTo[m + k] = 2 * TwoTo[m + (k - 1)] BY <2>1, TwoToIs
  <2>3. x \in Int /\ y \in Int BY <2>1, TwoToIs
  <2>4. TwoTo[m + (k - 1)] = x * y BY <1>2
  <2> HIDE DEF x, y
  <2>5. 2 * (x * y) = x * (2 * y) BY <2>3
  <2>6. TwoTo[m + k] = x * TwoTo[k] BY <2>2, <2>4, <2>5
  <2> QED BY <2>6 DEF x
<1> HIDE DEF good
<1>3. \A k \in 0 .. n : k \in good BY <1>1, <1>2, Climbing
<1>4. n \in good BY <1>3
<1> QED BY <1>4 DEF good

\* A higher power is no smaller.
LEMMA TwoToGrows ==
    ASSUME NEW m \in Nat, NEW n \in Nat, m <= n
    PROVE  TwoTo[m] <= TwoTo[n]
<1>1. n - m \in Nat /\ m + (n - m) = n OBVIOUS
<1> DEFINE x == TwoTo[m]
           y == TwoTo[n - m]
<1>2. x \in Nat /\ y \in Nat /\ y >= 1 BY <1>1, TwoToIs
<1>3. TwoTo[n] = x * y BY <1>1, TwoToAdds
<1> HIDE DEF x, y
<1>4. x <= x * y BY <1>2
<1> QED BY <1>3, <1>4 DEF x

\* A number lies below the power of its bit length.
LEMMA BitLengthIs ==
    ASSUME NEW n \in Nat
    PROVE  BitLength(n) \in Nat /\ n < TwoTo[BitLength(n)]
<1> DEFINE fits(k) == n < TwoTo[k] /\ (k = 0 \/ TwoTo[k - 1] <= n)
<1>1. \A k \in Nat : TwoTo[k] \in Nat /\ TwoTo[k] >= 1 BY TwoToIs
<1>2. n < TwoTo[n]
  <2> DEFINE good == {k \in 0 .. n : k < TwoTo[k]}
  <2>1. 0 \in good BY TwoToIs
  <2>2. ASSUME NEW k \in 0 .. n, k # 0, k - 1 \in good PROVE k \in good
    <3>1. k - 1 \in Nat /\ (k - 1) + 1 = k BY <2>2
    <3>2. TwoTo[k] = 2 * TwoTo[k - 1] /\ TwoTo[k - 1] \in Nat BY <3>1, TwoToIs
    <3>3. k - 1 < TwoTo[k - 1] BY <2>2
    <3>4. k < TwoTo[k] BY <3>1, <3>2, <3>3
    <3> QED BY <3>4
  <2> HIDE DEF good
  <2>3. \A k \in 0 .. n : k \in good BY <2>1, <2>2, Climbing
  <2> QED BY <2>3 DEF good
<1>3. \E k \in 0 .. n : fits(k)
  <2> SUFFICES ASSUME \A k \in 0 .. n : ~fits(k) PROVE FALSE OBVIOUS
  <2> DEFINE good == {k \in 0 .. n : ~(n < TwoTo[k])}
  <2>1. 0 \in good OBVIOUS
  <2>2. ASSUME NEW k \in 0 .. n, k # 0, k - 1 \in good PROVE k \in good
    <3>1. k - 1 \in Nat /\ k \in Nat BY <2>2
    <3>2. TwoTo[k - 1] <= n BY <1>1, <2>2, <3>1
    <3> QED BY <2>2, <3>2
  <2> HIDE DEF good
  <2>3. \A k \in 0 .. n : k \in good BY <2>1, <2>2, Climbing
  <2> QED BY <1>2, <2>3 DEF good
<1>4. BitLength(n) = CHOOSE k \in 0 .. n : fits(k) BY DEF BitLength
<1> HIDE DEF fits
<1>5. BitLength(n) \in 0 .. n /\ fits(BitLength(n)) BY <1>3, <1>4
<1> QED BY <1>5 DEF fits

(***************************************************************************)
(* Booth                                                                   *)
(***************************************************************************)

\* A signed number in a register of W values.
Wrap(t, W) == IF t < 0 THEN t + W ELSE t

\* The register's value is the remainder; its highest bit is the sign.
LEMMA WrapIs ==
    ASSUME NEW H \in Nat \ {0}, NEW W, W = 2 * H, NEW t \in Int, -H <= t, t < H
    PROVE  /\ t % W = Wrap(t, W)
           /\ Wrap(t, W) \in 0 .. W - 1
           /\ Wrap(t, W) >= H <=> t < 0
<1>1. CASE t < 0
  <2>1. t = (-1) * W + (t + W) /\ t + W \in 0 .. W - 1 /\ W \in Int BY <1>1
  <2>2. t + W = t % W BY <2>1, DivisionOnce
  <2> QED BY <1>1, <2>1, <2>2 DEF Wrap
<1>2. CASE ~(t < 0)
  <2>1. t = 0 * W + t /\ t \in 0 .. W - 1 /\ W \in Int BY <1>2
  <2>2. t = t % W BY <2>1, DivisionOnce
  <2> QED BY <1>2, <2>1, <2>2 DEF Wrap
<1> QED BY <1>1, <1>2

\* The register adds as signed numbers do while the sum fits.
LEMMA WrapAdds ==
    ASSUME NEW H \in Nat \ {0}, NEW W, W = 2 * H, NEW t \in Int, NEW m \in Int,
           -H <= t, t < H, -H < m, m < H, -H <= t + m, t + m < H
    PROVE  (Wrap(t, W) + Wrap(m, W)) % W = Wrap(t + m, W)
<1>1. W \in Int /\ t + m \in Int BY SMT
<1>2. Wrap(t + m, W) \in 0 .. W - 1 BY <1>1, WrapIs
<1>3. \E k \in Int : Wrap(t, W) + Wrap(m, W) = k * W + Wrap(t + m, W)
  <2>1. CASE t < 0 /\ m < 0
    <3>1. t + m < 0 BY <2>1
    <3>2. Wrap(t, W) + Wrap(m, W) = 1 * W + Wrap(t + m, W) BY <1>1, <2>1, <3>1 DEF Wrap
    <3> QED BY <3>2
  <2>2. CASE ~(t < 0) /\ ~(m < 0)
    <3>1. Wrap(t, W) + Wrap(m, W) = 0 * W + Wrap(t + m, W) BY <1>1, <2>2 DEF Wrap
    <3> QED BY <3>1
  <2>3. CASE ~(t < 0 <=> m < 0) /\ t + m < 0
    <3>1. Wrap(t, W) + Wrap(m, W) = 0 * W + Wrap(t + m, W) BY <1>1, <2>3 DEF Wrap
    <3> QED BY <3>1
  <2>4. CASE ~(t < 0 <=> m < 0) /\ ~(t + m < 0)
    <3>1. Wrap(t, W) + Wrap(m, W) = 1 * W + Wrap(t + m, W) BY <1>1, <2>4 DEF Wrap
    <3> QED BY <3>1
  <2> QED BY <2>1, <2>2, <2>3, <2>4
<1>4. PICK k \in Int : Wrap(t, W) + Wrap(m, W) = k * W + Wrap(t + m, W) BY <1>3
<1> DEFINE x == Wrap(t, W) + Wrap(m, W)
           r == Wrap(t + m, W)
<1>5. x \in Int BY <1>1 DEF Wrap
<1> HIDE DEF x, r
<1>6. x = k * W + r /\ r \in 0 .. W - 1 BY <1>2, <1>4 DEF x, r
<1>7. r = x % W BY <1>1, <1>5, <1>6, DivisionOnce
<1> QED BY <1>7 DEF x, r

\* The same for a subtraction: the register takes -m as W - m.
LEMMA WrapSubtracts ==
    ASSUME NEW H \in Nat \ {0}, NEW W, W = 2 * H, NEW t \in Int, NEW m \in Int,
           -H <= t, t < H, -H < m, m < H, -H <= t - m, t - m < H
    PROVE  (Wrap(t, W) - Wrap(m, W)) % W = Wrap(t - m, W)
<1>1. W \in Int /\ t - m \in Int BY SMT
<1>2. Wrap(t - m, W) \in 0 .. W - 1 BY <1>1, WrapIs
<1>3. \E k \in Int : Wrap(t, W) - Wrap(m, W) = k * W + Wrap(t - m, W)
  <2>1. CASE t < 0 /\ ~(m < 0)
    <3>1. t - m < 0 BY <2>1
    <3>2. Wrap(t, W) - Wrap(m, W) = 0 * W + Wrap(t - m, W) BY <1>1, <2>1, <3>1 DEF Wrap
    <3> QED BY <3>2
  <2>2. CASE ~(t < 0) /\ m < 0
    <3>1. ~(t - m < 0) BY <2>2
    <3>2. Wrap(t, W) - Wrap(m, W) = (-1) * W + Wrap(t - m, W) BY <1>1, <2>2, <3>1 DEF Wrap
    <3> QED BY <3>2
  <2>3. CASE (t < 0 <=> m < 0) /\ t - m < 0
    <3>1. Wrap(t, W) - Wrap(m, W) = (-1) * W + Wrap(t - m, W) BY <1>1, <2>3 DEF Wrap
    <3> QED BY <3>1
  <2>4. CASE (t < 0 <=> m < 0) /\ ~(t - m < 0)
    <3>1. Wrap(t, W) - Wrap(m, W) = 0 * W + Wrap(t - m, W) BY <1>1, <2>4 DEF Wrap
    <3> QED BY <3>1
  <2> QED BY <2>1, <2>2, <2>3, <2>4
<1>4. PICK k \in Int : Wrap(t, W) - Wrap(m, W) = k * W + Wrap(t - m, W) BY <1>3
<1> DEFINE x == Wrap(t, W) - Wrap(m, W)
           r == Wrap(t - m, W)
<1>5. x \in Int BY <1>1 DEF Wrap
<1> HIDE DEF x, r
<1>6. x = k * W + r /\ r \in 0 .. W - 1 BY <1>2, <1>4 DEF x, r
<1>7. r = x % W BY <1>1, <1>5, <1>6, DivisionOnce
<1> QED BY <1>7 DEF x, r

\* The register as one number: the sign that the arithmetic shift fills in is the sum's.
Doubled(H, W) == H \in Nat \ {0} /\ W = 2 * H
AsOneNumber(x, t, r, W, h, b) == x \in Int /\ x = (2 * t + r) * W + (2 * h + b)

\* The arithmetic shift halves the signed number.
LEMMA ShiftedIs ==
    ASSUME NEW H, NEW W, Doubled(H, W), NEW S \in Int, -H <= S, S < H,
           NEW q \in Int, NEW previous \in 0 .. 1
    PROVE  LET combined == Wrap(S, W) * (2 * W) + 2 * q + previous
           IN  (IF Wrap(S, W) >= H THEN (combined - 2 * (W * W)) \div 2 ELSE combined \div 2) = S * W + q
<1>0. H \in Nat \ {0} /\ W = 2 * H BY DEF Doubled
<1>1. W \in Int /\ S * W \in Int /\ W * W \in Int BY <1>0
<1>2. Wrap(S, W) >= H <=> S < 0 BY <1>0, WrapIs
<1> DEFINE SW == S * W
           WW == W * W
           z == SW + q
           P == Wrap(S, W) * (2 * W)
           combined == P + 2 * q + previous
<1>3. SW \in Int /\ WW \in Int /\ z \in Int BY <1>1
<1>4. \A y \in Int : y = z * 2 + previous => y \div 2 = z
  <2> TAKE y \in Int
  <2> HAVE y = z * 2 + previous
  <2> HIDE DEF z
  <2>1. previous \in 0 .. 2 - 1 OBVIOUS
  <2> QED BY <1>3, <2>1, DivisionOnce
<1>5. CASE S < 0
  <2>1. Wrap(S, W) = S + W BY <1>5 DEF Wrap
  <2>2. (S + W) * (2 * W) = 2 * (S * W) + 2 * (W * W) BY <1>1
  <2>3. P = 2 * SW + 2 * WW BY <2>1, <2>2
  <2> DEFINE y == combined - 2 * WW
  <2> HIDE DEF P, SW, WW
  <2>4. y = z * 2 + previous /\ y \in Int BY <1>3, <2>3
  <2> HIDE DEF y, z
  <2>5. y \div 2 = z BY <1>4, <2>4
  <2> QED BY <1>2, <1>5, <2>5 DEF y, z, P, SW, WW
<1>6. CASE ~(S < 0)
  <2>1. Wrap(S, W) = S BY <1>6 DEF Wrap
  <2>2. S * (2 * W) = 2 * (S * W) BY <1>1
  <2>3. P = 2 * SW BY <2>1, <2>2
  <2> DEFINE y == combined
  <2> HIDE DEF P, SW, WW
  <2>4. y = z * 2 + previous /\ y \in Int BY <1>3, <2>3
  <2> HIDE DEF y, z
  <2>5. y \div 2 = z BY <1>4, <2>4
  <2> QED BY <1>2, <1>6, <2>5 DEF y, z, P, SW, WW
<1> QED BY <1>5, <1>6

\* The shift: S over W values and q behind it become S halved, its last bit and q halved.
LEMMA ShiftIs ==
    ASSUME NEW H, NEW W, Doubled(H, W),
           NEW t \in Int, -H <= t, t < H, NEW r \in 0 .. 1, NEW h \in Nat, NEW b \in 0 .. 1, h < H,
           NEW shifted, AsOneNumber(shifted, t, r, W, h, b)
    PROVE  /\ (shifted \div (2 * W)) % W = Wrap(t, W)
           /\ (shifted \div 2) % W = r * H + h
           /\ shifted % 2 = b
<1> DEFINE c == r * H + h
           tW == t * W
           low == 2 * c + b
           half == tW + c
           d == 2 * W
<1>H. H \in Nat \ {0} /\ W \in Nat \ {0} /\ W = 2 * H BY DEF Doubled
<1>R. shifted \in Int /\ shifted = (2 * t + r) * W + (2 * h + b) BY DEF AsOneNumber
<1>1. tW \in Int /\ c \in 0 .. W - 1 /\ d \in Int /\ 0 < d
  <2>1. CASE r = 0 BY <1>H, <2>1
  <2>2. CASE r = 1 BY <1>H, <2>2
  <2> QED BY <2>1, <2>2
<1>2. shifted = 2 * tW + low
  <2>1. CASE r = 0 BY <1>H, <1>R, <2>1
  <2>2. CASE r = 1 BY <1>H, <1>R, <2>2
  <2> QED BY <2>1, <2>2
<1>3. 2 * tW = t * d BY <1>H
<1>4. c \in Int /\ low \in 0 .. d - 1
  <2> HIDE DEF c
  <2> QED BY <1>1, <1>H
<1> HIDE DEF c, tW, low, d
<1>5. \A x \in Int, e \in Int, k \in Int : \A f \in 0 .. e - 1 : x = k * e + f => k = x \div e /\ f = x % e
  BY DivisionOnce
<1>6. shifted = t * d + low BY <1>2, <1>3
<1>7. t = shifted \div d BY <1>1, <1>4, <1>5, <1>6, <1>R
<1>8. t % W = Wrap(t, W) BY <1>H, WrapIs
<1>9. shifted = half * 2 + b /\ half \in Int BY <1>1, <1>2, <1>4 DEF low
<1> HIDE DEF half
<1>10. half = shifted \div 2 /\ b = shifted % 2
  <2>1. b \in 0 .. 2 - 1 /\ 2 \in Int OBVIOUS
  <2> QED BY <1>5, <1>9, <1>R, <2>1
<1>11. half = t * W + c BY DEF half, tW
<1>12. c = half % W
  <2>1. W \in Int /\ half \in Int /\ half = t * W + c /\ c \in 0 .. W - 1 BY <1>1, <1>9, <1>11, <1>H
  <2> QED BY ONLY <2>1, t \in Int, DivisionOnce
<1> QED BY <1>7, <1>8, <1>10, <1>12 DEF c, d

\* A round on signed numbers.
RoundFrom(w, H, W, M, a, h, b, previous, regs, t, r) ==
    /\ w \in Nat /\ H = TwoTo[w] /\ W = 2 * H
    /\ M \in Int /\ -H < M /\ M < H
    /\ a \in Int /\ -H <= a /\ a < H
    /\ h \in Nat /\ h < H /\ b \in 0 .. 1 /\ previous \in 0 .. 1
    /\ regs = [a |-> Wrap(a, W), q |-> 2 * h + b, previous |-> previous]
    /\ t \in Int /\ r \in 0 .. 1
    /\ a + (previous - b) * M = 2 * t + r /\ -H <= 2 * t + r /\ 2 * t + r < H

\* BoothRound adds, takes away or leaves, and shifts: the registers of such a round.
LEMMA BoothRoundIs ==
    ASSUME NEW w, NEW H, NEW W, NEW M, NEW a, NEW h, NEW b, NEW previous, NEW regs, NEW t, NEW r,
           RoundFrom(w, H, W, M, a, h, b, previous, regs, t, r)
    PROVE  BoothRound(regs, M, w + 1) = [a |-> Wrap(t, W), q |-> r * H + h, previous |-> b]
<1> DEFINE S == 2 * t + r
           q == 2 * h + b
           m == ToTwosComplement(M, w + 1)
           pair == <<regs.q % 2, regs.previous>>
           sum == CASE pair = <<1, 0>> -> (regs.a - m) % TwoTo[w + 1]
                    [] pair = <<0, 1>> -> (regs.a + m) % TwoTo[w + 1]
                    [] OTHER -> regs.a
           combined == sum * TwoTo[(w + 1) + 1] + 2 * regs.q + regs.previous
           shifted == IF sum >= TwoTo[(w + 1) - 1] THEN (combined - TwoTo[2 * (w + 1) + 1]) \div 2
                      ELSE combined \div 2
<1>0. H = TwoTo[w] /\ W = 2 * H BY DEF RoundFrom
<1>S. a + (previous - b) * M = 2 * t + r /\ -H <= 2 * t + r /\ 2 * t + r < H BY DEF RoundFrom
<1>N. w \in Nat /\ M \in Int /\ -H < M /\ M < H /\ a \in Int /\ -H <= a /\ a < H /\ h \in Nat /\ h < H
      /\ b \in 0 .. 1 /\ previous \in 0 .. 1 /\ t \in Int /\ r \in 0 .. 1
  BY DEF RoundFrom
<1>V. regs = [a |-> Wrap(a, W), q |-> q, previous |-> previous] BY DEF RoundFrom
<1>1. H \in Nat \ {0} /\ W \in Nat \ {0} /\ W = 2 * H BY <1>0, <1>N, TwoToIs
<1>2. TwoTo[w + 1] = W /\ TwoTo[(w + 1) + 1] = 2 * W /\ TwoTo[(w + 1) - 1] = H
      /\ TwoTo[2 * (w + 1) + 1] = 2 * (W * W)
  <2>1. w + 1 \in Nat /\ (w + 1) - 1 = w /\ 2 * (w + 1) = (w + 1) + (w + 1) /\ 2 * (w + 1) \in Nat
    BY <1>N
  <2>2. TwoTo[w + 1] = W /\ TwoTo[(w + 1) + 1] = 2 * TwoTo[w + 1] BY <1>0, <1>N, <2>1, TwoToIs
  <2>3. TwoTo[(w + 1) + (w + 1)] = TwoTo[w + 1] * TwoTo[w + 1] BY <2>1, TwoToAdds
  <2>4. TwoTo[2 * (w + 1) + 1] = 2 * TwoTo[2 * (w + 1)] BY <2>1, TwoToIs
  <2> QED BY <1>0, <2>1, <2>2, <2>3, <2>4
<1>3. m = Wrap(M, W)
  <2>1. -H <= M BY <1>1, <1>N
  <2>2. M % W = Wrap(M, W) BY <1>1, <1>N, <2>1, WrapIs
  <2> QED BY <1>2, <2>2 DEF ToTwosComplement
<1>4. q % 2 = b
  <2>1. q \in Int /\ q = h * 2 + b /\ b \in 0 .. 2 - 1 /\ 2 \in Int /\ h \in Int BY <1>N DEF q
  <2> HIDE DEF q
  <2> QED BY ONLY <2>1, DivisionOnce
<1>5. S \in Int /\ -H <= S /\ S < H /\ S = a + (previous - b) * M BY <1>1, <1>N, <1>S
<1> HIDE DEF q, S
<1>6. sum = Wrap(S, W)
  <2>1. regs.a = Wrap(a, W) /\ pair = <<b, previous>> BY <1>4, <1>V
  <2> HIDE DEF pair
  <2>2. CASE b = 1 /\ previous = 0
    <3>1. S = a - M BY <1>N, <1>5, <2>2
    <3>2. pair = <<1, 0>> BY <1>N, <2>1, <2>2
    <3>3. sum = (regs.a - m) % TwoTo[w + 1] BY <3>2
    <3>4. sum = (Wrap(a, W) - Wrap(M, W)) % W BY <1>2, <1>3, <2>1, <3>3
    <3> QED BY <1>1, <1>N, <1>5, <3>1, <3>4, WrapSubtracts
  <2>3. CASE b = 0 /\ previous = 1
    <3>1. S = a + M BY <1>N, <1>5, <2>3
    <3>2. pair = <<0, 1>> /\ pair # <<1, 0>> BY <2>1, <2>3
    <3>3. sum = (regs.a + m) % TwoTo[w + 1] BY <3>2
    <3>4. sum = (Wrap(a, W) + Wrap(M, W)) % W BY <1>2, <1>3, <2>1, <3>3
    <3> QED BY <1>1, <1>N, <1>5, <3>1, <3>4, WrapAdds
  <2>4. CASE b = previous
    <3>1. S = a BY <1>N, <1>5, <2>4
    <3>2. pair # <<0, 1>> /\ pair # <<1, 0>> BY <2>1, <2>4
    <3>3. sum = regs.a BY <3>2
    <3> QED BY <2>1, <3>1, <3>3
  <2> QED BY <1>N, <2>2, <2>3, <2>4
<1> HIDE DEF sum
<1>Q. regs.q = q /\ regs.previous = previous /\ q \in Int BY <1>N, <1>V DEF q
<1>7. shifted = S * W + q
  <2> DEFINE whole == Wrap(S, W) * (2 * W) + 2 * q + previous
  <2>1. combined = whole BY <1>2, <1>6, <1>Q
  <2>2. shifted = IF Wrap(S, W) >= H THEN (whole - 2 * (W * W)) \div 2 ELSE whole \div 2
    <3> HIDE DEF combined, whole
    <3> QED BY <1>2, <1>6, <2>1
  <2>3. (IF Wrap(S, W) >= H THEN (whole - 2 * (W * W)) \div 2 ELSE whole \div 2) = S * W + q
    <3>1. Doubled(H, W) /\ S \in Int /\ -H <= S /\ S < H /\ q \in Int /\ previous \in 0 .. 1
      BY <1>1, <1>N, <1>5, <1>Q DEF Doubled
    <3>2. LET x == Wrap(S, W) * (2 * W) + 2 * q + previous
          IN  (IF Wrap(S, W) >= H THEN (x - 2 * (W * W)) \div 2 ELSE x \div 2) = S * W + q
      BY ONLY <3>1, ShiftedIs
    <3> QED BY <3>2
  <2> QED BY <2>2, <2>3
<1>8. BoothRound(regs, M, w + 1) = [a |-> (shifted \div TwoTo[(w + 1) + 1]) % TwoTo[w + 1],
                                    q |-> (shifted \div 2) % TwoTo[w + 1],
                                    previous |-> shifted % 2]
  BY DEF BoothRound, sum
<1> HIDE DEF shifted, combined
<1>9. shifted \in Int /\ shifted = (2 * t + r) * W + (2 * h + b)
  <2>1. S * W \in Int BY <1>1, <1>N, <1>5
  <2> QED BY <1>7, <1>N, <1>Q, <2>1 DEF S, q
<1>T. -H <= t /\ t < H BY <1>1, <1>N, <1>S
<1>10. /\ (shifted \div (2 * W)) % W = Wrap(t, W)
       /\ (shifted \div 2) % W = r * H + h
       /\ shifted % 2 = b
  <2>1. /\ Doubled(H, W)
        /\ t \in Int /\ -H <= t /\ t < H /\ r \in 0 .. 1 /\ h \in Nat /\ b \in 0 .. 1 /\ h < H
        /\ AsOneNumber(shifted, t, r, W, h, b)
    BY <1>1, <1>N, <1>9, <1>T DEF Doubled, AsOneNumber
  <2> QED BY ONLY <2>1, ShiftIs
<1> QED BY <1>2, <1>8, <1>10 DEF q

Signs == [a : Int, q : Int, previous : Int]

\* The rounds are what their recursion says.
LEMMA BoothRoundsAre ==
    ASSUME NEW M \in Int, NEW Q \in Int, NEW w \in Nat, BoothWidth(M, Q) = w
    PROVE  /\ BoothRounds(M, Q)[0] = [a |-> 0, q |-> ToTwosComplement(Q, w), previous |-> 0]
           /\ \A i \in 0 .. w : i # 0 => BoothRounds(M, Q)[i] = BoothRound(BoothRounds(M, Q)[i - 1], M, w)
<1> DEFINE first == [a |-> 0, q |-> ToTwosComplement(Q, w), previous |-> 0]
           step == [i \in 0 .. w |-> [regs \in Signs |-> BoothRound(regs, M, w)]]
           body(f) == [i \in 0 .. w |->
               IF i = 0 THEN [a |-> 0, q |-> ToTwosComplement(Q, w), previous |-> 0]
               ELSE BoothRound(f[i - 1], M, w)]
<1>1. TwoTo[w] \in Nat \ {0} /\ TwoTo[w + 1] \in Nat \ {0} BY TwoToIs
<1>2. \A n \in Int, d \in Nat \ {0} : n \div d \in Int /\ n % d \in Int BY DivisionIs
<1>3. first \in Signs BY <1>1, <1>2 DEF ToTwosComplement, Signs
<1>4. ASSUME NEW regs \in Signs PROVE BoothRound(regs, M, w) \in Signs
  <2>1. regs.a \in Int /\ regs.q \in Int /\ regs.previous \in Int BY DEF Signs
  <2>2. ToTwosComplement(M, w) \in Int BY <1>1, <1>2 DEF ToTwosComplement
  <2> DEFINE m == ToTwosComplement(M, w)
             pair == <<regs.q % 2, regs.previous>>
             sum == CASE pair = <<1, 0>> -> (regs.a - m) % TwoTo[w]
                      [] pair = <<0, 1>> -> (regs.a + m) % TwoTo[w]
                      [] OTHER -> regs.a
             combined == sum * TwoTo[w + 1] + 2 * regs.q + regs.previous
             shifted == IF sum >= TwoTo[w - 1] THEN (combined - TwoTo[2 * w + 1]) \div 2
                        ELSE combined \div 2
  <2>3. sum \in Int
    <3>1. regs.a - m \in Int /\ regs.a + m \in Int BY <2>1, <2>2
    <3>2. (regs.a - m) % TwoTo[w] \in Int /\ (regs.a + m) % TwoTo[w] \in Int BY <1>1, <1>2, <3>1
    <3> HIDE DEF pair, m
    <3>3. CASE pair = <<1, 0>> BY <3>2, <3>3
    <3>4. CASE pair = <<0, 1>> /\ pair # <<1, 0>> BY <3>2, <3>4
    <3>5. CASE pair # <<0, 1>> /\ pair # <<1, 0>> BY <2>1, <3>5
    <3> QED BY <3>3, <3>4, <3>5
  <2> HIDE DEF sum
  <2>4. combined \in Int BY <1>1, <2>1, <2>3
  <2>5. TwoTo[2 * w + 1] \in Int
    <3>1. 2 * w + 1 \in Nat OBVIOUS
    <3> QED BY <3>1, TwoToIs
  <2> HIDE DEF combined
  <2>6. shifted \in Int
    <3>1. combined - TwoTo[2 * w + 1] \in Int BY <2>4, <2>5
    <3> QED BY <1>2, <2>4, <3>1
  <2>7. BoothRound(regs, M, w) = [a |-> (shifted \div TwoTo[w + 1]) % TwoTo[w],
                                  q |-> (shifted \div 2) % TwoTo[w],
                                  previous |-> shifted % 2]
    BY DEF BoothRound, sum, combined
  <2> HIDE DEF shifted
  <2>8. 2 \in Nat \ {0} OBVIOUS
  <2>9. (shifted \div TwoTo[w + 1]) \in Int /\ (shifted \div 2) \in Int BY <1>1, <1>2, <2>6, <2>8
  <2>10. (shifted \div TwoTo[w + 1]) % TwoTo[w] \in Int /\ (shifted \div 2) % TwoTo[w] \in Int
         /\ shifted % 2 \in Int
    BY <1>1, <1>2, <2>6, <2>8, <2>9
  <2> QED BY <2>7, <2>10 DEF Signs
<1>5. step \in [0 .. w -> [Signs -> Signs]] BY <1>4
<1>6. PICK f : Recurs(f, 0, w, Signs, first, step)
  <2> HIDE DEF step, first
  <2> QED BY <1>3, <1>5, Recursion
<1>7. f = body(f)
  <2>1. f \in [0 .. w -> Signs] /\ f[0] = first BY <1>6 DEF Recurs
  <2>2. ASSUME NEW i \in 0 .. w, i # 0 PROVE f[i] = BoothRound(f[i - 1], M, w)
    <3>1. f[i - 1] \in Signs BY <2>1, <2>2
    <3> QED BY <1>6, <2>2, <3>1 DEF Recurs
  <2>3. f = [i \in 0 .. w |-> f[i]] BY <2>1
  <2> QED BY <2>1, <2>2, <2>3
<1> DEFINE r == BoothRounds(M, Q)
<1>8. r = CHOOSE f_ : f_ = body(f_) BY DEF BoothRounds
<1> HIDE DEF r
<1>9. r = body(r)
  <2> HIDE DEF body
  <2> QED BY <1>7, <1>8
<1>10. 0 \in 0 .. w OBVIOUS
<1>11. r[0] = first /\ \A i \in 0 .. w : i # 0 => r[i] = BoothRound(r[i - 1], M, w) BY <1>9, <1>10
<1> QED BY <1>11 DEF r

\* After i of w + 1 rounds, with P = 2^i, R = 2^(w + 1 - i) and W = P * R: the bits of the
\* multiplier U that have been used are low, the others rest; the registers hold the product
\* of low, once a run of ones that has begun is closed.
Multiplied(regs, M, U, W, P, R, t, rest, low, L, previous) ==
    /\ regs = [a |-> Wrap(t, W), q |-> L * R + rest, previous |-> previous]
    /\ t \in Int /\ previous \in 0 .. 1
    /\ rest \in Nat /\ rest < R /\ low \in Nat /\ low < P /\ L \in Nat /\ L < P
    /\ U = rest * P + low
    /\ previous = 1 <=> 2 * low >= P
    /\ P * (t * W + L * R + previous * (M * W)) = (M * W) * low
    /\ M >= 0 => 0 <= t * W + L * R + previous * (M * W) /\ t * W + L * R + previous * (M * W) <= M * W
    /\ M <= 0 => M * W <= t * W + L * R + previous * (M * W) /\ t * W + L * R + previous * (M * W) <= 0

\* What the registers say lies no further out than the multiplicand.
LEMMA NoOverflow ==
    ASSUME NEW W \in Nat \ {0}, NEW M \in Int, NEW x \in Int, NEW y \in 0 .. W - 1, NEW b \in 0 .. 1,
           NEW z \in Int, x * W + y = z - b * (M * W),
           M >= 0 => 0 <= z /\ z <= M * W,
           M <= 0 => M * W <= z /\ z <= 0
    PROVE  (M >= 0 => -M <= x /\ x <= M) /\ (M <= 0 => M <= x /\ x <= -M)
<1> DEFINE xW == x * W
           MW == M * W
<1>1. xW \in Int /\ MW \in Int OBVIOUS
<1>2. b * MW = 0 \/ b * MW = MW
  <2>1. CASE b = 0 BY <1>1, <2>1
  <2>2. CASE b = 1 BY <1>1, <2>2
  <2> QED BY <2>1, <2>2
<1>3. \A k \in Int : k >= 0 => k * W >= 0 OBVIOUS
<1>4. \A k \in Int : k >= 1 => k * W >= W OBVIOUS
<1>5. ASSUME M >= 0 PROVE -M <= x /\ x <= M
  <2>1. -MW <= xW + y /\ xW + y <= MW
    <3> DEFINE bMW == b * MW
    <3>1. xW + y = z - bMW /\ 0 <= z /\ z <= MW BY <1>5
    <3>2. bMW = 0 \/ bMW = MW BY <1>2
    <3> HIDE DEF xW, MW, bMW
    <3> QED BY <1>1, <3>1, <3>2
  <2>2. x <= M
    <3> SUFFICES ASSUME x - M >= 1 PROVE FALSE OBVIOUS
    <3>1. (x - M) * W >= W BY <1>4
    <3>2. (x - M) * W = xW - MW OBVIOUS
    <3> HIDE DEF xW, MW
    <3> QED BY <1>1, <2>1, <3>1, <3>2
  <2>3. -M <= x
    <3> SUFFICES ASSUME -M - x >= 1 PROVE FALSE OBVIOUS
    <3>1. (-M - x) * W >= W BY <1>4
    <3>2. (-M - x) * W = -MW - xW OBVIOUS
    <3> HIDE DEF xW, MW
    <3> QED BY <1>1, <2>1, <3>1, <3>2
  <2> QED BY <2>2, <2>3
<1>6. ASSUME M <= 0 PROVE M <= x /\ x <= -M
  <2>1. MW <= xW + y /\ xW + y <= -MW
    <3> DEFINE bMW == b * MW
    <3>1. xW + y = z - bMW /\ MW <= z /\ z <= 0 BY <1>6
    <3>2. bMW = 0 \/ bMW = MW BY <1>2
    <3> HIDE DEF xW, MW, bMW
    <3> QED BY <1>1, <3>1, <3>2
  <2>2. x <= -M
    <3> SUFFICES ASSUME x + M >= 1 PROVE FALSE OBVIOUS
    <3>1. (x + M) * W >= W BY <1>4
    <3>2. (x + M) * W = xW + MW OBVIOUS
    <3> HIDE DEF xW, MW
    <3> QED BY <1>1, <2>1, <3>1, <3>2
  <2>3. M <= x
    <3> SUFFICES ASSUME M - x >= 1 PROVE FALSE OBVIOUS
    <3>1. (M - x) * W >= W BY <1>4
    <3>2. (M - x) * W = MW - xW OBVIOUS
    <3> HIDE DEF xW, MW
    <3> QED BY <1>1, <2>1, <3>1, <3>2
  <2> QED BY <2>2, <2>3
<1> QED BY <1>5, <1>6

\* A round uses one bit more of the multiplier.
LEMMA MultipliedStep ==
    ASSUME NEW w \in Nat, NEW H, NEW W, H = TwoTo[w], Doubled(H, W),
           NEW M \in Int, -H < M, M < H, NEW U, NEW P \in Nat \ {0}, NEW R \in Nat \ {0},
           P * R = H, NEW regs, NEW t, NEW rest, NEW low, NEW L, NEW previous,
           Multiplied(regs, M, U, W, P, 2 * R, t, rest, low, L, previous)
    PROVE  \E t2, rest2, low2, L2, previous2 :
              Multiplied(BoothRound(regs, M, w + 1), M, U, W, 2 * P, R, t2, rest2, low2, L2, previous2)
<1> DEFINE MW == M * W
           tW == t * W
           LR == L * R
           z == tW + L * (2 * R) + previous * MW
           b == rest % 2
           rest2 == rest \div 2
           h == LR + rest2
           S == t + (previous - b) * M
           r == S % 2
           t2 == S \div 2
           low2 == low + b * P
           L2 == r * P + L
           z2 == t2 * W + L2 * R + b * MW
<1>1. H \in Nat \ {0} /\ W = 2 * H /\ W \in Nat \ {0} BY DEF Doubled
<1>2. /\ regs = [a |-> Wrap(t, W), q |-> L * (2 * R) + rest, previous |-> previous]
      /\ t \in Int /\ previous \in 0 .. 1
      /\ rest \in Nat /\ rest < 2 * R /\ low \in Nat /\ low < P /\ L \in Nat /\ L < P
      /\ U = rest * P + low
  BY DEF Multiplied
<1>3. /\ P * z = MW * low
      /\ M >= 0 => 0 <= z /\ z <= MW
      /\ M <= 0 => MW <= z /\ z <= 0
  BY DEF Multiplied
<1>4. b \in 0 .. 1 /\ rest2 \in Nat /\ rest = 2 * rest2 + b BY <1>2, DivisionIs
<1> HIDE DEF b, rest2
<1>5. S \in Int
  <2>1. (previous - b) * M \in Int BY <1>2, <1>4
  <2> QED BY <1>2, <2>1
<1>6. r \in 0 .. 1 /\ t2 \in Int /\ S = 2 * t2 + r
  <2> HIDE DEF S
  <2> QED BY <1>5, DivisionIs
<1>7. MW \in Int /\ tW \in Int /\ LR \in Int /\ L * (2 * R) = 2 * LR /\ z \in Int
  <2>1. MW \in Int /\ tW \in Int /\ LR \in Int /\ L * (2 * R) = 2 * LR BY <1>1, <1>2
  <2>2. previous * MW \in Int
    <3> HIDE DEF MW
    <3> QED BY <1>2, <2>1
  <2> DEFINE pM == previous * MW
  <2> HIDE DEF pM, tW, LR
  <2>3. tW + 2 * LR + pM \in Int BY <2>1, <2>2 DEF pM
  <2> QED BY <2>1, <2>3 DEF pM, tW, LR
\* The used part of Q lies below W.
<1>8. LR + R <= H /\ LR >= 0 /\ h \in Nat /\ h < H
  <2>1. L * R <= (P - 1) * R
    <3>1. P - 1 - L >= 0 /\ P - 1 - L \in Int BY <1>2
    <3>2. (P - 1 - L) * R >= 0 BY <3>1
    <3>3. (P - 1 - L) * R = (P - 1) * R - L * R BY <1>2
    <3> QED BY <1>2, <3>2, <3>3
  <2>2. (P - 1) * R = H - R OBVIOUS
  <2>3. LR >= 0 BY <1>2
  <2> HIDE DEF LR
  <2>4. LR <= H - R BY <2>1, <2>2 DEF LR
  <2>5. rest2 < R BY <1>2, <1>4
  <2> QED BY <1>1, <1>4, <1>7, <2>3, <2>4, <2>5
<1>9. 2 * LR \in 0 .. W - 1
  <2> HIDE DEF LR
  <2> QED BY <1>1, <1>7, <1>8
\* Neither the register nor the sum leaves its range.
<1>10. -H <= t /\ t < H
  <2>1. t * W + 2 * LR = z - previous * (M * W)
    <3> DEFINE pM == previous * MW
    <3>1. pM \in Int
      <4> HIDE DEF MW
      <4> QED BY <1>2, <1>7
    <3>2. z = tW + 2 * LR + pM BY <1>7
    <3> HIDE DEF pM, tW, LR, z
    <3>3. tW + 2 * LR = z - pM BY <1>7, <3>1, <3>2
    <3> QED BY <3>3 DEF pM, tW
  <2> DEFINE y == 2 * LR
  <2> HIDE DEF y, z
  <2>2. y \in 0 .. W - 1 /\ t * W + y = z - previous * (M * W) BY <1>9, <2>1 DEF y
  <2>3. (M >= 0 => -M <= t /\ t <= M) /\ (M <= 0 => M <= t /\ t <= -M)
    BY <1>1, <1>2, <1>3, <1>7, <2>2, NoOverflow
  <2> QED BY <1>1, <1>2, <2>3
<1>11. S * W = tW + (previous * MW - b * MW)
  <2>1. CASE previous = b
    <3>1. S = t /\ (previous - b) * M = 0 BY <1>2, <1>4, <2>1
    <3> DEFINE x == b * MW
    <3>2. previous * MW = x /\ S * W = tW BY <2>1, <3>1
    <3>3. x \in Int
      <4> HIDE DEF MW
      <4> QED BY <1>4, <1>7
    <3> HIDE DEF x, tW
    <3>4. tW = tW + (x - x) BY <1>7, <3>3
    <3> QED BY <3>2, <3>4 DEF x
  <2>2. CASE previous = 1 /\ b = 0
    <3>1. S = t + M BY <1>2, <2>2
    <3>2. (t + M) * W = t * W + M * W BY <1>1, <1>2
    <3> QED BY <1>7, <2>2, <3>1, <3>2
  <2>3. CASE previous = 0 /\ b = 1
    <3>1. S = t - M BY <1>2, <2>3
    <3>2. (t - M) * W = t * W - M * W BY <1>1, <1>2
    <3> QED BY <1>7, <2>3, <3>1, <3>2
  <2> QED BY <1>2, <1>4, <2>1, <2>2, <2>3
<1>12. S * W + 2 * LR = z - b * MW
  <2> DEFINE pM == previous * MW
             bM == b * MW
             SW == S * W
  <2>1. pM \in Int /\ bM \in Int
    <3> HIDE DEF MW
    <3> QED BY <1>2, <1>4, <1>7
  <2>2. z = tW + 2 * LR + pM /\ SW = tW + (pM - bM) BY <1>7, <1>11
  <2> HIDE DEF pM, bM, SW, tW, LR, z
  <2>3. SW + 2 * LR = z - bM BY <1>7, <2>1, <2>2
  <2> QED BY <2>3 DEF SW, bM
<1>13. -H <= S /\ S < H
  <2> DEFINE y == 2 * LR
  <2>1. y \in 0 .. W - 1 /\ S * W + y = z - b * (M * W) BY <1>9, <1>12
  <2> HIDE DEF y, z, S
  <2>2. (M >= 0 => -M <= S /\ S <= M) /\ (M <= 0 => M <= S /\ S <= -M)
    BY <1>1, <1>3, <1>4, <1>5, <1>7, <2>1, NoOverflow
  <2> QED BY <1>1, <1>5, <2>2
<1>14. BoothRound(regs, M, w + 1) = [a |-> Wrap(t2, W), q |-> r * H + h, previous |-> b]
  <2>1. regs = [a |-> Wrap(t, W), q |-> 2 * h + b, previous |-> previous]
    <3>1. L * (2 * R) + rest = 2 * h + b
      <4> HIDE DEF LR
      <4> QED BY <1>2, <1>4, <1>7
    <3> QED BY <1>2, <3>1
  <2>2. t + (previous - b) * M = 2 * t2 + r /\ -H <= 2 * t2 + r /\ 2 * t2 + r < H
    <3>1. S = 2 * t2 + r BY <1>6
    <3> HIDE DEF t2, r
    <3>2. t + (previous - b) * M = 2 * t2 + r BY <3>1
    <3> HIDE DEF S
    <3> QED BY <1>13, <3>1, <3>2
  <2> HIDE DEF h, r, t2, S
  <2>3. RoundFrom(w, H, W, M, t, h, b, previous, regs, t2, r)
    BY <1>1, <1>2, <1>4, <1>6, <1>8, <1>10, <2>1, <2>2 DEF RoundFrom
  <2> QED BY ONLY <2>3, BoothRoundIs
<1> HIDE DEF r, t2
<1>15. r * H + h = L2 * R + rest2 /\ L2 \in Nat /\ L2 < 2 * P /\ L2 * R = r * H + LR
  <2>1. CASE r = 0
    <3>1. L2 = L BY <1>2, <2>1
    <3>2. L2 * R = LR /\ r * H = 0 BY <1>1, <2>1, <3>1
    <3>h. h = LR + rest2 OBVIOUS
    <3> DEFINE LL == L2 * R
               rr == r * H
    <3> HIDE DEF LR, L2, h, LL, rr
    <3>3. L2 \in Nat /\ L2 < 2 * P BY <1>2, <3>1
    <3>4. LL = LR /\ rr = 0 BY <3>2 DEF LL, rr
    <3>5. rr + h = LL + rest2 /\ LL = rr + LR BY <1>4, <1>7, <3>h, <3>4
    <3> QED BY <3>3, <3>5 DEF LL, rr
  <2>2. CASE r = 1
    <3>1. L2 = P + L BY <1>2, <2>2
    <3>2. L2 * R = P * R + L * R BY <1>2, <3>1
    <3>3. L2 * R = H + LR /\ r * H = H BY <1>1, <2>2, <3>2
    <3>h. h = LR + rest2 OBVIOUS
    <3> DEFINE LL == L2 * R
               rr == r * H
    <3> HIDE DEF LR, L2, h, LL, rr
    <3>4. L2 \in Nat /\ L2 < 2 * P BY <1>2, <3>1
    <3>5. LL = H + LR /\ rr = H BY <3>3 DEF LL, rr
    <3>6. rr + h = LL + rest2 /\ LL = rr + LR BY <1>1, <1>4, <1>7, <3>h, <3>5
    <3> QED BY <3>4, <3>6 DEF LL, rr
  <2> QED BY <1>6, <2>1, <2>2
<1>16. rest2 < R BY <1>2, <1>4
<1>17. low2 \in Nat /\ low2 < 2 * P /\ (b = 1 <=> 2 * low2 >= 2 * P) /\ U = rest2 * (2 * P) + low2
  <2>1. CASE b = 0
    <3>1. low2 = low /\ rest = 2 * rest2 BY <1>2, <1>4, <2>1
    <3>2. U = rest2 * (2 * P) + low BY <1>2, <1>4, <3>1
    <3> QED BY <1>2, <2>1, <3>1, <3>2
  <2>2. CASE b = 1
    <3>1. low2 = low + P /\ rest = 2 * rest2 + 1 BY <1>2, <1>4, <2>2
    <3>2. rest * P = rest2 * (2 * P) + P BY <1>4, <3>1
    <3>3. rest2 * (2 * P) \in Int BY <1>4
    <3> DEFINE x == rest2 * (2 * P)
    <3> HIDE DEF x, low2
    <3>4. U = (x + P) + low /\ x \in Int BY <1>2, <3>2, <3>3 DEF x
    <3>5. U = x + low2 BY <1>2, <3>1, <3>4
    <3> QED BY <1>2, <2>2, <3>1, <3>5 DEF x
  <2> QED BY <1>4, <2>1, <2>2
<1>18. 2 * z2 = z + b * MW /\ z2 \in Int /\ b * MW \in Int
  <2> DEFINE SW == S * W
             rW == r * W
             rH == r * H
             tt == t2 * W
             bM == b * MW
  <2>1. bM \in Int
    <3> HIDE DEF MW
    <3> QED BY <1>4, <1>7
  <2>2. tt \in Int /\ rH \in Int /\ rW = 2 * rH /\ SW \in Int
    <3>1. tt \in Int BY <1>1, <1>6
    <3>2. rH \in Int /\ rW = 2 * rH BY <1>1, <1>6
    <3>3. SW \in Int
      <4> HIDE DEF S
      <4> QED BY <1>1, <1>5
    <3> QED BY <3>1, <3>2, <3>3
  <2>3. SW = 2 * tt + rW
    <3>1. (2 * t2 + r) * W = 2 * (t2 * W) + r * W
      <4> HIDE DEF S, t2, r
      <4>1. W \in Int /\ t2 \in Int /\ r \in Int BY <1>1, <1>6
      <4> QED BY ONLY <4>1
    <3>2. S = 2 * t2 + r BY <1>6
    <3> HIDE DEF S, t2, r
    <3> QED BY <3>1, <3>2
  <2>4. SW + 2 * LR = z - bM BY <1>12
  <2>5. z2 = tt + (rH + LR) + bM BY <1>15
  <2> HIDE DEF SW, rW, rH, tt, bM, z, LR, z2
  <2>6. 2 * z2 = z + bM BY <1>7, <2>1, <2>2, <2>3, <2>4, <2>5
  <2>7. z2 \in Int BY <1>7, <2>1, <2>2, <2>5
  <2> QED BY <2>1, <2>6, <2>7 DEF bM
<1>19. /\ (2 * P) * z2 = MW * low2
       /\ M >= 0 => 0 <= z2 /\ z2 <= MW
       /\ M <= 0 => MW <= z2 /\ z2 <= 0
  <2>1. b * MW = 0 \/ b * MW = MW
    <3> HIDE DEF MW
    <3> QED BY <1>4, <1>7
  <2> HIDE DEF z, z2
  <2>2. (2 * P) * z2 = P * (z + b * MW)
    <3> DEFINE bM == b * MW
    <3>1. 2 * z2 = z + bM BY <1>18
    <3>2. (2 * P) * z2 = P * (2 * z2) BY <1>18
    <3> QED BY <3>1, <3>2
  <2>3. P * (z + b * MW) = MW * low2
    <3>1. CASE b = 0
      <4>1. b * MW = 0 /\ low2 = low /\ z + 0 = z
        <5> HIDE DEF MW
        <5> QED BY <1>2, <1>7, <3>1
      <4> QED BY <1>3, <4>1
    <3>2. CASE b = 1
      <4> HIDE DEF MW
      <4>1. b * MW = MW /\ low2 = low + P BY <1>2, <1>7, <3>2
      <4>2. P * (z + MW) = P * z + P * MW BY <1>7
      <4>3. MW * (low + P) = MW * low + P * MW BY <1>2, <1>7
      <4> QED BY <1>3, <4>1, <4>2, <4>3
    <3> QED BY <1>4, <3>1, <3>2
  <2> DEFINE bM == b * MW
  <2>4. 2 * z2 = z + bM /\ (bM = 0 \/ bM = MW) BY <1>18, <2>1
  <2> HIDE DEF bM, MW
  <2>5. M >= 0 => 0 <= z2 /\ z2 <= MW BY <1>3, <1>7, <1>18, <2>4
  <2>6. M <= 0 => MW <= z2 /\ z2 <= 0 BY <1>3, <1>7, <1>18, <2>4
  <2> QED BY <2>2, <2>3, <2>5, <2>6
<1> HIDE DEF L2, low2, h
<1>20. Multiplied(BoothRound(regs, M, w + 1), M, U, W, 2 * P, R, t2, rest2, low2, L2, b)
  BY <1>4, <1>6, <1>14, <1>15, <1>16, <1>17, <1>19 DEF Multiplied
<1> QED BY <1>20

\* A factor that is not zero can be taken out.
LEMMA FactorOut ==
    ASSUME NEW W \in Nat \ {0}, NEW x \in Int, NEW y \in Int, W * x = W * y
    PROVE  x = y
<1>1. W * (x - y) = 0
  <2>1. W * (x - y) = W * x - W * y OBVIOUS
  <2>2. W * x \in Int OBVIOUS
  <2> QED BY <2>1, <2>2
<1>2. x - y \in Int OBVIOUS
<1>3. \A d \in Int : W * d = 0 => d = 0 OBVIOUS
<1>4. x - y = 0 BY <1>1, <1>2, <1>3
<1> QED BY <1>4

\* Two registers next to each other, read as one signed number.
LEMMA SignedIs ==
    ASSUME NEW H, NEW W, Doubled(H, W), NEW t \in Int, -H <= t, t < H, NEW L \in 0 .. W - 1
    PROVE  LET x == Wrap(t, W) * W + L
           IN  (IF x >= H * W THEN x - W * W ELSE x) = t * W + L
<1>0. H \in Nat \ {0} /\ W \in Nat \ {0} /\ W = 2 * H BY DEF Doubled
<1> DEFINE tW == t * W
           HW == H * W
           WW == W * W
<1>1. tW \in Int /\ HW \in Int /\ WW \in Int BY <1>0
<1>2. CASE t < 0
  <2>1. Wrap(t, W) = t + W BY <1>2 DEF Wrap
  <2>2. (t + W) * W = tW + WW BY <1>0
  <2>3. tW + WW >= HW
    <3>1. t + W - H >= 0 /\ t + W - H \in Int BY <1>0
    <3>2. (t + W - H) * W >= 0 BY <1>0, <3>1
    <3>3. (t + W - H) * W = tW + WW - HW BY <1>0
    <3> HIDE DEF tW, WW, HW
    <3> QED BY <1>1, <3>2, <3>3
  <2> DEFINE x == Wrap(t, W) * W + L
  <2>4. x = tW + WW + L
    <3>1. Wrap(t, W) * W = tW + WW BY <2>1, <2>2
    <3> HIDE DEF tW, WW
    <3> QED BY <3>1
  <2> HIDE DEF tW, WW, HW, x
  <2>5. x >= HW /\ x - WW = tW + L BY <1>1, <2>3, <2>4
  <2> QED BY <2>5 DEF x, tW, WW, HW
<1>3. CASE ~(t < 0)
  <2>1. Wrap(t, W) = t BY <1>3 DEF Wrap
  <2>2. tW + W <= HW
    <3>1. H - 1 - t >= 0 /\ H - 1 - t \in Int BY <1>0
    <3>2. (H - 1 - t) * W >= 0 BY <1>0, <3>1
    <3>3. (H - 1 - t) * W = HW - W - tW BY <1>0
    <3> HIDE DEF tW, HW
    <3> QED BY <1>0, <1>1, <3>2, <3>3
  <2> DEFINE x == Wrap(t, W) * W + L
  <2>3. x = tW + L BY <2>1
  <2> HIDE DEF tW, WW, HW, x
  <2>4. ~(x >= HW) BY <1>0, <1>1, <2>2, <2>3
  <2> QED BY <2>3, <2>4 DEF x, tW, WW, HW
<1> QED BY <1>2, <1>3

\* The registers are wide enough for both operands.
LEMMA WidthIs ==
    ASSUME NEW M \in Int, NEW Q \in Int
    PROVE  \E w \in Nat : /\ BoothWidth(M, Q) = w + 1
                          /\ -TwoTo[w] < M /\ M < TwoTo[w]
                          /\ -TwoTo[w] < Q /\ Q < TwoTo[w]
<1> DEFINE m == BitLength(Absolute(M))
           q == BitLength(Absolute(Q))
           wide(w) == w >= 1 /\ w >= m /\ w >= q
           w == CHOOSE v \in {1, m, q} : wide(v)
<1>1. Absolute(M) \in Nat /\ Absolute(Q) \in Nat BY DEF Absolute
<1>2. m \in Nat /\ Absolute(M) < TwoTo[m] /\ q \in Nat /\ Absolute(Q) < TwoTo[q] BY <1>1, BitLengthIs
<1>3. BoothWidth(M, Q) = 1 + w BY DEF BoothWidth
<1> HIDE DEF m, q
<1>4. \E v \in {1, m, q} : wide(v)
  <2>1. CASE 1 >= m /\ 1 >= q BY <2>1
  <2>2. CASE m >= 1 /\ m >= q BY <1>2, <2>2
  <2>3. CASE q >= 1 /\ q >= m BY <1>2, <2>3
  <2> QED BY <1>2, <2>1, <2>2, <2>3
<1>5. w \in {1, m, q} /\ wide(w) BY <1>4
<1> HIDE DEF w
<1>6. w \in Nat BY <1>2, <1>5
<1>7. TwoTo[m] <= TwoTo[w] /\ TwoTo[q] <= TwoTo[w] BY <1>2, <1>5, <1>6, TwoToGrows
<1>8. TwoTo[w] \in Nat /\ TwoTo[m] \in Nat /\ TwoTo[q] \in Nat BY <1>2, <1>6, TwoToIs
<1>9. -TwoTo[w] < M /\ M < TwoTo[w] BY <1>1, <1>2, <1>7, <1>8 DEF Absolute
<1>10. -TwoTo[w] < Q /\ Q < TwoTo[w] BY <1>1, <1>2, <1>7, <1>8 DEF Absolute
<1>11. BoothWidth(M, Q) = w + 1 BY <1>3, <1>6
<1> QED BY <1>6, <1>9, <1>10, <1>11

\* After the last round the two registers hold the product.
LEMMA RegistersHoldProduct ==
    ASSUME NEW M \in Int, NEW Q \in Int
    PROVE  LET width == BoothWidth(M, Q)
               last == BoothRounds(M, Q)[width]
           IN  Signed(last.a * TwoTo[width] + last.q, 2 * width) = M * Q
<1>1. PICK w \in Nat : /\ BoothWidth(M, Q) = w + 1
                       /\ -TwoTo[w] < M /\ M < TwoTo[w]
                       /\ -TwoTo[w] < Q /\ Q < TwoTo[w]
  BY WidthIs
<1> DEFINE n == w + 1
           H == TwoTo[w]
           W == TwoTo[n]
           U == Q % W
           rounds == BoothRounds(M, Q)
           good == {i \in 0 .. n : \E t, rest, low, L, previous :
                       Multiplied(rounds[i], M, U, W, TwoTo[i], TwoTo[n - i], t, rest, low, L, previous)}
<1>2. n \in Nat /\ n - 1 = w /\ n = w + 1 OBVIOUS
<1>3. H \in Nat \ {0} /\ W = 2 * H /\ W \in Nat \ {0} /\ Doubled(H, W) BY TwoToIs DEF Doubled
<1>4. U = Wrap(Q, W) /\ U \in 0 .. W - 1 /\ (U >= H <=> Q < 0)
  <2> HIDE DEF H, W
  <2>1. -H <= Q /\ Q < H BY <1>1, <1>3 DEF H
  <2> QED BY <1>3, <2>1, WrapIs
<1>5. rounds[0] = [a |-> 0, q |-> U, previous |-> 0]
  BY <1>1, BoothRoundsAre DEF ToTwosComplement
<1>6. \A i \in 0 .. n : i # 0 => rounds[i] = BoothRound(rounds[i - 1], M, w + 1)
  <2>1. BoothWidth(M, Q) = n /\ n \in Nat /\ M \in Int /\ Q \in Int /\ n = w + 1 BY <1>1
  <2> HIDE DEF n
  <2>2. \A i \in 0 .. n : i # 0 => BoothRounds(M, Q)[i] = BoothRound(BoothRounds(M, Q)[i - 1], M, n)
    BY ONLY <2>1, BoothRoundsAre
  <2> QED BY <2>1, <2>2
<1>M. -H < M /\ M < H BY <1>1
<1> HIDE DEF n, H, W, U, rounds
<1>7. 0 \in good
  <2>1. TwoTo[0] = 1 /\ TwoTo[n - 0] = W BY <1>2, TwoToIs DEF W
  <2>2. M * W \in Int /\ (M * W) * 0 = 0 /\ (M >= 0 => M * W >= 0) /\ (M <= 0 => M * W <= 0) BY <1>3
  <2>3. 0 * W = 0 /\ 0 * (M * W) = 0 /\ U * 1 = U BY <1>3, <1>4, <2>2
  <2>4. Multiplied(rounds[0], M, U, W, 1, W, 0, U, 0, 0, 0)
    <3> DEFINE MW == M * W
    <3> HIDE DEF MW
    <3>1. rounds[0] = [a |-> Wrap(0, W), q |-> 0 * W + U, previous |-> 0] BY <1>4, <1>5, <2>3 DEF Wrap
    <3>2. 1 * (0 * W + 0 * W + 0 * MW) = MW * 0 BY <2>2, <2>3 DEF MW
    <3>3. M >= 0 => 0 <= 0 * W + 0 * W + 0 * MW /\ 0 * W + 0 * W + 0 * MW <= MW
      BY <2>2, <2>3 DEF MW
    <3>4. M <= 0 => MW <= 0 * W + 0 * W + 0 * MW /\ 0 * W + 0 * W + 0 * MW <= 0
      BY <2>2, <2>3 DEF MW
    <3>5. U = U * 1 + 0 /\ U \in Nat /\ U < W /\ (0 = 1 <=> 2 * 0 >= 1) BY <1>3, <1>4
    <3> QED BY <3>1, <3>2, <3>3, <3>4, <3>5 DEF Multiplied, MW
  <2>5. 0 \in 0 .. n BY <1>2
  <2> QED BY <2>1, <2>4, <2>5
<1>8. ASSUME NEW i \in 0 .. n, i # 0, i - 1 \in good PROVE i \in good
  <2> DEFINE P == TwoTo[i - 1]
             R == TwoTo[n - i]
  <2>1. i - 1 \in Nat /\ (i - 1) + 1 = i /\ n - i \in Nat /\ (n - i) + 1 = n - (i - 1)
        /\ (i - 1) + (n - i) = w
    BY <1>2, <1>8
  <2>2. P \in Nat \ {0} /\ R \in Nat \ {0} /\ TwoTo[i] = 2 * P /\ TwoTo[n - (i - 1)] = 2 * R
    BY <2>1, TwoToIs
  <2>3. P * R = H BY <2>1, TwoToAdds DEF H
  <2>4. PICK t, rest, low, L, previous :
            Multiplied(rounds[i - 1], M, U, W, P, 2 * R, t, rest, low, L, previous)
    BY <1>8, <2>2
  <2> HIDE DEF P, R
  <2>5. \E t2, rest2, low2, L2, previous2 :
            Multiplied(BoothRound(rounds[i - 1], M, w + 1), M, U, W, 2 * P, R, t2, rest2, low2, L2, previous2)
    <3>1. H = TwoTo[w] BY DEF H
    <3> QED BY <1>3, <1>M, <2>2, <2>3, <2>4, <3>1, MultipliedStep
  <2>6. \E t2, rest2, low2, L2, previous2 :
            Multiplied(rounds[i], M, U, W, TwoTo[i], TwoTo[n - i], t2, rest2, low2, L2, previous2)
    BY <1>6, <1>8, <2>2, <2>5 DEF R
  <2> QED BY <2>6
<1> HIDE DEF good
<1>9. n \in good
  <2>1. \A i \in 0 .. n : i \in good BY <1>2, <1>7, <1>8, Climbing
  <2> QED BY <1>2, <2>1
<1>10. PICK t, rest, low, L, previous :
           Multiplied(rounds[n], M, U, W, W, 1, t, rest, low, L, previous)
  <2>1. TwoTo[n - n] = 1 /\ TwoTo[n] = W BY <1>2, TwoToIs DEF W
  <2> QED BY <1>9, <2>1 DEF good
<1> DEFINE MW == M * W
           tW == t * W
           pM == previous * MW
           z == tW + L * 1 + pM
<1>11. /\ rounds[n] = [a |-> Wrap(t, W), q |-> L * 1 + rest, previous |-> previous]
       /\ t \in Int /\ previous \in 0 .. 1 /\ rest = 0 /\ L \in 0 .. W - 1
       /\ low \in Nat /\ U = rest * W + low /\ (previous = 1 <=> 2 * low >= W)
  BY <1>3, <1>10 DEF Multiplied
<1>12. /\ W * z = MW * low
       /\ M >= 0 => 0 <= z /\ z <= MW
       /\ M <= 0 => MW <= z /\ z <= 0
  BY <1>10 DEF Multiplied
<1>13. low = U /\ rounds[n] = [a |-> Wrap(t, W), q |-> L, previous |-> previous] BY <1>3, <1>11
<1>14. MW \in Int /\ tW \in Int /\ pM \in Int /\ z \in Int /\ z = tW + L + pM
  <2>1. MW \in Int /\ tW \in Int BY <1>3, <1>11
  <2>2. pM \in Int
    <3> HIDE DEF MW
    <3> QED BY <1>11, <2>1
  <2> HIDE DEF MW, tW, pM
  <2> QED BY <1>11, <2>1, <2>2
<1>15. z = M * U
  <2>1. MW * low = W * (M * U) BY <1>3, <1>4, <1>13
  <2>2. M * U \in Int BY <1>4
  <2> DEFINE MU == M * U
  <2> HIDE DEF z, MU
  <2>3. W * z = W * MU /\ MU \in Int BY <1>12, <2>1, <2>2 DEF MU
  <2>4. z = MU BY <1>3, <1>14, <2>3, FactorOut
  <2> QED BY <2>4 DEF MU
\* The last bit that was used is the sign.
<1>16. tW + L = M * Q
  <2>1. previous = 1 <=> Q < 0 BY <1>3, <1>4, <1>11, <1>13
  <2>2. CASE Q < 0
    <3>1. U = Q + W /\ previous = 1 BY <1>4, <1>11, <2>1, <2>2 DEF Wrap
    <3>2. M * (Q + W) = M * Q + MW /\ M * Q \in Int BY <1>3
    <3>3. pM = MW
      <4> HIDE DEF MW
      <4> QED BY <1>14, <3>1
    <3> DEFINE MQ == M * Q
    <3> HIDE DEF MW, tW, pM, z, MQ
    <3>4. z = MQ + MW /\ MQ \in Int BY <1>15, <3>1, <3>2 DEF MQ
    <3>5. tW + L = MQ BY <1>11, <1>14, <3>3, <3>4
    <3> QED BY <3>5 DEF MQ
  <2>3. CASE ~(Q < 0)
    <3>1. U = Q /\ previous = 0 BY <1>4, <1>11, <2>1, <2>3 DEF Wrap
    <3>2. pM = 0
      <4> HIDE DEF MW
      <4> QED BY <1>14, <3>1
    <3> HIDE DEF tW, pM, z
    <3> QED BY <1>11, <1>14, <1>15, <3>1, <3>2
  <2> QED BY <2>2, <2>3
<1>17. -H <= t /\ t < H
  <2>1. t * W + L = z - previous * (M * W)
    <3> HIDE DEF pM, tW, z
    <3>1. tW + L = z - pM BY <1>11, <1>14
    <3> QED BY <3>1 DEF pM, tW
  <2> HIDE DEF z
  <2>2. (M >= 0 => -M <= t /\ t <= M) /\ (M <= 0 => M <= t /\ t <= -M)
    BY <1>3, <1>11, <1>12, <1>14, <2>1, NoOverflow
  <2> QED BY <1>3, <1>M, <1>11, <2>2
<1>18. Signed(Wrap(t, W) * W + L, 2 * n) = tW + L
  <2>1. TwoTo[2 * n] = W * W /\ TwoTo[2 * n - 1] = H * W
    <3>1. 2 * n = n + n /\ 2 * n - 1 = w + n BY <1>2
    <3> QED BY <1>2, <3>1, TwoToAdds DEF H, W
  <2>2. Doubled(H, W) /\ t \in Int /\ -H <= t /\ t < H /\ L \in 0 .. W - 1 BY <1>3, <1>11, <1>17
  <2>3. LET x == Wrap(t, W) * W + L
        IN  (IF x >= H * W THEN x - W * W ELSE x) = t * W + L
    BY ONLY <2>2, SignedIs
  <2> QED BY <2>1, <2>3 DEF Signed
<1>19. BoothWidth(M, Q) = n /\ BoothRounds(M, Q) = rounds /\ TwoTo[n] = W BY <1>1 DEF n, rounds, W
<1>20. rounds[n].a = Wrap(t, W) /\ rounds[n].q = L BY <1>13
<1> QED BY <1>16, <1>18, <1>19, <1>20

\* A sum of terms goes up bit by bit.
Added(terms, i) == IF i \in DOMAIN terms THEN terms[i] ELSE 0

\* The sum is what its recursion says.
LEMMA TotalIs ==
    ASSUME NEW terms, NEW highest \in Nat, \A i \in Nat : Added(terms, i) \in Int
    PROVE  \E f \in [0 .. highest -> Int] :
              /\ f[0] = Added(terms, 0)
              /\ \A i \in 0 .. highest : i # 0 => f[i] = f[i - 1] + Added(terms, i)
              /\ Total(terms, highest) = f[highest]
<1> DEFINE begin == Added(terms, 0)
           step == [i \in 0 .. highest |-> [x \in Int |-> x + Added(terms, i)]]
           body(f) == [i \in 0 .. highest |->
               (IF i = 0 THEN 0 ELSE f[i - 1]) + (IF i \in DOMAIN terms THEN terms[i] ELSE 0)]
           recursion == CHOOSE f : f = body(f)
<1>1. begin \in Int /\ step \in [0 .. highest -> [Int -> Int]] OBVIOUS
<1>2. PICK f : Recurs(f, 0, highest, Int, begin, step)
  <2>1. 0 \in Int /\ highest \in Int /\ 0 <= highest /\ begin \in Int
        /\ step \in [0 .. highest -> [Int -> Int]]
    BY <1>1
  <2> HIDE DEF step, begin
  <2> QED BY ONLY <2>1, Recursion
<1>3. f \in [0 .. highest -> Int] /\ f[0] = begin BY <1>2 DEF Recurs
<1>4. ASSUME NEW i \in 0 .. highest, i # 0 PROVE f[i] = f[i - 1] + Added(terms, i)
  <2>1. f[i - 1] \in Int BY <1>3, <1>4
  <2> QED BY <1>2, <1>4, <2>1 DEF Recurs
<1>5. f = body(f)
  <2>1. ASSUME NEW i \in 0 .. highest
        PROVE  f[i] = (IF i = 0 THEN 0 ELSE f[i - 1]) + Added(terms, i)
    <3>1. CASE i = 0 BY <1>1, <1>3, <3>1
    <3>2. CASE i # 0 BY <1>4, <3>2
    <3> QED BY <3>1, <3>2
  <2>2. f = [i \in 0 .. highest |-> f[i]] BY <1>3
  <2> QED BY <2>1, <2>2 DEF Added
\* There is one such function only.
<1>6. recursion = body(recursion)
  <2> HIDE DEF body
  <2> QED BY <1>5
<1>7. Total(terms, highest) = recursion[highest] BY DEF Total
<1> HIDE DEF recursion
<1>8. \A i \in 0 .. highest : recursion[i] = (IF i = 0 THEN 0 ELSE recursion[i - 1]) + Added(terms, i)
  BY <1>6 DEF Added
<1>9. recursion[highest] = f[highest]
  <2> DEFINE good == {i \in 0 .. highest : recursion[i] = f[i]}
  <2>1. 0 \in good
    <3>1. 0 \in 0 .. highest OBVIOUS
    <3>2. recursion[0] = 0 + begin BY <1>8, <3>1
    <3>3. begin \in Int BY <1>1
    <3> HIDE DEF begin
    <3> QED BY <1>3, <3>1, <3>2, <3>3
  <2>2. ASSUME NEW i \in 0 .. highest, i # 0, i - 1 \in good PROVE i \in good
    BY <1>4, <1>8, <2>2
  <2> HIDE DEF good
  <2>3. \A i \in 0 .. highest : i \in good BY <2>1, <2>2, Climbing
  <2>4. highest \in good BY <2>3
  <2> QED BY <2>4 DEF good
<1> QED BY <1>3, <1>4, <1>7, <1>9

\* The bits of a number.
LEMMA BitsAre ==
    ASSUME NEW m \in Nat, NEW i \in Nat
    PROVE  LET d == m \div TwoTo[i]
           IN  d \in Nat /\ d % 2 \in 0 .. 1 /\ d = 2 * (m \div TwoTo[i + 1]) + (d % 2)
<1> DEFINE P == TwoTo[i]
           d == m \div P
           x == m % P
           e == d \div 2
           b == d % 2
<1>1. P \in Nat \ {0} /\ TwoTo[i + 1] = 2 * P BY TwoToIs
<1> HIDE DEF P
<1>2. m = P * d + x /\ d \in Nat /\ x \in 0 .. P - 1 BY <1>1, DivisionIs
<1> HIDE DEF d, x
<1>3. d = 2 * e + b /\ e \in Nat /\ b \in 0 .. 1 BY <1>2, DivisionIs
<1> HIDE DEF e, b
<1>4. b * P + x \in 0 .. 2 * P - 1
  <2>1. CASE b = 0 BY <1>1, <1>2, <2>1
  <2>2. CASE b = 1 BY <1>1, <1>2, <2>2
  <2> QED BY <1>3, <2>1, <2>2
<1>5. m = e * (2 * P) + (b * P + x)
  <2>1. P * d = e * (2 * P) + b * P BY <1>1, <1>3
  <2> DEFINE Pd == P * d
             eP == e * (2 * P)
             bP == b * P
  <2>2. eP \in Int /\ bP \in Int BY <1>1, <1>3
  <2> HIDE DEF Pd, eP, bP
  <2>3. Pd = eP + bP BY <2>1 DEF Pd, eP, bP
  <2>4. m = Pd + x BY <1>2 DEF Pd
  <2>5. m = eP + (bP + x) BY <1>2, <2>2, <2>3, <2>4
  <2> QED BY <2>5 DEF eP, bP
<1>6. e = m \div (2 * P)
  <2> DEFINE rr == b * P + x
             PP == 2 * P
  <2>1. m \in Int /\ PP \in Int /\ e \in Int /\ rr \in 0 .. PP - 1 /\ m = e * PP + rr
    BY <1>1, <1>3, <1>4, <1>5
  <2> HIDE DEF rr, PP
  <2>2. e = m \div PP BY ONLY <2>1, DivisionOnce
  <2> QED BY <2>2 DEF PP
<1>7. d \in Nat /\ b \in 0 .. 1 /\ d = 2 * (m \div TwoTo[i + 1]) + b BY <1>1, <1>2, <1>3, <1>6
<1>8. d = m \div TwoTo[i] /\ b = d % 2 BY DEF d, b, P
<1> HIDE DEF P
<1> QED BY <1>7, <1>8

\* The terms of the recoding add up to the multiplier.
LEMMA ProductsAddUp ==
    ASSUME NEW M \in Int, NEW Q \in Int
    PROVE  Total([k \in DOMAIN BoothTerms(Q) |-> BoothTerms(Q)[k] * M], BitLength(Absolute(Q))) = M * Q
<1> DEFINE m == Absolute(Q)
           n == BitLength(m)
           s == IF Q < 0 THEN -1 ELSE 1
           bit(i) == IF i < 0 THEN 0 ELSE (m \div TwoTo[i]) % 2
           coefficient(i) == s * (bit(i - 1) - bit(i))
           products == [k \in DOMAIN BoothTerms(Q) |-> BoothTerms(Q)[k] * M]
           value(i) == m - ((m \div TwoTo[i]) + bit(i)) * TwoTo[i]
<1>1. m \in Nat /\ s \in {-1, 1} /\ Q = s * m BY DEF Absolute
<1>2. BoothTerms(Q) = [i \in {k \in 0 .. n : coefficient(k) # 0} |-> coefficient(i) * TwoTo[i]]
  BY DEF BoothTerms
<1>3. DOMAIN BoothTerms(Q) = {k \in 0 .. n : coefficient(k) # 0} BY <1>2
<1>D. \A i \in DOMAIN BoothTerms(Q) : BoothTerms(Q)[i] = coefficient(i) * TwoTo[i] BY <1>2, <1>3
<1>4. n \in Nat /\ m < TwoTo[n] BY <1>1, BitLengthIs
<1>5. \A i \in Nat : /\ m \div TwoTo[i] \in Nat /\ bit(i) \in 0 .. 1
                     /\ m \div TwoTo[i] = 2 * (m \div TwoTo[i + 1]) + bit(i)
  <2> TAKE i \in Nat
  <2>1. bit(i) = (m \div TwoTo[i]) % 2 OBVIOUS
  <2> HIDE DEF m, bit
  <2>2. m \in Nat BY <1>1
  <2>3. LET d == m \div TwoTo[i]
        IN  d \in Nat /\ d % 2 \in 0 .. 1 /\ d = 2 * (m \div TwoTo[i + 1]) + (d % 2)
    BY ONLY <2>2, i \in Nat, BitsAre
  <2> QED BY <2>1, <2>3
<1>6. bit(0 - 1) = 0 OBVIOUS
<1>7. \A i \in Nat : bit(i - 1) \in 0 .. 1
  <2> TAKE i \in Nat
  <2>1. CASE i = 0 BY <1>6, <2>1
  <2>2. CASE i # 0
    <3>1. i - 1 \in Nat BY <2>2
    <3> HIDE DEF bit
    <3> QED BY <1>5, <3>1
  <2> QED BY <2>1, <2>2
<1>8. \A i \in Nat : TwoTo[i] \in Nat BY TwoToIs
<1> HIDE DEF m, n, s, bit
<1>9. \A i \in 0 .. n : Added(products, i) = (coefficient(i) * TwoTo[i]) * M
  <2> TAKE i \in 0 .. n
  <2>1. coefficient(i) \in Int /\ TwoTo[i] \in Int
    <3>1. i \in Nat BY <1>4
    <3>2. bit(i - 1) \in Int /\ bit(i) \in Int /\ s \in Int BY <1>1, <1>5, <1>7, <3>1
    <3> QED BY <1>8, <3>1, <3>2
  <2>2. CASE coefficient(i) = 0
    <3>1. i \notin DOMAIN products BY <1>3, <2>2
    <3>2. Added(products, i) = 0 BY <3>1 DEF Added
    <3>3. (coefficient(i) * TwoTo[i]) * M = 0 BY <2>1, <2>2
    <3> QED BY <3>2, <3>3
  <2>3. CASE coefficient(i) # 0
    <3>1. i \in DOMAIN products /\ products[i] = BoothTerms(Q)[i] * M BY <1>3, <2>3
    <3> HIDE DEF coefficient, products
    <3>2. BoothTerms(Q)[i] = coefficient(i) * TwoTo[i] BY <1>3, <1>D, <2>3
    <3> QED BY <3>1, <3>2 DEF Added
  <2> QED BY <2>2, <2>3
<1>10. \A i \in Nat : Added(products, i) \in Int
  <2> TAKE i \in Nat
  <2>1. CASE i \in 0 .. n
    <3>1. bit(i - 1) \in Int /\ bit(i) \in Int /\ s \in Int /\ TwoTo[i] \in Int
      BY <1>1, <1>5, <1>7, <1>8
    <3>2. coefficient(i) \in Int BY <3>1
    <3> HIDE DEF coefficient, products
    <3>3. (coefficient(i) * TwoTo[i]) * M \in Int BY <3>1, <3>2
    <3> QED BY <1>9, <2>1, <3>3
  <2>2. CASE ~(i \in 0 .. n)
    <3>1. i \notin DOMAIN products BY <1>3, <2>2
    <3> QED BY <3>1 DEF Added
  <2> QED BY <2>1, <2>2
<1> HIDE DEF products
<1>11. PICK f \in [0 .. n -> Int] :
          /\ f[0] = Added(products, 0)
          /\ \A i \in 0 .. n : i # 0 => f[i] = f[i - 1] + Added(products, i)
          /\ Total(products, n) = f[n]
  BY <1>4, <1>10, TotalIs
<1> DEFINE good == {i \in 0 .. n : f[i] = (s * M) * value(i)}
<1>12. 0 \in good
  <2>1. 0 \in 0 .. n /\ TwoTo[0] = 1 BY <1>4, TwoToIs
  <2>2. m \div 1 = m
    <3>1. m = m * 1 + 0 /\ 0 \in 0 .. 1 - 1 /\ m \in Int BY <1>1
    <3> QED BY ONLY <3>1, DivisionOnce
  <2>3. bit(0) \in Int /\ s \in Int /\ m \in Int BY <1>1, <1>5
  <2>4. value(0) = -bit(0) BY <2>1, <2>2, <2>3
  <2>5. coefficient(0) = s * (0 - bit(0)) BY <1>6
  <2>6. (coefficient(0) * TwoTo[0]) * M = (s * M) * (-bit(0)) BY <2>1, <2>3, <2>5
  <2> QED BY <1>9, <1>11, <2>1, <2>4, <2>6
<1>13. ASSUME NEW i \in 0 .. n, i # 0, i - 1 \in good PROVE i \in good
  <2> DEFINE P == TwoTo[i - 1]
             d == m \div TwoTo[i]
             b == bit(i)
             c == bit(i - 1)
  <2>1. i \in Nat /\ i - 1 \in Nat /\ (i - 1) + 1 = i BY <1>13
  <2>2. P \in Nat /\ TwoTo[i] = 2 * P BY <2>1, TwoToIs
  <2>3. d \in Nat /\ b \in 0 .. 1 /\ c \in 0 .. 1 BY <1>5, <2>1
  <2>4. m \div P = 2 * d + c BY <1>5, <2>1
  <2>5. value(i - 1) = m - ((2 * d + c) + c) * P BY <2>4
  <2>6. value(i) = m - (d + b) * (2 * P) BY <2>2
  <2>7. coefficient(i) = s * (c - b) OBVIOUS
  <2> DEFINE v == value(i - 1)
             u == value(i)
  <2> HIDE DEF P, d, b, c, v, u, coefficient
  <2>8. v \in Int /\ u \in Int /\ u = v + (c - b) * (2 * P)
    <3> DEFINE dP == d * P
               cP == c * P
               bP == b * P
    <3>1. dP \in Int /\ cP \in Int /\ bP \in Int /\ m \in Int BY <1>1, <2>2, <2>3
    <3>2. ((2 * d + c) + c) * P = 2 * dP + 2 * cP BY <2>2, <2>3
    <3>3. (d + b) * (2 * P) = 2 * dP + 2 * bP BY <2>2, <2>3
    <3>4. (c - b) * (2 * P) = 2 * cP - 2 * bP BY <2>2, <2>3
    <3>5. v = m - (2 * dP + 2 * cP) BY <2>5, <3>2 DEF v
    <3>6. u = m - (2 * dP + 2 * bP) BY <2>6, <3>3 DEF u
    <3> HIDE DEF dP, cP, bP
    <3>7. v \in Int /\ u \in Int /\ u = v + (2 * cP - 2 * bP) BY <3>1, <3>5, <3>6
    <3> QED BY <3>4, <3>7
  <2>9. f[i] = (s * M) * v + ((s * (c - b)) * (2 * P)) * M
    BY <1>9, <1>11, <1>13, <2>2, <2>7 DEF v
  <2>10. (s * M) * v + ((s * (c - b)) * (2 * P)) * M = (s * M) * (v + (c - b) * (2 * P))
    <3> DEFINE y == (c - b) * (2 * P)
    <3>1. y \in Int /\ s \in Int /\ c - b \in Int /\ 2 * P \in Int BY <1>1, <2>2, <2>3
    <3>2. (s * (c - b)) * (2 * P) = s * y BY <3>1
    <3> HIDE DEF y
    <3>3. (s * M) * v + (s * y) * M = (s * M) * (v + y) BY <2>8, <3>1
    <3> QED BY <3>2, <3>3 DEF y
  <2>11. f[i] = (s * M) * u BY <2>8, <2>9, <2>10
  <2> QED BY <1>13, <2>11 DEF u
<1> HIDE DEF good
<1>14. n \in good
  <2>1. n \in Int /\ 0 \in Int BY <1>4
  <2>2. \A i \in 0 .. n : i # 0 /\ i - 1 \in good => i \in good BY <1>13
  <2>3. \A i \in 0 .. n : i \in good BY ONLY <2>1, <2>2, <1>12, Climbing
  <2> QED BY <1>4, <2>3
<1>15. value(n) = m
  <2>1. m \div TwoTo[n] = 0
    <3>1. m = 0 * TwoTo[n] + m /\ TwoTo[n] \in Int /\ m \in 0 .. TwoTo[n] - 1 /\ m \in Int
      BY <1>1, <1>4, <1>8
    <3> DEFINE T == TwoTo[n]
    <3> HIDE DEF T
    <3>2. m = 0 * T + m /\ T \in Int /\ m \in 0 .. T - 1 /\ m \in Int /\ 0 \in Int BY <3>1 DEF T
    <3>3. 0 = m \div T BY ONLY <3>2, DivisionOnce
    <3> QED BY <3>3 DEF T
  <2>2. bit(n) = 0
    <3>1. bit(n) = (m \div TwoTo[n]) % 2 BY <1>4 DEF bit
    <3> QED BY <2>1, <3>1
  <2> QED BY <1>1, <1>4, <1>8, <2>1, <2>2
<1>16. Total(products, n) = (s * M) * m BY <1>11, <1>14, <1>15 DEF good
<1>17. (s * M) * m = M * Q BY <1>1
<1> QED BY <1>16, <1>17 DEF products, n, m

(***************************************************************************)
(* The calendar                                                            *)
(***************************************************************************)

\* A year has months, and each of them days.
LEMMA MonthsAre ==
    /\ Len(MonthDays) \in Nat \ {0} /\ Months = 1 .. Len(MonthDays)
    /\ \A m \in Months : MonthDays[m] \in Nat \ {0}
<1> DEFINE S == Nat \ {0}
<1>1. MonthDays \in Seq(S) /\ MonthDays # <<>> BY CronAssumption
<1> HIDE DEF S
<1>2. Len(MonthDays) \in Nat /\ Len(MonthDays) # 0 /\ DOMAIN MonthDays = 1 .. Len(MonthDays) BY <1>1
<1>3. \A m \in 1 .. Len(MonthDays) : MonthDays[m] \in S BY <1>1
<1> QED BY <1>2, <1>3 DEF S, Months

\* The days before each month are what their recursion says ...
LEMMA DaysBeforeIs ==
    /\ \A m \in 0 .. Len(MonthDays) : DaysBefore[m] \in Nat
    /\ DaysBefore[0] = 0
    /\ \A m \in Months : DaysBefore[m] = DaysBefore[m - 1] + MonthDays[m]
<1> DEFINE n == Len(MonthDays)
           add == [m \in 0 .. n |-> [x \in Nat |-> IF m = 0 THEN x ELSE x + MonthDays[m]]]
           body(f) == [m \in 0 .. n |-> IF m = 0 THEN 0 ELSE f[m - 1] + MonthDays[m]]
<1>1. n \in Nat /\ \A m \in 1 .. n : MonthDays[m] \in Nat BY MonthsAre
<1>2. \E f : Recurs(f, 0, n, Nat, 0, add)
  <2>1. 0 \in Int /\ n \in Int /\ 0 <= n /\ 0 \in Nat BY <1>1
  <2>2. add \in [0 .. n -> [Nat -> Nat]]
    <3>1. \A m \in 0 .. n : m # 0 => MonthDays[m] \in Nat BY <1>1
    <3> HIDE DEF n
    <3> QED BY <3>1
  <2> HIDE DEF add, n
  <2> QED BY ONLY <2>1, <2>2, Recursion
<1>3. PICK f : Recurs(f, 0, n, Nat, 0, add) BY <1>2
<1>4. f \in [0 .. n -> Nat] /\ f[0] = 0 BY <1>3 DEF Recurs
<1>5. \A m \in 0 .. n : m # 0 => f[m] = f[m - 1] + MonthDays[m]
  <2> TAKE m \in 0 .. n
  <2> HAVE m # 0
  <2>1. f[m - 1] \in Nat BY <1>1, <1>4
  <2>2. f[m] = add[m][f[m - 1]] BY <1>3 DEF Recurs
  <2> QED BY <2>1, <2>2
<1>6. f = body(f)
  <2>1. f = [m \in 0 .. n |-> f[m]] BY <1>4
  <2> QED BY <1>4, <1>5, <2>1
<1>7. DaysBefore = CHOOSE f_ : f_ = body(f_) BY DEF DaysBefore
<1>8. DaysBefore = body(DaysBefore)
  <2> HIDE DEF body
  <2> QED BY <1>6, <1>7
<1>9. DaysBefore[0] = 0 /\ \A m \in 1 .. n : DaysBefore[m] = DaysBefore[m - 1] + MonthDays[m]
  <2>1. 0 \in 0 .. n /\ \A m \in 1 .. n : m \in 0 .. n /\ m # 0 BY <1>1
  <2>2. \A m \in 0 .. n : DaysBefore[m] = IF m = 0 THEN 0 ELSE DaysBefore[m - 1] + MonthDays[m] BY <1>8
  <2> HIDE DEF n
  <2> QED BY <2>1, <2>2
<1>10. \A m \in 0 .. n : DaysBefore[m] \in Nat
  <2> DEFINE good == {m \in 0 .. n : DaysBefore[m] \in Nat}
  <2>1. 0 \in good BY <1>1, <1>9
  <2>2. \A m \in 0 .. n : m # 0 /\ m - 1 \in good => m \in good
    <3> TAKE m \in 0 .. n
    <3> HAVE m # 0 /\ m - 1 \in good
    <3>1. m \in 1 .. n BY <1>1
    <3> QED BY <1>1, <1>9, <3>1
  <2>3. n \in Int /\ 0 \in Int BY <1>1
  <2>4. \A m \in good : DaysBefore[m] \in Nat OBVIOUS
  <2> HIDE DEF good, n
  <2>5. \A m \in 0 .. n : m \in good BY ONLY <2>1, <2>2, <2>3, Climbing
  <2> QED BY <2>4, <2>5
<1> QED BY <1>9, <1>10, MonthsAre

\* ... and grow from month to month.
LEMMA DaysBeforeGrows ==
    ASSUME NEW i \in 0 .. Len(MonthDays), NEW j \in 0 .. Len(MonthDays), i <= j
    PROVE  DaysBefore[i] <= DaysBefore[j]
<1> DEFINE n == Len(MonthDays)
           good == {m \in i .. n : DaysBefore[i] <= DaysBefore[m]}
<1>1. n \in Nat /\ i \in Int /\ n \in Int BY MonthsAre
<1>2. i \in good BY <1>1, DaysBeforeIs
<1>3. \A m \in i .. n : m # i /\ m - 1 \in good => m \in good
  <2> TAKE m \in i .. n
  <2> HAVE m # i /\ m - 1 \in good
  <2>1. m \in 1 .. n /\ m \in 0 .. n /\ m - 1 \in 0 .. n BY <1>1
  <2>2. DaysBefore[m] = DaysBefore[m - 1] + MonthDays[m] /\ MonthDays[m] \in Nat
    BY <2>1, DaysBeforeIs, MonthsAre
  <2>3. DaysBefore[m] \in Nat /\ DaysBefore[m - 1] \in Nat /\ DaysBefore[i] \in Nat
    BY <2>1, DaysBeforeIs
  <2> QED BY <2>2, <2>3
<1>4. \A m \in good : DaysBefore[i] <= DaysBefore[m] OBVIOUS
<1>5. j \in i .. n BY <1>1
<1> HIDE DEF good, n
<1>6. \A m \in i .. n : m \in good BY ONLY <1>1, <1>2, <1>3, Climbing
<1> QED BY <1>4, <1>5, <1>6

\* A year has days.
LEMMA YearDaysIs == YearDays \in Nat \ {0}
<1>1. Len(MonthDays) \in Nat \ {0} BY MonthsAre
<1>2. 1 \in 0 .. Len(MonthDays) /\ Len(MonthDays) \in 0 .. Len(MonthDays) /\ 1 \in Months
  BY <1>1, MonthsAre
<1>3. DaysBefore[1] <= DaysBefore[Len(MonthDays)] BY <1>1, <1>2, DaysBeforeGrows
<1>4. DaysBefore[1] = DaysBefore[1 - 1] + MonthDays[1] /\ MonthDays[1] \in Nat \ {0}
  BY <1>2, DaysBeforeIs, MonthsAre
<1>5. DaysBefore[1 - 1] = 0 BY DaysBeforeIs
<1>6. DaysBefore[Len(MonthDays)] \in Nat BY <1>2, DaysBeforeIs
<1> QED BY <1>3, <1>4, <1>5, <1>6 DEF YearDays

\* A day of the year lies in one month.
LEMMA OneMonth ==
    ASSUME NEW x \in 0 .. YearDays - 1
    PROVE  /\ \E m \in Months : x \in DaysBefore[m - 1] .. DaysBefore[m] - 1
           /\ \A m, k \in Months : /\ x \in DaysBefore[m - 1] .. DaysBefore[m] - 1
                                   /\ x \in DaysBefore[k - 1] .. DaysBefore[k] - 1
                                   => m = k
<1> DEFINE n == Len(MonthDays)
<1>1. n \in Nat /\ Months = 1 .. n BY MonthsAre
<1>2. \A m \in 0 .. n : DaysBefore[m] \in Nat BY DaysBeforeIs
<1>3. \E m \in Months : x \in DaysBefore[m - 1] .. DaysBefore[m] - 1
  <2> SUFFICES ASSUME \A m \in Months : x \notin DaysBefore[m - 1] .. DaysBefore[m] - 1 PROVE FALSE
    OBVIOUS
  <2> DEFINE good == {m \in 0 .. n : DaysBefore[m] <= x}
  <2>1. 0 \in good BY <1>1, DaysBeforeIs
  <2>2. \A m \in 0 .. n : m # 0 /\ m - 1 \in good => m \in good
    <3> TAKE m \in 0 .. n
    <3> HAVE m # 0 /\ m - 1 \in good
    <3>1. m \in Months /\ m - 1 \in 0 .. n BY <1>1
    <3>2. x \notin DaysBefore[m - 1] .. DaysBefore[m] - 1 BY <3>1
    <3>3. DaysBefore[m - 1] <= x OBVIOUS
    <3>4. DaysBefore[m] \in Nat /\ DaysBefore[m - 1] \in Nat /\ x \in Nat BY <1>2, <3>1
    <3> QED BY <3>2, <3>3, <3>4
  <2>3. n \in Int /\ 0 \in Int /\ n \in 0 .. n BY <1>1
  <2>4. \A m \in good : DaysBefore[m] <= x OBVIOUS
  <2>5. YearDays = DaysBefore[n] BY DEF YearDays
  <2> HIDE DEF good, n
  <2>6. \A m \in 0 .. n : m \in good BY ONLY <2>1, <2>2, <2>3, Climbing
  <2>7. DaysBefore[n] <= x BY <2>3, <2>4, <2>6
  <2> QED BY <2>5, <2>7, YearDaysIs
<1>4. ASSUME NEW m \in Months, NEW k \in Months, m < k,
             x \in DaysBefore[m - 1] .. DaysBefore[m] - 1, x \in DaysBefore[k - 1] .. DaysBefore[k] - 1
      PROVE  FALSE
  <2>1. m \in 0 .. n /\ k - 1 \in 0 .. n /\ m <= k - 1 BY <1>1, <1>4
  <2>2. DaysBefore[m] <= DaysBefore[k - 1] BY <2>1, DaysBeforeGrows
  <2>3. DaysBefore[m] \in Nat /\ DaysBefore[k - 1] \in Nat BY <1>2, <2>1
  <2> QED BY <1>4, <2>2, <2>3
<1>5. ASSUME NEW m \in Months, NEW k \in Months,
             x \in DaysBefore[m - 1] .. DaysBefore[m] - 1, x \in DaysBefore[k - 1] .. DaysBefore[k] - 1
      PROVE  m = k
  <2>1. ~(m < k) BY <1>4, <1>5
  <2>2. ~(k < m) BY <1>4, <1>5
  <2>3. m \in Int /\ k \in Int BY <1>1
  <2> QED BY <2>1, <2>2, <2>3
<1> QED BY <1>3, <1>5

\* The longest month.
LEMMA LongestMonth == Max({MonthDays[m] : m \in Months}) \in Nat
<1> DEFINE n == Len(MonthDays)
           longest(k, m) == m \in 1 .. k /\ \A j \in 1 .. k : MonthDays[j] <= MonthDays[m]
           good == {k \in 1 .. n : \E m : longest(k, m)}
           S == {MonthDays[m] : m \in Months}
<1>1. n \in Nat \ {0} /\ Months = 1 .. n /\ \A m \in 1 .. n : MonthDays[m] \in Nat BY MonthsAre
<1>2. 1 \in good
  <2>1. longest(1, 1) BY <1>1
  <2> QED BY <1>1, <2>1
<1>3. \A k \in 1 .. n : k # 1 /\ k - 1 \in good => k \in good
  <2> TAKE k \in 1 .. n
  <2> HAVE k # 1 /\ k - 1 \in good
  <2>1. PICK m : longest(k - 1, m) OBVIOUS
  <2>2. m \in 1 .. n /\ MonthDays[m] \in Nat /\ MonthDays[k] \in Nat BY <1>1, <2>1
  <2>3. \A j \in 1 .. k : j = k \/ MonthDays[j] <= MonthDays[m] BY <2>1
  <2>4. \A j \in 1 .. k : MonthDays[j] \in Nat BY <1>1
  <2>5. CASE MonthDays[k] <= MonthDays[m]
    <3>1. longest(k, m) BY <2>1, <2>3, <2>5
    <3> QED BY <3>1
  <2>6. CASE ~(MonthDays[k] <= MonthDays[m])
    <3>1. longest(k, k) BY <2>2, <2>3, <2>4, <2>6
    <3> QED BY <3>1
  <2> QED BY <2>5, <2>6
<1>4. \A k \in good : \E m : longest(k, m) OBVIOUS
<1>5. n \in Int /\ 1 \in Int /\ n \in 1 .. n BY <1>1
<1>6. \E m : longest(n, m)
  <2> HIDE DEF good, n, longest
  <2>1. \A k \in 1 .. n : k \in good BY ONLY <1>2, <1>3, <1>5, Climbing
  <2> QED BY <1>4, <1>5, <2>1
<1>7. PICK m : longest(n, m) BY <1>6
<1>8. MonthDays[m] \in S /\ \A y \in S : MonthDays[m] >= y BY <1>1, <1>7
<1>9. S \subseteq Nat BY <1>1
<1> HIDE DEF S
<1>10. Max(S) \in S BY <1>8 DEF Max
<1> QED BY <1>9, <1>10 DEF S

\* The bounds of a field are numbers.
LEMMA BoundsAre ==
    \A field \in Fields : Lowest(field) \in 0 .. 1 /\ Highest(field) \in Nat
<1>1. /\ HourMinutes - 1 \in Nat /\ DayHours - 1 \in Nat /\ WeekDays - 1 \in Nat
      /\ Len(MonthDays) \in Nat
  BY CronAssumption, MonthsAre
<1> DEFINE longest == Max({MonthDays[m] : m \in Months})
<1>2. longest \in Nat BY LongestMonth
<1>3. /\ Highest("minute") = HourMinutes - 1 /\ Highest("hour") = DayHours - 1
      /\ Highest("day") = longest /\ Highest("month") = Len(MonthDays) /\ Highest("weekday") = WeekDays - 1
  BY DEF Highest
<1> HIDE DEF longest
<1>4. \A field \in Fields : Highest(field) \in Nat BY <1>1, <1>2, <1>3 DEF Fields
<1> QED BY <1>4 DEF Lowest

(***************************************************************************)
(* The time                                                                *)
(***************************************************************************)

\* A minute in parts, and that the parts are found again.
LEMMA PartsAre ==
    ASSUME NEW t \in Nat
    PROVE  /\ DayOf(t) \in Nat /\ (t \div HourMinutes) % DayHours \in 0 .. DayHours - 1
           /\ t % HourMinutes \in 0 .. HourMinutes - 1
           /\ t = MinuteOf(DayOf(t), (t \div HourMinutes) % DayHours, t % HourMinutes)
<1> DEFINE P == HourMinutes
           Q == DayHours
           mi == t % P
           a == t \div P
           h == a % Q
           d == a \div Q
<1>1. P \in Nat \ {0} /\ Q \in Nat \ {0} BY CronAssumption
<1> HIDE DEF P, Q
<1>2. t = P * a + mi /\ a \in Nat /\ mi \in 0 .. P - 1 BY <1>1, DivisionIs
<1> HIDE DEF a, mi
<1>3. a = Q * d + h /\ d \in Nat /\ h \in 0 .. Q - 1 BY <1>1, <1>2, DivisionIs
<1> HIDE DEF d, h
<1>4. P * h + mi \in 0 .. P * Q - 1
  <2>1. P * h >= 0 /\ P * h \in Int BY <1>1, <1>3
  <2>2. P * (Q - 1 - h) >= 0 BY <1>1, <1>3
  <2>3. P * (Q - 1 - h) = P * Q - P - P * h BY <1>1, <1>3
  <2>4. P * Q \in Int BY <1>1
  <2> DEFINE Ph == P * h
             PQ == P * Q
  <2> HIDE DEF Ph, PQ
  <2>5. Ph >= 0 /\ Ph \in Int /\ PQ - P - Ph >= 0 /\ PQ \in Int BY <2>1, <2>2, <2>3, <2>4 DEF Ph, PQ
  <2>6. Ph + mi \in 0 .. PQ - 1 BY <1>1, <1>2, <2>5
  <2> QED BY <2>6 DEF Ph, PQ
<1>5. P * a = P * (Q * d + h) /\ P * (Q * d + h) = (P * Q) * d + P * h BY <1>1, <1>3
<1>6. t = d * (P * Q) + (P * h + mi)
  <2> DEFINE Pa == P * a
             Ph == P * h
             PQd == (P * Q) * d
  <2>1. Pa = PQd + Ph /\ t = Pa + mi BY <1>2, <1>5
  <2>2. PQd \in Int /\ Ph \in Int /\ d * (P * Q) = PQd BY <1>1, <1>3
  <2> HIDE DEF Pa, Ph, PQd
  <2>3. t = PQd + (Ph + mi) BY <1>2, <2>1, <2>2
  <2> QED BY <2>2, <2>3 DEF Ph
<1>7. d = t \div (P * Q)
  <2> DEFINE PQ == P * Q
             r == P * h + mi
  <2>1. t \in Int /\ PQ \in Int /\ d \in Int /\ r \in 0 .. PQ - 1 /\ t = d * PQ + r
    BY <1>1, <1>3, <1>4, <1>6
  <2> HIDE DEF PQ, r
  <2>2. d = t \div PQ BY ONLY <2>1, DivisionOnce
  <2> QED BY <2>2 DEF PQ
<1>8. DayOf(t) = d BY <1>7 DEF DayOf, P, Q
<1>9. t = P * (Q * d + h) + mi BY <1>2, <1>3
<1>10. h = (t \div HourMinutes) % DayHours /\ mi = t % HourMinutes BY DEF h, a, mi, P, Q
<1>11. d \in Nat /\ h \in 0 .. DayHours - 1 /\ mi \in 0 .. HourMinutes - 1 BY <1>2, <1>3 DEF P, Q
<1>12. t = MinuteOf(d, h, mi) BY <1>9 DEF MinuteOf, P, Q
<1> QED BY <1>8, <1>10, <1>11, <1>12

\* A minute has one day, hour and minute only.
LEMMA PartsOnce ==
    ASSUME NEW d \in Nat, NEW h \in 0 .. DayHours - 1, NEW mi \in 0 .. HourMinutes - 1,
           NEW t, MinuteOf(d, h, mi) = t
    PROVE  /\ t \in Nat /\ DayOf(t) = d /\ (t \div HourMinutes) % DayHours = h
           /\ t % HourMinutes = mi
<1> DEFINE P == HourMinutes
           Q == DayHours
           a == Q * d + h
<1>1. P \in Nat \ {0} /\ Q \in Nat \ {0} BY CronAssumption
<1>0. h \in 0 .. Q - 1 /\ mi \in 0 .. P - 1 OBVIOUS
<1>2. t = P * a + mi BY DEF MinuteOf
<1> HIDE DEF P, Q
<1>3. a = d * Q + h /\ a \in Nat
  <2>1. Q * d \in Nat /\ d * Q = Q * d BY <1>1
  <2> QED BY <1>0, <2>1
<1> HIDE DEF a
<1>4. t = a * P + mi /\ t \in Nat
  <2>1. P * a \in Nat /\ a * P = P * a BY <1>1, <1>3
  <2> QED BY <1>0, <1>2, <2>1
<1>5. a = t \div P /\ mi = t % P
  <2>1. t \in Int /\ P \in Int /\ a \in Int /\ mi \in 0 .. P - 1 /\ t = a * P + mi
    BY <1>0, <1>1, <1>3, <1>4
  <2> QED BY ONLY <2>1, DivisionOnce
<1>6. d = a \div Q /\ h = a % Q
  <2>1. a \in Int /\ Q \in Int /\ d \in Int /\ h \in 0 .. Q - 1 /\ a = d * Q + h BY <1>0, <1>1, <1>3
  <2> QED BY ONLY <2>1, DivisionOnce
<1>7. (t \div HourMinutes) % DayHours = h /\ t % HourMinutes = mi BY <1>5, <1>6 DEF P, Q
<1>8. /\ DayOf(t) \in Nat /\ h \in 0 .. DayHours - 1
      /\ t = MinuteOf(DayOf(t), h, mi)
  BY <1>4, <1>7, PartsAre
<1>9. DayOf(t) = d
  <2> DEFINE e == DayOf(t)
  <2>1. P * (Q * e + h) + mi = t BY <1>8 DEF MinuteOf, P, Q
  <2>2. e \in Nat BY <1>8
  <2> HIDE DEF e
  <2> DEFINE b == Q * e + h
  <2>3. b = e * Q + h /\ b \in Int
    <3>1. Q * e \in Int /\ e * Q = Q * e BY <1>1, <2>2
    <3> QED BY <1>0, <3>1
  <2>4. t = P * b + mi BY <2>1
  <2> HIDE DEF b
  <2>5. t = b * P + mi
    <3>1. P * b = b * P BY <1>1, <2>3
    <3> QED BY <2>4, <3>1
  <2>6. b = t \div P
    <3>1. t \in Int /\ P \in Int /\ b \in Int /\ mi \in 0 .. P - 1 /\ t = b * P + mi
      BY <1>0, <1>1, <1>4, <2>3, <2>5
    <3> QED BY ONLY <3>1, DivisionOnce
  <2>7. a \in Int /\ Q \in Int /\ e \in Int /\ h \in 0 .. Q - 1 /\ a = e * Q + h
    BY <1>0, <1>1, <1>3, <1>5, <2>2, <2>3, <2>6
  <2>8. e = a \div Q BY ONLY <2>7, DivisionOnce
  <2> QED BY <1>6, <2>8 DEF e
<1> QED BY <1>4, <1>7, <1>9

(***************************************************************************)
(* The fields                                                              *)
(***************************************************************************)

ValidChunk(chunk, field) ==
    /\ chunk \in [kind : {"star", "value", "range"}, from : Nat, to : Nat, step : Nat]
    /\ field \in Fields /\ ChunkIsValid(chunk, field)

\* What a chunk is read as and what it lists lie in the field and are the same, but for the
\* weekday 7.
LEMMA ChunkIs ==
    ASSUME NEW chunk, NEW field, ValidChunk(chunk, field),
           field = "weekday" /\ chunk.kind = "range" => chunk.from < WeekDays /\ chunk.to < WeekDays
    PROVE  /\ ParseChunk(chunk, field) \subseteq Lowest(field) .. Highest(field)
           /\ Listed(chunk, field) \subseteq Nat
           /\ ParseChunk(chunk, field) = {ParseValue(n, field) : n \in Listed(chunk, field)}
<1> DEFINE low == Lowest(field)
           high == Highest(field)
           read(n) == ParseValue(n, field)
           step == chunk.step
<1>1. /\ chunk.kind \in {"star", "value", "range"} /\ chunk.from \in Nat /\ chunk.to \in Nat /\ step \in Nat
      /\ field \in Fields /\ ChunkIsValid(chunk, field)
  BY DEF ValidChunk
<1>2. low \in 0 .. 1 /\ high \in Nat BY <1>1, BoundsAre
<1>3. step > 0 BY <1>1 DEF ChunkIsValid
<1>4. field = "weekday" => high = WeekDays - 1 /\ WeekDays \in Nat \ {0}
  BY CronAssumption DEF Highest
<1>5. \A n \in low .. high : read(n) = n BY <1>2, <1>4 DEF ParseValue
<1>6. CASE chunk.kind = "value"
  <2>1. read(chunk.from) \in low .. high BY <1>1, <1>6 DEF ChunkIsValid, InField
  <2>2. ParseChunk(chunk, field) = {read(chunk.from)} BY <1>6 DEF ParseChunk
  <2>3. Listed(chunk, field) = {chunk.from} BY <1>6 DEF Listed
  <2> QED BY <1>1, <2>1, <2>2, <2>3
\* The multiples of a step.
<1>7. ASSUME NEW from \in Nat, NEW to \in Nat, from >= low, to <= high
      PROVE  /\ {n \in from .. to : (n - from) % step = 0} \subseteq low .. high
             /\ {n \in from .. to : (n - from) % step = 0}
                   = {from + k * step : k \in 0 .. to} \cap (0 .. to)
  <2>1. {n \in from .. to : (n - from) % step = 0} \subseteq low .. high BY <1>2, <1>7
  <2>2. ASSUME NEW n \in from .. to, (n - from) % step = 0
        PROVE  n \in {from + k * step : k \in 0 .. to} /\ n \in 0 .. to
    <3> DEFINE x == n - from
               k == x \div step
    <3>1. x \in Nat /\ x <= to BY <2>2
    <3>z. x % step = 0 BY <2>2
    <3> HIDE DEF x, step
    <3>2. x = step * k + 0 /\ k \in Nat BY <1>1, <1>3, <3>1, <3>z, DivisionIs
    <3> HIDE DEF k
    <3>3. k <= step * k /\ step * k = k * step /\ step * k \in Int BY <1>1, <1>3, <3>2
    <3>4. k \in 0 .. to BY <3>1, <3>2, <3>3
    <3>5. n = from + k * step
      <4>1. x = k * step BY <3>2, <3>3
      <4> QED BY <2>2, <4>1 DEF x
    <3> QED BY <2>2, <3>4, <3>5
  <2>3. ASSUME NEW k \in 0 .. to, from + k * step \in 0 .. to
        PROVE  from + k * step \in {n \in from .. to : (n - from) % step = 0}
    <3> HIDE DEF step
    <3> DEFINE y == k * step
    <3>1. y \in Nat /\ y = k * step + 0 /\ 0 \in 0 .. step - 1 BY <1>1, <1>3
    <3>2. y % step = 0
      <4>1. y \in Int /\ step \in Int /\ k \in Int /\ 0 \in 0 .. step - 1 /\ y = k * step + 0
        BY <1>1, <3>1
      <4> HIDE DEF y
      <4> QED BY ONLY <4>1, DivisionOnce
    <3>3. from + y \in 0 .. to BY <2>3
    <3> HIDE DEF y
    <3>4. (from + y) - from = y /\ from + y \in from .. to BY <3>1, <3>3
    <3>5. from + y \in {n \in from .. to : (n - from) % step = 0} BY <3>2, <3>4
    <3> QED BY <3>5 DEF y
  <2>4. {n \in from .. to : (n - from) % step = 0} = {from + k * step : k \in 0 .. to} \cap (0 .. to)
    <3> HIDE DEF step
    <3> QED BY <2>2, <2>3
  <2> QED BY <2>1, <2>4
<1>8. ASSUME NEW from \in Nat, NEW to \in Nat, from >= low, to <= high,
             ParseChunk(chunk, field) = {n \in from .. to : (n - from) % step = 0},
             Listed(chunk, field) = {from + k * step : k \in 0 .. to} \cap (0 .. to)
      PROVE  /\ ParseChunk(chunk, field) \subseteq low .. high
             /\ Listed(chunk, field) \subseteq Nat
             /\ ParseChunk(chunk, field) = {read(n) : n \in Listed(chunk, field)}
  <2>1. ParseChunk(chunk, field) = Listed(chunk, field) /\ ParseChunk(chunk, field) \subseteq low .. high
    BY <1>7, <1>8
  <2>2. \A n \in Listed(chunk, field) : read(n) = n BY <1>5, <2>1
  <2>3. Listed(chunk, field) \subseteq Nat BY <1>2, <2>1
  <2> HIDE DEF read
  <2> QED BY <2>1, <2>2, <2>3
<1>9. CASE chunk.kind = "star"
  <2>1. ParseChunk(chunk, field) = {n \in low .. high : (n - low) % step = 0} BY <1>9 DEF ParseChunk
  <2>2. Listed(chunk, field) = {low + k * step : k \in 0 .. high} \cap (0 .. high) BY <1>9 DEF Listed
  <2>3. low \in Nat /\ high \in Nat /\ low >= low /\ high <= high BY <1>2
  <2> HIDE DEF low, high, step, read
  <2>4. /\ ParseChunk(chunk, field) \subseteq low .. high
        /\ Listed(chunk, field) \subseteq Nat
        /\ ParseChunk(chunk, field) = {read(n) : n \in Listed(chunk, field)}
    BY <1>8, <2>1, <2>2, <2>3
  <2> QED BY <2>4 DEF low, high, read
<1>10. CASE chunk.kind = "range"
  <2>1. read(chunk.from) \in low .. high /\ read(chunk.to) \in low .. high
    BY <1>1, <1>10 DEF ChunkIsValid, InField
  <2>2. read(chunk.from) = chunk.from /\ read(chunk.to) = chunk.to
    BY <1>1, <1>4, <1>10 DEF ParseValue
  <2>3. ParseChunk(chunk, field) = {n \in chunk.from .. chunk.to : (n - chunk.from) % step = 0}
    BY <1>10, <2>2 DEF ParseChunk
  <2>4. Listed(chunk, field) = {chunk.from + k * step : k \in 0 .. chunk.to} \cap (0 .. chunk.to)
    BY <1>10 DEF Listed
  <2>5. chunk.from \in Nat /\ chunk.to \in Nat /\ chunk.from >= low /\ chunk.to <= high
    BY <1>1, <1>2, <2>1, <2>2
  <2> HIDE DEF low, high, step, read
  <2>6. /\ ParseChunk(chunk, field) \subseteq low .. high
        /\ Listed(chunk, field) \subseteq Nat
        /\ ParseChunk(chunk, field) = {read(n) : n \in Listed(chunk, field)}
    BY <1>8, <2>3, <2>4, <2>5
  <2> QED BY <2>6 DEF low, high, read
<1> QED BY <1>1, <1>6, <1>9, <1>10

(***************************************************************************)
(* The dates                                                               *)
(***************************************************************************)

ExpressionIsValid ==
    /\ expression \in [Fields -> FieldTexts]
    /\ \A field \in Fields : \A chunk \in expression[field] : ChunkIsValid(chunk, field)

\* What a field is read as is what it names, but for the weekday 7.
LEMMA FieldIs ==
    ASSUME ExpressionIsValid, SevenEndsNoRange, NEW field \in Fields
    PROVE  /\ ParseField(field) \subseteq Lowest(field) .. Highest(field)
           /\ Named(field) \subseteq Nat
           /\ ParseField(field) = {ParseValue(n, field) : n \in Named(field)}
<1> DEFINE E == expression[field]
           P(chunk) == ParseChunk(chunk, field)
           L(chunk) == Listed(chunk, field)
           R(n) == ParseValue(n, field)
           range == Lowest(field) .. Highest(field)
<1>1. ASSUME NEW chunk \in E
      PROVE  P(chunk) \subseteq range /\ L(chunk) \subseteq Nat /\ P(chunk) = {R(n) : n \in L(chunk)}
  <2>1. E \in FieldTexts BY DEF ExpressionIsValid
  <2>2. chunk \in [kind : {"star", "value", "range"}, from : Nat, to : Nat, step : Nat]
    BY <1>1, <2>1, CronAssumption
  <2>3. ValidChunk(chunk, field) BY <1>1, <2>2 DEF ExpressionIsValid, ValidChunk
  <2>4. field = "weekday" /\ chunk.kind = "range" => chunk.from < WeekDays /\ chunk.to < WeekDays
    BY <1>1 DEF SevenEndsNoRange
  <2> QED BY ONLY <2>3, <2>4, ChunkIs
<1>2. ParseField(field) = UNION {P(chunk) : chunk \in E} BY DEF ParseField
<1>3. Named(field) = UNION {L(chunk) : chunk \in E} BY DEF Named
<1> HIDE DEF E, P, L, R, range
<1>4. UNION {P(chunk) : chunk \in E} \subseteq range /\ UNION {L(chunk) : chunk \in E} \subseteq Nat
  BY <1>1
<1>5. UNION {P(chunk) : chunk \in E} = {R(n) : n \in UNION {L(chunk) : chunk \in E}}
  <2>1. ASSUME NEW x, NEW chunk \in E, x \in P(chunk)
        PROVE  x \in {R(n) : n \in UNION {L(c) : c \in E}}
    <3>1. PICK n \in L(chunk) : x = R(n) BY <1>1, <2>1
    <3>2. n \in UNION {L(c) : c \in E} BY <3>1
    <3> QED BY <3>1, <3>2
  <2>2. ASSUME NEW chunk \in E, NEW n \in L(chunk) PROVE R(n) \in UNION {P(c) : c \in E}
    <3>1. R(n) \in P(chunk) BY <1>1, <2>2
    <3> QED BY <3>1
  <2> QED BY <2>1, <2>2
<1> QED BY <1>2, <1>3, <1>4, <1>5 DEF R, range

\* Only a weekday has another name.
LEMMA FieldIsNamed ==
    ASSUME ExpressionIsValid, SevenEndsNoRange, NEW field \in Fields \ {"weekday"}
    PROVE  ParseField(field) = Named(field)
<1>1. ParseField(field) = {ParseValue(n, field) : n \in Named(field)} BY FieldIs
<1>2. \A n : ParseValue(n, field) = n BY DEF ParseValue
<1> QED BY <1>1, <1>2

\* What the fields name lies in their ranges.
LEMMA FieldValues ==
    ASSUME ExpressionIsValid, SevenEndsNoRange
    PROVE  /\ Named("minute") \subseteq 0 .. HourMinutes - 1
           /\ Named("hour") \subseteq 0 .. DayHours - 1
           /\ \A d \in Named("day") : d \in Nat \ {0}
           /\ ParseField("weekday") \subseteq 0 .. WeekDays - 1
<1>1. {"minute", "hour", "day", "weekday"} \subseteq Fields BY DEF Fields
<1>2. /\ Lowest("minute") = 0 /\ Lowest("hour") = 0 /\ Lowest("day") = 1 /\ Lowest("weekday") = 0
      /\ Highest("minute") = HourMinutes - 1 /\ Highest("hour") = DayHours - 1
      /\ Highest("weekday") = WeekDays - 1
  BY DEF Lowest, Highest
<1>3. /\ ParseField("minute") \subseteq 0 .. HourMinutes - 1
      /\ ParseField("hour") \subseteq 0 .. DayHours - 1
      /\ ParseField("weekday") \subseteq 0 .. WeekDays - 1
  BY <1>1, <1>2, FieldIs
<1>4. ParseField("day") \subseteq 1 .. Highest("day") /\ Highest("day") \in Nat
  BY <1>1, <1>2, BoundsAre, FieldIs
<1>5. /\ ParseField("minute") = Named("minute") /\ ParseField("hour") = Named("hour")
      /\ ParseField("day") = Named("day")
  BY <1>1, FieldIsNamed
<1> QED BY <1>3, <1>4, <1>5

\* Seven names the day that zero names.
LEMMA WeekdayIs ==
    ASSUME ExpressionIsValid, SevenEndsNoRange, NEW D \in Nat
    PROVE  NamedDay(D) <=> D % WeekDays \in ParseField("weekday")
<1> DEFINE W == WeekDays
           N == Named("weekday")
           F == ParseField("weekday")
           read(n) == ParseValue(n, "weekday")
<1>1. W \in Nat \ {0} BY CronAssumption
<1>2. F = {read(n) : n \in N} /\ N \subseteq Nat /\ F \subseteq 0 .. W - 1
  BY FieldIs, FieldValues DEF Fields
<1>3. \A n : read(n) = IF n = W THEN 0 ELSE n BY DEF ParseValue
<1>4. NamedDay(D) <=> \E n \in N : (D - n) % W = 0 BY DEF NamedDay
<1>5. D % WeekDays \in ParseField("weekday") <=> D % W \in F OBVIOUS
<1> HIDE DEF W, N, F, read
<1>6. ASSUME NEW n \in N PROVE (D - n) % W = 0 <=> D % W = read(n)
  <2>1. n \in Nat /\ read(n) \in 0 .. W - 1 BY <1>2
  <2>2. CASE n = W
    <3>1. read(n) = 0 BY <1>3, <2>2
    <3>2. ASSUME (D - n) % W = 0 PROVE D % W = 0
      <4> DEFINE x == D - n
                 k == x \div W
      <4>1. x \in Int /\ D = x + W /\ x % W = 0 BY <1>1, <2>2, <3>2
      <4> HIDE DEF x
      <4>2. x = W * k + 0 /\ k \in Int BY <1>1, <4>1, DivisionIs
      <4> HIDE DEF k
      <4>3. (k + 1) * W = W * k + W BY <1>1, <4>2
      <4> DEFINE j == k + 1
      <4>4. D = j * W + 0
        <5> DEFINE jW == j * W
                   Wk == W * k
        <5>1. jW = Wk + W /\ x = Wk + 0 /\ Wk \in Int BY <1>1, <4>2, <4>3
        <5> HIDE DEF jW, Wk
        <5>2. D = jW + 0 BY <1>1, <4>1, <5>1
        <5> QED BY <5>2 DEF jW
      <4>5. D \in Int /\ W \in Int /\ j \in Int /\ 0 \in 0 .. W - 1 /\ D = j * W + 0 BY <1>1, <4>2, <4>4
      <4> HIDE DEF j
      <4> QED BY ONLY <4>5, DivisionOnce
    <3>3. ASSUME D % W = 0 PROVE (D - n) % W = 0
      <4> DEFINE k == D \div W
                 x == D - n
                 j == k - 1
      <4>1. D = W * k + 0 /\ k \in Int BY <1>1, <3>3, DivisionIs
      <4> HIDE DEF k
      <4>2. (k - 1) * W = W * k - W BY <1>1, <4>1
      <4>3. x = j * W + 0
        <5> DEFINE jW == j * W
                   Wk == W * k
        <5>1. jW = Wk - W /\ D = Wk + 0 /\ Wk \in Int /\ x = D - W BY <1>1, <2>2, <4>1, <4>2
        <5> HIDE DEF jW, Wk, x
        <5>2. x = jW + 0 BY <1>1, <5>1
        <5> QED BY <5>2 DEF jW
      <4>4. x \in Int /\ W \in Int /\ j \in Int /\ 0 \in 0 .. W - 1 /\ x = j * W + 0
        BY <1>1, <2>1, <4>1, <4>3
      <4> HIDE DEF j, x
      <4>5. x % W = 0 BY ONLY <4>4, DivisionOnce
      <4> QED BY <4>5 DEF x
    <3> QED BY <3>1, <3>2, <3>3
  <2>3. CASE n # W
    <3>1. read(n) = n /\ n \in 0 .. W - 1 BY <1>3, <2>1, <2>3
    <3>2. ASSUME (D - n) % W = 0 PROVE D % W = n
      <4> DEFINE x == D - n
                 k == x \div W
      <4>1. x \in Int /\ D = x + n /\ x % W = 0 BY <2>1, <3>2
      <4> HIDE DEF x
      <4>2. x = W * k + 0 /\ k \in Int BY <1>1, <4>1, DivisionIs
      <4> HIDE DEF k
      <4>3. W * k = k * W /\ k * W \in Int BY <1>1, <4>2
      <4>4. D \in Int /\ W \in Int /\ k \in Int /\ n \in 0 .. W - 1 /\ D = k * W + n
        BY <1>1, <3>1, <4>1, <4>2, <4>3
      <4> QED BY ONLY <4>4, DivisionOnce
    <3>3. ASSUME D % W = n PROVE (D - n) % W = 0
      <4> DEFINE k == D \div W
                 x == D - n
      <4>1. D = W * k + n /\ k \in Int BY <1>1, <3>3, DivisionIs
      <4> HIDE DEF k
      <4>2. W * k = k * W /\ k * W \in Int BY <1>1, <4>1
      <4>3. x \in Int /\ W \in Int /\ k \in Int /\ 0 \in 0 .. W - 1 /\ x = k * W + 0
        BY <1>1, <2>1, <4>1, <4>2
      <4> HIDE DEF x
      <4>4. x % W = 0 BY ONLY <4>3, DivisionOnce
      <4> QED BY <4>4 DEF x
    <3> QED BY <3>1, <3>2, <3>3
  <2> QED BY <2>2, <2>3
<1>7. D % W \in F <=> \E n \in N : D % W = read(n) BY <1>2
<1> QED BY <1>4, <1>5, <1>6, <1>7

DayAt(y, m, d) == y * YearDays + DaysBefore[m - 1] + d - 1

\* A day is a date, and one only.
LEMMA DateIs ==
    ASSUME NEW t \in Nat
    PROVE  LET m == MonthOf(t)
               d == YearDay(t) - DaysBefore[m - 1] + 1
               y == DayOf(t) \div YearDays
           IN  m \in Months /\ d \in Nat \ {0} /\ d <= MonthDays[m] /\ y \in Nat /\ DayOf(t) = DayAt(y, m, d)
<1> DEFINE m == MonthOf(t)
           x == YearDay(t)
           d == x - DaysBefore[m - 1] + 1
           D == DayOf(t)
           y == D \div YearDays
           Y == YearDays
<1>1. D \in Nat BY PartsAre
<1>2. Y \in Nat \ {0} BY YearDaysIs
<1>3. x = D % Y BY DEF YearDay
<1>4. x \in 0 .. YearDays - 1 /\ D = Y * y + x /\ y \in Nat
  <2> HIDE DEF D, Y, x
  <2>1. D = Y * (D \div Y) + (D % Y) /\ D \div Y \in Nat /\ D % Y \in 0 .. Y - 1
    BY <1>1, <1>2, DivisionIs
  <2> QED BY <1>3, <2>1 DEF Y
<1>5. m = CHOOSE k \in Months : x \in DaysBefore[k - 1] .. DaysBefore[k] - 1 BY DEF MonthOf
<1> HIDE DEF x, D, y, Y, m
<1>6. \E k \in Months : x \in DaysBefore[k - 1] .. DaysBefore[k] - 1 BY <1>4, OneMonth
<1>7. m \in Months /\ x \in DaysBefore[m - 1] .. DaysBefore[m] - 1 BY <1>5, <1>6
<1>8. /\ DaysBefore[m] = DaysBefore[m - 1] + MonthDays[m] /\ MonthDays[m] \in Nat
      /\ DaysBefore[m - 1] \in Nat
  <2>1. m \in 1 .. Len(MonthDays) /\ Len(MonthDays) \in Nat BY <1>7, MonthsAre
  <2>2. m - 1 \in 0 .. Len(MonthDays) BY <2>1
  <2> QED BY <1>7, <2>2, DaysBeforeIs, MonthsAre
<1>9. d \in Nat \ {0} /\ d <= MonthDays[m] BY <1>4, <1>7, <1>8
<1>10. D = DayAt(y, m, d)
  <2>1. y * YearDays = Y * y /\ Y * y \in Int BY <1>2, <1>4 DEF Y
  <2>2. DaysBefore[m - 1] + d - 1 = x /\ x \in Int BY <1>4, <1>8
  <2> DEFINE yY == y * YearDays
             B == DaysBefore[m - 1]
  <2>3. yY \in Int /\ D = yY + x /\ B \in Int /\ d \in Int BY <1>4, <1>8, <1>9, <2>1
  <2>4. DayAt(y, m, d) = yY + B + d - 1 BY DEF DayAt
  <2>5. B + d - 1 = x BY <2>2
  <2> HIDE DEF yY, B, d
  <2> QED BY <2>2, <2>3, <2>4, <2>5
<1>11. m \in Months /\ d \in Nat \ {0} /\ d <= MonthDays[m] /\ y \in Nat /\ D = DayAt(y, m, d)
  BY <1>4, <1>7, <1>9, <1>10
<1> QED BY <1>11 DEF x, D, y, m

\* A date has one day only, and that day no other date.
LEMMA DateOnce ==
    ASSUME NEW y \in Nat, NEW m \in Months, NEW d \in Nat \ {0}, d <= MonthDays[m],
           NEW D, DayAt(y, m, d) = D
    PROVE  /\ D \in Nat /\ D \div YearDays = y
           /\ D % YearDays \in DaysBefore[m - 1] .. DaysBefore[m] - 1
           /\ (D % YearDays) - DaysBefore[m - 1] + 1 = d
           /\ \A k \in Months : D % YearDays \in DaysBefore[k - 1] .. DaysBefore[k] - 1 => k = m
<1> DEFINE Y == YearDays
           B == DaysBefore[m - 1]
           C == DaysBefore[m]
           x == B + d - 1
<1>1. Y \in Nat \ {0} BY YearDaysIs
<1>2. m \in 1 .. Len(MonthDays) /\ Len(MonthDays) \in Nat BY MonthsAre
<1>3. B \in Nat /\ C = B + MonthDays[m] /\ MonthDays[m] \in Nat /\ C \in Nat
  <2>1. m - 1 \in 0 .. Len(MonthDays) /\ m \in 0 .. Len(MonthDays) BY <1>2
  <2> QED BY <2>1, DaysBeforeIs, MonthsAre
<1>4. C <= Y
  <2>1. m \in 0 .. Len(MonthDays) /\ Len(MonthDays) \in 0 .. Len(MonthDays) /\ m <= Len(MonthDays)
    BY <1>2
  <2> QED BY <2>1, DaysBeforeGrows DEF YearDays
<1>5. D = y * Y + B + d - 1 BY DEF DayAt
<1> HIDE DEF Y, B, C
<1>6. x \in B .. C - 1 /\ x \in 0 .. Y - 1 /\ x - B + 1 = d BY <1>1, <1>3, <1>4
<1>7. y * Y \in Nat BY <1>1
<1>8. D = y * Y + x /\ D \in Nat
  <2> DEFINE yY == y * Y
  <2> HIDE DEF yY
  <2>1. D = yY + B + d - 1 /\ yY \in Nat BY <1>5, <1>7 DEF yY
  <2>2. D = yY + x /\ D \in Nat BY <1>3, <2>1
  <2> QED BY <2>2 DEF yY
<1>9. y = D \div Y /\ x = D % Y
  <2>1. D \in Int /\ Y \in Int /\ y \in Int /\ x \in 0 .. Y - 1 /\ D = y * Y + x BY <1>1, <1>6, <1>8
  <2> HIDE DEF x
  <2> QED BY ONLY <2>1, DivisionOnce
<1> HIDE DEF x
<1>10. \A k \in Months : x \in DaysBefore[k - 1] .. DaysBefore[k] - 1 => k = m
  <2>1. x \in 0 .. YearDays - 1 /\ x \in DaysBefore[m - 1] .. DaysBefore[m] - 1 BY <1>6 DEF Y, B, C
  <2> QED BY <2>1, OneMonth
<1> QED BY <1>6, <1>8, <1>9, <1>10 DEF Y, B, C

\* The minute t of a date that the fields spell out, in the year y.
Spelled(t, y, m, d, h, mi) ==
    /\ y \in Nat /\ m \in Months \cap Named("month") /\ d \in Named("day") /\ d <= MonthDays[m]
    /\ NamedDay(DayAt(y, m, d))
    /\ h \in Named("hour") /\ mi \in Named("minute") /\ t = MinuteOf(DayAt(y, m, d), h, mi)

\* A minute matches when each of its values does.
LEMMA MatchesIs ==
    \A t : Matches(t) <=>
          /\ t % HourMinutes \in ParseField("minute")
          /\ (t \div HourMinutes) % DayHours \in ParseField("hour")
          /\ YearDay(t) - DaysBefore[MonthOf(t) - 1] + 1 \in ParseField("day")
          /\ MonthOf(t) \in ParseField("month")
          /\ DayOf(t) % WeekDays \in ParseField("weekday")
<1> TAKE t
<1>1. /\ ValueOf(t, "minute") = t % HourMinutes
      /\ ValueOf(t, "hour") = (t \div HourMinutes) % DayHours
      /\ ValueOf(t, "day") = YearDay(t) - DaysBefore[MonthOf(t) - 1] + 1
      /\ ValueOf(t, "month") = MonthOf(t)
      /\ ValueOf(t, "weekday") = DayOf(t) % WeekDays
  BY DEF ValueOf
<1>2. Matches(t) <=> /\ ValueOf(t, "minute") \in ParseField("minute")
                     /\ ValueOf(t, "hour") \in ParseField("hour")
                     /\ ValueOf(t, "day") \in ParseField("day")
                     /\ ValueOf(t, "month") \in ParseField("month")
                     /\ ValueOf(t, "weekday") \in ParseField("weekday")
  BY DEF Matches, Fields
<1> QED BY <1>1, <1>2

\* A minute that matches has a date that the fields spell out ...
LEMMA MatchIsSpelled ==
    ASSUME ExpressionIsValid, SevenEndsNoRange, NEW t \in Nat, Matches(t)
    PROVE  \E m, d, h, mi : Spelled(t, DayOf(t) \div YearDays, m, d, h, mi)
<1> DEFINE m == MonthOf(t)
           d == YearDay(t) - DaysBefore[m - 1] + 1
           y == DayOf(t) \div YearDays
           h == (t \div HourMinutes) % DayHours
           mi == t % HourMinutes
<1>1. /\ mi \in ParseField("minute") /\ h \in ParseField("hour") /\ d \in ParseField("day")
      /\ m \in ParseField("month") /\ DayOf(t) % WeekDays \in ParseField("weekday")
  BY MatchesIs
<1>2. /\ ParseField("minute") = Named("minute") /\ ParseField("hour") = Named("hour")
      /\ ParseField("day") = Named("day") /\ ParseField("month") = Named("month")
  BY FieldIsNamed DEF Fields
<1>3. m \in Months /\ d <= MonthDays[m] /\ y \in Nat /\ DayOf(t) = DayAt(y, m, d) BY DateIs
<1>4. DayOf(t) \in Nat /\ t = MinuteOf(DayOf(t), h, mi) BY PartsAre
<1>5. NamedDay(DayOf(t)) BY <1>1, <1>4, WeekdayIs
<1> HIDE DEF m, d, y, h, mi
<1>6. Spelled(t, y, m, d, h, mi) BY <1>1, <1>2, <1>3, <1>4, <1>5 DEF Spelled
<1> QED BY <1>6 DEF y

\* ... and such a date's minute matches.
LEMMA SpelledMatches ==
    ASSUME ExpressionIsValid, SevenEndsNoRange,
           NEW t, NEW y, NEW m, NEW d, NEW h, NEW mi, Spelled(t, y, m, d, h, mi)
    PROVE  t \in Nat /\ Matches(t) /\ DayOf(t) \div YearDays = y
<1> DEFINE D == DayAt(y, m, d)
<1>1. /\ y \in Nat /\ m \in Months \cap Named("month") /\ d \in Named("day") /\ d <= MonthDays[m]
      /\ NamedDay(D)
      /\ h \in Named("hour") /\ mi \in Named("minute") /\ t = MinuteOf(D, h, mi)
  BY DEF Spelled
<1>2. mi \in 0 .. HourMinutes - 1 /\ h \in 0 .. DayHours - 1 /\ d \in Nat \ {0}
  BY <1>1, FieldValues
<1>3. DayAt(y, m, d) = D OBVIOUS
<1> HIDE DEF D
<1>4. /\ D \in Nat /\ D \div YearDays = y
      /\ D % YearDays \in DaysBefore[m - 1] .. DaysBefore[m] - 1
      /\ (D % YearDays) - DaysBefore[m - 1] + 1 = d
      /\ \A k \in Months : D % YearDays \in DaysBefore[k - 1] .. DaysBefore[k] - 1 => k = m
  BY <1>1, <1>2, <1>3, DateOnce
<1>5. t \in Nat /\ DayOf(t) = D /\ (t \div HourMinutes) % DayHours = h /\ t % HourMinutes = mi
  BY <1>1, <1>2, <1>4, PartsOnce
<1>6. YearDay(t) = D % YearDays BY <1>5 DEF YearDay
<1>7. MonthOf(t) = m
  <2>1. MonthOf(t) = CHOOSE k \in Months : D % YearDays \in DaysBefore[k - 1] .. DaysBefore[k] - 1
    BY <1>6 DEF MonthOf
  <2>2. \E k \in Months : D % YearDays \in DaysBefore[k - 1] .. DaysBefore[k] - 1 BY <1>1, <1>4
  <2>3. MonthOf(t) \in Months
        /\ D % YearDays \in DaysBefore[MonthOf(t) - 1] .. DaysBefore[MonthOf(t)] - 1
    BY <2>1, <2>2
  <2> QED BY <1>4, <2>3
<1>8. /\ ParseField("minute") = Named("minute") /\ ParseField("hour") = Named("hour")
      /\ ParseField("day") = Named("day") /\ ParseField("month") = Named("month")
  BY FieldIsNamed DEF Fields
<1>9. D % WeekDays \in ParseField("weekday") BY <1>1, <1>4, WeekdayIs
<1>10. Matches(t) BY <1>1, <1>4, <1>5, <1>6, <1>7, <1>8, <1>9, MatchesIs
<1> QED BY <1>4, <1>5, <1>10

\* The reference holds the dates of the years it looks at.
LEMMA NamedRunsAre ==
    \A t : t \in NamedRuns <=>
       \E y, m, d, h, mi : /\ Spelled(t, y, m, d, h, mi)
                           /\ y \in 0 .. DayOf(after) \div YearDays + 3
<1> DEFINE years == 0 .. DayOf(after) \div YearDays + 3
           dates == {date \in years \X (Months \cap Named("month")) \X Named("day") :
                        date[3] <= MonthDays[date[2]]}
           days == {date[1] * YearDays + DaysBefore[date[2] - 1] + date[3] - 1 : date \in dates}
           runs == {MinuteOf(D, h, mi) : D \in {x \in days : NamedDay(x)},
                                         h \in Named("hour"), mi \in Named("minute")}
<1>1. NamedRuns = runs BY DEF NamedRuns
<1>2. years \subseteq Nat OBVIOUS
<1> HIDE DEF years
<1>3. \A D : D \in days <=> \E y \in years, m \in Months \cap Named("month"), d \in Named("day") :
                               d <= MonthDays[m] /\ D = DayAt(y, m, d)
  <2> TAKE D
  <2>1. ASSUME D \in days
        PROVE  \E y \in years, m \in Months \cap Named("month"), d \in Named("day") :
                  d <= MonthDays[m] /\ D = DayAt(y, m, d)
    <3>1. PICK date \in dates : D = date[1] * YearDays + DaysBefore[date[2] - 1] + date[3] - 1 BY <2>1
    <3>2. /\ date[1] \in years /\ date[2] \in Months \cap Named("month") /\ date[3] \in Named("day")
          /\ date[3] <= MonthDays[date[2]]
      OBVIOUS
    <3>3. D = DayAt(date[1], date[2], date[3]) BY <3>1 DEF DayAt
    <3> HIDE DEF dates
    <3> QED BY <3>2, <3>3
  <2>2. ASSUME NEW y \in years, NEW m \in Months \cap Named("month"), NEW d \in Named("day"),
               d <= MonthDays[m], D = DayAt(y, m, d)
        PROVE  D \in days
    <3> DEFINE date == <<y, m, d>>
    <3>1. date \in dates BY <2>2
    <3>2. D = date[1] * YearDays + DaysBefore[date[2] - 1] + date[3] - 1 BY <2>2 DEF DayAt
    <3> HIDE DEF dates, date
    <3> QED BY <3>1, <3>2
  <2> QED BY <2>1, <2>2
<1> HIDE DEF days
<1>4. ASSUME NEW t, t \in runs
      PROVE  \E y, m, d, h, mi : Spelled(t, y, m, d, h, mi) /\ y \in years
  <2>1. PICK D \in {x \in days : NamedDay(x)}, h \in Named("hour"), mi \in Named("minute") :
            t = MinuteOf(D, h, mi)
    BY <1>4
  <2>2. PICK y \in years, m \in Months \cap Named("month"), d \in Named("day") :
            d <= MonthDays[m] /\ D = DayAt(y, m, d)
    BY <1>3, <2>1
  <2>3. Spelled(t, y, m, d, h, mi) BY <1>2, <2>1, <2>2 DEF Spelled
  <2> QED BY <2>3
<1>5. ASSUME NEW t, NEW y, NEW m, NEW d, NEW h, NEW mi, Spelled(t, y, m, d, h, mi), y \in years
      PROVE  t \in runs
  <2> DEFINE D == DayAt(y, m, d)
  <2>1. /\ y \in Nat /\ m \in Months \cap Named("month") /\ d \in Named("day") /\ d <= MonthDays[m]
        /\ NamedDay(D)
        /\ h \in Named("hour") /\ mi \in Named("minute") /\ t = MinuteOf(D, h, mi)
    BY <1>5 DEF Spelled
  <2>2. D \in days BY <1>3, <1>5, <2>1
  <2> HIDE DEF D
  <2> QED BY <2>1, <2>2
<1> HIDE DEF runs
<1>6. \A t : t \in runs <=> \E y, m, d, h, mi : Spelled(t, y, m, d, h, mi) /\ y \in years BY <1>4, <1>5
<1> QED BY <1>1, <1>6 DEF years

(***************************************************************************)
(* The next run                                                            *)
(***************************************************************************)

Horizon == HorizonDays * DayHours * HourMinutes

\* A minute up to the deadline lies in one of the years that the reference looks at.
LEMMA YearsAreEnough ==
    ASSUME NEW a \in Nat, NEW t \in Nat, t <= a + 1 + Horizon
    PROVE  DayOf(t) \div YearDays \in 0 .. DayOf(a) \div YearDays + 3
<1> DEFINE P == HourMinutes * DayHours
           Y == YearDays
           D == DayOf(a)
           E == DayOf(t)
           y == D \div Y
           z == E \div Y
<1>1. P \in Nat \ {0} /\ Horizon = (Y + 1) * P
  <2>1. HourMinutes \in Nat \ {0} /\ DayHours \in Nat \ {0} BY CronAssumption
  <2>2. Y \in Nat \ {0} BY YearDaysIs
  <2>3. HourMinutes * DayHours # 0 BY <2>1
  <2>4. (Y + 1) * DayHours * HourMinutes = (Y + 1) * (HourMinutes * DayHours) BY <2>1, <2>2
  <2> QED BY <2>1, <2>3, <2>4 DEF Horizon, HorizonDays
<1>2. Y \in Nat \ {0} BY YearDaysIs
<1>3. D = a \div P /\ E = t \div P BY DEF DayOf
<1> HIDE DEF P, Y, D, E
<1>4. a = P * D + (a % P) /\ D \in Nat /\ a % P \in 0 .. P - 1 BY <1>1, <1>3, DivisionIs
<1>5. t = P * E + (t % P) /\ E \in Nat /\ t % P \in 0 .. P - 1 BY <1>1, <1>3, DivisionIs
<1>6. D = Y * y + (D % Y) /\ y \in Nat /\ D % Y \in 0 .. Y - 1 BY <1>2, <1>4, DivisionIs
<1>7. E = Y * z + (E % Y) /\ z \in Nat /\ E % Y \in 0 .. Y - 1 BY <1>2, <1>5, DivisionIs
<1> HIDE DEF y, z
\* At most a year and two days later ...
<1>8. E <= D + Y + 2
  <2> SUFFICES ASSUME E - D - Y - 3 >= 0 PROVE FALSE BY <1>2, <1>4, <1>5
  <2> DEFINE PE == P * E
             PD == P * D
             PY == P * Y
             x == a % P
             u == t % P
  <2>1. P * (E - D - Y - 3) >= 0 BY <1>1, <1>2, <1>4, <1>5
  <2>2. P * (E - D - Y - 3) = PE - PD - PY - 3 * P BY <1>1, <1>2, <1>4, <1>5
  <2>3. (Y + 1) * P = PY + P BY <1>1, <1>2
  <2>4. PE \in Int /\ PD \in Int /\ PY \in Int /\ x \in 0 .. P - 1 /\ u \in 0 .. P - 1
    BY <1>1, <1>2, <1>4, <1>5
  <2>5. t = PE + u /\ a = PD + x /\ t <= a + 1 + (PY + P) BY <1>1, <1>4, <1>5, <2>3
  <2> DEFINE v == P * (E - D - Y - 3)
  <2> HIDE DEF PE, PD, PY, x, u, v
  <2>6. v >= 0 /\ v = PE - PD - PY - 3 * P BY <2>1, <2>2 DEF v
  <2> QED BY <1>1, <2>4, <2>5, <2>6
\* ... which is at most three years further.
<1>9. z <= y + 3
  <2> SUFFICES ASSUME z - y - 4 >= 0 PROVE FALSE BY <1>6, <1>7
  <2> DEFINE Yz == Y * z
             Yy == Y * y
             r == D % Y
             s == E % Y
             v == Y * (z - y - 4)
  <2>1. v >= 0 /\ v = Yz - Yy - 4 * Y BY <1>2, <1>6, <1>7
  <2>2. Yz \in Int /\ Yy \in Int /\ r \in 0 .. Y - 1 /\ s \in 0 .. Y - 1 BY <1>2, <1>6, <1>7
  <2>3. D = Yy + r /\ E = Yz + s BY <1>6, <1>7
  <2> HIDE DEF Yz, Yy, r, s, v
  <2> QED BY <1>2, <1>8, <2>1, <2>2, <2>3
<1>10. z \in 0 .. y + 3 BY <1>6, <1>7, <1>9
<1> QED BY <1>10 DEF y, z, D, E, Y

\* What next_after finds is the first minute that the fields name.
LEMMA NextIsFirstNamed ==
    ASSUME ExpressionIsValid, after \in Nat, next_run = next_after
    PROVE  NextRunIsNamed
<1> SUFFICES ASSUME SevenEndsNoRange
             PROVE  LET ahead == {t \in NamedRuns : t > after}
                    IN  /\ next_run \in Nat => ahead # {} /\ next_run = Min(ahead)
                        /\ next_run = NoRun =>
                              \A t \in ahead : t > after + 1 + HorizonDays * DayHours * HourMinutes
  BY DEF NextRunIsNamed
<1> DEFINE ahead == {t \in NamedRuns : t > after}
           deadline == after + 1 + Horizon
           runs == {t \in after + 1 .. deadline : Matches(t)}
<1>1. Horizon \in Nat
  <2>1. HourMinutes \in Nat /\ DayHours \in Nat /\ HorizonDays \in Nat
    BY CronAssumption, YearDaysIs DEF HorizonDays
  <2>2. HorizonDays * DayHours \in Nat BY <2>1
  <2> DEFINE x == HorizonDays * DayHours
  <2> HIDE DEF x
  <2>3. x * HourMinutes \in Nat BY <2>1, <2>2 DEF x
  <2> QED BY <2>3 DEF x, Horizon
<1>2. next_run = IF runs = {} THEN NoRun ELSE CHOOSE t \in runs : \A u \in runs : t <= u
  BY DEF next_after, Horizon
<1>3. \A t \in ahead : t \in Nat /\ t > after /\ Matches(t) BY NamedRunsAre, SpelledMatches
<1>4. ASSUME NEW t \in runs PROVE t \in ahead
  <2>1. t \in Nat /\ t <= after + 1 + Horizon /\ t > after /\ Matches(t) BY <1>1
  <2>2. PICK m, d, h, mi : Spelled(t, DayOf(t) \div YearDays, m, d, h, mi) BY <2>1, MatchIsSpelled
  <2>3. DayOf(t) \div YearDays \in 0 .. DayOf(after) \div YearDays + 3 BY <2>1, YearsAreEnough
  <2>4. t \in NamedRuns BY <2>2, <2>3, NamedRunsAre
  <2> QED BY <2>1, <2>4
<1>5. \A t \in ahead : t <= deadline => t \in runs BY <1>1, <1>3
<1>6. deadline = after + 1 + HorizonDays * DayHours * HourMinutes BY DEF Horizon
<1>7. CASE runs = {}
  <2>1. next_run = -2 BY <1>2, <1>7 DEF NoRun
  <2>2. \A t \in ahead : ~(t <= deadline) BY <1>5, <1>7
  <2>3. deadline \in Nat BY <1>1
  <2> HIDE DEF ahead, deadline, runs
  <2>4. next_run \notin Nat BY <2>1
  <2>5. \A t \in ahead : t > deadline BY <1>3, <2>2, <2>3
  <2> QED BY <1>6, <2>4, <2>5 DEF ahead
<1>8. CASE runs # {}
  <2>1. runs \subseteq Nat BY <1>1
  <2>2. \E t \in runs : \A u \in runs : t <= u
    <3> HIDE DEF runs
    <3>1. PICK t \in runs : \A u \in runs : ~(<<u, t>> \in OpToRel(<, Nat))
      BY <1>8, <2>1, NatLessThanWellFounded, WFMin
    <3>2. \A u \in runs : u \in Nat /\ t \in Nat /\ ~(u < t) BY <2>1, <3>1 DEF OpToRel
    <3> QED BY <3>2
  <2>3. next_run \in runs /\ \A u \in runs : next_run <= u
    <3> HIDE DEF runs
    <3> QED BY <1>2, <1>8, <2>2
  <2>4. next_run \in Nat /\ next_run <= deadline BY <1>1, <2>3
  <2>5. next_run # NoRun BY <2>4 DEF NoRun
  <2>6. next_run \in ahead BY <1>4, <2>3
  <2>7. \A u \in ahead : next_run <= u
    <3> TAKE u \in ahead
    <3>1. u \in Nat /\ deadline \in Nat BY <1>1, <1>3
    <3>2. CASE u <= deadline BY <1>5, <2>3, <3>2
    <3>3. CASE ~(u <= deadline)
      <4> HIDE DEF deadline
      <4> QED BY <2>4, <3>1, <3>3
    <3> QED BY <3>2, <3>3
  <2>8. next_run = Min(ahead)
    <3> DEFINE x == next_run
    <3>1. \A t \in ahead : (\A u \in ahead : t <= u) => t = x
      <4> TAKE t \in ahead
      <4> HAVE \A u \in ahead : t <= u
      <4>1. t <= x /\ x <= t /\ t \in Nat /\ x \in Nat BY <1>3, <2>4, <2>6, <2>7
      <4> HIDE DEF x
      <4> QED BY <4>1
    <3>2. Min(ahead) = CHOOSE t \in ahead : \A u \in ahead : t <= u BY DEF Min
    <3> HIDE DEF ahead
    <3> QED BY <2>6, <2>7, <3>1, <3>2
  <2> QED BY <2>5, <2>6, <2>8
<1> QED BY <1>7, <1>8

(***************************************************************************)
(* The tools and the schedule                                              *)
(***************************************************************************)

\* What each tool returns for the operands it was given.
ToolAnswer(job) ==
    CASE job.tool = "booth" -> booth_multiply(job.left, job.right)
      [] job.tool = "crc32" -> crc32_utf8(job.data)
      [] job.tool = "gcd" -> euclidean_gcd(job.left, job.right)
      [] job.tool = "quicksort" -> quicksort(job.values)

AnswerInv == job_given \in AlgorithmJobs /\ answer \in {NoAnswer, ToolAnswer(job_given)}

\* No answer is ever another tool's, or another operand's.
LEMMA AnswersFollow == AlgorithmSpec => []AnswerInv
<1>1. AlgorithmInit => AnswerInv BY DEF AlgorithmInit, AnswerInv
<1>2. AnswerInv /\ [AlgorithmNext]_algorithmVars => AnswerInv'
  <2> SUFFICES ASSUME AnswerInv, [AlgorithmNext]_algorithmVars PROVE AnswerInv' OBVIOUS
  <2>1. CASE AlgorithmNext
    <3>1. job_given' = job_given BY <2>1 DEF AlgorithmNext
    <3>2. answer' = ToolAnswer(job_given)
      <4>1. CASE Booth BY <4>1 DEF Booth, ToolAnswer
      <4>2. CASE Crc32 BY <4>2 DEF Crc32, ToolAnswer
      <4>3. CASE Gcd BY <4>3 DEF Gcd, ToolAnswer
      <4>4. CASE Sort BY <4>4 DEF Sort, ToolAnswer
      <4> QED BY <2>1, <4>1, <4>2, <4>3, <4>4 DEF AlgorithmNext
    <3> QED BY <3>1, <3>2 DEF AnswerInv
  <2>2. CASE UNCHANGED algorithmVars BY <2>2 DEF algorithmVars, AnswerInv
  <2> QED BY <2>1, <2>2
<1> QED BY <1>1, <1>2, PTL DEF AlgorithmSpec

\* booth_multiply refuses an operand that is too long and multiplies every other pair.
LEMMA BoothAnswer ==
    ASSUME NEW left \in Int, NEW right \in Int
    PROVE  LET a == booth_multiply(left, right)
           IN  \/ a = Refused /\ (TooLong(left) \/ TooLong(right))
               \/ /\ a.kind = "booth" /\ a.result = left * right
                  /\ Total(a.partial_products, BitLength(Absolute(right))) = left * right
<1> DEFINE width == BoothWidth(left, right)
           last == BoothRounds(left, right)[width]
           products == [k \in DOMAIN BoothTerms(right) |-> BoothTerms(right)[k] * left]
           result == Signed(last.a * TwoTo[width] + last.q, 2 * width)
           a == booth_multiply(left, right)
<1>1. result = left * right BY RegistersHoldProduct
<1>2. Total(products, BitLength(Absolute(right))) = left * right BY ProductsAddUp
<1>3. a = IF TooLong(left) \/ TooLong(right) THEN Refused
          ELSE [kind |-> "booth", partial_products |-> products, result |-> result]
  BY DEF booth_multiply
<1> HIDE DEF products, result, a
<1>4. CASE TooLong(left) \/ TooLong(right) BY <1>3, <1>4 DEF a
<1>5. CASE ~(TooLong(left) \/ TooLong(right))
  <2>1. a.kind = "booth" /\ a.partial_products = products /\ a.result = result BY <1>3, <1>5
  <2> QED BY <1>1, <1>2, <2>1 DEF a
<1> QED BY <1>4, <1>5

\* A tool called with operands of its own answers rightly.
LEMMA AnswerIsRight == AnswerInv => ToolsComputeRight
<1> SUFFICES ASSUME AnswerInv PROVE ToolsComputeRight OBVIOUS
<1> DEFINE job == job_given
<1>1. CASE answer = NoAnswer
  <2>1. answer.kind = "none" /\ answer # Refused BY <1>1 DEF NoAnswer, Refused
  <2> QED BY <2>1 DEF ToolsComputeRight, BoothIsRight, GcdIsRight, CrcIsRight, SortIsRight
<1>2. CASE answer # NoAnswer
  <2>1. answer = ToolAnswer(job) BY <1>2 DEF AnswerInv
  <2>2. CASE job \in [tool : {"booth", "gcd"}, left : Numbers, right : Numbers]
    <3>1. job.left \in Int /\ job.right \in Int BY <2>2, AlgorithmAssumption
    <3>2. CASE job.tool = "booth"
      <4>1. answer = booth_multiply(job.left, job.right) BY <2>1, <3>2 DEF ToolAnswer
      <4> DEFINE a == booth_multiply(job.left, job.right)
      <4>2. \/ a = Refused /\ (TooLong(job.left) \/ TooLong(job.right))
            \/ /\ a.kind = "booth" /\ a.result = job.left * job.right
               /\ Total(a.partial_products, BitLength(Absolute(job.right))) = job.left * job.right
        BY <3>1, BoothAnswer
      <4>3. answer = a BY <4>1
      <4> HIDE DEF a
      <4>4. CASE a = Refused /\ (TooLong(job.left) \/ TooLong(job.right))
        <5>1. answer.kind = "ValueError" BY <4>3, <4>4 DEF Refused
        <5> QED
          BY <3>2, <4>4, <5>1 DEF ToolsComputeRight, BoothIsRight, GcdIsRight, CrcIsRight, SortIsRight
      <4>5. CASE /\ a.kind = "booth" /\ a.result = job.left * job.right
                 /\ Total(a.partial_products, BitLength(Absolute(job.right))) = job.left * job.right
        <5>1. answer # Refused BY <4>3, <4>5 DEF Refused
        <5> QED
          BY <3>2, <4>3, <4>5, <5>1 DEF ToolsComputeRight, BoothIsRight, GcdIsRight, CrcIsRight, SortIsRight
      <4> QED BY <4>2, <4>4, <4>5
    <3>3. CASE job.tool = "gcd"
      <4>1. answer = euclidean_gcd(job.left, job.right) BY <2>1, <3>3 DEF ToolAnswer
      <4>2. answer.kind = "gcd" /\ answer # Refused BY <4>1 DEF euclidean_gcd, Refused
      <4>3. answer.result = GcdReference(job.left, job.right) BY <3>1, <4>1, GcdIsGreatest
      <4> QED BY <4>2, <4>3 DEF ToolsComputeRight, BoothIsRight, GcdIsRight, CrcIsRight, SortIsRight
    <3> QED BY <2>2, <3>2, <3>3
  <2>3. CASE job \in [tool : {"crc32"}, data : SeqOf(Bytes, MaxBytes + 1)]
    <3>1. answer = crc32_utf8(job.data) BY <2>1, <2>3 DEF ToolAnswer
    <3>2. job.data \in Seq(Byte)
      <4>1. job.data \in SeqOf(Bytes, MaxBytes + 1) BY <2>3
      <4>2. PICK n \in 0 .. MaxBytes + 1 : job.data \in [1 .. n -> Bytes]
        BY <4>1, AlgorithmAssumption DEF SeqOf
      <4>3. job.data \in Seq(Bytes) BY <4>2
      <4>4. Bytes \subseteq Byte BY AlgorithmAssumption DEF Byte
      <4> QED BY <4>3, <4>4
    <3>3. CASE Len(job.data) > MaxBytes
      <4>1. answer = Refused BY <3>1, <3>3 DEF crc32_utf8
      <4>2. answer.kind = "ValueError" /\ job.tool = "crc32" BY <2>3, <4>1 DEF Refused
      <4> QED BY <3>3, <4>2 DEF ToolsComputeRight, BoothIsRight, GcdIsRight, CrcIsRight, SortIsRight
    <3>4. CASE ~(Len(job.data) > MaxBytes)
      <4>1. answer = [kind |-> "crc32", result |-> CrcReference(job.data)]
        BY <3>1, <3>2, <3>4, CrcIsDivision
      <4>2. answer.kind = "crc32" /\ answer.result = CrcReference(job.data) /\ answer # Refused
        BY <4>1 DEF Refused
      <4> QED BY <4>2 DEF ToolsComputeRight, BoothIsRight, GcdIsRight, CrcIsRight, SortIsRight
    <3> QED BY <3>3, <3>4
  <2>4. CASE job \in [tool : {"quicksort"}, values : SeqOf(1 .. MaxList, MaxList)]
    <3> DEFINE values == job.values
               size == Len(values)
    <3>1. answer = quicksort(values) BY <2>1, <2>4 DEF ToolAnswer
    <3>2. values \in Seq(Int)
      <4>1. values \in SeqOf(1 .. MaxList, MaxList) BY <2>4
      <4>2. PICK n \in 0 .. MaxList : values \in [1 .. n -> 1 .. MaxList]
        BY <4>1, AlgorithmAssumption DEF SeqOf
      <4>3. values \in [1 .. n -> Int] /\ n \in Nat BY <4>2
      <4> QED BY <4>3
    <3>3. size \in Nat /\ DOMAIN values = 1 .. size BY <3>2
    <3> DEFINE sorted == quicksort(values)
    <3>4. /\ sorted.kind = "quicksort"
          /\ sorted.result \in Lists(size)
          /\ \A i, j \in 1 .. size : i < j => sorted.result[i] <= sorted.result[j]
          /\ Rearranged(sorted.result, values, size, 1, size)
          /\ \A k \in DOMAIN sorted.partitions :
                LET cut == sorted.partitions[k]
                IN  cut.array[cut.pivot_index] = sorted.result[cut.pivot_index]
      BY <3>2, QuicksortSorts
    <3>5. answer = sorted BY <3>1
    <3> HIDE DEF sorted, values, size
    <3>6. DOMAIN answer.result = 1 .. size BY <3>4, <3>5 DEF Lists
    <3>7. \A v : Often(answer.result, size, v) = Often(values, size, v)
      BY <3>3, <3>4, <3>5, SameOften
    <3>8. SortIsRight
      <4>1. \A i, j \in DOMAIN answer.result : i < j => answer.result[i] <= answer.result[j]
        BY <3>4, <3>5, <3>6
      <4>2. \A v \in 1 .. MaxList :
                Cardinality({i \in DOMAIN answer.result : answer.result[i] = v})
                    = Cardinality({i \in DOMAIN values : values[i] = v})
        BY <3>3, <3>6, <3>7 DEF Often
      <4>3. \A k \in DOMAIN answer.partitions :
                LET cut == answer.partitions[k]
                IN  cut.array[cut.pivot_index] = answer.result[cut.pivot_index]
        BY <3>4, <3>5
      <4> QED BY <4>1, <4>2, <4>3 DEF SortIsRight, values
    <3>9. answer.kind = "quicksort" /\ answer # Refused BY <3>4, <3>5 DEF Refused
    <3> QED BY <3>8, <3>9 DEF ToolsComputeRight, BoothIsRight, GcdIsRight, CrcIsRight
  <2> QED BY <2>2, <2>3, <2>4 DEF AnswerInv, AlgorithmJobs
<1> QED BY <1>1, <1>2

\* Booth's registers and partial products are the product, Euclid's rounds end with the
\* greatest common divisor, the bitwise CRC is the remainder of the division and quicksort
\* sorts, for numbers and texts of every size (core/algorithm_tools.py).
THEOREM ToolsAlwaysRight == AlgorithmSpec => []ToolsComputeRight
BY AnswersFollow, AnswerIsRight, PTL

\* What the scheduler holds: a readable expression, a moment, and its own answer.
CronInv ==
    /\ ExpressionIsValid /\ after \in Moments
    /\ next_run \in {NotAsked, next_after}

\* compute_next_run notes only what its search returns.
LEMMA CronFollows == CronSpec => []CronInv
<1>1. CronInit => CronInv BY DEF CronInit, CronInv, ExpressionIsValid
<1>2. CronInv /\ [CronNext]_cronVars => CronInv'
  <2> SUFFICES ASSUME CronInv, [CronNext]_cronVars PROVE CronInv' OBVIOUS
  <2>1. expression' = expression /\ after' = after BY DEF CronNext, NextAfter, cronVars
  <2>2. next_run' \in {next_run, next_after} BY DEF CronNext, NextAfter, cronVars
  <2>3. next_after' = next_after BY <2>1 DEF next_after, Matches, ParseField
  <2>4. ExpressionIsValid' BY <2>1 DEF CronInv, ExpressionIsValid
  <2> QED BY <2>1, <2>2, <2>3, <2>4 DEF CronInv
<1> QED BY <1>1, <1>2, PTL DEF CronSpec

\* The minute a cron expression runs next is the first that its fields name, over the ends
\* of months and years, for every calendar and every expression (CronExpression.next_after).
THEOREM NextRunAlwaysNamed == CronSpec => []NextRunIsNamed
<1>1. CronInv => NextRunIsNamed
  <2> SUFFICES ASSUME CronInv PROVE NextRunIsNamed OBVIOUS
  <2>1. ExpressionIsValid /\ after \in Nat BY CronAssumption DEF CronInv
  <2>2. CASE next_run = NotAsked
    <3>1. next_run \notin Nat /\ next_run # NoRun BY <2>2 DEF NotAsked, NoRun
    <3> QED BY <3>1 DEF NextRunIsNamed
  <2>3. CASE next_run = next_after BY <2>1, <2>3, NextIsFirstNamed
  <2> QED BY <2>2, <2>3 DEF CronInv
<1> QED BY <1>1, CronFollows, PTL

(***************************************************************************)
(* What an answer and a next run are, before what they say.                *)
(***************************************************************************)

\* Every tool of the program answers with a record of its own.
LEMMA AlgorithmTypes == ASSUME AlgorithmTypeOK, [AlgorithmNext]_algorithmVars PROVE AlgorithmTypeOK'
<1>1. CASE UNCHANGED algorithmVars BY <1>1 DEF algorithmVars, AlgorithmTypeOK
<1>2. CASE Booth
  <2>1. ASSUME NEW m, NEW n PROVE booth_multiply(m, n).kind \in {"ValueError", "booth"}
    BY DEF booth_multiply, Refused
  <2> QED BY <1>2, <2>1 DEF Booth, AlgorithmTypeOK
<1>3. CASE Crc32
  <2>1. ASSUME NEW data PROVE crc32_utf8(data).kind \in {"ValueError", "crc32"} BY DEF crc32_utf8, Refused
  <2> QED BY <1>3, <2>1 DEF Crc32, AlgorithmTypeOK
<1>4. CASE Gcd
  <2>1. ASSUME NEW m, NEW n PROVE euclidean_gcd(m, n).kind = "gcd" BY DEF euclidean_gcd
  <2> QED BY <1>4, <2>1 DEF Gcd, AlgorithmTypeOK
<1>5. CASE Sort
  <2>1. ASSUME NEW v PROVE quicksort(v).kind = "quicksort" BY DEF quicksort
  <2> QED BY <1>5, <2>1 DEF Sort, AlgorithmTypeOK
<1> QED BY <1>1, <1>2, <1>3, <1>4, <1>5 DEF AlgorithmNext

\* The next run of a cron expression is a minute, if there is one.
LEMMA NextRunIsMinute == ASSUME after \in Nat PROVE next_after \in Nat \cup {NoRun}
<1> DEFINE matching == {t \in after + 1 .. after + 1 + HorizonDays * DayHours * HourMinutes : Matches(t)}
<1>1. matching \subseteq Nat OBVIOUS
<1> HIDE DEF matching
<1>2. matching # {} => \E t \in matching : \A u \in matching : t <= u
  <2> SUFFICES ASSUME matching # {} PROVE \E t \in matching : \A u \in matching : t <= u OBVIOUS
  <2>1. PICK t \in matching : \A u \in matching : ~(<<u, t>> \in OpToRel(<, Nat))
    BY <1>1, NatLessThanWellFounded, WFMin
  <2>2. \A u \in matching : u \in Nat /\ t \in Nat /\ ~(u < t) BY <1>1, <2>1 DEF OpToRel
  <2> QED BY <2>2
<1>3. next_after = IF matching = {} THEN NoRun ELSE CHOOSE t \in matching : \A u \in matching : t <= u
  BY DEF next_after, matching
<1> QED BY <1>1, <1>2, <1>3

LEMMA CronTypes == CronSpec => []CronTypeOK
<1>1. CronInit => after \in Nat /\ CronTypeOK BY CronAssumption DEF CronInit, CronTypeOK
<1>2. after \in Nat /\ CronTypeOK /\ [CronNext]_cronVars => (after \in Nat /\ CronTypeOK)'
  BY NextRunIsMinute DEF CronNext, NextAfter, cronVars, CronTypeOK
<1> QED BY <1>1, <1>2, PTL DEF CronSpec
=============================================================================
