-------------------------- MODULE Challenges_proofs ---------------------------
(***************************************************************************)
(* Safety of the challenges that hand out a flag for right answers, and of *)
(* the flags themselves: encrypted-activation, the team flags of speedrun  *)
(* and netshare, TsukisRhythmGame, r3ticket, the signer of z3kapig and the *)
(* proofs of inside, for any radix, number of rounds, questions, games and *)
(* connections, dimension and group.                                       *)
(***************************************************************************)
EXTENDS ActivationServer, TeamFlags, QuizSession, TicketRounds, ThresholdEcdsa,
        RlweSigma, SequenceTheorems, WellFoundedInduction, FiniteSetTheorems, TLAPS

(* Loops, and numbers as digits. *)

\* What holds at the start of a loop and from one turn to the next holds all along: the first
\* exception would be a turn from where it holds.
LEMMA AllAlong ==
    ASSUME NEW n \in Nat, NEW S, 0 \in S, \A i \in 1..n : i - 1 \in S => i \in S
    PROVE  \A i \in 0..n : i \in S
<1> DEFINE A == {i \in 0..n : i \notin S}
<1>1. SUFFICES ASSUME A # {} PROVE FALSE
  OBVIOUS
<1>2. A \in SUBSET Nat
  OBVIOUS
<1>3. OpToRel(<, Nat) = {ss \in Nat \X Nat : ss[1] < ss[2]}
  BY DEF OpToRel
<1>4. PICK i \in A : \A j \in A : <<j, i>> \notin OpToRel(<, Nat)
  <2> HIDE DEF A
  <2> QED BY <1>1, <1>2, NatLessThanWellFounded, WFMin
<1>5. \A j \in A : ~(j < i)
  <2> HIDE DEF A
  <2> QED BY <1>2, <1>3, <1>4
<1>6. i \in 0..n /\ i \notin S
  OBVIOUS
<1>7. i # 0 /\ i \in 1..n /\ i - 1 \in 0..n /\ i - 1 < i
  BY <1>6
<1>8. i - 1 \in S
  <2>1. i - 1 \notin A
    <3> HIDE DEF A
    <3> QED BY <1>5, <1>7
  <2> QED BY <1>7, <2>1
<1> QED
  BY <1>6, <1>7, <1>8

\* A loop over a set of states has a result after any number of turns.
Runs(turn, m, start, T, f) ==
    f \in [0..m -> T] /\ f[0] = start /\ \A i \in 1..m : f[i] = turn[i][f[i - 1]]

LEMMA LoopRuns ==
    ASSUME NEW n \in Nat, NEW T, NEW turn \in [1..n -> [T -> T]], NEW start \in T
    PROVE  \E f : Runs(turn, n, start, T, f)
<1> DEFINE S == {m \in 0..n : \E f : Runs(turn, m, start, T, f)}
<1>2. 0 \in S
  <2>1. Runs(turn, 0, start, T, [i \in 0..0 |-> start])
    BY DEF Runs
  <2> QED BY <2>1
<1>3. ASSUME NEW m \in 1..n, m - 1 \in S PROVE m \in S
  <2>1. m - 1 \in 0..n /\ m \in Nat /\ m - 1 \in Nat /\ m \in 0..n
    OBVIOUS
  <2>2. PICK f : Runs(turn, m - 1, start, T, f)
    BY <1>3, <2>1
  <2>3. PICK last \in T : last = turn[m][f[m - 1]]
    BY <2>1, <2>2 DEF Runs
  <2> DEFINE g == [i \in 0..m |-> IF i = m THEN last ELSE f[i]]
  <2>4. g \in [0..m -> T] /\ g[0] = start
    <3>1. \A i \in 0..m : i # m => i \in 0..(m - 1) /\ f[i] \in T
      BY <2>1, <2>2 DEF Runs
    <3>2. 0 # m /\ 0 \in 0..m /\ f[0] = start
      BY <2>1, <2>2 DEF Runs
    <3> QED BY <2>3, <3>1, <3>2
  <2>5. ASSUME NEW i \in 1..m PROVE g[i] = turn[i][g[i - 1]]
    <3>1. CASE i = m
      BY <2>1, <2>3, <3>1
    <3>2. CASE i # m
      BY <2>1, <2>2, <3>2 DEF Runs
    <3> QED BY <3>1, <3>2
  <2>6. Runs(turn, m, start, T, g)
    <3> HIDE DEF g
    <3> QED BY <2>4, <2>5 DEF Runs
  <2> QED BY <2>1, <2>6
<1>4. \A i \in 0..n : i \in S
  <2> HIDE DEF S
  <2> QED BY <1>2, <1>3, AllAlong
<1> QED
  BY <1>4

\* A loop whose turns stay in a set never leaves it.
LEMMA LoopStays ==
    ASSUME NEW n \in Nat, NEW T, NEW turn \in [1..n -> [T -> T]], NEW f, f[0] \in T,
           \A i \in 1..n : f[i - 1] \in T => f[i] = turn[i][f[i - 1]]
    PROVE  \A i \in 0..n : f[i] \in T
<1> DEFINE S == {i \in 0..n : f[i] \in T}
<1>1. 0 \in S
  OBVIOUS
<1>2. ASSUME NEW i \in 1..n, i - 1 \in S PROVE i \in S
  <2>1. f[i - 1] \in T
    BY <1>2
  <2>2. f[i] = turn[i][f[i - 1]]
    BY <2>1
  <2>3. turn[i][f[i - 1]] \in T
    <3>1. turn[i] \in [T -> T]
      OBVIOUS
    <3> QED BY <2>1, <3>1
  <2>4. i \in 0..n
    OBVIOUS
  <2> HIDE <1>2
  <2> QED BY <2>2, <2>3, <2>4
<1>3. \A i \in 0..n : i \in S
  <2> HIDE DEF S
  <2> QED BY <1>1, <1>2, AllAlong
<1> QED
  BY <1>3

\* Division with a remainder, and that there is one way only to do it.
LEMMA Division ==
    ASSUME NEW x \in Int, NEW r \in Nat \ {0}
    PROVE  x \div r \in Int /\ x % r \in 0..(r - 1) /\ x = (x \div r) * r + (x % r)
<1>1. x \div r \in Int
  OBVIOUS
<1>2. x % r \in 0..(r - 1)
  OBVIOUS
<1>3. x = (x \div r) * r + (x % r)
  OBVIOUS
<1> QED
  BY <1>1, <1>2, <1>3

LEMMA Quotient ==
    ASSUME NEW r \in Nat \ {0}, NEW q \in Int, NEW m \in 0..(r - 1)
    PROVE  (q * r + m) \div r = q /\ (q * r + m) % r = m
<1>1. PICK x \in Int : x = q * r + m
  <2>1. q * r \in Int /\ m \in Int
    OBVIOUS
  <2> QED BY <2>1
<1>2. PICK p \in Int, k \in 0..(r - 1) : p = x \div r /\ k = x % r /\ x = p * r + k
  BY Division
<1>3. PICK z \in Int : z = q - p
  OBVIOUS
<1>4. z * r = k - m
  <2>1. z * r = q * r - p * r
    BY <1>3
  <2> QED BY <1>1, <1>2, <2>1
<1>5. CASE z >= 1
  <2>1. z * r >= r
    <3>1. PICK y \in Nat : z = y + 1
      BY <1>5
    <3>2. y * r >= 0 /\ z * r = y * r + r
      BY <3>1
    <3> QED BY <3>1, <3>2
  <2> QED BY <1>4, <2>1
<1>6. CASE z <= -1
  <2>1. z * r <= -r
    <3>1. PICK y \in Nat : z = -(y + 1)
      BY <1>6
    <3>2. y * r >= 0 /\ z * r = -(y * r) - r
      BY <3>1
    <3> QED BY <3>1, <3>2
  <2> QED BY <1>4, <2>1
<1>7. CASE z = 0
  <2>1. q = p
    BY <1>3, <1>7
  <2>2. k = m
    BY <1>4, <1>7
  <2> QED BY <1>1, <1>2, <2>1, <2>2
<1> QED
  BY <1>5, <1>6, <1>7

\* The powers of a number.
LEMMA Powers ==
    ASSUME NEW r \in Int, NEW n \in Nat
    PROVE  \E f \in [0..n -> Int] :
               /\ f[0] = 1 /\ \A i \in 1..n : f[i] = f[i - 1] * r
               /\ PowerOf(r, n) = f[n]
<1> DEFINE Body(f) == f = [i \in 0..n |-> IF i = 0 THEN 1 ELSE f[i - 1] * r]
<1>1. n \in Nat /\ r \in Int /\ 1 \in Int
  OBVIOUS
<1>2. PICK turn \in [1..n -> [Int -> Int]] : \A i \in 1..n : \A x \in Int : turn[i][x] = x * r
  <2>1. \A i \in 1..n : \A x \in Int : x * r \in Int
    BY <1>1
  <2>2. [i \in 1..n |-> [x \in Int |-> x * r]] \in [1..n -> [Int -> Int]]
    BY <2>1
  <2> QED BY <2>2
<1>3. \E f : Body(f)
  <2>1. PICK f : Runs(turn, n, 1, Int, f)
    BY <1>1, LoopRuns, Zenon
  <2>2. f \in [0..n -> Int] /\ f[0] = 1 /\ \A i \in 1..n : f[i] = turn[i][f[i - 1]]
    BY <2>1 DEF Runs
  <2>3. \A i \in 1..n : f[i - 1] \in Int
    BY <1>1, <2>2
  <2>4. \A i \in 1..n : f[i] = f[i - 1] * r
    BY <1>2, <2>2, <2>3
  <2>5. f = [i \in 0..n |-> IF i = 0 THEN 1 ELSE f[i - 1] * r]
    BY <1>1, <2>2, <2>4
  <2>6. Body(f)
    BY <1>1, <2>5
  <2> QED BY <2>6
<1>4. PICK power : power = (CHOOSE f : Body(f)) /\ Body(power)
  <2> HIDE DEF Body
  <2> QED BY <1>3
<1>5. PowerOf(r, n) = power[n]
  BY <1>1, <1>4, Zenon DEF PowerOf
<1>6. power[0] = 1 /\ \A i \in 1..n : power[i] = power[i - 1] * r
  <2>1. power = [i \in 0..n |-> IF i = 0 THEN 1 ELSE power[i - 1] * r]
    BY <1>1, <1>4
  <2>2. \A i \in 1..n : i \in 0..n /\ i # 0
    BY <1>1
  <2>3. power[0] = 1
    BY ONLY <1>1, <2>1
  <2>4. \A i \in 1..n : power[i] = power[i - 1] * r
    BY ONLY <2>1, <2>2
  <2> QED BY ONLY <2>3, <2>4
<1>7. power \in [0..n -> Int]
  <2>1. \A i \in 1..n : power[i - 1] \in Int => power[i] = turn[i][power[i - 1]]
    BY <1>2, <1>6
  <2>2. \A i \in 0..n : power[i] \in Int
    BY <1>1, <1>6, <2>1, LoopStays
  <2>3. power = [i \in 0..n |-> power[i]]
    BY <1>1, <1>4
  <2> QED BY ONLY <2>2, <2>3
<1> QED
  BY <1>5, <1>6, <1>7

\* What is left of a number after each division.
LEMMA Rests ==
    ASSUME NEW r \in Nat \ {0}, NEW n \in Nat, NEW v \in Int
    PROVE  \E f \in [0..n -> Int] :
               /\ f[0] = v /\ \A i \in 1..n : f[i] = f[i - 1] \div r
               /\ DigitsOf(v, r, n) = [i \in 1..n |-> f[i - 1] % r]
<1> DEFINE Body(f) == f = [i \in 0..n |-> IF i = 0 THEN v ELSE f[i - 1] \div r]
<1>1. n \in Nat /\ r \in Nat \ {0} /\ v \in Int
  BY LenProperties, ElementOfSeq
<1>2. PICK turn \in [1..n -> [Int -> Int]] : \A i \in 1..n : \A x \in Int : turn[i][x] = x \div r
  <2>1. \A i \in 1..n : \A x \in Int : x \div r \in Int
    BY <1>1
  <2>2. [i \in 1..n |-> [x \in Int |-> x \div r]] \in [1..n -> [Int -> Int]]
    BY <2>1
  <2> QED BY <2>2
<1>3. \E f : Body(f)
  <2>1. PICK f : Runs(turn, n, v, Int, f)
    BY <1>1, LoopRuns, Zenon
  <2>2. f \in [0..n -> Int] /\ f[0] = v /\ \A i \in 1..n : f[i] = turn[i][f[i - 1]]
    BY <2>1 DEF Runs
  <2>3. \A i \in 1..n : f[i - 1] \in Int
    BY <1>1, <2>2
  <2>4. \A i \in 1..n : f[i] = f[i - 1] \div r
    BY <1>2, <2>2, <2>3
  <2>5. f = [i \in 0..n |-> IF i = 0 THEN v ELSE f[i - 1] \div r]
    BY <1>1, <2>2, <2>4
  <2>6. Body(f)
    BY <1>1, <2>5
  <2> QED BY <2>6
<1>4. PICK rest : rest = (CHOOSE f : Body(f)) /\ Body(rest)
  <2> HIDE DEF Body
  <2> QED BY <1>3
<1>5. DigitsOf(v, r, n) = [i \in 1..n |-> rest[i - 1] % r]
  <2>1. DigitsOf(v, r, n) = [i \in 1..n |-> (CHOOSE f : Body(f))[i - 1] % r]
    BY DEF DigitsOf
  <2>2. rest = (CHOOSE f : Body(f))
    BY <1>4
  <2> HIDE DEF Body
  <2> QED BY ONLY <2>1, <2>2
<1>6. rest[0] = v /\ \A i \in 1..n : rest[i] = rest[i - 1] \div r
  <2>1. rest = [i \in 0..n |-> IF i = 0 THEN v ELSE rest[i - 1] \div r]
    BY <1>1, <1>4
  <2>2. \A i \in 1..n : i \in 0..n /\ i # 0
    BY <1>1
  <2>3. rest[0] = v
    BY ONLY <1>1, <2>1
  <2>4. \A i \in 1..n : rest[i] = rest[i - 1] \div r
    BY ONLY <2>1, <2>2
  <2> QED BY ONLY <2>3, <2>4
<1>7. rest \in [0..n -> Int]
  <2>1. \A i \in 1..n : rest[i - 1] \in Int => rest[i] = turn[i][rest[i - 1]]
    BY <1>2, <1>6
  <2>2. \A i \in 0..n : rest[i] \in Int
    BY <1>1, <1>6, <2>1, LoopStays
  <2>3. rest = [i \in 0..n |-> rest[i]]
    BY <1>1, <1>4
  <2> QED BY ONLY <2>2, <2>3
<1> QED
  BY <1>5, <1>6, <1>7

\* What is combined of the digits, the highest first.
LEMMA Values ==
    ASSUME NEW r \in Nat \ {0}, NEW n \in Nat, NEW d \in Seq(Int), Len(d) = n
    PROVE  \E f \in [0..n -> Int] :
               /\ f[0] = 0 /\ \A i \in 1..n : f[i] = f[i - 1] * r + d[n + 1 - i]
               /\ ValueOf(d, r) = f[n]
<1> DEFINE Body(f) == f = [i \in 0..Len(d) |-> IF i = 0 THEN 0 ELSE f[i - 1] * r + d[Len(d) + 1 - i]]
<1>1. n \in Nat /\ r \in Int /\ 0 \in Int /\ Len(d) = n /\ \A i \in 1..n : d[i] \in Int
  BY LenProperties, ElementOfSeq
<1>2. PICK turn \in [1..n -> [Int -> Int]] : \A i \in 1..n : \A x \in Int : turn[i][x] = x * r + d[n + 1 - i]
  <2>1. \A i \in 1..n : \A x \in Int : x * r + d[n + 1 - i] \in Int
    BY <1>1
  <2>2. [i \in 1..n |-> [x \in Int |-> x * r + d[n + 1 - i]]] \in [1..n -> [Int -> Int]]
    BY <2>1
  <2> QED BY <2>2
<1>3. \E f : Body(f)
  <2>1. PICK f : Runs(turn, n, 0, Int, f)
    BY <1>1, LoopRuns, Zenon
  <2>2. f \in [0..n -> Int] /\ f[0] = 0 /\ \A i \in 1..n : f[i] = turn[i][f[i - 1]]
    BY <2>1 DEF Runs
  <2>3. \A i \in 1..n : f[i - 1] \in Int
    BY <1>1, <2>2
  <2>4. \A i \in 1..n : f[i] = f[i - 1] * r + d[n + 1 - i]
    BY <1>2, <2>2, <2>3
  <2>5. f = [i \in 0..n |-> IF i = 0 THEN 0 ELSE f[i - 1] * r + d[n + 1 - i]]
    BY <1>1, <2>2, <2>4
  <2>6. Body(f)
    BY <1>1, <2>5
  <2> QED BY <2>6
<1>4. PICK value : value = (CHOOSE f : Body(f)) /\ Body(value)
  <2> HIDE DEF Body
  <2> QED BY <1>3
<1>5. ValueOf(d, r) = value[n]
  BY <1>1, <1>4, Zenon DEF ValueOf
<1>6. value[0] = 0 /\ \A i \in 1..n : value[i] = value[i - 1] * r + d[n + 1 - i]
  <2>1. value = [i \in 0..n |-> IF i = 0 THEN 0 ELSE value[i - 1] * r + d[n + 1 - i]]
    BY <1>1, <1>4
  <2>2. \A i \in 1..n : i \in 0..n /\ i # 0
    BY <1>1
  <2>3. value[0] = 0
    BY ONLY <1>1, <2>1
  <2>4. \A i \in 1..n : value[i] = value[i - 1] * r + d[n + 1 - i]
    BY ONLY <2>1, <2>2
  <2> QED BY ONLY <2>3, <2>4
<1>7. value \in [0..n -> Int]
  <2>1. \A i \in 1..n : value[i - 1] \in Int => value[i] = turn[i][value[i - 1]]
    BY <1>2, <1>6
  <2>2. \A i \in 0..n : value[i] \in Int
    <3>1. value[0] \in Int /\ n \in Nat
      BY <1>6
    <3> QED BY ONLY <2>1, <3>1, turn \in [1..n -> [Int -> Int]], LoopStays, Zenon
  <2>3. value = [i \in 0..n |-> value[i]]
    BY <1>1, <1>4
  <2> QED BY ONLY <2>2, <2>3
<1> QED
  BY <1>5, <1>6, <1>7

\* Numbers of n digits, and the digits.
LEMMA DigitsAndValues ==
    ASSUME NEW r \in Nat \ {0}, NEW n \in Nat, NEW v \in 0..(PowerOf(r, n) - 1), NEW d \in Seq(Int), Len(d) = n,
           \A i \in 1..n : d[i] \in 0..(r - 1)
    PROVE  ValueOf(d, r) = v <=> d = DigitsOf(v, r, n)
<1>0. n \in Nat /\ r \in Nat \ {0} /\ r \in Int
  OBVIOUS
<1>1. PICK power \in [0..n -> Int] :
          /\ power[0] = 1 /\ \A i \in 1..n : power[i] = power[i - 1] * r
          /\ PowerOf(r, n) = power[n]
  BY Powers, r \in Int
<1>2. v \in 0..(power[n] - 1) /\ v \in Int
  <2>1. power[n] \in Int
    BY <1>0, <1>1
  <2> QED BY <1>1, <2>1
<1>3. PICK rest \in [0..n -> Int] :
          /\ rest[0] = v /\ \A i \in 1..n : rest[i] = rest[i - 1] \div r
          /\ DigitsOf(v, r, n) = [i \in 1..n |-> rest[i - 1] % r]
  BY ONLY <1>0, <1>2, Rests
<1>4. PICK value \in [0..n -> Int] :
          /\ value[0] = 0 /\ \A i \in 1..n : value[i] = value[i - 1] * r + d[n + 1 - i]
          /\ ValueOf(d, r) = value[n]
  BY Values
<1>5. \A x \in Int : x = (x \div r) * r + (x % r) /\ x \div r \in Int
  BY <1>0, Division
<1>6. \A x, y \in Int : y \in 0..(r - 1) =>
          (x * r + y) \div r = x /\ (x * r + y) % r = y
  BY <1>0, Quotient
\* After all divisions nothing is left.
<1>7. rest[n] = 0
  <2> DEFINE S == {i \in 0..n : 0 <= rest[i] /\ rest[i] < power[n - i]}
  <2>1. 0 \in S
    BY <1>0, <1>1, <1>2, <1>3
  <2>2. ASSUME NEW i \in 1..n, i - 1 \in S PROVE i \in S
    <3>1. /\ i \in 0..n /\ n - i \in 0..n /\ n - (i - 1) \in 1..n
          /\ (n - (i - 1)) - 1 = n - i
      BY <1>0
    <3>2. PICK x \in Int : x = rest[i - 1]
      BY <1>0, <1>3
    <3>3. PICK p \in Int : p = power[n - i]
      BY <1>1, <3>1
    <3>4. power[n - (i - 1)] = p * r
      BY <1>1, <3>1, <3>3
    <3>5. 0 <= x /\ x < p * r
      BY <2>2, <3>2, <3>4
    <3>6. 0 <= x \div r /\ x \div r < p
      <4>1. PICK q \in Int, m \in 0..(r - 1) : q = x \div r /\ x = q * r + m
        BY <1>0, Division
      <4>2. CASE q <= -1
        <5>1. PICK y \in Nat : q = -(y + 1)
          BY <4>2
        <5>2. PICK w \in Nat : w = y * r
          BY <1>0, <5>1
        <5>3. q * r = -w - r
          BY <1>0, <5>1, <5>2
        <5>4. x = -w - r + m
          BY <4>1, <5>3
        <5>5. m \in 0..(r - 1) /\ x \in Int /\ w \in Nat
          OBVIOUS
        <5>6. FALSE
          BY ONLY <1>0, <3>5, <5>4, <5>5
        <5> QED BY <5>6
      <4>3. CASE q >= p
        <5>1. PICK y \in Nat : q = p + y
          BY <4>3
        <5>2. q * r = p * r + y * r /\ y * r >= 0 /\ p * r \in Int
          BY <1>0, <5>1
        <5> QED BY <1>0, <3>5, <4>1, <5>2
      <4> QED BY <4>1, <4>2, <4>3
    <3>7. rest[i] = x \div r
      BY <1>3, <3>2
    <3> QED BY <3>1, <3>3, <3>6, <3>7
  <2>3. \A i \in 0..n : i \in S
    <3> HIDE DEF S
    <3> QED BY <1>0, <2>1, <2>2, AllAlong
  <2>4. 0 <= rest[n] /\ rest[n] < power[n - n] /\ n - n = 0
    BY <1>0, <2>3
  <2> QED BY <1>0, <1>1, <1>3, <2>4
\* Combining digits undoes the divisions one by one.
<1>8. ASSUME d = DigitsOf(v, r, n) PROVE value[n] = v
  <2> DEFINE S == {i \in 0..n : value[i] = rest[n - i]}
  <2>1. 0 \in S
    BY <1>0, <1>4, <1>7
  <2>2. ASSUME NEW i \in 1..n, i - 1 \in S PROVE i \in S
    <3>1. /\ i \in 0..n /\ n - i \in 0..n /\ n + 1 - i \in 1..n
          /\ n - (i - 1) = n + 1 - i /\ (n + 1 - i) - 1 = n - i
      BY <1>0
    <3>2. d[n + 1 - i] = rest[n - i] % r
      BY <1>3, <1>8, <3>1
    <3>3. value[i - 1] = rest[n - i] \div r
      BY <1>3, <2>2, <3>1
    <3>4. value[i] = (rest[n - i] \div r) * r + (rest[n - i] % r)
      BY <1>4, <3>2, <3>3
    <3>5. rest[n - i] \in Int
      BY <1>3, <3>1
    <3> QED BY <1>5, <3>1, <3>4, <3>5
  <2>3. \A i \in 0..n : i \in S
    <3> HIDE DEF S
    <3> QED BY <1>0, <2>1, <2>2, AllAlong
  <2> QED BY <1>0, <1>3, <2>3
\* And the divisions take apart what was combined.
<1>9. ASSUME value[n] = v PROVE d = DigitsOf(v, r, n)
  <2> DEFINE S == {i \in 0..n : rest[i] = value[n - i]}
  <2>1. 0 \in S
    BY <1>0, <1>3, <1>9
  <2>2. ASSUME NEW i \in 1..n PROVE
            /\ value[n - (i - 1)] = value[n - i] * r + d[i]
            /\ value[n - i] \in Int
    <3>1. n - (i - 1) \in 1..n /\ n - i \in 0..n
          /\ (n - (i - 1)) - 1 = n - i /\ n + 1 - (n - (i - 1)) = i
      BY <1>0
    <3> QED BY <1>4, <3>1
  <2>3. ASSUME NEW i \in 1..n, i - 1 \in S PROVE i \in S
    <3>1. i \in 0..n /\ rest[i] = rest[i - 1] \div r
      BY <1>0, <1>3
    <3>2. rest[i - 1] = value[n - i] * r + d[i]
      BY <2>2, <2>3
    <3>3. d[i] \in Int
      BY ONLY d \in Seq(Int), Len(d) = n, i \in 1..n, ElementOfSeq
    <3>4. PICK q \in Int, m \in 0..(r - 1) : q = value[n - i] /\ m = d[i]
      BY <2>2
    <3>5. (q * r + m) \div r = q
      BY Quotient, Zenon
    <3>6. rest[i] = value[n - i]
      BY ONLY <3>1, <3>2, <3>4, <3>5
    <3> QED BY <3>1, <3>6
  <2>4. \A i \in 0..n : i \in S
    <3> HIDE DEF S
    <3> QED BY <1>0, <2>1, <2>3, AllAlong
  <2>5. ASSUME NEW i \in 1..n PROVE d[i] = rest[i - 1] % r
    <3>1. i - 1 \in 0..n
      BY <1>0
    <3>2. rest[i - 1] = value[n - i] * r + d[i]
      BY <2>2, <2>4, <3>1
    <3>3. d[i] \in Int
      BY ONLY d \in Seq(Int), Len(d) = n, i \in 1..n, ElementOfSeq
    <3>4. PICK q \in Int, m \in 0..(r - 1) : q = value[n - i] /\ m = d[i]
      BY <2>2
    <3>5. (q * r + m) % r = m
      BY Quotient, Zenon
    <3> QED BY ONLY <3>2, <3>4, <3>5
  <2>6. d = [i \in 1..n |-> d[i]]
    BY <1>0, LenProperties
  <2> QED BY <1>3, <2>5, <2>6
<1> QED
  BY <1>4, <1>8, <1>9

LEMMA PowerIsPositive ==
    ASSUME NEW r \in Nat \ {0}, NEW n \in Nat
    PROVE  PowerOf(r, n) \in Nat \ {0}
<1>1. PICK f \in [0..n -> Int] :
          f[0] = 1 /\ (\A i \in 1..n : f[i] = f[i - 1] * r) /\ PowerOf(r, n) = f[n]
  BY Powers, r \in Int
<1> DEFINE S == {i \in 0..n : f[i] \in Nat \ {0}}
<1>2. 0 \in S
  BY <1>1
<1>3. ASSUME NEW i \in 1..n, i - 1 \in S PROVE i \in S
  <2>1. PICK x \in Nat \ {0} : x = f[i - 1]
    BY <1>3
  <2>2. x * r \in Nat \ {0}
    BY <2>1
  <2> QED BY <1>1, <2>1, <2>2
<1>4. \A i \in 0..n : i \in S
  <2> HIDE DEF S
  <2> QED BY <1>2, <1>3, AllAlong
<1> QED
  BY <1>1, <1>4

\* A power of a sum of exponents.
LEMMA PowersMultiply ==
    ASSUME NEW r \in Nat \ {0}, NEW a \in Nat, NEW b \in Nat
    PROVE  PowerOf(r, a + b) = PowerOf(r, a) * PowerOf(r, b)
<1>0. PICK n \in Nat : n = a + b
  OBVIOUS
<1>1. PICK f \in [0..n -> Int] :
          f[0] = 1 /\ (\A i \in 1..n : f[i] = f[i - 1] * r) /\ PowerOf(r, n) = f[n]
  BY Powers, r \in Int
<1>2. PICK g \in [0..a -> Int] :
          g[0] = 1 /\ (\A i \in 1..a : g[i] = g[i - 1] * r) /\ PowerOf(r, a) = g[a]
  BY Powers, r \in Int
<1>3. PICK h \in [0..b -> Int] :
          h[0] = 1 /\ (\A i \in 1..b : h[i] = h[i - 1] * r) /\ PowerOf(r, b) = h[b]
  BY Powers, r \in Int
<1>4. f[a] = g[a]
  <2> DEFINE S == {i \in 0..a : f[i] = g[i]}
  <2>1. 0 \in S
    BY <1>1, <1>2
  <2>2. ASSUME NEW i \in 1..a, i - 1 \in S PROVE i \in S
    <3>1. i \in 1..n
      BY <1>0
    <3> QED BY <1>1, <1>2, <2>2, <3>1
  <2>3. \A i \in 0..a : i \in S
    <3> HIDE DEF S
    <3> QED BY <2>1, <2>2, AllAlong
  <2> QED BY <2>3
<1>5. f[a + b] = g[a] * h[b]
  <2>0. PICK p \in Int : p = g[a]
    BY <1>2
  <2> DEFINE S == {i \in 0..b : f[a + i] = p * h[i]}
  <2>1. 0 \in S
    BY <1>3, <1>4, <2>0
  <2>2. ASSUME NEW i \in 1..b, i - 1 \in S PROVE i \in S
    <3>1. a + i \in 1..n /\ (a + i) - 1 = a + (i - 1)
      BY <1>0
    <3>2. PICK x \in Int : x = h[i - 1]
      BY <1>3
    <3>3. f[a + i] = (p * x) * r
      BY <1>1, <2>2, <3>1, <3>2
    <3>4. h[i] = x * r
      BY <1>3, <3>2
    <3>5. (p * x) * r = p * (x * r)
      OBVIOUS
    <3> QED BY <3>3, <3>4, <3>5
  <2>3. \A i \in 0..b : i \in S
    <3> HIDE DEF S
    <3> QED BY <2>1, <2>2, AllAlong
  <2> QED BY <2>0, <2>3
<1> QED
  BY <1>0, <1>1, <1>2, <1>3, <1>5

LEMMA PowerOfOne ==
    ASSUME NEW r \in Nat \ {0}
    PROVE  PowerOf(r, 1) = r
<1>1. PICK f \in [0..1 -> Int] :
          f[0] = 1 /\ (\A i \in 1..1 : f[i] = f[i - 1] * r) /\ PowerOf(r, 1) = f[1]
  BY Powers, r \in Int
<1> QED
  BY <1>1

\* Four digits of a power of two have four times its bits.
LEMMA FourDigits ==
    ASSUME NEW b \in Nat
    PROVE  PowerOf(2, 4 * b) = PowerOf(PowerOf(2, b), 4)
<1>1. PICK p \in Nat \ {0} : p = PowerOf(2, b)
  BY PowerIsPositive
<1>2. PowerOf(2, b + b) = p * p
  BY <1>1, PowersMultiply
<1>3. PowerOf(2, (b + b) + (b + b)) = (p * p) * (p * p)
  BY <1>2, PowersMultiply, b + b \in Nat
<1>4. PowerOf(p, 1 + 1) = p * p
  BY PowersMultiply, PowerOfOne, 1 \in Nat
<1>5. PowerOf(p, (1 + 1) + (1 + 1)) = (p * p) * (p * p)
  BY <1>4, PowersMultiply, 1 + 1 \in Nat
<1> QED
  BY <1>1, <1>3, <1>5

\* And eight digits.
LEMMA EightDigits ==
    ASSUME NEW b \in Nat
    PROVE  PowerOf(2, 8 * b) = PowerOf(PowerOf(2, b), 8)
<1>1. PICK p \in Nat \ {0}, q \in Nat : p = PowerOf(2, b) /\ q = 4 * b
  BY PowerIsPositive
<1>2. PICK w \in Nat \ {0} : w = PowerOf(2, q) /\ w = PowerOf(p, 4)
  BY <1>1, FourDigits, PowerIsPositive
<1>3. PowerOf(2, q + q) = w * w
  BY <1>2, PowersMultiply
<1>4. PowerOf(p, 4 + 4) = w * w
  BY <1>2, PowersMultiply, 4 \in Nat
<1> QED
  BY <1>1, <1>3, <1>4

LEMMA DigitsInRange ==
    ASSUME NEW r \in Nat \ {0}, NEW n \in Nat, NEW v \in Int
    PROVE  DigitsOf(v, r, n) \in [1..n -> 0..(r - 1)]
<1>1. PICK f \in [0..n -> Int] :
          f[0] = v /\ (\A i \in 1..n : f[i] = f[i - 1] \div r)
          /\ DigitsOf(v, r, n) = [i \in 1..n |-> f[i - 1] % r]
  BY Rests
<1>2. \A i \in 1..n : f[i - 1] % r \in 0..(r - 1)
  <2>1. \A i \in 1..n : f[i - 1] \in Int
    BY <1>1
  <2> QED BY <2>1, Division
<1> QED
  BY <1>1, <1>2

LEMMA ValueInRange ==
    ASSUME NEW r \in Nat \ {0}, NEW n \in Nat, NEW d \in [1..n -> 0..(r - 1)]
    PROVE  ValueOf(d, r) \in 0..(PowerOf(r, n) - 1)
<1>1. d \in Seq(Int) /\ Len(d) = n /\ \A i \in 1..n : d[i] \in 0..(r - 1)
  BY LenProperties
<1>2. PICK f \in [0..n -> Int] :
          f[0] = 0 /\ (\A i \in 1..n : f[i] = f[i - 1] * r + d[n + 1 - i]) /\ ValueOf(d, r) = f[n]
  BY <1>1, Values
<1>3. PICK p \in [0..n -> Int] :
          p[0] = 1 /\ (\A i \in 1..n : p[i] = p[i - 1] * r) /\ PowerOf(r, n) = p[n]
  BY Powers, r \in Int
<1> DEFINE S == {i \in 0..n : 0 <= f[i] /\ f[i] < p[i]}
<1>4. 0 \in S
  BY <1>2, <1>3
<1>5. ASSUME NEW i \in 1..n, i - 1 \in S PROVE i \in S
  <2>1. PICK x \in Nat, y \in Int, m \in 0..(r - 1) :
            x = f[i - 1] /\ y = p[i - 1] /\ m = d[n + 1 - i] /\ x < y
    <3>1. n + 1 - i \in 1..n /\ i - 1 \in 0..n
      OBVIOUS
    <3>2. f[i - 1] \in Int /\ p[i - 1] \in Int /\ 0 <= f[i - 1] /\ f[i - 1] < p[i - 1]
      BY ONLY <1>5, <3>1, f \in [0..n -> Int], p \in [0..n -> Int]
    <3>3. d[n + 1 - i] \in 0..(r - 1)
      BY ONLY <1>1, <3>1
    <3> QED BY ONLY <3>2, <3>3
  <2>2. f[i] = x * r + m /\ p[i] = y * r
    <3>1. f[i] = f[i - 1] * r + d[n + 1 - i] /\ p[i] = p[i - 1] * r
      BY <1>2, <1>3, Zenon
    <3> QED BY ONLY <2>1, <3>1, Zenon
  <2>3. PICK z \in Nat : y = x + 1 + z
    <3>1. x \in Nat /\ y \in Int /\ x < y
      BY <2>1, Zenon
    <3>2. y - x - 1 \in Nat /\ y = x + 1 + (y - x - 1)
      BY ONLY <3>1
    <3> QED BY <3>2
  <2>4. PICK xr \in Nat, zr \in Nat : xr = x * r /\ zr = z * r
    OBVIOUS
  <2>5. y * r = xr + r + zr
    BY <2>3, <2>4
  <2>6. 0 <= xr + m /\ xr + m < xr + r + zr
    OBVIOUS
  <2>7. f[i] = xr + m /\ p[i] = xr + r + zr
    BY ONLY <2>2, <2>4, <2>5
  <2> QED BY <2>6, <2>7
<1>6. \A i \in 0..n : i \in S
  <2> HIDE DEF S
  <2> QED BY <1>4, <1>5, AllAlong
<1>7. f[n] \in Int /\ p[n] \in Int /\ 0 <= f[n] /\ f[n] < p[n]
  BY <1>6
<1> QED
  BY <1>2, <1>3, <1>7

\* Numbers and their digits determine one another.
LEMMA ValueOfDigits ==
    ASSUME NEW r \in Nat \ {0}, NEW n \in Nat, NEW v \in 0..(PowerOf(r, n) - 1)
    PROVE  ValueOf(DigitsOf(v, r, n), r) = v
<1>1. v \in Int
  BY PowerIsPositive
<1>2. PICK d : d = DigitsOf(v, r, n) /\ d \in [1..n -> 0..(r - 1)]
  BY <1>1, DigitsInRange
<1>3. d \in Seq(Int) /\ Len(d) = n /\ \A i \in 1..n : d[i] \in 0..(r - 1)
  BY <1>2, LenProperties
<1> QED
  BY <1>2, <1>3, DigitsAndValues

LEMMA DigitsOfValue ==
    ASSUME NEW r \in Nat \ {0}, NEW n \in Nat, NEW d \in [1..n -> 0..(r - 1)]
    PROVE  DigitsOf(ValueOf(d, r), r, n) = d
<1>1. d \in Seq(Int) /\ Len(d) = n /\ \A i \in 1..n : d[i] \in 0..(r - 1)
  BY LenProperties
<1>2. ValueOf(d, r) \in 0..(PowerOf(r, n) - 1)
  BY ValueInRange
<1> QED
  BY <1>1, <1>2, DigitsAndValues

\* Bits.
LEMMA Bits ==
    ASSUME NEW n \in Nat, NEW a \in Int
    PROVE  DigitsOf(a, 2, n) \in [1..n -> 0..1]
<1>1. 2 \in Nat \ {0} /\ 0..(2 - 1) = 0..1
  OBVIOUS
<1>2. DigitsOf(a, 2, n) \in [1..n -> 0..(2 - 1)]
  BY <1>1, DigitsInRange, Zenon
<1> QED
  BY <1>1, <1>2, Zenon

\* Exclusive or: it stays within the bits, does not care for the order, and undoes itself.
LEMMA XorInRange ==
    ASSUME NEW n \in Nat, NEW a \in Int, NEW b \in Int
    PROVE  /\ BitXor(a, b, n) \in 0..(PowerOf(2, n) - 1)
           /\ DigitsOf(BitXor(a, b, n), 2, n)
                  = [i \in 1..n |-> (DigitsOf(a, 2, n)[i] + DigitsOf(b, 2, n)[i]) % 2]
<1>1. PICK x : x = DigitsOf(a, 2, n) /\ x \in [1..n -> 0..1]
  BY Bits
<1>2. PICK y : y = DigitsOf(b, 2, n) /\ y \in [1..n -> 0..1]
  BY Bits
<1>3. PICK z : z = [i \in 1..n |-> (x[i] + y[i]) % 2]
  OBVIOUS
<1>4. z \in [1..n -> 0..(2 - 1)]
  <2>1. \A i \in 1..n : x[i] \in 0..1 /\ y[i] \in 0..1
    BY <1>1, <1>2
  <2>2. \A i \in 1..n : (x[i] + y[i]) % 2 \in 0..1
    BY <2>1
  <2> QED BY <1>3, <2>2
<1>5. BitXor(a, b, n) = ValueOf(z, 2)
  BY <1>1, <1>2, <1>3, Zenon DEF BitXor
<1>6. 2 \in Nat \ {0}
  OBVIOUS
<1>7. ValueOf(z, 2) \in 0..(PowerOf(2, n) - 1) /\ DigitsOf(ValueOf(z, 2), 2, n) = z
  BY <1>4, <1>6, ValueInRange, DigitsOfValue, Zenon
<1> QED
  BY <1>1, <1>2, <1>3, <1>5, <1>7, Zenon

LEMMA XorCommutes ==
    ASSUME NEW n \in Nat, NEW a \in Int, NEW b \in Int
    PROVE  BitXor(a, b, n) = BitXor(b, a, n)
<1>1. PICK x : x = DigitsOf(a, 2, n) /\ x \in [1..n -> 0..1]
  BY Bits
<1>2. PICK y : y = DigitsOf(b, 2, n) /\ y \in [1..n -> 0..1]
  BY Bits
<1>3. [i \in 1..n |-> (x[i] + y[i]) % 2] = [i \in 1..n |-> (y[i] + x[i]) % 2]
  <2>1. \A i \in 1..n : x[i] + y[i] = y[i] + x[i]
    BY <1>1, <1>2
  <2> QED BY <2>1
<1> QED
  BY <1>1, <1>2, <1>3, Zenon DEF BitXor

LEMMA XorCancels ==
    ASSUME NEW n \in Nat, NEW a \in 0..(PowerOf(2, n) - 1), NEW b \in Int
    PROVE  BitXor(BitXor(a, b, n), b, n) = a
<1>0. 2 \in Nat \ {0} /\ a \in Int
  BY PowerIsPositive
<1>1. PICK x : x = DigitsOf(a, 2, n) /\ x \in [1..n -> 0..1]
  BY <1>0, Bits
<1>2. PICK y : y = DigitsOf(b, 2, n) /\ y \in [1..n -> 0..1]
  BY Bits
<1>3. PICK z : z = [i \in 1..n |-> (x[i] + y[i]) % 2]
  OBVIOUS
<1>4. PICK c \in Int : c = BitXor(a, b, n) /\ DigitsOf(c, 2, n) = z
  <2>1. PowerOf(2, n) \in Int
    BY <1>0, PowerIsPositive
  <2>2. BitXor(a, b, n) \in 0..(PowerOf(2, n) - 1) /\ DigitsOf(BitXor(a, b, n), 2, n) = z
    <3>1. /\ BitXor(a, b, n) \in 0..(PowerOf(2, n) - 1)
          /\ DigitsOf(BitXor(a, b, n), 2, n)
                 = [i \in 1..n |-> (DigitsOf(a, 2, n)[i] + DigitsOf(b, 2, n)[i]) % 2]
      <4>1. a \in Int
        BY <1>0
      <4> QED BY <4>1, XorInRange
    <3> QED BY <1>1, <1>2, <1>3, <3>1
  <2> QED BY <2>1, <2>2
<1>5. [i \in 1..n |-> (z[i] + y[i]) % 2] = x
  <2>1. \A i \in 1..n : x[i] \in 0..1 /\ y[i] \in 0..1 /\ z[i] = (x[i] + y[i]) % 2
    BY <1>1, <1>2, <1>3
  <2>2. \A p, q \in 0..1 : (((p + q) % 2) + q) % 2 = p
    OBVIOUS
  <2>3. \A i \in 1..n : (z[i] + y[i]) % 2 = x[i]
    BY <2>1, <2>2
  <2> QED BY <1>1, <2>3
<1>6. BitXor(c, b, n) = ValueOf([i \in 1..n |-> (z[i] + y[i]) % 2], 2)
  BY <1>2, <1>4, Zenon DEF BitXor
<1>7. BitXor(c, b, n) = ValueOf(DigitsOf(a, 2, n), 2)
  BY <1>1, <1>5, <1>6, Zenon
<1> QED
  BY <1>0, <1>4, <1>7, ValueOfDigits, Zenon

-----------------------------------------------------------------------------
(* The encrypted activations: what decryption makes of a ciphertext.        *)

\* Constants.
LEMMA Parameters ==
    /\ {ModQ, ModP, Radix, Digits} \subseteq Nat \ {0} /\ {MaxZeros, MaxNoise} \subseteq Nat
    /\ ModQ \in Int /\ ModP \in Int /\ Radix \in Int /\ Digits \in Int
    /\ SecretKey \in Seq({0, 1}) /\ Len(SecretKey) \in Nat
    /\ \A i \in 1..Len(SecretKey) : SecretKey[i] \in Int
BY ActivationAssumption, LenProperties, ElementOfSeq

\* The product of a mask with the key.
LEMMA InnerIsInt ==
    ASSUME NEW a \in Seq(Int), Len(a) = Len(SecretKey)
    PROVE  Inner(a) \in Int
<1> DEFINE Body(f) == f = [i \in 0..Len(a) |-> IF i = 0 THEN 0 ELSE f[i - 1] + a[i] * SecretKey[i]]
<1>1. PICK n \in Nat : n = Len(a)
  BY LenProperties
<1>2. PICK term : term = [i \in 1..n |-> a[i] * SecretKey[i]]
  OBVIOUS
<1>3. \A i \in 1..n : term[i] \in Int /\ term[i] = a[i] * SecretKey[i]
  <2>1. \A i \in 1..n : a[i] \in Int /\ SecretKey[i] \in Int
    BY <1>1, LenProperties, ElementOfSeq, Parameters
  <2> QED BY <1>2, <2>1
<1>4. PICK turn \in [1..n -> [Int -> Int]] : \A i \in 1..n : \A x \in Int : turn[i][x] = x + term[i]
  <2>1. [i \in 1..n |-> [x \in Int |-> x + term[i]]] \in [1..n -> [Int -> Int]]
    BY <1>3
  <2> QED BY <2>1
<1>5. \E f : Body(f)
  <2>1. PICK f : Runs(turn, n, 0, Int, f)
    <3>1. 0 \in Int
      OBVIOUS
    <3> QED BY <3>1, LoopRuns, Zenon
  <2>2. f \in [0..n -> Int] /\ \A i \in 0..n : f[i] = IF i = 0 THEN 0 ELSE f[i - 1] + term[i]
    <3>1. f \in [0..n -> Int] /\ f[0] = 0 /\ \A i \in 1..n : f[i] = turn[i][f[i - 1]]
      BY <2>1 DEF Runs
    <3>2. \A i \in 1..n : f[i - 1] \in Int
      BY <3>1
    <3>3. \A i \in 1..n : f[i] = f[i - 1] + term[i]
      BY <1>4, <3>1, <3>2
    <3> QED BY <3>1, <3>3
  <2>3. f = [i \in 0..n |-> IF i = 0 THEN 0 ELSE f[i - 1] + term[i]]
    BY <2>2
  <2>4. f = [i \in 0..n |-> IF i = 0 THEN 0 ELSE f[i - 1] + a[i] * SecretKey[i]]
    <3>1. \A i \in 0..n : i = 0 \/ (i \in 1..n /\ term[i] = a[i] * SecretKey[i])
      BY <1>3
    <3> QED BY ONLY <2>3, <3>1
  <2>5. Body(f)
    BY <1>1, <2>4
  <2> QED BY <2>5
<1>6. PICK sum : sum = (CHOOSE f : Body(f)) /\ Body(sum)
  <2> HIDE DEF Body
  <2> QED BY <1>5
<1>7. Inner(a) = sum[n]
  BY <1>1, <1>6, Zenon DEF Inner
<1>8. sum[0] \in Int /\ \A i \in 1..n : sum[i] = sum[i - 1] + term[i]
  <2>1. sum = [i \in 0..n |-> IF i = 0 THEN 0 ELSE sum[i - 1] + a[i] * SecretKey[i]]
    BY <1>1, <1>6
  <2>2. \A i \in 1..n : i \in 0..n /\ i # 0
    OBVIOUS
  <2>3. sum[0] = 0
    BY ONLY <2>1
  <2>4. \A i \in 1..n : sum[i] = sum[i - 1] + a[i] * SecretKey[i]
    BY ONLY <2>1, <2>2
  <2> QED BY ONLY <1>3, <2>3, <2>4
<1>9. \A i \in 0..n : sum[i] \in Int
  <2>1. \A i \in 1..n : sum[i - 1] \in Int => sum[i] = turn[i][sum[i - 1]]
    BY <1>4, <1>8
  <2> QED BY <1>8, <2>1, LoopStays
<1> QED
  BY <1>7, <1>9

\* The digits of the outputs.
LEMMA DigitsMeet ==
    ASSUME NEW v \in Inputs, NEW d \in Seq(Int), Len(d) = Digits,
           \A i \in 1..Digits : d[i] \in 0..(Radix - 1)
    PROVE  CombineRadix(d) = v <=> d = ExtractRadix(v)
<1>1. Radix \in Nat \ {0} /\ Digits \in Nat
  BY Parameters
<1>2. v \in 0..(PowerOf(Radix, Digits) - 1)
  BY ActivationAssumption, Zenon DEF LutSize
<1>3. ValueOf(d, Radix) = v <=> d = DigitsOf(v, Radix, Digits)
  BY <1>1, <1>2, DigitsAndValues
<1> QED
  BY <1>3, Zenon DEF CombineRadix, ExtractRadix

\* Within the noise bound a ciphertext decrypts to what was encrypted.
LEMMA Decrypted ==
    ASSUME NEW a \in Seq(0..(ModQ - 1)), Len(a) = Len(SecretKey),
           NEW m \in 0..(ModP - 1), NEW noise \in (-MaxNoise)..MaxNoise
    PROVE  LweDecrypt(LweEncrypt(a, m, noise)) = m
<1>1. PICK q \in Nat \ {0}, p \in Nat \ {0}, e \in Nat : q = ModQ /\ p = ModP /\ e = MaxNoise
  BY Parameters
<1>2. 2 * p * (e + p) < q
  BY <1>1, ActivationAssumption
<1>3. PICK delta \in Int, r \in 0..(p - 1) : delta = Step /\ q = delta * p + r
  <2>1. q \div p \in Int /\ q % p \in 0..(p - 1) /\ q = (q \div p) * p + (q % p) /\ q \in Int
    BY Division
  <2>2. Step = q \div p
    BY <1>1, Zenon DEF Step
  <2> QED BY ONLY <2>1, <2>2, Zenon
<1>4. PICK h \in Int, o \in 0..1 : h = q \div 2 /\ q = h * 2 + o
  BY Division
<1>5. PICK pe \in Nat, pp \in Nat : pe = p * e /\ pp = p * p /\ pe + pp <= h
  <2>1. PICK pe \in Nat, pp \in Nat : pe = p * e /\ pp = p * p
    OBVIOUS
  <2>2. 2 * p * (e + p) = 2 * (pe + pp)
    BY <2>1
  <2> QED BY <1>2, <1>4, <2>1, <2>2
<1>6. PICK inner \in Int : inner = Inner(a)
  <2>1. a \in Seq(Int)
    <3>1. \A i \in 1..Len(a) : a[i] \in Int
      BY ElementOfSeq, Parameters
    <3> QED BY <3>1, LenProperties
  <2> QED BY <2>1, InnerIsInt
<1>7. m \in Int /\ noise \in Int /\ m \in 0..(p - 1) /\ -e <= noise /\ noise <= e
  BY <1>1
\* The message in the upper part, and the noise.
<1>8. PICK t \in Int : t = delta * m + noise
  <2>1. delta * m \in Int
    BY <1>7
  <2> QED BY <1>7, <2>1
<1>9. PICK mq \in Nat, rm \in Nat, np \in Int :
          /\ mq = m * q /\ rm = r * m /\ np = noise * p
          /\ t * p = mq - rm + np
  <2>1. m * q \in Nat /\ r * m \in Nat /\ noise * p \in Int
    BY <1>1, <1>3, <1>7
  <2>2. PICK sm \in Int : sm = delta * m
    BY <1>7
  <2>3. sm * p = m * (delta * p)
    BY <1>7, <2>2
  <2>4. delta * p = q - r
    BY <1>3
  <2>5. m * (q - r) = m * q - r * m
    BY <1>3, <1>7
  <2>6. t * p = sm * p + noise * p
    BY <1>7, <1>8, <2>2
  <2> QED BY <2>1, <2>3, <2>4, <2>5, <2>6
<1>10. -pe <= np /\ np <= pe /\ rm <= pp
  <2>1. PICK x \in Nat, y \in Nat : x = e - noise /\ y = e + noise
    BY <1>1, <1>7
  <2>2. x * p >= 0 /\ y * p >= 0 /\ x * p = p * e - noise * p /\ y * p = p * e + noise * p
    BY <1>7, <2>1
  <2>3. -pe <= np /\ np <= pe
    BY <1>5, <1>9, <2>2
  <2>4. PICK u \in Nat, w \in Nat : u = p - r /\ w = p - m
    BY <1>3, <1>7
  <2>5. r * w >= 0 /\ r * w = r * p - r * m
    BY <1>3, <1>7, <2>4
  <2>6. u * p >= 0 /\ u * p = p * p - r * p
    BY <1>3, <2>4
  <2>7. r * m \in Int /\ r * p \in Int /\ p * p \in Int
    BY <1>3, <1>7
  <2> QED BY <1>5, <1>9, <2>3, <2>5, <2>6, <2>7
\* The part below the message, after rounding, is a remainder.
<1>11. np - rm + h \in 0..(q - 1) /\ np + h \in 0..(q - 1)
  BY <1>1, <1>4, <1>5, <1>9, <1>10
<1>12. LweEncrypt(a, m, noise) = [a |-> a, b |-> (t + inner) % ModQ]
  <2>1. m % ModP = m
    <3>1. ModP \in Nat \ {0} /\ 0 \in Int /\ 0 * ModP + m = m
      BY <1>1
    <3>2. (0 * ModP + m) % ModP = m
      BY <3>1, Quotient, Zenon
    <3> QED BY <3>1, <3>2
  <2> QED BY <1>3, <1>6, <1>8, <2>1 DEF LweEncrypt
<1>13. PICK c \in Int : (t + inner) % q = t + inner - c * q
  <2>1. t + inner \in Int
    OBVIOUS
  <2>2. PICK x \in Int : x = t + inner
    BY <2>1
  <2>3. x \div q \in Int /\ x % q \in 0..(q - 1) /\ x = (x \div q) * q + (x % q)
    BY Division
  <2>4. PICK c \in Int, k \in Int : c = x \div q /\ k = x % q /\ x = c * q + k
    BY <2>3
  <2>5. k = x - c * q
    BY <2>4
  <2>6. x % q = x - c * q /\ c \in Int
    BY ONLY <2>4, <2>5, c \in Int
  <2>7. (t + inner) % q = (t + inner) - (c * q) /\ c \in Int
    BY ONLY <2>2, <2>6
  <2> WITNESS c \in Int
  <2> QED BY ONLY <2>7
<1>14. PICK cq \in Int : cq = c * q /\ ((t + inner) % q) - inner = t - cq
  <2>1. c * q \in Int
    OBVIOUS
  <2> QED BY <1>13, <2>1
<1>15. LweDecrypt(LweEncrypt(a, m, noise)) = ((((t - cq) % q) * p + h) \div q) % p
  <2>1. LweDecrypt(LweEncrypt(a, m, noise))
            = ((((((t + inner) % ModQ) - Inner(a)) % ModQ) * ModP + (ModQ \div 2)) \div ModQ) % ModP
    <3>1. PICK ct : ct = LweEncrypt(a, m, noise)
      OBVIOUS
    <3>2. ct.a = a /\ ct.b = (t + inner) % ModQ
      BY <1>12, <3>1
    <3>3. LweDecrypt(ct) = (((((ct.b - Inner(ct.a)) % ModQ) * ModP) + (ModQ \div 2)) \div ModQ) % ModP
      BY Zenon DEF LweDecrypt
    <3> QED BY ONLY <3>1, <3>2, <3>3, Zenon
  <2> QED BY ONLY <1>1, <1>4, <1>6, <1>14, <2>1
<1>16. \A x, n \in Int, k \in 0..(q - 1) : x = n * q + k => x \div q = n /\ x % q = k
  BY Quotient, Zenon
<1>17. \A x, n \in Int, k \in 0..(p - 1) : x = n * p + k => x % p = k
  BY Quotient, Zenon
<1>18. CASE t >= 0
  <2>1. t < q
    <3>1. PICK z \in Int : z = t - q
      OBVIOUS
    <3>2. z * p = t * p - q * p
      BY <3>1
    <3>3. PICK w \in Nat : w = (p - 1 - m) * q /\ w = p * q - q - mq
      <4>1. PICK u \in Nat : u = p - 1 - m
        BY <1>7
      <4>2. u * q \in Nat /\ u * q = p * q - q - m * q
        BY <1>7, <4>1
      <4> QED BY <1>9, <4>1, <4>2
    <3>4. z * p < 0
      <4>1. q * p = p * q /\ p * q \in Int
        OBVIOUS
      <4>2. z * p = mq - rm + np - p * q
        BY <1>9, <3>2, <4>1
      <4>3. z * p = -q - w - rm + np
        BY <3>3, <4>1, <4>2
      <4> QED BY <1>4, <1>5, <1>10, <4>3
    <3>5. CASE z >= 0
      <4>1. z * p >= 0
        BY <3>5
      <4> QED BY <3>4, <4>1
    <3> QED BY <3>1, <3>5
  <2>2. (t - cq) % q = t
    <3>1. t - cq = (-c) * q + t /\ t - cq \in Int /\ -c \in Int
      BY <1>14
    <3>2. t \in 0..(q - 1)
      BY <1>18, <2>1
    <3> QED BY <1>16, <3>1, <3>2, Zenon
  <2>3. t * p + h = m * q + (np - rm + h)
    BY <1>9
  <2>4. (t * p + h) \div q = m
    <3>1. t * p + h \in Int
      OBVIOUS
    <3> QED BY <1>7, <1>11, <1>16, <2>3, <3>1, Zenon
  <2>5. m % p = m
    <3>1. m = 0 * p + m /\ 0 \in Int
      BY <1>7
    <3> QED BY <1>7, <1>17, <3>1, Zenon
  <2> QED BY ONLY <1>15, <2>2, <2>4, <2>5
<1>19. CASE t < 0
  <2>1. m = 0
    <3>1. CASE m >= 1
      <4>1. PICK y \in Nat : m = y + 1
        BY <1>7, <3>1
      <4>2. y * q >= 0 /\ m * q = y * q + q
        BY <4>1
      <4>3. t * p >= 0
        BY <1>4, <1>5, <1>9, <1>10, <4>2
      <4>4. PICK x \in Nat : t = -x - 1
        BY <1>19
      <4>5. x * p >= 0 /\ t * p = -(x * p) - p
        BY <4>4
      <4> QED BY <4>3, <4>5
    <3> QED BY <1>7, <3>1
  <2>2. t = noise /\ t * p = np
    <3>1. delta * m = 0
      BY <2>1
    <3> QED BY <1>7, <1>8, <1>9, <3>1
  <2>3. q + t \in 0..(q - 1)
    <3>1. e < q
      <4>1. PICK x \in Nat : p = x + 1
        OBVIOUS
      <4>2. pe = x * e + e /\ x * e >= 0
        BY <1>5, <4>1
      <4> QED BY <1>4, <1>5, <4>2
    <3> QED BY <1>7, <1>19, <2>2, <3>1
  <2>4. (t - cq) % q = q + t
    <3>1. t - cq = (-c - 1) * q + (q + t) /\ -c - 1 \in Int
      BY <1>14
    <3>2. t - cq \in Int
      OBVIOUS
    <3> QED BY <1>16, <2>3, <3>1, <3>2, Zenon
  <2>5. (q + t) * p + h = p * q + (np + h)
    BY <1>9, <2>2
  <2>6. ((q + t) * p + h) \div q = p
    <3>1. (q + t) * p + h \in Int /\ p \in Int
      OBVIOUS
    <3> QED BY <1>11, <1>16, <2>5, <3>1, Zenon
  <2>7. p % p = 0
    <3>1. p = 1 * p + 0 /\ 0 \in 0..(p - 1) /\ 1 \in Int /\ p \in Int
      OBVIOUS
    <3> QED BY <1>17, <3>1, Zenon
  <2> QED BY ONLY <1>15, <2>1, <2>4, <2>6, <2>7
<1> QED
  BY <1>18, <1>19

-----------------------------------------------------------------------------
(* What the task makes of a line.                                          *)

Masks == Seq(0..(ModQ - 1))

\* The words of a ciphertext.
WordsOf(w, a, b) ==
    /\ w \in Seq(Int \cup {b}) /\ Len(w) = Len(a) + 3
    /\ w[1] = Len(a) /\ w[Len(a) + 3] = b
    /\ \A i \in 1..Len(a) : w[i + 2] = a[i]

LEMMA SerializedWords ==
    ASSUME NEW a \in Seq(Int), NEW b
    PROVE  WordsOf(Serialize([a |-> a, b |-> b]), a, b)
<1> DEFINE w == Serialize([a |-> a, b |-> b])
<1> DEFINE u == <<Len(a), 0>>
           v == u \o a
<1>0. PICK W : W = Int \cup {b}
  OBVIOUS
<1>1. PICK n \in Nat : n = Len(a)
  BY LenProperties
<1>2. u \in Seq(Int) /\ Len(u) = 2 /\ u[1] = n
  BY <1>1
<1>3. <<b>> \in Seq(W) /\ Len(<<b>>) = 1 /\ <<b>>[1] = b
  BY <1>0
<1>4. /\ v \in Seq(Int) /\ Len(v) = n + 2
      /\ \A i \in 1..(n + 2) : v[i] = IF i <= 2 THEN u[i] ELSE a[i - 2]
  <2> HIDE DEF u
  <2>1. /\ u \o a \in Seq(Int) /\ Len(u \o a) = Len(u) + Len(a)
        /\ \A i \in 1..(Len(u) + Len(a)) : (u \o a)[i] = IF i <= Len(u) THEN u[i] ELSE a[i - Len(u)]
    BY <1>2, ConcatProperties
  <2> HIDE DEF v
  <2>2. v = u \o a
    BY DEF v
  <2>3. Len(u) + Len(a) = n + 2
    BY <1>1, <1>2
  <2> QED BY ONLY <1>1, <1>2, <2>1, <2>2, <2>3
<1>5. /\ w \in Seq(W) /\ Len(w) = n + 3
      /\ \A i \in 1..(n + 3) : w[i] = IF i <= n + 2 THEN v[i] ELSE <<b>>[i - (n + 2)]
  <2> HIDE DEF u, v
  <2>0. v \in Seq(W)
    <3>1. \A i \in 1..(n + 2) : v[i] \in W
      BY <1>0, <1>1, <1>4, ElementOfSeq
    <3> QED BY <1>1, <1>4, <3>1, LenProperties
  <2>1. /\ v \o <<b>> \in Seq(W) /\ Len(v \o <<b>>) = Len(v) + Len(<<b>>)
        /\ \A i \in 1..(Len(v) + Len(<<b>>)) :
              (v \o <<b>>)[i] = IF i <= Len(v) THEN v[i] ELSE <<b>>[i - Len(v)]
    BY <1>3, <2>0, ConcatProperties
  <2>2. w = v \o <<b>>
    BY DEF Serialize, u, v, w
  <2>3. Len(v) + Len(<<b>>) = n + 3 /\ Len(v) = n + 2
    BY <1>3, <1>4
  <2> HIDE DEF w
  <2> QED BY ONLY <2>1, <2>2, <2>3
<1> HIDE DEF u, v, w
<1>7. w[1] = n
  BY <1>2, <1>4, <1>5
<1>8. w[n + 3] = b
  <2>1. n + 3 \in 1..(n + 3) /\ ~(n + 3 <= n + 2) /\ (n + 3) - (n + 2) = 1
    OBVIOUS
  <2> QED BY <1>3, <1>5, <2>1
<1>9. ASSUME NEW i \in 1..n PROVE w[i + 2] = a[i]
  <2>1. i + 2 \in 1..(n + 3) /\ i + 2 <= n + 2 /\ i + 2 \in 1..(n + 2) /\ ~(i + 2 <= 2) /\ (i + 2) - 2 = i
    OBVIOUS
  <2>2. w[i + 2] = v[i + 2]
    BY <1>5, <2>1
  <2>3. v[i + 2] = a[i]
    BY <1>4, <2>1
  <2> QED BY <2>2, <2>3
<1> QED
  <2>1. /\ w \in Seq(Int \cup {b}) /\ Len(w) = Len(a) + 3 /\ w[1] = Len(a) /\ w[Len(a) + 3] = b
        /\ \A i \in 1..Len(a) : w[i + 2] = a[i]
    BY <1>0, <1>1, <1>5, <1>7, <1>8, <1>9
  <2>2. WordsOf(w, a, b)
    BY <2>1 DEF WordsOf
  <2> QED BY <2>2 DEF w

\* What was serialized is parsed.
LEMMA ParsesBack ==
    ASSUME NEW a \in Seq(Int), NEW b
    PROVE  Parse(Serialize([a |-> a, b |-> b])) = [a |-> a, b |-> b]
<1>1. PICK w : w = Serialize([a |-> a, b |-> b])
  OBVIOUS
<1>2. PICK n \in Nat : n = Len(a)
  BY LenProperties
<1>3. /\ Len(w) = n + 3 /\ w[1] = n /\ w[n + 3] = b
      /\ \A i \in 1..n : w[i + 2] = a[i]
  <2>1. WordsOf(w, a, b)
    BY <1>1, SerializedWords, Zenon
  <2> QED BY <1>2, <2>1 DEF WordsOf
<1> DEFINE word(i) == IF i <= Len(w) THEN w[i] ELSE 0
<1>4. word(1) = n /\ word(n + 3) = b /\ \A i \in 1..n : word(i + 2) = a[i]
  BY <1>3
<1>5. Parse(w) = [a |-> [i \in 1..word(1) |-> word(i + 2)], b |-> word(word(1) + 3)]
  BY DEF Parse
<1> HIDE DEF word
<1>6. [i \in 1..n |-> word(i + 2)] = [i \in 1..n |-> a[i]]
  BY <1>4
<1>7. a = [i \in 1..n |-> a[i]]
  BY <1>2, LenProperties
<1> QED
  BY <1>1, <1>4, <1>5, <1>6, <1>7

\* What is cut off within the mask is read as zeros, more than a mask may have.
LEMMA CutOffIsRefused ==
    ASSUME NEW a \in Seq(Int), NEW b
    PROVE  ~GoodMask(Parse(SubSeq(Serialize([a |-> a, b |-> b]), 1, 3)).a)
<1>1. PICK w : w = Serialize([a |-> a, b |-> b])
  OBVIOUS
<1>2. PICK n \in Nat : n = Len(a)
  BY LenProperties
<1>3. w \in Seq(Int \cup {b}) /\ Len(w) = n + 3 /\ w[1] = n
  <2>1. WordsOf(w, a, b)
    BY <1>1, SerializedWords, Zenon
  <2> QED BY <1>2, <2>1 DEF WordsOf
<1>4. PICK u : u = SubSeq(w, 1, 3)
  OBVIOUS
<1>5. Len(u) = 3 /\ u[1] = n
  <2>1. \A i \in 1..3 : w[i] \in Int \cup {b}
    BY <1>3, ElementOfSeq
  <2>2. Len(SubSeq(w, 1, 3)) = (IF 1 <= 3 THEN 3 - 1 + 1 ELSE 0)
        /\ \A i \in 1..(3 - 1 + 1) : SubSeq(w, 1, 3)[i] = w[1 + i - 1]
    BY <2>1, SubSeqProperties
  <2> QED BY <1>3, <1>4, <2>2
<1> DEFINE word(i) == IF i <= Len(u) THEN u[i] ELSE 0
<1>6. word(1) = n /\ \A i \in 2..n : word(i + 2) = 0
  BY <1>5
<1>7. Parse(u) = [a |-> [i \in 1..word(1) |-> word(i + 2)], b |-> word(word(1) + 3)]
  BY DEF Parse
<1> HIDE DEF word
<1>8. PICK m : m = [i \in 1..n |-> word(i + 2)]
  OBVIOUS
<1>9. Parse(u).a = m /\ DOMAIN m = 1..n /\ \A i \in 2..n : m[i] = 0
  BY <1>6, <1>7, <1>8
<1>10. SUFFICES ASSUME GoodMask(m) PROVE FALSE
  BY <1>1, <1>4, <1>9
<1>11. Len(m) = n
  BY <1>2, <1>8
<1>12. n = Len(SecretKey) /\ MaxZeros + 2 <= n /\ MaxZeros \in Nat
  BY <1>10, <1>11, ActivationAssumption DEF GoodMask
<1> DEFINE zeros == {i \in DOMAIN m : m[i] = 0}
<1>13. 2..n \subseteq zeros /\ zeros \subseteq 1..n
  BY <1>9
<1>14. Cardinality(zeros) <= MaxZeros
  BY <1>10 DEF GoodMask
<1> HIDE DEF zeros
<1>15. Cardinality(2..n) = n - 1 /\ Cardinality(2..n) <= Cardinality(zeros)
  <2>1. IsFiniteSet(1..n)
    BY FS_Interval
  <2>2. IsFiniteSet(zeros)
    BY <1>13, <2>1, FS_Subset
  <2>3. Cardinality(2..n) <= Cardinality(zeros)
    BY <1>13, <2>2, FS_Subset
  <2>4. Cardinality(2..n) = (IF 2 > n THEN 0 ELSE n - 2 + 1)
    BY FS_Interval
  <2> QED BY <1>12, <2>3, <2>4
<1>16. Cardinality(zeros) \in Nat
  <2>1. IsFiniteSet(1..n)
    BY FS_Interval
  <2>2. IsFiniteSet(zeros)
    BY <1>13, <2>1, FS_Subset
  <2> QED BY <2>2, FS_CardinalityType
<1> QED
  BY <1>12, <1>14, <1>15, <1>16

\* A line is right when it is meant to be: the answer passes for an input exactly if the digits
\* of the output were encrypted, under a mask the task takes.
LEMMA PassesAsMeant ==
    ASSUME NEW s \in Sent, NEW x \in Inputs
    PROVE  Passes(Made(s).answer, x) <=> Made(s).means = ExtractRadix(Lut[x])
<1> DEFINE digits == [i \in 1..Digits |-> (ExtractRadix(Lut[s.input])[i] + s.off) % ModP]
           line == Line(s.input, s.off, s.mask, s.noise)
<1>1. /\ s.input \in Inputs /\ s.off \in Nat /\ s.mask \in Masks /\ s.noise \in (-MaxNoise)..MaxNoise
      /\ s.form \in {"whole", "tooFew", "cutOff"}
  BY ActivationAssumption DEF Masks
<1>2. PICK n \in Nat \ {0} : n = Digits
  BY Parameters
<1>3. \A v \in Inputs : ExtractRadix(v) \in [1..n -> Int] /\ \A i \in 1..n : ExtractRadix(v)[i] \in 0..(Radix - 1)
  <2>1. ASSUME NEW v \in Inputs
        PROVE  ExtractRadix(v) \in [1..n -> Int] /\ \A i \in 1..n : ExtractRadix(v)[i] \in 0..(Radix - 1)
    <3>1. v \in Int /\ Radix \in Nat \ {0} /\ Digits \in Nat
      <4>1. LutSize \in Nat
        BY Parameters, PowerIsPositive DEF LutSize
      <4> QED BY <4>1, Parameters, ActivationAssumption
    <3>2. DigitsOf(v, Radix, Digits) \in [1..Digits -> 0..(Radix - 1)]
      BY <3>1, DigitsInRange, Zenon
    <3>3. ExtractRadix(v) \in [1..n -> 0..(Radix - 1)]
      BY <1>2, <3>2, Zenon DEF ExtractRadix
    <3> QED BY <3>1, <3>3
  <2> QED BY <2>1
<1>4. Lut[x] \in Inputs /\ Lut[s.input] \in Inputs
  BY <1>1, ActivationAssumption
<1>5. \A i \in 1..n : digits[i] \in 0..(ModP - 1)
  <2>1. \A i \in 1..n : ExtractRadix(Lut[s.input])[i] + s.off \in Int
    <3>1. ExtractRadix(Lut[s.input]) \in [1..n -> Int]
      BY <1>3, <1>4, Zenon
    <3>2. PICK f \in [1..n -> Int] : f = ExtractRadix(Lut[s.input])
      BY <3>1, Zenon
    <3>3. \A i \in 1..n : f[i] + s.off \in Int
      BY <1>1
    <3> QED BY <3>2, <3>3, Zenon
  <2>2. \A y \in Int : y % ModP \in 0..(ModP - 1)
    BY Parameters, Division
  <2> QED BY <1>2, <2>1, <2>2
<1>6. line = [answer |-> [i \in 1..n |-> Serialize(LweEncrypt(s.mask, digits[i], s.noise))],
              means |-> IF GoodMask(s.mask) THEN digits ELSE <<>>]
  BY <1>2, Zenon DEF Line
<1> HIDE DEF digits, line
<1>7. PICK p \in Nat \ {0} : p = ModP
  BY Parameters
<1>8. s.mask \in Seq(Int) /\ Len(s.mask) \in Nat
  <2>1. \A i \in 1..Len(s.mask) : s.mask[i] \in Int
    BY <1>1, ElementOfSeq, Parameters DEF Masks
  <2> QED BY <1>1, <2>1, LenProperties DEF Masks
<1>9. <<>> # ExtractRadix(Lut[x])
  <2>1. DOMAIN ExtractRadix(Lut[x]) = 1..n /\ 1 \in 1..n
    BY <1>3, <1>4
  <2>2. DOMAIN <<>> = {}
    OBVIOUS
  <2> QED BY <2>1, <2>2
<1>10. PICK body : \A i \in 1..n : LweEncrypt(s.mask, digits[i], s.noise) = [a |-> s.mask, b |-> body[i]]
  <2>2. \A i \in 1..n : LweEncrypt(s.mask, digits[i], s.noise)
                           = [a |-> s.mask, b |-> LweEncrypt(s.mask, digits[i], s.noise).b]
    BY DEF LweEncrypt
  <2>3. PICK body : body = [i \in 1..n |-> LweEncrypt(s.mask, digits[i], s.noise).b]
    OBVIOUS
  <2>4. \A i \in 1..n : body[i] = LweEncrypt(s.mask, digits[i], s.noise).b
    BY <2>3, Zenon
  <2>5. \A i \in 1..n : LweEncrypt(s.mask, digits[i], s.noise) = [a |-> s.mask, b |-> body[i]]
    BY <2>2, <2>4, Zenon
  <2> QED BY <2>5, Zenon
<1>11. PICK words : words = line.answer
  OBVIOUS
<1>12. /\ Len(words) = n
       /\ \A i \in 1..n : words[i] = Serialize([a |-> s.mask, b |-> body[i]])
  <2>1. words = [i \in 1..n |-> Serialize(LweEncrypt(s.mask, digits[i], s.noise))]
    BY <1>6, <1>11
  <2> QED BY <1>10, <2>1
<1>13. line.means = IF GoodMask(s.mask) THEN digits ELSE <<>>
  BY <1>6
<1>14. CASE s.form = "whole"
  <2>1. Made(s) = line
    BY <1>14 DEF Made, line
  <2>2. \A i \in 1..n : Parse(words[i]) = LweEncrypt(s.mask, digits[i], s.noise) /\ Parse(words[i]).a = s.mask
    <3>1. \A c : Parse(Serialize([a |-> s.mask, b |-> c])) = [a |-> s.mask, b |-> c]
      BY <1>8, ParsesBack
    <3>2. \A i \in 1..n : Parse(words[i]) = [a |-> s.mask, b |-> body[i]]
      BY <1>12, <3>1, Zenon
    <3>3. \A i \in 1..n : Parse(words[i]) = LweEncrypt(s.mask, digits[i], s.noise)
      BY <1>10, <3>2, Zenon
    <3>4. \A i \in 1..n : Parse(words[i]).a = s.mask
      <4>1. ASSUME NEW i \in 1..n PROVE Parse(words[i]).a = s.mask
        <5>1. PICK ct : ct = Parse(words[i])
          OBVIOUS
        <5>2. ct = [a |-> s.mask, b |-> body[i]]
          BY <3>2, <5>1, Zenon
        <5> QED BY <5>1, <5>2
      <4> QED BY <4>1, Zenon
    <3> QED BY <3>3, <3>4, Zenon
  <2>3. CASE ~GoodMask(s.mask)
    <3>1. ~Passes(words, x)
      <4>1. 1 \in 1..n
        OBVIOUS
      <4> QED BY <1>2, <2>2, <2>3, <4>1 DEF Passes
    <3> QED BY <1>9, <1>11, <1>13, <2>1, <2>3, <3>1
  <2>4. CASE GoodMask(s.mask)
    <3>1. Len(s.mask) = Len(SecretKey)
      BY <2>4 DEF GoodMask
    <3>2. \A i \in 1..n : LweDecrypt(Parse(words[i])) = digits[i]
      BY <1>1, <1>5, <2>2, <3>1, Decrypted DEF Masks
    <3>3. digits \in Seq(Int) /\ Len(digits) = n /\ digits = [i \in 1..n |-> digits[i]]
      <4>1. digits = [i \in 1..n |-> digits[i]]
        BY <1>2 DEF digits
      <4>2. \A i \in 1..n : digits[i] \in Int
        BY <1>5, <1>7
      <4> QED BY <4>1, <4>2
    <3>4. [i \in 1..Digits |-> LweDecrypt(Parse(words[i]))] = digits
      BY <1>2, <3>2, <3>3
    <3>5. Passes(words, x) <=> (\A i \in 1..n : digits[i] < Radix) /\ CombineRadix(digits) = Lut[x]
      BY <1>2, <1>12, <2>2, <2>4, <3>4 DEF Passes
    <3>6. (\A i \in 1..n : digits[i] < Radix) <=> (\A i \in 1..n : digits[i] \in 0..(Radix - 1))
      <4>1. Radix \in Int
        BY Parameters
      <4> QED BY <1>5, <1>7, <4>1
    <3>7. (\A i \in 1..n : digits[i] \in 0..(Radix - 1)) => (CombineRadix(digits) = Lut[x] <=> digits = ExtractRadix(Lut[x]))
      BY <1>2, <1>4, <3>3, DigitsMeet
    <3>8. digits = ExtractRadix(Lut[x]) => \A i \in 1..n : digits[i] \in 0..(Radix - 1)
      BY <1>3, <1>4
    <3>9. Passes(words, x) <=> digits = ExtractRadix(Lut[x])
      BY <3>5, <3>6, <3>7, <3>8
    <3> QED BY <1>11, <1>13, <2>1, <2>4, <3>9
  <2> QED BY <2>3, <2>4
<1>15. CASE s.form = "tooFew"
  <2>1. Made(s) = TooFew(line)
    BY <1>15 DEF Made, line
  <2>2. Made(s).answer = Front(words) /\ Made(s).means = <<>>
    BY <1>11, <2>1 DEF TooFew
  <2>3. Len(Front(words)) = n - 1
    <3>1. \A i \in 1..(n - 1) : words[i] \in {words[j] : j \in 1..n}
      OBVIOUS
    <3>2. Len(SubSeq(words, 1, n - 1)) = IF 1 <= n - 1 THEN (n - 1) - 1 + 1 ELSE 0
      BY <3>1, SubSeqProperties
    <3> QED BY <1>12, <3>2 DEF Front
  <2>4. ~Passes(Made(s).answer, x)
    BY <1>2, <2>2, <2>3 DEF Passes
  <2> QED BY <1>9, <2>2, <2>4
<1>16. CASE s.form = "cutOff"
  <2>1. Made(s) = CutOff(line)
    BY <1>16 DEF Made, line
  <2>2. Made(s).answer = [i \in 1..Digits |-> SubSeq(words[i], 1, 3)] /\ Made(s).means = <<>>
    BY <1>11, <2>1 DEF CutOff
  <2>3. 1 \in 1..Digits
    BY <1>2
  <2>4. Made(s).answer[1] = SubSeq(Serialize([a |-> s.mask, b |-> body[1]]), 1, 3)
    BY <1>2, <1>12, <2>2, <2>3
  <2>5. ~GoodMask(Parse(Made(s).answer[1]).a)
    BY <1>8, <2>4, CutOffIsRefused
  <2>6. ~Passes(Made(s).answer, x)
    BY <2>3, <2>5 DEF Passes
  <2> QED BY <1>9, <2>2, <2>6
<1> QED
  BY <1>1, <1>14, <1>15, <1>16

Lines == {Made(s) : s \in Sent}

ActivationOK(c) ==
    /\ task[c] \in {"none", "ask", "listen", "exited"} /\ round[c] \in Nat /\ right[c] \in Nat
    /\ net[c] \in Seq(Lines) /\ stdin[c] \in [lines : Seq(Lines), open : BOOLEAN]
    /\ task[c] = "listen" => input[c] \in Inputs
    /\ task[c] # "exited" => verdict[c] = "none" /\ right[c] = round[c]
    /\ verdict[c] = "flag" => right[c] = NRounds
    /\ verdict[c] = "wrong" => right[c] = round[c]

\* The lines under way are lines that clients made, and as long as the task runs the rounds
\* it has counted are the ones that were answered.
ActivationInv ==
    /\ DOMAIN task = Conns /\ DOMAIN verdict = Conns /\ DOMAIN round = Conns
    /\ DOMAIN input = Conns /\ DOMAIN right = Conns /\ DOMAIN net = Conns /\ DOMAIN stdin = Conns
    /\ \A c \in Conns : ActivationOK(c)

LEMMA ActivationStarts == ActivationInit => ActivationInv
<1>1. <<>> \in Seq(Lines)
  BY EmptySeq
<1> HIDE DEF Lines
<1> QED
  BY <1>1 DEF ActivationInit, ActivationInv, ActivationOK

LEMMA ActivationGoesOn == ActivationInv /\ [ActivationNext]_activationVars => ActivationInv'
<1> SUFFICES ASSUME ActivationInv, [ActivationNext]_activationVars PROVE ActivationInv'
  OBVIOUS
<1> USE DEF activationVars, relayVars, taskVars
<1>0. \A c \in Conns : ActivationOK(c)
  BY DEF ActivationInv
<1>1. CASE UNCHANGED activationVars
  BY <1>1 DEF ActivationInv, ActivationOK
<1>2. ASSUME NEW c \in Conns, Ask(c) PROVE ActivationInv'
  <2>1. PICK x \in Inputs : input' = [input EXCEPT ![c] = x]
    BY <1>2 DEF Ask
  <2> QED BY <1>2, <2>1 DEF Ask, ActivationInv, ActivationOK
<1>3. ASSUME NEW c \in Conns, Listen(c) PROVE ActivationInv'
  <2>1. task[c] = "listen" /\ input[c] \in Inputs /\ verdict[c] = "none" /\ right[c] = round[c]
        /\ round[c] \in Nat /\ stdin[c] \in [lines : Seq(Lines), open : BOOLEAN] /\ stdin[c].lines # <<>>
    BY <1>0, <1>3 DEF Listen, ActivationOK
  <2>2. PICK line \in Lines : line = Head(stdin[c].lines)
    <3>1. stdin[c].lines \in Seq(Lines)
      BY <2>1
    <3> QED BY <2>1, <3>1, HeadTailProperties
  <2>3. Tail(stdin[c].lines) \in Seq(Lines)
    <3>1. stdin[c].lines \in Seq(Lines)
      BY <2>1
    <3> QED BY <2>1, <3>1, HeadTailProperties
  <2>4. Passes(line.answer, input[c]) <=> line.means = ExtractRadix(Lut[input[c]])
    BY <2>1, <2>2, PassesAsMeant, Zenon DEF Lines
  <2> HIDE DEF Lines
  <2>5. /\ stdin' = [stdin EXCEPT ![c].lines = Tail(@)]
        /\ UNCHANGED <<input, net>>
    BY <1>3 DEF Listen
  <2>6. right' = [right EXCEPT ![c] = IF Passes(line.answer, input[c]) THEN @ + 1 ELSE @]
    <3>1. right' = [right EXCEPT ![c] = IF line.means = ExtractRadix(Lut[input[c]]) THEN @ + 1 ELSE @]
      BY <1>3, <2>2 DEF Listen
    <3> QED BY <2>4, <3>1
  <2>7. \/ /\ ~Passes(line.answer, input[c])
           /\ task' = [task EXCEPT ![c] = "exited"] /\ verdict' = [verdict EXCEPT ![c] = "wrong"]
           /\ UNCHANGED round
        \/ /\ Passes(line.answer, input[c])
           /\ round' = [round EXCEPT ![c] = @ + 1]
           /\ \/ /\ round[c] + 1 = NRounds
                 /\ task' = [task EXCEPT ![c] = "exited"] /\ verdict' = [verdict EXCEPT ![c] = "flag"]
              \/ task' = [task EXCEPT ![c] = "ask"] /\ UNCHANGED verdict
    BY <1>3, <2>2 DEF Listen, Exit
  <2>8. stdin'[c] \in [lines : Seq(Lines), open : BOOLEAN]
        /\ DOMAIN stdin' = Conns /\ \A d \in Conns \ {c} : stdin'[d] = stdin[d]
    BY <2>1, <2>3, <2>5 DEF ActivationInv
  <2>9. PICK pass \in BOOLEAN : pass = Passes(line.answer, input[c])
    BY DEF Passes
  <2>10. /\ DOMAIN task' = Conns /\ DOMAIN verdict' = Conns /\ DOMAIN round' = Conns
         /\ DOMAIN input' = Conns /\ DOMAIN right' = Conns /\ DOMAIN net' = Conns
    BY <2>5, <2>6, <2>7 DEF ActivationInv
  <2>11. ActivationOK(c)'
    BY <2>1, <2>5, <2>6, <2>7, <2>8, <2>9, <1>0 DEF ActivationInv, ActivationOK
  <2>12. ASSUME NEW d \in Conns \ {c} PROVE ActivationOK(d)'
    BY <2>5, <2>6, <2>7, <2>8, <1>0 DEF ActivationInv, ActivationOK
  <2> QED BY <2>8, <2>10, <2>11, <2>12 DEF ActivationInv
<1>4. ASSUME NEW c \in Conns, InputEnds(c) PROVE ActivationInv'
  BY <1>4 DEF InputEnds, Exit, ActivationInv, ActivationOK
<1>5. ASSUME NEW c \in Conns, Alarm(c) PROVE ActivationInv'
  BY <1>5 DEF Alarm, Exit, ActivationInv, ActivationOK
<1>6. ASSUME NEW c \in Conns, AcceptConn(c) PROVE ActivationInv'
  BY <1>6 DEF AcceptConn, ActivationInv, ActivationOK
<1>7. ASSUME NEW c \in Conns, UpRelays(c) PROVE ActivationInv'
  <2>1. net[c] \in Seq(Lines) /\ stdin[c].lines \in Seq(Lines) /\ stdin[c] \in [lines : Seq(Lines), open : BOOLEAN]
    BY <1>0 DEF ActivationOK
  <2>2. stdin[c].lines \o net[c] \in Seq(Lines) /\ <<>> \in Seq(Lines)
    BY <2>1, ConcatProperties, EmptySeq
  <2> HIDE DEF Lines
  <2>3. net' = [net EXCEPT ![c] = <<>>] /\ UNCHANGED taskVars
    BY <1>7 DEF UpRelays
  <2>4. \/ stdin' = [stdin EXCEPT ![c].open = FALSE]
        \/ stdin' = [stdin EXCEPT ![c].lines = @ \o net[c]]
    BY <1>7 DEF UpRelays, UpEnds
  <2>5. stdin'[c] \in [lines : Seq(Lines), open : BOOLEAN]
        /\ DOMAIN stdin' = Conns /\ \A d \in Conns \ {c} : stdin'[d] = stdin[d]
    <3>1. CASE stdin' = [stdin EXCEPT ![c].open = FALSE]
      BY <2>1, <3>1 DEF ActivationInv
    <3>2. CASE stdin' = [stdin EXCEPT ![c].lines = @ \o net[c]]
      BY <2>1, <2>2, <3>2 DEF ActivationInv
    <3> QED BY <2>4, <3>1, <3>2
  <2> QED BY <1>0, <2>2, <2>3, <2>5 DEF ActivationInv, ActivationOK
<1>8. ASSUME NEW c \in Conns, UpSeesEnd(c) PROVE ActivationInv'
  <2> HIDE DEF Lines
  <2>1. stdin' = [stdin EXCEPT ![c].open = FALSE] /\ UNCHANGED <<taskVars, net>>
    BY <1>8 DEF UpSeesEnd, UpEnds
  <2>2. stdin[c] \in [lines : Seq(Lines), open : BOOLEAN]
    BY <1>0 DEF ActivationOK
  <2>3. stdin'[c] \in [lines : Seq(Lines), open : BOOLEAN]
        /\ DOMAIN stdin' = Conns /\ \A d \in Conns \ {c} : stdin'[d] = stdin[d]
    BY <2>1, <2>2 DEF ActivationInv
  <2> QED BY <1>0, <2>1, <2>3 DEF ActivationInv, ActivationOK
<1>9. ASSUME NEW c \in Conns, Sends(c) PROVE ActivationInv'
  <2>1. PICK line \in Lines : net' = [net EXCEPT ![c] = <<line>>]
    BY <1>9, Zenon DEF Sends, Lines
  <2>2. <<line>> \in Seq(Lines)
    OBVIOUS
  <2> HIDE DEF Lines
  <2>3. UNCHANGED <<taskVars, stdin>>
    BY <1>9 DEF Sends
  <2> QED BY <2>1, <2>2, <2>3 DEF ActivationInv, ActivationOK
<1>10. ASSUME NEW c \in Conns, DownReads(c) \/ DownSends(c) \/ DownEnds(c) \/ CloseConn(c) \/ Leaves(c)
       PROVE  ActivationInv'
  <2>1. UNCHANGED <<taskVars, net, stdin>>
    BY <1>10 DEF DownReads, DownSends, DownEnds, CloseConn, Leaves
  <2> QED BY <2>1 DEF ActivationInv, ActivationOK
<1> QED
  BY <1>1, <1>2, <1>3, <1>4, <1>5, <1>6, <1>7, <1>8, <1>9, <1>10, Zenon
     DEF ActivationNext, ServerGoesOn, RelayGoesOn

\* FlagForEvaluations for any number of connections and rounds, any table, digits, moduli and
\* key, whatever masks and noise within the bound the answers have: the flag is for a client
\* that has answered every round, and no right answer is called wrong.
THEOREM FlagsForEvaluations == ActivationSpec => []FlagForEvaluations
<1>1. ActivationInv => FlagForEvaluations
  BY DEF ActivationInv, ActivationOK, FlagForEvaluations
<1> QED
  BY ActivationStarts, ActivationGoesOn, <1>1, PTL DEF ActivationSpec

-----------------------------------------------------------------------------
(* The team flags: what the decoder makes of what an encoder made.          *)

Services == {"speedrun", "netshare"}
Bytes == [1..8 -> Byte]
Pairs == [1..2 -> Word]
FullKeys == [1..4 -> Word]

LEMMA Sizes ==
    /\ ByteBits \in Nat \ {0} /\ ByteSize \in Nat \ {0} /\ WordSize \in Nat \ {0}
    /\ IdSize \in Nat \ {0}
    /\ WordSize = PowerOf(ByteSize, 4) /\ IdSize = PowerOf(ByteSize, 8)
    /\ Byte \subseteq Word /\ Word \subseteq Int
<1>1. PICK b \in Nat \ {0} : b = ByteBits
  BY TeamFlagsAssumption
<1>2. PICK p \in Nat \ {0} : p = ByteSize /\ p = PowerOf(2, b)
  BY <1>1, PowerIsPositive DEF ByteSize
<1>3. WordSize = PowerOf(p, 4)
  BY <1>1, <1>2, FourDigits DEF WordSize
<1>4. IdSize = PowerOf(p, 8)
  BY <1>1, <1>2, EightDigits DEF IdSize
<1>5. WordSize \in Nat \ {0} /\ IdSize \in Nat \ {0}
  BY <1>3, <1>4, PowerIsPositive, 4 \in Nat, 8 \in Nat
<1>6. p <= WordSize
  <2>1. PICK c \in Nat : PowerOf(p, 3) = c + 1
    <3>1. PowerOf(p, 3) \in Nat \ {0}
      BY PowerIsPositive, 3 \in Nat
    <3>2. PowerOf(p, 3) = (PowerOf(p, 3) - 1) + 1 /\ PowerOf(p, 3) - 1 \in Nat
      BY <3>1
    <3> QED BY <3>2
  <2>2. PowerOf(p, 1 + 3) = PowerOf(p, 1) * PowerOf(p, 3)
    BY PowersMultiply, 1 \in Nat, 3 \in Nat
  <2>3. PowerOf(p, 4) = p * (c + 1)
    BY <2>1, <2>2, PowerOfOne
  <2>4. PICK pc \in Nat : pc = p * c
    OBVIOUS
  <2>5. p * (c + 1) = pc + p
    BY <2>4
  <2> QED BY <1>3, <2>3, <2>5
<1>7. Byte \subseteq Word /\ Word \subseteq Int
  BY <1>2, <1>5, <1>6 DEF Byte, Word
<1> QED
  BY <1>1, <1>2, <1>3, <1>4, <1>5, <1>7

LEMMA WordsOverflow ==
    ASSUME NEW a \in Int
    PROVE  a % WordSize \in Word /\ (a \in Word => a % WordSize = a)
<1>1. PICK w \in Nat \ {0} : w = WordSize
  BY Sizes
<1>2. a % w \in 0..(w - 1)
  BY Division
<1>3. a \in 0..(w - 1) => a % w = a
  <2>1. SUFFICES ASSUME a \in 0..(w - 1) PROVE a % w = a
    OBVIOUS
  <2>2. (0 * w + a) % w = a
    BY <2>1, Quotient, 0 \in Int, Zenon
  <2>3. 0 * w + a = a
    OBVIOUS
  <2> QED BY <2>2, <2>3, Zenon
<1> QED
  BY <1>1, <1>2, <1>3 DEF Word

\* Exclusive or of words.
LEMMA XorOfWords ==
    ASSUME NEW a \in Int, NEW b \in Int
    PROVE  /\ WordXor(a, b) \in Word
           /\ WordXor(a, b) = BitXor(a % WordSize, b % WordSize, 4 * ByteBits)
<1>1. PICK x \in Word, y \in Word : x = a % WordSize /\ y = b % WordSize
  BY WordsOverflow
<1>2. WordXor(a, b) = BitXor(x, y, 4 * ByteBits)
  BY <1>1 DEF WordXor, XorTable
<1>3. BitXor(x, y, 4 * ByteBits) \in Word
  <2>1. 4 * ByteBits \in Nat /\ x \in Int /\ y \in Int
    BY Sizes
  <2>2. BitXor(x, y, 4 * ByteBits) \in 0..(PowerOf(2, 4 * ByteBits) - 1)
    BY <2>1, XorInRange
  <2> QED BY <2>2, Zenon DEF Word, WordSize
<1> QED
  BY <1>1, <1>2, <1>3

LEMMA XorUndone ==
    ASSUME NEW a \in Word, NEW b \in Word
    PROVE  WordXor(WordXor(a, b), b) = a /\ WordXor(b, WordXor(b, a)) = a
<1>1. PICK n \in Nat : n = 4 * ByteBits
  BY Sizes
<1>2. \A x, y \in Word : WordXor(x, y) \in Word /\ WordXor(x, y) = BitXor(x, y, n)
  <2>1. ASSUME NEW x \in Word, NEW y \in Word
        PROVE  WordXor(x, y) \in Word /\ WordXor(x, y) = BitXor(x, y, n)
    <3>1. x \in Int /\ y \in Int
      BY Sizes
    <3>2. x % WordSize = x /\ y % WordSize = y
      BY <3>1, WordsOverflow
    <3> QED BY <1>1, <3>1, <3>2, XorOfWords
  <2> QED BY <2>1
<1>3. a \in 0..(PowerOf(2, n) - 1) /\ a \in Int /\ b \in Int
  BY <1>1, Sizes DEF Word, WordSize
<1>4. BitXor(BitXor(a, b, n), b, n) = a
  BY <1>3, XorCancels
<1>5. PICK c \in Word : c = WordXor(a, b) /\ c = BitXor(a, b, n) /\ c \in Int
  BY <1>2, Sizes
<1>6. WordXor(b, a) = c
  BY <1>2, <1>3, <1>5, XorCommutes
<1>7. BitXor(b, c, n) = BitXor(c, b, n)
  BY <1>3, <1>5, XorCommutes
<1> QED
  BY <1>2, <1>4, <1>5, <1>6, <1>7

\* Whatever the mixing function computes, it is a number.
LEMMA MxIsInt ==
    ASSUME NEW sum \in Int, NEW y \in Int, NEW z \in Int, NEW p \in {0, 1}, NEW k \in FullKeys
    PROVE  Mx(sum, y, z, p, k) \in Int
<1>1. PICK e : e = BitXor(p % 4, (sum \div 4) % 4, 2)
  OBVIOUS
<1>2. 1 + e \in 1..4
  <2>1. p % 4 \in Int /\ (sum \div 4) % 4 \in Int /\ 2 \in Nat /\ 1 \in Nat /\ 2 \in Nat \ {0}
    OBVIOUS
  <2>2. e \in 0..(PowerOf(2, 2) - 1)
    BY <1>1, <2>1, XorInRange
  <2>3. PowerOf(2, 1 + 1) = 2 * 2
    BY <2>1, PowersMultiply, PowerOfOne
  <2> QED BY <2>2, <2>3
<1>3. \A a, b \in Int : WordXor(a, b) \in Int
  BY XorOfWords, Sizes
<1>4. k[1 + e] \in Int
  BY <1>2, Sizes DEF FullKeys
<1>5. PICK a \in Int, b \in Int : a = WordXor(z \div 32, y * 4) /\ b = WordXor(y \div 8, z * 16)
  <2>1. z \div 32 \in Int /\ y * 4 \in Int /\ y \div 8 \in Int /\ z * 16 \in Int
    OBVIOUS
  <2> QED BY <1>3, <2>1
<1>6. PICK c \in Int, d \in Int : c = WordXor(sum, y) /\ d = WordXor(k[1 + e], z)
  BY <1>3, <1>4
<1>7. Mx(sum, y, z, p, k) = WordXor(a + b, c + d)
  BY <1>1, <1>5, <1>6, Zenon DEF Mx
<1>8. a + b \in Int /\ c + d \in Int
  OBVIOUS
<1> QED
  BY <1>3, <1>7, <1>8

LEMMA AddedAndTaken ==
    ASSUME NEW a \in Word, NEW m \in Int
    PROVE  (((a + m) % WordSize) - m) % WordSize = a
<1>1. PICK w \in Nat \ {0} : w = WordSize
  BY Sizes
<1>2. a \in Int /\ a \in 0..(w - 1)
  BY <1>1, Sizes DEF Word
<1>3. PICK x \in Int : x = a + m
  BY <1>2
<1>4. PICK q \in Int, k \in Int : q = x \div w /\ k = x % w /\ x = q * w + k
  <2>1. x \div w \in Int /\ x % w \in 0..(w - 1) /\ x = (x \div w) * w + (x % w)
    BY Division
  <2> QED BY <2>1
<1>5. PICK t \in Int : t = -q
  OBVIOUS
<1>6. k - m = t * w + a
  <2>1. t * w = -(q * w)
    BY <1>5
  <2>2. PICK qw \in Int : qw = q * w
    OBVIOUS
  <2> QED BY <1>2, <1>3, <1>4, <2>1, <2>2
<1>7. (t * w + a) % w = a
  BY <1>2, Quotient, Zenon
<1> QED
  BY <1>1, <1>3, <1>4, <1>6, <1>7

\* A round of the decryption undoes one of the encryption.
LEMMA RoundUndone ==
    ASSUME NEW v \in Pairs, NEW sum \in Int, NEW k \in FullKeys
    PROVE  /\ MixWords(v, sum, k) \in Pairs
           /\ UnmixWords(MixWords(v, sum, k), sum, k) = v
<1>1. PICK a \in Word, b \in Word : a = v[1] /\ b = v[2]
  BY DEF Pairs
<1>2. \A x \in Word, m \in Int : (x + m) % WordSize \in Word
  <2>1. \A x \in Word, m \in Int : x + m \in Int
    BY Sizes
  <2> QED BY <2>1, WordsOverflow
<1>3. a \in Int /\ b \in Int
  BY Sizes
<1>4. PICK m \in Int : m = Mx(sum, b, b, 0, k)
  BY <1>3, MxIsInt
<1>5. PICK c \in Word : c = (a + m) % WordSize
  BY <1>2
<1>6. PICK o \in Int : o = Mx(sum, c, c, 1, k)
  <2>1. c \in Int
    BY Sizes
  <2> QED BY <2>1, MxIsInt
<1>7. PICK d \in Word : d = (b + o) % WordSize
  BY <1>2
<1>8. MixWords(v, sum, k) = <<c, d>>
  BY <1>1, <1>4, <1>5, <1>6, <1>7, Zenon DEF MixWords
<1>9. <<c, d>>[1] = c /\ <<c, d>>[2] = d
  OBVIOUS
<1>10. (d - o) % WordSize = b /\ (c - m) % WordSize = a
  BY <1>5, <1>7, AddedAndTaken, Zenon
<1>11. UnmixWords(<<c, d>>, sum, k) = <<a, b>>
  BY <1>4, <1>6, <1>9, <1>10, Zenon DEF UnmixWords
<1>12. v = <<a, b>> /\ <<c, d>> \in Pairs
  BY <1>1 DEF Pairs
<1> QED
  BY <1>8, <1>11, <1>12, Zenon

\* The loop that carries z over goes through the same words.
LEMMA RoundCarried ==
    ASSUME NEW v \in Pairs, NEW sum \in Int, NEW k \in FullKeys
    PROVE  MixWord(MixWord([v |-> v, z |-> v[2]], sum, 0, k), sum, 1, k)
               = [v |-> MixWords(v, sum, k), z |-> MixWords(v, sum, k)[2]]
<1>1. PICK a \in Word, b \in Word : a = v[1] /\ b = v[2]
  BY DEF Pairs
<1>2. v = <<a, b>>
  BY <1>1 DEF Pairs
<1>3. PICK c : c = (a + Mx(sum, b, b, 0, k)) % WordSize
  OBVIOUS
<1>4. PICK d : d = (b + Mx(sum, c, c, 1, k)) % WordSize
  OBVIOUS
<1>5. MixWords(v, sum, k) = <<c, d>>
  BY <1>1, <1>3, <1>4, Zenon DEF MixWords
<1>6. PICK st : st = [v |-> <<a, b>>, z |-> b]
  OBVIOUS
<1>7. st.v = <<a, b>> /\ st.z = b
  BY <1>6
<1>8. PICK half : half = [v |-> <<c, b>>, z |-> c]
  OBVIOUS
<1>9. half.v = <<c, b>> /\ half.z = c
  BY <1>8
<1>10. MixWord(st, sum, 0, k) = half
  <2>1. 0 + 1 = 1 /\ 2 - 0 = 2 /\ <<a, b>>[1] = a /\ <<a, b>>[2] = b
        /\ [<<a, b>> EXCEPT ![1] = c] = <<c, b>>
    OBVIOUS
  <2>2. (st.v[0 + 1] + Mx(sum, st.v[2 - 0], st.z, 0, k)) % WordSize = c
    BY <1>3, <1>7, <2>1, Zenon
  <2>3. [st.v EXCEPT ![0 + 1] = c] = <<c, b>>
    BY <1>7, <2>1, Zenon
  <2> QED BY <1>8, <2>2, <2>3, Zenon DEF MixWord
<1>11. MixWord(half, sum, 1, k) = [v |-> <<c, d>>, z |-> d]
  <2>1. 1 + 1 = 2 /\ 2 - 1 = 1 /\ <<c, b>>[1] = c /\ <<c, b>>[2] = b
        /\ [<<c, b>> EXCEPT ![2] = d] = <<c, d>>
    OBVIOUS
  <2>2. (half.v[1 + 1] + Mx(sum, half.v[2 - 1], half.z, 1, k)) % WordSize = d
    BY <1>4, <1>9, <2>1, Zenon
  <2>3. [half.v EXCEPT ![1 + 1] = d] = <<c, d>>
    BY <1>9, <2>1, Zenon
  <2> QED BY <2>2, <2>3, Zenon DEF MixWord
<1>12. <<c, d>>[2] = d
  OBVIOUS
<1> QED
  BY <1>1, <1>2, <1>5, <1>6, <1>10, <1>11, <1>12, Zenon

\* Words and their bytes determine one another.
LEMMA BytesOfWords ==
    ASSUME NEW v \in Pairs
    PROVE  ToBytes(v) \in Bytes /\ ToWords(ToBytes(v)) = v
<1>1. PICK p \in Nat \ {0} : p = ByteSize /\ Word = 0..(PowerOf(p, 4) - 1) /\ Byte = 0..(p - 1)
  BY Sizes DEF Word, Byte
<1>2. PICK d : d = [w \in 1..2 |-> DigitsOf(v[w], p, 4)]
  OBVIOUS
<1>3. \A w \in 1..2 : d[w] \in [1..4 -> Byte] /\ ValueOf(d[w], p) = v[w]
  <2>1. ASSUME NEW w \in 1..2
        PROVE  d[w] \in [1..4 -> Byte] /\ ValueOf(d[w], p) = v[w]
    <3>1. v[w] \in Int /\ v[w] \in 0..(PowerOf(p, 4) - 1) /\ 4 \in Nat
      BY <1>1, Sizes DEF Pairs
    <3>2. DigitsOf(v[w], p, 4) \in [1..4 -> 0..(p - 1)]
      BY <3>1, DigitsInRange
    <3>3. ValueOf(DigitsOf(v[w], p, 4), p) = v[w]
      BY <3>1, ValueOfDigits
    <3>4. d[w] = DigitsOf(v[w], p, 4)
      BY <1>2
    <3> QED BY <1>1, <3>2, <3>3, <3>4
  <2> QED BY <2>1
<1>4. \A i \in 1..8 : 1 + (i - 1) \div 4 \in 1..2 /\ 1 + ((i - 1) % 4) \in 1..4
  OBVIOUS
<1>5. ToBytes(v) = [i \in 1..8 |-> d[1 + (i - 1) \div 4][1 + ((i - 1) % 4)]]
  <2>1. \A i \in 1..8 : d[1 + (i - 1) \div 4] = DigitsOf(v[1 + (i - 1) \div 4], p, 4)
    BY <1>2, <1>4
  <2> QED BY <1>1, <2>1, Zenon DEF ToBytes
<1>6. ToBytes(v) \in Bytes
  <2>1. \A i \in 1..8 : d[1 + (i - 1) \div 4][1 + ((i - 1) % 4)] \in Byte
    BY <1>3, <1>4
  <2> QED BY <1>5, <2>1, Zenon DEF Bytes
<1>7. \A w \in 1..2 : [i \in 1..4 |-> ToBytes(v)[4 * (w - 1) + i]] = d[w]
  <2>1. ASSUME NEW w \in 1..2 PROVE [i \in 1..4 |-> ToBytes(v)[4 * (w - 1) + i]] = d[w]
    <3>1. \A i \in 1..4 : /\ 4 * (w - 1) + i \in 1..8
                          /\ 1 + ((4 * (w - 1) + i) - 1) \div 4 = w
                          /\ 1 + (((4 * (w - 1) + i) - 1) % 4) = i
      <4>1. w = 1 \/ w = 2
        OBVIOUS
      <4> QED BY <4>1
    <3>2. \A i \in 1..4 : ToBytes(v)[4 * (w - 1) + i] = d[w][i]
      BY <1>5, <3>1
    <3>3. d[w] \in [1..4 -> Byte]
      BY <1>3
    <3> QED BY <3>2, <3>3
  <2> QED BY <2>1
<1>8. ToWords(ToBytes(v)) = [w \in 1..2 |-> v[w]]
  <2>1. \A w \in 1..2 : ValueOf([i \in 1..4 |-> ToBytes(v)[4 * (w - 1) + i]], ByteSize) = v[w]
    BY <1>1, <1>3, <1>7, Zenon
  <2> QED BY <2>1, Zenon DEF ToWords
<1>9. v = [w \in 1..2 |-> v[w]]
  BY DEF Pairs
<1> QED
  BY <1>6, <1>8, <1>9

LEMMA WordsOfBytes ==
    ASSUME NEW b \in Bytes
    PROVE  ToWords(b) \in Pairs /\ ToBytes(ToWords(b)) = b
<1>1. PICK p \in Nat \ {0} : p = ByteSize /\ Word = 0..(PowerOf(p, 4) - 1) /\ Byte = 0..(p - 1)
  BY Sizes DEF Word, Byte
<1>2. PICK d : d = [w \in 1..2 |-> [i \in 1..4 |-> b[4 * (w - 1) + i]]]
  OBVIOUS
<1>3. \A w \in 1..2, i \in 1..4 : 4 * (w - 1) + i \in 1..8
  OBVIOUS
<1>4. \A w \in 1..2 : d[w] \in [1..4 -> Byte]
  <2>1. \A w \in 1..2, i \in 1..4 : b[4 * (w - 1) + i] \in Byte
    BY <1>3 DEF Bytes
  <2> QED BY <1>2, <2>1
<1>5. \A w \in 1..2 : ValueOf(d[w], p) \in Word /\ DigitsOf(ValueOf(d[w], p), p, 4) = d[w]
  <2>1. ASSUME NEW w \in 1..2
        PROVE  ValueOf(d[w], p) \in Word /\ DigitsOf(ValueOf(d[w], p), p, 4) = d[w]
    <3>1. d[w] \in [1..4 -> 0..(p - 1)] /\ 4 \in Nat
      BY <1>1, <1>4
    <3> QED BY <1>1, <3>1, ValueInRange, DigitsOfValue
  <2> QED BY <2>1
<1>6. ToWords(b) = [w \in 1..2 |-> ValueOf(d[w], p)]
  BY <1>1, <1>2 DEF ToWords
<1>7. ToWords(b) \in Pairs
  BY <1>5, <1>6 DEF Pairs
<1>8. \A i \in 1..8 : DigitsOf(ToWords(b)[1 + (i - 1) \div 4], p, 4)[1 + ((i - 1) % 4)] = b[i]
  <2>1. ASSUME NEW i \in 1..8
        PROVE  DigitsOf(ToWords(b)[1 + (i - 1) \div 4], p, 4)[1 + ((i - 1) % 4)] = b[i]
    <3>1. PICK w \in 1..2, j \in 1..4 :
              w = 1 + (i - 1) \div 4 /\ j = 1 + ((i - 1) % 4) /\ 4 * (w - 1) + j = i
      <4>1. 1 + (i - 1) \div 4 \in 1..2 /\ 1 + ((i - 1) % 4) \in 1..4
            /\ 4 * ((1 + (i - 1) \div 4) - 1) + (1 + ((i - 1) % 4)) = i
        OBVIOUS
      <4> QED BY <4>1
    <3>2. DigitsOf(ToWords(b)[w], p, 4) = d[w]
      BY <1>5, <1>6
    <3>3. d[w][j] = b[4 * (w - 1) + j]
      BY <1>2
    <3> QED BY <3>1, <3>2, <3>3
  <2> QED BY <2>1
<1>9. b = [i \in 1..8 |-> b[i]]
  BY DEF Bytes
<1> QED
  BY <1>1, <1>7, <1>8, <1>9, Zenon DEF ToBytes

LEMMA KeysAndSums ==
    ASSUME NEW key \in Seq(Word), NEW q \in Int
    PROVE  FixK(key) \in FullKeys /\ SumAt(q) \in Int
<1>1. \A i \in 1..4 : (IF i <= Len(key) THEN key[i] ELSE 0) \in Word
  <2>1. 0 \in Word
    BY Sizes DEF Word
  <2>2. \A i \in 1..Len(key) : key[i] \in Word
    BY ElementOfSeq
  <2> QED BY <2>1, <2>2, LenProperties
<1>2. SumAt(q) \in Int
  <2>1. q * Delta \in Int
    BY Sizes, TeamFlagsAssumption
  <2>2. (q * Delta) % WordSize \in Word
    BY <2>1, WordsOverflow
  <2> QED BY <2>2, Sizes, Zenon DEF SumAt
<1> QED
  BY <1>1, <1>2 DEF FixK, FullKeys

\* The rounds of an encryption.
LEMMA EncryptionRuns ==
    ASSUME NEW b \in Bytes, NEW key \in Seq(Word), NEW n \in Nat, n = Cycles
    PROVE  \E f \in [0..n -> Pairs] :
               /\ f[0] = ToWords(b)
               /\ \A q \in 1..n : f[q] = MixWords(f[q - 1], SumAt(q), FixK(key))
               /\ XxteaEncrypt(b, key) = ToBytes(f[n])
<1> DEFINE Body(f) == f = [q \in 0..n |-> IF q = 0 THEN ToWords(b)
                                          ELSE MixWords(f[q - 1], SumAt(q), FixK(key))]
<1>1. ToWords(b) \in Pairs
  BY WordsOfBytes
<1>2. FixK(key) \in FullKeys /\ \A q \in 1..n : SumAt(q) \in Int
  BY KeysAndSums
<1>3. PICK turn \in [1..n -> [Pairs -> Pairs]] :
          \A q \in 1..n : \A v \in Pairs : turn[q][v] = MixWords(v, SumAt(q), FixK(key))
  <2>1. \A q \in 1..n : \A v \in Pairs : MixWords(v, SumAt(q), FixK(key)) \in Pairs
    BY <1>2, RoundUndone
  <2>2. [q \in 1..n |-> [v \in Pairs |-> MixWords(v, SumAt(q), FixK(key))]]
            \in [1..n -> [Pairs -> Pairs]]
    BY <2>1
  <2> QED BY <2>2
<1>4. \E f : Body(f)
  <2>1. PICK f : Runs(turn, n, ToWords(b), Pairs, f)
    BY <1>1, LoopRuns, Zenon
  <2>2. f \in [0..n -> Pairs] /\ f[0] = ToWords(b) /\ \A q \in 1..n : f[q] = turn[q][f[q - 1]]
    BY <2>1 DEF Runs
  <2>3. \A q \in 1..n : f[q - 1] \in Pairs
    BY <2>2
  <2>4. \A q \in 1..n : f[q] = MixWords(f[q - 1], SumAt(q), FixK(key))
    BY <1>3, <2>2, <2>3
  <2>5. f = [q \in 0..n |-> IF q = 0 THEN ToWords(b)
                            ELSE MixWords(f[q - 1], SumAt(q), FixK(key))]
    BY <2>2, <2>4
  <2> QED BY <2>5
<1>5. PICK f : f = (CHOOSE g : Body(g)) /\ Body(f)
  <2> HIDE DEF Body
  <2> QED BY <1>4
<1>6. XxteaEncrypt(b, key) = ToBytes(f[n])
  BY <1>5, Zenon DEF XxteaEncrypt
<1>7. f[0] = ToWords(b) /\ \A q \in 1..n : f[q] = MixWords(f[q - 1], SumAt(q), FixK(key))
  <2>1. f = [q \in 0..n |-> IF q = 0 THEN ToWords(b)
                            ELSE MixWords(f[q - 1], SumAt(q), FixK(key))]
    BY <1>5
  <2>2. \A q \in 1..n : q \in 0..n /\ q # 0
    OBVIOUS
  <2>3. f[0] = ToWords(b)
    BY ONLY <2>1, n \in Nat
  <2>4. \A q \in 1..n : f[q] = MixWords(f[q - 1], SumAt(q), FixK(key))
    BY ONLY <2>1, <2>2
  <2> QED BY ONLY <2>3, <2>4
<1>8. f \in [0..n -> Pairs]
  <2>1. \A q \in 1..n : f[q - 1] \in Pairs => f[q] = turn[q][f[q - 1]]
    BY <1>3, <1>7
  <2>2. f[0] \in Pairs
    BY <1>1, <1>7
  <2>3. \A q \in 0..n : f[q] \in Pairs
    BY ONLY <2>1, <2>2, n \in Nat, turn \in [1..n -> [Pairs -> Pairs]], LoopStays, Zenon
  <2>4. f = [q \in 0..n |-> f[q]]
    BY <1>5
  <2> QED BY ONLY <2>3, <2>4
<1> QED
  BY <1>6, <1>7, <1>8

\* The controller's encryption is the reference's.
LEMMA CarriedIsPlain ==
    ASSUME NEW b \in Bytes, NEW key \in Seq(Word)
    PROVE  XxteaEncryptCarried(b, key) = XxteaEncrypt(b, key)
<1>1. PICK n \in Nat : n = Cycles
  BY DEF Cycles
<1>2. PICK f \in [0..n -> Pairs] :
          /\ f[0] = ToWords(b)
          /\ \A q \in 1..n : f[q] = MixWords(f[q - 1], SumAt(q), FixK(key))
          /\ XxteaEncrypt(b, key) = ToBytes(f[n])
  BY <1>1, EncryptionRuns
<1> DEFINE First == [v |-> ToWords(b), z |-> ToWords(b)[2]]
           Turn(st, q) == MixWord(MixWord(st, SumAt(q), 0, FixK(key)), SumAt(q), 1, FixK(key))
           Body(g) == g = [q \in 0..n |-> IF q = 0 THEN First ELSE Turn(g[q - 1], q)]
           At(q) == [v |-> f[q], z |-> f[q][2]]
<1>3. \A q \in 1..n : Turn(At(q - 1), q) = At(q)
  <2>1. ASSUME NEW q \in 1..n PROVE Turn(At(q - 1), q) = At(q)
    <3>1. FixK(key) \in FullKeys /\ SumAt(q) \in Int
      BY KeysAndSums
    <3>2. f[q - 1] \in Pairs
      OBVIOUS
    <3>3. PICK v \in Pairs : v = f[q - 1]
      BY <3>2
    <3>4. MixWord(MixWord([v |-> v, z |-> v[2]], SumAt(q), 0, FixK(key)), SumAt(q), 1, FixK(key))
              = [v |-> MixWords(v, SumAt(q), FixK(key)), z |-> MixWords(v, SumAt(q), FixK(key))[2]]
      BY <3>1, RoundCarried
    <3>5. f[q] = MixWords(v, SumAt(q), FixK(key))
      BY <1>2, <3>3
    <3> QED BY <3>3, <3>4, <3>5, Zenon
  <2> QED BY <2>1
<1>4. At(0) = First
  BY <1>2, Zenon
<1> HIDE DEF First, Turn, At
<1>5. PICK g : g = (CHOOSE h : Body(h)) /\ Body(g)
  <2>1. PICK h : h = [q \in 0..n |-> At(q)]
    OBVIOUS
  <2>2. \A q \in 1..n : h[q - 1] = At(q - 1)
    BY <2>1
  <2>3. \A q \in 0..n : h[q] = IF q = 0 THEN First ELSE Turn(h[q - 1], q)
    <3>1. \A q \in 0..n : q = 0 \/ q \in 1..n
      OBVIOUS
    <3> QED BY <1>3, <1>4, <2>1, <2>2, <3>1, Zenon
  <2>4. Body(h)
    BY <2>1, <2>3
  <2> HIDE DEF Body
  <2> QED BY <2>4
<1>6. g[n] = At(n)
  <2> DEFINE S == {q \in 0..n : g[q] = At(q)}
  <2>1. 0 \in S
    <3>1. 0 \in 0..n
      OBVIOUS
    <3>2. g[0] = First
      BY <1>5, <3>1
    <3> QED BY <1>4, <3>1, <3>2
  <2>2. ASSUME NEW q \in 1..n, q - 1 \in S PROVE q \in S
    <3>1. q \in 0..n /\ q # 0
      OBVIOUS
    <3>2. g[q] = Turn(g[q - 1], q)
      BY <1>5, <3>1
    <3> QED BY <1>3, <2>2, <3>1, <3>2
  <2>3. \A q \in 0..n : q \in S
    <3> HIDE DEF S
    <3> QED BY <2>1, <2>2, AllAlong
  <2> QED BY <2>3
<1>7. XxteaEncryptCarried(b, key) = ToBytes(g[n].v)
  BY <1>1, <1>5, Zenon DEF XxteaEncryptCarried, First, Turn
<1>8. At(n).v = f[n]
  BY DEF At
<1> QED
  BY <1>2, <1>6, <1>7, <1>8, Zenon

\* Decryption goes back through the words of the encryption.
LEMMA DecryptsBack ==
    ASSUME NEW b \in Bytes, NEW key \in Seq(Word)
    PROVE  XxteaEncrypt(b, key) \in Bytes /\ XxteaDecrypt(XxteaEncrypt(b, key), key) = b
<1>1. PICK n \in Nat : n = Cycles
  BY DEF Cycles
<1>2. PICK f \in [0..n -> Pairs] :
          /\ f[0] = ToWords(b)
          /\ \A q \in 1..n : f[q] = MixWords(f[q - 1], SumAt(q), FixK(key))
          /\ XxteaEncrypt(b, key) = ToBytes(f[n])
  BY <1>1, EncryptionRuns
<1>3. PICK e : e = XxteaEncrypt(b, key)
  OBVIOUS
<1>4. e \in Bytes /\ ToWords(e) = f[n]
  BY <1>2, <1>3, BytesOfWords
<1> DEFINE Turn(v, q) == UnmixWords(v, SumAt(Cycles + 1 - q), FixK(key))
           Body(g) == g = [q \in 0..n |-> IF q = 0 THEN ToWords(e) ELSE Turn(g[q - 1], q)]
<1>5. \A q \in 1..n : Turn(f[n - (q - 1)], q) = f[n - q]
  <2>1. ASSUME NEW q \in 1..n PROVE Turn(f[n - (q - 1)], q) = f[n - q]
    <3>1. PICK m \in 1..n : m = n + 1 - q /\ m = n - (q - 1) /\ m - 1 = n - q
      <4>1. n + 1 - q \in 1..n /\ n + 1 - q = n - (q - 1) /\ (n + 1 - q) - 1 = n - q
        OBVIOUS
      <4> QED BY <4>1
    <3>2. FixK(key) \in FullKeys /\ SumAt(m) \in Int /\ f[m - 1] \in Pairs
      BY KeysAndSums
    <3>3. UnmixWords(MixWords(f[m - 1], SumAt(m), FixK(key)), SumAt(m), FixK(key)) = f[m - 1]
      BY <3>2, RoundUndone
    <3>4. f[m] = MixWords(f[m - 1], SumAt(m), FixK(key))
      BY <1>2
    <3> QED BY <1>1, <3>1, <3>3, <3>4, Zenon
  <2> QED BY <2>1
<1> HIDE DEF Turn
<1>6. PICK g : g = (CHOOSE h : Body(h)) /\ Body(g)
  <2>1. PICK h : h = [q \in 0..n |-> f[n - q]]
    OBVIOUS
  <2>2. \A q \in 1..n : h[q - 1] = f[n - (q - 1)]
    BY <2>1
  <2>3. \A q \in 0..n : h[q] = IF q = 0 THEN ToWords(e) ELSE Turn(h[q - 1], q)
    <3>1. \A q \in 0..n : q = 0 \/ q \in 1..n
      OBVIOUS
    <3>2. n - 0 = n
      OBVIOUS
    <3> QED BY <1>4, <1>5, <2>1, <2>2, <3>1, <3>2, Zenon
  <2>4. Body(h)
    BY <2>1, <2>3
  <2> HIDE DEF Body
  <2> QED BY <2>4
<1>7. g[n] = f[0]
  <2> DEFINE S == {q \in 0..n : g[q] = f[n - q]}
  <2>1. 0 \in S
    <3>1. 0 \in 0..n /\ n - 0 = n
      OBVIOUS
    <3>2. g[0] = ToWords(e)
      BY <1>6, <3>1
    <3> QED BY <1>4, <3>1, <3>2
  <2>2. ASSUME NEW q \in 1..n, q - 1 \in S PROVE q \in S
    <3>1. q \in 0..n /\ q # 0
      OBVIOUS
    <3>2. g[q] = Turn(g[q - 1], q)
      BY <1>6, <3>1
    <3> QED BY <1>5, <2>2, <3>1, <3>2
  <2>3. \A q \in 0..n : q \in S
    <3> HIDE DEF S
    <3> QED BY <2>1, <2>2, AllAlong
  <2>4. n \in 0..n /\ n - n = 0
    OBVIOUS
  <2> QED BY <2>3, <2>4
<1>8. XxteaDecrypt(e, key) = ToBytes(g[n])
  BY <1>1, <1>6, Zenon DEF XxteaDecrypt, Turn
<1>9. ToBytes(ToWords(b)) = b
  BY WordsOfBytes
<1> QED
  BY <1>2, <1>3, <1>4, <1>7, <1>8, <1>9, Zenon

\* The bytes of a team's number, negative and extreme ones included.
LEMMA NumbersPacked ==
    ASSUME NEW id \in Ids
    PROVE  Pack(id) \in Bytes /\ Unpack(Pack(id)) = id
<1>1. PICK p \in Nat \ {0}, s \in Nat \ {0} :
          p = ByteSize /\ s = IdSize /\ s = PowerOf(p, 8) /\ Byte = 0..(p - 1)
  BY Sizes DEF Byte
<1>2. PICK h \in Nat, o \in 0..1 : h = s \div 2 /\ s = h * 2 + o
  <2>1. s \div 2 \in Int /\ s % 2 \in 0..1 /\ s = (s \div 2) * 2 + (s % 2) /\ s \div 2 >= 0
    OBVIOUS
  <2> QED BY <2>1
<1>3. id \in Int /\ -h <= id /\ id < h
  BY <1>1, <1>2 DEF Ids
<1>4. PICK m \in 0..(s - 1) : m = id % s /\ m = IF id >= 0 THEN id ELSE id + s
  <2>1. CASE id >= 0
    <3>1. id \in 0..(s - 1) /\ 0 * s + id = id
      BY <1>2, <1>3, <2>1
    <3>2. (0 * s + id) % s = id
      BY <3>1, Quotient, 0 \in Int, Zenon
    <3> QED BY <2>1, <3>1, <3>2
  <2>2. CASE id < 0
    <3>1. id + s \in 0..(s - 1) /\ (-1) * s + (id + s) = id
      BY <1>2, <1>3, <2>2
    <3>2. ((-1) * s + (id + s)) % s = id + s
      BY <3>1, Quotient, -1 \in Int, Zenon
    <3>3. id % s = id + s /\ ~(id >= 0)
      BY <1>3, <2>2, <3>1, <3>2
    <3> QED BY <3>1, <3>3
  <2> QED BY <1>3, <2>1, <2>2
<1>5. Pack(id) = DigitsOf(m, p, 8) /\ m \in Int /\ m \in 0..(PowerOf(p, 8) - 1) /\ 8 \in Nat
  BY <1>1, <1>4 DEF Pack
<1>6. Pack(id) \in Bytes
  <2>1. DigitsOf(m, p, 8) \in [1..8 -> 0..(p - 1)]
    BY <1>5, DigitsInRange, Zenon
  <2> QED BY <1>1, <1>5, <2>1, Zenon DEF Bytes
<1>7. ValueOf(Pack(id), ByteSize) = m
  BY <1>1, <1>5, ValueOfDigits, Zenon
<1>8. Unpack(Pack(id)) = IF m >= h THEN m - s ELSE m
  BY <1>1, <1>2, <1>7, Zenon DEF Unpack
<1>9. (IF m >= h THEN m - s ELSE m) = id
  BY <1>2, <1>3, <1>4
<1> QED
  BY <1>6, <1>8, <1>9, Zenon

LEMMA SameEncoders ==
    ASSUME NEW s \in Services, NEW id \in Ids
    PROVE  FlagGenerate(s, id) = EncodeUuid(s, id)
<1>1. Pack(id) \in Bytes /\ KeyWords[s] \in Seq(Word)
  BY NumbersPacked, TeamFlagsAssumption DEF Services
<1>2. XxteaEncryptCarried(Pack(id), KeyWords[s]) = XxteaEncrypt(Pack(id), KeyWords[s])
  BY <1>1, CarriedIsPlain
<1> QED
  BY <1>2, Zenon DEF FlagGenerate, EncodeUuid

\* A flag says whose it is.
LEMMA FlagsDecode ==
    ASSUME NEW s \in Services, NEW id \in Ids
    PROVE  DecodeUuid(s, EncodeUuid(s, id)) = id
<1>1. PICK c, x, key : /\ c = Carrier[s] /\ x = Keystream[s] /\ key = KeyWords[s]
                       /\ c \in [1..16 -> Word] /\ x \in [1..16 -> Word] /\ key \in Seq(Word)
  <2>1. /\ Carrier[s] \in [1..16 -> Byte] /\ Keystream[s] \in [1..16 -> Byte]
        /\ KeyWords[s] \in Seq(Word)
    BY TeamFlagsAssumption DEF Services
  <2>2. Carrier[s] \in [1..16 -> Word] /\ Keystream[s] \in [1..16 -> Word]
    BY <2>1, Sizes
  <2> QED BY <2>1, <2>2
<1>2. PICK e : e = XxteaEncrypt(Pack(id), key) /\ e \in [1..8 -> Word] /\ XxteaDecrypt(e, key) = Pack(id)
  <2>1. Pack(id) \in Bytes
    BY NumbersPacked
  <2>2. XxteaEncrypt(Pack(id), key) \in Bytes /\ XxteaDecrypt(XxteaEncrypt(Pack(id), key), key) = Pack(id)
    BY <1>1, <2>1, DecryptsBack
  <2>3. Bytes \subseteq [1..8 -> Word]
    BY Sizes DEF Bytes
  <2> QED BY <2>2, <2>3
<1>3. PICK block : block = Embed(s, e)
  OBVIOUS
<1>4. /\ \A j \in 1..8 : block[2 * j] = WordXor(c[2 * j], e[j])
      /\ \A j \in {2, 4, 6, 8} : block[2 * j - 1] = c[2 * j - 1]
  <2>1. block = [i \in 1..16 |-> IF i % 2 = 0 THEN WordXor(c[i], e[i \div 2]) ELSE c[i]]
    BY <1>1, <1>3, Zenon DEF Embed
  <2>2. \A j \in 1..8 : 2 * j \in 1..16 /\ (2 * j) % 2 = 0 /\ (2 * j) \div 2 = j
    OBVIOUS
  <2>3. \A j \in {2, 4, 6, 8} : 2 * j - 1 \in 1..16 /\ (2 * j - 1) % 2 # 0
    OBVIOUS
  <2>4. \A j \in 1..8 : block[2 * j] = WordXor(c[2 * j], e[j])
    BY ONLY <2>1, <2>2
  <2>5. \A j \in {2, 4, 6, 8} : block[2 * j - 1] = c[2 * j - 1]
    BY ONLY <2>1, <2>3
  <2> QED BY <2>4, <2>5
<1>5. \A i \in 1..16 : block[i] \in Word
  <2>1. block = [i \in 1..16 |-> IF i % 2 = 0 THEN WordXor(c[i], e[i \div 2]) ELSE c[i]]
    BY <1>1, <1>3, Zenon DEF Embed
  <2>2. ASSUME NEW i \in 1..16, i % 2 = 0 PROVE WordXor(c[i], e[i \div 2]) \in Word
    <3>1. i \div 2 \in 1..8
      BY <2>2
    <3>2. c[i] \in Int /\ e[i \div 2] \in Int
      BY <1>1, <1>2, <3>1, Sizes
    <3> QED BY <3>2, XorOfWords
  <2>3. \A i \in 1..16 : c[i] \in Word
    BY <1>1
  <2> QED BY ONLY <2>1, <2>2, <2>3
<1>6. PICK flag : flag = EncodeUuid(s, id) /\ flag = [i \in 1..16 |-> WordXor(block[i], x[i])]
  BY <1>1, <1>2, <1>3, Zenon DEF EncodeUuid, Diffuse
<1>7. PICK back : back = Diffuse(s, flag) /\ \A i \in 1..16 : back[i] = block[i]
  <2>1. Diffuse(s, flag) = [i \in 1..16 |-> WordXor(flag[i], x[i])]
    BY <1>1, Zenon DEF Diffuse
  <2>2. \A i \in 1..16 : WordXor(WordXor(block[i], x[i]), x[i]) = block[i]
    <3>1. \A i \in 1..16 : x[i] \in Word
      BY <1>1
    <3> QED BY <1>5, <3>1, XorUndone
  <2>3. \A i \in 1..16 : Diffuse(s, flag)[i] = block[i]
    BY <1>6, <2>1, <2>2, Zenon
  <2> QED BY <2>3
<1>8. ~Broken(s, flag)
  <2>1. \A j \in {2, 4, 6, 8} : 2 * j - 1 \in 1..16
    OBVIOUS
  <2> QED BY <1>1, <1>4, <1>7, <2>1, Zenon DEF Broken
<1>9. [i \in 1..8 |-> WordXor(Carrier[s][2 * i], back[2 * i])] = e
  <2>1. \A i \in 1..8 : 2 * i \in 1..16
    OBVIOUS
  <2>2. \A i \in 1..8 : c[2 * i] \in Word /\ e[i] \in Word
    BY <1>1, <1>2, <2>1
  <2>3. \A i \in 1..8 : WordXor(c[2 * i], WordXor(c[2 * i], e[i])) = e[i]
    BY <2>2, XorUndone
  <2>4. \A i \in 1..8 : WordXor(Carrier[s][2 * i], back[2 * i]) = e[i]
    BY <1>1, <1>4, <1>7, <2>1, <2>3, Zenon
  <2> QED BY <1>2, <2>4
<1>10. DecodeUuid(s, flag) = Unpack(XxteaDecrypt(e, key))
  BY <1>1, <1>7, <1>8, <1>9, Zenon DEF DecodeUuid
<1> QED
  BY <1>2, <1>6, <1>10, NumbersPacked, Zenon

-----------------------------------------------------------------------------
(* The team flags: the two services that hand them out.                     *)

Holders == Checkers \cup Clusters
FlagsMade == {EncodeUuid(s, id) : s \in Services, id \in Ids}

FlagTypes ==
    /\ stage \in [Holders -> {"start", "token", "code", "team", "inject", "done"}]
    /\ team \in [Holders -> Int \cup {NoTeam}]
    /\ issued \in [Holders -> FlagsMade \cup {<<>>}]
    /\ code \in [Holders -> TypedCodes \cup {NoTeam}]

\* A connection stays in its own service, a number that is injected fits into the bytes,
\* and a flag that was handed out is the last thing its connection did.
HolderInv(c) ==
    /\ stage[c] \in IF c \in Checkers THEN {"start", "token", "code", "done"}
                    ELSE {"team", "inject", "done"}
    /\ stage[c] = "inject" => team[c] \in Ids
    /\ issued[c] # <<>> =>
          /\ stage[c] = "done" /\ team[c] \in Ids
          /\ issued[c] = EncodeUuid(ServiceOf(c), team[c])
          /\ c \in Checkers => code[c] \in CodeFile

FlagsInv == FlagTypes /\ \A c \in Holders : HolderInv(c)

LEMMA ServiceKnown == \A c : ServiceOf(c) \in Services
BY DEF ServiceOf, Services

LEMMA FlagsStart == FlagsInit => FlagsInv
<1>1. SUFFICES ASSUME FlagsInit PROVE FlagsInv
  OBVIOUS
<1>2. FlagTypes
  BY <1>1 DEF FlagsInit, FlagTypes, Holders
<1>3. ASSUME NEW c \in Holders PROVE HolderInv(c)
  BY <1>1, <1>3 DEF FlagsInit, HolderInv, Holders
<1> QED
  BY <1>2, <1>3 DEF FlagsInv

\* What a step does to the connection that takes it; the others keep all.
LEMMA OneHolder ==
    ASSUME FlagsInv, NEW c \in Holders,
           NEW st \in {"start", "token", "code", "team", "inject", "done"},
           NEW tm \in Int \cup {NoTeam}, NEW fl \in FlagsMade \cup {<<>>},
           NEW cd \in TypedCodes \cup {NoTeam},
           stage' = [stage EXCEPT ![c] = st], team' = [team EXCEPT ![c] = tm],
           issued' = [issued EXCEPT ![c] = fl], code' = [code EXCEPT ![c] = cd],
           st \in IF c \in Checkers THEN {"start", "token", "code", "done"}
                  ELSE {"team", "inject", "done"},
           st = "inject" => tm \in Ids,
           fl # <<>> => /\ st = "done" /\ tm \in Ids /\ fl = EncodeUuid(ServiceOf(c), tm)
                        /\ c \in Checkers => cd \in CodeFile
    PROVE  FlagsInv'
<1>1. FlagTypes
  BY DEF FlagsInv
<1>2. FlagTypes'
  BY <1>1 DEF FlagTypes
<1>3. stage'[c] = st /\ team'[c] = tm /\ issued'[c] = fl /\ code'[c] = cd
  BY <1>1 DEF FlagTypes
<1>4. \A d \in Holders \ {c} : /\ stage'[d] = stage[d] /\ team'[d] = team[d]
                               /\ issued'[d] = issued[d] /\ code'[d] = code[d]
  BY <1>1 DEF FlagTypes
<1>5. HolderInv(c)'
  BY <1>3 DEF HolderInv, ServiceOf
<1>6. ASSUME NEW d \in Holders \ {c} PROVE HolderInv(d)'
  <2>1. HolderInv(d)
    BY <1>6 DEF FlagsInv
  <2> QED BY <1>4, <2>1, Zenon DEF HolderInv, ServiceOf
<1> QED
  BY <1>2, <1>5, <1>6 DEF FlagsInv

LEMMA FlagsGoOn == FlagsInv /\ [FlagsNext]_flagVars => FlagsInv'
<1>1. SUFFICES ASSUME FlagsInv, [FlagsNext]_flagVars PROVE FlagsInv'
  OBVIOUS
<1>2. CASE UNCHANGED flagVars
  BY <1>1, <1>2 DEF FlagsInv, FlagTypes, HolderInv, ServiceOf, flagVars
<1>3. ASSUME NEW c \in Holders,
             \/ CheckerFails(c) \/ LoadCodes(c) \/ QueryTeamId(c) \/ NoTeamId(c)
             \/ WrongCode(c) \/ RightCode(c) \/ CheckerEnds(c)
             \/ ReadTeamId(c) \/ InvalidTeamId(c) \/ InjectServiceAssertion(c) \/ ClusterFails(c)
      PROVE  FlagsInv'
  <2>1. /\ FlagTypes /\ HolderInv(c)
        /\ team[c] \in Int \cup {NoTeam} /\ issued[c] \in FlagsMade \cup {<<>>}
        /\ code[c] \in TypedCodes \cup {NoTeam}
        /\ team = [team EXCEPT ![c] = team[c]] /\ issued = [issued EXCEPT ![c] = issued[c]]
        /\ code = [code EXCEPT ![c] = code[c]]
    BY <1>1 DEF FlagsInv, FlagTypes
  <2>2. stage[c] # "done" => issued[c] = <<>>
    BY <2>1 DEF HolderInv
  <2>3. CASE CheckerFails(c) \/ NoTeamId(c) \/ CheckerEnds(c) \/ InvalidTeamId(c) \/ ClusterFails(c)
    <3>1. /\ stage' = [stage EXCEPT ![c] = "done"] /\ UNCHANGED <<team, issued, code>>
          /\ issued[c] = <<>>
      BY <2>2, <2>3 DEF CheckerFails, NoTeamId, CheckerEnds, InvalidTeamId, ClusterFails, Done
    <3> QED BY <1>1, <2>1, <3>1, OneHolder, ZenonT(60)
  <2>4. CASE LoadCodes(c)
    <3>1. /\ stage' = [stage EXCEPT ![c] = "token"] /\ UNCHANGED <<team, issued, code>>
          /\ issued[c] = <<>> /\ c \in Checkers
      BY <2>1, <2>2, <2>4 DEF LoadCodes, HolderInv
    <3> QED BY <1>1, <2>1, <3>1, OneHolder, ZenonT(60)
  <2>5. CASE QueryTeamId(c)
    <3>1. PICK k \in Tokens : team' = [team EXCEPT ![c] = TeamOf[k]]
      BY <2>5 DEF QueryTeamId
    <3>2. /\ stage' = [stage EXCEPT ![c] = "code"] /\ UNCHANGED <<issued, code>>
          /\ issued[c] = <<>> /\ c \in Checkers
      BY <2>1, <2>2, <2>5 DEF QueryTeamId, HolderInv
    <3>3. TeamOf[k] \in Int \cup {NoTeam}
      BY TeamFlagsAssumption
    <3> QED BY <1>1, <2>1, <3>1, <3>2, <3>3, OneHolder, ZenonT(60)
  <2>6. CASE WrongCode(c)
    <3>1. PICK k \in TypedCodes : code' = [code EXCEPT ![c] = k]
      BY <2>6 DEF WrongCode
    <3>2. /\ stage' = [stage EXCEPT ![c] = "done"] /\ UNCHANGED <<team, issued>> /\ issued[c] = <<>>
      BY <2>2, <2>6 DEF WrongCode, Done
    <3> QED BY <1>1, <2>1, <3>1, <3>2, OneHolder, ZenonT(60)
  <2>7. CASE RightCode(c)
    <3>1. PICK k \in TypedCodes : k \in CodeFile /\ code' = [code EXCEPT ![c] = k]
      BY <2>7 DEF RightCode
    <3>2. /\ stage' = [stage EXCEPT ![c] = "done"] /\ UNCHANGED team /\ issued[c] = <<>>
          /\ c \in Checkers
          /\ issued' = IF team[c] \in Ids
                       THEN [issued EXCEPT ![c] = EncodeUuid("speedrun", team[c])] ELSE issued
      BY <2>1, <2>2, <2>7 DEF RightCode, Done, HolderInv
    <3>3. CASE team[c] \in Ids
      <4>1. PICK fl : fl = EncodeUuid("speedrun", team[c])
        OBVIOUS
      <4>2. fl \in FlagsMade /\ fl = EncodeUuid(ServiceOf(c), team[c])
        BY <3>2, <3>3, <4>1 DEF FlagsMade, Services, ServiceOf
      <4>3. issued' = [issued EXCEPT ![c] = fl]
        BY <3>2, <3>3, <4>1
      <4> QED BY <1>1, <2>1, <3>1, <3>2, <3>3, <4>2, <4>3, OneHolder, ZenonT(60)
    <3>4. CASE team[c] \notin Ids
      BY <1>1, <2>1, <3>1, <3>2, <3>4, OneHolder, ZenonT(60)
    <3> QED BY <3>3, <3>4
  <2>8. CASE ReadTeamId(c)
    <3>1. PICK t \in Ids : team' = [team EXCEPT ![c] = t]
      BY <2>8 DEF ReadTeamId
    <3>2. /\ stage' = [stage EXCEPT ![c] = "inject"] /\ UNCHANGED <<issued, code>>
          /\ issued[c] = <<>> /\ c \notin Checkers
      BY <2>1, <2>2, <2>8 DEF ReadTeamId, HolderInv
    <3>3. t \in Int \cup {NoTeam}
      BY Sizes DEF Ids
    <3> QED BY <1>1, <2>1, <3>1, <3>2, <3>3, OneHolder, ZenonT(60)
  <2>9. CASE InjectServiceAssertion(c)
    <3>1. /\ stage' = [stage EXCEPT ![c] = "done"] /\ UNCHANGED <<team, code>>
          /\ c \notin Checkers /\ team[c] \in Ids
          /\ issued' = [issued EXCEPT ![c] = FlagGenerate("netshare", team[c])]
      BY <2>1, <2>9 DEF InjectServiceAssertion, Done, HolderInv
    <3>2. PICK fl : fl = FlagGenerate("netshare", team[c])
      OBVIOUS
    <3>3. fl = EncodeUuid("netshare", team[c]) /\ ServiceOf(c) = "netshare" /\ "netshare" \in Services
      BY <3>1, <3>2, SameEncoders DEF Services, ServiceOf
    <3>4. fl \in FlagsMade /\ fl = EncodeUuid(ServiceOf(c), team[c])
      BY <3>1, <3>3 DEF FlagsMade
    <3>5. issued' = [issued EXCEPT ![c] = fl]
      BY <3>1, <3>2
    <3>6. /\ stage' = [stage EXCEPT ![c] = "done"] /\ team' = [team EXCEPT ![c] = team[c]]
          /\ code' = [code EXCEPT ![c] = code[c]] /\ c \notin Checkers /\ team[c] \in Ids
      BY <2>1, <3>1
    <3>7. team[c] \in Int \cup {NoTeam} /\ code[c] \in TypedCodes \cup {NoTeam}
      BY <2>1
    <3>8. /\ "done" \in IF c \in Checkers THEN {"start", "token", "code", "done"}
                        ELSE {"team", "inject", "done"}
          /\ "done" \in {"start", "token", "code", "team", "inject", "done"}
          /\ fl \in FlagsMade \cup {<<>>}
      BY <3>4
    <3> HIDE DEF Holders, FlagsMade, FlagsInv
    <3> QED BY ONLY <1>1, <1>3, <3>4, <3>5, <3>6, <3>7, <3>8, OneHolder, ZenonT(60)
  <2> QED BY <1>3, <2>3, <2>4, <2>5, <2>6, <2>7, <2>8, <2>9
<1> QED
  BY <1>1, <1>2, <1>3 DEF FlagsNext, Holders

LEMMA FlagsTellTeams == FlagsInv => FlagsNameTheirTeam
<1>1. SUFFICES ASSUME FlagsInv, NEW c \in Holders, issued[c] # <<>>
      PROVE  /\ DecodeUuid(ServiceOf(c), issued[c]) = team[c]
             /\ issued[c] = EncodeUuid(ServiceOf(c), team[c])
             /\ c \in Checkers => code[c] \in CodeFile
             /\ \A d \in Holders :
                   ServiceOf(d) = ServiceOf(c) /\ issued[d] = issued[c] => team[d] = team[c]
  BY Zenon DEF FlagsNameTheirTeam, Holders
<1>2. \A d \in Holders : issued[d] # <<>> => DecodeUuid(ServiceOf(d), issued[d]) = team[d]
  <2>1. ASSUME NEW d \in Holders, issued[d] # <<>> PROVE DecodeUuid(ServiceOf(d), issued[d]) = team[d]
    <3>1. team[d] \in Ids /\ issued[d] = EncodeUuid(ServiceOf(d), team[d])
      BY <1>1, <2>1 DEF FlagsInv, HolderInv
    <3>2. DecodeUuid(ServiceOf(d), EncodeUuid(ServiceOf(d), team[d])) = team[d]
      BY <3>1, ServiceKnown, FlagsDecode
    <3> QED BY <3>1, <3>2, Zenon
  <2> QED BY <2>1
<1>3. issued[c] = EncodeUuid(ServiceOf(c), team[c]) /\ (c \in Checkers => code[c] \in CodeFile)
  BY <1>1 DEF FlagsInv, HolderInv
<1>4. ASSUME NEW d \in Holders, ServiceOf(d) = ServiceOf(c), issued[d] = issued[c]
      PROVE  team[d] = team[c]
  <2>1. issued[d] # <<>>
    BY <1>1, <1>4
  <2>2. DecodeUuid(ServiceOf(c), issued[c]) = team[c] /\ DecodeUuid(ServiceOf(d), issued[d]) = team[d]
    BY <1>1, <1>2, <2>1
  <2> QED BY <1>4, <2>2, Zenon
<1> QED
  BY <1>1, <1>2, <1>3, <1>4

\* A flag names the team it was made for: decode_uuid gives back the number, whatever it is,
\* the controller's encoder makes the same flag as the reference, and no two teams have one.
THEOREM FlagsTellTheirTeam == FlagsSpec => []FlagsNameTheirTeam
<1>1. FlagsSpec => []FlagsInv
  BY FlagsStart, FlagsGoOn, PTL DEF FlagsSpec
<1> QED
  BY <1>1, FlagsTellTeams, PTL

-----------------------------------------------------------------------------
(* TsukisRhythmGame: what a cookie stands for.                               *)

\* A cookie that says n stands for the first n questions.
Backed(k) == k.solved \in 0..Total /\ 0..(k.solved - 1) \subseteq mastered

QuizInv ==
    /\ mastered \subseteq Questions
    /\ Backed(cookie)
    /\ \A r \in asks \cup replies : Backed(r.cookie)
    /\ won \/ (\E r \in replies : r.flagged) => mastered = Questions

LEMMA QuizStarts == QuizInit => QuizInv
BY QuizAssumption DEF QuizInit, QuizInv, Backed, NoCookie, Questions

\* What a reply brings: it takes a request away and leaves every cookie backed.
LEMMA ReplyBacked ==
    ASSUME QuizInv, NEW r \in asks, NEW k, NEW flag, Reply(r, k, flag),
           mastered \subseteq mastered', mastered' \subseteq Questions,
           Backed(k)', flag => mastered' = Questions
    PROVE  QuizInv'
<1>1. /\ cookie' = cookie /\ won' = won /\ asks' \subseteq asks
      /\ replies' = replies \cup {[id |-> r.id, cookie |-> k, flagged |-> flag]}
  BY DEF Reply
<1>2. PICK s : s = [id |-> r.id, cookie |-> k, flagged |-> flag]
  OBVIOUS
<1>3. s.cookie = k /\ s.flagged = flag /\ replies' = replies \cup {s}
  BY <1>1, <1>2
<1>4. ASSUME NEW j, Backed(j) PROVE Backed(j)'
  BY <1>4 DEF Backed
<1>5. Backed(cookie)'
  BY <1>1, <1>4 DEF QuizInv, Backed
<1>6. ASSUME NEW q \in asks' \cup replies' PROVE Backed(q.cookie)'
  <2>1. CASE q = s
    BY <1>3, <2>1 DEF Backed
  <2>2. CASE q \in asks \cup replies
    BY <1>4, <2>2 DEF QuizInv
  <2> QED BY <1>1, <1>3, <1>6, <2>1, <2>2
<1>7. ASSUME won' \/ \E q \in replies' : q.flagged PROVE mastered' = Questions
  <2>1. CASE won \/ \E q \in replies : q.flagged
    BY <2>1 DEF QuizInv
  <2>2. CASE s.flagged
    BY <1>3, <2>2
  <2> QED BY <1>1, <1>3, <1>7, <2>1, <2>2
<1> QED
  BY <1>5, <1>6, <1>7 DEF QuizInv

LEMMA QuizGoesOn == QuizInv /\ [QuizNext]_quizVars => QuizInv'
<1>1. SUFFICES ASSUME QuizInv, [QuizNext]_quizVars PROVE QuizInv'
  OBVIOUS
<1>2. ASSUME mastered' = mastered, NEW j, Backed(j) PROVE Backed(j)'
  BY <1>2 DEF Backed
<1>3. CASE UNCHANGED quizVars
  BY <1>1, <1>3 DEF QuizInv, Backed, quizVars
<1>4. ASSUME NEW r \in asks, ServeIndex(r) \/ ServeReset(r) PROVE QuizInv'
  <2>1. /\ mastered' = mastered
        /\ Reply(r, NoCookie, FALSE) \/ Reply(r, Signed(0), FALSE)
    BY <1>4 DEF ServeIndex, ServeReset
  <2>2. Backed(NoCookie)' /\ Backed(Signed(0))'
    BY QuizAssumption DEF Backed, NoCookie, Signed
  <2>3. mastered \subseteq mastered' /\ mastered' \subseteq Questions
    BY <1>1, <2>1 DEF QuizInv
  <2>4. CASE Reply(r, NoCookie, FALSE)
    BY <1>1, <1>4, <2>2, <2>3, <2>4, ReplyBacked
  <2>5. CASE Reply(r, Signed(0), FALSE)
    <3>1. PICK k : k = Signed(0)
      OBVIOUS
    <3>2. Reply(r, k, FALSE)
      BY <2>5, <3>1, Zenon
    <3>3. Backed(k)'
      BY <3>1, QuizAssumption DEF Backed, Signed
    <3> QED BY <1>1, <1>4, <2>3, <3>2, <3>3, ReplyBacked
  <2> QED BY <2>1, <2>4, <2>5
<1>5. ASSUME NEW r \in asks, Submit(r) PROVE QuizInv'
  <2>1. PICK n : n = Solved(r.cookie)
    OBVIOUS
  <2>2. n \in 0..Total /\ 0..(n - 1) \subseteq mastered
    <3>1. Backed(r.cookie)
      BY <1>1, <1>5 DEF QuizInv
    <3> QED BY <2>1, <3>1, QuizAssumption DEF Solved, Backed
  <2>3. CASE n < Total /\ r.answer = n
    <3>1. PICK k : k = Signed(n + 1)
      OBVIOUS
    <3>2. Reply(r, k, n + 1 >= Total) /\ mastered' = mastered \cup {n}
      BY <1>5, <2>1, <2>3, <3>1 DEF Submit
    <3>3. 0..n \subseteq mastered' /\ n + 1 \in 0..Total
      BY <2>2, <2>3, <3>2, QuizAssumption
    <3>4. Backed(k)'
      BY <2>2, <3>1, <3>3 DEF Backed, Signed
    <3>5. mastered \subseteq mastered' /\ mastered' \subseteq Questions
      BY <1>1, <2>2, <2>3, <3>2, QuizAssumption DEF QuizInv, Questions
    <3>6. n + 1 >= Total => mastered' = Questions
      <4>1. n + 1 >= Total => 0..n = 0..(Total - 1)
        BY <2>2, <2>3, QuizAssumption
      <4> QED BY <3>3, <3>5, <4>1 DEF Questions
    <3> QED BY <1>1, <1>5, <3>2, <3>4, <3>5, <3>6, ReplyBacked
  <2>4. CASE ~(n < Total /\ r.answer = n)
    <3>1. Reply(r, NoCookie, n >= Total) /\ mastered' = mastered
      BY <1>5, <2>1, <2>4 DEF Submit
    <3>2. Backed(NoCookie)'
      BY QuizAssumption DEF Backed, NoCookie
    <3>3. mastered \subseteq mastered' /\ mastered' \subseteq Questions
      BY <1>1, <3>1 DEF QuizInv
    <3>4. n >= Total => mastered' = Questions
      <4>1. n >= Total => 0..(n - 1) = 0..(Total - 1)
        BY <2>2, QuizAssumption
      <4> QED BY <2>2, <3>1, <3>3, <4>1 DEF Questions
    <3> QED BY <1>1, <1>5, <3>1, <3>2, <3>3, <3>4, ReplyBacked
  <2> QED BY <2>3, <2>4
<1>6. ASSUME NEW path, NEW answer, Visit(path, answer) PROVE QuizInv'
  <2>0. PICK s : s = [id |-> asked, path |-> path, cookie |-> cookie, answer |-> answer]
    OBVIOUS
  <2>1. s.cookie = cookie /\ asks' = asks \cup {s}
    BY <1>6, <2>0 DEF Visit
  <2>2. UNCHANGED <<cookie, replies, mastered, won>>
    BY <1>6 DEF Visit
  <2>3. ASSUME NEW q \in asks' \cup replies' PROVE Backed(q.cookie)'
    <3>1. Backed(q.cookie)
      BY <1>1, <2>1, <2>2, <2>3 DEF QuizInv
    <3> QED BY <1>2, <2>2, <3>1
  <2> QED BY <1>1, <2>2, <2>3 DEF QuizInv, Backed
<1>7. ASSUME NEW r \in replies, Receive(r) PROVE QuizInv'
  <2>1. /\ cookie' = IF r.cookie = NoCookie THEN cookie ELSE r.cookie
        /\ won' = (won \/ r.flagged) /\ replies' = replies \ {r}
        /\ UNCHANGED <<asks, mastered>>
    BY <1>7 DEF Receive
  <2>2. Backed(cookie)'
    BY <1>1, <1>7, <2>1 DEF QuizInv, Backed
  <2>3. ASSUME NEW q \in asks' \cup replies' PROVE Backed(q.cookie)'
    <3>1. Backed(q.cookie)
      BY <1>1, <2>1, <2>3 DEF QuizInv
    <3> QED BY <1>2, <2>1, <3>1
  <2>4. won' \/ (\E q \in replies' : q.flagged) => mastered' = Questions
    BY <1>1, <1>7, <2>1 DEF QuizInv
  <2> QED BY <1>1, <2>1, <2>2, <2>3, <2>4 DEF QuizInv
<1>8. CASE Reboot
  <2>1. asks' = {} /\ UNCHANGED <<cookie, replies, mastered, won>>
    BY <1>8 DEF Reboot
  <2> QED BY <1>1, <2>1 DEF QuizInv, Backed
<1> QED
  BY <1>1, <1>3, <1>4, <1>5, <1>6, <1>7, <1>8 DEF QuizNext

LEMMA QuizEarned == QuizInv => FlagIsEarned
BY DEF QuizInv, FlagIsEarned, Backed

\* The flag of TsukisRhythmGame is earned: however requests and replies overtake one another,
\* whatever old cookie is sent again and however often the server restarts, a cookie that says
\* n stands for n answers found right, and the flag goes out only after all of them.
THEOREM FlagStandsForAnswers == QuizSpec => []FlagIsEarned
<1>1. QuizSpec => []QuizInv
  BY QuizStarts, QuizGoesOn, PTL DEF QuizSpec
<1> QED
  BY <1>1, QuizEarned, PTL

-----------------------------------------------------------------------------
(* r3ticket: the number that is told, and the rounds.                        *)

\* A factor of the interpolation is a number; at the index itself all of them are 1, and at
\* any other index of the list one of them is 0.
LEMMA Factors ==
    ASSUME NEW index \in Int, NEW i \in Int, NEW j \in Int
    PROVE  /\ Factor(index, i, j) \in Int
           /\ i = index => Factor(index, i, j) = 1
           /\ i # index /\ j = index => Factor(index, i, j) = 0
<1>1. CASE j = i
  BY <1>1 DEF Factor
<1>2. CASE j # i
  <2>1. PICK a \in Int, b \in Int : a = index - j /\ b = i - j /\ b # 0
    BY <1>2
  <2>2. Factor(index, i, j) = IF b > 0 THEN a \div b ELSE (-a) \div (-b)
    BY <1>2, <2>1 DEF Factor, FloorDiv
  <2>3. PICK r \in Nat \ {0}, x \in Int :
           Factor(index, i, j) = x \div r /\ (i = index => x = r) /\ (j = index => x = 0)
    <3>1. CASE b > 0
      <4>1. b \in Nat \ {0} /\ Factor(index, i, j) = a \div b /\ (i = index => a = b) /\ (j = index => a = 0)
        BY <2>1, <2>2, <3>1
      <4> QED BY <4>1
    <3>2. CASE ~(b > 0)
      <4>1. -b \in Nat \ {0} /\ -a \in Int
        BY <2>1, <3>2
      <4>2. Factor(index, i, j) = (-a) \div (-b) /\ (i = index => -a = -b) /\ (j = index => -a = 0)
        BY <2>1, <2>2, <3>2
      <4> QED BY <4>1, <4>2
    <3> QED BY <3>1, <3>2
  <2>4. x \div r \in Int
    OBVIOUS
  <2>5. x = r => x \div r = 1
    <3>1. (1 * r + 0) \div r = 1
      BY Quotient
    <3> QED BY <3>1
  <2>6. x = 0 => x \div r = 0
    <3>1. (0 * r + 0) \div r = 0
      BY Quotient
    <3> QED BY <3>1
  <2> QED BY <1>2, <2>3, <2>4, <2>5, <2>6
<1> QED
  BY <1>1, <1>2

\* The inner loop of get_num multiplies the factors of one entry of the list.
LEMMA Parts ==
    ASSUME NEW index \in Int, NEW i \in Int, NEW n \in Nat, n = Len(Nums)
    PROVE  \E f \in [0..n -> Int] :
               /\ f[0] = 1 /\ \A k \in 1..n : f[k] = f[k - 1] * Factor(index, i, k - 1)
               /\ Part(index, i) = f[n]
<1> DEFINE Body(f) == f = [k \in 0..Len(Nums) |->
                             IF k = 0 THEN 1 ELSE f[k - 1] * Factor(index, i, k - 1)]
<1>1. n \in Nat /\ n = Len(Nums) /\ 1 \in Int
  OBVIOUS
<1>2. PICK fac \in [1..n -> Int] : \A k \in 1..n : fac[k] = Factor(index, i, k - 1)
  <2>1. \A k \in 1..n : Factor(index, i, k - 1) \in Int
    <3>1. ASSUME NEW k \in 1..n PROVE Factor(index, i, k - 1) \in Int
      <4>1. k - 1 \in Int
        OBVIOUS
      <4> QED BY <4>1, Factors
    <3> QED BY <3>1
  <2>2. [k \in 1..n |-> Factor(index, i, k - 1)] \in [1..n -> Int]
    BY <2>1
  <2> QED BY <2>2
<1>3. PICK turn \in [1..n -> [Int -> Int]] : \A k \in 1..n : \A x \in Int : turn[k][x] = x * fac[k]
  <2>1. \A k \in 1..n : \A x \in Int : x * fac[k] \in Int
    BY <1>2
  <2>2. [k \in 1..n |-> [x \in Int |-> x * fac[k]]] \in [1..n -> [Int -> Int]]
    BY <2>1
  <2> QED BY <2>2
<1>4. \E f : Body(f)
  <2>1. PICK f : Runs(turn, n, 1, Int, f)
    BY <1>1, LoopRuns, Zenon
  <2>2. f \in [0..n -> Int] /\ f[0] = 1 /\ \A k \in 1..n : f[k] = turn[k][f[k - 1]]
    BY <2>1 DEF Runs
  <2>3. \A k \in 1..n : f[k - 1] \in Int
    <3>1. \A k \in 1..n : k - 1 \in 0..n
      BY <1>1
    <3> QED BY <2>2, <3>1
  <2>4. \A k \in 1..n : f[k] = f[k - 1] * Factor(index, i, k - 1)
    BY <1>2, <1>3, <2>2, <2>3
  <2>5. f = [k \in 0..n |-> IF k = 0 THEN 1 ELSE f[k - 1] * Factor(index, i, k - 1)]
    BY ONLY <1>1, <2>2, <2>4
  <2>6. Body(f)
    BY <1>1, <2>5
  <2> QED BY <2>6
<1>5. PICK part : part = (CHOOSE f : Body(f)) /\ Body(part)
  <2> HIDE DEF Body
  <2> QED BY <1>4
<1>6. Part(index, i) = part[n]
  BY <1>1, <1>5, Zenon DEF Part
<1>7. part[0] = 1 /\ \A k \in 1..n : part[k] = part[k - 1] * Factor(index, i, k - 1)
  <2>1. part = [k \in 0..n |-> IF k = 0 THEN 1 ELSE part[k - 1] * Factor(index, i, k - 1)]
    BY <1>1, <1>5
  <2>2. \A k \in 1..n : k \in 0..n /\ k # 0
    BY <1>1
  <2>3. part[0] = 1
    BY ONLY <1>1, <2>1
  <2>4. \A k \in 1..n : part[k] = part[k - 1] * Factor(index, i, k - 1)
    BY ONLY <2>1, <2>2
  <2> QED BY ONLY <2>3, <2>4
<1>8. part \in [0..n -> Int]
  <2>1. \A k \in 1..n : part[k - 1] \in Int => part[k] = turn[k][part[k - 1]]
    BY <1>2, <1>3, <1>7
  <2>2. \A k \in 0..n : part[k] \in Int
    BY <1>1, <1>7, <2>1, LoopStays
  <2>3. part = [k \in 0..n |-> part[k]]
    BY <1>1, <1>5
  <2> QED BY ONLY <2>2, <2>3
<1> QED
  BY <1>6, <1>7, <1>8

\* Of the entries of the list the interpolation takes one, whole.
LEMMA PartsOfOne ==
    ASSUME NEW index \in 0..(Len(Nums) - 1), NEW i \in 0..(Len(Nums) - 1)
    PROVE  Part(index, i) = IF i = index THEN 1 ELSE 0
<1>1. PICK n \in Nat : n = Len(Nums)
  BY TicketAssumption
<1>2. index \in Int /\ i \in Int /\ index \in 0..(n - 1) /\ i \in 0..(n - 1)
  BY <1>1
<1>3. PICK f \in [0..n -> Int] :
         /\ f[0] = 1 /\ \A k \in 1..n : f[k] = f[k - 1] * Factor(index, i, k - 1)
         /\ Part(index, i) = f[n]
  BY <1>1, <1>2, Parts
<1>4. CASE i = index
  <2> DEFINE S == {k \in 0..n : f[k] = 1}
  <2>1. 0 \in S
    BY <1>3
  <2>2. ASSUME NEW k \in 1..n, k - 1 \in S PROVE k \in S
    <3>1. Factor(index, i, k - 1) = 1
      <4>1. k - 1 \in Int
        OBVIOUS
      <4> QED BY <1>2, <1>4, <4>1, Factors
    <3>2. f[k - 1] = 1
      BY <2>2
    <3> QED BY <1>3, <3>1, <3>2
  <2>3. \A k \in 0..n : k \in S
    <3> HIDE DEF S
    <3> QED BY <2>1, <2>2, AllAlong
  <2>4. f[n] = 1
    BY <2>3
  <2> QED BY <1>3, <1>4, <2>4
<1>5. CASE i # index
  <2> DEFINE S == {k \in 0..n : k > index => f[k] = 0}
  <2>1. 0 \in S
    BY <1>2
  <2>2. ASSUME NEW k \in 1..n, k - 1 \in S PROVE k \in S
    <3>1. PICK a \in Int, c \in Int : a = f[k - 1] /\ c = Factor(index, i, k - 1) /\ f[k] = a * c
      <4>1. k - 1 \in Int /\ k - 1 \in 0..n
        OBVIOUS
      <4> QED BY <1>2, <1>3, <4>1, Factors
    <3>2. k - 1 = index => c = 0
      BY <1>2, <1>5, <3>1, Factors
    <3>3. k - 1 > index => a = 0
      BY <2>2, <3>1
    <3>4. k > index => k - 1 = index \/ k - 1 > index
      BY <1>2
    <3>5. a = 0 \/ c = 0 => a * c = 0
      OBVIOUS
    <3>6. k > index => f[k] = 0
      BY ONLY <3>1, <3>2, <3>3, <3>4, <3>5
    <3> QED BY <3>6
  <2>3. \A k \in 0..n : k \in S
    <3> HIDE DEF S
    <3> QED BY <2>1, <2>2, AllAlong
  <2>4. f[n] = 0
    BY <1>2, <2>3
  <2> QED BY <1>3, <1>5, <2>4
<1> QED
  BY <1>4, <1>5

\* get_num: the entry of the list at the index, and 0 beyond its end.
LEMMA NumberTold ==
    ASSUME NEW index \in Nat
    PROVE  GetNum(index) = IF index < Len(Nums) THEN Nums[index + 1] ELSE 0
<1>1. PICK n \in Nat : n = Len(Nums) /\ \A k \in 1..n : Nums[k] \in Nat
  <2>1. Len(Nums) \in Nat /\ \A k \in 1..Len(Nums) : Nums[k] \in Nat
    BY TicketAssumption, LenProperties, ElementOfSeq
  <2> QED BY <2>1
<1>2. CASE index >= n
  BY <1>1, <1>2 DEF GetNum
<1>3. CASE index < n
  <2> DEFINE Body(f) == f = [k \in 0..Len(Nums) |->
                               IF k = 0 THEN 0 ELSE f[k - 1] + Part(index, k - 1) * Nums[k]]
  <2>0. index \in 0..(n - 1)
    BY <1>3
  <2>1. PICK add \in [1..n -> Int] :
           /\ \A k \in 1..n : add[k] = Part(index, k - 1) * Nums[k]
           /\ \A k \in 1..n : add[k] = IF k = index + 1 THEN Nums[k] ELSE 0
    <3>1. ASSUME NEW k \in 1..n
          PROVE  Part(index, k - 1) * Nums[k] = IF k = index + 1 THEN Nums[k] ELSE 0
      <4>1. k - 1 \in 0..(Len(Nums) - 1) /\ index \in 0..(Len(Nums) - 1)
        BY <1>1, <2>0
      <4>2. Part(index, k - 1) = IF k - 1 = index THEN 1 ELSE 0
        BY <4>1, PartsOfOne
      <4>3. PICK m \in Nat : m = Nums[k]
        BY <1>1
      <4>4. 1 * m = m /\ 0 * m = 0
        OBVIOUS
      <4> QED BY <4>2, <4>3, <4>4
    <3>2. [k \in 1..n |-> IF k = index + 1 THEN Nums[k] ELSE 0] \in [1..n -> Int]
      BY <1>1
    <3> QED BY <3>1, <3>2
  <2>2. PICK turn \in [1..n -> [Int -> Int]] : \A k \in 1..n : \A x \in Int : turn[k][x] = x + add[k]
    <3>1. \A k \in 1..n : \A x \in Int : x + add[k] \in Int
      BY <2>1
    <3>2. [k \in 1..n |-> [x \in Int |-> x + add[k]]] \in [1..n -> [Int -> Int]]
      BY <3>1
    <3> QED BY <3>2
  <2>3. \E f : Body(f)
    <3>1. PICK f : Runs(turn, n, 0, Int, f)
      <4>1. n \in Nat /\ 0 \in Int
        BY <1>1
      <4> QED BY <4>1, LoopRuns, Zenon
    <3>2. f \in [0..n -> Int] /\ f[0] = 0 /\ \A k \in 1..n : f[k] = turn[k][f[k - 1]]
      BY <3>1 DEF Runs
    <3>3. \A k \in 1..n : f[k - 1] \in Int
      <4>1. \A k \in 1..n : k - 1 \in 0..n
        BY <1>1
      <4> QED BY <3>2, <4>1
    <3>4. \A k \in 1..n : f[k] = f[k - 1] + Part(index, k - 1) * Nums[k]
      BY <2>1, <2>2, <3>2, <3>3
    <3>5. f = [k \in 0..n |-> IF k = 0 THEN 0 ELSE f[k - 1] + Part(index, k - 1) * Nums[k]]
      BY ONLY <1>1, <3>2, <3>4
    <3>6. Body(f)
      BY <1>1, <3>5
    <3> QED BY <3>6
  <2>4. PICK result : result = (CHOOSE f : Body(f)) /\ Body(result)
    <3> HIDE DEF Body
    <3> QED BY <2>3
  <2>5. GetNum(index) = result[n]
    <3>1. ~(index > Len(Nums) - 1)
      BY <1>1, <1>3
    <3> QED BY <1>1, <2>4, <3>1, Zenon DEF GetNum
  <2>6. result[0] = 0 /\ \A k \in 1..n : result[k] = result[k - 1] + add[k]
    <3>1. result = [k \in 0..n |-> IF k = 0 THEN 0 ELSE result[k - 1] + Part(index, k - 1) * Nums[k]]
      BY <1>1, <2>4
    <3>2. \A k \in 1..n : k \in 0..n /\ k # 0
      BY <1>1
    <3>3. result[0] = 0
      BY ONLY <1>1, <3>1
    <3>4. \A k \in 1..n : result[k] = result[k - 1] + Part(index, k - 1) * Nums[k]
      BY ONLY <3>1, <3>2
    <3> QED BY ONLY <2>1, <3>3, <3>4
  <2> DEFINE S == {k \in 0..n : result[k] = IF k > index THEN Nums[index + 1] ELSE 0}
  <2>7. 0 \in S
    BY <2>6
  <2>8. ASSUME NEW k \in 1..n, k - 1 \in S PROVE k \in S
    <3>1. result[k - 1] = IF k - 1 > index THEN Nums[index + 1] ELSE 0
      BY <2>8
    <3>2. result[k] = result[k - 1] + IF k = index + 1 THEN Nums[k] ELSE 0
      BY <2>1, <2>6
    <3>3. PICK m \in Nat : m = Nums[index + 1]
      BY <1>1, <2>0
    <3>4. k - 1 > index => k > index /\ k # index + 1 /\ m + 0 = m
      BY <3>3
    <3>5. k = index + 1 => k > index /\ ~(k - 1 > index) /\ 0 + m = m
      BY <3>3
    <3>6. k > index => k - 1 > index \/ k = index + 1
      OBVIOUS
    <3>7. result[k] = IF k > index THEN m ELSE 0
      <4>1. CASE k - 1 > index
        BY <3>1, <3>2, <3>3, <3>4, <4>1
      <4>2. CASE k = index + 1
        <5>1. result[k - 1] = 0 /\ Nums[k] = m
          BY <3>1, <3>3, <3>5, <4>2
        <5> QED BY ONLY <3>2, <3>5, <4>2, <5>1
      <4>3. CASE ~(k > index)
        <5>1. ~(k - 1 > index) /\ k # index + 1
          BY <4>3
        <5> QED BY ONLY <3>1, <3>2, <4>3, <5>1
      <4> QED BY <3>6, <4>1, <4>2, <4>3
    <3> QED BY <3>3, <3>7
  <2>9. \A k \in 0..n : k \in S
    <3> HIDE DEF S
    <3> QED BY <2>7, <2>8, AllAlong
  <2>10. result[n] = Nums[index + 1]
    BY <1>3, <2>9
  <2> QED BY <1>1, <1>3, <2>5, <2>10
<1> QED
  BY <1>2, <1>3

\* Between rounds every round was hit, and within one all but that one.
TicketInv ==
    /\ number = <<>> \/ \E index \in Int : number = <<index, GetNum(index)>>
    /\ played \in 0..Games /\ hits \in Int
    /\ game = "index" => hits = 0 /\ played = 0
    /\ game \in {"ready", "won"} => hits = played
    /\ game \in {"input", "read"} => hits = played - 1
    /\ game = "won" => played = Games
    /\ game \notin {"input", "read"} => alarm = Off

LEMMA TicketStarts == TicketInit => TicketInv
BY TicketAssumption DEF TicketInit, TicketInv

LEMMA TicketGoesOn == TicketInv /\ [TicketNext]_ticketVars => TicketInv'
<1>1. SUFFICES ASSUME TicketInv, [TicketNext]_ticketVars PROVE TicketInv'
  OBVIOUS
<1>2. Games \in Nat \ {0} /\ Indices \subseteq Int /\ AnswerTimeout \in Nat
  BY TicketAssumption
<1>3. CASE TellNumber
  <2>1. PICK index \in Indices : number' = <<index, GetNum(index)>>
    BY <1>3 DEF TellNumber
  <2>2. \E k \in Int : number' = <<k, GetNum(k)>>
    BY <1>2, <2>1
  <2> QED BY <1>1, <1>3, <2>2 DEF TellNumber, TicketInv
<1>4. CASE UNCHANGED ticketVars \/ StartRound \/ TimerRuns \/ AlarmRings \/ ReadAnswer \/ CheckAnswer
  <2>1. number' = number
    BY <1>4 DEF ticketVars, StartRound, TimerRuns, AlarmRings, ReadAnswer, CheckAnswer
  <2>2. number' = <<>> \/ \E index \in Int : number' = <<index, GetNum(index)>>
    BY <1>1, <2>1, Zenon DEF TicketInv
  <2>3. CASE UNCHANGED ticketVars
    BY <1>1, <2>2, <2>3 DEF ticketVars, TicketInv
  <2>4. CASE StartRound
    BY <1>1, <1>2, <2>2, <2>4 DEF StartRound, TicketInv
  <2>5. CASE TimerRuns
    BY <1>1, <2>2, <2>5 DEF TimerRuns, TicketInv, Off
  <2>6. CASE AlarmRings
    BY <1>1, <2>2, <2>6 DEF AlarmRings, TicketInv
  <2>7. CASE ReadAnswer
    BY <1>1, <2>2, <2>7 DEF ReadAnswer, TicketInv
  <2>8. CASE CheckAnswer
    BY <1>1, <1>2, <2>2, <2>8 DEF CheckAnswer, TicketInv
  <2> QED BY <1>4, <2>3, <2>4, <2>5, <2>6, <2>7, <2>8
<1> QED
  BY <1>1, <1>3, <1>4 DEF TicketNext

LEMMA TicketEarned == TicketInv => TicketIsEarned
<1>1. SUFFICES ASSUME TicketInv PROVE TicketIsEarned
  OBVIOUS
<1>2. ASSUME number # <<>>, number[1] >= 0
      PROVE  number[2] = IF number[1] < Len(Nums) THEN Nums[number[1] + 1] ELSE 0
  <2>1. PICK index \in Int : number = <<index, GetNum(index)>>
    BY <1>1, <1>2 DEF TicketInv
  <2>2. number[1] = index /\ number[2] = GetNum(index)
    BY <2>1
  <2>3. index \in Nat
    BY <1>2, <2>2
  <2>4. GetNum(index) = IF index < Len(Nums) THEN Nums[index + 1] ELSE 0
    BY <2>3, NumberTold
  <2> QED BY <2>2, <2>4
<1> QED
  BY <1>1, <1>2 DEF TicketInv, TicketIsEarned

\* r3ticket tells the number of the list at the index asked for, although every factor of its
\* interpolation is rounded down by itself, and 0 beyond the end of the list; the ticket goes
\* to who told the exponent of every round, and no timer outlives its round.
THEOREM TicketForAllRounds == TicketSpec => []TicketIsEarned
<1>1. TicketSpec => []TicketInv
  BY TicketStarts, TicketGoesOn, PTL DEF TicketSpec
<1> QED
  BY <1>1, TicketEarned, PTL

-----------------------------------------------------------------------------
(* The signer of z3kapig: presignatures and the messages signed with them.   *)

RoundNames == {"round1", "round2", "round3", "round_out"}

\* Where a session stands: the commands of phase 4 are of their own, and sign is one of them.
PhaseInv ==
    /\ phase \in 1..4
    /\ action \in {"start_phase", "sign", "verify"} \cup RoundNames
    /\ phase = 4 => action \notin RoundNames
    /\ action = "sign" => phase = 4

\* The presignature at hand is a new one from its first round on until it is used.
UsesInv ==
    /\ presigs \in Nat /\ uses \subseteq Nat \X Messages
    /\ \A u \in uses : u[1] <= presigs
    /\ phase = 3 /\ action \in RoundNames => \A u \in uses : u[1] < presigs
    /\ phase = 4 /\ action \in {"start_phase", "sign"} => \A u \in uses : u[1] < presigs

SigningInv == PhaseInv /\ UsesInv /\ OneMessagePerPresignature

LEMMA SignerStarts == Init => SigningInv
BY DEF Init, SigningInv, PhaseInv, UsesInv, RoundNames, OneMessagePerPresignature

\* A command that did not raise goes on to the next one, any other stays where it is.
LEMMA CommandMoves ==
    ASSUME NEW ans, Command(ans)
    PROVE  \/ UNCHANGED <<phase, action>> /\ ans[1].raised # "no"
           \/ phase' = Advance(phase, action)[1] /\ action' = Advance(phase, action)[2]
BY DEF Command

LEMMA SignerGoesOn == SigningInv /\ [Next]_vars => SigningInv'
<1>1. SUFFICES ASSUME SigningInv, [Next]_vars PROVE SigningInv'
  OBVIOUS
<1>2. CASE UNCHANGED <<phase, action, presigs, uses>>
  BY <1>1, <1>2 DEF SigningInv, PhaseInv, UsesInv, OneMessagePerPresignature
<1>3. CASE UNCHANGED vars \/ GuessKey \/ EndSession \/ \E valid \in BOOLEAN : ProofOfWork(valid)
  <2>1. UNCHANGED <<phase, action, presigs, uses>>
    BY <1>3 DEF vars, GuessKey, EndSession, ProofOfWork
  <2> QED BY <1>2, <2>1
<1>4. CASE StartPhase
  <2>1. PICK ans : Command(ans)
    BY <1>4 DEF StartPhase
  <2>2. /\ action = "start_phase" /\ uses' = uses
        /\ presigs' = IF phase = 3 THEN presigs + 1 ELSE presigs
    BY <1>4 DEF StartPhase
  <2>3. \/ UNCHANGED <<phase, action>>
        \/ phase' = phase /\ action' = IF phase = 4 THEN "sign" ELSE "round1"
    BY <2>1, <2>2, CommandMoves DEF Advance
  <2>4. \A u \in uses : u[1] \in Nat
    BY <1>1 DEF SigningInv, UsesInv
  <2> QED
    BY <1>1, <2>2, <2>3, <2>4 DEF SigningInv, PhaseInv, UsesInv, RoundNames, OneMessagePerPresignature
<1>5. CASE Round
  <2>1. PICK ans : Command(ans)
    BY <1>5 DEF Round
  <2>2. /\ action \in RoundNames /\ UNCHANGED <<presigs, uses>> /\ phase \in 1..3
    BY <1>1, <1>5 DEF Round, RoundNames, SigningInv, PhaseInv
  <2>3. \/ UNCHANGED <<phase, action>>
        \/ phase' = phase /\ action' \in RoundNames
        \/ phase' = phase + 1 /\ action' = "start_phase"
    BY <2>1, <2>2, CommandMoves DEF Advance, RoundNames
  <2> QED
    BY <1>1, <2>2, <2>3 DEF SigningInv, PhaseInv, UsesInv, RoundNames, OneMessagePerPresignature
<1>6. CASE SignMessage
  <2>1. PICK h0 \in Messages, h1 \in Messages :
           /\ uses' = uses \cup {<<presigs, h1>>}
           /\ Command([p \in Parties |-> Sign(party[p], IF p = 0 THEN h0 ELSE h1, Drawn(p))])
    BY <1>6 DEF SignMessage
  <2>2. PICK ans : /\ Command(ans)
                   /\ ans = [p \in Parties |-> Sign(party[p], IF p = 0 THEN h0 ELSE h1, Drawn(p))]
    BY <2>1, Zenon
  <2>3. ans[1].raised = "no"
    <3>1. ans[1] = Sign(party[1], IF 1 = 0 THEN h0 ELSE h1, Drawn(1))
      BY <2>2 DEF Parties
    <3> QED BY <3>1 DEF Sign, Returns
  <2>4. action = "sign" /\ phase = 4 /\ presigs' = presigs
    BY <1>1, <1>6 DEF SignMessage, SigningInv, PhaseInv
  <2>5. phase' = 4 /\ action' = "verify"
    BY <2>2, <2>3, <2>4, CommandMoves DEF Advance
  <2>6. \A u \in uses : u[1] \in Nat /\ u[1] < presigs
    BY <1>1, <2>4 DEF SigningInv, UsesInv
  <2>7. PhaseInv'
    BY <2>5 DEF PhaseInv, RoundNames
  <2>8. UsesInv'
    BY <1>1, <2>1, <2>4, <2>5, <2>6 DEF SigningInv, UsesInv, RoundNames
  <2>9. OneMessagePerPresignature'
    <3>1. \A u \in uses : u[1] # presigs
      BY <1>1, <2>6 DEF SigningInv, UsesInv
    <3>2. ASSUME NEW u \in uses', NEW v \in uses', u[1] = v[1] PROVE u[2] = v[2]
      <4>1. CASE u \in uses /\ v \in uses
        BY <1>1, <3>2, <4>1 DEF SigningInv, OneMessagePerPresignature
      <4>2. CASE u = <<presigs, h1>> /\ v = <<presigs, h1>>
        BY <4>2
      <4>3. CASE u = <<presigs, h1>> /\ v \in uses
        BY <3>1, <3>2, <4>3
      <4>4. CASE u \in uses /\ v = <<presigs, h1>>
        BY <3>1, <3>2, <4>4
      <4> QED BY <2>1, <3>2, <4>1, <4>2, <4>3, <4>4
    <3> QED BY <3>2 DEF OneMessagePerPresignature
  <2> QED BY <2>7, <2>8, <2>9 DEF SigningInv
<1>7. CASE VerifySignature
  <2>1. PICK ans : Command(ans)
    BY <1>7 DEF VerifySignature
  <2>2. action = "verify" /\ UNCHANGED <<presigs, uses>>
    BY <1>7 DEF VerifySignature
  <2>3. \/ UNCHANGED <<phase, action>>
        \/ phase' = 3 /\ action' = "start_phase"
    BY <2>1, <2>2, CommandMoves DEF Advance
  <2> QED
    BY <1>1, <2>2, <2>3 DEF SigningInv, PhaseInv, UsesInv, RoundNames, OneMessagePerPresignature
<1> QED
  BY <1>1, <1>3, <1>4, <1>5, <1>6, <1>7 DEF Next

\* No presignature signs two messages: in whatever order commands come, whichever of them
\* raise, however often a phase is started again and whatever goes wrong at party 0.
THEOREM PresignaturesSignOnce == Spec => []OneMessagePerPresignature
<1>1. Spec => []SigningInv
  BY SignerStarts, SignerGoesOn, PTL DEF Spec
<1>2. SigningInv => OneMessagePerPresignature
  BY DEF SigningInv
<1> QED
  BY <1>1, <1>2, PTL

-----------------------------------------------------------------------------
(* inside: numbers that are the same modulo r.                               *)

LEMMA SameWhen ==
    ASSUME NEW r \in Nat \ {0}, NEW a \in Int, NEW b \in Int
    PROVE  a % r = b % r <=> \E z \in Int : a = b + z * r
<1>1. PICK p \in Int, k \in 0..(r - 1) : k = a % r /\ a = p * r + k
  BY Division
<1>2. PICK q \in Int, m \in 0..(r - 1) : m = b % r /\ b = q * r + m
  BY Division
<1>3. ASSUME k = m PROVE \E z \in Int : a = b + z * r
  <2>1. PICK z \in Int : z = p - q
    OBVIOUS
  <2>2. z * r = p * r - q * r /\ p * r \in Int /\ q * r \in Int /\ m \in Int
    BY <2>1
  <2>3. a = b + z * r
    <3>1. PICK x \in Int, y \in Int : x = p * r /\ y = q * r /\ z * r = x - y
      BY <2>2
    <3>2. a = x + k /\ b = y + m /\ k = m
      BY <1>1, <1>2, <1>3, <3>1
    <3> QED BY <3>1, <3>2
  <2> QED BY <2>3
<1>4. ASSUME NEW z \in Int, a = b + z * r PROVE k = m
  <2>1. PICK y \in Int : y = q + z
    OBVIOUS
  <2>2. y * r = q * r + z * r /\ q * r \in Int /\ z * r \in Int /\ m \in Int
    BY <2>1
  <2>3. a = y * r + m
    <3>1. PICK x \in Int, u \in Int : x = q * r /\ u = z * r /\ y * r = x + u
      BY <2>2
    <3>2. a = b + u /\ b = x + m
      BY <1>2, <1>4, <3>1
    <3> QED BY <3>1, <3>2
  <2>4. (y * r + m) % r = m
    BY Quotient
  <2> QED BY <1>1, <2>3, <2>4
<1> QED
  BY <1>1, <1>2, <1>3, <1>4

\* So are products.
LEMMA SameProduct ==
    ASSUME NEW r \in Nat \ {0}, NEW a \in Int, NEW b \in Int, NEW c \in Int, a % r = b % r
    PROVE  (c * a) % r = (c * b) % r
<1>1. PICK z \in Int : a = b + z * r
  BY SameWhen
<1>2. c * a = (c * b) + (c * z) * r
  BY <1>1
<1>3. c * a \in Int /\ c * b \in Int /\ c * z \in Int
  OBVIOUS
<1> QED
  BY ONLY <1>2, <1>3, r \in Nat \ {0}, SameWhen

LEMMA SameDifference ==
    ASSUME NEW r \in Nat \ {0}, NEW a \in Int, NEW b \in Int
    PROVE  a % r = b % r <=> (a - b) % r = 0
<1>1. a - b \in Int /\ 0 \in Int /\ 0 % r = 0
  <2>1. (0 * r + 0) % r = 0
    BY Quotient
  <2>2. 0 * r + 0 = 0
    OBVIOUS
  <2> QED BY <2>1, <2>2
<1>2. a % r = b % r <=> \E z \in Int : a = b + z * r
  BY SameWhen
<1>3. (a - b) % r = 0 % r <=> \E z \in Int : a - b = 0 + z * r
  BY ONLY <1>1, r \in Nat \ {0}, SameWhen
<1>4. \A z \in Int : z * r \in Int
  OBVIOUS
<1>5. \A z \in Int : a = b + z * r <=> a - b = 0 + z * r
  BY <1>4
<1> QED
  BY <1>1, <1>2, <1>3, <1>5

LEMMA SameRest ==
    ASSUME NEW r \in Nat \ {0}, NEW a \in Int
    PROVE  a % r \in Int /\ (a % r) % r = a % r
<1>1. PICK p \in Int, k \in 0..(r - 1) : k = a % r /\ a = p * r + k
  BY Division
<1>2. k = a + (-p) * r
  BY <1>1
<1>3. k \in Int /\ -p \in Int
  OBVIOUS
<1>4. k % r = a % r
  BY <1>2, <1>3, SameWhen
<1> QED
  BY <1>1, <1>3, <1>4

\* The rest of a sum is that of the sum of the rests.
LEMMA RestOfSum ==
    ASSUME NEW r \in Nat \ {0}, NEW a \in Int, NEW b \in Int
    PROVE  (a + b) % r = ((a % r) + (b % r)) % r
<1>1. PICK p \in Int, k \in 0..(r - 1) : k = a % r /\ a = p * r + k
  BY Division
<1>2. PICK q \in Int, m \in 0..(r - 1) : m = b % r /\ b = q * r + m
  BY Division
<1>3. a + b = (k + m) + (p + q) * r
  <2>1. (p + q) * r = p * r + q * r /\ p * r \in Int /\ q * r \in Int
    OBVIOUS
  <2> QED BY <1>1, <1>2, <2>1
<1>4. a + b \in Int /\ k + m \in Int /\ p + q \in Int
  OBVIOUS
<1>5. (a + b) % r = (k + m) % r
  BY ONLY <1>3, <1>4, r \in Nat \ {0}, SameWhen
<1> QED
  BY <1>1, <1>2, <1>5, Zenon

LEMMA RestOfProduct ==
    ASSUME NEW r \in Nat \ {0}, NEW a \in Int, NEW c \in Int
    PROVE  (c * a) % r = (c * (a % r)) % r
<1>1. a % r \in Int /\ (a % r) % r = a % r
  BY SameRest
<1> QED
  BY <1>1, SameProduct

\* A prime divides a product only if it divides a factor: the least number whose multiple of d
\* is 0 would otherwise leave a lesser one as the remainder of the order.
LEMMA NoZeroDivisors ==
    ASSUME NEW r \in Nat \ {0, 1}, \A d \in 2..(r - 1) : r % d # 0,
           NEW c \in 1..(r - 1), NEW d \in Int, (c * d) % r = 0
    PROVE  d % r = 0
<1> DEFINE A == {m \in 1..(r - 1) : (m * d) % r = 0}
<1>1. A # {} /\ A \in SUBSET Nat
  <2>1. c \in A
    OBVIOUS
  <2>2. A \in SUBSET Nat
    OBVIOUS
  <2> QED BY <2>1, <2>2
<1>2. OpToRel(<, Nat) = {ss \in Nat \X Nat : ss[1] < ss[2]}
  BY DEF OpToRel
<1>3. PICK m \in A : \A j \in A : <<j, m>> \notin OpToRel(<, Nat)
  <2> HIDE DEF A
  <2> QED BY <1>1, NatLessThanWellFounded, WFMin
<1>4. \A j \in A : ~(j < m)
  <2> HIDE DEF A
  <2> QED BY <1>1, <1>2, <1>3
<1>5. m \in 1..(r - 1) /\ (m * d) % r = 0
  OBVIOUS
<1>6. CASE m = 1
  <2>1. m * d = d
    BY <1>6
  <2> QED BY <1>5, <2>1
<1>7. CASE m # 1
  <2>1. m \in Nat \ {0} /\ m \in 2..(r - 1) /\ m \in Int
    BY <1>5, <1>7
  <2>2. PICK p \in Int, t \in 0..(m - 1) : t = r % m /\ r = p * m + t
    <3>1. r \in Int
      OBVIOUS
    <3>2. m \in Nat \ {0}
      BY <2>1
    <3> HIDE DEF A
    <3> QED BY <3>1, <3>2, Division, Zenon
  <2>3. t # 0
    BY <2>1, <2>2
  <2>4. t \in 1..(r - 1) /\ t < m
    BY <2>1, <2>2, <2>3
  <2>5. PICK y \in Int : m * d = y * r
    <3>1. 0 \in Int /\ m * d \in Int /\ 0 % r = 0
      <4>1. (0 * r + 0) % r = 0
        BY Quotient
      <4>2. 0 * r + 0 = 0
        OBVIOUS
      <4> QED BY <2>1, <4>1, <4>2
    <3>2. PICK y \in Int : m * d = 0 + y * r
      BY ONLY <1>5, <3>1, r \in Nat \ {0, 1}, SameWhen
    <3> QED BY <3>2
  <2>6. t * d = 0 + (d - p * y) * r
    <3>1. t = r - p * m
      BY <2>1, <2>2
    <3>2. t * d = r * d - p * (m * d)
      BY <2>1, <3>1
    <3>3. p * (m * d) = p * (y * r)
      BY <2>5
    <3> QED BY <3>2, <3>3
  <2>7. t * d \in Int /\ 0 \in Int /\ d - p * y \in Int /\ 0 % r = 0
    <3>1. (0 * r + 0) % r = 0
      BY Quotient
    <3>2. 0 * r + 0 = 0
      OBVIOUS
    <3> QED BY <3>1, <3>2
  <2>8. (t * d) % r = 0
    BY ONLY <2>6, <2>7, r \in Nat \ {0, 1}, SameWhen
  <2>9. t \in A
    BY <2>4, <2>8
  <2> HIDE DEF A
  <2> QED BY <1>4, <2>4, <2>9
<1> QED
  BY <1>6, <1>7

-----------------------------------------------------------------------------
(* Sums.                                                                     *)

\* Partial sums.
Adds(n, f, g) == g[0] = 0 /\ \A i \in 1..n : g[i] = g[i - 1] + f[i - 1]

LEMMA AddsInts ==
    ASSUME NEW n \in Nat, NEW f, \A i \in 0..(n - 1) : f[i] \in Int, NEW g, Adds(n, f, g)
    PROVE  \A i \in 0..n : g[i] \in Int
<1> DEFINE S == {i \in 0..n : g[i] \in Int}
<1>1. 0 \in S
  BY DEF Adds
<1>2. ASSUME NEW i \in 1..n, i - 1 \in S PROVE i \in S
  <2>1. g[i - 1] \in Int /\ i - 1 \in 0..(n - 1) /\ i \in 0..n
    BY <1>2
  <2>2. f[i - 1] \in Int
    BY <2>1
  <2>3. g[i] = g[i - 1] + f[i - 1]
    BY DEF Adds
  <2> QED BY <2>1, <2>2, <2>3
<1>3. \A i \in 0..n : i \in S
  <2> HIDE DEF S
  <2> QED BY <1>1, <1>2, AllAlong
<1> QED
  BY <1>3

\* There is one way to add up.
LEMMA AddsOnce ==
    ASSUME NEW n \in Nat, NEW f, \A i \in 0..(n - 1) : f[i] \in Int,
           NEW g, Adds(n, f, g), NEW h, Adds(n, f, h)
    PROVE  \A i \in 0..n : g[i] = h[i]
<1> DEFINE S == {i \in 0..n : g[i] = h[i]}
<1>1. 0 \in S
  BY DEF Adds
<1>2. ASSUME NEW i \in 1..n, i - 1 \in S PROVE i \in S
  <2>1. g[i] = g[i - 1] + f[i - 1] /\ h[i] = h[i - 1] + f[i - 1]
    BY DEF Adds
  <2>2. g[i - 1] = h[i - 1] /\ i \in 0..n
    BY <1>2
  <2> QED BY <2>1, <2>2
<1>3. \A i \in 0..n : i \in S
  <2> HIDE DEF S
  <2> QED BY <1>1, <1>2, AllAlong
<1> QED
  BY <1>3

LEMMA AddsUp ==
    ASSUME NEW n \in Nat, NEW f, \A i \in 0..(n - 1) : f[i] \in Int
    PROVE  \E g : Adds(n, f, g) /\ SumTo(f, n) = g[n]
<1> DEFINE Body(g) == g = [i \in 0..n |-> IF i = 0 THEN 0 ELSE g[i - 1] + f[i - 1]]
<1>1. \A k \in 1..n : f[k - 1] \in Int
  OBVIOUS
<1>2. PICK turn \in [1..n -> [Int -> Int]] : \A k \in 1..n : \A x \in Int : turn[k][x] = x + f[k - 1]
  <2>1. \A k \in 1..n : \A x \in Int : x + f[k - 1] \in Int
    BY <1>1
  <2>2. [k \in 1..n |-> [x \in Int |-> x + f[k - 1]]] \in [1..n -> [Int -> Int]]
    BY <2>1
  <2> QED BY <2>2
<1>3. \E g : Body(g)
  <2>1. PICK g : Runs(turn, n, 0, Int, g)
    <3>1. 0 \in Int
      OBVIOUS
    <3> QED BY <3>1, LoopRuns, Zenon
  <2>2. g \in [0..n -> Int] /\ g[0] = 0 /\ \A k \in 1..n : g[k] = turn[k][g[k - 1]]
    BY <2>1 DEF Runs
  <2>3. \A k \in 1..n : g[k - 1] \in Int
    <3>1. \A k \in 1..n : k - 1 \in 0..n
      OBVIOUS
    <3> QED BY <2>2, <3>1
  <2>4. \A k \in 1..n : g[k] = g[k - 1] + f[k - 1]
    BY <1>2, <2>2, <2>3
  <2>5. g = [i \in 0..n |-> IF i = 0 THEN 0 ELSE g[i - 1] + f[i - 1]]
    BY ONLY <2>2, <2>4, n \in Nat
  <2>6. Body(g)
    BY <2>5
  <2> QED BY <2>6
<1>4. PICK sum : sum = (CHOOSE g : Body(g)) /\ Body(sum)
  <2> HIDE DEF Body
  <2> QED BY <1>3
<1>5. SumTo(f, n) = sum[n]
  BY <1>4, Zenon DEF SumTo
<1>6. sum[0] = 0 /\ \A k \in 1..n : sum[k] = sum[k - 1] + f[k - 1]
  <2>1. sum = [i \in 0..n |-> IF i = 0 THEN 0 ELSE sum[i - 1] + f[i - 1]]
    BY <1>4
  <2>2. \A k \in 1..n : k \in 0..n /\ k # 0
    OBVIOUS
  <2>3. sum[0] = 0
    BY ONLY <2>1, n \in Nat
  <2>4. \A k \in 1..n : sum[k] = sum[k - 1] + f[k - 1]
    BY ONLY <2>1, <2>2
  <2> QED BY ONLY <2>3, <2>4
<1> QED
  BY <1>5, <1>6 DEF Adds

\* So any function that adds up gives the sum, and all its values are sums.
LEMMA SumIs ==
    ASSUME NEW n \in Nat, NEW f, \A i \in 0..(n - 1) : f[i] \in Int, NEW g, Adds(n, f, g)
    PROVE  SumTo(f, n) = g[n] /\ SumTo(f, n) \in Int
<1>1. PICK h : Adds(n, f, h) /\ SumTo(f, n) = h[n]
  BY AddsUp
<1>2. n \in 0..n
  OBVIOUS
<1>3. \A i \in 0..n : g[i] = h[i]
  BY <1>1, AddsOnce
<1>4. g[n] \in Int
  BY <1>2, AddsInts
<1> QED
  BY <1>1, <1>2, <1>3, <1>4

LEMMA Sums ==
    ASSUME NEW n \in Nat, NEW f, \A i \in 0..(n - 1) : f[i] \in Int
    PROVE  \E g \in [0..n -> Int] : Adds(n, f, g) /\ \A m \in 0..n : SumTo(f, m) = g[m]
<1>1. PICK h : Adds(n, f, h)
  BY AddsUp
<1>2. \A i \in 0..n : h[i] \in Int
  BY <1>1, AddsInts
<1>3. PICK g : g = [i \in 0..n |-> h[i]]
  OBVIOUS
<1>4. g \in [0..n -> Int]
  BY <1>2, <1>3
<1>5. Adds(n, f, g)
  <2>1. \A i \in 1..n : i \in 0..n /\ i - 1 \in 0..n
    OBVIOUS
  <2>2. g[0] = 0
    BY <1>1, <1>3 DEF Adds
  <2>3. \A i \in 1..n : g[i] = g[i - 1] + f[i - 1]
    BY <1>1, <1>3, <2>1 DEF Adds
  <2> QED BY <2>2, <2>3 DEF Adds
<1>6. ASSUME NEW m \in 0..n PROVE SumTo(f, m) = g[m]
  <2>1. m \in Nat /\ \A i \in 0..(m - 1) : i \in 0..(n - 1)
    OBVIOUS
  <2>2. \A i \in 1..m : i \in 1..n
    OBVIOUS
  <2>3. Adds(m, f, g)
    BY <1>5, <2>2 DEF Adds
  <2>4. \A i \in 0..(m - 1) : f[i] \in Int
    BY <2>1
  <2> QED BY <2>1, <2>3, <2>4, SumIs
<1> QED
  BY <1>4, <1>5, <1>6

\* Sums are linear.
LEMMA SumLinear ==
    ASSUME NEW n \in Nat, NEW f, NEW g, NEW h, NEW a \in Int, NEW b \in Int,
           \A i \in 0..(n - 1) : f[i] \in Int /\ g[i] \in Int /\ h[i] = a * f[i] + b * g[i]
    PROVE  /\ SumTo(f, n) \in Int /\ SumTo(g, n) \in Int
           /\ SumTo(h, n) = a * SumTo(f, n) + b * SumTo(g, n)
<1>1. PICK sumF \in [0..n -> Int] : Adds(n, f, sumF) /\ \A m \in 0..n : SumTo(f, m) = sumF[m]
  BY Sums
<1>2. PICK sumG \in [0..n -> Int] : Adds(n, g, sumG) /\ \A m \in 0..n : SumTo(g, m) = sumG[m]
  BY Sums
<1> DEFINE H == [i \in 0..n |-> a * sumF[i] + b * sumG[i]]
<1>3. ASSUME NEW i \in 0..(n - 1) PROVE h[i] \in Int
  <2>1. PICK u \in Int, v \in Int : u = f[i] /\ v = g[i]
    OBVIOUS
  <2>2. h[i] = a * u + b * v
    BY <2>1
  <2> QED BY <2>2
<1>4. Adds(n, h, H)
  <2>1. H[0] = 0
    <3>1. sumF[0] = 0 /\ sumG[0] = 0 /\ a * 0 = 0 /\ b * 0 = 0
      BY <1>1, <1>2 DEF Adds
    <3> QED BY <3>1
  <2>2. ASSUME NEW i \in 1..n PROVE H[i] = H[i - 1] + h[i - 1]
    <3>1. i - 1 \in 0..n /\ i \in 0..n /\ i - 1 \in 0..(n - 1)
      OBVIOUS
    <3>2. PICK x \in Int, y \in Int, u \in Int, v \in Int :
             x = sumF[i - 1] /\ y = sumG[i - 1] /\ u = f[i - 1] /\ v = g[i - 1]
      BY <3>1
    <3>3. sumF[i] = x + u /\ sumG[i] = y + v /\ h[i - 1] = a * u + b * v
      BY <1>1, <1>2, <3>1, <3>2 DEF Adds
    <3>4. H[i] = a * (x + u) + b * (y + v) /\ H[i - 1] = a * x + b * y
      BY <3>1, <3>2, <3>3
    <3>5. a * (x + u) + b * (y + v) = (a * x + b * y) + (a * u + b * v)
      OBVIOUS
    <3> QED BY <3>3, <3>4, <3>5
  <2> HIDE DEF H
  <2> QED BY <2>1, <2>2 DEF Adds
<1>5. SumTo(h, n) = H[n]
  <2> HIDE DEF H
  <2> QED BY <1>3, <1>4, SumIs
<1>6. n \in 0..n
  OBVIOUS
<1> QED
  BY <1>1, <1>2, <1>5, <1>6

\* The sum of the same terms.
LEMMA SumEqual ==
    ASSUME NEW n \in Nat, NEW f, NEW g, \A i \in 0..(n - 1) : f[i] \in Int /\ g[i] = f[i]
    PROVE  SumTo(g, n) = SumTo(f, n) /\ SumTo(f, n) \in Int
<1>1. PICK sumF \in [0..n -> Int] : Adds(n, f, sumF) /\ \A m \in 0..n : SumTo(f, m) = sumF[m]
  BY Sums
<1>2. \A i \in 1..n : i - 1 \in 0..(n - 1)
  OBVIOUS
<1>3. Adds(n, g, sumF)
  BY <1>1, <1>2 DEF Adds
<1>4. SumTo(g, n) = sumF[n]
  BY <1>3, SumIs
<1>5. n \in 0..n
  OBVIOUS
<1> QED
  BY <1>1, <1>4, <1>5

\* Terms that are the same modulo r have sums that are.
LEMMA SumSame ==
    ASSUME NEW r \in Nat \ {0}, NEW n \in Nat, NEW f, NEW g,
           \A i \in 0..(n - 1) : f[i] \in Int /\ g[i] \in Int /\ g[i] % r = f[i] % r
    PROVE  /\ SumTo(f, n) \in Int /\ SumTo(g, n) \in Int
           /\ SumTo(g, n) % r = SumTo(f, n) % r
<1>1. PICK sumF \in [0..n -> Int] : Adds(n, f, sumF) /\ \A m \in 0..n : SumTo(f, m) = sumF[m]
  BY Sums
<1>2. PICK sumG \in [0..n -> Int] : Adds(n, g, sumG) /\ \A m \in 0..n : SumTo(g, m) = sumG[m]
  BY Sums
<1> DEFINE S == {i \in 0..n : sumG[i] % r = sumF[i] % r}
<1>3. 0 \in S
  BY <1>1, <1>2 DEF Adds
<1>4. ASSUME NEW i \in 1..n, i - 1 \in S PROVE i \in S
  <2>1. i - 1 \in 0..n /\ i \in 0..n /\ i - 1 \in 0..(n - 1)
    OBVIOUS
  <2>2. PICK x \in Int, y \in Int, u \in Int, v \in Int :
           x = sumF[i - 1] /\ y = sumG[i - 1] /\ u = f[i - 1] /\ v = g[i - 1]
    BY <2>1
  <2>3. sumF[i] = x + u /\ sumG[i] = y + v
    BY <1>1, <1>2, <2>2 DEF Adds
  <2>4. y % r = x % r /\ v % r = u % r
    BY <1>4, <2>1, <2>2
  <2>5. (y + v) % r = (x + u) % r
    <3>1. (y + v) % r = ((y % r) + (v % r)) % r
      BY RestOfSum, Zenon
    <3>2. (x + u) % r = ((x % r) + (u % r)) % r
      BY RestOfSum, Zenon
    <3> QED BY <2>4, <3>1, <3>2, Zenon
  <2> QED BY <2>1, <2>3, <2>5
<1>5. \A i \in 0..n : i \in S
  <2> HIDE DEF S
  <2> QED BY <1>3, <1>4, AllAlong
<1>6. n \in 0..n
  OBVIOUS
<1> QED
  BY <1>1, <1>2, <1>5, <1>6

\* A sum with one term that may differ from 0.
LEMMA SumSingle ==
    ASSUME NEW n \in Nat, NEW k \in 0..(n - 1), NEW f, f[k] \in Int,
           \A i \in 0..(n - 1) : i # k => f[i] = 0
    PROVE  SumTo(f, n) = f[k]
<1>1. PICK x \in Int : x = f[k]
  OBVIOUS
<1> DEFINE g == [i \in 0..n |-> IF i > k THEN x ELSE 0]
<1>2. Adds(n, f, g)
  <2>1. g[0] = 0
    OBVIOUS
  <2>2. ASSUME NEW i \in 1..n PROVE g[i] = g[i - 1] + f[i - 1]
    <3>1. i - 1 \in 0..n /\ i \in 0..n /\ i - 1 \in 0..(n - 1)
      OBVIOUS
    <3>2. CASE i - 1 = k
      BY <1>1, <3>1, <3>2
    <3>3. CASE i - 1 # k
      <4>1. f[i - 1] = 0
        BY <3>1, <3>3
      <4>2. i > k <=> i - 1 > k
        BY <3>3
      <4>3. g[i] = g[i - 1] /\ g[i] \in Int
        BY <3>1, <4>2
      <4> QED BY <4>1, <4>3
    <3> QED BY <3>2, <3>3
  <2> HIDE DEF g
  <2> QED BY <2>1, <2>2 DEF Adds
<1>3. \A i \in 0..(n - 1) : f[i] \in Int
  OBVIOUS
<1>4. SumTo(f, n) = g[n]
  <2> HIDE DEF g
  <2> QED BY <1>2, <1>3, SumIs
<1> QED
  BY <1>1, <1>4

LEMMA SumStep ==
    ASSUME NEW n \in Nat, NEW f, \A i \in 0..(n - 1) : f[i] \in Int
    PROVE  /\ SumTo(f, 0) = 0
           /\ \A k \in 0..n : SumTo(f, k) \in Int
           /\ \A k \in 1..n : SumTo(f, k) = SumTo(f, k - 1) + f[k - 1]
<1>1. PICK F \in [0..n -> Int] : Adds(n, f, F) /\ \A m \in 0..n : SumTo(f, m) = F[m]
  BY Sums
<1>2. 0 \in 0..n /\ \A k \in 1..n : k \in 0..n /\ k - 1 \in 0..n
  OBVIOUS
<1> QED
  BY <1>1, <1>2 DEF Adds

\* The order of summation does not matter.
LEMMA SumSwap ==
    ASSUME NEW n \in Nat, NEW m \in Nat, NEW F,
           \A i \in 0..(n - 1) : \A j \in 0..(m - 1) : F[i][j] \in Int
    PROVE  SumTo([i \in 0..(n - 1) |-> SumTo(F[i], m)], n)
             = SumTo([j \in 0..(m - 1) |-> SumTo([i \in 0..(n - 1) |-> F[i][j]], n)], m)
<1> DEFINE Col(j) == [i \in 0..(n - 1) |-> F[i][j]]
           Cols(k) == [j \in 0..(m - 1) |-> SumTo(Col(j), k)]
           rows == [i \in 0..(n - 1) |-> SumTo(F[i], m)]
           H == [k \in 0..n |-> SumTo(Cols(k), m)]
<1>1. ASSUME NEW j \in 0..(m - 1)
      PROVE  /\ SumTo(Col(j), 0) = 0
             /\ \A k \in 0..n : SumTo(Col(j), k) \in Int
             /\ \A k \in 1..n : SumTo(Col(j), k) = SumTo(Col(j), k - 1) + F[k - 1][j]
  <2>1. PICK c : c = Col(j)
    OBVIOUS
  <2>2. \A i \in 0..(n - 1) : c[i] \in Int /\ c[i] = F[i][j]
    BY <2>1
  <2>3. /\ SumTo(c, 0) = 0
        /\ \A k \in 0..n : SumTo(c, k) \in Int
        /\ \A k \in 1..n : SumTo(c, k) = SumTo(c, k - 1) + c[k - 1]
    <3> HIDE DEF Col
    <3> QED BY <2>2, SumStep
  <2>4. \A k \in 1..n : c[k - 1] = F[k - 1][j]
    <3>1. \A k \in 1..n : k - 1 \in 0..(n - 1)
      OBVIOUS
    <3> QED BY <2>2, <3>1
  <2> HIDE DEF Col
  <2> QED BY <2>1, <2>3, <2>4
<1>2. \A k \in 0..n : \A j \in 0..(m - 1) : Cols(k)[j] = SumTo(Col(j), k) /\ Cols(k)[j] \in Int
  <2> HIDE DEF Col
  <2> QED BY <1>1
<1>3. ASSUME NEW i \in 0..(n - 1) PROVE rows[i] = SumTo(F[i], m) /\ rows[i] \in Int
  <2>1. \A j \in 0..(m - 1) : F[i][j] \in Int
    OBVIOUS
  <2>2. m \in 0..m
    OBVIOUS
  <2>3. SumTo(F[i], m) \in Int
    BY <2>1, <2>2, SumStep
  <2> QED BY <2>3
<1>4. Adds(n, rows, H)
  <2>1. H[0] = 0
    <3>1. PICK c : c = Cols(0)
      OBVIOUS
    <3>2. \A j \in 0..(m - 1) : c[j] \in Int /\ c[j] = 0
      <4> HIDE DEF Col, Cols
      <4> QED BY <1>1, <1>2, <3>1
    <3>3. SumTo(c, m) = 0
      <4>1. PICK z : z = [j \in 0..m |-> 0]
        OBVIOUS
      <4>2. z[m] = 0 /\ z[0] = 0 /\ \A j \in 1..m : z[j] = z[j - 1] + c[j - 1]
        <5>1. \A j \in 1..m : j \in 0..m /\ j - 1 \in 0..m /\ j - 1 \in 0..(m - 1)
          OBVIOUS
        <5> QED BY <3>2, <4>1, <5>1
      <4> HIDE DEF Cols
      <4> QED BY <3>2, <4>2, SumIs DEF Adds
    <3>4. H[0] = SumTo(c, m)
      BY <3>1
    <3> HIDE DEF H, Cols
    <3> QED BY <3>3, <3>4
  <2>2. ASSUME NEW k \in 1..n PROVE H[k] = H[k - 1] + rows[k - 1]
    <3>1. k \in 0..n /\ k - 1 \in 0..n /\ k - 1 \in 0..(n - 1)
      OBVIOUS
    <3>2. PICK h, f, g : h = Cols(k) /\ f = Cols(k - 1) /\ g = F[k - 1]
      OBVIOUS
    <3>3. \A j \in 0..(m - 1) : f[j] \in Int /\ g[j] \in Int /\ h[j] = f[j] + g[j]
      <4> HIDE DEF Col, Cols
      <4> QED BY <1>1, <1>2, <3>1, <3>2
    <3>4. \A j \in 0..(m - 1) : f[j] \in Int /\ g[j] \in Int /\ h[j] = 1 * f[j] + 1 * g[j]
      BY <3>3
    <3>5. /\ SumTo(f, m) \in Int /\ SumTo(g, m) \in Int
          /\ SumTo(h, m) = 1 * SumTo(f, m) + 1 * SumTo(g, m)
      <4> HIDE DEF Cols
      <4> QED BY <3>4, SumLinear
    <3>6. H[k] = SumTo(h, m) /\ H[k - 1] = SumTo(f, m) /\ rows[k - 1] = SumTo(g, m)
      BY <3>1, <3>2
    <3> HIDE DEF H, Cols, rows
    <3> QED BY <3>5, <3>6
  <2> HIDE DEF H, rows
  <2> QED BY <2>1, <2>2 DEF Adds
<1>5. SumTo(rows, n) = H[n]
  <2> HIDE DEF H, rows
  <2> QED BY <1>3, <1>4, SumIs
<1>6. H[n] = SumTo(Cols(n), m)
  OBVIOUS
<1> QED
  BY <1>5, <1>6

\* Where a rotation takes an index.
LEMMA Rotation ==
    ASSUME NEW n \in Nat \ {0}, NEW i \in 0..(n - 1), NEW j \in 0..(n - 1)
    PROVE  (i + j) % n = IF i + j < n THEN i + j ELSE i + j - n
<1>1. CASE i + j < n
  <2>1. i + j \in 0..(n - 1) /\ 0 \in Int /\ 0 * n + (i + j) = i + j
    BY <1>1
  <2>2. (0 * n + (i + j)) % n = i + j
    BY ONLY <2>1, n \in Nat \ {0}, Quotient
  <2> QED BY <1>1, <2>1, <2>2
<1>2. CASE ~(i + j < n)
  <2>1. PICK k \in 0..(n - 1) : k = i + j - n /\ 1 * n + k = i + j
    BY <1>2
  <2>2. (1 * n + k) % n = k
    BY Quotient
  <2> QED BY <1>2, <2>1, <2>2
<1> QED
  BY <1>1, <1>2

\* A rotation of the terms leaves the sum.
LEMMA SumRotates ==
    ASSUME NEW n \in Nat \ {0}, NEW j \in 0..(n - 1), NEW f, NEW h,
           \A i \in 0..(n - 1) : f[i] \in Int,
           \A i \in 0..(n - 1) : h[i] = IF i + j < n THEN f[i + j] ELSE f[i + j - n]
    PROVE  SumTo(h, n) = SumTo(f, n)
<1>0. n \in Nat /\ \A i \in 0..(n - 1) : f[i] \in Int
  OBVIOUS
<1>1. PICK P \in [0..n -> Int] : Adds(n, f, P) /\ \A m \in 0..n : SumTo(f, m) = P[m]
  BY ONLY <1>0, Sums
<1>2. P[0] = 0 /\ \A i \in 1..n : P[i] = P[i - 1] + f[i - 1]
  BY <1>1 DEF Adds
<1> DEFINE H == [m \in 0..n |-> IF m <= n - j THEN P[j + m] - P[j] ELSE (P[n] - P[j]) + P[m - n + j]]
<1>3. H[0] = 0
  <2>1. 0 <= n - j /\ j + 0 = j /\ j \in 0..n /\ 0 \in 0..n
    OBVIOUS
  <2> QED BY <2>1
<1>4. ASSUME NEW m \in 1..n PROVE H[m] = H[m - 1] + h[m - 1] /\ h[m - 1] \in Int
  <2>1. m \in 0..n /\ m - 1 \in 0..n /\ m - 1 \in 0..(n - 1) /\ j \in 0..n /\ n \in 0..n
    OBVIOUS
  <2>2. CASE m <= n - j
    <3>1. j + m \in 1..n /\ j + m - 1 \in 0..(n - 1) /\ j + (m - 1) = j + m - 1 /\ (m - 1) + j = j + m - 1
      BY <2>2
    <3>2. H[m] = P[j + m] - P[j] /\ H[m - 1] = P[j + m - 1] - P[j]
      BY <2>1, <2>2, <3>1
    <3>3. h[m - 1] = f[j + m - 1]
      BY <2>1, <2>2, <3>1
    <3>4. P[j + m] = P[j + m - 1] + f[j + m - 1]
      BY <1>2, <3>1
    <3>5. P[j + m - 1] \in Int /\ P[j] \in Int /\ f[j + m - 1] \in Int
      BY <2>1, <3>1
    <3> QED BY ONLY <3>2, <3>3, <3>4, <3>5
  <2>3. CASE ~(m <= n - j)
    <3>1. PICK k \in 1..n : k = m - n + j /\ k - 1 \in 0..n /\ k - 1 \in 0..(n - 1)
      BY <2>3
    <3>2. H[m] = (P[n] - P[j]) + P[k]
      BY <2>1, <2>3, <3>1
    <3>3. H[m - 1] = (P[n] - P[j]) + P[k - 1]
      <4>1. CASE m - 1 <= n - j
        <5>1. k - 1 = 0 /\ j + (m - 1) = n
          BY <2>3, <3>1, <4>1
        <5>2. H[m - 1] = P[n] - P[j]
          BY <2>1, <4>1, <5>1
        <5> QED BY <1>2, <2>1, <5>1, <5>2
      <4>2. CASE ~(m - 1 <= n - j)
        <5>1. (m - 1) - n + j = k - 1
          BY <3>1
        <5> QED BY <2>1, <4>2, <5>1
      <4> QED BY <4>1, <4>2
    <3>4. h[m - 1] = f[k - 1]
      <4>1. ~((m - 1) + j < n) /\ (m - 1) + j - n = k - 1
        BY <2>3, <3>1
      <4> QED BY <2>1, <4>1
    <3>5. P[k] = P[k - 1] + f[k - 1]
      BY <1>2
    <3>6. P[k - 1] \in Int /\ P[j] \in Int /\ P[n] \in Int /\ f[k - 1] \in Int
      BY <2>1, <3>1
    <3> QED BY ONLY <3>2, <3>3, <3>4, <3>5, <3>6
  <2> QED BY <2>2, <2>3
<1>5. SumTo(h, n) = H[n]
  <2>1. Adds(n, h, H)
    <3> HIDE DEF H
    <3> QED BY <1>3, <1>4 DEF Adds
  <2>2. \A i \in 0..(n - 1) : h[i] \in Int
    <3>1. ASSUME NEW i \in 0..(n - 1) PROVE h[i] \in Int
      <4>1. i + 1 \in 1..n /\ (i + 1) - 1 = i
        OBVIOUS
      <4> HIDE DEF H
      <4> QED BY <1>4, <4>1
    <3> QED BY <3>1
  <2> HIDE DEF H
  <2> QED BY <2>1, <2>2, SumIs
<1>6. H[n] = P[n]
  <2>1. n \in 0..n /\ j \in 0..n /\ P[n] \in Int /\ P[j] \in Int
    OBVIOUS
  <2>2. CASE n <= n - j
    <3>1. j = 0 /\ j + n = n
      BY <2>2
    <3> QED BY <1>2, <2>1, <2>2, <3>1
  <2>3. CASE ~(n <= n - j)
    <3>1. n - n + j = j
      OBVIOUS
    <3> QED BY <2>1, <2>3, <3>1
  <2> QED BY <2>2, <2>3
<1>7. n \in 0..n
  OBVIOUS
<1> QED
  BY <1>1, <1>5, <1>6, <1>7

\* A sum over the bits is one over the numbers that have them.
LEMMA SumPairs ==
    ASSUME NEW n \in Nat, NEW f, NEW g, \A i \in 0..(2 * n - 1) : f[i] \in Int,
           \A i \in 0..(n - 1) : g[i] = f[2 * i] + f[2 * i + 1]
    PROVE  SumTo(f, 2 * n) = SumTo(g, n)
<1>0. PICK N \in Nat : N = 2 * n
  OBVIOUS
<1>1. N = 2 * n /\ \A i \in 0..(N - 1) : f[i] \in Int
  BY <1>0
<1>2. PICK P \in [0..N -> Int] : Adds(N, f, P) /\ \A m \in 0..N : SumTo(f, m) = P[m]
  <2>1. \A i \in 0..(N - 1) : f[i] \in Int
    BY <1>1
  <2> QED BY ONLY <2>1, N \in Nat, Sums
<1>3. P[0] = 0 /\ \A i \in 1..N : P[i] = P[i - 1] + f[i - 1]
  BY <1>2 DEF Adds
<1> DEFINE H == [i \in 0..n |-> P[2 * i]]
<1>4. H[0] = 0
  BY <1>3
<1>5. ASSUME NEW i \in 1..n PROVE H[i] = H[i - 1] + g[i - 1]
  <2>1. PICK k \in 0..(N - 2) : k = 2 * (i - 1) /\ 2 * i = k + 2 /\ k + 1 \in 1..N /\ k + 2 \in 1..N
    BY <1>1
  <2>2. P[k + 1] = P[k] + f[k]
    <3>1. (k + 1) - 1 = k
      OBVIOUS
    <3> QED BY <1>3, <2>1, <3>1
  <2>3. P[k + 2] = P[k + 1] + f[k + 1]
    <3>1. (k + 2) - 1 = k + 1
      OBVIOUS
    <3> QED BY <1>3, <2>1, <3>1
  <2>4. i - 1 \in 0..(n - 1) /\ i - 1 \in 0..n /\ i \in 0..n
    OBVIOUS
  <2>5. g[i - 1] = f[k] + f[k + 1]
    BY <2>1, <2>4
  <2>6. H[i] = P[k + 2] /\ H[i - 1] = P[k]
    BY <2>1, <2>4
  <2>7. P[k] \in Int /\ f[k] \in Int /\ f[k + 1] \in Int
    <3>1. k \in 0..N /\ k \in 0..(2 * n - 1) /\ k + 1 \in 0..(2 * n - 1)
      BY <1>1
    <3> QED BY <3>1
  <2> QED BY ONLY <2>2, <2>3, <2>5, <2>6, <2>7
<1>6. \A i \in 0..(n - 1) : g[i] \in Int
  <2>1. \A i \in 0..(n - 1) : 2 * i \in 0..(2 * n - 1) /\ 2 * i + 1 \in 0..(2 * n - 1)
    OBVIOUS
  <2>2. \A i \in 0..(n - 1) : f[2 * i] \in Int /\ f[2 * i + 1] \in Int
    BY <2>1
  <2> QED BY <2>2
<1>7. SumTo(g, n) = H[n]
  <2>1. Adds(n, g, H)
    <3> HIDE DEF H
    <3> QED BY <1>4, <1>5 DEF Adds
  <2> HIDE DEF H
  <2> QED BY <1>6, <2>1, SumIs
<1>8. N \in 0..N /\ H[n] = P[N]
  BY <1>1
<1> QED
  BY <1>1, <1>2, <1>7, <1>8

-----------------------------------------------------------------------------
(* The sigma proof.                                                          *)

LEMMA RlweParameters ==
    /\ Dim \in Nat \ {0} /\ 2 * Dim \in Nat /\ 4 * Dim \in Nat
    /\ RingQ \in Nat \ {0} /\ Order \in Nat \ {0} /\ Order \in Nat \ {0, 1} /\ Order - 1 \in Nat \ {0}
    /\ \A d \in 2..(Order - 1) : Order % d # 0
    /\ 0 % Order = 0
<1>1. Dim \in Nat \ {0, 1} /\ RingQ \in Nat \ {0, 1} /\ Order \in Nat \ {0, 1}
  BY RlweAssumption, Zenon
<1>2. \A d \in 2..(Order - 1) : Order % d # 0
  BY RlweAssumption, Zenon
<1>3. 0 % Order = 0
  <2>1. (0 * Order + 0) % Order = 0
    <3>1. 0 \in Int /\ 0 \in 0..(Order - 1) /\ Order \in Nat \ {0}
      BY ONLY <1>1
    <3> QED BY ONLY <3>1, Quotient
  <2>2. 0 * Order + 0 = 0
    BY ONLY <1>1
  <2> QED BY ONLY <2>1, <2>2
<1>4. /\ Dim \in Nat \ {0} /\ 2 * Dim \in Nat /\ 4 * Dim \in Nat
      /\ RingQ \in Nat \ {0} /\ Order \in Nat \ {0} /\ Order - 1 \in Nat \ {0}
  BY ONLY <1>1
<1> QED
  BY ONLY <1>1, <1>2, <1>3, <1>4

\* A challenge that is not 0 tells what is not the same modulo the order.
LEMMA Challenged ==
    ASSUME NEW c \in 1..(Order - 1), NEW a \in Int, NEW x \in Int, NEW y \in Int
    PROVE  (a + c * x) % Order = ((a % Order) + c * y) % Order <=> y % Order = x % Order
<1>1. PICK b \in Int : b = a % Order
  BY RlweParameters, SameRest
<1>2. PICK z \in Int : a = b + z * Order
  <2>1. b % Order = a % Order
    BY <1>1, RlweParameters, SameRest
  <2> QED BY <2>1, RlweParameters, SameWhen
<1>3. (a + c * x) % Order = ((a % Order) + c * y) % Order
         <=> ((a + c * x) - (b + c * y)) % Order = 0
  <2>1. PICK u \in Int, v \in Int : u = a + c * x /\ v = b + c * y
    OBVIOUS
  <2>2. u % Order = v % Order <=> (u - v) % Order = 0
    BY RlweParameters, SameDifference
  <2>3. (a % Order) + c * y = v
    BY <1>1, <2>1
  <2> QED BY <2>1, <2>2, <2>3, Zenon
<1>4. PICK d \in Int : d = x - y
  OBVIOUS
<1>5. (a + c * x) - (b + c * y) = c * d + z * Order
  <2>1. c * d = c * x - c * y /\ c * x \in Int /\ c * y \in Int /\ z * Order \in Int
    BY <1>4, RlweParameters
  <2>2. PICK u \in Int, v \in Int, m \in Int : u = c * x /\ v = c * y /\ m = z * Order
    BY <2>1
  <2>3. c * d = u - v /\ a = b + m
    BY <1>2, <2>1, <2>2
  <2>4. (a + u) - (b + v) = (u - v) + m
    BY <2>3
  <2> QED BY <2>2, <2>3, <2>4
<1>6. (c * d + z * Order) % Order = (c * d) % Order
  <2>1. c * d \in Int /\ c * d + z * Order \in Int
    BY RlweParameters
  <2> QED BY ONLY <2>1, z \in Int, RlweParameters, SameWhen
<1>7. (c * d) % Order = 0 <=> d % Order = 0
  <2>1. ASSUME (c * d) % Order = 0 PROVE d % Order = 0
    BY <2>1, RlweParameters, NoZeroDivisors
  <2>2. ASSUME d % Order = 0 PROVE (c * d) % Order = 0
    <3>0. c \in Int
      OBVIOUS
    <3>1. (c * d) % Order = (c * (d % Order)) % Order
      BY <3>0, RlweParameters, RestOfProduct, Zenon
    <3>2. c * 0 = 0
      OBVIOUS
    <3> QED BY <2>2, <3>1, <3>2, RlweParameters
  <2> QED BY <2>1, <2>2
<1>8. d % Order = 0 <=> x % Order = y % Order
  BY <1>4, RlweParameters, SameDifference
<1> QED
  BY <1>3, <1>5, <1>6, <1>7, <1>8

\* The terms of a row, and their sum.
Terms(x, row, w) == [p \in 0..(w - 1) |-> x[p] * row[p]]

\* A homomorphism of numbers, with its image.
IsPhi(phi, w, h) ==
    /\ phi.width = w /\ phi.height = h
    /\ \A r \in 0..(h - 1) :
           phi.image[r] \in Int /\ \A p \in 0..(w - 1) : phi.rows[r][p] \in Int

LEMMA OracleInRange ==
    ASSUME NEW w \in Nat, NEW h \in Nat, NEW phi, IsPhi(phi, w, h),
           NEW commitment, \A r \in 0..(h - 1) : commitment[r] \in Int
    PROVE  Oracle(commitment, phi) \in 1..(Order - 1)
<1> DEFINE f == [r \in 0..(h - 1) |-> commitment[r] + 2 * phi.image[r] + SumTo(phi.rows[r], w)]
<1>1. \A r \in 0..(h - 1) : f[r] \in Int
  <2>1. ASSUME NEW r \in 0..(h - 1) PROVE f[r] \in Int
    <3>1. \A p \in 0..(w - 1) : phi.rows[r][p] \in Int
      BY DEF IsPhi
    <3>2. w \in 0..w
      OBVIOUS
    <3>3. SumTo(phi.rows[r], w) \in Int
      BY <3>1, <3>2, SumStep
    <3>4. phi.image[r] \in Int /\ commitment[r] \in Int
      BY DEF IsPhi
    <3> QED BY <3>3, <3>4
  <2> QED BY <2>1
<1>2. PICK x \in Int : x = SumTo(f, h)
  <2>1. h \in 0..h
    OBVIOUS
  <2> HIDE DEF f
  <2> QED BY <1>1, <2>1, SumStep
<1>3. Oracle(commitment, phi) = 1 + (x % (Order - 1))
  BY <1>2 DEF Oracle, IsPhi
<1>4. x % (Order - 1) \in 0..((Order - 1) - 1)
  BY RlweParameters, Division
<1> QED
  BY <1>3, <1>4, RlweParameters

\* What the verifier accepts of a prover that follows the protocol: every row of the
\* homomorphism takes the prover's numbers to the image.
LEMMA VerifiedRows ==
    ASSUME NEW w \in Nat, NEW h \in Nat, NEW phi, IsPhi(phi, w, h), NEW x, NEW s,
           \A p \in 0..(w - 1) : x[p] \in Int /\ s[p] \in Int
    PROVE  VerifyImage(phi, ProveImage(phi, x, s))
             <=> \A r \in 0..(h - 1) :
                     phi.image[r] % Order = SumTo(Terms(x, phi.rows[r], w), w) % Order
<1>1. phi.width = w /\ phi.height = h
  BY DEF IsPhi
<1>2. PICK com : com = Image(phi, s)
  OBVIOUS
<1>3. ASSUME NEW y, NEW r \in 0..(h - 1)
      PROVE  Image(phi, y)[r] = SumTo(Terms(y, phi.rows[r], w), w) % Order
  BY <1>1 DEF Image, Terms
<1>4. ASSUME NEW y, \A p \in 0..(w - 1) : y[p] \in Int, NEW r \in 0..(h - 1)
      PROVE  /\ SumTo(Terms(y, phi.rows[r], w), w) \in Int
             /\ \A p \in 0..(w - 1) : /\ Terms(y, phi.rows[r], w)[p] = y[p] * phi.rows[r][p]
                                      /\ Terms(y, phi.rows[r], w)[p] \in Int
  <2>1. PICK t : t = Terms(y, phi.rows[r], w)
    OBVIOUS
  <2>2. \A p \in 0..(w - 1) : t[p] = y[p] * phi.rows[r][p] /\ t[p] \in Int
    <3>1. \A p \in 0..(w - 1) : phi.rows[r][p] \in Int
      BY DEF IsPhi
    <3> QED BY <1>4, <2>1, <3>1 DEF Terms
  <2>3. w \in 0..w
    OBVIOUS
  <2>4. SumTo(t, w) \in Int
    BY <2>2, <2>3, SumStep
  <2> QED BY <2>1, <2>2, <2>4
<1>5. \A r \in 0..(h - 1) : com[r] \in Int
  <2>1. ASSUME NEW r \in 0..(h - 1) PROVE com[r] \in Int
    <3>1. PICK y \in Int : y = SumTo(Terms(s, phi.rows[r], w), w)
      BY <1>4
    <3>2. com[r] = y % Order
      BY <1>2, <1>3, <3>1
    <3> QED BY <3>2, RlweParameters, SameRest
  <2> QED BY <2>1
<1>6. PICK c \in 1..(Order - 1) : c = Oracle(com, phi)
  BY <1>5, OracleInRange
<1>7. PICK z : z = [p \in 0..(w - 1) |-> (s[p] + c * x[p]) % Order]
  OBVIOUS
<1>8. ProveImage(phi, x, s) = [commitment |-> com, z |-> z]
  BY <1>1, <1>2, <1>6, <1>7 DEF ProveImage
<1>9. ASSUME NEW r \in 0..(h - 1)
      PROVE  Image(phi, z)[r] = (com[r] + c * phi.image[r]) % Order
               <=> phi.image[r] % Order = SumTo(Terms(x, phi.rows[r], w), w) % Order
  <2>1. PICK row : row = phi.rows[r] /\ \A p \in 0..(w - 1) : row[p] \in Int
    BY DEF IsPhi
  <2>2. PICK y \in Int : y = phi.image[r]
    BY DEF IsPhi
  <2>3. \A p \in 0..(w - 1) : z[p] \in Int
    <3>1. \A p \in 0..(w - 1) : s[p] + c * x[p] \in Int
      OBVIOUS
    <3> QED BY <1>7, <3>1, RlweParameters, SameRest
  <2>4. PICK f : f = Terms(s, row, w)
    OBVIOUS
  <2>5. PICK g : g = Terms(x, row, w)
    OBVIOUS
  <2>6. PICK k : k = Terms(z, row, w)
    OBVIOUS
  <2>7. PICK t : t = [p \in 0..(w - 1) |-> f[p] + c * g[p]]
    OBVIOUS
  <2>8. \A p \in 0..(w - 1) : /\ f[p] \in Int /\ f[p] = s[p] * row[p]
                              /\ g[p] \in Int /\ g[p] = x[p] * row[p]
                              /\ k[p] \in Int /\ k[p] = z[p] * row[p]
    BY <1>4, <2>1, <2>3, <2>4, <2>5, <2>6
  <2>9. SumTo(t, w) = SumTo(f, w) + c * SumTo(g, w) /\ SumTo(f, w) \in Int /\ SumTo(g, w) \in Int
    <3>1. \A p \in 0..(w - 1) : f[p] \in Int /\ g[p] \in Int /\ t[p] = 1 * f[p] + c * g[p]
      BY <2>7, <2>8
    <3>2. /\ SumTo(t, w) = 1 * SumTo(f, w) + c * SumTo(g, w)
          /\ SumTo(f, w) \in Int /\ SumTo(g, w) \in Int
      BY <3>1, SumLinear
    <3> QED BY <3>2
  <2>10. SumTo(k, w) % Order = SumTo(t, w) % Order
    <3>1. ASSUME NEW p \in 0..(w - 1) PROVE k[p] \in Int /\ t[p] \in Int /\ k[p] % Order = t[p] % Order
      <4>1. PICK a \in Int, b \in Int, d \in Int : a = s[p] /\ b = x[p] /\ d = row[p]
        BY <2>1
      <4>2. PICK e \in Int : e = a + c * b
        OBVIOUS
      <4>3. (d * e) % Order = (d * (e % Order)) % Order
        BY RlweParameters, RestOfProduct, Zenon
      <4>4. k[p] = (e % Order) * d
        BY <1>7, <2>8, <4>1, <4>2
      <4>5. e % Order \in Int
        BY RlweParameters, SameRest
      <4>6. k[p] = d * (e % Order)
        BY <4>4, <4>5
      <4>7. t[p] = a * d + c * (b * d)
        BY <2>7, <2>8, <4>1
      <4>8. t[p] = d * e
        BY <4>2, <4>7
      <4>9. t[p] \in Int
        BY <4>8
      <4> QED BY <2>8, <4>3, <4>6, <4>8, <4>9
    <3>2. w \in Nat /\ Order \in Nat \ {0}
      BY RlweParameters
    <3> QED BY ONLY <3>1, <3>2, SumSame
  <2>11. PICK a \in Int, b \in Int : a = SumTo(f, w) /\ b = SumTo(g, w)
    BY <2>9
  <2>12. Image(phi, z)[r] = (a + c * b) % Order
    BY <1>3, <2>1, <2>6, <2>9, <2>10, <2>11
  <2>13. com[r] = a % Order
    BY <1>2, <1>3, <2>1, <2>4, <2>11
  <2>14. (a + c * b) % Order = ((a % Order) + c * y) % Order <=> y % Order = b % Order
    BY Challenged
  <2> QED BY <2>1, <2>2, <2>5, <2>11, <2>12, <2>13, <2>14
<1>10. DOMAIN com = 0..(h - 1)
  BY <1>1, <1>2 DEF Image
<1>11. VerifyImage(phi, [commitment |-> com, z |-> z])
         <=> \A r \in 0..(h - 1) : Image(phi, z)[r] = (com[r] + c * phi.image[r]) % Order
  BY <1>1, <1>6, <1>10 DEF VerifyImage
<1> QED
  BY <1>8, <1>9, <1>11

\* Coefficients, and the places of their bits.
LEMMA PlacesOfBits ==
    /\ Index = 0..(Dim - 1) /\ Places = 0..(2 * Dim - 1)
    /\ \A p \in Places : p \div 2 \in Index /\ BitWeight(p) \in 1..2
    /\ \A i \in Index : /\ 2 * i \in Places /\ (2 * i) \div 2 = i /\ BitWeight(2 * i) = 1
                        /\ 2 * i + 1 \in Places /\ (2 * i + 1) \div 2 = i /\ BitWeight(2 * i + 1) = 2
<1>1. PICK n \in Nat : n = Dim
  BY RlweParameters
<1>2. Index = 0..(n - 1) /\ Places = 0..(2 * n - 1)
  BY <1>1 DEF Index, Places
<1>3. \A p \in 0..(2 * n - 1) : p \div 2 \in 0..(n - 1) /\ p % 2 \in 0..1
  OBVIOUS
<1>4. \A i \in 0..(n - 1) : /\ 2 * i \in 0..(2 * n - 1) /\ (2 * i) \div 2 = i /\ (2 * i) % 2 = 0
                            /\ 2 * i + 1 \in 0..(2 * n - 1) /\ (2 * i + 1) \div 2 = i
                            /\ (2 * i + 1) % 2 = 1
  OBVIOUS
<1> QED
  BY <1>1, <1>2, <1>3, <1>4 DEF BitWeight

LEMMA BitDecomposition ==
    ASSUME NEW v \in [Index -> -1..1]
    PROVE  /\ BitDecom(v) \in [Places -> 0..1]
           /\ \A i \in Index : BitDecom(v)[2 * i] + 2 * BitDecom(v)[2 * i + 1] = v[i] + 1
<1>1. ASSUME NEW p \in Places PROVE BitDecom(v)[p] \in 0..1
  <2>1. PICK x \in 0..2 : x = v[p \div 2] + 1
    BY PlacesOfBits
  <2>2. BitWeight(p) = 1 \/ BitWeight(p) = 2
    BY PlacesOfBits
  <2>3. BitDecom(v)[p] = (x \div BitWeight(p)) % 2
    BY <2>1 DEF BitDecom
  <2>4. (x \div 1) % 2 \in 0..1 /\ (x \div 2) % 2 \in 0..1
    OBVIOUS
  <2> QED BY <2>2, <2>3, <2>4
<1>2. ASSUME NEW i \in Index
      PROVE  BitDecom(v)[2 * i] + 2 * BitDecom(v)[2 * i + 1] = v[i] + 1
  <2>1. PICK x \in 0..2 : x = v[i] + 1
    OBVIOUS
  <2>2. BitDecom(v)[2 * i] = (x \div 1) % 2 /\ BitDecom(v)[2 * i + 1] = (x \div 2) % 2
    BY <2>1, PlacesOfBits DEF BitDecom
  <2>3. ((x \div 1) % 2) + 2 * ((x \div 2) % 2) = x
    OBVIOUS
  <2> QED BY <2>1, <2>2, <2>3
<1>3. DOMAIN BitDecom(v) = Places /\ BitDecom(v) = [p \in Places |-> BitDecom(v)[p]]
  BY DEF BitDecom
<1> QED
  BY <1>1, <1>2, <1>3

\* A row with one base gives one product.
LEMMA RowOfOne ==
    ASSUME NEW w \in Nat, NEW k \in 0..(w - 1), NEW x, NEW row, row[k] \in Int,
           \A p \in 0..(w - 1) : x[p] \in Int, \A p \in 0..(w - 1) : p # k => row[p] = 0
    PROVE  SumTo(Terms(x, row, w), w) = x[k] * row[k]
<1>1. PICK f : f = Terms(x, row, w)
  OBVIOUS
<1>2. f[k] = x[k] * row[k] /\ f[k] \in Int
  BY <1>1 DEF Terms
<1>3. \A p \in 0..(w - 1) : p # k => f[p] = 0
  BY <1>1 DEF Terms
<1>4. SumTo(f, w) = f[k]
  BY <1>2, <1>3, SumSingle
<1> QED
  BY <1>1, <1>2, <1>4

\* Bits satisfy the rows that say that they are bits.
LEMMA BitRowsHold ==
    ASSUME NEW base \in [Index -> Int], NEW bits \in [Places -> 0..1], NEW com,
           com = [p \in Places |-> (bits[p] * base[p \div 2]) % Order]
    PROVE  /\ IsPhi(BitRows(base, com), 2 * Dim, 4 * Dim)
           /\ \A r \in 0..(4 * Dim - 1) :
                  BitRows(base, com).image[r] % Order
                    = SumTo(Terms(bits, BitRows(base, com).rows[r], 2 * Dim), 2 * Dim) % Order
<1>1. PICK w \in Nat, h \in Nat : w = 2 * Dim /\ h = 4 * Dim
  BY RlweParameters
<1>2. PICK phi : phi = BitRows(base, com)
  OBVIOUS
<1>3. phi.width = w /\ phi.height = h
  BY <1>1, <1>2 DEF BitRows
<1>4. ASSUME NEW p \in Places PROVE com[p] \in Int /\ com[p] = (bits[p] * base[p \div 2]) % Order
  <2>1. bits[p] * base[p \div 2] \in Int
    BY PlacesOfBits
  <2> QED BY <2>1, RlweParameters, SameRest
<1>5. \A r \in 0..(h - 1) : r \div 2 \in Places
  <2>1. h = 2 * w
    BY <1>1, RlweParameters
  <2>2. \A r \in 0..(2 * w - 1) : r \div 2 \in 0..(w - 1)
    OBVIOUS
  <2> QED BY <1>1, <2>1, <2>2, PlacesOfBits
<1>6. Places = 0..(w - 1)
  BY <1>1, PlacesOfBits
<1>7. ASSUME NEW r \in 0..(h - 1)
      PROVE  /\ phi.image[r] = com[r \div 2]
             /\ \A p \in 0..(w - 1) :
                    phi.rows[r][p] = IF p # r \div 2 THEN 0
                                     ELSE IF r % 2 = 0 THEN base[p \div 2] ELSE com[p]
  BY <1>1, <1>2, <1>6 DEF BitRows
<1>8. IsPhi(phi, w, h)
  <2>1. ASSUME NEW r \in 0..(h - 1), NEW p \in 0..(w - 1)
        PROVE  phi.image[r] \in Int /\ phi.rows[r][p] \in Int
    <3>1. base[p \div 2] \in Int /\ com[p] \in Int /\ com[r \div 2] \in Int
      BY <1>4, <1>5, <1>6, PlacesOfBits
    <3>2. phi.rows[r][p] = 0 \/ phi.rows[r][p] = base[p \div 2] \/ phi.rows[r][p] = com[p]
      BY <1>7, Zenon
    <3>3. phi.image[r] \in Int
      BY <1>7, <3>1
    <3> QED BY <3>1, <3>2, <3>3
  <2>2. ASSUME NEW r \in 0..(h - 1) PROVE phi.image[r] \in Int
    BY <1>4, <1>5, <1>7
  <2> QED BY <1>3, <2>1, <2>2 DEF IsPhi
<1>9. ASSUME NEW r \in 0..(h - 1)
      PROVE  phi.image[r] % Order = SumTo(Terms(bits, phi.rows[r], w), w) % Order
  <2>1. PICK k \in 0..(w - 1) : k = r \div 2
    BY <1>5, <1>6
  <2>2. PICK b \in Int : b = base[k \div 2]
    BY <1>6, PlacesOfBits
  <2>3. PICK x \in 0..1 : x = bits[k]
    BY <1>6
  <2>4. PICK y \in Int : y = com[k] /\ y = (x * b) % Order
    BY <1>4, <1>6, <2>2, <2>3
  <2>5. PICK row : row = phi.rows[r]
    OBVIOUS
  <2>6. \A p \in 0..(w - 1) : bits[p] \in Int
    BY <1>6
  <2>7. phi.image[r] = y
    BY <1>7, <2>1, <2>4
  <2>8. y % Order = (x * b) % Order
    <3>1. PICK v \in Int : v = x * b
      OBVIOUS
    <3>2. (v % Order) % Order = v % Order
      BY RlweParameters, SameRest
    <3> QED BY <2>4, <3>1, <3>2
  <2>9. CASE r % 2 = 0
    <3>1. row[k] = b /\ \A p \in 0..(w - 1) : p # k => row[p] = 0
      BY <1>7, <2>1, <2>2, <2>5, <2>9
    <3>2. SumTo(Terms(bits, row, w), w) = bits[k] * row[k]
      BY <2>6, <3>1, RowOfOne, Zenon
    <3> QED BY <2>3, <2>5, <2>7, <2>8, <3>1, <3>2
  <2>10. CASE r % 2 # 0
    <3>1. row[k] = y /\ \A p \in 0..(w - 1) : p # k => row[p] = 0
      BY <1>7, <2>1, <2>4, <2>5, <2>10
    <3>2. SumTo(Terms(bits, row, w), w) = bits[k] * row[k]
      BY <2>6, <3>1, RowOfOne, Zenon
    <3>3. CASE x = 0
      <4>1. x * y = 0 /\ x * b = 0
        BY <3>3
      <4> QED BY <2>3, <2>5, <2>7, <2>8, <3>1, <3>2, <4>1
    <3>4. CASE x = 1
      <4>1. x * y = y
        BY <3>4
      <4> QED BY <2>3, <2>5, <2>7, <3>1, <3>2, <4>1
    <3> QED BY <3>3, <3>4
  <2> QED BY <2>9, <2>10
<1> QED
  BY <1>1, <1>2, <1>8, <1>9

\* So do the carries theirs.
LEMMA CarryRowsHold ==
    ASSUME NEW base \in [Index -> Int], NEW x \in [Index -> Int], NEW com,
           com = [i \in Index |-> (x[i] * base[i]) % Order]
    PROVE  /\ IsPhi(CarryRows(base, com), Dim, Dim)
           /\ \A r \in 0..(Dim - 1) :
                  CarryRows(base, com).image[r] % Order
                    = SumTo(Terms(x, CarryRows(base, com).rows[r], Dim), Dim) % Order
<1>1. PICK w \in Nat : w = Dim
  BY RlweParameters
<1>2. PICK phi : phi = CarryRows(base, com)
  OBVIOUS
<1>3. Index = 0..(w - 1)
  BY <1>1, PlacesOfBits
<1>4. ASSUME NEW i \in Index PROVE com[i] \in Int /\ com[i] % Order = (x[i] * base[i]) % Order
  <2>1. PICK y \in Int : y = x[i] * base[i]
    OBVIOUS
  <2> QED BY <2>1, RlweParameters, SameRest
<1>5. /\ phi.width = w /\ phi.height = w /\ phi.image = com
      /\ \A r \in Index : \A p \in Index : phi.rows[r][p] = IF p # r THEN 0 ELSE base[r]
  BY <1>1, <1>2 DEF CarryRows
<1>6. IsPhi(phi, w, w)
  <2>1. ASSUME NEW r \in 0..(w - 1) PROVE phi.image[r] \in Int
    BY <1>3, <1>4, <1>5
  <2>2. ASSUME NEW r \in 0..(w - 1), NEW p \in 0..(w - 1) PROVE phi.rows[r][p] \in Int
    <3>1. base[r] \in Int
      BY <1>3
    <3> QED BY <1>3, <1>5, <3>1
  <2> QED BY <1>5, <2>1, <2>2 DEF IsPhi
<1>7. ASSUME NEW r \in 0..(w - 1)
      PROVE  phi.image[r] % Order = SumTo(Terms(x, phi.rows[r], w), w) % Order
  <2>1. PICK b \in Int : b = base[r]
    BY <1>3
  <2>2. PICK row : row = phi.rows[r]
    OBVIOUS
  <2>3. row[r] = b /\ (\A p \in 0..(w - 1) : x[p] \in Int) /\ \A p \in 0..(w - 1) : p # r => row[p] = 0
    BY <1>3, <1>5, <2>1, <2>2
  <2>4. SumTo(Terms(x, row, w), w) = x[r] * row[r]
    BY <2>1, <2>3, RowOfOne, Zenon
  <2> QED BY <1>3, <1>4, <1>5, <2>1, <2>2, <2>3, <2>4
<1> QED
  BY <1>1, <1>2, <1>6, <1>7

\* What rlwe_gen makes.
IsInstance(x) ==
    /\ x.a \in [Index -> Int] /\ x.b \in [Index -> Int] /\ x.k \in [Index -> Int]
    /\ x.s \in [Index -> -1..1] /\ x.e \in [Index -> -1..1]
    /\ \A i \in Index : x.b[i] + RingQ * x.k[i] = Product(x.a, x.s)[i] + x.e[i]

\* The terms of a coefficient of the product.
Summands(a, s, i) ==
    [j \in Index |-> IF j <= i THEN a[j] * s[i - j] ELSE -(a[j] * s[Dim + i - j])]

LEMMA ProductIs ==
    ASSUME NEW a \in [Index -> Int], NEW s \in [Index -> Int], NEW i \in Index
    PROVE  /\ Product(a, s)[i] = SumTo(Summands(a, s, i), Dim) /\ Product(a, s)[i] \in Int
           /\ \A j \in Index : Summands(a, s, i)[j] \in Int
<1>1. PICK n \in Nat : n = Dim /\ Index = 0..(n - 1)
  BY RlweParameters, PlacesOfBits
<1>2. PICK f : f = Summands(a, s, i)
  OBVIOUS
<1>3. ASSUME NEW j \in Index PROVE f[j] \in Int
  <2>1. CASE j <= i
    <3>1. i - j \in Index
      BY <1>1, <2>1
    <3>2. a[j] \in Int /\ s[i - j] \in Int
      BY <3>1
    <3>3. f[j] = a[j] * s[i - j]
      BY <1>2, <2>1 DEF Summands
    <3> QED BY <3>2, <3>3
  <2>2. CASE ~(j <= i)
    <3>1. Dim + i - j \in Index
      BY <1>1, <2>2
    <3>2. PICK u \in Int, v \in Int : u = a[j] /\ v = s[Dim + i - j]
      BY <3>1
    <3>3. f[j] = -(u * v)
      BY <1>2, <2>2, <3>2 DEF Summands
    <3> QED BY <3>3
  <2> QED BY <2>1, <2>2
<1>4. SumTo(f, n) \in Int
  <2>1. n \in 0..n
    OBVIOUS
  <2> QED BY <1>1, <1>3, <2>1, SumStep
<1>5. Product(a, s)[i] = SumTo(Summands(a, s, i), Dim)
  BY DEF Product, Summands
<1> QED
  BY <1>1, <1>2, <1>3, <1>4, <1>5

LEMMA Instances ==
    ASSUME NEW c \in Secrets
    PROVE  IsInstance(Instance(c))
<1>1. c.a \in [Index -> Int] /\ c.s \in [Index -> -1..1] /\ c.e \in [Index -> -1..1]
  <2>1. /\ c.a \in [Index -> ((-RingQ) \div 2)..(RingQ \div 2)]
        /\ c.s \in [Index -> -1..1] /\ c.e \in [Index -> -1..1]
    BY RlweAssumption, Zenon
  <2>2. \A i \in Index : c.a[i] \in Int
    BY <2>1
  <2>3. c.a = [i \in Index |-> c.a[i]]
    BY <2>1
  <2> QED BY <2>1, <2>2, <2>3
<1>2. c.s \in [Index -> Int]
  BY <1>1
<1>3. PICK full \in [Index -> Int] : \A i \in Index : full[i] = Product(c.a, c.s)[i] + c.e[i]
  <2>1. ASSUME NEW i \in Index PROVE Product(c.a, c.s)[i] + c.e[i] \in Int
    <3>1. Product(c.a, c.s)[i] \in Int
      BY <1>1, <1>2, ProductIs, Zenon
    <3>2. PICK v \in -1..1 : v = c.e[i]
      BY <1>1
    <3> QED BY ONLY <3>1, <3>2, v \in -1..1
  <2>2. [i \in Index |-> Product(c.a, c.s)[i] + c.e[i]] \in [Index -> Int]
    BY <2>1
  <2> QED BY <2>2
<1>4. PICK x : x = Instance(c)
  OBVIOUS
<1>5. /\ x.a = c.a /\ x.s = c.s /\ x.e = c.e
      /\ x.b = [i \in Index |-> (Product(c.a, c.s)[i] + c.e[i]) % RingQ]
      /\ x.k = [i \in Index |-> (Product(c.a, c.s)[i] + c.e[i]) \div RingQ]
  BY <1>4 DEF Instance
<1>6. \A i \in Index : /\ full[i] % RingQ \in Int /\ full[i] \div RingQ \in Int
                       /\ (full[i] % RingQ) + RingQ * (full[i] \div RingQ) = full[i]
  <2>1. ASSUME NEW i \in Index
        PROVE  /\ full[i] % RingQ \in Int /\ full[i] \div RingQ \in Int
               /\ (full[i] % RingQ) + RingQ * (full[i] \div RingQ) = full[i]
    <3>1. PICK y \in Int : y = full[i]
      OBVIOUS
    <3>2. PICK q \in Int, m \in 0..(RingQ - 1) : q = y \div RingQ /\ m = y % RingQ /\ y = q * RingQ + m
      BY RlweParameters, Division
    <3>3. m + RingQ * q = y /\ m \in Int
      BY <3>2, RlweParameters
    <3> QED BY <3>1, <3>2, <3>3
  <2> QED BY <2>1
<1>7. \A i \in Index : x.b[i] = full[i] % RingQ /\ x.k[i] = full[i] \div RingQ
  BY <1>3, <1>5
<1>8. x.b \in [Index -> Int] /\ x.k \in [Index -> Int]
  BY <1>5, <1>6, <1>7
<1> QED
  BY <1>1, <1>3, <1>4, <1>5, <1>6, <1>7, <1>8 DEF IsInstance

\* The weights of the equation.
WeightTerms(a, base, i) == [j \in Index |-> a[j] * base[(i + j) % Dim]]

LEMMA WeightsAre ==
    ASSUME NEW a \in [Index -> Int], NEW base \in [Index -> Int]
    PROVE  /\ Weights(a, base) \in [Index -> Int]
           /\ \A i \in Index : /\ Weights(a, base)[i] = SumTo(WeightTerms(a, base, i), Dim)
                               /\ \A j \in Index : /\ (i + j) % Dim \in Index
                                                   /\ WeightTerms(a, base, i)[j] \in Int
<1>1. PICK n \in Nat \ {0} : n = Dim /\ Index = 0..(n - 1)
  BY RlweParameters, PlacesOfBits
<1>2. ASSUME NEW i \in Index, NEW j \in Index
      PROVE  (i + j) % n \in Index /\ WeightTerms(a, base, i)[j] \in Int
  <2>1. (i + j) % n \in Index
    BY <1>1, Division
  <2>2. a[j] \in Int /\ base[(i + j) % n] \in Int
    BY <2>1
  <2>3. WeightTerms(a, base, i)[j] = a[j] * base[(i + j) % n]
    BY <1>1 DEF WeightTerms
  <2> QED BY <2>1, <2>2, <2>3
<1>3. ASSUME NEW i \in Index
      PROVE  /\ Weights(a, base)[i] = SumTo(WeightTerms(a, base, i), n)
             /\ Weights(a, base)[i] \in Int
  <2>1. Weights(a, base)[i] = SumTo(WeightTerms(a, base, i), n)
    BY <1>1 DEF Weights, WeightTerms
  <2>2. n \in 0..n
    OBVIOUS
  <2>3. \A j \in 0..(n - 1) : WeightTerms(a, base, i)[j] \in Int
    BY <1>1, <1>2
  <2>4. SumTo(WeightTerms(a, base, i), n) \in Int
    BY <2>2, <2>3, SumStep
  <2> QED BY <2>1, <2>4
<1>4. Weights(a, base) = [i \in Index |-> Weights(a, base)[i]]
  BY DEF Weights
<1>5. Weights(a, base) \in [Index -> Int]
  BY <1>3, <1>4
<1> QED
  BY <1>1, <1>2, <1>3, <1>5

\* The row of the equation takes the bits of s + 1 to what the weights make of s + 1.
LEMMA EquationRowIs ==
    ASSUME NEW x, IsInstance(x), NEW base \in [Index -> Int]
    PROVE  /\ \A p \in Places : EquationRow(Public(x), base)[p] \in Int
           /\ SumTo([i \in Index |-> x.s[i] * Weights(x.a, base)[i]], Dim) \in Int
           /\ SumTo(Weights(x.a, base), Dim) \in Int
           /\ SumTo(Terms(BitDecom(x.s), EquationRow(Public(x), base), 2 * Dim), 2 * Dim) % Order
                = (SumTo([i \in Index |-> x.s[i] * Weights(x.a, base)[i]], Dim)
                     + SumTo(Weights(x.a, base), Dim)) % Order
<1>1. PICK n \in Nat, w \in Nat : n = Dim /\ w = 2 * Dim /\ Index = 0..(n - 1) /\ Places = 0..(w - 1)
  BY RlweParameters, PlacesOfBits
<1>2. PICK W \in [Index -> Int] : W = Weights(x.a, base)
  BY WeightsAre DEF IsInstance
<1>3. PICK s \in [Index -> -1..1] : s = x.s
  BY DEF IsInstance
<1>4. PICK bits \in [Places -> 0..1] :
         bits = BitDecom(s) /\ \A i \in Index : bits[2 * i] + 2 * bits[2 * i + 1] = s[i] + 1
  BY BitDecomposition
<1>5. PICK row : row = EquationRow(Public(x), base)
  OBVIOUS
<1> DEFINE f == Terms(bits, row, w)
           g == [p \in Places |-> bits[p] * (BitWeight(p) * W[p \div 2])]
           h == [i \in Index |-> s[i] * W[i] + W[i]]
           k == [i \in Index |-> s[i] * W[i]]
<1>6. ASSUME NEW p \in Places
      PROVE  row[p] \in Int /\ f[p] \in Int /\ g[p] \in Int /\ f[p] % Order = g[p] % Order
  <2>1. PICK v \in Int : v = BitWeight(p) * W[p \div 2]
    BY PlacesOfBits
  <2>2. row[p] = v % Order
    BY <1>2, <1>5, <2>1 DEF EquationRow, Public
  <2>3. PICK u \in Int : u = row[p]
    BY <2>2, RlweParameters, SameRest
  <2>4. PICK b \in Int : b = bits[p]
    OBVIOUS
  <2>5. f[p] = b * u /\ g[p] = b * v
    BY <1>1, <2>1, <2>3, <2>4 DEF Terms
  <2>6. (b * v) % Order = (b * (v % Order)) % Order
    BY RlweParameters, RestOfProduct, Zenon
  <2> QED BY <2>2, <2>3, <2>5, <2>6
<1>7. SumTo(f, w) % Order = SumTo(g, w) % Order
  <2>1. \A p \in 0..(w - 1) : g[p] \in Int /\ f[p] \in Int /\ f[p] % Order = g[p] % Order
    BY <1>1, <1>6
  <2>2. Order \in Nat \ {0} /\ w \in Nat
    BY RlweParameters
  <2> HIDE DEF f, g
  <2> QED BY ONLY <2>1, <2>2, SumSame
<1>8. SumTo(g, w) = SumTo(h, n)
  <2>1. ASSUME NEW i \in 0..(n - 1) PROVE h[i] = g[2 * i] + g[2 * i + 1]
    <3>1. i \in Index
      BY <1>1
    <3>2. PICK u \in Int, v \in Int, y \in Int, z \in Int :
             u = bits[2 * i] /\ v = bits[2 * i + 1] /\ y = W[i] /\ z = s[i]
      <4>1. 2 * i \in Places /\ 2 * i + 1 \in Places
        BY <3>1, PlacesOfBits
      <4>2. bits[2 * i] \in Int /\ bits[2 * i + 1] \in Int /\ W[i] \in Int /\ s[i] \in Int
        BY <3>1, <4>1
      <4> QED BY <4>2
    <3>3. g[2 * i] = u * (1 * y) /\ g[2 * i + 1] = v * (2 * y)
      BY <3>1, <3>2, PlacesOfBits
    <3>4. h[i] = z * y + y
      BY <3>1, <3>2
    <3>5. u + 2 * v = z + 1
      BY <1>4, <3>1, <3>2
    <3>6. u * (1 * y) + v * (2 * y) = (u + 2 * v) * y
      OBVIOUS
    <3>7. (z + 1) * y = z * y + y
      OBVIOUS
    <3> QED BY <3>3, <3>4, <3>5, <3>6, <3>7
  <2>2. w = 2 * n /\ \A p \in 0..(2 * n - 1) : g[p] \in Int
    <3>1. w = 2 * n
      BY <1>1
    <3> HIDE DEF g
    <3> QED BY <1>1, <1>6, <3>1
  <2>3. SumTo(g, 2 * n) = SumTo(h, n)
    <3> HIDE DEF g, h
    <3> QED BY ONLY n \in Nat, <2>1, <2>2, SumPairs
  <2> QED BY <2>2, <2>3
<1>9. SumTo(h, n) = SumTo(k, n) + SumTo(W, n) /\ SumTo(k, n) \in Int /\ SumTo(W, n) \in Int
  <2>1. ASSUME NEW i \in 0..(n - 1)
        PROVE  k[i] \in Int /\ W[i] \in Int /\ h[i] = 1 * k[i] + 1 * W[i]
    <3>1. PICK y \in Int, z \in Int : y = W[i] /\ z = s[i] /\ i \in Index
      BY <1>1
    <3>2. k[i] = z * y /\ h[i] = z * y + y /\ z * y \in Int
      BY <3>1
    <3> HIDE DEF h, k
    <3> QED BY <3>1, <3>2
  <2>2. /\ SumTo(h, n) = 1 * SumTo(k, n) + 1 * SumTo(W, n)
        /\ SumTo(k, n) \in Int /\ SumTo(W, n) \in Int
    <3> HIDE DEF h, k
    <3>1. 1 \in Int
      OBVIOUS
    <3> QED BY ONLY n \in Nat, <2>1, <3>1, SumLinear
  <2> HIDE DEF h, k
  <2> QED BY <2>2
<1> QED
  BY <1>1, <1>2, <1>3, <1>4, <1>5, <1>6, <1>7, <1>8, <1>9

\* The image of the equation is, but for multiples of the order, the product at tau, with the
\* weights.
LEMMA EquationImageIs ==
    ASSUME NEW x, IsInstance(x), NEW base \in [Index -> Int], NEW aux,
           aux.e = [p \in Places |-> (BitDecom(x.e)[p] * base[p \div 2]) % Order],
           aux.k = [i \in Index |-> (x.k[i] * base[i]) % Order]
    PROVE  /\ EquationImage(Public(x), base, aux) \in Int
           /\ SumTo([i \in Index |-> Product(x.a, x.s)[i] * base[i]], Dim) \in Int
           /\ EquationImage(Public(x), base, aux) % Order
                = (SumTo([i \in Index |-> Product(x.a, x.s)[i] * base[i]], Dim)
                     + SumTo(Weights(x.a, base), Dim)) % Order
<1>1. PICK n \in Nat, w \in Nat : n = Dim /\ w = 2 * Dim /\ Index = 0..(n - 1) /\ Places = 0..(w - 1)
  BY RlweParameters, PlacesOfBits
<1>2. PICK W \in Int : W = SumTo(Weights(x.a, base), n)
  BY <1>1, EquationRowIs
<1>3. PICK b \in [Index -> Int], k \in [Index -> Int], e \in [Index -> -1..1] :
         b = x.b /\ k = x.k /\ e = x.e
  BY DEF IsInstance
<1>4. PICK prod \in [Index -> Int] : prod = Product(x.a, x.s)
  <2>1. \A i \in Index : x.s[i] \in Int
    BY DEF IsInstance
  <2>2. x.s = [i \in Index |-> x.s[i]]
    BY DEF IsInstance
  <2>3. x.a \in [Index -> Int] /\ x.s \in [Index -> Int]
    BY <2>1, <2>2 DEF IsInstance
  <2>4. \A i \in Index : Product(x.a, x.s)[i] \in Int
    BY <2>3, ProductIs
  <2>5. Product(x.a, x.s) = [i \in Index |-> Product(x.a, x.s)[i]]
    BY DEF Product
  <2> QED BY <2>4, <2>5
<1>5. \A i \in Index : b[i] + RingQ * k[i] = prod[i] + e[i]
  BY <1>3, <1>4 DEF IsInstance
<1>6. PICK bits \in [Places -> 0..1] :
         bits = BitDecom(e) /\ \A i \in Index : bits[2 * i] + 2 * bits[2 * i + 1] = e[i] + 1
  BY BitDecomposition
<1> DEFINE fe == [i \in Index |-> e[i] * base[i]]
           fe1 == [i \in Index |-> e[i] * base[i] + base[i]]
           fb == [i \in Index |-> b[i] * base[i]]
           fk == [i \in Index |-> k[i] * base[i]]
           fbk == [i \in Index |-> b[i] * base[i] + RingQ * (k[i] * base[i])]
           fp == [i \in Index |-> prod[i] * base[i]]
           com == [p \in Places |-> BitWeight(p) * aux.e[p]]
           com1 == [p \in Places |-> BitWeight(p) * (bits[p] * base[p \div 2])]
<1>7. ASSUME NEW i \in 0..(n - 1)
      PROVE  /\ base[i] \in Int /\ fe[i] \in Int /\ fb[i] \in Int /\ fk[i] \in Int /\ fbk[i] \in Int
             /\ fe1[i] = 1 * fe[i] + 1 * base[i]
             /\ fbk[i] = 1 * fb[i] + RingQ * fk[i]
             /\ fp[i] \in Int /\ fbk[i] = 1 * fp[i] + 1 * fe[i]
             /\ aux.k[i] \in Int /\ aux.k[i] % Order = fk[i] % Order
  <2>1. i \in Index
    BY <1>1
  <2>2. PICK y \in Int, u \in Int, v \in Int, z \in Int, p \in Int :
           y = base[i] /\ u = b[i] /\ v = k[i] /\ z = e[i] /\ p = prod[i]
    <3>1. base[i] \in Int /\ b[i] \in Int /\ k[i] \in Int /\ prod[i] \in Int
      BY <2>1
    <3>2. e[i] \in -1..1
      BY <2>1
    <3>3. e[i] \in Int
      BY <3>2
    <3> QED BY <3>1, <3>3
  <2>3. /\ fe[i] = z * y /\ fb[i] = u * y /\ fk[i] = v * y /\ fp[i] = p * y
        /\ fe1[i] = z * y + y /\ fbk[i] = u * y + RingQ * (v * y)
    BY <2>1, <2>2
  <2>4. RingQ \in Int
    BY RlweParameters
  <2>5. u + RingQ * v = p + z
    BY <1>5, <2>1, <2>2
  <2>6. (u + RingQ * v) * y = u * y + RingQ * (v * y) /\ (p + z) * y = p * y + z * y
    BY <2>4
  <2>7. PICK zy \in Int, uy \in Int, vy \in Int, py \in Int, q \in Int :
           zy = z * y /\ uy = u * y /\ vy = v * y /\ py = p * y /\ q = RingQ * vy
    BY <2>4
  <2>8. uy + q = py + zy
    BY <2>5, <2>6, <2>7
  <2>9. aux.k[i] = vy % Order
    BY <1>3, <2>1, <2>2, <2>7
  <2>10. vy % Order \in Int /\ (vy % Order) % Order = vy % Order
    BY RlweParameters, SameRest
  <2> HIDE DEF fe, fe1, fb, fk, fbk, fp
  <2> QED BY <2>2, <2>3, <2>7, <2>8, <2>9, <2>10
<1>8. PICK SB \in Int, SE \in Int, SB0 \in Int, SK \in Int :
         /\ SB0 = SumTo(base, n) /\ SE = SumTo(fe, n) /\ SB = SumTo(fb, n) /\ SK = SumTo(fk, n)
         /\ SumTo(fe1, n) = SE + SB0
         /\ SumTo(fbk, n) = SB + RingQ * SK
         /\ SumTo(fp, n) \in Int /\ SumTo(fbk, n) = SumTo(fp, n) + SE
  <2> HIDE DEF fe, fe1, fb, fk, fbk, fp
  <2>1. 1 \in Int /\ -1 \in Int /\ RingQ \in Int
    BY RlweParameters
  <2>2. /\ SumTo(fe, n) \in Int /\ SumTo(base, n) \in Int
        /\ SumTo(fe1, n) = 1 * SumTo(fe, n) + 1 * SumTo(base, n)
    <3>1. \A i \in 0..(n - 1) : fe[i] \in Int /\ base[i] \in Int /\ fe1[i] = 1 * fe[i] + 1 * base[i]
      BY <1>7
    <3> QED BY ONLY n \in Nat, <2>1, <3>1, SumLinear
  <2>3. /\ SumTo(fb, n) \in Int /\ SumTo(fk, n) \in Int
        /\ SumTo(fbk, n) = 1 * SumTo(fb, n) + RingQ * SumTo(fk, n)
    <3>1. \A i \in 0..(n - 1) : fb[i] \in Int /\ fk[i] \in Int /\ fbk[i] = 1 * fb[i] + RingQ * fk[i]
      BY <1>7
    <3> QED BY ONLY n \in Nat, <2>1, <3>1, SumLinear
  <2>4. /\ SumTo(fp, n) \in Int
        /\ SumTo(fbk, n) = 1 * SumTo(fp, n) + 1 * SumTo(fe, n)
    <3>1. \A i \in 0..(n - 1) : fp[i] \in Int /\ fe[i] \in Int /\ fbk[i] = 1 * fp[i] + 1 * fe[i]
      BY <1>7
    <3> QED BY ONLY n \in Nat, <2>1, <3>1, SumLinear
  <2>5. PICK SB \in Int, SE \in Int, SB0 \in Int, SK \in Int :
           SB0 = SumTo(base, n) /\ SE = SumTo(fe, n) /\ SB = SumTo(fb, n) /\ SK = SumTo(fk, n)
    BY <2>2, <2>3
  <2>6. SumTo(fe1, n) = SE + SB0 /\ SumTo(fbk, n) = SumTo(fp, n) + SE
    BY <2>2, <2>4, <2>5
  <2>7. SumTo(fbk, n) = SB + RingQ * SK
    <3>1. 1 * SB = SB
      OBVIOUS
    <3> QED BY <2>3, <2>5, <3>1
  <2> QED BY <2>4, <2>5, <2>6, <2>7, Zenon
<1>9. PICK K \in Int : K = SumTo(aux.k, n) /\ K % Order = SK % Order
  <2>1. \A i \in 0..(n - 1) : fk[i] \in Int /\ aux.k[i] \in Int /\ aux.k[i] % Order = fk[i] % Order
    BY <1>7
  <2> HIDE DEF fe, fe1, fb, fk, fbk, fp
  <2>2. Order \in Nat \ {0}
    BY RlweParameters
  <2>3. SumTo(aux.k, n) \in Int /\ SumTo(aux.k, n) % Order = SumTo(fk, n) % Order
    BY ONLY n \in Nat, <2>1, <2>2, SumSame
  <2> QED BY <1>8, <2>3
<1>10. ASSUME NEW p \in 0..(w - 1)
       PROVE  com[p] \in Int /\ com1[p] \in Int /\ com[p] % Order = com1[p] % Order
  <2>1. p \in Places
    BY <1>1
  <2>2. PICK u \in Int, v \in Int : u = BitWeight(p) /\ v = bits[p] * base[p \div 2]
    BY <2>1, PlacesOfBits
  <2>3. aux.e[p] = v % Order
    BY <1>3, <1>6, <2>1, <2>2
  <2>4. com[p] = u * (v % Order) /\ com1[p] = u * v
    BY <2>1, <2>2, <2>3
  <2>5. (u * v) % Order = (u * (v % Order)) % Order
    BY RlweParameters, RestOfProduct, Zenon
  <2>6. v % Order \in Int
    BY RlweParameters, SameRest
  <2> HIDE DEF com, com1
  <2> QED BY <2>4, <2>5, <2>6
<1>11. PICK E \in Int : E = SumTo(com, w) /\ E % Order = SumTo(com1, w) % Order
  <2> HIDE DEF com, com1
  <2>1. Order \in Nat \ {0}
    BY RlweParameters
  <2>2. SumTo(com, w) \in Int /\ SumTo(com, w) % Order = SumTo(com1, w) % Order
    BY ONLY w \in Nat, <1>10, <2>1, SumSame
  <2> QED BY <2>2
<1>12. SumTo(com1, w) = SE + SB0
  <2>1. ASSUME NEW i \in 0..(n - 1) PROVE fe1[i] = com1[2 * i] + com1[2 * i + 1]
    <3>1. i \in Index
      BY <1>1
    <3>2. PICK u \in Int, v \in Int, y \in Int, z \in Int :
             u = bits[2 * i] /\ v = bits[2 * i + 1] /\ y = base[i] /\ z = e[i]
      <4>1. 2 * i \in Places /\ 2 * i + 1 \in Places
        BY <3>1, PlacesOfBits
      <4>2. bits[2 * i] \in Int /\ bits[2 * i + 1] \in Int /\ base[i] \in Int /\ e[i] \in Int
        BY <3>1, <4>1
      <4> QED BY <4>2
    <3>3. com1[2 * i] = 1 * (u * y) /\ com1[2 * i + 1] = 2 * (v * y)
      BY <3>1, <3>2, PlacesOfBits
    <3>4. fe1[i] = z * y + y
      BY <3>1, <3>2
    <3>5. u + 2 * v = z + 1
      BY <1>6, <3>1, <3>2
    <3>6. 1 * (u * y) + 2 * (v * y) = (u + 2 * v) * y
      OBVIOUS
    <3>7. (z + 1) * y = z * y + y
      OBVIOUS
    <3> HIDE DEF com1, fe1
    <3> QED BY <3>3, <3>4, <3>5, <3>6, <3>7
  <2>2. w = 2 * n /\ \A p \in 0..(2 * n - 1) : com1[p] \in Int
    <3>1. w = 2 * n
      BY <1>1
    <3> HIDE DEF com1, com
    <3> QED BY <1>10, <3>1
  <2>3. SumTo(com1, 2 * n) = SumTo(fe1, n)
    <3> HIDE DEF com1, fe1
    <3> QED BY ONLY n \in Nat, <2>1, <2>2, SumPairs
  <2> HIDE DEF com1, fe1
  <2> QED BY <1>8, <2>2, <2>3
<1>13. PICK u \in Int, v \in Int : K = SK + u * Order /\ E = (SE + SB0) + v * Order
  <2>0. Order \in Nat \ {0}
    BY RlweParameters
  <2>1. \E u \in Int : K = SK + u * Order
    BY ONLY <1>9, <2>0, K \in Int, SK \in Int, SameWhen
  <2>2. PICK t \in Int : t = SE + SB0
    OBVIOUS
  <2>3. E % Order = t % Order
    <3> HIDE DEF com, com1
    <3> QED BY <1>11, <1>12, <2>2
  <2>4. \E v \in Int : E = t + v * Order
    BY ONLY <2>0, <2>3, E \in Int, t \in Int, SameWhen
  <2> HIDE DEF com, com1
  <2> QED BY <2>1, <2>2, <2>4
<1>14. PICK P \in Int : P = SumTo(fp, n) /\ P = SB + RingQ * SK - SE
  <2> HIDE DEF fp, fbk
  <2>1. PICK m \in Int : m = RingQ * SK
    BY RlweParameters
  <2>2. PICK P \in Int : P = SumTo(fp, n)
    BY <1>8
  <2>3. SB + m = P + SE
    BY <1>8, <2>1, <2>2
  <2>4. P = SB + m - SE
    BY <2>3
  <2> QED BY <2>1, <2>2, <2>4, Zenon
<1>15. PICK all \in Int : /\ all = RingQ * K + SB - (E - SB0) + W
                          /\ EquationImage(Public(x), base, aux) = all % Order
  <2>1. RingQ * K \in Int
    BY RlweParameters
  <2>2. EquationImage(Public(x), base, aux) = (RingQ * K + SB - (E - SB0) + W) % Order
    BY <1>1, <1>2, <1>3, <1>8, <1>9, <1>11 DEF EquationImage, Public
  <2> QED BY <2>1, <2>2
<1>16. all = (P + W) + (RingQ * u - v) * Order
  <2>1. PICK q \in Int, o \in Int : q = RingQ /\ o = Order
    BY RlweParameters
  <2>2. q * K = q * SK + (q * u) * o
    BY <1>13, <2>1
  <2>3. (q * u - v) * o = (q * u) * o - v * o
    OBVIOUS
  <2>4. PICK m1 \in Int, m2 \in Int, m3 \in Int : m1 = q * SK /\ m2 = (q * u) * o /\ m3 = v * o
    OBVIOUS
  <2>5. E = (SE + SB0) + m3 /\ P = SB + m1 - SE /\ all = (m1 + m2) + SB - (E - SB0) + W
    BY <1>13, <1>14, <1>15, <2>1, <2>2, <2>4
  <2>6. all = (P + W) + (m2 - m3)
    BY <2>5
  <2> QED BY <2>1, <2>3, <2>4, <2>6
<1>17. all % Order = (P + W) % Order
  <2>1. P + W \in Int /\ RingQ * u - v \in Int /\ all \in Int
    BY RlweParameters
  <2> QED BY ONLY <1>16, <2>1, RlweParameters, SameWhen
<1>18. all % Order \in Int /\ (all % Order) % Order = all % Order
  BY RlweParameters, SameRest
<1>19. fp = [i \in Index |-> Product(x.a, x.s)[i] * base[i]]
  BY <1>4
<1> QED
  BY <1>1, <1>2, <1>14, <1>15, <1>17, <1>18, <1>19

\* The product at tau: the terms that wrap around have the other sign than in the equation.
LEMMA ProductAtTau ==
    ASSUME NEW x, IsInstance(x), NEW base \in [Index -> Int]
    PROVE  /\ Wrapped(x, base) \in Int
           /\ SumTo([i \in Index |-> x.s[i] * Weights(x.a, base)[i]], Dim)
                = SumTo([i \in Index |-> Product(x.a, x.s)[i] * base[i]], Dim)
                    + 2 * Wrapped(x, base)
<1>1. PICK n \in Nat \ {0} : n = Dim /\ Index = 0..(n - 1)
  BY RlweParameters, PlacesOfBits
<1>2. PICK a \in [Index -> Int], s \in [Index -> Int] : a = x.a /\ s = x.s
  <2>1. \A i \in Index : x.s[i] \in Int
    BY DEF IsInstance
  <2>2. x.s = [i \in Index |-> x.s[i]]
    BY DEF IsInstance
  <2> QED BY <2>1, <2>2 DEF IsInstance
<1>3. PICK W \in [Index -> Int] : W = Weights(a, base)
  BY WeightsAre
<1>4. PICK prod : prod = Product(a, s)
  OBVIOUS
<1> DEFINE Y == [i \in Index |-> [j \in Index |-> s[i] * (a[j] * base[(i + j) % n])]]
           V == [i \in Index |-> [j \in Index |-> IF i + j < n THEN 0
                                                  ELSE s[i] * (a[j] * base[(i + j) % n])]]
           T == [i \in Index |-> [j \in Index |-> base[i] * Summands(a, s, i)[j]]]
           D == [i \in Index |-> [j \in Index |-> Y[i][j] - 2 * V[i][j]]]
           Rows(M) == [i \in 0..(n - 1) |-> SumTo(M[i], n)]
           Col(M, j) == [i \in 0..(n - 1) |-> M[i][j]]
           Cols(M) == [j \in 0..(n - 1) |-> SumTo(Col(M, j), n)]
<1>5. ASSUME NEW i \in 0..(n - 1), NEW j \in 0..(n - 1)
      PROVE  /\ Y[i][j] \in Int /\ V[i][j] \in Int /\ T[i][j] \in Int /\ D[i][j] \in Int
             /\ Y[i][j] = s[i] * WeightTerms(a, base, i)[j]
             /\ V[i][j] = IF i + j < n THEN 0 ELSE Y[i][j]
             /\ T[i][j] = base[i] * Summands(a, s, i)[j]
             /\ Y[i][j] = D[i][j] + 2 * V[i][j]
  <2>1. i \in Index /\ j \in Index
    BY <1>1
  <2>2. PICK u \in Int, v \in Int, y \in Int : u = s[i] /\ v = a[j] * base[(i + j) % n] /\ y = u * v
    <3>1. (i + j) % n \in Index
      BY <1>1, <2>1, WeightsAre
    <3>2. s[i] \in Int /\ a[j] \in Int /\ base[(i + j) % n] \in Int
      BY <2>1, <3>1
    <3> QED BY <3>2
  <2>3. WeightTerms(a, base, i)[j] = v
    BY <1>1, <2>1, <2>2 DEF WeightTerms
  <2>4. Y[i][j] = y
    BY <2>1, <2>2
  <2>5. V[i][j] = IF i + j < n THEN 0 ELSE y
    BY <2>1, <2>2
  <2>6. T[i][j] = base[i] * Summands(a, s, i)[j] /\ base[i] \in Int /\ Summands(a, s, i)[j] \in Int
    BY <2>1, ProductIs
  <2>7. D[i][j] = Y[i][j] - 2 * V[i][j]
    BY <2>1
  <2>8. V[i][j] \in Int
    BY <2>5
  <2> HIDE DEF Y, V, T, D
  <2>9. T[i][j] \in Int
    BY <2>6
  <2>10. Y[i][j] \in Int /\ D[i][j] \in Int /\ Y[i][j] = D[i][j] + 2 * V[i][j]
    BY <2>4, <2>7, <2>8
  <2> QED BY <2>2, <2>3, <2>4, <2>5, <2>6, <2>8, <2>9, <2>10
<1> HIDE DEF Y, V, T, D
\* The rows of T are the coefficients of the product at tau.
<1>6. ASSUME NEW i \in 0..(n - 1) PROVE Rows(T)[i] = prod[i] * base[i]
  <2>1. PICK t : t = T[i]
    OBVIOUS
  <2>2. PICK f : f = Summands(a, s, i)
    OBVIOUS
  <2>3. PICK y \in Int : y = base[i] /\ i \in Index
    BY <1>1
  <2>4. prod[i] = SumTo(f, n) /\ \A j \in 0..(n - 1) : f[j] \in Int
    <3>1. /\ Product(a, s)[i] = SumTo(Summands(a, s, i), Dim)
          /\ \A j \in Index : Summands(a, s, i)[j] \in Int
      BY <2>3, ProductIs, Zenon
    <3> QED BY <1>1, <1>4, <2>2, <3>1
  <2>5. \A j \in 0..(n - 1) : f[j] \in Int /\ f[j] \in Int /\ t[j] = y * f[j] + 0 * f[j]
    BY <1>5, <2>1, <2>2, <2>3, <2>4
  <2>6. SumTo(f, n) \in Int /\ SumTo(t, n) = y * SumTo(f, n) + 0 * SumTo(f, n)
    BY ONLY n \in Nat \ {0}, <2>3, <2>5, 0 \in Int, y \in Int, SumLinear
  <2>7. PICK p \in Int : p = SumTo(f, n)
    BY <2>6
  <2>8. y * p + 0 * p = p * y
    OBVIOUS
  <2> QED BY <2>1, <2>3, <2>4, <2>6, <2>7, <2>8
\* Its columns, rotated, are those of D.
<1>7. ASSUME NEW j \in 0..(n - 1) PROVE SumTo(Col(D, j), n) = SumTo(Col(T, j), n)
  <2>1. PICK f : f = Col(T, j)
    OBVIOUS
  <2>2. PICK h : h = Col(D, j)
    OBVIOUS
  <2>3. \A i \in 0..(n - 1) : f[i] = T[i][j] /\ f[i] \in Int /\ h[i] = D[i][j]
    BY <1>5, <2>1, <2>2
  <2>4. ASSUME NEW i \in 0..(n - 1)
        PROVE  h[i] = IF i + j < n THEN f[i + j] ELSE f[i + j - n]
    <3>1. i \in Index /\ j \in Index
      BY <1>1
    <3>2. PICK u \in Int, v \in Int : u = s[i] /\ v = a[j]
      BY <3>1
    <3>3. CASE i + j < n
      <4>1. (i + j) % n = i + j /\ i + j \in Index /\ i + j \in 0..(n - 1)
        <5>1. (i + j) % n = IF i + j < n THEN i + j ELSE i + j - n
          BY Rotation, Zenon
        <5> QED BY <1>1, <3>3, <5>1
      <4>2. PICK y \in Int : y = base[i + j]
        BY <4>1
      <4>3. Summands(a, s, i + j)[j] = v * u
        <5>1. j <= i + j /\ (i + j) - j = i
          BY <3>1
        <5> QED BY <3>1, <3>2, <4>1, <5>1 DEF Summands
      <4>4. f[i + j] = y * (v * u)
        BY <1>5, <2>3, <4>1, <4>2, <4>3
      <4>5. V[i][j] = 0
        BY <1>5, <3>3
      <4>6. Y[i][j] = u * (v * y)
        <5>1. WeightTerms(a, base, i)[j] = v * y
          BY <1>1, <3>1, <3>2, <4>1, <4>2 DEF WeightTerms
        <5> QED BY <1>5, <3>2, <5>1
      <4>7. h[i] = u * (v * y)
        BY <1>5, <2>3, <4>5, <4>6
      <4>8. u * (v * y) = y * (v * u)
        OBVIOUS
      <4> QED BY <3>3, <4>4, <4>7, <4>8
    <3>4. CASE ~(i + j < n)
      <4>1. PICK k \in Index : k = i + j - n /\ k \in 0..(n - 1) /\ (i + j) % n = k
        <5>1. i + j - n \in 0..(n - 1)
          BY <3>4
        <5>2. (i + j) % n = i + j - n
          BY <3>4, Rotation
        <5> QED BY <1>1, <5>1, <5>2
      <4>2. PICK y \in Int : y = base[k]
        BY <4>1
      <4>3. Summands(a, s, k)[j] = -(v * u)
        <5>1. ~(j <= k) /\ n + k - j = i
          BY <1>1, <4>1
        <5> QED BY <1>1, <3>1, <3>2, <4>1, <5>1 DEF Summands
      <4>4. f[k] = y * (-(v * u))
        BY <1>5, <2>3, <4>1, <4>2, <4>3
      <4>5. V[i][j] = Y[i][j]
        BY <1>5, <3>4
      <4>6. Y[i][j] = u * (v * y)
        <5>1. WeightTerms(a, base, i)[j] = v * y
          BY <1>1, <3>1, <3>2, <4>1, <4>2 DEF WeightTerms
        <5> QED BY <1>5, <3>2, <5>1
      <4>7. h[i] = -(u * (v * y))
        <5>1. PICK m \in Int, d \in Int : m = u * (v * y) /\ d = D[i][j]
          BY <1>5
        <5>2. m = d + 2 * m
          <6>1. Y[i][j] = D[i][j] + 2 * V[i][j]
            BY <1>5
          <6> HIDE DEF Y, V, D
          <6> QED BY ONLY <4>5, <4>6, <5>1, <6>1
        <5>3. d = -m
          BY <5>2
        <5> QED BY <2>3, <5>1, <5>3
      <4>8. -(u * (v * y)) = y * (-(v * u))
        OBVIOUS
      <4> QED BY <3>4, <4>1, <4>4, <4>7, <4>8
    <3> QED BY <3>3, <3>4
  <2>5. SumTo(h, n) = SumTo(f, n)
    <3>1. \A i \in 0..(n - 1) : f[i] \in Int
      BY <2>3
    <3> HIDE DEF Col
    <3> QED BY ONLY n \in Nat \ {0}, j \in 0..(n - 1), <2>4, <3>1, SumRotates
  <2> HIDE DEF Col
  <2> QED BY <2>1, <2>2, <2>5
<1>8. SumTo(Rows(T), n) = SumTo(Rows(D), n)
  <2>1. SumTo(Rows(T), n) = SumTo(Cols(T), n)
    <3>1. n \in Nat /\ \A i \in 0..(n - 1) : \A j \in 0..(n - 1) : T[i][j] \in Int
      BY <1>5
    <3> QED BY ONLY <3>1, SumSwap
  <2>2. SumTo(Rows(D), n) = SumTo(Cols(D), n)
    <3>1. n \in Nat /\ \A i \in 0..(n - 1) : \A j \in 0..(n - 1) : D[i][j] \in Int
      BY <1>5
    <3> QED BY ONLY <3>1, SumSwap
  <2>3. Cols(T) = Cols(D)
    <3> HIDE DEF Col
    <3> QED BY <1>7
  <2> HIDE DEF Rows, Cols
  <2> QED BY <2>1, <2>2, <2>3
\* What wraps around counts twice.
<1>9. /\ SumTo(Rows(D), n) \in Int /\ SumTo(Rows(V), n) \in Int
      /\ SumTo(Rows(Y), n) = SumTo(Rows(D), n) + 2 * SumTo(Rows(V), n)
  <2>1. PICK one \in Int, two \in Int : one = 1 /\ two = 2
    OBVIOUS
  <2>2. ASSUME NEW i \in 0..(n - 1)
        PROVE  /\ Rows(D)[i] \in Int /\ Rows(V)[i] \in Int
               /\ Rows(Y)[i] = one * Rows(D)[i] + two * Rows(V)[i]
    <3>1. PICK y, d, v : y = Y[i] /\ d = D[i] /\ v = V[i]
      OBVIOUS
    <3>2. \A j \in 0..(n - 1) : d[j] \in Int /\ v[j] \in Int /\ y[j] = one * d[j] + two * v[j]
      BY <1>5, <2>1, <3>1
    <3>3. SumTo(d, n) \in Int /\ SumTo(v, n) \in Int /\ SumTo(y, n) = one * SumTo(d, n) + two * SumTo(v, n)
      BY ONLY n \in Nat \ {0}, <3>2, one \in Int, two \in Int, SumLinear
    <3> QED BY <3>1, <3>3
  <2> HIDE DEF Rows
  <2>3. /\ SumTo(Rows(D), n) \in Int /\ SumTo(Rows(V), n) \in Int
        /\ SumTo(Rows(Y), n) = one * SumTo(Rows(D), n) + two * SumTo(Rows(V), n)
    BY ONLY n \in Nat \ {0}, <2>2, one \in Int, two \in Int, SumLinear
  <2> QED BY <2>1, <2>3
\* The rows of Y are those of the equation.
<1>10. ASSUME NEW i \in 0..(n - 1) PROVE Rows(Y)[i] = s[i] * W[i]
  <2>1. PICK y : y = Y[i]
    OBVIOUS
  <2>2. PICK f : f = WeightTerms(a, base, i)
    OBVIOUS
  <2>3. PICK u \in Int : u = s[i] /\ i \in Index
    BY <1>1
  <2>4. W[i] = SumTo(f, n) /\ \A j \in 0..(n - 1) : f[j] \in Int
    <3>1. /\ Weights(a, base)[i] = SumTo(WeightTerms(a, base, i), Dim)
          /\ \A j \in Index : WeightTerms(a, base, i)[j] \in Int
      BY <2>3, WeightsAre, Zenon
    <3> QED BY <1>1, <1>3, <2>2, <3>1
  <2>5. \A j \in 0..(n - 1) : f[j] \in Int /\ f[j] \in Int /\ y[j] = u * f[j] + 0 * f[j]
    <3>1. ASSUME NEW j \in 0..(n - 1)
          PROVE  f[j] \in Int /\ f[j] \in Int /\ y[j] = u * f[j] + 0 * f[j]
      <4>1. PICK z \in Int : z = f[j]
        BY <2>4
      <4>2. y[j] = u * z
        BY <1>5, <2>1, <2>2, <2>3, <4>1
      <4>3. u * z = u * z + 0 * z
        OBVIOUS
      <4> QED BY <4>1, <4>2, <4>3
    <3> QED BY <3>1
  <2>6. SumTo(f, n) \in Int /\ SumTo(y, n) = u * SumTo(f, n) + 0 * SumTo(f, n)
    BY ONLY n \in Nat \ {0}, <2>5, 0 \in Int, u \in Int, SumLinear
  <2>7. PICK p \in Int : p = SumTo(f, n)
    BY <2>6
  <2>8. u * p + 0 * p = u * p
    OBVIOUS
  <2> QED BY <2>1, <2>3, <2>4, <2>6, <2>7, <2>8
<1>11. Rows(T) = [i \in Index |-> Product(x.a, x.s)[i] * base[i]]
  <2>1. Rows(T) = [i \in 0..(n - 1) |-> Rows(T)[i]]
    OBVIOUS
  <2>2. [i \in 0..(n - 1) |-> Rows(T)[i]] = [i \in 0..(n - 1) |-> prod[i] * base[i]]
    <3> HIDE DEF Rows
    <3> QED BY <1>6
  <2> HIDE DEF Rows
  <2> QED BY <1>1, <1>2, <1>4, <2>1, <2>2
<1>12. Rows(Y) = [i \in Index |-> x.s[i] * Weights(x.a, base)[i]]
  <2>1. Rows(Y) = [i \in 0..(n - 1) |-> Rows(Y)[i]]
    OBVIOUS
  <2>2. [i \in 0..(n - 1) |-> Rows(Y)[i]] = [i \in 0..(n - 1) |-> s[i] * W[i]]
    <3> HIDE DEF Rows
    <3> QED BY <1>10
  <2> HIDE DEF Rows
  <2> QED BY <1>1, <1>2, <1>3, <2>1, <2>2
<1>13. SumTo(Rows(V), n) = Wrapped(x, base)
  <2>1. \A i \in Index : V[i] = [j \in Index |-> IF i + j < Dim THEN 0
                                      ELSE x.s[i] * (x.a[j] * base[(i + j) % Dim])]
    BY <1>1, <1>2 DEF V
  <2>2. Rows(V) = [i \in Index |->
            SumTo([j \in Index |-> IF i + j < Dim THEN 0
                                   ELSE x.s[i] * (x.a[j] * base[(i + j) % Dim])], Dim)]
    BY <1>1, <2>1
  <2> HIDE DEF Rows
  <2> QED BY <1>1, <2>2 DEF Wrapped
<1>14. PICK p \in Int, v \in Int : p = SumTo(Rows(D), n) /\ v = SumTo(Rows(V), n)
  <2> HIDE DEF Rows
  <2> QED BY <1>9
<1>15. SumTo(Rows(Y), n) = p + 2 * v
  <2> HIDE DEF Rows
  <2> QED BY <1>9, <1>14
<1> HIDE DEF Rows
<1> QED
  BY <1>1, <1>8, <1>11, <1>12, <1>13, <1>14, <1>15

LEMMA HonestAccepted ==
    ASSUME NEW x, IsInstance(x), NEW base \in [Index -> Int],
           NEW drawn \in [1..3 -> [Places -> Blinds]]
    PROVE  Accepts(Public(x), base, Prove(x, base, drawn)) <=> (2 * Wrapped(x, base)) % Order = 0
<1>1. PICK n \in Nat, w \in Nat, h \in Nat :
         n = Dim /\ w = 2 * Dim /\ h = 4 * Dim /\ Index = 0..(n - 1) /\ Places = 0..(w - 1)
  BY RlweParameters, PlacesOfBits
<1>2. PICK aux : aux = Commitments(x, base)
  OBVIOUS
<1>3. x.s \in [Index -> -1..1] /\ x.e \in [Index -> -1..1] /\ x.k \in [Index -> Int]
  BY DEF IsInstance
<1>4. /\ aux.s = [p \in Places |-> (BitDecom(x.s)[p] * base[p \div 2]) % Order]
      /\ aux.e = [p \in Places |-> (BitDecom(x.e)[p] * base[p \div 2]) % Order]
      /\ aux.k = [i \in Index |-> (x.k[i] * base[i]) % Order]
  BY <1>2 DEF Commitments
<1>5. PICK s \in [Places -> 0..1], e \in [Places -> 0..1], k \in [Index -> Int] :
         s = BitDecom(x.s) /\ e = BitDecom(x.e) /\ k = x.k
  BY <1>3, BitDecomposition
<1>6. PICK bitsS : bitsS = BitRows(base, aux.s)
  OBVIOUS
<1>7. PICK bitsE : bitsE = BitRows(base, aux.e)
  OBVIOUS
<1>8. PICK carry : carry = CarryRows(base, aux.k)
  OBVIOUS
<1>9. PICK eq : eq = EquationRows(Public(x), base, aux)
  OBVIOUS
<1>10. /\ IsPhi(bitsS, w, h)
       /\ \A r \in 0..(h - 1) :
              bitsS.image[r] % Order = SumTo(Terms(s, bitsS.rows[r], w), w) % Order
  <2>0. PICK com : com = aux.s
    OBVIOUS
  <2>1. com = [p \in Places |-> (s[p] * base[p \div 2]) % Order]
    BY <1>4, <1>5, <2>0, Zenon
  <2>2. /\ IsPhi(BitRows(base, com), 2 * Dim, 4 * Dim)
        /\ \A r \in 0..(4 * Dim - 1) :
               BitRows(base, com).image[r] % Order
                 = SumTo(Terms(s, BitRows(base, com).rows[r], 2 * Dim), 2 * Dim) % Order
    BY ONLY base \in [Index -> Int], s \in [Places -> 0..1], <2>1, BitRowsHold, Zenon
  <2> QED BY <1>1, <1>6, <2>0, <2>2
<1>11. /\ IsPhi(bitsE, w, h)
       /\ \A r \in 0..(h - 1) :
              bitsE.image[r] % Order = SumTo(Terms(e, bitsE.rows[r], w), w) % Order
  <2>0. PICK com : com = aux.e
    OBVIOUS
  <2>1. com = [p \in Places |-> (e[p] * base[p \div 2]) % Order]
    BY <1>4, <1>5, <2>0, Zenon
  <2>2. /\ IsPhi(BitRows(base, com), 2 * Dim, 4 * Dim)
        /\ \A r \in 0..(4 * Dim - 1) :
               BitRows(base, com).image[r] % Order
                 = SumTo(Terms(e, BitRows(base, com).rows[r], 2 * Dim), 2 * Dim) % Order
    BY ONLY base \in [Index -> Int], e \in [Places -> 0..1], <2>1, BitRowsHold, Zenon
  <2> QED BY <1>1, <1>7, <2>0, <2>2
<1>12. /\ IsPhi(carry, n, n)
       /\ \A r \in 0..(n - 1) :
              carry.image[r] % Order = SumTo(Terms(k, carry.rows[r], n), n) % Order
  <2>0. PICK com : com = aux.k
    OBVIOUS
  <2>1. com = [i \in Index |-> (k[i] * base[i]) % Order]
    BY <1>4, <1>5, <2>0, Zenon
  <2>2. /\ IsPhi(CarryRows(base, com), Dim, Dim)
        /\ \A r \in 0..(Dim - 1) :
               CarryRows(base, com).image[r] % Order
                 = SumTo(Terms(k, CarryRows(base, com).rows[r], Dim), Dim) % Order
    BY ONLY base \in [Index -> Int], k \in [Index -> Int], <2>1, CarryRowsHold, Zenon
  <2> QED BY <1>1, <1>8, <2>0, <2>2
<1>13. PICK row : row = EquationRow(Public(x), base)
  OBVIOUS
<1>14. PICK im : im = EquationImage(Public(x), base, aux)
  OBVIOUS
<1>15. /\ eq.width = w /\ eq.height = h + 1
       /\ \A r \in 0..h : /\ eq.rows[r] = IF r = h THEN row ELSE bitsS.rows[r]
                          /\ eq.image[r] = IF r = h THEN im ELSE bitsS.image[r]
  <2>1. bitsS.width = w /\ bitsS.height = h
    BY <1>10 DEF IsPhi
  <2> QED BY <1>6, <1>9, <1>13, <1>14, <2>1 DEF EquationRows
<1>16. PICK A \in Int, W \in Int :
         /\ A = SumTo([i \in Index |-> x.s[i] * Weights(x.a, base)[i]], Dim)
         /\ W = SumTo(Weights(x.a, base), Dim)
         /\ \A p \in Places : row[p] \in Int
         /\ SumTo(Terms(s, row, w), w) % Order = (A + W) % Order
  <2>1. /\ \A p \in Places : EquationRow(Public(x), base)[p] \in Int
        /\ SumTo([i \in Index |-> x.s[i] * Weights(x.a, base)[i]], Dim) \in Int
        /\ SumTo(Weights(x.a, base), Dim) \in Int
        /\ SumTo(Terms(BitDecom(x.s), EquationRow(Public(x), base), 2 * Dim), 2 * Dim) % Order
             = (SumTo([i \in Index |-> x.s[i] * Weights(x.a, base)[i]], Dim)
                  + SumTo(Weights(x.a, base), Dim)) % Order
    BY EquationRowIs, Zenon
  <2> QED BY <1>1, <1>5, <1>13, <2>1
<1>17. PICK P \in Int :
         /\ P = SumTo([i \in Index |-> Product(x.a, x.s)[i] * base[i]], Dim)
         /\ im \in Int /\ im % Order = (P + W) % Order
  <2>1. /\ EquationImage(Public(x), base, aux) \in Int
        /\ SumTo([i \in Index |-> Product(x.a, x.s)[i] * base[i]], Dim) \in Int
        /\ EquationImage(Public(x), base, aux) % Order
             = (SumTo([i \in Index |-> Product(x.a, x.s)[i] * base[i]], Dim)
                  + SumTo(Weights(x.a, base), Dim)) % Order
    BY <1>4, EquationImageIs, Zenon
  <2> QED BY <1>14, <1>16, <2>1
<1>18. IsPhi(eq, w, h + 1)
  <2>1. ASSUME NEW r \in 0..h
        PROVE  eq.image[r] \in Int /\ \A p \in 0..(w - 1) : eq.rows[r][p] \in Int
    <3>1. CASE r = h
      <4>1. eq.image[r] = im /\ eq.rows[r] = row
        BY <1>15, <3>1
      <4> QED BY <1>1, <1>16, <1>17, <4>1
    <3>2. CASE r # h
      <4>1. r \in 0..(h - 1)
        BY <3>2
      <4>2. eq.image[r] = bitsS.image[r] /\ eq.rows[r] = bitsS.rows[r]
        BY <1>15, <3>2
      <4> QED BY <1>10, <4>1, <4>2 DEF IsPhi
    <3> QED BY <3>1, <3>2
  <2>2. (h + 1) - 1 = h
    OBVIOUS
  <2> QED BY <1>15, <2>1, <2>2 DEF IsPhi
\* The three proofs.
<1>19. Accepts(Public(x), base, Prove(x, base, drawn))
         <=> /\ VerifyImage(eq, ProveImage(eq, s, drawn[1]))
             /\ VerifyImage(bitsE, ProveImage(bitsE, e, drawn[2]))
             /\ VerifyImage(carry, ProveImage(carry, k, drawn[3]))
  <2>1. PICK made : made = Prove(x, base, drawn)
    OBVIOUS
  <2>2. PICK sts : sts = <<eq, bitsE, carry>>
    OBVIOUS
  <2>3. Encode(Public(x), base, aux) = sts
    BY <1>7, <1>8, <1>9, <2>2 DEF Encode
  <2>4. made.aux = aux
    BY <1>2, <2>1 DEF Prove
  <2>5. /\ made.proofs[1] = ProveImage(eq, s, drawn[1])
        /\ made.proofs[2] = ProveImage(bitsE, e, drawn[2])
        /\ made.proofs[3] = ProveImage(carry, k, drawn[3])
    <3>1. made.proofs = [i \in 1..3 |-> ProveImage(sts[i], <<s, e, k>>[i], drawn[i])]
      BY <1>2, <1>5, <2>1, <2>3 DEF Prove
    <3>2. 1 \in 1..3 /\ 2 \in 1..3 /\ 3 \in 1..3
      OBVIOUS
    <3> QED BY <2>2, <3>1, <3>2
  <2>6. Accepts(Public(x), base, made) <=> \A i \in 1..3 : VerifyImage(sts[i], made.proofs[i])
    BY <2>3, <2>4, Zenon DEF Accepts
  <2>7. sts[1] = eq /\ sts[2] = bitsE /\ sts[3] = carry
    BY <2>2
  <2>8. \A i \in 1..3 : i = 1 \/ i = 2 \/ i = 3
    OBVIOUS
  <2>9. 1 \in 1..3 /\ 2 \in 1..3 /\ 3 \in 1..3
    OBVIOUS
  <2> QED BY <2>1, <2>5, <2>6, <2>7, <2>8, <2>9
<1>20. \A i \in 1..3 : \A p \in 0..(w - 1) : drawn[i][p] \in Int
  <2>1. Blinds \subseteq Int
    BY RlweAssumption
  <2> QED BY <1>1, <2>1
<1>21. \A p \in 0..(w - 1) : s[p] \in Int /\ e[p] \in Int
  BY <1>1
<1>22. VerifyImage(bitsE, ProveImage(bitsE, e, drawn[2]))
  <2>1. \A p \in 0..(w - 1) : e[p] \in Int /\ drawn[2][p] \in Int
    BY <1>20, <1>21
  <2> QED BY ONLY <1>11, <2>1, w \in Nat, h \in Nat, VerifiedRows
<1>23. VerifyImage(carry, ProveImage(carry, k, drawn[3]))
  <2>1. \A p \in 0..(n - 1) : k[p] \in Int /\ drawn[3][p] \in Int
    <3>1. \A p \in 0..(n - 1) : p \in 0..(w - 1)
      BY <1>1
    <3> QED BY <1>1, <1>20, <3>1
  <2> QED BY ONLY <1>12, <2>1, n \in Nat, VerifiedRows
<1>24. VerifyImage(eq, ProveImage(eq, s, drawn[1]))
         <=> \A r \in 0..h : eq.image[r] % Order = SumTo(Terms(s, eq.rows[r], w), w) % Order
  <2>1. \A p \in 0..(w - 1) : s[p] \in Int /\ drawn[1][p] \in Int
    BY <1>20, <1>21
  <2>2. h + 1 \in Nat
    OBVIOUS
  <2>3. VerifyImage(eq, ProveImage(eq, s, drawn[1]))
          <=> \A r \in 0..((h + 1) - 1) :
                  eq.image[r] % Order = SumTo(Terms(s, eq.rows[r], w), w) % Order
    BY ONLY <1>18, <2>1, <2>2, w \in Nat, VerifiedRows
  <2>4. (h + 1) - 1 = h
    OBVIOUS
  <2> QED BY <2>3, <2>4
\* Of which only the equation may fail.
<1>25. (\A r \in 0..h : eq.image[r] % Order = SumTo(Terms(s, eq.rows[r], w), w) % Order)
         <=> im % Order = SumTo(Terms(s, row, w), w) % Order
  <2>1. h \in 0..h /\ \A r \in 0..h : r = h \/ r \in 0..(h - 1)
    OBVIOUS
  <2> QED BY <1>10, <1>15, <2>1
<1>26. PICK V \in Int : V = Wrapped(x, base) /\ A = P + 2 * V
  BY <1>16, <1>17, ProductAtTau
<1>27. (P + W) % Order = (A + W) % Order <=> (2 * V) % Order = 0
  <2>1. PICK u \in Int, v \in Int : u = A + W /\ v = P + W
    OBVIOUS
  <2>2. u - v = 2 * V
    BY <1>26, <2>1
  <2>3. u % Order = v % Order <=> (u - v) % Order = 0
    BY RlweParameters, SameDifference
  <2> QED BY <2>1, <2>2, <2>3
<1> QED
  BY <1>16, <1>17, <1>19, <1>22, <1>23, <1>24, <1>25, <1>26, <1>27

-----------------------------------------------------------------------------
\* The session: what has been made is what it should be.
SigmaInv ==
    /\ crs = Missing \/ crs \in [Index -> Int]
    /\ instance = Missing \/ IsInstance(instance)
    /\ \/ prepared = Missing
       \/ /\ prepared.crs \in [Index -> Int] /\ IsInstance(prepared.of)
          /\ \E drawn \in [1..3 -> [Places -> Blinds]] :
                 prepared.made = Prove(prepared.of, prepared.crs, drawn)

\* The powers of tau are numbers.
LEMMA PowersOfTau ==
    ASSUME NEW tau \in Taus
    PROVE  [i \in Index |-> PowerOf(tau, i) % Order] \in [Index -> Int]
<1>1. ASSUME NEW i \in Index PROVE PowerOf(tau, i) % Order \in Int
  <2>1. i \in Nat /\ tau \in Int
    BY RlweParameters, RlweAssumption, PlacesOfBits
  <2>2. PICK y \in Int : y = PowerOf(tau, i)
    <3>1. PICK f \in [0..i -> Int] : PowerOf(tau, i) = f[i]
      BY <2>1, Powers
    <3>2. i \in 0..i
      BY <2>1
    <3> QED BY <3>1, <3>2
  <2>3. y % Order \in Int
    BY RlweParameters, SameRest
  <2> QED BY <2>2, <2>3
<1> QED
  BY <1>1

\* Every step keeps this.
LEMMA SigmaKeeps ==
    ASSUME SigmaInv, [SigmaNext]_sigmaVars
    PROVE  SigmaInv'
<1>1. CASE MakeCrs
  <2>1. PICK tau \in Taus : crs' = [i \in Index |-> PowerOf(tau, i) % Order]
    BY <1>1, Zenon DEF MakeCrs
  <2>2. crs' \in [Index -> Int]
    BY <2>1, PowersOfTau
  <2>3. UNCHANGED <<instance, prepared>>
    BY <1>1 DEF MakeCrs
  <2> QED BY <2>2, <2>3 DEF SigmaInv
<1>2. CASE MakeInstance
  <2>1. PICK c \in Secrets : instance' = Instance(c)
    BY <1>2, Zenon DEF MakeInstance
  <2>2. IsInstance(instance)'
    BY <2>1, Instances DEF IsInstance
  <2>3. UNCHANGED <<crs, prepared>>
    BY <1>2 DEF MakeInstance
  <2> QED BY <2>2, <2>3 DEF SigmaInv
<1>3. CASE Prepare
  <2>1. PICK drawn \in [1..3 -> [Places -> Blinds]] :
           prepared' = [crs |-> crs, of |-> instance, made |-> Prove(instance, crs, drawn)]
    BY <1>3, Zenon DEF Prepare
  <2>2. UNCHANGED <<crs, instance>> /\ crs # Missing /\ instance # Missing
    BY <1>3 DEF Prepare
  <2>3. crs \in [Index -> Int] /\ IsInstance(instance)
    BY <2>2 DEF SigmaInv
  <2>4. /\ prepared'.crs = crs /\ prepared'.of = instance
        /\ prepared'.made = Prove(instance, crs, drawn)
    BY <2>1
  <2>5. (\/ prepared = Missing
         \/ /\ prepared.crs \in [Index -> Int] /\ IsInstance(prepared.of)
            /\ \E d \in [1..3 -> [Places -> Blinds]] :
                   prepared.made = Prove(prepared.of, prepared.crs, d))'
    <3>1. prepared'.crs \in [Index -> Int]
      BY <2>3, <2>4
    <3>2. IsInstance(prepared'.of)
      BY <2>3, <2>4, Zenon
    <3>3. prepared'.made = Prove(prepared'.of, prepared'.crs, drawn)
      BY <2>4, Zenon
    <3> QED BY <3>1, <3>2, <3>3, Zenon
  <2> QED BY <2>2, <2>3, <2>5 DEF SigmaInv
<1>4. CASE ProofOfKnowledge
  <2>1. UNCHANGED <<crs, instance>> /\ (prepared' = prepared \/ prepared' = Missing)
    BY <1>4 DEF ProofOfKnowledge
  <2> QED BY <2>1 DEF SigmaInv
<1>5. CASE Quit \/ UNCHANGED sigmaVars
  <2>1. UNCHANGED <<crs, instance, prepared>>
    BY <1>5 DEF Quit, sigmaVars
  <2> QED BY <2>1 DEF SigmaInv
<1> QED
  BY <1>1, <1>2, <1>3, <1>4, <1>5 DEF SigmaNext

\* The invariant says enough.
LEMMA WhatIsAccepted ==
    ASSUME SigmaInv
    PROVE  HonestUnlessWrapped
<1>1. SUFFICES ASSUME prepared # Missing, prepared.crs = crs, Public(prepared.of) = Public(instance)
               PROVE  Accepts(Public(instance), crs, prepared.made)
                        <=> (2 * Wrapped(prepared.of, crs)) % Order = 0
  BY Zenon DEF HonestUnlessWrapped
<1>2. PICK drawn \in [1..3 -> [Places -> Blinds]] :
         /\ prepared.crs \in [Index -> Int] /\ IsInstance(prepared.of)
         /\ prepared.made = Prove(prepared.of, prepared.crs, drawn)
  BY <1>1, Zenon DEF SigmaInv
<1>3. Accepts(Public(prepared.of), prepared.crs, Prove(prepared.of, prepared.crs, drawn))
        <=> (2 * Wrapped(prepared.of, prepared.crs)) % Order = 0
  BY <1>2, HonestAccepted, Zenon
<1> QED
  BY <1>1, <1>2, <1>3, Zenon

\* The sigma proof of inside (sigma.py, rlwe.py): whatever the CRS, the instance and the draws, an
\* honest proof for the current ones is accepted exactly if twice what wraps around vanishes.
THEOREM WrappedDecides == SigmaSpec => []HonestUnlessWrapped
<1>1. SigmaInit => SigmaInv
  BY Zenon DEF SigmaInit, SigmaInv
<1>2. SigmaInv /\ [SigmaNext]_sigmaVars => SigmaInv'
  BY SigmaKeeps, Zenon
<1>3. SigmaInv => HonestUnlessWrapped
  BY WhatIsAccepted, Zenon
<1> QED
  BY <1>1, <1>2, <1>3, PTL DEF SigmaSpec
=============================================================================
