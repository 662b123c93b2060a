------------------------------ MODULE HostProofs -----------------------------
(***************************************************************************)
(* Theorems about WebHostBuilder: for every content of the settings files, *)
(* every order of the calls and every number of loggers, the builder       *)
(* starts the server and the loggers that the settings ask for, and the    *)
(* host dispatches as module Dispatcher does.                              *)
(*                                                                         *)
(* The invariant says what has become of the settings at each stage; that  *)
(* this is what was asked for is a matter of the operators of Settings.    *)
(* Two of them are recursive: MakePowerOfTwo goes through the bits of a    *)
(* number, Sinks through a list.  Both are reasoned about by induction     *)
(* over a set of numbers (SetInduction).                                   *)
(***************************************************************************)
EXTENDS WebHostBuilder, DispatcherProofs

------------------------------------------------------------------------------
(* Recursion on the natural numbers *)

\* f starts with `first` and goes from value to value by `step`.
Recurs(f, Q, first, step) ==
    /\ f \in [Nat -> Q]
    /\ f[0] = first /\ \A n \in Nat : f[n + 1] = step[<<n, f[n]>>]

\* Definition by recursion: a first value and what makes the next value of one
\* determine a function.
LEMMA Recursion ==
    ASSUME NEW Q, NEW first \in Q, NEW step \in [Nat \X Q -> Q]
    PROVE  \E f : Recurs(f, Q, first, step)
<1> DEFINE Follows(g, n) == g[0] = first /\ \A i \in 0 .. n - 1 : g[i + 1] = step[<<i, g[i]>>]
<1> DEFINE S == {n \in Nat : \E g \in [0 .. n -> Q] : Follows(g, n)}
<1>1. 0 \in S
  <2>1. [i \in 0 .. 0 |-> first] \in [0 .. 0 -> Q] /\ Follows([i \in 0 .. 0 |-> first], 0)
    OBVIOUS
  <2> QED BY <2>1
<1>2. \A n \in Nat : n \in S => n + 1 \in S
  <2> SUFFICES ASSUME NEW n \in Nat, n \in S PROVE n + 1 \in S
    OBVIOUS
  <2>1. PICK g \in [0 .. n -> Q] : Follows(g, n)
    OBVIOUS
  <2> DEFINE h == [i \in 0 .. n + 1 |-> IF i = n + 1 THEN step[<<n, g[n]>>] ELSE g[i]]
  <2>2. <<n, g[n]>> \in Nat \X Q
    OBVIOUS
  <2>3. h \in [0 .. n + 1 -> Q]
    BY <2>2
  <2>4. \A i \in 0 .. n : h[i] = g[i]
    OBVIOUS
  <2>5. h[n + 1] = step[<<n, g[n]>>]
    <3>1. n + 1 \in 0 .. n + 1
      OBVIOUS
    <3> QED BY <3>1
  <2> HIDE DEF h
  <2>6. \A i \in 0 .. (n + 1) - 1 : h[i + 1] = step[<<i, h[i]>>]
    <3> SUFFICES ASSUME NEW i \in 0 .. n PROVE h[i + 1] = step[<<i, h[i]>>]
      OBVIOUS
    <3>1. CASE i = n
      BY <2>4, <2>5, <3>1
    <3>2. CASE i # n
      <4>1. i \in 0 .. n - 1 /\ i + 1 \in 0 .. n
        BY <3>2
      <4> QED BY <2>1, <2>4, <4>1
    <3> QED BY <3>1, <3>2
  <2>7. h[0] = first
    BY <2>1, <2>4
  <2>8. n + 1 \in Nat /\ Follows(h, n + 1)
    BY <2>6, <2>7
  <2> QED BY <2>3, <2>8
<1>3. Nat \subseteq S
  <2> HIDE DEF S
  <2> QED BY <1>1, <1>2, SetInduction
<1> DEFINE G(n) == CHOOSE g \in [0 .. n -> Q] : Follows(g, n)
<1>4. \A n \in Nat : G(n) \in [0 .. n -> Q] /\ Follows(G(n), n)
  BY <1>3
<1> HIDE DEF S, G
<1>5. \A n \in Nat : \A i \in 0 .. n : G(n + 1)[i] = G(n)[i]
  <2> TAKE n \in Nat
  <2> DEFINE A == {i \in Nat : i <= n => G(n + 1)[i] = G(n)[i]}
  <2>1. 0 \in A
    BY <1>4
  <2>2. \A i \in Nat : i \in A => i + 1 \in A
    <3> SUFFICES ASSUME NEW i \in Nat, i \in A, i + 1 <= n
                 PROVE  G(n + 1)[i + 1] = G(n)[i + 1]
      OBVIOUS
    <3>1. G(n + 1)[i] = G(n)[i]
      OBVIOUS
    <3>2. G(n + 1)[i + 1] = step[<<i, G(n + 1)[i]>>]
      BY <1>4
    <3>3. G(n)[i + 1] = step[<<i, G(n)[i]>>]
      BY <1>4
    <3> QED BY <3>1, <3>2, <3>3
  <2>3. Nat \subseteq A
    <3> HIDE DEF A
    <3> QED BY <2>1, <2>2, SetInduction
  <2> QED BY <2>3
<1> DEFINE f == [n \in Nat |-> G(n)[n]]
<1>6. f \in [Nat -> Q] /\ f[0] = first
  BY <1>4
<1>7. \A n \in Nat : f[n + 1] = step[<<n, f[n]>>]
  <2> TAKE n \in Nat
  <2>1. f[n + 1] = step[<<n, G(n + 1)[n]>>]
    BY <1>4
  <2>2. G(n + 1)[n] = f[n]
    BY <1>5
  <2> QED BY <2>1, <2>2
<1> HIDE DEF f
<1>8. Recurs(f, Q, first, step)
  BY <1>6, <1>7 DEF Recurs
<1> QED BY <1>8

------------------------------------------------------------------------------
(* Powers of two *)

\* An int has a number of bits that the shifts of MakePowerOfTwo can reach.
LEMMA WidthOfInt == Width \in 1 .. 32
BY SettingsAssumption

\* TwoTo is what its recursion says.
LEMMA TwoToDefined ==
    /\ TwoTo \in [Nat -> Nat \ {0}]
    /\ TwoTo[0] = 1
    /\ \A n \in Nat : TwoTo[n + 1] = 2 * TwoTo[n]
<1> DEFINE double == [p \in Nat \X Nat |-> 2 * p[2]]
<1>1. PICK f : Recurs(f, Nat, 1, double)
  <2>1. double \in [Nat \X Nat -> Nat] /\ 1 \in Nat
    OBVIOUS
  <2> HIDE DEF double
  <2> QED BY <2>1, Recursion, Zenon
<1>2. \A n \in Nat : f[n + 1] = 2 * f[n]
  <2> TAKE n \in Nat
  <2>1. f[n] \in Nat /\ <<n, f[n]>> \in Nat \X Nat
    BY <1>1 DEF Recurs
  <2> QED BY <1>1, <2>1 DEF Recurs
<1> USE <1>1 DEF Recurs
<1>3. f = [k \in Nat |-> IF k = 0 THEN 1 ELSE 2 * f[k - 1]]
  <2> SUFFICES ASSUME NEW k \in Nat PROVE f[k] = IF k = 0 THEN 1 ELSE 2 * f[k - 1]
    OBVIOUS
  <2>1. CASE k = 0
    BY <1>1, <2>1
  <2>2. CASE k # 0
    <3>1. k - 1 \in Nat /\ (k - 1) + 1 = k
      BY <2>2
    <3> QED BY <1>2, <2>2, <3>1
  <2> QED BY <2>1, <2>2
<1>4. TwoTo = [k \in Nat |-> IF k = 0 THEN 1 ELSE 2 * TwoTo[k - 1]]
  BY <1>3 DEF TwoTo
<1>5. TwoTo[0] = 1 /\ \A n \in Nat : TwoTo[n + 1] = 2 * TwoTo[n]
  <2>1. TwoTo[0] = 1
    BY <1>4
  <2>2. ASSUME NEW n \in Nat PROVE TwoTo[n + 1] = 2 * TwoTo[n]
    <3>1. n + 1 \in Nat /\ n + 1 # 0 /\ (n + 1) - 1 = n
      OBVIOUS
    <3> QED BY <1>4, <3>1
  <2> QED BY <2>1, <2>2
<1> DEFINE A == {n \in Nat : TwoTo[n] \in Nat \ {0}}
<1>6. 0 \in A /\ \A n \in Nat : n \in A => n + 1 \in A
  BY <1>5
<1>7. Nat \subseteq A
  <2> HIDE DEF A
  <2> QED BY <1>6, SetInduction
<1>8. TwoTo \in [Nat -> Nat \ {0}]
  BY <1>4, <1>7
<1> QED BY <1>5, <1>8

\* They grow.
LEMMA TwoToGrows ==
    ASSUME NEW m \in Nat, NEW n \in Nat, m <= n
    PROVE  TwoTo[m] <= TwoTo[n]
<1> DEFINE A == {k \in Nat : TwoTo[m] <= TwoTo[m + k]}
<1>1. 0 \in A
  BY TwoToDefined
<1>2. \A k \in Nat : k \in A => k + 1 \in A
  <2> SUFFICES ASSUME NEW k \in Nat, TwoTo[m] <= TwoTo[m + k]
               PROVE  TwoTo[m] <= TwoTo[m + (k + 1)]
    OBVIOUS
  <2>1. m + k \in Nat /\ m + (k + 1) = (m + k) + 1
    OBVIOUS
  <2>2. TwoTo[(m + k) + 1] = 2 * TwoTo[m + k]
    BY <2>1, TwoToDefined
  <2>3. TwoTo[m] \in Nat /\ TwoTo[m + k] \in Nat
    BY <2>1, TwoToDefined
  <2> QED BY <2>1, <2>2, <2>3
<1>3. n - m \in Nat /\ m + (n - m) = n
  OBVIOUS
<1>4. Nat \subseteq A
  <2> HIDE DEF A
  <2> QED BY <1>1, <1>2, SetInduction
<1>5. n - m \in A
  BY <1>3, <1>4
<1> QED BY <1>3, <1>5

\* A positive number lies between two powers that follow each other.
LEMMA TopBit ==
    ASSUME NEW y \in Nat, y # 0, NEW w \in Nat, y < TwoTo[w]
    PROVE  \E m \in 0 .. w - 1 : TwoTo[m] <= y /\ y < TwoTo[m + 1]
<1> DEFINE A == {k \in Nat : y < TwoTo[k] => \E m \in 0 .. k - 1 : TwoTo[m] <= y /\ y < TwoTo[m + 1]}
<1>1. 0 \in A
  BY TwoToDefined
<1>2. \A k \in Nat : k \in A => k + 1 \in A
  <2> SUFFICES ASSUME NEW k \in Nat, k \in A, y < TwoTo[k + 1]
               PROVE  \E m \in 0 .. (k + 1) - 1 : TwoTo[m] <= y /\ y < TwoTo[m + 1]
    OBVIOUS
  <2>1. TwoTo[k] \in Nat
    BY TwoToDefined
  <2>2. CASE y < TwoTo[k]
    BY <2>2
  <2>3. CASE TwoTo[k] <= y
    BY <2>3
  <2> QED BY <2>1, <2>2, <2>3
<1>3. Nat \subseteq A
  <2> HIDE DEF A
  <2> QED BY <1>1, <1>2, SetInduction
<1> QED BY <1>3

\* The quotient of y by d is 1 when y is at least d and less than twice d.
LEMMA QuotientOne ==
    ASSUME NEW y \in Nat, NEW d \in Nat \ {0}, d <= y, y < 2 * d
    PROVE  y \div d = 1
OBVIOUS

\* It is 0 when y is below d.
LEMMA QuotientZero ==
    ASSUME NEW y \in Nat, NEW d \in Nat \ {0}, y < d
    PROVE  y \div d = 0
OBVIOUS

\* The bits of a number with top bit m.
LEMMA BitsBelowTop ==
    ASSUME NEW y \in Nat, NEW m \in 0 .. Width - 1, TwoTo[m] <= y, y < TwoTo[m + 1]
    PROVE  m \in Bits(y) /\ Bits(y) \subseteq 0 .. m
<1> USE WidthOfInt
<1>1. m \in Nat /\ TwoTo[m] \in Nat \ {0} /\ TwoTo[m + 1] = 2 * TwoTo[m]
  BY TwoToDefined
<1>2. y \div TwoTo[m] = 1
  BY <1>1, QuotientOne
<1>3. ASSUME NEW k \in 0 .. Width - 1, m < k
      PROVE  y \div TwoTo[k] = 0
  <2>1. k \in Nat /\ m + 1 \in Nat /\ m + 1 <= k
    BY <1>3
  <2>2. TwoTo[m + 1] <= TwoTo[k] /\ TwoTo[k] \in Nat \ {0} /\ TwoTo[m + 1] \in Nat
    BY <2>1, TwoToGrows, TwoToDefined
  <2> QED BY <2>2, QuotientZero
<1> QED BY <1>2, <1>3 DEF Bits

\* A shift doubles the number of bits known to be set below the top one.
LEMMA FillDoubles ==
    ASSUME NEW m \in 0 .. Width - 1, NEW shift \in Nat, NEW bits,
           bits \subseteq 0 .. m, \A k \in 0 .. m : m - shift < k => k \in bits
    PROVE  /\ Fill(bits, shift) \subseteq 0 .. m
           /\ \A k \in 0 .. m : m - 2 * shift < k => k \in Fill(bits, shift)
<1> USE WidthOfInt DEF Fill
<1>1. Fill(bits, shift) \subseteq 0 .. m
  <2> SUFFICES ASSUME NEW k \in 0 .. Width - 1, k + shift \in bits PROVE k \in 0 .. m
    OBVIOUS
  <2> QED OBVIOUS
<1>2. ASSUME NEW k \in 0 .. m, m - 2 * shift < k
      PROVE  k \in Fill(bits, shift)
  <2>1. CASE m - shift < k
    BY <2>1
  <2>2. CASE k <= m - shift
    <3>1. k + shift \in 0 .. m /\ m - shift < k + shift
      BY <1>2, <2>2
    <3> QED BY <3>1
  <2> QED BY <2>1, <2>2
<1> QED BY <1>1, <1>2

\* Five shifts set all bits below the top one.
LEMMA AllFilled ==
    ASSUME NEW m \in 0 .. Width - 1, NEW bits, m \in bits, bits \subseteq 0 .. m
    PROVE  FillAll(bits) = 0 .. m
<1> DEFINE Set(b, n) == b \subseteq 0 .. m /\ \A k \in 0 .. m : m - n < k => k \in b
<1>1. \A b : \A n \in Nat : Set(b, n) => Set(Fill(b, n), 2 * n)
  BY FillDoubles
<1>2. Set(bits, 1)
  BY WidthOfInt
<1> HIDE DEF Set
<1>3. Set(Fill(bits, 1), 2)
  BY <1>1, <1>2
<1>4. Set(Fill(Fill(bits, 1), 2), 4)
  BY <1>1, <1>3
<1>5. Set(Fill(Fill(Fill(bits, 1), 2), 4), 8)
  BY <1>1, <1>4
<1>6. Set(Fill(Fill(Fill(Fill(bits, 1), 2), 4), 8), 16)
  BY <1>1, <1>5
<1>7. Set(FillAll(bits), 32)
  BY <1>1, <1>6 DEF FillAll
<1>8. \A k \in 0 .. m : m - 32 < k
  BY WidthOfInt
<1> QED BY <1>7, <1>8 DEF Set

\* Number adds up the powers of the bits, from the lowest one on.
LEMMA NumberDefined ==
    ASSUME NEW bits
    PROVE  \E below : /\ Number(bits) = below[Width] /\ below[0] = 0
                      /\ \A n \in 0 .. Width - 1 :
                            below[n + 1] = below[n] + (IF n \in bits THEN TwoTo[n] ELSE 0)
<1> USE WidthOfInt
<1> DEFINE Term(n) == IF n \in bits THEN TwoTo[n] ELSE 0
<1> DEFINE add == [p \in Nat \X Nat |-> p[2] + Term(p[1])]
<1> DEFINE Sums(g) == g = [k \in 0 .. Width |->
                             IF k = 0 THEN 0
                             ELSE g[k - 1] + (IF k - 1 \in bits THEN TwoTo[k - 1] ELSE 0)]
<1>1. PICK f : Recurs(f, Nat, 0, add)
  <2>1. \A n \in Nat : Term(n) \in Nat
    BY TwoToDefined
  <2>2. add \in [Nat \X Nat -> Nat] /\ 0 \in Nat
    BY <2>1
  <2> HIDE DEF add
  <2> QED BY <2>2, Recursion, Zenon
<1>2. \A n \in Nat : f[n + 1] = f[n] + Term(n)
  <2> TAKE n \in Nat
  <2>1. f[n] \in Nat /\ <<n, f[n]>> \in Nat \X Nat
    BY <1>1 DEF Recurs
  <2> QED BY <1>1, <2>1 DEF Recurs
<1>3. Sums([k \in 0 .. Width |-> f[k]])
  <2> DEFINE g == [k \in 0 .. Width |-> f[k]]
  <2> SUFFICES ASSUME NEW k \in 0 .. Width
               PROVE  g[k] = IF k = 0 THEN 0
                             ELSE g[k - 1] + (IF k - 1 \in bits THEN TwoTo[k - 1] ELSE 0)
    OBVIOUS
  <2>1. CASE k = 0
    BY <1>1, <2>1 DEF Recurs
  <2>2. CASE k # 0
    <3>1. k - 1 \in Nat /\ k - 1 \in 0 .. Width /\ (k - 1) + 1 = k
      BY <2>2
    <3>2. f[k] = f[k - 1] + Term(k - 1)
      BY <1>2, <3>1
    <3> QED BY <2>2, <3>1, <3>2
  <2> QED BY <2>1, <2>2
<1> DEFINE below == CHOOSE g : Sums(g)
<1>4. Sums(below)
  <2> HIDE DEF Sums
  <2> QED BY <1>3
<1>5. Number(bits) = below[Width]
  BY DEF Number
<1> HIDE DEF below
<1>6. below[0] = 0
  BY <1>4
<1>7. ASSUME NEW n \in 0 .. Width - 1
      PROVE  below[n + 1] = below[n] + (IF n \in bits THEN TwoTo[n] ELSE 0)
  <2>1. n + 1 \in 0 .. Width /\ n + 1 # 0 /\ (n + 1) - 1 = n
    OBVIOUS
  <2>2. below[n + 1] = below[(n + 1) - 1] + (IF (n + 1) - 1 \in bits THEN TwoTo[(n + 1) - 1] ELSE 0)
    BY <1>4, <2>1
  <2> HIDE DEF Sums
  <2> QED BY <2>1, <2>2
<1> HIDE DEF Sums
<1> QED BY <1>5, <1>6, <1>7

\* The number whose bits are those up to m.
LEMMA NumberOfAll ==
    ASSUME NEW m \in 0 .. Width - 1
    PROVE  Number(0 .. m) + 1 = TwoTo[m + 1]
<1> USE WidthOfInt
<1>1. PICK below : /\ Number(0 .. m) = below[Width] /\ below[0] = 0
                   /\ \A n \in 0 .. Width - 1 :
                         below[n + 1] = below[n] + (IF n \in 0 .. m THEN TwoTo[n] ELSE 0)
  BY NumberDefined
<1> DEFINE A == {n \in Nat : n <= Width =>
                    below[n] = IF n <= m + 1 THEN TwoTo[n] - 1 ELSE TwoTo[m + 1] - 1}
<1>2. 0 \in A
  <2>1. 0 <= m + 1 /\ TwoTo[0] - 1 = 0
    BY TwoToDefined
  <2> QED BY <1>1, <2>1
<1>3. \A n \in Nat : n \in A => n + 1 \in A
  <2> SUFFICES ASSUME NEW n \in Nat, n \in A, n + 1 <= Width
               PROVE  below[n + 1] = IF n + 1 <= m + 1 THEN TwoTo[n + 1] - 1 ELSE TwoTo[m + 1] - 1
    OBVIOUS
  <2>1. n \in 0 .. Width - 1
    OBVIOUS
  <2>2. below[n + 1] = below[n] + (IF n \in 0 .. m THEN TwoTo[n] ELSE 0)
    BY <1>1, <2>1
  <2>3. TwoTo[n] \in Nat /\ TwoTo[n + 1] = 2 * TwoTo[n] /\ m \in Nat /\ TwoTo[m + 1] \in Nat
    BY TwoToDefined
  <2>4. CASE n <= m
    <3>1. n \in 0 .. m /\ n <= m + 1 /\ n + 1 <= m + 1
      BY <2>4
    <3>2. below[n] = TwoTo[n] - 1
      BY <3>1
    <3> QED BY <2>2, <2>3, <3>1, <3>2
  <2>5. CASE m < n
    <3>1. n \notin 0 .. m /\ ~ n + 1 <= m + 1
      BY <2>5
    <3>2. below[n] = TwoTo[m + 1] - 1
      BY <2>5
    <3> QED BY <2>2, <2>3, <3>1, <3>2
  <2> QED BY <2>4, <2>5
<1>4. Nat \subseteq A
  <2> HIDE DEF A
  <2> QED BY <1>2, <1>3, SetInduction
<1>5. Width \in A /\ m + 1 \in Nat
  BY <1>4
<1>6. TwoTo[m + 1] \in Nat
  BY <1>5, TwoToDefined
<1>7. below[Width] = TwoTo[m + 1] - 1
  BY <1>5
<1> HIDE DEF A
<1> QED BY <1>1, <1>6, <1>7

\* Without bits the number is 0.
LEMMA NumberOfNone == Number({}) = 0
<1> USE WidthOfInt
<1>1. PICK below : /\ Number({}) = below[Width] /\ below[0] = 0
                   /\ \A n \in 0 .. Width - 1 :
                         below[n + 1] = below[n] + (IF n \in {} THEN TwoTo[n] ELSE 0)
  BY NumberDefined
<1> DEFINE A == {n \in Nat : n <= Width => below[n] = 0}
<1>2. 0 \in A
  BY <1>1
<1>3. \A n \in Nat : n \in A => n + 1 \in A
  BY <1>1
<1>4. Nat \subseteq A
  <2> HIDE DEF A
  <2> QED BY <1>2, <1>3, SetInduction
<1> QED BY <1>1, <1>4

\* MakePowerOfTwo returns the smallest power of two that is not below x.
THEOREM MakePowerOfTwoDoes ==
    ASSUME NEW x \in 1 .. Word
    PROVE  /\ MakePowerOfTwo(x) \in PowersOfTwo
           /\ x <= MakePowerOfTwo(x) /\ MakePowerOfTwo(x) < 2 * x
<1> USE WidthOfInt
<1>1. Width \in Nat /\ TwoTo[Width] \in Nat
  BY TwoToDefined
<1>2. CASE x = 1
  <2>1. \A k \in 0 .. Width - 1 : 0 \div TwoTo[k] = 0
    <3> SUFFICES ASSUME NEW k \in 0 .. Width - 1 PROVE 0 \div TwoTo[k] = 0
      OBVIOUS
    <3>1. TwoTo[k] \in Nat \ {0} /\ 0 < TwoTo[k]
      BY TwoToDefined
    <3> QED BY <3>1, QuotientZero
  <2>2. Bits(x - 1) = {}
    BY <1>2, <2>1 DEF Bits
  <2>3. FillAll({}) = {}
    BY DEF Fill, FillAll
  <2>4. MakePowerOfTwo(x) = 1
    BY <1>2, <2>2, <2>3, NumberOfNone DEF MakePowerOfTwo
  <2>5. 1 \in PowersOfTwo
    BY TwoToDefined DEF PowersOfTwo
  <2> QED BY <1>2, <2>4, <2>5
<1>3. CASE x # 1
  <2>1. x - 1 \in Nat /\ x - 1 # 0 /\ x - 1 < TwoTo[Width]
    BY <1>1, <1>3 DEF Word
  <2>2. PICK m \in 0 .. Width - 1 : TwoTo[m] <= x - 1 /\ x - 1 < TwoTo[m + 1]
    BY <1>1, <2>1, TopBit
  <2>3. m \in Bits(x - 1) /\ Bits(x - 1) \subseteq 0 .. m
    BY <2>1, <2>2, BitsBelowTop
  <2>4. FillAll(Bits(x - 1)) = 0 .. m
    BY <2>3, AllFilled
  <2>5. MakePowerOfTwo(x) = TwoTo[m + 1]
    BY <1>3, <2>1, <2>4, NumberOfAll DEF MakePowerOfTwo
  <2>6. m \in Nat /\ m + 1 \in 0 .. Width /\ TwoTo[m] \in Nat /\ TwoTo[m + 1] = 2 * TwoTo[m]
    BY TwoToDefined
  <2>7. TwoTo[m + 1] \in PowersOfTwo
    BY <2>6 DEF PowersOfTwo
  <2>8. x <= TwoTo[m + 1] /\ TwoTo[m + 1] < 2 * x
    BY <1>1, <2>2, <2>6 DEF Word
  <2> QED BY <2>5, <2>7, <2>8
<1> QED BY <1>2, <1>3

\* The default capacity is such a power.
LEMMA DefaultIsPower == DefaultCapacity \in 1 .. Word => MakePowerOfTwo(DefaultCapacity) = DefaultCapacity
<1> SUFFICES ASSUME DefaultCapacity \in 1 .. Word PROVE MakePowerOfTwo(DefaultCapacity) = DefaultCapacity
  OBVIOUS
<1>1. TwoTo[10] = 1024 /\ TwoTo[11] = 2048
  <2>1. TwoTo[0 + 1] = 2 /\ TwoTo[1 + 1] = 4 /\ TwoTo[2 + 1] = 8 /\ TwoTo[3 + 1] = 16
    BY TwoToDefined
  <2>2. TwoTo[4 + 1] = 32 /\ TwoTo[5 + 1] = 64 /\ TwoTo[6 + 1] = 128 /\ TwoTo[7 + 1] = 256
    BY <2>1, TwoToDefined
  <2>3. TwoTo[8 + 1] = 512 /\ TwoTo[9 + 1] = 1024 /\ TwoTo[10 + 1] = 2048
    BY <2>2, TwoToDefined
  <2> QED BY <2>3
<1>2. PICK k \in 0 .. Width : MakePowerOfTwo(DefaultCapacity) = TwoTo[k]
  BY MakePowerOfTwoDoes DEF PowersOfTwo
<1>3. TwoTo[k] \in Nat /\ 1024 <= TwoTo[k] /\ TwoTo[k] < 2048
  <2>1. k \in Nat
    BY WidthOfInt
  <2>2. TwoTo[k] \in Nat
    BY <2>1, TwoToDefined
  <2>3. DefaultCapacity = 1024
    BY DEF DefaultCapacity
  <2> QED BY <1>2, <2>2, <2>3, MakePowerOfTwoDoes
<1>4. CASE k <= 10
  <2>1. TwoTo[k] <= TwoTo[10]
    BY <1>4, WidthOfInt, TwoToGrows
  <2> QED BY <1>1, <1>2, <1>3, <2>1 DEF DefaultCapacity
<1>5. CASE 11 <= k
  <2>1. TwoTo[11] <= TwoTo[k]
    BY <1>5, WidthOfInt, TwoToGrows
  <2> QED BY <1>1, <1>3, <2>1
<1> QED BY <1>4, <1>5, WidthOfInt

\* A product grows with its second factor.
LEMMA ProductGrows ==
    ASSUME NEW a \in Nat, NEW b \in Nat, NEW c \in Nat, b <= c
    PROVE  a * b <= a * c
<1>1. c = b + (c - b) /\ c - b \in Nat
  OBVIOUS
<1>2. a * c = a * b + a * (c - b)
  BY <1>1, Z3
<1>3. a * (c - b) \in Nat /\ a * b \in Nat
  BY <1>1, Z3
<1> QED BY <1>2, <1>3

------------------------------------------------------------------------------
(* Settings *)

\* Nothing is in an empty object.
LEMMA ValueOfEmpty == \A key, default : Value(Empty, key, default) = default
BY DEF Value, Empty

ServerSettings == Value(Config, "server", Empty)
LoggingSettings == Value(Config, "logging", Empty)
LoggersListed == Value(LoggingSettings, "loggers", Empty)

\* What the code reads without an exception is not of a wrong type.
LEMMA NothingThrows ==
    ASSUME ~ SettingsAreWrong
    PROVE  /\ ServerSettings # WrongType /\ LoggingSettings # WrongType /\ LoggersListed # WrongType
           /\ \A key \in {"threads", "capacity", "port"} : Value(ServerSettings, key, Empty) # WrongType
           /\ Value(LoggingSettings, "sinks", Empty) # WrongType
           /\ \A name \in DOMAIN LoggersListed :
                 LoggersListed[name] # WrongType /\ Value(LoggersListed[name], "sinks", Empty) # WrongType
<1>1. ~ ServerConfigThrows(ServerSettings) /\ ~ LoggerConfigThrows(LoggingSettings)
  BY Zenon DEF SettingsAreWrong, ServerSettings, LoggingSettings
<1>2. /\ ServerSettings # WrongType
      /\ \A key \in {"threads", "capacity", "port"} : Value(ServerSettings, key, Empty) # WrongType
  BY <1>1 DEF ServerConfigThrows
<1>3. /\ ~ SpecificationThrows(LoggingSettings) /\ LoggersListed # WrongType
      /\ \A name \in DOMAIN LoggersListed : ~ SpecificationThrows(LoggersListed[name])
  BY <1>1, Zenon DEF LoggerConfigThrows, LoggersListed
<1>4. ASSUME NEW config, ~ SpecificationThrows(config)
      PROVE  config # WrongType /\ Value(config, "sinks", Empty) # WrongType
  BY <1>4, Zenon DEF SpecificationThrows
<1> QED BY <1>2, <1>3, <1>4, Zenon

\* It has the type it is used with.
LEMMA SettingsTyped ==
    ASSUME disk \in Disks, path \in Files \cup {NoText}, ~ SettingsAreWrong
    PROVE  /\ \A key \in {"threads", "capacity", "port"} : Value(ServerSettings, key, 0) \in Int
           /\ IsArray(Value(LoggingSettings, "sinks", Empty))
           /\ \A name \in DOMAIN LoggersListed : IsArray(Value(LoggersListed[name], "sinks", Empty))
<1>1. CASE path = NoText \/ disk[path] = Missing
  <2>1. Config = Empty
    BY <1>1 DEF Config
  <2>2. ServerSettings = Empty /\ LoggingSettings = Empty /\ LoggersListed = Empty
    BY <2>1, ValueOfEmpty DEF ServerSettings, LoggingSettings, LoggersListed
  <2>3. IsArray(Empty) /\ DOMAIN Empty = {}
    <3>1. Len(<<>>) = 0 /\ DOMAIN <<>> = {} /\ 1 .. 0 = {}
      OBVIOUS
    <3> QED BY <3>1 DEF IsArray, Empty
  <2> QED BY <2>2, <2>3, ValueOfEmpty
<1>2. CASE path \in Files /\ disk[path] # Missing /\ path # NoText
  <2>1. Config = disk[path] /\ Config \notin {WrongType, NoJson}
    <3>1. Config \notin {WrongType, NoJson}
      BY DEF SettingsAreWrong
    <3> QED BY <1>2, <3>1 DEF Config
  <2>2. Typed(Config)
    BY <1>2, <2>1, DisksAssumption
  <2>3. /\ \A key \in {"threads", "capacity", "port"} :
               Value(ServerSettings, key, 0) \in Int \cup {WrongType}
        /\ IsArray(Value(LoggingSettings, "sinks", Empty))
        /\ \A name \in DOMAIN LoggersListed : IsArray(Value(LoggersListed[name], "sinks", Empty))
    BY NothingThrows, <2>2, Zenon DEF Typed, ServerSettings, LoggingSettings, LoggersListed
  <2>4. \A key \in {"threads", "capacity", "port"} : Value(ServerSettings, key, 0) \in Int
    BY NothingThrows, <2>3 DEF Value
  <2> QED BY <2>3, <2>4
<1> QED BY <1>1, <1>2

\* There are ports, and the defaults are in range.
LEMMA Ports == MaxPort \in Nat \ {0} /\ DefaultPort \in 1 .. MaxPort /\ DefaultCapacity \in 1 .. MaxPort
BY SMT DEF MaxPort, DefaultPort, DefaultCapacity

\* The conversion to an int of w values leaves alone what fits.
LEMMA FitsInt ==
    ASSUME NEW w \in Nat, NEW max \in Nat, 2 * max < w, NEW n \in 0 .. max
    PROVE  ((n + w \div 2) % w) - w \div 2 = n
<1> DEFINE h == w \div 2
<1>1. h \in Nat /\ n + h \in 0 .. w - 1
  OBVIOUS
<1> HIDE DEF h
<1>2. (n + h) % w = n + h
  BY <1>1
<1>3. ((n + h) % w) - h = n
  BY <1>1, <1>2
<1> QED BY <1>3 DEF h

\* Remainders are below w, and numbers below w are their own.
LEMMA Remainders ==
    ASSUME NEW w \in Nat \ {0}
    PROVE  /\ \A n \in Int : n % w \in 0 .. w - 1
           /\ \A n \in 0 .. w - 1 : n % w = n
OBVIOUS

\* An int has Word values, and all ports are among them.
LEMMA Ints ==
    /\ Word \in Nat \ {0} /\ MaxPort < Word
    /\ \A n \in Int : ToUnsigned(n) \in 0 .. Word - 1
    /\ \A n \in 0 .. Word - 1 : ToUnsigned(n) = n
    /\ \A n \in 0 .. MaxPort : ToInt(n) = n
<1>1. Width \in Nat
  BY WidthOfInt
<1>2. Word \in Nat \ {0}
  BY <1>1, TwoToDefined DEF Word
<1>3. 2 * MaxPort < Word
  BY SettingsAssumption
<1>4. MaxPort < Word
  BY <1>2, <1>3, Ports
<1>5. \A n \in Int : ToUnsigned(n) \in 0 .. Word - 1
  BY <1>2, Remainders DEF ToUnsigned
<1>6. \A n \in 0 .. Word - 1 : ToUnsigned(n) = n
  BY <1>2, Remainders DEF ToUnsigned
<1>7. \A n \in 0 .. MaxPort : ToInt(n) = n
  BY <1>2, <1>3, Ports, FitsInt DEF ToInt
<1> QED BY <1>2, <1>4, <1>5, <1>6, <1>7

\* What a server gets is what is asked for, or a default.
LEMMA ServerConfigured ==
    ASSUME disk \in Disks, path \in Files \cup {NoText}, machine \in Machines, ~ SettingsAreWrong,
           NEW config, config = LoadServerConfig(ServerSettings, machine.processors)
    PROVE  /\ config.name = Given("server", "name", "Basic")
           /\ config.capacity \in 1 .. Word - 1
           /\ AskedCapacity \in 1 .. Word - 1 => config.capacity = AskedCapacity
           /\ AskedCapacity = 0 => config.capacity = DefaultCapacity
           /\ config.port \in 1 .. MaxPort
           /\ LET asked == Given("server", "port", DefaultPort) IN
                 asked \in 1 .. MaxPort => config.port = asked
           /\ config.threads \in Nat
           /\ AskedWorkers \in 0 .. Word - 1 => config.threads = AskedWorkers
<1> DEFINE threads == Value(ServerSettings, "threads", 0)
           capacity == Value(ServerSettings, "capacity", 0)
           port == Value(ServerSettings, "port", DefaultPort)
<1>1. threads \in Int /\ capacity \in Int /\ port \in Int
  BY SettingsTyped, Ports DEF Value
<1>2. Port(ServerSettings) = ToInt(port)
  BY DEF Port
<1>3. config.name = Value(ServerSettings, "name", "Basic")
  BY DEF LoadServerConfig
<1>4. config.threads = IF ToUnsigned(threads) = 0 THEN machine.processors ELSE ToUnsigned(threads)
  BY DEF LoadServerConfig
<1>5. config.capacity = IF ToUnsigned(capacity) = 0 THEN DefaultCapacity ELSE ToUnsigned(capacity)
  BY DEF LoadServerConfig
<1>6. config.port = ToInt(port) % (MaxPort + 1)
  BY <1>2 DEF LoadServerConfig
<1>7. ToInt(port) \in 1 .. MaxPort
  <2>1. ~ (Port(ServerSettings) <= 0 \/ Port(ServerSettings) > MaxPort)
    BY DEF SettingsAreWrong, ServerConfigThrows, ServerSettings
  <2>2. ToInt(port) \in Int
    BY <1>1, Ints DEF ToInt
  <2> QED BY <1>2, <2>1, <2>2, Ports
<1>8. ToInt(port) % (MaxPort + 1) = ToInt(port)
  <2>1. MaxPort + 1 \in Nat \ {0} /\ ToInt(port) \in 0 .. (MaxPort + 1) - 1
    BY <1>7, Ports
  <2> QED BY <2>1, Remainders
<1>9. ToUnsigned(threads) \in 0 .. Word - 1 /\ ToUnsigned(capacity) \in 0 .. Word - 1
  BY <1>1, Ints
<1> HIDE DEF threads, capacity, port
<1>10. config.capacity \in 1 .. Word - 1
  BY <1>5, <1>9, Ints, Ports
<1>11. /\ capacity \in 1 .. Word - 1 => config.capacity = capacity
       /\ capacity = 0 => config.capacity = DefaultCapacity
  BY <1>5, Ints
<1>12. config.port \in 1 .. MaxPort /\ (port \in 1 .. MaxPort => config.port = port)
  BY <1>6, <1>7, <1>8, Ints
<1>13. machine.processors \in Nat
  BY MachinesAssumption
<1>14. config.threads \in Nat
  BY <1>4, <1>9, <1>13, Ints
<1> DEFINE asked == IF threads = 0 THEN machine.processors ELSE threads
<1>15. asked \in 0 .. Word - 1 => config.threads = asked
  BY <1>4, Ints
<1>16. AskedCapacity = capacity /\ AskedWorkers = asked
  BY Zenon DEF AskedCapacity, AskedWorkers, threads, capacity, Given, ServerSettings
<1> HIDE DEF asked
<1> QED BY <1>3, <1>10, <1>11, <1>12, <1>14, <1>15, <1>16, Zenon DEF port, Given, ServerSettings

\* Without a file nothing is wrong.
LEMMA DefaultsAreRight == Config = Empty => ~ SettingsAreWrong
<1> SUFFICES ASSUME Config = Empty PROVE ~ SettingsAreWrong
  OBVIOUS
<1>1. Config \notin {NoJson, WrongType} /\ Empty # WrongType
  BY SettingsAssumption
<1>2. DOMAIN Empty = {}
  BY DEF Empty
<1>3. Value(Config, "server", Empty) = Empty /\ Value(Config, "logging", Empty) = Empty
  BY ValueOfEmpty
<1>4. ~ ServerConfigThrows(Empty)
  <2>1. Port(Empty) = DefaultPort
    BY ValueOfEmpty, Ints, Ports DEF Port
  <2> QED BY <1>1, <2>1, ValueOfEmpty, Ports DEF ServerConfigThrows
<1>5. ~ SpecificationThrows(Empty)
  BY <1>1, <1>2, ValueOfEmpty DEF SpecificationThrows
<1>6. ~ LoggerConfigThrows(Empty)
  BY <1>1, <1>2, <1>5, ValueOfEmpty DEF LoggerConfigThrows
<1> QED BY <1>1, <1>3, <1>4, <1>6 DEF SettingsAreWrong

------------------------------------------------------------------------------
(* Sinks *)

\* The sink that a setting describes.
SinkOf(sink, pattern) == [file |-> sink.file, pattern |-> Value(sink, "pattern", pattern)]

\* Sinks goes through the settings of the sinks one by one.
LEMMA SinksDefined ==
    ASSUME NEW sinks, NEW pattern, Len(sinks) \in Nat
    PROVE  \E used, Q :
               /\ Sinks(sinks, pattern) = used[Len(sinks)]
               /\ used[0] = <<>>
               /\ \A n \in 0 .. Len(sinks) : used[n] \in Seq(Q)
               /\ \A n \in 0 .. Len(sinks) - 1 :
                     used[n + 1] = IF Value(sinks[n + 1], "file", NoText) = NoText THEN used[n]
                                   ELSE Append(used[n], SinkOf(sinks[n + 1], pattern))
<1> DEFINE Q == {SinkOf(sinks[n + 1], pattern) : n \in Nat}
<1> DEFINE step == [p \in Nat \X Seq(Q) |->
                       IF Value(sinks[p[1] + 1], "file", NoText) = NoText THEN p[2]
                       ELSE Append(p[2], SinkOf(sinks[p[1] + 1], pattern))]
<1> DEFINE Uses(g) == g = [n \in 0 .. Len(sinks) |->
                             IF n = 0 THEN <<>>
                             ELSE IF Value(sinks[n], "file", NoText) = NoText THEN g[n - 1]
                             ELSE Append(g[n - 1], [file |-> sinks[n].file,
                                                    pattern |-> Value(sinks[n], "pattern", pattern)])]
<1>1. PICK f : Recurs(f, Seq(Q), <<>>, step)
  <2>1. \A n \in Nat : SinkOf(sinks[n + 1], pattern) \in Q
    OBVIOUS
  <2> HIDE DEF Q
  <2>2. step \in [Nat \X Seq(Q) -> Seq(Q)] /\ <<>> \in Seq(Q)
    BY <2>1
  <2> HIDE DEF step
  <2> QED BY <2>2, Recursion, Zenon
<1> HIDE DEF Q
<1>2. f[0] = <<>> /\ \A n \in Nat : f[n] \in Seq(Q)
  BY <1>1 DEF Recurs
<1>3. \A n \in Nat : f[n + 1] = IF Value(sinks[n + 1], "file", NoText) = NoText THEN f[n]
                                ELSE Append(f[n], SinkOf(sinks[n + 1], pattern))
  <2> TAKE n \in Nat
  <2>1. <<n, f[n]>> \in Nat \X Seq(Q)
    BY <1>2
  <2>2. f[n + 1] = step[<<n, f[n]>>]
    BY <1>1 DEF Recurs
  <2> QED BY <2>1, <2>2
<1> HIDE DEF step
<1> DEFINE g == [n \in 0 .. Len(sinks) |-> f[n]]
<1>4. Uses(g)
  <2> SUFFICES ASSUME NEW n \in 0 .. Len(sinks)
               PROVE  g[n] = IF n = 0 THEN <<>>
                             ELSE IF Value(sinks[n], "file", NoText) = NoText THEN g[n - 1]
                             ELSE Append(g[n - 1], [file |-> sinks[n].file,
                                                    pattern |-> Value(sinks[n], "pattern", pattern)])
    OBVIOUS
  <2>1. CASE n = 0
    BY <1>2, <2>1
  <2>2. CASE n # 0
    <3>1. n - 1 \in Nat /\ n - 1 \in 0 .. Len(sinks) /\ (n - 1) + 1 = n
      BY <2>2
    <3>2. g[n] = f[n] /\ g[n - 1] = f[n - 1]
      BY <3>1
    <3> QED BY <1>3, <2>2, <3>1, <3>2 DEF SinkOf
  <2> QED BY <2>1, <2>2
<1> DEFINE used == CHOOSE h : Uses(h)
<1>5. Uses(used)
  <2> HIDE DEF Uses, g
  <2> QED BY <1>4
<1>6. Sinks(sinks, pattern) = used[Len(sinks)]
  BY DEF Sinks
<1> HIDE DEF used
<1>7. used[0] = <<>>
  BY <1>5
<1>8. \A n \in 0 .. Len(sinks) - 1 :
          used[n + 1] = IF Value(sinks[n + 1], "file", NoText) = NoText THEN used[n]
                        ELSE Append(used[n], SinkOf(sinks[n + 1], pattern))
  <2> TAKE n \in 0 .. Len(sinks) - 1
  <2>1. n + 1 \in 0 .. Len(sinks) /\ n + 1 # 0 /\ (n + 1) - 1 = n
    OBVIOUS
  <2> QED BY <1>5, <2>1 DEF SinkOf
<1> HIDE DEF Uses, g
<1> DEFINE A == {n \in Nat : n <= Len(sinks) => used[n] = f[n]}
<1>9. 0 \in A
  BY <1>2, <1>7
<1>10. \A n \in Nat : n \in A => n + 1 \in A
  <2> SUFFICES ASSUME NEW n \in Nat, used[n] = f[n], n + 1 <= Len(sinks)
               PROVE  used[n + 1] = f[n + 1]
    OBVIOUS
  <2>1. n \in 0 .. Len(sinks) - 1
    OBVIOUS
  <2> QED BY <1>3, <1>8, <2>1
<1>11. Nat \subseteq A
  <2> HIDE DEF A
  <2> QED BY <1>9, <1>10, SetInduction
<1>12. \A n \in 0 .. Len(sinks) : used[n] \in Seq(Q)
  BY <1>2, <1>11
<1> QED BY <1>6, <1>7, <1>8, <1>12

\* Append adds one element at the end.
LEMMA AppendIs ==
    ASSUME NEW s, Len(s) \in Nat, NEW x, DOMAIN s = 1 .. Len(s)
    PROVE  /\ DOMAIN Append(s, x) = (1 .. Len(s)) \cup {Len(s) + 1}
           /\ \A i \in 1 .. Len(s) : Append(s, x)[i] = s[i]
           /\ Append(s, x)[Len(s) + 1] = x
OBVIOUS

\* The sinks of a logger are those of its settings that have a file.
LEMMA SinksDo ==
    ASSUME NEW sinks, NEW pattern, Len(sinks) \in Nat, DOMAIN sinks = 1 .. Len(sinks)
    PROVE  /\ \A i \in DOMAIN Sinks(sinks, pattern) : \E j \in DOMAIN sinks :
                 Value(sinks[j], "file", NoText) # NoText /\ Sinks(sinks, pattern)[i] = SinkOf(sinks[j], pattern)
           /\ \A j \in DOMAIN sinks : Value(sinks[j], "file", NoText) # NoText =>
                 \E i \in DOMAIN Sinks(sinks, pattern) : Sinks(sinks, pattern)[i] = SinkOf(sinks[j], pattern)
<1>1. PICK used, Q :
          /\ Sinks(sinks, pattern) = used[Len(sinks)]
          /\ used[0] = <<>>
          /\ \A n \in 0 .. Len(sinks) : used[n] \in Seq(Q)
          /\ \A n \in 0 .. Len(sinks) - 1 :
                used[n + 1] = IF Value(sinks[n + 1], "file", NoText) = NoText THEN used[n]
                              ELSE Append(used[n], SinkOf(sinks[n + 1], pattern))
  BY SinksDefined
<1> DEFINE From(n) == \A i \in DOMAIN used[n] : \E j \in 1 .. n :
                         Value(sinks[j], "file", NoText) # NoText /\ used[n][i] = SinkOf(sinks[j], pattern)
           All(n) == \A j \in 1 .. n : Value(sinks[j], "file", NoText) # NoText =>
                         \E i \in DOMAIN used[n] : used[n][i] = SinkOf(sinks[j], pattern)
           A == {n \in Nat : n <= Len(sinks) => From(n) /\ All(n)}
<1>2. 0 \in A
  <2>1. DOMAIN used[0] = {} /\ 1 .. 0 = {}
    BY <1>1
  <2> QED BY <2>1
<1>3. \A n \in Nat : n \in A => n + 1 \in A
  <2> SUFFICES ASSUME NEW n \in Nat, From(n), All(n), n + 1 <= Len(sinks)
               PROVE  From(n + 1) /\ All(n + 1)
    OBVIOUS
  <2>1. n \in 0 .. Len(sinks) - 1 /\ 1 .. n + 1 = (1 .. n) \cup {n + 1}
    OBVIOUS
  <2>2. CASE Value(sinks[n + 1], "file", NoText) = NoText
    <3>1. used[n + 1] = used[n]
      BY <1>1, <2>1, <2>2
    <3> QED BY <2>1, <2>2, <3>1, Zenon
  <2>3. CASE Value(sinks[n + 1], "file", NoText) # NoText
    <3> DEFINE new == SinkOf(sinks[n + 1], pattern)
               l == Len(used[n])
    <3>1. used[n + 1] = Append(used[n], new) /\ used[n] \in Seq(Q)
      <4>1. n \in 0 .. Len(sinks)
        BY <2>1
      <4>2. used[n] \in Seq(Q)
        BY <1>1, <4>1, Zenon
      <4>3. used[n + 1] = Append(used[n], new)
        BY <1>1, <2>1, <2>3, Zenon
      <4> QED BY <4>2, <4>3
    <3>2. l \in Nat /\ DOMAIN used[n] = 1 .. l
      BY <3>1
    <3> HIDE DEF new, l
    <3>3. /\ DOMAIN used[n + 1] = (1 .. l) \cup {l + 1}
          /\ \A i \in 1 .. l : used[n + 1][i] = used[n][i]
          /\ used[n + 1][l + 1] = new
      BY <3>1, <3>2, AppendIs DEF l
    <3>4. From(n + 1)
      <4> SUFFICES ASSUME NEW i \in DOMAIN used[n + 1]
                   PROVE  \E j \in 1 .. n + 1 :
                             Value(sinks[j], "file", NoText) # NoText /\ used[n + 1][i] = SinkOf(sinks[j], pattern)
        OBVIOUS
      <4>1. CASE i \in 1 .. l
        BY <2>1, <3>2, <3>3, <4>1, Zenon
      <4>2. CASE i = l + 1
        <5>1. n + 1 \in 1 .. n + 1 /\ used[n + 1][i] = SinkOf(sinks[n + 1], pattern)
          BY <2>1, <3>3, <4>2, Zenon DEF new
        <5> QED BY <2>3, <5>1, Zenon
      <4> QED BY <3>3, <4>1, <4>2, Zenon
    <3>5. All(n + 1)
      BY <2>1, <2>3, <3>2, <3>3, Zenon DEF new
    <3> QED BY <3>4, <3>5
  <2> QED BY <2>2, <2>3
<1>4. Nat \subseteq A
  <2> HIDE DEF A
  <2> QED BY <1>2, <1>3, SetInduction
<1>5. From(Len(sinks)) /\ All(Len(sinks))
  BY <1>4
<1> QED BY <1>1, <1>5, Zenon

------------------------------------------------------------------------------
(* Loggers *)

\* The sinks a logger is set up with.
SinksGiven(name) ==
    IF IsListed(name) THEN Value(Own(name), "sinks", Empty) ELSE Given("logging", "sinks", Empty)

\* The settings were read.
Loaded ==
    /\ ~ SettingsAreWrong
    /\ serverConfig = LoadServerConfig(ServerSettings, machine.processors)
    /\ loggerConfig = LoadLoggerConfig(LoggingSettings)


\* A logger gets its own level, pattern and sinks, or those of all.
LEMMA LoggerParsed ==
    ASSUME loggerConfig = LoadLoggerConfig(LoggingSettings), NEW name
    PROVE  LET logger == SpecificationOf(name) IN
           /\ logger.name = name
           /\ logger.level = ParseLogLevel(Value(Own(name), "level", Given("logging", "level", "Debug")))
           /\ logger.sinks = Sinks(SinksGiven(name), Pattern(name))
<1> DEFINE default == ParseSpecification(LoggingSettings, NoParent)
<1>1. /\ default.level = ParseLogLevel(Given("logging", "level", "Debug"))
      /\ default.pattern = Given("logging", "pattern", NoText)
      /\ default.sinks = Sinks(Given("logging", "sinks", Empty), default.pattern)
  <2>1. ParseLogLevel("Debug") = "Debug"
    BY DEF ParseLogLevel
  <2>2. NoParent.level = "Debug" /\ NoParent.pattern = NoText
    BY DEF NoParent
  <2>3. default.level = IF "level" \in DOMAIN LoggingSettings THEN ParseLogLevel(LoggingSettings.level)
                        ELSE NoParent.level
    BY DEF ParseSpecification
  <2>4. default.level = ParseLogLevel(Value(LoggingSettings, "level", "Debug"))
    BY <2>1, <2>2, <2>3 DEF Value
  <2>5. default.pattern = Value(LoggingSettings, "pattern", NoText)
    BY <2>2 DEF ParseSpecification
  <2>6. default.sinks = Sinks(Value(LoggingSettings, "sinks", Empty), default.pattern)
    BY <2>2 DEF ParseSpecification
  <2> HIDE DEF default
  <2> QED BY <2>4, <2>5, <2>6, Zenon DEF Given, LoggingSettings
<1>2. /\ loggerConfig.default = default
      /\ loggerConfig.specifications = [n \in DOMAIN LoggersListed |-> ParseSpecification(LoggersListed[n], default)]
  BY DEF LoadLoggerConfig, LoggersListed
<1> HIDE DEF default
<1>3. IsListed(name) <=> name \in DOMAIN LoggersListed
  BY Zenon DEF IsListed, LoggersListed, LoggingSettings, Given
<1>4. CASE IsListed(name)
  <2> DEFINE own == ParseSpecification(LoggersListed[name], default)
  <2>1. loggerConfig.specifications[name] = own /\ name \in DOMAIN loggerConfig.specifications
    BY <1>2, <1>3, <1>4
  <2>2. Own(name) = LoggersListed[name]
    BY <1>3, <1>4, Zenon DEF Own, Value, LoggersListed, LoggingSettings, Given
  <2>3. own.level = IF "level" \in DOMAIN Own(name) THEN ParseLogLevel(Own(name).level) ELSE default.level
    BY <2>2 DEF ParseSpecification
  <2>4. own.level = ParseLogLevel(Value(Own(name), "level", Given("logging", "level", "Debug")))
    BY <1>1, <2>3 DEF Value
  <2>5. own.sinks = Sinks(Value(Own(name), "sinks", Empty), Value(Own(name), "pattern", default.pattern))
    BY <2>2 DEF ParseSpecification
  <2> HIDE DEF own
  <2>6. own.sinks = Sinks(SinksGiven(name), Pattern(name))
    BY <1>1, <1>4, <2>5, Zenon DEF SinksGiven, Pattern
  <2>7. SpecificationOf(name) = [name |-> name, level |-> own.level, sinks |-> own.sinks]
    BY <2>1, Zenon DEF SpecificationOf
  <2> QED BY <2>4, <2>6, <2>7
<1>5. CASE ~ IsListed(name)
  <2>1. name \notin DOMAIN loggerConfig.specifications
    BY <1>2, <1>3, <1>5
  <2>2. Own(name) = Empty
    BY <1>3, <1>5, Zenon DEF Own, Value, LoggersListed, LoggingSettings, Given
  <2>3. default.level = ParseLogLevel(Value(Own(name), "level", Given("logging", "level", "Debug")))
    BY <1>1, <2>2, ValueOfEmpty
  <2>4. default.sinks = Sinks(SinksGiven(name), Pattern(name))
    BY <1>1, <1>5, <2>2, ValueOfEmpty, Zenon DEF SinksGiven, Pattern
  <2>5. SpecificationOf(name) = [name |-> name, level |-> default.level, sinks |-> default.sinks]
    BY <1>2, <2>1, Zenon DEF SpecificationOf
  <2> QED BY <2>3, <2>4, <2>5
<1> QED BY <1>4, <1>5

\* A logger is as the settings say, and a file it cannot open is in them.
LEMMA LoggerConfigured ==
    ASSUME disk \in Disks, path \in Files \cup {NoText}, Loaded, NEW name
    PROVE  LET logger == SpecificationOf(name) IN
           /\ logger.name = name
           /\ AsConfigured(logger)
           /\ (\E i \in DOMAIN logger.sinks : logger.sinks[i].file = "denied") => CannotOpen(SinksFor(name))
<1> DEFINE logger == SpecificationOf(name)
           sinks == SinksGiven(name)
<1>1. /\ logger.name = name
      /\ logger.level = ParseLogLevel(Value(Own(name), "level", Given("logging", "level", "Debug")))
      /\ logger.sinks = Sinks(sinks, Pattern(name))
  BY LoggerParsed DEF Loaded
<1>2. Len(sinks) \in Nat /\ DOMAIN sinks = 1 .. Len(sinks)
  <2>1. /\ IsArray(Value(LoggingSettings, "sinks", Empty)) /\ Value(LoggingSettings, "sinks", Empty) # WrongType
        /\ \A n \in DOMAIN LoggersListed :
              /\ IsArray(Value(LoggersListed[n], "sinks", Empty))
              /\ Value(LoggersListed[n], "sinks", Empty) # WrongType
    BY SettingsTyped, NothingThrows, Zenon DEF Loaded
  <2>2. CASE IsListed(name)
    <3>1. name \in DOMAIN LoggersListed /\ Own(name) = LoggersListed[name]
      BY <2>2, Zenon DEF IsListed, Own, Value, LoggersListed, LoggingSettings, Given
    <3> QED BY <2>1, <2>2, <3>1, Zenon DEF SinksGiven, IsArray
  <2>3. CASE ~ IsListed(name)
    BY <2>1, <2>3, Zenon DEF SinksGiven, Given, LoggingSettings, IsArray
  <2> QED BY <2>2, <2>3
<1> HIDE DEF logger, sinks
<1>3. /\ \A i \in DOMAIN logger.sinks : \E j \in DOMAIN sinks :
            Value(sinks[j], "file", NoText) # NoText /\ logger.sinks[i] = SinkOf(sinks[j], Pattern(name))
      /\ \A j \in DOMAIN sinks : Value(sinks[j], "file", NoText) # NoText =>
            \E i \in DOMAIN logger.sinks : logger.sinks[i] = SinkOf(sinks[j], Pattern(name))
  BY <1>1, <1>2, SinksDo
<1>4. ASSUME NEW sink, Value(sink, "file", NoText) # NoText
      PROVE  /\ SinkOf(sink, Pattern(name)).file = Value(sink, "file", NoText)
             /\ SinkOf(sink, Pattern(name)).file = sink.file
             /\ SinkOf(sink, Pattern(name)).pattern = Value(sink, "pattern", Pattern(name))
  <2>1. Value(sink, "file", NoText) = sink.file
    BY <1>4 DEF Value
  <2>2. /\ SinkOf(sink, Pattern(name)).file = sink.file
        /\ SinkOf(sink, Pattern(name)).pattern = Value(sink, "pattern", Pattern(name))
    BY DEF SinkOf
  <2> QED BY <2>1, <2>2, Zenon
<1>5. \A i \in DOMAIN logger.sinks : \E j \in DOMAIN sinks :
          /\ logger.sinks[i].file = Value(sinks[j], "file", NoText) /\ logger.sinks[i].file # NoText
          /\ logger.sinks[i].pattern = Value(sinks[j], "pattern", Pattern(name))
  <2> TAKE i \in DOMAIN logger.sinks
  <2>1. PICK j \in DOMAIN sinks :
            Value(sinks[j], "file", NoText) # NoText /\ logger.sinks[i] = SinkOf(sinks[j], Pattern(name))
    BY <1>3
  <2> WITNESS j \in DOMAIN sinks
  <2> QED BY <1>4, <2>1, Zenon
<1>6. \A j \in DOMAIN sinks : Value(sinks[j], "file", NoText) # NoText =>
          \E i \in DOMAIN logger.sinks : logger.sinks[i].file = sinks[j].file
  <2> TAKE j \in DOMAIN sinks
  <2> HAVE Value(sinks[j], "file", NoText) # NoText
  <2>1. PICK i \in DOMAIN logger.sinks : logger.sinks[i] = SinkOf(sinks[j], Pattern(name))
    BY <1>3
  <2> WITNESS i \in DOMAIN logger.sinks
  <2> QED BY <1>4, <2>1, Zenon
<1>7. /\ ~ IsListed(name) \/ "sinks" \in DOMAIN Own(name) => SinksFor(name) = sinks
      /\ SinksFor(name) = sinks \/ sinks = Empty
  <2>1. CASE IsListed(name)
    BY <2>1, Zenon DEF sinks, SinksGiven, SinksFor, Value
  <2>2. CASE ~ IsListed(name)
    <3>1. Own(name) = Empty
      BY <2>2, Zenon DEF IsListed, Own, Value
    <3> QED BY <2>2, <3>1, ValueOfEmpty, Zenon DEF sinks, SinksGiven, SinksFor
  <2> QED BY <2>1, <2>2
<1>8. /\ \A i \in DOMAIN logger.sinks : \E j \in DOMAIN SinksFor(name) :
            /\ logger.sinks[i].file = Value(SinksFor(name)[j], "file", NoText) /\ logger.sinks[i].file # NoText
            /\ logger.sinks[i].pattern = Value(SinksFor(name)[j], "pattern", Pattern(name))
      /\ ~ IsListed(name) \/ "sinks" \in DOMAIN Own(name) =>
             \A j \in DOMAIN SinksFor(name) : Value(SinksFor(name)[j], "file", NoText) # NoText =>
                 \E i \in DOMAIN logger.sinks : logger.sinks[i].file = SinksFor(name)[j].file
  <2>1. CASE SinksFor(name) = sinks
    BY <1>5, <1>6, <2>1, Zenon
  <2>2. CASE sinks = Empty /\ SinksFor(name) # sinks
    <3>1. \A i \in DOMAIN logger.sinks : FALSE
      <4>1. DOMAIN sinks = {}
        BY <2>2 DEF Empty
      <4> QED BY <1>5, <4>1
    <3> QED BY <1>7, <2>2, <3>1, Zenon
  <2> QED BY <1>7, <2>1, <2>2
<1>9. AsConfigured(logger)
  BY <1>1, <1>8, Zenon DEF AsConfigured
<1>10. (\E i \in DOMAIN logger.sinks : logger.sinks[i].file = "denied") => CannotOpen(SinksFor(name))
  BY <1>8, Zenon DEF CannotOpen
<1> QED BY <1>1, <1>9, <1>10, Zenon DEF logger

------------------------------------------------------------------------------
(* The invariant *)

\* The server that was created from them.
HasServer ==
    /\ serverConfig.name \in Servers
    /\ server = [kind |-> serverConfig.name, port |-> serverConfig.port,
                 workers |-> IF HasPool THEN serverConfig.threads ELSE 0,
                 slots |-> IF HasPool THEN Slots ELSE 0]
    /\ HasPool => PoolFits

\* Its pool could not be.
LacksPool ==
    /\ HasPool /\ ~ PoolFits
    /\ server = Empty

\* A logger that Logger::_Init does not make.
CannotMake(name) ==
    \/ name = NoText
    \/ \E i \in DOMAIN SpecificationOf(name).sinks : SpecificationOf(name).sinks[i].file = "denied"

HostTypes ==
    /\ disk \in Disks /\ machine \in Machines
    /\ stage \in {"new", "load", "initialize", "ready", "built", "ended"}
    /\ exit \in {"no", "1", "2", "3", "threw", "aborted"}
    /\ path \in Files \cup {NoText}
    /\ DOMAIN uses = {"server", "dispatcher", "host"}

\* What the builder has at each stage, and what it had when it ended.
BuilderInv ==
    /\ env => path # "appsettings.json"
    /\ stage = "new" => path = NoText
    /\ stage # "ended" => exit = "no"
    /\ stage \in {"new", "load", "initialize"} => server = Empty
    /\ stage \in {"initialize", "ready", "built"} \/ exit \in {"1", "3", "threw", "aborted"} => Loaded
    /\ stage \in {"ready", "built"} \/ exit = "1" => HasServer
    /\ exit = "threw" => HasServer \/ LacksPool
    /\ exit = "aborted" => LacksPool
    /\ exit = "2" => server = Empty /\ (path # NoText => disk[path] # Missing)
    /\ exit = "3" => serverConfig.name \notin Servers

\* spdlog knows what the cache holds, and a logger is what the settings make it.
LoggerInv ==
    /\ registry = DOMAIN cache \cup {NoText}
    /\ stage \in {"new", "load", "initialize"} => cache = Empty
    /\ cache # Empty => Loaded
    /\ \A name \in DOMAIN cache : cache[name] = SpecificationOf(name)
    /\ stage \in {"ready", "built"} => uses["server"] = SpecificationOf("Server")
                                    /\ uses["dispatcher"] = SpecificationOf("RequestDispatcher")
    /\ stage = "built" => uses["host"] = SpecificationOf("WebHost")
    /\ server = Empty => denied = <<>>
    /\ exit = "threw" /\ server # Empty => \E name : denied = <<name>> /\ CannotMake(name)

\* Nobody registers anything before the builder does, and then there is an error
\* handler for each of the default codes.  A request needs a host.
HandlersInv ==
    /\ at # "idle" => stage = "built"
    /\ stage \in {"new", "load", "initialize"} => at = "idle" /\ registered = <<>>
    /\ stage \in {"new", "load", "initialize"} \/ exit = "aborted" => registeredErrors = <<>>
    /\ stage \in {"ready", "built"} =>
          \A d \in DOMAIN DefaultCodes : \E i \in DOMAIN registeredErrors : registeredErrors[i].code = DefaultCodes[d]

HostInv == HostTypes /\ BuilderInv /\ LoggerInv /\ HandlersInv

\* The invariant holds at the start.
LEMMA InitHostInv == Init => HostInv
<1> SUFFICES ASSUME Init PROVE HostInv
  OBVIOUS
<1> USE DEF Init
<1>1. HostTypes
  <2>1. DOMAIN uses = {"server", "dispatcher", "host"}
    BY Zenon
  <2> QED BY <2>1 DEF HostTypes
<1>2. BuilderInv
  <2>1. NoText # "appsettings.json"
    BY Zenon DEF NoText
  <2> QED BY <2>1 DEF BuilderInv
<1>3. LoggerInv
  <2>1. DOMAIN cache = {}
    BY DEF Empty
  <2> QED BY <2>1 DEF LoggerInv
<1>4. HandlersInv
  BY DEF HandlersInv, DispatcherInit
<1> QED BY <1>1, <1>2, <1>3, <1>4 DEF HostInv

------------------------------------------------------------------------------
(* The steps *)

\* A server is not nothing.
LEMMA ServerThere ==
    \A kind, port, workers, slots :
        [kind |-> kind, port |-> port, workers |-> workers, slots |-> slots] # Empty
<1> SUFFICES ASSUME NEW kind, NEW port, NEW workers, NEW slots
             PROVE  [kind |-> kind, port |-> port, workers |-> workers, slots |-> slots] # Empty
  OBVIOUS
<1>1. "kind" \in DOMAIN [kind |-> kind, port |-> port, workers |-> workers, slots |-> slots]
  OBVIOUS
<1>2. "kind" \notin DOMAIN Empty
  BY DEF Empty
<1> QED BY <1>1, <1>2, Zenon

\* While the settings stay, so does what is made of them.
LEMMA SettingsStay ==
    ASSUME UNCHANGED <<disk, machine, path>>
    PROVE  /\ Config' = Config /\ (SettingsAreWrong' <=> SettingsAreWrong)
           /\ ServerSettings' = ServerSettings /\ LoggingSettings' = LoggingSettings
           /\ UNCHANGED <<serverConfig, loggerConfig>> =>
                 /\ Loaded' <=> Loaded
                 /\ \A name : SpecificationOf(name)' = SpecificationOf(name)
                 /\ \A name : CannotMake(name)' <=> CannotMake(name)
           /\ UNCHANGED <<serverConfig, server>> => (HasServer' <=> HasServer) /\ (LacksPool' <=> LacksPool)
<1>1. Config' = Config
  BY DEF Config
<1>2. SettingsAreWrong' <=> SettingsAreWrong
  BY <1>1, Zenon DEF SettingsAreWrong
<1>3. ServerSettings' = ServerSettings /\ LoggingSettings' = LoggingSettings
  BY <1>1, Zenon DEF ServerSettings, LoggingSettings
<1>4. ASSUME UNCHANGED <<serverConfig, loggerConfig>>
      PROVE  /\ Loaded' <=> Loaded
             /\ \A name : SpecificationOf(name)' = SpecificationOf(name)
             /\ \A name : CannotMake(name)' <=> CannotMake(name)
  <2>1. serverConfig' = serverConfig /\ loggerConfig' = loggerConfig /\ machine' = machine
    BY <1>4
  <2>2. Loaded' <=> Loaded
    BY <1>2, <1>3, <2>1, Zenon DEF Loaded
  <2>3. \A name : SpecificationOf(name)' = SpecificationOf(name)
    BY <2>1, Zenon DEF SpecificationOf
  <2>4. \A name : CannotMake(name)' <=> CannotMake(name)
    BY <2>3, Zenon DEF CannotMake
  <2> QED BY <2>2, <2>3, <2>4
<1>5. ASSUME UNCHANGED <<serverConfig, server>>
      PROVE  (HasServer' <=> HasServer) /\ (LacksPool' <=> LacksPool)
  <2>1. serverConfig' = serverConfig /\ server' = server /\ machine' = machine
    BY <1>5
  <2>2. (HasPool' <=> HasPool) /\ (PoolFits' <=> PoolFits) /\ Slots' = Slots
    BY <2>1, Zenon DEF HasPool, PoolFits, Slots
  <2> QED BY <2>1, <2>2, Zenon DEF HasServer, LacksPool
<1> QED BY <1>1, <1>2, <1>3, <1>4, <1>5, Zenon

\* A logger comes out of the cache as the settings make it.
LEMMA LoggersGot ==
    ASSUME LoggerInv, NEW names, GetLoggers(names), \A name : SpecificationOf(name)' = SpecificationOf(name)
    PROVE  /\ registry' = DOMAIN cache' \cup {NoText} /\ denied' = denied
           /\ \A name \in DOMAIN cache' : cache'[name] = SpecificationOf(name)'
           /\ \A name : LoggerNamed(name) = SpecificationOf(name)
<1> USE DEF LoggerInv
<1>1. \A name \in DOMAIN cache : cache[name] = SpecificationOf(name)
  OBVIOUS
<1>2. cache' = [n \in DOMAIN cache \cup names |-> IF n \in DOMAIN cache THEN cache[n] ELSE SpecificationOf(n)]
  BY Zenon DEF GetLoggers
<1>3. registry' = DOMAIN cache' \cup {NoText} /\ denied' = denied
  BY <1>2 DEF GetLoggers
<1>4. \A name \in DOMAIN cache' : cache'[name] = SpecificationOf(name)'
  BY <1>1, <1>2, Zenon
<1>5. \A name : LoggerNamed(name) = SpecificationOf(name)
  BY <1>1, Zenon DEF LoggerNamed
<1> QED BY <1>3, <1>4, <1>5

\* A logger that is not in the cache fails only for a file or for want of a name.
LEMMA LoggersDenied ==
    ASSUME LoggerInv, NEW names, Denied(names)
    PROVE  /\ \E name \in names : denied' = <<name>> /\ CannotMake(name)
           /\ stage' = "ended" /\ exit' = "threw" /\ UNCHANGED <<cache, registry>>
<1>1. registry = DOMAIN cache \cup {NoText}
  BY DEF LoggerInv
<1>2. PICK name \in names \ DOMAIN cache : InitThrows(name) /\ denied' = <<name>>
  BY Zenon DEF Denied
<1>3. CannotMake(name)
  BY <1>1, <1>2 DEF InitThrows, CannotMake
<1> QED BY <1>2, <1>3 DEF Denied, Exits

\* Nothing of the builder changes while a request is dispatched or a handler is
\* registered.
LEMMA BuilderStays ==
    ASSUME HostTypes, BuilderInv, LoggerInv, UNCHANGED <<environment, builder>>
    PROVE  HostTypes' /\ BuilderInv' /\ LoggerInv'
<1> USE DEF environment, builder, logging
<1>1. /\ Loaded' <=> Loaded
      /\ \A name : SpecificationOf(name)' = SpecificationOf(name)
      /\ \A name : CannotMake(name)' <=> CannotMake(name)
      /\ HasServer' <=> HasServer
      /\ LacksPool' <=> LacksPool
  BY SettingsStay
<1>2. HostTypes'
  BY DEF HostTypes
<1>3. BuilderInv'
  BY <1>1 DEF BuilderInv
<1>4. LoggerInv'
  <2>1. /\ cache' = cache /\ registry' = registry /\ denied' = denied /\ server' = server
        /\ stage' = stage /\ exit' = exit /\ uses' = uses
    OBVIOUS
  <2> QED BY <1>1, <2>1, Zenon DEF LoggerInv
<1> QED BY <1>2, <1>3, <1>4

\* UseAppSettings notes the path; with MINET_CORE_ENV it is another one.
LEMMA UseAppSettingsStep == HostInv /\ UseAppSettings => HostInv'
<1> SUFFICES ASSUME HostInv, UseAppSettings PROVE HostInv'
  OBVIOUS
<1> USE DEF HostInv, UseAppSettings, environment, logging
<1>1. HostTypes' /\ (env' => path' # "appsettings.json")
  <2>1. PICK p \in {NoText, "appsettings.json", "other.json"} :
            path' = IF p = "appsettings.json" /\ env THEN "appsettings.env.json" ELSE p
    OBVIOUS
  <2>2. NoText # "appsettings.json"
    BY Zenon DEF NoText
  <2>3. path' \in Files \cup {NoText} /\ (env' => path' # "appsettings.json")
    BY <2>1, <2>2 DEF Files
  <2> QED BY <2>3 DEF HostTypes
<1>2. BuilderInv'
  BY <1>1 DEF BuilderInv, HostTypes
<1>3. LoggerInv'
  <2>1. /\ cache' = Empty /\ DOMAIN cache' = {} /\ registry' = {NoText} /\ stage' = "load" /\ exit' = "no"
        /\ denied' = <<>>
    BY DEF LoggerInv, BuilderInv, Empty
  <2> QED BY <2>1 DEF LoggerInv
<1>4. HandlersInv'
  BY DEF HandlersInv, dispatcherVars, tables, dispatch
<1> QED BY <1>1, <1>2, <1>3, <1>4

\* A second call ends the process.
LEMMA UseAppSettingsAgainStep == HostInv /\ UseAppSettingsAgain => HostInv'
<1> SUFFICES ASSUME HostInv, UseAppSettingsAgain PROVE HostInv'
  OBVIOUS
<1> USE DEF HostInv, UseAppSettingsAgain, Exits, environment, logging
<1>1. /\ Loaded' <=> Loaded
      /\ \A name : SpecificationOf(name)' = SpecificationOf(name)
      /\ \A name : CannotMake(name)' <=> CannotMake(name)
      /\ HasServer' <=> HasServer
      /\ LacksPool' <=> LacksPool
  BY SettingsStay
<1>2. HostTypes'
  BY DEF HostTypes
<1>3. BuilderInv'
  BY <1>1 DEF BuilderInv
<1>4. LoggerInv'
  <2>1. /\ cache' = cache /\ registry' = registry /\ denied' = denied /\ server' = server
        /\ stage' = "ended" /\ exit' = "1"
    OBVIOUS
  <2> QED BY <1>1, <2>1 DEF LoggerInv
<1>5. HandlersInv'
  BY DEF HandlersInv, dispatcherVars, dispatch
<1> QED BY <1>2, <1>3, <1>4, <1>5

\* The settings are read once, or the process ends because they are wrong.
LEMMA LoadSettingsStep == HostInv /\ LoadSettings => HostInv'
<1> SUFFICES ASSUME HostInv, LoadSettings PROVE HostInv'
  OBVIOUS
<1> USE DEF HostInv, LoadSettings, Exits, environment, logging
<1>1. /\ SettingsAreWrong' <=> SettingsAreWrong
      /\ ServerSettings' = ServerSettings /\ LoggingSettings' = LoggingSettings
  BY SettingsStay
<1>2. cache' = Empty /\ DOMAIN cache' = {} /\ registry' = {NoText} /\ exit = "no" /\ denied' = <<>>
  BY DEF LoggerInv, BuilderInv, Empty
<1>3. HostTypes'
  BY DEF HostTypes
<1>4. CASE SettingsAreWrong
  <2>1. path # NoText => disk[path] # Missing
    BY <1>4, DefaultsAreRight DEF Config
  <2>2. BuilderInv'
    BY <1>4, <2>1 DEF BuilderInv
  <2>3. LoggerInv'
    BY <1>2, <1>4 DEF LoggerInv
  <2>4. HandlersInv'
    BY <1>4 DEF HandlersInv, dispatcherVars, dispatch
  <2> QED BY <1>3, <2>2, <2>3, <2>4
<1>5. CASE ~ SettingsAreWrong
  <2>1. Loaded'
    <3>1. /\ serverConfig' = LoadServerConfig(ServerSettings, machine.processors)
          /\ loggerConfig' = LoadLoggerConfig(LoggingSettings)
          /\ machine' = machine
      BY <1>5 DEF ServerSettings, LoggingSettings
    <3> QED BY <1>1, <1>5, <3>1, Zenon DEF Loaded
  <2>2. BuilderInv'
    BY <1>2, <1>5, <2>1 DEF BuilderInv
  <2>3. LoggerInv'
    BY <1>2, <1>5 DEF LoggerInv
  <2>4. HandlersInv'
    BY <1>5 DEF HandlersInv, dispatcherVars, tables, dispatch
  <2> QED BY <1>3, <2>2, <2>3, <2>4
<1> QED BY <1>4, <1>5

\* The process ends before a server exists.
LEMMA UnknownServerStep == HostInv /\ UnknownServer => HostInv'
<1> SUFFICES ASSUME HostInv, UnknownServer PROVE HostInv'
  OBVIOUS
<1> USE DEF HostInv, UnknownServer, Exits, environment, logging
<1>1. Loaded' <=> Loaded
  BY SettingsStay
<1>2. HostTypes'
  BY DEF HostTypes
<1>3. BuilderInv'
  BY <1>1 DEF BuilderInv
<1>4. LoggerInv'
  <2>1. /\ cache' = Empty /\ DOMAIN cache' = {} /\ registry' = {NoText} /\ denied' = <<>>
        /\ stage' = "ended" /\ exit' = "3"
    BY DEF LoggerInv, BuilderInv, Empty
  <2> QED BY <2>1 DEF LoggerInv
<1>5. HandlersInv'
  BY DEF HandlersInv, dispatcherVars, dispatch
<1> QED BY <1>2, <1>3, <1>4, <1>5

\* The process ends in the constructor of the pool, or soon after it.
LEMMA PoolFailsStep == HostInv /\ PoolFails => HostInv'
<1> SUFFICES ASSUME HostInv, PoolFails PROVE HostInv'
  OBVIOUS
<1> USE DEF HostInv
<1>0. /\ UNCHANGED <<disk, env, machine, path, serverConfig, loggerConfig, server, cache, registry, denied, uses>>
      /\ UNCHANGED dispatcherVars
      /\ stage = "initialize" /\ stage' = "ended" /\ exit' \in {"threw", "aborted"}
  BY DEF PoolFails, Exits, environment, logging
<1>1. (Loaded' <=> Loaded) /\ (LacksPool' <=> LacksPool)
  BY <1>0, SettingsStay
<1>2. LacksPool' /\ server' = Empty
  BY <1>0, <1>1 DEF PoolFails, LacksPool, BuilderInv
<1>3. HostTypes'
  BY <1>0 DEF HostTypes
<1>4. BuilderInv'
  BY <1>0, <1>1, <1>2 DEF BuilderInv
<1>5. LoggerInv'
  <2>1. cache' = Empty /\ DOMAIN cache' = {} /\ registry' = {NoText} /\ denied' = <<>>
    BY <1>0 DEF LoggerInv, BuilderInv, Empty
  <2> QED BY <1>0, <1>2, <2>1 DEF LoggerInv
<1>6. HandlersInv'
  BY <1>0 DEF HandlersInv, dispatcherVars, tables, dispatch
<1> QED BY <1>3, <1>4, <1>5, <1>6

\* A call before UseAppSettings ends it even earlier.
LEMMA NotInitializedStep == HostInv /\ NotInitialized => HostInv'
<1> SUFFICES ASSUME HostInv, NotInitialized PROVE HostInv'
  OBVIOUS
<1> USE DEF HostInv, NotInitialized, Exits, environment, logging
<1>1. HostTypes'
  BY DEF HostTypes
<1>2. BuilderInv'
  BY DEF BuilderInv
<1>3. LoggerInv'
  <2>1. /\ cache' = Empty /\ DOMAIN cache' = {} /\ registry' = {NoText} /\ denied' = <<>>
        /\ stage' = "ended" /\ exit' = "2"
    BY DEF LoggerInv, BuilderInv, Empty
  <2> QED BY <2>1 DEF LoggerInv
<1>4. HandlersInv'
  BY DEF HandlersInv, dispatcherVars, dispatch
<1> QED BY <1>1, <1>2, <1>3, <1>4

\* The server is created and its loggers are; an exception leaves a server that
\* nobody will use.
LEMMA InitializeComponentsStep == HostInv /\ InitializeComponents => HostInv'
<1> SUFFICES ASSUME HostInv, InitializeComponents PROVE HostInv'
  OBVIOUS
<1> USE DEF HostInv
<1>0. UNCHANGED <<disk, env, machine, path, serverConfig, loggerConfig>> /\ stage = "initialize"
  BY DEF InitializeComponents, environment
<1>1. /\ SettingsAreWrong' <=> SettingsAreWrong
      /\ Loaded' <=> Loaded
      /\ \A name : SpecificationOf(name)' = SpecificationOf(name)
      /\ \A name : CannotMake(name)' <=> CannotMake(name)
  BY <1>0, SettingsStay
<1>2. /\ Loaded' /\ exit = "no" /\ cache = Empty /\ DOMAIN cache = {} /\ registry = {NoText}
      /\ denied = <<>> /\ registeredErrors = <<>>
      /\ DOMAIN uses = {"server", "dispatcher", "host"}
  BY <1>0, <1>1 DEF BuilderInv, LoggerInv, HandlersInv, HostTypes, Empty
<1>3. HasServer' /\ server' # Empty
  <2>1. serverConfig.name \in Servers /\ (HasPool => PoolFits) /\ serverConfig' = serverConfig /\ machine' = machine
    BY <1>0 DEF InitializeComponents
  <2>2. server' = [kind |-> serverConfig.name, port |-> serverConfig.port,
                   workers |-> IF HasPool THEN serverConfig.threads ELSE 0,
                   slots |-> IF HasPool THEN Slots ELSE 0]
    BY DEF InitializeComponents
  <2>3. (HasPool' <=> HasPool) /\ (PoolFits' <=> PoolFits) /\ Slots' = Slots
    BY <2>1, Zenon DEF HasPool, PoolFits, Slots
  <2>4. HasServer'
    BY <2>1, <2>2, <2>3, Zenon DEF HasServer
  <2> QED BY <2>2, <2>4, ServerThere, Zenon
<1>4. CASE GetLoggersThrows({"Server", "RequestDispatcher"})
  <2>1. /\ Denied({"Server", "RequestDispatcher"})
        /\ UNCHANGED <<uses, dispatcherVars>>
    BY <1>4 DEF InitializeComponents
  <2>2. PICK name : denied' = <<name>> /\ CannotMake(name)
    BY <2>1, LoggersDenied, Zenon
  <2>0. stage' = "ended" /\ exit' = "threw" /\ UNCHANGED <<cache, registry>>
    BY <2>1, LoggersDenied
  <2>3. HostTypes'
    BY <1>0, <2>0, <2>1 DEF HostTypes
  <2>4. BuilderInv'
    BY <1>0, <1>2, <1>3, <2>0 DEF BuilderInv
  <2>5. LoggerInv'
    <3>1. \E n : denied' = <<n>> /\ CannotMake(n)'
      BY <1>1, <2>2, Zenon
    <3>2. registry' = DOMAIN cache' \cup {NoText} /\ \A n \in DOMAIN cache' : FALSE
      BY <1>2, <2>0
    <3> QED BY <1>2, <1>3, <2>0, <3>1, <3>2 DEF LoggerInv
  <2>6. HandlersInv'
    BY <1>0, <2>0, <2>1 DEF HandlersInv, dispatcherVars, dispatch, InitializeComponents
  <2> QED BY <2>3, <2>4, <2>5, <2>6
<1>5. CASE ~ GetLoggersThrows({"Server", "RequestDispatcher"})
  <2>1. /\ GetLoggers({"Server", "RequestDispatcher"})
        /\ uses' = [uses EXCEPT !["server"] = LoggerNamed("Server"),
                                !["dispatcher"] = LoggerNamed("RequestDispatcher")]
        /\ RegisterDefaultHandlers
        /\ stage' = "ready" /\ exit' = "no"
    BY <1>2, <1>5 DEF InitializeComponents
  <2>2. /\ registry' = DOMAIN cache' \cup {NoText} /\ denied' = denied
        /\ \A name \in DOMAIN cache' : cache'[name] = SpecificationOf(name)'
        /\ \A name : LoggerNamed(name) = SpecificationOf(name)
    BY <1>1, <2>1, LoggersGot
  <2>3. /\ DOMAIN uses' = {"server", "dispatcher", "host"}
        /\ uses'["server"] = SpecificationOf("Server")'
        /\ uses'["dispatcher"] = SpecificationOf("RequestDispatcher")'
    BY <1>1, <1>2, <2>1, <2>2
  <2>4. HostTypes'
    BY <1>0, <2>1, <2>3 DEF HostTypes
  <2>5. BuilderInv'
    BY <1>0, <1>2, <1>3, <2>1 DEF BuilderInv
  <2>6. LoggerInv'
    BY <1>2, <1>3, <2>1, <2>2, <2>3 DEF LoggerInv
  <2>7. HandlersInv'
    <3>1. \A d \in DOMAIN DefaultCodes :
              d \in DOMAIN registeredErrors' /\ registeredErrors'[d].code = DefaultCodes[d]
      BY <2>1 DEF RegisterDefaultHandlers
    <3>2. at' = "idle"
      BY <2>1 DEF RegisterDefaultHandlers, dispatch
    <3> QED BY <2>1, <3>1, <3>2 DEF HandlersInv
  <2> QED BY <2>4, <2>5, <2>6, <2>7
<1> QED BY <1>4, <1>5

\* A logger is asked for: it is there, or it is created, or a file is denied.
LEMMA GetLoggerStep == HostInv /\ (\E name \in Loggers : GetLogger(name)) => HostInv'
<1> SUFFICES ASSUME HostInv, NEW n \in Loggers, GetLogger(n) PROVE HostInv'
  OBVIOUS
<1> USE DEF HostInv
<1>0. /\ UNCHANGED <<disk, env, machine, path, serverConfig, loggerConfig, server, uses, dispatcherVars>>
      /\ stage \in {"ready", "built"}
  BY DEF GetLogger, environment
<1>1. /\ Loaded' <=> Loaded
      /\ \A name : SpecificationOf(name)' = SpecificationOf(name)
      /\ \A name : CannotMake(name)' <=> CannotMake(name)
      /\ HasServer' <=> HasServer
      /\ LacksPool' <=> LacksPool
  BY <1>0, SettingsStay
<1>2. Loaded' /\ HasServer' /\ exit = "no" /\ server' # Empty
  <2>1. Loaded /\ HasServer /\ exit = "no"
    BY <1>0 DEF BuilderInv
  <2>2. server # Empty
    BY <2>1, ServerThere, Zenon DEF HasServer
  <2> QED BY <1>0, <1>1, <2>1, <2>2
<1>3. CASE GetLoggersThrows({n})
  <2>1. Denied({n})
    BY <1>3 DEF GetLogger
  <2>2. PICK name : denied' = <<name>> /\ CannotMake(name)
    BY <2>1, LoggersDenied, Zenon
  <2>0. stage' = "ended" /\ exit' = "threw" /\ UNCHANGED <<cache, registry>>
    BY <2>1, LoggersDenied
  <2>3. HostTypes'
    BY <1>0, <2>0, <2>1 DEF HostTypes
  <2>4. BuilderInv'
    BY <1>0, <1>2, <2>0 DEF BuilderInv
  <2>5. LoggerInv'
    <3>1. \E m : denied' = <<m>> /\ CannotMake(m)'
      BY <1>1, <2>2, Zenon
    <3>2. /\ registry' = DOMAIN cache' \cup {NoText}
          /\ \A m \in DOMAIN cache' : cache'[m] = SpecificationOf(m)'
      BY <1>1, <2>0 DEF LoggerInv
    <3> QED BY <1>2, <2>0, <3>1, <3>2 DEF LoggerInv
  <2>6. HandlersInv'
    BY <1>0, <2>0 DEF HandlersInv, dispatcherVars, dispatch, GetLogger
  <2> QED BY <2>3, <2>4, <2>5, <2>6
<1>4. CASE ~ GetLoggersThrows({n})
  <2>1. GetLoggers({n}) /\ UNCHANGED <<stage, exit>>
    BY <1>4 DEF GetLogger
  <2>2. /\ registry' = DOMAIN cache' \cup {NoText} /\ denied' = denied
        /\ \A name \in DOMAIN cache' : cache'[name] = SpecificationOf(name)'
    BY <1>1, <2>1, LoggersGot
  <2>3. HostTypes'
    BY <1>0, <2>1 DEF HostTypes
  <2>4. BuilderInv'
    BY <1>0, <1>2, <2>1 DEF BuilderInv
  <2>5. LoggerInv'
    <3>1. /\ uses'["server"] = SpecificationOf("Server")'
          /\ uses'["dispatcher"] = SpecificationOf("RequestDispatcher")'
          /\ stage' = "built" => uses'["host"] = SpecificationOf("WebHost")'
      BY <1>0, <1>1, <2>1 DEF LoggerInv
    <3> QED BY <1>0, <1>2, <2>1, <2>2, <3>1 DEF LoggerInv
  <2>6. HandlersInv'
    BY <1>0, <2>1 DEF HandlersInv, dispatcherVars, tables, dispatch
  <2> QED BY <2>3, <2>4, <2>5, <2>6
<1> QED BY <1>3, <1>4

\* Build asks again for the logger of the server, which is in the cache.
LEMMA BuildStep == HostInv /\ Build => HostInv'
<1> SUFFICES ASSUME HostInv, Build PROVE HostInv'
  OBVIOUS
<1> USE DEF HostInv
<1>0. /\ UNCHANGED <<disk, env, machine, path, serverConfig, loggerConfig, server, dispatcherVars>>
      /\ stage \in {"ready", "built"}
  BY DEF Build, environment
<1>1. /\ Loaded' <=> Loaded
      /\ \A name : SpecificationOf(name)' = SpecificationOf(name)
      /\ \A name : CannotMake(name)' <=> CannotMake(name)
      /\ HasServer' <=> HasServer
      /\ LacksPool' <=> LacksPool
  BY <1>0, SettingsStay
<1>2. Loaded' /\ HasServer' /\ exit = "no" /\ server' # Empty
  <2>1. Loaded /\ HasServer /\ exit = "no"
    BY <1>0 DEF BuilderInv
  <2>2. server # Empty
    BY <2>1, ServerThere, Zenon DEF HasServer
  <2> QED BY <1>0, <1>1, <2>1, <2>2
<1>3. CASE GetLoggersThrows({"Server", "WebHost"})
  <2>1. Denied({"Server", "WebHost"}) /\ UNCHANGED uses
    BY <1>3 DEF Build
  <2>2. PICK name : denied' = <<name>> /\ CannotMake(name)
    BY <2>1, LoggersDenied, Zenon
  <2>0. stage' = "ended" /\ exit' = "threw" /\ UNCHANGED <<cache, registry>>
    BY <2>1, LoggersDenied
  <2>3. HostTypes'
    BY <1>0, <2>0, <2>1 DEF HostTypes
  <2>4. BuilderInv'
    BY <1>0, <1>2, <2>0 DEF BuilderInv
  <2>5. LoggerInv'
    <3>1. \E m : denied' = <<m>> /\ CannotMake(m)'
      BY <1>1, <2>2, Zenon
    <3>2. /\ registry' = DOMAIN cache' \cup {NoText}
          /\ \A m \in DOMAIN cache' : cache'[m] = SpecificationOf(m)'
      BY <1>1, <2>0 DEF LoggerInv
    <3> QED BY <1>2, <2>0, <3>1, <3>2 DEF LoggerInv
  <2>6. HandlersInv'
    BY <1>0, <2>0 DEF HandlersInv, dispatcherVars, dispatch, Build
  <2> QED BY <2>3, <2>4, <2>5, <2>6
<1>4. CASE ~ GetLoggersThrows({"Server", "WebHost"})
  <2>1. /\ GetLoggers({"Server", "WebHost"})
        /\ uses' = [uses EXCEPT !["server"] = LoggerNamed("Server"), !["host"] = LoggerNamed("WebHost")]
        /\ stage' = "built" /\ UNCHANGED exit
    BY <1>4 DEF Build
  <2>2. /\ registry' = DOMAIN cache' \cup {NoText} /\ denied' = denied
        /\ \A name \in DOMAIN cache' : cache'[name] = SpecificationOf(name)'
        /\ \A name : LoggerNamed(name) = SpecificationOf(name)
    BY <1>1, <2>1, LoggersGot
  <2>3. /\ DOMAIN uses' = {"server", "dispatcher", "host"}
        /\ uses'["server"] = SpecificationOf("Server")'
        /\ uses'["dispatcher"] = SpecificationOf("RequestDispatcher")'
        /\ uses'["host"] = SpecificationOf("WebHost")'
    BY <1>0, <1>1, <2>1, <2>2 DEF HostTypes, LoggerInv
  <2>4. HostTypes'
    BY <1>0, <2>1, <2>3 DEF HostTypes
  <2>5. BuilderInv'
    BY <1>0, <1>2, <2>1 DEF BuilderInv
  <2>6. LoggerInv'
    BY <1>2, <2>1, <2>2, <2>3 DEF LoggerInv
  <2>7. HandlersInv'
    BY <1>0, <2>1 DEF HandlersInv, dispatcherVars, tables, dispatch
  <2> QED BY <2>4, <2>5, <2>6, <2>7
<1> QED BY <1>3, <1>4

\* A registration adds to the error handlers there are.
LEMMA RegisterHandlersStep == HostInv /\ Types /\ RegisterHandlers => HostInv'
<1> SUFFICES ASSUME HostInv, Types, RegisterHandlers PROVE HostInv'
  OBVIOUS
<1> USE DEF HostInv, RegisterHandlers
<1>1. HostTypes' /\ BuilderInv' /\ LoggerInv'
  BY BuilderStays
<1>2. HandlersInv'
  <2>1. stage \in {"ready", "built"} /\ stage' = stage /\ at = "idle" /\ at' = "idle" /\ exit' = "no"
    BY DEF Register, dispatch, builder, BuilderInv
  <2>2. registeredErrors \in Seq(ErrorRecords)
    BY DEF Types
  <2>3. \/ registeredErrors' = registeredErrors
        \/ \E c \in Codes, a \in Adapters :
              registeredErrors' = Append(registeredErrors, [code |-> c, adapter |-> a])
    BY DEF Register, RegisterHandler, RegisterErrorHandler
  <2>4. \A i \in DOMAIN registeredErrors :
            i \in DOMAIN registeredErrors' /\ registeredErrors'[i] = registeredErrors[i]
    <3>1. Len(registeredErrors) \in Nat /\ DOMAIN registeredErrors = 1 .. Len(registeredErrors)
      BY <2>2
    <3>2. ASSUME NEW x, registeredErrors' = Append(registeredErrors, x)
          PROVE  \A i \in DOMAIN registeredErrors :
                     i \in DOMAIN registeredErrors' /\ registeredErrors'[i] = registeredErrors[i]
      <4> DEFINE l == Len(registeredErrors)
      <4>1. /\ DOMAIN registeredErrors' = (1 .. l) \cup {l + 1}
            /\ \A i \in 1 .. l : registeredErrors'[i] = registeredErrors[i]
        BY <3>1, <3>2, AppendIs
      <4> HIDE DEF l
      <4>2. DOMAIN registeredErrors = 1 .. l
        BY <3>1 DEF l
      <4> QED BY <4>1, <4>2, Zenon
    <3> QED BY <2>3, <3>2, Zenon
  <2> QED BY <2>1, <2>4 DEF HandlersInv
<1> QED BY <1>1, <1>2

\* Dispatch only reads the tables.
LEMMA TablesStay == Dispatch => UNCHANGED tables
BY DEF Dispatch, Receive, FindHandler, FindErrorHandler, Handled, Refused, HandlerThrows, Destroy, tables

\* A request is dispatched by a host.
LEMMA OnConnectionStep == HostInv /\ OnConnection => HostInv'
<1> SUFFICES ASSUME HostInv, OnConnection PROVE HostInv'
  OBVIOUS
<1> USE DEF HostInv, OnConnection
<1>1. HostTypes' /\ BuilderInv' /\ LoggerInv'
  BY BuilderStays
<1>2. HandlersInv'
  <2>1. stage = "built" /\ stage' = "built" /\ exit' = "no"
    BY DEF builder, BuilderInv
  <2>2. registeredErrors' = registeredErrors
    BY TablesStay DEF tables
  <2> QED BY <2>1, <2>2 DEF HandlersInv
<1> QED BY <1>1, <1>2

\* Nothing happens.
LEMMA HostStutters == HostInv /\ UNCHANGED hostVars => HostInv'
<1> SUFFICES ASSUME HostInv, UNCHANGED hostVars PROVE HostInv'
  OBVIOUS
<1>1. UNCHANGED <<environment, builder>> /\ UNCHANGED dispatcherVars
  BY DEF hostVars
<1>2. HostTypes' /\ BuilderInv' /\ LoggerInv'
  BY <1>1, BuilderStays DEF HostInv
<1>3. HandlersInv'
  BY <1>1 DEF HostInv, HandlersInv, dispatcherVars, tables, dispatch, builder
<1> QED BY <1>2, <1>3 DEF HostInv

------------------------------------------------------------------------------
(* The theorems *)

\* A host dispatches as a dispatcher does: whatever the builder does besides, it
\* registers and dispatches in the steps of module Dispatcher, and RegisterDefaultHandlers
\* comes before any other registration (WebHostBuilder::_RegisterDefaultHandlers).
THEOREM HostDispatches == HostSpec => DispatcherSpec
<1>1. Init => DispatcherInit
  BY DEF Init
<1>2. [HostNext]_hostVars => [DispatcherNext]_dispatcherVars
  <2> SUFFICES ASSUME [HostNext]_hostVars PROVE DispatcherNext \/ UNCHANGED dispatcherVars
    OBVIOUS
  <2>1. CASE UseAppSettings \/ UseAppSettingsAgain \/ LoadSettings \/ UnknownServer \/ PoolFails \/ NotInitialized
    BY <2>1 DEF UseAppSettings, UseAppSettingsAgain, LoadSettings, UnknownServer, PoolFails, NotInitialized
  <2>2. CASE InitializeComponents
    BY <2>2 DEF InitializeComponents, DispatcherNext
  <2>3. CASE RegisterHandlers
    BY <2>3 DEF RegisterHandlers, DispatcherNext
  <2>4. CASE Build \/ \E name \in Loggers : GetLogger(name)
    BY <2>4 DEF Build, GetLogger
  <2>5. CASE OnConnection
    BY <2>5 DEF OnConnection, DispatcherNext
  <2>6. CASE UNCHANGED hostVars
    BY <2>6 DEF hostVars
  <2> QED BY <2>1, <2>2, <2>3, <2>4, <2>5, <2>6 DEF HostNext
<1> QED BY <1>1, <1>2, PTL DEF HostSpec, DispatcherSpec

\* The builder, its loggers and its handlers keep to the invariant, in any order
\* of calls, for any settings files.
THEOREM HostInvariance == HostSpec => [](HostInv /\ IInv)
<1>1. HostInv /\ IInv /\ [HostNext]_hostVars => HostInv'
  <2> SUFFICES ASSUME HostInv, IInv, [HostNext]_hostVars PROVE HostInv'
    OBVIOUS
  <2>1. Types
    BY DEF IInv
  <2> HIDE DEF HostInv
  <2> QED
    BY <2>1, UseAppSettingsStep, UseAppSettingsAgainStep, LoadSettingsStep, UnknownServerStep,
       PoolFailsStep, InitializeComponentsStep, NotInitializedStep, RegisterHandlersStep, BuildStep,
       OnConnectionStep, GetLoggerStep, HostStutters DEF HostNext
<1> QED BY InitHostInv, <1>1, HostDispatches, DispatchInvariant, PTL DEF HostSpec

\* A pool that is built fits the machine; where it does not, there is no room for
\* the one that was asked for.
LEMMA PoolAsAsked ==
    ASSUME HostTypes, Loaded
    PROVE  /\ serverConfig.threads \in Nat /\ Slots \in PowersOfTwo /\ Slots \in Nat
           /\ AskedCapacity \in 1 .. Word - 1 => AskedCapacity <= Slots /\ Slots < 2 * AskedCapacity
           /\ AskedCapacity = 0 => Slots = DefaultCapacity
           /\ ~ PoolFits => ~ HasRoom
<1> DEFINE t == serverConfig.threads
           c == serverConfig.capacity
<1>1. disk \in Disks /\ path \in Files \cup {NoText} /\ machine \in Machines
  BY DEF HostTypes
<1>2. machine.threads \in Nat /\ machine.memory \in Nat
  BY <1>1, MachinesAssumption
<1>3. /\ c \in 1 .. Word - 1
      /\ AskedCapacity \in 1 .. Word - 1 => c = AskedCapacity
      /\ AskedCapacity = 0 => c = DefaultCapacity
      /\ t \in Nat /\ (AskedWorkers \in 0 .. Word - 1 => t = AskedWorkers)
  BY <1>1, ServerConfigured, Zenon DEF Loaded
<1>4. Slots = MakePowerOfTwo(c)
  BY Zenon DEF Slots
<1> HIDE DEF t, c
<1>5. c \in 1 .. Word /\ c \in Nat
  BY <1>3, Ints
<1>6. Slots \in PowersOfTwo /\ c <= Slots /\ Slots < 2 * c
  BY <1>4, <1>5, MakePowerOfTwoDoes
<1>7. Slots \in Nat
  BY <1>6, WidthOfInt, TwoToDefined DEF PowersOfTwo
<1>8. AskedCapacity = 0 => Slots = DefaultCapacity
  BY <1>3, <1>4, <1>5, DefaultIsPower
<1>9. ASSUME HasRoom PROVE PoolFits
  <2>1. t = AskedWorkers /\ t > 0 /\ t <= machine.threads
    BY <1>2, <1>3, <1>9, Ints DEF HasRoom
  <2>2. c = IF AskedCapacity = 0 THEN DefaultCapacity ELSE AskedCapacity
    BY <1>3, <1>9, Ints DEF HasRoom
  <2>3. t * (2 * c) <= machine.memory
    BY <1>9, <2>1, <2>2, Zenon DEF HasRoom
  <2>4. t * Slots <= t * (2 * c)
    BY <1>3, <1>5, <1>6, <1>7, ProductGrows
  <2>5. t * Slots \in Nat /\ t * (2 * c) \in Nat
    BY <1>3, <1>5, <1>7, Z3
  <2>6. t * Slots <= machine.memory
    BY <1>2, <2>3, <2>4, <2>5
  <2> QED BY <2>1, <2>6, Zenon DEF PoolFits, t
<1> QED BY <1>3, <1>6, <1>7, <1>8, <1>9, Zenon DEF t

\* StartsAsConfigured: a builder that is ready has the server that the settings
\* ask for, with its pool, and a process that ended has the code of what was wrong,
\* or had no room for the pool.
THEOREM StartsRight == HostSpec => []StartsAsConfigured
<1>1. HostInv => StartsAsConfigured
  <2> SUFFICES ASSUME HostInv PROVE StartsAsConfigured
    OBVIOUS
  <2> USE DEF HostInv
  <2>1. disk \in Disks /\ path \in Files \cup {NoText} /\ machine \in Machines
    BY DEF HostTypes
  <2>2. ASSUME stage \in {"ready", "built"}
        PROVE  /\ path # NoText /\ env => path \in {"appsettings.env.json", "other.json"}
               /\ server.kind = Given("server", "name", "Basic")
               /\ server.kind # "Basic" =>
                     /\ server.workers \in 1 .. machine.threads
                     /\ AskedWorkers \in 0 .. Word - 1 => server.workers = AskedWorkers
                     /\ server.slots \in PowersOfTwo
                     /\ AskedCapacity \in 1 .. Word - 1 =>
                            AskedCapacity <= server.slots /\ server.slots < 2 * AskedCapacity
                     /\ AskedCapacity = 0 => server.slots = DefaultCapacity
                     /\ server.workers * server.slots <= machine.memory
               /\ server.port \in 1 .. MaxPort
               /\ Given("server", "port", DefaultPort) \in 1 .. MaxPort =>
                      server.port = Given("server", "port", DefaultPort)
    <3>1. Loaded /\ HasServer
      BY <2>2 DEF BuilderInv
    <3>2. /\ serverConfig.name = Given("server", "name", "Basic")
          /\ serverConfig.port \in 1 .. MaxPort
          /\ LET asked == Given("server", "port", DefaultPort) IN
                asked \in 1 .. MaxPort => serverConfig.port = asked
          /\ AskedWorkers \in 0 .. Word - 1 => serverConfig.threads = AskedWorkers
      BY <2>1, <3>1, ServerConfigured, Zenon DEF Loaded
    <3>3. /\ server.kind = serverConfig.name /\ server.port = serverConfig.port
          /\ HasPool => server.workers = serverConfig.threads /\ server.slots = Slots /\ PoolFits
          /\ serverConfig.name # "Basic" => HasPool
      BY <3>1 DEF HasServer, HasPool, Servers
    <3>4. path # NoText /\ env => path \in {"appsettings.env.json", "other.json"}
      BY <2>1 DEF BuilderInv, Files
    <3>5. ASSUME HasPool
          PROVE  /\ server.workers \in 1 .. machine.threads
                 /\ AskedWorkers \in 0 .. Word - 1 => server.workers = AskedWorkers
                 /\ server.slots \in PowersOfTwo
                 /\ AskedCapacity \in 1 .. Word - 1 =>
                        AskedCapacity <= server.slots /\ server.slots < 2 * AskedCapacity
                 /\ AskedCapacity = 0 => server.slots = DefaultCapacity
                 /\ server.workers * server.slots <= machine.memory
      <4>1. /\ serverConfig.threads \in Nat /\ Slots \in PowersOfTwo
            /\ AskedCapacity \in 1 .. Word - 1 => AskedCapacity <= Slots /\ Slots < 2 * AskedCapacity
            /\ AskedCapacity = 0 => Slots = DefaultCapacity
        BY <3>1, PoolAsAsked
      <4>2. server.workers = serverConfig.threads /\ server.slots = Slots /\ PoolFits
        BY <3>3, <3>5
      <4>3. machine.threads \in Nat
        BY <2>1, MachinesAssumption
      <4>4. serverConfig.threads \in 1 .. machine.threads
        BY <4>1, <4>2, <4>3 DEF PoolFits
      <4>5. serverConfig.threads * Slots <= machine.memory
        BY <4>2, Zenon DEF PoolFits
      <4> QED BY <3>2, <4>1, <4>2, <4>4, <4>5, Zenon
    <3> QED BY <3>2, <3>3, <3>4, <3>5, Zenon
  <2>3. exit = "1" => server # Empty
    <3> SUFFICES ASSUME exit = "1" PROVE server # Empty
      OBVIOUS
    <3>1. HasServer
      BY DEF BuilderInv
    <3> QED BY <3>1, ServerThere, Zenon DEF HasServer
  <2>4. exit = "2" => server = Empty /\ (path # NoText => disk[path] # Missing)
    BY DEF BuilderInv
  <2>5. exit = "3" => Given("server", "name", "Basic") \notin Servers
    <3> SUFFICES ASSUME exit = "3" PROVE Given("server", "name", "Basic") \notin Servers
      OBVIOUS
    <3>1. Loaded /\ serverConfig.name \notin Servers
      BY DEF BuilderInv
    <3>2. serverConfig.name = Given("server", "name", "Basic")
      BY <2>1, <3>1, ServerConfigured, Zenon DEF Loaded
    <3> QED BY <3>1, <3>2, Zenon
  <2>6. ASSUME exit = "aborted"
        PROVE  /\ server = Empty /\ registeredErrors = <<>>
               /\ Given("server", "name", "Basic") \in {"Threaded", "Mayhem"} /\ ~ HasRoom
    <3>1. Loaded /\ LacksPool /\ registeredErrors = <<>>
      BY <2>6 DEF BuilderInv, HandlersInv
    <3>2. serverConfig.name = Given("server", "name", "Basic")
      BY <2>1, <3>1, ServerConfigured, Zenon DEF Loaded
    <3>3. ~ HasRoom
      BY <3>1, PoolAsAsked DEF LacksPool
    <3> QED BY <3>1, <3>2, <3>3, Zenon DEF LacksPool, HasPool
  <2> HIDE DEF HostInv
  <2> QED BY <2>2, <2>3, <2>4, <2>5, <2>6, Zenon DEF StartsAsConfigured
<1> QED BY <1>1, HostInvariance, PTL

\* LoggersAsConfigured: every part logs as the settings say, spdlog is never given
\* a name twice, and what ends the builder with an exception is a pool there is no
\* room for, a file that cannot be opened, or a logger without a name.
THEOREM LoggersRight == HostSpec => []LoggersAsConfigured
<1>1. HostInv => LoggersAsConfigured
  <2> SUFFICES ASSUME HostInv PROVE LoggersAsConfigured
    OBVIOUS
  <2>1. disk \in Disks /\ path \in Files \cup {NoText} /\ DOMAIN uses = {"server", "dispatcher", "host"}
    BY DEF HostInv, HostTypes
  <2>2. BuilderInv /\ LoggerInv
    BY DEF HostInv
  <2>3. ASSUME stage = "built"
        PROVE  /\ uses["server"].name = "Server" /\ uses["dispatcher"].name = "RequestDispatcher"
               /\ uses["host"].name = "WebHost"
               /\ \A part \in DOMAIN uses : AsConfigured(uses[part])
    <3>1. Loaded
      BY <2>2, <2>3 DEF BuilderInv
    <3>2. /\ uses["server"] = SpecificationOf("Server")
          /\ uses["dispatcher"] = SpecificationOf("RequestDispatcher")
          /\ uses["host"] = SpecificationOf("WebHost")
      BY <2>2, <2>3 DEF LoggerInv
    <3>3. \A name : SpecificationOf(name).name = name /\ AsConfigured(SpecificationOf(name))
      BY <2>1, <3>1, LoggerConfigured, Zenon
    <3>4. \A part \in {"server", "dispatcher", "host"} : AsConfigured(uses[part])
      BY <3>2, <3>3
    <3> QED BY <2>1, <3>2, <3>3, <3>4, Zenon
  <2>4. ASSUME NEW name \in DOMAIN cache
        PROVE  cache[name].name = name /\ name \in registry /\ AsConfigured(cache[name])
    <3>1. Loaded
      <4>1. DOMAIN Empty = {}
        BY DEF Empty
      <4> QED BY <2>2, <4>1, Zenon DEF LoggerInv
    <3>2. cache[name] = SpecificationOf(name) /\ name \in registry
      BY <2>2, Zenon DEF LoggerInv
    <3> QED BY <2>1, <3>1, <3>2, LoggerConfigured, Zenon
  <2>5. ASSUME exit = "threw"
        PROVE  \/ server = Empty /\ denied = <<>> /\ ~ HasRoom
               \/ /\ server # Empty /\ Len(denied) = 1
                  /\ denied[1] = NoText \/ CannotOpen(SinksFor(denied[1]))
    <3>1. Loaded
      BY <2>2, <2>5 DEF BuilderInv
    <3>2. CASE server = Empty
      <4>1. LacksPool
        BY <2>2, <2>5, <3>2, ServerThere, Zenon DEF BuilderInv, HasServer
      <4>2. ~ HasRoom
        BY <3>1, <4>1, PoolAsAsked DEF LacksPool, HostInv
      <4> QED BY <2>2, <3>2, <4>2 DEF LoggerInv
    <3>3. CASE server # Empty
      <4>1. PICK name : denied = <<name>> /\ CannotMake(name)
        BY <2>2, <2>5, <3>3 DEF LoggerInv
      <4>2. Len(denied) = 1 /\ denied[1] = name
        BY <4>1
      <4>3. name = NoText \/ CannotOpen(SinksFor(name))
        BY <2>1, <3>1, <4>1, LoggerConfigured, Zenon DEF CannotMake
      <4> QED BY <3>3, <4>2, <4>3
    <3> QED BY <3>2, <3>3
  <2> QED BY <2>3, <2>4, <2>5, Zenon DEF LoggersAsConfigured
<1> QED BY <1>1, HostInvariance, PTL

\* AnsweredByRight and AnsweredOnce, of the dispatcher that a host is.
THEOREM HostAnswers == HostSpec => [](AnsweredByRight /\ AnsweredOnce)
BY HostDispatches, RightHandler, OneAnswer, PTL

\* The error handlers the builder registers leave no failure with one of their
\* codes unanswered; only one that the program put in their place can.
DefaultsAnswer ==
    at = "returned" /\ written = <<>> /\ (\E d \in DOMAIN DefaultCodes : statusCode = DefaultCodes[d]) =>
        \E i \in DOMAIN registeredErrors :
            LastFor(i, statusCode) /\ registeredErrors[i].adapter \in {"custom", "json"}

\* It holds in every host: _RegisterDefaultHandlers runs before the first request.
THEOREM DefaultsDo == HostSpec => []DefaultsAnswer
<1>1. HostInv /\ IInv => DefaultsAnswer
  <2> SUFFICES ASSUME HostInv, IInv, at = "returned", written = <<>>,
                      NEW d \in DOMAIN DefaultCodes, statusCode = DefaultCodes[d]
               PROVE  \E i \in DOMAIN registeredErrors :
                          LastFor(i, statusCode) /\ registeredErrors[i].adapter \in {"custom", "json"}
    BY DEF DefaultsAnswer
  <2>1. NoAnswer
    <3>1. Len(written) # 1
      OBVIOUS
    <3> QED BY <3>1 DEF IInv, Done
  <2>2. \E i \in DOMAIN registeredErrors : registeredErrors[i].code = statusCode
    BY DEF HostInv, HandlersInv
  <2> QED BY <2>1, <2>2, Zenon DEF NoAnswer
<1> QED BY <1>1, HostInvariance, PTL

==============================================================================
