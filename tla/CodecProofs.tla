---------------------------- MODULE CodecProofs ----------------------------
(***************************************************************************)
(* The encodings: for every base, every capacity and every number of       *)
(* fields, what is read back is what was written, and a message is         *)
(* accepted exactly if it arrived whole.  The deck: for every size and     *)
(* every range of words, the shuffle keeps it a permutation, a commitment  *)
(* opens only to the card it was made of, and the shuffle implements       *)
(* drawing from an urn.                                                    *)
(***************************************************************************)
EXTENDS Codec, Deck, TLAPS, FiniteSetTheorems, SequenceTheorems, NaturalsInduction,
        WellFoundedInduction

-----------------------------------------------------------------------------
(* Functions defined by recursion. *)

(* A set of naturals has a least element; the place of induction is taken  *)
(* by the least counterexample.                                            *)
LEMMA LeastNat ==
    ASSUME NEW T, T \subseteq Nat, T # {}
    PROVE  \E x \in T : \A y \in T : x <= y
<1> DEFINE R == OpToRel(<, Nat)
<1>1. IsWellFoundedOn(R, Nat)
    BY NatLessThanWellFounded, Zenon
<1>2. PICK x \in T : \A y \in T : <<y, x>> \notin R
    <2> HIDE DEF R
    <2> QED BY <1>1, WFMin
<1>3. \A y \in T : ~(y < x)
    BY <1>2 DEF OpToRel
<1> QED BY <1>3

(* The functions that the encodings define by recursion: g[k] is made from *)
(* g[k - 1] by F.                                                          *)
IsIteration(g, a, F, n) ==
    g = [k \in 0 .. n |-> IF k = 0 THEN a ELSE F[<<k, g[k - 1]>>]]

(* A function defined by such a recursion exists. *)
LEMMA IterationExists ==
    ASSUME NEW a, NEW F, NEW n \in Nat
    PROVE  \E g : IsIteration(g, a, F, n)
<1> DEFINE T == {m \in Nat : ~\E g : IsIteration(g, a, F, m)}
<1> SUFFICES ASSUME T # {} PROVE FALSE
  OBVIOUS
<1>1. PICK m \in T : \A y \in T : m <= y
  <2> HIDE DEF T
  <2>1. T \subseteq Nat
    BY DEF T
  <2> QED BY <2>1, LeastNat
<1>2. m # 0
  <2> DEFINE g == [k \in 0 .. 0 |-> a]
  <2>1. IsIteration(g, a, F, 0)
    BY DEF IsIteration
  <2> QED BY <2>1
<1>3. m - 1 \in Nat /\ m - 1 \notin T
  BY <1>1, <1>2
<1>4. PICK f : IsIteration(f, a, F, m - 1)
  BY <1>3
<1> DEFINE g == [k \in 0 .. m |-> IF k = m THEN F[<<m, f[m - 1]>>] ELSE f[k]]
<1>5. \A k \in 0 .. m - 1 : g[k] = f[k]
  BY <1>3
<1>6. \A k \in 0 .. m : g[k] = IF k = 0 THEN a ELSE F[<<k, g[k - 1]>>]
  <2> SUFFICES ASSUME NEW k \in 0 .. m
               PROVE  g[k] = IF k = 0 THEN a ELSE F[<<k, g[k - 1]>>]
    OBVIOUS
  <2>1. CASE k = m
    <3>1. g[k] = F[<<m, f[m - 1]>>]
      BY <2>1
    <3>2. m - 1 \in 0 .. m - 1
      BY <1>3
    <3>3. g[m - 1] = f[m - 1]
      BY <1>5, <3>2
    <3> HIDE DEF g
    <3> QED BY <1>2, <2>1, <3>1, <3>3
  <2>2. CASE k # m
    <3>1. k \in 0 .. m - 1 /\ (k # 0 => k - 1 \in 0 .. m - 1)
      BY <1>3, <2>2
    <3>2. f[k] = IF k = 0 THEN a ELSE F[<<k, f[k - 1]>>]
      BY <1>4, <3>1 DEF IsIteration
    <3> HIDE DEF g
    <3> QED BY <1>5, <3>1, <3>2
  <2> QED BY <2>1, <2>2
<1>7. IsIteration(g, a, F, m)
  <2>1. g = [k \in 0 .. m |-> g[k]]
    OBVIOUS
  <2> HIDE DEF g
  <2> QED BY <1>6, <2>1 DEF IsIteration
<1> QED BY <1>7

(* Whatever holds at the start and is kept by every step holds throughout. *)
LEMMA StepsStay ==
    ASSUME NEW g, NEW S, NEW n \in Nat, g[0] \in S,
           \A k \in 1 .. n : g[k - 1] \in S => g[k] \in S
    PROVE  \A k \in 0 .. n : g[k] \in S
<1> DEFINE T == {k \in 0 .. n : g[k] \notin S}
<1> SUFFICES ASSUME T # {} PROVE FALSE
  OBVIOUS
<1>1. PICK k \in T : \A y \in T : k <= y
  <2> HIDE DEF T
  <2>1. T \subseteq Nat
    BY DEF T
  <2> QED BY <2>1, LeastNat
<1>2. k \in 1 .. n /\ k - 1 \in 0 .. n /\ k - 1 \notin T
  BY <1>1
<1> QED BY <1>2

Iterates(g, a, F, n) ==
    /\ g \in [0 .. n -> Nat]
    /\ g[0] = a /\ \A k \in 1 .. n : g[k] = F[<<k, g[k - 1]>>]

(* One over the naturals, with its values. *)
LEMMA Recursion ==
    ASSUME NEW a \in Nat, NEW F \in [Nat \X Nat -> Nat], NEW n \in Nat
    PROVE  \E g : Iterates(g, a, F, n)
<1>1. PICK g : IsIteration(g, a, F, n)
  BY IterationExists
<1>2. 0 \in 0 .. n /\ \A k \in 1 .. n : k \in 0 .. n /\ k # 0 /\ k \in Nat
  OBVIOUS
<1>3. g[0] = a /\ \A k \in 1 .. n : g[k] = F[<<k, g[k - 1]>>]
  BY <1>1, <1>2 DEF IsIteration
<1>4. \A k \in 1 .. n : g[k - 1] \in Nat => g[k] \in Nat
  <2> SUFFICES ASSUME NEW k \in 1 .. n, g[k - 1] \in Nat PROVE g[k] \in Nat
    OBVIOUS
  <2>1. <<k, g[k - 1]>> \in Nat \X Nat
    BY <1>2
  <2> QED BY <1>3, <2>1
<1>5. \A k \in 0 .. n : g[k] \in Nat
  BY <1>3, <1>4, StepsStay
<1>6. g \in [0 .. n -> Nat]
  BY <1>1, <1>5 DEF IsIteration
<1> QED BY <1>3, <1>6 DEF Iterates

(* Sums and products of naturals are naturals. *)
LEMMA Closed == 0 \in Nat /\ \A x, y \in Nat : x + y \in Nat /\ x * y \in Nat
BY SMT

-----------------------------------------------------------------------------
(* Numbers and their digits. *)

(* Quotient and remainder make up the number. *)
LEMMA DivMod ==
    ASSUME NEW x \in Nat
    PROVE  /\ x \div B \in Nat /\ x % B \in 0 .. B - 1
           /\ (x \div B) * B + (x % B) = x
<1>1. B \in Nat /\ B > 0
  BY CodecAssumption
<1>2. x \div B \in Nat /\ x % B \in 0 .. B - 1
  BY <1>1, SMT
<1>3. B * (x \div B) + (x % B) = x
  BY <1>1, SMT
<1> QED BY <1>1, <1>2, <1>3, SMT

(* The quotient of what fits w + 1 bytes fits w. *)
LEMMA DivBound ==
    ASSUME NEW x \in Nat, NEW p \in Nat, x < p * B
    PROVE  x \div B < p
<1> DEFINE q == x \div B
<1>1. q \in Nat /\ B \in Nat /\ q * B <= x
  BY DivMod, CodecAssumption
<1> HIDE DEF q
<1>2. q * B < p * B
  BY <1>1, SMT
<1>3. ASSUME q >= p PROVE FALSE
  <2> DEFINE d == q - p
  <2>1. d \in Nat /\ q = p + d
    BY <1>1, <1>3
  <2> HIDE DEF d
  <2>2. q * B = p * B + d * B /\ d * B \in Nat
    BY <1>1, <2>1, SMT
  <2> QED BY <1>1, <1>2, <2>2, SMT
<1> QED BY <1>1, <1>3 DEF q

(* Power is what its recursion says. *)
LEMMA Powers ==
    /\ Power \in [0 .. 8 -> Nat] /\ Power[0] = 1
    /\ \A w \in 1 .. 8 : Power[w] = Power[w - 1] * B
<1> DEFINE F == [x \in Nat \X Nat |-> x[2] * B]
           Is(g) == g = [w \in 0 .. 8 |-> IF w = 0 THEN 1 ELSE g[w - 1] * B]
<1>0. B \in Nat
  BY CodecAssumption
<1>f. \A k, x \in Nat : F[<<k, x>>] = x * B
  OBVIOUS
<1>1. PICK g : IsIteration(g, 1, F, 8)
  BY IterationExists
<1>2. g[0] = 1 /\ \A k \in 1 .. 8 : g[k] = F[<<k, g[k - 1]>>]
  BY <1>1 DEF IsIteration
<1> HIDE DEF F
<1>3. \A k \in 1 .. 8 : g[k - 1] \in Nat => g[k] \in Nat
  BY <1>0, <1>2, <1>f
<1>4. \A k \in 0 .. 8 : g[k] \in Nat
  BY <1>2, <1>3, StepsStay
<1>5. Is(g)
  <2>1. \A k \in 0 .. 8 : k # 0 => k - 1 \in 0 .. 8
    OBVIOUS
  <2> QED BY <1>1, <1>4, <1>f, <2>1 DEF IsIteration
<1>6. Is(Power)
  BY <1>5 DEF Power
<1>7. Power[0] = 1 /\ \A w \in 1 .. 8 : Power[w] = Power[w - 1] * B
  BY <1>6
<1>8. \A k \in 1 .. 8 : Power[k - 1] \in Nat => Power[k] \in Nat
  BY <1>0, <1>7
<1>9. \A k \in 0 .. 8 : Power[k] \in Nat
  BY <1>7, <1>8, StepsStay
<1> QED BY <1>6, <1>7, <1>9

(* The widths are as far apart as the formats of varints need. *)
LEMMA PowersGrow ==
    /\ B \in Nat /\ B >= 4
    /\ Power[1] = B /\ Power[2] >= 16 /\ Power[2] > B
    /\ Power[4] >= 256 /\ Power[4] > Power[2] /\ Power[8] > Power[4]
    /\ \A w \in 0 .. 8 : Power[w] \in Nat /\ Power[w] >= 1
    /\ \A w \in 1 .. 8 : Power[w] > Power[w - 1]
<1>1. B \in Nat /\ B >= 4
  BY CodecAssumption
<1>2. \A x \in Nat : x >= 1 => x * B \in Nat /\ x * B >= x + x + x + x
  <2> SUFFICES ASSUME NEW x \in Nat, x >= 1
               PROVE  x * B \in Nat /\ x * B >= x + x + x + x
    OBVIOUS
  <2> DEFINE d == B - 4
  <2>1. d \in Nat /\ B = 4 + d
    BY <1>1
  <2> HIDE DEF d
  <2>2. x * B = x * 4 + x * d /\ x * d \in Nat
    BY <2>1, SMT
  <2> QED BY <2>2
<1>3. \A w \in 1 .. 8 : /\ w - 1 \in 0 .. 8
                        /\ Power[w - 1] \in Nat /\ Power[w] = Power[w - 1] * B
  BY Powers
<1>4. \A w \in 1 .. 8 : Power[w - 1] \in Nat \ {0} => Power[w] \in Nat \ {0}
  BY <1>2, <1>3
<1>5. Power[0] \in Nat \ {0}
  BY Powers
<1>6. \A w \in 0 .. 8 : Power[w] \in Nat \ {0}
  <2> DEFINE S == Nat \ {0}
  <2>1. Power[0] \in S /\ \A w \in 1 .. 8 : Power[w - 1] \in S => Power[w] \in S
    BY <1>4, <1>5
  <2> HIDE DEF S
  <2>2. \A w \in 0 .. 8 : Power[w] \in S
    BY <2>1, StepsStay
  <2> QED BY <2>2 DEF S
<1>7. \A w \in 1 .. 8 : Power[w] >= Power[w - 1] + Power[w - 1] + Power[w - 1] + Power[w - 1]
  BY <1>2, <1>3, <1>6
<1>8. Power[1] = B
  <2>1. Power[1] = Power[0] * B /\ Power[0] = 1
    BY Powers
  <2> QED BY <1>1, <2>1
<1>9. \A w \in 1 .. 8 : Power[w - 1] \in Nat \ {0} /\ Power[w] \in Nat \ {0} /\ Power[w] > Power[w - 1]
  BY <1>3, <1>6, <1>7
<1>10. \A w \in 1 .. 7 : Power[w] \in Nat \ {0} /\ Power[w + 1] \in Nat \ {0}
                    /\ Power[w + 1] >= Power[w] + Power[w] + Power[w] + Power[w]
  <2> SUFFICES ASSUME NEW w \in 1 .. 7
               PROVE  Power[w] \in Nat \ {0} /\ Power[w + 1] \in Nat \ {0}
                    /\ Power[w + 1] >= Power[w] + Power[w] + Power[w] + Power[w]
    OBVIOUS
  <2>1. w + 1 \in 1 .. 8 /\ (w + 1) - 1 = w /\ w \in 0 .. 8
    OBVIOUS
  <2>2. Power[(w + 1) - 1] \in Nat \ {0} /\ Power[w + 1] \in Nat \ {0}
        /\ Power[w + 1] >= Power[(w + 1) - 1] + Power[(w + 1) - 1] + Power[(w + 1) - 1] + Power[(w + 1) - 1]
    BY <1>6, <1>7, <2>1
  <2> QED BY <2>1, <2>2
<1>11. Power[2] >= B + B + B + B /\ Power[3] >= Power[2] + Power[2] + Power[2] + Power[2]
       /\ Power[4] >= Power[3] + Power[3] + Power[3] + Power[3]
       /\ Power[5] > Power[4] /\ Power[6] > Power[5] /\ Power[7] > Power[6] /\ Power[8] > Power[7]
       /\ \A w \in 1 .. 8 : Power[w] \in Nat
  BY <1>8, <1>9, <1>10
<1>12. Power[2] \in Nat /\ Power[3] \in Nat /\ Power[4] \in Nat /\ Power[5] \in Nat
       /\ Power[6] \in Nat /\ Power[7] \in Nat /\ Power[8] \in Nat
  BY <1>11
<1>13. Power[2] >= 16 /\ Power[2] > B /\ Power[4] >= 256 /\ Power[4] > Power[2] /\ Power[8] > Power[4]
  BY <1>1, <1>11, <1>12
<1> QED BY <1>1, <1>6, <1>8, <1>9, <1>13

(* What is left of n after each digit. *)
LEMMA Digits ==
    ASSUME NEW n \in Nat, NEW w \in Nat
    PROVE  \E rest \in [0 .. w -> Nat] :
             /\ rest[0] = n /\ \A k \in 1 .. w : rest[k] = rest[k - 1] \div B
             /\ LE(n, w) = [k \in 1 .. w |-> rest[k - 1] % B]
<1> DEFINE F == [x \in Nat \X Nat |-> x[2] \div B]
           Is(g) == g = [k \in 0 .. w |-> IF k = 0 THEN n ELSE g[k - 1] \div B]
           rest == CHOOSE g : Is(g)
<1>1. F \in [Nat \X Nat -> Nat] /\ \A k, x \in Nat : F[<<k, x>>] = x \div B
  BY DivMod
<1> HIDE DEF F
<1>2. PICK g : Iterates(g, n, F, w)
  BY <1>1, Recursion, ZenonT(30)
<1>3. g \in [0 .. w -> Nat] /\ g[0] = n /\ \A k \in 1 .. w : g[k] = F[<<k, g[k - 1]>>]
  BY <1>2 DEF Iterates
<1>a. \A k \in 0 .. w : g[k] = IF k = 0 THEN n ELSE g[k - 1] \div B
  <2> SUFFICES ASSUME NEW k \in 0 .. w, k # 0 PROVE g[k] = g[k - 1] \div B
    BY <1>3
  <2>1. k \in 1 .. w /\ k \in Nat /\ g[k - 1] \in Nat
    BY <1>3
  <2>2. g[k] = F[<<k, g[k - 1]>>]
    BY <1>3, <2>1
  <2> QED BY <1>1, <2>1, <2>2
<1>4. Is(g)
  BY <1>3, <1>a
<1>5. Is(rest)
  BY <1>4
<1>6. LE(n, w) = [k \in 1 .. w |-> rest[k - 1] % B]
  BY DEF LE
<1> HIDE DEF rest
<1>7. rest[0] = n /\ \A k \in 1 .. w : rest[k] = rest[k - 1] \div B
  <2>1. 0 \in 0 .. w /\ \A k \in 1 .. w : k \in 0 .. w /\ k # 0
    OBVIOUS
  <2> QED BY <1>5, <2>1
<1>8. rest[0] \in Nat /\ \A k \in 1 .. w : rest[k - 1] \in Nat => rest[k] \in Nat
  BY <1>7, DivMod
<1>9. \A k \in 0 .. w : rest[k] \in Nat
  BY <1>8, StepsStay
<1>10. rest \in [0 .. w -> Nat]
  BY <1>5, <1>9
<1> QED BY <1>6, <1>7, <1>10, ZenonT(30)

(* LE writes w bytes. *)
LEMMA LEBytes ==
    ASSUME NEW n \in Nat, NEW w \in Nat
    PROVE  LE(n, w) \in Seq(0 .. B - 1) /\ Len(LE(n, w)) = w
<1>1. PICK rest \in [0 .. w -> Nat] : LE(n, w) = [k \in 1 .. w |-> rest[k - 1] % B]
  BY Digits, ZenonT(30)
<1>2. \A k \in 1 .. w : rest[k - 1] % B \in 0 .. B - 1
  <2> SUFFICES ASSUME NEW k \in 1 .. w PROVE rest[k - 1] % B \in 0 .. B - 1
    OBVIOUS
  <2>1. rest[k - 1] \in Nat
    OBVIOUS
  <2> QED BY <2>1, DivMod
<1>3. LE(n, w) \in [1 .. w -> 0 .. B - 1]
  BY <1>1, <1>2
<1> QED BY <1>3, SMTT(30)

(* Value adds up the digits, the most significant first. *)
LEMMA Values ==
    ASSUME NEW d \in Seq(Nat), NEW w \in Nat, Len(d) = w
    PROVE  \E g \in [0 .. w -> Nat] :
             /\ g[0] = 0 /\ \A k \in 1 .. w : g[k] = g[k - 1] * B + d[w + 1 - k]
             /\ Value(d) = g[w]
<1> DEFINE digit(k) == IF k \in 1 .. w THEN d[w + 1 - k] ELSE 0
           F == [x \in Nat \X Nat |-> x[2] * B + digit(x[1])]
           Is(g) == g = [k \in 0 .. w |-> IF k = 0 THEN 0 ELSE g[k - 1] * B + d[w + 1 - k]]
           value == CHOOSE g : Is(g)
<1>1. B \in Nat /\ \A k \in 1 .. w : d[w + 1 - k] \in Nat /\ digit(k) = d[w + 1 - k]
  <2>1. \A k \in 1 .. w : w + 1 - k \in 1 .. w
    OBVIOUS
  <2> QED BY <2>1, CodecAssumption
<1>2. \A k \in Nat : digit(k) \in Nat
  BY <1>1
<1>3. Value(d) = value[w]
  BY DEF Value
<1> HIDE DEF digit
<1>4. F \in [Nat \X Nat -> Nat] /\ \A k, x \in Nat : F[<<k, x>>] = x * B + digit(k)
  <2>1. \A k, x \in Nat : x * B + digit(k) \in Nat
    <3> SUFFICES ASSUME NEW k \in Nat, NEW x \in Nat PROVE x * B + digit(k) \in Nat
      OBVIOUS
    <3>1. x * B \in Nat /\ digit(k) \in Nat
      BY <1>1, <1>2, Closed
    <3> QED BY <3>1
  <2> QED BY <2>1
<1> HIDE DEF F
<1>a. PICK g : Iterates(g, 0, F, w)
  BY <1>4, Closed, Recursion, ZenonT(30)
<1>5. g \in [0 .. w -> Nat] /\ g[0] = 0 /\ \A k \in 1 .. w : g[k] = F[<<k, g[k - 1]>>]
  BY <1>a DEF Iterates
<1>6. \A k \in 0 .. w : g[k] = IF k = 0 THEN 0 ELSE g[k - 1] * B + d[w + 1 - k]
  <2> SUFFICES ASSUME NEW k \in 0 .. w, k # 0 PROVE g[k] = g[k - 1] * B + d[w + 1 - k]
    BY <1>5
  <2>1. k \in 1 .. w /\ k \in Nat /\ g[k - 1] \in Nat
    BY <1>5
  <2>2. g[k] = F[<<k, g[k - 1]>>] /\ digit(k) = d[w + 1 - k]
    BY <1>1, <1>5, <2>1
  <2>3. F[<<k, g[k - 1]>>] = g[k - 1] * B + digit(k)
    BY <1>4, <2>1
  <2> QED BY <2>2, <2>3
<1>7. Is(g)
  BY <1>5, <1>6
<1>8. Is(value)
  BY <1>7
<1> HIDE DEF value
<1>9. value[0] = 0 /\ \A k \in 1 .. w : value[k] = value[k - 1] * B + d[w + 1 - k]
  <2>1. 0 \in 0 .. w /\ \A k \in 1 .. w : k \in 0 .. w /\ k # 0
    OBVIOUS
  <2> QED BY <1>8, <2>1
<1>10. value[0] \in Nat /\ \A k \in 1 .. w : value[k - 1] \in Nat => value[k] \in Nat
  <2> SUFFICES ASSUME NEW k \in 1 .. w, value[k - 1] \in Nat PROVE value[k] \in Nat
    BY <1>9
  <2>1. value[k - 1] * B \in Nat /\ d[w + 1 - k] \in Nat
    BY <1>1, Closed, Zenon
  <2>2. value[k] = value[k - 1] * B + d[w + 1 - k]
    BY <1>9
  <2> QED BY <2>1, <2>2, Closed, Zenon
<1>11. \A k \in 0 .. w : value[k] \in Nat
  BY <1>10, StepsStay
<1>12. value \in [0 .. w -> Nat]
  BY <1>8, <1>11
<1> QED BY <1>3, <1>9, <1>12

(* A number that fits is read back from its digits. *)
LEMMA NumberRoundTrip ==
    ASSUME NEW w \in 1 .. 8, NEW n \in Nat, n < Power[w]
    PROVE  Value(LE(n, w)) = n
<1> DEFINE d == LE(n, w)
<1>0. w \in Nat
  OBVIOUS
<1>1. PICK rest \in [0 .. w -> Nat] :
             /\ rest[0] = n /\ \A k \in 1 .. w : rest[k] = rest[k - 1] \div B
             /\ d = [k \in 1 .. w |-> rest[k - 1] % B]
  BY <1>0, Digits
<1>2. d \in Seq(Nat) /\ Len(d) = w
  <2>1. \A k \in 1 .. w : rest[k - 1] % B \in Nat
    <3> SUFFICES ASSUME NEW k \in 1 .. w PROVE rest[k - 1] % B \in Nat
      OBVIOUS
    <3>1. rest[k - 1] \in Nat
      OBVIOUS
    <3>2. rest[k - 1] % B \in 0 .. B - 1 /\ B \in Nat
      BY <3>1, DivMod, CodecAssumption
    <3> QED BY <3>2
  <2>2. d \in [1 .. w -> Nat]
    BY <1>1, <2>1
  <2> QED BY <2>2
<1> HIDE DEF d
<1>3. PICK g \in [0 .. w -> Nat] :
             /\ g[0] = 0 /\ \A k \in 1 .. w : g[k] = g[k - 1] * B + d[w + 1 - k]
             /\ Value(d) = g[w]
  BY <1>0, <1>2, Values
<1>4. rest[w] = 0
  <2> DEFINE T == {k \in 0 .. w : ~(rest[k] < Power[w - k])}
  <2>1. T = {}
    <3> SUFFICES ASSUME T # {} PROVE FALSE
      OBVIOUS
    <3>1. PICK k \in T : \A y \in T : k <= y
      <4> HIDE DEF T
      <4>1. T \subseteq Nat
        BY DEF T
      <4> QED BY <4>1, LeastNat
    <3>2. k # 0
      BY <1>1
    <3>3. k \in 1 .. w /\ k - 1 \in 0 .. w /\ k - 1 \notin T
      <4>1. k \in 0 .. w
        OBVIOUS
      <4>2. k \in 1 .. w /\ k - 1 \in 0 .. w /\ ~(k <= k - 1)
        BY <1>0, <3>2, <4>1
      <4> HIDE DEF T
      <4> QED BY <3>1, <4>2
    <3>4. rest[k - 1] \in Nat /\ rest[k - 1] < Power[w - (k - 1)]
      BY <3>3
    <3>5. w - (k - 1) \in 1 .. 8 /\ (w - (k - 1)) - 1 = w - k /\ w - k \in 0 .. 8
      <4> HIDE DEF T
      <4>1. w \in Nat /\ w <= 8 /\ k \in Nat /\ k >= 1 /\ k <= w
        BY <1>0, <3>3
      <4> QED BY <4>1
    <3>6. Power[w - (k - 1)] = Power[w - k] * B /\ Power[w - k] \in Nat
      BY <3>5, Powers
    <3>7. rest[k] = rest[k - 1] \div B
      BY <1>1, <3>3
    <3>8. rest[k] < Power[w - k]
      BY <3>4, <3>6, <3>7, DivBound
    <3> QED BY <3>8
  <2>2. w \in 0 .. w /\ w - w = 0
    OBVIOUS
  <2>3. rest[w] \in Nat /\ rest[w] < Power[0]
    BY <2>1, <2>2
  <2>4. Power[0] = 1
    BY Powers
  <2> HIDE DEF T
  <2> QED BY <2>3, <2>4
<1>5. \A k \in 0 .. w : g[k] = rest[w - k]
  <2> DEFINE T == {k \in 0 .. w : g[k] # rest[w - k]}
  <2> SUFFICES ASSUME T # {} PROVE FALSE
    OBVIOUS
  <2>1. PICK k \in T : \A y \in T : k <= y
    <3> HIDE DEF T
    <3>1. T \subseteq Nat
      BY DEF T
    <3> QED BY <3>1, LeastNat
  <2>2. k # 0
    BY <1>3, <1>4
  <2>3. k \in 1 .. w /\ k - 1 \in 0 .. w /\ k - 1 \notin T
    BY <2>1, <2>2
  <2>4. g[k - 1] = rest[w - (k - 1)]
    BY <2>3
  <2>5. w + 1 - k \in 1 .. w /\ w - (k - 1) = w + 1 - k /\ (w + 1 - k) - 1 = w - k /\ w - k \in 0 .. w
    BY <2>3
  <2>6. rest[w + 1 - k] = rest[w - k] \div B /\ d[w + 1 - k] = rest[w - k] % B
    BY <1>1, <2>5
  <2>7. g[k] = (rest[w - k] \div B) * B + (rest[w - k] % B)
    BY <1>3, <2>3, <2>4, <2>5, <2>6
  <2>8. g[k] = rest[w - k]
    BY <2>5, <2>7, DivMod
  <2> QED BY <2>1, <2>8
<1>6. w \in 0 .. w /\ w - w = 0
  OBVIOUS
<1> QED BY <1>1, <1>3, <1>5, <1>6 DEF d

(* A byte is its own value. *)
LEMMA OneDigit == ASSUME NEW n \in Nat PROVE Value(<<n>>) = n
<1>1. PICK g \in [0 .. 1 -> Nat] :
             /\ g[0] = 0 /\ \A k \in 1 .. 1 : g[k] = g[k - 1] * B + <<n>>[1 + 1 - k]
             /\ Value(<<n>>) = g[1]
  <2>1. <<n>> \in Seq(Nat) /\ Len(<<n>>) = 1
    OBVIOUS
  <2> QED BY <2>1, Values
<1>2. g[1] = g[0] * B + n
  BY <1>1
<1> QED BY <1>1, <1>2, CodecAssumption

(* The checksum is one of four bytes. *)
LEMMA Checksum ==
    ASSUME NEW v \in Seq(Nat)
    PROVE  checksumOf(v) \in 0 .. Power[4] - 1
<1> DEFINE n == Len(v)
           byte(k) == IF k \in 1 .. n THEN v[k] ELSE 0
           F == [x \in Nat \X Nat |-> x[2] + byte(x[1]) + 1]
           Is(g) == g = [k \in 0 .. n |-> IF k = 0 THEN 0 ELSE g[k - 1] + v[k] + 1]
           sum == CHOOSE g : Is(g)
<1>1. n \in Nat /\ \A k \in 1 .. n : v[k] \in Nat /\ byte(k) = v[k]
  OBVIOUS
<1>2. \A k \in Nat : byte(k) \in Nat
  BY <1>1
<1>3. checksumOf(v) = sum[n] % Power[4]
  BY DEF checksumOf
<1> HIDE DEF byte, n
<1>4. F \in [Nat \X Nat -> Nat] /\ \A k, x \in Nat : F[<<k, x>>] = x + byte(k) + 1
  <2>1. \A k, x \in Nat : x + byte(k) + 1 \in Nat
    <3> SUFFICES ASSUME NEW k \in Nat, NEW x \in Nat PROVE x + byte(k) + 1 \in Nat
      OBVIOUS
    <3>1. byte(k) \in Nat
      BY <1>2
    <3> QED BY <3>1
  <2> QED BY <2>1
<1> HIDE DEF F
<1>a. PICK g : Iterates(g, 0, F, n)
  BY <1>1, <1>4, Closed, Recursion, ZenonT(30)
<1>5. g \in [0 .. n -> Nat] /\ g[0] = 0 /\ \A k \in 1 .. n : g[k] = F[<<k, g[k - 1]>>]
  BY <1>a DEF Iterates
<1>6. \A k \in 0 .. n : g[k] = IF k = 0 THEN 0 ELSE g[k - 1] + v[k] + 1
  <2> SUFFICES ASSUME NEW k \in 0 .. n, k # 0 PROVE g[k] = g[k - 1] + v[k] + 1
    BY <1>5
  <2>1. k \in 1 .. n /\ k \in Nat /\ g[k - 1] \in Nat
    BY <1>1, <1>5
  <2>2. g[k] = F[<<k, g[k - 1]>>] /\ byte(k) = v[k]
    BY <1>1, <1>5, <2>1
  <2>3. F[<<k, g[k - 1]>>] = g[k - 1] + byte(k) + 1
    BY <1>4, <2>1
  <2> QED BY <2>2, <2>3
<1>7. Is(g)
  BY <1>5, <1>6
<1>8. Is(sum)
  BY <1>7
<1> HIDE DEF sum
<1>9. sum[0] = 0 /\ \A k \in 1 .. n : sum[k] = sum[k - 1] + v[k] + 1
  <2>1. 0 \in 0 .. n /\ \A k \in 1 .. n : k \in 0 .. n /\ k # 0
    BY <1>1
  <2> QED BY <1>8, <2>1
<1>10. sum[0] \in Nat /\ \A k \in 1 .. n : sum[k - 1] \in Nat => sum[k] \in Nat
  <2> SUFFICES ASSUME NEW k \in 1 .. n, sum[k - 1] \in Nat PROVE sum[k] \in Nat
    BY <1>9
  <2>1. v[k] \in Nat /\ sum[k] = sum[k - 1] + v[k] + 1
    BY <1>1, <1>9
  <2> QED BY <2>1
<1>11. \A k \in 0 .. n : sum[k] \in Nat
  BY <1>1, <1>10, StepsStay
<1>12. sum[n] \in Nat /\ Power[4] \in Nat /\ Power[4] > 0
  <2>1. n \in 0 .. n
    BY <1>1
  <2>2. sum[n] \in Nat
    BY <1>11, <2>1
  <2>3. Power[4] \in Nat /\ Power[4] > 0
    <3>1. 4 \in 0 .. 8
      OBVIOUS
    <3>2. Power[4] \in Nat /\ Power[4] >= 1
      BY <3>1, PowersGrow, ZenonT(30)
    <3> QED BY ONLY <3>2
  <2> QED BY <2>2, <2>3
<1>13. \A x, m \in Nat : m > 0 => x % m \in 0 .. m - 1
  OBVIOUS
<1> QED BY <1>3, <1>12, <1>13

-----------------------------------------------------------------------------
(* The writer's buffer. *)

(* A turn of ensure's loop brings the capacity nearer to what is required. *)
LEMMA DoublingGrows ==
    ASSUME NEW capacity \in Nat, NEW required \in Nat, NEW c \in Nat, NEW k \in Nat,
           c >= capacity, c >= required \/ c > k
    PROVE  LET d == Doubled(c, required)
           IN  d \in Nat /\ d >= capacity /\ (d >= required \/ d > k + 1)
<1>1. CASE c < required
  <2>1. Doubled(c, required) = c * 2
    BY <1>1 DEF Doubled
  <2>2. c * 2 \in Nat /\ c * 2 >= c + 1 /\ c > k
    BY <1>1
  <2> QED BY <2>1, <2>2
<1>2. CASE ~(c < required)
  <2>1. Doubled(c, required) = c
    BY <1>2 DEF Doubled
  <2> QED BY <1>2, <2>1
<1> QED BY <1>1, <1>2

(* ensure's loop ends with a capacity that is enough. *)
LEMMA EnsureFits ==
    ASSUME NEW capacity \in Nat, capacity > 0, NEW required \in Nat
    PROVE  /\ ensure(capacity, required) \in Nat
           /\ ensure(capacity, required) >= required /\ ensure(capacity, required) >= capacity
<1> DEFINE F == [x \in Nat \X Nat |-> Doubled(x[2], required)]
           Is(g) == g = [k \in 0 .. required |->
                           IF k = 0 THEN capacity * 2 ELSE Doubled(g[k - 1], required)]
           cap == CHOOSE g : Is(g)
<1>1. \A x \in Nat : Doubled(x, required) \in Nat
  BY DEF Doubled
<1>2. ensure(capacity, required) = IF required <= capacity THEN capacity ELSE cap[required]
  BY DEF ensure
<1>3. F \in [Nat \X Nat -> Nat] /\ \A k, x \in Nat : F[<<k, x>>] = Doubled(x, required)
  BY <1>1
<1>4. capacity * 2 \in Nat
  OBVIOUS
<1> HIDE DEF F
<1>a. PICK g : Iterates(g, capacity * 2, F, required)
  BY <1>3, <1>4, Recursion, ZenonT(30)
<1>5. /\ g \in [0 .. required -> Nat] /\ g[0] = capacity * 2
      /\ \A k \in 1 .. required : g[k] = F[<<k, g[k - 1]>>]
  BY <1>a DEF Iterates
<1>6. \A k \in 0 .. required :
         g[k] = IF k = 0 THEN capacity * 2 ELSE Doubled(g[k - 1], required)
  <2> SUFFICES ASSUME NEW k \in 0 .. required, k # 0 PROVE g[k] = Doubled(g[k - 1], required)
    BY <1>5
  <2>1. k \in 1 .. required /\ k \in Nat /\ g[k - 1] \in Nat
    BY <1>5
  <2>2. g[k] = F[<<k, g[k - 1]>>]
    BY <1>5, <2>1
  <2> QED BY <1>3, <2>1, <2>2
<1>7. Is(g)
  BY <1>5, <1>6
<1>8. Is(cap)
  BY <1>7
<1> HIDE DEF cap
<1>9. cap[0] = capacity * 2 /\ \A k \in 1 .. required : cap[k] = Doubled(cap[k - 1], required)
  <2>1. 0 \in 0 .. required /\ \A k \in 1 .. required : k \in 0 .. required /\ k # 0
    OBVIOUS
  <2> QED BY <1>8, <2>1
<1> DEFINE Ok(k) == cap[k] \in Nat /\ cap[k] >= capacity /\ (cap[k] >= required \/ cap[k] > k)
           T == {k \in 0 .. required : ~Ok(k)}
<1>10. T = {}
  <2> SUFFICES ASSUME T # {} PROVE FALSE
    OBVIOUS
  <2>1. PICK k \in T : \A y \in T : k <= y
    <3> HIDE DEF T
    <3>1. T \subseteq Nat
      BY DEF T
    <3> QED BY <3>1, LeastNat
  <2>2. Ok(0)
    BY <1>9
  <2>3. k \in 0 .. required /\ ~Ok(k)
    OBVIOUS
  <2>4. k \in 1 .. required /\ k - 1 \in 0 .. required /\ ~(k <= k - 1)
    <3> HIDE DEF Ok
    <3> QED BY <2>2, <2>3
  <2>5. k - 1 \notin T
    <3> HIDE DEF T
    <3> QED BY <2>1, <2>4
  <2>6. Ok(k - 1)
    BY <2>4, <2>5
  <2>7. cap[k] = Doubled(cap[k - 1], required)
    BY <1>9, <2>4
  <2>8. Ok(k)
    <3>1. k - 1 \in Nat /\ (k - 1) + 1 = k
      BY <2>4
    <3>2. cap[k - 1] \in Nat /\ cap[k - 1] >= capacity
          /\ (cap[k - 1] >= required \/ cap[k - 1] > k - 1)
      BY <2>6
    <3> HIDE DEF Ok, T
    <3>3. LET e == Doubled(cap[k - 1], required)
          IN  e \in Nat /\ e >= capacity /\ (e >= required \/ e > (k - 1) + 1)
      BY <3>1, <3>2, DoublingGrows, ZenonT(30)
    <3> QED BY <2>7, <3>1, <3>3 DEF Ok
  <2> QED BY <2>3, <2>8
<1>11. required \in 0 .. required
  OBVIOUS
<1>12. Ok(required)
  BY <1>10, <1>11
<1> QED BY <1>2, <1>12

(* What was written stays, and what is written now comes behind it. *)
LEMMA PutBytes ==
    ASSUME buf \in Seq(Nat), offset \in Nat, offset <= Len(buf), NEW bytes \in Seq(Nat),
           format \in Growing => Len(buf) > 0
    PROVE  /\ Put(bytes) \in Seq(Nat) /\ Len(Put(bytes)) >= offset + Len(bytes)
           /\ \A q \in 1 .. offset : Put(bytes)[q] = buf[q]
           /\ \A q \in 1 .. Len(bytes) : Put(bytes)[offset + q] = bytes[q]
           /\ format \in Growing => Len(Put(bytes)) > 0
<1> DEFINE l == Len(bytes)
           c == Capacity(offset + l)
           p == Put(bytes)
<1>1. l \in Nat /\ Len(buf) \in Nat /\ offset + l \in Nat
  OBVIOUS
<1>2. c \in Nat /\ c >= offset + l /\ (format \in Growing => c > 0)
  <2>1. CASE format \in Growing
    <3>1. c = ensure(Len(buf), offset + l)
      BY <2>1 DEF Capacity
    <3> HIDE DEF l, c
    <3> QED BY <1>1, <2>1, <3>1, EnsureFits
  <2>2. CASE format \notin Growing
    BY <1>1, <2>2 DEF Capacity
  <2> QED BY <2>1, <2>2
<1>3. p = [k \in 1 .. c |->
            CASE k \in offset + 1 .. offset + l -> bytes[k - offset]
              [] k <= Len(buf) /\ k <= offset -> buf[k]
              [] OTHER -> 0]
  BY DEF Put
<1> HIDE DEF c, p
<1>4. \A k \in 1 .. c : p[k] \in Nat
  <2> SUFFICES ASSUME NEW k \in 1 .. c PROVE p[k] \in Nat
    OBVIOUS
  <2>1. CASE k \in offset + 1 .. offset + l
    <3>1. k - offset \in 1 .. Len(bytes)
      BY <1>1, <2>1
    <3> QED BY <1>3, <2>1, <3>1
  <2>2. CASE k \notin offset + 1 .. offset + l /\ k <= offset
    <3>1. k \in 1 .. Len(buf)
      BY <1>1, <1>2, <2>2
    <3> QED BY <1>3, <2>2, <3>1
  <2>3. CASE k \notin offset + 1 .. offset + l /\ ~(k <= offset)
    BY <1>3, <2>3
  <2> QED BY <2>1, <2>2, <2>3
<1>5. p \in [1 .. c -> Nat]
  BY <1>3, <1>4
<1>6. p \in Seq(Nat) /\ Len(p) = c
  BY <1>2, <1>5
<1>7. ASSUME NEW q \in 1 .. offset PROVE p[q] = buf[q]
  <2>1. q \in 1 .. c /\ q \notin offset + 1 .. offset + l /\ q <= Len(buf) /\ q <= offset
    BY <1>1, <1>2
  <2> QED BY <1>3, <2>1
<1>8. ASSUME NEW q \in 1 .. l PROVE p[offset + q] = bytes[q]
  <2>1. offset + q \in 1 .. c /\ offset + q \in offset + 1 .. offset + l /\ (offset + q) - offset = q
    BY <1>1, <1>2
  <2> QED BY <1>3, <2>1
<1> QED BY <1>2, <1>6, <1>7, <1>8 DEF p

-----------------------------------------------------------------------------
(* What the fields of a message may hold, and the bytes they are.          *)

Countable == {n \in Nat : n < Power[4] \/ n <= MaxSafeInteger}

Holds(f) ==
    CASE f.type = "uint" -> {<<n>> : n \in {n \in Nat : n < Power[f.width]}}
      [] f.type = "safe" -> {<<n>> : n \in 0 .. MaxSafeInteger}
      [] f.type \in {"bool", "optional"} -> {<<0>>, <<1>>}
      [] f.type = "int" -> {<<n>> : n \in {n \in Int : /\ -(Power[4] \div 2) <= n
                                                       /\ n < Power[4] \div 2}}
      [] f.type = "multiplier" -> {<<n>> : n \in {n \in Nat : n < Power[4]}}
      [] f.type = "among" -> {<<f.parts[k]>> : k \in DOMAIN f.parts}
      [] f.type = "raw" -> {v \in Seq(Nat) : Len(v) = f.width}
      [] f.type \in {"varint", "list"} -> {<<n>> : n \in Countable}
      [] f.type \in {"bytes", "utf8"} -> {v \in Seq(Nat) : Len(v) \in Countable}
      [] f.type = "payload" -> {v \in Seq(Nat) : Len(v) <= MaxPayload}

(* The fields that have no parts; strings are those of rule sets.          *)
Simple(texts) ==
    {U8, U16, U32, U64, Big64, I32, Flag, Bytes32, Varint, Bytes, NonEmpty, Payload, Multiplier}
      \cup {Among(codes) : codes \in Seq(Nat)} \cup texts

Nested(parts) == parts \cup {List(p) : p \in Seq(parts)} \cup {Optional(x) : x \in parts}

Texts == IF format = "RuleSet" THEN {Utf8} ELSE {}
Fields == Nested(Nested(Simple(Texts)))

(* What is known of a field from its type. *)
Sound(f) ==
    /\ f.type \in {"uint", "safe", "bool", "optional", "int", "multiplier", "among", "raw",
                   "varint", "list", "bytes", "utf8", "payload"}
    /\ f.type = "uint" => f.width \in 1 .. 8
    /\ f.type \in {"bool", "optional"} => f.width = 1
    /\ f.type = "safe" => f.width = 8
    /\ f.type = "multiplier" => f.width = 4
    /\ f.type = "raw" => f.width = HashBytes
    /\ f.type = "bytes" => f.width \in {0, 1}
    /\ f.type = "utf8" => f.width = 0 /\ format = "RuleSet"
    /\ f.type = "among" => f.parts \in Seq(Nat)
    /\ f.type \in {"list", "optional"} => f.parts \in Seq(Fields)

(* Fields without parts. *)
LEMMA SimpleSound ==
    ASSUME NEW f \in Simple(Texts)
    PROVE  Sound(f) /\ f.type \notin {"list", "optional"}
<1>1. CASE f \in {U8, U16, U32, U64, Big64, I32, Flag}
  BY <1>1 DEF Sound, Field, U8, U16, U32, U64, Big64, I32, Flag
<1>2. CASE f \in {Bytes32, Varint, Bytes, NonEmpty, Payload, Multiplier}
  BY <1>2 DEF Sound, Field, Bytes32, Varint, Bytes, NonEmpty, Payload, Multiplier
<1>3. CASE \E codes \in Seq(Nat) : f = Among(codes)
  BY <1>3 DEF Sound, Field, Among
<1>4. CASE f \in Texts
  BY <1>4 DEF Sound, Field, Texts, Utf8
<1> QED BY <1>1, <1>2, <1>3, <1>4 DEF Simple

(* Lists and options. *)
LEMMA NestedParts ==
    ASSUME NEW parts, NEW f \in Nested(parts), f \notin parts
    PROVE  /\ f.parts \in Seq(parts)
           /\ f.type = "list" \/ (f.type = "optional" /\ f.width = 1)
<1>1. CASE \E p \in Seq(parts) : f = List(p)
  BY <1>1 DEF List, Field
<1>2. CASE \E x \in parts : f = Optional(x)
  BY <1>2 DEF Optional, Field
<1> QED BY <1>1, <1>2 DEF Nested

(* A sequence over a set is one over a larger set. *)
LEMMA WiderSeq ==
    ASSUME NEW S, NEW T, S \subseteq T, NEW s \in Seq(S)
    PROVE  s \in Seq(T)
BY SeqMonotonic

(* Each field of a message has the width and the parts of its type. *)
LEMMA FieldsSound == ASSUME NEW f \in Fields PROVE Sound(f)
<1> DEFINE P0 == Simple(Texts)
           P1 == Nested(P0)
<1>1. P0 \subseteq P1 /\ P1 \subseteq Fields
  BY DEF Nested, Fields
<1>2. Fields = Nested(P1)
  BY DEF Fields
<1> HIDE DEF P0, P1
<1>3. CASE f \in P0
  BY <1>3, SimpleSound DEF P0
<1>4. CASE f \in P1 /\ f \notin P0
  <2>1. f.parts \in Seq(P0) /\ (f.type = "list" \/ (f.type = "optional" /\ f.width = 1))
    BY <1>4, NestedParts DEF P1
  <2>2. f.parts \in Seq(Fields)
    BY <1>1, <2>1, WiderSeq
  <2> QED BY <2>1, <2>2 DEF Sound
<1>5. CASE f \notin P1
  <2>1. f.parts \in Seq(P1) /\ (f.type = "list" \/ (f.type = "optional" /\ f.width = 1))
    BY <1>2, <1>5, NestedParts
  <2>2. f.parts \in Seq(Fields)
    BY <1>1, <2>1, WiderSeq
  <2> QED BY <2>1, <2>2 DEF Sound
<1> QED BY <1>3, <1>4, <1>5

(* Sequences over a set are closed under concatenation. *)
LEMMA Concatenated ==
    ASSUME NEW S, NEW s \in Seq(S), NEW t \in Seq(S)
    PROVE  s \o t \in Seq(S)
OBVIOUS

(* Every format is a list of such fields. *)
LEMMA FormatsSound ==
    ASSUME format \in DOMAIN Formats
    PROVE  Formats[format] \in Seq(Fields)
<1> DEFINE P0 == Simple(Texts)
           P1 == Nested(P0)
<1>1. /\ P0 \subseteq P1 /\ P1 \subseteq Fields
      /\ \A p \in Seq(P0) : List(p) \in P1
      /\ \A x \in P0 : Optional(x) \in P1
      /\ \A p \in Seq(P1) : List(p) \in Fields
      /\ \A x \in P1 : Optional(x) \in Fields
  BY DEF Nested, Fields
<1>2. /\ {U8, U16, U32, U64, Big64, I32, Flag, Bytes32, Varint, Bytes, NonEmpty, Payload, Multiplier}
           \subseteq P0
      /\ \A codes \in Seq(Nat) : Among(codes) \in P0
      /\ format = "RuleSet" => Utf8 \in P0
  BY DEF Simple, Texts
<1>3. /\ U8 \in P0 /\ U16 \in P0 /\ U32 \in P0 /\ U64 \in P0 /\ Big64 \in P0 /\ I32 \in P0 /\ Flag \in P0
      /\ Bytes32 \in P0 /\ Varint \in P0 /\ Bytes \in P0 /\ NonEmpty \in P0 /\ Payload \in P0
      /\ Multiplier \in P0
      /\ Among(<<0>>) \in P0 /\ Among(<<1>>) \in P0 /\ Among(<<2>>) \in P0 /\ Among(<<3>>) \in P0
      /\ Among(<<2, 3>>) \in P0
  <2>1. /\ <<0>> \in Seq(Nat) /\ <<1>> \in Seq(Nat) /\ <<2>> \in Seq(Nat) /\ <<3>> \in Seq(Nat)
        /\ <<2, 3>> \in Seq(Nat)
    OBVIOUS
  <2> HIDE DEF P0
  <2> QED BY <1>2, <2>1, ZenonT(30)
<1> HIDE DEF P0, P1
<1>4. \A x \in P0 : x \in P1 /\ x \in Fields
  BY <1>1
<1>5. CASE format = "RuleSet"
  <2>1. Formats[format] = RuleSetFormat
    BY <1>5 DEF Formats
  <2>2. Utf8 \in P0
    BY <1>2, <1>5
  <2>3. DefaultsFormat \in Seq(Fields)
    <3>1. <<Utf8, Utf8>> \in Seq(P0)
      BY <2>2
    <3>2. List(<<Utf8, Utf8>>) \in Fields
      BY <1>1, <3>1
    <3> QED BY <3>2 DEF DefaultsFormat
  <2>4. PenaltyFormat \in Seq(Fields) /\ SettlementFormat \in Seq(Fields)
        /\ RecoveryFormat \in Seq(Fields)
    BY <1>3, <1>4 DEF PenaltyFormat, SettlementFormat, RecoveryFormat
  <2>5. <<Among(<<1>>), Among(<<1>>), U8, U8, U64, U64, U64, U32, U32, U32>> \in Seq(Fields)
        /\ <<Among(<<2, 3>>), U8>> \in Seq(Fields)
    BY <1>3, <1>4
  <2> QED BY <2>1, <2>3, <2>4, <2>5, Concatenated DEF RuleSetFormat
<1>6. CASE format = "RoundState"
  <2>1. Formats[format] = RoundStateFormat
    BY <1>6 DEF Formats
  <2>2. PlayerFormat \in Seq(P1)
    <3>1. /\ Optional(NonEmpty) \in P1 /\ Optional(Bytes32) \in P1
          /\ List(<<Bytes>>) \in P1 /\ List(<<Bytes, Bytes>>) \in P1
      <4>1. <<Bytes>> \in Seq(P0) /\ <<Bytes, Bytes>> \in Seq(P0)
        BY <1>3
      <4> QED BY <1>1, <1>3, <4>1
    <3>2. PreferencesFormat \in Seq(P1)
      BY <3>1 DEF PreferencesFormat
    <3>3. <<Among(<<2>>), Among(<<1>>), U32, Bytes32, Bytes32, Bytes, U64, Optional(NonEmpty),
            Flag, Optional(Bytes32), Flag, Optional(Bytes32), List(<<Bytes>>)>> \in Seq(P1)
      BY <1>3, <1>4, <3>1
    <3> QED BY <3>2, <3>3, Concatenated DEF PlayerFormat
  <2>3. Optional(List(ConcealedCardFormat)) \in Fields
    <3>1. ConcealedCardFormat \in Seq(P0)
      BY <1>3 DEF ConcealedCardFormat
    <3> QED BY <1>1, <3>1
  <2>4. /\ List(PlayerFormat) \in Fields /\ Optional(U32) \in Fields /\ Optional(Bytes32) \in Fields
        /\ List(<<U8>>) \in Fields /\ List(<<Bytes32>>) \in Fields /\ List(<<Bytes>>) \in Fields
    <3>1. <<U8>> \in Seq(P1) /\ <<Bytes32>> \in Seq(P1) /\ <<Bytes>> \in Seq(P1)
      BY <1>3, <1>4
    <3> QED BY <1>1, <1>3, <1>4, <2>2, <3>1
  <2>5. VisibleCardsFormat \in Seq(Fields)
    BY <2>4 DEF VisibleCardsFormat
  <2>6. <<Among(<<1>>), Among(<<1>>), Bytes, Bytes32, Bytes32, U32, Optional(U32), List(PlayerFormat), U64>>
          \in Seq(Fields)
    BY <1>3, <1>4, <2>4
  <2>7. <<List(<<Bytes32>>), List(<<Bytes>>), Optional(U32), Optional(U32), List(<<Bytes32>>),
           Optional(Bytes32), Optional(Bytes32), Optional(List(ConcealedCardFormat)),
           Optional(Bytes32), Among(<<0>>)>> \in Seq(Fields)
    BY <1>3, <1>4, <2>3, <2>4
  <2> QED BY <2>1, <2>5, <2>6, <2>7, Concatenated DEF RoundStateFormat
<1>7. CASE format = "Tx"
  <2>1. Formats[format] = TxFormat
    BY <1>7 DEF Formats
  <2>2. InputFormat \in Seq(P1) /\ OutputFormat \in Seq(P1)
    BY <1>3, <1>4 DEF InputFormat, OutputFormat
  <2>3. List(InputFormat) \in Fields /\ List(OutputFormat) \in Fields
    BY <1>1, <2>2
  <2> QED BY <1>3, <1>4, <2>1, <2>3 DEF TxFormat
<1>8. CASE format = "Frame"
  <2>1. Formats[format] = FrameFormat
    BY <1>8 DEF Formats
  <2> QED BY <1>3, <1>4, <2>1 DEF FrameFormat
<1>9. CASE format = "Counts"
  <2>1. Formats[format] = CountsFormat
    BY <1>9 DEF Formats
  <2> QED BY <1>3, <1>4, <2>1 DEF CountsFormat
<1>10. format \in {"RuleSet", "RoundState", "Tx", "Frame", "Counts"}
  BY DEF Formats
<1> QED BY <1>5, <1>6, <1>7, <1>8, <1>9, <1>10

(* The elements of a list or an option are such fields again. *)
LEMMA ElementsSound ==
    ASSUME NEW f \in Fields, NEW v \in Holds(f)
    PROVE  ElementFields(f, v) \in Seq(Fields)
<1>1. Sound(f)
  BY FieldsSound
<1>2. CASE f.type \notin {"list", "optional"}
  BY <1>2 DEF ElementFields
<1>3. CASE f.type \in {"list", "optional"}
  <2> DEFINE p == f.parts
             l == Len(p)
             n == v[1]
             m == n * l
  <2>1. p \in Seq(Fields) /\ l \in Nat
    BY <1>1, <1>3 DEF Sound
  <2>2. n \in Nat
    <3>1. CASE f.type = "optional"
      <4>1. v \in {<<0>>, <<1>>}
        BY <3>1 DEF Holds
      <4> QED BY <4>1
    <3>2. CASE f.type = "list"
      <4>1. v \in {<<x>> : x \in Countable}
        BY <3>2 DEF Holds
      <4> QED BY <4>1 DEF Countable
    <3> QED BY <1>3, <3>1, <3>2
  <2>3. ElementFields(f, v) = [k \in 1 .. m |-> p[((k - 1) % l) + 1]]
    BY <1>3 DEF ElementFields
  <2> HIDE DEF n, l
  <2>4. m \in Nat /\ (l = 0 => m = 0)
    BY <2>1, <2>2, Closed
  <2> HIDE DEF m
  <2>5. \A k \in 1 .. m : p[((k - 1) % l) + 1] \in Fields
    <3> SUFFICES ASSUME NEW k \in 1 .. m PROVE p[((k - 1) % l) + 1] \in Fields
      OBVIOUS
    <3>1. l > 0 /\ k - 1 \in Nat
      BY <2>1, <2>4
    <3>2. (k - 1) % l \in 0 .. l - 1
      BY <2>1, <3>1
    <3>3. ((k - 1) % l) + 1 \in 1 .. l
      BY <2>1, <3>2
    <3> HIDE DEF p
    <3> QED BY <2>1, <3>3 DEF l
  <2>6. ElementFields(f, v) \in [1 .. m -> Fields]
    <3> HIDE DEF p
    <3> QED BY <2>3, <2>5
  <2> QED BY <2>4, <2>6
<1> QED BY <1>2, <1>3

(* Zeros(n) are n bytes. *)
LEMMA ZerosSeq ==
    ASSUME NEW n \in Nat
    PROVE  Zeros(n) \in Seq(Nat) /\ Len(Zeros(n)) = n
<1>1. Zeros(n) \in [1 .. n -> Nat]
  BY DEF Zeros
<1> QED BY <1>1

(* The values the writer takes at the limits of a field are among them. *)
LEMMA LimitsHeld ==
    ASSUME NEW f \in Fields, NEW k \in DOMAIN Limits(f), Writable(f, Limits(f)[k])
    PROVE  Limits(f)[k] \in Holds(f)
<1> DEFINE v == Limits(f)[k]
<1>1. Sound(f)
  BY FieldsSound
<1>2. CASE f.type = "uint"
  <2>1. Limits(f) = <<<<0>>, <<Power[f.width - 1]>>, <<Power[f.width] - 1>>>>
    BY <1>2 DEF Limits
  <2>2. v \in {<<0>>, <<Power[f.width - 1]>>, <<Power[f.width] - 1>>}
    BY <2>1
  <2>3. f.width \in 1 .. 8
    BY <1>1, <1>2 DEF Sound
  <2>4. /\ Power[f.width - 1] \in Nat /\ Power[f.width] \in Nat
        /\ Power[f.width] > Power[f.width - 1] /\ Power[f.width] >= 1
    <3>1. f.width - 1 \in 0 .. 8 /\ f.width \in 0 .. 8
      BY <2>3
    <3> QED BY <2>3, <3>1, PowersGrow
  <2>5. /\ 0 \in Nat /\ 0 < Power[f.width] /\ Power[f.width] - 1 \in Nat
        /\ Power[f.width] - 1 < Power[f.width]
    BY <2>4
  <2>6. Holds(f) = {<<n>> : n \in {n \in Nat : n < Power[f.width]}}
    BY <1>2 DEF Holds
  <2> HIDE DEF v
  <2>7. v \in Holds(f)
    BY <2>2, <2>4, <2>5, <2>6, ZenonT(30)
  <2> QED BY <2>7 DEF v
<1>3. CASE f.type = "safe"
  <2>1. Limits(f) = <<<<0>>, <<Power[4]>>, <<MaxSafeInteger>>, <<MaxSafeInteger + 1>>>>
    BY <1>3 DEF Limits
  <2>2. v[1] <= MaxSafeInteger
    BY <1>3 DEF Writable
  <2>3. v \in {<<0>>, <<Power[4]>>, <<MaxSafeInteger>>, <<MaxSafeInteger + 1>>}
    BY <2>1
  <2>4. Holds(f) = {<<n>> : n \in 0 .. MaxSafeInteger}
    BY <1>3 DEF Holds
  <2>5. MaxSafeInteger \in Nat /\ Power[4] \in Nat
    BY CodecAssumption, PowersGrow
  <2> HIDE DEF v
  <2>6. v \in Holds(f)
    BY <2>2, <2>3, <2>4, <2>5
  <2> QED BY <2>6 DEF v
<1>4. CASE f.type = "int"
  <2>1. Limits(f) = <<<<0>>, <<-1>>, <<Power[4] \div 2 - 1>>>>
    BY <1>4 DEF Limits
  <2>2. v \in {<<0>>, <<-1>>, <<Power[4] \div 2 - 1>>}
    BY <2>1
  <2>3. Power[4] \div 2 \in Nat /\ Power[4] \div 2 >= 1
    BY PowersGrow
  <2>4. Holds(f) = {<<n>> : n \in {n \in Int : -(Power[4] \div 2) <= n /\ n < Power[4] \div 2}}
    BY <1>4 DEF Holds
  <2> HIDE DEF v
  <2>5. v \in Holds(f)
    <3> DEFINE h == Power[4] \div 2
    <3>1. h \in Nat /\ h >= 1 /\ Holds(f) = {<<n>> : n \in {n \in Int : -h <= n /\ n < h}}
          /\ v \in {<<0>>, <<-1>>, <<h - 1>>}
      BY <2>2, <2>3, <2>4
    <3> HIDE DEF h
    <3> QED BY <3>1
  <2> QED BY <2>5 DEF v
<1>5. CASE f.type \in {"bool", "optional"}
  BY <1>5 DEF Limits, Holds
<1>6. CASE f.type = "multiplier"
  <2>1. Limits(f) = <<<<0>>, <<Power[4] \div 2 - 1>>>>
    BY <1>6 DEF Limits
  <2>2. v \in {<<0>>, <<Power[4] \div 2 - 1>>}
    BY <2>1
  <2>3. Power[4] \in Nat /\ Power[4] >= 1
        /\ Power[4] \div 2 - 1 \in Nat /\ Power[4] \div 2 - 1 < Power[4]
    BY PowersGrow
  <2>4. Holds(f) = {<<n>> : n \in {n \in Nat : n < Power[4]}}
    BY <1>6 DEF Holds
  <2> HIDE DEF v
  <2>5. v \in Holds(f)
    BY <2>2, <2>3, <2>4
  <2> QED BY <2>5 DEF v
<1>7. CASE f.type = "among"
  BY <1>7 DEF Limits, Holds
<1>8. CASE f.type = "raw"
  <2>1. Limits(f) = <<Zeros(f.width), <<B - 1>> \o Zeros(f.width - 1)>>
    BY <1>8 DEF Limits
  <2>2. v \in {Zeros(f.width), <<B - 1>> \o Zeros(f.width - 1)}
    BY <2>1
  <2>3. f.width \in Nat /\ f.width - 1 \in Nat /\ B - 1 \in Nat
    BY <1>1, <1>8, CodecAssumption DEF Sound
  <2>4. /\ Zeros(f.width) \in Seq(Nat) /\ Len(Zeros(f.width)) = f.width
        /\ Zeros(f.width - 1) \in Seq(Nat) /\ Len(Zeros(f.width - 1)) = f.width - 1
        /\ <<B - 1>> \in Seq(Nat) /\ Len(<<B - 1>>) = 1
    <3>1. <<B - 1>> \in Seq(Nat) /\ Len(<<B - 1>>) = 1
      BY <2>3
    <3> QED BY <2>3, <3>1, ZerosSeq, ZenonT(30)
  <2>5. /\ <<B - 1>> \o Zeros(f.width - 1) \in Seq(Nat)
        /\ Len(<<B - 1>> \o Zeros(f.width - 1)) = f.width
    BY <2>3, <2>4
  <2>6. Holds(f) = {x \in Seq(Nat) : Len(x) = f.width}
    BY <1>8 DEF Holds
  <2> QED BY <2>2, <2>4, <2>5, <2>6
<1>9. CASE f.type = "varint"
  <2>1. Limits(f) = <<<<0>>, <<B - 4>>, <<B - 3>>, <<B - 1>>, <<Power[2] - 1>>, <<Power[2]>>,
                      <<Power[4] - 1>>, <<Power[4]>>, <<MaxSafeInteger>>, <<MaxSafeInteger + 1>>>>
    BY <1>9 DEF Limits
  <2>2. v[1] <= MaxSafeInteger
    BY <1>9 DEF Writable
  <2>3. v \in {<<0>>, <<B - 4>>, <<B - 3>>, <<B - 1>>, <<Power[2] - 1>>, <<Power[2]>>,
               <<Power[4] - 1>>, <<Power[4]>>, <<MaxSafeInteger>>, <<MaxSafeInteger + 1>>}
    BY <2>1
  <2>4. /\ B - 4 \in Nat /\ B - 3 \in Nat /\ B - 1 \in Nat /\ Power[2] - 1 \in Nat /\ Power[2] \in Nat
        /\ Power[4] - 1 \in Nat /\ Power[4] \in Nat /\ MaxSafeInteger \in Nat /\ MaxSafeInteger + 1 \in Nat /\ 0 \in Nat
    BY PowersGrow, CodecAssumption
  <2> HIDE DEF v
  <2>5. \E n \in Nat : v = <<n>>
    BY <2>3, <2>4
  <2>6. Holds(f) = {<<n>> : n \in Countable}
    BY <1>9 DEF Holds
  <2>7. v \in Holds(f)
    BY <2>2, <2>5, <2>6 DEF Countable
  <2> QED BY <2>7 DEF v
<1>10. CASE f.type = "list"
  <2>1. v \in {<<0>>, <<1>>, <<2>>}
    BY <1>10 DEF Limits
  <2>2. 0 \in Countable /\ 1 \in Countable /\ 2 \in Countable
    BY PowersGrow DEF Countable
  <2> QED BY <1>10, <2>1, <2>2 DEF Holds
<1>11. CASE f.type \in {"bytes", "utf8"}
  <2> DEFINE all == <<<< >>, <<B - 1>>, Zeros(B - 3), Zeros(Power[2])>>
             w == f.width
  <2>1. Limits(f) = SubSeq(all, w + 1, 4)
    BY <1>11 DEF Limits
  <2>2. w \in {0, 1}
    BY <1>1, <1>11 DEF Sound
  <2>3. B - 3 \in Nat /\ Power[2] \in Nat /\ B - 1 \in Nat
        /\ B - 3 < Power[4] /\ Power[2] < Power[4] /\ 0 < Power[4] /\ 1 < Power[4]
    BY PowersGrow
  <2>4. /\ Zeros(B - 3) \in Seq(Nat) /\ Len(Zeros(B - 3)) = B - 3
        /\ Zeros(Power[2]) \in Seq(Nat) /\ Len(Zeros(Power[2])) = Power[2]
    BY <2>3, ZerosSeq
  <2> DEFINE S == {x \in Seq(Nat) : Len(x) \in Countable}
  <2>5. << >> \in S /\ <<B - 1>> \in S /\ Zeros(B - 3) \in S /\ Zeros(Power[2]) \in S
    BY <2>3, <2>4 DEF Countable
  <2> HIDE DEF S, w
  <2>6. all \in Seq(S) /\ Len(all) = 4
    BY <2>5
  <2> HIDE DEF all
  <2>7. Limits(f) \in Seq(S)
    <3>1. w + 1 \in Int /\ 4 \in Int /\ \A q \in w + 1 .. 4 : all[q] \in S
      <4>1. w + 1 \in Int /\ \A q \in w + 1 .. 4 : q \in 1 .. 4
        BY <2>2
      <4>2. \A q \in 1 .. 4 : all[q] \in S
        BY <2>6, ElementOfSeq, ZenonT(30)
      <4> QED BY <4>1, <4>2
    <3>2. SubSeq(all, w + 1, 4) \in Seq(S)
      BY <3>1, SubSeqProperties, SMTT(30)
    <3> QED BY <2>1, <3>2
  <2>8. v \in S
    BY <2>7
  <2>9. Holds(f) = S
    BY <1>11 DEF Holds, S
  <2> QED BY <2>8, <2>9
<1>12. CASE f.type = "payload"
  <2>1. Limits(f) = <<<< >>, <<B - 1>>, Zeros(MaxPayload), Zeros(MaxPayload + 1)>>
    BY <1>12 DEF Limits
  <2>2. v \in {<< >>, <<B - 1>>, Zeros(MaxPayload), Zeros(MaxPayload + 1)}
    BY <2>1
  <2>3. MaxPayload \in Nat /\ MaxPayload + 1 \in Nat /\ B - 1 \in Nat
    BY CodecAssumption
  <2>4. Zeros(MaxPayload) \in Seq(Nat) /\ Zeros(MaxPayload + 1) \in Seq(Nat)
    BY <2>3, ZerosSeq
  <2>5. Len(v) <= MaxPayload
    BY <1>12 DEF Writable
  <2>6. v \in Seq(Nat)
    <3>1. << >> \in Seq(Nat) /\ <<B - 1>> \in Seq(Nat)
      BY <2>3
    <3> HIDE DEF v
    <3> QED BY <2>2, <2>4, <3>1, ZenonT(30)
  <2> QED BY <1>12, <2>5, <2>6 DEF Holds
<1> QED BY <1>1, <1>2, <1>3, <1>4, <1>5, <1>6, <1>7, <1>8, <1>9, <1>10, <1>11, <1>12 DEF Sound

(* A varint is written in bytes. *)
LEMMA VarintSeq ==
    ASSUME NEW n \in Nat
    PROVE  VarintBytes(n) \in Seq(Nat)
<1>1. B \in Nat /\ B - 1 \in Nat /\ B - 2 \in Nat /\ B - 3 \in Nat
  BY CodecAssumption
<1>2. \A w \in Nat : LE(n, w) \in Seq(Nat)
  <2>1. 0 .. B - 1 \subseteq Nat
    BY <1>1
  <2> QED BY <2>1, LEBytes, WiderSeq
<1>3. /\ <<n>> \in Seq(Nat) /\ <<B - 1>> \in Seq(Nat) /\ <<B - 2>> \in Seq(Nat)
      /\ <<B - 3>> \in Seq(Nat)
  BY <1>1
<1>4. /\ <<B - 3>> \o LE(n, 2) \in Seq(Nat) /\ <<B - 2>> \o LE(n, 4) \in Seq(Nat)
      /\ <<B - 1>> \o LE(n, 8) \in Seq(Nat)
  BY <1>2, <1>3, Concatenated
<1> QED BY <1>3, <1>4, ZenonT(30) DEF VarintBytes

(* LE(n, w) is a sequence of length w. *)
LEMMA LESeq ==
    ASSUME NEW n \in Nat, NEW w \in Nat
    PROVE  LE(n, w) \in Seq(Nat) /\ Len(LE(n, w)) = w
<1>1. 0 .. B - 1 \subseteq Nat
  BY CodecAssumption
<1> QED BY <1>1, LEBytes, WiderSeq

-----------------------------------------------------------------------------
(* Reading. *)

(* The bytes lie at this place of what was written. *)
Lies(bytes, at) ==
    /\ at \in Nat /\ offset \in Nat /\ at + Len(bytes) <= offset
    /\ \A q \in 1 .. Len(bytes) : buf[at + q] = bytes[q]

(* As far as the message goes, s is the message. *)
Carries(s) == s \in Seq(Nat) /\ \A q \in 1 .. Len(s) : q <= offset => s[q] = buf[q]

Arrived == behind \in Seq(Nat) /\ Carries(data) /\ Carries(data \o behind)

(* rs has no result but this one, which is there if the message is whole   *)
(* and lies within what arrived, except in a transaction.                  *)
Yields(rs, x, end) ==
    /\ rs \subseteq {[v |-> x, pos |-> end]}
    /\ rs # {} /\ format # "Tx" => end <= Len(data)
    /\ offset <= Len(data) => rs # {}

(* Where two sequences lie, each of them does. *)
LEMMA LiesParts ==
    ASSUME NEW a \in Seq(Nat), NEW b \in Seq(Nat), NEW at, Lies(a \o b, at)
    PROVE  /\ Lies(a, at) /\ Lies(b, at + Len(a)) /\ at \in Nat
           /\ Len(a \o b) = Len(a) + Len(b) /\ at + Len(a) <= offset
<1> DEFINE l == Len(a)
           m == Len(b)
           c == a \o b
<1>1. l \in Nat /\ m \in Nat /\ Len(c) = l + m
  OBVIOUS
<1>2. /\ \A q \in 1 .. l : c[q] = a[q]
      /\ \A q \in 1 .. m : c[l + q] = b[q]
  OBVIOUS
<1>3. /\ at \in Nat /\ offset \in Nat /\ at + (l + m) <= offset
      /\ \A q \in 1 .. l + m : buf[at + q] = c[q]
  BY <1>1 DEF Lies
<1> HIDE DEF l, m, c
<1>4. at + l <= offset /\ (at + l) + m <= offset /\ at + l \in Nat
  BY <1>1, <1>3
<1>5. ASSUME NEW q \in 1 .. l PROVE buf[at + q] = a[q]
  <2>1. q \in 1 .. l + m
    BY <1>1
  <2> QED BY <1>2, <1>3, <2>1
<1>6. ASSUME NEW q \in 1 .. m PROVE buf[(at + l) + q] = b[q]
  <2>1. l + q \in 1 .. l + m /\ at + (l + q) = (at + l) + q
    BY <1>1, <1>3
  <2> QED BY <1>2, <1>3, <2>1
<1>7. Lies(a, at)
  BY <1>3, <1>4, <1>5 DEF Lies, l
<1>8. Lies(b, at + l)
  BY <1>3, <1>4, <1>6 DEF Lies, m
<1> QED BY <1>1, <1>3, <1>4, <1>7, <1>8 DEF l, m, c

(* Take gets the bytes that lie there, or nothing. *)
LEMMA TakeLies ==
    ASSUME NEW s, Carries(s), NEW bytes \in Seq(Nat), NEW n \in Nat, Len(bytes) = n,
           NEW at, Lies(bytes, at)
    PROVE  Take(n, at, s) = IF at + n <= Len(s) THEN {[v |-> bytes, pos |-> at + n]} ELSE {}
<1>1. at \in Nat /\ offset \in Nat /\ at + n <= offset /\ \A q \in 1 .. n : buf[at + q] = bytes[q]
  BY DEF Lies
<1>2. CASE at + n <= Len(s)
  <2> DEFINE t == SubSeq(s, at + 1, at + n)
  <2>1. s \in Seq(Nat) /\ Len(s) \in Nat
    BY DEF Carries
  <2>2. \A q \in at + 1 .. at + n : s[q] \in Nat
    <3>1. \A q \in at + 1 .. at + n : q \in 1 .. Len(s)
      BY <1>1, <1>2, <2>1
    <3> QED BY <2>1, <3>1, ElementOfSeq, ZenonT(30)
  <2>3. at + 1 \in Int /\ at + n \in Int
    BY <1>1
  <2>4. /\ t \in Seq(Nat)
        /\ Len(t) = IF at + 1 <= at + n THEN (at + n) - (at + 1) + 1 ELSE 0
        /\ \A q \in 1 .. (at + n) - (at + 1) + 1 : t[q] = s[at + 1 + q - 1]
    BY <2>2, <2>3, SubSeqProperties
  <2> HIDE DEF t
  <2>5. Len(t) = n /\ (at + n) - (at + 1) + 1 = n
    BY <1>1, <2>4
  <2>6. \A q \in 1 .. n : t[q] = bytes[q]
    <3> SUFFICES ASSUME NEW q \in 1 .. n PROVE t[q] = bytes[q]
      OBVIOUS
    <3>1. at + 1 + q - 1 = at + q /\ at + q \in 1 .. Len(s) /\ at + q <= offset
      BY <1>1, <1>2, <2>1
    <3>2. t[q] = s[at + q]
      BY <2>4, <2>5, <3>1
    <3>3. s[at + q] = buf[at + q]
      BY <3>1 DEF Carries
    <3> QED BY <1>1, <3>2, <3>3
  <2>7. t = bytes
    BY <2>4, <2>5, <2>6, SeqEqual
  <2> QED BY <1>2, <2>7 DEF Take, t
<1>3. CASE ~(at + n <= Len(s))
  BY <1>3 DEF Take
<1> QED BY <1>2, <1>3

(* The same, from what arrived. *)
LEMMA TakeYields ==
    ASSUME Arrived, NEW bytes \in Seq(Nat), NEW n \in Nat, Len(bytes) = n,
           NEW at, Lies(bytes, at)
    PROVE  Yields(Take(n, at, data), bytes, at + n)
<1>1. /\ at \in Nat /\ offset \in Nat /\ at + n <= offset
      /\ Carries(data) /\ Len(data) \in Nat
  BY DEF Lies, Arrived, Carries
<1>2. Take(n, at, data) = IF at + n <= Len(data) THEN {[v |-> bytes, pos |-> at + n]} ELSE {}
  BY <1>1, TakeLies
<1>3. offset <= Len(data) => at + n <= Len(data)
  BY <1>1
<1> QED BY <1>2, <1>3 DEF Yields

(* readUint reads w bytes as a number. *)
LEMMA ReadsDigits ==
    ASSUME Arrived, NEW bytes \in Seq(Nat), NEW w \in Nat, Len(bytes) = w,
           NEW at, Lies(bytes, at)
    PROVE  Yields(readUint(w, at), <<Value(bytes)>>, at + w)
<1> DEFINE s == IF w = 1 THEN data ELSE Reach
<1>1. /\ at \in Nat /\ offset \in Nat /\ at + w <= offset
      /\ data \in Seq(Nat) /\ behind \in Seq(Nat) /\ Len(data) \in Nat
  BY DEF Lies, Arrived, Carries
<1>2. Carries(s)
  BY DEF Reach, Arrived
<1>3. Len(s) \in Nat /\ Len(s) >= Len(data) /\ (format # "Tx" => s = data)
  <2>1. Len(data \o behind) = Len(data) + Len(behind) /\ Len(behind) \in Nat
    BY <1>1
  <2> QED BY <1>1, <2>1 DEF Reach
<1>4. readUint(w, at) = {[v |-> <<Value(r.v)>>, pos |-> r.pos] : r \in Take(w, at, s)}
  BY DEF readUint
<1> HIDE DEF s
<1>5. Take(w, at, s) = IF at + w <= Len(s) THEN {[v |-> bytes, pos |-> at + w]} ELSE {}
  BY <1>2, TakeLies
<1>6. CASE at + w <= Len(s)
  <2>1. readUint(w, at) = {[v |-> <<Value(bytes)>>, pos |-> at + w]}
    BY <1>4, <1>5, <1>6
  <2> QED BY <1>3, <1>6, <2>1 DEF Yields
<1>7. CASE ~(at + w <= Len(s))
  <2>1. readUint(w, at) = {}
    BY <1>4, <1>5, <1>7
  <2>2. ~(offset <= Len(data))
    BY <1>1, <1>3, <1>7
  <2> QED BY <2>1, <2>2 DEF Yields
<1> QED BY <1>6, <1>7

(* readUint gets back the number that LE wrote. *)
LEMMA ReadsNumber ==
    ASSUME Arrived, NEW w \in 1 .. 8, NEW n \in Nat, n < Power[w], NEW at, Lies(LE(n, w), at)
    PROVE  Yields(readUint(w, at), <<n>>, at + w)
<1>1. w \in Nat /\ LE(n, w) \in Seq(Nat) /\ Len(LE(n, w)) = w
  BY LESeq
<1>2. Value(LE(n, w)) = n
  BY NumberRoundTrip
<1>3. Yields(readUint(w, at), <<Value(LE(n, w))>>, at + w)
  BY <1>1, ReadsDigits
<1> QED BY <1>2, <1>3

(* readUint gets back a single byte. *)
LEMMA ReadsByte ==
    ASSUME Arrived, NEW n \in Nat, NEW at, Lies(<<n>>, at)
    PROVE  Yields(readUint(1, at), <<n>>, at + 1)
<1>1. <<n>> \in Seq(Nat) /\ Len(<<n>>) = 1
  OBVIOUS
<1>2. Yields(readUint(1, at), <<Value(<<n>>)>>, at + 1)
  BY <1>1, ReadsDigits
<1> QED BY <1>2, OneDigit

(* One reader after the other. *)
LEMMA Chained ==
    ASSUME NEW rs, NEW qs, NEW us, NEW x, NEW y, NEW mid, NEW end,
           Yields(rs, x, mid), Yields(qs, y, end), us = IF rs = {} THEN {} ELSE qs
    PROVE  Yields(us, y, end)
BY DEF Yields

(* readU64LE refuses no safe number. *)
LEMMA SafeNumbers ==
    ASSUME NEW n \in Nat, n <= MaxSafeInteger, NEW at, NEW end, Yields(readUint(8, at), <<n>>, end)
    PROVE  readU64LE(at) = readUint(8, at)
BY DEF readU64LE, Yields

(* readVarint reads on as the first byte says. *)
LEMMA VarintForms ==
    ASSUME NEW at, NEW d \in Nat, NEW p, readUint(1, at) \subseteq {[v |-> <<d>>, pos |-> p]}
    PROVE  /\ d < B - 3 => readVarint(at) = readUint(1, at)
           /\ d = B - 3 => readVarint(at) = IF readUint(1, at) = {} THEN {} ELSE readUint(2, p)
           /\ d = B - 2 => readVarint(at) = IF readUint(1, at) = {} THEN {} ELSE readUint(4, p)
           /\ d = B - 1 => readVarint(at) = IF readUint(1, at) = {} THEN {}
                                           ELSE IF format = "Tx" THEN readUint(8, p) ELSE readU64LE(p)
<1> DEFINE rs == readUint(1, at)
           r0 == [v |-> <<d>>, pos |-> p]
           Rest(r) == CASE r.v[1] < B - 3 -> {r}
                        [] r.v[1] = B - 3 -> readUint(2, r.pos)
                        [] r.v[1] = B - 2 -> readUint(4, r.pos)
                        [] r.v[1] = B - 1 -> IF format = "Tx" THEN readUint(8, r.pos)
                                             ELSE readU64LE(r.pos)
<1>1. readVarint(at) = UNION {Rest(r) : r \in rs}
  BY DEF readVarint
<1>2. rs = {} \/ rs = {r0}
  OBVIOUS
<1>3. r0.v[1] = d /\ r0.pos = p
  OBVIOUS
<1>4. B \in Nat
  BY CodecAssumption
<1>5. /\ d < B - 3 => Rest(r0) = {r0}
      /\ d = B - 3 => Rest(r0) = readUint(2, p)
      /\ d = B - 2 => Rest(r0) = readUint(4, p)
      /\ d = B - 1 => Rest(r0) = IF format = "Tx" THEN readUint(8, p) ELSE readU64LE(p)
  <2> HIDE DEF r0
  <2> QED BY <1>3, <1>4
<1> HIDE DEF Rest, rs, r0
<1>6. CASE rs = {}
  <2>1. readVarint(at) = {}
    BY <1>1, <1>6
  <2> QED BY <1>6, <2>1 DEF rs
<1>7. CASE rs = {r0}
  <2>1. readVarint(at) = Rest(r0) /\ rs # {}
    BY <1>1, <1>7
  <2> QED BY <1>5, <1>7, <2>1 DEF rs
<1> QED BY <1>2, <1>6, <1>7

(* readVarint gets back the number that VarintBytes wrote. *)
LEMMA ReadsVarint ==
    ASSUME Arrived, NEW n \in Countable, NEW at, Lies(VarintBytes(n), at)
    PROVE  Yields(readVarint(at), <<n>>, at + Len(VarintBytes(n)))
<1> DEFINE bytes == VarintBytes(n)
           rs == readUint(1, at)
<1>1. n \in Nat /\ (n < Power[4] \/ n <= MaxSafeInteger) /\ MaxSafeInteger \in Nat /\ MaxSafeInteger < Power[8]
  BY CodecAssumption DEF Countable
<1>2. B - 3 \in Nat /\ B - 2 \in Nat /\ B - 1 \in Nat
  BY CodecAssumption
<1>3. Power[2] \in Nat /\ Power[4] \in Nat /\ Power[8] \in Nat /\ Power[4] < Power[8]
  BY PowersGrow
<1>4. \A p : Yields(rs, <<p>>, at + 1) => rs \subseteq {[v |-> <<p>>, pos |-> at + 1]}
  BY DEF Yields
<1>5. CASE n < B - 3
  <2>1. bytes = <<n>> /\ Len(bytes) = 1
    BY <1>5 DEF VarintBytes
  <2>2. Yields(rs, <<n>>, at + 1)
    BY <1>1, <2>1, ReadsByte
  <2>3. readVarint(at) = rs
    BY <1>1, <1>4, <1>5, <2>2, VarintForms
  <2> QED BY <2>1, <2>2, <2>3
<1>6. ASSUME NEW d \in Nat, NEW w \in 1 .. 8, n < Power[w], bytes = <<d>> \o LE(n, w), NEW qs,
             Yields(rs, <<d>>, at + 1) =>
               readVarint(at) = IF rs = {} THEN {} ELSE qs,
             Yields(readUint(w, at + 1), <<n>>, (at + 1) + w) => qs = readUint(w, at + 1)
      PROVE  Yields(readVarint(at), <<n>>, at + Len(bytes))
  <2>1. /\ <<d>> \in Seq(Nat) /\ Len(<<d>>) = 1
        /\ LE(n, w) \in Seq(Nat) /\ Len(LE(n, w)) = w
    <3>1. w \in Nat /\ <<d>> \in Seq(Nat) /\ Len(<<d>>) = 1
      OBVIOUS
    <3> QED BY <1>1, <3>1, LESeq, ZenonT(30)
  <2>2. Lies(<<d>> \o LE(n, w), at)
    BY <1>6
  <2>3. /\ Lies(<<d>>, at) /\ Lies(LE(n, w), at + 1) /\ at \in Nat
        /\ Len(<<d>> \o LE(n, w)) = 1 + w
    BY <2>1, <2>2, LiesParts
  <2>4. Yields(rs, <<d>>, at + 1)
    BY <2>3, ReadsByte
  <2>5. Yields(readUint(w, at + 1), <<n>>, (at + 1) + w)
    BY <1>1, <1>6, <2>3, ReadsNumber
  <2>6. qs = readUint(w, at + 1) /\ readVarint(at) = IF rs = {} THEN {} ELSE qs
    BY <1>6, <2>4, <2>5
  <2>7. Yields(readVarint(at), <<n>>, (at + 1) + w)
    BY <2>4, <2>5, <2>6, Chained
  <2>8. at + Len(bytes) = (at + 1) + w
    BY <1>6, <2>3
  <2> QED BY <2>7, <2>8
<1>7. CASE ~(n < B - 3) /\ n < Power[2]
  <2>1. bytes = <<B - 3>> \o LE(n, 2)
    BY <1>7 DEF VarintBytes
  <2>2. Yields(rs, <<B - 3>>, at + 1) =>
          readVarint(at) = IF rs = {} THEN {} ELSE readUint(2, at + 1)
    BY <1>2, <1>4, VarintForms
  <2>3. 2 \in 1 .. 8
    OBVIOUS
  <2> HIDE DEF bytes, rs
  <2>4. Yields(readVarint(at), <<n>>, at + Len(bytes))
    BY <1>2, <1>6, <1>7, <2>1, <2>2, <2>3, ZenonT(30)
  <2> QED BY <2>4 DEF bytes
<1>8. CASE ~(n < B - 3) /\ ~(n < Power[2]) /\ n < Power[4]
  <2>1. bytes = <<B - 2>> \o LE(n, 4)
    BY <1>8 DEF VarintBytes
  <2>2. Yields(rs, <<B - 2>>, at + 1) =>
          readVarint(at) = IF rs = {} THEN {} ELSE readUint(4, at + 1)
    BY <1>2, <1>4, VarintForms
  <2>3. 4 \in 1 .. 8
    OBVIOUS
  <2> HIDE DEF bytes, rs
  <2>4. Yields(readVarint(at), <<n>>, at + Len(bytes))
    BY <1>2, <1>6, <1>8, <2>1, <2>2, <2>3, ZenonT(30)
  <2> QED BY <2>4 DEF bytes
<1>9. CASE ~(n < B - 3) /\ ~(n < Power[2]) /\ ~(n < Power[4])
  <2> DEFINE qs == IF format = "Tx" THEN readUint(8, at + 1) ELSE readU64LE(at + 1)
  <2>1. bytes = <<B - 1>> \o LE(n, 8)
    BY <1>9 DEF VarintBytes
  <2>2. Yields(rs, <<B - 1>>, at + 1) => readVarint(at) = IF rs = {} THEN {} ELSE qs
    BY <1>2, <1>4, VarintForms
  <2>3. n <= MaxSafeInteger /\ n < Power[8] /\ 8 \in 1 .. 8
    BY <1>1, <1>3, <1>9
  <2>4. Yields(readUint(8, at + 1), <<n>>, (at + 1) + 8) => qs = readUint(8, at + 1)
    BY <1>1, <2>3, SafeNumbers
  <2> HIDE DEF bytes, rs, qs
  <2>5. Yields(readVarint(at), <<n>>, at + Len(bytes))
    BY <1>2, <1>6, <2>1, <2>2, <2>3, <2>4, ZenonT(30)
  <2> QED BY <2>5 DEF bytes
<1> QED BY <1>5, <1>7, <1>8, <1>9

(* A string within the cap is read; a longer one is refused. *)
LEMMA ReadsBytes ==
    ASSUME Arrived, NEW x \in Seq(Nat), Len(x) \in Countable, NEW cap, NEW at,
           Lies(VarintBytes(Len(x)) \o x, at)
    PROVE  /\ Len(x) <= cap =>
                Yields(readBytes(cap, at), x, at + Len(VarintBytes(Len(x)) \o x))
           /\ ~(Len(x) <= cap) => readBytes(cap, at) = {}
<1> DEFINE l == Len(x)
           bytes == VarintBytes(l)
           rs == readVarint(at)
           mid == at + Len(bytes)
           r0 == [v |-> <<l>>, pos |-> mid]
<1>1. l \in Nat /\ bytes \in Seq(Nat)
  BY VarintSeq
<1>2. /\ Lies(bytes, at) /\ Lies(x, mid) /\ at \in Nat
      /\ Len(bytes \o x) = Len(bytes) + l /\ Len(bytes) \in Nat
  <2> HIDE DEF bytes
  <2> QED BY <1>1, LiesParts DEF bytes
<1>3. Yields(rs, <<l>>, mid)
  BY <1>2, ReadsVarint
<1>4. Yields(Take(l, mid, data), x, mid + l)
  BY <1>1, <1>2, TakeYields
<1>5. readBytes(cap, at) = UNION {Take(r.v[1], r.pos, data) : r \in {r \in rs : r.v[1] <= cap}}
  BY DEF readBytes
<1>6. rs = {} \/ rs = {r0}
  BY <1>3 DEF Yields
<1>7. r0.v[1] = l /\ r0.pos = mid
  OBVIOUS
<1>8. at + Len(bytes \o x) = mid + l
  BY <1>1, <1>2
<1> HIDE DEF l, bytes, rs, mid, r0
<1>9. l <= cap => readBytes(cap, at) = IF rs = {} THEN {} ELSE Take(l, mid, data)
  <2> SUFFICES ASSUME l <= cap
               PROVE  readBytes(cap, at) = IF rs = {} THEN {} ELSE Take(l, mid, data)
    OBVIOUS
  <2>1. {r \in rs : r.v[1] <= cap} = rs
    BY <1>6, <1>7
  <2> QED BY <1>5, <1>6, <1>7, <2>1
<1>10. ~(l <= cap) => readBytes(cap, at) = {}
  <2> SUFFICES ASSUME ~(l <= cap) PROVE readBytes(cap, at) = {}
    OBVIOUS
  <2>1. {r \in rs : r.v[1] <= cap} = {}
    BY <1>6, <1>7
  <2> QED BY <1>5, <2>1
<1>11. l <= cap => Yields(readBytes(cap, at), x, at + Len(bytes \o x))
  BY <1>3, <1>4, <1>8, <1>9, Chained
<1> QED BY <1>10, <1>11 DEF l, bytes

(* A signed number and its form modulo the width. *)
LEMMA Signed ==
    ASSUME NEW n \in Int, -(Power[4] \div 2) <= n, n < Power[4] \div 2
    PROVE  LET m == IF n < 0 THEN n + Power[4] ELSE n
           IN  /\ m \in Nat /\ m < Power[4]
               /\ n = IF m < Power[4] \div 2 THEN m ELSE m - Power[4]
<1>1. Power[4] \in Nat /\ Power[4] \div 2 \in Nat /\ Power[4] >= (Power[4] \div 2) + (Power[4] \div 2)
      /\ Power[4] >= 256
  BY PowersGrow
<1> QED BY <1>1

(* readI32LE gets back the sign. *)
LEMMA ReadsInt ==
    ASSUME Arrived, NEW n \in Int, -(Power[4] \div 2) <= n, n < Power[4] \div 2, NEW at,
           Lies(LE(IF n < 0 THEN n + Power[4] ELSE n, 4), at)
    PROVE  Yields(readI32LE(at), <<n>>, at + 4)
<1> DEFINE m == IF n < 0 THEN n + Power[4] ELSE n
           r0 == [v |-> <<m>>, pos |-> at + 4]
           Back(r) == [r EXCEPT !.v[1] = IF @ < Power[4] \div 2 THEN @ ELSE @ - Power[4]]
<1>1. m \in Nat /\ m < Power[4] /\ n = IF m < Power[4] \div 2 THEN m ELSE m - Power[4]
  BY Signed
<1>2. readI32LE(at) = {Back(r) : r \in readUint(4, at)}
  BY DEF readI32LE
<1>3. Lies(LE(m, 4), at)
  OBVIOUS
<1> HIDE DEF m
<1>4. Yields(readUint(4, at), <<m>>, at + 4)
  BY <1>1, <1>3, ReadsNumber
<1>5. Back(r0) = [v |-> <<n>>, pos |-> at + 4]
  BY <1>1
<1>6. readUint(4, at) \subseteq {r0}
  BY <1>4 DEF Yields
<1> HIDE DEF Back, r0
<1>7. readI32LE(at) \subseteq {Back(r0)} /\ (readUint(4, at) # {} <=> readI32LE(at) # {})
  BY <1>2, <1>6
<1> QED BY <1>4, <1>5, <1>7 DEF Yields

(* A payload is read back, and its checksum is the one written. *)
LEMMA ReadsPayload ==
    ASSUME Arrived, NEW x \in Seq(Nat), Len(x) <= MaxPayload, NEW at,
           Lies(LE(Len(x), 4) \o LE(checksumOf(x), 4) \o x, at)
    PROVE  Yields(readPayload(at), x, at + Len(LE(Len(x), 4) \o LE(checksumOf(x), 4) \o x))
<1> DEFINE l == Len(x)
           c == checksumOf(x)
           a == LE(l, 4)
           b == LE(c, 4)
           rs == readUint(4, at)
           qs == readUint(4, at + 4)
           ts == Take(l, at + 8, data)
           r0 == [v |-> <<l>>, pos |-> at + 4]
           q0 == [v |-> <<c>>, pos |-> at + 8]
           Body(n, s) == {p \in Take(n, s.pos, data) : checksumOf(p.v) = s.v[1]}
           Bodies(r) == UNION {Body(r.v[1], s) : s \in readUint(4, r.pos)}
<1>1. l \in Nat /\ MaxPayload \in Nat /\ l < Power[4] /\ Power[4] \in Nat
  <2>1. MaxPayload \in Nat /\ MaxPayload < Power[4]
    BY CodecAssumption
  <2>2. Power[4] \in Nat
    BY PowersGrow
  <2>3. l \in Nat /\ l <= MaxPayload
    OBVIOUS
  <2> HIDE DEF l
  <2> QED BY <2>1, <2>2, <2>3
<1>2. c \in Nat /\ c < Power[4]
  BY <1>1, Checksum
<1>3. readPayload(at) = UNION {Bodies(r) : r \in {r \in rs : r.v[1] <= MaxPayload}}
  BY DEF readPayload
<1>4. l <= MaxPayload /\ Lies(a \o b \o x, at)
  OBVIOUS
<1> HIDE DEF c, l
<1>5. a \in Seq(Nat) /\ Len(a) = 4 /\ b \in Seq(Nat) /\ Len(b) = 4
  BY <1>1, <1>2, LESeq
<1> HIDE DEF a, b
<1>6. a \o b \in Seq(Nat) /\ Len(a \o b) = 8
  <2>1. a \o b \in Seq(Nat) /\ Len(a \o b) = Len(a) + Len(b)
    BY <1>5, ConcatProperties, ZenonT(30)
  <2>2. 4 + 4 = 8
    OBVIOUS
  <2> QED BY ONLY <1>5, <2>1, <2>2, ZenonT(30)
<1>7. /\ Lies(a \o b, at) /\ Lies(x, at + 8) /\ at \in Nat
      /\ Len(a \o b \o x) = 8 + l
  BY <1>4, <1>6, LiesParts DEF l
<1>8. Lies(a, at) /\ Lies(b, at + 4)
  BY <1>5, <1>7, LiesParts
<1>9. 4 \in 1 .. 8
  OBVIOUS
<1>10. Yields(rs, <<l>>, at + 4)
  BY <1>1, <1>8, <1>9, ReadsNumber DEF a
<1>11. Yields(qs, <<c>>, (at + 4) + 4)
  BY <1>2, <1>8, <1>9, ReadsNumber DEF b
<1>12. Yields(ts, x, (at + 8) + l)
  BY <1>1, <1>7, TakeYields DEF l
<1>13. (at + 4) + 4 = at + 8 /\ at + Len(a \o b \o x) = (at + 8) + l
  BY <1>1, <1>7
<1>14. rs \subseteq {r0} /\ qs \subseteq {q0} /\ ts \subseteq {[v |-> x, pos |-> (at + 8) + l]}
  BY <1>10, <1>11, <1>12, <1>13 DEF Yields
<1>15. r0.v[1] = l /\ r0.pos = at + 4 /\ q0.v[1] = c /\ q0.pos = at + 8
  OBVIOUS
<1>16. Body(l, q0) = ts
  BY <1>14, <1>15 DEF c
<1> HIDE DEF Body, ts, r0, q0
<1>17. Bodies(r0) = IF qs = {} THEN {} ELSE ts
  BY <1>14, <1>15, <1>16
<1> HIDE DEF Bodies, rs, qs
<1>18. Yields(Bodies(r0), x, (at + 8) + l)
  BY <1>11, <1>12, <1>17, Chained
<1>19. {r \in rs : r.v[1] <= MaxPayload} = rs
  BY <1>4, <1>14, <1>15
<1>20. readPayload(at) = IF rs = {} THEN {} ELSE Bodies(r0)
  BY <1>3, <1>14, <1>19
<1>21. Yields(readPayload(at), x, (at + 8) + l)
  BY <1>10, <1>18, <1>20, Chained
<1> QED BY <1>13, <1>21 DEF a, b, c, l

-----------------------------------------------------------------------------
(* Every field is read back: from the bytes of a value readField gets this *)
(* value or, where they did not all arrive or are too long a string,       *)
(* nothing.                                                                *)

(* A tag is one of the field's codes. *)
LEMMA AmongHolds ==
    ASSUME NEW f, Sound(f), f.type = "among", NEW x \in Holds(f)
    PROVE  \E n \in Nat : x = <<n>> /\ n \in Range(f.parts)
<1>1. f.parts \in Seq(Nat)
  BY DEF Sound
<1>2. PICK k \in DOMAIN f.parts : x = <<f.parts[k]>>
  BY DEF Holds
<1>3. f.parts[k] \in Nat
  BY <1>1
<1>4. f.parts[k] \in Range(f.parts)
  BY DEF Range
<1> QED BY <1>2, <1>3, <1>4

(* Every value is written in bytes. *)
LEMMA EncodedSeq ==
    ASSUME NEW f \in Fields, NEW x \in Holds(f)
    PROVE  Encoded(f, x) \in Seq(Nat)
<1>1. Sound(f)
  BY FieldsSound
<1>2. CASE f.type = "uint"
  <2>1. PICK n \in Nat : x = <<n>>
    BY <1>2 DEF Holds
  <2>2. Encoded(f, x) = LE(n, f.width) /\ f.width \in Nat
    BY <1>1, <1>2, <2>1 DEF Encoded, Sound
  <2> QED BY <2>2, LESeq
<1>3. CASE f.type = "safe"
  <2>1. PICK n \in 0 .. MaxSafeInteger : x = <<n>>
    BY <1>3 DEF Holds
  <2>2. Encoded(f, x) = LE(n, 8) /\ n \in Nat
    BY <1>1, <1>3, <2>1, CodecAssumption DEF Encoded, Sound
  <2> QED BY <2>2, LESeq
<1>4. CASE f.type = "bool"
  <2>1. PICK n \in {0, 1} : x = <<n>>
    BY <1>4 DEF Holds
  <2>2. Encoded(f, x) = LE(n, 1) /\ n \in Nat
    BY <1>1, <1>4, <2>1 DEF Encoded, Sound
  <2> QED BY <2>2, LESeq
<1>5. CASE f.type = "int"
  <2>1. PICK n \in Int : x = <<n>> /\ -(Power[4] \div 2) <= n /\ n < Power[4] \div 2
    BY <1>5 DEF Holds
  <2> DEFINE m == IF n < 0 THEN n + Power[4] ELSE n
  <2>2. Encoded(f, x) = LE(m, 4)
    BY <1>5, <2>1 DEF Encoded
  <2>3. m \in Nat
    BY <2>1, Signed
  <2> HIDE DEF m
  <2> QED BY <2>2, <2>3, LESeq
<1>6. CASE f.type = "multiplier"
  <2>1. PICK n \in Nat : x = <<n>>
    BY <1>6 DEF Holds
  <2>2. Encoded(f, x) = LE(n, 4)
    BY <1>6, <2>1 DEF Encoded
  <2> QED BY <2>2, LESeq
<1>7. CASE f.type \in {"among", "optional", "raw"}
  <2>1. Encoded(f, x) = x
    BY <1>7 DEF Encoded
  <2>2. CASE f.type = "among"
    <3>1. PICK n \in Nat : x = <<n>>
      BY <1>1, <2>2, AmongHolds
    <3>2. <<n>> \in Seq(Nat)
      OBVIOUS
    <3> QED BY <2>1, <3>1, <3>2
  <2>3. CASE f.type = "optional"
    <3>1. x \in {<<0>>, <<1>>}
      BY <2>3 DEF Holds
    <3>2. <<0>> \in Seq(Nat) /\ <<1>> \in Seq(Nat)
      OBVIOUS
    <3> QED BY <2>1, <3>1, <3>2
  <2>4. CASE f.type = "raw"
    BY <2>1, <2>4 DEF Holds
  <2> QED BY <1>7, <2>2, <2>3, <2>4
<1>8. CASE f.type \in {"varint", "list"}
  <2>1. PICK n \in Nat : x = <<n>>
    BY <1>8 DEF Holds, Countable
  <2>2. Encoded(f, x) = VarintBytes(n)
    BY <1>8, <2>1 DEF Encoded
  <2> QED BY <2>2, VarintSeq
<1>9. CASE f.type \in {"bytes", "utf8"}
  <2>1. x \in Seq(Nat) /\ Len(x) \in Nat
    BY <1>9 DEF Holds
  <2>2. Encoded(f, x) = VarintBytes(Len(x)) \o x
    BY <1>9 DEF Encoded
  <2>3. VarintBytes(Len(x)) \in Seq(Nat)
    BY <2>1, VarintSeq
  <2> QED BY <2>1, <2>2, <2>3, Concatenated
<1>10. CASE f.type = "payload"
  <2>1. x \in Seq(Nat) /\ Len(x) \in Nat
    BY <1>10 DEF Holds
  <2>2. Encoded(f, x) = LE(Len(x), 4) \o LE(checksumOf(x), 4) \o x
    BY <1>10 DEF Encoded
  <2>3. checksumOf(x) \in Nat
    BY <2>1, Checksum, PowersGrow
  <2>4. LE(Len(x), 4) \in Seq(Nat) /\ LE(checksumOf(x), 4) \in Seq(Nat)
    BY <2>1, <2>3, LESeq
  <2>5. LE(Len(x), 4) \o LE(checksumOf(x), 4) \in Seq(Nat)
    BY <2>4, Concatenated
  <2> QED BY <2>1, <2>2, <2>5, Concatenated
<1> QED BY <1>1, <1>2, <1>3, <1>4, <1>5, <1>6, <1>7, <1>8, <1>9, <1>10 DEF Sound

(* For every value a field can hold, not only those at its limits: where   *)
(* its bytes lie, readField gets this value and ends behind them, or, if   *)
(* they did not all arrive, nothing.  It refuses nothing else but a string *)
(* of a rule set that readUtf8 finds too long.                             *)
THEOREM FieldsReadBack ==
    ASSUME Arrived, NEW f \in Fields, NEW x \in Holds(f), NEW at, Lies(Encoded(f, x), at)
    PROVE  \/ Yields(readField(f, at), x, at + Len(Encoded(f, x)))
           \/ format = "RuleSet" /\ Len(x) > Utf8Cap /\ readField(f, at) = {}
<1> DEFINE e == Encoded(f, x)
           rs == readField(f, at)
<1>1. Sound(f)
  BY FieldsSound
<1>2. CASE f.type = "uint"
  <2>1. PICK n \in Nat : x = <<n>> /\ n < Power[f.width]
    BY <1>2 DEF Holds
  <2>2. e = LE(n, f.width) /\ rs = readUint(f.width, at) /\ f.width \in 1 .. 8
    BY <1>1, <1>2, <2>1 DEF Encoded, readField, Sound
  <2> HIDE DEF e, rs
  <2>3. Lies(LE(n, f.width), at)
    BY <2>2 DEF e
  <2>4. Len(e) = f.width
    <3>1. f.width \in Nat
      BY <2>2
    <3> QED BY <2>2, <3>1, LESeq
  <2>5. Yields(rs, <<n>>, at + f.width)
    BY <2>1, <2>2, <2>3, ReadsNumber
  <2> QED BY <2>1, <2>4, <2>5 DEF e, rs
<1>3. CASE f.type = "safe"
  <2>1. PICK n \in 0 .. MaxSafeInteger : x = <<n>>
    BY <1>3 DEF Holds
  <2>2. e = LE(n, 8) /\ rs = readU64LE(at)
    BY <1>1, <1>3, <2>1 DEF Encoded, readField, Sound
  <2>3. n \in Nat /\ n < Power[8] /\ n <= MaxSafeInteger /\ 8 \in 1 .. 8 /\ 8 \in Nat
    <3>1. MaxSafeInteger \in Nat /\ MaxSafeInteger < Power[8]
      BY CodecAssumption
    <3>2. Power[8] \in Nat
      BY PowersGrow
    <3> QED BY <3>1, <3>2
  <2> HIDE DEF e, rs
  <2>4. Lies(LE(n, 8), at)
    BY <2>2 DEF e
  <2>5. Len(e) = 8
    BY <2>2, <2>3, LESeq
  <2>6. Yields(readUint(8, at), <<n>>, at + 8)
    BY <2>3, <2>4, ReadsNumber
  <2>7. rs = readUint(8, at)
    BY <2>2, <2>3, <2>6, SafeNumbers
  <2> QED BY <2>1, <2>5, <2>6, <2>7 DEF e, rs
<1>4. CASE f.type = "bool"
  <2>1. PICK n \in {0, 1} : x = <<n>>
    BY <1>4 DEF Holds
  <2>2. e = LE(n, 1) /\ rs = {r \in readUint(1, at) : r.v[1] \in {0, 1}}
    BY <1>1, <1>4, <2>1 DEF Encoded, readField, Sound
  <2>3. n \in Nat /\ n < Power[1] /\ 1 \in 1 .. 8 /\ 1 \in Nat
    BY PowersGrow
  <2> HIDE DEF e, rs
  <2>4. Lies(LE(n, 1), at)
    BY <2>2 DEF e
  <2>5. Len(e) = 1
    BY <2>2, <2>3, LESeq
  <2>6. Yields(readUint(1, at), <<n>>, at + 1)
    BY <2>3, <2>4, ReadsNumber
  <2>7. rs = readUint(1, at)
    BY <2>2, <2>6 DEF Yields
  <2> QED BY <2>1, <2>5, <2>6, <2>7 DEF e, rs
<1>5. CASE f.type = "optional"
  <2>1. PICK n \in {0, 1} : x = <<n>>
    BY <1>5 DEF Holds
  <2>2. e = <<n>> /\ rs = {r \in readUint(1, at) : r.v[1] \in {0, 1}}
    BY <1>5, <2>1 DEF Encoded, readField
  <2>3. n \in Nat /\ Len(<<n>>) = 1
    OBVIOUS
  <2> HIDE DEF e, rs
  <2>4. Lies(<<n>>, at)
    BY <2>2 DEF e
  <2>5. Yields(readUint(1, at), <<n>>, at + 1)
    BY <2>3, <2>4, ReadsByte
  <2>6. rs = readUint(1, at)
    BY <2>2, <2>5 DEF Yields
  <2> QED BY <2>1, <2>2, <2>3, <2>5, <2>6 DEF e, rs
<1>6. CASE f.type = "int"
  <2>1. PICK n \in Int : x = <<n>> /\ -(Power[4] \div 2) <= n /\ n < Power[4] \div 2
    BY <1>6 DEF Holds
  <2> DEFINE m == IF n < 0 THEN n + Power[4] ELSE n
  <2>2. e = LE(m, 4) /\ rs = readI32LE(at)
    BY <1>6, <2>1 DEF Encoded, readField
  <2>3. m \in Nat /\ 4 \in Nat
    BY <2>1, Signed
  <2>4. Lies(LE(m, 4), at)
    BY <2>2 DEF e
  <2>5. Yields(readI32LE(at), <<n>>, at + 4)
    BY <2>1, <2>4, ReadsInt
  <2> HIDE DEF m, e, rs
  <2>6. Len(e) = 4
    BY <2>2, <2>3, LESeq
  <2> QED BY <2>1, <2>2, <2>5, <2>6 DEF e, rs
<1>7. CASE f.type = "multiplier"
  <2>1. PICK n \in Nat : x = <<n>> /\ n < Power[4]
    BY <1>7 DEF Holds
  <2>2. e = LE(n, 4) /\ rs = readUint(4, at)
    BY <1>1, <1>7, <2>1 DEF Encoded, readField, Sound
  <2>3. 4 \in 1 .. 8 /\ 4 \in Nat
    OBVIOUS
  <2> HIDE DEF e, rs
  <2>4. Lies(LE(n, 4), at)
    BY <2>2 DEF e
  <2>5. Len(e) = 4
    BY <2>2, <2>3, LESeq
  <2>6. Yields(rs, <<n>>, at + 4)
    BY <2>1, <2>2, <2>3, <2>4, ReadsNumber
  <2> QED BY <2>1, <2>5, <2>6 DEF e, rs
<1>8. CASE f.type = "among"
  <2>1. PICK n \in Nat : x = <<n>> /\ n \in Range(f.parts)
    BY <1>1, <1>8, AmongHolds
  <2>2. e = <<n>> /\ rs = {r \in readUint(1, at) : r.v[1] \in Range(f.parts)}
    BY <1>8, <2>1 DEF Encoded, readField
  <2>3. Len(<<n>>) = 1
    OBVIOUS
  <2> HIDE DEF e, rs
  <2>4. Lies(<<n>>, at)
    BY <2>2 DEF e
  <2>5. Yields(readUint(1, at), <<n>>, at + 1)
    BY <2>4, ReadsByte
  <2>6. rs = readUint(1, at)
    BY <2>1, <2>2, <2>5 DEF Yields
  <2> QED BY <2>1, <2>2, <2>3, <2>5, <2>6 DEF e, rs
<1>9. CASE f.type = "raw"
  <2>1. x \in Seq(Nat) /\ Len(x) = f.width /\ f.width \in Nat
    BY <1>9 DEF Holds
  <2>2. e = x /\ rs = Take(f.width, at, data)
    BY <1>9 DEF Encoded, readField
  <2> HIDE DEF e, rs
  <2>3. Yields(rs, x, at + f.width)
    BY <2>1, <2>2, TakeYields DEF e
  <2> QED BY <2>1, <2>2, <2>3 DEF e, rs
<1>10. CASE f.type \in {"varint", "list"}
  <2>1. PICK n \in Countable : x = <<n>>
    BY <1>10 DEF Holds
  <2>2. e = VarintBytes(n) /\ rs = readVarint(at)
    BY <1>10, <2>1 DEF Encoded, readField
  <2> HIDE DEF e, rs
  <2> QED BY <2>1, <2>2, ReadsVarint DEF e, rs
<1>11. CASE f.type \in {"bytes", "utf8"}
  <2> DEFINE cap == IF f.type = "bytes" THEN Len(data) ELSE Utf8Cap
  <2>1. x \in Seq(Nat) /\ Len(x) \in Countable
    BY <1>11 DEF Holds
  <2>2. e = VarintBytes(Len(x)) \o x /\ rs = readBytes(cap, at)
    BY <1>11 DEF Encoded, readField
  <2>3. /\ Len(x) <= cap => Yields(rs, x, at + Len(e))
        /\ ~(Len(x) <= cap) => rs = {}
    <3> HIDE DEF cap, rs
    <3>1. Lies(VarintBytes(Len(x)) \o x, at)
      BY <2>2
    <3> HIDE DEF e
    <3> QED BY <2>1, <2>2, <3>1, ReadsBytes
  <2>4. CASE Len(x) <= cap
    BY <2>3, <2>4
  <2>5. CASE ~(Len(x) <= cap) /\ f.type = "bytes"
    <3>1. Len(data) \in Nat /\ Len(x) \in Nat /\ ~(Len(x) <= Len(data)) /\ rs = {}
      <4>1. data \in Seq(Nat)
        BY DEF Arrived, Carries
      <4> QED BY <2>1, <2>3, <2>5, <4>1
    <3>2. at \in Nat /\ offset \in Nat /\ at + Len(e) <= offset
      BY DEF Lies
    <3>3. Len(e) = Len(VarintBytes(Len(x))) + Len(x) /\ Len(VarintBytes(Len(x))) \in Nat
      <4>1. VarintBytes(Len(x)) \in Seq(Nat)
        BY <3>1, VarintSeq
      <4> HIDE DEF e
      <4>2. Len(VarintBytes(Len(x))) \in Nat
        BY <4>1, LenProperties
      <4> QED BY <2>1, <2>2, <4>1, <4>2, ConcatProperties, ZenonT(30)
    <3>4. ~(offset <= Len(data))
      <4> HIDE DEF e
      <4> QED BY <3>1, <3>2, <3>3
    <3> QED BY <3>1, <3>4 DEF Yields
  <2>6. CASE ~(Len(x) <= cap) /\ f.type = "utf8"
    <3>1. Len(x) \in Nat /\ Utf8Cap \in Nat /\ ~(Len(x) <= Utf8Cap) /\ rs = {}
      BY <2>1, <2>3, <2>6, CodecAssumption
    <3>2. format = "RuleSet"
      BY <1>1, <2>6 DEF Sound
    <3> QED BY <3>1, <3>2
  <2> QED BY <1>11, <2>4, <2>5, <2>6
<1>12. CASE f.type = "payload"
  <2>1. x \in Seq(Nat) /\ Len(x) <= MaxPayload
    BY <1>12 DEF Holds
  <2>2. e = LE(Len(x), 4) \o LE(checksumOf(x), 4) \o x /\ rs = readPayload(at)
    BY <1>12 DEF Encoded, readField
  <2> HIDE DEF e, rs
  <2> QED BY <2>1, <2>2, ReadsPayload DEF e, rs
<1> QED BY <1>1, <1>2, <1>3, <1>4, <1>5, <1>6, <1>7, <1>8, <1>9, <1>10, <1>11, <1>12 DEF Sound

-----------------------------------------------------------------------------
(* The inductive invariant.  The bytes in the buffer have a trace: p[q] is *)
(* the plan and o[q] the length after q fields.  The reader, which has     *)
(* only the bytes, follows the writer's trace.                             *)

Writes(fs, x, at, gs, end) ==
    /\ fs \in Seq(Fields) /\ fs # << >> /\ x \in Holds(Head(fs))
    /\ gs = ElementFields(Head(fs), x) \o Tail(fs)
    /\ Lies(Encoded(Head(fs), x), at) /\ end = at + Len(Encoded(Head(fs), x))

Traced(p, o) ==
    /\ p[0] = Formats[format] /\ o[0] = 0
    /\ \A q \in 1 .. Len(values) : Writes(p[q - 1], values[q], o[q - 1], p[q], o[q])

WellFormed ==
    /\ phase \in {"write", "read", "accepted", "rejected"}
    /\ format \in DOMAIN Formats /\ plan \in Seq(Fields)
    /\ values \in Seq(Seq(Int)) /\ got \in Seq(Seq(Int))
    /\ buf \in Seq(Nat) /\ offset \in Nat /\ offset <= Len(buf)
    /\ format \in Growing => Len(buf) > 0

WriterAt(p, o) ==
    /\ plan = p[Len(values)] /\ offset = o[Len(values)]
    /\ got = << >> /\ pos = 0

ReaderAt(p, o) ==
    /\ p[Len(values)] = << >> /\ offset = o[Len(values)] /\ Arrived
    /\ Len(got) <= Len(values)
    /\ \A q \in 1 .. Len(got) : got[q] = values[q]
    /\ plan = p[Len(got)] /\ pos = o[Len(got)]
    /\ pos \in Nat /\ (format # "Tx" => pos <= Len(data))

Follows(p, o) ==
    /\ Traced(p, o)
    /\ phase = "write" => WriterAt(p, o)
    /\ phase # "write" => ReaderAt(p, o)

CodecInv == WellFormed /\ AcceptedIsWhole /\ \E p, o : Follows(p, o)

(* Values are sequences of numbers. *)
LEMMA HoldsSeq ==
    ASSUME NEW f \in Fields, NEW x \in Holds(f)
    PROVE  x \in Seq(Int)
<1>1. Sound(f)
  BY FieldsSound
<1>2. CASE f.type \in {"raw", "bytes", "utf8", "payload"}
  <2>1. x \in Seq(Nat)
    BY <1>2 DEF Holds
  <2>2. Nat \subseteq Int
    OBVIOUS
  <2> QED BY <2>1, <2>2, WiderSeq
<1>3. CASE f.type = "among"
  <2>1. PICK n \in Nat : x = <<n>>
    BY <1>1, <1>3, AmongHolds
  <2> QED BY <2>1
<1>4. CASE f.type \in {"bool", "optional"}
  <2>1. PICK n \in {0, 1} : x = <<n>>
    BY <1>4 DEF Holds
  <2> QED BY <2>1
<1>5. CASE f.type \in {"uint", "safe", "multiplier", "int", "varint", "list"}
  <2>1. PICK n \in Int : x = <<n>>
    BY <1>5 DEF Holds, Countable
  <2> QED BY <2>1
<1> QED BY <1>1, <1>2, <1>3, <1>4, <1>5 DEF Sound

(* The plan that a step leaves is one of fields again. *)
LEMMA PlanSound ==
    ASSUME NEW fs \in Seq(Fields), fs # << >>, NEW x \in Holds(Head(fs))
    PROVE  Head(fs) \in Fields /\ ElementFields(Head(fs), x) \o Tail(fs) \in Seq(Fields)
<1>1. Head(fs) \in Fields /\ Tail(fs) \in Seq(Fields)
  OBVIOUS
<1> QED BY <1>1, ElementsSound, Concatenated

(* What arrives is the message as far as it goes. *)
LEMMA Delivered ==
    ASSUME buf \in Seq(Nat), offset \in Nat, offset <= Len(buf), NEW n \in 0 .. offset,
           NEW rest \in Seq(Nat), rest = << >> \/ n = offset,
           NEW h \in {<< >>, SubSeq(Written, n + 1, offset)}
    PROVE  LET d == SubSeq(Written, 1, n) \o rest
           IN  h \in Seq(Nat) /\ Carries(d) /\ Carries(d \o h)
<1> DEFINE w == Written
           a == SubSeq(w, 1, n)
           d == a \o rest
           b == SubSeq(w, n + 1, offset)
           m == Len(rest)
<1>1. n \in Nat /\ n <= offset /\ Len(buf) \in Nat /\ m \in Nat
  OBVIOUS
<1>2. w \in Seq(Nat) /\ Len(w) = offset /\ \A q \in 1 .. offset : w[q] = buf[q]
  <2>1. \A q \in 1 .. offset : buf[q] \in Nat
    BY <1>1
  <2>2. /\ w \in Seq(Nat) /\ Len(w) = (IF 1 <= offset THEN offset - 1 + 1 ELSE 0)
        /\ \A q \in 1 .. offset - 1 + 1 : w[q] = buf[1 + q - 1]
    <3>1. 1 \in Int /\ offset \in Int
      OBVIOUS
    <3> QED BY <2>1, <3>1, SubSeqProperties DEF Written
  <2> HIDE DEF w
  <2> QED BY <2>2
<1> HIDE DEF w
<1>3. a \in Seq(Nat) /\ Len(a) = n /\ \A q \in 1 .. n : a[q] = buf[q]
  <2>1. \A q \in 1 .. n : w[q] \in Nat /\ w[q] = buf[q]
    <3>1. \A q \in 1 .. n : q \in 1 .. offset
      BY <1>1
    <3> QED BY <1>2, <3>1, ElementOfSeq, ZenonT(30)
  <2>2. /\ a \in Seq(Nat) /\ Len(a) = (IF 1 <= n THEN n - 1 + 1 ELSE 0)
        /\ \A q \in 1 .. n - 1 + 1 : a[q] = w[1 + q - 1]
    <3>1. 1 \in Int /\ n \in Int
      OBVIOUS
    <3> QED BY <2>1, <3>1, SubSeqProperties, SMTT(30)
  <2> HIDE DEF a
  <2>3. ASSUME NEW q \in 1 .. n PROVE a[q] = buf[q]
    <3>1. q \in 1 .. n - 1 + 1 /\ 1 + q - 1 = q
      BY <1>1
    <3> QED BY <2>1, <2>2, <3>1
  <2>4. Len(a) = n
    BY <1>1, <2>2
  <2> QED BY <2>2, <2>3, <2>4
<1>4. b \in Seq(Nat) /\ Len(b) = offset - n /\ \A q \in 1 .. offset - n : b[q] = buf[n + q]
  <2>1. \A q \in n + 1 .. offset : w[q] \in Nat /\ w[q] = buf[q]
    <3>1. \A q \in n + 1 .. offset : q \in 1 .. offset
      BY <1>1
    <3> QED BY <1>2, <3>1, ElementOfSeq, ZenonT(30)
  <2>2. /\ b \in Seq(Nat) /\ Len(b) = (IF n + 1 <= offset THEN offset - (n + 1) + 1 ELSE 0)
        /\ \A q \in 1 .. offset - (n + 1) + 1 : b[q] = w[n + 1 + q - 1]
    <3>1. n + 1 \in Int /\ offset \in Int
      OBVIOUS
    <3> QED BY <2>1, <3>1, SubSeqProperties, SMTT(30)
  <2> HIDE DEF b
  <2>3. ASSUME NEW q \in 1 .. offset - n PROVE b[q] = buf[n + q]
    <3>1. q \in 1 .. offset - (n + 1) + 1 /\ n + 1 + q - 1 = n + q /\ n + q \in n + 1 .. offset
      BY <1>1
    <3> QED BY <2>1, <2>2, <3>1
  <2> QED BY <1>1, <2>2, <2>3
<1> HIDE DEF a, b
<1>5. h \in Seq(Nat) /\ Len(h) \in Nat /\ (h = << >> \/ h = b)
  <2>1. << >> \in Seq(Nat) /\ (h = << >> \/ h = b)
    BY DEF b, w
  <2> QED BY <1>4, <2>1, LenProperties
<1>6. d \in Seq(Nat) /\ Len(d) = n + m
      /\ \A q \in 1 .. n + m : d[q] = IF q <= n THEN a[q] ELSE rest[q - n]
  <2>1. /\ a \o rest \in Seq(Nat) /\ Len(a \o rest) = Len(a) + Len(rest)
        /\ \A q \in 1 .. Len(a) + Len(rest) :
             (a \o rest)[q] = IF q <= Len(a) THEN a[q] ELSE rest[q - Len(a)]
    BY <1>3, ConcatProperties, ZenonT(30)
  <2> QED BY <1>3, <2>1
<1>7. m = 0 \/ n = offset
  OBVIOUS
<1>8. Carries(d)
  <2> SUFFICES ASSUME NEW q \in 1 .. n + m, q <= offset PROVE d[q] = buf[q]
    BY <1>6 DEF Carries
  <2>1. q \in 1 .. n
    BY <1>1, <1>7
  <2> HIDE DEF d, m
  <2>2. q <= n /\ d[q] = a[q]
    <3>1. q <= n
      BY <1>1, <2>1
    <3> QED BY <1>6, <3>1
  <2> QED BY <1>3, <2>1, <2>2
<1> HIDE DEF d, m
<1>9. /\ d \o h \in Seq(Nat) /\ Len(d \o h) = Len(d) + Len(h)
      /\ \A q \in 1 .. Len(d) + Len(h) :
           (d \o h)[q] = IF q <= Len(d) THEN d[q] ELSE h[q - Len(d)]
  BY <1>5, <1>6, ConcatProperties, ZenonT(30)
<1>10. Carries(d \o h)
  <2> SUFFICES ASSUME NEW q \in 1 .. Len(d) + Len(h), q <= offset PROVE (d \o h)[q] = buf[q]
    BY <1>9 DEF Carries
  <2>1. CASE q <= Len(d)
    <3>1. q \in 1 .. Len(d)
      BY <1>1, <1>6, <2>1
    <3>2. d[q] = buf[q]
      BY <1>8, <3>1 DEF Carries
    <3> QED BY <1>9, <2>1, <3>2
  <2>2. CASE ~(q <= Len(d))
    <3>1. m = 0 /\ Len(d) = n
      BY <1>1, <1>6, <1>7, <2>2
    <3>2. h = b
      BY <1>1, <1>5, <2>2, <3>1
    <3>3. q - n \in 1 .. offset - n /\ n + (q - n) = q
      BY <1>1, <2>2, <3>1
    <3>4. (d \o h)[q] = b[q - n]
      BY <1>9, <2>2, <3>1, <3>2
    <3> QED BY <1>4, <3>3, <3>4
  <2> QED BY <2>1, <2>2
<1> QED BY <1>5, <1>8, <1>10 DEF d, a, w

(* The kinds of fields depend on the format alone. *)
LEMMA FieldsStay == ASSUME format' = format PROVE Fields' = Fields
BY DEF Fields, Texts

(* A step that leaves the message alone leaves its trace. *)
LEMMA TraceStays ==
    ASSUME UNCHANGED <<format, values, buf, offset>>, NEW p, NEW o, Traced(p, o)
    PROVE  Traced(p, o)'
<1>1. Fields' = Fields
  BY FieldsStay
<1>2. \A bytes, at : Lies(bytes, at)' = Lies(bytes, at)
  BY DEF Lies
<1>3. \A fs, x, at, gs, end : Writes(fs, x, at, gs, end) => Writes(fs, x, at, gs, end)'
  BY <1>1, <1>2 DEF Writes
<1> QED BY <1>3 DEF Traced

(* A writer that has written nothing. *)
LEMMA InitFollows == CodecInit => CodecInv
<1> SUFFICES ASSUME CodecInit PROVE CodecInv
  OBVIOUS
<1>1. /\ phase = "write" /\ format \in DOMAIN Formats /\ plan = Formats[format]
      /\ values = << >> /\ got = << >> /\ pos = 0 /\ offset = 0
      /\ buf = (IF format \in Growing THEN Zeros(InitialCapacity) ELSE << >>)
  BY DEF CodecInit
<1>2. plan \in Seq(Fields)
  BY <1>1, FormatsSound
<1>3. InitialCapacity \in Nat /\ InitialCapacity > 0
  BY CodecAssumption
<1>4. buf \in Seq(Nat) /\ Len(buf) \in Nat /\ (format \in Growing => Len(buf) > 0)
  BY <1>1, <1>3, ZerosSeq
<1>5. WellFormed
  BY <1>1, <1>2, <1>4 DEF WellFormed
<1>6. AcceptedIsWhole
  BY <1>1 DEF AcceptedIsWhole
<1> DEFINE p == [q \in 0 .. 0 |-> plan]
           o == [q \in 0 .. 0 |-> 0]
<1>7. Len(values) = 0 /\ p[0] = plan /\ o[0] = 0
  BY <1>1
<1> HIDE DEF p, o
<1>8. Follows(p, o)
  BY <1>1, <1>7 DEF Follows, Traced, WriterAt
<1> QED BY <1>5, <1>6, <1>8 DEF CodecInv

(* A written field prolongs the trace. *)
LEMMA WriteFollows ==
    ASSUME CodecInv, NEW k \in 1 .. 10, WriteField(k)
    PROVE  CodecInv'
<1> DEFINE f == Head(plan)
           x == Limits(f)[k]
           e == Encoded(f, x)
           N == Len(values)
<1>1. /\ phase = "write" /\ plan # << >> /\ k \in DOMAIN Limits(f) /\ Writable(f, x)
      /\ buf' = Put(e) /\ offset' = offset + Len(e) /\ values' = Append(values, x)
      /\ plan' = ElementFields(f, x) \o Tail(plan)
      /\ phase' = phase /\ format' = format /\ pos' = pos /\ got' = got
  BY DEF WriteField
<1>2. /\ format \in DOMAIN Formats /\ plan \in Seq(Fields)
      /\ values \in Seq(Seq(Int)) /\ got \in Seq(Seq(Int))
      /\ buf \in Seq(Nat) /\ offset \in Nat /\ offset <= Len(buf)
      /\ (format \in Growing => Len(buf) > 0)
  BY DEF CodecInv, WellFormed
<1>3. f \in Fields
  BY <1>1, <1>2
<1>4. x \in Holds(f)
  BY <1>1, <1>3, LimitsHeld
<1> HIDE DEF x
<1>5. x \in Seq(Int)
  BY <1>3, <1>4, HoldsSeq
<1>6. e \in Seq(Nat) /\ Len(e) \in Nat
  <2>1. e \in Seq(Nat)
    BY <1>3, <1>4, EncodedSeq
  <2> QED BY <2>1, LenProperties
<1>7. plan' \in Seq(Fields)
  BY <1>1, <1>2, <1>4, PlanSound
<1> HIDE DEF f, e
<1>8. /\ buf' \in Seq(Nat) /\ Len(buf') >= offset'
      /\ \A q \in 1 .. offset : buf'[q] = buf[q]
      /\ \A q \in 1 .. Len(e) : buf'[offset + q] = e[q]
      /\ (format \in Growing => Len(buf') > 0)
  BY <1>1, <1>2, <1>6, PutBytes
<1>9. Fields' = Fields
  BY <1>1, FieldsStay
<1>10. /\ values' \in Seq(Seq(Int)) /\ Len(values') = N + 1 /\ N \in Nat
       /\ (\A q \in 1 .. N : values'[q] = values[q]) /\ values'[N + 1] = x
  BY <1>1, <1>2, <1>5
<1>11. offset' \in Nat /\ offset' >= offset /\ offset' = offset + Len(e) /\ Len(buf') \in Nat
  BY <1>1, <1>2, <1>6, <1>8
<1>12. WellFormed'
  BY <1>1, <1>2, <1>7, <1>8, <1>9, <1>10, <1>11 DEF WellFormed, Growing
<1>13. AcceptedIsWhole'
  BY <1>1 DEF AcceptedIsWhole
<1>14. PICK p, o : Follows(p, o)
  BY DEF CodecInv
<1>15. /\ Traced(p, o) /\ plan = p[N] /\ offset = o[N] /\ got = << >> /\ pos = 0
  BY <1>1, <1>14 DEF Follows, WriterAt
<1>16. PICK p2, o2 : /\ \A q \in 0 .. N : p2[q] = p[q] /\ o2[q] = o[q]
                     /\ p2[N + 1] = plan' /\ o2[N + 1] = offset'
  <2> DEFINE p2 == [q \in 0 .. N + 1 |-> IF q <= N THEN p[q] ELSE plan']
             o2 == [q \in 0 .. N + 1 |-> IF q <= N THEN o[q] ELSE offset']
  <2>1. /\ \A q \in 0 .. N : p2[q] = p[q] /\ o2[q] = o[q]
        /\ p2[N + 1] = plan' /\ o2[N + 1] = offset'
    BY <1>10
  <2> HIDE DEF p2, o2
  <2> QED BY <2>1
<1> HIDE DEF N
<1>17. \A bytes, at : Lies(bytes, at) /\ Len(bytes) \in Nat => Lies(bytes, at)'
  <2> SUFFICES ASSUME NEW bytes, NEW at, Lies(bytes, at), Len(bytes) \in Nat
               PROVE  /\ at \in Nat /\ offset' \in Nat /\ at + Len(bytes) <= offset'
                      /\ \A q \in 1 .. Len(bytes) : buf'[at + q] = bytes[q]
    BY DEF Lies
  <2> DEFINE l == Len(bytes)
  <2>1. at \in Nat /\ l \in Nat /\ at + l <= offset /\ \A q \in 1 .. l : buf[at + q] = bytes[q]
    BY DEF Lies
  <2> HIDE DEF l
  <2>2. \A q \in 1 .. l : at + q \in 1 .. offset
    BY <1>2, <2>1
  <2>3. \A q \in 1 .. l : buf'[at + q] = bytes[q]
    BY <1>8, <2>1, <2>2
  <2>4. at + l <= offset'
    BY <1>2, <1>11, <2>1
  <2> QED BY <1>11, <2>1, <2>3, <2>4 DEF l
<1>18. \A fs, y, at, gs, end : Writes(fs, y, at, gs, end) => Writes(fs, y, at, gs, end)'
  <2> SUFFICES ASSUME NEW fs, NEW y, NEW at, NEW gs, NEW end, Writes(fs, y, at, gs, end)
               PROVE  Writes(fs, y, at, gs, end)'
    OBVIOUS
  <2>1. /\ fs \in Seq(Fields) /\ fs # << >> /\ y \in Holds(Head(fs))
        /\ gs = ElementFields(Head(fs), y) \o Tail(fs)
        /\ Lies(Encoded(Head(fs), y), at) /\ end = at + Len(Encoded(Head(fs), y))
    BY DEF Writes
  <2>2. Len(Encoded(Head(fs), y)) \in Nat
    <3>1. Head(fs) \in Fields
      BY <2>1
    <3>2. Encoded(Head(fs), y) \in Seq(Nat)
      BY <2>1, <3>1, EncodedSeq
    <3> QED BY <3>2, LenProperties
  <2>3. Lies(Encoded(Head(fs), y), at)'
    BY <1>17, <2>1, <2>2
  <2> QED BY <1>9, <2>1, <2>3 DEF Writes
<1>19. ASSUME NEW fs, NEW y, NEW at, NEW gs, NEW end,
              fs = plan, y = x, at = offset, gs = plan', end = offset'
       PROVE  Writes(fs, y, at, gs, end)'
  <2> DEFINE bytes == Encoded(Head(fs), y)
  <2>1. bytes = e
    BY <1>19 DEF e, f
  <2>2. at + Len(bytes) <= offset' /\ \A q \in 1 .. Len(bytes) : buf'[at + q] = bytes[q]
    <3>1. offset + Len(e) <= offset'
      BY <1>2, <1>6, <1>11
    <3> HIDE DEF bytes
    <3> QED BY <1>8, <1>19, <2>1, <3>1
  <2>3. Lies(bytes, at)'
    BY <1>2, <1>11, <1>19, <2>2 DEF Lies
  <2>4. end = at + Len(bytes)
    BY <1>11, <1>19, <2>1
  <2>5. fs \in Seq(Fields) /\ fs # << >> /\ y \in Holds(Head(fs))
        /\ gs = ElementFields(Head(fs), y) \o Tail(fs)
    BY <1>1, <1>2, <1>4, <1>19 DEF f
  <2> QED BY <1>9, <2>3, <2>4, <2>5 DEF Writes
<1>20. \A q \in 1 .. N + 1 : \A y :
         y = values'[q] => Writes(p2[q - 1], y, o2[q - 1], p2[q], o2[q])'
  <2> SUFFICES ASSUME NEW q \in 1 .. N + 1, NEW y, y = values'[q]
               PROVE  Writes(p2[q - 1], y, o2[q - 1], p2[q], o2[q])'
    OBVIOUS
  <2>1. CASE q <= N
    <3>1. q \in 1 .. N /\ q \in 0 .. N /\ q - 1 \in 0 .. N
      BY <1>10, <2>1
    <3>2. Writes(p[q - 1], values[q], o[q - 1], p[q], o[q])
      BY <1>15, <3>1 DEF Traced, N
    <3>3. Writes(p[q - 1], y, o[q - 1], p[q], o[q])
      BY <1>10, <3>1, <3>2
    <3>4. p2[q - 1] = p[q - 1] /\ o2[q - 1] = o[q - 1] /\ p2[q] = p[q] /\ o2[q] = o[q]
      BY <1>16, <3>1
    <3>5. Writes(p2[q - 1], y, o2[q - 1], p2[q], o2[q])
      BY <3>3, <3>4
    <3> QED BY <1>18, <3>5
  <2>2. CASE ~(q <= N)
    <3>1. q = N + 1 /\ q - 1 = N /\ N \in 0 .. N
      BY <1>10, <2>2
    <3>2. p2[q - 1] = plan /\ o2[q - 1] = offset /\ p2[q] = plan' /\ o2[q] = offset' /\ y = x
      BY <1>10, <1>15, <1>16, <3>1
    <3> QED BY <1>19, <3>2
  <2> QED BY <2>1, <2>2
<1>21. Traced(p2, o2)'
  <2>1. 0 \in 0 .. N
    BY <1>10
  <2>2. p2[0] = Formats[format'] /\ o2[0] = 0
    BY <1>1, <1>15, <1>16, <2>1 DEF Traced
  <2> QED BY <1>10, <1>20, <2>2 DEF Traced
<1>22. WriterAt(p2, o2)'
  BY <1>1, <1>10, <1>15, <1>16 DEF WriterAt
<1>23. Follows(p2, o2)'
  BY <1>1, <1>21, <1>22 DEF Follows
<1> QED BY <1>12, <1>13, <1>23 DEF CodecInv

(* What arrives carries the trace as far as it goes. *)
LEMMA DeliverFollows ==
    ASSUME CodecInv, NEW n \in 0 .. offset, NEW rest \in Seq(Nat),
           rest = << >> \/ n = offset, Deliver(n, rest)
    PROVE  CodecInv'
<1>1. /\ phase = "write" /\ plan = << >> /\ phase' = "read" /\ plan' = Formats[format]
      /\ data' = SubSeq(Written, 1, n) \o rest
      /\ behind' \in {<< >>, SubSeq(Written, n + 1, offset)}
      /\ UNCHANGED <<format, values, odd, buf, offset, pos, got>>
  BY DEF Deliver
<1>2. /\ format \in DOMAIN Formats
      /\ values \in Seq(Seq(Int)) /\ got \in Seq(Seq(Int))
      /\ buf \in Seq(Nat) /\ offset \in Nat /\ offset <= Len(buf)
      /\ (format \in Growing => Len(buf) > 0)
  BY DEF CodecInv, WellFormed
<1>3. rest \in Seq(Nat)
  OBVIOUS
<1>4. behind' \in Seq(Nat) /\ Carries(data') /\ Carries(data' \o behind')
  BY <1>1, <1>2, <1>3, Delivered
<1>5. Arrived'
  BY <1>1, <1>4 DEF Arrived, Carries
<1>6. plan' \in Seq(Fields) /\ Fields' = Fields
  BY <1>1, <1>2, FormatsSound, FieldsStay
<1>7. WellFormed'
  BY <1>1, <1>2, <1>6 DEF WellFormed, Growing
<1>8. AcceptedIsWhole'
  BY <1>1 DEF AcceptedIsWhole
<1>9. PICK p, o : Follows(p, o)
  BY DEF CodecInv
<1>10. Traced(p, o) /\ WriterAt(p, o)
  BY <1>1, <1>9 DEF Follows
<1>11. Traced(p, o)'
  BY <1>1, <1>10, TraceStays
<1>12. ReaderAt(p, o)'
  <2>1. Len(got) = 0 /\ Len(values) \in Nat /\ got = << >> /\ pos = 0
    BY <1>2, <1>10 DEF WriterAt
  <2>2. Len(data') \in Nat
    BY <1>4 DEF Carries
  <2>3. p[0] = Formats[format] /\ o[0] = 0 /\ p[Len(values)] = << >> /\ offset = o[Len(values)]
    BY <1>1, <1>10 DEF Traced, WriterAt
  <2> QED BY <1>1, <1>5, <2>1, <2>2, <2>3 DEF ReaderAt
<1>13. Follows(p, o)'
  BY <1>1, <1>11, <1>12 DEF Follows
<1> QED BY <1>7, <1>8, <1>13 DEF CodecInv

(* The reader is ahead of the end of the message, at a field of the trace. *)
LEMMA AtField ==
    ASSUME CodecInv, phase = "read", plan # << >>, NEW p, NEW o, Follows(p, o)
    PROVE  LET x == values[Len(got) + 1]
               f == Head(plan)
           IN  /\ Len(got) + 1 \in 1 .. Len(values) /\ Len(got) \in Nat
               /\ Writes(plan, x, pos, p[Len(got) + 1], o[Len(got) + 1])
               /\ \/ Yields(readField(f, pos), x, o[Len(got) + 1])
                  \/ format = "RuleSet" /\ Len(x) > Utf8Cap /\ readField(f, pos) = {}
<1> DEFINE n == Len(got)
           N == Len(values)
           x == values[n + 1]
           f == Head(plan)
<1>1. Traced(p, o) /\ ReaderAt(p, o)
  BY DEF Follows
<1>2. n \in Nat /\ N \in Nat
  BY DEF CodecInv, WellFormed
<1>3. n <= N /\ p[N] = << >> /\ plan = p[n] /\ pos = o[n] /\ Arrived
  BY <1>1 DEF ReaderAt
<1>4. n + 1 \in 1 .. N /\ (n + 1) - 1 = n
  <2> HIDE DEF n, N
  <2>1. n # N
    BY <1>3
  <2> QED BY <1>2, <1>3, <2>1
<1>5. Writes(plan, x, pos, p[n + 1], o[n + 1])
  <2>1. Writes(p[(n + 1) - 1], x, o[(n + 1) - 1], p[n + 1], o[n + 1])
    BY <1>1, <1>4 DEF Traced
  <2> QED BY <1>3, <1>4, <2>1
<1>6. /\ plan \in Seq(Fields) /\ x \in Holds(f)
      /\ Lies(Encoded(f, x), pos) /\ o[n + 1] = pos + Len(Encoded(f, x))
  BY <1>5 DEF Writes
<1>7. f \in Fields
  BY <1>6
<1> HIDE DEF f, x
<1>8. \/ Yields(readField(f, pos), x, o[n + 1])
      \/ format = "RuleSet" /\ Len(x) > Utf8Cap /\ readField(f, pos) = {}
  BY <1>3, <1>6, <1>7, FieldsReadBack
<1> QED BY <1>2, <1>4, <1>5, <1>8 DEF f, x

(* A field that is read is the next of the trace. *)
LEMMA ReadFollows == ASSUME CodecInv, ReadField PROVE CodecInv'
<1> DEFINE n == Len(got)
           x == values[n + 1]
           f == Head(plan)
<1>1. phase = "read" /\ plan # << >> /\ UNCHANGED <<phase, format, values, odd, buf, offset, data, behind>>
  BY DEF ReadField
<1>2. PICK r \in readField(f, pos) :
         pos' = r.pos /\ got' = Append(got, r.v) /\ plan' = ElementFields(f, r.v) \o Tail(plan)
  BY DEF ReadField
<1>3. PICK p, o : Follows(p, o)
  BY DEF CodecInv
<1>4. /\ n + 1 \in 1 .. Len(values) /\ n \in Nat
      /\ Writes(plan, x, pos, p[n + 1], o[n + 1])
      /\ \/ Yields(readField(f, pos), x, o[n + 1])
         \/ format = "RuleSet" /\ Len(x) > Utf8Cap /\ readField(f, pos) = {}
  BY <1>1, <1>3, AtField
<1>5. Yields(readField(f, pos), x, o[n + 1])
  BY <1>2, <1>4
<1>6. r.v = x /\ r.pos = o[n + 1] /\ (format # "Tx" => o[n + 1] <= Len(data))
  <2>1. r = [v |-> x, pos |-> o[n + 1]]
    BY <1>2, <1>5 DEF Yields
  <2>2. readField(f, pos) # {}
    BY <1>2
  <2> QED BY <1>5, <2>1, <2>2 DEF Yields
<1>7. /\ plan \in Seq(Fields) /\ x \in Holds(f) /\ p[n + 1] = ElementFields(f, x) \o Tail(plan)
      /\ Lies(Encoded(f, x), pos) /\ o[n + 1] = pos + Len(Encoded(f, x))
  BY <1>4 DEF Writes
<1>8. f \in Fields
  BY <1>1, <1>7
<1>9. plan' = p[n + 1] /\ plan' \in Seq(Fields)
  <2>1. ElementFields(f, x) \o Tail(plan) \in Seq(Fields)
    BY <1>1, <1>7, PlanSound
  <2> QED BY <1>2, <1>6, <1>7, <2>1
<1>10. o[n + 1] \in Nat
  <2>1. Encoded(f, x) \in Seq(Nat)
    BY <1>7, <1>8, EncodedSeq
  <2>2. Len(Encoded(f, x)) \in Nat /\ pos \in Nat
    BY <1>7, <2>1, LenProperties DEF Lies
  <2> QED BY <1>7, <2>2
<1>11. /\ values \in Seq(Seq(Int)) /\ got \in Seq(Seq(Int)) /\ x \in Seq(Int)
       /\ format \in DOMAIN Formats /\ buf \in Seq(Nat) /\ offset \in Nat /\ offset <= Len(buf)
       /\ (format \in Growing => Len(buf) > 0)
  <2>1. x \in Seq(Int)
    BY <1>7, <1>8, HoldsSeq
  <2> QED BY <2>1 DEF CodecInv, WellFormed
<1> HIDE DEF x, f
<1>12. /\ got' \in Seq(Seq(Int)) /\ Len(got') = n + 1
       /\ (\A q \in 1 .. n : got'[q] = got[q]) /\ got'[n + 1] = x
  BY <1>2, <1>6, <1>11
<1>13. Traced(p, o) /\ ReaderAt(p, o)
  BY <1>1, <1>3 DEF Follows
<1>14. Fields' = Fields
  BY <1>1, FieldsStay
<1>15. WellFormed'
  BY <1>1, <1>9, <1>11, <1>12, <1>14 DEF WellFormed, Growing
<1>16. AcceptedIsWhole'
  BY <1>1 DEF AcceptedIsWhole
<1>17. Traced(p, o)'
  BY <1>1, <1>13, TraceStays
<1>18. Arrived'
  BY <1>1, <1>13 DEF ReaderAt, Arrived, Carries
<1>19. \A q \in 1 .. n + 1 : got'[q] = values[q]
  <2>1. \A q \in 1 .. n : got[q] = values[q]
    BY <1>13 DEF ReaderAt
  <2> HIDE DEF n
  <2>2. \A q \in 1 .. n + 1 : q \in 1 .. n \/ q = n + 1
    BY <1>4
  <2> QED BY <1>12, <2>1, <2>2 DEF x
<1>20. ReaderAt(p, o)'
  <2>1. p[Len(values)] = << >> /\ offset = o[Len(values)]
    BY <1>13 DEF ReaderAt
  <2>2. n + 1 <= Len(values)
    BY <1>4
  <2> HIDE DEF n
  <2> QED BY <1>1, <1>2, <1>6, <1>9, <1>10, <1>12, <1>18, <1>19, <2>1, <2>2 DEF ReaderAt
<1>21. Follows(p, o)'
  BY <1>1, <1>17, <1>20 DEF Follows
<1> QED BY <1>15, <1>16, <1>21 DEF CodecInv

(* A step of the reader that reads nothing. *)
LEMMA ReaderStays ==
    ASSUME CodecInv, phase = "read", phase' \in {"accepted", "rejected"}, AcceptedIsWhole',
           UNCHANGED <<format, plan, values, odd, buf, offset, data, behind, pos, got>>
    PROVE  CodecInv'
<1>1. PICK p, o : Follows(p, o)
  BY DEF CodecInv
<1>2. Traced(p, o) /\ ReaderAt(p, o)
  BY <1>1 DEF Follows
<1>3. Traced(p, o)'
  BY <1>2, TraceStays
<1>4. ReaderAt(p, o)'
  BY <1>2 DEF ReaderAt, Arrived, Carries
<1>5. Follows(p, o)'
  BY <1>3, <1>4 DEF Follows
<1>6. WellFormed'
  <2>1. Fields' = Fields
    BY FieldsStay
  <2> QED BY <2>1 DEF CodecInv, WellFormed, Growing
<1> QED BY <1>5, <1>6 DEF CodecInv

(* The reader throws only where the trace is cut or a string is too long. *)
LEMMA ThrowFollows == ASSUME CodecInv, ReadThrows PROVE CodecInv'
<1> DEFINE n == Len(got)
           x == values[n + 1]
           f == Head(plan)
<1>1. /\ phase = "read" /\ plan # << >> /\ readField(f, pos) = {} /\ phase' = "rejected"
      /\ UNCHANGED <<format, plan, values, odd, buf, offset, data, behind, pos, got>>
  BY DEF ReadThrows
<1>2. PICK p, o : Follows(p, o)
  BY DEF CodecInv
<1>3. /\ n + 1 \in 1 .. Len(values)
      /\ \/ Yields(readField(f, pos), x, o[n + 1])
         \/ format = "RuleSet" /\ Len(x) > Utf8Cap
  BY <1>1, <1>2, AtField
<1>4. CASE Yields(readField(f, pos), x, o[n + 1])
  <2>1. ~(offset <= Len(data))
    BY <1>1, <1>4 DEF Yields
  <2>2. offset \in Nat /\ Len(data) \in Nat
    <3>1. data \in Seq(Nat) /\ offset \in Nat
      BY <1>1, <1>2 DEF CodecInv, WellFormed, Follows, ReaderAt, Arrived, Carries
    <3> QED BY <3>1
  <2>3. AcceptedIsWhole'
    BY <1>1, <2>1, <2>2 DEF AcceptedIsWhole
  <2> QED BY <1>1, <2>3, ReaderStays
<1>5. CASE format = "RuleSet" /\ Len(x) > Utf8Cap
  <2>1. n + 1 \in DOMAIN values
    <3>1. values \in Seq(Seq(Int))
      BY DEF CodecInv, WellFormed
    <3> QED BY <1>3, <3>1
  <2>2. TooLong
    BY <1>5, <2>1 DEF TooLong
  <2>3. TooLong'
    BY <1>1, <2>2 DEF TooLong
  <2>4. AcceptedIsWhole'
    BY <1>1, <2>3 DEF AcceptedIsWhole
  <2> QED BY <1>1, <2>4, ReaderStays
<1> QED BY <1>3, <1>4, <1>5

(* The reader ends at the end of the trace. *)
LEMMA EndFollows == ASSUME CodecInv, ReadEnds PROVE CodecInv'
<1> DEFINE n == Len(got)
           N == Len(values)
<1>1. /\ phase = "read" /\ plan = << >>
      /\ phase' = IF format = "Tx" /\ pos # Len(data) THEN "rejected" ELSE "accepted"
      /\ UNCHANGED <<format, plan, values, odd, buf, offset, data, behind, pos, got>>
  BY DEF ReadEnds
<1>2. PICK p, o : Follows(p, o)
  BY DEF CodecInv
<1>3. Traced(p, o) /\ ReaderAt(p, o)
  BY <1>1, <1>2 DEF Follows
<1>4. n \in Nat /\ N \in Nat /\ offset \in Nat
  BY DEF CodecInv, WellFormed
<1>5. /\ n <= N /\ plan = p[n] /\ pos = o[n] /\ offset = o[N] /\ Len(data) \in Nat
      /\ (format # "Tx" => pos <= Len(data))
  <2>1. data \in Seq(Nat)
    BY <1>3 DEF ReaderAt, Arrived, Carries
  <2> QED BY <1>3, <2>1 DEF ReaderAt
<1>6. n = N
  <2> SUFFICES ASSUME n # N PROVE FALSE
    OBVIOUS
  <2>1. n + 1 \in 1 .. N /\ (n + 1) - 1 = n
    <3> HIDE DEF n, N
    <3> QED BY <1>4, <1>5
  <2>2. Writes(p[(n + 1) - 1], values[n + 1], o[(n + 1) - 1], p[n + 1], o[n + 1])
    BY <1>3, <2>1 DEF Traced
  <2>3. p[n] # << >>
    BY <2>1, <2>2 DEF Writes
  <2> QED BY <1>1, <1>5, <2>3
<1>7. pos = offset
  BY <1>5, <1>6
<1>8. AcceptedIsWhole'
  <2> HIDE DEF n, N
  <2> QED BY <1>1, <1>4, <1>5, <1>7 DEF AcceptedIsWhole
<1> QED BY <1>1, <1>8, ReaderStays

(* What the reader has of the trace is the beginning of what was written. *)
LEMMA InvImplies == CodecInv => ReadIsWritten /\ AcceptedIsWhole
<1> SUFFICES ASSUME CodecInv PROVE ReadIsWritten /\ AcceptedIsWhole
  OBVIOUS
<1> DEFINE n == Len(got)
           s == SubSeq(values, 1, n)
<1>1. values \in Seq(Seq(Int)) /\ got \in Seq(Seq(Int)) /\ n \in Nat /\ Len(values) \in Nat
  BY DEF CodecInv, WellFormed
<1>2. n <= Len(values) /\ \A q \in 1 .. n : got[q] = values[q]
  <2>1. PICK p, o : Follows(p, o)
    BY DEF CodecInv
  <2> QED BY <1>1, <2>1 DEF Follows, WriterAt, ReaderAt
<1>3. \A q \in 1 .. n : values[q] \in Seq(Int)
  BY <1>1, <1>2
<1>4. /\ s \in Seq(Seq(Int)) /\ Len(s) = (IF 1 <= n THEN n - 1 + 1 ELSE 0)
      /\ \A q \in 1 .. n - 1 + 1 : s[q] = values[1 + q - 1]
  <2>1. 1 \in Int /\ n \in Int
    BY <1>1
  <2> QED BY <1>1, <1>3, <2>1, SubSeqProperties
<1> HIDE DEF s
<1>5. Len(s) = n /\ \A q \in 1 .. n : s[q] = got[q]
  <2> HIDE DEF n
  <2> QED BY <1>1, <1>2, <1>4
<1>6. got = s
  BY <1>1, <1>4, <1>5, SeqEqual
<1> QED BY <1>6 DEF CodecInv, ReadIsWritten, s

(* Every step keeps the invariant. *)
LEMMA CodecInductive == CodecSpec => []CodecInv
<1>1. CodecInv /\ [CodecNext]_cvars => CodecInv'
  <2> SUFFICES ASSUME CodecInv, [CodecNext]_cvars PROVE CodecInv'
    OBVIOUS
  <2>1. ASSUME NEW k \in 1 .. 10, WriteField(k) PROVE CodecInv'
    BY <2>1, WriteFollows
  <2>2. ASSUME NEW n \in 0 .. offset, Deliver(n, << >>) PROVE CodecInv'
    <3>1. << >> \in Seq(Nat)
      OBVIOUS
    <3> QED BY <2>2, <3>1, DeliverFollows
  <2>3. CASE \E rest \in {<< >>, <<0>>, <<1, 1>>} : Deliver(offset, rest)
    <3>1. offset \in 0 .. offset
      BY DEF CodecInv, WellFormed
    <3>2. << >> \in Seq(Nat) /\ <<0>> \in Seq(Nat) /\ <<1, 1>> \in Seq(Nat)
      OBVIOUS
    <3>3. PICK rest \in Seq(Nat) : Deliver(offset, rest)
      BY <2>3, <3>2
    <3> QED BY <3>1, <3>3, DeliverFollows
  <2>4. CASE ReadField \/ ReadThrows \/ ReadEnds
    BY <2>4, ReadFollows, ThrowFollows, EndFollows
  <2>5. CASE UNCHANGED cvars
    <3>1. PICK p, o : Follows(p, o)
      BY DEF CodecInv
    <3>2. Traced(p, o)'
      BY <2>5, <3>1, TraceStays DEF cvars, Follows
    <3>3. Follows(p, o)'
      BY <2>5, <3>1, <3>2 DEF cvars, Follows, WriterAt, ReaderAt, Arrived, Carries
    <3>4. WellFormed'
      <4>1. Fields' = Fields
        BY <2>5, FieldsStay DEF cvars
      <4> QED BY <2>5, <4>1 DEF cvars, CodecInv, WellFormed, Growing
    <3>5. AcceptedIsWhole'
      BY <2>5 DEF cvars, CodecInv, AcceptedIsWhole, TooLong
    <3> QED BY <3>3, <3>4, <3>5 DEF CodecInv
  <2> QED BY <2>1, <2>2, <2>3, <2>4, <2>5 DEF CodecNext
<1> QED BY <1>1, InitFollows, PTL DEF CodecSpec

(* Whatever arrived of a message, and however often the writer's buffer    *)
(* grew, the fields read so far are the first of those written, with their *)
(* values: for every base, every capacity and any number of fields.        *)
THEOREM ReadsBackWhatWasWritten == CodecSpec => []ReadIsWritten
<1>1. CodecInv => ReadIsWritten
  BY InvImplies
<1> QED BY <1>1, CodecInductive, PTL

(* A reader accepts a message exactly if it arrived whole (a transaction:  *)
(* with nothing behind it), and ends where the message does; it refuses    *)
(* nothing else but a rule set with too long a string.                     *)
THEOREM AcceptsWholeMessages == CodecSpec => []AcceptedIsWhole
<1>1. CodecInv => AcceptedIsWhole
  BY InvImplies
<1> QED BY <1>1, CodecInductive, PTL

-----------------------------------------------------------------------------
(* The deck. *)

(* The position drawn for i is one of 0 .. i. *)
LEMMA DrawInRange ==
    ASSUME NEW m \in Nat, NEW word \in Nat
    PROVE  drawUniform(m, word) \in 0 .. m
<1>1. m + 1 \in Nat /\ m + 1 > 0
    OBVIOUS
<1>2. word % (m + 1) \in 0 .. (m + 1) - 1
    BY <1>1, SMT
<1> QED
    BY <1>2 DEF drawUniform

(* An exchange keeps a permutation a permutation. *)
LEMMA SwapPermutes ==
    ASSUME NEW d \in [Positions -> Positions], Injective(d),
           NEW a \in Positions, NEW b \in Positions
    PROVE  Swap(d, a, b) \in [Positions -> Positions] /\ Injective(Swap(d, a, b))
<1> DEFINE e == Swap(d, a, b)
<1>1. e \in [Positions -> Positions]
    BY DEF Swap
<1>2. \A k \in Positions : e[k] = IF k = b THEN d[a] ELSE IF k = a THEN d[b] ELSE d[k]
    BY DEF Swap
<1>3. ASSUME NEW x \in Positions, NEW y \in Positions, e[x] = e[y]
      PROVE  x = y
    BY <1>2, <1>3 DEF Injective
<1> QED
    BY <1>1, <1>3 DEF Injective

(* Every turn of the shuffle leaves a permutation of the canonical deck:   *)
(* shuffleCanonicalDeck loses no card and makes none.                      *)
THEOREM ShufflePermutes == DeckSpec => []IsPermutation
<1> USE DeckAssumption DEF Positions
<1>1. DeckInit => IsPermutation
    BY DEF DeckInit, IsPermutation, Injective
<1>2. IsPermutation /\ [DeckNext]_dvars => IsPermutation'
  <2> SUFFICES ASSUME IsPermutation, [DeckNext]_dvars
               PROVE  IsPermutation'
      OBVIOUS
  <2>1. ASSUME NEW word \in Words, DrawAccepted(word)
        PROVE  IsPermutation'
    <3>0. i \in Nat /\ word \in Nat
        BY DEF IsPermutation, Words
    <3>1. drawUniform(i, word) \in 0 .. i
        BY <3>0, DrawInRange
    <3>2. drawUniform(i, word) \in Positions
        BY <3>1 DEF IsPermutation
    <3>3. deck' \in [Positions -> Positions] /\ Injective(deck')
        BY <2>1, <3>2, SwapPermutes DEF DrawAccepted, IsPermutation
    <3>4. i' \in Positions /\ pc' = pc
        BY <2>1 DEF DrawAccepted, IsPermutation
    <3> QED
        BY <3>3, <3>4 DEF IsPermutation
  <2>2. CASE UNCHANGED dvars
      BY <2>2 DEF IsPermutation, Injective, dvars
  <2>3. ASSUME NEW word \in Words, DrawRejected(word)
        PROVE  IsPermutation'
      BY <2>3, <2>2 DEF DrawRejected
  <2>4. CASE ShuffleDone \/ Commit \/ CommitDone
      BY <2>4 DEF ShuffleDone, Commit, CommitDone, IsPermutation, Injective
  <2>5. ASSUME NEW position \in Positions, NEW ordinal \in Positions, NEW nonceOf \in Positions,
               Reveal(position, ordinal, nonceOf)
        PROVE  IsPermutation'
      BY <2>5 DEF Reveal, IsPermutation, Injective
  <2> QED
      BY <2>1, <2>2, <2>3, <2>4, <2>5 DEF DeckNext
<1> QED
    BY <1>1, <1>2, PTL DEF DeckSpec

-----------------------------------------------------------------------------
Entries ==
    [position : Positions, ordinal : Positions,
     commitment : {commitCard(o, deriveCardNonce(p), deriveDeckNonce) :
                       o \in Positions, p \in Positions}]

(* The commitments made so far are those of the deck's positions, in order. *)
Committed ==
    /\ perPosition \in Seq(Entries)
    /\ pc = "shuffle" => perPosition = << >>
    /\ pc = "open" => Len(perPosition) = DeckSize
    /\ Len(perPosition) <= DeckSize
    /\ \A k \in 1 .. Len(perPosition) :
          perPosition[k].commitment
            = commitCard(deck[k - 1], deriveCardNonce(k - 1), deriveDeckNonce)
    /\ \A r \in opened : r \in Positions \X Positions /\ deck[r[1]] = r[2]
    /\ pc # "open" => opened = {}

LEMMA CommittedInvariant == DeckSpec => []Committed
<1> USE DeckAssumption DEF Positions
<1>1. DeckInit => Committed
    BY DEF DeckInit, Committed
<1>2. Committed /\ IsPermutation /\ [DeckNext]_dvars => Committed'
  <2> SUFFICES ASSUME Committed, IsPermutation, [DeckNext]_dvars
               PROVE  Committed'
      OBVIOUS
  <2>1. ASSUME NEW word \in Words, DrawAccepted(word)
        PROVE  Committed'
      BY <2>1 DEF DrawAccepted, Committed
  <2>2. CASE UNCHANGED dvars
      BY <2>2 DEF Committed, dvars
  <2>3. ASSUME NEW word \in Words, DrawRejected(word)
        PROVE  Committed'
      BY <2>3, <2>2 DEF DrawRejected
  <2>4. CASE ShuffleDone
      BY <2>4 DEF ShuffleDone, Committed
  <2>5. CASE Commit
    <3> DEFINE n == Len(perPosition)
               entry == [position |-> n, ordinal |-> deck[n],
                         commitment |-> commitCard(deck[n], deriveCardNonce(n), deriveDeckNonce)]
    <3>1. n \in Positions /\ deck[n] \in Positions
        BY <2>5 DEF Commit, Committed, IsPermutation
    <3>2. perPosition' = Append(perPosition, entry) /\ UNCHANGED <<pc, deck, i, opened>>
        BY <2>5 DEF Commit
    <3> HIDE DEF entry
    <3>3. entry \in Entries
        BY <3>1 DEF entry, Entries
    <3>4. /\ Len(perPosition') = n + 1
          /\ perPosition'[n + 1] = entry
          /\ \A k \in 1 .. n : perPosition'[k] = perPosition[k]
        BY <3>2, <3>3 DEF Committed
    <3>5. entry.commitment = commitCard(deck[n], deriveCardNonce(n), deriveDeckNonce)
        BY DEF entry
    <3>6. ASSUME NEW k \in 1 .. Len(perPosition')
          PROVE  perPosition'[k].commitment
                   = commitCard(deck'[k - 1], deriveCardNonce(k - 1), deriveDeckNonce)
      <4>1. CASE k = n + 1
          BY <4>1, <3>2, <3>4, <3>5, (n + 1) - 1 = n DEF Committed
      <4>2. CASE k \in 1 .. n
        <5>1. perPosition[k].commitment
                = commitCard(deck[k - 1], deriveCardNonce(k - 1), deriveDeckNonce)
            BY <4>2 DEF Committed
        <5>2. perPosition'[k] = perPosition[k] /\ deck' = deck
            BY <4>2, <3>2, <3>4
        <5> QED BY <5>1, <5>2
      <4> QED
          BY <3>4, <4>1, <4>2 DEF Committed
    <3>7. pc = "commit" /\ n < DeckSize
        BY <2>5 DEF Commit
    <3>8. perPosition' \in Seq(Entries)
        BY <3>2, <3>3 DEF Committed
    <3>9. Len(perPosition') <= DeckSize
        BY <3>4, <3>7 DEF Committed
    <3>10. opened' = {}
        BY <3>2, <3>7 DEF Committed
    <3> QED
        BY <3>2, <3>6, <3>7, <3>8, <3>9, <3>10 DEF Committed
  <2>6. CASE CommitDone
      BY <2>6 DEF CommitDone, Committed
  <2>7. ASSUME NEW position \in Positions, NEW ordinal \in Positions, NEW nonceOf \in Positions,
               Reveal(position, ordinal, nonceOf)
        PROVE  Committed'
    <3>1. commitCard(ordinal, deriveCardNonce(nonceOf), deriveDeckNonce)
            = perPosition[position + 1].commitment
        BY <2>7 DEF Reveal, verifyRevealProof
    <3>2. position + 1 \in 1 .. Len(perPosition) /\ (position + 1) - 1 = position
        BY <2>7 DEF Reveal, Committed
    <3>3. perPosition[position + 1].commitment
            = commitCard(deck[position], deriveCardNonce(position), deriveDeckNonce)
        BY <3>2 DEF Committed
    <3>4. deck[position] = ordinal
        BY <3>1, <3>3 DEF commitCard
    <3>5. UNCHANGED <<pc, deck, i, perPosition>>
        BY <2>7 DEF Reveal
    <3>6. opened' = opened \cup {<<position, ordinal>>} /\ pc = "open"
        BY <2>7 DEF Reveal
    <3>7. \A r \in opened' : r \in Positions \X Positions /\ deck[r[1]] = r[2]
        BY <3>4, <3>6 DEF Committed
    <3> QED
        BY <3>5, <3>6, <3>7 DEF Committed
  <2> QED
      BY <2>1, <2>2, <2>3, <2>4, <2>5, <2>6, <2>7 DEF DeckNext
<1> QED
    BY <1>1, <1>2, ShufflePermutes, PTL DEF DeckSpec

(* verifyRevealProof binds: however reveals are made, each position opens  *)
(* to one card and each card at one position.                              *)
THEOREM RevealsBind == DeckSpec => []RevealsAreBinding
<1>1. Committed /\ IsPermutation => RevealsAreBinding
    BY DEF Committed, IsPermutation, Injective, RevealsAreBinding
<1> QED
    BY <1>1, CommittedInvariant, ShufflePermutes, PTL

-----------------------------------------------------------------------------
(* shuffleCanonicalDeck implements drawing without replacement: with the   *)
(* positions behind i as the cards drawn, each accepted word and the end   *)
(* of the loop draw one card, and every other step leaves the urn alone.   *)
THEOREM ShuffleImplementsUrn == DeckSpec => ImplementsUrn
<1> USE DeckAssumption DEF Positions
<1> DEFINE U == {deck[k] : k \in 0 .. FixedFrom - 1}
           D == [n \in 1 .. DeckSize - FixedFrom |-> deck[DeckSize - n]]
<1>1. DeckInit => Deal!Init
  <2> SUFFICES ASSUME DeckInit PROVE U = Positions /\ D = << >>
      BY DEF Deal!Init
  <2>1. FixedFrom = DeckSize
      BY DEF DeckInit, FixedFrom
  <2>2. U = Positions
      BY <2>1 DEF DeckInit
  <2>3. D = [n \in 1 .. 0 |-> deck[DeckSize - n]]
      BY <2>1
  <2> QED
      BY <2>2, <2>3
<1>2. IsPermutation /\ [DeckNext]_dvars => [Deal!Next]_<<U, D>>
  <2> SUFFICES ASSUME IsPermutation, [DeckNext]_dvars
               PROVE  Deal!Next \/ UNCHANGED <<U, D>>
      OBVIOUS
  <2>1. ASSUME FixedFrom \in 1 .. DeckSize, FixedFrom' = FixedFrom - 1,
               NEW j \in 0 .. FixedFrom - 1, deck' = Swap(deck, FixedFrom - 1, j)
        PROVE  Deal!Next
    <3> DEFINE f == FixedFrom - 1
               card == deck[j]
    <3>1. f \in Positions /\ j \in Positions /\ f \in Nat
        BY <2>1
    <3>2. \A k \in Positions :
             deck'[k] = IF k = j THEN deck[f] ELSE IF k = f THEN deck[j] ELSE deck[k]
        BY <2>1, <3>1 DEF Swap, IsPermutation
    <3>3. card \in U
        BY <2>1
    <3>4. U' = U \ {card}
      <4>1. ASSUME NEW x \in U' PROVE x \in U \ {card}
        <5>1. PICK k \in 0 .. f - 1 : x = deck'[k]
            BY <2>1
        <5>2. x = IF k = j THEN deck[f] ELSE deck[k]
            BY <5>1, <3>1, <3>2
        <5>3. x \in U
            BY <5>2, <3>1, <2>1
        <5>4. k \in Positions /\ k # f
            BY <3>1
        <5>5. deck[f] = deck[j] => f = j
            BY <3>1 DEF IsPermutation, Injective
        <5>6. deck[k] = deck[j] => k = j
            BY <3>1, <5>4 DEF IsPermutation, Injective
        <5>7. x # card
            BY <5>2, <5>4, <5>5, <5>6
        <5> QED BY <5>3, <5>7
      <4>2. ASSUME NEW x \in U \ {card} PROVE x \in U'
        <5>1. PICK k \in 0 .. f : x = deck[k]
            BY <2>1
        <5>2. CASE k = f
          <6>1. j \in 0 .. f - 1 /\ deck'[j] = x
              BY <5>1, <5>2, <3>1, <3>2, <2>1, <4>2
          <6> QED BY <6>1, <2>1
        <5>3. CASE k # f
          <6>1. k \in 0 .. f - 1 /\ deck'[k] = x
              BY <5>1, <5>3, <3>1, <3>2, <2>1, <4>2
          <6> QED BY <6>1, <2>1
        <5> QED BY <5>2, <5>3
      <4> QED BY <4>1, <4>2
    <3>5. D' = Append(D, card)
      <4> DEFINE m == DeckSize - FixedFrom
      <4>1. m \in Nat /\ DeckSize - FixedFrom' = m + 1
          BY <2>1
      <4>2. D \in Seq(Positions) /\ Len(D) = m
        <5>1. \A n \in 1 .. m : DeckSize - n \in Positions
            BY <2>1
        <5>2. D \in [1 .. m -> Positions]
            BY <5>1 DEF IsPermutation
        <5> QED BY <5>2, <4>1, SMTT(30)
      <4>3. D' = [n \in 1 .. m + 1 |-> deck'[DeckSize - n]]
          BY <4>1
      <4>4. \A n \in 1 .. m : deck'[DeckSize - n] = deck[DeckSize - n]
          BY <3>1, <3>2, <2>1
      <4>5. deck'[DeckSize - (m + 1)] = card
          BY <3>1, <3>2, <2>1
      <4>6. Append(D, card) = [n \in 1 .. m + 1 |-> IF n = m + 1 THEN card ELSE D[n]]
          BY <4>1, <4>2
      <4>7. \A n \in 1 .. m + 1 :
               deck'[DeckSize - n] = IF n = m + 1 THEN card ELSE D[n]
        <5> SUFFICES ASSUME NEW n \in 1 .. m + 1
                     PROVE  deck'[DeckSize - n] = IF n = m + 1 THEN card ELSE D[n]
            OBVIOUS
        <5>1. CASE n = m + 1
            BY <5>1, <4>5
        <5>2. CASE n \in 1 .. m
            BY <5>2, <4>1, <4>4
        <5> QED BY <5>1, <5>2, <4>1
      <4> QED BY <4>3, <4>6, <4>7
    <3> QED
        BY <3>3, <3>4, <3>5 DEF Deal!Next, Deal!Draw
  <2>2. CASE UNCHANGED <<deck, FixedFrom>>
      BY <2>2
  <2>3. ASSUME NEW word \in Words, DrawAccepted(word)
        PROVE  Deal!Next
    <3>1. i \in Nat /\ word \in Nat /\ i >= 1
        BY <2>3 DEF IsPermutation, Words, DrawAccepted
    <3>2. drawUniform(i, word) \in 0 .. i
        BY <3>1, DrawInRange
    <3>3. FixedFrom = i + 1 /\ FixedFrom' = i
        BY <2>3, <3>1 DEF DrawAccepted, FixedFrom
    <3>4. deck' = Swap(deck, FixedFrom - 1, drawUniform(i, word))
        BY <2>3, <3>1, <3>3 DEF DrawAccepted
    <3>5. FixedFrom \in 1 .. DeckSize /\ FixedFrom' = FixedFrom - 1
        BY <3>1, <3>3 DEF IsPermutation
    <3>6. drawUniform(i, word) \in 0 .. FixedFrom - 1
        BY <3>1, <3>2, <3>3
    <3> QED
        BY <2>1, <3>4, <3>5, <3>6
  <2>4. CASE ShuffleDone
    <3>1. FixedFrom = 1 /\ FixedFrom' = 0
        BY <2>4 DEF ShuffleDone, FixedFrom
    <3>2. deck' = Swap(deck, FixedFrom - 1, 0)
        BY <2>4, <3>1 DEF ShuffleDone, Swap, IsPermutation
    <3> QED
        BY <2>1, <3>1, <3>2
  <2>5. CASE (\E word \in Words : DrawRejected(word)) \/ Commit \/ CommitDone \/ UNCHANGED dvars
      BY <2>2, <2>5 DEF DrawRejected, Commit, CommitDone, dvars, FixedFrom
  <2>6. CASE \E position, ordinal, nonceOf \in Positions : Reveal(position, ordinal, nonceOf)
      BY <2>2, <2>6 DEF Reveal, FixedFrom
  <2> QED
      BY <2>3, <2>4, <2>5, <2>6 DEF DeckNext
<1> QED
    BY <1>1, <1>2, ShufflePermutes, PTL DEF DeckSpec, ImplementsUrn, Deal!Spec

-----------------------------------------------------------------------------
(* Counting the words that a draw accepts. *)

LEMMA TimesMonotone ==
    ASSUME NEW m \in Nat, NEW a \in Nat, NEW b \in Nat, a < b
    PROVE  a * m + m <= b * m
<1>1. PICK d \in Nat : b = a + 1 + d
    BY b - a - 1 \in Nat
<1>2. b * m = a * m + m + d * m
    BY <1>1
<1>3. d * m \in Nat /\ a * m \in Nat
    OBVIOUS
<1> QED
    BY <1>2, <1>3

(* Quotient and remainder. *)
LEMMA Division ==
    ASSUME NEW m \in Nat \ {0}, NEW w \in Nat
    PROVE  /\ w \div m \in Nat
           /\ w % m \in 0 .. m - 1
           /\ w = (w \div m) * m + (w % m)
OBVIOUS

(* There is one remainder. *)
LEMMA RemainderIs ==
    ASSUME NEW m \in Nat \ {0}, NEW k \in Nat, NEW j \in 0 .. m - 1
    PROVE  (k * m + j) % m = j
<1> DEFINE w == k * m + j
           d == w \div m
           r == w % m
<1>1. w \in Nat /\ k * m \in Nat
    OBVIOUS
<1>2. d \in Nat /\ r \in 0 .. m - 1 /\ w = d * m + r
    BY <1>1, Division
<1>3. d * m \in Nat
    BY <1>2
<1> HIDE DEF d, r
<1>4. ~(d < k)
    BY <1>1, <1>2, <1>3, TimesMonotone
<1>5. ~(k < d)
    BY <1>1, <1>2, <1>3, TimesMonotone
<1>6. d = k
    BY <1>2, <1>4, <1>5
<1> QED
    BY <1>1, <1>2, <1>6 DEF r

(* The accepted words that fall on a position are as many as the limit     *)
(* holds multiples of the number of positions.                             *)
LEMMA HitsCounted ==
    ASSUME NEW m \in Nat \ {0}, NEW q \in Nat, q * m <= WordRange, NEW j \in 0 .. m - 1
    PROVE  Cardinality({w \in Words : w < q * m /\ w % m = j}) = q
<1> USE DeckAssumption
<1> DEFINE H == {w \in Words : w < q * m /\ w % m = j}
           f == [k \in 0 .. q - 1 |-> k * m + j]
<1>0. q * m \in Nat
    OBVIOUS
<1>1. ASSUME NEW k \in 0 .. q - 1 PROVE k * m + j \in H
  <2>1. k \in Nat /\ k < q /\ k * m \in Nat
      OBVIOUS
  <2>2. k * m + m <= q * m
      BY <2>1, TimesMonotone
  <2>3. k * m + j \in Nat /\ k * m + j < q * m
      BY <1>0, <2>1, <2>2
  <2>4. (k * m + j) % m = j
      BY <2>1, RemainderIs
  <2>5. k * m + j \in Words
      BY <1>0, <2>3 DEF Words
  <2> QED
      BY <2>3, <2>4, <2>5
<1>2. ASSUME NEW k \in 0 .. q - 1, NEW l \in 0 .. q - 1, k * m + j = l * m + j PROVE k = l
  <2>1. k \in Nat /\ l \in Nat /\ k * m \in Nat /\ l * m \in Nat
      OBVIOUS
  <2>2. k * m = l * m
      BY <1>2, <2>1
  <2>3. ~(k < l) /\ ~(l < k)
      BY <2>1, <2>2, TimesMonotone
  <2> QED
      BY <2>1, <2>3
<1>3. ASSUME NEW w \in H PROVE \E k \in 0 .. q - 1 : k * m + j = w
  <2>1. w \in Nat /\ w < q * m /\ w % m = j
      BY DEF Words
  <2>2. w \div m \in Nat /\ w = (w \div m) * m + j
      BY <2>1, Division
  <2> DEFINE k == w \div m
  <2>3. k * m \in Nat /\ k * m <= w
      BY <2>2
  <2>4. ~(q <= k)
    <3>1. CASE q = k
        BY <1>0, <2>1, <2>3, <3>1
    <3>2. CASE q < k
        BY <1>0, <2>1, <2>2, <2>3, <3>2, TimesMonotone
    <3> QED
        BY <2>2, <3>1, <3>2
  <2>5. k \in 0 .. q - 1 /\ k * m + j = w
      BY <2>2, <2>4
  <2> HIDE DEF k
  <2> QED
      BY <2>5
<1> HIDE DEF H
<1>4. f \in Bijection(0 .. q - 1, H)
  <2>1. f \in [0 .. q - 1 -> H]
      BY <1>1
  <2>2. \A k, l \in 0 .. q - 1 : f[k] = f[l] => k = l
      BY <1>2
  <2>3. \A w \in H : \E k \in 0 .. q - 1 : f[k] = w
      BY <1>3
  <2> HIDE DEF f
  <2> QED
      BY <2>1, <2>2, <2>3 DEF Bijection, Injection, IsInjective, Surjection
<1>5. IsFiniteSet(0 .. q - 1) /\ Cardinality(0 .. q - 1) = q
    BY FS_Interval
<1>6. ExistsBijection(0 .. q - 1, H)
    BY <1>4 DEF ExistsBijection
<1>7. Cardinality(H) = q
    BY <1>5, <1>6, FS_Bijection
<1> QED
    BY <1>7 DEF H

(* drawUniform is fair at every turn of the loop, for every size of deck   *)
(* and every range of words: each of the positions up to i comes up for    *)
(* the same number of accepted words, and for at least one.                *)
THEOREM DrawsAreUnbiased == DeckSpec => []DrawIsUnbiased
<1> USE DeckAssumption
<1>1. IsPermutation => DrawIsUnbiased
  <2> SUFFICES ASSUME IsPermutation PROVE DrawIsUnbiased
      OBVIOUS
  <2> DEFINE m == i + 1
             q == WordRange \div m
             accepted == {w \in Words : w < limit(i)}
             Hits(j) == Cardinality({w \in accepted : drawUniform(i, w) = j})
  <2>1. i \in Nat /\ m \in Nat \ {0} /\ m <= WordRange
      BY DEF IsPermutation, Positions
  <2>2. q \in Nat /\ WordRange % m \in 0 .. m - 1 /\ WordRange = q * m + (WordRange % m)
      BY <2>1, Division
  <2>3. q * m <= WordRange /\ q > 0
    <3>1. q * m \in Nat
        BY <2>1, <2>2
    <3>2. q # 0
      <4> SUFFICES ASSUME q = 0 PROVE FALSE
          OBVIOUS
      <4>1. q * m = 0
          BY <2>1
      <4> QED
          BY <2>1, <2>2, <4>1
    <3> QED
        BY <2>1, <2>2, <3>1, <3>2
  <2> HIDE DEF q
  <2>4. \A j \in 0 .. i : Cardinality({w \in Words : w < q * m /\ w % m = j}) = q
      BY <2>1, <2>2, <2>3, HitsCounted
  <2>5. ASSUME NEW j \in 0 .. i PROVE Hits(j) = q
    <3>1. {w \in accepted : drawUniform(i, w) = j} = {w \in Words : w < q * m /\ w % m = j}
        BY DEF limit, drawUniform, q
    <3> QED
        BY <3>1, <2>4
  <2>6. 0 \in 0 .. i
      BY <2>1
  <2> QED
      BY <2>2, <2>3, <2>5, <2>6 DEF DrawIsUnbiased
<1> QED
    BY <1>1, ShufflePermutes, PTL
=============================================================================
