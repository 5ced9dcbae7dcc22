--------------------------- MODULE ArithmeticProofs --------------------------
(***************************************************************************)
(* The functions of nostdlib.c are exact for words of any width.           *)
(*                                                                         *)
(* Division: the loop that doubles remembers in past how b grew; the loop  *)
(* that subtracts goes back over it, so that                               *)
(* dividend = res * (the next b) + a throughout.                           *)
(*                                                                         *)
(* Shifts: after k steps the halves together are the argument shifted by k.*)
(***************************************************************************)
EXTENDS Arithmetic, TLAPS

USE IntTopAssumption

T == Top(call.fn)
Dividend == Magnitude(T, call.x)
Divisor == Magnitude(T, call.n)

CallType ==
  /\ call \in [fn : Function, x : Nat, n : Nat, negative : BOOLEAN]
  /\ call.x \in Word(T) /\ call.n \in Word(T)

DTypeOK ==
  /\ CallType
  /\ a \in Nat /\ b \in Nat /\ count \in Nat /\ res \in Nat /\ past \in Seq(Nat)
  /\ pc \in {"idle", "double", "subtract", "done", "exit"}

\* Each value of past is twice the one before it, from the divisor on.
Doubled ==
  /\ Len(past) >= 1 /\ past[1] = Divisor /\ Divisor >= 1
  /\ \A i \in 1 .. Len(past) : past[i] \in 1 .. 2 * T - 1
  /\ \A i \in 1 .. Len(past) - 1 : past[i + 1] = 2 * past[i]

\* What b was before its last halving.
Above == IF count = Len(past) THEN 2 * past[count] ELSE past[count + 1]

Doubling ==
  /\ Doubled
  /\ count = Len(past) /\ b = past[count] /\ a = Dividend /\ res = 0

Subtracting ==
  /\ Doubled
  /\ count \in 0 .. Len(past)
  /\ count > 0 => b = past[count]
  /\ Dividend = res * Above + a /\ a < Above

SignRight ==
  /\ call.fn # "__modsi3" => (call.negative <=> Negative(T, call.x) # Negative(T, call.n))
  /\ call.fn = "__modsi3" /\ call.x # T /\ call.negative => call.n = T

IInv ==
  /\ DTypeOK
  /\ pc = "double" => Doubling /\ SignRight
  /\ pc \in {"subtract", "done"} => Subtracting /\ SignRight
  /\ pc = "done" => count = 0
-----------------------------------------------------------------------------
LEMMA TopType == \A fn : Top(fn) \in Nat \ {0}
BY DEF Top, LongTop

\* A word has a magnitude that is no larger than the sign bit.
LEMMA MagnitudeType ==
  ASSUME NEW top \in Nat \ {0}, NEW u \in Word(top)
  PROVE  Magnitude(top, u) \in 0 .. top /\ (u # 0 => Magnitude(top, u) >= 1)
BY DEF Word, Magnitude, Negative, Neg

\* Below the sign bit twice a word is a word.
LEMMA WrapSmall ==
  ASSUME NEW top \in Nat \ {0}, NEW i \in 0 .. 2 * top - 1
  PROVE  Wrap(top, i) = i
BY DEF Wrap

\* A step of the second loop keeps dividend = res * (the next b) + a.
LEMMA SubtractStep ==
  ASSUME NEW r \in Nat, NEW c \in Nat \ {0}, NEW v \in Nat, NEW top \in Nat \ {0},
         v < 2 * c, r * (2 * c) + v <= top
  PROVE  /\ v >= c => (2 * r + 1) * c + (v - c) = r * (2 * c) + v
         /\ v < c => (2 * r) * c + v = r * (2 * c) + v
         /\ v >= c => 2 * r + 1 <= top
         /\ v < c => 2 * r <= top
<1>1. (2 * r) * c = r * (2 * c) /\ (2 * r + 1) * c = r * (2 * c) + c
  OBVIOUS
<1>2. (2 * r) * c >= 2 * r /\ (2 * r + 1) * c >= 2 * r + 1
  <2>1. \A m \in Nat : m * c >= m
    OBVIOUS
  <2>2. QED  BY <2>1
<1>3. r * (2 * c) \in Nat /\ (2 * r) * c \in Nat /\ (2 * r + 1) * c \in Nat
  OBVIOUS
<1>4. QED  BY <1>1, <1>2, <1>3

LEMMA NoCallType ==
  /\ NoCall.fn = "__divsi3" /\ NoCall.x = 0 /\ NoCall.n = 1
  /\ NoCall \in [fn : Function, x : Nat, n : Nat, negative : BOOLEAN]
  /\ {0, 1} \subseteq Word(Top("__divsi3"))
BY TopType DEF NoCall, Function, Word

LEMMA InitIInv == Idle => IInv
BY NoCallType DEF Idle, IInv, DTypeOK, CallType, T

LEMMA DivideIInv ==
  ASSUME NEW fn \in Function, NEW x \in Word(Top(fn)), NEW n \in Word(Top(fn)),
         Divide(fn, x, n)
  PROVE  IInv'
<1> DEFINE top == Top(fn)
<1>1. top \in Nat \ {0}  BY TopType
<1>2. PICK known \in (IF fn = "__modsi3" THEN BOOLEAN ELSE {FALSE}) :
        call' = [fn |-> fn, x |-> x, n |-> n, negative |-> SignOf(fn, x, n, known)]
  BY DEF Divide
<1>3. /\ Magnitude(top, x) \in 0 .. top /\ Magnitude(top, n) \in 0 .. top
      /\ n # 0 => Magnitude(top, n) >= 1
  BY <1>1, MagnitudeType
<1>4. /\ a' = Magnitude(top, x) /\ b' = Magnitude(top, n)
      /\ count' = 1 /\ res' = 0 /\ past' = <<Magnitude(top, n)>>
      /\ pc' = IF n = 0 THEN "exit" ELSE "double"
  BY DEF Divide
<1>5. call'.fn = fn /\ call'.x = x /\ call'.n = n /\ T' = top
      /\ call'.negative = SignOf(fn, x, n, known)
  BY <1>2 DEF T
<1>6. SignOf(fn, x, n, known) \in BOOLEAN
  BY DEF SignOf
<1>7. DTypeOK'
  <2>1. CallType'
    BY <1>1, <1>2, <1>5, <1>6 DEF CallType, Word
  <2>2. QED  BY <2>1, <1>3, <1>4 DEF DTypeOK
<1>8. pc' = "double" => Doubling'
  BY <1>1, <1>3, <1>4, <1>5 DEF Doubling, Doubled, Dividend, Divisor
<1>9. SignRight'
  <2>1. fn # "__modsi3" => SignRight'
    BY <1>2, <1>5 DEF SignRight, SignOf, Passed
  <2>2. fn = "__modsi3" => SignRight'
    BY <1>1, <1>5 DEF SignRight, SignOf, Passed, Magnitude, Negative, Neg, Word
  <2>3. QED  BY <2>1, <2>2
<1>10. QED  BY <1>4, <1>7, <1>8, <1>9 DEF IInv

LEMMA DoubleIInv ==
  ASSUME IInv, Double
  PROVE  IInv'
<1>1. T \in Nat \ {0} /\ T' = T /\ Divisor' = Divisor /\ Dividend' = Dividend
      /\ Dividend \in 0 .. T
  BY TopType, MagnitudeType DEF Double, T, Divisor, Dividend, IInv, DTypeOK, CallType
<1>2. Doubling /\ SignRight /\ DTypeOK
  BY DEF IInv, Double
<1>3. b \in 1 .. T - 1 /\ b = past[Len(past)]
  BY <1>1, <1>2 DEF Double, CanDouble, Negative, Doubling, Doubled, T, DTypeOK
<1>4. b' = 2 * b /\ b' \in 1 .. 2 * T - 1
  <2>1. 2 * b \in 0 .. 2 * T - 1  BY <1>1, <1>3
  <2>2. Wrap(T, 2 * b) = 2 * b  BY <2>1, <1>1, WrapSmall
  <2>3. QED  BY <2>1, <2>2, <1>1, <1>3 DEF Double, T
<1>5. past' = Append(past, b') /\ past \in Seq(Nat) /\ Len(past') = Len(past) + 1
      /\ past'[Len(past) + 1] = b' /\ \A i \in 1 .. Len(past) : past'[i] = past[i]
  BY <1>2 DEF Double, DTypeOK
<1>6. Doubled'
  <2>1. Doubled /\ Len(past) \in Nat
    BY <1>2 DEF Doubling, DTypeOK
  <2>2. Len(past') >= 1 /\ past'[1] = Divisor /\ Divisor >= 1
    BY <1>5, <2>1 DEF Doubled
  <2>3. \A i \in 1 .. Len(past') : past'[i] \in 1 .. 2 * T - 1
    <3>1. TAKE i \in 1 .. Len(past')
    <3>2. i \in 1 .. Len(past) \/ i = Len(past) + 1
      BY <1>5, <2>1
    <3>3. QED  BY <3>2, <1>4, <1>5, <2>1 DEF Doubled
  <2>4. \A i \in 1 .. Len(past') - 1 : past'[i + 1] = 2 * past'[i]
    <3>1. TAKE i \in 1 .. Len(past') - 1
    <3>2. (i \in 1 .. Len(past) - 1 /\ i + 1 \in 1 .. Len(past)) \/ i = Len(past)
      BY <1>5, <2>1
    <3>3. CASE i = Len(past)
      BY <3>3, <1>3, <1>4, <1>5, <2>1, <2>2 DEF Doubled
    <3>4. CASE i \in 1 .. Len(past) - 1 /\ i + 1 \in 1 .. Len(past)
      BY <3>4, <1>5, <2>1 DEF Doubled
    <3>5. QED  BY <3>2, <3>3, <3>4
  <2>5. QED  BY <1>1, <2>2, <2>3, <2>4 DEF Doubled
<1>7. Doubling'
  BY <1>1, <1>2, <1>5, <1>6 DEF Doubling, Double, DTypeOK
<1>8. DTypeOK' /\ SignRight'
  <2>1. CallType'  BY <1>2 DEF Double, DTypeOK, CallType, T
  <2>2. SignRight'  BY <1>2 DEF Double, SignRight, T
  <2>3. QED  BY <2>1, <2>2, <1>2, <1>4, <1>5 DEF Double, DTypeOK
<1>9. QED  BY <1>7, <1>8 DEF IInv, Double

LEMMA EndDoubleIInv ==
  ASSUME IInv, EndDouble
  PROVE  IInv'
<1>1. T \in Nat \ {0} /\ T' = T /\ Divisor' = Divisor /\ Dividend' = Dividend
      /\ Dividend \in 0 .. T
  BY TopType, MagnitudeType DEF EndDouble, T, Divisor, Dividend, IInv, DTypeOK, CallType
<1>2. Doubling /\ SignRight /\ DTypeOK
  BY DEF IInv, EndDouble
<1>3. b >= 1 /\ b = past[count] /\ a <= b
  BY <1>1, <1>2 DEF EndDouble, CanDouble, Negative, Doubling, Doubled, T, DTypeOK
<1>4. Doubled' /\ SignRight' /\ DTypeOK'
  BY <1>1, <1>2
    DEF EndDouble, Doubling, Doubled, SignRight, DTypeOK, CallType, T
<1>5. Above' = 2 * b
  BY <1>2, <1>3 DEF EndDouble, Doubling, Above
<1>6. Subtracting'
  BY <1>1, <1>2, <1>3, <1>4, <1>5 DEF EndDouble, Doubling, Subtracting, DTypeOK
<1>7. QED  BY <1>4, <1>6 DEF IInv, EndDouble

LEMMA SubtractIInv ==
  ASSUME IInv, Subtract
  PROVE  IInv'
<1>1. T \in Nat \ {0} /\ T' = T /\ Divisor' = Divisor /\ Dividend' = Dividend
      /\ Dividend \in 0 .. T
  BY TopType, MagnitudeType DEF Subtract, Fits, T, Divisor, Dividend, IInv, DTypeOK, CallType
<1>2. Subtracting /\ SignRight /\ DTypeOK
  BY DEF IInv, Subtract, Fits
<1>3. b = past[count] /\ b \in Nat \ {0} /\ Above = 2 * b
      /\ count \in 1 .. Len(past) /\ Len(past) \in Nat
  <2>1. Doubled /\ count \in 1 .. Len(past) /\ Len(past) \in Nat /\ b = past[count]
    BY <1>2 DEF Subtract, Fits, Subtracting, DTypeOK
  <2>2. b \in 1 .. 2 * T - 1
    BY <2>1 DEF Doubled
  <2>3. count # Len(past) => count \in 1 .. Len(past) - 1
    BY <2>1
  <2>4. Above = 2 * b
    BY <2>1, <2>3 DEF Doubled, Above
  <2>5. QED  BY <2>1, <2>2, <2>4, <1>1
<1>4. a < 2 * b /\ res * (2 * b) + a <= T
  BY <1>1, <1>2, <1>3 DEF Subtracting
<1>5. count' = count - 1 /\ past' = past /\ b' = b \div 2
      /\ count' \in Nat /\ b' \in Nat /\ a \in Nat /\ res \in Nat
  <2>1. count' = count - 1 /\ past' = past /\ b' = b \div 2
    BY DEF Subtract
  <2>2. a \in Nat /\ res \in Nat
    BY <1>2 DEF DTypeOK
  <2>3. QED  BY <1>3, <2>1, <2>2
<1>6. Above' = b
  BY <1>3, <1>5 DEF Above
<1>7. count' > 0 => b' = past'[count']
  <2>1. count' > 0 => b = 2 * past[count - 1] /\ past[count - 1] \in Nat
    <3>1. SUFFICES ASSUME count' > 0 PROVE b = 2 * past[count - 1] /\ past[count - 1] \in Nat
      OBVIOUS
    <3>2. count - 1 \in 1 .. Len(past) - 1 /\ count - 1 \in 1 .. Len(past)
          /\ (count - 1) + 1 = count
      BY <3>1, <1>3, <1>5
    <3>3. Doubled
      BY <1>2 DEF Subtracting
    <3>4. past[count - 1] \in 1 .. 2 * T - 1 /\ past[(count - 1) + 1] = 2 * past[count - 1]
      BY <3>2, <3>3 DEF Doubled
    <3>5. QED  BY <3>2, <3>4, <1>1, <1>3
  <2>2. QED  BY <2>1, <1>3, <1>5
<1>8. Doubled' /\ SignRight' /\ CallType'
  BY <1>1, <1>2
    DEF Subtract, Fits, Subtracting, Doubled, SignRight, DTypeOK, CallType, T
<1>9. CASE a >= b
  <2>1. /\ (2 * res + 1) * b + (a - b) = res * (2 * b) + a
        /\ 2 * res + 1 <= T
    BY <1>1, <1>3, <1>4, <1>5, <1>9, SubtractStep
  <2>2. a' = a - b /\ res' = 2 * res + 1
    <3>1. 2 * res + 1 \in 0 .. 2 * T - 1  BY <1>1, <1>2, <2>1 DEF DTypeOK
    <3>2. QED  BY <3>1, <1>1, <1>9, WrapSmall DEF Subtract, Fits, T
  <2>3. a' \in Nat /\ res' \in Nat /\ b' \in Nat /\ count' \in Nat
    <3>1. a - b \in Nat  BY <1>3, <1>5, <1>9
    <3>2. 2 * res + 1 \in Nat  BY <1>5
    <3>3. QED  BY <3>1, <3>2, <1>5, <2>2
  <2>4. Dividend' = res' * b + a' /\ a' < b
    <3>1. Dividend = res * (2 * b) + a  BY <1>2, <1>3 DEF Subtracting
    <3>2. Dividend' = res' * b + a'  BY <3>1, <1>1, <2>1, <2>2
    <3>3. a' < b  BY <1>3, <1>4, <1>5, <2>2, SMTT(30)
    <3>4. QED  BY <3>2, <3>3
  <2>5. QED
    BY <1>2, <1>3, <1>5, <1>6, <1>7, <1>8, <2>3, <2>4
      DEF Subtract, Fits, IInv, DTypeOK, Subtracting
<1>10. CASE ~ a >= b
  <2>1. /\ (2 * res) * b + a = res * (2 * b) + a
        /\ 2 * res <= T /\ a < b
    <3>1. a < b  BY <1>3, <1>5, <1>10
    <3>2. QED  BY <3>1, <1>1, <1>3, <1>4, <1>5, SubtractStep
  <2>2. a' = a /\ res' = 2 * res
    <3>1. 2 * res \in 0 .. 2 * T - 1  BY <1>1, <1>2, <2>1 DEF DTypeOK
    <3>2. QED  BY <3>1, <1>1, <1>10, WrapSmall DEF Subtract, Fits, T
  <2>3. a' \in Nat /\ res' \in Nat /\ b' \in Nat /\ count' \in Nat
    BY <1>5, <2>2
  <2>4. Dividend' = res' * b + a' /\ a' < b
    <3>1. Dividend = res * (2 * b) + a  BY <1>2, <1>3 DEF Subtracting
    <3>2. QED  BY <3>1, <1>1, <2>1, <2>2
  <2>5. QED
    BY <1>2, <1>3, <1>5, <1>6, <1>7, <1>8, <2>3, <2>4
      DEF Subtract, Fits, IInv, DTypeOK, Subtracting
<1>11. QED  BY <1>9, <1>10

LEMMA EndSubtractIInv ==
  ASSUME IInv, EndSubtract
  PROVE  IInv'
<1>1. T' = T /\ Divisor' = Divisor /\ Dividend' = Dividend /\ Above' = Above
  BY DEF EndSubtract, T, Divisor, Dividend, Above
<1>2. Subtracting /\ SignRight /\ DTypeOK
  BY DEF IInv, EndSubtract
<1>3. Subtracting' /\ SignRight' /\ DTypeOK'
  BY <1>1, <1>2
    DEF EndSubtract, Subtracting, Doubled, SignRight, DTypeOK, CallType, T
<1>4. QED  BY <1>3 DEF IInv, EndSubtract

LEMMA ReturnIInv ==
  ASSUME IInv, Return
  PROVE  IInv'
<1>1. CallType'
  BY NoCallType DEF Return, CallType, T
<1>2. QED  BY <1>1 DEF Return, IInv, DTypeOK

\* Every step of the division keeps the invariant.
LEMMA NextIInv == IInv /\ [Next]_dvars => IInv'
<1>1. ASSUME IInv, Next PROVE IInv'
  BY <1>1, DivideIInv, DoubleIInv, EndDoubleIInv, SubtractIInv, EndSubtractIInv, ReturnIInv
    DEF Next, DivisionStep
<1>2. ASSUME IInv, UNCHANGED dvars PROVE IInv'
  BY <1>2 DEF dvars, IInv, DTypeOK, CallType, Doubling, Subtracting, Doubled, SignRight,
              Above, Dividend, Divisor, T
<1>3. QED  BY <1>1, <1>2

THEOREM DivisionInvariant == DivisionSpec => []IInv
BY InitIInv, NextIInv, PTL DEF DivisionSpec
-----------------------------------------------------------------------------
\* The quotient of magnitudes, with the sign of the rule, is truncated.
LEMMA TruncatedSigns ==
  ASSUME NEW r \in Nat, NEW d \in Nat \ {0}, NEW m \in Nat, m < d
  PROVE  /\ Truncated(r * d + m, d, r) /\ Truncated(-(r * d + m), -d, r)
         /\ Truncated(-(r * d + m), d, -r) /\ Truncated(r * d + m, -d, -r)
<1> DEFINE p == r * d
<1>1. p \in Nat /\ (-r) * d = -p /\ r * (-d) = -p /\ (-r) * (-d) = p
  OBVIOUS
<1>2. /\ (p + m) - p = m /\ -(p + m) - (-p) = -m /\ (p + m) - (-r) * (-d) = m
      /\ -(p + m) - r * (-d) = -m /\ -(p + m) - (-r) * d = -m
  BY <1>1
<1>3. Truncated(r * d + m, d, r)
  BY <1>1, <1>2 DEF Truncated
<1>4. Truncated(-(r * d + m), -d, r)
  BY <1>1, <1>2 DEF Truncated
<1>5. Truncated(-(r * d + m), d, -r)
  BY <1>1, <1>2 DEF Truncated
<1>6. Truncated(r * d + m, -d, -r)
  BY <1>1, <1>2 DEF Truncated
<1>7. QED  BY <1>3, <1>4, <1>5, <1>6

\* A word and its magnitude.
LEMMA SignedMagnitude ==
  ASSUME NEW top \in Nat \ {0}, NEW u \in Word(top)
  PROVE  /\ Negative(top, u) => Signed(top, u) = -Magnitude(top, u)
         /\ ~Negative(top, u) => Signed(top, u) = Magnitude(top, u) /\ Magnitude(top, u) < top
BY DEF Word, Signed, Negative, Magnitude, Neg

\* What the first loop leaves when the second has ended.
LEMMA DoneFacts ==
  ASSUME IInv, pc = "done"
  PROVE  /\ T \in Nat \ {0} /\ Dividend \in 0 .. T /\ Divisor \in 1 .. T
         /\ res \in 0 .. T /\ a \in Nat /\ a < Divisor
         /\ Dividend = res * Divisor + a
<1>1. T \in Nat \ {0} /\ Dividend \in 0 .. T /\ Divisor \in 0 .. T
  BY TopType, MagnitudeType DEF T, Divisor, Dividend, IInv, DTypeOK, CallType
<1>2. Doubled /\ count = 0 /\ Subtracting /\ a \in Nat /\ res \in Nat
  BY DEF IInv, Subtracting, DTypeOK
<1>3. Len(past) # 0 /\ past[1] = Divisor /\ Divisor >= 1
  BY <1>2 DEF Doubled
<1>4. Above = Divisor
  BY <1>2, <1>3 DEF Above
<1>5. Dividend = res * Divisor + a /\ a < Divisor
  BY <1>2, <1>4 DEF Subtracting
<1>6. res * Divisor >= res
  BY <1>1, <1>2, <1>3
<1>7. res * Divisor \in Nat
  BY <1>1, <1>2
<1>8. QED  BY <1>1, <1>2, <1>3, <1>5, <1>6, <1>7

\* The signs of the arguments, and the number the quotient stands for.
RQ == Signed(T, Quotient)

LEMMA Signs ==
  ASSUME IInv, pc = "done"
  PROVE  /\ Negative(T, call.x) => X = -Dividend
         /\ ~Negative(T, call.x) => X = Dividend /\ Dividend < T
         /\ Negative(T, call.n) => N = -Divisor
         /\ ~Negative(T, call.n) => N = Divisor
BY DoneFacts, SignedMagnitude DEF X, N, T, Dividend, Divisor, IInv, DTypeOK, CallType

LEMMA AllTruncated ==
  ASSUME IInv, pc = "done"
  PROVE  /\ Truncated(Dividend, Divisor, res) /\ Truncated(-Dividend, -Divisor, res)
         /\ Truncated(-Dividend, Divisor, -res) /\ Truncated(Dividend, -Divisor, -res)
<1>1. res \in Nat /\ Divisor \in Nat \ {0} /\ a \in Nat /\ a < Divisor
      /\ Dividend = res * Divisor + a
  BY DoneFacts
<1>2. LET p == res * Divisor + a
      IN /\ Truncated(p, Divisor, res) /\ Truncated(-p, -Divisor, res)
         /\ Truncated(-p, Divisor, -res) /\ Truncated(p, -Divisor, -res)
  BY <1>1, TruncatedSigns
<1>3. QED  BY <1>1, <1>2

LEMMA SignedQuotient ==
  ASSUME IInv, pc = "done", call.fn # "__modsi3"
  PROVE  Truncated(X, N, RQ) \/ (X = -T /\ N = -1 /\ RQ = X)
<1>1. /\ T \in Nat \ {0} /\ Dividend \in 0 .. T /\ Divisor \in 1 .. T
      /\ res \in 0 .. T /\ a \in Nat /\ a < Divisor
      /\ Dividend = res * Divisor + a
  BY DoneFacts
<1>2. /\ call.negative => (Negative(T, call.x) <=> ~Negative(T, call.n))
      /\ ~call.negative => (Negative(T, call.x) <=> Negative(T, call.n))
  BY DEF IInv, SignRight, Negative
<1>3. /\ call.negative => RQ = -res
      /\ ~call.negative /\ res < T => RQ = res
      /\ ~call.negative /\ res = T => RQ = -T
  BY <1>1 DEF RQ, Quotient, T, Signed, Negative, Neg
<1>4. CASE call.negative
  BY <1>2, <1>3, <1>4, Signs, AllTruncated
<1>5. CASE ~call.negative /\ res < T
  BY <1>2, <1>3, <1>5, Signs, AllTruncated
<1>6. CASE ~call.negative /\ res = T
  <2>1. Dividend = T /\ Divisor = 1
    <3>1. Divisor >= 2 => T * Divisor >= 2 * T
      BY <1>1
    <3>2. Dividend = T * Divisor + a
      BY <1>1, <1>6
    <3>3. Divisor = 1
      BY <1>1, <3>1, <3>2
    <3>4. QED  BY <1>1, <3>2, <3>3
  <2>2. X = -T /\ N = -1
    BY <1>1, <1>2, <1>6, <2>1, Signs
  <2>3. QED  BY <1>3, <1>6, <2>2
<1>7. QED  BY <1>1, <1>4, <1>5, <1>6

LEMMA QuotientFromInvariant == IInv => QuotientExact
<1>1. SUFFICES ASSUME IInv, pc = "done", call.fn \in {"__divsi3", "__divdi3"}
               PROVE  Truncated(X, N, R) \/ (X = -T /\ N = -1 /\ R = X)
  BY DEF QuotientExact, T
<1>2. R = RQ
  BY <1>1 DEF R, RQ, Result, T
<1>3. QED  BY <1>1, <1>2, SignedQuotient
-----------------------------------------------------------------------------
\* A number is known by its remainder and any multiple added to it.
LEMMA ModUnique ==
  ASSUME NEW m \in Nat \ {0}, NEW r \in 0 .. m - 1, NEW k \in Int
  PROVE  (r + m * k) % m = r
<1> DEFINE w == r + m * k
           q == w \div m
           s == w % m
<1>1. w \in Int
  OBVIOUS
<1>2. q \in Int /\ s \in 0 .. m - 1 /\ w = m * q + s
  BY <1>1
<1>3. m * (k - q) = s - r
  <2>1. m * (k - q) = m * k - m * q
    BY <1>2
  <2>2. m * k \in Int /\ m * q \in Int
    BY <1>2
  <2>3. QED  BY <1>2, <2>1, <2>2
<1>4. k - q >= 1 => m * (k - q) >= m
  BY <1>2
<1>5. k - q <= -1 => m * (k - q) <= -m
  BY <1>2
<1>6. k - q = 0
  BY <1>2, <1>3, <1>4, <1>5
<1>7. QED  BY <1>2, <1>3, <1>6

LEMMA DivMod ==
  ASSUME NEW m \in Nat \ {0}, NEW v \in Int
  PROVE  /\ v \div m \in Int /\ v % m \in 0 .. m - 1 /\ v = m * (v \div m) + (v % m)
         /\ v >= 0 => v \div m \in Nat
<1>1. v \div m \in Int /\ v % m \in 0 .. m - 1 /\ v = m * (v \div m) + (v % m)
  OBVIOUS
<1>2. v >= 0 => v \div m >= 0
  <2>1. \A n \in Int : n <= -1 => m * n <= -m
    OBVIOUS
  <2>2. QED  BY <1>1, <2>1
<1>3. QED  BY <1>1, <1>2

\* A quotient is known by the remainder beside it.
LEMMA DivUnique ==
  ASSUME NEW m \in Nat \ {0}, NEW r \in 0 .. m - 1, NEW k \in Int
  PROVE  (r + m * k) \div m = k
<1> DEFINE w == r + m * k
           q == w \div m
           s == w % m
<1>1. w \in Int
  OBVIOUS
<1>2. q \in Int /\ s \in 0 .. m - 1 /\ w = m * q + s
  BY <1>1
<1>3. m * (k - q) = s - r
  <2>1. m * (k - q) = m * k - m * q
    BY <1>2
  <2>2. m * k \in Int /\ m * q \in Int
    BY <1>2
  <2>3. QED  BY <1>2, <2>1, <2>2
<1>4. k - q >= 1 => m * (k - q) >= m
  BY <1>2
<1>5. k - q <= -1 => m * (k - q) <= -m
  BY <1>2
<1>6. QED  BY <1>2, <1>3, <1>4, <1>5

\* A number cut to a word forgets the multiples of what does not fit.
LEMMA ModMultiple ==
  ASSUME NEW m \in Nat \ {0}, NEW v \in Int, NEW k \in Int
  PROVE  (v + m * k) % m = v % m
<1> DEFINE q == v \div m
           s == v % m
<1>1. q \in Int /\ s \in 0 .. m - 1 /\ v = m * q + s
  OBVIOUS
<1>2. v + m * k = s + m * (q + k) /\ q + k \in Int
  BY <1>1
<1>3. (s + m * (q + k)) % m = s
  BY <1>1, <1>2, ModUnique
<1>4. QED  BY <1>2, <1>3

LEMMA WrapMultiple ==
  ASSUME NEW top \in Nat \ {0}, NEW v \in Int, NEW k \in Int
  PROVE  Wrap(top, v + (2 * top) * k) = Wrap(top, v)
<1>1. 2 * top \in Nat \ {0}
  OBVIOUS
<1>2. QED  BY <1>1, ModMultiple DEF Wrap

LEMMA WrapType ==
  ASSUME NEW top \in Nat \ {0}, NEW v \in Int
  PROVE  Wrap(top, v) \in Word(top) /\ \E k \in Int : Wrap(top, v) = v + (2 * top) * k
<1>1. Wrap(top, v) \in Word(top)
  BY DEF Wrap, Word
<1>2. v = (2 * top) * (v \div (2 * top)) + Wrap(top, v) /\ v \div (2 * top) \in Int
  BY DEF Wrap
<1>3. Wrap(top, v) = v + (2 * top) * (-(v \div (2 * top)))
  <2> DEFINE m == 2 * top
             q == v \div (2 * top)
  <2>1. m \in Int /\ q \in Int /\ v = m * q + Wrap(top, v) /\ Wrap(top, v) \in Int
    BY <1>1, <1>2 DEF Word
  <2> HIDE DEF m, q
  <2>2. m * (-q) = -(m * q) /\ m * q \in Int
    BY <2>1
  <2>3. Wrap(top, v) = v + m * (-q)
    BY <2>1, <2>2
  <2>4. QED  BY <2>3 DEF m, q
<1>4. -(v \div (2 * top)) \in Int
  BY <1>2
<1>5. QED  BY <1>1, <1>3, <1>4

\* A word and the number it stands for.
LEMMA SignedType ==
  ASSUME NEW top \in Nat \ {0}, NEW u \in Word(top)
  PROVE  /\ Signed(top, u) \in -top .. top - 1
         /\ \E i \in {0, 1} : u = Signed(top, u) + (2 * top) * i
BY DEF Word, Signed, Negative

LEMMA WrapSigned ==
  ASSUME NEW top \in Nat \ {0}, NEW u \in Word(top)
  PROVE  Wrap(top, Signed(top, u)) = u
<1>1. PICK i \in {0, 1} : u = Signed(top, u) + (2 * top) * i
  BY SignedType
<1>2. Wrap(top, u) = Wrap(top, Signed(top, u))
  <2>1. Signed(top, u) \in Int /\ i \in Int
    BY SignedType
  <2>2. Wrap(top, Signed(top, u) + (2 * top) * i) = Wrap(top, Signed(top, u))
    BY <2>1, WrapMultiple
  <2>3. QED  BY <1>1, <2>2
<1>3. QED  BY <1>2, WrapSmall DEF Word

\* Sums, differences, products and negations of words are those of the numbers
\* they stand for, cut to a word.
LEMMA WrapRing ==
  ASSUME NEW top \in Nat \ {0}, NEW u \in Word(top), NEW v \in Word(top)
  PROVE  LET x == Signed(top, u)
             y == Signed(top, v)
         IN /\ Wrap(top, u + v) = Wrap(top, x + y)
            /\ Wrap(top, u - v) = Wrap(top, x - y)
            /\ Wrap(top, u * v) = Wrap(top, x * y)
<1> DEFINE x == Signed(top, u)
           y == Signed(top, v)
           m == 2 * top
<1>1. x \in Int /\ y \in Int /\ m \in Int
  BY SignedType
<1>2. PICK i \in {0, 1} : u = x + m * i
  BY SignedType
<1>3. PICK j \in {0, 1} : v = y + m * j
  BY SignedType
<1>4. \A w \in Int, k \in Int : Wrap(top, w + m * k) = Wrap(top, w)
  BY WrapMultiple
<1> HIDE DEF x, y, m
<1>5. u + v = (x + y) + m * (i + j)
  BY <1>1, <1>2, <1>3
<1>6. u - v = (x - y) + m * (i - j)
  BY <1>1, <1>2, <1>3
<1>7. u * v = x * y + m * (x * j + y * i + m * i * j)
  BY <1>1, <1>2, <1>3
<1>8. x + y \in Int /\ x - y \in Int /\ x * y \in Int
      /\ i + j \in Int /\ i - j \in Int /\ x * j + y * i + m * i * j \in Int
  BY <1>1
<1>9. QED  BY <1>4, <1>5, <1>6, <1>7, <1>8 DEF x, y

LEMMA WrapScaled ==
  ASSUME NEW top \in Nat \ {0}, NEW u \in Word(top), NEW p \in Nat
  PROVE  Wrap(top, u * p) = Wrap(top, Signed(top, u) * p)
<1> DEFINE x == Signed(top, u)
           m == 2 * top
<1>1. x \in Int /\ m \in Int
  BY SignedType
<1>2. PICK i \in {0, 1} : u = x + m * i
  BY SignedType
<1>3. \A w \in Int, k \in Int : Wrap(top, w + m * k) = Wrap(top, w)
  BY WrapMultiple
<1> HIDE DEF x, m
<1>4. u * p = x * p + m * (i * p) /\ x * p \in Int /\ i * p \in Int
  BY <1>1, <1>2
<1>5. QED  BY <1>3, <1>4 DEF x

LEMMA NegWrap ==
  ASSUME NEW top \in Nat \ {0}, NEW u \in Word(top)
  PROVE  Neg(top, u) \in Word(top) /\ Neg(top, u) = Wrap(top, -Signed(top, u))
<1>1. Neg(top, u) \in 0 .. 2 * top - 1
  BY DEF Neg, Word
<1>2. PICK i \in {0, 1} : u = Signed(top, u) + (2 * top) * i
  BY SignedType
<1>3. \E k \in {-1, 0, 1} : Neg(top, u) = -Signed(top, u) + (2 * top) * k
  BY <1>2, SignedType DEF Neg, Word
<1>4. Wrap(top, Neg(top, u)) = Wrap(top, -Signed(top, u))
  <2>1. PICK k \in {-1, 0, 1} : Neg(top, u) = -Signed(top, u) + (2 * top) * k
    BY <1>3
  <2>2. -Signed(top, u) \in Int /\ k \in Int
    BY SignedType
  <2>3. Wrap(top, -Signed(top, u) + (2 * top) * k) = Wrap(top, -Signed(top, u))
    BY <2>2, WrapMultiple
  <2>4. QED  BY <2>1, <2>3
<1>5. QED  BY <1>1, <1>4, WrapSmall DEF Word

\* Cutting to a word of a width that divides this one forgets the sign as well.
LEMMA ModSigned ==
  ASSUME NEW top \in Nat \ {0}, NEW u \in Word(top), NEW d \in Nat \ {0}, (2 * top) % d = 0
  PROVE  Signed(top, u) % d = u % d
<1> DEFINE x == Signed(top, u)
           e == (2 * top) \div d
<1>1. x \in Int /\ e \in Int /\ 2 * top = d * e
  BY SignedType
<1>2. PICK i \in {0, 1} : u = x + (2 * top) * i
  BY SignedType
<1> HIDE DEF x, e
<1>3. (2 * top) * i = d * (e * i) /\ e * i \in Int
  BY <1>1
<1>4. (x + d * (e * i)) % d = x % d
  BY <1>1, <1>3, ModMultiple
<1>5. QED  BY <1>2, <1>3, <1>4 DEF x

\* A number smaller than the sign bit comes back from a word it was cut to.
LEMMA SignedWrap ==
  ASSUME NEW top \in Nat \ {0}, NEW v \in Int, NEW k \in Int, -top < v, v < top
  PROVE  Signed(top, Wrap(top, v + (2 * top) * k)) = v
<1>1. CASE v >= 0
  <2>1. Wrap(top, v + (2 * top) * k) = v
    <3>1. 2 * top \in Nat \ {0} /\ v \in 0 .. (2 * top) - 1
      BY <1>1
    <3>2. QED  BY <3>1, ModUnique DEF Wrap
  <2>2. QED  BY <1>1, <2>1 DEF Signed, Negative
<1>2. CASE v < 0
  <2>1. Wrap(top, v + (2 * top) * k) = v + 2 * top
    <3>1. 2 * top \in Nat \ {0} /\ v + 2 * top \in 0 .. (2 * top) - 1 /\ k - 1 \in Int
      BY <1>2
    <3>2. (v + 2 * top + (2 * top) * (k - 1)) % (2 * top) = v + 2 * top
      BY <3>1, ModUnique
    <3>3. (2 * top) * (k - 1) = (2 * top) * k - 2 * top /\ (2 * top) * k \in Int
      OBVIOUS
    <3>4. v + 2 * top + (2 * top) * (k - 1) = v + (2 * top) * k
      BY <3>3
    <3>5. QED  BY <3>2, <3>4 DEF Wrap
  <2>2. QED  BY <1>2, <2>1 DEF Signed, Negative
<1>3. QED  BY <1>1, <1>2

\* The product of words stands for the product of the numbers they are.
LEMMA WordsMultiply ==
  \A m, x, n, q, i, j, k \in Int :
    (x + m * i) - (n + m * j) * (q + m * k)
      = x - n * q + m * (i - n * k - j * q - m * j * k)
  OBVIOUS

\* __moddi3: the remainder a - n * (a / n) of words is that of the numbers.
LEMMA LongRemainder ==
  ASSUME IInv, pc = "done", call.fn = "__moddi3"
  PROVE  \E q \in -T .. T : Truncated(X, N, q) /\ R = X - q * N
<1>1. /\ T \in Nat \ {0} /\ Divisor \in 1 .. T /\ res \in 0 .. T
      /\ call.x \in 0 .. 2 * T - 1 /\ call.n \in 0 .. 2 * T - 1
  BY DoneFacts DEF IInv, DTypeOK, CallType, Word
<1>2. Quotient \in 0 .. 2 * T - 1
  BY <1>1 DEF Quotient, T, Neg
<1>3. R = Signed(T, Wrap(T, call.x - call.n * Quotient))
  BY DEF R, Result, Remainder, Passed, T
<1>4. /\ \E i \in {0, 1} : X = call.x - (2 * T) * i
      /\ \E j \in {0, 1} : N = call.n - (2 * T) * j
      /\ \E l \in {0, 1} : RQ = Quotient - (2 * T) * l
  BY <1>1, <1>2 DEF X, N, RQ, Signed, T
<1>6. X \in -T .. T - 1 /\ N \in -T .. T - 1 /\ RQ \in -T .. T - 1
  BY <1>1, <1>2 DEF X, N, RQ, Signed, Negative, T
<1>5. PICK k \in Int : call.x - call.n * Quotient = X - N * RQ + (2 * T) * k
  <2> DEFINE m == 2 * T
  <2>1. PICK i \in {0, 1} : X = call.x - m * i
    BY <1>4
  <2>2. PICK j \in {0, 1} : N = call.n - m * j
    BY <1>4
  <2>3. PICK l \in {0, 1} : RQ = Quotient - m * l
    BY <1>4
  <2> DEFINE t == i - N * l - j * RQ - m * j * l
  <2>4. m \in Int /\ X \in Int /\ N \in Int /\ RQ \in Int
    BY <1>1, <1>6
  <2>5. call.x \in Int /\ call.n \in Int /\ Quotient \in Int
    BY <1>1, <1>2
  <2> HIDE DEF m
  <2>6. call.x = X + m * i /\ call.n = N + m * j /\ Quotient = RQ + m * l
    BY <2>1, <2>2, <2>3, <2>4, <2>5
  <2>7. (X + m * i) - (N + m * j) * (RQ + m * l) = X - N * RQ + m * t /\ t \in Int
    <3>1. i \in Int /\ j \in Int /\ l \in Int
      OBVIOUS
    <3>2. t \in Int
      BY <2>4, <3>1
    <3>3. QED  BY <2>4, <3>1, <3>2, WordsMultiply
  <2>8. QED  BY <2>6, <2>7 DEF m
<1>7. CASE Truncated(X, N, RQ)
  <2>1. X - RQ * N = X - N * RQ /\ X - N * RQ \in Int
    BY <1>6
  <2>2. -T < X - N * RQ /\ X - N * RQ < T
    BY <1>1, <1>6, <1>7, <2>1 DEF Truncated
  <2>3. R = X - N * RQ
    <3>1. Signed(T, Wrap(T, (X - N * RQ) + (2 * T) * k)) = X - N * RQ
      BY <1>1, <2>1, <2>2, SignedWrap
    <3>2. QED  BY <3>1, <1>3, <1>5
  <2>4. QED  BY <1>1, <1>6, <1>7, <2>1, <2>3
<1>8. CASE X = -T /\ N = -1 /\ RQ = X
  <2>1. X - N * RQ = 0 + (2 * T) * (-1)
    BY <1>1, <1>8
  <2>2. call.x - call.n * Quotient = 0 + (2 * T) * (k - 1) /\ k - 1 \in Int
    BY <1>1, <1>5, <2>1
  <2>3. R = 0
    <3>1. Signed(T, Wrap(T, 0 + (2 * T) * (k - 1))) = 0
      <4>1. 0 \in Int /\ -T < 0 /\ 0 < T
        BY <1>1
      <4>2. QED  BY <1>1, <2>2, <4>1, SignedWrap
    <3>2. QED  BY <3>1, <1>3, <2>2
  <2>4. Truncated(X, N, T) /\ X - T * N = 0 /\ T \in -T .. T
    BY <1>1, <1>8 DEF Truncated
  <2>5. QED  BY <2>3, <2>4
<1>9. QED  BY <1>7, <1>8, SignedQuotient

\* __modsi3 divides magnitudes, and restores the sign of the dividend.
LEMMA IntRemainder ==
  ASSUME IInv, pc = "done", call.fn = "__modsi3", X # -T
  PROVE  \E q \in -T .. T : Truncated(X, N, q) /\ R = X - q * N
<1>1. /\ T \in Nat \ {0} /\ Dividend \in 0 .. T /\ Divisor \in 1 .. T
      /\ res \in 0 .. T /\ a \in Nat /\ a < Divisor
      /\ Dividend = res * Divisor + a
      /\ call.x \in 0 .. 2 * T - 1 /\ call.n \in 0 .. 2 * T - 1
  BY DoneFacts DEF IInv, DTypeOK, CallType, Word
<1>2. call.x # T /\ Dividend < T
  BY <1>1 DEF X, Signed, Negative, Dividend, Magnitude, Neg, T
<1>3. Quotient = res
  <2>1. CASE call.negative
    <3>1. Divisor = T
      BY <1>1, <1>2, <2>1 DEF IInv, SignRight, Divisor, Magnitude, Negative, Neg
    <3>2. res = 0
      <4>1. res >= 1 => res * T >= T
        BY <1>1
      <4>2. QED  BY <1>1, <1>2, <3>1, <4>1
    <3>3. QED  BY <3>2 DEF Quotient, Neg
  <2>2. CASE ~call.negative
    BY <2>2 DEF Quotient
  <2>3. QED  BY <2>1, <2>2
<1>4. Wrap(T, Passed(call.fn, call.x) - Passed(call.fn, call.n) * Quotient) = a
  <2>1. Passed(call.fn, call.x) = Dividend /\ Passed(call.fn, call.n) = Divisor
    BY DEF Passed, Dividend, Divisor, T
  <2>2. Dividend - Divisor * res = a
    <3>1. Divisor * res = res * Divisor /\ res * Divisor \in Int
      BY <1>1
    <3>2. QED  BY <1>1, <3>1
  <2>3. Wrap(T, a) = a
    BY <1>1, WrapSmall
  <2>4. QED  BY <1>3, <2>1, <2>2, <2>3
<1>5. R = Signed(T, IF Negative(T, call.x) THEN Neg(T, a) ELSE a)
  BY <1>4 DEF R, Result, Remainder, T
<1>6. R = IF Negative(T, call.x) THEN -a ELSE a
  BY <1>1, <1>5 DEF Signed, Negative, Neg
<1>7. res * Divisor \in Int /\ (-res) * Divisor = -(res * Divisor)
      /\ res * (-Divisor) = -(res * Divisor) /\ (-res) * (-Divisor) = res * Divisor
  BY <1>1
<1>8. CASE Negative(T, call.x)
  <2>1. X = -Dividend /\ R = -a  BY <1>6, <1>8, Signs
  <2>2. CASE Negative(T, call.n)
    <3>1. N = -Divisor  BY <2>2, Signs
    <3>2. R = X - res * N  BY <1>1, <1>7, <2>1, <3>1
    <3>3. res \in -T .. T  BY <1>1
    <3>4. QED  BY <2>1, <3>1, <3>2, <3>3, AllTruncated
  <2>3. CASE ~Negative(T, call.n)
    <3>1. N = Divisor  BY <2>3, Signs
    <3>2. R = X - (-res) * N  BY <1>1, <1>7, <2>1, <3>1
    <3>3. -res \in -T .. T  BY <1>1
    <3>4. QED  BY <2>1, <3>1, <3>2, <3>3, AllTruncated
  <2>4. QED  BY <2>2, <2>3
<1>9. CASE ~Negative(T, call.x)
  <2>1. X = Dividend /\ R = a  BY <1>6, <1>9, Signs
  <2>2. CASE Negative(T, call.n)
    <3>1. N = -Divisor  BY <2>2, Signs
    <3>2. R = X - (-res) * N  BY <1>1, <1>7, <2>1, <3>1
    <3>3. -res \in -T .. T  BY <1>1
    <3>4. QED  BY <2>1, <3>1, <3>2, <3>3, AllTruncated
  <2>3. CASE ~Negative(T, call.n)
    <3>1. N = Divisor  BY <2>3, Signs
    <3>2. R = X - res * N  BY <1>1, <1>7, <2>1, <3>1
    <3>3. res \in -T .. T  BY <1>1
    <3>4. QED  BY <2>1, <3>1, <3>2, <3>3, AllTruncated
  <2>4. QED  BY <2>2, <2>3
<1>10. QED  BY <1>8, <1>9

LEMMA RemainderFromInvariant == IInv => RemainderExact
<1>1. SUFFICES ASSUME IInv, pc = "done", call.fn \in {"__modsi3", "__moddi3"},
                      call.fn = "__modsi3" => X # -IntTop
               PROVE  \E q \in -T .. T : Truncated(X, N, q) /\ R = X - q * N
  BY DEF RemainderExact, T
<1>2. call.fn = "__modsi3" => T = IntTop
  BY DEF T, Top
<1>3. QED  BY <1>1, <1>2, LongRemainder, IntRemainder

\* Division and remainder are exact for every dividend, every divisor and every
\* width of words.
THEOREM DivisionIsExact == DivisionSpec => []DivisionExact
<1>1. IInv => DivisionExact
  BY QuotientFromInvariant, RemainderFromInvariant DEF DivisionExact
<1>2. QED  BY <1>1, DivisionInvariant, PTL
-----------------------------------------------------------------------------
(* Shifts.                                                                 *)

LEMMA LongWord ==
  /\ LongTop \in Nat \ {0} /\ Half \in Nat \ {0} /\ Half = 2 * IntTop
  /\ LongTop = IntTop * Half /\ 2 * LongTop = Half * Half
BY DEF LongTop, Half

\* Two halves make a word of a long, and its sign bit is that of the upper one.
LEMMA Halves ==
  ASSUME NEW h \in Word(IntTop), NEW w \in Word(IntTop)
  PROVE  /\ h * Half + w \in Word(LongTop)
         /\ Negative(LongTop, h * Half + w) <=> Negative(IntTop, h)
<1>1. h \in 0 .. Half - 1 /\ w \in 0 .. Half - 1
  BY LongWord DEF Word
<1>2. \A n \in Nat : n <= Half - 1 => n * Half <= Half * Half - Half
  <2>1. \A n, m \in Nat : n <= m - 1 => n * m <= m * m - m
    <3>1. SUFFICES ASSUME NEW n \in Nat, NEW m \in Nat, n <= m - 1
                   PROVE  n * m <= (m - 1) * m /\ (m - 1) * m = m * m - m
      BY SMT
    <3>2. QED  BY <3>1, SMT
  <2>2. QED  BY <2>1, LongWord
<1>3. h * Half \in Nat /\ h * Half <= Half * Half - Half /\ Half * Half \in Nat
  BY <1>1, <1>2, LongWord
<1>4. h * Half + w \in Word(LongTop)
  BY <1>1, <1>3, LongWord DEF Word
<1>5. h >= IntTop => h * Half >= IntTop * Half
  <2>1. \A n, m, k \in Nat : n >= m => n * k >= m * k
    BY SMT
  <2>2. QED  BY <2>1, <1>1, LongWord
<1>6. h < IntTop => h * Half <= IntTop * Half - Half
  <2>1. \A n, m, k \in Nat : n < m => n * k <= m * k - k
    <3>1. SUFFICES ASSUME NEW n \in Nat, NEW m \in Nat, NEW k \in Nat, n < m
                   PROVE  n * k <= (m - 1) * k /\ (m - 1) * k = m * k - k
      BY SMT
    <3>2. QED  BY <3>1, SMT
  <2>2. QED  BY <2>1, <1>1, LongWord
<1>7. IntTop * Half \in Nat
  BY LongWord
<1>8. QED  BY <1>1, <1>3, <1>4, <1>5, <1>6, <1>7, LongWord DEF Negative

\* A word of a long is its two halves.
LEMMA Split ==
  ASSUME NEW u \in Word(LongTop)
  PROVE  /\ u \div Half \in Word(IntTop) /\ u % Half \in Word(IntTop)
         /\ (u \div Half) * Half + (u % Half) = u
<1>1. u \in Nat /\ u < Half * Half /\ Half \in Nat \ {0}
  BY LongWord DEF Word
<1>2. u \div Half \in Nat /\ u % Half \in 0 .. Half - 1
      /\ u = Half * (u \div Half) + (u % Half)
  <2>1. u \in Int /\ Half \in Nat \ {0} /\ u >= 0
    BY <1>1
  <2>2. /\ u \div Half \in Int /\ u % Half \in 0 .. Half - 1
        /\ u = Half * (u \div Half) + (u % Half)
        /\ u >= 0 => u \div Half \in Nat
    BY <2>1, DivMod, Zenon
  <2>3. QED  BY <2>1, <2>2
<1>3. u \div Half < Half
  <2>1. \A n, m \in Nat : n >= m => n * m >= m * m
    BY SMT
  <2>2. Half * (u \div Half) = (u \div Half) * Half
    BY <1>1, <1>2
  <2>3. QED  BY <1>1, <1>2, <2>1, <2>2
<1>4. QED  BY <1>1, <1>2, <1>3, LongWord DEF Word

\* One step to the left doubles the long the halves make, cut to a long.
LEMMA LeftStep ==
  ASSUME NEW h \in Word(IntTop), NEW w \in Word(IntTop),
         NEW h1, h1 = Wrap(IntTop, 2 * h) + Bit(Negative(IntTop, w)),
         NEW w1, w1 = Wrap(IntTop, 2 * w)
  PROVE  /\ h1 \in Word(IntTop) /\ w1 \in Word(IntTop)
         /\ h1 * Half + w1 = Wrap(LongTop, 2 * (h * Half + w))
<1> DEFINE i == IF h >= IntTop THEN 1 ELSE 0
           j == IF w >= IntTop THEN 1 ELSE 0
<1>1. h \in 0 .. Half - 1 /\ w \in 0 .. Half - 1 /\ Half = 2 * IntTop
  BY LongWord DEF Word
<1>2. Wrap(IntTop, 2 * h) = 2 * h - Half * i /\ Wrap(IntTop, 2 * w) = 2 * w - Half * j
  BY <1>1 DEF Wrap
<1>3. h1 = 2 * h - Half * i + j /\ w1 = 2 * w - Half * j
  BY <1>2 DEF Bit, Negative
<1>4. h1 \in Word(IntTop) /\ w1 \in Word(IntTop)
  BY <1>1, <1>3 DEF Word
<1>5. h1 * Half + w1 = 2 * (h * Half + w) + (2 * LongTop) * (-i)
  <2>1. h \in Int /\ w \in Int /\ i \in Int /\ j \in Int /\ Half \in Int
    BY <1>1
  <2> HIDE DEF i, j
  <2>2. (2 * h - Half * i + j) * Half + (2 * w - Half * j)
          = 2 * (h * Half + w) + (Half * Half) * (-i)
    BY <2>1
  <2>3. QED  BY <1>3, <2>2, LongWord
<1>6. h1 * Half + w1 \in Word(LongTop)
  BY <1>4, Halves
<1>7. Wrap(LongTop, h1 * Half + w1) = h1 * Half + w1
  BY <1>6, LongWord, WrapSmall DEF Word
<1>8. 2 * (h * Half + w) \in Int /\ -i \in Int
  BY <1>1
<1>9. Wrap(LongTop, 2 * (h * Half + w) + (2 * LongTop) * (-i)) = Wrap(LongTop, 2 * (h * Half + w))
  <2> DEFINE v == 2 * (h * Half + w)
             k == -i
  <2> HIDE DEF v, k
  <2>1. v \in Int /\ k \in Int /\ LongTop \in Nat \ {0}
    BY <1>8, LongWord DEF v, k
  <2>2. Wrap(LongTop, v + (2 * LongTop) * k) = Wrap(LongTop, v)
    BY <2>1, WrapMultiple
  <2>3. QED  BY <2>2 DEF v, k
<1>10. QED  BY <1>4, <1>5, <1>7, <1>9

\* One step to the right halves it.
LEMMA RightStep ==
  ASSUME NEW h \in Word(IntTop), NEW w \in Word(IntTop),
         NEW w1, w1 = w \div 2 + IntTop * Bit(h % 2 = 1)
  PROVE  /\ h \div 2 \in Word(IntTop) /\ h \div 2 < IntTop /\ w1 \in Word(IntTop)
         /\ (h \div 2) * Half + w1 = (h * Half + w) \div 2
<1> DEFINE p == h \div 2
           e == h % 2
           q == w \div 2
<1>1. h \in 0 .. Half - 1 /\ w \in 0 .. Half - 1 /\ Half = 2 * IntTop /\ Half \in Nat
  BY LongWord DEF Word
<1>2. p \in Nat /\ e \in {0, 1} /\ h = 2 * p + e /\ p < IntTop
      /\ q \in Nat /\ w \in {2 * q, 2 * q + 1} /\ q < IntTop
  BY <1>1
<1>3. w1 = q + IntTop * e
  BY <1>2 DEF Bit
<1>4. h * Half = 2 * (p * Half) + e * Half /\ p * Half \in Nat
  <2> HIDE DEF p, e
  <2>1. (2 * p + e) * Half = 2 * (p * Half) + e * Half
    BY <1>1, <1>2
  <2>2. QED  BY <1>1, <1>2, <2>1
<1>5. (h * Half + w) \div 2 = p * Half + w1
  <2> DEFINE P == p * Half
  <2>1. P \in Nat /\ h * Half + w = 2 * P + e * Half + w
    BY <1>4
  <2> HIDE DEF P, p, e, q
  <2>2. (2 * P + e * Half + w) \div 2 = P + (q + IntTop * e)
    BY <1>1, <1>2, <2>1
  <2>3. QED  BY <1>3, <2>1, <2>2 DEF P
<1>6. QED  BY <1>1, <1>2, <1>3, <1>5 DEF Word

\* With the sign bit kept it halves the number, rounding down.
LEMMA SignedRightStep ==
  ASSUME NEW h \in Word(IntTop), NEW w \in Word(IntTop),
         NEW h1, h1 = h \div 2 + IntTop * Bit(Negative(IntTop, h)),
         NEW w1, w1 = w \div 2 + IntTop * Bit(h % 2 = 1)
  PROVE  /\ h1 \in Word(IntTop) /\ w1 \in Word(IntTop)
         /\ Signed(LongTop, h1 * Half + w1) = Signed(LongTop, h * Half + w) \div 2
<1> DEFINE v == h * Half + w
           n == Bit(Negative(IntTop, h))
<1>1. /\ h \div 2 \in Nat /\ h \div 2 < IntTop /\ w1 \in Word(IntTop)
      /\ (h \div 2) * Half + w1 = v \div 2
  <2>1. /\ h \div 2 \in Word(IntTop) /\ h \div 2 < IntTop /\ w1 \in Word(IntTop)
        /\ (h \div 2) * Half + w1 = (h * Half + w) \div 2
    BY RightStep
  <2>2. QED  BY <2>1 DEF Word
<1>2. n \in {0, 1} /\ h1 = h \div 2 + IntTop * n
  BY DEF Bit
<1>3. h1 \in Word(IntTop) /\ (Negative(IntTop, h1) <=> n = 1)
  BY <1>1, <1>2 DEF Word, Negative
<1>4. v \in Word(LongTop) /\ (Negative(LongTop, v) <=> n = 1)
  BY Halves DEF Bit
<1>5. h1 * Half + w1 = v \div 2 + n * LongTop
  <2>1. (h \div 2 + IntTop * n) * Half = (h \div 2) * Half + n * (IntTop * Half)
    <3>1. \A x, y, m, f \in Int : (x + y * m) * f = x * f + m * (y * f)
      OBVIOUS
    <3>2. h \div 2 \in Int /\ n \in Int /\ IntTop \in Int /\ Half \in Int
      BY <1>1, <1>2, LongWord
    <3>3. QED  BY <3>1, <3>2
  <2>2. (h \div 2) * Half \in Int /\ n * (IntTop * Half) \in Int /\ w1 \in Int
    BY <1>1, <1>2, LongWord DEF Word
  <2>3. QED  BY <1>1, <1>2, <2>1, <2>2, LongWord
<1>6. Negative(LongTop, h1 * Half + w1) <=> n = 1
  BY <1>1, <1>3, Halves
<1>7. CASE n = 1
  <2>1. Signed(LongTop, h1 * Half + w1) = v \div 2 - LongTop
    BY <1>4, <1>5, <1>6, <1>7, LongWord DEF Signed, Word
  <2>2. Signed(LongTop, v) = v - 2 * LongTop
    BY <1>4, <1>7 DEF Signed
  <2>3. (v - 2 * LongTop) \div 2 = v \div 2 - LongTop
    BY <1>4, LongWord DEF Word
  <2>4. QED  BY <1>1, <1>3, <2>1, <2>2, <2>3
<1>8. CASE n = 0
  <2>1. Signed(LongTop, h1 * Half + w1) = v \div 2 /\ Signed(LongTop, v) = v
    BY <1>4, <1>5, <1>6, <1>8, LongWord DEF Signed, Word
  <2>2. QED  BY <1>1, <1>3, <2>1
<1>9. QED  BY <1>2, <1>7, <1>8

\* Halving what is divided doubles the divisor.
LEMMA HalveQuotient ==
  ASSUME NEW u \in Int, NEW p \in Nat \ {0}
  PROVE  (u \div p) \div 2 = u \div (2 * p)
<1> DEFINE q == u \div p
           r == u % p
           k == q \div 2
           e == q % 2
<1>1. q \in Int /\ r \in 0 .. p - 1 /\ u = p * q + r
  BY DivMod
<1>2. k \in Int /\ e \in {0, 1} /\ q = 2 * k + e
  BY <1>1
<1> HIDE DEF q, r, k, e
<1>3. p * e + r \in 0 .. 2 * p - 1
  BY <1>1, <1>2
<1>4. u = (p * e + r) + (2 * p) * k
  <2>1. p * (2 * k + e) = (2 * p) * k + p * e
    BY <1>2
  <2>2. p * e \in Int /\ (2 * p) * k \in Int
    BY <1>2
  <2>3. QED  BY <1>1, <1>2, <2>1, <2>2
<1>5. 2 * p \in Nat \ {0}
  OBVIOUS
<1>6. ((p * e + r) + (2 * p) * k) \div (2 * p) = k
  BY <1>2, <1>3, <1>5, DivUnique
<1>7. QED  BY <1>4, <1>6 DEF k, q

LEMMA DoubleWrap ==
  ASSUME NEW top \in Nat \ {0}, NEW v \in Int
  PROVE  Wrap(top, 2 * Wrap(top, v)) = Wrap(top, 2 * v)
<1>1. PICK k \in Int : Wrap(top, v) = v + (2 * top) * k
  BY WrapType
<1>2. 2 * (v + (2 * top) * k) = 2 * v + (2 * top) * (2 * k)
  <2>1. (2 * top) * (2 * k) = 2 * ((2 * top) * k) /\ (2 * top) * k \in Int
    OBVIOUS
  <2>2. QED  BY <2>1
<1>3. 2 * v \in Int /\ 2 * k \in Int
  OBVIOUS
<1>4. Wrap(top, 2 * v + (2 * top) * (2 * k)) = Wrap(top, 2 * v)
  BY <1>3, WrapMultiple
<1>5. QED  BY <1>1, <1>2, <1>4

\* The argument shifted by k, in the halves.
ShiftedBy(k) ==
  LET u == request.u
  IN /\ request.fn = "__ashldi3" => Shifted = Wrap(LongTop, u * 2^k)
     /\ request.fn = "__ashrdi3" => Signed(LongTop, Shifted) = Signed(LongTop, u) \div 2^k
     /\ request.fn = "__lshrdi3" => Shifted = u \div 2^k

STypeOK ==
  /\ request \in [fn : ShiftFunction, u : Word(LongTop), s : Nat]
  /\ hi \in Word(IntTop) /\ lo \in Word(IntTop) /\ shift \in Nat
  /\ spc \in {"idle", "shift", "done"}

SInv ==
  /\ STypeOK
  /\ spc # "idle" => shift <= request.s % LongBits /\ ShiftedBy((request.s % LongBits) - shift)
  /\ spc = "done" => shift = 0

LEMMA CountType == \A s \in Nat : s % LongBits \in 0 .. LongBits - 1
BY LongBitsAssumption

LEMMA ShiftIdleSInv == ShiftIdle => SInv
BY LongWord DEF ShiftIdle, SInv, STypeOK, NoShift, ShiftFunction, Word

LEMMA StartShiftSInv ==
  ASSUME NEW fn \in ShiftFunction, NEW u \in Word(LongTop), NEW s \in Nat, StartShift(fn, u, s)
  PROVE  SInv'
<1>1. /\ request' = [fn |-> fn, u |-> u, s |-> s]
      /\ hi' = u \div Half /\ lo' = u % Half /\ shift' = s % LongBits /\ spc' = "shift"
  BY DEF StartShift
<1>2. /\ hi' \in Word(IntTop) /\ lo' \in Word(IntTop) /\ Shifted' = u
  BY <1>1, Split DEF Shifted
<1>3. shift' \in Nat
  BY <1>1, CountType
<1>4. u * 1 = u /\ Wrap(LongTop, u) = u /\ u \div 1 = u
      /\ Signed(LongTop, u) \div 1 = Signed(LongTop, u)
  <2>1. u \in 0 .. 2 * LongTop - 1 /\ Signed(LongTop, u) \in Int
    BY LongWord, SignedType DEF Word
  <2>2. Wrap(LongTop, u) = u
    BY <2>1, LongWord, WrapSmall
  <2>3. QED  BY <2>1, <2>2
<1>5. (ShiftedBy((request.s % LongBits) - shift))'
  <2>1. (request.s % LongBits)' - shift' = 0
    BY <1>1, <1>3
  <2>2. (ShiftedBy(0))'
    BY <1>1, <1>2, <1>4, DoublingAssumption DEF ShiftedBy
  <2>3. QED  BY <2>1, <2>2
<1>6. QED  BY <1>1, <1>2, <1>3, <1>5 DEF SInv, STypeOK

LEMMA ShiftStepSInv ==
  ASSUME SInv, ShiftStep
  PROVE  SInv'
<1> DEFINE n == request.s % LongBits
           u == request.u
<1>1. /\ STypeOK /\ shift \in Nat \ {0} /\ shift' = shift - 1 /\ request' = request
      /\ spc' = "shift" /\ shift <= n /\ ShiftedBy(n - shift)
  BY DEF SInv, STypeOK, ShiftStep
<1>2. PICK k \in 0 .. LongBits : k = n - shift /\ k + 1 = n - shift'
  <2>1. request.s \in Nat
    BY <1>1 DEF STypeOK
  <2>2. n \in 0 .. LongBits - 1
    BY <2>1, CountType
  <2> HIDE DEF n
  <2>3. n - shift \in 0 .. LongBits /\ (n - shift) + 1 = n - shift'
    BY <1>1, <2>2, LongBitsAssumption
  <2>4. QED  BY <2>3
<1>3. 2^k \in Nat \ {0} /\ 2^(k + 1) = 2 * 2^k
  BY <1>2, DoublingAssumption
<1>4. u \in Word(LongTop) /\ u \in Int /\ Signed(LongTop, u) \in Int
  BY <1>1, LongWord, SignedType DEF STypeOK, Word
<1>5. hi \in Word(IntTop) /\ lo \in Word(IntTop)
  BY <1>1 DEF STypeOK
<1> DEFINE p == 2^k
<1>6. p \in Nat \ {0} /\ 2^(k + 1) = 2 * p
  BY <1>3
<1>7. ASSUME hi' \in Word(IntTop), lo' \in Word(IntTop), (ShiftedBy(k + 1))'
      PROVE  SInv'
  <2>1. (request.s % LongBits)' - shift' = k + 1
    BY <1>1, <1>2
  <2>2. (ShiftedBy((request.s % LongBits) - shift))'
    BY <2>1, <1>7
  <2>3. shift' <= n /\ shift' \in Nat
    <3>1. n \in Nat
      BY <1>1, CountType DEF STypeOK
    <3>2. QED  BY <1>1, <3>1
  <2>4. QED  BY <1>1, <1>7, <2>2, <2>3 DEF SInv, STypeOK
<1>8. CASE request.fn = "__ashldi3" /\ ShiftLeft
  <2>1. /\ hi' \in Word(IntTop) /\ lo' \in Word(IntTop)
        /\ Shifted' = Wrap(LongTop, 2 * Shifted)
    BY <1>5, <1>8, LeftStep DEF ShiftLeft, Shifted
  <2>2. Shifted = Wrap(LongTop, u * p)
    BY <1>1, <1>2, <1>8 DEF ShiftedBy
  <2>3. Wrap(LongTop, 2 * Wrap(LongTop, u * p)) = Wrap(LongTop, 2 * (u * p))
    <3>1. u * p \in Int
      BY <1>4, <1>6
    <3>2. QED  BY <3>1, LongWord, DoubleWrap
  <2>4. 2 * (u * p) = u * (2 * p)
    BY <1>4, <1>6
  <2>5. (ShiftedBy(k + 1))'
    BY <1>1, <1>6, <1>8, <2>1, <2>2, <2>3, <2>4 DEF ShiftedBy
  <2>6. QED  BY <1>7, <2>1, <2>5
<1>9. CASE request.fn = "__ashrdi3" /\ ArithmeticShiftRight
  <2>1. /\ hi' \in Word(IntTop) /\ lo' \in Word(IntTop)
        /\ Signed(LongTop, Shifted') = Signed(LongTop, Shifted) \div 2
    BY <1>5, <1>9, SignedRightStep DEF ArithmeticShiftRight, LowerHalfRight, Shifted
  <2>2. Signed(LongTop, Shifted) = Signed(LongTop, u) \div p
    BY <1>1, <1>2, <1>9 DEF ShiftedBy
  <2>3. (Signed(LongTop, u) \div p) \div 2 = Signed(LongTop, u) \div (2 * p)
    BY <1>4, <1>6, HalveQuotient
  <2>4. (ShiftedBy(k + 1))'
    BY <1>1, <1>6, <1>9, <2>1, <2>2, <2>3 DEF ShiftedBy
  <2>5. QED  BY <1>7, <2>1, <2>4
<1>10. CASE request.fn = "__lshrdi3" /\ LogicShiftRight
  <2>1. /\ hi' \in Word(IntTop) /\ lo' \in Word(IntTop)
        /\ Shifted' = Shifted \div 2
    BY <1>5, <1>10, RightStep DEF LogicShiftRight, LowerHalfRight, Shifted
  <2>2. Shifted = u \div p
    BY <1>1, <1>2, <1>10 DEF ShiftedBy
  <2>3. (u \div p) \div 2 = u \div (2 * p)
    BY <1>4, <1>6, HalveQuotient
  <2>4. (ShiftedBy(k + 1))'
    BY <1>1, <1>6, <1>10, <2>1, <2>2, <2>3 DEF ShiftedBy
  <2>5. QED  BY <1>7, <2>1, <2>4
<1>11. QED  BY <1>8, <1>9, <1>10 DEF ShiftStep

LEMMA EndShiftSInv ==
  ASSUME SInv, EndShift \/ ReturnShifted \/ UNCHANGED svars
  PROVE  SInv'
<1>1. CASE EndShift
  BY <1>1 DEF EndShift, SInv, STypeOK, ShiftedBy, Shifted
<1>2. CASE ReturnShifted
  <2>1. ShiftIdle'
    BY <1>2 DEF ReturnShifted, ShiftIdle
  <2>2. SInv'
    BY <2>1, LongWord DEF ShiftIdle, SInv, STypeOK, NoShift, ShiftFunction, Word
  <2>3. QED  BY <2>2
<1>3. CASE UNCHANGED svars
  BY <1>3 DEF svars, SInv, STypeOK, ShiftedBy, Shifted
<1>4. QED  BY <1>1, <1>2, <1>3

\* What a shift returns.
LEMMA ShiftResult ==
  ASSUME SInv, spc = "done"
  PROVE  /\ Shifted \in Word(LongTop) /\ ShiftedBy(request.s % LongBits)
         /\ request.s % LongBits \in 0 .. LongBits
<1>1. shift = 0 /\ ShiftedBy((request.s % LongBits) - shift)
      /\ hi \in Word(IntTop) /\ lo \in Word(IntTop) /\ request.s \in Nat
  BY DEF SInv, STypeOK
<1>2. request.s % LongBits \in 0 .. LongBits - 1
  BY <1>1, CountType
<1>3. Shifted \in Word(LongTop)
  BY <1>1, Halves DEF Shifted
<1>4. (request.s % LongBits) - shift = request.s % LongBits
  BY <1>1, <1>2
<1>5. QED  BY <1>1, <1>2, <1>3, <1>4, LongBitsAssumption
-----------------------------------------------------------------------------
\* What a division returns is a word.
LEMMA ResultType ==
  ASSUME IInv, pc = "done"
  PROVE  Result \in Word(T)
<1>1. /\ T \in Nat \ {0} /\ res \in 0 .. T
      /\ call.x \in 0 .. 2 * T - 1 /\ call.n \in 0 .. 2 * T - 1
  BY DoneFacts DEF IInv, DTypeOK, CallType, Word
<1>2. Quotient \in Word(T)
  BY <1>1 DEF Quotient, Neg, T, Word
<1>3. Passed(call.fn, call.x) \in Int /\ Passed(call.fn, call.n) \in Int
  BY <1>1 DEF Passed, Magnitude, Neg, T
<1>4. Passed(call.fn, call.x) - Passed(call.fn, call.n) * Quotient \in Int
  <2>1. Quotient \in Int
    BY <1>1, <1>2 DEF Word
  <2>2. QED  BY <1>3, <2>1
<1>5. Wrap(T, Passed(call.fn, call.x) - Passed(call.fn, call.n) * Quotient) \in Word(T)
  BY <1>1, <1>4, WrapType
<1>6. Remainder(T) \in Word(T)
  BY <1>1, <1>5 DEF Remainder, Neg, Word
<1>7. QED  BY <1>2, <1>6 DEF Result, T

\* Cut to a byte and extended with its sign, a word stands for the one number a
\* byte can hold that differs from it by a multiple of 2^8.
LEMMA SignExtended ==
  ASSUME NEW top \in Nat \ {0}, NEW u \in Word(top),
         NEW byteTop \in 1 .. top, (2 * top) % (2 * byteTop) = 0,
         NEW byte, byte = u % (2 * byteTop),
         NEW value,
         value = IF Negative(byteTop, byte) THEN byte + 2 * top - 2 * byteTop ELSE byte
  PROVE  value \in Word(top) /\ value = Wrap(top,
           CHOOSE v \in -byteTop .. byteTop - 1 : (Signed(top, u) - v) % (2 * byteTop) = 0)
<1> DEFINE x == Signed(top, u)
           m == 2 * byteTop
           s == Signed(byteTop, byte)
<1>1. x \in Int /\ m \in Nat \ {0} /\ u \in Int
  <2>1. x \in Int
    BY SignedType
  <2>2. m \in Nat \ {0}
    OBVIOUS
  <2>3. u \in Int
    BY DEF Word
  <2>4. QED  BY <2>1, <2>2, <2>3
<1>2. x % m = u % m
  BY <1>1, ModSigned
<1>3. byte \in Word(byteTop) /\ byte = x % m
  BY <1>1, <1>2, DivMod DEF Word
<1>4. s \in -byteTop .. byteTop - 1
  BY <1>3, SignedType
<1>5. PICK i \in {0, 1} : byte = s + m * i
  BY <1>3, SignedType
<1>6. (x - s) % m = 0
  <2> DEFINE q == x \div m
  <2>1. q \in Int /\ x = m * q + (x % m)
    BY <1>1, DivMod
  <2>2. s \in Int
    BY <1>4
  <2> HIDE DEF q, s, x, m
  <2>3. x - s = 0 + m * (q + i)
    BY <1>1, <1>3, <1>5, <2>1, <2>2
  <2>4. q + i \in Int /\ 0 \in 0 .. m - 1
    BY <1>1, <2>1
  <2>5. (0 + m * (q + i)) % m = 0
    BY <1>1, <2>4, ModUnique
  <2>6. QED  BY <2>3, <2>5
<1>7. ASSUME NEW v \in -byteTop .. byteTop - 1, (x - v) % m = 0
      PROVE  v = s
  <2> DEFINE q == (x - v) \div m
             r == (x - s) \div m
  <2>1. x - v \in Int /\ x - s \in Int
    BY <1>1, <1>4
  <2>2. q \in Int /\ r \in Int /\ x - v = m * q + 0 /\ x - s = m * r + 0
    <3>1. q \in Int /\ x - v = m * q + ((x - v) % m)
      BY <1>1, <2>1, DivMod
    <3>2. r \in Int /\ x - s = m * r + ((x - s) % m)
      BY <1>1, <2>1, DivMod
    <3>3. QED  BY <1>6, <1>7, <3>1, <3>2
  <2>3. s - v \in Int /\ s - v > -m /\ s - v < m
    BY <1>4
  <2>4. s - v = m * (q - r)
    <3> HIDE DEF q, r, s, x, m
    <3>1. m * (q - r) = m * q - m * r /\ m * q \in Int /\ m * r \in Int
      BY <1>1, <2>2
    <3>2. v \in Int /\ s \in Int
      BY <1>4
    <3>3. QED  BY <1>1, <2>2, <3>1, <3>2
  <2>5. q - r >= 1 => m * (q - r) >= m
    BY <1>1, <2>2
  <2>6. q - r <= -1 => m * (q - r) <= -m
    BY <1>1, <2>2
  <2>7. q - r = 0
    BY <2>2, <2>3, <2>4, <2>5, <2>6
  <2>8. s - v = 0
    BY <1>1, <2>4, <2>7
  <2>9. QED  BY <1>4, <2>8
<1>8. (CHOOSE v \in -byteTop .. byteTop - 1 : (x - v) % m = 0) = s
  BY <1>4, <1>6, <1>7
<1>9. value \in Word(top) /\ value = Wrap(top, s)
  <2>1. value \in 0 .. 2 * top - 1 /\ \E k \in {0, 1} : value = s + (2 * top) * k
    <3> HIDE DEF m
    <3>1. byte \in 0 .. 2 * byteTop - 1 /\ byteTop \in Nat
      BY <1>3 DEF Word
    <3>2. CASE byte >= byteTop
      <4>1. value = byte + 2 * top - 2 * byteTop /\ s = byte - 2 * byteTop
        BY <3>2 DEF Signed, Negative
      <4>2. value \in 0 .. 2 * top - 1 /\ value = s + (2 * top) * 1
        <5> HIDE DEF s
        <5>1. byteTop <= top
          OBVIOUS
        <5>2. value \in 0 .. 2 * top - 1
          BY <3>1, <3>2, <4>1, <5>1
        <5>3. byte = s + 2 * byteTop /\ s \in Int
          BY <1>4, <3>1, <4>1
        <5>4. value = s + (2 * top) * 1
          BY <4>1, <5>3
        <5>5. QED  BY <5>2, <5>4
      <4>3. QED  BY <4>2
    <3>3. CASE ~ byte >= byteTop
      <4>1. value = byte /\ s = byte
        BY <3>3 DEF Signed, Negative
      <4>2. value \in 0 .. 2 * top - 1 /\ value = s + (2 * top) * 0
        BY <3>1, <3>3, <4>1
      <4>3. QED  BY <4>2
    <3>4. QED  BY <3>2, <3>3
  <2>2. PICK k \in {0, 1} : value = s + (2 * top) * k
    BY <2>1
  <2>3. Wrap(top, s + (2 * top) * k) = Wrap(top, s)
    <3>1. s \in Int
      BY <1>4
    <3>2. QED  BY <3>1, WrapMultiple
  <2>4. Wrap(top, value) = value
    BY <2>1, WrapSmall
  <2>5. QED  BY <2>1, <2>2, <2>3, <2>4 DEF Word
<1>10. QED  BY <1>8, <1>9

\* A word shifted to the right with its sign stays a word.
LEMMA ShiftedNumber ==
  ASSUME NEW top \in Nat \ {0}, NEW x \in -top .. top - 1, NEW p \in Nat \ {0}
  PROVE  x \div p \in -top .. top - 1
<1> DEFINE q == x \div p
<1>1. q \in Int /\ x % p \in 0 .. p - 1 /\ x = p * q + (x % p)
  BY DivMod
<1> HIDE DEF q
<1>2. q >= top => p * q >= top
  <2>1. \A n, k \in Nat : n >= 1 => n * k >= k
    OBVIOUS
  <2>2. q >= top => q \in Nat
    BY <1>1
  <2>3. QED  BY <1>1, <2>1, <2>2
<1>3. q <= -top - 1 => p * q <= -top - p
  <2>1. \A n \in Nat, k \in Int : n >= 1 /\ k <= -top => n * k <= -top
    <3>1. \A n, j \in Nat : n >= 1 => n * j >= j /\ n * (-j) = -(n * j)
      OBVIOUS
    <3>2. SUFFICES ASSUME NEW n \in Nat, NEW k \in Int, n >= 1, k <= -top
                   PROVE  n * k <= -top
      OBVIOUS
    <3>3. -k \in Nat /\ -(-k) = k
      BY <3>2
    <3>4. n * (-k) >= -k /\ n * k = -(n * (-k)) /\ n * (-k) \in Int
      BY <3>1, <3>2, <3>3
    <3>5. QED  BY <3>2, <3>4
  <2>2. p * q = p * (q + 1) - p /\ p * (q + 1) \in Int
    BY <1>1
  <2>3. QED  BY <1>1, <2>1, <2>2
<1>4. QED  BY <1>1, <1>2, <1>3 DEF q
-----------------------------------------------------------------------------
(* The instructions.                                                       *)

Divisions == {"idiv", "irem", "ldiv", "lrem"}
Shifts == {"lshl", "lshr", "lushr"}

\* The operands of an instruction have the widths its name says.
OperandsOK ==
  /\ op.name \in IntPair => \E x, y \in Word(IntTop) : op.operands = <<x, y>>
  /\ op.name \in LongPair => \E x, y \in Word(LongTop) : op.operands = <<x, y>>
  /\ op.name \in Shifts => \E x \in Word(LongTop), y \in Word(IntTop) : op.operands = <<x, y>>
  /\ op.name \in IntUnary => \E x \in Word(IntTop) : op.operands = <<x>>
  /\ op.name \in LongUnary => \E x \in Word(LongTop) : op.operands = <<x>>

\* The function that runs was called by the instruction at hand, with its operands.
DivisionCalled ==
  pc # "idle" =>
    /\ phase = "library" /\ op.name \in Divisions /\ call.n # 0
    /\ call.fn = DivisionOf[op.name] /\ call.x = op.operands[1] /\ call.n = op.operands[2]

ShiftCalled ==
  spc # "idle" =>
    /\ phase = "library" /\ op.name \in Shifts
    /\ request.fn = ShiftOf[op.name] /\ request.u = op.operands[1]
    /\ request.s = op.operands[2] % LongBits

PhaseOK ==
  /\ phase \in {"ready", "running", "library", "finished"}
  /\ phase = "ready" => thrown = FALSE
  /\ phase = "running" => op.name \in ArithmeticName /\ stack = op.operands
  /\ op.name \in ArithmeticName /\ phase \in {"running", "library"} => thrown = FALSE

AInv ==
  /\ IInv /\ SInv
  /\ OperandsOK /\ PhaseOK
  /\ DivisionCalled /\ ShiftCalled
  /\ ArithmeticExact

LEMMA Names ==
  /\ DOMAIN DivisionOf = Divisions /\ DOMAIN ShiftOf = Shifts
  /\ \A name \in Divisions : DivisionOf[name] \in Function
       /\ Top(DivisionOf[name]) = IF name \in {"idiv", "irem"} THEN IntTop ELSE LongTop
  /\ \A name \in Shifts : ShiftOf[name] \in ShiftFunction
BY DEF DivisionOf, ShiftOf, Divisions, Shifts, Function, ShiftFunction, Top

\* The numbers two operands stand for, by the width of the instruction.
LEMMA IntPairNumbers ==
  ASSUME NEW x, NEW y, op.operands = <<x, y>>, op.name \in IntPair
  PROVE  Numbers[1] = Signed(IntTop, x) /\ Numbers[2] = Signed(IntTop, y)
BY DEF Numbers

LEMMA LongPairNumbers ==
  ASSUME NEW x, NEW y, op.operands = <<x, y>>, op.name \in LongPair
  PROVE  Numbers[1] = Signed(LongTop, x) /\ Numbers[2] = Signed(LongTop, y)
BY Names DEF Numbers, LongPair, IntPair, IntUnary, Shifts

LEMMA ShiftNumbers ==
  ASSUME NEW x, NEW y, op.operands = <<x, y>>, op.name \in Shifts
  PROVE  Numbers[1] = Signed(LongTop, x) /\ Numbers[2] = Signed(IntTop, y)
BY Names DEF Numbers, Shifts, IntPair, IntUnary

LEMMA UnaryNumbers ==
  ASSUME NEW x, op.operands = <<x>>
  PROVE  /\ op.name \in IntUnary => Numbers[1] = Signed(IntTop, x)
         /\ op.name \in LongUnary => Numbers[1] = Signed(LongTop, x)
BY Names DEF Numbers, Shifts, IntPair, IntUnary, LongUnary

\* What Java makes of the numbers, one instruction at a time.
LEMMA JavaResults ==
  \A i :
    /\ \A name \in {"iadd", "ladd"} : JavaResult(name, i) = i[1] + i[2]
    /\ \A name \in {"isub", "lsub"} : JavaResult(name, i) = i[1] - i[2]
    /\ \A name \in {"imul", "lmul"} : JavaResult(name, i) = i[1] * i[2]
    /\ \A name \in {"ineg", "lneg"} : JavaResult(name, i) = -i[1]
    /\ \A name \in {"i2l", "l2i"} : JavaResult(name, i) = i[1]
    /\ JavaResult("ishl", i) = i[1] * 2^(i[2] % IntBits)
    /\ JavaResult("ishr", i) = i[1] \div 2^(i[2] % IntBits)
    /\ JavaResult("lshl", i) = i[1] * 2^(i[2] % LongBits)
    /\ JavaResult("lshr", i) = i[1] \div 2^(i[2] % LongBits)
    /\ JavaResult("lushr", i) = (i[1] % (2 * LongTop)) \div 2^(i[2] % LongBits)
    /\ JavaResult("i2b", i) =
         CHOOSE v \in -ByteTop .. ByteTop - 1 : (i[1] - v) % (2 * ByteTop) = 0
    /\ JavaResult("i2c", i) = i[1] % (2 * ByteTop)
    /\ JavaResult("lcmp", i) = IF i[1] > i[2] THEN 1 ELSE IF i[1] = i[2] THEN 0 ELSE -1
    /\ JavaResult("if_icmple", i) = Bit(i[1] <= i[2])
    /\ JavaResult("if_icmplt", i) = Bit(i[1] < i[2])
    /\ JavaResult("if_icmpge", i) = Bit(i[1] >= i[2])
    /\ JavaResult("if_icmpgt", i) = Bit(i[1] > i[2])
BY DEF JavaResult

\* The width of a result.
LEMMA ResultTops ==
  /\ op.name \in {"ladd", "lsub", "lmul", "ldiv", "lrem", "lneg", "i2l", "lshl", "lshr", "lushr"} =>
       ResultTop = LongTop
  /\ op.name \in {"iadd", "isub", "imul", "idiv", "irem", "ineg", "ishl", "ishr", "i2b", "i2c", "l2i",
                  "lcmp", "if_icmple", "if_icmplt", "if_icmpge", "if_icmpgt"} =>
       ResultTop = IntTop
BY Names DEF ResultTop, LongPair, Shifts

LEMMA Tops == IntTop \in Nat \ {0} /\ LongTop \in Nat \ {0} /\ ResultTop \in {IntTop, LongTop}
BY LongWord DEF ResultTop

\* An instruction that calls no function ends with the result that is pushed.
LEMMA FinishAInv ==
  ASSUME AInv, phase = "running", op.name \notin Divisions,
         NEW value, Push(value), value \in Word(ResultTop),
         value = Wrap(ResultTop, JavaResult(op.name, Numbers))
  PROVE  AInv'
<1>1. /\ stack' = <<value>> /\ phase' = "finished" /\ op' = op /\ thrown' = thrown
      /\ UNCHANGED dvars /\ UNCHANGED svars /\ thrown = FALSE
  BY DEF Push, AInv, PhaseOK
<1>2. IInv' /\ SInv'
  BY <1>1, NextIInv, EndShiftSInv DEF AInv
<1>3. pc' = "idle" /\ spc' = "idle"
  <2>1. pc = "idle" /\ spc = "idle"
    BY DEF AInv, DivisionCalled, ShiftCalled
  <2>2. QED  BY <1>1, <2>1 DEF dvars, svars
<1>4. OperandsOK' /\ PhaseOK' /\ DivisionCalled' /\ ShiftCalled'
  BY <1>1, <1>3 DEF AInv, OperandsOK, PhaseOK, DivisionCalled, ShiftCalled
<1>5. ResultTop' = ResultTop /\ Numbers' = Numbers
  BY <1>1 DEF ResultTop, Numbers
<1>6. ArithmeticExact'
  BY <1>1, <1>5, Names DEF ArithmeticExact, Divisions
<1>7. QED  BY <1>2, <1>4, <1>6 DEF AInv

\* The operands are the stack.
LEMMA Popped ==
  ASSUME AInv, phase = "running"
  PROVE  /\ \A x, y : op.operands = <<x, y>> => Top2 = x /\ Top1 = y
         /\ \A x : op.operands = <<x>> => Top1 = x
<1>1. stack = op.operands
  BY DEF AInv, PhaseOK
<1>2. ASSUME NEW x, NEW y, op.operands = <<x, y>> PROVE Top2 = x /\ Top1 = y
  BY <1>1, <1>2 DEF Top1, Top2
<1>3. ASSUME NEW x, op.operands = <<x>> PROVE Top1 = x
  BY <1>1, <1>3 DEF Top1
<1>4. QED  BY <1>2, <1>3

LEMMA AddSubMulAInv ==
  ASSUME AInv, phase = "running", AddSubMul
  PROVE  AInv'
<1> DEFINE top == IF op.name \in IntPair THEN IntTop ELSE LongTop
<1>1. op.name \in {"iadd", "isub", "imul", "ladd", "lsub", "lmul"}
  BY DEF AddSubMul
<1>2. top \in Nat \ {0} /\ ResultTop = top /\ op.name \notin Divisions
  BY <1>1, Tops, ResultTops DEF IntPair, Divisions
<1>3. PICK x \in Word(top), y \in Word(top) :
        /\ op.operands = <<x, y>>
        /\ Numbers[1] = Signed(top, x) /\ Numbers[2] = Signed(top, y)
  <2>1. CASE op.name \in IntPair
    BY <2>1, IntPairNumbers DEF AInv, OperandsOK
  <2>2. CASE op.name \in LongPair /\ op.name \notin IntPair
    BY <2>2, LongPairNumbers DEF AInv, OperandsOK
  <2>3. QED  BY <1>1, <2>1, <2>2 DEF IntPair, LongPair
<1>4. Top2 = x /\ Top1 = y
  BY <1>3, Popped
<1>5. x \in Int /\ y \in Int
  BY <1>2 DEF Word
<1>6. /\ Wrap(top, x + y) = Wrap(top, Numbers[1] + Numbers[2])
      /\ Wrap(top, x - y) = Wrap(top, Numbers[1] - Numbers[2])
      /\ Wrap(top, x * y) = Wrap(top, Numbers[1] * Numbers[2])
  BY <1>2, <1>3, WrapRing
<1>7. Wrap(top, x + y) \in Word(top) /\ Wrap(top, x - y) \in Word(top) /\ Wrap(top, x * y) \in Word(top)
  <2>1. x + y \in Int /\ x - y \in Int /\ x * y \in Int
    BY <1>5
  <2>2. QED  BY <1>2, <2>1, WrapType
<1> HIDE DEF top
<1>8. CASE op.name \in {"iadd", "ladd"} /\ Push(Wrap(top, x + y))
  BY <1>2, <1>6, <1>7, <1>8, JavaResults, FinishAInv
<1>9. CASE op.name \in {"isub", "lsub"} /\ Push(Wrap(top, x - y))
  BY <1>2, <1>6, <1>7, <1>9, JavaResults, FinishAInv
<1>10. CASE op.name \in {"imul", "lmul"} /\ Push(Wrap(top, x * y))
  BY <1>2, <1>6, <1>7, <1>10, JavaResults, FinishAInv
<1>11. QED  BY <1>4, <1>8, <1>9, <1>10 DEF AddSubMul, top

LEMMA NegateAInv ==
  ASSUME AInv, phase = "running", Negate
  PROVE  AInv'
<1>1. CASE op.name = "ineg" /\ Push(Neg(IntTop, Top1))
  <2>1. PICK x \in Word(IntTop) : op.operands = <<x>> /\ Numbers[1] = Signed(IntTop, x)
    BY <1>1, UnaryNumbers DEF AInv, OperandsOK, IntUnary
  <2>2. Top1 = x
    BY <2>1, Popped
  <2>3. Neg(IntTop, x) \in Word(IntTop) /\ Neg(IntTop, x) = Wrap(IntTop, -Numbers[1])
    BY <2>1, Tops, NegWrap
  <2>4. ResultTop = IntTop /\ op.name \notin Divisions /\ JavaResult(op.name, Numbers) = -Numbers[1]
    BY <1>1, ResultTops, JavaResults DEF Divisions
  <2>5. QED  BY <1>1, <2>2, <2>3, <2>4, FinishAInv
<1>2. CASE op.name = "lneg" /\ Push(Neg(LongTop, Top1))
  <2>1. PICK x \in Word(LongTop) : op.operands = <<x>> /\ Numbers[1] = Signed(LongTop, x)
    BY <1>2, UnaryNumbers DEF AInv, OperandsOK, LongUnary
  <2>2. Top1 = x
    BY <2>1, Popped
  <2>3. Neg(LongTop, x) \in Word(LongTop) /\ Neg(LongTop, x) = Wrap(LongTop, -Numbers[1])
    BY <2>1, Tops, NegWrap
  <2>4. ResultTop = LongTop /\ op.name \notin Divisions /\ JavaResult(op.name, Numbers) = -Numbers[1]
    BY <1>2, ResultTops, JavaResults DEF Divisions
  <2>5. QED  BY <1>2, <2>2, <2>3, <2>4, FinishAInv
<1>3. QED  BY <1>1, <1>2 DEF Negate

\* A count keeps its remainder by the number of bits, taken as signed or not.
LEMMA Counts ==
  ASSUME NEW y \in Word(IntTop)
  PROVE  /\ Signed(IntTop, y) % IntBits = y % IntBits /\ y % IntBits \in 0 .. LongBits
         /\ Signed(IntTop, y) % LongBits = y % LongBits /\ y % LongBits \in 0 .. LongBits - 1
         /\ (y % LongBits) % LongBits = y % LongBits
<1>1. IntBits \in Nat \ {0} /\ LongBits = 2 * IntBits /\ LongBits \in Nat \ {0}
      /\ y \in Nat
  BY ArithmeticAssumption DEF Word
<1>2. (2 * IntTop) % LongBits = 0
  BY WidthsAssumption
<1>3. (2 * IntTop) % IntBits = 0
  <2> DEFINE q == (2 * IntTop) \div LongBits
  <2>1. q \in Int /\ 2 * IntTop = LongBits * q + 0
    <3>1. 2 * IntTop \in Int
      BY Tops
    <3>2. q \in Int /\ 2 * IntTop = LongBits * q + ((2 * IntTop) % LongBits)
      BY <1>1, <3>1, DivMod
    <3>3. QED  BY <1>2, <3>2
  <2> HIDE DEF q
  <2>2. 2 * IntTop = 0 + IntBits * (2 * q) /\ 2 * q \in Int /\ 0 \in 0 .. IntBits - 1
    BY <1>1, <2>1
  <2>3. (0 + IntBits * (2 * q)) % IntBits = 0
    BY <1>1, <2>2, ModUnique
  <2>4. QED  BY <2>2, <2>3
<1>4. /\ Signed(IntTop, y) % IntBits = y % IntBits
      /\ Signed(IntTop, y) % LongBits = y % LongBits
  BY <1>1, <1>2, <1>3, Tops, ModSigned
<1>5. y % IntBits \in 0 .. IntBits - 1 /\ y % LongBits \in 0 .. LongBits - 1
  BY <1>1, DivMod
<1>6. (y % LongBits) % LongBits = y % LongBits
  <2> DEFINE c == y % LongBits
  <2>1. (c + LongBits * 0) % LongBits = c
    BY <1>1, <1>5, ModUnique
  <2>2. QED  BY <1>1, <1>5, <2>1
<1>7. QED  BY <1>1, <1>4, <1>5, <1>6

LEMMA IntShiftAInv ==
  ASSUME AInv, phase = "running", IntShift
  PROVE  AInv'
<1>1. op.name \in {"ishl", "ishr"}
  BY DEF IntShift
<1>2. PICK x \in Word(IntTop), y \in Word(IntTop) :
        /\ op.operands = <<x, y>>
        /\ Numbers[1] = Signed(IntTop, x) /\ Numbers[2] = Signed(IntTop, y)
  BY <1>1, IntPairNumbers DEF AInv, OperandsOK, IntPair
<1>3. Top2 = x /\ Top1 = y
  BY <1>2, Popped
<1> DEFINE p == 2^(y % IntBits)
<1>4. p \in Nat \ {0} /\ Numbers[2] % IntBits = y % IntBits
  BY <1>2, Counts, DoublingAssumption
<1>5. x \in Int /\ Signed(IntTop, x) \in -IntTop .. IntTop - 1
  BY Tops, SignedType DEF Word
<1>6. Wrap(IntTop, x * p) = Wrap(IntTop, Numbers[1] * p) /\ Wrap(IntTop, x * p) \in Word(IntTop)
  <2>1. x * p \in Int
    BY <1>4, <1>5
  <2>2. Wrap(IntTop, x * p) \in Word(IntTop)
    BY <2>1, Tops, WrapType
  <2>3. QED  BY <1>2, <1>4, <2>2, Tops, WrapScaled
<1>7. Wrap(IntTop, Signed(IntTop, x) \div p) \in Word(IntTop)
  <2>1. Signed(IntTop, x) \div p \in Int
    <3>1. Signed(IntTop, x) \in Int
      BY <1>5, Tops
    <3>2. QED  BY <1>4, <3>1, DivMod
  <2>2. QED  BY <2>1, Tops, WrapType
<1>8. ResultTop = IntTop /\ op.name \notin Divisions
  BY <1>1, ResultTops DEF Divisions
<1>9. CASE op.name = "ishl" /\ Push(Wrap(IntTop, x * p))
  <2>1. JavaResult(op.name, Numbers) = Numbers[1] * p
    BY <1>4, <1>9, JavaResults
  <2>2. QED  BY <1>6, <1>8, <1>9, <2>1, FinishAInv
<1>10. CASE op.name = "ishr" /\ Push(Wrap(IntTop, Signed(IntTop, x) \div p))
  <2>1. JavaResult(op.name, Numbers) = Signed(IntTop, x) \div p
    BY <1>2, <1>4, <1>10, JavaResults
  <2>2. QED  BY <1>7, <1>8, <1>10, <2>1, FinishAInv
<1>11. QED  BY <1>3, <1>9, <1>10 DEF IntShift

LEMMA ConversionAInv ==
  ASSUME AInv, phase = "running", I2B \/ I2C \/ IntLong
  PROVE  AInv'
<1>0. ByteTop \in 1 .. IntTop /\ (2 * IntTop) % (2 * ByteTop) = 0 /\ 2 * ByteTop \in Nat \ {0}
  BY ArithmeticAssumption, WidthsAssumption
<1>1. ASSUME op.name \in {"i2b", "i2c", "i2l"}
      PROVE  \E x \in Word(IntTop) : Top1 = x /\ Numbers[1] = Signed(IntTop, x)
  <2>1. PICK x \in Word(IntTop) : op.operands = <<x>>
    BY <1>1 DEF AInv, OperandsOK, IntUnary
  <2>2. Numbers[1] = Signed(IntTop, x)
    BY <1>1, <2>1, UnaryNumbers DEF IntUnary
  <2>3. QED  BY <2>1, <2>2, Popped
<1>2. CASE I2B
  <2> DEFINE byte == Top1 % (2 * ByteTop)
             value == IF Negative(ByteTop, byte) THEN byte + 2 * IntTop - 2 * ByteTop ELSE byte
  <2>1. op.name = "i2b" /\ Push(value)
    BY <1>2 DEF I2B
  <2>2. PICK x \in Word(IntTop) : Top1 = x /\ Numbers[1] = Signed(IntTop, x)
    BY <1>1, <2>1
  <2>3. value \in Word(IntTop) /\ value = Wrap(IntTop,
          CHOOSE v \in -ByteTop .. ByteTop - 1 : (Signed(IntTop, x) - v) % (2 * ByteTop) = 0)
    BY <1>0, <2>2, Tops, SignExtended
  <2> HIDE DEF value
  <2>4. JavaResult(op.name, Numbers)
          = CHOOSE v \in -ByteTop .. ByteTop - 1 : (Signed(IntTop, x) - v) % (2 * ByteTop) = 0
    BY <2>1, <2>2, JavaResults
  <2>5. ResultTop = IntTop /\ op.name \notin Divisions
    BY <2>1, ResultTops DEF Divisions
  <2>6. value = Wrap(ResultTop, JavaResult(op.name, Numbers)) /\ value \in Word(ResultTop)
    BY <2>3, <2>4, <2>5
  <2>7. QED  BY <2>1, <2>5, <2>6, FinishAInv
<1>3. CASE I2C
  <2>1. op.name = "i2c" /\ Push(Top1 % (2 * ByteTop))
    BY <1>3 DEF I2C
  <2>2. PICK x \in Word(IntTop) : Top1 = x /\ Numbers[1] = Signed(IntTop, x)
    BY <1>1, <2>1
  <2>3. Numbers[1] % (2 * ByteTop) = x % (2 * ByteTop)
    BY <1>0, <2>2, Tops, ModSigned
  <2>4. x % (2 * ByteTop) \in 0 .. 2 * IntTop - 1
    <3>1. x \in Int
      BY DEF Word
    <3>2. x % (2 * ByteTop) \in 0 .. 2 * ByteTop - 1
      BY <1>0, <3>1, DivMod
    <3>3. QED  BY <1>0, <3>2
  <2>5. Wrap(IntTop, x % (2 * ByteTop)) = x % (2 * ByteTop)
    BY <2>4, Tops, WrapSmall
  <2>6. ResultTop = IntTop /\ op.name \notin Divisions
        /\ JavaResult(op.name, Numbers) = Numbers[1] % (2 * ByteTop)
    BY <2>1, ResultTops, JavaResults DEF Divisions
  <2>7. x % (2 * ByteTop) \in Word(IntTop)
    BY <2>4 DEF Word
  <2>8. QED  BY <2>1, <2>2, <2>3, <2>5, <2>6, <2>7, FinishAInv
<1>4. CASE op.name = "l2i" /\ Push(Wrap(IntTop, Top1))
  <2>1. PICK x \in Word(LongTop) : op.operands = <<x>> /\ Numbers[1] = Signed(LongTop, x)
    BY <1>4, UnaryNumbers DEF AInv, OperandsOK, LongUnary
  <2>2. Top1 = x
    BY <2>1, Popped
  <2>3. (2 * LongTop) % (2 * IntTop) = 0 /\ 2 * IntTop \in Nat \ {0}
    <3>1. 2 * IntTop \in Nat \ {0} /\ 2 * LongTop = 0 + (2 * IntTop) * (2 * IntTop)
      BY Tops, LongWord
    <3>2. (0 + (2 * IntTop) * (2 * IntTop)) % (2 * IntTop) = 0
      BY <3>1, ModUnique
    <3>3. QED  BY <3>1, <3>2
  <2>4. Wrap(IntTop, Numbers[1]) = Wrap(IntTop, x)
    BY <2>1, <2>3, Tops, ModSigned DEF Wrap
  <2>5. Wrap(IntTop, x) \in Word(IntTop)
    BY Tops, WrapType DEF Word
  <2>6. ResultTop = IntTop /\ op.name \notin Divisions /\ JavaResult(op.name, Numbers) = Numbers[1]
    BY <1>4, ResultTops, JavaResults DEF Divisions
  <2>7. QED  BY <1>4, <2>2, <2>4, <2>5, <2>6, FinishAInv
<1>5. CASE op.name = "i2l" /\ Push(Wrap(LongTop, Signed(IntTop, Top1)))
  <2>1. PICK x \in Word(IntTop) : Top1 = x /\ Numbers[1] = Signed(IntTop, x)
    BY <1>1, <1>5
  <2>2. Wrap(LongTop, Signed(IntTop, x)) \in Word(LongTop)
    <3>1. Signed(IntTop, x) \in Int
      BY Tops, SignedType
    <3>2. QED  BY <3>1, Tops, WrapType
  <2>3. ResultTop = LongTop /\ op.name \notin Divisions /\ JavaResult(op.name, Numbers) = Numbers[1]
    BY <1>5, ResultTops, JavaResults DEF Divisions
  <2>4. QED  BY <1>5, <2>1, <2>2, <2>3, FinishAInv
<1>6. QED  BY <1>2, <1>3, <1>4, <1>5 DEF IntLong

\* 0, 1 and -1 as words.
LEMMA SmallWords ==
  /\ 0 \in Word(IntTop) /\ Wrap(IntTop, 0) = 0
  /\ 1 \in Word(IntTop) /\ Wrap(IntTop, 1) = 1
  /\ Neg(IntTop, 1) \in Word(IntTop) /\ Wrap(IntTop, -1) = Neg(IntTop, 1)
<1>1. 0 \in 0 .. 2 * IntTop - 1 /\ 1 \in 0 .. 2 * IntTop - 1 /\ IntTop \in Nat \ {0}
      /\ 2 * IntTop - 1 \in 0 .. 2 * IntTop - 1
  BY Tops
<1>2. Wrap(IntTop, 0) = 0 /\ Wrap(IntTop, 1) = 1 /\ Wrap(IntTop, 2 * IntTop - 1) = 2 * IntTop - 1
  BY <1>1, WrapSmall
<1>3. Wrap(IntTop, -1 + (2 * IntTop) * 1) = Wrap(IntTop, -1)
  <2>1. -1 \in Int /\ 1 \in Int
    OBVIOUS
  <2>2. QED  BY <1>1, <2>1, WrapMultiple
<1>4. -1 + (2 * IntTop) * 1 = 2 * IntTop - 1 /\ Neg(IntTop, 1) = 2 * IntTop - 1
  BY <1>1 DEF Neg
<1>5. QED  BY <1>1, <1>2, <1>3, <1>4 DEF Word

LEMMA CompareAInv ==
  ASSUME AInv, phase = "running", Compare \/ Branch
  PROVE  AInv'
<1>1. CASE Compare
  <2>1. op.name = "lcmp"
    BY <1>1 DEF Compare
  <2>2. PICK x \in Word(LongTop), y \in Word(LongTop) :
          /\ op.operands = <<x, y>>
          /\ Numbers[1] = Signed(LongTop, x) /\ Numbers[2] = Signed(LongTop, y)
    BY <2>1, LongPairNumbers DEF AInv, OperandsOK, LongPair
  <2>3. Top2 = x /\ Top1 = y
    BY <2>2, Popped
  <2>4. Numbers[1] \in Int /\ Numbers[2] \in Int
    BY <2>2, Tops, SignedType
  <2> DEFINE value == IF Numbers[1] > Numbers[2] THEN 1
                      ELSE IF Numbers[1] < Numbers[2] THEN Neg(IntTop, 1) ELSE 0
  <2>5. Push(value)
    BY <1>1, <2>2, <2>3 DEF Compare
  <2>6. ResultTop = IntTop /\ op.name \notin Divisions
        /\ JavaResult(op.name, Numbers)
             = IF Numbers[1] > Numbers[2] THEN 1 ELSE IF Numbers[1] = Numbers[2] THEN 0 ELSE -1
    BY <2>1, ResultTops, JavaResults DEF Divisions
  <2>7. value = Wrap(ResultTop, JavaResult(op.name, Numbers)) /\ value \in Word(ResultTop)
    BY <2>4, <2>6, SmallWords
  <2>8. QED  BY <2>5, <2>6, <2>7, FinishAInv
<1>2. CASE Branch
  <2>1. op.name \in {"if_icmple", "if_icmplt", "if_icmpge", "if_icmpgt"}
    BY <1>2 DEF Branch
  <2>2. PICK x \in Word(IntTop), y \in Word(IntTop) :
          /\ op.operands = <<x, y>>
          /\ Numbers[1] = Signed(IntTop, x) /\ Numbers[2] = Signed(IntTop, y)
    BY <2>1, IntPairNumbers DEF AInv, OperandsOK, IntPair
  <2>3. Top2 = x /\ Top1 = y
    BY <2>2, Popped
  <2>4. Numbers[1] \in Int /\ Numbers[2] \in Int
    BY <2>2, Tops, SignedType
  <2>5. Push(JavaResult(op.name, Numbers)) /\ JavaResult(op.name, Numbers) \in {0, 1}
    <3>1. CASE op.name = "if_icmple" /\ Push(Bit(Numbers[2] >= Numbers[1]))
      BY <2>4, <3>1, JavaResults DEF Bit
    <3>2. CASE op.name = "if_icmplt" /\ Push(Bit(Numbers[2] > Numbers[1]))
      BY <2>4, <3>2, JavaResults DEF Bit
    <3>3. CASE op.name = "if_icmpge" /\ Push(Bit(Numbers[2] <= Numbers[1]))
      BY <2>4, <3>3, JavaResults DEF Bit
    <3>4. CASE op.name = "if_icmpgt" /\ Push(Bit(Numbers[2] < Numbers[1]))
      BY <2>4, <3>4, JavaResults DEF Bit
    <3>5. QED  BY <1>2, <2>2, <2>3, <3>1, <3>2, <3>3, <3>4 DEF Branch
  <2>6. ResultTop = IntTop /\ op.name \notin Divisions
    BY <2>1, ResultTops DEF Divisions
  <2>7. QED  BY <2>5, <2>6, SmallWords, FinishAInv
<1>3. QED  BY <1>1, <1>2

LEMMA DirectAInv ==
  ASSUME AInv, Direct
  PROVE  AInv'
BY AddSubMulAInv, NegateAInv, IntShiftAInv, ConversionAInv, CompareAInv DEF Direct
-----------------------------------------------------------------------------
(* The calls of the library.                                               *)

LEMMA IssueAInv ==
  ASSUME AInv, IssueAny
  PROVE  AInv'
<1>1. PICK name, operands : Issue(name, operands) /\
        \/ name \in IntPair /\ \E x, y \in Word(IntTop) : operands = <<x, y>>
        \/ name \in LongPair /\ \E x, y \in Word(LongTop) : operands = <<x, y>>
        \/ name \in Shifts /\ \E x \in Word(LongTop), y \in Word(IntTop) : operands = <<x, y>>
        \/ name \in IntUnary /\ \E x \in Word(IntTop) : operands = <<x>>
        \/ name \in LongUnary /\ \E x \in Word(LongTop) : operands = <<x>>
  <2>1. IntOperand \subseteq Word(IntTop) /\ LongOperand \subseteq Word(LongTop)
    BY ArithmeticAssumption
  <2>2. CASE \E name \in IntPair, x, y \in IntOperand : Issue(name, <<x, y>>)
    BY <2>1, <2>2
  <2>3. CASE \E name \in LongPair, x, y \in LongOperand : Issue(name, <<x, y>>)
    BY <2>1, <2>3
  <2>4. CASE \E name \in Shifts, x \in LongOperand, y \in IntOperand : Issue(name, <<x, y>>)
    BY <2>1, <2>4
  <2>5. CASE \E name \in IntUnary, x \in IntOperand : Issue(name, <<x>>)
    BY <2>1, <2>5
  <2>6. CASE \E name \in LongUnary, x \in LongOperand : Issue(name, <<x>>)
    BY <2>1, <2>6
  <2>7. QED  BY <2>2, <2>3, <2>4, <2>5, <2>6, Names DEF IssueAny
<1>2. /\ phase = "ready" /\ phase' = "running" /\ thrown' = thrown /\ stack' = operands
      /\ op' = [name |-> name, operands |-> operands] /\ UNCHANGED dvars /\ UNCHANGED svars
  BY <1>1 DEF Issue
<1>3. thrown = FALSE /\ pc = "idle" /\ spc = "idle"
  BY <1>2 DEF AInv, PhaseOK, DivisionCalled, ShiftCalled
<1>4. pc' = "idle" /\ spc' = "idle"
  BY <1>2, <1>3 DEF dvars, svars
<1>5. IInv' /\ SInv'
  BY <1>2, NextIInv, EndShiftSInv DEF AInv
<1>6. op'.name = name /\ op'.operands = operands
  BY <1>2
<1>7. name \in ArithmeticName
  BY <1>1, Names DEF ArithmeticName
<1>8. OperandsOK'
  <2>1. CASE name \in IntPair /\ \E x, y \in Word(IntTop) : operands = <<x, y>>
    BY <2>1, <1>6 DEF OperandsOK, IntPair, LongPair, Shifts, IntUnary, LongUnary
  <2>2. CASE name \in LongPair /\ \E x, y \in Word(LongTop) : operands = <<x, y>>
    BY <2>2, <1>6 DEF OperandsOK, IntPair, LongPair, Shifts, IntUnary, LongUnary
  <2>3. CASE name \in Shifts /\ \E x \in Word(LongTop), y \in Word(IntTop) : operands = <<x, y>>
    BY <2>3, <1>6 DEF OperandsOK, IntPair, LongPair, Shifts, IntUnary, LongUnary
  <2>4. CASE name \in IntUnary /\ \E x \in Word(IntTop) : operands = <<x>>
    BY <2>4, <1>6 DEF OperandsOK, IntPair, LongPair, Shifts, IntUnary, LongUnary
  <2>5. CASE name \in LongUnary /\ \E x \in Word(LongTop) : operands = <<x>>
    BY <2>5, <1>6 DEF OperandsOK, IntPair, LongPair, Shifts, IntUnary, LongUnary
  <2>6. QED  BY <1>1, <2>1, <2>2, <2>3, <2>4, <2>5
<1>9. PhaseOK' /\ DivisionCalled' /\ ShiftCalled' /\ ArithmeticExact'
  BY <1>2, <1>3, <1>4, <1>6, <1>7
    DEF PhaseOK, DivisionCalled, ShiftCalled, ArithmeticExact
<1>10. QED  BY <1>5, <1>8, <1>9 DEF AInv

LEMMA DivideCheckedAInv ==
  ASSUME AInv, DivideChecked
  PROVE  AInv'
<1> DEFINE top == IF op.name \in IntPair THEN IntTop ELSE LongTop
<1>1. /\ phase = "running" /\ op.name \in Divisions /\ stack' = <<>> /\ op' = op
      /\ UNCHANGED svars
  BY Names DEF DivideChecked
<1>2. PICK x \in Word(top), y \in Word(top) : op.operands = <<x, y>>
  <2>1. CASE op.name \in IntPair
    BY <2>1 DEF AInv, OperandsOK
  <2>2. CASE op.name \in LongPair /\ op.name \notin IntPair
    BY <2>2 DEF AInv, OperandsOK
  <2>3. QED  BY <1>1, <2>1, <2>2 DEF Divisions, IntPair, LongPair
<1>3. Top2 = x /\ Top1 = y
  BY <1>1, <1>2, Popped
<1>4. spc' = "idle" /\ pc = "idle"
  <2>1. spc = "idle" /\ pc = "idle"
    BY <1>1 DEF AInv, ShiftCalled, DivisionCalled
  <2>2. QED  BY <1>1, <2>1 DEF svars
<1>5. SInv' /\ ShiftCalled' /\ OperandsOK'
  BY <1>1, <1>4, EndShiftSInv DEF AInv, ShiftCalled, OperandsOK
<1>6. op.operands[1] = x /\ op.operands[2] = y /\ op.name \in ArithmeticName
  BY <1>2, <1>1 DEF ArithmeticName, Divisions, IntPair, LongPair
<1>7. CASE y = 0
  <2>1. thrown' = TRUE /\ phase' = "finished" /\ UNCHANGED dvars
    BY <1>3, <1>7 DEF DivideChecked
  <2>2. IInv' /\ pc' = "idle"
    BY <1>4, <2>1, NextIInv DEF AInv, dvars
  <2>3. PhaseOK' /\ DivisionCalled'
    BY <2>1, <2>2 DEF PhaseOK, DivisionCalled
  <2>4. ArithmeticExact'
    BY <1>1, <1>6, <1>7, <2>1, Names DEF ArithmeticExact
  <2>5. QED  BY <1>5, <2>2, <2>3, <2>4 DEF AInv
<1>8. CASE y # 0
  <2>1. /\ thrown' = FALSE /\ phase' = "library"
        /\ Divide(DivisionOf[op.name], x, y)
    BY <1>3, <1>8 DEF DivideChecked
  <2>2. DivisionOf[op.name] \in Function /\ Top(DivisionOf[op.name]) = top
    BY <1>1, Names DEF Divisions, IntPair
  <2>3. IInv'
    BY <2>1, <2>2, DivideIInv
  <2>4. /\ call'.fn = DivisionOf[op.name] /\ call'.x = x /\ call'.n = y
    BY <2>1 DEF Divide
  <2>5. PhaseOK' /\ DivisionCalled' /\ ArithmeticExact'
    BY <1>1, <1>6, <1>8, <2>1, <2>4 DEF PhaseOK, DivisionCalled, ArithmeticExact
  <2>6. QED  BY <1>5, <2>3, <2>5 DEF AInv
<1>9. QED  BY <1>7, <1>8

LEMMA LongShiftAInv ==
  ASSUME AInv, LongShift
  PROVE  AInv'
<1>1. /\ phase = "running" /\ op.name \in Shifts /\ stack' = <<>> /\ phase' = "library"
      /\ op' = op /\ thrown' = thrown /\ UNCHANGED dvars
      /\ StartShift(ShiftOf[op.name], Top2, Top1 % LongBits)
  BY Names DEF LongShift
<1>2. PICK x \in Word(LongTop), y \in Word(IntTop) : op.operands = <<x, y>>
  BY <1>1 DEF AInv, OperandsOK
<1>3. Top2 = x /\ Top1 = y
  BY <1>1, <1>2, Popped
<1>4. y % LongBits \in Nat
  BY Counts
<1>5. SInv'
  BY <1>1, <1>3, <1>4, Names, StartShiftSInv
<1>6. /\ request'.fn = ShiftOf[op.name] /\ request'.u = x /\ request'.s = y % LongBits
  BY <1>1, <1>3 DEF StartShift
<1>7. IInv' /\ pc' = "idle"
  <2>1. pc = "idle"
    BY <1>1 DEF AInv, DivisionCalled
  <2>2. QED  BY <1>1, <2>1, NextIInv DEF AInv, dvars
<1>8. op.operands[1] = x /\ op.operands[2] = y /\ op.name \in ArithmeticName
  BY <1>1, <1>2, Names DEF ArithmeticName
<1>9. thrown = FALSE
  BY <1>1 DEF AInv, PhaseOK
<1>10. PhaseOK' /\ ShiftCalled' /\ DivisionCalled' /\ OperandsOK' /\ ArithmeticExact'
  BY <1>1, <1>6, <1>7, <1>8, <1>9
    DEF AInv, PhaseOK, ShiftCalled, DivisionCalled, OperandsOK, ArithmeticExact
<1>11. QED  BY <1>5, <1>7, <1>10 DEF AInv

LEMMA LibraryAInv ==
  ASSUME AInv, Library
  PROVE  AInv'
<1>1. phase = "library" /\ UNCHANGED <<op, stack, thrown, phase>>
  BY DEF Library
<1>2. ArithmeticExact' /\ PhaseOK' /\ OperandsOK'
  BY <1>1 DEF ArithmeticExact, AInv, PhaseOK, OperandsOK
<1>3. CASE DivisionStep /\ UNCHANGED svars
  <2>1. pc # "idle" /\ call' = call
    BY <1>3 DEF DivisionStep, Double, EndDouble, Subtract, EndSubtract
  <2>2. IInv' /\ SInv'
    BY <1>3, NextIInv, EndShiftSInv DEF AInv, Next
  <2>3. DivisionCalled'
    BY <1>1, <2>1 DEF AInv, DivisionCalled
  <2>4. ShiftCalled'
    BY <1>1, <1>3 DEF AInv, ShiftCalled, svars
  <2>5. QED  BY <1>2, <2>2, <2>3, <2>4 DEF AInv
<1>4. CASE (ShiftStep \/ EndShift) /\ UNCHANGED dvars
  <2>1. spc # "idle" /\ request' = request
    BY <1>4 DEF ShiftStep, EndShift
  <2>2. IInv' /\ SInv'
    BY <1>4, NextIInv, ShiftStepSInv, EndShiftSInv DEF AInv
  <2>3. DivisionCalled'
    BY <1>1, <1>4 DEF AInv, DivisionCalled, dvars
  <2>4. ShiftCalled'
    BY <1>1, <2>1 DEF AInv, ShiftCalled
  <2>5. QED  BY <1>2, <2>2, <2>3, <2>4 DEF AInv
<1>5. QED  BY <1>3, <1>4 DEF Library

\* The result of a division is the one Java prescribes.
LEMMA DivisionResult ==
  ASSUME AInv, phase = "library", Return, stack' = <<Result>>, phase' = "finished",
         UNCHANGED <<op, thrown>>
  PROVE  ArithmeticExact'
<1>1. /\ pc = "done" /\ op.name \in Divisions /\ call.n # 0
      /\ call.fn = DivisionOf[op.name] /\ call.x = op.operands[1] /\ call.n = op.operands[2]
  BY DEF Return, AInv, DivisionCalled
<1>2. T = ResultTop
  BY <1>1, Names, ResultTops DEF T, Divisions
<1>3. Result \in Word(ResultTop) /\ QuotientExact /\ RemainderExact
  BY <1>1, <1>2, ResultType, QuotientFromInvariant, RemainderFromInvariant DEF AInv
<1>4. PICK x \in Word(T), y \in Word(T) : op.operands = <<x, y>>
  <2>1. CASE op.name \in IntPair
    BY <1>1, <1>2, <2>1, ResultTops DEF AInv, OperandsOK, Divisions, IntPair
  <2>2. CASE op.name \in LongPair /\ op.name \notin IntPair
    BY <1>1, <1>2, <2>2, ResultTops DEF AInv, OperandsOK, Divisions, IntPair
  <2>3. QED  BY <1>1, <2>1, <2>2 DEF Divisions, IntPair, LongPair
<1>5. Numbers[1] = X /\ Numbers[2] = N
  <2>1. CASE op.name \in {"idiv", "irem"}
    BY <1>1, <1>2, <1>4, <2>1, ResultTops, IntPairNumbers DEF X, N, T, IntPair
  <2>2. CASE op.name \in {"ldiv", "lrem"}
    BY <1>1, <1>2, <1>4, <2>2, ResultTops, LongPairNumbers DEF X, N, T, LongPair
  <2>3. QED  BY <1>1, <2>1, <2>2 DEF Divisions
<1>6. R = Signed(ResultTop, Result)
  BY <1>2 DEF R, T
<1>7. op.name \in {"idiv", "ldiv"} /\ Numbers[2] # -1 =>
        Truncated(Numbers[1], Numbers[2], Signed(ResultTop, Result))
  BY <1>1, <1>3, <1>5, <1>6 DEF QuotientExact, DivisionOf
<1>8. op.name \in {"irem", "lrem"} /\ Numbers[1] # -ResultTop =>
        \E q \in -ResultTop .. ResultTop :
          /\ Truncated(Numbers[1], Numbers[2], q)
          /\ Signed(ResultTop, Result) = Numbers[1] - q * Numbers[2]
  <2>1. SUFFICES ASSUME op.name \in {"irem", "lrem"}, X # -ResultTop
                 PROVE  \E q \in -ResultTop .. ResultTop : Truncated(X, N, q) /\ R = X - q * N
    BY <1>5, <1>6
  <2>2. call.fn \in {"__modsi3", "__moddi3"} /\ (call.fn = "__modsi3" => ResultTop = IntTop)
    BY <1>1, <2>1, ResultTops DEF DivisionOf
  <2>3. QED  BY <1>1, <1>2, <1>3, <2>1, <2>2 DEF RemainderExact, T
<1>9. ResultTop' = ResultTop /\ Numbers' = Numbers
  BY DEF ResultTop, Numbers
<1>10. thrown = FALSE
  BY <1>1, Names DEF AInv, PhaseOK, ArithmeticName, Divisions, IntPair, LongPair
<1>11. Len(stack') = 1 /\ stack'[1] = Result
  OBVIOUS
<1>12. op.operands[2] # 0
  BY <1>1
<1>13. QED  BY <1>1, <1>3, <1>7, <1>8, <1>9, <1>10, <1>11, <1>12, Names DEF ArithmeticExact

\* The result of a shift is the one Java prescribes.
LEMMA ShiftedResult ==
  ASSUME AInv, phase = "library", ReturnShifted, stack' = <<Shifted>>, phase' = "finished",
         UNCHANGED <<op, thrown>>
  PROVE  ArithmeticExact'
<1>1. /\ spc = "done" /\ op.name \in Shifts /\ request.fn = ShiftOf[op.name]
      /\ request.u = op.operands[1] /\ request.s = op.operands[2] % LongBits
  BY DEF ReturnShifted, AInv, ShiftCalled
<1>2. PICK x \in Word(LongTop), y \in Word(IntTop) : op.operands = <<x, y>>
  BY <1>1 DEF AInv, OperandsOK
<1>3. Numbers[1] = Signed(LongTop, x) /\ Numbers[2] = Signed(IntTop, y)
  BY <1>1, <1>2, ShiftNumbers
<1>4. /\ request.u = x /\ request.s % LongBits = y % LongBits
      /\ Numbers[2] % LongBits = y % LongBits /\ y % LongBits \in 0 .. LongBits
  <2>1. request.u = x /\ request.s = y % LongBits
    BY <1>1, <1>2
  <2>2. /\ Signed(IntTop, y) % LongBits = y % LongBits /\ y % LongBits \in 0 .. LongBits - 1
        /\ (y % LongBits) % LongBits = y % LongBits
    BY Counts
  <2>3. QED  BY <1>3, <2>1, <2>2, LongBitsAssumption
<1> DEFINE p == 2^(y % LongBits)
<1>5. p \in Nat \ {0}
  BY <1>4, DoublingAssumption
<1>6. Shifted \in Word(LongTop) /\ ShiftedBy(y % LongBits)
  BY <1>1, <1>4, ShiftResult DEF AInv
<1>7. ResultTop = LongTop
  BY <1>1, ResultTops DEF Shifts
<1>8. Shifted = Wrap(LongTop, JavaResult(op.name, Numbers))
  <2>1. CASE op.name = "lshl"
    <3>1. JavaResult(op.name, Numbers) = Numbers[1] * p
      BY <1>4, <2>1, JavaResults
    <3>2. Shifted = Wrap(LongTop, x * p)
      BY <1>1, <1>4, <1>6, <2>1 DEF ShiftedBy, ShiftOf
    <3>3. QED  BY <1>3, <1>5, <3>1, <3>2, Tops, WrapScaled
  <2>2. CASE op.name = "lshr"
    <3>1. JavaResult(op.name, Numbers) = Numbers[1] \div p
      BY <1>4, <2>2, JavaResults
    <3>2. Signed(LongTop, Shifted) = Signed(LongTop, x) \div p
      BY <1>1, <1>4, <1>6, <2>2 DEF ShiftedBy, ShiftOf
    <3>3. QED  BY <1>3, <1>6, <3>1, <3>2, Tops, WrapSigned
  <2>3. CASE op.name = "lushr"
    <3>1. JavaResult(op.name, Numbers) = (Numbers[1] % (2 * LongTop)) \div p
      BY <1>4, <2>3, JavaResults
    <3>2. Numbers[1] % (2 * LongTop) = x
      BY <1>3, Tops, WrapSigned DEF Wrap
    <3>3. Shifted = x \div p
      BY <1>1, <1>4, <1>6, <2>3 DEF ShiftedBy, ShiftOf
    <3>4. Wrap(LongTop, Shifted) = Shifted
      BY <1>6, Tops, WrapSmall DEF Word
    <3>5. QED  BY <3>1, <3>2, <3>3, <3>4
  <2>4. QED  BY <1>1, <2>1, <2>2, <2>3 DEF Shifts
<1>9. ResultTop' = ResultTop /\ Numbers' = Numbers
  BY DEF ResultTop, Numbers
<1>10. thrown = FALSE
  BY <1>1, Names DEF AInv, PhaseOK, ArithmeticName
<1>11. Len(stack') = 1 /\ stack'[1] = Shifted /\ op.name \notin Divisions
  BY <1>1 DEF Shifts, Divisions
<1> HIDE DEF p
<1>12. QED  BY <1>1, <1>6, <1>7, <1>8, <1>9, <1>10, <1>11, Names DEF ArithmeticExact, Divisions

LEMMA PushResultAInv ==
  ASSUME AInv, PushResult
  PROVE  AInv'
<1>1. phase = "library" /\ phase' = "finished" /\ UNCHANGED <<op, thrown>>
  BY DEF PushResult
<1>2. OperandsOK' /\ PhaseOK'
  BY <1>1 DEF AInv, OperandsOK, PhaseOK
<1>3. CASE Return /\ stack' = <<Result>> /\ UNCHANGED svars
  <2>1. ArithmeticExact'
    BY <1>1, <1>3, DivisionResult
  <2>2. pc # "idle" /\ pc' = "idle"
    BY <1>3 DEF Return
  <2>3. spc = "idle"
    BY <2>2 DEF AInv, DivisionCalled, ShiftCalled, Divisions, Shifts
  <2>4. IInv' /\ SInv' /\ DivisionCalled' /\ ShiftCalled'
    BY <1>3, <2>2, <2>3, ReturnIInv, EndShiftSInv DEF AInv, DivisionCalled, ShiftCalled, svars
  <2>5. QED  BY <1>2, <2>1, <2>4 DEF AInv
<1>4. CASE ReturnShifted /\ stack' = <<Shifted>> /\ UNCHANGED dvars
  <2>1. ArithmeticExact'
    BY <1>1, <1>4, ShiftedResult
  <2>2. spc # "idle" /\ spc' = "idle"
    BY <1>4 DEF ReturnShifted
  <2>3. pc = "idle"
    BY <2>2 DEF AInv, DivisionCalled, ShiftCalled, Divisions, Shifts
  <2>4. IInv' /\ SInv' /\ DivisionCalled' /\ ShiftCalled'
    BY <1>4, <2>2, <2>3, NextIInv, EndShiftSInv DEF AInv, DivisionCalled, ShiftCalled, dvars
  <2>5. QED  BY <1>2, <2>1, <2>4 DEF AInv
<1>5. QED  BY <1>3, <1>4 DEF PushResult

LEMMA OtherAInv ==
  ASSUME AInv, NextInstruction \/ UNCHANGED avars
  PROVE  AInv'
<1>1. CASE NextInstruction
  <2>1. /\ phase = "finished" /\ phase' = "ready" /\ thrown' = FALSE
        /\ op' = [name |-> "nop", operands |-> <<>>] /\ UNCHANGED dvars /\ UNCHANGED svars
    BY <1>1 DEF NextInstruction
  <2>2. IInv' /\ SInv'
    BY <2>1, NextIInv, EndShiftSInv DEF AInv
  <2>3. pc' = "idle" /\ spc' = "idle"
    <3>1. pc = "idle" /\ spc = "idle"
      BY <2>1 DEF AInv, DivisionCalled, ShiftCalled
    <3>2. QED  BY <2>1, <3>1 DEF dvars, svars
  <2>4. op'.name = "nop"
    BY <2>1
  <2>5. OperandsOK'
    BY <2>4 DEF OperandsOK, IntPair, LongPair, Shifts, IntUnary, LongUnary
  <2>6. op'.name \notin ArithmeticName
    BY <2>4, Names DEF ArithmeticName, IntPair, LongPair, Shifts, IntUnary, LongUnary
  <2>7. PhaseOK' /\ DivisionCalled' /\ ShiftCalled' /\ ArithmeticExact'
    BY <2>1, <2>3, <2>6 DEF PhaseOK, DivisionCalled, ShiftCalled, ArithmeticExact
  <2>8. QED  BY <2>2, <2>5, <2>7 DEF AInv
<1>2. CASE UNCHANGED avars
  <2>1. UNCHANGED <<op, stack, thrown, phase>> /\ UNCHANGED dvars /\ UNCHANGED svars
    BY <1>2 DEF avars
  <2>2. IInv' /\ SInv'
    BY <2>1, NextIInv, EndShiftSInv DEF AInv
  <2>3. OperandsOK' /\ PhaseOK' /\ DivisionCalled' /\ ShiftCalled'
    BY <2>1 DEF AInv, OperandsOK, PhaseOK, DivisionCalled, ShiftCalled, dvars, svars
  <2>4. ArithmeticExact'
    BY <2>1 DEF AInv, ArithmeticExact, ResultTop, Numbers
  <2>5. QED  BY <2>2, <2>3, <2>4 DEF AInv
<1>3. QED  BY <1>1, <1>2

\* Every step of an arithmetic instruction keeps the invariant.
LEMMA PerformAInv == AInv /\ (IssueAny \/ Perform \/ UNCHANGED avars) => AInv'
BY DirectAInv, IssueAInv, DivideCheckedAInv, LongShiftAInv, LibraryAInv, PushResultAInv,
   OtherAInv DEF Perform

LEMMA InitAInv == ArithmeticInit => AInv
<1>1. SUFFICES ASSUME ArithmeticInit PROVE AInv
  OBVIOUS
<1>2. IInv /\ SInv
  BY <1>1, InitIInv, ShiftIdleSInv DEF ArithmeticInit
<1>3. /\ pc = "idle" /\ spc = "idle" /\ phase = "ready" /\ thrown = FALSE /\ op.name = "nop"
  BY <1>1 DEF ArithmeticInit, Idle, ShiftIdle
<1>4. OperandsOK
  BY <1>3 DEF OperandsOK, IntPair, LongPair, Shifts, IntUnary, LongUnary
<1>5. op.name \notin ArithmeticName
  BY <1>3, Names DEF ArithmeticName, IntPair, LongPair, Shifts, IntUnary, LongUnary
<1>6. QED  BY <1>2, <1>3, <1>4, <1>5
        DEF AInv, PhaseOK, DivisionCalled, ShiftCalled, ArithmeticExact
=============================================================================
