----------------------------- MODULE Arithmetic -----------------------------
(***************************************************************************)
(* The arithmetic instructions of instruction1.c and the functions of      *)
(* nostdlib.c that do their work where the processor cannot.  The operands *)
(* of one instruction are on the stack, the left one below; a long is one  *)
(* entry here.  Branches leave whether they are taken.                     *)
(***************************************************************************)
EXTENDS Division, Shift

CONSTANTS IntBits,      \* 32: the count of ishl and ishr is masked with 0x1f
          ByteTop,      \* the sign bit of a byte, 0x80
          IntOperand, LongOperand

ASSUME ArithmeticAssumption ==
  /\ IntOperand \subseteq Word(IntTop) /\ LongOperand \subseteq Word(LongTop)
  /\ IntBits \in Nat \ {0} /\ LongBits = 2 * IntBits /\ 2^IntBits = 2 * IntTop
  /\ ByteTop \in 1 .. IntTop

\* The widths divide each other: 64 divides 2^32, and 2^8 does.
ASSUME WidthsAssumption ==
  (2 * IntTop) % LongBits = 0 /\ (2 * IntTop) % (2 * ByteTop) = 0

VARIABLES op,           \* the instruction at hand and its operands
          stack,
          thrown,       \* an ArithmeticException was thrown
          phase         \* "ready", "running", "library" or "finished"

avars == <<op, stack, thrown, phase, dvars, svars>>

\* The library function the compiler calls for the operator of an instruction.
DivisionOf ==
  [idiv |-> "__divsi3", irem |-> "__modsi3", ldiv |-> "__divdi3", lrem |-> "__moddi3"]
ShiftOf == [lshl |-> "__ashldi3", lshr |-> "__ashrdi3", lushr |-> "__lshrdi3"]

\* Instructions on the numbers of one width; on longs and a count; on one operand.
IntPair == {"iadd", "isub", "imul", "idiv", "irem", "ishl", "ishr",
            "if_icmple", "if_icmplt", "if_icmpge", "if_icmpgt"}
LongPair == {"ladd", "lsub", "lmul", "ldiv", "lrem", "lcmp"}
IntUnary == {"ineg", "i2b", "i2c", "i2l"}
LongUnary == {"lneg", "l2i"}

ArithmeticName == IntPair \cup LongPair \cup DOMAIN ShiftOf \cup IntUnary \cup LongUnary

Top1 == stack[Len(stack)]          \* popped first
Top2 == stack[Len(stack) - 1]      \* popped second

Issue(name, operands) ==
  /\ phase = "ready"
  /\ op' = [name |-> name, operands |-> operands]
  /\ stack' = operands
  /\ phase' = "running"
  /\ UNCHANGED <<thrown, dvars, svars>>

Push(value) ==
  /\ stack' = <<value>> /\ phase' = "finished"
  /\ UNCHANGED <<op, thrown, dvars, svars>>

\* f_iadd to f_lmul: the operand popped second is the left one.
AddSubMul ==
  LET top == IF op.name \in IntPair THEN IntTop ELSE LongTop
  IN \/ op.name \in {"iadd", "ladd"} /\ Push(Wrap(top, Top2 + Top1))
     \/ op.name \in {"isub", "lsub"} /\ Push(Wrap(top, Top2 - Top1))
     \/ op.name \in {"imul", "lmul"} /\ Push(Wrap(top, Top2 * Top1))

Negate ==
  \/ op.name = "ineg" /\ Push(Neg(IntTop, Top1))
  \/ op.name = "lneg" /\ Push(Neg(LongTop, Top1))

IntShift ==
  LET count1 == Top1 % IntBits
  IN \/ op.name = "ishl" /\ Push(Wrap(IntTop, Top2 * 2^count1))
     \/ op.name = "ishr" /\ Push(Wrap(IntTop, Signed(IntTop, Top2) \div 2^count1))

\* f_i2b cuts to a byte and sets all upper bits when its sign bit is set.
I2B ==
  LET byte == Top1 % (2 * ByteTop)
  IN /\ op.name = "i2b"
     /\ Push(IF Negative(ByteTop, byte) THEN byte + 2 * IntTop - 2 * ByteTop ELSE byte)

\* A char is a byte here: f_i2c masks with 0xff.
I2C == op.name = "i2c" /\ Push(Top1 % (2 * ByteTop))

IntLong ==
  \/ op.name = "l2i" /\ Push(Wrap(IntTop, Top1))
  \/ op.name = "i2l" /\ Push(Wrap(LongTop, Signed(IntTop, Top1)))

Compare ==
  LET val1 == Signed(LongTop, Top1)
      val2 == Signed(LongTop, Top2)
  IN /\ op.name = "lcmp"
     /\ Push(IF val2 > val1 THEN 1 ELSE IF val2 < val1 THEN Neg(IntTop, 1) ELSE 0)

\* The operand written first is popped first, so that the conditions are turned
\* round.
Branch ==
  LET first == Signed(IntTop, Top1)
      second == Signed(IntTop, Top2)
  IN \/ op.name = "if_icmple" /\ Push(Bit(first >= second))
     \/ op.name = "if_icmplt" /\ Push(Bit(first > second))
     \/ op.name = "if_icmpge" /\ Push(Bit(first <= second))
     \/ op.name = "if_icmpgt" /\ Push(Bit(first < second))

Direct == phase = "running" /\
  (AddSubMul \/ Negate \/ IntShift \/ I2B \/ I2C \/ IntLong \/ Compare \/ Branch)

DivideChecked ==
  /\ phase = "running" /\ op.name \in DOMAIN DivisionOf
  /\ stack' = <<>>
  /\ IF Top1 = 0
     THEN thrown' = TRUE /\ phase' = "finished" /\ UNCHANGED dvars
     ELSE thrown' = FALSE /\ phase' = "library" /\ Divide(DivisionOf[op.name], Top2, Top1)
  /\ UNCHANGED <<op, svars>>

LongShift ==
  /\ phase = "running" /\ op.name \in DOMAIN ShiftOf
  /\ StartShift(ShiftOf[op.name], Top2, Top1 % LongBits)
  /\ stack' = <<>> /\ phase' = "library"
  /\ UNCHANGED <<op, thrown, dvars>>

Library ==
  /\ phase = "library"
  /\ \/ DivisionStep /\ UNCHANGED svars
     \/ (ShiftStep \/ EndShift) /\ UNCHANGED dvars
  /\ UNCHANGED <<op, stack, thrown, phase>>

\* The result of the library function is pushed.
PushResult ==
  /\ phase = "library"
  /\ \/ Return /\ stack' = <<Result>> /\ UNCHANGED svars
     \/ ReturnShifted /\ stack' = <<Shifted>> /\ UNCHANGED dvars
  /\ phase' = "finished"
  /\ UNCHANGED <<op, thrown>>

NextInstruction ==
  /\ phase = "finished"
  /\ op' = [name |-> "nop", operands |-> <<>>]
  /\ stack' = <<>> /\ thrown' = FALSE /\ phase' = "ready"
  /\ UNCHANGED <<dvars, svars>>

ArithmeticInit ==
  /\ Idle /\ ShiftIdle
  /\ op = [name |-> "nop", operands |-> <<>>]
  /\ stack = <<>> /\ thrown = FALSE /\ phase = "ready"

IssueAny ==
  \/ \E name \in IntPair, x, y \in IntOperand : Issue(name, <<x, y>>)
  \/ \E name \in LongPair, x, y \in LongOperand : Issue(name, <<x, y>>)
  \/ \E name \in DOMAIN ShiftOf, x \in LongOperand, y \in IntOperand :
       Issue(name, <<x, y>>)
  \/ \E name \in IntUnary, x \in IntOperand : Issue(name, <<x>>)
  \/ \E name \in LongUnary, x \in LongOperand : Issue(name, <<x>>)

Perform ==
  Direct \/ DivideChecked \/ LongShift \/ Library \/ PushResult \/ NextInstruction

ArithmeticNext == IssueAny \/ Perform
-----------------------------------------------------------------------------
\* What The Java Virtual Machine Specification makes of the operands, as numbers.
JavaResult(name, i) ==
  CASE name = "iadd" \/ name = "ladd" -> i[1] + i[2]
    [] name = "isub" \/ name = "lsub" -> i[1] - i[2]
    [] name = "imul" \/ name = "lmul" -> i[1] * i[2]
    [] name = "ineg" \/ name = "lneg" -> -i[1]
    [] name = "ishl" -> i[1] * 2^(i[2] % IntBits)
    [] name = "ishr" -> i[1] \div 2^(i[2] % IntBits)
    [] name = "lshl" -> i[1] * 2^(i[2] % LongBits)
    [] name = "lshr" -> i[1] \div 2^(i[2] % LongBits)
    [] name = "lushr" -> (i[1] % (2 * LongTop)) \div 2^(i[2] % LongBits)
    [] name = "i2b" -> CHOOSE v \in -ByteTop .. ByteTop - 1 : (i[1] - v) % (2 * ByteTop) = 0
    [] name = "i2c" -> i[1] % (2 * ByteTop)
    [] name = "i2l" \/ name = "l2i" -> i[1]
    [] name = "lcmp" -> IF i[1] > i[2] THEN 1 ELSE IF i[1] = i[2] THEN 0 ELSE -1
    [] name = "if_icmple" -> Bit(i[1] <= i[2])
    [] name = "if_icmplt" -> Bit(i[1] < i[2])
    [] name = "if_icmpge" -> Bit(i[1] >= i[2])
    [] name = "if_icmpgt" -> Bit(i[1] > i[2])

\* The numbers the operands stand for.
Numbers ==
  [k \in DOMAIN op.operands |->
     Signed(IF op.name \in IntPair \cup IntUnary \/ (k = 2 /\ op.name \in DOMAIN ShiftOf)
            THEN IntTop ELSE LongTop, op.operands[k])]

ResultTop == IF op.name \in (LongPair \ {"lcmp"}) \cup DOMAIN ShiftOf \cup {"i2l", "lneg"}
             THEN LongTop ELSE IntTop

\* An instruction throws exactly when it divides by zero; every other leaves one
\* operand, the result Java prescribes cut to its width.  The remainder of the
\* most negative int is left out (RemainderExact).
ArithmeticExact ==
  phase = "finished" /\ op.name \in ArithmeticName =>
    /\ thrown <=> op.name \in DOMAIN DivisionOf /\ op.operands[2] = 0
    /\ ~thrown =>
         /\ Len(stack) = 1 /\ stack[1] \in Word(ResultTop)
         /\ op.name \notin DOMAIN DivisionOf =>
              stack[1] = Wrap(ResultTop, JavaResult(op.name, Numbers))
         /\ op.name \in {"idiv", "ldiv"} /\ Numbers[2] # -1 =>
              Truncated(Numbers[1], Numbers[2], Signed(ResultTop, stack[1]))
         /\ op.name \in {"irem", "lrem"} /\ Numbers[1] # -ResultTop =>
              \E q \in -ResultTop .. ResultTop :
                /\ Truncated(Numbers[1], Numbers[2], q)
                /\ Signed(ResultTop, stack[1]) = Numbers[1] - q * Numbers[2]
=============================================================================
