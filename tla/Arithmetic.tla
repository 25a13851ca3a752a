------------------------------ MODULE Arithmetic ------------------------------
(***************************************************************************)
(* A program that does nothing but compute: any sequence of the            *)
(* instructions of module Alu, on any operands.                            *)
(***************************************************************************)
EXTENDS Alu

CONSTANTS
  Operands,   (* the values of the second operand                          *)
  NoTotal     (* the last instruction was no decimal arithmetic            *)

ASSUME ArithmeticAssumption ==
  /\ Operands \subseteq 0 .. 255
  /\ NoTotal \notin Int

VARIABLES
  regs,   (* A and the flags                                               *)
  total   (* history: the decimal number the last instruction was to       *)
          (* compute, out of range if it carries or borrows                *)

arithmeticVars == <<regs, total>>

ArithmeticInit ==
  /\ regs = cpu_write_af(432)
  /\ total = NoTotal

-------------------------------------------------------------------------------
IsDecimal(byte) == byte \div 16 <= 9 /\ Nibble(byte) <= 9

Decimal(byte) == 10 * (byte \div 16) + Nibble(byte)

Compute(result) == regs' = result /\ total' = NoTotal

(* Adding or subtracting: on decimal operands it means a decimal number.   *)
Arithmetic(result, value, meaning) ==
  /\ regs' = result
  /\ total' = IF IsDecimal(regs.a) /\ IsDecimal(value) THEN meaning ELSE NoTotal

Add(value) ==
  \/ Arithmetic(add(regs, value), value, Decimal(regs.a) + Decimal(value))
  \/ Arithmetic(adc(regs, value), value, Decimal(regs.a) + Decimal(value) + Carry(regs))

Subtract(value) ==
  \/ Arithmetic(sub(regs, value), value, Decimal(regs.a) - Decimal(value))
  \/ Arithmetic(sbc(regs, value), value, Decimal(regs.a) - Decimal(value) - Carry(regs))

Combine(value) ==
  \/ Compute(and(regs, value))
  \/ Compute(or(regs, value))
  \/ Compute(xor(regs, value))
  \/ Compute(cp(regs, value))

(* LD A,value leaves the flags alone. *)
Load(value) == Compute([regs EXCEPT !.a = value])

Adjust == Compute(daa(regs))

Rotate ==
  \/ Compute(rlc(regs)) \/ Compute(rrc(regs)) \/ Compute(rl(regs)) \/ Compute(rr(regs))
  \/ Compute(rlca(regs)) \/ Compute(rrca(regs)) \/ Compute(rla(regs)) \/ Compute(rra(regs))

Shift ==
  \/ Compute(sla(regs)) \/ Compute(srl(regs)) \/ Compute(sra(regs)) \/ Compute(swap(regs))

OneBit(n) ==
  \/ Compute(bit(regs, n)) \/ Compute(set(regs, n)) \/ Compute(res(regs, n))

Modify ==
  \/ Compute(inc(regs)) \/ Compute(dec(regs))
  \/ Compute(cpl(regs)) \/ Compute(scf(regs)) \/ Compute(ccf(regs))

(* PUSH AF, then POP AF. *)
SaveAndRestore == Compute(cpu_write_af(cpu_read_af(regs)))

ArithmeticNext ==
  \/ \E value \in Operands :
       Add(value) \/ Subtract(value) \/ Combine(value) \/ Load(value)
  \/ \E n \in 0 .. 7 : OneBit(n)
  \/ Adjust \/ Rotate \/ Shift \/ Modify \/ SaveAndRestore

ArithmeticSpec == ArithmeticInit /\ [][ArithmeticNext]_arithmeticVars

-------------------------------------------------------------------------------
(* A is a byte and the flags are flags, whatever was computed. *)
ArithmeticTypeOK ==
  /\ regs \in Registers
  /\ total \in {NoTotal} \cup -100 .. 199

(* DAA finishes decimal arithmetic: whatever the flags were before, after  *)
(* an addition or subtraction of two-digit numbers it leaves the two       *)
(* digits of the result, and the carry that the next pair of digits needs. *)
HoldsDecimal(adjusted, meaning) ==
  /\ IsDecimal(adjusted.a)
  /\ Decimal(adjusted.a) = meaning % 100
  /\ adjusted.carry <=> meaning \notin 0 .. 99

DecimalResults == total # NoTotal => HoldsDecimal(daa(regs), total)

(* Numbers longer than a byte: an addition followed by one with carry of   *)
(* the upper bytes is the 16-bit addition of ADD HL, both in the sum and   *)
(* in the carry and half carry; and subtracting again, byte by byte, gives *)
(* the first number back and borrows exactly if the addition carried.  The *)
(* flags of ADD SP,r are those of adding the offset to the lower byte.     *)
Join(upper, lower) == 256 * upper + lower

LowerSum(x0, y0) == add([regs EXCEPT !.a = x0], y0)
UpperSum(low, x1, y1) == adc([low EXCEPT !.a = x1], y1)

LowerDifference(low, y0) == sub(low, y0)
UpperDifference(low, s1, y1) == sbc([low EXCEPT !.a = s1], y1)

SumIsThatOfWords(low, high, word) ==
  /\ Join(high.a, low.a) = word.hl
  /\ high.carry <=> word.carry
  /\ high.halfCarry <=> word.halfCarry

AddedAsWords(x1, x0, y1, y0) ==
  LET low == LowerSum(x0, y0)
  IN  SumIsThatOfWords(low, UpperSum(low, x1, y1),
                       add_hl_rr(Join(x1, x0), Join(y1, y0)))

GivesBack(lowBack, highBack, x1, x0, high) ==
  /\ lowBack.a = x0 /\ highBack.a = x1
  /\ highBack.carry <=> high.carry
  /\ highBack.halfCarry <=> high.halfCarry

SubtractedAgain(x1, x0, y1, y0) ==
  LET low == LowerSum(x0, y0)
      high == UpperSum(low, x1, y1)
      lowBack == LowerDifference(low, y0)
  IN  GivesBack(lowBack, UpperDifference(lowBack, high.a, y1), x1, x0, high)

OffsetAsLowerByte(x1, x0, word) ==
  LET offset == add_signed_word_to_dword(Join(x1, x0), word)
      low == LowerSum(x0, word)
  IN  (offset.carry <=> low.carry) /\ (offset.halfCarry <=> low.halfCarry)

WideArithmetic ==
  \A upper, other \in Operands :
    /\ AddedAsWords(upper, regs.a, regs.a, other)
    /\ SubtractedAgain(upper, regs.a, regs.a, other)
    /\ OffsetAsLowerByte(upper, regs.a, other)

(* A rotation is undone by its opposite, the carry included.               *)
RotationsAreInverse ==
  /\ rrc(rlc(regs)).a = regs.a /\ rlc(rrc(regs)).a = regs.a
  /\ \A back \in {rr(rl(regs)), rl(rr(regs))} :
       back.a = regs.a /\ (back.carry <=> regs.carry)

(* A shift leaves the bit it drops in the carry, and what comes in at the  *)
(* other end is 0 or, in SRA, the sign: rotating through the carry in the  *)
(* other direction gives the byte back, as numbers longer than a byte      *)
(* need.                                                                   *)
ShiftsAreUndone ==
  /\ rr(sla(regs)).a = regs.a /\ ~rr(sla(regs)).carry
  /\ rl(srl(regs)).a = regs.a /\ ~rl(srl(regs)).carry
  /\ rl(sra(regs)).a = regs.a /\ (rl(sra(regs)).carry <=> Highest(regs))

(* SWAP moves each bit by four places: twice, it is undone.                *)
SwapMovesFourPlaces ==
  /\ swap(regs).a = rlc(rlc(rlc(rlc(regs)))).a
  /\ swap(swap(regs)).a = regs.a

(* SET and RES make BIT see what they wrote, and BIT sees no other bit     *)
(* change.                                                                 *)
OneBitChanges ==
  \A n \in 0 .. 7 :
    /\ ~bit(set(regs, n), n).zero /\ bit(res(regs, n), n).zero
    /\ \A changed \in {set(regs, n), res(regs, n)}, other \in 0 .. 7 \ {n} :
         bit(changed, other).zero <=> bit(regs, other).zero

(* An interrupt handler that saves and restores AF changes no flag.        *)
SavedFlagsComeBack == cpu_write_af(cpu_read_af(regs)) = regs

(* What only moves bits around loses none of them, the flags included: the *)
(* rotations, the shifts, SWAP, the instructions on one bit, and PUSH AF   *)
(* with POP AF.                                                            *)
BitsAreKept ==
  /\ RotationsAreInverse
  /\ ShiftsAreUndone
  /\ SwapMovesFourPlaces
  /\ OneBitChanges
  /\ SavedFlagsComeBack

(* The offset of ADD SP,r and LD HL,SP+r, whose text in the instruction    *)
(* table is signed (%hhd, %+d): the bytes from 128 up count downwards.     *)
Signed(byte) == IF byte < 128 THEN byte ELSE byte - 256

SpOffsetIsSigned ==
  \A sp \in {49152, 65534} :
    add_signed_word_to_dword(sp, regs.a).total = (sp + Signed(regs.a)) % 65536

===============================================================================
