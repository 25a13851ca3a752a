---------------------------------- MODULE Alu ----------------------------------
(***************************************************************************)
(* The arithmetic, logic, shift and bit instructions on the accumulator    *)
(* and the four flags.  Where the code has one function for the eight      *)
(* operands B, C, D, E, H, L, (HL) and A, the operand that is changed is A *)
(* here and the other operand is a value: nothing but the flags, A and the *)
(* operand takes part.  An instruction maps the registers to registers.    *)
(***************************************************************************)
EXTENDS Integers

Registers ==
  [a: 0 .. 255, zero: BOOLEAN, negative: BOOLEAN, halfCarry: BOOLEAN, carry: BOOLEAN]

Nibble(value) == value % 16

Carry(r) == IF r.carry THEN 1 ELSE 0

(* The weights of the bits of a byte, and of the bit above it. *)
Weight == <<1, 2, 4, 8, 16, 32, 64, 128, 256>>

Bit(value, n) == (value \div Weight[n + 1]) % 2

(* A value of 16 bits. *)
DWORD_MAX == 65535

Dword(value) == value % (DWORD_MAX + 1)

(* An 8-bit result and the flags of the instruction that computed it. *)
Result(value, negative, halfCarry, carry) ==
  [a |-> value, zero |-> value = 0, negative |-> negative,
   halfCarry |-> halfCarry, carry |-> carry]

-------------------------------------------------------------------------------
(* Addition and subtraction. *)

add(r, value) ==
  Result((r.a + value) % 256, FALSE,
         Nibble(r.a) + Nibble(value) >= 16,
         255 - r.a < value)

(* Mutant: the half carry forgets the carry that comes in. *)
adc_HalfForgetsCarry(r, value) ==
  Result((r.a + value + Carry(r)) % 256, FALSE,
         Nibble(r.a) + Nibble(value) > 15,
         r.a + value + Carry(r) > 255)

adc(r, value) ==
  Result((r.a + value + Carry(r)) % 256, FALSE,
         Nibble(r.a) + Nibble(value) + Carry(r) > 15,
         r.a + value + Carry(r) > 255)

sub(r, value) ==
  Result((r.a - value) % 256, TRUE, Nibble(r.a) < Nibble(value), value > r.a)

(* The difference is kept in 16 bits, so a borrow shows as a large number. *)
sbc(r, value) ==
  LET result == Dword(r.a - value - Carry(r))
  IN  Result(result % 256, TRUE,
             Nibble(r.a) - Nibble(value) - Carry(r) < 0,
             result > 255)

cp(r, value) ==
  [a |-> r.a, zero |-> r.a = value, negative |-> TRUE,
   halfCarry |-> Nibble(value) > Nibble(r.a), carry |-> r.a < value]

inc(r) == Result((r.a + 1) % 256, FALSE, Nibble(r.a) = 15, r.carry)

dec(r) == Result((r.a - 1) % 256, TRUE, Nibble(r.a) = 0, r.carry)

(* ADD HL,rr: the half carry is the carry into bit 12. *)
LowerBits(dword) == dword % 4096

Bit12(dword) == (dword \div 4096) % 2

add_hl_rr(hl, value) ==
  [hl |-> Dword(hl + value),
   halfCarry |-> Bit12(LowerBits(hl) + LowerBits(value)) # 0,
   carry |-> hl + value > DWORD_MAX]

(* ADD SP,r and LD HL,SP+r.  The callers pass the operand byte as it is,   *)
(* so it is never negative.  The exclusive or of the operands and the sum  *)
(* holds the carries into each bit.                                        *)
add_signed_word_to_dword(dword, word) ==
  LET total == Dword(dword + word)
      CarryInto(n) == (Bit(dword, n) + Bit(word, n) + Bit(total, n)) % 2 = 1
  IN  [total |-> total, halfCarry |-> CarryInto(4), carry |-> CarryInto(8)]

(* Mutant: the upper digit is corrected before the lower digit can reach it. *)
daa_Threshold(r) ==
  LET high == ~r.negative /\ (r.carry \/ r.a > 159)
      low == ~r.negative /\ (r.halfCarry \/ Nibble(r.a) > 9)
      change == IF ~r.negative
                THEN (IF high THEN 96 ELSE 0) + (IF low THEN 6 ELSE 0)
                ELSE (IF r.carry THEN 160 ELSE 0) + (IF r.halfCarry THEN 250 ELSE 0)
  IN  Result((r.a + change) % 256, r.negative, FALSE, r.carry \/ high)

(* The first correction leaves the lower digit alone, so both conditions   *)
(* are about the value DAA finds; 0x9a is 0xa0 + 0xfa; and a half carry is *)
(* always used up.                                                         *)
daa(r) ==
  LET high == ~r.negative /\ (r.carry \/ r.a > 153)
      low == ~r.negative /\ (r.halfCarry \/ Nibble(r.a) > 9)
      change == IF ~r.negative
                THEN (IF high THEN 96 ELSE 0) + (IF low THEN 6 ELSE 0)
                ELSE (IF r.carry THEN 160 ELSE 0) + (IF r.halfCarry THEN 250 ELSE 0)
  IN  Result((r.a + change) % 256, r.negative, FALSE, r.carry \/ high)

-------------------------------------------------------------------------------
(* Logic, bit by bit. *)
FromBits(bits) ==
  bits[0] + 2 * bits[1] + 4 * bits[2] + 8 * bits[3]
    + 16 * bits[4] + 32 * bits[5] + 64 * bits[6] + 128 * bits[7]

and(r, value) ==
  Result(FromBits([n \in 0 .. 7 |-> Bit(r.a, n) * Bit(value, n)]), FALSE, TRUE, FALSE)

or(r, value) ==
  Result(FromBits([n \in 0 .. 7 |-> IF Bit(r.a, n) + Bit(value, n) = 0 THEN 0 ELSE 1]),
         FALSE, FALSE, FALSE)

xor(r, value) ==
  Result(FromBits([n \in 0 .. 7 |-> (Bit(r.a, n) + Bit(value, n)) % 2]),
         FALSE, FALSE, FALSE)

cpl(r) == [r EXCEPT !.a = 255 - r.a, !.negative = TRUE, !.halfCarry = TRUE]

scf(r) == [r EXCEPT !.negative = FALSE, !.halfCarry = FALSE, !.carry = TRUE]

ccf(r) == [r EXCEPT !.negative = FALSE, !.halfCarry = FALSE, !.carry = ~r.carry]

-------------------------------------------------------------------------------
(* Shifts, rotations and single bits. *)
Shifted(value, carry) == Result(value, FALSE, FALSE, carry)

Lowest(r) == r.a % 2 = 1
Highest(r) == r.a >= 128

swap(r) == Shifted(16 * Nibble(r.a) + r.a \div 16, FALSE)

(* Mutant: the bit shifted out stays. *)
sla_Wide(r) == Shifted(2 * r.a, Highest(r))

sla(r) == Shifted((2 * r.a) % 256, Highest(r))
srl(r) == Shifted(r.a \div 2, Lowest(r))
sra(r) == Shifted(r.a \div 2 + (IF Highest(r) THEN 128 ELSE 0), Lowest(r))
rlc(r) == Shifted(((2 * r.a) % 256) + (IF Highest(r) THEN 1 ELSE 0), Highest(r))
rrc(r) == Shifted(r.a \div 2 + (IF Lowest(r) THEN 128 ELSE 0), Lowest(r))

(* Mutant: the bit that leaves comes back at once, as in RLC. *)
rl_Circular(r) == rlc(r)

rl(r) == Shifted(((2 * r.a) % 256) + Carry(r), Highest(r))
rr(r) == Shifted(r.a \div 2 + 128 * Carry(r), Lowest(r))

(* The forms without the CB prefix clear the zero flag. *)
rlca(r) == [rlc(r) EXCEPT !.zero = FALSE]
rla(r) == [rl(r) EXCEPT !.zero = FALSE]
rrca(r) == [rrc(r) EXCEPT !.zero = FALSE]
rra(r) == [rr(r) EXCEPT !.zero = FALSE]

bit(r, n) ==
  [r EXCEPT !.zero = Bit(r.a, n) = 0, !.negative = FALSE, !.halfCarry = TRUE]

set(r, n) == [r EXCEPT !.a = r.a + Weight[n + 1] * (1 - Bit(r.a, n))]

res(r, n) == [r EXCEPT !.a = r.a - Weight[n + 1] * Bit(r.a, n)]

-------------------------------------------------------------------------------
(* PUSH AF and POP AF. *)
read_flags_byte(r) ==
  (IF r.zero THEN 128 ELSE 0) + (IF r.negative THEN 64 ELSE 0)
    + (IF r.halfCarry THEN 32 ELSE 0) + (IF r.carry THEN 16 ELSE 0)

cpu_read_af(r) == 256 * r.a + read_flags_byte(r)

(* Mutant: the negative and the half carry flag change places. *)
cpu_write_af_Swapped(value) ==
  [a |-> value \div 256, zero |-> Bit(value, 7) # 0, negative |-> Bit(value, 5) # 0,
   halfCarry |-> Bit(value, 6) # 0, carry |-> Bit(value, 4) # 0]

cpu_write_af(value) ==
  [a |-> value \div 256, zero |-> Bit(value, 7) # 0, negative |-> Bit(value, 6) # 0,
   halfCarry |-> Bit(value, 5) # 0, carry |-> Bit(value, 4) # 0]

===============================================================================
