SPECIFICATION ArithmeticSpec
CONSTANTS
  Operands = {0, 1, 8, 9, 15, 16, 25, 80, 85, 128, 144, 153, 240, 255}
  NoTotal = NoTotal
INVARIANTS ArithmeticTypeOK DecimalResults WideArithmetic BitsAreKept
