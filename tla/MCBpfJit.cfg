CONSTANTS
  ByteBits = 3
  ImmBits = 8
  Context = 16
  ContextSize = 16
  StackTop = 256
  ReturnTo = 2000
  Fuel = 60
  Programs <- MCPrograms
SPECIFICATION Spec
INVARIANTS Agree Returns Accounting PassesAgree
