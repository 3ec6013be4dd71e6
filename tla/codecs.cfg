SPECIFICATION Spec
CONSTANTS
  Byte = 3
  Inputs = 2
  Formats = {"int", "uint", "kp4", "kp2"}
  Numbers <- Limits
  Masks <- SomeMasks
  Registers <- SomeRegisters
INVARIANTS TypeOK ReadsBack RegisterGets BoolsReadBack ReadTells
PROPERTIES MaskLands
