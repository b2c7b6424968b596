\* Two bytes as they are.
CONSTANTS
  SessionCounterLength = 2
  ByteModulus = 256
  WordLength = 8
SPECIFICATION Spec
PROPERTY NextIsPlusOne
