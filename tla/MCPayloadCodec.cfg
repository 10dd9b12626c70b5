\* A payload of four cells; words of four bits, the largest of them included.
SPECIFICATION Spec
CONSTANTS
  Modulus = 16
  MaxPayloadSize = 4
  MaxPayloadLength = 2
  Words = {0, 1, 2, 15}
  Bytes = {0, 1}
  MaxString = 2
  MaxUses = 2
CHECK_DEADLOCK FALSE
INVARIANTS ParsersMatchReference SentIsReceived
