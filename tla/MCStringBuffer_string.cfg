SPECIFICATION StringSpec
CONSTANTS
  Objects = {o1, o2}
  Blocks = {1, 2, 3}
  Chars <- Letters
  Texts <- Starts
  Extra = 2
  Garbage <- Leftovers
  MaxLength = 3
INVARIANTS StringTypeOK OneOwner ValueKept StrayByteIsTerminator StopsOnlyAfterFault ComparisonsAgree
CHECK_DEADLOCK FALSE
