CONSTANTS
  Bytes = {a, b}
  Size = 5
SPECIFICATION FifoSpec
INVARIANTS
  FifoTypeOK
  CountsAgree
PROPERTIES
  ImplementsByteQueue
