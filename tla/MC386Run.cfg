CONSTANTS
  BYTE = 16
  Addrs = {40}
  Gaps <- MCGaps
  Statements <- MCStatements
SPECIFICATION Spec
INVARIANTS TypeOK SizeIsEmitted SizeIsStable ReadsBack EitherOrder CopiesAgree
CHECK_DEADLOCK FALSE
