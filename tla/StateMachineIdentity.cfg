CONSTANTS
  Words <- MCWords
  UpperOf <- MCUpperOf
  InputChars <- MCInputChars
  MaxLen = 4
  NaN = NaN
  Undefined = Undefined
SPECIFICATION Spec
INVARIANTS TypeOK FormatRoundTrip
\* A call of convertToStateMachine ends: the run stops after it.
CHECK_DEADLOCK FALSE
