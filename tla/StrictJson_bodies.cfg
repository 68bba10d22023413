\* Bodies with two numbers, odd strings, and keys given twice.  serde_json reads
\* a few floats as their neighbours.
\* A body has been read in the end.
SPECIFICATION Spec
CONSTANTS
  Text <- MCText
  NulText <- MCNulText
  Name <- MCName
  Number <- MCNumber
  Document <- MCDocument
  MaxExponent = 5
  I64Max = 27
  U64Max = 55
  SerdeFloat <- MCSerdeFloat
INVARIANTS NumbersChecked NumbersLossless IntegersExact KeysUnique
CHECK_DEADLOCK FALSE
