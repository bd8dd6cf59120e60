SPECIFICATION RingSpec
CONSTANTS
  e1 = e1
  e2 = e2
  Elem <- MCElem
  MaxCount = 4
INVARIANTS RingTypeOK FullTestsAgree
PROPERTIES QueueSpec
