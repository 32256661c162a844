SPECIFICATION Spec
CONSTANTS
  EOC = EOC
  Code = Code
INVARIANTS
  NothingLeft
  
  LoaderSound
  ConversionsRight
PROPERTIES
  ImplementsKeyStore
  CallsReturn
CHECK_DEADLOCK FALSE
