CONSTANT NoValue = NoValue
SPECIFICATION Spec
INVARIANTS
  TypeOK
  CredentialsAreSound
  AccessIsJustified
  
  OnceAndInOrder
  
PROPERTIES
  DecisionsStand
CHECK_DEADLOCK FALSE
