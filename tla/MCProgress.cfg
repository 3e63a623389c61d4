CONSTANT NoValue = NoValue
SPECIFICATION Spec
INVARIANTS
  TypeOK
  
PROPERTIES
  
  WorkGoesOn
CHECK_DEADLOCK FALSE
