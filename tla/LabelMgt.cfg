SPECIFICATION Spec
CONSTANTS
  LABEL_MIN = 16
  LABEL_MAX = 20
  WORD = 2
  MAXVALUE = 22
INVARIANTS
  TypeOK
PROPERTIES
  ImplementsPool
