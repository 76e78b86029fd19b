SPECIFICATION Spec
CONSTANTS
  e1 = e1
  e2 = e2
  e3 = e3
  e4 = e4
  a = a
  b = b
  EntityId = {e1, e2, e3, e4}
  Component = {a, b}
INVARIANTS
  TypeOK
  OneToOne
PROPERTY
  ImplementsMap
