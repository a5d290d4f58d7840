CONSTANTS
  Workers = {w1, w2}
  Creator = w1
  MaxLookups = 2
  HandlersApart = TRUE
  None = None
  w1 = w1
  w2 = w2
SPECIFICATION Spec
INVARIANTS TypeOK FreedIsUnused CountsReferences NoDelDeadlock ArmedIsKnown NeverForgotten
