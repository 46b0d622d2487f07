CONSTANTS
  Operators = {x, y}
  Names = {a, b, c}
  Ids = {a, b}
  Objects = {m1, m2, m3, m4}
  Jobs = {j1, j2}
  NoRec = NoRec
  Free = Free
SPECIFICATION Spec
CONSTRAINT Isolated
INVARIANTS NamesUnique LastWordCounts
PROPERTIES IsolatedWrites
