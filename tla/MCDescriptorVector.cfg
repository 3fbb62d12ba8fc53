SPECIFICATION Spec
CONSTANTS
  Objects = {section, copy}
  Contents = {c1, c2}
  Addresses = {a1, a2, a3, a4, a5}
  Free = Free
  MaxLists = 3
SYMMETRY Symmetry
INVARIANT OwnedOnce
PROPERTY ImplementsValues
