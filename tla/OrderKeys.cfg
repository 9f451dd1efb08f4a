CONSTANTS
  Id = {a, b, c}
  Req = {r1, r2}
  Kinds = {"child", "case"}
  MaxKey = 4
SPECIFICATION Spec
INVARIANTS KeysDistinctUnlessCollided KeysInv
PROPERTIES ReorderTakesEffect ImplementsList
