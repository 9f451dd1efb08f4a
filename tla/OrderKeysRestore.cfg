CONSTANTS
  Id = {a, b, c}
  Req = {r1}
  Kinds = {"case"}
  MaxKey = 4
SPECIFICATION Spec
INVARIANT OrderKeysDistinct
