CONSTANTS
  a = a
  b = b
  Conns = {a, b}
  Workers = {v, w}
  Objects = {"GET", "PUT", "POST", "DELETE"}
  Kind <- Kinds
  Table <- Shared
  Length <- Lengths
  Capacity = 14
  Nobody = Nobody
  NoJob = NoJob
SPECIFICATION Spec
SYMMETRY Symmetry
INVARIANTS OwnAnswer
