SPECIFICATION Spec
CONSTANTS
  w1 = w1  w2 = w2  e1 = e1  e2 = e2  p = p  v1 = v1  v2 = v2  k1 = k1  k2 = k2
  None = None
  NoRow = NoRow
  Writers = {w1, w2}
  Entities = {e1}
  Predicates = {p}
  Values = {v1, v2}
  Keys = {k1, k2}
  Requests <- RaceRequests
  MaxSeq = 3
PROPERTIES UserOverrideWins
