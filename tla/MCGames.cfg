SPECIFICATION Spec
CONSTANTS
  r1 = r1  r2 = r2
  p1 = p1  p2 = p2  p3 = p3
  pong = pong  nopong = nopong
  Request = {r1, r2}
  Slug = {pong, nopong}
  Game = {pong}
  Player = {p1, p2, p3}
  MaxScore = 2
  Param <- Params
  None = None
SYMMETRY Symmetry
INVARIANTS TypeOK PageRanks PagesTile CountThenPage
CHECK_DEADLOCK FALSE
