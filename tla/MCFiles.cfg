SPECIFICATION Spec
CONSTANTS
  Root = Root
  od = od
  ox = ox
  oy = oy
  na = na
  nb = nb
  Fids = {f1, f2, f3}
  Slaves = {s1, s2}
  Objs = {Root, od, ox, oy}
  Dev <- MCDev
  Ino <- MCIno
  Names = {na, nb}
  DotDot = DotDot
  Walks <- MCWalks
  FileIds = {0, 1, 2, 3}
  RootFile = 0
  Fds = {0, 1, 2}
  QidWrap = 3
  MaxRef = 2
  MaxOps = 6
  InitHost <- MCHost
  None = None
SYMMETRY Symmetry
INVARIANTS
  RefsTrue
  QidsTrue
  FdsOwned
PROPERTIES
  FdsClosed
  PlacesSpec
CHECK_DEADLOCK FALSE
