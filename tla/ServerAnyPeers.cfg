SPECIFICATION Spec
CONSTANTS
  r1 = r1
  Conns = {c1, c2, c3}
  Fds = {f1, f2, f3}
  Workers = {w1, w2}
  Cells = {x1, x2, x3}
  Codes = {r1, r2}
  Nicks = {a}
  maxRoomCnt = 1
  SizeMod = 16
  Requests <- AnyRequests
  Leavers = {}
  Readers = {c1, c2, c3}
  Orderly = FALSE
  MaxSends = 3
  SendCap = 1
  Listener = Listener
  Malformed = Malformed
  NoConn = NoConn
  NoFd = NoFd
  NoCell = NoCell
  NoCode = NoCode
  NoNick = NoNick
  NoRoom = NoRoom
  NoTask = NoTask
INVARIANTS RoomsSound
SYMMETRY Symmetry
