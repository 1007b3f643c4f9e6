SPECIFICATION Spec
CONSTANTS
  r1 = r1
  Conns = {c1, c2}
  Fds = {f1, f2}
  Workers = {w1}
  Cells = {x1, x2}
  Codes = {r1}
  Nicks = {a, b}
  maxRoomCnt = 1
  SizeMod = 16
  Requests <- ClientRequests
  Leavers = {c1, c2}
  Readers = {c1, c2}
  Orderly = TRUE
  MaxSends = 5
  SendCap = 1
  Listener = Listener
  Malformed = Malformed
  NoConn = NoConn
  NoFd = NoFd
  NoCell = NoCell
  NoCode = NoCode
  NoNick = NoNick
  NoRoom = NoRoom
  NoTask = NoTask
INVARIANTS SurvivesDepartures
SYMMETRY Symmetry
