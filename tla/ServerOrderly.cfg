SPECIFICATION Spec
CONSTANTS
  r1 = r1
  Conns = {c1, c2, c3}
  Fds = {f1, f2}
  Workers = {w1, w2}
  Cells = {x1, x2}
  Codes = {r1, r2}
  Nicks = {a, b}
  maxRoomCnt = 2
  SizeMod = 16
  Requests <- ClientRequests
  Leavers = {c1, c2, c3}
  Readers = {c1, c2, c3}
  Orderly = TRUE
  MaxSends = 5
  SendCap = 1
  Listener = Listener
  Malformed = Malformed
  NoConn = NoConn
  NoFd = NoFd
  NoCell = NoCell
  NoCode = NoCode
  NoNick = NoNick
  NoRoom = NoRoom
  NoTask = NoTask
INVARIANTS TypeOK IOCoherent MembershipAgrees AnswersReachAsker
PROPERTIES HangUpOnlyOnDeparted
SYMMETRY Symmetry
