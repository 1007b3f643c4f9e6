SPECIFICATION FairSpec
CONSTANTS
  Codes = {r1}
  Chatter = {"CHAT"}
  MaxAsks = 3
  MaxTalk = 2
  NoCode = NoCode
  NoPacket = NoPacket
INVARIANTS TypeOK LobbyReadsAlone RoomAgrees DisplayedInOrder
PROPERTIES ClosedForCause ClientIsOrderly LobbyRequestsReturn HangUpEndsClient
