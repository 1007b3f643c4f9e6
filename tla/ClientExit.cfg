SPECIFICATION FairSpec
CONSTANTS
  Codes = {r1}
  Chatter = {"CHAT"}
  MaxAsks = 3
  MaxTalk = 3
  NoCode = NoCode
  NoPacket = NoPacket
PROPERTY ExitReturns
