SPECIFICATION FairSpec
CONSTANTS
  Workers = {w1, w2}
  PacketTypes = {7}
  Texts = {8, 9}
  MAX_PAYLOAD_SIZE = 1
  RECV_BUFFER_SIZE = 4
  SocketRoom = 5
  MaxPackets = 3
INVARIANTS TypeOK Framed NothingHeldBack ReadAsSent FewOvertaken
PROPERTY EverythingArrives
