SPECIFICATION FairSpec
CONSTANTS
  Client = {c1, s1}
  Stranger = {s1}
  Name = {ann, bob}
  NameOf <- MCNameOf
  NoName = NoName
  Event <- MCEvent
  Accepts <- BoardAccepts
  Permits <- BoardPermits
  Asks <- OneAskEach
  LocalBatch <- MCOneEvent
  AcceptLoop = AcceptLoop
  Bridge = Bridge
  Nobody = Nobody
  MaxLocal = 1
  MaxAsk = 1
  MaxWhisper = 0
  ann = ann
  bob = bob
  wolves = wolves
  Guest = {}
  knight = knight
  Token = {knight}
  OwnerOf <- FactionOwned
  Nobodys = Nobodys
INVARIANTS EntriesWereAllowed
PROPERTIES CatchesUp
CHECK_DEADLOCK FALSE
