SPECIFICATION Spec
CONSTANTS
  Client = {c1, c2}
  Stranger = {}
  Name = {ann, bob}
  NameOf <- MCNameOf
  NoName = NoName
  Event <- MCEvent
  Accepts <- BoardAccepts
  Permits <- BoardPermits
  Asks <- MCAsks
  LocalBatch <- MCLocalBatch
  AcceptLoop = AcceptLoop
  Bridge = Bridge
  Nobody = Nobody
  MaxLocal = 0
  MaxAsk = 0
  MaxWhisper = 1
  ann = ann
  bob = bob
  wolves = wolves
  Guest = {}
  knight = knight
  Token = {knight}
  OwnerOf <- MCOwnerOf
  Nobodys = Nobodys
INVARIANTS NamesAreConnected
CHECK_DEADLOCK FALSE
