SPECIFICATION Spec
CONSTANTS
  Client = {c1, c2}
  Stranger = {}
  Name = {ann, bob}
  NameOf <- TwoNames
  NoName = NoName
  Event <- MCEvent
  Accepts <- BoardAccepts
  Permits <- BoardPermits
  Asks <- OneAskEach
  LocalBatch <- MCLocalBatch
  AcceptLoop = AcceptLoop
  Bridge = Bridge
  Nobody = Nobody
  MaxLocal = 1
  MaxAsk = 1
  MaxWhisper = 1
  ann = ann
  bob = bob
  wolves = wolves
  Guest = {c2}
  knight = knight
  Token = {knight}
  OwnerOf <- MCOwnerOf
  Nobodys = Nobodys
INVARIANTS TypeOK Converged NothingLost WhispersStayPrivate
PROPERTIES ImplementsSharedLog
CHECK_DEADLOCK FALSE
