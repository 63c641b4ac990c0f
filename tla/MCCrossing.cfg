CONSTANTS
  ann = ann
  bob = bob
  ogre = ogre
  rat = rat
  field = field
  hut = hut
  path = path
  gate = gate
  door = door
  rug = rug
  Who = {ann, bob, ogre}
  Player = {ann, bob}
  Map = {field, hut}
  Tile = {path, gate, door, rug}
  DoorsOf <- MCDoorsOf
  TargetOf <- MCTargetOf
  LandingsOf <- MCLandingsOf
  Start <- OneResident
  StartMap = field
  Carrier = {ann, bob}
  Request <- MCRequest
  Peril = {}
  MaxWalk = 4
  MaxCommand = 1
  MaxRound = 1
SPECIFICATION FairSpec
INVARIANTS BoardMirrored EveryoneOnce TurnsOnBoard
PROPERTIES CrossesAsRuled DoorsAreWalked
