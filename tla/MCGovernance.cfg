SPECIFICATION FairSpec
CONSTANTS
  north = north
  south = south
  ann = ann
  bob = bob
  cat = cat
  M1 = M1
  M2 = M2
  b1 = b1
  b2 = b2
  b3 = b3
  map = map
  adopt = adopt
  part = part
  blur = blur
  Peer = {north, south}
  Author = {ann, bob, cat}
  HomeOf <- MCHome
  Moot = {M1, M2}
  NoMoot = NoMoot
  Proposal = {b1, b2, b3, map, adopt, part, blur}
  Body <- MCBody
  Main = "main"
  Head = {"h1", "h2"}
  None = None
  Founders <- MCFounders
  Admission <- MCAdmission
  Agendas <- MCAgendas
INVARIANTS BranchesApart
PROPERTIES MootConsents DecisionsStand ViewsMeet
CHECK_DEADLOCK FALSE
