SPECIFICATION Spec
CONSTANTS
  ana = ana
  bo = bo
  tab1 = tab1
  tab2 = tab2
  phone = phone
  root = root
  deputy = deputy
  go = go
  golang = golang
  Golang = Golang
  wasm = wasm
  noterm = noterm
  Users = {ana, bo}
  Clients = {tab1, tab2, phone}
  Owner <- MCOwner
  Admins = {root, deputy}
  Terms = {go, golang, Golang, wasm}
  Proposals = {golang, wasm}
  NoTerm = noterm
  Norm <- MCFold
  Fold <- MCFold
  Seeds <- MCSeeds
  Entries <- MCEntries
  SkillRequestLimit = 2
  MaxRequests = 4
  MaxDecisions = 2
SYMMETRY Alike
INVARIANTS DecisionsStand WindowHolds
CHECK_DEADLOCK FALSE
