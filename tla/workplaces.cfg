SPECIFICATION Spec
CONSTANTS
  bo = bo
  ana = ana
  owner = owner
  member = member
  Countries = {}
  Anywhere = anywhere
  MaxAddresses = 3
  MaxAsked = 2
  MaxPlaces = 1
  Users = {}
  Seats = {h}
  Owners = {h}
  Shares = {}
  Authorities = {"any_hirer"}
  Requests = {r1, r2}
  MaxRoles = 2
  MaxClosings = 1
  MaxAdverts = 0
SYMMETRY Symmetry
CHECK_DEADLOCK FALSE
INVARIANTS OfficeHasMain RolesHaveAPlace
PROPERTIES OpenRoleImmutable
