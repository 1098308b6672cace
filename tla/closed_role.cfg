SPECIFICATION Spec
CONSTANTS
  ana = ana
  bo = bo
  owner = owner
  member = member
  Countries = {}
  Anywhere = anywhere
  MaxAddresses = 0
  MaxAsked = 0
  MaxPlaces = 1
  Users = {}
  Seats = {owner}
  Owners = {owner}
  Shares = {}
  Authorities = {"any_hirer"}
  Requests = {r1, r2}
  MaxRoles = 2
  MaxAdverts = 1
  MaxClosings = 2
CHECK_DEADLOCK FALSE
PROPERTIES ClosedIsFinal
