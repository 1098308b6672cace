SPECIFICATION Spec
CONSTANTS
  bo = bo
  ana = ana
  owner = owner
  member = member
  Countries = {}
  Anywhere = anywhere
  MaxAddresses = 0
  MaxAsked = 0
  MaxPlaces = 1
  Users = {ana}
  Seats = {owner, member}
  Owners = {owner}
  Shares <- MCShares
  Authorities = {"any_hirer", "draft_and_approve", "owners_only"}
  Requests = {r1, r2}
  MaxRoles = 1
  MaxClosings = 2
  MaxAdverts = 1
CHECK_DEADLOCK FALSE
INVARIANTS TypeOK HiresRecorded
PROPERTIES ConsentPromise ContactsEnd
