SPECIFICATION Spec
CONSTANTS
  Names = {jo, sam, kim}
  Slugs = {acme}
  Emails = {office}
  Nobody = nobody
  Independent = independent
  Requests = {r1, r2}
  MaxEntries = 2
  MaxProofs = 3
  MaxForms = 2
SYMMETRY Symmetry
CHECK_DEADLOCK FALSE
INVARIANTS TypeOK NameHeldOnce RemovedEndsSeat OrganisationsStand
PROPERTIES NamesPromise
