SPECIFICATION Spec
CONSTANTS
  ana = ana
  bo = bo
  cy = cy
  ours = ours
  theirs = theirs
  fresh = fresh
  go = go
  rust = rust
  acme = acme
  job = job
  india = india
  rupees = rupees
  Users = {ana, bo, cy}
  Hirers = {ours, theirs, fresh}
  Capable = {ours, theirs}
  Visitor = visitor
  Shares <- MCShares
  Orgs = {acme}
  NoCompany = nocompany
  Company <- MCCompany
  RoleOwners <- MCRoleOwners
  NoRole = norole
  Skills = {go, rust}
  Dossiers <- MCDossiers
  Unscored <- MCUnscored
  NameOrder <- MCNameOrder
  Anybody = anybody
  Stated <- MCStated
  Forms <- MCForms
  Offers <- MCOffers
  Wants <- MCWants
  NoCountry = nocountry
  NoMoney = nomoney
  NoAmount = noamount
  Judged = {ana, bo, cy}
  MaxLinks = 2
  MaxKept = 1
  MaxRubric = 2
  MaxAspects = 1
  MaxPerPage = 2
  DefaultPerPage = 2
INVARIANTS RanksAgree OptedOutIsNowhere FindableIsFound CountsAreKept
PROPERTIES MoreNeverCosts
