SPECIFICATION FairSpec
CONSTANTS
  ana = ana
  bo = bo
  old = old
  new = new
  hers = hers
  Users = {ana, bo}
  NoUser = nobody
  Links = {old, new, hers}
  NoLink = nolink
  Author <- MCAuthor
  Forms <- MCForms
  Saves = {s1, s2}
  Batch = 2
  MaxSaves = 3
INVARIANTS DatesAreTheirs
PROPERTIES FirstPRIsPermanent PendingIsVerified
