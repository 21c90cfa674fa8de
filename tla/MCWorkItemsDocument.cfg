SPECIFICATION Spec
CONSTANTS
  NONE = NONE
  u1 = u1
  u2 = u2
  p1 = p1
  S0 = S0
  Users = {u1, u2}
  Plain = {S0}
  Authored = {3}
  Scopes = {p1}
  Titles = {"title0", "title1"}
  Similar = {}
  Statuses = {"shipped"}
  Decisions = {"approved", "changes-requested"}
  Views = {"view0"}
  SeedStories <- MCSeed
  SeedReviews <- MCReviews
  EvidenceSent <- MCEvidence
  MaxRevision = 2
  MaxEvidence = 1
  MaxNumber = 6
INVARIANTS
  RevisionNamesContent
  
  LatestDecisionIsLast
PROPERTIES
  SponsorDecides
  ReviewsStayDecided
