SPECIFICATION Spec
CONSTANTS
  NONE = NONE
  t1 = t1
  t2 = t2
  s1 = s1
  s2 = s2
  s3 = s3
  s4 = s4
  s5 = s5
  s6 = s6
  u1 = u1
  u2 = u2
  web = web
  agent = agent
  Users = {u1, u2}
  Threads = {t1, t2}
  Servers = {web, agent}
  Scripts = {"script"}
  Slugs = {s1, s2, s3, s4, s5, s6}
  RandomSlugs = {s5, s6}
  Candidates <- MCCandidates
SYMMETRY Symmetry
CHECK_DEADLOCK FALSE
INVARIANTS
  LinksStayGood
