SPECIFICATION Spec
CONSTANTS
  listed = listed
  other = other
  user = user
  tool = tool
  tag = tag
  r1 = r1
  r2 = r2
  session = session
  session2 = session2
  known = known
  quiet = quiet
  Categories = {known, quiet}
  Hosts = {listed, other}
  Roles = {user, tool}
  Tags = {tag}
  Rulesets = {r1, r2}
  Sessions <- MCSessions
  Window = 6
  LastTexts = 5
  MaxConsecutive = 3
  Guards = 2
  Requests <- MCRequests
  Settings <- MCSettings
INVARIANTS PassedIsClean ReasonNamesCause LoopJudged
CONSTRAINT Apart
