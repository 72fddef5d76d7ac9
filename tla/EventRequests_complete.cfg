SPECIFICATION Spec
CONSTANTS
  c1 = c1
  c2 = c2
  r1 = r1
  r2 = r2
  Coordinators = {c1, c2}
  Leads = {lead}
  Calls = {r1, r2}
  Nobody = Nobody
INVARIANT SubmittedComplete
CHECK_DEADLOCK FALSE
