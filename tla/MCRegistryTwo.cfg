\* Two processes that activate at the same time.
SPECIFICATION Spec
CONSTANTS
  p1 = p1
  p2 = p2
  va = va
  vb = vb
  pa = pa
  pb = pb
  ann = ann
  bob = bob
  None = None
  Process = {p1, p2}
  Version = {va, vb}
  Proposal = {pa, pb}
  Person = {ann, bob}
  Judged <- MCJudged
INVARIANTS
  SingleActive
