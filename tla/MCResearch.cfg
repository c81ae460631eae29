\* One registry command at a time, next to one research loop.
SPECIFICATION LoopSpec
CONSTANTS
  p1 = p1
  r1 = r1
  va = va
  vb = vb
  pa = pa
  pb = pb
  ann = ann
  fa = fa
  fb = fb
  sx = sx
  sy = sy
  None = None
  Process = {p1}
  Researcher = {r1}
  Version = {va, vb}
  Proposal = {pa, pb}
  Person = {ann}
  Judged = {}
  Factor = {fa, fb}
  Lists <- MCLists
  VersionOf <- MCVersionOf
  ProposalOf <- MCProposalOf
  Found <- MCFound
  Bounds <- MCBounds
  ByHand <- MCByHand
  MaxRuns = 2
  MaxByHand = 1
INVARIANTS
  GovernedStatus
  AuditTellsStatus
  HistoryTellsActive
  TrailsUnbroken
  ComparedWithActive
  ReadyCanBeApproved
PROPERTIES
  LifecycleSpec
