CONSTANTS
  o1 = o1
  c = c
  n1 = n1
  g1 = g1
  g2 = g2
  u1 = u1
  j1 = j1
  j2 = j2
  None = None
  NoFile = NoFile
  Ops <- MCOps
  Nodes <- MCNodes
  Ctrl = c
  Groups <- MCOneGroup
  Host <- MCHostOne
  Users <- MCUsers
  Edits = {1, 2}
  Jobs <- MCOneJob
  MaxVersion = 3
  Answers <- MCAnswers
  NetFound = {TRUE}
  Deleted = {TRUE}
SPECIFICATION FairCareful
INVARIANTS TypeOK BusyIsBusy SyncedMissesNothing
PROPERTIES EditsKept NoMergeUnderDesktop GroupsReopen
