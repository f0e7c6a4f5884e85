SPECIFICATION FairSpec
CONSTANTS
  Runs = {r1, r2}
  Launchers = {l1, l2}
  NoRun = NoRun
INVARIANTS OneSpine DiscoveryTrue AuditSerial NoOrphan
PROPERTIES StartEnds WaitEnds
CHECK_DEADLOCK FALSE
