SPECIFICATION Spec
CONSTANTS
  Runs = {r1, r2}
  Launchers = {l1}
  NoRun = NoRun
INVARIANT SpineIsFound
CHECK_DEADLOCK FALSE
