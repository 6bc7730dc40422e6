CONSTANTS
  web = web
  vm = vm
  cd = cd
  Services = {web, vm}
  Runs = {web}
  Built = {web}
  Cd = cd
  MaxDrops = 1
SPECIFICATION FairSpec
INVARIANTS ReadyReported VerdictIsReal
PROPERTY EndsUnlessMissed
CHECK_DEADLOCK FALSE
