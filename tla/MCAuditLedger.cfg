SPECIFICATION Spec
CONSTANTS
  daemon = daemon
  ui = ui
  d1 = d1
  d2 = d2
  u1 = u1
  u2 = u2
  Procs = {daemon, ui}
  Tasks = {d1, d2, u1, u2}
  Daemon = {d1, d2}
  Proc <- MCProc
  NoTask = NoTask
  Forged = Forged
INVARIANTS
  ChainVerifies
  DamageIsLocated
  DaemonActsAreRecorded
  DoneIsRecorded
