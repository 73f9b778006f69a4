CONSTANTS
  caller = caller
  plain = plain
  w = w
  Threads = {t1, t2}
  Names = {w}
  Functions = {f1, f2}
  Dsps = {caller}
  Calls <- MCCalls
  NoFunction = NoFunction
  NoCode = NoCode
  Idle = Idle
SPECIFICATION Spec
PROPERTY ReRegisteredCompilesAnew
