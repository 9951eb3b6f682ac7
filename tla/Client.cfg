SPECIFICATION Spec
CONSTANTS
  main = main
  worker = worker
  cm = cm
  cw = cw
  Threads = {main, worker}
  Loops = {main}
  Calls = {cm, cw}
  Timed = {cw}
  Caller <- MCCaller
  NoThread = NoThread
  NoCall = NoCall
  Disconnected = Disconnected
INVARIANT TimeoutsOfWaitingCalls
INVARIANT NobodyForgotten
INVARIANT NoSleepOverReply
PROPERTY BlockReturns
CHECK_DEADLOCK FALSE
