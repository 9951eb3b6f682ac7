SPECIFICATION LoopSpec
CONSTANTS
  main = main
  worker = worker
  cm = cm
  cw = cw
  Threads = {main, worker}
  Loops = {main}
  Calls = {cw}
  Timed = {cw}
  Caller <- MCCaller
  NoThread = NoThread
  NoCall = NoCall
  Disconnected = Disconnected
PROPERTY EveryCallSeesAReply
CHECK_DEADLOCK FALSE
