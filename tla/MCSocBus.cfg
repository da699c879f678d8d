CONSTANTS
  Addr <- MCAddr
  Device <- MCDevice
  DbgDev = 6
  SecCtrl = 7
  Window <- MCWindow
  IdleAddr <- MCQuiet
  MaxRun = 2
SPECIFICATION Spec
INVARIANTS AnswerIsOwn FetchIsOwn LastWriteInForce
PROPERTIES EveryFetchGranted
