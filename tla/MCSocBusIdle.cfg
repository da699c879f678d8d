CONSTANTS
  Addr <- MCAddr
  Device <- MCDevice
  DbgDev = 6
  SecCtrl = 7
  Window <- MCWindow
  IdleAddr <- MCFromDebugRom
  MaxRun = 2
SPECIFICATION Spec
INVARIANT RvalidIsOwed
