CONSTANTS
  c1 = c1
  c2 = c2
  Clients = {c1, c2}
  Listener = Listener
  Whitebox = Whitebox
  Nobody = Nobody
  Slow = {c1}
  Says <- MCSays
  MaxFds = 4
  MaxInput = 2
  MaxFrames = 2
  MaxConnects = 2
SPECIFICATION FairSpec
INVARIANTS TypeOK TablesAgree  PendingIsPolled QuietWhenAlone
 
CHECK_DEADLOCK FALSE
