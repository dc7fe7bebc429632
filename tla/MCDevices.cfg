\* Three readers on each driver; a client that meets two faults.
SPECIFICATION Spec
CONSTANTS
  Readers = {1, 2, 3}
  Lba = {1, 2}
  CdRom = {2}
  MaxReads = 4
  Clients = {1, 2, 3}
  Blocks = {1, 2}
  MaxRequests = 4
  Addr = {1, 2}
  Xids = {1, 2, 3, 4, 5}
  RequestTries = 1
  RebindTries = 1
  MaxFaults = 2
  MaxNoMem = 1
  MaxInFlight = 1
INVARIANTS
  TypeOK
  
  
PROPERTIES
  
  EventuallyBound
\* All reads are done, or the client could not start.
CHECK_DEADLOCK FALSE
