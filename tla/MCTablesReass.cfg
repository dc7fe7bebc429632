\* Reassembly alone: no system calls, blocks, modules or packets.
SPECIFICATION Spec
CONSTANTS
  NFrames = 20
  NTasks = 3
  NUserPages = 8
  VideoPage = 6
  StackPage = 7
  MaxShm = 0
  MaxCalls = 0
  Images <- MCImages
  POW2_MIN_POW = 0
  POW2_MAX_POW = 0
  POW2_MAX_COUNT = 1
  TablePage = 1
  MaxUsed = 0
  MaxGrabs = 0
  Count = 0
  MaxDependencies = 0
  Hosts = {1}
  MacsOf <- MCMacsOf
  Gateway = 1
  ARP_TABLE_SIZE = 1
  ARP_MAXAGE = 3
  ARP_MAXPENDING = 2
  MEMP_NUM_ARP_QUEUE = 1
  MaxPackets = 0
  Fragments <- MCFragments
  IP_REASS_MAX_PBUFS = 6
  MEMP_NUM_REASSDATA = 3
INVARIANT AllFragmentsReceived
CHECK_DEADLOCK FALSE
