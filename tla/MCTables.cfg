\* Three tasks on 20 frames, blocks of 1 to 4 bytes, three modules; three hosts
\* and two entries for them; four datagrams in twelve fragments.
SPECIFICATION Spec
CONSTANTS
  NFrames = 20
  NTasks = 3
  NUserPages = 8
  VideoPage = 6
  StackPage = 7
  MaxShm = 1
  MaxCalls = 5
  Images <- MCImages
  POW2_MIN_POW = 0
  POW2_MAX_POW = 2
  POW2_MAX_COUNT = 2
  TablePage = 3
  MaxUsed = 4
  MaxGrabs = 2
  Count = 3
  MaxDependencies = 2
  Hosts = {1, 2, 3}
  MacsOf <- MCMacsOf
  Gateway = 1
  ARP_TABLE_SIZE = 2
  ARP_MAXAGE = 3
  ARP_MAXPENDING = 2
  MEMP_NUM_ARP_QUEUE = 2
  MaxPackets = 3
  Fragments <- MCFragments
  IP_REASS_MAX_PBUFS = 6
  MEMP_NUM_REASSDATA = 3
INVARIANTS
  TypeOK
  NothingLeaks
  BlocksPartition
  
  MappingsCurrent
  ReturnedInOrder
\* Tasks end, panic stops the machine, loading ends, and a
\* broken list of datagrams ends the model.
CHECK_DEADLOCK FALSE
