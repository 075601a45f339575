CONSTANTS
  Addresses <- MCAddresses
  QueueNums = {0, 2, 3, 256}
  NumQueues <- MCNumQueues
  QueueSize = 56
SPECIFICATION Spec
INVARIANTS RingsInside EveryBlockOwned
