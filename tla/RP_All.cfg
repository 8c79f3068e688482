SPECIFICATION Spec
CONSTANTS
  NumFrames = 3
  Algs = {"FIFO", "LRU", "LFU", "CLOCK", "NRU", "WSClock", "Random", "PFF", "Optimal", "OPT+",
          "ARC", "CAR"}
  Pinnable = {0, 1, 2}
  ClearPeriod = 2
  MinResident = 2
  AdjustInterval = 2
  MaxCount = 1
INVARIANTS
  VictimFound
  SecondChance
  WorkingSetSpared
  UnusedLongest
  TrimSparesNewest
