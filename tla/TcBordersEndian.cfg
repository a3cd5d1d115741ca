CONSTANTS
  Nodes = {1, 2, 3, 5, 6, 7, 8, 9, 11, 12, 13, 14}
  Self = 1
  ByteBits = 2
  LittleEndian = TRUE
  SeqMod = 10
  SeqWindow = 3
  SeqWindowUp = 6
  AnsnMod = 6
  AnsnWindow = 2
  AnsnWindowUp = 3
  MaxIgnored = 3
  MaxLq = 1
  Messages <- MCNone
  Peer = 2
  PartSize = 2
  Borders = {TRUE}
  Lag = 2
  MaxChanges = 1
  MaxRestarts = 0
  FirstSeqnos = {0, 5}
  MaxLost = 1
  MaxOutages = 1
SPECIFICATION MCBordersSpec
INVARIANT PartsTile
CHECK_DEADLOCK FALSE
