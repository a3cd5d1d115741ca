CONSTANTS
  Nodes = {1, 4, 2}
  Self = 1
  ByteBits = 2
  LittleEndian = FALSE
  SeqMod = 10
  SeqWindow = 3
  SeqWindowUp = 6
  AnsnMod = 6
  AnsnWindow = 2
  AnsnWindowUp = 3
  MaxIgnored = 1
  MaxLq = 1
  Messages <- MCNone
  Peer = 2
  PartSize = 1
  Borders = {TRUE, FALSE}
  Lag = 2
  MaxChanges = 2
  MaxRestarts = 1
  FirstSeqnos = {5}
  MaxLost = 1
  MaxOutages = 1
SPECIFICATION SyncSpec
PROPERTIES Agreement
CHECK_DEADLOCK FALSE
