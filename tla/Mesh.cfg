CONSTANTS
  Nodes = {1, 2, 4}
  Self = 1
  ByteBits = 2
  LittleEndian = FALSE
  SeqMod = 4
  SeqWindow = 2
  SeqWindowUp = 1
  AnsnMod = 3
  AnsnWindow = 1
  AnsnWindowUp = 1
  MaxIgnored = 1
  MaxLq = 1
  Messages <- MCMessages
  Host = Host
  None = None
SPECIFICATION MCSpec
INVARIANTS InverseShortcut OwnerExists MulticastOnce Everyone
 
CHECK_DEADLOCK FALSE
