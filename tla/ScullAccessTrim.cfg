\* Users of sculluid only: the owner may open it twice, once with O_TRUNC.
CONSTANTS
  a = a  b = b  c = c  r = r
  alice = alice  bob = bob  carol = carol  root = root
  tty1 = tty1  tty2 = tty2
  None = None
  Procs = {a, b, c, r}
  Capable = {r}
  Uid <- MCUid
  Euid <- MCEuid
  Tty <- MCTty
  OpenFlags = {{}, {"O_TRUNC"}}
  Devices = {"uid"}
SPECIFICATION WholeSpec
INVARIANTS
  TrimHoldsSemaphore
