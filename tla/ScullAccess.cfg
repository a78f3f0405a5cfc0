\* Two of the four may claim scullsingle while a third has it open, and alice
\* and carol share the terminal of one scullpriv.  An owner (a), a user who
\* may become the owner with su (c) and root (r) on sculluid and scullwuid:
\* each of the three can be the one who has the device, and a and c can both
\* be asleep waiting for it.
CONSTANTS
  a = a  b = b  c = c  r = r
  alice = alice  bob = bob  carol = carol  root = root
  tty1 = tty1  tty2 = tty2
  None = None
  Procs = {a, b, c, r}
  Capable = {r}
  Uid <- MCUid
  Euid <- MCEuid
  Tty <- MCTty
  OpenFlags = {{}, {"O_TRUNC"}, {"O_NONBLOCK"}}
  Devices = {"single", "uid", "wuid", "priv"}
SPECIFICATION PartSpec
INVARIANTS
  TypeOK
  SingleProtected
  OneDevicePerTty
  OneUserEach
  NoLostOpen
PROPERTIES
  OpenersAreWoken
