SPECIFICATION FairSpec
CONSTANTS
  Doc = {d}
  Text = {t, u}
  Call = {k1, k2, k3}
  NotOpen = NotOpen
  Garbled = Garbled
  Current = Current
  None = None
  MaxSent = 4
INVARIANTS ServerAgrees OrderlyNotifications EditorAgrees TextAgrees
PROPERTIES DocumentServed
