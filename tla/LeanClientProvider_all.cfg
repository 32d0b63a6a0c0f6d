SPECIFICATION FairSpec
CONSTANTS
  p = p
  q = q
  k1 = k1
  k2 = k2
  Folder = {p, q}
  Client = {c1, c2}
  Server = {s1, s2}
  Call = {k1, k2}
  None = None
  Setting <- EverySetting
INVARIANTS TypeOK OneClientPerFolder ActiveRegistered RestartServerActsOrderly ActionAlone EveryServerOwned RunningTruth NoPromptWhileStopping
PROPERTIES PendingSettles RestartEnds
