CONSTANTS
  Lists = {l1, l2}
  Chats = {c1, c2}
  FirstChat = c1
  Requests = {r1, r2}
  General = general
  Dashed = dashed
  MaxLosses = 1
  Users = {u1, u2}
  Roles = {op, regular}
  Syncs = {s1, s2, s3}
  None = none
  Channels = {v1, v2}
  Peers = {p1, p2}
  Jobs = {j1, j2, j3}
  Fetches = {f1, f2}
  MaxStarts = 3
  MaxFaults = 1
  Keys = {k1, k2}
  Uses = {m1, m2, m3}
SPECIFICATION SpecParts
SYMMETRY Symmetry
INVARIANTS PartsTypeOK JoiningAwaits NoStaleMembers CallHasPeer RegisteringHasOwner DataKept VerifiedKeyIsCurrent FirstUseOnly
PROPERTIES CallsEnd PreviewKept
CHECK_DEADLOCK FALSE
