CONSTANTS
  ann = ann
  ben = ben
  b1 = b1
  Users = {ann, ben}
  Conns = {a1, a2, b1}
  ConnUser <- OwnerOf
  Senders = {a1, a2, b1}
  MaxShares = 2
  MaxSends = 1
  Sids = {x}
  None = None
  ReuseIds = FALSE
SPECIFICATION RelaySpec
INVARIANTS ProviderConnected ProviderIsCreator SessionWithCreator
PROPERTIES ConnSafety HandlersReturn
