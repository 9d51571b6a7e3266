CONSTANTS
  Previews = {g1}
  Pushers = {x1}
  Paths = {p1, p2}
  p1 = p1
  p2 = p2
  Keys <- MCKeys
  FileName <- MCFileName
  MaxRev = 2
  None = None
  Torn = Torn
SPECIFICATION Spec
INVARIANTS ServedAsAsked NoFileLeaks
PROPERTIES NoSurprise
