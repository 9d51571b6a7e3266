CONSTANTS
  ann = ann
  ben = ben
  b1 = b1
  Users = {ann, ben}
  Conns = {a1, a2, b1}
  ConnUser <- OwnerOf
  Senders = {r1, r2}
  Owner <- AskedOf
  New = New
  Pending = Pending
  None = None
  Offline = Offline
SPECIFICATION Spec
INVARIANTS EntryWhileAsked EverySocketServed OncePerSocket
PROPERTIES AnswersAreKept AsksOwner RequestsEnd
