CONSTANTS
  Users = {u1}
  Groups = {g1, g2}
  Tags = {k1}
  MaxRows = 2
  MaxRepos = 1
  Threads = {t1, t2}
  Zero = Zero
  None = None
SPECIFICATION Spec
SYMMETRY Symmetry
INVARIANT ReferencesExist
PROPERTY RemovedOnPurpose
