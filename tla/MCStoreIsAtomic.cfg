SPECIFICATION Spec
CONSTANTS
  Clients = {c1}
  LockAddr = {0, 1, 2, 3}
  LockIterations = 6
  LinkAddr = {0, 1}
  Others = {o1, o2}
  LinkIterations = 5
PROPERTIES StoreIsAtomic
