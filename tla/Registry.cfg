SPECIFICATION FairSpec
CONSTANTS
  Threads = {t1, t2}
  Dirs = {d1}
  Instances = {i1, i2}
  States = {s1, s2}
  Connections = {c1}
  Null = Null
INVARIANTS OneHandlePerDirectory NoHandleLeaked
PROPERTIES CallsReturn KeepsSharing
