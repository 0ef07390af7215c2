SPECIFICATION KeystoreSpec
CONSTANTS
  Processes = {p1, p2}
  Calls = {c1, c2}
  Keys = {k1}
  Inodes = {i1, i2, i3, i4, i5}
  Absent = Absent
  Blank = Blank
  Torn = Torn
SYMMETRY Symmetry
INVARIANTS
  FileIsWhole
  
CHECK_DEADLOCK FALSE
