CONSTANTS MaxId = 6
  Width = 2
  MaxSubvol = 3
  MaxMounts = 1
  MaxCleans = 1
  MaxDeletes = 3
SPECIFICATION Spec
INVARIANTS AncestryKept CheckKeeps TableAgrees SubvolsAgree
PROPERTY NoResurrection
CHECK_DEADLOCK FALSE
