SPECIFICATION Spec
CONSTANTS
  Macs = {m1, m2}
  MaxRecords = 2
INVARIANTS IndexIsUnion 
