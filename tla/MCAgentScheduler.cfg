CONSTANTS
  d1 = d1
  d2 = d2
  d3 = d3
  r4 = r4
  r5 = r5
  p1 = p1
  Run = {d1, d2, d3, r4, r5}
  Key = {p1}
  NoKey = NoKey
  KeyOf <- MCKeyOf
  MaxConcurrent = 1
SPECIFICATION SchedSpec
INVARIANTS SchedTypeOK SlotsConserved DelegationsSerial
PROPERTIES SlotFifo AcquireSettles
CHECK_DEADLOCK FALSE
