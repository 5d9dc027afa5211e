SPECIFICATION Spec
CONSTANTS
  a1 = a1
  a2 = a2
  w1 = w1
  w2 = w2
  NoOne = NoOne
  Aggregators = {a1}
  Writers = {w1, w2}
  MaxEvents = 4
  BatchSize = 2
  MaxFaults = 0
  MaxRebuilds = 0
  HourOf <- MCHourOf
  DayOf <- MCDayOf
  DomainOf <- MCDomainOf
  LabelOf <- MCLabelOf
INVARIANTS NothingSkipped
