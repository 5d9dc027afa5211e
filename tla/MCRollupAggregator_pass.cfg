SPECIFICATION FairSpec
CONSTANTS
  a1 = a1
  a2 = a2
  w1 = w1
  w2 = w2
  NoOne = NoOne
  Aggregators = {a1, a2}
  Writers = {w1}
  MaxEvents = 4
  BatchSize = 2
  MaxFaults = 1
  MaxRebuilds = 1
  HourOf <- MCHourOf
  DayOf <- MCDayOf
  DomainOf <- MCDomainOf
  LabelOf <- MCLabelOf
INVARIANTS TypeOK NothingSkipped
PROPERTIES ImplementsView PendingAbsorbed
