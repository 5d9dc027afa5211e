SPECIFICATION FairSpec
CONSTANTS
  MaxOffset = 4
  MaxFaults = 2
  MaxStops = 1
  Malformed = Malformed
  KeyOf <- MCKeyOf
INVARIANTS TypeOK CommittedSettled CountedOncePerLife ProfilesFollowHistory
PROPERTIES MessagesSettle
