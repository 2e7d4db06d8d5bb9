CONSTANTS
  Speeds = {2, 30, 61, 101}
  Capacity = 2
  Day = 9
  FirstTime = 4
  MaxTime = 6
SPECIFICATION Spec
INVARIANTS WithinCapacity StartAsSpecified TimesAreEarliest AheadByStarts TimesOrdered
