\* Three markets, whose windows are too short after a backoff.
SPECIFICATION Spec
CONSTANTS
  Second = 960
  SecondsInMinute = 6
  MinutesInHour = 2
  HoursInDay = 2
  Layouts <- ThreeMarkets
  MaxStops <- Two
  MaxMultiplier <- Two
INVARIANT NothingWhileStopped
