\* Clusters of one and two identities; schedulers stop and start again.
SPECIFICATION Spec
CONSTANTS
  Second = 960
  SecondsInMinute = 6
  MinutesInHour = 2
  HoursInDay = 2
  Layouts <- AllLayouts
  MaxStops <- StopsOf
  MaxMultiplier <- MultiplierOf
PROPERTIES
  Spaced
