\* A cluster that needs an hour when it has backed off.
SPECIFICATION Spec
CONSTANTS
  Second = 960
  SecondsInMinute = 6
  MinutesInHour = 2
  HoursInDay = 2
  Layouts <- AnHour
  MaxStops <- Two
  MaxMultiplier <- Two
PROPERTY StartSchedules
