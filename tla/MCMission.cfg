SPECIFICATION FairSpec
CONSTANTS
  fire = fire
  battery = battery
  wind = wind
  rain = rain
  NoEvent = NoEvent
  Contingencies <- MCContingencies
  Emergencies <- MCEmergencies
INVARIANTS
  FlagIsTrue
PROPERTIES
  StartsAlone
  EmergencyStands
  Responds
