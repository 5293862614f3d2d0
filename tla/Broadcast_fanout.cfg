\* Two handlers, two broadcasts, two tables and a queue that overflows.
SPECIFICATION FairSpec
CONSTANTS
  system = system  solar = solar  heating = heating  energy = energy  ident = ident
  Handler = {h1, h2}
  Plane = {system, solar, heating}
  Topic = {energy, ident}
  Subscriptions <- MCSubscriptions
  Decoder = {system, solar}
  PlaneList <- MCPlaneList
  Capacity = 2
  MaxBroadcasts = 2
INVARIANTS TypeOK EventsAreAccountedFor OneTablePerBroadcast
PROPERTY EveryBroadcastCompletes
