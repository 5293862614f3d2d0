\* The system plane alone: it subscribes to the energy broadcast twice.
SPECIFICATION Spec
CONSTANTS
  system = system  solar = solar  heating = heating  energy = energy  ident = ident
  Handler = {h1, h2}
  Plane = {system, solar, heating}
  Topic = {energy, ident}
  Subscriptions <- MCSubscriptions
  Decoder = {system, solar}
  PlaneList <- Alone
  Capacity = 2
  MaxBroadcasts = 2
INVARIANT OneEventPerPlane
