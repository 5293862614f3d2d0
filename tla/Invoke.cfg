\* Three callers, a cached read and a write of one device, four calls: joins,
\* failed flights, a waiter that takes over, expiry, a change during a flight;
\* no waiter needs its context to end.
SPECIFICATION FairSpec
CONSTANTS
  Caller = {c1, c2, c3}
  boiler = boiler  regulator = regulator
  Request <- ReadAndWrite
  Channel = {h1, h2, h3, h4, h5}
  NoChannel = NoChannel
  NoFrame = NoFrame
  MaxVersion = 2
  MaxCalls = 4
  StateRefreshInterval = 0
  ConfigRefreshInterval = 1
  DefaultStateRefreshInterval = 1
  DefaultConfigRefreshInterval = 2
  DisableCoalescing = FALSE
  ConfigMethod <- MCConfigMethod
  ClassifyInvocation <- NoOverride
INVARIANTS TypeOK SingleFlight ChannelDiscipline
PROPERTIES CacheNeverGoesBack CoalescedReadSpec EveryCallReturns
