\* The system planes of two devices on one router.
SPECIFICATION Spec
CONSTANTS
  Caller = {c1, c2, c3}
  boiler = boiler  regulator = regulator
  Request <- TwoDevices
  Channel = {h1, h2, h3, h4, h5}
  NoChannel = NoChannel
  NoFrame = NoFrame
  MaxVersion = 0
  MaxCalls = 4
  StateRefreshInterval = 0
  ConfigRefreshInterval = 1
  DefaultStateRefreshInterval = 1
  DefaultConfigRefreshInterval = 2
  DisableCoalescing = FALSE
  ConfigMethod <- MCConfigMethod
  ClassifyInvocation <- NoOverride
INVARIANT AnsweredByTheAddressedDevice
