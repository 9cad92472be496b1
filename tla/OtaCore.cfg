SPECIFICATION Spec
CONSTANTS
  Slots = {s0, s1}
  NoManifest = NoManifest
  Manifests <- MCManifests
  MqttUseTls = TRUE
  CommandDepth = 1
  Readings = TRUE
  InboxDepth = 1
  MaxPublishes = 1
  MaxResets = 1
  FlashFaults = TRUE
  Prompt = TRUE
INVARIANTS TypeOK OtaHasNetworkAlone SessionsExcludeOta DeviceBootable
PROPERTIES ConfirmedOnlyWhenHealthy NoSleepDuringOta
