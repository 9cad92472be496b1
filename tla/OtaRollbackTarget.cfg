SPECIFICATION Spec
CONSTANTS
  Slots = {s0, s1}
  NoManifest = NoManifest
  Manifests <- PlainOnly
  MqttUseTls = TRUE
  CommandDepth = 1
  Readings = TRUE
  InboxDepth = 1
  MaxPublishes = 1
  MaxResets = 0
  FlashFaults = FALSE
  Prompt = TRUE
INVARIANT RollbackTargetKept
