SPECIFICATION LiveSpec
CONSTANTS
  Slots = {s0, s1}
  NoManifest = NoManifest
  Manifests <- PlainOnly
  MqttUseTls = TRUE
  CommandDepth = 1
  Readings = FALSE
  InboxDepth = 1
  MaxPublishes = 1
  MaxResets = 0
  FlashFaults = FALSE
  Prompt = FALSE
INVARIANTS ApplyingWhileFlashHeld WorkspaceNeverBusy
PROPERTIES ConfirmsRunningImage MqttComesBack PendingIsConfirmed
