SPECIFICATION Spec
CONSTANTS
  k1 = k1
  k2 = k2
  k3 = k3
  Keys <- MCKeys
  DEDUPE_CAPACITY = 2
  RADIO_TELEMETRY_CHANNEL_DEPTH = 1
  MQTT_COMMAND_CHANNEL_DEPTH = 1
  DEDUPE_TTL = 1
  CAPTURE_PAUSE = 2
  MAX_MEASUREMENT_AGE = 1
  MaxNow = 2
  MaxOtaChanges = 5
CHECK_DEADLOCK FALSE
INVARIANTS TypeOK PublishedInOrder QuietDuringOta RepeatOnlyAfterEviction
SYMMETRY KeySymmetry
