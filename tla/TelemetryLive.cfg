SPECIFICATION LiveSpec
CONSTANTS
  k1 = k1
  k2 = k2
  k3 = k3
  Keys <- MCTwoKeys
  DEDUPE_CAPACITY = 1
  RADIO_TELEMETRY_CHANNEL_DEPTH = 1
  MQTT_COMMAND_CHANNEL_DEPTH = 1
  DEDUPE_TTL = 1
  CAPTURE_PAUSE = 2
  MAX_MEASUREMENT_AGE = 1
  MaxNow = 2
  MaxOtaChanges = 1
CHECK_DEADLOCK FALSE
PROPERTY QueuedIsPublished
