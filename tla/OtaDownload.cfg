SPECIFICATION LiveSpec
CONSTANTS
  ENC_CHUNK_SIZE = 4
  FLASH_SECTOR_SIZE = 3
  SlotSize = 12
  PrefixMin = 2
  Downloads <- MCDownloads
  SilentFaults = TRUE
CHECK_DEADLOCK FALSE
INVARIANTS TypeOK SelectedSlotHoldsImage WritesFitErased BodyIsDownloadSize
  RedirectedIsGuarded
PROPERTIES AttemptIsOtaTask AnsweredAttemptEnds
