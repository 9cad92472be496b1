SPECIFICATION Spec
CHECK_DEADLOCK FALSE
INVARIANTS DecoderIsRight ClockIsRight StoredWordsAreUsable
