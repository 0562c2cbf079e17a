SPECIFICATION Spec
CONSTANT MaxFields = 2
INVARIANTS CodecTypeOK LastCounts RoundTrip MergeIsParse SizeIsExact
CHECK_DEADLOCK FALSE
