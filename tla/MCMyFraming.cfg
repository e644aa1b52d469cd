SPECIFICATION Spec
CONSTANT Streams <- MCStreams
INVARIANT OnPacketBoundary
PROPERTY CutsDoNotMatter
CHECK_DEADLOCK FALSE
