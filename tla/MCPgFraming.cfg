SPECIFICATION Spec
CONSTANT Streams <- MCStreams
INVARIANT OnMessageBoundary
PROPERTY CutsDoNotMatter
CHECK_DEADLOCK FALSE
