\* What main.rs says of a --from that names a format.
SPECIFICATION SourcesSpec
INVARIANT FromAFormat
CHECK_DEADLOCK FALSE
