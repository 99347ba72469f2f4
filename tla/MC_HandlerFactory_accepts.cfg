\* Each input is one initial state: a configuration map for createHandler
\* or a message for formatMessage.  Both are pure functions, so the only
\* step is a stutter and no state is a deadlock.
SPECIFICATION Spec
INVARIANT AcceptsExactlyValid
INVARIANT RecordsDecode
INVARIANT FormatterFromConfig
