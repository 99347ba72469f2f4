\* Each input string of MC_ConfigParsing is one initial state; the parsers
\* are pure, so the only step is a stutter and no state is a deadlock.
SPECIFICATION Spec
INVARIANT SizeExact
