\* Lengths: none, shortest, longest never refused, one more, longest, too long.
CONSTANTS
  Prefix = 4
  MaxFrame = 6
  Slack = 5
  Compact = 9
  Lens = {0, 1, 3, 4, 6, 7}
  MaxFrames = 3
SPECIFICATION DecoderSpec
INVARIANTS
  FramesExact
  NeverRefused
  BufferBounded
\* A connection ends with its stream or a malformed frame.
CHECK_DEADLOCK FALSE
