\* Every file of up to six lines, none of which holds a "]".
CONSTANTS
  Plugin = "syslog"
  Lines <- MixedLines
  MaxLines = 6
SPECIFICATION Spec
INVARIANTS TypeOK FramedIsServed
PROPERTY FramedIsKept
