\* Sections some of whose lines hold a "]".
CONSTANTS
  Plugin = "splunk"
  Lines <- BracketLines
  MaxLines = 6
SPECIFICATION Spec
PROPERTY ConfigsAreKept
