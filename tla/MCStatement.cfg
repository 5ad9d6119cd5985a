\* Two statements; queries of up to five characters; values, strings and errors one by one.
SPECIFICATION PartSpec
CONSTANTS
  Statements = {s1, s2}
  Queries = {q1, q2}
  None = None
  Alphabet = {"?", "squote", "dquote", "backtick", "backslash", "-", "/", "*", "#", "blank",
              "newline"}
  MaxLength = 5
  MaxDecimal = 38
  MicroDigits = 3
  MilliDigits = 1
  MaxHours = 100
  Hours = {0, 1, 24, 100, 101}
  Minutes = {0, 1, 59}
  Fractions = {0, 4, 9}
  MaxDimension = 2
  Offsets = {0}
  MaxParams = 2
  Colons = FALSE
  Defaults = {"IO"}
INVARIANTS
  ParametersOfPrepared
  StreamsAsChosen
  CountExact
  ValuesSurvive
  SettingsKept
  NumberDecides
CHECK_DEADLOCK FALSE
