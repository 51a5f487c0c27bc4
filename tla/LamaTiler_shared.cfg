SPECIFICATION Spec
CONSTANTS
  Callers = {c1, c2}
  Side = 4
  Widths = {0, 3, 8}
  Heights = {1, 7}
INVARIANTS TypeOK OneVerdict Composited ShownWhereAsked
PROPERTY CallsEnd
