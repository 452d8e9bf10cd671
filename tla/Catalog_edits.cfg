SPECIFICATION Spec
CONSTANTS
  Products = {p1}
  Codes = {c1}
  Admins = {a1, a2}
  Contents = {x, y}
  None = None
  MaxVersion = 3
SYMMETRY Symmetry
INVARIANTS TypeOK VersionNamesContent
PROPERTIES RowsAudited SeenBeforeSaved
