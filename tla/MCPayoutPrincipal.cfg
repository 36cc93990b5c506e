CONSTANTS
  x = x
  y = y
  z = z
  MaxRows = 2
  Stakes = {10, 13}
SPECIFICATION Spec
INVARIANT PrincipalReturned
CHECK_DEADLOCK FALSE
