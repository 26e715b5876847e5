CONSTANTS
  None = None
  g1 = g1
  g2 = g2
  Guids = {g1, g2}
  MaxLost = 4
  MaxVersion = 2
SPECIFICATION SpecLease
CHECK_DEADLOCK FALSE
 
PROPERTIES ListingHeals
