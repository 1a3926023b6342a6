SPECIFICATION MapsSpec
CONSTANTS
  Lengths <- SmallLengths
  Pre511 = FALSE
PROPERTY
  LookupExactEverywhere
