CONSTANTS
  s1 = s1
  s2 = s2
  s3 = s3
  Seats <- MCSeats
  NoSeat = NoSeat
  MaxGeneration = 3
  CallersAwait = TRUE
SPECIFICATION LeaseSpec
SYMMETRY MCSymmetry
INVARIANTS
  HolderStaysCurrent
  
PROPERTIES
  ImplementsFencedLease
