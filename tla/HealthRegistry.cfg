\* the check of i2, the last in line, raises; two checkers, the loop and a client's call
CONSTANTS
  i1 = i1  i2 = i2
  c1 = c1
  Instances = {i1, i2}
  Order <- OneThenTwo
  Raising = {i2}
  Clients = {c1}
  healthy_threshold = 2
  unhealthy_threshold = 2
SPECIFICATION FairSpec
INVARIANTS TypeOK StatusFollowsCounts
PROPERTIES NoFalseAlarm DownIsDelisted UpIsListed
