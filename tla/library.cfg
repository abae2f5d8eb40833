SPECIFICATION MCSpec
CONSTANTS
  m1 = m1  m2 = m2  m3 = m3
  guest = guest  owner = owner
  Media = {m1, m2, m3}
  Users = {owner, guest}
  MediaOwner <- MCMediaOwner
  Names = {n1, n2}
  Requests = {r1, r2}
  Opens = {p1, p2, p3}
INVARIANTS
  
  AlbumIsAsGiven
PROPERTIES
  DeletedStaysDeleted
  AssignedByEditorsOnly
SYMMETRY MCSymmetry
CHECK_DEADLOCK FALSE
