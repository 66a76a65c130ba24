\* Three requests: registrations, logins, updates and logouts race.
SPECIFICATION Spec
CONSTANTS
  r1 = r1
  r2 = r2
  r3 = r3
  a1 = a1
  a2 = a2
  a3 = a3
  n1 = n1
  n2 = n2
  n3 = n3
  p1 = p1
  p2 = p2
  ph = ph
  None = None
  NoPhoto = NoPhoto
  Request = {r1, r2, r3}
  Account = {a1, a2, a3}
  Name = {n1, n2, n3}
  Password = {p1, p2}
  Photo = {NoPhoto, ph}
  First = a1
  FirstName = n1
  FirstPassword = p1
  FirstPhoto = NoPhoto
SYMMETRY Requests
INVARIANTS TypeOK VersionCountsHashes SessionMatchesVersion RegistrationsOwn IInv
PROPERTIES OnlyRacesLoseUpdates
CHECK_DEADLOCK FALSE
