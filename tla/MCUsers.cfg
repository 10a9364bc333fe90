\* Two more users beside the seeded one, one session at a time, two threads.
SPECIFICATION Spec
CONSTANTS
  Usernames = {admin, alice, bob}
  Seeded = admin
  Nobody = Nobody
  k1 = k1
  k2 = k2
  s1 = s1
  Tokens = {s1}
  Threads = {k1, k2}
INVARIANTS
  SomeoneCanLogIn
  TempPasswordIsForced
PROPERTY DeactivatedForGood
SYMMETRY Symmetry
\* Every user may have locked every other out.
CHECK_DEADLOCK FALSE
