\* Tasks of one user, a memory of another that is much alike, maintenance, a clock and purges.
CONSTANTS
  alice = alice
  bob = bob
  t1 = t1
  t2 = t2
  f1 = f1
  f2 = f2
  g = g
  User = {alice, bob}
  Fact = {f1, f2, g}
  Alike <- AllAlike
  Needed <- Patience
  j1 = j1
  j2 = j2
  Job = {j1, j2}
  MaxMemory = 4
  Task = {t1, t2}
  OwnerOf <- Owners
  Lesson <- Lessons
  Known <- Past
  TTL = 2
  NoField = NoField
  MaxNow = 2
  MaxErrors = 1
  Casts <- Meetings
SPECIFICATION Spec
INVARIANTS
  MemoriesAreKept
  
  PurgeLeavesNothing
PROPERTIES
  ImplementsWorkingMemory
CHECK_DEADLOCK FALSE
