SPECIFICATION ResetPoolSpec
CONSTANTS
  Nil = Nil
  u1 = u1
  u2 = u2
  r1 = r1
  r2 = r2
  m1 = m1
  m2 = m2
  l1 = l1
  l2 = l2
  f1 = f1
  f2 = f2
  t1 = t1
  Package <- mcPackage
  Users <- mcUsers
  Objects <- mcObjects
  Kind <- mcKind
  Pooled = {"ResetableStruct", "mixed", "linked", "first"}
INVARIANTS ResetPoolTypeOK OneOwner GetIsClean FatalNeedsCircle
PROPERTIES OthersNeedLink
