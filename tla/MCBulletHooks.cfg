SPECIFICATION Spec
CONSTANT MaxOps = 4
INVARIANTS
  BulletsAreBullets
