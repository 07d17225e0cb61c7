SPECIFICATION Spec
CONSTANTS
  Tenants = {t1, t2}
  Areas = {a1, a2}
  Blobs = {b1, b2}
  NoBlob = NoBlob
  RetainN = 1
  MaxJournal = 4
  MaxAge = 1
  MaxPinning = 1
SYMMETRY MCSymmetry
INVARIANTS  PinsHold
