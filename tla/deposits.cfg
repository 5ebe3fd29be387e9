SPECIFICATION Spec
CONSTANTS
  None = None
  p1 = p1
  p2 = p2
  Proc = {p1, p2}
  Evenings <- RushAndDays
SYMMETRY Symmetry
INVARIANTS TypeOK ChargeOnRecord RefundedOnce WritesOnProof PostCaptureExact
