CONSTANTS
  a1 = a1
  a2 = a2
  a3 = a3
  Addrs <- MC_Addrs
  AddrOrder <- MC_AddrOrder
  Weights <- MC_Weights
  Numbers <- MC_Numbers
  MaxVerifiers = 3
  MaxBits = 3
  MaxMult = 1
  DupVerifiers = FALSE
  Tip = 0

SPECIFICATION Spec
\* verify_proof is one call that returns: a state with a result has no step.
CHECK_DEADLOCK FALSE

INVARIANT SoundAccept
INVARIANT CompleteAccept
INVARIANT HeaderLinkage
