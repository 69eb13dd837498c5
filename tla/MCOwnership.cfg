SPECIFICATION Spec
CONSTANTS
  Signature <- MCSignature
  Behaviour <- MCBehaviour
  Functions <- MCFunctions
  Inputs <- MCInputs
INVARIANTS
  ExecutesLikeSource
  OwnsWhatItReturns
