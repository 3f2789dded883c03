SPECIFICATION FairSenderSpec
CONSTANTS
  Never = Never
  Deadline = 3
  Size = 2
INVARIANTS SenderInv SuccessIsStored ThreeSecondsBound
PROPERTY SendReturns
