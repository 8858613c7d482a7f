SPECIFICATION Spec
CONSTANTS
  People = {ann, bob}
  Tabs = {left, right}
  Nobody = Nobody
  Age = 2
  MaxTime = 3
  MaxRequests = 3
  MaxChanges = 1
CHECK_DEADLOCK FALSE
INVARIANTS ActorIsCurrent SignedOutStaysOut FreshFormsPost
SYMMETRY EitherWay
