\* One participant, deployed and cleaned up (see the findings).
SPECIFICATION Spec
CONSTANTS
  Last = 1
  Subscriptions = 1
  Parallel = 1
  Targets <- First
  MaxStrays <- FirstOnce
PROPERTIES ReadyIsVerified
