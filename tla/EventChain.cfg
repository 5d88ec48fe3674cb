SPECIFICATION Spec
CONSTANTS
    MaxEvents <- MCMaxEvents
    MaxDamage <- MCMaxDamage
INVARIANTS
    LogAndProjectionsAgree
    VerifiedIsHistory
CHECK_DEADLOCK FALSE
