CONSTANTS
    w1 = w1
    ann = ann
    Workers <- OneWorker
    Users <- MCUsers
    AccessTTL = 1
    RefreshTTL = 2
    Expiries <- MCExpiries
    MaxGrants = 2
    MaxKeys = 3
    MaxTime = 2
SPECIFICATION Spec
INVARIANTS
    TypeOK
    DecisionsCurrent
    KindsSeparate
PROPERTIES
    KindsHonoured
    AcceptedInTime
    DeletionTakesHold
