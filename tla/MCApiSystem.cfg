CONSTANTS
    w1 = w1
    ann = ann
    svc = svc
    c1 = c1
    Workers <- OneWorker
    Users <- MCUsers
    AccessTTL = 1
    RefreshTTL = 2
    Expiries <- MCExpiries
    MaxGrants = 2
    MaxKeys = 2
    MaxTime = 2
    Managers <- MCManagers
    SelfManagers <- MCSelfManagers
    Clients <- MCClients
    ClientOf <- MCClientOf
    MaxRows = 2
    MaxSecrets = 2
    PasswordUsers <- MCPasswordUsers
    States <- MCStates
SPECIFICATION Spec
INVARIANTS
    TypeOK
    ActorAdmitted
    AccessAccounted
PROPERTIES
    DeletionEndsWrites
    ImplementsCredentials
    ImplementsTokens
