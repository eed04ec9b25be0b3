CONSTANTS
    w1 = w1
    w2 = w2
    ann = ann
    bob = bob
    cal = cal
    c1 = c1
    c2 = c2
    Workers <- TwoWorkers
    Users <- MCUsers
    Managers <- MCManagers
    SelfManagers <- MCSelfManagers
    Clients <- MCClients
    ClientOf <- MCClientOf
    Expiries <- MCExpiriesSmall
    MaxRows = 2
    MaxSecrets = 2
    MaxTime = 2
SPECIFICATION Spec
PROPERTIES
    UpdateTakesEffect
