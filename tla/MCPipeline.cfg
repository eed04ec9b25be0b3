CONSTANTS
    Routes <- MCRoutes
SPECIFICATION Spec
INVARIANTS
    TypeOK
    LoggedOnce
    LoggedAsAnswered
    FailureReported
    CorsOnResponses
PROPERTIES
    ControllerAuthenticated
