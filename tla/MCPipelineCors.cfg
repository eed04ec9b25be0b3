CONSTANTS
    Routes <- MCRoutes
SPECIFICATION Spec
INVARIANTS
    CorsOnAllRoutes
