CONSTANTS
    Routes <- MCRoutes
SPECIFICATION Spec
PROPERTIES
    RefusalsReported
