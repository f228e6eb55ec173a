SPECIFICATION Spec
CONSTANTS
    Names <- MCNames
    Paths <- MCPaths
    None = None
INVARIANTS MapsAgree FindsTheMount CrackedBack
