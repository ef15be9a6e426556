SPECIFICATION Spec
CONSTANTS
    Hash = {h1, h2, h3}
    Nothing = Nothing
INVARIANTS TypeOK NoDanglingLink LinkHeals FallbackHeals
PROPERTY ImplementsImageClient
