SPECIFICATION Spec
CONSTANTS
    Hash = {h1, h2}
    Nothing = Nothing
INVARIANT SuccessMeansLinked
