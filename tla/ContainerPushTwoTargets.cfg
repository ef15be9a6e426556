SPECIFICATION Spec
CONSTANTS
    docker = docker
    quay = quay
    Hash = {h1}
    Container = {nova, base}
    Base = {base}
    Source = rdo
    Targets <- TwoTargets
    Nothing = Nothing
    Mixed = Mixed
INVARIANT FailureFreeSucceeds
