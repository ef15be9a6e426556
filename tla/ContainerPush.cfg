SPECIFICATION Spec
CONSTANTS
    docker = docker
    quay = quay
    Hash = {h1, h2}
    Container = {nova, glance, base}
    Base = {base}
    Source = rdo
    Targets <- OneTarget
    Nothing = Nothing
    Mixed = Mixed
INVARIANTS TypeOK SuccessMeansPushed PublishedIsBuilt FailureFreeSucceeds
PROPERTY ImplementsContainerClient
