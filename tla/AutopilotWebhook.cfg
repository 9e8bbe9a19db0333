CONSTANTS
    NoObject = NoObject
    Names <- MCNames
    Manifests <- MCManifests
    Selected <- MCSelected
    MaxOutages = 2
SPECIFICATION FairSpec
INVARIANTS TypeOK NothingBlocked EtcdAllOrNothing
PROPERTIES EditsChangeNothing DeploymentsHeal
