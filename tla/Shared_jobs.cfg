SPECIFICATION FairSpec
CONSTANTS
    k1 = k1
    k2 = k2
    i1 = i1
    i2 = i2
    op = op
    team = team
    CRs = {k1, k2}
    Images = {i1, i2}
    OperatorNs = op
    Scenarios <- MCScenarios
    Targets <- MCTargets
    NameLimit = 3
    LabelLimit = 4
    MaxChanges = 1
INVARIANT TypeOK
INVARIANT RecordedWasScanned
INVARIANT OwnImagesOnly
PROPERTY OrphansCollected
PROPERTY ApartCompletes
