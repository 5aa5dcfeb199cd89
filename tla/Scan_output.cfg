SPECIFICATION Spec
CONSTANTS
    i1 = i1
    i2 = i2
    claim = claim
    bucket = bucket
    folder = folder
    Images = {i1, i2}
    Stores = {claim, bucket}
    Folders = {folder}
    Absent = Absent
    NoJob = NoJob
    None = None
    Specs <- Users
    BackoffLimit = 1
    MaxEdits = 1
    MaxFailures = 3
INVARIANT TypeOK
INVARIANT SucceededIsStored
INVARIANT BuiltJobsCanRun
PROPERTY RecordedLeadsToObject
SYMMETRY ImageSymmetry
