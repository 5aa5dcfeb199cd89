SPECIFICATION Spec
CONSTANTS
    i1 = i1
    i2 = i2
    claim = claim
    bucket = bucket
    folder = folder
    Images = {i1, i2}
    Stores = {claim, bucket}
    Folders = {folder}
    Absent = Absent
    NoJob = NoJob
    None = None
    Specs <- OneOfEach
    BackoffLimit = 1
    MaxEdits = 0
    MaxFailures = 0
SYMMETRY ImageSymmetry
INVARIANT RecordedIsStored
