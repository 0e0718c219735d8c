SPECIFICATION FairSpec
CONSTANTS
  N = 2
  Slots = {h1, h2}
  None = None
  MaxFailures = 2
INVARIANTS TypeOK IntactUnlessOverlapped
PROPERTIES UploadCompletes
