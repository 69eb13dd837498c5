SPECIFICATION Spec
CONSTANTS
  Absent = Absent
  NoFile = NoFile
  NoName = "no name"
  Jobs <- MCJobs
  Outputs <- MCOutputs
  DefaultOut <- MCDefaultOut
  TempPaths <- MCTempPaths
INVARIANTS ZeroMeansDone ObjectsAreThere
PROPERTY NoTempFileLeft
CHECK_DEADLOCK FALSE
