SPECIFICATION EditorSpec
CONSTANTS
  Instances <- AllInstances
  RowReaders <- RowReader
  Fields <- ThreeFields
  Columns <- AllColumns
  Shadow <- ShadowOfThree
  Types <- AllTypes
  Relation = "RELATION"
  Assignable <- AllAssignable
  Absent = "absent"
  NoSchema = NoSchema
  MaxJobs = 3
  RetryCount = 3
  MaxStalls = 1
  MaxPolls = 2
  Worlds <- ChangesAndAdmissions
INVARIANTS
  EditorTypeOK
  EditorHolds
  EditsTakeEffect
PROPERTIES
  EverythingSettles
