SPECIFICATION EditorSpec
CONSTANTS
  Instances <- TwoInstances
  RowReaders <- OneInstance
  Fields <- ThreeFields
  Columns <- AllColumns
  Shadow <- ShadowOfThree
  Types <- AllTypes
  Relation = "RELATION"
  Assignable <- AllAssignable
  Absent = "absent"
  NoSchema = NoSchema
  MaxJobs = 1
  RetryCount = 1
  MaxStalls = 1
  MaxPolls = 2
  Worlds <- OneRemoval
INVARIANTS
  CachedSchemaIsCurrent
