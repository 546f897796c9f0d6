CONSTANTS
  Tools = {"read_file", "retrieve", "write_file"}
  Registry = {"read_file", "retrieve"}
  Unknown = "open_file"
  GroundingSteps = 2
  MaxRepair = 2
  TransportRetries = 3
  MaxBatch = 2
SPECIFICATION Spec
INVARIANTS
  ConversationIsWellFormed
  UnstructuredMeansHeard
  RequestsAreBounded
