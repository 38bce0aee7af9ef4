CONSTANTS
  MaxFaults = 0
SPECIFICATION WorkflowSpec
INVARIANTS
  ApprovalBeforeAck
