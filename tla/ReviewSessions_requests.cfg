SPECIFICATION SessionSpec
CONSTANTS
  MaxDocuments = 1
  UploadKinds = {"order"}
  Findings = {"blocking", "service"}
  Recognitions = {"most", "some", "none_pdf", "none_image"}
  EditStatuses = {}
  PatchStatuses = {"uploaded"}
  SlowHandlers = {"run", "set_primary", "employee_confirm"}
INVARIANT OnlySlowWritesEscape
PROPERTIES ArchiveLeftByRestore WaitingKeepsJob
