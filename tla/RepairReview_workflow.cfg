SPECIFICATION Spec
CONSTANTS
  MaxDocuments = 2
  UploadKinds = {"order", "attachment"}
  Findings = {"blocking", "service", "vehicle"}
  Recognitions = {"most", "some", "none_pdf", "none_image"}
  EditStatuses = {}
  PatchStatuses = {}
INVARIANTS PrimaryAligned ArchiveIsClosed NoDeadEnd
