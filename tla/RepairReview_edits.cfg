SPECIFICATION Spec
CONSTANTS
  MaxDocuments = 2
  UploadKinds = {"order"}
  Findings = {"blocking", "service"}
  Recognitions = {"most", "some", "none_pdf", "none_image"}
  EditStatuses = {"as_is", "employee_confirmed", "confirmed"}
  PatchStatuses = {"uploaded", "recognized"}
INVARIANTS TypeOK ConfirmedIsComplete PreliminaryUntilConfirmed
PROPERTY DocumentsReopen
