--------------------------- MODULE DatabaseSchema ---------------------------
(***************************************************************************)
(* The tables that the ORM models declare (app/models), as sets of schema  *)
(* elements: columns, indices, unique and foreign keys, enum columns and   *)
(* the labels of their types, check constraints.  Types other than enums,  *)
(* nullability, defaults and relationships are left out.                   *)
(***************************************************************************)

Columns(t, columns) == {<<"column", t, c>> : c \in columns}
Table(t, columns, indexed) ==
  Columns(t, {"id"} \cup columns) \cup {<<"index", t, <<c>>>> : c \in indexed}
Index(t, lists) == {<<"index", t, cs>> : cs \in lists}
Unique(t, lists) == {<<"unique", t, cs>> : cs \in lists}
References(t, pairs) == {<<"foreign", t, p>> : p \in pairs}
Enumerated(t, pairs) == {<<"enum", t, p>> : p \in pairs}
Labels(type, labels) == {<<"label", type, l>> : l \in labels}
Check(t, column) == {<<"check", t, <<column>>>>}

\* TimestampMixin
Stamps == {"created_at", "updated_at"}

\* The unique index of document_id among the active OCR jobs.
ActiveDocument == <<"document_id", "active document_ocr">>

AuditLogModel ==
  Table("audit_log", {"user_id", "entity_type", "entity_id", "action_type", "old_value",
                      "new_value"} \cup Stamps,
        {"user_id", "entity_type", "entity_id", "action_type"})
  \cup Index("audit_log", {<<"created_at", "id">>})
  \cup References("audit_log", {<<"user_id", "users">>})

DocumentModel ==
  Table("documents", {"repair_id", "uploaded_by_user_id", "original_filename", "storage_key",
                      "mime_type", "source_type", "kind", "status", "is_primary",
                      "ocr_confidence", "review_queue_priority", "notes"} \cup Stamps,
        {"repair_id", "kind", "status"})
  \cup Index("documents", {<<"status", "created_at", "id">>, <<"review_queue_priority",
                           "updated_at", "id">>})
  \cup Unique("documents", {<<"storage_key">>})
  \cup References("documents", {<<"repair_id", "repairs">>, <<"uploaded_by_user_id", "users">>})
  \cup Enumerated("documents", {<<"kind", "documentkind">>, <<"status", "documentstatus">>})

DocumentVersionModel ==
  Table("document_versions", {"document_id", "version_number", "storage_key", "parsed_payload",
                              "field_confidence_map", "change_summary"} \cup Stamps,
        {"document_id"})
  \cup References("document_versions", {<<"document_id", "documents">>})

ImportJobModel ==
  Table("import_jobs", {"document_id", "import_type", "source_filename", "status", "summary",
                        "error_message", "attempts", "started_at", "finished_at"} \cup Stamps,
        {"document_id", "import_type", "status"})
  \cup Index("import_jobs", {<<"created_at", "id">>, <<"import_type", "status", "created_at",
                             "id">>})
  \cup Unique("import_jobs", {ActiveDocument})
  \cup References("import_jobs", {<<"document_id", "documents">>})
  \cup Enumerated("import_jobs", {<<"status", "importstatus">>})

ImportConflictModel ==
  Table("import_conflicts", {"import_job_id", "entity_type", "conflict_key",
                             "incoming_payload", "existing_payload", "resolution_payload",
                             "status"} \cup Stamps,
        {"import_job_id", "entity_type", "conflict_key"})
  \cup Index("import_conflicts", {<<"status", "created_at", "id">>})
  \cup References("import_conflicts", {<<"import_job_id", "import_jobs">>})
  \cup Check("import_conflicts", "status")

LaborNormModel ==
  Table("labor_norms", {"scope", "brand_family", "catalog_name", "code", "category", "name_ru",
                        "name_ru_alt", "name_cn", "name_en", "normalized_name", "search_text",
                        "standard_hours", "source_sheet", "source_file", "status"} \cup Stamps,
        {"scope", "brand_family", "code", "category", "normalized_name", "status"})
  \cup Unique("labor_norms", {<<"scope", "code">>})
  \cup Enumerated("labor_norms", {<<"status", "catalogstatus">>})

LaborNormCatalogModel ==
  Table("labor_norm_catalogs", {"scope", "catalog_name", "brand_family", "vehicle_type",
                                "year_from", "year_to", "brand_keywords", "model_keywords",
                                "vin_prefixes", "priority", "auto_match_enabled", "status",
                                "notes"} \cup Stamps,
        {"scope", "brand_family", "vehicle_type", "priority", "auto_match_enabled", "status"})
  \cup Unique("labor_norm_catalogs", {<<"scope">>})
  \cup Enumerated("labor_norm_catalogs", {<<"vehicle_type", "vehicletype">>, <<"status",
                                          "catalogstatus">>})

OcrLearningSignalModel ==
  Table("ocr_learning_signals", {"repair_id", "document_id", "document_version_id",
                                 "created_by_user_id", "signal_type", "target_field",
                                 "ocr_profile_scope", "extracted_value", "corrected_value",
                                 "service_name", "source_type", "document_filename",
                                 "text_excerpt", "suggestion_summary", "status",
                                 "notes"} \cup Stamps,
        {"repair_id", "document_id", "document_version_id", "created_by_user_id",
         "signal_type", "target_field", "ocr_profile_scope", "status"})
  \cup References("ocr_learning_signals", {<<"repair_id", "repairs">>, <<"document_id",
                                           "documents">>, <<"document_version_id",
                                           "document_versions">>, <<"created_by_user_id",
                                           "users">>})

OcrProfileMatcherModel ==
  Table("ocr_profile_matchers", {"profile_scope", "title", "source_type", "filename_pattern",
                                 "text_pattern", "service_name_pattern", "priority",
                                 "is_active", "notes"} \cup Stamps,
        {"profile_scope", "source_type", "priority", "is_active"})

OcrRuleModel ==
  Table("ocr_rules", {"profile_scope", "target_field", "pattern", "value_parser", "confidence",
                      "priority", "is_active", "notes"} \cup Stamps,
        {"profile_scope", "target_field", "value_parser", "priority", "is_active"})
  \cup Unique("ocr_rules", {<<"profile_scope", "target_field", "pattern">>})

PasswordResetTokenModel ==
  Table("password_reset_tokens", {"user_id", "token_hash", "expires_at", "used_at",
                                  "requested_for_email", "delivery_status",
                                  "delivery_error"} \cup Stamps,
        {"user_id", "token_hash", "expires_at", "used_at"})
  \cup Unique("password_reset_tokens", {<<"token_hash">>})
  \cup References("password_reset_tokens", {<<"user_id", "users">>})

RepairModel ==
  Table("repairs", {"order_number", "repair_date", "vehicle_id", "service_id",
                    "created_by_user_id", "source_document_id", "mileage", "reason",
                    "employee_comment", "work_total", "parts_total", "vat_total",
                    "grand_total", "expected_total", "status", "is_preliminary",
                    "is_partially_recognized", "is_manually_completed"} \cup Stamps,
        {"order_number", "repair_date", "vehicle_id", "service_id", "status"})
  \cup References("repairs", {<<"vehicle_id", "vehicles">>, <<"service_id", "services">>,
                              <<"created_by_user_id", "users">>, <<"source_document_id",
                              "documents">>})
  \cup Enumerated("repairs", {<<"status", "repairstatus">>})

RepairWorkModel ==
  Table("repair_works", {"repair_id", "work_code", "work_name", "quantity", "standard_hours",
                         "actual_hours", "price", "line_total", "status", "reference_payload"},
        {"repair_id", "work_code"})
  \cup References("repair_works", {<<"repair_id", "repairs">>})
  \cup Enumerated("repair_works", {<<"status", "catalogstatus">>})

RepairPartModel ==
  Table("repair_parts", {"repair_id", "article", "part_name", "quantity", "unit_name", "price",
                         "line_total", "status"},
        {"repair_id", "article"})
  \cup References("repair_parts", {<<"repair_id", "repairs">>})
  \cup Enumerated("repair_parts", {<<"status", "catalogstatus">>})

RepairCheckModel ==
  Table("repair_checks", {"repair_id", "check_type", "severity", "title", "details",
                          "calculation_payload", "is_resolved"} \cup Stamps,
        {"repair_id", "check_type", "severity"})
  \cup Index("repair_checks", {<<"is_resolved", "repair_id">>})
  \cup References("repair_checks", {<<"repair_id", "repairs">>})
  \cup Enumerated("repair_checks", {<<"severity", "checkseverity">>})

ReviewRuleModel ==
  Table("review_rules", {"rule_type", "code", "title", "weight", "bucket_override",
                         "is_active", "sort_order", "notes"} \cup Stamps,
        {"rule_type", "code", "is_active", "sort_order"})
  \cup Unique("review_rules", {<<"rule_type", "code">>})

ServiceModel ==
  Table("services", {"name", "city", "contact", "comment", "status", "created_by_user_id",
                     "confirmed_by_user_id"} \cup Stamps,
        {"name", "status"})
  \cup References("services", {<<"created_by_user_id", "users">>, <<"confirmed_by_user_id",
                               "users">>})
  \cup Enumerated("services", {<<"status", "servicestatus">>})

UserModel ==
  Table("users", {"full_name", "login", "email", "password_hash", "role",
                  "is_active"} \cup Stamps,
        {"login", "email"})
  \cup Unique("users", {<<"login">>, <<"email">>})
  \cup Enumerated("users", {<<"role", "userrole">>})

VehicleModel ==
  Table("vehicles", {"external_id", "vehicle_type", "vin", "plate_number", "brand", "model",
                     "year", "column_name", "mechanic_name", "current_driver_name",
                     "last_coordinates_at", "comment", "source_payload", "status",
                     "archived_at"} \cup Stamps,
        {"external_id", "vehicle_type", "vin", "plate_number", "status"})
  \cup Enumerated("vehicles", {<<"vehicle_type", "vehicletype">>, <<"status",
                               "vehiclestatus">>})

VehicleAssignmentHistoryModel ==
  Table("vehicle_assignment_history", {"vehicle_id", "user_id", "starts_at", "ends_at",
                                       "assigned_by_user_id", "comment"},
        {"vehicle_id", "user_id"})
  \cup References("vehicle_assignment_history", {<<"vehicle_id", "vehicles">>, <<"user_id",
                                                 "users">>, <<"assigned_by_user_id", "users">>})

VehicleLinkHistoryModel ==
  Table("vehicle_link_history", {"left_vehicle_id", "right_vehicle_id", "starts_at", "ends_at",
                                 "comment"},
        {"left_vehicle_id", "right_vehicle_id"})
  \cup References("vehicle_link_history", {<<"left_vehicle_id", "vehicles">>,
                                           <<"right_vehicle_id", "vehicles">>})

EnumModel ==
  UNION {Labels("userrole", {"ADMIN", "EMPLOYEE"}),
         Labels("vehicletype", {"TRUCK", "TRAILER"}),
         Labels("vehiclestatus", {"ACTIVE", "IN_REPAIR", "WAITING_REPAIR", "INACTIVE",
                                  "DECOMMISSIONED", "ARCHIVED"}),
         Labels("repairstatus", {"DRAFT", "IN_REVIEW", "EMPLOYEE_CONFIRMED", "SUSPICIOUS",
                                 "CONFIRMED", "OCR_ERROR", "ARCHIVED"}),
         Labels("documentstatus", {"UPLOADED", "RECOGNIZED", "PARTIALLY_RECOGNIZED",
                                   "NEEDS_REVIEW", "CONFIRMED", "OCR_ERROR", "ARCHIVED"}),
         Labels("documentkind", {"ORDER", "REPEAT_SCAN", "ATTACHMENT", "CONFIRMATION"}),
         Labels("servicestatus", {"PRELIMINARY", "CONFIRMED", "ARCHIVED"}),
         Labels("catalogstatus", {"PRELIMINARY", "CONFIRMED", "MERGED", "ARCHIVED"}),
         Labels("checkseverity", {"NORMAL", "WARNING", "SUSPICIOUS", "ERROR"}),
         Labels("importstatus", {"QUEUED", "RETRY", "DRAFT", "PROCESSING", "COMPLETED",
                                 "COMPLETED_WITH_CONFLICTS", "FAILED"})}

\* Base.metadata
ModelSchema ==
  UNION {EnumModel, AuditLogModel, DocumentModel, DocumentVersionModel, ImportJobModel,
         ImportConflictModel, LaborNormModel, LaborNormCatalogModel, OcrLearningSignalModel,
         OcrProfileMatcherModel, OcrRuleModel, PasswordResetTokenModel, RepairModel,
         RepairWorkModel, RepairPartModel, RepairCheckModel, ReviewRuleModel, ServiceModel,
         UserModel, VehicleModel, VehicleAssignmentHistoryModel, VehicleLinkHistoryModel}

\* Elements whose table lacks a column of theirs, whose enum type has no labels, or whose
\* reference names no table.
Dangling(s) ==
  LET has(t, c) == <<"column", t, c>> \in s
      tables == {e[2] : e \in {x \in s : x[1] = "column"}}
      types == {e[2] : e \in {x \in s : x[1] = "label"}}
      hasAll(t, cs) == \A i \in DOMAIN cs : has(t, cs[i])
  IN
  {e \in s : \/ (e[1] \in {"foreign", "enum"} /\ ~has(e[2], e[3][1]))
            \/ (e[1] = "foreign" /\ e[3][2] \notin tables)
            \/ (e[1] = "enum" /\ e[3][2] \notin types)
            \/ (e[1] \in {"index", "check"} /\ ~hasAll(e[2], e[3]))
            \/ (e[1] = "unique" /\ e[3] # ActiveDocument /\ ~hasAll(e[2], e[3]))}
=============================================================================
