--------------------------- MODULE MigrationSteps ---------------------------
(***************************************************************************)
(* What each migration of alembic/versions does to the schema, up and      *)
(* down: the tables and types it drops, the elements it drops one by one,  *)
(* the elements it adds. What one does to rows is in MigrationRows.        *)
(***************************************************************************)
EXTENDS DatabaseSchema, Naturals, Sequences

NoChange == [tables |-> {}, types |-> {}, drop |-> {}, add |-> {}]
Adding(elements) == [NoChange EXCEPT !.add = elements]
Dropping(elements) == [NoChange EXCEPT !.drop = elements]
DroppingTable(t, indexed) ==
  [NoChange EXCEPT !.tables = {t}, !.drop = {<<"index", t, <<c>>>> : c \in indexed}]
SingleIndices(t, columns) == {<<"index", t, <<c>>>> : c \in columns}

OnPostgres(dialect, elements) == IF dialect = "postgresql" THEN elements ELSE {}
OnSqlite(dialect, elements) == IF dialect = "sqlite" THEN elements ELSE {}

(***************************************************************************)
(* 0001: the initial schema.                                               *)
(***************************************************************************)

InitialTypes ==
  UNION {Labels("userrole", {"ADMIN", "EMPLOYEE"}),
         Labels("vehicletype", {"TRUCK", "TRAILER"}),
         Labels("vehiclestatus", {"ACTIVE", "IN_REPAIR", "WAITING_REPAIR", "INACTIVE",
                                  "DECOMMISSIONED", "ARCHIVED"}),
         Labels("servicestatus", {"PRELIMINARY", "CONFIRMED", "ARCHIVED"}),
         Labels("documentstatus", {"UPLOADED", "RECOGNIZED", "PARTIALLY_RECOGNIZED",
                                   "NEEDS_REVIEW", "CONFIRMED", "OCR_ERROR", "ARCHIVED"}),
         Labels("repairstatus", {"DRAFT", "IN_REVIEW", "EMPLOYEE_CONFIRMED", "SUSPICIOUS",
                                 "CONFIRMED", "OCR_ERROR", "ARCHIVED"}),
         Labels("catalogstatus", {"PRELIMINARY", "CONFIRMED", "MERGED", "ARCHIVED"}),
         Labels("checkseverity", {"NORMAL", "WARNING", "SUSPICIOUS", "ERROR"}),
         Labels("importstatus", {"DRAFT", "PROCESSING", "COMPLETED",
                                 "COMPLETED_WITH_CONFLICTS", "FAILED"})}

CreateUsers ==
  Table("users", {"full_name", "login", "email", "password_hash", "role",
                  "is_active"} \cup Stamps,
        {"login", "email"})
  \cup Unique("users", {<<"login">>, <<"email">>})
  \cup Enumerated("users", {<<"role", "userrole">>})

CreateVehicles ==
  Table("vehicles", {"external_id", "vehicle_type", "vin", "plate_number", "brand", "model",
                     "year", "column_name", "mechanic_name", "current_driver_name",
                     "last_coordinates_at", "comment", "source_payload", "status",
                     "archived_at"} \cup Stamps,
        {"external_id", "vehicle_type", "vin", "plate_number", "status"})
  \cup Enumerated("vehicles", {<<"vehicle_type", "vehicletype">>, <<"status",
                               "vehiclestatus">>})

CreateServices ==
  Table("services", {"name", "city", "contact", "comment", "status", "created_by_user_id",
                     "confirmed_by_user_id"} \cup Stamps,
        {"name", "status"})
  \cup References("services", {<<"created_by_user_id", "users">>, <<"confirmed_by_user_id",
                               "users">>})
  \cup Enumerated("services", {<<"status", "servicestatus">>})

CreateImportJobs ==
  Table("import_jobs", {"import_type", "source_filename", "status", "summary",
                        "error_message"} \cup Stamps,
        {"import_type", "status"})
  \cup Enumerated("import_jobs", {<<"status", "importstatus">>})

CreateRepairs ==
  Table("repairs", {"order_number", "repair_date", "vehicle_id", "service_id",
                    "created_by_user_id", "source_document_id", "mileage", "reason",
                    "employee_comment", "work_total", "parts_total", "vat_total",
                    "grand_total", "expected_total", "status", "is_preliminary",
                    "is_partially_recognized", "is_manually_completed"} \cup Stamps,
        {"order_number", "repair_date", "vehicle_id", "service_id", "status"})
  \cup References("repairs", {<<"vehicle_id", "vehicles">>, <<"service_id", "services">>,
                              <<"created_by_user_id", "users">>})
  \cup Enumerated("repairs", {<<"status", "repairstatus">>})

CreateDocuments ==
  Table("documents", {"repair_id", "uploaded_by_user_id", "original_filename", "storage_key",
                      "mime_type", "source_type", "status", "is_primary", "ocr_confidence",
                      "review_queue_priority", "notes"} \cup Stamps,
        {"repair_id", "status"})
  \cup Unique("documents", {<<"storage_key">>})
  \cup References("documents", {<<"repair_id", "repairs">>, <<"uploaded_by_user_id", "users">>})
  \cup Enumerated("documents", {<<"status", "documentstatus">>})

CreateDocumentVersions ==
  Table("document_versions", {"document_id", "version_number", "storage_key", "parsed_payload",
                              "field_confidence_map", "change_summary"} \cup Stamps,
        {"document_id"})
  \cup References("document_versions", {<<"document_id", "documents">>})

CreateVehicleAssignmentHistory ==
  Table("vehicle_assignment_history", {"vehicle_id", "user_id", "starts_at", "ends_at",
                                       "assigned_by_user_id", "comment"},
        {"vehicle_id", "user_id"})
  \cup References("vehicle_assignment_history", {<<"vehicle_id", "vehicles">>, <<"user_id",
                                                 "users">>, <<"assigned_by_user_id", "users">>})

CreateVehicleLinkHistory ==
  Table("vehicle_link_history", {"left_vehicle_id", "right_vehicle_id", "starts_at", "ends_at",
                                 "comment"},
        {"left_vehicle_id", "right_vehicle_id"})
  \cup References("vehicle_link_history", {<<"left_vehicle_id", "vehicles">>,
                                           <<"right_vehicle_id", "vehicles">>})

CreateRepairWorks ==
  Table("repair_works", {"repair_id", "work_code", "work_name", "quantity", "standard_hours",
                         "actual_hours", "price", "line_total", "status", "reference_payload"},
        {"repair_id", "work_code"})
  \cup References("repair_works", {<<"repair_id", "repairs">>})
  \cup Enumerated("repair_works", {<<"status", "catalogstatus">>})

CreateRepairParts ==
  Table("repair_parts", {"repair_id", "article", "part_name", "quantity", "unit_name", "price",
                         "line_total", "status"},
        {"repair_id", "article"})
  \cup References("repair_parts", {<<"repair_id", "repairs">>})
  \cup Enumerated("repair_parts", {<<"status", "catalogstatus">>})

CreateRepairChecks ==
  Table("repair_checks", {"repair_id", "check_type", "severity", "title", "details",
                          "calculation_payload", "is_resolved"} \cup Stamps,
        {"repair_id", "check_type", "severity"})
  \cup References("repair_checks", {<<"repair_id", "repairs">>})
  \cup Enumerated("repair_checks", {<<"severity", "checkseverity">>})

CreateAuditLog ==
  Table("audit_log", {"user_id", "entity_type", "entity_id", "action_type", "old_value",
                      "new_value"} \cup Stamps,
        {"user_id", "entity_type", "entity_id", "action_type"})
  \cup References("audit_log", {<<"user_id", "users">>})

CreateImportConflicts ==
  Table("import_conflicts", {"import_job_id", "entity_type", "conflict_key",
                             "incoming_payload", "existing_payload", "resolution_payload",
                             "status"} \cup Stamps,
        {"import_job_id", "entity_type", "conflict_key"})

SourceDocumentKey == References("repairs", {<<"source_document_id", "documents">>})

Up0001(dialect) ==
  Adding(UNION {InitialTypes, CreateUsers, CreateVehicles, CreateServices, CreateImportJobs,
                CreateRepairs, CreateDocuments, CreateDocumentVersions,
                CreateVehicleAssignmentHistory, CreateVehicleLinkHistory, CreateRepairWorks,
                CreateRepairParts, CreateRepairChecks, CreateAuditLog, CreateImportConflicts,
                OnPostgres(dialect, SourceDocumentKey)})

Down0001(dialect) ==
  [tables |-> {"import_conflicts", "audit_log", "repair_checks", "repair_parts",
               "repair_works", "vehicle_link_history", "vehicle_assignment_history",
               "document_versions", "documents", "repairs", "import_jobs", "services",
               "vehicles", "users"},
   types |-> {"importstatus", "checkseverity", "catalogstatus", "repairstatus",
              "documentstatus", "servicestatus", "vehiclestatus", "vehicletype", "userrole"},
   drop |-> UNION {SingleIndices("import_conflicts", {"conflict_key", "entity_type",
                                                      "import_job_id"}),
                   SingleIndices("audit_log", {"action_type", "entity_id", "entity_type",
                                               "user_id"}),
                   SingleIndices("repair_checks", {"severity", "check_type", "repair_id"}),
                   SingleIndices("repair_parts", {"article", "repair_id"}),
                   SingleIndices("repair_works", {"work_code", "repair_id"}),
                   SingleIndices("vehicle_link_history", {"right_vehicle_id",
                                                          "left_vehicle_id"}),
                   SingleIndices("vehicle_assignment_history", {"user_id", "vehicle_id"}),
                   SingleIndices("document_versions", {"document_id"}),
                   OnPostgres(dialect, SourceDocumentKey),
                   SingleIndices("documents", {"status", "repair_id"}),
                   SingleIndices("repairs", {"status", "service_id", "vehicle_id",
                                             "repair_date", "order_number"}),
                   SingleIndices("import_jobs", {"status", "import_type"}),
                   SingleIndices("services", {"status", "name"}),
                   SingleIndices("vehicles", {"status", "plate_number", "vin", "vehicle_type",
                                              "external_id"}),
                   SingleIndices("users", {"email", "login"})},
   add |-> {}]

(***************************************************************************)
(* 0002 .. 0012                                                            *)
(***************************************************************************)

Up0002 == Adding(Columns("import_jobs", {"document_id"})
                 \cup SingleIndices("import_jobs", {"document_id"}))
Down0002 == Dropping(Columns("import_jobs", {"document_id"})
                     \cup SingleIndices("import_jobs", {"document_id"}))

DocumentKindType == Labels("documentkind", {"ORDER", "REPEAT_SCAN", "ATTACHMENT", "CONFIRMATION"})

Up0003 == Adding(UNION {DocumentKindType, Columns("documents", {"kind"}),
                        Enumerated("documents", {<<"kind", "documentkind">>}),
                        SingleIndices("documents", {"kind"})})
Down0003 == [tables |-> {}, types |-> {"documentkind"},
             drop |-> SingleIndices("documents", {"kind"})
                      \cup Enumerated("documents", {<<"kind", "documentkind">>})
                      \cup Columns("documents", {"kind"}),
             add |-> {}]

CreateLaborNorms ==
  Table("labor_norms", {"code", "category", "name_ru", "name_ru_alt", "name_cn", "name_en",
                        "normalized_name", "search_text", "standard_hours", "source_sheet",
                        "source_file", "status"} \cup Stamps,
        {"code", "category", "normalized_name", "status"})
  \cup Unique("labor_norms", {<<"code">>})
  \cup Enumerated("labor_norms", {<<"status", "catalogstatus">>})

Up0004 == Adding(CreateLaborNorms)
Down0004 == DroppingTable("labor_norms", {"status", "normalized_name", "category", "code"})

Up0005 ==
  [tables |-> {}, types |-> {}, drop |-> Unique("labor_norms", {<<"code">>}),
   add |-> UNION {Columns("labor_norms", {"scope", "brand_family", "catalog_name"}),
                  SingleIndices("labor_norms", {"scope", "brand_family"}),
                  Unique("labor_norms", {<<"scope", "code">>})}]
Down0005 ==
  [tables |-> {}, types |-> {},
   drop |-> UNION {Unique("labor_norms", {<<"scope", "code">>}),
                   SingleIndices("labor_norms", {"brand_family", "scope"}),
                   Columns("labor_norms", {"catalog_name", "brand_family", "scope"})},
   add |-> Unique("labor_norms", {<<"code">>})]

CreateLaborNormCatalogs ==
  Table("labor_norm_catalogs", {"scope", "catalog_name", "brand_family", "vehicle_type",
                                "year_from", "year_to", "brand_keywords", "model_keywords",
                                "vin_prefixes", "priority", "auto_match_enabled", "status",
                                "notes"} \cup Stamps,
        {"scope", "brand_family", "vehicle_type", "priority", "auto_match_enabled", "status"})
  \cup Unique("labor_norm_catalogs", {<<"scope">>})
  \cup Enumerated("labor_norm_catalogs", {<<"vehicle_type", "vehicletype">>, <<"status",
                                          "catalogstatus">>})

Up0006 == Adding(CreateLaborNormCatalogs)
Down0006 == DroppingTable("labor_norm_catalogs",
                          {"status", "auto_match_enabled", "priority", "vehicle_type",
                           "brand_family", "scope"})

CreateReviewRules ==
  Table("review_rules", {"rule_type", "code", "title", "weight", "bucket_override",
                         "is_active", "sort_order", "notes"} \cup Stamps,
        {"rule_type", "code", "is_active", "sort_order"})
  \cup Unique("review_rules", {<<"rule_type", "code">>})

Up0007 == Adding(CreateReviewRules)
Down0007 == DroppingTable("review_rules", {"sort_order", "is_active", "code", "rule_type"})

CreateOcrRules ==
  Table("ocr_rules", {"profile_scope", "target_field", "pattern", "value_parser", "confidence",
                      "priority", "is_active", "notes"} \cup Stamps,
        {"profile_scope", "target_field", "value_parser", "priority", "is_active"})
  \cup Unique("ocr_rules", {<<"profile_scope", "target_field", "pattern">>})

Up0008 == Adding(CreateOcrRules)
Down0008 == DroppingTable("ocr_rules", {"is_active", "priority", "value_parser",
                                        "target_field", "profile_scope"})

CreateOcrProfileMatchers ==
  Table("ocr_profile_matchers", {"profile_scope", "title", "source_type", "filename_pattern",
                                 "text_pattern", "service_name_pattern", "priority",
                                 "is_active", "notes"} \cup Stamps,
        {"profile_scope", "source_type", "priority", "is_active"})

Up0009 == Adding(CreateOcrProfileMatchers)
Down0009 == DroppingTable("ocr_profile_matchers", {"is_active", "priority", "source_type",
                                                   "profile_scope"})

CreateOcrLearningSignals ==
  Table("ocr_learning_signals", {"repair_id", "document_id", "document_version_id",
                                 "created_by_user_id", "signal_type", "target_field",
                                 "ocr_profile_scope", "extracted_value", "corrected_value",
                                 "service_name", "source_type", "document_filename",
                                 "text_excerpt", "suggestion_summary", "status",
                                 "notes"} \cup Stamps,
        {"repair_id", "document_id", "document_version_id", "created_by_user_id",
         "signal_type", "target_field", "ocr_profile_scope", "status"})
  \cup References("ocr_learning_signals", {<<"repair_id", "repairs">>, <<"document_id",
                                           "documents">>, <<"document_version_id",
                                           "document_versions">>, <<"created_by_user_id",
                                           "users">>})

Up0010 == Adding(CreateOcrLearningSignals)
Down0010 == DroppingTable("ocr_learning_signals",
                          {"status", "ocr_profile_scope", "target_field", "signal_type",
                           "created_by_user_id", "document_version_id", "document_id",
                           "repair_id"})

CreatePasswordResetTokens ==
  Table("password_reset_tokens", {"user_id", "token_hash", "expires_at", "used_at",
                                  "requested_for_email", "delivery_status",
                                  "delivery_error"} \cup Stamps,
        {"user_id", "token_hash", "expires_at", "used_at"})
  \cup Unique("password_reset_tokens", {<<"token_hash">>})
  \cup References("password_reset_tokens", {<<"user_id", "users">>})

Up0011 == Adding(CreatePasswordResetTokens)
Down0011 == DroppingTable("password_reset_tokens", {"used_at", "expires_at", "token_hash",
                                                    "user_id"})

\* Rows only; and nothing on the way down.
Up0012 == NoChange
Down0012 == NoChange

(***************************************************************************)
(* 0013 .. 0020                                                            *)
(***************************************************************************)

\* ALTER TYPE ... ADD VALUE IF NOT EXISTS; no downgrade takes a label back.
LateLabels == Labels("importstatus", {"QUEUED", "RETRY"})

QueueColumns == Columns("import_jobs", {"attempts", "started_at", "finished_at"})

Up0013 == Adding(LateLabels \cup QueueColumns)
Down0013 == Dropping(QueueColumns)

Up0014 == Adding(Unique("import_jobs", {ActiveDocument}))
Down0014 == Dropping(Unique("import_jobs", {ActiveDocument}))

Up0015 == Adding(References("import_jobs", {<<"document_id", "documents">>})
                 \cup References("import_conflicts", {<<"import_job_id", "import_jobs">>}))
Down0015 == Dropping(References("import_conflicts", {<<"import_job_id", "import_jobs">>})
                     \cup References("import_jobs", {<<"document_id", "documents">>}))

Up0016 ==
  Adding(UNION {Index("audit_log", {<<"created_at", "id">>}),
                Index("import_jobs", {<<"created_at", "id">>}),
                Index("import_conflicts", {<<"status", "created_at", "id">>}),
                Index("repair_checks", {<<"is_resolved", "repair_id">>})})

Down0016 ==
  Dropping(UNION {Index("repair_checks", {<<"is_resolved", "repair_id">>}),
                  Index("import_conflicts", {<<"status", "created_at", "id">>}),
                  Index("import_jobs", {<<"created_at", "id">>}),
                  Index("audit_log", {<<"created_at", "id">>})})

Up0017(dialect) == Adding(OnSqlite(dialect, SourceDocumentKey))
Down0017(dialect) == Dropping(OnSqlite(dialect, SourceDocumentKey))

Up0018 == Adding(Check("import_conflicts", "status"))
Down0018 == Dropping(Check("import_conflicts", "status"))

HotJobIndex == Index("import_jobs", {<<"import_type", "status", "created_at", "id">>})

Up0019 == Adding(HotJobIndex)
Down0019 == Dropping(HotJobIndex)

Up0020 == Adding(Index("documents", {<<"status", "created_at", "id">>,
                                     <<"review_queue_priority", "updated_at", "id">>}))
Down0020 == Dropping(Index("documents", {<<"review_queue_priority", "updated_at", "id">>,
                                         <<"status", "created_at", "id">>}))

HeadRevision == 20

Upgrades(dialect) ==
  <<Up0001(dialect), Up0002, Up0003, Up0004, Up0005, Up0006, Up0007, Up0008, Up0009, Up0010,
    Up0011, Up0012, Up0013, Up0014, Up0015, Up0016, Up0017(dialect), Up0018, Up0019, Up0020>>

Downgrades(dialect) ==
  <<Down0001(dialect), Down0002, Down0003, Down0004, Down0005, Down0006, Down0007, Down0008,
    Down0009, Down0010, Down0011, Down0012, Down0013, Down0014, Down0015, Down0016,
    Down0017(dialect), Down0018, Down0019, Down0020>>

\* --- running a change

\* SQLite has no enum types.
InDialect(dialect, s) ==
  IF dialect = "sqlite" THEN {e \in s : e[1] \notin {"enum", "label"}} ELSE s

Without(s, change) ==
  {e \in s \ change.drop : e[2] \notin change.tables /\ ~(e[1] = "label" /\ e[2] \in change.types)}

Altered(dialect, s, change) == Without(s, change) \cup InDialect(dialect, change.add)

\* DDL fails on what it does not find, on what is there already (labels are added IF NOT
\* EXISTS), and on what still depends on a table, a column or a type.
ChangeApplies(dialect, s, change) ==
  LET present == {e \in InDialect(dialect, change.add) : e[1] # "label"} \cap Without(s, change) IN
  /\ InDialect(dialect, change.drop) \subseteq s
  /\ change.tables \subseteq {e[2] : e \in {x \in s : x[1] = "column"}}
  /\ present = {}
  /\ Dangling(Altered(dialect, s, change)) = {}

\* What a fresh database has after each migration.
SchemaAt(dialect) ==
  LET s[n \in 0 .. HeadRevision] ==
        IF n = 0 THEN {} ELSE Altered(dialect, s[n - 1], Upgrades(dialect)[n])
  IN s
=============================================================================
