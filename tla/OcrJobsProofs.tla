--------------------------- MODULE OcrJobsProofs ---------------------------
(***************************************************************************)
(* What holds of the OCR queue for every number of documents, requests,    *)
(* workers, scripts and job rows.                                          *)
(***************************************************************************)
EXTENDS OcrJobs, TLAPS

(* A script that is asking for a document runs nothing.                     *)
AsksOrRuns == \A s \in Scripts : req[s].pc # "idle" => run[s] = NoJob

(* The inductive invariant: ExclusiveRun and ProcessingIsRun are not        *)
(* inductive alone.  ExclusiveRun needs OneActiveJob (a claim may not fail, *)
(* as superseded, a job that is being run) and ProcessingIsRun needs that   *)
(* only the claimed row turns PROCESSING, and that no script drops a run    *)
(* for another one.                                                         *)
IInv == TypeOK /\ OneActiveJob /\ ExclusiveRun /\ ProcessingIsRun /\ AsksOrRuns

USE DEF NoJob

-----------------------------------------------------------------------------

LEMMA InitIInv == Init => IInv
  BY MaxJobsAssumption, RunnersAssumption, NoDocumentAssumption, SMT
  DEF Init, IInv, TypeOK, OneActiveJob, ExclusiveRun, ProcessingIsRun, JobIds, Runners,
      Sessions, Statuses, ActiveStatuses, QueueableStatuses, DoneStatuses, Request, IdleRequest,
      ActiveJobs, JobsOf, AsksOrRuns

(* Types, step by step. *)
LEMMA TypeStep == TypeOK /\ [Next]_vars => TypeOK'
<1> SUFFICES ASSUME TypeOK, [Next]_vars PROVE TypeOK'
  OBVIOUS
<1> USE MaxJobsAssumption, RunnersAssumption, NoDocumentAssumption
<1> USE DEF TypeOK, JobIds, Runners, Sessions, Statuses, ActiveStatuses, QueueableStatuses,
            DoneStatuses, Request, IdleRequest
(* A session that keeps its hands off the rows knows rows of its document.   *)
<1>0. ASSUME NEW r \in Sessions, NEW q \in Request, req' = [req EXCEPT ![r] = q],
             q.pc # "idle" => q.doc \in Documents, q.running => q.active # NoJob,
             \A j \in {q.active, q.latest} \ {NoJob} : j < nextId /\ jobDoc[j] = q.doc,
             UNCHANGED <<jobDoc, jobStatus, nextId, run, blocked, shared, abandoned>>
      PROVE TypeOK'
  <2>1. \A i \in Sessions : req'[i] = IF i = r THEN q ELSE req[i]
    BY <1>0
  <2>2. \A i \in Sessions :
          /\ req'[i].pc # "idle" => req'[i].doc \in Documents
          /\ req'[i].running => req'[i].active # NoJob
          /\ \A j \in {req'[i].active, req'[i].latest} \ {NoJob} :
               j < nextId /\ jobDoc[j] = req'[i].doc
    <3> SUFFICES ASSUME NEW i \in Sessions
                 PROVE /\ req'[i].pc # "idle" => req'[i].doc \in Documents
                       /\ req'[i].running => req'[i].active # NoJob
                       /\ \A j \in {req'[i].active, req'[i].latest} \ {NoJob} :
                            j < nextId /\ jobDoc[j] = req'[i].doc
      OBVIOUS
    <3>1. CASE i = r
      BY <1>0, <2>1, <3>1
    <3>2. CASE i # r
      BY <2>1, <3>2
    <3>3. QED
      BY <3>1, <3>2
  <2>3. QED
    BY <1>0, <2>2
<1>i. ASSUME NEW r \in Sessions, req' = [req EXCEPT ![r] = IdleRequest],
             UNCHANGED <<jobDoc, jobStatus, nextId, run, blocked, shared, abandoned>>
      PROVE TypeOK'
  <2>1. IdleRequest \in Request
    OBVIOUS
  <2>2. QED
    BY <1>0, <1>i, <2>1
<1>l. \A c \in JobIds, d \in Documents : IsCanonical(c, d) => c < nextId /\ jobDoc[c] = d
  BY DEF IsCanonical, ActiveJobs, JobsOf
<1>1. ASSUME NEW r \in Sessions, NEW d \in Documents, NEW retry \in BOOLEAN,
             RequestCheckActive(r, d, retry)
      PROVE TypeOK'
  <2>1. PICK a \in JobIds \cup {NoJob} :
          /\ a # NoJob => IsCanonical(a, d)
          /\ req' = [req EXCEPT ![r] = [pc |-> "checked", doc |-> d, retry |-> retry, active |-> a,
                                        running |-> a \in ProcessingJobs(d), latest |-> NoJob]]
    BY <1>1 DEF RequestCheckActive
  <2> DEFINE q == [pc |-> "checked", doc |-> d, retry |-> retry, active |-> a,
                   running |-> a \in ProcessingJobs(d), latest |-> NoJob]
  <2>2. q \in Request
    OBVIOUS
  <2>3. UNCHANGED <<jobDoc, jobStatus, nextId, run, blocked, shared, abandoned>>
    BY <1>1 DEF RequestCheckActive
  <2>4. q.doc = d /\ q.active = a /\ q.latest = NoJob /\ req' = [req EXCEPT ![r] = q]
    BY <2>1
  <2>8. q.running => a \in ProcessingJobs(d)
    BY Zenon
  <2> HIDE DEF q
  <2>5. \A j \in {q.active, q.latest} \ {NoJob} : j < nextId /\ jobDoc[j] = q.doc
    BY <1>l, <2>1, <2>4
  <2>6. q.running => q.active # NoJob
    BY <2>4, <2>8 DEF ProcessingJobs, JobsOf
  <2>7. QED
    BY <1>0, <2>2, <2>3, <2>4, <2>5, <2>6
<1>2. ASSUME NEW r \in Requests, RequestReuse(r) PROVE TypeOK'
  BY <1>i, <1>2 DEF RequestReuse
<1>3. ASSUME NEW r \in Sessions, RequestReadLatest(r) PROVE TypeOK'
  <2>0. /\ req[r] \in Request /\ req[r].doc \in Documents /\ req[r].active = NoJob
        /\ ~req[r].running
    BY <1>3 DEF RequestReadLatest
  <2>1. PICK l \in JobIds \cup {NoJob} :
          /\ l # NoJob => IsLatest(l, req[r].doc)
          /\ req' = [req EXCEPT ![r] = [req[r] EXCEPT !.pc = "ready", !.latest = l]]
    BY <1>3 DEF RequestReadLatest
  <2>2. l # NoJob => l < nextId /\ jobDoc[l] = req[r].doc
    BY <2>0, <2>1 DEF IsLatest, JobsOf
  <2> DEFINE q == [req[r] EXCEPT !.pc = "ready", !.latest = l]
  <2>3. q \in Request /\ q.doc = req[r].doc /\ q.latest = l /\ q.active = NoJob /\ ~q.running
    BY <2>0
  <2>4. req' = [req EXCEPT ![r] = q]
    BY <2>1
  <2> HIDE DEF q
  <2>5. UNCHANGED <<jobDoc, jobStatus, nextId, run, blocked, shared, abandoned>>
    BY <1>3 DEF RequestReadLatest
  <2>6. QED
    BY <1>0, <2>0, <2>2, <2>3, <2>4, <2>5
(* Row i gets another status, and its session has nothing in hand any more. *)
<1> DEFINE Sets(r, i, st) == /\ i < nextId /\ st \in ActiveStatuses
                             /\ req' = [req EXCEPT ![r] = IdleRequest]
                             /\ jobStatus' = [jobStatus EXCEPT ![i] = st]
                             /\ shared' = shared \cup Overwritten(i)
                             /\ \/ run' = run
                                \/ r \in Scripts /\ run' = [run EXCEPT ![r] = i]
                             /\ UNCHANGED <<jobDoc, nextId, blocked, abandoned>>
<1>s. ASSUME NEW r \in Sessions, NEW i \in JobIds, NEW st, Sets(r, i, st) PROVE TypeOK'
  <2>1. req' \in [Sessions -> Request]
    BY <1>s
  <2>2. \A k \in Sessions : /\ req'[k].pc # "idle" => req'[k].doc \in Documents
                            /\ req'[k].running => req'[k].active # NoJob
    BY <1>s
  <2>3. \A k \in Sessions : \A j \in {req'[k].active, req'[k].latest} \ {NoJob} :
           j < nextId /\ jobDoc[j] = req'[k].doc
    <3> SUFFICES ASSUME NEW k \in Sessions, NEW j \in {req'[k].active, req'[k].latest} \ {NoJob}
                 PROVE j < nextId /\ jobDoc[j] = req'[k].doc
      OBVIOUS
    <3>1. k # r /\ req'[k] = req[k]
      BY <1>s
    <3>2. QED
      BY <3>1
  <2>4. /\ jobStatus' \in [JobIds -> Statuses \cup {"ABSENT"}]
        /\ \A k \in JobIds : jobStatus'[k] = "ABSENT" <=> k >= nextId
    BY <1>s
  <2>5. shared' \subseteq JobIds
    BY <1>s DEF Overwritten
  <2>6. /\ run' \in [Runners -> JobIds \cup {NoJob}]
        /\ \A x \in Runners : run'[x] # NoJob => run'[x] < nextId
    <3>1. CASE run' = run
      BY <3>1
    <3>2. CASE r \in Scripts /\ run' = [run EXCEPT ![r] = i]
      <4>1. run' \in [Runners -> JobIds \cup {NoJob}]
        BY <3>2
      <4>2. \A x \in Runners : run'[x] = run[x] \/ run'[x] = i
        BY <3>2
      <4>3. QED
        BY <1>s, <4>1, <4>2
    <3>3. QED
      BY <1>s, <3>1, <3>2
  <2>7. QED
    BY <1>s, <2>1, <2>2, <2>3, <2>4, <2>5, <2>6
<1>4. ASSUME NEW r \in Requests, RequestRetry(r) PROVE TypeOK'
  <2>1. req' = [req EXCEPT ![r] = IdleRequest] /\ r \in Sessions
    BY <1>4 DEF RequestRetry
  <2>2. req[r].latest \in JobIds /\ req[r].latest < nextId
    BY <1>4 DEF RequestRetry
  <2>3. UNCHANGED <<jobDoc, nextId, run, blocked, abandoned>>
    BY <1>4 DEF RequestRetry
  <2>4. CASE ActiveJobs(req[r].doc) \ {req[r].latest} = {}
    <3>1. /\ jobStatus' = [jobStatus EXCEPT ![req[r].latest] = "RETRY"]
          /\ shared' = shared \cup Overwritten(req[r].latest)
      BY <1>4, <2>4 DEF RequestRetry
    <3>2. Sets(r, req[r].latest, "RETRY")
      BY <2>1, <2>2, <2>3, <3>1
    <3> HIDE DEF Sets, TypeOK, JobIds, Sessions
    <3>3. QED
      BY <1>s, <2>1, <2>2, <3>2
  <2>5. CASE ActiveJobs(req[r].doc) \ {req[r].latest} # {}
    BY <1>4, <1>i, <2>1, <2>3, <2>5 DEF RequestRetry
  <2>6. QED
    BY <2>4, <2>5
(* A row is inserted.                                                       *)
<1> DEFINE Adds(r, st) == /\ nextId <= MaxJobs /\ req[r].doc \in Documents /\ st \in ActiveStatuses
                          /\ req' = [req EXCEPT ![r] = IdleRequest]
                          /\ jobDoc' = [jobDoc EXCEPT ![nextId] = req[r].doc]
                          /\ jobStatus' = [jobStatus EXCEPT ![nextId] = st]
                          /\ nextId' = nextId + 1
                          /\ \/ run' = run
                             \/ r \in Scripts /\ run' = [run EXCEPT ![r] = nextId]
                          /\ UNCHANGED <<blocked, shared, abandoned>>
<1>n. ASSUME NEW r \in Sessions, NEW st, Adds(r, st) PROVE TypeOK'
  <2>1. req' \in [Sessions -> Request] /\ nextId \in JobIds
    BY <1>n
  <2>2. \A k \in Sessions : /\ req'[k].pc # "idle" => req'[k].doc \in Documents
                            /\ req'[k].running => req'[k].active # NoJob
    BY <1>n
  <2>3. \A k \in Sessions : \A j \in {req'[k].active, req'[k].latest} \ {NoJob} :
           j < nextId' /\ jobDoc'[j] = req'[k].doc
    <3> SUFFICES ASSUME NEW k \in Sessions, NEW j \in {req'[k].active, req'[k].latest} \ {NoJob}
                 PROVE j < nextId' /\ jobDoc'[j] = req'[k].doc
      OBVIOUS
    <3>1. k # r /\ req'[k] = req[k]
      BY <1>n
    <3>2. j < nextId /\ jobDoc[j] = req[k].doc /\ j \in JobIds
      BY <3>1
    <3>3. jobDoc'[j] = jobDoc[j]
      BY <1>n, <2>1, <3>2
    <3>4. QED
      BY <1>n, <2>1, <3>1, <3>2, <3>3
  <2>4. \A j \in JobIds : /\ jobStatus'[j] = "ABSENT" <=> j >= nextId'
                          /\ jobDoc'[j] = NoDocument <=> j >= nextId'
    BY <1>n, <2>1
  <2>5. /\ jobDoc' \in [JobIds -> Documents \cup {NoDocument}]
        /\ jobStatus' \in [JobIds -> Statuses \cup {"ABSENT"}]
        /\ nextId' \in 1..(MaxJobs + 1)
    <3>1. jobDoc' \in [JobIds -> Documents \cup {NoDocument}]
      BY <1>n, <2>1
    <3>2. jobStatus' \in [JobIds -> Statuses \cup {"ABSENT"}]
      BY <1>n, <2>1
    <3>3. nextId' \in 1..(MaxJobs + 1)
      BY <1>n
    <3>4. QED
      BY <3>1, <3>2, <3>3
  <2>6. /\ run' \in [Runners -> JobIds \cup {NoJob}]
        /\ \A x \in Runners : run'[x] # NoJob => run'[x] < nextId'
    <3>1. CASE run' = run
      BY <1>n, <2>1, <3>1
    <3>2. CASE r \in Scripts /\ run' = [run EXCEPT ![r] = nextId]
      <4>1. run' \in [Runners -> JobIds \cup {NoJob}]
        BY <2>1, <3>2
      <4>2. \A x \in Runners : run'[x] = run[x] \/ run'[x] = nextId
        BY <3>2
      <4>3. QED
        BY <1>n, <4>1, <4>2
    <3>3. QED
      BY <1>n, <3>1, <3>2
  <2>7. blocked' \subseteq Documents /\ shared' \subseteq JobIds /\ abandoned' \subseteq JobIds
    BY <1>n
  <2>8. QED
    BY <2>1, <2>2, <2>3, <2>4, <2>5, <2>6, <2>7
<1>5. ASSUME NEW r \in Requests, RequestInsert(r) PROVE TypeOK'
  <2>1. /\ req' = [req EXCEPT ![r] = IdleRequest]
        /\ req[r].doc \in Documents /\ r \in Sessions
    BY <1>5 DEF RequestInsert
  <2>2. CASE ActiveJobs(req[r].doc) # {}
    BY <1>5, <1>i, <2>1, <2>2 DEF RequestInsert
  <2>3. CASE ActiveJobs(req[r].doc) = {}
    <3>1. Adds(r, "QUEUED")
      BY <1>5, <2>1, <2>3 DEF RequestInsert
    <3> HIDE DEF Adds, TypeOK, Sessions
    <3>2. QED
      BY <1>n, <2>1, <3>1
  <2>4. QED
    BY <2>2, <2>3
<1>6. ASSUME NEW r \in Sessions, RequestRollback(r) PROVE TypeOK'
  BY <1>i, <1>6 DEF RequestRollback
<1>7. ASSUME NEW w \in Workers, NEW j \in JobIds, ClaimRejects(w, j) PROVE TypeOK'
  BY <1>7 DEF ClaimRejects, Claimable
<1>8. ASSUME NEW w \in Workers, NEW j \in JobIds, NEW c \in JobIds, ClaimStarts(w, j, c)
      PROVE TypeOK'
  BY <1>8 DEF ClaimStarts, Claimable, IsCanonical, ActiveJobs, ProcessingJobs, JobsOf
<1>9. ASSUME NEW x \in Runners, NEW outcome \in DoneStatuses, Finish(x, outcome) PROVE TypeOK'
  BY <1>9 DEF Finish
<1>10. ASSUME NEW x \in Runners, Abandon(x) PROVE TypeOK'
  BY <1>10 DEF Abandon
<1>11. ASSUME NEW s \in Scripts, NEW i \in JobIds, i < nextId,
              run' = [run EXCEPT ![s] = i], shared' = shared \cup {i},
              req' = [req EXCEPT ![s] = IdleRequest],
              UNCHANGED <<jobDoc, jobStatus, nextId, blocked, abandoned>>
       PROVE TypeOK'
  <2>1. req' \in [Sessions -> Request]
    BY <1>11
  <2>2. \A k \in Sessions : /\ req'[k].pc # "idle" => req'[k].doc \in Documents
                            /\ req'[k].running => req'[k].active # NoJob
                            /\ \A j \in {req'[k].active, req'[k].latest} \ {NoJob} :
                                 j < nextId /\ jobDoc[j] = req'[k].doc
    <3> SUFFICES ASSUME NEW k \in Sessions
                 PROVE /\ req'[k].pc # "idle" => req'[k].doc \in Documents
                       /\ req'[k].running => req'[k].active # NoJob
                       /\ \A j \in {req'[k].active, req'[k].latest} \ {NoJob} :
                            j < nextId /\ jobDoc[j] = req'[k].doc
      OBVIOUS
    <3>1. CASE k = s
      BY <1>11, <3>1
    <3>2. CASE k # s
      BY <1>11, <3>2
    <3>3. QED
      BY <3>1, <3>2
  <2>3. /\ run' \in [Runners -> JobIds \cup {NoJob}]
        /\ \A x \in Runners : run'[x] # NoJob => run'[x] < nextId
    BY <1>11
  <2>4. QED
    BY <1>11, <2>1, <2>2, <2>3
<1>12. ASSUME NEW s \in Scripts, ScriptJoins(s) \/ \E c \in JobIds : ScriptRunsOther(s, c)
       PROVE TypeOK'
  <2>1. CASE ScriptJoins(s)
    <3>1. req[s].active \in JobIds /\ req[s].active < nextId
      BY <2>1 DEF ScriptJoins
    <3>2. QED
      BY <1>11, <2>1, <3>1 DEF ScriptJoins
  <2>2. ASSUME NEW c \in JobIds, ScriptRunsOther(s, c) PROVE TypeOK'
    <3>1. c < nextId
      BY <1>l, <2>2 DEF ScriptRunsOther
    <3>2. QED
      BY <1>11, <2>2, <3>1 DEF ScriptRunsOther
  <2>3. QED
    BY <1>12, <2>1, <2>2
<1>13. ASSUME NEW s \in Scripts, NEW i \in JobIds, i < nextId, Starts(s, i) PROVE TypeOK'
  <2>1. CASE ActiveJobs(req[s].doc) \ {i} = {}
    <3>1. Sets(s, i, "PROCESSING") /\ s \in Sessions
      BY <1>13, <2>1 DEF Starts
    <3> HIDE DEF Sets, TypeOK, JobIds, Sessions
    <3>2. QED
      BY <1>s, <1>13, <3>1
  <2>2. CASE ActiveJobs(req[s].doc) \ {i} # {}
    <3>1. /\ req' = [req EXCEPT ![s].pc = "refused"]
          /\ UNCHANGED <<jobDoc, jobStatus, nextId, run, blocked, shared, abandoned>>
      BY <1>13, <2>2 DEF Starts
    <3>0. s \in Sessions /\ req[s] \in Request
      OBVIOUS
    <3>2. PICK q \in Request : q = [req[s] EXCEPT !.pc = "refused"]
      BY <3>0
    <3>3. req' = [req EXCEPT ![s] = q]
      BY <3>1, <3>2
    <3>4. q.active = req[s].active /\ q.latest = req[s].latest /\ q.doc = req[s].doc
          /\ (q.running => q.active # NoJob)
      BY <3>2
    <3>5. req[s].pc # "idle" => q.doc \in Documents
      BY <3>4
    <3>6. req[s].doc \in Documents
      BY <1>13, <2>2, NoDocumentAssumption DEF ActiveJobs, JobsOf
    <3>7. \A j \in {q.active, q.latest} \ {NoJob} : j < nextId /\ jobDoc[j] = q.doc
      BY <3>0, <3>4
    <3> HIDE DEF TypeOK, JobIds, Runners, Sessions, Statuses, ActiveStatuses, QueueableStatuses,
             DoneStatuses, Request, IdleRequest
    <3>8. QED
      BY <1>0, <3>0, <3>1, <3>3, <3>4, <3>6, <3>7
  <2>3. QED
    BY <2>1, <2>2
<1>16. ASSUME NEW s \in Scripts, ScriptMarks(s) \/ ScriptRetries(s) PROVE TypeOK'
  <2>1. CASE ScriptMarks(s)
    BY <1>13, <2>1 DEF ScriptMarks
  <2>2. CASE ScriptRetries(s)
    BY <1>13, <2>2 DEF ScriptRetries
  <2>3. QED
    BY <1>16, <2>1, <2>2
<1>17. ASSUME NEW s \in Scripts, ScriptInserts(s) PROVE TypeOK'
  <2>1. req[s].doc \in Documents
    BY <1>17 DEF ScriptInserts
  <2>2. CASE ActiveJobs(req[s].doc) = {}
    <3>1. Adds(s, "PROCESSING") /\ s \in Sessions
      BY <1>17, <2>1, <2>2 DEF ScriptInserts
    <3> HIDE DEF Adds, TypeOK, Sessions
    <3>2. QED
      BY <1>n, <3>1
  <2>3. CASE ActiveJobs(req[s].doc) # {}
    <3>0. s \in Sessions /\ req[s] \in Request
      OBVIOUS
    <3>1. PICK q \in Request : q = [req[s] EXCEPT !.pc = "refused"]
      BY <3>0
    <3>2. req' = [req EXCEPT ![s] = q]
      BY <1>17, <2>3, <3>1 DEF ScriptInserts
    <3>3. q.active = req[s].active /\ q.latest = req[s].latest /\ q.doc = req[s].doc
          /\ (q.running => q.active # NoJob)
      BY <3>1
    <3>4. UNCHANGED <<jobDoc, jobStatus, nextId, run, blocked, shared, abandoned>>
      BY <1>17, <2>3 DEF ScriptInserts
    <3>5. QED
      BY <1>0, <2>1, <3>2, <3>3, <3>4
  <2>4. QED
    BY <2>2, <2>3
<1>18. ASSUME NEW s \in Scripts, NEW c \in JobIds, ScriptReadsAgain(s, c) PROVE TypeOK'
  <2>1. c < nextId /\ jobDoc[c] = req[s].doc /\ req[s].doc \in Documents
    BY <1>18 DEF ScriptReadsAgain, IsCanonical, ActiveJobs, JobsOf
  <2>0. s \in Sessions /\ req[s] \in Request
    OBVIOUS
  <2> DEFINE q == [pc |-> "checked", doc |-> req[s].doc, retry |-> TRUE, active |-> c,
                   running |-> c \in ProcessingJobs(req[s].doc), latest |-> NoJob]
  <2>2. q \in Request /\ q.active = c /\ q.latest = NoJob /\ q.doc = req[s].doc
    BY <2>0
  <2>3. req' = [req EXCEPT ![s] = q]
    BY <1>18 DEF ScriptReadsAgain
  <2> HIDE DEF q
  <2>4. UNCHANGED <<jobDoc, jobStatus, nextId, run, blocked, shared, abandoned>>
    BY <1>18 DEF ScriptReadsAgain
  <2>5. q.running => q.active # NoJob
    BY <2>2
  <2>6. \A j \in {q.active, q.latest} \ {NoJob} : j < nextId /\ jobDoc[j] = q.doc
    BY <2>1, <2>2
  <2>7. QED
    BY <1>0, <2>0, <2>1, <2>2, <2>3, <2>4, <2>5, <2>6
<1>14. ASSUME NEW d \in Documents, ToggleBlocked(d) PROVE TypeOK'
  BY <1>14 DEF ToggleBlocked
<1>15. CASE UNCHANGED vars
  BY <1>15 DEF vars
<1> HIDE DEF TypeOK, JobIds, Runners, DoneStatuses, Request, IdleRequest, Statuses
<1>19. ASSUME NEW s \in Scripts, ScriptStep(s) PROVE TypeOK'
  BY <1>1, <1>3, <1>6, <1>12, <1>16, <1>17, <1>18, <1>19 DEF ScriptStep, ScriptChecksActive
<1>20. ASSUME NEW r \in Requests, RequestStep(r) PROVE TypeOK'
  BY <1>1, <1>2, <1>3, <1>4, <1>5, <1>6, <1>20 DEF RequestStep
<1>21. QED
  BY <1>7, <1>8, <1>9, <1>10, <1>14, <1>15, <1>19, <1>20 DEF Next, Claim, FinishRun

-----------------------------------------------------------------------------
(* A row becomes active only where the unique index finds no other one. *)
LEMMA OneActiveStep == IInv /\ [Next]_vars => OneActiveJob'
<1> SUFFICES ASSUME IInv, [Next]_vars PROVE OneActiveJob'
  OBVIOUS
<1> SUFFICES ASSUME NEW j \in JobIds, NEW k \in JobIds,
                    jobDoc'[j] \in Documents, jobDoc'[j] = jobDoc'[k],
                    jobStatus'[j] \in ActiveStatuses, jobStatus'[k] \in ActiveStatuses
             PROVE j = k
  BY DEF OneActiveJob, ActiveJobs, JobsOf
<1>a. /\ TypeOK
      /\ \A a, b \in JobIds : /\ jobDoc[a] \in Documents /\ jobDoc[a] = jobDoc[b]
                              /\ jobStatus[a] \in ActiveStatuses
                              /\ jobStatus[b] \in ActiveStatuses
                              => a = b
  BY DEF IInv, OneActiveJob, ActiveJobs, JobsOf
<1>1. CASE UNCHANGED <<jobDoc, jobStatus>>
  BY <1>a, <1>1
<1>2. ASSUME NEW r \in Requests, RequestRetry(r) PROVE j = k
  <2>1. jobDoc' = jobDoc
    BY <1>2 DEF RequestRetry
  <2>2. CASE jobStatus' = jobStatus
    BY <1>a, <2>1, <2>2
  <2>3. CASE /\ ActiveJobs(req[r].doc) \ {req[r].latest} = {}
             /\ jobStatus' = [jobStatus EXCEPT ![req[r].latest] = "RETRY"]
    <3>1. req[r].latest \in JobIds /\ jobDoc[req[r].latest] = req[r].doc
      BY <1>a, <1>2 DEF RequestRetry, TypeOK, Request, Sessions
    <3>2. \A i \in {j, k} : i # req[r].latest =>
             jobStatus[i] = jobStatus'[i] /\ jobDoc[i] # req[r].doc
      BY <2>1, <2>3, <1>a DEF TypeOK, ActiveJobs, JobsOf
    <3>3. QED
      BY <1>a, <2>1, <3>1, <3>2
  <2>4. QED
    BY <1>2, <2>2, <2>3 DEF RequestRetry
<1>3. ASSUME NEW d \in Documents, NEW st \in {"QUEUED", "PROCESSING"},
             ActiveJobs(d) = {}, nextId \in JobIds,
             jobDoc' = [jobDoc EXCEPT ![nextId] = d],
             jobStatus' = [jobStatus EXCEPT ![nextId] = st]
      PROVE j = k
  <2>1. \A i \in {j, k} : i # nextId =>
           jobStatus[i] = jobStatus'[i] /\ jobDoc[i] = jobDoc'[i] /\ jobDoc[i] # d
    BY <1>a, <1>3 DEF TypeOK, ActiveJobs, JobsOf
  <2>2. jobDoc'[nextId] = d
    BY <1>a, <1>3 DEF TypeOK
  <2>3. QED
    BY <1>a, <2>1, <2>2
<1>4. ASSUME NEW r \in Requests, RequestInsert(r) PROVE j = k
  <2>1. CASE ActiveJobs(req[r].doc) = {}
    <3>1. req[r].doc \in Documents /\ nextId \in JobIds
      BY <1>a, <1>4, <2>1, MaxJobsAssumption DEF TypeOK, RequestInsert, JobIds, Sessions
    <3>2. QED
      BY <1>3, <1>4, <2>1, <3>1 DEF RequestInsert
  <2>2. QED
    BY <1>1, <1>4, <2>1 DEF RequestInsert
<1>5. ASSUME jobDoc' = jobDoc,
             \A i \in JobIds : jobStatus'[i] \in ActiveStatuses => jobStatus[i] \in ActiveStatuses
      PROVE j = k
  BY <1>a, <1>5
<1>6. ASSUME NEW w \in Workers, NEW i \in JobIds, ClaimRejects(w, i) PROVE j = k
  BY <1>a, <1>5, <1>6 DEF ClaimRejects, TypeOK, ActiveStatuses, QueueableStatuses
<1>7. ASSUME NEW w \in Workers, NEW i \in JobIds, NEW c \in JobIds, ClaimStarts(w, i, c)
      PROVE j = k
  <2>1. jobStatus[c] \in ActiveStatuses
    BY <1>7 DEF ClaimStarts, IsCanonical, ActiveJobs
  <2>2. \A n \in JobIds : jobStatus'[n] \in ActiveStatuses => jobStatus[n] \in ActiveStatuses
    BY <1>7, <2>1 DEF ClaimStarts, ActiveStatuses, QueueableStatuses
  <2>3. QED
    BY <1>5, <1>7, <2>2 DEF ClaimStarts
<1>8. ASSUME NEW x \in Runners, NEW outcome \in DoneStatuses, Finish(x, outcome) PROVE j = k
  <2>1. \A n \in JobIds : jobStatus'[n] \in ActiveStatuses => jobStatus[n] \in ActiveStatuses
    BY <1>a, <1>8 DEF Finish, TypeOK, ActiveStatuses, QueueableStatuses, DoneStatuses
  <2>2. QED
    BY <1>5, <1>8, <2>1 DEF Finish
<1>9. ASSUME NEW s \in Scripts, NEW i \in JobIds, jobDoc[i] = req[s].doc, Starts(s, i)
      PROVE j = k
  <2>1. jobDoc' = jobDoc
    BY <1>9 DEF Starts
  <2>2. CASE ActiveJobs(req[s].doc) \ {i} = {}
    <3>1. jobStatus' = [jobStatus EXCEPT ![i] = "PROCESSING"]
      BY <1>9, <2>2 DEF Starts
    <3>2. \A n \in {j, k} : n # i => jobStatus[n] = jobStatus'[n] /\ jobDoc[n] # req[s].doc
      BY <1>a, <2>1, <2>2, <3>1 DEF TypeOK, ActiveJobs, JobsOf
    <3>3. QED
      BY <1>a, <1>9, <2>1, <3>1, <3>2
  <2>3. QED
    BY <1>1, <1>9, <2>1, <2>2 DEF Starts
<1>10. ASSUME NEW s \in Scripts, ScriptMarks(s) \/ ScriptRetries(s) PROVE j = k
  <2>1. CASE ScriptMarks(s)
    <3>1. req[s].active \in JobIds /\ jobDoc[req[s].active] = req[s].doc
      BY <1>a, <2>1 DEF TypeOK, ScriptMarks, Request, Sessions
    <3>2. QED
      BY <1>9, <2>1, <3>1 DEF ScriptMarks
  <2>2. CASE ScriptRetries(s)
    <3>1. req[s].latest \in JobIds /\ jobDoc[req[s].latest] = req[s].doc
      BY <1>a, <2>2 DEF TypeOK, ScriptRetries, Request, Sessions
    <3>2. QED
      BY <1>9, <2>2, <3>1 DEF ScriptRetries
  <2>3. QED
    BY <1>10, <2>1, <2>2
<1>11. ASSUME NEW s \in Scripts, ScriptInserts(s) PROVE j = k
  <2>1. CASE ActiveJobs(req[s].doc) = {}
    <3>1. nextId \in JobIds /\ req[s].doc \in Documents
      BY <1>a, <1>11, <2>1, MaxJobsAssumption DEF TypeOK, ScriptInserts, JobIds, Sessions
    <3>2. QED
      BY <1>3, <1>11, <2>1, <3>1 DEF ScriptInserts
  <2>2. QED
    BY <1>1, <1>11, <2>1 DEF ScriptInserts
<1>12. CASE UNCHANGED vars
  BY <1>1, <1>12 DEF vars
<1>13. ASSUME NEW r \in Requests, RequestStep(r) PROVE j = k
  BY <1>1, <1>2, <1>4, <1>13
  DEF RequestStep, RequestCheckActive, RequestReuse, RequestReadLatest, RequestRollback
<1>14. ASSUME NEW x \in Runners, Abandon(x) PROVE j = k
  BY <1>1, <1>14 DEF Abandon
<1>15. ASSUME NEW d \in Documents, ToggleBlocked(d) PROVE j = k
  BY <1>1, <1>15 DEF ToggleBlocked
<1>16. ASSUME NEW s \in Scripts, ScriptStep(s) PROVE j = k
  BY <1>1, <1>10, <1>11, <1>16
  DEF ScriptStep, ScriptChecksActive, RequestCheckActive, RequestReadLatest, ScriptJoins,
      ScriptReadsAgain, ScriptRunsOther, RequestRollback
<1>17. QED
  BY <1>6, <1>7, <1>8, <1>12, <1>13, <1>14, <1>15, <1>16
  DEF Next, Claim, FinishRun

-----------------------------------------------------------------------------
(* A job that is being run, and was not shared, keeps its status and is not  *)
(* handed to a second runner.                                                *)
LEMMA ExclusiveStep == IInv /\ [Next]_vars => ExclusiveRun'
<1> SUFFICES ASSUME IInv, [Next]_vars,
                    NEW x \in Runners, run'[x] # NoJob, run'[x] \notin shared'
             PROVE  /\ jobStatus'[run'[x]] = "PROCESSING"
                    /\ \A y \in Runners : run'[y] = run'[x] => y = x
  BY DEF ExclusiveRun
<1> DEFINE Goal == /\ jobStatus'[run'[x]] = "PROCESSING"
                   /\ \A y \in Runners : run'[y] = run'[x] => y = x
<1>a. /\ TypeOK /\ TypeOK'
      /\ \A z \in Runners : run[z] # NoJob => run[z] \in JobIds
      /\ \A z \in Runners : run[z] # NoJob /\ run[z] \notin shared =>
           /\ jobStatus[run[z]] = "PROCESSING"
           /\ \A y \in Runners : run[y] = run[z] => y = z
  BY TypeStep DEF IInv, ExclusiveRun, TypeOK
<1>b. \A i, k \in JobIds : /\ jobDoc[i] \in Documents /\ jobDoc[i] = jobDoc[k]
                           /\ jobStatus[i] \in ActiveStatuses /\ jobStatus[k] \in ActiveStatuses
                           => i = k
  BY DEF IInv, OneActiveJob, ActiveJobs, JobsOf
<1>1. ASSUME run' = run, shared \subseteq shared',
             \A i \in JobIds : jobStatus[i] = "PROCESSING" =>
               jobStatus'[i] = "PROCESSING" \/ i \in shared'
      PROVE Goal
  BY <1>a, <1>1
<1>2. ASSUME NEW r \in Requests, RequestRetry(r) PROVE Goal
  <2>1. \A i \in JobIds : jobStatus[i] = "PROCESSING" =>
          jobStatus'[i] = "PROCESSING" \/ i \in shared'
    BY <1>a, <1>2 DEF RequestRetry, Overwritten, QueueableStatuses, TypeOK
  <2>2. run' = run /\ shared \subseteq shared'
    BY <1>2 DEF RequestRetry
  <2>3. QED
    BY <1>1, <2>1, <2>2
<1>3. ASSUME NEW r \in Requests, RequestInsert(r) PROVE Goal
  <2>1. \A i \in JobIds : jobStatus[i] = "PROCESSING" => jobStatus'[i] = "PROCESSING"
    BY <1>a, <1>3 DEF RequestInsert, TypeOK
  <2>2. run' = run /\ shared' = shared
    BY <1>3 DEF RequestInsert
  <2>3. QED
    BY <1>1, <2>1, <2>2
<1>4. ASSUME NEW w \in Workers, NEW i \in JobIds, ClaimRejects(w, i) PROVE Goal
  <2>1. \A n \in JobIds : jobStatus[n] = "PROCESSING" => jobStatus'[n] = "PROCESSING"
    BY <1>a, <1>4 DEF ClaimRejects, Claimable, TypeOK, QueueableStatuses
  <2>2. run' = run /\ shared' = shared
    BY <1>4 DEF ClaimRejects
  <2>3. QED
    BY <1>1, <2>1, <2>2
(* The claimed job is the only active one of its document, so it is the row   *)
(* found queued: nobody runs it, and nobody else's job is failed.            *)
<1>5. ASSUME NEW w \in Workers, NEW i \in JobIds, NEW c \in JobIds, ClaimStarts(w, i, c)
      PROVE Goal
  <2>1. /\ run' = [run EXCEPT ![w] = c] /\ shared' = shared
        /\ run[w] = NoJob /\ w \in Runners
    BY <1>5 DEF ClaimStarts, Runners
  <2>2. /\ jobStatus[i] \in QueueableStatuses /\ jobStatus[i] # "ABSENT"
        /\ jobDoc[i] \in Documents
    BY <1>a, <1>5 DEF ClaimStarts, Claimable, TypeOK, QueueableStatuses
  <2>3. c = i /\ ActiveJobs(jobDoc[i]) \ {c} = {}
    BY <1>b, <1>5, <2>2 DEF ClaimStarts, IsCanonical, ActiveJobs, JobsOf, ActiveStatuses
  <2>4. jobStatus' = [jobStatus EXCEPT ![i] = "PROCESSING"]
    BY <1>a, <1>5, <2>3 DEF ClaimStarts, TypeOK
  <2>5. \A z \in Runners : run[z] = i => i \in shared
    BY <1>a, <2>2, MaxJobsAssumption DEF QueueableStatuses, JobIds
  <2>6. run \in [Runners -> JobIds \cup {NoJob}] /\ jobStatus \in [JobIds -> Statuses \cup {"ABSENT"}]
    BY <1>a DEF TypeOK
  <2>7. CASE x = w
    <3>1. run'[x] = i
      BY <2>1, <2>3, <2>6, <2>7
    <3>2. \A y \in Runners : y # w => run'[y] # i
      BY <2>1, <2>5, <2>6, <3>1
    <3>3. QED
      BY <2>4, <2>6, <2>7, <3>1, <3>2
  <2>8. CASE x # w
    <3>1. run'[x] = run[x] /\ run[x] # i
      BY <2>1, <2>5, <2>6, <2>8
    <3>2. \A y \in Runners : run'[y] = run'[x] => y # w /\ run[y] = run[x]
      BY <2>1, <2>3, <2>6, <3>1
    <3>3. run[x] \in JobIds /\ jobStatus'[run[x]] = jobStatus[run[x]]
      BY <1>a, <2>4, <2>6, <3>1
    <3>4. QED
      BY <1>a, <2>1, <3>1, <3>2, <3>3
  <2>9. QED
    BY <2>7, <2>8
<1>6. ASSUME NEW z \in Runners, run[z] # NoJob, run' = [run EXCEPT ![z] = NoJob],
             shared' = shared,
             \A i \in JobIds : i # run[z] => jobStatus'[i] = jobStatus[i]
      PROVE Goal
  <2>1. x # z /\ run'[x] = run[x] /\ \A y \in Runners : run'[y] = run'[x] => run[y] = run[x]
    BY <1>a, <1>6 DEF TypeOK
  <2>2. QED
    BY <1>a, <1>6, <2>1
<1>7. ASSUME NEW z \in Runners, NEW outcome \in DoneStatuses, Finish(z, outcome) PROVE Goal
  <2>1. \A i \in JobIds : i # run[z] => jobStatus'[i] = jobStatus[i]
    BY <1>a, <1>7 DEF Finish, TypeOK
  <2>2. QED
    BY <1>6, <1>7, <2>1 DEF Finish
<1>8. ASSUME NEW z \in Runners, Abandon(z) PROVE Goal
  BY <1>6, <1>8 DEF Abandon
(* A script takes a row nobody runs, or makes it shared. *)
<1>9. ASSUME NEW s \in Scripts, NEW i \in JobIds, run' = [run EXCEPT ![s] = i],
             shared \subseteq shared', i \in shared' \/ jobStatus[i] # "PROCESSING",
             jobStatus' = [jobStatus EXCEPT ![i] = "PROCESSING"] \/ jobStatus' = jobStatus,
             i \in shared' \/ jobStatus'[i] = "PROCESSING"
      PROVE Goal
  <2>1. s \in Runners /\ \A z \in Runners : run[z] = i => i \in shared'
    BY <1>a, <1>9, MaxJobsAssumption DEF Runners, JobIds
  <2>2. run \in [Runners -> JobIds \cup {NoJob}] /\ jobStatus \in [JobIds -> Statuses \cup {"ABSENT"}]
    BY <1>a DEF TypeOK
  <2>3. CASE x = s
    BY <1>9, <2>1, <2>2, <2>3
  <2>4. CASE x # s
    <3>1. run'[x] = run[x] /\ run[x] # i
      BY <1>9, <2>1, <2>2, <2>4
    <3>2. \A y \in Runners : run'[y] = run'[x] => run[y] = run[x]
      BY <1>9, <2>1, <2>2, <3>1
    <3>3. run[x] \in JobIds /\ jobStatus'[run[x]] = jobStatus[run[x]]
      BY <1>a, <1>9, <2>2, <3>1
    <3>4. QED
      BY <1>a, <1>9, <3>1, <3>2, <3>3
  <2>5. QED
    BY <2>3, <2>4
<1>10. ASSUME NEW s \in Scripts, NEW i \in JobIds, Starts(s, i) PROVE Goal
  <2>1. CASE ActiveJobs(req[s].doc) \ {i} = {}
    BY <1>a, <1>9, <1>10, <2>1 DEF Starts, Overwritten, QueueableStatuses, TypeOK
  <2>2. CASE ActiveJobs(req[s].doc) \ {i} # {}
    BY <1>1, <1>10, <2>2 DEF Starts
  <2>3. QED
    BY <2>1, <2>2
<1>11. ASSUME NEW s \in Scripts, ScriptMarks(s) \/ ScriptRetries(s) PROVE Goal
  BY <1>a, <1>10, <1>11 DEF ScriptMarks, ScriptRetries, TypeOK, Request, Sessions
<1>12. ASSUME NEW s \in Scripts, ScriptInserts(s) PROVE Goal
  <2>1. CASE ActiveJobs(req[s].doc) = {}
    <3>1. nextId \in JobIds /\ jobStatus[nextId] = "ABSENT"
      BY <1>a, <1>12, <2>1, MaxJobsAssumption DEF TypeOK, ScriptInserts, JobIds
    <3>2. jobStatus' = [jobStatus EXCEPT ![nextId] = "PROCESSING"] /\ run' = [run EXCEPT ![s] = nextId]
      BY <1>12, <2>1 DEF ScriptInserts
    <3>3. jobStatus'[nextId] = "PROCESSING" /\ shared' = shared
      BY <1>a, <1>12, <3>1, <3>2 DEF ScriptInserts, TypeOK
    <3>4. QED
      BY <1>9, <3>1, <3>2, <3>3
  <2>2. CASE ActiveJobs(req[s].doc) # {}
    BY <1>1, <1>12, <2>2 DEF ScriptInserts
  <2>3. QED
    BY <2>1, <2>2
<1>17. ASSUME NEW s \in Scripts, ScriptJoins(s) \/ \E c \in JobIds : ScriptRunsOther(s, c)
       PROVE Goal
  <2>1. CASE ScriptJoins(s)
    <3>1. req[s].active \in JobIds
      BY <1>a, <2>1 DEF ScriptJoins, TypeOK, Request, Sessions
    <3>2. QED
      BY <1>9, <2>1, <3>1 DEF ScriptJoins
  <2>2. ASSUME NEW c \in JobIds, ScriptRunsOther(s, c) PROVE Goal
    BY <1>9, <2>2 DEF ScriptRunsOther
  <2>3. QED
    BY <1>17, <2>1, <2>2
<1>13. ASSUME NEW r \in Requests, RequestStep(r) PROVE Goal
  BY <1>1, <1>2, <1>3, <1>13
  DEF RequestStep, RequestCheckActive, RequestReuse, RequestReadLatest, RequestRollback
<1>14. ASSUME NEW d \in Documents, ToggleBlocked(d) PROVE Goal
  BY <1>1, <1>14 DEF ToggleBlocked
<1>15. CASE UNCHANGED vars
  BY <1>1, <1>15 DEF vars
<1>16. ASSUME NEW s \in Scripts, ScriptStep(s) PROVE Goal
  BY <1>1, <1>11, <1>12, <1>16, <1>17
  DEF ScriptStep, ScriptChecksActive, RequestCheckActive, RequestReadLatest, ScriptReadsAgain,
      RequestRollback
<1>18. QED
  BY <1>4, <1>5, <1>7, <1>8, <1>13, <1>14, <1>15, <1>16
  DEF Next, Claim, FinishRun

-----------------------------------------------------------------------------
(* Every step that turns a row PROCESSING gives it a runner, and every step  *)
(* that takes its runner away ends or abandons it.                           *)
LEMMA ProcessingStep == IInv /\ [Next]_vars => ProcessingIsRun'
<1> SUFFICES ASSUME IInv, [Next]_vars,
                    NEW j \in JobIds, jobStatus'[j] = "PROCESSING", j \notin abandoned'
             PROVE  \E x \in Runners : run'[x] = j
  BY DEF ProcessingIsRun
<1> DEFINE Goal == \E x \in Runners : run'[x] = j
<1>a. /\ run \in [Runners -> JobIds \cup {NoJob}]
      /\ jobStatus \in [JobIds -> Statuses \cup {"ABSENT"}]
      /\ j # NoJob
      /\ jobStatus[j] = "PROCESSING" /\ j \notin abandoned => \E x \in Runners : run[x] = j
  BY MaxJobsAssumption DEF IInv, TypeOK, ProcessingIsRun, JobIds
<1>1. ASSUME run' = run, abandoned' = abandoned, jobStatus'[j] = jobStatus[j] PROVE Goal
  BY <1>a, <1>1
<1>2. ASSUME NEW r \in Requests, RequestStep(r) PROVE Goal
  <2>1. run' = run /\ abandoned' = abandoned
    BY <1>2 DEF RequestStep, RequestCheckActive, RequestReuse, RequestReadLatest, RequestRetry,
                RequestInsert, RequestRollback
  <2>2. jobStatus'[j] = jobStatus[j]
    BY <1>2, <1>a DEF RequestStep, RequestCheckActive, RequestReuse, RequestReadLatest, RequestRetry,
                RequestInsert, RequestRollback
  <2>3. QED
    BY <1>1, <2>1, <2>2
<1>3. ASSUME NEW w \in Workers, NEW i \in JobIds, ClaimRejects(w, i) PROVE Goal
  <2>1. run' = run /\ abandoned' = abandoned /\ jobStatus'[j] = jobStatus[j]
    BY <1>3, <1>a DEF ClaimRejects
  <2>2. QED
    BY <1>1, <2>1
<1>4. ASSUME NEW x \in Runners, NEW i \in JobIds, run[x] = NoJob,
             run' = [run EXCEPT ![x] = i], abandoned' = abandoned,
             i = j \/ jobStatus'[j] = jobStatus[j]
      PROVE Goal
  <2>1. run'[x] = i /\ \A y \in Runners : y # x => run'[y] = run[y]
    BY <1>a, <1>4
  <2>2. QED
    BY <1>a, <1>4, <2>1
<1>5. ASSUME NEW w \in Workers, NEW i \in JobIds, NEW c \in JobIds, ClaimStarts(w, i, c)
      PROVE Goal
  <2>1. c = j \/ jobStatus'[j] = jobStatus[j]
    BY <1>5 DEF ClaimStarts
  <2>2. QED
    BY <1>4, <1>5, <2>1 DEF ClaimStarts, Runners
<1>6. ASSUME NEW x \in Runners, NEW outcome \in DoneStatuses, Finish(x, outcome) PROVE Goal
  <2>1. run[x] # j /\ jobStatus'[j] = jobStatus[j]
    BY <1>a, <1>6 DEF Finish, DoneStatuses
  <2>2. QED
    BY <1>a, <1>6, <2>1 DEF Finish
<1>7. ASSUME NEW x \in Runners, Abandon(x) PROVE Goal
  BY <1>a, <1>7 DEF Abandon
<1>8. ASSUME NEW s \in Scripts, NEW i \in JobIds, req[s].pc # "idle", Starts(s, i) PROVE Goal
  <2>1. run[s] = NoJob /\ abandoned' = abandoned
    BY <1>8 DEF Starts, IInv, AsksOrRuns
  <2>2. CASE ActiveJobs(req[s].doc) \ {i} = {}
    <3>1. run' = [run EXCEPT ![s] = i] /\ (i = j \/ jobStatus'[j] = jobStatus[j])
      BY <1>a, <1>8, <2>2 DEF Starts
    <3>2. QED
      BY <1>4, <2>1, <3>1 DEF Runners
  <2>3. CASE ActiveJobs(req[s].doc) \ {i} # {}
    BY <1>1, <1>8, <2>1, <2>3 DEF Starts
  <2>4. QED
    BY <2>2, <2>3
<1>9. ASSUME NEW s \in Scripts, ScriptMarks(s) \/ ScriptRetries(s) PROVE Goal
  BY <1>8, <1>9 DEF ScriptMarks, ScriptRetries, IInv, TypeOK, Request, Sessions
<1>10. ASSUME NEW s \in Scripts, ScriptInserts(s) PROVE Goal
  <2>1. run[s] = NoJob /\ abandoned' = abandoned
    BY <1>10 DEF ScriptInserts, IInv, AsksOrRuns
  <2>2. CASE ActiveJobs(req[s].doc) = {}
    <3>1. nextId \in JobIds /\ run' = [run EXCEPT ![s] = nextId]
      BY <1>10, <2>2, MaxJobsAssumption DEF IInv, TypeOK, ScriptInserts, JobIds
    <3>2. nextId = j \/ jobStatus'[j] = jobStatus[j]
      BY <1>a, <1>10, <2>2, <3>1 DEF ScriptInserts
    <3>3. QED
      BY <1>4, <2>1, <3>1, <3>2 DEF Runners
  <2>3. CASE ActiveJobs(req[s].doc) # {}
    BY <1>1, <1>10, <2>1, <2>3 DEF ScriptInserts
  <2>4. QED
    BY <2>2, <2>3
<1>14. ASSUME NEW s \in Scripts, ScriptJoins(s) \/ \E c \in JobIds : ScriptRunsOther(s, c)
       PROVE Goal
  <2>1. PICK i \in JobIds \cup {NoJob} : run' = [run EXCEPT ![s] = i]
    BY <1>14 DEF ScriptJoins, ScriptRunsOther, IInv, TypeOK, Request, Sessions
  <2>2. run[s] = NoJob /\ abandoned' = abandoned /\ jobStatus' = jobStatus
    BY <1>14 DEF ScriptJoins, ScriptRunsOther, IInv, AsksOrRuns
  <2>3. \A y \in Runners : run[y] # NoJob => run'[y] = run[y]
    BY <1>a, <2>1, <2>2
  <2>4. QED
    BY <1>a, <2>2, <2>3
<1>11. ASSUME NEW d \in Documents, ToggleBlocked(d) PROVE Goal
  BY <1>1, <1>11 DEF ToggleBlocked
<1>12. CASE UNCHANGED vars
  BY <1>1, <1>12 DEF vars
<1>15. ASSUME NEW s \in Scripts, ScriptStep(s) PROVE Goal
  BY <1>1, <1>9, <1>10, <1>14, <1>15
  DEF ScriptStep, ScriptChecksActive, RequestCheckActive, RequestReadLatest, ScriptReadsAgain,
      RequestRollback
<1>13. QED
  BY <1>2, <1>3, <1>5, <1>6, <1>7, <1>11, <1>12, <1>15 DEF Next, Claim, FinishRun

LEMMA AsksOrRunsStep == IInv /\ [Next]_vars => AsksOrRuns'
<1> SUFFICES ASSUME IInv, [Next]_vars, NEW s \in Scripts, req'[s].pc # "idle", run'[s] # NoJob
             PROVE  FALSE
  BY DEF AsksOrRuns
<1>a. /\ run \in [Runners -> JobIds \cup {NoJob}] /\ req \in [Sessions -> Request]
      /\ s \in Runners /\ s \in Sessions /\ (req[s].pc # "idle" => run[s] = NoJob)
  BY DEF IInv, TypeOK, AsksOrRuns, Runners, Sessions
<1>2. ASSUME NEW r \in Requests, RequestStep(r) PROVE FALSE
  <2>1. r # s /\ run' = run
    BY <1>2, RunnersAssumption
    DEF RequestStep, RequestCheckActive, RequestReuse, RequestReadLatest, RequestRetry,
        RequestInsert, RequestRollback
  <2>2. req'[s] = req[s]
    BY <1>a, <1>2, <2>1
    DEF RequestStep, RequestCheckActive, RequestReuse, RequestReadLatest, RequestRetry,
        RequestInsert, RequestRollback
  <2>3. QED
    BY <1>a, <2>1, <2>2
<1>3. ASSUME NEW w \in Workers, Claim(w) PROVE FALSE
  <2>1. req' = req /\ run'[s] = run[s]
    BY <1>a, <1>3, RunnersAssumption DEF Claim, ClaimRejects, ClaimStarts
  <2>2. QED
    BY <1>a, <2>1
<1>4. ASSUME NEW z \in Scripts, ScriptStep(z) PROVE FALSE
  <2>1. CASE z # s
    <3>1. run'[s] = run[s]
      BY <1>a, <1>4, <2>1
      DEF ScriptStep, ScriptChecksActive, RequestCheckActive, RequestReadLatest, ScriptJoins,
          ScriptMarks, ScriptRetries, Starts, ScriptInserts, ScriptReadsAgain, ScriptRunsOther,
          RequestRollback
    <3>2. req'[s] = req[s]
      BY <1>a, <1>4, <2>1
      DEF ScriptStep, ScriptChecksActive, RequestCheckActive, RequestReadLatest, ScriptJoins,
          ScriptMarks, ScriptRetries, Starts, ScriptInserts, ScriptReadsAgain, ScriptRunsOther,
          RequestRollback
    <3>3. QED
      BY <1>a, <3>1, <3>2
  <2>2. CASE z = s
    <3>1. \/ run' = run /\ run[s] = NoJob
          \/ req' = [req EXCEPT ![s] = IdleRequest]
      BY <1>a, <1>4, <2>2
      DEF ScriptStep, ScriptChecksActive, RequestCheckActive, RequestReadLatest, ScriptJoins,
          ScriptMarks, ScriptRetries, Starts, ScriptInserts, ScriptReadsAgain, ScriptRunsOther,
          RequestRollback
    <3>2. QED
      BY <1>a, <3>1 DEF IdleRequest
  <2>3. QED
    BY <2>1, <2>2
<1>5. ASSUME NEW x \in Runners, FinishRun(x) \/ Abandon(x) PROVE FALSE
  <2>1. req' = req /\ (run'[s] = run[s] \/ run'[s] = NoJob)
    BY <1>a, <1>5 DEF FinishRun, Finish, Abandon
  <2>2. QED
    BY <1>a, <2>1
<1>6. CASE UNCHANGED vars \/ \E d \in Documents : ToggleBlocked(d)
  BY <1>a, <1>6 DEF vars, ToggleBlocked
<1>7. QED
  BY <1>2, <1>3, <1>4, <1>5, <1>6 DEF Next

-----------------------------------------------------------------------------

LEMMA IInvStep == IInv /\ [Next]_vars => IInv'
  BY TypeStep, OneActiveStep, ExclusiveStep, ProcessingStep, AsksOrRunsStep DEF IInv

LEMMA Invariance == Spec => []IInv
  BY InitIInv, IInvStep, PTL DEF Spec

(* Type correctness of the queue, for every number of sessions and rows. *)
THEOREM TypeCorrect == Spec => []TypeOK
  BY Invariance, PTL DEF IInv

(* A document never has two active jobs, however many requests, workers and  *)
(* scripts race in enqueue_document_processing_job and in the claim.         *)
THEOREM AtMostOneActiveJob == Spec => []OneActiveJob
  BY Invariance, PTL DEF IInv

(* claim_next_document_processing_job never hands a job to a second worker:  *)
(* two runners share a job, or one runs a job that is not PROCESSING, only   *)
(* after a request or a script wrote over the job from a stale read, or a    *)
(* script was given it as the active job of its document.                    *)
THEOREM RunsAreExclusive == Spec => []ExclusiveRun
  BY Invariance, PTL DEF IInv

(* A PROCESSING row without a runner was abandoned by one that died or       *)
(* raised: nothing else strands a job.                                       *)
THEOREM OnlyFaultsStrand == Spec => []ProcessingIsRun
  BY Invariance, PTL DEF IInv

-----------------------------------------------------------------------------
(* What a step does to the rows.  At most one row is written or inserted, so *)
(* at most one document changes its place in the queue.                      *)

Writes(j, st) == jobDoc' = jobDoc /\ jobStatus' = [jobStatus EXCEPT ![j] = st]

Inserts(d, st) ==
  /\ ActiveJobs(d) = {}
  /\ nextId \in JobIds
  /\ nextId' = nextId + 1
  /\ jobDoc' = [jobDoc EXCEPT ![nextId] = d]
  /\ jobStatus' = [jobStatus EXCEPT ![nextId] = st]

(* The row of a retry, whatever became of it since it was read. *)
Revives(r) ==
  /\ RequestRetry(r)
  /\ ActiveJobs(req[r].doc) \ {req[r].latest} = {}
  /\ Writes(req[r].latest, "RETRY")

Advances(j) ==
  \/ jobStatus[j] \in QueueableStatuses /\ Writes(j, "FAILED")
  \/ jobStatus[j] \in ActiveStatuses /\ Writes(j, "PROCESSING")

Ends(x) == \E st \in DoneStatuses : run[x] # NoJob /\ Writes(run[x], st)

(* The row a script sets to PROCESSING, whatever became of it since. *)
Chosen(s) == IF req[s].pc = "checked" THEN req[s].active ELSE req[s].latest

Restarts(s) ==
  /\ ScriptMarks(s) \/ ScriptRetries(s)
  /\ Chosen(s) \in JobIds /\ jobDoc[Chosen(s)] = req[s].doc /\ req[s].doc \in Documents
  /\ ActiveJobs(req[s].doc) \ {Chosen(s)} = {}
  /\ Writes(Chosen(s), "PROCESSING")
  /\ shared' = shared \cup Overwritten(Chosen(s))

LEMMA RowEffects ==
  ASSUME IInv, [Next]_vars
  PROVE  \/ UNCHANGED <<jobDoc, jobStatus, nextId>>
         \/ /\ nextId' = nextId
            /\ \/ \E r \in Requests : Revives(r)
               \/ \E j \in JobIds : Advances(j)
               \/ \E x \in Runners : Ends(x)
               \/ \E s \in Scripts : Restarts(s)
         \/ \E d \in Documents, st \in {"QUEUED", "PROCESSING"} : Inserts(d, st)
<1> DEFINE Goal == \/ UNCHANGED <<jobDoc, jobStatus, nextId>>
                   \/ /\ nextId' = nextId
                      /\ \/ \E r \in Requests : Revives(r)
                         \/ \E j \in JobIds : Advances(j)
                         \/ \E x \in Runners : Ends(x)
                         \/ \E s \in Scripts : Restarts(s)
                   \/ \E d \in Documents, st \in {"QUEUED", "PROCESSING"} : Inserts(d, st)
<1>a. TypeOK
  BY DEF IInv
<1>1. ASSUME NEW r \in Requests, RequestRetry(r) PROVE Goal
  <2>1. nextId' = nextId /\ jobDoc' = jobDoc
    BY <1>1 DEF RequestRetry
  <2>2. CASE ActiveJobs(req[r].doc) \ {req[r].latest} = {}
    <3>1. jobStatus' = [jobStatus EXCEPT ![req[r].latest] = "RETRY"]
      BY <1>1, <2>2 DEF RequestRetry
    <3>2. Revives(r)
      BY <1>1, <2>1, <2>2, <3>1 DEF Revives, Writes
    <3>3. QED
      BY <2>1, <3>2
  <2>3. CASE ActiveJobs(req[r].doc) \ {req[r].latest} # {}
    <3>1. jobStatus' = jobStatus
      BY <1>1, <2>3 DEF RequestRetry
    <3>2. QED
      BY <2>1, <3>1
  <2>4. QED
    BY <2>2, <2>3
<1>2. ASSUME NEW r \in Requests, RequestInsert(r) PROVE Goal
  <2>1. CASE ActiveJobs(req[r].doc) = {}
    <3>1. req[r].doc \in Documents /\ nextId \in JobIds
      BY <1>a, <1>2, <2>1, MaxJobsAssumption DEF TypeOK, RequestInsert, JobIds, Sessions
    <3>2. Inserts(req[r].doc, "QUEUED")
      BY <1>2, <2>1, <3>1 DEF RequestInsert, Inserts
    <3>3. QED
      BY <3>1, <3>2
  <2>2. CASE ActiveJobs(req[r].doc) # {}
    BY <1>2, <2>2 DEF RequestInsert
  <2>3. QED
    BY <2>1, <2>2
<1>3. ASSUME NEW w \in Workers, NEW j \in JobIds, ClaimRejects(w, j) PROVE Goal
  <2>1. Advances(j) /\ nextId' = nextId
    BY <1>3 DEF ClaimRejects, Claimable, Advances, Writes
  <2>2. QED
    BY <2>1
<1>4. ASSUME NEW w \in Workers, NEW j \in JobIds, NEW c \in JobIds, ClaimStarts(w, j, c)
      PROVE Goal
  <2>1. /\ jobStatus[j] \in QueueableStatuses /\ jobDoc[j] \in Documents
        /\ c \in ActiveJobs(jobDoc[j])
    BY <1>a, <1>4 DEF ClaimStarts, Claimable, IsCanonical, TypeOK, QueueableStatuses
  <2>2. ActiveJobs(jobDoc[j]) \ {c} = {} /\ jobStatus[c] \in ActiveStatuses
    BY <2>1 DEF IInv, OneActiveJob, ActiveJobs, JobsOf
  <2>3. jobStatus' = [jobStatus EXCEPT ![c] = "PROCESSING"]
    BY <1>a, <1>4, <2>2 DEF ClaimStarts, TypeOK
  <2>4. Advances(c) /\ nextId' = nextId
    BY <1>4, <2>2, <2>3 DEF Advances, Writes, ClaimStarts
  <2>5. QED
    BY <2>4
<1>5. ASSUME NEW x \in Runners, NEW st \in DoneStatuses, Finish(x, st) PROVE Goal
  <2>1. Ends(x) /\ nextId' = nextId
    BY <1>5 DEF Finish, Ends, Writes
  <2>2. QED
    BY <2>1
<1>6. ASSUME NEW s \in Scripts, NEW i \in JobIds, i = Chosen(s), jobDoc[i] = req[s].doc,
             ScriptMarks(s) \/ ScriptRetries(s), Starts(s, i), req[s].doc \in Documents
      PROVE Goal
  <2>1. nextId' = nextId /\ jobDoc' = jobDoc
    BY <1>6 DEF Starts
  <2>2. CASE ActiveJobs(req[s].doc) \ {i} = {}
    <3>1. /\ jobStatus' = [jobStatus EXCEPT ![i] = "PROCESSING"]
          /\ shared' = shared \cup Overwritten(i)
      BY <1>6, <2>2 DEF Starts
    <3>2. Restarts(s)
      BY <1>6, <2>1, <2>2, <3>1 DEF Restarts, Writes
    <3>3. QED
      BY <2>1, <3>2
  <2>3. CASE ActiveJobs(req[s].doc) \ {i} # {}
    BY <1>6, <2>1, <2>3 DEF Starts
  <2>4. QED
    BY <2>2, <2>3
<1>7. ASSUME NEW s \in Scripts, ScriptMarks(s) \/ ScriptRetries(s) PROVE Goal
  <2>1. req[s] \in Request /\ (req[s].pc # "idle" => req[s].doc \in Documents)
    BY <1>a DEF TypeOK, Sessions
  <2>2. CASE ScriptMarks(s)
    <3>1. Chosen(s) = req[s].active /\ req[s].active \in JobIds /\ jobDoc[req[s].active] = req[s].doc
      BY <1>a, <2>1, <2>2 DEF TypeOK, Chosen, ScriptMarks, Request, Sessions
    <3>2. QED
      BY <1>6, <2>1, <2>2, <3>1 DEF ScriptMarks
  <2>3. CASE ScriptRetries(s)
    <3>1. Chosen(s) = req[s].latest /\ req[s].latest \in JobIds /\ jobDoc[req[s].latest] = req[s].doc
      BY <1>a, <2>1, <2>3 DEF TypeOK, Chosen, ScriptRetries, Request, Sessions
    <3>2. QED
      BY <1>6, <2>1, <2>3, <3>1 DEF ScriptRetries
  <2>4. QED
    BY <1>7, <2>2, <2>3
<1>8. ASSUME NEW s \in Scripts, ScriptInserts(s) PROVE Goal
  <2>1. CASE ActiveJobs(req[s].doc) = {}
    <3>1. nextId \in JobIds /\ req[s].doc \in Documents
      BY <1>a, <1>8, <2>1, MaxJobsAssumption DEF TypeOK, ScriptInserts, JobIds, Sessions
    <3>2. Inserts(req[s].doc, "PROCESSING")
      BY <1>8, <2>1, <3>1 DEF ScriptInserts, Inserts
    <3>3. QED
      BY <3>1, <3>2
  <2>2. CASE ActiveJobs(req[s].doc) # {}
    BY <1>8, <2>2 DEF ScriptInserts
  <2>3. QED
    BY <2>1, <2>2
<1>9. ASSUME UNCHANGED <<jobDoc, jobStatus, nextId>> PROVE Goal
  BY <1>9
<1>10. ASSUME NEW r \in Requests, RequestStep(r) PROVE Goal
  <2>1. CASE RequestRetry(r)
    BY <1>1, <2>1
  <2>2. CASE RequestInsert(r)
    BY <1>2, <2>2
  <2>3. CASE ~RequestRetry(r) /\ ~RequestInsert(r)
    <3>1. UNCHANGED <<jobDoc, jobStatus, nextId>>
      BY <1>10, <2>3 DEF RequestStep, RequestCheckActive, RequestReuse, RequestReadLatest,
                         RequestRollback
    <3>2. QED
      BY <1>9, <3>1
  <2>4. QED
    BY <2>1, <2>2, <2>3
<1>11. ASSUME NEW x \in Runners, Abandon(x) PROVE Goal
  BY <1>9, <1>11 DEF Abandon
<1>12. ASSUME NEW d \in Documents, ToggleBlocked(d) PROVE Goal
  BY <1>9, <1>12 DEF ToggleBlocked
<1>13. CASE UNCHANGED vars
  BY <1>9, <1>13 DEF vars
<1> HIDE DEF Goal
<1>16. ASSUME NEW s \in Scripts, ScriptStep(s) PROVE Goal
  <2>1. CASE ScriptMarks(s) \/ ScriptRetries(s) \/ ScriptInserts(s)
    BY <1>7, <1>8, <2>1
  <2>2. CASE ~(ScriptMarks(s) \/ ScriptRetries(s) \/ ScriptInserts(s))
    <3>1. UNCHANGED <<jobDoc, jobStatus, nextId>>
      BY <1>16, <2>2
      DEF ScriptStep, ScriptChecksActive, RequestCheckActive, RequestReadLatest, ScriptJoins,
          ScriptReadsAgain, ScriptRunsOther, RequestRollback
    <3>2. QED
      BY <1>9, <3>1
  <2>3. QED
    BY <2>1, <2>2
<1>14. ASSUME Next PROVE Goal
  BY <1>3, <1>4, <1>5, <1>10, <1>11, <1>12, <1>14, <1>16, ZenonT(30) DEF Next, Claim, FinishRun
<1>15. QED
  BY <1>13, <1>14 DEF Goal

-----------------------------------------------------------------------------
(* The phase of a document in terms of its rows. *)

Runs(d) == \E j \in JobIds : jobDoc[j] = d /\ jobStatus[j] = "PROCESSING"
Waits(d) == ~Runs(d) /\ \E j \in JobIds : jobDoc[j] = d /\ jobStatus[j] \in QueueableStatuses

PhaseOfRows(d) == /\ Runs(d) => Phase(d) = "running"
                  /\ Waits(d) => Phase(d) = "waiting"
                  /\ ~Runs(d) /\ ~Waits(d) => Phase(d) = "idle"

LEMMA PhaseIsOfRows == \A d \in Documents : PhaseOfRows(d)
<1> SUFFICES ASSUME NEW d \in Documents PROVE PhaseOfRows(d)
  OBVIOUS
<1>1. Runs(d) <=> ProcessingJobs(d) # {}
  BY DEF Runs, ProcessingJobs, JobsOf
<1>2. ~Runs(d) => (Waits(d) <=> ActiveJobs(d) # {})
  BY DEF Runs, Waits, ActiveJobs, JobsOf, ActiveStatuses
<1>3. ~(Runs(d) /\ Waits(d))
  BY DEF Waits
<1>4. CASE ProcessingJobs(d) # {}
  BY <1>1, <1>3, <1>4, Zenon DEF Phase, PhaseOfRows
<1>5. CASE ProcessingJobs(d) = {} /\ ActiveJobs(d) # {}
  BY <1>1, <1>2, <1>5, Zenon DEF Phase, PhaseOfRows
<1>6. CASE ProcessingJobs(d) = {} /\ ActiveJobs(d) = {}
  BY <1>1, <1>2, <1>6, Zenon DEF Phase, PhaseOfRows
<1>7. QED
  BY <1>4, <1>5, <1>6
LEMMA PhaseIsOfRowsNext == (\A d \in Documents : PhaseOfRows(d))'
  BY PhaseIsOfRows, PTL

Phases == [d \in Documents |-> Phase(d)]

(* A step that touches the rows of one document, and does not take it back   *)
(* from running to waiting, is a step of the abstract queue.                 *)
LEMMA OneDocumentMoves ==
  ASSUME NEW d \in Documents,
         \A j \in JobIds :
           \/ jobDoc'[j] = jobDoc[j] /\ (jobDoc[j] = d \/ jobStatus'[j] = jobStatus[j])
           \/ jobDoc[j] \notin Documents /\ jobDoc'[j] = d,
         ~(Runs(d) /\ Waits(d)')
  PROVE  [Queue!Next]_Phases
<1>1. ASSUME NEW e \in Documents, e # d PROVE (Runs(e)' <=> Runs(e)) /\ (Waits(e)' <=> Waits(e))
  BY <1>1 DEF Runs, Waits
<1>2. ASSUME NEW e \in Documents, e # d PROVE Phase(e)' = Phase(e)
  BY <1>1, <1>2, PhaseIsOfRows, PhaseIsOfRowsNext DEF PhaseOfRows
<1>3. Phases' = [Phases EXCEPT ![d] = Phase(d)'] /\ Phases[d] = Phase(d)
  BY <1>2 DEF Phases
<1>4. /\ Phase(d) \in {"idle", "waiting", "running"}
      /\ Phase(d)' \in {"idle", "waiting", "running"}
      /\ ~(Phase(d) = "running" /\ Phase(d)' = "waiting")
  BY PhaseIsOfRows, PhaseIsOfRowsNext DEF PhaseOfRows, Waits
<1> DEFINE p == Phase(d)
           q == Phase(d)'
<1> HIDE DEF p, q
<1>5. CASE Phase(d)' = Phase(d)
  BY <1>3, <1>5 DEF Phases
<1>6. CASE Phase(d)' # Phase(d)
  BY <1>3, <1>4, <1>6
  DEF Phases, Queue!Next, Queue!Ask, Queue!Start, Queue!Refuse, Queue!Finish, Queue!Run
<1>7. QED
  BY <1>5, <1>6
-----------------------------------------------------------------------------
(* A request sets to RETRY a row that somebody has started to run since the  *)
(* request read it.  A request or a script writes on a row that is no longer *)
(* the newest of its document, or never was.                                 *)
RetriesRunning == \E r \in Requests : RequestRetry(r) /\ jobStatus[req[r].latest] = "PROCESSING"
RetriesOld ==
  \/ \E r \in Requests : RequestRetry(r) /\ ~IsLatest(req[r].latest, req[r].doc)
  \/ \E s \in Scripts : /\ ScriptMarks(s) \/ ScriptRetries(s)
                        /\ ~IsLatest(Chosen(s), req[s].doc)

LEMMA RevivedRow ==
  ASSUME TypeOK, NEW r \in Requests, Revives(r)
  PROVE  /\ req[r].latest \in JobIds /\ req[r].doc \in Documents
         /\ jobDoc[req[r].latest] = req[r].doc
  BY DEF TypeOK, Request, Revives, RequestRetry, Sessions

LEMMA EndedRow ==
  ASSUME TypeOK, NEW x \in Runners, Ends(x)
  PROVE  run[x] \in JobIds /\ jobDoc[run[x]] \in Documents
<1>1. run[x] \in JobIds /\ run[x] < nextId
  BY DEF TypeOK, Ends
<1>2. QED
  BY <1>1 DEF TypeOK, JobIds

(* Every step of the queue of rows is one of the abstract queue, but for the *)
(* retry of a row that is being run.                                         *)
LEMMA QueueStep == IInv /\ [Next]_vars => [Queue!Next \/ RetriesRunning]_Phases
<1> SUFFICES ASSUME IInv, [Next]_vars PROVE [Queue!Next \/ RetriesRunning]_Phases
  OBVIOUS
<1>a. /\ jobDoc \in [JobIds -> Documents \cup {NoDocument}]
      /\ jobStatus \in [JobIds -> Statuses \cup {"ABSENT"}]
      /\ TypeOK
  BY DEF IInv, TypeOK
<1>b. \A i, k \in JobIds : /\ jobDoc[i] \in Documents /\ jobDoc[i] = jobDoc[k]
                           /\ jobStatus[i] \in ActiveStatuses /\ jobStatus[k] \in ActiveStatuses
                           => i = k
  BY DEF IInv, OneActiveJob, ActiveJobs, JobsOf
<1>1. ASSUME NEW j \in JobIds, NEW st \in Statuses, jobDoc[j] \in Documents, Writes(j, st),
             ~(Runs(jobDoc[j]) /\ Waits(jobDoc[j])')
      PROVE [Queue!Next]_Phases
  <2>1. PICK d \in Documents : d = jobDoc[j]
    BY <1>1
  <2>2. /\ jobDoc' = jobDoc
        /\ \A k \in JobIds : k # j => jobStatus'[k] = jobStatus[k]
    BY <1>a, <1>1 DEF Writes
  <2>3. Runs(jobDoc[j]) = Runs(d) /\ Waits(jobDoc[j])' = Waits(d)'
    BY <2>1, <2>2 DEF Runs, Waits
  <2>4. ~(Runs(d) /\ Waits(d)')
    BY <1>1, <2>3
  <2>5. \A k \in JobIds :
          jobDoc'[k] = jobDoc[k] /\ (jobDoc[k] = d \/ jobStatus'[k] = jobStatus[k])
    BY <2>1, <2>2
  <2>6. QED
    BY <2>4, <2>5, OneDocumentMoves
<1>2. CASE UNCHANGED <<jobDoc, jobStatus, nextId>>
  BY <1>2 DEF Phases, Phase, ProcessingJobs, ActiveJobs, JobsOf
<1>3. ASSUME NEW r \in Requests, Revives(r) PROVE [Queue!Next \/ RetriesRunning]_Phases
  <2>1. CASE jobStatus[req[r].latest] = "PROCESSING"
    BY <1>3, <2>1 DEF RetriesRunning, Revives
  <2>2. CASE jobStatus[req[r].latest] # "PROCESSING"
    <3>1. /\ req[r].latest \in JobIds /\ jobDoc[req[r].latest] \in Documents
          /\ jobDoc[req[r].latest] = req[r].doc /\ Writes(req[r].latest, "RETRY")
      BY <1>a, <1>3, RevivedRow DEF Revives
    <3>2. ~Runs(jobDoc[req[r].latest])
      BY <1>3, <2>2, <3>1 DEF Runs, Revives, ActiveJobs, JobsOf, ActiveStatuses
    <3>3. QED
      BY <1>1, <3>1, <3>2 DEF Statuses, ActiveStatuses, QueueableStatuses
  <2>3. QED
    BY <2>1, <2>2
<1>4. ASSUME NEW j \in JobIds, Advances(j) PROVE [Queue!Next]_Phases
  <2>1. jobStatus[j] \in ActiveStatuses /\ jobDoc[j] \in Documents
    BY <1>a, <1>4 DEF Advances, ActiveStatuses, QueueableStatuses, TypeOK
  <2>2. CASE jobStatus[j] \in QueueableStatuses /\ Writes(j, "FAILED")
    <3>1. ~Runs(jobDoc[j])
      BY <1>b, <2>1, <2>2 DEF Runs, ActiveStatuses, QueueableStatuses
    <3>2. QED
      BY <1>1, <2>1, <2>2, <3>1 DEF Statuses, DoneStatuses
  <2>3. CASE Writes(j, "PROCESSING")
    <3>1. Runs(jobDoc[j])'
      BY <1>a, <2>1, <2>3 DEF Runs, Writes
    <3>2. ~Waits(jobDoc[j])'
      BY <3>1 DEF Waits
    <3>3. QED
      BY <1>1, <2>1, <2>3, <3>2 DEF Statuses, ActiveStatuses
  <2>4. QED
    BY <1>4, <2>2, <2>3 DEF Advances
<1>5. ASSUME NEW x \in Runners, Ends(x) PROVE [Queue!Next]_Phases
  <2>1. PICK st \in DoneStatuses : Writes(run[x], st)
    BY <1>5 DEF Ends
  <2>2. PICK j \in JobIds : j = run[x] /\ jobDoc[j] \in Documents
    BY <1>a, <1>5, EndedRow
  <2>3. /\ jobDoc' = jobDoc /\ jobStatus'[j] = st
        /\ \A k \in JobIds : k # j => jobStatus'[k] = jobStatus[k]
    BY <1>a, <2>1, <2>2 DEF Writes
  <2>4. ~(Runs(jobDoc[j]) /\ Waits(jobDoc[j])')
    BY <1>b, <2>2, <2>3
    DEF Runs, Waits, DoneStatuses, ActiveStatuses, QueueableStatuses
  <2>5. QED
    BY <1>1, <2>1, <2>2, <2>4 DEF Statuses
<1>6. ASSUME NEW s \in Scripts, Restarts(s) PROVE [Queue!Next]_Phases
  <2>1. PICK l \in JobIds : l = Chosen(s) /\ jobDoc[l] \in Documents /\ Writes(l, "PROCESSING")
    BY <1>6 DEF Restarts
  <2>2. Runs(jobDoc[l])'
    BY <1>a, <2>1 DEF Runs, Writes
  <2>3. ~Waits(jobDoc[l])'
    BY <2>2 DEF Waits
  <2>4. QED
    BY <1>1, <2>1, <2>3 DEF Statuses, ActiveStatuses
<1>7. ASSUME NEW d \in Documents, NEW st \in {"QUEUED", "PROCESSING"}, Inserts(d, st)
      PROVE [Queue!Next]_Phases
  <2>1. ~Runs(d)
    BY <1>7 DEF Runs, Inserts, ActiveJobs, JobsOf, ActiveStatuses
  <2>2. jobDoc[nextId] \notin Documents /\ jobDoc'[nextId] = d /\ nextId \in JobIds
    BY <1>a, <1>7, NoDocumentAssumption DEF Inserts, TypeOK, JobIds
  <2>3. \A k \in JobIds : k # nextId => jobDoc'[k] = jobDoc[k] /\ jobStatus'[k] = jobStatus[k]
    BY <1>a, <1>7 DEF Inserts
  <2>4. QED
    BY <2>1, <2>2, <2>3, OneDocumentMoves
<1>8. QED
  BY RowEffects, <1>2, <1>3, <1>4, <1>5, <1>6, <1>7

(* The queue of documents that the rows of import_jobs implement, whatever   *)
(* requests, workers and scripts do: a document is asked for, started,       *)
(* refused or finished, and only a request that sets to RETRY a row that is  *)
(* being run by now takes a document back to the waiting ones.               *)
THEOREM ImplementsQueueButRetries ==
  Spec => Queue!Init /\ [][Queue!Next \/ RetriesRunning]_Phases
<1>1. Init => Queue!Init
  BY DEF Init, Queue!Init, Phase, ProcessingJobs, ActiveJobs, JobsOf, ActiveStatuses,
         QueueableStatuses
<1>2. QED
  BY <1>1, QueueStep, Invariance, PTL DEF Spec

-----------------------------------------------------------------------------

Completed == {"COMPLETED", "COMPLETED_WITH_CONFLICTS"}

LEMMA SharedGrows == [Next]_vars => shared \subseteq shared'
  BY DEF Next, RequestStep, RequestCheckActive, RequestReuse, RequestReadLatest, RequestRetry,
         RequestInsert, RequestRollback, Claim, ClaimRejects, ClaimStarts, FinishRun, Finish,
         Abandon, ScriptStep, ScriptChecksActive, ScriptJoins, ScriptMarks, ScriptRetries, Starts,
         ScriptInserts, ScriptReadsAgain, ScriptRunsOther, ToggleBlocked, vars

LEMMA CompletedStep ==
  IInv /\ [Next]_vars =>
    \A j \in JobIds : jobStatus[j] \in Completed => jobStatus'[j] = jobStatus[j] \/ j \in shared'
<1> SUFFICES ASSUME IInv, [Next]_vars, NEW j \in JobIds, jobStatus[j] \in Completed
             PROVE  jobStatus'[j] = jobStatus[j] \/ j \in shared'
  OBVIOUS
<1>a. TypeOK /\ jobStatus \in [JobIds -> Statuses \cup {"ABSENT"}]
  BY DEF IInv, TypeOK
<1>0. Overwritten(j) = {j}
  BY DEF Overwritten, QueueableStatuses, Completed
<1>1. ASSUME NEW r \in Requests, Revives(r) PROVE jobStatus'[j] = jobStatus[j] \/ j \in shared'
  BY <1>a, <1>0, <1>1 DEF Revives, RequestRetry, Writes
<1>2. ASSUME NEW i \in JobIds, Advances(i) PROVE jobStatus'[j] = jobStatus[j]
  BY <1>a, <1>2 DEF Advances, Writes, Completed, ActiveStatuses, QueueableStatuses
<1>7. ASSUME NEW s \in Scripts, Restarts(s) PROVE jobStatus'[j] = jobStatus[j] \/ j \in shared'
  BY <1>a, <1>0, <1>7 DEF Restarts, Writes
(* Only a run that was shared outlives its job's PROCESSING.                 *)
<1>3. ASSUME NEW x \in Runners, Ends(x) PROVE jobStatus'[j] = jobStatus[j] \/ j \in shared'
  <2>1. CASE run[x] = j
    <3>1. j \in shared
      BY <1>3, <2>1 DEF IInv, ExclusiveRun, Ends, Completed
    <3>2. QED
      BY <3>1, SharedGrows
  <2>2. CASE run[x] # j
    BY <1>a, <1>3, <2>2 DEF Ends, Writes
  <2>3. QED
    BY <2>1, <2>2
<1>4. ASSUME NEW d \in Documents, NEW st \in {"QUEUED", "PROCESSING"}, Inserts(d, st)
      PROVE jobStatus'[j] = jobStatus[j]
  <2>1. jobStatus[nextId] = "ABSENT"
    BY <1>a, <1>4 DEF TypeOK, Inserts, JobIds
  <2>2. QED
    BY <1>a, <1>4, <2>1 DEF Inserts, Completed
<1>5. CASE UNCHANGED <<jobDoc, jobStatus, nextId>>
  BY <1>5
<1>6. QED
  BY RowEffects, <1>1, <1>2, <1>3, <1>4, <1>5, <1>7

(* A completed job changes its status again only when two runs shared it, or *)
(* a request or a script that had read it before it completed set it to      *)
(* RETRY or PROCESSING: never by a claim or by the end of a run nobody       *)
(* shared.                                                                   *)
THEOREM CompletedChangesOnlyShared ==
  Spec => [][\A j \in JobIds : jobStatus[j] \in Completed =>
               jobStatus'[j] = jobStatus[j] \/ j \in shared']_vars
  BY CompletedStep, Invariance, PTL DEF Spec

-----------------------------------------------------------------------------

LEMMA LatestStep == IInv /\ ActiveIsLatest /\ [Next]_vars => ActiveIsLatest' \/ RetriesOld
<1> SUFFICES ASSUME IInv, ActiveIsLatest, [Next]_vars, ~RetriesOld,
                    NEW j \in JobIds, jobDoc'[j] \in Documents, jobStatus'[j] \in ActiveStatuses,
                    NEW k \in JobIds, jobDoc'[k] = jobDoc'[j]
             PROVE  k <= j
  BY DEF ActiveIsLatest, ActiveJobs, IsLatest, JobsOf
<1>a. /\ jobStatus \in [JobIds -> Statuses \cup {"ABSENT"}]
      /\ jobDoc \in [JobIds -> Documents \cup {NoDocument}]
      /\ TypeOK
  BY DEF IInv, TypeOK
<1>b. \A i, l \in JobIds : /\ jobDoc[i] \in Documents /\ jobStatus[i] \in ActiveStatuses
                           /\ jobDoc[l] = jobDoc[i]
                           => l <= i
  BY DEF ActiveIsLatest, ActiveJobs, IsLatest, JobsOf
<1>1. ASSUME jobDoc' = jobDoc, jobStatus[j] \in ActiveStatuses PROVE k <= j
  BY <1>b, <1>1
<1>2. ASSUME NEW r \in Requests, Revives(r) PROVE k <= j
  <2>1. /\ req[r].latest \in JobIds /\ IsLatest(req[r].latest, req[r].doc)
        /\ jobDoc' = jobDoc /\ jobStatus' = [jobStatus EXCEPT ![req[r].latest] = "RETRY"]
    BY <1>a, <1>2, RevivedRow DEF Revives, RetriesOld, Writes
  <2>2. QED
    BY <1>1, <1>a, <2>1 DEF IsLatest, JobsOf
<1>3. ASSUME NEW i \in JobIds, Advances(i) PROVE k <= j
  <2>1. jobDoc' = jobDoc /\ jobStatus[j] \in ActiveStatuses
    BY <1>a, <1>3 DEF Advances, Writes, ActiveStatuses
  <2>2. QED
    BY <1>1, <2>1
<1>4. ASSUME NEW x \in Runners, Ends(x) PROVE k <= j
  <2>1. jobDoc' = jobDoc /\ jobStatus[j] \in ActiveStatuses
    BY <1>a, <1>4, EndedRow DEF Ends, Writes, ActiveStatuses, QueueableStatuses, DoneStatuses
  <2>2. QED
    BY <1>1, <2>1
<1>5. ASSUME NEW s \in Scripts, Restarts(s) PROVE k <= j
  <2>1. PICK l \in JobIds : l = Chosen(s)
    BY <1>5 DEF Restarts
  <2>2. /\ IsLatest(l, req[s].doc) /\ jobDoc[l] = req[s].doc
        /\ jobDoc' = jobDoc /\ jobStatus' = [jobStatus EXCEPT ![l] = "PROCESSING"]
    BY <1>5, <2>1 DEF Restarts, RetriesOld, Writes
  <2>3. j = l \/ jobStatus[j] \in ActiveStatuses
    BY <1>a, <2>2
  <2>4. QED
    BY <1>1, <2>2, <2>3 DEF IsLatest, JobsOf
<1>6. ASSUME NEW d \in Documents, NEW st \in {"QUEUED", "PROCESSING"}, Inserts(d, st) PROVE k <= j
  <2>1. /\ nextId \in JobIds /\ jobDoc[nextId] = NoDocument
        /\ \A i \in JobIds : jobDoc[i] \in Documents => i < nextId
    BY <1>a, <1>6, NoDocumentAssumption, MaxJobsAssumption DEF TypeOK, Inserts, JobIds
  <2>2. \A i \in JobIds : i # nextId => jobDoc'[i] = jobDoc[i] /\ jobStatus'[i] = jobStatus[i]
    BY <1>a, <1>6 DEF Inserts
  <2>3. \A i \in JobIds : jobDoc[i] = d => jobStatus[i] \notin ActiveStatuses
    BY <1>6 DEF Inserts, ActiveJobs, JobsOf
  <2>4. jobDoc'[nextId] = d
    BY <1>a, <1>6 DEF Inserts
  <2>5. CASE j = nextId
    <3>1. k = nextId \/ k < nextId
      BY <2>1, <2>2, <2>4, <2>5
    <3>2. QED
      BY <2>1, <2>5, <3>1, MaxJobsAssumption DEF JobIds
  <2>6. CASE j # nextId
    <3>1. k # nextId
      BY <2>2, <2>3, <2>4, <2>6
    <3>2. QED
      BY <1>b, <2>2, <2>6, <3>1
  <2>7. QED
    BY <2>5, <2>6
<1>7. CASE UNCHANGED <<jobDoc, jobStatus, nextId>>
  BY <1>1, <1>7
<1>8. QED
  BY RowEffects, <1>2, <1>3, <1>4, <1>5, <1>6, <1>7

(* The active job of a document is its newest one until a request sets to    *)
(* RETRY, or a script to PROCESSING, a row that was the newest only when it  *)
(* was read: no claim, insert or end of a run revives an old row behind a    *)
(* newer one.                                                                *)
THEOREM OldRowsReviveByStaleRetry == Spec => [][ActiveIsLatest => ActiveIsLatest' \/ RetriesOld]_vars
<1>1. IInv /\ [Next]_vars => [ActiveIsLatest => ActiveIsLatest' \/ RetriesOld]_vars
  BY LatestStep
<1>2. QED
  BY <1>1, Invariance, PTL DEF Spec

-----------------------------------------------------------------------------
(* One API session at a time and no folder script: what a request read of    *)
(* the latest job is still true when it writes.                              *)

OneSession == Scripts = {} /\ \A r, s \in Requests : r = s

Fresh(r) ==
  /\ req[r].pc # "ready" => req[r].latest = NoJob
  /\ req[r].latest # NoJob => /\ jobStatus[req[r].latest] = "FAILED"
                              /\ IsLatest(req[r].latest, req[r].doc)

FreshRead == shared = {} /\ \A r \in Requests : Fresh(r)

LEMMA FreshInit == Init => FreshRead
  BY DEF Init, FreshRead, Fresh, IdleRequest, Sessions

LEMMA FreshStep ==
  ASSUME OneSession, IInv, FreshRead, [Next]_vars
  PROVE  FreshRead'
<1>a. /\ TypeOK
      /\ jobStatus \in [JobIds -> Statuses \cup {"ABSENT"}]
      /\ req \in [Requests -> Request]
  BY DEF IInv, TypeOK, OneSession, Sessions
<1>1. ASSUME shared' = shared, req' = req, jobDoc' = jobDoc,
             \A j \in JobIds : jobStatus[j] = "FAILED" => jobStatus'[j] = "FAILED"
      PROVE FreshRead'
  BY <1>1 DEF FreshRead, Fresh, IsLatest, JobsOf
(* A session that has nothing in hand has nothing stale.                     *)
<1>2. ASSUME NEW r \in Requests, shared' = shared, req' = [req EXCEPT ![r] = IdleRequest]
      PROVE FreshRead'
  <2>1. \A q \in Requests : req'[q] = IdleRequest
    BY <1>a, <1>2 DEF OneSession
  <2>2. QED
    BY <1>2, <2>1 DEF FreshRead, Fresh, IdleRequest
<1>3. ASSUME NEW r \in Requests, RequestStep(r) PROVE FreshRead'
  <2>1. ASSUME NEW d \in Documents, NEW retry \in BOOLEAN, RequestCheckActive(r, d, retry)
        PROVE FreshRead'
    <3>1. PICK a \in JobIds \cup {NoJob} :
            req' = [req EXCEPT ![r] = [pc |-> "checked", doc |-> d, retry |-> retry,
                                       active |-> a, running |-> a \in ProcessingJobs(d),
                                       latest |-> NoJob]]
      BY <2>1 DEF RequestCheckActive
    <3>2. \A q \in Requests : req'[q].latest = NoJob
      BY <1>a, <3>1 DEF OneSession
    <3>3. shared' = shared
      BY <2>1 DEF RequestCheckActive
    <3>4. QED
      BY <3>2, <3>3 DEF FreshRead, Fresh
  <2>2. ASSUME RequestReadLatest(r) PROVE FreshRead'
    <3>1. PICK l \in JobIds \cup {NoJob} :
            /\ IF req[r].retry /\ \E k \in JobIds : IsLatest(k, req[r].doc) /\ jobStatus[k] = "FAILED"
               THEN l # NoJob /\ IsLatest(l, req[r].doc)
               ELSE l = NoJob
            /\ req' = [req EXCEPT ![r] = [req[r] EXCEPT !.pc = "ready", !.latest = l]]
      BY <2>2 DEF RequestReadLatest
    <3>2. l # NoJob => IsLatest(l, req[r].doc) /\ jobStatus[l] = "FAILED"
      <4>1. SUFFICES ASSUME l # NoJob PROVE IsLatest(l, req[r].doc) /\ jobStatus[l] = "FAILED"
        OBVIOUS
      <4>2. PICK k \in JobIds : IsLatest(k, req[r].doc) /\ jobStatus[k] = "FAILED"
        BY <3>1, <4>1
      <4>3. IsLatest(l, req[r].doc)
        BY <3>1, <4>1
      <4>4. l <= k /\ k <= l /\ l \in JobIds
        <5>1. l \in JobsOf(req[r].doc) /\ k \in JobsOf(req[r].doc)
          BY <4>2, <4>3 DEF IsLatest
        <5>2. QED
          BY <4>2, <4>3, <5>1 DEF IsLatest, JobsOf
      <4>5. l = k
        BY <4>4, MaxJobsAssumption DEF JobIds
      <4>6. QED
        BY <4>2, <4>3, <4>5
    <3>3. /\ \A q \in Requests : q = r
          /\ req[r] \in Request /\ req'[r] = [req[r] EXCEPT !.pc = "ready", !.latest = l]
      BY <1>a, <3>1 DEF OneSession
    <3>4. req'[r].pc = "ready" /\ req'[r].latest = l /\ req'[r].doc = req[r].doc
      BY <3>3 DEF Request
    <3>5. UNCHANGED <<jobDoc, jobStatus, shared>>
      BY <2>2 DEF RequestReadLatest
    <3>6. l # NoJob => /\ l \in JobIds /\ jobDoc[l] = req[r].doc
                       /\ \A k \in JobIds : jobDoc[k] = req[r].doc => k <= l
      BY <3>2 DEF IsLatest, JobsOf
    <3>7. Fresh(r)'
      BY <3>2, <3>4, <3>5, <3>6 DEF Fresh, IsLatest, JobsOf
    <3>8. QED
      BY <3>3, <3>5, <3>7 DEF FreshRead
  <2>3. ASSUME RequestRetry(r) PROVE FreshRead'
    <3>1. jobStatus[req[r].latest] = "FAILED"
      BY <2>3 DEF RequestRetry, FreshRead, Fresh
    <3>2. shared' = shared /\ req' = [req EXCEPT ![r] = IdleRequest]
      BY <2>3, <3>1 DEF RequestRetry, Overwritten
    <3>3. QED
      BY <1>2, <3>2
  <2>4. ASSUME RequestReuse(r) \/ RequestInsert(r) \/ RequestRollback(r) PROVE FreshRead'
    BY <1>2, <2>4 DEF RequestReuse, RequestInsert, RequestRollback
  <2>5. QED
    BY <1>3, <2>1, <2>2, <2>3, <2>4 DEF RequestStep
<1>4. ASSUME NEW w \in Workers, NEW j \in JobIds, ClaimRejects(w, j) PROVE FreshRead'
  <2>1. /\ shared' = shared /\ req' = req /\ jobDoc' = jobDoc
        /\ jobStatus' = [jobStatus EXCEPT ![j] = "FAILED"]
    BY <1>4 DEF ClaimRejects
  <2>2. QED
    BY <1>1, <1>a, <2>1
<1>5. ASSUME NEW w \in Workers, NEW j \in JobIds, NEW c \in JobIds, ClaimStarts(w, j, c)
      PROVE FreshRead'
  <2>1. jobStatus[c] \in ActiveStatuses
    BY <1>5 DEF ClaimStarts, IsCanonical, ActiveJobs
  <2>2. \A k \in JobIds : jobStatus[k] = "FAILED" => jobStatus'[k] = "FAILED"
    BY <1>5, <2>1 DEF ClaimStarts, ActiveStatuses, QueueableStatuses, ActiveJobs
  <2>3. QED
    BY <1>1, <1>5, <2>2 DEF ClaimStarts
(* The job of a run is PROCESSING, so no request has read it as FAILED.      *)
<1>6. ASSUME NEW x \in Runners, NEW st \in DoneStatuses, Finish(x, st) PROVE FreshRead'
  <2>1. jobStatus[run[x]] = "PROCESSING"
    BY <1>6 DEF Finish, FreshRead, IInv, ExclusiveRun
  <2>2. \A k \in JobIds : jobStatus[k] = "FAILED" => jobStatus'[k] = "FAILED"
    BY <1>a, <1>6, <2>1 DEF Finish
  <2>3. QED
    BY <1>1, <1>6, <2>2 DEF Finish
<1>7. ASSUME NEW x \in Runners, Abandon(x) PROVE FreshRead'
  BY <1>1, <1>7 DEF Abandon
<1>8. ASSUME NEW d \in Documents, ToggleBlocked(d) PROVE FreshRead'
  BY <1>1, <1>8 DEF ToggleBlocked
<1>9. CASE UNCHANGED vars
  BY <1>1, <1>9 DEF vars
<1>10. QED
  BY <1>3, <1>4, <1>5, <1>6, <1>7, <1>8, <1>9
  DEF Next, Claim, FinishRun, OneSession

LEMMA FreshAlways ==
  ASSUME OneSession
  PROVE  Spec => [](IInv /\ FreshRead)
<1>1. IInv /\ FreshRead /\ [Next]_vars => FreshRead'
  BY FreshStep
<1>2. QED
  BY <1>1, FreshInit, Invariance, PTL DEF Spec

LEMMA FreshRetry ==
  ASSUME OneSession, FreshRead
  PROVE  ~RetriesRunning /\ ~RetriesOld
  BY DEF OneSession, FreshRead, Fresh, RetriesRunning, RetriesOld, RequestRetry

(* With one API session at a time and no folder script, a retry never        *)
(* revives an old row behind a newer one, for every number of documents,     *)
(* workers and rows.                                                         *)
THEOREM NewestRowIsActive ==
  ASSUME OneSession
  PROVE  Spec => []ActiveIsLatest
<1>1. Init => ActiveIsLatest
  BY DEF Init, ActiveIsLatest, ActiveJobs, JobsOf, ActiveStatuses, QueueableStatuses
<1>2. IInv /\ FreshRead /\ ActiveIsLatest /\ [Next]_vars => ActiveIsLatest'
  BY LatestStep, FreshRetry
<1>3. QED
  BY <1>1, <1>2, FreshAlways, PTL DEF Spec

(* Under the same condition a completed job is never run again.              *)
THEOREM CompletedIsFinal ==
  ASSUME OneSession
  PROVE  Spec => CompletedStays
<1>1. IInv /\ FreshRead' /\ [Next]_vars =>
        [\A j \in JobIds : jobStatus[j] \in {"COMPLETED", "COMPLETED_WITH_CONFLICTS"} =>
           jobStatus'[j] = jobStatus[j]]_vars
  BY CompletedStep DEF Completed, FreshRead
<1>2. QED
  BY <1>1, FreshAlways, PTL DEF Spec, CompletedStays

(* Under the same condition the rows of import_jobs implement the abstract   *)
(* queue of documents.                                                       *)
THEOREM RowsImplementQueue ==
  ASSUME OneSession
  PROVE  Spec => ImplementsQueue
<1>1. IInv /\ FreshRead /\ [Next]_vars => [Queue!Next]_Phases
  BY QueueStep, FreshRetry
<1>2. [Queue!Next]_Phases => [Queue!Next]_[d \in Documents |-> Phase(d)]
  BY DEF Phases
<1>3. QED
  BY <1>1, <1>2, FreshAlways, ImplementsQueueButRetries, PTL
  DEF Spec, ImplementsQueue, Queue!Spec
=============================================================================
