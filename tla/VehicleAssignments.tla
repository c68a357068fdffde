------------------------- MODULE VehicleAssignments -------------------------
(***************************************************************************)
(* The periods for which an employee is assigned to a vehicle              *)
(* (api/users.py).  An archived or a placeholder vehicle is refused, which *)
(* is one request less: that guard is left out.                            *)
(*                                                                         *)
(* A request loads the rows of one user, checks the dates and the other    *)
(* rows of the vehicle, and commits: an insert, or the columns that differ *)
(* from the row it loaded.  No lock, no exclusion constraint.              *)
(***************************************************************************)
EXTENDS Naturals, FiniteSets

CONSTANTS Employees, Fleet,
          Slots,     \* row ids of vehicle_assignment_history
          Editors,   \* request threads
          LastDay,   \* the calendar is 1..LastDay
          NoValue    \* NULL; also a column that a request leaves alone

ASSUME AssignmentsAssumption ==
  /\ LastDay \in Nat \ {0}
  /\ NoValue \notin Nat \cup Employees \cup Fleet \cup Slots

VARIABLES assignment,  \* the rows, per slot
          edit,        \* what each request is about to write
          unseen,      \* history: rows committed by others while each request ran
          raced        \* history: sets {i, j} whose latest check did not see the other row;
                       \* {i}, a row that two requests wrote together

assignmentVars == <<assignment, edit, unseen, raced>>

Days == 1 .. LastDay
FreeSlot == [user |-> NoValue, vehicle |-> NoValue, starts |-> 1, ends |-> NoValue]
NoEdit == [slot |-> NoValue, row |-> FreeSlot, starts |-> NoValue, ends |-> {}]

AssignmentsInit ==
  /\ assignment = [i \in Slots |-> FreeSlot]
  /\ edit = [e \in Editors |-> NoEdit]
  /\ unseen = [e \in Editors |-> {}]
  /\ raced = {}

Taken == {i \in Slots : assignment[i].user # NoValue}

\* ends_at or date.max
EffectiveEnd(d) == IF d = NoValue THEN LastDay ELSE d

ValidDates(starts, ends) == ends # NoValue => starts <= ends

\* Mutant: the boundary days are exclusive.
RangesOverlapInside(starts, ends, otherStarts, otherEnds) ==
  starts < EffectiveEnd(otherEnds) /\ otherStarts < EffectiveEnd(ends)

RangesOverlap(starts, ends, otherStarts, otherEnds) ==
  starts <= EffectiveEnd(otherEnds) /\ otherStarts <= EffectiveEnd(ends)

NotOverlapping(row, exclude) ==
  \A i \in Taken \ exclude :
    assignment[i].user = row.user /\ assignment[i].vehicle = row.vehicle
      => ~RangesOverlap(row.starts, row.ends, assignment[i].starts, assignment[i].ends)

\* A request with its checks passed; `row` is what it validated.
Start(e, q) ==
  /\ edit[e] = NoEdit
  /\ edit' = [edit EXCEPT ![e] = q]
  /\ UNCHANGED <<assignment, unseen, raced>>

BeginAssign(e, i, row) ==
  /\ i \notin Taken
  /\ \A f \in Editors : edit[f].slot # i
  /\ ValidDates(row.starts, row.ends)
  /\ NotOverlapping(row, {})
  /\ Start(e, [slot |-> i, row |-> row, starts |-> row.starts, ends |-> {row.ends}])

\* PATCH: a date that is not sent stays; a column that does not change is not written.
BeginReassign(e, i, starts, ends) ==
  LET row == [assignment[i] EXCEPT !.starts = starts, !.ends = ends] IN
  /\ i \in Taken
  /\ ValidDates(starts, ends)
  /\ NotOverlapping(row, {i})
  /\ Start(e, [slot |-> i, row |-> row,
               starts |-> IF starts = assignment[i].starts THEN NoValue ELSE starts,
               ends |-> IF ends = assignment[i].ends THEN {} ELSE {ends}])

WrittenRow(e) ==
  LET q == edit[e] IN
  IF q.slot \in Taken
    THEN [assignment[q.slot] EXCEPT !.starts = IF q.starts = NoValue THEN @ ELSE q.starts,
                                    !.ends = IF q.ends = {} THEN @ ELSE CHOOSE d \in q.ends : TRUE]
    ELSE q.row

\* The row was checked against all others, except those in unseen[e].
Rechecked(e) ==
  {p \in raced : edit[e].slot \notin p} \cup {{edit[e].slot, j} : j \in unseen[e]}

SaveAssignment(e) ==
  LET i == edit[e].slot IN
  /\ i # NoValue
  /\ assignment' = [assignment EXCEPT ![i] = WrittenRow(e)]
  /\ raced' = Rechecked(e)
  /\ unseen' = [f \in Editors |-> IF f = e THEN {}
                                  ELSE IF edit[f].slot # NoValue THEN unseen[f] \cup {i} ELSE {}]
  /\ edit' = [edit EXCEPT ![e] = NoEdit]

CancelEdit(e) ==
  /\ edit[e].slot # NoValue
  /\ edit' = [edit EXCEPT ![e] = NoEdit]
  /\ unseen' = [unseen EXCEPT ![e] = {}]
  /\ UNCHANGED <<assignment, raced>>

AssignmentsNext ==
  \E e \in Editors :
       \/ \E i \in Slots, u \in Employees, v \in Fleet, s \in Days, d \in Days \cup {NoValue} :
            BeginAssign(e, i, [user |-> u, vehicle |-> v, starts |-> s, ends |-> d])
       \/ \E i \in Slots, s \in Days, d \in Days \cup {NoValue} : BeginReassign(e, i, s, d)
       \/ SaveAssignment(e)
       \/ CancelEdit(e)

AssignmentsSpec == AssignmentsInit /\ [][AssignmentsNext]_assignmentVars

----------------------------------------------------------------------------

DaysOf(i) == {d \in Days : assignment[i].starts <= d /\ d <= EffectiveEnd(assignment[i].ends)}

Rows == [user : Employees \cup {NoValue}, vehicle : Fleet \cup {NoValue},
         starts : Days, ends : Days \cup {NoValue}]

\* The rows have the shape of VehicleAssignmentHistory; a taken row has both ends.
AssignmentsTypeOK ==
  /\ assignment \in [Slots -> Rows]
  /\ edit \in [Editors -> [slot : Slots \cup {NoValue}, row : Rows,
                           starts : Days \cup {NoValue}, ends : SUBSET (Days \cup {NoValue})]]
  /\ unseen \in [Editors -> SUBSET Slots]
  /\ raced \in SUBSET (SUBSET Slots)

\* A stored period has at least one day, unless two requests wrote its two ends
\* (users.py:455).
PeriodsAreNotEmpty == \A i \in Taken : {i} \notin raced => DaysOf(i) # {}

\* On no day is an employee assigned twice to one vehicle, unless the later of the two
\* writes ran while the other committed (users.py:193).
AssignedOnce ==
  \A i, j \in Taken :
    /\ i # j /\ {i, j} \notin raced /\ {i} \notin raced /\ {j} \notin raced
    /\ assignment[i].user = assignment[j].user
    /\ assignment[i].vehicle = assignment[j].vehicle
    => DaysOf(i) \cap DaysOf(j) = {}

\* What the checks of a period promise together (users.py:167, 193).
AssignmentsHold == PeriodsAreNotEmpty /\ AssignedOnce
=============================================================================
