---------------------------- MODULE AlertReview ----------------------------
(* The life of a fraud alert: created by an evaluation, then reviewed by   *)
(* analysts over POST /alerts/{id}/review.  The handler reads the row,     *)
(* lets app/core/alert_state.py decide on what it has read, and writes the *)
(* row with no version check; the request's session commits when the       *)
(* answer is already on its way (app/dependencies.py, FastAPI 0.128 runs   *)
(* the exit code of a `yield` dependency after the response).              *)
(*                                                                         *)
(* A step is one call to PostgreSQL or the sending of the answer.          *)
(* PostgreSQL is at its default, READ COMMITTED: an UPDATE waits for the   *)
(* row's lock and then changes the row as it is, in the columns that the   *)
(* ORM found changed with respect to what the session has read.            *)
(*                                                                         *)
(* Left out: listing, filters, statistics, the rate limiter, the role      *)
(* check in front of the handler, the columns reviewed_at and review_notes *)
(* (written like reviewed_by), and the log lines that are all on_enter     *)
(* does.                                                                   *)
EXTENDS Integers

CONSTANTS
    Alerts,     \* ids of alerts
    Sessions,   \* requests that can be under way at a time
    Users,      \* analysts and administrators
    System,     \* SYSTEM_REVIEWER
    MaxFaults,  \* bound on the failures of PostgreSQL in a behaviour
    None        \* NULL, no row, no lock

ASSUME SystemAssumption == System \notin Users
ASSUME NoneAssumption ==
    /\ None \notin Users \cup {System} \cup Sessions
    /\ None \notin [status : {"pending", "escalated", "confirmed", "dismissed"},
                    by : Users \cup {System, None}]
ASSUME FaultsAssumption == MaxFaults \in Nat

Statuses == {"pending", "escalated", "confirmed", "dismissed"}

(* AlertReviewRequest refuses "pending" before the handler runs.           *)
Reviewable == {"escalated", "confirmed", "dismissed"}

(* AlertState.allowed_transitions of the four states.                      *)
Allowed ==
    [pending   |-> Reviewable,
     escalated |-> {"confirmed", "dismissed"},
     confirmed |-> {},
     dismissed |-> {}]

Row    == [status : Statuses, by : Users \cup {System, None}]
Review == [alert : Alerts, status : Reviewable, by : Users]

VARIABLES
    row,        \* fraud_alerts as committed
    rowLock,    \* the session whose transaction has updated the row
    pc,         \* where each session is, named for what it does next
    req,        \* the review it is asked for
    seen,       \* the row as its identity map holds it
    author,     \* history: who gave an alert its status
    stale,      \* history: an alert was overwritten by a session that had
                \*   not seen its last review
    faults      \* history: the failures so far

vars == <<row, rowLock, pc, req, seen, author, stale, faults>>

Writing == {"answer", "commit"}

TypeOK ==
    /\ row \in [Alerts -> Row \cup {None}]
    /\ rowLock \in [Alerts -> Sessions \cup {None}]
    /\ pc \in [Sessions -> {"idle", "review"} \cup Writing]
    /\ req \in [Sessions -> Review \cup {None}]
    /\ seen \in [Sessions -> Row \cup {None}]
    /\ \A s \in Sessions : pc[s] # "idle" => req[s] \in Review
    /\ \A s \in Sessions, a \in Alerts :
          rowLock[a] = s <=> pc[s] \in Writing /\ req[s].alert = a
    /\ author \in [Alerts -> Users \cup {System, None}]
    /\ stale \in [Alerts -> BOOLEAN]
    /\ faults \in Nat

Init ==
    /\ row = [a \in Alerts |-> None]
    /\ rowLock = [a \in Alerts |-> None]
    /\ pc = [s \in Sessions |-> "idle"]
    /\ req = [s \in Sessions |-> None]
    /\ seen = [s \in Sessions |-> None]
    /\ author = [a \in Alerts |-> None]
    /\ stale = [a \in Alerts |-> FALSE]
    /\ faults = 0

-----------------------------------------------------------------------------
Goto(s, label) == pc' = [pc EXCEPT ![s] = label]

Fault == faults < MaxFaults /\ faults' = faults + 1

(* validate_transition, on the status the session has read.                *)
AnyTransition(s) == seen[s] # None

CanReview(s) == seen[s] # None /\ req[s].status \in Allowed[seen[s].status]

(* The row after the UPDATE: a column set to the value that was read is    *)
(* not part of it.  The status always differs from the one read.           *)
KeepsReviewer(s) == [row[req[s].alert] EXCEPT !.status = req[s].status]

NamesFirstReviewer(s) ==
    [status |-> req[s].status,
     by     |-> IF seen[s].by # None THEN row[req[s].alert].by
                                     ELSE req[s].by]

Updated(s) ==
    [status |-> req[s].status,
     by     |-> IF req[s].by = seen[s].by THEN row[req[s].alert].by
                                          ELSE req[s].by]

(* The end of a session's transaction, by COMMIT or ROLLBACK.              *)
KeepsLock(s) == rowLock

Released(s) ==
    [a \in Alerts |-> IF rowLock[a] = s THEN None ELSE rowLock[a]]

(* The request is over and its session closed.                             *)
StartOver(s) == Goto(s, "review") /\ UNCHANGED <<req, seen>>

Finish(s) ==
    /\ Goto(s, "idle")
    /\ req' = [req EXCEPT ![s] = None]
    /\ seen' = [seen EXCEPT ![s] = None]

(* COMMIT takes effect: nobody else has changed the row since the UPDATE,  *)
(* its lock was held.                                                      *)
Write(s) ==
    LET a == req[s].alert IN
    /\ row' = [row EXCEPT ![a] = Updated(s)]
    /\ author' = [author EXCEPT ![a] = req[s].by]
    /\ stale' = [stale EXCEPT ![a] = @ \/ seen[s] # row[a]]

(* The alert as the evaluation's transaction leaves it: _auto_escalate     *)
(* has confirmed it, escalated it, or left it alone.                       *)
Created == [status : {"pending"}, by : {None}]
      \cup [status : {"escalated", "confirmed"}, by : {System}]

-----------------------------------------------------------------------------
(* An evaluation commits its unit of work.                                 *)
CreateAlert(a) ==
    /\ row[a] = None
    /\ \E r \in Created :
          /\ row' = [row EXCEPT ![a] = r]
          /\ author' = [author EXCEPT ![a] = r.by]
    /\ UNCHANGED <<rowLock, pc, req, seen, stale, faults>>

(* review_alert reads the alert.  The second get_by_id, in the repository, *)
(* returns the object of the identity map as it is.                        *)
ReadAlert(s) ==
    /\ pc[s] = "idle"
    /\ \E r \in Review :
          /\ req' = [req EXCEPT ![s] = r]
          /\ seen' = [seen EXCEPT ![s] = row[r.alert]]
    /\ Goto(s, "review")
    /\ UNCHANGED <<row, rowLock, author, stale, faults>>

(* 404 if there is no such alert, 422 if the transition is not allowed.    *)
Refuse(s) ==
    /\ pc[s] = "review"
    /\ ~CanReview(s)
    /\ Finish(s)
    /\ UNCHANGED <<row, rowLock, author, stale, faults>>

(* flush(): the UPDATE, once the row's lock can be had.                    *)
Update(s) ==
    /\ pc[s] = "review"
    /\ CanReview(s)
    /\ rowLock[req[s].alert] = None
    /\ rowLock' = [rowLock EXCEPT ![req[s].alert] = s]
    /\ Goto(s, "answer")
    /\ UNCHANGED <<row, req, seen, author, stale, faults>>

(* A statement fails: the session rolls back and the answer is a 500.      *)
Abort(s) ==
    /\ pc[s] \in {"review", "answer"}
    /\ Fault
    /\ rowLock' = Released(s)
    /\ Finish(s)
    /\ UNCHANGED <<row, author, stale>>

(* The handler returns, 200 is sent.                                       *)
Answer(s) ==
    /\ pc[s] = "answer"
    /\ Goto(s, "commit")
    /\ UNCHANGED <<row, rowLock, req, seen, author, stale, faults>>

(* get_db_session resumes after its yield.                                 *)
Commit(s) ==
    /\ pc[s] = "commit"
    /\ Write(s)
    /\ rowLock' = Released(s)
    /\ Finish(s)
    /\ UNCHANGED faults

(* COMMIT raises, whether PostgreSQL has carried it out or not.            *)
CommitError(s) ==
    /\ pc[s] = "commit"
    /\ Fault
    /\ Write(s) \/ UNCHANGED <<row, author, stale>>
    /\ rowLock' = Released(s)
    /\ Finish(s)

Turn(s) == Refuse(s) \/ Update(s) \/ Answer(s) \/ Commit(s)

Next ==
    \/ \E a \in Alerts : CreateAlert(a)
    \/ \E s \in Sessions :
          ReadAlert(s) \/ Turn(s) \/ Abort(s) \/ CommitError(s)

Spec == Init /\ [][Next]_vars

(* A handler that has started goes on to its end; clients need not come.   *)
FairSpec == Spec /\ \A s \in Sessions : WF_vars(Turn(s))

-----------------------------------------------------------------------------
(* A row names a reviewer exactly when its status is no longer pending,    *)
(* although an overwriting review may leave the reviewer's column out of   *)
(* its UPDATE (alert_repository.py:107-113).                               *)
RecordComplete ==
    \A a \in Alerts :
        row[a] # None => (row[a].status = "pending" <=> row[a].by = None)

(* As long as no review was written over one that its author had not seen, *)
(* a row names the person who gave it its status (alert_service.py:71-84,  *)
(* alert_repository.py:107-113).                                           *)
AuditUnlessStale ==
    \A a \in Alerts : row[a] # None /\ ~stale[a] => row[a].by = author[a]

Rank == [pending |-> 0, escalated |-> 1, confirmed |-> 2, dismissed |-> 2]

(* Nor does a review move the alert back or decide it a second time: only  *)
(* one that overwrites another it has not seen can (alert_state.py:69-116, *)
(* checked on a copy of the row that may be old).                          *)
ForwardUnlessStale ==
    [][\A a \in Alerts :
          row[a] # None /\ row'[a] # row[a] /\ ~stale'[a] =>
              Rank[row[a].status] < Rank[row'[a].status]]_vars

(* "Terminal state": a confirmed or dismissed alert is not changed again   *)
(* (alert_state.py:95 and 109).                                            *)
TerminalFinal ==
    [][\A a \in Alerts :
          (row[a] # None /\ Rank[row[a].status] = 2) =>
              row'[a].status = row[a].status]_vars

(* Every review that is under way comes to an end, however many of them    *)
(* wait for the same row and whichever of them fail                        *)
(* (dependencies.py:31-37).                                                *)
EveryReviewEnds == \A s \in Sessions : pc[s] = "review" ~> pc[s] = "idle"

=============================================================================
