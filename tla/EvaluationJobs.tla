--------------------------- MODULE EvaluationJobs ---------------------------
(***************************************************************************)
(* The table evaluation_jobs, which is the platform's work queue           *)
(* (backend/internal/repository/postgres/broker.go).                       *)
(*                                                                         *)
(* A job is a row.  Time is kept only as far as the queue's statements can *)
(* tell it: `leased' is leased_until >= now(), `due' is available_at <=    *)
(* now(), and the relation `ahead' is the order of available_at among the  *)
(* due rows.  Rows written by one transaction share one now() and are not  *)
(* ordered.  Each operator below is one statement on the table; the        *)
(* modules that extend this one say which transaction issues it.           *)
(***************************************************************************)
EXTENDS Integers, FiniteSets

CONSTANTS
  JobIds,       \* the identifiers jobs can be given
  Messages,     \* what a row can carry (its topic and its payload)
  NoMessage,    \* the message of an identifier nothing was published under
  MaxAttempts   \* the column max_attempts

ASSUME JobConstants ==
  /\ MaxAttempts \in Nat \ {0}
  /\ NoMessage \notin Messages

VARIABLES
  jobs,         \* the row of each identifier
  ahead         \* <<i, j>>: both rows are due, i's available_at is the earlier

jobVars == <<jobs, ahead>>

JobRow == [state   : {"free", "queued", "acked"},
           msg     : Messages \cup {NoMessage},
           attempt : 0 .. MaxAttempts,
           leased  : BOOLEAN,
           due     : BOOLEAN]

FreeRow == [state |-> "free", msg |-> NoMessage, attempt |-> 0,
            leased |-> FALSE, due |-> FALSE]

JobsTypeOK ==
  /\ jobs \in [JobIds -> JobRow]
  /\ ahead \in SUBSET (JobIds \X JobIds)

JobsInit ==
  /\ jobs = [i \in JobIds |-> FreeRow]
  /\ ahead = {}

InQueue(i) == jobs[i].state = "queued"
FreeIds == {i \in JobIds : jobs[i].state = "free"}
Due == {i \in JobIds : InQueue(i) /\ jobs[i].due}

\* A row whose attempts are spent stays in the table and is never leased again.
Exhausted(i) == InQueue(i) /\ jobs[i].attempt = MaxAttempts

-----------------------------------------------------------------------------
(* The statements                                                          *)

\* INSERT of one row per element of batch's domain, all in one transaction.
Publish(batch) ==
  /\ jobs' = [i \in JobIds |->
                IF i \in DOMAIN batch
                THEN [state |-> "queued", msg |-> batch[i], attempt |-> 0,
                      leased |-> FALSE, due |-> TRUE]
                ELSE jobs[i]]
  /\ ahead' = ahead \cup (Due \X DOMAIN batch)

\* (Two faulty predicates the runs must reject: no bound on attempts, and no
\* redelivery.)
ClaimableForEver == {i \in JobIds : InQueue(i) /\ jobs[i].due /\ ~jobs[i].leased}
ClaimableOnce == {i \in ClaimableForEver : jobs[i].attempt = 0}

Claimable == {i \in JobIds : /\ InQueue(i)
                             /\ jobs[i].due
                             /\ ~jobs[i].leased
                             /\ jobs[i].attempt < MaxAttempts}

\* ORDER BY available_at LIMIT limit over the claimable rows: every choice the
\* order leaves open.
NextBatch(limit) ==
  {S \in SUBSET Claimable :
     /\ Cardinality(S) = IF Cardinality(Claimable) < limit
                         THEN Cardinality(Claimable) ELSE limit
     /\ \A i \in S, j \in Claimable \ S : <<j, i>> \notin ahead}

\* (A fault: the delivery is not counted.)
LeaseRowsUncounted(S) ==
  /\ jobs' = [i \in JobIds |->
                IF i \in S THEN [jobs[i] EXCEPT !.leased = TRUE] ELSE jobs[i]]
  /\ UNCHANGED ahead

\* The UPDATE of Consume: the rows are leased and their delivery is counted.
LeaseRows(S) ==
  /\ jobs' = [i \in JobIds |->
                IF i \in S
                THEN [jobs[i] EXCEPT !.leased = TRUE, !.attempt = @ + 1]
                ELSE jobs[i]]
  /\ UNCHANGED ahead

\* i's available_at no longer ranks it among the due rows.
OutOfOrder(i) == ahead' = {p \in ahead : p[1] # i /\ p[2] # i}

\* DELETE of the row.  Ack fails with ErrNotFound when there is none, so the
\* caller states InQueue(i) where that failure rolls its transaction back.
AckRow(i) ==
  /\ jobs' = [jobs EXCEPT ![i].state = "acked", ![i].leased = FALSE,
                          ![i].due = FALSE]
  /\ OutOfOrder(i)

\* Nack releases the lease whoever holds it and pushes available_at out.
NackRow(i) ==
  /\ jobs' = [jobs EXCEPT ![i].leased = FALSE, ![i].due = FALSE]
  /\ OutOfOrder(i)

-----------------------------------------------------------------------------
(* The passage of time                                                     *)

\* leased_until passes; the row keeps its place, available_at is not touched.
LeaseLapses(i) ==
  /\ InQueue(i) /\ jobs[i].leased
  /\ jobs' = [jobs EXCEPT ![i].leased = FALSE]
  /\ UNCHANGED ahead

\* A backed-off row's available_at passes: it is due behind the rows already due.
BackoffEnds(i) ==
  /\ InQueue(i) /\ ~jobs[i].due
  /\ jobs' = [jobs EXCEPT ![i].due = TRUE]
  /\ ahead' = ahead \cup (Due \X {i})
=============================================================================
