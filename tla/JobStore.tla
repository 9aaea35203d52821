------------------------------- MODULE JobStore -------------------------------
(***************************************************************************)
(* The durable job table of client/job_store.py: one row per job in a      *)
(* SQLite file opened in autocommit mode, so every write below is one      *)
(* commit.  Operators take a table and return the table after the call.    *)
(* Timestamps, the error text and the stored name are left out: no guard   *)
(* of the client reads them (retention by age is a choice of the caller).  *)
(***************************************************************************)
EXTENDS Naturals

CONSTANTS Jobs,        \* the job ids the uploaders ever generate
          MaxRetries   \* client.max_job_retries of config.yaml

ASSUME MaxRetriesIsNat == MaxRetries \in Nat

Terminal == {"DONE", "FAILED"}
JobState == {"DISCOVERED", "CLAIMED", "DOWNLOADED", "RECORDED", "UPLOADED"}
              \cup Terminal

Row == [state: JobState \cup {"ABSENT"}, retries: Nat]
NoRow == [state |-> "ABSENT", retries |-> 0]   \* get() returns None

EmptyTable == [j \in Jobs |-> NoRow]

\* INSERT a DISCOVERED row, or keep the row that is already there.
UpsertDiscovered(t, j) ==
    IF t[j].state = "ABSENT"
    THEN [t EXCEPT ![j] = [state |-> "DISCOVERED", retries |-> 0]]
    ELSE t

\* An UPDATE: it touches the state column only, and no row that is absent.
SetState(t, j, s) ==
    IF t[j].state = "ABSENT"
    THEN t
    ELSE [t EXCEPT ![j] = [state |-> s, retries |-> @.retries]]

\* The retry counter is shared by download, recording and upload and is
\* never reset by a success.
RecordFailure(t, j) ==
    [t EXCEPT ![j] = [state |-> @.state, retries |-> @.retries + 1]]

\* Mutants: the last attempt is not granted, or one is granted too many.
BudgetSpentEarly(t, j) == t[j].retries + 1 >= MaxRetries

BudgetSpentLate(t, j) == t[j].retries > MaxRetries

\* What record_failure returns, asked of the table after the UPDATE.
BudgetSpent(t, j) == t[j].retries >= MaxRetries

JobsInState(t, s) == {j \in Jobs : t[j].state = s}
===============================================================================
