----------------------------- MODULE Reporting ------------------------------
(***************************************************************************)
(* The nightly roll-up of sales: one DailyOrderRollup row for each day that*)
(* is over, which is all that the sales reports ever read.  The job keeps  *)
(* no cursor: every run looks for the days of its window that have no row. *)
(* Runs fail, are killed and overlap, an operator recomputes days by hand, *)
(* and midnight passes at any time.                                        *)
(***************************************************************************)
EXTENDS Integers, FiniteSets

CONSTANTS
  Runners,        \* the task workers that may run the job
  LastDay,        \* bound: midnight passes until this day
  Lookback,       \* GAP_LOOKBACK_DAYS
  PerRun          \* MAX_ROLLUP_DAYS_PER_RUN

ASSUME ReportingAssumption ==
  LastDay \in Nat /\ Lookback \in Nat \ {0} /\ PerRun \in Nat \ {0}

Days == 1 .. LastDay

VARIABLES
  today,      \* the current day
  row,        \* a day's DailyOrderRollup and DailyProductSales rows
  runLock,    \* is REPORT_ROLLUP_LOCK_KEY in the cache?
  rolling,    \* runners in the middle of a run
  todo        \* dates_to_process, the days a run has left

reportVars == <<today, row, runLock, rolling, todo>>

\* compute_daily_rollup: both tables in one transaction, from the orders as
\* they are now, so a day that is not over gets the figures of a part of it.
Computed(d) == [row EXCEPT ![d] = IF d < today THEN "whole" ELSE "part"]

InWindow(d) == d < today /\ d > today - 1 - Lookback

\* Mutant of Missing: a cursor, the days after the newest row.
AfterNewest == {d \in Days : InWindow(d) /\ \A e \in Days : row[e] # "none" => e < d}

\* missing_dates_newest_first
Missing == {d \in Days : InWindow(d) /\ row[d] = "none"}

NewestOf(ds) == {d \in ds : Cardinality({e \in ds : e > d}) < PerRun}

\* compute_yesterdays_rollup, up to its loop. With the lock held the trigger
\* is skipped.
StartRun(r) ==
  /\ r \notin rolling
  /\ ~runLock
  /\ runLock' = TRUE
  /\ rolling' = rolling \cup {r}
  /\ todo' = [todo EXCEPT ![r] = NewestOf(Missing)]
  /\ UNCHANGED <<today, row>>

\* The run is over, and its finally clause deletes the lock, whosever it is.
EndsRun(r) ==
  /\ runLock' = FALSE
  /\ rolling' = rolling \ {r}
  /\ todo' = [todo EXCEPT ![r] = {}]

\* The chosen days are taken oldest first.
RollDay(r) ==
  /\ r \in rolling
  /\ \E d \in todo[r] :
       /\ \A e \in todo[r] : d <= e
       /\ row' = Computed(d)
       /\ todo' = [todo EXCEPT ![r] = @ \ {d}]
  /\ UNCHANGED <<today, runLock, rolling>>

\* A day that cannot be computed ends the run, and leaves the rest of its
\* days to later ones.
DayFails(r) ==
  /\ r \in rolling /\ todo[r] # {}
  /\ EndsRun(r)
  /\ UNCHANGED <<today, row>>

FinishRun(r) ==
  /\ r \in rolling /\ todo[r] = {}
  /\ EndsRun(r)
  /\ UNCHANGED <<today, row>>

\* A killed worker deletes nothing.
RunIsKilled(r) ==
  /\ r \in rolling
  /\ rolling' = rolling \ {r}
  /\ todo' = [todo EXCEPT ![r] = {}]
  /\ UNCHANGED <<today, row, runLock>>

\* REPORT_ROLLUP_LOCK_TIMEOUT_SECONDS pass, whether or not the run is over.
RunLockLapses ==
  /\ runLock
  /\ runLock' = FALSE
  /\ UNCHANGED <<today, row, rolling, todo>>

\* manage.py backfill_report_rollup, for any day so far.
Backfill(d) ==
  /\ d <= today
  /\ row' = Computed(d)
  /\ UNCHANGED <<today, runLock, rolling, todo>>

Midnight ==
  /\ today < LastDay
  /\ today' = today + 1
  /\ UNCHANGED <<row, runLock, rolling, todo>>

-----------------------------------------------------------------------------
ReportInit ==
  /\ today = 1
  /\ row = [d \in Days |-> "none"]
  /\ runLock = FALSE
  /\ rolling = {}
  /\ todo = [r \in Runners |-> {}]

\* What the job does by itself, and what befalls it.
ReportStep ==
  \/ \E r \in Runners : StartRun(r) \/ RollDay(r) \/ FinishRun(r)
  \/ RunLockLapses

ReportEvent ==
  \/ \E r \in Runners : DayFails(r) \/ RunIsKilled(r)
  \/ \E d \in Days : Backfill(d)
  \/ Midnight

ReportTypeOK ==
  /\ today \in {1} \cup Days
  /\ row \in [Days -> {"none", "part", "whole"}]
  /\ runLock \in BOOLEAN
  /\ rolling \subseteq Runners
  /\ todo \in [Runners -> SUBSET Days]

\* The days of the window without a row.
Gaps == {d \in Days : InWindow(d) /\ row[d] = "none"}

(***************************************************************************)
(* Every day that is over gets its row, unless it left the window first (so *)
(* a time comes when the window has no gap):                               *)
(* failed runs, killed runs, overlapping runs and days filled in by hand   *)
(* in any order never make the job step over a gap (the flaw of the cursor *)
(* it once kept, GAP_LOOKBACK_DAYS in reporting/tasks.py).                 *)
(***************************************************************************)
EveryDayIsReported ==
  /\ []ReportTypeOK
  /\ (Gaps # {}) ~> (Gaps = {})

=============================================================================
