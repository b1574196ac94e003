--------------------------- MODULE ExpiryNotices ----------------------------
(***************************************************************************)
(* The warning that carried-forward PV is about to expire.  A daily job    *)
(* looks at the stronger leg of each distributor; when the oldest of its   *)
(* PV is close to its last day he gets a notification, unless he got one   *)
(* within the length of the warning.  One distributor is modelled, and a   *)
(* day's bucket holds a unit of PV or nothing.                             *)
(***************************************************************************)
EXTENDS Integers, FiniteSets, FiniteSetsExt

CONSTANTS
  Cycles,       \* workers that may run the job
  LastNightfall,\* bound: midnight passes until this day
  ExpiryDays,   \* PV_CARRY_FORWARD_EXPIRY_DAYS
  WarningDays   \* PV_EXPIRY_WARNING_DAYS

ASSUME ExpiryNoticesAssumption ==
  /\ LastNightfall \in Nat \ {0}
  /\ ExpiryDays \in Nat /\ WarningDays \in Nat

Sides == {"L", "R"}
Dates == 1 .. LastNightfall

VARIABLES
  date,      \* the current day
  carried,   \* the days whose bucket of a leg still holds PV
  notices,   \* the days on which a PV_EXPIRING notification was made
  cycleLock, \* is PV_EXPIRY_LOCK_KEY in the cache?
  cycle,     \* the progress of each run
  judged     \* the day of the last complete look at him, 0 if his PV moved since

noticeVars == <<date, carried, notices, cycleLock, cycle, judged>>

Asleep == [at |-> "idle", day |-> 0]

-----------------------------------------------------------------------------
(* get_carry_forward_summary *)

\* The buckets of a leg that are not expired on that day (sum_leg_pv).
Alive(leg, day) == {d \in carried[leg] : d >= day - ExpiryDays}

\* The leg with more PV, the left one of two equal ones.
StrongSide(day) ==
  IF Cardinality(Alive("L", day)) >= Cardinality(Alive("R", day)) THEN "L" ELSE "R"

\* The oldest PV of that leg has WarningDays or less to its last day.
NearingExpiry(day) ==
  LET alive == Alive(StrongSide(day), day)
  IN  alive # {} /\ Min(alive) + ExpiryDays - day <= WarningDays

-----------------------------------------------------------------------------
(* What moves the PV. *)

\* A purchase below him: today's bucket of a leg.
PvArrives(leg) ==
  /\ carried' = [carried EXCEPT ![leg] = @ \cup {date}]
  /\ carried' # carried
  /\ judged' = 0
  /\ UNCHANGED <<date, notices, cycleLock, cycle>>

Oldest(ds, n) == {d \in ds : Cardinality({e \in ds : e < d}) < n}

\* The binary bonus takes as much from both legs, the oldest first.
BonusUsesUp ==
  LET n == Min({Cardinality(Alive(leg, date)) : leg \in Sides})
  IN  /\ n > 0
      /\ carried' = [leg \in Sides |-> carried[leg] \ Oldest(Alive(leg, date), n)]
      /\ judged' = 0
      /\ UNCHANGED <<date, notices, cycleLock, cycle>>

-----------------------------------------------------------------------------
(* send_pv_expiry_notifications *)

\* Mutant of Covered: once warned, never again.
EverCovered(day) == Dates

\* The days that the dedup query covers, to the day: created_at has a time, and so
\* has run_at, so a notice of exactly WarningDays before may be in or out.
Covered(day) == {d \in Dates : d > day - WarningDays}

\* A notice of exactly WarningDays before.
Borderline(day) == {day - WarningDays}

\* The lock, and run_at for all that follows; distributor_ids_with_pending_pv.
StartCycle(r) ==
  /\ cycle[r].at = "idle" /\ ~cycleLock
  /\ cycleLock' = TRUE
  /\ cycle' = [cycle EXCEPT ![r] =
       [at |-> IF carried["L"] \cup carried["R"] = {} THEN "end" ELSE "judge", day |-> date]]
  /\ UNCHANGED <<date, carried, notices, judged>>

\* _notify_if_pv_nearing_expiry, the summary.
JudgePv(r) ==
  /\ cycle[r].at = "judge"
  /\ cycle' = [cycle EXCEPT ![r].at = IF NearingExpiry(cycle[r].day) THEN "dedup" ELSE "end"]
  /\ judged' = IF NearingExpiry(cycle[r].day) THEN 0 ELSE cycle[r].day
  /\ UNCHANGED <<date, carried, notices, cycleLock>>

\* The dedup query.
FindNotice(r) ==
  LET day == cycle[r].day
  IN  /\ cycle[r].at = "dedup"
      /\ \E told \in BOOLEAN :
           /\ notices \cap Covered(day) # {} => told
           /\ told => notices \cap (Covered(day) \cup Borderline(day)) # {}
           /\ cycle' = [cycle EXCEPT ![r].at = IF told THEN "end" ELSE "send"]
           /\ judged' = IF told THEN day ELSE judged
      /\ UNCHANGED <<date, carried, notices, cycleLock>>

\* send_notification
SendNotice(r) ==
  /\ cycle[r].at = "send"
  /\ notices' = notices \cup {date}
  /\ judged' = cycle[r].day
  /\ cycle' = [cycle EXCEPT ![r].at = "end"]
  /\ UNCHANGED <<date, carried, cycleLock>>

\* An exception: the run goes on with the next distributor.  Or the row cannot be
\* written, which the run takes for success.
LookFails(r) ==
  /\ cycle[r].at \in {"judge", "dedup", "send"}
  /\ cycle' = [cycle EXCEPT ![r].at = "end"]
  /\ UNCHANGED <<date, carried, notices, cycleLock, judged>>

EndCycle(r) ==
  /\ cycle[r].at = "end"
  /\ cycle' = [cycle EXCEPT ![r] = Asleep]
  /\ cycleLock' = FALSE
  /\ UNCHANGED <<date, carried, notices, judged>>

CycleDies(r) ==
  /\ cycle[r].at # "idle"
  /\ cycle' = [cycle EXCEPT ![r] = Asleep]
  /\ UNCHANGED <<date, carried, notices, cycleLock, judged>>

\* PV_EXPIRY_LOCK_TIMEOUT_SECONDS, which a live run renews for each distributor.
CycleLockLapses ==
  /\ cycleLock /\ \A r \in Cycles : cycle[r].at = "idle"
  /\ cycleLock' = FALSE
  /\ UNCHANGED <<date, carried, notices, cycle, judged>>

Nightfall ==
  /\ date < LastNightfall
  /\ date' = date + 1
  /\ UNCHANGED <<carried, notices, cycleLock, cycle, judged>>

-----------------------------------------------------------------------------
NoticeInit ==
  /\ date = 1
  /\ carried = [leg \in Sides |-> {}]
  /\ notices = {}
  /\ cycleLock = FALSE
  /\ cycle = [r \in Cycles |-> Asleep]
  /\ judged = 0

NoticeStep ==
  \/ \E r \in Cycles :
       StartCycle(r) \/ JudgePv(r) \/ FindNotice(r) \/ SendNotice(r) \/ EndCycle(r)
  \/ CycleLockLapses \/ Nightfall

NoticeEvent ==
  \/ \E leg \in Sides : PvArrives(leg)
  \/ BonusUsesUp
  \/ \E r \in Cycles : LookFails(r) \/ CycleDies(r)

NoticeTypeOK ==
  /\ date \in Dates
  /\ carried \in [Sides -> SUBSET Dates]
  /\ notices \subseteq Dates
  /\ cycleLock \in BOOLEAN
  /\ cycle \in [Cycles -> [at : {"idle", "judge", "dedup", "send", "end"}, day : 0 .. LastNightfall]]
  /\ judged \in 0 .. LastNightfall

\* PV of the stronger leg that has today for its last day.
LastDayOf(leg) == StrongSide(date) = leg /\ (date - ExpiryDays) \in carried[leg]


(***************************************************************************)
(* No PV of the stronger leg expires without a warning within its last     *)
(* WarningDays days, if the job looked at the distributor on its last day  *)
(* at all: though PV that another notice was about may have been used up   *)
(* since, and the one that follows was kept quiet because of that notice.  *)
(* And no two notices are closer than WarningDays                          *)
(* (notifications/tasks.py, "exactly one notification per episode").       *)
(***************************************************************************)
ExpiryIsAnnounced ==
  [][ /\ NoticeTypeOK'
      /\ date' # date /\ judged = date /\ (\E leg \in Sides : LastDayOf(leg)) =>
           \E n \in notices : n >= date - WarningDays
      /\ \A n \in notices' \ notices : n = date /\ \A m \in notices : n - m >= WarningDays
    ]_noticeVars

=============================================================================
