------------------------------- MODULE Alerts -------------------------------
(***************************************************************************)
(* Two alarms for the admin.  The retail ratio: each confirmed, cancelled  *)
(* or refunded order is followed by a check that reads the ratio, gives up *)
(* when there is none, reads the flag of the last check, sends an email    *)
(* when the ratio has dropped below the minimum and writes the flag,       *)
(* without any lock.  SMS credit: an                                       *)
(* hourly check and every refused text raise the same alarm, at most once  *)
(* a day for "low" and for "out", by a key in the cache that expires.      *)
(***************************************************************************)
EXTENDS Integers, FiniteSets

CONSTANTS
  Askers,      \* the processes that run checks
  Nobody,      \* no process
  FullCredit,  \* bound: texts bought by a top-up
  Threshold    \* SMS_LOW_CREDIT_THRESHOLD

ASSUME AlertsAssumption ==
  /\ Nobody \notin Askers
  /\ FullCredit \in Nat /\ Threshold \in Nat

Kinds == {"low", "out"}

Ratios == {"above", "below", "none"}

VARIABLES
  ratio,    \* against RETAIL_PV_MINIMUM_PERCENT, or "none" without paid orders
  flag,     \* ComplianceAlertState.is_below_threshold
  credit,   \* texts left at mNotify
  shown,    \* SmsCreditStatus.credits, what the banner is drawn from
  key,      \* the alert limit of each kind: "free", "day" or "short"
  at,       \* where each process is
  found,    \* the ratio that a check has read
  read,     \* the balance that a process has read
  alone,    \* the ratio check that has run alone so far, or Nobody
  measured, \* what the last check with a ratio found, "unknown" if others ran beside it
  heard,    \* kinds an admin was told of since their key was last free
  silenced  \* kinds whose alarm was lost with its process, or its limit with the cache

ratioVars == <<ratio, flag, found, alone, measured>>
creditVars == <<credit, shown, key, heard, silenced>>
alertVars == <<ratioVars, creditVars, at, read>>

Goes(p, where) == at' = [at EXCEPT ![p] = where]

Begins(p, where) == at[p] = "idle" /\ Goes(p, where)

RatioSteps == {"ratio", "flag", "mail", "raise", "lower"}

Checking == {p \in Askers : at[p] \in RatioSteps}

-----------------------------------------------------------------------------
(* check_retail_ratio_and_alert *)

\* An order is confirmed, cancelled or refunded, and the check comes next.
OrderMoves(p) ==
  /\ Begins(p, "ratio")
  /\ ratio' \in Ratios
  /\ alone' = IF Checking = {} THEN p ELSE Nobody
  /\ UNCHANGED <<flag, found, measured, creditVars, read>>

\* The minimum is edited: the ratio is measured against another one, and no
\* check follows.
MinimumMoves ==
  /\ ratio # "none"
  /\ ratio' = IF ratio = "above" THEN "below" ELSE "above"
  /\ UNCHANGED <<flag, found, alone, measured, creditVars, at, read>>

Rests(p) ==
  /\ alone' = IF alone = p THEN Nobody ELSE alone
  /\ found' = [found EXCEPT ![p] = "none"]
  /\ Goes(p, "idle")

\* Mutant of NoRatio: without a paid order the flag is lowered like after a recovery.
NoRatioLowers(p) == Rests(p) /\ flag' = FALSE /\ UNCHANGED measured

\* Without a paid order there is nothing to judge: the flag is left as it is.
NoRatio(p) == Rests(p) /\ UNCHANGED <<flag, measured>>

\* get_retail_distributor_ratio, against the minimum.
ReadRatio(p) ==
  /\ at[p] = "ratio"
  /\ IF ratio = "none"
       THEN NoRatio(p)
       ELSE /\ found' = [found EXCEPT ![p] = ratio]
            /\ Goes(p, "flag")
            /\ UNCHANGED <<flag, alone, measured>>
  /\ UNCHANGED <<ratio, creditVars, read>>

\* The check is over: what it found counts if no other one ran beside it.
CheckEnds(p) ==
  /\ measured' = IF alone = p THEN found[p] ELSE "unknown"
  /\ Rests(p)

\* Only a change is acted on.
ReadFlag(p) ==
  /\ at[p] = "flag"
  /\ IF (found[p] = "below") = flag
       THEN CheckEnds(p)
       ELSE /\ Goes(p, IF flag THEN "lower" ELSE "mail")
            /\ UNCHANGED <<found, alone, measured>>
  /\ UNCHANGED <<ratio, flag, creditVars, read>>

\* Sent, failed or not configured: it is the same for what follows.
MailRatio(p) ==
  /\ at[p] = "mail"
  /\ Goes(p, "raise")
  /\ UNCHANGED <<ratioVars, creditVars, read>>

WriteFlag(p) ==
  /\ at[p] \in {"raise", "lower"}
  /\ flag' = (at[p] = "raise")
  /\ CheckEnds(p)
  /\ UNCHANGED <<ratio, creditVars, read>>

\* The process dies in the middle of a check.
CheckDies(p) ==
  /\ at[p] \in RatioSteps
  /\ Rests(p)
  /\ UNCHANGED <<ratio, flag, measured, creditVars, read>>

-----------------------------------------------------------------------------
(* SMS credit: check_sms_credit, alert_admin_about_sms_credit *)

\* The kind of shortage a balance is (_shortage_kind), "none" when healthy.
Shortage(n) == IF n <= 0 THEN "out" ELSE IF n < Threshold THEN "low" ELSE "none"

Freed(ks) ==
  /\ key' = [k \in Kinds |-> IF k \in ks THEN "free" ELSE key[k]]
  /\ heard' = heard \ ks
  /\ silenced' = silenced \ ks

\* mNotify refuses a text with 402: the balance is known to be 0.
TextIsRefused(p) ==
  /\ credit = 0
  /\ Begins(p, "alarm")
  /\ read' = [read EXCEPT ![p] = 0]
  /\ shown' = 0
  /\ UNCHANGED <<ratioVars, credit, key, heard, silenced>>

\* get_sms_credit_balance
AskBalance(p) ==
  /\ Begins(p, "judge")
  /\ read' = [read EXCEPT ![p] = credit]
  /\ UNCHANGED <<ratioVars, creditVars>>

\* record_sms_credit, then the alarm, or the limits are lifted.
JudgeBalance(p) ==
  /\ at[p] = "judge"
  /\ shown' = read[p]
  /\ IF Shortage(read[p]) = "none"
       THEN Freed(Kinds) /\ Goes(p, "idle") /\ read' = [read EXCEPT ![p] = 0]
       ELSE Goes(p, "alarm") /\ UNCHANGED <<key, heard, silenced, read>>
  /\ UNCHANGED <<ratioVars, credit>>

\* cache.add: the first of the day goes on.
ClaimAlarm(p) ==
  LET k == Shortage(read[p])
  IN  /\ at[p] = "alarm"
      /\ IF key[k] = "free"
           THEN /\ key' = [key EXCEPT ![k] = "day"]
                /\ Goes(p, "tell") /\ UNCHANGED read
           ELSE /\ UNCHANGED key
                /\ Goes(p, "idle") /\ read' = [read EXCEPT ![p] = 0]
      /\ UNCHANGED <<ratioVars, credit, shown, heard, silenced>>

\* The email or the bell reaches the admin.
AdminHears(p) ==
  /\ at[p] = "tell"
  /\ heard' = heard \cup {Shortage(read[p])}
  /\ Goes(p, "idle") /\ read' = [read EXCEPT ![p] = 0]
  /\ UNCHANGED <<ratioVars, credit, shown, key, silenced>>

\* Neither does.
NobodyHears(p) ==
  /\ at[p] = "tell"
  /\ Goes(p, "shorten")
  /\ UNCHANGED <<ratioVars, creditVars, read>>

\* Mutant of RetryLimit: an alarm that failed is as quiet as one that was heard.
FullLimit == "day"

\* The limit an alarm gets that reached nobody: ALERT_RETRY_SECONDS.
RetryLimit == "short"

ShortenLimit(p) ==
  /\ at[p] = "shorten"
  /\ key' = [key EXCEPT ![Shortage(read[p])] = RetryLimit]
  /\ Goes(p, "idle") /\ read' = [read EXCEPT ![p] = 0]
  /\ UNCHANGED <<ratioVars, credit, shown, heard, silenced>>

\* The process dies in the middle of an alarm.
AlarmDies(p) ==
  /\ at[p] \in {"tell", "shorten"}
  /\ silenced' = silenced \cup {Shortage(read[p])}
  /\ Goes(p, "idle") /\ read' = [read EXCEPT ![p] = 0]
  /\ UNCHANGED <<ratioVars, credit, shown, key, heard>>

\* The cache fails: the limits are not lifted, the alarm is not raised for fear of
\* raising it with every text, or the day's limit stands though nobody heard.
CacheFails(p) ==
  /\ \/ /\ at[p] = "judge" /\ Shortage(read[p]) = "none"
        /\ shown' = read[p] /\ UNCHANGED silenced
     \/ at[p] = "alarm" /\ UNCHANGED <<shown, silenced>>
     \/ /\ at[p] = "shorten"
        /\ silenced' = silenced \cup {Shortage(read[p])} /\ UNCHANGED shown
  /\ Goes(p, "idle") /\ read' = [read EXCEPT ![p] = 0]
  /\ UNCHANGED <<ratioVars, credit, key, heard>>

LimitLapses(k) ==
  /\ key[k] # "free"
  /\ Freed({k})
  /\ UNCHANGED <<ratioVars, credit, shown, at, read>>

TextIsSent == credit > 0 /\ credit' = credit - 1

TopUp == credit < FullCredit /\ credit' = FullCredit

CreditMoves ==
  /\ TextIsSent \/ TopUp
  /\ UNCHANGED <<ratioVars, shown, key, heard, silenced, at, read>>

-----------------------------------------------------------------------------
AlertInit ==
  /\ ratio = "none" /\ flag = FALSE
  /\ credit = FullCredit /\ shown = FullCredit
  /\ key = [k \in Kinds |-> "free"]
  /\ at = [p \in Askers |-> "idle"]
  /\ read = [p \in Askers |-> 0]
  /\ found = [p \in Askers |-> "none"]
  /\ alone = Nobody /\ measured = "above"
  /\ heard = {} /\ silenced = {}

AlertStep ==
  \/ \E p \in Askers :
       \/ ReadRatio(p) \/ ReadFlag(p) \/ MailRatio(p) \/ WriteFlag(p)
       \/ JudgeBalance(p) \/ ClaimAlarm(p) \/ AdminHears(p) \/ ShortenLimit(p)
  \/ \E k \in Kinds : LimitLapses(k)

AlertEvent ==
  \/ \E p \in Askers :
       \/ OrderMoves(p) \/ TextIsRefused(p) \/ AskBalance(p)
       \/ NobodyHears(p) \/ AlarmDies(p) \/ CheckDies(p) \/ CacheFails(p)
  \/ MinimumMoves \/ CreditMoves

AlertTypeOK ==
  /\ ratio \in Ratios /\ flag \in BOOLEAN
  /\ measured \in {"above", "below", "unknown"}
  /\ found \in [Askers -> Ratios]
  /\ credit \in 0 .. FullCredit /\ shown \in 0 .. FullCredit
  /\ key \in [Kinds -> {"free", "day", "short"}]
  /\ at \in [Askers -> RatioSteps \cup {"idle", "judge", "alarm", "tell", "shorten"}]
  /\ read \in [Askers -> Nat]
  /\ alone \in Askers \cup {Nobody}
  /\ heard \subseteq Kinds /\ silenced \subseteq Kinds

(***************************************************************************)
(* The flag is the last judgement: it is raised when the last check that   *)
(* had a ratio found it below the minimum, and not when it found it above, *)
(* whatever overlapping checks had left in the flag before, however many   *)
(* checks since had no ratio and said nothing or died on the way.  An email*)
(* hangs on this alone: it goes out when a ratio below the minimum follows *)
(* one above it (check_retail_ratio_and_alert).  While checks overlap      *)
(* nothing is promised, and until the next one that runs alone.            *)
(***************************************************************************)
RatioFlagIsRight == measured # "unknown" => flag = (measured = "below")

(***************************************************************************)
(* A day of silence is only granted to an alarm that somebody heard: a     *)
(* limit that lasts a day means that an email or the bell got through, or  *)
(* is under way, or that its process died, or the cache failed, in between.*)
(* An alarm that failed on both channels, while others lift or take the    *)
(* same limit, is tried again soon (alert_admin_about_sms_credit).         *)
(***************************************************************************)
QuietMeansTold ==
  \A k \in Kinds :
    key[k] = "day" =>
      \/ k \in heard \cup silenced
      \/ \E p \in Askers : at[p] \in {"tell", "shorten"} /\ Shortage(read[p]) = k

\* Both alarms tell the truth (compliance/services.py, notifications/sms_alerts.py).
AlarmsAreTrue == AlertTypeOK /\ RatioFlagIsRight /\ QuietMeansTold

=============================================================================
