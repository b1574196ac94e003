-------------------------- MODULE Oversight_proofs --------------------------
(***************************************************************************)
(* Proofs of what people are told and shown: alarms, live figures, receipts *)
(* and notices, for any number of processes, pages and orders, and however  *)
(* many of them fail.                                                       *)
(***************************************************************************)
EXTENDS OversightInvariant, Induction_proofs, SequenceTheorems

\* Each part sees only its own steps.
LEMMA PartsSteps ==
  ASSUME [Next]_vars
  PROVE  /\ [AlertStep \/ AlertEvent]_alertVars
         /\ [LiveStep \/ LiveEvent]_liveVars
         /\ [ReceiptStep \/ ReceiptEvent]_receiptVars
         /\ [NoticeStep \/ NoticeEvent]_noticeVars
         /\ UNCHANGED part
BY DEF Next, vars, restVars, Report, Alarm, Show, Receipt, Notice

-----------------------------------------------------------------------------
(* Alerts.                                                                  *)

LEMMA ShortageKinds ==
  /\ \A n \in Nat : Shortage(n) \in Kinds \cup {"none"}
  /\ Shortage(0) = "out"
BY AlertsAssumption DEF Shortage, Kinds

\* What a step of a ratio check does to the rest: nothing.
RatioStep(p) == ReadRatio(p) \/ ReadFlag(p) \/ MailRatio(p) \/ WriteFlag(p) \/ CheckDies(p)

LEMMA RatioStepFacts ==
  ASSUME AlertTypeOK, NEW p \in Askers, RatioStep(p) \/ OrderMoves(p)
  PROVE  /\ at'[p] \in RatioSteps \cup {"idle"} /\ at[p] \in RatioSteps \cup {"idle"}
         /\ at' = [at EXCEPT ![p] = at'[p]]
         /\ UNCHANGED <<creditVars, read>>
<1> USE DEF AlertTypeOK, Goes, Begins, Rests, CheckEnds, NoRatio, RatioSteps, creditVars
<1>1. CASE ReadRatio(p)
  <2>1. CASE ratio = "none"
    BY <1>1, <2>1 DEF ReadRatio
  <2>2. CASE ratio # "none"
    BY <1>1, <2>2 DEF ReadRatio
  <2> QED
    BY <2>1, <2>2
<1>2. CASE ReadFlag(p)
  <2>1. CASE (found[p] = "below") = flag
    BY <1>2, <2>1 DEF ReadFlag
  <2>2. CASE (found[p] = "below") # flag
    <3>1. at' = [at EXCEPT ![p] = "lower"] \/ at' = [at EXCEPT ![p] = "mail"]
      BY <1>2, <2>2 DEF ReadFlag
    <3> QED
      BY <1>2, <3>1 DEF ReadFlag
  <2> QED
    BY <2>1, <2>2
<1>3. CASE MailRatio(p) \/ WriteFlag(p) \/ CheckDies(p) \/ OrderMoves(p)
  BY <1>3 DEF MailRatio, WriteFlag, CheckDies, OrderMoves
<1> QED
  BY <1>1, <1>2, <1>3 DEF RatioStep

LEMMA AlertTyped ==
  ASSUME AlertTypeOK, AlarmsHaveReasons, [AlertStep \/ AlertEvent]_alertVars
  PROVE  AlertTypeOK'
<1> USE AlertsAssumption DEF AlertTypeOK, Goes, Begins, RatioSteps, Ratios
<1>0. ASSUME NEW p \in Askers, RatioStep(p) \/ OrderMoves(p) PROVE AlertTypeOK'
  <2>1. /\ at' = [at EXCEPT ![p] = at'[p]] /\ at'[p] \in RatioSteps \cup {"idle"}
        /\ UNCHANGED <<creditVars, read>>
    BY <1>0, RatioStepFacts
  <2>2. ratio' \in Ratios /\ flag' \in BOOLEAN
    <3>1. CASE ReadRatio(p) \/ ReadFlag(p)
      BY <3>1 DEF ReadRatio, ReadFlag, NoRatio
    <3>2. CASE MailRatio(p) \/ WriteFlag(p) \/ CheckDies(p) \/ OrderMoves(p)
      BY <3>2 DEF MailRatio, WriteFlag, CheckDies, OrderMoves, ratioVars
    <3> QED
      BY <1>0, <3>1, <3>2 DEF RatioStep
  <2>3. found' \in [Askers -> Ratios] /\ alone' \in Askers \cup {Nobody}
    <3>1. CASE UNCHANGED <<found, alone>> \/ Rests(p)
      BY <3>1 DEF Rests
    <3>2. CASE ReadRatio(p)
      BY <3>1, <3>2 DEF ReadRatio, NoRatio
    <3>3. CASE ReadFlag(p)
      BY <3>1, <3>3 DEF ReadFlag, CheckEnds
    <3>4. CASE MailRatio(p) \/ WriteFlag(p) \/ CheckDies(p)
      BY <3>1, <3>4 DEF MailRatio, WriteFlag, CheckDies, ratioVars, CheckEnds
    <3>5. CASE OrderMoves(p)
      BY <3>5 DEF OrderMoves
    <3> QED
      BY <1>0, <3>2, <3>3, <3>4, <3>5 DEF RatioStep
  <2>4. measured' \in {"above", "below", "unknown"}
    <3>1. CASE UNCHANGED measured
      BY <3>1
    <3>2. CASE CheckEnds(p) /\ found[p] # "none"
      BY <3>2 DEF CheckEnds
    <3>3. CASE ReadFlag(p) \/ WriteFlag(p)
      BY <3>1, <3>2, <3>3 DEF ReadFlag, WriteFlag, AlarmsHaveReasons
    <3>4. CASE ReadRatio(p) \/ MailRatio(p) \/ CheckDies(p) \/ OrderMoves(p)
      BY <3>1, <3>4 DEF ReadRatio, NoRatio, MailRatio, CheckDies, OrderMoves, ratioVars
    <3> QED
      BY <1>0, <3>3, <3>4 DEF RatioStep
  <2> QED
    BY <2>1, <2>2, <2>3, <2>4 DEF creditVars
<1>2. ASSUME NEW p \in Askers, JudgeBalance(p) PROVE AlertTypeOK'
  <2>1. read[p] \in 0 .. FullCredit
    BY <1>2 DEF JudgeBalance, AlarmsHaveReasons
  <2>2. CASE Shortage(read[p]) = "none"
    BY <1>2, <2>1, <2>2 DEF JudgeBalance, Freed, ratioVars
  <2>3. CASE Shortage(read[p]) # "none"
    BY <1>2, <2>1, <2>3 DEF JudgeBalance, ratioVars
  <2> QED
    BY <2>2, <2>3
<1>3. ASSUME NEW p \in Askers, ClaimAlarm(p) PROVE AlertTypeOK'
  BY <1>3 DEF ClaimAlarm, ratioVars
<1>4. ASSUME NEW p \in Askers, AdminHears(p) \/ AlarmDies(p) PROVE AlertTypeOK'
  BY <1>4 DEF AdminHears, AlarmDies, ratioVars, AlarmsHaveReasons
<1>5. ASSUME NEW p \in Askers, ShortenLimit(p) \/ NobodyHears(p) PROVE AlertTypeOK'
  BY <1>5 DEF ShortenLimit, NobodyHears, RetryLimit, ratioVars, creditVars
<1>6. ASSUME NEW k \in Kinds, LimitLapses(k) PROVE AlertTypeOK'
  BY <1>6 DEF LimitLapses, Freed, ratioVars
<1>7. ASSUME NEW p \in Askers, TextIsRefused(p) \/ AskBalance(p) \/ CacheFails(p)
      PROVE  AlertTypeOK'
  <2>1. CASE TextIsRefused(p)
    BY <2>1 DEF TextIsRefused, ratioVars
  <2>2. CASE AskBalance(p)
    BY <2>2 DEF AskBalance, ratioVars, creditVars
  <2>3. CASE CacheFails(p)
    <3>1. shown' \in 0 .. FullCredit /\ silenced' \subseteq Kinds
      BY <2>3 DEF CacheFails, AlarmsHaveReasons
    <3> QED
      BY <2>3, <3>1 DEF CacheFails, ratioVars
  <2> QED
    BY <1>7, <2>1, <2>2, <2>3
<1>8. CASE MinimumMoves
  BY <1>8 DEF MinimumMoves, creditVars
<1>9. CASE CreditMoves
  BY <1>9 DEF CreditMoves, TextIsSent, TopUp, ratioVars
<1>10. CASE UNCHANGED alertVars
  BY <1>10 DEF alertVars, ratioVars, creditVars
<1> QED
  BY <1>0, <1>2, <1>3, <1>4, <1>5, <1>6, <1>7, <1>8, <1>9, <1>10
     DEF AlertStep, AlertEvent, RatioStep

LEMMA ReasonsStand ==
  ASSUME AlertTypeOK, AlarmsHaveReasons, [AlertStep \/ AlertEvent]_alertVars
  PROVE  AlarmsHaveReasons'
<1> USE ShortageKinds DEF AlertTypeOK, Goes, Begins, AlarmsHaveReasons, Shortage, Kinds
<1>1. ASSUME NEW p \in Askers, RatioStep(p) \/ OrderMoves(p)
      PROVE  AlarmsHaveReasons'
  <2>1. /\ at'[p] \in RatioSteps \cup {"idle"} /\ at' = [at EXCEPT ![p] = at'[p]]
        /\ read' = read
    BY <1>1, RatioStepFacts
  <2>2. at'[p] \in {"flag", "mail", "raise", "lower"} => found'[p] # "none"
    <3>1. CASE ReadRatio(p)
      BY <3>1 DEF ReadRatio, NoRatio, Rests
    <3>2. CASE ReadFlag(p)
      BY <3>2 DEF ReadFlag, CheckEnds, Rests
    <3>3. CASE MailRatio(p) \/ WriteFlag(p) \/ CheckDies(p) \/ OrderMoves(p)
      BY <3>3 DEF MailRatio, WriteFlag, CheckDies, OrderMoves, CheckEnds, Rests, ratioVars
    <3> QED
      BY <1>1, <3>1, <3>2, <3>3 DEF RatioStep
  <2>3. \A q \in Askers \ {p} : found'[q] = found[q]
    <3>1. CASE UNCHANGED found \/ Rests(p)
      BY <3>1 DEF Rests
    <3>2. CASE ReadRatio(p) \/ ReadFlag(p)
      BY <3>1, <3>2 DEF ReadRatio, NoRatio, ReadFlag, CheckEnds
    <3>3. CASE MailRatio(p) \/ WriteFlag(p) \/ CheckDies(p) \/ OrderMoves(p)
      BY <3>1, <3>3 DEF MailRatio, WriteFlag, CheckDies, OrderMoves, CheckEnds, ratioVars
    <3> QED
      BY <1>1, <3>2, <3>3 DEF RatioStep
  <2> QED
    BY <2>1, <2>2, <2>3 DEF RatioSteps
<1>2. ASSUME NEW p \in Askers, JudgeBalance(p) \/ AskBalance(p) \/ TextIsRefused(p)
      PROVE  AlarmsHaveReasons'
  BY <1>2 DEF JudgeBalance, AskBalance, TextIsRefused, ratioVars
<1>3. ASSUME NEW p \in Askers, ClaimAlarm(p) PROVE AlarmsHaveReasons'
  BY <1>3 DEF ClaimAlarm, ratioVars
<1>4. ASSUME NEW p \in Askers, AdminHears(p) \/ AlarmDies(p) \/ ShortenLimit(p) \/ NobodyHears(p)
                               \/ CacheFails(p)
      PROVE  AlarmsHaveReasons'
  BY <1>4 DEF AdminHears, AlarmDies, ShortenLimit, NobodyHears, CacheFails, ratioVars
<1>5. CASE UNCHANGED <<at, read, found>>
  BY <1>5
<1> QED
  BY <1>1, <1>2, <1>3, <1>4, <1>5
     DEF AlertStep, AlertEvent, MinimumMoves, CreditMoves, LimitLapses, alertVars, RatioStep,
         ratioVars

LEMMA RatioStands ==
  ASSUME AlertTypeOK, RatioFlagIsRight, AloneIsRight, AlarmsHaveReasons,
         [AlertStep \/ AlertEvent]_alertVars
  PROVE  RatioFlagIsRight' /\ AloneIsRight'
<1> USE AlertsAssumption DEF AlertTypeOK, RatioFlagIsRight, AloneIsRight, AlarmsHaveReasons,
                             Checking, RatioSteps, Goes, Ratios
<1>1. ASSUME NEW p \in Askers, ReadRatio(p) PROVE RatioFlagIsRight' /\ AloneIsRight'
  <2>1. CASE ratio = "none"
    BY <1>1, <2>1 DEF ReadRatio, NoRatio, Rests
  <2>2. CASE ratio # "none"
    BY <1>1, <2>2 DEF ReadRatio
  <2> QED
    BY <2>1, <2>2
<1>2. ASSUME NEW p \in Askers, ReadFlag(p) PROVE RatioFlagIsRight' /\ AloneIsRight'
  <2>1. CASE (found[p] = "below") = flag
    BY <1>2, <2>1 DEF ReadFlag, CheckEnds, Rests
  <2>2. CASE (found[p] = "below") # flag
    BY <1>2, <2>2 DEF ReadFlag
  <2> QED
    BY <2>1, <2>2
<1>3. ASSUME NEW p \in Askers, MailRatio(p) PROVE RatioFlagIsRight' /\ AloneIsRight'
  BY <1>3 DEF MailRatio, ratioVars
<1>4. ASSUME NEW p \in Askers, WriteFlag(p) PROVE RatioFlagIsRight' /\ AloneIsRight'
  <2>1. CASE alone = p
    BY <1>4, <2>1 DEF WriteFlag, CheckEnds, Rests
  <2>2. CASE alone # p
    BY <1>4, <2>2 DEF WriteFlag, CheckEnds, Rests
  <2> QED
    BY <2>1, <2>2
<1>5. ASSUME NEW p \in Askers, OrderMoves(p) PROVE RatioFlagIsRight' /\ AloneIsRight'
  BY <1>5 DEF OrderMoves, Begins
<1>6. ASSUME NEW p \in Askers, CheckDies(p) PROVE RatioFlagIsRight' /\ AloneIsRight'
  BY <1>6 DEF CheckDies, Rests
<1>7. ASSUME NEW p \in Askers, at[p] \notin RatioSteps, at'[p] \notin RatioSteps,
             \A q \in Askers \ {p} : at'[q] = at[q],
             UNCHANGED ratioVars
      PROVE  RatioFlagIsRight' /\ AloneIsRight'
  BY <1>7 DEF ratioVars
<1>8. ASSUME NEW p \in Askers,
             \/ JudgeBalance(p) \/ AskBalance(p) \/ TextIsRefused(p) \/ ClaimAlarm(p)
             \/ AdminHears(p) \/ AlarmDies(p) \/ ShortenLimit(p) \/ NobodyHears(p)
             \/ CacheFails(p)
      PROVE  RatioFlagIsRight' /\ AloneIsRight'
  <2>1. /\ at[p] \notin RatioSteps /\ at'[p] \notin RatioSteps
        /\ \A q \in Askers \ {p} : at'[q] = at[q]
        /\ UNCHANGED ratioVars
    BY <1>8 DEF JudgeBalance, AskBalance, TextIsRefused, ClaimAlarm, AdminHears, AlarmDies,
                ShortenLimit, NobodyHears, CacheFails, Begins
  <2> QED
    BY <1>7, <2>1
<1>9. CASE UNCHANGED <<flag, found, alone, measured, at>>
  BY <1>9
<1> QED
  BY <1>1, <1>2, <1>3, <1>4, <1>5, <1>6, <1>8, <1>9
     DEF AlertStep, AlertEvent, CreditMoves, LimitLapses, MinimumMoves, alertVars, ratioVars

LEMMA QuietStands ==
  ASSUME AlertTypeOK, QuietMeansTold, AlarmsHaveReasons, [AlertStep \/ AlertEvent]_alertVars
  PROVE  QuietMeansTold'
<1> DEFINE Telling(p, k) == at[p] \in {"tell", "shorten"} /\ Shortage(read[p]) = k
<1>1. ASSUME NEW p \in Askers, at[p] \notin {"tell", "shorten"}, UNCHANGED <<key, heard, silenced>>,
             \A q \in Askers \ {p} : at'[q] = at[q] /\ read'[q] = read[q]
      PROVE  QuietMeansTold'
  BY <1>1 DEF QuietMeansTold
<1>2. ASSUME NEW p \in Askers,
             \/ RatioStep(p) \/ OrderMoves(p) \/ TextIsRefused(p) \/ AskBalance(p)
      PROVE  QuietMeansTold'
  <2>1. /\ at[p] \notin {"tell", "shorten"} /\ UNCHANGED <<key, heard, silenced>>
        /\ \A q \in Askers \ {p} : at'[q] = at[q] /\ read'[q] = read[q]
    <3>1. CASE RatioStep(p) \/ OrderMoves(p)
      BY <3>1, RatioStepFacts DEF AlertTypeOK, RatioSteps, creditVars
    <3>2. CASE TextIsRefused(p) \/ AskBalance(p)
      BY <3>2 DEF AlertTypeOK, TextIsRefused, AskBalance, Begins, Goes, creditVars
    <3> QED
      BY <1>2, <3>1, <3>2
  <2> QED
    BY <1>1, <2>1
<1>3. ASSUME NEW p \in Askers, JudgeBalance(p) PROVE QuietMeansTold'
  <2>1. /\ at[p] \notin {"tell", "shorten"}
        /\ \A q \in Askers \ {p} : at'[q] = at[q] /\ read'[q] = read[q]
    BY <1>3 DEF AlertTypeOK, JudgeBalance, Goes
  <2>2. CASE UNCHANGED <<key, heard, silenced>>
    BY <1>1, <2>1, <2>2
  <2>3. CASE Freed(Kinds)
    BY <2>3 DEF Freed, QuietMeansTold
  <2> QED
    BY <1>3, <2>2, <2>3 DEF JudgeBalance
<1>4. ASSUME NEW p \in Askers, ClaimAlarm(p) PROVE QuietMeansTold'
  <2> PICK k \in Kinds : k = Shortage(read[p])
    BY <1>4 DEF ClaimAlarm, AlarmsHaveReasons
  <2>1. /\ at[p] = "alarm" /\ UNCHANGED <<heard, silenced>>
        /\ \A q \in Askers \ {p} : at'[q] = at[q] /\ read'[q] = read[q]
    BY <1>4 DEF AlertTypeOK, ClaimAlarm, Goes
  <2>2. CASE key[k] = "free"
    <3>1. at'[p] = "tell" /\ read' = read /\ key' = [key EXCEPT ![k] = "day"]
      BY <1>4, <2>2 DEF AlertTypeOK, ClaimAlarm, Goes
    <3> QED
      BY <2>1, <3>1 DEF QuietMeansTold, AlertTypeOK
  <2>3. CASE key[k] # "free"
    <3>1. key' = key
      BY <1>4, <2>3 DEF ClaimAlarm
    <3> QED
      BY <1>1, <2>1, <3>1
  <2> QED
    BY <2>2, <2>3
<1>5. ASSUME NEW p \in Askers, AdminHears(p) \/ AlarmDies(p) PROVE QuietMeansTold'
  <2>1. /\ Shortage(read[p]) \in heard' \cup silenced'
        /\ heard \subseteq heard' /\ silenced \subseteq silenced' /\ key' = key
        /\ \A q \in Askers \ {p} : at'[q] = at[q] /\ read'[q] = read[q]
    BY <1>5 DEF AlertTypeOK, AdminHears, AlarmDies, Goes
  <2> QED
    BY <2>1 DEF QuietMeansTold
<1>6. ASSUME NEW p \in Askers, ShortenLimit(p) PROVE QuietMeansTold'
  <2>1. /\ key' = [key EXCEPT ![Shortage(read[p])] = "short"] /\ UNCHANGED <<heard, silenced>>
        /\ \A q \in Askers \ {p} : at'[q] = at[q] /\ read'[q] = read[q]
    BY <1>6 DEF AlertTypeOK, ShortenLimit, Goes, RetryLimit
  <2> QED
    BY <2>1 DEF QuietMeansTold, AlertTypeOK
<1>7. ASSUME NEW p \in Askers, NobodyHears(p) PROVE QuietMeansTold'
  <2>1. at'[p] = "shorten" /\ UNCHANGED <<read, key, heard, silenced>>
        /\ \A q \in Askers \ {p} : at'[q] = at[q]
    BY <1>7 DEF AlertTypeOK, NobodyHears, Goes, creditVars
  <2> QED
    BY <2>1 DEF QuietMeansTold
<1>8. ASSUME NEW k \in Kinds, LimitLapses(k) PROVE QuietMeansTold'
  <2>1. /\ at' = at /\ read' = read
        /\ \A j \in Kinds : key'[j] = IF j = k THEN "free" ELSE key[j]
        /\ heard' = heard \ {k} /\ silenced' = silenced \ {k}
    BY <1>8 DEF LimitLapses, Freed
  <2> QED
    BY <2>1 DEF QuietMeansTold
<1>9. CASE UNCHANGED <<key, heard, silenced, at, read>>
  BY <1>9 DEF QuietMeansTold
<1>10. ASSUME NEW p \in Askers, CacheFails(p) PROVE QuietMeansTold'
  <2>1. /\ UNCHANGED <<key, heard>>
        /\ \A q \in Askers \ {p} : at'[q] = at[q] /\ read'[q] = read[q]
        /\ silenced \subseteq silenced'
        /\ at[p] = "shorten" => Shortage(read[p]) \in silenced'
        /\ at[p] # "tell"
    BY <1>10 DEF AlertTypeOK, CacheFails, Goes
  <2> QED
    BY <2>1 DEF QuietMeansTold
<1> QED
  BY <1>2, <1>3, <1>4, <1>5, <1>6, <1>7, <1>8, <1>9, <1>10
     DEF AlertStep, AlertEvent, MinimumMoves, CreditMoves, alertVars, creditVars, RatioStep

LEMMA AlertInvKept ==
  ASSUME AlertInv, [AlertStep \/ AlertEvent]_alertVars PROVE AlertInv'
BY AlertTyped, ReasonsStand, RatioStands, QuietStands DEF AlertInv, AlarmsAreTrue

LEMMA AlertInvAtFirst == ASSUME AlertInit PROVE AlertInv
<1>1. AlertTypeOK
  <2>1. FullCredit \in 0 .. FullCredit
    BY AlertsAssumption
  <2> QED
    BY <2>1 DEF AlertInit, AlertTypeOK, Ratios
<1>2. RatioFlagIsRight /\ AloneIsRight
  BY AlertsAssumption DEF AlertInit, RatioFlagIsRight, AloneIsRight, Checking, RatioSteps
<1>3. QuietMeansTold /\ AlarmsHaveReasons
  BY DEF AlertInit, QuietMeansTold, AlarmsHaveReasons
<1> QED
  BY <1>1, <1>2, <1>3 DEF AlertInv, AlarmsAreTrue


-----------------------------------------------------------------------------
(* Live screens: what a step makes of a mover.                              *)

Works == [at : {"rest", "due", "send", "render", "answer"}, push : Figures, answer : Figures,
          for : Tabs \cup {NoTab}, stale : SUBSET {"push", "answer"}]

\* A mover that is not the one that steps keeps what it holds.
Keeps(q) ==
  /\ mover'[q].at = mover[q].at /\ mover'[q].push = mover[q].push
  /\ mover'[q].answer = mover[q].answer /\ mover'[q].for = mover[q].for

PagesRest == UNCHANGED <<tab, screen, greeting, inbox, missed, leaked, allowed>>

\* A request begins: it changes the figure and owes a push, or it changes nothing and
\* has the figure as it is.
Turns(p) ==
  /\ mover[p].at = "rest"
  /\ \A q \in Movers \ {p} : mover'[q] = mover[q]
  /\ \/ /\ figure' = figure
        /\ \/ mover'[p].at = "render" /\ stream = "bell"
           \/ mover'[p].at = "answer" /\ mover'[p].answer = figure
     \/ mover'[p].at = "due"
     \/ mover'[p].at = "render" /\ stream = "admin"
  /\ mover'[p].at \in {"render", "answer"} => mover'[p].for # NoTab
  /\ mover'[p].at = "due" /\ stream = "admin" => mover'[p].for = NoTab
  /\ mover'[p].for # NoTab => stream # "wallet"
  /\ mover' \in [Movers -> Works] /\ figure' \in Figures
  /\ UNCHANGED <<stream, crossed>> /\ PagesRest

LEMMA RestIsWork ==
  /\ AtRest \in Works
  /\ AtRest.at = "rest" /\ AtRest.for = NoTab
  /\ 0 \in Figures
BY LiveScreensAssumption DEF AtRest, Works, Figures

LEMMA TurnsFacts ==
  ASSUME LiveTypeOK, NEW p \in Movers,
         \/ BalanceMoves(p) \/ NotificationAppears(p)
         \/ \E t \in Tabs : MarkRead(p, t) \/ AdminMarksAllRead(p, t) \/ OpenPanel(p, t)
  PROVE  Turns(p)
<1> USE RestIsWork, LiveScreensAssumption DEF Turns, PagesRest, MoverTurns
<1>0. mover \in [Movers -> Works] /\ figure \in Figures
  BY DEF LiveTypeOK, Works
<1>1. CASE BalanceMoves(p)
  <2>1. [AtRest EXCEPT !.at = "due"] \in Works
    BY DEF Works, AtRest
  <2>2. [AtRest EXCEPT !.at = "due"].at = "due"
    BY DEF AtRest
  <2> QED
    BY <1>0, <1>1, <2>1, <2>2 DEF BalanceMoves
<1>2. CASE NotificationAppears(p)
  <2>1. [AtRest EXCEPT !.at = "due"] \in Works
    BY DEF Works, AtRest
  <2>2. [AtRest EXCEPT !.at = "due"].at = "due"
    BY DEF AtRest
  <2>3. figure' \in Figures
    BY <1>0, <1>2 DEF NotificationAppears, Figures
  <2> QED
    BY <1>0, <1>2, <2>1, <2>2, <2>3 DEF NotificationAppears
<1>3. ASSUME NEW t \in Tabs, MarkRead(p, t) PROVE Turns(p)
  <2>1. PICK work : work = [AtRest EXCEPT !.at = IF figure = 0 THEN "render" ELSE "due", !.for = t]
    OBVIOUS
  <2>2. work \in Works /\ work.at = (IF figure = 0 THEN "render" ELSE "due") /\ work.for = t
    BY <2>1 DEF Works, AtRest
  <2>3. /\ figure' \in IF figure = 0 THEN {0} ELSE {figure - 1, 0}
        /\ mover' = [mover EXCEPT ![p] = work] /\ mover[p].at = "rest" /\ stream = "bell"
        /\ UNCHANGED <<stream, crossed>> /\ PagesRest
    BY <1>3, <2>1 DEF MarkRead
  <2>4. figure' \in Figures
    BY <1>0, <2>3 DEF Figures
  <2> QED
    BY <1>0, <2>2, <2>3, <2>4
<1>4. ASSUME NEW t \in Tabs, AdminMarksAllRead(p, t) PROVE Turns(p)
  <2>1. PICK work : work = [AtRest EXCEPT !.at = "render", !.for = t]
    OBVIOUS
  <2>2. work \in Works /\ work.at = "render" /\ work.for = t
    BY <2>1 DEF Works, AtRest
  <2>3. /\ figure' = 0 /\ stream = "admin"
        /\ mover' = [mover EXCEPT ![p] = work] /\ mover[p].at = "rest"
        /\ UNCHANGED <<stream, crossed>> /\ PagesRest
    BY <1>4, <2>1 DEF AdminMarksAllRead
  <2>4. /\ mover'[p] = work /\ \A q \in Movers \ {p} : mover'[q] = mover[q]
        /\ mover' \in [Movers -> Works] /\ figure' \in Figures
    BY <1>0, <2>2, <2>3
  <2> QED
    BY <2>2, <2>3, <2>4
<1>5. ASSUME NEW t \in Tabs, OpenPanel(p, t) PROVE Turns(p)
  <2>1. PICK work : work = [AtRest EXCEPT !.at = "answer", !.for = t, !.answer = figure]
    OBVIOUS
  <2>2. work \in Works /\ work.at = "answer" /\ work.for = t /\ work.answer = figure
    BY <1>0, <2>1 DEF Works, AtRest
  <2>3. /\ figure' = figure /\ stream # "wallet"
        /\ mover' = [mover EXCEPT ![p] = work] /\ mover[p].at = "rest"
        /\ UNCHANGED <<stream, crossed>> /\ PagesRest
    BY <1>5, <2>1 DEF OpenPanel
  <2> QED
    BY <1>0, <2>2, <2>3
<1> QED
  BY <1>1, <1>2, <1>3, <1>4, <1>5

\* A push is under way, or broke off: what others hold was read before it.
Pushes(p) ==
  /\ mover[p].at = "send"
  /\ \A q \in Movers \ {p} : Keeps(q) /\ mover'[q].stale = mover[q].stale \cup Holds(q)
  /\ mover'[p].at \in {"rest", "render", "answer"}
  /\ mover'[p].at = "rest" => mover'[p].for = NoTab
  /\ mover'[p].at = "render" => stream = "bell"
  /\ mover'[p].at = "answer" => stream # "bell"
  /\ mover'[p].at # "rest" => /\ mover'[p].for = mover[p].for /\ mover[p].for # NoTab
                              /\ mover'[p].answer = mover[p].answer
                              /\ mover'[p].stale = mover[p].stale
  /\ mover' \in [Movers -> Works] /\ UNCHANGED <<stream, figure>>

LEMMA PushesFacts ==
  ASSUME LiveTypeOK, NEW p \in Movers, Send(p) \/ SendFails(p) PROVE Pushes(p)
<1>0. mover \in [Movers -> Works] /\ figure \in Figures /\ NoTab \notin Tabs
  BY LiveScreensAssumption DEF LiveTypeOK, Works
<1>1. \A q \in Movers : Holds(q) \in SUBSET {"push", "answer"}
  BY DEF Holds
<1>2. AfterPush(p) \in Works /\ AfterPush(p).at \in {"rest", "render", "answer"}
      /\ (AfterPush(p).at = "rest" => AfterPush(p).for = NoTab)
      /\ (AfterPush(p).at = "render" => stream = "bell")
      /\ (AfterPush(p).at = "answer" => stream # "bell")
      /\ (AfterPush(p).at # "rest" =>
            /\ AfterPush(p).for = mover[p].for /\ mover[p].for # NoTab
            /\ AfterPush(p).answer = mover[p].answer
            /\ AfterPush(p).stale = mover[p].stale)
  <2>1. mover[p] \in Works
    BY <1>0
  <2>2. CASE mover[p].for = NoTab
    <3>1. AfterPush(p) = AtRest
      BY <2>2 DEF AfterPush
    <3> QED
      BY <3>1, RestIsWork
  <2>3. CASE mover[p].for # NoTab /\ stream = "bell"
    <3>1. AfterPush(p) = [mover[p] EXCEPT !.at = "render"]
      BY <2>3 DEF AfterPush
    <3> QED
      BY <2>1, <2>3, <3>1 DEF Works
  <2>4. CASE mover[p].for # NoTab /\ stream # "bell"
    <3>1. AfterPush(p) = [mover[p] EXCEPT !.at = "answer"]
      BY <2>4 DEF AfterPush
    <3> QED
      BY <2>1, <2>4, <3>1 DEF Works
  <2> QED
    BY <2>2, <2>3, <2>4
<1>3. mover' = [Overtaken(p) EXCEPT ![p] = AfterPush(p)] /\ mover[p].at = "send"
      /\ UNCHANGED <<stream, figure>>
  BY DEF Send, SendFails
<1>4. ASSUME NEW q \in Movers \ {p}
      PROVE  /\ mover'[q] = [mover[q] EXCEPT !.stale = mover[q].stale \cup Holds(q)]
             /\ mover'[q] \in Works
             /\ Keeps(q) /\ mover'[q].stale = mover[q].stale \cup Holds(q)
  <2>1. mover'[q] = [mover[q] EXCEPT !.stale = mover[q].stale \cup Holds(q)]
    BY <1>3 DEF Overtaken
  <2>2. mover[q] \in Works
    BY <1>0
  <2> QED
    BY <1>1, <2>1, <2>2 DEF Works, Keeps
<1>5. mover'[p] = AfterPush(p)
  BY <1>3 DEF Overtaken
<1>6. mover' \in [Movers -> Works]
  <2>1. mover' = [q \in Movers |-> mover'[q]]
    BY <1>3 DEF Overtaken
  <2> QED
    BY <1>2, <1>4, <1>5, <2>1
<1> QED
  BY <1>2, <1>3, <1>4, <1>5, <1>6 DEF Pushes

LEMMA ReadsFacts ==
  ASSUME LiveTypeOK, NEW p \in Movers, ReadForPush(p)
  PROVE  /\ mover[p].at = "due" /\ mover'[p].at = "send" /\ mover'[p].push = figure
         /\ mover'[p].answer = mover[p].answer /\ mover'[p].for = mover[p].for
         /\ mover'[p].stale = mover[p].stale
         /\ \A q \in Movers \ {p} : mover'[q] = mover[q]
         /\ mover' \in [Movers -> Works] /\ UNCHANGED <<stream, figure, crossed>> /\ PagesRest
<1>1. mover[p] \in Works /\ figure \in Figures /\ mover \in [Movers -> Works]
  BY DEF LiveTypeOK, Works
<1>2. mover' = [mover EXCEPT ![p] = [mover[p] EXCEPT !.at = "send", !.push = figure]]
  BY <1>1 DEF ReadForPush, Works
<1>3. PICK work : work = [mover[p] EXCEPT !.at = "send", !.push = figure]
  OBVIOUS
<1>4. /\ work \in Works /\ work.at = "send" /\ work.push = figure /\ work.answer = mover[p].answer
      /\ work.for = mover[p].for /\ work.stale = mover[p].stale
  BY <1>1, <1>3 DEF Works
<1> QED
  BY <1>1, <1>2, <1>3, <1>4 DEF ReadForPush, PagesRest

LEMMA RendersFacts ==
  ASSUME LiveTypeOK, NEW p \in Movers, Render(p)
  PROVE  /\ mover[p].at = "render" /\ mover'[p].at = IF stream = "bell" THEN "answer" ELSE "due"
         /\ mover'[p].answer = figure /\ mover'[p].for = mover[p].for
         /\ mover'[p].stale = {}
         /\ \A q \in Movers \ {p} : mover'[q] = mover[q]
         /\ mover' \in [Movers -> Works] /\ UNCHANGED <<stream, figure, crossed>> /\ PagesRest
<1>1. mover[p] \in Works /\ figure \in Figures /\ mover \in [Movers -> Works]
  BY DEF LiveTypeOK, Works
<1>2. PICK where \in {"answer", "due"} : where = IF stream = "bell" THEN "answer" ELSE "due"
  OBVIOUS
<1>3. mover' = [mover EXCEPT ![p] = [mover[p] EXCEPT !.answer = figure, !.stale = {}, !.at = where]]
  BY <1>1, <1>2 DEF Render, Works
<1>4. PICK work : work = [mover[p] EXCEPT !.answer = figure, !.stale = {}, !.at = where]
  OBVIOUS
<1>5. /\ work \in Works /\ work.at = where /\ work.answer = figure
      /\ work.for = mover[p].for /\ work.stale = {}
  BY <1>1, <1>4 DEF Works
<1> QED
  BY <1>1, <1>2, <1>3, <1>4, <1>5 DEF Render, PagesRest

LEMMA SwapsFacts ==
  ASSUME LiveTypeOK, NEW p \in Movers, Swap(p), mover[p].for # NoTab
  PROVE  /\ mover[p].at = "answer" /\ mover[p].for \in Tabs /\ mover'[p] = AtRest
         /\ \A q \in Movers \ {p} : mover'[q] = mover[q]
         /\ mover' \in [Movers -> Works]
         /\ UNCHANGED <<stream, figure, crossed, tab, greeting, inbox, allowed, leaked>>
         /\ screen' = [screen EXCEPT ![mover[p].for] = mover[p].answer]
         /\ missed' = [missed EXCEPT ![mover[p].for] =
                         ("answer" \in mover[p].stale)
                         \/ (missed[mover[p].for] /\ inbox[mover[p].for] # <<>>)]
<1>1. mover[p] \in Works /\ mover \in [Movers -> Works]
  BY DEF LiveTypeOK, Works
<1> QED
  BY <1>1, RestIsWork DEF Swap, Works

\* The movers see nothing of what pages do.
PageSteps ==
  \E t \in Tabs : \/ JoinGroup(t) \/ ReadGreeting(t) \/ Greet(t) \/ CheckPush(t) \/ ShowPush(t)
                  \/ OpenPage(t) \/ ConnectionBreaks(t) \/ RightEnds(t)

LEMMA LiveKinds ==
  ASSUME LiveTypeOK, MoversHaveTheirs, [LiveStep \/ LiveEvent]_liveVars
  PROVE  \/ \E p \in Movers : \/ Turns(p) \/ Send(p) \/ SendFails(p)
                              \/ ReadForPush(p) \/ Render(p) \/ Swap(p)
         \/ PageSteps
         \/ UNCHANGED liveVars
BY TurnsFacts DEF LiveStep, LiveEvent, PageSteps

-----------------------------------------------------------------------------
(* Live screens: figures that are held, and who is about to send the right one. *)

\* Whoever has the right figure still has it after a step that is not his.
LEMMA PendingKept ==
  ASSUME NEW q \in Movers, Pending(q), Keeps(q), UNCHANGED <<stream, figure>>
  PROVE  Pending(q)'
BY DEF Pending, Owes, Keeps

LEMMA HoldsAre ==
  ASSUME NEW p \in Movers
  PROVE  /\ "push" \in Holds(p) <=> mover[p].at = "send"
         /\ "answer" \in Holds(p) <=>
              mover[p].at = "answer" \/ (stream = "admin" /\ mover[p].at \in {"due", "send"})
BY DEF Holds

\* A held figure, one mover at a time.
HeldIsRight(p) ==
  /\ mover[p].at = "send" /\ "push" \notin mover[p].stale =>
       mover[p].push = figure \/ OtherPending(p)
  /\ "answer" \in Holds(p) /\ "answer" \notin mover[p].stale /\ mover[p].for # NoTab =>
       mover[p].answer = figure \/ OtherPending(p)

LEMMA HeldParts == HeldFiguresAreRight <=> \A p \in Movers : HeldIsRight(p)
BY DEF HeldFiguresAreRight, HeldIsRight

LEMMA HeldTurns ==
  ASSUME HeldFiguresAreRight, NEW p \in Movers, Turns(p) PROVE HeldFiguresAreRight'
<1>1. ASSUME NEW q \in Movers \ {p} PROVE HeldIsRight(q)'
  <2>1. CASE figure' = figure
    <3>1. OtherPending(q) => OtherPending(q)'
      BY <2>1 DEF OtherPending, Pending, Owes, Turns
    <3> QED
      BY <2>1, <3>1, HeldParts DEF HeldIsRight, Holds, Turns
  <2>2. CASE Pending(p)'
    BY <2>2 DEF HeldIsRight, OtherPending
  <2> QED
    BY <2>1, <2>2 DEF Turns, Pending, Owes
<1>2. HeldIsRight(p)'
  BY DEF HeldIsRight, Holds, Turns
<1>3. \A q \in Movers : HeldIsRight(q)'
  BY <1>1, <1>2
<1>4. (HeldFiguresAreRight <=> \A q \in Movers : HeldIsRight(q))'
  BY DEF HeldFiguresAreRight, HeldIsRight
<1> QED
  BY <1>3, <1>4

LEMMA HeldPushes ==
  ASSUME HeldFiguresAreRight, LiveTypeOK, MoversHaveTheirs, NEW p \in Movers, Pushes(p)
  PROVE  HeldFiguresAreRight'
<1>1. ASSUME NEW q \in Movers \ {p} PROVE HeldIsRight(q)'
  <2>1. "push" \in Holds(q)' => "push" \in mover'[q].stale
    BY DEF Pushes, Holds, Keeps
  <2>2. "answer" \in Holds(q)' => "answer" \in mover'[q].stale
    BY DEF Pushes, Holds, Keeps
  <2> QED
    BY <2>1, <2>2 DEF HeldIsRight, Holds
<1>2. HeldIsRight(p)'
  <2>1. mover'[p].at # "send"
    BY DEF Pushes
  <2>2. CASE mover'[p].at = "answer"
    <3>1. /\ stream # "bell" /\ mover'[p].for = mover[p].for /\ mover[p].for # NoTab
          /\ mover'[p].answer = mover[p].answer /\ mover'[p].stale = mover[p].stale
      BY <2>2 DEF Pushes
    <3>2. OtherPending(p) => OtherPending(p)'
      BY PendingKept DEF OtherPending, Pushes
    <3>3. CASE stream = "admin"
      <4>1. "answer" \in Holds(p)
        BY <3>3 DEF Holds, Pushes
      <4>2. HeldIsRight(p)
        BY HeldParts
      <4> QED
        BY <2>1, <3>1, <3>2, <4>1, <4>2 DEF HeldIsRight, Pushes
    <3>4. stream # "wallet"
      BY <3>1 DEF MoversHaveTheirs
    <3> QED
      BY <3>1, <3>3, <3>4 DEF LiveTypeOK, Streams
  <2>3. CASE mover'[p].at # "answer"
    <3>1. ~ ("answer" \in Holds(p)')
      BY <2>1, <2>3 DEF Holds, Pushes
    <3> QED
      BY <2>1, <3>1 DEF HeldIsRight
  <2> QED
    BY <2>2, <2>3
<1>3. \A q \in Movers : HeldIsRight(q)'
  BY <1>1, <1>2
<1>4. (HeldFiguresAreRight <=> \A q \in Movers : HeldIsRight(q))'
  BY DEF HeldFiguresAreRight, HeldIsRight
<1> QED
  BY <1>3, <1>4

\* One mover moves on with nothing sent: it still owes what it owed.
MovesOn(p) ==
  /\ \A q \in Movers \ {p} : mover'[q] = mover[q]
  /\ Pending(p) => Pending(p)'
  /\ UNCHANGED <<stream, figure>>

LEMMA HeldMovesOn ==
  ASSUME HeldFiguresAreRight, NEW p \in Movers, MovesOn(p), HeldIsRight(p)'
  PROVE  HeldFiguresAreRight'
<1>1. ASSUME NEW q \in Movers \ {p} PROVE HeldIsRight(q)'
  <2>1. OtherPending(q) => OtherPending(q)'
    BY DEF OtherPending, MovesOn, Pending, Owes
  <2> QED
    BY <2>1, HeldParts DEF HeldIsRight, Holds, MovesOn
<1>2. \A q \in Movers : HeldIsRight(q)'
  BY <1>1
<1>3. (HeldFiguresAreRight <=> \A q \in Movers : HeldIsRight(q))'
  BY DEF HeldFiguresAreRight, HeldIsRight
<1> QED
  BY <1>2, <1>3

LEMMA OthersStayPending ==
  ASSUME NEW p \in Movers, MovesOn(p) PROVE OtherPending(p) => OtherPending(p)'
BY DEF MovesOn, OtherPending, Pending, Owes

LEMMA HeldKept ==
  ASSUME HeldFiguresAreRight, LiveTypeOK, MoversHaveTheirs, [LiveStep \/ LiveEvent]_liveVars
  PROVE  HeldFiguresAreRight'
<1>1. ASSUME NEW p \in Movers, ReadForPush(p) PROVE HeldFiguresAreRight'
  <2>1. MovesOn(p)
    BY <1>1, ReadsFacts DEF MovesOn, Pending, Owes
  <2>2. HeldIsRight(p)'
    <3>1. HeldIsRight(p)
      BY HeldParts
    <3>2. OtherPending(p) => OtherPending(p)'
      BY <2>1, OthersStayPending
    <3> QED
      BY <1>1, <3>1, <3>2, ReadsFacts DEF HeldIsRight, Holds
  <2> QED
    BY <2>1, <2>2, HeldMovesOn
<1>2. ASSUME NEW p \in Movers, Render(p) PROVE HeldFiguresAreRight'
  <2>1. MovesOn(p)
    BY <1>2, RendersFacts DEF MovesOn, Pending, Owes
  <2>2. HeldIsRight(p)'
    BY <1>2, RendersFacts DEF HeldIsRight
  <2> QED
    BY <2>1, <2>2, HeldMovesOn
<1>3. ASSUME NEW p \in Movers, Swap(p) PROVE HeldFiguresAreRight'
  <2>0. mover[p].for # NoTab
    BY <1>3 DEF MoversHaveTheirs, Swap
  <2>1. MovesOn(p)
    BY <1>3, <2>0, SwapsFacts DEF MovesOn, Pending, Owes
  <2>2. HeldIsRight(p)'
    BY <1>3, <2>0, SwapsFacts, RestIsWork DEF HeldIsRight, Holds
  <2> QED
    BY <2>1, <2>2, HeldMovesOn
<1>4. ASSUME UNCHANGED <<stream, figure, mover>> PROVE HeldFiguresAreRight'
  BY <1>4 DEF HeldFiguresAreRight, OtherPending, Pending, Owes, Holds
<1>5. CASE PageSteps
  <2>1. UNCHANGED <<stream, figure, mover>>
    BY <1>5 DEF PageSteps, JoinGroup, ReadGreeting, Greet, CheckPush, ShowPush, OpenPage,
                ConnectionBreaks, RightEnds
  <2> QED
    BY <1>4, <2>1
<1>6. CASE UNCHANGED liveVars
  BY <1>4, <1>6 DEF liveVars
<1> QED
  BY <1>1, <1>2, <1>3, <1>5, <1>6, HeldTurns, HeldPushes, PushesFacts, LiveKinds

-----------------------------------------------------------------------------
(* Live screens: what pages have in hand.                                   *)

LEMMA Appended ==
  ASSUME NEW S, NEW s \in Seq(S), NEW x \in S
  PROVE  /\ Append(s, x) \in Seq(S) /\ Append(s, x) # <<>>
         /\ Append(s, x)[Len(Append(s, x))] = x
         /\ \A i \in DOMAIN Append(s, x) :
              (i \in DOMAIN s /\ Append(s, x)[i] = s[i]) \/ Append(s, x)[i] = x
         /\ s # <<>> => Head(Append(s, x)) = Head(s)
<1>1. /\ Append(s, x) \in Seq(S) /\ Len(Append(s, x)) = Len(s) + 1 /\ Len(s) \in Nat
      /\ Append(s, x)[Len(s) + 1] = x /\ DOMAIN s = 1 .. Len(s)
      /\ \A i \in 1 .. Len(s) : Append(s, x)[i] = s[i]
  BY AppendProperties, LenProperties
<1>2. DOMAIN Append(s, x) = 1 .. Len(s) + 1
  BY <1>1, LenProperties
<1>3. Append(s, x) # <<>>
  BY <1>1, EmptySeq
<1>4. s # <<>> => Head(Append(s, x)) = Head(s)
  <2>1. ASSUME s # <<>> PROVE Append(s, x)[1] = s[1]
    BY <1>1, <2>1, EmptySeq
  <2> QED
    BY <1>1, <1>3, <2>1
<1> QED
  BY <1>1, <1>2, <1>3, <1>4

LEMMA Shortened ==
  ASSUME NEW S, NEW s \in Seq(S), s # <<>>
  PROVE  /\ Tail(s) \in Seq(S) /\ Head(s) \in S /\ 1 \in DOMAIN s /\ Head(s) = s[1]
         /\ \A i \in DOMAIN Tail(s) : i + 1 \in DOMAIN s /\ Tail(s)[i] = s[i + 1]
         /\ Tail(s) = <<>> => s[Len(s)] = Head(s)
         /\ Tail(s) # <<>> => Tail(s)[Len(Tail(s))] = s[Len(s)]
OBVIOUS

Pushed == [figure : Figures, late : BOOLEAN]
PlacesOfTabs == {"closed", "page", "joined", "greeting", "open", "checked", "refused"}

\* The types of pages.
TabTypes ==
  /\ tab \in [Tabs -> PlacesOfTabs]
  /\ screen \in [Tabs -> Figures]
  /\ greeting \in [Tabs -> Figures \cup {-1}]
  /\ inbox \in [Tabs -> Seq(Pushed)]
  /\ allowed \in [Tabs -> BOOLEAN]
  /\ missed \in [Tabs -> BOOLEAN] /\ leaked \in [Tabs -> BOOLEAN]

LEMMA LiveTypesAre ==
  LiveTypeOK <=> /\ stream \in Streams /\ figure \in Figures /\ mover \in [Movers -> Works]
                 /\ TabTypes /\ crossed \in BOOLEAN
BY DEF LiveTypeOK, Works, TabTypes, PlacesOfTabs, Pushed

\* What a page has, one at a time.
HasTheirs(t) ==
  /\ ~Joined(t) => inbox[t] = <<>>
  /\ tab[t] = "checked" => inbox[t] # <<>> /\ ~Head(inbox[t]).late
  /\ tab[t] = "greeting" => greeting[t] # -1
  /\ stream # "admin" => allowed[t]
  /\ allowed[t] => \A i \in DOMAIN inbox[t] : ~inbox[t][i].late

\* The push that a mover sends arrives behind the others.
Delivered(p) ==
  [t \in Tabs |-> IF Joined(t)
                    THEN Append(inbox[t], [figure |-> mover[p].push, late |-> ~allowed[t]])
                    ELSE inbox[t]]

LEMMA SendFigures ==
  ASSUME LiveTypeOK, NEW p \in Movers, NEW t \in Tabs
  PROVE  [figure |-> mover[p].push, late |-> ~allowed[t]] \in Pushed /\ inbox[t] \in Seq(Pushed)
<1>1. mover[p] \in Works /\ allowed[t] \in BOOLEAN /\ inbox[t] \in Seq(Pushed)
  BY LiveTypesAre DEF TabTypes
<1> QED
  BY <1>1 DEF Works, Pushed

LEMMA TabsOfSend ==
  ASSUME LiveTypeOK, PagesHaveTheirs, NEW p \in Movers, Send(p)
  PROVE  TabTypes' /\ PagesHaveTheirs' /\ crossed' \in BOOLEAN
<1>1. TabTypes
  BY LiveTypesAre
<1>2. /\ inbox' = Delivered(p) /\ missed' = Misses
      /\ UNCHANGED <<stream, tab, screen, greeting, allowed, leaked>>
      /\ crossed' = ("push" \in mover[p].stale)
  BY DEF Send, Delivered
<1>3. ASSUME NEW t \in Tabs PROVE inbox'[t] \in Seq(Pushed)
  BY <1>2, SendFigures, Appended DEF Delivered
<1>4. inbox' \in [Tabs -> Seq(Pushed)]
  BY <1>2, <1>3 DEF Delivered
<1>5. missed' \in [Tabs -> BOOLEAN]
  BY <1>1, <1>2 DEF Misses, TabTypes
<1>6. TabTypes'
  BY <1>1, <1>2, <1>4, <1>5 DEF TabTypes
<1>7. ASSUME NEW t \in Tabs PROVE HasTheirs(t)'
  <2>1. HasTheirs(t)
    BY DEF PagesHaveTheirs, HasTheirs
  <2>2. CASE Joined(t)
    <3>1. PICK x \in Pushed : x = [figure |-> mover[p].push, late |-> ~allowed[t]]
      BY SendFigures
    <3>2. inbox'[t] = Append(inbox[t], x) /\ x.late = ~allowed[t] /\ inbox[t] \in Seq(Pushed)
      BY <1>2, <2>2, <3>1, SendFigures DEF Delivered
    <3> HIDE <3>1
    <3>3. inbox'[t] # <<>> /\ (inbox[t] # <<>> => Head(inbox'[t]) = Head(inbox[t]))
      BY <3>2, Appended
    <3>4. \A i \in DOMAIN inbox'[t] :
            (i \in DOMAIN inbox[t] /\ inbox'[t][i] = inbox[t][i]) \/ inbox'[t][i] = x
      BY <3>2, Appended
    <3>5. allowed[t] => \A i \in DOMAIN inbox'[t] : ~inbox'[t][i].late
      BY <2>1, <3>2, <3>4 DEF HasTheirs
    <3> QED
      BY <1>2, <2>1, <2>2, <3>3, <3>5 DEF HasTheirs, Joined
  <2>3. CASE ~Joined(t)
    <3>1. inbox'[t] = inbox[t]
      BY <1>2, <2>3 DEF Delivered
    <3> QED
      BY <1>2, <2>1, <3>1 DEF HasTheirs, Joined
  <2> QED
    BY <2>2, <2>3
<1>8. PagesHaveTheirs'
  BY <1>7 DEF PagesHaveTheirs, HasTheirs
<1> QED
  BY <1>2, <1>6, <1>8

\* A step of one page leaves the others as they are.
OtherTabs(t) ==
  \A u \in Tabs \ {t} : /\ tab'[u] = tab[u] /\ screen'[u] = screen[u] /\ greeting'[u] = greeting[u]
                        /\ inbox'[u] = inbox[u] /\ missed'[u] = missed[u]
                        /\ allowed'[u] = allowed[u]

LEMMA OtherTabsKept ==
  ASSUME PagesHaveTheirs, NEW t \in Tabs, OtherTabs(t), HasTheirs(t)', stream' = stream
  PROVE  PagesHaveTheirs'
<1>1. \A u \in Tabs \ {t} : HasTheirs(u)'
  BY DEF OtherTabs, HasTheirs, PagesHaveTheirs, Joined
<1> QED
  BY <1>1 DEF HasTheirs, PagesHaveTheirs

LEMMA TabsOfPages ==
  ASSUME LiveTypeOK, PagesHaveTheirs, NEW t \in Tabs,
         \/ JoinGroup(t) \/ ReadGreeting(t) \/ Greet(t) \/ CheckPush(t) \/ ShowPush(t)
         \/ OpenPage(t) \/ ConnectionBreaks(t) \/ RightEnds(t)
  PROVE  TabTypes' /\ OtherTabs(t) /\ HasTheirs(t)' /\ UNCHANGED <<stream, figure, mover, crossed>>
<1>1. TabTypes /\ figure \in Figures /\ stream \in Streams
  BY LiveTypesAre
<1>2. HasTheirs(t)
  BY DEF PagesHaveTheirs, HasTheirs
<1> USE DEF TabTypes, OtherTabs, PlacesOfTabs
<1>3. CASE JoinGroup(t)
  <2>1. PICK place \in {"joined", "open"} : tab' = [tab EXCEPT ![t] = place]
    BY <1>3 DEF JoinGroup
  <2> QED
    BY <1>1, <1>2, <1>3, <2>1 DEF JoinGroup, HasTheirs, Joined
<1>4. CASE ReadGreeting(t)
  <2>1. figure # -1
    BY <1>1, LiveScreensAssumption DEF Figures
  <2> QED
    BY <1>1, <1>2, <1>4, <2>1 DEF ReadGreeting, HasTheirs, Joined
<1>5. CASE Greet(t)
  BY <1>1, <1>2, <1>5 DEF Greet, HasTheirs, Joined
<1>6. CASE CheckPush(t)
  <2>1. inbox[t] # <<>> /\ inbox[t] \in Seq(Pushed) /\ tab[t] = "open"
    BY <1>1, <1>6 DEF CheckPush
  <2>2. Head(inbox[t]) = inbox[t][1] /\ 1 \in DOMAIN inbox[t]
    BY <2>1, Shortened
  <2>3. CASE stream = "admin" /\ ~allowed[t]
    <3>1. /\ tab' = [tab EXCEPT ![t] = "refused"] /\ inbox' = [inbox EXCEPT ![t] = <<>>]
          /\ UNCHANGED <<stream, figure, mover, screen, greeting, allowed, crossed, missed, leaked>>
      BY <1>6, <2>3 DEF CheckPush
    <3>2. <<>> \in Seq(Pushed)
      OBVIOUS
    <3>3. inbox'[t] = <<>> /\ tab'[t] = "refused"
      BY <1>1, <3>1
    <3>4. TabTypes' /\ OtherTabs(t)
      BY <1>1, <3>1, <3>2
    <3>5. HasTheirs(t)'
      BY <1>2, <2>3, <3>1, <3>3 DEF HasTheirs, Joined
    <3> QED
      BY <3>1, <3>4, <3>5
  <2>4. CASE ~(stream = "admin" /\ ~allowed[t])
    <3>1. /\ tab' = [tab EXCEPT ![t] = "checked"] /\ inbox' = inbox
          /\ UNCHANGED <<stream, figure, mover, screen, greeting, allowed, crossed, missed, leaked>>
      BY <1>6, <2>4 DEF CheckPush
    <3>2. allowed[t]
      BY <1>2, <2>4 DEF HasTheirs
    <3>3. ~Head(inbox[t]).late
      BY <1>2, <2>2, <3>2 DEF HasTheirs
    <3> QED
      BY <1>1, <1>2, <2>1, <3>1, <3>3 DEF HasTheirs, Joined
  <2> QED
    BY <2>3, <2>4
<1>7. CASE ShowPush(t)
  <2>1. inbox[t] # <<>> /\ inbox[t] \in Seq(Pushed) /\ tab[t] = "checked" /\ ~Head(inbox[t]).late
    BY <1>1, <1>2, <1>7 DEF ShowPush, HasTheirs
  <2>2. PICK x \in Pushed : x = Head(inbox[t])
    BY <2>1, Shortened
  <2>3. PICK rest \in Seq(Pushed) : rest = Tail(inbox[t])
    BY <2>1, Shortened
  <2>4. \A i \in DOMAIN rest : i + 1 \in DOMAIN inbox[t] /\ rest[i] = inbox[t][i + 1]
    BY <2>1, <2>3, Shortened
  <2>5. /\ tab' = [tab EXCEPT ![t] = "open"] /\ screen' = [screen EXCEPT ![t] = x.figure]
        /\ inbox' = [inbox EXCEPT ![t] = rest]
        /\ UNCHANGED <<stream, figure, mover, greeting, allowed, crossed, missed>>
    BY <1>7, <2>2, <2>3 DEF ShowPush
  <2>6. leaked' \in [Tabs -> BOOLEAN]
    BY <1>1, <1>7 DEF ShowPush
  <2>7. x.figure \in Figures
    BY <2>2 DEF Pushed
  <2>8. TabTypes' /\ OtherTabs(t)
    BY <1>1, <2>5, <2>6, <2>7
  <2>9. tab'[t] = "open" /\ inbox'[t] = rest
    BY <1>1, <2>5
  <2>10. allowed[t] => \A i \in DOMAIN rest : ~rest[i].late
    BY <1>2, <2>4 DEF HasTheirs
  <2> QED
    BY <1>2, <2>5, <2>8, <2>9, <2>10 DEF HasTheirs, Joined
<1>8. CASE OpenPage(t)
  BY <1>1, <1>2, <1>8 DEF OpenPage, HasTheirs, Joined
<1>9. CASE ConnectionBreaks(t)
  <2>1. <<>> \in Seq(Pushed)
    OBVIOUS
  <2>2. missed' \in [Tabs -> BOOLEAN]
    BY <1>1, <1>9 DEF ConnectionBreaks
  <2>3. TabTypes' /\ OtherTabs(t)
    BY <1>1, <1>9, <2>1, <2>2 DEF ConnectionBreaks
  <2>4. inbox'[t] = <<>> /\ tab'[t] = "page" /\ UNCHANGED <<stream, allowed>>
    BY <1>1, <1>9 DEF ConnectionBreaks
  <2> QED
    BY <1>2, <1>9, <2>3, <2>4 DEF ConnectionBreaks, HasTheirs, Joined
<1>10. CASE RightEnds(t)
  BY <1>1, <1>2, <1>10 DEF RightEnds, HasTheirs, Joined
<1> QED
  BY <1>3, <1>4, <1>5, <1>6, <1>7, <1>8, <1>9, <1>10

LEMMA LiveTyped ==
  ASSUME LiveTypeOK, PagesHaveTheirs, MoversHaveTheirs, [LiveStep \/ LiveEvent]_liveVars
  PROVE  LiveTypeOK' /\ PagesHaveTheirs' /\ MoversHaveTheirs'
<1>1. stream \in Streams /\ figure \in Figures /\ mover \in [Movers -> Works] /\ TabTypes
      /\ crossed \in BOOLEAN
  BY LiveTypesAre
<1>2. (LiveTypeOK <=> /\ stream \in Streams /\ figure \in Figures /\ mover \in [Movers -> Works]
                      /\ TabTypes /\ crossed \in BOOLEAN)'
  BY LiveTypesAre, PTL
<1>3. ASSUME PagesRest, UNCHANGED stream PROVE TabTypes' /\ PagesHaveTheirs'
  BY <1>1, <1>3 DEF PagesRest, TabTypes, PagesHaveTheirs, Joined
<1>4. ASSUME NEW p \in Movers, Turns(p) PROVE LiveTypeOK' /\ PagesHaveTheirs' /\ MoversHaveTheirs'
  <2>1. TabTypes' /\ PagesHaveTheirs'
    BY <1>3, <1>4 DEF Turns
  <2>2. MoversHaveTheirs'
    BY <1>4 DEF MoversHaveTheirs, Turns
  <2> QED
    BY <1>1, <1>2, <1>4, <2>1, <2>2 DEF Turns
<1>5. ASSUME NEW p \in Movers, Pushes(p) PROVE MoversHaveTheirs'
  <2>1. ASSUME NEW q \in Movers \ {p}
        PROVE  mover'[q].at = mover[q].at /\ mover'[q].for = mover[q].for
    BY <1>5 DEF Pushes, Keeps
  <2>2. /\ mover'[p].at \in {"render", "answer"} => mover'[p].for # NoTab
        /\ mover'[p].for # NoTab => mover[p].for # NoTab
        /\ stream' = stream
    BY <1>5 DEF Pushes
  <2> QED
    BY <2>1, <2>2 DEF MoversHaveTheirs
<1>6. ASSUME NEW p \in Movers, Send(p) PROVE LiveTypeOK' /\ PagesHaveTheirs' /\ MoversHaveTheirs'
  BY <1>1, <1>2, <1>5, <1>6, TabsOfSend, PushesFacts DEF Pushes
<1>7. ASSUME NEW p \in Movers, SendFails(p)
      PROVE  LiveTypeOK' /\ PagesHaveTheirs' /\ MoversHaveTheirs'
  <2>1. /\ missed' = Misses /\ crossed' = TRUE
        /\ UNCHANGED <<stream, figure, tab, screen, greeting, inbox, allowed, leaked>>
    BY <1>7 DEF SendFails
  <2>2. TabTypes' /\ PagesHaveTheirs'
    BY <1>1, <2>1 DEF TabTypes, Misses, PagesHaveTheirs, Joined
  <2> QED
    BY <1>1, <1>2, <1>5, <1>7, <2>1, <2>2, PushesFacts DEF Pushes
<1>8. ASSUME NEW p \in Movers, ReadForPush(p)
      PROVE  LiveTypeOK' /\ PagesHaveTheirs' /\ MoversHaveTheirs'
  <2>1. MoversHaveTheirs'
    BY <1>8, ReadsFacts DEF MoversHaveTheirs
  <2> QED
    BY <1>1, <1>2, <1>3, <1>8, <2>1, ReadsFacts
<1>9. ASSUME NEW p \in Movers, Render(p)
      PROVE  LiveTypeOK' /\ PagesHaveTheirs' /\ MoversHaveTheirs'
  <2>1. MoversHaveTheirs'
    BY <1>9, RendersFacts DEF MoversHaveTheirs
  <2> QED
    BY <1>1, <1>2, <1>3, <1>9, <2>1, RendersFacts
<1>10. ASSUME NEW p \in Movers, Swap(p)
       PROVE  LiveTypeOK' /\ PagesHaveTheirs' /\ MoversHaveTheirs'
  <2>0. mover[p].for # NoTab /\ mover[p] \in Works
    BY <1>1, <1>10 DEF MoversHaveTheirs, Swap
  <2>1. MoversHaveTheirs'
    BY <1>10, <2>0, SwapsFacts, RestIsWork DEF MoversHaveTheirs
  <2>2. screen' \in [Tabs -> Figures] /\ missed' \in [Tabs -> BOOLEAN]
    <3>1. mover[p].answer \in Figures
      BY <2>0 DEF Works
    <3>2. PICK lost \in BOOLEAN : missed' = [missed EXCEPT ![mover[p].for] = lost]
      BY <1>10, <2>0, SwapsFacts
    <3> QED
      BY <1>1, <1>10, <2>0, <3>1, <3>2, SwapsFacts DEF TabTypes
  <2>3. TabTypes' /\ PagesHaveTheirs'
    BY <1>1, <1>10, <2>0, <2>2, SwapsFacts DEF TabTypes, PagesHaveTheirs, Joined
  <2> QED
    BY <1>1, <1>2, <1>10, <2>0, <2>1, <2>3, SwapsFacts
<1>11. CASE PageSteps
  <2>1. PICK t \in Tabs : \/ JoinGroup(t) \/ ReadGreeting(t) \/ Greet(t) \/ CheckPush(t)
                          \/ ShowPush(t) \/ OpenPage(t) \/ ConnectionBreaks(t) \/ RightEnds(t)
    BY <1>11 DEF PageSteps
  <2>2. TabTypes' /\ OtherTabs(t) /\ HasTheirs(t)' /\ UNCHANGED <<stream, figure, mover, crossed>>
    BY <2>1, TabsOfPages
  <2>3. PagesHaveTheirs'
    BY <2>2, OtherTabsKept
  <2>4. MoversHaveTheirs'
    BY <2>2 DEF MoversHaveTheirs
  <2> QED
    BY <1>1, <1>2, <2>2, <2>3, <2>4
<1>12. CASE UNCHANGED liveVars
  <2>1. UNCHANGED <<stream, figure, mover, crossed>> /\ PagesRest
    BY <1>12 DEF liveVars, PagesRest
  <2>2. MoversHaveTheirs'
    BY <2>1 DEF MoversHaveTheirs
  <2> QED
    BY <1>1, <1>2, <1>3, <2>1, <2>2
<1> QED
  BY <1>4, <1>6, <1>7, <1>8, <1>9, <1>10, <1>11, <1>12, LiveKinds

-----------------------------------------------------------------------------
(* Live screens: once nobody has anything to send, every page is right.     *)

\* The three promises for one page.
RightAt(t) ==
  /\ inbox[t] # <<>> => LastOf(t) = figure
  /\ tab[t] = "greeting" /\ inbox[t] = <<>> => greeting[t] = figure
  /\ tab[t] \in {"page", "joined", "greeting", "open"} /\ inbox[t] = <<>> /\ ~missed[t] =>
       screen[t] = figure

EveryPageIsRight == ~crossed /\ NobodyPending => \A t \in Tabs : RightAt(t)

LEMMA RightParts ==
  InboxEndsRight /\ GreetingsAreRight /\ PagesAreRight <=> EveryPageIsRight
BY DEF InboxEndsRight, GreetingsAreRight, PagesAreRight, EveryPageIsRight, RightAt

\* A step that leaves the pages alone and discharges nobody.
LEMMA RightStays ==
  ASSUME EveryPageIsRight, NobodyPending' => NobodyPending,
         UNCHANGED <<figure, crossed>>, PagesRest
  PROVE  EveryPageIsRight'
BY DEF EveryPageIsRight, RightAt, LastOf, PagesRest

LEMMA RightForLater ==
  ASSUME NEW p \in Movers, Pending(p)' PROVE EveryPageIsRight'
BY DEF EveryPageIsRight, NobodyPending

LEMMA RightTurns ==
  ASSUME EveryPageIsRight, NEW p \in Movers, Turns(p) PROVE EveryPageIsRight'
<1>1. CASE figure' = figure
  <2>1. NobodyPending' => NobodyPending
    BY <1>1 DEF NobodyPending, Pending, Owes, Turns
  <2> QED
    BY <1>1, <2>1, RightStays DEF Turns
<1>2. CASE Pending(p)'
  BY <1>2, RightForLater
<1> QED
  BY <1>1, <1>2 DEF Turns, Pending, Owes

LEMMA RightSend ==
  ASSUME LiveTypeOK, EveryPageIsRight, HeldFiguresAreRight, PagesHaveTheirs,
         NEW p \in Movers, Send(p)
  PROVE  EveryPageIsRight'
<1> SUFFICES ASSUME ~crossed', NobodyPending', NEW t \in Tabs PROVE RightAt(t)'
  BY DEF EveryPageIsRight
<1>1. /\ inbox' = Delivered(p) /\ missed' = Misses /\ mover[p].at = "send"
      /\ UNCHANGED <<stream, figure, tab, screen, greeting, allowed, leaked>>
      /\ crossed' = ("push" \in mover[p].stale)
  BY DEF Send, Delivered
<1>2. mover[p].push = figure
  <2>1. HeldIsRight(p) /\ "push" \notin mover[p].stale
    BY <1>1, HeldParts
  <2>2. ~OtherPending(p)
    BY PushesFacts, PendingKept DEF OtherPending, NobodyPending, Pushes
  <2> QED
    BY <1>1, <2>1, <2>2 DEF HeldIsRight
<1>3. CASE Joined(t)
  <2>1. PICK x \in Pushed : x = [figure |-> mover[p].push, late |-> ~allowed[t]]
    BY SendFigures
  <2>2. inbox'[t] = Append(inbox[t], x) /\ x.figure = figure /\ inbox[t] \in Seq(Pushed)
    BY <1>1, <1>2, <1>3, <2>1, SendFigures DEF Delivered
  <2> HIDE <2>1
  <2>3. inbox'[t] # <<>> /\ inbox'[t][Len(inbox'[t])] = x
    BY <2>2, Appended
  <2> QED
    BY <1>1, <2>2, <2>3 DEF RightAt, LastOf
<1>4. CASE ~Joined(t)
  <2>1. inbox'[t] = <<>>
    BY <1>1, <1>4 DEF Delivered, PagesHaveTheirs
  <2>2. tab'[t] = "page" => missed'[t]
    BY <1>1 DEF Misses
  <2> QED
    BY <1>1, <1>4, <2>1, <2>2 DEF RightAt, Joined
<1> QED
  BY <1>3, <1>4

LEMMA RightSwap ==
  ASSUME LiveTypeOK, EveryPageIsRight, HeldFiguresAreRight, MoversHaveTheirs,
         NEW p \in Movers, Swap(p)
  PROVE  EveryPageIsRight'
<1> SUFFICES ASSUME ~crossed', NobodyPending', NEW t \in Tabs PROVE RightAt(t)'
  BY DEF EveryPageIsRight
<1>0. mover[p].for # NoTab
  BY DEF MoversHaveTheirs, Swap
<1>1. /\ mover[p].at = "answer" /\ mover[p].for \in Tabs
      /\ \A q \in Movers \ {p} : mover'[q] = mover[q]
      /\ UNCHANGED <<stream, figure, crossed, tab, greeting, inbox, allowed, leaked>>
      /\ screen' = [screen EXCEPT ![mover[p].for] = mover[p].answer]
      /\ missed' = [missed EXCEPT ![mover[p].for] =
                      ("answer" \in mover[p].stale)
                      \/ (missed[mover[p].for] /\ inbox[mover[p].for] # <<>>)]
  BY <1>0, SwapsFacts
<1>2. NobodyPending
  BY <1>1 DEF NobodyPending, Pending, Owes
<1>3. RightAt(t)
  BY <1>1, <1>2 DEF EveryPageIsRight
<1>4. screen \in [Tabs -> Figures] /\ missed \in [Tabs -> BOOLEAN]
  BY LiveTypesAre DEF TabTypes
<1>5. CASE t = mover[p].for
  <2>1. screen'[t] = mover[p].answer
        /\ (missed'[t] <=> "answer" \in mover[p].stale \/ (missed[t] /\ inbox[t] # <<>>))
    BY <1>1, <1>4, <1>5
  <2>2. HeldIsRight(p) /\ "answer" \in Holds(p) /\ ~OtherPending(p)
    BY <1>1, <1>2, HeldParts DEF Holds, OtherPending, NobodyPending
  <2>3. "answer" \notin mover[p].stale => mover[p].answer = figure
    BY <1>0, <2>2 DEF HeldIsRight
  <2> QED
    BY <1>1, <1>3, <2>1, <2>3 DEF RightAt, LastOf
<1>6. CASE t # mover[p].for
  <2>1. screen'[t] = screen[t] /\ missed'[t] = missed[t]
    BY <1>1, <1>4, <1>6
  <2> QED
    BY <1>1, <1>3, <2>1 DEF RightAt, LastOf
<1> QED
  BY <1>5, <1>6

LEMMA RightPage ==
  ASSUME LiveTypeOK, PagesHaveTheirs, NEW t \in Tabs, RightAt(t),
         \/ JoinGroup(t) \/ ReadGreeting(t) \/ Greet(t) \/ CheckPush(t) \/ ShowPush(t)
         \/ OpenPage(t) \/ ConnectionBreaks(t) \/ RightEnds(t)
  PROVE  RightAt(t)'
<1>1. TabTypes
  BY LiveTypesAre
<1>2. HasTheirs(t)
  BY DEF PagesHaveTheirs, HasTheirs
<1>3. CASE JoinGroup(t)
  <2>1. PICK place \in {"joined", "open"} : tab' = [tab EXCEPT ![t] = place]
    BY <1>3 DEF JoinGroup
  <2> QED
    BY <1>1, <1>3, <2>1 DEF JoinGroup, RightAt, LastOf, TabTypes
<1>4. CASE ReadGreeting(t)
  BY <1>1, <1>4 DEF ReadGreeting, RightAt, LastOf, TabTypes
<1>5. CASE Greet(t)
  BY <1>1, <1>5 DEF Greet, RightAt, LastOf, TabTypes
<1>6. CASE CheckPush(t)
  <2>1. CASE stream = "admin" /\ ~allowed[t]
    BY <1>1, <1>6, <2>1 DEF CheckPush, RightAt, TabTypes
  <2>2. CASE ~(stream = "admin" /\ ~allowed[t])
    BY <1>1, <1>6, <2>2 DEF CheckPush, RightAt, LastOf, TabTypes
  <2> QED
    BY <2>1, <2>2
<1>7. CASE ShowPush(t)
  <2>1. inbox[t] # <<>> /\ inbox[t] \in Seq(Pushed)
    BY <1>1, <1>2, <1>7 DEF ShowPush, HasTheirs, TabTypes
  <2>2. inbox[t][Len(inbox[t])].figure = figure
    BY <2>1 DEF RightAt, LastOf
  <2>3. PICK rest : rest = Tail(inbox[t])
    OBVIOUS
  <2>4. /\ rest = <<>> => inbox[t][Len(inbox[t])] = Head(inbox[t])
        /\ rest # <<>> => rest[Len(rest)] = inbox[t][Len(inbox[t])]
    BY <2>1, <2>3, Shortened
  <2>5. inbox'[t] = rest /\ screen'[t] = Head(inbox[t]).figure /\ tab'[t] = "open"
        /\ UNCHANGED figure
    BY <1>1, <1>7, <2>3 DEF ShowPush, TabTypes
  <2> QED
    BY <2>2, <2>4, <2>5 DEF RightAt, LastOf
<1>8. CASE OpenPage(t)
  BY <1>1, <1>8 DEF OpenPage, RightAt, LastOf, TabTypes
<1>9. CASE ConnectionBreaks(t)
  BY <1>1, <1>2, <1>9 DEF ConnectionBreaks, RightAt, TabTypes, HasTheirs, Joined
<1>10. CASE RightEnds(t)
  BY <1>10 DEF RightEnds, RightAt, LastOf
<1> QED
  BY <1>3, <1>4, <1>5, <1>6, <1>7, <1>8, <1>9, <1>10

LEMMA RightKept ==
  ASSUME LiveTypeOK, EveryPageIsRight, HeldFiguresAreRight, PagesHaveTheirs, MoversHaveTheirs,
         [LiveStep \/ LiveEvent]_liveVars
  PROVE  EveryPageIsRight'
<1>1. ASSUME NEW p \in Movers, ReadForPush(p) PROVE EveryPageIsRight'
  <2>1. Pending(p)'
    BY <1>1, ReadsFacts DEF Pending
  <2> QED
    BY <2>1, RightForLater
<1>2. ASSUME NEW p \in Movers, Render(p) PROVE EveryPageIsRight'
  <2>1. CASE stream = "bell"
    <3>1. NobodyPending' => NobodyPending
      BY <1>2, <2>1, RendersFacts DEF NobodyPending, Pending, Owes
    <3> QED
      BY <1>2, <3>1, RendersFacts, RightStays
  <2>2. CASE stream # "bell"
    <3>1. Pending(p)'
      BY <1>2, <2>2, RendersFacts DEF Pending, Owes
    <3> QED
      BY <3>1, RightForLater
  <2> QED
    BY <2>1, <2>2
<1>3. ASSUME NEW p \in Movers, SendFails(p) PROVE EveryPageIsRight'
  BY <1>3 DEF SendFails, EveryPageIsRight
<1>4. CASE PageSteps
  <2>1. PICK t \in Tabs : \/ JoinGroup(t) \/ ReadGreeting(t) \/ Greet(t) \/ CheckPush(t)
                          \/ ShowPush(t) \/ OpenPage(t) \/ ConnectionBreaks(t) \/ RightEnds(t)
    BY <1>4 DEF PageSteps
  <2>2. OtherTabs(t) /\ UNCHANGED <<stream, figure, mover, crossed>>
    BY <2>1, TabsOfPages
  <2>3. NobodyPending' => NobodyPending
    BY <2>2 DEF NobodyPending, Pending, Owes
  <2>4. ASSUME \A u \in Tabs : RightAt(u) PROVE \A u \in Tabs : RightAt(u)'
    <3>1. RightAt(t)'
      BY <2>1, <2>4, RightPage
    <3>2. \A u \in Tabs \ {t} : RightAt(u)'
      BY <2>2, <2>4 DEF RightAt, LastOf, OtherTabs
    <3> QED
      BY <3>1, <3>2
  <2> QED
    BY <2>2, <2>3, <2>4 DEF EveryPageIsRight
<1>5. CASE UNCHANGED liveVars
  <2>1. NobodyPending' => NobodyPending
    BY <1>5 DEF NobodyPending, Pending, Owes, liveVars
  <2> QED
    BY <1>5, <2>1, RightStays DEF liveVars, PagesRest
<1> QED
  BY <1>1, <1>2, <1>3, <1>4, <1>5, RightTurns, RightSend, RightSwap, LiveKinds

\* What an admin's page has shown was sent while he might see it.
LEMMA LeaksNever ==
  ASSUME LiveTypeOK, PagesHaveTheirs, \A t \in Tabs : ~leaked[t],
         [LiveStep \/ LiveEvent]_liveVars
  PROVE  \A t \in Tabs : ~leaked'[t]
<1>1. ASSUME NEW t \in Tabs, ShowPush(t) PROVE \A u \in Tabs : ~leaked'[u]
  BY <1>1 DEF ShowPush, LiveTypeOK, PagesHaveTheirs
<1>2. ASSUME UNCHANGED leaked PROVE \A u \in Tabs : ~leaked'[u]
  BY <1>2
<1> QED
  BY <1>1, <1>2 DEF LiveStep, LiveEvent, liveVars, ReadForPush, Send, Render, Swap, JoinGroup,
     ReadGreeting, Greet, CheckPush, BalanceMoves, NotificationAppears, SendFails, MarkRead,
     AdminMarksAllRead, OpenPanel, OpenPage, ConnectionBreaks, RightEnds

LEMMA ScreensFollow ==
  ASSUME LiveTypeOK, EveryPageIsRight, \A t \in Tabs : ~leaked[t] PROVE ScreensAreRight
<1>1. ASSUME NEW t \in Tabs, NothingUnderWay(t) PROVE NobodyPending
  BY <1>1 DEF NothingUnderWay, NobodyPending, Pending, Owes
<1> QED
  BY <1>1 DEF ScreensAreRight, EveryPageIsRight, RightAt, NothingUnderWay

LEMMA LiveInvKept ==
  ASSUME LiveInv, [LiveStep \/ LiveEvent]_liveVars PROVE LiveInv'
<1>1. LiveTypeOK /\ EveryPageIsRight /\ \A t \in Tabs : ~leaked[t]
  BY RightParts DEF LiveInv, ScreensAreRight
<1>2. LiveTypeOK' /\ PagesHaveTheirs' /\ MoversHaveTheirs'
  BY <1>1, LiveTyped DEF LiveInv
<1>3. HeldFiguresAreRight' /\ EveryPageIsRight'
  BY <1>1, HeldKept, RightKept DEF LiveInv
<1>4. (\A t \in Tabs : ~leaked[t])'
  BY <1>1, LeaksNever DEF LiveInv
<1>5. (LiveTypeOK /\ EveryPageIsRight /\ (\A t \in Tabs : ~leaked[t]) => ScreensAreRight)'
  BY ScreensFollow, PTL
<1>6. (InboxEndsRight /\ GreetingsAreRight /\ PagesAreRight <=> EveryPageIsRight)'
  BY RightParts, PTL
<1> QED
  BY <1>2, <1>3, <1>4, <1>5, <1>6 DEF LiveInv

LEMMA LiveInvAtFirst == ASSUME LiveInit PROVE LiveInv
<1>1. LiveTypeOK
  <2>1. <<>> \in Seq(Pushed) /\ AtRest \in Works /\ 0 \in Figures
    BY RestIsWork
  <2>2. TabTypes
    BY <2>1 DEF LiveInit, TabTypes, PlacesOfTabs
  <2> QED
    BY <2>1, <2>2, LiveTypesAre DEF LiveInit
<1>2. \A t \in Tabs : inbox[t] = <<>> /\ tab[t] = "closed" /\ allowed[t] /\ ~leaked[t]
  BY DEF LiveInit
<1>3. \A p \in Movers : mover[p].at = "rest" /\ mover[p].for = NoTab
  BY RestIsWork DEF LiveInit
<1>4. HeldFiguresAreRight /\ MoversHaveTheirs
  BY <1>3 DEF HeldFiguresAreRight, MoversHaveTheirs, Holds
<1>5. PagesHaveTheirs
  <2>1. \A i \in DOMAIN <<>> : FALSE
    OBVIOUS
  <2> QED
    BY <1>2, <2>1 DEF PagesHaveTheirs
<1>6. EveryPageIsRight
  BY <1>2 DEF EveryPageIsRight, RightAt
<1> QED
  BY <1>1, <1>2, <1>4, <1>5, <1>6, ScreensFollow, RightParts DEF LiveInv

-----------------------------------------------------------------------------
(* Receipts: what a job does to its lock and to the counts.                 *)

JobRows == [at : {"idle", "queued", "lock", "reread", "sending", "sent", "release"},
            of : Receipts \cup {NoJob}, retry : 0 .. SendRetries]
SweepRows == [at : {"idle", "claim", "queue", "giveback"},
              due : SUBSET Counts, now : Counts \cup {<<>>}]

\* The types of what jobs and of what sweeps work with.
JobTypes ==
  /\ marked \in [Receipts -> BOOLEAN]
  /\ sendLock \in [Receipts -> Jobs \cup {NoJob}]
  /\ job \in [Jobs -> JobRows]
  /\ receipts \in [Receipts -> Nat] /\ unsure \in [Receipts -> Nat]

SweepTypes ==
  /\ bought \in [Receipts -> {"pending", "standing", "withdrawn"}]
  /\ waited \in [Receipts -> 0 .. MaxSweeps + 1]
  /\ sweeps \in [Receipts -> 0 .. GaveUp]
  /\ sweep \in [Sweepers -> SweepRows]
  /\ sweepLock \in BOOLEAN

LEMMA ReceiptTypesAre == ReceiptTypeOK <=> JobTypes /\ SweepTypes
BY DEF ReceiptTypeOK, JobTypes, SweepTypes, JobRows, SweepRows

\* The promises of the jobs, of one job and of one order.
HoldsItsLock(j) ==
  /\ job[j].at # "idle" => job[j].of \in Receipts
  /\ job[j].at \in Locked => sendLock[job[j].of] = j
  /\ job[j].at \in {"queued", "lock"} => \A o \in Receipts : sendLock[o] # j
  /\ job[j].at \in {"sending", "sent"} => ~marked[job[j].of]

IsCounted(o) ==
  /\ receipts[o] <= 1 + unsure[o]
  /\ \/ marked[o]
     \/ \E j \in Jobs : job[j].at = "sent" /\ job[j].of = o
     \/ receipts[o] <= unsure[o]

JobInv ==
  JobTypes /\ (\A j \in Jobs : HoldsItsLock(j)) /\ (\A o \in Receipts : IsCounted(o))

LEMMA ReceiptParts == ReceiptInv <=> JobInv /\ SweepTypes /\ SweepsCountAttempts
BY ReceiptTypesAre DEF ReceiptInv, JobInv, HoldsItsLock, IsCounted, JobsHoldTheirLock,
                       ReceiptsAreCounted, NoReceiptTwice

\* A step of j alone: it takes or gives up locks that are its own or nobody's.
JobMoves(j, entry) ==
  /\ entry \in JobRows /\ job' = [job EXCEPT ![j] = entry]
  /\ sendLock' \in [Receipts -> Jobs \cup {NoJob}]
  /\ \A o \in Receipts : sendLock'[o] # sendLock[o] =>
       sendLock[o] \in {j, NoJob} /\ sendLock'[o] \in {j, NoJob}

LEMMA MovesFacts ==
  ASSUME JobTypes, NEW j \in Jobs, NEW entry, JobMoves(j, entry)
  PROVE  /\ job' \in [Jobs -> JobRows] /\ job'[j] = entry
         /\ \A k \in Jobs \ {j} : job'[k] = job[k]
BY DEF JobTypes, JobMoves

LEMMA OthersHold ==
  ASSUME JobInv, NEW j \in Jobs, NEW entry, JobMoves(j, entry), UNCHANGED marked
  PROVE  \A k \in Jobs \ {j} : HoldsItsLock(k)'
<1> TAKE k \in Jobs \ {j}
<1>1. job'[k] = job[k] /\ HoldsItsLock(k) /\ k # NoJob
  BY MovesFacts, ReceiptsAssumption DEF JobInv
<1> QED
  BY <1>1 DEF HoldsItsLock, JobMoves, Locked

\* Such a step that sends nothing.
LEMMA QuietMoves ==
  ASSUME JobInv, NEW j \in Jobs, NEW entry, JobMoves(j, entry),
         UNCHANGED <<marked, receipts, unsure>>, job[j].at # "sent", HoldsItsLock(j)'
  PROVE  JobInv'
<1>1. JobTypes
  BY DEF JobInv
<1>2. JobTypes'
  BY <1>1, MovesFacts DEF JobTypes, JobMoves
<1>3. \A k \in Jobs : HoldsItsLock(k)'
  BY OthersHold
<1>4. ASSUME NEW o \in Receipts PROVE IsCounted(o)'
  <2>1. IsCounted(o)
    BY DEF JobInv
  <2>2. ASSUME NEW k \in Jobs, job[k].at = "sent" PROVE job'[k] = job[k]
    BY <1>1, <2>2, MovesFacts
  <2> QED
    BY <2>1, <2>2 DEF IsCounted
<1> QED
  BY <1>2, <1>3, <1>4 DEF JobInv

LEMMA RowsOfJobs ==
  /\ IdleJob \in JobRows /\ IdleJob.at = "idle"
  /\ \A o \in Receipts :
       /\ [at |-> "queued", of |-> o, retry |-> 0] \in JobRows
       /\ [at |-> "queued", of |-> o, retry |-> 0].at = "queued"
       /\ [at |-> "queued", of |-> o, retry |-> 0].of = o
BY ReceiptsAssumption DEF IdleJob, JobRows

LEMMA GivenUp ==
  ASSUME JobTypes, NEW j \in Jobs
  PROVE  /\ Unlocked(j) \in [Receipts -> Jobs \cup {NoJob}]
         /\ \A o \in Receipts : Unlocked(j)[o] # j
         /\ \A o \in Receipts : Unlocked(j)[o] # sendLock[o] =>
              sendLock[o] = j /\ Unlocked(j)[o] = NoJob
BY ReceiptsAssumption DEF JobTypes, Unlocked

LEMMA JobsEnd ==
  ASSUME JobInv, NEW j \in Jobs, JobEnds(j), UNCHANGED <<marked, receipts, unsure>>,
         job[j].at # "sent"
  PROVE  JobInv'
<1>1. JobTypes
  BY DEF JobInv
<1>2. JobMoves(j, IdleJob)
  BY <1>1, GivenUp, RowsOfJobs DEF JobMoves, JobEnds
<1>3. HoldsItsLock(j)'
  BY <1>1, <1>2, MovesFacts, RowsOfJobs DEF HoldsItsLock, Locked
<1> QED
  BY <1>2, <1>3, QuietMoves

LEMMA JobsQueued ==
  ASSUME JobInv, NEW j \in Jobs, NEW o \in Receipts, FreePlace(j), job' = Queued(j, o),
         UNCHANGED <<sendLock, marked, receipts, unsure>>
  PROVE  JobInv'
<1>1. JobTypes
  BY DEF JobInv
<1>2. PICK entry : entry = [at |-> "queued", of |-> o, retry |-> 0]
  OBVIOUS
<1>3. entry \in JobRows /\ entry.at = "queued" /\ entry.of = o
  BY <1>2, RowsOfJobs
<1>4. job[j].at = "idle" /\ \A q \in Receipts : sendLock[q] # j
  BY DEF FreePlace, Idle
<1>5. JobMoves(j, entry)
  BY <1>1, <1>2, <1>3 DEF JobMoves, Queued, JobTypes
<1>6. HoldsItsLock(j)'
  BY <1>1, <1>3, <1>4, <1>5, MovesFacts DEF HoldsItsLock, Locked
<1> QED
  BY <1>4, <1>5, <1>6, QuietMoves

\* A job with the lock of an order is the only one of that order past its lock.
LEMMA OneSends ==
  ASSUME JobInv, NEW j \in Jobs, NEW k \in Jobs, job[j].at \in Locked, job[k].at \in Locked,
         job[j].of = job[k].of
  PROVE  j = k
BY DEF JobInv, HoldsItsLock

LEMMA JobsKept ==
  ASSUME JobInv, NEW j \in Jobs,
         \/ StartJob(j) \/ TakeLock(j) \/ Reread(j) \/ ReleaseLock(j)
         \/ AddressRefused(j) \/ SendCrashes(j)
  PROVE  JobInv'
<1>1. JobTypes /\ HoldsItsLock(j) /\ job[j] \in JobRows
  BY DEF JobInv, JobTypes
<1>2. CASE StartJob(j)
  <2>1. CASE marked[job[j].of]
    <3>1. job' = [job EXCEPT ![j] = IdleJob]
      BY <1>2, <2>1 DEF StartJob
    <3>2. JobMoves(j, IdleJob)
      BY <1>1, <1>2, <3>1, RowsOfJobs DEF JobMoves, StartJob, JobTypes
    <3>3. HoldsItsLock(j)'
      BY <1>1, <3>2, MovesFacts, RowsOfJobs DEF HoldsItsLock, Locked
    <3> QED
      BY <1>2, <3>2, <3>3, QuietMoves DEF StartJob
  <2>2. CASE ~marked[job[j].of]
    <3>1. PICK entry : entry = [job[j] EXCEPT !.at = "lock"]
      OBVIOUS
    <3>2. entry \in JobRows /\ entry.at = "lock" /\ entry.of = job[j].of
      BY <1>1, <3>1 DEF JobRows
    <3>3. job' = [job EXCEPT ![j] = entry] /\ job[j].at = "queued"
          /\ UNCHANGED <<sendLock, marked, receipts, unsure>>
      BY <1>2, <2>2, <3>1 DEF StartJob
    <3>4. JobMoves(j, entry)
      BY <1>1, <3>2, <3>3 DEF JobMoves, JobTypes
    <3>5. HoldsItsLock(j)'
      BY <1>1, <3>2, <3>3, <3>4, MovesFacts DEF HoldsItsLock, Locked
    <3> QED
      BY <3>3, <3>4, <3>5, QuietMoves
  <2> QED
    BY <2>1, <2>2
<1>3. CASE TakeLock(j)
  <2>0. job[j].at = "lock" /\ job[j].of \in Receipts /\ UNCHANGED <<marked, receipts, unsure>>
    BY <1>1, <1>3 DEF TakeLock, HoldsItsLock
  <2>1. CASE sendLock[job[j].of] = NoJob
    <3>1. PICK entry : entry = [job[j] EXCEPT !.at = "reread"]
      OBVIOUS
    <3>2. entry \in JobRows /\ entry.at = "reread" /\ entry.of = job[j].of
      BY <1>1, <3>1 DEF JobRows
    <3>3. job' = [job EXCEPT ![j] = entry] /\ sendLock' = [sendLock EXCEPT ![job[j].of] = j]
      BY <1>1, <1>3, <2>1, <3>1 DEF TakeLock, JobRows
    <3>4. JobMoves(j, entry)
      BY <1>1, <2>0, <2>1, <3>2, <3>3 DEF JobMoves, JobTypes
    <3>5. HoldsItsLock(j)'
      BY <1>1, <2>0, <3>2, <3>3, <3>4, MovesFacts DEF HoldsItsLock, Locked, JobTypes
    <3> QED
      BY <2>0, <3>4, <3>5, QuietMoves
  <2>2. CASE sendLock[job[j].of] # NoJob
    <3>1. job' = [job EXCEPT ![j] = IdleJob] /\ UNCHANGED sendLock
      BY <1>3, <2>2 DEF TakeLock
    <3>2. JobMoves(j, IdleJob)
      BY <1>1, <3>1, RowsOfJobs DEF JobMoves, JobTypes
    <3>3. HoldsItsLock(j)'
      BY <1>1, <3>2, MovesFacts, RowsOfJobs DEF HoldsItsLock, Locked
    <3> QED
      BY <2>0, <3>2, <3>3, QuietMoves
  <2> QED
    BY <2>1, <2>2
<1>4. CASE Reread(j)
  <2>0. job[j].at = "reread" /\ UNCHANGED <<marked, receipts, unsure>>
    BY <1>4 DEF Reread
  <2>1. CASE StillWanted(job[j].of)
    <3>1. PICK entry : entry = [job[j] EXCEPT !.at = "sending"]
      OBVIOUS
    <3>2. entry \in JobRows /\ entry.at = "sending" /\ entry.of = job[j].of
      BY <1>1, <3>1 DEF JobRows
    <3>3. job' = [job EXCEPT ![j] = entry] /\ UNCHANGED sendLock /\ ~marked[job[j].of]
      BY <1>1, <1>4, <2>1, <3>1 DEF Reread, JobRows, StillWanted
    <3>4. JobMoves(j, entry)
      BY <1>1, <3>2, <3>3 DEF JobMoves, JobTypes
    <3>5. HoldsItsLock(j)'
      BY <1>1, <2>0, <3>2, <3>3, <3>4, MovesFacts DEF HoldsItsLock, Locked
    <3> QED
      BY <2>0, <3>4, <3>5, QuietMoves
  <2>2. CASE ~StillWanted(job[j].of)
    BY <1>4, <2>0, <2>2, JobsEnd DEF Reread
  <2> QED
    BY <2>1, <2>2
<1>5. CASE ReleaseLock(j) \/ AddressRefused(j) \/ SendCrashes(j)
  BY <1>5, JobsEnd DEF ReleaseLock, AddressRefused, SendCrashes
<1> QED
  BY <1>2, <1>3, <1>4, <1>5

LEMMA MailKept ==
  ASSUME JobInv, NEW j \in Jobs, Mail(j) PROVE JobInv'
<1>1. JobTypes /\ HoldsItsLock(j) /\ job[j] \in JobRows
  BY DEF JobInv, JobTypes
<1>2. PICK o \in Receipts : o = job[j].of
  BY <1>1 DEF Mail, HoldsItsLock
<1>3. PICK entry : entry = [job[j] EXCEPT !.at = "sent"]
  OBVIOUS
<1>4. entry \in JobRows /\ entry.at = "sent" /\ entry.of = o
  BY <1>1, <1>2, <1>3 DEF JobRows
<1>5. /\ job[j].at = "sending" /\ job' = [job EXCEPT ![j] = entry]
      /\ receipts' = [receipts EXCEPT ![o] = receipts[o] + 1]
      /\ UNCHANGED <<marked, sendLock, unsure>>
  BY <1>1, <1>2, <1>3 DEF Mail, JobRows
<1>6. JobMoves(j, entry)
  BY <1>1, <1>4, <1>5 DEF JobMoves, JobTypes
<1>7. HoldsItsLock(j)'
  BY <1>1, <1>2, <1>4, <1>5, <1>6, MovesFacts DEF HoldsItsLock, Locked
<1>8. JobTypes'
  BY <1>1, <1>5, <1>6, MovesFacts DEF JobTypes
<1>9. receipts[o] <= unsure[o]
  <2>1. ~marked[o] /\ IsCounted(o)
    BY <1>1, <1>2, <1>5 DEF HoldsItsLock, JobInv
  <2>2. ~ \E k \in Jobs : job[k].at = "sent" /\ job[k].of = o
    BY <1>2, <1>5, OneSends DEF Locked
  <2> QED
    BY <2>1, <2>2 DEF IsCounted
<1>10. IsCounted(o)'
  <2>1. receipts'[o] = receipts[o] + 1 /\ unsure'[o] = unsure[o]
        /\ receipts[o] \in Nat /\ unsure[o] \in Nat
    BY <1>1, <1>5 DEF JobTypes
  <2>2. job'[j].at = "sent" /\ job'[j].of = o
    BY <1>1, <1>4, <1>6, MovesFacts
  <2> QED
    BY <1>9, <2>1, <2>2 DEF IsCounted
<1>11. ASSUME NEW q \in Receipts \ {o} PROVE IsCounted(q)'
  <2>1. IsCounted(q) /\ receipts'[q] = receipts[q]
    BY <1>1, <1>5 DEF JobInv, JobTypes
  <2>2. ASSUME NEW k \in Jobs, job[k].at = "sent" PROVE job'[k] = job[k]
    BY <1>1, <1>5, <1>6, <2>2, MovesFacts
  <2> QED
    BY <1>5, <2>1, <2>2 DEF IsCounted
<1> QED
  BY <1>5, <1>6, <1>7, <1>8, <1>10, <1>11, OthersHold DEF JobInv

LEMMA MarkKept ==
  ASSUME JobInv, NEW j \in Jobs, MarkSent(j) PROVE JobInv'
<1>1. JobTypes /\ HoldsItsLock(j) /\ job[j] \in JobRows
  BY DEF JobInv, JobTypes
<1>2. PICK o \in Receipts : o = job[j].of
  BY <1>1 DEF MarkSent, HoldsItsLock
<1>3. PICK entry : entry = [job[j] EXCEPT !.at = "release"]
  OBVIOUS
<1>4. entry \in JobRows /\ entry.at = "release" /\ entry.of = o
  BY <1>1, <1>2, <1>3 DEF JobRows
<1>5. /\ job[j].at = "sent" /\ job' = [job EXCEPT ![j] = entry]
      /\ marked' = [marked EXCEPT ![o] = TRUE]
      /\ UNCHANGED <<receipts, sendLock, unsure>>
  BY <1>1, <1>2, <1>3 DEF MarkSent, JobRows
<1>6. JobMoves(j, entry)
  BY <1>1, <1>4, <1>5 DEF JobMoves, JobTypes
<1>7. HoldsItsLock(j)'
  BY <1>1, <1>2, <1>4, <1>5, <1>6, MovesFacts DEF HoldsItsLock, Locked
<1>8. JobTypes'
  BY <1>1, <1>5, <1>6, MovesFacts DEF JobTypes
<1>9. ASSUME NEW k \in Jobs \ {j} PROVE HoldsItsLock(k)'
  <2>1. HoldsItsLock(k) /\ job'[k] = job[k]
    BY <1>1, <1>6, MovesFacts DEF JobInv
  <2>2. job[k].at \in {"sending", "sent"} => job[k].of # o
    BY <1>2, <1>5, OneSends DEF Locked
  <2> QED
    BY <1>1, <1>5, <2>1, <2>2 DEF HoldsItsLock, JobTypes
<1>10. ASSUME NEW q \in Receipts PROVE IsCounted(q)'
  <2>1. IsCounted(q) /\ (q = o => marked'[q]) /\ (q # o => marked'[q] = marked[q])
    BY <1>1, <1>5 DEF JobInv, JobTypes
  <2>2. ASSUME NEW k \in Jobs, job[k].at = "sent", job[k].of = q, q # o PROVE job'[k] = job[k]
    BY <1>1, <1>2, <1>6, <2>2, MovesFacts
  <2> QED
    BY <1>5, <2>1, <2>2 DEF IsCounted
<1> QED
  BY <1>7, <1>8, <1>9, <1>10 DEF JobInv

LEMMA BreaksKept ==
  ASSUME JobInv, NEW j \in Jobs, SendBreaks(j) PROVE JobInv'
<1>1. JobTypes /\ HoldsItsLock(j) /\ job[j] \in JobRows
  BY DEF JobInv, JobTypes
<1>2. PICK o \in Receipts : o = job[j].of
  BY <1>1 DEF SendBreaks, HoldsItsLock
<1>3. PICK entry : entry = IF job[j].retry < SendRetries
                         THEN [at |-> "queued", of |-> o, retry |-> job[j].retry + 1]
                         ELSE IdleJob
  OBVIOUS
<1>4. entry \in JobRows /\ entry.at \in {"queued", "idle"} /\ (entry.at # "idle" => entry.of = o)
  <2>1. CASE job[j].retry < SendRetries
    <3>1. entry = [at |-> "queued", of |-> o, retry |-> job[j].retry + 1]
      BY <1>3, <2>1
    <3>2. job[j].retry + 1 \in 0 .. SendRetries
      BY <1>1, <2>1, ReceiptsAssumption DEF JobRows
    <3> QED
      BY <1>1, <1>2, <3>1, <3>2 DEF JobRows
  <2>2. CASE ~(job[j].retry < SendRetries)
    BY <1>3, <2>2, RowsOfJobs
  <2> QED
    BY <2>1, <2>2
<1>5. /\ job[j].at = "sending" /\ job' = [job EXCEPT ![j] = entry]
      /\ sendLock' = Unlocked(j) /\ UNCHANGED marked
  <2>1. job[j].at = "sending" /\ sendLock' = Unlocked(j) /\ UNCHANGED marked
    BY DEF SendBreaks
  <2>2. CASE job[j].retry < SendRetries
    <3>1. job' = [job EXCEPT ![j] = [at |-> "queued", of |-> o, retry |-> job[j].retry + 1]]
      BY <1>2, <2>2 DEF SendBreaks
    <3> QED
      BY <1>3, <2>1, <2>2, <3>1
  <2>3. CASE ~(job[j].retry < SendRetries)
    <3>1. job' = [job EXCEPT ![j] = IdleJob]
      BY <1>1, <2>3 DEF SendBreaks, JobTypes, JobRows
    <3> QED
      BY <1>3, <2>1, <2>3, <3>1
  <2> QED
    BY <2>2, <2>3
<1>6. \/ UNCHANGED <<receipts, unsure>>
       \/ /\ receipts' = [receipts EXCEPT ![o] = receipts[o] + 1]
          /\ unsure' = [unsure EXCEPT ![o] = unsure[o] + 1]
  BY <1>2 DEF SendBreaks
<1>7. receipts' \in [Receipts -> Nat] /\ unsure' \in [Receipts -> Nat]
  BY <1>1, <1>6 DEF JobTypes
<1>8. JobMoves(j, entry)
  BY <1>1, <1>4, <1>5, GivenUp DEF JobMoves
<1>9. HoldsItsLock(j)'
  BY <1>1, <1>4, <1>5, <1>8, MovesFacts, GivenUp DEF HoldsItsLock, Locked
<1>10. JobTypes'
  BY <1>1, <1>5, <1>7, <1>8, MovesFacts, GivenUp DEF JobTypes
<1>11. ASSUME NEW q \in Receipts PROVE IsCounted(q)'
  <2>1. IsCounted(q) /\ receipts[q] \in Nat /\ unsure[q] \in Nat
    BY <1>1 DEF JobInv, JobTypes
  <2>2. \/ receipts'[q] = receipts[q] /\ unsure'[q] = unsure[q]
        \/ receipts'[q] = receipts[q] + 1 /\ unsure'[q] = unsure[q] + 1
    BY <1>1, <1>6 DEF JobTypes
  <2>3. ASSUME NEW k \in Jobs, job[k].at = "sent" PROVE job'[k] = job[k]
    BY <1>1, <1>5, <1>8, <2>3, MovesFacts
  <2>4. receipts'[q] <= 1 + unsure'[q] /\ (receipts[q] <= unsure[q] => receipts'[q] <= unsure'[q])
    BY <2>1, <2>2 DEF IsCounted
  <2> QED
    BY <1>5, <2>1, <2>3, <2>4 DEF IsCounted
<1> QED
  BY <1>5, <1>8, <1>9, <1>10, <1>11, OthersHold DEF JobInv

LEMMA DeathsKept ==
  ASSUME JobInv, NEW j \in Jobs, WorkerDies(j) PROVE JobInv'
<1>1. JobTypes /\ HoldsItsLock(j) /\ job[j] \in JobRows
  BY DEF JobInv, JobTypes
<1>2. PICK o \in Receipts : o = job[j].of
  BY <1>1 DEF WorkerDies, HoldsItsLock
<1>3. /\ job' = [job EXCEPT ![j] = IdleJob] /\ UNCHANGED <<marked, sendLock, receipts>>
      /\ job[j].at = "sent" => unsure' = [unsure EXCEPT ![o] = unsure[o] + 1]
      /\ job[j].at # "sent" => unsure' = unsure
  BY <1>2 DEF WorkerDies
<1>4. JobMoves(j, IdleJob)
  BY <1>1, <1>3, RowsOfJobs DEF JobMoves, JobTypes
<1>5. HoldsItsLock(j)'
  BY <1>1, <1>4, MovesFacts, RowsOfJobs DEF HoldsItsLock, Locked
<1>6. CASE job[j].at # "sent"
  BY <1>3, <1>4, <1>5, <1>6, QuietMoves
<1>7. CASE job[j].at = "sent"
  <2>1. JobTypes'
    BY <1>1, <1>3, <1>4, <1>7, MovesFacts DEF JobTypes
  <2>2. ASSUME NEW q \in Receipts PROVE IsCounted(q)'
    <3>1. IsCounted(q) /\ receipts[q] \in Nat /\ unsure[q] \in Nat
      BY <1>1 DEF JobInv, JobTypes
    <3>2. /\ q = o => unsure'[q] = unsure[q] + 1
          /\ q # o => unsure'[q] = unsure[q]
          /\ receipts'[q] = receipts[q] /\ marked'[q] = marked[q]
      BY <1>1, <1>3, <1>7 DEF JobTypes
    <3>3. ASSUME NEW k \in Jobs, job[k].at = "sent", job[k].of = q, q # o PROVE job'[k] = job[k]
      BY <1>1, <1>2, <1>4, <3>3, MovesFacts
    <3>4. CASE q = o
      BY <3>1, <3>2, <3>4 DEF IsCounted
    <3>5. CASE q # o
      BY <3>1, <3>2, <3>3, <3>5 DEF IsCounted
    <3> QED
      BY <3>4, <3>5
  <2> QED
    BY <1>3, <1>4, <1>5, <2>1, <2>2, OthersHold DEF JobInv
<1> QED
  BY <1>6, <1>7

LEMMA LapseKept ==
  ASSUME JobInv, NEW o \in Receipts, SendLockLapses(o) PROVE JobInv'
<1>1. JobTypes
  BY DEF JobInv
<1>2. /\ sendLock[o] # NoJob /\ job[sendLock[o]].at = "idle"
      /\ sendLock' = [sendLock EXCEPT ![o] = NoJob] /\ UNCHANGED <<job, marked, receipts, unsure>>
  BY DEF SendLockLapses, Idle
<1>3. ASSUME NEW j \in Jobs PROVE HoldsItsLock(j)'
  <2>1. HoldsItsLock(j) /\ j # NoJob
    BY ReceiptsAssumption DEF JobInv
  <2>2. sendLock[o] = j => job[j].at = "idle"
    BY <1>2
  <2> QED
    BY <1>1, <1>2, <2>1, <2>2 DEF HoldsItsLock, JobTypes, Locked
<1>4. \A q \in Receipts : IsCounted(q)'
  BY <1>2 DEF JobInv, IsCounted
<1>5. JobTypes'
  BY <1>1, <1>2 DEF JobTypes
<1> QED
  BY <1>3, <1>4, <1>5 DEF JobInv

LEMMA JobsUntouched ==
  ASSUME JobInv, UNCHANGED <<job, sendLock, marked, receipts, unsure>> PROVE JobInv'
BY DEF JobInv, JobTypes, HoldsItsLock, IsCounted

LEMMA JobInvKept ==
  ASSUME JobInv, SweepTypes, SweepsCountAttempts, [ReceiptStep \/ ReceiptEvent]_receiptVars
  PROVE  JobInv'
<1>1. ASSUME NEW o \in Receipts,
             \/ ConfirmAndQueue(o) \/ TimePasses(o) \/ SendLockLapses(o)
             \/ ConfirmOnly(o) \/ Withdraw(o)
      PROVE  JobInv'
  <2>1. CASE ConfirmAndQueue(o)
    BY <2>1, JobsQueued DEF ConfirmAndQueue
  <2>2. CASE TimePasses(o) \/ ConfirmOnly(o) \/ Withdraw(o)
    BY <2>2, JobsUntouched DEF TimePasses, ConfirmOnly, Withdraw
  <2> QED
    BY <1>1, <2>1, <2>2, LapseKept
<1>2. ASSUME NEW j \in Jobs,
             JobStep(j) \/ AddressRefused(j) \/ SendBreaks(j) \/ SendCrashes(j) \/ WorkerDies(j)
      PROVE  JobInv'
  BY <1>2, JobsKept, MailKept, MarkKept, BreaksKept, DeathsKept DEF JobStep
<1>3. ASSUME NEW s \in Sweepers,
             StartSweep(s) \/ SweepStep(s) \/ QueueFails(s) \/ SweepDies(s)
      PROVE  JobInv'
  <2>1. sweep[s].at \in {"queue", "giveback"} => sweep[s].now[1] \in Receipts
    BY DEF SweepsCountAttempts, Counts
  <2>2. CASE QueueAgain(s)
    BY <2>1, <2>2, JobsQueued DEF QueueAgain
  <2>3. CASE QueueFails(s)
    BY <2>1, <2>3, JobsQueued, JobsUntouched DEF QueueFails
  <2>4. CASE StartSweep(s) \/ Claim(s) \/ GiveBack(s) \/ EndSweep(s) \/ SweepDies(s)
    BY <2>4, JobsUntouched DEF StartSweep, Claim, GiveBack, EndSweep, SweepDies
  <2> QED
    BY <1>3, <2>2, <2>3, <2>4 DEF SweepStep
<1>4. CASE SweepLockLapses
  BY <1>4, JobsUntouched DEF SweepLockLapses
<1>5. CASE UNCHANGED receiptVars
  BY <1>5, JobsUntouched DEF receiptVars
<1> QED
  BY <1>1, <1>2, <1>3, <1>4, <1>5 DEF ReceiptStep, ReceiptEvent

-----------------------------------------------------------------------------
(* Receipts: what a sweep reads and counts.                                 *)

KnowsItsCount(s) == sweep[s].at \in {"queue", "giveback"} => sweep[s].now \in Counts

SweepInv == SweepTypes /\ \A s \in Sweepers : KnowsItsCount(s)

LEMMA SweepMoves ==
  ASSUME SweepInv, NEW s \in Sweepers, NEW entry \in SweepRows,
         sweep' = [sweep EXCEPT ![s] = entry],
         entry.at \in {"queue", "giveback"} => entry.now \in Counts,
         sweeps' \in [Receipts -> 0 .. GaveUp], sweepLock' \in BOOLEAN,
         UNCHANGED <<bought, waited>>
  PROVE  SweepInv'
<1>1. SweepTypes'
  BY DEF SweepInv, SweepTypes
<1>2. \A r \in Sweepers : KnowsItsCount(r)'
  BY DEF SweepInv, SweepTypes, KnowsItsCount
<1> QED
  BY <1>1, <1>2 DEF SweepInv

LEMMA SweepsUntouched ==
  ASSUME SweepInv, UNCHANGED <<bought, waited, sweeps, sweep, sweepLock>> PROVE SweepInv'
BY DEF SweepInv, SweepTypes, KnowsItsCount

LEMMA OrdersOfSweeps ==
  ASSUME SweepInv, NEW o \in Receipts, ConfirmAndQueue(o) \/ ConfirmOnly(o) \/ Withdraw(o)
                                       \/ TimePasses(o) \/ SendLockLapses(o)
  PROVE  SweepInv'
<1>1. SweepTypes
  BY DEF SweepInv
<1>2. CASE ConfirmAndQueue(o) \/ ConfirmOnly(o) \/ Withdraw(o)
  <2>1. PICK state \in {"standing", "withdrawn"} : bought' = [bought EXCEPT ![o] = state]
    BY <1>2 DEF ConfirmAndQueue, ConfirmOnly, Withdraw
  <2>2. UNCHANGED <<waited, sweeps, sweep, sweepLock>>
    BY <1>2 DEF ConfirmAndQueue, ConfirmOnly, Withdraw
  <2> QED
    BY <1>1, <2>1, <2>2 DEF SweepInv, SweepTypes, KnowsItsCount
<1>3. CASE TimePasses(o)
  <2>1. waited[o] + 1 \in 0 .. MaxSweeps + 1
    BY <1>1, <1>3, ReceiptsAssumption DEF TimePasses, SweepTypes
  <2>2. waited' = [waited EXCEPT ![o] = waited[o] + 1]
        /\ UNCHANGED <<bought, sweeps, sweep, sweepLock>>
    BY <1>3 DEF TimePasses
  <2> QED
    BY <1>1, <2>1, <2>2 DEF SweepInv, SweepTypes, KnowsItsCount
<1>4. CASE SendLockLapses(o)
  BY <1>4, SweepsUntouched DEF SendLockLapses
<1> QED
  BY <1>2, <1>3, <1>4

LEMMA JobsOfSweeps ==
  ASSUME SweepInv, JobInv, NEW j \in Jobs,
         JobStep(j) \/ AddressRefused(j) \/ SendBreaks(j) \/ SendCrashes(j) \/ WorkerDies(j)
  PROVE  SweepInv'
<1>1. CASE AddressRefused(j)
  <2>1. GaveUp \in 0 .. GaveUp
    BY ReceiptsAssumption DEF GaveUp
  <2>2. sweeps' = [sweeps EXCEPT ![job[j].of] = GaveUp]
        /\ UNCHANGED <<bought, waited, sweep, sweepLock>>
    BY <1>1 DEF AddressRefused
  <2> QED
    BY <2>1, <2>2 DEF SweepInv, SweepTypes, KnowsItsCount
<1>2. CASE JobStep(j) \/ SendBreaks(j) \/ SendCrashes(j) \/ WorkerDies(j)
  BY <1>2, SweepsUntouched DEF JobStep, StartJob, TakeLock, Reread, Mail, MarkSent, ReleaseLock,
                               SendBreaks, SendCrashes, WorkerDies
<1> QED
  BY <1>1, <1>2

LEMMA SweepsOfSweeps ==
  ASSUME SweepInv, NEW s \in Sweepers,
         StartSweep(s) \/ SweepStep(s) \/ QueueFails(s) \/ SweepDies(s)
  PROVE  SweepInv'
<1>1. SweepTypes /\ KnowsItsCount(s) /\ sweep[s] \in SweepRows
  BY DEF SweepInv, SweepTypes
<1>2. CASE StartSweep(s)
  <2>1. Candidates \in SUBSET Counts
    BY <1>1, ReceiptsAssumption DEF Candidates, SweepDue, Counts, GaveUp, SweepTypes
  <2>2. PICK entry : entry = [at |-> "claim", now |-> <<>>, due |-> Candidates]
    OBVIOUS
  <2>3. entry \in SweepRows /\ entry.at = "claim"
    BY <2>1, <2>2 DEF SweepRows
  <2>4. sweep' = [sweep EXCEPT ![s] = entry] /\ sweepLock' = TRUE
        /\ UNCHANGED <<bought, waited, sweeps>>
    BY <1>2, <2>2 DEF StartSweep
  <2> QED
    BY <1>1, <2>3, <2>4, SweepMoves DEF SweepTypes
<1>3. CASE Claim(s)
  <2>1. PICK c \in sweep[s].due :
          IF sweeps[c[1]] = c[2]
            THEN /\ sweeps' = [sweeps EXCEPT ![c[1]] = @ + 1]
                 /\ sweep' = [sweep EXCEPT ![s] = [at |-> "queue", due |-> @.due \ {c}, now |-> c]]
            ELSE /\ sweep' = [sweep EXCEPT ![s].due = @ \ {c}]
                 /\ UNCHANGED sweeps
    BY <1>3 DEF Claim
  <2>2. /\ c \in Counts /\ sweep[s].due \ {c} \in SUBSET Counts /\ sweep[s].at = "claim"
        /\ UNCHANGED <<bought, waited, sweepLock>>
    BY <1>1, <1>3 DEF Claim, SweepRows
  <2>3. CASE sweeps[c[1]] = c[2]
    <3>1. PICK entry : entry = [at |-> "queue", due |-> sweep[s].due \ {c}, now |-> c]
      OBVIOUS
    <3>2. entry \in SweepRows /\ entry.now = c
      BY <2>2, <3>1 DEF SweepRows
    <3>3. c[1] \in Receipts /\ c[2] + 1 \in 0 .. GaveUp
      BY <2>2, ReceiptsAssumption DEF Counts, GaveUp
    <3>4. sweeps' = [sweeps EXCEPT ![c[1]] = c[2] + 1] /\ sweep' = [sweep EXCEPT ![s] = entry]
      BY <2>1, <2>3, <3>1
    <3>5. sweeps' \in [Receipts -> 0 .. GaveUp]
      BY <1>1, <3>3, <3>4 DEF SweepTypes
    <3> QED
      BY <1>1, <2>2, <3>2, <3>4, <3>5, SweepMoves DEF SweepTypes
  <2>4. CASE sweeps[c[1]] # c[2]
    <3>1. PICK entry : entry = [sweep[s] EXCEPT !.due = sweep[s].due \ {c}]
      OBVIOUS
    <3>2. entry \in SweepRows /\ entry.at = "claim"
      BY <1>1, <2>2, <3>1 DEF SweepRows
    <3>3. sweep' = [sweep EXCEPT ![s] = entry] /\ UNCHANGED sweeps
      BY <1>1, <2>1, <2>4, <3>1 DEF SweepRows
    <3> QED
      BY <1>1, <2>2, <3>2, <3>3, SweepMoves DEF SweepTypes
  <2> QED
    BY <2>3, <2>4
<1>4. CASE QueueAgain(s) \/ GiveBack(s)
  <2>1. PICK entry : entry = [sweep[s] EXCEPT !.at = "claim", !.now = <<>>]
    OBVIOUS
  <2>2. entry \in SweepRows /\ entry.at = "claim"
    BY <1>1, <2>1 DEF SweepRows
  <2>3. sweep' = [sweep EXCEPT ![s] = entry] /\ UNCHANGED <<bought, waited, sweepLock>>
    BY <1>1, <1>4, <2>1 DEF QueueAgain, GiveBack, SweepRows
  <2>4. sweeps' \in [Receipts -> 0 .. GaveUp]
    <3>1. CASE QueueAgain(s)
      BY <1>1, <3>1 DEF QueueAgain, SweepTypes
    <3>2. CASE GiveBack(s)
      <4>1. sweep[s].now \in Counts
        BY <1>1, <3>2 DEF GiveBack, KnowsItsCount
      <4>2. sweep[s].now[1] \in Receipts /\ sweep[s].now[2] \in 0 .. GaveUp
        BY <4>1, ReceiptsAssumption DEF Counts, GaveUp
      <4>3. PICK n : n = IF sweeps[sweep[s].now[1]] = sweep[s].now[2] + 1
                           THEN sweep[s].now[2] ELSE sweeps[sweep[s].now[1]]
        OBVIOUS
      <4>4. n \in 0 .. GaveUp
        BY <1>1, <4>2, <4>3 DEF SweepTypes
      <4>5. sweeps' = [sweeps EXCEPT ![sweep[s].now[1]] = n]
        BY <3>2, <4>3 DEF GiveBack
      <4> QED
        BY <1>1, <4>2, <4>4, <4>5 DEF SweepTypes
    <3> QED
      BY <1>4, <3>1, <3>2
  <2> QED
    BY <1>1, <2>2, <2>3, <2>4, SweepMoves DEF SweepTypes
<1>5. CASE QueueFails(s)
  <2>1. PICK entry : entry = [sweep[s] EXCEPT !.at = "giveback"]
    OBVIOUS
  <2>2. entry \in SweepRows /\ entry.now = sweep[s].now
    BY <1>1, <2>1 DEF SweepRows
  <2>3. sweep' = [sweep EXCEPT ![s] = entry] /\ UNCHANGED <<bought, waited, sweeps, sweepLock>>
        /\ sweep[s].at = "queue"
    BY <1>1, <1>5, <2>1 DEF QueueFails, SweepRows
  <2> QED
    BY <1>1, <2>2, <2>3, SweepMoves DEF SweepTypes, KnowsItsCount
<1>6. CASE EndSweep(s) \/ SweepDies(s)
  <2>1. IdleSweep \in SweepRows /\ IdleSweep.at = "idle"
    BY DEF IdleSweep, SweepRows
  <2>2. sweep' = [sweep EXCEPT ![s] = IdleSweep] /\ UNCHANGED <<bought, waited, sweeps>>
        /\ sweepLock' \in BOOLEAN
    BY <1>1, <1>6 DEF EndSweep, SweepDies, SweepTypes
  <2> QED
    BY <1>1, <2>1, <2>2, SweepMoves DEF SweepTypes
<1> QED
  BY <1>2, <1>3, <1>4, <1>5, <1>6 DEF SweepStep

LEMMA ReceiptInvKept ==
  ASSUME ReceiptInv, [ReceiptStep \/ ReceiptEvent]_receiptVars PROVE ReceiptInv'
<1>1. JobInv /\ SweepTypes /\ SweepsCountAttempts
  BY ReceiptParts
<1>2. SweepInv
  BY <1>1 DEF SweepInv, KnowsItsCount, SweepsCountAttempts
<1>3. JobInv'
  BY <1>1, JobInvKept
<1>4. SweepInv'
  <2>1. CASE SweepLockLapses
    BY <1>2, <2>1 DEF SweepLockLapses, SweepInv, SweepTypes, KnowsItsCount
  <2>2. CASE UNCHANGED receiptVars
    BY <1>2, <2>2, SweepsUntouched DEF receiptVars
  <2> QED
    BY <1>1, <1>2, <2>1, <2>2, OrdersOfSweeps, JobsOfSweeps, SweepsOfSweeps
       DEF ReceiptStep, ReceiptEvent
<1>5. SweepsCountAttempts' /\ SweepTypes'
  BY <1>4 DEF SweepInv, KnowsItsCount, SweepsCountAttempts
<1>6. (ReceiptInv <=> JobInv /\ SweepTypes /\ SweepsCountAttempts)'
  BY ReceiptParts, PTL
<1> QED
  BY <1>3, <1>5, <1>6

LEMMA ReceiptInvAtFirst == ASSUME ReceiptInit PROVE ReceiptInv
<1> USE ReceiptsAssumption DEF ReceiptInit
<1>1. IdleJob \in JobRows /\ IdleJob.at = "idle" /\ IdleSweep \in SweepRows /\ IdleSweep.at = "idle"
  BY DEF IdleJob, JobRows, IdleSweep, SweepRows
<1>2. JobTypes
  BY <1>1 DEF JobTypes
<1>3. SweepTypes
  <2>1. 0 \in 0 .. GaveUp /\ 0 \in 0 .. MaxSweeps + 1
    BY DEF GaveUp
  <2> HIDE ReceiptsAssumption
  <2> QED
    BY <1>1, <2>1 DEF SweepTypes
<1>4. JobInv
  BY <1>1, <1>2 DEF JobInv, HoldsItsLock, IsCounted, Locked
<1>5. SweepsCountAttempts
  BY <1>1 DEF SweepsCountAttempts
<1> QED
  BY <1>3, <1>4, <1>5, ReceiptParts

-----------------------------------------------------------------------------
(* Notices of PV that expires.                                              *)

CycleRows == [at : {"idle", "judge", "dedup", "send", "end"}, day : 0 .. LastNightfall]

\* What one run may rely on.
RunsAlone(r) ==
  /\ cycle[r].at # "idle" =>
       cycleLock /\ cycle[r].day <= date /\ \A q \in Cycles : cycle[q].at # "idle" => q = r
  /\ cycle[r].at = "send" => \A n \in notices : n <= cycle[r].day - WarningDays

NoticesAreOfThePast == \A n \in notices : n <= date

LEMMA NoticeParts ==
  NoticeInv <=> /\ NoticeTypeOK /\ LooksAreKept /\ NoticesAreOfThePast
                /\ \A r \in Cycles : RunsAlone(r)
BY DEF NoticeInv, CyclesKeepApart, RunsAlone, NoticesAreOfThePast

\* A run that goes on to its next step without a notice.
LEMMA RunGoesOn ==
  ASSUME NoticeInv, NEW r \in Cycles, NEW entry \in CycleRows,
         cycle' = [cycle EXCEPT ![r] = entry], UNCHANGED <<date, carried, notices>>,
         entry.at # "idle" => /\ cycle[r].at # "idle" \/ \A q \in Cycles : cycle[q].at = "idle"
                              /\ cycleLock' /\ entry.day <= date,
         entry.at = "idle" => cycleLock' \/ cycle[r].at # "idle",
         cycleLock' \in BOOLEAN, cycleLock => cycleLock' \/ entry.at = "idle",
         entry.at = "send" => \A n \in notices : n <= entry.day - WarningDays,
         judged' \in 0 .. LastNightfall, LooksAreKept'
  PROVE  NoticeInv'
<1>1. cycle \in [Cycles -> CycleRows]
  BY DEF NoticeInv, NoticeTypeOK, CycleRows
<1>2. cycle' \in [Cycles -> CycleRows] /\ cycle'[r] = entry
      /\ \A q \in Cycles \ {r} : cycle'[q] = cycle[q]
  BY <1>1
<1>3. NoticeTypeOK'
  BY <1>2 DEF NoticeInv, NoticeTypeOK, CycleRows
<1>4. ASSUME NEW q \in Cycles PROVE RunsAlone(q)'
  <2>1. RunsAlone(q) /\ RunsAlone(r)
    BY NoticeParts
  <2>2. CASE q = r
    BY <1>2, <2>1, <2>2 DEF RunsAlone
  <2>3. CASE q # r
    BY <1>2, <2>1, <2>3 DEF RunsAlone
  <2> QED
    BY <2>2, <2>3
<1>5. NoticesAreOfThePast'
  BY DEF NoticeInv, NoticesAreOfThePast
<1>6. (NoticeInv <=> /\ NoticeTypeOK /\ LooksAreKept /\ NoticesAreOfThePast
                     /\ \A r_1 \in Cycles : RunsAlone(r_1))'
  BY DEF NoticeInv, CyclesKeepApart, RunsAlone, NoticesAreOfThePast
<1> QED
  BY <1>3, <1>4, <1>5, <1>6

LEMMA NearingStands ==
  ASSUME UNCHANGED carried, NEW d PROVE NearingExpiry(d)' <=> NearingExpiry(d)
BY DEF NearingExpiry, StrongSide, Alive

LEMMA LooksStand ==
  ASSUME LooksAreKept, UNCHANGED <<carried, judged>>, notices \subseteq notices'
  PROVE  LooksAreKept'
<1>1. NearingExpiry(judged)' <=> NearingExpiry(judged)
  BY DEF NearingExpiry, StrongSide, Alive
<1> QED
  BY <1>1 DEF LooksAreKept

LEMMA RunsKept ==
  ASSUME NoticeInv, NEW r \in Cycles,
         \/ StartCycle(r) \/ JudgePv(r) \/ FindNotice(r) \/ EndCycle(r)
         \/ LookFails(r) \/ CycleDies(r)
  PROVE  NoticeInv'
<1>1. /\ cycle[r] \in CycleRows /\ cycle \in [Cycles -> CycleRows] /\ cycleLock \in BOOLEAN
      /\ date \in Dates /\ judged \in 0 .. LastNightfall /\ notices \in SUBSET Dates
  BY DEF NoticeInv, NoticeTypeOK, CycleRows
<1>2. RunsAlone(r) /\ LooksAreKept /\ \A q \in Cycles : RunsAlone(q)
  BY NoticeParts
<1>3. WarningDays \in Nat /\ LastNightfall \in Nat
  BY ExpiryNoticesAssumption
<1>4. CASE StartCycle(r)
  <2>1. PICK place \in {"end", "judge"} :
          place = IF carried["L"] \cup carried["R"] = {} THEN "end" ELSE "judge"
    OBVIOUS
  <2>2. PICK entry : entry = [at |-> place, day |-> date]
    OBVIOUS
  <2>3. entry \in CycleRows /\ entry.at = place /\ entry.day = date
    BY <1>1, <1>3, <2>2 DEF CycleRows, Dates
  <2>4. /\ cycle' = [cycle EXCEPT ![r] = entry] /\ cycleLock' = TRUE /\ ~cycleLock
        /\ UNCHANGED <<date, carried, notices, judged>>
    BY <1>4, <2>1, <2>2 DEF StartCycle
  <2>5. \A q \in Cycles : cycle[q].at = "idle"
    BY <1>2, <2>4 DEF RunsAlone
  <2>6. LooksAreKept'
    BY <1>2, <2>4, LooksStand
  <2>7. date <= date
    BY <1>1, <1>3 DEF Dates
  <2> QED
    BY <1>1, <2>1, <2>3, <2>4, <2>5, <2>6, <2>7, RunGoesOn
<1>5. CASE JudgePv(r)
  <2>1. PICK place \in {"end", "dedup"} :
          place = IF NearingExpiry(cycle[r].day) THEN "dedup" ELSE "end"
    OBVIOUS
  <2>2. PICK entry : entry = [cycle[r] EXCEPT !.at = place]
    OBVIOUS
  <2>3. entry \in CycleRows /\ entry.at = place /\ entry.day = cycle[r].day
    BY <1>1, <2>2 DEF CycleRows
  <2>4. /\ cycle' = [cycle EXCEPT ![r] = entry] /\ cycle[r].at = "judge"
        /\ judged' = IF NearingExpiry(cycle[r].day) THEN 0 ELSE cycle[r].day
        /\ UNCHANGED <<date, carried, notices, cycleLock>>
    BY <1>1, <1>5, <2>1, <2>2 DEF JudgePv, CycleRows
  <2>5. judged' \in 0 .. LastNightfall
    BY <1>1, <1>3, <2>4 DEF CycleRows
  <2>6. LooksAreKept'
    BY <2>4, NearingStands DEF LooksAreKept
  <2> QED
    BY <1>1, <1>2, <2>1, <2>3, <2>4, <2>5, <2>6, RunGoesOn DEF RunsAlone
<1>6. CASE FindNotice(r)
  <2>1. PICK told \in BOOLEAN :
          /\ notices \cap Covered(cycle[r].day) # {} => told
          /\ told => notices \cap (Covered(cycle[r].day) \cup Borderline(cycle[r].day)) # {}
          /\ cycle' = [cycle EXCEPT ![r].at = IF told THEN "end" ELSE "send"]
          /\ judged' = IF told THEN cycle[r].day ELSE judged
    BY <1>6 DEF FindNotice
  <2>2. PICK place \in {"end", "send"} : place = IF told THEN "end" ELSE "send"
    OBVIOUS
  <2>3. PICK entry : entry = [cycle[r] EXCEPT !.at = place]
    OBVIOUS
  <2>4. entry \in CycleRows /\ entry.at = place /\ entry.day = cycle[r].day
    BY <1>1, <2>3 DEF CycleRows
  <2>5. /\ cycle' = [cycle EXCEPT ![r] = entry] /\ cycle[r].at = "dedup"
        /\ UNCHANGED <<date, carried, notices, cycleLock>>
    BY <1>1, <1>6, <2>1, <2>2, <2>3 DEF FindNotice, CycleRows
  <2>6. judged' \in 0 .. LastNightfall
    BY <1>1, <1>3, <2>1 DEF CycleRows
  <2>7. cycle[r].day \in Int
    BY <1>1, <1>3 DEF CycleRows
  <2>8. ~told => \A n \in notices : n <= cycle[r].day - WarningDays
    BY <1>1, <1>3, <2>1, <2>7 DEF Covered, Dates
  <2>9. told => \E n \in notices : n >= cycle[r].day - WarningDays
    BY <1>1, <1>3, <2>1, <2>7 DEF Covered, Borderline, Dates
  <2>10. LooksAreKept'
    <3>1. CASE told
      BY <2>1, <2>5, <2>9, <3>1 DEF LooksAreKept
    <3>2. CASE ~told
      BY <1>2, <2>1, <2>5, <3>2, LooksStand
    <3> QED
      BY <3>1, <3>2
  <2> QED
    BY <1>1, <1>2, <2>2, <2>4, <2>5, <2>6, <2>8, <2>10, RunGoesOn DEF RunsAlone
<1>7. CASE LookFails(r)
  <2>1. PICK entry : entry = [cycle[r] EXCEPT !.at = "end"]
    OBVIOUS
  <2>2. entry \in CycleRows /\ entry.at = "end" /\ entry.day = cycle[r].day
    BY <1>1, <2>1 DEF CycleRows
  <2>3. /\ cycle' = [cycle EXCEPT ![r] = entry] /\ cycle[r].at # "idle"
        /\ UNCHANGED <<date, carried, notices, cycleLock, judged>>
    BY <1>1, <1>7, <2>1 DEF LookFails, CycleRows
  <2>4. LooksAreKept'
    BY <1>2, <2>3, LooksStand
  <2> QED
    BY <1>1, <1>2, <2>2, <2>3, <2>4, RunGoesOn DEF RunsAlone
<1>8. CASE EndCycle(r) \/ CycleDies(r)
  <2>1. Asleep \in CycleRows /\ Asleep.at = "idle"
    BY <1>3 DEF Asleep, CycleRows
  <2>2. /\ cycle' = [cycle EXCEPT ![r] = Asleep] /\ cycle[r].at # "idle" /\ cycleLock' \in BOOLEAN
        /\ UNCHANGED <<date, carried, notices, judged>>
    BY <1>1, <1>8 DEF EndCycle, CycleDies
  <2>3. LooksAreKept'
    BY <1>2, <2>2, LooksStand
  <2> QED
    BY <1>1, <2>1, <2>2, <2>3, RunGoesOn
<1> QED
  BY <1>4, <1>5, <1>6, <1>7, <1>8

\* A notice is made by the only run there is, long after the last one.
LEMMA NoticesSpaced ==
  ASSUME NoticeInv, NEW r \in Cycles, SendNotice(r)
  PROVE  NoticeInv' /\ \A m \in notices : date - m >= WarningDays
<1>1. /\ cycle[r] \in CycleRows /\ cycle \in [Cycles -> CycleRows] /\ cycleLock \in BOOLEAN
      /\ date \in Dates /\ judged \in 0 .. LastNightfall /\ notices \in SUBSET Dates
      /\ carried \in [Sides -> SUBSET Dates]
  BY DEF NoticeInv, NoticeTypeOK, CycleRows
<1>2. RunsAlone(r) /\ LooksAreKept /\ NoticesAreOfThePast
  BY NoticeParts
<1>3. WarningDays \in Nat /\ LastNightfall \in Nat /\ cycle[r].day \in Int /\ date \in Int
  BY <1>1, ExpiryNoticesAssumption DEF CycleRows, Dates
<1>4. PICK entry : entry = [cycle[r] EXCEPT !.at = "end"]
  OBVIOUS
<1>5. entry \in CycleRows /\ entry.at = "end" /\ entry.day = cycle[r].day
  BY <1>1, <1>4 DEF CycleRows
<1>6. /\ cycle' = [cycle EXCEPT ![r] = entry] /\ cycle[r].at = "send"
      /\ notices' = notices \cup {date} /\ judged' = cycle[r].day
      /\ UNCHANGED <<date, carried, cycleLock>>
  BY <1>1, <1>4 DEF SendNotice, CycleRows
<1>7. /\ cycle[r].day <= date /\ cycleLock
      /\ \A q \in Cycles : cycle[q].at # "idle" => q = r
      /\ \A n \in notices : n <= cycle[r].day - WarningDays
  BY <1>2, <1>6 DEF RunsAlone
<1>8. \A m \in notices : date - m >= WarningDays
  <2> TAKE m \in notices
  <2>1. m \in Int
    BY <1>1 DEF Dates
  <2> QED
    BY <1>3, <1>7, <2>1
<1>9. NoticeTypeOK'
  <2>1. /\ cycle' \in [Cycles -> CycleRows] /\ notices' \in SUBSET Dates
        /\ judged' \in 0 .. LastNightfall
    BY <1>1, <1>5, <1>6 DEF CycleRows
  <2> QED
    BY <1>1, <1>6, <2>1 DEF NoticeTypeOK, CycleRows
<1>10. LooksAreKept'
  BY <1>3, <1>6, <1>7 DEF LooksAreKept
<1>11. NoticesAreOfThePast'
  BY <1>2, <1>3, <1>6 DEF NoticesAreOfThePast
<1>12. \A q \in Cycles : RunsAlone(q)'
  BY <1>1, <1>5, <1>6, <1>7 DEF RunsAlone
<1>13. NoticeInv'
  BY <1>9, <1>10, <1>11, <1>12 DEF NoticeInv, CyclesKeepApart, RunsAlone, NoticesAreOfThePast
<1> QED
  BY <1>8, <1>13

LEMMA NoticeInvKept ==
  ASSUME NoticeInv, [NoticeStep \/ NoticeEvent]_noticeVars PROVE NoticeInv'
<1>1. /\ cycle \in [Cycles -> CycleRows] /\ cycleLock \in BOOLEAN
      /\ date \in Dates /\ judged \in 0 .. LastNightfall /\ notices \in SUBSET Dates
      /\ carried \in [Sides -> SUBSET Dates]
  BY DEF NoticeInv, NoticeTypeOK, CycleRows
<1>2. (\A r \in Cycles : RunsAlone(r)) /\ LooksAreKept /\ NoticesAreOfThePast
  BY NoticeParts
<1>3. LastNightfall \in Nat \ {0}
  BY ExpiryNoticesAssumption
<1>4. ASSUME carried' \in [Sides -> SUBSET Dates], judged' = 0,
             UNCHANGED <<date, notices, cycleLock, cycle>>
      PROVE  NoticeInv'
  BY <1>1, <1>3, <1>4 DEF NoticeInv, NoticeTypeOK, CyclesKeepApart, LooksAreKept
<1>5. ASSUME NEW leg \in Sides, PvArrives(leg) PROVE NoticeInv'
  <2>1. carried' = [carried EXCEPT ![leg] = carried[leg] \cup {date}]
    BY <1>5 DEF PvArrives
  <2>2. carried' \in [Sides -> SUBSET Dates]
    BY <1>1, <2>1
  <2> QED
    BY <1>4, <1>5, <2>2 DEF PvArrives
<1>6. CASE BonusUsesUp
  <2>1. PICK n : carried' = [leg \in Sides |-> carried[leg] \ Oldest(Alive(leg, date), n)]
    BY <1>6 DEF BonusUsesUp
  <2>2. carried' \in [Sides -> SUBSET Dates]
    BY <1>1, <2>1
  <2> QED
    BY <1>4, <1>6, <2>2 DEF BonusUsesUp
<1>7. CASE CycleLockLapses
  <2>1. LooksAreKept'
    BY <1>2, <1>7, LooksStand DEF CycleLockLapses
  <2> QED
    BY <1>7, <2>1 DEF CycleLockLapses, NoticeInv, NoticeTypeOK, CyclesKeepApart
<1>8. CASE Nightfall
  <2>1. date' \in Dates /\ date < date' /\ date \in Int /\ date' \in Int
    BY <1>1, <1>3, <1>8 DEF Nightfall, Dates
  <2>2. LooksAreKept'
    BY <1>2, <1>8, LooksStand DEF Nightfall
  <2>3. \A r \in Cycles : cycle[r].day \in Int
    BY <1>1 DEF CycleRows
  <2>4. \A n \in notices : n \in Int
    BY <1>1 DEF Dates
  <2>5. CyclesKeepApart'
    BY <1>8, <2>1, <2>3 DEF Nightfall, NoticeInv, CyclesKeepApart
  <2>6. \A n \in notices' : n <= date'
    BY <1>8, <2>1, <2>4 DEF Nightfall, NoticeInv
  <2>7. NoticeTypeOK'
    BY <1>8, <2>1 DEF Nightfall, NoticeInv, NoticeTypeOK
  <2> QED
    BY <2>2, <2>5, <2>6, <2>7 DEF NoticeInv
<1>9. CASE UNCHANGED noticeVars
  <2>1. LooksAreKept'
    BY <1>2, <1>9, LooksStand DEF noticeVars
  <2> QED
    BY <1>9, <2>1 DEF noticeVars, NoticeInv, NoticeTypeOK, CyclesKeepApart
<1> QED
  BY <1>5, <1>6, <1>7, <1>8, <1>9, RunsKept, NoticesSpaced DEF NoticeStep, NoticeEvent

LEMMA NoticeInvAtFirst == ASSUME NoticeInit PROVE NoticeInv
<1>1. LastNightfall \in Nat \ {0} /\ 1 \in Dates /\ 0 \in 0 .. LastNightfall
  BY ExpiryNoticesAssumption DEF Dates
<1>2. Asleep \in CycleRows /\ Asleep.at = "idle"
  BY <1>1 DEF Asleep, CycleRows
<1>3. NoticeTypeOK
  BY <1>1, <1>2 DEF NoticeInit, NoticeTypeOK, CycleRows
<1> QED
  BY <1>2, <1>3 DEF NoticeInit, NoticeInv, CyclesKeepApart, LooksAreKept

\* PV of the stronger leg on its last day is close to it.
LEMMA LastDaysAreNear ==
  ASSUME NoticeTypeOK, NEW leg \in Sides, LastDayOf(leg) PROVE NearingExpiry(date)
<1>1. /\ date \in Nat /\ ExpiryDays \in Nat /\ WarningDays \in Nat /\ carried[leg] \in SUBSET Nat
      /\ StrongSide(date) = leg /\ date - ExpiryDays \in carried[leg]
  BY ExpiryNoticesAssumption DEF NoticeTypeOK, LastDayOf, Dates
<1>2. PICK alive \in SUBSET Nat : alive = Alive(leg, date)
  BY <1>1 DEF Alive
<1>3. date - ExpiryDays \in alive
  BY <1>1, <1>2 DEF Alive
<1>4. PICK least \in alive : \A d \in alive : least <= d
  BY <1>3, LeastExists
<1>5. Min(alive) \in alive /\ \A d \in alive : Min(alive) <= d
  BY <1>4 DEF Min
<1>6. Min(alive) <= date - ExpiryDays /\ Min(alive) \in Nat
  BY <1>2, <1>3, <1>5
<1>7. Min(alive) + ExpiryDays - date <= WarningDays
  BY <1>1, <1>6
<1> QED
  BY <1>1, <1>2, <1>3, <1>7 DEF NearingExpiry

LEMMA Announced ==
  ASSUME NoticeInv, [NoticeStep \/ NoticeEvent]_noticeVars
  PROVE  /\ NoticeTypeOK'
         /\ date' # date /\ judged = date /\ (\E leg \in Sides : LastDayOf(leg)) =>
              \E n \in notices : n >= date - WarningDays
         /\ \A n \in notices' \ notices : n = date /\ \A m \in notices : n - m >= WarningDays
<1>1. NoticeTypeOK'
  BY NoticeInvKept DEF NoticeInv
<1>2. ASSUME judged = date, NEW leg \in Sides, LastDayOf(leg)
      PROVE  \E n \in notices : n >= date - WarningDays
  BY <1>2, LastDaysAreNear DEF NoticeInv, LooksAreKept, NoticeTypeOK, Dates
<1>3. ASSUME NEW n \in notices' \ notices
      PROVE  n = date /\ \A m \in notices : n - m >= WarningDays
  <2>1. PICK r \in Cycles : SendNotice(r)
    BY <1>3 DEF NoticeStep, NoticeEvent, noticeVars, StartCycle, JudgePv, FindNotice, EndCycle,
                CycleLockLapses, Nightfall, PvArrives, BonusUsesUp, LookFails, CycleDies
  <2>2. n = date
    BY <1>3, <2>1 DEF SendNotice
  <2> QED
    BY <2>1, <2>2, NoticesSpaced
<1> QED
  BY <1>1, <1>2, <1>3

-----------------------------------------------------------------------------
(* The theorems.                                                            *)

LEMMA InvAtFirst == Init => OversightInv
BY AlertInvAtFirst, LiveInvAtFirst, ReceiptInvAtFirst, NoticeInvAtFirst DEF Init, OversightInv

LEMMA InvKept == OversightInv /\ [Next]_vars => OversightInv'
<1> SUFFICES ASSUME OversightInv, [Next]_vars PROVE OversightInv'
  OBVIOUS
<1>1. AlertInv' /\ LiveInv' /\ ReceiptInv' /\ NoticeInv'
  BY PartsSteps, AlertInvKept, LiveInvKept, ReceiptInvKept, NoticeInvKept DEF OversightInv
<1>2. part' # "screens" => stream' = "wallet"
  <2>1. UNCHANGED part /\ (part # "screens" => UNCHANGED stream)
    BY DEF Next, vars, restVars, liveVars, Report, Alarm, Show, Receipt, Notice
  <2> QED
    BY <2>1 DEF OversightInv
<1> QED
  BY <1>1, <1>2 DEF OversightInv

\* The invariant of each part holds for any number of processes, pages, orders and runs.
THEOREM OversightInvHolds == Spec => []OversightInv
<1> QED
  BY InvAtFirst, InvKept, PTL DEF Spec

\* However alarms overlap and fail, they are about what is so, and a check that ran
\* alone has told it (mnotify_credit.py, the payout checks).
THEOREM AlarmsAlwaysTrue == Spec => []AlarmsAreTrue
<1>1. OversightInv => AlarmsAreTrue
  BY DEF OversightInv, AlertInv
<1> QED
  BY <1>1, OversightInvHolds, PTL

\* Any number of pages, connections and requests that overlap: an open page shows the
\* truth once nothing is on its way, and nothing to whom has lost his right
\* (wallet and notification consumers).
THEOREM ScreensAlwaysRight == Spec => []ScreensAreRight
<1>1. OversightInv => ScreensAreRight
  BY DEF OversightInv, LiveInv
<1> QED
  BY <1>1, OversightInvHolds, PTL

\* The safety of receipts: a second one is sent only after a send of which nobody knew
\* that it had worked, however many jobs and sweeps there are for an order and
\* whichever of them die with their locks held (send_order_receipt_email_task).
THEOREM NoReceiptComesTwice == Spec => [](ReceiptTypeOK /\ NoReceiptTwice)
<1>1. OversightInv => ReceiptTypeOK /\ NoReceiptTwice
  BY DEF OversightInv, ReceiptInv
<1> QED
  BY <1>1, OversightInvHolds, PTL

\* PV whose last day passes was announced, and never twice within the warning days,
\* whatever the length of the warning and the life of PV
\* (send_pv_expiry_notifications).
THEOREM ExpiryAlwaysAnnounced == Spec => ExpiryIsAnnounced
<1>1. OversightInv /\ [Next]_vars =>
        [ /\ NoticeTypeOK'
          /\ date' # date /\ judged = date /\ (\E leg \in Sides : LastDayOf(leg)) =>
               \E n \in notices : n >= date - WarningDays
          /\ \A n \in notices' \ notices : n = date /\ \A m \in notices : n - m >= WarningDays
        ]_noticeVars
  BY PartsSteps, Announced DEF OversightInv
<1> QED
  BY <1>1, OversightInvHolds, PTL DEF Spec, ExpiryIsAnnounced

=============================================================================
