----------------------------- MODULE Oversight ------------------------------
(***************************************************************************)
(* What people are told and shown: the nightly roll-up for the reports,    *)
(* the alarms for the admin, the live figures on open pages, the receipt   *)
(* email and the warning that PV expires.  The five share no state, so a   *)
(* behaviour follows one of them while the others rest.                    *)
(***************************************************************************)
EXTENDS Reporting, Alerts, LiveScreens, Receipts, ExpiryNotices

Parts == {"report", "alerts", "screens", "receipts", "notices"}

CONSTANT MaxEvents  \* bound: what befalls each part in a run

ASSUME OversightAssumption == MaxEvents \in [Parts -> Nat]

VARIABLES
  part,   \* the part that is followed
  events  \* what befell it so far

restVars == <<part, events>>
vars == <<reportVars, alertVars, liveVars, receiptVars, noticeVars, restVars>>

Init ==
  /\ ReportInit /\ AlertInit /\ LiveInit /\ ReceiptInit /\ NoticeInit
  /\ part \in Parts
  /\ part # "screens" => stream = "wallet"
  /\ events = 0

Report(A)   == part = "report" /\ A /\ UNCHANGED <<alertVars, liveVars, receiptVars, noticeVars>>
Alarm(A)    == part = "alerts" /\ A /\ UNCHANGED <<reportVars, liveVars, receiptVars, noticeVars>>
Show(A)     == part = "screens" /\ A /\ UNCHANGED <<reportVars, alertVars, receiptVars, noticeVars>>
Receipt(A)  == part = "receipts" /\ A /\ UNCHANGED <<reportVars, alertVars, liveVars, noticeVars>>
Notice(A)   == part = "notices" /\ A /\ UNCHANGED <<reportVars, alertVars, liveVars, receiptVars>>

Next ==
  \/ /\ \/ Report(ReportStep) \/ Alarm(AlertStep) \/ Show(LiveStep)
        \/ Receipt(ReceiptStep) \/ Notice(NoticeStep)
     /\ UNCHANGED restVars
  \/ /\ \/ Report(ReportEvent) \/ Alarm(AlertEvent) \/ Show(LiveEvent)
        \/ Receipt(ReceiptEvent) \/ Notice(NoticeEvent)
     /\ events < MaxEvents[part] /\ events' = events + 1
     /\ UNCHANGED part

By(A) == A /\ UNCHANGED restVars

(***************************************************************************)
(* The roll-up and the sweep are triggered again and again (celery beat),  *)
(* a run that is not killed goes on, a queued job is taken by a worker,    *)
(* time passes, and a lock whose run is over or was killed expires.        *)
(***************************************************************************)
Fairness ==
  /\ \A r \in Runners :
       /\ WF_vars(By(Report(StartRun(r))))
       /\ WF_vars(By(Report(RollDay(r) \/ FinishRun(r))))
  /\ WF_vars(By(Report(RunLockLapses)))
  /\ \A j \in Jobs : WF_vars(By(Receipt(JobStep(j))))
  /\ \A s \in Sweepers :
       /\ WF_vars(By(Receipt(StartSweep(s))))
       /\ WF_vars(By(Receipt(SweepStep(s))))
  /\ \A o \in Receipts :
       /\ WF_vars(By(Receipt(waited[o] < MaxSweeps /\ TimePasses(o))))
       /\ WF_vars(By(Receipt(SendLockLapses(o))))
  /\ WF_vars(By(Receipt(SweepLockLapses)))

Spec == Init /\ [][Next]_vars /\ Fairness

=============================================================================
