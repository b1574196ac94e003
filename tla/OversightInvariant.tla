------------------------- MODULE OversightInvariant -------------------------
(***************************************************************************)
(* Why the promises of Oversight hold: what each process may rely on while  *)
(* others run beside it.  There is one inductive invariant for each part;   *)
(* Oversight_proofs proves them.                                            *)
(***************************************************************************)
EXTENDS Oversight

-----------------------------------------------------------------------------
(* Alerts.                                                                  *)

\* The check that has run alone so far is the only one, and what it found calls for
\* what it is about to do.
AloneIsRight ==
  alone # Nobody =>
    /\ Checking = {alone}
    /\ at[alone] \in {"mail", "raise"} => found[alone] = "below"
    /\ at[alone] = "lower" => found[alone] = "above"

\* A balance is one that mNotify may have had, an alarm is about a shortage, and a
\* check that goes on has found a ratio.
AlarmsHaveReasons ==
  \A p \in Askers :
    /\ at[p] \in {"flag", "mail", "raise", "lower"} => found[p] # "none"
    /\ at[p] = "judge" => read[p] \in 0 .. FullCredit
    /\ at[p] \in {"alarm", "tell", "shorten"} => Shortage(read[p]) \in Kinds

AlertInv == AlarmsAreTrue /\ AloneIsRight /\ AlarmsHaveReasons

-----------------------------------------------------------------------------
(* Live screens.                                                            *)

\* The figure has still to be read for a push, or the push that is about to be sent
\* has it.
Owes(p) == mover[p].at = "due" \/ (stream = "admin" /\ mover[p].at = "render")
Pending(p) == Owes(p) \/ (mover[p].at = "send" /\ mover[p].push = figure)

NobodyPending == \A p \in Movers : ~Pending(p)
OtherPending(p) == \E q \in Movers \ {p} : Pending(q)

\* A figure that a mover still holds, and that no push has made stale since, is right
\* or somebody else is about to send the right one.
HeldFiguresAreRight ==
  \A p \in Movers :
    /\ mover[p].at = "send" /\ "push" \notin mover[p].stale =>
         mover[p].push = figure \/ OtherPending(p)
    /\ "answer" \in Holds(p) /\ "answer" \notin mover[p].stale /\ mover[p].for # NoTab =>
         mover[p].answer = figure \/ OtherPending(p)

\* The last figure on its way to a page is the right one.
LastOf(t) == inbox[t][Len(inbox[t])].figure

InboxEndsRight ==
  ~crossed /\ NobodyPending =>
    \A t \in Tabs : inbox[t] # <<>> => LastOf(t) = figure

\* With nothing on its way the page is right already, or the greeting will be.
GreetingsAreRight ==
  ~crossed /\ NobodyPending =>
    \A t \in Tabs : tab[t] = "greeting" /\ inbox[t] = <<>> => greeting[t] = figure

PagesAreRight ==
  ~crossed /\ NobodyPending =>
    \A t \in Tabs :
      tab[t] \in {"page", "joined", "greeting", "open"} /\ inbox[t] = <<>> /\ ~missed[t] =>
        screen[t] = figure

\* What a page and a mover have at each of their steps.
PagesHaveTheirs ==
  \A t \in Tabs :
    /\ ~Joined(t) => inbox[t] = <<>>
    /\ tab[t] = "checked" => inbox[t] # <<>> /\ ~Head(inbox[t]).late
    /\ tab[t] = "greeting" => greeting[t] # -1
    /\ stream # "admin" => allowed[t]
    /\ allowed[t] => \A i \in DOMAIN inbox[t] : ~inbox[t][i].late

MoversHaveTheirs ==
  \A p \in Movers :
    /\ mover[p].at = "answer" => mover[p].for # NoTab
    /\ mover[p].at = "render" => mover[p].for # NoTab
    /\ mover[p].for # NoTab => stream # "wallet"

LiveInv ==
  /\ ScreensAreRight
  /\ HeldFiguresAreRight
  /\ InboxEndsRight /\ GreetingsAreRight /\ PagesAreRight
  /\ PagesHaveTheirs /\ MoversHaveTheirs

-----------------------------------------------------------------------------
(* Receipts.                                                                *)

Locked == {"reread", "sending", "sent", "release"}

\* A job that is past its lock holds it, and a lock that nobody holds waits for its end.
JobsHoldTheirLock ==
  \A j \in Jobs :
    /\ job[j].at # "idle" => job[j].of \in Receipts
    /\ job[j].at \in Locked => sendLock[job[j].of] = j
    /\ job[j].at \in {"queued", "lock"} => \A o \in Receipts : sendLock[o] # j

\* An order is marked by the job that has sent its receipt, under the lock; until then
\* each receipt that was sent is one of which nobody knows.
ReceiptsAreCounted ==
  /\ \A j \in Jobs : job[j].at \in {"sending", "sent"} => ~marked[job[j].of]
  /\ \A o \in Receipts :
       \/ marked[o]
       \/ \E j \in Jobs : job[j].at = "sent" /\ job[j].of = o
       \/ receipts[o] <= unsure[o]

\* A sweep that has raised a count knows which.
SweepsCountAttempts ==
  \A s \in Sweepers : sweep[s].at \in {"queue", "giveback"} => sweep[s].now \in Counts

ReceiptInv ==
  /\ ReceiptTypeOK /\ NoReceiptTwice
  /\ JobsHoldTheirLock /\ ReceiptsAreCounted /\ SweepsCountAttempts

-----------------------------------------------------------------------------
(* Notices of PV that expires.                                              *)

\* The lock keeps runs apart: each looks at the notices that its own are added to.
CyclesKeepApart ==
  /\ \A r \in Cycles : cycle[r].at # "idle" =>
       /\ cycleLock
       /\ cycle[r].day <= date
       /\ \A q \in Cycles : cycle[q].at # "idle" => q = r
  /\ \A r \in Cycles : cycle[r].at = "send" =>
       \A n \in notices : n <= cycle[r].day - WarningDays

\* After a complete look nothing of his was about to expire that day, or he has been
\* told.
LooksAreKept ==
  judged # 0 =>
    \/ ~NearingExpiry(judged)
    \/ \E n \in notices : n >= judged - WarningDays

NoticeInv ==
  /\ NoticeTypeOK /\ CyclesKeepApart /\ LooksAreKept
  /\ \A n \in notices : n <= date

-----------------------------------------------------------------------------
OversightInv ==
  /\ AlertInv /\ LiveInv /\ ReceiptInv /\ NoticeInv
  /\ part # "screens" => stream = "wallet"
=============================================================================
