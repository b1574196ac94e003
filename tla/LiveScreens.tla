---------------------------- MODULE LiveScreens -----------------------------
(***************************************************************************)
(* Live figures on open pages: a distributor's wallet balance, the badge of *)
(* his bell, and the badge of the bell that all admins share.  Whoever     *)
(* changes the figure commits, then reads the figure again and sends it to *)
(* the group of sockets of that stream.  The pages get a first figure when *)
(* they are rendered, connect and reconnect by themselves, and ask for the *)
(* bell's panel over HTTP.                                                 *)
(***************************************************************************)
EXTENDS Integers, Sequences

CONSTANTS
  Tabs,      \* open pages
  Movers,    \* requests and tasks that change the figure or ask for it
  NoTab,     \* no page
  MaxFigure  \* bound: the largest figure

ASSUME LiveScreensAssumption == NoTab \notin Tabs /\ MaxFigure \in Nat

Streams == {"wallet", "bell", "admin"}
Figures == 0 .. MaxFigure

VARIABLES
  stream,   \* the group of sockets looked at; the three have nothing in common
  figure,   \* the balance, or the number of unread notifications
  mover,    \* what each mover is about
  tab,      \* "closed", "page" (rendered, no socket), "joined", "open", "checked", "refused"
  screen,   \* the figure on the page
  greeting, \* the balance a new socket has read to send first
  inbox,    \* what the group has for a socket, in order
  allowed,  \* admin: the session may still see the portal
  crossed,  \* the last push was overtaken, or lost
  missed,   \* the page may have missed a push since its figure was read
  leaked    \* the page has shown a push from after its right had ended

liveVars == <<stream, figure, mover, tab, screen, greeting, inbox, allowed,
              crossed, missed, leaked>>

AtRest == [at |-> "rest", push |-> 0, answer |-> 0, for |-> NoTab, stale |-> {}]

Joined(t) == tab[t] \in {"joined", "greeting", "open", "checked"}

\* The figures that q has read and not passed on.
Holds(q) ==
  {x \in {"push", "answer"} :
     \/ x = "push" /\ mover[q].at = "send"
     \/ x = "answer" /\ mover[q].at = "answer"
     \/ x = "answer" /\ stream = "admin" /\ mover[q].at \in {"due", "send"}}

\* What the others hold was read before this push.
Overtaken(p) ==
  [q \in Movers |-> IF q = p THEN mover[q] ELSE [mover[q] EXCEPT !.stale = @ \cup Holds(q)]]

-----------------------------------------------------------------------------
(* What changes a figure. *)

MoverTurns(p, work) ==
  /\ mover[p].at = "rest"
  /\ mover' = [mover EXCEPT ![p] = work]

\* wallet.services.credit or debit: post_save of the WalletTransaction leaves
\* _send_balance_update for the commit.
BalanceMoves(p) ==
  /\ stream = "wallet"
  /\ MoverTurns(p, [AtRest EXCEPT !.at = "due"])
  /\ figure' \in Figures \ {figure}
  /\ UNCHANGED <<stream, tab, screen, greeting, inbox, allowed, crossed, missed, leaked>>

\* A notification row: _create_and_push for a distributor, and
\* send_admin_notification, which pushes once its caller has committed.
NotificationAppears(p) ==
  /\ stream # "wallet"
  /\ figure < MaxFigure
  /\ MoverTurns(p, [AtRest EXCEPT !.at = "due"])
  /\ figure' = figure + 1
  /\ UNCHANGED <<stream, tab, screen, greeting, inbox, allowed, crossed, missed, leaked>>

\* notification_mark_read and notification_mark_all_read, on page t: nothing is
\* pushed when nothing was unread.
MarkRead(p, t) ==
  /\ stream = "bell"
  /\ tab[t] # "closed"
  /\ MoverTurns(p, [AtRest EXCEPT !.at = IF figure = 0 THEN "render" ELSE "due", !.for = t])
  /\ figure' \in IF figure = 0 THEN {0} ELSE {figure - 1, 0}
  /\ UNCHANGED <<stream, tab, screen, greeting, inbox, allowed, crossed, missed, leaked>>

\* admin_notification_mark_all_read: the answer's figure is read first, and
\* broadcast_admin_unread_count reads its own.
AdminMarksAllRead(p, t) ==
  /\ stream = "admin"
  /\ tab[t] # "closed" /\ allowed[t]
  /\ MoverTurns(p, [AtRest EXCEPT !.at = "render", !.for = t])
  /\ figure' = 0
  /\ UNCHANGED <<stream, tab, screen, greeting, inbox, allowed, crossed, missed, leaked>>

\* notification_dropdown, admin_notification_dropdown.
OpenPanel(p, t) ==
  /\ stream # "wallet"
  /\ tab[t] # "closed" /\ allowed[t]
  /\ MoverTurns(p, [AtRest EXCEPT !.at = "answer", !.for = t, !.answer = figure])
  /\ UNCHANGED <<stream, figure, tab, screen, greeting, inbox, allowed, crossed,
                 missed, leaked>>

-----------------------------------------------------------------------------
(* How it gets to the pages. *)

\* The figure for the push is read after the commit.
ReadForPush(p) ==
  /\ mover[p].at = "due"
  /\ mover' = [mover EXCEPT ![p].at = "send", ![p].push = figure]
  /\ UNCHANGED <<stream, figure, tab, screen, greeting, inbox, allowed, crossed,
                 missed, leaked>>

\* What is left of p's request after its push.
AfterPush(p) ==
  IF mover[p].for = NoTab THEN AtRest
  ELSE [mover[p] EXCEPT !.at = IF stream = "bell" THEN "render" ELSE "answer"]

\* A page with no socket misses what is sent now.
Misses == [t \in Tabs |-> missed[t] \/ tab[t] = "page"]

\* group_send reaches the sockets that have joined the group.
Send(p) ==
  /\ mover[p].at = "send"
  /\ inbox' = [t \in Tabs |->
                 IF Joined(t)
                   THEN Append(inbox[t], [figure |-> mover[p].push, late |-> ~allowed[t]])
                   ELSE inbox[t]]
  /\ crossed' = ("push" \in mover[p].stale)
  /\ missed' = Misses
  /\ mover' = [Overtaken(p) EXCEPT ![p] = AfterPush(p)]
  /\ UNCHANGED <<stream, figure, tab, screen, greeting, allowed, leaked>>

\* Redis does not take it: logged, and the request goes on.
SendFails(p) ==
  /\ mover[p].at = "send"
  /\ crossed' = TRUE
  /\ missed' = Misses
  /\ mover' = [Overtaken(p) EXCEPT ![p] = AfterPush(p)]
  /\ UNCHANGED <<stream, figure, tab, screen, greeting, inbox, allowed, leaked>>

\* The panel that is the answer to the page, with the figure as it is now.
Render(p) ==
  /\ mover[p].at = "render"
  /\ mover' = [mover EXCEPT ![p].answer = figure, ![p].stale = {},
                            ![p].at = IF stream = "bell" THEN "answer" ELSE "due"]
  /\ UNCHANGED <<stream, figure, tab, screen, greeting, inbox, allowed, crossed,
                 missed, leaked>>

\* htmx swaps the answer in, and the badge with it.
Swap(p) ==
  LET t == mover[p].for
  IN  /\ mover[p].at = "answer"
      /\ screen' = [screen EXCEPT ![t] = mover[p].answer]
      /\ missed' = [missed EXCEPT ![t] = ("answer" \in mover[p].stale) \/ (@ /\ inbox[t] # <<>>)]
      /\ mover' = [mover EXCEPT ![p] = AtRest]
      /\ UNCHANGED <<stream, figure, tab, greeting, inbox, allowed, crossed, leaked>>

-----------------------------------------------------------------------------
(* The pages and their sockets. *)

OpenPage(t) ==
  /\ tab[t] = "closed" /\ allowed[t]
  /\ tab' = [tab EXCEPT ![t] = "page"]
  /\ screen' = [screen EXCEPT ![t] = figure]
  /\ missed' = [missed EXCEPT ![t] = FALSE]
  /\ UNCHANGED <<stream, figure, mover, greeting, inbox, allowed, crossed, leaked>>

\* Mutant of JoinGroup: the balance is read before the socket is in the group.
ReadThenJoin(t) ==
  /\ tab[t] = "page" /\ allowed[t]
  /\ IF stream = "wallet" /\ greeting[t] = -1
       THEN greeting' = [greeting EXCEPT ![t] = figure] /\ UNCHANGED tab
       ELSE /\ UNCHANGED greeting
            /\ tab' = [tab EXCEPT ![t] = IF stream = "wallet" THEN "greeting" ELSE "open"]
  /\ UNCHANGED <<stream, figure, mover, screen, inbox, allowed, crossed, missed, leaked>>

\* connect: group_add, accept. An admin who may not see it is turned away.
JoinGroup(t) ==
  /\ tab[t] = "page" /\ allowed[t]
  /\ tab' = [tab EXCEPT ![t] = IF stream = "wallet" THEN "joined" ELSE "open"]
  /\ UNCHANGED <<stream, figure, mover, screen, greeting, inbox, allowed, crossed,
                 missed, leaked>>

\* The rest of connect for a wallet: the balance now, whatever the page says.
ReadGreeting(t) ==
  /\ tab[t] = "joined"
  /\ tab' = [tab EXCEPT ![t] = "greeting"]
  /\ greeting' = [greeting EXCEPT ![t] = figure]
  /\ UNCHANGED <<stream, figure, mover, screen, inbox, allowed, crossed, missed, leaked>>

Greet(t) ==
  /\ tab[t] = "greeting"
  /\ tab' = [tab EXCEPT ![t] = "open"]
  /\ screen' = [screen EXCEPT ![t] = greeting[t]]
  /\ greeting' = [greeting EXCEPT ![t] = -1]
  /\ missed' = [missed EXCEPT ![t] = FALSE]
  /\ UNCHANGED <<stream, figure, mover, inbox, allowed, crossed, leaked>>

\* AdminNotificationConsumer checks the session again for each push
\* (_revoke_if_unauthorised); the sockets of distributors do not.
CheckPush(t) ==
  /\ tab[t] = "open" /\ inbox[t] # <<>>
  /\ IF stream = "admin" /\ ~allowed[t]
       THEN /\ tab' = [tab EXCEPT ![t] = "refused"]
            /\ inbox' = [inbox EXCEPT ![t] = <<>>]
       ELSE /\ tab' = [tab EXCEPT ![t] = "checked"]
            /\ UNCHANGED inbox
  /\ UNCHANGED <<stream, figure, mover, screen, greeting, allowed, crossed, missed, leaked>>

ShowPush(t) ==
  /\ tab[t] = "checked"
  /\ tab' = [tab EXCEPT ![t] = "open"]
  /\ screen' = [screen EXCEPT ![t] = Head(inbox[t]).figure]
  /\ leaked' = [leaked EXCEPT ![t] = @ \/ Head(inbox[t]).late]
  /\ inbox' = [inbox EXCEPT ![t] = Tail(@)]
  /\ UNCHANGED <<stream, figure, mover, greeting, allowed, crossed, missed>>

\* The connection breaks; the page keeps its figure and connects again later.
ConnectionBreaks(t) ==
  /\ Joined(t)
  /\ tab' = [tab EXCEPT ![t] = "page"]
  /\ missed' = [missed EXCEPT ![t] = @ \/ inbox[t] # <<>>]
  /\ inbox' = [inbox EXCEPT ![t] = <<>>]
  /\ greeting' = [greeting EXCEPT ![t] = -1]
  /\ UNCHANGED <<stream, figure, mover, screen, allowed, crossed, leaked>>

\* An admin is deactivated, logged out, or his password is changed.
RightEnds(t) ==
  /\ stream = "admin" /\ allowed[t]
  /\ allowed' = [allowed EXCEPT ![t] = FALSE]
  /\ UNCHANGED <<stream, figure, mover, tab, screen, greeting, inbox, crossed,
                 missed, leaked>>

-----------------------------------------------------------------------------
LiveInit ==
  /\ stream \in Streams
  /\ figure = 0
  /\ mover = [p \in Movers |-> AtRest]
  /\ tab = [t \in Tabs |-> "closed"]
  /\ screen = [t \in Tabs |-> 0]
  /\ greeting = [t \in Tabs |-> -1]
  /\ inbox = [t \in Tabs |-> <<>>]
  /\ allowed = [t \in Tabs |-> TRUE]
  /\ crossed = FALSE
  /\ missed = [t \in Tabs |-> FALSE]
  /\ leaked = [t \in Tabs |-> FALSE]

LiveStep ==
  \/ \E p \in Movers : ReadForPush(p) \/ Send(p) \/ Render(p) \/ Swap(p)
  \/ \E t \in Tabs : JoinGroup(t) \/ ReadGreeting(t) \/ Greet(t) \/ CheckPush(t) \/ ShowPush(t)

LiveEvent ==
  \/ \E p \in Movers :
       \/ BalanceMoves(p) \/ NotificationAppears(p) \/ SendFails(p)
       \/ \E t \in Tabs : MarkRead(p, t) \/ AdminMarksAllRead(p, t) \/ OpenPanel(p, t)
  \/ \E t \in Tabs : OpenPage(t) \/ ConnectionBreaks(t) \/ RightEnds(t)

LiveTypeOK ==
  /\ stream \in Streams /\ figure \in Figures
  /\ mover \in [Movers -> [at : {"rest", "due", "send", "render", "answer"},
                           push : Figures, answer : Figures,
                           for : Tabs \cup {NoTab}, stale : SUBSET {"push", "answer"}]]
  /\ tab \in [Tabs -> {"closed", "page", "joined", "greeting", "open", "checked", "refused"}]
  /\ screen \in [Tabs -> Figures]
  /\ greeting \in [Tabs -> Figures \cup {-1}]
  /\ inbox \in [Tabs -> Seq([figure : Figures, late : BOOLEAN])]
  /\ allowed \in [Tabs -> BOOLEAN] /\ crossed \in BOOLEAN
  /\ missed \in [Tabs -> BOOLEAN] /\ leaked \in [Tabs -> BOOLEAN]

\* Nothing is on its way to t.
NothingUnderWay(t) ==
  /\ \A p \in Movers : mover[p].at = "rest"
  /\ tab[t] = "open" /\ inbox[t] = <<>>

(***************************************************************************)
(* An open page shows the truth whenever nothing is on its way to it and   *)
(* the last push was neither lost nor overtaken by a later one: whatever   *)
(* commits, connections, reconnections and panels were interleaved before. *)
(* The bell has no greeting, so there it also takes a page that missed no  *)
(* push while it was not connected (notifications/services.py,             *)
(* distributors/consumers.py).  And an admin's page never shows what was   *)
(* pushed after his right to see it had ended (admin_portal/consumers.py). *)
(***************************************************************************)
ScreensAreRight ==
  /\ LiveTypeOK
  /\ \A t \in Tabs :
       /\ NothingUnderWay(t) /\ ~crossed /\ ~missed[t] => screen[t] = figure
       /\ ~leaked[t]

=============================================================================
