------------------------------ MODULE Settings -------------------------------
(***************************************************************************)
(* The business rules the admins edit, of which three stand for all: the   *)
(* payout day and the bounds of a withdrawal.  The page is one form for    *)
(* every setting.  It is validated as a whole, with a hash of the values   *)
(* it was filled from, and then saved setting by setting, in no            *)
(* transaction: saves overlap, die half way and lose rows of the audit     *)
(* trail.                                                                  *)
(***************************************************************************)
EXTENDS Integers, FiniteSets

CONSTANTS
  Pages,        \* settings pages the admins have open
  PayoutDays,   \* choices of day_of_week_field
  MostBound,    \* bound: amounts to choose a bound from
  FirstDay      \* the payout day at first

ASSUME SettingsAssumption ==
  FirstDay \in PayoutDays /\ MostBound \in Nat

\* In the order of CONSTANCE_CONFIG, which is the order they are saved in.
Keys == {"WITHDRAWAL_DAY", "MIN_WITHDRAWAL_AMOUNT", "MAX_WITHDRAWAL_AMOUNT"}
SaveOrder == <<"WITHDRAWAL_DAY", "MIN_WITHDRAWAL_AMOUNT", "MAX_WITHDRAWAL_AMOUNT">>

Forms == [Keys -> PayoutDays \cup 0 .. MostBound]

VARIABLES
  value,     \* the Constance rows
  newest,    \* new_value of the newest PlatformSettingChange of a setting
  page,      \* what each page was filled from, what it saves and how far it is
  torn,      \* history: a save overlapped another or died; no whole one since
  doubtful   \* history: settings whose newest row was lost or passed by another

settingsVars == <<value, newest, page, torn, doubtful>>

Saving(p) == page[p].at > 0
Saves == {p \in Pages : Saving(p)}
Pending(k) == {p \in Pages : page[p].untold = k}

Closed == [at |-> 0, base |-> value, form |-> value, alone |-> TRUE, untold |-> "none"]

\* platform_settings: GET.
OpenSettings(p) ==
  /\ ~Saving(p)
  /\ page[p].base # value
  /\ page' = [page EXCEPT ![p] = Closed]
  /\ UNCHANGED <<value, newest, torn, doubtful>>

\* Mutant of Fresh: the page does not say what it was filled from.
AnyVersion(p) == page[p].at = 0

\* The hidden version field is the hash of the values as they are now.
Fresh(p) == page[p].base = value

\* validate_withdrawal_amount_bounds
InBounds(form) == form["MIN_WITHDRAWAL_AMOUNT"] <= form["MAX_WITHDRAWAL_AMOUNT"]

\* What the choice and number fields let through.
Clean(form) ==
  \A k \in Keys : form[k] \in IF k = "WITHDRAWAL_DAY" THEN PayoutDays ELSE 0 .. MostBound

\* platform_settings: POST, up to form.save. A form that is refused is shown
\* again and changes nothing.
SubmitPage(p, form) ==
  /\ ~Saving(p)
  /\ form # page[p].base
  /\ Fresh(p) /\ Clean(form) /\ InBounds(form)
  /\ page' = [q \in Pages |->
       IF q = p THEN [at |-> 1, base |-> page[p].base, form |-> form,
                      alone |-> Saves = {}, untold |-> "none"]
       ELSE [page[q] EXCEPT !.alone = FALSE]]
  /\ torn' = (torn \/ Saves # {})
  /\ UNCHANGED <<value, newest, doubtful>>

\* The save goes on to the next setting; after the last one the page is
\* shown anew. One that nothing overlapped leaves a form that was checked.
Proceed(p) ==
  LET last == page[p].at = Cardinality(Keys)
  IN /\ page' = [page EXCEPT ![p] = IF last THEN Closed
                                    ELSE [page[p] EXCEPT !.at = page[p].at + 1, !.untold = "none"]]
     /\ torn' = (torn /\ ~(last /\ page[p].alone))

\* form.save leaves a setting alone that has the submitted value by now.
KeepSetting(p) ==
  /\ Saving(p) /\ page[p].untold = "none"
  /\ page[p].form[SaveOrder[page[p].at]] = value[SaveOrder[page[p].at]]
  /\ Proceed(p)
  /\ UNCHANGED <<value, newest, doubtful>>

\* form.save writes the setting, and config_updated is sent.
WriteSetting(p) ==
  LET k == SaveOrder[page[p].at]
  IN /\ Saving(p) /\ page[p].untold = "none"
     /\ page[p].form[k] # value[k]
     /\ value' = [value EXCEPT ![k] = page[p].form[k]]
     /\ page' = [page EXCEPT ![p].untold = k]
     /\ doubtful' = IF Pending(k) = {} THEN doubtful ELSE doubtful \cup {k}
     /\ UNCHANGED <<newest, torn>>

\* record_setting_change: the row.
RecordChange(p) ==
  LET k == page[p].untold
  IN /\ k # "none"
     /\ newest' = [newest EXCEPT ![k] = page[p].form[k]]
     /\ doubtful' = IF Pending(k) = {p} /\ page[p].form[k] = value[k]
                    THEN doubtful \ {k} ELSE doubtful
     /\ Proceed(p)
     /\ UNCHANGED <<value>>

\* record_setting_change: the row cannot be written, and the save goes on.
RecordIsLost(p) ==
  /\ page[p].untold # "none"
  /\ doubtful' = doubtful \cup {page[p].untold}
  /\ Proceed(p)
  /\ UNCHANGED <<value, newest>>

\* The web worker is killed in the middle of form.save.
SaveDies(p) ==
  /\ Saving(p)
  /\ page' = [page EXCEPT ![p] = Closed]
  /\ torn' = TRUE
  /\ doubtful' = doubtful \cup ({page[p].untold} \ {"none"})
  /\ UNCHANGED <<value, newest>>

-----------------------------------------------------------------------------
SettingsInit ==
  /\ value = [k \in Keys |-> CASE k = "WITHDRAWAL_DAY" -> FirstDay
                              [] k = "MIN_WITHDRAWAL_AMOUNT" -> 0
                              [] k = "MAX_WITHDRAWAL_AMOUNT" -> MostBound]
  /\ newest = value
  /\ page = [p \in Pages |-> Closed]
  /\ torn = FALSE
  /\ doubtful = {}

SettingsStep ==
  \E p \in Pages : OpenSettings(p) \/ KeepSetting(p) \/ WriteSetting(p) \/ RecordChange(p)

SettingsEvent ==
  \E p \in Pages :
    \/ \E form \in Forms : SubmitPage(p, form)
    \/ RecordIsLost(p) \/ SaveDies(p)

SettingsTypeOK ==
  /\ value \in Forms /\ newest \in Forms
  /\ page \in [Pages -> [at : 0 .. Cardinality(Keys), base : Forms, form : Forms,
                         alone : BOOLEAN, untold : Keys \cup {"none"}]]
  /\ torn \in BOOLEAN /\ doubtful \subseteq Keys

\* No amount could be withdrawn with the bounds crossed. They cross only when
\* saves overlap or die, and the next whole save mends it.
BoundsStand == (Saves = {} /\ ~torn) => InBounds(value)

\* The newest row of the audit trail says what a setting is.
TrailIsRight ==
  \A k \in Keys \ doubtful : Pending(k) = {} => newest[k] = value[k]

\* An admin's save changes what that admin changed on the page, and undoes
\* nothing that the page did not show, unless saves overlap.
SavesOwnChanges ==
  \A p \in Pages, k \in Keys :
    (Saves = {p} /\ page[p].alone /\ value'[k] # value[k]) => page[p].form[k] # page[p].base[k]

(***************************************************************************)
(* The settings stand although nothing is locked or rolled back while they *)
(* are saved: the bounds and the audit trail are right again after any     *)
(* whole save, and no stale page undoes another admin's change             *)
(* (platform_settings, BancostoreConstanceForm, record_setting_change).    *)
(***************************************************************************)
SettingsStand ==
  /\ [](SettingsTypeOK /\ BoundsStand /\ TrailIsRight)
  /\ [][SavesOwnChanges]_settingsVars

=============================================================================
