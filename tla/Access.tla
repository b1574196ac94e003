------------------------------- MODULE Access -------------------------------
(***************************************************************************)
(* Who is let in, and the rules the shop goes by: the sign-in and identity *)
(* verification, and the settings page.  The limits that sign-in reads are *)
(* constants of a behaviour, and the settings that are edited are others,  *)
(* so a behaviour follows one of the two while the other rests.            *)
(***************************************************************************)
EXTENDS Identity, Settings

CONSTANT MaxEdits  \* bound: saves begun, died and rows lost

ASSUME AccessAssumption == MaxEdits \in Nat

VARIABLES
  editing,  \* is it the settings page that is followed?
  edits     \* what befell it so far

accessVars == <<signInVars, kycVars, settingsVars, editing, edits>>

AccessInit ==
  /\ Init /\ SettingsInit
  /\ editing \in BOOLEAN
  /\ edits = 0

AccessNext ==
  \/ ~editing /\ Next /\ UNCHANGED <<settingsVars, editing, edits>>
  \/ editing /\ SettingsStep /\ UNCHANGED <<vars, editing, edits>>
  \/ /\ editing /\ edits < MaxEdits
     /\ SettingsEvent
     /\ edits' = edits + 1
     /\ UNCHANGED <<vars, editing>>

AccessSpec == AccessInit /\ [][AccessNext]_accessVars

=============================================================================
