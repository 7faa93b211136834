---------------------------- MODULE PhoneScreen ----------------------------
(***************************************************************************)
(* What is on the screen of a rented phone, and who takes the customer     *)
(* away from it: the loop of the on-device guard (the shell script of      *)
(* application/device_hardware_lockdown.py) and the restricted controls    *)
(* of the VPS (application/remote_access_service.py with                   *)
(* session_restriction_policy.py, setup_activity_guard.py and the          *)
(* inspection of setup_session_farm_task.py).                              *)
(*                                                                         *)
(* Each of them reads the foreground and acts later on what it read; a     *)
(* screen stands for every activity that both treat alike.                 *)
(***************************************************************************)
EXTENDS Naturals

CONSTANT MaxTaps        \* bound: controls, apps that open by themselves, flips of
                        \* the admin flag and restarts of the guard

ASSUME ScreenAssumption == MaxTaps \in Nat

VARIABLES screen,       \* what is in front
          admin,        \* the admin-mode flag
          setup,        \* where the eSIM setup of the rental is
          guard,        \* the guard: its step and the focus it has read
          file, hold,   \* the state file; its kick notice is still due
          control,      \* the control at work and the activity it has read
          taps

screenVars == <<screen, admin, setup, guard, file, hold, control, taps>>

Screens == {"home", "messages", "gallery", "sims", "esim", "settings", "sound",
            "subsound", "subnet", "browser", "game", "popup"}

Resting   == [at |-> "idle", for |-> "none", saw |-> "home", was |-> "open"]
Listening == [at |-> "read", focus |-> "home"]
Kicking   == [at |-> "kick", focus |-> "home"]

ScreenInit ==
  /\ screen = "home" /\ admin = FALSE /\ setup = "open"
  /\ guard = Listening /\ file = "home" /\ hold = FALSE
  /\ control = Resting /\ taps = 0

Tapped == taps < MaxTaps /\ taps' = taps + 1

\* What BACK may uncover, and where a tap may lead
Back(s) == IF s = "home" THEN {"home"} ELSE {"home", "messages", "settings"} \ {s}

-----------------------------------------------------------------------------
(* The guard on the phone *)

\* is_sim_esim_screen
SimOrEsim(s) == s \in {"sims", "esim"}

\* classify_focus
Key(s) == CASE s \in {"messages", "gallery"} -> s
            [] s \in {"esim", "sims", "subnet"} -> "network"
            [] s = "settings" -> "main"
            [] OTHER -> "home"

\* The case of the package: what is recorded, what is stopped and sent home, and
\* what needs a second look at the fragments.
Recorded(s) == s \in {"home", "messages", "gallery", "settings"} \/ SimOrEsim(s)
Kicked(s)   == s \in {"sound", "browser", "game"}

\* Fault for ScreenComesRight: a key that was written once counts as recorded
MaybeRecordOnce(key) ==
  /\ file' = IF hold \/ file = "blocked" THEN file ELSE key
  /\ UNCHANGED hold

\* Fault for ScreenTypeOK: the next screen replaces a kick notice
MaybeRecordAlways(key) == file' = key /\ UNCHANGED hold

\* maybe_record: a kick notice stays for as long as it was announced.
MaybeRecord(key) ==
  /\ file' = IF hold THEN file ELSE key
  /\ UNCHANGED hold

\* write_state of kick_and_record
Announce == file' = "blocked" /\ hold' = TRUE

GuardRead ==
  /\ guard.at = "read"
  /\ guard' = [at |-> "act", focus |-> screen]
  /\ UNCHANGED <<screen, admin, setup, file, hold, control, taps>>

\* dismiss_usb_popup comes before the look at the admin flag.
DismissPopup ==
  /\ guard.at = "act" /\ guard.focus = "popup"
  /\ screen' \in Back(screen)
  /\ guard' = Listening
  /\ UNCHANGED <<admin, setup, file, hold, control, taps>>

\* Fault for ScreenComesRight: fragments are taken for harmless
HarmlessSubSettings == guard.focus = "subsound" \/ screen # "subsound"

\* subsettings_reason finds nothing among the fragments that are on top now.
Harmless == screen # "subsound"

GuardAct ==
  /\ guard.at = "act" /\ guard.focus # "popup"
  /\ \/ admin /\ guard' = Listening /\ UNCHANGED <<file, hold>>
     \/ ~admin /\ Recorded(guard.focus)
        /\ MaybeRecord(Key(guard.focus)) /\ guard' = Listening
     \/ ~admin /\ Kicked(guard.focus)
        /\ Announce /\ guard' = Kicking
     \/ ~admin /\ guard.focus \in {"subsound", "subnet"}
        /\ \/ Harmless /\ MaybeRecord("network") /\ guard' = Listening
           \/ ~Harmless /\ Announce /\ guard' = Kicking
  /\ UNCHANGED <<screen, admin, setup, control, taps>>

\* kick_pkg stops the package that was read and goes HOME, whatever is in front
\* by now.
GuardKick ==
  /\ guard.at = "kick"
  /\ screen' = "home" /\ guard' = Listening
  /\ UNCHANGED <<admin, setup, file, hold, control, taps>>

\* Six seconds after the kick
HoldEnds ==
  /\ hold /\ hold' = FALSE
  /\ UNCHANGED <<screen, admin, setup, guard, file, control, taps>>

\* The guard is killed at any point and started again.
GuardRestart ==
  /\ Tapped
  /\ guard' = Listening /\ file' = "home" /\ hold' = FALSE
  /\ UNCHANGED <<screen, admin, setup, control>>

Guard == GuardRead \/ DismissPopup \/ GuardAct \/ GuardKick
-----------------------------------------------------------------------------
(* Controls of the customer *)

\* classify_foreground_activity
Kind(s) == CASE s = "none" -> "unknown"
             [] s = "home" -> "launcher"
             [] s \in {"messages", "popup"} -> "other"
             [] s \in {"gallery", "esim"} -> "esim_nested"
             [] s = "sims" -> "esim_root"
             [] s \in {"browser", "game"} -> "blocked_app"
             [] OTHER -> "settings"

\* renter_should_kick_foreground, of the name of an activity
KickedByPolicy(s) == s \in {"gallery", "sound", "browser", "game", "popup"}

\* decide_setup_guard for the eSIM phase
SetupScreen(s) == s \in {"gallery", "sims", "esim"}

Starts(what) == control' = [Resting EXCEPT !.at = "look", !.for = what]

\* A tap, a swipe or a text (or the list of recent apps), which is carried out
\* whether or not its answer arrives; while a human is awaited nothing follows.
Tap ==
  /\ control.at = "idle" /\ Tapped
  /\ screen' \in Screens \ {"popup"}
  /\ \/ setup # "awaiting" /\ \E what \in {"tap", "after"} : Starts(what)
     \/ UNCHANGED control
  /\ UNCHANGED <<admin, setup, guard, file, hold>>

PressBack ==
  /\ control.at = "idle" /\ Tapped
  /\ \/ setup = "awaiting" /\ screen' \in Back(screen) /\ UNCHANGED control
     \/ setup # "awaiting" /\ Starts("back") /\ UNCHANGED screen
  /\ UNCHANGED <<admin, setup, guard, file, hold>>

\* _fast_nav_control waits for no lock; neither do the actions on the shade, which
\* go home as well.
PressHome ==
  /\ Tapped /\ screen' = "home"
  /\ UNCHANGED <<admin, setup, guard, file, hold, control>>

OpenSettings ==
  /\ control.at = "idle" /\ setup # "awaiting" /\ Tapped
  /\ Starts("settings")
  /\ UNCHANGED <<screen, admin, setup, guard, file, hold>>

\* _live_setup_ui_fields of a dashboard that polls
PollSetup ==
  /\ control.at = "idle" /\ setup = "open"
  /\ Starts("poll")
  /\ UNCHANGED <<screen, admin, setup, guard, file, hold, taps>>

\* _inspect_session: nothing is asked while a human is awaited, and a phone that
\* does not answer tells nothing.
Look ==
  /\ control.at = "look"
  /\ \/ /\ setup # "awaiting"
        /\ control' = [control EXCEPT !.at = "meddle", !.saw = screen, !.was = setup]
     \/ control' = [control EXCEPT !.at = "decide", !.saw = "none"]
  /\ UNCHANGED <<screen, admin, setup, guard, file, hold, taps>>

\* The setup screen is launched in place of what was read.
Relaunched ==
  /\ control.was = "open" /\ ~SetupScreen(control.saw)
  /\ control.for = "launch" \/ control.saw = "game"

\* What the rest of run_setup_session_inspect does to the phone
Meddle ==
  /\ control.at = "meddle"
  /\ screen' \in
       IF control.was = "confirmed" THEN {"home"}
       ELSE IF control.saw = "game" THEN {"home"} \cup (IF Relaunched THEN {"sims", "esim"} ELSE {})
       ELSE IF Relaunched THEN {"sims", "esim"}
       ELSE IF KickedByPolicy(control.saw) /\ ~admin THEN {"home", screen}
       ELSE {screen}
  /\ control' = [control EXCEPT !.at = "decide", !.was = "open"]
  /\ UNCHANGED <<admin, setup, guard, file, hold, taps>>

Leads(s, next) == screen' = s /\ control' = next

\* _enforce_foreground: what follows a tap
Enforce ==
  CASE Kind(control.saw) = "settings"    -> screen' = "home" /\ Starts("launch")
    [] Kind(control.saw) = "blocked_app" -> Leads("home", Resting)
    [] OTHER                             -> Leads(screen, Resting)

Decide ==
  /\ control.at = "decide"
  /\ CASE control.for = "tap" /\ Kind(control.saw) \in {"launcher", "unknown"} ->
            UNCHANGED screen /\ Starts("after")
       [] control.for \in {"tap", "after"} /\ Kind(control.saw) \notin {"launcher", "unknown"} ->
            Enforce
       [] control.for = "back" /\ Kind(control.saw) \in {"esim_root", "settings", "blocked_app"} ->
            Leads("home", Resting)
       [] control.for = "back" /\ Kind(control.saw) \notin {"esim_root", "settings", "blocked_app"} ->
            /\ screen' \in Back(screen)
            /\ \/ Starts("after")
               \/ control.saw = "none" /\ control' = Resting
       [] control.for = "settings" ->
            /\ screen' = IF Kind(control.saw) = "settings" THEN "home" ELSE screen
            /\ Starts("launch")
       [] OTHER -> Leads(screen, Resting)
  /\ setup' = IF control.for = "poll" /\ setup = "open" /\ SimOrEsim(control.saw)
              THEN "awaiting" ELSE setup
  /\ UNCHANGED <<admin, guard, file, hold, taps>>

-----------------------------------------------------------------------------
(* The rest of the world *)

\* The QR is placed and the SIM screen opened for the customer.
HandOff ==
  /\ setup = "open" /\ setup' = "awaiting"
  /\ screen' \in {"sims", "esim"}
  /\ UNCHANGED <<admin, guard, file, hold, control, taps>>

\* The eSIM is confirmed.
Confirm ==
  /\ setup = "awaiting" /\ setup' = "confirmed"
  /\ UNCHANGED <<screen, admin, guard, file, hold, control, taps>>

\* A call comes in, a popup appears.
AppOpens ==
  /\ Tapped /\ screen' \in {"messages", "game", "popup"}
  /\ UNCHANGED <<admin, setup, guard, file, hold, control>>

\* Administrators and tasks set the flag, a customer's access takes it away.
SetAdminMode ==
  /\ Tapped /\ admin' = ~admin
  /\ UNCHANGED <<screen, setup, guard, file, hold, control>>

ScreenNext ==
  \/ Guard \/ HoldEnds \/ GuardRestart
  \/ Tap \/ PressBack \/ PressHome \/ OpenSettings \/ PollSetup
  \/ Look \/ Meddle \/ Decide
  \/ HandOff \/ Confirm \/ AppOpens \/ SetAdminMode

\* The guard loops, a kick notice runs out, and a control that began ends.
ScreenFairness ==
  /\ WF_screenVars(Guard)
  /\ WF_screenVars(HoldEnds)
  /\ WF_screenVars(Look \/ Meddle \/ Decide)

-----------------------------------------------------------------------------

\* The shape of the state; a kick notice stands in the file for its six seconds.
ScreenTypeOK ==
  /\ screen \in Screens /\ admin \in BOOLEAN
  /\ setup \in {"open", "awaiting", "confirmed"}
  /\ guard \in [at : {"read", "act", "kick"}, focus : Screens]
  /\ file \in {"home", "messages", "gallery", "network", "main", "blocked"}
  /\ hold \in BOOLEAN /\ (hold => file = "blocked")
  /\ control \in [at : {"idle", "look", "meddle", "decide"},
                  for : {"none", "tap", "after", "back", "settings", "launch", "poll"},
                  saw : Screens \cup {"none"}, was : {"open", "confirmed"}]
  /\ taps \in 0..MaxTaps

\* Kicked, Sound, Security and other blocked screens
Forbidden(s) == Kicked(s) \/ s \in {"subsound", "popup"}

\* parse_screen_state_line: what the dashboard is told
Told == IF file = "blocked" /\ ~hold THEN "home" ELSE file

\* A customer in client mode does not stay on a screen that is not his, whatever
\* the guard had read and whatever the VPS does at the same time, and the dashboard
\* ends up telling the screen he is on, after a kick too.
ScreenComesRight ==
  <>[](/\ admin \/ ~Forbidden(screen)
       /\ ~admin /\ (Recorded(screen) \/ screen = "subnet") => Told = Key(screen))

=============================================================================
