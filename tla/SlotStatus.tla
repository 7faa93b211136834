----------------------------- MODULE SlotStatus -----------------------------
(***************************************************************************)
(* The status of one bay: the heartbeat row and the events the poller      *)
(* writes (application/farm_heartbeat_poller.py, infrastructure/           *)
(* slot_status_store.py), its derivation from heartbeat, occupancy and     *)
(* jobs (application/vps_slot_state.py, get_slot_status), and the          *)
(* inventory snapshot that callers are shown                               *)
(* (infrastructure/farm_status_snapshot.py).                               *)
(*                                                                         *)
(* The poller and the snapshot each ask the farm on a thread of their own. *)
(* A refresh reads one store after the other while the bay changes, and a  *)
(* refresh that finds the farm silent leaves the snapshot as it is.        *)
(***************************************************************************)
EXTENDS Naturals

CONSTANT MaxEvents      \* bound: rentals, jobs, outages and stalls

VARIABLES farmUp, reachable,    \* the farm answers; adb reaches the phone
          occupied, job, phase, \* reservation or assignment, active job, last assign
          heartbeat,            \* the row of slot_heartbeats
          polled,               \* the event the poller has still to append
          lastEvent,            \* the newest device event of slot_events
          reading,              \* the refresh: its step and what it has read
          snapshot,             \* the status callers are shown
          happened,
          lostEvent             \* history: a restart swallowed the last transition's event

bayState == <<occupied, job, phase>>
outside  == <<farmUp, reachable>>
poll     == <<heartbeat, polled, lastEvent>>
slotVars == <<outside, bayState, poll, reading, snapshot, happened, lostEvent>>

States == {"available", "assigned", "provisioning", "requires_manual_action", "online",
           "busy", "offline", "failed", "unknown"}
Phases == {"none", "completed", "requires_manual_action", "failed"}

NoHeartbeat == [known |-> FALSE, online |-> FALSE, ok |-> FALSE, fresh |-> FALSE]
NoReading   == [at |-> "idle", beat |-> NoHeartbeat, taken |-> FALSE, active |-> "none"]

SlotInit ==
  /\ farmUp \in BOOLEAN /\ reachable \in BOOLEAN
  /\ occupied = FALSE /\ job = "none" /\ phase = "none"
  /\ heartbeat = NoHeartbeat /\ polled = "none" /\ lastEvent = "none"
  /\ reading = NoReading /\ snapshot = "none"
  /\ happened = 0 /\ lostEvent = FALSE

-----------------------------------------------------------------------------
(* FarmHeartbeatPoller *)

\* Fault for EventsAlternate: a farm that does not answer counts as a phone that
\* is away
RecordFarmErrorOffline == [known |-> TRUE, online |-> FALSE, ok |-> FALSE, fresh |-> TRUE]

\* Fault for SlotTypeOK: the error of a bay that has no row makes none
RecordFarmErrorUnknown ==
  [known |-> heartbeat.known, online |-> heartbeat.online, ok |-> FALSE, fresh |-> TRUE]

\* What is recorded of a farm that does not answer: the phone's last state stays.
RecordFarmError == [known |-> TRUE, online |-> heartbeat.online, ok |-> FALSE, fresh |-> TRUE]

\* Fault for SettledIsShown: an error stays on record until a phone changes
RecordKeepsError == [known |-> TRUE, online |-> reachable, fresh |-> TRUE,
                     ok |-> heartbeat.ok \/ heartbeat.online # reachable]

Record == [known |-> TRUE, online |-> reachable, ok |-> TRUE, fresh |-> TRUE]

Transition ==
  IF ~heartbeat.known \/ heartbeat.online = reachable THEN "none"
  ELSE IF reachable THEN "device_online" ELSE "device_offline"

PollOnce ==
  /\ polled = "none"
  /\ \/ farmUp  /\ heartbeat' = Record /\ polled' = Transition
     \/ ~farmUp /\ heartbeat' = RecordFarmError /\ UNCHANGED polled
  /\ lostEvent' = (lostEvent /\ polled' = "none")
  /\ UNCHANGED <<outside, bayState, lastEvent, reading, snapshot, happened>>

AppendEvent ==
  /\ polled # "none"
  /\ lastEvent' = polled /\ polled' = "none"
  /\ UNCHANGED <<outside, bayState, heartbeat, reading, snapshot, happened, lostEvent>>

-----------------------------------------------------------------------------
(* get_slot_status and the refresh of the inventory *)

\* heartbeat_is_fresh; a heartbeat that is not tells nothing of adb.
FreshBeat(beat) == beat.known /\ beat.ok /\ beat.fresh

\* derive_slot_state
Derived(beat, taken, active, last) ==
  CASE active = "assign"              -> "provisioning"
    [] active = "action"              -> "busy"
    [] active = "none" /\ ~FreshBeat(beat) -> "unknown"
    [] OTHER ->
         IF ~beat.online THEN "offline"
         ELSE IF taken
              THEN CASE last = "completed" -> "online"
                     [] last = "requires_manual_action" -> last
                     [] OTHER -> "assigned"
              ELSE IF last = "failed" THEN "failed" ELSE "available"

\* _load_farm, then the reads of one bay
RefreshStart ==
  /\ reading.at = "idle"
  /\ \/ farmUp /\ reading' = [reading EXCEPT !.at = "occupancy", !.beat = heartbeat]
     \/ ~farmUp /\ UNCHANGED reading
  /\ snapshot' = IF ~farmUp /\ snapshot = "none" THEN "error" ELSE snapshot
  /\ UNCHANGED <<outside, bayState, poll, happened, lostEvent>>

ReadOccupancy ==
  /\ reading.at = "occupancy"
  /\ reading' = [reading EXCEPT !.at = "jobs", !.taken = occupied]
  /\ UNCHANGED <<outside, bayState, poll, snapshot, happened, lostEvent>>

ReadActiveJob ==
  /\ reading.at = "jobs"
  /\ reading' = [reading EXCEPT !.at = "assign", !.active = job]
  /\ UNCHANGED <<outside, bayState, poll, snapshot, happened, lostEvent>>

RefreshEnd ==
  /\ reading.at = "assign"
  /\ snapshot' = Derived(reading.beat, reading.taken, reading.active, phase)
  /\ reading' = NoReading
  /\ UNCHANGED <<outside, bayState, poll, happened, lostEvent>>

-----------------------------------------------------------------------------
(* What happens to the bay, the phone and the farm *)

Happens == happened < MaxEvents /\ happened' = happened + 1

Occupy ==
  /\ Happens /\ ~occupied
  /\ occupied' = TRUE
  /\ UNCHANGED <<outside, job, phase, poll, reading, snapshot, lostEvent>>

Vacate ==
  /\ Happens /\ occupied
  /\ occupied' = FALSE
  /\ UNCHANGED <<outside, job, phase, poll, reading, snapshot, lostEvent>>

StartJob ==
  /\ Happens /\ job = "none"
  /\ \/ job' = "assign" /\ occupied
     \/ job' = "action"
  /\ UNCHANGED <<outside, occupied, phase, poll, reading, snapshot, lostEvent>>

EndJob ==
  /\ job # "none"
  /\ job' = "none"
  /\ IF job = "assign" THEN phase' \in Phases \ {"none"} ELSE UNCHANGED phase
  /\ UNCHANGED <<outside, occupied, poll, reading, snapshot, happened, lostEvent>>

Outage ==
  /\ Happens
  /\ \/ farmUp' = ~farmUp /\ UNCHANGED reachable
     \/ reachable' = ~reachable /\ UNCHANGED farmUp
  /\ UNCHANGED <<bayState, poll, reading, snapshot, lostEvent>>

\* The sweeps after a poll take more than three intervals.
Stall ==
  /\ Happens /\ heartbeat.fresh
  /\ heartbeat' = [heartbeat EXCEPT !.fresh = FALSE]
  /\ UNCHANGED <<outside, bayState, polled, lastEvent, reading, snapshot, lostEvent>>

\* The VPS restarts: rows and events stay, the snapshot and the threads do not.
VpsRestart ==
  /\ Happens
  /\ lostEvent' = (lostEvent \/ polled # "none")
  /\ polled' = "none" /\ reading' = NoReading /\ snapshot' = "none"
  /\ UNCHANGED <<outside, bayState, heartbeat, lastEvent>>

Poller  == PollOnce \/ AppendEvent
Refresh == RefreshStart \/ ReadOccupancy \/ ReadActiveJob \/ RefreshEnd

SlotNext ==
  \/ Poller \/ Refresh
  \/ Occupy \/ Vacate \/ StartJob \/ EndJob
  \/ Outage \/ Stall \/ VpsRestart

\* Both threads run; nothing is promised of farm, phone and customers.
SlotFairness == WF_slotVars(Poller) /\ WF_slotVars(Refresh)

SlotSpec == SlotInit /\ [][SlotNext]_slotVars /\ SlotFairness

-----------------------------------------------------------------------------

\* The shape of the state; the bay has a row from its first poll on, and events only then.
SlotTypeOK ==
  /\ phase \in Phases /\ job \in {"none", "assign", "action"}
  /\ heartbeat \in [known : BOOLEAN, online : BOOLEAN, ok : BOOLEAN, fresh : BOOLEAN]
  /\ ~heartbeat.known => heartbeat = NoHeartbeat /\ lastEvent = "none"
  /\ polled \in {"none", "device_online", "device_offline"}
  /\ lastEvent \in {"none", "device_online", "device_offline"}
  /\ reading.at \in {"idle", "occupancy", "jobs", "assign"}
  /\ snapshot \in States \cup {"none", "error"}

\* The events of a phone alternate: the newest, or the one about to be appended,
\* says what the heartbeat row says, through outages of the farm and restarts
\* of the VPS; an event that a restart swallows is missing until the phone
\* changes again.
EventsAlternate ==
  LET newest == IF polled # "none" THEN polled ELSE lastEvent
  IN  newest # "none" /\ ~lostEvent
        => (newest = "device_online" <=> heartbeat.online)

\* When farm and bay settle with the farm in reach, callers are shown what the
\* bay is, whatever outages, stalls, restarts and half-read rows came before.
SettledIsShown ==
  \A s \in States :
    <>[](farmUp /\ s = Derived([NoHeartbeat EXCEPT !.known = TRUE, !.online = reachable,
                                                   !.ok = TRUE, !.fresh = TRUE],
                               occupied, job, phase))
      => <>[](snapshot = s)

=============================================================================
