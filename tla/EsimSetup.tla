------------------------------ MODULE EsimSetup ------------------------------
(***************************************************************************)
(* How one rental gets its eSIM confirmed: the customer's QR uploads and   *)
(* prepare-esim (application/remote_access_service.py), the placing of the *)
(* QR and the reading of the phone (application/remote_access_farm_task.py,*)
(* infrastructure/adb_four_layer.py), the observations of the dashboard    *)
(* and the columns of the rental's row they all write.                     *)
(*                                                                         *)
(* The phone may still carry the eSIM of an earlier rental.  It is told    *)
(* from the rental's own by the baseline the first upload records.  Each   *)
(* method of the store is one step; an upload and an observation write     *)
(* back whole rows that they read before.                                  *)
(***************************************************************************)
EXTENDS Naturals

CONSTANTS Uploads,      \* the threads that serve uploads
          MaxUnread     \* bound: readings of the phone that fail

ASSUME EsimAssumption == MaxUnread \in Nat

VARIABLES profile,      \* the eSIM of the phone: none, one from before, the rental's
          registered,   \* the phone is on the cellular network
          qr,           \* a QR of the rental was placed
          esimRow,      \* the columns of the rental's row
          upload,       \* upload[t]: what thread t is at, its reading, its copy of the row
          flow,         \* the thread of prepare-esim
          observer,     \* the observation: its copy of the row, what it read
          unread,       \* readings of the phone that failed
          own,          \* ghost: the rental's own eSIM came, "late" without a baseline
          unsure,       \* ghost: a confirmation had no baseline or no reading
          lost          \* ghost: a write of an older row undid an upload's columns

phoneState == <<profile, registered, qr>>
ghosts     == <<own, unsure, lost>>
esimVars   == <<phoneState, esimRow, upload, flow, observer, unread, ghosts>>

\* The token of the phone's subscriptions: of none, of an eSIM, or the one a
\* failed dumpsys gives, which is like no eSIM but no token of a phone.
Profiles == {"none", "before", "own"}
Tokens   == Profiles \cup {"unread"}
Present(token) == token \in {"before", "own"}

EsimRow == [uploaded : BOOLEAN, ready : BOOLEAN,
            base : Tokens \cup {"unknown"}, observed : {"nothing", "missing", "confirmed"}]

NewRow == [uploaded |-> FALSE, ready |-> FALSE, base |-> "unknown", observed |-> "nothing"]
NoUpload == [at |-> "idle", read |-> "none", copy |-> NewRow]
NotAsked == [at |-> "idle", copy |-> NewRow, present |-> FALSE, token |-> "none"]

EsimInit ==
  /\ profile \in {"none", "before"} /\ registered \in BOOLEAN /\ qr = FALSE
  /\ esimRow = NewRow
  /\ upload = [t \in Uploads |-> NoUpload]
  /\ flow = "none"
  /\ observer = NotAsked
  /\ unread = 0
  /\ own = "no" /\ unsure = FALSE /\ lost = FALSE

\* A dumpsys of the phone's subscriptions; it may fail.
Dumpsys(token, failures) ==
  \/ token = profile /\ failures = 0
  \/ token = "unread" /\ failures = 1 /\ unread < MaxUnread

-----------------------------------------------------------------------------
(* upload_esim_qr *)

Place(t) ==
  /\ upload[t].at = "idle"
  /\ \E token \in Tokens, f \in 0..1 :
       /\ Dumpsys(token, f)
       /\ upload' = [upload EXCEPT ![t].at = "placed", ![t].read = token]
       /\ unread' = unread + f
  /\ qr' = TRUE
  /\ UNCHANGED <<profile, registered, esimRow, flow, observer, ghosts>>

\* Fault for EsimTypeOK: a rental that is prepared has no use for the mark
MarkUnlessReady(t) ==
  /\ upload[t].at = "placed"
  /\ esimRow' = [esimRow EXCEPT !.uploaded = ~esimRow.ready]
  /\ upload' = [upload EXCEPT ![t].at = "marked"]
  /\ UNCHANGED <<phoneState, flow, observer, unread, ghosts>>

MarkQrUploaded(t) ==
  /\ upload[t].at = "placed"
  /\ esimRow' = [esimRow EXCEPT !.uploaded = TRUE]
  /\ upload' = [upload EXCEPT ![t].at = "marked"]
  /\ UNCHANGED <<phoneState, flow, observer, unread, ghosts>>

\* Fault for ConfirmedInTheEnd: the newest upload sets the baseline
MergeNewest(base, token) == token

\* What was recorded first stays.
Merge(base, token) == IF base = "unknown" THEN token ELSE base

BaselineRead(t) ==
  /\ upload[t].at = "marked"
  /\ upload' = [upload EXCEPT ![t].at = "merging", ![t].copy = esimRow]
  /\ UNCHANGED <<phoneState, esimRow, flow, observer, unread, ghosts>>

\* An upload's columns were written since the copy was read.
Overtaken(copy) == copy.base # esimRow.base \/ copy.uploaded # esimRow.uploaded

RecordEsimBaseline(t) ==
  /\ upload[t].at = "merging"
  /\ esimRow' = [upload[t].copy EXCEPT !.base = Merge(@, upload[t].read)]
  /\ upload' = [upload EXCEPT ![t] = NoUpload]
  /\ lost' = (lost \/ Overtaken(upload[t].copy))
  /\ UNCHANGED <<phoneState, flow, observer, unread, own, unsure>>

-----------------------------------------------------------------------------
(* prepare_esim: its placement reads the phone as well, and nobody looks *)

PrepareStart ==
  /\ flow = "none" /\ ~esimRow.ready /\ ~esimRow.uploaded
  /\ flow' = "placing"
  /\ UNCHANGED <<phoneState, esimRow, upload, observer, unread, ghosts>>

PrepareEnd ==
  /\ flow = "placing"
  /\ flow' = "none"
  /\ \/ qr' = TRUE /\ esimRow' = [esimRow EXCEPT !.ready = TRUE]
     \/ UNCHANGED <<qr, esimRow>>
  /\ UNCHANGED <<profile, registered, upload, observer, unread, ghosts>>

-----------------------------------------------------------------------------
(* The customer at the phone, and the network *)

Install ==
  /\ qr /\ profile # "own"
  /\ profile' = "own"
  /\ own' = IF esimRow.base = "unknown" THEN "late" ELSE "yes"
  /\ UNCHANGED <<registered, qr, esimRow, upload, flow, observer, unread, unsure, lost>>

Register ==
  /\ ~registered
  /\ registered' = TRUE
  /\ UNCHANGED <<profile, qr, esimRow, upload, flow, observer, unread, ghosts>>

-----------------------------------------------------------------------------
(* _observe_activation: one at a time, by the lock of the rental *)

ObserveRead ==
  /\ observer.at = "idle"
  /\ observer' = [observer EXCEPT !.at = "asked", !.copy = esimRow]
  /\ UNCHANGED <<phoneState, esimRow, upload, flow, unread, ghosts>>

\* run_remote_access_activation_status reads the subscriptions twice: for the
\* verdict and for the token.
ObserveFarm ==
  /\ observer.at = "asked"
  /\ \/ \E a, b \in Tokens, f, g \in 0..1 :
          /\ Dumpsys(a, f) /\ Dumpsys(b, g) /\ unread + f + g =< MaxUnread
          /\ observer' = [observer EXCEPT !.at = "answered", !.present = Present(a),
                                          !.token = b]
          /\ unread' = unread + f + g
     \/ /\ unread < MaxUnread          \* the farm does not answer
        /\ observer' = NotAsked
        /\ unread' = unread + 1
  /\ UNCHANGED <<phoneState, esimRow, upload, flow, ghosts>>

\* Fault for LeftoverIsNotNew: an eSIM that is there is new
IsNewPresent(present, base, token) == present

\* esim_profile_is_new
IsNew(present, base, token) ==
  present /\ base # "unknown" /\ (base # token \/ ~Present(base))

\* evaluate_activation, and what it makes of an eSIM the baseline has
Verdict ==
  LET preexisting == /\ Present(observer.copy.base)
                     /\ ~IsNew(observer.present, observer.copy.base, observer.token)
  IN  IF ~observer.present \/ ~registered THEN "missing"
      ELSE IF preexisting THEN "nothing" ELSE "confirmed"

\* this_rental_activation_eligible, of the copy
Eligible == observer.copy.uploaded \/ observer.copy.ready

ObserveStore ==
  /\ observer.at = "answered"
  /\ observer' = NotAsked
  /\ esimRow' =
       IF Verdict = "nothing" THEN observer.copy
       ELSE IF ~Eligible THEN esimRow
       ELSE [esimRow EXCEPT !.observed = Verdict, !.base = observer.copy.base]
  /\ unsure' = (unsure \/ (Verdict = "confirmed" /\ (observer.copy.base = "unknown" \/ unread > 0)))
  /\ lost' = (lost \/ (esimRow' # esimRow /\ Overtaken(observer.copy)))
  /\ UNCHANGED <<phoneState, upload, flow, unread, own>>

EsimNext ==
  \/ \E t \in Uploads : Place(t) \/ MarkQrUploaded(t) \/ BaselineRead(t)
                        \/ RecordEsimBaseline(t)
  \/ PrepareStart \/ PrepareEnd
  \/ Install \/ Register
  \/ ObserveRead \/ ObserveFarm \/ ObserveStore

\* An upload that was begun ends, and the dashboard keeps asking.
EsimFairness ==
  /\ \A t \in Uploads : WF_esimVars(MarkQrUploaded(t) \/ BaselineRead(t) \/ RecordEsimBaseline(t))
  /\ WF_esimVars(ObserveRead \/ ObserveFarm \/ ObserveStore)

EsimSpec == EsimInit /\ [][EsimNext]_esimVars /\ EsimFairness

-----------------------------------------------------------------------------

\* The shape of the state; a baseline is one of a rental that uploaded a QR.
EsimTypeOK ==
  /\ profile \in Profiles /\ registered \in BOOLEAN /\ qr \in BOOLEAN
  /\ esimRow \in EsimRow
  /\ esimRow.base # "unknown" => esimRow.uploaded
  /\ upload \in [Uploads -> [at : {"idle", "placed", "marked", "merging"},
                              read : Tokens, copy : EsimRow]]
  /\ flow \in {"none", "placing"}
  /\ observer \in [at : {"idle", "asked", "answered"}, copy : EsimRow,
                   present : BOOLEAN, token : Tokens]
  /\ unread \in 0..MaxUnread
  /\ own = "no" <=> profile # "own"

\* "Leftover physical eSIM on the phone is not this rental's activation"
\* (domain/remote_access.py): a rental that recorded its baseline is not shown
\* as active on an earlier rental's eSIM, however uploads, observations and
\* installations interleave, while every dumpsys is answered.
LeftoverIsNotNew == esimRow.observed = "confirmed" => own # "no" \/ unsure

\* A customer who installs his eSIM after the baseline was recorded and is on
\* the network gets it confirmed, whatever he uploads afterwards, unless an
\* older row was written over an upload.
ConfirmedInTheEnd ==
  own = "yes" /\ registered ~> esimRow.observed = "confirmed" \/ lost

=============================================================================
