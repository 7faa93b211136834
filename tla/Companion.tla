----------------------------- MODULE Companion -----------------------------
(***************************************************************************)
(* The companion app of a phone and the farm that asks it to download eSIM *)
(* profiles (android_companion: JsonLineServer, CommandRouter,             *)
(* EsimController, LocalStore; infrastructure/adb_companion.py).           *)
(*                                                                         *)
(* The farm has one connection at a time and gives it up after 180 s.  The *)
(* app serves connections one after the other; a download waits up to      *)
(* 180 s for a broadcast of the eUICC, and the verdict is kept under the   *)
(* job's id.  The receiver of a broadcast looks at its action only, so the *)
(* late broadcast of an earlier download ends the wait of a later one.     *)
(***************************************************************************)
EXTENDS Naturals, Sequences

CONSTANTS Jobs, None,
          MaxCalls,     \* bound: connections the farm opens
          MaxDeaths     \* bound: times the app's process is killed

VARIABLES calling,      \* the job the farm waits for, or None
          told,         \* told[j]: the last answer the farm heard for j
          queue,        \* the connections at the app's socket, the served first
          up,           \* the server's thread runs
          stage,        \* what the server does with the first connection
          shown,        \* EsimController.state
          owner,        \* the app is Device Owner and may install silently
          kept, disk,   \* the results of the jobs, in memory and on disk
          euicc,        \* downloads the eUICC works on
          profiles,     \* history: jobs whose own download succeeded
          handed,       \* history: how often a job went to the eUICC
          outlived,     \* history: a download went on after its wait was over
          calls, deaths

farm    == <<calling, told, calls>>
server  == <<queue, up, stage>>
phone   == <<euicc, profiles, handed, outlived>>
compVars == <<farm, server, shown, owner, kept, disk, phone, deaths>>

Results == {"none", "installed", "resolvable", "failed", "refused"}
Shown   == {"ready", "provisioning", "installed", "failed", "requires_user_action"}

CompInit ==
  /\ calling = None /\ told = [j \in Jobs |-> "none"] /\ calls = 0
  /\ queue = <<>> /\ up = TRUE /\ stage = "idle"
  /\ shown = "ready" /\ owner \in BOOLEAN
  /\ kept = [j \in Jobs |-> "none"] /\ disk = kept
  /\ euicc = {} /\ profiles = {} /\ handed = [j \in Jobs |-> 0]
  /\ outlived = FALSE /\ deaths = 0

-----------------------------------------------------------------------------
(* AdbForwardedJsonClient *)

Request(j) ==
  /\ calling = None /\ calls < MaxCalls
  /\ calling' = j /\ calls' = calls + 1
  /\ queue' = Append(queue, [job |-> j, open |-> TRUE])
  /\ UNCHANGED <<told, up, stage, shown, owner, kept, disk, phone, deaths>>

\* The request that was sent stays in the socket: the app still reads it.
GiveUp ==
  /\ calling # None
  /\ calling' = None
  /\ queue' = [i \in DOMAIN queue |-> [queue[i] EXCEPT !.open = FALSE]]
  /\ UNCHANGED <<told, calls, up, stage, shown, owner, kept, disk, phone, deaths>>

-----------------------------------------------------------------------------
(* CommandRouter.provision, EsimController *)

Served == Head(queue).job

\* Fault for OncePerJob: only successes are kept
KeepSuccess(j, result) ==
  kept' = [kept EXCEPT ![j] = IF result = "installed" THEN result ELSE @]

Keep(j, result) == kept' = [kept EXCEPT ![j] = result]

\* Fault for CompTypeOK: a failure leaves the state as it was
ShownAfterSuccess(result) == IF result = "installed" THEN "installed" ELSE shown

\* The state the result of an operation leaves on show.
ShownAfter(result) ==
  CASE result = "installed"  -> "installed"
    [] result = "resolvable" -> "requires_user_action"
    [] OTHER                 -> "failed"

Open == up /\ stage = "idle" /\ queue # <<>>

ProvisionKnown ==
  /\ Open /\ kept[Served] # "none"
  /\ stage' = "reply"
  /\ UNCHANGED <<farm, queue, up, shown, owner, kept, disk, phone, deaths>>

\* Without authority the job is refused, and the refusal is kept like a result.
ProvisionRefused ==
  /\ Open /\ kept[Served] = "none" /\ ~owner
  /\ Keep(Served, "refused")
  /\ stage' = "reply"
  /\ UNCHANGED <<farm, queue, up, shown, owner, disk, phone, deaths>>

Provision ==
  /\ Open /\ kept[Served] = "none" /\ owner
  /\ shown' = "provisioning" /\ stage' = "waiting"
  /\ euicc' = euicc \cup {[job |-> Served, life |-> deaths]}
  /\ handed' = [handed EXCEPT ![Served] = @ + 1]
  /\ UNCHANGED <<farm, queue, up, owner, kept, disk, profiles, outlived, deaths>>

\* Fault for VerdictIsOwn: a broadcast without the result's extra counts as
\* RESULT_OK
EuiccVerdictOfAny == [ok |-> "installed", resolvable |-> "resolvable",
                 error |-> "failed", missing |-> "installed"]

\* EuiccCallbackResult.parse and mapCallback
EuiccVerdict == [ok |-> "installed", resolvable |-> "resolvable",
            error |-> "failed", missing |-> "failed"]

EuiccDone(d) ==
  /\ d \in euicc
  /\ euicc' = euicc \ {d}
  /\ \E outcome \in DOMAIN EuiccVerdict :
       /\ profiles' = IF outcome = "ok" THEN profiles \cup {d.job} ELSE profiles
       /\ IF stage = "waiting"
          THEN /\ Keep(Served, EuiccVerdict[outcome])
               /\ shown' = ShownAfter(EuiccVerdict[outcome])
               /\ stage' = "reply"
          ELSE UNCHANGED <<kept, shown, stage>>
  /\ UNCHANGED <<farm, queue, up, owner, disk, handed, outlived, deaths>>

\* Fault for WaitEnds: await without a timeout
WaitForever == stage = "never" /\ UNCHANGED compVars

TimeOut ==
  /\ stage = "waiting"
  /\ Keep(Served, "failed")
  /\ shown' = ShownAfter("failed") /\ stage' = "reply"
  /\ outlived' = TRUE
  /\ UNCHANGED <<farm, queue, up, owner, disk, euicc, profiles, handed, deaths>>

-----------------------------------------------------------------------------
(* JsonLineServer.handleClient *)

\* Fault for AnswerStands: the answer is the state on show, not the job's result
AnswerShown(j) == IF shown = "installed" THEN "installed" ELSE "failed"

Answer(j) == kept[j]

\* The answer to a caller that is gone raises outside the try of the handler,
\* and the thread ends; adb may also swallow the answer.
Reply ==
  /\ stage = "reply"
  /\ stage' = "idle" /\ queue' = Tail(queue)
  /\ IF Head(queue).open
     THEN /\ calling' = None
          /\ told' = [told EXCEPT ![Served] = Answer(Served)]
          /\ UNCHANGED up
     ELSE up' \in BOOLEAN /\ UNCHANGED <<calling, told>>
  /\ UNCHANGED <<calls, shown, owner, kept, disk, phone, deaths>>

\* EsimController.status, asked for on another socket
Status ==
  /\ ~owner /\ shown = "ready"
  /\ shown' = "requires_user_action"
  /\ UNCHANGED <<farm, server, owner, kept, disk, phone, deaths>>

BecomeOwner ==
  /\ ~owner /\ owner' = TRUE
  /\ UNCHANGED <<farm, server, shown, kept, disk, phone, deaths>>

\* SharedPreferences.apply writes the file later.
Flush ==
  /\ disk # kept /\ disk' = kept
  /\ UNCHANGED <<farm, server, shown, owner, kept, phone, deaths>>

\* Android kills the process and starts the service again (START_STICKY).
Die ==
  /\ deaths < MaxDeaths /\ deaths' = deaths + 1
  /\ calling' = None
  /\ queue' = <<>> /\ up' = TRUE /\ stage' = "idle" /\ shown' = "ready"
  /\ kept' = disk
  /\ outlived' = (outlived \/ stage = "waiting")
  /\ UNCHANGED <<told, calls, owner, disk, euicc, profiles, handed>>

Router == ProvisionKnown \/ ProvisionRefused \/ Provision \/ TimeOut \/ Reply

CompNext ==
  \/ \E j \in Jobs : Request(j)
  \/ GiveUp \/ Router
  \/ \E d \in euicc : EuiccDone(d)
  \/ Status \/ BecomeOwner \/ Flush \/ Die

\* The server's thread runs and its timer fires; the eUICC promises nothing.
CompFairness == WF_compVars(Router)

CompSpec == CompInit /\ [][CompNext]_compVars /\ CompFairness

-----------------------------------------------------------------------------

\* The shape of the state; the state on show says "provisioning" exactly while
\* a download is waited for, and it never stays behind.
CompTypeOK ==
  /\ calling \in Jobs \cup {None}
  /\ told \in [Jobs -> Results] /\ kept \in [Jobs -> Results]
  /\ stage \in {"idle", "waiting", "reply"} /\ shown \in Shown
  /\ stage # "idle" => queue # <<>>
  /\ shown = "provisioning" <=> stage = "waiting"

\* A job's download is handed to the eUICC at most once in the life of the app's
\* process, however often the farm gives up and asks again.
OncePerJob == \A j \in Jobs : handed[j] <= 1 + deaths

\* "installed" is said of a job only after its own download succeeded, as long
\* as no download outlived the wait for it: from then on the verdict of one job
\* may be that of another.
VerdictIsOwn ==
  \A j \in Jobs : kept[j] = "installed" => j \in profiles \/ outlived

\* What the farm was told of a job is what the app answers ever after, unless
\* its process was killed before the file was written.
AnswerStands ==
  \A j \in Jobs : told[j] # "none" /\ kept[j] # told[j] => deaths > 0

\* No download keeps the server for ever, even if the eUICC never reports.
WaitEnds == stage = "waiting" ~> stage = "idle"

=============================================================================
