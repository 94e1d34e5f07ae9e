---------------------------- MODULE WfbDroneConfig ----------------------------
(***************************************************************************)
(* The ground station's web server changes the configuration of a drone    *)
(* that runs the original wfb-ng, by shell commands over SSH               *)
(* (src/pkg/server/web/drone_ssh.go), as the configuration panel of the    *)
(* web page asks (ConfigPanel.js): it fetches all settings, and saves all. *)
(* The SSH connection goes through the tunnel, and so over the radio that  *)
(* the commands restart.                                                   *)
(*                                                                         *)
(* Each request is a handler of its own; nothing orders two of them.  On   *)
(* the drone a command line is a job, run one shell command at a time.     *)
(* The settings of one file or section are one value; the radio's say with *)
(* what power it transmits.  What the drone's programs do is taken from    *)
(* how SetConfig uses them.                                                *)
(***************************************************************************)
EXTENDS Naturals, Sequences, FiniteSets

CONSTANTS
  Handlers,     \* requests at a time
  Channels,
  Settings,     \* values of a section, one of them is the first
  FirstSetting, FirstChannel,
  TXPower,      \* wireless.txpower in the settings of the radio
  AdaptedPowers,\* of the profiles alink_drone chooses
  HasProfiles,  \* the drone has a /etc/txprofiles.conf
  Edits,        \* fields the user of the web page changes
  Partial,      \* sets of fields changed by other clients
  Budgets       \* bounds: what may happen how often

Spendings == {"saves", "reboots", "failures", "retunes", "pits", "ground"}

ASSUME DroneAssumption ==
  /\ FirstSetting \in Settings /\ FirstChannel \in Channels
  /\ "stopped" \notin Settings
  /\ TXPower \in [Settings -> Nat] /\ AdaptedPowers \subseteq Nat
  /\ HasProfiles \in BOOLEAN
  /\ Partial \subseteq SUBSET {"channel", "radio", "camera", "alink"}
  /\ Edits \subseteq {"channel", "radio", "camera", "alink", "enabled"}
  /\ Budgets \subseteq [Spendings -> Nat]

VARIABLES
  file,      \* wfb.yaml (channel, radio), majestic.yaml (camera), alink.conf, txprofiles.conf
  radio,     \* wfb-ng as it runs: [up, channel, params, power], and as a history its
             \* own power, the one wfb-ng or alink_drone set last
  camera,    \* the settings majestic runs with
  alink,     \* alink_drone: stopped, or the settings it was started with
  jobs,      \* what runs on the drone: <<handler, kind>> -> shell commands
  gsChannel,
  handler,   \* [copy, todo, sent]: settings fetched or saved last, commands still to run
  wanted,    \* history: what the saves since all was quiet asked of alink_drone
  broken,    \* history: a connection broke in the middle of a save, and nothing mended it
  left       \* what is left of the budget

droneVars == <<file, radio, camera, alink, jobs, gsChannel, handler, wanted, broken, left>>

(* A txprofiles.conf: its profiles, their column roiQP, and the lines after *)
(* them that are read as profiles too.                                     *)
Profiles(value, roi, strays) == [value |-> value, roi |-> roi, strays |-> strays]
NoProfiles == Profiles("none", "none", 0)
Stopped == [alink |-> "stopped", profiles |-> NoProfiles]

(* What alink_drone reads when it starts.                                   *)
AlinkFiles(f) == [alink |-> f.alink, profiles |-> f.profiles]
StartedWfb(f) == [up |-> TRUE, channel |-> f.channel, params |-> f.radio,
                  power |-> TXPower[f.radio], own |-> TXPower[f.radio]]

DroneInit ==
  /\ file = [channel |-> FirstChannel, radio |-> FirstSetting, camera |-> FirstSetting,
             alink |-> FirstSetting,
             profiles |-> IF HasProfiles THEN Profiles(FirstSetting, "tuned", 0) ELSE NoProfiles]
  /\ radio = StartedWfb(file) /\ camera = file.camera /\ alink = AlinkFiles(file)
  /\ jobs = <<>>
  /\ gsChannel = FirstChannel
  /\ handler = [h \in Handlers |-> [copy |-> <<>>, todo |-> <<>>, sent |-> FALSE]]
  /\ wanted = {TRUE} /\ broken = FALSE
  /\ left \in Budgets

Spends(what) == left[what] > 0 /\ left' = [left EXCEPT ![what] = @ - 1]

(* The tunnel is up.                                                        *)
Reachable == radio.up /\ radio.channel = gsChannel

(* It is down for longer than a restart of wfb-ng takes.                   *)
CutOff == radio.up /\ radio.channel # gsChannel

JobsOf(h) == {id \in DOMAIN jobs : id[1] = h}
Free(h) == handler[h].todo = <<>> /\ JobsOf(h) = {}
Quiet == jobs = <<>> /\ \A h \in Handlers : handler[h].todo = <<>>

-----------------------------------------------------------------------------
(***************************************************************************)
(* The command lines of SetConfig, in the order it runs them               *)
(***************************************************************************)
Write(field, value) == [op |-> "write", field |-> field, value |-> value]
Do(op) == [op |-> op, field |-> "none", value |-> FirstSetting]
Line(kind, steps) == IF steps = <<>> THEN <<>> ELSE <<[kind |-> kind, steps |-> steps]>>
When(condition, line) == IF condition THEN line ELSE <<>>

Has(changes, field) == field \in DOMAIN changes
Written(changes, field) ==
  IF Has(changes, field) THEN <<Write(field, changes[field])>> ELSE <<>>

(* The lines are joined by && and a here-document must end in a line of    *)
(* its own: with a command joined to it, it ends with the input, and what  *)
(* follows is text in the file.  The one that starts alink_drone has       *)
(* enough words to be read as a profile later.  roiQP is not kept.         *)
HereDocument(changes) ==
  LET joined == Has(changes, "enabled") /\ changes.enabled
  IN Write("profiles", Profiles(changes.profiles.value, "0,0,0,0",
                                changes.profiles.strays + IF joined THEN 1 ELSE 0))

Switch(changes) ==
  IF ~Has(changes, "enabled") \/ Has(changes, "profiles") THEN <<>>
  ELSE <<Do(IF changes.enabled THEN "startUnlessRunning" ELSE "kill")>>

(* What is changed of the adaptive link, its switch last.                   *)
AlinkLine(changes) ==
  Written(changes, "alink")
  \o When(Has(changes, "profiles"), <<HereDocument(changes)>>)
  \o Switch(changes)

(* a && b || c &  is a job in the background as a whole.                   *)
AlinkKind(changes) ==
  IF Switch(changes) = <<Do("startUnlessRunning")>> THEN "alink" ELSE "line"

RestartsWfb(changes) ==
  \/ Has(changes, "channel") \/ Has(changes, "radio")
  \/ Has(changes, "enabled") /\ ~changes.enabled

(* Mutant: alink_drone is restarted whatever its switch.                    *)
RestartsAlinkAlways(changes) == Has(changes, "alink") \/ Has(changes, "profiles")

RestartsAlink(changes) ==
  (Has(changes, "alink") \/ Has(changes, "profiles")) /\ ~Has(changes, "enabled")

(* Mutant: the services are restarted before the adaptive link is changed. *)
CommandsReordered(changes) ==
  Line("line", Written(changes, "channel") \o Written(changes, "radio"))
  \o Line("line", Written(changes, "camera"))
  \o When(RestartsWfb(changes), Line("wfb", <<Do("stopWfb"), Do("startWfb")>>))
  \o When(Has(changes, "camera"), Line("line", <<Do("reloadCamera")>>))
  \o Line(AlinkKind(changes), AlinkLine(changes))
  \o When(RestartsAlink(changes), Line("line", <<Do("kill"), Do("startAlink")>>))

Commands(changes) ==
  Line("line", Written(changes, "channel") \o Written(changes, "radio"))
  \o Line("line", Written(changes, "camera"))
  \o Line(AlinkKind(changes), AlinkLine(changes))
  \o When(RestartsWfb(changes), Line("wfb", <<Do("stopWfb"), Do("startWfb")>>))
  \o When(Has(changes, "camera"), Line("line", <<Do("reloadCamera")>>))
  \o When(RestartsAlink(changes), Line("line", <<Do("kill"), Do("startAlink")>>))

-----------------------------------------------------------------------------
(***************************************************************************)
(* Requests                                                                *)
(***************************************************************************)
(* The column roiQP is skipped.                                             *)
ParsedProfiles == [file.profiles EXCEPT !.roi = "skipped"]

(* Of the other files the settings in use are the ones that were read.      *)
Parsed(f) ==
  CASE f = "enabled"  -> alink # Stopped
    [] f = "profiles" -> ParsedProfiles
    [] OTHER -> file[f]

WholePage == {"channel", "radio", "camera", "alink", "enabled"}

(* GetConfig: one command reads all files, and whether alink_drone runs.   *)
(* Profiles are left out if there are none.                                *)
Config ==
  [f \in WholePage \union {x \in {"profiles"} : file.profiles # NoProfiles} |-> Parsed(f)]

Fetch(h) ==
  /\ Free(h) /\ Reachable
  /\ handler[h].copy # Config
  /\ handler' = [handler EXCEPT ![h].copy = Config]
  /\ UNCHANGED <<file, radio, camera, alink, jobs, gsChannel, wanted, broken, left>>

(* A save of all settings mends what a broken one left undone.              *)
Save(h, copy, changes) ==
  /\ Free(h) /\ Reachable
  /\ Spends("saves")
  /\ handler' = [handler EXCEPT ![h] = [copy |-> copy, todo |-> Commands(changes), sent |-> FALSE]]
  /\ LET asked == IF Has(changes, "enabled") THEN {changes.enabled}
                  ELSE IF Has(changes, "alink") THEN {TRUE} ELSE wanted
     IN wanted' = IF Quiet THEN asked ELSE wanted \union asked
  /\ broken' = (broken /\ ~(Quiet /\ WholePage \subseteq DOMAIN changes))
  /\ UNCHANGED <<file, radio, camera, alink, jobs, gsChannel>>

(* The page saves the copy it has, with what the user edited in it.        *)
SavePage(h) ==
  /\ handler[h].copy # <<>>
  /\ \E field \in Edits :
       \E value \in CASE field = "channel" -> Channels
                      [] field = "enabled" -> BOOLEAN
                      [] OTHER -> Settings :
         LET edited == [handler[h].copy EXCEPT ![field] = value] IN Save(h, edited, edited)

(* Another client sends the settings to change only.                       *)
SavePart(h) ==
  \E fields \in Partial, value \in Settings, channel \in Channels :
    Save(h, handler[h].copy, [f \in fields |-> IF f = "channel" THEN channel ELSE value])

(* runCommand: a line reaches the drone.                                    *)
Deliver(h) ==
  /\ handler[h].todo # <<>> /\ ~handler[h].sent
  /\ Reachable
  /\ LET line == Head(handler[h].todo)
         id   == <<h, line.kind>>
     IN /\ id \notin DOMAIN jobs
        /\ jobs' = [j \in DOMAIN jobs \union {id} |-> IF j = id THEN line.steps ELSE jobs[j]]
        /\ handler' = IF line.kind = "line" THEN [handler EXCEPT ![h].sent = TRUE]
                                            ELSE [handler EXCEPT ![h].todo = Tail(@)]
  /\ UNCHANGED <<file, radio, camera, alink, gsChannel, wanted, broken, left>>

(* Its result comes back; what failed is logged.                            *)
Return(h) ==
  /\ handler[h].sent /\ <<h, "line">> \notin DOMAIN jobs
  /\ Reachable
  /\ handler' = [handler EXCEPT ![h].todo = Tail(@), ![h].sent = FALSE]
  /\ UNCHANGED <<file, radio, camera, alink, jobs, gsChannel, wanted, broken, left>>

(* Mutant: a command whose result does not come is waited for.              *)
BreakOffUnsent(h) ==
  /\ handler[h].todo # <<>> /\ ~handler[h].sent /\ CutOff
  /\ handler' = [handler EXCEPT ![h].todo = <<>>, ![h].sent = FALSE]
  /\ broken' = TRUE
  /\ UNCHANGED <<file, radio, camera, alink, jobs, gsChannel, wanted, left>>

(* The connection times out: every other command fails at once, and        *)
(* SetConfig reports success.                                              *)
BreakOff(h) ==
  /\ handler[h].todo # <<>> /\ CutOff
  /\ handler' = [handler EXCEPT ![h].todo = <<>>, ![h].sent = FALSE]
  /\ broken' = TRUE
  /\ UNCHANGED <<file, radio, camera, alink, jobs, gsChannel, wanted, left>>

-----------------------------------------------------------------------------
(***************************************************************************)
(* The drone                                                               *)
(***************************************************************************)
Rest(id, steps) ==
  IF steps = <<>> THEN [j \in DOMAIN jobs \ {id} |-> jobs[j]] ELSE [jobs EXCEPT ![id] = steps]

(* The next shell command of a job.                                         *)
Runs(id) ==
  LET step == Head(jobs[id]) IN
  /\ jobs' = Rest(id, Tail(jobs[id]))
  /\ file' = IF step.op = "write" THEN [file EXCEPT ![step.field] = step.value] ELSE file
  /\ radio' = CASE step.op = "stopWfb"  -> [radio EXCEPT !.up = FALSE]
                [] step.op = "startWfb" -> StartedWfb(file)
                [] OTHER -> radio
  /\ camera' = IF step.op = "reloadCamera" THEN file.camera ELSE camera
  /\ alink' = CASE step.op = "kill" -> Stopped
                [] step.op = "startAlink" -> AlinkFiles(file)
                [] step.op = "startUnlessRunning" /\ alink = Stopped -> AlinkFiles(file)
                [] OTHER -> alink
  /\ UNCHANGED <<gsChannel, handler, wanted, broken, left>>

(* The setting is refused: the rest of the line is not run.  alink.conf is *)
(* there, since its settings were read from it, and sed does not fail.     *)
Refuses(id) ==
  /\ Head(jobs[id]).op = "write" /\ Head(jobs[id]).field \in {"channel", "radio", "camera"}
  /\ Spends("failures")
  /\ jobs' = Rest(id, <<>>)
  /\ UNCHANGED <<file, radio, camera, alink, gsChannel, handler, wanted, broken>>

(* alink_drone changes modulation, FEC and power of the radio.             *)
AlinkAdapts ==
  /\ alink # Stopped /\ radio.up
  /\ \E power \in AdaptedPowers :
       radio' = [radio EXCEPT !.params = "adapted", !.power = power, !.own = power]
  /\ radio' # radio
  /\ UNCHANGED <<file, camera, alink, jobs, gsChannel, handler, wanted, broken, left>>

(* A reboot starts everything from the files, alink_drone too, and breaks  *)
(* the connections.                                                        *)
Reboots ==
  /\ Spends("reboots")
  /\ radio' = StartedWfb(file) /\ camera' = file.camera /\ alink' = AlinkFiles(file)
  /\ jobs' = <<>>
  /\ handler' = [h \in Handlers |-> [handler[h] EXCEPT !.todo = <<>>, !.sent = FALSE]]
  /\ wanted' = {TRUE} /\ broken' = FALSE
  /\ UNCHANGED <<file, gsChannel>>

(* The ground station changes its channel, to follow the drone or not.     *)
Retunes ==
  /\ Spends("retunes")
  /\ gsChannel' \in Channels \ {gsChannel}
  /\ UNCHANGED <<file, radio, camera, alink, jobs, handler, wanted, broken>>

DroneRuns == \E id \in DOMAIN jobs : Runs(id)
RequestStep(h) == Deliver(h) \/ Return(h) \/ BreakOff(h)

DroneNext ==
  \/ \E h \in Handlers : Fetch(h) \/ SavePage(h) \/ SavePart(h) \/ RequestStep(h)
  \/ DroneRuns \/ (\E id \in DOMAIN jobs : Refuses(id))
  \/ AlinkAdapts \/ Reboots \/ Retunes

-----------------------------------------------------------------------------
(***************************************************************************)
(* Properties                                                              *)
(***************************************************************************)
ParamsInForce == radio.params = file.radio \/ (alink # Stopped /\ radio.params = "adapted")

(* When all saves are done, the camera runs with what its file says, and   *)
(* the radio on the channel and with the modulation and code of its file,  *)
(* in whatever order two saves were mixed; and no modulation of the        *)
(* adaptive link stays in force when it was switched off.  Unless a        *)
(* connection broke off: the drone left the channel before the commands    *)
(* that come after the restart of wfb-ng.  The power is left to            *)
(* PowerRestored, and nothing is said of the settings alink_drone was      *)
(* started with.                                                           *)
RunningFollowsFiles ==
  Quiet /\ ~broken =>
    /\ radio.up /\ radio.channel = file.channel /\ ParamsInForce
    /\ camera = file.camera

(* alink_drone runs if and only if the last save that says so switches it  *)
(* on, one of them if they overlap.  A client that changes its settings    *)
(* only starts it.                                                         *)
SwitchFollowed == Quiet /\ ~broken => (alink # Stopped) \in wanted

(* Every request for a save is answered.                                    *)
SaveAnswered == \A h \in Handlers : handler[h].todo # <<>> ~> handler[h].todo = <<>>
=============================================================================
