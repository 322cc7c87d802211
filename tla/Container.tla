----------------------------- MODULE Container -----------------------------
(***************************************************************************)
(* The all-in-one container: entrypoint.sh as PID 1 over the API and       *)
(* nginx, the API's startup over its registry, its drain (main.rs), and a  *)
(* download that passes through both when they are told to stop: written   *)
(* by the API, relayed by nginx, and at last only queued by the kernel.    *)
(* Docker stops the container with a signal and then a kill, and starts it *)
(* again.                                                                  *)
(***************************************************************************)
EXTENDS RegistrySchema

CONSTANTS
  Faults, MaxFaults,  \* the kinds of fault that may happen, and how many
  MaxStarts,          \* bound: times the container is started
  MaxSignals          \* bound: signals sent to one run of it

ASSUME ContainerAssumption ==
  /\ Faults \subseteq {"death", "statement", "config"}
  /\ MaxFaults \in Nat /\ MaxStarts \in Nat /\ MaxSignals \in Nat

VARIABLES
  pid1,      \* the command of the script that is running
  pending,   \* a trapped signal is still to be handled
  api, web,  \* the two children
  transfer,  \* the download
  docker,    \* "keeping" the container, "stopping" it, or "stopped"
  starts, signals, faults,
  excused    \* history: something was in this run to cut a download short for

vars == <<schema, pid1, pending, api, web, transfer, docker, starts, signals, faults, excused>>

Waits == {"waiting any", "waiting api", "waiting web"}
Trapped == Waits \union {"stopping"}
Booting == {"binding", "opening", "reconciling"}
Leaving == {"draining", "leaving", "gone"}
InFlight == {"flowing", "relayed"}

TypeOK ==
  /\ SchemaTypeOK
  /\ pid1 \in Trapped \union {"down", "configuring", "starting api", "starting web", "trapping"}
  /\ pending \in BOOLEAN /\ excused \in BOOLEAN
  /\ api \in Booting \union {"absent", "serving", "draining", "leaving", "gone"}
  /\ web \in {"absent", "starting", "serving", "quitting", "gone"}
  /\ transfer \in {"none", "flowing", "relayed", "queued", "delivered", "cut", "short"}
  /\ docker \in {"keeping", "stopping", "stopped"}
  /\ starts \in 0..MaxStarts /\ signals \in 0..MaxSignals /\ faults \in 0..MaxFaults

Init ==
  /\ SchemaInit
  /\ pid1 = "down" /\ pending = FALSE
  /\ api = "absent" /\ web = "absent" /\ transfer = "none"
  /\ docker = "keeping" /\ starts = 0 /\ signals = 0 /\ faults = 0 /\ excused = FALSE

Fault(kind) == kind \in Faults /\ faults < MaxFaults /\ faults' = faults + 1

-----------------------------------------------------------------------------
(* The script. A child that leaves takes with it what it has not yet passed on
   of the download. *)

Cut(stages) == transfer' = IF transfer \in stages THEN "cut" ELSE transfer

(* restart: unless-stopped, or a start after a stop. *)
ContainerStarts ==
  /\ pid1 = "down" /\ starts < MaxStarts /\ docker # "stopping"
  /\ pid1' = "configuring" /\ starts' = starts + 1 /\ docker' = "keeping"
  /\ api' = "absent" /\ web' = "absent" /\ transfer' = "none"
  /\ pending' = FALSE /\ signals' = 0 /\ excused' = FALSE
  /\ UNCHANGED <<schema, faults>>

(* PID 1 is gone, and so is everything else in the container: what the kernel
   had queued as well. *)
EverythingGoes ==
  /\ pid1' = "down" /\ api' = "gone" /\ web' = "gone" /\ Close
  /\ transfer' = CASE transfer \in InFlight -> "cut" [] transfer = "queued" -> "short"
                   [] OTHER -> transfer
  /\ pending' = FALSE
  /\ docker' = IF docker = "stopping" THEN "stopped" ELSE docker

Configure ==
  /\ pid1 = "configuring" /\ pid1' = "starting api"
  /\ UNCHANGED <<schema, pending, api, web, transfer, docker, starts, signals, faults, excused>>

ConfigureFails ==
  /\ pid1 = "configuring" /\ Fault("config") /\ EverythingGoes
  /\ UNCHANGED <<starts, signals, excused>>

StartApi ==
  /\ pid1 = "starting api" /\ pid1' = "starting web" /\ api' = "binding"
  /\ UNCHANGED <<schema, pending, web, transfer, docker, starts, signals, faults, excused>>

StartWeb ==
  /\ pid1 = "starting web" /\ pid1' = "trapping" /\ web' = "starting"
  /\ UNCHANGED <<schema, pending, api, transfer, docker, starts, signals, faults, excused>>

SetTrap ==
  /\ pid1 = "trapping" /\ pid1' = "waiting any"
  /\ UNCHANGED <<schema, pending, api, web, transfer, docker, starts, signals, faults, excused>>

\* Mutant: both are told alike, and nginx drops what it is proxying.
ShutdownAlike ==
  /\ api' = CASE api \in Booting -> "gone" [] api = "serving" -> "draining" [] OTHER -> api
  /\ web' = "gone" /\ Cut(InFlight)
  /\ IF api \in Booting THEN Close ELSE UNCHANGED schema

(* TERM to the API, which has no handler before it serves. QUIT to nginx, which
   a script starts with that signal ignored: until nginx has a handler of its
   own, and that is when it serves, the signal is lost. *)
Shutdown ==
  /\ api' = CASE api \in Booting -> "gone" [] api = "serving" -> "draining" [] OTHER -> api
  /\ web' = IF web = "serving" THEN "quitting" ELSE web
  /\ IF api \in Booting THEN Close ELSE UNCHANGED schema
  /\ UNCHANGED transfer

After(at) ==
  CASE at = "waiting any" -> "stopping" [] at = "stopping" -> "waiting api"
    [] at = "waiting api" -> "waiting web" [] OTHER -> "down"

\* Mutant: the status of the first wait is not taken, and the script is over.
InterruptedFatal ==
  /\ pending /\ pid1 \in Waits /\ EverythingGoes
  /\ UNCHANGED <<starts, signals, faults, excused>>

(* The trap runs, and the wait it interrupted has returned. *)
Interrupted ==
  /\ pending /\ pid1 \in Waits
  /\ IF After(pid1) = "down" THEN EverythingGoes
     ELSE /\ pid1' = After(pid1) /\ Shutdown
          /\ pending' = FALSE /\ UNCHANGED docker
  /\ UNCHANGED <<starts, signals, faults, excused>>

(* The signal came just before the wait, or while the script called shutdown
   itself: twice is the same as once. *)
TrapRuns ==
  /\ pending /\ pid1 \in Trapped /\ Shutdown
  /\ pending' = FALSE
  /\ UNCHANGED <<pid1, docker, starts, signals, faults, excused>>

\* Mutant: only the API is waited for.
WaitedForApiOnly ==
  CASE pid1 \in {"waiting any", "waiting api"} -> api = "gone"
    [] pid1 = "waiting web" -> web = "gone" [] OTHER -> FALSE

WaitedFor ==
  CASE pid1 = "waiting any" -> "gone" \in {api, web}
    [] pid1 = "waiting api" -> api = "gone"
    [] pid1 = "waiting web" -> web = "gone" [] OTHER -> FALSE

WaitReturns ==
  /\ WaitedFor
  /\ IF After(pid1) = "down" THEN EverythingGoes
     ELSE pid1' = After(pid1) /\ UNCHANGED <<schema, pending, api, web, transfer, docker>>
  /\ UNCHANGED <<starts, signals, faults, excused>>

TellsBoth ==
  /\ pid1 = "stopping" /\ pid1' = After(pid1) /\ Shutdown
  /\ UNCHANGED <<pending, docker, starts, signals, faults, excused>>

-----------------------------------------------------------------------------
(* Docker. *)

(* PID 1 ignores a signal it has no handler for. One that finds it already
   waiting for the children to leave interrupts that wait. *)
Signalled ==
  /\ pid1 # "down" /\ signals < MaxSignals /\ signals' = signals + 1
  /\ pending' = (pending \/ pid1 \in Trapped)
  /\ excused' = (excused \/ pending \/ pid1 \in Trapped \ {"waiting any"} \/ api \in Leaving)
  /\ docker' = "stopping"
  /\ UNCHANGED <<schema, pid1, api, web, transfer, starts, faults>>

DockerKills ==
  /\ docker = "stopping" /\ pid1 # "down" /\ EverythingGoes
  /\ excused' = TRUE
  /\ UNCHANGED <<starts, signals, faults>>

-----------------------------------------------------------------------------
(* The API. *)

ApiOnly == UNCHANGED <<pid1, pending, web, docker, starts, signals>>
ApiAt(from, to) == api = from /\ api' = to /\ UNCHANGED <<transfer, excused, faults>> /\ ApiOnly

Binds == ApiAt("binding", "opening") /\ UNCHANGED schema
Opens == ApiAt("opening", "opening") /\ (Open \/ Migrate)
RegistryOpens == ApiAt("opening", "reconciling") /\ opening = "open" /\ UNCHANGED schema
Serves == ApiAt("reconciling", "serving") /\ UNCHANGED schema

ApiLeaves == api' = "gone" /\ Cut({"flowing"}) /\ Close /\ ApiOnly

(* fatal: a registry that cannot be opened is nothing to serve. *)
Fatal ==
  /\ api = "opening" /\ opening \in {"refused", "broken"} /\ ApiLeaves
  /\ UNCHANGED <<excused, faults>>

StatementGoesWrong ==
  /\ api = "opening" /\ Fault("statement") /\ StatementFails
  /\ UNCHANGED <<api, transfer, excused>> /\ ApiOnly

(* Every response is written, if not yet delivered, and main returns. *)
Drained ==
  /\ api = "draining" /\ transfer # "flowing" /\ api' = "leaving"
  /\ UNCHANGED <<schema, transfer, excused, faults>> /\ ApiOnly

(* The watchdog of the drain: --shutdown-grace-seconds is a deadline. *)
GraceEnds ==
  /\ api = "draining" /\ transfer = "flowing" /\ ApiLeaves
  /\ excused' = TRUE /\ UNCHANGED faults

(* The runtime that main returns from lets a compression that is running end
   first, and its watchdog is gone by then. *)
Left ==
  /\ api = "leaving" /\ ApiLeaves
  /\ UNCHANGED <<excused, faults>>

(* Killed for its memory, a panic, an error at the start that is fatal. *)
ApiDies ==
  /\ api \notin {"absent", "gone"} /\ Fault("death") /\ ApiLeaves
  /\ excused' = TRUE

-----------------------------------------------------------------------------
(* nginx (external), and the download that it proxies. *)

WebOnly == UNCHANGED <<schema, pid1, pending, api, docker, starts, signals>>

WebServes ==
  /\ web = "starting" /\ web' = "serving"
  /\ UNCHANGED <<transfer, excused, faults>> /\ WebOnly

WebQuits ==
  /\ web = "quitting" /\ transfer \notin InFlight /\ web' = "gone"
  /\ UNCHANGED <<transfer, excused, faults>> /\ WebOnly

WebDies ==
  /\ web \notin {"absent", "gone"} /\ Fault("death") /\ web' = "gone" /\ Cut(InFlight)
  /\ excused' = TRUE /\ WebOnly

(* nginx gives a client that has stopped reading so long and no longer. *)
ClientStalls ==
  /\ transfer = "relayed" /\ transfer' = "cut" /\ excused' = TRUE
  /\ UNCHANGED <<web, faults>> /\ WebOnly

DownloadStarts ==
  /\ api = "serving" /\ web = "serving" /\ transfer \in {"none", "delivered"}
  /\ transfer' = "flowing"
  /\ UNCHANGED <<web, excused, faults>> /\ WebOnly

(* The last of it is written by the API, then by nginx, then has arrived. *)
PassesOn(from, to) ==
  /\ transfer = from /\ transfer' = to
  /\ UNCHANGED <<web, excused, faults>> /\ WebOnly
ApiWrites   == PassesOn("flowing", "relayed")
WebWrites   == PassesOn("relayed", "queued")
TailArrives == pid1 # "down" /\ PassesOn("queued", "delivered")

Elsewhere ==
  /\ pid1 = "down" /\ UpgradeElsewhere
  /\ UNCHANGED <<pid1, pending, api, web, transfer, docker, starts, signals, faults, excused>>

-----------------------------------------------------------------------------
Script ==
  Configure \/ StartApi \/ StartWeb \/ SetTrap \/ Interrupted \/ TrapRuns \/ WaitReturns
    \/ TellsBoth

Api == Binds \/ Opens \/ RegistryOpens \/ Serves \/ Fatal \/ Drained \/ GraceEnds \/ Left
NginxSteps == WebServes \/ WebQuits \/ WebWrites \/ ClientStalls

Next ==
  \/ ContainerStarts \/ Script \/ Api \/ NginxSteps
  \/ ConfigureFails \/ Signalled \/ DockerKills
  \/ StatementGoesWrong \/ ApiDies \/ WebDies
  \/ DownloadStarts \/ ApiWrites \/ TailArrives \/ Elsewhere

Spec == Init /\ [][Next]_vars

(* The shell and the two processes run on: the deadline of the drain comes, a
   compression ends, and nginx either passes on what it has or gives the client
   up. That the API gets to write all of a download, that its tail arrives, or
   that docker does anything, is not assumed. *)
FairSpec == Spec /\ WF_vars(Script) /\ WF_vars(Api) /\ WF_vars(NginxSteps)

-----------------------------------------------------------------------------
(* Of a download under way when the container is told to stop, both processes
   pass on all they have, unless the API's own deadline, docker's, a second
   signal, a death or a client that does not read ends it: an ordinary stop
   costs the tail that the kernel had queued, and no more. *)
OnlyTheTailIsLost == transfer = "cut" => excused

(* "If either stops, the container stops, so a restart policy can do its job
   instead of leaving half a server answering": at whatever point of its
   startup or of a stop that is. It does not: a QUIT that finds nginx starting
   is lost, and the script waits for a child that was never told. *)
StopsAsAUnit == (pid1 # "down" /\ "gone" \in {api, web}) ~> pid1 = "down"

(* Both were told, and nginx has not heard. *)
Unheard == pid1 \in {"waiting api", "waiting web"} /\ web \in {"starting", "serving"}

(* Where that is not so, the container does stop once either child has, whatever
   the other was doing, however often it is told, and whichever went first. *)
StopsOnceHeard ==
  (pid1 # "down" /\ "gone" \in {api, web}) ~> (pid1 = "down" \/ Unheard)
=============================================================================
