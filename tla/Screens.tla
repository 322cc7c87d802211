------------------------------ MODULE Screens ------------------------------
(***************************************************************************)
(* The two graphical front ends over RemoteExchange: App.vue of the web    *)
(* front-end and App.vue of the desktop. What a person does, what is read  *)
(* asynchronously, what a dialog returns and how an exchange ends come in  *)
(* any order the screens allow. Clicks wait for a dialog of the desktop to *)
(* close, drops onto its window do not.                                    *)
(***************************************************************************)
EXTENDS RemoteExchange, FiniteSets

CONSTANTS
  Web, Desktop,   \* the two clients
  Items,          \* what may be picked
  Folders,        \* the items that are folders
  ArchiveItems    \* the items the desktop takes for archives

ASSUME ScreensAssumption ==
  /\ Clients = {Web, Desktop} /\ Web # Desktop
  /\ None \notin Items /\ Folders \subseteq Items /\ ArchiveItems \subseteq Items \ Folders

VARIABLES
  user,  \* the screen that is used: the two have only the server in common
  web,   \* [picked, reading, processing, result]
  desk   \* [mode, path, dialog, task, result]

vars == <<exchange, user, web, desk>>

NoTask == [op |-> "none", item |-> None, asked |-> None, remote |-> FALSE]
Modes  == {"compress", "extract"}
Tasks  == {NoTask} \union [op : Modes, item : Items \union {None}, asked : Items, remote : BOOLEAN]
Dialogs == {[op |-> "none", item |-> None]} \union [op : Modes, item : Items]

TypeOK ==
  /\ ExchangeTypeOK /\ user \in Clients
  /\ web \in [picked : Items \union {None}, reading : SUBSET Folders, processing : BOOLEAN,
              result : BOOLEAN]
  /\ desk \in [mode : Modes, path : Items \union {None}, dialog : Dialogs, task : Tasks,
               result : BOOLEAN]

NoDialog == [op |-> "none", item |-> None]

Init ==
  /\ ExchangeInit /\ user \in Clients
  /\ web = [picked |-> None, reading |-> {}, processing |-> FALSE, result |-> FALSE]
  /\ desk = [mode |-> "compress", path |-> None, dialog |-> NoDialog, task |-> NoTask,
             result |-> FALSE]

(* A bound of the model: a post finds an id that was not drawn yet. *)
JobsAreLeft ==
  Cardinality({c \in Clients : pc[c] = "posting"}) < Cardinality({j \in Jobs : job[j] = "absent"})

(* The exchange is over, and its call returned. *)
Ends(c, how) ==
  /\ pc[c] = how /\ To(c, "idle")
  /\ UNCHANGED <<server, mine, held, delay, late, faults>>

-----------------------------------------------------------------------------
(* The web front-end. A result covers the pickers; an exchange does not. *)

Picking == ~web.result
Cleared(w) == [w EXCEPT !.picked = None, !.result = FALSE]

TakeFile(i) ==
  /\ Picking /\ i \notin Folders
  /\ web' = [Cleared(web) EXCEPT !.picked = i]
  /\ UNCHANGED <<exchange, desk>>

(* The selection is dropped at once, and comes back when all is read. *)
TakeFolder(i) ==
  /\ Picking /\ i \in Folders
  /\ web' = [Cleared(web) EXCEPT !.reading = @ \union {i}]
  /\ UNCHANGED <<exchange, desk>>

FolderIsRead(i) ==
  /\ i \in web.reading
  /\ web' = [web EXCEPT !.reading = @ \ {i}, !.picked = i]
  /\ UNCHANGED <<exchange, desk>>

FolderCannotBeRead(i) ==
  /\ i \in web.reading
  /\ web' = [web EXCEPT !.reading = @ \ {i}]
  /\ UNCHANGED <<exchange, desk>>

\* Mutant: an exchange under way is no obstacle to the next.
StartAnyway ==
  /\ Picking /\ web.picked # None /\ JobsAreLeft
  /\ Begin(Web)
  /\ web' = [web EXCEPT !.processing = TRUE]
  /\ UNCHANGED desk

Start ==
  /\ Picking /\ web.picked # None /\ ~web.processing /\ JobsAreLeft
  /\ Begin(Web)
  /\ web' = [web EXCEPT !.processing = TRUE]
  /\ UNCHANGED desk

(* The sizes are compared with what is picked by now: if that was cleared
   meanwhile the comparison throws, and the archive in hand is not shown. *)
WebGets ==
  /\ Ends(Web, "done")
  /\ web' = [web EXCEPT !.processing = FALSE, !.result = web.picked # None]
  /\ UNCHANGED desk

WebFails ==
  /\ Ends(Web, "failed")
  /\ web' = [web EXCEPT !.processing = FALSE]
  /\ UNCHANGED desk

Reset ==
  /\ web.result /\ web' = Cleared(web)
  /\ UNCHANGED <<exchange, desk>>

-----------------------------------------------------------------------------
(* The desktop. *)

Clickable == desk.dialog = NoDialog
Working   == Clickable /\ ~desk.result
Processing == desk.task # NoTask
Picks(d, i) == [d EXCEPT !.path = i, !.result = FALSE]

(* A drop is taken whatever the screen is doing, and may change its mode. *)
Drop(i) ==
  /\ desk' = [Picks(desk, i) EXCEPT !.mode = IF i \in ArchiveItems THEN "extract" ELSE "compress"]
  /\ UNCHANGED <<exchange, web>>

Browse(i) ==
  /\ Working /\ i \notin Folders /\ desk' = Picks(desk, i)
  /\ UNCHANGED <<exchange, web>>

SetMode(m) ==
  /\ Clickable /\ desk.mode # m
  /\ desk' = [desk EXCEPT !.mode = m, !.path = None, !.result = FALSE]
  /\ UNCHANGED <<exchange, web>>

ResetDesk ==
  /\ Clickable /\ desk.result
  /\ desk' = [desk EXCEPT !.path = None, !.result = FALSE]
  /\ UNCHANGED <<exchange, web>>

(* The click opens a dialog: where to save, or where to extract into. *)
Click(op) ==
  /\ Working /\ desk.mode = op /\ desk.path # None /\ ~Processing
  /\ desk' = [desk EXCEPT !.dialog = [op |-> op, item |-> desk.path]]
  /\ UNCHANGED <<exchange, web>>

Cancel ==
  /\ ~Clickable /\ desk' = [desk EXCEPT !.dialog = NoDialog]
  /\ UNCHANGED <<exchange, web>>

Invoked(op, i, remote) ==
  [desk EXCEPT !.dialog = NoDialog,
               !.task = [op |-> op, item |-> i, asked |-> desk.dialog.item, remote |-> remote]]

(* A compression takes the path as it is once the dialog has closed. *)
Compress(remote) ==
  /\ desk.dialog.op = "compress"
  /\ desk' = Invoked("compress", desk.path, remote)
  /\ IF remote THEN JobsAreLeft /\ Begin(Desktop) ELSE UNCHANGED exchange
  /\ UNCHANGED web

\* Mutant: so does an extraction.
ExtractWhatIsPicked ==
  /\ desk.dialog.op = "extract"
  /\ desk' = Invoked("extract", desk.path, FALSE)
  /\ UNCHANGED <<exchange, web>>

(* An extraction keeps the archive it was asked about. *)
Extract ==
  /\ desk.dialog.op = "extract"
  /\ desk' = Invoked("extract", desk.dialog.item, FALSE)
  /\ UNCHANGED <<exchange, web>>

Outcome(ok) ==
  [desk EXCEPT !.task = NoTask, !.result = @ \/ ok]

TaskEnds ==
  /\ Processing /\ ~desk.task.remote
  /\ \E ok \in BOOLEAN : desk' = Outcome(ok)
  /\ UNCHANGED <<exchange, web>>

(* A remote run saves what it has in hand, which may fail: see StagedOutput. *)
RemoteEnds ==
  /\ Processing /\ desk.task.remote
  /\ \/ Ends(Desktop, "done") /\ \E ok \in BOOLEAN : desk' = Outcome(ok)
     \/ Ends(Desktop, "failed") /\ desk' = Outcome(FALSE)
  /\ UNCHANGED web

-----------------------------------------------------------------------------
WebSteps ==
  \/ \E i \in Items : TakeFile(i) \/ TakeFolder(i) \/ FolderIsRead(i) \/ FolderCannotBeRead(i)
  \/ Start \/ WebGets \/ WebFails \/ Reset

DeskSteps ==
  \/ \E i \in Items : Drop(i) \/ Browse(i)
  \/ \E m \in Modes : SetMode(m) \/ Click(m)
  \/ \E remote \in BOOLEAN : Compress(remote)
  \/ ResetDesk \/ Cancel \/ Extract \/ TaskEnds \/ RemoteEnds

ExchangeSteps ==
  \/ \E c \in Clients : ClientSteps(c) \/ Serves(c) \/ Disturbs(c)
  \/ \E j \in Jobs : Works(j) \/ Reaps(j)

Next ==
  /\ \/ user = Web /\ WebSteps
     \/ user = Desktop /\ DeskSteps
     \/ ExchangeSteps /\ UNCHANGED <<web, desk>>
  /\ UNCHANGED user

Spec == Init /\ [][Next]_vars

(* Promises and threads run on; the server answers, and its jobs settle (see
   AcceptedJobsSettle of JobServer). *)
Fairness ==
  /\ \A c \in Clients : WF_vars((ClientSteps(c) \/ Serves(c)) /\ UNCHANGED <<user, web, desk>>)
  /\ \A j \in Jobs : WF_vars(Server!Settle(j) /\ Works(j) /\ UNCHANGED <<user, web, desk>>)
  /\ WF_vars((WebGets \/ WebFails \/ TaskEnds \/ RemoteEnds) /\ UNCHANGED user)

FairSpec == Spec /\ Fairness

-----------------------------------------------------------------------------
(* What must hold *)

(* No exchange is started over one of the same screen that is still going on:
   while it lasts its job stays the one the server made for it, and somebody
   fetches it. *)
NoExchangeIsAbandoned ==
  [][\A c \in Clients :
       (pc[c] # "idle" /\ mine'[c] # mine[c]) => (pc[c] = "posting" /\ mine[c] = None)]_vars

(* What a person dropped while the dialog was open is not what is extracted:
   "an extraction that started on one archive must not finish on another". *)
ExtractionKeepsItsArchive ==
  desk.task.op = "extract" => desk.task.item = desk.task.asked

(* Whatever the server, the network and the person do, a screen that says it
   is working stops saying so: the wait has no deadline of its own, and needs
   none while the server's jobs settle. *)
BusyEnds ==
  /\ web.processing ~> ~web.processing
  /\ Processing ~> ~Processing
=============================================================================
