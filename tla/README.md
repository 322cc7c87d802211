# Collapse in TLA+

TLA+ specifications of [Collapse](../src/README.md), a compression tool with a
command line, a desktop application and a server. They are translated from the
source under `src/`, model-checked with TLC on small instances, and proved with
TLAPS for every value of the constants where the prover can reach.

| Module | What it is |
| --- | --- |
| `JobLifecycle` | what the server promises a client about one job |
| `JobServer` | registry, staging area, handlers, worker, reaper, startup |
| `JobServerInvariant`, `JobServerProofs`, `JobServerSafety`, `JobServerRefinement` | its inductive invariant, type correctness, safety, and that it implements `JobLifecycle` |
| `AtomicOutput` | what a compression promises about the file it was asked to write |
| `StagedOutput`, `StagedOutputProofs`, `StagedOutputSources` | compressions towards one folder, local or remote, with the guards before them |
| `EntryNames` | which names a host can hold, and the path each is written to |
| `Extraction`, `ExtractionProofs` | an extraction, entry by entry |
| `RemoteExchange` | a client of the server: post, poll, download, delete, over `JobLifecycle` |
| `Screens`, `ScreensProofs` | the web front-end and the desktop application over `RemoteExchange` |
| `RegistrySchema` | opening and migrating the registry, statement by statement |
| `Container`, `ContainerProofs` | the all-in-one container over `RegistrySchema` |
| `MCJobServer`, `MCStagedOutput`, `MCExtraction`, `MCScreens`, `MCContainer` + `.cfg` | the instances TLC checks |

`PROJECT.json` lists the components, the runs, the source lines each definition
translates, the hazards, the findings and the theorems.

To reproduce, in this directory: `tlc -config MCJobServer_safety.cfg MCJobServer`
for a run, `tlapm JobServerSafety.tla` for a proof.

---

## 1. Inventory

### Server (`apps/server-backend/src`)

| Component | State | Operations | Correct when |
| --- | --- | --- | --- |
| Registry (`registry.rs`) | one SQLite row per job: status, timestamps, metadata; a schema version; a mutex around the connection | `add`, `get`, `update_status`, `touch`, `forget`, `ids`, `unfinished`, `expired`, `open`/`migrate` | a late write never brings a row back; a row that does not parse harms only its job; a stamp is never ahead of its columns |
| Staging area (`storage.rs`) | one directory per job: the input, then the archive beside it | `save_input`, `has_job`, `delete_job`, `staged_jobs` | a row that says `completed` has its archive, an unfinished one its input |
| Handlers (`routes.rs`) | none of their own; each is a future dropped when its client leaves | create, status, download, delete | the check a handler made still holds when it acts |
| Worker (`queue.rs`) | an unbounded channel of ids, one task, one job at a time | take, mark, compress, record | every accepted job settles; `completed` is written last |
| Reaper (`lib.rs`, `maintenance.rs::reap`) | the list of the sweep under way | list, remove, forget, one job after another | only finished jobs go, files before rows, and refused removals are retried |
| Reconciliation (`maintenance.rs::reconcile`) | the pass under way | forget rows without files, fail interrupted jobs, sweep unknown directories | both stores agree when serving begins, whatever cut the previous startup |
| Process (`main.rs`) | starting, serving, draining, gone | start, stop, kill, the deadline of the drain | nothing a stop cuts is stranded |
| Messages, wire format (`validate.rs`, `error.rs`, `models.rs`, `openapi.rs`) | none | pure functions | |

Handlers, worker and reaper share the registry and the disk and nothing else:
there is no per-job lock. What protects a job is its *status*: `DELETE` and the
reaper touch only finished jobs, the worker only unfinished ones. The hard
behaviours all come from there. Every status check is followed by an await; a
removal is not atomic and can fail half way; the reaper works from a list it
read once; a client that leaves drops its handler while the blocking closure it
was waiting for runs on; a stop can cut any of this anywhere; and rows and files
are two stores with no transaction across them.

### Core (`apps/core/src`)

| Component | State | Operations | Correct when |
| --- | --- | --- | --- |
| Staged compression (`compression.rs`) | a temporary beside the output, a serial number per process | walk, create, write, verify, rename, remove on error | the output is always one whole archive, never a partial one |
| Verification (`verify.rs`, `walk.rs`) | the list of entries expected | walk, list, compare | an archive that passes holds what was asked for |
| Backends (`zip.rs`, `tar.rs`, `sevenz.rs`, `algorithm.rs`) | files written so far | compress, list, extract | refusals come before the first write; an entry ends up under its own name, inside the folder |
| Entry names (`names.rs`) | none | which names a host refuses or changes, reports | what is judged is what is written |
| Path guards (`paths.rs`) | none | same file, inside a folder, a hard link within a tree | an input is never its own output |

Hard: two compressions towards one output, a tree that changes between the two
walks of it, a stop between the write and the rename, an extraction that stops
half way, links, and names that are judged by one rule and written by another.

### Clients

| Component | State | Operations | Correct when |
| --- | --- | --- | --- |
| Remote client (`apps/remote/src`) | one exchange: create, poll, download, delete | `compress_path`, `wait_for`, `next_delay` | the result is the job's, and the job is deleted only once it is held |
| Web front-end (`apps/server-frontend/src`) | queue of picked files, the exchange, a folder being read | pick, submit, poll, download | a click never starts an exchange over another |
| Command line (`apps/cli/src`) | none | guards, then a local or remote run | nothing is overwritten unless `--force` said so |
| Desktop (`apps/desktop`) | sources picked, busy flag, settings | pick, dialog, run command | an extraction is of the archive it was asked for |
| All-in-one container (`apps/server-aio`) | PID 1 and its two children | start, wait, stop both | they live and die together, and a stop costs a download its queued tail at most |
| Landing page (`apps/landing`) | none | | |

The clients call the server over HTTP and share nothing else with it. The
server, the command line and the desktop call the core as a library: its
`compress` is one step of the server's worker (`WorkerCompresses`).

---

## 2. The models

### `JobServer`: the server

| Variable | Code |
| --- | --- |
| `row`, `idle`, `garbled` | the `jobs` table: status; whether `updated_at` is older than the window; whether a column does not parse (`RawJob::into_job`) |
| `files` | the job's directory: absent, partial, whole input, archive |
| `upload` | the `POST /compress` handler of each id |
| `req` | each download or delete handler, one request each |
| `queue`, `worker` | the channel and `process_job` |
| `reaper` | `reap`: the job in hand and the rest of the list |
| `phase`, `todo`, `known` | `build_app_with` and the three passes of `reconcile` |
| `condemned`, `faults` | history: what a check let through to removal, and how many faults there were |

`row`, `idle`, `garbled` and `files` survive a crash; the rest does not.

An action is the code between two points where something else can run: an await,
the return of a blocking closure, or a call that touches the disk. A registry
call is one SQL statement under a mutex, hence atomic; `add` and the send to the
channel have no await between them, hence one action (`Register`).

| Actions | Code |
| --- | --- |
| `UploadArrives`, `SaveStarts`, `SaveEnds`, `SaveFails`, `Register`, `RegisterFails`, `UploaderLeaves` | `routes.rs::compress_create`, `storage.rs::save_input` |
| `WorkerTakes`, `WorkerCannotRead`, `WorkerMarks`, `WorkerCompresses`, `WorkerGivesUp`, `WorkerRecords` | `queue.rs` |
| `DownloadArrives`, `DownloadReads`, `DownloadTouches` | `routes.rs::download` |
| `DeleteArrives`, `DeleteRemoves`, `DeleteCannotRemove`, `DeleteForgets` | `routes.rs::delete_job` |
| `RequestCannotRead`, `RequesterLeaves` | a registry error in `job_or_404`; a dropped handler |
| `ReaperLists`, `ReaperPicks`, `ReaperRemoves`, `ReaperCannotRemove`, `ReaperForgets` | `lib.rs::start_reaper`, `maintenance.rs::reap` |
| `Boot`, `ReconcileRow`, `StartFailing`, `FailInterrupted`, `StartSweeping`, `SweepDirectory`, `StartServing` | `maintenance.rs::reconcile`, `lib.rs::build_app_with` |
| `RemovalEats` | `remove_dir_all`, one entry at a time |
| `WindowPasses`, `RowTurnsForeign`, `Crash` | time, another build's row, a stop |

Abstractions:

- **Time** is only which rows are older than the reaper's window. A row may fall
  out of the window at any moment, so the safety results hold for any clock,
  jumps included. A window of 0 turns the reaper off, which is a behaviour in
  which it never steps.
- **Compression** either leaves a whole archive (it is renamed into place, see
  `StagedOutput`) or fails. A refused single-root upload, an unreadable input, a
  full disk and a panic of the engine are all `WorkerGivesUp`.
- **A graceful stop** lets handlers finish before the process ends. What it can
  leave behind is a subset of what `Crash` can, so it has no action of its own
  here; `Container` has the drain and its deadline.
- **Clients that leave** drop the handler at its await; the blocking closure
  runs on (`saving_alone`, `removing_alone`).
- **Job ids** are fresh UUIDs: each is used once.
- **Requests** carry an operation and are sent once, for any job; `GET
  /jobs/{id}` only reads and is left out; parameters are validated before any
  state changes.
- **A row that does not parse** is `garbled` in a column other than `status`.

### `StagedOutput`: compressions

Several runs go on at once, in one process or in several. The file system is
two levels deep: `names` maps each place (a member of the folder, or `Dest`) to
an inode, `file` says of each inode who wrote it, whether it is whole, and which
names are in it. So a hard link is two names of one inode, and `link` makes
`Dest` a symbolic link to a member. `temps` holds the staged names; one is the
directory, the process id and the serial number `StagedOutput::beside` builds it
from.

| Actions | Code |
| --- | --- |
| `Begin` (with `Refused`, `SameFile`, `Inside`) | `cli/src/lib.rs::run_compress`, `desktop commands.rs::compress_path`, `core/paths.rs` |
| `Stage` | `compress`, `compress_dir`: the walk of what is expected, `StagedOutput::beside` |
| `Create`, `WriteMember`, `Finish`, `CreateFails`, `MemberIsGone`, `BuildFails` | the backends' `compress`, with their own walk |
| `Damage`, `Loses` | what no call reports: bytes that are not what was meant, an entry that is not there |
| `Verify`, `Commit`, `CommitFails` | `verify_archive`, `StagedOutput::commit` |
| `CleanUp`, `CleanUpFails` | its `Drop` |
| `Fetch`, `FetchFails`, `Truncate`, `Fill`, `FillFails` | a run with a server: `fs::write` of the archive it returned |
| `Goes`, `Comes`, `Crash` | somebody changes the folder; a process ends |

A process id belongs to one living process, and may be given again once that one
is dead: the staged name of a later run may then be one that a killed run left
behind, and is truncated. `AtomicOutput` is what this amounts to at the output:
a local run replaces it in one step or leaves it alone; a remote one may tear it.
Its `Publish` also lets a remote run answer "ok" and leave the output as it was:
it fills an inode that a local run's rename may have replaced meanwhile. Runs that
were asked for another name (not in `asked`) may reach the output through a link,
or leave it as it is.

### `EntryNames` and `Extraction`

`EntryNames` has the rules of `names.rs` and the two functions that turn a name
into a path (`sanitize_entry_path`; the tar crate's own treatment). A name is a
sequence of tokens, one for each thing that the rules tell apart: a device name
in any case, a device prefix and its digit, the dot, the space, the separators,
the colon, the characters Windows rejects, control characters, and one letter in
two cases. `Held` says, independently of the rules, which parts a host keeps as
an ordinary file of that name; `WhatIsWrittenIsHeld` compares the two.

`Extraction` runs the guards of the front end and of `extract_with` and then the
backend, entry by entry. The folder is a function from paths to nodes: a file, a
directory, a link to a folder elsewhere (`link`), a link to a file elsewhere, there
or not (`alias`), or the archive that is being read. `elsewhere` is what is in the
files that aliases lead to, `outside` what was made in the folders that links lead
to. The three backends differ where the code does: what they skip, whether they
create folders before or after looking where they are, whether they follow or
replace what is in the way, and whether damaged data is noticed before or after the
file is there.

All three look at where the *parent* of an entry leads. At the entry's own path zip
and 7z then call `fs::write`, which fails at a folder and at a link to one
(`InTheWay`) and follows a link to a file (`Follows`): the bytes go into the file it
leads to, and the run goes on as a success. The tar crate removes the link and
makes a new file. Links from the folder to places inside it, and hard links, are not
modelled; whatever leads to the archive is the node `archive`.

### `RemoteExchange` and `Screens`

One exchange per client over `JobLifecycle`, which `JobServer` implements: each
call is what the server does (`PostServed`, `PollServed`, `DownloadServed`,
`DeleteServed`) and what the client makes of the answer (`PostAnswered`, ...),
with anything in between. `CallFails` is a connection that is refused, times out
or breaks off, before or after the server acted; nothing is retried. `Wake` is
the sleep between polls, with `NextDelay`. The reaper may take a finished job at
any time (`Reaps`). The Rust client and `api.js` take the same steps, so they
share the module.

`Screens` adds the handlers of the two `App.vue` files: picks, drops, folders
that are read asynchronously, the dialogs of the desktop and what comes in while
one is open, the busy flags and the results. One screen is used in a behaviour
(`user`); two only have the server in common.

### `RegistrySchema` and `Container`

`RegistrySchema` is `migrate`: which statements a version needs (`StepsFrom`),
each of which SQLite commits on its own, and the stamp at the end. `Databases` has
the files of every earlier build, one that was stopped between its `CREATE TABLE` and
its stamp among them. The creation of an index that exists is left out, and so is
the `journal_mode` pragma (`registry.rs:127`), which `open` runs before it looks at
the version, on a newer build's database too: `FutureIsUntouched` is about what
`migrate` does. `Container` is `entrypoint.sh` as PID 1,
command by command, with the API (bind, open the registry, reconcile, serve,
drain), nginx, and one download that passes through both. A signal sent before
the script has set its trap is ignored, since PID 1 has no default action. A
trapped signal that arrives during a `wait` makes it return (`Interrupted`); one
that arrives between two commands only runs the trap (`TrapRuns`).

`transfer` is how far the end of the download got: the API has still to write some
of it (`flowing`), nginx has (`relayed`), the kernel has it queued (`queued`), the
client holds it (`delivered`). The API's drain ends when it has written everything
(`Drained`), and nginx quits when it has (`WebQuits`); neither knows what arrived.
What ends the container at `queued` leaves the client short of its `Content-Length`
(`short`), which `docs/server.md:557-565` says an ordinary stop may do; what ends a
process that still had some of it is `cut`. After its drain the API is `leaving`:
`main` has returned, and the runtime it drops waits for a compression that is running
under `spawn_blocking`, with the watchdog's task gone (`Left`). `excused` remembers
whether anything in this run was entitled to cut a download: docker's kill, the API's
own deadline, a death, a second signal, or a client that does not read (`ClientStalls`).

`Shutdown` tells the API with `TERM` and nginx with `QUIT`. bash starts a command with
`&` with `SIGINT` and `SIGQUIT` ignored, and nginx inherits that until it installs
its own handlers, just before it serves: a `QUIT` that finds it `starting` is lost.

---

## 3. What is checked

| Run | Instance | Shows | States |
| --- | --- | --- | --- |
| `safety` | 2 jobs, 2 requests, all faults, at most 2 of them | six invariants, `RestartReconciles`, and that `JobServer` implements `JobLifecycle` | 1.7 million |
| `settles` | 2 jobs, 1 request, crashes, disconnections, refused removals, at most 2 | an accepted job always settles, and is never out of both the channel and the worker's hands | 146 thousand |
| `collects` | 2 jobs, 1 request, all faults, at most 2 | a finished job is always collected | 376 thousand |
| `staged` | 2 runs, 2 processes, 2 process ids, a folder of 2 files that `Dest` may be a link into, 4 requests, 1 fault, 1 change of the folder | what a name leads to is whole, is what was asked, is never the source; `StagedOutput` implements `AtomicOutput` | 897 thousand |
| `extract` | every name of up to 3 tokens (4 of those device names are made of); every list of 1 or 2 of 9 telling entries, over 6 folders, 4 formats, 3 kinds of damage, Linux and Windows, 1 fault | refusals come first, what is written is held and stays inside, the archive survives, success is all of it | 250 thousand |
| `clients` | 2 clients, 2 jobs, a folder and an archive to pick, 2 faults, delays of 10 up to 25 | jobs are deleted only once held, waits are at most one ceiling late, no exchange is abandoned, no screen is busy for ever | 264 thousand |
| `container` | 4 starts, 2 signals to each, 2 faults, databases of every schema | the container goes once both children were heard, a stop costs a download its tail at most, the stamp is never ahead of the columns, a newer database is left alone | 63 thousand |
| `disk`, `clock`, `torn`, `half`, `upgrade` | 1 job or run, or 2 starts | counterexamples to what the documentation says, see section 5 | small |

What would break each property (each has a mutant in `PROJECT.json` that does):

Server:

- `UnfinishedKeepsItsInput`: input saved after the row, or a sweep that looks at
  age and not at status.
- `NothingUnfinishedIsCondemned`: a `DELETE` that forgets to check, or a status
  that could go back from finished to unfinished between the check and the act.
- `CompletedMeansArchive`: an error of the engine taken for success.
- `DeletedStaysDeleted`: a `touch` or `update_status` that inserts.
- `OnlyAToldDeleteOrphans`: a reaper that forgets the row of files it could not
  remove.
- `RestartReconciles`: a reconcile that fails only the running job, or that
  computes the ids it knows before it drops rows.
- `EveryUnfinishedJobIsOwned`: a row committed whose id is not sent.
- `ImplementsLifecycle`: interrupted jobs put back in line, or a job that comes
  back after it went.
- `AcceptedJobsSettle`: an error path of the worker that records nothing.
- `FinishedJobsAreCollected`: a sweep that overlooks failed jobs, or stops for
  good at one bad row.

Compression:

- `OutputIsWhole`: a serial number that is not counted up, so that two runs of one
  process truncate each other.
- `PublishedIsWhatWasAsked`: a verification that only parses, so that a file that
  went between the two walks, or an entry that was lost, passes.
- `TempsAreNotLeaked`: a failed run that leaves its temporary.
- `SourceSurvives`: sources and outputs compared by their resolved paths and not
  by identity, so that a hard link to the source is overwritten.
- `ImplementsAtomicOutput`: a failed run that removes what is at the output.

Extraction:

- `RefusalLeavesNoTrace`: a listing that cannot be read is left to the backend.
- `WhatIsWrittenIsHeld`: the other separator of the host taken for an ordinary
  character by the rules.
- `ArchiveSurvives`: an entry compared with the archive by its spelling on a host
  that folds case.
- `FilesStayInside`: a backend that does not look where its folders are, or a tar
  that follows a link at an entry's own path as zip and 7z do.
- `SuccessIsTheArchive`: an absolute name written as if it were relative.

Clients and container:

- `DeletedOnlyOnceHeld`: a client that cleans up after a download that broke off.
- `LatenessIsBounded`: a delay without a ceiling, or one looked at before doubling.
- `BusyEnds`: a wait that goes on at a status it does not know.
- `NoExchangeIsAbandoned`: a start that ignores the exchange under way.
- `ExtractionKeepsItsArchive`: an extraction that reads the selection again after
  the dialog.
- `StampedIsComplete`: one migration step per opening, as `else if` would have it. It
  excepts an older build's table without a version (`OldTable`, section 5).
- `FutureIsUntouched`: an opening that does not look at the version first.
- `OnlyTheTailIsLost`: nginx told to stop the way the API is (`TERM` drops what
  it is proxying), or a first `wait` whose status is not taken, which ends the
  script under `set -e`.
- `StopsOnceHeard`: a script that waits for the API only. It says what `StopsAsAUnit`
  does except where both children were told and nginx did not hear (`Unheard`); the
  run `half` is that case.

**Bounds.** Server: two jobs are the least at which one waits behind another in
the channel, a sweep goes on to a second job while the first is fresh, and one
removal fails while another succeeds. Two requests are the least at which a
download races a `DELETE`, or two `DELETE`s race, with the reaper as a third
party. Two faults give a crash in the recovery from a crash, and a refused
removal followed by a lost row. The liveness runs take one request, since
requests only take work away.

Compression: two runs are what can collide, in one process (one id, two serial
numbers) or in two, one of which may be dead and its id given again. Two members
let the walk find one that the backend no longer does, and the source be a file
other than the one the output is a link to. The four requests are a forced
compression of the folder to tar, a careful one to 7z, a file over another one of
the folder, which is the one `Dest` may be a link to, and a remote one to zip;
`front`, `verify` and `force` occur with both values. `MCInit` leaves out some initial states in
which a member is not there yet: members come later in every behaviour that
matters, and one change of the folder is enough for either walk to miss it.

Extraction: four tokens are the longest a rule looks at (a device, its digit, a
space, a dot), and a third token puts a separator between any two. Two entries
are the least at which one is in the way of the other, or is written before the
other fails; or of which both have one name on a host that folds case (`Folded`), or
are links to one file or to two (`LinkedTwice`). A tar whose names start at the root is left out over a folder that
holds the archive (`Rootless`): section 5 says what happens then.

Clients: one job per client, and both jobs for one client that tries twice.
Delays of 10, 20, 25 pass the ceiling in one doubling; being late is counted up to
twice the ceiling (`LateCap`), which is past what is claimed. Container: two faults
give a death during the stop that another death began; four starts open a
database a newer build left after this one had migrated it.

The faults are spent in any order and at any point. Every counter is bounded by a
constant (`MaxFaults`, `MaxChanges`, `MaxStarts`, `MaxSignals`); jobs, requests and
runs are used once; so every state space is finite without further constraints.
Symmetry is used in the safety runs only (jobs and requests; runs, processes and
their ids). Deadlock is checked for `JobServer`, whose reaper can always sweep. The
others stop where the program does: a run, an extraction or a container that has
ended, a client with no job left to post.

**Fairness.** `JobServer`: weak fairness of the worker, the reaper, startup, each
handler that has begun and the passing of time: the runtime polls every ready
task, a supervisor starts the process again, and clocks go on. Weak fairness is
enough because no other step disables one of these for good. Nothing is assumed of
clients (a request need not be sent) nor of faults (none need happen; only a
bounded number do). `AcceptedJobsSettle` is stated for runs in which no registry
write is lost, because `set_status` logs a failed write and goes on: with the
fault, a row says `compressing` until the next restart, and none is owed.

`Screens`: promises and threads run on (`ClientSteps`, the ends of an exchange), the
server answers or the call times out (`Serves`; both clients have a read timeout or
a connection that breaks), and each job settles, which is `AcceptedJobsSettle`. A
person owes nothing; dialogs may stay open. `Container`: the shell, the API and
nginx run on, and the API's deadline comes. That a download ends, that docker
signals or kills, or that it starts the container again, is not assumed. That nginx
runs on is `NginxSteps`: it either passes on what it has or gives up a client that
does not read, after its `send_timeout`.

---

## 4. What is proved

For any values of the constants that satisfy the named assumptions of each module
(any sets of jobs, requests, runs, processes, names and archives; any fault kinds
and any bounds on their number):

| Theorem | Module | Property |
| --- | --- | --- |
| `TypeCorrect` | `JobServerProofs` | `TypeOK` |
| `InvariantHolds` | `JobServerSafety` | `IInv` |
| `InputsAreKept` | `JobServerSafety` | `UnfinishedKeepsItsInput` |
| `OnlyFinishedJobsAreRemoved` | `JobServerSafety` | `NothingUnfinishedIsCondemned` |
| `CompletedJobsCanBeDownloaded` | `JobServerSafety` | `CompletedMeansArchive` |
| `DeletesAreFinal` | `JobServerSafety` | `DeletedStaysDeleted` |
| `SweepsOrphanNothing` | `JobServerSafety` | `OnlyAToldDeleteOrphans` |
| `RestartsReconcile` | `JobServerSafety` | `RestartReconciles` |
| `ServerImplementsLifecycle` | `JobServerRefinement` | `ImplementsLifecycle` |
| `NothingIsStranded` | `JobServerRefinement` | `EveryUnfinishedJobIsOwned` |
| `TypeCorrect` | `StagedOutputProofs` | `TypeOK` |
| `TempsHaveOwners` | `StagedOutputProofs` | `TempsAreNotLeaked` |
| `NamesLeadToWholeFiles` | `StagedOutputProofs` | `OutputIsWhole` |
| `PublishedAsAsked` | `StagedOutputProofs` | `PublishedIsWhatWasAsked` |
| `SourcesSurvive` | `StagedOutputSources` | `SourceSurvives` |
| `RunsAreAtomic` | `StagedOutputSources` | `ImplementsAtomicOutput` |
| `TypeCorrect` | `ExtractionProofs` | `TypeOK` |
| `RefusalsLeaveNoTrace` | `ExtractionProofs` | `RefusalLeavesNoTrace` |
| `WrittenNamesAreHeld` | `ExtractionProofs` | `WhatIsWrittenIsHeld` |
| `FilesAreKeptInside` | `ExtractionProofs` | `FilesStayInside` |
| `ArchivesSurvive` | `ExtractionProofs` | `ArchiveSurvives`, where no tar entry has a root |
| `SuccessIsWhole` | `ExtractionProofs` | `SuccessIsTheArchive` |
| `TypeCorrect` | `ScreensProofs` | `TypeOK` |
| `JobsAreDeletedOnceHeld` | `ScreensProofs` | `DeletedOnlyOnceHeld` |
| `WaitsEndInTime` | `ScreensProofs` | `LatenessIsBounded` |
| `ExtractionsKeepTheirArchive` | `ScreensProofs` | `ExtractionKeepsItsArchive` |
| `ExchangesAreNotAbandoned` | `ScreensProofs` | `NoExchangeIsAbandoned` |
| `TypeCorrect` | `ContainerProofs` | `TypeOK` |
| `StampsAreComplete` | `ContainerProofs` | `StampedIsComplete` |
| `NewerDatabasesAreLeftAlone` | `ContainerProofs` | `FutureIsUntouched` |
| `StopsCostTheTailAtMost` | `ContainerProofs` | `OnlyTheTailIsLost` |

### `JobServer`

None of its properties is inductive by itself. `IInv` adds what each actor
relies on:

- `UnacceptedIsUnknown`: until an upload is accepted nobody else knows its id.
  This is why `save_input` may write without a lock, and why a swept or deleted
  id is never one being saved.
- `RemoversAreAdmitted`: whoever removes or forgets passed its check for that
  very job. With `NothingUnfinishedIsCondemned` this says the check is still good
  when it is used: a finished status never goes back.
- `QueueIsExclusive` and `WorkerOwnsItsJob`: an id is in the channel at most
  once, not also in the worker's hands, and its row is unfinished until the
  worker itself says otherwise. This is what keeps `update_status` from ever
  meeting a removed row, and a finished job from being compressed again.
- `QuietUnlessServing`: only reconcile runs before serving, so that its passes
  may read and act without a lock.
- `PassesAdvance`: what each pass of reconcile has established when the next one
  starts. It also has to say that what a pass has still to look at has a row:
  without that conjunct the first pass could count an id without a row as known.
- `RemovedIsGone` and `DeletesWereAccepted`: what a removal that succeeded leaves
  for the `forget` that follows, and that only accepted jobs are deleted.

TLC checks `IInv` on the instance of the safety run too. The proof has one lemma
per group of actions (`UploadsKeep`, `WorkKeeps`, `RequestsKeep`, `ArrivalsKeep`,
`SweepsKeep`, `StartupKeeps`, `EnvironmentKeeps`, `CrashKeeps`) and in it one step
per action; `InvariantInductive` puts them together. Three lemmas about `Range` of
a sequence stand for what the channel does.

`JobServerRefinement` maps each step to one of `JobLifecycle` or to a stutter, again
a lemma per group. It needs one fact besides `IInv`: what reconcile has still to
fail is unfinished (`OnlyInterruptedFail`), or a completed job could be seen to
fail. `NothingIsStranded` needs that rows stay readable where no other build writes
them (`RowsCanBeRead`): an unreadable row is dropped from the channel unhandled.

### `StagedOutput`

Three invariants, each on top of the one before. `NamesInv` is about staged names:

- `PidsAreApart`: no two living processes have one id.
- `SerialsAreGiven`: a process has given out at most as many serial numbers as
  there are runs with a staged name, so they never run out.
- `RunsAreHosted`: a run under way is in a living process, and its staged name
  carries the id of that process and a number the process will not give again.
- `StagedApart`: two runs under way never stage under one name. It follows from
  the three above, and is what the serial number and the id are both for.

`BytesInv` is about files:

- `Fresh`, `OpenedLate`: until a run opens a file nothing leads to the one it makes.
- `TempsApart`: a temporary leads to a file no place and no other temporary leads
  to. A staged name a killed run left is reused with its file, which stays apart.
- `LocalsHold`, `RemotesApart`: what a local run writes is at its staged name, by
  it alone; a remote run writes to nothing that is staged.
- `VerifiedIsPromised`, `PlacesAreSound`: what verification established still holds
  at the rename, and every file a name leads to is the user's, a remote run's, or
  one that was published as promised.

`StepsName` and `StepsByte` first reduce the steps to the few shapes that matter to
each invariant; then one lemma per conjunct.

`StagedOutputSources` puts `SourcesInv` on top of both. The guards of a run look once,
and the write comes later, so the fact they establish has to be one that everything
in between preserves. `Clear` is that fact: no name the run read from leads to the
file, and none that is gone may come back to it.

- `OutputsAreNoSources`: from its guards on, a run's output is not one of the names it
  saw of its source.
- `TargetsAreClear`, `OpenedIsClear`: what a remote result is going to be written
  over, and then what it is being written over, is clear.
- `WrittenIsClear`: so is every file that carries a run's bytes.
- `MembersAreTheirOwn`: a name in the folder leads to its own file, to none, or to an
  archive; it never comes to lead to another member's file.

`AdmittedApart` derives this from `Refused`, and `SourcesKeep` preserves it. The case
that needs the most care is the rename of another run over the symbolic link a remote
run was going to write through: from then on the output leads elsewhere.

`RunsAreAtomic` maps each step to one of `AtomicOutput` or to a stutter; `StepsAreQuiet`
again leaves few steps to look at. Its state function is what `Dest` leads to, whole
or torn, so the steps that matter are the rename (`Commit`) and the two halves of a
remote write (`Truncate`, `Fill`): each is at `Dest`, or reaches what `Dest` is a link
to, or leaves both as they are. The one new invariant is `LinkLeads`: what a link
leads to is replaced and never taken away, or a file that comes back under that name
would change the output with no run to account for it.

### `Extraction`

What a name becomes is computed by a fold over its tokens (`Split`), and a run reads
archives of any length, so these proofs need induction. The library's induction
theorems take a predicate as a parameter; `Least`, `Induction` and `BoundedInduction`
state it for a set of numbers instead, which is a value, and `RecursionExists` does
the same for a function defined by recursion on a length. On these rest:

- `TypeCorrect`, from `SplitSpells`: splitting loses the separators and nothing else, and
  its parts are made of the name's own tokens.
- `RefusalsLeaveNoTrace`: the command line's report and the core's check find a fault
  in the same listings (`ReportedIsUnwritable`), and nothing is written before either.
- `WrittenNamesAreHeld`: the rules judge the parts between slashes, and the path is
  made of what the host takes for parts. `SplitsAlike` makes these the same
  for a name at no fault, `NoProblemIsHeld` says that a part no rule finds fault with
  is one the host keeps (`DeviceIsReserved`: the rules see a device whatever extension,
  dots and spaces follow it), and `FoldingIsHeld` that it is so in whatever case it is
  looked up.
- `FilesAreKeptInside`: files are written only after a look at where their folders lead,
  so none is made beyond a linked folder. For the files elsewhere it needs that no step
  makes a link (`LinksAreOld`) and that a step writes elsewhere only through a link of
  the name of the entry in hand (`StepsFollowed`, `PlacedIsWritten`): the exception
  the property makes is then the only one there is.
- `ArchivesSurvive` needs `ArchiveIsSpared`: after the guards no listed entry leads to
  the archive, by the name they judged and in the folder as it was. `JudgedAsWritten`
  says that the backend writes by the same name, unless a tar entry has a root, which
  the guard takes for no path and the tar crate drops (section 5). `NoRootInTar`
  leaves out that case and no other; a zip or 7z may have such names.
- `SuccessIsWhole` needs `ReadSoFar`: while nothing has failed, each name read so far
  leads to the bytes of the last entry that leads to the same file, none was passed
  over, and each was reported. Two names lead to one file (`OneFile`) if the host takes
  them for one, or if both are links to it. Then the last entry read is the one that
  is there; `extracted` still counts both. `OneFileStays` says that this does not
  change while entries are read.

`TreeGrows` is what the invariants share: a step adds folders on the way to the entry
in hand, or writes the file of that entry, and does nothing else to the folder.

### The others

- `Screens`: `ExchangeInv` says that a job is made for one client
  (`JobsAreApart`), that a client gets to the `DELETE` with the archive in hand
  (`DeletersHold`), and that one which slept past the end of its job does not go
  back to sleep (`LateOnce`). Every step of a screen is one of the exchange or
  leaves it alone (`StepsExchange`), so it holds there; `ScreensAgree` ties the busy
  flags to it.
- `Container`: `RegistryInv` says of every version what columns are there
  (`Stamped`) and of every migration that what is missing is still planned, the
  stamp last (`Planned`), but for an `OldTable`. `ProcessInv` says that a download has
  alive whichever process has something of it to pass on (`FlowsThroughBoth`) and that
  a signal which finds the script already stopping is either excused or follows the
  end of a child and of what it had of the download (`LateSignalsAreExcused`).
  `ShutdownSpares` is the heart of it: told as the script tells them, neither process
  leaves with a part it has not passed on.

### Only model-checked

The four liveness properties, `AcceptedJobsSettle`, `FinishedJobsAreCollected`, `BusyEnds`
and `StopsOnceHeard`: they rest on weak fairness, and the provers reason about neither
`WF_` nor `ENABLED`. Every invariant, action property and refinement that a passing
run checks has a theorem above.

---

## 5. Where code and documentation disagree

Each of these is a run whose counterexample is the disagreement.

- **`disk`** An upload that is cut short (its client leaves, the save fails, the
  row cannot be written) leaves a directory that only the next startup sweeps.
  `docs/server.md` says the disk holds the jobs of the last window plus what is
  running.
- **`clock`** The reaper does not look at `updated_at` again after it read its
  list, so it removes a job that was downloaded meanwhile. `docs/server.md` says
  that downloading restarts the clock.
- **`torn`** With a server, the command line and the desktop write the archive
  straight over the destination (`fs::write`): a full disk or a stop leaves half of
  one where the previous archive was. Their comments say a failed run leaves the
  previous archive exactly as it was.
- **`half`** When the API ends while nginx is still starting (over a registry it
  refuses, say), the script's one `QUIT` is lost on nginx: it comes up, and PID 1 waits
  for it. `entrypoint.sh:2-4` says that if either stops the container stops, and that
  half a server is not left answering. Only a later signal, a kill or nginx's own death
  ends it.
- **`upgrade`** `ALTER TABLE` and the version stamp are statements of their own. A
  stop between them leaves a database that every later startup fails on, with a
  duplicate column.

Smaller ones, or ones the models show without a run of their own:

- `core/src/compression.rs:491` says of an extraction "all of the archive, under its
  own names, or none of it". A full disk, a kill or damaged data half way leaves
  what was written so far (`WriteFails`, `Killed`, `DataIsDamaged`). And on a host
  that folds case two names that differ only in it are both written and both
  reported, and one file is there; nothing looks for that.
- `core/src/compression.rs:132-138` names a symbolic link that was in the output folder
  already as what `ensure_inside` is for, and `docs/threat_model.md:12` and `:73-84` say
  that an extraction writes nothing outside the folder it was given. The check is of
  an entry's parent. If the entry's own name is a link to a file, zip and 7z write the
  file it leads to and report success (`zip.rs:182-188`, `sevenz.rs:298-311`; `Follows`);
  tar replaces the link. `FilesStayInside` has this as its only exception. Two such
  links to one file leave one entry's bytes under both names.
- `DELETE /jobs/{id}` parses the row before anything else (`routes.rs:198`), so a row
  this build cannot read answers 500 and stays (`RequestCannotRead`).
  `docs/registry.md:128-129` says nothing that deletes a job reads it first.
- `docs/registry.md:80-83` says that an older database gains what it is missing. A build
  stopped between its first `CREATE TABLE` and its stamp leaves a table with version 0;
  `CREATE TABLE IF NOT EXISTS` (`registry.rs:284-302`) leaves that as it is and the
  stamp follows (`:326`), so its missing columns never come (`OldTable`).
- `docs/server.md:567` says compression in progress is not waited for. `main` does not
  wait, but the runtime it returns from does (`Left`), and without the deadline of the
  drain; docker's kill is what bounds it.
- The check that no entry leads to the archive uses `sanitize_entry_path`, and skips
  a rooted name because "the backend rejects it" (`core/src/compression.rs:595`).
  The tar crate drops the root instead, so a tar entry named after its own archive
  with a leading slash replaces it.
- The folder may change between the listing and the extraction, which open the
  archive twice; likewise between the check for an existing output and the rename.
- `verify.rs:64` compares names as sets, so an archive that names one entry twice
  passes.
- Web front-end: `start` reads `picked.value` again after the exchange. If the
  selection was cleared meanwhile the comparison of sizes throws, and an archive
  that was downloaded, and its job deleted, is not shown (`WebGets`). A folder that
  is still being read replaces whatever was picked since (`FolderIsRead`).
- Desktop: `compress` reads the source, the format and the server again after the
  save dialog, so what was dropped meanwhile is compressed under the name that was
  chosen for the other (`Compress`); `extract` takes care not to.
- Container: a signal that arrives while PID 1 waits for its children to leave
  interrupts that wait too, and ends the container with its drain, against the
  comment at `entrypoint.sh:53-56` (`Interrupted`; `OnlyTheTailIsLost` excuses it).
- `queue.rs:43` (the job may have been deleted while queued) and
  `registry.rs:182-184` (the worker updates jobs a `DELETE` may have removed) guard
  against what `QueueIsExclusive` and `WorkerOwnsItsJob` show cannot happen in one
  process: neither `DELETE` nor the reaper gets at an unfinished job.
- `docs/registry.md` says an unreadable row is still collectable. That is so for
  every column but `status`, on which `expired` selects.
- `registry.rs:330` says timestamps are only compared with other rows; `expired`
  compares them with the clock.
- `docs/server.md:258` and `docs/threat_model.md:379` say only `DELETE` cleans the
  staging area; the reaper does too.
- Comments that are behind the code: `models.rs:156` speaks of an in-memory
  registry; `names.rs:22` names a function that is not there
  (`ExtractOptions::with_replacements`); the desktop's `commands.rs:50-51` says the
  exchange has no read timeout, and the client sets one; `cli/src/lib.rs:404` says
  the core skips its own planning pass on a listing that cannot be read, and the
  core refuses the archive.

---

## 6. What is left

Not modelled, and why:

- Message wording and redaction, parameter validation, log setup, the wire format
  and `openapi.rs`: pure functions on text; no state depends on them.
- The encodings of the three formats, and the bytes of the web front-end's tar
  envelope (`tar.js`): data.
- The desktop's list of servers (`sources.js`) and both reachability probes: settings
  and labels no handler depends on. The landing page has no state.
- The temporary staging directory of a server started without `--storage-dir`.
- The worker task dying or the registry's mutex being poisoned (the engine runs
  under `spawn_blocking`, whose panics are `WorkerGivesUp`); two processes on one
  storage directory.
- A power loss under `synchronous=NORMAL`, which may roll back the last
  transactions while the files stay. Reconcile handles the rows and files this
  leaves like those of any crash; a row that returns to a status it had left would
  need a history of the registry in `JobServer`.
- The unbounded channel and the number of staged uploads, which the documentation
  names as limits.

Next, in this order:

1. The power loss: `row` with the last committed and the last durable value, and a
   `Crash` that falls back. `DeletedStaysDeleted` and `ImplementsLifecycle` are then
   to be stated up to the last checkpoint.
2. `JobServer` and `Screens` composed without `JobLifecycle` in between: implied by
   `ServerImplementsLifecycle`, but the faults of the two would then meet.
