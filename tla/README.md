# Nova Server Manager: a TLA+ model of the panel

The panel (`app/`, FastAPI over SQLite, one uvicorn process under systemd)
deploys apps as Docker containers, stores their sources, backs them up on a
schedule, publishes them through Nginx and opens databases to chosen networks.
A single page (`frontend/`, React) operates it. This directory models what
happens when threads, background tasks, commits, files and commands interleave,
fail, or are cut off by a restart; and, in the page, when answers are late, lost
or out of order, while the user has gone somewhere else.

## Inventory

| Part | State | Operations | Interacts with |
| --- | --- | --- | --- |
| Apps and deployments (`routers/apps.py`, `services/docker_service.py`) | `apps.status`, `deployments`, containers | create, deploy (background task), list/get (poll), start/stop/restart, delete | sources, firewall, proxy, restore |
| Startup (`main.py`, `deployment_state_service.py`) | the rows left open | reconcile, sync firewalls, start scheduler | all tables |
| Sources (`upload_source`, `file_service.py`, `routers/files.py`, `restore_backup`) | source directory, staging/old directories, `upload_records`, temporary files | ZIP upload, file-manager upload and edit, restore swap | deployments, backups |
| Backups (`backup_service.py`, `routers/backups.py`) | `backups`, archives on disk | create, delete, download, restore, retention | sources, schedules, Telegram |
| Schedules (`scheduler_service.py`, `routers/backups.py`, `BackupsView`) | `backup_schedules`, APScheduler jobs, the list on the page | create, update, delete, scheduled run, start-up | backups, delete of an app |
| Page of an app (`app-detail-view.tsx`) | app and deployments shown, tab, interval, busy flags, forms | load and polling, every operation of the tabs | the routers above, the route |
| File manager (`SourceTab`) | path, listing, selection, history | list, navigate, create, upload, rename, move, copy, delete, compress, extract | `routers/files.py` |
| Upload and create dialogs (`UploadModal`, `CreateAppModal`, `uploadSource`) | file, progress, error, result, the app made | create an app, send a source, retry, close | `POST /api/apps`, `upload_source` |
| Home page (`app/page.tsx`, `auth-view.tsx`, `routers/auth.py`) | session cookie, user, the form, what all views show | boot, set up, login, logout, refresh, timer | all views |
| Domains (`proxy_service.py`, `set_domain`, `delete_domain`) | `domain`, `domains_json`, Nginx files, certificates | configure, remove | delete of an app |
| Database access (`database_access_service.py`, `database_access`, `database_admin`) | `database_public`, firewall rules, admin sidecar | publish, restrict, clear, sync at startup | deployments |
| Updater (`update.sh`, `scripts/terminal-ui.sh`) | installed tree, database snapshot, service | snapshot, sync, validate, migrate, restart, roll back | the whole panel |
| Pure helpers (`normalize_cidrs`, `validate_source`, `_size_to_bytes`, path resolution) | none | conversions and checks | their callers |
| Settings, system pages, the other views | settings rows | read, write, render | - |

What is hard here: synchronous handlers run in a thread pool, so any two of
them interleave at every statement; a session keeps what it read until its next
commit; background tasks outlive their request; commands last up to half an
hour; nothing but the SQLite file survives a crash, and containers do. In the
page, an `async` handler keeps across its awaits the values of the render it was
made in, and nothing cancels it when its component is left: its answer still
sets state, of a component that may by then show something else.

Every component, modelled or not, is listed with its sources in
`PROJECT.json`; so is every place where this code is hard to test
("hazards"), with the properties that cover it.

## Modules

| Module | Models | Used by |
| --- | --- | --- |
| `DeploymentHistory` | what the history page promises of a deployment row | `Deployments` (`History!Spec`) |
| `Deployments` | `routers/apps.py`, `docker_service.deploy`, restore's redeployment, start-up reconciliation | `MCDeployments`, `DeploymentsProofs` |
| `SourceStore` | what replacing a source promises: one version in place, changed in one step | `Sources` (`Store!Spec`) |
| `Sources` | the source directory: ZIP upload, restore swap, online save, what a deployment writes there, archiving | `MCSources`, `SourcesProofs` |
| `Backups` | backup rows and archives: create, retention, scheduled run, delete | `MCBackups`, `BackupsProofs` |
| `Schedules` | schedule rows, the scheduler's jobs, the requests that change both, the page's list | `MCSchedules`, `SchedulesProofs` |
| `AppDetail` | the page of an app, with the server's side of its requests | `MCAppDetail`, `AppDetailProofs` |
| `FileManager` | the file manager of that page, with the tree it works on | `MCFileManager`, `FileManagerProofs` |
| `Uploads` | both dialogs that send a source, `uploadSource()` and its answers | `MCUploads`, `UploadsProofs` |
| `Panel` | the start of the page, forms, session, refreshes | `MCPanel`, `PanelProofs` |
| `MC*` | model values, symmetry sets and small functions for the configurations | TLC |
| `*Proofs` | theorems and their proofs | TLAPS |

The page's modules hold the server's side of a request as far as the page can
tell: a request is accepted or refused at one moment between question and
answer. What the server does inside that moment is the subject of the first
modules.

### Deployments

A *request* is a thread of the pool with its SQLAlchemy session; a background
task continues its request. `at[p]` is where it is, `sess[p]` what its session
and its locals hold: the app (`on`), the row (`row`), the status the session
last read (`seen`), the status it will write (`want`), the rows a cascade
loaded (`kids`). `status` and `dep` are the two tables, `container` is Docker's
side, `up` the process.

The session is the point of the model. `seen` is what the ORM compares with at
the next flush: equal means no `UPDATE` at all, different means an `UPDATE` that
fails with `StaleDataError` if the app is gone, and a commit expires the value
(`Expired`), so that the next read is a `SELECT`. This decides who overwrites
whom, and it is why a poll that read "deploying" before a deployment finished
does not write it back.

Each SELECT, commit and command is one action. `DeployCheck`/`DeployCommit` are
the check and the insert of `deploy_app`; `WorkerLoad` ... `Finish` are
`_deploy_background` and `deploy()` in order, with `Report` for the `report`
callback and the exits of each stage (error result, exception, app or row gone);
`Broken` is the `except` branch; `Inspect`/`PollCommit` are both polls;
`ActionExists`/`ActionRun`/`ActionCommit`, `DeleteContainer`/`DeleteCascade`/
`DeleteCommit` and `RestoreCommit`/`RestoreLoad`/`RestoreFiles` are the other
handlers; `Crash` and `Restart` the process, `Restart` with the whole of
`reconcile_interrupted_deployments` in its one transaction.

### Sources

A directory is `Missing` or the set of what it holds: the upload, the restore or
the original its files came from, `Edit` for files written in place, and `Scraps`
for what is left by a removal that raised. That is all the properties
distinguish. The model begins after a first upload: before it `create_app` has left
an empty directory and there is no version to keep. `rename` onto a directory works only if that is missing or empty,
as in POSIX. `Unpack`, `LookForSource`, `SwapOut`, `SwapIn`, `DropOld` are shared
by upload and restore, whose code does the same. `DropOld` is the `rmtree` of the
old source, which is inside the `try`: it may raise after the new source is in
place, and so may the commit that follows it (`UploadCommit`); `placed` records which
processes have got through their last rename. The ends differ: `UploadCommit`,
`UploadTidy`, `UploadJudge`, `UploadDiscard` are the commit and the `finally`
block, `RestoreExcept` the `except` block, `PutBack` the rename that brings the
previous version back.

`upload_source` is a coroutine: it gives the event loop away only between
chunks. `LoopFree` says so, and is the reason why its check for an upload in
progress is not a race. Restores, saves, deployments and backups are threads and
run at any point. A deployment makes the directory (`DeployMkdir`) and, for an app in
`Builds`, writes a Dockerfile and a `.dockerignore` into it (`DeployGenerate`).

The store (`SourceStore`) knows stages instead of steps. A process `Open`s or is
`Refuse`d; it `Place`s its version, in one step, or is `Drop`ped without having
touched what is in place; a version that was placed is `Keep`t, for good, or, when
what follows the last rename raises, `Disown`ed: it stays in place, and may
`Revert`, where another process finds no source and puts back what it had
moved away. The promise ends with `alone`: at the first write in place, crash, or third
process beside a restore.

### Backups

Rows are numbered in the order of creation. A row's archive is a *path*, the path
leads to a *file* on `disk`, and `content` says who wrote to it: an `unlink`
removes the path and leaves the open file to its writer, which is what happens
when a backup is deleted while it is being made. `Insert` ... `Commit` are
`create_backup`, `List`/`Prune`/`Purge` are `enforce_retention` after a scheduled
run's commits, `DeleteLook`/`DeleteUnlink`/`DeleteCommit` are `delete_backup`.

### Schedules

`row` is the table and `job` APScheduler's memory: the interval of each
schedule's job. A request is a thread whose stages are `sent`, `ready` (its
session has read the row), `synced` (the job has been changed) and `done`.
`Flush` gives a created schedule its id; `Get`, `Sync` and `Commit` are the
update and the delete of `routers/backups.py`, in the order of the code: the job
first, then the row. `base` keeps what the session read, because the ORM writes
only the columns that differ from it (`Merged`). `CommitFails` is an exception
after the job was changed; `Crash` loses jobs, runs and requests, `Restart` is
`start_scheduler()`, which synchronises every row. `RunSchedule` reads the row
when the job comes due, as `_run_schedule` does. The page sends the whole row
back as it shows it (`ToggleSchedule`, `SubmitEdited`) and reloads (`Refresh`,
`Answer`, `Deliver`). Two history variables name the cases the properties exclude:
`raced`, when two requests for one schedule met or a commit failed, and
`crossed`, when the last listing met a request.

### AppDetail

`route` is the location's hash; `shown`, `tab`, `timer`, `busy` and `typed` are
the component's state. The component is one instance as long as the hash names
some app (`Switch` changes the app in place), and `Leave`/`Enter` unmount and
mount it. `loads` are the `load()`s that nothing awaits: `Ask`, `Answer` (the
server reads), `Deliver` (the screen is set, whatever the route is by now),
`Reject`; `Tick` is the interval's. `ops` are operations with their own awaited
load: `Start` sends it, `Serve` is the server's moment, then come the ends the
handlers have: `Close`, `Reload` .. `Reloaded`/`ReloadFails`, `EndAndReload`,
`ShowDeployments`, `EndRefresh`, `GoToList`. `inView` and `inTab` say whether the
component, or the tab, that asked is still the one mounted; only then does its
answer set anything. The histories are `switched` (the view has changed apps in
place) and `overtaken` (an older answer came after a newer one).

### FileManager

`path`, `items`, `selected`, `visited` and `index` (`history`, `historyIndex`) are
the component's state, `tree` the entries on the server. `Refresh`,
`NavigatePath` and `Travel` call `load()`; `Deliver` and `Reject` are its two
ends, which set path, listing, selection and, for a visit, history all together. `Begin`
sends an operation as the set of requests the handler makes: one for most, one
per entry for the deletion and the upload. `Serve` does one of them, `Refuse`
ends the loop at one that fails, and `EndAndLoad` lists the directory of the
render that began it. `ChangeElsewhere` is a deployment, another browser or an
upload of a whole source: entries go and come. `SwitchApp` is a change of the app under
the tab, which stays mounted: its effect lists the new app's root, the screen and
what is ticked stay until that comes, and whatever is in flight is `stale`, an
answer of an app of which `tree` says nothing. Histories: `doubt` (the listing may be
older than the last change) and `strayed` (the last visit failed, met another request
or was in another app).

### Uploads

`dialog` is the modal that is open with its `file`, `progress`, `error`,
`result`, `created` and `busy`; the two share variables because only one is open at
a time. `xhrs` are the calls of `uploadSource()` in flight and `posts` those of
`POST /api/apps`; `mine` is false once the dialog that sent one is closed,
`heard` while its answer counts. `Start`, `Retry`, `SelectFirst`, `Finish` send;
`Progress`, `Sent` are the two progress callbacks; `Take` is the server's check
for another upload in progress, `Store` the end of its work, good or bad;
`Success`, `Failure` and `Break` (the connection is cut) are the promise's ends,
and `Forgotten` an answer that comes after that.

### Panel

`boot` walks through the status request and `me`; `submit` is the form's
request; `refreshes` are calls of `refreshBase()` in flight, each with the
version of the data its answer carries. A version stands for all that the four
requests bring. `api()` awaits twice: the browser applies a cookie when the headers of
an answer come (`Entered`, `LogoutEntered`), the page sets or clears its user when the
body has come (`Authenticated`, `LogoutAnswered`), and either may be lost
(`SubmitFails`, `LogoutFails`) or late, with anything else between. Answers come in
any order, not in that of the questions. `Tick` is the
interval, `Change`, `OtherSetsUp` and `Expire` are what others do, `Fault` a
request lost. `strayed` records that another browser set the panel up, that
the session ended elsewhere, or that a request of the start or the form failed;
`crossed`, that the headers of a login came between those and the body of a logout, or
the other way round, or that the body of a logout was lost.

## Runs

| Run | Question | States |
| --- | --- | --- |
| `deployments_all` | two requests of any kind, crashes and restarts: is an open row always owned, is "deploying" always explained, is the table the abstract log? | 943 k |
| `deployments_live` | does every open row close? | 24 k |
| `duplicate_deploy` | can an app have two open deployments? *(yes: finding)* | 55 |
| `sources_all` | two uploads, a save, a deployment, a backup, a crash: is an upload in progress alive, alone, and does it end? | 515 k |
| `sources_swaps` | two uploads and two restores whose second rename, removal or commit may raise: is the source whole, the previous one if nothing was placed, staging removed, and do they implement the store? | 140 k |
| `backups_all` | a manual backup, two schedules' runs, a delete, a crash: are completed backups restorable, does retention keep what it must, has every archive its row? | 1.6 M |
| `backups_oversized` | does a backup that is too large for Telegram stay on the server? *(no: finding)* | 19 |
| `schedules` | two requests, a crash, the app's deletion: does a schedule have a job exactly when its row is enabled, does the job run, does the list follow? | 921 k |
| `app_detail` | two apps, a load and two operations in flight, a lost request: is the screen the route's, are the addresses the app's, does every button come back, is an ended deployment shown so? | 432 k |
| `file_manager` | two listings, or a listing and an operation, in flight, and a change of app: is what is ticked in the listing, does the listing show the effects, does the history follow? | 3.1 M |
| `uploads` | two uploads and a creation in flight, dialogs closed under them: is what the dialog says true, and does it say something in the end? | 282 k |
| `panel` | three refreshes, two logouts, failures: do page and browser agree, does the form fit, does the page converge? | 431 k |

### Bounds

- *Requests, processes.* Two requests per app: every race in these handlers is
  between a reader and a writer or between two writers, and a crash adds the
  third party. A request that ends starts again as any other operation, so
  long sequences are covered; in `Sources` and `Backups` each process runs once.
  The proofs remove the bound for the properties they cover.
- *One app* in `Deployments`, of which no action reads another app's state;
  `list_apps`, which writes several, is modelled one app at a time. *One
  schedule* in `Schedules`, for the same reason; its id is used again once its
  row is deleted, as in SQLite.
- *Two rows* (`RowBudget`): one left from an earlier deployment and one in
  progress, or two in progress. A row is never reused.
- *`Built = {a1}`.* The pipeline of an app built from source contains every
  stage of an image app's.
- *`MaxCrashes = 1`* in `Sources`, `Backups` and `Schedules`: a second crash finds
  the state a first one leaves. `Deployments` has no such bound, and neither
  have the theorems.
- *`MaxRows = 3`, retentions 1 and 2.* The smallest table in which one run's
  retention removes what the other's keeps, and a run removes two rows.
- *In flight, on the page.* Two answers of a kind are enough for one to overtake
  the other: `MaxOps = 2` with a load in `AppDetail` (three answers, as each
  operation awaits a load), `MaxFlying = 2` in `FileManager`, `MaxXhrs = 2`,
  `MaxRefreshes = 3` with two logouts in `Panel`.
- *`MaxMixed = 0`* in `AppDetail`: the page changes apps in place only with no
  operation under way, and then has loads, tabs and forms but no operations until
  it is left. With larger values the answers of one app's operations meet the
  other's page: the theorems hold for those too, the run leaves them out for its
  size. *`Kinds`* has one operation of each form of ending; *`Tabs`* one
  that owns a flag and one that does not. *`MaxDeploys = 1`* per app, from
  accepted to ended.
- *Tree* of `FileManager`: a directory with an archive in it and a file beside:
  a move into it, out of it, an extraction over what exists, and a deletion of
  a directory that was visited. *`MaxHistory = 3`* lets "back" be followed by a
  visit that cuts the history off.
- *`MaxVersion = 3`* in `Panel`: one version per refresh and the first.
- *Symmetry* (`Interchangeable`) permutes requests and rows, or uploads and
  restores, none of which an action names. It is not used with liveness.
- The other bounds are named in the configurations: `Ops`, `RenameMayFail`,
  `SameSecond`, `MaxFailures`, `MaxFaults`.

Deadlock is checked except in `Sources` and `Backups`: there each process runs
once, so the model may stop.

### Fairness

All of it is weak fairness of code that runs by itself; none of the user, of
crashes, of changes elsewhere, or of one outcome of a command over another.

- `RowsClose`, `UploadsEnd`: each request's next step and `Restart`. Every
  `subprocess` call has a timeout and both outcomes are modelled, the thread
  pool and the event loop run what is runnable, an upload's chunks come from
  the spooled body and not from the client, and `nova-server-manager.service`
  has `Restart=always`.
- `EnabledRuns`: `Restart`, the handling of a schedule's requests, and the job
  coming due or its run ending. The length of an interval is left open.
- `EndIsShown`, `DeployIsShown`: a request in flight is answered or fails,
  the end of a deployment (`RowsClose` shows it), and the interval.
- `OutcomeShown`: an XHR ends in `load`, `error` or `abort`.
- `Converges`: the interval, and the oldest refresh being answered or failing.
  It assumes that the session and the user stay; failures are bounded, as no
  page converges on a network that never answers.

### Findings

*Two open deployments of one app* (`duplicate_deploy`): check and insert are
two transactions with no constraint between, where the README says that
duplicate concurrent deployments are prevented.

*An oversized backup is removed* (`backups_oversized`): the error path of
`create_backup` unlinks the archive whatever the error, where the README says that a
backup too large for Telegram stays on the server with an error status. `PROJECT.json`
quotes both.

### Known limits, shown by hand

Four more configurations state what a reader may expect and the code does not
do. Each ends in a counterexample, and each is a hazard in `PROJECT.json`:

| Configuration | Property | What happens |
| --- | --- | --- |
| `Deployments_orphan.cfg` | `NoContainerAfterDelete` | deletion removes the container first, and a deployment under way may start it after that |
| `Sources_previous.cfg` | `PreviousKept` | the removal of the old source, or the commit after it, raises: the upload is recorded as failed with its files in place and the previous version gone, where the README (line 38) says that a replacement that fails keeps the previous version |
| `Sources_archive.cfg` | `ArchiveWhole` | a completed backup has no source in it, or two |
| `Backups_interrupted.cfg` | `CreatingOwned` | nothing at start-up looks at backups left in "creating" |

Some properties carry an exception that is itself real behaviour:

- what `Undisturbed` keeps out of `SourceWhole` and `UnplacedKept`: a crash between
  the two renames leaves no source; a save or a generated file between them makes the
  second rename fail and is then taken for the source; so is the empty directory of a
  deployment's mkdir, if a second rename onto it raises for another reason;
- with a third swap beside a restore a put-back may bring back an older version than
  the latest success's: the store promises nothing then (`FewSwaps`);
- an upload cut off by a crash after its second rename is recorded as failed at
  the restart, with its files in place;
- two backups of an app begun in one second share one archive, so that a failure or
  a retention of one takes the other's (`CompletedRestorable` and `RetentionKeeps` with
  `SameSecond = TRUE` in `Backups_all.cfg`; `ArchivesOwned` still holds);
- two requests for one schedule that meet may leave job and row apart until the
  next start or the next request that is alone (`raced`), and a toggle sends
  back the whole row of a page that may be stale;
- a page changed from one app to another in place shows the app it left until
  its next load (`switched`);
- a visit that meets another request may leave `historyIndex` beyond the history
  (`strayed`), and after a failed operation the listing is stale (`doubt`);
- an upload whose answer is lost reads as a failure although the server may
  have stored it (`unheard`);
- a login and a logout of which one's headers come within the other's answer, or a
  logout whose body is lost, leave page and browser apart until the page is opened
  again (`crossed`);
- until the listing of another app comes, the names ticked in the first act on the
  second, as the source has it; no document says otherwise;
- a refresh answered after a logout fills the page again, and the next user
  sees it until the first refresh of his own.

## Proofs

TLAPS proves these for every value of the constants: any number of apps,
requests, rows, uploads, restores, crashes, answers in flight and failures.

| Theorem | Module | States |
| --- | --- | --- |
| `TypeCorrect` | `DeploymentsProofs` | `[]TypeOK` |
| `OpenRowsAreOwned` | `DeploymentsProofs` | `[]ActiveRowOwned` |
| `DeployingIsExplained` | `DeploymentsProofs` | `[]DeployingExplained` |
| `HistoryIsRefined` | `DeploymentsProofs` | `Deployments` implements `DeploymentHistory` |
| `OutcomesAreFinal` | `DeploymentsProofs` | no step changes a closed row but to delete it (an action property, stated by no run) |
| `ProgressOnlyAdvances` | `DeploymentsProofs` | a running row's stage never goes back (the same) |
| `TypeCorrect` | `SourcesProofs` | `[]TypeOK` |
| `UploadsAreAlone` | `SourcesProofs` | `[]OneLiveUpload` |
| `NoStagingIsLeft` | `SourcesProofs` | `[]StagingRemoved` |
| `SwapsKeepTheSourceWhole` | `SourcesProofs` | `[]SourceWhole` |
| `UnplacedSwapsKeepThePrevious` | `SourcesProofs` | `[]UnplacedKept` |
| `CrashesLoseNoSource` | `SourcesProofs` | `[](Unwritten => VersionOnDisk)`, crashes included (stated by no run) |
| `SwapsImplementTheStore` | `SourcesProofs` | `Sources` implements `SourceStore` |
| `OneVersionInPlace` | `SourcesProofs` | what is in place is one whole version at every moment (the same, stated by no run) |
| `DroppedAreNeverInPlace` | `SourcesProofs` | what has not been placed is not in place, nor ever if its upload or restore fails before that (the same, stated by no run) |
| `KeptAreNeverUndone` | `SourcesProofs` | a version whose upload or restore succeeded goes only for another that is placed (the same, stated by no run) |
| `TypeCorrect` | `BackupsProofs` | `[]TypeOK` |
| `CompletedAreRestorable` | `BackupsProofs` | `[]CompletedRestorable`, distinct seconds |
| `RetentionKeepsEnough` | `BackupsProofs` | `[]RetentionKeeps`, distinct seconds |
| `ArchivesAreOwned` | `BackupsProofs` | `[]ArchivesOwned`, shared seconds included |
| `TypeCorrect` | `SchedulesProofs` | `[]TypeOK` |
| `JobsAreRows` | `SchedulesProofs` | `[]JobsFollowRows` |
| `ListIsRows` | `SchedulesProofs` | `[]ListFollows` |
| `TypeCorrect` | `AppDetailProofs` | `[]TypeOK` |
| `IntervalFollows` | `AppDetailProofs` | `[]IntervalOwned` (stated by no run) |
| `ScreenFollowsRoute` | `AppDetailProofs` | `[]ShownIsRouted` |
| `AddressesStay` | `AppDetailProofs` | `[]AddressesOfShown` |
| `FlagsAreExplained` | `AppDetailProofs` | `[]BusyExplained` |
| `TypeCorrect` | `FileManagerProofs` | `[]TypeOK` |
| `SelectionIsListed` | `FileManagerProofs` | `[]SelectedListed` |
| `TreeIsClosed` | `FileManagerProofs` | `[](tree \in Trees)` (stated by no run) |
| `HistoryIsFollowed` | `FileManagerProofs` | `[]HistoryFollows` |
| `EffectsAreListed` | `FileManagerProofs` | `[]EffectsListed` |
| `TypeCorrect` | `UploadsProofs` | `[]TypeOK` |
| `SendingIsReal` | `UploadsProofs` | `[]UploadingIsReal` |
| `ButtonsComeBack` | `UploadsProofs` | `[]BusyExplained` |
| `OutcomeIsTrue` | `UploadsProofs` | `[]OutcomeTruthful` |
| `TypeCorrect` | `PanelProofs` | `[]TypeOK` |
| `PageAndBrowserAgree` | `PanelProofs` | `[]SessionsAgree` |
| `FormIsRight` | `PanelProofs` | `[]FormFits` |
| `ShownIsWhole` | `PanelProofs` | `[]NothingHalfShown` |

The assumptions are those of the modules: distinct model values, `Ops` a set of
operations, natural bounds. Two theorems assume more, because TLC refutes them
without it:

- `CompletedAreRestorable` and `RetentionKeepsEnough` assume `OwnSeconds`, that
  `SameSecond` is false; `ArchivesAreOwned` needs no such thing.

Those about the source assume nothing; the conditions under which the code keeps its
promise are in the properties, as states: `Unwritten` (no save or generated file, and
no mkdir, yet, if a second rename may raise on a free place), `crashes = 0`, and for the
store `FewSwaps`, uploads alone, in any number, or two processes of which some are restores.
Uploads are kept apart by the event loop and by their records; restores by nothing,
and a third process can move away what one of two has just placed while the other
still holds the version before.

*Deployments.* Neither property is inductive. `IInv` adds that a request's place
says what it holds (`Placed`), that a worker's row belongs to its app and is
open or deleted (`WorkerRow`), that no two workers share a row (`OneWorker`),
that rows are deleted only with their app (`DeletedWithApp`), and the heart of
it, `WorkerExplains`: when the app says "deploying", some worker's last commit
*will* write the status, because its session remembers nothing or remembers
"deploying". Without the last clause the ORM could compare "failed" with a
remembered "failed", emit no `UPDATE`, and leave "deploying" for ever. The proof
has one lemma per kind of step (`QuietMove`, `QuietEnd`, `StatusWrite`,
`RowProgress`, `RowClose`) and one case per action.

*History.* `WorkerEntry` adds what a worker's step says of the stage of its row
(`Entry`); with it each commit maps to `Queue`, `Start`, `Report`, `Finish`,
`Forget` or `Interrupt`, and every other step to a stutter.

From the refinement follow, for the concrete rows, `OutcomesAreFinal` and
`ProgressOnlyAdvances`: each is true of every step of `DeploymentHistory`
(`HistoryRows`), so of every step that maps to one.

*Sources.* `LiveInv` follows a record in processing to a running upload.
`SwapInv` says that every directory holds one version, or what a failed removal has left
of one (`DirsInv`), and that while the source has no files some swapper
`Answers` for it: it is between its renames, or about to put its previous version back;
next to deployments only the first counts, since those that have failed would take
an empty directory for the source (`KeptInv`). `OriginalInv` says that, as long as nothing
was placed, nothing but the original has been in any of these places. A crash ends the
process that answers, and what it holds then stays where it is: that is
`CrashesLoseNoSource`.

*The store.* `InPlace` is the source, or, between two renames, what was set aside by a
process that has placed nothing (`Holds`). The refinement needs that this is the version of
one holder. `HolderInv` says so: there is never more than one; a holder beside a source
with files had its place taken, and then nobody is left who would move that source
away (`Overtaken`); one that gives up leaves a source with files. `RevertInv` is the same
for a process whose removal of the old source raised, and which may yet bring that
back (`MayRevert`): what is in place is then its own version, unless it was overtaken.
`PlaceInv` adds what a place says of the old directory, of the record and of
`placed`; `LoneInv` that uploads alone hold only while they block the event loop;
`OnlyPlaced` that nothing of a process is anywhere but in its staging before its last
rename. `SwapOutStore`, `SwapInStore`, `RemoveOldStore` and `PutBackStore` are the four
ways files move; each other step is `MoveStore`. Then `Mapped` turns the change of a
stage and of what is in place into `Open`, `Refuse`, `Place`, `Keep`, `Drop`, `Disown`,
`Revert` or a stutter. `OneVersionInPlace` and `DroppedAreNeverInPlace` are
invariants of the store (`StoreOne`), carried over by the refinement;
`KeptAreNeverUndone` is true of every step of the store.

*Backups.* `RowInv` gives every row its one creator, and with `OwnSeconds` its own
path, and says that an unfinished row is in creating or deleted. `ArchiveInv`,
under `OwnSeconds`, says who may have
written to the file a path leads to, and that a creator's open file is its own.
`DoomInv` and `KeptInv` follow the rows somebody is about to delete, so that a
completed row has its archive or is `BeingRemoved`. `RetentionInv` is the argument
that two schedules' purges do not add up to a loss: the newest row a purge has
deleted has, in the list that purge read, as many newer completed rows as the
retention asks, and those are kept by it; a row deleted by the other purge has
newer ones in its turn. The newest exists because a set of row numbers has a
greatest element (`Greatest`), and `EnoughStays` compares the cardinalities.
`OwnedInv` is the argument that no archive is left behind although rows may share a
path: what is at a path has a row that `Answers` for it, one that is listed and not yet
passed by any retention that has doomed it. The last clause is needed because a purge
deletes its rows only after all the unlinks; an unlink through another row takes the
archive away and asks for nothing more. It rests on `CreatingInv`: as long as nobody deletes, a purge spares the rows in
creating.

*Schedules.* `JobsInv` says that a schedule that has not `raced` has at most one
request, and at each stage of that request what job and row are to each other:
equal before the job is changed (`Alone`), as the request will write them after
(`InStep`). `JobsFollowRows` is the case without a request. `ListInv` says
that until something has met something else at most one request or listing is in
flight, that the list is the rows unless that request has changed them or that
listing is on its way, and that an answered listing is of the rows as they are.

*AppDetail.* `TypeInv` adds which slots are idle and what an operation awaits;
`OfRoute` that, in a view that has not changed apps, every load it waits for is
for the route. `BusyExplained` is then inductive: a flag is cleared with the tab
that holds it (`Unmount`, `SelectTab`), and no
operation starts under a flag that is set.

*FileManager.* `TypeInv` says that a listing, in flight or shown, is of its
directory's children, and that the tree is one of `Trees`, in which an entry's
parent is there: moves, archives and refusals part of the way keep that.
`HistoryInv` and `EffectInv` say that without `strayed` or `doubt` at most one request
is in flight (`AtMostOne`), and what holds until it is answered: the history it will
leave fits its directory (`VisitedAfter`, `IndexAfter`), what it has found is still
what is there, and it was asked for in the app the page is on.

*Uploads.* `DialogInv` relates `mine` and `heard` to the open dialog (`Owned`,
`Heard`) and `stored` to the answers still to come (`Stored`).

*Panel.* `SessionInv` is what each stage of the start and of the form implies of
the account and the cookie (`Starting`, `Accounted`, `Fitting`), and, between the
headers and the body of an answer, that the cookie is what the body will say
(`Agreeing`).

Only model-checked: liveness (`RowsClose`, `UploadsEnd`, `EnabledRuns`,
`EndIsShown`, `DeployIsShown`, `OutcomeShown`, `Converges`), which this prover
cannot do, bounded as described above. Every invariant and both refinements that
the runs check are stated by a theorem.

## What the models leave out

- Ids of apps, deployments and backups are not used again; SQLite may reuse the
  last one (a hazard in `PROJECT.json`).
- Commits on the local database fail only for a stale row, and for any reason in
  `Schedules` and at the first commit of an upload. In particular the commits of
  `_deploy_background` outside its `try` and the one that records a failed upload
  are taken to succeed; if either raised, its row would stay open until the next
  start.
- `rmtree` inside a `try` may raise and leave a part (`DropOld`); those with
  `ignore_errors`, in the `finally` and `except` blocks, are taken to remove all. A
  `copytree` or an extraction that raises may leave a part in staging, which counts
  as the whole.
- The set-up of an app before its first upload (`Sources`), and an operation's answer
  that is lost after the server has acted (`AppDetail`; in `FileManager` a refusal that
  leaves a part stands for it).
- Every container state other than running is "exited".
- Deleting an app is in `Deployments` and `Schedules`, not under its uploads and
  backups; restoring the database dumps of a backup is left out.
- `Sources` has, of the file manager, the online save; the other operations write as it does
  or delete below the source. `FileManager` has all of them as single steps
  of the server, and leaves out the editor, the download, filter and sort.
- The destination and the retention of a schedule, `next_run` as a time, and a
  run missed while the panel is down.
- Logs, statistics and the texts of the forms of an app's page. A session token
  is signed and the server forgets none; the settings are one row.
- Payloads, paths inside archives, hashes, wording, Telegram's protocol and
  the percentages within a stage.
- *Not modelled*: domains, Nginx and certificates; database access and the admin
  sidecar; the file manager's `.uploading` file; the updater: all in the plan.
  Listings, migrations, `install.sh` and the remaining views are single reads
  and writes, or rendering. The pure helpers are sequential conversions.

## Plan

Done: `Deployments` and its history, `Sources` and its store, `Backups`,
`Schedules`, and the page: `AppDetail`, `FileManager`, `Uploads`, `Panel`; proofs
of all their safety properties. Next, in this order:

1. `Domains`: the check that a domain is free against the commit of the list,
   the files, `nginx -t` and reload, certificates one after the other.
2. `DatabaseAccess`: the firewall chain and the admin sidecar against the row;
   the old deployment put back when the new one fails.
3. `Updater`: snapshot, sync, validate, migrate, restart and roll back, cut off
   at any step.
4. `FileUploads`: the `.uploading` file and its exclusive open.
5. Operators for `normalize_cidrs`, `_size_to_bytes` and `validate_source`
   against a reference definition over small inputs.
6. Composition: an app deleted under its backups and uploads, ids and names used
   again.
7. Theorems: the store with crashes, which drop several swaps at once; then the
   invariants of the modules above.
