# Verification of achord-review

TLA+ models of the parts of achord-review (a PR-Agent derivative) whose
correctness depends on the order in which processes, threads, callbacks and
remote calls happen, the TLC runs that check them on small instances, and TLAPS
proofs for every instance. Paths below are relative to `src/pr_agent/` unless
they start with `src/` or name a `.tla` file.

    tlc -workers 2 -config ReviewPublish_overlap.cfg MCReviewPublish   # one run
    tlapm ReviewPublish_proofs.tla                                     # one proof module

`PROJECT.json` holds the runs, the map from definitions to source lines, the
hazards, the findings, the theorems, and for every checked property a mutant:
a plausible bug in a mapped definition that makes the property fail.

## 1. Inventory

The program reviews pull requests with a language model. Gunicorn runs several
worker processes; each has an event loop with webhook handlers as tasks, a
thread pool for publishing and a pool of its own for audit writes. The workers
share a SQLite file, a configuration file, a directory of lock files, and
GitHub. Nothing else is shared.

| component | state it keeps | operations | talks to |
|---|---|---|---|
| webhook routing, `servers/github_app.py` | none per request | parse an event, start a background handler | push gate, tools |
| push gate, `servers/github_app.py:77-78, 228-289` | two dictionaries with a time-to-live, per worker | count in, wait as delegate, discard, process, wake and count out | timed dictionary, review run |
| timed dictionary, `servers/utils.py:33-100` | items, access times | get, set, setdefault, lazy expiry | push gate |
| review run, `tools/pr_reviewer.py:424-601` | locals of one coroutine | snapshot, think, publish, record | provider, publish lock, audit |
| publish lock, `algo/publish_lock.py` | a file per pull request, flock | take, time out, fail open, release | review run, kernel |
| GitHub provider, `git_providers/github_provider.py` | head commit, file lists | read own verdict, create reviews, fallbacks | GitHub |
| finding dedup, `algo/inline_comment_dedup.py` | fingerprints seen on the PR | load, seen, add | GitHub |
| audit, `dashboard/audit.py`, `dashboard/storage.py` | review rows, events | start, heartbeat, finish, fail, skip, reconcile | SQLite, the review run |
| dashboard API, `servers/dashboard_api.py` | sessions and password generation (SQLite), login attempts | login, cancel a review, save settings, event stream | storage, configuration engine, releases |
| configuration engine, `dashboard/config_engine.py` | TOML file, backups, loaded signature per worker | locked read-modify-write, hot reload | every worker |
| staged release, `dashboard/ops.py` | worktrees, `current` link, pending and build markers | prepare, activate, restart, roll back, boot | file system, git |
| model fallback, `algo/pr_processing.py:348-483` | settings of the request | try models and deployments in order | model handlers |
| callback drain, `algo/ai_handlers/litellm_helpers.py:499-918` | the logging worker of litellm | wait, cancel, reap with deadlines | event loop |
| polling server, `servers/github_polling.py` | handled ids, task queue | poll notifications, start processes | GitHub |
| Mosaico, `mosaico/` | none across turns | route a turn to a tool | tools |
| patch and token processing, `algo/git_patch_processing.py`, `algo/token_handler.py` | none | pure functions on diffs | tools |
| other tools, other providers, frontend, secrets, identity, logs | - | - | - |

**What is hard here.**

* Overlap: two triggers seconds apart for the same commit run in two processes.
  Deciding whether to publish reads GitHub, and publishing is another call.
* Time: a run thinks for minutes between looking at the pull request and
  publishing; commits are pushed and reviews dismissed in between.
* Partial failure: `create_review` may be refused, may refuse one comment of
  many, or may succeed and lose its answer. Storage may hang, be locked, or
  commit and then report a failure.
* Time-outs that fail open: the lock is given up after ten minutes, audit writes
  after seconds; what was waited for happens later all the same.
* Caches that forget: gate entries expire by a time-to-live while in use.
* Death of a worker at any step, with its threads and its lock.

**What makes each part correct.**

* Publication: a commit is answered once by overlapping runs; nobody is silenced
  without an answer; no finding is lost; a verdict is backed by parsed output.
* Lock: mutual exclusion when it works, and no run is held up by a dead owner.
* Gate: one processing and one delegate per pull request; a discarded push is
  covered by a processing that starts after it; the delegate is woken.
* Audit: the row is closed once, with what really happened; announced only as
  what it is; never RUNNING for ever; never in the way of the review.
* Configuration: no save undoes another, what a save replaces is backed up, and
  every worker converges to the file.
* Release: what is named by a link or a marker was completed; the active release
  advances only to what fits the image; from every leftover the service returns,
  and a rebuilt image takes effect.
* Authentication: whoever is let in logged in with the password the file holds;
  a save from the dashboard logs nobody out; a logged-out stream ends.

## 2. Plan

Ordered by what the program is for. A line is a module and what it composes.

Done:

1. `PublishLock`, `VerdictLog` (abstract), `ReviewPublish` (extends the lock,
   refines the log), `ReviewPublish_proofs`, `ReviewPublish_refinement`.
2. `TimedDict`, `PushTrigger` (uses it), `PushTrigger_proofs`.
3. `AuditRecord` (abstract), `ReviewAudit` (refines it), `ReviewAudit_proofs`.
4. `ActiveRelease` (abstract), `StagedRelease` (refines it), `StagedRelease_proofs`.
5. `SettingsFile` (`dashboard/config_engine.py`), `SettingsFile_proofs`.
6. `DashboardSessions` (`servers/dashboard_api.py` and the session tables, over the
   locks of the settings file), `DashboardSessions_proofs`.

Open, in this order:

7. Extensions of the core: the older publication path
   (`_submit_review_verdict`); `persistent_inline_comments`; compositions of
   `ReviewPublish` with `PushTrigger` and with `ReviewAudit`.
8. The settings path of `DASHBOARD_CONFIG_PATH`, where a refresh applies the
   document it read before instead of reading again; the git child of an update
   that survives its worker.
9. The lockout of failed logins; the cursor of the event stream over the
   retention of its table.
10. Pure algorithms against a reference: hunk numbering, cgroup and worker
   arithmetic, login back-off.

The polling server and Mosaico come last: little state, and what goes wrong there
is visible. Model fallback is sequential, and what the callback drain drains
is outside the repository; neither is planned.

## 3. Modules

### PublishLock and ReviewPublish

`PublishLock` is one lock file: the kernel's `owner` and where each run is in the
context manager (`outside`, `waiting`, `held`, `unlocked`). `ReviewPublish`
extends it with the pull request and the runs.

| variable | code |
|---|---|
| `owner`, `stage` | flock owner; position in `publish_lock` |
| `head` | newest commit on GitHub, 1..`MaxCommit` |
| `reviews` | the bot's reviews that carry the verdict marker; the index stands for the id, which grows |
| `pc` | where the coroutine, later its thread, is |
| `job` | its locals: the commit its review names, the oldest commit it reviews a file of, snapshot, prediction, findings, event; and two flags of what went wrong, `behind` and `undecided` |

The path modelled is that of `single_review_submission`, which
`src/deploy/achord-review/config.toml.example` switches on. The steps of a run, in the
order of the code, are `Begin` (the pull request is fetched, and with it the head whose
file contents the run may ask for), `ListCommits` (the commit the verdict will name),
`ReadFiles` (the patches, of a head that may have moved on; a patch that GitHub omits is
made up from the contents at the first head, and `behind` says so if that is an older one),
`Skip`, `TakeSnapshot`, `Think` or `ThinkFails`, `RefuseUnparsed`, `RequestLock` (the
verdict is decided, or is a comment because deciding raised: `undecided`), `EnterSection`
(held, timed out or unavailable), `Check`, then `PostTogether`, `PostVerified` (the fallback
after a 422) and `SubmitVerdict` (no inline comments, or the fallback after any other
error). Each call to GitHub is one step: between two of them every other run,
the branch, people and crashes may act. `Check` merges the reading of the
standing verdict with the decision on it: the decision uses nothing that is
shared. Leaving the section is part of the step that returns from it.

A review that GitHub accepts is stored by `Store`, which may drop some of the inline
comments in silence (`dropped`), as the provider's own comment says of comments outside
the diff; this path reads none of them back. A review answered in another state than was
asked for is a draft nobody sees, and is treated, as in the code, like a refusal.

A finding is an element of `Findings`; `Blocking` ones force
`REQUEST_CHANGES` (a blocking severity or a security concern), `Anchored` ones
have a location that can become an inline comment, and sets in `Alike` share a
fingerprint, so that the dedup takes one of them for another (`Matches`). Text, markers
and fingerprints are abstracted to these sets and to the commit of a review. The
standing verdict is the last review by the bot that is not dismissed, with
`read_ok` when GitHub could not be read.

`VerdictLog` is the abstract promise: a request is taken up knowing part of a log
of verdicts and is closed in one step, by an entry that is not redundant, by
silence with a reason, or by giving up. There are no locks in it. The refinement
mapping hides a run until its snapshot and forgets whatever an aborted run knew.

### TimedDict and PushTrigger

`TimedDict` is a dictionary value with the set of keys older than the
time-to-live; accesses return the possible dictionaries after `__refresh`,
which removes old keys only if the refresh interval has elapsed. `setdefault`
refreshes before it renews its key, `__getitem__` after, as in the code; the
difference decides whether a key in use can be dropped by its own access.

`PushTrigger` is one worker. A handler is atomic between awaits, so `Arrive` is
everything up to the first await: the provider is built and cached (`opened`, its head),
the task counted, and then it is discarded, waits or may go on. `Start` is the beginning of the
processing, at once or after `wait()` returned; `Finish` the finally clause: wake
one waiter, count out. A condition is the queue of its waiters.

A processing reads the patches when it starts (`seen`), but its review names the commit of
the cached provider, that is of its delivery's arrival (`named`), and its filters look at
its own delivery's payload (`Filtered`). If the last review names that commit already, an
automatic run stays silent (`tools/pr_reviewer.py:724`), and what it read is in `muted`
instead. This happens to a delegate only if a delivery was handled after a later push had
reached GitHub (`Late`); then a discarded push may go unreviewed although
`servers/github_app.py:254` says its processing would have been the same.
`DelegateDoesTheSame` and `DiscardedIsSeen` except this case and no other (`IsRead`).

`AgeKey` is the passing of the time-to-live; without `"overrun"` in `Faults` it does not
happen to a key in use.

### ReviewAudit

One review run and its row. `pc` follows `PRReviewer.run`; `start` is the opening work on the
audit pool (insert, request event, and `settled` once it has left `_AUDIT_START_TASKS`), `term`
the task that closes the row, `delivery` the publishing thread (`"refused"` when the verdict was
not submitted, which is only logged: the row is closed as COMPLETED all the same), `beat` the
heartbeat; `row`, `flag` and `stale` are the columns `status`, `cancel_requested` and the age of
`heartbeat_at`; `stream` the run's events. Deadlines are steps that are always possible
(`StartDeadline`, `Leave`) while the work goes on behind them. `Write` is one attempt of a
transaction, which may be rolled back and retried with the `transitioned` flag already set
(`claimed`), or may commit and be reported as failed because restoring file modes raised. Rows
of different runs share nothing but the storage, whose answer is left open, so one run is
enough.

`AuditRecord` promises that a row is opened once, closed once, COMPLETED only if the report
was handed to the host (delivered or refused: the row does not tell, and so neither does the
promise), SKIPPED only if it never will be, and that an event says what the row says.

### ActiveRelease and StagedRelease

`StagedRelease` is the container with its release directory. A revision is a
number, greater for a descendant; `Deps` gives each its dependency fingerprint.

| variable | code |
|---|---|
| `tree` | the worktree of each revision: absent; only registered with git; half written, with the files the dependencies are read from (`partial`) or without (`bare`); complete; or complete once and short of files since, those not among them (`gutted`) or among them (`stripped`) |
| `lost` | revisions whose finished tree was discarded because git failed |
| `current`, `pending`, `seen` | the link, the pending marker, the build stamp the launcher has consumed |
| `image`, `source`, `remote` | stamp and dependencies of the image, the host's checkout, the tracked branch |
| `phase`, `target`, `serving` | where launcher and container are, what the launcher stages, whose code runs |
| `lock`, `op` | the operations lock and the operation under it |

A step is one call that changes files. `Pull...` is `git_pull`; `PrepareRestart` to
`Restore` are `prepare_restart` and `execute_restart`, with `_activate_pending_release`
as `Switch` and `Unmark` and `_rollback_activation` as `Undo` and `Restore`; `Decide` to
`Serve` are `reconcile_boot_release` and what the launcher does around it. Any of them may
be cut off by `Die` (a worker), `Kill` (the container) or `Rebuild` (the host), and
any call may fail (`Trouble`).

A finished checkout is reused only if `git rev-parse` tells its revision. `DiscardFound`
has both ways a directory that is found is thrown away: it was never finished, or the call
failed. The second may hit a tree that link, marker or process name; it is then in `lost`
until it is prepared again. `CutPrune` is a container stopped while it prunes:
the removal has begun, the completion marker may still be there, and nothing tells
such a tree from a complete one. `NamedIsComplete` therefore speaks of
trees that were completed once, and excepts lost ones; the hazard list names both gaps.

The launcher links the configuration into the tree (`Linked`), prunes (`Tidy`) and
starts the service, which comes up (`Serve`) if the directory is there, or fails to
import (`FailStart`) if the tree is not whole or not made for this image, is restarted and fails
again. The documentation says that the first boot of a rebuilt image runs HEAD of
the checkout (`src/deploy/achord-review/README.md:147`); if HEAD does not fit the image the code
keeps the release that was active (`ops.py:746-753`), whether or not that fits. This is why
`RebuildTakesEffect` speaks of a checkout that fits and `ServiceReturns` has `NothingFits`.

`ActiveRelease` promises that the active release advances to a newer release that
fits the image, is installed by the first start of a new image, or is reverted
because its restart failed, and that a start runs the active release or nothing. A release
may be lost (`Lose`) and its name still be moved to until it is prepared again. The
mapping takes `ready` as the trees with a completion marker, `lost` as `lost`, `active` as
`current`, `running` as `serving`, `installed` as `seen`.

### SettingsFile

A content of the file is known by its signature; `doc` says for each setting which
content set it last, so a lost update is a setting that goes back. A save is `Request`, then
under the exclusive lock `LoadDocument`, `Backup`, `AtomicDump`, `ReadBack`, `TakeSignature`,
`HotReload`, `FinishSave`; a failure releases the lock (`WriteFails`, and the branches for a
file that does not parse). The refresh of a worker (`SeeChange`, `ParseChange`, `ApplyChange`,
`NoteChange`) takes no lock and runs in the event loop, so it falls between any two
steps of a save by a thread of the same process. Both notes of a signature are
made from what was taken before applying, which is what `LoadedIsServed` and `WorkersConverge` need.
Reloading means rebuilding the settings from their sources (`Rebuild`): the file is
read again then, whatever was parsed earlier, and the loader is silent
(`custom_merge_loader.py:92-95`): if the file has stopped parsing the reload succeeds without it and
the worker is in `stripped`. An edit between parse and reload can so leave a worker without any
setting of the file, its signature noted, where `dashboard/config_engine.py:508-509` promises the last
known-good settings; it recovers with the next readable content, and the properties say no
more than that. The rereading holds for the path the settings
loader manages, which the deployment mounts (also through the link in a release
directory); the other path is open. `Edit` is a person with an editor, who takes no lock
and may leave the file unreadable; `Die` loses the worker and starts another with
the settings the parent loaded. With the rename as one step, the file is the
old or the new one by construction; durability across a power failure is left out.

### DashboardSessions

| variable | code |
|---|---|
| `file` | signature and password of the settings file |
| `auth`, `sessions` | the row of `dashboard_auth_state`, the session rows of its generation |
| `cache` | `_password_sync_state` of each worker |
| `th` | the request each thread runs, with its snapshot |
| `token`, `disturbed` | history: with which password a token's holder logged in, whether the file was edited since; whether anything but an acknowledged save changed it |

The lock of the settings file is in the program counters: `Reading` requests share it,
a `Writing` one is alone. A check is `Enter` (first snapshot), `Sync` and `Remember`
(`_sync_admin_password_state` and the worker's memory of it), `Lookup`, `Answer` (second
snapshot, and one more synchronization when they differ). The number of a generation is
abstracted: opening one deletes the rows and makes every memory of the old one worthless,
which is all the number is compared for. A session row binds the hash
of its token to the password. Login creates the row under the read lock and looks
at the password again; a save acknowledges its signature so that sessions survive it; a
stream revalidates. `Edit` has no lock. `outdated` marks a token as no longer entitled
after an edit by hand, and an acknowledged save clears it: the save loads the edited file and
vouches for what it writes, which is a hazard in its own right.

## 4. Runs

| run | question | instance | states |
|---|---|---|---|
| `overlap` | do overlapping runs answer a commit once, as an atomic log would? | 3 runs, 2 commits, 1 finding, dismissals | 867 k |
| `faults` | what survives every fault? | 2 runs, 2 commits, 1 finding, every fault but death and omitted patches | 3.6 M |
| `live` | does every run end, is a checked commit reviewed, what it found shown, and what it names read? | 2 fair runs, 2 commits, 2 findings taken for one another; deaths, refusals, dropped comments, omitted patches | 489 k |
| `repeat` | README.md:53, "never reviews a commit twice" | 3 runs, no fault | violated |
| `unlocked` | publish_lock.py:51-53, the comparison "catches a concurrent publication" without the lock | 2 runs, lock time-out | violated |
| `gate` | one works, one waits, nothing is lost | 3 pushes, 2 pull requests | 25 k |
| `overrun` | github_app.py:253-257 when processing outlives the TTL | 3 pushes, 2 pull requests | violated |
| `payload` | github_app.py:254, "the exact same processing" | 3 pushes, one filtered delegate | violated |
| `audit` | does the record say what happened, and never delay the run? | 1 run, all seven faults | 9 k |
| `release` | do update, restart and boot keep what they promise, whatever dies between two calls? | 2 workers, 3 revisions, 2 images, 2 faults | 263 k |
| `settings` | is a save lost, does a worker take a stale copy for the file, and do workers converge? | 2 workers, 2 settings, 3 contents, 1 death | 1.3 M |
| `sessions` | who is let in around logins, saves, edits and logouts? | 2 workers, 2 passwords, 1 token, 3 contents | 166 k |

**Bounds.** Runs: a repeat needs one run that published and one that overlaps
it; the third run lets a second commit be reviewed in between, which is what
`repeat` needs. Commits: the code compares commits for equality only, so two
suffice. Findings: in `faults` one that is blocking and anchored, or none; in `live` two with
one fingerprint, one of them blocking, so that one is taken for the other.
Pushes: the gate holds two per pull request, the third is
the one discarded; a second pull request is needed because its accesses are what
expires the first one's keys. `MaxCommit` bounds pushes in `ReviewPublish`; a
task pushes once in `PushTrigger`. The two safety runs of `ReviewPublish` use symmetry of the runs, the
liveness runs use none. `release`: three revisions give an old release, one
that needs another image, and one that fits the same image as its
predecessor, and pruning has something to prune; two images are one rebuild; two faults
let a recovery itself fail; the second worker is the one that finds the lock taken.
`settings`: two saves and an edit, or three saves, are enough for a lost update and
for a refresh that sees two changes; two backups stand for the
code's `MAX_BACKUPS` of five, since only the newest and the pruning matter; one death is a death at each
step. `sessions`: a request on each of two workers, because what goes wrong is a
check of one beside a login, save or logout of the other; `Serves` says which
requests a thread makes and keeps symmetric cases out; one token
suffices since rows of different tokens never meet; three contents let the file change
twice, before and during a check.

**Deadlock** is checked everywhere. A system that may really stop has a
`Quiescent` step that is enabled only when everything has ended; in `PushTrigger` it
includes tasks that wait, which is why `DelegateProceeds` is a liveness property
there and not left to the deadlock check.

**Fairness.** `ReviewPublish`: every begun run keeps taking steps, since the event
loop schedules its coroutine and every call it makes answers or raises (the
GitHub client has time-outs). Nothing is assumed of pushes, dismissals,
cancellations or crashes. Weak fairness of a run is enough for the lock: a waiter
polls, and the lock is free whenever no other run holds it; `live` excludes the
lock's own deadline, so that runs end because the lock is released.
`PushTrigger`: every task that can run does, and every processing ends, which the
deadline of the model call provides. `ReviewAudit`: only the coroutine with its
deadlines, the ageing of a heartbeat nobody renews, and some worker that
reconciles; nothing is assumed of a storage call, so `RunEnds` covers a volume that hangs.
`StagedRelease`: the launcher goes on and is restarted (the container's restart policy),
and a container told to stop does; nothing is assumed of updates, restarts or
the host. `SettingsFile`: a save under way goes on and every worker keeps
refreshing, that is, keeps getting requests; a worker nobody asks need not converge.
`DashboardSessions`: a request under way goes on and an open stream comes to its
next revalidation. Weak fairness is enough for the locks because the contents, and with
them the saves, are bounded: flock promises no fairness, and a check could wait for ever behind
saves that never cease.

**Violations.** `repeat`: commits A and B are reviewed, a run that began on A is
late; only the last verdict is compared, so A is reviewed again, over B.
`unlocked`: while the owner is posting, the waiter times out, sees the old verdict
and publishes as well. `overrun`: the condition expires under its delegate and the
finally clause notifies a fresh one. With the shipped `ai_timeout` of 120 s and a
TTL of 300 s this needs several slow calls in one processing; the deployment
example raises the time-out above the TTL. `payload`: the delegate's own payload
decides for the pushes it represents.

## 5. Proofs

All theorems hold for every value of the constants that satisfies the stated
assumptions: any number of runs, commits, findings, pull requests and pushes.

* `ReviewPublish_proofs`. `TypeCorrect`, `VerdictsAreBacked` and `SilenceIsAnswered` need
  nothing of the environment; where deciding the verdict raised, `VerdictsAreBacked` has a
  comment in place of the rejection. Nor does `FindingsReach` need anything, whose invariant is
  that what a run takes for carried over is shown by some review, by itself or by one with its
  fingerprint, that no review stops showing a finding, and that the three ways to post show
  between them all the rest, but for comments that GitHub dropped. `NamedCommitsAreRead` follows
  from the order of the three readings, and excepts a run whose omitted patches came from the
  first, and `InlinePostedOnce` from two invariants: what a run will post inline was on the pull
  request nowhere when it thought, and only an attempt that stored nothing is followed by one
  with comments. Four theorems are about how runs end, whatever fails. `LockIsHeldInside`:
  whoever owns the lock is in the section, so no way out of it keeps the lock.
  `RunsOnlyAdvance`: no step takes a run back to an earlier position.
  `EndedRunsAreAccountedFor`: an answered run has a review of its commit, and a silent one
  leaves a review of another run or had nothing to say. `RetriesAreBare`: a run leaves at most
  two reviews, the second without inline comments, because a run that tries again does so once,
  and the last attempt ends it. `SectionIsExclusive` assumes `LockWorks` (neither `"timeout"`
  nor `"unavailable"` in `Faults`); `RepeatsExplained` assumes in addition that reviews can be
  read. The inductive invariants tie the program counter to the lock stage (a run between check
  and publication is inside the lock), say that a run past thinking on its way to publish was
  parsed, with the verdict its findings call for or marked undecided, and that every review's
  run is past its check, and, for repeats, relate a run's snapshot to the reviews that existed
  when it was taken: from its check to its posting, no review has come that it did not see,
  because only the owner of the section appends.
* `ReviewPublish_refinement`: `Implementation`, the refinement of `VerdictLog`, assuming
  `Atomic`: the lock works, reviews can be read, and no answer of GitHub is lost. Refusals,
  dismissals, cancellations and deaths may happen. The step that stores a review is the step that
  answers. It is not redundant in the abstract log because no other run has
  appended since the check and because a run that has not been answered has stored nothing; the last is
  false when an answer is lost, and the fallback then posts a second entry. Every other step
  takes up, silences, gives up or stutters. `ReviewsAreAnswers` needs only that no answer
  is lost: a run is answered exactly when it has a review, and it has one.
* `PushTrigger_proofs`. Under `NoOverrun` the two dictionaries hold every pull request that has
  active tasks, the count equals the number of active tasks (one running, perhaps one waiting),
  and the queue holds exactly the waiting task; from this `GateStaysTight` and
  `DelegatesWillBeWoken`: a delegate stands in the queue the dictionary holds, and another task
  is at work whose end wakes it. Without `NoOverrun`, that is whatever key expires while a task
  uses it, `GateTypes` holds, and with the backlog on and nothing filtered
  `DiscardedIsRepresented`. Their invariant says less of the gate: a key that is forgotten makes
  it too wide, but a queue lists only tasks that wait, each once, and a full count still stands
  for a delegate. That a processing which stays silent tells of a late delivery needs an
  invariant of its own (`Told`): the pushes of a pull request have different commits, a provider
  is built on a head no older than its push, and the commit last named is the one on which some
  task's provider was built; two tasks with one such commit cannot both be in time.
* `ReviewAudit_proofs`. The invariant says how far opening and closing may have come for each
  state of row and stream, and that one outcome is chosen; it gives `AuditTypes`,
  `LateInsertsAreClosed` and `RecordIsImplemented`, the refinement of `AuditRecord`, under any
  faults. The refinement is then used: `RecordTellsTheTruth` (the stream announces no end but
  the one the row names, once and last; a report was handed to the host if the row says
  COMPLETED, though perhaps refused, and none if it says SKIPPED) and `OutcomeIsFinal` (a row is
  never reopened, relabelled or taken back, the stream only appended to) are proved of the
  abstract record and hold of the audit by it. `NoBeatOutlivesItsRun`: a heartbeat beats only
  for a run that is alive and knows its row.

* `StagedRelease_proofs`. Under any faults and for any revisions, images and workers:
  `NamedAreComplete`, `PendingAreNewer` and `Implementation`, the refinement of `ActiveRelease`.
  The invariant says that every tree somebody names or is about to name is marked complete or
  was lost to a failing git call, what the launcher has decided at each of its steps, that a
  consumed stamp leaves no older pending release behind, that a prepared restart was verified
  against the image, and what an operation under the lock may still find changed by the host. A
  second invariant is about images: once an image had its first start, link, process and
  whatever a failed restart goes back to fit it (`ActiveFits`); the service starts, or fails to,
  only on an image whose first start is settled, by consuming its stamp or by leaving the host's
  checkout pending for a rebuild (`StartsAreSettled`); and an operation that records an update
  records nothing older than what is pending, so that an accepted update goes only when it is
  active, a newer one takes its place or another image starts for the first time
  (`UpdatesStay`).
* `SettingsFile_proofs`: `NoSaveIsUndone`, `NothingIsLost` and `NoCopyIsStale`, for any number
  of workers, saves and deaths. One thread at a time is past the lock; while it is, the document
  it loaded is the file's but for edits by hand, and after its backup the newest backup is the
  file's content with the same exception. Edits need no fairness or bound: the theorem excuses
  only the save that overwrites one. `NoCopyIsStale` orders what each worker has: the signature
  it noted is no newer than the copy it serves, and the copy no newer than the file. It needs
  that a refresh or save which has applied its copy is about to note a signature no newer than
  the copy served, whatever the other applied since: a signature is taken before the reading
  that goes with it, and copies only get newer. Contents do not come back, so a worker that
  serves the present content was stripped by it exactly if that does not parse (`AsRead`).
* `DashboardSessions_proofs`: `SavesKeep`, `Current`, `LoggedOutHasNoRow` and `LogoutIsFinal`.
  The invariant says for each step of a request what it may rely on: its signature is not newer
  than the file's, a login's row is the only one of its token, a session found valid is current
  or the second snapshot will see that it is not, and undisturbed a request under a lock knows
  the file as it is. Of the database it says that a row outdated by an edit survives only until
  some check synchronizes the file's present signature, which therefore nothing that vouches for
  the row knows yet. A logout that found a row removed every row of its token, since all bind it
  to one password, and new rows are made only for tokens nobody holds yet: a logged-out token
  has no row, and a request that had not found its session by the logout is not let in.

Only model-checked: all liveness (`RunsEnd`, `CheckedCommitIsReviewed`, `DiscardedIsSeen`,
`DelegateProceeds`, `RunEnds`, `RunningIsClosed`, `ServiceReturns`, `RebuildTakesEffect`,
`WorkersConverge`, `LoggedOutStreamEnds`), for liveness under
fairness is out of the prover's reach. Of most of these the safety half is proved, so that
what TLC alone vouches for is the progress:

| liveness, by TLC | what could never be made good, excluded by proof |
|---|---|
| `RunsEnd` | the lock kept by a run outside the section (`LockIsHeldInside`), a run going back (`RunsOnlyAdvance`) |
| `CheckedCommitIsReviewed` | a run ended without a review to show for it (`EndedRunsAreAccountedFor`) |
| `DiscardedIsSeen` | a discarded push nobody represents (`DiscardedIsRepresented`) |
| `DelegateProceeds` | a delegate in no queue, or with nobody to wake it (`DelegatesWillBeWoken`) |
| `RunningIsClosed` | a heartbeat that outlives its run (`NoBeatOutlivesItsRun`) |
| `ServiceReturns` | a link, marker or process that names a checkout never completed, lost ones excepted (`NamedAreComplete`) |
| `RebuildTakesEffect` | a start on an image that is not settled (`StartsAreSettled`) |
| `WorkersConverge` | an old copy taken for the present file (`NoCopyIsStale`) |
| `LoggedOutStreamEnds` | a revalidation that lets a logged-out token in (`LogoutIsFinal`) |

`RunEnds` has none: that the storage holds nobody up is a matter of deadlines only.

## 6. Where the code falls short

The four runs that TLC finds violated are findings of their own. The other places where code and
comment, or code and expectation, disagree are modelled as the code has them; the properties
make an exception for each, named and no wider than the case, and the hazard list says at which line:

| where | what happens | excepted by |
|---|---|---|
| `git_providers/github_provider.py:324` | a file whose patch GitHub omits is reviewed at the head fetched first, and a newer commit is named | `behind` |
| `git_providers/github_provider.py:1608` | an inline comment of an accepted review is dropped in silence, and not read back | `WasDropped` |
| `tools/pr_reviewer.py:690` | deciding the verdict raises, and blocking findings are published with a comment | `undecided` |
| `servers/github_app.py:239` | the delegate names the commit of its arrival and stays silent on newer patches it has read | `IsRead`, `Late` |
| `tools/pr_reviewer.py:763` | a verdict that was not submitted is recorded as COMPLETED | `report` in `AuditRecord` |
| `dashboard/ops.py:645, 843` | a finished checkout in use is discarded because git failed | `lost` |
| `dashboard/ops.py:746` | the first boot of a rebuilt image keeps a release that may not fit it | `NothingFits`, `Installable` |
| `dashboard/config_engine.py:508` | an edit during a refresh leaves a worker without the settings of the file | `stripped` |

## 7. Not modelled

Within the modelled components: the older path that publishes a comment and
submits the verdict separately; incremental commit ranges; full file contents
next to the patches; the `persistent_inline_comments` option; a probe
review that stays pending; metadata, usage and retention of audit rows; the
content of prompts, reports and fingerprints. Several machines: the lock covers
one, as its own documentation says, and two are two runs with `"unavailable"`.

Of the dashboard: expiry and retention of sessions, the lockout of failed logins, a password
that comes from the environment or is empty, CSRF, masking and validation of settings, fields
the environment controls, the unmanaged settings path, the event cursor, log tailing, the health
probes. Of a release: the content of a fingerprint, and a git child that outlives its worker.

The models cover a small share of the lines of the repository, and much of the
rest has no state to model: `algo/utils.py`, the patch and token processing and the
prompt builders are pure functions on text; the providers other than GitHub and
the model handlers are adapters around one remote call each; the other tools are a
prompt, a model call and a comment. What can go wrong there is in the text they
compute, and a unit test reaches it.
The remaining components, each with its reason, are listed in `PROJECT.json`.
