# xfce-linux: specifications

TLA+ models of the parts of this repository that keep state or meet other
processes, model-checked with TLC, and proofs of the most important invariants
checked by TLAPS. `PROJECT.json` maps every definition to the lines it stands
for, and names the runs, the mutants, the hazards and the theorems.

## 1. The system and its components

The repository builds an XFCE desktop image with BuildStream, chunks it into an
OCI image, publishes it on GHCR, makes a live ISO of it, tests installations of
it, and promotes commits of `main` to a `stable` channel. Most of it is
declarative (elements, patches, configuration) or a straight line of commands.
State, concurrency and failure are in these parts:

| Component | State | Operations | Talks to |
|---|---|---|---|
| Dashboard, build state and parser (`tools/bst_dashboard/`) | `State`: active jobs, failures, summary elements, counters, start and end time | `parse_line`'s updates, `reset_state`, end of catch-up | the tailer calls it; the page reads snapshots |
| Dashboard, log tailer (`tail_log`) | position, partial line, catching-up flag | look at the size; read; reset | the log file, written by others |
| Dashboard, process control | `BUILD_LOCK`, `BUILD_PROC`, `bst_running`, dependency tree | start, stop, sample, fetch | handler threads, podman, builds started elsewhere |
| Dashboard, `GET /api/state` | the reply being made | snapshot, read the jobs' logs, serialise | the build state, whose failure list it shares |
| Dashboard, page (`bst-dashboard.html`) | last seen `live` | poll, notify | snapshots over HTTP |
| Blob stream (`ghcr-blob-stream.py`) | offset, attempt, token, digest | request, resume, refresh the token, verify | the registry; zstd and tar over a pipe |
| CAS restore (`cas-restore-stream.sh`, step in `build-multirunner.yml`) | BuildStream's cache on disk | restore core, then each chunk by its key or by `latest` | the blob stream, tar |
| Component map (`gen-filemap.py`, `apply-xattrs.py`, `fakecap-restore.c`) | paths per element, the claims, the sums, two attributes per file | read BuildStream's listing, write the claims, set the attributes | BuildStream, the image's file system |
| LUKS unlock driver (`luks-unlock.py`) | what the last looks showed, deadlines, the kept picture | three modes: *qemu* and *libvirt* look at the guest, type the passphrase and judge the boot; *wait-live* waits for a desktop | a guest that goes on by itself |
| Image build (`build-multirunner.yml`) | runs, concurrency group, tags in the registry | build, push `:latest` / `:stable`, push `:<sha>`, sign | GitHub, the ISO build |
| ISO build (`build-iso.yml`) | runs, files on R2 | pull the moving tag, upload, boot | the image build, R2 |
| Promotion and rollback (`promote-stable.yml`, `rollback-stable.yml`) | `stable` branch and tag, the job's own progress | check, push the branch, dispatch, wait, verify; retag | all of the above |
| fakecap (`files/fakecap/fakecap.c`) | attribute files keyed by device, inode, name | set, get, list, remove, restore | nothing here loads this copy |
| isofile script in the initramfs | loop devices, mounts | scan the disks, retry | udev, dracut |
| Install tests, export recipes, live image construction, PR checks | little or none | command sequences | QEMU, podman |

What is hard in them, and the properties that make them right:

* **Build state and parser.** Text arrives in any order: sub-runs without
  headers, a Failure Summary cut off, failures of jobs never seen to start.
  Right means: the failure total covers the list, one entry per failure, a
  summary filter that loses no root cause, and job lists that are true once the
  log has been read.
* **Replies of the API.** A handler serialises while the parser updates. Right means:
  a reply agrees with itself. It does not (section 6).
* **Tailer.** The file changes between `getsize`, `open` and `read`. Right means:
  when caught up, exactly the lines of the present log were handed on.
* **Process control.** Check-then-launch from several threads, a status sampled
  up to two seconds ago, podman commands that hang. Right means: one own build, no log
  truncated under a build, a lock that is let go, a tree that stops loading, a
  running flag that falls.
* **Blob stream and CAS restore.** The registry cuts connections, ignores `Range`,
  expires tokens, damages bytes; tar extracts before the digest is known. Right means:
  a gapless prefix, success only for the whole blob, a build step that always
  goes on and knows what it lacks.
* **Component map.** Files that several elements list, merged layers that list every
  file, two programs that must agree, files that cannot be written. Right means: a file's
  component is an element that has it, the same one whoever writes it, and sums that
  account for every claim.
* **LUKS unlock.** A guest seen through screenshots that may fail or be old. Right means: no
  passphrase typed at the firmware, no success for an emergency shell, a kept picture of
  the desktop, and always a verdict. Success for a booted guest only it cannot keep
  (section 6).
* **Publishing and release.** Runs of four workflows that overlap, fail, get
  cancelled. Right means: moving tags follow the branch, only a commit that was built
  and booted is promoted, a promotion ends.

`PROJECT.json` has each hazard at its line.

## 2. Modules

| Module | Models | Built on |
|---|---|---|
| `BuildState` | `State` and one action per update of `parser.py`; lines in any order | |
| `BuildFeed` | a BuildStream session that writes lines in BuildStream's order, the tailer's lag, the page's poll | extends `BuildState` |
| `BuildStateProofs` | theorems about `BuildState` and, in its second part, `BuildFeed` | `BuildFeed` |
| `StateApi` | `GET /api/state` beside the parser, and the list they share | extends `BuildState` |
| `LineDelivery` | abstract specification: the complete lines of the log that is there, in order, and a fresh start after a replacement | |
| `LogTail` | `tail_log` and the file; `DeliversLines` is the refinement of `LineDelivery` | instantiates `LineDelivery` |
| `LogTailProofs` | theorems about `LogTail`, the refinement included | `LogTail` |
| `BuildControl` | handlers, sampler, fetch threads, podman | |
| `BuildControlProofs` | theorems about `BuildControl` | `BuildControl` |
| `BlobDelivery` | abstract specification: pieces are delivered, then success or failure | |
| `BlobStream` | the program, detailed; `KeepsPromise` is the refinement of `BlobDelivery` | instantiates `BlobDelivery` |
| `BlobStreamProofs` | theorems about `BlobStream`, the refinement included | `BlobStream` |
| `CasRestore` | pipeline and workflow step, over the *promise* of the stream | instantiates `BlobDelivery` |
| `CasRestoreProofs` | theorems about `CasRestore` | `CasRestore` |
| `ComponentMap` | `gen-filemap.py`, `apply-xattrs.py`, `fakecap-restore` | |
| `ComponentMapProofs` | theorems about `ComponentMap` | `ComponentMap` |
| `QemuScreen` | a guest, its serial log and its screen as the driver's helpers see them | |
| `LuksUnlock` | `run_qemu` | extends `QemuScreen` |
| `LuksModes` | `main`, `run_libvirt`, `run_wait_live`; all three modes | extends `LuksUnlock` |
| `LuksProofs` | theorems about the three modes | `LuksModes` |
| `Publishing` | image build, ISO build, tags, R2 | |
| `Release` | promotion and rollback beside the builds | extends `Publishing` |
| `ReleaseProofs` | theorems about `Publishing` and `Release` together | `Release` |

`MC*` modules give the constants of a small instance; the others are small enough
to get theirs in the `.cfg`. A definition whose comment starts with "Mutant of"
is a plausible bug; no specification uses it, and putting it in the place of the
definition it names makes TLC refute a property (`PROJECT.json`, "mutants").

Correspondence, module by module:

* **`BuildState`.** One action is one `State.update`, atomic because it runs under
  `State._lock`. A Python list of failures is a set of entries stamped with their
  order of arrival. Time stamps are only *unset*, *parse* time or *mtime*.
  `KdeElement` are the elements that `FAILURE_ELEM_RE` accepts. `recent_lines`,
  durations and the version counter are display and left out.
* **`BuildFeed`.** `Write` appends a line to what the tailer has not read,
  `ParseLine` applies the action of `BuildState` for the first of them, `EndOfLog`
  ends catch-up. `Poll` is `poll()` of the page. The session (external) is what
  the parser's patterns, comments and tests take a session to be; it may be killed at any
  time (`SessionKilled`), and the next one starts with a truncated log and a header.
* **`StateApi`.** `Snapshot` and `Serve` are the two ends of a request, and `Update` is
  any action of `BuildState` in between, with what it does to the list of the reply:
  everything but the filter at Pipeline Summary changes the shared list in place.
* **`LogTail`.** `getsize` and `read` are separate actions, so that `Truncate`,
  `Rotate` and `WriteMore` fall between them. Text is half-lines numbered per log;
  `LineEnd(b, n)` is the n-th piece of the buffer that ends a line, and `LinesOf` and `RestOf` are
  the split at the last of them.
* **`BuildControl`.** One action per step of `start_build` and `stop_build` between
  which another thread can run; the sampler's look and its record are two actions.
  A client outlives its container, and a container appears after its client started.
* **`BlobStream`.** A blob is `Size` pieces, reading one chunk is reading one
  piece. `out` is what went into the digest and the pipe's buffer, `sent` what got
  through the pipe.
* **`CasRestore`.** Pipe, zstd and tar run side by side (`StreamStep`, `TarStep`,
  `TarFails`); the exit status is decided in `PipelineEnds`. A cache object is
  missing, whole, cut short or damaged. `Advance`, `FallBack` and `Warn` are the
  workflow's loop.
* **`ComponentMap`.** A listing is read line by line: `Header` names an element,
  `Entry` is a file of it. Elements and paths are numbers in the order of their names, which
  is the order both programs write in (`IsNext`). `PathOf` is a path cut at its first
  blank. `IntervalFails` is where the two programs differ: `fakecap-restore` does not look
  at the second attribute's result. The attributes are the elements they were written for.
* **`LuksUnlock`, `LuksModes`.** The clock is the number of looks (`MaxPolls`). A frame is
  the guest's phase and an animation bit; a hash is a frame. `Brightness` has the classes that
  the thresholds tell apart, and a frame of a phase may be in any class that the script's
  comments give the phase: a prompt may be as bright as a greeter. A look may fail,
  and then returns the picture file of the look before it, or `OldFrame`, the file of an
  earlier run; or it finds the file half written (`Partial`), with any brightness. The size of a `virsh` screenshot is small or not (`Small`), a DHCP lease is
  missing, old or new, and keys may be lost. `stale` records that a look did not
  show the screen, and `still` for how many looks in a row the firmware was as before (two are
  what `STABLE_POLLS` asks for): the properties' provisos.
* **`Publishing`, `Release`.** Commits are numbered in the order of `main`; an
  image is named by its commit. Runs are lists in the order of their creation, and
  `gh run list ... .[0]` is the last entry that fits. The two release workflows
  share a concurrency group, so `job` is a single record. `undo` is a history: which builds of
  stable have pushed since a rollback moved the tag, and which builds there were when it moved the
  branch. GitHub is external: it
  creates an ISO run some time after an image build ended, for the branch and
  commit of that build, as the workflows presume; unless the build succeeded the
  run is a skipped one, which `wait_for_run` takes for a failure. A dispatched run is
  listed at once.

## 3. Runs

Twelve runs; three are expected to be refuted (section 6).

| Run | Question | Bounds, and why they are enough | Size |
|---|---|---|---|
| `build_state` | Do the invariants of `State` hold for lines in any order? | 3 cache keys, 2 of one element, one element unknown to the pattern; totals 0..2; 3 failures filed: enough for duplicates, placeholders, cascades and a count from each source | 625,104 states, 45 s |
| `build_feed` | Does the dashboard show the truth about a session? | 2 sessions, 2 sub-runs, 3 unread lines: leaks between runs and sub-runs, a cut-off summary, a killed build; 2 jobs of an element the pattern knows and 1 of one it does not | 815,226 states, 1.5 min |
| `log_tail` | Are lines lost, doubled or mixed? | 3 logs of 6 half-lines: two replacements, each in the middle of a line | seconds |
| `build_control` | Two own builds, or a truncated log? Do fetches settle, is the lock let go, does the flag fall? | 2 handlers, 2 fetch threads, 2 own builds and one started elsewhere: every pair of critical sections | 111,348 states, 1.5 min |
| `blob_stream` | Is the blob delivered as promised? | 3 pieces (first, middle, last), 4 attempts: cuts at each place, a token refresh, and failure | seconds |
| `cas_restore` | What is in the cache when the step goes on? | core and 2 chunks, one without a key; 2 objects per tarball, one shared | seconds |
| `component_map` | Do the attributes say which element a file is of? | 2 elements and a merged layer, 3 paths of which two have the same first word, 4 entries: a file of two elements, entries after a second header, each kind of file and failure | 1.1 million states, 20 s |
| `luks_unlock` | Is the passphrase kept from the firmware, a dark system from success; is the picture a desktop's? | all three modes; 4 looks per deadline, twice what stability needs | 911,220 states, a minute |
| `release` | Is what is promoted green; does `:latest` follow `main`; what undoes a rollback; does a job end? | 2 commits, 2 image builds, 2 ISO builds, 1 repeated look: a promotion of one commit while the next is built, its stable builds included, and a rollback | 795,390 states, 2 min |
| `consistent_view`, `checksum_published`, `gate_iso_fresh` | section 6 | | |

The type invariants are proved (section 5); only `build_feed` checks its own as well, where
a mutant of the code breaks it.

What they show:

* `OneEntryPerFailure`, `HashedEntriesWereTracked`, `FailureCountCoversList`,
  `RootCausesListed`: the bookkeeping of failures survives every order of lines.
* `ActiveIsTruth`, `FailuresAreReal`, `CompletionShown`: once the
  log has been read, what is shown is what happened. A killed build is the exception: its last
  jobs stay shown as building, and the page as live, until the next session's header clears them;
  the properties ask for that, and for nothing before it.
* `FailuresShown`: what the filter leaves of a sub-run. It is said job by job: each job that failed has one
  entry if its element is a root cause whose name the pattern knows, and none otherwise; if the
  pattern knew no name, each has one. So the filter loses no failure of this project's
  own elements, but leaves their cascades (section 6).
* `NotifyNeverMidJob`: whatever happens between two polls, the page does not announce
  completion while a job runs, unless the log says more than has been read. Between
  two jobs it does (section 6).
* `CaughtUpExact`, `Converges`, `DeliversLines`: hold *if* a new log does not outgrow the old one
  between two looks (`SlowRegrow`). Without that they do not (section 6).
* `OneOwnBuild`, `TruncateOnlyWhenIdle`: `BUILD_LOCK` around check and launch is
  enough for the dashboard's own builds. `FetchSettles`, `LockLetGo`, `FlagFollows`:
  no podman command that fails or hangs leaves the tree loading, the lock taken, or the flag up.
* `OutIsPrefix`, `OkIsComplete`, `GivesUpLate`, `Terminates`, `KeepsPromise`: resuming
  neither skips nor repeats, "ok" is only said of the whole blob, and giving up takes
  `MAX_ATTEMPTS` faults or a reader that is gone.
* `RestoredIsWhole`, `AccountedFor`, `StepEnds`: a restore that reports success left
  whole objects; each tarball is restored or warned about; the build always follows.
* `ComponentIsOwner`, `LastOwnerWins`: the header that is current when an entry is read is
  its element's, and both programs, one going by element and the other by path, give a shared file to the
  same one. `AttributesMatch`, `SumsAddUp`: a failure in the middle of a file is
  counted, once, by `apply-xattrs`.
* `NotSentAtFirmware`, `ShotShowsDesktop`: as long as looks show the screen, it takes a firmware that stands still
  for two further looks to have the passphrase typed at it, or its logo kept as a desktop; one
  repeated frame, between whatever other frames and failed looks, does not. `DarkIsNotSuccess`: a
  system that is still booting or in its emergency shell is not called booted by the qemu mode. What it does not
  say is that a guest called booted is: the prompt may be as bright as a greeter
  (`ExitZeroIsBooted`, section 6). `LastBrightKept` needs only that copies work, and leaves out a frame
  that was read half written, since the file is copied after it was read.
* `PromotedWasGreen`: the four run lists are read at different times, and still an
  unforced promotion is of a commit that was green in both.
* `OnlyBuildsUndoRollback`: after a rollback the tag and the branch agree, unless a build of
  `stable` that was there before the branch was moved has pushed after the tag was. That this
  one case happens is in section 6.
* `LatestNeverGoesBack`: the concurrency group, with one run waiting and newer
  ones replacing it, keeps the pushes in the order of the commits.

Bounds that are only there for TLC: `MaxAppends`, `MaxCount`, `MaxSessions`,
`MaxSubRuns`, `MaxUnread`, `MaxLog`, `MaxLength`, `MaxLines`, `MaxBuilds` (both), `MaxCommits`,
`MaxIsos`. `MaxPolls` stands for a deadline or for the 720 looks of
`wait_for_run`; `MAX_ATTEMPTS` and `Size` are the program's own.
`Bound` in `Release` leaves a promotion room for the build it dispatches, so that a
full list of runs never stands for a failed dispatch. `CHECK_DEADLOCK FALSE` is
given where the modelled program ends, or where the bounded environment is used up.

## 4. Fairness

* `LogTail`, `BuildFeed`: weak fairness of the tailer's steps, a thread in an endless
  loop. Nothing is assumed of writers, of BuildStream or of the browser.
* `BuildControl`: weak fairness of each thread's next step; every command that it
  waits for has a timeout in the code (`subprocess` with `timeout=`), or is a fetch
  with one. `FlagFollows` takes the rest of the sampler's round (`/proc`, the CPU count) to
  return. Nobody has to press a button, and builds need not end. The lock need
  not be fair: only its release is claimed (`LockLetGo`).
* `BlobStream`, `LuksModes`: weak fairness of the program, whose requests, looks and waits
  have deadlines; `virsh` alone is called without a timeout and is taken to return. The registry and the
  guest may do nothing.
* `ComponentMap`, `StateApi`: none; only safety is claimed.
* `CasRestore`: weak fairness of the step: the stream ends (checked of its
  own module as `Terminates`) and tar ends with its input.
* `Release`: weak fairness of the job's own steps. Builds may stay where they are for ever,
  which is why the promotion must count its looks. `LatestNeverGoesBack` is a safety property,
  and presumes that nobody dispatches the single-runner build, which is in no group with the others.

## 5. Proofs

Checked by TLAPS for every value of the constants.

`BuildStateProofs`. The assumptions are those of `BuildState` on its
constants (`Hash` and `Element` finite is not among them). `TypeOK` contains that `failures` is
a finite set and is inductive (`TypeCorrect`). Each invariant is inductive relative to
it; none needs a further strengthening, but the steps need lemmas on what filing
one failure does:

* `CountCoversList`: `ExchangeCardinality` says that replacing a placeholder does not
  change the number of entries; the two paths that add an entry add to the counter.
* `RootCausesKept`, `EntriesUnique`: `FileFailureUnique` treats the three cases of
  `_fail` (known, placeholder taken over, new); `GrowCompatible` is the step
  from "compatible with each" to "pairwise compatible".
* `HashedAreTracked`: entries only come from `_fail`, which also files the job
  as completed, and both are cleared together.

Its second part is about `BuildFeed`, for any number of jobs, elements, sessions and sub-runs. The assumptions
are added that the bounds are numbers and that two lines may be unread (a truncation and a header are
noticed together). `Hash` need not be finite: that of a sub-run's failures is, being built up one by one (`FeedTyped`).
What the page shows is not related to what runs until the log has been read, so none of the four
properties is inductive. The idea is to say what *will* be shown: `After` is what a reader that adds an
element on some lines and drops it on others has after the first n lines of a sequence, and three lemmas
say how it changes when a line is appended (`AfterOne`, `AfterPrefix`) or the first is read
(`AfterTail`: not at all, if the reader's set is what `Apply` makes of it, which `ApplyActive` and
`ApplyNamed` prove line by line). Then:

* `LogTellsJobs`: the jobs that will be active (`WillBeActive`) are those running, but for the ones cut off
  by the end of a sub-run, until Pipeline Summary is written, or by the end of a killed session. With nothing unread this is `ActiveIsTruth`
  (`ShownIsRunning`), and `NotifyNeverMidJob` (`AnnouncedWhenOver`) follows, since no job is shown when the page
  notifies.
* `LogTellsFailures`: the lines name no failure but those of the session; with `FailuresAreReal`
  itself, which a header that is still unread suspends, it gives `ShownFailed`.
* `LogTellsStarts`: a FAILURE that is still unread is of a job that will be shown as building when it is
  read, so that the parser does not ignore it.
* `LogTellsRoots`: until its summary a sub-run's failures will all be listed (`WillBeShown`). After the
  Failure Summary, Pipeline Summary is either unread with only queue totals
  behind it, and the elements named before it will be the root causes that the pattern knows
  (`SummaryAhead`), or it has been read and has left what it should (`SummaryRead`, `Filtered`). That the filter
  loses no root cause needs `RootCausesListed`, and that a listed element's entry is of a job that
  failed, and its only one, needs `HashedEntriesWereTracked` and `OneEntryPerFailure`, all carried over
  from `BuildState`. `FilterLeavesRoots` is the case with nothing unread.

`SessionIsALog` is a refinement: the parser driven by a session is a behaviour of `BuildState`, where lines
come in any order (`AnyLine`: `Next` with queue totals of any size). `SessionKeepsBookkeeping` takes the invariants of
the first part over to sessions.

`LogTailProofs`. For any number of logs of any length; no assumption but that these are
numbers. `CaughtUpExact` has the proviso `SlowRegrow`, under which a replaced file is shorter than
what has been read until it is looked at; without it the property says nothing, and section 6 says why.
The first half is about content: `Splits` and `RunSplits` say what
splitting a buffer at its line ends yields when the buffer is a stretch of one log
(every second piece ends a line, `Spaced`, `LineEnds`), and `ReadsExactly` that handing
on the lines of *remainder + what was read* leads from "exact up to `pos`" to "exact up to
the new position", wherever the read begins and ends. The second half is the induction:
`Followed` says that a tailer that knows its file (`~ unseen`) is exact at its
position and has not gone past the end, and that a file replaced unseen is shorter than the
tailer's horizon (`Known`), so that the next look resets it. `CaughtUpExact` alone is not inductive:
it says nothing while lines are unread. `Implements` is the refinement of `LineDelivery` under `SlowRegrow`: it speaks
of every step, not only of the moments when all is read. The mapping takes *replaced* to `unseen`. What a read
of a replaced file hands on may be a line made of two logs; that this ends at the next look
(`Notice`) needs `Known` once more, since the look must find the file too short (`NothingRead`).

`BlobStreamProofs`. The assumptions are `Size, MAX_ATTEMPTS \in Nat` and that a bad
piece is no piece of the blob. The inductive invariant `Typed` is the type
invariant together with `OutIsPrefix` and `Aligned` (offset, output and body agree
at each program counter): without `Aligned` a resumed body could start anywhere.
`OkMeansComplete` and `GivesUpOnlyLate` extend it by `OkInv` and `LateInv`
(a fault is accounted for by an attempt or by a token). `Implements` shows
initial states and steps of the program to be those of `BlobDelivery` or
stutters, under the mapping that takes both ways of failing to "fail"; fairness is not part of it.

`BuildControlProofs`. For any number of threads and builds; the only assumption
is that `MaxBuilds` is a number. `OneOwnBuild` is not inductive: a second
launch is only excluded by the state of the thread that launches. The
inductive invariant adds `LockHeld` (who is between taking and releasing
`BUILD_LOCK` is its holder) and `NoneAlive` (a thread past the check finds no live client,
and none comes to life, since only the holder launches). `NoTruncationUnderBuild`
is an action property from the same invariant.

`ReleaseProofs`. For any number of commits, builds, ISO runs and looks. `TypeCorrect`
needs `Room`: a promotion that has yet to dispatch has room in the list of builds
(the bound's only trace in the proofs). `HasMax`, by well-foundedness of the numbers, gives that the
newest of a non-empty set of runs is one of them. `LatestFollowsMain` rests on
`Ordered`: the builds of main are in the order of its commits (`Sorted`), one
of them runs and the one that waits is the last (`Grouped`), so what a build
has yet to push is no older than `:latest` (`Ahead`); drop the concurrency group and
`Grouped` fails. `PromotedCommitIsGreen` rests on `Found`, and on two lemmas that a run
that has succeeded is never rerun, replaced or forgotten (`BuildsLast`,
`IsosLast`); reruns by hand are not in the model. `RollbackHoldsButForBuilds` rests on `HeldBack`: from the
moment a rollback has moved the tag, `:stable` is the commit that was chosen or the image of a build of stable that has
pushed since (`Undone`), and a build of stable that was started after the branch moved is of the commit it was moved to
(`NewBuild`), so that it cannot be what parts the two. `StableMoves` says who can move the tag at all, and `UndoOK` is the type of the
history.

`ComponentMapProofs`. For any finite sets of elements and paths and any listing. `Faithful` (what has
been read is what has been listed, element by element), `ClaimsAreRead` and `Owned`
(what has been written was claimed) give `ComponentIsOwner`. `LastOwnerWins` needs
`InOrder`: claims that are done went to their element or a later one, and those that are
not will overwrite an earlier one; it is where both orders of writing come in, as orders that
agree on the claims of one file. `SumsAddUp` rests on the finiteness of the claims (`Counted`).

`CasRestoreProofs`. For any tarballs and any list of chunks, each named once and none of them
core. `RestoredIsWhole` follows from the stream's promise alone, not
from its program. `Written` says that the files behind tar are whole but for the one that it
has begun to write again, *as long as no piece was a wrong one*; the digest, which is only
known at the end, then turns the condition into a fact. `AccountedFor` is the induction
`Account` over the loop, with `Names` for "no two chunks are taken for each other".

`LuksProofs`. For any number of looks. The invariants of the three modes are proved by one
induction, `Sound`: each mode stays in its loop (`ModeInv`), what was read on serial stays
true (`SerialInv`), no key is about to be sent at the firmware (`SendInv`), nothing is compared before there
is content (`CountInv`), what wait-live compares is a desktop or the firmware (`LiveInv`), and a frame of the firmware has
not been found alike more often than `still` has counted (`AlikeInv`). The last is the link
between the program's counter and the guest: `AlikeCounted` shows that both grow in the same look, and it
fails for a counter that counts anything but equal looks. `QuietSound` is the lemma that covers steps
which neither type nor look, and `SuccessCases` goes through the two ways to exit status 0.

Every invariant and every action property of a passing run is a theorem. Only model-checked are the
liveness properties (`CompletionShown`, `Converges`, `FetchSettles`, `LockLetGo`, `FlagFollows`, `Terminates`,
`StepEnds`, `JobEnds`), because fairness and ENABLED are out of the prover's reach, and of course the three violations. No module
has a RECURSIVE operator; what a log's text splits into is stated by sets and counts of line ends instead of a
recursion over the text, so that it could be proved without induction over data.

## 6. Known disagreements

Three of the runs check what a text of the repository says, and TLC finds it false:

* `consistent_view`. `snapshot` copies the total and hands out the failure list itself
  (`model.py:55`), which is serialised after the lock is let go: a reply's list may be longer than its total
  (`model.py:38`: "a consistent view"; line 14: "an immutable snapshot boundary").
* `gate_iso_fresh`. The release gate compares commits of runs, while the ISO embeds
  whatever `:latest` is when it is built. A push-triggered ISO run with an older
  image satisfies it (`promote-stable.yml:48-49`: "must never").
* `checksum_published`. The checksum of the `latest` name is written but not uploaded
  (`build-iso.yml:151`), so the file that `README.md:51-53` names is not there and the promotion's
  verification cannot succeed.

More were met while modelling. They are stated in their modules, beside the properties
that hold, and can be put into a configuration; no run is spent on them:

| Definition | What the code does |
|---|---|
| `BuildFeed!RootCausesOnly` | `FAILURE_ELEM_RE` (`parser.py:33`) knows only elements under `kde/`, so for this project's elements the filter never runs and cascade failures stay listed, where `parser.py:112` says only root causes are kept |
| `BuildFeed!SubRunsSupersede` | a later sub-run with no failures leaves those of the earlier one (`parser.py:111`) |
| `BuildFeed!NotifyOnCompletion` | `live` falls between two jobs and the page notifies (`model.py:40`) |
| `BuildFeed!CatchUpUsesMtime` | `bst-dashboard.py:466` says "use log file mtime as end time", but whatever finishes has set the end time already, to the time of parsing, so that the condition of line 467 never holds; an old log shows a wrong end |
| `LogTail!TruncationNoticed` | a log that regrew past the position is not noticed (`bst-dashboard.py:443`) |
| `BuildControl!StopNamesContainer` | two container ids are passed as one argument (`bst-dashboard.py:148`) |
| `CasRestore!OnlyWholeObjects` | a failed restore leaves damaged or short files under objects' names |
| `ComponentMap!LinksNotClaimed` | links are claimed (`gen-filemap.py:118` says they are not), and each makes an error |
| `ComponentMap!WriteFilemap` | a manifest without claims still has its first line, so that the checks that it is not empty (`test -s` in `build-multirunner.yml`, `-s` in `chunkify`) say nothing of the claims |
| `LuksModes!SentAtPrompt` | a failed look (size 0, or an old picture) or a firmware that stands still is taken for the prompt (lines 5-12) |
| `LuksModes!ExitZeroIsBooted`, `LeaseIsNew` | exit status 0, "boot succeeded" (lines 20, 223), for a lease or a picture of an earlier boot, and for a prompt brighter than 1.8 (line 101 allows 0.5 to 2) that stands still after a key was lost |
| `LuksModes!NoShotWithoutHash` | a dark frame before the deadline makes it say "No screenshot captured" beside one that was (line 483) |
| `LuksUnlock!DumpErrorReported`, `PassHashIsPrompt`, `VerdictIsEmergency` | a failed screendump returns the old picture; the prompt's hash is missing on the serial path; a dark still frame during boot is judged an emergency shell |
| `Publishing!SuccessMeansPushed` | three failed pushes end with the status of `sleep` (`build-multirunner.yml:292`) |
| `Release!RollbackSticks` | a stable build in flight pushes `:stable` after a rollback, where `rollback-stable.yml:9-10` says that "the branch and the tag never diverge" |

## 7. Not modelled

* **fakecap's database** (`fakecap.c`): nothing in the repository builds or loads this copy; the
  image element preloads the one of freedesktop-sdk. `fakecap-restore`, which the recipes compile and
  run, is in `ComponentMap`.
* **The isofile script**: straight-line but for its retries in the initramfs.
* **The single-runner build**, a manual fallback that pushes `:latest` from any branch.
* **Of the dashboard**: page rendering, HTTP parsing, the log viewer, cmake progress, system statistics
  (files read and formatted; nothing depends on them).
* **Of the component map**: the table of update intervals (`guess_interval`), a function of the
  element; element names that a listing overrides are not told apart from absent ones.
* **Of publishing**: the reusable multirunner workflow (another repository), dated tags, signatures of
  ISOs, vulnerability scans, manual ISO dispatches, reruns by hand, the delay
  between a dispatch and its run.
* BuildStream's elements and patches (data); install tests and recipes (command sequences
  around the driver that is modelled).

## 8. Plan

Done: `BuildState`, `BuildFeed`, `StateApi`, `LineDelivery`, `LogTail`, `BuildControl`, `BlobDelivery`, `BlobStream`,
`CasRestore`, `ComponentMap`, `QemuScreen`, `LuksUnlock`, `LuksModes`, `Publishing`, `Release`;
proofs of `BuildState`, `BuildFeed`, `LogTail`, `BlobStream`, `BuildControl`, `CasRestore`, `ComponentMap`,
`LuksModes` and `Release`.

Extensions of the model, in order:

1. In `Publishing`: the single-runner build as a second writer of `:latest`; in `Release`: the delay
   between a dispatch and the run's appearance, and stale runs found by a repeated promotion; reruns by hand.
2. `IsoFile`: the device scan in the initramfs with its retries.

Proofs, in order:

1. `StateApi`: what a reply does guarantee, beside what it does not.
2. `BuildFeed` over the promise of `LineDelivery`, with the lines of two logs that a replaced file may
   yield before the tailer's next look.
3. Whatever the extensions above need.
