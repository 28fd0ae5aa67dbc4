# FreshCtx in TLA+

A specification of the FreshCtx sidecar, its clients and the Pi extension: TLA+ modules
translated from the source under `src/`, TLC configurations that check them on
small instances, and theorems the TLA+ proof system checks for every instance.
Paths below are relative to the repository; `session.mjs` without a directory
is `src/session.mjs`, and `extension.js` and `bridge.mjs` are those of
`bridges/pi`.

## 1. The system

A host (a coding agent) runs one sidecar per session. Through the client it
sends JSON lines to the sidecar's standard input. The sidecar reads source files
of the workspace, keeps a session in memory, saves it in `.freshctx/`, and
answers on standard output.

    host -- client.mjs -- pipes -- jsonl.mjs / server.mjs -- session.mjs -- store.mjs -- .freshctx/
                                                                   |                        |
                                                     workspace.mjs (source files)    other sidecars, clean

| Component | State | Operations | Hard behaviour | What makes it correct |
| --- | --- | --- | --- | --- |
| Session (`session.mjs`) | observations, units with their revisions, pending and committed plans, sequence | observe, prepare, commit, recover, status | awaits between reads while files change; memory changed before a save that may fail; retries; restarts | frames and references agree; a plan is applied only against current files; stale plans stay gone; commits are final; what is acknowledged is saved |
| Projection (`projection.mjs`) | loop locals | buildProjection, unitsOverlap, rankUnits | overlap and budget at their boundaries | disjoint units within the budget, newest first, right reasons |
| Store (`store.mjs`) | lock files, blobs, `sessions/*.json`, config, directories | initialize, open, migrate, save, putBlob, getBlob, close, clean | several processes on the same files; dead lock holders; crashes; half a store; colliding v1 ids | one owner per session; clean and open exclude each other; no lock of the dead blocks for ever; an owned store opens; no result is bound to the wrong unit |
| Workspace (`workspace.mjs`) | none | snapshots of stable files, path checks, git exclude | a file changes while it is read | a snapshot is some version of the file |
| Relocation, parsing (`relocate.mjs`, `treesitter.mjs`) | none | find a symbol or a moved region | ambiguity | never binds to the wrong bytes |
| Framing, server (`jsonl.mjs`, `server.mjs`) | buffered text, discarding; the open session | cut chunks into lines, dispatch one at a time, close the store at the end of input | chunks end anywhere; oversized lines | one answer per line, in order |
| Client (`client.mjs`) | sequence, pending, failure | request, close, events of the child | timeouts racing answers, a child that hangs or dies, close with requests in flight | every request settles; no child is left behind; close lets the child release its lock |
| Protocol (`protocol.mjs`), errors, hashing | none | validate one message | | field by field, schema tests |
| Command line (`cli.mjs`) | none | doctor, init, serve, clean | | |
| Pi bridge (`bridges/pi`) | bridge per session, archive of results | getBridge, observe, rewrite, close | overlapping calls while a session is switched | one child per session, request copies only rewritten with a committed plan |
| OpenHands Python client (`freshctx_openhands.py`) | lock, failure, sequence, a worker thread per exchange | request, close | deadlines and locks of several threads, workers that outlive their call | one exchange at a time; no result after a failure; every call returns |
| OpenHands bridge (`bridges/openhands/src`) | one client | rewrite | as Pi's | as Pi's |

How they interact: the server handles one request at a time (`jsonl.mjs` 72-77
awaits `handle`), so two requests of one session never interleave; what does
interleave with an operation is the workspace (anybody edits files), the clock,
failing writes, and the death of the process. Two sidecars meet only in
`.freshctx/`, through the lock files. The client and the child meet only in the
pipes, signals and the exit. Above the clients there is concurrency again: a Pi
host calls the extension while earlier calls wait, and several OpenHands threads
share one Python client.

The hazards this gives rise to are listed in `PROJECT.json`, each at its line
with the properties that watch over it.

## 2. The modules

| Module | Models | Lines up with the code |
| --- | --- | --- |
| `Projection` | the vocabulary of `projection.mjs` | `RenderedBytes`, `UnitsOverlap`, `RanksBefore` are its helpers; `IsSelection` says which units the budget admits, without the loop |
| `BuildProjection` | `buildProjection` as its loop | one step per unit of the ranked list: `OmitOverlap`, `OmitBudget`, `Admit` |
| `Selection` | the abstract specification of the same | one step from arguments to answer; `BuildProjection` implements it |
| `Session` | observe, prepare, commit and status over the saved state, the blobs and the files | `state` is `store.state`, `disk` the session file, `blobs` and `projections` the blob directory, `pc` and the locals where an operation stands between two awaits |
| `SessionProperties` | types and properties of `Session` | |
| `StoreLocks` | the lock files, openSessionStore, close and cleanStore by several processes | each await of `acquireLock`, `createLock`, `acquireLifecycleLock` and `cleanStore` is a step |
| `SessionStore` | the abstract specification of the same: open, save, close and clean in one step each | `StoreLocks` implements it |
| `JsonLines` | `serveJsonLines` | `Chunk`, `Line`, `Keep` are the parts of `take`; `End` the end of the input |
| `StoreOpen` | `initializeStore`, `openExistingStore`, loading and `cleanStore` of the directories | one step per mkdir, write, rename and rm of several processes that die and start again |
| `Migration` | `identityVerdict`, `migrateSessionV1`, `validateSessionV2` | operators, used by `StoreOpen`'s `Load` and `MigrateSession` |
| `Relocate` | `relocate.mjs` | operators, sets in place of loops and arrays |
| `CurrentRegion` | `readStableText` and `currentRegion` | one step per await of the read, then `Locate` calls `Relocate` and stores the unit again |
| `PythonClient` | class `Client` of `freshctx_openhands.py` and the child | what a thread does between two points where another may run |
| `PiExtension` | `extension.js` and `bridge.mjs` | what a call does between two awaits; `bridge` is the extension's variable |
| `Client` | class `Client` of `client.mjs` and the child it runs | each client action is one callback of its event loop; `Receive`, `Answer`, `Release` are `server.mjs` |
| `SessionProofs` | theorems about `Session` | a first invariant, then one more on top of it for each further property |
| `BuildProjectionProofs`, `CurrentRegionProofs`, `JsonLinesProofs`, `StoreLocksProofs`, `StoreOpenProofs`, `PythonClientProofs` | theorems about the module each is named after | one lemma or step for each action |
| `ClientProofs` | theorems about `Client` and, through an `INSTANCE`, about `PiExtension`, which runs one client per bridge | the same |
| `MC...` | the constants of the runs | |

`StoreOpen` composes the start of a store with `Migration`, `CurrentRegion` the
read of a file with `Relocate`. `PiExtension` takes from `Client` and
`StoreLocks` what they show: a request is answered or fails its client, the
child of a failed or closed client goes, and the lock of a child that is gone
is free.

`Session` uses `Projection` for the selection prepare makes. `Projection`'s
predicate stands there for the loop, and the run `BuildProjection` shows that
the loop computes exactly it.

### Session

An operation is a sequence of steps divided at its awaits. `observe` takes its
sequence number (`ObserveNew`), reads the file and records (`ObserveReadable`,
`ObserveUnreadable`), and saves. `prepare` drops expired plans (`PrepareNew`),
refreshes one unit after the other (`Refresh`), selects and stores the plan
(`BuildPlan`), and saves. `commit` compares the referenced files one by one
(`Recheck`, `Reject`) and moves the plan to the committed ones (`Apply`), and
saves. `Save` is the rename of `writeAtomic` with the answer to the host;
`SaveFails` an error before the rename, after which memory is ahead of the disk.
`Restart` is a crash or an orderly close with a new start: memory is what the
disk holds, and a crash during a save may come before or after the rename.
`Edit` changes, removes or restores a file between any two steps.

Data is abstract. A text is a short sequence of bytes and stands for its own
revision and blob (SHA-256 is taken to be injective, and so are plan and unit
ids). What the parser and the relocation find is the constant `Spans`, for each
unit and text the ranges it may resolve to: one, none, or several candidates
(an ambiguous region is one that resolves to none). A snapshot is one atomic
look at the file, and the search is an oracle: how they come about is
`CurrentRegion`.

### StoreLocks

A process goes through `look`, `clear`, `create`, `write`, `inspect`, `rename`
and `reread` for the lifecycle lock, then through the same for its session's
lock, or through `list`, `read` and `wipe` when it cleans. Two awaits are one
step only where nobody else can act on what lies between: the read and unlink
of a recovery file in `Clear` and `Reread`, whose name no other process reuses.
A file whose creator has not yet written its pid is an empty file. Pids are not
reused and a dead process stays dead. `Crash` stops a process anywhere and
leaves its files; `WriteFails` and `LoadFails` are the error paths.

A process that has seen a dead lock renames whatever it finds there by then.
`TakesALiveLock` is such a rename of a living process's lock, `CreatesInTheWay`
the step that puts one there. `CarefulSpec` and `PatientSpec` are the behaviours
without the one and without the other; with locks left over the properties of
the store are claimed of these, and the run `StoreLocksTwoOwners` shows what
happens otherwise.

### StoreOpen and Migration

The root, the configuration, the four directories, the session file and the
lifecycle lock are on disk; each process is at one step of a start or a clean.
The lifecycle lock is taken in one step, from a dead owner too: what can go
wrong in taking it is in `StoreLocks`. A store begins empty or with a v1
session. A v1 id is a number and `print` says which id each identity has, so
that collisions are a choice of the initial state; a v2 id is long enough to be
taken for its identity. Field checks of damaged JSON are left out, except
those whose outcome migration must guarantee (`Valid`) and a symbol without its
selector, which proves nothing (`Named`).

### CurrentRegion and Relocate

Texts are sequences of bytes from a small alphabet. A file is an inode with a
text and a time; others write it in place, put a new file in its place and
remove it between any two steps of the read, and a free inode number may be used
again. The read itself may return less than there is. mtime and ctime are one
time, and the clock ticks on its own. `Relocate` keeps every branch of
`relocateRegion` and `bracketSpan`; similarity is an exact fraction of the
pairs of characters that `Decoded`, the decoding of bytes, gives; the anchors are
byte sequences. A parse names each symbol once, as `treesitter.mjs` 166-167 sees
to. `AnchorBytes` and `MinSpan` stand for 128 and 512.

### PythonClient

Each caller makes one request, one more thread closes. A deadline may pass at
any time; `AcquireTimeout` and `GetTimeout` are its two places. `_fail` is two
steps, the failure and the kill, because another thread can run between them.
The worker is separate from its call and may outlive it: the bounded join is
taken not to wait at all. The child may answer late, reject, answer a line it
could not take with no id, hang and die.

### PiExtension

Calls come in order, each a read, a provider request or a shutdown, from
whatever session and workspace the host is at by then, and overlap as they will.
A bridge is named by the call that creates it. `Start` is `getBridge` up to its
first await, `Closed` and `Ready` what follows the awaits; `Serving` the answer
of the child to observe or prepare. A request carries the reads of its own
session, as the host's branch does. The contents of messages are left out but
for what decides the outcome: which reads the store knows, which failed.

### JsonLines

Every text of up to six characters is sent in every division into chunks. What
a request's answer says is not modelled, the answer is the line itself; output
back-pressure is left out.

### Client

Requests are numbers, replies carry the id and whether they are ok. The child
is what `server.mjs` and `jsonl.mjs` make of it: it takes the session's lock
with its first request, answers in turn, and releases the lock and exits at the
end of its input. SIGTERM and a crash stop it anywhere. Node's default handling
of signals, streams and process events is external and modelled from how
`client.mjs` uses it.

## 3. The runs

| Run | Instance | Shows |
| --- | --- | --- |
| `BuildProjection` | up to 3 units of 5 shapes on 2 paths, 2 times, 7 budgets at, below and above the rendered sizes | the loop is sound and implements `Selection`, byte count included |
| `SessionFiles` | 2 files, each with its text or unreadable, 1 request, 1 edit, 1 failing save, plans that expire at the next instant | a stale plan stays gone, an applied one was current file by file, commits are final |
| `SessionParts` | 1 file with a symbol and a region in 3 texts (apart, nested with the region edited, both gone), both granularities, 1 edit, 1 failing blob write | frames and references agree, plans are built from files as they were during that prepare, sequence numbers are unique, what is listed is archived although a blob write fails anywhere |
| `SessionPending` | 1 file, 2 requests for 1 pending place, 4 instants of a clock that may be set back, 1 edit | requests are settled once, the bound holds, no plan is lost without a reason, what was acknowledged is saved |
| `StoreLocks` | 2 processes for one session and 1 that cleans, no locks left over, up to two crashes and one disk error | locks are visible and held, the locks implement `SessionStore`, clean runs alone, refusals are justified, of the sessions that survive one gets in, all settle |
| `StoreLocksTwoOwners` (violation) | 4 processes and the locks of a dead fifth | two of them can own the session |
| `JsonLines` | all texts of up to 6 of 4 characters, one of two bytes, limit 2 | the answers depend on the text and not on the chunks |
| `Client` | 3 requests, 1 crash | every request settles, nothing late is taken for an answer, no child is left, close returns, and a quiet close lets the child release its lock |
| `StoreOpen` | 2 starts and 1 clean of one workspace, new or with a v1 session of up to two units and two results under every print of two ids; 1 crash, 1 restart, 1 failing write | what a start can find half done; an owned store opens; migration binds, quarantines and aliases right |
| `CurrentRegion` | reads of up to 2 bytes with 3 writes of 3 texts in 3 inodes and 1 tick; 78 regions in 141 texts with 4 parses | an honest snapshot; a region that is the region, clear of what else it could be, and stored so that other texts do not mislead |
| `PythonClient` | 3 callers and a close | one exchange at a time, nothing after a failure, every call returns |
| `PiExtension` | 3 calls over 3 places: two sessions of one workspace, and one of the first's id in another | one child per session at a time, results of the right session, every call ends |

Why the bounds are enough to be interesting. The properties of `Session` relate
one plan, its files and one competing plan: two files give the order of
rechecks, one file with three units gives every overlap and fallback, two
requests for one place give the eviction. One edit lands between any two steps
and so before, during or after any read; one fault makes memory and disk differ,
and the restart that follows shows it. `StoreLocks` keeps the four attempts of `acquireLock`;
three processes are two that compete and one that may die or clean meanwhile. In `StoreOpen` a session of two units has every kind of
collision: two candidates with one id, two units with one identity, an id that
proves nothing; one crash stands between any two steps and one restart meets what
it left. In `CurrentRegion` a snapshot is torn by a first write between two
partial reads and hidden, if at all, by a second one; three writes reach both
attempts. The texts hold a region twice and thrice, shifted, changed, between
repeated surroundings, with several similar spans of equal and of unequal
likeness, and with a character of two bytes cut in the middle. Three callers are one that times out, one whose
worker goes on, and one that comes next; three calls are one that opens a
session and two that overlap at the switch. In `JsonLines` six characters hold two oversized lines, or
one between two good ones. Deadlock checking is off where the system comes to
rest: everybody has exited, the input is used up, a bound is reached.

Fairness. `Session`, `JsonLines` and `CurrentRegion` have none, and check safety
only.
`StoreLocks`' `FairSpec` says that the event loop of each process runs what is
ready: a process between two awaits goes on. It says nothing of when a host
closes a session or a process exits. `Client` assumes that timers fire, that
events and lines in the pipe are delivered, that a signal kills and a released
child exits. It assumes nothing of the child's work, which may hang.
`StoreOpen` is fair as `StoreLocks` is. `PythonClient` assumes that threads run
and deadlines pass (`lock.acquire` and `completed.get` have timeouts) and that a
killed child dies, and nothing of the child's work or of anybody calling.
`PiExtension` assumes that a call goes on when what it awaits is there or has
timed out, and that a child told to stop goes, as `Client` shows. `First` fixes
the place of the first call: a session id and a workspace, of which any pair is
like any other to what comes after.

### What the violation run found

`StoreLocksTwoOwners`. Between the look at a dead lock and its rename another
process may have replaced it by a live one, which is then moved aside
(`store.mjs` 151). With a second dead lock this leads to two owners of one
session, against `docs/protocol.md` 157-158. It takes four contenders.

### Further observations

These came out of the same models; a property states its exception where there
is one, and no listed run repeats them.

Session and client:

* The fallback of a symbol lists a revision before it writes its blob
  (`session.mjs` 289-293), and when the write fails the revision stays listed, is
  saved with the next operation, and `recover` does not find it. `ArchiveComplete`
  allows this hole (`Hole`: a text of which the symbol is gone) and no other: every
  other write that fails leaves nothing listed.
* `commit` changes memory and then saves (`session.mjs` 483-490). When the save
  fails the host gets an error, its retry is answered "applied" from memory
  without a save (461-463), and after a restart the commit is unknown, against
  `docs/protocol.md` 143. `AckedIsDurable` says what holds until a save fails.
* After the clock steps back the plan evicted by `boundPending` may be the one
  just prepared.
* `close` forgets what is pending but keeps listening; the reply to a forgotten
  request is taken for an unexpected one and the child is killed (`client.mjs`
  27, 45), perhaps before it has released its lock. A close with nothing pending
  is safe (`QuietCloseReleases`).

Store:

* A process that dies between creating a lock and writing its pid leaves a lock
  that counts as live for good (`store.mjs` 104): `Legible` in `SurvivorsGetIn`,
  and `RefusedByTheLiving` holds until the first crash.
* A lock that is released between the failed `open(wx)` and the look at its pid
  makes `acquireLock` throw ENOENT, where one more attempt would have taken it
  (`store.mjs` 115, 148).
* Of sessions that contend for a dead lifecycle lock one gets in. With a clean
  among them all may fail: another contender moves the clean's own lock aside
  and gives up on it, and the clean then lists the moved file among the session
  locks. It finds its own pid there and refuses on its own account, or the file
  goes before it is read and it fails with ENOENT (`store.mjs` 147-156,
  358-366). `SurvivorsGetIn` therefore speaks of sessions.
* With a left-over lifecycle lock a clean can overlap an open, by the rename
  above: with left-over locks `CleansAlone` is claimed of `CarefulSpec`.
* A start that dies, or whose write fails, between mkdir and `config.json` leaves
  a root that every later start refuses (317-327), and a second first start
  refuses while the first still writes.
* A clean that dies between a removal and the mkdir after it, while a start is
  past its look at the directories, leaves that start open without them (330,
  347): the last conjunct of `TypeOK` excludes crashes.
* When an unproven v1 region has the present identity of a proven one, the later
  of the two overwrites the other's revisions (295), to which the alias still
  leads. What they named can no longer be recovered, against "Proven legacy IDs
  can still recover archived bytes" (`docs/protocol.md` 150-151): the last
  disjunct of `MigrationIsFaithful` exempts it.

Reading and relocating:

* Two writes inside the file in one tick of the file system's clock, with the
  size left alone, give a snapshot put together from two versions (`twice`).
* A file removed between the lstat and the first stat is reported as
  `resolution_failed` instead of `deleted` (`workspace.mjs` 102 is outside the
  try).
* A region whose only occurrence has moved is `invalidated` when its old place
  still has its surroundings (`relocate.mjs` 129-133 come first).
* When one of two equal regions is deleted, both units resolve to the survivor
  (137).

Bridges:

* Two calls that overlap at a session switch both wait for the old bridge to
  close and both create one; the first one's child keeps its session locked,
  the second is refused, and requests of that session are blocked until the next
  switch (`extension.js` 11-18). A read can then also be recorded in another
  session's store. `OneSessionAtATime` is therefore claimed while no call comes
  during a close (`calm`).
* A call that comes while a shutdown still waits may find its session locked by
  the child that is going.
* A read whose observe was applied and whose answer was lost fails for the host;
  its text is then not the observed one, and every later rewrite of that session
  discards its plan (`bridge.mjs` 69), though `bridges/pi/README.md` 86-87 says
  that known failed reads pass through.
* A Python caller that times out waiting for the lock kills the child another
  caller is using, whose call fails too (`freshctx_openhands.py` 143-144).

## 4. The theorems

The theorems hold for every value of the constants, under the assumptions the
modules name; TLC evaluates each on the runs. They say that absent values are
not records, ids or outcomes; that units belong to their paths and spans lie
within their texts; that what the code holds in memory at once is finite (the
units of a prepare, the units and revisions of a v1 session, the threads of a
client). Numbers of files, requests, processes, sessions, calls, edits, faults
and crashes are arbitrary. Each module's inductive invariant was checked by TLC
on the module's run before it was proved, and what is claimed of `PatientSpec` on
three processes of which one cleans, both left-over locks, and two deaths. None of the properties below is
inductive alone, except those of `ProjectionIsSound`.

### Projection

`BuildProjectionProofs`: `ProjectionTypes`: each unit passed is admitted or
omitted with a reason, never both, and what remains is the budget less the
admitted bytes (`TypeOK`, `Accounted`). `ProjectionIsSound`: an admitted unit
fits in what remains and clashes with nothing admitted before.
`ProjectionIsGreedy` is the refinement: the loop implements `Selection`, for
every finite input and every budget. `RInv` says
what the loop has done by the time it has passed some of the units: they rank
before those to come (`InOrder`), what remains is the budget less the admitted
bytes (`Accounted`), each was admitted exactly if it is disjoint from, and fits
with, those admitted ahead of it (`Greedy`), and each omission has its reason
(`Explained`). A step is then a stutter of `Selection` until the last one, which
is its answer. `Total` is a fold over a set; what it computes is shown by the
smallest set it would be wrong about (`SmallestSubset`), since the library's
induction rules need an operator as an argument, which the provers cannot
instantiate.

### Session

`SessionProofs`, first:

* `SessionTypes`: memory and disk always have the shape a start accepts;
* `PlansAlwaysMatchSources`: each frame of a pending plan, in memory and on
  disk, is a slice of the revision the plan references for its path;
* `RequestsAreSettledOnce`: no request is both pending and committed;
* `CommitsAreFinal`: a saved commit is never replaced or lost.

`IInv` adds that candidates are cut from the snapshot this prepare has cached
for their path (`CandidatesAreCached`: without it two units of one file could be
cut from two texts) and that memory has every commit the disk has, while a
prepare under way is for a request neither pending nor committed
(`MemoryLeads`: without it a save could replace a commit). Each action has its
lemma; `Decompose` and `Compose` take the invariant apart into facts about one
copy of the session and put it together again.

Then, each by an invariant on top of `IInv`:

* `PlansShowCurrentFiles` and `PlansApplyToCurrentFiles`, by `Witnessed`: what
  the operation has cached or compared so far was in the file since it began, so
  edits between the reads can make a plan stale but never a stale plan applied.
* `RejectionsStand`, by `Settled`: no plan of a rejected request is in memory or
  on disk, and neither is that of the one about to be reported. Restart brings
  back only what the disk holds, and the report waits for the save.
* `NumbersAreUnique`, by `Reserved`: the number an observe has taken is above
  all in use, although a restart may give numbers back.
* `PendingIsBounded`, by `Limited` for both copies: `boundPending` drops one
  because there can be only one too many.
* `TextsAreArchived`, by `Kept`: however blob writes fail, memory and disk list
  only what has its blob, but for a text that a symbol fell back to and that
  could not be written (`FallbackText`). The disk needs its own conjunct: a state
  is saved after its blobs, and an older state may come back.
* `AcknowledgementsLast`, by `Recorded`: between operations memory and disk
  agree, until a save fails, and the answer a save is about to release is true
  of what it saves. An answer given from memory without a save is then true of
  the disk too.
* `LossesAreJustified`, by `LossExplained`: at the save of an operation, each
  saved plan that memory no longer has was committed, had expired, was evicted
  or is stale.

### Store

`StoreLocksProofs`: `StoreLocksTypes` for all constants. Then, for any number of
processes, sessions, attempts, saves, disk errors and deaths, and whatever locks
the dead have left, until a rename moves a living process's lock aside
(`CarefulSpec`):

* `LocksExclude`: a session has one owner, whose lock is in place and names it;
* `OwnersAreUndisturbed`: what it holds is what is saved;
* `CleansFindNoSession`: a clean removes sessions only while none is open;
* `LocksImplementStore`: the processes behind their locks are the one-step store
  of `SessionStore`. Releasing the lifecycle lock is what opens a session there.

`HeldInv` says that whoever stands where the code holds a lock is named by its
file, and that the file of a living process that does not hold the lock is never
there (`FileNamesOwner`); that only what was moved aside is cleared
(`ClearsAside`); that an owner past its write has written its pid and remembers
what is saved (`OwnersKnow`); and that a clean has either listed or read the lock
of every living session (`CleanKnows`). A file of the dead may lie in any lock's
place, so a removal is harmless in two ways: the file is the process's own
(`GivesUp`), or nobody alive holds it (`Discards`). The condition of
`CarefulSpec` is needed in one step of the proof, `Rename`.

`OnlyARaceTakesALiveLock` says when that condition can fail: only when a lock was
put in place between another process's look at a dead one and its rename. By
`RenamesTheDead` what a process is about to rename is of the dead or gone, and
nothing but such a creation changes that; an unreadable pid or one that lives
never lets a process get there. So without that race (`PatientSpec`) the four
theorems hold of every behaviour (`PatientIsCareful`).

With no lock left over and until a process dies nothing is ever moved aside
(`NothingAside`), so `FreshLocksExclude` has the first three of every behaviour,
and `RefusalsAreJustified` adds that whoever is refused is refused for a live
process that holds the lock or is taking it. This last one needs that nobody has
died: a lock whose process died before it wrote its pid keeps everybody out.

`StoreOpenProofs`: `StoreTypes`, for any number of starts, cleans, failing
writes, deaths and restarts. It needs that whoever is between the lifecycle
lock's taking and its release holds it, so that nobody wipes beside an open
session (`Exclusive`), and that a directory a process has found is there unless
a clean is between removing and making it (`Kept`). `MigrationsAreFaithful`, for
every v1 session and every fingerprint of identities as ids: `VerdictJustified`
says what each branch of `identityVerdict` has established, `MigrateIsFaithful`
carries that through `migrateSessionV1`, where of the units that come to one
identity the latest stays (`LatestExists`), and `SavedIsOfOld` that the store
holds the old session, its migration or none.

### Reading and relocating

`CurrentRegionProofs`: `SnapshotsAreHonest`, for any number of inodes, writers,
writes and ticks. Stamps never go back (`Present`), so an open inode that
carries the stamp it had when it was opened has not been written to, unless
twice in one tick (`Unwritten`). As long as that is so, what has been read is
the inode's text up to there (`ReadSoFar`), and the third stat shows that it was
so to the end. Without a change in an attempt every stat sees the same
(`Steady`), hence the claim about `snapshot_unstable`.

`RegionsAreSure`, for every text, region and parse. Each way of finding a region
has a lemma (`StaysIsRegion`, `FollowsIsRegion`, `SimilarIsRegion`,
`SearchIsRegion`), on what `Occurrences` and `BracketSpan` return
(`OccurrenceIs`, `SpanIs`, `BetweenIs`): a span found between surroundings is in
bounds and has both. A region that has changed is in its old place, or clear of
every other span: no second start has an end to it, and of its ends the nearest
was taken, or the one no other is as similar as (`IsClear`).
The second half of `RegionIsSure` is about what is stored: found again in the
same text it is stable and unchanged (`RefreshedStays`), and in another text it
passes for unmoved only if it had no twin when it was stored, and stands where
its parent says (`IsStored`).

### Framing

`JsonLinesProofs`: `LinesTypes`, `AnswersAreOfLines` and
`LinesAreAnsweredBeforeWaiting`, for every text, limit and division into chunks.
What the answers should be is said of the text alone: a line lies between two
breaks, or between the last one and the end (`Lines`); a line that is blank and
within the limit is not answered (`Asked`); the k-th answer is that of the line
that k of them end by (`Rank`, `Expected`).

`LinesTypes` says what is held between chunks: the open line as far as it has
come, or nothing, exactly when that is over the limit (`OpenLine`).

The invariant says where the loop stands in the text. While it buffers, what it
holds is the text from the end of the last line to what it has taken
(`Buffering`); while it discards, the open line has more bytes than the limit
(`Discarding`); between chunks the buffer has no break and is within the limit
(`AtRest`). And the lines that end within what has been cut off have had their
answers, in order, and no others have (`Answered`). A step then cuts off the first line of
the buffer, which is the next of the text (`FirstLine`, `NothingBetween`), and
appends its answer at its rank (`AnsweringLine`), or takes a chunk, which changes
neither the lines that have ended nor the place of the open one. A sequence of
characters has at least as many bytes as any part of it (`BytesGrow`), so a line
given up as too long while it is open is too long when it ends, wherever the
chunk ends.

### Clients and extension

`ClientProofs`, for any number of requests and crashes: `ClientTypes`,
`CallersAreRemembered`, `NoAnswerAfterFailure` and `QuietCloseLeavesNoLock`.
Each request is in one of the two pipes or in the child's hands, never in two
(`OnePlace`), and while nothing has failed all that is under way is pending
(`AllExpected`). So no reply is unexpected, and a close that finds nothing
pending finds the pipes empty and sends no signal: the child comes to the end of
its input with nothing to do and releases its lock (`QuietIsQuiet`,
`GoneIsReleased`).

`PythonClientProofs`, for any finite number of threads: `ExchangesExclude` and
`NoResultAfterFailure`. The lock is not what excludes, since a call that gives
up releases it while its worker is still at the pipes. What does is that such a
call has failed the client before it releases (`OverOrFailed`), and that the
next one looks at the failure before it starts a worker.

`ClientProofs` on `PiExtension`: `SessionsAreApart`, for any number of calls, sessions and
workspaces. In calm one call at most waits for a bridge to close (`OneStops`),
the only children alive are the extension's and the one that call waits for
(`OneAlive`), and whoever was promised a bridge gets that one (`Promised`).

### What the proofs changed in the model

* `AppliedAgainstCurrent` was false as it stood: a restart during a commit can
  take back another request's commit whose save had failed, which changes the
  committed plans without applying one (two requests, two places, one failing
  save; the runs had too few of them together). It now speaks of plans that
  become committed.
* `ArchiveComplete`, `AckedIsDurable` and `PlanLossIsJustified` held on their
  runs because these gave the fault no budget. `ArchiveComplete` now names the
  one hole a failing blob write leaves and is checked with one; the other two
  say in the property: until a save has failed.
* `FreshLocksExclude` assumed that nobody ever dies. It now holds until somebody
  does.
* In `JsonLines` bytes are counted as the places of a text's bytes and a line is
  a pair of places in the text, where a recursive definition sorted the lines of
  the whole text: the same answers, in a form that can be reasoned about.
* The locks' exclusion was claimed only until a death. What it takes is less: that
  no living process's lock is moved aside.
* The constants and variables of `Client`, `Migration`, `StoreOpen`, `Relocate`
  and `CurrentRegion` got the types they were used with, as assumptions or in
  `TypeOK`.

### Only model-checked

* Liveness and fairness (`SurvivorsGetIn`, `EverybodySettles`, `NobodyHangs`,
  `OwnedStoreOpens`, `EverybodyReturns` of `PythonClient` and of `PiExtension`):
  out of the prover's reach.
* What of the locks outlives the race of `StoreLocksTwoOwners`: `LockVisible`,
  `CleansAlone` and `ImplementsSessionStore` of every behaviour with no lock left
  over and two deaths among three processes.

## 5. What is not modelled

* Protocol parsing, errors, the command line, demos and scripts: no state, or
  input and output only.
* Hashing, Tree-sitter: taken as injective, and as the constants `Spans` and
  `parsed`.
* The path checks, symbolic links, decoding and the git exclude of
  `workspace.mjs`: input validation.
* A corrupted blob or session file found at a later read, and damaged fields of
  a v1 session that validation refuses before migration.
* `recover` changes nothing; that it finds what it looks up is
  `ArchiveComplete`.
* Observations that a migration left unavailable, and aliases, once the session
  is open: `Session` starts from a v2 session without them.
* The OpenHands JavaScript bridge and the Python `Bridge` class: their rewrite
  repeats Pi's, over one client whose concurrency is `Client` and
  `PythonClient`; the rest converts message formats.
* Back-pressure on the server's output.

## 6. The plan

Done: all modules above, with their runs, and the theorems of section 4. Next,
in this order:

1. Aliases and unavailable observations in `Session`, if the runs can bear it.
2. How many processes and left-over locks the race needs before two own a session:
   runs with three suggest that it takes four contenders.
