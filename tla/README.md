# PandaFilter: a TLA+ model of its state and of what its filters keep

PandaFilter (`panda`) sits between a coding agent and its tools: hooks rewrite
shell commands, and compress what commands, file reads, searches and fetches
return. Every hook call is a process of its own that lives for some milliseconds;
what survives it is a handful of files under `~/.local/share/panda`, and one
long-lived embedding daemon. Two things are hard to test. The first is the state:
caches that decide that a command need not run or a file need not be shown, files
that several processes load, change and save without a lock, background saves a
process may not live to finish, and a daemon whose identity is two path names. The
second is what the filters leave of an output. Each of the sixty handlers and each
pass of the pipeline has unit tests with one typical text; what goes wrong needs
two groups past a cap, an output that ends inside a block, or success and failure
in one text. This directory models both in TLA+, checks them with TLC and, for the
central invariants of the state, proves them with TLAPS.

## Inventory

| component | code | state | operations | what is hard |
|---|---|---|---|---|
| daemon life cycle | `ccr/src/cmd/daemon.rs` | `embed.pid` (flock), `embed.sock`, processes | start, stop, status, idle exit, crash | files replaced by path while locked by inode; slow model load; SIGTERM before the handlers |
| embedding cache | `ccr-core/src/embed_cache.rs`, `daemon.rs` | map + FIFO queue behind a mutex | batch lookup, insert, evict | lock released during inference |
| embedding client | `ccr-core/src/embed_client.rs` | a deadline, an attempt count | connect, auto-start, retry, give up | daemon appears, dies, hangs between steps |
| session | `ccr/src/session.rs`, `hook.rs` | one JSON file per session: entries (30), totals, centroids, edits, file cache | find, record, save, invalidate | load-modify-save without lock; saves on detached threads; non-atomic write |
| result cache | `ccr/src/result_cache.rs`, `hook.rs` | session and global files of compressed outputs, redirect markers | lookup, insert, evict, save | freshness across tiers, TTLs, lost updates, markers that outlive their turn |
| read hook | `hook.rs` (`process_read`), `session.rs` | file content cache, recent edits | digest / diff / full decision, invalidation on edit | mtime granularity, partial reads, edits between read and save |
| pre-run cache | `ccr/src/pre_cache.rs`, `cmd/run.rs` | outputs keyed by git/kubectl/docker/terraform state | lookup before execution, write-through after | key taken before, output after; a hit skips execution |
| zoom blocks | `ccr-core/src/zoom.rs`, `ccr/src/zoom_store.rs`, `cmd/expand.rs` | per-session block files, thread-local counter | register, drain, save, expand | ids restart in every process |
| feedback | `ccr/src/feedback.rs` | block and expand counts per command | record, rate, scale | lost increments |
| noise learner | `ccr/src/noise_learner.rs` | pattern counts per project | record, promote, evict, filter | promotion is self-reinforcing |
| focus index | `ccr-core/src/focus/*`, `cmd/focus.rs`, `cmd/index.rs` | one graph directory per commit | build, swap in, evict | concurrent builders, failures between any two steps, evictions cut short, a lock that is never removed |
| knowledge store | `ccr/src/knowledge.rs` | SQLite table of errors and resolutions | record, resolve, hint | order of errors and fixes across sessions |
| filter trust, integrity | `ccr/src/filter_trust.rs`, `integrity.rs` | hash stores | trust, check, write baseline | file changes between check and use |
| compact capture | `hook.rs` (`compact`) | digest files per session | capture, restore | which digest is the latest |
| BERT budget | `ccr/src/bert_budget.rs` | per-process counter | reset, consume | shared by sub-passes |
| command rewriting | `ccr/src/cmd/rewrite.rs`, `handlers/mod.rs`, every `rewrite_args` | none | route a name to a handler, add flags, wrap a line in `panda run` | the line is split at blanks and printed without quotes; handlers rewrite twice |
| command handlers | `ccr/src/handlers/*` (63 files) | the `.git` directory decides for git, cat and diff | filter one command's output | caps, blocks, tallies, "all passed" notes, states no test combines |
| compression pipeline | `ccr-core/src/pipeline.rs`, `summarizer.rs` and the passes they call | none | rewrite, collapse, cut and choose lines | every stage works on what the last one left |
| analytics, gain, doctor, agents' installers, MCP server, conversation compressor, docs site, packaging | - | reports and configuration files | - | - |

How they interact: before a shell command the hook rewrites its line to `panda run`
when a handler knows it; `panda run` rewrites the words once more, runs the program,
removes the lines the noise store has learned, filters the rest and lets the store
learn from what went missing. A hook call (`hook.rs::process`) loads the session, consults
the caches, runs the pipeline (which asks the daemon for embeddings through the
client, and falls back without it), records what it showed in session, caches,
noise store, zoom store and knowledge store, and exits; `panda run` does the same around a command
it executes itself. Two hook calls of one session may overlap
when the agent runs tools in parallel, and sessions share the global files.

## Modules

The modules come in two families. Those on state model processes that share files. A process is a program counter and
the values it has loaded; a file is the value it holds, or `Torn` while it is
truncated and not yet written (a reader then starts from the default, as
`serde_json` failing makes the code do). One action is what happens between two
points where another process can be noticed: a system call on a shared file, a
read of the clock, an execution. Text is data: an output is a model value, or a set
of lines where deltas are compared.

| module | models | extends or uses |
|---|---|---|
| `EmbedDaemon` | `panda daemon start/stop/status` and the daemon processes they fork | - |
| `EmbedCache` | the daemon's connection threads, their mutex and the cache behind it | refines `FifoSet` |
| `FifoSet` | what the cache promises: a bounded first-in first-out set | - |
| `SessionState` | the session as a value: record, recent and similar entries | - |
| `ResultCache` | the result cache as a value: insert, evict, lifetimes | - |
| `BashHook` | `process_bash`: three cache tiers, polling, pipeline, detached saves | `SessionState`, `ResultCache` |
| `ReadHook` | `process_read` and `process_edit`: digest, diff or full text | - |
| `PreRun` | `panda run`: pre-run cache, execution, delta, dedup, write-through | `SessionState` |
| `ZoomStore` | blocks of left-out lines, their files and counts, and `panda expand` | - |
| `FocusIndex` | the prompt hook, `build.lock` and the builders of commit indexes | - |
| `Lines` | an output as a sequence of kinds of lines; what a filter returns | - |
| `TestRunners`, `BuildTools`, `Linters`, `Packages`, `Services`, `Files`, `Git` | the filters of the handlers, by what their commands do | `Lines` |
| `Promises` | what must be left of each command's lines: the tables the properties read | the filters |
| `TextPasses` | the passes of `Pipeline::process` that rewrite, collapse or remove lines | `Lines` |
| `Summaries` | how the pipeline chooses lines when a text is still too long, and the pipeline as a whole | `TextPasses` |
| `Rewriting` | which handler a name gets, and the words each handler adds | `SequencesExt` |
| `CommandLine` | `rewrite_command`: what becomes of a line of shell | `Rewriting` |
| `CommandOutput` | `panda rewrite` and `panda run` around one command, with the noise store | all of these |
| `MC*` | values of the constants and symmetry for TLC | the module named |
| `*Proofs` | theorems | the module named, `TLAPS` |

**EmbedDaemon.** `cmd[s]` and `daemon[s]` are the phases of start command `s` and of
the daemon it forks. The pid file is a path naming an inode (`pidPath`), with what is
written in it (`content`), since `flock` locks the inode and `unlink` frees the path.
`ReadPid`, `StartCheck`, `StartPollOk`, `StartGiveUp`, `CmdRemovePid`,
`CmdRemoveSock` and `Fork` are `start()` (daemon.rs:77); `StopCheck`,
`StopSeesDeath`, `StopKill` are `stop()`; `OpenPidFile` to `DaemonRemoveSock` are
`daemon_main` in program order, with `fs::write` in its two halves. Poll counts are
abstracted to "the budget may run out at any poll"; `TimelyLoad` switches off the
case that a model takes longer to load than a start waits. A stop that loses its patience
sends SIGKILL and goes on (`killed`); the death comes when it comes (`KilledDies`), as
daemon.rs:467-470 waits for none. `undermined` is a history
variable: somebody has removed a file that a running daemon relied on, by its path.
A path that names nothing gets the least inode number that is free.

**EmbedCache.** `Lookup` is the first critical section of a request (a whole batch,
daemon.rs:363), `Acquire`, `StoreOne`, `Release` the second one; between them the
model runs without the lock. `Insert` is `EmbedCache::insert` with its eviction loop.

**SessionState, ResultCache.** Values and the operators the hooks apply to them, so
that BashHook and PreRun share one translation. An entry also keeps which call made
it (`of`), which the properties need and no operator of the code looks at.

**BashHook.** `Begin`, `Tier1`, `Tier2`, `Tier3`, `Poll`, `Compress`, `Store` follow
`process_bash` (hook.rs:106-750) from load to answer. Its saves are detached threads:
each call carries the phase of each save, and `Exit` may come before, between or
after them, as `main` returning ends them. `SessionOpen`/`SessionWrite` is
`fs::write` in place; `CacheOpen`/`CacheWrite`/`CacheRename` is the temporary file,
whose name all processes share, so another call's rename may move or replace the
inode a thread is still writing (`moved`, `replaced`). `Parallel` lets calls overlap;
`BriefSpec` is `Spec` with a clock that stands still while a call runs.

**ReadHook.** Files have a content per region and a modification time in seconds; a
read returns some of the regions. `Load`, `Stat`, `LoadAgain`, `Pipeline`, `Dedup` are
`process_read`, which does wait for its saves (`SaveOpen`, `SaveWrite`); `EditHook` is
`process_edit`. `shown` and `orderly` are history variables: what the agent has
last been shown of each file, and whether so far no call overlapped another or died, no
change was hidden inside one second, and each file was read by one range only, with
texts the cache takes.

**PreRun.** `Worlds` are states of repository, cluster and containers; a command
prints lines depending on the world (`Prints`) and changes it (`Effect`). `Start`
takes the hash (pre_cache.rs:88), `Lookup` may answer from the cache, `Execute` runs
the command, `Delta` and `Dedup` are run.rs:163-242, `Through` to `CacheRename` the
write-through.

**ZoomStore.** A call is a list of passes; each registers some blocks (`Pass`, zoom.rs:41)
and is followed by a save of what is registered, or not (`Saves`, as hook.rs:406-623 and
1084-1109 have it). `OpenText` to `WriteMeta` are the loop of `save_blocks`, with
`fs::write` in its two halves; `CountBlocks`, `OpenCounts`, `SaveCounts` are
`record_blocks`. `Answer` is the output with the markers later passes have left in it.
`Ask`, `LoadBlock`, `BlockCommand`, `CountExpand` are `panda expand`, whose two searches
take the first session directory in whatever order the system lists them. `opened`,
`stored`, `made` and `asked` are history variables.

**FocusIndex.** `Prompt`, `TakeLock`, `Spawn` are `focus.rs:run` up to the spawned
`panda index`; `Check` to `Sweep` are `run_index`: build aside, remove what is in
the way, rename, write the metadata, evict. `Remove` deletes file by file as
`remove_dir_all` does, and returns with an error on a directory that another builder has
removed or refilled. `List` and `Sweep` are `evict_lru`: one listing, whose equal time stamps
may come in either order, then one directory after the other, the loop and `run_index` ending
with an error at the first that is gone. `Fail` is every other `?` of `run_index` (git, SQLite, the
file system) and every death: a builder may end at any step and leaves what it has in
place. `HookFails` is the hook that cannot create the lock, or has it and cannot spawn
`nohup`. The listing is read in one step, while the code opens directory after directory.
`disturbed` and `unswept` are history variables: whether HEAD moved or something else
than prompts and the builds they start has happened, and which listed indexes no eviction that ran to its
end has had in its listing since their metadata was written.

**Lines and the filters.** A filter decides by a line's words which branch it takes, so a
line is abstracted to its *kind*: one string for all the lines that take the same
branches, written as such a line looks (`"error[E1]"`, `"test ... FAILED"`, `" M a"`).
What a filter returns is a sequence of entries: `<<"line", i>>` is line `i` of the text,
whole, trimmed or shortened; `<<"more failures", 3>>` is a line the filter writes
itself, with the number it states. This keeps which lines survive, in which order, and
every number, and leaves out widths, colours and wording. A loop that carries a state is
`Scan` with a step, a cap is `Capped`, and the branches of the code are the sets of
kinds. Each filter is one operator, named for the function it stands for.

**TextPasses, Summaries.** A text in the pipeline is a sequence of entries over the lines it
came from, so that passes compose. What embeddings decide is a choice: the noise scores
remove any of `NoiseKinds`, a summary keeps any lines its budget allows that it must
not keep anyway, and lines of one set of `Alike` may be clustered. With `use_router` on, as in the
instance, a text may also go through untouched (pipeline.rs:101): which texts do depends on
their entropy and length, so every text may. `Critical` are the kinds
that `is_critical` and the noise filter's hard-keep expression match, which agree on the
kinds used. `Global` holds the thresholds of the configuration, scaled down.

**Rewriting, CommandLine.** `GetHandlerExact`, `GetHandlerAlias`, `GetHandlerBert` are the three
ways from a name to a handler; `RewriteArgs` is `rewrite_args` of all of them. A line is the
sequence of pieces between its blanks, so the pieces of a quoted word with blanks are
elements of their own, as in the code; `Printed` is what the shell reads of the words
the hook joins without quotes.

**CommandOutput.** `Hook` is `rewrite.rs:run`; `Rewrite`, `Route` and `Run` are `panda run`
rewriting the words it was given; `Launch` picks a command that prints when called so;
`Emit` adds a block to its output; `Exit` is run.rs from the program's end on: pre-filter,
handler (or pipeline), recording, promotion; `Again` runs the command once more with the
store it left. The pre-run cache, delta and dedup around it are `PreRun`'s. `typed` is
empty for texts that come from no command line (`panda filter`, the read hook, what the
shell hook passes on).

## Runs

| run | question | instance |
|---|---|---|
| `daemon_recovery` | do racing starts leave one daemon, recorded? does the system come back from whatever slow loads, a stop, crashes or idle exits leave? does every command return, and has every stopped process ended or been sent SIGKILL? | 2 racing starts and a last one, 1 stop, 1 status, 2 failures, 3 inodes |
| `embed_cache_threads` | do queue and map agree, are replies right, does the mutex come back? does it refine the FIFO? | 2 threads, 3 keys, capacity 2, batches up to 3 |
| `bash_parallel` | what survives overlapping calls, early exits and deaths? | 2 calls, 2 sessions of up to 2 entries, 2 texts equal up to noise |
| `bash_days` | which calls does a session hold? what do hits and markers promise over the lifetimes of caches? | 4 calls in sequence, 4 instants, lifetimes of 1 |
| `read_whole` | is what an answer refers to something the agent has? | 3 hooks (2 at a time), 2 files, 3 instants, cache of 1 |
| `pre_run_calls` | what do hits and markers of `panda run` stand for? | 3 calls (2 overlapping), 2 commands, 2 worlds |
| `pre_run_branches` | *violated*: a hit may skip execution | `git branch a`, `git branch b` |
| `zoom_sessions` | does a marker bring back its own lines? | 2 calls of 2 sessions, 1 expand, up to 3 blocks a call |
| `index_builders` | is an index that is found complete? how many stay after an eviction? does a first one come of the build a prompt starts? | 2 builders failing at any step, 2 commits, 2 instants, keep 1 |
| `index_lock` | *violated*: prompts build an index unless one is being built | 1 builder, 2 commits, 2 instants |
| `handler_output` | what is left of the lines that matter, what do the notes state, what becomes of the words? | 169 commands and texts, up to 3 blocks each; some 450 command lines |
| `noise_learned` | *violated*: "errors, file paths, and results are always kept" | `git status` three times, one modified file |

Bounds, and why they are enough. Hazards here are between two processes and a file,
so two overlapping processes plus one that comes before or after are the smallest
instances in which all of them happen; the third daemon start shows what becomes of
the files the first two have left, and any number of racing ones is a theorem
(`OneDaemonWins`).
Capacities are 1 or 2, so that eviction happens, but in `bash_days`, which asks about what is kept. Clocks are bounded
by `MaxTime` with lifetimes of 0 or 1: what a comparison distinguishes is "within" and
"after". `MaxFailures` bounds deaths of daemons. The shell call of `zoom_sessions` saves
twice, so that a second batch continues the numbers of the first. In `bash_days` and in PreRun and
ReadHook time passes between calls only, which take a fraction of the lifetimes
compared, and in FocusIndex between builds, so that overlapping ones have equal stamps; BashHook
in `bash_parallel` lets it pass at any moment. Two builders and two commits with one index to
keep are the least in which an eviction finds its directory gone: each builder lists both
commits before either removes the older. That it then leaves an excess takes a third commit;
`EvictionHolds` is about any number. One builder of the prompt is enough for `index_lock`,
whose traces need no second one. Bounds of the code
(30 entries, 200 cached outputs, 20 files, 5 indexes) are constants, and the theorems
hold for all their values. Deadlock is not checked where the instance has finitely
many calls and ends.

Fairness. `EmbedDaemon`: every command and every daemon that runs keeps running (weak
fairness per process), and a process sent SIGKILL dies; no fairness on crashes, idle exits or new commands. The last
start comes after everything has settled, as "every later attempt" does in practice.
`EmbedCache`: a thread that holds the mutex runs; inference may last for ever.
`FocusIndex`: prompts keep coming (`WF` on the hook), a builder that runs gets on;
nothing is assumed about manual builds, commits, failures and deaths, and
`FirstIndex` is stated of the histories without any but commits. The hooks have no
liveness: a call that hangs is killed by the agent.

The instance of `CommandOutput`. A row of `MCCommandOutput` names a command, the blocks it
prints; `Promises` says what must be left. Blocks are sized to the filter's limits: when a cap is 25,
a block has 9 to 15 such lines, so that one block stays below it, two or three pass it, and
the rest of the room goes to another group, a summary or an error, before, between or
after. Three blocks, in any order and repeated, are enough for every pair of branches of a
filter to meet with a third thing in between. `counted` are the lines that must be
accounted for, `ways` the notes that may do so, `bad` and `success` the lines that say that
something is wrong and the notes that say that nothing is, `keep` the lines of which one
must stay. A row leaves out what is known to fail (listed below); where a filter promises
nothing, the row only drives its branches. `PromoteMinCount` is 2 for the code's 10, and
commands whose store matters run twice. Thresholds of the pipeline are 5 to 56 lines or
words for the code's 20 to 5,000. `CHECK_DEADLOCK` is off because a run ends with its output.

The assumptions of the pipeline's part are two constants. `NoiseKinds` are the lines the
noise scores may remove, one of them critical; `Alike` are the lines that may fall into one
cluster, one pair of them mixed. Both cases happen in the run, and `CriticalKept` says what
they may take.

## What the runs show

* Until somebody removes the files of a daemon that runs, one daemon runs (`SingleDaemon`)
  and the pid recorded is the socket owner's (`OwnerRecorded`). Three things remove them. A
  stop or a start that found a dead process's pid, when another start's daemon has opened
  the file meanwhile. A daemon on its way out, likewise. And a start, when
  a model takes longer to load than the 3 s a start waits (daemon.rs:86;
  embed_client.rs:11 says 5 to 15 s): it unlinks the locked pid file, a second daemon passes
  the lock, and the comment at daemon.rs:166 does not hold. With timely loads starts
  alone never do (`StartsAreHarmless`). The system recovers anyway: a start in a
  settled system always ends with a reachable daemon.
* A stop that found a pid removes the files and returns only when that process is dead or
  has been sent SIGKILL, in every interleaving. It does not wait for the death after
  SIGKILL, so a dying daemon may still hold the lock of a file the stop removes, which counts as
  undermined.
* The cache's lock is not held during inference and nothing goes wrong by it.
* Cached answers are compressions of exactly the text asked for, whatever saves race.
  Their age is bounded by both lifetimes together, 25 h and not 24: tier 2 copies an
  entry into the session's cache with a new time stamp (hook.rs:299 against
  result_cache.rs:5).
* A session holds the last calls recorded in it, as many as it keeps, by consecutive turns and at times
  that never go back (`SessionsAscend`), whatever exits before its save (and, by
  `SessionsInOrder`, whatever overlaps). It need not hold every call: overlapping ones lose each other's
  entries and use one turn number twice, and a torn file is an empty session.
* Cached outputs are frozen (result_cache.rs:29) as long as calls do not overlap; with
  overlapping calls two compressions of one text alternate.
* A digest or diff refers to a text really read from that file, and, with nothing
  overlapping or hidden within one second, to the one the agent has. Reading another range of the
  same file breaks it: the second range is answered by a digest though it was never shown
  (hook.rs:919 against structure_map.rs:3-5), so `orderly` excludes it; the theorem
(`AgentsKeepUp`) is about files read by any one range each, the instance about whole files.
* A hit of the pre-run cache is one run's output under the same words and hash
  (`HitIsARun`), and current if nothing changed between the hash and that run
  (`HitIsCurrent`). It is not always allowed to skip: `git branch b` is answered from
  `git branch a` and never executed (`pre_run_branches`).
* `panda expand` prints the lines of the marker it was typed for, whoever overlaps or dies,
  as long as their call has saved them and no other call, of any session, has begun to save
  a block of that number (`RestoresTheOnlyOne`). Why not more is said below.
* An index found under a commit's name is finished and, unless HEAD moved, that
  commit's, whichever builders overlap, fail and die (`IndexComplete`). Of the indexes that were
  listed before an eviction that ran to its end, no more than `Keep` stay (`EvictBound`). More than `Keep`
  do stay when evictions are cut short: two builders list the same excess, one removes the first
  directory, the other finds it gone and leaves the rest of its list, and its error is
  `panda index`'s (indexer.rs:176). Nothing makes up for it but the next build's eviction.
* If nothing but prompts, their build and commits happens, and nothing fails, prompts lead to an index, of
  HEAD if it stayed (`FirstIndex`). That is all: `build.lock` is never removed, so prompts
  start one build and never another, also if the commit is a later one, the build failed or died,
  or was never spawned (`index_lock` shows each of them: left alone, HEAD has no index for good).
* Through every cap, group and block of the filters, the failures, errors, matches, rows and
  changes a row counts are shown or in a number the output states (`FailuresAccounted`),
  with the exceptions below; one line that says how a command ended stays (`SummaryKept`).
* No note like "all tests passed" or "Build OK" stands for an output with a line that
  matters (`NoFalseSuccess`) in the mixtures the rows print. With a noise store it may: the
  status handler writes ` M a` as `  a`, so the store takes the line for one the filter
  always drops, removes it from the third status on, and the handler then finds nothing and
  says "nothing to commit, working tree clean" (`noise_learned`). In the code it takes ten.
* The pipeline shows a critical line, or a cut that says how much it took, through
  every pass and every way to choose lines (`CriticalKept`). Two stages are exempt since
  they do drop them: the noise filter, and a cluster of which only the representative's
  words are looked at.
* A handler adds words and takes none away, in the user's order, contradicts none of the
  pairs of flags in `Contrary`, and adds a word once although the hook and `panda run` both
  rewrite (`UserWordsStand`).
* A line of shell runs the same commands after the rewrite, each as it was or wrapped whole,
  and unwrapped when its output goes to a file or a pipe (`CommandsStand`), provided that no
  quotes hold a blank or an operator, that its operators are of one kind, and that the handler adds
  no word the shell takes apart. Each proviso is a defect (below).

Met while modelling, and not runs of their own. In the state:

* The turn a redirect marker names is `entries.len() + 1` after the push (hook.rs:736):
  one too high, and 31 for ever once 30 entries are kept, while the session numbers
  turns by `total_turns` (session.rs:271).
* Saves of the shell hook run in detached threads (hook.rs:732) and are lost when the
  process returns first.
* The re-read by edit ranges (hook.rs:1000-1038) looks for a centroid under a file
  path, which only commands get: it is dead code, and would slice past the end of a
  text shorter than the file.
* The edit hook compares with a file in which `old_string` has already been replaced,
  so it seldom records an edit or forgets a cached text; modification times do the
  work. Texts over twice the size limit are not cached and do not displace the older
  text of the file, after which a history is not `orderly` any more; texts between the
  limit and twice the limit are stored cut, and the next diff shows the rest as new.
* Zoom blocks. zoom.rs:54 and zoom_store.rs:72 say that ids are unique within a session, or
  scoped to it. They are unique within a process: every call of a session begins with `ZI_1`
  (zoom.rs:25) and overwrites the block an earlier answer still names, so a marker is good
  until the session's next compressed output. `expand` is given no session and prints the
  first one's block of that number; it looks for the key separately and may count the
  expand for another command than the one whose lines it prints. Blocks that passes after the last
  drain register are never stored (hook.rs:612-623, and 1102-1109: edit-aware compression and
  cross-file dedup): their markers name nothing, or another call's lines. The condition
  of `RestoresTheOnlyOne` leaves out exactly these cases; without it TLC finds the
  overwritten block at once.
* `panda run` keeps the output of failed commands, and a hit on one exits 0. A delta
  against one turn lists what is new only, so outputs that differ in lines removed have
  equal deltas and `find_exact` takes them for the same.
* A builder that dies leaves its temporary directory; one that dies before the metadata
  leaves an index that is never evicted. Co-changes since the previous index
  are entered into an empty database (indexer.rs:256).

In the rewriting of command lines:

* `tree` becomes `panda run tree -I node_modules|.git|target|...`, which the shell reads as a
  pipeline (tree.rs:15, rewrite.rs:352); `docker ps` and `docker images` get a `--format` of
  several words without quotes.
* Splitting at blanks and joining with one collapses blanks and newlines inside quotes: a
  commit message of several lines, a here-document. Operators inside quotes are split at, and a
  `>` within quotes may be cut in two by it.
* A line with operators of two kinds is split at the first kind only: later segments are not
  rewritten, and flags are appended behind them, to another command than the handler's.
* `head -n 5 f` and `tail f` become `cat f`, with the filter of whole files.
* Flags are appended after `--` (grep, pytest, jest); `find a b` gets `-maxdepth 8` after its
  first path, and cuts its results without a note; `git -C log log` gets its flags in the
  wrong place; `docker ps --format=x` gets a second `--format`. An alias gets the flags of the
  program it stands for (deno as jest, pylint as mypy, gcloud as aws).

In the filters, by what they lose or claim:

* Conflicts: `UnmergedKinds` of the code miss `DU` and `AU`, so a merge with only such
  files is "in progress, no conflicts" (util.rs:523). Linked worktrees have a `.git` file and
  no operation is ever seen in them.
* Success claimed: `npm install` completes despite `npm ERR!`; `npm audit` takes "10
  vulnerabilities" for none (npm.rs:400); `terraform init` completes with boxed errors; `pip
  install` is "already satisfied" when it also installed; `go test`, `go vet` and playwright
  report success for text they do not know; `kubectl get events --no-headers` has no warnings; a
  package of `go test -json` that never ends is ok, and all of its events are skipped when the
  first line is none (go.rs:244); rows before the head of `npm outdated` are none (npm.rs:484); cargo's JSON with only warnings becomes a
  number.
* Lines lost without a number: the fifth hunk of `diff` (diff.rs:45); changed lines that start with
  `-- ` or `++ ` in `git diff`; ungrouped lines of grep once any is grouped; offences
  beyond ten of rubocop; warnings beyond five of vite and next; groups beyond 200 of log; the
  summary of pytest inside an open block; a panic among `ok pkg` lines of `go test`; the error
  after a Python frame without source in a stack trace.
* Numbers that are wrong: eslint caps at 30 and subtracts 20 (eslint.rs:94); golangci-lint's heading
  counts the first 40; nx counts a cached task twice (nx.rs:137); `git log` counts trailers as
  commits; a test that fails inside a bullet block of `npm test` is written twice.
* The pipeline: the rules remove "remote: error: ..." with git's progress lines; the default
  terraform pattern removes boxed errors; JSON levels written as numbers are information; a text
  cut in chunks loses the marks of what an earlier chunk left out and counts them as lines; a
  summary against a centroid may be empty without a mark.

## Proofs

| theorem | says | from |
|---|---|---|
| `EmbedDaemonProofs!TypeCorrect`, `StopIsEffective` | types; a stop's target is dead or sent SIGKILL when stop goes on | `ConstantsOK` |
| `OneDaemonWins`, `PidIsSocketOwner` | `SingleDaemon`, `OwnerRecorded` for any numbers of starts, stops, deaths and idle exits | `ConstantsOK` |
| `StartsAreHarmless` | starts never remove the files of a daemon that runs | and `Calm`: no stops, failures, idle exits; timely loads |
| `EmbedCacheProofs!TypeCorrect`, `CacheStaysConsistent`, `RepliesAreRight`, `CacheIsFifo` | types; queue and map agree; replies are the model's; refinement of `FifoSet` | `ConstantsOK` |
| `BashHookProofs!TypeCorrect`, `SessionsInOrder` | types; in every copy and file the last calls, by consecutive turns | the named assumptions |
| `BashHookProofs!PollsRefer` | `PollHasReferent`: a "same output" marker names a call of the session, similar and recent, in files any process may tear | the named assumptions |
| `BashHookProofs!HitsAreExact`, `HitsAreYoung`, `RedirectsRefer` | what hits and redirects stand for, any calls, sessions, texts and bounds | the named assumptions |
| `BashHookProofs!CachesStayWhole` | `CachesIntact`: wherever processes exit or die, the cache files parse | and calls that do not overlap (`~Parallel`) |
| `BashHookProofs!OutputsFrozen` | `FrozenOutputs`, under `BriefSpec`: hits of a session on a text are byte-identical while the first lives | and `~Parallel`, `Ttl <= GlobalTtl`, no more texts than a cache holds (`Roomy`) |
| `ReadHookProofs!TypeCorrect`, `BasesAreRead` | types, with the capacities of the session; `BaseWasRead` for any calls, files, texts and similarity | `ReadConstants` |
| `ReadHookProofs!AgentsKeepUp` | `AgentKeepsUp`: in an orderly history a digest or diff starts from what the agent was last shown, for any files, ranges, sizes and capacities | `ReadConstants` |
| `FocusIndexProofs!TypeCorrect`, `IndexesAreComplete`, `EvictionHolds` | types; `IndexComplete`, and `EvictBound`, for any commits, builders and number kept, whatever fails or is cut short | `IndexConstants` |
| `PreRunProofs!TypeCorrect`, `HitsAreRuns` | types; `HitIsARun` for any calls, commands, worlds, lifetimes and bounds | `RunConstants` |
| `PreRunProofs!HitsAreCurrent`, `MarkersAreHonest` | what hits of a state command and "same output" markers stand for | `RunConstants` |
| `ZoomStoreProofs!TypeCorrect`, `ExpandRestores` | types; `RestoresTheOnlyOne` for any calls, sessions, passes and expands | `ZoomConstants` |
| `ZoomStoreProofs!CountsAreNotInvented` | "a lost increment is harmless" (feedback.rs:14): the file never counts a block or an expand that did not happen | `ZoomConstants` |
| `CommandOutputProofs!RewritesKeepWords` | the rewritten words hold the typed ones, in order, for a command of any words and any length | any handler but vitest's |
| `CommandOutputProofs!RewritesOnce` | rewriting once more, as `panda run` does after the hook, changes nothing | any handler but vitest's |
| `CommandOutputProofs!ReportsSafe` | `NoFalseSuccess`: whatever lines a command prints, however many and in whatever order, nothing shown says that all is well when one of them tells of a failure | `CommandsAssumption`, and `Handled`: all commands but two; see below |
| `CommandOutputProofs!SummariesStay` | `SummaryKept`: whatever lines a command prints, however many and in whatever order, a line that says how it ended is shown when there is one | `CommandsAssumption`, and `Summed`: all commands with such lines but six; see below |

The arguments.

* *Daemon*: `BornOnce` (a start forks once) makes a pid a name for one process, and
  `PidsAreBorn` says that pids in files and in commands' hands are those of processes born;
  dead processes stay dead and killed ones killed, so `TargetDead` is inductive. Until the system is undermined,
  every descriptor a daemon locks or waits to lock is of the inode the path names, so the
  lock excludes, and the socket is its holder's from bind on (`InUse`); the first removal of
  a file in use sets `undermined`, which stays. In calm conditions a start never takes the
  files of a daemon that runs for stale (`NoCleanup`, `PidsRun`).
* *Cache*: `CacheConsistent` is inductive because `Insert` appends a key only when it is
  new; replies need in addition that map and filled slots hold the model's vectors
  (`CacheRight`, `SlotsRight`).
* *Sessions*: every value, in a file or in a copy, was made by `Record` at a time not later
  than now; a call that overwrites another's loses entries and keeps order.
* *Cached answers*: every entry in any file, temporary file or copy names a call that has
  finished with exactly that text (`Sound`), which survives saves in any order because each
  writes a sound value whole or tears the file.
* *Polls*: an entry of a session value names a call that has finished there with that
  command and output, so whichever value the lookup loaded, its newest similar entry is one
  (`PollInv`).
* *Whole files*: when only one call has threads, nobody moves or replaces the file it
  writes, so its rename puts a value there whole and a death before it leaves the old one
  (`Solo`).
* *Frozen*: it is not enough that an answer came from a cache; every cached answer must
  still be kept by each value that is the session's or the global cache, or that a save
  under way may make so (`Promises`): the session's has that compression, or, its save lost,
  has none alive and the global one has it, which was stamped no earlier and lives longer
  (`Dates`, `Ttl <= GlobalTtl`). What could replace it is an eviction, which `Roomy` rules
  out, or a second call that has missed meanwhile (`Misses`), which `~Parallel` and the
  clock of `BriefSpec` do.
* *Reads*: every text in a session value was read by a call already past its own look at the
  cache (`Looked`), every entry by one past its record (`Told`); what a call finds when it
  looks is therefore another call's (`ReadInv`), and both sets only grow.
* *What the agent has*: while a history is orderly, the cached text of a file is the one
  shown last, and, where the file's time has not changed, the one on disk (`Agrees`, in
  `OrderInv`); every call under way carries what it needs to say so again after its save
  (`CallInOrder`), and each step that could break it makes the history disorderly.
* *Indexes*: a builder's database is finished before it renames (`CarriesFinished`), and a
  rename succeeds only onto a name that is free or empty, so a valid database in place is
  always one that was carried there whole; `HeadKept` ties it to the commit unless HEAD
  moved. An eviction that has its listing spares `Keep` of it, has the others before it (`Before`), and
  knows which were listed since (`since`); all listed indexes but `Keep` are among these two
  (`AllButFew`, in `Bounded`). Other builders only take indexes away or add to `since`, so when the eviction has
  none before it any more, all but `Keep` were listed since, which is what `unswept` then holds. An
  eviction that is cut short claims nothing and changes nothing of what an earlier one has shown.
* *Runs*: a call that has run its command keeps command, hash and world, and prints the text
  it saved or dies (`Kept`); every entry of the pre-run cache, in the file, a temporary file
  or a copy, is one such a call filed under its own slot and hash (`Filed`), every entry of
  the session one it recorded (`Recorded`), and what a marker in either names is a run of
  the same command (`Honest`). A save writes a sound value whole or leaves the file torn,
  which is read as empty, so `RunInv` survives any order of the unlocked saves, and the
  facts about hits and markers follow from what a hit or a match is looked up by.
* *Zoom*: a call is always saving a number it has given and not drained (`Numbers`), opens
  each number once (`OpenedOnce`), and a file that is there was opened by a call of that
  session and number, and holds its block once stored if no other call opened that number
  (`FilesOpened`); so wherever a search finds a file of such a number, it is the one. Counts
  held in copies and in the file are at most what has happened (`Bounded`): a load takes a
  bounded value, an increment is matched by one of `made` or `asked`, and a torn file is
  read as none.
* *Rewriting*: a handler's words are put at one place (`Put`), so the typed words have their
  places before and behind it (`Within`); and what was put there is among the words for
  which the handler looks before it puts anything (`Given`), provided that it still sees the
  same subcommand. That is the work for git, whose subcommand is the first word that is no
  option, and whose words come behind the first word that reads like it, which may be an
  option's value: then the next rewrite sees the first word put as the subcommand and adds
  nothing (`GitSubAgain`).
* *Reports*: a filter writes a note only under a name of its own, so it suffices that, given a
  line that tells of a failure, everything it writes is a line of the output or a note whose
  name is no success (`Honest`, `Tells`). The sequences of such entries are closed under all
  that filters build outputs with - lines of some kinds, the first or last n of them, those
  chosen, notes and counts, one after another, flattened, the whole output in place of nothing -
  which is `Writes`, proved once (`Written`); from there each filter is a walk through its
  branches (`...Says`) in which every branch that writes the success is shown not to be taken.
  Filters that carry a state over the lines are loops: what must hold of it after each line (for
  `go test`, that the failure is remembered until the end) is an invariant of the loop, by
  induction on the number of the line, which is over naturals (`LoopKeeps`). `ReportInv` adds
  what the steps around the filter owe it: that lines are kinds and no kind is called "line",
  and that a command that is run once meets an empty noise store.

  What `Handled` leaves out is what is not true. A program that prints both its failure and its
  own words for success ("All checks passed.") is believed by the filter (`Clear`). A
  failure that is not critical may have been learned as noise when the command is run more
  than once, which is `noise_learned`. And two filters can take a failure for success in
  orders that three blocks do not reach: `go test -json` when what comes before its first
  event is not JSON, `npm outdated` when rows come before the table's head (`Unproved`).
* *Summaries*: the same sets of outputs, each restricted to the outputs that show a line of
  the kinds a filter must keep (`Showing`). How such outputs arise is `Keeps`, proved once
  (`Kept`): an output stays in the set when anything is put before or behind it, and what takes
  from the whole output, in order, the lines of kinds among which the kept ones are makes
  one. From there each filter is again a walk through its branches (`...Keeps`), which says of
  every branch that is taken when such a line exists that it writes it. A loop has two
  invariants, that what is shown stays shown and that the line is shown once it was read
  (`Follows`, `Adds`), with what the loop holds back in the meantime - eslint's problems of one
  file, turbo's rows, rspec's block - counted in. `LeavesBy` passes from a filter to its
  command, `EachLeaves` to all of them, `ThroughLeaves` to what the noise store lets through,
  and `SummaryInv` is inductive for the same reasons as `ReportInv`.

  What `Summed` leaves out: six commands (`Loose`) whose filters cut by length or hand the
  linters' and scripts' output on (`npm run`, `pip show`, `gh repo clone`, `python`), and those
  without a handler (`Unknown`), whose text goes through the pipeline; a program that also says
  that nothing is wrong, which its filter shortens to that, or a script whose output a test
  runner's filter is given (`Settled`); and, when a command is run more than once, lines that
  may be learned as noise, which is all but the critical ones.

The assumptions say no more than that capacities are at least one (the code's are 5 to
200), that `Never` and `Blank` are none of the values they stand in for, that a read
asks for regions a file has, and that a command prints finitely many lines and leads from
one of the worlds to another. A theorem's further hypotheses say which schedules it is about:
`FrozenOutputs` and `CachesIntact` do not hold of overlapping calls, and `bash_parallel` shows what
does.

Only model-checked: liveness (`EmbedDaemon`, `EmbedCache`, `FocusIndex`), which needs fairness
and `ENABLED`, and of `CommandOutput` what counts or compares sequences: that the lines a filter
left out are in its numbers (`FailuresAccounted`, sums over folds), the pipeline
(`CriticalKept`), whose passes compose recursive functions over entries, and lines of shell
(`CommandsStand`): induction over data, which the provers do not do. Of rewriting that leaves
vitest's handler, which selects words, and the flags that contradict each other (`Contrary`, in
`UserWordsStand`).

## Not modelled yet, and the plan

The components listed as not modelled in PROJECT.json, in the order planned. A module
follows the ones above: files as values, one action per visible step, an abstract promise
where there is one.

1. `Learners` (knowledge.rs, and of noise_learner.rs what `CommandOutput` leaves out): counts
   loaded, changed and saved by overlapping calls, eviction, resolutions across sessions.
2. `TrustedFilters` (filter_trust.rs, integrity.rs, trust.rs, user_filters.rs,
   config_loader.rs): a hash recorded at one time and compared at another.
3. `CompactDigest` (hook.rs:2855-2987): which digest a compaction writes and restores.
4. `EmbedClient` (embed_client.rs), composed with `EmbedDaemon`: auto-start, retry,
   deadline; a client returns in bounded polls whatever the daemon does.
5. The texts left: the glob, grep and web hooks, the user's filters, delta, error signatures and
   the installers, as further rows of `CommandOutput`.
6. Composition: BashHook with the learners and the zoom store, since a promoted line
   changes what later calls cache.

Every safety invariant of the runs on state is a theorem, and of those on text `NoFalseSuccess`
and `SummaryKept`. Theorems wanted next: that what `Rewriting` adds to a command is a contiguous
run of words of its handler's; that a session's save by one call alone loses nothing; and the
learners' counts, once modelled, beside those of `ZoomStoreProofs`. Runs stay few: one per
question.

Out of scope: the embedding model and its numbers, SQLite, git, the agents, network; the
evaluation harness, the documentation site and packaging, which have no state the
system depends on; analytics, whose rows nothing reads back; the MCP server and the command
line, which dispatch to operations modelled elsewhere.

## Reading the checks

`tlc -config X.cfg M` for the rows of `runs` in PROJECT.json; `tlapm M.tla` for the
modules named `*Proofs`. Each property has a mutant: an operator `Mut...` next to the
definition it mutates, with a bug a change to that code could make, under which
the property fails in its own run. They appear in no specification.
