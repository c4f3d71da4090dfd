# Verification of code-annotator

code-annotator serves the Markdown and source files of a directory to a browser
and to coding agents, who discuss them in *annotations*: comments on a document
or on a selection in it, each with a status and an append-only thread.
Annotations live in one JSON *sidecar* per document. This directory holds TLA+
models of the parts of the program where reviewers, agents, editors, crashes
and clocks meet, the TLC runs that check them, and theorems proved with TLAPS.

`PROJECT.json` lists, for machines, what this file explains: components, runs,
mutants, which definition models which lines (`map`), findings, hazards and
theorems.

## 1. Inventory

| Component (source) | State | Operations | Meets | Hard behaviour | What makes it correct |
|---|---|---|---|---|---|
| Annotation domain model (`internal/annotation`) | none | lifecycle table, `TransitionEntries`, validation, `NewSource`, `ResolveAnchor` | used by all below | lifecycle by role; time order inside threads; anchors in edited text | threads explain statuses; a stored sidecar passes validation |
| Mutation operations (`internal/server/annotation_operations.go`, handlers in `annotations.go`, `annotation_ui.go`) | none between requests | create, reply, transition, reattach | document file, sidecar store, clock, clients' revisions | read document, load, save are three moments; lost answers; clock steps; restart | no lost update, no move from an outdated status, quote is what was selected |
| Sidecar store (`internal/annotation/store`) | sidecar files, one mutex per process | `Load`, `Save`, legacy migration, merge of unknown fields | server, offline commands | partial writes, power loss, two processes | whole files, durable acknowledgements, compare-and-swap |
| Offline commands (`internal/commands/mutations.go`, `annotations.go`) | none | reply, resolve, export | sidecar files, beside a running server | a second process | a confirmed update stays |
| Queue read (`handleAnnotationQueue`) | none | conditional GET over all sidecars | sidecars, documents | many reads in one answer | the ETag names the answer |
| Agent client (`internal/commands/agent.go`, `poll-agent-queue.sh`) | the loop's cursor | queue, reply, resolve, discover | server over HTTP | failed polls, lost answers, timeouts | every change reaches the agent |
| Discovery (`internal/discovery`) | one registry file per process id | `Register`, `List`, `Remove` | servers, `agent discover` | killed servers, slow probes, reused process ids | a live server can be found |
| Application (`internal/app`) | listener, registry entry | start, serve, shut down | discovery, store | shutdown timeout with requests under way | entry withdrawn, saves finished or not begun |
| Comparison controller (`internal/server/comparison*.go`) | the base, under a read-write lock | `active`, `selectCommit` | page and state reads, git | a selection during a request | one base per response |
| Page and state reads (`server.go`, `viewer_state.go`, `document_state.go`, `*_views.go`) | none | render, viewer state, catalog state | documents, sidecars, comparison | several reads in one response | digest, ranges, anchors and revision agree |
| Browser review client (`web/src/review*.ts`, `annotation-card-disclosures.ts`) | viewer state, request kind, pending operation, selection | mutate, refresh, navigate | server, DOM, HTMX events | two requests in flight, late answers | sends the revision it shows |
| Document panel client (`web/src/document-*.ts`) | scope, running and queued request | search, filter, navigate | server, HTMX | events during a request | shows the newest query |
| Content root and index (`internal/content`) | none | walk, resolve, read | file system | symbolic links | only reviewable files |
| Git diff (`internal/gitdiff`) | none | resolve, list, parse, align | git processes | hunk boundaries | every line once and in order |
| Rendering, highlighting, presentation (`internal/render`, `internal/highlight`, rest of `web/src`) | caches, DOM | formatting | - | - | - |

Interactions: a browser tab or an agent reads a revision (annotation list, queue,
viewer state) and a document digest (viewer state), and later sends a mutation
with `If-Match` and, for selections, the digest. The handler reads the document,
then loads the sidecar under the store mutex, computes a validated successor and
calls `Save`, which takes the mutex again, compares the revision of the file
with `If-Match` and replaces the file by a rename. Editors change documents and
offline commands change sidecars without asking the server.

## 2. Modules

- `Annotation` - the domain model as pure operators: the lifecycle table,
  `TransitionEntries`, `NewSource`, `AnchorState`, `SidecarValid`. A sidecar is a
  function from identifiers to records. Texts are the set of fields a request
  fills in. Documents are abstract contents: `Text[d][r]` is what byte range `r`
  holds in content `d`, `Relocates` which quotes a search finds in which content.
- `ReviewConversation` - the abstract specification: comments are opened,
  replied to and moved along the lifecycle, each in one atomic step, a move
  judged by the status at that moment, nothing ever removed.
- `AtomicStore` - the abstract specification of the store: a register of updates with
  compare-and-swap. `Swap` adds one update to exactly the content its caller knows,
  `Confirm` tells that caller once the content is durable, `Fail` leaves it untold, and
  `Crash` keeps the content or goes back to the one that was durable.
- `ReviewServer` - the mutation operations of one server process over one sidecar.
  A request goes `idle -> accepted -> prepared -> answered -> idle`: `Accept` is
  `loadAnnotationSource`, `Create`/`Reply`/`Transition`/`Reattach` are load,
  checks, successor and validation, `Save` is `Store.Save` (one step, as it holds
  the mutex throughout), `Deliver`/`Lose` the answer. `expected` is the client's
  `If-Match`; a revision, the digest of the bytes, is the sidecar itself. World:
  `EditDocument`, `SetClockBack`, `SaveFails` (before or after the rename),
  `Restart`. `applied` is a ghost that records what reached the file.
- `SidecarStore` - `Load` and `Save` at the grain of system calls. `file` is what
  the path shows, `durable` and `synced` what a power loss would leave. A content
  is the set of updates in it. Processes have separate mutexes, threads of one
  process share one. `CallFails`, `Kill`, `PowerLoss` strike at any step.
- `QueuePolling` - `handleAnnotationQueue` read by read, `agent queue --etag` and
  the loop of `poll-agent-queue.sh`, with sidecars saved and documents edited
  between the reads.
- `Discovery` - the life of server processes (`run`: listen, register, serve, shut
  down or fail, return; or be killed) beside `agent discover`: `StartDiscover` is
  `ReadDir`, `ReadEntry` one `ReadFile` of `List`, `ProbeAnswers`/`ProbeFails` one
  `isServerLive`, `Prune` the `Remove` that follows, `Conclude` the choice. The
  registry is the set of its files. `PidsRecur`, `UrlsRecur` and `ProbesTimeOut` say
  which of the world's accidents can happen. The ghosts `steady` and `doomed`
  remember which servers could be found, and which entries nobody answered for,
  ever since an agent started.
- `FileDiff` - one request for the changes of a document: `BuildFileDiff` reads, Git
  prints a patch of whatever the worktree holds by then, `ParsePatch` looks at sizes,
  text and git's words for binary data (`Supported`), `alignPatch` goes through the patch
  record by record (`EnterHunk`, `Deleted`, `Added`, `Context`, `LeaveHunk`, ...) and
  checks every line of it against both sources, and the renderer validates the rows
  and derives source map and overview from them. A source is the sequence of its
  lines; `RawOf` takes a line's newline off and `Strip` one carriage return, so that what the code
  strips once, twice or in two places is seen. Git is the constant `GitDiff`, the set of patches it may print for two
  contents. `Describes` says which those are, in the terms of git's unified format and
  not in the code's: the records of a hunk are lines of both sources, where its header
  has them, and between hunks both sources are the same. Only the theorem about the
  right patch uses it; the others allow any patches at all.
- `ReviewTab` - a browser tab in review mode over an abstract server: the page, the
  viewer state and the panel come from reads at different moments (`RenderDocument`,
  `RenderPanel`, `LoadSource`, `LoadAnnotations`), forms are sent with the revision of
  the viewer state, several may be under way, answers arrive in any order or not at
  all. `marks` are the two variables `requestMutationKind` and `requestMethod` of
  `review-htmx.ts`, which every htmx request of the page sets: the forms of the review panel
  (`SendRequest`) and the document panel's GETs (`SearchGoesOut`), which follow a search of the
  reviewer, a restored scope and every announced mutation; `searching` says that some are yet to
  go out. `refreshes` the calls of `handlePanelChanged` that wait for a viewer
  state. A mutation is one step of the server here, as `ReviewServer` shows it to be
  (`NoLostUpdate`, `ServerImplementsConversation`); a revision is the position of a
  sidecar in `history`, since none recurs (`RevisionSpentOnce`). `waited` is a ghost: the reviewer never acted while something
  was under way, requests of the document panel included; `missed`: the viewer state after the last mutation did not arrive.
- `DocumentCatalog` - the comparison base of the server, the pages and document panels
  read against it (base, changed files, sidecar counts, comparison control, each a
  moment of its own, any of which may fail), and the tab that shows them: search
  timer, scope boxes, restored scope, annotation updates, one panel request at a time
  with the newest one waiting (`Queue`), and the answer that replaces panel and field.
  A save of the tab (`SaveAnnotation`) and its announcement (`Announce`) are two steps with a
  viewer state between them, and the second may never come (`SaveGoesUnannounced`).
  The server picks a page's first scope from all changed paths (`InitialScope`), the tab one
  from the changed documents of the catalog (`ResolveScope`).
  Ghosts: the number of the selection that made a base, `announced` (the tab's saves when it
  last announced one), `failed`, `hasty` (the panel
  was asked for before the scope was restored), `crossed` (a navigation ended while a
  panel request ran).
- `MCReviewServer`, `MCSidecarStore`, `MCQueuePolling`, `MCDiscovery`, `MCFileDiff`,
  `MCReviewTab`, `MCDocumentCatalog` - the instances TLC checks.
- `ReviewServer_proofs`, `ReviewContent_proofs` (both about `ReviewServer`),
  `SidecarStore_proofs`, `QueuePolling_proofs`, `Discovery_proofs`, `FileDiff_proofs`,
  `ReviewTab_proofs`, `DocumentCatalog_proofs` - the theorems.

`ReviewServer` and `SidecarStore` overlap on `Store.Save` on purpose: the second
shows (`ImplementsAtomicStore`, `FileIsWhole`) that within one process a save is the
atomic compare-and-swap that the first takes it for: `Unconfirmed` maps a caller
between rename and return to its pending update, the rename to `Swap`, the directory
sync to `Confirm`.

## 3. Runs

| Run | Asks | Instance and bounds |
|---|---|---|
| `review_server` | Is anything lost when outdated requests race? Does the file always load, do threads explain statuses, and does the server implement the conversation, when the clock steps back? | 2 clients, 3 requests of a discussion (comment, reply, moves both ways, one without its text, reattachment), clock 0..4 that may be set back at any moment, from no sidecar, an applied comment and one without its selection |
| `review_server_selections` | Is a stored quote what was selected? Is a revision spent once? | 2 clients, 3 requests to comment and reattach, 2 contents, 2 ranges, one missing in one content |
| `sidecar_store` | Whole, durable, compare-and-swap as `AtomicStore` has it, and everyone answered? | 2 threads of one process, 4 updates, 2 faults |
| `offline_commands` (violated) | Is a concurrent edit rejected across processes? | 2 processes, no faults |
| `queue_polling` | Does the cursor name the printed queue, does the agent catch up? | 2 documents, each saved 3 times and edited once, 2 failed polls |
| `queue_not_modified` (violated) | Does a 304 mean nothing changed? | 2 documents, one edit each |
| `discovery` | Are entries withdrawn, dead ones removed, and does a signal end the process? | 2 servers, 1 agent, process ids and addresses used again, slow probes |
| `discovery_prompt` | Does discover ever guess, or take a serving server off the registry? | 3 servers of 2 roots, 1 agent, no accident but kills |
| `discovery_slow_probe` (violated) | Are only the entries of servers that exited removed? | 2 servers, 1 agent, slow probes |
| `file_diff` | Is an aligned diff the diff, is the right patch accepted, do renderer, source map and overview agree with it? | all patches between any two of 18 contents of up to 4 lines (empty, no newline at the end, lines that differ in their terminator only, two carriage returns, not UTF-8, git's words for binary data, too long), one edit between the reads |
| `review_tab` | Does the panel ever go back, a draft get lost, a retry conflict for nothing, an offer get refused, a quote differ from what was selected? | 2 contents, 3 revisions, 2 forms or searches, any number of document panel requests that follow from them, 1 comment typed, 1 edit, an applied comment without its selection |
| `document_catalog` | Does a page show one base, does the panel come to rest on what its field and boxes say, with the counts of what the tab announced? | 2 documents and a changed file that is none, a configured commit that is no longer listed and a listed one, 1 selection, 1 text, 2 acts of the user (saves among them), with and without a stored scope or the changed-only flag of earlier versions |

Why the bounds are enough to be interesting: a lost update needs two requests
that build on the same revision and a third that looks at the result, and three
requests by two clients give every order of their accept, prepare, save, answer
and refresh steps. One clock step back separates two dates of one thread, and
three requests put entries on both sides of it. The store needs two writers, one that
acts on the other's leftovers, and two faults (a kill that leaves an unsynced
file, then a power loss). The poll needs a save before and a save after each of
the two reads. A wrong choice of discover needs two servers that
are as good as each other and a third that is not; a wrong removal a server that
leaves an entry behind and one that starts while the agent reads. A diff needs
changes at the first and the last line and between equal lines, and lines that
have one text and are not the same. A tab needs two requests whose answers
overtake each other and a save of somebody else between them (`MaxRequests` counts forms and
searches of the reviewer, not the requests that follow an announced mutation); the panel a
request that runs, one that waits and one that replaces it. `MaxOps`, `MaxClock`, `MaxUpdates`, `MaxFaults`, `MaxRevision`,
`MaxEdits`, `MaxFailures`, `MaxComments`, `MaxRequests`, `MaxTurns`, `MaxTexts` and
`MaxActs` only bound the runs; the theorems hold for every
value of them. Clients are symmetric; the runs with symmetry check no liveness.

Deadlock is not checked where a bound stops the system in the ordinary course
(every request spent, every update made); `queue_polling` and
`review_server_selections` and the discovery runs check it, as their loops never end.

**Fairness.** Four liveness properties are claimed. `SaveReturns` assumes
that a thread whose next system call can be made makes it, and strong fairness
of `Lock`, which `sync.Mutex` gives by handing the lock to a goroutine that
waited for more than a millisecond. `QueueCatchesUp` assumes that the loop, the
handler and the shell keep going: the loop has no exit without `--once`, its
failures are bounded by `MaxFailures`, as without it a server that is down for
good would do. `ShutdownEnds` assumes that the timer of `Shutdown` fires and that a
process that returned from `run` ends; handlers may go on for ever. `PanelSettles`
assumes that the server answers each read (Git runs under a time limit, sidecars
are local files) and that the browser delivers answers and timers; failed
answers count, and nobody has to act. Nothing is
assumed of reviewers, editors, clocks or faults.

## 4. What the runs found

1. **Offline commands do not reject every concurrent edit** (`offline_commands`).
   `Save` compares and renames under the mutex of its own process; the server and a
   command, or two commands, can both pass the comparison, and the later rename
   drops the earlier, confirmed update. `docs/designs/annotations.md:594-598`
   promises a rejection (lines 356-360 of the same file concede that the mutex
   does not lock other processes). `FileIsWhole` does hold across processes.
2. **A 304 does not mean that nothing changed** (`queue_not_modified`).
   `queueETag` leaves out the documents, but the body resolves anchors in them.
   What does hold is `CursorNamesQueue`: no *sidecar* change is ever missed.
3. **`agent discover` also removes servers that are running** (`discovery_slow_probe`).
   A probe that takes more than half a second counts as dead, the entry goes,
   and a server registers only once. `README.md:333-335` and the comment of
   `runAgentDiscover` speak of servers that exited. Between `Register` and `Serve` the
   listener accepts and nobody answers, and a process id used again between the
   reading of an entry and its removal has the same effect (not only, as
   `docs/designs/server-discovery.md:222-227` has it, "an inaccurate discover result").
   In the latter case the entry that goes was never probed (hazard at `agent.go:368`; no run
   has it). `ServersStayListed` shows that nothing else has the effect.
Behaviours that no run of their own shows but worth knowing: the
server's reply does not clamp its time as its transition, its reattachment and
the offline reply do, so that while the clock is behind a comment's last update
every reply to it is answered 500 (`FileAlwaysLoads` holds thanks to the validation
before `Save`); and a mutation whose directory sync fails is answered 500
although it is in the file (`SaveFails`), after which the client's retry is refused as a
conflict (`RevisionSpentOnce`).

Two more are what `RightPatchAccepted` makes an exception of:

- The patch that `addedFilePatch` writes for an untracked file holds texts that have lost a
  carriage return, `alignPatch` takes one more off (`patch.go:156`), and a line that ends in
  `\r\r\n` no longer fits its source: the diff is refused, where
  `docs/designs/code-review.md:577-578` has every supported untracked file shown as added.
- A text document is refused a diff when a changed line of it, or the line git picks as a hunk's
  heading, contains `Binary files ` or `GIT binary patch` (`Supported`, `Marked`).

The browser side works for a reviewer who lets the page settle after each form;
`ReviewTab` and `DocumentCatalog` name, by their ghosts, where it does not otherwise:

- Kind and method of a request are two variables of the page. With two forms under
  way, or a read of a panel sent while a form is, the first answer is handled as
  the last request: a reply that succeeds can clear the comment of a create that
  conflicts (`docs/designs/annotations.md:666-668` has the comment kept), and a
  create that was saved can leave its text in the form, ready to be sent twice.
- The document panel's GETs set these variables too. One that goes out while a form is under
  way (after a search, or after the mutation before was announced) makes the form's answer
  look like a read: although the mutation is saved and on screen no viewer state is fetched, where
  `docs/designs/server-rendered-review-ui.md:701-702` has it fetched after annotation
  mutations, the comment stays in the form, nothing is announced, and the next form is refused
  as a conflict. `RetryCarriesPanelRevision` and `WaitingKeepsDraft` are therefore about a
  reviewer who lets the document panel settle as well; the server loses nothing either way.
- `If-Match` is the revision of the viewer state, not that of the panel on screen
  (`docs/designs/server-rendered-review-ui.md:326` has it taken from the panel).
  Reading the panel anew with the box for closed comments does not refresh the viewer
  state, so that the next mutation may conflict over a change the reviewer has seen.
- Page, panel and viewer state are reads of three moments. A selection whose page and
  viewer state are of different contents quotes what the viewer state's offsets hold
  (`SeenIsQuoted` holds when they are of one).
- A panel search made before the stored scope is restored leaves the panel at the
  older scope (`hasty`), and a panel request sent before a navigation and answered
  after it marks the document the reader came from (`crossed`), both until the
  next request. Text typed while a panel request runs disappears
  with the field when the answer comes; its search still follows, unless an
  annotation update clears the timer first (`TimerFires`, `UpdateGoesOn`).
- A save is announced to the document panel after its viewer state has come. It never is
  when that fails, when the answer is handled as a read, or when it is an error although
  the sidecar was renamed (`SaveGoesUnannounced`): the counts then stay old until the next
  request for the panel. `CountsCatchUp` is about the saves that were announced.

## 5. Proofs

All theorems hold for every value of the constants, from the assumptions named
in the modules (`NoSourceAssumption`, `BoundsAssumption`, `RequestsAssumption`,
`PastAssumption`, `ProcessAssumption`, `IndexAssumption`, `RootAssumption`,
`WorldAssumption`, `LinesAssumption`, `GitAssumption`, `TabBoundsAssumption`,
`InitialReviewAssumption`, `CatalogAssumption`, `CatalogBoundsAssumption`), which TLC
evaluates in every run.

- `ReviewServer_proofs`: `TypeCorrect`, `NoLostUpdate` (`AppliedPersists`),
  `AppendOnly` (`ThreadsOnlyGrow`). `AppliedPersists` is not inductive: a
  prepared request could hold any successor. `IInv` adds, for each request under
  way, that what the client saw and what it expects are earlier states of the
  file, and that the successor it prepared extends the sidecar whose revision it
  *expects*, by its own operation only, and shows its own mutation; and that
  requests under way have distinct operation numbers, not yet in the file. `Save`
  writes only if the file equals `expected`, so the successor extends the file it
  replaces, although the sidecar the handler loaded may have been an earlier or a
  later one. The ghost and the file only ever grow (`ExtendedTransitive`,
  `ShowsMonotone`). `AppendOnly` follows from the same invariant.
- `ReviewContent_proofs`: `StoredIsLoadable` (`FileAlwaysLoads`), `StatusIsRecorded`
  (`StatusFollowsThread`), `MovesAreExplained` (`MovesCarryActivity`) and
  `SourcesWereSelected` (`SourceWasSelected`), with the clock free to be set back. What
  makes them inductive is `ContentInv`: not only the file is good, so is every successor
  a request has prepared, with the mutation it stands for counted as applied; `Save` then
  replaces one good sidecar by another. That each operation leads from a good
  sidecar to a good one is a lemma of its own, over threads of any length.
  `RevisionsAreSpent` (`RevisionSpentOnce`) assumes that the clock is not set back and
  (`PastIsPast`) that no sidecar of an earlier session is dated after the server's start.
  `RevisionInv` then orders the revisions: every save leads to one that is later, by a new
  annotation or a later `updatedAt`, than all that were ever expected. Neither assumption
  can be dropped: a reattachment adds nothing but its time, so that with a clock set back
  two of them may restore the bytes, and with them the ETag, of an earlier sidecar
  (`annotation_operations.go:326`, listed as a hazard).
  `ServerImplementsConversation` (`ImplementsConversation`) is the refinement: a comment's
  status and thread are those of its record, a save is an `Open`, `Reply` or `Move`, a
  reattachment one of an unchanged status or a stutter, everything else a stutter. Its
  invariant `TalkInv` says of every prepared request that its successor is one such step
  away from the sidecar the handler *loaded*, and that this one lies between the sidecar
  the client expects and the file. When `Save` finds the file to be the expected one,
  the conversations of all three are the same (`SameConversation`: threads only grow, and a
  thread leads to one status), so the step is one of the file as well.
- `SidecarStore_proofs`: `TypeCorrect` and `ReadersSeeWholeFiles` for any number of
  processes, from `WholeInv`: the file and its durable state are whole contents, what
  a saver loaded is one, its temporary file is complete once written and flushed
  before the rename. `AckedStays` and `SaveSwaps` hold under `OneProcess`, an
  assumption of those two theorems that is false in `offline_commands`. Their
  invariant `SwapInv` adds that whoever is saving holds the mutex, that from the
  comparison to the rename the file is what it loaded and the temporary file is
  that and its own update, and that what was acknowledged is durable. `SaveIsAtomic`
  (`ImplementsAtomicStore`), under `OneProcess` too, follows from it step by step: of all
  the system calls only the read, the rename and the return are seen.
- `QueuePolling_proofs`: `TypeCorrect`, `CursorIsPrinted` (`CursorNamesQueue`).
  `IInv` adds that what was read of the body and what is left to read make up
  the candidates behind the ETag of the answer, and that a 304 is only
  answered to a cursor that equals it.
- `Discovery_proofs`: `TypeCorrect`, `RunWithdraws` (`WithdrawnOnExit`), `DiscoverPrunes`
  (`DiscoverHeals`) for any number of agents at work at the same time;
  `ServersStayListed` (`ServingStaysListed`) from `~PidsRecur` and `~ProbesTimeOut`, stated
  as assumptions of that theorem. `IInv` says that every entry at hand anywhere
  (registry, list, failed probe) is the one its server wrote and that this server
  has been listening; that entries in the registry will be removed by their run,
  or their server was killed; that a doomed entry still registered is among
  those its agent has yet to read, probe or remove; and that, without timeouts, an
  entry about to be removed is of a server that has stopped. One entry at a time
  is about to be removed, without which `DiscoverHeals` is not inductive.
  `DiscoverNeverGuesses` (`AnswerIsNoGuess`) needs no assumption. `Searches` says where a
  server that could be found all along is: still to be read, probed or removed, or among
  those that answered, or of a root that was not asked for. One whose probe timed out is removed,
  and by that is no longer one that could be found all along.

- `FileDiff_proofs`: `FileDiffTypeCorrect` and `DiffIsComplete` (`RowsAreTheDiff`), for any
  contents and *any* patches: nothing is assumed of Git. `IInv` says that the rows so
  far show exactly the first `oldShown` and `newShown` lines, once and in order, and
  that every row is honest; `AppendStep` shows that rows for the next lines keep it,
  and `GroupAppends` and `UnchangedAppends` that the two kinds of groups are such rows.
  `RendererAcceptsTheRows` (`RendererAgrees`) rests on that: rows that show every line once
  and in order pass `validateDiffRows`, and the loop of `DiffSourceMap` counts them
  off (`LinesThroughUnfold`, `SelectableLines`). `OverviewLeadsToTheChanges`
  (`OverviewNavigates`) says of the loop of `deriveDiffOverviewHunks` that after each row its
  hunks are the runs of changed rows so far (`AreRuns`, `HunksAreRuns`), from which the
  links (`TargetsAreCells`) and the labels (`LabelsLocate`) follow. Both loops are recursive
  functions over the rows. The library's induction theorems cannot be used here; `Induction`
  takes their place for a set of numbers (the least number outside it has a
  predecessor inside), and `RecursionExists` shows that a function with such equations exists.
  `RightPatchIsAccepted` (`RightPatchAccepted`) assumes of Git that its patches describe the two
  contents (`Describes`, part of `GitAssumption`) or only say that they differ, in the words
  `Supported` looks for; it is about supported text, and excludes the untracked file with two
  carriage returns (section 4). `PatchFollows` is its invariant: while the
  bytes read are those git saw, the cursors are where the records passed have left
  both sources, within a hunk as many lines behind its first one as it has listed, between
  hunks at lines that are the same up to the next header. So each of the checks of `alignPatch`
  succeeds: the header fits (`HunkOfTheRightPatch`), so does each line (`RecordOfTheRightPatch`), and
  so does what is left (`RestOfTheRightPatch`).
- `ReviewTab_proofs`: `ReviewTabTypeCorrect`, `QuotesWereSeen` (`SeenIsQuoted`),
  `PanelOnlyAdvances` (`PanelNeverGoesBack`), `OffersNeverRefused` (`OffersAreAccepted`),
  `RetryIsCurrent` (`RetryCarriesPanelRevision`) and `DraftIsKept` (`WaitingKeepsDraft`). The
  panel only advances because an answer that still finds its target was rendered
  after that target: every request under way carries a fragment number no later than
  the one on screen and, if equal, an answer no older than its panel. The two properties of the patient
  reviewer rest on there being at most one request or refresh under way while
  `waited` holds, and none of the document panel beside it, with the marks its own:
  `searching` is false from the reviewer's act to the announcement.

- `DocumentCatalog_proofs`: `CatalogTypeCorrect`, `PagesShowOneBase` (`PageShowsOneBase`) from
  `ReadInv`: a read under way knows one base, no later than the server's, and its parts
  are of that base. `SettledPanelIsRight` (`SettledPanelMatches`) and `CountsAreCaughtUp`
  (`CountsCatchUp`) add `PanelInv`, which speaks of the request made last, waiting or under
  way: its scope is the tab's, its place the page's unless a navigation crossed it, and
  without an update waiting it has not counted yet or counted all saves that were announced. Only the last
  request matters, so dropping the ones between is harmless.

Every invariant and action property of the passing runs and both refinements are
theorems. Only model-checked are `SaveReturns`, `QueueCatchesUp`, `ShutdownEnds` and
`PanelSettles`: liveness under fairness is out of the prover's reach. The three
violations of section 4 are traces of TLC.

## 6. Abstractions

- One sidecar at a time: sidecars of different documents share nothing but the
  mutex. `QueuePolling` has several.
- Requests that never reach an operation (wrong token, origin, media type, body)
  and documents that are missing or too large change nothing and are left out. So is the
  500 for a document that is no longer UTF-8 when a comment with a selection is to be
  anchored in it, which a mutation meets before its save: contents are texts here.
- Identifiers are drawn without collision (80 random bits).
- The clock reads later at every reading unless it is set back.
- `Deliver` lets a client keep its old revision or take any that the answer
  carries (JSON answers carry the saved or conflicting revision, rendered panels
  a fresh read), so one action covers the browser and the agent.
- `agent discover` reads and probes entries in any order (the code: by file name), the
  operations on its own files do not fail, and the addresses of the registry
  belong to servers of this program or to nobody.
- The opening of the browser between `Serve` and the wait for a signal is left out.
- On Windows `atomicWrite` skips the directory sync; `AckedIsDurable` is about the
  other systems.
- `GitAssumption` takes Git to print a description of the two contents. The code does not
  rely on that, except that it refuses what is none; how Git finds the lines in common
  is not modelled. What Git prints for a change of type, with a conversion of line ends
  (`core.autocrlf`, filters) or with `diff.suppressBlankEmpty` and fused hunks is none; a hunk's
  heading is taken to be cut between characters. The format of the base commit's id was checked when the base
  was configured or selected; `ParsePatch` checks it again, which is left out.
- `MCFileDiff` takes Git's patches to be those of `--unified=0`, for any choice of the
  lines kept, and the ones with hunks fused across lines in common, which a user's
  `diff.interHunkContext` can ask for.
- `ReviewTab`: closing the tab, the next page and navigation by HTMX are left out, and with
  them the form of the comparison base and followed links, which pass `htmx:configRequest` too and
  replace the page; the reviewer's texts are numbered; replies only make a new revision. When
  the document panel's requests go out is `DocumentCatalog`'s; here any number may, for as
  long as `searching` holds.
- `DocumentCatalog`: sidecars are counted one by one, so one watched document stands
  for all; a commit's changed files do not change while a run lasts. Saves of
  other clients can only make a count newer and are left out.

## 7. Not modelled

- The store's `Open`, path checks, legacy migration and `mergeUnknownJSON`: sequential
  transformations of JSON trees of any depth, whose inputs a bounded run would hardly
  sample better than the unit tests.
- The byte search of `ResolveAnchor` (the table `Relocates` stands for it), Markdown and
  syntax rendering, tree building, the client's own filter behind Enter.
- The walk over the content root and the option parsing: sequential code over
  the file system; the set of documents is a constant.
- The search of offline commands over the catalog, and `annotations export`.
- Presentation: focus, disclosure, layout, themes, diagrams; assets and build scripts.
