# TLA+ models of the typing bridge and its producers

This directory holds TLA+ specifications of the system in `../src`, the TLC
configurations that model-check them, and theorems about them that the TLAPS
proof system checks. The system takes a description of a damaged room, turns it
into Xactimate line items, turns those into keystrokes, and types the
keystrokes on a PC through a Raspberry Pi and a Teensy.

## The system

| Component | Code | State it keeps | Operations | Talks to |
|---|---|---|---|---|
| Reordering buffer | `pi_keystream_bridge/ordering.py` | `next_seq`, the commands held behind a missing number, the gap timer | `push`, `recover_stale_gap` | called by the Firebase listener thread and by the heartbeat thread, with no lock |
| Bridge controller | `pi_keystream_bridge/controller.py` | threads, dispatch queue, counters, status | `start`, `stop`, listener callback, worker loop, heartbeat loop, status write | owns all the parts of the bridge |
| Firebase source, acknowledgements | `pi_keystream_bridge/firebase_stream.py` | `_last_cleared_seq`, `_pending_seq` | stream of events, `publish_applied_seq` (state write, then cleanup), `mark` | Firebase Realtime Database |
| Serial transport | `pi_keystream_bridge/serial_bridge.py` | the port | `send`: every line of a command, or an exception after some of them | Teensy |
| State file | `pi_keystream_bridge/state.py` | `last_applied_seq` on disk | `load`, `save` (written aside, then renamed) | disk |
| Event decoding, command model | `protocol.py`, `models.py` of the bridge | none | `extract_commands`, `from_mapping`, `to_teensy_lines` | |
| Command line, GUI | `cli.py`, `gui.py`, `config.py` of the bridge | a configuration file | `push-test` writes commands to the queue | Firebase |
| Firebase publisher | `xactimate_producer/publisher.py` | none of its own: `commands/` and the counters in Firebase | `snapshot`, `reserve_sequence_range` (a transaction), `publish_commands` | Firebase |
| Planning and publishing service | `service.py`, `compiler.py` | none | `plan_job`, `compile_job`, `publish_job` | catalog, publisher |
| Direct output, estimate export | `direct_output.py`, `estimate_export.py` | none | check that the bridge is ready, then publish | publisher |
| Drafts and claims | `drafts.py` | SQLite: drafts, rooms, operations; a lock per claim | turns (text, voice), item operations, publish, resume after a restart | agents, service |
| Agents | `workflow_agents.py`, `openai_agent.py`, `transcription.py` | none beyond a turn | orchestrate, plan a room with tools, verify | language models, catalog, policy |
| Policy | `policy.py` | rules read from a file | lookup of rules, `rerank_candidates`, `verify_room` | catalog |
| Catalog client | `runtime_client.py` | none | `recommend_for_item`, `get_item`, `explore_strategies` | catalog runtime over HTTP |
| HTTP API | `api.py` | the services | one route per operation, resume at startup | apps |
| Catalog runtime | `xactimate_catalog_runtime/` | a SQLite file, replaced by each build | build, search, lookup; every request opens connections of its own | |
| MCP server | `xactimate_openai_mcp/` | none | search, plan, compile, publish | service |
| Field capture app | `apps/XactimateFieldCapture` (Swift) | the open job, a pending turn, pollers | send, poll, item operations, publish | HTTP API |
| Catalog curator app | `apps/XactimateCatalogCurator` (Swift) | SQLite catalog, review queue, photo scan | import, review, notes, scan, export | language models |

A command travels: a producer reserves numbers and writes commands to Firebase;
the event stream brings them to the bridge's listener thread, in any order and
more than once; the buffer puts them in order; the worker thread types each one,
notes its number in the state file and marks it for the acknowledgement thread,
which writes `last_applied_seq` to Firebase and deletes what is behind it. The
heartbeat thread gives up on a number that has been missing for too long. The
process may be killed at any point, and systemd starts it again.

### What is hard, and what correct means

* **Buffer**: two threads call it without a lock. Called by one at a time, it
  must release each number once, in order, in its first version; lose nothing it
  took in; give up only numbers that are missing; and not hold anything for ever
  when recovery is on. Called by both, it must still hand out whatever it
  took in, once.
* **Bridge**: kills between the keystrokes, the note on disk, the
  acknowledgement and the cleanup; sends that fail half way, or when all is out;
  streams that start over; status writes that raise and end a thread. It must
  type in order, repeat at most what a kill or a failed send made doubtful, never
  call applied what was not handled, never delete what it does not have, and get
  on with what is there. With the gap recovery on, two threads race on the
  buffer and much of this is gone (see *With the recovery on*).
* **Publisher**: every round trip to Firebase interleaves with other
  producers and may be the last. Ranges must not overlap, commands must not be
  overwritten, later requests must go after earlier ones.
* **Bridge status**: the ready flag producers rely on is stale when read, and
  leaves out the command in the worker's hands.
* **Bridge lifecycle**: `stop()` waits 3 s for a worker that may be in a
  longer delay, and `start()` then clears the event it should see.
* **Drafts**: a turn loads a draft, awaits a model, and saves its copy, while
  accept, reject and resolve change the stored one; operations run again after a
  restart; `publish_draft` has no guard.
* **Catalog**: a build that fails or is killed beside readers; a search
  on two connections with a replacement of the file in between. An answer must
  stand in one version of the catalogue.
* **Agents, policy, client**: a model that may ask for anything; preferred
  codes looked up one by one after the search; several searches merged. What the
  policy blocks must not be shown, and the best of everything found must be.
* **Planning and export**: lookups and searches that fail in the middle of a
  job; rows typed blind into a grid. Nothing of a job is typed unless all of
  it was decided, and every value lands in its cell.
* **Field capture**: answers that arrive after the user opened another job,
  polling that gives up.
* **Curator**: a review queue with skipping, a photo scan beside editing.

`PROJECT.json` lists each hazard at its line, with the properties that catch it
or the reason why none does yet.

## Modules

| Module | Models | State and actions against the code |
|---|---|---|
| `PendingCommandBuffer` | `ordering.py`, a call as one step | `next_seq`, `pending`, `gap_age` are the three fields (the timer as an age in ticks). `Push`, `SkipGap`, `LeaveGap` are `push` and the two outcomes of `recover_stale_gap`, each with its drain and its timer refresh; `PushReady`, `SkipReady` are what they return. `Tick` is the monotonic clock. Not a specification of its own: `CommandOrdering` uses its actions. |
| `CommandOrdering` | the buffer called by one thread at a time | `Arrive` pushes any batch, in any version; `Recover`; `Clock`. Histories: `emitted`, `accepted`, `skipped`. |
| `SharedBuffer` | `ordering.py`, statement by statement | `pc` has the places of the listener in `push` and of the heartbeat in `recover_stale_gap`; `batch`, `stale`, `lowest` and `ready` are the locals that live from one step to the next. The loop of `push` (`Insert`), `_drain_ready` (`DrainPop`, `DrainAdvance`, `DrainEnd`), `_refresh_gap_state` (`Refresh`, and `Stamp` after `monotonic()`), and `recover_stale_gap` (`RecoverNoGap`, `RecoverLook`, `RecoverTooYoung`, `RecoverMin`, `RecoverAssign`). Not a specification of its own: `BufferThreads` and `Bridge` use its actions. |
| `BufferThreads` | the two threads on that buffer and the queue they put into | `Deliver` hands an event to the listener, `Put` is one `queue.put` of either thread. `recovery_on` is chosen at the start. `Ordering` maps its states to those of `CommandOrdering`: what the listener's push, once begun, will leave behind. |
| `AckPublisher` | `AckPublisher` and `publish_applied_seq` | `Mark`, `Take`, `WriteState`, `Cleanup`, `WriteFails`; the cloud's `queued`, `cloud_applied`, `cloud_cleared`. |
| `Bridge` | the controller with all its threads, composing the buffer and the acknowledgements | listener, heartbeat, worker, acknowledgement thread, `Crash` (kill and start), the event stream (`HandleSnapshot`, `HandleEvent`, `StreamDrops`), producers (`Publish`). Listener and heartbeat take the steps of `SharedBuffer`, then `Put` and `Status`. `SendFails` and `SendGivesUp` are a send that raises with none, some or all of the lines out. |
| `OrderedTyping` | nothing: what the bridge promises | the keystrokes the Teensy may see. `Bridge!TypesAsPromised` says the bridge implements it. |
| `CommandPublisher` | `publisher.py`, its callers, `push-test` | one program counter per request; each round trip to Firebase is a step (`Begin`, `ReadCommands`, `ReadState`, `Reserve`, `WriteCommands`, `WriteState`), `Fail` between any two. `TesterReadState` is `_next_start_seq`: `Options` has the values of `--start-seq`, `Stateless` the push-tests whose configuration has no state path. The bridge is only `BridgeApplies`. |
| `DraftItems` | the line items of a draft | `EstimateDraft` and `_claim_status_for_draft` as operators on a set of items. A room stands for a room and a section, with one code the planner proposes. |
| `DraftTurns` | `DraftCoordinator` over `DraftStore`, for one claim | requests are numbered as they are submitted; `pc` and `copy` give each writer its place and the draft it loaded. A transaction of the store is a step. `loop` is the coroutine that keeps the event loop between two awaits, `holder` and `waiting` are the claim's `asyncio.Lock` and its queue; the item and publish endpoints are threads (`HandlerLoads`, `SaveReview`, `StartPublish`). `Restart` is a kill and `resume_pending_operations`. Histories: `stale` and `overwritten`, `decided`, `removed`. |
| `Sorting` | `sorted`, `ORDER BY` | `Arranged`: a set in the order of a relation |
| `CatalogSearch` | `search.py` of the catalog runtime | operators only: the tables, every term of a score, the candidate, the ranking, `Recommend`. A text is the set of its words, a phrase in another one a subset; scores in hundredths. `Cut` is a slice. |
| `CatalogDatabase` | `repository.py` | `builder` is the file of `NamedTemporaryFile` and how far it is (`CreateTemporary`, `InitializeSchema`, `LoadExport`), `Replace` is `os.replace`, `AbandonBuild` an exception or a kill. `CandidateCodes`, `ItemRows`, `JoinScenarios`, `GetItem` are the queries on a file; a `LIMIT` without `ORDER BY` brings any rows. |
| `PolicyRules` | `policy.py` | operators: normalised names, first rule that fits, preferred codes, blocked items, `Rerank`, `VerifyRoom` |
| `SearchStrategies` | `explore_strategies` of `runtime_client.py` | `Merge` of one list into what was merged, `Combined` for the list that is shown |
| `OutputCommands` | `direct_output.py`, `estimate_export.py` | operators: a text and rows to keystrokes; and the other way round what a text spells and which cell of the grid a key lands in |
| `EstimatePlanning` | `workflow_agents.py`, `openai_agent.py`, `service.py`, `compiler.py`, composing the five above | `at` is where the client of the catalogue is: in a turn of an agent (`model`, `search`, `inject`, `explore`), in a plan (`plan`), or `idle`. `find` is the HTTP request under way; the catalogue's two connections and a failure are steps (`SearchCodes`, `SearchItems`, `SearchScenarios`, `SearchFails`), so a build may replace the file between any two. One action per tool call, per lookup of a preferred code, per strategy, per planned item; `FinishPlanner` and `FinishLegacy` end a turn with an operation on the draft, `Review` is the reviewer, `Publish` compiles all of a job or none, `SendText` and `ExportRows` are the direct outputs. History: `explored`. |
| `OrderLemmas`, `SharedBufferProofs`, `CommandOrderingProofs`, `BufferThreadsProofs`, `BridgeProofs`, `CommandPublisherProofs`, `DraftTurnsProofs`, `EstimatePlanningProofs` | | proofs, see below |
| `MC*` | | instances for TLC |

Data is abstract: a command is its number and a payload from a small set; what
a key event or a delay contains is left out, except that a delay cannot fail on
the serial line. The identifiers of bridges and jobs, the texts of statuses and
logs are left out. A local variable whose value is not used again is reset, so
that states do not differ in it.

A thread of `SharedBuffer` and `Bridge` can be switched out after a call and at
the end of a loop's round, which is where CPython lets another thread in; what
stands between two such points is one step. `self.next_seq += 1` is such a step
of its own: it follows a call of `pop`.

In the planning modules the language model is whoever chooses the calls and the
items; a code is a number in the alphabetical order of the codes; reasons,
matched terms, sections and notes, which inform the model or the reader only,
are left out; an item's surface stands for its section, its intent for its
activity. One client uses the catalogue at a time, because clients only read it.
Of the placeholders of a profile those of the default profile are modelled
(`config.py:105`), others count as empty, and no step lacks its key or its
duration (`compiler.py:106` raises then). The halves of a cell that holds a code
in one piece come without blanks around them (`estimate_export.py:71` strips
them). No property reads the report of `VerifyRoom`. Two operations of a claim
are taken to be answered with different words (`drafts.py:1538` compares them).

Definitions called *mutant of* something are broken variants, used to see that
a property notices: substituted for the original they make TLC report the
property violated. No specification uses them.

## Runs

| Run | Module, configuration | Checks | Bounds |
|---|---|---|---|
| `ordering` | `MCCommandOrdering` | order, no loss, accounting of gaps, timer, and that held commands come out | 5 numbers, two versions of each, a queue resumed at 2, 2 ticks |
| `buffer_race` | `MCBufferThreads` | no insertion lost or doubled between the threads; alone, the listener implements `CommandOrdering` | 3 numbers, each delivered twice, recovery on and off |
| `buffer_order` | `MCBufferThreads_order` | **violated**: the dispatch queue is filled in order | 3 numbers, each delivered once |
| `bridge_crash` | `MCBridge_crash` | recovery off: order, repetitions, nothing forgotten, applied numbers, pruning, half-typed commands, refinement of `OrderedTyping`, and that a complete prefix is typed | 3 commands, one of them a delay, one of each fault: kill, reconnection, failing send, failing write |
| `bridge_recovery` | `MCBridge_recovery` | recovery on, listener and heartbeat racing statement by statement: how often a number can be typed, that what the buffer releases is typed or given up, that what is saved is acknowledged | 2 commands, one of them a delay, one reconnection, one dropped send |
| `bridge_prune` | `MCBridge_prune` | **violated**: pruning is safe with recovery on and a kill | 3 commands, one kill |
| `publish` | `MCCommandPublisher` | ranges, immutability, order of requests | an estimate, a direct output and two push-tests, one of which has no state path and may be told to start at 2, failing anywhere |
| `publish_gap` | `MCCommandPublisher_gap` | **violated**: numbers are contiguous | one estimate of two commands |
| `draft_turns` | `MCDraftTurns` | what lock and loop exclude, what is kept unless a stale copy is saved, repeated notes, order and end of operations, the claim's status | a voice note and a message, two plans of up to two rooms, one request of a reviewer, one restart |
| `draft_stale` | `MCDraftTurns_stale` | **violated**: what is published was not rejected | two messages, three requests of a reviewer |
| `planning` | `MCEstimatePlanning` | whole files, answers of one catalogue, filtered answers, best of the merged searches, only what was decided is typed, rows in their cells | three items in two versions of the catalogue, two builds, two turns of one tool call, a draft of one item, one publication |
| `planning_null` | `MCEstimatePlanning_null` | **violated**: the planner sees nothing that the policy blocks | one call with a null surface |

Why the bounds are enough to be interesting: three commands give one that is
missing, one that waits behind it and one that follows, so a gap, a skip, a late
arrival and an overtaking all happen; five numbers in `ordering` give two gaps at
a time. One fault of each kind puts it at every place of every interleaving of
four threads; two kills or two reconnections repeat what one does to a state
that is rebuilt from the same file and the same cloud. In `bridge_recovery` two
commands are enough for the race: one is missing while the other is held, it
arrives between any two statements of the recovery, and the reconnection brings
both again; a stale `lowest`, a lost or an extra increment and a heartbeat that
dies of an emptied dictionary all happen. Kills and failing sends are not in
that run, because they only add to what may be repeated; the theorem
`TypingsAreCounted` has them in any number. The cleanup is off there, because
what it deletes could not be delivered twice. Producers of three kinds meet in
every order, and two reservations of one estimate meet those of others; two
push-tests meet each other. Two operations are one that runs and one that waits
or is being submitted, of either kind; a plan of two rooms has a save between
two awaits; one restart finds every place of both.

In `planning` the three items are one that the policy prefers, one that it blocks
and one that it prefers but a full-text search may miss; the second version
makes the preferred item a blocked one, so a rebuild between the search and a
lookup matters. The limits of the code (80, 120 and 120 rows, lists of 5 to 12)
are shrunk to 2, 1, 2 and 1 to 3, so that all of them cut. Two turns put a turn
after a failed or a finished one; two builds put one before and one inside a
search. A job of three items has a note, a search and a lookup, so a failure
finds every place; the texts and rows have line breaks of every kind, signs that
are replaced, combined cells and an incomplete row. The model has safety
properties only and assumes no fairness.

Fairness: `CommandOrdering` assumes that the heartbeat keeps calling and that
time passes; `Bridge` that each thread that can take a step takes one in the
end. The threads are daemon loops that run while the process does. That a gap
timer ever is old enough is not assumed. Nothing is assumed of kills, dropped
streams, failures or producers: whether a missing command is ever published is
open, and the budgets only bound how often faults happen. The three liveness
properties of `Bridge` are stated for behaviours in which no write to Firebase
or to the disk fails, because such a failure ends a thread for good, or loses an
acknowledgement (below). `DraftTurns` assumes that the event loop goes on and
that what a model is asked for comes back or raises: the HTTP clients have
timeouts (`workflow_agents.py:121`, `transcription.py:53`). The planner's loop
of tool calls (`workflow_agents.py:409`) has no bound in the code; that it ends
is assumed. Requests, reviewers and kills are nobody's duty.

`CHECK_DEADLOCK FALSE` stands where the system may stop: everything published
and typed, every request done, a heartbeat that died.

## What the runs found

1. **With recovery on, the queue can be filled out of order** (`buffer_order`).
   `controller.py:134` and `controller.py:198` put what their call returned one
   by one, and nothing keeps one thread's list before the other's, against
   `README.md:15` of the repository. With recovery off there is one caller and
   the order holds (`AloneInOrder`, `AloneIsAtomic`).
2. **A restart after that loses a command for good** (`bridge_prune`). The worker
   saves and acknowledges the higher number while the lower one is in memory; the
   cleanup deletes the lower one from Firebase, against `README.md:446`.
3. **Every estimate leaves a gap** (`publish_gap`). `publish_job` reserves a range
   and `publish_commands` reserves and uses another (`service.py:173`,
   `publisher.py:150`), against `README.md:444`. With
   `missing_sequence_recovery_s = 0` the bridge stops there.

4. **A stale copy undoes what was answered for** (`draft_stale`). Every writer of a
   draft stores the whole copy it loaded; a turn holds its copy across all its
   model calls (`drafts.py:1450`, `drafts.py:1522`), a submission and a reviewer's
   request across two transactions. A rejection saved meanwhile is gone and the
   item is published, against `README.md:215` and `README.md:217`. In the same way
   a turn drops the note of a message submitted while it runs. What the lock and
   the loop do exclude is `LockAndLoopExclude`, and when no stale copy is saved
   nothing is lost (`NothingLostUnlessOverwritten`).

5. **A null surface passes the policy by** (`planning_null`). The schema of
   the planner's tool allows null for its optional arguments
   (`workflow_agents.py:474`), and `str()` makes it the text `None`
   (`workflow_agents.py:600`): no rule is for that surface, so nothing is blocked
   or preferred, against `workflow_agents.py:465`. The same `None` gets into the
   words of the other searches (`openai_agent.py:492`,
   `runtime_client.py:58`). As long as no call gives null, the answers are
   filtered, which is proved (`PlannerSeesNothingBlocked`).

Other things the models show of the code, which no line of the repository
promises otherwise, or which no run is for:

* The gap timer is one field. A gap that opens in the push that closes another
  one inherits its age (`ordering.py:68`) and may be skipped early.
* A status write that raises ends the thread it happens in (`Status`,
  `WorkerStatus`), while the process stays up.
* A send that fails after its last line is out (`flush`, `serial_bridge.py:44`)
  is repeated as a whole (`SendFails`): a command is typed twice although nothing
  was killed. `OrderedTyping` allows it and `RepeatsHaveACause` counts it.
* A failed acknowledgement is not tried again before the next command
  (`WriteFails`); a kill between its two writes leaves commands in Firebase.
* A send that raises anything but `SerialException` drops its command, and the
  next one is saved and acknowledged over it (`SendGivesUp`).
* A producer may write below `last_applied_seq`, where its commands are
  dropped.
* A push-test reserves nothing: it may write over a producer's commands
  (`CommandsImmutable` is stated for those that reserve), at any number when it
  is told where to start (`cli.py:81`), from 1 when the configuration has no
  state path and the queue is empty (`cli.py:140`). Two in a row get the same
  numbers when Firebase answers with an array (`cli.py:69`), although
  `cli.py:38` speaks of the next safe sequence; `JobsAppend` says which requests
  look past which (`LooksPast`).

* A voice note whose turn is killed between the removal of its upload and the
  end fails after the restart, although its transcript is stored
  (`drafts.py:1443`); killed before that, it is in the conversation twice
  (`NotesAreNotRepeated` allows it). A text never is.
* The agents pass any limit on, and the catalogue answers one above 20 with an
  error (`api.py:19` of the catalog runtime): the whole turn fails. So it does
  when the older agent asks for a code that does not exist.
* A `LIMIT` without an order decides which rows take part in a ranking
  (`Limited`).
* Among equals a search shows the first code and a merge of searches the last
  one (`Outranks`).
* Entries of the tables of `search.py` that the stemmer changes ("ceiling",
  "casing", "molding", "hanging", "opening") never match.
* Operations of the planner may name any code of the catalogue, shown or not,
  and the verification of a room looks for blocked codes but not for blocked
  terms (`VerifyRoom`).
* `to_estimate_job` makes line items only; `README.md:226` of the repository
  speaks of notes before each section. `backend.py:164` of the MCP server reads
  a field that scenarios do not have.
* A failed turn leaves the claim's status at `ingesting` or `planning_rooms`, and
  a publication that raises at `publishing`; nothing stops a second publication.

### With the recovery on

The default of `missing_sequence_recovery_s` is 4 seconds, so the two threads do
share the buffer. What `SharedBuffer` shows of that, and why the runs with
recovery on check less:

* The heartbeat assigns the `lowest` it read before the listener emptied the
  dictionary: `next_seq` goes back, and a command that is delivered again is
  typed again (`RecoverAssign`). It also happens that a command is delivered
  again between the listener's `pop` and its increment. `TypingsHaveACause` bounds
  it by how often the stream was opened.
* The listener's increment comes after the assignment (`DrainAdvance`): a number is
  passed over that was neither released nor logged as skipped, and is dropped
  when it arrives (it takes three commands, one more than `bridge_recovery`
  has). Hence nothing like "every published command is handled" is
  checked with recovery on; what is checked is that a command which *was*
  released by either thread is typed or given up (`ReleasedIsHandled`).
* `min()` of a dictionary that the listener has just emptied raises, and the
  heartbeat thread ends (`RecoverMin`): after that no gap is given up. What was
  released is typed all the same.
* Lists overtake each other (findings 1 and 2), so the saved and the
  acknowledged number may go back, and be ahead of commands in memory.
  `SavedIsAcknowledged` asks only that the number that is marked is acknowledged,
  or a higher one.

Accordingly `TypedInOrder`, `NothingForgotten`, `PruningIsSafe`,
`AppliedMeansHandled`, `ProgressNeverGoesBack` and the refinement of
`OrderedTyping` are claims about a bridge with the recovery off.

## What is proved

`CommandOrderingProofs`, for every `MaxSeq`, `Payload`, `MaxGapAge` and `Start`
in the assumptions of the modules:

* `TypeCorrect`, `ReleasedInOrder`, `NothingAcceptedIsLost`,
  `EveryNumberAccountedFor`, `TimerMatchesGap`: the five invariants of `ordering`.
* The inductive invariant `IInv` is their conjunction. None is inductive
  alone: what comes out next is later than what came out before because all of
  that lies below `next_seq`, which is what the accounting of gaps says; it is
  new because what was accepted is split between what was released and what is
  held. Both a push and a skip are a drain from some number at or above
  `next_seq`, and `DrainStep` proves the invariant for such a drain once. It
  rests on `FirstMissingProperties` (where the drain stops),
  `DrainKeepsTheRest` (what stays) and `DrainReleasesInOrder` (what comes out).

`SharedBufferProofs` has, once for both modules that use it, what the statements
of the two threads do to the buffer, whatever the other thread did in between:
the types and the places (`SharedInv`), the count of each number over dictionary
and lists (`InsertCounts`, `DrainCounts`, `PutCounts`), and the order of a
listener that is alone (`LoneInserts`, `LoneDrains`, `LonePuts`).

`BufferThreadsProofs`, for every number of commands and of deliveries, in every
interleaving of the statements of the two threads:

* `TypeCorrect`, `NothingLostOrDoubled`: the invariants of `buffer_race`, and
  `LoneListenerKeepsOrder`. A number is taken at most once per event that
  carried it (`TakenWasDelivered`), and each step of a drain moves one occurrence
  from place to place. For the order, `LoneInv` says that the queue and the
  listener's list follow each other and end below what the listener passes next.

* `LoneListenerIsAtomic` and `LoneListenerImplementsOrdering`: with recovery off
  the statements of the threads implement `CommandOrdering` without recovery,
  which is what lets `CommandOrdering` take a call of `push` as one step there.
  The refinement mapping completes the push that is under way: `DoneNext`
  is where the drain will stop, `DoneHeld` what it will leave, `DoneQueue` the
  queue once all is put, `DoneTimer` the timer once it is refreshed. An event maps to
  `Arrive` (`DeliverIsPush`, by `DrainStops`: the loop stops where `FirstMissing`
  says) and every other statement to a stutter (`InsertDoesNotShow`,
  `PopDoesNotShow`, `RestDoesNotShow`). With recovery on there is no such
  mapping: `buffer_order` shows the queue in an order that no sequence of single
  calls gives.

`BridgeProofs`, for every set of commands and any number of kills,
reconnections, failing sends and failing writes:

* With any settings, the recovery on included: `TypeCorrect`, and
  `TypingsAreCounted`, the invariant of `bridge_recovery`. `CopiesHaveACause` counts
  the copies of a number wherever it can be, typed, in the queue, in the buffer
  or a thread's list, in an event, in the worker's hands, or still to come from
  the stream; no statement of either thread makes a copy (`StepCopies`), only a
  stream that is opened again, a kill, which opens one too, and a send that
  fails when all was out.
* With the gap recovery off (`RecoveryOn = FALSE`, `missing_sequence_recovery_s = 0`):
  `AppliedIsHandled`, `PrunedIsHandled`, `NoCommandIsForgotten`,
  `ProgressIsKept`. The run `bridge_prune` shows that `PruningIsSafe` needs the
  assumption. The invariant `QuietInv` (`CommandsStayInLine`) says that what is
  on its way is a line: the worker's command, the queue and the listener's list
  hold consecutive numbers that end below what the listener tests next
  (`InLine`, `LoneInv`), everything before them is handled and the saved number is
  not ahead of that (`WorkIsDone`), the acknowledgements follow the saved number
  (`AcksFollow`), and what is neither behind nor in the line is in the cloud
  where the stream will bring it from (`CloudHasTheRest`).
* With no send given up either (`MaxGiveUps = 0`): `NeverOutOfOrder`,
  `RepeatsAreCounted`, `HalfIsFinished`, and `KeepsThePromise`, the refinement of
  `OrderedTyping`, all from `WorkIsKept`. `TypedIsNext` says that the number typed
  last is the saved one or the one after it. `RepeatsArePaid` counts a repetition
  that is due (`Due`: killed before the save, or sent in full and failed) together
  with those that were made, so that a kill or a failed send pays for it before
  it happens. A send that is given up leaves its number out and is no part of
  the promise.

`CommandPublisherProofs`, for every set of producers of every kind, every size,
every interleaving and every failure (`ProducersAssumption`):

* `TypeCorrect`, `ReservationsDisjoint`, `Immutability`, and `LaterIsTypedLater`
  (`JobsAppend`) for any number of push-tests. The exceptions are in the
  property (`LooksPast`): a push-test that was told where to start, that has no
  state path, or that comes after another push-test, because neither reserves
  and the second sees nothing of the first in an array (`cli.py:69`). TLC finds a
  counterexample when any of the three is dropped.
* `IInv` adds to the type invariant and to `RangesDisjoint`: the counter in
  Firebase is past every reservation (`ReservedIsTaken`), which makes a new one
  disjoint; who writes has reserved what it writes (`WritersReserved`) and what
  was written was reserved by its writer (`WrittenWasReserved`), which turns
  disjoint ranges into commands that are never overwritten; and the commands
  have a highest one (`CommandsBounded`), so that a snapshot returns a number.

`OrderLemmas` has the least and the greatest element of a set of naturals, from
the library's theorem that the naturals are well founded, and what sorting
does: a finite set under a strict total order is arranged into one sequence,
whole and in order (`ArrangedEnumerates`: as many elements come before an
element as its place says, `RanksAreAllTaken`).

`DraftTurnsProofs`, for any number of messages, voice notes, reviewers' threads
and kills, and plans of any length:

* `TypeCorrect`, `LockAndLoop`, `NothingLost`, `NotesOnce`, `StartInOrder`,
  `ShownAsDrafted`, `EndedIsFinal`: every invariant and the action property of
  `draft_turns`.
* `OnlyStaleCopiesPublishRejected`: the finding of `draft_stale` has no other
  cause. If no stale copy was ever saved and the one that is published is not
  stale itself, no rejected item is published. TLC finds a counterexample when
  either condition is dropped.
* The inductive invariant has layers, each proved with the ones before it at
  hand. `ControlInv` says who is where: whoever must not be interrupted has the
  loop (`OwnersInv`), the turn under way has the lock and its row says running,
  the latest request is the only one that is being submitted, what waits is
  queued in the order of submission (`QueueInv`), and a place tells what the row
  says (`RowsInv`), which a restart needs because the rows are all it has.
  `CopyInv` says that a copy is what was loaded as long as nothing was saved
  since (`Fresh`), from which the exclusion follows: between a load and a save
  only the lock keeps two turns apart, and only the loop a turn and a
  submission. `ItemsInv` has the ids (each used once, the next one new).
  `NotesInv` counts a note by the runs that may have stored it, in the draft and
  in every copy, whether stale or not, because a stale copy may be stored.
  `KeptInv` is what `NothingLost` says, at the places between the steps that
  make it true; `GoneInv` keeps what a turn took out from coming back;
  `StatusInv` the claim's status.
* The assumptions: the bounds are naturals (`BoundsAssumption`), ids are naturals
  (`IdsAssumption`; they stand for uuids, of which the next one is new), each
  request is of a known kind (`KindAssumption`), and "no copy" is not a draft.

`EstimatePlanningProofs`, for every catalogue whose codes and scenario ids are
unique (the primary keys, `CatalogAssumption`), every policy, room, job, tool
call and bound:

* About the operators of `CatalogSearch` and `SearchStrategies`, for every input:
  every term of a score is a number when texts have finitely many words, so
  candidates of different codes are ordered (`RankedIsList`), and
  `RecommendStandsInItsSources` follows. `Outranks` is a strict weak order
  (`OutranksIsWeakOrder`); hence merging one more list keeps the best of each
  code (`BestIsKept`, `MergeIsMerge`), and what a cut leaves out is outranked by
  all that is shown (`CombinedIsBest`).
* `TypeCorrect`, `FileIsWhole`, `AnswersStandInOneCatalog`,
  `MergedSearchesShowTheBest`, for calls that give no null as their surface
  `PlannerSeesNothingBlocked`, and, under the two conditions below,
  `WhatIsTypedWasDecided`: the six invariants of `planning`.
* The inductive invariant comes in layers, each proved with the ones before it
  at hand. `DatabaseInv` (the file), `ControlInv` (who waits for which request
  and how far it is), `DraftInv`, `PlanInv` and `CallInv` (jobs, plans and
  arguments whose words are known) carry `AnswerInv`: items that were read stand in
  the file of the connection that reads their scenarios, and then the answer
  does (`JoinedAreSources`). On it rest `CandidatesInv` and `PolicyInv` (one
  candidate per code, also after a lookup in a newer catalogue) and `MergedInv`
  (what has been merged is what the lists so far amount to). The lemmas called
  *frame* say which steps touch the variables of a layer.
* `WhatIsTypedWasDecided` has two parts. `DecidedInv` follows a job while it is
  planned: each planned item belongs to its source and waits for somebody or is
  decided, and a search is only under way for a source without a code, so
  that its answer cannot replace an approved one (`PlanFound` does not look
  again). The other part is about `OutputCommands` and holds for texts, rows and
  jobs of every length. `FlattenHasPieces` says where each piece of a flattened
  sequence starts, that later ones start after earlier ones and that nothing
  else is there; the fold that flattens is unfolded step by step, with a least
  counterexample in place of an induction. From it follow `NormalizedIsPlain`
  and `TextIsTyped` (the keys of a text spell it), `RowsAreTyped` (the TAB and
  ENTER before a key put it in the cell of its own row and column, so the rows
  fill the grid and leave the cursor at the start of the next row) and
  `CompiledIsDecided` (keystrokes for every line, in the order of the job and of
  the decided code).
* Its conditions: `TypesSomething(Profile)`, the profile has a step for line
  items that neither types a field nor depends on the quantity (a TAB or ENTER;
  without one an item with empty fields leaves no trace), and `CellsHoldNoTab`,
  because a tab in a cell is typed as the TAB key and moves on
  (`_key_token_for_character` of `estimate_export.py`). The profile and the rows
  of the run satisfy both.
* The assumptions besides: the words of every text are known and finite
  (`WordsAssumption`, `CallsAssumption`, `ExplorationsAssumption`,
  `JobsAssumption`), which any table of words can be extended to satisfy; "no
  code" is not a code; limits are positive (`MergeAssumption`); the profiles are
  sequences (`ProfilesAssumption`), and so are texts and cells, none of whose
  characters is the name of a key (`TextsAssumption`), which a single character
  never is.

Only model-checked: liveness (`HeldCommandsComeOut`, the three of `Bridge`,
`EveryOperationEnds` of `DraftTurns`), which is out of the prover's reach.

## Not modelled, and the plan

In this order:

1. `RoomState`: the rows of `claim_rooms` and their order, beside `DraftTurns`;
   the older agent's turn on a stored draft.
2. `BridgeStatus`: what the status write contains, its order among three threads,
   the ready flag, and the check-then-publish of direct output and estimate
   export composed with `CommandPublisher`.
3. `BridgeLifecycle`: `stop()` and `start()` within one process.
4. `FieldCapture` (Swift): sending, polling, switching jobs.
5. `CuratorReview` (Swift): the review queue, the photo scan.

Left out for good: views and layout, forms over configuration files, parsing of
workbooks and of requests, what language models answer (an input), the tools
that answer from a table alone (room templates, estimating defaults), the plan
that stands in for a model that is not configured, and the bytes of the serial
protocol.
