# A verification project for super-agent-platform

The platform answers WhatsApp customers of a dealership: a webhook stores and
answers each message, a state machine follows the conversation, human operators
take conversations over, leads are synchronised with a CRM through an outbox,
campaigns are sent from a queue, and administrators work with all of it from a panel
in the browser. This directory holds TLA+ models of the parts
where order, failure and concurrency matter, TLC configurations that check them on
small instances, and TLAPS proofs that hold for every instance.

All paths below are relative to the root of the repository.

## 1. The system

### Components, their state and their operations

| Component | State | Operations | Modelled in |
|---|---|---|---|
| Inbound handler, `core/services/inbound_handler.py` | tables `conversation_events`, `lead_profiles`, `sessions`, `silenced_users`; locals of each call | `handle`, started by each webhook delivery | `InboundHandler` |
| Debounce window, same file | `_debounce_latest`, `_debounce_tasks` of the process | `_handle_with_debounce`, `_debounce_execute` | `Debounce` |
| State machine, `core/fsm/`, `brand/fsm.yaml` | none of its own: the session row | `FSMEngine.process_event` and its actions | `FsmEngine`, `InboundHandler` |
| Conversation agent, `core/services/conversation_agent.py` | outbound events | `respond` | `InboundHandler` |
| Handoff service, `core/services/handoff_service.py` | the session row | `take_control`, `release_control` | `InboundHandler` |
| CRM outbox, `adapters/storage/repositories/crm_outbox_repo.py` | `crm_outbox`, `crm_dlq` | `enqueue_operation`, `get_pending_batch`, the three marks | `CrmOutbox`, `CrmRegister` |
| CRM sync worker, `core/services/crm_worker.py` | the batch it holds | `process_batch`, started by the scheduler of each process | `CrmOutbox` |
| Outbound queue, `adapters/storage/repositories/outbound_queue_repo.py` | `outbound_queue` | `enqueue`, `get_next_batch`, the two marks | `OutboundQueue` |
| Campaign agent and worker, `core/services/campaign_agent.py`, `campaign_worker.py` | the leads and items of the loop | `schedule_campaign`, `run_once` | `OutboundQueue` |
| Monday adapter, `adapters/crm/monday_adapter.py` | the items of the CRM board | `upsert_lead`, `change_stage` | `MondayBoard` |
| Tools of the bot, `core/services/conversation_agent.py`, `core/services/skills.py` | `_photo_cursor_by_phone` of the process; the tool rounds of each answer | `respond` with its two ways to `send_inventory_photos`, `query_inventory`, the regeneration | `AgentTools` |
| Inventory and branch caches, `adapters/inventory/sheets_adapter.py`, `adapters/branches/sheets_adapter.py` | a list and its expiry, in an adapter made for each request | `get_products`, `list_branches` | `AgentTools`, `HandoffRouting` |
| Handoff routing, `core/fsm/actions.py`, `core/services/inbound_handler.py` | none of its own: the lead's attributes and the branches | `notify_agent`, `_route_handoff_to_branch` | `HandoffRouting` |
| Knowledge base, `core/services/knowledge_ingestion_service.py`, `adapters/knowledge/` | tables `knowledge_sources`, `knowledge_chunks` | `ingest_file`, `reindex_source`, `delete_source`, `index_document` | `Knowledge` |
| Administrators' accounts, `api/routers/auth.py` and its services | tables `admin_users`, `admin_totp`, `login_attempts`; `_ATTEMPTS_BY_IP` of the process | login, second factor, management of users | `AdminLogin` |
| Admin panel, `api/routers/admin_panel.py` | the page: token, screens, tabs, timers, and the variables of each view | the handlers of its script | `PanelSession`, `PanelViews` |
| LLM adapters | none | one call that the primary model answers, the fallback answers, or both fail | a step of `AgentTools` |
| WhatsApp adapter, the models, the sheets, Monday's server | external services | | a call that returns or raises, in both cases perhaps after it took effect |
| Replay engine, conversation log, text algorithms, dashboard, wiring | see PROJECT.json and section 5 | | not modelled |

### How they interact

A webhook delivery (`api/routers/webhook.py`) runs `handle` as a coroutine in one of
the processes of the service and always answers 200. `handle` suspends at each
database call, at each text it sends and in the debounce window; calls of the same
customer interleave there, in one process or in two (two instances are deployed).
They share four tables, and the session row with the operators' requests. `handle`
and the actions of the state machine write operations to `crm_outbox`; the sync
worker of each process takes them in batches and calls the CRM, where the adapter turns
an operation into a read of the board and a write that nothing ties together. Campaigns share
nothing with the conversations but the leads and the messaging provider.

Below `handle`, `respond` lets the model call the tools its state offers, and an answer's
photos are counted in a cursor all answers of the process share. A transition to a
handoff runs `notify_agent` twice, and `handle` then routes the lead to a branch itself:
three searches of one sheet, in two ways. The knowledge base is written by requests of the
panel and read by searches; a request is several transactions with calls of the
embedding model between them. The panel is one page of script; its calls go through
`apiFetch`, which ends the session at a 401, and their answers come in any order.

### What is hard

- Two calls hold a copy of the same session row, or one call and an operator.
- The debounce window cancels a task that another call awaits.
- A webhook is delivered twice; the event table's unique index must notice.
- The outbox coalesces operations in a row that a worker may be processing.
- Every mark after an effect may fail, leaving the effect without a record.
- A process may stop between any two steps; there is no recovery pass.
- Retries reorder the versions of a CRM record.
- The knowledge base keeps a document's hash and its chunks in two transactions.
- Logins are counted before they are recorded, in a table and in a deque per process; a
  second factor is read, verified and enabled in two transactions.
- The photo cursor is read before the photos are sent and written after; the tool loop and
  the regeneration run the same tool again.
- The page's handlers write what they find when the answer comes: the token, the lead, the
  file and the page of then, not those the call was made for.
- The board is read and written in separate calls, by two operations that disagree on
  who may move a stage back, and by sellers.

PROJECT.json, "hazards", lists each of these at its line, with the properties that
would notice it going wrong.

### What makes each component correct

- *Outbox*: one worker per claimed row; one pending row per key; three attempts at
  most; a row is done only if it was applied; the newest version of a key is never
  lost; versions reach the CRM in order (with one worker).
- *Debounce*: one live task per conversation; a deferred message has a later one.
- *Handler*: one answer per message; a takeover lasts until it is released; one
  session per lead; a handoff is not left half-way; every message is answered.
- *Tools*: a photo the cursor has passed was delivered; each comes once.
- *Routing*: the people of one branch are told.
- *Knowledge base*: a source is one upload, the one its hash stands for.
- *Accounts*: failures stay below the limit; a second factor in force was confirmed.
- *Panel*: a timer for the tab that is shown; only the 401 of an older call drops a valid
  token; the panel without a token is left; the form can be used; a view's buttons act on
  what it shows.
- *Board*: one item per phone; stages move forward, whatever is retried.
- *Queue*: one text per campaign and customer; outcomes are true; rows are held by
  one worker and settled in the end.

## 2. Modules and how they correspond to the code

Each action is one step between two awaits on shared state: a repository method is
one transaction (`session_scope`) and so one step. Definitions keep the names of the
code; PROJECT.json, "map", gives the lines of every one. Operators whose comment
starts with *Mutant* are plausible bugs of the operator they precede, used to check
that a property can fail.

- **`CrmRegister`** is what the outbox promises: per key a newest version asked for and
  a version the CRM has, which only moves forward.
- **`CrmOutbox`**: `rows` is the table `crm_outbox` (the dead-letter table is the status
  `dlq`), a payload is a version number, and a row also keeps the history the
  properties need. `Enqueue` is the insert, or the coalescing update of the pending
  row that the partial index selects. `ClaimBatch` takes a prefix of the due rows by
  `created_at`. `ProcessItem` follows `process_batch` through dispatch, mark, retry and
  dead letter, each of which may raise; `BatchAborts` is an exception that leaves the
  `except` clause, and `Crash` stops a worker anywhere. `RetryTimePasses` stands for
  `next_retry_at` coming due.
- **`Debounce`**: `latest` and `tasks` are the two dictionaries, `timer` the task of each
  call. The locked sections contain no await, so each is a step. `InboundHandler`
  instantiates it with one key per process.
- **`FsmEngine`**: the transitions of `brand/fsm.yaml` in file order, restricted to the
  events `OrchestratorAgent.classify` can produce, and `ProcessEvent`, which takes the
  first transition whose guard holds and appends the `on_enter` actions.
- **`InboundHandler`**: one customer. `call[c]` holds the program counter and the locals
  of a `handle` call, `request[r]` those of an operator's request; `sessions` is indexed
  by the id the creating call chooses, because nothing makes `lead_id` unique.
  `RunAction` runs the actions of a transition one at a time, for each is a call that
  may raise. `SendText` may raise after the text was delivered. `control`,
  `raced` and `overtaken` are history: whether a human has the conversation, which of the
  two races over the session happened (`create`, two calls about to create one; `takeover`,
  a human got control while a call that had read the row was still to write it), and which
  calls were answering when control was given.
- **`MondayBoard`**: `board` has the items, each with its phone and stage. Messages run the
  state machine (`FsmEngine`) and enqueue both operations; of the outbox it keeps what
  `CrmOutbox` establishes: one pending row per lead and operation (`outbox`, with `older`
  for the order), rows in one worker's `batch`, retries in any order, rows lost to the
  dead-letter queue, to a collision with a newer row or to a crash (`Fail`, `Crash`).
  `work[w]` is the call of the adapter a worker is in: `find` then `update` or `create`
  for `upsert_lead`, `find`, `read`, `write` for `change_stage`. `SellerCloses` is
  external: `terminal_stages` expects it and no code does it. `trouble` is history: what
  made the adapter act on something that was not so.
- **`OutboundQueue`**: `queue` has a row for each campaign and lead, `absent` before it is
  enqueued. The clock counts minutes, the distance of two slots. `pc` and `item` say how
  far a worker is in the turn of its loop; an error in the body leads to
  `MarkAsFailed`, an error there (or a crash) to `StopWorking`.
- **`AgentTools`**: one customer. `answer[a]` has the step and the locals of a call of
  `respond`, `cursor[p]` the entry of `_photo_cursor_by_phone` in process `p`, `stock` and
  `fresh` the inventory cache of each answer's adapter and its expiry. `Complete` is a call of
  the model: it answers, or calls a tool of its state's policy with or without its
  arguments, or fails; `Reply` sends the text or has it made anew when it repeats an earlier
  one. `SendImage` sends photo by photo;
  the cursor is written after the last of a batch. `delivered` counts what the customer
  has, `again` is history: units with a reason to be sent from the start.
- **`HandoffRouting`**: one message that asks for a human, `phase` by `phase`. `sheet` is what
  the spreadsheet holds, `cached` and `cacheOn` the adapter's cache; `LoadFromSheet` is the
  list the adapter's loop over the rows builds, said without the loop: a branch has the number of
  the first active row with its key, a phone that of the first row it is in. `fields` is what the
  session's context and the lead's attributes each say: `branch_key`, `sucursal_key`, centro and
  city. `NamesFor` is where a search looks and in which order: `notify_agent` takes the
  session first and `branch_key` before `sucursal_key`, the router the lead's attributes first and
  `sucursal_key` before `branch_key`; `Sought` is the first of them that is not blank. `Lookup` is
  one call of `list_branches` with the search that follows it, for the key, the centro, the city
  (`seek`); `TellPhone` a text to one of the branch's people. `misread` is history: a lookup that
  went without the sheet. `last_inbound_message`, where both searches look last, is written with
  a text, a type and a time only, and is left out; the aliases of a centro and of a city come in
  one order in both searches and are one name each.
- **`Knowledge`**: `source` and `chunks` are the two tables, `req[r]` an upload, reindex,
  delete or `index_document` and the step it is at; a document is the set of pieces
  `ExtractChunks` makes of it, and a hash names those pieces. `Begin` is what comes before the
  first await, `Raise` an error of a call or a process that stops. `overlapped` and `broken` are
  history: labels whose requests overlapped, and whose last request stopped after its
  upsert.
- **`AdminLogin`**: `user`, `totp`, `failed` are the tables, `attempts[p]` the deque of process
  `p`, `areq[r]` a request with its form and the await it is at. `issue_token` is
  `CheckLockout`, `CheckMinute`, `Authenticate`, `RecordFailure` or `RecordSuccess`,
  `IssueToken`, `UpdateLastLogin`; the other routes likewise. `TimePasses` moves a failure out of
  the minute and then of the 15 minutes. `peak` and `crossed` are history: the most logins past
  the check at once, and secrets set up while a confirm of the user was under way.
- **`PanelSession`**: `token`, `screen`, `form`, `tab`, `timers` are the page, `valid` and `issued` the
  server's tokens, `login` and `start` where the two asynchronous handlers are. `call` holds
  requests in flight with the token they were sent with. `ViewAnswer` is `apiFetch` after its
  await, `BrandAnswer` that of `loadBrandConfig`. `granted` and `lost` are history: a login that
  succeeded on this page, a call without an answer.
- **`PanelViews`**: `page` is the variables and elements of one view, `sent` the calls it awaits; a
  behaviour has one view, for the views share nothing. `mixed` is history: two calls of the
  view overlapped since it was last loaded with nothing else under way.
- **`MC...`** modules add the model values and symmetry sets for TLC. `MCParts` holds the
  instances of `Debounce` and the six modules above, none of which shares state with another:
  `part`, chosen at the start, says which of them moves, so a behaviour is one of one part
  and the states of the parts add up instead of multiplying.
- **`...Proofs`** modules hold the proofs.

Abstractions worth knowing: a message is its kind (`chat`, `document`, `command`,
`media`, `unsupported`, `opt_out`, `handoff`); of the lead only the row and whether the
name is known; of a session's context only whether it carries the handoff entry; in
`InboundHandler` an answer is one text, and the photos and tools that go with it are
`AgentTools`; of the branches a handoff is told to, `InboundHandler` keeps that the call may
raise, and `HandoffRouting` the rest; queue rows have priority 1,
the only one a producer uses; `created_at` order is insertion order; a write that raises has
not been committed (a commit whose acknowledgement is lost is not modelled); in `CrmOutbox` an
operation is applied when the provider's call returned, also when `change_stage` declined to
move a stage back (`MondayBoard` has that).

## 3. Runs

| Run | Instance | What it shows |
|---|---|---|
| CrmFaults | 2 keys, 2 workers, 3 rows, 2 versions, batch of 2, all faults | the outbox' safety under overlap, errors and crashes |
| CrmSingle | the same with 1 worker, fair | refinement of `CrmRegister`, so versions in order; pending rows are claimed |
| CrmStranded (violation) | 1 worker, CRM errors only | a retry that collides with a newer pending row aborts the batch and strands rows |
| Parts | the parts of `MCParts`, see below | for each part its types and what makes it correct |
| InboundFaults | 2 messages, 2 deliveries, 2 processes, 1 request, 4 start states, all faults | no second answer, takeovers hold, bot silent, one session; every step is one of `Debounce` or none |
| InboundKinds | every kind, 2 deliveries, 1 process, a session in `catalog_navigation`, fair, no faults | `handoff_pending` is only passed through, every call ends, every stored message is answered or covered |
| OptOut (violation) | an opt-out, alone in `handoff_active` or before a chat message | the opt-out is not recorded |
| Takeover (violation) | a message and a request | a message in flight undoes the takeover |
| TwoSessions (violation) | two messages, two processes | the lead gets two sessions |
| MondayFaults | 1 lead, 2 workers, 2 items, 2 messages or requests, all faults and a seller | one item per phone, `change_stage` only advances, nothing outstanding leaves the item behind its last upsert |
| MondayRegress (violation) | 1 lead, 1 worker, no faults | `upsert_lead` moves a stage back |
| OutboundQueueFaults | 1 campaign, 3 leads, 2 workers, batch of 2, all faults, fair | one text per customer, true outcomes, no forgotten row |

The runs marked *violation* each state what a test, a comment or a document of the
repository says of the program, and TLC finds the behaviour of the code that
contradicts it; "findings" in PROJECT.json quotes the line and tells the story. OptOut has
two causes: as configured TLC reports the one in `handoff_active`, and with
`StartStates = {"idle"}` the one of the debounce window.

The parts of run Parts:

| Part | Instance | Properties |
|---|---|---|
| debounce | 2 conversations, 3 calls, restarts | `OneWindowPerKey`, `DeferredIsCovered` |
| knowledge | 1 label, documents of 0, 1 and 2 chunks, 3 requests, embeddings and transactions that raise | `SourceIsOneUpload`, `SerialSourceIsCurrent` |
| auth | 2 names of which 1 is a user, 3 requests of every kind, 1 process, both limits 1 | `FailuresAreBounded`, `EnabledSecretIsConfirmed` |
| panel | 2 calls in flight, 2 logins, a network that fails, fair | `TimersFollowTheTab`, `FormIsUsable`, `ValidTokenIsKept`, `PanelWithoutTokenIsLeft` |
| views | each of 4 views, 2 leads, 2 files, 2 pages, 2 calls in flight | `ViewsAreTrue` |
| agent | 2 answers, 1 process, units of 3 and of 0 photos, batches of 2, 1 round, 1 regeneration, all faults | `NoPhotoIsSkipped`, `EachPhotoOnce` |
| routing | 2 sheets (inactive rows, a key twice, a fallback), 192 leads: keys, centros and cities in the session and in the attributes that agree, contradict one another or are missing; all faults | `OneBranchIsTold` |

**Bounds and why they are enough.** Two workers, deliveries or processes are the
smallest number that interleaves, and the code treats them pairwise: a third contends
for the same row lock or overwrites the same row. Three outbox rows allow a row in
processing, a newer pending one and a row of another key; two versions allow an old
one to arrive after a new one. Three leads and a batch of two make a full batch, a rest
and a due time that separates them. Three calls in two windows include every order of
registering, cancelling, firing and restarting, and a task that is cancelled twice in a row.
Three requests to the knowledge base or the accounts are a first that leaves something
behind and two that race over it; one process suffices there, for the tables are shared and the
deque of a second would only start empty. Three photos with batches of two make a full
batch and a rest; two answers race for the cursor. Two calls of the panel are one before
and one after whatever happens between them. Two items suffice for
a duplicate, and two messages or requests for a payload that replaces a pending one and
for a state that goes back. `MaxRows`, `MaxVersion`, `MaxTime`, `MaxEvents`, `ItemIds`,
`Calls`, `Requests`, `MaxUploads`, `MaxRequests`, `PanelCalls`, `MaxTokens`, `Pages`, `Slots`, `Answers`
are the bounds, named in the modules; all are parameters of the
proofs, which do not bound them.

**Deadlock** checking is off in all runs: the calls, rows and slots of an instance are
finite, and the system stops when they are used up.

**Fairness.** In `CrmOutbox` the sync job of the scheduler keeps claiming and the event
loop runs a started item on (`infra/scheduler.py:73-97`); in `OutboundQueue` the campaign
job likewise, and time passes; in `MondayBoard` the sync job again; in `InboundHandler` the event loop resumes each call,
because every call it awaits returns or raises after a timeout; in `PanelSession` the
server or the browser ends each call and the browser runs its handler. Deliveries, enqueues,
requests, errors and crashes are never fair.

**Escapes, stated openly.** `OneSessionUnlessRaced` excepts two calls that were about to create
a session at once, and `TakeoverHolds` and `BotIsSilentUnderControl` also a human who got control
over the head of a call that had read the session and was still to write it; any other overlap
is covered. The runs TwoSessions and Takeover show that each exception is needed. A call past
its last write of the session still sends its answer after a takeover (`overtaken`). `OneAnswerPerMessage` allows
a second text only in runs where the database or WhatsApp may raise: the failure message
of `respond` after an answer whose event could not be stored. `StoredIsAnswered` is
checked without faults: with them a message whose call raises is not answered.
`OneItemPerLead` excepts leads with a lookup that failed before a create (the code goes on as
if it had found nothing) and leads two workers were about to create at once; any other overlap
or retry is covered. `ChangesAdvance` excepts leads that were misread: a read of the stage
that failed (the code goes on without it), or two workers, or a worker and a seller, at one
lead at a time. `BoardKeepsUp` also excepts leads of which
a row was dropped, and those a seller closed, for a closed item is reopened at
"Conversando". It says no more than that the last upsert counts: a `change_stage` that
was coalesced into an older row is dispatched before the `upsert_lead` of its message, which
then writes the stage of before, and the board lags until the next message.
`SerialSourceIsCurrent` excepts labels whose requests overlapped or broke off after their
upsert. `FailuresAreBounded` allows as many failures over the limit as logins were ever past
the check at once. `EnabledSecretIsConfirmed` excepts a secret that was set up between the two
transactions of a confirm. `FormIsUsable` ends with the first login that succeeds: its handler
leaves the form disabled, and a session that ends afterwards shows it so until the page is
loaded again. `PanelWithoutTokenIsLeft` excepts a call that gets no answer. `ValidTokenIsKept`
allows, and so records, that the late 401 of a call made with an older token ends the session
of a newer one. `ViewsAreTrue` holds until two calls of the view overlap. `EachPhotoOnce`
excepts units with a reason in `again`: answers that overlapped, a failure, a unit asked for
by name. `OneBranchIsTold` excepts leads whose keys or centros contradict one another
(`AgreeOn`), between the session and the attributes or between `branch_key` and `sucursal_key`:
the two searches prefer different ones, and such a lead is announced to one branch and routed to
another. It also excepts leads that only their city or the fallback branch places,
which `notify_agent` does not know, and lookups that could not read the sheet.
`RowsAreSettled` and `ProcessingIsHeld` except the rows a stopped worker abandoned,
which nothing in the code recovers.

## 4. Proofs

The proofs hold for all values of the constants; the only assumptions are the `ASSUME`s
of the modules (the bounds are natural numbers, the special values differ from the
others), except where a theorem states its own.

- **`CrmOutboxProofs`**. `TypeCorrect`, then `OutboxInvariant`. No safety property is
  inductive alone; together they are: that a claim is exclusive needs the pending rows to
  be in no batch, that attempts stay below the limit needs the item a worker read to agree
  with the row it came from (`AttemptsAreCounted`), and that the newest version is tracked
  needs to know which row of a key is pending. That a key has one pending row (`PendingIsUnique`) is
  one of its parts and so proved too. `OutboxSafety`, `ThreeDispatches`,
  `DoneMeansApplied`, `NewestIsTracked` and `SettledRowsStay` follow.
  `SingleWorkerRefinement` assumes one worker and shows that each step maps to a step of
  `CrmRegister` or leaves it unchanged, from the order of the versions over the rows of a
  key; that order is what a second worker breaks.
- **`DebounceProofs`**. `OneTaskPerConversation` and `NoBurstIsDropped`, for any number of
  messages and conversations. The two properties and the types are inductive together:
  that the only task of a key is in `_debounce_tasks` is why the one that is cancelled is
  the one that had to be.
- **`OutboundQueueProofs`**. `QueueInvariant` follows a row through its life: untouched until
  it is taken, taken once, held by one worker whose `pc` tells whether the text was sent,
  then settled or abandoned. `OneTextEver`, `OutcomeTruth` and `HeldRows` follow.
- **`MondayBoardProofs`**. `BoardInvariant`. That an item is not made twice is not inductive:
  a worker between lookup and create must still be right (`Creates`), which holds because
  nobody else was about to create the item as well, so nobody else can have added one.
  The stage a worker read before it writes needs the same (`Changes`), and has it because two
  workers with rows of one lead have left a mark (`Overlaps`). Three lemmas say what a step that writes no
  item, writes one or adds one does to the invariant, and each action is one of them.
  `OneItem` and `ChangesAdvanceAlways` follow. `BoardCatchesUp` needs more than the moment
  `BoardKeepsUp` speaks of, when nothing of a lead is outstanding: `KeepsUp` says where the
  last `upsert_lead` of a lead is until then (pending; or held by a worker, and no worker
  holds an older one; or on the board), `OpsFit` that a worker is in the half of the adapter its
  operation calls for, and `LabelsFit` that only a seller finishes an item, so that
  no `change_stage` moves one back. Most steps leave the upserts of a lead alone (`Retains`);
  `HandleMessage`, `Claim`, the write of an upsert and `Fail` have arguments of their own.
- **`BotProofs`**, about `AgentTools`: `AgentInvariant`, `PhotosAreNotSkipped`. What an answer has
  sent of its batch lies below the index it sends next (`BatchesAreSent`), and what the cursor
  had passed before it began is delivered and stays so; hence the cursor it writes at the end
  passes only delivered photos, whatever other answers wrote in between. That an answer
  leaves the tool loop (`RoundsAreLeft`) keeps its round in its type. `PhotosComeOnce`: a unit
  outside `again` is in the hands of one batch, which has delivered just what is below its
  index, or of no batch, and then every cursor at the unit has passed just what was delivered
  (`SentOnce`). About `HandoffRouting`: `OneBranch`. Both searches are on the way
  to one branch (`TheBranch`): the keys or centros they are past did not hit, and what they found
  is the first hit of those they were at (`BoundForOne`). A search looks up one of the names the
  lead has, if it has any (`SoughtIsGiven`), and where the names agree any of them hits
  what they all do (`AnyOfThemHits`), so the order of the search does not matter: `Given` and `Hits`
  have no order in them. What `LoadFromSheet` computes is
  not needed there, only that it is the same for both. `RoutingTypes` needs more of it: its
  branches and their phones are numbered after rows, so the first of any is one of them
  (`FirstIsOneOfThem`, by the well-foundedness of the naturals), and what is left of the branch
  that was found is of a branch that was read (`ChosenIsRead`).
- **`AdminPanelProofs`**, about `AdminLogin`: `LoginInvariant`. The failures in the window alone are
  not inductive, for a login past the check may yet add one; the union of both sets (`Counted`)
  is: recording a failure moves a request from one to the other, and only `CheckLockout` lets
  the union grow, when the failures are below the limit. `FailuresStayBounded` follows, for any
  limits, requests and processes, `LoginTypesHold`, and `EnabledSecretsAreConfirmed` from what a confirm about
  to enable holds (`ConfirmsHoldASecret`). About `PanelSession`: `PanelTypes`, `OnlyTheTabPolls`,
  `FormStaysUsable` and `ValidTokensAreKept`, together from what a call in flight may hold
  (`CallsAreTrue`) and where the login handler is when the form is off (`FormIsGivenBack`).
  About `PanelViews`: `ViewTypes` and `ViewsStayTrue`, from one invariant per view
  (`ConversationInv`, `CsvInv`, `KnowledgeViewInv`, `AuditInv`): until two calls overlapped,
  a view has at most one open, and that one was made for what the page shows.
  About `Knowledge`: `KnowledgeInvariant`. A request that has written its chunks never writes
  again (`BatchesAreDone`), a row and a request's row id belong to one label
  (`RowsHaveTheirLabel`, `IdsHaveTheirLabel`), so `replace_chunks` replaces the chunks of its own
  label: `OneUploadPerSource`. Where requests for a label never overlapped, at most one is at
  work (`OneAtWork`), the row it committed is the one it will fill (`CommittedRow`), and otherwise
  hash and chunks agree (`RowsAreCurrent`): `SerialSourcesAreCurrent`.
- **`InboundHandlerProofs`**. `HandlerTypeOK` first, from the table of transitions read state by
  state (`TransitionsAreSound`, `ProcessEventFacts`) and from how many texts a call may have
  sent at its pc (`Fits`). `HandlerImplementsDebounce` shows that each step on the debounce
  dictionaries is a step of `Debounce` or none; its own types are taken over from there
  (`DebounceProofs`). `MessageAnsweredOnce`: an event that is stored twice ends the second call
  at once, so a call past `AppendInbound` is the one that stored its message (`Answers`). About
  the session and who is in control, every action is of one of four forms: it writes no row
  (`OnlyReads`, with `Goes` for how a call moves on meanwhile), creates one (`Creates`), stores
  a copy (`Stores`) or changes control (`Controls`); `StepForms` says so, and the invariants are
  shown of the forms and not of the actions. `RowsOK`: until two calls create a row each there
  is at most one, and whoever is past reading it has its id. `ControlOK`: under human control
  that row is in `handoff_active`, no call is about to write from a copy that says otherwise,
  and whoever is answering was so when control was given. `OneSession`, `TakeoverLasts` and
  `SilentUnderControl` follow, for any overlap but the two races of `raced`.
  `NoHandoffLeftPending` needs that wherever `handoff_pending` is, in the row, in a copy or in
  the state a call is about to write, the call whose customer asked for a human still has the
  handoff to activate (`Passage`); it assumes that no conversation starts in `handoff_pending`,
  which a deployment that crashed on that way may well do, and nothing then leads out of the
  state.
- **`PartsProofs`**. A behaviour of `MCParts` is one of each component (`PartsAreComponents`),
  so what is proved of a component is what the run Parts checks, and every part keeps its types
  (`PartsTypes`).

Only model-checked:

- all liveness (`PendingIsClaimed`, `RowsAreSettled`, `EveryCallEnds`, `StoredIsAnswered`,
  `PanelWithoutTokenIsLeft`): fairness and `ENABLED` are beyond the prover.
- The properties of the five violation runs, which are false.

## 5. Not modelled, and the plan

In the order of the plan:

1. Narrower exceptions. `again`, `mixed` and the marks of `trouble` other than "double" are set by
   more steps than can do harm, as the history of the session was before `raced`. Each theorem with the weaker exception, the
   run first.
2. Composition of `OutboundQueue` with the opt-out (a campaign text after an opt-out).
3. An abstract specification of the conversation (messages, answers, who is in control)
   that `InboundHandler` implements unless `raced`.
4. Pure algorithms as operators against reference definitions: document chunks, friction
   and repetition detection, slot extraction.

Left out for good: the panel's HTML and template editor, prompts and wording, HTTP clients and
payload parsing, the dashboard's aggregates and the logs (read-only), the wiring of the
objects, and `OutboundQueueWorker`, which nothing starts.

**The replay engine and the conversation log** are left out because at this commit they reach
nothing. `handle` stores an inbound event before it knows the lead, with no `lead_id`, so
`replay_conversation` sees a lead's outbound and system events only. `log_turn` hands
`spreadsheet.sheet1`, a property, to `asyncio.to_thread` as if it were a function; the call
raises, is logged, and no turn is written.

**Met while reading, and covered by no property**, each where a property would only restate the
code:

- `complete_2fa_login` never calls `update_last_login`: users with a second factor keep the
  `last_login_at` of before (`vault/10-sprints/sprint-D-operacion/01-D1-admin-users-db.md:24`
  says that the router updates it).
- A login that is asked for a code after its pre-auth token expired keeps asking until the page
  is loaded again.
- The sheet adapters are made per request, so the time to live of their caches never spans two
  requests (`vault/10-sprints/sprint-A-verdad-voz/02-A2-sheet-productivo.md:20` gives it as
  300 s); `AgentTools` and `HandoffRouting` model the cache as it is, of one request.
- No state's policy offers the model `query_knowledge_base` or `send_document`. `execute_tool`
  runs whatever tool the model names; the model here calls those it was offered.
- `branch_key`, `sucursal_key` and `centro` of a lead are read by both branch searches and written
  by no code but tests: leads that were imported with them, or changed by hand, are placed by them,
  the others by their city or not at all. `HandoffRouting` takes leads of every kind.
- The two branch searches take the aliases and the containers in opposite orders
  (`core/fsm/actions.py:68` and `:126`, `core/services/inbound_handler.py:1076` and `:1132`). A lead
  with two keys of different branches is announced to one and routed to the other; a stale key
  that one search takes first hides the good one from it. No document promises otherwise;
  `OneBranchIsTold` holds up to such leads, and fails without `AgreeOn`.
- `audit_log_service` swallows its errors: an action may leave no entry.
- Two calls of `schedule_campaign` are two campaigns, and each sends its texts.
