# Kolux: specification and verification

Kolux is a desktop app that runs coding agents side by side: terminals, a project
and worktree manager, a browser, an editor, and a command line (`kolux`) that the
agents themselves use to coordinate. This directory holds TLA+ modules of the part
where a mistake loses somebody's work: the *orchestration* (the tasks a coordinator
hands out, the workers that do them, the mail they write to each other, the prompts
typed into their terminals), the *automations* that start agents on a timetable, and the
*background service* that keeps terminals running while no window is open.

Paths below are relative to the repository root; a bare file name is under
`src-tauri/src/`. ORCH-nnn and AUTO-nnn are the repository's own requirement
numbers (`spec/08-orchestration.md` and its neighbours).

| file | what it is |
| --- | --- |
| `Dispatches.tla`, `MCDispatches.tla`, `DispatchesProofs.tla`, `DispatchesStepsProofs.tla` | the orchestration records, worker starts, terminals, crashes and restarts; its instances; its proofs |
| `Handing.cfg`, `Starting.cfg`, `Closing.cfg`, `Exits.cfg`, `Gates.cfg` | instances of it, one for each question |
| `Requests.tla`, `MCRequests.tla`, `RequestsProofs.tla`, `Retries.cfg` | the request server: its queue, receipts, unfinished and joined starts, crashes |
| `MailDelivery.tla` | what a mailbox promises, whoever reads what: the abstract specification |
| `Mailbox.tla`, `MCMailbox.tla`, `MailboxProofs.tla`, `Mail.cfg` | the mailbox as it is: Runs, bindings, batches, waiting checks; it implements `MailDelivery` |
| `Pointing.tla`, `MCPointing.tla`, `PointingProofs.tla`, `Pointing.cfg` | the mailbox composed with the pointers: the line typed into an idle agent's pane when mail waits |
| `SendOnce.tla`, `MCSendOnce.tla`, `SendOnceProofs.tla`, `Prompts.cfg` | how a prompt gets into a terminal: paste, pause, Enter, and what holds Enter back |
| `Automations.tla`, `MCAutomations.tla`, `AutomationsProofs.tla`, `Automating.cfg` | automations: the clock, events, Run now, the threads that start runs, the panes they are followed in |
| `UnheardTurn.cfg` | an instance of it on which a sentence of a comment fails |
| `TerminalLink.tla`, `MCTerminalLink.tla`, `TerminalLinkProofs.tla`, `Linking.cfg` | the background terminal service, the window's link to it, output saved over quits and crashes, Manage Sessions |
| `PROJECT.json` | components, runs, the source lines of every definition, findings, hazards, theorems |

To run one: `tlc -config Mail.cfg MCMailbox.tla`; the proofs: `tlapm MailboxProofs.tla`
and so on. A name that begins with "MC" is an instance for TLC and models nothing.
A definition marked "Mutant" in a module is a wrong variant of the one after it,
kept to show that the properties notice it; no specification uses it.


## 1. The system and its parts

### How it runs

One Kolux process serves one profile folder. Inside it:

* a **CLI thread** takes requests from the `kolux` command line one at a time and
  answers each before it takes the next (`cli/mod.rs:3552-3624`). A command that
  waits (`check --wait`, `ask`) is a client that asks again every half second;
* the **window** (a web page) acts on notices the other threads emit, opens agent
  panes and runs a worktree's setup script;
* each terminal has an **exit thread** that runs when its program ends
  (`terminal.rs:1117-1167`);
* each pane with unread mail has a **runner** that looks whether its agent is idle and
  types the line that points at the mail (`orchestration/pointer.rs:205-240`);
* the **automation clock** is one thread: tick, settle, sleep half a minute
  (`automations.rs`); an event starts its automations on a thread of its own;
* the **store** is a SQLite key-value table behind one mutex (`state.rs`). A list is
  read whole, rewritten whole and saved under its key; several keys go in one
  transaction only through `set_all`;
* optionally a **background terminal service** process owns the panes, so they
  outlive the app and are *adopted* at the next start (`terminal.rs:1542-1596`).

The user can type into or close any terminal at any time, quit, or lose the process
between any two writes.

### How the parts touch each other

| from | to | by |
| --- | --- | --- |
| CLI thread | records, mailbox, receipts | the store's lists, read and saved under its mutex |
| CLI thread | window | a start notice; the answer is a *stamp* in memory |
| exit thread | records, automations | `worker_exited`, `pane_ended`: by terminal handle, under the store's mutex |
| mail commands | pointers | `after_send`, `after_check`, `rebind`, under the pointers' mutex |
| runner, `terminal send`, opening prompt | a terminal | `sendonce.rs`: a lane per terminal and two counts of who wrote |
| hooks | automations | `on_status`, then `on_event` for a finished turn |
| automations | window | a start notice; the pane's spawn *claims* the run it names |
| service | window | events on one connection: output, exits; the reader hands them to each terminal's handlers |
| window | service | attach, spawn, kill, list: a request waits for its answer for a limited time (`CONTROL_WAIT`) |

In the models: `Pointing` composes the mailbox with the pointers; `Mailbox` reads a
dispatch's state as `Dispatches` leaves it (`work`, five states reduced to four);
`Requests` meets `Dispatches` in `AskWindow`, where a start leaves something behind, and
in the rule that one request runs at a time; `Pointing` uses `SendOnce` as "a line goes
in or does not, and then it is over", which is what `SendsEnd` gives.

### Components

Status is that of `PROJECT.json`: what the modules here cover.

**Orchestration records** (`orchestration.rs`, `orchestration/restart.rs`) — partly modelled.
*State*: the task list (status, dependencies, the dispatch it is under), the dispatch
list (status, terminal, process, ended, kept, released, late), the decision gates.
*Operations*: task-create, task-update, dispatch, worker-done reports, abandon,
worker-stop, worker-retain, worker-release, worker-list/show, breaker-reset, gate
create/resolve, reset; the sweep at start that marks unfinished work "outcome unknown".
*Hard*: two lists that must agree, rewritten by different commands, the exit threads
and the restart sweep; mail saved separately from the lists; ids given out again.
*Correct when*: no task has two workers; a dispatched task has one; ends are final;
gates and dependencies hold; the breaker trips on time.

**Worker start and terminal exits** (`cli/mod.rs`, `terminal.rs`) — partly modelled.
*State*: the start in flight, the *stamps* that tie a start to the session the window
opens for it (in memory), the start notices, the terminals.
*Operations*: worker-start and its retry: claim, placement, setup, wait, record, late
stamp; `worker_exited`; opening, closing, adopting terminals.
*Hard*: the store is held only in the claim and the record, minutes apart; sessions come
after their start gave up; terminal handles are numbers that restart with the process.
*Correct when*: a worker runs in its own session; a death is told and nothing else is
told as one; a stop or release closes nothing that is not the worker's own; a start ends.

**Mailbox** (`orchestration.rs:1084-1520`) — partly modelled.
*State*: Runs, which pane is bound to which Run and in which *epoch*, messages,
deliveries (the batch a reader was last given). *Operations*: run-create/use, send,
group send, reply, ask, check with acknowledgement, reset. *Hard*: a waiting `check`
releases the store between looks, so the pane can be bound elsewhere meanwhile; a
batch is repeated until acknowledged; several readers share a box. *Correct when*: a
message is in one batch only, in order of arrival; a batch comes back whole to its own
reader; a wait left behind takes nothing of the new Run.

**Request receipts** (`orchestration.rs:1002-1060`, `cli/mod.rs:3023-3098, 3552-3624`) —
partly modelled. *State*: answers by request key, requests begun and not finished (at
most 32), the server's queue (at most 64), the starts lately finished (in memory).
*Operations*: once, begin, finish, join_running, request-show, reset. *Hard*: a crash in a
request, a retry of one that did its work, a retry that waits behind its first sending,
the cap, receipts that get old. *Correct when*: a retried request never works twice, and
request-show tells what became of it.

**Send-once** (`orchestration/sendonce.rs`, `cli/mod.rs:2180-2310`) — partly modelled.
*State*: a lane per terminal, two counts (writers, cancels), the stored receipts, the memo
of those that could not be saved, whether an opening prompt was claimed. *Operations*:
terminal send with text, Enter, Ctrl+C; the pointer's line; the opening prompt.
*Hard*: three threads and a user write into one terminal; look and write are separate.
*Correct when*: a prompt is typed once and entered at most once, never merged with another,
and Enter is held back when the user wrote.

**Mail pointer** (`orchestration/pointer.rs`) — partly modelled. *State*: by pane the
arrivals, what was seen, whether a runner, a line or a grace time is under way.
*Operations*: arrive, after_check, rebind, the runner's decide and typed. *Hard*: arrivals
while a line is typed; a runner that ends as mail comes; a wait that is over.
*Correct when*: no mail is left unpointed, and none is pointed at twice.

**Automations** (`automations.rs`) — partly modelled. *State*: automations (timetable,
switch, last number), runs (status, pane, what it was before a restart), the clock's due
list, the launches under way. *Operations*: save, switch, delete, Run now, cancel, tick,
event, precheck, placing, recording, claim, status, pane end, settling, stall, tidy and
reconnect at start. *Hard*: a launch holds no lock for minutes; two lists saved one after
the other; terminal numbers that start over. *Correct when*: a run follows its own pane
only, Run now starts one job, numbers never come again, no run hangs, no due time is lost.

**Setup gate** (`orchestration/setup_gate.rs`) — not a module of its own; its three
outcomes (go, failed, no answer in time) are `AskWindow` and `SetupFails`.
**Kept blobs and layout upgrade** (`orchestration/kept.rs`, `upgrade.rs`) — not modelled:
an unreadable value is set aside before its key starts fresh, a layout is upgraded in one
transaction; sequential, its failures are those of the file system.
**Agent teams** (`orchestration/teams.rs`) — not modelled: nothing calls it yet.

**Terminals and background service** (`pty.rs`, `pty_service.rs`, `pty_link.rs`,
`pty_pump.rs`, `terminal.rs`) — partly modelled. *State*: in the service the sessions with
their output counts and tails, and the one attached window; in the window the registry of
terminals, the handlers attached to each, events held for terminals without handlers, the
count of what was drawn; on disk each pane's saved output and the counts of the last quit.
*Operations*: spawn, output, exit, kill, attach, list, the service's end; adopt, open, close,
hand on, hold, flush, close all, detach and let go; the two looks of Manage Sessions. *Hard*:
output and exits that come before their handlers; the reader, a flush and a start that
wait for the registry and for each other; a window that ends before it recorded what it drew;
a list read before the registry changed. *Correct when*: a pane gets its output in order and
its end once; what is saved repeats nothing, and leaves out only what the service's tail lost or
repeated output hides; nobody's pane is ended by mistake; news always arrives. `Dispatches` and
`Automations` see of all this only terminals that open, end,
close, are adopted, and numbers that are given out anew.

**Profile store, recovery** (`state.rs`, `resources/recovery.rs`) — not modelled.
Settings with a backup and set-aside copies, keys poisoned after a failed read.
*Correct when*: a file that could not be read is never overwritten.

**Schedule** (`schedule.rs`) — not modelled: calendar arithmetic over time zones. The
automations take from it that a due time lies ahead or has come.

**Updates** (`update.rs`, `resources/update_guard.rs`), **lifecycle and final save**
(`lifecycle.rs`, `final_save.rs`), **agent hooks and status** (`hooks.rs`, `status.rs`),
**browser leases** (`browser_lease.rs`) — not modelled: small machines, candidates for
later modules.

**Fences, git, pull requests, browser, chat, accounts, installation, front end** — not
modelled: mostly I/O, parsing and layout. The one thing the records and the automations
need of the front end, that the window may act on a start notice whenever it likes or
never, is the action `WindowStarts` of `Dispatches` and of `Automations`.


## 2. The models

In the order of the table above: state, actions and their atomicity, abstractions.

### `Dispatches`: state

| variable | in the code |
| --- | --- |
| `tasks` | the stored list `orchestration.tasks`: status, dependencies, `dispatchId` |
| `dispatches` | the stored list `orchestration.dispatches`; a row's fields as in the comment at `Row` |
| `gates` | `Mail.gates` |
| `doneMail` | the stored `worker_done` messages, reduced to the dispatch they name |
| `runtime` | `std::process::id()` of this start, as a counter |
| `terms` | the terminal table: unopened, open, exiting (ended, exit thread still to act), ended, closed by somebody |
| `notices` | start notices emitted to the window and not acted on |
| `stamps` | the static `STAMPS` of `cli/mod.rs`: starts waiting for their session |
| `start` | the local state of the `worker-start` request in flight |
| `startedFor`, `resets`, `lost` | history, for the properties only: which notice a terminal was opened for, how often the records were reset, and whether a start or a reset was cut in two |

Ids are positions in the lists: `next_id` (`cli/mod.rs:2550`) hands out the highest
number there is plus one, and a list only grows or is emptied. A reset therefore
gives the same ids out again, as it does in the code.

### `Dispatches`: actions and their atomicity

What can happen between what follows from who holds the store mutex:

* A `tasks`-command (create, list, show, update, dispatch, abandon, stop, retain,
  release, breaker) holds the store from its read to its save: one action each. All of
  them promote ready tasks and reconcile late sessions before their own work, and spend
  gone alarms at the save; these are `TS`, `DS` and `Save`, part of every such action.
  Both lists go in one transaction.
* A done report, a gate command and a reset write the lists and the mail one after the
  other. Each of those actions has a second disjunct, `DieWith`, in which the process ends in
  between: only what was saved first survives.
* A release saves "pending", archives, closes and saves again: its second disjunct is
  the crash in between.
* `worker-start` is six actions (claim, placement failure or setup failure and task
  failure, notice, end of the wait, record) because the store is let go between them.
  No other command runs meanwhile (`NoStart`), since the CLI thread is busy; the window,
  the user, the exit threads and the end of the process do.
* Exit handling is two actions: the program ends (`TerminalExits`), later its thread
  takes the store and stamps the row (`ExitHandled`). Anything may run in between.
* `Restart` is the end of the process at any point, with the sweep of the next start.
  With `Service` any subset of the open terminals survives, under their handles.

A refused command changes nothing and is no action. A command that only reads still
saves the lists it promoted and reconciled (`Read`, `WorkerShow`).

### `Dispatches`: what is abstracted

One Run; names, briefs, results, timestamps and receipts; a started worker's pass is
"has it or not" (`ReportIsMail`), without the pass's process generation;
`late` folds four fields that are only ever set in one order into one; the user's typing
and what a terminal runs now are the nondeterministic `theirs`.

### `Requests`

The request server around those commands. It does not look at
what a command does (that is `Dispatches`): it counts, for each retry key, how often
the command's work was done.

| variable | in the code |
| --- | --- |
| `answers`, `pending` | `Mail.answers` and `Mail.pending`, by retry key (command, caller, request id); of a pending entry, the process that began it |
| `old` | the receipts whose stamp is older than `RECEIPT_TTL_MS` |
| `queue` | the bounded channel of `serve_loop_with`, each request with its arrival |
| `running` | the worker start the server is in: begun, trying, the window asked |
| `finished` | the static `FINISHED`: what a repeat that waited may join |
| `runtime`, `clock` | the process, and the time, which only starts begun and ended advance |
| `done`, `cut`, `forgotten` | history: by key, works done, works whose receipt a crash cut off, receipts dropped |

A mail command saves its work and its receipt in one value: one action (`ServeMail`). A
command that writes the lists saves them first (`cli/mod.rs:1997`, `:1628` for a report)
and the mail with the receipt after them (`:1694`): `ServeLists` has a second disjunct in
which the process ends in between. A start saves `begin`, lets the store go, works, and
saves `finish`: `Begin`, then `Join` a start that was under way when the repeat arrived or
`Try`, `AskWindow`, `End`; `Restart` may come between any two. `Finish` prunes old
receipts as `finish` does, and so only when some keyed request finishes. `TurnAway` is
every refusal: a full ledger, or the command's own. The ten minutes a finished start is kept
are an arbitrary cut in the past (`End`). A request key is made for one request, as
the CLI does.

### `Mailbox` and `MailDelivery`

| variable | in the code |
| --- | --- |
| `runs`, `bindings` | `Mail.runs`; `Mail.bindings`, by pane: the Run it is tied to, and its epoch, which `bind` raises |
| `messages` | `Mail.messages`, by number: box, sender, kind, Run |
| `deliveries` | `Mail.deliveries`: the reader (a pane's own box or a Run's), the messages, acknowledged or not |
| `seq` | the highest number of each list ever given (`Mail.seq`), which a reset keeps |
| `work` | the dispatches' rows as the mailbox reads them: none, open, cut (outcome unknown after a restart), over |
| `live` | the open terminals |
| `waits` | the clients in `wait_for_mail`: their check and the epoch of their first answer (the *fence*) |
| `strayed` | history: what a wait took after its pane was tied anew |

A mail command reads, changes and saves the stored mail under one lock: one action. A
waiting check is a client that asks again, so it is a record in `waits` between its looks
and each look is an action (`Poll`): turned away or fenced it ends, with an answer it
ends, without one nothing changes. `Check` does what `Mail::check` does in its order:
acknowledge, repeat a batch that is still wholly wanted, else take what is fresh as a new
batch; `peek`, `unread` and `all` make none. `SendGroup` copies a message to other agents'
terminals in any order of terminals, since which terminals run agents is the
window's knowledge. `Restart` keeps the stored mail, ends the waits and gives the same handles again.

`MailDelivery` says what that adds up to: messages are fresh, in one batch, or settled;
a turn of a reader settles a whole batch, makes one of fresh mail, or both; only a
reset drops. `Promise` is the refinement mapping: `fresh` is what no delivery holds,
`batches` the deliveries not acknowledged, `settled` what acknowledged ones hold.

*Abstracted*: subjects, bodies, receipts (`Requests` has those), timestamps; questions are
a kind of message; `ask` waits for its reply with `ask --resume`, which only reads.
*Bounds*: `MaxRuns`, `MaxMessages`, `MaxEpoch` (times a pane is tied), `MaxWaits`,
`MaxResets`.

### `Pointing`

`Pointing` EXTENDS `Mailbox`: each of its mail actions is the mailbox's action with the
pointer calls the command makes after it (`after_send`, `after_check`).

| variable | in the code |
| --- | --- |
| `pointers` | the map of `Pending` by pane: arrivals not yet pointed at, ids seen, whether a runner thread is up, the line under way, the time since the last line (none, within 15 s, older), whether the agent worked since |
| `waiting` | panes with `waiting_at` less than two seconds ago |
| `lines` | the arrivals the line on its way was made for |
| `told`, `twice` | history: by pane, mail a line that went in counted; mail counted in two |

A pointer call holds the pointers' mutex: one action with the command that makes it. The
runner is a thread: `Decide` is `decide` under the mutex with what it saw of the agent
before (`look`); then the lock is gone while the line is typed (`LineGoesIn`, or
`LineFailed` before anything was pasted), and `LineLanded` is `typed`. Anything may
come between. A runner that finds its pane gone, no mail, or a wait seen lately ends, with
its flag cleared under the same lock in which it looked.

*Abstracted*: which lines agents' screens show; the half second between looks; panes of
agents that take no Enter; the two holds for chat views, which the code never sets.

### `SendOnce`

One terminal and all that write to it.

| variable | in the code |
| --- | --- |
| `live`, `prompting` | the terminal is open; it shows a permission prompt |
| `counts` | `WRITERS`: a count of writers and one of cancels; a ticket is a copy of both |
| `lane` | the terminal's lane: who holds its mutex |
| `sends` | by sender thread (`cli`, `pointer`, callers with an opening prompt): the phase of its `send`, what it sends, its ticket |
| `opened` | `OPENED`: the opening prompt was claimed |
| `receipts`, `memo` | the stored receipts, oldest first; requests whose receipt could not be saved, in memory |
| `log`, `forgotten` | history: what went into the terminal; requests typed whose receipt is lost |

A send is: wait for the lane, claim the terminal, look (`LooksToPaste`), paste (`Pastes`), look again
after the pause (`LooksToEnter`), press Enter (`Enters`), write the receipt (`Records` or
`CannotRecord`). A look and the write it leads to are two steps, as they are in the code,
and keystrokes, permission prompts, the terminal's end and a crash come in between.
Ctrl+C before a text and an Enter alone go in outside the lane (`cli/mod.rs:2249, 2268`).
A receipt that expires by age may be gone at any `Recorded`.

*Abstracted*: how long it waits (a look may come at once or late), the verdict whether a turn
began, the age and number of memos, the bytes of a paste.

### `Automations`

| variable | in the code |
| --- | --- |
| `autos` | the stored automations: form (timed or on an event, keep the session, precheck), switch, due time (none, ahead, come), last number, resting after an event |
| `runs` | the stored runs: automation, number, trigger, status, cause, terminal and pane key, those of before the restart, settling since, prompt sent, worked, cut; for the properties only, adrift: it was settling already when another restart came |
| `launches` | the calls of `run_inner` under way: run, the automation as it was read, stage, outcome |
| `clock` | the clock's thread: in a tick or not, and the rest of its due list |
| `events` | the rest of the list of the `on_event` thread |
| `notices` | start notices the window has not acted on |
| `terms`, `topTerm` | terminals of this process: pane key, the run they name, alive, claimed, end told, what the hooks last said; the last number given |
| `reopen` | keys of panes the window opens again after a restart |
| `used` | how often each kind of input came (the bound) |
| `opened`, `given`, `owed`, `reborn`, `ignored` | history, for the properties only |

A launch is one call of `run_inner`, which holds no lock from one step to the next: log
the run (`Begins`), the precheck's answer (`CheckPasses`, `CheckFails`), placing
(`Place`: type into the last session or ask the window; `PlaceFails`), and the record of
the start (`Record`), which writes what it decided on whatever became of the run meanwhile.
The clock reads its due list once and launches from it one by one (`Tick`,
`ClockStarts`), then closes what settled too long or stalled (`Beat`). Each of
`on_status`, `claim`, `pane_ended`, `cancel`, `delete` rewrites the runs under the
store's mutex: one action. `new_run` and `delete` write two lists one after the other:
`CutBetween` (of the clock or an event in `CutStart`, of a Run now in `CutRunNow`) and
`CutDelete` are the crash between the two. Run now waits for a run that is pending or has a
pane; it closes the others first, also those that settle, since their two minutes may be
over. `Restart` is tidy and reconnect: the service kept all terminals or none, and the link
knows any part of those when reconnect asks. That a pane's program is over reconnect never
hears (section 4).

*Abstracted*: one project, folder and agent, an agent that reports through hooks;
durations (five minutes' rest, two minutes' settling, the stall's limit may be over at
once or late); one event list at a time; the order of runs in the list is that of ids.
*Bound*: `Limits`, by kind of input and in all; `KeepRuns` stands for `KEEP_RUNS`.


### `TerminalLink`

The service process and the window process, with what each loses when it ends.

| variable | in the code |
| --- | --- |
| `up`, `terms` | the service runs; its sessions, by how far each is: asked, its program starting or over before it was stored, kept, killed, over, failed; the output count and the mark of the window that asked |
| `wire` | the socket to the attached window |
| `saved`, `seenFile` | each pane's saved output; `terminals-seen.json` |
| `phase`, `window`, `rows`, `seen` | how far the window is with `use_service` and `adopt`, its mark, the attach rows still to adopt, what it took from the file |
| `handlers`, `early`, `closed` | the link's tables: handlers with their backlog, events held, and that the connection is gone |
| `found`, `due` | what the reader took out of the tables and has not handed on; terminals whose flush is still to run |
| `held`, `drawn`, `opener` | the registry, the drawn counts, the pane in `spawn` that has the registry locked |
| `killing`, `cleaner` | closed panes' terminals still to be killed; Manage Sessions between its looks |
| `handed`, `savedTo`, `cut` | history: what each terminal's handlers ran; the last chunk of it that was saved; panes whose saved output was compacted |
| `lossy` | history: terminals with output dropped past `EARLY_CAP` |
| `unplaced` | history: terminals whose saved output said nothing of how far it goes when a window took them back after a crash, or that wrote to a file a compaction had replaced |
| `missing` | history: terminals with output no window could add: more was missed than the tail holds, or it repeats what was saved last |

Two locks decide what an action is. The link's table is locked to look a terminal up and let
go before its handler runs: `Reads`, then `Hands`, then one `Runs` for each event. The
registry is locked by each event's handler, by `spawn` from the request to the answer
(`Opens` to `Answered` or `GivesUp`), and by `adopt` for all its rows: `Runs` waits for both
(`RegistryFree`). A handler's own lock keeps the reader and a flush apart (`by`). The service
answers `attach` under the lock that `broadcast` takes, so rows and events have one order
(`Connects`). A pane's close takes it off the registry and asks for the kill later (`Kills`).
A window ends by `Detaches` and `LetsGo`, which records the counts, or by `Crashes` at any
point, which does not; the service by `ServiceEnds` at any point, of whose last events any
prefix arrives.

A pane's saved output is one file of chunks of its terminals. `Saves` is `History::append`
with its `compact`: past `HistoryCap` the file is replaced by its newest `TailKeep`, from
after the first line break in that (`Compacted`). `StoppedAt` is `missed`: after a quit the
count it recorded, after a crash the last place in the service's tail that *reads* like the end
of the saved output (`Ends`), else the longest start of the tail that does (`Overlaps`), at
least `LeastOverlap` long. So it may stop too late, where output repeats, or too early, where
the overlap is short, as the code does.

*Abstracted*: output is chunks numbered from 1, and a chunk stands for a byte wherever bytes
are counted or compared; `Text` says what each chunk reads like, and two may read alike.
Numbers of terminals are never used again, since the code pairs them with the service's id.
*Constants*: `TailKeep` (`HISTORY_KEEP`, 128 KB), `HistoryCap` (`HISTORY_CAP`, 1 MB), `Probe`
(`PROBE`, 1024), `LeastOverlap` (`LEAST_OVERLAP`, 16), `EarlyCap` (`EARLY_CAP`). *Bounds*:
`MaxTerms`, `MaxOutput` (chunks of all terminals), `MaxEvents` (windows, opens, closes, ends of
the service and looks together).


## 3. What the runs check

Each checks an instance with every interleaving of what it contains. Deadlock is not
checked: at the bounds the systems stop, and in the code an idle Kolux is no error.

| run | instance | size | properties |
| --- | --- | --- | --- |
| `Handing` | create, dispatch, send, update, abandon, breaker, gate | 2 tasks, 1 dependency, 2 dispatches, 1 gate, 1 terminal, 2 processes, breaker of 1 | `BreakerHolds`, `SettledTogether` |
| `Starting` | create, start, retry, stop, dispatch, abandon, reset | 2 tasks, no dependencies, 2 dispatches, 1 terminal, 2 processes, 1 reset | `WorkerHoldsItsTask`, `OneWorkerPerTask`, `DispatchedHasItsWorker`, `OneDispatchPerTerminal`, `FinishedIsFinal` |
| `Closing` | create, start, dispatch, stop, release, retain | 1 task, no dependencies, 2 dispatches, 2 terminals, 2 processes, background service | `ReleasedIsClosedOrTold`, `RunsItsOwnBrief`, `ClosesOnlyItsOwn` |
| `Exits` | create, dispatch, start, send, stop, show | 1 task, 1 dependency, 2 dispatches, 2 terminals, 2 processes, background service, fairness | `DeathIsTold`, `NoFalseDeath`, `StartEnds` |
| `Gates` | create, dispatch, send, abandon, gate | 3 tasks, 2 dependencies a task, 2 dispatches, 3 gates, 1 terminal | `GateHoldsItsTask`, `DependentsWait` |
| `Retries` | a send, a task-create, two keyed starts with the same flags and one without a key | 4 requests sent, a queue of 3, a ledger of 2, 3 processes, 1 reset | `NeverDoneTwice`, `ShowsTheTruth` |
| `Mail` | a coordinator and a worker of Run 1: letters to a Run, a pane, a dispatch and a group; plain checks, one of a Run, one with a filter | 2 panes, 2 Runs, 2 messages, 2 ties a pane, 1 wait, 1 reset, fairness | `GivenOnce`, `ArrivalOrder`, `FencedOff`, `KeepsItsPromise`, `WaitsEnd` |
| `Prompts` | a prompt, a draft after Ctrl+C and a bare Enter from the command line, an opening prompt, the pointer | 3 asked, 1 keystroke, 1 receipt kept, 1 failed save, 1 restart, fairness | `OneAtATime`, `TypedOnce`, `HeldBack`, `SendsEnd` |
| `Pointing` | a coordinator that reads and joins Runs, an agent that writes to it and to its Run | 2 panes, 2 Runs, 2 messages, 2 ties, 1 wait, fairness | `WaitingHasRunner`, `PointedOnce`, `MailIsPointed` |
| `Automating` | a timed automation with precheck and kept session, and one on events | any 4 inputs: up to 2 creations, due times and Run nows, 1 of each other kind; 1 run's pane and 1 of the user; 2 runs kept; fairness | `ATypeOK`, `FollowsItsPane`, `OneManualRun`, `NumbersOnlyGrow`, `DueIsAnswered`, `RunsMoveOn` |
| `Linking` | one pane, whose second terminal starts when its first is gone | 2 terminals, 3 chunks of output of which some read alike and some are line breaks, a tail of 2, saved output, probe and least overlap of 2, 1 event held, 4 of: windows, opens, closes, ends of the service, looks; fairness | `LTypeOK`, `HandedInOrder`, `SavedWhole`, `EndsNoOnesPane`, `NewsArrives` |
| `UnheardTurn` | one automation on events, one Run now, one restart | 4 inputs | must violate `FinishIsHeard` |

Runs check the two type invariants that relate parts of the state (`ATypeOK`, `LTypeOK`), and
section 5 proves them too; the other type invariants are only proved.

What they show, in words:

* **Handing.** A task that completes or fails takes its dispatch to the same end in the
  same step; a task is never handed out after its breaker tripped.
* **Starting.** However starts, retries, stops, abandons, late sessions, resets and
  crashes interleave, an unfinished dispatch holds its task and no task has two workers
  (unless a reset was cut in two); a dispatched task has its worker (unless a start was
  lost, section 4); two dispatches never share a terminal, even when a late session turns
  up that others could be handed; the end of a dispatch is never rewritten.
* **Closing.** Stop and release close only the terminal the window opened for that very
  dispatch; a release that says closed is closed, or the late agent is on the row; a
  started worker's row never names a session opened for another start.
* **Exits.** Each death of a handed or late worker is told, only deaths are told, and a
  worker start always ends.
* **Gates.** With several gates on a task it stays blocked until the last, whatever the
  order, and a task waits for all it depends on, provided nobody overrules them by hand
  (`task-update`, `worker-start`, `reset`: each may by design, or see section 4).
* **Retries.** However often a request is sent again, behind itself in the queue, to a later
  process, or past the age of its receipt, its work is done again only once for each crash
  between work and receipt and each receipt dropped; request-show never says completed of
  work not done, absent of work done whose receipt was neither cut off nor dropped, or
  pending of a start that is not the one under way. The last of these is why the wait of a
  retry for its own pending start (`cli/mod.rs:3046-3053`) is never entered: requests
  run one at a time.
* **Mail.** Two panes of one Run, the Run's own reader and a reader with a filter never get
  one message in two batches; of two messages of one kind in one box the earlier is never
  given later; a wait whose pane was tied to another Run takes nothing of that Run; the
  mailbox is a `MailDelivery`; and a wait whose mail is there, or that is fenced, ends.
* **Prompts.** Whatever the user, the pointer and the openers do, each Enter of a sender submits
  exactly the text that sender pasted last; a request is typed once however often it is
  retried, unless its receipt was lost to a crash or to newer ones; Enter is not pressed
  when the user wrote between claim and last look; and the lane is always given up.
* **Pointing.** Mail that waits for a pane always has a runner, no message is counted in two
  lines, and mail for an agent that is idle now and then does not wait for ever.
* **Automating.** A run gets a number above every one its automation gave, also after a crash
  between two saves and after pruning; a run is followed only in a pane started for it or
  typed into for it (but for runs adrift, section 4); of an automation's manual runs one is in
  progress (but for cancelled ones and ids set free, section 4); each due time gets a run, an
  entry that says why not, or the user's change; no run stays pending or settling.
* **Linking.** Whether output comes before the pane that asked for it has its handlers, while a
  flush runs, or as the connection closes, the pane's handlers run it in order and its end
  last and once; over quits, crashes and adoptions the pane's saved output never has what a
  terminal printed twice or out of order, however it repeats itself, and goes back without a gap
  from what was drawn last to the first chunk or the last compaction's cut, but for what
  section 4 names; Manage
  Sessions ends no terminal of a pane, also not of one opened or answered between its two
  looks; and output and ends get to the pane though reader, flushes and starts wait
  for one another.

### The bounds

`Dispatches`: `MaxTasks`, `MaxDispatches`, `MaxGates`, `MaxTerms`, `MaxRuntimes` and
`MaxResets` are guards of the actions that would pass
them. Two dispatches are the least in which one row can be confused with another (same
terminal, same task, an older process); two terminals the least in which a late session
can be one that was handed on; two processes the least in which a handle is given out
again; three gates on three tasks the least in which one task has several while another
has its own and a task waits on two. `MaxDeps` bounds what a task waits on; any ids
may be named, as `worker-start --spec` takes them unchecked, those of no task and the task's
own included. It is 2 in `Gates`, whose properties are about it, 1 in `Handing` and `Exits`,
and 0 in `Starting` and `Closing`, none of whose properties reads a dependency. `BreakerTrips`
is 3 in the code; the runs use 1 or 2, so that the trip is
reached, and the proofs make no use of its value.

`Retries`: a ledger of 2 (32 in the code) is filled by two crashed starts, a queue of 3 (64)
holds a start, its repeat and one more, and three processes let a key be begun by one,
crash, be begun by the next, crash, and be answered by the third. Four sendings are enough
for two keys to be retried, or one three times.

`Mail` and `Pointing`: two messages are the least that have an order, or of which one
comes while a line counts the other; two ties make a wait stale; the dispatch gives the
worker a third kind of box. The safety properties of both are proved for every size.

`Prompts`: three senders ask once each, or one asks three times; one keystroke, one
prompt change after another, one failed save and one restart may fall anywhere in them. One receipt
kept (100 in the code) lets a newer one push an older one out.

`Automating`: four inputs reach a restart within a launch, a pane reopened under the number of a
run, two runs that want one session, a deletion under a launch, and a due time met by
a pause or an edit. The counters in `used` cut the behaviours off, never an action in the middle:
threads, claims, ends of panes and the clock's beat are unbounded.

`Linking`: three windows let one quit or crash, the next adopt and crash in turn, and the
third find what both left; three chunks overrun a tail of 2 (`HISTORY_KEEP`) and one held event
(`EARLY_CAP`). The first terminal prints a, a, b, so that what a crash left may be repeated by
what came next; the second prints line breaks, so that a compaction (a cap of 2, for the 1 MB
that is eight tails) cuts behind one or keeps all it may. A cap of one tail lets the file be
compacted at the third chunk; a least overlap of 2 makes an overlap of 1 too short. The
proofs take any text, cap, probe and overlap. With one pane `close_all` never has two live
handlers at once; a second pane makes some
4 million states, past what a routine run can take.

### Fairness

* `Exits`: weak fairness of `StartStep`, the CLI thread goes on with its start,
  because every wait in one has a limit (`setup_gate::LIMIT`, the ready wait of
  `wait_ready`), and of `ExitHandled(t)`, an ended terminal's thread gets to
  run. Nothing is assumed of the window, the user or the agents: `StartEnds` holds
  although the window may never answer.
* `Mail`: weak fairness of each client's `Poll`, which comes every 500 ms. Nothing of readers,
  senders or Runs.
* `Prompts`: weak fairness of each sender's thread (its settle ends within 5 s, its pause
  within 1.5 s), and of the CLI thread that writes the receipt.
* `Pointing`: a send ends (`SendsEnd`), and time passes; strong fairness of a look that finds
  the agent idle and of a line going in: of an agent that never is idle, or always
  shows a permission prompt, nothing is promised.
* `Automating`: weak fairness of the clock's thread, of launches and of the event thread (a
  precheck has a limit, placing and saving end); strong fairness of `LateBeat`, a beat that
  comes after the two minutes of settling, which time itself brings. Nothing of the window,
  panes, agents or the user.
* `Linking`: weak fairness of the link's reader, of the handlers and flushes it runs, of the
  window while it comes up or quits, and of `GivesUp`, since a request waits `CONTROL_WAIT` at
  most. Nothing of the service, the programs, the panes or the user.


## 4. Where the documentation and the code differ

One has a run that must find a counterexample.

**A turn nobody hears of** (`UnheardTurn`, `FinishIsHeard`). `own_pane`
(`automations.rs:487`) takes a pane for a run's when any run in the list has, or had, its
terminal number, also one of an earlier process, though numbers start over
(`automations.rs:853-854`). The finish of the user's own agent in such a pane starts none of
the automations that listen for it.

Met while modelling, and not the subject of a run (several were in runs of their own
before; each is written from the code and can be had by dropping the exception in
the property named):

*Tasks and workers*

* **A lost start.** `worker-start` saves its claim (`cli/mod.rs:3374-3378`) and, when the
  placement fails (`:3410`) or Kolux quits during the wait, nothing undoes it: the task stays
  dispatched with no worker, and its dispatch id is given out again. `spec/08-orchestration.md:154-157`
  says updates can never leave a task dispatched with no worker (`DispatchedHasItsWorker`
  leaves such tasks out).
* **A start past a gate.** `start_check` (`orchestration.rs:229`) turns
  away dispatched and completed tasks only, so a task an open gate holds can be started;
  `orchestration.rs:84` says a gate holds its task blocked. It does not look at the
  breaker either; only `dispatch` does (`orchestration.rs:1648`).
* **A death nobody is told of.** The row of a started worker is pushed (`cli/mod.rs:3473-3482`)
  after the wait; a terminal that ends between the window's stamp and that push finds no
  row (`:2520`), and the row is then recorded as an unfinished worker.
  `spec/08-orchestration.md:649-652` promises an escalation.
* **A cut-short agent that still runs.** `restart.rs:29` tells the user that
  quitting stopped every pane; with the background service the pane goes on and is
  adopted, while its row says the outcome is unknown and its terminal no longer its.
* A done report from any terminal that names a dispatch silences the notice of its
  worker's death (`cli/mod.rs:2529`), whether or not it settled anything.
* A crash between the saved lists and the mail leaves a completed dispatch without its
  report, a blocked task without its gate, or an open gate whose task has been let go.
* `spend_gone_late` (`cli/mod.rs:2834-2841`) compares handles and not the process, so a
  later terminal with the same number keeps an old alarm up.
* A release of a row whose terminal an earlier process opened and the service kept says
  "released" and closes nothing.

*Receipts*

* **A receipt lost between two saves.** A command that writes the lists saves
  them before the mail that holds its receipt (`cli/mod.rs:1997`, then `:1694`). When Kolux
  ends in between, the retry finds no receipt and the work is done again.
  `docs/guide/command-line.md:152`: "the work is not done twice" (`NeverDoneTwice` allows one
  more for each such crash).
* A start that a crash left pending counts against the cap of 32 until its own retry finishes
  or a whole reset. Once 32 are left, `room` refuses every keyed change, the
  retries that would clear them included (`begin` asks for room before it overwrites).
* `FINISHED` is searched for the flags without the retry id, so two starts with the same
  flags and different retry ids, the second sent while the first ran, are one start.
* Of the finished starts those over for ten minutes are dropped when another ends, so a
  repeat that waited behind longer starts begins a second worker.

*Mail*

* A batch is repeated only while each of its messages is still in the reader's boxes
  (`orchestration.rs:1320`). Tie the pane to another Run before acknowledging, and mail of the
  first Run is in a batch that does not come back until the pane is tied back, and that no
  other reader is given. ORCH-005 (`spec/08-orchestration.md:252-275`)
  has a batch come back until acknowledged.
* A whole reset drops the bindings with their epochs, which then count from nothing: a wait
  fenced with epoch 1 meets epoch 1 again and may take mail of a Run it did not wait for.
* A message to a dispatch that a restart cut short is accepted, and nobody reads that box.
* Handles are given out again by a new process while the bindings stay: an agent in the
  terminal of the same number is tied to the Run of the one before it.

*Pointers*

* **A wakeup lost to a wait that is over.** A check that asked to wait counts as waiting even
  when it was answered at once (`cli/mod.rs:1654`, `pointer.rs:119-121`), and for two seconds
  after a pane was last seen waiting its runner drops what arrives (`pointer.rs:156-160`).
  `pointer.rs:9` says a live waiting check takes the mail instead; mail that comes just after
  such a check has no wait and no line.
* A reply and a question point at nothing; a restart drops what waits (as ORCH-008 has it).
* `check --run R` of a pane in R does not take the pointer back: a line is typed for read mail.
* A check with a filter, or one that only peeks, drops every arrival's pointer.
* What arrives while a line is typed counts as pointed at, though the line's number is older;
  a line decided before a `run-use` or the pane's own check is typed all the same.
* A write error at Enter counts as not landed, so the text is typed again at the next look;
  with a permission prompt only on screen the runner tries again without a pause.
* `after_send` runs before the mail is saved; a save that fails leaves a pointer to nothing.

*Prompts*

* Ctrl+C before a text, and an Enter alone, go in outside the lane
  (`cli/mod.rs:2249, 2268`): an Enter of another request may submit a text of the pointer before
  its pause is over. `sendonce.rs:173-174` has a terminal's prompts go one at a time.
* Between the last look and the write there is no check: what the user types there is
  submitted with the prompt. Text held back stays in the box and merges with the next one.
* A cancel before the paste is recorded as typed and held.

*Automations*

* A cancelled pending run is dispatched after all when its start is recorded
  (`OneManualRun` leaves those out; `automations.rs:824`: "ends a run at the user's ask, whatever it is doing").
* An automation paused or rescheduled while an earlier one's precheck runs is started from
  the old due list; one deleted there ends the whole tick for the others, until the next.
* Run now or an edit at the due moment swallows the due time (`reschedule`).
* Ids of runs and automations are given out again after a delete: a pane or a launch of the
  deleted run may attach to its successor. The launch then records its own outcome in the new
  run's row, so two Run nows may be in progress (`OneManualRun` leaves out the ids in
  `reborn`: runs deleted, and launches' runs that the deletion no longer found). A delete
  cut between its two saves lets a new automation of the same id inherit the old
  runs, and give the numbers of those that were pruned again (`given` starts anew with it).
* **A run adrift.** `reconnect` is documented to look for a run "by the terminal and hook
  pane it had before the restart" (`automations.rs:848-849`), but for a live terminal
  `held_in` asks for the number alone (`automations.rs:897-902`). A run that waits for its pane
  when the next restart comes keeps a number of two processes ago; when the service holds
  another terminal under that number, the run is followed there: in the user's pane
  (`FollowsItsPane` leaves out rows marked `adrift`).
* A pane that ends before its claim, or before the start is recorded, leaves a run
  dispatched until the next restart, and with it Run now refused.
* A run on the clock and a Run now may both find the last session idle and type into it;
  the pane's end closes only the first of them.
* A pane adopted from the service but not linked yet when `reconnect` asks is closed as failed after
  two minutes.
* A crash between the saves of `new_run` with a history full of runs in progress drops the
  failed row at once, and its number is given out again (`CutBetween` records it as never given).
* Pruned or deleted runs' panes turn into the user's and may trigger events.
* `reconnect` is documented to close at once a run whose terminal "the service knows ended while
  Kolux was away" (`automations.rs:850-852`). The app never gets there: `of_pane` finds a
  pane's newest program by its mark, and the end of a terminal removes the mark under the lock
  in which it is written down (`terminal.rs:1131-1133`); so `held_in` (`automations.rs:901`) only
  ever hears of programs that run. Such runs are closed by `settle`, after two minutes.

*Terminals*

* **Missed output that repeats.** After a crash `after_saved` takes the last place in the tail
  that reads like the end of the saved output (`pty_link.rs:472-501`), "so a repeat never
  doubles output". Output printed since that ends like what was saved (a repainted frame, the
  same prompt) is taken for it, and what lies between is saved nowhere: a gap. `SavedWhole` has
  such terminals in `missing`, as those that printed more than the tail holds: of them it
  says only that nothing is saved twice or out of order.
* **Output saved again after a crash.** The tail is looked for at the very end of the saved
  output, and an overlap at the tail's start only counts from 16 bytes on (`pty_link.rs:484-500`).
  When a second terminal of the pane (one closed and not yet over, or a start that was given
  up) printed last, when a compaction left nothing after a line break, or when the overlap is
  shorter, the whole tail is saved again (`unplaced`).
* **Compaction.** Past 1 MB a pane's file is rewritten to its newest 128 KB
  (`terminal.rs:380-399`): what is older is gone, and `SavedWhole` promises no first chunk
  (`cut`). The rewrite replaces the file; another terminal of the pane that has it open goes on
  writing to the one that is gone (`Strands`, `unplaced`).
* Output dropped past `EARLY_CAP` is not counted as drawn, so the count a quit records is too low
  and the next window saves that much of the tail twice.
* A start that was given up after `CONTROL_WAIT` may complete in the service. Its terminal has this
  window's mark, so Manage Sessions lists it only under a later window, which
  adopts it as a second terminal of its pane; a pane closed just before a crash comes back the same way.
* The thread that waits for a program's end and the one that pumps its output are
  independent (`pty.rs:580-588`), and the end removes the tail: output still in the pump is
  dropped (`pty_service.rs:277-280`), though `pty_service.rs:12-13` says output and exit come in order.


## 5. What is proved

Eight modules hold the proofs. Each proves its theorems for every value of the constants,
from the assumptions the component's module states on them (bounds are naturals, the sets of
letters, checks, commands and requests are made of what exists), which TLC evaluates
on every run.

### `DispatchesProofs`

For any number of tasks, dispatches, gates, terminals,
processes and resets, with or without the service, and for every set of commands:

| theorem | states |
| --- | --- |
| `InvariantHolds` | `Spec => []IInv` |
| `TypeCorrect` | `Spec => []TypeOK` |
| `TasksAreHeld` | `Spec => []WorkerHoldsItsTask` |
| `WorkersAreUnique` | `Spec => []OneWorkerPerTask` |

**The inductive invariant.** Neither safety property is inductive: a start in flight
will push a row for its task, and whether that row holds its task depends on what the
claim left. `IInv` adds what every step of a start may rely on:

    IInv == TypeOK /\ StartHolds /\ ("reset" \notin lost => Held)

`Held` is `WorkerHoldsItsTask`; `StartHolds` says what each phase of a start in
flight has left behind: its task is dispatched under the id the row will get
(`Len(dispatches) + 1`), or, once a failed setup's row was pushed, under the id it got.
With it, an unfinished dispatch of the start's own task would have to be named by a task
that already names a row not yet there. `OneWorkerPerTask` follows: two unfinished rows
on one task are both what the task names.

**The argument.** Every command writes the lists through a few operators, so the steps
reduce to lemmas about those. For each of `Promote`, `HandBack`, `UpdatedTasks`,
`UpdatedRows`, `Reconcile`, `SpendGone`, `CutShort` and the rows' rewrites there is a
typing lemma and one that says which tasks and rows keep what `Held` reads (status,
task, dispatch). `HeldMoves` carries `Held` from one pair of lists to another when every
unfinished row kept its place and its task; on top of it are one lemma for a saved
command (`SaveInv`), one for the end of the process with any lists already written
(`DieInv`) and one for a claim (`ClaimInv`). The induction step has one step
per action of `Next`, and the temporal theorems follow by `PTL`.

### `DispatchesStepsProofs`

What the steps of `Dispatches` keep, on top of `IInv`:

| theorem | states | hypothesis |
| --- | --- | --- |
| `DispatchedTasksAreWorked` | `Spec => []DispatchedHasItsWorker` | |
| `EndsAreFinal` | `Spec => FinishedIsFinal` | |
| `TasksSettleWithTheirDispatch` | `Spec => SettledTogether` | |
| `TerminalsHaveOneDispatch` | `Spec => []OneDispatchPerTerminal` | |
| `ReleasesAreTrue` | `Spec => []ReleasedIsClosedOrTold` | |
| `DeathsAreTrue` | `Spec => NoFalseDeath` | |
| `BriefsAreKept` | `Spec => [](resets = 0 => RunsItsOwnBrief)` | |
| `DeathsAreTold` | `Spec => []DeathIsTold` | `NoReset` |
| `TerminalsAreOwn` | `Spec => ClosesOnlyItsOwn` | `NoReset` |
| `BreakerIsKept` | `Spec => []("reset" \notin lost => BreakerHolds)` | `HandsOnly` |
| `DependenciesAreMet` | `Spec => []("reset" \notin lost => DependentsWait)` | `Strict` |
| `GatesHold` | `Spec => [](runtime = 1 => GateHoldsItsTask)` | `Strict` |

A hypothesis takes commands out of `Commands`, and each is one the code needs.
`worker-start` and its retry look neither at the breaker nor at gates (section 4), so
`HandsOnly` leaves them out; `task-update` is meant to overrule gates and dependencies, so
`Strict` leaves it out too. A reset cut in two leaves the tasks without their dispatches
or the other way round (`"reset" \notin lost`). The process may end between the two saves
of a gate and leave it open over a task let go (`runtime = 1`: no process ended yet).
A reset gives the dispatch ids out again while notices and sessions of the old ones are on
their way, so a session may come to the namesake of its dispatch (`resets = 0`, `NoReset`),
and it forgets which dispatches a report named (`DeathsAreTold`). The runs have the same
commands: what they check on a small instance is what is proved.

**The argument.** `RowsGo` says what a command may do to a row (end it, give it a session,
mark it released or told), and every command is shown to rewrite the stored rows, or those rows
reconciled with the late sessions, in that way; so a fact about rows is proved once for `RowsGo`
and once for each step of a start, an exit, a session and a restart. `Coupled` and `Guarded` are the
same for the two lists together. Two invariants carry the theorems. `WInv` is about tasks:
the start in flight, dispatched tasks and their rows, open gates, met dependencies, spared
breakers. `TInv` is about terminals:

    Tied(ds)      no two dispatches hold a terminal, and a session a start may still take
                  is held by none
    Briefed(ds)   a stamp, a session and a row name the notice the terminal was opened for
    Released(ds)  a row released is over, and its terminal closed or its late agent told
    Told(ds)      a terminal whose exit was handled has no row left to be told of

They are stated of a list of rows given to them, since a command first reconciles and then does
its own work: the middle of a command has to satisfy them as well.

### `RequestsProofs`

For any requests, any limits of queue and ledger, and any number of processes and resets:

| theorem | states |
| --- | --- |
| `LedgerHolds` | `Spec => []LedgerInv` |
| `RequestsTyped` | `Spec => []TypeOK` |
| `NeverTwice` | `Spec => []NeverDoneTwice` |
| `ShowIsHonest` | `Spec => []ShowsTheTruth` |

`NeverDoneTwice` bounds `done` but does not say where the works are, so it is not inductive.
`LedgerInv` keeps the books:

    Account    == \A k \in Keys : done[k] = Has(answers, k) + Has(InFlight, k)
                                            + cut[k] + forgotten[k]
    Unanswered == running # Idle => running.req.key \notin answers
    OwnPending == \A k \in Keys : pending[k] <= runtime /\
                      (pending[k] = runtime <=> running # Idle /\ running.req.key = k)

Every work is under its receipt, in the start under way, cut off or forgotten; a start under
way has no receipt, so the first two never both count. `FinishBooks` says what `Finish`
moves (what it prunes becomes forgotten, a kept answer one receipt more); the steps that
end a request go through it (`ServedLedger`, `OverLedger` for `Join` and `End`), the
others have a lemma each. `request-show` is honest because what this process has pending is
exactly the start under way. The proofs use only the assumption that the limits are
naturals.

### `MailboxProofs`

For any panes, dispatches, Runs, letters, checks, and any bounds:

| theorem | states |
| --- | --- |
| `MailHolds` | `Spec => []MailInv` |
| `MailTyped` | `Spec => []TypeOK` |
| `NeverGivenTwice` | `Spec => []GivenOnce` |
| `InOrder` | `Spec => []ArrivalOrder` |
| `FenceHolds` | `Spec => []FencedOff` |
| `MailIsDelivered` | `Spec => KeepsItsPromise` (the refinement) |

    MailInv == TypeOK /\ Stored /\ GivenOnce /\ ArrivalOrder /\ Behind /\ FencedOff

`Stored` says that a batch holds stored mail and is not empty: a message just sent is
therefore in no batch, which keeps `ArrivalOrder` and makes it fresh in the abstract
mailbox. `Behind` ties waits to epochs: a wait whose pane was not tied anew has its
epoch, one whose pane was has an older one, so the fence shows; tying only raises an epoch.
For the refinement every command is one of `Posts` (messages are added), a look (a batch is
acknowledged, made, or both), or a drop: three lemmas map those to `Post`, `Turn` and
`Drop`, and the rest stutter.

### `PointingProofs`

| theorem | states |
| --- | --- |
| `PointingIsMailbox` | `PSpec => Spec`: the mailbox with its pointers is the mailbox |
| `PointersHold` | `PSpec => []PointerInv` |
| `PointersTyped` | `PSpec => []PTypeOK` |
| `NoMailWithoutRunner` | `PSpec => []WaitingHasRunner` |
| `NeverPointedTwice` | `PSpec => []PointedOnce` |

Since `Pointing` is the mailbox (first theorem), the mail's invariant comes for
free. `PointedOnce` rests on three facts: what a pane was told, or waits to be, has a number
already given (`Numbered`), so new mail was never told; mail that waits was told only between
the paste of a line and its end (`Untold`); and it waits once (`WaitsOnce`).

### `SendOnceProofs`

For any requests, callers, numbers of receipts, keystrokes, failed saves and restarts:

| theorem | states |
| --- | --- |
| `WritersHold` | `Spec => []WriterInv` |
| `SendsTyped` | `Spec => []TypeOK` |
| `NeverMerged` | `Spec => []OneAtATime` |
| `EnterHeldBack` | `Spec => []HeldBack` |
| `NeverTypedTwice` | `Spec => []TypedOnce` |

    WriterInv == WellTyped /\ LaneHeld /\ TextIn /\ Untouched /\ LookedBack
                 /\ OneAtATime /\ HeldBack

`LaneHeld`: from its turn to its end a sender alone has the lane; so two senders are never
between text and Enter at once, and `TextIn` (its text is in, and after it only what goes in
outside the lane) survives every other sender's step. `Untouched`: as long as a sender's
claim is the newest, no key went in after it; the last look compares the counts, so an Enter
that goes ahead had none in between. Steps that write nothing share one lemma (`QuietStep`); those that
write, begin or end have one each. `TypedOnce` rests on an invariant of its
own, `Remembered`: a sender before its paste has typed nothing for its prompt yet (`NotYet`);
while the terminal lives, a request that was typed has its receipt or memo, or its sender is about to
leave one (`Known`), or it is in `forgotten`; the opening prompt is claimed before it is typed, by
one caller (`HandedOver`). A new send begins only for what nobody knows. One assumption is
about names: the CLI thread, the pointer and the
openers are different senders.

### `TerminalLinkProofs`

For any panes, tails, caps and bounds:

| theorem | states |
| --- | --- |
| `CleanerHolds` | `LSpec => []CleanerInv` |
| `PanesAreLeftAlone` | `LSpec => []EndsNoOnesPane` |
| `LineHolds` | `LSpec => []LineInv` |
| `OutputComesInOrder` | `LSpec => []HandedInOrder` |
| `SavedHolds` | `LSpec => [](SavedInv /\ QuitsEmpty)` |
| `OutputIsSavedWhole` | `LSpec => []SavedWhole` |
| `LinkIsTyped` | `LSpec => []LTypeOK` |

    CleanerInv == LinkTypes /\ StartsItsOwn /\ CleansLinked /\ OwnedSince /\ ListedIsFree

Manage Sessions looks at the registry, lets it go, reads the service's list and ends what it
chose. Meanwhile panes open. The argument is the mark: once the window is linked it adopts no
more (`CleansLinked`), so what it gets after the first look it asked for itself and has its mark
(`StartsItsOwn`, `OwnedSince`), which the second look leaves out (`ListedIsFree`). Terminals only
grow in number and keep their marks (`TermsGrow`).

For the order of a terminal's events:

    LineInv == PipeTypes /\ Gathered /\ \A t \in Terms : LineOf(t)

An event of a terminal is at one of six places: on the wire, held for want of handlers, in the reader's
hands, in the handlers' backlog, about to run, handed on. `Line` says that each place is
before the ones behind it, `Lines` that each is in order itself, and `AllSent` that what is
anywhere was sent, so that what the service sends next comes after all of it. Most steps
move one event from the end of a place to the next. A terminal gets handlers once in a window
(`Fresh`), so nothing is handed on before a flush. The end comes once because the handlers remember
that they are `over` until nothing of the terminal is left anywhere (`EndsOnce`).

For what is saved:

    SavedInv == /\ SavedTypes /\ Apart
                /\ \A t \in Placed : Coming(t)
                /\ \A t \in Known : SavedFits(t)

`Known` are the terminals that are neither `lossy` nor `unplaced`. What is saved of one is in turn,
and without a gap up to `savedTo` unless some is `missing`, from the first chunk unless it
was `cut` (`Kept`). It ends where something else says that it does (`SavedFits`, `Agrees`): at
the count the window drew while it holds the terminal, at the count a quit recorded, at or before
the count of the row it is to be taken up from. For the window to save the right chunk next, what it
has still to draw must go on from there: `Coming` says that all of it is newer than what was
drawn (`Onward`), and that nothing is left out between, up to what the terminal has
printed (`NoGap`). A chunk that runs is then the next one, because the line has it before
all the others (`RunsHeld`); what `adopt` adds begins after what is saved (`AdoptsAdd`).
After a quit the record says where that is. After a crash the text does: a terminal whose
own newest output ends the saved output has, in the tail, a place that reads alike at
`savedTo`, and `StoppedAt` takes the last such place, so it is never before `savedTo`, and is
after it only where output repeats, which makes the terminal `missing` (`StopsLast`,
`StopsRight`). This uses nothing of `Text`: any two chunks may read alike. A compaction keeps
the end of the file (`CompactionKeepsTheEnd`), which leaves all but the first chunks where
they were (`ShortenedKeeps`, `PutAwayKeeps`); `SavesKeep` says so of every saving step, for the terminal
that saves and for the others of its pane. `NoGap` stops when output is cut off: a window that quits
draws only what its handlers have by then (`Ahead`), which `let_go` counts, and holds nothing back
when no handlers are there (`QuitsEmpty`); of a service that ended only the first events arrive
(`EndSaved`). `Aloof` collects the steps that save, draw and place nothing. Output dropped past `EARLY_CAP` makes
its terminal `lossy`, so do not read the theorem as saying that nothing is lost: it says that
what is lost is lost in one of the ways that `lossy`, `unplaced`, `missing` and `cut` name.

`LinkIsTyped` needs the same invariant: a drawn count is within the bound because it is never more
than what the terminal printed.

### `AutomationsProofs`

For any forms, number of runs kept and bounds on the inputs:

| theorem | states |
| --- | --- |
| `AutomationsAreTyped` | `ASpec => []ATypeOK` |
| `OneRunNow` | `ASpec => []OneManualRun` |
| `NumbersAreFresh` | `ASpec => NumbersOnlyGrow` |
| `RunsAreFollowedAtHome` | `ASpec => []FollowsItsPane` |

`Shape` is the type invariant with what it rests on: the lists are finite, a launch's run does
not settle, a launch that records has an outcome. Steps fall into kinds, with one lemma
each for every invariant: a run is logged (`Grows`: one more row, and only ended rows of its
automation go), rows calm down (`Calmer`: no run comes back to life, none changes
hands), a launch writes its row (`Wrote`), everything is restarted, maybe in the middle of a
start (`CutWith`: beside runs that calmed down, as those a Run now closed first; `EndsAre`).

* `OneRunNow`. `Manual == Jobs /\ OneJob`. Recording a start makes a run dispatched whatever became
  of it, so a launch is as dangerous as a run: `Jobs` says that a launch's run is still pending,
  or cancelled, or gone, and that no two launches write to one run, as long as its id was not
  set free by a deletion.
* `NumbersAreFresh`. After a crash between the two saves of `new_run` the automation does not
  know its highest number. `Remembered` says who does: the automation, or the newest run, which
  is over, and which pruning does not take as long as fewer than `KeepRuns` of the
  automation's runs are in progress (`Stays`; a lemma on the cardinalities in `prune` says so).
  A run logged while that many are in progress is dropped at once by such a crash, and then
  its number counts as never given.
* `RunsAreFollowedAtHome`. `Follows == PanesKnown /\ RunsKnown /\ LaunchesKnown`. What names a pane,
  by number or by key, names one its run was in: a terminal's `names`, a run's
  terminal and key and those it had before the restart, a launch's pane. A number is only good
  while it means the pane with that key (`AtHome`): numbers are given out anew by a process
  whose terminals are gone, so a run in progress, or one a launch may put back in progress, must
  not name one above `topTerm`. A restart clears the numbers of runs in progress and gives
  back those the service kept, with the same key, unless the number is older (`adrift`).

Three properties turned out to be false beyond the bounds of the runs when their proofs were
tried, for the reasons in section 4 (a run adrift, a launch that writes to a
successor, numbers after a cut deletion); the model now says what they leave out.

### What stays with TLC

**Only model-checked.** Liveness (`StartEnds`, `WaitsEnd`, `SendsEnd`, `MailIsPointed`,
`DueIsAnswered`, `RunsMoveOn`, `NewsArrives`) and anything with `ENABLED` are out of the prover's
reach; every invariant and action property of the passing runs has its theorem. What a recursive
definition computes for every input would need induction over data, with operators as
parameters; the one induction here (a finite set of numbers has a greatest) goes by the
library's fact on finite subsets.


## 6. What is not modelled

Of the records: several Runs and the checks that keep one Run out of another's tasks
(`task_in`); the nesting cap (`nest`); heartbeats and attention; the cap of 64
stamps. Of the mail: `ask --resume` and `inbox`, which only read; mail that cannot be
read. Of the prompts: the verdict on whether a turn began. Of the automations: what a
pull request poll reads, the kept output, agents without hooks, the schedule's
calendar. Everywhere: I/O errors and a poisoned lock (a save in the models succeeds or the
process ends, but for receipts in `SendOnce`); a memo of `SendOnce` never goes of age or
number; process ids used again by the operating
system; everything listed under "not modelled" in section 1.

Of the terminal service: flow control (acknowledged output, holding the pump back), typing
and resizing, the idle rule by which it ends itself (`ServiceEnds` may come at any time
instead), the probe that finds it or refuses to pair, its stop for an update, panes that
run in the window itself, a kill whose connection fails. Of a pane's saved output: what the
window's own code appends to the file of a pane it shows anew (`terminal_history_append`), a
terminal that runs in the window itself after a start was given up and writes to the same file, `terminal_forget_history`
and the pruning of panes that are gone, the size each open `History` counts for itself (here
all see the file's), a crash between a write and the compaction it causes, and bytes of one
character cut in two. Of the automations: a crash between the save of a new due time and
that of the run it belongs to.


## 7. Plan

1. Proofs: the refinements of 2.
2. Abstract specifications: `WorkerSlots` (each task is free, being started, held by one
   worker, or done), which `Dispatches` implements while no start is lost; `Once` (each key
   undone, under way, done), which the ledger implements while nothing is cut off; a terminal as
   one queue of output, which `TerminalLink` implements for each window.
3. `StoreFiles`: settings with backup and set-aside, poisoned keys, `kept`, `upgrade`.
4. `Requests` with saves that fail while the process goes on.
5. Two panes in `TerminalLink`, flow control, and the stop for an update.
