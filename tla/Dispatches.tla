----------------------------- MODULE Dispatches -----------------------------
(***************************************************************************)
(* Kolux's orchestration records: the task list, the dispatch list and the *)
(* decision gates that the CLI keeps in the profile store, the terminals   *)
(* the dispatched agents run in, and the worker start that is in flight.   *)
(* Sources: src-tauri/src/orchestration.rs, src-tauri/src/cli/mod.rs,      *)
(* orchestration/restart.rs and the exit handler in terminal.rs.           *)
(*                                                                         *)
(* Who runs concurrently.  CLI requests are served one at a time, so every *)
(* command below waits for the worker start in flight (NoStart).  What     *)
(* interleaves with a start, and with everything else, is the window       *)
(* (which opens the agent terminals), the terminals' exit threads, the     *)
(* user, and the end of the process.                                       *)
(*                                                                         *)
(* One Run is modelled.  Ids are positions: "task-3" is tasks[3] and       *)
(* "dispatch-2" is dispatches[2], because next_id hands out the highest    *)
(* number plus one and lists only ever grow or are emptied.  0 stands for  *)
(* "no terminal" and "no dispatch".                                        *)
(***************************************************************************)
EXTENDS Naturals, Sequences, FiniteSets

CONSTANTS
    MaxTasks,       \* bound: tasks ever listed between two resets
    MaxDeps,        \* bound: tasks that one task waits on
    MaxDispatches,  \* bound: dispatch rows between two resets
    MaxGates,       \* bound: gates ever made
    MaxTerms,       \* bound: terminals opened by one process
    MaxRuntimes,    \* bound: processes of the app, one after the other
    MaxResets,      \* bound: orchestration resets
    BreakerTrips,   \* BREAKER_TRIPS: failures after which a task is held
    Service,        \* TRUE: the background terminal service runs the panes
    Commands        \* the commands this instance's agents use

AllCommands ==
    {"create", "dispatch", "start", "retry", "send", "update", "abandon",
     "stop", "retain", "release", "show", "breaker", "gate", "reset"}

ASSUME BoundsAreNaturals ==
    /\ {MaxTasks, MaxDeps, MaxDispatches, MaxGates, MaxTerms, MaxRuntimes,
        MaxResets} \subseteq Nat
    /\ MaxRuntimes # 0
    /\ BreakerTrips \in Nat \ {0}

ASSUME ServiceIsOnOrOff == Service \in BOOLEAN

ASSUME CommandsAreKnown == Commands \subseteq AllCommands

VARIABLES
    tasks,       \* stored list orchestration.tasks
    dispatches,  \* stored list orchestration.dispatches
    gates,       \* Mail.gates, stored with the mail
    doneMail,    \* the dispatches that stored worker_done messages name
    runtime,     \* the process id of this start of Kolux, as a counter
    terms,       \* what became of each terminal handle of this process
    startedFor,  \* history: the start notice a terminal was opened for
    notices,     \* start notices the window has not acted on yet
    stamps,      \* STAMPS: starts waiting for their session, by dispatch
    start,       \* the worker start in flight
    resets,      \* history: how many resets of the tasks there were
    lost         \* history: "start": a start ended after its claim with no
                 \* record of its end; "reset": a reset was cut in two

mail == <<gates, doneMail>>
stored == <<tasks, dispatches, gates, doneMail>>
process == <<runtime, startedFor, notices, stamps, start>>
history == <<resets, lost>>
vars == <<tasks, dispatches, gates, doneMail, runtime, terms, startedFor,
          notices, stamps, start, resets, lost>>

-----------------------------------------------------------------------------
(* The values of the state.                                                *)

TaskStates ==
    {"pending", "ready", "dispatched", "completed", "failed", "blocked"}
FINISHED == {"completed", "failed", "stopped", "abandoned"}
RowStates == {"running", "ready", "unknown"} \cup FINISHED
Settled == {"completed", "failed"}

TaskIds == 1..MaxTasks
DispatchIds == 1..MaxDispatches
Terms == 1..MaxTerms

Task == [status: TaskStates, dispatch: Nat, deps: SUBSET TaskIds]

\* One dispatch row.  `handed` rows were given a terminal that was already
\* open (mode is "inject" or "context"); the others were started by
\* worker-start (mode null).  `late` is lateStamp, lateAfter, latePending and
\* lateShown together; `release` is released and release together.
Row == [task: TaskIds, status: RowStates, terminal: 0..MaxTerms,
        runtime: 1..MaxRuntimes, handed: BOOLEAN, exited: BOOLEAN,
        cleared: BOOLEAN, retained: BOOLEAN, leftOpen: BOOLEAN,
        release: {"none", "pending", "unknown", "done"},
        late: {"none", "stamped", "pending", "shown", "spent"}]

Gate == [task: TaskIds, pending: BOOLEAN]
Notice == [dispatch: Nat, reset: 0..MaxResets]
Stamp == [phase: {"none", "waiting", "late"}, session: 0..MaxTerms]
Start == [phase: {"idle", "placing", "waiting", "recording", "failing"},
          task: 0..MaxTasks, terminal: 0..MaxTerms, ready: BOOLEAN]

NoStamp == [phase |-> "none", session |-> 0]
Idle == [phase |-> "idle", task |-> 0, terminal |-> 0, ready |-> FALSE]
NoNotice == [dispatch |-> 0, reset |-> 0]
NoStart == start.phase = "idle"

TypeOK ==
    /\ tasks \in Seq(Task) /\ Len(tasks) <= MaxTasks
    /\ dispatches \in Seq(Row) /\ Len(dispatches) <= MaxDispatches
    /\ gates \in Seq(Gate) /\ Len(gates) <= MaxGates
    /\ doneMail \subseteq DispatchIds
    /\ runtime \in 1..MaxRuntimes
    /\ terms \in [Terms -> {"unopened", "open", "exiting", "ended", "closed"}]
    /\ startedFor \in [Terms -> Notice]
    /\ notices \subseteq Notice
    /\ stamps \in [DispatchIds -> Stamp]
    /\ start \in Start
    /\ resets \in 0..MaxResets
    /\ lost \subseteq {"start", "reset"}

-----------------------------------------------------------------------------
(* Reading the records.                                                    *)

Finished(d) == d.status \in FINISHED

\* The terminal of a dispatch while it can still be that terminal: handles
\* count up again after a restart.
TerminalOf(d) == IF d.runtime = runtime THEN d.terminal ELSE 0

Live(t) == t # 0 /\ terms[t] = "open"

\* `t` is held by dispatch i: unfinished, and its terminal is t.
Holds(ds, i, t) == ~Finished(ds[i]) /\ t # 0 /\ TerminalOf(ds[i]) = t

\* The failed dispatches of task k that its breaker still counts.
FailedDispatches(ds, k) ==
    {i \in DOMAIN ds : /\ ds[i].task = k
                       /\ ds[i].status = "failed"
                       /\ ~ds[i].cleared}

UnderBreakerOffByOne(ds, k) == Cardinality(FailedDispatches(ds, k)) <= BreakerTrips
UnderBreaker(ds, k) == Cardinality(FailedDispatches(ds, k)) < BreakerTrips

BusyIfHanded(ds, t) == \E i \in DOMAIN ds : ds[i].handed /\ Holds(ds, i, t)
Busy(ds, t) == \E i \in DOMAIN ds : Holds(ds, i, t)

KeepOpenForgetsHanded(ds, i, theirs) == TerminalOf(ds[i]) # 0 /\ theirs

\* keep_open: why a terminal is not the worker's own to close.  `theirs`: the
\* user typed into it since the row was made, or it runs something else now.
KeepOpen(ds, i, theirs) ==
    /\ TerminalOf(ds[i]) # 0
    /\ \/ ds[i].handed
       \/ theirs
       \/ \E o \in DOMAIN ds \ {i} :
             /\ ds[o].release # "done"
             /\ ~Finished(ds[o]) \/ ds[o].retained
             /\ TerminalOf(ds[o]) = TerminalOf(ds[i])

-----------------------------------------------------------------------------
(* Rewriting the records.                                                  *)

PromoteOnAnyDependency(ts) ==
    [k \in DOMAIN ts |->
        IF /\ ts[k].status = "pending"
           /\ \/ ts[k].deps = {}
              \/ \E d \in ts[k].deps :
                    d \in DOMAIN ts /\ ts[d].status = "completed"
        THEN [ts[k] EXCEPT !.status = "ready"]
        ELSE ts[k]]

\* promote: every pending task whose dependencies all completed turns ready.
Promote(ts) ==
    [k \in DOMAIN ts |->
        IF /\ ts[k].status = "pending"
           /\ \A d \in ts[k].deps : d \in DOMAIN ts /\ ts[d].status = "completed"
        THEN [ts[k] EXCEPT !.status = "ready"]
        ELSE ts[k]]

HandBackAny(ts, k, id) ==
    [x \in DOMAIN ts |->
        IF x = k /\ ts[x].status = "dispatched"
        THEN [ts[x] EXCEPT !.status = "ready", !.dispatch = 0]
        ELSE ts[x]]

HandBackNothing(ts, k, id) == ts

\* Task k handed back, when it is still dispatched under id.
HandBack(ts, k, id) ==
    [x \in DOMAIN ts |->
        IF x = k /\ ts[x].status = "dispatched" /\ ts[x].dispatch = id
        THEN [ts[x] EXCEPT !.status = "ready", !.dispatch = 0]
        ELSE ts[x]]

\* reconcile_late: a session the window started after its start gave up is
\* recorded on the row, with an alarm when the row had ended before it came.
LateSession(ds, i) ==
    /\ ds[i].terminal = 0
    /\ ds[i].runtime = runtime
    /\ stamps[i].phase = "late"
    /\ Live(stamps[i].session)

ReconcileQuietly(ds) ==
    [i \in DOMAIN ds |->
        IF LateSession(ds, i)
        THEN [ds[i] EXCEPT !.terminal = stamps[i].session, !.late = "stamped"]
        ELSE ds[i]]

Reconcile(ds) ==
    [i \in DOMAIN ds |->
        IF LateSession(ds, i)
        THEN [ds[i] EXCEPT
                 !.terminal = stamps[i].session,
                 !.late = IF Finished(ds[i]) THEN "pending" ELSE "stamped"]
        ELSE ds[i]]

Alarmed(d) == d.late \in {"pending", "shown"}
SpendLate(d) == IF Alarmed(d) THEN [d EXCEPT !.late = "spent"] ELSE d

\* spend_gone_late: an alarm whose terminal is gone is spent.
SpendGone(ds, tm) ==
    [i \in DOMAIN ds |->
        IF ds[i].terminal # 0 /\ tm[ds[i].terminal] # "open"
        THEN SpendLate(ds[i])
        ELSE ds[i]]

\* read_late: the second show of an alarm clears it, unless a release left
\* the late agent's terminal open and it still is.
ReadLate(d) ==
    LET held == d.release = "done" /\ d.leftOpen /\ Live(d.terminal) IN
    IF ~Alarmed(d) THEN d
    ELSE [d EXCEPT !.late = IF @ = "shown" /\ ~held THEN "spent" ELSE "shown"]

-----------------------------------------------------------------------------
(* The end of the process, with ts and ds the lists on disk at that moment. *)
(* The stamps, the notices and the start in flight are gone with it.  The  *)
(* next start takes back the terminals a background service kept running,  *)
(* each under the handle it had, and marks every unfinished dispatch cut   *)
(* short, its worker's terminal kept or not (restart.rs).                  *)

CutShortAll(ds) ==
    [i \in DOMAIN ds |-> [ds[i] EXCEPT !.status = "unknown"]]

CutShort(ds) ==
    [i \in DOMAIN ds |->
        IF Finished(ds[i]) THEN ds[i] ELSE [ds[i] EXCEPT !.status = "unknown"]]

DieWith(ts, ds, how) ==
    /\ runtime < MaxRuntimes
    /\ runtime' = runtime + 1
    /\ tasks' = ts
    /\ dispatches' = CutShort(ds)
    /\ \E kept \in SUBSET {t \in Terms : Service /\ terms[t] = "open"} :
          /\ terms' = [t \in Terms |-> IF t \in kept THEN "open" ELSE "unopened"]
          /\ startedFor' = [t \in Terms |-> IF t \in kept THEN startedFor[t]
                                           ELSE NoNotice]
    /\ notices' = {}
    /\ stamps' = [i \in DispatchIds |-> NoStamp]
    /\ start' = Idle
    /\ lost' = lost \cup how
    /\ UNCHANGED <<gates, doneMail, resets>>

\* A quit or a crash between two steps.
Restart == DieWith(tasks, dispatches, IF NoStart THEN {} ELSE {"start"})

-----------------------------------------------------------------------------
(* The commands of `tasks`.  Each reads the lists, promotes the tasks and   *)
(* reconciles the late sessions, and saves both lists at its end even when *)
(* it only read; a refused command saves nothing, so it is no step.        *)

May(command) == command \in Commands /\ NoStart

TS == Promote(tasks)
DS == SpendGone(Reconcile(dispatches), terms)

Save(ts, ds) ==
    /\ tasks' = ts
    /\ dispatches' = SpendGone(ds, terms')
    /\ UNCHANGED <<process, history>>

\* Both lists and nothing else.
SaveLists(ts, ds) == UNCHANGED terms /\ Save(ts, ds) /\ UNCHANGED mail

TaskCreate ==
    /\ May("create")
    /\ Len(tasks) < MaxTasks
    /\ \E deps \in SUBSET DOMAIN tasks :
          /\ Cardinality(deps) <= MaxDeps
          /\ SaveLists(Promote(Append(TS, [status |-> "pending", dispatch |-> 0,
                                           deps |-> deps])), DS)

\* task-list, worker-list and the other reads.
Read == May("show") /\ SaveLists(TS, DS)

\* worker-show also marks or clears the alarm of the row it shows.
WorkerShow(i) ==
    /\ May("show")
    /\ SaveLists(TS, [SpendGone(DS, terms) EXCEPT ![i] = ReadLate(@)])

NewRow(k, st, t, handed) ==
    [task |-> k, status |-> st, terminal |-> t, runtime |-> runtime,
     handed |-> handed, exited |-> FALSE, cleared |-> FALSE,
     retained |-> FALSE, leftOpen |-> FALSE, release |-> "none",
     late |-> "none"]

\* dispatch_check, then the row and the task together: a ready task under its
\* breaker goes to an open terminal that holds no other dispatch.
Dispatch(k, t) ==
    /\ May("dispatch")
    /\ Len(dispatches) < MaxDispatches
    /\ TS[k].status = "ready"
    /\ UnderBreaker(DS, k)
    /\ Live(t)
    /\ ~Busy(DS, t)
    /\ SaveLists([TS EXCEPT ![k].status = "dispatched",
                            ![k].dispatch = Len(dispatches) + 1],
                 Append(DS, NewRow(k, "running", t, TRUE)))

Abandon(i) ==
    /\ May("abandon")
    /\ DS[i].status = "abandoned" \/ ~Finished(DS[i])
    /\ SaveLists(HandBack(TS, DS[i].task, i),
                 [DS EXCEPT ![i].status = "abandoned"])

\* breaker_reset: the counted failures of task k count no more.
BreakerReset(k) ==
    /\ May("breaker")
    /\ SaveLists(TS, [i \in DOMAIN DS |->
                         IF i \in FailedDispatches(DS, k)
                         THEN [DS[i] EXCEPT !.cleared = TRUE]
                         ELSE DS[i]])

-----------------------------------------------------------------------------
(* task_update, shared by the update command and a done report.            *)

OpenDispatch(ts, k) ==
    IF ts[k].status = "dispatched" THEN ts[k].dispatch ELSE 0

\* The caller's newest row on this task is fenced off: finished, or its
\* process ended before this request.
FencedCaller(ds, k, caller) ==
    LET Mine == {i \in DOMAIN ds : ds[i].task = k /\ TerminalOf(ds[i]) = caller}
    IN \E i \in Mine : /\ \A j \in Mine : j <= i
                       /\ caller # 0
                       /\ Finished(ds[i]) \/ ds[i].exited

UpdateAllowed(ts, ds, k, to, caller) ==
    /\ ~FencedCaller(ds, k, caller)
    /\ ~(ts[k].status \in Settled /\ to \in Settled)
    /\ to = "dispatched" => ts[k].status = "dispatched"

UpdatedRowsAlwaysFenced(ts, ds, k, to) ==
    LET open == OpenDispatch(ts, k) IN
    IF open \in DOMAIN ds /\ ~Finished(ds[open]) /\ to # "dispatched"
    THEN [ds EXCEPT ![open].status = "abandoned"]
    ELSE ds

\* The dispatch the task was under is settled with it, or fenced off.
UpdatedRows(ts, ds, k, to) ==
    LET open == OpenDispatch(ts, k) IN
    IF open \in DOMAIN ds /\ ~Finished(ds[open]) /\ to # "dispatched"
    THEN [ds EXCEPT ![open].status = IF to \in Settled THEN to ELSE "abandoned"]
    ELSE ds

\* A settled task keeps the name of its dispatch.
UpdatedTasks(ts, k, to) ==
    [ts EXCEPT
        ![k].status = to,
        ![k].dispatch = IF /\ ts[k].status = "dispatched"
                           /\ to \notin Settled \cup {"dispatched"}
                        THEN 0 ELSE @]

\* Who may be calling: a shell that is no Kolux terminal (0), or a terminal,
\* which can end or be closed after its key was checked and before the store
\* is locked.
Callers == {0} \cup {t \in Terms : terms[t] # "unopened"}

TaskUpdate(k, to, caller) ==
    /\ May("update")
    /\ UpdateAllowed(TS, DS, k, to, caller)
    /\ SaveLists(Promote(UpdatedTasks(TS, k, to)), UpdatedRows(TS, DS, k, to))

-----------------------------------------------------------------------------
(* Done reports (send).  These read the lists as they are stored.          *)

\* A report from another terminal, or without the pass of a started worker,
\* is mail and settles nothing.
ReportIsMail(i, from, pass) ==
    /\ May("send")
    /\ ~Finished(dispatches[i])
    /\ TerminalOf(dispatches[i]) # from \/ (~pass /\ ~dispatches[i].handed)
    /\ doneMail' = doneMail \cup {i}
    /\ UNCHANGED <<tasks, dispatches, gates, terms, process, history>>

\* The worker's own report settles its task with it.  The lists are saved
\* first and the mail after them, so a crash can keep only the lists.
ReportSettles(i, from, to) ==
    LET k == dispatches[i].task
        ts == Promote(UpdatedTasks(tasks, k, to))
        ds == UpdatedRows(tasks, dispatches, k, to)
    IN /\ May("send")
       /\ ~Finished(dispatches[i])
       /\ TerminalOf(dispatches[i]) = from
       /\ k \in DOMAIN tasks
       /\ tasks[k].dispatch = i
       /\ UpdateAllowed(tasks, dispatches, k, to, from)
       /\ \/ /\ tasks' = ts
             /\ dispatches' = ds
             /\ doneMail' = doneMail \cup {i}
             /\ UNCHANGED <<gates, terms, process, history>>
          \/ DieWith(ts, ds, {})

-----------------------------------------------------------------------------
(* Stopping, keeping and releasing a worker's terminal.                    *)

Killed(t) == IF Live(t) THEN [terms EXCEPT ![t] = "closed"] ELSE terms

\* stop_with: fences the dispatch off and ends the terminal when it is the
\* worker's own, while the store is held.
Stop(i, theirs) ==
    LET d == DS[i]
        t == TerminalOf(d)
        ends == d.status # "stopped" /\ ~d.exited /\ t # 0
        keep == KeepOpen(DS, i, theirs)
    IN /\ May("stop")
       /\ d.status = "stopped" \/ ~Finished(d)
       /\ terms' = IF ends /\ ~keep THEN Killed(t) ELSE terms
       /\ Save(HandBack(TS, d.task, i),
               [DS EXCEPT ![i].status = "stopped",
                          ![i].leftOpen = @ \/ (ends /\ keep)])
       /\ UNCHANGED mail

\* terminal_state "active" and "released" cannot be kept.
Retain(i) ==
    LET d == DS[i] IN
    /\ May("retain")
    /\ \/ d.retained
       \/ d.release \in {"pending", "unknown"}
       \/ d.release = "none" /\ Finished(d) /\ Live(TerminalOf(d))
    /\ SaveLists(TS, [DS EXCEPT ![i].retained = TRUE])

\* A released row whose agent came up late is opened again while that agent's
\* terminal is open.
Late(d) == d.late \in {"pending", "shown", "spent"}
Reopened(d) ==
    IF ~Late(d) THEN d
    ELSE IF ~Live(d.terminal) THEN SpendLate(d)
    ELSE [d EXCEPT !.release = IF @ = "done" THEN "none" ELSE @,
                   !.leftOpen = FALSE]

\* The release is over; a late agent that is closed is told no more.
ReleaseDone(d, wasLate) ==
    LET r == [d EXCEPT !.release = "done", !.retained = FALSE] IN
    IF wasLate /\ ~d.leftOpen THEN SpendLate(r) ELSE r

\* Nothing to close, or a terminal that is not the worker's own to close.
ReleaseNoClose(i, theirs) ==
    LET wasLate == Late(DS[i]) /\ Live(DS[i].terminal)
        ds == [DS EXCEPT ![i] = Reopened(@)]
        d == ds[i]
        handle == Live(TerminalOf(d))
        keep == handle /\ KeepOpen(ds, i, theirs)
    IN /\ May("release")
       /\ Finished(d)
       /\ d.release = "done" \/ ~handle \/ keep
       /\ SaveLists(TS, [ds EXCEPT ![i] =
             IF d.release = "done" THEN d
             ELSE ReleaseDone([d EXCEPT !.leftOpen = @ \/ keep], wasLate)])

\* The worker's own terminal: release pending is saved, then the output is
\* archived, and only after that is the terminal closed.
ReleaseAndClose(i, archived) ==
    LET wasLate == Late(DS[i]) /\ Live(DS[i].terminal)
        ds == [DS EXCEPT ![i] = Reopened(@)]
        t == TerminalOf(ds[i])
        pending == [ds EXCEPT ![i].release = "pending"]
    IN /\ May("release")
       /\ Finished(ds[i])
       /\ ds[i].release # "done"
       /\ Live(t)
       /\ ~KeepOpen(ds, i, FALSE)
       /\ \/ /\ terms' = IF archived THEN Killed(t) ELSE terms
             /\ Save(TS, [pending EXCEPT ![i] =
                   IF archived THEN ReleaseDone(@, wasLate)
                   ELSE [@ EXCEPT !.release = "unknown"]])
             /\ UNCHANGED mail
          \/ DieWith(tasks, pending, {})

-----------------------------------------------------------------------------
(* Decision gates.  The lists are saved before the mail that holds the     *)
(* gates, so a crash between the two keeps only the lists.                 *)

GateCreate(k) ==
    LET ts == [TS EXCEPT ![k].status = "blocked"] IN
    /\ May("gate")
    /\ Len(gates) < MaxGates
    /\ \A i \in DOMAIN DS : DS[i].task = k => Finished(DS[i])
    /\ TS[k].status \in {"pending", "ready", "blocked"}
    /\ \/ /\ gates' = Append(gates, [task |-> k, pending |-> TRUE])
          /\ UNCHANGED <<terms, doneMail>>
          /\ Save(ts, DS)
       \/ DieWith(ts, DS, {})

OtherGateOpenNever(g) == FALSE

OtherGateOpen(g) ==
    \E h \in DOMAIN gates \ {g} :
        gates[h].task = gates[g].task /\ gates[h].pending

\* The last open gate of a task sends it back to pending, and on to ready.
GateResolve(g) ==
    LET k == gates[g].task
        ts == IF ~OtherGateOpen(g)
              THEN Promote([x \in DOMAIN TS |->
                              IF x = k /\ TS[x].status = "blocked"
                              THEN [TS[x] EXCEPT !.status = "pending"]
                              ELSE TS[x]])
              ELSE TS
    IN /\ May("gate")
       /\ gates[g].pending
       /\ \/ /\ gates' = [gates EXCEPT ![g].pending = FALSE]
             /\ UNCHANGED <<terms, doneMail>>
             /\ Save(ts, DS)
          \/ DieWith(ts, DS, {})

\* reset: the two lists one after the other, then the mail.  Terminals,
\* notices and stamps stay as they are.
Reset(scope) ==
    /\ May("reset")
    /\ scope # "messages" => resets < MaxResets
    /\ \/ /\ tasks' = IF scope = "messages" THEN tasks ELSE <<>>
          /\ dispatches' = IF scope = "messages" THEN dispatches ELSE <<>>
          /\ gates' = IF scope = "messages" THEN gates ELSE <<>>
          /\ doneMail' = IF scope = "tasks" THEN doneMail ELSE {}
          /\ resets' = IF scope = "messages" THEN resets ELSE resets + 1
          /\ lost' = IF scope = "messages" THEN lost ELSE {}
          /\ UNCHANGED <<terms, process>>
       \/ scope # "messages" /\ DieWith(<<>>, dispatches, {"reset"})
       \/ scope # "messages" /\ DieWith(<<>>, <<>>, {})

-----------------------------------------------------------------------------
(* worker-start: the claim, the placement and the setup, the wait for the  *)
(* window's session, and the record; the store is held only in the claim   *)
(* and the record.                                                         *)

StartId == Len(dispatches) + 1

Claim(ts, k) ==
    /\ tasks' = [ts EXCEPT ![k].status = "dispatched", ![k].dispatch = StartId]
    /\ start' = [Idle EXCEPT !.phase = "placing", !.task = k]
    /\ UNCHANGED <<terms, mail, runtime, startedFor, notices, stamps, history>>

\* start_check: only a dispatched or a completed task is turned away.
StartTask(k) ==
    /\ May("start")
    /\ StartId <= MaxDispatches
    /\ tasks[k].status \notin {"dispatched", "completed"}
    /\ Claim(tasks, k)
    /\ UNCHANGED dispatches

\* --spec: the task is made and claimed at once, whatever it waits on, which
\* may be tasks that are not there (yet), or itself.
StartSpec ==
    /\ May("start")
    /\ StartId <= MaxDispatches
    /\ Len(tasks) < MaxTasks
    /\ \E deps \in SUBSET TaskIds :
          /\ Cardinality(deps) <= MaxDeps
          /\ Claim(Append(tasks, [status |-> "pending", dispatch |-> 0,
                                  deps |-> deps]), Len(tasks) + 1)
    /\ UNCHANGED dispatches

RetryRowsUnfenced(k, r) == dispatches

\* The dispatch a retried task was under is fenced off.
RetryRows(k, r) ==
    IF tasks[k].status = "dispatched"
    THEN [dispatches EXCEPT ![r].status = "abandoned"]
    ELSE dispatches

\* claim_task with --retry-of: an earlier dispatch of the task, its terminal
\* gone, gives way.  The rows are saved before the tasks.
StartRetry(k, r) ==
    LET old == dispatches[r]
        fenced == tasks[k].status = "dispatched"
        ds == RetryRows(k, r)
    IN /\ May("retry")
       /\ StartId <= MaxDispatches
       /\ old.task = k
       /\ tasks[k].status # "completed"
       /\ fenced => tasks[k].dispatch = r
       /\ ~Live(TerminalOf(old))
       /\ \/ Claim(tasks, k) /\ dispatches' = ds
          \/ fenced /\ DieWith(tasks, ds, {"start"})

\* No project, no worktree or a name that could not be saved: the start
\* answers an error and nothing undoes its claim.
PlacementFails ==
    /\ start.phase = "placing"
    /\ start' = Idle
    /\ lost' = lost \cup {"start"}
    /\ UNCHANGED <<tasks, dispatches, mail, terms, runtime, startedFor,
                   notices, stamps, resets>>

PushRow(st, t) ==
    /\ dispatches' = Append(dispatches, NewRow(start.task, st, t, FALSE))
    /\ UNCHANGED <<tasks, mail, terms, runtime, startedFor, notices, stamps,
                   history>>

\* The window reported that the worktree's setup script failed.
SetupFails ==
    /\ start.phase = "placing"
    /\ start' = [start EXCEPT !.phase = "failing"]
    /\ PushRow("failed", 0)

\* ... and then its task fails, under a lock of its own.
FailTask ==
    /\ start.phase = "failing"
    /\ start' = Idle
    /\ tasks' = [tasks EXCEPT ![start.task].status =
                    IF tasks[start.task].dispatch = Len(dispatches)
                    THEN "failed" ELSE @]
    /\ UNCHANGED <<dispatches, mail, terms, runtime, startedFor, notices,
                   stamps, history>>

\* expect_stamp, then the start notice to the window.
AskWindow ==
    /\ start.phase = "placing"
    /\ start' = [start EXCEPT !.phase = "waiting"]
    /\ stamps' = [stamps EXCEPT ![StartId] = [phase |-> "waiting", session |-> 0]]
    /\ notices' = notices \cup {[dispatch |-> StartId, reset |-> resets]}
    /\ UNCHANGED <<tasks, dispatches, mail, terms, runtime, startedFor, history>>

WaitEndsOnlyWithSession(found, ready) ==
    LET session == stamps[StartId].session IN
    /\ start.phase = "waiting"
    /\ found = session
    /\ Live(session)
    /\ start' = [start EXCEPT !.phase = "recording", !.terminal = found,
                              !.ready = ready]
    /\ stamps' = [stamps EXCEPT ![StartId] = NoStamp]
    /\ UNCHANGED <<tasks, dispatches, mail, terms, runtime, startedFor,
                   notices, history>>

\* wait_ready ends with the stamped session, ready or out of time, or with
\* none; finish_stamp forgets the stamp or keeps it for a late session.
WaitEnds(found, ready) ==
    LET session == stamps[StartId].session IN
    /\ start.phase = "waiting"
    /\ found \in {0, session}
    /\ found # 0 => Live(session)
    /\ ready => found # 0
    /\ start' = [start EXCEPT !.phase = "recording", !.terminal = found,
                              !.ready = ready]
    /\ stamps' = [stamps EXCEPT ![StartId] =
                     IF found # 0 THEN NoStamp ELSE [@ EXCEPT !.phase = "late"]]
    /\ UNCHANGED <<tasks, dispatches, mail, terms, runtime, startedFor,
                   notices, history>>

RecordStart ==
    /\ start.phase = "recording"
    /\ start' = Idle
    /\ PushRow(IF start.ready THEN "ready" ELSE "unknown", start.terminal)

\* A late start's place runs out (LATE_WINDOW).
StampExpires(i) ==
    /\ stamps[i].phase = "late"
    /\ stamps' = [stamps EXCEPT ![i] = NoStamp]
    /\ UNCHANGED <<stored, terms, runtime, startedFor, notices, start, history>>

-----------------------------------------------------------------------------
(* The window, the user and the terminals.                                 *)

\* Handles count up from the highest one opened or taken back.
NextHandle(t) ==
    /\ \A s \in t..MaxTerms : terms[s] = "unopened"
    /\ \A s \in {t - 1} \cap Terms : terms[s] # "unopened"

\* Someone opens an agent terminal of their own.
OpenTerminal(t) ==
    /\ NextHandle(t)
    /\ terms' = [terms EXCEPT ![t] = "open"]
    /\ UNCHANGED <<stored, process, history>>

WindowStartsForWhoeverWaits(n, t) ==
    /\ NextHandle(t)
    /\ terms' = [terms EXCEPT ![t] = "open"]
    /\ startedFor' = [startedFor EXCEPT ![t] = n]
    /\ notices' = notices \ {n}
    /\ stamps' = [stamps EXCEPT ![StartId] =
                     IF @.phase # "none" /\ @.session = 0
                     THEN [@ EXCEPT !.session = t] ELSE @]
    /\ UNCHANGED <<stored, runtime, start, history>>

\* The window acts on a start notice; the first session of a start that
\* still waits, or waits late, is stamped.
WindowStarts(n, t) ==
    /\ NextHandle(t)
    /\ terms' = [terms EXCEPT ![t] = "open"]
    /\ startedFor' = [startedFor EXCEPT ![t] = n]
    /\ notices' = notices \ {n}
    /\ stamps' = [stamps EXCEPT ![n.dispatch] =
                     IF @.phase # "none" /\ @.session = 0
                     THEN [@ EXCEPT !.session = t] ELSE @]
    /\ UNCHANGED <<stored, runtime, start, history>>

\* A terminal's program ends by itself; its exit thread has yet to act.
TerminalExits(t) ==
    /\ terms[t] = "open"
    /\ terms' = [terms EXCEPT ![t] = "exiting"]
    /\ UNCHANGED <<stored, process, history>>

\* The user, or terminal close, ends it: no exit of its own.
CloseTerminal(t) ==
    /\ terms[t] = "open"
    /\ terms' = [terms EXCEPT ![t] = "closed"]
    /\ UNCHANGED <<stored, process, history>>

DiesOldestFirst(ds, i, t) ==
    /\ ds[i].terminal = t /\ ds[i].runtime = runtime
    /\ \A j \in DOMAIN ds :
          ds[j].terminal = t /\ ds[j].runtime = runtime => j >= i
    /\ ~Finished(ds[i])
    /\ i \notin doneMail

DiesOfAnyProcess(ds, i, t) ==
    /\ ds[i].terminal = t
    /\ \A j \in DOMAIN ds : ds[j].terminal = t => j <= i
    /\ ~Finished(ds[i])
    /\ i \notin doneMail

\* worker_exited: the newest row this process tied to the terminal is stamped
\* and its Run is told, unless it had finished or a done report names it.
Dies(ds, i, t) ==
    /\ ds[i].terminal = t /\ ds[i].runtime = runtime
    /\ \A j \in DOMAIN ds :
          ds[j].terminal = t /\ ds[j].runtime = runtime => j <= i
    /\ ~Finished(ds[i])
    /\ i \notin doneMail

ExitHandled(t) ==
    /\ terms[t] = "exiting"
    /\ terms' = [terms EXCEPT ![t] = "ended"]
    /\ dispatches' = [i \in DOMAIN dispatches |->
                        IF Dies(dispatches, i, t)
                        THEN [dispatches[i] EXCEPT !.exited = TRUE]
                        ELSE dispatches[i]]
    /\ UNCHANGED <<tasks, mail, process, history>>

-----------------------------------------------------------------------------
Init ==
    /\ tasks = <<>> /\ dispatches = <<>> /\ gates = <<>> /\ doneMail = {}
    /\ runtime = 1
    /\ terms = [t \in Terms |-> "unopened"]
    /\ startedFor = [t \in Terms |-> NoNotice]
    /\ notices = {}
    /\ stamps = [i \in DispatchIds |-> NoStamp]
    /\ start = Idle
    /\ resets = 0 /\ lost = {}

TaskCommand ==
    \/ TaskCreate
    \/ Read
    \/ StartSpec
    \/ \E k \in DOMAIN tasks :
          \/ BreakerReset(k)
          \/ GateCreate(k)
          \/ StartTask(k)
          \/ \E t \in Terms : Dispatch(k, t)
          \/ \E to \in TaskStates, c \in Callers : TaskUpdate(k, to, c)

RowCommand ==
    \E i \in DOMAIN dispatches :
        \/ Abandon(i)
        \/ WorkerShow(i)
        \/ Retain(i)
        \/ \E theirs \in BOOLEAN : Stop(i, theirs) \/ ReleaseNoClose(i, theirs)
        \/ \E archived \in BOOLEAN : ReleaseAndClose(i, archived)
        \/ \E k \in DOMAIN tasks : StartRetry(k, i)
        \/ \E from \in Callers \ {0} :
              \/ \E pass \in BOOLEAN : ReportIsMail(i, from, pass)
              \/ \E to \in Settled : ReportSettles(i, from, to)

StartStep ==
    \/ PlacementFails
    \/ SetupFails
    \/ FailTask
    \/ AskWindow
    \/ \E found \in 0..MaxTerms, ready \in BOOLEAN : WaitEnds(found, ready)
    \/ RecordStart

TerminalStep ==
    \E t \in Terms :
        \/ OpenTerminal(t)
        \/ \E n \in notices : WindowStarts(n, t)
        \/ TerminalExits(t)
        \/ CloseTerminal(t)
        \/ ExitHandled(t)

Next ==
    \/ TaskCommand
    \/ RowCommand
    \/ \E g \in DOMAIN gates : GateResolve(g)
    \/ \E scope \in {"tasks", "messages", "all"} : Reset(scope)
    \/ StartStep
    \/ TerminalStep
    \/ \E i \in DispatchIds : StampExpires(i)
    \/ Restart

Spec == Init /\ [][Next]_vars

\* What the scheduling justifies: the CLI thread goes on with its start (each
\* of its waits has a limit), and an ended terminal's exit thread runs.
FairSpec ==
    /\ Spec
    /\ WF_vars(StartStep)
    /\ \A t \in Terms : WF_vars(ExitHandled(t))

-----------------------------------------------------------------------------
(* Safety.                                                                 *)

\* ORCH-012: an unfinished dispatch holds its task: the task is dispatched and
\* names that very dispatch.  It holds whatever order commands, exits,
\* restarts and starts come in, unless a reset was cut in two.
WorkerHoldsItsTask ==
    "reset" \notin lost =>
        \A i \in DOMAIN dispatches : ~Finished(dispatches[i]) =>
            /\ dispatches[i].task \in DOMAIN tasks
            /\ tasks[dispatches[i].task].status = "dispatched"
            /\ tasks[dispatches[i].task].dispatch = i

\* ORCH-012: no task ever has two workers: neither two unfinished dispatches
\* nor an unfinished dispatch beside a worker start in flight.
OneWorkerPerTask ==
    "reset" \notin lost =>
        \A i, j \in DOMAIN dispatches :
            ~Finished(dispatches[i]) =>
                /\ start.task # dispatches[i].task
                /\ (~Finished(dispatches[j]) /\ dispatches[i].task = dispatches[j].task)
                      => i = j

\* ORCH-012: a dispatched task has its worker, unless a start was lost: the
\* start in flight is for it, or it names its own unfinished dispatch.
DispatchedHasItsWorker ==
    lost = {} =>
        \A k \in DOMAIN tasks : tasks[k].status = "dispatched" =>
            \/ start.task = k
            \/ /\ tasks[k].dispatch \in DOMAIN dispatches
               /\ dispatches[tasks[k].dispatch].task = k
               /\ ~Finished(dispatches[tasks[k].dispatch])

\* ORCH-013: a terminal never works on two dispatches, although a late start
\* can come to own a terminal others could already see and be handed.
OneDispatchPerTerminal ==
    \A t \in Terms : \A i, j \in DOMAIN dispatches :
        Holds(dispatches, i, t) /\ Holds(dispatches, j, t) => i = j

\* A finished dispatch keeps the end it had: no late report, stop, update,
\* retry or restart rewrites how a worker ended.
FinishedIsFinal ==
    [][lost = {} =>
         \A i \in DOMAIN dispatches \cap DOMAIN dispatches' :
            Finished(dispatches[i]) =>
                dispatches'[i].status = dispatches[i].status]_vars

\* A dispatched task that completes or fails takes its own dispatch to the
\* same end in the same step, so neither list alone says the work is over.
SettledTogether ==
    [][lost = {} =>
         \A k \in DOMAIN tasks \cap DOMAIN tasks' :
            tasks[k].status = "dispatched" /\ tasks'[k].status \in Settled =>
                /\ tasks[k].dispatch \in DOMAIN dispatches'
                /\ dispatches'[tasks[k].dispatch].status = tasks'[k].status]_vars

\* ORCH-027: when a terminal's exit has been handled, the death of the worker
\* it held was told, or a done report named that dispatch.  (For a dispatch
\* that was handed its terminal or took it late: a started worker that dies
\* before its start is recorded is told to nobody.)
DeathIsTold ==
    \A i \in DOMAIN dispatches, t \in Terms :
        /\ Holds(dispatches, i, t)
        /\ terms[t] = "ended"
        /\ dispatches[i].handed \/ dispatches[i].late # "none"
        /\ i \notin doneMail
        => dispatches[i].exited

\* ORCH-027, ORCH-022: only the end of its own terminal, in this process, is
\* ever told as a worker's death: never a stop, a close by the user, or the
\* end of a later terminal with the same handle.
NoFalseDeath ==
    [][\A i \in DOMAIN dispatches \cap DOMAIN dispatches' :
          dispatches'[i].exited /\ ~dispatches[i].exited =>
              /\ dispatches[i].runtime = runtime
              /\ terms[dispatches[i].terminal] = "exiting"
              /\ ~Finished(dispatches[i])]_vars

\* ORCH-022, ORCH-024: a stop or a release only ever closes the terminal the
\* window opened for that very dispatch, and no other dispatch works there.
ClosesOnlyItsOwn ==
    [][\A t \in Terms :
          terms[t] = "open" /\ terms'[t] = "closed" /\ dispatches' # dispatches =>
              \E i \in DOMAIN dispatches' :
                 /\ dispatches'[i].terminal = t
                 /\ dispatches'[i].runtime = runtime
                 /\ startedFor[t] = [dispatch |-> i, reset |-> resets]
                 /\ \A j \in DOMAIN dispatches' \ {i} : ~Holds(dispatches', j, t)]_vars

\* ORCH-024: a release that says the terminal is gone means it: the terminal
\* is not open, or its agent came up late and that was put on the row.
ReleasedIsClosedOrTold ==
    \A i \in DOMAIN dispatches :
        /\ dispatches[i].release = "done"
        /\ ~dispatches[i].leftOpen
        /\ Live(TerminalOf(dispatches[i]))
        => Late(dispatches[i])

\* ORCH-016: a started worker runs in the session of its own start
\* notice, however late that session comes, never in one the window opened for
\* another dispatch.
RunsItsOwnBrief ==
    \A i \in DOMAIN dispatches :
        ~dispatches[i].handed /\ TerminalOf(dispatches[i]) # 0 =>
            startedFor[TerminalOf(dispatches[i])] =
                [dispatch |-> i, reset |-> resets]

\* ORCH-028: while a gate is open its task is blocked.
GateHoldsItsTask ==
    \A g \in DOMAIN gates : gates[g].pending =>
        /\ gates[g].task \in DOMAIN tasks
        /\ tasks[gates[g].task].status = "blocked"

\* ORCH-010: a task past pending and blocked has all it waits on completed.
DependentsWait ==
    \A k \in DOMAIN tasks :
        tasks[k].status \notin {"pending", "blocked"} =>
            \A d \in tasks[k].deps :
                d \in DOMAIN tasks /\ tasks[d].status = "completed"

\* ORCH-035: a task is never given out again after BreakerTrips failures that
\* its breaker still counts, so it never collects more of them.
BreakerHolds ==
    \A k \in DOMAIN tasks :
        Cardinality(FailedDispatches(dispatches, k)) <= BreakerTrips

-----------------------------------------------------------------------------
(* Liveness.                                                               *)

\* A worker start always ends, so the one CLI thread always comes back.
StartEnds == ~NoStart ~> NoStart

=============================================================================
