---------------------------- MODULE Automations ----------------------------
(***************************************************************************)
(* Automations: their runs, the clock, the threads that start runs, and    *)
(* how a run is followed in its pane to its end.                           *)
(* Sources: src-tauri/src/automations.rs; the panes it follows are started *)
(* and end in terminal.rs.                                                 *)
(*                                                                         *)
(* A launch is one call of run_inner: it logs the run as pending, may wait *)
(* minutes for a precheck, places the run (types into the last session or  *)
(* asks the window for a pane) and then records the start.  The clock does *)
(* so within its tick, one due automation after the other.  Meanwhile the  *)
(* user edits, pauses, deletes and cancels, panes start, report and end,   *)
(* and Kolux restarts.  Automations and runs are two saved lists: new_run  *)
(* and delete save one after the other, and the process may end between    *)
(* the two (CutBetween, CutDelete).                                        *)
(*                                                                         *)
(* A pane has a terminal number, which lasts for one process unless the    *)
(* background service keeps the terminal, and a key, which the window      *)
(* keeps with its layout.  All runs here are of one project, folder and    *)
(* agent, one that reports through hooks.  Time is left out: what waits    *)
(* for a duration may happen at once or late.                              *)
(***************************************************************************)
EXTENDS Naturals, FiniteSets, FiniteSetsExt

CONSTANTS
    Forms,       \* what a save may ask for: kind, reuse, check
    KeepRuns,    \* KEEP_RUNS, the newest runs kept of an automation
    Limits       \* how often each kind of input may come

Inputs == {"create", "edit", "delete", "due", "event", "manual", "cancel",
           "trouble", "restart", "open", "exit", "pause", "pane", "all"}

ASSUME KeepAssumption == KeepRuns \in Nat \ {0}
ASSUME FormAssumption ==
    Forms \subseteq [kind: {"schedule", "event"}, reuse: BOOLEAN, check: BOOLEAN]
ASSUME LimitAssumption == Limits \in [Inputs -> Nat]

VARIABLES
    autos,       \* the automations list, by id
    runs,        \* the runs list, by id
    launches,    \* the calls of run_inner under way, by thread
    clock,       \* the clock's thread: its phase and the rest of its due list
    events,      \* the rest of on_event's list
    notices,     \* runs the window was asked to start and has not yet
    terms,       \* the terminals of this process, by number
    topTerm,     \* the last terminal number given out
    reopen,      \* keys of the panes the window opens again after a restart
    used,        \* how often each kind of input came
    \* What only the properties use:
    opened,      \* by pane key, the runs it was started or typed into for
    given,       \* by automation, the highest number a run of it ever got
    owed,        \* automations that came due and got no answer yet
    reborn,      \* run ids that a deletion set free
    ignored      \* was a finish in a pane of the user taken for a run's?

saved == <<autos, runs>>
threads == <<launches, clock, events, notices>>
screen == <<terms, topTerm, reopen, opened>>
memory == <<given, owed, reborn, ignored>>
vars == <<saved, threads, screen, memory, used>>

Highest(S) == Max(S \cup {0})
With(f, x, row) == [y \in DOMAIN f \cup {x} |-> IF y \in DOMAIN f THEN f[y] ELSE row]
Without(f, S) == [x \in DOMAIN f \ S |-> f[x]]

\* One more input of kind k, within the bounds.
Comes(k) ==
    /\ used[k] < Limits[k] /\ used["all"] < Limits["all"]
    /\ used' = [used EXCEPT ![k] = @ + 1, !["all"] = @ + 1]

Statuses == {"pending", "dispatched", "completed", "failed", "skipped"}
Triggers == {"schedule", "event", "manual"}
Automation == [form: Forms, enabled: BOOLEAN, next: {"none", "later", "due"},
         last: Nat, rested: BOOLEAN]
Run == [auto: Nat, number: Nat, trigger: Triggers, status: Statuses,
        cause: {"none", "missed", "precheck", "unavailable"}, term: Nat, key: Nat,
        lastTerm: Nat, lastKey: Nat, settling: BOOLEAN,
        sent: BOOLEAN, worked: BOOLEAN, cut: BOOLEAN, cancelled: BOOLEAN,
        adrift: BOOLEAN]
Launch == [run: Nat, auto: Nat, form: Forms, trigger: Triggers,
           stage: {"check", "place", "record"},
           outcome: {"none", "dispatched", "failed", "skipped"}, term: Nat, key: Nat]
Term == [key: Nat, names: Nat, alive: BOOLEAN, claimed: BOOLEAN, told: BOOLEAN,
         state: {"start", "working", "done", "interrupted"}]

Total(f, T) == \A x \in DOMAIN f : x \in Nat \ {0} /\ f[x] \in T

ATypeOK ==
    /\ Total(autos, Automation) /\ Total(runs, Run)
    /\ Total(launches, Launch) /\ Total(terms, Term)
    /\ clock \in [ticking: BOOLEAN, due: SUBSET Nat]
    /\ events \in SUBSET Nat /\ notices \in SUBSET Nat /\ reopen \in SUBSET Nat
    /\ topTerm \in Nat /\ DOMAIN terms \subseteq 1..topTerm
    /\ used \in [Inputs -> Nat]
    \* A run settling after a restart follows no pane yet.
    /\ \A r \in DOMAIN runs : runs[r].settling => runs[r].term = 0

AInit ==
    /\ autos = <<>> /\ runs = <<>> /\ launches = <<>> /\ terms = <<>>
    /\ clock = [ticking |-> FALSE, due |-> {}]
    /\ events = {} /\ notices = {} /\ reopen = {} /\ topTerm = 0
    /\ used = [i \in Inputs |-> 0]
    /\ opened = <<>> /\ given = <<>>
    /\ owed = {} /\ reborn = {} /\ ignored = FALSE

-----------------------------------------------------------------------------
(* The two lists.                                                          *)

InProgress(row) == row.status \in {"pending", "dispatched"}
Tracked(row) == row.status = "dispatched"
Finished(row, status) == [row EXCEPT !.status = status]

RunsOf(rs, a) == {r \in DOMAIN rs : rs[r].auto = a}

\* next_run: whether a due time lies ahead.
NextRun(form) == IF form.kind = "schedule" THEN "later" ELSE "none"
Rescheduled(as, a) == [as EXCEPT ![a].next = NextRun(as[a].form)]

\* prune: the oldest ended runs of automation a beyond the newest KeepRuns go.
Pruned(rs, a) ==
    LET old == {r \in RunsOf(rs, a) : ~InProgress(rs[r])}
        older(r) == {q \in old : rs[q].number < rs[r].number}
    IN Without(rs, {r \in old :
           Cardinality(older(r)) + KeepRuns < Cardinality(RunsOf(rs, a))})

NewRow(a, number, trigger) ==
    [auto |-> a, number |-> number, trigger |-> trigger, status |-> "pending",
     cause |-> "none", term |-> 0, key |-> 0, lastTerm |-> 0, lastKey |-> 0,
     settling |-> FALSE, sent |-> FALSE, worked |-> FALSE, cut |-> FALSE,
     cancelled |-> FALSE, adrift |-> FALSE]

Skipped(row, cause) == [row EXCEPT !.status = "skipped", !.cause = cause]

NextId(rs) == Highest(DOMAIN rs) + 1

\* Mutant: the number kept with the automation counts alone.
NextNumberAsKept(as, rs, a) == as[a].last + 1

\* The number of the next run of a: above every one listed or kept with a.
NextNumber(as, rs, a) ==
    Highest({rs[r].number : r \in RunsOf(rs, a)} \cup {as[a].last}) + 1

Numbered(as, a, number) == [as EXCEPT ![a].last = number]

\* new_run: both lists with one more row, whose run is id.
WithRun(as, rs, a, trigger) ==
    LET number == NextNumber(as, rs, a)
        id == NextId(rs)
    IN [id |-> id, number |-> number, autos |-> Numbered(as, a, number),
        runs |-> Pruned(With(rs, id, NewRow(a, number, trigger)), a)]

\* skip: a run that never started.  The same refusal again is no new run.
WithSkip(as, rs, a, trigger, cause) ==
    LET mine == RunsOf(rs, a)
        again == {r \in mine :
                    /\ \A q \in mine : rs[q].number <= rs[r].number
                    /\ cause # "missed" /\ rs[r].status = "skipped"
                    /\ rs[r].cause = cause /\ rs[r].trigger = trigger}
        new == WithRun(as, rs, a, trigger)
    IN IF again # {}
       THEN [id |-> Highest(again), number |-> as[a].last, autos |-> as, runs |-> rs]
       ELSE [new EXCEPT !.runs[new.id] = Skipped(@, cause)]

\* What the history keeps of a run of a just logged.
Noted(a, number) ==
    /\ given' = [given EXCEPT ![a] = number]
    /\ owed' = owed \ {a}
    /\ UNCHANGED <<reborn, ignored>>

-----------------------------------------------------------------------------
(* The window's commands.                                                  *)

\* save_automation without an id.
Create(form) ==
    LET a == Highest(DOMAIN autos) + 1 IN
    /\ Comes("create")
    /\ autos' = With(autos, a, [form |-> form, enabled |-> TRUE,
                                next |-> NextRun(form), last |-> 0,
                                rested |-> FALSE])
    /\ given' = With(given, a, 0)
    /\ UNCHANGED <<runs, threads, screen, owed, reborn, ignored>>

\* save_automation of an automation there is.
Save(a, form) ==
    /\ Comes("edit")
    /\ autos' = [autos EXCEPT ![a].form = form, ![a].next = NextRun(form)]
    /\ owed' = owed \ {a}
    /\ UNCHANGED <<runs, threads, screen, given, reborn, ignored>>

\* set_enabled: the switch; resuming works the due time out afresh.
SetEnabled(a, on) ==
    /\ Comes("edit")
    /\ autos' = [autos EXCEPT ![a].enabled = on,
                              ![a].next = IF on THEN NextRun(autos[a].form) ELSE @]
    /\ owed' = owed \ {a}
    /\ UNCHANGED <<runs, threads, screen, given, reborn, ignored>>

Deleted(a) == Without(autos, {a})

\* The runs that launches write to when they are through.
Launched == {launches[t].run : t \in DOMAIN launches}

\* delete: the automation, then its runs.
Delete(a) ==
    /\ Comes("delete")
    /\ autos' = Deleted(a)
    /\ runs' = Without(runs, RunsOf(runs, a))
    /\ given' = Without(given, {a})
    /\ owed' = owed \ {a}
    /\ reborn' = reborn \cup RunsOf(runs, a) \cup (Launched \ DOMAIN runs)
    /\ UNCHANGED <<threads, screen, ignored>>

\* cancel: ends the run, not its pane.
Cancel(r) ==
    /\ Comes("cancel")
    /\ InProgress(runs[r])
    /\ runs' = [runs EXCEPT ![r].status = "failed", ![r].cancelled = TRUE]
    /\ UNCHANGED <<autos, threads, screen, memory>>

-----------------------------------------------------------------------------
(* run_inner.                                                              *)

Thread == Highest(DOMAIN launches) + 1
Busy(trigger) == \E t \in DOMAIN launches : launches[t].trigger = trigger

NewLaunch(run, a, trigger) ==
    LET form == autos[a].form IN
    [run |-> run, auto |-> a, form |-> form, trigger |-> trigger,
     stage |-> IF trigger # "manual" /\ form.check THEN "check" ELSE "place",
     outcome |-> "none", term |-> 0, key |-> 0]

\* The target is ready: a run is logged as pending, beside the runs rs.
Begins(a, trigger, rs) ==
    LET new == WithRun(autos, rs, a, trigger) IN
    /\ autos' = new.autos /\ runs' = new.runs
    /\ launches' = With(launches, Thread, NewLaunch(new.id, a, trigger))
    /\ Noted(a, new.number)

\* problem: the project or folder is gone, or its account is signed out.
Refused(a, trigger) ==
    LET new == WithSkip(autos, runs, a, trigger, "unavailable") IN
    /\ Comes("trouble")
    /\ autos' = Rescheduled(new.autos, a) /\ runs' = new.runs
    /\ Noted(a, new.number)
    /\ UNCHANGED launches

\* Mutant: a run that is only starting is not seen.
HoldsOnceStarted(row) == Tracked(row) /\ row.term # 0

\* holds_manual_run: whether a second Run now must wait for this run.  One
\* without a pane, also one that settles, does for two minutes, which may be
\* over; a Run now before that is refused and changes nothing.
HoldsManualRun(row) == row.status = "pending" \/ (Tracked(row) /\ row.term # 0)

\* The runs after Run now has closed those of a that have no pane.
PanelessClosed(a) ==
    [r \in DOMAIN runs |->
        IF runs[r].auto = a /\ Tracked(runs[r]) /\ runs[r].term = 0
        THEN Finished(runs[r], "failed") ELSE runs[r]]

FreeForRunNow(a) == \A r \in RunsOf(runs, a) : ~HoldsManualRun(runs[r])

\* run_manual: whatever the timetable and the switch say.
RunNow(a) ==
    /\ Comes("manual")
    /\ FreeForRunNow(a)
    /\ Begins(a, "manual", PanelessClosed(a))
    /\ UNCHANGED <<clock, events, notices, screen>>

\* An error of launch l or of its start ends the list its caller was at.
ListsEnd(trigger) ==
    /\ clock' = [clock EXCEPT !.due = IF trigger = "schedule" THEN {} ELSE @]
    /\ events' = IF trigger = "event" THEN {} ELSE events

\* reschedule, then patch_run: the run of thread t becomes row.
Writes(t, row) ==
    LET l == launches[t]
        known == l.auto \in DOMAIN autos
        kept == known /\ l.run \in DOMAIN runs
    IN /\ launches' = Without(launches, {t})
       /\ autos' = IF known THEN Rescheduled(autos, l.auto) ELSE autos
       /\ owed' = IF known THEN owed \ {l.auto} ELSE owed
       /\ runs' = IF kept THEN [runs EXCEPT ![l.run] = row] ELSE runs
       /\ IF kept THEN UNCHANGED <<clock, events>> ELSE ListsEnd(l.trigger)
       /\ UNCHANGED <<notices, screen, given, reborn, ignored>>

\* run_precheck has said no, or reached its limit.
CheckFails(t) ==
    /\ launches[t].stage = "check"
    /\ Writes(t, Skipped(runs[launches[t].run], "precheck"))
    /\ UNCHANGED used

CheckPasses(t) ==
    /\ launches[t].stage = "check"
    /\ launches' = [launches EXCEPT ![t].stage = "place"]
    /\ UNCHANGED <<saved, clock, events, notices, screen, memory, used>>

Placed(t, outcome, term, key) ==
    [launches EXCEPT ![t].stage = "record", ![t].outcome = outcome,
                     ![t].term = term, ![t].key = key]

\* reusable: the last session of the automation, ended, free and idle.
Sessions(l) ==
    LET had == {r \in RunsOf(runs, l.auto) : runs[r].term # 0}
        last == {r \in had : \A q \in had : q <= r}
    IN {runs[r].term : r \in {r \in last :
          /\ l.form.reuse /\ runs[r].sent /\ ~InProgress(runs[r])
          /\ \A q \in DOMAIN runs :
                InProgress(runs[q]) => runs[q].term # runs[r].term
          /\ runs[r].term \in DOMAIN terms
          /\ LET p == terms[runs[r].term] IN
             p.alive /\ p.key = runs[r].key /\ p.state = "done"}}

\* place_and_start: the agent is not installed or the project is gone.
PlaceFails(t) ==
    /\ launches[t].stage = "place"
    /\ Comes("trouble")
    /\ \E outcome \in {"failed", "skipped"} : launches' = Placed(t, outcome, 0, 0)
    /\ UNCHANGED <<saved, clock, events, notices, screen, memory>>

\* place_and_start: into the last session, or a notice to the window.
Place(t) ==
    /\ launches[t].stage = "place"
    /\ \/ \E s \in Sessions(launches[t]) :
            /\ launches' = Placed(t, "dispatched", s, terms[s].key)
            /\ opened' = [opened EXCEPT ![terms[s].key] = @ \cup {launches[t].run}]
            /\ UNCHANGED notices
       \/ /\ Sessions(launches[t]) = {}
          /\ launches' = Placed(t, "dispatched", 0, 0)
          /\ notices' = notices \cup {launches[t].run}
          /\ UNCHANGED opened
    /\ UNCHANGED <<saved, clock, events, terms, topTerm, reopen, memory, used>>

\* What the recorded start makes of the run, whatever became of it meanwhile.
StartOf(row, l) ==
    LET ended == [row EXCEPT !.status = l.outcome]
    IN CASE l.outcome = "dispatched" ->
              [ended EXCEPT !.sent = TRUE,
                            !.term = IF l.term # 0 THEN l.term ELSE @,
                            !.key = IF l.term # 0 THEN l.key ELSE @]
         [] l.outcome = "skipped" -> [ended EXCEPT !.cause = "unavailable"]
         [] OTHER -> ended

Record(t) ==
    /\ launches[t].stage = "record"
    /\ Writes(t, StartOf(runs[launches[t].run], launches[t]))
    /\ UNCHANGED used

-----------------------------------------------------------------------------
(* The clock's thread.                                                     *)

\* A due time comes.
TimePasses(a) ==
    /\ autos[a].next = "later"
    /\ Comes("due")
    /\ autos' = [autos EXCEPT ![a].next = "due"]
    /\ owed' = IF autos[a].enabled THEN owed \cup {a} ELSE owed
    /\ UNCHANGED <<runs, threads, screen, given, reborn, ignored>>

Due == {a \in DOMAIN autos :
          /\ autos[a].enabled /\ autos[a].form.kind = "schedule"
          /\ autos[a].next = "due"}

\* Mutant: tick moves the timetable on before it starts anything.
TickMovesOn ==
    /\ ~clock.ticking
    /\ clock' = [ticking |-> TRUE, due |-> Due]
    /\ autos' = [a \in DOMAIN autos |->
                   IF a \in Due THEN Rescheduled(autos, a)[a] ELSE autos[a]]
    /\ UNCHANGED <<runs, launches, events, notices, screen, memory, used>>

\* tick reads what is due, once.
Tick ==
    /\ ~clock.ticking
    /\ clock' = [ticking |-> TRUE, due |-> Due]
    /\ UNCHANGED <<saved, launches, events, notices, screen, memory, used>>

\* tick: a due time Kolux was away for is one skipped run.
Missed(a) ==
    LET new == WithSkip(autos, runs, a, "schedule", "missed") IN
    /\ autos' = Rescheduled(new.autos, a) /\ runs' = new.runs
    /\ Noted(a, new.number)
    /\ UNCHANGED <<launches, used>>

\* tick's next one of the list; it may be paused by now, or rescheduled.
ClockStarts(a) ==
    /\ a \in clock.due /\ ~Busy("schedule")
    /\ \/ /\ a \in DOMAIN autos
          /\ clock' = [clock EXCEPT !.due = @ \ {a}]
          /\ \/ /\ Begins(a, "schedule", runs)
                /\ UNCHANGED used
             \/ Refused(a, "schedule")
             \/ Missed(a)
          /\ UNCHANGED events
       \/ /\ a \notin DOMAIN autos
          /\ ListsEnd("schedule")
          /\ UNCHANGED <<saved, launches, memory, used>>
    /\ UNCHANGED <<notices, screen>>

\* stalled: the runs whose agent reads interrupted, or working and silent.
Stalling == {r \in DOMAIN runs :
    /\ Tracked(runs[r]) /\ runs[r].term \in DOMAIN terms
    /\ LET p == terms[runs[r].term] IN
       p.alive /\ (p.state = "working" \/ (p.state = "interrupted" /\ runs[r].cut))}

Settling(row) == Tracked(row) /\ row.settling

\* After its tick the clock closes the runs lost, whose two minutes of
\* settling are over, and the runs silent, which it finds stalled.
Settles(lost, silent) ==
    /\ clock.ticking /\ clock.due = {} /\ ~Busy("schedule")
    /\ clock' = [clock EXCEPT !.ticking = FALSE]
    /\ runs' = [r \in DOMAIN runs |->
                  IF r \in lost
                  THEN [Finished(runs[r], "failed") EXCEPT !.settling = FALSE]
                  ELSE IF r \in silent THEN Finished(runs[r], "failed")
                  ELSE runs[r]]
    /\ UNCHANGED <<autos, launches, events, notices, screen, memory, used>>

\* Mutant: only a run that had a pane is looked for.
SettlingWithPane == {r \in DOMAIN runs : Settling(runs[r]) /\ runs[r].lastTerm # 0}

AllSettling == {r \in DOMAIN runs : Settling(runs[r])}

Beat == \E lost \in SUBSET AllSettling, silent \in SUBSET Stalling :
            Settles(lost, silent)

\* A beat after the settling time of every run has passed.
LateBeat == \E silent \in SUBSET Stalling : Settles(AllSettling, silent)

-----------------------------------------------------------------------------
(* Events.                                                                 *)

Listening == {a \in DOMAIN autos :
    autos[a].enabled /\ autos[a].form.kind = "event" /\ ~autos[a].rested}

\* on_event takes the listening automations; one list at a time here.
Sets(as) ==
    /\ events = {} /\ ~Busy("event") /\ as # {}
    /\ events' = as
    /\ autos' = [a \in DOMAIN autos |->
                   IF a \in as THEN [autos[a] EXCEPT !.rested = TRUE] ELSE autos[a]]

\* A pull request opens, or its checks fail.
Event ==
    /\ Comes("event")
    /\ Sets(Listening)
    /\ UNCHANGED <<runs, launches, clock, notices, screen, memory>>

EventStarts(a) ==
    /\ a \in events /\ ~Busy("event")
    /\ \/ /\ a \in DOMAIN autos
          /\ events' = events \ {a}
          /\ \/ /\ Begins(a, "event", runs)
                /\ UNCHANGED used
             \/ Refused(a, "event")
          /\ UNCHANGED clock
       \/ /\ a \notin DOMAIN autos
          /\ ListsEnd("event")
          /\ UNCHANGED <<saved, launches, memory, used>>
    /\ UNCHANGED <<notices, screen>>

\* The five minutes an automation rests after an event are over.
RestEnds(a) ==
    /\ autos[a].rested
    /\ autos' = [autos EXCEPT ![a].rested = FALSE]
    /\ UNCHANGED <<runs, threads, screen, memory, used>>

-----------------------------------------------------------------------------
(* Panes.                                                                  *)

NewTerm(key, names) ==
    /\ topTerm' = topTerm + 1
    /\ terms' = With(terms, topTerm', [key |-> key, names |-> names, alive |-> TRUE,
                             claimed |-> FALSE, told |-> FALSE, state |-> "start"])

NewPane(names, for) ==
    LET key == Highest(DOMAIN opened) + 1 IN
    /\ NewTerm(key, names)
    /\ opened' = With(opened, key, for)
    /\ UNCHANGED reopen

\* The window starts the pane of run r, which names the run.
WindowStarts(r) ==
    /\ r \in notices
    /\ used["pane"] < Limits["pane"]
    /\ used' = [used EXCEPT !["pane"] = @ + 1]
    /\ NewPane(r, {r})
    /\ notices' = notices \ {r}
    /\ UNCHANGED <<saved, launches, clock, events, memory>>

\* The user starts the same agent in the same folder.
UserOpens ==
    /\ Comes("open")
    /\ NewPane(0, {})
    /\ UNCHANGED <<saved, threads, memory>>

\* A pane of the last process comes back; it names no run any more.
Reopens(key) ==
    /\ key \in reopen
    /\ NewTerm(key, 0)
    /\ reopen' = reopen \ {key}
    /\ UNCHANGED <<saved, threads, opened, memory, used>>

\* terminal_spawn is through with t, and its end has been told: t is forgotten.
Kept(ts) == Without(ts, {t \in DOMAIN ts : ts[t].claimed /\ ts[t].told})

\* Mutant: the oldest run that waits for a pane in this folder.
ClaimantsByFolder(p) ==
    LET free == {r \in DOMAIN runs : InProgress(runs[r]) /\ runs[r].term = 0}
    IN {r \in free : \A q \in free : r <= q}

\* claim: the run a new pane is followed by, at most one.
Claimants(p) ==
    LET open(r) == InProgress(runs[r]) /\ runs[r].term = 0
        free == {r \in DOMAIN runs :
                   /\ Tracked(runs[r]) /\ open(r) /\ runs[r].settling
                   /\ runs[r].lastTerm # 0 /\ runs[r].lastKey = p.key}
    IN IF p.names \in DOMAIN runs THEN {r \in {p.names} : open(r)}
       ELSE {r \in free : \A q \in free : r <= q}

\* Mutant: the settling goes on.
FollowedStillSettling(row, t, key) == [row EXCEPT !.term = t, !.key = key]

Followed(row, t, key) ==
    [row EXCEPT !.term = t, !.key = key, !.settling = FALSE]

\* terminal_spawn, once the pane runs (or already does not).
Claim(t) ==
    /\ ~terms[t].claimed
    /\ terms' = Kept([terms EXCEPT ![t].claimed = TRUE])
    /\ runs' = [r \in DOMAIN runs |->
                  IF r \in Claimants(terms[t])
                  THEN Followed(runs[r], t, terms[t].key)
                  ELSE runs[r]]
    /\ UNCHANGED <<autos, threads, topTerm, reopen, opened, memory, used>>

\* The run followed in terminal t: the first one, if there are more.
Followers(t) == {r \in DOMAIN runs : Tracked(runs[r]) /\ runs[r].term = t}
Follower(t) == {r \in Followers(t) : \A q \in Followers(t) : r <= q}

\* on_status of the lead agent; a boundary is a start, resume or clear.
Heard(row, said) ==
    CASE said = "working" -> [row EXCEPT !.worked = TRUE, !.cut = FALSE]
      [] said = "done" -> [row EXCEPT !.cut = FALSE,
                             !.status = IF row.worked THEN "completed" ELSE @]
      [] said = "interrupted" -> [row EXCEPT !.cut = TRUE]
      [] OTHER -> row

\* own_pane: a run in the list has, or had, this terminal number or this key.
OwnPane(rs, t, key) == \E r \in DOMAIN rs :
    t \in {rs[r].term, rs[r].lastTerm} \/ key \in {rs[r].key, rs[r].lastKey}

\* The hooks report what the agent in t does.  on_status first; then, when a
\* turn ended in a pane that is no run's, on_event for "agent finished".
Reports(t, said) ==
    LET p == terms[t]
        heard == [r \in DOMAIN runs |->
                    IF r \in Follower(t) THEN Heard(runs[r], said) ELSE runs[r]]
        own == OwnPane(heard, t, p.key)
        finish == said = "done" /\ p.state = "working" /\ Listening # {}
    IN /\ p.alive
       /\ runs' = heard
       /\ terms' = [terms EXCEPT ![t].state = IF said = "boundary" THEN "done" ELSE said]
       /\ CASE finish /\ ~own -> Comes("event") /\ Sets(Listening)
            [] said \in {"interrupted", "boundary"} ->
                 Comes("pause") /\ UNCHANGED <<autos, events>>
            [] OTHER -> UNCHANGED <<autos, events, used>>
       /\ ignored' = (ignored \/ (finish /\ own /\ opened[p.key] = {}))
       /\ UNCHANGED <<launches, clock, notices, topTerm, reopen, opened,
                      given, owed, reborn>>

\* The agent exits or its pane is closed: the session is gone at once.
Exits(t) ==
    /\ terms[t].alive
    /\ Comes("exit")
    /\ terms' = [terms EXCEPT ![t].alive = FALSE]
    /\ UNCHANGED <<saved, threads, topTerm, reopen, opened, memory>>

\* pane_ended: the run followed there is over.
PaneEnded(t) ==
    /\ ~terms[t].alive /\ ~terms[t].told
    /\ terms' = Kept([terms EXCEPT ![t].told = TRUE])
    /\ runs' = [r \in DOMAIN runs |->
                  IF r \in Follower(t) THEN Finished(runs[r], "failed") ELSE runs[r]]
    /\ UNCHANGED <<autos, threads, topTerm, reopen, opened, memory, used>>

-----------------------------------------------------------------------------
(* Kolux ends, by a quit or a crash, and starts again.                     *)

\* tidy: what was starting cannot start now, and what was followed settles.
\* For the properties only: a run is adrift that was settling already.
Tidied(row) ==
    CASE row.status = "pending" -> Finished(row, "failed")
      [] Tracked(row) ->
           [row EXCEPT !.lastTerm = IF row.term # 0 THEN row.term ELSE @,
                       !.lastKey = IF row.key # 0 THEN row.key ELSE @,
                       !.term = 0, !.key = 0, !.settling = TRUE,
                       !.adrift = @ \/ (row.term = 0 /\ row.lastTerm # 0)]
      [] OTHER -> row

\* reconnect: a terminal the service is known to hold is followed again.  It
\* never hears that a pane's program is over: the end of a terminal takes the
\* mark along that of_pane would find it by (terminal.rs:1131-1133).
Reconnected(row, found) ==
    IF Tracked(row) /\ row.lastTerm \in found
    THEN Followed(row, row.lastTerm, row.lastKey)
    ELSE row

\* tidy's last act: every automation's history is cut down.
AllPruned(rs) ==
    Without(rs, {r \in DOMAIN rs : r \notin DOMAIN Pruned(rs, rs[r].auto)})

Alive == {t \in DOMAIN terms : terms[t].alive}

\* A terminal the service kept: what its agent last reported is forgotten.
Adopted(p) == [p EXCEPT !.claimed = TRUE, !.state = "start"]

\* A new process with the saved lists as and rs.  The service kept all
\* terminals or none, and the link knows some of them when reconnect asks.
RestartsWith(as, rs) ==
    /\ Comes("restart")
    /\ autos' = as
    /\ \E kept \in {{}, Alive} : \E found \in SUBSET kept :
         /\ terms' = [t \in kept |-> Adopted(terms[t])]
         /\ topTerm' = Highest(kept)
         /\ reopen' = reopen \cup {terms[t].key : t \in Alive \ kept}
         /\ runs' = AllPruned([r \in DOMAIN rs |-> Reconnected(Tidied(rs[r]), found)])
    /\ launches' = <<>> /\ events' = {} /\ notices' = {}
    /\ clock' = [ticking |-> FALSE, due |-> {}]
    /\ UNCHANGED <<opened, ignored>>

Restart == RestartsWith(autos, runs) /\ UNCHANGED <<given, owed, reborn>>

\* The process ends between the two saves of new_run, beside the runs rs.
\* The run is listed as failed, unless a history full of runs in progress
\* drops it at once.
CutBetween(a, trigger, rs) ==
    LET new == WithRun(autos, rs, a, trigger) IN
    /\ RestartsWith(autos, new.runs)
    /\ given' = [given EXCEPT ![a] = IF new.id \in DOMAIN runs' THEN new.number ELSE @]
    /\ UNCHANGED <<owed, reborn>>

\* The clock or an event was starting a.
CutStart(a, trigger) ==
    /\ \/ /\ trigger = "schedule"
          /\ a \in clock.due /\ ~Busy("schedule")
       \/ /\ trigger = "event"
          /\ a \in events /\ ~Busy("event")
    /\ CutBetween(a, trigger, runs)

\* Run now was starting a: its first save closed the runs without a pane.
CutRunNow(a) ==
    /\ used["manual"] < Limits["manual"]
    /\ FreeForRunNow(a)
    /\ CutBetween(a, "manual", PanelessClosed(a))

\* The process ends between the two saves of delete.
CutDelete(a) ==
    /\ used["delete"] < Limits["delete"]
    /\ RestartsWith(Deleted(a), runs)
    /\ given' = Without(given, {a})
    /\ owed' = owed \ {a}
    /\ UNCHANGED reborn

-----------------------------------------------------------------------------

Commands ==
    \/ \E form \in Forms : Create(form)
    \/ \E a \in DOMAIN autos :
         \/ \E form \in Forms : Save(a, form)
         \/ \E on \in BOOLEAN : SetEnabled(a, on)
         \/ Delete(a) \/ RunNow(a)
    \/ \E r \in DOMAIN runs : Cancel(r)

Launching == \E t \in DOMAIN launches :
    CheckFails(t) \/ CheckPasses(t) \/ PlaceFails(t) \/ Place(t) \/ Record(t)

Clock == Tick \/ Beat \/ \E a \in clock.due : ClockStarts(a)

Time == \E a \in DOMAIN autos : TimePasses(a) \/ RestEnds(a)

Happenings == Event \/ \E a \in events : EventStarts(a)

PaneSteps ==
    \/ UserOpens
    \/ \E r \in notices : WindowStarts(r)
    \/ \E key \in reopen : Reopens(key)
    \/ \E t \in DOMAIN terms :
         \/ Claim(t) \/ Exits(t) \/ PaneEnded(t)
         \/ \E said \in {"working", "done", "interrupted", "boundary"} : Reports(t, said)

Ends ==
    \/ Restart
    \/ \E a \in DOMAIN autos :
         \/ CutDelete(a) \/ CutRunNow(a)
         \/ \E trigger \in Triggers : CutStart(a, trigger)

Next == Commands \/ Launching \/ Clock \/ Time \/ Happenings \/ PaneSteps \/ Ends

ASpec == AInit /\ [][Next]_vars

\* The clock's thread goes on, a precheck ends by its limit, the calls of
\* run_inner and the event threads run on, and time passes.
AFairSpec ==
    /\ ASpec
    /\ WF_vars(Clock)
    /\ WF_vars(Launching)
    /\ WF_vars(\E a \in events : EventStarts(a))
    /\ SF_vars(LateBeat)

-----------------------------------------------------------------------------
(* Properties.                                                             *)

\* A run is numbered above every run its automation ever had, also after a
\* crash between the two saves and after pruning (AUTO-013).
NumbersOnlyGrow ==
    [][\A r \in DOMAIN runs' \ DOMAIN runs :
         LET a == runs'[r].auto IN
         a \in DOMAIN given => runs'[r].number > given[a]]_vars

\* A run in progress is followed only in a pane that was started for it or
\* that its prompt was typed into, whatever panes the user opens and whatever
\* comes back after a restart.  Only a run that was still settling when the
\* next restart came may be found by a number that means another pane now.
FollowsItsPane ==
    \A r \in DOMAIN runs :
        /\ InProgress(runs[r]) /\ ~runs[r].adrift
        /\ runs[r].term \in DOMAIN terms
        => r \in opened[terms[runs[r].term].key]

\* Run now never starts a job twice: of an automation's manual runs, one at
\* most is in progress, unless one was cancelled while it was starting, or
\* has the id of a deleted run, whose launch may still write to it.
OneManualRun ==
    \A r, q \in DOMAIN runs \ reborn :
        /\ runs[r].auto = runs[q].auto /\ r # q
        /\ runs[r].trigger = "manual" /\ runs[q].trigger = "manual"
        /\ InProgress(runs[r]) /\ InProgress(runs[q])
        => runs[r].cancelled \/ runs[q].cancelled

\* A due time is always answered: by a run, by an entry that says why there
\* is none, or by the user changing the automation.
DueIsAnswered == owed # {} ~> owed = {}

\* No run stays pending, and none waits for its pane for ever after a restart.
RunsMoveOn ==
    LET Hanging == \E r \in DOMAIN runs :
            \/ runs[r].status = "pending"
            \/ Settling(runs[r])
    IN Hanging ~> ~Hanging

\* An ordinary finish in a pane that no automation opened is heard by the
\* automations that listen for it.
FinishIsHeard == ~ignored
=============================================================================
