------------------------------ MODULE Requests ------------------------------
(***************************************************************************)
(* How Kolux keeps a retried command from doing its work twice: the queue  *)
(* of the command line server, the receipts and the unfinished requests in *)
(* the stored mail, and the worker starts lately finished that a repeat    *)
(* joins.                                                                  *)
(* Sources: src-tauri/src/orchestration.rs (once, begin, finish) and       *)
(* src-tauri/src/cli/mod.rs (serve_loop_with, mail, tasks,                 *)
(* worker_start_once, join_running, reset).                                *)
(*                                                                         *)
(* What a command does is left to Dispatches; here its work is only        *)
(* counted, under the retry key (command, caller and --retry-request id)   *)
(* it was done for.  Requests are served one at a time, so only the        *)
(* senders and the end of the process interleave with one.                 *)
(***************************************************************************)
EXTENDS Naturals, Sequences, FiniteSets

CONSTANTS
    Requests,    \* what is sent: [key, command, flags]; a retry is the same
                 \* request again
    NoKey,       \* the key of a request without --retry-request
    MaxPending,  \* MAX_PENDING: unfinished requests the ledger tracks
    MaxQueued,   \* MAX_QUEUED: requests that wait their turn
    MaxSends,    \* bound: requests sent
    MaxRuntimes, \* bound: processes of the app, one after the other
    MaxResets    \* bound: orchestration resets

\* Commands that change the mail alone, and those that also write the lists;
\* a report is a send of worker_done.
MailCommands == {"run-create", "run-use", "send", "reply", "ask"}
ListCommands == {"report", "task-create", "task-update", "task-reset",
    "dispatch", "worker-abandon", "worker-stop", "worker-retain",
    "worker-release", "gate-create", "gate-resolve"}
Commands == MailCommands \cup ListCommands \cup {"worker-start"}

Keys == {r.key : r \in Requests} \ {NoKey}
Flags == {r.flags : r \in Requests}

ASSUME RequestsAreKnown ==
    \A r \in Requests : /\ r = [key |-> r.key, command |-> r.command,
                                flags |-> r.flags]
                        /\ r.command \in Commands

\* The key holds the command, and a request id is made for one request.
ASSUME KeysAreOfOneRequest ==
    \A r, s \in Requests : r.key = s.key /\ r.key # NoKey => r = s

ASSUME LimitsAreNaturals ==
    /\ {MaxPending, MaxQueued, MaxSends, MaxRuntimes, MaxResets} \subseteq Nat
    /\ MaxRuntimes # 0

VARIABLES
    answers,    \* stored: the keys that have a receipt
    old,        \* the receipts older than RECEIPT_TTL_MS
    pending,    \* stored: by key, the process that began it, or 0
    runtime,    \* the process id of this start of Kolux, as a counter
    queue,      \* requests that wait, each with the time it arrived
    running,    \* the worker start under way
    finished,   \* FINISHED: worker starts lately over
    clock,      \* time, counted in starts begun and ended
    sends,      \* how many requests were sent
    resets,     \* how many resets there were
    done,       \* history: by key, how often its work was done
    cut,        \* history: by key, how often the process ended between the
                \* work and its receipt
    forgotten   \* history: by key, how often its receipt was dropped

ledger == <<answers, old, pending>>
history == <<done, cut, forgotten>>
vars == <<answers, old, pending, runtime, queue, running, finished, clock,
          sends, resets, done, cut, forgotten>>

Arrival == [req: Requests, at: Nat]
Run == [req: Requests, at: Nat, phase: {"begun", "trying", "asked"}, from: Nat]
Idle == [phase |-> "idle"]
Over == [flags: Flags, from: Nat, to: Nat, kept: BOOLEAN]

TypeOK ==
    /\ answers \subseteq Keys
    /\ old \subseteq answers
    /\ pending \in [Keys -> 0..MaxRuntimes]
    /\ runtime \in 1..MaxRuntimes
    /\ queue \in Seq(Arrival) /\ Len(queue) <= MaxQueued
    /\ running \in Run \cup {Idle}
    /\ finished \subseteq Over
    /\ clock \in Nat
    /\ sends \in 0..MaxSends
    /\ resets \in 0..MaxResets
    /\ done \in [Keys -> Nat]
    /\ cut \in [Keys -> Nat]
    /\ forgotten \in [Keys -> Nat]

-----------------------------------------------------------------------------
(* The ledger.                                                             *)

\* One more for every key of S.
OneMore(f, S) == [k \in Keys |-> IF k \in S THEN f[k] + 1 ELSE f[k]]

\* room: fewer than MaxPending requests are unfinished.
Room == Cardinality({k \in Keys : pending[k] # 0}) < MaxPending

FreshWithRoom(key) == key # NoKey => Room

\* once: a receipt answers; with none there must be room.
Fresh(key) == key \notin answers /\ (key # NoKey => Room)

FinishKeepsPending(key, kept) ==
    IF key = NoKey THEN UNCHANGED <<ledger, forgotten>>
    ELSE /\ answers' = (answers \ old) \cup (IF kept THEN {key} ELSE {})
         /\ forgotten' = OneMore(forgotten, old)
         /\ old' = {}
         /\ UNCHANGED pending

\* finish: the request is over, with a receipt or none, and the receipts that
\* are too old go.  A request without a key has no part in the ledger.
Finish(key, kept) ==
    IF key = NoKey THEN UNCHANGED <<ledger, forgotten>>
    ELSE /\ answers' = (answers \ old) \cup (IF kept THEN {key} ELSE {})
         /\ forgotten' = OneMore(forgotten, old)
         /\ old' = {}
         /\ pending' = [pending EXCEPT ![key] = 0]

\* request_show.
Shown(k) ==
    IF k \in answers THEN "completed"
    ELSE IF pending[k] = 0 THEN "absent"
    ELSE IF pending[k] = runtime THEN "pending" ELSE "interrupted"

-----------------------------------------------------------------------------
(* The server.                                                             *)

Waiting == running = Idle /\ queue # <<>>
Taken == Head(queue).req
Key == Taken.key

\* A request arrives; a connection that finds the queue full is dropped.
Send(r) ==
    /\ sends < MaxSends
    /\ sends' = sends + 1
    /\ Len(queue) < MaxQueued
    /\ queue' = Append(queue, [req |-> r, at |-> clock])
    /\ UNCHANGED <<ledger, runtime, running, finished, clock, resets, history>>

\* What becomes of everything that is only in memory when the process ends.
Ends ==
    /\ runtime < MaxRuntimes
    /\ runtime' = runtime + 1
    /\ queue' = <<>>
    /\ running' = Idle
    /\ finished' = {}
    /\ UNCHANGED <<clock, sends, resets>>

\* A quit or a crash between two steps.
Restart ==
    /\ Ends
    /\ cut' = OneMore(cut, IF running # Idle /\ running.phase = "asked"
                           THEN {running.req.key} ELSE {})
    /\ UNCHANGED <<ledger, done, forgotten>>

Served ==
    /\ queue' = Tail(queue)
    /\ UNCHANGED <<runtime, running, finished, clock, sends, resets>>

\* The receipt answers a retry.
AnswerAgain ==
    /\ Waiting
    /\ Key \in answers
    /\ Served
    /\ UNCHANGED <<ledger, history>>

\* A start that this process has pending is waited for, for a while.
Waits == Key # NoKey /\ pending[Key] = runtime

\* Turned away, for want of room, out of patience, or by the command itself:
\* nothing is saved.
TurnAway ==
    /\ Waiting
    /\ Key \notin answers
    /\ Taken.command = "worker-start" => ~Fresh(Key) \/ Waits
    /\ Served
    /\ UNCHANGED <<ledger, history>>

\* The work and its receipt are saved in one value.
ServeMail ==
    /\ Waiting
    /\ Taken.command \in MailCommands
    /\ Fresh(Key)
    /\ Served
    /\ Finish(Key, TRUE)
    /\ done' = OneMore(done, {Key})
    /\ UNCHANGED cut

\* The lists are saved first, and the mail with the receipt after them.
ServeLists ==
    /\ Waiting
    /\ Taken.command \in ListCommands
    /\ Fresh(Key)
    /\ done' = OneMore(done, {Key})
    /\ \/ Served /\ Finish(Key, TRUE) /\ UNCHANGED cut
       \/ Ends /\ cut' = OneMore(cut, {Key}) /\ UNCHANGED <<ledger, forgotten>>

-----------------------------------------------------------------------------
(* Worker starts.                                                          *)

\* worker_start_once: begin is saved before the start, whatever an earlier
\* process left pending.
Begin ==
    /\ Waiting
    /\ Taken.command = "worker-start"
    /\ Fresh(Key) /\ ~Waits
    /\ queue' = Tail(queue)
    /\ running' = [req |-> Taken, at |-> Head(queue).at, phase |-> "begun",
                   from |-> 0]
    /\ pending' = [k \in Keys |-> IF k = Key THEN runtime ELSE pending[k]]
    /\ UNCHANGED <<answers, old, runtime, finished, clock, sends, resets, history>>

\* The starts with the same flags that were under way when this one arrived.
Twins(flags, at) ==
    {f \in finished : f.flags = flags /\ f.from <= at /\ at <= f.to}

\* join_running: a repeat takes the outcome of the start it arrived in.
Join ==
    /\ running # Idle
    /\ running.phase = "begun"
    /\ \E f \in Twins(running.req.flags, running.at) :
          /\ Finish(running.req.key, f.kept)
          /\ done' = IF f.kept THEN OneMore(done, {running.req.key}) ELSE done
    /\ running' = Idle
    /\ UNCHANGED <<runtime, queue, finished, clock, sends, resets, cut>>

Try ==
    /\ running # Idle
    /\ running.phase = "begun"
    /\ Twins(running.req.flags, running.at) = {}
    /\ running' = [running EXCEPT !.phase = "trying", !.from = clock + 1]
    /\ clock' = clock + 1
    /\ UNCHANGED <<ledger, runtime, queue, finished, sends, resets, history>>

\* The window is asked to start the worker (Dispatches!AskWindow).
AskWindow ==
    /\ running # Idle
    /\ running.phase = "trying"
    /\ running' = [running EXCEPT !.phase = "asked"]
    /\ done' = OneMore(done, {running.req.key})
    /\ UNCHANGED <<ledger, runtime, queue, finished, clock, sends, resets, cut,
                   forgotten>>

\* The start ends, turned away or with an outcome that is kept (a timeout
\* is).  Of the earlier starts those more than ten minutes over are dropped.
End ==
    /\ running # Idle
    /\ running.phase # "begun"
    /\ LET kept == running.phase = "asked" IN
       /\ Finish(running.req.key, kept)
       /\ \E since \in 0..clock :
             finished' = {f \in finished : f.to >= since} \cup
                 {[flags |-> running.req.flags, from |-> running.from,
                   to |-> clock, kept |-> kept]}
    /\ running' = Idle
    /\ clock' = clock + 1
    /\ UNCHANGED <<runtime, queue, sends, resets, done, cut>>

-----------------------------------------------------------------------------
\* A receipt gets older than RECEIPT_TTL_MS.
Age(k) ==
    /\ k \in answers \ old
    /\ old' = old \cup {k}
    /\ UNCHANGED <<answers, pending, runtime, queue, running, finished, clock,
                   sends, resets, history>>

\* The receipts a reset of each scope drops.
Cleared(scope) ==
    {r.key : r \in {q \in Requests :
        \/ scope = "all"
        \/ scope = "tasks" /\
               q.command \in {"task-create", "dispatch", "worker-start"}
        \/ scope = "messages" /\ q.command \in {"send", "report", "reply"}}}
    \cap answers

\* reset: only the whole reset drops what is pending.
Reset(scope) ==
    /\ running = Idle
    /\ resets < MaxResets
    /\ resets' = resets + 1
    /\ answers' = answers \ Cleared(scope)
    /\ old' = old \ Cleared(scope)
    /\ forgotten' = OneMore(forgotten, Cleared(scope))
    /\ pending' = IF scope = "all" THEN [k \in Keys |-> 0] ELSE pending
    /\ UNCHANGED <<runtime, queue, running, finished, clock, sends, done, cut>>

-----------------------------------------------------------------------------
Init ==
    /\ answers = {} /\ old = {} /\ pending = [k \in Keys |-> 0]
    /\ runtime = 1 /\ queue = <<>> /\ running = Idle /\ finished = {}
    /\ clock = 0 /\ sends = 0 /\ resets = 0
    /\ done = [k \in Keys |-> 0]
    /\ cut = [k \in Keys |-> 0]
    /\ forgotten = [k \in Keys |-> 0]

ServerStep ==
    \/ AnswerAgain
    \/ TurnAway
    \/ ServeMail
    \/ ServeLists
    \/ Begin
    \/ Join
    \/ Try
    \/ AskWindow
    \/ End

Next ==
    \/ \E r \in Requests : Send(r)
    \/ ServerStep
    \/ \E k \in Keys : Age(k)
    \/ \E scope \in {"tasks", "messages", "all"} : Reset(scope)
    \/ Restart

Spec == Init /\ [][Next]_vars

-----------------------------------------------------------------------------
(* Safety.                                                                 *)

\* ORCH-030: however often a request is sent again, its work is done again
\* only when the process ended between the work and its receipt, or when the
\* receipt was dropped, and then once for each of those.
NeverDoneTwice ==
    \A k \in Keys : done[k] <= 1 + cut[k] + forgotten[k]

\* CLI-038: request-show gives an honest account: completed means the work
\* was done; absent means it never was, or that its receipt was lost with the
\* process or dropped; pending means the start is under way right now, so a
\* retry never waits for a start that is behind it in the queue.
ShowsTheTruth ==
    \A k \in Keys :
        /\ Shown(k) = "completed" => done[k] > 0
        /\ Shown(k) = "absent" /\ done[k] > 0 =>
               cut[k] + forgotten[k] > 0
        /\ Shown(k) = "pending" => running # Idle /\ running.req.key = k

=============================================================================
