------------------------------ MODULE Mailbox ------------------------------
(***************************************************************************)
(* The mailbox agents write to each other through: the Runs panes are tied *)
(* to, messages, the batches readers were given, and the checks that wait. *)
(* Sources: src-tauri/src/orchestration.rs (the Mail methods) and          *)
(* src-tauri/src/cli/mod.rs (mail, wait_for_mail, reset).                  *)
(*                                                                         *)
(* A mail command reads the stored mail, changes it and saves it under one *)
(* lock: one action.  A waiting check is a client that asks again every    *)
(* half second, so any command may come between two of its looks.          *)
(***************************************************************************)
EXTENDS Integers, FiniteSets

CONSTANTS
    Panes,       \* terminals with an agent, by handle
    Dispatches,  \* dispatch ids that have, had or will have a worker
    WorkerOf,    \* the pane of a dispatch's worker
    RunOf,       \* the number of a dispatch's Run
    Kinds,       \* message types, of KINDS
    Coordinators, \* the panes whose agents make and join Runs
    Letters,     \* what agents write: [from, box, kind]
    Checks,      \* how agents read: [pane, of, mode, types]
    MaxRuns,     \* bound: Runs made
    MaxMessages, \* bound: messages sent
    MaxEpoch,    \* bound: times a pane is tied to a Run
    MaxWaits,    \* bound: checks that wait at one time
    MaxResets    \* bound: resets of the mail

NoRun == 0
RunIds == 1..MaxRuns

Boxes == ({"term"} \X Panes) \cup ({"run"} \X RunIds)
            \cup ({"dispatch"} \X Dispatches)
TermBox(p) == <<"term", p>>
RunBox(r) == <<"run", r>>
Group == <<"group", "agents">>
DispatchBox(d) == <<"dispatch", d>>

\* A reader is named by the box it reads for: a pane's own, or a Run's.
Readers == ({"term"} \X Panes) \cup ({"run"} \X RunIds)

ASSUME BoundsAreNaturals ==
    {MaxRuns, MaxMessages, MaxEpoch, MaxWaits, MaxResets} \subseteq Nat
ASSUME DispatchesAreKnown ==
    /\ WorkerOf \in [Dispatches -> Panes]
    /\ RunOf \in [Dispatches -> RunIds]
ASSUME LettersAreKnown ==
    /\ "status" \in Kinds
    /\ Coordinators \subseteq Panes
    /\ \A l \in Letters : /\ l.from \in Panes /\ l.kind \in Kinds
                         /\ l.box \in Boxes \cup {Group}
ASSUME ChecksAreKnown ==
    \A c \in Checks : /\ c.pane \in Panes
                      /\ c.of \in Readers
                      /\ c.mode \in {"next", "peek", "unread", "all"}
                      /\ c.types \subseteq Kinds

VARIABLES
    runs,       \* the Runs there are
    bindings,   \* by pane, the Run it is tied to and how often it was tied
    messages,   \* by number, the stored messages; higher is later
    deliveries, \* by number, the batches given out
    seq,        \* the highest Run, message and delivery number ever given
    work,       \* by dispatch: "none", "open", "cut" (by a restart), "over"
    live,       \* panes whose terminal is open
    waits,      \* the checks that wait
    resets,     \* resets of the mail so far
    strayed     \* history: messages a wait took after its pane was tied anew

mail == <<runs, bindings, messages, deliveries, seq>>
vars == <<runs, bindings, messages, deliveries, seq, work, live, waits,
          resets, strayed>>

Message == [to: Boxes, from: Panes, kind: Kinds, run: RunIds \cup {NoRun}]
Delivery == [reader: Readers, messages: SUBSET Nat, acked: BOOLEAN]

\* What a waiting check holds: whose mail it reads and how, the epoch it was
\* given with its first answer, and (history) whether its pane was tied to a
\* Run since, or the bindings were wiped.
Wait == [check: Checks, fence: Nat, since: {"same", "moved", "wiped"}]

TypeOK ==
    /\ runs \subseteq 1..seq.run
    /\ bindings \in [Panes -> [run: RunIds \cup {NoRun}, epoch: 0..MaxEpoch]]
    /\ seq \in [run: 0..MaxRuns, msg: 0..MaxMessages, dlv: Nat]
    /\ DOMAIN messages \subseteq 1..seq.msg
    /\ messages \in [DOMAIN messages -> Message]
    /\ DOMAIN deliveries \subseteq 1..seq.dlv
    /\ deliveries \in [DOMAIN deliveries -> Delivery]
    /\ work \in [Dispatches -> {"none", "open", "cut", "over"}]
    /\ live \subseteq Panes
    /\ waits \subseteq Wait
    /\ resets \in 0..MaxResets
    /\ strayed \subseteq Nat

-----------------------------------------------------------------------------
(* Who reads what.                                                         *)

\* f with x of S mapped to v[x].
Extended(f, S, v) ==
    [x \in DOMAIN f \cup S |-> IF x \in S THEN v[x] ELSE f[x]]

\* The unfinished dispatches whose worker is in p.
Own(p) == {d \in Dispatches : work[d] = "open" /\ WorkerOf[d] = p}

\* run_of: the Run the pane is tied to, else that of its own dispatch.
ActsIn(p, r) ==
    IF bindings[p].run # NoRun THEN r = bindings[p].run
    ELSE \E d \in Own(p) : r = RunOf[d]

\* boxes_of, and the box of a Run read by name.
BoxesOf(of) ==
    IF of[1] = "run" THEN {of}
    ELSE LET p == of[2] IN
         {of} \cup {RunBox(r) : r \in {bindings[p].run} \ {NoRun}}
              \cup {DispatchBox(d) : d \in Own(p)}

\* seen_from and in_run: whose mail p may read.
MayRead(p, of) ==
    IF of[1] = "run" THEN of[2] \in runs /\ ActsIn(p, of[2])
    ELSE \/ of[2] = p
         \/ \E r \in RunIds : ActsIn(p, r) /\ ActsIn(of[2], r)

-----------------------------------------------------------------------------
(* The commands.                                                           *)

Init ==
    /\ runs = {}
    /\ bindings = [p \in Panes |-> [run |-> NoRun, epoch |-> 0]]
    /\ messages = [i \in {} |-> 0]
    /\ deliveries = [n \in {} |-> 0]
    /\ seq = [run |-> 0, msg |-> 0, dlv |-> 0]
    /\ work = [d \in Dispatches |-> "none"]
    /\ live = Panes
    /\ waits = {}
    /\ resets = 0
    /\ strayed = {}

\* Mutant: only the first tie counts in the epoch.
BindOnce(p, r) ==
    /\ bindings[p].epoch < MaxEpoch
    /\ bindings' = [bindings EXCEPT ![p] = [run |-> r, epoch |-> 1]]
    /\ waits' = {IF w.check.pane = p /\ w.since = "same"
                  THEN [w EXCEPT !.since = "moved"] ELSE w : w \in waits}

\* bind.  The waits of the pane that are parked notice by its epoch.
Bind(p, r) ==
    /\ bindings[p].epoch < MaxEpoch
    /\ bindings' = [bindings EXCEPT ![p] = [run |-> r, epoch |-> @.epoch + 1]]
    /\ waits' = {IF w.check.pane = p /\ w.since = "same"
                  THEN [w EXCEPT !.since = "moved"] ELSE w : w \in waits}

RunCreate(p) ==
    /\ p \in live /\ seq.run < MaxRuns
    /\ seq' = [seq EXCEPT !.run = @ + 1]
    /\ runs' = runs \cup {seq.run + 1}
    /\ Bind(p, seq.run + 1)
    /\ UNCHANGED <<messages, deliveries, work, live, resets, strayed>>

RunUse(p, r) ==
    /\ p \in live /\ r \in runs
    /\ Bind(p, r)
    /\ UNCHANGED <<runs, messages, deliveries, seq, work, live, resets, strayed>>

\* The Run a message to this box belongs to, as send works it out.
RunOfBox(box) ==
    CASE box[1] = "run" -> box[2]
      [] box[1] = "dispatch" -> RunOf[box[2]]
      [] OTHER -> bindings[box[2]].run

\* Adds a message to each box of the function `to` from 1..k, in that order.
Add(k, to, from, kind, run) ==
    /\ seq.msg + k <= MaxMessages
    /\ seq' = [seq EXCEPT !.msg = @ + k]
    /\ messages' = Extended(messages, (seq.msg + 1)..(seq.msg + k),
           [i \in (seq.msg + 1)..(seq.msg + k) |->
               [to |-> to[i - seq.msg], from |-> from, kind |-> kind,
                run |-> run[i - seq.msg]]])
    /\ UNCHANGED <<runs, bindings, deliveries, work, live, waits, resets, strayed>>

\* A Run that is there, a dispatch that has not finished (one cut short by a
\* restart has not), or an open terminal.
Routed(box) ==
    CASE box[1] = "run" -> box[2] \in runs
      [] box[1] = "dispatch" -> work[box[2]] \in {"open", "cut"}
      [] OTHER -> box[2] \in live

\* send, and ask, which sends a question.
Send(p, box, kind) ==
    /\ p \in live /\ Routed(box)
    /\ Add(1, <<box>>, p, kind, <<RunOfBox(box)>>)

\* post to a group: a copy for each of k agent terminals, never the sender's.
SendGroup(p, k, to, kind) ==
    /\ p \in live /\ kind # "question"
    /\ \A i \in 1..k : to[i] \in live \ {p}
    /\ \A i, j \in 1..k : to[i] = to[j] => i = j
    /\ Add(k, [i \in 1..k |-> TermBox(to[i])], p, kind,
           [i \in 1..k |-> bindings[to[i]].run])

\* reply to a message in the caller's boxes, of its own, or of its Run.
Reply(p, i) ==
    /\ p \in live /\ i \in DOMAIN messages
    /\ \/ messages[i].to \in BoxesOf(TermBox(p))
       \/ messages[i].from = p
       \/ messages[i].run # NoRun /\ ActsIn(p, messages[i].run)
    /\ Add(1, <<TermBox(messages[i].from)>>, p, "status", <<messages[i].run>>)

-----------------------------------------------------------------------------
(* check.                                                                  *)

NoAck == 0

Acked(dels) == UNION {dels[n].messages : n \in {m \in DOMAIN dels : dels[m].acked}}
Taken(dels) == UNION {dels[n].messages : n \in DOMAIN dels}

\* The messages the check c wants: of its mailboxes and its types.
Wanted(c) ==
    {i \in DOMAIN messages : messages[i].to \in BoxesOf(c.of)
                              /\ messages[i].kind \in c.types}

\* Mutants: only what this reader was given is taken; newest mail first.
FreshForReader(c, dels) ==
    Wanted(c) \ UNION {dels[n].messages : n \in {m \in DOMAIN dels : dels[m].reader = c.of}}
FreshNewestFirst(c, dels) ==
    {i \in Wanted(c) \ Taken(dels) : \A j \in Wanted(c) : j <= i}

FreshMail(c, dels) == Wanted(c) \ Taken(dels)

\* The batches c may repeat: not acknowledged, its reader's, and every message
\* still there and wanted.
Repeats(c, dels) ==
    {n \in DOMAIN dels : /\ ~dels[n].acked /\ dels[n].reader = c.of
                         /\ dels[n].messages \subseteq Wanted(c)}

AfterAck(ack) ==
    [n \in DOMAIN deliveries |->
        IF n = ack THEN [deliveries[n] EXCEPT !.acked = TRUE] ELSE deliveries[n]]

\* Only a plain check with nothing to repeat and something fresh makes a batch.
NewBatch(c, dels) ==
    IF c.mode = "next" /\ Repeats(c, dels) = {} THEN FreshMail(c, dels) ELSE {}

\* Does the check answer with any message?
Answers(c, dels) ==
    CASE c.mode = "all"    -> Wanted(c) # {}
      [] c.mode = "unread" -> Wanted(c) \ Acked(dels) # {}
      [] OTHER -> Repeats(c, dels) # {} \/ FreshMail(c, dels) # {}

\* Mail::check, once it is let through.
Look(c, ack) ==
    LET acked == AfterAck(ack)
        batch == NewBatch(c, acked)
    IN IF batch = {} THEN deliveries' = acked /\ UNCHANGED seq
       ELSE /\ seq' = [seq EXCEPT !.dlv = @ + 1]
            /\ deliveries' = Extended(acked, {seq.dlv + 1},
                   [n \in {seq.dlv + 1} |->
                       [reader |-> c.of, messages |-> batch, acked |-> FALSE]])

\* A delivery is acknowledged only by its own reader.
MayAck(of, ack) ==
    ack = NoAck \/ (ack \in DOMAIN deliveries /\ deliveries[ack].reader = of)

\* A check; with wait and no message to answer it stays, fenced by the epoch.
Check(c, ack, wait) ==
    /\ c.pane \in live /\ MayRead(c.pane, c.of) /\ MayAck(c.of, ack)
    /\ Look(c, ack)
    /\ IF wait /\ ~Answers(c, AfterAck(ack))
       THEN /\ Cardinality(waits) < MaxWaits
            /\ waits' = waits \cup
                  {[check |-> c, fence |-> bindings[c.pane].epoch, since |-> "same"]}
       ELSE UNCHANGED waits
    /\ UNCHANGED <<runs, bindings, messages, work, live, resets, strayed>>

Fenced(w) == w.fence # bindings[w.check.pane].epoch

\* Mutant: the client takes "fenced" for "nothing yet".
PollPastFence(w) ==
    /\ w \in waits /\ ~Fenced(w)
    /\ IF ~MayRead(w.check.pane, w.check.of)
       THEN waits' = waits \ {w} /\ UNCHANGED <<deliveries, seq, strayed>>
       ELSE /\ Look(w.check, NoAck)
            /\ Answers(w.check, deliveries)
            /\ waits' = waits \ {w}
            /\ UNCHANGED strayed
    /\ UNCHANGED <<runs, bindings, messages, work, live, resets>>

\* A wait asks again: refused or fenced it ends, with an answer it ends,
\* without one it goes on.
Poll(w) ==
    /\ w \in waits
    /\ IF ~MayRead(w.check.pane, w.check.of) \/ Fenced(w)
       THEN waits' = waits \ {w} /\ UNCHANGED <<deliveries, seq, strayed>>
       ELSE /\ Look(w.check, NoAck)
            /\ Answers(w.check, deliveries)
            /\ waits' = waits \ {w}
            /\ strayed' = IF w.since = "moved"
                          THEN strayed \cup NewBatch(w.check, deliveries) ELSE strayed
    /\ UNCHANGED <<runs, bindings, messages, work, live, resets>>

TimesOut(w) ==
    /\ w \in waits
    /\ waits' = waits \ {w}
    /\ UNCHANGED <<mail, work, live, resets, strayed>>

-----------------------------------------------------------------------------
(* reset, and what the rest of Kolux does to what the mailbox reads.        *)

Emptied == messages' = [i \in {} |-> 0] /\ deliveries' = [n \in {} |-> 0]

FromOne == seq' = [run |-> 0, msg |-> 0, dlv |-> 0]

ResetMessages ==
    /\ resets < MaxResets /\ resets' = resets + 1
    /\ Emptied
    /\ UNCHANGED <<runs, bindings, seq, work, live, waits, strayed>>

\* No dispatch of before is known any more; its id is never given again.
Forgotten == [d \in Dispatches |-> IF work[d] = "none" THEN "none" ELSE "over"]

\* Tasks and dispatches go, the mail stays.
ResetTasks ==
    /\ resets < MaxResets /\ resets' = resets + 1
    /\ work' = Forgotten
    /\ UNCHANGED <<mail, live, waits, strayed>>

\* Mutant: the numbers start over.
ResetAllFromOne ==
    /\ resets < MaxResets /\ resets' = resets + 1
    /\ Emptied /\ FromOne
    /\ runs' = {}
    /\ bindings' = [p \in Panes |-> [run |-> NoRun, epoch |-> 0]]
    /\ work' = Forgotten
    /\ waits' = {[w EXCEPT !.since = "wiped"] : w \in waits}
    /\ UNCHANGED <<live, strayed>>

\* The bindings go with their epochs; the numbers count on.
ResetAll ==
    /\ resets < MaxResets /\ resets' = resets + 1
    /\ Emptied
    /\ runs' = {}
    /\ bindings' = [p \in Panes |-> [run |-> NoRun, epoch |-> 0]]
    /\ work' = Forgotten
    /\ waits' = {[w EXCEPT !.since = "wiped"] : w \in waits}
    /\ UNCHANGED <<seq, live, strayed>>

\* A task of a Run is handed to the agent in a pane that has none.
DispatchOpens(d) ==
    /\ work[d] = "none" /\ RunOf[d] \in runs
    /\ WorkerOf[d] \in live /\ Own(WorkerOf[d]) = {}
    /\ work' = [work EXCEPT ![d] = "open"]
    /\ UNCHANGED <<mail, live, waits, resets, strayed>>

DispatchEnds(d) ==
    /\ work[d] \in {"open", "cut"}
    /\ work' = [work EXCEPT ![d] = "over"]
    /\ UNCHANGED <<mail, live, waits, resets, strayed>>

\* The terminal closes, and with it the commands that wait in it.
TerminalCloses(p) ==
    /\ p \in live
    /\ live' = live \ {p}
    /\ waits' = {w \in waits : w.check.pane # p}
    /\ UNCHANGED <<mail, work, resets, strayed>>

\* Kolux ends and starts again.  What is stored stays; terminals get the same
\* handles again, and no terminal is a worker's any more.
Restart ==
    /\ live' = Panes
    /\ waits' = {}
    /\ work' = [d \in Dispatches |-> IF work[d] = "open" THEN "cut" ELSE work[d]]
    /\ UNCHANGED <<mail, resets, strayed>>

-----------------------------------------------------------------------------
AnyLetter(l) ==
    IF l.box = Group
    THEN \E k \in 1..MaxMessages : \E to \in [1..k -> Panes] :
            SendGroup(l.from, k, to, l.kind)
    ELSE Send(l.from, l.box, l.kind)

Next ==
    \/ \E p \in Coordinators : RunCreate(p) \/ \E r \in RunIds : RunUse(p, r)
    \/ \E p \in Panes, i \in DOMAIN messages : Reply(p, i)
    \/ \E p \in Panes : TerminalCloses(p)
    \/ \E l \in Letters : AnyLetter(l)
    \/ \E c \in Checks, ack \in DOMAIN deliveries \cup {NoAck}, wait \in BOOLEAN :
            Check(c, ack, wait)
    \/ \E w \in waits : Poll(w) \/ TimesOut(w)
    \/ ResetTasks \/ ResetMessages \/ ResetAll
    \/ \E d \in Dispatches : DispatchOpens(d) \/ DispatchEnds(d)
    \/ Restart

Spec == Init /\ [][Next]_vars

\* A wait asks again every half second until it ends.
PollFor(c) == \E w \in waits : w.check = c /\ Poll(w)

FairSpec == Spec /\ \A c \in Checks : WF_vars(PollFor(c))

-----------------------------------------------------------------------------
(* What must hold.                                                         *)

\* No message is in two batches, whoever reads the box it is in: two panes of
\* one Run, the Run's own reader and a pane with a filter never both get it.
GivenOnce ==
    \A m, n \in DOMAIN deliveries :
        deliveries[m].messages \cap deliveries[n].messages # {} => m = n

\* Of two messages of one kind in one box the later is never given before the
\* earlier.
ArrivalOrder ==
    \A i, j \in DOMAIN messages, n \in DOMAIN deliveries :
        /\ i < j /\ messages[i].to = messages[j].to
        /\ messages[i].kind = messages[j].kind /\ j \in deliveries[n].messages
        => \E m \in DOMAIN deliveries : m <= n /\ i \in deliveries[m].messages

\* A check that began to wait before its pane was tied to another Run takes
\* nothing afterwards (unless the bindings were wiped in between).
FencedOff == strayed = {}

\* The mailbox keeps what MailDelivery promises.
Promise == INSTANCE MailDelivery WITH
    top     <- seq.msg,
    fresh   <- DOMAIN messages \ Taken(deliveries),
    batches <- {deliveries[n].messages : n \in {m \in DOMAIN deliveries : ~deliveries[m].acked}},
    settled <- Acked(deliveries)

KeepsItsPromise == Promise!Spec

\* A wait whose mail is there, or that is fenced off, ends.
Due(c) == \E w \in waits : w.check = c /\ (Fenced(w) \/ Answers(c, deliveries))

WaitsEnd == \A c \in Checks : Due(c) ~> ~Due(c)

=============================================================================
