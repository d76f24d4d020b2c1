---------------------------- MODULE TerminalLink ----------------------------
(***************************************************************************)
(* The background terminal service, which keeps terminals running while    *)
(* no window is open, and the window that starts terminals in it, draws    *)
(* their output, saves it for each pane and takes them back after a quit   *)
(* or a crash.                                                             *)
(* Sources: src-tauri/src/pty_service.rs, src-tauri/src/pty_link.rs,       *)
(* src-tauri/src/terminal.rs (spawn, kill, use_service, adopt, host,       *)
(* let_go), src-tauri/src/pty.rs (the pump and the waiter).                *)
(*                                                                         *)
(* Output comes in chunks; the n-th chunk of a terminal is n, and n is the *)
(* service's output count after it.  A chunk stands for a byte wherever    *)
(* the code counts or compares bytes, and Text says what it reads like:    *)
(* two chunks may read alike.  A terminal's number is never used again: it *)
(* stands for the service's run and the number in that run.  Panes whose   *)
(* terminals run in the window itself are not modelled.                    *)
(***************************************************************************)
EXTENDS Integers, Sequences, FiniteSets, SequencesExt

CONSTANTS
    Panes,      \* the window's panes
    Text,       \* by <<terminal, chunk>>, what the chunk reads like
    LineBreak,  \* what a line break reads like
    TailKeep,   \* HISTORY_KEEP: the newest chunks the service keeps, and what
                \* a compaction leaves of a pane's saved output
    HistoryCap, \* HISTORY_CAP: what a pane's saved output holds at most
    Probe,      \* PROBE: the end of the saved output that is looked for
    LeastOverlap, \* LEAST_OVERLAP: the least of it that counts at a tail's start
    EarlyCap,   \* EARLY_CAP: chunks held for a terminal without handlers
    MaxTerms,   \* bound: terminals asked for
    MaxOutput,  \* bound: chunks of all terminals
    MaxEvents   \* bound: panes opened and closed, windows, ends of the service
                \* and looks of Manage Sessions, together

ASSUME BoundsAreNaturals ==
    /\ {TailKeep, EarlyCap, HistoryCap, Probe, LeastOverlap} \subseteq Nat \ {0}
    /\ TailKeep <= HistoryCap
    /\ {MaxTerms, MaxOutput, MaxEvents} \subseteq Nat

VARIABLES
    up,       \* a service runs
    terms,    \* by number, the terminals asked for
    wire,     \* events on their way to the attached window
    saved,    \* by pane, its saved output: chunks of terminals
    seenFile, \* terminals-seen.json: by terminal, the count drawn at a quit
    phase,    \* how far the window is
    window,   \* its number, which is its mark
    rows,     \* by terminal still to adopt, the count of its attach row
    seen,     \* what it took from seenFile
    handlers, \* by terminal, its Handler
    early,    \* by terminal, events held because it has no handlers
    closed,   \* the link knows that the service is gone
    found,    \* <<terminal, event>> the reader has in its hands
    due,      \* terminals whose handlers are to be flushed
    held,     \* terminals in the window's registry
    drawn,    \* by terminal, the count of what the window drew
    opener,   \* the terminal a pane waits for, which holds the registry; or None
    killing,  \* terminals of closed panes that are still to be ended
    cleaner,  \* what Manage Sessions is ending
    spent,    \* what MaxEvents bounds
    handed,   \* history: by terminal, the events this window's handlers ran
    lossy,    \* history: terminals whose output was dropped before a window had it
    unplaced, \* history: terminals whose output was saved where nothing said how
              \* far the saved output goes, or to a file that was replaced
    missing,  \* history: terminals with output that no window could add
    savedTo,  \* history: by terminal, the last chunk put in its pane's saved output
    cut       \* history: panes whose saved output was compacted

service == <<up, terms, wire>>
link == <<handlers, early, closed, found, due>>
registry == <<held, drawn, opener>>
windowVars == <<phase, window, rows, seen, killing>>
savings == <<unplaced, missing, savedTo, cut>>
history == <<handed, lossy, savings>>
vars == <<service, saved, seenFile, windowVars, link, registry, cleaner, spent, history>>

None == 0
Exit == 0
Terms == 1..MaxTerms
Chunks == 1..MaxOutput
Events == {Exit} \cup Chunks
Phases == {"off", "attached", "adopting", "flushing", "linked", "quitting"}
Smaller(a, b) == IF a < b THEN a ELSE b
Larger(a, b) == IF a > b THEN a ELSE b

\* How far a terminal is: asked for, its program running, or over before the
\* service stored it (short), stored, removed, and over; or it never started.
Stages == {"asked", "starting", "short", "kept", "killed", "over", "failed"}

\* What the window keeps of a terminal's handlers.  `todo` is what runs now,
\* `by` whose thread runs it, and `over` says that the exit handler ran.
NoHandler == [listed |-> FALSE, backlog |-> <<>>, todo |-> <<>>, by |-> "no",
              over |-> FALSE]
NoLook == [stage |-> "no", owned |-> {}, of |-> None]
Nothing == <<>>

LTypeOK ==
    /\ up \in BOOLEAN /\ phase \in Phases /\ closed \in BOOLEAN
    /\ terms \in Seq([pane: Panes, mark: 1..MaxEvents, stage: Stages, count: 0..MaxOutput])
    /\ wire \in Seq(({None} \cup Terms) \X Events)
    /\ saved \in [Panes -> Seq(Terms \X Chunks)]
    /\ DOMAIN seenFile \cup DOMAIN rows \cup DOMAIN seen \subseteq DOMAIN terms
    /\ window \in 0..MaxEvents
    /\ handlers \in [Terms -> [listed: BOOLEAN, backlog: Seq(Events), todo: Seq(Events),
                               by: {"no", "reader", "flush"}, over: BOOLEAN]]
    /\ early \in [Terms -> Seq(Events)]
    /\ found \subseteq Terms \X Events
    /\ due \cup held \cup killing \cup lossy \cup unplaced \cup missing \subseteq DOMAIN terms
    /\ savedTo \in [Terms -> 0..MaxOutput] /\ cut \subseteq Panes
    /\ drawn \in [Terms -> 0..MaxOutput]
    /\ opener \in {None} \cup DOMAIN terms
    /\ phase = "off" => wire = <<>> /\ held = {} /\ opener = None

LInit ==
    /\ up = FALSE /\ terms = <<>> /\ wire = <<>>
    /\ saved = [p \in Panes |-> <<>>] /\ seenFile = Nothing
    /\ phase = "off" /\ window = 0 /\ rows = Nothing /\ seen = Nothing /\ killing = {}
    /\ handlers = [t \in Terms |-> NoHandler] /\ early = [t \in Terms |-> <<>>]
    /\ closed = FALSE /\ found = {} /\ due = {}
    /\ held = {} /\ drawn = [t \in Terms |-> 0] /\ opener = None
    /\ cleaner = NoLook /\ spent = 0
    /\ handed = [t \in Terms |-> <<>>] /\ lossy = {}
    /\ unplaced = {} /\ missing = {} /\ savedTo = [t \in Terms |-> 0] /\ cut = {}

-----------------------------------------------------------------------------
(* The service.                                                            *)

Spend == spent < MaxEvents /\ spent' = spent + 1

\* The terminals of the service in one of `stages`.
At(stages) == {t \in DOMAIN terms : terms[t].stage \in stages}
Put(t, stage) == terms' = [terms EXCEPT ![t].stage = stage]

\* Mutant: events are queued for a window that is gone.
BroadcastToAll(t, event) == wire' = Append(wire, <<t, event>>)

\* broadcast: an attached window gets the event after all that it got before.
Broadcast(t, event) ==
    wire' = IF phase = "off" THEN wire ELSE Append(wire, <<t, event>>)

\* spawn, as the request comes in: the terminal has a count and a tail before
\* its program starts, and the program starts or does not.
Starts(t) ==
    /\ up /\ t \in At({"asked"}) /\ (Put(t, "starting") \/ Put(t, "failed"))
    /\ UNCHANGED <<up, wire, saved, seenFile, windowVars, link, registry, cleaner, spent, history>>

\* spawn, at its end: a program that is over by now is not kept.
Stored(t) ==
    /\ up
    /\ \/ t \in At({"starting"}) /\ Put(t, "kept")
       \/ t \in At({"short"}) /\ Put(t, "over")
    /\ UNCHANGED <<up, wire, saved, seenFile, windowVars, link, registry, cleaner, spent, history>>

Printed == FoldSeq(LAMBDA x, n : x.count + n, 0, terms)

\* on_output: a chunk is counted and sent while the terminal has a tail.  What
\* the pump reads after the waiter removed the tail is dropped.
Pumps(t) ==
    /\ t \in At({"starting", "kept", "killed"})
    /\ terms[t].count < MaxOutput /\ Printed < MaxOutput
    /\ terms' = [terms EXCEPT ![t].count = @ + 1]
    /\ Broadcast(t, terms[t].count + 1)
    /\ UNCHANGED <<up, saved, seenFile, windowVars, link, registry, cleaner, spent, history>>

\* on_exit: the program ended, by itself or because its terminal was killed.
Exits(t) ==
    /\ \/ t \in At({"starting"}) /\ Put(t, "short")
       \/ t \in At({"kept", "killed"}) /\ Put(t, "over")
    /\ Broadcast(t, Exit)
    /\ UNCHANGED <<up, saved, seenFile, windowVars, link, registry, cleaner, spent, history>>

\* kill: a terminal that is kept is removed, and its program is ended.
Killed(t) == terms' = [terms EXCEPT ![t].stage = IF up /\ @ = "kept" THEN "killed" ELSE @]

\* The service ends with all its terminals.  An attached window gets some of
\* what was on its way, and then sees the connection close.
ServiceEnds ==
    /\ up /\ Spend /\ up' = FALSE
    /\ terms' = [t \in DOMAIN terms |->
                    [terms[t] EXCEPT !.stage =
                        IF @ \in {"kept", "killed", "over"} THEN "over" ELSE "failed"]]
    /\ IF phase = "off" THEN wire' = wire
       ELSE \E n \in 0..Len(wire) : wire' = Append(SubSeq(wire, 1, n), <<None, Exit>>)
    /\ UNCHANGED <<saved, seenFile, windowVars, link, registry, cleaner, history>>

-----------------------------------------------------------------------------
(* A window comes up and takes the service's terminals back.               *)

\* ensure and attach: a service is started when none runs, and what it keeps is
\* told under one lock with the registration, so events follow the rows.
Connects ==
    /\ phase = "off" /\ Spend
    /\ up' = TRUE /\ phase' = "attached" /\ window' = window + 1
    /\ rows' = [t \in At({"kept"}) |-> terms[t].count]
    /\ UNCHANGED <<terms, wire, saved, seenFile, seen, killing, link, registry, cleaner,
                   history>>

\* take_seen: the record of the last quit is read once.
SeenTaken == seen' = seenFile /\ seenFile' = Nothing

\* adopt begins: the registry is locked until all rows are taken back.
TakesSeen ==
    /\ phase = "attached" /\ phase' = "adopting" /\ SeenTaken
    /\ UNCHANGED <<service, saved, window, rows, killing, link, registry, cleaner, spent, history>>

\* A session leaves the registry, and its count with it.
Drops(t) == held' = held \ {t} /\ drawn' = [drawn EXCEPT ![t] = 0]

RegistryFree == opener = None /\ phase # "adopting"

-----------------------------------------------------------------------------
(* A pane's saved output.                                                  *)

SavedBy(t) == saved[terms[t].pane]

\* trim_history: the newest of it, from after the first line break in that.
Breaks(s) == {i \in Len(s) - TailKeep + 1..Len(s) : Text[s[i]] = LineBreak}
Compacted(s) ==
    SubSeq(s, 1 + (IF Breaks(s) = {} THEN Len(s) - TailKeep ELSE Min(Breaks(s))), Len(s))

\* append: past its cap the file is replaced by its newest part.
With(t, chunks) == SavedBy(t) \o chunks
Full(s) == Len(s) > HistoryCap
Saves(t, chunks) ==
    LET s == With(t, chunks) IN
    /\ saved' = [saved EXCEPT ![terms[t].pane] = IF Full(s) THEN Compacted(s) ELSE s]
    /\ savedTo' = [savedTo EXCEPT ![t] = IF chunks = <<>> THEN @ ELSE Last(chunks)[2]]
    /\ cut' = cut \cup {p \in {terms[t].pane} : Full(s)}

\* Another terminal of the pane has the replaced file open, and goes on writing
\* to what is no more.
Strands(t, chunks) ==
    {u \in held \ {t} : Full(With(t, chunks)) /\ terms[u].pane = terms[t].pane}

\* Of the c chunks that t has printed the service's tail begins after this one.
TailStart(c) == c - Smaller(c, TailKeep)

\* The first n of the tail up to chunk k read like the end of the saved output.
ReadsAlike(t, k, n) ==
    \A i \in 0..n - 1 : Text[<<t, k - i>>] = Text[SavedBy(t)[Len(SavedBy(t)) - i]]

\* after_saved: where the tail holds the end of the saved output, and where the
\* tail's own start is the end of that.
ProbeLength(t) == Smaller(Probe, Len(SavedBy(t)))
Ends(t, c) ==
    {k \in TailStart(c) + ProbeLength(t)..c : SavedBy(t) # <<>> /\ ReadsAlike(t, k, ProbeLength(t))}
Overlaps(t, c) ==
    {k \in TailStart(c) + 1..c :
        LET n == k - TailStart(c) IN
        n <= ProbeLength(t) /\ ReadsAlike(t, k, n) /\ (k = c \/ n >= LeastOverlap)}

\* Mutant: the first place in the tail counts.
FirstPlace(t, c) ==
    IF t \in DOMAIN seen THEN Larger(seen[t], TailStart(c))
    ELSE IF Ends(t, c) # {} THEN Min(Ends(t, c))
    ELSE Max({TailStart(c)} \cup Overlaps(t, c))

\* missed: where t's pane stopped.  After a quit at the count it recorded, else
\* at the last place in the tail that reads like the end of the saved output.
StoppedAt(t, c) ==
    IF t \in DOMAIN seen THEN Larger(seen[t], TailStart(c))
    ELSE Max({TailStart(c)} \cup IF Ends(t, c) # {} THEN Ends(t, c) ELSE Overlaps(t, c))

\* What the pane's saved output lacks of what t has printed.
Missed(t, c) == [i \in 1..Larger(c - StoppedAt(t, c), 0) |-> <<t, StoppedAt(t, c) + i>>]

\* Some of t's output that was saved is in the tail, and after a crash nothing
\* says so: the saved output does not end with it, or with too little of it.
CannotBePlaced(t, c) ==
    /\ t \notin DOMAIN seen /\ savedTo[t] > TailStart(c)
    /\ LET s == SavedBy(t)
           n == Smaller(ProbeLength(t), savedTo[t] - TailStart(c))
       IN \/ n = 0
          \/ \E i \in 0..n - 1 : s[Len(s) - i] # <<t, savedTo[t] - i>>
          \/ n # ProbeLength(t) /\ n < LeastOverlap /\ savedTo[t] # c

\* More was missed than the tail holds, or what was missed repeats the end of the
\* saved output.
LeavesOut(t, c) ==
    \/ savedTo[t] < TailStart(c)
    \/ t \notin DOMAIN seen /\ \E k \in Ends(t, c) \cup Overlaps(t, c) : k > savedTo[t]

-----------------------------------------------------------------------------
(* The window takes the service's terminals back.                          *)

\* Mutant: a terminal that comes after the connection closed waits for its exit.
RegisteredQuietly(t) == [NoHandler EXCEPT !.listed = TRUE, !.backlog = early[t]]

\* register: what was held for the terminal comes first, and its end follows
\* when the connection is already gone.
Registered(t) ==
    [NoHandler EXCEPT !.listed = TRUE,
                      !.backlog = early[t] \o (IF closed THEN <<Exit>> ELSE <<>>)]

Register(t) ==
    /\ handlers' = [handlers EXCEPT ![t] = Registered(t)]
    /\ early' = [early EXCEPT ![t] = <<>>]

\* adopt: one row.
Adopts(t) ==
    /\ phase = "adopting" /\ t \in DOMAIN rows /\ \A u \in DOMAIN rows : t <= u
    /\ LET c == rows[t] IN
       /\ Saves(t, Missed(t, c))
       /\ unplaced' = unplaced \cup Strands(t, Missed(t, c)) \cup {u \in {t} : CannotBePlaced(u, c)}
       /\ missing' = missing \cup {u \in {t} : LeavesOut(u, c)}
       /\ drawn' = [drawn EXCEPT ![t] = c]
    /\ rows' = [u \in DOMAIN rows \ {t} |-> rows[u]]
    /\ held' = held \cup {t}
    /\ Register(t)
    /\ UNCHANGED <<service, seenFile, phase, window, seen, killing, closed, found, due, opener,
                   cleaner, spent, handed, lossy>>

\* adopt ends: the registry is free, and what was held is flushed.
AdoptsNoMore ==
    /\ phase = "adopting" /\ rows = Nothing
    /\ phase' = "flushing" /\ due' = held
    /\ UNCHANGED <<service, saved, seenFile, window, rows, seen, killing, handlers, early, closed,
                   found, registry, cleaner, spent, history>>

\* From here on the window's panes start in the service.
Linked ==
    /\ phase = "flushing" /\ due = {} /\ phase' = "linked"
    /\ UNCHANGED <<service, saved, seenFile, window, rows, seen, killing, link, registry, cleaner,
                   spent, history>>

-----------------------------------------------------------------------------
(* The link hands events to the handlers.                                  *)

InHand(t) == \E e \in Events : <<t, e>> \in found
ReaderFree == found = {} /\ \A t \in Terms : handlers[t].by # "reader"

\* hold: of the events held for a terminal the oldest output goes first.
Outputs(events) == SelectSeq(events, LAMBDA e : e # Exit)
Overflows(events) == Len(Outputs(events)) > EarlyCap
Hold(events) == IF Overflows(events) THEN Tail(events) ELSE events

\* deliver: an event of a terminal with handlers is taken to them, an exit takes
\* them off the list, and an event of any other terminal is held.
Deliver(t, e) ==
    IF phase = "quitting" THEN UNCHANGED <<handlers, found, early, lossy>>
    ELSE IF handlers[t].listed
    THEN /\ found' = {<<t, e>>}
         /\ handlers' = [handlers EXCEPT ![t].listed = e # Exit]
         /\ UNCHANGED <<early, lossy>>
    ELSE LET events == Append(early[t], e) IN
         /\ early' = [early EXCEPT ![t] = Hold(events)]
         /\ lossy' = lossy \cup {u \in {t} : Overflows(events)}
         /\ UNCHANGED <<handlers, found>>

Reads ==
    /\ ReaderFree /\ wire # <<>> /\ Head(wire)[1] # None
    /\ wire' = Tail(wire)
    /\ Deliver(Head(wire)[1], Head(wire)[2])
    /\ UNCHANGED <<up, terms, saved, seenFile, windowVars, closed, due, registry, cleaner, spent, handed,
                   savings>>

\* close_all: every terminal with handlers has ended.
ReadsTheEnd ==
    /\ ReaderFree /\ wire # <<>> /\ Head(wire)[1] = None
    /\ wire' = <<>> /\ closed' = TRUE
    /\ found' = {<<t, Exit>> : t \in {u \in Terms : handlers[u].listed}}
    /\ handlers' = [t \in Terms |-> [handlers[t] EXCEPT !.listed = FALSE]]
    /\ UNCHANGED <<up, terms, saved, seenFile, windowVars, early, due, registry, cleaner, spent, history>>

\* Mutant: an event is handed on before what was held.
TakenFirst(h, e) == [h EXCEPT !.todo = <<e>> \o h.backlog, !.backlog = <<>>, !.by = "reader"]

\* The reader has the handler's lock: what is held comes before the event.
Taken(h, e) == [h EXCEPT !.todo = Append(h.backlog, e), !.backlog = <<>>, !.by = "reader"]

Hands(t) ==
    \E e \in Events :
        /\ <<t, e>> \in found /\ handlers[t].by = "no"
        /\ found' = found \ {<<t, e>>}
        /\ handlers' = [handlers EXCEPT ![t] = Taken(@, e)]
        /\ UNCHANGED <<service, saved, seenFile, windowVars, early, closed, due, registry, cleaner,
                       spent, history>>

\* flush, which finds nothing to do, or takes the handler's lock.
Flushes(t) ==
    /\ t \in due /\ handlers[t].by = "no"
    /\ IF handlers[t].listed /\ handlers[t].backlog # <<>>
       THEN /\ handlers' = [handlers EXCEPT ![t].todo = handlers[t].backlog,
                                            ![t].backlog = <<>>, ![t].by = "flush"]
            /\ UNCHANGED due
       ELSE due' = due \ {t} /\ UNCHANGED handlers
    /\ UNCHANGED <<service, saved, seenFile, windowVars, early, closed, found, registry, cleaner,
                   spent, history>>

\* What an event does in the registry, which its handler locks: a chunk is
\* counted and saved, an exit removes the session.
Booked(t, e) ==
    IF e = Exit THEN Drops(t) /\ UNCHANGED <<saved, savings>>
    ELSE IF t \in held
    THEN /\ drawn' = [drawn EXCEPT ![t] = @ + 1]
         /\ Saves(t, <<<<t, e>>>>)
         /\ unplaced' = unplaced \cup Strands(t, <<<<t, e>>>>)
         /\ UNCHANGED <<held, missing>>
    ELSE UNCHANGED <<held, drawn, saved, savings>>

\* Handler::run for the next event, and the end of the run after the last.
Runs(t) ==
    LET h == handlers[t]
        e == Head(h.todo)
        over == h.over \/ e = Exit
    IN /\ h.todo # <<>> /\ RegistryFree
       /\ IF h.over /\ e = Exit THEN UNCHANGED <<held, drawn, saved, handed, savings>>
          ELSE Booked(t, e) /\ handed' = [handed EXCEPT ![t] = Append(@, e)]
       /\ IF Len(h.todo) > 1
          THEN /\ handlers' = [handlers EXCEPT ![t].todo = Tail(@), ![t].over = over]
               /\ UNCHANGED due
          ELSE /\ handlers' = [handlers EXCEPT ![t] =
                      IF over /\ ~InHand(t) THEN NoHandler
                      ELSE [h EXCEPT !.todo = <<>>, !.by = "no", !.over = over,
                                     !.listed = @ /\ ~over]]
               /\ due' = IF h.by = "flush" THEN due \ {t} ELSE due
       /\ UNCHANGED <<service, seenFile, windowVars, early, closed, found, opener, cleaner,
                      spent, lossy>>

-----------------------------------------------------------------------------
(* Panes.                                                                  *)

\* spawn: the pane's terminal is asked for under the registry's lock.
Opens(p) ==
    /\ phase = "linked" /\ ~closed /\ RegistryFree
    /\ Spend /\ Len(terms) < MaxTerms /\ \A t \in held : terms[t].pane # p
    /\ terms' = Append(terms, [pane |-> p, mark |-> window, 
                              stage |-> IF up THEN "asked" ELSE "failed", count |-> 0])
    /\ opener' = Len(terms) + 1
    /\ UNCHANGED <<up, wire, saved, seenFile, windowVars, link, held, drawn, cleaner, history>>

\* The service answered: the window holds the terminal from here on.
Answered ==
    /\ opener \in At({"kept", "killed", "over"})
    /\ held' = held \cup {opener} /\ due' = due \cup {opener} /\ opener' = None
    /\ Register(opener)
    /\ UNCHANGED <<service, saved, seenFile, windowVars, closed, found, drawn, cleaner, spent, history>>

\* The service refused, its connection closed, or it did not answer in time:
\* the pane starts in the window, and the service may still have a terminal.
GivesUp ==
    /\ opener # None /\ opener' = None
    /\ UNCHANGED <<service, saved, seenFile, windowVars, link, held, drawn, cleaner, spent, history>>

\* kill: the pane's terminal is off the registry first, and then ended.
Closes(t) ==
    /\ phase = "linked" /\ t \in held /\ RegistryFree
    /\ Spend /\ Drops(t) /\ killing' = killing \cup {t}
    /\ UNCHANGED <<service, saved, seenFile, phase, window, rows, seen, link, opener, cleaner,
                   history>>

Kills(t) ==
    /\ t \in killing /\ killing' = killing \ {t} /\ Killed(t)
    /\ UNCHANGED <<up, wire, saved, seenFile, phase, window, rows, seen, link, registry, cleaner, spent,
                   history>>

-----------------------------------------------------------------------------
(* Manage Sessions ends a terminal that no window owns.                    *)

\* host: the terminals this window owns.
LooksAtOwn ==
    /\ phase = "linked" /\ RegistryFree /\ cleaner = NoLook /\ Spend
    /\ cleaner' = [stage |-> "owned", owned |-> held, of |-> None]
    /\ UNCHANGED <<service, saved, seenFile, windowVars, link, registry, history>>

\* Mutant: the mark of this window's own starts is left out.
UnownedByIds == At({"kept"}) \ cleaner.owned

\* host_sessions: what the service keeps, without what this window owns or has
\* just asked for.
Unowned == {t \in At({"kept"}) \ cleaner.owned : terms[t].mark # window}

\* end_unowned reads the service's list again, and then ends what it was asked to.
LooksAtList(t) ==
    /\ up /\ cleaner.stage = "owned" /\ t \in Unowned
    /\ cleaner' = [cleaner EXCEPT !.stage = "listed", !.of = t]
    /\ UNCHANGED <<service, saved, seenFile, windowVars, link, registry, spent, history>>

EndsUnowned ==
    /\ cleaner.stage = "listed" /\ cleaner' = NoLook /\ Killed(cleaner.of)
    /\ UNCHANGED <<up, wire, saved, seenFile, windowVars, link, registry, spent, history>>

-----------------------------------------------------------------------------
(* The window ends.                                                        *)

\* With the process goes all it had in memory, and its connection.
Gone ==
    /\ phase' = "off" /\ rows' = Nothing /\ seen' = Nothing /\ killing' = {}
    /\ handlers' = [t \in Terms |-> NoHandler] /\ early' = [t \in Terms |-> <<>>]
    /\ closed' = FALSE /\ found' = {} /\ due' = {}
    /\ held' = {} /\ drawn' = [t \in Terms |-> 0] /\ opener' = None
    /\ cleaner' = NoLook /\ wire' = <<>> /\ handed' = [t \in Terms |-> <<>>]
    /\ UNCHANGED <<up, terms, window, saved, spent, lossy, savings>>

\* detach: the window quits, and nothing more is handed on.
Detaches ==
    /\ phase = "linked" /\ phase' = "quitting"
    /\ handlers' = [t \in Terms |-> [handlers[t] EXCEPT !.listed = FALSE]]
    /\ early' = [t \in Terms |-> <<>>]
    /\ UNCHANGED <<service, saved, seenFile, window, rows, seen, killing, closed, found, due,
                   registry, cleaner, spent, history>>

\* let_go: the counts of what was drawn are written for the next window.
LetsGo ==
    /\ phase = "quitting" /\ RegistryFree
    /\ seenFile' = IF held = {} THEN seenFile ELSE [t \in held |-> drawn[t]]
    /\ Gone

\* A crash, or a quit before the window is linked, which writes nothing.
Crashes == phase # "off" /\ UNCHANGED seenFile /\ Gone

-----------------------------------------------------------------------------
LNext ==
    \/ \E t \in DOMAIN terms :
        \/ Starts(t) \/ Stored(t) \/ Pumps(t) \/ Exits(t)
        \/ Adopts(t) \/ Hands(t) \/ Flushes(t) \/ Runs(t)
        \/ Closes(t) \/ Kills(t) \/ LooksAtList(t)
    \/ ServiceEnds \/ Connects \/ TakesSeen \/ AdoptsNoMore \/ Linked
    \/ Reads \/ ReadsTheEnd
    \/ \E p \in Panes : Opens(p)
    \/ Answered \/ GivesUp \/ LooksAtOwn \/ EndsUnowned
    \/ Detaches \/ LetsGo \/ Crashes

LSpec == LInit /\ [][LNext]_vars

\* The window's threads go on: the reader, the handlers it runs, the flushes,
\* the start of a pane (which waits 30 seconds at most), the window coming up
\* and the window quitting.
LFairSpec ==
    /\ LSpec
    /\ WF_vars(TakesSeen) /\ WF_vars(AdoptsNoMore) /\ WF_vars(Linked)
    /\ WF_vars(Reads) /\ WF_vars(ReadsTheEnd) /\ WF_vars(GivesUp) /\ WF_vars(LetsGo)
    /\ \A t \in Terms :
        /\ WF_vars(t \in DOMAIN terms /\ Adopts(t)) /\ WF_vars(t \in DOMAIN terms /\ Hands(t))
        /\ WF_vars(t \in DOMAIN terms /\ Flushes(t)) /\ WF_vars(t \in DOMAIN terms /\ Runs(t))

-----------------------------------------------------------------------------
(* What must hold.                                                         *)

\* TERM-105: a terminal's handlers get its output in the order the service sent
\* it, what was held included, then its end, once, and nothing after that.
HandedInOrder ==
    \A t \in Terms : \A i, j \in DOMAIN handed[t] :
        i < j => /\ handed[t][i] # Exit
                 /\ handed[t][j] = Exit \/ handed[t][i] < handed[t][j]

\* What t's pane has saved of t: the places in its saved output, and the chunks.
PlacesOf(t) == {i \in DOMAIN SavedBy(t) : SavedBy(t)[i][1] = t}
SavedOf(t) == {SavedBy(t)[i][2] : i \in PlacesOf(t)}

\* TERM-105, after-list 698: over quits and crashes, a pane's saved output never
\* has what a terminal of it printed twice or out of order, though it printed the
\* same again, nor more than the window drew.  It ends with what was drawn last,
\* and goes back from there without a gap to the first chunk or, once it was
\* compacted, to where that cut it.  But for output that was dropped before a
\* window had it (lossy), and for a crash after which nothing in the saved output
\* says how far it goes (unplaced); and but for a gap where more was missed than
\* the tail holds, or where output repeats what the crash left at the end (missing).
SavedWhole ==
    \A t \in DOMAIN terms \ (lossy \cup unplaced) :
        /\ \A i, j \in PlacesOf(t) : i < j => SavedBy(t)[i][2] < SavedBy(t)[j][2]
        /\ t \in held => \A k \in SavedOf(t) : k <= drawn[t]
        /\ t \notin missing =>
            /\ \A k \in SavedOf(t) : k..savedTo[t] \subseteq SavedOf(t)
            /\ terms[t].pane \notin cut => 1..savedTo[t] = SavedOf(t)
            /\ t \in held => savedTo[t] = drawn[t]

\* VIEW-099, after-list 726: Manage Sessions never ends a terminal that a pane
\* of this window has, or that a pane is just starting.
EndsNoOnesPane ==
    cleaner.stage = "listed" => cleaner.of \notin held \cup {opener}

\* The window's picture of a terminal it holds is behind the service's.
Behind(t) ==
    /\ t \in held
    /\ t \in At({"over"}) \/ (terms[t].count > drawn[t] /\ t \notin lossy)

\* TERM-105: what the service prints and ends gets to the pane that holds the
\* terminal, whoever waits for whom meanwhile.
NewsArrives == \A t \in Terms : Behind(t) ~> ~Behind(t)

=============================================================================
