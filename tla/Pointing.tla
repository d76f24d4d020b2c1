------------------------------ MODULE Pointing ------------------------------
(***************************************************************************)
(* The mailbox with its pointers: mail that arrives for an idle agent gets *)
(* one line typed into the agent's pane that tells it to read.             *)
(* Sources: src-tauri/src/orchestration/pointer.rs, and the calls that     *)
(* mail makes to it (src-tauri/src/cli/mod.rs).                            *)
(*                                                                         *)
(* A mail command and the pointer calls it makes are one action: commands  *)
(* are served one at a time, and each pointer call holds the pointers'     *)
(* lock.  The runner of a pane is a thread of its own.  How the line is    *)
(* typed is SendOnce; here it goes in, or does not, and then it is over.   *)
(***************************************************************************)
EXTENDS Mailbox

VARIABLES
    pointers, \* by pane, its Pending
    waiting,  \* panes whose waiting check was seen in the last two seconds
    lines,    \* by pane, the mail the line now on its way counts
    told,     \* history: by pane, the mail counted in a line that went in
    twice     \* history: mail counted in two lines of one pane

pointerVars == <<pointers, waiting, lines, told, twice>>
pvars == <<vars, pointerVars>>

Ids(arrivals) == {a.id : a \in arrivals}
Arrival == [id: Nat, run: RunIds \cup {NoRun}]
Pending == [arrivals: SUBSET Arrival, seen: SUBSET Nat, runner: BOOLEAN,
            typing: {"no", "sent", "pasted"},
            pointed: {"no", "recent", "old"}, woke: BOOLEAN]

Nothing == [arrivals |-> {}, seen |-> {}, runner |-> FALSE, typing |-> "no",
            pointed |-> "no", woke |-> FALSE]

PTypeOK ==
    /\ TypeOK
    /\ pointers \in [Panes -> Pending]
    /\ waiting \subseteq Panes
    /\ lines \in [Panes -> SUBSET Nat]
    /\ told \in [Panes -> SUBSET Nat]
    /\ twice \subseteq Nat
    /\ \A p \in Panes : Ids(pointers[p].arrivals) \cap pointers[p].seen = {}

\* Every arrival of q counts as seen.
Drained(q) == [q EXCEPT !.arrivals = {}, !.seen = @ \cup Ids(q.arrivals)]

PInit ==
    /\ Init
    /\ pointers = [p \in Panes |-> Nothing]
    /\ waiting = {} /\ twice = {}
    /\ lines = [p \in Panes |-> {}] /\ told = [p \in Panes |-> {}]

-----------------------------------------------------------------------------
(* What mail commands do to the pointers.                                  *)

\* The open panes that read message m as it is stored, its sender left out.
ReadersOf(m) ==
    {p \in live \ {m.from} :
        CASE m.to[1] = "run" -> bindings[p].run = m.to[2]
          [] m.to[1] = "dispatch" -> m.to[2] \in Own(p)
          [] OTHER -> m.to[2] = p}

\* The Run of an arrival is that of mail to a Run's own box.
ArrivalOf(i) ==
    [id |-> i, run |-> IF messages'[i].to[1] = "run" THEN messages'[i].run ELSE NoRun]

\* Mutant: a pane gets a runner only for its first mail ever.
StartedOnce(q, new) ==
    [q EXCEPT !.arrivals = @ \cup new,
              !.runner = @ \/ (new # {} /\ q.seen = {} /\ q.arrivals = {})]

\* arrive, for each of the arrivals `new`: what is not known yet is queued, and
\* a pane that has none gets a runner.
Arrived(q, new) == [q EXCEPT !.arrivals = @ \cup new, !.runner = @ \/ new # {}]

\* after_send: the messages that were just made arrive where they are read.
AfterSend ==
    pointers' = [p \in Panes |->
        Arrived(pointers[p],
            {ArrivalOf(i) : i \in {j \in DOMAIN messages' \ DOMAIN messages :
                /\ p \in ReadersOf(messages'[j])
                /\ j \notin pointers[p].seen \cup Ids(pointers[p].arrivals)}})]

PSend(l) ==
    /\ AnyLetter(l) /\ AfterSend
    /\ UNCHANGED <<waiting, lines, told, twice>>

\* ask sends a question and points at nothing.
PAsk(l) ==
    /\ l.kind = "question" /\ AnyLetter(l)
    /\ UNCHANGED pointerVars

\* after_check: a pane that looked at its own mail needs no line.
AfterCheck(c, wait) ==
    IF c.of = TermBox(c.pane)
    THEN /\ pointers' = [pointers EXCEPT ![c.pane] = [Drained(@) EXCEPT !.pointed = "no"]]
         /\ waiting' = IF wait THEN waiting \cup {c.pane} ELSE waiting
    ELSE UNCHANGED <<pointers, waiting>>

PCheck(c, ack, wait) ==
    /\ Check(c, ack, wait) /\ AfterCheck(c, wait)
    /\ UNCHANGED <<lines, told, twice>>

\* A wait asks again: turned away it reaches no pointer.
PPoll(w) ==
    /\ Poll(w)
    /\ IF ~MayRead(w.check.pane, w.check.of) \/ Fenced(w)
       THEN UNCHANGED <<pointers, waiting>> ELSE AfterCheck(w.check, TRUE)
    /\ UNCHANGED <<lines, told, twice>>

\* It asks again and there is nothing for it.
PollsOn(w) ==
    /\ w \in waits /\ MayRead(w.check.pane, w.check.of) /\ ~Fenced(w)
    /\ ~Answers(w.check, deliveries)
    /\ AfterCheck(w.check, TRUE)
    /\ UNCHANGED <<vars, lines, told, twice>>

\* The rest of the mailbox leaves the pointers alone.  Which Run a pane is tied
\* to they learn from every command, so it is read from the bindings here.
PMail ==
    /\ \/ \E p \in Coordinators : RunCreate(p) \/ \E r \in RunIds : RunUse(p, r)
       \/ \E p \in Panes, i \in DOMAIN messages : Reply(p, i)
       \/ \E p \in Panes : TerminalCloses(p)
       \/ \E w \in waits : TimesOut(w)
       \/ ResetTasks \/ ResetMessages \/ ResetAll
       \/ \E d \in Dispatches : DispatchOpens(d) \/ DispatchEnds(d)
    /\ UNCHANGED pointerVars

\* The pointers are not stored.
PRestart ==
    /\ Restart
    /\ pointers' = [p \in Panes |-> Nothing]
    /\ waiting' = {}
    /\ lines' = [p \in Panes |-> {}]
    /\ UNCHANGED <<told, twice>>

-----------------------------------------------------------------------------
(* The runner of a pane.                                                   *)

Keep(p) ==
    {a \in pointers[p].arrivals : a.run = NoRun \/ a.run = bindings[p].run}

\* What the agent's hooks say when the runner looks (or, without them, whether
\* the screen is quiet): done or idle, working, or anything else.
Looks == {"idle", "working", "other"}

\* The Pending of p once the mail of Runs it left is dropped and a working
\* agent is noticed.
Looked(p, look) ==
    LET q == pointers[p] IN
    [q EXCEPT !.arrivals = Keep(p),
              !.seen = @ \cup Ids(q.arrivals \ Keep(p)),
              !.woke = @ \/ (look = "working" /\ q.pointed # "no")]

Set(p, q) == pointers' = [pointers EXCEPT ![p] = q]

\* Mutant: a line that was typed points at everything that comes after it.
HeldForGood(q) == q.pointed # "no" /\ ~q.woke

\* A line already points at the mail and the agent did not wake yet.
HeldByLine(q) == q.pointed = "recent" /\ ~q.woke

\* decide: nothing is typed into a pane that is gone, without mail, waiting,
\* busy, or just pointed at; otherwise a line counts what is there.
Decide(p, look) ==
    LET q == Looked(p, look) IN
    /\ pointers[p].runner /\ pointers[p].typing = "no"
    /\ CASE p \notin live     -> Set(p, Nothing) /\ UNCHANGED lines
         [] q.arrivals = {}   -> Set(p, [q EXCEPT !.runner = FALSE]) /\ UNCHANGED lines
         [] p \in waiting     -> Set(p, [Drained(q) EXCEPT !.runner = FALSE])
                                 /\ UNCHANGED lines
         [] look # "idle" \/ HeldByLine(q) -> Set(p, q) /\ UNCHANGED lines
         [] OTHER -> /\ Set(p, [q EXCEPT !.typing = "sent"])
                     /\ lines' = [lines EXCEPT ![p] = Ids(q.arrivals)]
    /\ UNCHANGED <<vars, waiting, told, twice>>

\* The text of the line goes in.
LineGoesIn(p) ==
    /\ p \in live /\ pointers[p].typing = "sent"
    /\ Set(p, [pointers[p] EXCEPT !.typing = "pasted"])
    /\ twice' = twice \cup (lines[p] \cap told[p])
    /\ told' = [told EXCEPT ![p] = @ \cup lines[p]]
    /\ UNCHANGED <<vars, waiting, lines>>

\* Mutant: the arrivals the line counted stay.
LandedKeepingMail(q) == [q EXCEPT !.typing = "no", !.pointed = "recent", !.woke = FALSE]

\* typed, when the text went in: the line stands for all that arrived since.
Landed(q) ==
    [Drained(q) EXCEPT !.typing = "no", !.pointed = "recent", !.woke = FALSE]

LineLanded(p) ==
    /\ pointers[p].typing = "pasted"
    /\ Set(p, Landed(pointers[p]))
    /\ UNCHANGED <<vars, waiting, lines, told, twice>>

\* typed, when it did not: a permission prompt shows, the user cancelled or the
\* pane is gone, and the mail waits for the next look.
LineFailed(p) ==
    /\ pointers[p].typing = "sent"
    /\ Set(p, [pointers[p] EXCEPT !.typing = "no"])
    /\ UNCHANGED <<vars, waiting, lines, told, twice>>

-----------------------------------------------------------------------------
(* Time.                                                                   *)

\* Fifteen seconds pass after a line, two after a waiting check was seen.
GracePasses(p) ==
    /\ pointers[p].pointed = "recent"
    /\ Set(p, [pointers[p] EXCEPT !.pointed = "old"])
    /\ UNCHANGED <<vars, waiting, lines, told, twice>>

WaitGetsOld(p) ==
    /\ p \in waiting /\ waiting' = waiting \ {p}
    /\ UNCHANGED <<vars, pointers, lines, told, twice>>

-----------------------------------------------------------------------------
PNext ==
    \/ \E l \in Letters : PSend(l) \/ PAsk(l)
    \/ \E c \in Checks, ack \in DOMAIN deliveries \cup {NoAck}, wait \in BOOLEAN :
            PCheck(c, ack, wait)
    \/ \E w \in waits : PPoll(w) \/ PollsOn(w)
    \/ PMail \/ PRestart
    \/ \E p \in Panes :
        \/ \E look \in Looks : Decide(p, look)
        \/ LineGoesIn(p) \/ LineLanded(p) \/ LineFailed(p)
        \/ GracePasses(p) \/ WaitGetsOld(p)

PSpec == PInit /\ [][PNext]_pvars

\* A runner looks at its pane again and again and sometimes finds the agent
\* idle, a send comes to its end and sometimes types, and time passes.
PFairSpec ==
    /\ PSpec
    /\ \A p \in Panes :
        /\ SF_pvars(Decide(p, "idle")) /\ SF_pvars(LineGoesIn(p))
        /\ WF_pvars(LineGoesIn(p) \/ LineFailed(p)) /\ WF_pvars(LineLanded(p))
        /\ WF_pvars(GracePasses(p))

-----------------------------------------------------------------------------
(* What must hold.                                                         *)

\* Mail that waits for a pane has a runner that will look at the pane.
WaitingHasRunner ==
    \A p \in Panes : pointers[p].arrivals # {} => pointers[p].runner

\* No message is counted in two lines typed into one pane.
PointedOnce == twice = {}

\* Mail that waits for a pane whose agent is found idle now and then does not
\* wait for ever: a line points at it, or it is dropped.
MailIsPointed ==
    \A p \in Panes : pointers[p].arrivals # {} ~> pointers[p].arrivals = {}

=============================================================================
