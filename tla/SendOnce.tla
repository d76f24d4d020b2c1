------------------------------ MODULE SendOnce ------------------------------
(***************************************************************************)
(* Prompts typed into one agent terminal: by `terminal send`, by the       *)
(* pointer of the mailbox and by the callers that hand over an opening     *)
(* prompt, beside a user who types and permission prompts that show.       *)
(* Sources: src-tauri/src/orchestration/sendonce.rs, src-tauri/src/cli/    *)
(* mod.rs (terminal.send, send_once), src-tauri/src/orchestration/         *)
(* pointer.rs (run_pane), src-tauri/src/agents.rs (agent_prompt_send).     *)
(*                                                                         *)
(* A sender looks at the terminal, decides, and only then writes: a look   *)
(* and the write it leads to are two steps, and anything may come between. *)
(* How long it waits before it decides is left open.                       *)
(***************************************************************************)
EXTENDS Integers, Sequences, FiniteSets

CONSTANTS
    Requests,     \* `terminal send` requests, by retry id
    Texts,        \* those with a text; the others are a bare Enter
    Submitted,    \* those of Texts with an Enter
    Interrupts,   \* those that begin with Ctrl+C
    Openers,      \* the callers that may hand over the opening prompt
    ReceiptsKept, \* RECEIPTS_KEPT
    MaxAsks,      \* bound: requests, lines and opening prompts begun
    MaxKeys,      \* bound: what the user types
    MaxFails,     \* bound: receipts that cannot be saved
    MaxRestarts   \* bound: restarts

Opening == "opening"
Line == "line"
Free == "free"
Senders == {"cli", "pointer"} \cup Openers

ASSUME BoundsAreNaturals ==
    /\ {MaxAsks, MaxKeys, MaxFails, MaxRestarts} \subseteq Nat
    /\ ReceiptsKept \in Nat \ {0}
ASSUME RequestsAreKnown ==
    /\ Submitted \subseteq Texts /\ Texts \subseteq Requests
    /\ Interrupts \subseteq Requests
    /\ {Opening, Line} \cap Requests = {}
    /\ {"cli", "pointer", Free} \cap Openers = {}

VARIABLES
    live,      \* the terminal is open
    prompting, \* it shows a permission prompt
    counts,    \* WRITERS: how often a writer claimed it, how often the user cancelled
    lane,      \* who holds the terminal's lane
    sends,     \* by sender, its Send
    opened,    \* OPENED: the opening prompt was claimed
    receipts,  \* the stored receipts, oldest first
    memo,      \* requests whose receipt could not be saved, remembered in memory
    asks, keys, fails, restarts, \* what the bounds count
    log,       \* history: what went into the terminal
    forgotten  \* history: requests whose receipt is lost though they were typed

kept == <<receipts, memo, fails, forgotten>>
vars == <<live, prompting, counts, lane, sends, opened, kept, asks, keys,
          restarts, log>>

Idle == [phase |-> "idle", of |-> Line, enter |-> FALSE,
         ticket |-> [writer |-> 0, cancel |-> 0], claimed |-> 0, looked |-> 0]

Entry == [what: {"text", "enter", "key", "bare", "interrupt"},
          by: Senders \cup {"user"}, of: Requests \cup {Opening, Line}]
Send == [phase: {"idle", "queued", "settle", "pasting", "pasted", "entering", "answering"},
         of: Requests \cup {Opening, Line}, enter: BOOLEAN,
         ticket: [writer: Nat, cancel: Nat], claimed: Nat, looked: Nat]

TypeOK ==
    /\ live \in BOOLEAN /\ prompting \in BOOLEAN /\ opened \in BOOLEAN
    /\ counts \in [writer: Nat, cancel: Nat]
    /\ lane \in Senders \cup {Free}
    /\ sends \in [Senders -> Send]
    /\ receipts \in Seq(Requests) /\ Len(receipts) <= ReceiptsKept
    /\ memo \subseteq Requests
    /\ asks \in 0..MaxAsks /\ keys \in 0..MaxKeys
    /\ fails \in 0..MaxFails /\ restarts \in 0..MaxRestarts
    /\ log \in Seq(Entry)
    /\ forgotten \subseteq Requests \cup {Opening}

Wrote(what, by, of) == log' = Append(log, [what |-> what, by |-> by, of |-> of])

\* What is written to the terminal besides the prompts of the senders.
Outside == {"key", "bare", "interrupt"}

Typed(of) == {i \in DOMAIN log : log[i].what = "text" /\ log[i].of = of}
WithReceipt == {receipts[i] : i \in DOMAIN receipts}

Init ==
    /\ live = TRUE /\ prompting = FALSE /\ opened = FALSE
    /\ counts = [writer |-> 0, cancel |-> 0]
    /\ lane = Free
    /\ sends = [t \in Senders |-> Idle]
    /\ receipts = <<>> /\ memo = {} /\ forgotten = {}
    /\ asks = 0 /\ keys = 0 /\ fails = 0 /\ restarts = 0
    /\ log = <<>>

-----------------------------------------------------------------------------
(* Prompts begin.                                                          *)

Asked == asks < MaxAsks /\ asks' = asks + 1

Queue(t, of, enter) ==
    /\ sends[t].phase = "idle"
    /\ sends' = [sends EXCEPT ![t] = [Idle EXCEPT !.phase = "queued", !.of = of,
                                                  !.enter = enter]]

\* Mutant: a retry is known only while this Kolux runs.
AnsweredThisRun(r) == r \in memo

\* A request is answered from its memo or its stored receipt.
Answered(r) == r \in memo \cup WithReceipt

\* Ctrl+C goes in at once, before the text waits for its turn.
AskText(r) ==
    /\ Asked /\ live /\ r \in Texts /\ ~Answered(r)
    /\ Queue("cli", r, r \in Submitted)
    /\ IF r \in Interrupts THEN Wrote("interrupt", "cli", r) ELSE UNCHANGED log
    /\ UNCHANGED <<live, prompting, counts, lane, opened, kept, keys, restarts>>

\* An Enter of its own is not a prompt: it goes in at once, whoever types.
AskEnter(r) ==
    /\ Asked /\ live /\ r \in Requests \ Texts /\ ~Answered(r)
    /\ sends["cli"].phase = "idle"
    /\ sends' = [sends EXCEPT !["cli"] = [Idle EXCEPT !.phase = "answering", !.of = r]]
    /\ Wrote("bare", "cli", r)
    /\ UNCHANGED <<live, prompting, counts, lane, opened, kept, keys, restarts>>

\* The terminal's runner types the line that points at waiting mail.
PointerLine ==
    /\ Asked /\ Queue("pointer", Line, TRUE)
    /\ UNCHANGED <<live, prompting, counts, lane, opened, kept, keys, restarts, log>>

\* The first caller hands the opening prompt over; the next is a duplicate.
OpeningPrompt(t) ==
    /\ Asked /\ ~opened /\ opened' = TRUE
    /\ Queue(t, Opening, TRUE)
    /\ UNCHANGED <<live, prompting, counts, lane, kept, keys, restarts, log>>

-----------------------------------------------------------------------------
(* A Send, from its turn to its end.                                       *)

In(t, phase) == sends[t].phase = phase
To(t, phase) == sends' = [sends EXCEPT ![t].phase = phase]

TakesTurn(t) ==
    LET now == [counts EXCEPT !.writer = @ + 1]
    IN /\ In(t, "queued")
       /\ lane' = t /\ counts' = now
       /\ sends' = [sends EXCEPT ![t] = [@ EXCEPT !.phase = "settle", !.ticket = now,
                                                  !.claimed = Len(log)]]
       /\ UNCHANGED <<live, prompting, opened, kept, asks, keys, restarts, log>>

\* Mutant: the terminal has no lane.
TurnAtOnce(t) == TakesTurn(t)

\* The lane is taken, then the terminal is claimed.
Turn(t) == lane = Free /\ TakesTurn(t)

\* Mutant: a send to a terminal that ended keeps the lane.
EndsHoldingLane(t, receipt) ==
    /\ IF receipt /\ t = "cli" THEN To(t, "answering") ELSE sends' = [sends EXCEPT ![t] = Idle]
    /\ lane' = IF live THEN Free ELSE lane
    /\ UNCHANGED <<live, prompting, counts, opened, kept, asks, keys, restarts>>

\* The send ends and gives up the lane.  A request still writes its receipt,
\* unless nothing was pasted or the terminal is gone.
Ends(t, receipt) ==
    /\ IF receipt /\ t = "cli" THEN To(t, "answering") ELSE sends' = [sends EXCEPT ![t] = Idle]
    /\ lane' = Free
    /\ UNCHANGED <<live, prompting, counts, opened, kept, asks, keys, restarts>>

Cancelled(t) == counts.cancel # sends[t].ticket.cancel
OtherWriter(t) == counts.writer # sends[t].ticket.writer

\* A look before the paste: it is turned away, or the box has settled.
LooksToPaste(t) ==
    /\ In(t, "settle")
    /\ IF ~live \/ prompting \/ Cancelled(t)
       THEN Ends(t, live /\ Cancelled(t)) /\ UNCHANGED log
       ELSE To(t, "pasting") /\ UNCHANGED <<live, prompting, counts, lane, opened, kept,
                                            asks, keys, restarts, log>>

Pastes(t) ==
    /\ In(t, "pasting")
    /\ IF ~live THEN Ends(t, FALSE) /\ UNCHANGED log
       ELSE /\ To(t, "pasted")
            /\ Wrote("text", t, sends[t].of)
            /\ UNCHANGED <<live, prompting, counts, lane, opened, kept, asks, keys, restarts>>

\* Mutant: only a cancel holds Enter back.
HoldsBackOnCancel(t) == Cancelled(t) \/ prompting

\* What holds Enter back once the text is in.
HoldsBack(t) == Cancelled(t) \/ OtherWriter(t) \/ prompting

\* The last look before Enter, after the pause.
LooksToEnter(t) ==
    /\ In(t, "pasted")
    /\ IF ~live \/ ~sends[t].enter \/ HoldsBack(t)
       THEN Ends(t, live) /\ UNCHANGED log
       ELSE /\ sends' = [sends EXCEPT ![t] = [@ EXCEPT !.phase = "entering",
                                                       !.looked = Len(log)]]
            /\ UNCHANGED <<live, prompting, counts, lane, opened, kept, asks, keys,
                           restarts, log>>

Enters(t) ==
    /\ In(t, "entering")
    /\ Ends(t, live)
    /\ IF live THEN Wrote("enter", t, sends[t].of) ELSE UNCHANGED log

-----------------------------------------------------------------------------
(* Receipts.                                                               *)

\* The last n of a sequence.
Newest(s, n) == IF Len(s) <= n THEN s ELSE SubSeq(s, Len(s) - n + 1, Len(s))

\* Receipts::record, `old` of the receipts being past their time.
Recorded(r, old) == Newest(Append(SubSeq(receipts, old + 1, Len(receipts)), r), ReceiptsKept)

Records ==
    LET r == sends["cli"].of
    IN /\ In("cli", "answering")
       /\ sends' = [sends EXCEPT !["cli"] = Idle]
       /\ \E old \in 0..Len(receipts) : receipts' = Recorded(r, old)
       /\ forgotten' = forgotten \cup
              {x \in WithReceipt : \A i \in DOMAIN receipts' : receipts'[i] # x}
       /\ UNCHANGED <<live, prompting, counts, lane, opened, memo, asks, keys, fails,
                      restarts, log>>

\* A receipt that cannot be saved is remembered instead.
CannotRecord ==
    /\ In("cli", "answering") /\ fails < MaxFails
    /\ fails' = fails + 1
    /\ memo' = memo \cup {sends["cli"].of}
    /\ sends' = [sends EXCEPT !["cli"] = Idle]
    /\ UNCHANGED <<live, prompting, counts, lane, opened, receipts, forgotten, asks, keys,
                   restarts, log>>

-----------------------------------------------------------------------------
(* The user, the agent, and the end of the terminal or of Kolux.           *)

\* A keystroke of the user; Ctrl+C or Escape on its own is a cancel too.
UserTypes(cancel) ==
    /\ live /\ keys < MaxKeys /\ keys' = keys + 1
    /\ counts' = [writer |-> counts.writer + 1,
                  cancel |-> counts.cancel + (IF cancel THEN 1 ELSE 0)]
    /\ Wrote("key", "user", Line)
    /\ UNCHANGED <<live, prompting, lane, sends, opened, kept, asks, restarts>>

PermissionPrompt ==
    /\ live /\ prompting' = ~prompting
    /\ UNCHANGED <<live, counts, lane, sends, opened, kept, asks, keys, restarts, log>>

TerminalEnds ==
    /\ live /\ live' = FALSE /\ prompting' = FALSE
    /\ UNCHANGED <<counts, lane, sends, opened, kept, asks, keys, restarts, log>>

\* Kolux ends, at any step, and starts again; the handle names a terminal again.
Restart ==
    /\ restarts < MaxRestarts /\ restarts' = restarts + 1
    /\ live' = TRUE /\ prompting' = FALSE /\ opened' = FALSE
    /\ counts' = [writer |-> 0, cancel |-> 0] /\ lane' = Free
    /\ sends' = [t \in Senders |-> Idle]
    /\ memo' = {}
    /\ forgotten' = forgotten \cup
           {r \in (Requests \cup {Opening}) \ WithReceipt : Typed(r) # {}}
    /\ UNCHANGED <<receipts, asks, keys, fails, log>>

-----------------------------------------------------------------------------
StepOf(t) ==
    Turn(t) \/ LooksToPaste(t) \/ Pastes(t) \/ LooksToEnter(t) \/ Enters(t)

Next ==
    \/ \E r \in Requests : AskText(r) \/ AskEnter(r)
    \/ PointerLine
    \/ \E t \in Openers : OpeningPrompt(t)
    \/ \E t \in Senders : StepOf(t)
    \/ Records \/ CannotRecord
    \/ \E cancel \in BOOLEAN : UserTypes(cancel)
    \/ PermissionPrompt \/ TerminalEnds \/ Restart

Spec == Init /\ [][Next]_vars

\* Each sender is a thread; what it waits for has a longest time.
FairSpec == Spec /\ \A t \in Senders : WF_vars(StepOf(t)) /\ WF_vars(Records)

-----------------------------------------------------------------------------
(* What must hold.                                                         *)

\* Before every Enter of a sender the last thing a sender put into the
\* terminal is the text this Enter submits, once: no prompt is merged with
\* another's and no Enter is doubled, in whatever order the senders come.
OneAtATime ==
    \A i \in DOMAIN log : log[i].what = "enter" =>
        \E k \in 1..(i - 1) :
            /\ log[k] = [log[i] EXCEPT !.what = "text"]
            /\ \A m \in (k + 1)..(i - 1) : log[m].what \in Outside

\* A request and an opening prompt are typed once, however often they are
\* asked for, unless Kolux ended before the receipt was written or the receipt
\* made room for newer ones.
TypedOnce ==
    \A r \in (Requests \cup {Opening}) \ forgotten :
        \A i, j \in Typed(r) : i = j

\* Enter is not pressed once the user wrote between the sender's claim and its
\* last look.
HeldBack ==
    \A t \in Senders : In(t, "entering") =>
        \A m \in (sends[t].claimed + 1)..sends[t].looked : log[m].what # "key"

\* Every prompt that began is over at some time, and its sender is free again.
SendsEnd == \A t \in Senders : ~In(t, "idle") ~> In(t, "idle")

=============================================================================
