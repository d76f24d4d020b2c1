--------------------------- MODULE SendOnceProofs ---------------------------
(***************************************************************************)
(* The prompts typed into one terminal, for any requests, callers, user    *)
(* and number of restarts.                                                 *)
(*                                                                         *)
(* That no prompt is merged with another rests on the lane: between its    *)
(* turn and its end a sender alone holds it (LaneHeld), so what is written *)
(* after its text is the user's or a command's (TextIn).  That Enter is    *)
(* held back rests on the claim: as long as nobody claimed the terminal    *)
(* after the sender, no key went in after the claim (Untouched).  That a   *)
(* request is typed once rests on who still knows of it (Remembered).      *)
(***************************************************************************)
EXTENDS SendOnce, TLAPS

\* What a sender that is not idle may type.
PromptsOf(t) == IF t = "cli" THEN Requests ELSE IF t = "pointer" THEN {Line} ELSE {Opening}

OwnPrompts == \A t \in Senders : In(t, "idle") \/ sends[t].of \in PromptsOf(t)

WellTyped == TypeOK /\ OwnPrompts

\* From its turn to its end a sender is the one that holds the lane.
InLane == {"settle", "pasting", "pasted", "entering"}

LaneHeld == \A t \in Senders : sends[t].phase \in InLane => lane = t

\* The text of a sender about to press Enter is in, and nothing of another
\* sender came after it.
TextIn ==
    \A t \in Senders : sends[t].phase \in {"pasted", "entering"} =>
        \E k \in DOMAIN log :
            /\ log[k] = [what |-> "text", by |-> t, of |-> sends[t].of]
            /\ \A m \in (k + 1)..Len(log) : log[m].what \in Outside

\* No key went in after the claim while the claim is the newest.
Untouched ==
    \A t \in Senders : sends[t].phase \in InLane =>
        /\ sends[t].claimed <= Len(log)
        /\ sends[t].ticket.writer <= counts.writer
        /\ sends[t].ticket.writer = counts.writer =>
               \A m \in (sends[t].claimed + 1)..Len(log) : log[m].what # "key"

\* The last look was at what had been written by then.
LookedBack ==
    \A t \in Senders : sends[t].phase = "entering" => sends[t].looked <= Len(log)

WriterInv ==
    WellTyped /\ LaneHeld /\ TextIn /\ Untouched /\ LookedBack /\ OneAtATime /\ HeldBack

-----------------------------------------------------------------------------
(* Types.                                                                  *)

\* The newest n of a sequence of requests are n requests at most.
LEMMA NewestKept ==
    ASSUME NEW s \in Seq(Requests), NEW n \in Nat \ {0}
    PROVE  /\ Newest(s, n) \in Seq(Requests)
           /\ Len(Newest(s, n)) <= n
           /\ s # <<>> => /\ Newest(s, n) # <<>>
                          /\ Newest(s, n)[Len(Newest(s, n))] = s[Len(s)]
  <1>1. CASE Len(s) <= n
    BY <1>1 DEF Newest
  <1>2. CASE ~(Len(s) <= n)
    <2>. DEFINE a == Len(s) - n + 1
    <2>1. a \in 1..Len(s) /\ Len(s) \in Nat
      BY <1>2
    <2>2. /\ SubSeq(s, a, Len(s)) \in Seq(Requests)
          /\ Len(SubSeq(s, a, Len(s))) = n
          /\ \A i \in 1..n : SubSeq(s, a, Len(s))[i] = s[a + i - 1]
      BY <2>1
    <2>3. Newest(s, n) = SubSeq(s, a, Len(s))
      BY <1>2 DEF Newest
    <2>. HIDE DEF a
    <2>4. a + n - 1 = Len(s) /\ Len(<<>>) = 0
      BY <2>1 DEF a
    <2>. QED BY <2>2, <2>3, <2>4
  <1>. QED BY <1>1, <1>2

\* A receipt that is recorded is there, and the list stays within its bound.
LEMMA ReceiptIsKept ==
    ASSUME receipts \in Seq(Requests), NEW r \in Requests, NEW old \in 0..Len(receipts)
    PROVE  /\ Recorded(r, old) \in Seq(Requests)
           /\ Len(Recorded(r, old)) <= ReceiptsKept
           /\ \E i \in DOMAIN Recorded(r, old) : Recorded(r, old)[i] = r
  <1>. DEFINE rest == SubSeq(receipts, old + 1, Len(receipts))
              all == Append(rest, r)
  <1>1. rest \in Seq(Requests)
    OBVIOUS
  <1>2. all \in Seq(Requests) /\ all # <<>> /\ all[Len(all)] = r
    <2>. HIDE DEF rest
    <2>1. all \in Seq(Requests) /\ Len(all) = Len(rest) + 1 /\ all[Len(rest) + 1] = r
      BY <1>1
    <2>2. Len(rest) \in Nat /\ Len(<<>>) = 0
      BY <1>1
    <2>. HIDE DEF all
    <2>. QED BY <2>1, <2>2
  <1>3. Recorded(r, old) = Newest(all, ReceiptsKept)
    BY DEF Recorded
  <1>. HIDE DEF all
  <1>4. /\ Newest(all, ReceiptsKept) \in Seq(Requests)
        /\ Len(Newest(all, ReceiptsKept)) <= ReceiptsKept
        /\ Newest(all, ReceiptsKept) # <<>>
        /\ Newest(all, ReceiptsKept)[Len(Newest(all, ReceiptsKept))] = r
    BY <1>2, NewestKept, BoundsAreNaturals
  <1>. QED BY <1>3, <1>4

\* What is written is appended.
LEMMA Appended ==
    ASSUME log \in Seq(Entry), NEW what, NEW by, NEW of, Wrote(what, by, of),
           [what |-> what, by |-> by, of |-> of] \in Entry
    PROVE  /\ log' \in Seq(Entry) /\ Len(log') = Len(log) + 1 /\ Len(log) \in Nat
           /\ DOMAIN log = 1..Len(log) /\ DOMAIN log' = 1..(Len(log) + 1)
           /\ \A i \in 1..Len(log) : log'[i] = log[i]
           /\ log'[Len(log) + 1] = [what |-> what, by |-> by, of |-> of]
  BY DEF Wrote

LEMMA IdleIsASend == Idle \in Send
  BY DEF Idle, Send

LEMMA InitTyped == Init => WellTyped
  <1> SUFFICES ASSUME Init PROVE WellTyped
    OBVIOUS
  <1>1. sends \in [Senders -> Send] /\ OwnPrompts
    BY IdleIsASend DEF Init, OwnPrompts, In, Idle
  <1>2. counts \in [writer: Nat, cancel: Nat] /\ lane \in Senders \cup {Free}
    BY DEF Init
  <1>3. receipts \in Seq(Requests) /\ Len(receipts) <= ReceiptsKept /\ log \in Seq(Entry)
    BY BoundsAreNaturals DEF Init
  <1>4. /\ asks \in 0..MaxAsks /\ keys \in 0..MaxKeys
        /\ fails \in 0..MaxFails /\ restarts \in 0..MaxRestarts
    BY BoundsAreNaturals DEF Init
  <1>. QED BY <1>1, <1>2, <1>3, <1>4 DEF Init, TypeOK, WellTyped

\* One sender changes, and what it types is its own.
LEMMA SendChanged ==
    ASSUME WellTyped, NEW t \in Senders, NEW s \in Send, sends' = [sends EXCEPT ![t] = s],
           s.phase = "idle" \/ s.of \in PromptsOf(t)
    PROVE  sends' \in [Senders -> Send] /\ OwnPrompts'
  BY DEF WellTyped, TypeOK, OwnPrompts, In, PromptsOf

LEMMA SendIdles ==
    ASSUME WellTyped, NEW t \in Senders, sends' = [sends EXCEPT ![t] = Idle]
    PROVE  sends' \in [Senders -> Send] /\ OwnPrompts'
  BY SendChanged, IdleIsASend DEF Idle

LEMMA PhaseChanged ==
    ASSUME WellTyped, NEW t \in Senders, ~In(t, "idle"),
           NEW phase \in {"pasting", "pasted", "answering"}, To(t, phase)
    PROVE  sends' \in [Senders -> Send] /\ OwnPrompts'
  <1>. DEFINE s == [sends[t] EXCEPT !.phase = phase]
  <1>1. sends[t] \in Send /\ sends[t].of \in PromptsOf(t)
    BY DEF WellTyped, TypeOK, OwnPrompts
  <1>2. s \in Send /\ s.of \in PromptsOf(t)
    BY <1>1 DEF Send
  <1>3. sends' = [sends EXCEPT ![t] = s]
    BY DEF To
  <1>. HIDE DEF s
  <1>. QED BY <1>2, <1>3, SendChanged

LEMMA EndsTyped ==
    ASSUME WellTyped, NEW t \in Senders, NEW receipt \in BOOLEAN, ~In(t, "idle"), Ends(t, receipt)
    PROVE  lane' \in Senders \cup {Free} /\ sends' \in [Senders -> Send] /\ OwnPrompts'
  <1>1. CASE receipt /\ t = "cli"
    BY <1>1, PhaseChanged DEF Ends
  <1>2. CASE ~(receipt /\ t = "cli")
    BY <1>2, SendIdles DEF Ends
  <1>. QED BY <1>1, <1>2 DEF Ends

\* What WellTyped says of the variables no step of a sender changes.
LEMMA OthersTyped ==
    ASSUME WellTyped, sends' \in [Senders -> Send] /\ OwnPrompts', log' \in Seq(Entry),
           lane' \in Senders \cup {Free},
           UNCHANGED <<live, prompting, counts, opened, kept, asks, keys, restarts>>
    PROVE  WellTyped'
  BY DEF WellTyped, TypeOK, kept

LEMMA StepsTyped ==
    ASSUME WellTyped, NEW t \in Senders, StepOf(t) PROVE WellTyped'
  <1>0. /\ sends \in [Senders -> Send] /\ log \in Seq(Entry) /\ live \in BOOLEAN
        /\ lane \in Senders \cup {Free} /\ OwnPrompts
    BY DEF WellTyped, TypeOK
  <1>1. CASE Turn(t)
    <2>. DEFINE now == [counts EXCEPT !.writer = @ + 1]
                s == [sends[t] EXCEPT !.phase = "settle", !.ticket = now, !.claimed = Len(log)]
    <2>1. now \in [writer: Nat, cancel: Nat] /\ Len(log) \in Nat
      BY <1>0 DEF WellTyped, TypeOK
    <2>2. counts' = now /\ lane' = t /\ sends' = [sends EXCEPT ![t] = s] /\ In(t, "queued")
      BY <1>1 DEF Turn, TakesTurn
    <2>3. sends[t] \in Send /\ sends[t].of \in PromptsOf(t)
      BY <1>0, <2>2 DEF OwnPrompts, In
    <2>4. s \in Send /\ s.of \in PromptsOf(t)
      <3>. HIDE DEF now
      <3>. QED BY <2>1, <2>3 DEF Send
    <2>. HIDE DEF s, now
    <2>5. sends' \in [Senders -> Send] /\ OwnPrompts'
      BY <2>2, <2>4, SendChanged
    <2>6. UNCHANGED <<live, prompting, opened, kept, asks, keys, restarts, log>>
      BY <1>1 DEF Turn, TakesTurn
    <2>. QED BY <2>1, <2>2, <2>5, <2>6 DEF WellTyped, TypeOK, kept
  <1>2. CASE LooksToPaste(t)
    <2>1. CASE Ends(t, live /\ Cancelled(t)) /\ UNCHANGED log
      <3>1. (live /\ Cancelled(t)) \in BOOLEAN
        BY <1>0
      <3>. QED BY <1>0, <1>2, <2>1, <3>1, EndsTyped, OthersTyped DEF Ends, LooksToPaste, In
    <2>2. CASE To(t, "pasting") /\ UNCHANGED <<live, prompting, counts, lane, opened, kept,
                                               asks, keys, restarts, log>>
      BY <1>0, <1>2, <2>2, PhaseChanged, OthersTyped DEF LooksToPaste, In
    <2>. QED BY <1>2, <2>1, <2>2 DEF LooksToPaste
  <1>3. CASE Pastes(t)
    <2>1. CASE Ends(t, FALSE) /\ UNCHANGED log
      BY <1>0, <1>3, <2>1, EndsTyped, OthersTyped DEF Ends, Pastes, In
    <2>2. CASE /\ To(t, "pasted") /\ Wrote("text", t, sends[t].of)
               /\ UNCHANGED <<live, prompting, counts, lane, opened, kept, asks, keys,
                              restarts>>
      <3>1. [what |-> "text", by |-> t, of |-> sends[t].of] \in Entry
        BY <1>0 DEF Entry, Send
      <3>2. log' \in Seq(Entry)
        BY <1>0, <2>2, <3>1, Appended
      <3>. QED BY <1>0, <1>3, <2>2, <3>2, PhaseChanged, OthersTyped DEF Pastes, In
    <2>. QED BY <1>3, <2>1, <2>2 DEF Pastes
  <1>4. CASE LooksToEnter(t)
    <2>1. CASE Ends(t, live) /\ UNCHANGED log
      BY <1>0, <1>4, <2>1, EndsTyped, OthersTyped DEF Ends, LooksToEnter, In
    <2>2. CASE /\ sends' = [sends EXCEPT ![t] = [@ EXCEPT !.phase = "entering",
                                                          !.looked = Len(log)]]
               /\ UNCHANGED <<live, prompting, counts, lane, opened, kept, asks, keys,
                              restarts, log>>
      <3>. DEFINE s == [sends[t] EXCEPT !.phase = "entering", !.looked = Len(log)]
      <3>1. sends[t] \in Send /\ sends[t].of \in PromptsOf(t) /\ Len(log) \in Nat
        BY <1>0, <1>4 DEF OwnPrompts, LooksToEnter, In
      <3>2. s \in Send /\ s.of \in PromptsOf(t) /\ sends' = [sends EXCEPT ![t] = s]
        BY <2>2, <3>1 DEF Send
      <3>. HIDE DEF s
      <3>. QED BY <1>0, <2>2, <3>2, SendChanged, OthersTyped
    <2>. QED BY <1>4, <2>1, <2>2 DEF LooksToEnter
  <1>5. CASE Enters(t)
    <2>1. lane' \in Senders \cup {Free} /\ sends' \in [Senders -> Send] /\ OwnPrompts'
      BY <1>0, <1>5, EndsTyped DEF Enters, In
    <2>2. [what |-> "enter", by |-> t, of |-> sends[t].of] \in Entry
      BY <1>0 DEF Entry, Send
    <2>3. log' \in Seq(Entry)
      BY <1>0, <1>5, <2>2, Appended DEF Enters
    <2>. QED BY <1>5, <2>1, <2>3, OthersTyped DEF Enters, Ends
  <1>. QED BY <1>1, <1>2, <1>3, <1>4, <1>5 DEF StepOf

\* The steps by which a prompt begins.
Begins ==
    \/ \E r \in Requests : AskText(r) \/ AskEnter(r)
    \/ PointerLine
    \/ \E t \in Openers : OpeningPrompt(t)

LEMMA BeginsTyped == ASSUME WellTyped, Begins PROVE WellTyped'
  <1>0. /\ sends \in [Senders -> Send] /\ log \in Seq(Entry) /\ asks \in Nat /\ asks <= MaxAsks
        /\ "cli" \in Senders /\ "pointer" \in Senders /\ Openers \subseteq Senders
        /\ MaxAsks \in Nat
    BY BoundsAreNaturals DEF WellTyped, TypeOK, Senders
  <1>1. ASSUME NEW t \in Senders, NEW of \in PromptsOf(t), NEW enter \in BOOLEAN,
               NEW phase \in {"queued", "answering"},
               sends' = [sends EXCEPT ![t] = [Idle EXCEPT !.phase = phase, !.of = of,
                                                          !.enter = enter]]
        PROVE  sends' \in [Senders -> Send] /\ OwnPrompts'
    <2>. DEFINE s == [Idle EXCEPT !.phase = phase, !.of = of, !.enter = enter]
    <2>1. s \in Send /\ s.of = of
      BY DEF PromptsOf, Send, Idle
    <2>2. sends' = [sends EXCEPT ![t] = s]
      BY <1>1
    <2>. HIDE DEF s
    <2>. QED BY <2>1, <2>2, SendChanged
  <1>2. ASSUME Asked PROVE asks' \in 0..MaxAsks
    BY <1>0, <1>2 DEF Asked
  <1>3. ASSUME sends' \in [Senders -> Send] /\ OwnPrompts', log' \in Seq(Entry), Asked,
               opened' \in BOOLEAN,
               UNCHANGED <<live, prompting, counts, lane, kept, keys, restarts>>
        PROVE  WellTyped'
    BY <1>2, <1>3 DEF WellTyped, TypeOK, kept
  <1>4. ASSUME NEW r \in Requests, AskText(r) PROVE WellTyped'
    <2>1. r \in PromptsOf("cli") /\ (r \in Submitted) \in BOOLEAN
      BY DEF PromptsOf
    <2>2. sends' \in [Senders -> Send] /\ OwnPrompts'
      BY <1>0, <1>1, <1>4, <2>1 DEF AskText, Queue
    <2>3. [what |-> "interrupt", by |-> "cli", of |-> r] \in Entry
      BY <1>0 DEF Entry
    <2>4. log' \in Seq(Entry)
      BY <1>0, <1>4, <2>3, Appended DEF AskText
    <2>. QED BY <1>3, <1>4, <2>2, <2>4 DEF AskText, WellTyped, TypeOK
  <1>5. ASSUME NEW r \in Requests, AskEnter(r) PROVE WellTyped'
    <2>1. r \in PromptsOf("cli")
      BY DEF PromptsOf
    <2>. DEFINE s == [Idle EXCEPT !.phase = "answering", !.of = r]
    <2>2. s \in Send /\ s.of = r
      BY DEF Idle, Send
    <2>3. sends' \in [Senders -> Send] /\ OwnPrompts'
      <3>1. sends' = [sends EXCEPT !["cli"] = s]
        BY <1>5 DEF AskEnter
      <3>. HIDE DEF s
      <3>. QED BY <1>0, <2>1, <2>2, <3>1, SendChanged
    <2>4. [what |-> "bare", by |-> "cli", of |-> r] \in Entry
      BY <1>0 DEF Entry
    <2>5. log' \in Seq(Entry)
      BY <1>0, <1>5, <2>4, Appended DEF AskEnter
    <2>. QED BY <1>3, <1>5, <2>3, <2>5 DEF AskEnter, WellTyped, TypeOK
  <1>6. CASE PointerLine
    <2>1. Line \in PromptsOf("pointer")
      BY DEF PromptsOf
    <2>2. sends' \in [Senders -> Send] /\ OwnPrompts'
      BY <1>0, <1>1, <1>6, <2>1 DEF PointerLine, Queue
    <2>. QED BY <1>0, <1>3, <1>6, <2>2 DEF PointerLine, WellTyped, TypeOK
  <1>7. ASSUME NEW t \in Openers, OpeningPrompt(t) PROVE WellTyped'
    <2>1. Opening \in PromptsOf(t)
      BY RequestsAreKnown DEF PromptsOf
    <2>2. sends' \in [Senders -> Send] /\ OwnPrompts'
      BY <1>0, <1>1, <1>7, <2>1 DEF OpeningPrompt, Queue
    <2>. QED BY <1>0, <1>3, <1>7, <2>2 DEF OpeningPrompt
  <1>. QED BY <1>4, <1>5, <1>6, <1>7 DEF Begins

LEMMA AnswersTyped == ASSUME WellTyped, Records \/ CannotRecord PROVE WellTyped'
  <1>1. "cli" \in Senders
    BY DEF Senders
  <1>2. sends' \in [Senders -> Send] /\ OwnPrompts'
    BY <1>1, SendIdles DEF Records, CannotRecord
  <1>3. sends["cli"].of \in Requests
    BY <1>1 DEF Records, CannotRecord, WellTyped, OwnPrompts, In, PromptsOf
  <1>4. receipts \in Seq(Requests) /\ WithReceipt \subseteq Requests
    BY DEF WellTyped, TypeOK, WithReceipt
  <1>5. CASE Records
    <2>1. PICK old \in 0..Len(receipts) : receipts' = Recorded(sends["cli"].of, old)
      BY <1>5 DEF Records
    <2>2. receipts' \in Seq(Requests) /\ Len(receipts') <= ReceiptsKept
      BY <1>3, <1>4, <2>1, ReceiptIsKept
    <2>3. forgotten' \subseteq Requests \cup {Opening}
      BY <1>4, <1>5 DEF Records, WellTyped, TypeOK
    <2>. QED BY <1>2, <1>5, <2>2, <2>3 DEF Records, WellTyped, TypeOK
  <1>6. CASE CannotRecord
    <2>1. fails' \in 0..MaxFails
      BY <1>6, BoundsAreNaturals DEF CannotRecord, WellTyped, TypeOK
    <2>. QED BY <1>2, <1>3, <1>6, <2>1 DEF CannotRecord, WellTyped, TypeOK
  <1>. QED BY <1>5, <1>6

LEMMA RestTyped ==
    ASSUME WellTyped,
           \/ \E cancel \in BOOLEAN : UserTypes(cancel)
           \/ PermissionPrompt \/ TerminalEnds \/ Restart \/ UNCHANGED vars
    PROVE  WellTyped'
  <1>1. ASSUME NEW cancel \in BOOLEAN, UserTypes(cancel) PROVE WellTyped'
    <2>1. [what |-> "key", by |-> "user", of |-> Line] \in Entry
      BY DEF Entry
    <2>2. log' \in Seq(Entry)
      BY <1>1, <2>1, Appended DEF UserTypes, WellTyped, TypeOK
    <2>3. keys' \in 0..MaxKeys /\ counts' \in [writer: Nat, cancel: Nat]
      BY <1>1, BoundsAreNaturals DEF UserTypes, WellTyped, TypeOK
    <2>. QED BY <1>1, <2>2, <2>3 DEF UserTypes, WellTyped, TypeOK, kept, OwnPrompts, In
  <1>2. CASE PermissionPrompt \/ TerminalEnds
    BY <1>2 DEF PermissionPrompt, TerminalEnds, WellTyped, TypeOK, kept, OwnPrompts, In
  <1>3. CASE Restart
    <2>1. sends' \in [Senders -> Send] /\ OwnPrompts'
      BY <1>3, IdleIsASend DEF Restart, OwnPrompts, In, Idle
    <2>2. counts' \in [writer: Nat, cancel: Nat] /\ restarts' \in 0..MaxRestarts
      BY <1>3, BoundsAreNaturals DEF Restart, WellTyped, TypeOK
    <2>3. forgotten' \subseteq Requests \cup {Opening}
      BY <1>3 DEF Restart, WellTyped, TypeOK
    <2>. QED BY <1>3, <2>1, <2>2, <2>3 DEF Restart, WellTyped, TypeOK
  <1>4. CASE UNCHANGED vars
    BY <1>4 DEF vars, kept, WellTyped, TypeOK, OwnPrompts, In
  <1>. QED BY <1>1, <1>2, <1>3, <1>4

-----------------------------------------------------------------------------
(* The lane, the text and the claim.                                       *)

LEMMA InitWriters == Init => WriterInv
  <1> SUFFICES ASSUME Init PROVE WriterInv
    OBVIOUS
  <1>1. \A t \in Senders : sends[t].phase = "idle"
    BY DEF Init, Idle
  <1>2. DOMAIN log = {}
    BY DEF Init
  <1>. QED BY <1>1, <1>2, InitTyped DEF WriterInv, LaneHeld, InLane, TextIn, Untouched, LookedBack,
              OneAtATime, HeldBack, In

\* What is written is nothing, or nothing of a prompt; a key claims the terminal.
LogKept ==
    \/ log' = log
    \/ \E e \in Entry :
          /\ e.what \in Outside /\ log' = Append(log, e)
          /\ e.what = "key" => counts'.writer > counts.writer

\* No sender gets on but from its turn to its paste.
SendsKept ==
    \A t \in Senders : sends'[t].phase \in InLane =>
        /\ sends[t].phase \in InLane /\ lane' = lane
        /\ sends'[t].claimed = sends[t].claimed /\ sends'[t].ticket = sends[t].ticket
        /\ sends'[t].of = sends[t].of
        /\ sends'[t].phase \in {"pasted", "entering"} => sends[t].phase \in {"pasted", "entering"}
        /\ sends'[t].phase = "entering" =>
               sends[t].phase = "entering" /\ sends'[t].looked = sends[t].looked

LEMMA LogGrows ==
    ASSUME WellTyped, LogKept \/ \E e \in Entry : log' = Append(log, e)
    PROVE  /\ Len(log) \in Nat /\ Len(log') \in Nat /\ Len(log) <= Len(log')
           /\ Len(log') <= Len(log) + 1
           /\ DOMAIN log = 1..Len(log) /\ DOMAIN log' = 1..Len(log')
           /\ \A i \in 1..Len(log) : log'[i] = log[i]
  <1>1. log \in Seq(Entry)
    BY DEF WellTyped, TypeOK
  <1>2. CASE log' = log
    BY <1>1, <1>2
  <1>3. CASE \E e \in Entry : log' = Append(log, e)
    BY <1>1, <1>3
  <1>. QED BY <1>2, <1>3 DEF LogKept

LEMMA QuietStep ==
    ASSUME WriterInv, WellTyped', LogKept, SendsKept, counts'.writer >= counts.writer
    PROVE  WriterInv'
  <1>1. /\ Len(log) \in Nat /\ Len(log') \in Nat /\ Len(log) <= Len(log')
        /\ Len(log') <= Len(log) + 1
        /\ DOMAIN log = 1..Len(log) /\ DOMAIN log' = 1..Len(log')
        /\ \A i \in 1..Len(log) : log'[i] = log[i]
    BY LogGrows DEF WriterInv
  <1>2. \A i \in 1..Len(log') : i > Len(log) =>
           /\ log'[i].what \in Outside
           /\ log'[i].what = "key" => counts'.writer > counts.writer
    <2>1. CASE log' = log
      BY <1>1, <2>1
    <2>2. CASE ~(log' = log)
      <3>1. PICK e \in Entry : /\ e.what \in Outside /\ log' = Append(log, e)
                               /\ e.what = "key" => counts'.writer > counts.writer
        BY <2>2 DEF LogKept
      <3>2. log'[Len(log) + 1] = e
        BY <3>1 DEF WriterInv, WellTyped, TypeOK
      <3>. QED BY <1>1, <3>1, <3>2
    <2>. QED BY <2>1, <2>2
  <1>3. LaneHeld'
    BY DEF WriterInv, LaneHeld, SendsKept
  <1>4. TextIn'
    <2> SUFFICES ASSUME NEW t \in Senders, sends'[t].phase \in {"pasted", "entering"}
                 PROVE  \E k \in DOMAIN log' :
                           /\ log'[k] = [what |-> "text", by |-> t, of |-> sends'[t].of]
                           /\ \A m \in (k + 1)..Len(log') : log'[m].what \in Outside
      BY DEF TextIn
    <2>1. sends[t].phase \in {"pasted", "entering"} /\ sends'[t].of = sends[t].of
      BY DEF SendsKept, InLane
    <2>2. PICK k \in DOMAIN log :
             /\ log[k] = [what |-> "text", by |-> t, of |-> sends[t].of]
             /\ \A m \in (k + 1)..Len(log) : log[m].what \in Outside
      BY <2>1 DEF WriterInv, TextIn
    <2>3. k \in 1..Len(log) /\ k \in DOMAIN log' /\ log'[k] = log[k]
      BY <1>1
    <2>4. ASSUME NEW m \in (k + 1)..Len(log') PROVE log'[m].what \in Outside
      <3>1. CASE m <= Len(log)
        BY <1>1, <2>2, <2>3, <3>1
      <3>2. CASE m > Len(log)
        BY <1>1, <1>2, <2>3, <3>2
      <3>. QED BY <1>1, <2>3, <3>1, <3>2
    <2>. QED BY <2>1, <2>2, <2>3, <2>4
  <1>5. Untouched'
    <2> SUFFICES ASSUME NEW t \in Senders, sends'[t].phase \in InLane
                 PROVE  /\ sends'[t].claimed <= Len(log')
                        /\ sends'[t].ticket.writer <= counts'.writer
                        /\ sends'[t].ticket.writer = counts'.writer =>
                               \A m \in (sends'[t].claimed + 1)..Len(log') : log'[m].what # "key"
      BY DEF Untouched
    <2>1. /\ sends[t].phase \in InLane /\ sends'[t].claimed = sends[t].claimed
          /\ sends'[t].ticket = sends[t].ticket
      BY DEF SendsKept
    <2>2. /\ sends[t].claimed <= Len(log) /\ sends[t].ticket.writer <= counts.writer
          /\ sends[t].ticket.writer = counts.writer =>
                 \A m \in (sends[t].claimed + 1)..Len(log) : log[m].what # "key"
      BY <2>1 DEF WriterInv, Untouched
    <2>3. /\ sends[t].claimed \in Nat /\ sends[t].ticket.writer \in Nat
          /\ counts.writer \in Nat /\ counts'.writer \in Nat
      BY DEF WriterInv, WellTyped, TypeOK, Send
    <2>4. ASSUME sends[t].ticket.writer = counts'.writer,
                 NEW m \in (sends[t].claimed + 1)..Len(log')
          PROVE  log'[m].what # "key"
      <3>1. counts.writer = counts'.writer /\ m \in 1..Len(log')
        BY <1>1, <2>2, <2>3, <2>4
      <3>2. CASE m <= Len(log)
        BY <1>1, <2>2, <2>3, <2>4, <3>1, <3>2
      <3>3. CASE m > Len(log)
        BY <1>2, <2>3, <3>1, <3>3
      <3>. QED BY <1>1, <3>1, <3>2, <3>3
    <2>. QED BY <1>1, <2>1, <2>2, <2>3, <2>4
  <1>6. LookedBack' /\ HeldBack'
    <2> SUFFICES ASSUME NEW t \in Senders, sends'[t].phase = "entering"
                 PROVE  /\ sends'[t].looked <= Len(log')
                        /\ \A m \in (sends'[t].claimed + 1)..sends'[t].looked :
                               log'[m].what # "key"
      BY DEF LookedBack, HeldBack, In
    <2>1. /\ sends[t].phase = "entering" /\ sends'[t].looked = sends[t].looked
          /\ sends'[t].claimed = sends[t].claimed
      BY DEF SendsKept, InLane
    <2>2. /\ sends[t].looked <= Len(log)
          /\ \A m \in (sends[t].claimed + 1)..sends[t].looked : log[m].what # "key"
      BY <2>1 DEF WriterInv, LookedBack, HeldBack, In
    <2>3. sends[t].claimed \in Nat /\ sends[t].looked \in Nat
      BY DEF WriterInv, WellTyped, TypeOK, Send
    <2>. QED BY <1>1, <2>1, <2>2, <2>3
  <1>7. OneAtATime'
    <2> SUFFICES ASSUME NEW i \in DOMAIN log', log'[i].what = "enter"
                 PROVE  \E k \in 1..(i - 1) :
                           /\ log'[k] = [log'[i] EXCEPT !.what = "text"]
                           /\ \A m \in (k + 1)..(i - 1) : log'[m].what \in Outside
      BY DEF OneAtATime
    <2>1. i \in 1..Len(log) /\ log'[i] = log[i]
      BY <1>1, <1>2 DEF Outside
    <2>2. PICK k \in 1..(i - 1) :
             /\ log[k] = [log[i] EXCEPT !.what = "text"]
             /\ \A m \in (k + 1)..(i - 1) : log[m].what \in Outside
      BY <1>1, <2>1 DEF WriterInv, OneAtATime
    <2>. QED BY <1>1, <2>1, <2>2
  <1>. QED BY <1>3, <1>4, <1>5, <1>6, <1>7 DEF WriterInv

\* A send that ends leaves the lane to nobody, and nobody else was in it.
LEMMA EndsQuietly ==
    ASSUME WriterInv, WellTyped', NEW t \in Senders, sends[t].phase \in InLane,
           NEW receipt \in BOOLEAN, Ends(t, receipt), UNCHANGED log
    PROVE  WriterInv'
  <1>1. \A u \in Senders : u # t => sends[u].phase \notin InLane /\ sends'[u] = sends[u]
    BY DEF WriterInv, LaneHeld, Ends, To, WellTyped, TypeOK
  <1>2. sends'[t].phase \notin InLane
    <2>1. sends \in [Senders -> Send] /\ Idle.phase = "idle"
      BY DEF WriterInv, WellTyped, TypeOK, Idle
    <2>2. CASE receipt /\ t = "cli"
      BY <2>1, <2>2 DEF Ends, To, InLane, Send
    <2>3. CASE ~(receipt /\ t = "cli")
      BY <2>1, <2>3 DEF Ends, InLane
    <2>. QED BY <2>2, <2>3
  <1>3. SendsKept
    BY <1>1, <1>2 DEF SendsKept
  <1>4. counts' = counts /\ counts.writer \in Nat
    BY DEF Ends, WriterInv, WellTyped, TypeOK
  <1>. QED BY <1>3, <1>4, QuietStep DEF LogKept

LEMMA TurnKeeps == ASSUME WriterInv, WellTyped', NEW t \in Senders, Turn(t) PROVE WriterInv'
  <1>1. /\ lane = Free /\ lane' = t /\ log' = log /\ counts'.writer = counts.writer + 1
        /\ sends'[t].phase = "settle" /\ sends'[t].claimed = Len(log)
        /\ sends'[t].ticket = counts' /\ counts.writer \in Nat /\ counts'.writer \in Nat
        /\ \A u \in Senders \ {t} : sends'[u] = sends[u]
    BY DEF Turn, TakesTurn, WriterInv, WellTyped, TypeOK, Send
  <1>2. \A u \in Senders \ {t} : sends'[u].phase \notin InLane
    <2>1. Free \notin Senders
      BY RequestsAreKnown DEF Free, Senders
    <2>. QED BY <1>1, <2>1 DEF WriterInv, LaneHeld
  <1>3. Len(log) \in Nat
    BY DEF WriterInv, WellTyped, TypeOK
  <1>4. LaneHeld'
    BY <1>1, <1>2 DEF LaneHeld
  <1>5. TextIn' /\ LookedBack' /\ HeldBack'
    BY <1>1, <1>2 DEF TextIn, LookedBack, HeldBack, In, InLane
  <1>6. Untouched'
    BY <1>1, <1>2, <1>3 DEF Untouched
  <1>7. OneAtATime'
    BY <1>1 DEF WriterInv, OneAtATime
  <1>. QED BY <1>4, <1>5, <1>6, <1>7 DEF WriterInv

\* The paste: the lane kept every other sender out.
LEMMA PasteKeeps == ASSUME WriterInv, WellTyped', NEW t \in Senders, Pastes(t) PROVE WriterInv'
  <1>1. CASE Ends(t, FALSE) /\ UNCHANGED log
    BY <1>1, EndsQuietly DEF Pastes, In, InLane
  <1>2. CASE /\ To(t, "pasted") /\ Wrote("text", t, sends[t].of)
             /\ UNCHANGED <<live, prompting, counts, lane, opened, kept, asks, keys, restarts>>
    <2>. DEFINE e == [what |-> "text", by |-> t, of |-> sends[t].of]
    <2>1. /\ sends \in [Senders -> Send] /\ In(t, "pasting") /\ log \in Seq(Entry)
          /\ counts' = counts /\ lane' = lane /\ e \in Entry /\ log' = Append(log, e)
      BY <1>2 DEF WriterInv, WellTyped, TypeOK, Pastes, Wrote, Send, Entry
    <2>2. /\ Len(log) \in Nat /\ Len(log') = Len(log) + 1 /\ DOMAIN log' = 1..Len(log')
          /\ DOMAIN log = 1..Len(log)
          /\ \A i \in 1..Len(log) : log'[i] = log[i]
          /\ log'[Len(log) + 1] = e
      BY <2>1
    <2>3. /\ sends'[t].phase = "pasted" /\ sends'[t].of = sends[t].of
          /\ sends'[t].claimed = sends[t].claimed /\ sends'[t].ticket = sends[t].ticket
          /\ sends[t].claimed \in Nat
          /\ \A u \in Senders \ {t} : sends'[u] = sends[u]
      BY <1>2, <2>1 DEF To, Send
    <2>4. \A u \in Senders \ {t} : sends'[u].phase \notin InLane
      BY <2>1, <2>3 DEF WriterInv, LaneHeld, In, InLane
    <2>5. LaneHeld'
      BY <2>1, <2>3, <2>4 DEF WriterInv, LaneHeld, In, InLane
    <2>6. TextIn'
      <3>1. /\ Len(log) + 1 \in DOMAIN log'
            /\ log'[Len(log) + 1] = [what |-> "text", by |-> t, of |-> sends'[t].of]
            /\ \A m \in (Len(log) + 1 + 1)..Len(log') : log'[m].what \in Outside
        BY <2>2, <2>3
      <3>. QED BY <2>4, <3>1 DEF TextIn, InLane
    <2>7. LookedBack' /\ HeldBack'
      BY <2>3, <2>4 DEF LookedBack, HeldBack, In, InLane
    <2>8. Untouched'
      <3>1. /\ sends[t].claimed <= Len(log) /\ sends[t].ticket.writer <= counts.writer
            /\ sends[t].ticket.writer = counts.writer =>
                   \A m \in (sends[t].claimed + 1)..Len(log) : log[m].what # "key"
        BY <2>1 DEF WriterInv, Untouched, In, InLane
      <3>2. sends[t].claimed <= Len(log')
        BY <2>2, <2>3, <3>1
      <3>3. ASSUME sends[t].ticket.writer = counts.writer,
                   NEW m \in (sends[t].claimed + 1)..Len(log')
            PROVE  log'[m].what # "key"
        <4>1. e.what # "key"
          OBVIOUS
        <4>2. m \in 1..Len(log) \/ m = Len(log) + 1
          BY <2>2, <2>3
        <4>. QED BY <2>2, <2>3, <3>1, <3>3, <4>1, <4>2
      <3>. QED BY <2>1, <2>3, <2>4, <3>1, <3>2, <3>3 DEF Untouched
    <2>9. OneAtATime'
      <3> SUFFICES ASSUME NEW i \in DOMAIN log', log'[i].what = "enter"
                   PROVE  \E k \in 1..(i - 1) :
                             /\ log'[k] = [log'[i] EXCEPT !.what = "text"]
                             /\ \A m \in (k + 1)..(i - 1) : log'[m].what \in Outside
        BY DEF OneAtATime
      <3>1. i \in 1..Len(log) /\ log'[i] = log[i]
        <4>1. e.what # "enter"
          OBVIOUS
        <4>. QED BY <2>2, <4>1
      <3>2. PICK k \in 1..(i - 1) :
               /\ log[k] = [log[i] EXCEPT !.what = "text"]
               /\ \A m \in (k + 1)..(i - 1) : log[m].what \in Outside
        BY <2>2, <3>1 DEF WriterInv, OneAtATime
      <3>. QED BY <2>2, <3>1, <3>2
    <2>. QED BY <2>5, <2>6, <2>7, <2>8, <2>9 DEF WriterInv
  <1>. QED BY <1>1, <1>2 DEF Pastes

\* The last look: nobody claimed the terminal since, so no key went in.
LEMMA LookKeeps ==
    ASSUME WriterInv, WellTyped', NEW t \in Senders, LooksToEnter(t) PROVE WriterInv'
  <1>1. CASE Ends(t, live) /\ UNCHANGED log
    BY <1>1, EndsQuietly DEF LooksToEnter, In, InLane, WriterInv, WellTyped, TypeOK
  <1>2. CASE ~(Ends(t, live) /\ UNCHANGED log)
    <2>1. /\ log' = log /\ counts' = counts /\ lane' = lane /\ ~OtherWriter(t)
          /\ sends' = [sends EXCEPT ![t] = [@ EXCEPT !.phase = "entering", !.looked = Len(log)]]
          /\ In(t, "pasted") /\ sends \in [Senders -> Send] /\ Len(log) \in Nat
      BY <1>2 DEF LooksToEnter, HoldsBack, WriterInv, WellTyped, TypeOK
    <2>2. /\ sends'[t].phase = "entering" /\ sends'[t].of = sends[t].of
          /\ sends'[t].claimed = sends[t].claimed /\ sends'[t].ticket = sends[t].ticket
          /\ sends'[t].looked = Len(log)
          /\ \A u \in Senders \ {t} : sends'[u] = sends[u]
      BY <2>1 DEF Send
    <2>3. \A u \in Senders \ {t} : sends'[u].phase \notin InLane
      BY <2>1, <2>2 DEF WriterInv, LaneHeld, In, InLane
    <2>4. LaneHeld'
      BY <2>1, <2>2, <2>3 DEF WriterInv, LaneHeld, In, InLane
    <2>5. TextIn'
      BY <2>1, <2>2, <2>3 DEF WriterInv, TextIn, In, InLane
    <2>6. Untouched'
      BY <2>1, <2>2, <2>3 DEF WriterInv, Untouched, In, InLane
    <2>7. LookedBack'
      BY <2>1, <2>2, <2>3 DEF LookedBack, InLane
    <2>8. HeldBack'
      BY <2>1, <2>2, <2>3 DEF WriterInv, Untouched, OtherWriter, HeldBack, In, InLane
    <2>9. OneAtATime'
      BY <2>1 DEF WriterInv, OneAtATime
    <2>. QED BY <2>4, <2>5, <2>6, <2>7, <2>8, <2>9 DEF WriterInv
  <1>. QED BY <1>1, <1>2

\* Enter: the text it submits is the last thing of a prompt.
LEMMA EnterKeeps == ASSUME WriterInv, WellTyped', NEW t \in Senders, Enters(t) PROVE WriterInv'
  <1>0. live \in BOOLEAN /\ In(t, "entering") /\ Ends(t, live)
    BY DEF Enters, WriterInv, WellTyped, TypeOK
  <1>1. CASE ~live
    BY <1>0, <1>1, EndsQuietly DEF Enters, In, InLane
  <1>2. CASE live
    <2>. DEFINE e == [what |-> "enter", by |-> t, of |-> sends[t].of]
    <2>1. /\ sends \in [Senders -> Send] /\ log \in Seq(Entry)
          /\ e \in Entry /\ log' = Append(log, e)
      BY <1>2 DEF WriterInv, WellTyped, TypeOK, Enters, Wrote, Send, Entry
    <2>2. /\ Len(log) \in Nat /\ Len(log') = Len(log) + 1 /\ DOMAIN log' = 1..Len(log')
          /\ DOMAIN log = 1..Len(log)
          /\ \A i \in 1..Len(log) : log'[i] = log[i]
          /\ log'[Len(log) + 1] = e
      BY <2>1
    <2>3. \A u \in Senders : sends'[u].phase \notin InLane
      <3>1. \A u \in Senders \ {t} : sends[u].phase \notin InLane
        BY <1>0 DEF WriterInv, LaneHeld, In, InLane
      <3>2. sends'[t].phase \in {"idle", "answering"}
        BY <1>0, <2>1 DEF Ends, To, Idle, Send
      <3>3. \A u \in Senders \ {t} : sends'[u] = sends[u]
        BY <1>0, <2>1 DEF Ends, To
      <3>. QED BY <3>1, <3>2, <3>3 DEF InLane
    <2>4. LaneHeld' /\ TextIn' /\ Untouched' /\ LookedBack' /\ HeldBack'
      BY <2>3 DEF LaneHeld, TextIn, Untouched, LookedBack, HeldBack, In, InLane
    <2>5. OneAtATime'
      <3> SUFFICES ASSUME NEW i \in DOMAIN log', log'[i].what = "enter"
                   PROVE  \E k \in 1..(i - 1) :
                             /\ log'[k] = [log'[i] EXCEPT !.what = "text"]
                             /\ \A m \in (k + 1)..(i - 1) : log'[m].what \in Outside
        BY DEF OneAtATime
      <3>1. CASE i \in 1..Len(log)
        <4>1. PICK k \in 1..(i - 1) :
                 /\ log[k] = [log[i] EXCEPT !.what = "text"]
                 /\ \A m \in (k + 1)..(i - 1) : log[m].what \in Outside
          BY <2>2, <3>1 DEF WriterInv, OneAtATime
        <4>. QED BY <2>2, <3>1, <4>1
      <3>2. CASE i = Len(log) + 1
        <4>1. PICK k \in DOMAIN log :
                 /\ log[k] = [what |-> "text", by |-> t, of |-> sends[t].of]
                 /\ \A m \in (k + 1)..Len(log) : log[m].what \in Outside
          BY <1>0 DEF WriterInv, TextIn, In
        <4>2. [e EXCEPT !.what = "text"] = [what |-> "text", by |-> t, of |-> sends[t].of]
          OBVIOUS
        <4>. HIDE DEF e
        <4>3. [log'[i] EXCEPT !.what = "text"] = log[k]
          BY <2>2, <3>2, <4>1, <4>2
        <4>4. k \in 1..(i - 1) /\ k \in 1..Len(log) /\ i - 1 = Len(log)
          BY <2>2, <3>2, <4>1
        <4>5. log'[k] = [log'[i] EXCEPT !.what = "text"]
          BY <2>2, <4>3, <4>4
        <4>6. \A m \in (k + 1)..(i - 1) : log'[m].what \in Outside
          BY <2>2, <4>1, <4>4
        <4>. QED BY <4>4, <4>5, <4>6
      <3>. QED BY <2>2, <3>1, <3>2
    <2>. QED BY <2>4, <2>5 DEF WriterInv
  <1>. QED BY <1>1, <1>2, <1>0

\* What the user, the commands that begin a prompt and the receipts do.
LEMMA BeginsKeep == ASSUME WriterInv, WellTyped', Begins PROVE WriterInv'
  <1>0. /\ sends \in [Senders -> Send] /\ log \in Seq(Entry) /\ counts.writer \in Nat
        /\ "cli" \in Senders /\ "pointer" \in Senders /\ Openers \subseteq Senders
    BY DEF WriterInv, WellTyped, TypeOK, Senders
  <1>1. ASSUME NEW t \in Senders, sends'[t].phase \in {"queued", "answering"},
               \A u \in Senders \ {t} : sends'[u] = sends[u], lane' = lane
        PROVE  SendsKept
    BY <1>0, <1>1 DEF SendsKept, InLane
  <1>2. ASSUME NEW t \in Senders, NEW of, NEW enter, Queue(t, of, enter), lane' = lane
        PROVE  SendsKept
    <2>. DEFINE s == [Idle EXCEPT !.phase = "queued", !.of = of, !.enter = enter]
    <2>1. s.phase = "queued"
      BY DEF Idle
    <2>2. sends' = [sends EXCEPT ![t] = s]
      BY <1>2 DEF Queue
    <2>. HIDE DEF s
    <2>3. sends'[t].phase = "queued" /\ \A u \in Senders \ {t} : sends'[u] = sends[u]
      BY <1>0, <2>1, <2>2
    <2>. QED BY <1>1, <1>2, <2>3
  <1>3. counts' = counts
    BY DEF Begins, AskText, AskEnter, PointerLine, OpeningPrompt
  <1>4. ASSUME NEW r \in Requests, AskText(r) PROVE LogKept /\ SendsKept
    <2>. DEFINE e == [what |-> "interrupt", by |-> "cli", of |-> r]
    <2>1. e \in Entry /\ e.what \in Outside /\ e.what # "key"
      BY <1>0 DEF Entry, Outside
    <2>2. LogKept
      BY <1>4, <2>1 DEF AskText, Wrote, LogKept
    <2>3. SendsKept
      BY <1>0, <1>4, <1>2 DEF AskText
    <2>. QED BY <2>2, <2>3
  <1>5. ASSUME NEW r \in Requests, AskEnter(r) PROVE LogKept /\ SendsKept
    <2>. DEFINE e == [what |-> "bare", by |-> "cli", of |-> r]
    <2>1. e \in Entry /\ e.what \in Outside /\ e.what # "key"
      BY <1>0 DEF Entry, Outside
    <2>2. LogKept
      BY <1>5, <2>1 DEF AskEnter, Wrote, LogKept
    <2>3. SendsKept
      <3>. DEFINE s == [Idle EXCEPT !.phase = "answering", !.of = r]
      <3>1. s.phase = "answering"
        BY DEF Idle
      <3>2. sends' = [sends EXCEPT !["cli"] = s] /\ lane' = lane
        BY <1>5 DEF AskEnter
      <3>. HIDE DEF s
      <3>3. /\ sends'["cli"].phase = "answering"
            /\ \A u \in Senders \ {"cli"} : sends'[u] = sends[u]
        BY <1>0, <3>1, <3>2
      <3>. QED BY <1>0, <1>1, <3>2, <3>3
    <2>. QED BY <2>2, <2>3
  <1>6. CASE PointerLine
    <2>1. SendsKept /\ LogKept
      BY <1>0, <1>6, <1>2 DEF PointerLine, LogKept
    <2>. QED BY <1>0, <1>3, <2>1, QuietStep
  <1>7. ASSUME NEW t \in Openers, OpeningPrompt(t) PROVE WriterInv'
    <2>1. SendsKept /\ LogKept
      BY <1>0, <1>7, <1>2 DEF OpeningPrompt, LogKept
    <2>. QED BY <1>0, <1>3, <2>1, QuietStep
  <1>. QED BY <1>0, <1>3, <1>4, <1>5, <1>6, <1>7, QuietStep DEF Begins

LEMMA RestKeeps ==
    ASSUME WriterInv, WellTyped',
           \/ Records \/ CannotRecord
           \/ \E cancel \in BOOLEAN : UserTypes(cancel)
           \/ PermissionPrompt \/ TerminalEnds \/ UNCHANGED vars
    PROVE  WriterInv'
  <1>0. sends \in [Senders -> Send] /\ log \in Seq(Entry) /\ counts.writer \in Nat
    BY DEF WriterInv, WellTyped, TypeOK
  <1>1. CASE Records \/ CannotRecord
    <2>1. sends' = [sends EXCEPT !["cli"] = Idle] /\ UNCHANGED <<lane, counts, log>>
      BY <1>1 DEF Records, CannotRecord
    <2>2. SendsKept
      BY <1>0, <2>1 DEF SendsKept, InLane, Idle
    <2>. QED BY <1>0, <2>1, <2>2, QuietStep DEF LogKept
  <1>2. ASSUME NEW cancel \in BOOLEAN, UserTypes(cancel) PROVE WriterInv'
    <2>. DEFINE e == [what |-> "key", by |-> "user", of |-> Line]
    <2>1. e \in Entry /\ e.what \in Outside
      BY DEF Entry, Outside
    <2>2. counts'.writer = counts.writer + 1 /\ sends' = sends /\ lane' = lane
          /\ log' = Append(log, e)
      BY <1>2 DEF UserTypes, Wrote
    <2>3. LogKept
      BY <1>0, <2>1, <2>2 DEF LogKept
    <2>. QED BY <1>0, <2>2, <2>3, QuietStep DEF SendsKept
  <1>3. CASE PermissionPrompt \/ TerminalEnds \/ UNCHANGED vars
    <2>1. UNCHANGED <<sends, lane, counts, log>>
      BY <1>3 DEF PermissionPrompt, TerminalEnds, vars
    <2>. QED BY <1>0, <2>1, QuietStep DEF SendsKept, LogKept
  <1>. QED BY <1>1, <1>2, <1>3

LEMMA RestartKeeps == ASSUME WriterInv, WellTyped', Restart PROVE WriterInv'
  <1>1. log' = log /\ \A t \in Senders : sends'[t].phase = "idle"
    BY DEF Restart, Idle
  <1>. QED BY <1>1 DEF WriterInv, LaneHeld, InLane, TextIn, Untouched, LookedBack, OneAtATime,
              HeldBack, In

\* The inductive invariant of the writers of one terminal.
THEOREM WritersHold == Spec => []WriterInv
  <1>1. Init => WriterInv
    BY InitWriters
  <1>2. WriterInv /\ [Next]_vars => WriterInv'
    <2> SUFFICES ASSUME WriterInv, [Next]_vars PROVE WriterInv'
      OBVIOUS
    <2>0. WellTyped
      BY DEF WriterInv
    <2>1. CASE Begins
      BY <2>0, <2>1, BeginsTyped, BeginsKeep
    <2>2. ASSUME NEW t \in Senders, StepOf(t) PROVE WriterInv'
      <3>0. WellTyped'
        BY <2>0, <2>2, StepsTyped
      <3>1. CASE Turn(t)
        BY <3>0, <3>1, TurnKeeps
      <3>2. CASE LooksToPaste(t)
        <4>1. CASE Ends(t, live /\ Cancelled(t)) /\ UNCHANGED log
          <5>1. (live /\ Cancelled(t)) \in BOOLEAN
            BY <2>0 DEF WellTyped, TypeOK
          <5>. QED BY <3>0, <3>2, <4>1, <5>1, EndsQuietly DEF LooksToPaste, In, InLane
        <4>2. CASE To(t, "pasting") /\ UNCHANGED <<live, prompting, counts, lane, opened, kept,
                                                   asks, keys, restarts, log>>
          <5>1. sends \in [Senders -> Send] /\ counts.writer \in Nat /\ In(t, "settle")
            BY <2>0, <3>2 DEF WellTyped, TypeOK, LooksToPaste
          <5>2. SendsKept
            BY <4>2, <5>1 DEF SendsKept, To, InLane, In, Send
          <5>. QED BY <3>0, <4>2, <5>1, <5>2, QuietStep DEF LogKept
        <4>. QED BY <3>2, <4>1, <4>2 DEF LooksToPaste
      <3>3. CASE Pastes(t)
        BY <3>0, <3>3, PasteKeeps
      <3>4. CASE LooksToEnter(t)
        BY <3>0, <3>4, LookKeeps
      <3>5. CASE Enters(t)
        BY <3>0, <3>5, EnterKeeps
      <3>. QED BY <2>2, <3>1, <3>2, <3>3, <3>4, <3>5 DEF StepOf
    <2>3. CASE Records \/ CannotRecord
      BY <2>0, <2>3, AnswersTyped, RestKeeps
    <2>4. CASE \/ \E cancel \in BOOLEAN : UserTypes(cancel)
               \/ PermissionPrompt \/ TerminalEnds \/ UNCHANGED vars
      BY <2>0, <2>4, RestTyped, RestKeeps
    <2>5. CASE Restart
      BY <2>0, <2>5, RestTyped, RestartKeeps
    <2>. QED BY <2>1, <2>2, <2>3, <2>4, <2>5 DEF Next, Begins
  <1>. QED BY <1>1, <1>2, PTL DEF Spec

\* The terminal, its senders and the receipts stay well formed, and no more
\* receipts are kept than RECEIPTS_KEPT.
THEOREM SendsTyped == Spec => []TypeOK
  <1>1. WriterInv => TypeOK
    BY DEF WriterInv, WellTyped
  <1>. QED BY <1>1, WritersHold, PTL

\* sendonce.rs: what Enter submits is its own text, once, whatever other
\* senders, commands and the user put in meanwhile.
THEOREM NeverMerged == Spec => []OneAtATime
  <1>1. WriterInv => OneAtATime
    BY DEF WriterInv
  <1>. QED BY <1>1, WritersHold, PTL

\* sendonce.rs: a sender that is about to press Enter saw, at its last look, that
\* the user had typed nothing since it claimed the terminal.
THEOREM EnterHeldBack == Spec => []HeldBack
  <1>1. WriterInv => HeldBack
    BY DEF WriterInv
  <1>. QED BY <1>1, WritersHold, PTL

-----------------------------------------------------------------------------
(* Nothing is typed twice.                                                 *)

BeforePaste == {"queued", "settle", "pasting"}

\* What a sender is still to paste was not typed, or nobody knows of it.
NotYet ==
    \A t \in Senders : sends[t].phase \in BeforePaste =>
        sends[t].of = Line \/ sends[t].of \in forgotten \/ Typed(sends[t].of) = {}

\* A request that was typed has its memo or its receipt, or is about to, unless
\* the terminal is gone.
Known ==
    \A r \in Requests \ forgotten :
        \/ Typed(r) = {} \/ ~live \/ Answered(r)
        \/ sends["cli"].of = r /\ sends["cli"].phase \in {"pasted", "entering", "answering"}

\* The opening prompt was handed over once.
HandedOver ==
    /\ Opening \notin forgotten /\ Typed(Opening) # {} => opened
    /\ \A t, u \in Openers : ~In(t, "idle") => opened /\ (~In(u, "idle") => t = u)

Remembered == TypedOnce /\ NotYet /\ Known /\ HandedOver

LEMMA InitRemembered == Init => Remembered
  <1> SUFFICES ASSUME Init PROVE Remembered
    OBVIOUS
  <1>1. \A of : Typed(of) = {}
    BY DEF Init, Typed
  <1>2. \A t \in Senders : sends[t].phase = "idle"
    BY DEF Init, Idle
  <1>. QED BY <1>1, <1>2 DEF Remembered, TypedOnce, NotYet, BeforePaste, Known, HandedOver, In,
              Senders

LEMMA SameTexts ==
    ASSUME Len(log) \in Nat, Len(log') \in Nat,
           Len(log) <= Len(log'), Len(log') <= Len(log) + 1,
           DOMAIN log = 1..Len(log), DOMAIN log' = 1..Len(log'),
           \A i \in 1..Len(log) : log'[i] = log[i],
           log'[Len(log) + 1].what # "text"
    PROVE  \A of : Typed(of)' = Typed(of)
  <1>1. ASSUME NEW i \in DOMAIN log', log'[i].what = "text"
        PROVE  i \in DOMAIN log /\ log'[i] = log[i]
    BY <1>1
  <1>2. ASSUME NEW i \in DOMAIN log PROVE i \in DOMAIN log' /\ log'[i] = log[i]
    OBVIOUS
  <1>3. ASSUME NEW of PROVE Typed(of)' = Typed(of)
    BY <1>1, <1>2 DEF Typed
  <1>. QED BY <1>3

\* What is not a text changes nothing of what was typed.
LEMMA NoText ==
    ASSUME WellTyped,
           log' = log \/ \E e \in Entry : e.what # "text" /\ log' = Append(log, e)
    PROVE  \A of : Typed(of)' = Typed(of)
  <1>1. CASE log' = log
    BY <1>1 DEF Typed
  <1>2. CASE \E e \in Entry : e.what # "text" /\ log' = Append(log, e)
    <2>1. PICK e \in Entry : e.what # "text" /\ log' = Append(log, e)
      BY <1>2
    <2>2. /\ Len(log) \in Nat /\ Len(log') \in Nat
          /\ Len(log) <= Len(log') /\ Len(log') <= Len(log) + 1
          /\ DOMAIN log = 1..Len(log) /\ DOMAIN log' = 1..Len(log')
          /\ \A i \in 1..Len(log) : log'[i] = log[i]
      BY <2>1, LogGrows
    <2>3. log'[Len(log) + 1].what # "text"
      BY <2>1 DEF WellTyped, TypeOK
    <2>. QED BY <2>2, <2>3, SameTexts
  <1>. QED BY <1>1, <1>2

\* A step that types no text, hands nothing over and knows what was known.
LEMMA NothingTyped ==
    ASSUME Remembered, \A of : Typed(of)' = Typed(of), forgotten \subseteq forgotten',
           opened => opened', Known',
           \A t \in Senders :
              /\ sends'[t].phase \in BeforePaste =>
                    sends[t].phase \in BeforePaste /\ sends'[t].of = sends[t].of
              /\ sends[t].phase = "idle" => sends'[t].phase = "idle"
    PROVE  Remembered'
  <1>1. TypedOnce'
    BY DEF Remembered, TypedOnce
  <1>2. NotYet'
    BY DEF Remembered, NotYet
  <1>3. HandedOver'
    BY DEF Remembered, HandedOver, In, Senders
  <1>. QED BY <1>1, <1>2, <1>3 DEF Remembered

\* Known only looks at the command line's sender.
LEMMA KnownKept ==
    ASSUME Remembered, \A of : Typed(of)' = Typed(of), forgotten \subseteq forgotten',
           live' => live, \A r \in Requests \ forgotten' : Answered(r) => Answered(r)',
           \/ ~live'
           \/ sends["cli"].phase \in {"pasted", "entering", "answering"} =>
                  /\ sends'["cli"].of = sends["cli"].of
                  /\ sends'["cli"].phase \in {"pasted", "entering", "answering"}
    PROVE  Known'
  BY DEF Remembered, Known

LEMMA StepsRemember ==
    ASSUME WellTyped, Remembered, NEW t \in Senders, StepOf(t) PROVE Remembered'
  <1>0. /\ sends \in [Senders -> Send] /\ log \in Seq(Entry) /\ live \in BOOLEAN
        /\ OwnPrompts /\ UNCHANGED <<live, opened, receipts, memo, forgotten>>
    BY DEF WellTyped, TypeOK, StepOf, Turn, TakesTurn, LooksToPaste, Pastes, LooksToEnter, Enters,
           Ends, kept
  <1>1. \A r : Answered(r)' = Answered(r)
    BY <1>0 DEF Answered, WithReceipt
  <1>2. \A u \in Senders \ {t} : sends'[u] = sends[u]
    BY <1>0 DEF StepOf, Turn, TakesTurn, LooksToPaste, Pastes, LooksToEnter, Enters, Ends, To
  <1>3. ASSUME \A of : Typed(of)' = Typed(of),
               sends[t].phase # "idle",
               sends'[t].phase \in BeforePaste =>
                  sends[t].phase \in BeforePaste /\ sends'[t].of = sends[t].of,
               \/ ~live \/ t # "cli"
               \/ sends[t].phase \in BeforePaste
               \/ /\ sends'[t].of = sends[t].of
                  /\ sends'[t].phase \in {"pasted", "entering", "answering"}
        PROVE  Remembered'
    <2>1. Known'
      BY <1>0, <1>1, <1>2, <1>3, KnownKept DEF BeforePaste, Senders
    <2>. QED BY <1>0, <1>2, <1>3, <2>1, NothingTyped
  <1>4. CASE Turn(t)
    BY <1>0, <1>3, <1>4, NoText DEF Turn, TakesTurn, In, BeforePaste, Send
  <1>5. CASE LooksToPaste(t)
    <2>1. sends[t].phase = "settle" /\ log' = log
      BY <1>5 DEF LooksToPaste, In
    <2>2. sends'[t].phase \in BeforePaste => sends'[t].of = sends[t].of
      BY <1>0, <1>5 DEF LooksToPaste, Ends, To, Idle, BeforePaste, Send
    <2>. QED BY <1>3, <2>1, <2>2, NoText DEF BeforePaste
  <1>6. CASE Pastes(t) /\ ~live
    <2>1. sends[t].phase = "pasting" /\ log' = log
      BY <1>6 DEF Pastes, In
    <2>2. sends'[t].phase \in BeforePaste => sends'[t].of = sends[t].of
      BY <1>0, <1>6 DEF Pastes, Ends, To, Idle, BeforePaste, Send
    <2>. QED BY <1>3, <2>1, <2>2, NoText DEF BeforePaste
  <1>7. CASE Pastes(t) /\ live
    <2>0. PICK of : of = sends[t].of
      OBVIOUS
    <2>1. /\ sends[t].phase = "pasting" /\ sends'[t].phase = "pasted" /\ sends'[t].of = of
          /\ of \in PromptsOf(t)
      BY <1>0, <1>7, <2>0 DEF Pastes, In, To, OwnPrompts, Send
    <2>2. /\ DOMAIN log = 1..Len(log) /\ Len(log) \in Nat /\ DOMAIN log' = 1..(Len(log) + 1)
          /\ \A i \in 1..Len(log) : log'[i] = log[i]
          /\ log'[Len(log) + 1].what = "text" /\ log'[Len(log) + 1].of = of
      BY <1>0, <1>7, <2>0 DEF Pastes, Wrote
    <2>3. \A i \in Typed(of)' : i \in Typed(of) \/ i = Len(log) + 1
      BY <2>2 DEF Typed
    <2>4. \A x : x # of => Typed(x)' = Typed(x)
      BY <2>2 DEF Typed
    <2>5. of = Line \/ of \in forgotten \/ Typed(of) = {}
      BY <2>0, <2>1 DEF Remembered, NotYet, BeforePaste
    <2>6. TypedOnce'
      <3> SUFFICES ASSUME NEW r \in (Requests \cup {Opening}) \ forgotten,
                          NEW i \in Typed(r)', NEW j \in Typed(r)'
                   PROVE  i = j
        BY <1>0 DEF TypedOnce
      <3>1. CASE r = of
        BY <2>3, <2>5, <3>1, RequestsAreKnown DEF Line, Opening
      <3>2. CASE r # of
        BY <2>4, <3>2 DEF Remembered, TypedOnce
      <3>. QED BY <3>1, <3>2
    <2>7. NotYet'
      <3> SUFFICES ASSUME NEW u \in Senders, sends'[u].phase \in BeforePaste
                   PROVE  \/ sends'[u].of = Line \/ sends'[u].of \in forgotten
                          \/ Typed(sends[u].of)' = {}
        BY <1>0 DEF NotYet
      <3>1. u # t /\ sends'[u] = sends[u]
        BY <1>2, <2>1 DEF BeforePaste
      <3>0. PICK x : x = sends'[u].of
        OBVIOUS
      <3>2. x # of \/ of = Line
        <4>1. sends[u].phase # "idle" /\ sends[u].of \in PromptsOf(u)
          BY <1>0, <3>1 DEF OwnPrompts, In, BeforePaste
        <4>2. ~(u \in Openers /\ t \in Openers)
          BY <2>1, <3>1, <4>1 DEF Remembered, HandedOver, In
        <4>3. (u = "cli" \/ u = "pointer" \/ u \in Openers)
              /\ (t = "cli" \/ t = "pointer" \/ t \in Openers)
          BY DEF Senders
        <4>. QED BY <2>1, <3>0, <3>1, <4>1, <4>2, <4>3, RequestsAreKnown
                 DEF PromptsOf, Opening, Line
      <3>3. x = Line \/ x \in forgotten \/ Typed(x) = {}
        BY <3>0, <3>1 DEF Remembered, NotYet
      <3>4. x = Line \/ x \in forgotten \/ Typed(x)' = {}
        BY <2>4, <3>2, <3>3
      <3>. QED BY <3>0, <3>4 DEF Typed
    <2>8. Known'
      <3> SUFFICES ASSUME NEW r \in Requests \ forgotten
                   PROVE  \/ Typed(r)' = {} \/ ~live \/ Answered(r)
                          \/ sends'["cli"].of = r
                             /\ sends'["cli"].phase \in {"pasted", "entering", "answering"}
        BY <1>0, <1>1 DEF Known
      <3>1. CASE r = of
        <4>1. t = "cli"
          BY <2>1, <3>1, RequestsAreKnown DEF PromptsOf
        <4>. QED BY <2>1, <3>1, <4>1
      <3>2. CASE r # of
        BY <1>2, <2>1, <2>4, <3>2 DEF Remembered, Known, Senders
      <3>. QED BY <3>1, <3>2
    <2>9. HandedOver'
      <3>1. Opening = of => opened
        <4>1. Opening = of => t \in Openers
          BY <2>1, RequestsAreKnown DEF PromptsOf, Opening, Line, Senders
        <4>. QED BY <2>1, <4>1 DEF Remembered, HandedOver, In
      <3>2. Opening \notin forgotten' /\ Typed(Opening)' # {} => opened'
        BY <1>0, <2>4, <3>1 DEF Remembered, HandedOver
      <3>3. \A u \in Openers : sends'[u].phase # "idle" => sends[u].phase # "idle"
        BY <1>2, <2>1 DEF Senders
      <3>. QED BY <1>0, <3>2, <3>3 DEF Remembered, HandedOver, In
    <2>. QED BY <2>6, <2>7, <2>8, <2>9 DEF Remembered
  <1>8. CASE LooksToEnter(t) \/ Enters(t)
    <2>1. sends[t].phase \in {"pasted", "entering"}
      BY <1>8 DEF LooksToEnter, Enters, In
    <2>2. \A of : Typed(of)' = Typed(of)
      <3>. DEFINE e == [what |-> "enter", by |-> t, of |-> sends[t].of]
      <3>1. e \in Entry /\ e.what # "text"
        BY <1>0 DEF Entry, Send
      <3>2. log' = log \/ log' = Append(log, e)
        BY <1>8 DEF LooksToEnter, Enters, Wrote
      <3>. QED BY <3>1, <3>2, NoText
    <2>3. sends'[t].phase \in {"idle", "answering", "entering"}
      <3>1. CASE Ends(t, live)
        BY <1>0, <3>1 DEF Ends, To, Idle, Send
      <3>2. CASE ~Ends(t, live)
        BY <1>0, <1>8, <3>2 DEF LooksToEnter, Enters, Send
      <3>. QED BY <3>1, <3>2
    <2>4. live /\ t = "cli" => /\ sends'[t].of = sends[t].of
                               /\ sends'[t].phase \in {"entering", "answering"}
      BY <1>0, <1>8 DEF LooksToEnter, Enters, Ends, To, Send
    <2>. QED BY <1>0, <1>3, <2>1, <2>2, <2>3, <2>4 DEF BeforePaste
  <1>. QED BY <1>0, <1>4, <1>5, <1>6, <1>7, <1>8 DEF StepOf

LEMMA BeginsRemember == ASSUME WellTyped, Remembered, Begins PROVE Remembered'
  <1>0. /\ sends \in [Senders -> Send] /\ log \in Seq(Entry)
        /\ "cli" \in Senders /\ "pointer" \in Senders /\ Openers \subseteq Senders
        /\ "cli" \notin Openers /\ "pointer" \notin Openers /\ OwnPrompts
    BY RequestsAreKnown DEF WellTyped, TypeOK, Senders
  <1>1. /\ UNCHANGED <<live, receipts, memo, forgotten>>
        /\ \A r : Answered(r)' = Answered(r)
    BY DEF Begins, AskText, AskEnter, PointerLine, OpeningPrompt, kept, Answered, WithReceipt
  <1>2. \A of : Typed(of)' = Typed(of)
    <2>1. ASSUME NEW r \in Requests
          PROVE  /\ [what |-> "interrupt", by |-> "cli", of |-> r] \in Entry
                 /\ [what |-> "bare", by |-> "cli", of |-> r] \in Entry
      BY <1>0 DEF Entry
    <2>2. \/ log' = log
          \/ \E r \in Requests : \/ log' = Append(log, [what |-> "interrupt", by |-> "cli", of |-> r])
                                \/ log' = Append(log, [what |-> "bare", by |-> "cli", of |-> r])
      BY DEF Begins, AskText, AskEnter, PointerLine, OpeningPrompt, Wrote
    <2>3. log' = log \/ \E e \in Entry : e.what # "text" /\ log' = Append(log, e)
      BY <2>1, <2>2
    <2>. QED BY <2>3, NoText
  <1>3. ASSUME NEW t \in Senders, NEW of \in Requests \cup {Opening, Line},
               sends[t].phase = "idle",
               \A u \in Senders \ {t} : sends'[u] = sends[u],
               sends'[t].of = of, sends'[t].phase \in {"queued", "answering"},
               of = Line \/ of \in forgotten \/ Typed(of) = {},
               t \in Openers \/ (t \notin Openers /\ opened' = opened),
               t \in Openers => ~opened /\ opened'
        PROVE  Remembered'
    <2>1. TypedOnce'
      BY <1>1, <1>2 DEF Remembered, TypedOnce
    <2>2. NotYet'
      <3> SUFFICES ASSUME NEW u \in Senders, sends'[u].phase \in BeforePaste
                   PROVE  \/ sends'[u].of = Line \/ sends'[u].of \in forgotten
                          \/ Typed(sends[u].of)' = {}
        BY <1>1 DEF NotYet
      <3>1. PICK x : x = sends'[u].of
        OBVIOUS
      <3>2. x = Line \/ x \in forgotten \/ Typed(x) = {}
        BY <1>3, <3>1 DEF Remembered, NotYet
      <3>3. x = Line \/ x \in forgotten \/ Typed(x)' = {}
        BY <1>2, <3>2
      <3>. QED BY <3>1, <3>3 DEF Typed
    <2>3. Known'
      <3>1. "cli" # t => sends'["cli"] = sends["cli"]
        BY <1>0, <1>3
      <3>. QED BY <1>0, <1>1, <1>2, <1>3, <3>1 DEF Remembered, Known
    <2>4. HandedOver'
      <3>1. \A u \in Openers : ~opened => sends[u].phase = "idle"
        BY DEF Remembered, HandedOver, In
      <3>2. Opening \notin forgotten' /\ Typed(Opening)' # {} => opened'
        BY <1>1, <1>2, <1>3 DEF Remembered, HandedOver
      <3>3. CASE t \in Openers
        BY <1>0, <1>3, <3>1, <3>2, <3>3 DEF HandedOver, In
      <3>4. CASE t \notin Openers
        BY <1>0, <1>3, <3>2, <3>4 DEF Remembered, HandedOver, In
      <3>. QED BY <3>3, <3>4
    <2>. QED BY <2>1, <2>2, <2>3, <2>4 DEF Remembered
  <1>4. ASSUME NEW t \in Senders, NEW of, NEW enter, Queue(t, of, enter)
        PROVE  /\ sends[t].phase = "idle" /\ \A u \in Senders \ {t} : sends'[u] = sends[u]
               /\ sends'[t].of = of /\ sends'[t].phase \in {"queued", "answering"}
    <2>. DEFINE s == [Idle EXCEPT !.phase = "queued", !.of = of, !.enter = enter]
    <2>1. s.phase = "queued" /\ s.of = of
      BY DEF Idle
    <2>2. sends' = [sends EXCEPT ![t] = s] /\ sends[t].phase = "idle"
      BY <1>4 DEF Queue
    <2>. HIDE DEF s
    <2>. QED BY <1>0, <2>1, <2>2
  <1>5. ASSUME NEW r \in Requests, sends["cli"].phase = "idle", live, ~Answered(r)
        PROVE  r \in forgotten \/ Typed(r) = {}
    BY <1>5 DEF Remembered, Known
  <1>6. ASSUME NEW r \in Requests, AskText(r) PROVE Remembered'
    BY <1>0, <1>3, <1>4, <1>5, <1>6 DEF AskText
  <1>7. ASSUME NEW r \in Requests, AskEnter(r) PROVE Remembered'
    <2>. DEFINE s == [Idle EXCEPT !.phase = "answering", !.of = r]
    <2>1. s.phase = "answering" /\ s.of = r
      BY DEF Idle
    <2>2. /\ sends' = [sends EXCEPT !["cli"] = s] /\ sends["cli"].phase = "idle"
          /\ live /\ ~Answered(r) /\ opened' = opened
      BY <1>7 DEF AskEnter
    <2>. HIDE DEF s
    <2>3. /\ \A u \in Senders \ {"cli"} : sends'[u] = sends[u]
          /\ sends'["cli"].of = r /\ sends'["cli"].phase \in {"queued", "answering"}
      BY <1>0, <2>1, <2>2
    <2>. QED BY <1>0, <1>3, <1>5, <2>2, <2>3
  <1>8. CASE PointerLine
    <2>1. Queue("pointer", Line, TRUE) /\ opened' = opened
      BY <1>8 DEF PointerLine
    <2>2. /\ sends["pointer"].phase = "idle" /\ sends'["pointer"].of = Line
          /\ \A u \in Senders \ {"pointer"} : sends'[u] = sends[u]
          /\ sends'["pointer"].phase \in {"queued", "answering"}
      BY <1>0, <1>4, <2>1
    <2>3. Line \in Requests \cup {Opening, Line}
      OBVIOUS
    <2>. QED BY <1>0, <1>3, <2>1, <2>2, <2>3
  <1>9. ASSUME NEW t \in Openers, OpeningPrompt(t) PROVE Remembered'
    <2>1. ~opened /\ opened' /\ Queue(t, Opening, TRUE)
      BY <1>9 DEF OpeningPrompt
    <2>2. Opening \in forgotten \/ Typed(Opening) = {}
      BY <2>1 DEF Remembered, HandedOver
    <2>. QED BY <1>0, <1>3, <1>4, <2>1, <2>2
  <1>. QED BY <1>6, <1>7, <1>8, <1>9 DEF Begins

\* A receipt that goes is forgotten, and a request is known by the receipt or the
\* memo it got.
LEMMA AnswersRemember ==
    ASSUME WellTyped, Remembered, Records \/ CannotRecord PROVE Remembered'
  <1>0. /\ sends \in [Senders -> Send] /\ "cli" \in Senders
        /\ UNCHANGED <<live, opened, log>> /\ sends["cli"].phase = "answering"
        /\ sends' = [sends EXCEPT !["cli"] = Idle]
    BY DEF WellTyped, TypeOK, Senders, Records, CannotRecord, In
  <1>1. \A of : Typed(of)' = Typed(of)
    BY <1>0 DEF Typed
  <1>2. sends'["cli"].phase = "idle" /\ \A u \in Senders \ {"cli"} : sends'[u] = sends[u]
    BY <1>0 DEF Idle
  <1>3. sends["cli"].of \in Requests
    BY <1>0 DEF WellTyped, OwnPrompts, In, PromptsOf
  <1>4. forgotten \subseteq forgotten'
    BY DEF Records, CannotRecord
  <1>5. \A r \in Requests \ forgotten' :
           Answered(r) \/ r = sends["cli"].of => Answered(r)'
    <2>1. CASE Records
      <3>1. PICK old \in 0..Len(receipts) : receipts' = Recorded(sends["cli"].of, old)
        BY <2>1 DEF Records
      <3>2. \E i \in DOMAIN receipts' : receipts'[i] = sends["cli"].of
        BY <1>3, <3>1, ReceiptIsKept DEF WellTyped, TypeOK
      <3>3. \A x \in WithReceipt \ forgotten' : \E i \in DOMAIN receipts' : receipts'[i] = x
        BY <2>1 DEF Records
      <3>4. WithReceipt' = {receipts'[i] : i \in DOMAIN receipts'}
        BY DEF WithReceipt
      <3>. QED BY <2>1, <3>2, <3>3, <3>4 DEF Answered, Records
    <2>2. CASE CannotRecord
      BY <2>2 DEF CannotRecord, Answered, WithReceipt
    <2>. QED BY <2>1, <2>2
  <1>6. Known'
    BY <1>0, <1>1, <1>4, <1>5 DEF Remembered, Known
  <1>7. \A t \in Senders :
           /\ sends'[t].phase \in BeforePaste =>
                 sends[t].phase \in BeforePaste /\ sends'[t].of = sends[t].of
           /\ sends[t].phase = "idle" => sends'[t].phase = "idle"
    BY <1>0, <1>2 DEF BeforePaste
  <1>. QED BY <1>0, <1>1, <1>4, <1>6, <1>7, NothingTyped

LEMMA RestRemembers ==
    ASSUME WellTyped, Remembered,
           \/ \E cancel \in BOOLEAN : UserTypes(cancel)
           \/ PermissionPrompt \/ TerminalEnds \/ UNCHANGED vars
    PROVE  Remembered'
  <1>0. UNCHANGED <<sends, opened, receipts, memo, forgotten>> /\ (live' => live)
    BY DEF UserTypes, PermissionPrompt, TerminalEnds, vars, kept
  <1>1. \A of : Typed(of)' = Typed(of)
    <2>1. [what |-> "key", by |-> "user", of |-> Line] \in Entry
      BY DEF Entry
    <2>2. log' = log \/ log' = Append(log, [what |-> "key", by |-> "user", of |-> Line])
      BY DEF UserTypes, PermissionPrompt, TerminalEnds, vars, Wrote
    <2>3. log' = log \/ \E e \in Entry : e.what # "text" /\ log' = Append(log, e)
      BY <2>1, <2>2
    <2>. QED BY <2>3, NoText
  <1>2. \A r : Answered(r)' = Answered(r)
    BY <1>0 DEF Answered, WithReceipt
  <1>3. Known'
    BY <1>0, <1>1, <1>2 DEF Remembered, Known
  <1>. QED BY <1>0, <1>1, <1>3, NothingTyped

\* After a restart what has no receipt is forgotten, and nobody is sending.
LEMMA RestartRemembers == ASSUME WellTyped, Remembered, Restart PROVE Remembered'
  <1>0. /\ \A t \in Senders : sends'[t].phase = "idle"
        /\ UNCHANGED <<receipts, log>> /\ forgotten \subseteq forgotten'
        /\ \A r \in (Requests \cup {Opening}) \ forgotten' : r \in WithReceipt \/ Typed(r) = {}
    BY DEF Restart, Idle
  <1>1. \A of : Typed(of)' = Typed(of)
    BY <1>0 DEF Typed
  <1>2. Opening \notin WithReceipt
    BY RequestsAreKnown DEF WithReceipt, WellTyped, TypeOK
  <1>3. TypedOnce'
    BY <1>0, <1>1 DEF Remembered, TypedOnce
  <1>4. NotYet'
    BY <1>0 DEF NotYet, BeforePaste
  <1>5. Known'
    BY <1>0, <1>1 DEF Known, Answered, WithReceipt
  <1>6. HandedOver'
    BY <1>0, <1>1, <1>2 DEF HandedOver, In, Senders
  <1>. QED BY <1>3, <1>4, <1>5, <1>6 DEF Remembered

\* A request, and an opening prompt, is typed once, however often it is asked
\* for, unless Kolux ended before its receipt was written or the receipt made
\* room for newer ones (cli/mod.rs, terminal.send; agents.rs, OPENED).
THEOREM NeverTypedTwice == Spec => []TypedOnce
  <1>1. Init => Remembered
    BY InitRemembered
  <1>2. WriterInv /\ Remembered /\ [Next]_vars => Remembered'
    <2> SUFFICES ASSUME WellTyped, Remembered, [Next]_vars PROVE Remembered'
      BY DEF WriterInv
    <2>1. CASE Begins
      BY <2>1, BeginsRemember
    <2>2. CASE \E t \in Senders : StepOf(t)
      BY <2>2, StepsRemember
    <2>3. CASE Records \/ CannotRecord
      BY <2>3, AnswersRemember
    <2>4. CASE \/ \E cancel \in BOOLEAN : UserTypes(cancel)
               \/ PermissionPrompt \/ TerminalEnds \/ UNCHANGED vars
      BY <2>4, RestRemembers
    <2>5. CASE Restart
      BY <2>5, RestartRemembers
    <2>. QED BY <2>1, <2>2, <2>3, <2>4, <2>5 DEF Next, Begins
  <1>3. Remembered => TypedOnce
    BY DEF Remembered
  <1>. QED BY <1>1, <1>2, <1>3, WritersHold, PTL DEF Spec

=============================================================================
