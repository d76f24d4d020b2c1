-------------------------- MODULE PointingProofs --------------------------
(***************************************************************************)
(* The pointers, for any panes, Runs, messages and number of lines.        *)
(*                                                                         *)
(* Pointing adds to the mailbox and takes nothing from it: each of its     *)
(* steps is a step of Mailbox or leaves the mail alone, so what is proved  *)
(* of the mailbox holds here.  That a message is counted in one line rests *)
(* on when a pane's mail may have been told: between the paste and its end *)
(* only (Untold), for message numbers never come again (Numbered).         *)
(***************************************************************************)
EXTENDS Pointing, MailboxProofs

\* What a pane is told of, or waits to be, has been sent.
Numbered ==
    \A p \in Panes : told[p] \cup lines[p] \cup Ids(pointers[p].arrivals) \subseteq 1..seq.msg

\* Mail that waits was not told, but while its line is being entered; nor was
\* the mail of a line that is on its way.
Untold ==
    \A p \in Panes :
        /\ pointers[p].typing # "pasted" => Ids(pointers[p].arrivals) \cap told[p] = {}
        /\ pointers[p].typing = "sent" => lines[p] \cap told[p] = {}

\* A message waits once.
WaitsOnce ==
    \A p \in Panes : \A a, b \in pointers[p].arrivals : a.id = b.id => a = b

PointerInv ==
    PTypeOK /\ MailInv /\ WaitingHasRunner /\ Numbered /\ Untold /\ WaitsOnce /\ PointedOnce

-----------------------------------------------------------------------------
\* Every step is a step of the mailbox, or leaves it as it is.
LEMMA PointingMails ==
    ASSUME [PNext]_pvars PROVE [Next]_vars
  <1>1. CASE \E l \in Letters : PSend(l) \/ PAsk(l)
    BY <1>1 DEF PSend, PAsk, Next
  <1>2. CASE \E c \in Checks, ack \in DOMAIN deliveries \cup {NoAck}, wait \in BOOLEAN :
                PCheck(c, ack, wait)
    BY <1>2 DEF PCheck, Next
  <1>3. CASE \E w \in waits : PPoll(w) \/ PollsOn(w)
    BY <1>3 DEF PPoll, PollsOn, Next
  <1>4. CASE PMail
    BY <1>4 DEF PMail, Next
  <1>5. CASE PRestart
    BY <1>5 DEF PRestart, Next
  <1>6. CASE \E p \in Panes :
                \/ \E look \in Looks : Decide(p, look)
                \/ LineGoesIn(p) \/ LineLanded(p) \/ LineFailed(p)
                \/ GracePasses(p) \/ WaitGetsOld(p)
    BY <1>6 DEF Decide, LineGoesIn, LineLanded, LineFailed, GracePasses, WaitGetsOld
  <1>7. CASE UNCHANGED pvars
    BY <1>7 DEF pvars
  <1>. QED BY <1>1, <1>2, <1>3, <1>4, <1>5, <1>6, <1>7 DEF PNext

\* What is proved of the mailbox holds with its pointers.
THEOREM PointingIsMailbox == PSpec => Spec
  <1>1. PInit => Init
    BY DEF PInit
  <1>2. [PNext]_pvars => [Next]_vars
    BY PointingMails
  <1>. QED BY <1>1, <1>2, PTL DEF PSpec, Spec

\* No step of the mailbox lowers the number of the newest message, and what
\* is new has a new number.
LEMMA NumbersGrow ==
    ASSUME MailInv, [Next]_vars
    PROVE  /\ seq.msg \in Nat /\ seq'.msg \in Nat /\ seq.msg <= seq'.msg
           /\ DOMAIN messages' \ DOMAIN messages \subseteq (seq.msg + 1)..seq'.msg
  <1>1. TypeOK /\ BatchInv /\ seq.msg \in Nat
    BY DEF MailInv, TypeOK
  <1>2. CASE Posts
    <2>1. PICK k \in 1..MaxMessages :
             /\ seq'.msg = seq.msg + k
             /\ DOMAIN messages' = DOMAIN messages \cup (seq.msg + 1)..seq'.msg
      BY <1>2 DEF Posts
    <2>. QED BY <1>1, <2>1, BoundsAreNaturals
  <1>3. CASE seq'.msg = seq.msg /\ DOMAIN messages' \subseteq DOMAIN messages
    BY <1>1, <1>3
  <1>4. Posts \/ (seq'.msg = seq.msg /\ DOMAIN messages' \subseteq DOMAIN messages)
    <2>1. CASE \E p \in Coordinators : RunCreate(p) \/ \E r \in RunIds : RunUse(p, r)
      BY <1>1, <2>1 DEF RunCreate, RunUse, TypeOK
    <2>2. CASE \E p \in Panes, i \in DOMAIN messages : Reply(p, i)
      BY <1>1, <2>2, ReplyPosts
    <2>3. CASE \E l \in Letters : AnyLetter(l)
      BY <1>1, <2>3, LetterPosts
    <2>4. CASE \E c \in Checks, ack \in DOMAIN deliveries \cup {NoAck}, wait \in BOOLEAN :
                  Check(c, ack, wait)
      BY <1>1, <2>4, LookMail DEF Check
    <2>5. CASE \E w \in waits : Poll(w)
      <3>1. PICK w \in waits : Poll(w)
        BY <2>5
      <3>2. w.check \in Checks /\ messages' = messages
        BY <1>1, <3>1 DEF TypeOK, Wait, Poll
      <3>3. Look(w.check, NoAck) \/ seq' = seq
        BY <3>1 DEF Poll
      <3>. QED BY <1>1, <3>2, <3>3, LookMail
    <2>6. CASE \/ \E w \in waits : TimesOut(w)
               \/ \E p \in Panes : TerminalCloses(p)
               \/ Restart \/ ResetTasks
               \/ \E d \in Dispatches : DispatchOpens(d) \/ DispatchEnds(d)
      BY <1>1, <2>6, TheseAreQuiet DEF Quiet, mail
    <2>7. CASE ResetMessages \/ ResetAll
      BY <2>7 DEF ResetMessages, ResetAll, Emptied
    <2>8. CASE UNCHANGED vars
      BY <2>8 DEF vars
    <2>. QED BY <2>1, <2>2, <2>3, <2>4, <2>5, <2>6, <2>7, <2>8 DEF Next
  <1>. QED BY <1>2, <1>3, <1>4

-----------------------------------------------------------------------------
(* The pointers, step by step.  Part by part of PointerInv.                *)

PointerTypes ==
    /\ pointers \in [Panes -> Pending]
    /\ waiting \subseteq Panes
    /\ lines \in [Panes -> SUBSET Nat]
    /\ told \in [Panes -> SUBSET Nat]
    /\ twice \subseteq Nat
    /\ \A p \in Panes : Ids(pointers[p].arrivals) \cap pointers[p].seen = {}

Bookkeeping ==
    PointerTypes /\ WaitingHasRunner /\ Numbered /\ Untold /\ WaitsOnce /\ PointedOnce

LEMMA InitPointers == PInit => PointerInv
  <1> SUFFICES ASSUME PInit PROVE PointerInv
    OBVIOUS
  <1>1. MailInv
    BY InitMail DEF PInit
  <1>2. Ids({}) = {}
    BY DEF Ids
  <1>3. Nothing \in Pending
    BY DEF Nothing, Pending
  <1>. QED BY <1>1, <1>2, <1>3 DEF PInit, PointerInv, PTypeOK, MailInv, WaitingHasRunner,
              Numbered, Untold, WaitsOnce, PointedOnce, Nothing

\* Where nothing is told and numbers grow, it is enough to look at each pane.
LEMMA PaneByPane ==
    ASSUME Bookkeeping, seq.msg \in Nat, seq'.msg \in Nat, seq.msg <= seq'.msg,
           pointers' \in [Panes -> Pending], waiting' \subseteq Panes,
           UNCHANGED <<lines, told, twice>>,
           \A p \in Panes :
              /\ Ids(pointers'[p].arrivals)
                     \subseteq Ids(pointers[p].arrivals) \cup (seq.msg + 1)..seq'.msg
              /\ Ids(pointers'[p].arrivals) \cap pointers'[p].seen = {}
              /\ \A a, b \in pointers'[p].arrivals : a.id = b.id => a = b
              /\ pointers'[p].arrivals # {} => pointers'[p].runner
              /\ pointers'[p].typing = "sent" => pointers[p].typing = "sent"
              /\ pointers'[p].typing # "pasted" =>
                    pointers[p].typing # "pasted" \/ pointers'[p].arrivals = {}
    PROVE  Bookkeeping'
  <1>1. PointerTypes'
    BY DEF Bookkeeping, PointerTypes
  <1>2. WaitingHasRunner'
    BY DEF WaitingHasRunner
  <1>3. Numbered'
    <2>1. ASSUME NEW p \in Panes
          PROVE  told[p] \cup lines[p] \cup Ids(pointers'[p].arrivals) \subseteq 1..seq'.msg
      <3>1. told[p] \cup lines[p] \cup Ids(pointers[p].arrivals) \subseteq 1..seq.msg
        BY DEF Bookkeeping, Numbered
      <3>2. 1..seq.msg \subseteq 1..seq'.msg /\ (seq.msg + 1)..seq'.msg \subseteq 1..seq'.msg
        OBVIOUS
      <3>. QED BY <3>1, <3>2
    <2>. QED BY <2>1 DEF Numbered, Ids
  <1>4. Ids({}) = {}
    BY DEF Ids
  <1>5. ASSUME NEW p \in Panes
        PROVE  /\ pointers'[p].typing # "pasted" => Ids(pointers'[p].arrivals) \cap told[p] = {}
               /\ pointers'[p].typing = "sent" => lines[p] \cap told[p] = {}
    <2>1. told[p] \subseteq 1..seq.msg
      BY DEF Bookkeeping, Numbered
    <2>2. told[p] \cap (seq.msg + 1)..seq'.msg = {}
      BY <2>1
    <2>. QED BY <1>4, <2>2 DEF Bookkeeping, Untold
  <1>6. WaitsOnce'
    BY DEF WaitsOnce
  <1>. QED BY <1>1, <1>2, <1>3, <1>5, <1>6 DEF Bookkeeping, Untold, PointedOnce

\* Mail that arrives finds a runner or gets one.
LEMMA SendPointers ==
    ASSUME Bookkeeping, MailInv, TypeOK', [Next]_vars, AfterSend,
           UNCHANGED <<waiting, lines, told, twice>>
    PROVE  Bookkeeping'
  <1> DEFINE New(p) == {j \in DOMAIN messages' \ DOMAIN messages :
                           /\ p \in ReadersOf(messages'[j])
                           /\ j \notin pointers[p].seen \cup Ids(pointers[p].arrivals)}
             came(p) == {ArrivalOf(i) : i \in New(p)}
  <1>1. pointers' = [p \in Panes |-> Arrived(pointers[p], came(p))]
    BY DEF AfterSend
  <1>2. /\ seq.msg \in Nat /\ seq'.msg \in Nat /\ seq.msg <= seq'.msg
        /\ DOMAIN messages' \ DOMAIN messages \subseteq (seq.msg + 1)..seq'.msg
    BY NumbersGrow
  <1>3. ASSUME NEW p \in Panes
        PROVE  /\ came(p) \subseteq Arrival
               /\ Ids(came(p)) \subseteq (seq.msg + 1)..seq'.msg
               /\ Ids(came(p)) \cap pointers[p].seen = {}
               /\ \A a, b \in came(p) : a.id = b.id => a = b
    <2>1. ASSUME NEW i \in New(p)
          PROVE  /\ ArrivalOf(i) \in Arrival /\ ArrivalOf(i).id \in (seq.msg + 1)..seq'.msg
                 /\ ArrivalOf(i).id \notin pointers[p].seen /\ ArrivalOf(i).id = i
      <3>1. messages'[i] \in Message
        BY DEF TypeOK
      <3>2. messages'[i].run \in RunIds \cup {NoRun}
        BY <3>1 DEF Message
      <3>3. i \in (seq.msg + 1)..seq'.msg
        BY <1>2
      <3>. QED BY <1>2, <3>2, <3>3 DEF ArrivalOf, Arrival
    <2> HIDE DEF New
    <2>. QED BY <2>1 DEF Ids
  <1> HIDE DEF came
  <1>4. ASSUME NEW p \in Panes
        PROVE  /\ pointers'[p] \in Pending
               /\ Ids(pointers'[p].arrivals)
                      \subseteq Ids(pointers[p].arrivals) \cup (seq.msg + 1)..seq'.msg
               /\ Ids(pointers'[p].arrivals) \cap pointers'[p].seen = {}
               /\ \A a, b \in pointers'[p].arrivals : a.id = b.id => a = b
               /\ pointers'[p].arrivals # {} => pointers'[p].runner
               /\ pointers'[p].typing = pointers[p].typing
    <2>1. pointers[p] \in Pending
      BY DEF Bookkeeping, PointerTypes
    <2>2. pointers'[p] = [pointers[p] EXCEPT !.arrivals = @ \cup came(p),
                                             !.runner = @ \/ came(p) # {}]
      BY <1>1 DEF Arrived
    <2>3. /\ pointers'[p].arrivals = pointers[p].arrivals \cup came(p)
          /\ pointers'[p].runner = (pointers[p].runner \/ came(p) # {})
          /\ pointers'[p].typing = pointers[p].typing
          /\ pointers'[p].seen = pointers[p].seen
          /\ pointers'[p] \in Pending
      BY <1>3, <2>1, <2>2 DEF Pending
    <2>4. /\ pointers[p].arrivals # {} => pointers[p].runner
          /\ Ids(pointers[p].arrivals) \cap pointers[p].seen = {}
      BY DEF Bookkeeping, PointerTypes, WaitingHasRunner
    <2>5. \A a \in pointers[p].arrivals : a.id \in 1..seq.msg
      BY DEF Bookkeeping, Numbered, Ids
    <2>6. \A a \in came(p) : a.id \in (seq.msg + 1)..seq'.msg
      BY <1>3 DEF Ids
    <2>7. \A a \in pointers[p].arrivals, b \in came(p) : a.id # b.id
      BY <1>2, <2>5, <2>6
    <2>8. \A a, b \in pointers'[p].arrivals : a.id = b.id => a = b
      BY <1>3, <2>3, <2>7 DEF Bookkeeping, WaitsOnce
    <2>9. Ids(pointers'[p].arrivals) = Ids(pointers[p].arrivals) \cup Ids(came(p))
      BY <2>3 DEF Ids
    <2>. QED BY <1>3, <2>3, <2>4, <2>8, <2>9
  <1>5. pointers' \in [Panes -> Pending]
    BY <1>1, <1>4
  <1>. QED BY <1>2, <1>4, <1>5, PaneByPane DEF Bookkeeping, PointerTypes

\* A drained pane waits for nothing.
LEMMA DrainedType ==
    ASSUME NEW q \in Pending
    PROVE  /\ Drained(q) \in Pending /\ Drained(q).arrivals = {}
           /\ Drained(q).typing = q.typing /\ Drained(q).runner = q.runner
  <1>1. Ids(q.arrivals) \subseteq Nat
    BY DEF Ids, Pending, Arrival
  <1>. QED BY <1>1 DEF Drained, Pending

\* A pane that reads its own mail, and every step that leaves the pointers.
LEMMA CheckPointers ==
    ASSUME Bookkeeping, MailInv, [Next]_vars, NEW c \in Checks, NEW wait,
           AfterCheck(c, wait) \/ UNCHANGED <<pointers, waiting>>,
           UNCHANGED <<lines, told, twice>>
    PROVE  Bookkeeping'
  <1>1. /\ seq.msg \in Nat /\ seq'.msg \in Nat /\ seq.msg <= seq'.msg
    BY NumbersGrow
  <1>2. /\ pointers \in [Panes -> Pending] /\ waiting \subseteq Panes
        /\ c.pane \in Panes /\ Ids({}) = {}
        /\ \A p \in Panes : /\ pointers[p].arrivals # {} => pointers[p].runner
                           /\ Ids(pointers[p].arrivals) \cap pointers[p].seen = {}
                           /\ \A a, b \in pointers[p].arrivals : a.id = b.id => a = b
    BY ChecksAreKnown DEF Bookkeeping, PointerTypes, WaitingHasRunner, WaitsOnce, Ids
  <1>3. CASE UNCHANGED <<pointers, waiting>>
    BY <1>1, <1>2, <1>3, PaneByPane
  <1>4. CASE ~UNCHANGED <<pointers, waiting>>
    <2> DEFINE d == [Drained(pointers[c.pane]) EXCEPT !.pointed = "no"]
    <2>1. /\ pointers' = [pointers EXCEPT ![c.pane] = d]
          /\ waiting' \subseteq Panes
      BY <1>2, <1>4 DEF AfterCheck
    <2>2. pointers[c.pane] \in Pending
      BY <1>2
    <2>3. /\ d \in Pending /\ d.arrivals = {} /\ d.typing = pointers[c.pane].typing
      BY <2>2, DrainedType DEF Pending
    <2> HIDE DEF d
    <2>4. /\ pointers' \in [Panes -> Pending] /\ pointers'[c.pane] = d
          /\ \A p \in Panes : p # c.pane => pointers'[p] = pointers[p]
      BY <1>2, <2>1, <2>3
    <2>. QED BY <1>1, <1>2, <2>1, <2>3, <2>4, PaneByPane
  <1>. QED BY <1>3, <1>4

\* The steps of one pane's runner and of time, but for a line that begins or
\* goes in: the pane's mail can only get less.
LEMMA RunnerPointers ==
    ASSUME Bookkeeping, MailInv, NEW p \in Panes, NEW q \in Pending,
           Set(p, q), UNCHANGED <<vars, lines, told, twice>>, waiting' \subseteq Panes,
           q.arrivals \subseteq pointers[p].arrivals,
           Ids(q.arrivals) \cap q.seen = {},
           q.arrivals # {} => q.runner,
           q.typing = "sent" => pointers[p].typing = "sent",
           q.typing # "pasted" => pointers[p].typing # "pasted" \/ q.arrivals = {}
    PROVE  Bookkeeping'
  <1>1. seq.msg \in Nat /\ seq' = seq
    BY DEF MailInv, TypeOK, vars
  <1>2. /\ pointers \in [Panes -> Pending]
        /\ \A o \in Panes : /\ pointers[o].arrivals # {} => pointers[o].runner
                           /\ Ids(pointers[o].arrivals) \cap pointers[o].seen = {}
                           /\ \A a, b \in pointers[o].arrivals : a.id = b.id => a = b
    BY DEF Bookkeeping, PointerTypes, WaitingHasRunner, WaitsOnce
  <1>3. /\ pointers' \in [Panes -> Pending] /\ pointers'[p] = q
        /\ \A o \in Panes : o # p => pointers'[o] = pointers[o]
    BY <1>2 DEF Set
  <1>4. Ids(q.arrivals) \subseteq Ids(pointers[p].arrivals)
    BY DEF Ids
  <1>. QED BY <1>1, <1>2, <1>3, <1>4, PaneByPane

\* What a runner finds when it looks: a part of the pane's mail.
LEMMA LookedType ==
    ASSUME Bookkeeping, NEW p \in Panes, NEW look
    PROVE  /\ Looked(p, look) \in Pending
           /\ Looked(p, look).arrivals \subseteq pointers[p].arrivals
           /\ Ids(Looked(p, look).arrivals) \cap Looked(p, look).seen = {}
           /\ Looked(p, look).typing = pointers[p].typing
           /\ Looked(p, look).runner = pointers[p].runner
           /\ pointers[p] \in Pending
  <1> DEFINE q == pointers[p]
  <1>1. q \in Pending /\ Ids(q.arrivals) \cap q.seen = {}
    BY DEF Bookkeeping, PointerTypes
  <1>2. Keep(p) \subseteq q.arrivals
    BY DEF Keep
  <1>3. q.arrivals \ Keep(p) \subseteq Arrival
    BY <1>1 DEF Pending
  <1>4. Ids(q.arrivals \ Keep(p)) \subseteq Nat
    BY <1>3 DEF Ids, Arrival
  <1>5. /\ Looked(p, look).arrivals = Keep(p)
        /\ Looked(p, look).seen = q.seen \cup Ids(q.arrivals \ Keep(p))
        /\ Looked(p, look).typing = q.typing
        /\ Looked(p, look).runner = q.runner
        /\ Looked(p, look) \in Pending
    BY <1>1, <1>2, <1>4 DEF Looked, Pending
  <1>6. Ids(Keep(p)) \cap Ids(q.arrivals \ Keep(p)) = {}
    BY <1>2 DEF Bookkeeping, WaitsOnce, Ids
  <1>7. Ids(Keep(p)) \subseteq Ids(q.arrivals)
    BY <1>2 DEF Ids
  <1>. QED BY <1>1, <1>2, <1>5, <1>6, <1>7

\* A runner looks, and may begin a line.
LEMMA DecidePointers ==
    ASSUME Bookkeeping, MailInv, NEW p \in Panes, NEW look, Decide(p, look)
    PROVE  Bookkeeping'
  <1> DEFINE q == Looked(p, look)
  <1>1. /\ q \in Pending /\ q.arrivals \subseteq pointers[p].arrivals
        /\ Ids(q.arrivals) \cap q.seen = {}
        /\ q.typing = "no" /\ q.runner
        /\ pointers[p] \in Pending /\ pointers[p].typing = "no" /\ pointers[p].runner
    BY LookedType DEF Decide
  <1>2. /\ UNCHANGED <<vars, waiting, told, twice>>
        /\ waiting' \subseteq Panes /\ Ids({}) = {}
    BY DEF Decide, Bookkeeping, PointerTypes, Ids
  <1>3. CASE Set(p, Nothing) /\ UNCHANGED lines
    <2>1. Nothing \in Pending /\ Nothing.arrivals = {} /\ Nothing.typing = "no"
      BY DEF Nothing, Pending
    <2>. QED BY <1>1, <1>2, <1>3, <2>1, RunnerPointers
  <1>4. CASE q.arrivals = {} /\ Set(p, [q EXCEPT !.runner = FALSE]) /\ UNCHANGED lines
    <2> DEFINE n == [q EXCEPT !.runner = FALSE]
    <2> HIDE DEF q
    <2>1. n \in Pending /\ n.arrivals = {} /\ n.typing = "no"
      BY <1>1, <1>4 DEF Pending
    <2>2. Set(p, n) /\ UNCHANGED lines
      BY <1>4
    <2> HIDE DEF n
    <2>. QED BY <1>1, <1>2, <2>1, <2>2, RunnerPointers
  <1>5. CASE Set(p, [Drained(q) EXCEPT !.runner = FALSE]) /\ UNCHANGED lines
    <2> DEFINE n == [Drained(q) EXCEPT !.runner = FALSE]
    <2> HIDE DEF q
    <2>a. /\ Drained(q) \in Pending /\ Drained(q).arrivals = {}
          /\ Drained(q).typing = "no"
      BY <1>1, DrainedType
    <2>1. n \in Pending /\ n.arrivals = {} /\ n.typing = "no"
      BY <2>a DEF Pending
    <2>2. Set(p, n) /\ UNCHANGED lines
      BY <1>5
    <2> HIDE DEF n
    <2>. QED BY <1>1, <1>2, <2>1, <2>2, RunnerPointers
  <1>6. CASE Set(p, q) /\ UNCHANGED lines
    <2> HIDE DEF q
    <2>. QED BY <1>1, <1>2, <1>6, RunnerPointers
  <1>7. CASE /\ Set(p, [q EXCEPT !.typing = "sent"])
             /\ lines' = [lines EXCEPT ![p] = Ids(q.arrivals)]
    <2> DEFINE n == [q EXCEPT !.typing = "sent"]
    <2> HIDE DEF q
    <2>1. /\ n \in Pending /\ n.arrivals = q.arrivals /\ n.typing = "sent"
          /\ n.runner /\ n.seen = q.seen
      BY <1>1 DEF Pending
    <2>2. /\ Set(p, n) /\ lines' = [lines EXCEPT ![p] = Ids(q.arrivals)]
      BY <1>7
    <2> HIDE DEF n
    <2>3. /\ pointers \in [Panes -> Pending] /\ lines \in [Panes -> SUBSET Nat]
          /\ told' = told /\ twice' = twice /\ seq' = seq
      BY <1>2 DEF Bookkeeping, PointerTypes, vars
    <2>4. Ids(q.arrivals) \subseteq Ids(pointers[p].arrivals) /\ Ids(q.arrivals) \subseteq Nat
      BY <1>1 DEF Ids, Pending, Arrival
    <2>5. /\ pointers' \in [Panes -> Pending] /\ pointers'[p] = n
          /\ lines' \in [Panes -> SUBSET Nat] /\ lines'[p] = Ids(q.arrivals)
          /\ \A o \in Panes : o # p => pointers'[o] = pointers[o] /\ lines'[o] = lines[o]
      BY <2>1, <2>2, <2>3, <2>4 DEF Set
    <2>6. PointerTypes'
      BY <1>1, <1>2, <2>1, <2>3, <2>5 DEF Bookkeeping, PointerTypes
    <2>7. WaitingHasRunner'
      BY <2>1, <2>5 DEF Bookkeeping, WaitingHasRunner
    <2>8. Numbered'
      <3>1. ASSUME NEW o \in Panes
            PROVE  told[o] \cup lines'[o] \cup Ids(pointers'[o].arrivals) \subseteq 1..seq.msg
        BY <2>1, <2>4, <2>5 DEF Bookkeeping, Numbered
      <3>. QED BY <2>3, <3>1 DEF Numbered, Ids
    <2>9. Untold'
      <3>1. Ids(q.arrivals) \cap told[p] = {}
        BY <1>1, <2>4 DEF Bookkeeping, Untold
      <3>2. ASSUME NEW o \in Panes
            PROVE  /\ pointers'[o].typing # "pasted" => Ids(pointers'[o].arrivals) \cap told[o] = {}
                   /\ pointers'[o].typing = "sent" => lines'[o] \cap told[o] = {}
        BY <2>1, <2>5, <3>1 DEF Bookkeeping, Untold
      <3>. QED BY <2>3, <3>2 DEF Untold, Ids
    <2>10. WaitsOnce'
      BY <1>1, <2>1, <2>5 DEF Bookkeeping, WaitsOnce
    <2>. QED BY <2>3, <2>6, <2>7, <2>8, <2>9, <2>10 DEF Bookkeeping, PointedOnce
  <1>. QED BY <1>3, <1>4, <1>5, <1>6, <1>7 DEF Decide

\* The text of a line goes in: nothing it counts was told before.
LEMMA GoesInPointers ==
    ASSUME Bookkeeping, MailInv, NEW p \in Panes, LineGoesIn(p)
    PROVE  Bookkeeping'
  <1> DEFINE n == [pointers[p] EXCEPT !.typing = "pasted"]
  <1>1. /\ pointers \in [Panes -> Pending] /\ told \in [Panes -> SUBSET Nat]
        /\ lines \in [Panes -> SUBSET Nat]
        /\ pointers[p].typing = "sent"
        /\ UNCHANGED <<waiting, lines>> /\ seq' = seq
        /\ pointers' = [pointers EXCEPT ![p] = n]
        /\ told' = [told EXCEPT ![p] = @ \cup lines[p]]
        /\ twice' = twice \cup (lines[p] \cap told[p])
    BY DEF Bookkeeping, PointerTypes, LineGoesIn, Set, vars
  <1>2. /\ n \in Pending /\ n.arrivals = pointers[p].arrivals /\ n.typing = "pasted"
        /\ n.runner = pointers[p].runner /\ n.seen = pointers[p].seen
    BY <1>1 DEF Pending
  <1> HIDE DEF n
  <1>3. lines[p] \cap told[p] = {}
    BY <1>1 DEF Bookkeeping, Untold
  <1>4. twice' = twice
    BY <1>1, <1>3
  <1>5. /\ pointers' \in [Panes -> Pending] /\ pointers'[p] = n
        /\ told' \in [Panes -> SUBSET Nat] /\ told'[p] = told[p] \cup lines[p]
        /\ \A o \in Panes : o # p => pointers'[o] = pointers[o] /\ told'[o] = told[o]
    BY <1>1, <1>2
  <1>6. PointerTypes'
    BY <1>1, <1>2, <1>4, <1>5 DEF Bookkeeping, PointerTypes
  <1>7. WaitingHasRunner'
    BY <1>2, <1>5 DEF Bookkeeping, WaitingHasRunner
  <1>8. Numbered'
    <2>1. ASSUME NEW o \in Panes
          PROVE  told'[o] \cup lines[o] \cup Ids(pointers'[o].arrivals) \subseteq 1..seq.msg
      BY <1>2, <1>5 DEF Bookkeeping, Numbered
    <2>. QED BY <1>1, <2>1 DEF Numbered, Ids
  <1>9. Untold'
    <2>1. ASSUME NEW o \in Panes
          PROVE  /\ pointers'[o].typing # "pasted" => Ids(pointers'[o].arrivals) \cap told'[o] = {}
                 /\ pointers'[o].typing = "sent" => lines[o] \cap told'[o] = {}
      BY <1>2, <1>5 DEF Bookkeeping, Untold
    <2>. QED BY <1>1, <2>1 DEF Untold, Ids
  <1>10. WaitsOnce'
    BY <1>2, <1>5 DEF Bookkeeping, WaitsOnce
  <1>. QED BY <1>4, <1>6, <1>7, <1>8, <1>9, <1>10 DEF Bookkeeping, PointedOnce

\* A line ends, or time passes.
LEMMA LineEndPointers ==
    ASSUME Bookkeeping, MailInv, NEW p \in Panes,
           LineLanded(p) \/ LineFailed(p) \/ GracePasses(p) \/ WaitGetsOld(p)
    PROVE  Bookkeeping'
  <1>1. /\ pointers[p] \in Pending /\ waiting \subseteq Panes /\ Ids({}) = {}
        /\ Ids(pointers[p].arrivals) \cap pointers[p].seen = {}
        /\ pointers[p].arrivals # {} => pointers[p].runner
        /\ pointers \in [Panes -> Pending]
    BY DEF Bookkeeping, PointerTypes, WaitingHasRunner, Ids
  <1>2. CASE LineLanded(p)
    <2> DEFINE n == Landed(pointers[p])
    <2>1. n \in Pending /\ n.arrivals = {} /\ n.typing = "no"
      BY <1>1, DrainedType DEF Landed, Pending
    <2>2. Set(p, n) /\ UNCHANGED <<vars, waiting, lines, told, twice>>
      BY <1>2 DEF LineLanded
    <2> HIDE DEF n
    <2>. QED BY <1>1, <2>1, <2>2, RunnerPointers
  <1>3. CASE LineFailed(p)
    <2> DEFINE n == [pointers[p] EXCEPT !.typing = "no"]
    <2>1. /\ n \in Pending /\ n.arrivals = pointers[p].arrivals /\ n.typing = "no"
          /\ n.runner = pointers[p].runner /\ n.seen = pointers[p].seen
      BY <1>1 DEF Pending
    <2>2. /\ Set(p, n) /\ UNCHANGED <<vars, waiting, lines, told, twice>>
          /\ pointers[p].typing = "sent"
      BY <1>3 DEF LineFailed
    <2> HIDE DEF n
    <2>. QED BY <1>1, <2>1, <2>2, RunnerPointers
  <1>4. CASE GracePasses(p)
    <2> DEFINE n == [pointers[p] EXCEPT !.pointed = "old"]
    <2>1. /\ n \in Pending /\ n.arrivals = pointers[p].arrivals
          /\ n.typing = pointers[p].typing
          /\ n.runner = pointers[p].runner /\ n.seen = pointers[p].seen
      BY <1>1 DEF Pending
    <2>2. Set(p, n) /\ UNCHANGED <<vars, waiting, lines, told, twice>>
      BY <1>4 DEF GracePasses
    <2> HIDE DEF n
    <2>. QED BY <1>1, <2>1, <2>2, RunnerPointers
  <1>5. CASE WaitGetsOld(p)
    <2>1. Set(p, pointers[p])
      BY <1>1, <1>5 DEF WaitGetsOld, Set
    <2>2. UNCHANGED <<vars, lines, told, twice>> /\ waiting' \subseteq Panes
      BY <1>1, <1>5 DEF WaitGetsOld
    <2>. QED BY <1>1, <2>1, <2>2, RunnerPointers
  <1>. QED BY <1>2, <1>3, <1>4, <1>5

\* The pointers begin again with nothing, the history of lines stays.
LEMMA RestartPointers ==
    ASSUME Bookkeeping, PRestart
    PROVE  Bookkeeping'
  <1>1. /\ pointers' = [p \in Panes |-> Nothing] /\ waiting' = {}
        /\ lines' = [p \in Panes |-> {}] /\ UNCHANGED <<told, twice>> /\ seq' = seq
    BY DEF PRestart, Restart, mail
  <1>2. /\ Nothing \in Pending /\ Nothing.arrivals = {} /\ Nothing.typing = "no" /\ Ids({}) = {}
    BY DEF Nothing, Pending, Ids
  <1>3. PointerTypes'
    BY <1>1, <1>2 DEF Bookkeeping, PointerTypes
  <1>4. Numbered'
    BY <1>1, <1>2 DEF Bookkeeping, Numbered
  <1>. QED BY <1>1, <1>2, <1>3, <1>4
           DEF Bookkeeping, WaitingHasRunner, Untold, WaitsOnce, PointedOnce

-----------------------------------------------------------------------------
LEMMA NextPointers ==
    ASSUME PointerInv, [PNext]_pvars
    PROVE  PointerInv'
  <1>1. Bookkeeping /\ MailInv
    BY DEF PointerInv, Bookkeeping, PTypeOK, PointerTypes
  <1>2. [Next]_vars
    BY PointingMails
  <1>3. MailInv' /\ TypeOK'
    BY <1>1, <1>2, NextMail DEF MailInv
  <1>4. seq.msg \in Nat /\ seq'.msg \in Nat /\ seq.msg <= seq'.msg
    BY <1>1, <1>2, NumbersGrow
  <1>. SUFFICES Bookkeeping'
    BY <1>3 DEF PointerInv, Bookkeeping, PTypeOK, PointerTypes
  <1>5. CASE UNCHANGED pointerVars
    <2>1. /\ pointers' = pointers /\ waiting' = waiting /\ UNCHANGED <<lines, told, twice>>
      BY <1>5 DEF pointerVars
    <2>. QED BY <1>1, <1>3, <1>4, <2>1, PaneByPane
             DEF Bookkeeping, PointerTypes, WaitingHasRunner, WaitsOnce
  <1>6. CASE \E l \in Letters : PSend(l)
    BY <1>1, <1>2, <1>3, <1>6, SendPointers DEF PSend
  <1>7. CASE \E c \in Checks, ack \in DOMAIN deliveries \cup {NoAck}, wait \in BOOLEAN :
                PCheck(c, ack, wait)
    BY <1>1, <1>2, <1>7, CheckPointers DEF PCheck
  <1>8. CASE \E w \in waits : PPoll(w) \/ PollsOn(w)
    <2>1. PICK w \in waits : PPoll(w) \/ PollsOn(w)
      BY <1>8
    <2>2. w.check \in Checks
      BY <1>1 DEF MailInv, TypeOK, Wait
    <2>. QED BY <1>1, <1>2, <2>1, <2>2, CheckPointers DEF PPoll, PollsOn
  <1>9. CASE PRestart
    BY <1>1, <1>9, RestartPointers
  <1>10. CASE \E p \in Panes :
                \/ \E look \in Looks : Decide(p, look)
                \/ LineGoesIn(p) \/ LineLanded(p) \/ LineFailed(p)
                \/ GracePasses(p) \/ WaitGetsOld(p)
    BY <1>1, <1>10, DecidePointers, GoesInPointers, LineEndPointers
  <1>. QED BY <1>5, <1>6, <1>7, <1>8, <1>9, <1>10 DEF PNext, PMail, PAsk, pvars, pointerVars

THEOREM PointersHold == PSpec => []PointerInv
  <1>1. PInit => PointerInv
    BY InitPointers
  <1>2. PointerInv /\ [PNext]_pvars => PointerInv'
    BY NextPointers
  <1>. QED BY <1>1, <1>2, PTL DEF PSpec

\* The pointers have their types.
THEOREM PointersTyped == PSpec => []PTypeOK
  <1>1. PointerInv => PTypeOK
    BY DEF PointerInv
  <1>. QED BY <1>1, PointersHold, PTL

\* Mail that waits for a pane has a runner, whoever wrote it and whenever: no
\* runner ends while there is mail for it.
THEOREM NoMailWithoutRunner == PSpec => []WaitingHasRunner
  <1>1. PointerInv => WaitingHasRunner
    BY DEF PointerInv
  <1>. QED BY <1>1, PointersHold, PTL

\* No message is counted in two lines typed into one pane.
THEOREM NeverPointedTwice == PSpec => []PointedOnce
  <1>1. PointerInv => PointedOnce
    BY DEF PointerInv
  <1>. QED BY <1>1, PointersHold, PTL

=============================================================================
