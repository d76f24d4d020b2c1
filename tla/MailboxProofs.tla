--------------------------- MODULE MailboxProofs ---------------------------
(***************************************************************************)
(* The mailbox, for any panes, Runs, messages, checks and restarts.        *)
(*                                                                         *)
(* What a batch holds is stored mail (Stored), so a message that has just  *)
(* been sent is in no batch yet; a new batch takes what no batch holds and *)
(* leaves out nothing of the mailbox it takes from.  That makes batches    *)
(* disjoint, keeps the order of arrival and is all the promise of          *)
(* MailDelivery needs.  A wait carries the epoch of its pane, and tying    *)
(* the pane to a Run only ever raises it (Behind).                         *)
(***************************************************************************)
EXTENDS Mailbox, TLAPS

\* What a batch holds is stored, and it holds something.
Stored ==
    \A n \in DOMAIN deliveries :
        /\ deliveries[n].messages \subseteq DOMAIN messages
        /\ deliveries[n].messages # {}

\* A wait whose pane was not tied anew has its pane's epoch; one whose pane
\* was has an older one.
Behind ==
    \A w \in waits :
        /\ w.since = "same" => w.fence = bindings[w.check.pane].epoch
        /\ w.since = "moved" => w.fence < bindings[w.check.pane].epoch

BatchInv == Stored /\ GivenOnce /\ ArrivalOrder
MailInv == TypeOK /\ BatchInv /\ Behind /\ FencedOff

-----------------------------------------------------------------------------
(* Functions and the parts of a command.                                   *)

\* A function extended by another one.
LEMMA ExtendedIs ==
    ASSUME NEW f, NEW S, NEW v
    PROVE  /\ DOMAIN Extended(f, S, v) = DOMAIN f \cup S
           /\ \A x \in S : Extended(f, S, v)[x] = v[x]
           /\ \A x \in DOMAIN f \ S : Extended(f, S, v)[x] = f[x]
  BY DEF Extended

LEMMA ExtendedType ==
    ASSUME NEW T, NEW f, f \in [DOMAIN f -> T], NEW S, NEW v, \A x \in S : v[x] \in T
    PROVE  Extended(f, S, v) \in [DOMAIN Extended(f, S, v) -> T]
  BY DEF Extended

\* One message at least, or the copies of one, are added to boxes that exist.
Posts ==
    \E k \in 1..MaxMessages :
        /\ TypeOK' /\ BatchInv'
        /\ seq'.msg = seq.msg + k
        /\ DOMAIN messages' = DOMAIN messages \cup (seq.msg + 1)..seq'.msg
        /\ \A i \in DOMAIN messages : messages'[i] = messages[i]
        /\ UNCHANGED <<runs, bindings, deliveries, waits, strayed>>

\* The mail and its batches stay well formed when messages are added to boxes
\* that exist, and the new numbers are those after the last one.
LEMMA AddMail ==
    ASSUME TypeOK, BatchInv, NEW k \in 1..MaxMessages,
           NEW to, \A i \in 1..k : to[i] \in Boxes,
           NEW from \in Panes, NEW kind \in Kinds,
           NEW run, \A i \in 1..k : run[i] \in RunIds \cup {NoRun},
           Add(k, to, from, kind, run)
    PROVE  Posts
  <1> DEFINE New == (seq.msg + 1)..(seq.msg + k)
             v == [i \in New |-> [to |-> to[i - seq.msg], from |-> from, kind |-> kind,
                                  run |-> run[i - seq.msg]]]
  <1>1. /\ MaxMessages \in Nat /\ k \in Nat
        /\ seq.msg \in Nat /\ seq.run \in Nat /\ seq.dlv \in Nat
        /\ DOMAIN messages \subseteq 1..seq.msg
        /\ seq.msg + k <= MaxMessages
    BY BoundsAreNaturals DEF TypeOK, Add
  <1>2. /\ seq' = [seq EXCEPT !.msg = @ + k]
        /\ messages' = Extended(messages, New, v)
        /\ UNCHANGED <<runs, bindings, deliveries, work, live, waits, resets, strayed>>
    BY DEF Add
  <1>3. /\ seq' \in [run: 0..MaxRuns, msg: 0..MaxMessages, dlv: Nat]
        /\ seq'.msg = seq.msg + k /\ seq'.run = seq.run /\ seq'.dlv = seq.dlv
    BY <1>1, <1>2 DEF TypeOK
  <1>4. \A i \in New : v[i] \in Message
    <2> SUFFICES ASSUME NEW i \in New PROVE v[i] \in Message
      OBVIOUS
    <2>1. i - seq.msg \in 1..k
      BY <1>1
    <2>2. to[i - seq.msg] \in Boxes /\ run[i - seq.msg] \in RunIds \cup {NoRun}
      BY <2>1
    <2>. QED BY <2>2 DEF Message
  <1>5. /\ DOMAIN messages' = DOMAIN messages \cup New
        /\ \A i \in New : messages'[i] = v[i]
        /\ \A i \in DOMAIN messages \ New : messages'[i] = messages[i]
    <2> HIDE DEF New, v
    <2>1. /\ DOMAIN Extended(messages, New, v) = DOMAIN messages \cup New
          /\ \A i \in New : Extended(messages, New, v)[i] = v[i]
          /\ \A i \in DOMAIN messages \ New : Extended(messages, New, v)[i] = messages[i]
      BY ExtendedIs
    <2>. QED BY <1>2, <2>1
  <1>6. DOMAIN messages \cap New = {}
    BY <1>1
  <1>7. messages' \in [DOMAIN messages' -> Message]
    <2>1. messages \in [DOMAIN messages -> Message]
      BY DEF TypeOK
    <2>. QED BY <2>1, <1>4, <1>2, ExtendedType
  <1>8. TypeOK'
    <2>1. DOMAIN messages' \subseteq 1..seq'.msg
      BY <1>1, <1>3, <1>5
    <2>. QED BY <1>2, <1>3, <1>7, <2>1 DEF TypeOK
  <1>9. Stored' /\ GivenOnce'
    BY <1>2, <1>5 DEF BatchInv, Stored, GivenOnce
  <1>10. ArrivalOrder'
    <2> SUFFICES ASSUME NEW i \in DOMAIN messages', NEW j \in DOMAIN messages',
                        NEW n \in DOMAIN deliveries, i < j,
                        messages'[i].to = messages'[j].to,
                        messages'[i].kind = messages'[j].kind,
                        j \in deliveries[n].messages
                 PROVE  \E m \in DOMAIN deliveries : m <= n /\ i \in deliveries[m].messages
      BY <1>2 DEF ArrivalOrder
    <2>1. j \in DOMAIN messages
      BY DEF BatchInv, Stored
    <2>2. i \in DOMAIN messages
      BY <1>1, <1>5, <2>1
    <2>3. messages'[i] = messages[i] /\ messages'[j] = messages[j]
      BY <1>5, <1>6, <2>1, <2>2
    <2>. QED BY <2>1, <2>2, <2>3 DEF BatchInv, ArrivalOrder
  <1>. QED BY <1>2, <1>3, <1>5, <1>6, <1>8, <1>9, <1>10 DEF BatchInv, Posts

\* Acknowledging changes neither what a batch holds nor whose it is.
LEMMA AckKeeps ==
    ASSUME NEW ack
    PROVE  /\ DOMAIN AfterAck(ack) = DOMAIN deliveries
           /\ TypeOK => AfterAck(ack) \in [DOMAIN deliveries -> Delivery]
           /\ TypeOK => \A n \in DOMAIN deliveries :
                 /\ AfterAck(ack)[n].messages = deliveries[n].messages
                 /\ AfterAck(ack)[n].acked = (deliveries[n].acked \/ n = ack)
  <1>1. DOMAIN AfterAck(ack) = DOMAIN deliveries
    BY DEF AfterAck
  <1>2. ASSUME TypeOK, NEW n \in DOMAIN deliveries
        PROVE  /\ AfterAck(ack)[n] \in Delivery
               /\ AfterAck(ack)[n].messages = deliveries[n].messages
               /\ AfterAck(ack)[n].acked = (deliveries[n].acked \/ n = ack)
    <2>1. deliveries[n] \in Delivery
      BY <1>2 DEF TypeOK
    <2>2. AfterAck(ack)[n] = IF n = ack THEN [deliveries[n] EXCEPT !.acked = TRUE]
                             ELSE deliveries[n]
      BY <1>2 DEF AfterAck
    <2>3. CASE n = ack
      BY <2>1, <2>2, <2>3 DEF Delivery
    <2>4. CASE n # ack
      BY <2>1, <2>2, <2>4 DEF Delivery
    <2>. QED BY <2>3, <2>4
  <1>3. ASSUME TypeOK PROVE AfterAck(ack) \in [DOMAIN deliveries -> Delivery]
    BY <1>2, <1>3 DEF AfterAck
  <1>. QED BY <1>1, <1>2, <1>3

\* What a look does to the batches: some are acknowledged, and there may be a
\* new one, of everything wanted that no batch holds.
LEMMA LookDoes ==
    ASSUME TypeOK, BatchInv, NEW c \in Checks, NEW ack, Look(c, ack)
    PROVE  LET batch == NewBatch(c, AfterAck(ack)) IN
           /\ \A n \in DOMAIN deliveries :
                 /\ n \in DOMAIN deliveries'
                 /\ deliveries'[n] = AfterAck(ack)[n]
                 /\ n # seq.dlv + 1
           /\ batch = {} => DOMAIN deliveries' = DOMAIN deliveries /\ seq' = seq
           /\ batch # {} =>
                 /\ DOMAIN deliveries' = DOMAIN deliveries \cup {seq.dlv + 1}
                 /\ deliveries'[seq.dlv + 1] =
                       [reader |-> c.of, messages |-> batch, acked |-> FALSE]
                 /\ seq' = [seq EXCEPT !.dlv = @ + 1]
                 /\ batch = Wanted(c) \ Taken(deliveries)
           /\ batch \subseteq DOMAIN messages \ Taken(deliveries)
  <1> DEFINE acked == AfterAck(ack)
             batch == NewBatch(c, acked)
             one == [n \in {seq.dlv + 1} |->
                       [reader |-> c.of, messages |-> batch, acked |-> FALSE]]
  <1>1. /\ DOMAIN acked = DOMAIN deliveries
        /\ \A n \in DOMAIN deliveries : acked[n].messages = deliveries[n].messages
    BY AckKeeps
  <1>2. Taken(acked) = Taken(deliveries)
    BY <1>1 DEF Taken
  <1>3. batch = {} \/ batch = Wanted(c) \ Taken(deliveries)
    BY <1>2 DEF NewBatch, FreshMail
  <1>4. batch \subseteq DOMAIN messages \ Taken(deliveries)
    BY <1>3 DEF Wanted
  <1>5. \A n \in DOMAIN deliveries : n # seq.dlv + 1
    BY DEF TypeOK
  <1>6. CASE batch = {}
    <2>1. deliveries' = acked /\ seq' = seq
      BY <1>6 DEF Look
    <2>. QED BY <1>1, <1>4, <1>5, <1>6, <2>1
  <1>7. CASE batch # {}
    <2>1. /\ seq' = [seq EXCEPT !.dlv = @ + 1]
          /\ deliveries' = Extended(acked, {seq.dlv + 1}, one)
      BY <1>7 DEF Look
    <2>2. /\ DOMAIN deliveries' = DOMAIN acked \cup {seq.dlv + 1}
          /\ deliveries'[seq.dlv + 1] = one[seq.dlv + 1]
          /\ \A n \in DOMAIN acked \ {seq.dlv + 1} : deliveries'[n] = acked[n]
      <3> HIDE DEF acked, one
      <3>. QED BY <2>1, ExtendedIs
    <2>. QED BY <1>1, <1>3, <1>4, <1>5, <1>7, <2>1, <2>2
  <1>. QED BY <1>6, <1>7

\* A look keeps the batches well formed, disjoint and in order.
LEMMA LookMail ==
    ASSUME TypeOK, BatchInv, NEW c \in Checks, NEW ack, Look(c, ack), messages' = messages
    PROVE  /\ seq' \in [run: 0..MaxRuns, msg: 0..MaxMessages, dlv: Nat]
           /\ seq'.run = seq.run /\ seq'.msg = seq.msg
           /\ DOMAIN deliveries' \subseteq 1..seq'.dlv
           /\ deliveries' \in [DOMAIN deliveries' -> Delivery]
           /\ BatchInv'
  <1> DEFINE batch == NewBatch(c, AfterAck(ack))
             new == seq.dlv + 1
  <1>1. /\ seq \in [run: 0..MaxRuns, msg: 0..MaxMessages, dlv: Nat]
        /\ seq.dlv \in Nat /\ DOMAIN deliveries \subseteq 1..seq.dlv
        /\ DOMAIN messages \subseteq 1..seq.msg /\ seq.msg \in Nat
    BY DEF TypeOK
  <1>2. /\ \A n \in DOMAIN deliveries :
              /\ n \in DOMAIN deliveries' /\ n # new
              /\ deliveries'[n] \in Delivery
              /\ deliveries'[n].messages = deliveries[n].messages
        /\ batch = {} => DOMAIN deliveries' = DOMAIN deliveries /\ seq' = seq
        /\ batch # {} =>
              /\ DOMAIN deliveries' = DOMAIN deliveries \cup {new}
              /\ deliveries'[new] = [reader |-> c.of, messages |-> batch, acked |-> FALSE]
              /\ seq' = [seq EXCEPT !.dlv = @ + 1]
              /\ batch = Wanted(c) \ Taken(deliveries)
        /\ batch \subseteq DOMAIN messages \ Taken(deliveries)
    <2>1. \A n \in DOMAIN deliveries : AfterAck(ack)[n] \in Delivery
      BY AckKeeps
    <2>2. \A n \in DOMAIN deliveries : AfterAck(ack)[n].messages = deliveries[n].messages
      BY AckKeeps
    <2>. QED BY <2>1, <2>2, LookDoes
  <1>3. /\ seq' \in [run: 0..MaxRuns, msg: 0..MaxMessages, dlv: Nat]
        /\ seq'.run = seq.run /\ seq'.msg = seq.msg
        /\ DOMAIN deliveries' \subseteq 1..seq'.dlv
    <2>1. CASE batch = {}
      BY <1>1, <1>2, <2>1
    <2>2. CASE batch # {}
      <3>1. seq' = [seq EXCEPT !.dlv = @ + 1]
        BY <1>2, <2>2
      <3>2. seq'.dlv = seq.dlv + 1
        BY <3>1, <1>1
      <3>. QED BY <1>1, <1>2, <2>2, <3>1, <3>2
    <2>. QED BY <2>1, <2>2
  <1>4. batch \subseteq Nat
    BY <1>1, <1>2
  <1>5. batch # {} => deliveries'[new] \in Delivery /\ deliveries'[new].messages = batch
    <2>1. c.of \in Readers
      BY ChecksAreKnown
    <2> HIDE DEF batch, new
    <2>2. [reader |-> c.of, messages |-> batch, acked |-> FALSE] \in Delivery
      BY <1>4, <2>1 DEF Delivery
    <2>. QED BY <1>2, <2>2
  <1>6. deliveries' \in [DOMAIN deliveries' -> Delivery]
    <2>1. \A n \in DOMAIN deliveries' : deliveries'[n] \in Delivery
      BY <1>2, <1>5
    <2>2. deliveries' = [n \in DOMAIN deliveries' |-> deliveries'[n]]
      <3>1. CASE batch = {}
        BY <3>1 DEF Look, AfterAck
      <3>2. CASE batch # {}
        BY <3>2 DEF Look, Extended
      <3>. QED BY <3>1, <3>2
    <2>. QED BY <2>1, <2>2
  <1>7. Stored'
    BY <1>2, <1>5 DEF BatchInv, Stored
  <1>8. \A n \in DOMAIN deliveries : deliveries[n].messages \subseteq Taken(deliveries)
    BY DEF Taken
  <1>9. GivenOnce'
    BY <1>2, <1>5, <1>8 DEF BatchInv, GivenOnce
  <1>10. ArrivalOrder'
    <2> SUFFICES ASSUME NEW i \in DOMAIN messages, NEW j \in DOMAIN messages,
                        NEW n \in DOMAIN deliveries', i < j,
                        messages[i].to = messages[j].to,
                        messages[i].kind = messages[j].kind,
                        j \in deliveries'[n].messages
                 PROVE  \E m \in DOMAIN deliveries' : m <= n /\ i \in deliveries'[m].messages
      BY DEF ArrivalOrder
    <2>1. CASE n \in DOMAIN deliveries
      <3>1. j \in deliveries[n].messages
        BY <1>2, <2>1
      <3>2. PICK m \in DOMAIN deliveries : m <= n /\ i \in deliveries[m].messages
        BY <2>1, <3>1 DEF BatchInv, ArrivalOrder
      <3>. QED BY <1>2, <3>2
    <2>2. CASE n \notin DOMAIN deliveries
      <3>1. batch # {} /\ n = new
        BY <1>2, <2>2
      <3>2. j \in Wanted(c) /\ batch = Wanted(c) \ Taken(deliveries)
        BY <1>2, <1>5, <3>1
      <3>3. i \in Wanted(c)
        BY <3>2 DEF Wanted
      <3>4. CASE i \in Taken(deliveries)
        <4>1. PICK m \in DOMAIN deliveries : i \in deliveries[m].messages
          BY <3>4 DEF Taken
        <4>2. m <= n
          BY <1>1, <3>1, <4>1
        <4>. QED BY <1>2, <4>1, <4>2
      <3>5. CASE i \notin Taken(deliveries)
        BY <1>1, <1>5, <3>1, <3>2, <3>3, <3>5
      <3>. QED BY <3>4, <3>5
    <2>. QED BY <2>1, <2>2
  <1>. QED BY <1>3, <1>6, <1>7, <1>9, <1>10 DEF BatchInv

-----------------------------------------------------------------------------
(* The commands one by one.                                                *)

LEMMA InitMail == Init => MailInv
  <1> SUFFICES ASSUME Init PROVE MailInv
    OBVIOUS
  <1>1. TypeOK
    BY BoundsAreNaturals DEF Init, TypeOK, Message, Delivery, NoRun
  <1>. QED BY <1>1 DEF Init, MailInv, BatchInv, Stored, GivenOnce, ArrivalOrder,
              Behind, FencedOff

\* What leaves the messages and the batches alone.
LEMMA SameBatches ==
    ASSUME BatchInv, messages' = messages, deliveries' = deliveries
    PROVE  BatchInv'
  BY DEF BatchInv, Stored, GivenOnce, ArrivalOrder

\* Tying a pane to a Run leaves every wait of it behind.
LEMMA BindMail ==
    ASSUME TypeOK, Behind, NEW p \in Panes, NEW r \in RunIds, Bind(p, r)
    PROVE  /\ bindings' \in [Panes -> [run: RunIds \cup {NoRun}, epoch: 0..MaxEpoch]]
           /\ waits' \subseteq Wait
           /\ Behind'
  <1> DEFINE Told(w) == IF w.check.pane = p /\ w.since = "same"
                        THEN [w EXCEPT !.since = "moved"] ELSE w
  <1>1. /\ bindings \in [Panes -> [run: RunIds \cup {NoRun}, epoch: 0..MaxEpoch]]
        /\ waits \subseteq Wait /\ MaxEpoch \in Nat
    BY BoundsAreNaturals DEF TypeOK
  <1>2. /\ bindings[p].epoch < MaxEpoch
        /\ bindings' = [bindings EXCEPT ![p] = [run |-> r, epoch |-> @.epoch + 1]]
        /\ waits' = {Told(w) : w \in waits}
    BY DEF Bind
  <1>3. /\ bindings' \in [Panes -> [run: RunIds \cup {NoRun}, epoch: 0..MaxEpoch]]
        /\ bindings'[p].epoch = bindings[p].epoch + 1
        /\ \A q \in Panes : q # p => bindings'[q] = bindings[q]
    <2>1. [run |-> r, epoch |-> bindings[p].epoch + 1]
              \in [run: RunIds \cup {NoRun}, epoch: 0..MaxEpoch]
      BY <1>1, <1>2
    <2>. QED BY <1>1, <1>2, <2>1
  <1>4. ASSUME NEW w \in waits
        PROVE  /\ Told(w) \in Wait
               /\ Told(w).since = "same" =>
                     Told(w).fence = bindings'[Told(w).check.pane].epoch
               /\ Told(w).since = "moved" =>
                     Told(w).fence < bindings'[Told(w).check.pane].epoch
    <2>1. /\ w \in Wait /\ w.check \in Checks /\ w.fence \in Nat
          /\ w.since \in {"same", "moved", "wiped"}
      BY <1>1 DEF Wait
    <2>2. w.check.pane \in Panes
      BY <2>1, ChecksAreKnown
    <2>3. bindings[w.check.pane].epoch \in Nat /\ bindings'[w.check.pane].epoch \in Nat
      BY <1>1, <1>3, <2>2
    <2>4. /\ w.since = "same" => w.fence = bindings[w.check.pane].epoch
          /\ w.since = "moved" => w.fence < bindings[w.check.pane].epoch
      BY DEF Behind
    <2>5. CASE w.check.pane = p /\ w.since = "same"
      <3>1. /\ Told(w) \in Wait /\ Told(w).since = "moved"
            /\ Told(w).fence = w.fence /\ Told(w).check = w.check
        BY <2>1, <2>5 DEF Wait
      <3>. QED BY <1>3, <2>3, <2>4, <2>5, <3>1
    <2>6. CASE ~(w.check.pane = p /\ w.since = "same")
      <3>1. Told(w) = w
        BY <2>6
      <3>2. CASE w.check.pane = p
        BY <1>3, <2>1, <2>3, <2>4, <2>6, <3>1, <3>2
      <3>3. CASE w.check.pane # p
        BY <1>3, <2>1, <2>2, <2>4, <3>1, <3>3
      <3>. QED BY <3>2, <3>3
    <2>. QED BY <2>5, <2>6
  <1> HIDE DEF Told
  <1>. QED BY <1>2, <1>3, <1>4 DEF Behind

LEMMA RunCommandMail ==
    ASSUME MailInv, NEW p \in Coordinators,
           RunCreate(p) \/ \E r \in RunIds : RunUse(p, r)
    PROVE  MailInv'
  <1>1. /\ p \in Panes /\ TypeOK /\ BatchInv /\ Behind /\ FencedOff
        /\ MaxRuns \in Nat
    BY LettersAreKnown, BoundsAreNaturals DEF MailInv
  <1>2. seq \in [run: 0..MaxRuns, msg: 0..MaxMessages, dlv: Nat] /\ runs \subseteq 1..seq.run
    BY <1>1 DEF TypeOK
  <1>3. CASE RunCreate(p)
    <2>1. /\ seq' = [seq EXCEPT !.run = @ + 1] /\ seq.run < MaxRuns
          /\ runs' = runs \cup {seq.run + 1}
          /\ Bind(p, seq.run + 1)
          /\ UNCHANGED <<messages, deliveries, work, live, resets, strayed>>
      BY <1>3 DEF RunCreate
    <2>2. seq.run + 1 \in RunIds
      BY <1>1, <1>2, <2>1 DEF RunIds
    <2>3. /\ seq' \in [run: 0..MaxRuns, msg: 0..MaxMessages, dlv: Nat]
          /\ seq'.run = seq.run + 1 /\ seq'.msg = seq.msg /\ seq'.dlv = seq.dlv
      BY <1>1, <1>2, <2>1
    <2>4. runs' \subseteq 1..seq'.run
      BY <1>2, <2>1, <2>3
    <2>5. TypeOK' /\ Behind'
      BY <1>1, <2>1, <2>2, <2>3, <2>4, BindMail DEF TypeOK
    <2>. QED BY <1>1, <2>1, <2>5, SameBatches DEF MailInv, FencedOff
  <1>4. CASE \E r \in RunIds : RunUse(p, r)
    <2>1. PICK r \in RunIds : RunUse(p, r)
      BY <1>4
    <2>2. /\ Bind(p, r)
          /\ UNCHANGED <<runs, messages, deliveries, seq, work, live, resets, strayed>>
      BY <2>1 DEF RunUse
    <2>3. TypeOK' /\ Behind'
      BY <1>1, <2>2, BindMail DEF TypeOK
    <2>. QED BY <1>1, <2>2, <2>3, SameBatches DEF MailInv, FencedOff
  <1>. QED BY <1>3, <1>4

\* The Run of a box is a Run or none.
LEMMA RunOfBoxType ==
    ASSUME TypeOK, NEW box \in Boxes
    PROVE  RunOfBox(box) \in RunIds \cup {NoRun}
  <1>1. CASE box \in {"term"} \X Panes
    <2>1. box[1] = "term" /\ box[2] \in Panes
      BY <1>1
    <2>2. RunOfBox(box) = bindings[box[2]].run
      BY <2>1 DEF RunOfBox
    <2>. QED BY <2>1, <2>2 DEF TypeOK
  <1>2. CASE box \in {"run"} \X RunIds
    BY <1>2 DEF RunOfBox
  <1>3. CASE box \in {"dispatch"} \X Dispatches
    <2>1. box[1] = "dispatch" /\ box[2] \in Dispatches
      BY <1>3
    <2>2. RunOfBox(box) = RunOf[box[2]]
      BY <2>1 DEF RunOfBox
    <2>. QED BY <2>1, <2>2, DispatchesAreKnown
  <1>. QED BY <1>1, <1>2, <1>3 DEF Boxes

\* Where one message is added there is room for one.
LEMMA OneIsEnough ==
    ASSUME TypeOK, NEW to, NEW from, NEW kind, NEW run, Add(1, to, from, kind, run)
    PROVE  1 \in 1..MaxMessages
  <1>1. seq.msg \in Nat /\ MaxMessages \in Nat /\ seq.msg + 1 <= MaxMessages
    BY BoundsAreNaturals DEF TypeOK, Add
  <1>. QED BY <1>1

LEMMA LetterPosts ==
    ASSUME TypeOK, BatchInv, NEW l \in Letters, AnyLetter(l)
    PROVE  Posts
  <1>1. l.from \in Panes /\ l.kind \in Kinds /\ l.box \in Boxes \cup {Group}
    BY LettersAreKnown
  <1>2. CASE l.box = Group
    <2>a. PICK k \in 1..MaxMessages :
             \E to \in [1..k -> Panes] : SendGroup(l.from, k, to, l.kind)
      BY <1>2 DEF AnyLetter
    <2>1. PICK to \in [1..k -> Panes] : SendGroup(l.from, k, to, l.kind)
      BY <2>a
    <2> DEFINE boxes == [i \in 1..k |-> TermBox(to[i])]
               theirs == [i \in 1..k |-> bindings[to[i]].run]
    <2>2. Add(k, boxes, l.from, l.kind, theirs)
      BY <2>1 DEF SendGroup
    <2>3. \A i \in 1..k : boxes[i] \in Boxes /\ theirs[i] \in RunIds \cup {NoRun}
      BY DEF TypeOK, TermBox, Boxes
    <2> HIDE DEF boxes, theirs
    <2>. QED BY <1>1, <2>2, <2>3, AddMail
  <1>3. CASE l.box # Group
    <2>1. Add(1, <<l.box>>, l.from, l.kind, <<RunOfBox(l.box)>>)
      BY <1>3 DEF AnyLetter, Send
    <2>2. l.box \in Boxes /\ RunOfBox(l.box) \in RunIds \cup {NoRun}
      BY <1>1, <1>3, RunOfBoxType
    <2>3. \A i \in 1..1 : /\ <<l.box>>[i] \in Boxes
                          /\ <<RunOfBox(l.box)>>[i] \in RunIds \cup {NoRun}
      BY <2>2
    <2>. QED BY <1>1, <2>1, <2>3, OneIsEnough, AddMail
  <1>. QED BY <1>2, <1>3

LEMMA ReplyPosts ==
    ASSUME TypeOK, BatchInv, NEW p \in Panes, NEW i \in DOMAIN messages, Reply(p, i)
    PROVE  Posts
  <1>1. messages[i] \in Message
    BY DEF TypeOK
  <1>2. messages[i].from \in Panes /\ messages[i].run \in RunIds \cup {NoRun}
    BY <1>1 DEF Message
  <1>3. Add(1, <<TermBox(messages[i].from)>>, p, "status", <<messages[i].run>>)
    BY DEF Reply
  <1>4. /\ \A j \in 1..1 : /\ <<TermBox(messages[i].from)>>[j] \in Boxes
                           /\ <<messages[i].run>>[j] \in RunIds \cup {NoRun}
    BY <1>2 DEF TermBox, Boxes
  <1>. QED BY <1>3, <1>4, LettersAreKnown, OneIsEnough, AddMail

LEMMA PostMail ==
    ASSUME MailInv, Posts PROVE MailInv'
  BY DEF MailInv, Posts, Behind, FencedOff

LEMMA CheckMail ==
    ASSUME MailInv, NEW c \in Checks, NEW ack, NEW wait \in BOOLEAN, Check(c, ack, wait)
    PROVE  MailInv'
  <1>1. /\ TypeOK /\ BatchInv /\ Behind /\ FencedOff /\ c.pane \in Panes
    BY ChecksAreKnown DEF MailInv
  <1>2. /\ Look(c, ack)
        /\ UNCHANGED <<runs, bindings, messages, work, live, resets, strayed>>
        /\ waits' \subseteq waits \cup
              {[check |-> c, fence |-> bindings[c.pane].epoch, since |-> "same"]}
    BY DEF Check
  <1>3. /\ seq' \in [run: 0..MaxRuns, msg: 0..MaxMessages, dlv: Nat]
        /\ seq'.run = seq.run /\ seq'.msg = seq.msg
        /\ DOMAIN deliveries' \subseteq 1..seq'.dlv
        /\ deliveries' \in [DOMAIN deliveries' -> Delivery]
        /\ BatchInv'
    BY <1>1, <1>2, LookMail
  <1>4. [check |-> c, fence |-> bindings[c.pane].epoch, since |-> "same"] \in Wait
    <2>1. bindings[c.pane].epoch \in Nat
      BY <1>1, BoundsAreNaturals DEF TypeOK
    <2>. QED BY <2>1 DEF Wait
  <1>5. TypeOK'
    BY <1>1, <1>2, <1>3, <1>4 DEF TypeOK
  <1>6. Behind'
    BY <1>1, <1>2 DEF Behind
  <1>. QED BY <1>1, <1>2, <1>3, <1>5, <1>6 DEF MailInv, FencedOff

LEMMA PollMail ==
    ASSUME MailInv, NEW w \in waits, Poll(w)
    PROVE  MailInv'
  <1>1. /\ TypeOK /\ BatchInv /\ Behind /\ FencedOff
        /\ w \in Wait /\ w.check \in Checks /\ w.fence \in Nat
        /\ w.check.pane \in Panes
    BY ChecksAreKnown DEF MailInv, TypeOK, Wait
  <1>2. /\ waits' \subseteq waits
        /\ UNCHANGED <<runs, bindings, messages, work, live, resets>>
    BY DEF Poll
  <1>3. Behind'
    BY <1>1, <1>2 DEF Behind
  <1>4. CASE ~MayRead(w.check.pane, w.check.of) \/ Fenced(w)
    <2>1. UNCHANGED <<deliveries, seq, strayed>>
      BY <1>4 DEF Poll
    <2>2. TypeOK'
      BY <1>1, <1>2, <2>1 DEF TypeOK
    <2>. QED BY <1>1, <1>2, <1>3, <2>1, <2>2, SameBatches DEF MailInv, FencedOff
  <1>5. CASE ~(~MayRead(w.check.pane, w.check.of) \/ Fenced(w))
    <2>1. /\ Look(w.check, NoAck)
          /\ strayed' = IF w.since = "moved"
                        THEN strayed \cup NewBatch(w.check, deliveries) ELSE strayed
      BY <1>5 DEF Poll
    <2>2. w.since # "moved"
      <3>1. w.fence = bindings[w.check.pane].epoch
        BY <1>5 DEF Fenced
      <3>. QED BY <1>1, <3>1 DEF Behind
    <2>3. /\ seq' \in [run: 0..MaxRuns, msg: 0..MaxMessages, dlv: Nat]
          /\ seq'.run = seq.run /\ seq'.msg = seq.msg
          /\ DOMAIN deliveries' \subseteq 1..seq'.dlv
          /\ deliveries' \in [DOMAIN deliveries' -> Delivery]
          /\ BatchInv'
      BY <1>1, <1>2, <2>1, LookMail
    <2>4. strayed' = strayed
      BY <2>1, <2>2
    <2>5. TypeOK'
      BY <1>1, <1>2, <2>3, <2>4 DEF TypeOK
    <2>. QED BY <1>1, <1>3, <2>3, <2>4, <2>5 DEF MailInv, FencedOff
  <1>. QED BY <1>4, <1>5

\* What only ends waits, dispatches or terminals leaves the rest as it is.
Quiet ==
    /\ waits' \subseteq waits /\ live' \subseteq Panes
    /\ work' \in [Dispatches -> {"none", "open", "cut", "over"}]
    /\ resets' \in 0..MaxResets
    /\ UNCHANGED <<mail, strayed>>

LEMMA QuietMail ==
    ASSUME MailInv, Quiet PROVE MailInv'
  <1>1. TypeOK'
    BY DEF MailInv, TypeOK, Quiet, mail
  <1>2. BatchInv'
    BY SameBatches DEF MailInv, Quiet, mail
  <1>. QED BY <1>1, <1>2 DEF MailInv, Behind, FencedOff, Quiet, mail

LEMMA TheseAreQuiet ==
    ASSUME TypeOK,
           \/ \E w \in waits : TimesOut(w)
           \/ \E p \in Panes : TerminalCloses(p)
           \/ Restart \/ ResetTasks
           \/ \E d \in Dispatches : DispatchOpens(d) \/ DispatchEnds(d)
    PROVE  Quiet
  <1>1. /\ live \subseteq Panes /\ resets \in 0..MaxResets /\ MaxResets \in Nat
        /\ work \in [Dispatches -> {"none", "open", "cut", "over"}]
    BY BoundsAreNaturals DEF TypeOK
  <1>2. CASE \E w \in waits : TimesOut(w)
    BY <1>1, <1>2 DEF TimesOut, Quiet
  <1>3. CASE \E p \in Panes : TerminalCloses(p)
    BY <1>1, <1>3 DEF TerminalCloses, Quiet
  <1>4. CASE Restart
    BY <1>1, <1>4 DEF Restart, Quiet
  <1>5. CASE ResetTasks
    BY <1>1, <1>5 DEF ResetTasks, Forgotten, Quiet
  <1>6. CASE \E d \in Dispatches : DispatchOpens(d) \/ DispatchEnds(d)
    BY <1>1, <1>6 DEF DispatchOpens, DispatchEnds, Quiet
  <1>. QED BY <1>2, <1>3, <1>4, <1>5, <1>6

LEMMA EmptyMail ==
    ASSUME MailInv, ResetMessages \/ ResetAll PROVE MailInv'
  <1>1. /\ TypeOK /\ Behind /\ FencedOff /\ MaxResets \in Nat /\ MaxEpoch \in Nat
    BY BoundsAreNaturals DEF MailInv
  <1>2. /\ Emptied /\ resets < MaxResets /\ resets' = resets + 1
        /\ UNCHANGED <<seq, live, strayed>>
    BY DEF ResetMessages, ResetAll
  <1>3. DOMAIN messages' = {} /\ DOMAIN deliveries' = {}
    BY <1>2 DEF Emptied
  <1>4. BatchInv'
    BY <1>3 DEF BatchInv, Stored, GivenOnce, ArrivalOrder
  <1>5. /\ messages' \in [DOMAIN messages' -> Message]
        /\ deliveries' \in [DOMAIN deliveries' -> Delivery]
        /\ DOMAIN messages' \subseteq 1..seq'.msg /\ DOMAIN deliveries' \subseteq 1..seq'.dlv
    BY <1>2, <1>3 DEF Emptied
  <1>6. resets' \in 0..MaxResets
    BY <1>1, <1>2 DEF TypeOK
  <1>7. CASE ResetMessages
    <2>1. UNCHANGED <<runs, bindings, work, waits>>
      BY <1>7 DEF ResetMessages
    <2>2. TypeOK'
      BY <1>1, <1>2, <1>5, <1>6, <2>1 DEF TypeOK
    <2>. QED BY <1>1, <1>2, <1>4, <2>1, <2>2 DEF MailInv, Behind, FencedOff
  <1>8. CASE ResetAll
    <2>1. /\ runs' = {} /\ work' = Forgotten
          /\ bindings' = [p \in Panes |-> [run |-> NoRun, epoch |-> 0]]
          /\ waits' = {[w EXCEPT !.since = "wiped"] : w \in waits}
      BY <1>8 DEF ResetAll
    <2>2. \A w \in waits' : w \in Wait /\ w.since = "wiped"
      <3>1. ASSUME NEW w \in waits
            PROVE  /\ [w EXCEPT !.since = "wiped"] \in Wait
                   /\ [w EXCEPT !.since = "wiped"].since = "wiped"
        BY <1>1 DEF TypeOK, Wait
      <3>. QED BY <2>1, <3>1
    <2>3. work' \in [Dispatches -> {"none", "open", "cut", "over"}]
      BY <2>1 DEF Forgotten
    <2>4. TypeOK'
      BY <1>1, <1>2, <1>5, <1>6, <2>1, <2>2, <2>3 DEF TypeOK
    <2>5. Behind'
      BY <2>2 DEF Behind
    <2>. QED BY <1>1, <1>2, <1>4, <2>4, <2>5 DEF MailInv, FencedOff
  <1>. QED BY <1>2, <1>7, <1>8

\* Every step is of one of these kinds.
LEMMA NextMail ==
    ASSUME MailInv, [Next]_vars PROVE MailInv'
  <1>1. TypeOK /\ BatchInv
    BY DEF MailInv
  <1>2. CASE \E p \in Coordinators : RunCreate(p) \/ \E r \in RunIds : RunUse(p, r)
    BY <1>2, RunCommandMail
  <1>3. CASE \E p \in Panes, i \in DOMAIN messages : Reply(p, i)
    BY <1>1, <1>3, ReplyPosts, PostMail
  <1>4. CASE \E l \in Letters : AnyLetter(l)
    BY <1>1, <1>4, LetterPosts, PostMail
  <1>5. CASE \E c \in Checks, ack \in DOMAIN deliveries \cup {NoAck}, wait \in BOOLEAN :
                Check(c, ack, wait)
    BY <1>5, CheckMail
  <1>6. CASE \E w \in waits : Poll(w)
    BY <1>6, PollMail
  <1>7. CASE \/ \E w \in waits : TimesOut(w)
             \/ \E p \in Panes : TerminalCloses(p)
             \/ Restart \/ ResetTasks
             \/ \E d \in Dispatches : DispatchOpens(d) \/ DispatchEnds(d)
    BY <1>1, <1>7, TheseAreQuiet, QuietMail
  <1>8. CASE ResetMessages \/ ResetAll
    BY <1>8, EmptyMail
  <1>9. CASE UNCHANGED vars
    <2>1. Quiet
      BY <1>1, <1>9 DEF vars, mail, Quiet, TypeOK
    <2>. QED BY <2>1, QuietMail
  <1>. QED BY <1>2, <1>3, <1>4, <1>5, <1>6, <1>7, <1>8, <1>9 DEF Next

-----------------------------------------------------------------------------
(* The theorems.                                                           *)

\* Types, batches and fences, in every state the mailbox can reach.
THEOREM MailHolds == Spec => []MailInv
  <1>1. Init => MailInv
    BY InitMail
  <1>2. MailInv /\ [Next]_vars => MailInv'
    BY NextMail
  <1>. QED BY <1>1, <1>2, PTL DEF Spec

\* Every command, poll, reset and restart keeps the mailbox well formed.
THEOREM MailTyped == Spec => []TypeOK
  BY MailHolds, PTL DEF MailInv

\* No message is ever in two batches (orchestration.rs, check).
THEOREM NeverGivenTwice == Spec => []GivenOnce
  BY MailHolds, PTL DEF MailInv, BatchInv

\* A mailbox is read in the order its mail arrived (orchestration.rs, check).
THEOREM InOrder == Spec => []ArrivalOrder
  BY MailHolds, PTL DEF MailInv, BatchInv

\* A wait whose pane was tied to another Run takes nothing (the fence of check).
THEOREM FenceHolds == Spec => []FencedOff
  BY MailHolds, PTL DEF MailInv

-----------------------------------------------------------------------------
(* The mailbox implements MailDelivery.                                    *)

Given == {n \in DOMAIN deliveries : ~deliveries[n].acked}
Batches == {deliveries[n].messages : n \in Given}
Fresh == DOMAIN messages \ Taken(deliveries)

\* The steps of the promise, over what the mailbox keeps.
LEMMA PromiseIs ==
    /\ Promise!Init <=> /\ seq.msg = 0 /\ Fresh = {} /\ Batches = {}
                        /\ Acked(deliveries) = {}
    /\ Promise!Post <=> /\ seq'.msg \in Nat /\ seq'.msg > seq.msg
                        /\ Fresh' = Fresh \cup (seq.msg + 1)..seq'.msg
                        /\ Batches' = Batches /\ Acked(deliveries)' = Acked(deliveries)
    /\ Promise!Turn <=> \E acked \in {{}} \cup {{B} : B \in Batches},
                           given \in {{}} \cup {{B} : B \in (SUBSET Fresh) \ {{}}} :
                              /\ Batches' = (Batches \ acked) \cup given
                              /\ Acked(deliveries)' = Acked(deliveries) \cup UNION acked
                              /\ Fresh' = Fresh \ UNION given
                              /\ seq'.msg = seq.msg
    /\ Promise!Drop <=> /\ Fresh' = {} /\ Batches' = {} /\ Acked(deliveries)' = {}
                        /\ seq'.msg = seq.msg
    /\ UNCHANGED Promise!vars <=> /\ seq'.msg = seq.msg /\ Fresh' = Fresh
                                  /\ Batches' = Batches
                                  /\ Acked(deliveries)' = Acked(deliveries)
  BY DEF Promise!Init, Promise!Post, Promise!Turn, Promise!Drop, Promise!vars,
         Promise!AtMostOneOf, Fresh, Batches, Given

\* No message and no batch changes.
LEMMA SamePromise ==
    ASSUME messages' = messages, deliveries' = deliveries, seq'.msg = seq.msg
    PROVE  UNCHANGED Promise!vars
  BY PromiseIs DEF Fresh, Batches, Given, Acked, Taken

\* A message that was just sent is in no batch.
LEMMA PostsPost ==
    ASSUME MailInv, Posts PROVE Promise!Post
  <1>1. PICK k \in 1..MaxMessages :
           /\ seq'.msg = seq.msg + k
           /\ DOMAIN messages' = DOMAIN messages \cup (seq.msg + 1)..seq'.msg
           /\ deliveries' = deliveries
    BY DEF Posts
  <1>2. /\ seq.msg \in Nat /\ DOMAIN messages \subseteq 1..seq.msg
        /\ Taken(deliveries) \subseteq DOMAIN messages
    BY DEF MailInv, TypeOK, BatchInv, Stored, Taken
  <1>3. seq'.msg \in Nat /\ seq'.msg > seq.msg
    BY <1>1, <1>2, BoundsAreNaturals
  <1>4. Taken(deliveries)' = Taken(deliveries) /\ Acked(deliveries)' = Acked(deliveries)
        /\ Batches' = Batches
    BY <1>1 DEF Taken, Acked, Batches, Given
  <1>5. Fresh' = Fresh \cup (seq.msg + 1)..seq'.msg
    BY <1>1, <1>2, <1>4 DEF Fresh
  <1>. QED BY <1>3, <1>4, <1>5, PromiseIs

\* A look acknowledges a batch at most, and gives out fresh messages.
LEMMA LookTurns ==
    ASSUME MailInv, NEW c \in Checks, NEW ack, Look(c, ack), messages' = messages
    PROVE  Promise!Turn
  <1> DEFINE batch == NewBatch(c, AfterAck(ack))
             new == seq.dlv + 1
             acked == IF ack \in Given THEN {deliveries[ack].messages} ELSE {}
             given == IF batch = {} THEN {} ELSE {batch}
  <1>1. TypeOK /\ BatchInv /\ Stored /\ GivenOnce
    BY DEF MailInv, BatchInv
  <1>2. /\ \A n \in DOMAIN deliveries :
              /\ n \in DOMAIN deliveries' /\ n # new
              /\ deliveries'[n].messages = deliveries[n].messages
              /\ deliveries'[n].acked = (deliveries[n].acked \/ n = ack)
              /\ deliveries[n].acked \in BOOLEAN
        /\ batch = {} => DOMAIN deliveries' = DOMAIN deliveries /\ seq' = seq
        /\ batch # {} =>
              /\ DOMAIN deliveries' = DOMAIN deliveries \cup {new}
              /\ deliveries'[new] = [reader |-> c.of, messages |-> batch, acked |-> FALSE]
        /\ batch \subseteq DOMAIN messages \ Taken(deliveries)
    <2>1. \A n \in DOMAIN deliveries :
             /\ AfterAck(ack)[n].messages = deliveries[n].messages
             /\ AfterAck(ack)[n].acked = (deliveries[n].acked \/ n = ack)
      BY <1>1, AckKeeps
    <2>2. \A n \in DOMAIN deliveries : deliveries[n].acked \in BOOLEAN
      BY <1>1 DEF TypeOK, Delivery
    <2>. QED BY <1>1, <2>1, <2>2, LookDoes
  <1>3. batch # {} => deliveries'[new].messages = batch /\ ~deliveries'[new].acked
    BY <1>2
  <1>4. seq'.msg = seq.msg
    BY <1>1, LookMail
  <1>5. ack \in Given => ack \in DOMAIN deliveries
    BY DEF Given
  <1> HIDE DEF batch, new
  <1>6. \A n \in DOMAIN deliveries' : n \in DOMAIN deliveries \/ (batch # {} /\ n = new)
    BY <1>2
  <1>7. Given' = (Given \ {ack}) \cup (IF batch = {} THEN {} ELSE {new})
    BY <1>2, <1>3, <1>6 DEF Given
  <1>8. \A m, n \in DOMAIN deliveries :
           deliveries[m].messages = deliveries[n].messages => m = n
    BY <1>1 DEF Stored, GivenOnce
  <1>9. Batches' = (Batches \ acked) \cup given
    <2>1. \A B : B \in Batches' <=> B \in (Batches \ acked) \cup given
      <3> TAKE B
      <3>1. ASSUME B \in Batches' PROVE B \in (Batches \ acked) \cup given
        <4>1. PICK n \in Given' : B = deliveries'[n].messages
          BY <3>1 DEF Batches
        <4>2. CASE n \in Given \ {ack}
          <5>1. n \in DOMAIN deliveries /\ B = deliveries[n].messages
            BY <1>2, <4>1, <4>2 DEF Given
          <5>2. B \notin acked
            BY <1>5, <1>8, <4>2, <5>1
          <5>. QED BY <4>2, <5>1, <5>2 DEF Batches
        <4>3. CASE n \notin Given \ {ack}
          BY <1>3, <1>7, <4>1, <4>3
        <4>. QED BY <4>2, <4>3
      <3>2. ASSUME B \in Batches \ acked PROVE B \in Batches'
        <4>1. PICK n \in Given : B = deliveries[n].messages
          BY <3>2 DEF Batches
        <4>2. n # ack
          BY <3>2, <4>1
        <4>3. n \in Given' /\ deliveries'[n].messages = B
          BY <1>2, <1>7, <4>1, <4>2 DEF Given
        <4>. QED BY <4>3 DEF Batches
      <3>3. ASSUME B \in given PROVE B \in Batches'
        <4>1. batch # {} /\ B = batch
          BY <3>3
        <4>2. new \in Given' /\ deliveries'[new].messages = B
          BY <1>3, <1>7, <4>1
        <4>. QED BY <4>2 DEF Batches
      <3>. QED BY <3>1, <3>2, <3>3
    <2>. QED BY <2>1
  <1>10. Acked(deliveries)' = Acked(deliveries) \cup UNION acked
    <2>1. \A i : i \in Acked(deliveries)' <=>
              \E n \in DOMAIN deliveries' : deliveries'[n].acked /\ i \in deliveries'[n].messages
      BY DEF Acked
    <2>2. \A i : i \in Acked(deliveries) <=>
              \E n \in DOMAIN deliveries : deliveries[n].acked /\ i \in deliveries[n].messages
      BY DEF Acked
    <2>3. \A i : i \in UNION acked <=> ack \in Given /\ i \in deliveries[ack].messages
      OBVIOUS
    <2>4. \A i : i \in Acked(deliveries)' <=>
              \E n \in DOMAIN deliveries :
                  (deliveries[n].acked \/ n = ack) /\ i \in deliveries[n].messages
      BY <1>2, <1>3, <1>6, <2>1
    <2>5. \A n \in DOMAIN deliveries : n \in Given <=> ~deliveries[n].acked
      BY DEF Given
    <2> HIDE DEF acked
    <2>6. \A i : i \in Acked(deliveries)' <=> i \in Acked(deliveries) \/ i \in UNION acked
      BY <1>5, <2>2, <2>3, <2>4, <2>5
    <2>. QED BY <2>6
  <1>11. Fresh' = Fresh \ UNION given
    <2>1. \A i : i \in Taken(deliveries)' <=>
              \E n \in DOMAIN deliveries' : i \in deliveries'[n].messages
      BY DEF Taken
    <2>2. \A i : i \in Taken(deliveries) <=>
              \E n \in DOMAIN deliveries : i \in deliveries[n].messages
      BY DEF Taken
    <2>3. \A i : i \in Taken(deliveries)' <=> i \in Taken(deliveries) \/ i \in batch
      BY <1>2, <1>3, <1>6, <2>1, <2>2
    <2>4. UNION given = batch
      OBVIOUS
    <2>. QED BY <2>3, <2>4 DEF Fresh
  <1>12. /\ acked \in {{}} \cup {{B} : B \in Batches}
         /\ given \in {{}} \cup {{B} : B \in (SUBSET Fresh) \ {{}}}
    BY <1>2 DEF Batches, Fresh
  <1> HIDE DEF acked, given
  <1>. QED BY <1>4, <1>9, <1>10, <1>11, <1>12, PromiseIs

\* A reset of the mail drops all of it; the numbers go on.
LEMMA EmptyDrops ==
    ASSUME ResetMessages \/ ResetAll PROVE Promise!Drop
  <1>1. DOMAIN messages' = {} /\ DOMAIN deliveries' = {} /\ seq' = seq
    BY DEF ResetMessages, ResetAll, Emptied
  <1>. QED BY <1>1, PromiseIs DEF Fresh, Batches, Given, Acked, Taken

LEMMA StepKeepsPromise ==
    ASSUME MailInv, [Next]_vars
    PROVE  Promise!Next \/ UNCHANGED Promise!vars
  <1>1. TypeOK /\ BatchInv
    BY DEF MailInv
  <1>2. CASE \E p \in Coordinators : RunCreate(p) \/ \E r \in RunIds : RunUse(p, r)
    <2>1. messages' = messages /\ deliveries' = deliveries /\ seq'.msg = seq.msg
      BY <1>1, <1>2 DEF RunCreate, RunUse, TypeOK
    <2>. QED BY <2>1, SamePromise
  <1>3. CASE \E p \in Panes, i \in DOMAIN messages : Reply(p, i)
    BY <1>1, <1>3, ReplyPosts, PostsPost DEF Promise!Next
  <1>4. CASE \E l \in Letters : AnyLetter(l)
    BY <1>1, <1>4, LetterPosts, PostsPost DEF Promise!Next
  <1>5. CASE \E c \in Checks, ack \in DOMAIN deliveries \cup {NoAck}, wait \in BOOLEAN :
                Check(c, ack, wait)
    <2>1. PICK c \in Checks, ack \in DOMAIN deliveries \cup {NoAck} :
             Look(c, ack) /\ messages' = messages
      BY <1>5 DEF Check
    <2>. QED BY <2>1, LookTurns DEF Promise!Next
  <1>6. CASE \E w \in waits : Poll(w)
    <2>1. PICK w \in waits : Poll(w)
      BY <1>6
    <2>2. w.check \in Checks /\ messages' = messages
      BY <1>1, <2>1 DEF TypeOK, Wait, Poll
    <2>3. CASE Look(w.check, NoAck)
      BY <2>2, <2>3, LookTurns DEF Promise!Next
    <2>4. CASE UNCHANGED <<deliveries, seq>>
      BY <2>2, <2>4, SamePromise
    <2>. QED BY <2>1, <2>3, <2>4 DEF Poll
  <1>7. CASE \/ \E w \in waits : TimesOut(w)
             \/ \E p \in Panes : TerminalCloses(p)
             \/ Restart \/ ResetTasks
             \/ \E d \in Dispatches : DispatchOpens(d) \/ DispatchEnds(d)
    <2>1. UNCHANGED <<messages, deliveries, seq>>
      BY <1>1, <1>7, TheseAreQuiet DEF Quiet, mail
    <2>. QED BY <2>1, SamePromise
  <1>8. CASE ResetMessages \/ ResetAll
    BY <1>8, EmptyDrops DEF Promise!Next
  <1>9. CASE UNCHANGED vars
    <2>1. UNCHANGED <<messages, deliveries, seq>>
      BY <1>9 DEF vars
    <2>. QED BY <2>1, SamePromise
  <1>. QED BY <1>2, <1>3, <1>4, <1>5, <1>6, <1>7, <1>8, <1>9 DEF Next

\* Every behaviour of the mailbox is one MailDelivery allows.
THEOREM MailIsDelivered == Spec => KeepsItsPromise
  <1>1. Init => Promise!Init
    BY PromiseIs DEF Init, Fresh, Batches, Given, Acked, Taken
  <1>2. MailInv /\ [Next]_vars => [Promise!Next]_(Promise!vars)
    BY StepKeepsPromise
  <1>. QED BY <1>1, <1>2, MailHolds, PTL DEF Spec, KeepsItsPromise, Promise!Spec

=============================================================================
