--------------------------- MODULE RequestsProofs ---------------------------
(***************************************************************************)
(* The ledger of Requests, for any requests, limits and number of crashes. *)
(*                                                                         *)
(* The argument is bookkeeping.  Every piece of work done for a key is in  *)
(* exactly one place: under its receipt, in the start under way, among the *)
(* works whose receipt a crash cut off, or among those whose receipt was   *)
(* dropped (Account).  A start under way has no receipt (Unanswered), so   *)
(* the first two are never both there.  What is pending under this process *)
(* is the start under way, and the other way round (OwnPending).           *)
(***************************************************************************)
EXTENDS Requests, TLAPS

Has(S, k) == IF k \in S THEN 1 ELSE 0

\* The key whose work the start under way has done, as a set.
InFlight ==
    IF running # Idle /\ running.phase = "asked" THEN {running.req.key} ELSE {}

Account ==
    \A k \in Keys :
        done[k] = Has(answers, k) + Has(InFlight, k) + cut[k] + forgotten[k]

Unanswered == running # Idle => running.req.key \notin answers

OwnPending ==
    \A k \in Keys :
        /\ pending[k] <= runtime
        /\ pending[k] = runtime <=> running # Idle /\ running.req.key = k

LedgerInv == TypeOK /\ Account /\ Unanswered /\ OwnPending

-----------------------------------------------------------------------------
\* One more for some keys is a count by key again.
LEMMA OneMoreType ==
    ASSUME NEW f \in [Keys -> Nat], NEW S
    PROVE  /\ OneMore(f, S) \in [Keys -> Nat]
           /\ \A k \in Keys : OneMore(f, S)[k] = f[k] + Has(S, k)
  BY DEF OneMore, Has

\* finish moves work from place to place: what it drops is counted as
\* forgotten, and a kept answer is one receipt more.
LEMMA FinishBooks ==
    ASSUME TypeOK, NEW key, NEW kept \in BOOLEAN,
           key = NoKey \/ key \in Keys, key \notin answers,
           Finish(key, kept)
    PROVE  /\ answers' \subseteq Keys
           /\ old' \subseteq answers'
           /\ pending' \in [Keys -> 0..MaxRuntimes]
           /\ forgotten' \in [Keys -> Nat]
           /\ \A k \in Keys :
                 /\ Has(answers', k) + forgotten'[k] =
                       Has(answers, k) + forgotten[k]
                           + (IF kept /\ k = key THEN 1 ELSE 0)
                 /\ pending'[k] = IF k = key THEN 0 ELSE pending[k]
  <1>1. NoKey \notin Keys
    BY DEF Keys
  <1>2. /\ answers \subseteq Keys /\ old \subseteq answers
        /\ pending \in [Keys -> 0..MaxRuntimes]
        /\ forgotten \in [Keys -> Nat] /\ MaxRuntimes \in Nat
    BY LimitsAreNaturals DEF TypeOK
  <1>3. CASE key = NoKey
    BY <1>1, <1>2, <1>3 DEF Finish, ledger, Has
  <1>4. CASE key # NoKey
    <2>1. /\ key \in Keys
          /\ answers' = (answers \ old) \cup (IF kept THEN {key} ELSE {})
          /\ forgotten' = OneMore(forgotten, old)
          /\ old' = {}
          /\ pending' = [pending EXCEPT ![key] = 0]
      BY <1>4 DEF Finish
    <2>2. /\ forgotten' \in [Keys -> Nat]
          /\ \A k \in Keys : forgotten'[k] = forgotten[k] + Has(old, k)
      BY <1>2, <2>1, OneMoreType
    <2>3. \A k \in Keys :
             Has(answers', k) + Has(old, k) =
                 Has(answers, k) + (IF kept /\ k = key THEN 1 ELSE 0)
      BY <1>2, <2>1 DEF Has
    <2>4. \A k \in Keys :
             Has(answers', k) \in Nat /\ Has(answers, k) \in Nat /\ Has(old, k) \in Nat
      BY DEF Has
    <2>5. \A k \in Keys :
             Has(answers', k) + forgotten'[k] =
                 Has(answers, k) + forgotten[k]
                     + (IF kept /\ k = key THEN 1 ELSE 0)
      BY <1>2, <2>2, <2>3, <2>4
    <2>6. /\ pending' \in [Keys -> 0..MaxRuntimes]
          /\ \A k \in Keys : pending'[k] = IF k = key THEN 0 ELSE pending[k]
      BY <1>2, <2>1
    <2>7. answers' \subseteq Keys /\ old' \subseteq answers'
      BY <1>2, <2>1
    <2>. QED BY <2>2, <2>5, <2>6, <2>7
  <1>. QED BY <1>3, <1>4

\* The request taken from the queue is one that can be sent.
LEMMA TakenType ==
    ASSUME TypeOK, Waiting
    PROVE  /\ Head(queue) \in Arrival /\ Tail(queue) \in Seq(Arrival)
           /\ Len(Tail(queue)) <= MaxQueued
           /\ Taken \in Requests /\ Key = Taken.key
           /\ Key = NoKey \/ Key \in Keys
  <1>1. queue \in Seq(Arrival) /\ queue # <<>> /\ Len(queue) <= MaxQueued
    BY DEF TypeOK, Waiting
  <1>2. Head(queue) \in Arrival /\ Tail(queue) \in Seq(Arrival)
        /\ Len(Tail(queue)) = Len(queue) - 1 /\ Len(queue) \in Nat
    BY <1>1
  <1>3. Taken \in Requests
    BY <1>2 DEF Taken, Arrival
  <1>4. MaxQueued \in Nat
    BY LimitsAreNaturals
  <1>. QED BY <1>1, <1>2, <1>3, <1>4 DEF Key, Keys

\* The start under way is of a request that can be sent.
LEMMA RunningType ==
    ASSUME TypeOK, running # Idle
    PROVE  /\ running \in Run /\ running.req \in Requests
           /\ running.req.key = NoKey \/ running.req.key \in Keys
           /\ running.req.flags \in Flags
  BY DEF TypeOK, Run, Keys, Flags

LEMMA InitLedger == Init => LedgerInv
  <1>. SUFFICES ASSUME Init PROVE LedgerInv
    OBVIOUS
  <1>1. MaxRuntimes \in Nat /\ MaxRuntimes # 0 /\ MaxQueued \in Nat
        /\ MaxSends \in Nat /\ MaxResets \in Nat
    BY LimitsAreNaturals
  <1>2. TypeOK
    BY <1>1 DEF Init, TypeOK
  <1>3. Account
    BY DEF Init, Account, Has, InFlight
  <1>. QED BY <1>2, <1>3 DEF Init, LedgerInv, Unanswered, OwnPending

-----------------------------------------------------------------------------
\* The process ends: what was done and has no receipt yet is cut off.
LEMMA RestartLedger ==
    ASSUME LedgerInv, Restart
    PROVE  LedgerInv'
  <1>. USE DEF LedgerInv
  <1>1. /\ runtime < MaxRuntimes /\ runtime' = runtime + 1
        /\ queue' = <<>> /\ running' = Idle /\ finished' = {}
        /\ UNCHANGED <<answers, old, pending, clock, sends, resets, done, forgotten>>
        /\ cut' = OneMore(cut, InFlight)
    BY DEF Restart, Ends, ledger, InFlight
  <1>2. /\ cut' \in [Keys -> Nat]
        /\ \A k \in Keys : cut'[k] = cut[k] + Has(InFlight, k)
    BY <1>1, OneMoreType DEF TypeOK
  <1>3. MaxRuntimes \in Nat /\ MaxQueued \in Nat
    BY LimitsAreNaturals
  <1>4. TypeOK'
    BY <1>1, <1>2, <1>3 DEF TypeOK
  <1>5. Account'
    <2>1. InFlight' = {}
      BY <1>1 DEF InFlight
    <2>2. \A k \in Keys : Has({}, k) = 0 /\ Has(InFlight, k) \in Nat
                          /\ Has(answers, k) \in Nat
      BY DEF Has
    <2>3. \A k \in Keys : Has(answers', k) = Has(answers, k)
      BY <1>1
    <2>4. \A k \in Keys : cut[k] \in Nat /\ forgotten[k] \in Nat /\ done[k] \in Nat
      BY DEF TypeOK
    <2>5. \A k \in Keys :
             done'[k] = Has(answers', k) + Has(InFlight', k) + cut'[k] + forgotten'[k]
      BY <1>1, <1>2, <2>1, <2>2, <2>3, <2>4 DEF Account
    <2>. QED BY <2>5 DEF Account
  <1>6. OwnPending'
    BY <1>1 DEF OwnPending, TypeOK
  <1>. QED BY <1>1, <1>4, <1>5, <1>6 DEF Unanswered

\* Work done and receipted at once, under a key that had no receipt.
LEMMA ServedLedger ==
    ASSUME LedgerInv, Waiting, Fresh(Key), Served, Finish(Key, TRUE),
           done' = OneMore(done, {Key}), UNCHANGED cut
    PROVE  LedgerInv'
  <1>. USE DEF LedgerInv
  <1>1. /\ running = Idle /\ running' = Idle /\ queue' = Tail(queue)
        /\ UNCHANGED <<runtime, finished, clock, sends, resets>>
        /\ Key \notin answers
    BY DEF Waiting, Served, Fresh
  <1>2. /\ Tail(queue) \in Seq(Arrival) /\ Len(Tail(queue)) <= MaxQueued
        /\ Key = NoKey \/ Key \in Keys
    BY TakenType
  <1>3. /\ done' \in [Keys -> Nat]
        /\ \A k \in Keys : done'[k] = done[k] + Has({Key}, k)
    BY OneMoreType DEF TypeOK
  <1>. DEFINE key == Key
  <1>. HIDE DEF key
  <1>4. /\ answers' \subseteq Keys /\ old' \subseteq answers'
        /\ pending' \in [Keys -> 0..MaxRuntimes]
        /\ forgotten' \in [Keys -> Nat]
        /\ \A k \in Keys :
              /\ Has(answers', k) + forgotten'[k] =
                    Has(answers, k) + forgotten[k]
                        + (IF TRUE /\ k = key THEN 1 ELSE 0)
              /\ pending'[k] = IF k = key THEN 0 ELSE pending[k]
    <2>1. Finish(key, TRUE) /\ key \notin answers /\ (key = NoKey \/ key \in Keys)
      BY <1>1, <1>2 DEF key
    <2>. QED BY <2>1, FinishBooks
  <1>5. TypeOK'
    <2>1. answers' \subseteq Keys /\ old' \subseteq answers'
          /\ pending' \in [Keys -> 0..MaxRuntimes]
          /\ forgotten' \in [Keys -> Nat]
      BY <1>4
    <2>2. done' \in [Keys -> Nat]
      BY <1>3
    <2>3. queue' \in Seq(Arrival) /\ Len(queue') <= MaxQueued
      BY <1>1, <1>2
    <2>4. running' = running
      BY <1>1
    <2>5. cut' = cut
      OBVIOUS
    <2>. QED BY <1>1, <2>1, <2>2, <2>3, <2>4, <2>5 DEF TypeOK
  <1>6. Account'
    <2>1. InFlight = {} /\ InFlight' = {}
      BY <1>1 DEF InFlight
    <2>2. \A k \in Keys : /\ Has({}, k) = 0
                          /\ Has(answers, k) \in Nat
                          /\ Has(answers', k) \in Nat
                          /\ Has({Key}, k) = IF k = key THEN 1 ELSE 0
      BY DEF Has, key
    <2>3. \A k \in Keys : /\ cut'[k] = cut[k] /\ cut[k] \in Nat
                          /\ forgotten[k] \in Nat /\ forgotten'[k] \in Nat
                          /\ done[k] \in Nat
      BY <1>4 DEF TypeOK
    <2>4. ASSUME NEW k \in Keys
          PROVE  done'[k] = Has(answers', k) + Has(InFlight', k) + cut'[k] + forgotten'[k]
      <3>1. done[k] = Has(answers, k) + 0 + cut[k] + forgotten[k]
        BY <2>1, <2>2 DEF Account
      <3>2. Has(answers', k) + forgotten'[k] =
                Has(answers, k) + forgotten[k] + Has({Key}, k)
        BY <1>4, <2>2
      <3>3. done'[k] = done[k] + Has({Key}, k) /\ Has({Key}, k) \in Nat
        BY <1>3, <2>2
      <3>4. Has(InFlight', k) = 0
        BY <2>1, <2>2
      <3>5. /\ cut'[k] = cut[k] /\ cut[k] \in Nat
            /\ forgotten[k] \in Nat /\ forgotten'[k] \in Nat
            /\ Has(answers, k) \in Nat /\ Has(answers', k) \in Nat
        BY <2>2, <2>3
      <3>. QED BY <3>1, <3>2, <3>3, <3>4, <3>5
    <2>. QED BY <2>4 DEF Account
  <1>7. OwnPending'
    <2>1. runtime \in Nat /\ runtime # 0
      BY DEF TypeOK
    <2>. QED BY <1>1, <1>4, <2>1 DEF OwnPending
  <1>. QED BY <1>1, <1>5, <1>6, <1>7 DEF Unanswered

\* The lists are saved and the process ends before the receipt is.
LEMMA CutLedger ==
    ASSUME LedgerInv, Waiting, Fresh(Key), Ends, UNCHANGED <<ledger, forgotten>>,
           done' = OneMore(done, {Key}), cut' = OneMore(cut, {Key})
    PROVE  LedgerInv'
  <1>. USE DEF LedgerInv
  <1>1. /\ running = Idle /\ runtime < MaxRuntimes /\ runtime' = runtime + 1
        /\ queue' = <<>> /\ running' = Idle /\ finished' = {}
        /\ UNCHANGED <<answers, old, pending, clock, sends, resets, forgotten>>
    BY DEF Waiting, Ends, ledger
  <1>2. /\ cut' \in [Keys -> Nat] /\ done' \in [Keys -> Nat]
        /\ \A k \in Keys : /\ cut'[k] = cut[k] + Has({Key}, k)
                           /\ done'[k] = done[k] + Has({Key}, k)
    BY OneMoreType DEF TypeOK
  <1>3. MaxRuntimes \in Nat /\ MaxQueued \in Nat
    BY LimitsAreNaturals
  <1>4. TypeOK'
    <2>1. queue' \in Seq(Arrival) /\ Len(queue') <= MaxQueued
      BY <1>1, <1>3, LimitsAreNaturals
    <2>2. /\ runtime' \in 1..MaxRuntimes
          /\ running' \in Run \cup {Idle} /\ finished' \subseteq Over
      BY <1>1, <1>3 DEF TypeOK
    <2>3. cut' \in [Keys -> Nat] /\ done' \in [Keys -> Nat]
      BY <1>2
    <2>. QED BY <1>1, <2>1, <2>2, <2>3 DEF TypeOK
  <1>5. Account'
    <2>1. InFlight = {} /\ InFlight' = {}
      BY <1>1 DEF InFlight
    <2>2. \A k \in Keys : Has({Key}, k) \in Nat /\ Has(answers, k) \in Nat
                          /\ Has({}, k) = 0
      BY DEF Has
    <2>3. \A k \in Keys : cut[k] \in Nat /\ forgotten[k] \in Nat /\ done[k] \in Nat
      BY DEF TypeOK
    <2>4. ASSUME NEW k \in Keys
          PROVE  done'[k] = Has(answers', k) + Has(InFlight', k) + cut'[k] + forgotten'[k]
      <3>1. done[k] = Has(answers, k) + 0 + cut[k] + forgotten[k]
        BY <2>1, <2>2 DEF Account
      <3>2. Has(InFlight', k) = 0 /\ Has(answers', k) = Has(answers, k)
            /\ forgotten'[k] = forgotten[k]
        BY <1>1, <2>1, <2>2
      <3>3. cut'[k] = cut[k] + Has({Key}, k) /\ done'[k] = done[k] + Has({Key}, k)
        BY <1>2
      <3>. QED BY <2>2, <2>3, <3>1, <3>2, <3>3
    <2>. QED BY <2>4 DEF Account
  <1>6. OwnPending'
    BY <1>1 DEF OwnPending, TypeOK
  <1>. QED BY <1>1, <1>4, <1>5, <1>6 DEF Unanswered

\* A request that changes nothing but the queue.
LEMMA QueueLedger ==
    ASSUME LedgerInv, UNCHANGED <<ledger, runtime, running, finished, clock,
                                  resets, history>>,
           queue' \in Seq(Arrival), Len(queue') <= MaxQueued,
           sends' \in 0..MaxSends
    PROVE  LedgerInv'
  BY DEF LedgerInv, TypeOK, Account, Unanswered, OwnPending, InFlight, Has,
         ledger, history

\* A start begins: it is the one this process has pending, and has done
\* nothing yet.
LEMMA BeginLedger ==
    ASSUME LedgerInv, Begin
    PROVE  LedgerInv'
  <1>. USE DEF LedgerInv
  <1>1. /\ running = Idle /\ Waiting /\ Key \notin answers
        /\ queue' = Tail(queue)
        /\ running' = [req |-> Taken, at |-> Head(queue).at, phase |-> "begun",
                       from |-> 0]
        /\ pending' = [k \in Keys |-> IF k = Key THEN runtime ELSE pending[k]]
        /\ UNCHANGED <<answers, old, runtime, finished, clock, sends, resets,
                       done, cut, forgotten>>
    BY DEF Begin, Waiting, Fresh, history
  <1>2. /\ Head(queue) \in Arrival /\ Tail(queue) \in Seq(Arrival)
        /\ Len(Tail(queue)) <= MaxQueued
        /\ Taken \in Requests /\ Key = Taken.key
    BY <1>1, TakenType
  <1>3. running' \in Run
    BY <1>1, <1>2 DEF Run, Arrival
  <1>4. pending' \in [Keys -> 0..MaxRuntimes]
    BY <1>1 DEF TypeOK
  <1>5. TypeOK'
    BY <1>1, <1>2, <1>3, <1>4 DEF TypeOK
  <1>6. running' # Idle /\ running'.req = Taken /\ running'.phase = "begun"
    <2>1. running'.phase = "begun" /\ Idle.phase = "idle" /\ running'.req = Taken
      BY <1>1 DEF Idle
    <2>. QED BY <2>1
  <1>7. Account'
    <2>1. InFlight = {} /\ InFlight' = {}
      BY <1>1, <1>6 DEF InFlight
    <2>. QED BY <1>1, <2>1 DEF Account
  <1>8. Unanswered' /\ OwnPending'
    BY <1>1, <1>2, <1>6 DEF Unanswered, OwnPending, TypeOK
  <1>. QED BY <1>5, <1>7, <1>8

\* A start is over, one way or another: what it did, if anything, is under
\* its receipt, and nothing is under way any more.
LEMMA OverLedger ==
    ASSUME LedgerInv, running # Idle, NEW kept \in BOOLEAN,
           Finish(running.req.key, kept), running' = Idle,
           UNCHANGED <<runtime, queue, sends, resets, cut>>,
           clock' \in Nat, finished' \subseteq Over,
           done' \in [Keys -> Nat],
           \A k \in Keys :
               done'[k] + Has(InFlight, k) =
                   done[k] + (IF kept /\ k = running.req.key THEN 1 ELSE 0)
    PROVE  LedgerInv'
  <1>. USE DEF LedgerInv
  <1>. DEFINE key == running.req.key
  <1>1. key = NoKey \/ key \in Keys
    BY RunningType
  <1>2. key \notin answers
    BY DEF Unanswered
  <1>. HIDE DEF key
  <1>3. /\ answers' \subseteq Keys /\ old' \subseteq answers'
        /\ pending' \in [Keys -> 0..MaxRuntimes]
        /\ forgotten' \in [Keys -> Nat]
        /\ \A k \in Keys :
              /\ Has(answers', k) + forgotten'[k] =
                    Has(answers, k) + forgotten[k]
                        + (IF kept /\ k = key THEN 1 ELSE 0)
              /\ pending'[k] = IF k = key THEN 0 ELSE pending[k]
    <2>1. Finish(key, kept)
      BY DEF key
    <2>. QED BY <1>1, <1>2, <2>1, FinishBooks
  <1>4. TypeOK'
    <2>1. /\ runtime' = runtime /\ queue' = queue /\ running' = Idle
          /\ sends' = sends /\ resets' = resets /\ cut' = cut
      OBVIOUS
    <2>2. answers' \subseteq Keys /\ old' \subseteq answers'
          /\ pending' \in [Keys -> 0..MaxRuntimes]
          /\ forgotten' \in [Keys -> Nat]
      BY <1>3
    <2>. QED BY <2>1, <2>2 DEF TypeOK
  <1>5. ASSUME NEW k \in Keys
        PROVE  done'[k] = Has(answers', k) + Has(InFlight', k) + cut'[k] + forgotten'[k]
    <2>1. done[k] = Has(answers, k) + Has(InFlight, k) + cut[k] + forgotten[k]
      BY DEF Account
    <2>2. Has(answers', k) + forgotten'[k] =
              Has(answers, k) + forgotten[k] + (IF kept /\ k = key THEN 1 ELSE 0)
      BY <1>3
    <2>3. done'[k] + Has(InFlight, k) =
              done[k] + (IF kept /\ k = key THEN 1 ELSE 0)
      BY DEF key
    <2>4. InFlight' = {}
      BY DEF InFlight
    <2>5. /\ Has(InFlight', k) = 0 /\ Has(InFlight, k) \in Nat
          /\ Has(answers, k) \in Nat /\ Has(answers', k) \in Nat
      BY <2>4 DEF Has
    <2>6. /\ done[k] \in Nat /\ done'[k] \in Nat
          /\ forgotten[k] \in Nat /\ forgotten'[k] \in Nat
          /\ cut[k] \in Nat /\ cut'[k] = cut[k]
      BY <1>3 DEF TypeOK
    <2>. DEFINE more == IF kept /\ k = key THEN 1 ELSE 0
    <2>7. /\ Has(answers', k) + forgotten'[k] = Has(answers, k) + forgotten[k] + more
          /\ done'[k] + Has(InFlight, k) = done[k] + more
          /\ more \in Nat
      BY <2>2, <2>3
    <2>. HIDE DEF more
    <2>. QED BY <2>1, <2>5, <2>6, <2>7
  <1>6. OwnPending'
    <2>1. runtime \in Nat /\ runtime # 0 /\ runtime' = runtime
      BY DEF TypeOK
    <2>2. \A k \in Keys : pending[k] <= runtime /\ (pending[k] = runtime => k = key)
      BY DEF OwnPending, key
    <2>. QED BY <1>3, <2>1, <2>2 DEF OwnPending
  <1>. QED BY <1>4, <1>5, <1>6 DEF Account, Unanswered

\* A start that joins another takes its outcome for its own work.
LEMMA JoinLedger ==
    ASSUME LedgerInv, Join
    PROVE  LedgerInv'
  <1>. USE DEF LedgerInv
  <1>1. PICK f \in Twins(running.req.flags, running.at) :
            /\ Finish(running.req.key, f.kept)
            /\ done' = IF f.kept THEN OneMore(done, {running.req.key}) ELSE done
    BY DEF Join
  <1>2. /\ running # Idle /\ running.phase = "begun" /\ running' = Idle
        /\ UNCHANGED <<runtime, queue, finished, clock, sends, resets, cut>>
    BY DEF Join
  <1>3. f.kept \in BOOLEAN
    BY DEF Twins, TypeOK, Over
  <1>4. /\ done' \in [Keys -> Nat]
        /\ \A k \in Keys :
              done'[k] = done[k] + (IF f.kept /\ k = running.req.key THEN 1 ELSE 0)
    <2>1. done \in [Keys -> Nat]
      BY DEF TypeOK
    <2>. QED BY <1>1, <1>3, <2>1, OneMoreType DEF Has
  <1>5. InFlight = {}
    BY <1>2 DEF InFlight
  <1>6. \A k \in Keys : Has(InFlight, k) = 0
    BY <1>5 DEF Has
  <1>7. clock' \in Nat /\ finished' \subseteq Over
    BY <1>2 DEF TypeOK
  <1>8. \A k \in Keys :
            done'[k] + Has(InFlight, k) =
                done[k] + (IF f.kept /\ k = running.req.key THEN 1 ELSE 0)
    BY <1>4, <1>6 DEF TypeOK
  <1>. QED BY <1>1, <1>2, <1>3, <1>4, <1>7, <1>8, OverLedger

\* A start ends: what it did moves from under way to its receipt.
LEMMA EndLedger ==
    ASSUME LedgerInv, End
    PROVE  LedgerInv'
  <1>. USE DEF LedgerInv
  <1>. DEFINE kept == running.phase = "asked"
  <1>1. /\ running # Idle /\ running' = Idle
        /\ Finish(running.req.key, kept)
        /\ clock' = clock + 1
        /\ UNCHANGED <<runtime, queue, sends, resets, done, cut>>
    BY DEF End
  <1>2. PICK since \in 0..clock :
            finished' = {f \in finished : f.to >= since} \cup
                {[flags |-> running.req.flags, from |-> running.from,
                  to |-> clock, kept |-> kept]}
    BY DEF End
  <1>3. clock' \in Nat /\ done' \in [Keys -> Nat]
    BY <1>1 DEF TypeOK
  <1>4. finished' \subseteq Over
    <2>1. running \in Run /\ running.req.flags \in Flags
      BY <1>1, RunningType
    <2>2. running.from \in Nat
      BY <2>1 DEF Run
    <2>3. finished \subseteq Over /\ clock \in Nat
      BY DEF TypeOK
    <2>4. kept \in BOOLEAN
      OBVIOUS
    <2>. HIDE DEF kept
    <2>5. [flags |-> running.req.flags, from |-> running.from,
           to |-> clock, kept |-> kept] \in Over
      BY <2>1, <2>2, <2>3, <2>4 DEF Over
    <2>. QED BY <1>2, <2>3, <2>5
  <1>5. \A k \in Keys :
            done'[k] + Has(InFlight, k) =
                done[k] + (IF kept /\ k = running.req.key THEN 1 ELSE 0)
    BY <1>1 DEF InFlight, Has, TypeOK
  <1>6. kept \in BOOLEAN
    OBVIOUS
  <1>. HIDE DEF kept
  <1>. QED BY <1>1, <1>3, <1>4, <1>5, <1>6, OverLedger

\* A start that is tried has done nothing yet, and is the same one.
LEMMA TryLedger ==
    ASSUME LedgerInv, Try
    PROVE  LedgerInv'
  <1>. USE DEF LedgerInv
  <1>1. /\ running # Idle /\ running.phase = "begun"
        /\ running' = [running EXCEPT !.phase = "trying", !.from = clock + 1]
        /\ clock' = clock + 1
        /\ UNCHANGED <<answers, old, pending, runtime, queue, finished, sends,
                       resets, done, cut, forgotten>>
    BY DEF Try, ledger, history
  <1>2. running \in Run /\ clock \in Nat
    BY <1>1, RunningType DEF TypeOK
  <1>3. /\ running' \in Run /\ running'.phase = "trying"
        /\ running'.req = running.req
    <2>1. running.req \in Requests /\ running.at \in Nat
      BY <1>2 DEF Run
    <2>2. clock + 1 \in Nat
      BY <1>2
    <2>3. running' = [req |-> running.req, at |-> running.at,
                      phase |-> "trying", from |-> clock + 1]
      BY <1>1, <1>2 DEF Run
    <2>. QED BY <2>1, <2>2, <2>3 DEF Run
  <1>4. running' # Idle
    BY <1>3 DEF Idle
  <1>5. TypeOK'
    <2>1. clock' \in Nat
      BY <1>1, <1>2
    <2>2. running' \in Run
      BY <1>3
    <2>. QED BY <1>1, <2>1, <2>2 DEF TypeOK
  <1>6. InFlight = {} /\ InFlight' = {}
    BY <1>1, <1>3 DEF InFlight
  <1>. QED BY <1>1, <1>3, <1>4, <1>5, <1>6 DEF Account, Unanswered, OwnPending

\* The window is asked: the work is done, and is under way until the end.
LEMMA AskLedger ==
    ASSUME LedgerInv, AskWindow
    PROVE  LedgerInv'
  <1>. USE DEF LedgerInv
  <1>1. /\ running # Idle /\ running.phase = "trying"
        /\ running' = [running EXCEPT !.phase = "asked"]
        /\ done' = OneMore(done, {running.req.key})
        /\ UNCHANGED <<answers, old, pending, runtime, queue, finished, clock,
                       sends, resets, cut, forgotten>>
    BY DEF AskWindow, ledger
  <1>2. running \in Run
    BY <1>1, RunningType
  <1>3. /\ running' \in Run /\ running'.phase = "asked"
        /\ running'.req = running.req
    BY <1>1, <1>2 DEF Run
  <1>4. running' # Idle
    BY <1>3 DEF Idle
  <1>5. /\ done' \in [Keys -> Nat]
        /\ \A k \in Keys : done'[k] = done[k] + Has({running.req.key}, k)
    BY <1>1, OneMoreType DEF TypeOK
  <1>6. TypeOK'
    BY <1>1, <1>3, <1>5 DEF TypeOK
  <1>7. InFlight = {} /\ InFlight' = {running.req.key}
    BY <1>1, <1>3, <1>4 DEF InFlight
  <1>8. ASSUME NEW k \in Keys
        PROVE  done'[k] = Has(answers', k) + Has(InFlight', k) + cut'[k] + forgotten'[k]
    <2>1. done[k] = Has(answers, k) + 0 + cut[k] + forgotten[k]
      BY <1>7 DEF Account, Has
    <2>2. done'[k] = done[k] + Has(InFlight', k)
      BY <1>5, <1>7
    <2>3. Has(answers, k) \in Nat /\ Has(InFlight', k) \in Nat
          /\ Has(answers', k) = Has(answers, k)
      BY <1>1 DEF Has
    <2>4. cut[k] \in Nat /\ forgotten[k] \in Nat /\ cut'[k] = cut[k]
          /\ forgotten'[k] = forgotten[k]
      BY <1>1 DEF TypeOK
    <2>. QED BY <2>1, <2>2, <2>3, <2>4
  <1>9. Unanswered' /\ OwnPending'
    <2>1. running'.req.key = running.req.key
      BY <1>3
    <2>. QED BY <1>1, <1>4, <2>1 DEF Unanswered, OwnPending
  <1>. QED BY <1>6, <1>8, <1>9 DEF Account

\* Receipts that a reset drops are counted as forgotten.
LEMMA ResetLedger ==
    ASSUME LedgerInv, NEW scope, Reset(scope)
    PROVE  LedgerInv'
  <1>. USE DEF LedgerInv
  <1>. DEFINE gone == Cleared(scope)
  <1>1. gone \subseteq answers
    BY DEF Cleared
  <1>2. /\ running = Idle /\ running' = Idle /\ resets < MaxResets
        /\ resets' = resets + 1
        /\ answers' = answers \ gone /\ old' = old \ gone
        /\ forgotten' = OneMore(forgotten, gone)
        /\ pending' = IF scope = "all" THEN [k \in Keys |-> 0] ELSE pending
        /\ UNCHANGED <<runtime, queue, finished, clock, sends, done, cut>>
    BY DEF Reset
  <1>. HIDE DEF gone
  <1>3. /\ forgotten' \in [Keys -> Nat]
        /\ \A k \in Keys : forgotten'[k] = forgotten[k] + Has(gone, k)
    BY <1>2, OneMoreType DEF TypeOK
  <1>4. MaxRuntimes \in Nat /\ MaxResets \in Nat
    BY LimitsAreNaturals
  <1>5. TypeOK'
    <2>1. answers' \subseteq Keys /\ old' \subseteq answers'
      BY <1>2 DEF TypeOK
    <2>2. pending' \in [Keys -> 0..MaxRuntimes]
      BY <1>2, <1>4 DEF TypeOK
    <2>3. resets' \in 0..MaxResets
      BY <1>2, <1>4 DEF TypeOK
    <2>. QED BY <1>2, <1>3, <2>1, <2>2, <2>3 DEF TypeOK
  <1>6. Account'
    <2>1. InFlight = {} /\ InFlight' = {}
      BY <1>2 DEF InFlight
    <2>2. ASSUME NEW k \in Keys
          PROVE  done'[k] = Has(answers', k) + Has(InFlight', k) + cut'[k] + forgotten'[k]
      <3>1. done[k] = Has(answers, k) + 0 + cut[k] + forgotten[k]
        BY <2>1 DEF Account, Has
      <3>2. Has(answers', k) + Has(gone, k) = Has(answers, k)
        BY <1>1, <1>2 DEF Has
      <3>3. Has(InFlight', k) = 0 /\ Has(gone, k) \in Nat
            /\ Has(answers, k) \in Nat /\ Has(answers', k) \in Nat
        BY <2>1 DEF Has
      <3>4. /\ forgotten'[k] = forgotten[k] + Has(gone, k)
            /\ forgotten[k] \in Nat /\ cut[k] \in Nat
            /\ cut'[k] = cut[k] /\ done'[k] = done[k]
        BY <1>2, <1>3 DEF TypeOK
      <3>. QED BY <3>1, <3>2, <3>3, <3>4
    <2>. QED BY <2>2 DEF Account
  <1>7. OwnPending'
    BY <1>2 DEF OwnPending, TypeOK
  <1>. QED BY <1>2, <1>5, <1>6, <1>7 DEF Unanswered

\* A receipt that gets old is still a receipt.
LEMMA AgeLedger ==
    ASSUME LedgerInv, NEW k \in Keys, Age(k)
    PROVE  LedgerInv'
  <1>1. old' \subseteq answers
    BY DEF LedgerInv, TypeOK, Age
  <1>. QED BY <1>1 DEF LedgerInv, TypeOK, Account, Unanswered, OwnPending,
                       InFlight, Has, Age, history

\* A request that arrives, or is answered without any work.
LEMMA PassingLedger ==
    ASSUME LedgerInv, (\E r \in Requests : Send(r)) \/ AnswerAgain \/ TurnAway
    PROVE  LedgerInv'
  <1>1. CASE \E r \in Requests : Send(r)
    <2>1. PICK r \in Requests : Send(r)
      BY <1>1
    <2>2. queue \in Seq(Arrival) /\ [req |-> r, at |-> clock] \in Arrival
      BY DEF LedgerInv, TypeOK, Arrival
    <2>3. MaxQueued \in Nat /\ MaxSends \in Nat
      BY LimitsAreNaturals
    <2>4. queue' \in Seq(Arrival) /\ Len(queue') <= MaxQueued
      BY <2>1, <2>2, <2>3 DEF Send
    <2>5. sends' \in 0..MaxSends
      BY <2>1, <2>3 DEF Send, LedgerInv, TypeOK
    <2>. QED BY <2>1, <2>4, <2>5, QueueLedger DEF Send
  <1>2. CASE AnswerAgain \/ TurnAway
    <2>1. Waiting /\ Served /\ UNCHANGED <<ledger, history>>
      BY <1>2 DEF AnswerAgain, TurnAway
    <2>2. Tail(queue) \in Seq(Arrival) /\ Len(Tail(queue)) <= MaxQueued
      BY <2>1, TakenType DEF LedgerInv
    <2>3. sends' \in 0..MaxSends
      BY <2>1 DEF Served, LedgerInv, TypeOK
    <2>. QED BY <2>1, <2>2, <2>3, QueueLedger DEF Served
  <1>. QED BY <1>1, <1>2

LEMMA NextLedger == LedgerInv /\ [Next]_vars => LedgerInv'
  <1>. SUFFICES ASSUME LedgerInv, [Next]_vars PROVE LedgerInv'
    OBVIOUS
  <1>1. CASE \E r \in Requests : Send(r)
    BY <1>1, PassingLedger
  <1>2. CASE ServerStep
    <2>1. CASE AnswerAgain \/ TurnAway
      BY <2>1, PassingLedger
    <2>2. CASE ServeMail
      BY <2>2, ServedLedger DEF ServeMail
    <2>3. CASE ServeLists
      BY <2>3, ServedLedger, CutLedger DEF ServeLists
    <2>4. CASE Begin
      BY <2>4, BeginLedger
    <2>5. CASE Join
      BY <2>5, JoinLedger
    <2>6. CASE Try
      BY <2>6, TryLedger
    <2>7. CASE AskWindow
      BY <2>7, AskLedger
    <2>8. CASE End
      BY <2>8, EndLedger
    <2>. QED
      BY <1>2, <2>1, <2>2, <2>3, <2>4, <2>5, <2>6, <2>7, <2>8 DEF ServerStep
  <1>3. CASE \E k \in Keys : Age(k)
    BY <1>3, AgeLedger
  <1>4. CASE \E scope \in {"tasks", "messages", "all"} : Reset(scope)
    BY <1>4, ResetLedger
  <1>5. CASE Restart
    BY <1>5, RestartLedger
  <1>6. CASE UNCHANGED vars
    BY <1>6 DEF vars, LedgerInv, TypeOK, Account, Unanswered, OwnPending,
                InFlight, Has
  <1>. QED BY <1>1, <1>2, <1>3, <1>4, <1>5, <1>6 DEF Next

-----------------------------------------------------------------------------
\* The books of the ledger balance in every reachable state.
THEOREM LedgerHolds == Spec => []LedgerInv
  BY InitLedger, NextLedger, PTL DEF Spec

\* The ledger, the queue, the starts and the counts keep their types, for any
\* requests and bounds.
THEOREM RequestsTyped == Spec => []TypeOK
  <1>1. LedgerInv => TypeOK
    BY DEF LedgerInv
  <1>. QED BY <1>1, LedgerHolds, PTL

\* A retry does the work again only for a crash or for a dropped receipt
\* (once, begin, finish, join_running).
THEOREM NeverTwice == Spec => []NeverDoneTwice
  <1>1. LedgerInv => NeverDoneTwice
    <2>. SUFFICES ASSUME LedgerInv, NEW k \in Keys
                  PROVE  done[k] <= 1 + cut[k] + forgotten[k]
      BY DEF NeverDoneTwice
    <2>1. done[k] = Has(answers, k) + Has(InFlight, k) + cut[k] + forgotten[k]
      BY DEF LedgerInv, Account
    <2>2. ~(k \in answers /\ k \in InFlight)
      BY DEF LedgerInv, Unanswered, InFlight
    <2>3. cut[k] \in Nat /\ forgotten[k] \in Nat
      BY DEF LedgerInv, TypeOK
    <2>. QED BY <2>1, <2>2, <2>3 DEF Has
  <1>. QED BY <1>1, LedgerHolds, PTL

\* request-show tells what became of a request (request_show), for any
\* requests and any number of processes.
THEOREM ShowIsHonest == Spec => []ShowsTheTruth
  <1>1. LedgerInv => ShowsTheTruth
    <2>. SUFFICES ASSUME LedgerInv, NEW k \in Keys
                  PROVE  /\ Shown(k) = "completed" => done[k] > 0
                         /\ Shown(k) = "absent" /\ done[k] > 0 =>
                                cut[k] + forgotten[k] > 0
                         /\ Shown(k) = "pending" =>
                                running # Idle /\ running.req.key = k
      BY DEF ShowsTheTruth
    <2>1. done[k] = Has(answers, k) + Has(InFlight, k) + cut[k] + forgotten[k]
      BY DEF LedgerInv, Account
    <2>2. cut[k] \in Nat /\ forgotten[k] \in Nat
      BY DEF LedgerInv, TypeOK
    <2>3. k \in InFlight => pending[k] = runtime
      BY DEF LedgerInv, OwnPending, InFlight
    <2>4. runtime # 0
      BY DEF LedgerInv, TypeOK
    <2>5. Shown(k) = "completed" => k \in answers
      BY DEF Shown
    <2>6. Shown(k) = "absent" => k \notin answers /\ pending[k] = 0
      BY DEF Shown
    <2>7. Shown(k) = "pending" => pending[k] = runtime
      BY DEF Shown
    <2>8. Shown(k) = "pending" => running # Idle /\ running.req.key = k
      BY <2>7 DEF LedgerInv, OwnPending
    <2>9. k \in answers => done[k] > 0
      BY <2>1, <2>2 DEF Has
    <2>10. k \notin answers /\ pending[k] = 0 /\ done[k] > 0 =>
              cut[k] + forgotten[k] > 0
      BY <2>1, <2>2, <2>3, <2>4 DEF Has
    <2>. QED BY <2>5, <2>6, <2>8, <2>9, <2>10
  <1>. QED BY <1>1, LedgerHolds, PTL
=============================================================================
