------------------------ MODULE DispatchesStepsProofs ------------------------
(***************************************************************************)
(* What the steps of Dispatches.tla keep, for every value of its constants: *)
(* that a dispatched task has its worker and ends with it, that a finished  *)
(* dispatch stays as it ended, which dispatch a terminal belongs to, what a *)
(* death or a release says of it, and what gates, dependencies and the      *)
(* breaker hold back.                                                      *)
(*                                                                         *)
(* Two summaries of a step carry the proofs.  RowsGo says what a command   *)
(* may do to a dispatch row; every command is shown to rewrite the stored  *)
(* rows, or those rows reconciled with the late sessions, in that way.     *)
(* Coupled and Guarded say what a command may do to the two lists taken    *)
(* together.  The invariants (Tied, Stamped, Briefed, Released, Told) are  *)
(* about the list of rows given to them, so that they can be stated of the *)
(* rows in the middle of a command.                                        *)
(***************************************************************************)
EXTENDS DispatchesProofs, FiniteSetTheorems

-----------------------------------------------------------------------------
(* Terminals: what ties a dispatch to one.                                 *)

\* Row i is an unfinished started worker of this process with no session yet.
Awaits(ds, i) == ~Finished(ds[i]) /\ ds[i].terminal = 0 /\ ds[i].runtime = runtime

\* The worker start in flight has asked the window for a session.
Asked == start.phase \in {"waiting", "recording"}

\* No dispatch of ds works in terminal t.
Free(ds, t) == \A j \in DOMAIN ds : ~Holds(ds, j, t)

\* A terminal belongs to one dispatch, and a session that a start may still
\* take belongs to none.
Tied(ds) ==
    /\ \A i \in DOMAIN ds :
          /\ ds[i].runtime <= runtime
          /\ TerminalOf(ds[i]) # 0 => terms[TerminalOf(ds[i])] # "unopened"
    /\ \A t \in Terms : \A i, j \in DOMAIN ds :
          Holds(ds, i, t) /\ Holds(ds, j, t) => i = j
    /\ \A i \in DOMAIN ds : Awaits(ds, i) /\ stamps[i].session # 0 =>
          Free(ds, stamps[i].session)
    /\ Asked /\ stamps[StartId].session # 0 => Free(ds, stamps[StartId].session)
    /\ start.phase = "recording" /\ start.terminal # 0 => Free(ds, start.terminal)

\* A session is stamped for one start only, and no stamp is left behind by
\* the start that took its session.
Stamped ==
    /\ \A i \in DispatchIds : stamps[i].session # 0 =>
          /\ terms[stamps[i].session] # "unopened"
          /\ stamps[i].phase # "none"
    /\ \A i, j \in DispatchIds :
          stamps[i].session # 0 /\ stamps[i].session = stamps[j].session => i = j
    /\ \A i \in DispatchIds : stamps[i].phase = "waiting" =>
          start.phase = "waiting" /\ i = StartId
    /\ start.terminal # 0 =>
          /\ start.phase = "recording"
          /\ terms[start.terminal] # "unopened"
          /\ \A i \in DispatchIds : stamps[i].session # start.terminal

\* Until the first reset, ids are not used twice: a session was opened for the
\* notice of the very dispatch it is stamped for or tied to, nobody is given
\* it before that dispatch, and the newest row of a terminal is the one that
\* works there.
Briefed(ds) ==
    /\ \A i \in DOMAIN ds : ~ds[i].handed /\ TerminalOf(ds[i]) # 0 =>
          startedFor[TerminalOf(ds[i])] = [dispatch |-> i, reset |-> 0]
    /\ \A i \in DispatchIds : stamps[i].session # 0 =>
          /\ startedFor[stamps[i].session] = [dispatch |-> i, reset |-> 0]
          /\ \A j \in DOMAIN ds : TerminalOf(ds[j]) = stamps[i].session =>
                i \in DOMAIN ds /\ TerminalOf(ds[i]) = stamps[i].session
    /\ \A n \in notices : n.reset = 0
    /\ \A i \in DispatchIds : stamps[i].phase # "none" =>
          \/ /\ i \in DOMAIN ds
             /\ ds[i].runtime = runtime
             /\ ds[i].terminal \in {0, stamps[i].session}
          \/ /\ Asked
             /\ i = StartId
             /\ start.terminal = 0
    /\ start.phase = "recording" /\ start.terminal # 0 =>
          /\ startedFor[start.terminal] = [dispatch |-> StartId, reset |-> 0]
          /\ \A j \in DOMAIN ds : TerminalOf(ds[j]) # start.terminal
    /\ \A i, j \in DOMAIN ds : \A t \in Terms :
          Holds(ds, i, t) /\ TerminalOf(ds[j]) = t => j <= i

\* A released dispatch has finished, and its terminal is gone, was left open
\* on purpose or came up late.
Released(ds) ==
    \A i \in DOMAIN ds : ds[i].release = "done" =>
        /\ Finished(ds[i])
        /\ ~ds[i].leftOpen /\ Live(TerminalOf(ds[i])) => Late(ds[i])

\* Every death in a terminal whose exit was handled has been told.
Told(ds) ==
    \A i \in DOMAIN ds, t \in Terms :
        /\ Holds(ds, i, t)
        /\ terms[t] = "ended"
        /\ ds[i].handed \/ ds[i].late # "none"
        /\ i \notin doneMail
        => ds[i].exited

NoReset == "reset" \notin Commands

\* What the list of rows keeps.
Ruled(ds) ==
    /\ Tied(ds)
    /\ resets = 0 => Briefed(ds)
    /\ Released(ds)
    /\ NoReset => resets = 0 /\ Told(ds)

\* The inductive invariant about terminals.
TInv == Ruled(dispatches) /\ Stamped

-----------------------------------------------------------------------------
(* Tasks and their dispatches.                                             *)

\* Every dispatched task of ts names its own unfinished row of ds, but for
\* the task of a start in flight.
Worked(ts, ds, held) ==
    \A k \in DOMAIN ts : ts[k].status = "dispatched" /\ k # held =>
        /\ ts[k].dispatch \in DOMAIN ds
        /\ ds[ts[k].dispatch].task = k
        /\ ~Finished(ds[ts[k].dispatch])

\* A task past pending and blocked has all it waits on completed.
DepsMet(ts) ==
    \A k \in DOMAIN ts : ts[k].status \notin {"pending", "blocked"} =>
        \A d \in ts[k].deps : d \in DOMAIN ts /\ ts[d].status = "completed"

\* A task with a worker has one failure to spare.
Spared(ds) ==
    \A k \in TaskIds :
        /\ Cardinality(FailedDispatches(ds, k)) <= BreakerTrips
        /\ (\E i \in DOMAIN ds : ds[i].task = k /\ ~Finished(ds[i]))
              => UnderBreaker(ds, k)

\* While a gate is open its task is blocked.
Gated(ts) ==
    \A g \in DOMAIN gates : gates[g].pending =>
        gates[g].task \in DOMAIN ts /\ ts[gates[g].task].status = "blocked"

\* Agents are handed terminals: no worker is started, so no start overrules
\* the breaker.
HandsOnly == Commands \cap {"start", "retry"} = {}

\* Nor are tasks updated over the head of their gates and dependencies.
Strict == HandsOnly /\ "update" \notin Commands

\* The inductive invariant about tasks and their dispatches.
WInv ==
    /\ start.phase = "failing" => dispatches[Len(dispatches)].status = "failed"
    /\ lost = {} => Worked(tasks, dispatches, start.task)
    /\ runtime = 1 => "reset" \notin lost
    /\ HandsOnly => NoStart /\ ("reset" \notin lost => Spared(dispatches))
    /\ Strict =>
          /\ "reset" \notin lost => DepsMet(tasks)
          /\ runtime = 1 => Gated(tasks)

-----------------------------------------------------------------------------
(* What a command may do to a dispatch row.                                *)

\* No terminal at all, or one that is not open.
Gone(tm, t) == t = 0 \/ tm[t] # "open"

\* Row d rewritten to e by a command that leaves the terminals as tm: whose
\* row it is, its terminal and its death stay, what is over stays over, and a
\* release is only called done when the row had ended and its terminal is
\* gone, left open or late.
Goes(d, e, tm) ==
    /\ e.task = d.task /\ e.terminal = d.terminal /\ e.runtime = d.runtime
    /\ e.handed = d.handed /\ e.exited = d.exited
    /\ d.cleared => e.cleared
    /\ Late(d) => Late(e)
    /\ e.late = "none" <=> d.late = "none"
    /\ Finished(d) => Finished(e)
    /\ e.release = "done" => d.release = "done" \/ Finished(e)
    /\ e.release = "done" /\ ~e.leftOpen =>
          (d.release = "done" /\ ~d.leftOpen) \/ Gone(tm, TerminalOf(d))

RowsGo(ds, es, tm) ==
    /\ es \in Seq(Row)
    /\ Len(es) = Len(ds)
    /\ \A i \in DOMAIN ds : Goes(ds[i], es[i], tm)

\* The rows a command works on are the stored ones, or those reconciled with
\* the late sessions.
Carried(ds, tm) ==
    RowsGo(dispatches, ds, tm) \/ RowsGo(Reconcile(dispatches), ds, tm)

\* A row that is not rewritten goes on as it was.
LEMMA StaysSo ==
    ASSUME NEW d, NEW tm
    PROVE  Goes(d, d, tm)
  BY DEF Goes

\* Two rewritings one after the other are one.
LEMMA GoesOn ==
    ASSUME NEW d, NEW e, NEW f, NEW tm, Goes(d, e, tm), Goes(e, f, tm)
    PROVE  Goes(d, f, tm)
  <1>1. TerminalOf(e) = TerminalOf(d)
    BY DEF Goes, TerminalOf
  <1>. QED BY <1>1 DEF Goes

LEMMA RowsGoOn ==
    ASSUME NEW ds \in Seq(Row), NEW es, NEW fs, NEW tm,
           RowsGo(ds, es, tm), RowsGo(es, fs, tm)
    PROVE  RowsGo(ds, fs, tm)
  <1>1. DOMAIN es = DOMAIN ds
    BY DEF RowsGo
  <1>2. \A i \in DOMAIN ds : Goes(ds[i], fs[i], tm)
    BY <1>1, GoesOn DEF RowsGo
  <1>. QED BY <1>2 DEF RowsGo

\* A row whose only news is its status goes on when what had finished still
\* has.
LEMMA StatusGoes ==
    ASSUME NEW d \in Row, NEW st \in RowStates, NEW tm,
           Finished(d) => st \in FINISHED
    PROVE  Goes(d, [d EXCEPT !.status = st], tm)
  <1>. DEFINE e == [d EXCEPT !.status = st]
  <1>1. /\ e.status = st /\ e.task = d.task /\ e.terminal = d.terminal
        /\ e.runtime = d.runtime /\ e.handed = d.handed /\ e.exited = d.exited
        /\ e.cleared = d.cleared /\ e.late = d.late /\ e.release = d.release
        /\ e.leftOpen = d.leftOpen
    BY DEF Row
  <1>. HIDE DEF e
  <1>2. Finished(d) => Finished(e)
    BY <1>1 DEF Finished
  <1>. QED BY <1>1, <1>2 DEF Goes, Late, e

\* So does one whose failures are cleared, or that is kept open.
LEMMA MarksGo ==
    ASSUME NEW d \in Row, NEW tm
    PROVE  /\ Goes(d, [d EXCEPT !.cleared = TRUE], tm)
           /\ Goes(d, [d EXCEPT !.retained = TRUE], tm)
           /\ Goes(d, [d EXCEPT !.release = "pending"], tm)
           /\ Goes(d, [d EXCEPT !.release = "unknown"], tm)
  BY DEF Row, Goes, Late, Finished

\* So does one whose alarm is spent or shown.
LEMMA AlarmGoes ==
    ASSUME NEW d \in Row, NEW l \in {"spent", "shown"}, NEW tm, Alarmed(d)
    PROVE  Goes(d, [d EXCEPT !.late = l], tm)
  <1>. DEFINE e == [d EXCEPT !.late = l]
  <1>1. /\ e.status = d.status /\ e.task = d.task /\ e.terminal = d.terminal
        /\ e.runtime = d.runtime /\ e.handed = d.handed /\ e.exited = d.exited
        /\ e.cleared = d.cleared /\ e.late = l /\ e.release = d.release
        /\ e.leftOpen = d.leftOpen
    BY DEF Row
  <1>2. Late(d) /\ Late(e) /\ d.late # "none" /\ e.late # "none"
    BY <1>1 DEF Alarmed, Late
  <1>. HIDE DEF e
  <1>. QED BY <1>1, <1>2 DEF Goes, Finished, e

LEMMA SpentGoes ==
    ASSUME NEW d \in Row, NEW tm
    PROVE  Goes(d, SpendLate(d), tm)
  BY AlarmGoes, StaysSo DEF SpendLate

LEMMA ShownGoes ==
    ASSUME NEW d \in Row, NEW tm
    PROVE  Goes(d, ReadLate(d), tm)
  <1>1. \/ ReadLate(d) = d
        \/ Alarmed(d) /\ \E l \in {"spent", "shown"} : ReadLate(d) = [d EXCEPT !.late = l]
    BY DEF ReadLate
  <1>. QED BY <1>1, AlarmGoes, StaysSo

\* A row opened again is no longer released.
LEMMA ReopenedGoes ==
    ASSUME NEW d \in Row, NEW tm
    PROVE  Goes(d, Reopened(d), tm)
  <1>. DEFINE rel == IF d.release = "done" THEN "none" ELSE d.release
              e == [d EXCEPT !.release = rel, !.leftOpen = FALSE]
  <1>1. rel # "done"
    OBVIOUS
  <1>2. Reopened(d) \in {d, SpendLate(d), e}
    BY DEF Reopened
  <1>. HIDE DEF rel
  <1>3. Goes(d, e, tm)
    BY <1>1 DEF Row, Goes, Late, Finished
  <1>. QED BY <1>2, <1>3, SpentGoes, StaysSo

\* A release may be called done when the row has ended and its terminal is
\* gone, or is put down as left open.
LEMMA ReleaseGoes ==
    ASSUME NEW d \in Row, Finished(d), NEW left \in BOOLEAN, NEW w, NEW tm,
           d.leftOpen => left,
           left \/ Gone(tm, TerminalOf(d))
    PROVE  Goes(d, ReleaseDone([d EXCEPT !.leftOpen = left], w), tm)
  <1>. DEFINE g == [d EXCEPT !.leftOpen = left]
              r == [g EXCEPT !.release = "done", !.retained = FALSE]
  <1>1. r \in Row
    BY DEF Row
  <1>2. /\ r.status = d.status /\ r.task = d.task /\ r.terminal = d.terminal
        /\ r.runtime = d.runtime /\ r.handed = d.handed /\ r.exited = d.exited
        /\ r.cleared = d.cleared /\ r.late = d.late /\ r.release = "done"
        /\ r.leftOpen = left
    BY DEF Row
  <1>3. ReleaseDone(g, w) \in {r, SpendLate(r)}
    BY DEF ReleaseDone
  <1>. HIDE DEF r
  <1>4. Goes(d, r, tm)
    BY <1>2 DEF Goes, Late, Finished
  <1>. QED BY <1>1, <1>3, <1>4, SpentGoes, GoesOn

\* One row rewritten.
LEMMA RowGoes ==
    ASSUME NEW ds \in Seq(Row), NEW i \in DOMAIN ds, NEW e \in Row, NEW tm,
           Goes(ds[i], e, tm)
    PROVE  RowsGo(ds, [ds EXCEPT ![i] = e], tm)
  <1>1. /\ [ds EXCEPT ![i] = e] \in Seq(Row)
        /\ Len([ds EXCEPT ![i] = e]) = Len(ds)
    BY ExceptSeq
  <1>2. \A j \in DOMAIN ds : [ds EXCEPT ![i] = e][j] = IF j = i THEN e ELSE ds[j]
    OBVIOUS
  <1>. QED BY <1>1, <1>2, StaysSo DEF RowsGo

\* Spending the alarms of terminals that are gone rewrites rows as commands
\* may.
LEMMA SpendGoneGoes ==
    ASSUME NEW ds \in Seq(Row), NEW t1, NEW tm
    PROVE  RowsGo(ds, SpendGone(ds, t1), tm)
  <1>1. \A i \in DOMAIN ds : ds[i] \in Row
    OBVIOUS
  <1>2. \A i \in DOMAIN ds : SpendGone(ds, t1)[i] \in {ds[i], SpendLate(ds[i])}
    BY DEF SpendGone
  <1>3. \A i \in DOMAIN ds : Goes(ds[i], SpendGone(ds, t1)[i], tm)
    BY <1>1, <1>2, SpentGoes, StaysSo
  <1>. QED BY <1>3, SpendGoneKeeps DEF RowsGo, KeptRows

LEMMA CarriedOn ==
    ASSUME TypeOK, NEW ds, NEW es, NEW tm, Carried(ds, tm), RowsGo(ds, es, tm)
    PROVE  Carried(es, tm)
  <1>1. dispatches \in Seq(Row) /\ Reconcile(dispatches) \in Seq(Row)
    BY ReconcileKeeps DEF TypeOK, KeptRows
  <1>. QED BY <1>1, RowsGoOn DEF Carried

\* The stored rows, and the rows as a command reads them.
LEMMA CarriedRead ==
    ASSUME TypeOK, NEW tm
    PROVE  Carried(dispatches, tm) /\ Carried(DS, tm)
  <1>1. dispatches \in Seq(Row) /\ Reconcile(dispatches) \in Seq(Row)
    BY ReconcileKeeps DEF TypeOK, KeptRows
  <1>2. RowsGo(dispatches, dispatches, tm)
    BY <1>1, StaysSo DEF RowsGo
  <1>3. RowsGo(Reconcile(dispatches), DS, tm)
    BY <1>1, SpendGoneGoes DEF DS
  <1>. QED BY <1>2, <1>3 DEF Carried

\* reconcile_late gives a row the session of its own stamp, with an alarm when
\* the row had finished, and touches nothing else of it.
LEMMA ReconciledRow ==
    ASSUME NEW ds \in Seq(Row), Len(ds) <= MaxDispatches,
           stamps \in [DispatchIds -> Stamp], NEW i \in DOMAIN ds
    PROVE  LET d == ds[i]
               e == Reconcile(ds)[i]
           IN /\ e.status = d.status /\ e.task = d.task /\ e.runtime = d.runtime
              /\ e.handed = d.handed /\ e.exited = d.exited
              /\ e.cleared = d.cleared /\ e.release = d.release
              /\ e.leftOpen = d.leftOpen
              /\ \/ e = d /\ ~LateSession(ds, i)
                 \/ /\ LateSession(ds, i)
                    /\ e.terminal = stamps[i].session
                    /\ e.late = IF Finished(d) THEN "pending" ELSE "stamped"
  <1>1. ds[i] \in Row
    OBVIOUS
  <1>2. CASE LateSession(ds, i)
    <2>. DEFINE l == IF Finished(ds[i]) THEN "pending" ELSE "stamped"
    <2>1. Reconcile(ds)[i] = [ds[i] EXCEPT !.terminal = stamps[i].session, !.late = l]
      BY <1>2 DEF Reconcile
    <2>. HIDE DEF l
    <2>2. LET d == ds[i]
              e == [d EXCEPT !.terminal = stamps[i].session, !.late = l]
          IN /\ e.status = d.status /\ e.task = d.task /\ e.runtime = d.runtime
             /\ e.handed = d.handed /\ e.exited = d.exited
             /\ e.cleared = d.cleared /\ e.release = d.release
             /\ e.leftOpen = d.leftOpen
             /\ e.terminal = stamps[i].session /\ e.late = l
      BY <1>1 DEF Row
    <2>. QED BY <1>2, <2>1, <2>2 DEF l
  <1>3. CASE ~LateSession(ds, i)
    BY <1>3 DEF Reconcile
  <1>. QED BY <1>2, <1>3

-----------------------------------------------------------------------------
(* What a command may do to the two lists together.                        *)

\* While no start and no reset was lost: every dispatched task still has its
\* worker, a finished row keeps its end, and a task that settles does so with
\* the row it was dispatched under.
Coupled(ts, ds, held) ==
    Worked(tasks, dispatches, 0) =>
        /\ Worked(ts, ds, held)
        /\ \A i \in DOMAIN dispatches :
              /\ i \in DOMAIN ds
              /\ Finished(dispatches[i]) => ds[i].status = dispatches[i].status
        /\ \A k \in DOMAIN tasks :
              /\ k \in DOMAIN ts
              /\ tasks[k].status = "dispatched" /\ ts[k].status \in Settled =>
                    /\ tasks[k].dispatch \in DOMAIN ds
                    /\ ds[tasks[k].dispatch].status = ts[k].status

\* None of the commands that overrule is used, and no reset was cut in two.
Careful == Strict /\ "reset" \notin lost

\* The breaker is kept; while the former is so, dependencies stay met, and of
\* the blocked tasks only `free` may be let go.
Guarded(ts, ds, free) ==
    /\ Held(tasks, dispatches) /\ Spared(dispatches) => Spared(ds)
    /\ Careful =>
          /\ DepsMet(tasks) => DepsMet(ts)
          /\ \A k \in DOMAIN tasks : tasks[k].status = "blocked" /\ k # free =>
                k \in DOMAIN ts /\ ts[k].status = "blocked"

\* Everything a command keeps when it is about to write ts and ds.
Rewritten(ts, ds, tm, free) ==
    /\ Written(ts, ds)
    /\ Carried(ds, tm)
    /\ Coupled(ts, ds, 0)
    /\ Guarded(ts, ds, free)

\* The breaker counts only what it counted before, when no failure is new and
\* no task got a new worker.
LEMMA SparedKept ==
    ASSUME NEW ds \in Seq(Row), NEW es \in Seq(Row), Len(es) = Len(ds),
           Spared(ds), BreakerTrips \in Nat,
           \A i \in DOMAIN ds :
              /\ es[i].task = ds[i].task
              /\ es[i].status = "failed" /\ ~es[i].cleared =>
                    ds[i].status = "failed" /\ ~ds[i].cleared
              /\ Finished(ds[i]) => Finished(es[i])
    PROVE  Spared(es)
  <1>1. DOMAIN es = DOMAIN ds /\ DOMAIN ds = 1..Len(ds) /\ Len(ds) \in Nat
    OBVIOUS
  <1>2. ASSUME NEW k \in TaskIds
        PROVE  /\ Cardinality(FailedDispatches(es, k)) \in Nat
               /\ Cardinality(FailedDispatches(ds, k)) \in Nat
               /\ Cardinality(FailedDispatches(es, k))
                    <= Cardinality(FailedDispatches(ds, k))
    <2>1. FailedDispatches(es, k) \subseteq FailedDispatches(ds, k)
      BY <1>1 DEF FailedDispatches
    <2>2. FailedDispatches(ds, k) \subseteq 1..Len(ds)
      BY <1>1 DEF FailedDispatches
    <2>3. IsFiniteSet(FailedDispatches(ds, k))
      <3>1. 1 \in Int /\ Len(ds) \in Int
        BY <1>1
      <3>2. IsFiniteSet(1..Len(ds))
        BY <3>1, FS_Interval
      <3>. QED BY <2>2, <3>2, FS_Subset
    <2>. QED BY <2>1, <2>3, FS_Subset, FS_CardinalityType
  <1>3. ASSUME NEW k \in TaskIds
        PROVE  (\E i \in DOMAIN es : es[i].task = k /\ ~Finished(es[i])) =>
                  \E i \in DOMAIN ds : ds[i].task = k /\ ~Finished(ds[i])
    BY <1>1
  <1>. QED BY <1>2, <1>3 DEF Spared, UnderBreaker

\* Rows rewritten without touching a status.
LEMMA RewrittenKept ==
    ASSUME TypeOK, NEW ts, NEW ds, NEW es, NEW tm, NEW free,
           Rewritten(ts, ds, tm, free), KeptRows(ds, es), RowsGo(ds, es, tm)
    PROVE  Rewritten(ts, es, tm, free)
  <1>1. Written(ts, es) /\ Carried(es, tm)
    BY WrittenKept, CarriedOn DEF Rewritten
  <1>2. /\ ds \in Seq(Row) /\ es \in Seq(Row) /\ Len(es) = Len(ds)
        /\ DOMAIN es = DOMAIN ds
        /\ \A i \in DOMAIN ds : es[i].status = ds[i].status /\ es[i].task = ds[i].task
    BY DEF KeptRows, Rewritten, Written, RowsOK
  <1>3. \A i \in DOMAIN ds : Finished(es[i]) <=> Finished(ds[i])
    BY <1>2 DEF Finished
  <1>4. Coupled(ts, es, 0)
    <2>1. Worked(ts, ds, 0) => Worked(ts, es, 0)
      BY <1>2, <1>3 DEF Worked
    <2>. QED BY <1>2, <2>1 DEF Rewritten, Coupled
  <1>5. Spared(ds) => Spared(es)
    <2>1. BreakerTrips \in Nat
      BY BoundsAreNaturals
    <2>2. \A i \in DOMAIN ds : ds[i].cleared => es[i].cleared
      BY DEF RowsGo, Goes
    <2>. QED BY <1>2, <1>3, <2>1, <2>2, SparedKept
  <1>. QED BY <1>1, <1>4, <1>5 DEF Rewritten, Guarded

\* What a rewriting of the tasks alone may do: leave a task that completed or
\* is dispatched as it is, turn no other into one, and let one past pending
\* only when what it waits on completed.
Idles(ts, us) ==
    /\ us \in Seq(Task)
    /\ DOMAIN ts \subseteq DOMAIN us
    /\ \A k \in DOMAIN ts :
          /\ ts[k].status \in {"dispatched", "completed"} => us[k] = ts[k]
          /\ us[k].status \in {"dispatched"} \cup Settled => us[k] = ts[k]
          /\ us[k].deps = ts[k].deps
          /\ us[k].status \notin {"pending", "blocked"} =>
                \/ us[k] = ts[k]
                \/ \A d \in ts[k].deps : d \in DOMAIN ts /\ ts[d].status = "completed"
    /\ \A k \in DOMAIN us \ DOMAIN ts : us[k].status = "pending"

\* Such a rewriting keeps a worker for every dispatched task and dependencies
\* met.
LEMMA IdlesKeeps ==
    ASSUME NEW ts, NEW ds, NEW us, Idles(ts, us)
    PROVE  /\ Coupled(ts, ds, 0) => Coupled(us, ds, 0)
           /\ DepsMet(ts) => DepsMet(us)
  <1>1. Worked(ts, ds, 0) => Worked(us, ds, 0)
    <2>. SUFFICES ASSUME Worked(ts, ds, 0), NEW k \in DOMAIN us,
                         us[k].status = "dispatched", k # 0
                  PROVE  /\ us[k].dispatch \in DOMAIN ds
                         /\ ds[us[k].dispatch].task = k
                         /\ ~Finished(ds[us[k].dispatch])
      BY DEF Worked
    <2>1. k \in DOMAIN ts /\ us[k] = ts[k]
      BY DEF Idles
    <2>. QED BY <2>1 DEF Worked
  <1>2. Coupled(ts, ds, 0) => Coupled(us, ds, 0)
    <2>. SUFFICES ASSUME Coupled(ts, ds, 0), Worked(tasks, dispatches, 0)
                  PROVE  /\ Worked(us, ds, 0)
                         /\ \A i \in DOMAIN dispatches :
                               /\ i \in DOMAIN ds
                               /\ Finished(dispatches[i]) =>
                                     ds[i].status = dispatches[i].status
                         /\ \A k \in DOMAIN tasks :
                               /\ k \in DOMAIN us
                               /\ tasks[k].status = "dispatched"
                                    /\ us[k].status \in Settled =>
                                     /\ tasks[k].dispatch \in DOMAIN ds
                                     /\ ds[tasks[k].dispatch].status = us[k].status
      BY DEF Coupled
    <2>1. \A k \in DOMAIN ts : us[k].status \in Settled => us[k] = ts[k]
      BY DEF Idles
    <2>2. DOMAIN ts \subseteq DOMAIN us
      BY DEF Idles
    <2>. QED BY <1>1, <2>1, <2>2 DEF Coupled
  <1>3. DepsMet(ts) => DepsMet(us)
    <2>. SUFFICES ASSUME DepsMet(ts), NEW k \in DOMAIN us,
                         us[k].status \notin {"pending", "blocked"},
                         NEW d \in us[k].deps
                  PROVE  d \in DOMAIN us /\ us[d].status = "completed"
      BY DEF DepsMet
    <2>1. k \in DOMAIN ts
      BY DEF Idles
    <2>2. d \in DOMAIN ts /\ ts[d].status = "completed"
      BY <2>1 DEF Idles, DepsMet
    <2>3. us[d] = ts[d] /\ d \in DOMAIN us
      BY <2>2 DEF Idles
    <2>. QED BY <2>2, <2>3
  <1>. QED BY <1>2, <1>3

\* promote is one.
LEMMA PromoteIdles ==
    ASSUME NEW ts \in Seq(Task)
    PROVE  Idles(ts, Promote(ts)) /\ \A k \in DOMAIN ts :
              ts[k].status = "blocked" => Promote(ts)[k].status = "blocked"
  <1>1. \A k \in DOMAIN ts : ts[k] \in Task
    OBVIOUS
  <1>2. \A x \in Task : LET y == [x EXCEPT !.status = "ready"]
                        IN y.deps = x.deps /\ y.status = "ready"
    BY DEF Task
  <1>3. Promote(ts) \in Seq(Task) /\ DOMAIN Promote(ts) = DOMAIN ts
    BY PromoteType DEF Promote
  <1>4. \A k \in DOMAIN ts :
           \/ Promote(ts)[k] = ts[k]
           \/ /\ ts[k].status = "pending"
              /\ Promote(ts)[k].status = "ready"
              /\ Promote(ts)[k].deps = ts[k].deps
              /\ \A d \in ts[k].deps : d \in DOMAIN ts /\ ts[d].status = "completed"
    BY <1>1, <1>2 DEF Promote
  <1>. QED BY <1>3, <1>4 DEF Idles, Settled

\* A rewriting of the tasks alone that keeps the invariant of the lists and
\* the blocked tasks.
LEMMA RewrittenIdles ==
    ASSUME NEW ts, NEW ds, NEW us, NEW tm, NEW free, NEW next,
           Rewritten(ts, ds, tm, free),
           Written(us, ds), Idles(ts, us),
           \A k \in DOMAIN ts :
              ts[k].status = "blocked" /\ k # next => us[k].status = "blocked",
           next # free => free = 0, 0 \notin DOMAIN tasks
    PROVE  Rewritten(us, ds, tm, next)
  <1>1. Coupled(us, ds, 0) /\ (DepsMet(ts) => DepsMet(us))
    BY IdlesKeeps DEF Rewritten
  <1>2. DOMAIN ts \subseteq DOMAIN us
    BY DEF Idles
  <1>3. Guarded(us, ds, next)
    BY <1>1, <1>2 DEF Rewritten, Guarded
  <1>. QED BY <1>1, <1>3 DEF Rewritten

LEMMA RewrittenPromote ==
    ASSUME TypeOK, NEW ts, NEW ds, NEW tm, NEW free, Rewritten(ts, ds, tm, free)
    PROVE  Rewritten(Promote(ts), ds, tm, free)
  <1>1. ts \in Seq(Task) /\ 0 \notin DOMAIN tasks
    BY DEF Rewritten, Written, TasksOK, TypeOK
  <1>2. Written(Promote(ts), ds)
    BY WrittenPromote DEF Rewritten
  <1>. QED BY <1>1, <1>2, PromoteIdles, RewrittenIdles

\* The lists as they are stored, and as a command reads them.
LEMMA RewrittenRead ==
    ASSUME TypeOK, NEW tm
    PROVE  Rewritten(tasks, dispatches, tm, 0) /\ Rewritten(TS, DS, tm, 0)
  <1>1. /\ Written(tasks, dispatches) /\ Written(TS, DS)
        /\ Carried(dispatches, tm) /\ Carried(DS, tm)
    BY ReadWritten, CarriedRead
  <1>2. Coupled(tasks, dispatches, 0)
    <2>. SUFFICES ASSUME Worked(tasks, dispatches, 0), NEW k \in DOMAIN tasks,
                         tasks[k].status = "dispatched"
                  PROVE  tasks[k].status \notin Settled
      BY DEF Coupled
    <2>. QED BY DEF Settled
  <1>3. Rewritten(tasks, dispatches, tm, 0)
    BY <1>1, <1>2 DEF Rewritten, Guarded
  <1>4. /\ tasks \in Seq(Task) /\ 0 \notin DOMAIN tasks
        /\ Idles(tasks, TS) /\ DOMAIN TS = DOMAIN tasks
        /\ \A k \in DOMAIN tasks : tasks[k].status = "blocked" => TS[k].status = "blocked"
    BY PromoteIdles, ListsRead DEF TypeOK, TS
  <1>5. /\ Coupled(TS, dispatches, 0)
        /\ DepsMet(tasks) => DepsMet(TS)
    BY <1>2, <1>4, IdlesKeeps
  <1>6. /\ KeptRows(dispatches, DS) /\ DOMAIN DS = DOMAIN dispatches
        /\ dispatches \in Seq(Row) /\ DS \in Seq(Row) /\ Len(DS) = Len(dispatches)
    BY DSKeeps, ListsRead DEF TypeOK, KeptRows
  <1>7. \A i \in DOMAIN dispatches : /\ DS[i].status = dispatches[i].status
                                     /\ DS[i].task = dispatches[i].task
                                     /\ Finished(DS[i]) <=> Finished(dispatches[i])
    BY <1>6 DEF KeptRows, Finished
  <1>8. Coupled(TS, DS, 0)
    <2>1. Worked(TS, dispatches, 0) => Worked(TS, DS, 0)
      BY <1>6, <1>7 DEF Worked
    <2>. QED BY <1>5, <1>6, <1>7, <2>1 DEF Coupled
  <1>9. Spared(dispatches) => Spared(DS)
    <2>1. BreakerTrips \in Nat
      BY BoundsAreNaturals
    <2>2. ASSUME NEW i \in DOMAIN dispatches, dispatches[i].cleared
          PROVE  DS[i].cleared
      <3>1. Reconcile(dispatches)[i].cleared
        BY <2>2, ReconciledRow DEF TypeOK
      <3>2. /\ Reconcile(dispatches) \in Seq(Row)
            /\ DOMAIN Reconcile(dispatches) = DOMAIN dispatches
        BY ReconcileKeeps DEF TypeOK, KeptRows, Reconcile
      <3>3. Goes(Reconcile(dispatches)[i], DS[i], tm)
        BY <3>2, SpendGoneGoes DEF DS, RowsGo
      <3>. QED BY <3>1, <3>3 DEF Goes
    <2>. QED BY <1>6, <1>7, <2>1, <2>2, SparedKept
  <1>. QED BY <1>1, <1>3, <1>4, <1>5, <1>8, <1>9 DEF Rewritten, Guarded

\* A new task waits.
LEMMA RewrittenNewTask ==
    ASSUME TypeOK, NEW ts, NEW ds, NEW tm, Rewritten(ts, ds, tm, 0),
           Len(ts) = Len(tasks), Len(tasks) < MaxTasks,
           NEW deps \in SUBSET TaskIds
    PROVE  Rewritten(Append(ts, [status |-> "pending", dispatch |-> 0,
                                 deps |-> deps]), ds, tm, 0)
  <1>. DEFINE new == [status |-> "pending", dispatch |-> 0, deps |-> deps]
              us == Append(ts, new)
  <1>1. Written(us, ds)
    BY WrittenNewTask DEF Rewritten
  <1>2. ts \in Seq(Task) /\ us \in Seq(Task) /\ new.status = "pending"
    BY <1>1 DEF Rewritten, Written, TasksOK
  <1>. HIDE DEF new
  <1>3. /\ DOMAIN us = DOMAIN ts \cup {Len(ts) + 1}
        /\ us[Len(ts) + 1] = new
        /\ \A k \in DOMAIN ts : us[k] = ts[k]
    BY <1>2
  <1>. HIDE DEF us
  <1>4. Idles(ts, us)
    BY <1>2, <1>3 DEF Idles
  <1>5. 0 \notin DOMAIN tasks
    BY DEF TypeOK
  <1>6. Rewritten(us, ds, tm, 0)
    BY <1>1, <1>3, <1>4, <1>5, RewrittenIdles
  <1>. QED BY <1>6 DEF us, new

\* A gate blocks a task that is not worked on.
LEMMA RewrittenBlocked ==
    ASSUME TypeOK, NEW ts, NEW ds, NEW tm, Rewritten(ts, ds, tm, 0),
           NEW k \in DOMAIN ts, ts[k].status \in {"pending", "ready", "blocked"}
    PROVE  Rewritten(Marked(ts, k, "blocked"), ds, tm, 0)
  <1>. DEFINE us == Marked(ts, k, "blocked")
              e == [ts[k] EXCEPT !.status = "blocked"]
  <1>1. /\ ts \in Seq(Task) /\ ts[k] \in Task /\ "blocked" \in TaskStates
        /\ 0 \notin DOMAIN tasks
    BY DEF Rewritten, Written, TasksOK, TypeOK, TaskStates
  <1>2. Written(us, ds)
    BY <1>1, WrittenMarked DEF Rewritten
  <1>3. e.status = "blocked" /\ e.deps = ts[k].deps /\ us = [ts EXCEPT ![k] = e]
    BY <1>1 DEF Task, Marked
  <1>. HIDE DEF e
  <1>4. us \in Seq(Task)
    BY <1>2 DEF Written, TasksOK
  <1>5. DOMAIN us = DOMAIN ts /\ us[k] = e /\ \A x \in DOMAIN ts : x # k => us[x] = ts[x]
    BY <1>1, <1>3
  <1>. HIDE DEF us
  <1>6. Idles(ts, us)
    BY <1>3, <1>4, <1>5 DEF Idles, Settled
  <1>7. \A x \in DOMAIN ts : ts[x].status = "blocked" => us[x].status = "blocked"
    BY <1>3, <1>5
  <1>8. Rewritten(us, ds, tm, 0)
    BY <1>1, <1>2, <1>6, <1>7, RewrittenIdles
  <1>. QED BY <1>8 DEF us

\* The last gate of a task lets it wait again.
LEMMA RewrittenUnblocked ==
    ASSUME TypeOK, NEW ts, NEW ds, NEW tm, Rewritten(ts, ds, tm, 0), NEW k, NEW us,
           us = [x \in DOMAIN ts |-> IF x = k /\ ts[x].status = "blocked"
                                     THEN [ts[x] EXCEPT !.status = "pending"]
                                     ELSE ts[x]]
    PROVE  Rewritten(us, ds, tm, k)
  <1>1. ts \in Seq(Task) /\ 0 \notin DOMAIN tasks
    BY DEF Rewritten, Written, TasksOK, TypeOK
  <1>2. \A x \in DOMAIN ts : ts[x] \in Task
    BY <1>1
  <1>3. \A x \in Task : LET y == [x EXCEPT !.status = "pending"]
                        IN y \in Task /\ y.deps = x.deps /\ y.status = "pending"
    BY DEF Task, TaskStates
  <1>4. /\ us \in [DOMAIN ts -> Task]
        /\ \A x \in DOMAIN ts :
              \/ us[x] = ts[x]
              \/ /\ x = k /\ ts[x].status = "blocked" /\ us[x].status = "pending"
                 /\ us[x].deps = ts[x].deps
    BY <1>2, <1>3
  <1>5. us \in Seq(Task) /\ Len(us) = Len(ts) /\ DOMAIN us = DOMAIN ts
    BY <1>1, <1>4, MappedSeq
  <1>6. Idles(ts, us)
    BY <1>4, <1>5 DEF Idles, Settled
  <1>7. Written(us, ds)
    <2>1. TasksOK(us) /\ 0 \notin DOMAIN ds
      BY <1>5 DEF Rewritten, Written, TasksOK, RowsOK
    <2>2. \A x \in DOMAIN ts : ts[x].status = "dispatched" => us[x] = ts[x]
      BY <1>4
    <2>3. Moves(ts, ds, us, ds, 0)
      BY <1>5, <2>1, <2>2 DEF Moves
    <2>. QED BY <2>1, <2>3, WrittenMoves DEF Rewritten, Written
  <1>8. \A x \in DOMAIN ts : ts[x].status = "blocked" /\ x # k => us[x].status = "blocked"
    BY <1>4
  <1>. QED BY <1>1, <1>6, <1>7, <1>8, RewrittenIdles

\* Row i ends as abandoned or stopped, and its task is handed back.
LEMMA RewrittenEnded ==
    ASSUME TypeOK, NEW ts, NEW ds, NEW tm, Rewritten(ts, ds, tm, 0),
           NEW i \in DOMAIN ds, NEW st \in {"abandoned", "stopped"},
           ds[i].status = st \/ ~Finished(ds[i])
    PROVE  Rewritten(HandBack(ts, ds[i].task, i), Ended(ds, i, st), tm, 0)
  <1>. DEFINE k == ds[i].task
              us == HandBack(ts, k, i)
              es == Ended(ds, i, st)
  <1>1. /\ ts \in Seq(Task) /\ ds \in Seq(Row) /\ ds[i] \in Row
        /\ st \in FINISHED /\ st \in RowStates /\ st \notin Settled /\ st # "failed"
    BY DEF Rewritten, Written, TasksOK, RowsOK, FINISHED, RowStates, Settled
  <1>2. Written(us, es)
    BY <1>1, WrittenEnded DEF Rewritten
  <1>3. /\ es \in Seq(Row) /\ Len(es) = Len(ds)
        /\ es[i].status = st /\ es[i].task = ds[i].task
        /\ \A j \in DOMAIN ds : j # i => es[j] = ds[j]
    BY <1>1, StatusSet
  <1>4. Carried(es, tm)
    <2>. DEFINE e == [ds[i] EXCEPT !.status = st]
    <2>1. Goes(ds[i], e, tm)
      BY <1>1, StatusGoes
    <2>2. e \in Row
      BY <1>1 DEF Row
    <2>3. es = [ds EXCEPT ![i] = e]
      BY DEF Ended
    <2>. HIDE DEF e, es
    <2>4. RowsGo(ds, es, tm)
      BY <1>1, <2>1, <2>2, <2>3, RowGoes
    <2>. QED BY <2>4, CarriedOn DEF Rewritten
  \* Only k, when it is dispatched under i, is another task afterwards.
  <1>5. \A x \in Task : LET y == [x EXCEPT !.status = "ready", !.dispatch = 0]
                        IN y.deps = x.deps /\ y.status = "ready"
    BY DEF Task
  <1>6. /\ us \in Seq(Task) /\ DOMAIN us = DOMAIN ts
        /\ \A x \in DOMAIN ts :
              IF x = k /\ ts[x].status = "dispatched" /\ ts[x].dispatch = i
              THEN us[x].status = "ready" /\ us[x].deps = ts[x].deps
              ELSE us[x] = ts[x]
    <2>1. \A x \in DOMAIN ts : ts[x] \in Task
      BY <1>1
    <2>2. us \in Seq(Task)
      BY <1>1, HandBackType
    <2>3. DOMAIN us = DOMAIN ts
      BY DEF HandBack
    <2>4. ASSUME NEW x \in DOMAIN ts
          PROVE  IF x = k /\ ts[x].status = "dispatched" /\ ts[x].dispatch = i
                 THEN us[x].status = "ready" /\ us[x].deps = ts[x].deps
                 ELSE us[x] = ts[x]
      <3>1. us[x] = IF x = k /\ ts[x].status = "dispatched" /\ ts[x].dispatch = i
                    THEN [ts[x] EXCEPT !.status = "ready", !.dispatch = 0]
                    ELSE ts[x]
        BY DEF HandBack
      <3>. QED BY <1>5, <2>1, <3>1
    <2>. QED BY <2>2, <2>3, <2>4
  <1>. HIDE DEF us, es
  <1>7. DOMAIN es = DOMAIN ds /\ Finished(es[i])
    BY <1>1, <1>3 DEF Finished
  <1>8. Coupled(us, es, 0)
    <2>. SUFFICES ASSUME Worked(tasks, dispatches, 0)
                  PROVE  /\ Worked(us, es, 0)
                         /\ \A j \in DOMAIN dispatches :
                               /\ j \in DOMAIN es
                               /\ Finished(dispatches[j]) =>
                                     es[j].status = dispatches[j].status
                         /\ \A x \in DOMAIN tasks :
                               /\ x \in DOMAIN us
                               /\ tasks[x].status = "dispatched"
                                    /\ us[x].status \in Settled =>
                                     /\ tasks[x].dispatch \in DOMAIN es
                                     /\ es[tasks[x].dispatch].status = us[x].status
      BY DEF Coupled
    <2>a. /\ Worked(ts, ds, 0)
          /\ \A j \in DOMAIN dispatches :
                /\ j \in DOMAIN ds
                /\ Finished(dispatches[j]) => ds[j].status = dispatches[j].status
          /\ \A x \in DOMAIN tasks :
                /\ x \in DOMAIN ts
                /\ tasks[x].status = "dispatched" /\ ts[x].status \in Settled =>
                      /\ tasks[x].dispatch \in DOMAIN ds
                      /\ ds[tasks[x].dispatch].status = ts[x].status
      BY DEF Rewritten, Coupled
    <2>1. Worked(us, es, 0)
      <3>. SUFFICES ASSUME NEW x \in DOMAIN us, us[x].status = "dispatched", x # 0
                    PROVE  /\ us[x].dispatch \in DOMAIN es
                           /\ es[us[x].dispatch].task = x
                           /\ ~Finished(es[us[x].dispatch])
        BY DEF Worked
      <3>1. us[x] = ts[x] /\ ~(x = k /\ ts[x].dispatch = i)
        BY <1>6
      <3>2. /\ ts[x].dispatch \in DOMAIN ds /\ ds[ts[x].dispatch].task = x
            /\ ~Finished(ds[ts[x].dispatch])
        BY <1>6, <2>a, <3>1 DEF Worked
      <3>. QED BY <1>3, <1>7, <3>1, <3>2
    <2>2. ASSUME NEW j \in DOMAIN dispatches, Finished(dispatches[j])
          PROVE  es[j].status = dispatches[j].status
      <3>1. j \in DOMAIN ds /\ Finished(ds[j]) /\ ds[j].status = dispatches[j].status
        BY <2>2, <2>a DEF Finished
      <3>. QED BY <1>3, <3>1
    <2>3. ASSUME NEW x \in DOMAIN tasks, tasks[x].status = "dispatched",
                 us[x].status \in Settled
          PROVE  /\ tasks[x].dispatch \in DOMAIN es
                 /\ es[tasks[x].dispatch].status = us[x].status
      <3>1. us[x] = ts[x]
        BY <1>6, <2>3, <2>a DEF Settled
      <3>2. /\ tasks[x].dispatch \in DOMAIN ds
            /\ ds[tasks[x].dispatch].status = ts[x].status
        BY <2>3, <2>a, <3>1
      <3>3. Finished(ds[tasks[x].dispatch]) /\ ds[tasks[x].dispatch].status # st
        BY <1>1, <2>3, <3>1, <3>2 DEF Finished, FINISHED, Settled
      <3>4. tasks[x].dispatch # i
        BY <3>3
      <3>. QED BY <1>3, <1>7, <3>1, <3>2, <3>4
    <2>. QED BY <1>6, <1>7, <2>a, <2>1, <2>2, <2>3
  <1>9. Guarded(us, es, 0)
    <2>1. DepsMet(ts) => DepsMet(us)
      <3>. SUFFICES ASSUME DepsMet(ts), NEW x \in DOMAIN us,
                           us[x].status \notin {"pending", "blocked"},
                           NEW d \in us[x].deps
                    PROVE  d \in DOMAIN us /\ us[d].status = "completed"
        BY DEF DepsMet
      <3>1. ts[x].status \notin {"pending", "blocked"} /\ us[x].deps = ts[x].deps
        BY <1>6
      <3>2. d \in DOMAIN ts /\ ts[d].status = "completed"
        BY <1>6, <3>1 DEF DepsMet
      <3>. QED BY <1>6, <3>2
    <2>2. Spared(ds) => Spared(es)
      <3>1. BreakerTrips \in Nat
        BY BoundsAreNaturals
      <3>. QED BY <1>1, <1>3, <1>7, <3>1, SparedKept
    <2>3. \A x \in DOMAIN ts : ts[x].status = "blocked" => us[x] = ts[x]
      BY <1>6
    <2>. QED BY <1>6, <2>1, <2>2, <2>3 DEF Rewritten, Guarded
  <1>10. Rewritten(us, es, tm, 0)
    BY <1>2, <1>4, <1>8, <1>9 DEF Rewritten
  <1>. QED BY <1>10 DEF us, es

\* The failures the breaker counts are a finite set.
LEMMA FailuresFinite ==
    ASSUME NEW ds \in Seq(Row), NEW k
    PROVE  /\ IsFiniteSet(FailedDispatches(ds, k))
           /\ Cardinality(FailedDispatches(ds, k)) \in Nat
  <1>1. DOMAIN ds = 1..Len(ds) /\ 1 \in Int /\ Len(ds) \in Int
    OBVIOUS
  <1>2. IsFiniteSet(DOMAIN ds)
    BY <1>1, FS_Interval
  <1>3. FailedDispatches(ds, k) \subseteq DOMAIN ds
    BY DEF FailedDispatches
  <1>4. IsFiniteSet(FailedDispatches(ds, k))
    BY <1>2, <1>3, FS_Subset
  <1>. QED BY <1>4, FS_CardinalityType

\* The failure of a worker is one the breaker had to spare.
LEMMA SparedFailure ==
    ASSUME NEW ds \in Seq(Row), NEW es \in Seq(Row), Len(es) = Len(ds),
           NEW ts, NEW i \in DOMAIN ds, NEW k \in TaskIds,
           Spared(ds), Held(ts, ds),
           ds[i].task = k, ~Finished(ds[i]), es[i].task = k, Finished(es[i]),
           \A j \in DOMAIN ds : j # i => es[j] = ds[j]
    PROVE  Spared(es)
  <1>1. DOMAIN es = DOMAIN ds /\ BreakerTrips \in Nat
    BY BoundsAreNaturals
  <1>2. ASSUME NEW x \in TaskIds, x # k
        PROVE  FailedDispatches(es, x) = FailedDispatches(ds, x)
    BY <1>1, <1>2 DEF FailedDispatches
  <1>3. FailedDispatches(es, k) \subseteq FailedDispatches(ds, k) \cup {i}
    BY <1>1 DEF FailedDispatches
  <1>4. Cardinality(FailedDispatches(ds, k)) < BreakerTrips
    BY DEF Spared, UnderBreaker
  <1>5. Cardinality(FailedDispatches(es, k)) <= BreakerTrips
    <2>1. /\ IsFiniteSet(FailedDispatches(ds, k) \cup {i})
          /\ Cardinality(FailedDispatches(ds, k) \cup {i})
               <= Cardinality(FailedDispatches(ds, k)) + 1
      <3>. DEFINE F == FailedDispatches(ds, k)
      <3>1. IsFiniteSet(F) /\ Cardinality(F) \in Nat
        BY FailuresFinite
      <3>. HIDE DEF F
      <3>2. /\ IsFiniteSet(F \cup {i})
            /\ Cardinality(F \cup {i}) = IF i \in F THEN Cardinality(F)
                                         ELSE Cardinality(F) + 1
        BY <3>1, FS_AddElement
      <3>3. Cardinality(F \cup {i}) <= Cardinality(F) + 1
        BY <3>1, <3>2
      <3>. QED BY <3>2, <3>3 DEF F
    <2>2. Cardinality(FailedDispatches(es, k))
            <= Cardinality(FailedDispatches(ds, k) \cup {i})
      BY <1>3, <2>1, FS_Subset
    <2>3. /\ Cardinality(FailedDispatches(es, k)) \in Nat
          /\ Cardinality(FailedDispatches(ds, k)) \in Nat
          /\ Cardinality(FailedDispatches(ds, k) \cup {i}) \in Nat
      BY <2>1, FailuresFinite, FS_CardinalityType
    <2>. QED BY <1>1, <1>4, <2>1, <2>2, <2>3
  \* Row i was the one unfinished row of k.
  <1>6. \A j \in DOMAIN es : es[j].task = k => Finished(es[j])
    BY <1>1 DEF Held
  <1>7. \A x \in TaskIds : x # k =>
           ((\E j \in DOMAIN es : es[j].task = x /\ ~Finished(es[j])) =>
              \E j \in DOMAIN ds : ds[j].task = x /\ ~Finished(ds[j]))
    BY <1>1
  <1>. QED BY <1>2, <1>5, <1>6, <1>7 DEF Spared, UnderBreaker

\* task_update: an open dispatch ends with its task, in the same step.  When
\* the overruling commands are not used, only the worker's own report calls it.
LEMMA RewrittenUpdate ==
    ASSUME TypeOK, NEW ts, NEW ds, NEW tm, Rewritten(ts, ds, tm, 0),
           NEW k \in DOMAIN ts, NEW to \in TaskStates, NEW c,
           UpdateAllowed(ts, ds, k, to, c),
           k \in DOMAIN tasks,
           tasks[k].status = "dispatched" =>
              ts[k].status = "dispatched" /\ ts[k].dispatch = tasks[k].dispatch,
           Careful => to \in Settled /\ ts[k].status = "dispatched"
    PROVE  Rewritten(Promote(UpdatedTasks(ts, k, to)),
                     UpdatedRows(ts, ds, k, to), tm, 0)
  <1>. DEFINE us == UpdatedTasks(ts, k, to)
              es == UpdatedRows(ts, ds, k, to)
              open == OpenDispatch(ts, k)
              ends == open \in DOMAIN ds /\ ~Finished(ds[open]) /\ to # "dispatched"
              st == IF to \in Settled THEN to ELSE "abandoned"
  <1>1. /\ ts \in Seq(Task) /\ ds \in Seq(Row) /\ 0 \notin DOMAIN ds
        /\ st \in RowStates /\ st \in FINISHED
        /\ DOMAIN ts \subseteq TaskIds
    BY Bounds DEF Rewritten, Written, TasksOK, RowsOK, RowStates, FINISHED, Settled,
                  TaskIds
  <1>2. /\ us \in Seq(Task) /\ Len(us) = Len(ts) /\ us[k].status = to
        /\ to = "dispatched" => us[k].dispatch = ts[k].dispatch
        /\ \A x \in DOMAIN ts : x # k => us[x] = ts[x]
    BY <1>1, UpdatedTasksType
  <1>3. DOMAIN us = DOMAIN ts /\ us[k].deps = ts[k].deps
    <2>1. ts[k] \in Task
      BY <1>1
    <2>. QED BY <1>1, <2>1 DEF UpdatedTasks, Task
  <1>4. /\ es \in Seq(Row) /\ Len(es) = Len(ds) /\ DOMAIN es = DOMAIN ds
        /\ ~ends => es = ds
        /\ ends => /\ open \in DOMAIN ds
                   /\ es[open].status = st /\ es[open].task = ds[open].task
                   /\ \A j \in DOMAIN ds : j # open => es[j] = ds[j]
    <2>1. CASE ~ends
      <3>1. es = ds
        BY <2>1 DEF UpdatedRows
      <3>. QED BY <1>1, <2>1, <3>1
    <2>2. CASE ends
      <3>1. es = Ended(ds, open, st)
        BY <2>2 DEF UpdatedRows, Ended
      <3>. HIDE DEF es, st, open
      <3>2. open \in DOMAIN ds
        BY <2>2
      <3>. QED BY <1>1, <2>2, <3>1, <3>2, StatusSet
    <2>. QED BY <2>1, <2>2
  <1>5. RowsGo(ds, es, tm)
    <2>1. CASE ~ends
      BY <1>1, <1>4, <2>1, StaysSo DEF RowsGo
    <2>2. CASE ends
      <3>. DEFINE e == [ds[open] EXCEPT !.status = st]
      <3>1. ds[open] \in Row /\ es = [ds EXCEPT ![open] = e]
        BY <1>1, <2>2 DEF UpdatedRows
      <3>. HIDE DEF es, st, open
      <3>2. Goes(ds[open], e, tm) /\ e \in Row /\ open \in DOMAIN ds
        BY <1>1, <2>2, <3>1, StatusGoes DEF Row
      <3>. HIDE DEF e
      <3>. QED BY <1>1, <3>1, <3>2, RowGoes
    <2>. QED BY <2>1, <2>2
  <1>6. Written(Promote(us), es)
    BY WrittenUpdate DEF Rewritten
  <1>7. Written(us, es)
    <2>1. TasksOK(us) /\ RowsOK(es)
      BY <1>2, <1>4, <1>1 DEF Rewritten, Written, TasksOK, RowsOK
    <2>2. Held(ts, ds) => Held(us, es)
      <3>. SUFFICES ASSUME Held(ts, ds), NEW j \in DOMAIN es, ~Finished(es[j])
                    PROVE  /\ es[j].task \in DOMAIN us
                           /\ us[es[j].task].status = "dispatched"
                           /\ us[es[j].task].dispatch = j
        BY DEF Held
      <3>1. ~(ends /\ j = open)
        BY <1>1, <1>4 DEF Finished
      <3>2. es[j] = ds[j] /\ j \in DOMAIN ds
        BY <1>4, <3>1
      <3>3. /\ ds[j].task \in DOMAIN ts /\ ts[ds[j].task].status = "dispatched"
            /\ ts[ds[j].task].dispatch = j
        BY <3>2 DEF Held
      <3>4. ds[j].task = k => to = "dispatched"
        BY <3>1, <3>2, <3>3 DEF OpenDispatch
      <3>. QED BY <1>2, <1>3, <3>2, <3>3, <3>4
    <2>. QED BY <2>1, <2>2 DEF Rewritten, Written
  <1>8. open \in {0, ts[k].dispatch} /\ (open # 0 => ts[k].status = "dispatched")
        /\ (ts[k].status = "dispatched" => open = ts[k].dispatch)
        /\ (to = "dispatched" => ts[k].status = "dispatched")
        /\ ~(ts[k].status \in Settled /\ to \in Settled)
    BY DEF OpenDispatch, UpdateAllowed
  <1>9. Carried(es, tm)
    BY <1>5, CarriedOn DEF Rewritten
  <1>10. to \in Settled => st = to
    OBVIOUS
  <1>. HIDE DEF us, es, open, st
  <1>11. Coupled(us, es, 0)
    <2>. SUFFICES ASSUME Worked(tasks, dispatches, 0)
                  PROVE  /\ Worked(us, es, 0)
                         /\ \A j \in DOMAIN dispatches :
                               /\ j \in DOMAIN es
                               /\ Finished(dispatches[j]) =>
                                     es[j].status = dispatches[j].status
                         /\ \A x \in DOMAIN tasks :
                               /\ x \in DOMAIN us
                               /\ tasks[x].status = "dispatched"
                                    /\ us[x].status \in Settled =>
                                     /\ tasks[x].dispatch \in DOMAIN es
                                     /\ es[tasks[x].dispatch].status = us[x].status
      BY DEF Coupled
    <2>a. /\ Worked(ts, ds, 0)
          /\ \A j \in DOMAIN dispatches :
                /\ j \in DOMAIN ds
                /\ Finished(dispatches[j]) => ds[j].status = dispatches[j].status
          /\ \A x \in DOMAIN tasks :
                /\ x \in DOMAIN ts
                /\ tasks[x].status = "dispatched" /\ ts[x].status \in Settled =>
                      /\ tasks[x].dispatch \in DOMAIN ds
                      /\ ds[tasks[x].dispatch].status = ts[x].status
      BY DEF Rewritten, Coupled
    <2>b. ts[k].status = "dispatched" =>
            /\ open \in DOMAIN ds /\ ds[open].task = k /\ ~Finished(ds[open])
      BY <1>1, <1>8, <2>a DEF Worked
    <2>1. Worked(us, es, 0)
      <3>. SUFFICES ASSUME NEW x \in DOMAIN us, us[x].status = "dispatched", x # 0
                    PROVE  /\ us[x].dispatch \in DOMAIN es
                           /\ es[us[x].dispatch].task = x
                           /\ ~Finished(es[us[x].dispatch])
        BY DEF Worked
      <3>1. CASE x = k
        <4>1. to = "dispatched" /\ us[x].dispatch = ts[x].dispatch /\ ~ends
          BY <1>2, <3>1
        <4>. QED BY <1>4, <1>8, <2>b, <3>1, <4>1
      <3>2. CASE x # k
        <4>1. us[x] = ts[x] /\ x \in DOMAIN ts
          BY <1>2, <1>3, <3>2
        <4>2. /\ ts[x].dispatch \in DOMAIN ds /\ ds[ts[x].dispatch].task = x
              /\ ~Finished(ds[ts[x].dispatch])
          BY <2>a, <4>1 DEF Worked
        <4>3. ends => ts[x].dispatch # open
          BY <1>1, <1>8, <2>b, <3>2, <4>2
        <4>. QED BY <1>4, <4>1, <4>2, <4>3
      <3>. QED BY <3>1, <3>2
    <2>2. ASSUME NEW j \in DOMAIN dispatches, Finished(dispatches[j])
          PROVE  es[j].status = dispatches[j].status
      <3>1. j \in DOMAIN ds /\ Finished(ds[j]) /\ ds[j].status = dispatches[j].status
        BY <2>2, <2>a DEF Finished
      <3>. QED BY <1>4, <3>1
    <2>3. ASSUME NEW x \in DOMAIN tasks, tasks[x].status = "dispatched",
                 us[x].status \in Settled
          PROVE  /\ tasks[x].dispatch \in DOMAIN es
                 /\ es[tasks[x].dispatch].status = us[x].status
      <3>1. CASE x = k
        <4>1. to \in Settled /\ to # "dispatched" /\ us[x].status = to
          BY <1>2, <2>3, <3>1 DEF Settled
        <4>2. ts[k].status = "dispatched" /\ ts[k].dispatch = tasks[k].dispatch
          BY <2>3, <3>1
        <4>3. ends /\ open = tasks[k].dispatch
          BY <1>8, <2>b, <4>1, <4>2
        <4>. QED BY <1>4, <1>10, <3>1, <4>1, <4>3
      <3>2. CASE x # k
        <4>1. us[x] = ts[x]
          BY <1>2, <2>a, <3>2
        <4>2. /\ tasks[x].dispatch \in DOMAIN ds
              /\ ds[tasks[x].dispatch].status = ts[x].status
          BY <2>3, <2>a, <4>1
        <4>3. Finished(ds[tasks[x].dispatch])
          BY <2>3, <4>1, <4>2 DEF Finished, FINISHED, Settled
        <4>. QED BY <1>4, <4>1, <4>2, <4>3
      <3>. QED BY <3>1, <3>2
    <2>. QED BY <1>3, <1>4, <2>a, <2>1, <2>2, <2>3
  <1>12. Guarded(us, es, 0)
    <2>1. Held(ts, ds) /\ Spared(ds) => Spared(es)
      <3>1. CASE ~ends
        BY <1>4, <3>1
      <3>2. CASE ends
        <4>1. Finished(es[open]) /\ es[open].task = ds[open].task
          BY <1>1, <1>4, <3>2 DEF Finished
        <4>2. open \in DOMAIN ds
          BY <3>2
        <4>3. ds[open] \in Row
          BY <1>1, <4>2
        <4>4. ds[open].task \in TaskIds
          BY <4>3 DEF Row
        <4>. QED BY <1>1, <1>4, <3>2, <4>1, <4>2, <4>4, SparedFailure
      <3>. QED BY <3>1, <3>2
    <2>2. ASSUME Careful, DepsMet(ts)
          PROVE  DepsMet(us)
      <3>. SUFFICES ASSUME NEW x \in DOMAIN us,
                           us[x].status \notin {"pending", "blocked"},
                           NEW d \in us[x].deps
                    PROVE  d \in DOMAIN us /\ us[d].status = "completed"
        BY DEF DepsMet
      <3>1. ts[x].status \notin {"pending", "blocked"} /\ us[x].deps = ts[x].deps
        BY <1>2, <1>3, <2>2
      <3>2. d \in DOMAIN ts /\ ts[d].status = "completed"
        BY <1>3, <2>2, <3>1 DEF DepsMet
      <3>3. d # k
        BY <2>2, <3>2
      <3>. QED BY <1>2, <1>3, <3>2, <3>3
    <2>3. ASSUME Careful
          PROVE  \A x \in DOMAIN tasks : tasks[x].status = "blocked" =>
                    x \in DOMAIN us /\ us[x].status = "blocked"
      <3>1. \A x \in DOMAIN tasks : tasks[x].status = "blocked" /\ x # 0 =>
               x \in DOMAIN ts /\ ts[x].status = "blocked"
        BY <2>3 DEF Rewritten, Guarded
      <3>2. 0 \notin DOMAIN tasks
        BY DEF TypeOK
      <3>. QED BY <1>2, <1>3, <2>3, <3>1, <3>2
    <2>. QED BY <2>1, <2>2, <2>3 DEF Rewritten, Guarded, Written
  <1>13. Rewritten(us, es, tm, 0)
    BY <1>7, <1>9, <1>11, <1>12 DEF Rewritten
  <1>. QED BY <1>13, RewrittenPromote DEF us, es

-----------------------------------------------------------------------------
(* The kinds of steps.                                                     *)

\* A terminal stays as it is, or is closed while it was open.
Closes == \A t \in Terms : \/ terms'[t] = terms[t]
                           \/ terms[t] = "open" /\ terms'[t] = "closed"

\* A command wrote both lists to the end.
Saved ==
    /\ NoStart
    /\ \E free : Rewritten(tasks', dispatches', terms', free)
    /\ Closes
    /\ NoReset => doneMail \subseteq doneMail'
    /\ Careful /\ Gated(tasks) => Gated(tasks)'
    /\ UNCHANGED <<process, history>>

\* The process ended: in the middle of a reset, of a command or of a retry, or
\* on its own, a worker start in flight or not.
Died ==
    \E ts, ds : \E how \in {{}, {"start"}, {"reset"}} :
        /\ DieWith(ts, ds, how)
        /\ TasksOK(ts) /\ RowsOK(ds)
        /\ \/ ts = <<>> /\ ds = <<>> /\ ~NoReset
           \/ ts = <<>> /\ ds = dispatches /\ how = {"reset"} /\ ~NoReset
           \/ how = {} /\ NoStart /\ \E free : Rewritten(ts, ds, terms, free)
           \/ /\ how = {"start"} /\ ts = tasks /\ ~HandsOnly /\ NoStart
              /\ Carried(ds, terms)
              /\ \E held : Coupled(ts, ds, held)
           \/ how = {"start"} /\ ts = tasks /\ ds = dispatches /\ ~NoStart

\* A worker start claimed its task.
Claimed ==
    \E ts \in Seq(Task) : \E k \in DOMAIN ts :
        /\ Claim(ts, k)
        /\ NoStart /\ ~HandsOnly
        /\ Carried(dispatches', terms)
        /\ Coupled(ts, dispatches', k)

\* A reset of the tasks went through.
Emptied ==
    /\ NoStart /\ ~NoReset
    /\ tasks' = <<>> /\ dispatches' = <<>> /\ gates' = <<>>
    /\ resets' = resets + 1
    /\ lost' = {}
    /\ UNCHANGED <<terms, process>>

\* Open gates go on blocking their tasks when no task is let go.
LEMMA GatedKept ==
    ASSUME TypeOK, NEW ts, NEW ds, NEW tm, Rewritten(ts, ds, tm, 0), Careful,
           Gated(tasks)
    PROVE  Gated(ts)
  <1>1. 0 \notin DOMAIN tasks
    BY DEF TypeOK
  <1>2. \A k \in DOMAIN tasks : tasks[k].status = "blocked" =>
           k \in DOMAIN ts /\ ts[k].status = "blocked"
    BY <1>1 DEF Rewritten, Guarded
  <1>. QED BY <1>2 DEF Gated

\* What a save writes is what the command made of the lists.
LEMMA WroteBoth ==
    ASSUME TypeOK, NEW ts, NEW ds, NEW free, Rewritten(ts, ds, terms', free),
           Save(ts, ds)
    PROVE  Rewritten(tasks', dispatches', terms', free)
  <1>1. tasks' = ts /\ dispatches' = SpendGone(ds, terms')
    BY DEF Save
  <1>2. ds \in Seq(Row)
    BY DEF Rewritten, Written, RowsOK
  <1>3. KeptRows(ds, dispatches') /\ RowsGo(ds, dispatches', terms')
    BY <1>1, <1>2, SpendGoneKeeps, SpendGoneGoes
  <1>. QED BY <1>1, <1>3, RewrittenKept

LEMMA SavedSo ==
    ASSUME TypeOK, NoStart, NEW ts, NEW ds, Rewritten(ts, ds, terms', 0),
           Save(ts, ds), Closes, UNCHANGED mail
    PROVE  Saved
  <1>1. Rewritten(tasks', dispatches', terms', 0)
    BY WroteBoth
  <1>2. UNCHANGED <<process, history>> /\ UNCHANGED <<gates, doneMail>> /\ tasks' = ts
    BY DEF Save, mail
  <1>3. Careful /\ Gated(tasks) => Gated(tasks)'
    <2>1. Careful /\ Gated(tasks) => Gated(tasks')
      BY <1>1, GatedKept
    <2>. QED BY <1>2, <2>1 DEF Gated
  <1>. QED BY <1>1, <1>2, <1>3 DEF Saved

LEMMA SavedListsSo ==
    ASSUME TypeOK, NoStart, NEW ts, NEW ds, Rewritten(ts, ds, terms, 0),
           SaveLists(ts, ds)
    PROVE  Saved
  <1>1. Save(ts, ds) /\ terms' = terms /\ UNCHANGED mail
    BY DEF SaveLists
  <1>2. Closes /\ Rewritten(ts, ds, terms', 0)
    BY <1>1 DEF Closes
  <1>. QED BY <1>1, <1>2, SavedSo

\* A crash after the lists were saved.
LEMMA DiedInCommand ==
    ASSUME NoStart, NEW ts, NEW ds, NEW free, Rewritten(ts, ds, terms, free),
           DieWith(ts, ds, {})
    PROVE  Died
  <1>1. TasksOK(ts) /\ RowsOK(ds)
    BY DEF Rewritten, Written
  <1>. QED BY <1>1 DEF Died

\* Commands on tasks.
LEMMA TaskCommandKind ==
    ASSUME IInv, TaskCommand
    PROVE  \/ Saved \/ Died \/ Claimed
           \/ \E k \in DOMAIN tasks, t \in Terms : Dispatch(k, t)
  <1>. USE Bounds
  <1>a. /\ TypeOK /\ Rewritten(tasks, dispatches, terms, 0)
        /\ Rewritten(TS, DS, terms, 0)
        /\ Len(TS) = Len(tasks) /\ DOMAIN TS = DOMAIN tasks
        /\ TS \in Seq(Task) /\ DS \in Seq(Row) /\ Len(tasks) \in Nat
        /\ 0 \notin DOMAIN tasks /\ tasks \in Seq(Task)
    BY RewrittenRead, PromoteType, ListsRead DEF IInv, TypeOK, TS, TasksOK, RowsOK
  <1>1. CASE TaskCreate
    <2>1. PICK deps \in SUBSET DOMAIN tasks :
            SaveLists(Promote(Append(TS, [status |-> "pending", dispatch |-> 0,
                                          deps |-> deps])), DS)
      BY <1>1 DEF TaskCreate
    <2>. DEFINE ts == Append(TS, [status |-> "pending", dispatch |-> 0, deps |-> deps])
    <2>2. Rewritten(ts, DS, terms, 0) /\ NoStart
      <3>1. deps \in SUBSET TaskIds
        BY Bounds DEF IInv, TypeOK, TaskIds
      <3>. QED BY <1>1, <1>a, <3>1, RewrittenNewTask DEF TaskCreate, May
    <2>. HIDE DEF ts
    <2>3. Rewritten(Promote(ts), DS, terms, 0)
      BY <1>a, <2>2, RewrittenPromote
    <2>4. SaveLists(Promote(ts), DS)
      BY <2>1 DEF ts
    <2>. QED BY <1>a, <2>2, <2>3, <2>4, SavedListsSo
  <1>2. CASE Read
    BY <1>2, <1>a, SavedListsSo DEF Read, May
  <1>3. CASE StartSpec
    <2>1. PICK deps \in SUBSET TaskIds :
            Claim(Append(tasks, [status |-> "pending", dispatch |-> 0,
                                 deps |-> deps]), Len(tasks) + 1)
      BY <1>3 DEF StartSpec
    <2>. DEFINE ts == Append(tasks, [status |-> "pending", dispatch |-> 0, deps |-> deps])
                k == Len(tasks) + 1
    <2>2. /\ NoStart /\ ~HandsOnly /\ dispatches' = dispatches
          /\ Len(tasks) < MaxTasks
      BY <1>3 DEF StartSpec, May, HandsOnly
    <2>3. Rewritten(ts, dispatches, terms, 0)
      BY <1>a, <2>2, RewrittenNewTask
    <2>4. ts \in Seq(Task) /\ k \in DOMAIN ts
      <3>1. [status |-> "pending", dispatch |-> 0, deps |-> deps] \in Task
        BY <1>a DEF Task, TaskStates, TypeOK, TaskIds
      <3>. QED BY <1>a, <3>1
    <2>. HIDE DEF ts, k
    <2>5. Coupled(ts, dispatches', k)
      BY <2>2, <2>3, <2>4 DEF Rewritten, Coupled, Worked
    <2>6. Claim(ts, k)
      BY <2>1 DEF ts, k
    <2>7. Claimed
      BY <2>2, <2>3, <2>4, <2>5, <2>6 DEF Claimed, Rewritten
    <2>. QED BY <2>7
  <1>4. ASSUME NEW k \in DOMAIN tasks, BreakerReset(k)
        PROVE  Saved
    <2>. DEFINE es == [i \in DOMAIN DS |-> IF i \in FailedDispatches(DS, k)
                                         THEN [DS[i] EXCEPT !.cleared = TRUE]
                                         ELSE DS[i]]
    <2>1. \A i \in DOMAIN DS : DS[i] \in Row
      BY <1>a
    <2>2. \A r \in Row : LET e == [r EXCEPT !.cleared = TRUE]
                         IN e \in Row /\ e.status = r.status /\ e.task = r.task
      BY DEF Row
    <2>3. /\ es \in [DOMAIN DS -> Row]
          /\ \A i \in DOMAIN DS : /\ es[i].status = DS[i].status /\ es[i].task = DS[i].task
                                  /\ Goes(DS[i], es[i], terms)
      BY <2>1, <2>2, MarksGo, StaysSo
    <2>4. SaveLists(TS, es) /\ NoStart
      BY <1>4 DEF BreakerReset, May
    <2>. HIDE DEF es
    <2>5. KeptRows(DS, es) /\ RowsGo(DS, es, terms)
      BY <1>a, <2>3, MappedSeq DEF KeptRows, RowsGo
    <2>6. Rewritten(TS, es, terms, 0)
      BY <1>a, <2>5, RewrittenKept
    <2>. QED BY <1>a, <2>4, <2>6, SavedListsSo
  <1>5. ASSUME NEW k \in DOMAIN tasks, GateCreate(k)
        PROVE  Saved \/ Died
    <2>. DEFINE ts == Marked(TS, k, "blocked")
    <2>1. /\ NoStart /\ Rewritten(ts, DS, terms, 0)
          /\ k \in DOMAIN ts /\ ts[k].status = "blocked"
      <3>1. "blocked" \in TaskStates
        BY DEF TaskStates
      <3>2. /\ Len(ts) = Len(TS) /\ ts \in Seq(Task) /\ ts[k].status = "blocked"
        <4>1. k \in DOMAIN TS
          BY <1>a
        <4>. QED BY <1>a, <3>1, <4>1, TaskStatusSet
      <3>. QED BY <1>5, <1>a, <3>2, RewrittenBlocked DEF GateCreate, May
    <2>2. CASE /\ gates' = Append(gates, [task |-> k, pending |-> TRUE])
               /\ UNCHANGED <<terms, doneMail>>
               /\ Save(ts, DS)
      <3>. HIDE DEF ts
      <3>1. Rewritten(tasks', dispatches', terms', 0) /\ tasks' = ts
        BY <1>a, <2>1, <2>2, WroteBoth DEF Save
      <3>2. Careful /\ Gated(tasks) => Gated(tasks)'
        <4>1. Careful /\ Gated(tasks) => Gated(ts)
          BY <1>a, <2>1, GatedKept
        <4>2. gates \in Seq(Gate)
          BY <1>a DEF TypeOK
        <4>3. \A g \in DOMAIN gates' : \/ g \in DOMAIN gates /\ gates'[g] = gates[g]
                                       \/ gates'[g].task = k
          BY <2>2, <4>2
        <4>. QED BY <2>1, <3>1, <4>1, <4>3 DEF Gated
      <3>. QED BY <2>1, <2>2, <3>1, <3>2 DEF Saved, Closes, Save
    <2>3. CASE DieWith(ts, DS, {})
      <3>. HIDE DEF ts
      <3>. QED BY <2>1, <2>3, DiedInCommand
    <2>. QED BY <1>5, <2>2, <2>3 DEF GateCreate, Marked
  <1>6. ASSUME NEW k \in DOMAIN tasks, StartTask(k)
        PROVE  Claimed
    <2>1. /\ NoStart /\ ~HandsOnly /\ dispatches' = dispatches /\ Claim(tasks, k)
      BY <1>6 DEF StartTask, May, HandsOnly
    <2>2. Coupled(tasks, dispatches', k)
      BY <1>a, <2>1 DEF Rewritten, Coupled, Worked
    <2>. QED BY <1>a, <2>1, <2>2 DEF Claimed, Rewritten
  <1>7. ASSUME NEW k \in DOMAIN tasks, NEW to \in TaskStates, NEW c \in Callers,
               TaskUpdate(k, to, c)
        PROVE  Saved
    <2>1. /\ NoStart /\ ~Careful /\ UpdateAllowed(TS, DS, k, to, c)
          /\ SaveLists(Promote(UpdatedTasks(TS, k, to)), UpdatedRows(TS, DS, k, to))
      BY <1>7 DEF TaskUpdate, May, Strict, Careful
    <2>2. tasks[k].status = "dispatched" =>
            TS[k].status = "dispatched" /\ TS[k].dispatch = tasks[k].dispatch
      BY <1>a, PromoteType DEF TS
    <2>3. Rewritten(Promote(UpdatedTasks(TS, k, to)), UpdatedRows(TS, DS, k, to),
                    terms, 0)
      BY <1>a, <2>1, <2>2, RewrittenUpdate
    <2>. QED BY <1>a, <2>1, <2>3, SavedListsSo
  <1>. QED BY <1>1, <1>2, <1>3, <1>4, <1>5, <1>6, <1>7 DEF TaskCommand

\* A crash that keeps the rows a command wrote, their tasks not written.
LEMMA TasksUnwritten ==
    ASSUME TypeOK, NEW ds, NEW tm, Rewritten(TS, ds, tm, 0), KeptRows(dispatches, ds)
    PROVE  Rewritten(tasks, ds, tm, 0)
  <1>1. Written(tasks, ds)
    BY ReadWritten, WrittenKept
  <1>2. /\ dispatches \in Seq(Row) /\ ds \in Seq(Row) /\ DOMAIN ds = DOMAIN dispatches
        /\ \A i \in DOMAIN dispatches : /\ ds[i].status = dispatches[i].status
                                        /\ ds[i].task = dispatches[i].task
                                        /\ Finished(ds[i]) <=> Finished(dispatches[i])
    BY DEF TypeOK, KeptRows, Finished
  <1>3. Coupled(tasks, ds, 0)
    <2>1. Worked(tasks, dispatches, 0) => Worked(tasks, ds, 0)
      BY <1>2 DEF Worked
    <2>2. \A k \in DOMAIN tasks : ~(tasks[k].status = "dispatched"
                                      /\ tasks[k].status \in Settled)
      BY DEF Settled
    <2>. QED BY <1>2, <2>1, <2>2 DEF Coupled
  <1>. QED BY <1>1, <1>3 DEF Rewritten, Guarded

\* A row whose terminal is left open.
LEMMA LeftGoes ==
    ASSUME NEW d \in Row, NEW left \in BOOLEAN, d.leftOpen => left, NEW tm
    PROVE  LET e == [d EXCEPT !.leftOpen = left]
           IN /\ e \in Row /\ e.status = d.status /\ e.task = d.task
              /\ Goes(d, e, tm)
  BY DEF Row, Goes, Late, Finished

\* A terminal is killed only while it is open.
LEMMA KilledCloses ==
    ASSUME TypeOK, NEW t, terms' \in {terms, Killed(t)}
    PROVE  Closes
  BY DEF TypeOK, Killed, Live, Closes

\* Row i of ds replaced by one that goes on from it under the same status.
LEMMA RewrittenRow ==
    ASSUME TypeOK, NEW ts, NEW ds, NEW tm, NEW free, Rewritten(ts, ds, tm, free),
           NEW i \in DOMAIN ds, NEW e \in Row,
           e.status = ds[i].status, e.task = ds[i].task, Goes(ds[i], e, tm)
    PROVE  Rewritten(ts, [ds EXCEPT ![i] = e], tm, free)
  <1>1. ds \in Seq(Row)
    BY DEF Rewritten, Written, RowsOK
  <1>2. KeptRows(ds, [ds EXCEPT ![i] = e]) /\ RowsGo(ds, [ds EXCEPT ![i] = e], tm)
    BY <1>1, RowKept, RowGoes
  <1>. QED BY <1>2, RewrittenKept

\* worker-stop.
LEMMA StopKind ==
    ASSUME IInv, NEW i \in DOMAIN dispatches, NEW theirs, Stop(i, theirs)
    PROVE  Saved
  <1>. DEFINE d == DS[i]
              t == TerminalOf(d)
              ends == d.status # "stopped" /\ ~d.exited /\ t # 0
              keep == KeepOpen(DS, i, theirs)
              es == Ended(DS, i, "stopped")
              left == es[i].leftOpen \/ (ends /\ keep)
              e == [es[i] EXCEPT !.leftOpen = left]
              fs == [es EXCEPT ![i] = e]
  <1>1. /\ NoStart
        /\ terms' = IF ends /\ ~keep THEN Killed(t) ELSE terms
        /\ Save(HandBack(TS, d.task, i),
                [DS EXCEPT ![i].status = "stopped",
                           ![i].leftOpen = @ \/ (ends /\ keep)])
        /\ UNCHANGED mail
        /\ d.status = "stopped" \/ ~Finished(d)
    BY DEF Stop, May
  <1>2. /\ TypeOK /\ Rewritten(TS, DS, terms', 0) /\ i \in DOMAIN DS
        /\ DS \in Seq(Row) /\ d \in Row
    BY RewrittenRead, ListsRead DEF IInv, RowsOK
  <1>3. Rewritten(HandBack(TS, d.task, i), es, terms', 0)
    BY <1>1, <1>2, RewrittenEnded
  <1>4. [DS EXCEPT ![i].status = "stopped",
                   ![i].leftOpen = @ \/ (ends /\ keep)] = fs
    BY <1>2 DEF Ended, Row
  <1>5. Closes
    <2>1. terms' \in {terms, Killed(t)}
      BY <1>1
    <2>. HIDE DEF t
    <2>. QED BY <1>2, <2>1, KilledCloses
  <1>6. es \in Seq(Row) /\ i \in DOMAIN es /\ es[i] \in Row
    <2>1. "stopped" \in RowStates
      BY DEF RowStates, FINISHED
    <2>2. es \in Seq(Row) /\ Len(es) = Len(DS)
      BY <1>2, <2>1, StatusSet
    <2>. HIDE DEF es
    <2>. QED BY <1>2, <2>2
  <1>. HIDE DEF d, t, ends, keep, es
  <1>7. left \in BOOLEAN /\ (es[i].leftOpen => left)
    BY <1>6 DEF Row, ends, keep, KeepOpen
  <1>. HIDE DEF left
  <1>8. e \in Row /\ e.status = es[i].status /\ e.task = es[i].task
        /\ Goes(es[i], e, terms')
    BY <1>6, <1>7, LeftGoes
  <1>. HIDE DEF e
  <1>9. Rewritten(HandBack(TS, d.task, i), fs, terms', 0)
    BY <1>2, <1>3, <1>6, <1>8, RewrittenRow
  <1>. HIDE DEF fs
  <1>10. Save(HandBack(TS, d.task, i), fs)
    BY <1>1, <1>4 DEF d, t, ends, keep, es, fs, left, e
  <1>. QED BY <1>1, <1>2, <1>5, <1>9, <1>10, SavedSo

\* worker-release.
LEMMA ReleaseKind ==
    ASSUME IInv, NEW i \in DOMAIN dispatches,
           \/ \E theirs \in BOOLEAN : ReleaseNoClose(i, theirs)
           \/ \E archived \in BOOLEAN : ReleaseAndClose(i, archived)
    PROVE  Saved \/ Died
  <1>. DEFINE wasLate == Late(DS[i]) /\ Live(DS[i].terminal)
              e == Reopened(DS[i])
              ds == [DS EXCEPT ![i] = e]
  <1>1. /\ TypeOK /\ i \in DOMAIN DS /\ DS \in Seq(Row) /\ DS[i] \in Row
        /\ \A tm : Rewritten(TS, DS, tm, 0) /\ Rewritten(tasks, dispatches, tm, 0)
    BY RewrittenRead, ListsRead DEF IInv, RowsOK
  <1>2. /\ e \in Row /\ e.status = DS[i].status /\ e.task = DS[i].task
        /\ \A tm : Goes(DS[i], e, tm)
    BY <1>1, ReopenedType, ReopenedGoes
  <1>. HIDE DEF e
  <1>3. \A tm : Rewritten(TS, ds, tm, 0)
    BY <1>1, <1>2, RewrittenRow
  <1>4. ds \in Seq(Row) /\ i \in DOMAIN ds /\ ds[i] = e
    BY <1>1, <1>2
  <1>5. ASSUME NEW theirs \in BOOLEAN, ReleaseNoClose(i, theirs)
        PROVE  Saved
    <2>. HIDE DEF ds
    <2>. DEFINE handle == Live(TerminalOf(ds[i]))
                keep == handle /\ KeepOpen(ds, i, theirs)
                left == ds[i].leftOpen \/ keep
                g == [ds[i] EXCEPT !.leftOpen = left]
                f == IF ds[i].release = "done" THEN ds[i]
                     ELSE ReleaseDone(g, wasLate)
    <2>1. /\ NoStart /\ SaveLists(TS, [ds EXCEPT ![i] = f])
          /\ Finished(ds[i])
          /\ ds[i].release = "done" \/ ~handle \/ keep
      BY <1>5 DEF ReleaseNoClose, May, ds, e
    <2>2. left \in BOOLEAN /\ (ds[i].leftOpen => left) /\ ds[i] \in Row
      BY <1>2, <1>4 DEF Row
    <2>3. ds[i].release # "done" => left \/ Gone(terms, TerminalOf(ds[i]))
      BY <2>1 DEF Live, Gone
    <2>4. f \in Row /\ f.status = ds[i].status /\ f.task = ds[i].task
          /\ Goes(ds[i], f, terms)
      <3>. HIDE DEF left
      <3>1. g \in Row /\ g.status = ds[i].status /\ g.task = ds[i].task
        BY <2>2, LeftGoes
      <3>2. /\ ReleaseDone(g, wasLate) \in Row
            /\ ReleaseDone(g, wasLate).status = g.status
            /\ ReleaseDone(g, wasLate).task = g.task
        BY <3>1, ReleaseDoneType
      <3>3. ds[i].release # "done" => Goes(ds[i], ReleaseDone(g, wasLate), terms)
        BY <2>1, <2>2, <2>3, ReleaseGoes
      <3>. QED BY <2>2, <3>1, <3>2, <3>3, StaysSo
    <2>. HIDE DEF f
    <2>5. Rewritten(TS, [ds EXCEPT ![i] = f], terms, 0)
      BY <1>1, <1>3, <1>4, <2>4, RewrittenRow DEF ds
    <2>. QED BY <1>1, <2>1, <2>5, SavedListsSo
  <1>6. ASSUME NEW archived \in BOOLEAN, ReleaseAndClose(i, archived)
        PROVE  Saved \/ Died
    <2>. HIDE DEF ds
    <2>. DEFINE t == TerminalOf(ds[i])
                p == [ds[i] EXCEPT !.release = "pending"]
                pending == [ds EXCEPT ![i] = p]
                u == [p EXCEPT !.release = "unknown"]
                f == IF archived THEN ReleaseDone(p, wasLate) ELSE u
    <2>1. /\ NoStart /\ Finished(ds[i]) /\ Live(t)
          /\ \/ /\ terms' = IF archived THEN Killed(t) ELSE terms
                /\ Save(TS, [pending EXCEPT ![i] = f])
                /\ UNCHANGED mail
             \/ DieWith(tasks, pending, {})
      BY <1>4, <1>6 DEF ReleaseAndClose, May, ds, e
    <2>a. ds[i] \in Row
      BY <1>2, <1>4
    <2>2. /\ p \in Row /\ p.status = ds[i].status /\ p.task = ds[i].task
          /\ \A tm : Goes(ds[i], p, tm)
      BY <2>a, MarksGo DEF Row
    <2>3. /\ u \in Row /\ u.status = ds[i].status /\ u.task = ds[i].task
          /\ \A tm : Goes(p, u, tm)
      <3>. HIDE DEF p
      <3>. QED BY <2>2, MarksGo DEF Row
    <2>4. ASSUME archived, terms' = Killed(t)
          PROVE  Goes(p, ReleaseDone(p, wasLate), terms')
      <3>1. Gone(terms', TerminalOf(p))
        <4>1. TerminalOf(p) = t
          BY <2>a, <2>2 DEF Goes, TerminalOf
        <4>2. t \in 0..MaxTerms
          BY <2>a, Bounds DEF TerminalOf, Row
        <4>3. t \in Terms
          BY <2>1, <4>2 DEF Live, Terms
        <4>. HIDE DEF t, p
        <4>4. terms' = [terms EXCEPT ![t] = "closed"]
          BY <2>1, <2>4 DEF Killed
        <4>5. terms'[t] = "closed"
          BY <1>1, <4>3, <4>4 DEF TypeOK
        <4>. QED BY <4>1, <4>5 DEF Gone
      <3>2. Finished(p)
        BY <2>1, <2>2 DEF Finished
      <3>. HIDE DEF p
      <3>. DEFINE left == p.leftOpen
      <3>3. p = [p EXCEPT !.leftOpen = left] /\ left \in BOOLEAN
        BY <2>2 DEF Row
      <3>. HIDE DEF left
      <3>4. Goes(p, ReleaseDone([p EXCEPT !.leftOpen = left], wasLate), terms')
        <4>1. p.leftOpen => left
          BY DEF left
        <4>. QED BY <2>2, <3>1, <3>2, <3>3, <4>1, ReleaseGoes
      <3>. QED BY <3>3, <3>4
    <2>5. /\ f \in Row /\ f.status = ds[i].status /\ f.task = ds[i].task
      <3>. HIDE DEF p, u
      <3>. QED BY <2>2, <2>3, ReleaseDoneType
    <2>6. CASE /\ terms' = IF archived THEN Killed(t) ELSE terms
               /\ Save(TS, [pending EXCEPT ![i] = f])
               /\ UNCHANGED mail
      <3>1. Goes(ds[i], f, terms')
        <4>. HIDE DEF p, u
        <4>. QED BY <2>2, <2>3, <2>4, <2>6, GoesOn
      <3>2. [pending EXCEPT ![i] = f] = [ds EXCEPT ![i] = f]
        OBVIOUS
      <3>3. Closes
        <4>1. terms' \in {terms, Killed(t)}
          BY <2>6
        <4>. HIDE DEF t
        <4>. QED BY <1>1, <4>1, KilledCloses
      <3>. HIDE DEF f, pending
      <3>4. Rewritten(TS, [ds EXCEPT ![i] = f], terms', 0)
        BY <1>1, <1>3, <1>4, <2>5, <3>1, RewrittenRow DEF ds
      <3>. QED BY <1>1, <2>1, <2>6, <3>2, <3>3, <3>4, SavedSo
    <2>7. CASE DieWith(tasks, pending, {})
      <3>. HIDE DEF p, f, u
      <3>1. Rewritten(TS, ds, terms, 0)
        BY <1>3 DEF ds
      <3>2. Rewritten(tasks, pending, terms, 0)
        <4>1. KeptRows(DS, ds)
          BY <1>1, <1>2, RowKept DEF ds
        <4>2. KeptRows(dispatches, ds) /\ dispatches \in Seq(Row)
          BY <1>1, <4>1, DSKeeps, KeptTwice DEF TypeOK
        <4>3. Rewritten(tasks, ds, terms, 0)
          BY <1>1, <3>1, <4>2, TasksUnwritten
        <4>. QED BY <1>1, <1>4, <2>2, <4>3, RewrittenRow
      <3>. QED BY <2>1, <2>7, <3>2, DiedInCommand
    <2>. QED BY <2>1, <2>6, <2>7
  <1>. QED BY <1>5, <1>6

\* A retry gives the task of its row to a new start; the row, when the task
\* was still dispatched under it, is fenced off.
LEMMA RetryKind ==
    ASSUME IInv, NEW k \in DOMAIN tasks, NEW r \in DOMAIN dispatches,
           StartRetry(k, r)
    PROVE  Claimed \/ Died
  <1>. DEFINE fenced == tasks[k].status = "dispatched"
              es == Ended(dispatches, r, "abandoned")
              ds == IF fenced THEN es ELSE dispatches
  <1>1. /\ NoStart /\ ~HandsOnly
        /\ dispatches[r].task = k
        /\ fenced => tasks[k].dispatch = r
        /\ \/ Claim(tasks, k) /\ dispatches' = ds
           \/ fenced /\ DieWith(tasks, ds, {"start"})
    BY DEF StartRetry, RetryRows, May, Ended, HandsOnly
  <1>2. /\ TypeOK /\ dispatches \in Seq(Row) /\ tasks \in Seq(Task)
        /\ dispatches[r] \in Row /\ 0 \notin DOMAIN tasks
        /\ Rewritten(tasks, dispatches, terms, 0) /\ TasksOK(tasks)
    BY RewrittenRead DEF IInv, TypeOK, TasksOK
  <1>3. "abandoned" \in FINISHED /\ "abandoned" \in RowStates
    BY DEF RowStates, FINISHED
  <1>4. /\ es \in Seq(Row) /\ Len(es) = Len(dispatches)
        /\ es[r].status = "abandoned" /\ es[r].task = dispatches[r].task
        /\ \A j \in DOMAIN dispatches : j # r => es[j] = dispatches[j]
    BY <1>2, <1>3, StatusSet
  <1>5. Carried(es, terms)
    <2>. DEFINE e == [dispatches[r] EXCEPT !.status = "abandoned"]
    <2>1. Goes(dispatches[r], e, terms)
      BY <1>2, <1>3, StatusGoes
    <2>2. e \in Row
      BY <1>2, <1>3 DEF Row
    <2>3. es = [dispatches EXCEPT ![r] = e]
      BY DEF Ended
    <2>. HIDE DEF e, es
    <2>4. RowsGo(dispatches, es, terms)
      BY <1>2, <2>1, <2>2, <2>3, RowGoes
    <2>. QED BY <2>4 DEF Carried
  <1>. HIDE DEF es
  <1>6. Carried(ds, terms) /\ RowsOK(ds) /\ DOMAIN ds = DOMAIN dispatches
    BY <1>2, <1>4, <1>5 DEF Rewritten, Written, RowsOK
  <1>7. Coupled(tasks, ds, k)
    <2>1. CASE ~fenced
      BY <1>2, <2>1 DEF Rewritten, Coupled, Worked
    <2>2. CASE fenced
      <3>. SUFFICES ASSUME Worked(tasks, dispatches, 0)
                    PROVE  /\ Worked(tasks, es, k)
                           /\ \A j \in DOMAIN dispatches :
                                 /\ j \in DOMAIN es
                                 /\ Finished(dispatches[j]) =>
                                       es[j].status = dispatches[j].status
                           /\ \A x \in DOMAIN tasks :
                                 /\ x \in DOMAIN tasks
                                 /\ ~(tasks[x].status = "dispatched"
                                        /\ tasks[x].status \in Settled)
        BY <2>2 DEF Coupled
      <3>1. DOMAIN es = DOMAIN dispatches
        BY <1>2, <1>4
      <3>2. ~Finished(dispatches[r])
        BY <1>1, <1>2, <2>2 DEF Worked
      <3>3. Worked(tasks, es, k)
        <4>. SUFFICES ASSUME NEW x \in DOMAIN tasks, tasks[x].status = "dispatched",
                             x # k
                      PROVE  /\ tasks[x].dispatch \in DOMAIN es
                             /\ es[tasks[x].dispatch].task = x
                             /\ ~Finished(es[tasks[x].dispatch])
          BY DEF Worked
        <4>1. /\ tasks[x].dispatch \in DOMAIN dispatches
              /\ dispatches[tasks[x].dispatch].task = x
              /\ ~Finished(dispatches[tasks[x].dispatch])
          BY <1>2 DEF Worked
        <4>2. tasks[x].dispatch # r
          BY <1>1, <4>1
        <4>. QED BY <1>4, <3>1, <4>1, <4>2
      <3>4. \A j \in DOMAIN dispatches : Finished(dispatches[j]) => es[j] = dispatches[j]
        BY <1>4, <3>2
      <3>. QED BY <3>1, <3>3, <3>4 DEF Settled
    <2>. QED BY <2>1, <2>2
  <1>. HIDE DEF ds
  <1>8. CASE Claim(tasks, k) /\ dispatches' = ds
    BY <1>1, <1>2, <1>6, <1>7, <1>8 DEF Claimed
  <1>9. CASE DieWith(tasks, ds, {"start"})
    BY <1>1, <1>2, <1>6, <1>7, <1>9 DEF Died
  <1>. QED BY <1>1, <1>8, <1>9

\* A done report of the worker itself.
LEMMA ReportSettlesKind ==
    ASSUME IInv, NEW i \in DOMAIN dispatches, NEW from,
           NEW to \in Settled, ReportSettles(i, from, to)
    PROVE  Saved \/ Died
  <1>. DEFINE k == dispatches[i].task
              ts == Promote(UpdatedTasks(tasks, k, to))
              ds == UpdatedRows(tasks, dispatches, k, to)
  <1>1. /\ NoStart /\ k \in DOMAIN tasks
        /\ ~Finished(dispatches[i])
        /\ UpdateAllowed(tasks, dispatches, k, to, from)
        /\ \/ /\ tasks' = ts
              /\ dispatches' = ds
              /\ doneMail' = doneMail \cup {i}
              /\ UNCHANGED <<gates, terms, process, history>>
           \/ DieWith(ts, ds, {})
    BY DEF ReportSettles, May
  <1>2. /\ TypeOK /\ Rewritten(tasks, dispatches, terms, 0)
        /\ to \in TaskStates
    BY RewrittenRead DEF IInv, Settled, TaskStates
  <1>3. "reset" \notin lost => tasks[k].status = "dispatched" /\ tasks[k].dispatch = i
    BY <1>1 DEF IInv, Held
  <1>4. Rewritten(ts, ds, terms, 0)
    BY <1>1, <1>2, <1>3, RewrittenUpdate DEF Careful
  <1>. HIDE DEF ts, ds
  <1>5. CASE /\ tasks' = ts
             /\ dispatches' = ds
             /\ doneMail' = doneMail \cup {i}
             /\ UNCHANGED <<gates, terms, process, history>>
    <2>1. Careful /\ Gated(tasks) => Gated(tasks)'
      <3>1. Careful /\ Gated(tasks) => Gated(ts)
        BY <1>2, <1>4, GatedKept
      <3>. QED BY <1>5, <3>1 DEF Gated
    <2>2. Rewritten(tasks', dispatches', terms', 0)
      BY <1>4, <1>5
    <2>. QED BY <1>1, <1>5, <2>1, <2>2 DEF Saved, Closes
  <1>6. CASE DieWith(ts, ds, {})
    BY <1>1, <1>4, <1>6, DiedInCommand
  <1>. QED BY <1>1, <1>5, <1>6

\* Commands on dispatch rows.
LEMMA RowCommandKind ==
    ASSUME IInv, RowCommand
    PROVE  Saved \/ Died \/ Claimed
  <1>a. /\ TypeOK /\ Rewritten(tasks, dispatches, terms, 0)
        /\ Rewritten(TS, DS, terms, 0)
        /\ DS \in Seq(Row) /\ DOMAIN DS = DOMAIN dispatches
    BY RewrittenRead, ListsRead DEF IInv, RowsOK
  <1>1. ASSUME NEW i \in DOMAIN dispatches, Abandon(i)
        PROVE  Saved
    <2>1. /\ NoStart /\ i \in DOMAIN DS
          /\ DS[i].status = "abandoned" \/ ~Finished(DS[i])
          /\ SaveLists(HandBack(TS, DS[i].task, i), Ended(DS, i, "abandoned"))
      BY <1>1, <1>a DEF Abandon, May, Ended
    <2>2. Rewritten(HandBack(TS, DS[i].task, i), Ended(DS, i, "abandoned"), terms, 0)
      BY <1>a, <2>1, RewrittenEnded
    <2>. QED BY <1>a, <2>1, <2>2, SavedListsSo
  <1>2. ASSUME NEW i \in DOMAIN dispatches, WorkerShow(i)
        PROVE  Saved
    <2>. DEFINE es == SpendGone(DS, terms)
                e == ReadLate(es[i])
    <2>1. NoStart /\ SaveLists(TS, [es EXCEPT ![i] = e])
      BY <1>2 DEF WorkerShow, May
    <2>2. KeptRows(DS, es) /\ RowsGo(DS, es, terms)
      BY <1>a, SpendGoneKeeps, SpendGoneGoes
    <2>. HIDE DEF es
    <2>3. Rewritten(TS, es, terms, 0)
      BY <1>a, <2>2, RewrittenKept
    <2>4. i \in DOMAIN es /\ es[i] \in Row
      BY <1>a, <2>2 DEF KeptRows
    <2>5. /\ e \in Row /\ e.status = es[i].status /\ e.task = es[i].task
          /\ Goes(es[i], e, terms)
      BY <2>4, ReadLateType, ShownGoes
    <2>. HIDE DEF e
    <2>6. Rewritten(TS, [es EXCEPT ![i] = e], terms, 0)
      BY <1>a, <2>3, <2>4, <2>5, RewrittenRow
    <2>. QED BY <1>a, <2>1, <2>6, SavedListsSo
  <1>3. ASSUME NEW i \in DOMAIN dispatches, Retain(i)
        PROVE  Saved
    <2>. DEFINE e == [DS[i] EXCEPT !.retained = TRUE]
    <2>1. NoStart /\ SaveLists(TS, [DS EXCEPT ![i] = e]) /\ i \in DOMAIN DS
      BY <1>3, <1>a DEF Retain, May
    <2>2. DS[i] \in Row
      BY <1>a, <2>1
    <2>3. /\ e \in Row /\ e.status = DS[i].status /\ e.task = DS[i].task
          /\ Goes(DS[i], e, terms)
      BY <2>2, MarksGo DEF Row
    <2>. HIDE DEF e
    <2>4. Rewritten(TS, [DS EXCEPT ![i] = e], terms, 0)
      BY <1>a, <2>1, <2>3, RewrittenRow
    <2>. QED BY <1>a, <2>1, <2>4, SavedListsSo
  <1>4. ASSUME NEW i \in DOMAIN dispatches, NEW from, NEW pass, ReportIsMail(i, from, pass)
        PROVE  Saved
    <2>1. /\ NoStart /\ doneMail \subseteq doneMail'
          /\ UNCHANGED <<tasks, dispatches, gates, terms, process, history>>
      BY <1>4 DEF ReportIsMail, May
    <2>2. Gated(tasks) => Gated(tasks)'
      BY <2>1 DEF Gated
    <2>3. Rewritten(tasks', dispatches', terms', 0)
      BY <1>a, <2>1
    <2>. QED BY <2>1, <2>2, <2>3 DEF Saved, Closes
  <1>. QED BY <1>1, <1>2, <1>3, <1>4, StopKind, ReleaseKind, RetryKind,
              ReportSettlesKind DEF RowCommand

\* A gate's answer: the task of its last open gate is let go.
LEMMA GateResolveKind ==
    ASSUME IInv, NEW g \in DOMAIN gates, GateResolve(g)
    PROVE  Saved \/ Died
  <1>. DEFINE k == gates[g].task
              us == [x \in DOMAIN TS |-> IF x = k /\ TS[x].status = "blocked"
                                         THEN [TS[x] EXCEPT !.status = "pending"]
                                         ELSE TS[x]]
              free == IF OtherGateOpen(g) THEN 0 ELSE k
              ts == IF OtherGateOpen(g) THEN TS ELSE Promote(us)
  <1>1. /\ TypeOK /\ Rewritten(TS, DS, terms, 0)
        /\ gates \in Seq(Gate) /\ 0 \notin DOMAIN tasks
    BY RewrittenRead DEF IInv, TypeOK
  <1>2. /\ NoStart /\ gates[g].pending
        /\ \/ /\ gates' = [gates EXCEPT ![g].pending = FALSE]
              /\ UNCHANGED <<terms, doneMail>>
              /\ Save(ts, DS)
           \/ DieWith(ts, DS, {})
    BY DEF GateResolve, May
  <1>3. Rewritten(ts, DS, terms, free)
    <2>1. Rewritten(us, DS, terms, k)
      BY <1>1, RewrittenUnblocked
    <2>. HIDE DEF us, k
    <2>2. Rewritten(Promote(us), DS, terms, k)
      BY <1>1, <2>1, RewrittenPromote
    <2>. QED BY <1>1, <2>2
  <1>. HIDE DEF ts
  <1>4. CASE /\ gates' = [gates EXCEPT ![g].pending = FALSE]
             /\ UNCHANGED <<terms, doneMail>>
             /\ Save(ts, DS)
    <2>1. Rewritten(tasks', dispatches', terms', free) /\ tasks' = ts
      BY <1>1, <1>3, <1>4, WroteBoth DEF Save
    <2>2. \A h \in DOMAIN gates' :
            gates'[h].pending => /\ h \in DOMAIN gates /\ h # g /\ gates[h].pending
                                 /\ gates'[h].task = gates[h].task
      <3>1. gates[g] \in Gate
        BY <1>1
      <3>2. \A h \in DOMAIN gates : h # g => gates'[h] = gates[h]
        BY <1>4
      <3>3. gates'[g].pending = FALSE /\ DOMAIN gates' = DOMAIN gates
        BY <1>4, <3>1 DEF Gate
      <3>. QED BY <3>2, <3>3
    <2>3. ASSUME Careful, Gated(tasks)
          PROVE  Gated(tasks)'
      <3>. SUFFICES ASSUME NEW h \in DOMAIN gates', gates'[h].pending
                    PROVE  /\ gates'[h].task \in DOMAIN ts
                           /\ ts[gates'[h].task].status = "blocked"
        BY <2>1 DEF Gated
      <3>1. /\ h \in DOMAIN gates \ {g} /\ gates[h].pending
            /\ gates'[h].task = gates[h].task
        BY <2>2
      <3>2. gates[h].task \in DOMAIN tasks /\ tasks[gates[h].task].status = "blocked"
        BY <2>3, <3>1 DEF Gated
      <3>3. gates[h].task # free
        BY <1>1, <3>1, <3>2 DEF OtherGateOpen
      <3>. QED BY <1>3, <2>3, <3>1, <3>2, <3>3 DEF Rewritten, Guarded
    <2>. QED BY <1>2, <1>4, <2>1, <2>3 DEF Saved, Closes, Save
  <1>5. CASE DieWith(ts, DS, {})
    BY <1>2, <1>3, <1>5, DiedInCommand
  <1>. QED BY <1>2, <1>4, <1>5

\* A reset, whole or cut in two.
LEMMA ResetKind ==
    ASSUME IInv, NEW scope, Reset(scope)
    PROVE  Saved \/ Died \/ Emptied
  <1>1. /\ TypeOK /\ Rewritten(tasks, dispatches, terms, 0)
        /\ RowsOK(dispatches) /\ TasksOK(<<>>) /\ RowsOK(<<>>)
    BY RewrittenRead, Bounds DEF IInv, Rewritten, Written, TasksOK, RowsOK
  <1>2. NoStart /\ ~NoReset
    BY DEF Reset, May, NoReset
  <1>3. CASE scope # "messages" /\ DieWith(<<>>, dispatches, {"reset"})
    BY <1>1, <1>2, <1>3 DEF Died
  <1>4. CASE scope # "messages" /\ DieWith(<<>>, <<>>, {})
    BY <1>1, <1>2, <1>4 DEF Died
  <1>5. CASE /\ tasks' = IF scope = "messages" THEN tasks ELSE <<>>
             /\ dispatches' = IF scope = "messages" THEN dispatches ELSE <<>>
             /\ gates' = IF scope = "messages" THEN gates ELSE <<>>
             /\ doneMail' = IF scope = "tasks" THEN doneMail ELSE {}
             /\ resets' = IF scope = "messages" THEN resets ELSE resets + 1
             /\ lost' = IF scope = "messages" THEN lost ELSE {}
             /\ UNCHANGED <<terms, process>>
    <2>1. CASE scope = "messages"
      <3>1. Rewritten(tasks', dispatches', terms', 0)
        BY <1>1, <1>5, <2>1
      <3>2. Gated(tasks) => Gated(tasks)'
        BY <1>5, <2>1 DEF Gated
      <3>3. UNCHANGED <<process, history>>
        BY <1>5, <2>1 DEF process, history
      <3>. QED BY <1>2, <1>5, <3>1, <3>2, <3>3 DEF Saved, Closes
    <2>2. CASE scope # "messages"
      BY <1>2, <1>5, <2>2 DEF Emptied
    <2>. QED BY <2>1, <2>2
  <1>. QED BY <1>3, <1>4, <1>5 DEF Reset

LEMMA RestartKind ==
    ASSUME IInv, Restart
    PROVE  Died
  <1>1. Rewritten(tasks, dispatches, terms, 0)
    BY RewrittenRead DEF IInv
  <1>2. TasksOK(tasks) /\ RowsOK(dispatches)
    BY <1>1 DEF Rewritten, Written
  <1>3. CASE NoStart
    BY <1>1, <1>2, <1>3, DiedInCommand DEF Restart
  <1>4. CASE ~NoStart
    BY <1>1, <1>2, <1>4 DEF Restart, Died
  <1>. QED BY <1>3, <1>4

\* Every step is of one of these kinds.
LEMMA Kinds ==
    ASSUME IInv, Next
    PROVE  \/ Saved \/ Died \/ Claimed \/ Emptied
           \/ \E k \in DOMAIN tasks, t \in Terms : Dispatch(k, t)
           \/ StartStep \/ TerminalStep
           \/ \E i \in DispatchIds : StampExpires(i)
  BY TaskCommandKind, RowCommandKind, GateResolveKind, ResetKind, RestartKind
     DEF Next

-----------------------------------------------------------------------------
(* Tasks and their dispatches, over every kind of step.                    *)

\* Rows that keep their tasks and whether they finished keep the tasks' workers.
LEMMA WorkedSame ==
    ASSUME NEW ts, NEW ds, NEW es, NEW held, DOMAIN es = DOMAIN ds,
           \A i \in DOMAIN ds : /\ es[i].task = ds[i].task
                                /\ Finished(es[i]) <=> Finished(ds[i])
    PROVE  Worked(ts, ds, held) => Worked(ts, es, held)
  BY DEF Worked

\* What the sweep at start keeps: the workers, the failures, the ends.
LEMMA CutShortKeeps ==
    ASSUME NEW ts, NEW ds \in Seq(Row), NEW held
    PROVE  /\ Worked(ts, ds, held) => Worked(ts, CutShort(ds), held)
           /\ Spared(ds) => Spared(CutShort(ds))
           /\ DOMAIN CutShort(ds) = DOMAIN ds
           /\ \A i \in DOMAIN ds : Finished(ds[i]) => CutShort(ds)[i] = ds[i]
  <1>1. /\ CutShort(ds) \in Seq(Row) /\ Len(CutShort(ds)) = Len(ds)
        /\ \A i \in DOMAIN ds :
              /\ CutShort(ds)[i].task = ds[i].task
              /\ Finished(CutShort(ds)[i]) <=> Finished(ds[i])
              /\ Finished(ds[i]) => CutShort(ds)[i] = ds[i]
    BY CutShortType
  <1>2. DOMAIN CutShort(ds) = DOMAIN ds
    BY DEF CutShort
  <1>3. Worked(ts, ds, held) => Worked(ts, CutShort(ds), held)
    BY <1>1, <1>2, WorkedSame
  <1>4. Spared(ds) => Spared(CutShort(ds))
    <2>1. BreakerTrips \in Nat
      BY BoundsAreNaturals
    <2>2. ASSUME NEW i \in DOMAIN ds, CutShort(ds)[i].status = "failed"
          PROVE  CutShort(ds)[i] = ds[i]
      <3>1. Finished(CutShort(ds)[i])
        BY <2>2 DEF Finished, FINISHED
      <3>. QED BY <1>1, <3>1
    <2>. HIDE DEF CutShort
    <2>. QED BY <1>1, <2>1, <2>2, SparedKept
  <1>. QED BY <1>1, <1>2, <1>3, <1>4

\* No rows, no failures.
LEMMA SparedNone == Spared(<<>>)
  <1>1. \A k : FailedDispatches(<<>>, k) = {}
    BY DEF FailedDispatches
  <1>2. Cardinality({}) = 0 /\ BreakerTrips \in Nat \ {0}
    BY FS_EmptySet, BoundsAreNaturals
  <1>. QED BY <1>1, <1>2 DEF Spared, UnderBreaker

\* The exit handler touches nothing of a row but its death.
LEMMA ExitedRow ==
    ASSUME TypeOK, NEW t, ExitHandled(t)
    PROVE  /\ dispatches' \in Seq(Row) /\ Len(dispatches') = Len(dispatches)
           /\ DOMAIN dispatches' = DOMAIN dispatches
           /\ \A i \in DOMAIN dispatches :
                 LET d == dispatches[i]
                     e == dispatches'[i]
                 IN /\ e.status = d.status /\ e.task = d.task
                    /\ e.terminal = d.terminal /\ e.runtime = d.runtime
                    /\ e.handed = d.handed /\ e.cleared = d.cleared
                    /\ e.release = d.release /\ e.leftOpen = d.leftOpen
                    /\ e.late = d.late
                    /\ \/ e = d /\ ~Dies(dispatches, i, t)
                       \/ e.exited /\ Dies(dispatches, i, t)
  <1>1. dispatches \in Seq(Row) /\ \A i \in DOMAIN dispatches : dispatches[i] \in Row
    BY DEF TypeOK
  <1>2. \A d \in Row : LET e == [d EXCEPT !.exited = TRUE]
                       IN /\ e \in Row /\ e.exited
                          /\ e.status = d.status /\ e.task = d.task
                          /\ e.terminal = d.terminal /\ e.runtime = d.runtime
                          /\ e.handed = d.handed /\ e.cleared = d.cleared
                          /\ e.release = d.release /\ e.leftOpen = d.leftOpen
                          /\ e.late = d.late
    BY DEF Row
  <1>3. dispatches' = [i \in DOMAIN dispatches |->
                         IF Dies(dispatches, i, t)
                         THEN [dispatches[i] EXCEPT !.exited = TRUE]
                         ELSE dispatches[i]]
    BY DEF ExitHandled
  <1>4. dispatches' \in [DOMAIN dispatches -> Row]
    BY <1>1, <1>2, <1>3
  <1>5. /\ dispatches' \in Seq(Row) /\ Len(dispatches') = Len(dispatches)
        /\ DOMAIN dispatches' = DOMAIN dispatches
    BY <1>1, <1>4, MappedSeq
  <1>. QED BY <1>1, <1>2, <1>3, <1>5

\* A dispatch on a terminal: the task gets its worker, and the breaker has a
\* failure to spare for it.
LEMMA DispatchWrites ==
    ASSUME IInv, NEW k \in DOMAIN tasks, NEW t \in Terms, Dispatch(k, t)
    PROVE  LET row == NewRow(k, "running", t, TRUE)
               ds == Append(DS, row)
           IN /\ tasks' = Given(TS, k, "dispatched", Len(dispatches) + 1)
              /\ dispatches' = SpendGone(ds, terms)
              /\ row \in Row /\ ds \in Seq(Row)
              /\ Len(dispatches) \in Nat
              /\ DOMAIN ds = DOMAIN dispatches \cup {Len(dispatches) + 1}
              /\ DOMAIN dispatches' = DOMAIN ds
              /\ ds[Len(dispatches) + 1] = row
              /\ \A i \in DOMAIN dispatches : ds[i] = DS[i] /\ i # Len(dispatches) + 1
              /\ KeptRows(ds, dispatches')
              /\ RowsGo(ds, dispatches', terms)
              /\ NoStart
              /\ UNCHANGED <<terms, gates, doneMail, process, history>>
  <1>. DEFINE row == NewRow(k, "running", t, TRUE)
              ds == Append(DS, row)
  <1>1. TypeOK /\ k \in TaskIds /\ t \in 0..MaxTerms
    BY Bounds DEF IInv, TypeOK, TaskIds, Terms
  <1>2. row \in Row
    <2>1. "running" \in RowStates
      BY DEF RowStates
    <2>. QED BY <1>1, <2>1, NewRowType
  <1>3. /\ DS \in Seq(Row) /\ Len(DS) = Len(dispatches) /\ DOMAIN DS = DOMAIN dispatches
        /\ dispatches \in Seq(Row)
    BY <1>1, ListsRead, DSKeeps DEF TypeOK, KeptRows, RowsOK
  <1>4. /\ tasks' = Given(TS, k, "dispatched", Len(dispatches) + 1)
        /\ dispatches' = SpendGone(ds, terms)
        /\ NoStart
        /\ UNCHANGED <<terms, gates, doneMail, process, history>>
    BY DEF Dispatch, SaveLists, Save, May, Given, mail
  <1>. HIDE DEF row
  <1>5. /\ ds \in Seq(Row) /\ Len(dispatches) \in Nat
        /\ DOMAIN ds = DOMAIN dispatches \cup {Len(dispatches) + 1}
        /\ ds[Len(dispatches) + 1] = row
        /\ \A i \in DOMAIN dispatches : ds[i] = DS[i] /\ i # Len(dispatches) + 1
    BY <1>2, <1>3
  <1>. HIDE DEF ds
  <1>6. KeptRows(ds, dispatches') /\ RowsGo(ds, dispatches', terms)
    BY <1>4, <1>5, SpendGoneKeeps, SpendGoneGoes
  <1>7. DOMAIN dispatches' = DOMAIN ds
    BY <1>5, <1>6 DEF KeptRows
  <1>. QED BY <1>2, <1>4, <1>5, <1>6, <1>7 DEF ds, row

\* The record of a start: one row more.
LEMMA PushedRow ==
    ASSUME IInv, ~NoStart, start.phase # "failing",
           NEW st \in RowStates, NEW t \in 0..MaxTerms, PushRow(st, t)
    PROVE  LET row == NewRow(start.task, st, t, FALSE)
           IN /\ row \in Row
              /\ dispatches' \in Seq(Row)
              /\ Len(dispatches') = StartId
              /\ DOMAIN dispatches' = DOMAIN dispatches \cup {StartId}
              /\ dispatches'[StartId] = row
              /\ \A i \in DOMAIN dispatches :
                    dispatches'[i] = dispatches[i] /\ i # StartId
              /\ start.task \in DOMAIN tasks
              /\ tasks[start.task].status = "dispatched"
              /\ tasks[start.task].dispatch = StartId
  <1>. DEFINE row == NewRow(start.task, st, t, FALSE)
  <1>1. /\ dispatches' \in Seq(Row)
        /\ dispatches' = Append(dispatches, row)
        /\ row \in Row /\ dispatches \in Seq(Row)
    BY PushRowType DEF IInv, TypeOK, RowsOK
  <1>. HIDE DEF row
  <1>2. /\ Len(dispatches') = StartId
        /\ DOMAIN dispatches' = DOMAIN dispatches \cup {StartId}
        /\ dispatches'[StartId] = row
        /\ \A i \in DOMAIN dispatches : dispatches'[i] = dispatches[i] /\ i # StartId
    BY <1>1 DEF StartId
  <1>3. /\ start.task \in DOMAIN tasks
        /\ tasks[start.task].status = "dispatched"
        /\ tasks[start.task].dispatch = StartId
    BY DEF IInv, StartHolds
  <1>. QED BY <1>1, <1>2, <1>3 DEF row

\* The invariant after a step, part by part.
LEMMA WSo ==
    ASSUME start'.phase = "failing" => dispatches'[Len(dispatches')].status = "failed",
           lost' = {} => Worked(tasks', dispatches', start'.task),
           runtime' = 1 => "reset" \notin lost',
           HandsOnly => NoStart',
           HandsOnly /\ "reset" \notin lost' => Spared(dispatches'),
           Strict /\ "reset" \notin lost' => DepsMet(tasks'),
           Strict /\ runtime' = 1 => Gated(tasks)'
    PROVE  WInv'
  BY DEF WInv, NoStart, Worked, DepsMet, Spared, FailedDispatches, UnderBreaker, Finished

LEMMA WInit == Init => WInv
  <1>. SUFFICES ASSUME Init PROVE WInv
    OBVIOUS
  <1>1. /\ tasks = <<>> /\ dispatches = <<>> /\ gates = <<>> /\ NoStart /\ lost = {}
        /\ start.phase # "failing"
    BY DEF Init, NoStart, Idle
  <1>2. Worked(<<>>, <<>>, start.task) /\ DepsMet(<<>>) /\ Spared(<<>>)
    BY SparedNone DEF Worked, DepsMet
  <1>3. Gated(tasks)
    BY <1>1 DEF Gated
  <1>. QED BY <1>1, <1>2, <1>3 DEF WInv

LEMMA SavedKeepsW ==
    ASSUME IInv, WInv, Saved
    PROVE  WInv'
  <1>1. PICK free : Rewritten(tasks', dispatches', terms', free)
    BY DEF Saved
  <1>2. /\ NoStart /\ NoStart' /\ start' = start /\ lost' = lost /\ runtime' = runtime
        /\ start.task = 0
    BY DEF Saved, process, history, NoStart, IInv, StartHolds
  <1>3. lost' = {} => Worked(tasks', dispatches', start'.task)
    BY <1>1, <1>2 DEF WInv, Rewritten, Coupled
  <1>4. /\ HandsOnly /\ "reset" \notin lost' => Spared(dispatches')
        /\ Strict /\ "reset" \notin lost' => DepsMet(tasks')
    BY <1>1, <1>2 DEF WInv, IInv, Rewritten, Guarded, Careful
  <1>5. Strict /\ runtime' = 1 => Gated(tasks)'
    BY <1>2 DEF WInv, Saved, Careful
  <1>6. start'.phase # "failing"
    BY <1>2 DEF NoStart
  <1>. QED BY <1>2, <1>3, <1>4, <1>5, <1>6, WSo DEF WInv, Strict

LEMMA DiedKeepsW ==
    ASSUME IInv, WInv, Died
    PROVE  WInv'
  <1>1. PICK ts, ds : \E how \in {{}, {"start"}, {"reset"}} :
        /\ DieWith(ts, ds, how)
        /\ TasksOK(ts) /\ RowsOK(ds)
        /\ \/ ts = <<>> /\ ds = <<>> /\ ~NoReset
           \/ ts = <<>> /\ ds = dispatches /\ how = {"reset"} /\ ~NoReset
           \/ how = {} /\ NoStart /\ \E free : Rewritten(ts, ds, terms, free)
           \/ /\ how = {"start"} /\ ts = tasks /\ ~HandsOnly /\ NoStart
              /\ Carried(ds, terms)
              /\ \E held : Coupled(ts, ds, held)
           \/ how = {"start"} /\ ts = tasks /\ ds = dispatches /\ ~NoStart
    BY DEF Died
  <1>2. PICK how \in {{}, {"start"}, {"reset"}} :
        /\ DieWith(ts, ds, how)
        /\ TasksOK(ts) /\ RowsOK(ds)
        /\ \/ ts = <<>> /\ ds = <<>> /\ ~NoReset
           \/ ts = <<>> /\ ds = dispatches /\ how = {"reset"} /\ ~NoReset
           \/ how = {} /\ NoStart /\ \E free : Rewritten(ts, ds, terms, free)
           \/ /\ how = {"start"} /\ ts = tasks /\ ~HandsOnly /\ NoStart
              /\ Carried(ds, terms)
              /\ \E held : Coupled(ts, ds, held)
           \/ how = {"start"} /\ ts = tasks /\ ds = dispatches /\ ~NoStart
    BY <1>1
  <1>3. /\ tasks' = ts /\ dispatches' = CutShort(ds) /\ start' = Idle
        /\ lost' = lost \cup how /\ runtime' # 1 /\ NoStart' /\ start'.task = 0
        /\ start'.phase # "failing" /\ ds \in Seq(Row)
    BY <1>2 DEF DieWith, Idle, NoStart, RowsOK, IInv, TypeOK
  <1>4. lost' = {} => Worked(tasks', dispatches', 0)
    <2>. SUFFICES ASSUME lost' = {} PROVE Worked(ts, CutShort(ds), 0)
      BY <1>3
    <2>1. lost = {} /\ how = {}
      BY <1>3
    <2>2. CASE ts = <<>>
      BY <2>2 DEF Worked
    <2>3. CASE NoStart /\ \E free : Rewritten(ts, ds, terms, free)
      <3>1. Worked(tasks, dispatches, 0)
        BY <2>1, <2>3 DEF WInv, IInv, StartHolds
      <3>2. Worked(ts, ds, 0)
        BY <2>3, <3>1 DEF Rewritten, Coupled
      <3>. QED BY <1>3, <3>2, CutShortKeeps
    <2>. QED BY <1>2, <2>1, <2>2, <2>3
  <1>5. ASSUME "reset" \notin lost'
        PROVE  /\ HandsOnly => Spared(dispatches')
               /\ Strict => DepsMet(tasks')
    <2>1. "reset" \notin lost /\ "reset" \notin how /\ Held(tasks, dispatches)
      BY <1>3, <1>5 DEF IInv
    <2>2. CASE ts = <<>> /\ ds = <<>>
      <3>1. ds \in Seq(Row) /\ Spared(ds) /\ DepsMet(ts)
        BY <1>3, <2>2, SparedNone DEF DepsMet
      <3>. QED BY <1>3, <3>1, CutShortKeeps
    <2>3. CASE \E free : Rewritten(ts, ds, terms, free)
      <3>1. HandsOnly => Spared(ds)
        BY <2>1, <2>3 DEF WInv, Rewritten, Guarded
      <3>2. Strict => DepsMet(ts)
        BY <2>1, <2>3 DEF WInv, Rewritten, Guarded, Careful
      <3>. QED BY <1>3, <3>1, <3>2, CutShortKeeps
    <2>4. CASE ~HandsOnly
      BY <2>4 DEF Strict
    <2>5. CASE ~NoStart
      BY <2>5 DEF WInv, Strict
    <2>. QED BY <1>2, <2>1, <2>2, <2>3, <2>4, <2>5
  <1>. QED BY <1>3, <1>4, <1>5, WSo DEF WInv, Strict

LEMMA ClaimedKeepsW ==
    ASSUME IInv, WInv, Claimed
    PROVE  WInv'
  <1>1. PICK ts \in Seq(Task) : \E k \in DOMAIN ts :
          /\ Claim(ts, k) /\ NoStart /\ ~HandsOnly /\ Coupled(ts, dispatches', k)
    BY DEF Claimed
  <1>2. PICK k \in DOMAIN ts :
          Claim(ts, k) /\ NoStart /\ ~HandsOnly /\ Coupled(ts, dispatches', k)
    BY <1>1
  <1>3. /\ tasks' = Given(ts, k, "dispatched", StartId)
        /\ start' = [Idle EXCEPT !.phase = "placing", !.task = k]
        /\ UNCHANGED <<runtime, lost>>
    BY <1>2 DEF Claim, Given, history
  <1>4. start'.task = k /\ start'.phase # "failing"
    BY <1>3 DEF Idle
  <1>5. ASSUME lost' = {}
        PROVE  Worked(tasks', dispatches', k)
    <2>1. Worked(ts, dispatches', k)
      BY <1>2, <1>3, <1>5 DEF WInv, IInv, StartHolds, Coupled
    <2>2. DOMAIN tasks' = DOMAIN ts /\ \A x \in DOMAIN ts : x # k => tasks'[x] = ts[x]
      BY <1>3 DEF Given
    <2>. QED BY <2>1, <2>2 DEF Worked
  <1>. QED BY <1>2, <1>3, <1>4, <1>5, WSo DEF WInv, Strict

LEMMA EmptiedKeepsW ==
    ASSUME IInv, WInv, Emptied
    PROVE  WInv'
  <1>1. /\ NoStart' /\ tasks' = <<>> /\ dispatches' = <<>> /\ gates' = <<>>
        /\ lost' = {} /\ start'.phase # "failing"
    BY DEF Emptied, process, NoStart
  <1>2. /\ Worked(tasks', dispatches', start'.task)
        /\ DepsMet(tasks') /\ Spared(dispatches')
    BY <1>1, SparedNone DEF Worked, DepsMet
  <1>3. Gated(tasks)'
    BY <1>1 DEF Gated
  <1>. QED BY <1>1, <1>2, <1>3, WSo DEF WInv, Strict

LEMMA DispatchKeepsW ==
    ASSUME IInv, WInv, NEW k \in DOMAIN tasks, NEW t \in Terms, Dispatch(k, t)
    PROVE  WInv'
  <1>. DEFINE row == NewRow(k, "running", t, TRUE)
              n == Len(dispatches) + 1
              ds == Append(DS, row)
              us == Given(TS, k, "dispatched", n)
  <1>1. /\ tasks' = us
        /\ row \in Row /\ ds \in Seq(Row) /\ Len(dispatches) \in Nat
        /\ DOMAIN ds = DOMAIN dispatches \cup {n}
        /\ DOMAIN dispatches' = DOMAIN ds
        /\ ds[n] = row
        /\ \A i \in DOMAIN dispatches : ds[i] = DS[i] /\ i # n
        /\ KeptRows(ds, dispatches')
        /\ RowsGo(ds, dispatches', terms)
        /\ NoStart
        /\ UNCHANGED <<terms, gates, doneMail, process, history>>
    BY DispatchWrites
  <1>2. /\ TS[k].status = "ready" /\ UnderBreaker(DS, k)
    BY DEF Dispatch
  <1>3. /\ row.task = k /\ row.status = "running" /\ ~Finished(row) /\ row.status # "failed"
    BY DEF NewRow, Finished, FINISHED
  <1>4. /\ Rewritten(TS, DS, terms, 0) /\ DOMAIN TS = DOMAIN tasks
        /\ TS \in Seq(Task) /\ k \in DOMAIN TS /\ DOMAIN DS = DOMAIN dispatches
        /\ DS \in Seq(Row) /\ 0 \notin DOMAIN tasks /\ k \in TaskIds
    BY RewrittenRead, ListsRead, Bounds DEF IInv, TasksOK, RowsOK, TypeOK, TaskIds
  <1>5. /\ us \in Seq(Task) /\ Len(us) = Len(TS) /\ DOMAIN us = DOMAIN TS
        /\ us[k].status = "dispatched" /\ us[k].dispatch = n
        /\ us[k].deps = TS[k].deps
        /\ \A x \in DOMAIN TS : x # k => us[x] = TS[x]
    <2>1. "dispatched" \in TaskStates
      BY DEF TaskStates
    <2>2. /\ us \in Seq(Task) /\ Len(us) = Len(TS)
          /\ us[k].status = "dispatched" /\ us[k].dispatch = n
          /\ \A x \in DOMAIN TS : x # k => us[x] = TS[x]
      BY <1>1, <1>4, <2>1, TaskSet
    <2>3. us[k].deps = TS[k].deps /\ DOMAIN us = DOMAIN TS
      <3>1. TS[k] \in Task
        BY <1>4
      <3>. QED BY <1>4, <3>1 DEF Given, Task
    <2>. QED BY <2>2, <2>3
  <1>. HIDE DEF ds, us, row
  <1>6. \A i \in DOMAIN ds : /\ dispatches'[i].task = ds[i].task
                             /\ dispatches'[i].status = ds[i].status
                             /\ Finished(dispatches'[i]) <=> Finished(ds[i])
    BY <1>1 DEF KeptRows, Finished
  <1>7. start' = start /\ lost' = lost /\ runtime' = runtime /\ NoStart' /\ start.task = 0
    BY <1>1 DEF process, history, NoStart, IInv, StartHolds
  <1>8. ASSUME lost' = {}
        PROVE  Worked(tasks', dispatches', 0)
    <2>1. Worked(TS, DS, 0)
      BY <1>4, <1>7, <1>8 DEF WInv, Rewritten, Coupled
    <2>2. Worked(us, ds, 0)
      <3>. SUFFICES ASSUME NEW x \in DOMAIN us, us[x].status = "dispatched", x # 0
                    PROVE  /\ us[x].dispatch \in DOMAIN ds
                           /\ ds[us[x].dispatch].task = x
                           /\ ~Finished(ds[us[x].dispatch])
        BY DEF Worked
      <3>1. CASE x = k
        BY <1>1, <1>3, <1>5, <3>1
      <3>2. CASE x # k
        <4>1. us[x] = TS[x] /\ x \in DOMAIN TS
          BY <1>5, <3>2
        <4>2. /\ TS[x].dispatch \in DOMAIN DS /\ DS[TS[x].dispatch].task = x
              /\ ~Finished(DS[TS[x].dispatch])
          BY <2>1, <4>1 DEF Worked
        <4>. QED BY <1>1, <1>4, <4>1, <4>2
      <3>. QED BY <3>1, <3>2
    <2>. QED BY <1>1, <1>6, <2>2, WorkedSame
  <1>9. ASSUME Strict, "reset" \notin lost'
        PROVE  DepsMet(tasks')
    <2>1. DepsMet(TS)
      BY <1>4, <1>7, <1>9 DEF WInv, Rewritten, Guarded, Careful
    <2>. SUFFICES ASSUME NEW x \in DOMAIN us, us[x].status \notin {"pending", "blocked"},
                         NEW d \in us[x].deps
                  PROVE  d \in DOMAIN us /\ us[d].status = "completed"
      BY <1>1 DEF DepsMet
    <2>2. TS[x].status \notin {"pending", "blocked"} /\ us[x].deps = TS[x].deps
      BY <1>2, <1>5
    <2>3. d \in DOMAIN TS /\ TS[d].status = "completed"
      BY <1>5, <2>1, <2>2 DEF DepsMet
    <2>. QED BY <1>2, <1>5, <2>3
  <1>10. ASSUME HandsOnly, "reset" \notin lost'
        PROVE  Spared(dispatches')
    <2>1. Spared(DS)
      BY <1>4, <1>7, <1>10 DEF WInv, IInv, Rewritten, Guarded
    <2>3. \A x : FailedDispatches(ds, x) = FailedDispatches(DS, x)
      BY <1>1, <1>3, <1>4 DEF FailedDispatches
    <2>4. Spared(ds)
      <3>. SUFFICES ASSUME NEW x \in TaskIds
                    PROVE  /\ Cardinality(FailedDispatches(ds, x)) <= BreakerTrips
                           /\ (\E i \in DOMAIN ds : ds[i].task = x /\ ~Finished(ds[i]))
                                 => UnderBreaker(ds, x)
        BY DEF Spared
      <3>1. Cardinality(FailedDispatches(ds, x)) <= BreakerTrips
        BY <2>1, <2>3 DEF Spared
      <3>2. x = k => UnderBreaker(ds, x)
        BY <1>2, <2>3 DEF UnderBreaker
      <3>3. ASSUME x # k, NEW i \in DOMAIN ds, ds[i].task = x, ~Finished(ds[i])
            PROVE  UnderBreaker(ds, x)
        <4>1. i \in DOMAIN DS /\ ds[i] = DS[i]
          BY <1>1, <1>3, <1>4, <3>3
        <4>. QED BY <2>1, <2>3, <3>3, <4>1 DEF Spared, UnderBreaker
      <3>. QED BY <3>1, <3>2, <3>3
    <2>5. Spared(dispatches')
      <3>1. \A i \in DOMAIN ds : ds[i].cleared => dispatches'[i].cleared
        BY <1>1 DEF RowsGo, Goes
      <3>2. BreakerTrips \in Nat /\ dispatches' \in Seq(Row) /\ Len(dispatches') = Len(ds)
        BY <1>1, BoundsAreNaturals DEF KeptRows
      <3>. QED BY <1>1, <1>6, <2>4, <3>1, <3>2, SparedKept
    <2>. QED BY <2>5
  <1>11. ASSUME Strict, runtime' = 1
         PROVE  Gated(tasks)'
    <2>1. Gated(TS)
      BY <1>4, <1>7, <1>11, GatedKept DEF WInv, IInv, Careful
    <2>2. Gated(us)
      BY <1>2, <1>5, <2>1 DEF Gated
    <2>. QED BY <1>1, <2>2 DEF Gated
  <1>12. start'.phase # "failing"
    BY <1>7 DEF NoStart
  <1>. QED BY <1>7, <1>8, <1>9, <1>10, <1>11, <1>12, WSo DEF WInv, Strict

\* The start in flight: its record is the worker of its task, a failed setup
\* ends both, and an abandoned placement is a start that was lost.
LEMMA StartStepKeepsW ==
    ASSUME IInv, WInv, StartStep
    PROVE  WInv'
  <1>1. ~NoStart /\ ~HandsOnly /\ ~Strict /\ runtime' = runtime /\ (lost' = {} => lost = {})
        /\ ("reset" \notin lost => "reset" \notin lost')
    <2>1. ~NoStart
      BY DEF StartStep, PlacementFails, SetupFails, FailTask, AskWindow, WaitEnds,
             RecordStart, NoStart
    <2>2. runtime' = runtime /\ lost' \in {lost, lost \cup {"start"}}
      BY DEF StartStep, PlacementFails, SetupFails, FailTask, AskWindow, WaitEnds,
             RecordStart, PushRow, history
    <2>. QED BY <2>1, <2>2 DEF WInv, Strict
  <1>2. Worked(tasks, dispatches, start.task) \/ lost # {}
    BY DEF WInv
  <1>3. ASSUME NEW st \in RowStates, NEW t \in 0..MaxTerms, PushRow(st, t),
               start.phase # "failing", lost = {}, NEW held,
               held = start.task \/ st \notin FINISHED
        PROVE  Worked(tasks', dispatches', held)
    <2>1. /\ DOMAIN dispatches' = DOMAIN dispatches \cup {StartId}
          /\ dispatches'[StartId] = NewRow(start.task, st, t, FALSE)
          /\ \A i \in DOMAIN dispatches : dispatches'[i] = dispatches[i]
          /\ start.task \in DOMAIN tasks
          /\ tasks[start.task].dispatch = StartId
      BY <1>1, <1>3, PushedRow
    <2>2. tasks' = tasks
      BY <1>3 DEF PushRow
    <2>3. st \notin FINISHED => ~Finished(dispatches'[StartId])
      BY <2>1 DEF NewRow, Finished
    <2>4. dispatches'[StartId].task = start.task
      BY <2>1 DEF NewRow
    <2>. QED BY <1>2, <1>3, <2>1, <2>2, <2>3, <2>4 DEF Worked
  <1>4. CASE PlacementFails
    <2>1. start'.phase # "failing" /\ lost' # {}
      BY <1>4 DEF PlacementFails, Idle
    <2>. QED BY <1>1, <2>1, WSo DEF WInv
  <1>5. CASE SetupFails
    <2>1. /\ PushRow("failed", 0) /\ start'.task = start.task /\ start.phase # "failing"
          /\ "failed" \in RowStates /\ 0 \in 0..MaxTerms
      BY <1>5, Bounds DEF SetupFails, IInv, TypeOK, Start, RowStates, FINISHED
    <2>2. lost = {} => Worked(tasks', dispatches', start'.task)
      BY <1>3, <2>1
    <2>3. dispatches'[Len(dispatches')].status = "failed"
      <3>1. /\ Len(dispatches') = StartId
            /\ dispatches'[StartId] = NewRow(start.task, "failed", 0, FALSE)
        BY <1>1, <2>1, PushedRow
      <3>. QED BY <3>1 DEF NewRow
    <2>. QED BY <1>1, <2>2, <2>3, WSo DEF WInv
  <1>6. CASE FailTask
    <2>1. /\ start.task \in DOMAIN tasks
          /\ tasks[start.task].dispatch = Len(dispatches)
          /\ start'.task = 0 /\ start'.phase # "failing"
          /\ tasks' = Marked(tasks, start.task, "failed")
          /\ dispatches' = dispatches
      BY <1>6 DEF FailTask, IInv, StartHolds, NoStart, Idle, Marked
    <2>2. /\ DOMAIN tasks' = DOMAIN tasks /\ tasks'[start.task].status = "failed"
          /\ \A x \in DOMAIN tasks : x # start.task => tasks'[x] = tasks[x]
      <3>1. tasks \in Seq(Task) /\ "failed" \in TaskStates
        BY DEF IInv, TypeOK, TaskStates
      <3>2. /\ tasks'[start.task].status = "failed"
            /\ \A x \in DOMAIN tasks : x # start.task => tasks'[x] = tasks[x]
        BY <2>1, <3>1, TaskStatusSet
      <3>. QED BY <2>1, <3>2 DEF Marked
    <2>3. lost = {} => Worked(tasks', dispatches', start'.task)
      BY <1>2, <2>1, <2>2 DEF Worked
    <2>. QED BY <1>1, <2>1, <2>3, WSo DEF WInv
  <1>7. CASE AskWindow
    <2>1. /\ start'.task = start.task /\ start'.phase # "failing"
          /\ UNCHANGED <<tasks, dispatches>>
      BY <1>7 DEF AskWindow, IInv, TypeOK, Start
    <2>. QED BY <1>1, <1>2, <2>1, WSo DEF WInv
  <1>8. ASSUME NEW found, NEW ready, WaitEnds(found, ready)
        PROVE  WInv'
    <2>1. /\ start'.task = start.task /\ start'.phase # "failing"
          /\ UNCHANGED <<tasks, dispatches>>
      BY <1>8 DEF WaitEnds, IInv, TypeOK, Start
    <2>. QED BY <1>1, <1>2, <2>1, WSo DEF WInv
  <1>9. CASE RecordStart
    <2>. DEFINE st == IF start.ready THEN "ready" ELSE "unknown"
    <2>1. /\ PushRow(st, start.terminal) /\ start.phase # "failing"
          /\ start'.task = 0 /\ start'.phase # "failing"
      BY <1>9 DEF RecordStart, Idle
    <2>2. st \in RowStates /\ st \notin FINISHED /\ start.terminal \in 0..MaxTerms
      BY DEF RowStates, FINISHED, IInv, TypeOK, Start
    <2>. HIDE DEF st
    <2>3. lost = {} => Worked(tasks', dispatches', 0)
      BY <1>3, <2>1, <2>2
    <2>. QED BY <1>1, <2>1, <2>3, WSo DEF WInv
  <1>. QED BY <1>4, <1>5, <1>6, <1>7, <1>8, <1>9 DEF StartStep

\* The terminals touch no status.
LEMMA TerminalStepKeepsW ==
    ASSUME IInv, WInv, TerminalStep
    PROVE  WInv'
  <1>1. /\ UNCHANGED <<tasks, gates, runtime, start, lost>>
        /\ \/ dispatches' = dispatches
           \/ \E t \in Terms : ExitHandled(t)
    BY DEF TerminalStep, OpenTerminal, WindowStarts, TerminalExits, CloseTerminal,
           ExitHandled, mail, stored, process, history
  <1>2. /\ Len(dispatches') = Len(dispatches) /\ DOMAIN dispatches' = DOMAIN dispatches
        /\ dispatches \in Seq(Row) /\ dispatches' \in Seq(Row)
        /\ \A i \in DOMAIN dispatches :
              /\ dispatches'[i].status = dispatches[i].status
              /\ dispatches'[i].task = dispatches[i].task
              /\ dispatches'[i].cleared = dispatches[i].cleared
              /\ Finished(dispatches'[i]) <=> Finished(dispatches[i])
    BY <1>1, ExitedRow DEF IInv, TypeOK, Finished
  <1>3. \A held : Worked(tasks, dispatches, held) => Worked(tasks, dispatches', held)
    BY <1>2, WorkedSame
  <1>4. Spared(dispatches) => Spared(dispatches')
    BY <1>2, SparedKept, BoundsAreNaturals
  <1>5. start.phase = "failing" => dispatches'[Len(dispatches')].status = "failed"
    BY <1>2 DEF WInv, IInv, StartHolds, NoStart
  <1>6. Gated(tasks) => Gated(tasks)'
    BY <1>1 DEF Gated
  <1>7. NoStart' <=> NoStart
    BY <1>1 DEF NoStart
  <1>. QED BY <1>1, <1>3, <1>4, <1>5, <1>6, <1>7, WSo DEF WInv, Strict

LEMMA UnchangedKeepsW ==
    ASSUME WInv, UNCHANGED <<tasks, dispatches, gates, runtime, start, lost>>
    PROVE  WInv'
  BY DEF WInv, NoStart, Worked, DepsMet, Spared, Gated, FailedDispatches, UnderBreaker,
         Finished

LEMMA WNext == IInv /\ WInv /\ [Next]_vars => WInv'
  <1>. SUFFICES ASSUME IInv, WInv, [Next]_vars PROVE WInv'
    OBVIOUS
  <1>1. ASSUME NEW i \in DispatchIds, StampExpires(i)
        PROVE  UNCHANGED <<tasks, dispatches, gates, runtime, start, lost>>
    BY <1>1 DEF StampExpires, stored, history
  <1>2. CASE UNCHANGED vars
    BY <1>2, UnchangedKeepsW DEF vars
  <1>3. CASE Next
    BY <1>1, <1>3, Kinds, UnchangedKeepsW, SavedKeepsW, DiedKeepsW, ClaimedKeepsW,
       EmptiedKeepsW, DispatchKeepsW, StartStepKeepsW, TerminalStepKeepsW
  <1>. QED BY <1>2, <1>3

\* The invariant holds in every state the system reaches.
LEMMA WorkHolds == Spec => [](IInv /\ WInv)
  <1>1. Init => IInv /\ WInv
    BY InitInv, WInit
  <1>2. IInv /\ WInv /\ [Next]_vars => (IInv /\ WInv)'
    BY NextInv, WNext
  <1>. QED BY <1>1, <1>2, PTL DEF Spec

\* ORCH-012: a dispatched task has its worker, unless a start was lost: the
\* start in flight is for it, or it names its own unfinished dispatch.
THEOREM DispatchedTasksAreWorked == Spec => []DispatchedHasItsWorker
  <1>1. IInv /\ WInv => DispatchedHasItsWorker
    BY DEF WInv, Worked, DispatchedHasItsWorker
  <1>. QED BY <1>1, WorkHolds, PTL

\* ORCH-035: where workers are only handed terminals, no task collects more
\* failures than its breaker counts, unless a reset was cut in two.
THEOREM BreakerIsKept ==
    ASSUME HandsOnly
    PROVE  Spec => []("reset" \notin lost => BreakerHolds)
  <1>1. IInv /\ WInv => ("reset" \notin lost => BreakerHolds)
    <2>. SUFFICES ASSUME IInv, WInv, "reset" \notin lost, NEW k \in DOMAIN tasks
                  PROVE  Cardinality(FailedDispatches(dispatches, k)) <= BreakerTrips
      BY DEF BreakerHolds
    <2>1. k \in TaskIds
      BY Bounds DEF IInv, TypeOK, TaskIds
    <2>. QED BY <2>1 DEF WInv, Spared
  <1>. QED BY <1>1, WorkHolds, PTL

\* ORCH-010: where tasks are not updated over their dependencies and no
\* worker is started for them regardless, a task past pending and blocked has
\* all it waits on completed, unless a reset was cut in two.
THEOREM DependenciesAreMet ==
    ASSUME Strict
    PROVE  Spec => []("reset" \notin lost => DependentsWait)
  <1>1. IInv /\ WInv => ("reset" \notin lost => DependentsWait)
    BY DEF WInv, DepsMet, DependentsWait
  <1>. QED BY <1>1, WorkHolds, PTL

\* ORCH-028: under the same commands, an open gate keeps its task blocked as
\* long as the process has not ended between the two saves of a gate.
THEOREM GatesHold ==
    ASSUME Strict
    PROVE  Spec => [](runtime = 1 => GateHoldsItsTask)
  <1>1. IInv /\ WInv => (runtime = 1 => GateHoldsItsTask)
    BY DEF WInv, Gated, GateHoldsItsTask
  <1>. QED BY <1>1, WorkHolds, PTL

\* What happens to a finished row and to a task that settles, over one step
\* that begins without a lost start or reset.
Faithful(ts, ds) ==
    /\ \A i \in DOMAIN dispatches \cap DOMAIN ds : Finished(dispatches[i]) =>
          ds[i].status = dispatches[i].status
    /\ \A k \in DOMAIN tasks \cap DOMAIN ts :
          tasks[k].status = "dispatched" /\ ts[k].status \in Settled =>
             /\ tasks[k].dispatch \in DOMAIN ds
             /\ ds[tasks[k].dispatch].status = ts[k].status

LEMMA CoupledFaithful ==
    ASSUME NEW ts, NEW ds, NEW held, Coupled(ts, ds, held),
           Worked(tasks, dispatches, 0)
    PROVE  Faithful(ts, ds)
  BY DEF Coupled, Faithful

\* The tasks as they were.
LEMMA IdleFaithful ==
    ASSUME NEW ds, DOMAIN dispatches \subseteq DOMAIN ds,
           \A i \in DOMAIN dispatches :
              Finished(dispatches[i]) => ds[i].status = dispatches[i].status
    PROVE  Faithful(tasks, ds)
  BY DEF Faithful, Settled

\* The sweep at start touches nothing that is over.
LEMMA CutShortFaithful ==
    ASSUME NEW ts, NEW ds \in Seq(Row), Faithful(ts, ds)
    PROVE  Faithful(ts, CutShort(ds))
  <1>1. /\ DOMAIN CutShort(ds) = DOMAIN ds
        /\ \A i \in DOMAIN ds : Finished(ds[i]) => CutShort(ds)[i] = ds[i]
    BY CutShortKeeps
  <1>2. \A i \in DOMAIN ds : ds[i].status \in Settled => Finished(ds[i])
    BY DEF Settled, Finished, FINISHED
  <1>. HIDE DEF CutShort
  <1>3. ASSUME NEW i \in DOMAIN dispatches \cap DOMAIN ds, Finished(dispatches[i])
        PROVE  CutShort(ds)[i].status = dispatches[i].status
    BY <1>1, <1>3 DEF Faithful, Finished
  <1>4. ASSUME NEW k \in DOMAIN tasks \cap DOMAIN ts,
               tasks[k].status = "dispatched", ts[k].status \in Settled
        PROVE  /\ tasks[k].dispatch \in DOMAIN CutShort(ds)
               /\ CutShort(ds)[tasks[k].dispatch].status = ts[k].status
    <2>1. /\ tasks[k].dispatch \in DOMAIN ds
          /\ ds[tasks[k].dispatch].status = ts[k].status
      BY <1>4 DEF Faithful
    <2>. QED BY <1>1, <1>2, <1>4, <2>1
  <1>. QED BY <1>1, <1>3, <1>4 DEF Faithful

LEMMA StepFaithful ==
    ASSUME IInv, WInv, [Next]_vars, lost = {}
    PROVE  Faithful(tasks', dispatches')
  <1>1. /\ Worked(tasks, dispatches, start.task)
        /\ NoStart => Worked(tasks, dispatches, 0)
    BY DEF WInv, IInv, StartHolds
  <1>2. CASE Saved
    BY <1>1, <1>2, CoupledFaithful DEF Saved, Rewritten
  <1>3. CASE Died
    <2>1. PICK ts, ds : \E how \in {{}, {"start"}, {"reset"}} :
          /\ DieWith(ts, ds, how)
          /\ RowsOK(ds)
          /\ \/ ts = <<>> /\ ds = <<>>
             \/ ts = <<>> /\ ds = dispatches
             \/ NoStart /\ \E free : Rewritten(ts, ds, terms, free)
             \/ NoStart /\ \E held : Coupled(ts, ds, held)
             \/ ts = tasks /\ ds = dispatches
      BY <1>3 DEF Died
    <2>2. tasks' = ts /\ dispatches' = CutShort(ds) /\ ds \in Seq(Row)
      BY <2>1 DEF DieWith, RowsOK
    <2>3. Faithful(ts, ds)
      <3>1. CASE ts = <<>> /\ ds \in {<<>>, dispatches}
        BY <3>1 DEF Faithful
      <3>2. CASE NoStart /\ \E held : Coupled(ts, ds, held)
        BY <1>1, <3>2, CoupledFaithful
      <3>3. CASE ts = tasks /\ ds = dispatches
        BY <3>3, IdleFaithful
      <3>. QED BY <2>1, <3>1, <3>2, <3>3 DEF Rewritten
    <2>. QED BY <2>2, <2>3, CutShortFaithful
  <1>4. CASE Claimed
    <2>1. PICK ts \in Seq(Task) : \E k \in DOMAIN ts :
            Claim(ts, k) /\ NoStart /\ Coupled(ts, dispatches', k)
      BY <1>4 DEF Claimed
    <2>2. PICK k \in DOMAIN ts : Claim(ts, k) /\ NoStart /\ Coupled(ts, dispatches', k)
      BY <2>1
    <2>3. Faithful(ts, dispatches')
      BY <1>1, <2>2, CoupledFaithful
    <2>4. /\ tasks' = Given(ts, k, "dispatched", StartId)
          /\ "dispatched" \in TaskStates /\ StartId \in Nat
      BY <2>2 DEF Claim, Given, TaskStates, StartId, IInv, TypeOK
    <2>5. /\ DOMAIN tasks' = DOMAIN ts /\ tasks'[k].status = "dispatched"
          /\ \A x \in DOMAIN ts : x # k => tasks'[x] = ts[x]
      <3>1. /\ tasks'[k].status = "dispatched"
            /\ \A x \in DOMAIN ts : x # k => tasks'[x] = ts[x]
        BY <2>4, TaskSet
      <3>. QED BY <2>4, <3>1 DEF Given
    <2>. QED BY <2>3, <2>5 DEF Faithful, Settled
  <1>5. CASE Emptied
    BY <1>5 DEF Emptied, Faithful
  <1>6. ASSUME NEW k \in DOMAIN tasks, NEW t \in Terms, Dispatch(k, t)
        PROVE  Faithful(tasks', dispatches')
    <2>. DEFINE ds == Append(DS, NewRow(k, "running", t, TRUE))
    <2>1. /\ tasks' = Given(TS, k, "dispatched", Len(dispatches) + 1)
          /\ Len(dispatches) \in Nat
          /\ DOMAIN ds = DOMAIN dispatches \cup {Len(dispatches) + 1}
          /\ DOMAIN dispatches' = DOMAIN ds
          /\ \A i \in DOMAIN dispatches : ds[i] = DS[i]
          /\ KeptRows(ds, dispatches')
          /\ NoStart
      BY <1>6, DispatchWrites
    <2>. HIDE DEF ds
    <2>2. \A i \in DOMAIN dispatches : dispatches'[i].status = DS[i].status
      BY <2>1 DEF KeptRows
    <2>3. /\ Faithful(TS, DS) /\ DOMAIN DS = DOMAIN dispatches
          /\ DOMAIN TS = DOMAIN tasks /\ TS \in Seq(Task) /\ k \in DOMAIN TS
      BY <1>1, <2>1, RewrittenRead, ListsRead, CoupledFaithful
         DEF IInv, Rewritten, TasksOK
    <2>4. /\ tasks'[k].status = "dispatched" /\ DOMAIN tasks' = DOMAIN TS
          /\ \A x \in DOMAIN TS : x # k => tasks'[x] = TS[x]
      <3>1. "dispatched" \in TaskStates /\ Len(dispatches) + 1 \in Nat
        BY <2>1 DEF TaskStates
      <3>2. /\ tasks'[k].status = "dispatched"
            /\ \A x \in DOMAIN TS : x # k => tasks'[x] = TS[x]
        BY <2>1, <2>3, <3>1, TaskSet
      <3>. QED BY <2>1, <3>2 DEF Given
    <2>5. ASSUME NEW i \in DOMAIN dispatches, Finished(dispatches[i])
          PROVE  dispatches'[i].status = dispatches[i].status
      BY <2>2, <2>3, <2>5 DEF Faithful
    <2>6. ASSUME NEW x \in DOMAIN tasks, tasks[x].status = "dispatched",
                 tasks'[x].status \in Settled
          PROVE  /\ tasks[x].dispatch \in DOMAIN dispatches'
                 /\ dispatches'[tasks[x].dispatch].status = tasks'[x].status
      <3>1. x # k /\ tasks'[x] = TS[x]
        BY <2>3, <2>4, <2>6 DEF Settled
      <3>2. /\ tasks[x].dispatch \in DOMAIN DS
            /\ DS[tasks[x].dispatch].status = TS[x].status
        BY <2>3, <2>6, <3>1 DEF Faithful
      <3>. QED BY <2>1, <2>2, <2>3, <3>1, <3>2
    <2>. QED BY <2>3, <2>4, <2>5, <2>6 DEF Faithful
  <1>7. CASE StartStep
    <2>1. CASE FailTask
      <3>1. /\ tasks' = Marked(tasks, start.task, "failed")
            /\ start.task \in DOMAIN tasks
            /\ tasks[start.task].dispatch = Len(dispatches)
            /\ Len(dispatches) \in DOMAIN dispatches
            /\ dispatches[Len(dispatches)].status = "failed"
            /\ dispatches' = dispatches
        BY <2>1 DEF FailTask, IInv, StartHolds, NoStart, Marked, WInv
      <3>2. /\ tasks \in Seq(Task) /\ "failed" \in TaskStates
        BY DEF IInv, TypeOK, TaskStates
      <3>3. /\ tasks'[start.task].status = "failed"
            /\ \A x \in DOMAIN tasks : x # start.task => tasks'[x] = tasks[x]
        BY <3>1, <3>2, TaskStatusSet
      <3>. QED BY <3>1, <3>3 DEF Faithful, Settled
    <2>2. CASE SetupFails \/ RecordStart
      <3>1. PICK st \in RowStates, t \in 0..MaxTerms : PushRow(st, t)
        <4>1. {"failed", "ready", "unknown"} \subseteq RowStates
          BY DEF RowStates, FINISHED
        <4>2. 0 \in 0..MaxTerms /\ start.terminal \in 0..MaxTerms
          BY Bounds DEF IInv, TypeOK, Start
        <4>3. \/ PushRow("failed", 0)
              \/ PushRow("ready", start.terminal)
              \/ PushRow("unknown", start.terminal)
          BY <2>2 DEF SetupFails, RecordStart
        <4>. QED BY <4>1, <4>2, <4>3
      <3>2. tasks' = tasks /\ ~NoStart /\ start.phase # "failing"
        BY <2>2, <3>1 DEF SetupFails, RecordStart, PushRow, NoStart
      <3>3. /\ DOMAIN dispatches \subseteq DOMAIN dispatches'
            /\ \A i \in DOMAIN dispatches : dispatches'[i] = dispatches[i]
        BY <3>1, <3>2, PushedRow
      <3>. QED BY <3>2, <3>3, IdleFaithful
    <2>3. CASE ~FailTask /\ ~SetupFails /\ ~RecordStart
      <3>1. tasks' = tasks /\ dispatches' = dispatches
        BY <1>7, <2>3 DEF StartStep, PlacementFails, AskWindow, WaitEnds
      <3>. QED BY <3>1, IdleFaithful
    <2>. QED BY <2>1, <2>2, <2>3
  <1>8. CASE TerminalStep
    <2>1. /\ tasks' = tasks
          /\ dispatches' = dispatches \/ \E t \in Terms : ExitHandled(t)
      BY <1>8 DEF TerminalStep, OpenTerminal, WindowStarts, TerminalExits, CloseTerminal,
                  ExitHandled, stored
    <2>2. /\ DOMAIN dispatches' = DOMAIN dispatches
          /\ \A i \in DOMAIN dispatches : dispatches'[i].status = dispatches[i].status
      BY <2>1, ExitedRow DEF IInv
    <2>. QED BY <2>1, <2>2, IdleFaithful
  <1>9. CASE UNCHANGED <<tasks, dispatches>>
    BY <1>9, IdleFaithful
  <1>10. ASSUME NEW i \in DispatchIds, StampExpires(i)
         PROVE  UNCHANGED <<tasks, dispatches>>
    BY <1>10 DEF StampExpires, stored
  <1>11. CASE UNCHANGED vars
    BY <1>9, <1>11 DEF vars
  <1>. QED BY <1>2, <1>3, <1>4, <1>5, <1>6, <1>7, <1>8, <1>9, <1>10, <1>11, Kinds

\* A finished dispatch keeps the end it had, whatever late report, stop,
\* update, retry or restart comes.
THEOREM EndsAreFinal == Spec => FinishedIsFinal
  <1>1. IInv /\ WInv /\ [Next]_vars =>
          (lost = {} =>
             \A i \in DOMAIN dispatches \cap DOMAIN dispatches' :
                Finished(dispatches[i]) =>
                    dispatches'[i].status = dispatches[i].status)
    BY StepFaithful DEF Faithful
  <1>. QED BY <1>1, WorkHolds, PTL DEF Spec, FinishedIsFinal

\* A dispatched task that completes or fails takes its own dispatch to the
\* same end in the same step.
THEOREM TasksSettleWithTheirDispatch == Spec => SettledTogether
  <1>1. IInv /\ WInv /\ [Next]_vars =>
          (lost = {} =>
             \A k \in DOMAIN tasks \cap DOMAIN tasks' :
                tasks[k].status = "dispatched" /\ tasks'[k].status \in Settled =>
                    /\ tasks[k].dispatch \in DOMAIN dispatches'
                    /\ dispatches'[tasks[k].dispatch].status = tasks'[k].status)
    BY StepFaithful DEF Faithful
  <1>. QED BY <1>1, WorkHolds, PTL DEF Spec, SettledTogether

-----------------------------------------------------------------------------
(* Terminals, over every kind of step.                                     *)

\* A terminal of a row of this process.
LEMMA TerminalIs ==
    ASSUME NEW d \in Row
    PROVE  /\ TerminalOf(d) \in 0..MaxTerms
           /\ TerminalOf(d) # 0 => TerminalOf(d) \in Terms /\ d.runtime = runtime
                                     /\ d.terminal = TerminalOf(d)
           /\ d.runtime = runtime => TerminalOf(d) = d.terminal
  BY Bounds DEF TerminalOf, Row, Terms

LEMMA ReconciledRows ==
    ASSUME TypeOK
    PROVE  /\ DOMAIN Reconcile(dispatches) = DOMAIN dispatches
           /\ dispatches \in Seq(Row) /\ Reconcile(dispatches) \in Seq(Row)
           /\ Len(dispatches) <= MaxDispatches /\ stamps \in [DispatchIds -> Stamp]
           /\ DOMAIN dispatches \subseteq DispatchIds
  <1>1. /\ dispatches \in Seq(Row) /\ Len(dispatches) <= MaxDispatches
        /\ stamps \in [DispatchIds -> Stamp]
    BY DEF TypeOK
  <1>2. DOMAIN dispatches \subseteq DispatchIds
    BY <1>1, Bounds DEF DispatchIds
  <1>3. Reconcile(dispatches) \in Seq(Row)
    BY <1>1, ReconcileKeeps DEF KeptRows
  <1>4. DOMAIN Reconcile(dispatches) = DOMAIN dispatches
    BY DEF Reconcile
  <1>. QED BY <1>1, <1>2, <1>3, <1>4

\* The session a late start takes is one that no other row has.
LEMMA ReconciledTied ==
    ASSUME TypeOK, NoStart, Tied(dispatches), Stamped
    PROVE  Tied(Reconcile(dispatches))
  <1>. DEFINE R == Reconcile(dispatches)
  <1>1. /\ DOMAIN R = DOMAIN dispatches /\ dispatches \in Seq(Row) /\ R \in Seq(Row)
        /\ Len(dispatches) <= MaxDispatches /\ stamps \in [DispatchIds -> Stamp]
        /\ DOMAIN dispatches \subseteq DispatchIds
        /\ start.phase # "waiting" /\ start.phase # "recording"
    BY ReconciledRows DEF NoStart
  <1>2. \A i \in DOMAIN dispatches :
          /\ R[i].runtime = dispatches[i].runtime
          /\ Finished(R[i]) <=> Finished(dispatches[i])
          /\ \/ R[i] = dispatches[i] /\ ~LateSession(dispatches, i)
             \/ LateSession(dispatches, i) /\ R[i].terminal = stamps[i].session
    BY <1>1, ReconciledRow DEF Finished
  <1>. HIDE DEF R
  <1>3. \A i \in DOMAIN dispatches : LateSession(dispatches, i) =>
          /\ TerminalOf(R[i]) = stamps[i].session /\ stamps[i].session # 0
          /\ terms[stamps[i].session] = "open"
          /\ ~Finished(dispatches[i]) => Awaits(dispatches, i)
    BY <1>2 DEF LateSession, TerminalOf, Live, Awaits
  \* Who holds a terminal held it before, or came late to it.
  <1>4. ASSUME NEW i \in DOMAIN dispatches, NEW t, Holds(R, i, t)
        PROVE  \/ Holds(dispatches, i, t) /\ ~LateSession(dispatches, i)
               \/ Awaits(dispatches, i) /\ stamps[i].session = t /\ t # 0
    BY <1>2, <1>3, <1>4 DEF Holds
  <1>5. ASSUME NEW t \in Terms, NEW i \in DOMAIN R, NEW j \in DOMAIN R,
               Holds(R, i, t), Holds(R, j, t)
        PROVE  i = j
    BY <1>1, <1>4, <1>5 DEF Tied, Stamped, Free
  <1>6. ASSUME NEW i \in DOMAIN R, Awaits(R, i), stamps[i].session # 0
        PROVE  Free(R, stamps[i].session)
    <2>1. Awaits(dispatches, i) /\ ~LateSession(dispatches, i)
      BY <1>1, <1>2, <1>3, <1>6 DEF Awaits
    <2>2. Free(dispatches, stamps[i].session)
      BY <1>1, <1>6, <2>1 DEF Tied
    <2>. SUFFICES ASSUME NEW j \in DOMAIN R, Holds(R, j, stamps[i].session)
                  PROVE  FALSE
      BY DEF Free
    <2>3. ~Holds(dispatches, j, stamps[i].session)
      BY <1>1, <2>2 DEF Free
    <2>4. stamps[j].session = stamps[i].session /\ LateSession(dispatches, j)
      BY <1>1, <1>2, <1>4, <2>3 DEF Holds
    <2>. QED BY <1>1, <1>6, <2>1, <2>4 DEF Stamped
  <1>7. \A i \in DOMAIN R :
          /\ R[i].runtime <= runtime
          /\ TerminalOf(R[i]) # 0 => terms[TerminalOf(R[i])] # "unopened"
    BY <1>1, <1>2, <1>3 DEF Tied
  <1>8. Tied(R)
    BY <1>1, <1>5, <1>6, <1>7 DEF Tied, Asked
  <1>. QED BY <1>8 DEF R

\* It was opened for that start, and the row that takes it is its newest.
LEMMA ReconciledBriefed ==
    ASSUME TypeOK, NoStart, Tied(dispatches), Stamped, Briefed(dispatches)
    PROVE  Briefed(Reconcile(dispatches))
  <1>. DEFINE R == Reconcile(dispatches)
  <1>1. /\ DOMAIN R = DOMAIN dispatches /\ dispatches \in Seq(Row) /\ R \in Seq(Row)
        /\ Len(dispatches) <= MaxDispatches /\ stamps \in [DispatchIds -> Stamp]
        /\ DOMAIN dispatches \subseteq DispatchIds
        /\ ~Asked
    BY ReconciledRows DEF NoStart, Asked
  <1>2. \A i \in DOMAIN dispatches :
          /\ R[i].runtime = dispatches[i].runtime
          /\ R[i].handed = dispatches[i].handed
          /\ Finished(R[i]) <=> Finished(dispatches[i])
          /\ \/ R[i] = dispatches[i] /\ ~LateSession(dispatches, i)
             \/ LateSession(dispatches, i) /\ R[i].terminal = stamps[i].session
    BY <1>1, ReconciledRow DEF Finished
  <1>. HIDE DEF R
  <1>3. \A i \in DOMAIN dispatches : LateSession(dispatches, i) =>
          /\ TerminalOf(R[i]) = stamps[i].session /\ stamps[i].session # 0
          /\ TerminalOf(dispatches[i]) = 0
    BY <1>2 DEF LateSession, TerminalOf, Live
  <1>4. \A i \in DOMAIN R : ~R[i].handed /\ TerminalOf(R[i]) # 0 =>
          startedFor[TerminalOf(R[i])] = [dispatch |-> i, reset |-> 0]
    BY <1>1, <1>2, <1>3 DEF Briefed
  <1>5. ASSUME NEW i \in DispatchIds, stamps[i].session # 0,
               NEW j \in DOMAIN R, TerminalOf(R[j]) = stamps[i].session
        PROVE  i \in DOMAIN R /\ TerminalOf(R[i]) = stamps[i].session
    <2>1. CASE LateSession(dispatches, j)
      BY <1>1, <1>3, <1>5, <2>1 DEF Stamped
    <2>2. CASE ~LateSession(dispatches, j)
      <3>1. TerminalOf(dispatches[j]) = stamps[i].session
        BY <1>1, <1>2, <1>5, <2>2
      <3>2. i \in DOMAIN dispatches /\ TerminalOf(dispatches[i]) = stamps[i].session
        BY <1>1, <1>5, <3>1 DEF Briefed
      <3>. QED BY <1>1, <1>2, <1>3, <1>5, <3>2
    <2>. QED BY <2>1, <2>2
  <1>6. ASSUME NEW i \in DispatchIds, stamps[i].phase # "none"
        PROVE  /\ i \in DOMAIN R /\ R[i].runtime = runtime
               /\ R[i].terminal \in {0, stamps[i].session}
    BY <1>1, <1>2, <1>6 DEF Briefed
  <1>7. ASSUME NEW i \in DOMAIN R, NEW j \in DOMAIN R, NEW t \in Terms,
               Holds(R, i, t), TerminalOf(R[j]) = t
        PROVE  j <= i
    <2>1. t # 0 /\ TerminalOf(R[i]) = t /\ i \in Int
      BY <1>1, <1>7, Bounds DEF Holds, Terms
    <2>2. CASE LateSession(dispatches, i) /\ LateSession(dispatches, j)
      BY <1>1, <1>3, <1>7, <2>1, <2>2 DEF Stamped
    <2>3. CASE LateSession(dispatches, i) /\ ~LateSession(dispatches, j)
      <3>1. TerminalOf(dispatches[j]) = stamps[i].session /\ stamps[i].session # 0
        BY <1>1, <1>2, <1>3, <1>7, <2>1, <2>3
      <3>2. TerminalOf(dispatches[i]) = stamps[i].session
        BY <1>1, <3>1 DEF Briefed
      <3>. QED BY <1>1, <1>3, <2>3, <3>1, <3>2
    <2>4. CASE ~LateSession(dispatches, i) /\ LateSession(dispatches, j)
      <3>1. TerminalOf(dispatches[i]) = stamps[j].session /\ stamps[j].session # 0
        BY <1>1, <1>2, <1>3, <1>7, <2>1, <2>4
      <3>2. TerminalOf(dispatches[j]) = stamps[j].session
        BY <1>1, <3>1 DEF Briefed
      <3>. QED BY <1>1, <1>3, <2>4, <3>1, <3>2
    <2>5. CASE ~LateSession(dispatches, i) /\ ~LateSession(dispatches, j)
      <3>1. R[i] = dispatches[i] /\ R[j] = dispatches[j]
        BY <1>1, <1>2, <2>5
      <3>. QED BY <1>1, <1>7, <3>1 DEF Briefed, Holds
    <2>. QED BY <2>2, <2>3, <2>4, <2>5
  <1>8. Briefed(R)
    <2>1. \A i \in DispatchIds : stamps[i].session # 0 =>
             startedFor[stamps[i].session] = [dispatch |-> i, reset |-> 0]
      BY DEF Briefed
    <2>2. (\A n \in notices : n.reset = 0) /\ start.phase # "recording"
      BY <1>1 DEF Briefed, Asked
    <2>. QED BY <1>4, <1>5, <1>6, <1>7, <2>1, <2>2 DEF Briefed
  <1>. QED BY <1>8 DEF R

\* A row that was released while no agent had come has its alarm now, and a
\* session that is taken is open.
LEMMA ReconciledRuled ==
    ASSUME TypeOK, NoStart, TInv
    PROVE  Ruled(Reconcile(dispatches))
  <1>. DEFINE R == Reconcile(dispatches)
  <1>1. /\ DOMAIN R = DOMAIN dispatches /\ dispatches \in Seq(Row)
        /\ Len(dispatches) <= MaxDispatches /\ stamps \in [DispatchIds -> Stamp]
    BY DEF Reconcile, TypeOK
  <1>2. \A i \in DOMAIN dispatches :
          LET d == dispatches[i]
              e == R[i]
          IN /\ e.runtime = d.runtime /\ e.handed = d.handed /\ e.exited = d.exited
             /\ e.release = d.release /\ e.leftOpen = d.leftOpen
             /\ Finished(e) <=> Finished(d)
             /\ \/ e = d
                \/ /\ LateSession(dispatches, i) /\ e.terminal = stamps[i].session
                   /\ Finished(d) => e.late = "pending"
    BY <1>1, ReconciledRow DEF Finished
  <1>. HIDE DEF R
  <1>3. Tied(R) /\ (resets = 0 => Briefed(R))
    BY ReconciledTied, ReconciledBriefed DEF TInv, Ruled, R
  <1>4. Released(R)
    BY <1>1, <1>2 DEF TInv, Ruled, Released, Late
  <1>5. Told(dispatches) => Told(R)
    <2>. SUFFICES ASSUME Told(dispatches), NEW i \in DOMAIN R, NEW t \in Terms,
                         Holds(R, i, t), terms[t] = "ended",
                         R[i].handed \/ R[i].late # "none", i \notin doneMail
                  PROVE  R[i].exited
      BY DEF Told
    <2>1. R[i] = dispatches[i]
      BY <1>1, <1>2 DEF LateSession, Holds, TerminalOf, Live
    <2>. QED BY <1>1, <2>1 DEF Told, Holds
  <1>. QED BY <1>3, <1>4, <1>5 DEF TInv, Ruled, R

\* The invariant after a step, part by part.
LEMMA TSo ==
    ASSUME Tied(dispatches)', Stamped', resets' = 0 => Briefed(dispatches)',
           Released(dispatches)', NoReset => resets' = 0 /\ Told(dispatches)'
    PROVE  TInv'
  BY DEF TInv, Ruled

\* A command that ends with rows gone on from ds keeps what ds keeps.
LEMMA GoneOnKeepsT ==
    ASSUME TypeOK, NoStart, Stamped, NEW ds \in Seq(Row), Ruled(ds),
           RowsGo(ds, dispatches', terms'), Closes,
           UNCHANGED <<runtime, startedFor, notices, stamps, resets>>,
           start'.phase \in {"idle", "placing"}, start'.terminal = 0,
           NoReset => doneMail \subseteq doneMail'
    PROVE  TInv'
  <1>1. /\ DOMAIN dispatches' = DOMAIN ds
        /\ \A i \in DOMAIN ds : Goes(ds[i], dispatches'[i], terms')
        /\ \A i \in DOMAIN ds : ds[i] \in Row
        /\ ~Asked' /\ start'.phase # "recording"
    BY DEF RowsGo, Asked
  <1>2. \A i \in DOMAIN ds :
          /\ dispatches'[i].runtime = ds[i].runtime /\ dispatches'[i].terminal = ds[i].terminal
          /\ dispatches'[i].handed = ds[i].handed /\ dispatches'[i].exited = ds[i].exited
          /\ dispatches'[i].late = "none" <=> ds[i].late = "none"
          /\ TerminalOf(dispatches[i])' = TerminalOf(ds[i])
          /\ Finished(ds[i]) => Finished(dispatches'[i])
    BY <1>1 DEF Goes, TerminalOf
  <1>3. \A i \in DOMAIN ds, t \in Terms : Holds(dispatches, i, t)' => Holds(ds, i, t)
    BY <1>2 DEF Holds, Finished
  <1>4. \A t \in Terms : /\ terms'[t] = "open" => terms[t] = "open"
                         /\ terms'[t] = "ended" => terms[t] = "ended"
                         /\ terms[t] # "unopened" => terms'[t] # "unopened"
    BY DEF Closes
  <1>5. ASSUME NEW i \in DOMAIN ds
        PROVE  TerminalOf(ds[i]) # 0 => TerminalOf(ds[i]) \in Terms
    BY <1>1, TerminalIs
  <1>6. \A i \in DispatchIds : stamps[i].session # 0 => stamps[i].session \in Terms
    BY Bounds DEF TypeOK, Stamp, Terms
  <1>7. Tied(dispatches)'
    <2>1. \A i \in DOMAIN dispatches' :
            /\ dispatches'[i].runtime <= runtime'
            /\ TerminalOf(dispatches[i])' # 0 => terms'[TerminalOf(dispatches[i])'] # "unopened"
      BY <1>1, <1>2, <1>4, <1>5 DEF Ruled, Tied
    <2>2. \A t \in Terms : \A i, j \in DOMAIN dispatches' :
            Holds(dispatches, i, t)' /\ Holds(dispatches, j, t)' => i = j
      BY <1>1, <1>3 DEF Ruled, Tied
    <2>3. ASSUME NEW i \in DOMAIN dispatches', Awaits(dispatches, i)', stamps[i].session # 0
          PROVE  \A j \in DOMAIN dispatches' : ~Holds(dispatches, j, stamps[i].session)'
      <3>1. Awaits(ds, i)
        BY <1>1, <1>2, <2>3 DEF Awaits, Finished
      <3>2. Free(ds, stamps[i].session)
        BY <1>1, <2>3, <3>1 DEF Ruled, Tied
      <3>. QED BY <1>1, <1>2, <3>2 DEF Free, Holds, Finished
    <2>. QED BY <1>1, <2>1, <2>2, <2>3 DEF Tied, Free
  <1>8. Stamped'
    <2>1. \A i \in DispatchIds : stamps[i].session # 0 =>
            terms'[stamps[i].session] # "unopened"
      BY <1>4, <1>6 DEF Stamped
    <2>2. \A i \in DispatchIds : stamps[i].phase # "waiting"
      BY DEF Stamped, NoStart
    <2>. QED BY <2>1, <2>2 DEF Stamped
  <1>9. ASSUME resets' = 0
        PROVE  Briefed(dispatches)'
    <2>1. Briefed(ds)
      BY <1>9 DEF Ruled
    <2>2. \A i \in DispatchIds : stamps[i].session # 0 =>
            startedFor[stamps[i].session] = [dispatch |-> i, reset |-> 0]
      BY <2>1 DEF Briefed
    <2>3. ASSUME NEW i \in DispatchIds, stamps[i].session # 0,
                 NEW j \in DOMAIN dispatches', TerminalOf(dispatches[j])' = stamps[i].session
          PROVE  i \in DOMAIN dispatches' /\ TerminalOf(dispatches[i])' = stamps[i].session
      BY <1>1, <1>2, <2>1, <2>3 DEF Briefed
    <2>4. ASSUME NEW i \in DispatchIds, stamps[i].phase # "none"
          PROVE  /\ i \in DOMAIN dispatches' /\ dispatches'[i].runtime = runtime'
                 /\ dispatches'[i].terminal \in {0, stamps[i].session}
      <3>1. ~Asked
        BY DEF NoStart, Asked
      <3>. QED BY <1>1, <1>2, <2>1, <2>4, <3>1 DEF Briefed
    <2>5. \A i, j \in DOMAIN dispatches' : \A t \in Terms :
            Holds(dispatches, i, t)' /\ TerminalOf(dispatches[j])' = t => j <= i
      BY <1>1, <1>2, <1>3, <2>1 DEF Briefed
    <2>6. \A i \in DOMAIN dispatches' : ~dispatches'[i].handed /\ TerminalOf(dispatches[i])' # 0 =>
            startedFor'[TerminalOf(dispatches[i])'] = [dispatch |-> i, reset |-> 0]
      BY <1>1, <1>2, <2>1 DEF Briefed
    <2>7. \A n \in notices' : n.reset = 0
      BY <2>1 DEF Briefed
    <2>. QED BY <1>1, <2>2, <2>3, <2>4, <2>5, <2>6, <2>7 DEF Briefed
  <1>10. Released(dispatches)'
    <2>. SUFFICES ASSUME NEW i \in DOMAIN dispatches', dispatches'[i].release = "done"
                  PROVE  /\ Finished(dispatches'[i])
                         /\ ~dispatches'[i].leftOpen /\ Live(TerminalOf(dispatches[i]))' => Late(dispatches'[i])
      BY DEF Released, Finished, Late
    <2>1. Goes(ds[i], dispatches'[i], terms') /\ Released(ds)
      BY <1>1 DEF Ruled
    <2>2. Finished(dispatches'[i])
      BY <1>1, <2>1 DEF Goes, Released
    <2>3. ASSUME ~dispatches'[i].leftOpen, Live(TerminalOf(dispatches[i]))'
          PROVE  Late(dispatches'[i])
      <3>1. /\ TerminalOf(ds[i]) # 0 /\ terms'[TerminalOf(ds[i])] = "open"
            /\ terms[TerminalOf(ds[i])] = "open"
        BY <1>1, <1>2, <1>4, <1>5, <2>3 DEF Live
      <3>2. ds[i].release = "done" /\ ~ds[i].leftOpen
        BY <2>1, <2>3, <3>1 DEF Goes, Gone
      <3>3. Late(ds[i])
        BY <1>1, <2>1, <3>1, <3>2 DEF Released, Live
      <3>. QED BY <2>1, <3>3 DEF Goes
    <2>. QED BY <2>2, <2>3
  <1>11. NoReset => resets' = 0 /\ Told(dispatches)'
    <2>. SUFFICES ASSUME NoReset, NEW i \in DOMAIN dispatches', NEW t \in Terms,
                         Holds(dispatches, i, t)', terms'[t] = "ended",
                         dispatches'[i].handed \/ dispatches'[i].late # "none", i \notin doneMail'
                  PROVE  dispatches'[i].exited
      BY DEF Ruled, Told
    <2>1. Holds(ds, i, t) /\ terms[t] = "ended" /\ i \notin doneMail /\ Told(ds)
      BY <1>1, <1>3, <1>4 DEF Ruled
    <2>. QED BY <1>1, <1>2, <2>1 DEF Told
  <1>. QED BY <1>7, <1>8, <1>9, <1>10, <1>11, TSo

LEMMA CarriedKeepsT ==
    ASSUME TypeOK, NoStart, TInv, Carried(dispatches', terms'), Closes,
           UNCHANGED <<runtime, startedFor, notices, stamps, resets>>,
           start'.phase \in {"idle", "placing"}, start'.terminal = 0,
           NoReset => doneMail \subseteq doneMail'
    PROVE  TInv'
  <1>1. Stamped /\ Ruled(dispatches) /\ Ruled(Reconcile(dispatches))
    BY ReconciledRuled DEF TInv
  <1>2. dispatches \in Seq(Row) /\ Reconcile(dispatches) \in Seq(Row)
    BY ReconciledRows
  <1>3. CASE RowsGo(dispatches, dispatches', terms')
    BY <1>1, <1>2, <1>3, GoneOnKeepsT
  <1>4. CASE RowsGo(Reconcile(dispatches), dispatches', terms')
    BY <1>1, <1>2, <1>4, GoneOnKeepsT
  <1>. QED BY <1>3, <1>4 DEF Carried

LEMMA TInit == Init => TInv
  <1>. SUFFICES ASSUME Init PROVE TInv
    OBVIOUS
  <1>1. /\ dispatches = <<>> /\ resets = 0 /\ start.terminal = 0
        /\ start.phase = "idle" /\ notices = {}
        /\ \A i \in DispatchIds : stamps[i].session = 0 /\ stamps[i].phase = "none"
    BY DEF Init, Idle, NoStamp
  <1>2. DOMAIN dispatches = {}
    BY <1>1
  <1>3. Stamped
    BY <1>1 DEF Stamped
  <1>4. Tied(dispatches)
    BY <1>1, <1>2 DEF Tied, Asked
  <1>5. Briefed(dispatches)
    BY <1>1, <1>2 DEF Briefed
  <1>. QED BY <1>1, <1>2, <1>3, <1>4, <1>5 DEF TInv, Ruled, Released, Told

LEMMA SavedKeepsT ==
    ASSUME IInv, TInv, Saved
    PROVE  TInv'
  <1>1. /\ Carried(dispatches', terms') /\ NoStart /\ Closes /\ TypeOK
        /\ NoReset => doneMail \subseteq doneMail'
        /\ UNCHANGED <<runtime, startedFor, notices, stamps, resets>>
        /\ start' = start
    BY DEF Saved, Rewritten, IInv, process, history
  <1>2. start'.phase \in {"idle", "placing"} /\ start'.terminal = 0
    BY <1>1 DEF NoStart, TInv, Stamped
  <1>. QED BY <1>1, <1>2, CarriedKeepsT

LEMMA ClaimedKeepsT ==
    ASSUME IInv, TInv, Claimed
    PROVE  TInv'
  <1>1. PICK ts, k : Claim(ts, k) /\ NoStart /\ Carried(dispatches', terms)
    BY DEF Claimed
  <1>2. /\ TypeOK /\ Carried(dispatches', terms') /\ Closes
        /\ doneMail' = doneMail
        /\ UNCHANGED <<runtime, startedFor, notices, stamps, resets>>
        /\ start' = [Idle EXCEPT !.phase = "placing", !.task = k]
    BY <1>1 DEF Claim, Closes, mail, history, IInv
  <1>3. start'.phase \in {"idle", "placing"} /\ start'.terminal = 0
    BY <1>2 DEF Idle
  <1>. QED BY <1>1, <1>2, <1>3, CarriedKeepsT

LEMMA EmptiedKeepsT ==
    ASSUME IInv, TInv, Emptied
    PROVE  TInv'
  <1>1. /\ dispatches' = <<>> /\ resets' # 0 /\ ~NoReset
        /\ UNCHANGED <<terms, runtime, startedFor, notices, stamps, start>>
        /\ NoStart
    BY DEF Emptied, process, IInv, TypeOK
  <1>2. DOMAIN dispatches' = {}
    BY <1>1
  <1>3. Tied(dispatches)'
    BY <1>1, <1>2 DEF Tied, Free, Asked, NoStart
  <1>4. Stamped'
    BY <1>1 DEF TInv, Stamped, NoStart
  <1>5. Released(dispatches)'
    BY <1>2 DEF Released
  <1>. QED BY <1>1, <1>3, <1>4, <1>5, TSo

\* In the next process no row has a terminal any more.
LEMMA DiedKeepsT ==
    ASSUME IInv, TInv, Died
    PROVE  TInv'
  <1>1. PICK ts, ds : \E how \in {{}, {"start"}, {"reset"}} :
          /\ DieWith(ts, ds, how)
          /\ RowsOK(ds)
          /\ \/ ds = <<>>
             \/ ds = dispatches
             \/ Carried(ds, terms)
    BY DEF Died, Rewritten
  <1>2. /\ dispatches' = CutShort(ds) /\ ds \in Seq(Row) /\ runtime' = runtime + 1
        /\ resets' = resets /\ notices' = {} /\ start' = Idle
        /\ stamps' = [i \in DispatchIds |-> NoStamp]
        /\ runtime \in Nat
    BY <1>1 DEF DieWith, RowsOK, IInv, TypeOK
  <1>3. \A i \in DOMAIN ds : /\ ds[i].runtime <= runtime
                             /\ ds[i].release = "done" => Finished(ds[i])
    <2>1. \A i \in DOMAIN dispatches :
            /\ dispatches[i].runtime <= runtime
            /\ dispatches[i].release = "done" => Finished(dispatches[i])
      BY DEF TInv, Ruled, Tied, Released
    <2>2. \A i \in DOMAIN dispatches :
            LET e == Reconcile(dispatches)[i]
            IN e.runtime <= runtime /\ (e.release = "done" => Finished(e))
      <3>1. \A i \in DOMAIN dispatches :
              LET e == Reconcile(dispatches)[i]
                  d == dispatches[i]
              IN e.runtime = d.runtime /\ e.release = d.release /\ e.status = d.status
        BY ReconciledRow DEF IInv, TypeOK
      <3>. QED BY <2>1, <3>1 DEF Finished
    <2>3. ASSUME NEW rs, RowsGo(rs, ds, terms), rs \in Seq(Row),
                 \A i \in DOMAIN rs : /\ rs[i].runtime <= runtime
                                      /\ rs[i].release = "done" => Finished(rs[i])
          PROVE  \A i \in DOMAIN ds : /\ ds[i].runtime <= runtime
                                      /\ ds[i].release = "done" => Finished(ds[i])
      <3>1. DOMAIN ds = DOMAIN rs
        BY <1>2, <2>3 DEF RowsGo
      <3>. QED BY <2>3, <3>1 DEF RowsGo, Goes
    <2>4. CASE ds = <<>>
      BY <2>4
    <2>5. CASE ds = dispatches
      BY <2>1, <2>5
    <2>6. CASE Carried(ds, terms)
      <3>1. /\ dispatches \in Seq(Row) /\ Reconcile(dispatches) \in Seq(Row)
            /\ DOMAIN Reconcile(dispatches) = DOMAIN dispatches
        BY ReconciledRows DEF IInv
      <3>. HIDE DEF Reconcile
      <3>2. CASE RowsGo(dispatches, ds, terms)
        BY <2>1, <2>3, <3>1, <3>2
      <3>3. CASE RowsGo(Reconcile(dispatches), ds, terms)
        BY <2>2, <2>3, <3>1, <3>3
      <3>. QED BY <2>6, <3>2, <3>3 DEF Carried
    <2>. QED BY <1>1, <2>4, <2>5, <2>6
  <1>4. /\ DOMAIN dispatches' = DOMAIN ds
        /\ \A i \in DOMAIN ds :
              /\ dispatches'[i].runtime = ds[i].runtime
              /\ dispatches'[i].release = "done" => Finished(dispatches'[i])
    <2>1. \A r \in Row : [r EXCEPT !.status = "unknown"].runtime = r.runtime
                         /\ [r EXCEPT !.status = "unknown"].release = r.release
      BY DEF Row
    <2>2. \A i \in DOMAIN ds : ds[i] \in Row
      BY <1>2
    <2>. QED BY <1>2, <1>3, <2>1, <2>2 DEF CutShort
  <1>5. \A i \in DOMAIN dispatches' : dispatches'[i].runtime <= runtime' /\ TerminalOf(dispatches[i])' = 0
    <2>1. \A i \in DOMAIN ds : ds[i] \in Row
      BY <1>2
    <2>2. \A i \in DOMAIN ds : ds[i].runtime \in Nat
      BY <2>1, Bounds DEF Row
    <2>. QED BY <1>2, <1>3, <1>4, <2>2 DEF TerminalOf
  <1>6. /\ start'.phase = "idle" /\ start'.terminal = 0
        /\ \A i \in DispatchIds : stamps'[i].session = 0 /\ stamps'[i].phase = "none"
    BY <1>2 DEF Idle, NoStamp
  <1>7. DOMAIN dispatches' \subseteq DispatchIds
    <2>1. Len(ds) <= MaxDispatches /\ DOMAIN ds = 1..Len(ds) /\ Len(ds) \in Nat
      BY <1>1 DEF RowsOK
    <2>. QED BY <1>4, <2>1, Bounds DEF DispatchIds
  <1>8. \A i, t : ~Holds(dispatches, i, t)' \/ i \notin DOMAIN dispatches'
    BY <1>5 DEF Holds
  <1>9. Tied(dispatches)'
    BY <1>5, <1>6, <1>7, <1>8 DEF Tied, Asked
  <1>10. Stamped'
    BY <1>6 DEF Stamped
  <1>11. Briefed(dispatches)'
    BY <1>2, <1>5, <1>6, <1>8 DEF Briefed
  <1>12. Released(dispatches)'
    BY <1>4, <1>5 DEF Released, Live, Finished
  <1>13. NoReset => resets' = 0 /\ Told(dispatches)'
    BY <1>2, <1>8 DEF TInv, Ruled, Told
  <1>. QED BY <1>9, <1>10, <1>11, <1>12, <1>13, TSo

\* A row handed an open terminal nobody works in, and no start waits for.
LEMMA AppendedRuled ==
    ASSUME TypeOK, NoStart, Stamped, NEW R \in Seq(Row), Ruled(R),
           NEW row \in Row, NEW t \in Terms,
           row.terminal = t, row.runtime = runtime, row.handed,
           ~Finished(row), row.release = "none",
           terms[t] = "open", Free(R, t),
           \A i \in DOMAIN R : R[i].terminal = 0 /\ R[i].runtime = runtime
                                  => stamps[i].session # t
    PROVE  Ruled(Append(R, row))
  <1>. DEFINE n == Len(R) + 1
              ds == Append(R, row)
  <1>1. /\ DOMAIN ds = DOMAIN R \cup {n} /\ ds[n] = row
        /\ \A i \in DOMAIN R : ds[i] = R[i] /\ i \in Nat /\ i < n
        /\ n \in Nat
    OBVIOUS
  <1>2. /\ TerminalOf(row) = t /\ t # 0 /\ row.terminal # 0 /\ runtime \in Nat
        /\ ~Asked /\ start.phase # "recording"
    BY Bounds DEF TypeOK, TerminalOf, Terms, NoStart, Asked
  <1>. HIDE DEF ds, n
  <1>3. \A i \in DOMAIN R, u \in Terms : Holds(ds, i, u) <=> Holds(R, i, u)
    BY <1>1 DEF Holds
  <1>4. \A u \in Terms : Holds(ds, n, u) <=> u = t
    BY <1>1, <1>2, Bounds DEF Holds, Terms
  <1>5. \A i \in DispatchIds : stamps[i].session # 0 => stamps[i].session \in Terms
    BY Bounds DEF TypeOK, Stamp, Terms
  <1>6. Tied(ds)
    <2>1. \A i \in DOMAIN ds :
            /\ ds[i].runtime <= runtime
            /\ TerminalOf(ds[i]) # 0 => terms[TerminalOf(ds[i])] # "unopened"
      BY <1>1, <1>2 DEF Ruled, Tied
    <2>2. ASSUME NEW u \in Terms, NEW i \in DOMAIN ds, NEW j \in DOMAIN ds,
                 Holds(ds, i, u), Holds(ds, j, u)
          PROVE  i = j
      <3>1. CASE i = n \/ j = n
        BY <1>1, <1>3, <1>4, <2>2, <3>1 DEF Free
      <3>2. CASE i # n /\ j # n
        BY <1>1, <1>3, <2>2, <3>2 DEF Ruled, Tied
      <3>. QED BY <3>1, <3>2
    <2>3. ASSUME NEW i \in DOMAIN ds, Awaits(ds, i), stamps[i].session # 0
          PROVE  Free(ds, stamps[i].session)
      <3>1. i \in DOMAIN R /\ Awaits(R, i) /\ stamps[i].session # t
        BY <1>1, <1>2, <2>3 DEF Awaits
      <3>2. Free(R, stamps[i].session)
        BY <2>3, <3>1 DEF Ruled, Tied
      <3>. QED BY <1>1, <1>2, <3>1, <3>2 DEF Free, Holds
    <2>. QED BY <1>2, <2>1, <2>2, <2>3 DEF Tied
  <1>7. ASSUME resets = 0
        PROVE  Briefed(ds)
    <2>1. Briefed(R)
      BY <1>7 DEF Ruled
    <2>2. ASSUME NEW i \in DispatchIds, stamps[i].session # 0,
                 NEW j \in DOMAIN ds, TerminalOf(ds[j]) = stamps[i].session
          PROVE  i \in DOMAIN ds /\ TerminalOf(ds[i]) = stamps[i].session
      <3>1. CASE j # n
        BY <1>1, <2>1, <2>2, <3>1 DEF Briefed
      <3>2. CASE j = n
        <4>1. stamps[i].session = t /\ stamps[i].phase # "none"
          BY <1>1, <1>2, <2>2, <3>2 DEF Stamped
        <4>2. /\ i \in DOMAIN R /\ R[i].runtime = runtime
              /\ R[i].terminal \in {0, t}
          BY <1>2, <2>1, <4>1 DEF Briefed
        <4>. QED BY <1>1, <4>1, <4>2 DEF TerminalOf
      <3>. QED BY <3>1, <3>2
    <2>3. ASSUME NEW i \in DOMAIN ds, NEW j \in DOMAIN ds, NEW u \in Terms,
                 Holds(ds, i, u), TerminalOf(ds[j]) = u
          PROVE  j <= i
      <3>1. CASE i = n
        BY <1>1, <3>1
      <3>2. CASE i # n /\ j = n
        BY <1>1, <1>2, <1>3, <2>3, <3>2 DEF Free
      <3>3. CASE i # n /\ j # n
        BY <1>1, <1>3, <2>1, <2>3, <3>3 DEF Briefed
      <3>. QED BY <3>1, <3>2, <3>3
    <2>4. \A i \in DOMAIN ds : ~ds[i].handed /\ TerminalOf(ds[i]) # 0 =>
            startedFor[TerminalOf(ds[i])] = [dispatch |-> i, reset |-> 0]
      BY <1>1, <2>1 DEF Briefed
    <2>5. /\ \A i \in DispatchIds : stamps[i].session # 0 =>
                startedFor[stamps[i].session] = [dispatch |-> i, reset |-> 0]
          /\ \A m \in notices : m.reset = 0
          /\ \A i \in DispatchIds : stamps[i].phase # "none" =>
                /\ i \in DOMAIN ds /\ ds[i].runtime = runtime
                /\ ds[i].terminal \in {0, stamps[i].session}
      BY <1>1, <1>2, <2>1 DEF Briefed
    <2>. QED BY <1>2, <2>2, <2>3, <2>4, <2>5 DEF Briefed
  <1>8. Released(ds)
    BY <1>1 DEF Ruled, Released
  <1>9. NoReset => resets = 0 /\ Told(ds)
    <2>1. ASSUME Told(R), NEW i \in DOMAIN ds, NEW u \in Terms,
                 Holds(ds, i, u), terms[u] = "ended",
                 ds[i].handed \/ ds[i].late # "none", i \notin doneMail
          PROVE  ds[i].exited
      <3>1. i # n
        BY <1>4, <2>1
      <3>. QED BY <1>1, <1>3, <2>1, <3>1 DEF Told
    <2>. QED BY <2>1 DEF Ruled, Told
  <1>. QED BY <1>6, <1>7, <1>8, <1>9 DEF Ruled, ds

\* A session that some start may still take was given to its row before the
\* terminal is found free.
LEMMA DispatchKeepsT ==
    ASSUME IInv, TInv, NEW k \in DOMAIN tasks, NEW t \in Terms, Dispatch(k, t)
    PROVE  TInv'
  <1>. DEFINE row == NewRow(k, "running", t, TRUE)
              R == Reconcile(dispatches)
              n == Len(dispatches) + 1
              ds == Append(DS, row)
              rs == Append(R, row)
  <1>1. /\ row \in Row /\ ds \in Seq(Row) /\ Len(dispatches) \in Nat
        /\ DOMAIN ds = DOMAIN dispatches \cup {n}
        /\ ds[n] = row
        /\ \A i \in DOMAIN dispatches : ds[i] = DS[i] /\ i # n
        /\ RowsGo(ds, dispatches', terms)
        /\ NoStart
        /\ UNCHANGED <<terms, gates, doneMail, process, history>>
    BY DispatchWrites
  <1>2. TypeOK /\ Stamped /\ Live(t) /\ ~Busy(DS, t)
    BY DEF IInv, TInv, Dispatch
  <1>3. /\ DOMAIN R = DOMAIN dispatches /\ R \in Seq(Row) /\ Len(R) = Len(dispatches)
        /\ DOMAIN dispatches \subseteq DispatchIds
        /\ dispatches \in Seq(Row) /\ Len(dispatches) <= MaxDispatches
        /\ stamps \in [DispatchIds -> Stamp]
    BY <1>2, ReconciledRows
  <1>4. Ruled(R)
    BY <1>1, <1>2, ReconciledRuled
  <1>5. RowsGo(R, DS, terms)
    BY <1>3, SpendGoneGoes DEF DS
  <1>6. \A i \in DOMAIN R : R[i].terminal = 0 /\ R[i].runtime = runtime
                              => stamps[i].session # t
    <2>. SUFFICES ASSUME NEW i \in DOMAIN R, R[i].terminal = 0,
                         R[i].runtime = runtime, stamps[i].session = t
                  PROVE  FALSE
      OBVIOUS
    <2>1. i \in DispatchIds /\ t # 0 /\ terms[t] = "open"
      BY <1>2, <1>3, Bounds DEF Terms, Live
    <2>2. stamps[i].phase = "late"
      BY <1>1, <1>2, <1>3, <2>1 DEF Stamped, NoStart, Stamp
    <2>3. /\ R[i].runtime = dispatches[i].runtime
          /\ \/ R[i] = dispatches[i] /\ ~LateSession(dispatches, i)
             \/ R[i].terminal = stamps[i].session
      BY <1>3, ReconciledRow
    <2>. QED BY <1>2, <2>1, <2>2, <2>3 DEF LateSession
  <1>7. /\ row.terminal = t /\ row.runtime = runtime /\ row.handed
        /\ ~Finished(row) /\ row.release = "none" /\ terms[t] = "open"
    BY <1>2 DEF NewRow, Finished, FINISHED, Live
  <1>. HIDE DEF row, R
  <1>8. Free(R, t)
    <2>1. \A i \in DOMAIN R : /\ i \in DOMAIN DS
                              /\ TerminalOf(DS[i]) = TerminalOf(R[i])
      BY <1>3, <1>5 DEF RowsGo, Goes, TerminalOf
    <2>2. KeptRows(R, DS)
      BY <1>3, SpendGoneKeeps DEF DS, R
    <2>3. \A i \in DOMAIN R : DS[i].status = R[i].status
      BY <2>2 DEF KeptRows
    <2>. QED BY <1>2, <2>1, <2>3 DEF Free, Busy, Holds, Finished
  <1>9. Ruled(rs)
    BY <1>1, <1>2, <1>3, <1>4, <1>6, <1>7, <1>8, AppendedRuled
  <1>10. /\ rs \in Seq(Row) /\ DOMAIN rs = DOMAIN dispatches \cup {n}
         /\ Len(rs) = n /\ rs[n] = row
         /\ \A i \in DOMAIN dispatches : rs[i] = R[i]
    BY <1>1, <1>3
  <1>. HIDE DEF rs, ds
  <1>11. RowsGo(rs, dispatches', terms)
    <2>1. Len(dispatches') = n /\ dispatches' \in Seq(Row) /\ n \in Nat
      <3>1. Len(dispatches') = Len(ds) /\ Len(ds) = n /\ dispatches' \in Seq(Row)
        BY <1>1, <1>3, <1>5 DEF RowsGo, ds
      <3>. QED BY <1>1, <3>1
    <2>2. Goes(rs[n], dispatches'[n], terms)
      BY <1>1, <1>10 DEF RowsGo
    <2>3. ASSUME NEW i \in DOMAIN dispatches
          PROVE  Goes(rs[i], dispatches'[i], terms)
      <3>1. Goes(R[i], DS[i], terms)
        BY <1>3, <1>5 DEF RowsGo
      <3>2. Goes(DS[i], dispatches'[i], terms)
        BY <1>1 DEF RowsGo
      <3>. QED BY <1>10, <3>1, <3>2, GoesOn
    <2>. QED BY <1>10, <2>1, <2>2, <2>3 DEF RowsGo
  <1>12. /\ terms' = terms /\ doneMail' = doneMail
         /\ UNCHANGED <<runtime, startedFor, notices, stamps, resets>>
         /\ start' = start
    BY <1>1 DEF process, history
  <1>13. start'.phase \in {"idle", "placing"} /\ start'.terminal = 0 /\ Closes
    BY <1>1, <1>2, <1>12 DEF NoStart, Stamped, Closes
  <1>. QED BY <1>1, <1>2, <1>9, <1>10, <1>11, <1>12, <1>13, GoneOnKeepsT

\* A start that ends without a record leaves the terminals as they were.
LEMMA StartDroppedKeepsT ==
    ASSUME TInv, ~Asked, start'.phase = "idle", start'.terminal = 0,
           UNCHANGED <<dispatches, doneMail, terms, runtime, startedFor, notices,
                       stamps, resets>>
    PROVE  TInv'
  <1>1. ~Asked' /\ start'.phase # "recording" /\ start.phase # "waiting"
    BY DEF Asked
  <1>2. \A i \in DOMAIN dispatches :
          TerminalOf(dispatches[i])' = TerminalOf(dispatches[i])
    BY DEF TerminalOf
  <1>3. \A i \in DOMAIN dispatches : \A t :
          Holds(dispatches, i, t)' <=> Holds(dispatches, i, t)
    BY <1>2 DEF Holds, Finished
  <1>4. Tied(dispatches)'
    BY <1>1, <1>2, <1>3 DEF TInv, Ruled, Tied, Free, Awaits, Finished
  <1>5. Stamped'
    BY <1>1 DEF TInv, Stamped
  <1>6. resets' = 0 => Briefed(dispatches)'
    <2>1. \A i \in DispatchIds : stamps[i].phase # "none" /\ resets = 0 =>
             /\ i \in DOMAIN dispatches /\ dispatches[i].runtime = runtime
             /\ dispatches[i].terminal \in {0, stamps[i].session}
      BY DEF TInv, Ruled, Briefed
    <2>. QED BY <1>1, <1>2, <1>3, <2>1 DEF TInv, Ruled, Briefed
  <1>7. Released(dispatches)'
    BY <1>2 DEF TInv, Ruled, Released, Finished, Late, Live
  <1>8. NoReset => resets' = 0 /\ Told(dispatches)'
    BY <1>3 DEF TInv, Ruled, Told
  <1>. QED BY <1>4, <1>5, <1>6, <1>7, <1>8, TSo

\* The row of a start gets the session that was found for it, if any.
LEMMA PushKeepsT ==
    ASSUME IInv, TInv, NEW st \in RowStates, PushRow(st, start.terminal),
           start.phase = "recording" \/ (start.phase = "placing" /\ st \in FINISHED),
           start'.phase \in {"idle", "failing"}, start'.terminal = 0
    PROVE  TInv'
  <1>. DEFINE t == start.terminal
              row == NewRow(start.task, st, t, FALSE)
  <1>0. PICK n : n = StartId
    OBVIOUS
  <1>1. /\ t \in 0..MaxTerms /\ ~NoStart /\ start.phase # "failing"
        /\ dispatches \in Seq(Row) /\ runtime \in Nat
    BY Bounds DEF IInv, TypeOK, Start, NoStart
  <1>2. /\ UNCHANGED <<terms, runtime, startedFor, notices, stamps, resets, doneMail>>
        /\ ~Asked' /\ start'.phase # "recording" /\ start'.phase # "waiting"
        /\ start.phase # "waiting"
    BY DEF PushRow, mail, history, Asked
  <1>3. /\ DOMAIN dispatches' = DOMAIN dispatches \cup {n}
        /\ dispatches'[n] = row
        /\ \A i \in DOMAIN dispatches :
              dispatches'[i] = dispatches[i] /\ i # n
    BY <1>0, <1>1, PushedRow
  <1>4. /\ row.status = st /\ row.terminal = t /\ row.runtime = runtime
        /\ ~row.handed /\ row.release = "none" /\ row.late = "none"
    BY DEF NewRow
  <1>5. n \in Nat /\ \A i \in DOMAIN dispatches : i \in Nat /\ i < n
    BY <1>0, <1>1 DEF StartId
  <1>. HIDE DEF row
  <1>6. /\ TerminalOf(dispatches[n])' = t
        /\ \A i \in DOMAIN dispatches :
              TerminalOf(dispatches[i])' = TerminalOf(dispatches[i])
    BY <1>2, <1>3, <1>4 DEF TerminalOf
  <1>7. /\ \A i \in DOMAIN dispatches : \A u :
              Holds(dispatches, i, u)' <=> Holds(dispatches, i, u)
        /\ \A u : Holds(dispatches, n, u)' =>
              u = t /\ t # 0 /\ start.phase = "recording"
    BY <1>3, <1>4, <1>6 DEF Holds, Finished, TInv, Stamped
  <1>8. t # 0 => /\ start.phase = "recording" /\ t \in Terms
                 /\ terms[t] # "unopened" /\ Free(dispatches, t)
                 /\ \A i \in DispatchIds : stamps[i].session # t
    BY <1>1, Bounds DEF TInv, Ruled, Tied, Stamped, Terms
  <1>9. Tied(dispatches)'
    <2>1. \A i \in DOMAIN dispatches' :
            /\ dispatches'[i].runtime <= runtime'
            /\ TerminalOf(dispatches[i])' # 0 =>
                  terms'[TerminalOf(dispatches[i])'] # "unopened"
      BY <1>1, <1>2, <1>3, <1>4, <1>6, <1>8 DEF TInv, Ruled, Tied
    <2>2. ASSUME NEW u \in Terms, NEW i \in DOMAIN dispatches', NEW j \in DOMAIN dispatches',
                 Holds(dispatches, i, u)', Holds(dispatches, j, u)'
          PROVE  i = j
      <3>1. CASE i = n \/ j = n
        BY <1>3, <1>7, <1>8, <2>2, <3>1 DEF Free
      <3>2. CASE i # n /\ j # n
        BY <1>3, <1>7, <2>2, <3>2 DEF TInv, Ruled, Tied
      <3>. QED BY <3>1, <3>2
    <2>3. ASSUME NEW i \in DOMAIN dispatches', Awaits(dispatches, i)',
                 stamps[i].session # 0
          PROVE  \A j \in DOMAIN dispatches' :
                    ~Holds(dispatches, j, stamps[i].session)'
      <3>1. i \in DispatchIds
        <4>1. n \in DispatchIds /\ DOMAIN dispatches \subseteq DispatchIds
          BY <1>0, <1>1, <1>5, Bounds DEF IInv, TypeOK, StartHolds, DispatchIds, StartId
        <4>. QED BY <1>3, <4>1
      <3>2. Free(dispatches, stamps[i].session)
        <4>1. CASE i = n
          <5>1. start.phase = "recording"
            BY <1>3, <1>4, <2>3, <4>1 DEF Awaits, Finished
          <5>. QED BY <1>0, <2>3, <4>1, <5>1 DEF TInv, Ruled, Tied, Asked
        <4>2. CASE i # n
          <5>1. i \in DOMAIN dispatches /\ Awaits(dispatches, i)
            BY <1>2, <1>3, <2>3, <4>2 DEF Awaits, Finished
          <5>. QED BY <2>3, <5>1 DEF TInv, Ruled, Tied
        <4>. QED BY <4>1, <4>2
      <3>. QED BY <1>2, <1>3, <1>7, <1>8, <3>1, <3>2 DEF Free
    <2>. QED BY <1>2, <2>1, <2>2, <2>3 DEF Tied, Free
  <1>10. Stamped'
    BY <1>2 DEF TInv, Stamped
  <1>11. ASSUME resets' = 0
         PROVE  Briefed(dispatches)'
    <2>1. Briefed(dispatches)
      BY <1>2, <1>11 DEF TInv, Ruled
    <2>2. \A i \in DOMAIN dispatches' :
             ~dispatches'[i].handed /\ TerminalOf(dispatches[i])' # 0 =>
                startedFor'[TerminalOf(dispatches[i])'] = [dispatch |-> i, reset |-> 0]
      BY <1>0, <1>2, <1>3, <1>6, <1>8, <2>1 DEF Briefed
    <2>3. ASSUME NEW i \in DispatchIds, stamps[i].session # 0,
                 NEW j \in DOMAIN dispatches',
                 TerminalOf(dispatches[j])' = stamps[i].session
          PROVE  i \in DOMAIN dispatches' /\ TerminalOf(dispatches[i])' = stamps[i].session
      <3>1. j # n
        BY <1>6, <1>8, <2>3
      <3>. QED BY <1>3, <1>6, <2>1, <2>3, <3>1 DEF Briefed
    <2>4. ASSUME NEW i \in DispatchIds, stamps[i].phase # "none"
          PROVE  /\ i \in DOMAIN dispatches' /\ dispatches'[i].runtime = runtime
                 /\ dispatches'[i].terminal \in {0, stamps[i].session}
      BY <1>0, <1>3, <1>4, <2>1, <2>4 DEF Briefed
    <2>5. ASSUME NEW i \in DOMAIN dispatches', NEW j \in DOMAIN dispatches', NEW u \in Terms,
                 Holds(dispatches, i, u)', TerminalOf(dispatches[j])' = u
          PROVE  j <= i
      <3>1. CASE i = n
        BY <1>3, <1>5, <3>1
      <3>2. CASE i # n /\ j = n
        BY <1>3, <1>6, <1>7, <1>8, <2>5, <3>2, Bounds DEF Free, Terms
      <3>3. CASE i # n /\ j # n
        BY <1>3, <1>6, <1>7, <2>1, <2>5, <3>3 DEF Briefed
      <3>. QED BY <3>1, <3>2, <3>3
    <2>6. /\ \A i \in DispatchIds : stamps[i].session # 0 =>
                startedFor[stamps[i].session] = [dispatch |-> i, reset |-> 0]
          /\ \A m \in notices : m.reset = 0
      BY <2>1 DEF Briefed
    <2>. QED BY <1>2, <2>2, <2>3, <2>4, <2>5, <2>6 DEF Briefed
  <1>12. Released(dispatches)'
    <2>1. dispatches'[n].release # "done"
      BY <1>3, <1>4
    <2>2. \A i \in DOMAIN dispatches :
             Live(TerminalOf(dispatches[i]))' <=> Live(TerminalOf(dispatches[i]))
      BY <1>2, <1>6 DEF Live
    <2>. QED BY <1>3, <2>1, <2>2 DEF TInv, Ruled, Released, Finished, Late
  <1>13. NoReset => resets' = 0 /\ Told(dispatches)'
    BY <1>2, <1>3, <1>4, <1>7 DEF TInv, Ruled, Told
  <1>. QED BY <1>9, <1>10, <1>11, <1>12, <1>13, TSo

LEMMA StartIdIs ==
    ASSUME IInv, ~NoStart, start.phase # "failing"
    PROVE  StartId \in DispatchIds /\ StartId \notin DOMAIN dispatches
  BY Bounds DEF IInv, TypeOK, StartHolds, DispatchIds, StartId

\* Asking the window: the stamp is a new one, and the notice is for it.
LEMMA AskWindowKeepsT ==
    ASSUME IInv, TInv, AskWindow
    PROVE  TInv'
  <1>1. /\ start.phase = "placing" /\ start'.phase = "waiting" /\ start'.terminal = 0
        /\ start.terminal = 0
        /\ notices' = notices \cup {[dispatch |-> StartId, reset |-> resets]}
        /\ UNCHANGED <<dispatches, doneMail, terms, runtime, startedFor, resets>>
    BY DEF AskWindow, mail, history, TInv, Stamped, IInv, TypeOK, Start
  <1>2. StartId \in DispatchIds /\ StartId \notin DOMAIN dispatches /\ StartId' = StartId
    BY <1>1, StartIdIs DEF NoStart, StartId
  <1>3. /\ stamps'[StartId].phase = "waiting" /\ stamps'[StartId].session = 0
        /\ \A i \in DispatchIds : i # StartId => stamps'[i] = stamps[i]
    BY <1>1, <1>2 DEF AskWindow, IInv, TypeOK
  <1>4. DOMAIN dispatches \subseteq DispatchIds
    BY ReconciledRows DEF IInv
  <1>5. /\ \A i \in DOMAIN dispatches :
             TerminalOf(dispatches[i])' = TerminalOf(dispatches[i])
        /\ \A i \in DOMAIN dispatches : \A u :
             Holds(dispatches, i, u)' <=> Holds(dispatches, i, u)
    BY <1>1 DEF TerminalOf, Holds, Finished
  <1>6. Tied(dispatches)'
    BY <1>1, <1>2, <1>3, <1>4, <1>5 DEF TInv, Ruled, Tied, Free, Awaits, Finished
  <1>7. Stamped'
    BY <1>1, <1>2, <1>3 DEF TInv, Stamped
  <1>8. resets' = 0 => Briefed(dispatches)'
    <2>. SUFFICES ASSUME resets = 0 PROVE Briefed(dispatches)'
      BY <1>1
    <2>1. Briefed(dispatches)
      BY DEF TInv, Ruled
    <2>2. \A i \in DispatchIds : stamps'[i].phase # "none" =>
             \/ /\ i \in DOMAIN dispatches /\ dispatches[i].runtime = runtime
                /\ dispatches[i].terminal \in {0, stamps'[i].session}
             \/ Asked' /\ i = StartId /\ start'.terminal = 0
      BY <1>1, <1>3, <2>1 DEF Briefed, Asked
    <2>3. \A m \in notices' : m.reset = 0
      BY <1>1, <2>1 DEF Briefed
    <2>4. \A i \in DispatchIds : stamps'[i].session # 0 =>
             /\ startedFor[stamps'[i].session] = [dispatch |-> i, reset |-> 0]
             /\ \A j \in DOMAIN dispatches : TerminalOf(dispatches[j]) = stamps'[i].session =>
                   i \in DOMAIN dispatches /\ TerminalOf(dispatches[i]) = stamps'[i].session
      BY <1>3, <2>1 DEF Briefed
    <2>5. \A i \in DOMAIN dispatches :
             ~dispatches[i].handed /\ TerminalOf(dispatches[i]) # 0 =>
                startedFor[TerminalOf(dispatches[i])] = [dispatch |-> i, reset |-> 0]
      BY <2>1 DEF Briefed
    <2>6. \A i, j \in DOMAIN dispatches : \A t \in Terms :
             Holds(dispatches, i, t)' /\ TerminalOf(dispatches[j])' = t => j <= i
      BY <1>5, <2>1 DEF Briefed
    <2>. QED BY <1>1, <1>2, <1>5, <2>2, <2>3, <2>4, <2>5, <2>6 DEF Briefed
  <1>9. Released(dispatches)'
    BY <1>1, <1>5 DEF TInv, Ruled, Released, Finished, Late, Live
  <1>10. NoReset => resets' = 0 /\ Told(dispatches)'
    BY <1>1, <1>5 DEF TInv, Ruled, Told
  <1>. QED BY <1>6, <1>7, <1>8, <1>9, <1>10, TSo

\* The wait ends: the session of the stamp goes to the start, or stays with
\* the stamp for a late one.
LEMMA WaitEndsKeepsT ==
    ASSUME IInv, TInv, NEW found, NEW ready, WaitEnds(found, ready)
    PROVE  TInv'
  <1>1. /\ start.phase = "waiting" /\ start'.phase = "recording"
        /\ start'.terminal = found /\ start.terminal = 0
        /\ found \in {0, stamps[StartId].session}
        /\ found # 0 => terms[found] = "open"
        /\ UNCHANGED <<dispatches, doneMail, terms, runtime, startedFor, notices, resets>>
    BY DEF WaitEnds, mail, history, TInv, Stamped, IInv, TypeOK, Start, Live
  <1>2. StartId \in DispatchIds /\ StartId \notin DOMAIN dispatches /\ StartId' = StartId
    BY <1>1, StartIdIs DEF NoStart, StartId
  <1>3. /\ found = 0 => /\ stamps'[StartId].phase = "late"
                        /\ stamps'[StartId].session = stamps[StartId].session
        /\ found # 0 => /\ stamps'[StartId].phase = "none"
                        /\ stamps'[StartId].session = 0
        /\ \A i \in DispatchIds : i # StartId => stamps'[i] = stamps[i]
    <2>1. /\ stamps' = [stamps EXCEPT ![StartId] =
                          IF found # 0 THEN NoStamp ELSE [@ EXCEPT !.phase = "late"]]
          /\ stamps \in [DispatchIds -> Stamp]
      BY DEF WaitEnds, IInv, TypeOK
    <2>2. stamps[StartId] \in Stamp
      BY <1>2, <2>1
    <2>. QED BY <1>2, <2>1, <2>2 DEF NoStamp, Stamp
  <1>4. DOMAIN dispatches \subseteq DispatchIds
    BY ReconciledRows DEF IInv
  <1>5. /\ \A i \in DOMAIN dispatches :
             TerminalOf(dispatches[i])' = TerminalOf(dispatches[i])
        /\ \A i \in DOMAIN dispatches : \A u :
             Holds(dispatches, i, u)' <=> Holds(dispatches, i, u)
    BY <1>1 DEF TerminalOf, Holds, Finished
  <1>6. \A i \in DispatchIds : stamps'[i].session # 0 =>
             stamps[i].session = stamps'[i].session
    BY <1>1, <1>3
  <1>7. Tied(dispatches)'
    <2>1. Asked /\ Asked'
      BY <1>1 DEF Asked
    <2>2. stamps[StartId].session # 0 => Free(dispatches, stamps[StartId].session)
      BY <2>1 DEF TInv, Ruled, Tied
    <2>3. /\ stamps'[StartId].session # 0 =>
               \A j \in DOMAIN dispatches :
                  ~Holds(dispatches, j, stamps'[StartId].session)
          /\ found # 0 => \A j \in DOMAIN dispatches : ~Holds(dispatches, j, found)
      BY <1>1, <1>2, <1>6, <2>2 DEF Free
    <2>4. /\ stamps'[StartId].session # 0 =>
               \A j \in DOMAIN dispatches' :
                  ~Holds(dispatches, j, stamps[StartId].session)'
          /\ start'.terminal # 0 =>
               \A j \in DOMAIN dispatches' : ~Holds(dispatches, j, start.terminal)'
      BY <1>1, <1>2, <2>3 DEF Holds, TerminalOf, Finished
    <2>5. \A i \in DOMAIN dispatches : Awaits(dispatches, i)' /\ stamps'[i].session # 0 =>
             \A j \in DOMAIN dispatches' : ~Holds(dispatches, j, stamps[i].session)'
      <3>1. \A i \in DOMAIN dispatches : stamps'[i] = stamps[i]
        BY <1>2, <1>3, <1>4
      <3>2. \A i \in DOMAIN dispatches : Awaits(dispatches, i)' <=> Awaits(dispatches, i)
        BY <1>1 DEF Awaits, Finished
      <3>3. \A i \in DOMAIN dispatches : Awaits(dispatches, i) /\ stamps[i].session # 0 =>
              \A j \in DOMAIN dispatches : ~Holds(dispatches, j, stamps[i].session)
        BY DEF TInv, Ruled, Tied, Free
      <3>. QED BY <1>1, <3>1, <3>2, <3>3 DEF Holds, TerminalOf, Finished
    <2>6. /\ \A i \in DOMAIN dispatches' :
               /\ dispatches'[i].runtime <= runtime'
               /\ TerminalOf(dispatches[i])' # 0 =>
                     terms'[TerminalOf(dispatches[i])'] # "unopened"
          /\ \A t \in Terms : \A i, j \in DOMAIN dispatches' :
               Holds(dispatches, i, t)' /\ Holds(dispatches, j, t)' => i = j
      BY <1>1, <1>5 DEF TInv, Ruled, Tied
    <2>. QED BY <1>1, <1>2, <2>4, <2>5, <2>6 DEF Tied, Free
  <1>8. Stamped'
    <2>1. \A i \in DispatchIds : stamps'[i].session # 0 =>
            terms'[stamps'[i].session] # "unopened" /\ stamps'[i].phase # "none"
      BY <1>1, <1>2, <1>3, <1>6 DEF TInv, Stamped
    <2>2. \A i, j \in DispatchIds :
            stamps'[i].session # 0 /\ stamps'[i].session = stamps'[j].session => i = j
      BY <1>6 DEF TInv, Stamped
    <2>3. \A i \in DispatchIds : stamps'[i].phase # "waiting"
      BY <1>3 DEF TInv, Stamped
    <2>4. found # 0 => \A i \in DispatchIds : stamps'[i].session # found
      BY <1>1, <1>2, <1>3 DEF TInv, Stamped
    <2>. QED BY <1>1, <2>1, <2>2, <2>3, <2>4 DEF Stamped
  <1>9. ASSUME resets = 0
        PROVE  Briefed(dispatches)'
    <2>1. Briefed(dispatches)
      BY <1>9 DEF TInv, Ruled
    <2>2. \A i \in DispatchIds : stamps'[i].phase # "none" =>
             \/ /\ i \in DOMAIN dispatches /\ dispatches[i].runtime = runtime
                /\ dispatches[i].terminal \in {0, stamps'[i].session}
             \/ Asked' /\ i = StartId /\ start'.terminal = 0
      BY <1>1, <1>3, <2>1 DEF Briefed, Asked
    <2>3. \A i \in DispatchIds : stamps'[i].session # 0 =>
             /\ startedFor[stamps'[i].session] = [dispatch |-> i, reset |-> 0]
             /\ \A j \in DOMAIN dispatches : TerminalOf(dispatches[j]) = stamps'[i].session =>
                   i \in DOMAIN dispatches /\ TerminalOf(dispatches[i]) = stamps'[i].session
      BY <1>6, <2>1 DEF Briefed
    <2>4. found # 0 =>
             /\ startedFor[found] = [dispatch |-> StartId, reset |-> 0]
             /\ \A j \in DOMAIN dispatches : TerminalOf(dispatches[j]) # found
      BY <1>1, <1>2, <2>1 DEF Briefed
    <2>5. \A i \in DOMAIN dispatches :
             ~dispatches[i].handed /\ TerminalOf(dispatches[i]) # 0 =>
                startedFor[TerminalOf(dispatches[i])] = [dispatch |-> i, reset |-> 0]
      BY <2>1 DEF Briefed
    <2>6. /\ \A i, j \in DOMAIN dispatches : \A t \in Terms :
               Holds(dispatches, i, t)' /\ TerminalOf(dispatches[j])' = t => j <= i
          /\ \A m \in notices : m.reset = 0
      BY <1>5, <2>1 DEF Briefed
    <2>. QED BY <1>1, <1>2, <1>5, <2>2, <2>3, <2>4, <2>5, <2>6 DEF Briefed
  <1>10. Released(dispatches)'
    BY <1>1, <1>5 DEF TInv, Ruled, Released, Finished, Late, Live
  <1>11. NoReset => resets' = 0 /\ Told(dispatches)'
    BY <1>1, <1>5 DEF TInv, Ruled, Told
  <1>. QED BY <1>1, <1>7, <1>8, <1>9, <1>10, <1>11, TSo

LEMMA StartStepKeepsT ==
    ASSUME IInv, TInv, StartStep
    PROVE  TInv'
  <1>1. CASE PlacementFails
    <2>1. /\ ~Asked /\ start'.phase = "idle" /\ start'.terminal = 0
          /\ UNCHANGED <<dispatches, doneMail, terms, runtime, startedFor, notices,
                         stamps, resets>>
      BY <1>1 DEF PlacementFails, Asked, Idle, mail
    <2>. QED BY <2>1, StartDroppedKeepsT
  <1>2. CASE SetupFails
    <2>1. /\ start.phase = "placing" /\ start'.phase = "failing"
          /\ start.terminal = 0 /\ start'.terminal = 0 /\ PushRow("failed", 0)
          /\ "failed" \in RowStates /\ "failed" \in FINISHED
      BY <1>2 DEF SetupFails, TInv, Stamped, IInv, TypeOK, Start, RowStates, FINISHED
    <2>. QED BY <2>1, PushKeepsT
  <1>3. CASE FailTask
    <2>1. /\ ~Asked /\ start'.phase = "idle" /\ start'.terminal = 0
          /\ UNCHANGED <<dispatches, doneMail, terms, runtime, startedFor, notices,
                         stamps, resets>>
      BY <1>3 DEF FailTask, Asked, Idle, mail, history
    <2>. QED BY <2>1, StartDroppedKeepsT
  <1>4. CASE AskWindow
    BY <1>4, AskWindowKeepsT
  <1>5. ASSUME NEW found, NEW ready, WaitEnds(found, ready)
        PROVE  TInv'
    BY <1>5, WaitEndsKeepsT
  <1>6. CASE RecordStart
    <2>. DEFINE st == IF start.ready THEN "ready" ELSE "unknown"
    <2>1. /\ start.phase = "recording" /\ start'.phase = "idle"
          /\ start'.terminal = 0 /\ PushRow(st, start.terminal)
      BY <1>6 DEF RecordStart, Idle
    <2>2. st \in RowStates
      BY DEF RowStates
    <2>. HIDE DEF st
    <2>. QED BY <2>1, <2>2, PushKeepsT
  <1>. QED BY <1>1, <1>2, <1>3, <1>4, <1>5, <1>6 DEF StartStep

\* Terminals that open and end leave whose they are as it was.
LEMMA TerminalsKeepT ==
    ASSUME TypeOK, TInv, DOMAIN dispatches' = DOMAIN dispatches,
           \A i \in DOMAIN dispatches :
              LET d == dispatches[i]
                  e == dispatches'[i]
              IN /\ e.runtime = d.runtime /\ e.terminal = d.terminal
                 /\ e.handed = d.handed /\ e.status = d.status
                 /\ e.release = d.release /\ e.leftOpen = d.leftOpen
                 /\ e.late = d.late,
           \A u \in Terms :
              /\ terms'[u] = "unopened" => terms[u] = "unopened"
              /\ terms'[u] = "open" => terms[u] \in {"open", "unopened"},
           UNCHANGED <<runtime, startedFor, notices, stamps, start, resets>>,
           StartId' = StartId,
           NoReset => Told(dispatches)'
    PROVE  TInv'
  <1>1. \A i \in DOMAIN dispatches :
          /\ TerminalOf(dispatches[i])' = TerminalOf(dispatches[i])
          /\ Finished(dispatches[i])' <=> Finished(dispatches[i])
    BY DEF TerminalOf, Finished
  <1>2. \A i \in DOMAIN dispatches : \A u :
          Holds(dispatches, i, u)' <=> Holds(dispatches, i, u)
    BY <1>1 DEF Holds
  <1>3. \A i \in DOMAIN dispatches :
          /\ Awaits(dispatches, i)' <=> Awaits(dispatches, i)
          /\ TerminalOf(dispatches[i]) # 0 => TerminalOf(dispatches[i]) \in Terms
    <2>1. \A i \in DOMAIN dispatches : dispatches[i] \in Row
      BY DEF TypeOK
    <2>. QED BY <1>1, <2>1, TerminalIs DEF Awaits
  <1>4. Asked' <=> Asked
    BY DEF Asked
  <1>5. \A u : (\A j \in DOMAIN dispatches : ~Holds(dispatches, j, u))
                 => \A j \in DOMAIN dispatches' : ~Holds(dispatches, j, u)'
    BY <1>2
  <1>6. /\ \A i \in DispatchIds : stamps[i].session # 0 => stamps[i].session \in Terms
        /\ start.terminal # 0 => start.terminal \in Terms
    BY Bounds DEF TypeOK, Stamp, Start, Terms
  <1>7. Tied(dispatches)'
    <2>1. /\ \A i \in DOMAIN dispatches' :
               /\ dispatches'[i].runtime <= runtime'
               /\ TerminalOf(dispatches[i])' # 0 =>
                     terms'[TerminalOf(dispatches[i])'] # "unopened"
          /\ \A t \in Terms : \A i, j \in DOMAIN dispatches' :
               Holds(dispatches, i, t)' /\ Holds(dispatches, j, t)' => i = j
      BY <1>1, <1>2, <1>3 DEF TInv, Ruled, Tied
    <2>2. \A i \in DOMAIN dispatches : Awaits(dispatches, i)' /\ stamps[i].session # 0 =>
             \A j \in DOMAIN dispatches' : ~Holds(dispatches, j, stamps[i].session)'
      BY <1>2, <1>3 DEF TInv, Ruled, Tied, Free
    <2>3. Asked' /\ stamps[StartId].session # 0 =>
             \A j \in DOMAIN dispatches' : ~Holds(dispatches, j, stamps[StartId].session)'
      <3>1. Asked /\ stamps[StartId].session # 0 =>
              \A j \in DOMAIN dispatches : ~Holds(dispatches, j, stamps[StartId].session)
        BY DEF TInv, Ruled, Tied, Free
      <3>. QED BY <1>1, <1>4, <3>1 DEF Holds
    <2>4. start.phase = "recording" /\ start.terminal # 0 =>
             \A j \in DOMAIN dispatches' : ~Holds(dispatches, j, start.terminal)'
      BY <1>2 DEF TInv, Ruled, Tied, Free
    <2>. QED BY <2>1, <2>2, <2>3, <2>4 DEF Tied, Free
  <1>8. Stamped'
    BY <1>6 DEF TInv, Stamped
  <1>9. ASSUME resets = 0
        PROVE  Briefed(dispatches)'
    <2>1. Briefed(dispatches)
      BY <1>9 DEF TInv, Ruled
    <2>. QED BY <1>1, <1>2, <1>4, <2>1 DEF Briefed
  <1>10. Released(dispatches)'
    <2>1. \A i \in DOMAIN dispatches :
             Live(TerminalOf(dispatches[i]))' => Live(TerminalOf(dispatches[i]))
      BY <1>1, <1>3 DEF TInv, Ruled, Tied, Live
    <2>. QED BY <1>1, <2>1 DEF TInv, Ruled, Released, Late
  <1>. QED BY <1>7, <1>8, <1>9, <1>10, TSo DEF TInv, Ruled

\* A terminal that opens is new to every row and every stamp; the window gives
\* it to the stamp of its own notice.
LEMMA WindowStartsKeepsT ==
    ASSUME IInv, TInv, NEW t \in Terms, NEW m \in notices, WindowStarts(m, t)
    PROVE  TInv'
  <1>1. /\ terms[t] = "unopened" /\ terms'[t] = "open" /\ startedFor'[t] = m
        /\ \A u \in Terms : u # t => terms'[u] = terms[u] /\ startedFor'[u] = startedFor[u]
        /\ notices' \subseteq notices
        /\ UNCHANGED <<dispatches, doneMail, runtime, start, resets>>
        /\ t # 0 /\ m \in Notice /\ StartId' = StartId
    BY Bounds DEF WindowStarts, NextHandle, IInv, TypeOK, stored, history, Terms, StartId
  <1>2. \A i \in DispatchIds :
          /\ stamps'[i].phase = stamps[i].phase
          /\ \/ stamps'[i].session = stamps[i].session
             \/ /\ i = m.dispatch /\ stamps[i].phase # "none"
                /\ stamps[i].session = 0 /\ stamps'[i].session = t
    <2>1. stamps \in [DispatchIds -> Stamp]
      BY DEF IInv, TypeOK
    <2>2. stamps' = [stamps EXCEPT ![m.dispatch] =
                       IF @.phase # "none" /\ @.session = 0
                       THEN [@ EXCEPT !.session = t] ELSE @]
      BY DEF WindowStarts
    <2>3. \A s \in Stamp : /\ [s EXCEPT !.session = t].phase = s.phase
                           /\ [s EXCEPT !.session = t].session = t
      BY DEF Stamp
    <2>. SUFFICES ASSUME NEW i \in DispatchIds
                  PROVE  /\ stamps'[i].phase = stamps[i].phase
                         /\ \/ stamps'[i].session = stamps[i].session
                            \/ /\ i = m.dispatch /\ stamps[i].phase # "none"
                               /\ stamps[i].session = 0 /\ stamps'[i].session = t
      OBVIOUS
    <2>4. stamps[i] \in Stamp
      BY <2>1
    <2>5. stamps'[i] = IF /\ i = m.dispatch /\ stamps[i].phase # "none"
                          /\ stamps[i].session = 0
                       THEN [stamps[i] EXCEPT !.session = t] ELSE stamps[i]
      BY <2>1, <2>2
    <2>. QED BY <2>3, <2>4, <2>5
  <1>3. /\ \A i \in DOMAIN dispatches : TerminalOf(dispatches[i]) # t
        /\ \A i \in DispatchIds : stamps[i].session # t
        /\ start.terminal # t
    BY <1>1 DEF TInv, Ruled, Tied, Stamped
  <1>4. /\ \A i \in DOMAIN dispatches :
             /\ TerminalOf(dispatches[i])' = TerminalOf(dispatches[i])
             /\ TerminalOf(dispatches[i]) # 0 => TerminalOf(dispatches[i]) \in Terms
             /\ Finished(dispatches[i])' <=> Finished(dispatches[i])
        /\ \A i \in DOMAIN dispatches : \A u :
             Holds(dispatches, i, u)' <=> Holds(dispatches, i, u)
    <2>1. \A i \in DOMAIN dispatches : dispatches[i] \in Row
      BY DEF IInv, TypeOK
    <2>. QED BY <1>1, <2>1, TerminalIs DEF TerminalOf, Holds, Finished
  <1>5. DOMAIN dispatches \subseteq DispatchIds
    BY ReconciledRows DEF IInv
  <1>6. Free(dispatches, t)
    BY <1>3 DEF Free, Holds
  <1>7. /\ \A i \in DispatchIds : stamps[i].session # 0 => stamps[i].session \in Terms
        /\ start.terminal # 0 => start.terminal \in Terms
    BY Bounds DEF IInv, TypeOK, Stamp, Start, Terms
  <1>8. Asked' <=> Asked
    BY <1>1 DEF Asked
  <1>9. Tied(dispatches)'
    <2>1. /\ \A i \in DOMAIN dispatches' :
               /\ dispatches'[i].runtime <= runtime'
               /\ TerminalOf(dispatches[i])' # 0 =>
                     terms'[TerminalOf(dispatches[i])'] # "unopened"
          /\ \A u \in Terms : \A i, j \in DOMAIN dispatches' :
               Holds(dispatches, i, u)' /\ Holds(dispatches, j, u)' => i = j
      BY <1>1, <1>3, <1>4 DEF TInv, Ruled, Tied
    <2>2. ASSUME NEW i \in DispatchIds, stamps'[i].session # 0,
                 stamps[i].session # 0 => Free(dispatches, stamps[i].session)
          PROVE  \A j \in DOMAIN dispatches' : ~Holds(dispatches, j, stamps[i].session)'
      <3>1. \A j \in DOMAIN dispatches : ~Holds(dispatches, j, stamps'[i].session)
        BY <1>2, <1>6, <2>2 DEF Free
      <3>. QED BY <1>1, <3>1 DEF Holds, TerminalOf, Finished
    <2>3. \A i \in DOMAIN dispatches' : Awaits(dispatches, i)' /\ stamps'[i].session # 0 =>
             \A j \in DOMAIN dispatches' : ~Holds(dispatches, j, stamps[i].session)'
      <3>1. \A i \in DOMAIN dispatches : Awaits(dispatches, i)' <=> Awaits(dispatches, i)
        BY <1>1 DEF Awaits, Finished
      <3>. QED BY <1>1, <1>5, <2>2, <3>1 DEF TInv, Ruled, Tied
    <2>4. Asked' /\ stamps'[StartId].session # 0 =>
             \A j \in DOMAIN dispatches' : ~Holds(dispatches, j, stamps[StartId].session)'
      <3>1. Asked => StartId \in DispatchIds
        BY StartIdIs DEF Asked, NoStart
      <3>2. PICK n : n = StartId
        OBVIOUS
      <3>3. Asked' /\ stamps'[n].session # 0 =>
               \A j \in DOMAIN dispatches' : ~Holds(dispatches, j, stamps[n].session)'
        BY <1>8, <2>2, <3>1, <3>2 DEF TInv, Ruled, Tied
      <3>4. n = StartId'
        BY <1>1, <3>2
      <3>. QED BY <1>1, <3>2, <3>3, <3>4 DEF Holds, TerminalOf, Finished
    <2>5. start.phase = "recording" /\ start.terminal # 0 =>
             \A j \in DOMAIN dispatches' : ~Holds(dispatches, j, start.terminal)'
      BY <1>1, <1>4 DEF TInv, Ruled, Tied, Free
    <2>. QED BY <1>1, <2>1, <2>3, <2>4, <2>5 DEF Tied, Free
  <1>10. Stamped'
    <2>1. \A i \in DispatchIds : stamps'[i].session # 0 =>
            terms'[stamps'[i].session] # "unopened" /\ stamps'[i].phase # "none"
      BY <1>1, <1>2, <1>3, <1>7 DEF TInv, Stamped
    <2>2. \A i, j \in DispatchIds :
            stamps'[i].session # 0 /\ stamps'[i].session = stamps'[j].session => i = j
      BY <1>2, <1>3 DEF TInv, Stamped
    <2>3. \A i \in DispatchIds : stamps'[i].phase = "waiting" =>
            start.phase = "waiting" /\ i = StartId
      BY <1>2 DEF TInv, Stamped
    <2>4. start.terminal # 0 =>
            /\ start.phase = "recording" /\ terms'[start.terminal] # "unopened"
            /\ \A i \in DispatchIds : stamps'[i].session # start.terminal
      BY <1>1, <1>2, <1>3, <1>7 DEF TInv, Stamped
    <2>. QED BY <1>1, <2>1, <2>2, <2>3, <2>4 DEF Stamped
  <1>11. ASSUME resets = 0
         PROVE  Briefed(dispatches)'
    <2>1. Briefed(dispatches) /\ m.reset = 0
      BY <1>11 DEF TInv, Ruled, Briefed
    <2>2. \A i \in DispatchIds : stamps'[i].session # 0 =>
             /\ startedFor'[stamps'[i].session] = [dispatch |-> i, reset |-> 0]
             /\ \A j \in DOMAIN dispatches : TerminalOf(dispatches[j]) = stamps'[i].session =>
                   i \in DOMAIN dispatches /\ TerminalOf(dispatches[i]) = stamps'[i].session
      <3>. SUFFICES ASSUME NEW i \in DispatchIds, stamps'[i].session # 0
                    PROVE  /\ startedFor'[stamps'[i].session] = [dispatch |-> i, reset |-> 0]
                           /\ \A j \in DOMAIN dispatches :
                                 TerminalOf(dispatches[j]) = stamps'[i].session =>
                                    /\ i \in DOMAIN dispatches
                                    /\ TerminalOf(dispatches[i]) = stamps'[i].session
        OBVIOUS
      <3>1. CASE stamps'[i].session = stamps[i].session
        BY <1>1, <1>3, <1>7, <2>1, <3>1 DEF Briefed
      <3>2. CASE i = m.dispatch /\ stamps'[i].session = t
        <4>1. m = [dispatch |-> i, reset |-> 0]
          BY <1>1, <2>1, <3>2 DEF Notice
        <4>. QED BY <1>1, <1>3, <3>2, <4>1
      <3>. QED BY <1>2, <3>1, <3>2
    <2>3. \A i \in DispatchIds : stamps'[i].phase # "none" =>
             \/ /\ i \in DOMAIN dispatches /\ dispatches[i].runtime = runtime
                /\ dispatches[i].terminal \in {0, stamps'[i].session}
             \/ Asked' /\ i = StartId /\ start.terminal = 0
      BY <1>2, <1>8, <2>1 DEF Briefed
    <2>4. /\ \A i \in DOMAIN dispatches :
               ~dispatches[i].handed /\ TerminalOf(dispatches[i]) # 0 =>
                  startedFor'[TerminalOf(dispatches[i])] = [dispatch |-> i, reset |-> 0]
          /\ \A i, j \in DOMAIN dispatches : \A u \in Terms :
               Holds(dispatches, i, u)' /\ TerminalOf(dispatches[j])' = u => j <= i
          /\ \A x \in notices' : x.reset = 0
      BY <1>1, <1>3, <1>4, <2>1 DEF Briefed
    <2>5. start.phase = "recording" /\ start.terminal # 0 =>
             /\ startedFor'[start.terminal] = [dispatch |-> StartId, reset |-> 0]
             /\ \A j \in DOMAIN dispatches : TerminalOf(dispatches[j]) # start.terminal
      BY <1>1, <1>3, <1>7, <2>1 DEF Briefed
    <2>. QED BY <1>1, <1>4, <2>2, <2>3, <2>4, <2>5 DEF Briefed
  <1>12. Released(dispatches)'
    <2>1. \A i \in DOMAIN dispatches :
             Live(TerminalOf(dispatches[i]))' => Live(TerminalOf(dispatches[i]))
      BY <1>1, <1>3, <1>4 DEF Live
    <2>. QED BY <1>1, <1>4, <2>1 DEF TInv, Ruled, Released, Late
  <1>13. NoReset => resets' = 0 /\ Told(dispatches)'
    BY <1>1, <1>4 DEF TInv, Ruled, Told
  <1>. QED BY <1>1, <1>9, <1>10, <1>11, <1>12, <1>13, TSo

\* The exit handler tells the death of the newest row of the terminal, and
\* that is the one that works there.
LEMMA TerminalStepKeepsT ==
    ASSUME IInv, TInv, TerminalStep
    PROVE  TInv'
  <1>1. PICK t \in Terms :
          \/ OpenTerminal(t)
          \/ \E m \in notices : WindowStarts(m, t)
          \/ TerminalExits(t)
          \/ CloseTerminal(t)
          \/ ExitHandled(t)
    BY DEF TerminalStep
  <1>2. TypeOK /\ terms \in [Terms -> {"unopened", "open", "exiting", "ended", "closed"}]
    BY DEF IInv, TypeOK
  <1>3. CASE OpenTerminal(t) \/ TerminalExits(t) \/ CloseTerminal(t)
    <2>1. /\ UNCHANGED <<dispatches, doneMail, runtime, startedFor, notices,
                         stamps, start, resets>>
          /\ StartId' = StartId
          /\ \A u \in Terms :
                /\ terms'[u] = "unopened" => terms[u] = "unopened"
                /\ terms'[u] = "open" => terms[u] \in {"open", "unopened"}
                /\ terms'[u] = "ended" => terms[u] = "ended"
      <3>1. /\ UNCHANGED <<stored, process, history>>
            /\ \/ terms' = [terms EXCEPT ![t] = "open"] /\ terms[t] = "unopened"
               \/ terms' = [terms EXCEPT ![t] = "exiting"] /\ terms[t] = "open"
               \/ terms' = [terms EXCEPT ![t] = "closed"] /\ terms[t] = "open"
        BY <1>3, Bounds DEF OpenTerminal, TerminalExits, CloseTerminal, NextHandle, Terms
      <3>2. \A u \in Terms :
                /\ terms'[u] = "unopened" => terms[u] = "unopened"
                /\ terms'[u] = "open" => terms[u] \in {"open", "unopened"}
                /\ terms'[u] = "ended" => terms[u] = "ended"
        BY <1>2, <3>1
      <3>. QED BY <3>1, <3>2 DEF stored, process, history, StartId
    <2>2. NoReset => Told(dispatches)'
      BY <2>1 DEF TInv, Ruled, Told, Holds, TerminalOf, Finished
    <2>. QED BY <1>2, <2>1, <2>2, TerminalsKeepT
  <1>4. ASSUME NEW m \in notices, WindowStarts(m, t)
        PROVE  TInv'
    BY <1>4, WindowStartsKeepsT
  <1>5. CASE ExitHandled(t)
    <2>1. /\ DOMAIN dispatches' = DOMAIN dispatches
          /\ Len(dispatches') = Len(dispatches)
          /\ \A i \in DOMAIN dispatches :
                LET d == dispatches[i]
                    e == dispatches'[i]
                IN /\ e.runtime = d.runtime /\ e.terminal = d.terminal
                   /\ e.handed = d.handed /\ e.status = d.status
                   /\ e.release = d.release /\ e.leftOpen = d.leftOpen
                   /\ e.late = d.late
                   /\ \/ e = d /\ ~Dies(dispatches, i, t)
                      \/ e.exited /\ Dies(dispatches, i, t)
      BY <1>2, <1>5, ExitedRow
    <2>2. /\ UNCHANGED <<doneMail, runtime, startedFor, notices, stamps, start, resets>>
          /\ terms[t] = "exiting" /\ terms' = [terms EXCEPT ![t] = "ended"]
          /\ StartId' = StartId
      BY <1>5, <2>1 DEF ExitHandled, mail, process, history, StartId
    <2>3. \A u \in Terms :
            /\ terms'[u] = "unopened" => terms[u] = "unopened"
            /\ terms'[u] = "open" => terms[u] \in {"open", "unopened"}
            /\ terms'[u] = "ended" => terms[u] = "ended" \/ u = t
      BY <1>2, <2>2
    <2>4. ASSUME NoReset, NEW i \in DOMAIN dispatches, NEW u \in Terms,
                 Holds(dispatches, i, u)', terms'[u] = "ended",
                 dispatches'[i].handed \/ dispatches'[i].late # "none",
                 i \notin doneMail
          PROVE  dispatches'[i].exited
      <3>1. Holds(dispatches, i, u)
        BY <2>1, <2>2, <2>4 DEF Holds, TerminalOf, Finished
      <3>2. CASE terms[u] = "ended"
        <4>1. dispatches[i].exited
          BY <2>1, <2>4, <3>1, <3>2 DEF TInv, Ruled, Told
        <4>. QED BY <2>1, <4>1
      <3>3. CASE u = t
        <4>1. Briefed(dispatches) /\ t # 0
          BY <2>4, Bounds DEF TInv, Ruled, Terms
        <4>2. \A j \in DOMAIN dispatches :
                dispatches[j].terminal = t /\ dispatches[j].runtime = runtime => j <= i
          BY <3>1, <3>3, <4>1 DEF Briefed, TerminalOf
        <4>3. Dies(dispatches, i, t)
          BY <2>4, <3>1, <3>3, <4>1, <4>2 DEF Dies, Holds, TerminalOf
        <4>. QED BY <2>1, <4>3
      <3>. QED BY <2>3, <2>4, <3>2, <3>3
    <2>5. NoReset => Told(dispatches)'
      BY <2>1, <2>2, <2>4 DEF Told
    <2>. QED BY <1>2, <2>1, <2>2, <2>3, <2>5, TerminalsKeepT
  <1>. QED BY <1>1, <1>3, <1>4, <1>5

\* A stamp that expires is waited for no more.
LEMMA StampExpiresKeepsT ==
    ASSUME IInv, TInv, NEW x \in DispatchIds, StampExpires(x)
    PROVE  TInv'
  <1>1. /\ UNCHANGED <<dispatches, doneMail, terms, runtime, startedFor, notices,
                       start, resets>>
        /\ StartId' = StartId
        /\ stamps' = [stamps EXCEPT ![x] = NoStamp]
        /\ stamps \in [DispatchIds -> Stamp]
    BY DEF StampExpires, stored, history, StartId, IInv, TypeOK
  <1>2. \A i \in DispatchIds :
          \/ stamps'[i] = stamps[i]
          \/ stamps'[i].session = 0 /\ stamps'[i].phase = "none"
    BY <1>1 DEF NoStamp
  <1>3. /\ \A i \in DOMAIN dispatches :
             TerminalOf(dispatches[i])' = TerminalOf(dispatches[i])
        /\ \A i \in DOMAIN dispatches : \A u :
             Holds(dispatches, i, u)' <=> Holds(dispatches, i, u)
        /\ \A i \in DOMAIN dispatches :
             Awaits(dispatches, i)' <=> Awaits(dispatches, i)
        /\ Asked' <=> Asked
    BY <1>1 DEF TerminalOf, Holds, Awaits, Finished, Asked
  <1>4. DOMAIN dispatches \subseteq DispatchIds
    BY ReconciledRows DEF IInv
  <1>5. Asked => StartId \in DispatchIds
    BY StartIdIs DEF Asked, NoStart
  <1>6. Tied(dispatches)'
    <2>1. /\ \A i \in DOMAIN dispatches' :
               /\ dispatches'[i].runtime <= runtime'
               /\ TerminalOf(dispatches[i])' # 0 =>
                     terms'[TerminalOf(dispatches[i])'] # "unopened"
          /\ \A u \in Terms : \A i, j \in DOMAIN dispatches' :
               Holds(dispatches, i, u)' /\ Holds(dispatches, j, u)' => i = j
      BY <1>1, <1>3 DEF TInv, Ruled, Tied
    <2>2. \A i \in DOMAIN dispatches' : Awaits(dispatches, i)' /\ stamps'[i].session # 0 =>
             \A j \in DOMAIN dispatches' : ~Holds(dispatches, j, stamps[i].session)'
      <3>1. \A i \in DOMAIN dispatches : Awaits(dispatches, i) /\ stamps'[i].session # 0 =>
               \A j \in DOMAIN dispatches : ~Holds(dispatches, j, stamps'[i].session)
        BY <1>2, <1>4 DEF TInv, Ruled, Tied, Free
      <3>. QED BY <1>1, <1>3, <3>1 DEF Holds, TerminalOf, Finished
    <2>3. Asked' /\ stamps'[StartId].session # 0 =>
             \A j \in DOMAIN dispatches' : ~Holds(dispatches, j, stamps[StartId].session)'
      <3>1. Asked /\ stamps'[StartId].session # 0 =>
               \A j \in DOMAIN dispatches : ~Holds(dispatches, j, stamps'[StartId].session)
        BY <1>2, <1>5 DEF TInv, Ruled, Tied, Free
      <3>. QED BY <1>1, <1>3, <3>1 DEF Holds, TerminalOf, Finished
    <2>4. start.phase = "recording" /\ start.terminal # 0 =>
             \A j \in DOMAIN dispatches' : ~Holds(dispatches, j, start.terminal)'
      BY <1>1, <1>3 DEF TInv, Ruled, Tied, Free
    <2>. QED BY <1>1, <2>1, <2>2, <2>3, <2>4 DEF Tied, Free
  <1>7. Stamped'
    <2>1. \A i \in DispatchIds : stamps'[i].session # 0 =>
            terms[stamps'[i].session] # "unopened" /\ stamps'[i].phase # "none"
      BY <1>2 DEF TInv, Stamped
    <2>2. \A i, j \in DispatchIds :
            stamps'[i].session # 0 /\ stamps'[i].session = stamps'[j].session => i = j
      BY <1>2 DEF TInv, Stamped
    <2>3. \A i \in DispatchIds : stamps'[i].phase = "waiting" =>
            start.phase = "waiting" /\ i = StartId
      BY <1>2 DEF TInv, Stamped
    <2>4. start.terminal # 0 =>
            /\ start.phase = "recording" /\ terms[start.terminal] # "unopened"
            /\ \A i \in DispatchIds : stamps'[i].session # start.terminal
      BY <1>2 DEF TInv, Stamped
    <2>. QED BY <1>1, <2>1, <2>2, <2>3, <2>4 DEF Stamped
  <1>8. ASSUME resets = 0
        PROVE  Briefed(dispatches)'
    <2>1. Briefed(dispatches)
      BY <1>8 DEF TInv, Ruled
    <2>2. \A i \in DispatchIds : stamps'[i].session # 0 =>
             /\ startedFor[stamps'[i].session] = [dispatch |-> i, reset |-> 0]
             /\ \A j \in DOMAIN dispatches : TerminalOf(dispatches[j]) = stamps'[i].session =>
                   i \in DOMAIN dispatches /\ TerminalOf(dispatches[i]) = stamps'[i].session
      BY <1>2, <2>1 DEF Briefed
    <2>3. \A i \in DispatchIds : stamps'[i].phase # "none" =>
             \/ /\ i \in DOMAIN dispatches /\ dispatches[i].runtime = runtime
                /\ dispatches[i].terminal \in {0, stamps'[i].session}
             \/ Asked' /\ i = StartId /\ start.terminal = 0
      BY <1>2, <1>3, <2>1 DEF Briefed
    <2>4. /\ \A i \in DOMAIN dispatches :
               ~dispatches[i].handed /\ TerminalOf(dispatches[i]) # 0 =>
                  startedFor[TerminalOf(dispatches[i])] = [dispatch |-> i, reset |-> 0]
          /\ \A i, j \in DOMAIN dispatches : \A u \in Terms :
               Holds(dispatches, i, u)' /\ TerminalOf(dispatches[j])' = u => j <= i
          /\ \A m \in notices : m.reset = 0
          /\ start.phase = "recording" /\ start.terminal # 0 =>
                /\ startedFor[start.terminal] = [dispatch |-> StartId, reset |-> 0]
                /\ \A j \in DOMAIN dispatches : TerminalOf(dispatches[j]) # start.terminal
      BY <1>3, <2>1 DEF Briefed
    <2>. QED BY <1>1, <1>3, <2>2, <2>3, <2>4 DEF Briefed
  <1>9. Released(dispatches)'
    BY <1>1, <1>3 DEF TInv, Ruled, Released, Finished, Late, Live
  <1>10. NoReset => resets' = 0 /\ Told(dispatches)'
    BY <1>1, <1>3 DEF TInv, Ruled, Told
  <1>. QED BY <1>1, <1>6, <1>7, <1>8, <1>9, <1>10, TSo

LEMMA TNext == IInv /\ TInv /\ [Next]_vars => TInv'
  <1>. SUFFICES ASSUME IInv, TInv, [Next]_vars PROVE TInv'
    OBVIOUS
  <1>1. CASE UNCHANGED vars
    <2>1. UNCHANGED <<dispatches, doneMail, terms, runtime, startedFor, notices,
                      stamps, start, resets>>
      BY <1>1 DEF vars
    <2>2. StartId' = StartId /\ TypeOK
      BY <2>1 DEF StartId, IInv
    <2>3. NoReset => Told(dispatches)'
      BY <2>1 DEF TInv, Ruled, Told, Holds, TerminalOf, Finished
    <2>. QED BY <2>1, <2>2, <2>3, TerminalsKeepT
  <1>2. CASE Next
    BY <1>2, Kinds, SavedKeepsT, DiedKeepsT, ClaimedKeepsT, EmptiedKeepsT,
       DispatchKeepsT, StartStepKeepsT, TerminalStepKeepsT, StampExpiresKeepsT
  <1>. QED BY <1>1, <1>2

LEMMA TerminalsHold == Spec => [](IInv /\ TInv)
  <1>1. Init => IInv /\ TInv
    BY InitInv, TInit
  <1>2. IInv /\ TInv /\ [Next]_vars => (IInv /\ TInv)'
    BY NextInv, TNext
  <1>. QED BY <1>1, <1>2, PTL DEF Spec

-----------------------------------------------------------------------------
(* Terminals, theorems.                                                    *)

\* ORCH-013: a terminal never works on two dispatches, although a late start
\* can come to own a terminal others could already see and be handed.  No
\* reset, restart or order of start and session changes that.
THEOREM TerminalsHaveOneDispatch == Spec => []OneDispatchPerTerminal
  <1>1. IInv /\ TInv => OneDispatchPerTerminal
    BY DEF TInv, Ruled, Tied, OneDispatchPerTerminal
  <1>. QED BY <1>1, TerminalsHold, PTL

\* ORCH-024: a release that says the terminal is gone means it: the terminal
\* is not open, or its agent came up late and that was put on the row.
THEOREM ReleasesAreTrue == Spec => []ReleasedIsClosedOrTold
  <1>1. IInv /\ TInv => ReleasedIsClosedOrTold
    BY DEF TInv, Ruled, Released, ReleasedIsClosedOrTold
  <1>. QED BY <1>1, TerminalsHold, PTL

\* ORCH-016: a started worker runs in the session of its own start notice,
\* however late that session comes.  A reset hands the dispatch ids out again
\* while notices and sessions of the old ones are still on their way, so this
\* is claimed up to the first one.
THEOREM BriefsAreKept == Spec => [](resets = 0 => RunsItsOwnBrief)
  <1>1. IInv /\ TInv => (resets = 0 => RunsItsOwnBrief)
    BY DEF TInv, Ruled, Briefed, RunsItsOwnBrief
  <1>. QED BY <1>1, TerminalsHold, PTL

\* ORCH-027: when a terminal's exit has been handled, the death of the worker
\* it held was told, or a done report named that dispatch.  (A reset of the
\* messages forgets which dispatches a report named.)
THEOREM DeathsAreTold ==
    ASSUME NoReset
    PROVE  Spec => []DeathIsTold
  <1>1. IInv /\ TInv => DeathIsTold
    BY DEF TInv, Ruled, Told, DeathIsTold
  <1>. QED BY <1>1, TerminalsHold, PTL

\* What a step may put down as a death.
DeathsOnly ==
    \A i \in DOMAIN dispatches \cap DOMAIN dispatches' :
        dispatches'[i].exited /\ ~dispatches[i].exited =>
            /\ dispatches[i].runtime = runtime
            /\ terms[dispatches[i].terminal] = "exiting"
            /\ ~Finished(dispatches[i])

\* No command says that a worker died.
LEMMA CarriedTellsNone ==
    ASSUME TypeOK, NEW ds, NEW tm, Carried(ds, tm)
    PROVE  /\ ds \in Seq(Row)
           /\ DOMAIN ds = DOMAIN dispatches
           /\ \A i \in DOMAIN ds : ds[i].exited = dispatches[i].exited
  <1>. DEFINE R == Reconcile(dispatches)
  <1>1. /\ DOMAIN R = DOMAIN dispatches /\ R \in Seq(Row) /\ dispatches \in Seq(Row)
        /\ Len(dispatches) <= MaxDispatches /\ stamps \in [DispatchIds -> Stamp]
    BY ReconciledRows
  <1>2. \A i \in DOMAIN dispatches : R[i].exited = dispatches[i].exited
    BY <1>1, ReconciledRow
  <1>. HIDE DEF R
  <1>3. CASE RowsGo(dispatches, ds, tm)
    BY <1>1, <1>3 DEF RowsGo, Goes
  <1>4. CASE RowsGo(R, ds, tm)
    BY <1>1, <1>2, <1>4 DEF RowsGo, Goes
  <1>. QED BY <1>3, <1>4 DEF Carried, R

LEMMA StepTellsDeaths ==
    ASSUME IInv, [Next]_vars
    PROVE  DeathsOnly
  <1>1. TypeOK /\ dispatches \in Seq(Row)
    BY DEF IInv, TypeOK
  <1>2. CASE Saved \/ Claimed
    <2>1. PICK tm : Carried(dispatches', tm)
      BY <1>2 DEF Saved, Claimed, Rewritten
    <2>. QED BY <1>1, <2>1, CarriedTellsNone DEF DeathsOnly
  <1>3. CASE Died
    <2>1. PICK ts, ds, how : /\ DieWith(ts, ds, how)
                             /\ ds \in Seq(Row)
                             /\ ds = <<>> \/ ds = dispatches \/ Carried(ds, terms)
      BY <1>3 DEF Died, Rewritten, RowsOK
    <2>2. /\ DOMAIN dispatches' = DOMAIN ds
          /\ \A i \in DOMAIN ds : dispatches'[i].exited = ds[i].exited
      <3>1. \A r \in Row : [r EXCEPT !.status = "unknown"].exited = r.exited
        BY DEF Row
      <3>2. dispatches' = CutShort(ds) /\ \A i \in DOMAIN ds : ds[i] \in Row
        BY <2>1 DEF DieWith
      <3>. QED BY <3>1, <3>2 DEF CutShort
    <2>3. CASE ds = <<>>
      BY <2>2, <2>3 DEF DeathsOnly
    <2>4. CASE ds = dispatches
      BY <2>2, <2>4 DEF DeathsOnly
    <2>5. CASE Carried(ds, terms)
      BY <1>1, <2>2, <2>5, CarriedTellsNone DEF DeathsOnly
    <2>. QED BY <2>1, <2>3, <2>4, <2>5
  <1>4. CASE Emptied
    BY <1>4 DEF Emptied, DeathsOnly
  <1>5. ASSUME NEW k \in DOMAIN tasks, NEW t \in Terms, Dispatch(k, t)
        PROVE  DeathsOnly
    <2>. DEFINE ds == Append(DS, NewRow(k, "running", t, TRUE))
    <2>1. /\ DOMAIN dispatches \subseteq DOMAIN ds
          /\ \A i \in DOMAIN dispatches : ds[i] = DS[i]
          /\ RowsGo(ds, dispatches', terms)
      BY <1>5, DispatchWrites
    <2>2. /\ DOMAIN DS = DOMAIN dispatches
          /\ \A i \in DOMAIN DS : DS[i].exited = dispatches[i].exited
      BY <1>1, CarriedRead, CarriedTellsNone
    <2>. HIDE DEF ds
    <2>. QED BY <2>1, <2>2 DEF RowsGo, Goes, DeathsOnly
  <1>6. CASE StartStep
    <2>. SUFFICES \A i \in DOMAIN dispatches : dispatches'[i] = dispatches[i]
      BY DEF DeathsOnly
    <2>1. CASE SetupFails \/ RecordStart
      <3>1. \E st \in RowStates, t \in 0..MaxTerms : PushRow(st, t)
        <4>1. {"failed", "ready", "unknown"} \subseteq RowStates
          BY DEF RowStates, FINISHED
        <4>2. 0 \in 0..MaxTerms /\ start.terminal \in 0..MaxTerms
          BY <1>1, Bounds DEF TypeOK, Start
        <4>. QED BY <2>1, <4>1, <4>2 DEF SetupFails, RecordStart
      <3>2. ~NoStart /\ start.phase # "failing"
        BY <2>1 DEF SetupFails, RecordStart, NoStart
      <3>. QED BY <3>1, <3>2, PushedRow
    <2>2. CASE ~(SetupFails \/ RecordStart)
      <3>1. PlacementFails \/ FailTask \/ AskWindow => dispatches' = dispatches
        BY DEF PlacementFails, FailTask, AskWindow
      <3>2. ASSUME NEW found, NEW ready, WaitEnds(found, ready)
            PROVE  dispatches' = dispatches
        BY <3>2 DEF WaitEnds
      <3>. QED BY <1>6, <2>2, <3>1, <3>2 DEF StartStep
    <2>. QED BY <2>1, <2>2
  <1>7. CASE TerminalStep
    <2>1. \/ dispatches' = dispatches
          \/ \E t \in Terms : ExitHandled(t)
      BY <1>7 DEF TerminalStep, OpenTerminal, WindowStarts, TerminalExits,
                  CloseTerminal, stored
    <2>2. ASSUME NEW t \in Terms, ExitHandled(t)
          PROVE  DeathsOnly
      <3>1. \A i \in DOMAIN dispatches :
               dispatches'[i] = dispatches[i] \/ Dies(dispatches, i, t)
        BY <1>1, <2>2, ExitedRow
      <3>. QED BY <2>2, <3>1 DEF Dies, ExitHandled, DeathsOnly
    <2>. QED BY <2>1, <2>2 DEF DeathsOnly
  <1>8. CASE UNCHANGED dispatches
    BY <1>8 DEF DeathsOnly
  <1>. QED BY <1>2, <1>3, <1>4, <1>5, <1>6, <1>7, <1>8, Kinds
           DEF StampExpires, stored, vars

\* ORCH-027, ORCH-022: only the end of its own terminal, in this process, is
\* ever told as a worker's death: never a stop, a close by the user, or the
\* end of a later terminal with the same handle.
THEOREM DeathsAreTrue == Spec => NoFalseDeath
  <1>1. IInv /\ [Next]_vars =>
          \A i \in DOMAIN dispatches \cap DOMAIN dispatches' :
             dispatches'[i].exited /\ ~dispatches[i].exited =>
                 /\ dispatches[i].runtime = runtime
                 /\ terms[dispatches[i].terminal] = "exiting"
                 /\ ~Finished(dispatches[i])
    BY StepTellsDeaths DEF DeathsOnly
  <1>. QED BY <1>1, InvariantHolds, PTL DEF Spec, NoFalseDeath

\* Which steps close a terminal: a stop, a release that closes, the user.
LEMMA ClosingSteps ==
    ASSUME TypeOK, Next, NEW t \in Terms, terms[t] = "open", terms'[t] = "closed"
    PROVE  \/ \E i \in DOMAIN dispatches, theirs \in BOOLEAN : Stop(i, theirs)
           \/ \E i \in DOMAIN dispatches, archived \in BOOLEAN :
                 ReleaseAndClose(i, archived)
           \/ CloseTerminal(t)
  <1>1. \A ts, ds, how : ~DieWith(ts, ds, how)
    BY DEF DieWith
  <1>2. ~UNCHANGED terms
    OBVIOUS
  <1>3. ASSUME TaskCommand
        PROVE  FALSE
    <2>1. ~TaskCreate /\ ~Read
      BY <1>2 DEF TaskCreate, Read, SaveLists
    <2>2. ~StartSpec
      BY <1>2 DEF StartSpec, Claim
    <2>3. ASSUME NEW k \in DOMAIN tasks
          PROVE  ~BreakerReset(k) /\ ~GateCreate(k) /\ ~StartTask(k)
      BY <1>1, <1>2 DEF BreakerReset, GateCreate, StartTask, SaveLists, Claim
    <2>4. ASSUME NEW k \in DOMAIN tasks
          PROVE  /\ \A u \in Terms : ~Dispatch(k, u)
                 /\ \A to \in TaskStates, c \in Callers : ~TaskUpdate(k, to, c)
      BY <1>2 DEF Dispatch, TaskUpdate, SaveLists
    <2>. QED BY <1>3, <2>1, <2>2, <2>3, <2>4 DEF TaskCommand
  <1>4. ASSUME NEW i \in DOMAIN dispatches
        PROVE  /\ ~Abandon(i) /\ ~WorkerShow(i) /\ ~Retain(i)
               /\ \A theirs \in BOOLEAN : ~ReleaseNoClose(i, theirs)
               /\ \A k \in DOMAIN tasks : ~StartRetry(k, i)
               /\ \A from, pass : ~ReportIsMail(i, from, pass)
               /\ \A from, to : ~ReportSettles(i, from, to)
    <2>1. ~Abandon(i) /\ ~WorkerShow(i) /\ ~Retain(i)
      BY <1>2 DEF Abandon, WorkerShow, Retain, SaveLists
    <2>2. \A theirs \in BOOLEAN : ~ReleaseNoClose(i, theirs)
      BY <1>2 DEF ReleaseNoClose, SaveLists
    <2>3. \A k \in DOMAIN tasks : ~StartRetry(k, i)
      BY <1>1, <1>2 DEF StartRetry, Claim
    <2>4. ASSUME NEW from, NEW pass
          PROVE  ~ReportIsMail(i, from, pass)
      BY <1>2 DEF ReportIsMail
    <2>5. \A from, to : ~ReportSettles(i, from, to)
      BY <1>1, <1>2 DEF ReportSettles
    <2>. QED BY <2>1, <2>2, <2>3, <2>4, <2>5
  <1>5. ASSUME NEW g \in DOMAIN gates
        PROVE  ~GateResolve(g)
    BY <1>1, <1>2 DEF GateResolve
  <1>6. ASSUME NEW scope
        PROVE  ~Reset(scope)
    BY <1>1, <1>2 DEF Reset
  <1>7. ~StartStep
    <2>1. ~PlacementFails /\ ~SetupFails /\ ~FailTask /\ ~AskWindow /\ ~RecordStart
      BY <1>2 DEF PlacementFails, SetupFails, FailTask, AskWindow, RecordStart, PushRow
    <2>2. ASSUME NEW found, NEW ready
          PROVE  ~WaitEnds(found, ready)
      BY <1>2 DEF WaitEnds
    <2>. QED BY <2>1, <2>2 DEF StartStep
  <1>8. ASSUME NEW u \in Terms
        PROVE  /\ ~OpenTerminal(u)
               /\ \A m \in notices : ~WindowStarts(m, u)
               /\ ~TerminalExits(u)
               /\ ~ExitHandled(u)
               /\ CloseTerminal(u) => u = t
    <2>1. terms \in [Terms -> {"unopened", "open", "exiting", "ended", "closed"}]
      BY DEF TypeOK
    <2>2. \A st : terms' = [terms EXCEPT ![u] = st] => u = t /\ st = "closed"
      BY <2>1
    <2>. QED BY <2>2 DEF OpenTerminal, WindowStarts, TerminalExits, CloseTerminal, ExitHandled
  <1>9. ~Restart /\ \A i \in DispatchIds : ~StampExpires(i)
    BY <1>1, <1>2 DEF Restart, StampExpires
  <1>. QED BY <1>3, <1>4, <1>5, <1>6, <1>7, <1>8, <1>9
           DEF Next, RowCommand, TerminalStep

\* Somebody of es works in t, in a terminal opened for that very dispatch, and
\* nobody else does.
ItsOwn(es, t) ==
    \E i \in DOMAIN es :
       /\ es[i].terminal = t
       /\ es[i].runtime = runtime
       /\ startedFor[t] = [dispatch |-> i, reset |-> resets]
       /\ \A j \in DOMAIN es \ {i} : ~Holds(es, j, t)

\* What a step may close.
OwnOnly ==
    \A t \in Terms :
        terms[t] = "open" /\ terms'[t] = "closed" /\ dispatches' # dispatches =>
            ItsOwn(dispatches', t)

\* Rows that keep their terminals, and that have ended but for the i-th.
KeepTerminals(ds, es, i) ==
    /\ DOMAIN es = DOMAIN ds
    /\ \A j \in DOMAIN ds :
          /\ es[j].terminal = ds[j].terminal /\ es[j].runtime = ds[j].runtime
          /\ j # i /\ Finished(ds[j]) => Finished(es[j])

\* The terminal of a started worker that keep_open lets go: it was opened for
\* that very dispatch, and whoever else it was given to has finished.
LEMMA NotKept ==
    ASSUME TypeOK, NEW rs \in Seq(Row), Ruled(rs), resets = 0,
           NEW ds, NEW tm, RowsGo(rs, ds, tm), NEW theirs,
           NEW i \in DOMAIN ds, NEW t \in Terms, TerminalOf(ds[i]) = t,
           ~KeepOpen(ds, i, theirs),
           NEW es, KeepTerminals(ds, es, i)
    PROVE  ItsOwn(es, t)
  <1>1. /\ DOMAIN ds = DOMAIN rs /\ DOMAIN es = DOMAIN ds /\ t # 0
        /\ \A j \in DOMAIN ds : /\ Goes(rs[j], ds[j], tm)
                                /\ TerminalOf(ds[j]) = TerminalOf(rs[j])
                                /\ TerminalOf(es[j]) = TerminalOf(ds[j])
    BY Bounds DEF RowsGo, Goes, TerminalOf, Terms, KeepTerminals
  <1>2. ds[i].terminal = t /\ ds[i].runtime = runtime
    BY <1>1 DEF TerminalOf
  <1>3. ~ds[i].handed /\ ~rs[i].handed
    BY <1>1 DEF KeepOpen, Goes
  <1>4. startedFor[t] = [dispatch |-> i, reset |-> resets]
    BY <1>1, <1>3 DEF Ruled, Briefed
  <1>5. ASSUME NEW j \in DOMAIN es \ {i}, Holds(es, j, t)
        PROVE  FALSE
    <2>1. TerminalOf(ds[j]) = TerminalOf(ds[i]) /\ ~Finished(ds[j])
      BY <1>1, <1>5 DEF Holds, KeepTerminals
    <2>2. ds[j].release = "done"
      BY <1>1, <1>5, <2>1 DEF KeepOpen
    <2>3. rs[j].release = "done" \/ Finished(ds[j])
      BY <1>1, <1>5, <2>2 DEF Goes
    <2>4. Finished(rs[j])
      BY <1>1, <1>5, <2>1, <2>3 DEF Ruled, Released
    <2>. QED BY <1>1, <1>5, <2>1, <2>4 DEF Goes
  <1>. QED BY <1>1, <1>2, <1>4, <1>5 DEF ItsOwn, KeepTerminals

LEMMA StopClosesOwn ==
    ASSUME IInv, TInv, resets = 0, NEW i \in DOMAIN dispatches, NEW theirs,
           Stop(i, theirs)
    PROVE  OwnOnly
  <1>. DEFINE R == Reconcile(dispatches)
              keep == KeepOpen(DS, i, theirs)
              ends == DS[i].status # "stopped" /\ ~DS[i].exited /\ TerminalOf(DS[i]) # 0
              left == DS[i].leftOpen \/ (ends /\ keep)
              e == [DS[i] EXCEPT !.status = "stopped", !.leftOpen = left]
              fs == [DS EXCEPT ![i] = e]
  <1>. SUFFICES ASSUME NEW t \in Terms, terms[t] = "open", terms'[t] = "closed"
                PROVE  ItsOwn(dispatches', t)
    BY DEF OwnOnly
  <1>1. /\ TypeOK /\ NoStart /\ R \in Seq(Row) /\ Ruled(R)
        /\ DOMAIN R = DOMAIN dispatches
    BY ReconciledRows, ReconciledRuled DEF IInv, Stop, May
  <1>2. RowsGo(R, DS, terms)
    BY <1>1, SpendGoneGoes DEF DS
  <1>3. DS \in Seq(Row) /\ i \in DOMAIN DS /\ DS[i] \in Row
    BY <1>1, <1>2 DEF RowsGo
  <1>4. /\ terms' = IF ends /\ ~keep THEN Killed(TerminalOf(DS[i])) ELSE terms
        /\ dispatches' = SpendGone(fs, terms')
    BY <1>3 DEF Stop, Save
  <1>5. ~keep /\ TerminalOf(DS[i]) = t
    BY <1>1, <1>4 DEF Killed, TypeOK
  <1>. HIDE DEF R, keep
  <1>6. /\ e \in Row /\ e.terminal = DS[i].terminal /\ e.runtime = DS[i].runtime
    <2>1. "stopped" \in RowStates
      BY DEF RowStates, FINISHED
    <2>2. left \in BOOLEAN
      BY <1>3 DEF Row, keep, KeepOpen
    <2>. HIDE DEF left
    <2>. QED BY <1>3, <2>1, <2>2 DEF Row
  <1>. HIDE DEF e
  <1>7. /\ fs \in Seq(Row) /\ Len(fs) = Len(DS) /\ DOMAIN fs = DOMAIN DS
        /\ \A j \in DOMAIN DS : fs[j] = IF j = i THEN e ELSE DS[j]
    BY <1>3, <1>6, ExceptSeq
  <1>. HIDE DEF fs
  <1>8. RowsGo(fs, dispatches', terms')
    BY <1>4, <1>7, SpendGoneGoes
  <1>9. KeepTerminals(DS, dispatches', i)
    BY <1>6, <1>7, <1>8 DEF RowsGo, Goes, KeepTerminals
  <1>. QED BY <1>1, <1>2, <1>3, <1>5, <1>9, NotKept DEF keep

LEMMA ReleaseClosesOwn ==
    ASSUME IInv, TInv, resets = 0, NEW i \in DOMAIN dispatches, NEW archived \in BOOLEAN,
           ReleaseAndClose(i, archived)
    PROVE  OwnOnly
  <1>. DEFINE R == Reconcile(dispatches)
              wasLate == Late(DS[i]) /\ Live(DS[i].terminal)
              d == Reopened(DS[i])
              ds == [DS EXCEPT ![i] = d]
              p == [d EXCEPT !.release = "pending"]
              f == IF archived THEN ReleaseDone(p, wasLate)
                   ELSE [p EXCEPT !.release = "unknown"]
              fs == [[ds EXCEPT ![i] = p] EXCEPT ![i] = f]
  <1>. SUFFICES ASSUME NEW t \in Terms, terms[t] = "open", terms'[t] = "closed"
                PROVE  ItsOwn(dispatches', t)
    BY DEF OwnOnly
  <1>1. /\ TypeOK /\ NoStart /\ R \in Seq(Row) /\ Ruled(R)
        /\ DOMAIN R = DOMAIN dispatches
    BY ReconciledRows, ReconciledRuled DEF IInv, ReleaseAndClose, May
  <1>2. RowsGo(R, DS, terms)
    BY <1>1, SpendGoneGoes DEF DS
  <1>3. DS \in Seq(Row) /\ i \in DOMAIN DS /\ DS[i] \in Row
    BY <1>1, <1>2 DEF RowsGo
  <1>4. /\ d \in Row /\ Goes(DS[i], d, terms) /\ ds[i] = d /\ i \in DOMAIN ds
    BY <1>3, ReopenedType, ReopenedGoes
  <1>5. RowsGo(DS, ds, terms) /\ ds \in Seq(Row) /\ DOMAIN ds = DOMAIN DS
    <2>. HIDE DEF d
    <2>1. RowsGo(DS, ds, terms)
      BY <1>3, <1>4, RowGoes
    <2>. QED BY <1>3, <2>1 DEF RowsGo
  <1>6. RowsGo(R, ds, terms)
    BY <1>1, <1>2, <1>5, RowsGoOn
  <1>7. /\ \/ terms' = Killed(TerminalOf(ds[i]))
           \/ terms' = terms
           \/ \E ts, us : DieWith(ts, us, {})
        /\ \/ dispatches' = SpendGone(fs, terms')
           \/ \E ts, us : DieWith(ts, us, {})
        /\ ~KeepOpen(ds, i, FALSE)
    BY <1>4 DEF ReleaseAndClose, Save
  <1>8. \A ts, us : ~DieWith(ts, us, {})
    BY DEF DieWith
  <1>9. TerminalOf(ds[i]) = t
    BY <1>1, <1>7, <1>8 DEF Killed, TypeOK
  <1>10. /\ p \in Row /\ p.terminal = d.terminal /\ p.runtime = d.runtime
    <2>. HIDE DEF d
    <2>. QED BY <1>4 DEF Row
  <1>11. f \in Row /\ f.terminal = d.terminal /\ f.runtime = d.runtime
    <2>. HIDE DEF p, d, wasLate
    <2>2. \A r \in Row : SpendLate(r).terminal = r.terminal /\ SpendLate(r).runtime = r.runtime
      BY SpentGoes DEF Goes
    <2>3. /\ ReleaseDone(p, wasLate) \in Row
          /\ ReleaseDone(p, wasLate).terminal = p.terminal
          /\ ReleaseDone(p, wasLate).runtime = p.runtime
      <3>1. ReleaseDone(p, wasLate) \in Row
        BY <1>10, ReleaseDoneType
      <3>. DEFINE r == [p EXCEPT !.release = "done", !.retained = FALSE]
      <3>2. r \in Row /\ r.terminal = p.terminal /\ r.runtime = p.runtime
        BY <1>10 DEF Row
      <3>3. ReleaseDone(p, wasLate) \in {r, SpendLate(r)}
        BY DEF ReleaseDone
      <3>. HIDE DEF r
      <3>. QED BY <2>2, <3>1, <3>2, <3>3
    <2>4. LET u == [p EXCEPT !.release = "unknown"]
          IN u \in Row /\ u.terminal = p.terminal /\ u.runtime = p.runtime
      BY <1>10 DEF Row
    <2>. QED BY <1>10, <2>3, <2>4
  <1>. HIDE DEF R, f, p, d
  <1>12. /\ fs \in Seq(Row) /\ DOMAIN fs = DOMAIN ds
         /\ \A j \in DOMAIN ds : fs[j] = IF j = i THEN f ELSE ds[j]
    <2>. DEFINE gs == [ds EXCEPT ![i] = p]
    <2>1. /\ gs \in Seq(Row) /\ DOMAIN gs = DOMAIN ds
          /\ \A j \in DOMAIN ds : gs[j] = IF j = i THEN p ELSE ds[j]
      <3>. HIDE DEF ds
      <3>. QED BY <1>4, <1>5, <1>10, ExceptSeq
    <2>. HIDE DEF gs, ds
    <2>2. /\ [gs EXCEPT ![i] = f] \in Seq(Row) /\ DOMAIN [gs EXCEPT ![i] = f] = DOMAIN gs
          /\ \A j \in DOMAIN gs : [gs EXCEPT ![i] = f][j] = IF j = i THEN f ELSE gs[j]
      BY <1>4, <1>11, <2>1, ExceptSeq
    <2>. QED BY <2>1, <2>2 DEF gs
  <1>. HIDE DEF fs, ds
  <1>13. RowsGo(fs, dispatches', terms')
    BY <1>7, <1>8, <1>12, SpendGoneGoes
  <1>14. KeepTerminals(ds, dispatches', i)
    BY <1>4, <1>11, <1>12, <1>13 DEF RowsGo, Goes, KeepTerminals
  <1>. QED BY <1>1, <1>4, <1>6, <1>7, <1>8, <1>9, <1>14, NotKept

\* ORCH-022, ORCH-024: a stop or a release only ever closes the terminal the
\* window opened for that very dispatch, and no other dispatch works there.
THEOREM TerminalsAreOwn ==
    ASSUME NoReset
    PROVE  Spec => ClosesOnlyItsOwn
  <1>1. ASSUME IInv, TInv, [Next]_vars
        PROVE  OwnOnly
    <2>. SUFFICES ASSUME NEW t \in Terms, terms[t] = "open", terms'[t] = "closed",
                         dispatches' # dispatches
                  PROVE  OwnOnly
      BY DEF OwnOnly
    <2>1. TypeOK /\ resets = 0
      BY <1>1 DEF IInv, TInv, Ruled
    <2>2. Next
      BY <1>1 DEF vars
    <2>3. ~CloseTerminal(t)
      BY DEF CloseTerminal, stored
    <2>. QED BY <1>1, <2>1, <2>2, <2>3, ClosingSteps, StopClosesOwn, ReleaseClosesOwn
  <1>2. IInv /\ TInv /\ [Next]_vars =>
          \A t \in Terms :
             terms[t] = "open" /\ terms'[t] = "closed" /\ dispatches' # dispatches =>
                 \E i \in DOMAIN dispatches' :
                    /\ dispatches'[i].terminal = t
                    /\ dispatches'[i].runtime = runtime
                    /\ startedFor[t] = [dispatch |-> i, reset |-> resets]
                    /\ \A j \in DOMAIN dispatches' \ {i} : ~Holds(dispatches', j, t)
    BY <1>1 DEF OwnOnly, ItsOwn
  <1>. QED BY <1>2, TerminalsHold, PTL DEF Spec, ClosesOnlyItsOwn
=============================================================================
