-------------------------- MODULE DispatchesProofs --------------------------
(***************************************************************************)
(* What Dispatches.tla keeps for every value of its constants: the types of *)
(* the stored lists, and ORCH-012's rule that an unfinished dispatch holds  *)
(* its task and no task has two workers.                                   *)
(*                                                                         *)
(* WorkerHoldsItsTask is not inductive alone: the record of a worker start *)
(* appends an unfinished row, which holds its task only because the claim  *)
(* took the task under exactly that row's id and nothing touched it since. *)
(* StartHolds says so.  The proof follows the lists: HeldMoves states once *)
(* which rewritings keep Held, Written packs that with the types, each     *)
(* command is shown to write such lists, and SaveInv, DieInv and ClaimInv  *)
(* carry it over the save, the end of the process and the claim.           *)
(***************************************************************************)
EXTENDS Dispatches, TLAPS

\* A task list and a dispatch list of the right type and size.
TasksOK(ts) == ts \in Seq(Task) /\ Len(ts) <= MaxTasks
RowsOK(ds) == ds \in Seq(Row) /\ Len(ds) <= MaxDispatches

\* A worker start in flight holds its task under the dispatch it will record,
\* or, once it failed, under the failed dispatch it did record.
StartHolds ==
    IF NoStart THEN start.task = 0
    ELSE /\ start.task \in DOMAIN tasks
         /\ tasks[start.task].status = "dispatched"
         /\ IF start.phase = "failing"
            THEN /\ Len(dispatches) \in DOMAIN dispatches
                 /\ tasks[start.task].dispatch = Len(dispatches)
                 /\ Finished(dispatches[Len(dispatches)])
            ELSE /\ StartId <= MaxDispatches
                 /\ tasks[start.task].dispatch = StartId

\* Every unfinished row of ds holds its task in ts.
Held(ts, ds) ==
    \A i \in DOMAIN ds : ~Finished(ds[i]) =>
        /\ ds[i].task \in DOMAIN ts
        /\ ts[ds[i].task].status = "dispatched"
        /\ ts[ds[i].task].dispatch = i

\* The inductive invariant.  A reset cut in two leaves rows whose tasks are
\* gone, so Held is claimed only while there was none.
IInv ==
    /\ TypeOK
    /\ StartHolds
    /\ "reset" \notin lost => Held(tasks, dispatches)

\* One task given a status and a dispatch, one task given a status, one row
\* given a status.
Given(ts, k, st, n) == [ts EXCEPT ![k].status = st, ![k].dispatch = n]
Marked(ts, k, st) == [ts EXCEPT ![k].status = st]
Ended(ds, i, st) == [ds EXCEPT ![i].status = st]

\* Rewriting ds to es left every row's task and status as they were.
KeptRows(ds, es) ==
    /\ es \in Seq(Row)
    /\ Len(es) = Len(ds)
    /\ \A i \in DOMAIN ds : es[i].status = ds[i].status /\ es[i].task = ds[i].task

\* The bounds, one by one.
LEMMA Bounds ==
    /\ MaxTasks \in Nat /\ MaxDispatches \in Nat /\ MaxGates \in Nat
    /\ MaxTerms \in Nat /\ MaxRuntimes \in Nat /\ MaxResets \in Nat
    /\ MaxRuntimes # 0
  BY BoundsAreNaturals

\* A list mapped entry by entry is a list of the same length.
LEMMA MappedSeq ==
    ASSUME NEW S, NEW s \in Seq(S), NEW f \in [DOMAIN s -> S]
    PROVE  f \in Seq(S) /\ Len(f) = Len(s) /\ DOMAIN f = DOMAIN s
  <1>1. DOMAIN s = 1..Len(s) /\ Len(s) \in Nat
    OBVIOUS
  <1>2. f \in [1..Len(s) -> S]
    BY <1>1
  <1>. QED BY <1>1, <1>2

\* So is a list with one entry replaced.
LEMMA ExceptSeq ==
    ASSUME NEW S, NEW s \in Seq(S), NEW i \in DOMAIN s, NEW e \in S
    PROVE  /\ [s EXCEPT ![i] = e] \in Seq(S)
           /\ Len([s EXCEPT ![i] = e]) = Len(s)
           /\ DOMAIN [s EXCEPT ![i] = e] = DOMAIN s
  OBVIOUS

\* Spending an alarm leaves the row its status and its task.
LEMMA SpentRow ==
    ASSUME NEW d \in Row
    PROVE  /\ SpendLate(d) \in Row
           /\ SpendLate(d).status = d.status
           /\ SpendLate(d).task = d.task
  BY DEF SpendLate, Row

\* spend_gone_late moves no status and no task.
LEMMA SpendGoneKeeps ==
    ASSUME NEW ds \in Seq(Row), NEW tm
    PROVE  KeptRows(ds, SpendGone(ds, tm))
  <1>1. ASSUME NEW i \in DOMAIN ds
        PROVE  ds[i] \in Row
    OBVIOUS
  <1>2. SpendGone(ds, tm) \in [DOMAIN ds -> Row]
    BY <1>1, SpentRow DEF SpendGone
  <1>3. \A i \in DOMAIN ds : /\ SpendGone(ds, tm)[i].status = ds[i].status
                             /\ SpendGone(ds, tm)[i].task = ds[i].task
    BY <1>1, SpentRow DEF SpendGone
  <1>. QED BY <1>2, <1>3, MappedSeq DEF KeptRows

\* Nor does reconcile_late.
LEMMA ReconcileKeeps ==
    ASSUME NEW ds \in Seq(Row), Len(ds) <= MaxDispatches,
           stamps \in [DispatchIds -> Stamp]
    PROVE  KeptRows(ds, Reconcile(ds))
  <1>. USE Bounds
  <1>1. ASSUME NEW i \in DOMAIN ds
        PROVE  ds[i] \in Row /\ stamps[i].session \in 0..MaxTerms
    BY DEF DispatchIds, Stamp
  <1>2. ASSUME NEW i \in DOMAIN ds
        PROVE  /\ Reconcile(ds)[i] \in Row
               /\ Reconcile(ds)[i].status = ds[i].status
               /\ Reconcile(ds)[i].task = ds[i].task
    <2>. DEFINE l == IF Finished(ds[i]) THEN "pending" ELSE "stamped"
    <2>1. ~LateSession(ds, i) => Reconcile(ds)[i] = ds[i]
      BY DEF Reconcile
    <2>2. LateSession(ds, i) =>
            Reconcile(ds)[i] = [ds[i] EXCEPT !.terminal = stamps[i].session, !.late = l]
      BY DEF Reconcile
    <2>3. l \in {"stamped", "pending"}
      OBVIOUS
    <2>. HIDE DEF l
    <2>4. [ds[i] EXCEPT !.terminal = stamps[i].session, !.late = l] \in Row
      BY <1>1, <2>3 DEF Row
    <2>5. LET e == [ds[i] EXCEPT !.terminal = stamps[i].session, !.late = l]
          IN e.status = ds[i].status /\ e.task = ds[i].task
      BY <1>1 DEF Row
    <2>. QED BY <1>1, <2>1, <2>2, <2>4, <2>5
  <1>3. Reconcile(ds) \in [DOMAIN ds -> Row]
    BY <1>2 DEF Reconcile
  <1>. QED BY <1>2, <1>3, MappedSeq DEF KeptRows

\* Keeping is transitive.
LEMMA KeptTwice ==
    ASSUME NEW ds \in Seq(Row), NEW es, NEW fs,
           KeptRows(ds, es), KeptRows(es, fs)
    PROVE  KeptRows(ds, fs)
  BY DEF KeptRows

\* The rows as a task command reads them are the stored ones, kept.
LEMMA DSKeeps ==
    ASSUME TypeOK
    PROVE  KeptRows(dispatches, DS)
  <1>1. KeptRows(dispatches, Reconcile(dispatches))
    BY ReconcileKeeps DEF TypeOK
  <1>2. KeptRows(Reconcile(dispatches), DS)
    BY <1>1, SpendGoneKeeps DEF DS, KeptRows
  <1>. QED BY <1>1, <1>2, KeptTwice DEF TypeOK

\* promote changes nothing but the status of pending tasks.
LEMMA PromoteType ==
    ASSUME NEW ts \in Seq(Task)
    PROVE  /\ Promote(ts) \in Seq(Task)
           /\ Len(Promote(ts)) = Len(ts)
           /\ \A k \in DOMAIN ts : /\ Promote(ts)[k].dispatch = ts[k].dispatch
                                   /\ \/ Promote(ts)[k] = ts[k]
                                      \/ /\ ts[k].status = "pending"
                                         /\ Promote(ts)[k].status = "ready"
  <1>1. \A k \in DOMAIN ts : ts[k] \in Task
    OBVIOUS
  <1>2. \A x \in Task : LET y == [x EXCEPT !.status = "ready"]
                        IN y \in Task /\ y.dispatch = x.dispatch /\ y.status = "ready"
    BY DEF Task, TaskStates
  <1>3. Promote(ts) \in [DOMAIN ts -> Task]
    BY <1>1, <1>2 DEF Promote
  <1>. QED BY <1>1, <1>2, <1>3, MappedSeq DEF Promote

\* Handing a task back changes nothing but the task held under id.
LEMMA HandBackType ==
    ASSUME NEW ts \in Seq(Task), NEW k, NEW id
    PROVE  /\ HandBack(ts, k, id) \in Seq(Task)
           /\ Len(HandBack(ts, k, id)) = Len(ts)
           /\ \A x \in DOMAIN ts : \/ HandBack(ts, k, id)[x] = ts[x]
                                   \/ ts[x].status = "dispatched" /\ ts[x].dispatch = id
  <1>1. \A x \in DOMAIN ts : ts[x] \in Task
    OBVIOUS
  <1>2. \A x \in Task : [x EXCEPT !.status = "ready", !.dispatch = 0] \in Task
    BY DEF Task, TaskStates
  <1>3. HandBack(ts, k, id) \in [DOMAIN ts -> Task]
    BY <1>1, <1>2 DEF HandBack
  <1>. QED BY <1>3, MappedSeq DEF HandBack

\* The sweep at start leaves a row its task and whether it had finished.
LEMMA CutShortType ==
    ASSUME NEW ds \in Seq(Row)
    PROVE  /\ CutShort(ds) \in Seq(Row)
           /\ Len(CutShort(ds)) = Len(ds)
           /\ \A i \in DOMAIN ds :
                 /\ CutShort(ds)[i].task = ds[i].task
                 /\ Finished(CutShort(ds)[i]) <=> Finished(ds[i])
                 /\ Finished(ds[i]) => CutShort(ds)[i] = ds[i]
  <1>1. \A i \in DOMAIN ds : ds[i] \in Row
    OBVIOUS
  <1>2. \A r \in Row : LET e == [r EXCEPT !.status = "unknown"]
                       IN e \in Row /\ e.task = r.task /\ ~Finished(e)
    BY DEF Row, RowStates, Finished, FINISHED
  <1>3. CutShort(ds) \in [DOMAIN ds -> Row]
    BY <1>1, <1>2 DEF CutShort
  <1>. QED BY <1>1, <1>2, <1>3, MappedSeq DEF CutShort

\* A row given a status keeps its task, and the other rows are as they were.
LEMMA StatusSet ==
    ASSUME NEW ds \in Seq(Row), NEW i \in DOMAIN ds, NEW x \in RowStates
    PROVE  LET es == Ended(ds, i, x) IN
           /\ es \in Seq(Row)
           /\ Len(es) = Len(ds)
           /\ es[i].status = x /\ es[i].task = ds[i].task
           /\ \A j \in DOMAIN ds : j # i => es[j] = ds[j]
  <1>1. ds[i] \in Row
    OBVIOUS
  <1>. DEFINE e == [ds[i] EXCEPT !.status = x]
  <1>2. e \in Row /\ e.status = x /\ e.task = ds[i].task
    BY <1>1 DEF Row
  <1>3. Ended(ds, i, x) = [ds EXCEPT ![i] = e]
    BY DEF Ended
  <1>. HIDE DEF e
  <1>. QED BY <1>2, <1>3, ExceptSeq

\* task_update ends the dispatch the task was under and no other row, and it
\* does unless the update is to "dispatched".
LEMMA UpdatedRowsType ==
    ASSUME NEW ts \in Seq(Task), NEW ds \in Seq(Row),
           NEW k \in DOMAIN ts, NEW to \in TaskStates
    PROVE  LET es == UpdatedRows(ts, ds, k, to)
               open == OpenDispatch(ts, k)
           IN /\ es \in Seq(Row)
              /\ Len(es) = Len(ds)
              /\ \A j \in DOMAIN ds : es[j].task = ds[j].task
              /\ \A j \in DOMAIN ds :
                    es[j] = ds[j] \/ (j = open /\ Finished(es[j]))
              /\ to # "dispatched" /\ open \in DOMAIN ds => Finished(es[open])
  <1>. DEFINE open == OpenDispatch(ts, k)
              x == IF to \in Settled THEN to ELSE "abandoned"
  <1>1. x \in RowStates /\ x \in FINISHED
    BY DEF RowStates, FINISHED, Settled
  <1>2. CASE open \in DOMAIN ds /\ ~Finished(ds[open]) /\ to # "dispatched"
    <2>1. UpdatedRows(ts, ds, k, to) = Ended(ds, open, x)
      BY <1>2 DEF UpdatedRows, Ended
    <2>. HIDE DEF x, open
    <2>2. open \in DOMAIN ds
      BY <1>2
    <2>3. /\ Ended(ds, open, x) \in Seq(Row)
          /\ Len(Ended(ds, open, x)) = Len(ds)
          /\ Ended(ds, open, x)[open].status = x
          /\ Ended(ds, open, x)[open].task = ds[open].task
          /\ \A j \in DOMAIN ds : j # open => Ended(ds, open, x)[j] = ds[j]
      BY <2>2, <1>1, StatusSet
    <2>4. Finished(Ended(ds, open, x)[open])
      BY <2>3, <1>1 DEF Finished
    <2>. QED BY <2>1, <2>3, <2>4 DEF open
  <1>3. CASE ~(open \in DOMAIN ds /\ ~Finished(ds[open]) /\ to # "dispatched")
    <2>1. UpdatedRows(ts, ds, k, to) = ds
      BY <1>3 DEF UpdatedRows
    <2>. QED BY <1>3, <2>1
  <1>. QED BY <1>2, <1>3

\* task_update moves no other task, and an update to "dispatched" keeps the
\* name of the dispatch.
LEMMA UpdatedTasksType ==
    ASSUME NEW ts \in Seq(Task), NEW k \in DOMAIN ts, NEW to \in TaskStates
    PROVE  LET us == UpdatedTasks(ts, k, to) IN
           /\ us \in Seq(Task)
           /\ Len(us) = Len(ts)
           /\ us[k].status = to
           /\ to = "dispatched" => us[k].dispatch = ts[k].dispatch
           /\ \A x \in DOMAIN ts : x # k => us[x] = ts[x]
  <1>1. ts[k] \in Task
    OBVIOUS
  <1>. DEFINE n == IF ts[k].status = "dispatched" /\ to \notin Settled \cup {"dispatched"}
                   THEN 0 ELSE ts[k].dispatch
              e == [ts[k] EXCEPT !.status = to, !.dispatch = n]
  <1>2. n \in Nat /\ (to = "dispatched" => n = ts[k].dispatch)
    BY <1>1 DEF Task
  <1>3. UpdatedTasks(ts, k, to) = [ts EXCEPT ![k] = e]
    BY <1>1 DEF UpdatedTasks, Task
  <1>. HIDE DEF n
  <1>4. e \in Task /\ e.status = to /\ e.dispatch = n
    BY <1>1, <1>2 DEF Task
  <1>. HIDE DEF e
  <1>. QED BY <1>2, <1>3, <1>4, ExceptSeq

\* The end of the process and the start after it keep the types.
LEMMA DieType ==
    ASSUME TypeOK, NEW ts, NEW ds, NEW how \in SUBSET {"start", "reset"},
           TasksOK(ts), RowsOK(ds), DieWith(ts, ds, how)
    PROVE  TypeOK'
  <1>. USE Bounds
  <1>1. TasksOK(tasks')
    BY DEF DieWith
  <1>2. RowsOK(dispatches')
    BY CutShortType DEF DieWith, RowsOK
  <1>3. runtime' \in 1..MaxRuntimes
    BY DEF DieWith, TypeOK
  <1>4. NoNotice \in Notice /\ NoStamp \in Stamp /\ Idle \in Start
    BY DEF NoNotice, Notice, NoStamp, Stamp, Idle, Start
  <1>5. PICK kept \in SUBSET {t \in Terms : Service /\ terms[t] = "open"} :
          /\ terms' = [t \in Terms |-> IF t \in kept THEN "open" ELSE "unopened"]
          /\ startedFor' = [t \in Terms |-> IF t \in kept THEN startedFor[t]
                                           ELSE NoNotice]
    BY DEF DieWith
  <1>6. /\ terms' \in [Terms -> {"unopened", "open", "exiting", "ended", "closed"}]
        /\ startedFor' \in [Terms -> Notice]
    BY <1>4, <1>5 DEF TypeOK
  <1>7. /\ notices' \subseteq Notice
        /\ stamps' \in [DispatchIds -> Stamp]
        /\ start' \in Start
        /\ lost' \subseteq {"start", "reset"}
    BY <1>4 DEF DieWith, TypeOK
  <1>8. UNCHANGED <<gates, doneMail, resets>>
    BY DEF DieWith
  <1>. QED BY <1>1, <1>2, <1>3, <1>6, <1>7, <1>8 DEF TypeOK, TasksOK, RowsOK

\* So does a save.
LEMMA SaveType ==
    ASSUME TypeOK, NEW ts, NEW ds, TasksOK(ts), RowsOK(ds), Save(ts, ds),
           terms' \in [Terms -> {"unopened", "open", "exiting", "ended", "closed"}],
           gates' \in Seq(Gate), Len(gates') <= MaxGates,
           doneMail' \subseteq DispatchIds
    PROVE  TypeOK'
  <1>1. RowsOK(dispatches')
    BY SpendGoneKeeps DEF Save, RowsOK, KeptRows
  <1>. QED BY <1>1 DEF TypeOK, Save, process, history, TasksOK, RowsOK

\* So does a save of the two lists alone.
LEMMA SaveListsType ==
    ASSUME TypeOK, NEW ts, NEW ds, TasksOK(ts), RowsOK(ds), SaveLists(ts, ds)
    PROVE  TypeOK'
  <1>1. Save(ts, ds) /\ UNCHANGED <<terms, gates, doneMail>>
    BY DEF SaveLists, mail
  <1>. QED BY <1>1, SaveType DEF TypeOK

\* The lists as a task command reads them.
LEMMA ListsRead ==
    ASSUME TypeOK
    PROVE  /\ TasksOK(TS) /\ RowsOK(DS)
           /\ DOMAIN TS = DOMAIN tasks /\ DOMAIN DS = DOMAIN dispatches
           /\ \A k \in DOMAIN tasks : TS[k] \in Task
           /\ \A i \in DOMAIN dispatches : DS[i] \in Row
  <1>1. TasksOK(TS) /\ Len(TS) = Len(tasks)
    BY PromoteType DEF TypeOK, TS, TasksOK
  <1>2. RowsOK(DS) /\ Len(DS) = Len(dispatches)
    BY DSKeeps DEF TypeOK, RowsOK, KeptRows
  <1>. QED BY <1>1, <1>2 DEF TypeOK, TasksOK, RowsOK

\* A new row is a row, of the task and with the status it was made for.
LEMMA NewRowType ==
    ASSUME TypeOK, NEW k \in TaskIds, NEW st \in RowStates,
           NEW t \in 0..MaxTerms, NEW h \in BOOLEAN
    PROVE  /\ NewRow(k, st, t, h) \in Row
           /\ NewRow(k, st, t, h).task = k
           /\ NewRow(k, st, t, h).status = st
  BY DEF NewRow, Row, TypeOK

\* A task given a status and a dispatch; the others are as they were.
LEMMA TaskSet ==
    ASSUME NEW ts \in Seq(Task), NEW k \in DOMAIN ts,
           NEW st \in TaskStates, NEW n \in Nat
    PROVE  LET us == Given(ts, k, st, n) IN
           /\ us \in Seq(Task)
           /\ Len(us) = Len(ts)
           /\ us[k].status = st /\ us[k].dispatch = n
           /\ \A x \in DOMAIN ts : x # k => us[x] = ts[x]
  <1>1. ts[k] \in Task
    OBVIOUS
  <1>. DEFINE e == [ts[k] EXCEPT !.status = st, !.dispatch = n]
  <1>2. e \in Task /\ e.status = st /\ e.dispatch = n
    BY <1>1 DEF Task
  <1>3. Given(ts, k, st, n) = [ts EXCEPT ![k] = e]
    BY <1>1 DEF Task, Given
  <1>. HIDE DEF e
  <1>. QED BY <1>2, <1>3, ExceptSeq

\* A task given a status; the others are as they were.
LEMMA TaskStatusSet ==
    ASSUME NEW ts \in Seq(Task), NEW k \in DOMAIN ts, NEW st \in TaskStates
    PROVE  LET us == Marked(ts, k, st) IN
           /\ us \in Seq(Task)
           /\ Len(us) = Len(ts)
           /\ us[k].status = st /\ us[k].dispatch = ts[k].dispatch
           /\ \A x \in DOMAIN ts : x # k => us[x] = ts[x]
  <1>1. ts[k] \in Task
    OBVIOUS
  <1>. DEFINE e == [ts[k] EXCEPT !.status = st]
  <1>2. e \in Task /\ e.status = st /\ e.dispatch = ts[k].dispatch
    BY <1>1 DEF Task
  <1>3. Marked(ts, k, st) = [ts EXCEPT ![k] = e]
    BY DEF Marked
  <1>. HIDE DEF e
  <1>. QED BY <1>2, <1>3, ExceptSeq

\* A new task fits the list while the list is below its bound.
LEMMA NewTaskType ==
    ASSUME TypeOK, NEW ts, TasksOK(ts), Len(ts) = Len(tasks),
           Len(tasks) < MaxTasks, NEW deps \in SUBSET TaskIds
    PROVE  LET new == [status |-> "pending", dispatch |-> 0, deps |-> deps] IN
           /\ new \in Task
           /\ TasksOK(Append(ts, new))
  <1>. DEFINE new == [status |-> "pending", dispatch |-> 0, deps |-> deps]
  <1>2. new \in Task
    BY DEF Task, TaskStates
  <1>. HIDE DEF new
  <1>3. TasksOK(Append(ts, new))
    BY <1>2, Bounds DEF TasksOK, TypeOK
  <1>. QED BY <1>2, <1>3 DEF new

\* The claim of a worker start keeps the types.
LEMMA ClaimType ==
    ASSUME TypeOK, NEW ts, NEW k \in DOMAIN ts, TasksOK(ts),
           RowsOK(dispatches'), Claim(ts, k)
    PROVE  TypeOK'
  <1>. USE Bounds
  <1>1. StartId \in Nat /\ "dispatched" \in TaskStates /\ k \in 0..MaxTasks
    BY DEF StartId, TypeOK, TaskStates, TasksOK
  <1>2. TasksOK(tasks')
    <2>0. ts \in Seq(Task)
      BY DEF TasksOK
    <2>1. LET us == Given(ts, k, "dispatched", StartId)
          IN us \in Seq(Task) /\ Len(us) = Len(ts)
      BY <1>1, <2>0, TaskSet
    <2>2. tasks' = Given(ts, k, "dispatched", StartId)
      BY DEF Claim, Given
    <2>. QED BY <2>1, <2>2 DEF TasksOK
  <1>3. start' \in Start
    <2>1. start' = [phase |-> "placing", task |-> k, terminal |-> 0, ready |-> FALSE]
      BY DEF Claim, Idle
    <2>2. 0 \in 0..MaxTerms
      OBVIOUS
    <2>. QED BY <1>1, <2>1, <2>2 DEF Start
  <1>. QED BY <1>2, <1>3 DEF TypeOK, Claim, mail, history, TasksOK, RowsOK

\* A reset, whole or cut in two, keeps the types.
LEMMA ResetType ==
    ASSUME TypeOK, NEW scope, Reset(scope)
    PROVE  TypeOK'
  <1>. USE Bounds
  <1>1. TasksOK(<<>>) /\ RowsOK(<<>>) /\ RowsOK(dispatches)
    BY DEF TasksOK, RowsOK, TypeOK
  <1>2. CASE DieWith(<<>>, dispatches, {"reset"})
    BY <1>1, <1>2, DieType
  <1>3. CASE DieWith(<<>>, <<>>, {})
    BY <1>1, <1>3, DieType
  <1>4. CASE /\ tasks' = IF scope = "messages" THEN tasks ELSE <<>>
             /\ dispatches' = IF scope = "messages" THEN dispatches ELSE <<>>
             /\ gates' = IF scope = "messages" THEN gates ELSE <<>>
             /\ doneMail' = IF scope = "tasks" THEN doneMail ELSE {}
             /\ resets' = IF scope = "messages" THEN resets ELSE resets + 1
             /\ lost' = IF scope = "messages" THEN lost ELSE {}
             /\ UNCHANGED <<terms, process>>
    <2>1. resets' \in 0..MaxResets
      BY <1>4 DEF Reset, TypeOK
    <2>2. gates' \in Seq(Gate) /\ Len(gates') <= MaxGates
      BY <1>4 DEF TypeOK
    <2>3. TasksOK(tasks') /\ RowsOK(dispatches')
      BY <1>4 DEF TypeOK, TasksOK, RowsOK
    <2>. QED BY <1>4, <2>1, <2>2, <2>3 DEF TypeOK, process, TasksOK, RowsOK
  <1>. QED BY <1>2, <1>3, <1>4 DEF Reset

\* A start in flight has room for its row, and a task to put in it.
LEMMA PushRowType ==
    ASSUME TypeOK, StartHolds, ~NoStart, start.phase # "failing",
           NEW st \in RowStates, NEW t \in 0..MaxTerms, PushRow(st, t)
    PROVE  /\ RowsOK(dispatches')
           /\ dispatches' = Append(dispatches, NewRow(start.task, st, t, FALSE))
           /\ NewRow(start.task, st, t, FALSE) \in Row
  <1>. USE Bounds
  <1>1. start.task \in TaskIds /\ Len(dispatches) + 1 <= MaxDispatches
        /\ dispatches \in Seq(Row)
    BY DEF StartHolds, StartId, TypeOK, TaskIds
  <1>. DEFINE new == NewRow(start.task, st, t, FALSE)
  <1>2. new \in Row
    BY <1>1, NewRowType
  <1>3. dispatches' = Append(dispatches, new)
    BY DEF PushRow
  <1>. HIDE DEF new
  <1>4. RowsOK(Append(dispatches, new))
    BY <1>1, <1>2 DEF RowsOK
  <1>. QED BY <1>2, <1>3, <1>4 DEF new

\* The steps of a worker start keep the types.
LEMMA StartStepType ==
    ASSUME TypeOK, StartHolds, StartStep
    PROVE  TypeOK'
  <1>. USE Bounds
  <1>a. /\ start \in Start /\ start.task \in 0..MaxTasks
        /\ start.terminal \in 0..MaxTerms /\ start.ready \in BOOLEAN
        /\ TasksOK(tasks) /\ RowsOK(dispatches)
        /\ Idle \in Start
    BY DEF TypeOK, Start, Idle, TasksOK, RowsOK
  <1>b. \A ph \in {"waiting", "failing"} : [start EXCEPT !.phase = ph] \in Start
    BY <1>a DEF Start
  <1>1. CASE PlacementFails
    BY <1>1, <1>a DEF PlacementFails, TypeOK, mail
  <1>2. CASE SetupFails
    <2>1. PushRow("failed", 0) /\ start' \in Start
      BY <1>2, <1>b DEF SetupFails
    <2>2. "failed" \in RowStates /\ 0 \in 0..MaxTerms
      BY DEF RowStates, FINISHED
    <2>3. RowsOK(dispatches')
      BY <1>2, <2>1, <2>2, PushRowType DEF SetupFails, NoStart
    <2>. QED BY <2>1, <2>3 DEF TypeOK, PushRow, mail, history, RowsOK
  <1>3. CASE FailTask
    <2>1. start.task \in DOMAIN tasks /\ tasks \in Seq(Task)
          /\ tasks[start.task].dispatch = Len(dispatches)
      BY <1>3 DEF FailTask, StartHolds, NoStart, TypeOK
    <2>2. tasks' = Marked(tasks, start.task, "failed")
      BY <1>3, <2>1 DEF FailTask, Marked
    <2>3. TasksOK(tasks')
      BY <1>a, <2>1, <2>2, TaskStatusSet DEF TaskStates, TasksOK
    <2>. QED BY <1>3, <1>a, <2>3 DEF FailTask, TypeOK, mail, history, TasksOK
  <1>4. CASE AskWindow
    <2>1. StartId \in DispatchIds
      BY <1>4 DEF AskWindow, StartHolds, NoStart, StartId, DispatchIds, TypeOK
    <2>2. [phase |-> "waiting", session |-> 0] \in Stamp
      BY DEF Stamp
    <2>3. stamps' \in [DispatchIds -> Stamp]
      BY <1>4, <2>2 DEF AskWindow, TypeOK
    <2>4. [dispatch |-> StartId, reset |-> resets] \in Notice
      BY <2>1 DEF Notice, TypeOK, DispatchIds
    <2>. QED BY <1>4, <1>b, <2>3, <2>4 DEF AskWindow, TypeOK, mail, history
  <1>5. ASSUME NEW found \in 0..MaxTerms, NEW ready \in BOOLEAN,
               WaitEnds(found, ready)
        PROVE  TypeOK'
    <2>1. start' \in Start
      BY <1>5, <1>a DEF WaitEnds, Start
    <2>2. StartId \in DispatchIds
      BY <1>5 DEF WaitEnds, StartHolds, NoStart, StartId, DispatchIds, TypeOK
    <2>3. stamps \in [DispatchIds -> Stamp] /\ NoStamp \in Stamp
      BY DEF TypeOK, Stamp, NoStamp
    <2>4. \A x \in Stamp : [x EXCEPT !.phase = "late"] \in Stamp
      BY DEF Stamp
    <2>5. [stamps[StartId] EXCEPT !.phase = "late"] \in Stamp
      BY <2>2, <2>3, <2>4
    <2>. DEFINE v == IF found # 0 THEN NoStamp
                     ELSE [stamps[StartId] EXCEPT !.phase = "late"]
    <2>6. v \in Stamp
      BY <2>5, <2>3
    <2>7. stamps' = [stamps EXCEPT ![StartId] = v]
      BY <1>5 DEF WaitEnds
    <2>. HIDE DEF v
    <2>8. stamps' \in [DispatchIds -> Stamp]
      BY <2>6, <2>7, <2>3
    <2>. QED BY <1>5, <2>1, <2>8 DEF WaitEnds, TypeOK, mail, history
  <1>6. CASE RecordStart
    <2>. DEFINE st == IF start.ready THEN "ready" ELSE "unknown"
    <2>1. PushRow(st, start.terminal) /\ start' \in Start /\ st \in RowStates
      BY <1>6, <1>a DEF RecordStart, RowStates
    <2>. HIDE DEF st
    <2>2. RowsOK(dispatches')
      BY <1>6, <1>a, <2>1, PushRowType DEF RecordStart, NoStart
    <2>. QED BY <2>1, <2>2 DEF TypeOK, PushRow, mail, history, RowsOK
  <1>. QED BY <1>1, <1>2, <1>3, <1>4, <1>5, <1>6 DEF StartStep

\* What the window, the user and the terminals do keeps the types.
LEMMA TerminalStepType ==
    ASSUME TypeOK, TerminalStep
    PROVE  TypeOK'
  <1>. USE Bounds
  <1>1. PICK t \in Terms : \/ OpenTerminal(t)
                           \/ \E n \in notices : WindowStarts(n, t)
                           \/ TerminalExits(t)
                           \/ CloseTerminal(t)
                           \/ ExitHandled(t)
    BY DEF TerminalStep
  <1>2. CASE OpenTerminal(t) \/ TerminalExits(t) \/ CloseTerminal(t)
    BY <1>2 DEF OpenTerminal, TerminalExits, CloseTerminal, TypeOK, stored,
                process, history
  <1>3. ASSUME NEW n \in notices, WindowStarts(n, t)
        PROVE  TypeOK'
    <2>1. n \in Notice
      BY DEF TypeOK
    <2>2. /\ terms' \in [Terms -> {"unopened", "open", "exiting", "ended", "closed"}]
          /\ startedFor' \in [Terms -> Notice]
          /\ notices' \subseteq Notice
      BY <1>3, <2>1 DEF WindowStarts, TypeOK
    <2>3. \A x \in Stamp : [x EXCEPT !.session = t] \in Stamp
      BY DEF Stamp, Terms
    <2>4. stamps' \in [DispatchIds -> Stamp]
      BY <1>3, <2>3 DEF WindowStarts, TypeOK
    <2>. QED BY <1>3, <2>2, <2>4 DEF WindowStarts, TypeOK, stored, history
  <1>4. CASE ExitHandled(t)
    <2>1. \A i \in DOMAIN dispatches : dispatches[i] \in Row
      BY DEF TypeOK
    <2>2. \A r \in Row : [r EXCEPT !.exited = TRUE] \in Row
      BY DEF Row
    <2>3. dispatches' \in [DOMAIN dispatches -> Row]
      BY <1>4, <2>1, <2>2 DEF ExitHandled
    <2>4. RowsOK(dispatches')
      BY <2>3, MappedSeq DEF TypeOK, RowsOK
    <2>. QED BY <1>4, <2>4 DEF ExitHandled, TypeOK, mail, process, history, RowsOK
  <1>. QED BY <1>1, <1>2, <1>3, <1>4

\* The lists as a release reads them: DS with row i opened again for its late
\* agent.
LEMMA ReopenedType ==
    ASSUME NEW d \in Row
    PROVE  /\ Reopened(d) \in Row
           /\ Reopened(d).status = d.status /\ Reopened(d).task = d.task
  <1>. DEFINE rel == IF d.release = "done" THEN "none" ELSE d.release
              e == [d EXCEPT !.release = rel, !.leftOpen = FALSE]
  <1>1. rel \in {"none", "pending", "unknown", "done"}
    BY DEF Row
  <1>. HIDE DEF rel
  <1>2. e \in Row /\ e.status = d.status /\ e.task = d.task
    BY <1>1 DEF Row
  <1>3. Reopened(d) \in {d, SpendLate(d), e}
    BY DEF Reopened, rel
  <1>. QED BY <1>2, <1>3, SpentRow

\* The end of a release moves neither the status nor the task of its row.
LEMMA ReleaseDoneType ==
    ASSUME NEW d \in Row, NEW w
    PROVE  /\ ReleaseDone(d, w) \in Row
           /\ ReleaseDone(d, w).status = d.status
           /\ ReleaseDone(d, w).task = d.task
  <1>. DEFINE r == [d EXCEPT !.release = "done", !.retained = FALSE]
  <1>1. r \in Row /\ r.status = d.status /\ r.task = d.task
    BY DEF Row
  <1>2. ReleaseDone(d, w) \in {r, SpendLate(r)}
    BY DEF ReleaseDone
  <1>. HIDE DEF r
  <1>. QED BY <1>1, <1>2, SpentRow

\* Nor does showing a row.
LEMMA ReadLateType ==
    ASSUME NEW d \in Row
    PROVE  /\ ReadLate(d) \in Row
           /\ ReadLate(d).status = d.status /\ ReadLate(d).task = d.task
  <1>1. \A l \in {"spent", "shown"} :
          LET e == [d EXCEPT !.late = l]
          IN e \in Row /\ e.status = d.status /\ e.task = d.task
    BY DEF Row
  <1>2. \/ ReadLate(d) = d
        \/ \E l \in {"spent", "shown"} : ReadLate(d) = [d EXCEPT !.late = l]
    BY DEF ReadLate
  <1>. QED BY <1>1, <1>2

\* One row of ds replaced by one that has its task and its status.
LEMMA RowKept ==
    ASSUME NEW ds \in Seq(Row), NEW i \in DOMAIN ds, NEW e \in Row,
           e.status = ds[i].status, e.task = ds[i].task
    PROVE  KeptRows(ds, [ds EXCEPT ![i] = e])
  <1>1. /\ [ds EXCEPT ![i] = e] \in Seq(Row)
        /\ Len([ds EXCEPT ![i] = e]) = Len(ds)
    BY ExceptSeq
  <1>2. \A j \in DOMAIN ds : [ds EXCEPT ![i] = e][j] = IF j = i THEN e ELSE ds[j]
    OBVIOUS
  <1>. QED BY <1>1, <1>2 DEF KeptRows

-----------------------------------------------------------------------------
(* Who holds which task, over the rewritings of the lists.                 *)

\* The one way a rewriting can break Held is to take a task from a row that
\* goes on.  Here only the task held by row i may lose its worker, and row i,
\* if there is one, has ended.
Moves(ts, ds, us, es, i) ==
    /\ DOMAIN es = DOMAIN ds
    /\ DOMAIN ts \subseteq DOMAIN us
    /\ \A j \in DOMAIN ds : /\ es[j].task = ds[j].task
                            /\ Finished(ds[j]) => Finished(es[j])
    /\ i \in DOMAIN ds => Finished(es[i])
    /\ \A x \in DOMAIN ts :
          ts[x].status = "dispatched" /\ ts[x].dispatch # i =>
             us[x].status = "dispatched" /\ us[x].dispatch = ts[x].dispatch

\* Such a rewriting keeps every unfinished row's hold of its task.
LEMMA HeldMoves ==
    ASSUME NEW ts, NEW ds, NEW us, NEW es, NEW i,
           Moves(ts, ds, us, es, i), Held(ts, ds)
    PROVE  Held(us, es)
  BY DEF Held, Moves

\* What a command may write: lists of the right type that keep Held.
Written(ts, ds) ==
    /\ TasksOK(ts)
    /\ RowsOK(ds)
    /\ Held(tasks, dispatches) => Held(ts, ds)

\* The lists as they are stored, and as a command reads them, may be written
\* back.
LEMMA ReadWritten ==
    ASSUME TypeOK
    PROVE  /\ Written(TS, DS) /\ Written(TS, dispatches)
           /\ Written(tasks, dispatches)
  <1>1. TasksOK(tasks) /\ RowsOK(dispatches) /\ TasksOK(TS) /\ RowsOK(DS)
    BY ListsRead DEF TypeOK, TasksOK, RowsOK
  <1>2. /\ DOMAIN TS = DOMAIN tasks
        /\ \A x \in DOMAIN tasks : tasks[x].status = "dispatched" =>
              TS[x].status = "dispatched" /\ TS[x].dispatch = tasks[x].dispatch
    BY <1>1, ListsRead, PromoteType DEF TS, TasksOK
  <1>3. /\ DOMAIN DS = DOMAIN dispatches
        /\ \A j \in DOMAIN dispatches :
              /\ DS[j].task = dispatches[j].task
              /\ DS[j].status = dispatches[j].status
    BY ListsRead, DSKeeps DEF KeptRows
  <1>4. \A j \in DOMAIN dispatches : Finished(dispatches[j]) => Finished(DS[j])
    BY <1>3 DEF Finished
  <1>5. 0 \notin DOMAIN dispatches
    BY <1>1 DEF RowsOK
  <1>6. Moves(tasks, dispatches, TS, DS, 0)
    BY <1>2, <1>3, <1>4, <1>5 DEF Moves
  <1>7. Moves(tasks, dispatches, TS, dispatches, 0)
    BY <1>2, <1>5 DEF Moves
  <1>. QED BY <1>1, <1>6, <1>7, HeldMoves DEF Written

\* A rewriting as in HeldMoves of lists that may be written.
LEMMA WrittenMoves ==
    ASSUME NEW ts, NEW ds, NEW us, NEW es, NEW i, Written(ts, ds),
           TasksOK(us), RowsOK(es), Moves(ts, ds, us, es, i)
    PROVE  Written(us, es)
  BY HeldMoves DEF Written

\* Rows rewritten without touching a status or a task.
LEMMA WrittenKept ==
    ASSUME NEW ts, NEW ds, NEW es, Written(ts, ds), KeptRows(ds, es)
    PROVE  Written(ts, es)
  <1>1. RowsOK(es) /\ Len(es) = Len(ds)
    BY DEF Written, RowsOK, KeptRows
  <1>2. DOMAIN es = DOMAIN ds
    BY <1>1 DEF Written, RowsOK
  <1>3. \A j \in DOMAIN ds : /\ es[j].task = ds[j].task
                             /\ Finished(ds[j]) => Finished(es[j])
    BY DEF KeptRows, Finished
  <1>4. 0 \notin DOMAIN ds
    BY DEF Written, RowsOK
  <1>5. Moves(ts, ds, ts, es, 0)
    BY <1>2, <1>3, <1>4 DEF Moves
  <1>. QED BY <1>1, <1>5, WrittenMoves DEF Written

\* promote takes no task from its worker.
LEMMA WrittenPromote ==
    ASSUME NEW ts, NEW ds, Written(ts, ds)
    PROVE  Written(Promote(ts), ds)
  <1>1. /\ TasksOK(Promote(ts)) /\ DOMAIN Promote(ts) = DOMAIN ts
        /\ \A x \in DOMAIN ts : ts[x].status = "dispatched" =>
              /\ Promote(ts)[x].status = "dispatched"
              /\ Promote(ts)[x].dispatch = ts[x].dispatch
    BY PromoteType DEF Written, TasksOK
  <1>2. 0 \notin DOMAIN ds
    BY DEF Written, RowsOK
  <1>3. Moves(ts, ds, Promote(ts), ds, 0)
    BY <1>1, <1>2 DEF Moves
  <1>. QED BY <1>1, <1>3, WrittenMoves DEF Written

\* Row i ends and its task is handed back.
LEMMA WrittenHandBack ==
    ASSUME NEW ts, NEW ds, NEW es, NEW k, NEW i, Written(ts, ds),
           RowsOK(es), Len(es) = Len(ds),
           \A j \in DOMAIN ds : /\ es[j].task = ds[j].task
                                /\ Finished(ds[j]) => Finished(es[j]),
           i \in DOMAIN ds => Finished(es[i])
    PROVE  Written(HandBack(ts, k, i), es)
  <1>. DEFINE us == HandBack(ts, k, i)
  <1>1. /\ us \in Seq(Task) /\ Len(us) = Len(ts)
        /\ \A x \in DOMAIN ts : \/ us[x] = ts[x]
                                \/ ts[x].status = "dispatched" /\ ts[x].dispatch = i
    BY HandBackType DEF Written, TasksOK
  <1>. HIDE DEF us
  <1>2. /\ TasksOK(us) /\ DOMAIN us = DOMAIN ts
        /\ DOMAIN es = DOMAIN ds
    BY <1>1 DEF Written, TasksOK, RowsOK
  <1>3. Moves(ts, ds, us, es, i)
    BY <1>1, <1>2 DEF Moves
  <1>. QED BY <1>2, <1>3, WrittenMoves DEF us

\* A save of lists that may be written keeps the invariant.
LEMMA SaveInv ==
    ASSUME IInv, NoStart, NEW ts, NEW ds, Written(ts, ds), Save(ts, ds),
           terms' \in [Terms -> {"unopened", "open", "exiting", "ended", "closed"}],
           gates' \in Seq(Gate), Len(gates') <= MaxGates,
           doneMail' \subseteq DispatchIds
    PROVE  IInv'
  <1>1. TypeOK'
    BY SaveType DEF IInv, Written
  <1>2. StartHolds'
    BY DEF IInv, StartHolds, Save, process, NoStart
  <1>3. Written(ts, dispatches')
    <2>1. dispatches' = SpendGone(ds, terms')
      BY DEF Save
    <2>2. KeptRows(ds, dispatches')
      BY <2>1, SpendGoneKeeps DEF Written, RowsOK
    <2>. QED BY <2>2, WrittenKept
  <1>. QED BY <1>1, <1>2, <1>3 DEF IInv, Written, Save, history

\* So does a save of the two lists alone.
LEMMA SaveListsInv ==
    ASSUME IInv, NoStart, NEW ts, NEW ds, Written(ts, ds), SaveLists(ts, ds)
    PROVE  IInv'
  <1>1. Save(ts, ds) /\ UNCHANGED <<terms, gates, doneMail>>
    BY DEF SaveLists, mail
  <1>. QED BY <1>1, SaveInv DEF IInv, TypeOK

\* So does the end of the process, which only a reset may reach with lists
\* that do not keep Held.
LEMMA DieInv ==
    ASSUME IInv, NEW ts, NEW ds, NEW how \in SUBSET {"start", "reset"},
           TasksOK(ts), RowsOK(ds), DieWith(ts, ds, how),
           "reset" \notin how => Written(ts, ds)
    PROVE  IInv'
  <1>1. TypeOK'
    BY DieType DEF IInv
  <1>2. StartHolds'
    BY DEF StartHolds, DieWith, Idle, NoStart
  <1>3. Written(ts, ds) => Written(ts, dispatches')
    <2>1. dispatches' = CutShort(ds)
      BY DEF DieWith
    <2>2. /\ RowsOK(dispatches') /\ Len(dispatches') = Len(ds)
          /\ DOMAIN dispatches' = DOMAIN ds
          /\ \A j \in DOMAIN ds : /\ dispatches'[j].task = ds[j].task
                                  /\ Finished(ds[j]) => Finished(dispatches'[j])
      BY <2>1, CutShortType DEF RowsOK
    <2>3. 0 \notin DOMAIN ds
      BY DEF RowsOK
    <2>4. Moves(ts, ds, ts, dispatches', 0)
      BY <2>2, <2>3 DEF Moves
    <2>. QED BY <2>2, <2>4, WrittenMoves DEF Written
  <1>. QED BY <1>1, <1>2, <1>3 DEF IInv, Written, DieWith

\* So does the claim of a task that no unfinished row holds: the start in
\* flight holds it from then on.
LEMMA ClaimInv ==
    ASSUME IInv, NoStart, StartId <= MaxDispatches, NEW ts, NEW k \in DOMAIN ts,
           Written(ts, dispatches'), Len(dispatches') = Len(dispatches),
           Claim(ts, k),
           "reset" \notin lost =>
              \A i \in DOMAIN dispatches' :
                 dispatches'[i].task = k => Finished(dispatches'[i])
    PROVE  IInv'
  <1>. USE Bounds
  <1>1. TypeOK'
    BY ClaimType DEF IInv, Written
  <1>2. tasks' = Given(ts, k, "dispatched", StartId)
    BY DEF Claim, Given
  <1>3. ts \in Seq(Task) /\ StartId \in Nat /\ "dispatched" \in TaskStates
    BY DEF Written, TasksOK, StartId, IInv, TypeOK, TaskStates
  <1>4. /\ Len(tasks') = Len(ts) /\ tasks' \in Seq(Task)
        /\ tasks'[k].status = "dispatched" /\ tasks'[k].dispatch = StartId
        /\ \A x \in DOMAIN ts : x # k => tasks'[x] = ts[x]
    BY <1>2, <1>3, TaskSet
  <1>5. DOMAIN tasks' = DOMAIN ts
    BY <1>3, <1>4
  <1>6. StartHolds'
    <2>1. start' = [phase |-> "placing", task |-> k, terminal |-> 0, ready |-> FALSE]
      BY DEF Claim, Idle
    <2>2. StartId' = StartId
      BY DEF StartId
    <2>. QED BY <2>1, <2>2, <1>4, <1>5 DEF StartHolds, NoStart
  <1>7. "reset" \notin lost' => Held(tasks', dispatches')
    <2>1. lost' = lost
      BY DEF Claim, history
    <2>2. "reset" \notin lost => Held(ts, dispatches')
      BY DEF IInv, Written
    <2>. QED BY <2>1, <2>2, <1>4, <1>5 DEF Held
  <1>. QED BY <1>1, <1>6, <1>7 DEF IInv

-----------------------------------------------------------------------------
(* Each group of actions preserves the invariant.                          *)

\* A new task appended to lists that may be written.
LEMMA WrittenNewTask ==
    ASSUME TypeOK, NEW ts, NEW ds, Written(ts, ds), Len(ts) = Len(tasks),
           Len(tasks) < MaxTasks, NEW deps \in SUBSET TaskIds
    PROVE  LET new == [status |-> "pending", dispatch |-> 0, deps |-> deps]
           IN /\ Written(Append(ts, new), ds)
              /\ Len(ts) + 1 \in DOMAIN Append(ts, new)
              /\ \A x \in DOMAIN ts : Append(ts, new)[x] = ts[x]
  <1>. DEFINE new == [status |-> "pending", dispatch |-> 0, deps |-> deps]
  <1>1. TasksOK(Append(ts, new)) /\ new \in Task
    BY NewTaskType DEF Written
  <1>2. ts \in Seq(Task)
    BY DEF Written, TasksOK
  <1>. HIDE DEF new
  <1>3. /\ DOMAIN Append(ts, new) = 1..(Len(ts) + 1)
        /\ DOMAIN ts = 1..Len(ts) /\ Len(ts) \in Nat
        /\ \A x \in DOMAIN ts : Append(ts, new)[x] = ts[x]
    BY <1>1, <1>2
  <1>4. 0 \notin DOMAIN ds
    BY DEF Written, RowsOK
  <1>5. Moves(ts, ds, Append(ts, new), ds, 0)
    BY <1>3, <1>4 DEF Moves
  <1>6. Written(Append(ts, new), ds)
    BY <1>1, <1>5, WrittenMoves DEF Written
  <1>. QED BY <1>3, <1>6 DEF new

\* The update of a task that UpdateAllowed lets through.
LEMMA WrittenUpdate ==
    ASSUME NEW ts, NEW ds, Written(ts, ds), NEW k \in DOMAIN ts,
           NEW to \in TaskStates, NEW c, UpdateAllowed(ts, ds, k, to, c)
    PROVE  Written(Promote(UpdatedTasks(ts, k, to)), UpdatedRows(ts, ds, k, to))
  <1>. DEFINE us == UpdatedTasks(ts, k, to)
              es == UpdatedRows(ts, ds, k, to)
              i == IF to = "dispatched" THEN 0 ELSE OpenDispatch(ts, k)
  <1>1. ts \in Seq(Task) /\ ds \in Seq(Row) /\ 0 \notin DOMAIN ds
    BY DEF Written, TasksOK, RowsOK
  <1>2. /\ us \in Seq(Task) /\ Len(us) = Len(ts) /\ us[k].status = to
        /\ to = "dispatched" => us[k].dispatch = ts[k].dispatch
        /\ \A x \in DOMAIN ts : x # k => us[x] = ts[x]
    BY <1>1, UpdatedTasksType
  <1>3. /\ es \in Seq(Row) /\ Len(es) = Len(ds)
        /\ \A j \in DOMAIN ds : es[j].task = ds[j].task
        /\ \A j \in DOMAIN ds :
              es[j] = ds[j] \/ (j = OpenDispatch(ts, k) /\ Finished(es[j]))
        /\ to # "dispatched" /\ OpenDispatch(ts, k) \in DOMAIN ds =>
              Finished(es[OpenDispatch(ts, k)])
    BY <1>1, UpdatedRowsType
  <1>4. TasksOK(us) /\ RowsOK(es) /\ DOMAIN us = DOMAIN ts /\ DOMAIN es = DOMAIN ds
    BY <1>1, <1>2, <1>3 DEF Written, TasksOK, RowsOK
  <1>. HIDE DEF us, es
  <1>5. Moves(ts, ds, us, es, i)
    <2>1. i \in DOMAIN ds => Finished(es[i])
      BY <1>1, <1>3
    <2>2. \A x \in DOMAIN ts :
             ts[x].status = "dispatched" /\ ts[x].dispatch # i =>
                us[x].status = "dispatched" /\ us[x].dispatch = ts[x].dispatch
      BY <1>2 DEF OpenDispatch, UpdateAllowed
    <2>. QED BY <1>3, <1>4, <2>1, <2>2 DEF Moves
  <1>6. Written(us, es)
    BY <1>4, <1>5, WrittenMoves
  <1>. QED BY <1>6, WrittenPromote DEF us, es

\* Task k, which no dispatch holds, given the status st.
LEMMA WrittenMarked ==
    ASSUME NEW ts, NEW ds, Written(ts, ds), NEW k \in DOMAIN ts,
           NEW st \in TaskStates, ts[k].status # "dispatched"
    PROVE  Written(Marked(ts, k, st), ds)
  <1>1. ts \in Seq(Task) /\ 0 \notin DOMAIN ds
    BY DEF Written, TasksOK, RowsOK
  <1>2. /\ Marked(ts, k, st) \in Seq(Task) /\ Len(Marked(ts, k, st)) = Len(ts)
        /\ \A x \in DOMAIN ts : x # k => Marked(ts, k, st)[x] = ts[x]
    BY <1>1, TaskStatusSet
  <1>3. TasksOK(Marked(ts, k, st)) /\ DOMAIN Marked(ts, k, st) = DOMAIN ts
    BY <1>1, <1>2 DEF Written, TasksOK
  <1>4. Moves(ts, ds, Marked(ts, k, st), ds, 0)
    BY <1>1, <1>2, <1>3 DEF Moves
  <1>. QED BY <1>3, <1>4, WrittenMoves DEF Written

\* Every command on a task keeps the invariant.
LEMMA TaskCommandInv ==
    ASSUME IInv, TaskCommand
    PROVE  IInv'
  <1>. USE Bounds
  <1>a. /\ TypeOK /\ Written(TS, DS) /\ Written(TS, dispatches)
        /\ Written(tasks, dispatches)
        /\ Len(TS) = Len(tasks) /\ DOMAIN TS = DOMAIN tasks
        /\ TS \in Seq(Task) /\ Len(tasks) \in Nat
    BY ReadWritten, PromoteType, ListsRead DEF IInv, TypeOK, TS, TasksOK
  <1>1. CASE TaskCreate
    <2>1. PICK deps \in SUBSET DOMAIN tasks :
            SaveLists(Promote(Append(TS, [status |-> "pending", dispatch |-> 0,
                                          deps |-> deps])), DS)
      BY <1>1 DEF TaskCreate
    <2>. DEFINE new == [status |-> "pending", dispatch |-> 0, deps |-> deps]
    <2>2. Written(Append(TS, new), DS)
      <3>1. deps \in SUBSET TaskIds
        BY <1>a DEF TypeOK, TaskIds
      <3>. QED BY <1>1, <1>a, <3>1, WrittenNewTask DEF TaskCreate
    <2>. HIDE DEF new
    <2>3. Written(Promote(Append(TS, new)), DS)
      BY <2>2, WrittenPromote
    <2>4. NoStart
      BY <1>1 DEF TaskCreate, May
    <2>. QED BY <2>1, <2>3, <2>4, SaveListsInv DEF new
  <1>2. CASE Read
    BY <1>2, <1>a, SaveListsInv DEF Read, May
  <1>3. CASE StartSpec
    <2>1. PICK deps \in SUBSET TaskIds :
            Claim(Append(tasks, [status |-> "pending", dispatch |-> 0,
                                 deps |-> deps]), Len(tasks) + 1)
      BY <1>3 DEF StartSpec
    <2>. DEFINE new == [status |-> "pending", dispatch |-> 0, deps |-> deps]
                k == Len(tasks) + 1
    <2>2. /\ Written(Append(tasks, new), dispatches)
          /\ k \in DOMAIN Append(tasks, new)
      BY <1>3, <1>a, WrittenNewTask DEF StartSpec
    <2>3. NoStart /\ StartId <= MaxDispatches /\ dispatches' = dispatches
      BY <1>3 DEF StartSpec, May
    <2>4. k \notin DOMAIN tasks
      BY <1>a DEF IInv, TypeOK
    <2>5. "reset" \notin lost => \A i \in DOMAIN dispatches' :
            dispatches'[i].task = k => Finished(dispatches'[i])
      BY <2>3, <2>4 DEF IInv, Held
    <2>. HIDE DEF new, k
    <2>6. Claim(Append(tasks, new), k)
      BY <2>1 DEF new, k
    <2>. QED BY <2>2, <2>3, <2>5, <2>6, ClaimInv
  <1>4. ASSUME NEW k \in DOMAIN tasks, BreakerReset(k)
        PROVE  IInv'
    <2>. DEFINE es == [i \in DOMAIN DS |-> IF i \in FailedDispatches(DS, k)
                                         THEN [DS[i] EXCEPT !.cleared = TRUE]
                                         ELSE DS[i]]
    <2>1. DS \in Seq(Row) /\ \A i \in DOMAIN DS : DS[i] \in Row
      BY <1>a DEF Written, RowsOK
    <2>2. \A r \in Row : LET e == [r EXCEPT !.cleared = TRUE]
                         IN e \in Row /\ e.status = r.status /\ e.task = r.task
      BY DEF Row
    <2>3. /\ es \in [DOMAIN DS -> Row]
          /\ \A i \in DOMAIN DS : es[i].status = DS[i].status /\ es[i].task = DS[i].task
      BY <2>1, <2>2
    <2>4. SaveLists(TS, es) /\ NoStart
      BY <1>4 DEF BreakerReset, May
    <2>. HIDE DEF es
    <2>5. KeptRows(DS, es)
      BY <2>1, <2>3, MappedSeq DEF KeptRows
    <2>6. Written(TS, es)
      BY <1>a, <2>5, WrittenKept
    <2>. QED BY <2>4, <2>6, SaveListsInv
  <1>5. ASSUME NEW k \in DOMAIN tasks, GateCreate(k)
        PROVE  IInv'
    <2>. DEFINE ts == Marked(TS, k, "blocked")
    <2>1. Written(ts, DS)
      BY <1>5, <1>a, WrittenMarked DEF TaskStates, GateCreate
    <2>2. CASE /\ gates' = Append(gates, [task |-> k, pending |-> TRUE])
               /\ UNCHANGED <<terms, doneMail>>
               /\ Save(ts, DS)
      <3>1. [task |-> k, pending |-> TRUE] \in Gate
        BY <1>a DEF Gate, TaskIds, TypeOK
      <3>2. gates' \in Seq(Gate) /\ Len(gates') <= MaxGates
        BY <2>2, <3>1, <1>5, <1>a DEF GateCreate, TypeOK
      <3>3. NoStart
        BY <1>5 DEF GateCreate, May
      <3>. HIDE DEF ts
      <3>. QED BY <2>1, <2>2, <3>2, <3>3, <1>a, SaveInv DEF TypeOK
    <2>3. CASE DieWith(ts, DS, {})
      <3>. HIDE DEF ts
      <3>. QED BY <2>1, <2>3, DieInv DEF Written
    <2>. QED BY <1>5, <2>2, <2>3 DEF GateCreate, Marked
  <1>6. ASSUME NEW k \in DOMAIN tasks, StartTask(k)
        PROVE  IInv'
    <2>1. /\ NoStart /\ StartId <= MaxDispatches /\ dispatches' = dispatches
          /\ Claim(tasks, k) /\ tasks[k].status # "dispatched"
      BY <1>6 DEF StartTask, May
    <2>2. "reset" \notin lost => \A i \in DOMAIN dispatches' :
            dispatches'[i].task = k => Finished(dispatches'[i])
      BY <2>1 DEF IInv, Held
    <2>. QED BY <2>1, <2>2, <1>a, ClaimInv
  <1>7. ASSUME NEW k \in DOMAIN tasks, NEW t \in Terms, Dispatch(k, t)
        PROVE  IInv'
    <2>. DEFINE n == Len(dispatches) + 1
                ts == Given(TS, k, "dispatched", n)
                new == NewRow(k, "running", t, TRUE)
                ds == Append(DS, new)
    <2>1. /\ TS \in Seq(Task) /\ k \in DOMAIN TS /\ "dispatched" \in TaskStates
          /\ n \in Nat /\ TS[k].status = "ready"
      BY <1>7, <1>a DEF TaskStates, TypeOK, Dispatch
    <2>2. /\ ts \in Seq(Task) /\ Len(ts) = Len(TS)
          /\ ts[k].status = "dispatched" /\ ts[k].dispatch = n
          /\ \A x \in DOMAIN TS : x # k => ts[x] = TS[x]
      BY <2>1, TaskSet
    <2>3. new \in Row /\ new.task = k
      <3>1. k \in TaskIds
        BY <1>a DEF TaskIds, TypeOK
      <3>2. "running" \in RowStates /\ t \in 0..MaxTerms
        BY DEF RowStates, Terms
      <3>. QED BY <3>1, <3>2, <1>a, NewRowType
    <2>4. Len(DS) = Len(dispatches) /\ n <= MaxDispatches /\ DS \in Seq(Row)
      BY <1>7, <1>a, DSKeeps DEF KeptRows, Dispatch, Written, RowsOK, TypeOK
    <2>5. SaveLists(ts, ds) /\ NoStart
      BY <1>7 DEF Dispatch, Given, May
    <2>. HIDE DEF ts, new, n
    <2>6. /\ ds \in Seq(Row) /\ Len(ds) = Len(DS) + 1
          /\ ds[Len(DS) + 1] = new
          /\ \A i \in DOMAIN DS : ds[i] = DS[i]
      BY <2>3, <2>4
    <2>. HIDE DEF ds
    <2>7. Len(DS) + 1 = n /\ DOMAIN ds = DOMAIN DS \cup {n} /\ DOMAIN ts = DOMAIN TS
      BY <2>1, <2>2, <2>4, <2>6 DEF n
    <2>8. TasksOK(ts) /\ RowsOK(ds)
      BY <1>a, <2>2, <2>4, <2>6, <2>7 DEF TasksOK, RowsOK, Written
    <2>9. ASSUME Held(TS, DS) PROVE Held(ts, ds)
      BY <2>1, <2>2, <2>3, <2>6, <2>7, <2>9 DEF Held
    <2>10. Written(ts, ds)
      BY <1>a, <2>8, <2>9 DEF Written
    <2>. QED BY <2>5, <2>10, SaveListsInv
  <1>8. ASSUME NEW k \in DOMAIN tasks, NEW to \in TaskStates, NEW c \in Callers,
               TaskUpdate(k, to, c)
        PROVE  IInv'
    <2>1. /\ NoStart /\ UpdateAllowed(TS, DS, k, to, c)
          /\ SaveLists(Promote(UpdatedTasks(TS, k, to)), UpdatedRows(TS, DS, k, to))
      BY <1>8 DEF TaskUpdate, May
    <2>2. Written(Promote(UpdatedTasks(TS, k, to)), UpdatedRows(TS, DS, k, to))
      BY <2>1, <1>a, WrittenUpdate
    <2>. QED BY <2>1, <2>2, SaveListsInv
  <1>. QED BY <1>1, <1>2, <1>3, <1>4, <1>5, <1>6, <1>7, <1>8 DEF TaskCommand

\* Row i of ds ends with status st, and its task is handed back.
LEMMA WrittenEnded ==
    ASSUME NEW ts, NEW ds, Written(ts, ds), NEW i \in DOMAIN ds, NEW k,
           NEW st \in FINISHED
    PROVE  /\ Written(HandBack(ts, k, i), Ended(ds, i, st))
           /\ Ended(ds, i, st)[i] \in Row
           /\ Finished(Ended(ds, i, st)[i])
           /\ Ended(ds, i, st) \in Seq(Row)
           /\ Len(Ended(ds, i, st)) = Len(ds)
  <1>. DEFINE es == Ended(ds, i, st)
  <1>1. ds \in Seq(Row) /\ st \in RowStates
    BY DEF Written, RowsOK, RowStates
  <1>2. /\ es \in Seq(Row) /\ Len(es) = Len(ds)
        /\ es[i].status = st /\ es[i].task = ds[i].task
        /\ \A j \in DOMAIN ds : j # i => es[j] = ds[j]
    BY <1>1, StatusSet
  <1>. HIDE DEF es
  <1>3. Finished(es[i]) /\ RowsOK(es) /\ es[i] \in Row
    BY <1>1, <1>2 DEF Finished, RowsOK, Written
  <1>4. \A j \in DOMAIN ds : /\ es[j].task = ds[j].task
                             /\ Finished(ds[j]) => Finished(es[j])
    BY <1>2, <1>3
  <1>5. Written(HandBack(ts, k, i), es)
    BY <1>2, <1>3, <1>4, WrittenHandBack
  <1>. QED BY <1>2, <1>3, <1>5 DEF es

\* worker-stop keeps it: the row ends with its task handed back.
LEMMA StopInv ==
    ASSUME IInv, NEW i \in DOMAIN dispatches, NEW theirs, Stop(i, theirs)
    PROVE  IInv'
  <1>. DEFINE d == DS[i]
              t == TerminalOf(d)
              ends == d.status # "stopped" /\ ~d.exited /\ t # 0
              keep == KeepOpen(DS, i, theirs)
              es == Ended(DS, i, "stopped")
              left == es[i].leftOpen \/ (ends /\ keep)
              e == [es[i] EXCEPT !.leftOpen = left]
              fs == [es EXCEPT ![i] = e]
  <1>1. /\ NoStart
        /\ terms' = IF ends /\ ~keep THEN Killed(t) ELSE terms
        /\ Save(HandBack(TS, d.task, i),
                [DS EXCEPT ![i].status = "stopped",
                           ![i].leftOpen = @ \/ (ends /\ keep)])
        /\ UNCHANGED <<gates, doneMail>>
    BY DEF Stop, May, mail
  <1>2. TypeOK /\ Written(TS, DS) /\ i \in DOMAIN DS /\ DS \in Seq(Row)
        /\ "stopped" \in FINISHED /\ DS[i] \in Row
    BY ReadWritten, ListsRead DEF IInv, Written, RowsOK, FINISHED
  <1>3. /\ Written(HandBack(TS, d.task, i), es)
        /\ es[i] \in Row /\ es \in Seq(Row) /\ Len(es) = Len(DS)
    BY <1>2, WrittenEnded
  <1>4. [DS EXCEPT ![i].status = "stopped",
                   ![i].leftOpen = @ \/ (ends /\ keep)] = fs
    BY <1>2 DEF Ended, Row
  <1>5. terms' \in [Terms -> {"unopened", "open", "exiting", "ended", "closed"}]
    <2>1. terms \in [Terms -> {"unopened", "open", "exiting", "ended", "closed"}]
      BY <1>2 DEF TypeOK
    <2>2. terms' \in {terms, Killed(t)}
      BY <1>1
    <2>. HIDE DEF t
    <2>. QED BY <2>1, <2>2 DEF Killed
  <1>. HIDE DEF d, t, ends, keep, es
  <1>6. left \in BOOLEAN
    BY <1>3 DEF Row, ends, keep, KeepOpen
  <1>. HIDE DEF left
  <1>7. e \in Row /\ e.status = es[i].status /\ e.task = es[i].task
    BY <1>3, <1>6 DEF Row
  <1>. HIDE DEF e
  <1>8. KeptRows(es, fs)
    BY <1>2, <1>3, <1>7, RowKept
  <1>9. Written(HandBack(TS, d.task, i), fs)
    BY <1>3, <1>8, WrittenKept
  <1>. HIDE DEF fs
  <1>10. Save(HandBack(TS, d.task, i), fs)
    BY <1>1, <1>4 DEF d, t, ends, keep, es, fs, left, e
  <1>. QED BY <1>1, <1>2, <1>5, <1>9, <1>10, SaveInv DEF TypeOK

\* worker-release keeps it: it moves no status and no task.
LEMMA ReleaseInv ==
    ASSUME IInv, NEW i \in DOMAIN dispatches,
           \/ \E theirs \in BOOLEAN : ReleaseNoClose(i, theirs)
           \/ \E archived \in BOOLEAN : ReleaseAndClose(i, archived)
    PROVE  IInv'
  <1>. DEFINE wasLate == Late(DS[i]) /\ Live(DS[i].terminal)
              e == Reopened(DS[i])
              ds == [DS EXCEPT ![i] = e]
  <1>1. TypeOK /\ Written(TS, DS) /\ i \in DOMAIN DS /\ DS \in Seq(Row)
        /\ DS[i] \in Row
    BY ReadWritten, ListsRead DEF IInv, Written, RowsOK
  <1>2. e \in Row /\ e.status = DS[i].status /\ e.task = DS[i].task
    BY <1>1, ReopenedType
  <1>. HIDE DEF e
  <1>3. KeptRows(DS, ds) /\ ds[i] = e
    BY <1>1, <1>2, RowKept
  <1>. HIDE DEF ds
  <1>4. /\ Written(TS, ds) /\ ds \in Seq(Row) /\ i \in DOMAIN ds /\ ds[i] \in Row
    BY <1>1, <1>2, <1>3, WrittenKept DEF KeptRows
  \* Row i of ds replaced by a row of the same task and status may be written.
  <1>5. ASSUME NEW f \in Row, f.status = ds[i].status, f.task = ds[i].task
        PROVE  Written(TS, [ds EXCEPT ![i] = f])
    BY <1>4, <1>5, RowKept, WrittenKept
  <1>6. ASSUME NEW theirs \in BOOLEAN, ReleaseNoClose(i, theirs)
        PROVE  IInv'
    <2>. DEFINE handle == Live(TerminalOf(ds[i]))
                keep == handle /\ KeepOpen(ds, i, theirs)
                g == [ds[i] EXCEPT !.leftOpen = @ \/ keep]
                f == IF ds[i].release = "done" THEN ds[i]
                     ELSE ReleaseDone(g, wasLate)
    <2>1. NoStart /\ SaveLists(TS, [ds EXCEPT ![i] = f])
      BY <1>6 DEF ReleaseNoClose, May, ds, e
    <2>2. g = [ds[i] EXCEPT !.leftOpen = (ds[i].leftOpen \/ keep)]
      OBVIOUS
    <2>3. g \in Row /\ g.status = ds[i].status /\ g.task = ds[i].task
      <3>. DEFINE left == ds[i].leftOpen \/ keep
      <3>1. left \in BOOLEAN
        BY <1>4 DEF Row
      <3>2. g = [ds[i] EXCEPT !.leftOpen = left]
        BY <2>2
      <3>. HIDE DEF left, g
      <3>. QED BY <1>4, <3>1, <3>2 DEF Row
    <2>. HIDE DEF g
    <2>4. f \in Row /\ f.status = ds[i].status /\ f.task = ds[i].task
      BY <1>4, <2>3, ReleaseDoneType
    <2>. HIDE DEF f
    <2>. QED BY <1>5, <2>1, <2>4, SaveListsInv
  <1>7. ASSUME NEW archived \in BOOLEAN, ReleaseAndClose(i, archived)
        PROVE  IInv'
    <2>. DEFINE t == TerminalOf(ds[i])
                p == [ds[i] EXCEPT !.release = "pending"]
                pending == [ds EXCEPT ![i] = p]
                u == [p EXCEPT !.release = "unknown"]
                f == IF archived THEN ReleaseDone(p, wasLate) ELSE u
    <2>1. /\ NoStart
          /\ \/ /\ terms' = IF archived THEN Killed(t) ELSE terms
                /\ Save(TS, [pending EXCEPT ![i] = f])
                /\ UNCHANGED mail
             \/ DieWith(tasks, pending, {})
      BY <1>4, <1>7 DEF ReleaseAndClose, May, ds, e
    <2>2. p \in Row /\ p.status = ds[i].status /\ p.task = ds[i].task
      BY <1>4 DEF Row
    <2>3. u \in Row /\ u.status = ds[i].status /\ u.task = ds[i].task
      BY <1>4 DEF Row
    <2>. HIDE DEF p, u
    <2>4. f \in Row /\ f.status = ds[i].status /\ f.task = ds[i].task
      BY <2>2, <2>3, ReleaseDoneType
    <2>5. [pending EXCEPT ![i] = f] = [ds EXCEPT ![i] = f]
      OBVIOUS
    <2>. HIDE DEF f
    <2>6. Written(TS, [pending EXCEPT ![i] = f])
      BY <1>5, <2>4, <2>5
    <2>7. Written(tasks, pending)
      <3>1. KeptRows(dispatches, DS) /\ KeptRows(ds, pending)
        BY <1>1, <1>4, <2>2, DSKeeps, RowKept
      <3>. HIDE DEF pending
      <3>2. dispatches \in Seq(Row) /\ KeptRows(dispatches, ds)
        BY <1>1, <1>3, <3>1, KeptTwice DEF TypeOK
      <3>3. KeptRows(dispatches, pending)
        BY <3>1, <3>2, KeptTwice
      <3>. QED BY <1>1, <3>3, ReadWritten, WrittenKept
    <2>8. Killed(t) \in [Terms -> {"unopened", "open", "exiting", "ended", "closed"}]
      <3>. HIDE DEF t
      <3>. QED BY <1>1 DEF TypeOK, Killed
    <2>. HIDE DEF pending, t
    <2>9. CASE /\ terms' = IF archived THEN Killed(t) ELSE terms
               /\ Save(TS, [pending EXCEPT ![i] = f])
               /\ UNCHANGED mail
      BY <1>1, <2>1, <2>6, <2>8, <2>9, SaveInv DEF TypeOK, mail
    <2>10. CASE DieWith(tasks, pending, {})
      BY <2>7, <2>10, DieInv DEF Written
    <2>. QED BY <2>1, <2>9, <2>10
  <1>. QED BY <1>6, <1>7

\* A done report keeps it, saved whole or cut before its mail.
LEMMA ReportSettlesInv ==
    ASSUME IInv, NEW i \in DOMAIN dispatches, NEW from,
           NEW to \in Settled, ReportSettles(i, from, to)
    PROVE  IInv'
  <1>. DEFINE k == dispatches[i].task
              ts == Promote(UpdatedTasks(tasks, k, to))
              ds == UpdatedRows(tasks, dispatches, k, to)
  <1>1. /\ NoStart /\ k \in DOMAIN tasks
        /\ UpdateAllowed(tasks, dispatches, k, to, from)
        /\ \/ /\ tasks' = ts
              /\ dispatches' = ds
              /\ doneMail' = doneMail \cup {i}
              /\ UNCHANGED <<gates, terms, process, history>>
           \/ DieWith(ts, ds, {})
    BY DEF ReportSettles, May
  <1>2. TypeOK /\ Written(tasks, dispatches) /\ to \in TaskStates
    BY ReadWritten DEF IInv, Settled, TaskStates
  <1>3. Written(ts, ds)
    BY <1>1, <1>2, WrittenUpdate
  <1>4. i \in DispatchIds
    BY <1>2, Bounds DEF TypeOK, DispatchIds
  <1>. HIDE DEF ts, ds
  <1>5. CASE /\ tasks' = ts
             /\ dispatches' = ds
             /\ doneMail' = doneMail \cup {i}
             /\ UNCHANGED <<gates, terms, process, history>>
    <2>1. TypeOK'
      BY <1>2, <1>3, <1>4, <1>5 DEF TypeOK, Written, TasksOK, RowsOK, process, history
    <2>2. StartHolds'
      BY <1>1, <1>5 DEF IInv, StartHolds, process, NoStart
    <2>. QED BY <2>1, <2>2, <1>3, <1>5 DEF IInv, Written, history
  <1>6. CASE DieWith(ts, ds, {})
    BY <1>3, <1>6, DieInv DEF Written
  <1>. QED BY <1>1, <1>5, <1>6

\* A retry keeps it: the one row that held the task has ended when the new
\* start claims it.
LEMMA RetryInv ==
    ASSUME IInv, NEW k \in DOMAIN tasks, NEW r \in DOMAIN dispatches,
           StartRetry(k, r)
    PROVE  IInv'
  <1>. DEFINE fenced == tasks[k].status = "dispatched"
              es == Ended(dispatches, r, "abandoned")
              ds == IF fenced THEN es ELSE dispatches
  <1>1. /\ NoStart /\ StartId <= MaxDispatches
        /\ dispatches[r].task = k
        /\ fenced => tasks[k].dispatch = r
        /\ \/ Claim(tasks, k) /\ dispatches' = ds
           \/ fenced /\ DieWith(tasks, ds, {"start"})
    BY DEF StartRetry, RetryRows, May, Ended
  <1>2. TypeOK /\ Written(tasks, dispatches) /\ dispatches \in Seq(Row)
        /\ tasks \in Seq(Task)
    BY ReadWritten DEF IInv, TypeOK
  <1>3. /\ es \in Seq(Row) /\ Len(es) = Len(dispatches)
        /\ Finished(es[r]) /\ es[r].task = dispatches[r].task
        /\ \A j \in DOMAIN dispatches : j # r => es[j] = dispatches[j]
    <2>1. "abandoned" \in FINISHED /\ "abandoned" \in RowStates
      BY DEF RowStates, FINISHED
    <2>2. /\ es \in Seq(Row) /\ Len(es) = Len(dispatches)
          /\ es[r].status = "abandoned" /\ es[r].task = dispatches[r].task
          /\ \A j \in DOMAIN dispatches : j # r => es[j] = dispatches[j]
      BY <1>2, <2>1, StatusSet
    <2>. QED BY <2>1, <2>2 DEF Finished
  <1>. HIDE DEF es
  <1>4. RowsOK(es) /\ DOMAIN es = DOMAIN dispatches
    BY <1>2, <1>3 DEF RowsOK, Written
  \* No unfinished row is left that holds k, so the claim takes it from none.
  <1>5. CASE Claim(tasks, k) /\ dispatches' = ds
    <2>1. RowsOK(ds) /\ Len(ds) = Len(dispatches) /\ DOMAIN ds = DOMAIN dispatches
      BY <1>2, <1>3, <1>4 DEF Written
    <2>2. \A j \in DOMAIN dispatches : ~Finished(ds[j]) =>
             ds[j] = dispatches[j] /\ (fenced => j # r)
      BY <1>3
    <2>3. Held(tasks, dispatches) =>
             /\ Held(tasks, ds)
             /\ \A j \in DOMAIN ds : ds[j].task = k => Finished(ds[j])
      BY <1>1, <2>1, <2>2 DEF Held
    <2>. HIDE DEF ds
    <2>4. Written(tasks, dispatches')
      BY <1>2, <1>5, <2>1, <2>3 DEF Written
    <2>. QED BY <1>1, <1>5, <2>1, <2>3, <2>4, ClaimInv DEF IInv
  \* The crash comes after the row was fenced off and before the claim.
  <1>6. CASE fenced /\ DieWith(tasks, ds, {"start"})
    <2>1. ds = es
      BY <1>6
    <2>. HIDE DEF ds
    <2>2. ASSUME Held(tasks, dispatches) PROVE Held(tasks, ds)
      <3>1. \A j \in DOMAIN dispatches : ~Finished(es[j]) => es[j] = dispatches[j]
        BY <1>3
      <3>. QED BY <1>4, <2>1, <2>2, <3>1 DEF Held
    <2>3. Written(tasks, ds)
      BY <1>2, <1>4, <2>1, <2>2 DEF Written
    <2>. QED BY <1>6, <2>3, DieInv DEF Written
  <1>. QED BY <1>1, <1>5, <1>6

\* Every command on a dispatch keeps the invariant.
LEMMA RowCommandInv ==
    ASSUME IInv, RowCommand
    PROVE  IInv'
  <1>1. PICK i \in DOMAIN dispatches :
           \/ Abandon(i)
           \/ WorkerShow(i)
           \/ Retain(i)
           \/ \E theirs \in BOOLEAN : Stop(i, theirs) \/ ReleaseNoClose(i, theirs)
           \/ \E archived \in BOOLEAN : ReleaseAndClose(i, archived)
           \/ \E k \in DOMAIN tasks : StartRetry(k, i)
           \/ \E from \in Callers \ {0} :
                 \/ \E pass \in BOOLEAN : ReportIsMail(i, from, pass)
                 \/ \E to \in Settled : ReportSettles(i, from, to)
    BY DEF RowCommand
  <1>2. TypeOK /\ Written(TS, DS) /\ DS \in Seq(Row) /\ DS[i] \in Row
        /\ i \in DOMAIN DS
    BY ReadWritten, ListsRead DEF IInv, Written, RowsOK
  <1>3. CASE Abandon(i)
    <2>1. NoStart /\ SaveLists(HandBack(TS, DS[i].task, i), Ended(DS, i, "abandoned"))
      BY <1>3 DEF Abandon, May, Ended
    <2>2. Written(HandBack(TS, DS[i].task, i), Ended(DS, i, "abandoned"))
      BY <1>2, WrittenEnded DEF FINISHED
    <2>. QED BY <2>1, <2>2, SaveListsInv
  <1>4. CASE WorkerShow(i)
    <2>. DEFINE ds == SpendGone(DS, terms)
                e == ReadLate(ds[i])
    <2>1. NoStart /\ SaveLists(TS, [ds EXCEPT ![i] = e])
      BY <1>4 DEF WorkerShow, May
    <2>2. KeptRows(DS, ds)
      BY <1>2, SpendGoneKeeps
    <2>. HIDE DEF ds
    <2>3. /\ Written(TS, ds) /\ ds \in Seq(Row)
          /\ i \in DOMAIN ds /\ ds[i] \in Row
      BY <1>2, <2>2, WrittenKept DEF KeptRows
    <2>4. e \in Row /\ e.status = ds[i].status /\ e.task = ds[i].task
      BY <2>3, ReadLateType
    <2>. HIDE DEF e
    <2>5. Written(TS, [ds EXCEPT ![i] = e])
      BY <2>3, <2>4, RowKept, WrittenKept
    <2>. QED BY <2>1, <2>5, SaveListsInv
  <1>5. CASE Retain(i)
    <2>. DEFINE e == [DS[i] EXCEPT !.retained = TRUE]
    <2>1. NoStart /\ SaveLists(TS, [DS EXCEPT ![i] = e])
      BY <1>5 DEF Retain, May
    <2>2. e \in Row /\ e.status = DS[i].status /\ e.task = DS[i].task
      BY <1>2 DEF Row
    <2>. HIDE DEF e
    <2>3. Written(TS, [DS EXCEPT ![i] = e])
      BY <1>2, <2>2, RowKept, WrittenKept
    <2>. QED BY <2>1, <2>3, SaveListsInv
  <1>6. ASSUME NEW from, NEW pass, ReportIsMail(i, from, pass)
        PROVE  IInv'
    <2>1. /\ doneMail' = doneMail \cup {i}
          /\ UNCHANGED <<tasks, dispatches, gates, terms, process, history>>
      BY <1>6 DEF ReportIsMail
    <2>2. i \in DispatchIds
      BY <1>2, Bounds DEF TypeOK, DispatchIds
    <2>3. doneMail' \subseteq DispatchIds
      BY <1>2, <2>1, <2>2 DEF TypeOK
    <2>4. TypeOK'
      BY <1>2, <2>1, <2>3 DEF TypeOK, process, history
    <2>5. StartHolds'
      BY <2>1 DEF IInv, StartHolds, StartId, process, NoStart
    <2>. QED BY <2>1, <2>4, <2>5 DEF IInv, Held, history
  <1>. QED BY <1>1, <1>3, <1>4, <1>5, <1>6, StopInv, ReleaseInv, RetryInv,
              ReportSettlesInv

\* Resolving a gate moves only blocked and pending tasks.
LEMMA GateResolveInv ==
    ASSUME IInv, NEW g \in DOMAIN gates, GateResolve(g)
    PROVE  IInv'
  <1>. DEFINE k == gates[g].task
              back == [x \in DOMAIN TS |->
                         IF x = k /\ TS[x].status = "blocked"
                         THEN [TS[x] EXCEPT !.status = "pending"]
                         ELSE TS[x]]
              ts == IF ~OtherGateOpen(g) THEN Promote(back) ELSE TS
  <1>1. TypeOK /\ Written(TS, DS) /\ NoStart /\ TS \in Seq(Task)
    BY ReadWritten DEF IInv, GateResolve, May, Written, TasksOK
  <1>2. Written(back, DS)
    <2>1. \A x \in DOMAIN TS : TS[x] \in Task
      BY <1>1
    <2>2. \A u \in Task : [u EXCEPT !.status = "pending"] \in Task
      BY DEF Task, TaskStates
    <2>3. /\ back \in [DOMAIN TS -> Task]
          /\ \A x \in DOMAIN TS : TS[x].status = "dispatched" => back[x] = TS[x]
      BY <2>1, <2>2
    <2>. HIDE DEF back
    <2>4. /\ back \in Seq(Task) /\ Len(back) = Len(TS)
          /\ DOMAIN back = DOMAIN TS
      BY <1>1, <2>3, MappedSeq
    <2>5. TasksOK(back) /\ 0 \notin DOMAIN DS
      BY <1>1, <2>4 DEF TasksOK, Written, RowsOK
    <2>6. Moves(TS, DS, back, DS, 0)
      BY <2>3, <2>4, <2>5 DEF Moves
    <2>. QED BY <1>1, <2>5, <2>6, WrittenMoves DEF Written
  <1>. HIDE DEF back
  <1>3. Written(ts, DS)
    BY <1>1, <1>2, WrittenPromote
  <1>4. CASE /\ gates' = [gates EXCEPT ![g].pending = FALSE]
             /\ UNCHANGED <<terms, doneMail>>
             /\ Save(ts, DS)
    <2>1. gates[g] \in Gate /\ gates \in Seq(Gate)
      BY <1>1 DEF TypeOK
    <2>2. [gates[g] EXCEPT !.pending = FALSE] \in Gate
      BY <2>1 DEF Gate
    <2>3. gates' \in Seq(Gate) /\ Len(gates') = Len(gates)
      BY <1>4, <2>1, <2>2, ExceptSeq
    <2>. HIDE DEF ts
    <2>. QED BY <1>1, <1>3, <1>4, <2>3, SaveInv DEF TypeOK
  <1>5. CASE DieWith(ts, DS, {})
    <2>. HIDE DEF ts
    <2>. QED BY <1>3, <1>5, DieInv DEF Written
  <1>. QED BY <1>4, <1>5 DEF GateResolve, back

\* A reset empties both lists, or is cut in two and says so in `lost`.
LEMMA ResetInv ==
    ASSUME IInv, NEW scope, Reset(scope)
    PROVE  IInv'
  <1>1. TypeOK'
    BY ResetType DEF IInv
  <1>2. /\ TypeOK /\ NoStart
        /\ TasksOK(<<>>) /\ RowsOK(<<>>) /\ RowsOK(dispatches)
        /\ \A ts : Held(ts, <<>>)
    BY Bounds DEF IInv, Reset, May, TypeOK, TasksOK, RowsOK, Held
  <1>3. CASE DieWith(<<>>, dispatches, {"reset"})
    BY <1>2, <1>3, DieInv
  <1>4. CASE DieWith(<<>>, <<>>, {})
    BY <1>2, <1>4, DieInv DEF Written
  <1>5. CASE /\ tasks' = IF scope = "messages" THEN tasks ELSE <<>>
             /\ dispatches' = IF scope = "messages" THEN dispatches ELSE <<>>
             /\ lost' = IF scope = "messages" THEN lost ELSE {}
             /\ UNCHANGED <<terms, process>>
    <2>1. "reset" \notin lost' => Held(tasks', dispatches')
      BY <1>2, <1>5 DEF IInv
    <2>2. StartHolds'
      BY <1>2, <1>5 DEF IInv, StartHolds, NoStart, process
    <2>. QED BY <1>1, <2>1, <2>2 DEF IInv
  <1>. QED BY <1>3, <1>4, <1>5 DEF Reset

\* The record of a start: its row takes over the task the start held.
LEMMA RecordInv ==
    ASSUME IInv, ~NoStart, start.phase # "failing",
           NEW st \in RowStates, NEW t \in 0..MaxTerms, PushRow(st, t)
    PROVE  /\ DOMAIN dispatches' = DOMAIN dispatches \cup {StartId}
           /\ Len(dispatches') = StartId
           /\ dispatches'[StartId].status = st
           /\ "reset" \notin lost' => Held(tasks', dispatches')
  <1>. DEFINE new == NewRow(start.task, st, t, FALSE)
  <1>1. TypeOK /\ StartHolds /\ dispatches \in Seq(Row)
    BY DEF IInv, TypeOK
  <1>2. new \in Row /\ dispatches' = Append(dispatches, new)
    BY <1>1, PushRowType
  <1>3. new.task = start.task /\ new.status = st
    BY DEF NewRow
  <1>. HIDE DEF new
  <1>4. /\ DOMAIN dispatches' = DOMAIN dispatches \cup {StartId}
        /\ Len(dispatches') = StartId
        /\ dispatches'[StartId] = new
        /\ \A j \in DOMAIN dispatches : dispatches'[j] = dispatches[j]
    BY <1>1, <1>2 DEF StartId
  <1>5. UNCHANGED <<tasks, lost>>
    BY DEF PushRow, history
  <1>6. /\ start.task \in DOMAIN tasks
        /\ tasks[start.task].status = "dispatched"
        /\ tasks[start.task].dispatch = StartId
    BY <1>1 DEF StartHolds
  <1>7. "reset" \notin lost' => Held(tasks', dispatches')
    BY <1>3, <1>4, <1>5, <1>6 DEF IInv, Held
  <1>. QED BY <1>3, <1>4, <1>7

\* Every step of a worker start keeps the invariant.
LEMMA StartStepInv ==
    ASSUME IInv, StartStep
    PROVE  IInv'
  <1>a. TypeOK /\ StartHolds /\ TypeOK'
    BY StartStepType DEF IInv
  <1>1. CASE PlacementFails
    BY <1>1, <1>a DEF PlacementFails, IInv, StartHolds, NoStart, Idle
  <1>2. CASE SetupFails
    <2>1. /\ start.phase = "placing" /\ PushRow("failed", 0)
          /\ start' = [start EXCEPT !.phase = "failing"]
          /\ tasks' = tasks
      BY <1>2 DEF SetupFails, PushRow
    <2>2. "failed" \in RowStates /\ "failed" \in FINISHED /\ 0 \in 0..MaxTerms
      BY Bounds DEF RowStates, FINISHED
    <2>3. /\ DOMAIN dispatches' = DOMAIN dispatches \cup {StartId}
          /\ Len(dispatches') = StartId
          /\ dispatches'[StartId].status = "failed"
          /\ "reset" \notin lost' => Held(tasks', dispatches')
      BY <2>1, <2>2, RecordInv DEF NoStart
    <2>4. start'.phase = "failing" /\ start'.task = start.task
      BY <1>a, <2>1 DEF TypeOK, Start
    <2>5. StartHolds'
      BY <1>a, <2>1, <2>2, <2>3, <2>4 DEF StartHolds, NoStart, Finished
    <2>. QED BY <1>a, <2>3, <2>5 DEF IInv
  <1>3. CASE FailTask
    <2>1. /\ start.phase = "failing" /\ start' = Idle
          /\ start.task \in DOMAIN tasks
          /\ Len(dispatches) \in DOMAIN dispatches
          /\ tasks[start.task].dispatch = Len(dispatches)
          /\ Finished(dispatches[Len(dispatches)])
          /\ UNCHANGED <<dispatches, lost>>
      BY <1>3, <1>a DEF FailTask, StartHolds, NoStart, history
    <2>2. tasks' = Marked(tasks, start.task, "failed")
      BY <1>3, <2>1 DEF FailTask, Marked
    <2>3. tasks \in Seq(Task) /\ "failed" \in TaskStates
      BY <1>a DEF TypeOK, TaskStates
    <2>4. /\ Len(tasks') = Len(tasks) /\ tasks' \in Seq(Task)
          /\ \A x \in DOMAIN tasks : x # start.task => tasks'[x] = tasks[x]
      BY <2>1, <2>2, <2>3, TaskStatusSet
    <2>5. DOMAIN tasks' = DOMAIN tasks
      BY <2>3, <2>4
    <2>6. Moves(tasks, dispatches, tasks', dispatches', Len(dispatches))
      BY <2>1, <2>4, <2>5 DEF Moves
    <2>7. "reset" \notin lost' => Held(tasks', dispatches')
      BY <2>1, <2>6, HeldMoves DEF IInv
    <2>8. StartHolds'
      BY <2>1 DEF StartHolds, NoStart, Idle
    <2>. QED BY <1>a, <2>7, <2>8 DEF IInv
  <1>4. CASE AskWindow \/ \E found \in 0..MaxTerms, ready \in BOOLEAN :
                             WaitEnds(found, ready)
    <2>1. /\ start.phase \notin {"idle", "failing"}
          /\ start'.phase \notin {"idle", "failing"} /\ start'.task = start.task
          /\ UNCHANGED <<tasks, dispatches, lost>>
      BY <1>4, <1>a DEF AskWindow, WaitEnds, history, TypeOK, Start
    <2>2. StartHolds'
      BY <1>a, <2>1 DEF StartHolds, NoStart, StartId
    <2>. QED BY <1>a, <2>1, <2>2 DEF IInv
  <1>5. CASE RecordStart
    <2>. DEFINE st == IF start.ready THEN "ready" ELSE "unknown"
    <2>1. /\ start.phase = "recording" /\ PushRow(st, start.terminal)
          /\ st \in RowStates /\ start' = Idle
          /\ start.terminal \in 0..MaxTerms
      BY <1>5, <1>a DEF RecordStart, RowStates, TypeOK, Start
    <2>. HIDE DEF st
    <2>2. "reset" \notin lost' => Held(tasks', dispatches')
      BY <2>1, RecordInv DEF NoStart
    <2>3. StartHolds'
      BY <2>1 DEF StartHolds, NoStart, Idle
    <2>. QED BY <1>a, <2>2, <2>3 DEF IInv
  <1>. QED BY <1>1, <1>2, <1>3, <1>4, <1>5 DEF StartStep

\* Terminals that open, end or are closed move no status and no task.
LEMMA TerminalStepInv ==
    ASSUME IInv, TerminalStep
    PROVE  IInv'
  <1>1. TypeOK /\ TypeOK' /\ dispatches \in Seq(Row) /\ dispatches' \in Seq(Row)
    BY TerminalStepType DEF IInv, TypeOK
  <1>2. UNCHANGED <<tasks, start, lost>>
    BY DEF TerminalStep, OpenTerminal, WindowStarts, TerminalExits, CloseTerminal,
           ExitHandled, stored, process, history
  <1>3. \/ dispatches' = dispatches
        \/ \E t \in Terms : ExitHandled(t)
    BY DEF TerminalStep, OpenTerminal, WindowStarts, TerminalExits, CloseTerminal,
           stored
  <1>4. /\ DOMAIN dispatches' = DOMAIN dispatches
        /\ \A i \in DOMAIN dispatches :
              /\ dispatches'[i].status = dispatches[i].status
              /\ dispatches'[i].task = dispatches[i].task
    <2>1. CASE \E t \in Terms : ExitHandled(t)
      <3>1. \A r \in Row : LET e == [r EXCEPT !.exited = TRUE]
                           IN e.status = r.status /\ e.task = r.task
        BY DEF Row
      <3>2. \A i \in DOMAIN dispatches : dispatches[i] \in Row
        BY <1>1
      <3>. QED BY <2>1, <3>1, <3>2 DEF ExitHandled
    <2>. QED BY <1>3, <2>1
  <1>5. \A i \in DOMAIN dispatches :
           Finished(dispatches'[i]) <=> Finished(dispatches[i])
    BY <1>4 DEF Finished
  <1>6. Len(dispatches') = Len(dispatches)
    BY <1>1, <1>4
  <1>7. Held(tasks, dispatches) => Held(tasks', dispatches')
    BY <1>2, <1>4, <1>5 DEF Held
  <1>8. StartHolds'
    BY <1>2, <1>4, <1>5, <1>6 DEF IInv, StartHolds, StartId, NoStart
  <1>. QED BY <1>1, <1>2, <1>7, <1>8 DEF IInv

\* Empty lists satisfy the invariant.
LEMMA InitInv == Init => IInv
  <1>. SUFFICES ASSUME Init PROVE IInv
    OBVIOUS
  <1>. USE Bounds
  <1>1. NoNotice \in Notice /\ NoStamp \in Stamp /\ Idle \in Start
    BY DEF NoNotice, Notice, NoStamp, Stamp, Idle, Start
  <1>2. TypeOK
    BY <1>1 DEF Init, TypeOK
  <1>3. StartHolds /\ Held(tasks, dispatches)
    BY DEF Init, StartHolds, NoStart, Idle, Held
  <1>. QED BY <1>2, <1>3 DEF IInv

\* Every step keeps the invariant.
LEMMA NextInv == IInv /\ [Next]_vars => IInv'
  <1>. SUFFICES ASSUME IInv, [Next]_vars PROVE IInv'
    OBVIOUS
  <1>1. CASE TaskCommand
    BY <1>1, TaskCommandInv
  <1>2. CASE RowCommand
    BY <1>2, RowCommandInv
  <1>3. CASE \E g \in DOMAIN gates : GateResolve(g)
    BY <1>3, GateResolveInv
  <1>4. CASE \E scope \in {"tasks", "messages", "all"} : Reset(scope)
    BY <1>4, ResetInv
  <1>5. CASE StartStep
    BY <1>5, StartStepInv
  <1>6. CASE TerminalStep
    BY <1>6, TerminalStepInv
  <1>7. CASE \E i \in DispatchIds : StampExpires(i)
    <2>1. NoStamp \in Stamp
      BY Bounds DEF NoStamp, Stamp
    <2>2. TypeOK'
      <3>1. stamps' \in [DispatchIds -> Stamp]
        BY <1>7, <2>1 DEF StampExpires, IInv, TypeOK
      <3>. QED BY <1>7, <3>1 DEF StampExpires, IInv, TypeOK, mail, stored, history
    <2>. QED BY <1>7, <2>2 DEF StampExpires, IInv, StartHolds, StartId, NoStart,
                    Held, stored, history
  <1>8. CASE Restart
    <2>1. Written(tasks, dispatches)
      BY ReadWritten DEF IInv
    <2>. QED BY <1>8, <2>1, DieInv DEF Restart, Written
  <1>9. CASE UNCHANGED vars
    <2>1. TypeOK'
      BY <1>9 DEF IInv, TypeOK, vars
    <2>. QED BY <1>9, <2>1 DEF IInv, StartHolds, StartId, NoStart, Held, vars
  <1>. QED BY <1>1, <1>2, <1>3, <1>4, <1>5, <1>6, <1>7, <1>8, <1>9 DEF Next

\* Every reachable state satisfies the inductive invariant, the start in
\* flight and the end of the process included.
THEOREM InvariantHolds == Spec => []IInv
  BY InitInv, NextInv, PTL DEF Spec

\* Type correctness: what is read back from the profile store is always lists
\* of well-formed tasks, rows and gates within their bounds.
THEOREM TypeCorrect == Spec => []TypeOK
  <1>1. IInv => TypeOK
    BY DEF IInv
  <1>. QED BY <1>1, InvariantHolds, PTL

\* ORCH-012, WorkerHoldsItsTask: whatever order commands, exits, restarts and
\* starts come in, an unfinished dispatch's task is dispatched and names that
\* very dispatch, unless a reset was cut in two.
THEOREM TasksAreHeld == Spec => []WorkerHoldsItsTask
  <1>1. IInv => WorkerHoldsItsTask
    BY DEF IInv, Held, WorkerHoldsItsTask
  <1>. QED BY <1>1, InvariantHolds, PTL

\* ORCH-012, OneWorkerPerTask: no task has two unfinished dispatches, or one
\* beside a worker start in flight, for any number of tasks and dispatches.
THEOREM WorkersAreUnique == Spec => []OneWorkerPerTask
  <1>1. IInv => OneWorkerPerTask
    <2>. SUFFICES ASSUME IInv, "reset" \notin lost,
                         NEW i \in DOMAIN dispatches, NEW j \in DOMAIN dispatches,
                         ~Finished(dispatches[i])
                  PROVE  /\ start.task # dispatches[i].task
                         /\ (~Finished(dispatches[j])
                               /\ dispatches[i].task = dispatches[j].task) => i = j
      BY DEF OneWorkerPerTask
    <2>1. \A x \in {i, j} : ~Finished(dispatches[x]) =>
             /\ dispatches[x].task \in DOMAIN tasks
             /\ tasks[dispatches[x].task].dispatch = x
      BY DEF IInv, Held
    <2>2. i <= Len(dispatches) /\ i \in Nat /\ 0 \notin DOMAIN tasks
      BY DEF IInv, TypeOK
    <2>3. start.task # dispatches[i].task
      \* A start holds its task under the id after the last row, or under the
      \* last row, which then has failed.
      BY <2>1, <2>2 DEF IInv, StartHolds, StartId
    <2>. QED BY <2>1, <2>3
  <1>. QED BY <1>1, InvariantHolds, PTL
=============================================================================
