------------------------- MODULE AutomationsProofs -------------------------
(***************************************************************************)
(* The automations and their runs, for any forms, histories and inputs:    *)
(* types, one Run now at a time, numbers that only grow, and runs followed *)
(* in their own panes.                                                     *)
(*                                                                         *)
(* The steps fall into kinds.  A run is logged (Grows), rows calm down     *)
(* (Calmer), a launch writes its row (Wrote), all is restarted (Restarted),*)
(* or the lists stay.  Each invariant has a lemma for each kind.           *)
(***************************************************************************)
EXTENDS Automations, FiniteSetTheorems, WellFoundedInduction, TLAPS

-----------------------------------------------------------------------------
(* The greatest of a finite set of numbers.                                *)

\* Of a finite set of numbers that is not empty, one is the greatest.
LEMMA GreatestThereIs ==
    ASSUME NEW S \in SUBSET Nat, IsFiniteSet(S), S # {}
    PROVE  \E m \in S : \A x \in S : x <= m
  <1>. DEFINE Top(U) == \E m \in U : \A x \in U : x <= m
              Topless == {U \in SUBSET S : U # {} /\ ~Top(U)}
              Order == StrictSubsetOrdering(S)
  <1>. SUFFICES ASSUME Topless # {} PROVE FALSE
    OBVIOUS
  <1>1. IsWellFoundedOn(Order, SUBSET S)
    BY FS_StrictSubsetOrderingWellFounded, FS_FiniteSubsetsOfFinite
  <1>2. PICK U \in Topless : \A V \in Topless : ~(<<V, U>> \in Order)
    <2>. HIDE DEF Order, Topless
    <2>1. Topless \subseteq SUBSET S
      BY DEF Topless
    <2>. QED BY <1>1, <2>1, WFMin
  <1>3. PICK u \in U : TRUE
    OBVIOUS
  <1>4. CASE U = {u}
    BY <1>3, <1>4
  <1>5. CASE U # {u}
    <2>. DEFINE V == U \ {u}
    <2>1. V \in SUBSET S /\ V # {} /\ <<V, U>> \in Order
      BY <1>3, <1>5 DEF StrictSubsetOrdering
    <2>2. Top(V)
      BY <1>2, <2>1
    <2>3. PICK m \in V : \A x \in V : x <= m
      BY <2>2
    <2>4. u \in Nat /\ m \in Nat /\ U = V \cup {u} /\ U \subseteq Nat
      BY <1>3
    <2>5. CASE m <= u
      <3>1. \A x \in U : x <= u
        BY <2>3, <2>4, <2>5
      <3>. QED BY <1>3, <3>1
    <2>6. CASE ~(m <= u)
      <3>1. \A x \in U : x <= m
        BY <2>3, <2>4, <2>6
      <3>. QED BY <2>3, <3>1
    <2>. QED BY <2>5, <2>6
  <1>. QED BY <1>4, <1>5

\* Highest gives a number no member is above, and one of them if there are any.
LEMMA HighestIs ==
    ASSUME NEW S \in SUBSET Nat, IsFiniteSet(S)
    PROVE  /\ Highest(S) \in Nat /\ Highest(S) \in S \cup {0}
           /\ \A x \in S : x <= Highest(S)
  <1>. DEFINE T == S \cup {0}
  <1>1. T \in SUBSET Nat /\ IsFiniteSet(T) /\ T # {}
    BY FS_AddElement
  <1>2. \E m \in T : \A x \in T : x <= m
    <2>. HIDE DEF T
    <2>. QED BY <1>1, GreatestThereIs
  <1>3. PICK m \in T : \A x \in T : x <= m
    BY <1>2
  <1>4. m \in T /\ \A x \in T : m >= x
    BY <1>1, <1>3
  <1>5. Max(T) \in T /\ \A x \in T : Max(T) >= x
    BY <1>4 DEF Max
  <1>. QED BY <1>1, <1>5 DEF Highest

\* The numbers of finitely many runs are finitely many.
LEMMA FinitelyMany ==
    ASSUME NEW rs, NEW S, IsFiniteSet(S)
    PROVE  IsFiniteSet({rs[r].number : r \in S})
  <1>. DEFINE T == {rs[r].number : r \in S}
              g == [r \in S |-> rs[r].number]
  <1>1. g \in Surjection(S, T)
    BY DEF Surjection
  <1>2. IsFiniteSet(T)
    <2>. HIDE DEF g, T
    <2>. QED BY <1>1, FS_Surjection
  <1>. QED BY <1>2

-----------------------------------------------------------------------------
(* Lists with a row more or less.                                          *)

\* A list whose ids are finitely many, with rows of type T.
List(f, T) == Total(f, T) /\ IsFiniteSet(DOMAIN f)

LEMMA ListIds ==
    ASSUME NEW f, NEW T, List(f, T)
    PROVE  /\ DOMAIN f \in SUBSET Nat /\ 0 \notin DOMAIN f
           /\ Highest(DOMAIN f) \in Nat
           /\ Highest(DOMAIN f) + 1 \in Nat \ {0}
           /\ \A x \in DOMAIN f : x <= Highest(DOMAIN f) /\ x < Highest(DOMAIN f) + 1
           /\ Highest(DOMAIN f) + 1 \notin DOMAIN f
  <1>1. DOMAIN f \in SUBSET Nat /\ 0 \notin DOMAIN f /\ IsFiniteSet(DOMAIN f)
    BY DEF List, Total
  <1>. DEFINE h == Highest(DOMAIN f)
  <1>2. h \in Nat /\ \A x \in DOMAIN f : x <= h
    BY <1>1, HighestIs
  <1>. HIDE DEF h
  <1>3. \A x \in DOMAIN f : x \in Nat /\ x < h + 1
    BY <1>1, <1>2
  <1>4. h + 1 \in Nat \ {0} /\ h + 1 \notin DOMAIN f
    BY <1>2, <1>3
  <1>. QED BY <1>1, <1>2, <1>3, <1>4 DEF h

\* A list with one more row, and with some rows taken out.
LEMMA ListAdds ==
    ASSUME NEW f, NEW T, List(f, T), NEW d \in Nat \ {0}, d \notin DOMAIN f, NEW e \in T
    PROVE  List(With(f, d, e), T)
  <1>1. IsFiniteSet(DOMAIN f \cup {d})
    BY FS_AddElement DEF List
  <1>2. /\ DOMAIN With(f, d, e) = DOMAIN f \cup {d} /\ With(f, d, e)[d] = e
        /\ \A x \in DOMAIN f : With(f, d, e)[x] = f[x]
    BY DEF With
  <1>. QED BY <1>1, <1>2 DEF List, Total

LEMMA ListDrops ==
    ASSUME NEW f, NEW T, List(f, T), NEW S
    PROVE  List(Without(f, S), T)
  <1>1. IsFiniteSet(DOMAIN f \ S)
    BY FS_Difference DEF List
  <1>2. /\ DOMAIN Without(f, S) = DOMAIN f \ S
        /\ \A x \in DOMAIN f \ S : Without(f, S)[x] = f[x]
    BY DEF Without
  <1>. QED BY <1>1, <1>2 DEF List, Total
-----------------------------------------------------------------------------
(* The list of runs.                                                       *)

LEMMA NextIdIsNew ==
    ASSUME NEW rs, List(rs, Run)
    PROVE  /\ NextId(rs) \in Nat \ {0} /\ NextId(rs) \notin DOMAIN rs
           /\ \A r \in DOMAIN rs : r < NextId(rs)
  BY ListIds DEF NextId

\* The next number is above all there are, and above the one kept.
LEMMA NextNumberIsAbove ==
    ASSUME NEW as, List(as, Automation), NEW rs, List(rs, Run), NEW a \in DOMAIN as
    PROVE  /\ NextNumber(as, rs, a) \in Nat \ {0}
           /\ as[a].last < NextNumber(as, rs, a)
           /\ \A r \in RunsOf(rs, a) : rs[r].number < NextNumber(as, rs, a)
  <1>. DEFINE N == {rs[r].number : r \in RunsOf(rs, a)}
              S == N \cup {as[a].last}
  <1>1. RunsOf(rs, a) \subseteq DOMAIN rs /\ IsFiniteSet(RunsOf(rs, a))
    BY FS_Subset DEF RunsOf, List
  <1>2. as[a].last \in Nat /\ \A r \in DOMAIN rs : rs[r].number \in Nat
    BY DEF List, Total, Automation, Run
  <1>3. S \in SUBSET Nat
    BY <1>1, <1>2
  <1>4. IsFiniteSet(N)
    BY <1>1, FinitelyMany
  <1>5. IsFiniteSet(S)
    <2>. HIDE DEF N
    <2>. QED BY <1>4, FS_AddElement
  <1>. DEFINE h == Highest(S)
  <1>6. h \in Nat /\ \A x \in S : x <= h
    <2>. HIDE DEF S
    <2>. QED BY <1>3, <1>5, HighestIs
  <1>7. as[a].last <= h /\ \A r \in RunsOf(rs, a) : rs[r].number <= h
    <2>. HIDE DEF h
    <2>. QED BY <1>6
  <1>8. NextNumber(as, rs, a) = h + 1
    BY DEF NextNumber
  <1>9. h \in Nat
    BY <1>6
  <1>10. \A r \in RunsOf(rs, a) : rs[r].number \in Nat /\ rs[r].number <= h
    BY <1>1, <1>2, <1>7
  <1>. HIDE DEF h
  <1>11. h + 1 \in Nat \ {0} /\ as[a].last < h + 1
    <2>. DEFINE last == as[a].last
    <2>1. last \in Nat /\ last <= h
      BY <1>2, <1>7
    <2>2. last < h + 1
      <3>. HIDE DEF last
      <3>. QED BY <1>9, <2>1
    <2>3. h + 1 \in Nat \ {0}
      BY <1>9
    <2>. QED BY <2>2, <2>3
  <1>12. \A r \in RunsOf(rs, a) : rs[r].number < h + 1
    BY <1>9, <1>10
  <1>. QED BY <1>8, <1>11, <1>12

\* Pruning takes out runs of one automation that are over, and no others.
LEMMA PrunedIs ==
    ASSUME NEW rs, List(rs, Run), NEW a
    PROVE  /\ List(Pruned(rs, a), Run)
           /\ DOMAIN Pruned(rs, a) \subseteq DOMAIN rs
           /\ \A r \in DOMAIN Pruned(rs, a) : Pruned(rs, a)[r] = rs[r]
           /\ \A r \in DOMAIN rs : InProgress(rs[r]) \/ rs[r].auto # a
                                      => r \in DOMAIN Pruned(rs, a)
  <1>. DEFINE old == {r \in RunsOf(rs, a) : ~InProgress(rs[r])}
              older(r) == {q \in old : rs[q].number < rs[r].number}
              S == {r \in old : Cardinality(older(r)) + KeepRuns
                                   < Cardinality(RunsOf(rs, a))}
  <1>1. Pruned(rs, a) = Without(rs, S)
    BY DEF Pruned
  <1>2. \A r \in S : ~InProgress(rs[r]) /\ rs[r].auto = a
    BY DEF RunsOf
  <1>. HIDE DEF S
  <1>3. List(Without(rs, S), Run)
    BY ListDrops
  <1>4. /\ DOMAIN Without(rs, S) = DOMAIN rs \ S
        /\ \A r \in DOMAIN rs \ S : Without(rs, S)[r] = rs[r]
    BY DEF Without
  <1>. QED BY <1>1, <1>2, <1>3, <1>4

\* The runs of an automation that are still going on.
Progressing(rs, a) == {r \in RunsOf(rs, a) : InProgress(rs[r])}

\* Pruning keeps the run with the highest number, when it is over, while fewer
\* than KeepRuns of its automation are in progress, and then only.
LEMMA NewestStays ==
    ASSUME NEW rs, List(rs, Run), NEW a, NEW r \in RunsOf(rs, a),
           \A q \in RunsOf(rs, a) \ {r} : rs[q].number < rs[r].number,
           ~InProgress(rs[r])
    PROVE  r \in DOMAIN Pruned(rs, a) <=> Cardinality(Progressing(rs, a)) < KeepRuns
  <1>. DEFINE all == RunsOf(rs, a)
              old == {q \in all : ~InProgress(rs[q])}
              older(p) == {q \in old : rs[q].number < rs[p].number}
              S == {p \in old : Cardinality(older(p)) + KeepRuns < Cardinality(all)}
              live == Progressing(rs, a)
  <1>1. /\ all \subseteq DOMAIN rs /\ IsFiniteSet(all) /\ live \subseteq all
        /\ old = all \ live
    BY FS_Subset DEF RunsOf, List, Progressing
  <1>2. rs[r].number \in Nat
    BY DEF RunsOf, List, Total, Run
  <1>3. older(r) = old \ {r} /\ r \in old
    BY <1>2
  <1>. DEFINE n == Cardinality(all)
              m == Cardinality(live)
              k == Cardinality(older(r))
  <1>4. IsFiniteSet(live) /\ m \in Nat /\ n \in Nat
    <2>. HIDE DEF all, live
    <2>1. IsFiniteSet(live)
      BY <1>1, FS_Subset
    <2>. QED BY <1>1, <2>1, FS_CardinalityType
  <1>5. IsFiniteSet(old) /\ Cardinality(old) = n - m
    <2>. HIDE DEF all, live, old
    <2>1. all \cap live = live /\ old = all \ live /\ IsFiniteSet(all)
      BY <1>1
    <2>2. /\ IsFiniteSet(all \ live)
          /\ Cardinality(all \ live) = Cardinality(all) - Cardinality(all \cap live)
      BY <2>1, FS_Difference
    <2>. QED BY <2>1, <2>2
  <1>6. k = n - m - 1
    <2>1. Cardinality(old \ {r}) = Cardinality(old) - 1
      <3>. HIDE DEF old
      <3>. QED BY <1>3, <1>5, FS_RemoveElement
    <2>2. k = Cardinality(old \ {r})
      BY <1>3
    <2>. HIDE DEF old, k, m, n
    <2>. QED BY <1>5, <2>1, <2>2
  <1>7. r \in DOMAIN Pruned(rs, a) <=> r \notin S
    <2>1. Pruned(rs, a) = Without(rs, S)
      BY DEF Pruned
    <2>. HIDE DEF S
    <2>2. DOMAIN Without(rs, S) = DOMAIN rs \ S
      BY DEF Without
    <2>. QED BY <1>1, <2>1, <2>2
  <1>8. r \in S <=> k + KeepRuns < n
    BY <1>3
  <1>9. KeepRuns \in Nat
    BY KeepAssumption
  <1>10. m < KeepRuns <=> ~(k + KeepRuns < n)
    <2>. HIDE DEF k, m, n
    <2>. QED BY <1>4, <1>6, <1>9
  <1>. QED BY <1>7, <1>8, <1>10

\* The list of runs grows by one row, and may lose runs of the same automation
\* that are over.
Grows(rs, more, id, row) ==
    /\ id = NextId(rs) /\ id \in DOMAIN more /\ more[id] = row
    /\ DOMAIN more \subseteq DOMAIN rs \cup {id}
    /\ \A r \in DOMAIN more \ {id} : more[r] = rs[r]
    /\ \A r \in DOMAIN rs :
         InProgress(rs[r]) \/ rs[r].auto # row.auto => r \in DOMAIN more

LEMMA NewRowIs ==
    ASSUME NEW a \in Nat, NEW n \in Nat, NEW trigger \in Triggers
    PROVE  /\ NewRow(a, n, trigger) \in Run
           /\ NewRow(a, n, trigger).auto = a /\ NewRow(a, n, trigger).number = n
           /\ NewRow(a, n, trigger).trigger = trigger
           /\ NewRow(a, n, trigger).status = "pending"
           /\ InProgress(NewRow(a, n, trigger))
  BY DEF NewRow, Run, Triggers, Statuses, InProgress

LEMMA RunIsAdded ==
    ASSUME NEW as, List(as, Automation), NEW rs, List(rs, Run), NEW a \in DOMAIN as,
           NEW trigger \in Triggers
    PROVE  LET new == WithRun(as, rs, a, trigger)
               n == NextNumber(as, rs, a)
           IN /\ new.id = NextId(rs) /\ new.number = n
              /\ new.autos = Numbered(as, a, n)
              /\ List(new.runs, Run)
              /\ Grows(rs, new.runs, new.id, NewRow(a, n, trigger))
  <1>. DEFINE n == NextNumber(as, rs, a)
              id == NextId(rs)
              row == NewRow(a, n, trigger)
              more == With(rs, id, row)
              new == WithRun(as, rs, a, trigger)
  <1>1. n \in Nat /\ a \in Nat
    BY NextNumberIsAbove DEF List, Total
  <1>2. row \in Run /\ row.auto = a /\ InProgress(row)
    <2>. HIDE DEF n
    <2>. QED BY <1>1, NewRowIs
  <1>3. id \in Nat \ {0} /\ id \notin DOMAIN rs
    BY NextIdIsNew
  <1>4. new = [id |-> id, number |-> n, autos |-> Numbered(as, a, n),
               runs |-> Pruned(more, a)]
    BY DEF WithRun
  <1>. HIDE DEF n, id, row, new
  <1>5. List(more, Run)
    BY <1>2, <1>3, ListAdds
  <1>6. /\ DOMAIN more = DOMAIN rs \cup {id} /\ more[id] = row
        /\ \A r \in DOMAIN rs : more[r] = rs[r]
    BY <1>3 DEF With
  <1>. HIDE DEF more
  <1>. DEFINE less == Pruned(more, a)
  <1>7. /\ List(less, Run) /\ DOMAIN less \subseteq DOMAIN more
        /\ \A r \in DOMAIN less : less[r] = more[r]
        /\ \A r \in DOMAIN more : InProgress(more[r]) \/ more[r].auto # a
                                     => r \in DOMAIN less
    BY <1>5, PrunedIs
  <1>. HIDE DEF less
  <1>8. Grows(rs, less, id, row)
    <2>1. id = NextId(rs)
      BY DEF id
    <2>2. id \in DOMAIN less /\ less[id] = row
      BY <1>2, <1>6, <1>7
    <2>. QED BY <1>2, <1>3, <1>6, <1>7, <2>1, <2>2 DEF Grows
  <1>9. /\ new.id = id /\ new.number = n /\ new.autos = Numbered(as, a, n)
        /\ new.runs = less
    BY <1>4 DEF less
  <1>. QED BY <1>7, <1>8, <1>9 DEF new, n, id, row
LEMMA SkipIsAdded ==
    ASSUME NEW as, List(as, Automation), NEW rs, List(rs, Run), NEW a \in DOMAIN as,
           NEW trigger \in Triggers, NEW cause \in {"missed", "unavailable"}
    PROVE  LET new == WithSkip(as, rs, a, trigger, cause)
               n == NextNumber(as, rs, a)
           IN \/ new.number = as[a].last /\ new.autos = as /\ new.runs = rs
              \/ /\ new.number = n /\ new.autos = Numbered(as, a, n)
                 /\ List(new.runs, Run)
                 /\ Grows(rs, new.runs, NextId(rs), Skipped(NewRow(a, n, trigger), cause))
  <1>. DEFINE new == WithSkip(as, rs, a, trigger, cause)
              log == WithRun(as, rs, a, trigger)
              n == NextNumber(as, rs, a)
              mine == RunsOf(rs, a)
              again == {r \in mine :
                    /\ \A q \in mine : rs[q].number <= rs[r].number
                    /\ cause # "missed" /\ rs[r].status = "skipped"
                    /\ rs[r].cause = cause /\ rs[r].trigger = trigger}
  <1>1. new = IF again # {}
              THEN [id |-> Highest(again), number |-> as[a].last, autos |-> as, runs |-> rs]
              ELSE [log EXCEPT !.runs[log.id] = Skipped(@, cause)]
    BY DEF WithSkip
  <1>. HIDE DEF new, again
  <1>2. CASE again # {}
    BY <1>1, <1>2 DEF new
  <1>3. CASE again = {}
    <2>. DEFINE row == NewRow(a, n, trigger)
                id == NextId(rs)
    <2>1. /\ log.id = id /\ log.number = n /\ log.autos = Numbered(as, a, n)
          /\ List(log.runs, Run) /\ Grows(rs, log.runs, log.id, row)
      BY RunIsAdded
    <2>2. n \in Nat /\ a \in Nat
      BY NextNumberIsAbove DEF List, Total
    <2>3. row \in Run /\ Skipped(row, cause) \in Run /\ Skipped(row, cause).auto = row.auto
      <3>1. row \in Run
        BY <2>2, NewRowIs
      <3>. HIDE DEF row
      <3>. QED BY <3>1 DEF Run, Skipped, Statuses
    <2>4. log = [id |-> log.id, number |-> log.number, autos |-> log.autos,
                 runs |-> log.runs]
      BY DEF WithRun
    <2>. HIDE DEF log, n, row, id
    <2>5. new = [log EXCEPT !.runs[log.id] = Skipped(@, cause)]
      BY <1>1, <1>3
    <2>6. new.number = log.number /\ new.autos = log.autos
      BY <2>4, <2>5
    <2>7. new.runs = [log.runs EXCEPT ![log.id] = Skipped(@, cause)]
      BY <2>4, <2>5
    <2>8. /\ id \in DOMAIN log.runs /\ log.runs[id] = row
          /\ DOMAIN new.runs = DOMAIN log.runs
          /\ new.runs[id] = Skipped(row, cause)
          /\ \A r \in DOMAIN log.runs \ {id} : new.runs[r] = log.runs[r]
      BY <2>1, <2>7 DEF Grows
    <2>9. List(new.runs, Run)
      BY <2>1, <2>3, <2>8 DEF List, Total
    <2>10. Grows(rs, new.runs, id, Skipped(row, cause))
      BY <2>1, <2>3, <2>8 DEF Grows
    <2>. QED BY <2>1, <2>6, <2>9, <2>10 DEF new, n, row, id
  <1>. QED BY <1>2, <1>3

LEMMA NumberedIs ==
    ASSUME NEW as, List(as, Automation), NEW a \in DOMAIN as, NEW n \in Nat
    PROVE  /\ List(Numbered(as, a, n), Automation)
           /\ DOMAIN Numbered(as, a, n) = DOMAIN as
           /\ Numbered(as, a, n)[a].last = n
           /\ \A b \in DOMAIN as \ {a} : Numbered(as, a, n)[b] = as[b]
  <1>1. as[a] \in Automation
    BY DEF List, Total
  <1>2. [as[a] EXCEPT !.last = n] \in Automation
    BY <1>1 DEF Automation
  <1>3. [as[a] EXCEPT !.last = n].last = n
    BY <1>1 DEF Automation
  <1>4. /\ DOMAIN Numbered(as, a, n) = DOMAIN as
        /\ Numbered(as, a, n)[a] = [as[a] EXCEPT !.last = n]
        /\ \A b \in DOMAIN as \ {a} : Numbered(as, a, n)[b] = as[b]
    BY DEF Numbered
  <1>. QED BY <1>2, <1>3, <1>4 DEF List, Total

LEMMA NextRunIs == ASSUME NEW form PROVE NextRun(form) \in {"none", "later", "due"}
  BY DEF NextRun

LEMMA RescheduledIs ==
    ASSUME NEW as, List(as, Automation), NEW a \in DOMAIN as
    PROVE  /\ List(Rescheduled(as, a), Automation)
           /\ DOMAIN Rescheduled(as, a) = DOMAIN as
           /\ \A b \in DOMAIN as : Rescheduled(as, a)[b].last = as[b].last
  <1>1. as[a] \in Automation
    BY DEF List, Total
  <1>. DEFINE row == [as[a] EXCEPT !.next = NextRun(as[a].form)]
  <1>2. row \in Automation /\ row.last = as[a].last
    BY <1>1, NextRunIs DEF Automation
  <1>3. /\ DOMAIN Rescheduled(as, a) = DOMAIN as /\ Rescheduled(as, a)[a] = row
        /\ \A b \in DOMAIN as \ {a} : Rescheduled(as, a)[b] = as[b]
    BY DEF Rescheduled
  <1>. HIDE DEF row
  <1>. QED BY <1>2, <1>3 DEF List, Total

-----------------------------------------------------------------------------
(* Types.                                                                  *)

\* A run that settles follows no pane, and no launch writes to it; and a launch
\* that is about to record knows what.
Settled == \A r \in DOMAIN runs : runs[r].settling => runs[r].term = 0
Afresh == \A t \in DOMAIN launches : launches[t].run \in DOMAIN runs =>
              ~runs[launches[t].run].settling
Outcomes == {"dispatched", "failed", "skipped"}
Recording == \A t \in DOMAIN launches :
    launches[t].stage = "record" => launches[t].outcome \in Outcomes

\* What is saved, and what is logged of it.
Logs ==
    /\ List(autos, Automation) /\ List(runs, Run) /\ List(launches, Launch)
    /\ List(given, Nat) /\ DOMAIN given = DOMAIN autos
    /\ Settled /\ Afresh /\ Recording

\* The rest of the state.
Others ==
    /\ List(terms, Term) /\ List(opened, SUBSET Nat)
    /\ clock \in [ticking: BOOLEAN, due: SUBSET Nat]
    /\ events \in SUBSET Nat /\ notices \in SUBSET Nat /\ reopen \in SUBSET Nat
    /\ topTerm \in Nat /\ DOMAIN terms \subseteq 1..topTerm
    /\ used \in [Inputs -> Nat]

Shape == Logs /\ Others

LEMMA ShapeIsTyped == Shape => ATypeOK
  BY DEF Shape, Logs, Others, Settled, List, ATypeOK

LEMMA ComesIs ==
    ASSUME used \in [Inputs -> Nat], NEW k \in Inputs, Comes(k)
    PROVE  used' \in [Inputs -> Nat]
  BY DEF Comes, Inputs

LEMMA InitShape == AInit => Shape
  <1>. SUFFICES ASSUME AInit PROVE Shape
    OBVIOUS
  <1>1. \A T : List(<<>>, T)
    BY FS_EmptySet DEF List, Total
  <1>2. Others
    BY <1>1 DEF AInit, Others
  <1>3. Settled /\ Afresh /\ Recording
    BY DEF AInit, Settled, Afresh, Recording
  <1>4. Logs
    BY <1>1, <1>3 DEF AInit, Logs
  <1>. QED BY <1>2, <1>4 DEF Shape

LEMMA CreateShape ==
    ASSUME Shape, NEW form \in Forms, Create(form)
    PROVE  Shape'
  <1>. DEFINE a == Highest(DOMAIN autos) + 1
              row == [form |-> form, enabled |-> TRUE, next |-> NextRun(form),
                      last |-> 0, rested |-> FALSE]
  <1>1. List(autos, Automation) /\ List(given, Nat) /\ DOMAIN given = DOMAIN autos
    BY DEF Shape, Logs
  <1>2. a \in Nat \ {0} /\ a \notin DOMAIN autos
    BY <1>1, ListIds
  <1>3. row \in Automation
    BY NextRunIs DEF Automation
  <1>4. autos' = With(autos, a, row) /\ given' = With(given, a, 0)
    BY DEF Create
  <1>. HIDE DEF a, row
  <1>5. List(autos', Automation) /\ List(given', Nat)
    BY <1>1, <1>2, <1>3, <1>4, ListAdds
  <1>6. DOMAIN given' = DOMAIN autos'
    BY <1>1, <1>4 DEF With
  <1>7. used' \in [Inputs -> Nat]
    BY ComesIs DEF Create, Inputs, Shape, Others
  <1>8. Settled' /\ Afresh' /\ Recording'
    BY DEF Shape, Logs, Settled, Afresh, Recording, Create, threads
  <1>9. Logs'
    BY <1>5, <1>6, <1>8 DEF Shape, Logs, Create, threads
  <1>10. Others'
    BY <1>7 DEF Shape, Others, Create, threads, screen
  <1>. QED BY <1>9, <1>10 DEF Shape

-----------------------------------------------------------------------------
(* What most steps do to a run: they move it towards its end.              *)

\* Nothing it was logged with changes, it does not come back to life, what is
\* only starting is not ended but by the user, and nothing starts to settle.
Calms(row, new) ==
    /\ new \in Run
    /\ new.auto = row.auto /\ new.number = row.number /\ new.trigger = row.trigger
    /\ new.lastTerm = row.lastTerm /\ new.lastKey = row.lastKey
    /\ new.adrift = row.adrift
    /\ row.cancelled => new.cancelled
    /\ InProgress(new) => InProgress(row)
    /\ row.status = "pending" => new.status = "pending" \/ new.cancelled
    /\ new.settling => row.settling /\ new.term = row.term

Calmer(rs, new) ==
    DOMAIN new = DOMAIN rs /\ \A r \in DOMAIN rs : Calms(rs[r], new[r])

\* None is followed in another pane than before.
SamePanes(rs, new) ==
    \A r \in DOMAIN rs : new[r].term = rs[r].term /\ new[r].key = rs[r].key

LEMMA CalmsAsItIs == ASSUME NEW row \in Run PROVE Calms(row, row)
  BY DEF Calms

LEMMA EndingCalms ==
    ASSUME NEW row \in Run, Tracked(row)
    PROVE  /\ Calms(row, Finished(row, "failed"))
           /\ Calms(row, [Finished(row, "failed") EXCEPT !.settling = FALSE])
           /\ Finished(row, "failed").term = row.term
           /\ Finished(row, "failed").key = row.key
           /\ [Finished(row, "failed") EXCEPT !.settling = FALSE].term = row.term
           /\ [Finished(row, "failed") EXCEPT !.settling = FALSE].key = row.key
  BY DEF Calms, Run, Tracked, Finished, InProgress, Statuses

LEMMA HearingCalms ==
    ASSUME NEW row \in Run, Tracked(row), NEW said
    PROVE  /\ Calms(row, Heard(row, said))
           /\ Heard(row, said).term = row.term /\ Heard(row, said).key = row.key
  <1>1. CASE said = "working"
    BY <1>1 DEF Calms, Run, Tracked, Heard, InProgress, Statuses
  <1>2. CASE said = "done"
    <2>1. Heard(row, said) = [row EXCEPT !.cut = FALSE,
                                !.status = IF row.worked THEN "completed" ELSE @]
      BY <1>2 DEF Heard
    <2>. QED BY <2>1 DEF Calms, Run, Tracked, InProgress, Statuses
  <1>3. CASE said = "interrupted"
    BY <1>3 DEF Calms, Run, Tracked, Heard, InProgress, Statuses
  <1>4. CASE said \notin {"working", "done", "interrupted"}
    <2>1. Heard(row, said) = row
      BY <1>4 DEF Heard
    <2>. QED BY <2>1, CalmsAsItIs
  <1>. QED BY <1>1, <1>2, <1>3, <1>4

LEMMA FollowingCalms ==
    ASSUME NEW row \in Run, NEW t \in Nat, NEW key \in Nat
    PROVE  /\ Calms(row, Followed(row, t, key))
           /\ Followed(row, t, key).term = t /\ Followed(row, t, key).key = key
  BY DEF Calms, Run, Followed, InProgress, Statuses

Cancelled(row) == [row EXCEPT !.status = "failed", !.cancelled = TRUE]

LEMMA CancellingCalms ==
    ASSUME NEW row \in Run
    PROVE  /\ Calms(row, Cancelled(row))
           /\ Cancelled(row).term = row.term /\ Cancelled(row).key = row.key
  BY DEF Cancelled, Calms, Run, InProgress, Statuses

LEMMA CalmerShape ==
    ASSUME Logs, Calmer(runs, runs')
    PROVE  /\ List(runs', Run) /\ Settled'
           /\ launches' = launches => Afresh'
  <1>1. List(runs', Run)
    BY DEF Logs, List, Total, Calmer, Calms
  <1>2. \A r \in DOMAIN runs' : r \in DOMAIN runs /\ Calms(runs[r], runs'[r])
    BY DEF Calmer
  <1>3. Settled'
    BY <1>2 DEF Logs, Settled, Calms
  <1>4. launches' = launches => Afresh'
    BY <1>2 DEF Logs, Afresh, Calms
  <1>. QED BY <1>1, <1>3, <1>4
-----------------------------------------------------------------------------
(* Types: a run is logged.                                                 *)

\* The list of runs has grown by a row that does not settle.
LEMMA GrownShape ==
    ASSUME Logs, NEW rs, Calmer(runs, rs), List(rs, Run),
           NEW row, Grows(rs, runs', NextId(rs), row), ~row.settling,
           Launched' \subseteq Launched \cup {NextId(rs)},
           List(runs', Run)
    PROVE  Settled' /\ Afresh'
  <1>. DEFINE id == NextId(rs)
  <1>1. \A r \in DOMAIN runs' : \/ r = id /\ runs'[r] = row
                                \/ r \in DOMAIN rs /\ runs'[r] = rs[r] /\ r # id
    BY DEF Grows
  <1>2. \A r \in DOMAIN rs : r \in DOMAIN runs /\ Calms(runs[r], rs[r])
    BY DEF Calmer
  <1>. HIDE DEF id
  <1>3. Settled'
    BY <1>1, <1>2 DEF Logs, Settled, Calms
  <1>4. \A r \in Launched' : r = id \/ r \in Launched
    BY DEF id
  <1>5. \A r \in Launched \cap DOMAIN runs : ~runs[r].settling
    BY DEF Logs, Afresh, Launched
  <1>6. \A r \in Launched' \cap DOMAIN runs' : ~runs'[r].settling
    BY <1>1, <1>2, <1>4, <1>5 DEF Calms
  <1>7. Afresh'
    BY <1>6 DEF Afresh, Launched
  <1>. QED BY <1>3, <1>7

LEMMA ListWrites ==
    ASSUME NEW f, NEW T, List(f, T), NEW d, NEW e \in T
    PROVE  List([f EXCEPT ![d] = e], T)
  BY DEF List, Total

\* Begins has a run logged, and a launch for it.
LEMMA BeginsShape ==
    ASSUME Logs, NEW a \in DOMAIN autos, NEW trigger \in Triggers,
           NEW rs, Calmer(runs, rs), Begins(a, trigger, rs)
    PROVE  Logs'
  <1>. DEFINE new == WithRun(autos, rs, a, trigger)
              n == NextNumber(autos, rs, a)
              row == NewRow(a, n, trigger)
              launch == NewLaunch(new.id, a, trigger)
  <1>1. /\ List(autos, Automation) /\ List(launches, Launch) /\ List(given, Nat)
        /\ DOMAIN given = DOMAIN autos
    BY DEF Logs
  <1>2. List(rs, Run)
    BY DEF Logs, List, Total, Calmer, Calms
  <1>3. /\ new.id = NextId(rs) /\ new.number = n /\ new.autos = Numbered(autos, a, n)
        /\ List(new.runs, Run) /\ Grows(rs, new.runs, new.id, row)
    BY <1>1, <1>2, RunIsAdded
  <1>4. n \in Nat /\ a \in Nat /\ autos[a] \in Automation
    BY <1>1, <1>2, NextNumberIsAbove DEF List, Total
  <1>5. NextId(rs) \in Nat
    BY <1>2, NextIdIsNew
  <1>6. /\ autos' = new.autos /\ runs' = new.runs
        /\ launches' = With(launches, Thread, launch)
        /\ given' = [given EXCEPT ![a] = new.number]
    BY DEF Begins, Noted
  <1>7. ~row.settling
    BY DEF NewRow
  <1>8. /\ launch \in Launch /\ launch.run = new.id /\ launch.stage # "record"
    BY <1>3, <1>4, <1>5 DEF NewLaunch, Launch, Automation, Triggers
  <1>9. Thread \in Nat \ {0} /\ Thread \notin DOMAIN launches
    BY <1>1, ListIds DEF Thread
  <1>. HIDE DEF new, n, row, launch
  <1>10. List(autos', Automation) /\ DOMAIN autos' = DOMAIN autos
    <2>1. /\ List(Numbered(autos, a, n), Automation)
          /\ DOMAIN Numbered(autos, a, n) = DOMAIN autos
      BY <1>1, <1>4, NumberedIs
    <2>. QED BY <1>3, <1>6, <2>1
  <1>11. List(launches', Launch)
    BY <1>1, <1>6, <1>8, <1>9, ListAdds
  <1>12. List(given', Nat) /\ DOMAIN given' = DOMAIN given
    BY <1>1, <1>3, <1>4, <1>6, ListWrites
  <1>13. /\ DOMAIN launches' = DOMAIN launches \cup {Thread}
         /\ launches'[Thread] = launch
         /\ \A t \in DOMAIN launches : launches'[t] = launches[t]
    BY <1>6, <1>9 DEF With
  <1>14. Launched' \subseteq Launched \cup {NextId(rs)}
    BY <1>3, <1>8, <1>13 DEF Launched
  <1>15. Settled' /\ Afresh'
    BY <1>2, <1>3, <1>6, <1>7, <1>14, GrownShape
  <1>16. Recording'
    BY <1>8, <1>13 DEF Logs, Recording
  <1>. QED BY <1>1, <1>3, <1>6, <1>10, <1>11, <1>12, <1>15, <1>16 DEF Logs

\* A run that never started is logged, or the same refusal is left as it is.
Skips(a, trigger, cause) ==
    LET new == WithSkip(autos, runs, a, trigger, cause) IN
    /\ autos' = Rescheduled(new.autos, a) /\ runs' = new.runs
    /\ Noted(a, new.number)
    /\ launches' = launches

LEMMA SkipsShape ==
    ASSUME Logs, NEW a \in DOMAIN autos, NEW trigger \in Triggers,
           NEW cause \in {"missed", "unavailable"}, Skips(a, trigger, cause)
    PROVE  Logs'
  <1>. DEFINE new == WithSkip(autos, runs, a, trigger, cause)
              n == NextNumber(autos, runs, a)
              row == Skipped(NewRow(a, n, trigger), cause)
  <1>1. /\ List(autos, Automation) /\ List(runs, Run) /\ List(given, Nat)
        /\ DOMAIN given = DOMAIN autos /\ List(launches, Launch)
    BY DEF Logs
  <1>2. \/ new.number = autos[a].last /\ new.autos = autos /\ new.runs = runs
        \/ /\ new.number = n /\ new.autos = Numbered(autos, a, n)
           /\ List(new.runs, Run) /\ Grows(runs, new.runs, NextId(runs), row)
    BY <1>1, SkipIsAdded
  <1>3. n \in Nat /\ a \in Nat /\ autos[a].last \in Nat
    BY <1>1, NextNumberIsAbove DEF List, Total, Automation
  <1>4. ~row.settling
    BY DEF NewRow, Skipped
  <1>5. /\ autos' = Rescheduled(new.autos, a) /\ runs' = new.runs
        /\ given' = [given EXCEPT ![a] = new.number] /\ launches' = launches
    BY DEF Skips, Noted
  <1>. HIDE DEF new, n, row
  <1>6. List(new.autos, Automation) /\ DOMAIN new.autos = DOMAIN autos /\ new.number \in Nat
    BY <1>1, <1>2, <1>3, NumberedIs
  <1>7. List(autos', Automation) /\ DOMAIN autos' = DOMAIN autos
    BY <1>5, <1>6, RescheduledIs
  <1>8. List(given', Nat) /\ DOMAIN given' = DOMAIN given
    BY <1>1, <1>5, <1>6, ListWrites
  <1>9. List(runs', Run)
    BY <1>1, <1>2, <1>5
  <1>10. Settled' /\ Afresh'
    <2>1. CASE new.runs = runs
      BY <1>5, <2>1 DEF Logs, Settled, Afresh
    <2>2. CASE Grows(runs, new.runs, NextId(runs), row)
      <3>1. Calmer(runs, runs)
        BY <1>1, CalmsAsItIs DEF Calmer, List, Total
      <3>2. Launched' = Launched
        BY <1>5 DEF Launched
      <3>. QED BY <1>1, <1>4, <1>5, <1>9, <2>2, <3>1, <3>2, GrownShape
    <2>. QED BY <1>2, <2>1, <2>2
  <1>11. Recording'
    BY <1>5 DEF Logs, Recording
  <1>. QED BY <1>1, <1>5, <1>7, <1>8, <1>9, <1>10, <1>11 DEF Logs
-----------------------------------------------------------------------------
(* Types: the window's commands and the launches.                          *)

\* What the screen and the threads keep stays as it is.
LEMMA SameOthers ==
    ASSUME Others, used' \in [Inputs -> Nat], UNCHANGED <<screen, clock, events, notices>>
    PROVE  Others'
  BY DEF Others, screen

\* A step that writes one automation, and no more.
LEMMA WritesAutoShape ==
    ASSUME Shape, NEW a \in DOMAIN autos, NEW row \in Automation,
           autos' = [autos EXCEPT ![a] = row], UNCHANGED <<runs, launches, given>>
    PROVE  Logs'
  <1>1. List(autos', Automation)
    BY ListWrites DEF Shape, Logs
  <1>2. Settled' /\ Afresh' /\ Recording'
    BY DEF Shape, Logs, Settled, Afresh, Recording
  <1>. QED BY <1>1, <1>2 DEF Shape, Logs

LEMMA SaveShape ==
    ASSUME Shape, NEW a \in DOMAIN autos, NEW form \in Forms, Save(a, form)
    PROVE  Shape'
  <1>. DEFINE row == [autos[a] EXCEPT !.form = form, !.next = NextRun(form)]
  <1>1. autos[a] \in Automation
    BY DEF Shape, Logs, List, Total
  <1>2. row \in Automation
    BY <1>1, NextRunIs DEF Automation
  <1>3. autos' = [autos EXCEPT ![a] = row]
    BY DEF Save
  <1>4. Logs'
    <2>. HIDE DEF row
    <2>. QED BY <1>2, <1>3, WritesAutoShape DEF Save, threads
  <1>5. Others'
    BY ComesIs, SameOthers DEF Save, Shape, Others, Inputs, threads
  <1>. QED BY <1>4, <1>5 DEF Shape

LEMMA SetEnabledShape ==
    ASSUME Shape, NEW a \in DOMAIN autos, NEW on \in BOOLEAN, SetEnabled(a, on)
    PROVE  Shape'
  <1>. DEFINE row == [autos[a] EXCEPT !.enabled = on,
                         !.next = IF on THEN NextRun(autos[a].form) ELSE @]
  <1>1. autos[a] \in Automation
    BY DEF Shape, Logs, List, Total
  <1>2. row \in Automation
    BY <1>1, NextRunIs DEF Automation
  <1>3. autos' = [autos EXCEPT ![a] = row]
    BY DEF SetEnabled
  <1>4. Logs'
    <2>. HIDE DEF row
    <2>. QED BY <1>2, <1>3, WritesAutoShape DEF SetEnabled, threads
  <1>5. Others'
    BY ComesIs, SameOthers DEF SetEnabled, Shape, Others, Inputs, threads
  <1>. QED BY <1>4, <1>5 DEF Shape

LEMMA TimePassesShape ==
    ASSUME Shape, NEW a \in DOMAIN autos, TimePasses(a) \/ RestEnds(a)
    PROVE  Shape'
  <1>1. autos[a] \in Automation
    BY DEF Shape, Logs, List, Total
  <1>2. CASE TimePasses(a)
    <2>. DEFINE row == [autos[a] EXCEPT !.next = "due"]
    <2>1. row \in Automation /\ autos' = [autos EXCEPT ![a] = row]
      BY <1>1, <1>2 DEF Automation, TimePasses
    <2>2. Logs'
      <3>. HIDE DEF row
      <3>. QED BY <1>2, <2>1, WritesAutoShape DEF TimePasses, threads
    <2>3. Others'
      BY <1>2, ComesIs, SameOthers DEF TimePasses, Shape, Others, Inputs, threads
    <2>. QED BY <2>2, <2>3 DEF Shape
  <1>3. CASE RestEnds(a)
    <2>. DEFINE row == [autos[a] EXCEPT !.rested = FALSE]
    <2>1. row \in Automation /\ autos' = [autos EXCEPT ![a] = row]
      BY <1>1, <1>3 DEF Automation, RestEnds
    <2>2. Logs'
      <3>. HIDE DEF row
      <3>. QED BY <1>3, <2>1, WritesAutoShape DEF RestEnds, threads, memory
    <2>3. Others'
      BY <1>3, SameOthers DEF RestEnds, Shape, Others, threads
    <2>. QED BY <2>2, <2>3 DEF Shape
  <1>. QED BY <1>2, <1>3

\* Rows taken out of the two lists.
LEMMA DeleteShape ==
    ASSUME Shape, NEW a \in DOMAIN autos, Delete(a)
    PROVE  Shape'
  <1>1. /\ autos' = Without(autos, {a}) /\ runs' = Without(runs, RunsOf(runs, a))
        /\ given' = Without(given, {a}) /\ launches' = launches
    BY DEF Delete, Deleted, threads
  <1>2. List(autos', Automation) /\ List(runs', Run) /\ List(given', Nat)
    BY <1>1, ListDrops DEF Shape, Logs
  <1>3. DOMAIN given' = DOMAIN autos'
    BY <1>1 DEF Without, Shape, Logs
  <1>4. \A r \in DOMAIN runs' : r \in DOMAIN runs /\ runs'[r] = runs[r]
    BY <1>1 DEF Without
  <1>5. Settled' /\ Afresh' /\ Recording'
    BY <1>1, <1>4 DEF Shape, Logs, Settled, Afresh, Recording
  <1>6. Logs'
    BY <1>1, <1>2, <1>3, <1>5 DEF Shape, Logs
  <1>7. Others'
    BY ComesIs, SameOthers DEF Delete, Shape, Others, Inputs, threads
  <1>. QED BY <1>6, <1>7 DEF Shape

\* A step that calms runs, and changes no other list.
LEMMA CalmerLogs ==
    ASSUME Logs, Calmer(runs, runs'), UNCHANGED <<autos, launches, given>>
    PROVE  Logs'
  <1>1. List(runs', Run) /\ Settled' /\ Afresh'
    BY CalmerShape
  <1>2. Recording'
    BY DEF Logs, Recording
  <1>. QED BY <1>1, <1>2 DEF Logs

LEMMA CancelCalms ==
    ASSUME Logs, NEW r \in DOMAIN runs, Cancel(r)
    PROVE  Calmer(runs, runs') /\ SamePanes(runs, runs')
  <1>1. \A q \in DOMAIN runs : runs[q] \in Run
    BY DEF Logs, List, Total
  <1>2. runs' = [runs EXCEPT ![r] = Cancelled(@)]
    BY DEF Cancel, Cancelled
  <1>. QED BY <1>1, <1>2, CancellingCalms, CalmsAsItIs DEF Calmer, SamePanes

LEMMA CancelShape ==
    ASSUME Shape, NEW r \in DOMAIN runs, Cancel(r)
    PROVE  Shape'
  <1>1. Logs'
    <2>1. Logs /\ Calmer(runs, runs')
      BY CancelCalms DEF Shape
    <2>2. UNCHANGED <<autos, launches, given>>
      BY DEF Cancel, threads, memory
    <2>. QED BY <2>1, <2>2, CalmerLogs
  <1>2. Others'
    BY ComesIs, SameOthers DEF Cancel, Shape, Others, Inputs, threads
  <1>. QED BY <1>1, <1>2 DEF Shape

LEMMA ClosingCalms ==
    ASSUME Logs, NEW a
    PROVE  Calmer(runs, PanelessClosed(a)) /\ SamePanes(runs, PanelessClosed(a))
  <1>1. \A q \in DOMAIN runs : runs[q] \in Run
    BY DEF Logs, List, Total
  <1>2. \A r \in DOMAIN runs :
           \/ PanelessClosed(a)[r] = runs[r]
           \/ Tracked(runs[r]) /\ PanelessClosed(a)[r] = Finished(runs[r], "failed")
    BY DEF PanelessClosed
  <1>3. DOMAIN PanelessClosed(a) = DOMAIN runs
    BY DEF PanelessClosed
  <1>. QED BY <1>1, <1>2, <1>3, CalmsAsItIs, EndingCalms DEF Calmer, SamePanes

LEMMA RunNowShape ==
    ASSUME Shape, NEW a \in DOMAIN autos, RunNow(a)
    PROVE  Shape'
  <1>1. Logs'
    BY ClosingCalms, BeginsShape DEF Shape, RunNow, Triggers
  <1>2. Others'
    BY ComesIs, SameOthers DEF RunNow, Shape, Others, Inputs
  <1>. QED BY <1>1, <1>2 DEF Shape
-----------------------------------------------------------------------------
(* Types: the launches, the clock and events.                              *)

\* The run of launch t is there to be written.
Writable(t) == launches[t].auto \in DOMAIN autos /\ launches[t].run \in DOMAIN runs

\* What Writes does: the launch is over, and at most its run changes.
Wrote(t, row) ==
    /\ launches' = Without(launches, {t})
    /\ DOMAIN autos' = DOMAIN autos
    /\ \A a \in DOMAIN autos : autos'[a].last = autos[a].last
    /\ IF Writable(t) THEN runs' = [runs EXCEPT ![launches[t].run] = row] ELSE runs' = runs
    /\ UNCHANGED <<given, notices, screen, reborn>>

LEMMA WritesDoes ==
    ASSUME Logs, NEW t \in DOMAIN launches, NEW row, Writes(t, row)
    PROVE  Wrote(t, row) /\ List(autos', Automation)
  <1>. DEFINE a == launches[t].auto
  <1>1. List(autos, Automation)
    BY DEF Logs
  <1>2. \/ a \in DOMAIN autos /\ autos' = Rescheduled(autos, a)
        \/ autos' = autos
    BY DEF Writes
  <1>3. /\ DOMAIN autos' = DOMAIN autos /\ List(autos', Automation)
        /\ \A b \in DOMAIN autos : autos'[b].last = autos[b].last
    <2>1. CASE autos' = autos
      BY <1>1, <2>1
    <2>2. CASE a \in DOMAIN autos /\ autos' = Rescheduled(autos, a)
      <3>. HIDE DEF a
      <3>. QED BY <1>1, <2>2, RescheduledIs
    <2>. QED BY <1>2, <2>1, <2>2
  <1>4. IF Writable(t) THEN runs' = [runs EXCEPT ![launches[t].run] = row] ELSE runs' = runs
    BY DEF Writes, Writable
  <1>5. launches' = Without(launches, {t}) /\ UNCHANGED <<given, notices, screen, reborn>>
    BY DEF Writes
  <1>. QED BY <1>3, <1>4, <1>5 DEF Wrote

LEMMA WritesShape ==
    ASSUME Logs, NEW t \in DOMAIN launches, NEW row, Writes(t, row),
           Writable(t) => row \in Run /\ ~row.settling
    PROVE  Logs'
  <1>1. Wrote(t, row) /\ List(autos', Automation)
    BY WritesDoes
  <1>2. List(launches', Launch)
    BY <1>1, ListDrops DEF Logs, Wrote
  <1>3. \A u \in DOMAIN launches' : u \in DOMAIN launches /\ launches'[u] = launches[u]
    BY <1>1 DEF Wrote, Without
  <1>4. /\ DOMAIN runs' = DOMAIN runs
        /\ \A r \in DOMAIN runs :
             runs'[r] = runs[r] \/ (runs'[r] \in Run /\ ~runs'[r].settling)
    BY <1>1 DEF Wrote
  <1>5. List(runs', Run)
    BY <1>4 DEF Logs, List, Total
  <1>6. Settled' /\ Afresh' /\ Recording'
    BY <1>3, <1>4 DEF Logs, Settled, Afresh, Recording
  <1>. QED BY <1>1, <1>2, <1>5, <1>6 DEF Logs, Wrote

LEMMA ListsEndIs ==
    ASSUME Others, NEW trigger, ListsEnd(trigger)
    PROVE  clock' \in [ticking: BOOLEAN, due: SUBSET Nat] /\ events' \in SUBSET Nat
  BY DEF Others, ListsEnd

LEMMA WritesOthers ==
    ASSUME Others, NEW t \in DOMAIN launches, NEW row, Writes(t, row), UNCHANGED used
    PROVE  Others'
  <1>1. clock' \in [ticking: BOOLEAN, due: SUBSET Nat] /\ events' \in SUBSET Nat
    <2>1. UNCHANGED <<clock, events>> \/ ListsEnd(launches[t].trigger)
      BY DEF Writes
    <2>. QED BY <2>1, ListsEndIs DEF Others
  <1>2. UNCHANGED <<notices, screen, used>>
    BY DEF Writes
  <1>. QED BY <1>1, <1>2 DEF Others, screen

LEMMA SkippedIs ==
    ASSUME NEW row \in Run
    PROVE  /\ Skipped(row, "precheck") \in Run
           /\ Skipped(row, "precheck").settling = row.settling
  BY DEF Run, Skipped, Statuses

LEMMA CheckFailsShape ==
    ASSUME Shape, NEW t \in DOMAIN launches, CheckFails(t)
    PROVE  Shape'
  <1>. DEFINE row == Skipped(runs[launches[t].run], "precheck")
  <1>1. Writes(t, row) /\ UNCHANGED used
    BY DEF CheckFails
  <1>2. Writable(t) => row \in Run /\ ~row.settling
    <2>. HAVE Writable(t)
    <2>1. runs[launches[t].run] \in Run /\ ~runs[launches[t].run].settling
      BY DEF Writable, Shape, Logs, Afresh, List, Total
    <2>. QED BY <2>1, SkippedIs
  <1>. HIDE DEF row
  <1>. QED BY <1>1, <1>2, WritesShape, WritesOthers DEF Shape

LEMMA StartOfIs ==
    ASSUME NEW row \in Run, NEW l \in Launch, l.outcome \in Outcomes
    PROVE  /\ StartOf(row, l) \in Run /\ StartOf(row, l).settling = row.settling
           /\ StartOf(row, l).auto = row.auto /\ StartOf(row, l).number = row.number
           /\ StartOf(row, l).trigger = row.trigger
           /\ StartOf(row, l).cancelled = row.cancelled
           /\ StartOf(row, l).lastTerm = row.lastTerm
           /\ StartOf(row, l).lastKey = row.lastKey
           /\ StartOf(row, l).adrift = row.adrift
           /\ \/ /\ StartOf(row, l).term = row.term /\ StartOf(row, l).key = row.key
              \/ /\ l.term # 0
                 /\ StartOf(row, l).term = l.term /\ StartOf(row, l).key = l.key
  <1>. DEFINE ended == [row EXCEPT !.status = l.outcome]
  <1>1. CASE l.outcome = "dispatched"
    <2>1. StartOf(row, l) = [ended EXCEPT !.sent = TRUE,
                            !.term = IF l.term # 0 THEN l.term ELSE @,
                            !.key = IF l.term # 0 THEN l.key ELSE @]
      BY <1>1 DEF StartOf
    <2>. QED BY <1>1, <2>1 DEF Run, Launch, Statuses
  <1>2. CASE l.outcome = "skipped"
    <2>1. StartOf(row, l) = [ended EXCEPT !.cause = "unavailable"]
      BY <1>2 DEF StartOf
    <2>. QED BY <1>2, <2>1 DEF Run, Launch, Statuses
  <1>3. CASE l.outcome = "failed"
    <2>1. StartOf(row, l) = ended
      BY <1>3 DEF StartOf
    <2>. QED BY <1>3, <2>1 DEF Run, Launch, Statuses
  <1>. QED BY <1>1, <1>2, <1>3 DEF Outcomes

LEMMA RecordShape ==
    ASSUME Shape, NEW t \in DOMAIN launches, Record(t)
    PROVE  Shape'
  <1>. DEFINE row == StartOf(runs[launches[t].run], launches[t])
  <1>1. Writes(t, row) /\ UNCHANGED used
    BY DEF Record
  <1>2. Writable(t) => row \in Run /\ ~row.settling
    <2>. HAVE Writable(t)
    <2>1. runs[launches[t].run] \in Run /\ ~runs[launches[t].run].settling
      BY DEF Writable, Shape, Logs, Afresh, List, Total
    <2>2. launches[t] \in Launch /\ launches[t].outcome \in Outcomes
      BY DEF Record, Shape, Logs, Recording, List, Total
    <2>. QED BY <2>1, <2>2, StartOfIs
  <1>. HIDE DEF row
  <1>. QED BY <1>1, <1>2, WritesShape, WritesOthers DEF Shape

\* A step that moves one launch on.
LEMMA MovesShape ==
    ASSUME Logs, NEW t \in DOMAIN launches, NEW l \in Launch,
           l.run = launches[t].run, l.stage = "record" => l.outcome \in Outcomes,
           launches' = [launches EXCEPT ![t] = l], UNCHANGED <<saved, given>>
    PROVE  Logs'
  <1>1. List(launches', Launch)
    BY ListWrites DEF Logs
  <1>2. DOMAIN launches' = DOMAIN launches /\ launches'[t] = l
        /\ \A u \in DOMAIN launches \ {t} : launches'[u] = launches[u]
    OBVIOUS
  <1>3. Settled' /\ Afresh' /\ Recording'
    BY <1>2 DEF Logs, Settled, Afresh, Recording, saved
  <1>. QED BY <1>1, <1>3 DEF Logs, saved

LEMMA CheckPassesShape ==
    ASSUME Shape, NEW t \in DOMAIN launches, CheckPasses(t)
    PROVE  Shape'
  <1>. DEFINE l == [launches[t] EXCEPT !.stage = "place"]
  <1>1. launches[t] \in Launch
    BY DEF Shape, Logs, List, Total
  <1>2. l \in Launch /\ l.run = launches[t].run /\ l.stage # "record"
    BY <1>1 DEF Launch
  <1>3. launches' = [launches EXCEPT ![t] = l] /\ UNCHANGED <<saved, given>>
    BY DEF CheckPasses, memory
  <1>4. Logs'
    <2>. HIDE DEF l
    <2>. QED BY <1>2, <1>3, MovesShape DEF Shape
  <1>5. Others'
    BY DEF CheckPasses, Shape, Others, screen
  <1>. QED BY <1>4, <1>5 DEF Shape

PlacedOne(l, outcome, term, key) ==
    [l EXCEPT !.stage = "record", !.outcome = outcome, !.term = term, !.key = key]

LEMMA PlacedIs ==
    ASSUME NEW l \in Launch, NEW outcome \in Outcomes, NEW term \in Nat, NEW key \in Nat
    PROVE  /\ PlacedOne(l, outcome, term, key) \in Launch
           /\ PlacedOne(l, outcome, term, key).run = l.run
           /\ PlacedOne(l, outcome, term, key).outcome = outcome
           /\ PlacedOne(l, outcome, term, key).term = term
           /\ PlacedOne(l, outcome, term, key).key = key
  BY DEF PlacedOne, Launch, Outcomes

LEMMA PlacedMoves ==
    ASSUME NEW t \in DOMAIN launches, NEW outcome, NEW term, NEW key
    PROVE  Placed(t, outcome, term, key)
             = [launches EXCEPT ![t] = PlacedOne(launches[t], outcome, term, key)]
  BY DEF Placed, PlacedOne

LEMMA PlacedShape ==
    ASSUME Logs, NEW t \in DOMAIN launches, NEW outcome \in Outcomes,
           NEW term \in Nat, NEW key \in Nat,
           launches' = Placed(t, outcome, term, key), UNCHANGED <<saved, given>>
    PROVE  Logs'
  <1>. DEFINE l == PlacedOne(launches[t], outcome, term, key)
  <1>1. launches[t] \in Launch
    BY DEF Logs, List, Total
  <1>2. l \in Launch /\ l.run = launches[t].run /\ l.outcome \in Outcomes
    BY <1>1, PlacedIs
  <1>3. launches' = [launches EXCEPT ![t] = l]
    BY PlacedMoves
  <1>. HIDE DEF l
  <1>. QED BY <1>2, <1>3, MovesShape

LEMMA PlaceFailsShape ==
    ASSUME Shape, NEW t \in DOMAIN launches, PlaceFails(t)
    PROVE  Shape'
  <1>1. PICK outcome \in {"failed", "skipped"} : launches' = Placed(t, outcome, 0, 0)
    BY DEF PlaceFails
  <1>2. outcome \in Outcomes /\ 0 \in Nat
    BY DEF Outcomes
  <1>3. UNCHANGED <<saved, given>>
    BY DEF PlaceFails, memory
  <1>4. Logs'
    BY <1>1, <1>2, <1>3, PlacedShape DEF Shape
  <1>5. Others'
    BY ComesIs, SameOthers DEF PlaceFails, Shape, Others, Inputs
  <1>. QED BY <1>4, <1>5 DEF Shape

LEMMA PlaceShape ==
    ASSUME Shape, NEW t \in DOMAIN launches, Place(t)
    PROVE  Shape'
  <1>1. UNCHANGED <<saved, given, clock, events, terms, topTerm, reopen, used>>
    BY DEF Place, memory
  <1>2. launches[t] \in Launch /\ launches[t].run \in Nat /\ "dispatched" \in Outcomes
    BY DEF Shape, Logs, List, Total, Launch, Outcomes
  <1>3. CASE \E s \in Sessions(launches[t]) :
               /\ launches' = Placed(t, "dispatched", s, terms[s].key)
               /\ opened' = [opened EXCEPT ![terms[s].key] = @ \cup {launches[t].run}]
               /\ UNCHANGED notices
    <2>1. PICK s \in Sessions(launches[t]) :
               /\ launches' = Placed(t, "dispatched", s, terms[s].key)
               /\ opened' = [opened EXCEPT ![terms[s].key] = @ \cup {launches[t].run}]
               /\ UNCHANGED notices
      BY <1>3
    <2>2. s \in DOMAIN terms
      BY DEF Sessions
    <2>3. s \in Nat /\ terms[s].key \in Nat
      BY <2>2 DEF Shape, Others, List, Total, Term
    <2>4. Logs'
      BY <1>1, <1>2, <2>1, <2>3, PlacedShape DEF Shape
    <2>5. List(opened', SUBSET Nat)
      <3>1. /\ DOMAIN opened' = DOMAIN opened
            /\ \A k \in DOMAIN opened : opened'[k] \subseteq opened[k] \cup {launches[t].run}
        BY <2>1
      <3>. QED BY <1>2, <3>1 DEF Shape, Others, List, Total
    <2>6. Others'
      BY <1>1, <2>1, <2>5 DEF Shape, Others
    <2>. QED BY <2>4, <2>6 DEF Shape
  <1>4. CASE /\ launches' = Placed(t, "dispatched", 0, 0)
             /\ notices' = notices \cup {launches[t].run}
             /\ UNCHANGED opened
    <2>1. Logs'
      BY <1>1, <1>2, <1>4, PlacedShape DEF Shape
    <2>2. Others'
      BY <1>1, <1>2, <1>4 DEF Shape, Others
    <2>. QED BY <2>1, <2>2 DEF Shape
  <1>. QED BY <1>3, <1>4 DEF Place
-----------------------------------------------------------------------------
(* Types: the clock and events.                                            *)

LEMMA TickShape ==
    ASSUME Shape, Tick
    PROVE  Shape'
  <1>1. \A a \in DOMAIN autos : a \in Nat
    BY DEF Shape, Logs, List, Total
  <1>2. clock' \in [ticking: BOOLEAN, due: SUBSET Nat]
    BY <1>1 DEF Tick, Due
  <1>3. UNCHANGED <<saved, launches, events, notices, screen, given, used>>
    BY DEF Tick, memory
  <1>4. Logs'
    BY <1>3 DEF Shape, Logs, Settled, Afresh, Recording, saved
  <1>5. Others'
    BY <1>2, <1>3 DEF Shape, Others, screen
  <1>. QED BY <1>4, <1>5 DEF Shape

LEMMA SettlesCalms ==
    ASSUME Logs, NEW lost \in SUBSET AllSettling, NEW silent \in SUBSET Stalling,
           Settles(lost, silent)
    PROVE  Calmer(runs, runs') /\ SamePanes(runs, runs')
  <1>1. \A r \in DOMAIN runs : runs[r] \in Run
    BY DEF Logs, List, Total
  <1>2. /\ DOMAIN runs' = DOMAIN runs
        /\ \A r \in DOMAIN runs :
             \/ /\ r \in lost
                /\ runs'[r] = [Finished(runs[r], "failed") EXCEPT !.settling = FALSE]
             \/ r \in silent /\ runs'[r] = Finished(runs[r], "failed")
             \/ runs'[r] = runs[r]
    BY DEF Settles
  <1>3. \A r \in lost \cup silent : r \in DOMAIN runs /\ Tracked(runs[r])
    BY DEF AllSettling, Stalling, Settling
  <1>4. ASSUME NEW r \in DOMAIN runs
        PROVE  /\ Calms(runs[r], runs'[r]) /\ runs'[r].term = runs[r].term
               /\ runs'[r].key = runs[r].key
    <2>1. CASE r \in lost /\ runs'[r] = [Finished(runs[r], "failed") EXCEPT !.settling = FALSE]
      <3>1. runs[r] \in Run /\ Tracked(runs[r])
        BY <1>1, <1>3, <2>1
      <3>. QED BY <2>1, <3>1, EndingCalms
    <2>2. CASE r \in silent /\ runs'[r] = Finished(runs[r], "failed")
      <3>1. runs[r] \in Run /\ Tracked(runs[r])
        BY <1>1, <1>3, <2>2
      <3>. QED BY <2>2, <3>1, EndingCalms
    <2>3. CASE runs'[r] = runs[r]
      BY <1>1, <2>3, CalmsAsItIs
    <2>. QED BY <1>2, <2>1, <2>2, <2>3
  <1>. QED BY <1>2, <1>4 DEF Calmer, SamePanes

LEMMA BeatShape ==
    ASSUME Shape, Beat
    PROVE  Shape'
  <1>1. PICK lost \in SUBSET AllSettling, silent \in SUBSET Stalling : Settles(lost, silent)
    BY DEF Beat
  <1>2. UNCHANGED <<autos, launches, events, notices, screen, given, used>>
    BY <1>1 DEF Settles, memory
  <1>3. clock' \in [ticking: BOOLEAN, due: SUBSET Nat]
    BY <1>1 DEF Settles, Shape, Others
  <1>4. Logs'
    <2>1. Logs /\ Calmer(runs, runs')
      BY <1>1, SettlesCalms DEF Shape
    <2>. QED BY <1>2, <2>1, CalmerLogs
  <1>5. Others'
    BY <1>2, <1>3 DEF Shape, Others, screen
  <1>. QED BY <1>4, <1>5 DEF Shape

LEMMA RunsAsTheyAre ==
    ASSUME Logs
    PROVE  Calmer(runs, runs) /\ SamePanes(runs, runs)
  BY CalmsAsItIs DEF Logs, List, Total, Calmer, SamePanes

\* Begins, Refused and Missed log a run, or find it logged.
Logged(a, trigger) ==
    \/ Begins(a, trigger, runs) /\ UNCHANGED used
    \/ Refused(a, trigger)
    \/ trigger = "schedule" /\ Missed(a)

LEMMA LoggedIs ==
    ASSUME NEW a, NEW trigger, Logged(a, trigger)
    PROVE  \/ Begins(a, trigger, runs)
           \/ \E cause \in {"missed", "unavailable"} : Skips(a, trigger, cause)
  BY DEF Logged, Refused, Missed, Skips

LEMMA LoggedShape ==
    ASSUME Logs, used \in [Inputs -> Nat], NEW a \in DOMAIN autos,
           NEW trigger \in Triggers, Logged(a, trigger)
    PROVE  Logs' /\ used' \in [Inputs -> Nat]
  <1>1. ASSUME Begins(a, trigger, runs) PROVE Logs'
    BY <1>1, RunsAsTheyAre, BeginsShape
  <1>2. ASSUME NEW cause \in {"missed", "unavailable"}, Skips(a, trigger, cause)
        PROVE  Logs'
    BY <1>2, SkipsShape
  <1>3. Logs'
    BY <1>1, <1>2, LoggedIs
  <1>4. used' \in [Inputs -> Nat]
    BY ComesIs DEF Logged, Refused, Missed, Inputs
  <1>. QED BY <1>3, <1>4

LEMMA ClockStartsDoes ==
    ASSUME NEW a \in clock.due, ClockStarts(a)
    PROVE  /\ UNCHANGED <<notices, screen>>
           /\ \/ /\ a \in DOMAIN autos /\ Logged(a, "schedule")
                 /\ clock' = [clock EXCEPT !.due = @ \ {a}] /\ UNCHANGED events
              \/ ListsEnd("schedule") /\ UNCHANGED <<saved, launches, memory, used>>
  BY DEF ClockStarts, Logged

LEMMA ClockStartsShape ==
    ASSUME Shape, NEW a \in clock.due, ClockStarts(a)
    PROVE  Shape'
  <1>1. UNCHANGED <<notices, screen>>
    BY ClockStartsDoes
  <1>2. CASE /\ a \in DOMAIN autos /\ Logged(a, "schedule")
             /\ clock' = [clock EXCEPT !.due = @ \ {a}] /\ UNCHANGED events
    <2>1. Logs' /\ used' \in [Inputs -> Nat]
      BY <1>2, LoggedShape DEF Shape, Others, Triggers
    <2>2. clock' \in [ticking: BOOLEAN, due: SUBSET Nat]
      BY <1>2 DEF Shape, Others
    <2>3. Others'
      BY <1>1, <1>2, <2>1, <2>2 DEF Shape, Others, screen
    <2>. QED BY <2>1, <2>3 DEF Shape
  <1>3. CASE ListsEnd("schedule") /\ UNCHANGED <<saved, launches, memory, used>>
    <2>1. Logs'
      BY <1>3 DEF Shape, Logs, Settled, Afresh, Recording, saved, memory
    <2>2. clock' \in [ticking: BOOLEAN, due: SUBSET Nat] /\ events' \in SUBSET Nat
      BY <1>3, ListsEndIs DEF Shape
    <2>3. Others'
      BY <1>1, <1>3, <2>2 DEF Shape, Others, screen
    <2>. QED BY <2>1, <2>3 DEF Shape
  <1>. QED BY <1>2, <1>3, ClockStartsDoes

LEMMA EventStartsDoes ==
    ASSUME NEW a \in events, EventStarts(a)
    PROVE  /\ UNCHANGED <<notices, screen>>
           /\ \/ /\ a \in DOMAIN autos /\ Logged(a, "event")
                 /\ events' = events \ {a} /\ UNCHANGED clock
              \/ ListsEnd("event") /\ UNCHANGED <<saved, launches, memory, used>>
  BY DEF EventStarts, Logged

LEMMA EventStartsShape ==
    ASSUME Shape, NEW a \in events, EventStarts(a)
    PROVE  Shape'
  <1>1. UNCHANGED <<notices, screen>>
    BY EventStartsDoes
  <1>2. CASE /\ a \in DOMAIN autos /\ Logged(a, "event")
             /\ events' = events \ {a} /\ UNCHANGED clock
    <2>1. Logs' /\ used' \in [Inputs -> Nat]
      BY <1>2, LoggedShape DEF Shape, Others, Triggers
    <2>2. Others'
      BY <1>1, <1>2, <2>1 DEF Shape, Others, screen
    <2>. QED BY <2>1, <2>2 DEF Shape
  <1>3. CASE ListsEnd("event") /\ UNCHANGED <<saved, launches, memory, used>>
    <2>1. Logs'
      BY <1>3 DEF Shape, Logs, Settled, Afresh, Recording, saved, memory
    <2>2. clock' \in [ticking: BOOLEAN, due: SUBSET Nat] /\ events' \in SUBSET Nat
      BY <1>3, ListsEndIs DEF Shape
    <2>3. Others'
      BY <1>1, <1>3, <2>2 DEF Shape, Others, screen
    <2>. QED BY <2>1, <2>3 DEF Shape
  <1>. QED BY <1>2, <1>3, EventStartsDoes

\* An event has automations rest.
LEMMA SetsIs ==
    ASSUME Logs, NEW set \in SUBSET DOMAIN autos, Sets(set)
    PROVE  /\ List(autos', Automation) /\ DOMAIN autos' = DOMAIN autos
           /\ \A a \in DOMAIN autos : autos'[a].last = autos[a].last
           /\ events' \in SUBSET Nat
  <1>1. \A a \in DOMAIN autos :
           /\ autos[a] \in Automation
           /\ [autos[a] EXCEPT !.rested = TRUE] \in Automation
           /\ [autos[a] EXCEPT !.rested = TRUE].last = autos[a].last
    BY DEF Logs, List, Total, Automation
  <1>2. /\ DOMAIN autos' = DOMAIN autos
        /\ \A a \in DOMAIN autos :
             autos'[a] \in {autos[a], [autos[a] EXCEPT !.rested = TRUE]}
    BY DEF Sets
  <1>3. events' \in SUBSET Nat
    BY DEF Sets, Logs, List, Total
  <1>. QED BY <1>1, <1>2, <1>3 DEF Logs, List, Total

LEMMA SetsLogs ==
    ASSUME Logs, NEW set \in SUBSET DOMAIN autos, Sets(set), List(runs', Run),
           Settled', Afresh', UNCHANGED <<launches, given>>
    PROVE  Logs'
  <1>1. Recording'
    BY DEF Logs, Recording
  <1>2. List(autos', Automation) /\ DOMAIN autos' = DOMAIN autos
    BY SetsIs
  <1>. QED BY <1>1, <1>2 DEF Logs

LEMMA EventShape ==
    ASSUME Shape, Event
    PROVE  Shape'
  <1>1. Listening \in SUBSET DOMAIN autos /\ Sets(Listening)
    BY DEF Event, Listening
  <1>2. UNCHANGED <<runs, launches, clock, notices, screen, given>>
    BY DEF Event, memory
  <1>3. List(runs', Run) /\ Settled' /\ Afresh'
    BY <1>2 DEF Shape, Logs, Settled, Afresh
  <1>. DEFINE set == Listening
  <1>4. Logs' /\ events' \in SUBSET Nat
    <2>1. set \in SUBSET DOMAIN autos /\ Sets(set)
      BY <1>1
    <2>. HIDE DEF set
    <2>2. Logs /\ UNCHANGED <<launches, given>>
      BY <1>2 DEF Shape
    <2>. QED BY <1>3, <2>1, <2>2, SetsLogs, SetsIs
  <1>5. used' \in [Inputs -> Nat]
    BY ComesIs DEF Event, Inputs, Shape, Others
  <1>6. Others'
    BY <1>2, <1>4, <1>5 DEF Shape, Others, screen
  <1>. QED BY <1>4, <1>6 DEF Shape
-----------------------------------------------------------------------------
(* Types: the panes.                                                       *)

\* A terminal more has the next number.
LEMMA NewTermIs ==
    ASSUME Others, NEW key \in Nat, NEW names \in Nat, NewTerm(key, names)
    PROVE  /\ topTerm' \in Nat /\ topTerm' = topTerm + 1
           /\ topTerm' \notin DOMAIN terms
           /\ DOMAIN terms' = DOMAIN terms \cup {topTerm'}
           /\ terms'[topTerm'].key = key /\ terms'[topTerm'].names = names
           /\ \A t \in DOMAIN terms : terms'[t] = terms[t]
           /\ List(terms', Term) /\ DOMAIN terms' \subseteq 1..topTerm'
  <1>1. topTerm \in Nat /\ DOMAIN terms \subseteq 1..topTerm /\ List(terms, Term)
    BY DEF Others
  <1>2. topTerm' = topTerm + 1
    BY DEF NewTerm
  <1>3. PICK top : top = topTerm'
    OBVIOUS
  <1>4. top \in Nat \ {0} /\ top \notin DOMAIN terms /\ DOMAIN terms \cup {top} \subseteq 1..top
    BY <1>1, <1>2, <1>3
  <1>5. PICK row : row = [key |-> key, names |-> names, alive |-> TRUE, claimed |-> FALSE,
                          told |-> FALSE, state |-> "start"]
    OBVIOUS
  <1>6. row \in Term /\ row.key = key /\ row.names = names
    BY <1>5 DEF Term
  <1>7. terms' = With(terms, top, row)
    BY <1>3, <1>5 DEF NewTerm
  <1>8. List(terms', Term)
    BY <1>1, <1>4, <1>6, <1>7, ListAdds
  <1>9. /\ DOMAIN terms' = DOMAIN terms \cup {top} /\ terms'[top] = row
        /\ \A t \in DOMAIN terms : terms'[t] = terms[t]
    BY <1>4, <1>7 DEF With
  <1>. QED BY <1>2, <1>3, <1>4, <1>6, <1>8, <1>9

\* A pane more has a key of its own.
LEMMA NewPaneIs ==
    ASSUME Others, NEW names \in Nat, NEW for \in SUBSET Nat, NewPane(names, for)
    PROVE  \E key \in Nat \ {0} :
             /\ key \notin DOMAIN opened /\ NewTerm(key, names)
             /\ DOMAIN opened' = DOMAIN opened \cup {key} /\ opened'[key] = for
             /\ \A k \in DOMAIN opened : opened'[k] = opened[k]
             /\ List(opened', SUBSET Nat) /\ reopen' = reopen
  <1>1. PICK key : key = Highest(DOMAIN opened) + 1
    OBVIOUS
  <1>2. List(opened, SUBSET Nat)
    BY DEF Others
  <1>3. key \in Nat \ {0} /\ key \notin DOMAIN opened
    BY <1>1, <1>2, ListIds
  <1>4. NewTerm(key, names) /\ opened' = With(opened, key, for) /\ reopen' = reopen
    BY <1>1 DEF NewPane
  <1>5. List(opened', SUBSET Nat)
    BY <1>2, <1>3, <1>4, ListAdds
  <1>6. /\ DOMAIN opened' = DOMAIN opened \cup {key} /\ opened'[key] = for
        /\ \A k \in DOMAIN opened : opened'[k] = opened[k]
    BY <1>3, <1>4 DEF With
  <1>. QED BY <1>3, <1>4, <1>5, <1>6

LEMMA SameLogs ==
    ASSUME Logs, UNCHANGED <<saved, launches, given>>
    PROVE  Logs'
  BY DEF Logs, Settled, Afresh, Recording, saved

LEMMA UserOpensShape ==
    ASSUME Shape, UserOpens
    PROVE  Shape'
  <1>1. NewPane(0, {}) /\ UNCHANGED <<saved, threads, memory>>
    BY DEF UserOpens
  <1>2. PICK key \in Nat : NewTerm(key, 0) /\ List(opened', SUBSET Nat) /\ reopen' = reopen
    BY <1>1, NewPaneIs DEF Shape
  <1>3. List(terms', Term) /\ DOMAIN terms' \subseteq 1..topTerm' /\ topTerm' \in Nat
    BY <1>2, NewTermIs DEF Shape
  <1>4. used' \in [Inputs -> Nat]
    BY ComesIs DEF UserOpens, Inputs, Shape, Others
  <1>5. Others'
    BY <1>1, <1>2, <1>3, <1>4 DEF Shape, Others, threads
  <1>. QED BY <1>1, <1>5, SameLogs DEF Shape, threads, memory

LEMMA WindowStartsShape ==
    ASSUME Shape, NEW r \in notices, WindowStarts(r)
    PROVE  Shape'
  <1>1. NewPane(r, {r}) /\ UNCHANGED <<saved, launches, clock, events, memory>>
    BY DEF WindowStarts
  <1>2. r \in Nat
    BY DEF Shape, Others
  <1>3. PICK key \in Nat : NewTerm(key, r) /\ List(opened', SUBSET Nat) /\ reopen' = reopen
    <2>1. {r} \in SUBSET Nat
      BY <1>2
    <2>. QED BY <1>1, <1>2, <2>1, NewPaneIs DEF Shape
  <1>4. List(terms', Term) /\ DOMAIN terms' \subseteq 1..topTerm' /\ topTerm' \in Nat
    BY <1>2, <1>3, NewTermIs DEF Shape
  <1>5. used' \in [Inputs -> Nat] /\ notices' \in SUBSET Nat
    BY DEF WindowStarts, Inputs, Shape, Others
  <1>6. Others'
    BY <1>1, <1>3, <1>4, <1>5 DEF Shape, Others
  <1>. QED BY <1>1, <1>6, SameLogs DEF Shape, memory

LEMMA ReopensShape ==
    ASSUME Shape, NEW key \in reopen, Reopens(key)
    PROVE  Shape'
  <1>1. NewTerm(key, 0) /\ UNCHANGED <<saved, threads, opened, memory, used>>
    BY DEF Reopens
  <1>2. List(terms', Term) /\ DOMAIN terms' \subseteq 1..topTerm' /\ topTerm' \in Nat
    BY <1>1, NewTermIs DEF Shape, Others
  <1>3. reopen' \in SUBSET Nat
    BY DEF Reopens, Shape, Others
  <1>4. Others'
    BY <1>1, <1>2, <1>3 DEF Shape, Others, threads
  <1>. QED BY <1>1, <1>4, SameLogs DEF Shape, threads, memory

\* Rows of terms change, and those not needed any more go.
Kin(ts, new) ==
    /\ DOMAIN new \subseteq DOMAIN ts
    /\ \A t \in DOMAIN new : new[t].key = ts[t].key /\ new[t].names = ts[t].names

LEMMA TermChanges ==
    ASSUME List(terms, Term), NEW t \in DOMAIN terms, NEW row \in Term,
           row.key = terms[t].key, row.names = terms[t].names
    PROVE  LET new == [terms EXCEPT ![t] = row] IN
           /\ List(new, Term) /\ Kin(terms, new)
           /\ List(Kept(new), Term) /\ Kin(terms, Kept(new))
  <1>1. PICK new : new = [terms EXCEPT ![t] = row]
    OBVIOUS
  <1>2. List(new, Term)
    BY <1>1, ListWrites
  <1>3. Kin(terms, new)
    BY <1>1 DEF Kin
  <1>4. PICK gone : Kept(new) = Without(new, gone)
    BY DEF Kept
  <1>5. List(Kept(new), Term)
    BY <1>2, <1>4, ListDrops
  <1>6. Kin(terms, Kept(new))
    BY <1>3, <1>4 DEF Kin, Without
  <1>. QED BY <1>1, <1>2, <1>3, <1>5, <1>6

\* The four changes of a terminal.
LEMMA TermRows ==
    ASSUME NEW row \in Term, NEW said \in {"start", "working", "done", "interrupted"}
    PROVE  \A new \in {[row EXCEPT !.claimed = TRUE], [row EXCEPT !.told = TRUE],
                       [row EXCEPT !.alive = FALSE], [row EXCEPT !.state = said]} :
             new \in Term /\ new.key = row.key /\ new.names = row.names
  BY DEF Term

LEMMA KinOthers ==
    ASSUME Others, List(terms', Term), Kin(terms, terms'), used' \in [Inputs -> Nat],
           events' \in SUBSET Nat, UNCHANGED <<clock, notices, topTerm, reopen, opened>>
    PROVE  Others'
  BY DEF Others, Kin

LEMMA TermIn ==
    ASSUME Others, NEW t \in DOMAIN terms
    PROVE  /\ List(terms, Term) /\ terms[t] \in Term /\ terms[t].key \in Nat
           /\ t \in Nat \ {0} /\ t <= topTerm
  BY DEF Others, List, Total, Term

\* The run a pane is claimed for is followed there.
LEMMA ClaimIs ==
    ASSUME Shape, NEW t \in DOMAIN terms, Claim(t)
    PROVE  /\ Calmer(runs, runs')
           /\ \A r \in DOMAIN runs :
                \/ runs'[r] = runs[r]
                \/ /\ r \in Claimants(terms[t])
                   /\ runs'[r] = Followed(runs[r], t, terms[t].key)
           /\ Kin(terms, terms') /\ List(terms', Term)
  <1>1. \A r \in DOMAIN runs : runs[r] \in Run
    BY DEF Shape, Logs, List, Total
  <1>2. List(terms, Term) /\ terms[t] \in Term /\ t \in Nat /\ terms[t].key \in Nat
    BY TermIn DEF Shape
  <1>3. /\ DOMAIN runs' = DOMAIN runs
        /\ \A r \in DOMAIN runs :
             \/ runs'[r] = runs[r]
             \/ /\ r \in Claimants(terms[t])
                /\ runs'[r] = Followed(runs[r], t, terms[t].key)
    BY DEF Claim
  <1>4. Calmer(runs, runs')
    BY <1>1, <1>2, <1>3, CalmsAsItIs, FollowingCalms DEF Calmer
  <1>5. PICK row : row = [terms[t] EXCEPT !.claimed = TRUE]
    OBVIOUS
  <1>6. row \in Term /\ row.key = terms[t].key /\ row.names = terms[t].names
    BY <1>2, <1>5, TermRows
  <1>7. terms' = Kept([terms EXCEPT ![t] = row])
    BY <1>5 DEF Claim
  <1>8. Kin(terms, terms') /\ List(terms', Term)
    BY <1>2, <1>6, <1>7, TermChanges
  <1>. QED BY <1>3, <1>4, <1>8

LEMMA ClaimShape ==
    ASSUME Shape, NEW t \in DOMAIN terms, Claim(t)
    PROVE  Shape'
  <1>1. Calmer(runs, runs') /\ Kin(terms, terms') /\ List(terms', Term)
    BY ClaimIs
  <1>2. UNCHANGED <<autos, threads, topTerm, reopen, opened, memory, used>>
    BY DEF Claim
  <1>3. Logs'
    BY <1>1, <1>2, CalmerLogs DEF Shape, threads, memory
  <1>4. Others'
    BY <1>1, <1>2, KinOthers DEF Shape, Others, threads
  <1>. QED BY <1>3, <1>4 DEF Shape

LEMMA ExitsIs ==
    ASSUME Others, NEW t \in DOMAIN terms, Exits(t)
    PROVE  Kin(terms, terms') /\ List(terms', Term)
  <1>1. List(terms, Term) /\ terms[t] \in Term
    BY TermIn
  <1>2. PICK row : row = [terms[t] EXCEPT !.alive = FALSE]
    OBVIOUS
  <1>3. row \in Term /\ row.key = terms[t].key /\ row.names = terms[t].names
    BY <1>1, <1>2, TermRows
  <1>4. terms' = [terms EXCEPT ![t] = row]
    BY <1>2 DEF Exits
  <1>. QED BY <1>1, <1>3, <1>4, TermChanges

LEMMA ExitsShape ==
    ASSUME Shape, NEW t \in DOMAIN terms, Exits(t)
    PROVE  Shape'
  <1>1. Kin(terms, terms') /\ List(terms', Term)
    BY ExitsIs DEF Shape
  <1>2. UNCHANGED <<saved, threads, topTerm, reopen, opened, memory>>
    BY DEF Exits
  <1>3. used' \in [Inputs -> Nat]
    BY ComesIs DEF Exits, Inputs, Shape, Others
  <1>4. Others'
    BY <1>1, <1>2, <1>3, KinOthers DEF Shape, Others, threads
  <1>. QED BY <1>2, <1>4, SameLogs DEF Shape, threads, memory

LEMMA PaneEndedIs ==
    ASSUME Shape, NEW t \in DOMAIN terms, PaneEnded(t)
    PROVE  /\ Calmer(runs, runs') /\ SamePanes(runs, runs')
           /\ Kin(terms, terms') /\ List(terms', Term)
  <1>1. \A r \in DOMAIN runs : runs[r] \in Run
    BY DEF Shape, Logs, List, Total
  <1>2. List(terms, Term) /\ terms[t] \in Term
    BY TermIn DEF Shape
  <1>3. /\ DOMAIN runs' = DOMAIN runs
        /\ \A r \in DOMAIN runs :
             \/ runs'[r] = runs[r]
             \/ Tracked(runs[r]) /\ runs'[r] = Finished(runs[r], "failed")
    BY DEF PaneEnded, Follower, Followers
  <1>4. Calmer(runs, runs') /\ SamePanes(runs, runs')
    BY <1>1, <1>3, CalmsAsItIs, EndingCalms DEF Calmer, SamePanes
  <1>5. PICK row : row = [terms[t] EXCEPT !.told = TRUE]
    OBVIOUS
  <1>6. row \in Term /\ row.key = terms[t].key /\ row.names = terms[t].names
    BY <1>2, <1>5, TermRows
  <1>7. terms' = Kept([terms EXCEPT ![t] = row])
    BY <1>5 DEF PaneEnded
  <1>8. Kin(terms, terms') /\ List(terms', Term)
    BY <1>2, <1>6, <1>7, TermChanges
  <1>. QED BY <1>4, <1>8

LEMMA PaneEndedShape ==
    ASSUME Shape, NEW t \in DOMAIN terms, PaneEnded(t)
    PROVE  Shape'
  <1>1. Calmer(runs, runs') /\ Kin(terms, terms') /\ List(terms', Term)
    BY PaneEndedIs
  <1>2. UNCHANGED <<autos, threads, topTerm, reopen, opened, memory, used>>
    BY DEF PaneEnded
  <1>3. Logs'
    BY <1>1, <1>2, CalmerLogs DEF Shape, threads, memory
  <1>4. Others'
    BY <1>1, <1>2, KinOthers DEF Shape, Others, threads
  <1>. QED BY <1>3, <1>4 DEF Shape

LEMMA ReportsIs ==
    ASSUME Shape, NEW t \in DOMAIN terms,
           NEW said \in {"working", "done", "interrupted", "boundary"}, Reports(t, said)
    PROVE  /\ Calmer(runs, runs') /\ SamePanes(runs, runs')
           /\ Kin(terms, terms') /\ List(terms', Term)
           /\ used' \in [Inputs -> Nat]
           /\ \/ UNCHANGED <<autos, events>>
              \/ Sets(Listening)
           /\ UNCHANGED <<launches, clock, notices, topTerm, reopen, opened, given, reborn>>
  <1>1. \A r \in DOMAIN runs : runs[r] \in Run
    BY DEF Shape, Logs, List, Total
  <1>2. List(terms, Term) /\ terms[t] \in Term
    BY TermIn DEF Shape
  <1>3. /\ DOMAIN runs' = DOMAIN runs
        /\ \A r \in DOMAIN runs :
             \/ runs'[r] = runs[r]
             \/ Tracked(runs[r]) /\ runs'[r] = Heard(runs[r], said)
    BY DEF Reports, Follower, Followers
  <1>4. Calmer(runs, runs') /\ SamePanes(runs, runs')
    BY <1>1, <1>3, CalmsAsItIs, HearingCalms DEF Calmer, SamePanes
  <1>5. PICK state \in {"start", "working", "done", "interrupted"} :
            state = IF said = "boundary" THEN "done" ELSE said
    OBVIOUS
  <1>6. PICK row : row = [terms[t] EXCEPT !.state = state]
    OBVIOUS
  <1>7. row \in Term /\ row.key = terms[t].key /\ row.names = terms[t].names
    BY <1>2, <1>6, TermRows
  <1>8. terms' = [terms EXCEPT ![t] = row]
    BY <1>5, <1>6 DEF Reports
  <1>9. Kin(terms, terms') /\ List(terms', Term)
    BY <1>2, <1>7, <1>8, TermChanges
  <1>10. \/ Comes("event") /\ Sets(Listening)
         \/ Comes("pause") /\ UNCHANGED <<autos, events>>
         \/ UNCHANGED <<autos, events, used>>
    <2>. DEFINE heard == [r \in DOMAIN runs |->
                    IF r \in Follower(t) THEN Heard(runs[r], said) ELSE runs[r]]
                own == OwnPane(heard, t, terms[t].key)
                finish == said = "done" /\ terms[t].state = "working" /\ Listening # {}
    <2>1. (CASE finish /\ ~own -> Comes("event") /\ Sets(Listening)
             [] said \in {"interrupted", "boundary"} ->
                  Comes("pause") /\ UNCHANGED <<autos, events>>
             [] OTHER -> UNCHANGED <<autos, events, used>>)
      BY DEF Reports
    <2>. HIDE DEF heard, own, finish
    <2>. QED BY <2>1
  <1>11. used' \in [Inputs -> Nat]
    BY <1>10, ComesIs DEF Shape, Others, Inputs
  <1>12. UNCHANGED <<launches, clock, notices, topTerm, reopen, opened, given, reborn>>
    BY DEF Reports
  <1>. QED BY <1>4, <1>9, <1>10, <1>11, <1>12

LEMMA ReportsShape ==
    ASSUME Shape, NEW t \in DOMAIN terms,
           NEW said \in {"working", "done", "interrupted", "boundary"}, Reports(t, said)
    PROVE  Shape'
  <1>1. /\ Calmer(runs, runs') /\ Kin(terms, terms') /\ List(terms', Term)
        /\ used' \in [Inputs -> Nat]
        /\ UNCHANGED <<launches, clock, notices, topTerm, reopen, opened, given>>
    BY ReportsIs
  <1>2. List(runs', Run) /\ Settled' /\ Afresh'
    BY <1>1, CalmerShape DEF Shape
  <1>3. UNCHANGED <<autos, events>> \/ Sets(Listening)
    BY ReportsIs
  <1>4. Logs' /\ events' \in SUBSET Nat
    <2>1. CASE UNCHANGED <<autos, events>>
      BY <1>1, <2>1, CalmerLogs DEF Shape, Others
    <2>2. CASE Sets(Listening)
      <3>1. PICK set \in SUBSET DOMAIN autos : set = Listening
        BY DEF Listening
      <3>2. Logs /\ Sets(set) /\ UNCHANGED <<launches, given>>
        BY <1>1, <2>2, <3>1 DEF Shape
      <3>. QED BY <1>2, <3>2, SetsIs, SetsLogs
    <2>. QED BY <1>3, <2>1, <2>2
  <1>5. Others'
    BY <1>1, <1>4, KinOthers DEF Shape
  <1>. QED BY <1>4, <1>5 DEF Shape
-----------------------------------------------------------------------------
(* Types: the restarts.                                                    *)

\* A run of a new process: what tidy and reconnect make of it.
Revived(row, found) == Reconnected(Tidied(row), found)

Unfollowed(row, term, key, drift) ==
    [row EXCEPT !.lastTerm = term, !.lastKey = key, !.term = 0, !.key = 0,
                !.settling = TRUE, !.adrift = drift]

LEMMA TidiedIs ==
    ASSUME NEW row \in Run, row.settling => row.term = 0
    PROVE  LET new == Tidied(row) IN
           /\ new \in Run
           /\ new.auto = row.auto /\ new.number = row.number
           /\ new.trigger = row.trigger /\ new.cancelled = row.cancelled
           /\ new.status # "pending" /\ (Tracked(new) <=> Tracked(row))
           /\ Tracked(new) => new.settling /\ new.term = 0 /\ new.key = 0
           /\ new.settling => new.term = 0
           /\ ~Tracked(new) => /\ new.term = row.term /\ new.key = row.key
                               /\ new.lastTerm = row.lastTerm /\ new.lastKey = row.lastKey
           /\ Tracked(new) =>
                /\ new.lastTerm = IF row.term # 0 THEN row.term ELSE row.lastTerm
                /\ new.lastKey = IF row.key # 0 THEN row.key ELSE row.lastKey
                /\ new.adrift = (row.adrift \/ (row.term = 0 /\ row.lastTerm # 0))
  <1>1. CASE row.status = "pending"
    <2>1. Tidied(row) = Finished(row, "failed")
      BY <1>1 DEF Tidied, Tracked
    <2>. QED BY <1>1, <2>1 DEF Finished, Run, Tracked, Statuses
  <1>2. CASE Tracked(row)
    <2>1. PICK term \in Nat, key \in Nat, drift \in BOOLEAN :
            /\ term = IF row.term # 0 THEN row.term ELSE row.lastTerm
            /\ key = IF row.key # 0 THEN row.key ELSE row.lastKey
            /\ drift = (row.adrift \/ (row.term = 0 /\ row.lastTerm # 0))
      BY DEF Run
    <2>2. Tidied(row) = Unfollowed(row, term, key, drift)
      BY <1>2, <2>1 DEF Tidied, Tracked, Unfollowed
    <2>3. Unfollowed(row, term, key, drift) \in Run
      BY DEF Unfollowed, Run
    <2>4. PICK new : new = Unfollowed(row, term, key, drift)
      OBVIOUS
    <2>5. /\ new.auto = row.auto /\ new.number = row.number
          /\ new.trigger = row.trigger /\ new.cancelled = row.cancelled
          /\ new.status = row.status /\ new.settling /\ new.term = 0 /\ new.key = 0
          /\ new.lastTerm = term /\ new.lastKey = key
      BY <2>4 DEF Unfollowed, Run
    <2>6. new.adrift = drift
      BY <2>4 DEF Unfollowed, Run
    <2>. QED BY <1>2, <2>1, <2>2, <2>3, <2>4, <2>5, <2>6 DEF Tracked
  <1>3. CASE row.status # "pending" /\ ~Tracked(row)
    <2>1. Tidied(row) = row
      BY <1>3 DEF Tidied
    <2>. QED BY <1>3, <2>1
  <1>. QED BY <1>1, <1>2, <1>3

LEMMA RevivedIs ==
    ASSUME NEW row \in Run, row.settling => row.term = 0, NEW found \in SUBSET Nat
    PROVE  LET new == Revived(row, found) IN
           /\ new \in Run
           /\ new.auto = row.auto /\ new.number = row.number
           /\ new.trigger = row.trigger /\ new.cancelled = row.cancelled
           /\ new.status # "pending" /\ (InProgress(new) <=> Tracked(row))
           /\ new.settling => new.term = 0
           /\ ~Tracked(row) => /\ new.term = row.term /\ new.key = row.key
                               /\ new.lastTerm = row.lastTerm /\ new.lastKey = row.lastKey
           /\ Tracked(row) =>
                /\ new.lastTerm = IF row.term # 0 THEN row.term ELSE row.lastTerm
                /\ new.lastKey = IF row.key # 0 THEN row.key ELSE row.lastKey
                /\ new.adrift = (row.adrift \/ (row.term = 0 /\ row.lastTerm # 0))
                /\ \/ new.term = 0 /\ new.key = 0
                   \/ /\ new.term = new.lastTerm /\ new.key = new.lastKey
                      /\ new.term \in found
  <1>1. PICK mid : mid = Tidied(row)
    OBVIOUS
  <1>2. PICK new : new = Revived(row, found)
    OBVIOUS
  <1>3. /\ mid \in Run
        /\ mid.auto = row.auto /\ mid.number = row.number
        /\ mid.trigger = row.trigger /\ mid.cancelled = row.cancelled
        /\ mid.status # "pending" /\ (Tracked(mid) <=> Tracked(row))
        /\ Tracked(mid) => mid.settling /\ mid.term = 0 /\ mid.key = 0
        /\ mid.settling => mid.term = 0
        /\ ~Tracked(mid) => /\ mid.term = row.term /\ mid.key = row.key
                            /\ mid.lastTerm = row.lastTerm /\ mid.lastKey = row.lastKey
        /\ Tracked(mid) =>
             /\ mid.lastTerm = IF row.term # 0 THEN row.term ELSE row.lastTerm
             /\ mid.lastKey = IF row.key # 0 THEN row.key ELSE row.lastKey
             /\ mid.adrift = (row.adrift \/ (row.term = 0 /\ row.lastTerm # 0))
    BY <1>1, TidiedIs
  <1>4. CASE Tracked(mid) /\ mid.lastTerm \in found
    <2>1. new = Followed(mid, mid.lastTerm, mid.lastKey)
      BY <1>1, <1>2, <1>4 DEF Revived, Reconnected
    <2>2. /\ new \in Run /\ new.auto = mid.auto /\ new.number = mid.number
          /\ new.trigger = mid.trigger /\ new.cancelled = mid.cancelled
          /\ new.status = mid.status /\ new.lastTerm = mid.lastTerm
          /\ new.lastKey = mid.lastKey /\ new.adrift = mid.adrift
          /\ ~new.settling /\ new.term = mid.lastTerm /\ new.key = mid.lastKey
      BY <1>3, <2>1 DEF Run, Followed
    <2>. QED BY <1>2, <1>3, <1>4, <2>2 DEF InProgress, Tracked
  <1>5. CASE ~(Tracked(mid) /\ mid.lastTerm \in found)
    <2>1. new = mid
      BY <1>1, <1>2, <1>5 DEF Revived, Reconnected
    <2>. QED BY <1>2, <1>3, <2>1 DEF InProgress, Tracked, Run, Statuses
  <1>. QED BY <1>4, <1>5

LEMMA AllPrunedIs ==
    ASSUME NEW rs, List(rs, Run)
    PROVE  /\ List(AllPruned(rs), Run)
           /\ DOMAIN AllPruned(rs) \subseteq DOMAIN rs
           /\ \A r \in DOMAIN AllPruned(rs) : AllPruned(rs)[r] = rs[r]
           /\ \A r \in DOMAIN rs : r \in DOMAIN Pruned(rs, rs[r].auto)
                                      => r \in DOMAIN AllPruned(rs)
           /\ \A r \in DOMAIN rs : InProgress(rs[r]) => r \in DOMAIN AllPruned(rs)
  <1>1. PICK gone : gone = {r \in DOMAIN rs : r \notin DOMAIN Pruned(rs, rs[r].auto)}
    OBVIOUS
  <1>2. AllPruned(rs) = Without(rs, gone)
    BY <1>1 DEF AllPruned
  <1>3. List(AllPruned(rs), Run)
    BY <1>2, ListDrops
  <1>4. /\ DOMAIN AllPruned(rs) = DOMAIN rs \ gone
        /\ \A r \in DOMAIN rs \ gone : AllPruned(rs)[r] = rs[r]
    BY <1>2 DEF Without
  <1>5. \A r \in DOMAIN rs : InProgress(rs[r]) => r \in DOMAIN Pruned(rs, rs[r].auto)
    BY PrunedIs
  <1>. QED BY <1>1, <1>3, <1>4, <1>5

\* What a restart makes of the lists it finds, and of the terminals.
Restarted(rs, kept, found) ==
    /\ kept \in {{}, Alive} /\ found \subseteq kept
    /\ terms' = [t \in kept |-> Adopted(terms[t])]
    /\ topTerm' = Highest(kept)
    /\ reopen' = reopen \cup {terms[t].key : t \in Alive \ kept}
    /\ runs' = AllPruned([r \in DOMAIN rs |-> Revived(rs[r], found)])
    /\ launches' = <<>> /\ UNCHANGED opened

LEMMA RestartDoes ==
    ASSUME NEW as, NEW rs, RestartsWith(as, rs)
    PROVE  /\ \E kept, found : Restarted(rs, kept, found)
           /\ autos' = as /\ Comes("restart")
           /\ events' = {} /\ notices' = {} /\ clock' = [ticking |-> FALSE, due |-> {}]
  <1>1. \E kept, found : Restarted(rs, kept, found)
    <2>1. PICK kept \in {{}, Alive} : \E found \in SUBSET kept :
         /\ terms' = [t \in kept |-> Adopted(terms[t])]
         /\ topTerm' = Highest(kept)
         /\ reopen' = reopen \cup {terms[t].key : t \in Alive \ kept}
         /\ runs' = AllPruned([r \in DOMAIN rs |-> Reconnected(Tidied(rs[r]), found)])
      BY DEF RestartsWith
    <2>2. PICK found \in SUBSET kept :
         /\ terms' = [t \in kept |-> Adopted(terms[t])]
         /\ topTerm' = Highest(kept)
         /\ reopen' = reopen \cup {terms[t].key : t \in Alive \ kept}
         /\ runs' = AllPruned([r \in DOMAIN rs |-> Reconnected(Tidied(rs[r]), found)])
      BY <2>1
    <2>3. launches' = <<>> /\ UNCHANGED opened
      BY DEF RestartsWith
    <2>4. Restarted(rs, kept, found)
      BY <2>1, <2>2, <2>3 DEF Restarted, Revived
    <2>. QED BY <2>4
  <1>2. autos' = as /\ Comes("restart") /\ events' = {} /\ notices' = {}
        /\ clock' = [ticking |-> FALSE, due |-> {}]
    BY DEF RestartsWith
  <1>. QED BY <1>1, <1>2

LEMMA AdoptedIs ==
    ASSUME NEW row \in Term
    PROVE  /\ Adopted(row) \in Term /\ Adopted(row).key = row.key
           /\ Adopted(row).names = row.names
  BY DEF Adopted, Term

LEMMA RestartedTerms ==
    ASSUME Others, NEW rs, NEW kept, NEW found, Restarted(rs, kept, found)
    PROVE  /\ List(terms', Term) /\ topTerm' \in Nat /\ DOMAIN terms' \subseteq 1..topTerm'
           /\ topTerm' <= topTerm /\ reopen' \in SUBSET Nat
           /\ kept \subseteq DOMAIN terms /\ DOMAIN terms' = kept /\ found \in SUBSET Nat
           /\ \A t \in DOMAIN terms' :
                terms'[t].key = terms[t].key /\ terms'[t].names = terms[t].names
  <1>1. /\ kept \subseteq DOMAIN terms /\ found \subseteq kept
        /\ topTerm' = Highest(kept)
        /\ terms' = [t \in kept |-> Adopted(terms[t])]
        /\ reopen' = reopen \cup {terms[t].key : t \in Alive \ kept}
    BY DEF Restarted, Alive
  <1>2. /\ topTerm \in Nat /\ DOMAIN terms \subseteq 1..topTerm
        /\ IsFiniteSet(DOMAIN terms) /\ reopen \in SUBSET Nat
        /\ \A t \in DOMAIN terms : terms[t] \in Term /\ t \in Nat \ {0}
    BY DEF Others, List, Total
  <1>3. IsFiniteSet(kept) /\ kept \in SUBSET Nat
    BY <1>1, <1>2, FS_Subset
  <1>4. PICK top : top = Highest(kept)
    OBVIOUS
  <1>5. top \in Nat /\ top \in kept \cup {0} /\ \A t \in kept : t <= top
    BY <1>3, <1>4, HighestIs
  <1>6. top <= topTerm
    BY <1>1, <1>2, <1>5
  <1>7. ASSUME NEW t \in kept
        PROVE  /\ terms'[t] \in Term /\ terms'[t].key = terms[t].key
               /\ terms'[t].names = terms[t].names
    <2>1. terms'[t] = Adopted(terms[t])
      BY <1>1
    <2>2. terms[t] \in Term
      BY <1>1, <1>2
    <2>. QED BY <2>1, <2>2, AdoptedIs
  <1>8. /\ DOMAIN terms' = kept
        /\ \A t \in kept : /\ terms'[t] \in Term /\ terms'[t].key = terms[t].key
                           /\ terms'[t].names = terms[t].names
    BY <1>1, <1>7
  <1>9. List(terms', Term)
    BY <1>1, <1>2, <1>3, <1>8 DEF List, Total
  <1>10. DOMAIN terms' \subseteq 1..top
    BY <1>2, <1>3, <1>5, <1>8, <1>1
  <1>11. reopen' \in SUBSET Nat
    <2>1. \A t \in DOMAIN terms : terms[t].key \in Nat
      BY <1>2 DEF Term
    <2>2. \A t \in Alive \ kept : terms[t].key \in Nat
      BY <2>1 DEF Alive
    <2>. QED BY <1>1, <1>2, <2>2
  <1>. QED BY <1>1, <1>3, <1>4, <1>5, <1>6, <1>8, <1>9, <1>10, <1>11

LEMMA RestartedRuns ==
    ASSUME NEW rs, List(rs, Run), \A r \in DOMAIN rs : rs[r].settling => rs[r].term = 0,
           NEW kept, NEW found \in SUBSET Nat, Restarted(rs, kept, found)
    PROVE  LET mid == [r \in DOMAIN rs |-> Revived(rs[r], found)] IN
           /\ List(mid, Run) /\ runs' = AllPruned(mid)
           /\ List(runs', Run) /\ DOMAIN runs' \subseteq DOMAIN rs
           /\ \A r \in DOMAIN runs' : runs'[r] = Revived(rs[r], found)
           /\ \A r \in DOMAIN runs' : runs'[r].settling => runs'[r].term = 0
  <1>1. PICK mid : mid = [r \in DOMAIN rs |-> Revived(rs[r], found)]
    OBVIOUS
  <1>2. \A r \in DOMAIN rs : rs[r] \in Run
    BY DEF List, Total
  <1>3. \A r \in DOMAIN rs : /\ mid[r] \in Run
                             /\ mid[r].settling => mid[r].term = 0
                             /\ mid[r] = Revived(rs[r], found)
    <2>1. ASSUME NEW r \in DOMAIN rs
          PROVE  LET new == Revived(rs[r], found) IN
                 new \in Run /\ (new.settling => new.term = 0)
      BY <1>2, RevivedIs
    <2>. QED BY <1>1, <2>1
  <1>4. List(mid, Run)
    <2>1. DOMAIN mid = DOMAIN rs
      BY <1>1
    <2>2. \A r \in DOMAIN mid : r \in Nat \ {0} /\ mid[r] \in Run
      BY <1>3, <2>1 DEF List, Total
    <2>. QED BY <2>1, <2>2 DEF List, Total
  <1>5. runs' = AllPruned(mid)
    BY <1>1 DEF Restarted
  <1>6. /\ List(runs', Run) /\ DOMAIN runs' \subseteq DOMAIN mid
        /\ \A r \in DOMAIN runs' : runs'[r] = mid[r]
    BY <1>4, <1>5, AllPrunedIs
  <1>7. DOMAIN mid = DOMAIN rs
    BY <1>1
  <1>8. \A r \in DOMAIN runs' : /\ runs'[r] = Revived(rs[r], found)
                               /\ runs'[r].settling => runs'[r].term = 0
    BY <1>3, <1>6, <1>7
  <1>. QED BY <1>1, <1>4, <1>5, <1>6, <1>7, <1>8

LEMMA RestartShape ==
    ASSUME Shape, NEW as, List(as, Automation), NEW rs, List(rs, Run),
           \A r \in DOMAIN rs : rs[r].settling => rs[r].term = 0,
           RestartsWith(as, rs), List(given', Nat), DOMAIN given' = DOMAIN as
    PROVE  Shape'
  <1>1. PICK kept, found : Restarted(rs, kept, found)
    BY RestartDoes
  <1>2. /\ List(terms', Term) /\ topTerm' \in Nat /\ DOMAIN terms' \subseteq 1..topTerm'
        /\ reopen' \in SUBSET Nat /\ found \in SUBSET Nat
    BY <1>1, RestartedTerms DEF Shape
  <1>3. List(runs', Run) /\ Settled'
    <2>1. /\ List(runs', Run)
          /\ \A r \in DOMAIN runs' : runs'[r].settling => runs'[r].term = 0
      BY <1>1, <1>2, RestartedRuns
    <2>. QED BY <2>1 DEF Settled
  <1>4. /\ launches' = <<>> /\ opened' = opened /\ autos' = as
        /\ events' = {} /\ notices' = {} /\ clock' = [ticking |-> FALSE, due |-> {}]
    BY <1>1, RestartDoes DEF Restarted
  <1>5. used' \in [Inputs -> Nat]
    BY RestartDoes, ComesIs DEF Inputs, Shape, Others
  <1>6. List(launches', Launch)
    BY <1>4, FS_EmptySet DEF List, Total
  <1>7. Afresh' /\ Recording'
    BY <1>4 DEF Afresh, Recording
  <1>8. Logs'
    BY <1>3, <1>4, <1>6, <1>7 DEF Logs
  <1>9. Others'
    BY <1>2, <1>4, <1>5 DEF Shape, Others
  <1>. QED BY <1>8, <1>9 DEF Shape

\* A start of automation a that the end of the process cuts, beside the runs old.
CutWith(a, trigger, old) ==
    Calmer(runs, old) /\ SamePanes(runs, old) /\ CutBetween(a, trigger, old)

LEMMA EndsAre ==
    ASSUME Logs, Ends
    PROVE  \/ Restart
           \/ \E a \in DOMAIN autos :
                CutDelete(a) \/ \E trigger \in Triggers : \E old : CutWith(a, trigger, old)
  <1>1. Calmer(runs, runs) /\ SamePanes(runs, runs)
    BY RunsAsTheyAre DEF SamePanes
  <1>2. ASSUME NEW a \in DOMAIN autos, NEW trigger \in Triggers, CutStart(a, trigger)
        PROVE  CutWith(a, trigger, runs)
    BY <1>1, <1>2 DEF CutStart, CutWith
  <1>3. ASSUME NEW a \in DOMAIN autos, CutRunNow(a)
        PROVE  CutWith(a, "manual", PanelessClosed(a)) /\ "manual" \in Triggers
    BY <1>3, ClosingCalms DEF CutRunNow, CutWith, Triggers
  <1>. QED BY <1>2, <1>3 DEF Ends

LEMMA CalmerSettled ==
    ASSUME Shape, NEW old, Calmer(runs, old)
    PROVE  List(old, Run) /\ \A r \in DOMAIN old : old[r].settling => old[r].term = 0
  <1>1. List(runs, Run) /\ \A r \in DOMAIN runs : runs[r].settling => runs[r].term = 0
    BY DEF Shape, Logs, Settled
  <1>2. DOMAIN old = DOMAIN runs /\ \A r \in DOMAIN runs : Calms(runs[r], old[r])
    BY DEF Calmer
  <1>3. List(old, Run)
    BY <1>1, <1>2 DEF List, Total, Calms
  <1>. QED BY <1>1, <1>2, <1>3 DEF Calms

\* The list as the run of a cut start leaves it.
LEMMA CutRuns ==
    ASSUME Shape, NEW a \in DOMAIN autos, NEW trigger \in Triggers,
           NEW old, Calmer(runs, old)
    PROVE  LET new == WithRun(autos, old, a, trigger)
               n == NextNumber(autos, old, a)
           IN /\ new.number = n /\ n \in Nat /\ a \in Nat
              /\ new.id = NextId(old) /\ List(new.runs, Run)
              /\ Grows(old, new.runs, new.id, NewRow(a, n, trigger))
              /\ \A r \in DOMAIN new.runs : new.runs[r].settling => new.runs[r].term = 0
  <1>1. /\ List(autos, Automation) /\ List(old, Run)
        /\ \A r \in DOMAIN old : old[r].settling => old[r].term = 0
    BY CalmerSettled DEF Shape, Logs
  <1>2. PICK new : new = WithRun(autos, old, a, trigger)
    OBVIOUS
  <1>3. PICK n : n = NextNumber(autos, old, a)
    OBVIOUS
  <1>4. PICK row : row = NewRow(a, n, trigger)
    OBVIOUS
  <1>5. /\ new.number = n /\ new.id = NextId(old) /\ List(new.runs, Run)
        /\ Grows(old, new.runs, new.id, row)
    BY <1>1, <1>2, <1>3, <1>4, RunIsAdded
  <1>6. n \in Nat /\ a \in Nat
    BY <1>1, <1>3, NextNumberIsAbove DEF List, Total
  <1>7. ~row.settling
    BY <1>4 DEF NewRow
  <1>8. \A r \in DOMAIN new.runs : new.runs[r].settling => new.runs[r].term = 0
    BY <1>1, <1>5, <1>7 DEF Grows
  <1>. QED BY <1>2, <1>3, <1>4, <1>5, <1>6, <1>8

LEMMA EndsShape ==
    ASSUME Shape, Ends
    PROVE  Shape'
  <1>1. List(autos, Automation) /\ List(runs, Run) /\ List(given, Nat)
        /\ DOMAIN given = DOMAIN autos
        /\ \A r \in DOMAIN runs : runs[r].settling => runs[r].term = 0
    BY DEF Shape, Logs, Settled
  <1>2. ASSUME Restart PROVE Shape'
    BY <1>1, <1>2, RestartShape DEF Restart
  <1>3. ASSUME NEW a \in DOMAIN autos, CutDelete(a) PROVE Shape'
    <2>1. List(Deleted(a), Automation) /\ DOMAIN Deleted(a) = DOMAIN autos \ {a}
      <3>1. DOMAIN Without(autos, {a}) = DOMAIN autos \ {a}
        BY DEF Without
      <3>. QED BY <1>1, <3>1, ListDrops DEF Deleted
    <2>2. given' = Without(given, {a}) /\ RestartsWith(Deleted(a), runs)
      BY <1>3 DEF CutDelete
    <2>3. List(given', Nat)
      BY <1>1, <2>2, ListDrops
    <2>4. DOMAIN given' = DOMAIN Deleted(a)
      BY <1>1, <2>1, <2>2 DEF Without
    <2>. QED BY <1>1, <2>1, <2>2, <2>3, <2>4, RestartShape
  <1>4. ASSUME NEW a \in DOMAIN autos, NEW trigger \in Triggers, NEW old,
               CutWith(a, trigger, old)
        PROVE  Shape'
    <2>1. PICK new : new = WithRun(autos, old, a, trigger)
      OBVIOUS
    <2>2. /\ new.number \in Nat /\ List(new.runs, Run)
          /\ \A r \in DOMAIN new.runs : new.runs[r].settling => new.runs[r].term = 0
      BY <1>4, <2>1, CutRuns DEF CutWith
    <2>3. /\ RestartsWith(autos, new.runs)
          /\ given' = [given EXCEPT ![a] =
               IF new.id \in DOMAIN runs' THEN new.number ELSE @]
      BY <1>4, <2>1 DEF CutWith, CutBetween
    <2>4. List(given', Nat) /\ DOMAIN given' = DOMAIN given
      BY <1>1, <2>2, <2>3 DEF List, Total
    <2>. QED BY <1>1, <2>2, <2>3, <2>4, RestartShape
  <1>5. Logs
    BY DEF Shape
  <1>. QED BY <1>2, <1>3, <1>4, <1>5, EndsAre

LEMMA StayShape ==
    ASSUME Shape, UNCHANGED vars
    PROVE  Shape'
  BY DEF Shape, Logs, Others, Settled, Afresh, Recording,
         vars, saved, threads, screen, memory

LEMMA CommandsShape ==
    ASSUME Shape, Commands
    PROVE  Shape'
  BY CreateShape, SaveShape, SetEnabledShape, DeleteShape, RunNowShape, CancelShape
  DEF Commands

LEMMA LaunchingShape ==
    ASSUME Shape, Launching
    PROVE  Shape'
  BY CheckFailsShape, CheckPassesShape, PlaceFailsShape, PlaceShape, RecordShape
  DEF Launching

LEMMA ClockShape ==
    ASSUME Shape, Clock
    PROVE  Shape'
  BY TickShape, BeatShape, ClockStartsShape DEF Clock

LEMMA PaneStepsShape ==
    ASSUME Shape, PaneSteps
    PROVE  Shape'
  BY UserOpensShape, WindowStartsShape, ReopensShape, ClaimShape, ExitsShape,
     PaneEndedShape, ReportsShape
  DEF PaneSteps

LEMMA NextShape ==
    ASSUME Shape, [Next]_vars
    PROVE  Shape'
  <1>1. ASSUME Time PROVE Shape'
    BY <1>1, TimePassesShape DEF Time
  <1>2. ASSUME Happenings PROVE Shape'
    BY <1>2, EventShape, EventStartsShape DEF Happenings
  <1>. QED BY <1>1, <1>2, StayShape, CommandsShape, LaunchingShape, ClockShape,
              PaneStepsShape, EndsShape DEF Next

LEMMA ShapeHolds == ASpec => []Shape
  <1>1. AInit => Shape
    BY InitShape
  <1>2. Shape /\ [Next]_vars => Shape'
    BY NextShape
  <1>. QED BY <1>1, <1>2, PTL DEF ASpec

\* The two lists, the launches and the panes have their types throughout, and
\* a run that settles after a restart follows no pane, whatever starts, reports,
\* deletions, crashes and restarts come in between.
THEOREM AutomationsAreTyped == ASpec => []ATypeOK
  BY ShapeHolds, ShapeIsTyped, PTL
-----------------------------------------------------------------------------
(* One Run now at a time.                                                  *)

\* A launch has its run to itself, and the run waits for it or was cancelled;
\* unless the run, or another one with its id, is deleted.
OwnLaunch(t) ==
    launches[t].run \notin reborn =>
        /\ launches[t].run < NextId(runs)
        /\ \A u \in DOMAIN launches \ {t} : launches[u].run # launches[t].run
        /\ launches[t].run \in DOMAIN runs =>
             \/ runs[launches[t].run].status = "pending"
             \/ runs[launches[t].run].cancelled

Jobs == \A t \in DOMAIN launches : OwnLaunch(t)

\* Run r is under way for a Run now, and the user has not cancelled it.
ManualJob(rs, r) ==
    /\ r \in DOMAIN rs /\ rs[r].trigger = "manual"
    /\ InProgress(rs[r]) /\ ~rs[r].cancelled

OneJob == \A r, q \in DOMAIN runs \ reborn :
    ManualJob(runs, r) /\ ManualJob(runs, q) /\ runs[r].auto = runs[q].auto => r = q

LEMMA OneJobMeans == ASSUME Shape PROVE OneJob <=> OneManualRun
  <1>1. \A r \in DOMAIN runs : runs[r].cancelled \in BOOLEAN
    BY DEF Shape, Logs, List, Total, Run
  <1>. QED BY <1>1 DEF OneJob, ManualJob, OneManualRun

\* No job is new, and none is taken out of reborn.
LEMMA OneJobStays ==
    ASSUME OneJob, reborn \subseteq reborn',
           \A r \in DOMAIN runs' \ reborn' : ManualJob(runs', r) =>
              ManualJob(runs, r) /\ runs'[r].auto = runs[r].auto
    PROVE  OneJob'
  <1>1. \A r \in DOMAIN runs' \ reborn' : ManualJob(runs', r) => r \in DOMAIN runs \ reborn
    BY DEF ManualJob
  <1>2. \A r, q \in DOMAIN runs' \ reborn' :
           ManualJob(runs', r) /\ ManualJob(runs', q) /\ runs'[r].auto = runs'[q].auto
              => r = q
    BY <1>1 DEF OneJob
  <1>. QED BY <1>2 DEF OneJob

\* What run r of a launch may become without its launch.
Waits(rs, new, r) ==
    /\ r < NextId(new)
    /\ r \in DOMAIN new =>
         /\ r \in DOMAIN rs
         /\ rs[r].status = "pending" => new[r].status = "pending" \/ new[r].cancelled
         /\ rs[r].cancelled => new[r].cancelled

LEMMA JobsStay ==
    ASSUME Jobs, reborn \subseteq reborn', DOMAIN launches' \subseteq DOMAIN launches,
           \A t \in DOMAIN launches' : launches'[t].run = launches[t].run,
           \A t \in DOMAIN launches' :
              launches[t].run \notin reborn' /\ launches[t].run < NextId(runs)
                 => Waits(runs, runs', launches[t].run)
    PROVE  Jobs'
  <1>. SUFFICES ASSUME NEW t \in DOMAIN launches', launches'[t].run \notin reborn'
                PROVE  /\ launches'[t].run < NextId(runs')
                       /\ \A u \in DOMAIN launches' \ {t} :
                             launches'[u].run # launches'[t].run
                       /\ launches'[t].run \in DOMAIN runs' =>
                             \/ runs'[launches'[t].run].status = "pending"
                             \/ runs'[launches'[t].run].cancelled
    BY DEF Jobs, OwnLaunch
  <1>1. PICK r : r = launches[t].run
    OBVIOUS
  <1>2. /\ t \in DOMAIN launches /\ launches'[t].run = r /\ r \notin reborn
        /\ r \notin reborn'
    BY <1>1
  <1>3. /\ r < NextId(runs)
        /\ \A u \in DOMAIN launches \ {t} : launches[u].run # r
        /\ r \in DOMAIN runs => runs[r].status = "pending" \/ runs[r].cancelled
    BY <1>1, <1>2 DEF Jobs, OwnLaunch
  <1>4. Waits(runs, runs', r)
    BY <1>1, <1>2, <1>3
  <1>. QED BY <1>2, <1>3, <1>4 DEF Waits

\* Both facts.
Manual == Jobs /\ OneJob

\* Runs go on calmly, with their launches.
LEMMA CalmerManual ==
    ASSUME Manual, Logs, Calmer(runs, runs'), UNCHANGED reborn,
           DOMAIN launches' = DOMAIN launches,
           \A t \in DOMAIN launches : launches'[t].run = launches[t].run
    PROVE  Manual'
  <1>1. NextId(runs') = NextId(runs) /\ DOMAIN runs' = DOMAIN runs
    BY DEF Calmer, NextId
  <1>2. \A r \in DOMAIN runs : Calms(runs[r], runs'[r]) /\ runs[r] \in Run /\ runs'[r] \in Run
    BY DEF Calmer, Calms, Logs, List, Total
  <1>3. ASSUME NEW r, r < NextId(runs) PROVE Waits(runs, runs', r)
    BY <1>1, <1>2, <1>3 DEF Waits, Calms
  <1>4. Jobs'
    BY <1>3, JobsStay DEF Manual
  <1>5. \A r \in DOMAIN runs' : ManualJob(runs', r) =>
            ManualJob(runs, r) /\ runs'[r].auto = runs[r].auto
    BY <1>1, <1>2 DEF ManualJob, Calms, Run
  <1>6. OneJob'
    BY <1>5, OneJobStays DEF Manual
  <1>. QED BY <1>4, <1>6 DEF Manual

LEMMA SameManual ==
    ASSUME Manual, Logs, UNCHANGED <<runs, reborn>>, DOMAIN launches' = DOMAIN launches,
           \A t \in DOMAIN launches : launches'[t].run = launches[t].run
    PROVE  Manual'
  <1>1. Calmer(runs, runs')
    BY RunsAsTheyAre
  <1>. QED BY <1>1, CalmerManual

\* The list has grown by one run; what has a launch of its own is older.
LEMMA GrownWaits ==
    ASSUME NEW rs, Logs, Calmer(runs, rs), List(runs', Run), List(rs, Run),
           NEW row, Grows(rs, runs', NextId(rs), row),
           NEW r \in Nat, r < NextId(runs)
    PROVE  /\ Waits(runs, runs', r) /\ r # NextId(rs)
           /\ NextId(rs) < NextId(runs')
  <1>1. NextId(rs) = NextId(runs) /\ DOMAIN rs = DOMAIN runs
    BY DEF Calmer, NextId
  <1>2. PICK id : id = NextId(rs)
    OBVIOUS
  <1>3. id \in Nat \ {0} /\ id \in DOMAIN runs'
    BY <1>2, NextIdIsNew DEF Grows
  <1>4. NextId(runs') \in Nat /\ id < NextId(runs')
    BY <1>3, NextIdIsNew
  <1>5. r # id /\ r < NextId(runs')
    <2>1. PICK next : next = NextId(runs')
      OBVIOUS
    <2>2. r < id /\ id < next /\ id \in Nat /\ next \in Nat
      BY <1>1, <1>2, <1>3, <1>4, <2>1
    <2>3. r # id /\ r < next
      BY <2>2
    <2>. QED BY <2>1, <2>3
  <1>6. r \in DOMAIN runs' => r \in DOMAIN runs /\ runs'[r] = rs[r] /\ Calms(runs[r], rs[r])
    BY <1>1, <1>2, <1>5 DEF Grows, Calmer
  <1>7. Waits(runs, runs', r)
    BY <1>5, <1>6 DEF Waits, Calms
  <1>. QED BY <1>2, <1>4, <1>5, <1>7

\* The jobs beside the new row are old ones.
LEMMA GrownJobs ==
    ASSUME NEW rs, Logs, Calmer(runs, rs), List(rs, Run), NEW row,
           Grows(rs, runs', NextId(rs), row),
           NEW r \in DOMAIN runs', ManualJob(runs', r), r # NextId(rs)
    PROVE  ManualJob(runs, r) /\ runs'[r].auto = runs[r].auto
  <1>1. r \in DOMAIN runs /\ runs'[r] = rs[r] /\ Calms(runs[r], rs[r])
    BY DEF Grows, Calmer
  <1>2. runs[r] \in Run /\ rs[r] \in Run
    BY <1>1 DEF Logs, List, Total, Calms
  <1>. QED BY <1>1, <1>2 DEF ManualJob, Calms, Run

\* A launch is added with the run it logged.
LEMMA BeginsJobs ==
    ASSUME Jobs, Logs, Logs', NEW a \in DOMAIN autos, NEW trigger \in Triggers,
           NEW rs, Calmer(runs, rs), Begins(a, trigger, rs)
    PROVE  Jobs'
  <1>1. List(autos, Automation) /\ List(rs, Run) /\ List(runs', Run) /\ List(launches, Launch)
    BY DEF Logs, List, Total, Calmer, Calms
  <1>2. PICK new : new = WithRun(autos, rs, a, trigger)
    OBVIOUS
  <1>3. PICK n : n = NextNumber(autos, rs, a)
    OBVIOUS
  <1>4. PICK id : id = NextId(rs)
    OBVIOUS
  <1>5. PICK row : row = NewRow(a, n, trigger)
    OBVIOUS
  <1>6. new.id = id /\ Grows(rs, new.runs, new.id, row)
    BY <1>1, <1>2, <1>3, <1>4, <1>5, RunIsAdded
  <1>7. /\ runs' = new.runs /\ UNCHANGED reborn
        /\ launches' = With(launches, Thread, NewLaunch(new.id, a, trigger))
    BY <1>2 DEF Begins, Noted
  <1>8. Grows(rs, runs', NextId(rs), row)
    BY <1>4, <1>6, <1>7
  <1>9. Thread \notin DOMAIN launches
    BY <1>1, ListIds DEF Thread
  <1>10. NewLaunch(new.id, a, trigger).run = id
    BY <1>6 DEF NewLaunch
  <1>11. /\ DOMAIN launches' = DOMAIN launches \cup {Thread}
         /\ launches'[Thread].run = id
         /\ \A t \in DOMAIN launches : launches'[t] = launches[t]
    <2>1. PICK launch : launch = NewLaunch(new.id, a, trigger)
      OBVIOUS
    <2>2. launches' = With(launches, Thread, launch)
      BY <1>7, <2>1
    <2>. QED BY <1>9, <1>10, <2>1, <2>2 DEF With
  <1>12. \A t \in DOMAIN launches : launches[t].run \in Nat
    BY <1>1 DEF List, Total, Launch
  <1>13. ASSUME NEW t \in DOMAIN launches, launches[t].run \notin reborn
         PROVE  Waits(runs, runs', launches[t].run) /\ launches[t].run # id
    <2>1. launches[t].run < NextId(runs) /\ launches[t].run \in Nat
      BY <1>12, <1>13 DEF Jobs, OwnLaunch
    <2>. QED BY <1>1, <1>4, <1>8, <2>1, GrownWaits
  <1>14. id \in DOMAIN runs' /\ runs'[id].status = "pending"
    BY <1>4, <1>5, <1>8 DEF Grows, NewRow
  <1>15. id < NextId(runs')
    BY <1>1, <1>14, NextIdIsNew
  <1>16. ASSUME NEW t \in DOMAIN launches' PROVE OwnLaunch(t)'
    <2>1. CASE t = Thread
      <3>1. \A u \in DOMAIN launches' \ {t} : id \notin reborn => launches'[u].run # id
        BY <1>11, <1>13, <2>1
      <3>2. launches'[t].run = id
        BY <1>11, <2>1
      <3>. QED BY <1>7, <1>14, <1>15, <3>1, <3>2 DEF OwnLaunch
    <2>2. CASE t \in DOMAIN launches
      <3>1. PICK r : r = launches[t].run
        OBVIOUS
      <3>2. launches'[t].run = r
        BY <1>11, <2>2, <3>1
      <3>3. ASSUME r \notin reborn
            PROVE  /\ Waits(runs, runs', r) /\ r # id
                   /\ \A u \in DOMAIN launches \ {t} : launches[u].run # r
                   /\ r \in DOMAIN runs => runs[r].status = "pending" \/ runs[r].cancelled
        BY <1>13, <2>2, <3>1, <3>3 DEF Jobs, OwnLaunch
      <3>4. r \notin reborn => \A u \in DOMAIN launches' \ {t} : launches'[u].run # r
        BY <1>11, <3>3
      <3>. QED BY <1>7, <3>2, <3>3, <3>4 DEF OwnLaunch, Waits
    <2>. QED BY <1>11, <2>1, <2>2
  <1>. QED BY <1>16 DEF Jobs

\* A run that the clock or an event starts is no Run now.
LEMMA StartManual ==
    ASSUME Manual, Logs, Logs', NEW a \in DOMAIN autos,
           NEW trigger \in {"schedule", "event"}, Begins(a, trigger, runs)
    PROVE  Manual'
  <1>1. List(autos, Automation) /\ List(runs, Run) /\ Calmer(runs, runs)
        /\ trigger \in Triggers
    BY RunsAsTheyAre DEF Logs, Triggers
  <1>2. PICK row : row = NewRow(a, NextNumber(autos, runs, a), trigger)
    OBVIOUS
  <1>3. Grows(runs, runs', NextId(runs), row) /\ UNCHANGED reborn
    <2>1. PICK new : new = WithRun(autos, runs, a, trigger)
      OBVIOUS
    <2>2. new.id = NextId(runs) /\ Grows(runs, new.runs, new.id, row)
      BY <1>1, <1>2, <2>1, RunIsAdded
    <2>. QED BY <2>1, <2>2 DEF Begins, Noted
  <1>4. \A r \in DOMAIN runs' : ManualJob(runs', r) =>
            ManualJob(runs, r) /\ runs'[r].auto = runs[r].auto
    <2>. SUFFICES ASSUME NEW r \in DOMAIN runs', ManualJob(runs', r)
                  PROVE  ManualJob(runs, r) /\ runs'[r].auto = runs[r].auto
      OBVIOUS
    <2>1. r # NextId(runs)
      BY <1>2, <1>3 DEF Grows, NewRow, ManualJob
    <2>. QED BY <1>1, <1>3, <2>1, GrownJobs
  <1>5. OneJob'
    BY <1>3, <1>4, OneJobStays DEF Manual
  <1>6. Jobs'
    BY <1>1, BeginsJobs DEF Manual
  <1>. QED BY <1>5, <1>6 DEF Manual

\* Run now starts when nothing of its automation goes on any more.
LEMMA RunNowManual ==
    ASSUME Manual, Logs, Logs', NEW a \in DOMAIN autos, RunNow(a)
    PROVE  Manual'
  <1>1. PICK rs : rs = PanelessClosed(a)
    OBVIOUS
  <1>2. Calmer(runs, rs) /\ Begins(a, "manual", rs) /\ "manual" \in Triggers
    BY <1>1, ClosingCalms DEF RunNow, Triggers
  <1>3. List(autos, Automation) /\ List(rs, Run) /\ List(runs, Run)
    BY <1>2 DEF Logs, List, Total, Calmer, Calms
  <1>4. Jobs'
    BY <1>2, BeginsJobs DEF Manual
  <1>5. PICK row : row = NewRow(a, NextNumber(autos, rs, a), "manual")
    OBVIOUS
  <1>6. Grows(rs, runs', NextId(rs), row) /\ UNCHANGED reborn
    <2>1. PICK new : new = WithRun(autos, rs, a, "manual")
      OBVIOUS
    <2>2. new.id = NextId(rs) /\ Grows(rs, new.runs, new.id, row)
      BY <1>2, <1>3, <1>5, <2>1, RunIsAdded
    <2>. QED BY <1>2, <2>1, <2>2 DEF Begins, Noted
  <1>7. PICK id : id = NextId(rs)
    OBVIOUS
  <1>8. \A r \in DOMAIN runs' \ {id} : r \in DOMAIN rs /\ runs'[r] = rs[r]
    BY <1>6, <1>7 DEF Grows
  <1>9. id \in DOMAIN runs' => runs'[id].auto = a
    BY <1>5, <1>6, <1>7 DEF Grows, NewRow
  <1>10. \A r \in DOMAIN rs : InProgress(rs[r]) => rs[r].auto # a
    <2>. SUFFICES ASSUME NEW r \in DOMAIN rs, InProgress(rs[r]), rs[r].auto = a PROVE FALSE
      OBVIOUS
    <2>1. r \in DOMAIN runs /\ runs[r] \in Run /\ runs[r].auto = a /\ InProgress(runs[r])
      BY <1>2, <1>3 DEF Calmer, Calms, List, Total
    <2>2. ~HoldsManualRun(runs[r])
      BY <2>1 DEF RunNow, FreeForRunNow, RunsOf
    <2>3. Tracked(runs[r]) /\ runs[r].term = 0
      BY <2>1, <2>2 DEF HoldsManualRun, InProgress, Tracked
    <2>4. rs[r] = Finished(runs[r], "failed")
      BY <1>1, <2>1, <2>3 DEF PanelessClosed
    <2>5. ~InProgress(rs[r])
      BY <2>1, <2>4 DEF Finished, InProgress, Run
    <2>. QED BY <2>5
  <1>11. OneJob'
    <2>. SUFFICES ASSUME NEW r \in DOMAIN runs' \ reborn', NEW q \in DOMAIN runs' \ reborn',
                         ManualJob(runs', r), ManualJob(runs', q),
                         runs'[r].auto = runs'[q].auto, r # q
                  PROVE  FALSE
      BY DEF OneJob
    <2>1. CASE r = id
      <3>1. q \in DOMAIN rs /\ rs[q].auto = a /\ InProgress(rs[q])
        BY <1>8, <1>9, <2>1 DEF ManualJob
      <3>. QED BY <1>10, <3>1
    <2>2. CASE q = id
      <3>1. r \in DOMAIN rs /\ rs[r].auto = a /\ InProgress(rs[r])
        BY <1>8, <1>9, <2>2 DEF ManualJob
      <3>. QED BY <1>10, <3>1
    <2>3. CASE r # id /\ q # id
      <3>1. ManualJob(runs, r) /\ runs'[r].auto = runs[r].auto
        BY <1>2, <1>3, <1>6, <1>7, <2>3, GrownJobs
      <3>2. ManualJob(runs, q) /\ runs'[q].auto = runs[q].auto
        BY <1>2, <1>3, <1>6, <1>7, <2>3, GrownJobs
      <3>3. r \in DOMAIN runs \ reborn /\ q \in DOMAIN runs \ reborn
        BY <1>6, <3>1, <3>2 DEF ManualJob
      <3>. QED BY <3>1, <3>2, <3>3 DEF Manual, OneJob
    <2>. QED BY <2>1, <2>2, <2>3
  <1>. QED BY <1>4, <1>11 DEF Manual

LEMMA SkipsManual ==
    ASSUME Manual, Logs, Logs', NEW a \in DOMAIN autos, NEW trigger \in Triggers,
           NEW cause \in {"missed", "unavailable"}, Skips(a, trigger, cause)
    PROVE  Manual'
  <1>1. List(autos, Automation) /\ List(runs, Run) /\ Calmer(runs, runs) /\ List(runs', Run)
    BY RunsAsTheyAre DEF Logs
  <1>2. UNCHANGED <<launches, reborn>>
    BY DEF Skips, Noted
  <1>3. PICK row : row = Skipped(NewRow(a, NextNumber(autos, runs, a), trigger), cause)
    OBVIOUS
  <1>4. \/ runs' = runs
        \/ Grows(runs, runs', NextId(runs), row)
    <2>1. PICK new : new = WithSkip(autos, runs, a, trigger, cause)
      OBVIOUS
    <2>2. new.runs = runs \/ Grows(runs, new.runs, NextId(runs), row)
      BY <1>1, <1>3, <2>1, SkipIsAdded
    <2>. QED BY <2>1, <2>2 DEF Skips
  <1>5. CASE runs' = runs
    BY <1>2, <1>5, SameManual
  <1>6. CASE Grows(runs, runs', NextId(runs), row)
    <2>1. ~InProgress(row)
      BY <1>3 DEF NewRow, Skipped, InProgress
    <2>2. \A r \in DOMAIN runs' : ManualJob(runs', r) =>
              ManualJob(runs, r) /\ runs'[r].auto = runs[r].auto
      <3>. SUFFICES ASSUME NEW r \in DOMAIN runs', ManualJob(runs', r)
                    PROVE  ManualJob(runs, r) /\ runs'[r].auto = runs[r].auto
        OBVIOUS
      <3>1. r # NextId(runs)
        BY <1>6, <2>1 DEF Grows, ManualJob
      <3>. QED BY <1>1, <1>6, <3>1, GrownJobs
    <2>3. OneJob'
      BY <1>2, <2>2, OneJobStays DEF Manual
    <2>4. \A t \in DOMAIN launches : launches[t].run \in Nat
      BY DEF Logs, List, Total, Launch
    <2>5. \A t \in DOMAIN launches : launches[t].run < NextId(runs)
              => Waits(runs, runs', launches[t].run)
      BY <1>1, <1>6, <2>4, GrownWaits
    <2>6. Jobs'
      BY <1>2, <2>5, JobsStay DEF Manual
    <2>. QED BY <2>3, <2>6 DEF Manual
  <1>. QED BY <1>4, <1>5, <1>6

\* A launch that writes its run writes no other launch's, and makes no job of
\* one that was none.
LEMMA WroteManual ==
    ASSUME Manual, Logs, NEW t \in DOMAIN launches, NEW row, Wrote(t, row),
           Writable(t) => LET old == runs[launches[t].run] IN
              InProgress(row) =>
                 /\ row.auto = old.auto /\ row.trigger = old.trigger
                 /\ row.cancelled = old.cancelled
    PROVE  Manual'
  <1>1. PICK r : r = launches[t].run
    OBVIOUS
  <1>2. /\ DOMAIN runs' = DOMAIN runs /\ UNCHANGED reborn
        /\ \A q \in DOMAIN runs \ {r} : runs'[q] = runs[q]
        /\ r \in DOMAIN runs => \/ runs'[r] = runs[r]
                                \/ Writable(t) /\ runs'[r] = row
    BY <1>1 DEF Wrote
  <1>3. /\ DOMAIN launches' = DOMAIN launches \ {t}
        /\ \A u \in DOMAIN launches \ {t} : launches'[u] = launches[u]
    BY DEF Wrote, Without
  <1>4. NextId(runs') = NextId(runs)
    BY <1>2 DEF NextId
  <1>5. ASSUME NEW u \in DOMAIN launches', launches[u].run \notin reborn',
               launches[u].run < NextId(runs)
        PROVE  Waits(runs, runs', launches[u].run)
    <2>1. launches[u].run # r
      BY <1>1, <1>2, <1>3, <1>5 DEF Manual, Jobs, OwnLaunch
    <2>. QED BY <1>2, <1>4, <1>5, <2>1 DEF Waits
  <1>6. Jobs'
    BY <1>2, <1>3, <1>5, JobsStay DEF Manual
  <1>7. ASSUME NEW q \in DOMAIN runs' \ reborn', ManualJob(runs', q)
        PROVE  ManualJob(runs, q) /\ runs'[q].auto = runs[q].auto
    <2>1. CASE runs'[q] = runs[q]
      BY <1>2, <1>7, <2>1 DEF ManualJob
    <2>2. CASE q = r /\ Writable(t) /\ runs'[r] = row
      <3>1. /\ row.auto = runs[r].auto /\ row.trigger = runs[r].trigger
            /\ row.cancelled = runs[r].cancelled /\ InProgress(row)
        BY <1>1, <1>7, <2>2 DEF ManualJob
      <3>2. ~row.cancelled /\ row.trigger = "manual"
        BY <1>7, <2>2 DEF ManualJob
      <3>3. runs[r].status = "pending"
        BY <1>1, <1>2, <1>7, <2>2, <3>1, <3>2 DEF Manual, Jobs, OwnLaunch
      <3>. QED BY <1>2, <2>2, <3>1, <3>2, <3>3 DEF ManualJob, InProgress
    <2>. QED BY <1>2, <1>7, <2>1, <2>2
  <1>8. OneJob'
    BY <1>2, <1>7, OneJobStays DEF Manual
  <1>. QED BY <1>6, <1>8 DEF Manual

\* A deletion sets free the ids of its runs, and of those launches still write to.
LEMMA DeleteManual ==
    ASSUME Manual, Logs, Logs', NEW a \in DOMAIN autos, Delete(a)
    PROVE  Manual'
  <1>1. /\ runs' = Without(runs, RunsOf(runs, a)) /\ launches' = launches
        /\ reborn' = reborn \cup RunsOf(runs, a) \cup (Launched \ DOMAIN runs)
    BY DEF Delete, threads
  <1>2. DOMAIN runs' = DOMAIN runs \ RunsOf(runs, a)
        /\ \A r \in DOMAIN runs' : runs'[r] = runs[r]
    BY <1>1 DEF Without
  <1>3. List(runs', Run)
    BY DEF Logs
  <1>4. ASSUME NEW t \in DOMAIN launches, launches[t].run \notin reborn'
        PROVE  Waits(runs, runs', launches[t].run)
    <2>1. PICK r : r = launches[t].run
      OBVIOUS
    <2>2. r \in Launched
      BY <2>1 DEF Launched
    <2>3. r \in DOMAIN runs' /\ r \in DOMAIN runs
      BY <1>1, <1>2, <1>4, <2>1, <2>2
    <2>4. r < NextId(runs')
      BY <1>3, <2>3, NextIdIsNew
    <2>. QED BY <1>2, <2>1, <2>3, <2>4 DEF Waits
  <1>5. Jobs'
    BY <1>1, <1>4, JobsStay DEF Manual
  <1>6. \A r \in DOMAIN runs' : ManualJob(runs', r) =>
            ManualJob(runs, r) /\ runs'[r].auto = runs[r].auto
    BY <1>2 DEF ManualJob
  <1>7. OneJob'
    BY <1>1, <1>6, OneJobStays DEF Manual
  <1>. QED BY <1>5, <1>7 DEF Manual

\* A restart ends the launches, and brings no run back to life.
LEMMA RestartManual ==
    ASSUME Manual, Shape, NEW as, NEW rs, List(rs, Run), RestartsWith(as, rs),
           UNCHANGED reborn,
           \A r \in DOMAIN rs : rs[r].settling => rs[r].term = 0,
           \A r \in DOMAIN rs : ManualJob(rs, r) /\ Tracked(rs[r]) =>
              ManualJob(runs, r) /\ rs[r].auto = runs[r].auto
    PROVE  Manual'
  <1>1. PICK kept, found : Restarted(rs, kept, found)
    BY RestartDoes
  <1>2. found \in SUBSET Nat
    BY <1>1, RestartedTerms DEF Shape
  <1>3. DOMAIN runs' \subseteq DOMAIN rs /\ \A r \in DOMAIN runs' : runs'[r] = Revived(rs[r], found)
    BY <1>1, <1>2, RestartedRuns
  <1>4. launches' = <<>>
    BY <1>1 DEF Restarted
  <1>5. Jobs'
    BY <1>4 DEF Jobs
  <1>6. ASSUME NEW r \in DOMAIN runs', ManualJob(runs', r)
        PROVE  ManualJob(runs, r) /\ runs'[r].auto = runs[r].auto
    <2>1. r \in DOMAIN rs /\ rs[r] \in Run /\ (rs[r].settling => rs[r].term = 0)
      BY <1>3 DEF List, Total
    <2>2. PICK new : new = Revived(rs[r], found)
      OBVIOUS
    <2>3. /\ new.auto = rs[r].auto /\ new.trigger = rs[r].trigger
          /\ new.cancelled = rs[r].cancelled /\ (InProgress(new) => Tracked(rs[r]))
      BY <1>2, <2>1, <2>2, RevivedIs
    <2>4. runs'[r] = new
      BY <1>3, <2>2
    <2>5. ManualJob(rs, r) /\ Tracked(rs[r])
      BY <1>6, <2>1, <2>3, <2>4 DEF ManualJob, Tracked, InProgress
    <2>. QED BY <2>1, <2>3, <2>4, <2>5
  <1>7. OneJob'
    BY <1>6, OneJobStays DEF Manual
  <1>. QED BY <1>5, <1>7 DEF Manual

LEMMA EndsManual ==
    ASSUME Manual, Shape, Ends
    PROVE  Manual'
  <1>1. List(runs, Run) /\ \A r \in DOMAIN runs : runs[r].settling => runs[r].term = 0
    BY DEF Shape, Logs, Settled
  <1>2. \A r \in DOMAIN runs : ManualJob(runs, r) =>
            ManualJob(runs, r) /\ runs[r].auto = runs[r].auto
    OBVIOUS
  <1>3. ASSUME Restart PROVE Manual'
    <2>1. RestartsWith(autos, runs) /\ UNCHANGED reborn
      BY <1>3 DEF Restart
    <2>. QED BY <1>1, <2>1, RestartManual
  <1>4. ASSUME NEW a \in DOMAIN autos, CutDelete(a) PROVE Manual'
    <2>1. RestartsWith(Deleted(a), runs) /\ UNCHANGED reborn
      BY <1>4 DEF CutDelete
    <2>. QED BY <1>1, <2>1, RestartManual
  <1>5. ASSUME NEW a \in DOMAIN autos, NEW trigger \in Triggers, NEW old,
               CutWith(a, trigger, old)
        PROVE  Manual'
    <2>1. PICK new : new = WithRun(autos, old, a, trigger)
      OBVIOUS
    <2>2. PICK row : row = NewRow(a, NextNumber(autos, old, a), trigger)
      OBVIOUS
    <2>3. /\ List(new.runs, Run) /\ Grows(old, new.runs, new.id, row)
          /\ \A r \in DOMAIN new.runs : new.runs[r].settling => new.runs[r].term = 0
      BY <1>5, <2>1, <2>2, CutRuns DEF CutWith
    <2>4. RestartsWith(autos, new.runs) /\ UNCHANGED reborn /\ Calmer(runs, old)
      BY <1>5, <2>1 DEF CutWith, CutBetween
    <2>5. PICK more : more = new.runs
      OBVIOUS
    <2>6. ASSUME NEW r \in DOMAIN more, ManualJob(more, r), Tracked(more[r])
          PROVE  ManualJob(runs, r) /\ more[r].auto = runs[r].auto
      <3>1. r # new.id
        BY <2>2, <2>3, <2>5, <2>6 DEF Grows, NewRow, Tracked
      <3>2. r \in DOMAIN runs /\ more[r] = old[r] /\ Calms(runs[r], old[r])
        BY <2>3, <2>4, <2>5, <3>1 DEF Grows, Calmer
      <3>3. runs[r] \in Run /\ old[r] \in Run
        BY <1>1, <3>2 DEF List, Total, Calms
      <3>. QED BY <2>6, <3>2, <3>3 DEF ManualJob, Calms, Run
    <2>. QED BY <2>3, <2>4, <2>5, <2>6, RestartManual
  <1>6. Logs
    BY DEF Shape
  <1>. QED BY <1>3, <1>4, <1>5, <1>6, EndsAre

\* A launch that moves on stays the launch of its run.
LEMMA MovesLaunched ==
    ASSUME NEW t \in DOMAIN launches, launches[t] \in Launch,
           CheckPasses(t) \/ PlaceFails(t) \/ Place(t)
    PROVE  /\ UNCHANGED <<saved, memory>> /\ DOMAIN launches' = DOMAIN launches
           /\ \A u \in DOMAIN launches : launches'[u].run = launches[u].run
           /\ Launched' \subseteq Launched
  <1>1. /\ UNCHANGED <<saved, memory>>
        /\ \/ launches' = [launches EXCEPT ![t].stage = "place"]
           \/ \E outcome, term, key : launches' = Placed(t, outcome, term, key)
    BY DEF CheckPasses, PlaceFails, Place
  <1>2. /\ DOMAIN launches' = DOMAIN launches
        /\ \A u \in DOMAIN launches \ {t} : launches'[u] = launches[u]
        /\ launches'[t].run = launches[t].run
    <2>1. CASE launches' = [launches EXCEPT ![t].stage = "place"]
      <3>1. [launches[t] EXCEPT !.stage = "place"].run = launches[t].run
        BY DEF Launch
      <3>. QED BY <2>1, <3>1
    <2>2. CASE \E outcome, term, key : launches' = Placed(t, outcome, term, key)
      <3>1. PICK outcome, term, key : launches' = Placed(t, outcome, term, key)
        BY <2>2
      <3>2. PICK l : l = PlacedOne(launches[t], outcome, term, key)
        OBVIOUS
      <3>3. l.run = launches[t].run
        BY <3>2 DEF PlacedOne, Launch
      <3>4. launches' = [launches EXCEPT ![t] = l]
        BY <3>1, <3>2, PlacedMoves
      <3>. QED BY <3>3, <3>4
    <2>. QED BY <1>1, <2>1, <2>2
  <1>3. Launched' \subseteq Launched
    BY <1>2 DEF Launched
  <1>. QED BY <1>1, <1>2, <1>3

LEMMA LaunchingManual ==
    ASSUME Manual, Shape, Launching
    PROVE  Manual'
  <1>1. PICK t \in DOMAIN launches :
            CheckFails(t) \/ CheckPasses(t) \/ PlaceFails(t) \/ Place(t) \/ Record(t)
    BY DEF Launching
  <1>2. Logs /\ launches[t] \in Launch /\ (Writable(t) => runs[launches[t].run] \in Run)
    BY DEF Shape, Logs, List, Total, Writable
  <1>3. CASE CheckFails(t)
    <2>1. PICK row : row = Skipped(runs[launches[t].run], "precheck")
      OBVIOUS
    <2>2. Wrote(t, row)
      BY <1>2, <1>3, <2>1, WritesDoes DEF CheckFails
    <2>3. Writable(t) => ~InProgress(row)
      BY <1>2, <2>1 DEF Skipped, Run, InProgress
    <2>. QED BY <1>2, <2>2, <2>3, WroteManual
  <1>4. CASE Record(t)
    <2>1. PICK row : row = StartOf(runs[launches[t].run], launches[t])
      OBVIOUS
    <2>2. Wrote(t, row)
      BY <1>2, <1>4, <2>1, WritesDoes DEF Record
    <2>3. launches[t].outcome \in Outcomes
      BY <1>4 DEF Shape, Logs, Recording, Record
    <2>4. PICK old : old = runs[launches[t].run]
      OBVIOUS
    <2>5. Writable(t) => /\ row.auto = old.auto /\ row.trigger = old.trigger
                         /\ row.cancelled = old.cancelled
      BY <1>2, <2>1, <2>3, <2>4, StartOfIs
    <2>. QED BY <1>2, <2>2, <2>4, <2>5, WroteManual
  <1>5. ASSUME CheckPasses(t) \/ PlaceFails(t) \/ Place(t) PROVE Manual'
    <2>1. /\ UNCHANGED <<saved, memory>> /\ DOMAIN launches' = DOMAIN launches
          /\ \A u \in DOMAIN launches : launches'[u].run = launches[u].run
      BY <1>2, <1>5, MovesLaunched
    <2>. QED BY <1>2, <2>1, SameManual DEF saved, memory
  <1>. QED BY <1>1, <1>3, <1>4, <1>5

\* The steps that calm runs, and leave the launches alone.
LEMMA CalmManual ==
    ASSUME Manual, Shape, Calmer(runs, runs'), UNCHANGED <<launches, reborn>>
    PROVE  Manual'
  BY CalmerManual DEF Shape

LEMMA PlainManual ==
    ASSUME Manual, Shape, UNCHANGED <<runs, launches, reborn>>
    PROVE  Manual'
  BY SameManual DEF Shape

LEMMA LoggedManual ==
    ASSUME Manual, Shape, Shape', NEW a \in DOMAIN autos,
           NEW trigger \in {"schedule", "event"}, Logged(a, trigger)
    PROVE  Manual'
  <1>1. Logs /\ Logs' /\ trigger \in Triggers
    BY DEF Shape, Triggers
  <1>2. ASSUME Begins(a, trigger, runs) PROVE Manual'
    BY <1>1, <1>2, StartManual
  <1>3. ASSUME NEW cause \in {"missed", "unavailable"}, Skips(a, trigger, cause)
        PROVE  Manual'
    BY <1>1, <1>3, SkipsManual
  <1>. QED BY <1>2, <1>3, LoggedIs

LEMMA CommandsManual ==
    ASSUME Manual, Shape, Shape', Commands
    PROVE  Manual'
  <1>1. ASSUME NEW form \in Forms, Create(form) PROVE Manual'
    BY <1>1, PlainManual DEF Create, threads
  <1>2. ASSUME NEW a \in DOMAIN autos, NEW form \in Forms, Save(a, form) PROVE Manual'
    BY <1>2, PlainManual DEF Save, threads
  <1>3. ASSUME NEW a \in DOMAIN autos, NEW on \in BOOLEAN, SetEnabled(a, on) PROVE Manual'
    BY <1>3, PlainManual DEF SetEnabled, threads
  <1>4. ASSUME NEW a \in DOMAIN autos, Delete(a) PROVE Manual'
    BY <1>4, DeleteManual DEF Shape
  <1>5. ASSUME NEW a \in DOMAIN autos, RunNow(a) PROVE Manual'
    BY <1>5, RunNowManual DEF Shape
  <1>6. ASSUME NEW r \in DOMAIN runs, Cancel(r) PROVE Manual'
    <2>1. Calmer(runs, runs')
      BY <1>6, CancelCalms DEF Shape
    <2>. QED BY <1>6, <2>1, CalmManual DEF Cancel, threads, memory
  <1>. QED BY <1>1, <1>2, <1>3, <1>4, <1>5, <1>6 DEF Commands

LEMMA ClockManual ==
    ASSUME Manual, Shape, Shape', Clock \/ Time \/ Happenings
    PROVE  Manual'
  <1>1. ASSUME Tick PROVE Manual'
    BY <1>1, PlainManual DEF Tick, saved, memory
  <1>2. ASSUME Beat PROVE Manual'
    <2>1. PICK lost \in SUBSET AllSettling, silent \in SUBSET Stalling : Settles(lost, silent)
      BY <1>2 DEF Beat
    <2>2. Calmer(runs, runs')
      BY <2>1, SettlesCalms DEF Shape
    <2>. QED BY <2>1, <2>2, CalmManual DEF Settles, memory
  <1>3. ASSUME NEW a \in clock.due, ClockStarts(a) PROVE Manual'
    <2>1. \/ a \in DOMAIN autos /\ Logged(a, "schedule")
          \/ UNCHANGED <<saved, launches, memory, used>>
      BY <1>3, ClockStartsDoes
    <2>. QED BY <2>1, LoggedManual, PlainManual DEF saved, memory
  <1>4. ASSUME NEW a \in DOMAIN autos, TimePasses(a) \/ RestEnds(a) PROVE Manual'
    BY <1>4, PlainManual DEF TimePasses, RestEnds, threads, memory
  <1>5. ASSUME Event PROVE Manual'
    BY <1>5, PlainManual DEF Event, memory
  <1>6. ASSUME NEW a \in events, EventStarts(a) PROVE Manual'
    <2>1. \/ a \in DOMAIN autos /\ Logged(a, "event")
          \/ UNCHANGED <<saved, launches, memory, used>>
      BY <1>6, EventStartsDoes
    <2>. QED BY <2>1, LoggedManual, PlainManual DEF saved, memory
  <1>. QED BY <1>1, <1>2, <1>3, <1>4, <1>5, <1>6 DEF Clock, Time, Happenings

LEMMA PaneStepsManual ==
    ASSUME Manual, Shape, PaneSteps
    PROVE  Manual'
  <1>1. ASSUME UserOpens \/ (\E r \in notices : WindowStarts(r))
                 \/ (\E key \in reopen : Reopens(key)) \/ (\E t \in DOMAIN terms : Exits(t))
        PROVE  Manual'
    BY <1>1, PlainManual
    DEF UserOpens, WindowStarts, Reopens, Exits, saved, threads, memory
  <1>2. ASSUME NEW t \in DOMAIN terms, Claim(t) PROVE Manual'
    <2>1. Calmer(runs, runs')
      BY <1>2, ClaimIs
    <2>. QED BY <1>2, <2>1, CalmManual DEF Claim, threads, memory
  <1>3. ASSUME NEW t \in DOMAIN terms, PaneEnded(t) PROVE Manual'
    <2>1. Calmer(runs, runs')
      BY <1>3, PaneEndedIs
    <2>. QED BY <1>3, <2>1, CalmManual DEF PaneEnded, threads, memory
  <1>4. ASSUME NEW t \in DOMAIN terms,
               NEW said \in {"working", "done", "interrupted", "boundary"}, Reports(t, said)
        PROVE  Manual'
    <2>1. Calmer(runs, runs') /\ UNCHANGED <<launches, reborn>>
      BY <1>4, ReportsIs
    <2>. QED BY <2>1, CalmManual
  <1>. QED BY <1>1, <1>2, <1>3, <1>4 DEF PaneSteps

LEMMA NextManual ==
    ASSUME Manual, Shape, Shape', [Next]_vars
    PROVE  Manual'
  <1>1. ASSUME UNCHANGED vars PROVE Manual'
    BY <1>1, PlainManual DEF vars, saved, threads, memory
  <1>. QED BY <1>1, CommandsManual, LaunchingManual, ClockManual, PaneStepsManual,
              EndsManual DEF Next

LEMMA InitManual == AInit => Manual
  BY DEF AInit, Manual, Jobs, OneJob

\* Run now never starts a job twice, however starts, claims, ends, cancels,
\* crashes and restarts interleave: of an automation's manual runs one at most
\* is in progress, but for those cancelled while they were starting and those
\* that got the id of a deleted run.
THEOREM OneRunNow == ASpec => []OneManualRun
  <1>1. AInit => Manual
    BY InitManual
  <1>2. Manual /\ Shape /\ Shape' /\ [Next]_vars => Manual'
    BY NextManual
  <1>3. Manual /\ Shape => OneManualRun
    BY OneJobMeans DEF Manual
  <1>. QED BY <1>1, <1>2, <1>3, ShapeHolds, PTL DEF ASpec
-----------------------------------------------------------------------------
(* Numbers are not given twice.                                            *)

\* The run with number n is the newest of automation a, over, and pruning does
\* not take it out.
Stays(rs, a, n) ==
    /\ \E r \in RunsOf(rs, a) :
         /\ rs[r].number = n /\ ~InProgress(rs[r])
         /\ \A q \in RunsOf(rs, a) \ {r} : rs[q].number < n
    /\ Cardinality(Progressing(rs, a)) < KeepRuns

\* The highest number given is kept with the automation, or by a run that no
\* launch writes to any more: that of a start that a crash cut.
Remembered(a) ==
    \/ given[a] <= autos[a].last
    \/ Stays(runs, a, given[a]) /\ Launched \cap RunsOf(runs, a) = {}

Numbers == \A a \in DOMAIN autos : Remembered(a)

LEMMA FewerProgress ==
    ASSUME NEW rs, IsFiniteSet(DOMAIN rs), NEW new, NEW a,
           Progressing(new, a) \subseteq Progressing(rs, a),
           Cardinality(Progressing(rs, a)) < KeepRuns
    PROVE  Cardinality(Progressing(new, a)) < KeepRuns
  <1>. DEFINE before == Progressing(rs, a)
              after == Progressing(new, a)
  <1>1. IsFiniteSet(before)
    <2>1. before \subseteq DOMAIN rs
      BY DEF Progressing, RunsOf
    <2>. HIDE DEF before
    <2>. QED BY <2>1, FS_Subset
  <1>2. after \subseteq before
    OBVIOUS
  <1>. HIDE DEF before, after
  <1>3. IsFiniteSet(after) /\ Cardinality(after) <= Cardinality(before)
    BY <1>1, <1>2, FS_Subset
  <1>4. Cardinality(after) \in Nat /\ Cardinality(before) \in Nat
    BY <1>1, <1>3, FS_CardinalityType
  <1>5. Cardinality(before) < KeepRuns /\ KeepRuns \in Nat
    BY KeepAssumption DEF before
  <1>6. Cardinality(after) < KeepRuns
    <2>1. PICK i, j : i = Cardinality(after) /\ j = Cardinality(before)
      OBVIOUS
    <2>2. i \in Nat /\ j \in Nat /\ i <= j /\ j < KeepRuns /\ KeepRuns \in Nat
      BY <1>3, <1>4, <1>5, <2>1
    <2>3. i < KeepRuns
      BY <2>2
    <2>. QED BY <2>1, <2>3
  <1>. QED BY <1>6 DEF after

\* Runs may go and end: what stays stays.
LEMMA StaysOn ==
    ASSUME NEW rs, IsFiniteSet(DOMAIN rs), NEW new, NEW a, NEW n, Stays(rs, a, n),
           RunsOf(new, a) \subseteq RunsOf(rs, a),
           \A r \in RunsOf(new, a) : /\ new[r].number = rs[r].number
                                     /\ InProgress(new[r]) => InProgress(rs[r]),
           \A r \in RunsOf(rs, a) : /\ rs[r].number = n /\ ~InProgress(rs[r])
                                    /\ \A q \in RunsOf(rs, a) \ {r} : rs[q].number < n
                                    => r \in RunsOf(new, a)
    PROVE  Stays(new, a, n)
  <1>1. PICK r \in RunsOf(rs, a) :
            /\ rs[r].number = n /\ ~InProgress(rs[r])
            /\ \A q \in RunsOf(rs, a) \ {r} : rs[q].number < n
    BY DEF Stays
  <1>2. r \in RunsOf(new, a)
    BY <1>1
  <1>3. /\ new[r].number = n /\ ~InProgress(new[r])
        /\ \A q \in RunsOf(new, a) \ {r} : new[q].number < n
    BY <1>1, <1>2
  <1>4. Progressing(new, a) \subseteq Progressing(rs, a)
    BY DEF Progressing
  <1>5. Cardinality(Progressing(new, a)) < KeepRuns
    BY <1>4, FewerProgress DEF Stays
  <1>. QED BY <1>2, <1>3, <1>5 DEF Stays

\* The next number of an automation is above every one it gave.
LEMMA NextNumberIsFresh ==
    ASSUME Shape, Numbers, NEW a \in DOMAIN autos, NEW rs, Calmer(runs, rs)
    PROVE  given[a] < NextNumber(autos, rs, a)
  <1>1. List(autos, Automation) /\ List(rs, Run) /\ List(runs, Run) /\ List(given, Nat)
        /\ DOMAIN given = DOMAIN autos
    BY DEF Shape, Logs, List, Total, Calmer, Calms
  <1>2. PICK n : n = NextNumber(autos, rs, a)
    OBVIOUS
  <1>3. /\ n \in Nat /\ autos[a].last < n
        /\ \A r \in RunsOf(rs, a) : rs[r].number < n
    BY <1>1, <1>2, NextNumberIsAbove
  <1>4. PICK last, g : last = autos[a].last /\ g = given[a]
    OBVIOUS
  <1>5. last \in Nat /\ g \in Nat
    BY <1>1, <1>4 DEF List, Total, Automation
  <1>6. CASE given[a] <= autos[a].last
    <2>1. g <= last /\ last < n
      BY <1>3, <1>4, <1>6
    <2>2. g < n
      BY <1>3, <1>5, <2>1
    <2>. QED BY <1>2, <1>4, <2>2
  <1>7. CASE Stays(runs, a, given[a])
    <2>1. PICK r \in RunsOf(runs, a) : runs[r].number = given[a]
      BY <1>7 DEF Stays
    <2>2. r \in RunsOf(rs, a) /\ rs[r].number = given[a]
      BY <2>1 DEF RunsOf, Calmer, Calms
    <2>. QED BY <1>2, <1>3, <2>2
  <1>. QED BY <1>6, <1>7 DEF Numbers, Remembered

\* Automation b keeps its numbers when its runs only go on calmly, and no
\* launch comes to write to one of them.
LEMMA RememberedStays ==
    ASSUME Numbers, Logs, NEW b \in DOMAIN autos,
           given'[b] = given[b], autos'[b].last = autos[b].last,
           Launched \cap RunsOf(runs, b) = {} =>
             /\ Launched' \cap RunsOf(runs', b) = {}
             /\ RunsOf(runs', b) = RunsOf(runs, b)
             /\ \A r \in RunsOf(runs, b) :
                  /\ runs'[r].number = runs[r].number
                  /\ InProgress(runs'[r]) => InProgress(runs[r])
    PROVE  Remembered(b)'
  <1>1. CASE given[b] <= autos[b].last
    BY <1>1 DEF Remembered
  <1>2. CASE Stays(runs, b, given[b]) /\ Launched \cap RunsOf(runs, b) = {}
    <2>1. PICK n : n = given[b]
      OBVIOUS
    <2>2. IsFiniteSet(DOMAIN runs) /\ Stays(runs, b, n)
      BY <1>2, <2>1 DEF Logs, List
    <2>3. Stays(runs', b, n)
      BY <1>2, <2>2, StaysOn
    <2>. QED BY <1>2, <2>1, <2>3 DEF Remembered
  <1>. QED BY <1>1, <1>2 DEF Numbers, Remembered

LEMMA CalmerRunsOf ==
    ASSUME NEW rs, Calmer(runs, rs), NEW b
    PROVE  /\ RunsOf(rs, b) = RunsOf(runs, b)
           /\ \A r \in RunsOf(runs, b) : /\ rs[r].number = runs[r].number
                                         /\ InProgress(rs[r]) => InProgress(runs[r])
  BY DEF Calmer, Calms, RunsOf

LEMMA CalmerNumbers ==
    ASSUME Numbers, Logs, Calmer(runs, runs'), DOMAIN autos' = DOMAIN autos,
           \A b \in DOMAIN autos : autos'[b].last = autos[b].last,
           UNCHANGED given, Launched' \subseteq Launched
    PROVE  Numbers'
  <1>1. ASSUME NEW b \in DOMAIN autos PROVE Remembered(b)'
    <2>1. /\ RunsOf(runs', b) = RunsOf(runs, b)
          /\ \A r \in RunsOf(runs, b) : /\ runs'[r].number = runs[r].number
                                        /\ InProgress(runs'[r]) => InProgress(runs[r])
      BY CalmerRunsOf
    <2>. QED BY <2>1, RememberedStays
  <1>. QED BY <1>1 DEF Numbers

LEMMA GrownNumbers ==
    ASSUME Numbers, Logs, NEW rs, List(rs, Run), Calmer(runs, rs), NEW a \in DOMAIN autos,
           NEW n, NEW row, row.auto = a, Grows(rs, runs', NextId(rs), row),
           DOMAIN autos' = DOMAIN autos, autos'[a].last = n, n \in Nat,
           \A b \in DOMAIN autos \ {a} : autos'[b].last = autos[b].last,
           given' = [given EXCEPT ![a] = n],
           Launched' \subseteq Launched \cup {NextId(rs)}
    PROVE  Numbers'
  <1>1. List(given, Nat) /\ DOMAIN given = DOMAIN autos
    BY DEF Logs
  <1>2. Remembered(a)'
    <2>1. given'[a] = n /\ n <= n
      BY <1>1
    <2>. QED BY <2>1 DEF Remembered
  <1>3. ASSUME NEW b \in DOMAIN autos \ {a} PROVE Remembered(b)'
    <2>1. /\ RunsOf(rs, b) = RunsOf(runs, b)
          /\ \A r \in RunsOf(runs, b) : /\ rs[r].number = runs[r].number
                                        /\ InProgress(rs[r]) => InProgress(runs[r])
      BY CalmerRunsOf
    <2>2. PICK id : id = NextId(rs)
      OBVIOUS
    <2>3. id \notin DOMAIN rs
      BY <2>2, NextIdIsNew
    <2>4. /\ runs'[id].auto = a /\ id \in DOMAIN runs'
          /\ DOMAIN runs' \subseteq DOMAIN rs \cup {id}
          /\ \A r \in DOMAIN runs' \ {id} : runs'[r] = rs[r]
          /\ \A r \in DOMAIN rs : rs[r].auto # a => r \in DOMAIN runs'
      BY <2>2 DEF Grows
    <2>5. RunsOf(runs', b) = RunsOf(rs, b) /\ \A r \in RunsOf(rs, b) : runs'[r] = rs[r]
      BY <2>3, <2>4 DEF RunsOf
    <2>6. id \notin RunsOf(runs', b)
      BY <2>4 DEF RunsOf
    <2>7. given'[b] = given[b] /\ autos'[b].last = autos[b].last
      BY <1>1
    <2>. QED BY <2>1, <2>2, <2>5, <2>6, <2>7, RememberedStays
  <1>. QED BY <1>2, <1>3 DEF Numbers

\* No step logs a run but with a number above every one given.
Fresh == \A r \in DOMAIN runs' \ DOMAIN runs :
    runs'[r].auto \in DOMAIN given => runs'[r].number > given[runs'[r].auto]

LEMMA GrownFresh ==
    ASSUME Shape, Numbers, NEW rs, Calmer(runs, rs), NEW a \in DOMAIN autos,
           NEW row, row.auto = a, row.number = NextNumber(autos, rs, a),
           DOMAIN runs' \subseteq DOMAIN rs \cup {NextId(rs)},
           NextId(rs) \in DOMAIN runs' =>
              /\ runs'[NextId(rs)].auto = row.auto
              /\ runs'[NextId(rs)].number = row.number
    PROVE  Fresh
  <1>1. given[a] < NextNumber(autos, rs, a)
    BY NextNumberIsFresh
  <1>2. DOMAIN rs = DOMAIN runs
    BY DEF Calmer
  <1>3. /\ List(autos, Automation) /\ List(rs, Run)
        /\ given[a] \in Nat
    BY DEF Shape, Logs, List, Total, Calmer, Calms
  <1>4. NextNumber(autos, rs, a) \in Nat
    BY <1>3, NextNumberIsAbove
  <1>5. PICK n, g : n = NextNumber(autos, rs, a) /\ g = given[a]
    OBVIOUS
  <1>6. n > g
    <2>1. g < n /\ n \in Nat /\ g \in Nat
      BY <1>1, <1>3, <1>4, <1>5
    <2>. QED BY <2>1
  <1>. QED BY <1>2, <1>5, <1>6 DEF Fresh

LEMMA BeginsNumbers ==
    ASSUME Shape, Numbers, NEW a \in DOMAIN autos, NEW trigger \in Triggers,
           NEW rs, Calmer(runs, rs), Begins(a, trigger, rs)
    PROVE  Numbers' /\ Fresh
  <1>1. List(autos, Automation) /\ List(rs, Run) /\ List(launches, Launch) /\ Logs
    BY DEF Shape, Logs, List, Total, Calmer, Calms
  <1>2. PICK new : new = WithRun(autos, rs, a, trigger)
    OBVIOUS
  <1>3. PICK n : n = NextNumber(autos, rs, a)
    OBVIOUS
  <1>4. PICK row : row = NewRow(a, n, trigger)
    OBVIOUS
  <1>5. /\ new.id = NextId(rs) /\ new.number = n /\ new.autos = Numbered(autos, a, n)
        /\ Grows(rs, new.runs, new.id, row)
    BY <1>1, <1>2, <1>3, <1>4, RunIsAdded
  <1>6. n \in Nat
    BY <1>1, <1>3, NextNumberIsAbove
  <1>7. row.auto = a /\ row.number = n
    BY <1>4 DEF NewRow
  <1>8. /\ autos' = Numbered(autos, a, n) /\ Grows(rs, runs', NextId(rs), row)
        /\ given' = [given EXCEPT ![a] = n]
        /\ launches' = With(launches, Thread, NewLaunch(new.id, a, trigger))
    BY <1>2, <1>5 DEF Begins, Noted
  <1>9. /\ DOMAIN autos' = DOMAIN autos /\ autos'[a].last = n
        /\ \A b \in DOMAIN autos \ {a} : autos'[b].last = autos[b].last
    BY <1>1, <1>6, <1>8, NumberedIs
  <1>10. Launched' \subseteq Launched \cup {NextId(rs)}
    <2>1. PICK launch : launch = NewLaunch(new.id, a, trigger)
      OBVIOUS
    <2>2. launch.run = NextId(rs)
      BY <1>5, <2>1 DEF NewLaunch
    <2>3. Thread \notin DOMAIN launches
      BY <1>1, ListIds DEF Thread
    <2>4. launches' = With(launches, Thread, launch)
      BY <1>8, <2>1
    <2>. QED BY <2>2, <2>3, <2>4 DEF Launched, With
  <1>11. Numbers'
    BY <1>1, <1>6, <1>7, <1>8, <1>9, <1>10, GrownNumbers
  <1>12. Fresh
    <2>1. /\ DOMAIN runs' \subseteq DOMAIN rs \cup {NextId(rs)}
          /\ runs'[NextId(rs)] = row
      BY <1>8 DEF Grows
    <2>. QED BY <1>3, <1>7, <2>1, GrownFresh
  <1>. QED BY <1>11, <1>12

LEMMA SkipsNumbers ==
    ASSUME Shape, Numbers, NEW a \in DOMAIN autos, NEW trigger \in Triggers,
           NEW cause \in {"missed", "unavailable"}, Skips(a, trigger, cause)
    PROVE  Numbers' /\ Fresh
  <1>1. List(autos, Automation) /\ List(runs, Run) /\ Logs /\ Calmer(runs, runs)
    BY RunsAsTheyAre DEF Shape, Logs
  <1>2. PICK new : new = WithSkip(autos, runs, a, trigger, cause)
    OBVIOUS
  <1>3. PICK n : n = NextNumber(autos, runs, a)
    OBVIOUS
  <1>4. PICK row : row = Skipped(NewRow(a, n, trigger), cause)
    OBVIOUS
  <1>5. \/ new.number = autos[a].last /\ new.autos = autos /\ new.runs = runs
        \/ /\ new.number = n /\ new.autos = Numbered(autos, a, n)
           /\ Grows(runs, new.runs, NextId(runs), row)
    BY <1>1, <1>2, <1>3, <1>4, SkipIsAdded
  <1>6. n \in Nat
    BY <1>1, <1>3, NextNumberIsAbove
  <1>7. row.auto = a /\ row.number = n
    BY <1>4 DEF NewRow, Skipped
  <1>8. /\ autos' = Rescheduled(new.autos, a) /\ runs' = new.runs
        /\ given' = [given EXCEPT ![a] = new.number] /\ launches' = launches
    BY <1>2 DEF Skips, Noted
  <1>9. Launched' = Launched
    BY <1>8 DEF Launched
  <1>10. CASE new.number = autos[a].last /\ new.autos = autos /\ new.runs = runs
    <2>1. DOMAIN autos' = DOMAIN autos
          /\ \A b \in DOMAIN autos : autos'[b].last = autos[b].last
      BY <1>1, <1>8, <1>10, RescheduledIs
    <2>2. ASSUME NEW b \in DOMAIN autos PROVE Remembered(b)'
      <3>1. CASE b = a
        <4>1. given'[b] = autos'[b].last
          BY <1>8, <1>10, <2>1, <3>1 DEF Shape, Logs
        <4>2. autos[b].last \in Nat
          BY <1>1 DEF List, Total, Automation
        <4>3. PICK last : last = autos'[b].last
          OBVIOUS
        <4>4. last <= last
          BY <2>1, <4>2, <4>3
        <4>. QED BY <4>1, <4>3, <4>4 DEF Remembered
      <3>2. CASE b # a
        <4>1. given'[b] = given[b] /\ runs' = runs
          BY <1>8, <1>10, <3>2 DEF Shape, Logs
        <4>. QED BY <1>1, <1>9, <2>1, <4>1, RememberedStays
      <3>. QED BY <3>1, <3>2
    <2>3. Numbers'
      BY <2>1, <2>2 DEF Numbers
    <2>4. Fresh
      BY <1>8, <1>10 DEF Fresh
    <2>. QED BY <2>3, <2>4
  <1>11. CASE /\ new.number = n /\ new.autos = Numbered(autos, a, n)
              /\ Grows(runs, new.runs, NextId(runs), row)
    <2>1. PICK as : as = Numbered(autos, a, n)
      OBVIOUS
    <2>2. /\ List(as, Automation) /\ DOMAIN as = DOMAIN autos /\ as[a].last = n
          /\ \A b \in DOMAIN autos \ {a} : as[b] = autos[b]
      BY <1>1, <1>6, <2>1, NumberedIs
    <2>3. /\ DOMAIN autos' = DOMAIN as
          /\ \A b \in DOMAIN as : autos'[b].last = as[b].last
      BY <1>8, <1>11, <2>1, <2>2, RescheduledIs
    <2>4. Grows(runs, runs', NextId(runs), row) /\ given' = [given EXCEPT ![a] = n]
      BY <1>8, <1>11
    <2>5. Numbers'
      <3>1. DOMAIN autos' = DOMAIN autos /\ autos'[a].last = n
        BY <2>2, <2>3
      <3>2. \A b \in DOMAIN autos \ {a} : autos'[b].last = autos[b].last
        BY <2>2, <2>3
      <3>3. Launched' \subseteq Launched \cup {NextId(runs)}
        BY <1>9
      <3>. QED BY <1>1, <1>6, <1>7, <2>4, <3>1, <3>2, <3>3, GrownNumbers
    <2>6. /\ DOMAIN runs' \subseteq DOMAIN runs \cup {NextId(runs)}
          /\ runs'[NextId(runs)] = row
      BY <2>4 DEF Grows
    <2>7. Fresh
      BY <1>1, <1>3, <1>7, <2>6, GrownFresh
    <2>. QED BY <2>5, <2>7
  <1>. QED BY <1>5, <1>10, <1>11

\* No run is logged.
LEMMA NoneIsFresh == ASSUME DOMAIN runs' \subseteq DOMAIN runs PROVE Fresh
  BY DEF Fresh

LEMMA CalmNumbers ==
    ASSUME Shape, Numbers, Calmer(runs, runs'), UNCHANGED <<given, launches>>,
           DOMAIN autos' = DOMAIN autos,
           \A b \in DOMAIN autos : autos'[b].last = autos[b].last
    PROVE  Numbers' /\ Fresh
  <1>1. Launched' \subseteq Launched
    BY DEF Launched
  <1>2. DOMAIN runs' \subseteq DOMAIN runs
    BY DEF Calmer
  <1>. QED BY <1>1, <1>2, CalmerNumbers, NoneIsFresh DEF Shape

LEMMA PlainNumbers ==
    ASSUME Shape, Numbers, UNCHANGED <<runs, given, launches>>,
           DOMAIN autos' = DOMAIN autos,
           \A b \in DOMAIN autos : autos'[b].last = autos[b].last
    PROVE  Numbers' /\ Fresh
  <1>1. Calmer(runs, runs')
    BY RunsAsTheyAre DEF Shape
  <1>. QED BY <1>1, CalmNumbers

LEMMA CreateNumbers ==
    ASSUME Shape, Numbers, NEW form \in Forms, Create(form)
    PROVE  Numbers' /\ Fresh
  <1>1. List(autos, Automation) /\ List(given, Nat) /\ DOMAIN given = DOMAIN autos /\ Logs
    BY DEF Shape, Logs
  <1>2. PICK a : a = Highest(DOMAIN autos) + 1
    OBVIOUS
  <1>3. a \notin DOMAIN autos
    BY <1>1, <1>2, ListIds
  <1>4. PICK row : row = [form |-> form, enabled |-> TRUE, next |-> NextRun(form),
                          last |-> 0, rested |-> FALSE]
    OBVIOUS
  <1>5. /\ autos' = With(autos, a, row) /\ given' = With(given, a, 0)
        /\ UNCHANGED <<runs, launches>>
    BY <1>2, <1>4 DEF Create, threads
  <1>6. /\ DOMAIN autos' = DOMAIN autos \cup {a} /\ autos'[a] = row /\ given'[a] = 0
        /\ \A b \in DOMAIN autos : autos'[b] = autos[b] /\ given'[b] = given[b]
    BY <1>1, <1>3, <1>5 DEF With
  <1>7. Remembered(a)'
    <2>1. autos'[a].last = 0 /\ given'[a] = 0
      BY <1>4, <1>6
    <2>. QED BY <2>1 DEF Remembered
  <1>8. Launched' = Launched
    BY <1>5 DEF Launched
  <1>9. ASSUME NEW b \in DOMAIN autos PROVE Remembered(b)'
    BY <1>1, <1>5, <1>6, <1>8, RememberedStays
  <1>10. Numbers'
    BY <1>6, <1>7, <1>9 DEF Numbers
  <1>. QED BY <1>5, <1>10, NoneIsFresh

LEMMA DeleteNumbers ==
    ASSUME Shape, Numbers, NEW a \in DOMAIN autos, Delete(a)
    PROVE  Numbers' /\ Fresh
  <1>1. DOMAIN given = DOMAIN autos /\ Logs
    BY DEF Shape, Logs
  <1>2. /\ autos' = Without(autos, {a}) /\ given' = Without(given, {a})
        /\ runs' = Without(runs, RunsOf(runs, a)) /\ launches' = launches
    BY DEF Delete, Deleted, threads
  <1>3. /\ DOMAIN autos' = DOMAIN autos \ {a}
        /\ \A b \in DOMAIN autos \ {a} : autos'[b] = autos[b] /\ given'[b] = given[b]
        /\ DOMAIN runs' = DOMAIN runs \ RunsOf(runs, a)
        /\ \A r \in DOMAIN runs' : runs'[r] = runs[r]
    BY <1>1, <1>2 DEF Without
  <1>4. Launched' = Launched
    BY <1>2 DEF Launched
  <1>5. ASSUME NEW b \in DOMAIN autos \ {a} PROVE Remembered(b)'
    <2>1. RunsOf(runs', b) = RunsOf(runs, b) /\ \A r \in RunsOf(runs, b) : runs'[r] = runs[r]
      BY <1>3 DEF RunsOf
    <2>. QED BY <1>1, <1>3, <1>4, <2>1, RememberedStays
  <1>6. Numbers'
    BY <1>3, <1>5 DEF Numbers
  <1>7. DOMAIN runs' \subseteq DOMAIN runs
    BY <1>3
  <1>. QED BY <1>6, <1>7, NoneIsFresh

\* A launch writes to a run whose number the automation keeps.
LEMMA WroteNumbers ==
    ASSUME Shape, Numbers, NEW t \in DOMAIN launches, NEW row, Wrote(t, row),
           Writable(t) => /\ row.auto = runs[launches[t].run].auto
                          /\ row.number = runs[launches[t].run].number
    PROVE  Numbers' /\ Fresh
  <1>1. DOMAIN autos' = DOMAIN autos /\ UNCHANGED given
        /\ \A b \in DOMAIN autos : autos'[b].last = autos[b].last
    BY DEF Wrote
  <1>2. PICK r : r = launches[t].run
    OBVIOUS
  <1>3. /\ DOMAIN runs' = DOMAIN runs
        /\ \A q \in DOMAIN runs : /\ runs'[q].auto = runs[q].auto
                                  /\ runs'[q].number = runs[q].number
                                  /\ q # r => runs'[q] = runs[q]
    BY <1>2 DEF Wrote
  <1>4. r \in Launched /\ Launched' \subseteq Launched
    BY <1>2 DEF Launched, Wrote, Without
  <1>5. ASSUME NEW b \in DOMAIN autos PROVE Remembered(b)'
    <2>1. RunsOf(runs', b) = RunsOf(runs, b)
      BY <1>3 DEF RunsOf
    <2>2. Launched \cap RunsOf(runs, b) = {} =>
            \A q \in RunsOf(runs, b) : runs'[q] = runs[q]
      BY <1>3, <1>4 DEF RunsOf
    <2>. QED BY <1>1, <1>4, <2>1, <2>2, RememberedStays DEF Shape
  <1>6. Numbers'
    BY <1>1, <1>5 DEF Numbers
  <1>. QED BY <1>3, <1>6, NoneIsFresh

LEMMA LaunchingNumbers ==
    ASSUME Shape, Numbers, Launching
    PROVE  Numbers' /\ Fresh
  <1>1. PICK t \in DOMAIN launches :
            CheckFails(t) \/ CheckPasses(t) \/ PlaceFails(t) \/ Place(t) \/ Record(t)
    BY DEF Launching
  <1>2. Logs /\ launches[t] \in Launch /\ (Writable(t) => runs[launches[t].run] \in Run)
    BY DEF Shape, Logs, List, Total, Writable
  <1>3. CASE CheckFails(t)
    <2>1. PICK old : old = runs[launches[t].run]
      OBVIOUS
    <2>2. PICK row : row = Skipped(old, "precheck")
      OBVIOUS
    <2>3. Wrote(t, row)
      BY <1>2, <1>3, <2>1, <2>2, WritesDoes DEF CheckFails
    <2>4. Writable(t) => row.auto = old.auto /\ row.number = old.number
      BY <1>2, <2>1, <2>2 DEF Skipped, Run
    <2>. QED BY <2>1, <2>3, <2>4, WroteNumbers
  <1>4. CASE Record(t)
    <2>1. PICK old : old = runs[launches[t].run]
      OBVIOUS
    <2>2. PICK row : row = StartOf(old, launches[t])
      OBVIOUS
    <2>3. Wrote(t, row)
      BY <1>2, <1>4, <2>1, <2>2, WritesDoes DEF Record
    <2>4. launches[t].outcome \in Outcomes
      BY <1>4 DEF Shape, Logs, Recording, Record
    <2>5. Writable(t) => row.auto = old.auto /\ row.number = old.number
      BY <1>2, <2>1, <2>2, <2>4, StartOfIs
    <2>. QED BY <2>1, <2>3, <2>5, WroteNumbers
  <1>5. ASSUME CheckPasses(t) \/ PlaceFails(t) \/ Place(t) PROVE Numbers' /\ Fresh
    <2>1. UNCHANGED <<runs, autos, given>> /\ Launched' \subseteq Launched
      BY <1>2, <1>5, MovesLaunched DEF saved, memory
    <2>2. Calmer(runs, runs')
      BY <1>2, <2>1, RunsAsTheyAre
    <2>3. Numbers'
      BY <1>2, <2>1, <2>2, CalmerNumbers
    <2>. QED BY <2>1, <2>3, NoneIsFresh
  <1>. QED BY <1>1, <1>3, <1>4, <1>5

\* The runs of a new process, before their histories are cut down.
LEMMA RevivedRunsOf ==
    ASSUME NEW rs, List(rs, Run), \A r \in DOMAIN rs : rs[r].settling => rs[r].term = 0,
           NEW found \in SUBSET Nat, NEW b,
           NEW mid, mid = [r \in DOMAIN rs |-> Revived(rs[r], found)]
    PROVE  /\ RunsOf(mid, b) = RunsOf(rs, b)
           /\ \A r \in RunsOf(rs, b) : /\ mid[r].number = rs[r].number
                                       /\ InProgress(mid[r]) => Tracked(rs[r])
                                       /\ Tracked(rs[r]) => InProgress(rs[r])
  <1>1. \A r \in DOMAIN rs : rs[r] \in Run
    BY DEF List, Total
  <1>2. ASSUME NEW r \in DOMAIN rs
        PROVE  /\ mid[r].auto = rs[r].auto /\ mid[r].number = rs[r].number
               /\ InProgress(mid[r]) => Tracked(rs[r])
    <2>1. rs[r] \in Run /\ (rs[r].settling => rs[r].term = 0)
      BY <1>1
    <2>2. PICK new : new = Revived(rs[r], found)
      OBVIOUS
    <2>3. /\ new.auto = rs[r].auto /\ new.number = rs[r].number
          /\ InProgress(new) => Tracked(rs[r])
      BY <2>1, <2>2, RevivedIs
    <2>4. mid[r] = new
      BY <2>2
    <2>. QED BY <2>3, <2>4
  <1>3. DOMAIN mid = DOMAIN rs
    OBVIOUS
  <1>. QED BY <1>2, <1>3 DEF RunsOf, Tracked, InProgress

\* A restart leaves what stays where it is.
LEMMA RevivedStays ==
    ASSUME NEW rs, List(rs, Run), \A r \in DOMAIN rs : rs[r].settling => rs[r].term = 0,
           NEW kept, NEW found \in SUBSET Nat, Restarted(rs, kept, found),
           NEW b, NEW n, Stays(rs, b, n)
    PROVE  Stays(runs', b, n)
  <1>1. PICK mid : mid = [r \in DOMAIN rs |-> Revived(rs[r], found)]
    OBVIOUS
  <1>2. List(mid, Run) /\ runs' = AllPruned(mid)
    BY <1>1, RestartedRuns
  <1>3. /\ RunsOf(mid, b) = RunsOf(rs, b)
        /\ \A r \in RunsOf(rs, b) : /\ mid[r].number = rs[r].number
                                    /\ InProgress(mid[r]) => InProgress(rs[r])
    BY <1>1, RevivedRunsOf
  <1>4. IsFiniteSet(DOMAIN rs) /\ IsFiniteSet(DOMAIN mid)
    BY <1>2 DEF List
  <1>5. Stays(mid, b, n)
    BY <1>3, <1>4, StaysOn
  <1>6. /\ DOMAIN runs' \subseteq DOMAIN mid
        /\ \A r \in DOMAIN runs' : runs'[r] = mid[r]
        /\ \A r \in DOMAIN mid : r \in DOMAIN Pruned(mid, mid[r].auto)
                                    => r \in DOMAIN runs'
    BY <1>2, AllPrunedIs
  <1>7. RunsOf(runs', b) \subseteq RunsOf(mid, b)
        /\ \A r \in RunsOf(runs', b) : runs'[r] = mid[r]
    BY <1>6 DEF RunsOf
  <1>8. ASSUME NEW r \in RunsOf(mid, b), mid[r].number = n, ~InProgress(mid[r]),
               \A q \in RunsOf(mid, b) \ {r} : mid[q].number < n
        PROVE  r \in RunsOf(runs', b)
    <2>1. Cardinality(Progressing(mid, b)) < KeepRuns
      BY <1>5 DEF Stays
    <2>2. r \in DOMAIN Pruned(mid, b)
      BY <1>2, <1>8, <2>1, NewestStays
    <2>. QED BY <1>6, <1>8, <2>2 DEF RunsOf
  <1>. QED BY <1>4, <1>5, <1>7, <1>8, StaysOn

LEMMA RestartRemembers ==
    ASSUME Shape, NEW rs, List(rs, Run),
           \A r \in DOMAIN rs : rs[r].settling => rs[r].term = 0,
           NEW as, RestartsWith(as, rs),
           NEW b \in DOMAIN autos, b \in DOMAIN as, as[b].last = autos[b].last,
           given'[b] = given[b],
           given[b] <= autos[b].last \/ Stays(rs, b, given[b])
    PROVE  Remembered(b)'
  <1>1. PICK kept, found : Restarted(rs, kept, found)
    BY RestartDoes
  <1>2. found \in SUBSET Nat
    BY <1>1, RestartedTerms DEF Shape
  <1>3. launches' = <<>> /\ autos' = as
    BY <1>1, RestartDoes DEF Restarted
  <1>4. Launched' = {}
    BY <1>3 DEF Launched
  <1>5. CASE given[b] <= autos[b].last
    BY <1>3, <1>5 DEF Remembered
  <1>6. CASE Stays(rs, b, given[b])
    <2>1. PICK n : n = given[b]
      OBVIOUS
    <2>2. Stays(rs, b, n)
      BY <1>6, <2>1
    <2>3. Stays(runs', b, n)
      BY <1>1, <1>2, <2>2, RevivedStays
    <2>. QED BY <1>4, <2>1, <2>3 DEF Remembered
  <1>. QED BY <1>5, <1>6

\* The run of a cut start is remembered when it is listed after the restart, and
\* when it is not, nothing needed a run to be remembered by.
LEMMA CutStartRemembers ==
    ASSUME Shape, Numbers, NEW a \in DOMAIN autos, NEW trigger \in Triggers,
           NEW old, CutWith(a, trigger, old)
    PROVE  Remembered(a)'
  <1>1. PICK n : n = NextNumber(autos, old, a)
    OBVIOUS
  <1>2. PICK row : row = NewRow(a, n, trigger)
    OBVIOUS
  <1>3. PICK new : new = WithRun(autos, old, a, trigger)
    OBVIOUS
  <1>4. PICK rs : rs = new.runs
    OBVIOUS
  <1>5. PICK id : id = new.id
    OBVIOUS
  <1>6. /\ new.number = n /\ n \in Nat /\ id = NextId(old) /\ List(rs, Run)
        /\ Grows(old, rs, id, row)
        /\ \A r \in DOMAIN rs : rs[r].settling => rs[r].term = 0
    BY <1>1, <1>2, <1>3, <1>4, <1>5, CutRuns DEF CutWith
  <1>7. /\ RestartsWith(autos, rs)
        /\ given' = [given EXCEPT ![a] = IF id \in DOMAIN runs' THEN n ELSE @]
    BY <1>3, <1>4, <1>5, <1>6 DEF CutWith, CutBetween
  <1>8. /\ List(autos, Automation) /\ List(old, Run) /\ List(runs, Run)
        /\ DOMAIN given = DOMAIN autos
    BY CalmerSettled DEF Shape, Logs, CutWith
  <1>9. PICK kept, found : Restarted(rs, kept, found)
    BY <1>7, RestartDoes
  <1>10. found \in SUBSET Nat
    BY <1>9, RestartedTerms DEF Shape
  <1>11. PICK mid : mid = [r \in DOMAIN rs |-> Revived(rs[r], found)]
    OBVIOUS
  <1>12. List(mid, Run) /\ runs' = AllPruned(mid)
    BY <1>6, <1>9, <1>10, <1>11, RestartedRuns
  <1>13. /\ RunsOf(mid, a) = RunsOf(rs, a)
         /\ \A r \in RunsOf(rs, a) : /\ mid[r].number = rs[r].number
                                     /\ InProgress(mid[r]) => Tracked(rs[r])
                                     /\ Tracked(rs[r]) => InProgress(rs[r])
    BY <1>6, <1>10, <1>11, RevivedRunsOf
  <1>14. row.auto = a /\ row.number = n /\ row.status = "pending"
    BY <1>2 DEF NewRow
  <1>15. /\ id \in RunsOf(rs, a) /\ rs[id] = row /\ id \notin DOMAIN old
         /\ \A r \in RunsOf(rs, a) \ {id} : r \in RunsOf(old, a) /\ rs[r] = old[r]
    BY <1>6, <1>8, <1>14, NextIdIsNew DEF Grows, RunsOf
  <1>16. \A r \in RunsOf(mid, a) \ {id} : mid[r].number < n
    <2>1. \A r \in RunsOf(old, a) : old[r].number < n
      BY <1>1, <1>8, NextNumberIsAbove
    <2>. QED BY <1>13, <1>15, <2>1
  <1>17. mid[id].number = n /\ ~InProgress(mid[id])
    BY <1>13, <1>14, <1>15 DEF Tracked
  <1>18. id \in DOMAIN Pruned(mid, a) <=> Cardinality(Progressing(mid, a)) < KeepRuns
    BY <1>12, <1>13, <1>15, <1>16, <1>17, NewestStays
  <1>19. /\ DOMAIN runs' \subseteq DOMAIN mid
         /\ \A r \in DOMAIN runs' : runs'[r] = mid[r]
    BY <1>12, AllPrunedIs
  <1>20. id \in DOMAIN mid /\ mid[id].auto = a
    BY <1>13, <1>15 DEF RunsOf
  <1>21. id \in DOMAIN runs' <=> id \in DOMAIN Pruned(mid, a)
    <2>1. runs' = Without(mid, {r \in DOMAIN mid : r \notin DOMAIN Pruned(mid, mid[r].auto)})
      BY <1>12 DEF AllPruned
    <2>2. DOMAIN runs' = {r \in DOMAIN mid : r \in DOMAIN Pruned(mid, mid[r].auto)}
      BY <2>1 DEF Without
    <2>. QED BY <1>20, <2>2
  <1>22. Launched' = {}
    BY <1>9 DEF Restarted, Launched
  <1>23. CASE id \in DOMAIN runs'
    <2>1. given'[a] = n
      BY <1>7, <1>8, <1>23
    <2>2. RunsOf(runs', a) \subseteq RunsOf(mid, a)
          /\ \A r \in RunsOf(runs', a) : runs'[r] = mid[r]
      BY <1>19 DEF RunsOf
    <2>3. id \in RunsOf(runs', a)
      BY <1>19, <1>20, <1>23 DEF RunsOf
    <2>4. Cardinality(Progressing(runs', a)) < KeepRuns
      <3>1. Progressing(runs', a) \subseteq Progressing(mid, a)
        BY <2>2 DEF Progressing
      <3>2. Cardinality(Progressing(mid, a)) < KeepRuns
        BY <1>18, <1>21, <1>23
      <3>3. IsFiniteSet(DOMAIN mid)
        BY <1>12 DEF List
      <3>. QED BY <3>1, <3>2, <3>3, FewerProgress
    <2>5. Stays(runs', a, n)
      BY <1>16, <1>17, <2>2, <2>3, <2>4 DEF Stays
    <2>. QED BY <1>22, <2>1, <2>5 DEF Remembered
  <1>24. CASE id \notin DOMAIN runs'
    <2>1. given'[a] = given[a]
      BY <1>7, <1>8, <1>24
    <2>2. CASE given[a] <= autos[a].last
      <3>1. autos' = autos
        BY <1>7, RestartDoes
      <3>. QED BY <2>1, <2>2, <3>1 DEF Remembered
    <2>3. CASE Stays(runs, a, given[a])
      <3>1. Progressing(mid, a) \subseteq Progressing(runs, a)
        <4>1. /\ RunsOf(old, a) = RunsOf(runs, a)
              /\ \A r \in RunsOf(runs, a) : InProgress(old[r]) => InProgress(runs[r])
          BY CalmerRunsOf DEF CutWith
        <4>2. Progressing(mid, a) \subseteq Progressing(old, a)
          BY <1>13, <1>15, <1>17 DEF Progressing
        <4>. QED BY <4>1, <4>2 DEF Progressing
      <3>2. Cardinality(Progressing(runs, a)) < KeepRuns
        BY <2>3 DEF Stays
      <3>3. IsFiniteSet(DOMAIN runs)
        BY <1>8 DEF List
      <3>4. Cardinality(Progressing(mid, a)) < KeepRuns
        BY <3>1, <3>2, <3>3, FewerProgress
      <3>. QED BY <1>18, <1>21, <1>24, <3>4
    <2>. QED BY <2>2, <2>3 DEF Numbers, Remembered
  <1>. QED BY <1>23, <1>24

LEMMA EndsNumbers ==
    ASSUME Shape, Numbers, Ends
    PROVE  Numbers'
  <1>1. /\ List(autos, Automation) /\ List(runs, Run) /\ DOMAIN given = DOMAIN autos
        /\ \A r \in DOMAIN runs : runs[r].settling => runs[r].term = 0
    BY DEF Shape, Logs, Settled
  <1>2. \A b \in DOMAIN autos : given[b] <= autos[b].last \/ Stays(runs, b, given[b])
    BY DEF Numbers, Remembered
  <1>3. ASSUME Restart PROVE Numbers'
    <2>1. RestartsWith(autos, runs) /\ UNCHANGED given /\ autos' = autos
      BY <1>3, RestartDoes DEF Restart
    <2>2. ASSUME NEW b \in DOMAIN autos PROVE Remembered(b)'
      BY <1>1, <1>2, <2>1, RestartRemembers
    <2>. QED BY <2>1, <2>2 DEF Numbers
  <1>4. ASSUME NEW a \in DOMAIN autos, CutDelete(a) PROVE Numbers'
    <2>1. PICK as : as = Deleted(a)
      OBVIOUS
    <2>2. RestartsWith(as, runs) /\ given' = Without(given, {a}) /\ autos' = as
      BY <1>4, <2>1, RestartDoes DEF CutDelete
    <2>3. /\ DOMAIN as = DOMAIN autos \ {a}
          /\ \A b \in DOMAIN as : as[b] = autos[b] /\ given'[b] = given[b]
      BY <1>1, <2>1, <2>2 DEF Deleted, Without
    <2>4. ASSUME NEW b \in DOMAIN as PROVE Remembered(b)'
      BY <1>1, <1>2, <2>2, <2>3, RestartRemembers
    <2>. QED BY <2>2, <2>4 DEF Numbers
  <1>5. ASSUME NEW a \in DOMAIN autos, NEW trigger \in Triggers, NEW old,
               CutWith(a, trigger, old)
        PROVE  Numbers'
    <2>1. PICK new : new = WithRun(autos, old, a, trigger)
      OBVIOUS
    <2>2. PICK row : row = NewRow(a, NextNumber(autos, old, a), trigger)
      OBVIOUS
    <2>3. PICK rs : rs = new.runs
      OBVIOUS
    <2>4. /\ List(rs, Run) /\ Grows(old, rs, new.id, row) /\ new.id = NextId(old)
          /\ \A r \in DOMAIN rs : rs[r].settling => rs[r].term = 0
      BY <1>5, <2>1, <2>2, <2>3, CutRuns DEF CutWith
    <2>5. /\ RestartsWith(autos, rs) /\ autos' = autos
          /\ \A b \in DOMAIN autos \ {a} : given'[b] = given[b]
      BY <1>1, <1>5, <2>1, <2>3, RestartDoes DEF CutWith, CutBetween
    <2>6. row.auto = a /\ NextId(old) \notin DOMAIN old
      BY <1>5, <2>2, CalmerSettled, NextIdIsNew DEF CutWith, NewRow
    <2>7. ASSUME NEW b \in DOMAIN autos \ {a} PROVE Remembered(b)'
      <3>1. /\ RunsOf(rs, b) = RunsOf(runs, b)
            /\ \A r \in RunsOf(runs, b) : /\ rs[r].number = runs[r].number
                                          /\ InProgress(rs[r]) => InProgress(runs[r])
        <4>1. RunsOf(rs, b) = RunsOf(old, b) /\ \A r \in RunsOf(old, b) : rs[r] = old[r]
          BY <2>4, <2>6 DEF Grows, RunsOf
        <4>2. /\ RunsOf(old, b) = RunsOf(runs, b)
              /\ \A r \in RunsOf(runs, b) : /\ old[r].number = runs[r].number
                                            /\ InProgress(old[r]) => InProgress(runs[r])
          BY <1>5, CalmerRunsOf DEF CutWith
        <4>. QED BY <4>1, <4>2
      <3>2. PICK n : n = given[b]
        OBVIOUS
      <3>3. IsFiniteSet(DOMAIN runs)
        BY <1>1 DEF List
      <3>4. Stays(runs, b, n) => Stays(rs, b, n)
        BY <3>1, <3>3, StaysOn
      <3>5. given[b] <= autos[b].last \/ Stays(rs, b, given[b])
        BY <1>2, <3>2, <3>4
      <3>. QED BY <2>4, <2>5, <3>5, RestartRemembers
    <2>8. Remembered(a)'
      BY <1>5, CutStartRemembers
    <2>. QED BY <2>5, <2>7, <2>8 DEF Numbers
  <1>6. Logs
    BY DEF Shape
  <1>. QED BY <1>3, <1>4, <1>5, <1>6, EndsAre

LEMMA EndsFresh ==
    ASSUME Shape, Numbers, Ends
    PROVE  Fresh
  <1>1. /\ List(autos, Automation) /\ List(runs, Run)
        /\ \A r \in DOMAIN runs : runs[r].settling => runs[r].term = 0
    BY DEF Shape, Logs, Settled
  <1>2. ASSUME NEW as, RestartsWith(as, runs) PROVE Fresh
    <2>1. PICK kept, found : Restarted(runs, kept, found)
      BY <1>2, RestartDoes
    <2>2. found \in SUBSET Nat
      BY <2>1, RestartedTerms DEF Shape
    <2>3. DOMAIN runs' \subseteq DOMAIN runs
      BY <1>1, <2>1, <2>2, RestartedRuns
    <2>. QED BY <2>3, NoneIsFresh
  <1>3. ASSUME NEW a \in DOMAIN autos, NEW trigger \in Triggers, NEW old,
               CutWith(a, trigger, old)
        PROVE  Fresh
    <2>1. PICK new : new = WithRun(autos, old, a, trigger)
      OBVIOUS
    <2>2. PICK n : n = NextNumber(autos, old, a)
      OBVIOUS
    <2>3. PICK row : row = NewRow(a, n, trigger)
      OBVIOUS
    <2>4. PICK rs : rs = new.runs
      OBVIOUS
    <2>5. /\ List(rs, Run) /\ Grows(old, rs, new.id, row) /\ new.id = NextId(old)
          /\ n \in Nat /\ a \in Nat
          /\ \A r \in DOMAIN rs : rs[r].settling => rs[r].term = 0
      BY <1>3, <2>1, <2>2, <2>3, <2>4, CutRuns DEF CutWith
    <2>6. RestartsWith(autos, rs)
      BY <1>3, <2>1, <2>4 DEF CutWith, CutBetween
    <2>7. PICK kept, found : Restarted(rs, kept, found)
      BY <2>6, RestartDoes
    <2>8. found \in SUBSET Nat
      BY <2>7, RestartedTerms DEF Shape
    <2>9. /\ DOMAIN runs' \subseteq DOMAIN rs
          /\ \A r \in DOMAIN runs' : runs'[r] = Revived(rs[r], found)
      BY <2>5, <2>7, <2>8, RestartedRuns
    <2>10. row \in Run /\ row.auto = a /\ row.number = n /\ (row.settling => row.term = 0)
      <3>1. row \in Run /\ row.auto = a /\ row.number = n
        BY <2>3, <2>5, NewRowIs
      <3>2. ~row.settling
        BY <2>3 DEF NewRow
      <3>. QED BY <3>1, <3>2
    <2>11. PICK id : id = NextId(old)
      OBVIOUS
    <2>12. id \in DOMAIN runs' => runs'[id].auto = row.auto /\ runs'[id].number = row.number
      <3>1. rs[id] = row
        BY <2>5, <2>11 DEF Grows
      <3>2. PICK last : last = Revived(row, found)
        OBVIOUS
      <3>3. last.auto = row.auto /\ last.number = row.number
        BY <2>8, <2>10, <3>2, RevivedIs
      <3>. QED BY <2>9, <3>1, <3>2, <3>3
    <2>13. DOMAIN runs' \subseteq DOMAIN old \cup {id}
      BY <2>5, <2>9, <2>11 DEF Grows
    <2>14. Calmer(runs, old)
      BY <1>3 DEF CutWith
    <2>. QED BY <2>2, <2>10, <2>11, <2>12, <2>13, <2>14, GrownFresh
  <1>4. Logs
    BY DEF Shape
  <1>. QED BY <1>2, <1>3, <1>4, EndsAre DEF Restart, CutDelete

\* The numbers the automations keep stay as they are.
SameLasts ==
    /\ DOMAIN autos' = DOMAIN autos
    /\ \A b \in DOMAIN autos : autos'[b].last = autos[b].last

LEMMA LastStays ==
    ASSUME NEW a \in DOMAIN autos, NEW row, row.last = autos[a].last,
           autos' = [autos EXCEPT ![a] = row]
    PROVE  SameLasts
  BY DEF SameLasts

LEMMA SaveKeeps ==
    ASSUME Shape, NEW a \in DOMAIN autos, NEW form \in Forms, Save(a, form)
    PROVE  SameLasts /\ UNCHANGED <<runs, given, launches>>
  <1>1. autos[a] \in Automation
    BY DEF Shape, Logs, List, Total
  <1>2. PICK row : row = [autos[a] EXCEPT !.form = form, !.next = NextRun(form)]
    OBVIOUS
  <1>3. row.last = autos[a].last
    BY <1>1, <1>2 DEF Automation
  <1>4. autos' = [autos EXCEPT ![a] = row] /\ UNCHANGED <<runs, given, launches>>
    BY <1>2 DEF Save, threads
  <1>. QED BY <1>3, <1>4, LastStays

LEMMA SetEnabledKeeps ==
    ASSUME Shape, NEW a \in DOMAIN autos, NEW on \in BOOLEAN, SetEnabled(a, on)
    PROVE  SameLasts /\ UNCHANGED <<runs, given, launches>>
  <1>1. autos[a] \in Automation
    BY DEF Shape, Logs, List, Total
  <1>2. PICK row : row = [autos[a] EXCEPT !.enabled = on,
                            !.next = IF on THEN NextRun(autos[a].form) ELSE @]
    OBVIOUS
  <1>3. row.last = autos[a].last
    BY <1>1, <1>2 DEF Automation
  <1>4. autos' = [autos EXCEPT ![a] = row] /\ UNCHANGED <<runs, given, launches>>
    BY <1>2 DEF SetEnabled, threads
  <1>. QED BY <1>3, <1>4, LastStays

LEMMA TimeKeeps ==
    ASSUME Shape, NEW a \in DOMAIN autos, TimePasses(a) \/ RestEnds(a)
    PROVE  SameLasts /\ UNCHANGED <<runs, given, launches>>
  <1>1. autos[a] \in Automation
    BY DEF Shape, Logs, List, Total
  <1>2. PICK row : /\ row = [autos[a] EXCEPT !.next = "due"]
                      \/ row = [autos[a] EXCEPT !.rested = FALSE]
                   /\ autos' = [autos EXCEPT ![a] = row]
    BY DEF TimePasses, RestEnds
  <1>3. row.last = autos[a].last
    BY <1>1, <1>2 DEF Automation
  <1>4. SameLasts
    BY <1>2, <1>3, LastStays
  <1>. QED BY <1>4 DEF TimePasses, RestEnds, threads, memory

LEMMA SetsKeeps ==
    ASSUME Shape, Sets(Listening)
    PROVE  SameLasts
  <1>1. PICK set \in SUBSET DOMAIN autos : set = Listening
    BY DEF Listening
  <1>. QED BY <1>1, SetsIs DEF Shape, SameLasts

LEMMA LoggedNumbers ==
    ASSUME Shape, Numbers, NEW a \in DOMAIN autos, NEW trigger \in Triggers,
           Logged(a, trigger)
    PROVE  Numbers' /\ Fresh
  <1>1. Calmer(runs, runs)
    BY RunsAsTheyAre DEF Shape
  <1>2. ASSUME Begins(a, trigger, runs) PROVE Numbers' /\ Fresh
    BY <1>1, <1>2, BeginsNumbers
  <1>3. ASSUME NEW cause \in {"missed", "unavailable"}, Skips(a, trigger, cause)
        PROVE  Numbers' /\ Fresh
    BY <1>3, SkipsNumbers
  <1>. QED BY <1>2, <1>3, LoggedIs

LEMMA CommandsNumbers ==
    ASSUME Shape, Numbers, Commands
    PROVE  Numbers' /\ Fresh
  <1>1. ASSUME NEW a \in DOMAIN autos, NEW form \in Forms, Save(a, form)
        PROVE  Numbers' /\ Fresh
    BY <1>1, SaveKeeps, PlainNumbers DEF SameLasts
  <1>2. ASSUME NEW a \in DOMAIN autos, NEW on \in BOOLEAN, SetEnabled(a, on)
        PROVE  Numbers' /\ Fresh
    BY <1>2, SetEnabledKeeps, PlainNumbers DEF SameLasts
  <1>3. ASSUME NEW a \in DOMAIN autos, RunNow(a) PROVE Numbers' /\ Fresh
    BY <1>3, ClosingCalms, BeginsNumbers DEF RunNow, Shape, Triggers
  <1>4. ASSUME NEW r \in DOMAIN runs, Cancel(r) PROVE Numbers' /\ Fresh
    <2>1. Calmer(runs, runs')
      BY <1>4, CancelCalms DEF Shape
    <2>. QED BY <1>4, <2>1, CalmNumbers DEF Cancel, threads, memory
  <1>. QED BY <1>1, <1>2, <1>3, <1>4, CreateNumbers, DeleteNumbers DEF Commands

LEMMA ClockNumbers ==
    ASSUME Shape, Numbers, Clock \/ Time \/ Happenings
    PROVE  Numbers' /\ Fresh
  <1>1. ASSUME Tick PROVE Numbers' /\ Fresh
    BY <1>1, PlainNumbers DEF Tick, saved, memory
  <1>2. ASSUME Beat PROVE Numbers' /\ Fresh
    <2>1. PICK lost \in SUBSET AllSettling, silent \in SUBSET Stalling : Settles(lost, silent)
      BY <1>2 DEF Beat
    <2>2. Calmer(runs, runs')
      BY <2>1, SettlesCalms DEF Shape
    <2>. QED BY <2>1, <2>2, CalmNumbers DEF Settles, memory
  <1>3. ASSUME NEW a \in clock.due, ClockStarts(a) PROVE Numbers' /\ Fresh
    <2>1. \/ a \in DOMAIN autos /\ Logged(a, "schedule")
          \/ UNCHANGED <<saved, launches, memory, used>>
      BY <1>3, ClockStartsDoes
    <2>. QED BY <2>1, LoggedNumbers, PlainNumbers DEF saved, memory, Triggers
  <1>4. ASSUME NEW a \in DOMAIN autos, TimePasses(a) \/ RestEnds(a) PROVE Numbers' /\ Fresh
    BY <1>4, TimeKeeps, PlainNumbers DEF SameLasts
  <1>5. ASSUME Event PROVE Numbers' /\ Fresh
    BY <1>5, SetsKeeps, PlainNumbers DEF Event, memory, SameLasts
  <1>6. ASSUME NEW a \in events, EventStarts(a) PROVE Numbers' /\ Fresh
    <2>1. \/ a \in DOMAIN autos /\ Logged(a, "event")
          \/ UNCHANGED <<saved, launches, memory, used>>
      BY <1>6, EventStartsDoes
    <2>. QED BY <2>1, LoggedNumbers, PlainNumbers DEF saved, memory, Triggers
  <1>. QED BY <1>1, <1>2, <1>3, <1>4, <1>5, <1>6 DEF Clock, Time, Happenings

LEMMA PaneStepsNumbers ==
    ASSUME Shape, Numbers, PaneSteps
    PROVE  Numbers' /\ Fresh
  <1>1. ASSUME UserOpens \/ (\E r \in notices : WindowStarts(r))
                 \/ (\E key \in reopen : Reopens(key)) \/ (\E t \in DOMAIN terms : Exits(t))
        PROVE  Numbers' /\ Fresh
    BY <1>1, PlainNumbers
    DEF UserOpens, WindowStarts, Reopens, Exits, saved, threads, memory
  <1>2. ASSUME NEW t \in DOMAIN terms, Claim(t) PROVE Numbers' /\ Fresh
    <2>1. Calmer(runs, runs')
      BY <1>2, ClaimIs
    <2>. QED BY <1>2, <2>1, CalmNumbers DEF Claim, threads, memory
  <1>3. ASSUME NEW t \in DOMAIN terms, PaneEnded(t) PROVE Numbers' /\ Fresh
    <2>1. Calmer(runs, runs')
      BY <1>3, PaneEndedIs
    <2>. QED BY <1>3, <2>1, CalmNumbers DEF PaneEnded, threads, memory
  <1>4. ASSUME NEW t \in DOMAIN terms,
               NEW said \in {"working", "done", "interrupted", "boundary"}, Reports(t, said)
        PROVE  Numbers' /\ Fresh
    <2>1. /\ Calmer(runs, runs') /\ UNCHANGED <<launches, given>>
          /\ UNCHANGED <<autos, events>> \/ Sets(Listening)
      BY <1>4, ReportsIs
    <2>2. DOMAIN autos' = DOMAIN autos
          /\ \A b \in DOMAIN autos : autos'[b].last = autos[b].last
      BY <2>1, SetsKeeps DEF SameLasts
    <2>. QED BY <2>1, <2>2, CalmNumbers
  <1>. QED BY <1>1, <1>2, <1>3, <1>4 DEF PaneSteps

LEMMA NextNumbers ==
    ASSUME Shape, Numbers, [Next]_vars
    PROVE  Numbers' /\ Fresh
  <1>1. ASSUME UNCHANGED vars PROVE Numbers' /\ Fresh
    BY <1>1, PlainNumbers DEF vars, saved, threads, memory
  <1>. QED BY <1>1, CommandsNumbers, LaunchingNumbers, ClockNumbers, PaneStepsNumbers,
              EndsNumbers, EndsFresh DEF Next

\* A run is numbered above every run its automation ever had, although a crash
\* may lose the automation's own count and pruning the runs that had numbers.
THEOREM NumbersAreFresh == ASpec => NumbersOnlyGrow
  <1>1. AInit => Numbers
    BY DEF AInit, Numbers
  <1>2. Shape /\ Numbers /\ [Next]_vars => Numbers'
    BY NextNumbers
  <1>3. Shape /\ Numbers /\ [Next]_vars =>
            [\A r \in DOMAIN runs' \ DOMAIN runs :
               LET a == runs'[r].auto IN
               a \in DOMAIN given => runs'[r].number > given[a]]_vars
    BY NextNumbers DEF Fresh
  <1>. QED BY <1>1, <1>2, <1>3, ShapeHolds, PTL DEF ASpec, NumbersOnlyGrow
-----------------------------------------------------------------------------
(* A run is followed in its own pane.                                      *)

\* The pane with this key was started, or typed into, for run r.
Known(key, r) == key \in DOMAIN opened /\ r \in opened[key]

\* The number t means the pane with this key, or none any more.
Agrees(t, key) == t <= topTerm /\ (t \in DOMAIN terms => terms[t].key = key)

\* Run r, with this row, was in no pane but its own.
Knows(row, r) ==
    /\ row.term # 0 => Known(row.key, r)
    /\ row.lastTerm # 0 => Known(row.lastKey, r)
    /\ row.term = 0 => row.key = 0

AtHome(row) == ~row.adrift => Agrees(row.term, row.key)

PanesKnown ==
    /\ reopen \subseteq DOMAIN opened
    /\ \A t \in DOMAIN terms :
         /\ terms[t].key \in DOMAIN opened
         /\ terms[t].names # 0 => Known(terms[t].key, terms[t].names)

RunsKnown == \A r \in DOMAIN runs :
    /\ Knows(runs[r], r)
    /\ InProgress(runs[r]) \/ r \in Launched => AtHome(runs[r])

LaunchesKnown == \A t \in DOMAIN launches : launches[t].term # 0 =>
    /\ Agrees(launches[t].term, launches[t].key)
    /\ Known(launches[t].key, launches[t].run)

Follows == PanesKnown /\ RunsKnown /\ LaunchesKnown

LEMMA FollowsMeans ==
    ASSUME Shape, Follows
    PROVE  FollowsItsPane
  <1>. SUFFICES ASSUME NEW r \in DOMAIN runs, InProgress(runs[r]), ~runs[r].adrift,
                       runs[r].term \in DOMAIN terms
                PROVE  r \in opened[terms[runs[r].term].key]
    BY DEF FollowsItsPane
  <1>1. runs[r].term # 0
    BY DEF Shape, Others, List, Total
  <1>2. Known(runs[r].key, r) /\ terms[runs[r].term].key = runs[r].key
    BY <1>1 DEF Follows, RunsKnown, Knows, AtHome, Agrees
  <1>. QED BY <1>2 DEF Known

\* Panes come and go; none changes its key, and none forgets a run.
PanesGoOn ==
    /\ DOMAIN opened \subseteq DOMAIN opened'
    /\ \A k \in DOMAIN opened : opened[k] \subseteq opened'[k]
    /\ topTerm <= topTerm'
    /\ \A t \in DOMAIN terms' : t <= topTerm =>
         t \in DOMAIN terms /\ terms'[t].key = terms[t].key

LEMMA PanesAsTheyAre ==
    ASSUME Shape, UNCHANGED <<terms, topTerm, opened>>
    PROVE  PanesGoOn
  BY DEF Shape, Others, PanesGoOn

LEMMA KnownGoesOn ==
    ASSUME PanesGoOn, NEW key, NEW r, Known(key, r)
    PROVE  Known(key, r)'
  BY DEF PanesGoOn, Known

LEMMA AgreesGoesOn ==
    ASSUME Shape, Shape', PanesGoOn, NEW t \in Nat, NEW key, Agrees(t, key)
    PROVE  Agrees(t, key)'
  <1>1. topTerm \in Nat /\ topTerm' \in Nat
    BY DEF Shape, Others
  <1>2. t <= topTerm /\ t <= topTerm'
    <2>1. PICK i, j : i = topTerm /\ j = topTerm'
      OBVIOUS
    <2>2. t <= i /\ i <= j /\ i \in Nat /\ j \in Nat
      BY <1>1, <2>1 DEF PanesGoOn, Agrees
    <2>3. t <= j
      BY <2>2
    <2>. QED BY <2>1, <2>2, <2>3
  <1>3. t \in DOMAIN terms' => t \in DOMAIN terms /\ terms'[t].key = terms[t].key
    BY <1>2 DEF PanesGoOn
  <1>. QED BY <1>2, <1>3 DEF Agrees

\* A row with the same panes is known and at home as the one before.
SameHome(row, new) ==
    /\ new.term = row.term /\ new.key = row.key
    /\ new.lastTerm = row.lastTerm /\ new.lastKey = row.lastKey
    /\ new.adrift = row.adrift

LEMMA HomeGoesOn ==
    ASSUME Shape, Shape', PanesGoOn, NEW row \in Run, NEW new, SameHome(row, new), NEW r
    PROVE  /\ Knows(row, r) => Knows(new, r)'
           /\ AtHome(row) => AtHome(new)'
  <1>1. Knows(row, r) => Knows(new, r)'
    BY KnownGoesOn DEF Knows, SameHome
  <1>2. AtHome(row) => AtHome(new)'
    <2>1. row.term \in Nat
      BY DEF Run
    <2>. QED BY <2>1, AgreesGoesOn DEF AtHome, SameHome
  <1>. QED BY <1>1, <1>2

\* A run that was in no pane yet.
Homeless(row) == row.term = 0 /\ row.key = 0 /\ row.lastTerm = 0

LEMMA HomelessIs ==
    ASSUME Shape, NEW row, Homeless(row), NEW r
    PROVE  Knows(row, r) /\ AtHome(row)
  <1>1. 0 <= topTerm /\ 0 \notin DOMAIN terms
    BY DEF Shape, Others, List, Total
  <1>. QED BY <1>1 DEF Homeless, Knows, AtHome, Agrees

\* The step leaves the runs where they are, and may log one more.
LEMMA RunsGoOn ==
    ASSUME Shape, Shape', Follows, PanesGoOn,
           \A r \in DOMAIN runs' :
              \/ Homeless(runs'[r])
              \/ /\ r \in DOMAIN runs /\ SameHome(runs[r], runs'[r])
                 /\ InProgress(runs'[r]) \/ r \in Launched'
                      => InProgress(runs[r]) \/ r \in Launched
    PROVE  RunsKnown'
  <1>. SUFFICES ASSUME NEW r \in DOMAIN runs'
                PROVE  /\ Knows(runs[r], r)'
                       /\ InProgress(runs'[r]) \/ r \in Launched' => AtHome(runs[r])'
    BY DEF RunsKnown
  <1>1. PICK new : new = runs'[r]
    OBVIOUS
  <1>2. CASE Homeless(new)
    <2>1. Knows(new, r)' /\ AtHome(new)'
      <3>1. /\ topTerm' \in Nat /\ 0 \notin DOMAIN terms'
        BY DEF Shape, Others, List, Total
      <3>. QED BY <1>2, <3>1 DEF Homeless, Knows, AtHome, Agrees
    <2>. QED BY <1>1, <2>1
  <1>3. CASE /\ r \in DOMAIN runs /\ SameHome(runs[r], new)
             /\ InProgress(new) \/ r \in Launched' => InProgress(runs[r]) \/ r \in Launched
    <2>1. PICK row : row = runs[r]
      OBVIOUS
    <2>2. row \in Run /\ SameHome(row, new)
      BY <1>3, <2>1 DEF Shape, Logs, List, Total
    <2>3. /\ Knows(row, r) => Knows(new, r)'
          /\ AtHome(row) => AtHome(new)'
      BY <2>2, HomeGoesOn
    <2>4. Knows(row, r) /\ (InProgress(row) \/ r \in Launched => AtHome(row))
      BY <1>3, <2>1 DEF Follows, RunsKnown
    <2>. QED BY <1>1, <1>3, <2>1, <2>3, <2>4
  <1>. QED BY <1>1, <1>2, <1>3

LEMMA LaunchesGoOn ==
    ASSUME Shape, Shape', Follows, PanesGoOn,
           \A t \in DOMAIN launches' :
              \/ launches'[t].term = 0
              \/ /\ t \in DOMAIN launches /\ launches'[t].run = launches[t].run
                 /\ launches'[t].term = launches[t].term
                 /\ launches'[t].key = launches[t].key
    PROVE  LaunchesKnown'
  <1>. SUFFICES ASSUME NEW t \in DOMAIN launches', launches'[t].term # 0
                PROVE  /\ Agrees(launches[t].term, launches[t].key)'
                       /\ Known(launches[t].key, launches[t].run)'
    BY DEF LaunchesKnown
  <1>1. PICK term, key, r :
            term = launches[t].term /\ key = launches[t].key /\ r = launches[t].run
    OBVIOUS
  <1>2. /\ t \in DOMAIN launches /\ term # 0 /\ launches'[t].term = term
        /\ launches'[t].key = key /\ launches'[t].run = r
    BY <1>1
  <1>3. Agrees(term, key) /\ Known(key, r) /\ term \in Nat
    BY <1>1, <1>2 DEF Follows, LaunchesKnown, Shape, Logs, List, Total, Launch
  <1>4. Agrees(term, key)' /\ Known(key, r)'
    BY <1>3, AgreesGoesOn, KnownGoesOn
  <1>. QED BY <1>2, <1>4

LEMMA KinPanes ==
    ASSUME Shape, Follows, Kin(terms, terms'), UNCHANGED <<topTerm, reopen, opened>>
    PROVE  PanesGoOn /\ PanesKnown'
  <1>1. PanesGoOn
    BY DEF Kin, PanesGoOn, Shape, Others
  <1>2. PanesKnown'
    BY DEF Kin, Follows, PanesKnown, Known
  <1>. QED BY <1>1, <1>2

LEMMA SamePanesKnown ==
    ASSUME Shape, Follows, UNCHANGED <<terms, topTerm, reopen, opened>>
    PROVE  PanesGoOn /\ PanesKnown'
  <1>1. Kin(terms, terms')
    BY DEF Kin
  <1>. QED BY <1>1, KinPanes

\* The runs change, none its pane.
LEMMA CalmFollows ==
    ASSUME Shape, Shape', Follows, Calmer(runs, runs'), SamePanes(runs, runs'),
           Kin(terms, terms'), UNCHANGED <<launches, topTerm, reopen, opened>>
    PROVE  Follows'
  <1>1. PanesGoOn /\ PanesKnown'
    BY KinPanes
  <1>2. Launched' = Launched
    BY DEF Launched
  <1>3. \A r \in DOMAIN runs' :
           /\ r \in DOMAIN runs /\ SameHome(runs[r], runs'[r])
           /\ InProgress(runs'[r]) => InProgress(runs[r])
    BY DEF Calmer, Calms, SamePanes, SameHome
  <1>4. RunsKnown'
    BY <1>1, <1>2, <1>3, RunsGoOn
  <1>5. LaunchesKnown'
    BY <1>1, LaunchesGoOn
  <1>. QED BY <1>1, <1>4, <1>5 DEF Follows

\* Runs may go, and ids with them; the panes come and go as they may.
LEMMA FewerFollow ==
    ASSUME Shape, Shape', Follows, PanesGoOn, PanesKnown',
           DOMAIN runs' \subseteq DOMAIN runs,
           \A r \in DOMAIN runs' : runs'[r] = runs[r],
           UNCHANGED launches
    PROVE  Follows'
  <1>1. Launched' = Launched
    BY DEF Launched
  <1>2. RunsKnown'
    BY <1>1, RunsGoOn DEF SameHome
  <1>3. LaunchesKnown'
    BY LaunchesGoOn
  <1>. QED BY <1>2, <1>3 DEF Follows

LEMMA PlainFollows ==
    ASSUME Shape, Shape', Follows, Kin(terms, terms'),
           UNCHANGED <<runs, launches, topTerm, reopen, opened>>
    PROVE  Follows'
  BY KinPanes, FewerFollow

LEMMA StillFollows ==
    ASSUME Shape, Shape', Follows, UNCHANGED <<runs, launches, screen>>
    PROVE  Follows'
  BY PlainFollows DEF Kin, screen

LEMMA NewRowHomeless ==
    ASSUME NEW a, NEW n, NEW trigger, NEW cause
    PROVE  /\ Homeless(NewRow(a, n, trigger))
           /\ Homeless(Skipped(NewRow(a, n, trigger), cause))
  BY DEF Homeless, NewRow, Skipped

\* The list of runs has grown by a run that was in no pane.
LEMMA GrownFollows ==
    ASSUME Shape, Shape', Follows, UNCHANGED screen,
           NEW rs, Calmer(runs, rs), SamePanes(runs, rs),
           NEW id, NEW row, Grows(rs, runs', id, row), Homeless(row),
           Launched' \subseteq Launched \cup {id},
           \A t \in DOMAIN launches' :
              \/ launches'[t].term = 0
              \/ t \in DOMAIN launches /\ launches'[t] = launches[t]
    PROVE  Follows'
  <1>1. PanesGoOn /\ PanesKnown'
    BY SamePanesKnown DEF screen
  <1>2. ASSUME NEW r \in DOMAIN runs', r # id
        PROVE  /\ r \in DOMAIN runs /\ SameHome(runs[r], runs'[r])
               /\ InProgress(runs'[r]) \/ r \in Launched'
                    => InProgress(runs[r]) \/ r \in Launched
    <2>1. r \in DOMAIN rs /\ runs'[r] = rs[r]
      BY <1>2 DEF Grows
    <2>2. r \in DOMAIN runs /\ Calms(runs[r], rs[r])
          /\ rs[r].term = runs[r].term /\ rs[r].key = runs[r].key
      BY <2>1 DEF Calmer, SamePanes
    <2>. QED BY <1>2, <2>1, <2>2 DEF SameHome, Calms
  <1>3. id \in DOMAIN runs' => Homeless(runs'[id])
    BY DEF Grows
  <1>4. RunsKnown'
    BY <1>1, <1>2, <1>3, RunsGoOn
  <1>5. LaunchesKnown'
    BY <1>1, LaunchesGoOn
  <1>. QED BY <1>1, <1>4, <1>5 DEF Follows

LEMMA BeginsFollows ==
    ASSUME Shape, Shape', Follows, UNCHANGED screen,
           NEW a \in DOMAIN autos, NEW trigger \in Triggers,
           NEW rs, Calmer(runs, rs), SamePanes(runs, rs), Begins(a, trigger, rs)
    PROVE  Follows'
  <1>1. List(autos, Automation) /\ List(rs, Run) /\ List(launches, Launch)
    BY DEF Shape, Logs, List, Total, Calmer, Calms
  <1>2. PICK new : new = WithRun(autos, rs, a, trigger)
    OBVIOUS
  <1>3. PICK n : n = NextNumber(autos, rs, a)
    OBVIOUS
  <1>4. PICK row : row = NewRow(a, n, trigger)
    OBVIOUS
  <1>5. PICK id : id = NextId(rs)
    OBVIOUS
  <1>6. new.id = id /\ Grows(rs, new.runs, id, row)
    BY <1>1, <1>2, <1>3, <1>4, <1>5, RunIsAdded
  <1>7. PICK launch : launch = NewLaunch(id, a, trigger)
    OBVIOUS
  <1>8. runs' = new.runs /\ launches' = With(launches, Thread, launch)
    BY <1>2, <1>6, <1>7 DEF Begins
  <1>9. launch.run = id /\ launch.term = 0
    BY <1>7 DEF NewLaunch
  <1>10. Thread \notin DOMAIN launches
    BY <1>1, ListIds DEF Thread
  <1>11. \A t \in DOMAIN launches' :
            \/ t = Thread /\ launches'[t] = launch
            \/ t \in DOMAIN launches /\ launches'[t] = launches[t]
    BY <1>8, <1>10 DEF With
  <1>12. Launched' \subseteq Launched \cup {id}
    BY <1>9, <1>11 DEF Launched
  <1>13. \A t \in DOMAIN launches' :
            \/ launches'[t].term = 0
            \/ t \in DOMAIN launches /\ launches'[t] = launches[t]
    BY <1>9, <1>11
  <1>14. Grows(rs, runs', id, row) /\ Homeless(row)
    BY <1>4, <1>6, <1>8, NewRowHomeless
  <1>. QED BY <1>12, <1>13, <1>14, GrownFollows

LEMMA SkipsFollows ==
    ASSUME Shape, Shape', Follows, UNCHANGED screen,
           NEW a \in DOMAIN autos, NEW trigger \in Triggers,
           NEW cause \in {"missed", "unavailable"}, Skips(a, trigger, cause)
    PROVE  Follows'
  <1>1. List(autos, Automation) /\ List(runs, Run)
    BY DEF Shape, Logs
  <1>2. PICK n : n = NextNumber(autos, runs, a)
    OBVIOUS
  <1>3. PICK row : row = Skipped(NewRow(a, n, trigger), cause)
    OBVIOUS
  <1>4. PICK new : new = WithSkip(autos, runs, a, trigger, cause)
    OBVIOUS
  <1>5. new.runs = runs \/ Grows(runs, new.runs, NextId(runs), row)
    BY <1>1, <1>2, <1>3, <1>4, SkipIsAdded
  <1>6. runs' = new.runs /\ launches' = launches
    BY <1>4 DEF Skips
  <1>7. ASSUME runs' = runs PROVE Follows'
    BY <1>6, <1>7, StillFollows
  <1>8. ASSUME Grows(runs, runs', NextId(runs), row) PROVE Follows'
    <2>1. Calmer(runs, runs) /\ SamePanes(runs, runs)
      BY <1>1, RunsAsTheyAre DEF Shape, SamePanes
    <2>2. Homeless(row)
      BY <1>3, NewRowHomeless
    <2>3. Launched' \subseteq Launched \cup {NextId(runs)}
      BY <1>6 DEF Launched
    <2>. QED BY <1>6, <1>8, <2>1, <2>2, <2>3, GrownFollows
  <1>. QED BY <1>5, <1>6, <1>7, <1>8

LEMMA LoggedFollows ==
    ASSUME Shape, Shape', Follows, UNCHANGED screen, NEW a \in DOMAIN autos,
           NEW trigger \in {"schedule", "event"}, Logged(a, trigger)
    PROVE  Follows'
  <1>1. trigger \in Triggers
    BY DEF Triggers
  <1>2. Calmer(runs, runs) /\ SamePanes(runs, runs)
    BY RunsAsTheyAre DEF Shape, Logs, SamePanes
  <1>3. ASSUME Begins(a, trigger, runs) PROVE Follows'
    BY <1>1, <1>2, <1>3, BeginsFollows
  <1>4. ASSUME NEW cause \in {"missed", "unavailable"}, Skips(a, trigger, cause)
        PROVE  Follows'
    BY <1>1, <1>4, SkipsFollows
  <1>. QED BY <1>3, <1>4, LoggedIs

LEMMA DeleteFollows ==
    ASSUME Shape, Shape', Follows, NEW a, Delete(a)
    PROVE  Follows'
  <1>1. UNCHANGED screen /\ UNCHANGED launches /\ runs' = Without(runs, RunsOf(runs, a))
    BY DEF Delete, threads
  <1>2. PanesGoOn /\ PanesKnown'
    BY <1>1, SamePanesKnown DEF screen
  <1>3. DOMAIN runs' \subseteq DOMAIN runs /\ \A r \in DOMAIN runs' : runs'[r] = runs[r]
    BY <1>1 DEF Without
  <1>. QED BY <1>1, <1>2, <1>3, FewerFollow

LEMMA CommandsFollow ==
    ASSUME Shape, Shape', Follows, Commands
    PROVE  Follows'
  <1>1. ASSUME NEW form \in Forms, Create(form) PROVE Follows'
    BY <1>1, StillFollows DEF Create, threads
  <1>2. ASSUME NEW a \in DOMAIN autos, NEW form \in Forms, Save(a, form) PROVE Follows'
    BY <1>2, StillFollows DEF Save, threads
  <1>3. ASSUME NEW a \in DOMAIN autos, NEW on \in BOOLEAN, SetEnabled(a, on) PROVE Follows'
    BY <1>3, StillFollows DEF SetEnabled, threads
  <1>4. ASSUME NEW a \in DOMAIN autos, Delete(a) PROVE Follows'
    BY <1>4, DeleteFollows
  <1>5. ASSUME NEW a \in DOMAIN autos, RunNow(a) PROVE Follows'
    <2>1. Calmer(runs, PanelessClosed(a)) /\ SamePanes(runs, PanelessClosed(a))
      BY ClosingCalms DEF Shape
    <2>2. Begins(a, "manual", PanelessClosed(a)) /\ UNCHANGED screen /\ "manual" \in Triggers
      BY <1>5 DEF RunNow, Triggers
    <2>. QED BY <2>1, <2>2, BeginsFollows
  <1>6. ASSUME NEW r \in DOMAIN runs, Cancel(r) PROVE Follows'
    <2>1. Calmer(runs, runs') /\ SamePanes(runs, runs')
      BY <1>6, CancelCalms DEF Shape
    <2>2. UNCHANGED <<launches, terms, topTerm, reopen, opened>>
      BY <1>6 DEF Cancel, threads, screen
    <2>. QED BY <2>1, <2>2, CalmFollows DEF Kin
  <1>. QED BY <1>1, <1>2, <1>3, <1>4, <1>5, <1>6 DEF Commands

LEMMA ClockFollows ==
    ASSUME Shape, Shape', Follows, Clock \/ Time \/ Happenings
    PROVE  Follows'
  <1>1. ASSUME Tick PROVE Follows'
    BY <1>1, StillFollows DEF Tick, saved
  <1>2. ASSUME Beat PROVE Follows'
    <2>1. PICK lost \in SUBSET AllSettling, silent \in SUBSET Stalling : Settles(lost, silent)
      BY <1>2 DEF Beat
    <2>2. Calmer(runs, runs') /\ SamePanes(runs, runs')
      BY <2>1, SettlesCalms DEF Shape
    <2>3. UNCHANGED <<launches, terms, topTerm, reopen, opened>>
      BY <2>1 DEF Settles, screen
    <2>. QED BY <2>2, <2>3, CalmFollows DEF Kin
  <1>3. ASSUME NEW a \in clock.due, ClockStarts(a) PROVE Follows'
    <2>1. /\ UNCHANGED screen
          /\ \/ a \in DOMAIN autos /\ Logged(a, "schedule")
             \/ UNCHANGED <<saved, launches>>
      BY <1>3, ClockStartsDoes
    <2>. QED BY <2>1, LoggedFollows, StillFollows DEF saved
  <1>4. ASSUME NEW a \in DOMAIN autos, TimePasses(a) \/ RestEnds(a) PROVE Follows'
    BY <1>4, StillFollows DEF TimePasses, RestEnds, threads
  <1>5. ASSUME Event PROVE Follows'
    BY <1>5, StillFollows DEF Event
  <1>6. ASSUME NEW a \in events, EventStarts(a) PROVE Follows'
    <2>1. /\ UNCHANGED screen
          /\ \/ a \in DOMAIN autos /\ Logged(a, "event")
             \/ UNCHANGED <<saved, launches>>
      BY <1>6, EventStartsDoes
    <2>. QED BY <2>1, LoggedFollows, StillFollows DEF saved
  <1>. QED BY <1>1, <1>2, <1>3, <1>4, <1>5, <1>6 DEF Clock, Time, Happenings

\* What a launch leaves in its run's row is known and at home.
LEMMA WroteFollows ==
    ASSUME Shape, Shape', Follows, NEW t \in DOMAIN launches, NEW row, Wrote(t, row),
           Writable(t) => /\ row \in Run /\ Knows(row, launches[t].run)
                          /\ AtHome(row)
    PROVE  Follows'
  <1>1. /\ launches' = Without(launches, {t}) /\ UNCHANGED screen
        /\ IF Writable(t) THEN runs' = [runs EXCEPT ![launches[t].run] = row]
           ELSE runs' = runs
    BY DEF Wrote
  <1>2. PanesGoOn /\ PanesKnown'
    BY <1>1, SamePanesKnown DEF screen
  <1>3. DOMAIN launches' \subseteq DOMAIN launches
        /\ \A u \in DOMAIN launches' : launches'[u] = launches[u]
    BY <1>1 DEF Without
  <1>4. LaunchesKnown'
    BY <1>2, <1>3, LaunchesGoOn
  <1>5. Launched' \subseteq Launched
    BY <1>3 DEF Launched
  <1>6. DOMAIN runs' = DOMAIN runs
    BY <1>1
  <1>7. ASSUME NEW r \in DOMAIN runs'
        PROVE  /\ Knows(runs[r], r)'
               /\ InProgress(runs'[r]) \/ r \in Launched' => AtHome(runs[r])'
    <2>1. PICK new : new = runs'[r]
      OBVIOUS
    <2>2. ASSUME Writable(t), r = launches[t].run
          PROVE  Knows(new, r)' /\ AtHome(new)'
      <3>1. new = row
        BY <1>1, <1>7, <2>1, <2>2 DEF Writable
      <3>2. SameHome(row, row) /\ row \in Run /\ Knows(row, r) /\ AtHome(row)
        BY <2>2 DEF SameHome
      <3>3. Knows(row, r)' /\ AtHome(row)'
        BY <1>2, <3>2, HomeGoesOn
      <3>. QED BY <3>1, <3>3
    <2>3. ASSUME ~(Writable(t) /\ r = launches[t].run)
          PROVE  Knows(new, r)' /\ (InProgress(new) \/ r \in Launched' => AtHome(new)')
      <3>1. r \in DOMAIN runs /\ new = runs[r]
        BY <1>1, <1>6, <1>7, <2>1, <2>3
      <3>2. new \in Run /\ SameHome(new, new) /\ Knows(new, r)
            /\ (InProgress(new) \/ r \in Launched => AtHome(new))
        BY <3>1 DEF Shape, Logs, List, Total, SameHome, Follows, RunsKnown
      <3>3. /\ Knows(new, r) => Knows(new, r)'
            /\ AtHome(new) => AtHome(new)'
        BY <1>2, <3>2, HomeGoesOn
      <3>. QED BY <1>5, <3>2, <3>3
    <2>. QED BY <2>1, <2>2, <2>3
  <1>8. RunsKnown'
    BY <1>7 DEF RunsKnown
  <1>. QED BY <1>2, <1>4, <1>8 DEF Follows

LEMMA CheckFailsFollows ==
    ASSUME Shape, Shape', Follows, NEW t \in DOMAIN launches, CheckFails(t)
    PROVE  Follows'
  <1>1. PICK old : old = runs[launches[t].run]
    OBVIOUS
  <1>2. PICK row : row = Skipped(old, "precheck")
    OBVIOUS
  <1>3. Wrote(t, row)
    BY <1>1, <1>2, WritesDoes DEF CheckFails, Shape
  <1>4. ASSUME Writable(t)
        PROVE  row \in Run /\ Knows(row, launches[t].run) /\ AtHome(row)
    <2>1. /\ old \in Run /\ Knows(old, launches[t].run) /\ AtHome(old)
      BY <1>1, <1>4 DEF Writable, Shape, Logs, List, Total, Follows, RunsKnown, Launched
    <2>2. row \in Run /\ SameHome(old, row)
      BY <1>2, <2>1 DEF SameHome, Skipped, Run, Statuses
    <2>. QED BY <2>1, <2>2 DEF SameHome, Knows, AtHome
  <1>. QED BY <1>3, <1>4, WroteFollows

LEMMA RecordFollows ==
    ASSUME Shape, Shape', Follows, NEW t \in DOMAIN launches, Record(t)
    PROVE  Follows'
  <1>1. PICK old : old = runs[launches[t].run]
    OBVIOUS
  <1>2. PICK l : l = launches[t]
    OBVIOUS
  <1>3. PICK row : row = StartOf(old, l)
    OBVIOUS
  <1>4. Wrote(t, row)
    BY <1>1, <1>2, <1>3, WritesDoes DEF Record, Shape
  <1>5. l \in Launch /\ l.outcome \in Outcomes
    BY <1>2 DEF Record, Shape, Logs, Recording, List, Total
  <1>6. ASSUME Writable(t)
        PROVE  row \in Run /\ Knows(row, l.run) /\ AtHome(row)
    <2>1. /\ old \in Run /\ Knows(old, l.run) /\ AtHome(old)
      BY <1>1, <1>2, <1>6
      DEF Writable, Shape, Logs, List, Total, Follows, RunsKnown, Launched
    <2>2. l.term # 0 => Agrees(l.term, l.key) /\ Known(l.key, l.run)
      BY <1>2 DEF Follows, LaunchesKnown
    <2>3. /\ row \in Run /\ row.lastTerm = old.lastTerm /\ row.lastKey = old.lastKey
          /\ row.adrift = old.adrift
          /\ \/ row.term = old.term /\ row.key = old.key
             \/ l.term # 0 /\ row.term = l.term /\ row.key = l.key
      BY <1>3, <1>5, <2>1, StartOfIs
    <2>. QED BY <2>1, <2>2, <2>3 DEF Knows, AtHome
  <1>. QED BY <1>2, <1>4, <1>6, WroteFollows

\* The launches go on: t's may now have a pane, known for its run.
LEMMA MovesFollow ==
    ASSUME Shape, Shape', Follows, NEW t \in DOMAIN launches, NEW l,
           launches' = [launches EXCEPT ![t] = l], l.run = launches[t].run,
           UNCHANGED runs, PanesGoOn, PanesKnown',
           l.term # 0 => \/ l.term = launches[t].term /\ l.key = launches[t].key
                         \/ Agrees(l.term, l.key)' /\ Known(l.key, l.run)'
    PROVE  Follows'
  <1>1. /\ DOMAIN launches' = DOMAIN launches /\ launches'[t] = l
        /\ \A u \in DOMAIN launches \ {t} : launches'[u] = launches[u]
    OBVIOUS
  <1>2. Launched' \subseteq Launched
    BY <1>1 DEF Launched
  <1>3. RunsKnown'
    BY <1>2, RunsGoOn DEF SameHome
  <1>4. ASSUME NEW u \in DOMAIN launches', launches'[u].term # 0
        PROVE  /\ Agrees(launches[u].term, launches[u].key)'
               /\ Known(launches[u].key, launches[u].run)'
    <2>1. PICK m, old : m = launches'[u] /\ old = launches[u]
      OBVIOUS
    <2>2. \/ m.term = old.term /\ m.key = old.key
          \/ Agrees(m.term, m.key)' /\ Known(m.key, m.run)'
      BY <1>1, <1>4, <2>1
    <2>3. ASSUME m.term = old.term, m.key = old.key
          PROVE  Agrees(m.term, m.key)' /\ Known(m.key, m.run)'
      <3>1. Agrees(m.term, m.key) /\ Known(m.key, m.run) /\ m.term \in Nat
        BY <1>1, <1>4, <2>1, <2>3
        DEF Follows, LaunchesKnown, Shape, Logs, List, Total, Launch
      <3>. QED BY <3>1, AgreesGoesOn, KnownGoesOn
    <2>. QED BY <2>1, <2>2, <2>3
  <1>5. LaunchesKnown'
    BY <1>4 DEF LaunchesKnown
  <1>. QED BY <1>3, <1>5 DEF Follows

LEMMA CheckPassesFollows ==
    ASSUME Shape, Shape', Follows, NEW t \in DOMAIN launches, CheckPasses(t)
    PROVE  Follows'
  <1>1. PICK l : l = [launches[t] EXCEPT !.stage = "place"]
    OBVIOUS
  <1>2. launches[t] \in Launch
    BY DEF Shape, Logs, List, Total
  <1>3. l.run = launches[t].run /\ l.term = launches[t].term /\ l.key = launches[t].key
    BY <1>1, <1>2 DEF Launch
  <1>4. /\ launches' = [launches EXCEPT ![t] = l]
        /\ UNCHANGED <<runs, terms, topTerm, reopen, opened>>
    BY <1>1 DEF CheckPasses, saved, screen
  <1>5. PanesGoOn /\ PanesKnown'
    BY <1>4, SamePanesKnown
  <1>. QED BY <1>3, <1>4, <1>5, MovesFollow

\* No pane for this launch, or none yet.
LEMMA PanelessFollows ==
    ASSUME Shape, Shape', Follows, NEW t \in DOMAIN launches, NEW outcome \in Outcomes,
           launches' = Placed(t, outcome, 0, 0),
           UNCHANGED <<runs, terms, topTerm, reopen, opened>>
    PROVE  Follows'
  <1>1. PICK old : old = launches[t]
    OBVIOUS
  <1>2. PICK l : l = PlacedOne(old, outcome, 0, 0)
    OBVIOUS
  <1>3. launches' = [launches EXCEPT ![t] = l]
    BY <1>1, <1>2, PlacedMoves
  <1>4. old \in Launch
    BY <1>1 DEF Shape, Logs, List, Total
  <1>5. l.run = old.run /\ l.term = 0
    BY <1>2, <1>4, PlacedIs
  <1>6. PanesGoOn /\ PanesKnown'
    BY SamePanesKnown
  <1>. QED BY <1>1, <1>3, <1>5, <1>6, MovesFollow

\* A prompt typed into a pane makes the run known there.
LEMMA TypedFollows ==
    ASSUME Shape, Shape', Follows, NEW t \in DOMAIN launches, NEW s \in DOMAIN terms,
           launches' = Placed(t, "dispatched", s, terms[s].key),
           opened' = [opened EXCEPT ![terms[s].key] = @ \cup {launches[t].run}],
           UNCHANGED <<runs, terms, topTerm, reopen>>
    PROVE  Follows'
  <1>1. PICK old : old = launches[t]
    OBVIOUS
  <1>2. PICK key : key = terms[s].key
    OBVIOUS
  <1>3. PICK l : l = PlacedOne(old, "dispatched", s, key)
    OBVIOUS
  <1>4. launches' = [launches EXCEPT ![t] = l]
    BY <1>1, <1>2, <1>3, PlacedMoves
  <1>5. /\ old \in Launch /\ "dispatched" \in Outcomes /\ s \in Nat /\ key \in Nat
        /\ s <= topTerm
    BY <1>1, <1>2, TermIn DEF Shape, Logs, List, Total, Outcomes
  <1>6. l.run = old.run /\ l.term = s /\ l.key = key
    BY <1>3, <1>5, PlacedIs
  <1>7. key \in DOMAIN opened
    BY <1>2 DEF Follows, PanesKnown
  <1>8. /\ DOMAIN opened' = DOMAIN opened /\ opened'[key] = opened[key] \cup {old.run}
        /\ \A k \in DOMAIN opened \ {key} : opened'[k] = opened[k]
    BY <1>1, <1>2, <1>7
  <1>9. \A k \in DOMAIN opened : opened[k] \subseteq opened'[k]
    BY <1>8
  <1>10. PanesGoOn
    BY <1>8, <1>9 DEF PanesGoOn, Shape, Others
  <1>11. PanesKnown'
    BY <1>8, <1>9 DEF Follows, PanesKnown, Known
  <1>12. Agrees(s, key)' /\ Known(key, l.run)'
    BY <1>2, <1>5, <1>6, <1>7, <1>8 DEF Agrees, Known
  <1>. QED BY <1>1, <1>4, <1>6, <1>10, <1>11, <1>12, MovesFollow

LEMMA LaunchingFollows ==
    ASSUME Shape, Shape', Follows, Launching
    PROVE  Follows'
  <1>1. PICK t \in DOMAIN launches :
            CheckFails(t) \/ CheckPasses(t) \/ PlaceFails(t) \/ Place(t) \/ Record(t)
    BY DEF Launching
  <1>2. ASSUME PlaceFails(t) PROVE Follows'
    <2>1. PICK outcome \in {"failed", "skipped"} : launches' = Placed(t, outcome, 0, 0)
      BY <1>2 DEF PlaceFails
    <2>2. outcome \in Outcomes /\ UNCHANGED <<runs, terms, topTerm, reopen, opened>>
      BY <1>2 DEF PlaceFails, Outcomes, saved, screen
    <2>. QED BY <2>1, <2>2, PanelessFollows
  <1>3. ASSUME Place(t) PROVE Follows'
    <2>1. UNCHANGED <<runs, terms, topTerm, reopen>>
      BY <1>3 DEF Place, saved
    <2>2. ASSUME NEW s \in Sessions(launches[t]),
                 launches' = Placed(t, "dispatched", s, terms[s].key),
                 opened' = [opened EXCEPT ![terms[s].key] = @ \cup {launches[t].run}]
          PROVE  Follows'
      <3>1. s \in DOMAIN terms
        BY DEF Sessions
      <3>. QED BY <2>1, <2>2, <3>1, TypedFollows
    <2>3. ASSUME launches' = Placed(t, "dispatched", 0, 0), UNCHANGED opened
          PROVE  Follows'
      <3>1. "dispatched" \in Outcomes
        BY DEF Outcomes
      <3>. QED BY <2>1, <2>3, <3>1, PanelessFollows
    <2>. QED BY <1>3, <2>2, <2>3 DEF Place
  <1>. QED BY <1>1, <1>2, <1>3, CheckFailsFollows, CheckPassesFollows, RecordFollows

-----------------------------------------------------------------------------
(* Followed in its own pane: panes.                                        *)

\* A new pane names a run that it is known for, or none.
LEMMA NewTermKnown ==
    ASSUME Shape, Shape', Follows, NEW key \in Nat, NEW names \in Nat,
           NewTerm(key, names), reopen' \subseteq DOMAIN opened',
           DOMAIN opened \subseteq DOMAIN opened',
           \A k \in DOMAIN opened : opened[k] \subseteq opened'[k],
           key \in DOMAIN opened', names # 0 => names \in opened'[key]
    PROVE  PanesGoOn /\ PanesKnown'
  <1>1. /\ topTerm' = topTerm + 1 /\ topTerm' \notin DOMAIN terms
        /\ DOMAIN terms' = DOMAIN terms \cup {topTerm'}
        /\ terms'[topTerm'].key = key /\ terms'[topTerm'].names = names
        /\ \A t \in DOMAIN terms : terms'[t] = terms[t]
    BY NewTermIs DEF Shape
  <1>2. topTerm \in Nat
    BY DEF Shape, Others
  <1>3. PanesGoOn
    BY <1>1, <1>2 DEF PanesGoOn
  <1>4. ASSUME NEW t \in DOMAIN terms'
        PROVE  /\ terms'[t].key \in DOMAIN opened'
               /\ terms'[t].names # 0 => Known(terms[t].key, terms[t].names)'
    <2>1. CASE t \in DOMAIN terms
      BY <1>1, <2>1 DEF Follows, PanesKnown, Known
    <2>2. CASE t = topTerm'
      BY <1>1, <2>2 DEF Known
    <2>. QED BY <1>1, <2>1, <2>2
  <1>5. PanesKnown'
    BY <1>4 DEF PanesKnown
  <1>. QED BY <1>3, <1>5

LEMMA NewPaneFollows ==
    ASSUME Shape, Shape', Follows, NEW names \in Nat, NEW for \in SUBSET Nat,
           NewPane(names, for), names # 0 => names \in for, UNCHANGED <<runs, launches>>
    PROVE  Follows'
  <1>1. PICK key \in Nat \ {0} :
             /\ key \notin DOMAIN opened /\ NewTerm(key, names)
             /\ DOMAIN opened' = DOMAIN opened \cup {key} /\ opened'[key] = for
             /\ \A k \in DOMAIN opened : opened'[k] = opened[k]
             /\ reopen' = reopen
    BY NewPaneIs DEF Shape
  <1>2. reopen' \subseteq DOMAIN opened'
    BY <1>1 DEF Follows, PanesKnown
  <1>3. PanesGoOn /\ PanesKnown'
    BY <1>1, <1>2, NewTermKnown
  <1>. QED BY <1>3, FewerFollow

LEMMA ReopensFollows ==
    ASSUME Shape, Shape', Follows, NEW key \in reopen, Reopens(key)
    PROVE  Follows'
  <1>1. /\ NewTerm(key, 0) /\ reopen' \subseteq reopen
        /\ UNCHANGED <<runs, launches, opened>>
    BY DEF Reopens, saved, threads
  <1>2. key \in Nat /\ key \in DOMAIN opened /\ reopen \subseteq DOMAIN opened
    BY DEF Shape, Others, Follows, PanesKnown
  <1>3. PanesGoOn /\ PanesKnown'
    BY <1>1, <1>2, NewTermKnown
  <1>. QED BY <1>1, <1>3, FewerFollow

LEMMA ClaimFollows ==
    ASSUME Shape, Shape', Follows, NEW t \in DOMAIN terms, Claim(t)
    PROVE  Follows'
  <1>1. PICK p : p = terms[t]
    OBVIOUS
  <1>2. /\ DOMAIN runs' = DOMAIN runs
        /\ \A r \in DOMAIN runs : InProgress(runs'[r]) => InProgress(runs[r])
        /\ \A r \in DOMAIN runs :
             \/ runs'[r] = runs[r]
             \/ r \in Claimants(p) /\ runs'[r] = Followed(runs[r], t, p.key)
        /\ Kin(terms, terms')
    BY <1>1, ClaimIs DEF Calmer, Calms
  <1>3. UNCHANGED <<launches, topTerm, reopen, opened>>
    BY DEF Claim, threads
  <1>4. PanesGoOn /\ PanesKnown'
    BY <1>2, <1>3, KinPanes
  <1>5. p \in Term /\ p.key \in Nat /\ t \in Nat \ {0} /\ t <= topTerm
    BY <1>1, TermIn DEF Shape
  <1>6. LaunchesKnown' /\ Launched' = Launched
    BY <1>3, <1>4, LaunchesGoOn DEF Launched
  <1>7. ASSUME NEW r \in DOMAIN runs'
        PROVE  /\ Knows(runs[r], r)'
               /\ InProgress(runs'[r]) \/ r \in Launched' => AtHome(runs[r])'
    <2>1. PICK old, new : old = runs[r] /\ new = runs'[r]
      OBVIOUS
    <2>2. old \in Run /\ r \in DOMAIN runs /\ r # 0 /\ Knows(old, r)
          /\ (InProgress(old) \/ r \in Launched => AtHome(old))
      BY <1>2, <2>1 DEF Shape, Logs, List, Total, Follows, RunsKnown
    <2>3. ASSUME new = old
          PROVE  Knows(new, r)' /\ (InProgress(new) \/ r \in Launched' => AtHome(new)')
      <3>1. SameHome(old, new)
        BY <2>3 DEF SameHome
      <3>2. Knows(old, r) => Knows(new, r)'
        BY <1>4, <2>2, <3>1, HomeGoesOn
      <3>3. AtHome(old) => AtHome(new)'
        BY <1>4, <2>2, <3>1, HomeGoesOn
      <3>. QED BY <1>6, <2>2, <2>3, <3>2, <3>3
    <2>4. ASSUME r \in Claimants(p), new = Followed(old, t, p.key)
          PROVE  Knows(new, r)' /\ AtHome(new)'
      <3>1. /\ new.term = t /\ new.key = p.key /\ new.lastTerm = old.lastTerm
            /\ new.lastKey = old.lastKey
        BY <1>5, <2>2, <2>4 DEF Followed, Run
      <3>2. \/ r = p.names
            \/ old.lastTerm # 0 /\ old.lastKey = p.key
        BY <2>1, <2>4 DEF Claimants
      <3>3. p.names # 0 => Known(p.key, p.names)
        BY <1>1 DEF Follows, PanesKnown
      <3>4. Known(p.key, r)
        BY <2>2, <3>2, <3>3 DEF Knows
      <3>5. Known(p.key, r)' /\ (old.lastTerm # 0 => Known(old.lastKey, r)')
        BY <1>4, <2>2, <3>4, KnownGoesOn DEF Knows
      <3>6. Agrees(t, p.key)'
        BY <1>1, <1>2, <1>3, <1>5 DEF Kin, Agrees
      <3>. QED BY <1>5, <3>1, <3>5, <3>6 DEF Knows, AtHome
    <2>. QED BY <1>2, <2>1, <2>2, <2>3, <2>4
  <1>8. RunsKnown'
    BY <1>7 DEF RunsKnown
  <1>. QED BY <1>4, <1>6, <1>8 DEF Follows

LEMMA PaneStepsFollow ==
    ASSUME Shape, Shape', Follows, PaneSteps
    PROVE  Follows'
  <1>1. ASSUME UserOpens PROVE Follows'
    <2>1. 0 \in Nat /\ {} \in SUBSET Nat /\ NewPane(0, {}) /\ UNCHANGED <<runs, launches>>
      BY <1>1 DEF UserOpens, saved, threads
    <2>. QED BY <2>1, NewPaneFollows
  <1>2. ASSUME NEW r \in notices, WindowStarts(r) PROVE Follows'
    <2>1. r \in Nat /\ {r} \in SUBSET Nat /\ NewPane(r, {r}) /\ UNCHANGED <<runs, launches>>
      BY <1>2 DEF WindowStarts, saved, Shape, Others
    <2>. QED BY <2>1, NewPaneFollows
  <1>3. ASSUME NEW t \in DOMAIN terms, Exits(t) PROVE Follows'
    <2>1. Kin(terms, terms')
      BY <1>3, ExitsIs DEF Shape
    <2>. QED BY <1>3, <2>1, PlainFollows DEF Exits, saved, threads
  <1>4. ASSUME NEW t \in DOMAIN terms, PaneEnded(t) PROVE Follows'
    <2>1. Calmer(runs, runs') /\ SamePanes(runs, runs') /\ Kin(terms, terms')
      BY <1>4, PaneEndedIs
    <2>. QED BY <1>4, <2>1, CalmFollows DEF PaneEnded, threads
  <1>5. ASSUME NEW t \in DOMAIN terms,
               NEW said \in {"working", "done", "interrupted", "boundary"}, Reports(t, said)
        PROVE  Follows'
    <2>1. /\ Calmer(runs, runs') /\ SamePanes(runs, runs') /\ Kin(terms, terms')
          /\ UNCHANGED <<launches, topTerm, reopen, opened>>
      BY <1>5, ReportsIs
    <2>. QED BY <2>1, CalmFollows
  <1>. QED BY <1>1, <1>2, <1>3, <1>4, <1>5, ReopensFollows, ClaimFollows DEF PaneSteps

-----------------------------------------------------------------------------
(* Followed in its own pane: restarts.                                     *)

\* A run that a new process follows again: by the number of a terminal that
\* the service kept, and that means what it meant.
LEMMA RevivedFollows ==
    ASSUME Shape, Shape', NEW rs, NEW kept, NEW found, Restarted(rs, kept, found),
           NEW row \in Run, row.settling => row.term = 0,
           NEW r, Knows(row, r), Tracked(row) => AtHome(row),
           NEW new, new = Revived(row, found)
    PROVE  Knows(new, r)' /\ (InProgress(new) => AtHome(new)')
  <1>1. /\ opened' = opened /\ found \subseteq kept /\ kept \subseteq DOMAIN terms
        /\ DOMAIN terms' = kept /\ found \in SUBSET Nat
        /\ \A t \in DOMAIN terms' : terms'[t].key = terms[t].key
    <2>1. opened' = opened /\ found \subseteq kept
      BY DEF Restarted
    <2>2. Others
      BY DEF Shape
    <2>. QED BY <2>1, <2>2, RestartedTerms
  <1>2. /\ InProgress(new) <=> Tracked(row)
        /\ ~Tracked(row) => /\ new.term = row.term /\ new.key = row.key
                            /\ new.lastTerm = row.lastTerm /\ new.lastKey = row.lastKey
        /\ Tracked(row) =>
             /\ new.lastTerm = IF row.term # 0 THEN row.term ELSE row.lastTerm
             /\ new.lastKey = IF row.key # 0 THEN row.key ELSE row.lastKey
             /\ new.adrift = (row.adrift \/ (row.term = 0 /\ row.lastTerm # 0))
             /\ \/ new.term = 0 /\ new.key = 0
                \/ /\ new.term = new.lastTerm /\ new.key = new.lastKey
                   /\ new.term \in found
    BY <1>1, RevivedIs
  <1>3. /\ 0 \notin DOMAIN opened /\ 0 \notin DOMAIN terms
        /\ topTerm' \in Nat /\ \A t \in DOMAIN terms' : t <= topTerm'
    BY TermIn DEF Shape, Others, List, Total
  <1>4. row.key # 0 <=> row.term # 0
    BY <1>3 DEF Knows, Known
  <1>5. CASE ~Tracked(row)
    <2>1. Knows(new, r)'
      BY <1>1, <1>2, <1>5 DEF Knows, Known
    <2>. QED BY <1>2, <1>5, <2>1
  <1>6. CASE Tracked(row)
    <2>1. new.lastTerm # 0 => Known(new.lastKey, r)
      BY <1>2, <1>4, <1>6 DEF Knows
    <2>2. new.term # 0 => Known(new.key, r)
      BY <1>2, <1>6, <2>1
    <2>3. new.term = 0 => new.key = 0
      BY <1>1, <1>2, <1>3, <1>6
    <2>4. Knows(new, r)'
      BY <1>1, <2>1, <2>2, <2>3 DEF Knows, Known
    <2>5. ASSUME ~new.adrift PROVE Agrees(new.term, new.key)'
      <3>1. CASE new.term = 0
        BY <1>1, <1>3, <2>3, <3>1 DEF Agrees
      <3>2. CASE new.term # 0
        <4>1. /\ new.term \in found /\ new.term = row.term /\ new.key = row.key
              /\ ~row.adrift
          BY <1>2, <1>4, <1>6, <2>5, <3>2
        <4>2. row.term \in DOMAIN terms /\ terms[row.term].key = row.key
          BY <1>1, <1>6, <4>1 DEF AtHome, Agrees
        <4>3. row.term \in DOMAIN terms' /\ terms'[row.term].key = row.key
          BY <1>1, <4>1, <4>2
        <4>. QED BY <1>3, <4>1, <4>3 DEF Agrees
      <3>. QED BY <3>1, <3>2
    <2>6. AtHome(new)'
      BY <2>5 DEF AtHome
    <2>. QED BY <2>4, <2>6
  <1>. QED BY <1>5, <1>6

LEMMA RestartFollows ==
    ASSUME Shape, Shape', Follows, NEW as, NEW rs, RestartsWith(as, rs), List(rs, Run),
           \A r \in DOMAIN rs : rs[r].settling => rs[r].term = 0,
           \A r \in DOMAIN rs : Knows(rs[r], r) /\ (Tracked(rs[r]) => AtHome(rs[r]))
    PROVE  Follows'
  <1>1. PICK kept, found : Restarted(rs, kept, found)
    BY RestartDoes
  <1>2. /\ launches' = <<>> /\ opened' = opened
        /\ reopen' = reopen \cup {terms[t].key : t \in Alive \ kept}
    BY <1>1 DEF Restarted
  <1>3. /\ kept \subseteq DOMAIN terms /\ DOMAIN terms' = kept /\ found \in SUBSET Nat
        /\ \A t \in DOMAIN terms' :
             terms'[t].key = terms[t].key /\ terms'[t].names = terms[t].names
    BY <1>1, RestartedTerms DEF Shape
  <1>4. PanesKnown'
    <2>1. reopen' \subseteq DOMAIN opened'
      BY <1>2 DEF Follows, PanesKnown, Alive
    <2>2. ASSUME NEW t \in DOMAIN terms'
          PROVE  /\ terms'[t].key \in DOMAIN opened'
                 /\ terms'[t].names # 0 => Known(terms[t].key, terms[t].names)'
      BY <1>2, <1>3 DEF Follows, PanesKnown, Known
    <2>. QED BY <2>1, <2>2 DEF PanesKnown
  <1>5. Launched' = {}
    BY <1>2 DEF Launched
  <1>6. LaunchesKnown'
    BY <1>2 DEF LaunchesKnown
  <1>7. DOMAIN runs' \subseteq DOMAIN rs /\ \A r \in DOMAIN runs' : runs'[r] = Revived(rs[r], found)
    BY <1>1, <1>3, RestartedRuns
  <1>8. ASSUME NEW r \in DOMAIN runs'
        PROVE  Knows(runs[r], r)' /\ (InProgress(runs'[r]) => AtHome(runs[r])')
    <2>1. PICK row : row = rs[r]
      OBVIOUS
    <2>2. PICK new : new = runs'[r]
      OBVIOUS
    <2>3. r \in DOMAIN rs /\ new = Revived(row, found)
      BY <1>7, <1>8, <2>1, <2>2
    <2>4. row \in Run /\ (row.settling => row.term = 0)
      BY <2>1, <2>3 DEF List, Total
    <2>5. Knows(row, r) /\ (Tracked(row) => AtHome(row))
      BY <2>1, <2>3
    <2>6. Knows(new, r)' /\ (InProgress(new) => AtHome(new)')
      BY <1>1, <2>3, <2>4, <2>5, RevivedFollows
    <2>. QED BY <2>2, <2>6
  <1>9. RunsKnown'
    BY <1>5, <1>8 DEF RunsKnown
  <1>. QED BY <1>4, <1>6, <1>9 DEF Follows

LEMMA EndsFollow ==
    ASSUME Shape, Shape', Follows, Ends
    PROVE  Follows'
  <1>1. List(runs, Run) /\ \A r \in DOMAIN runs : runs[r].settling => runs[r].term = 0
    BY DEF Shape, Logs, Settled
  <1>2. \A r \in DOMAIN runs : Knows(runs[r], r) /\ (Tracked(runs[r]) => AtHome(runs[r]))
    BY DEF Follows, RunsKnown, InProgress, Tracked
  <1>3. ASSUME Restart PROVE Follows'
    <2>1. RestartsWith(autos, runs)
      BY <1>3 DEF Restart
    <2>. QED BY <1>1, <1>2, <2>1, RestartFollows
  <1>4. ASSUME NEW a \in DOMAIN autos, CutDelete(a) PROVE Follows'
    <2>1. RestartsWith(Deleted(a), runs)
      BY <1>4 DEF CutDelete
    <2>. QED BY <1>1, <1>2, <2>1, RestartFollows
  <1>5. ASSUME NEW a \in DOMAIN autos, NEW trigger \in Triggers, NEW old,
               CutWith(a, trigger, old)
        PROVE  Follows'
    <2>1. PICK new : new = WithRun(autos, old, a, trigger)
      OBVIOUS
    <2>2. PICK row : row = NewRow(a, NextNumber(autos, old, a), trigger)
      OBVIOUS
    <2>3. /\ List(new.runs, Run) /\ Grows(old, new.runs, new.id, row)
          /\ \A r \in DOMAIN new.runs : new.runs[r].settling => new.runs[r].term = 0
      BY <1>5, <2>1, <2>2, CutRuns DEF CutWith
    <2>4. RestartsWith(autos, new.runs) /\ Calmer(runs, old) /\ SamePanes(runs, old)
      BY <1>5, <2>1 DEF CutWith, CutBetween
    <2>5. PICK more : more = new.runs
      OBVIOUS
    <2>6. ASSUME NEW r \in DOMAIN more
          PROVE  Knows(more[r], r) /\ (Tracked(more[r]) => AtHome(more[r]))
      <3>1. CASE r = new.id
        <4>1. more[r] = row /\ Homeless(row)
          BY <2>2, <2>3, <2>5, <3>1, NewRowHomeless DEF Grows
        <4>. QED BY <4>1, HomelessIs
      <3>2. CASE r # new.id
        <4>1. r \in DOMAIN runs /\ more[r] = old[r] /\ Calms(runs[r], old[r])
          BY <2>3, <2>4, <2>5, <3>2 DEF Grows, Calmer
        <4>2. /\ old[r].term = runs[r].term /\ old[r].key = runs[r].key
              /\ old[r].lastTerm = runs[r].lastTerm /\ old[r].lastKey = runs[r].lastKey
              /\ old[r].adrift = runs[r].adrift
          BY <2>4, <4>1 DEF SamePanes, Calms
        <4>3. Tracked(old[r]) => InProgress(runs[r])
          BY <4>1 DEF Calms, InProgress, Tracked
        <4>4. PICK was : was = runs[r]
          OBVIOUS
        <4>5. PICK now : now = more[r]
          OBVIOUS
        <4>6. Knows(was, r) /\ (InProgress(was) => AtHome(was))
          BY <4>1, <4>4 DEF Follows, RunsKnown
        <4>7. /\ now.term = was.term /\ now.key = was.key
              /\ now.lastTerm = was.lastTerm /\ now.lastKey = was.lastKey
              /\ now.adrift = was.adrift /\ (Tracked(now) => InProgress(was))
          BY <4>1, <4>2, <4>3, <4>4, <4>5
        <4>8. Knows(now, r) /\ (Tracked(now) => AtHome(now))
          BY <4>6, <4>7 DEF Knows, AtHome
        <4>. QED BY <4>5, <4>8
      <3>. QED BY <3>1, <3>2
    <2>. QED BY <2>3, <2>4, <2>5, <2>6, RestartFollows
  <1>6. Logs
    BY DEF Shape
  <1>. QED BY <1>3, <1>4, <1>5, <1>6, EndsAre

LEMMA InitFollows == AInit => Follows
  BY DEF AInit, Follows, PanesKnown, RunsKnown, LaunchesKnown

LEMMA NextFollows ==
    ASSUME Shape, Shape', Follows, [Next]_vars
    PROVE  Follows'
  <1>1. ASSUME UNCHANGED vars PROVE Follows'
    BY <1>1, StillFollows DEF vars, saved, threads
  <1>. QED BY <1>1, CommandsFollow, LaunchingFollows, ClockFollows, PaneStepsFollow,
              EndsFollow DEF Next

\* A run in progress is followed only in a pane that was started for it or that
\* its prompt was typed into, however the user's panes, reopened panes, late
\* claims, reuse of sessions and restarts with and without the service's
\* terminals interleave; only a run that still settled when the next restart
\* came is left out.
THEOREM RunsAreFollowedAtHome == ASpec => []FollowsItsPane
  <1>1. AInit => Follows
    BY InitFollows
  <1>2. Follows /\ Shape /\ Shape' /\ [Next]_vars => Follows'
    BY NextFollows
  <1>3. Follows /\ Shape => FollowsItsPane
    BY FollowsMeans
  <1>. QED BY <1>1, <1>2, <1>3, ShapeHolds, PTL DEF ASpec
=============================================================================
