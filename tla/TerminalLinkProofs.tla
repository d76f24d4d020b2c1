------------------------- MODULE TerminalLinkProofs -------------------------
(***************************************************************************)
(* The link to the terminal service, for any panes, terminals and output.  *)
(*                                                                         *)
(* Manage Sessions: between its two looks the window can only get a        *)
(* terminal it started itself, and such a terminal has this window's mark, *)
(* which the second look leaves out.                                       *)
(*                                                                         *)
(* The order of a terminal's events: each event is at one of six places on *)
(* its way from the service to the handlers, each place before the ones    *)
(* behind it, and a terminal gets handlers once in a window.               *)
(*                                                                         *)
(* Saved output: it is in order, and what adopt or a handler adds comes    *)
(* after all of it.  It goes on where it stopped unless a cap dropped      *)
(* output, the tail lost it, a repeat hid it, or nothing said where it     *)
(* stopped.                                                                *)
(***************************************************************************)
EXTENDS TerminalLink, FiniteSetTheorems, SequenceTheorems, WellFoundedInduction, TLAPS

Term == [pane: Panes, mark: Nat, stage: Stages, count: Nat]

LinkTypes ==
    /\ terms \in Seq(Term) /\ window \in Nat /\ spent \in Nat
    /\ opener \in {None} \cup DOMAIN terms /\ held \subseteq DOMAIN terms
    /\ cleaner \in [stage: {"no", "owned", "listed"}, owned: SUBSET DOMAIN terms,
                    of: {None} \cup DOMAIN terms]

\* A pane waits for a terminal of this window.
StartsItsOwn == opener # None => phase # "off" /\ terms[opener].mark = window

\* Manage Sessions runs once the window is linked: it adopts no more.
CleansLinked == cleaner.stage # "no" => phase \in {"linked", "quitting"}

\* What the window got since the first look it started itself.
OwnedSince ==
    cleaner.stage = "owned" =>
        \A t \in held : t \in cleaner.owned \/ terms[t].mark = window

\* What is ended is not the window's, and is not started by it.
ListedIsFree ==
    cleaner.stage = "listed" =>
        cleaner.of \in DOMAIN terms /\ cleaner.of \notin held /\ terms[cleaner.of].mark # window

CleanerInv == LinkTypes /\ StartsItsOwn /\ CleansLinked /\ OwnedSince /\ ListedIsFree

-----------------------------------------------------------------------------
\* What steps do to the terminals: no terminal goes, and none changes its mark.
Grows ==
    /\ terms' \in Seq(Term) /\ DOMAIN terms \subseteq DOMAIN terms'
    /\ \A t \in DOMAIN terms : terms'[t].mark = terms[t].mark

LEMMA OneChanges ==
    ASSUME LinkTypes, NEW t \in DOMAIN terms, NEW x \in Term, x.mark = terms[t].mark,
           terms' = [terms EXCEPT ![t] = x]
    PROVE  Grows
  <1>1. terms \in Seq(Term)
    BY DEF LinkTypes
  <1>. QED BY <1>1 DEF Grows

LEMMA PutGrows ==
    ASSUME LinkTypes, NEW t \in DOMAIN terms, NEW stage \in Stages, Put(t, stage) PROVE Grows
  <1>. DEFINE x == [terms[t] EXCEPT !.stage = stage]
  <1>1. terms[t] \in Term
    BY DEF LinkTypes
  <1>2. x \in Term /\ x.mark = terms[t].mark
    BY <1>1 DEF Term
  <1>3. terms' = [terms EXCEPT ![t] = x]
    BY DEF Put
  <1>. HIDE DEF x
  <1>. QED BY <1>2, <1>3, OneChanges

LEMMA KilledGrows == ASSUME LinkTypes, NEW t \in DOMAIN terms, Killed(t) PROVE Grows
  <1>. DEFINE stage == IF up /\ terms[t].stage = "kept" THEN "killed" ELSE terms[t].stage
  <1>1. stage \in Stages
    <2>1. terms[t] \in Term
      BY DEF LinkTypes
    <2>. QED BY <2>1 DEF Term, Stages
  <1>2. Put(t, stage)
    BY DEF Killed, Put
  <1>. HIDE DEF stage
  <1>. QED BY <1>1, <1>2, PutGrows

LEMMA PumpsGrows == ASSUME LinkTypes, NEW t \in DOMAIN terms, Pumps(t) PROVE Grows
  <1>. DEFINE x == [terms[t] EXCEPT !.count = @ + 1]
  <1>1. terms[t] \in Term
    BY DEF LinkTypes
  <1>2. x \in Term /\ x.mark = terms[t].mark
    BY <1>1 DEF Term
  <1>3. terms' = [terms EXCEPT ![t] = x]
    BY DEF Pumps
  <1>. HIDE DEF x
  <1>. QED BY <1>2, <1>3, OneChanges

LEMMA EndGrows == ASSUME LinkTypes, ServiceEnds PROVE Grows
  <1>. DEFINE Ended(x) == [x EXCEPT !.stage = IF @ \in {"kept", "killed", "over"}
                                              THEN "over" ELSE "failed"]
  <1>0. terms \in Seq(Term)
    BY DEF LinkTypes
  <1>1. terms' = [t \in DOMAIN terms |-> Ended(terms[t])]
    BY DEF ServiceEnds
  <1>2. \A x \in Term : Ended(x) \in Term /\ Ended(x).mark = x.mark
    BY DEF Term, Stages
  <1>. HIDE DEF Ended
  <1>3. DOMAIN terms = 1..Len(terms) /\ Len(terms) \in Nat
    BY <1>0
  <1>4. \A t \in 1..Len(terms) : Ended(terms[t]) \in Term
    BY <1>0, <1>2, <1>3
  <1>5. terms' \in Seq(Term)
    BY <1>1, <1>3, <1>4
  <1>. QED BY <1>0, <1>1, <1>2, <1>5 DEF Grows

LEMMA OpensGrows == ASSUME LinkTypes, NEW p \in Panes, Opens(p) PROVE Grows
  <1>. DEFINE x == [pane |-> p, mark |-> window, stage |-> IF up THEN "asked" ELSE "failed",
                    count |-> 0]
  <1>1. x \in Term
    BY DEF LinkTypes, Term, Stages
  <1>2. terms' = Append(terms, x) /\ terms \in Seq(Term)
    BY DEF Opens, LinkTypes
  <1>. HIDE DEF x
  <1>. QED BY <1>1, <1>2 DEF Grows

LEMMA TermsGrow == ASSUME CleanerInv, [LNext]_vars PROVE Grows
  <1>0. LinkTypes
    BY DEF CleanerInv
  <1>1. CASE UNCHANGED terms
    BY <1>0, <1>1 DEF LinkTypes, Grows
  <1>2. ASSUME NEW t \in DOMAIN terms, Starts(t) \/ Stored(t) \/ Exits(t) PROVE Grows
    <2>1. \E stage \in Stages : Put(t, stage)
      BY <1>2 DEF Starts, Stored, Exits, Stages
    <2>. QED BY <1>0, <2>1, PutGrows
  <1>3. ASSUME NEW t \in DOMAIN terms, Pumps(t) \/ Kills(t) PROVE Grows
    BY <1>0, <1>3, PumpsGrows, KilledGrows DEF Kills
  <1>4. CASE ServiceEnds \/ \E p \in Panes : Opens(p)
    BY <1>0, <1>4, EndGrows, OpensGrows
  <1>5. CASE EndsUnowned
    BY <1>0, <1>5, KilledGrows DEF EndsUnowned, CleanerInv, ListedIsFree
  <1>6. ASSUME NEW t \in DOMAIN terms,
               \/ Adopts(t) \/ Hands(t) \/ Flushes(t) \/ Runs(t) \/ Closes(t) \/ LooksAtList(t)
        PROVE  UNCHANGED terms
    BY <1>6 DEF Adopts, Hands, Flushes, Runs, Closes, LooksAtList, service
  <1>7. CASE \/ Connects \/ TakesSeen \/ AdoptsNoMore \/ Linked \/ Reads \/ ReadsTheEnd
             \/ Answered \/ GivesUp \/ LooksAtOwn \/ Detaches \/ LetsGo \/ Crashes
             \/ UNCHANGED vars
    BY <1>1, <1>7 DEF Connects, TakesSeen, AdoptsNoMore, Linked, Reads, ReadsTheEnd, Answered,
       GivesUp, LooksAtOwn, Detaches, LetsGo, Crashes, Gone, service, vars
  <1>. QED BY <1>1, <1>2, <1>3, <1>4, <1>5, <1>6, <1>7 DEF LNext

-----------------------------------------------------------------------------
LEMMA InitCleaner == LInit => CleanerInv
  <1> SUFFICES ASSUME LInit PROVE CleanerInv
    OBVIOUS
  <1>1. terms \in Seq(Term) /\ DOMAIN terms = {} /\ held = {} /\ opener = None
    BY DEF LInit
  <1>2. cleaner.stage = "no" /\ cleaner.owned = {} /\ cleaner.of = None
    BY DEF LInit, NoLook
  <1>3. cleaner \in [stage: {"no", "owned", "listed"}, owned: SUBSET DOMAIN terms,
                     of: {None} \cup DOMAIN terms]
    BY DEF LInit, NoLook
  <1>. QED BY <1>1, <1>2, <1>3 DEF LInit, CleanerInv, LinkTypes, StartsItsOwn, CleansLinked,
              OwnedSince, ListedIsFree

\* Steps that leave Manage Sessions, the start and the panes of the window
\* alone, but for sessions that go.
Aside ==
    /\ window' = window /\ opener' = opener /\ cleaner' = cleaner
    /\ held' \subseteq held /\ spent' \in Nat
    /\ phase' = phase \/ (phase = "linked" /\ phase' = "quitting")
       \/ (cleaner.stage = "no" /\ phase' # "off")

LEMMA AsideKeeps == ASSUME CleanerInv, Grows, Aside PROVE CleanerInv'
  <1>1. LinkTypes'
    BY DEF CleanerInv, LinkTypes, Aside, Grows
  <1>2. StartsItsOwn'
    BY DEF CleanerInv, LinkTypes, StartsItsOwn, Aside, Grows
  <1>3. CleansLinked'
    BY DEF CleanerInv, CleansLinked, Aside
  <1>4. OwnedSince' /\ ListedIsFree'
    BY DEF CleanerInv, LinkTypes, OwnedSince, ListedIsFree, Aside, Grows
  <1>. QED BY <1>1, <1>2, <1>3, <1>4 DEF CleanerInv

LEMMA GoneKeeps == ASSUME CleanerInv, Grows, Gone PROVE CleanerInv'
  <1>1. /\ cleaner'.stage = "no" /\ held' = {} /\ opener' = None /\ window' = window
        /\ spent' = spent
    BY DEF Gone, NoLook
  <1>2. cleaner' \in [stage: {"no", "owned", "listed"}, owned: SUBSET DOMAIN terms',
                      of: {None} \cup DOMAIN terms']
    BY DEF Gone, NoLook
  <1>. QED BY <1>1, <1>2 DEF CleanerInv, LinkTypes, Grows, StartsItsOwn, CleansLinked, OwnedSince,
              ListedIsFree

\* A window comes up: nothing waits and nothing is being ended.
LEMMA ConnectsKeeps == ASSUME CleanerInv, Grows, Connects PROVE CleanerInv'
  <1>1. phase = "off" /\ window' = window + 1 /\ UNCHANGED <<terms, opener, held, cleaner>>
    BY DEF Connects, registry
  <1>2. opener = None /\ cleaner.stage = "no"
    BY <1>1 DEF CleanerInv, StartsItsOwn, CleansLinked
  <1>3. spent' \in Nat
    BY DEF Connects, Spend, CleanerInv, LinkTypes
  <1>. QED BY <1>1, <1>2, <1>3 DEF CleanerInv, LinkTypes, Grows, StartsItsOwn, CleansLinked,
              OwnedSince, ListedIsFree

\* While a window adopts, Manage Sessions does not run.
LEMMA AdoptsKeeps ==
    ASSUME CleanerInv, Grows, NEW t \in DOMAIN terms, Adopts(t) PROVE CleanerInv'
  <1>1. /\ phase = "adopting" /\ held' = held \cup {t}
        /\ UNCHANGED <<terms, phase, window, opener, cleaner, spent>>
    BY DEF Adopts, service
  <1>2. cleaner.stage = "no"
    BY <1>1 DEF CleanerInv, CleansLinked
  <1>. QED BY <1>1, <1>2 DEF CleanerInv, LinkTypes, Grows, StartsItsOwn, CleansLinked, OwnedSince,
              ListedIsFree

\* A pane gets a terminal with the mark of its window.
LEMMA PaneKeeps ==
    ASSUME CleanerInv, Grows, Answered \/ GivesUp \/ \E p \in Panes : Opens(p)
    PROVE  CleanerInv'
  <1>0. terms \in Seq(Term) /\ spent \in Nat /\ window \in Nat
    BY DEF CleanerInv, LinkTypes
  <1>1. CASE Answered
    <2>1. /\ held' = held \cup {opener} /\ opener' = None /\ opener \in DOMAIN terms
          /\ UNCHANGED <<terms, phase, window, cleaner, spent>>
      BY <1>1 DEF Answered, At, service, windowVars
    <2>2. opener # None /\ terms[opener].mark = window
      BY <1>0, <2>1 DEF CleanerInv, StartsItsOwn, None
    <2>. QED BY <2>1, <2>2 DEF CleanerInv, LinkTypes, Grows, StartsItsOwn, CleansLinked, OwnedSince,
                ListedIsFree
  <1>2. CASE GivesUp
    <2>1. opener' = None /\ UNCHANGED <<terms, phase, window, cleaner, spent, held>>
      BY <1>2 DEF GivesUp, service, windowVars
    <2>. QED BY <2>1 DEF CleanerInv, LinkTypes, Grows, StartsItsOwn, CleansLinked, OwnedSince,
                ListedIsFree
  <1>3. ASSUME NEW p \in Panes, Opens(p) PROVE CleanerInv'
    <2>. DEFINE x == [pane |-> p, mark |-> window, stage |-> IF up THEN "asked" ELSE "failed",
                      count |-> 0]
    <2>1. /\ terms' = Append(terms, x) /\ opener' = Len(terms) + 1 /\ phase = "linked"
          /\ UNCHANGED <<phase, window, cleaner, held>>
      BY <1>3 DEF Opens, windowVars
    <2>2. x.mark = window /\ spent' \in Nat
      BY <1>0, <1>3 DEF Opens, Spend
    <2>. HIDE DEF x
    <2>3. /\ Len(terms) + 1 \in DOMAIN terms' /\ terms'[Len(terms) + 1] = x
          /\ Len(terms) + 1 # None
      BY <1>0, <2>1 DEF None
    <2>. QED BY <2>1, <2>2, <2>3 DEF CleanerInv, LinkTypes, Grows, StartsItsOwn, CleansLinked,
                OwnedSince, ListedIsFree
  <1>. QED BY <1>1, <1>2, <1>3

\* The two looks and the kill.
LEMMA LooksKeep ==
    ASSUME CleanerInv, Grows,
           LooksAtOwn \/ EndsUnowned \/ \E t \in DOMAIN terms : LooksAtList(t)
    PROVE  CleanerInv'
  <1>0. /\ cleaner \in [stage: {"no", "owned", "listed"}, owned: SUBSET DOMAIN terms,
                         of: {None} \cup DOMAIN terms]
        /\ held \subseteq DOMAIN terms /\ spent \in Nat /\ window \in Nat
    BY DEF CleanerInv, LinkTypes
  <1>1. CASE LooksAtOwn
    <2>1. /\ phase = "linked" /\ UNCHANGED <<terms, phase, window, opener, held>>
          /\ cleaner' = [stage |-> "owned", owned |-> held, of |-> None]
      BY <1>1 DEF LooksAtOwn, service, windowVars, registry
    <2>2. spent' \in Nat
      BY <1>0, <1>1 DEF LooksAtOwn, Spend
    <2>. QED BY <1>0, <2>1, <2>2 DEF CleanerInv, LinkTypes, Grows, StartsItsOwn, CleansLinked,
                OwnedSince, ListedIsFree
  <1>2. ASSUME NEW t \in DOMAIN terms, LooksAtList(t) PROVE CleanerInv'
    <2>1. /\ cleaner.stage = "owned" /\ t \notin cleaner.owned /\ terms[t].mark # window
          /\ cleaner' = [cleaner EXCEPT !.stage = "listed", !.of = t]
          /\ UNCHANGED <<terms, phase, window, opener, held, spent>>
      BY <1>2 DEF LooksAtList, Unowned, service, windowVars, registry
    <2>2. cleaner'.stage = "listed" /\ cleaner'.of = t /\ cleaner'.owned = cleaner.owned
      BY <1>0, <2>1
    <2>3. t \notin held
      BY <2>1 DEF CleanerInv, OwnedSince
    <2>. QED BY <1>0, <2>1, <2>2, <2>3 DEF CleanerInv, LinkTypes, Grows, StartsItsOwn, CleansLinked,
                OwnedSince, ListedIsFree
  <1>3. CASE EndsUnowned
    <2>1. cleaner'.stage = "no" /\ UNCHANGED <<phase, window, opener, held, spent>>
      BY <1>3 DEF EndsUnowned, NoLook, windowVars, registry
    <2>2. cleaner' \in [stage: {"no", "owned", "listed"}, owned: SUBSET DOMAIN terms',
                        of: {None} \cup DOMAIN terms']
      BY <1>3 DEF EndsUnowned, NoLook
    <2>. QED BY <2>1, <2>2 DEF CleanerInv, LinkTypes, Grows, StartsItsOwn, CleansLinked, OwnedSince,
                ListedIsFree
  <1>. QED BY <1>1, <1>2, <1>3

LEMMA OthersAside ==
    ASSUME CleanerInv,
           \/ \E t \in DOMAIN terms :
                \/ Starts(t) \/ Stored(t) \/ Pumps(t) \/ Exits(t) \/ Hands(t) \/ Flushes(t)
                \/ Runs(t) \/ Closes(t) \/ Kills(t)
           \/ ServiceEnds \/ TakesSeen \/ AdoptsNoMore \/ Linked \/ Reads \/ ReadsTheEnd
           \/ Detaches \/ UNCHANGED vars
    PROVE  Aside
  <1>0. spent \in Nat /\ (phase \notin {"linked", "quitting"} => cleaner.stage = "no")
    BY DEF CleanerInv, LinkTypes, CleansLinked
  <1>1. ASSUME NEW t \in DOMAIN terms,
               Starts(t) \/ Stored(t) \/ Pumps(t) \/ Exits(t) \/ Hands(t) \/ Flushes(t) \/ Kills(t)
        PROVE  Aside
    BY <1>0, <1>1 DEF Aside, Starts, Stored, Pumps, Exits, Hands, Flushes, Kills, windowVars, registry
  <1>2. ASSUME NEW t \in DOMAIN terms, Runs(t) PROVE Aside
    BY <1>0, <1>2 DEF Aside, Runs, Booked, Drops, windowVars
  <1>3. ASSUME NEW t \in DOMAIN terms, Closes(t) PROVE Aside
    BY <1>0, <1>3 DEF Aside, Closes, Drops, Spend
  <1>4. CASE ServiceEnds
    BY <1>0, <1>4 DEF Aside, ServiceEnds, Spend, windowVars, registry
  <1>5. CASE TakesSeen \/ AdoptsNoMore \/ Linked \/ Detaches
    BY <1>0, <1>5 DEF Aside, TakesSeen, AdoptsNoMore, Linked, Detaches, registry
  <1>6. CASE Reads \/ ReadsTheEnd \/ UNCHANGED vars
    BY <1>0, <1>6 DEF Aside, Reads, ReadsTheEnd, vars, windowVars, registry
  <1>. QED BY <1>1, <1>2, <1>3, <1>4, <1>5, <1>6

\* The inductive invariant of Manage Sessions.
THEOREM CleanerHolds == LSpec => []CleanerInv
  <1>1. LInit => CleanerInv
    BY InitCleaner
  <1>2. CleanerInv /\ [LNext]_vars => CleanerInv'
    <2> SUFFICES ASSUME CleanerInv, [LNext]_vars PROVE CleanerInv'
      OBVIOUS
    <2>1. Grows
      BY TermsGrow
    <2>2. CASE Connects \/ \E t \in DOMAIN terms : Adopts(t)
      BY <2>1, <2>2, ConnectsKeeps, AdoptsKeeps
    <2>3. CASE Answered \/ GivesUp \/ \E p \in Panes : Opens(p)
      BY <2>1, <2>3, PaneKeeps
    <2>4. CASE LooksAtOwn \/ EndsUnowned \/ \E t \in DOMAIN terms : LooksAtList(t)
      BY <2>1, <2>4, LooksKeep
    <2>5. CASE LetsGo \/ Crashes
      BY <2>1, <2>5, GoneKeeps DEF LetsGo, Crashes
    <2>6. CASE \/ \E t \in DOMAIN terms :
                  \/ Starts(t) \/ Stored(t) \/ Pumps(t) \/ Exits(t) \/ Hands(t) \/ Flushes(t)
                  \/ Runs(t) \/ Closes(t) \/ Kills(t)
               \/ ServiceEnds \/ TakesSeen \/ AdoptsNoMore \/ Linked \/ Reads \/ ReadsTheEnd
               \/ Detaches \/ UNCHANGED vars
      BY <2>1, <2>6, OthersAside, AsideKeeps
    <2>. QED BY <2>2, <2>3, <2>4, <2>5, <2>6 DEF LNext
  <1>. QED BY <1>1, <1>2, PTL DEF LSpec

\* VIEW-099, after-list 726: Manage Sessions never ends a terminal that a pane
\* of this window has, or that a pane is just starting.
THEOREM PanesAreLeftAlone == LSpec => []EndsNoOnesPane
  <1>1. CleanerInv => EndsNoOnesPane
    <2> SUFFICES ASSUME CleanerInv, cleaner.stage = "listed"
                 PROVE  cleaner.of \notin held \cup {opener}
      BY DEF EndsNoOnesPane
    <2>1. cleaner.of \in DOMAIN terms /\ cleaner.of \notin held /\ terms[cleaner.of].mark # window
      BY DEF CleanerInv, ListedIsFree
    <2>2. cleaner.of # None
      BY <2>1 DEF CleanerInv, LinkTypes, None
    <2>. QED BY <2>1, <2>2 DEF CleanerInv, StartsItsOwn
  <1>. QED BY <1>1, CleanerHolds, PTL

-----------------------------------------------------------------------------
(* The events of a terminal, from the service to the handlers.             *)

\* What may come after an event of a terminal: later output, and the end.
Follows(e, f) == f = Exit \/ (e # Exit /\ e < f)
Before(A, B) == \A e \in A, f \in B : Follows(e, f)
InLine(s) == \A i, j \in DOMAIN s : i < j => Follows(s[i], s[j])

\* The events of t that the reader has in its hands, and those on the wire.
HandOf(t) == {e \in Events : <<t, e>> \in found}
WireOf(t) == {wire[i][2] : i \in {j \in DOMAIN wire : wire[j][1] = t}}
WireLine(t) ==
    \A i, j \in DOMAIN wire :
        i < j /\ wire[i][1] = t /\ wire[j][1] = t => Follows(wire[i][2], wire[j][2])

\* Six sets of events, each before the ones after it.
Ordered(A, B, C, D, E, F) ==
    /\ Before(A, B) /\ Before(A, C) /\ Before(A, D) /\ Before(A, E) /\ Before(A, F)
    /\ Before(B, C) /\ Before(B, D) /\ Before(B, E) /\ Before(B, F)
    /\ Before(C, D) /\ Before(C, E) /\ Before(C, F)
    /\ Before(D, E) /\ Before(D, F)
    /\ Before(E, F)

\* From the handlers back to the service: what was handed on, what runs, what is
\* held for the handlers, in the reader's hands, held for want of handlers, and
\* on the wire.
Line(t) ==
    Ordered(Range(handed[t]), Range(handlers[t].todo), Range(handlers[t].backlog),
            HandOf(t), Range(early[t]), WireOf(t))
Lines(t) ==
    /\ InLine(handlers[t].todo) /\ InLine(handlers[t].backlog) /\ InLine(early[t])
    /\ WireLine(t)
    /\ \A e, f \in HandOf(t) : e = f

\* The service sent it: the end of a terminal that is over, or output it counted.
Ended == {"short", "over", "failed"}
Sent(t, e) ==
    /\ t \in DOMAIN terms /\ e \in Events
    /\ e = Exit => terms[t].stage \in Ended
    /\ e <= terms[t].count
AllSent(t) ==
    \A e \in Range(handed[t]) \cup Range(handlers[t].todo) \cup Range(handlers[t].backlog)
                \cup HandOf(t) \cup Range(early[t]) \cup WireOf(t) : Sent(t, e)

HandedLine(t) ==
    \A i, j \in DOMAIN handed[t] :
        i < j => /\ handed[t][i] # Exit
                 /\ handed[t][j] = Exit \/ handed[t][i] < handed[t][j]

\* Once the end was handed on the handlers say so, until nothing is left.
Idle(t) ==
    /\ ~handlers[t].listed /\ handlers[t].todo = <<>> /\ handlers[t].backlog = <<>>
    /\ HandOf(t) = {}
EndsOnce(t) ==
    /\ handlers[t].over => Exit \in Range(handed[t])
    /\ Exit \in Range(handed[t]) => handlers[t].over \/ Idle(t)
Runner(t) ==
    /\ handlers[t].by = "no" => handlers[t].todo = <<>>
    /\ handlers[t].listed => early[t] = <<>>

\* A terminal gets handlers once in the life of a window.
Fresh(t) ==
    /\ ~handlers[t].listed /\ handlers[t].todo = <<>> /\ handlers[t].backlog = <<>>
    /\ handlers[t].by = "no" /\ ~handlers[t].over
    /\ handed[t] = <<>> /\ HandOf(t) = {}
ToCome == DOMAIN rows \cup {opener} \cup (Terms \ DOMAIN terms)

LineOf(t) ==
    /\ Line(t) /\ Lines(t) /\ AllSent(t) /\ HandedLine(t) /\ EndsOnce(t) /\ Runner(t)
    /\ t \in ToCome => Fresh(t)

Handler == [listed: BOOLEAN, backlog: Seq(Events), todo: Seq(Events),
            by: {"no", "reader", "flush"}, over: BOOLEAN]

PipeTypes ==
    /\ Len(terms) <= MaxTerms /\ \A t \in DOMAIN terms : terms[t].count <= MaxOutput
    /\ up \in BOOLEAN /\ closed \in BOOLEAN /\ phase \in Phases
    /\ wire \in Seq(({None} \cup Terms) \X Events)
    /\ handlers \in [Terms -> Handler] /\ early \in [Terms -> Seq(Events)]
    /\ found \subseteq Terms \X Events /\ handed \in [Terms -> Seq(Events)]
    /\ DOMAIN rows \subseteq DOMAIN terms

\* When the service is gone so are its terminals; that it is gone is the last
\* thing an attached window hears of it; and no window has nothing.
Gathered ==
    /\ ~up => \A t \in DOMAIN terms : terms[t].stage \in {"over", "failed"}
    /\ \A i \in DOMAIN wire : wire[i][1] = None => i = Len(wire) /\ ~up
    /\ closed => ~up /\ wire = <<>>
    /\ rows # Nothing => phase \in {"attached", "adopting"}
    /\ opener # None => phase \in {"linked", "quitting"}
    /\ phase = "off" => /\ wire = <<>> /\ found = {} /\ ~closed
                        /\ \A t \in Terms : Fresh(t) /\ early[t] = <<>>

LineInv == PipeTypes /\ Gathered /\ \A t \in Terms : LineOf(t)

-----------------------------------------------------------------------------
(* Sequences of events.                                                    *)

LEMMA AppendLine ==
    ASSUME NEW s \in Seq(Events), NEW e \in Events, InLine(s), Before(Range(s), {e})
    PROVE  /\ Append(s, e) \in Seq(Events) /\ InLine(Append(s, e))
           /\ Range(Append(s, e)) = Range(s) \cup {e}
           /\ Append(s, e) # <<>>
  <1>1. /\ Append(s, e) \in Seq(Events) /\ Len(Append(s, e)) = Len(s) + 1
        /\ \A i \in 1..Len(s) : Append(s, e)[i] = s[i]
        /\ Append(s, e)[Len(s) + 1] = e
    OBVIOUS
  <1>2. DOMAIN s = 1..Len(s) /\ DOMAIN Append(s, e) = 1..Len(s) + 1 /\ Len(s) \in Nat
    BY <1>1
  <1>. DEFINE r == Append(s, e)
  <1>. HIDE DEF r
  <1>3. InLine(r)
    BY <1>1, <1>2 DEF InLine, Before, Range, r
  <1>4. Range(r) = Range(s) \cup {e}
    BY <1>1, <1>2 DEF Range, r
  <1>5. r # <<>>
    <2>1. Len(r) # 0
      BY <1>1, <1>2 DEF r
    <2>. QED BY <2>1
  <1>. QED BY <1>1, <1>3, <1>4, <1>5 DEF r

LEMMA TailLine ==
    ASSUME NEW s \in Seq(Events), s # <<>>
    PROVE  /\ Tail(s) \in Seq(Events) /\ Range(Tail(s)) \subseteq Range(s)
           /\ Head(s) \in Range(s) /\ Head(s) \in Events
           /\ InLine(s) => InLine(Tail(s)) /\ Before({Head(s)}, Range(Tail(s)))
           /\ Len(s) = 1 => Tail(s) = <<>>
  <1>1. /\ Tail(s) \in Seq(Events) /\ Len(Tail(s)) = Len(s) - 1 /\ Len(s) \in Nat \ {0}
        /\ \A i \in 1..Len(s) - 1 : Tail(s)[i] = s[i + 1]
        /\ Head(s) = s[1]
    OBVIOUS
  <1>2. DOMAIN s = 1..Len(s) /\ DOMAIN Tail(s) = 1..Len(s) - 1
    BY <1>1
  <1>. DEFINE r == Tail(s)
  <1>. HIDE DEF r
  <1>3. Len(s) = 1 => r = <<>>
    <2>1. r \in Seq(Events) /\ (Len(s) = 1 => Len(r) = 0)
      BY <1>1 DEF r
    <2>. QED BY <2>1
  <1>4. Range(r) \subseteq Range(s) /\ Head(s) \in Range(s) /\ Head(s) \in Events
    BY <1>1, <1>2 DEF Range, r
  <1>5. InLine(s) => InLine(r) /\ Before({Head(s)}, Range(r))
    BY <1>1, <1>2 DEF InLine, Before, Range, r
  <1>. QED BY <1>1, <1>3, <1>4, <1>5 DEF r

LEMMA EmptyLine == InLine(<<>>) /\ Range(<<>>) = {} /\ <<>> \in Seq(Events)
  BY DEF InLine, Range

LEMMA EventsAreNaturals == \A e \in Events : e \in Nat
  BY BoundsAreNaturals DEF Events, Exit, Chunks

-----------------------------------------------------------------------------
(* Terminals grow older: they count up, and what is over stays over.       *)

Older ==
    /\ DOMAIN terms \subseteq DOMAIN terms' /\ Len(terms') <= MaxTerms
    /\ \A t \in DOMAIN terms' : terms'[t].count <= MaxOutput
    /\ \A t \in DOMAIN terms : /\ terms'[t].count >= terms[t].count
                               /\ terms[t].stage \in Ended => terms'[t].stage \in Ended

LEMMA TermsTyped ==
    ASSUME terms \in Seq(Term)
    PROVE  \A t \in DOMAIN terms : terms[t] \in Term /\ terms[t].count \in Nat
  <1>1. \A t \in DOMAIN terms : terms[t] \in Term
    OBVIOUS
  <1>. QED BY <1>1 DEF Term

LEMMA OneOlder ==
    ASSUME LinkTypes, PipeTypes, NEW t \in DOMAIN terms, NEW x \in Term,
           x.count >= terms[t].count, x.count <= MaxOutput,
           terms[t].stage \in Ended => x.stage \in Ended,
           terms' = [terms EXCEPT ![t] = x]
    PROVE  Older
  <1>1. terms \in Seq(Term)
    BY DEF LinkTypes
  <1>2. /\ DOMAIN terms' = DOMAIN terms /\ Len(terms') = Len(terms)
        /\ \A u \in DOMAIN terms : terms'[u] = IF u = t THEN x ELSE terms[u]
    BY <1>1
  <1>3. \A u \in DOMAIN terms : terms[u] \in Term /\ terms[u].count \in Nat
    BY <1>1, TermsTyped
  <1>. QED BY <1>2, <1>3 DEF Older, PipeTypes

LEMMA PutOlder ==
    ASSUME LinkTypes, PipeTypes, NEW t \in DOMAIN terms, NEW stage \in Stages,
           terms[t].stage \in Ended => stage \in Ended, Put(t, stage)
    PROVE  Older
  <1>. DEFINE x == [terms[t] EXCEPT !.stage = stage]
  <1>1. terms[t] \in Term
    BY DEF LinkTypes
  <1>2. x \in Term /\ x.count = terms[t].count /\ x.stage = stage /\ x.count \in Nat
    BY <1>1 DEF Term
  <1>3. terms' = [terms EXCEPT ![t] = x]
    BY DEF Put
  <1>4. terms[t].count <= MaxOutput
    BY DEF PipeTypes
  <1>. HIDE DEF x
  <1>5. /\ x.count >= terms[t].count /\ x.count <= MaxOutput
        /\ terms[t].stage \in Ended => x.stage \in Ended
    BY <1>2, <1>4
  <1>. QED BY <1>2, <1>3, <1>5, OneOlder

LEMMA KilledOlder ==
    ASSUME LinkTypes, PipeTypes, NEW t \in DOMAIN terms, Killed(t) PROVE Older
  <1>. DEFINE stage == IF up /\ terms[t].stage = "kept" THEN "killed" ELSE terms[t].stage
  <1>1. stage \in Stages /\ (terms[t].stage \in Ended => stage \in Ended)
    <2>1. terms[t] \in Term
      BY DEF LinkTypes
    <2>. QED BY <2>1 DEF Term, Stages, Ended
  <1>2. Put(t, stage)
    BY DEF Killed, Put
  <1>. HIDE DEF stage
  <1>. QED BY <1>1, <1>2, PutOlder

LEMMA PumpsOlder ==
    ASSUME LinkTypes, PipeTypes, NEW t \in DOMAIN terms, Pumps(t)
    PROVE  /\ Older
           /\ terms'[t].count = terms[t].count + 1 /\ terms[t].count + 1 \in Events
           /\ terms[t].stage \notin Ended /\ terms[t].stage \notin {"over", "failed"}
  <1>. DEFINE x == [terms[t] EXCEPT !.count = @ + 1]
  <1>0. terms \in Seq(Term)
    BY DEF LinkTypes
  <1>1. terms[t] \in Term
    BY <1>0
  <1>2. /\ x \in Term /\ x.count = terms[t].count + 1 /\ x.stage = terms[t].stage
        /\ terms[t].count \in Nat
    BY <1>1 DEF Term
  <1>3. terms' = [terms EXCEPT ![t] = x]
    BY DEF Pumps
  <1>4. /\ terms[t].count < MaxOutput /\ terms[t].stage \notin Ended
        /\ terms[t].stage \notin {"over", "failed"}
    BY DEF Pumps, At, Ended
  <1>5. MaxOutput \in Nat
    BY BoundsAreNaturals
  <1>. HIDE DEF x
  <1>6. Older
    <2>1. /\ x.count >= terms[t].count /\ x.count <= MaxOutput
          /\ terms[t].stage \in Ended => x.stage \in Ended
      BY <1>2, <1>4, <1>5
    <2>. QED BY <1>2, <1>3, <2>1, OneOlder
  <1>7. terms'[t] = x
    BY <1>0, <1>3
  <1>8. terms[t].count + 1 \in Events
    BY <1>2, <1>4, <1>5 DEF Events, Chunks
  <1>. QED BY <1>2, <1>4, <1>6, <1>7, <1>8

LEMMA EndOlder == ASSUME LinkTypes, PipeTypes, ServiceEnds
                  PROVE  Older /\ \A t \in DOMAIN terms' : terms'[t].stage \in {"over", "failed"}
  <1>. DEFINE Over(x) == [x EXCEPT !.stage = IF @ \in {"kept", "killed", "over"}
                                             THEN "over" ELSE "failed"]
  <1>0. terms \in Seq(Term)
    BY DEF LinkTypes
  <1>1. terms' = [t \in DOMAIN terms |-> Over(terms[t])]
    BY DEF ServiceEnds
  <1>2. \A x \in Term : /\ Over(x).count = x.count /\ x.count \in Nat
                        /\ Over(x).stage \in {"over", "failed"}
    BY DEF Term, Stages
  <1>3. DOMAIN terms = 1..Len(terms) /\ Len(terms) \in Nat
    BY <1>0
  <1>. HIDE DEF Over
  <1>4. DOMAIN terms' = DOMAIN terms /\ \A t \in DOMAIN terms : terms'[t] = Over(terms[t])
    BY <1>1
  <1>5. Len(terms') = Len(terms)
    BY <1>1, <1>3
  <1>6. \A t \in DOMAIN terms : terms[t] \in Term
    BY <1>0
  <1>. QED BY <1>2, <1>4, <1>5, <1>6 DEF Older, PipeTypes, Ended

LEMMA OpensOlder ==
    ASSUME LinkTypes, PipeTypes, NEW p \in Panes, Opens(p)
    PROVE  /\ Older /\ opener' = Len(terms) + 1 /\ opener' \notin DOMAIN terms
           /\ opener' \in Terms /\ DOMAIN terms' = DOMAIN terms \cup {opener'}
           /\ terms'[opener'].stage \in {"asked", "failed"}
           /\ ~up => terms'[opener'].stage = "failed"
           /\ \A t \in DOMAIN terms : terms'[t] = terms[t]
  <1>. DEFINE x == [pane |-> p, mark |-> window, stage |-> IF up THEN "asked" ELSE "failed",
                    count |-> 0]
  <1>1. /\ terms' = Append(terms, x) /\ terms \in Seq(Term) /\ opener' = Len(terms) + 1
        /\ Len(terms) < MaxTerms
    BY DEF Opens, LinkTypes
  <1>2. x.count = 0 /\ x.stage = (IF up THEN "asked" ELSE "failed") /\ MaxOutput \in Nat
        /\ MaxTerms \in Nat
    BY BoundsAreNaturals
  <1>. HIDE DEF x
  <1>3. /\ Len(terms) \in Nat /\ DOMAIN terms = 1..Len(terms) /\ Len(terms') = Len(terms) + 1
        /\ DOMAIN terms' = 1..Len(terms) + 1
        /\ \A t \in DOMAIN terms : terms'[t] = terms[t]
        /\ terms'[Len(terms) + 1] = x
    BY <1>1
  <1>4. \A t \in DOMAIN terms : terms[t] \in Term /\ terms[t].count \in Nat
    BY <1>1, TermsTyped
  <1>5. Older
    BY <1>1, <1>2, <1>3, <1>4 DEF Older, PipeTypes
  <1>6. opener' \notin DOMAIN terms /\ opener' \in Terms
    BY <1>1, <1>2, <1>3 DEF Terms
  <1>7. DOMAIN terms' = DOMAIN terms \cup {opener'}
    BY <1>1, <1>3
  <1>. QED BY <1>1, <1>2, <1>3, <1>5, <1>6, <1>7

\* Steps that leave the terminals alone.
LEMMA SameOlder == ASSUME LinkTypes, PipeTypes, UNCHANGED terms PROVE Older
  <1>1. \A t \in DOMAIN terms : terms[t].count \in Nat
    BY TermsTyped DEF LinkTypes
  <1>. QED BY <1>1 DEF PipeTypes, Older

-----------------------------------------------------------------------------
(* How the events of a terminal move on.                                   *)

LEMMA OrderedFewer ==
    ASSUME NEW A, NEW B, NEW C, NEW D, NEW E, NEW F, Ordered(A, B, C, D, E, F),
           NEW A2 \in SUBSET A, NEW B2 \in SUBSET B, NEW C2 \in SUBSET C,
           NEW D2 \in SUBSET D, NEW E2 \in SUBSET E, NEW F2 \in SUBSET F
    PROVE  Ordered(A2, B2, C2, D2, E2, F2)
  BY DEF Ordered, Before

LEMMA OrderedSent ==
    ASSUME NEW A, NEW B, NEW C, NEW D, NEW E, NEW F, Ordered(A, B, C, D, E, F), NEW e,
           Before(A \cup B \cup C \cup D \cup E \cup F, {e})
    PROVE  Ordered(A, B, C, D, E, F \cup {e})
  BY DEF Ordered, Before

LEMMA OrderedTaken ==
    ASSUME NEW A, NEW B, NEW C, NEW F, Ordered(A, B, C, {}, {}, F), NEW e \in F,
           NEW F2 \in SUBSET F, Before({e}, F2)
    PROVE  Ordered(A, B, C, {e}, {}, F2)
  BY DEF Ordered, Before

LEMMA OrderedHeld ==
    ASSUME NEW A, NEW B, NEW C, NEW D, NEW E, NEW F, Ordered(A, B, C, D, E, F), NEW e \in F,
           NEW E2 \in SUBSET (E \cup {e}), NEW F2 \in SUBSET F, Before({e}, F2)
    PROVE  Ordered(A, B, C, D, E2, F2)
  BY DEF Ordered, Before

LEMMA OrderedClosed ==
    ASSUME NEW A, NEW B, NEW C, NEW D, NEW E, NEW F, Ordered(A, B, C, D, E, F)
    PROVE  Ordered(A, B, C, {Exit}, {}, {})
  BY DEF Ordered, Before, Follows

LEMMA OrderedHanded ==
    ASSUME NEW A, NEW C, NEW D, NEW E, NEW F, Ordered(A, {}, C, D, E, F), NEW e \in D
    PROVE  Ordered(A, C \cup {e}, {}, {}, E, F)
  BY DEF Ordered, Before

LEMMA OrderedFlushed ==
    ASSUME NEW A, NEW C, NEW D, NEW E, NEW F, Ordered(A, {}, C, D, E, F)
    PROVE  Ordered(A, C, {}, D, E, F)
  BY DEF Ordered, Before

LEMMA OrderedRun ==
    ASSUME NEW A, NEW B, NEW C, NEW D, NEW E, NEW F, Ordered(A, B, C, D, E, F), NEW e \in B,
           NEW A2 \in SUBSET (A \cup {e}), NEW B2 \in SUBSET B, Before({e}, B2),
           NEW C2 \in SUBSET C
    PROVE  Ordered(A2, B2, C2, D, E, F)
  BY DEF Ordered, Before

LEMMA OrderedListed ==
    ASSUME NEW E, NEW F, Ordered({}, {}, {}, {}, E, F),
           NEW C \in SUBSET (E \cup {Exit}), C \subseteq E \/ F = {}
    PROVE  Ordered({}, {}, C, {}, {}, F)
  BY DEF Ordered, Before

-----------------------------------------------------------------------------
(* What a step does to the events of a terminal it is not about.           *)

LEMMA SentStays ==
    ASSUME LinkTypes, LinkTypes', Older, NEW t, NEW e, Sent(t, e) PROVE Sent(t, e)'
  <1>1. t \in DOMAIN terms /\ t \in DOMAIN terms'
    BY DEF Sent, Older
  <1>2. terms[t].count \in Nat /\ terms'[t].count \in Nat
    <2>1. terms[t].count \in Nat
      BY <1>1, TermsTyped DEF LinkTypes
    <2>2. terms'[t] \in Term
      BY <1>1 DEF LinkTypes
    <2>3. terms'[t].count \in Nat
      BY <2>2 DEF Term
    <2>. QED BY <2>1, <2>3
  <1>. QED BY <1>1, <1>2, EventsAreNaturals DEF Sent, Older

Quiet(t) ==
    /\ handed'[t] = handed[t] /\ handlers'[t] = handlers[t] /\ early'[t] = early[t]
    /\ HandOf(t)' = HandOf(t)
    /\ WireOf(t)' \subseteq WireOf(t) /\ WireLine(t)'
    /\ t \in ToCome' => Fresh(t)

LEMMA QuietKeeps ==
    ASSUME LinkTypes, LinkTypes', Older, NEW t \in Terms, LineOf(t), Quiet(t)
    PROVE  LineOf(t)'
  <1>1. Line(t)'
    BY OrderedFewer DEF Quiet, LineOf, Line
  <1>2. Lines(t)'
    BY DEF Quiet, LineOf, Lines
  <1>3. AllSent(t)'
    BY SentStays DEF Quiet, LineOf, AllSent
  <1>4. HandedLine(t)' /\ EndsOnce(t)' /\ Runner(t)'
    BY DEF Quiet, LineOf, HandedLine, EndsOnce, Runner, Idle
  <1>5. t \in ToCome' => Fresh(t)'
    BY DEF Quiet, Fresh
  <1>. QED BY <1>1, <1>2, <1>3, <1>4, <1>5 DEF LineOf

WireEvent == ({None} \cup Terms) \X Events

LEMMA SameWire ==
    ASSUME UNCHANGED wire
    PROVE  \A t : WireOf(t)' = WireOf(t) /\ (WireLine(t) => WireLine(t)')
  BY DEF WireOf, WireLine

LEMMA NoWire ==
    ASSUME wire' = <<>>
    PROVE  \A t : WireOf(t)' = {} /\ WireLine(t)'
  BY DEF WireOf, WireLine

LEMMA WireIsRead ==
    ASSUME wire \in Seq(WireEvent), wire # <<>>, wire' = Tail(wire),
           NEW t, NEW e, Head(wire) = <<t, e>>
    PROVE  /\ \A u : WireOf(u)' \subseteq WireOf(u) /\ (WireLine(u) => WireLine(u)')
           /\ e \in WireOf(t) /\ (WireLine(t) => Before({e}, WireOf(t)'))
           /\ wire' \in Seq(WireEvent) /\ <<t, e>> \in WireEvent
           /\ \A i \in DOMAIN wire' : i + 1 \in DOMAIN wire /\ wire'[i] = wire[i + 1]
           /\ Len(wire) = Len(wire') + 1
  <1>1. /\ Len(wire') = Len(wire) - 1 /\ Len(wire) \in Nat \ {0}
        /\ \A i \in 1..Len(wire) - 1 : wire'[i] = wire[i + 1]
        /\ wire[1] = <<t, e>> /\ <<t, e>> \in WireEvent /\ wire' \in Seq(WireEvent)
    <2>1. /\ Len(wire') = Len(wire) - 1 /\ Len(wire) \in Nat \ {0}
          /\ \A i \in 1..Len(wire) - 1 : wire'[i] = wire[i + 1]
      OBVIOUS
    <2>2. wire[1] = <<t, e>>
      OBVIOUS
    <2>3. wire[1] \in WireEvent /\ wire' \in Seq(WireEvent)
      BY <2>1
    <2>. QED BY <2>1, <2>2, <2>3
  <1>2. DOMAIN wire = 1..Len(wire) /\ DOMAIN wire' = 1..Len(wire) - 1
    BY <1>1
  <1>3. \A i \in DOMAIN wire' : i + 1 \in DOMAIN wire /\ wire'[i] = wire[i + 1]
    BY <1>1, <1>2
  <1>4. ASSUME NEW u PROVE WireOf(u)' \subseteq WireOf(u) /\ (WireLine(u) => WireLine(u)')
    <2>1. WireOf(u)' \subseteq WireOf(u)
      BY <1>3 DEF WireOf
    <2>2. ASSUME WireLine(u) PROVE WireLine(u)'
      BY <1>1, <1>2, <1>3, <2>2 DEF WireLine
    <2>. QED BY <2>1, <2>2
  <1>5. 1 \in DOMAIN wire /\ wire[1][1] = t /\ wire[1][2] = e
    BY <1>1, <1>2
  <1>6. e \in WireOf(t)
    BY <1>5 DEF WireOf
  <1>7. ASSUME WireLine(t) PROVE Before({e}, WireOf(t)')
    <2>1. ASSUME NEW i \in DOMAIN wire', wire'[i][1] = t PROVE Follows(e, wire'[i][2])
      <3>1. i + 1 \in DOMAIN wire /\ 1 < i + 1 /\ wire[i + 1][1] = t /\ wire'[i] = wire[i + 1]
        BY <1>1, <1>2, <1>3, <2>1
      <3>. QED BY <1>5, <1>7, <3>1 DEF WireLine
    <2>. QED BY <2>1 DEF Before, WireOf
  <1>. QED BY <1>1, <1>3, <1>4, <1>6, <1>7

LEMMA WireIsSent ==
    ASSUME wire \in Seq(WireEvent), NEW t \in Terms, NEW e \in Events,
           wire' = Append(wire, <<t, e>>)
    PROVE  /\ \A u : u # t => WireOf(u)' = WireOf(u) /\ (WireLine(u) => WireLine(u)')
           /\ WireOf(t)' = WireOf(t) \cup {e}
           /\ WireLine(t) /\ Before(WireOf(t), {e}) => WireLine(t)'
           /\ wire' \in Seq(WireEvent)
           /\ \A i \in DOMAIN wire' : wire'[i][1] = None => i \in DOMAIN wire /\ wire[i][1] = None
  <1>0. <<t, e>> \in WireEvent /\ t # None
    BY BoundsAreNaturals DEF WireEvent, None, Terms
  <1>1. /\ Len(wire') = Len(wire) + 1 /\ Len(wire) \in Nat
        /\ \A i \in 1..Len(wire) : wire'[i] = wire[i]
        /\ wire'[Len(wire) + 1] = <<t, e>> /\ wire' \in Seq(WireEvent)
    BY <1>0
  <1>2. DOMAIN wire = 1..Len(wire) /\ DOMAIN wire' = 1..Len(wire) + 1
    BY <1>1
  <1>3. \A i \in DOMAIN wire' : IF i \in DOMAIN wire THEN wire'[i] = wire[i]
                                ELSE i = Len(wire) + 1 /\ wire'[i][1] = t /\ wire'[i][2] = e
    BY <1>1, <1>2
  <1>4. DOMAIN wire \subseteq DOMAIN wire' /\ Len(wire) + 1 \in DOMAIN wire' \ DOMAIN wire
    BY <1>1, <1>2
  <1>5. ASSUME NEW u, u # t PROVE WireOf(u)' = WireOf(u) /\ (WireLine(u) => WireLine(u)')
    <2>1. WireOf(u)' = WireOf(u)
      BY <1>3, <1>4, <1>5 DEF WireOf
    <2>2. WireLine(u) => WireLine(u)'
      BY <1>3, <1>4, <1>5 DEF WireLine
    <2>. QED BY <2>1, <2>2
  <1>6. WireOf(t)' = WireOf(t) \cup {e}
    BY <1>3, <1>4 DEF WireOf
  <1>7. ASSUME WireLine(t), Before(WireOf(t), {e}) PROVE WireLine(t)'
    <2>1. \A i \in DOMAIN wire : wire[i][1] = t => Follows(wire[i][2], e)
      BY <1>7 DEF Before, WireOf
    <2>2. ASSUME NEW i \in DOMAIN wire', NEW j \in DOMAIN wire', i < j,
                 wire'[i][1] = t, wire'[j][1] = t
          PROVE  Follows(wire'[i][2], wire'[j][2])
      <3>1. i \in DOMAIN wire
        BY <1>1, <1>2, <2>2
      <3>. QED BY <1>3, <1>7, <2>1, <2>2, <3>1 DEF WireLine
    <2>. QED BY <2>2 DEF WireLine
  <1>. QED BY <1>0, <1>1, <1>3, <1>5, <1>6, <1>7

\* The service ends: some of what was on the wire, and then the mark.
LEMMA WireIsCut ==
    ASSUME wire \in Seq(WireEvent), NEW n \in 0..Len(wire),
           wire' = Append(SubSeq(wire, 1, n), <<None, Exit>>)
    PROVE  /\ \A t \in Terms : WireOf(t)' \subseteq WireOf(t) /\ (WireLine(t) => WireLine(t)')
           /\ wire' \in Seq(WireEvent)
           /\ \A i \in DOMAIN wire' : i = Len(wire') \/ (i \in DOMAIN wire /\ wire'[i] = wire[i])
  <1>. DEFINE s == SubSeq(wire, 1, n)
  <1>1. /\ s \in Seq(WireEvent) /\ Len(s) = n /\ n \in Nat /\ n <= Len(wire)
        /\ \A i \in 1..n : s[i] = wire[i]
        /\ DOMAIN wire = 1..Len(wire) /\ Len(wire) \in Nat
    OBVIOUS
  <1>2. <<None, Exit>> \in WireEvent
    BY DEF WireEvent, Events
  <1>3. wire' = Append(s, <<None, Exit>>)
    OBVIOUS
  <1>. HIDE DEF s
  <1>4. /\ wire' \in Seq(WireEvent) /\ DOMAIN wire' = 1..n + 1 /\ Len(wire') = n + 1
        /\ \A i \in 1..n : wire'[i] = wire[i]
        /\ wire'[n + 1] = <<None, Exit>>
    BY <1>1, <1>2, <1>3
  <1>5. \A t \in Terms : t # None
    BY BoundsAreNaturals DEF None, Terms
  <1>6. \A i \in DOMAIN wire' : (i = n + 1 /\ wire'[i][1] = None)
                                \/ (i \in DOMAIN wire /\ wire'[i] = wire[i])
    BY <1>1, <1>4
  <1>7. ASSUME NEW t \in Terms
        PROVE  WireOf(t)' \subseteq WireOf(t) /\ (WireLine(t) => WireLine(t)')
    <2>1. WireOf(t)' \subseteq WireOf(t)
      BY <1>5, <1>6 DEF WireOf
    <2>2. WireLine(t) => WireLine(t)'
      BY <1>5, <1>6 DEF WireLine
    <2>. QED BY <2>1, <2>2
  <1>. QED BY <1>4, <1>6, <1>7

-----------------------------------------------------------------------------
(* Steps that leave the events alone.                                      *)

Beside ==
    /\ UNCHANGED <<up, wire, handlers, early, closed, found, handed, rows>>
    /\ phase' \in Phases
    /\ ~up => \A t \in DOMAIN terms' : terms'[t].stage \in {"over", "failed"}
    /\ rows # Nothing => phase' \in {"attached", "adopting"}
    /\ opener' # None => phase' \in {"linked", "quitting"}
    /\ phase' = "off" => phase = "off"
    /\ opener' \in {None, opener} \cup (Terms \ DOMAIN terms)

LEMMA BesideKeeps ==
    ASSUME CleanerInv, CleanerInv', LineInv, Older, Beside PROVE LineInv'
  <1>0. LinkTypes /\ LinkTypes' /\ PipeTypes /\ Gathered
    BY DEF CleanerInv, LineInv
  <1>1. PipeTypes'
    BY <1>0 DEF PipeTypes, Beside, Older
  <1>2. \A t \in Terms : HandOf(t)' = HandOf(t) /\ (Fresh(t) => Fresh(t)')
    BY DEF HandOf, Fresh, Beside
  <1>3. Gathered'
    BY <1>0, <1>2 DEF Gathered, Beside
  <1>4. ASSUME NEW t \in Terms PROVE LineOf(t)'
    <2>1. LineOf(t)
      BY DEF LineInv
    <2>2. WireOf(t)' = WireOf(t) /\ WireLine(t)'
      BY <2>1, SameWire DEF Beside, LineOf, Lines
    <2>3. t # None
      BY BoundsAreNaturals DEF None, Terms
    <2>4. t \in ToCome' => t \in ToCome
      BY <2>3 DEF ToCome, Beside, Older
    <2>5. Quiet(t)
      BY <1>2, <2>1, <2>2, <2>4 DEF Quiet, Beside, LineOf
    <2>. QED BY <1>0, <2>1, <2>5, QuietKeeps
  <1>. QED BY <1>1, <1>3, <1>4 DEF LineInv

LEMMA PutOver ==
    ASSUME LinkTypes, NEW t \in DOMAIN terms, NEW stage \in {"over", "failed"}, Put(t, stage),
           \A u \in DOMAIN terms : terms[u].stage \in {"over", "failed"}
    PROVE  \A u \in DOMAIN terms' : terms'[u].stage \in {"over", "failed"}
  <1>. DEFINE x == [terms[t] EXCEPT !.stage = stage]
  <1>1. terms[t] \in Term /\ terms \in Seq(Term)
    BY DEF LinkTypes
  <1>2. x.stage = stage
    <2>1. terms[t] \in Term
      BY <1>1
    <2>. QED BY <2>1 DEF Term
  <1>3. terms' = [terms EXCEPT ![t] = x]
    BY DEF Put
  <1>. HIDE DEF x
  <1>. QED BY <1>1, <1>2, <1>3

LEMMA KilledBeside ==
    ASSUME CleanerInv, LineInv, NEW t \in DOMAIN terms, Killed(t)
    PROVE  ~up => \A u \in DOMAIN terms' : terms'[u].stage \in {"over", "failed"}
  <1>. SUFFICES ASSUME ~up PROVE \A u \in DOMAIN terms' : terms'[u].stage \in {"over", "failed"}
    OBVIOUS
  <1>1. LinkTypes /\ \A u \in DOMAIN terms : terms[u].stage \in {"over", "failed"}
    BY DEF CleanerInv, LineInv, Gathered
  <1>2. Put(t, terms[t].stage)
    BY DEF Killed, Put
  <1>. QED BY <1>1, <1>2, PutOver

LEMMA StartsKeeps ==
    ASSUME CleanerInv, CleanerInv', LineInv, NEW t \in DOMAIN terms, Starts(t) \/ Stored(t)
    PROVE  LineInv'
  <1>0. LinkTypes /\ PipeTypes
    BY DEF CleanerInv, LineInv
  <1>1. PICK stage \in {"starting", "failed", "kept", "over"} :
            /\ Put(t, stage)
            /\ terms[t].stage \in Ended => stage \in Ended
    BY DEF Starts, Stored, At, Ended
  <1>2. Older
    BY <1>0, <1>1, PutOlder DEF Stages
  <1>3. up /\ UNCHANGED <<up, wire, handlers, early, closed, found, handed, rows, phase, opener>>
    BY DEF Starts, Stored, windowVars, link, registry, history
  <1>4. Beside
    BY <1>3 DEF LineInv, PipeTypes, Gathered, Beside
  <1>. QED BY <1>2, <1>4, BesideKeeps

LEMMA KillKeeps ==
    ASSUME CleanerInv, CleanerInv', LineInv, EndsUnowned \/ \E t \in DOMAIN terms : Kills(t)
    PROVE  LineInv'
  <1>0. LinkTypes /\ PipeTypes
    BY DEF CleanerInv, LineInv
  <1>1. PICK t \in DOMAIN terms : Killed(t)
    BY DEF EndsUnowned, Kills, CleanerInv, ListedIsFree
  <1>2. Older
    BY <1>0, <1>1, KilledOlder
  <1>3. UNCHANGED <<up, wire, handlers, early, closed, found, handed, rows, phase, opener>>
    BY DEF EndsUnowned, Kills, windowVars, link, registry, history
  <1>4. Beside
    BY <1>1, <1>3, KilledBeside DEF LineInv, PipeTypes, Gathered, Beside
  <1>. QED BY <1>2, <1>4, BesideKeeps

LEMMA OpensKeeps ==
    ASSUME CleanerInv, CleanerInv', LineInv, NEW p \in Panes, Opens(p) PROVE LineInv'
  <1>0. LinkTypes /\ PipeTypes /\ Gathered
    BY DEF CleanerInv, LineInv
  <1>1. /\ Older /\ opener' \in Terms \ DOMAIN terms
        /\ DOMAIN terms' = DOMAIN terms \cup {opener'}
        /\ ~up => terms'[opener'].stage = "failed"
        /\ \A t \in DOMAIN terms : terms'[t] = terms[t]
    BY <1>0, OpensOlder
  <1>2. /\ phase = "linked" /\ phase' = phase
        /\ UNCHANGED <<up, wire, handlers, early, closed, found, handed, rows>>
    BY DEF Opens, windowVars, link, history
  <1>3. Beside
    BY <1>0, <1>1, <1>2 DEF PipeTypes, Gathered, Beside
  <1>. QED BY <1>1, <1>3, BesideKeeps

LEMMA LooksAside ==
    ASSUME NEW t \in DOMAIN terms, LooksAtList(t)
    PROVE  UNCHANGED <<service, saved, seenFile, windowVars, link, registry, spent, history>>
  BY DEF LooksAtList

LEMMA AsideSteps ==
    ASSUME CleanerInv, CleanerInv', LineInv,
           \/ TakesSeen \/ AdoptsNoMore \/ Linked \/ GivesUp \/ LooksAtOwn \/ UNCHANGED vars
           \/ \E t \in DOMAIN terms : Closes(t) \/ LooksAtList(t)
    PROVE  LineInv'
  <1>0. LinkTypes /\ PipeTypes /\ Gathered
    BY DEF CleanerInv, LineInv
  <1>. DEFINE Same == /\ UNCHANGED <<terms, up, wire, handlers, early, closed, found, handed, rows>>
                      /\ opener' \in {None, opener}
              Phase == \/ phase' = phase
                       \/ phase = "attached" /\ phase' = "adopting" /\ opener' = opener
                       \/ phase = "adopting" /\ rows = Nothing /\ phase' = "flushing"
                          /\ opener' = opener
                       \/ phase = "flushing" /\ phase' = "linked" /\ opener' = opener
  <1>1. ASSUME TakesSeen PROVE Same /\ Phase
    BY <1>1 DEF TakesSeen, service, link, registry, history
  <1>2. ASSUME AdoptsNoMore PROVE Same /\ Phase
    BY <1>2 DEF AdoptsNoMore, service, registry, history
  <1>3. ASSUME Linked PROVE Same /\ Phase
    BY <1>3 DEF Linked, service, link, registry, history
  <1>4. ASSUME GivesUp \/ LooksAtOwn PROVE Same /\ Phase
    BY <1>4 DEF GivesUp, LooksAtOwn, service, link, registry, windowVars, history
  <1>5. ASSUME UNCHANGED vars PROVE Same /\ Phase
    BY <1>5 DEF vars, service, link, registry, windowVars, history
  <1>6. ASSUME NEW t \in DOMAIN terms, Closes(t) PROVE Same /\ Phase
    BY <1>6 DEF Closes, service, link, history
  <1>7. ASSUME NEW t \in DOMAIN terms, LooksAtList(t) PROVE Same /\ Phase
    BY <1>7, LooksAside DEF service, link, registry, windowVars, history
  <1>8. Same /\ Phase
    BY <1>1, <1>2, <1>3, <1>4, <1>5, <1>6, <1>7
  <1>9. Older
    BY <1>0, <1>8, SameOlder
  <1>10. Beside
    BY <1>0, <1>8 DEF PipeTypes, Gathered, Beside, Phases
  <1>. QED BY <1>9, <1>10, BesideKeeps

-----------------------------------------------------------------------------
(* The service sends, ends, and gets a window.                             *)

LEMMA SendsKeeps ==
    ASSUME CleanerInv, CleanerInv', LineInv, Older, NEW t \in DOMAIN terms, NEW e \in Events,
           Broadcast(t, e), up, Sent(t, e)',
           \A x \in Events : Sent(t, x) => Follows(x, e),
           UNCHANGED <<up, phase, opener, handlers, early, closed, found, handed, rows>>
    PROVE  LineInv'
  <1>0. LinkTypes /\ LinkTypes' /\ PipeTypes /\ Gathered
    BY DEF CleanerInv, LineInv
  <1>1. CASE phase = "off"
    <2>1. Beside
      BY <1>0, <1>1 DEF Broadcast, PipeTypes, Gathered, Beside
    <2>. QED BY <2>1, BesideKeeps
  <1>2. CASE phase # "off"
    <2>1. wire' = Append(wire, <<t, e>>) /\ t \in Terms /\ wire \in Seq(WireEvent)
      <3>1. t \in 1..Len(terms) /\ Len(terms) \in Nat /\ Len(terms) <= MaxTerms
        BY <1>0 DEF LinkTypes, PipeTypes
      <3>. QED BY <1>0, <1>2, <3>1, BoundsAreNaturals DEF Broadcast, Terms, PipeTypes, WireEvent
    <2>2. /\ \A u : u # t => WireOf(u)' = WireOf(u) /\ (WireLine(u) => WireLine(u)')
          /\ WireOf(t)' = WireOf(t) \cup {e}
          /\ WireLine(t) /\ Before(WireOf(t), {e}) => WireLine(t)'
          /\ wire' \in Seq(WireEvent)
          /\ \A i \in DOMAIN wire' : wire'[i][1] = None => i \in DOMAIN wire /\ wire[i][1] = None
      BY <2>1, WireIsSent
    <2>3. PipeTypes'
      BY <1>0, <2>2 DEF PipeTypes, Older, WireEvent
    <2>4. \A u \in Terms : HandOf(u)' = HandOf(u) /\ (Fresh(u) => Fresh(u)')
      BY DEF HandOf, Fresh
    <2>5. Gathered'
      BY <1>0, <1>2, <2>2 DEF Gathered
    <2>6. ASSUME NEW u \in Terms PROVE (u \in ToCome)' => u \in ToCome
      BY DEF ToCome, Older
    <2>7. ASSUME NEW u \in Terms \ {t} PROVE LineOf(u)'
      <3>1. LineOf(u)
        BY DEF LineInv
      <3>2. Quiet(u)
        BY <2>2, <2>4, <2>6, <3>1 DEF Quiet, LineOf, Lines
      <3>. QED BY <1>0, <3>1, <3>2, QuietKeeps
    <2>8. LineOf(t)'
      <3>1. LineOf(t)
        BY <2>1 DEF LineInv
      <3>2. Before(Range(handed[t]) \cup Range(handlers[t].todo) \cup Range(handlers[t].backlog)
                     \cup HandOf(t) \cup Range(early[t]) \cup WireOf(t), {e})
        BY <3>1 DEF LineOf, AllSent, Before, Sent
      <3>3. Line(t)'
        <4>1. Ordered(Range(handed[t]), Range(handlers[t].todo), Range(handlers[t].backlog),
                      HandOf(t), Range(early[t]), WireOf(t) \cup {e})
          BY <3>1, <3>2, OrderedSent DEF LineOf, Line
        <4>. QED BY <2>1, <2>2, <2>4, <4>1 DEF Line
      <3>4. Lines(t)'
        <4>1. Before(WireOf(t), {e})
          BY <3>2 DEF Before
        <4>. QED BY <2>1, <2>2, <2>4, <3>1, <4>1 DEF LineOf, Lines
      <3>5. AllSent(t)'
        BY <1>0, <2>1, <2>2, <2>4, <3>1, SentStays DEF LineOf, AllSent
      <3>6. HandedLine(t)' /\ EndsOnce(t)' /\ Runner(t)'
        BY <2>1, <2>4, <3>1 DEF LineOf, HandedLine, EndsOnce, Runner, Idle
      <3>7. (t \in ToCome)' => Fresh(t)'
        BY <2>1, <2>4, <2>6, <3>1 DEF LineOf
      <3>. QED BY <3>3, <3>4, <3>5, <3>6, <3>7 DEF LineOf
    <2>. QED BY <2>3, <2>5, <2>7, <2>8 DEF LineInv
  <1>. QED BY <1>1, <1>2

LEMMA PumpsKeeps ==
    ASSUME CleanerInv, CleanerInv', LineInv, NEW t \in DOMAIN terms, Pumps(t) PROVE LineInv'
  <1>0. LinkTypes /\ LinkTypes' /\ PipeTypes /\ Gathered
    BY DEF CleanerInv, LineInv
  <1>. PICK e : e = terms[t].count + 1
    OBVIOUS
  <1>1. /\ Older /\ terms'[t].count = e /\ e \in Events
        /\ terms[t].stage \notin Ended /\ terms[t].stage \notin {"over", "failed"}
    BY <1>0, PumpsOlder
  <1>2. terms[t].count \in Nat
    BY <1>0, TermsTyped DEF LinkTypes
  <1>3. e # Exit /\ e \in Nat
    BY <1>2 DEF Exit
  <1>4. Sent(t, e)'
    BY <1>1, <1>3 DEF Older, Sent
  <1>5. \A x \in Events : Sent(t, x) => Follows(x, e)
    BY <1>1, <1>2, EventsAreNaturals DEF Sent, Follows
  <1>6. up
    BY <1>0, <1>1 DEF Gathered
  <1>7. /\ Broadcast(t, e)
        /\ UNCHANGED <<up, phase, opener, handlers, early, closed, found, handed, rows>>
    BY DEF Pumps, windowVars, link, registry, history
  <1>. QED BY <1>1, <1>4, <1>5, <1>6, <1>7, SendsKeeps

LEMMA ExitsKeeps ==
    ASSUME CleanerInv, CleanerInv', LineInv, NEW t \in DOMAIN terms, Exits(t) PROVE LineInv'
  <1>0. LinkTypes /\ LinkTypes' /\ PipeTypes /\ Gathered
    BY DEF CleanerInv, LineInv
  <1>1. PICK stage \in {"short", "over"} : Put(t, stage)
    BY DEF Exits
  <1>2. /\ terms[t].stage \notin {"over", "failed"} /\ Broadcast(t, Exit)
        /\ UNCHANGED <<up, phase, opener, handlers, early, closed, found, handed, rows>>
    BY DEF Exits, At, windowVars, link, registry, history
  <1>3. Older
    BY <1>0, <1>1, PutOlder DEF Stages, Ended
  <1>4. terms'[t].stage \in Ended /\ t \in DOMAIN terms' /\ terms'[t].count \in Nat
    <2>1. terms \in Seq(Term) /\ terms' \in Seq(Term) /\ t \in DOMAIN terms'
      BY <1>0, <1>3 DEF LinkTypes, Older
    <2>2. terms'[t].stage = stage
      <3>1. terms[t] \in Term
        BY <2>1
      <3>2. [terms[t] EXCEPT !.stage = stage].stage = stage
        BY <3>1 DEF Term
      <3>3. terms'[t] = [terms[t] EXCEPT !.stage = stage]
        BY <1>1, <2>1 DEF Put
      <3>. QED BY <3>2, <3>3
    <2>3. terms'[t] \in Term
      BY <2>1
    <2>. QED BY <2>1, <2>2, <2>3 DEF Term, Ended
  <1>5. Sent(t, Exit)' /\ Exit \in Events
    BY <1>4 DEF Sent, Exit, Events
  <1>6. \A x \in Events : Sent(t, x) => Follows(x, Exit)
    BY DEF Follows
  <1>7. up
    BY <1>0, <1>2 DEF Gathered
  <1>. QED BY <1>2, <1>3, <1>5, <1>6, <1>7, SendsKeeps

LEMMA EndKeeps ==
    ASSUME CleanerInv, CleanerInv', LineInv, ServiceEnds PROVE LineInv'
  <1>0. LinkTypes /\ LinkTypes' /\ PipeTypes /\ Gathered
    BY DEF CleanerInv, LineInv
  <1>1. Older /\ \A t \in DOMAIN terms' : terms'[t].stage \in {"over", "failed"}
    BY <1>0, EndOlder
  <1>2. /\ up /\ up' = FALSE
        /\ UNCHANGED <<phase, opener, handlers, early, closed, found, handed, rows>>
    BY DEF ServiceEnds, windowVars, link, registry, history
  <1>3. /\ \A t \in Terms : WireOf(t)' \subseteq WireOf(t) /\ (WireLine(t) => WireLine(t)')
        /\ wire' \in Seq(WireEvent) /\ (phase = "off" => wire' = wire)
        /\ \A i \in DOMAIN wire' : i = Len(wire') \/ (i \in DOMAIN wire /\ wire'[i] = wire[i])
    <2>1. wire \in Seq(WireEvent)
      BY <1>0 DEF PipeTypes, WireEvent
    <2>2. CASE phase = "off"
      <3>1. wire' = wire
        BY <2>2 DEF ServiceEnds
      <3>. QED BY <2>1, <3>1, SameWire
    <2>3. CASE phase # "off"
      <3>1. PICK n \in 0..Len(wire) : wire' = Append(SubSeq(wire, 1, n), <<None, Exit>>)
        BY <2>3 DEF ServiceEnds
      <3>. QED BY <2>1, <2>3, <3>1, WireIsCut
    <2>. QED BY <2>2, <2>3
  <1>4. \A t \in Terms : HandOf(t)' = HandOf(t) /\ (Fresh(t) => Fresh(t)')
    BY <1>2 DEF HandOf, Fresh
  <1>5. PipeTypes'
    BY <1>0, <1>1, <1>2, <1>3 DEF PipeTypes, Older, WireEvent
  <1>6. Gathered'
    BY <1>0, <1>1, <1>2, <1>3, <1>4 DEF Gathered
  <1>7. ASSUME NEW t \in Terms PROVE LineOf(t)'
    <2>1. LineOf(t)
      BY DEF LineInv
    <2>2. t \in ToCome' => t \in ToCome
      BY <1>1, <1>2 DEF ToCome, Older
    <2>3. Quiet(t)
      BY <1>2, <1>3, <1>4, <2>1, <2>2 DEF Quiet, LineOf, Lines
    <2>. QED BY <1>0, <1>1, <2>1, <2>3, QuietKeeps
  <1>. QED BY <1>5, <1>6, <1>7 DEF LineInv

\* A window comes up with nothing in its hands.
LEMMA ConnectsLine ==
    ASSUME CleanerInv, CleanerInv', LineInv, Connects PROVE LineInv'
  <1>0. LinkTypes /\ LinkTypes' /\ PipeTypes /\ Gathered
    BY DEF CleanerInv, LineInv
  <1>1. /\ phase = "off" /\ up' = TRUE /\ phase' = "attached"
        /\ rows' = [t \in At({"kept"}) |-> terms[t].count]
        /\ UNCHANGED <<terms, opener, wire, handlers, early, closed, found, handed>>
    BY DEF Connects, link, registry, history
  <1>2. Older
    BY <1>0, <1>1, SameOlder
  <1>3. \A t \in Terms : HandOf(t)' = HandOf(t) /\ (Fresh(t) => Fresh(t)') /\ Fresh(t)
    BY <1>0, <1>1 DEF HandOf, Fresh, Gathered
  <1>4. PipeTypes'
    BY <1>0, <1>1, <1>2 DEF PipeTypes, Older, Phases, At
  <1>5. Gathered'
    BY <1>0, <1>1, <1>3 DEF Gathered
  <1>6. ASSUME NEW t \in Terms PROVE LineOf(t)'
    <2>1. LineOf(t)
      BY DEF LineInv
    <2>2. Quiet(t)
      BY <1>1, <1>3, <2>1, SameWire DEF Quiet, LineOf, Lines
    <2>. QED BY <1>0, <1>2, <2>1, <2>2, QuietKeeps
  <1>. QED BY <1>4, <1>5, <1>6 DEF LineInv

\* The window is gone, and all it had.
LEMMA GoneLine ==
    ASSUME CleanerInv, CleanerInv', LineInv, Gone PROVE LineInv'
  <1>0. LinkTypes /\ LinkTypes' /\ PipeTypes /\ Gathered
    BY DEF CleanerInv, LineInv
  <1>1. /\ phase' = "off" /\ rows' = Nothing /\ opener' = None /\ wire' = <<>> /\ found' = {}
        /\ closed' = FALSE /\ UNCHANGED <<terms, up>>
        /\ handlers' = [t \in Terms |-> NoHandler] /\ early' = [t \in Terms |-> <<>>]
        /\ handed' = [t \in Terms |-> <<>>]
    BY DEF Gone
  <1>2. NoHandler \in Handler /\ <<>> \in Seq(Events)
    BY DEF NoHandler, Handler
  <1>3. Older
    BY <1>0, <1>1, SameOlder
  <1>4. PipeTypes'
    <2>1. /\ handlers' \in [Terms -> Handler] /\ early' \in [Terms -> Seq(Events)]
          /\ handed' \in [Terms -> Seq(Events)]
      BY <1>1, <1>2
    <2>2. wire' \in Seq(({None} \cup Terms) \X Events) /\ DOMAIN rows' = {}
      BY <1>1 DEF Nothing
    <2>. QED BY <1>0, <1>1, <1>3, <2>1, <2>2 DEF PipeTypes, Older, Phases
  <1>5. \A t \in Terms : Fresh(t)' /\ early'[t] = <<>>
    BY <1>1 DEF Fresh, HandOf, NoHandler
  <1>6. Gathered'
    BY <1>0, <1>1, <1>5 DEF Gathered
  <1>7. ASSUME NEW t \in Terms PROVE LineOf(t)'
    <2>1. /\ handlers'[t] = NoHandler /\ early'[t] = <<>> /\ handed'[t] = <<>>
          /\ HandOf(t)' = {} /\ WireOf(t)' = {} /\ WireLine(t)'
      BY <1>1, NoWire DEF HandOf
    <2>2. NoHandler.todo = <<>> /\ NoHandler.backlog = <<>> /\ ~NoHandler.over
          /\ ~NoHandler.listed
      BY DEF NoHandler
    <2>3. Line(t)'
      BY <2>1, <2>2, EmptyLine DEF Line, Ordered, Before
    <2>4. Lines(t)' /\ AllSent(t)' /\ HandedLine(t)' /\ EndsOnce(t)' /\ Runner(t)'
      BY <2>1, <2>2, EmptyLine DEF Lines, AllSent, HandedLine, EndsOnce, Runner
    <2>. QED BY <1>5, <2>3, <2>4 DEF LineOf
  <1>. QED BY <1>4, <1>6, <1>7 DEF LineInv

-----------------------------------------------------------------------------
(* The reader of the link.                                                 *)

LEMMA HoldLine ==
    ASSUME NEW s \in Seq(Events), NEW e \in Events, InLine(s), Before(Range(s), {e})
    PROVE  /\ Hold(Append(s, e)) \in Seq(Events) /\ InLine(Hold(Append(s, e)))
           /\ Range(Hold(Append(s, e))) \subseteq Range(s) \cup {e}
  <1>1. /\ Append(s, e) \in Seq(Events) /\ InLine(Append(s, e)) /\ Append(s, e) # <<>>
        /\ Range(Append(s, e)) = Range(s) \cup {e}
    BY AppendLine
  <1>. PICK r : r = Append(s, e)
    OBVIOUS
  <1>2. Hold(r) \in {r, Tail(r)}
    BY DEF Hold
  <1>. QED BY <1>1, <1>2, TailLine

LEMMA ReadsLine ==
    ASSUME CleanerInv, CleanerInv', LineInv, Reads PROVE LineInv'
  <1>0. LinkTypes /\ LinkTypes' /\ PipeTypes /\ Gathered
    BY DEF CleanerInv, LineInv
  <1>1. PICK t \in Terms, e \in Events : Head(wire) = <<t, e>>
    <2>1. wire \in Seq(WireEvent) /\ wire # <<>>
      BY <1>0 DEF PipeTypes, WireEvent, Reads
    <2>2. Head(wire) \in WireEvent
      BY <2>1
    <2>. QED BY <2>2 DEF WireEvent, Reads
  <1>2. /\ wire # <<>> /\ wire' = Tail(wire) /\ Deliver(t, e) /\ found = {}
        /\ UNCHANGED <<terms, up, phase, rows, closed, opener, handed>>
    BY <1>1 DEF Reads, ReaderFree, windowVars, registry
  <1>3. /\ \A u : WireOf(u)' \subseteq WireOf(u) /\ (WireLine(u) => WireLine(u)')
        /\ e \in WireOf(t) /\ (WireLine(t) => Before({e}, WireOf(t)'))
        /\ wire' \in Seq(WireEvent)
        /\ \A i \in DOMAIN wire' : i + 1 \in DOMAIN wire /\ wire'[i] = wire[i + 1]
        /\ Len(wire) = Len(wire') + 1 /\ Len(wire') \in Nat
    <2>1. wire \in Seq(WireEvent)
      BY <1>0 DEF PipeTypes, WireEvent
    <2>2. wire' \in Seq(WireEvent)
      BY <1>1, <1>2, <2>1, WireIsRead
    <2>3. Len(wire') \in Nat
      BY <2>2
    <2>. QED BY <1>1, <1>2, <2>1, <2>3, WireIsRead
  <1>4. Older /\ phase # "off" /\ ~closed
    BY <1>0, <1>2, SameOlder DEF Gathered
  <1>5. \A i \in DOMAIN wire' : wire'[i][1] = None => i = Len(wire') /\ ~up
    <2>1. \A i \in DOMAIN wire' : i \in Nat
      BY <1>3
    <2>. QED BY <1>0, <1>3, <2>1 DEF Gathered
  <1>6. Gathered'
    BY <1>0, <1>2, <1>4, <1>5 DEF Gathered
  <1>7. LineOf(t) /\ t # None
    BY BoundsAreNaturals DEF LineInv, None, Terms
  <1>8. \A u \in Terms : HandOf(u) = {} /\ ((u \in ToCome)' => u \in ToCome)
    BY <1>2 DEF HandOf, ToCome
  <1>. DEFINE Rest(u) == /\ handlers'[u] = handlers[u] /\ early'[u] = early[u]
                         /\ HandOf(u)' = HandOf(u)
  <1>9. ASSUME NEW u \in Terms, Rest(u) PROVE LineOf(u)'
    <2>1. LineOf(u)
      BY DEF LineInv
    <2>2. Quiet(u)
      BY <1>2, <1>3, <1>8, <1>9, <2>1 DEF Quiet, LineOf, Lines
    <2>. QED BY <1>0, <1>4, <2>1, <2>2, QuietKeeps
  <1>10. CASE phase = "quitting"
    <2>1. UNCHANGED <<handlers, found, early>>
      BY <1>2, <1>10 DEF Deliver
    <2>2. PipeTypes'
      BY <1>0, <1>2, <1>3, <1>4, <2>1 DEF PipeTypes, Older, WireEvent
    <2>3. \A u \in Terms : Rest(u)
      BY <2>1 DEF HandOf
    <2>. QED BY <1>6, <1>9, <2>2, <2>3 DEF LineInv
  <1>11. CASE phase # "quitting" /\ handlers[t].listed
    <2>. DEFINE x == [handlers[t] EXCEPT !.listed = e # Exit]
    <2>1. /\ found' = {<<t, e>>} /\ early' = early
          /\ handlers' = [handlers EXCEPT ![t] = x]
      BY <1>2, <1>11 DEF Deliver
    <2>2. handlers[t] \in Handler
      BY <1>0 DEF PipeTypes
    <2>3. /\ x \in Handler /\ x.todo = handlers[t].todo /\ x.backlog = handlers[t].backlog
          /\ x.over = handlers[t].over /\ x.by = handlers[t].by
      BY <2>2 DEF Handler
    <2>. HIDE DEF x
    <2>4. /\ handlers' \in [Terms -> Handler] /\ handlers'[t] = x
          /\ \A u \in Terms \ {t} : handlers'[u] = handlers[u]
      BY <1>0, <2>1, <2>3 DEF PipeTypes
    <2>5. PipeTypes'
      BY <1>0, <1>2, <1>3, <1>4, <2>1, <2>4 DEF PipeTypes, Older, WireEvent
    <2>6. \A u \in Terms \ {t} : Rest(u)
      BY <1>8, <2>1, <2>4 DEF HandOf
    <2>7. HandOf(t)' = {e}
      BY <2>1 DEF HandOf
    <2>8. early[t] = <<>> /\ Range(early[t]) = {} /\ HandOf(t) = {}
      BY <1>7, <1>8, <1>11, EmptyLine DEF LineOf, Runner
    <2>9. Line(t)'
      <3>1. Ordered(Range(handed[t]), Range(handlers[t].todo), Range(handlers[t].backlog),
                    {e}, {}, WireOf(t)')
        BY <1>3, <1>7, <2>8, OrderedTaken DEF LineOf, Line, Lines
      <3>. QED BY <1>2, <2>1, <2>3, <2>4, <2>7, <2>8, <3>1 DEF Line
    <2>10. Lines(t)'
      BY <1>3, <1>7, <2>1, <2>3, <2>4, <2>7 DEF LineOf, Lines
    <2>11. AllSent(t)'
      BY <1>0, <1>2, <1>3, <1>4, <1>7, <2>1, <2>3, <2>4, <2>7, SentStays DEF LineOf, AllSent
    <2>12. HandedLine(t)' /\ EndsOnce(t)' /\ Runner(t)'
      BY <1>2, <1>7, <1>11, <2>1, <2>3, <2>4, <2>8
      DEF LineOf, HandedLine, EndsOnce, Runner, Idle
    <2>13. t \notin ToCome
      BY <1>7, <1>11 DEF LineOf, Fresh, NoHandler
    <2>14. LineOf(t)'
      BY <1>8, <2>9, <2>10, <2>11, <2>12, <2>13 DEF LineOf
    <2>. QED BY <1>6, <1>9, <2>5, <2>6, <2>14 DEF LineInv
  <1>12. CASE phase # "quitting" /\ ~handlers[t].listed
    <2>. DEFINE x == Hold(Append(early[t], e))
    <2>1. found' = found /\ handlers' = handlers /\ early' = [early EXCEPT ![t] = x]
      BY <1>2, <1>12 DEF Deliver
    <2>2. early[t] \in Seq(Events) /\ Before(Range(early[t]), {e}) /\ InLine(early[t])
      BY <1>0, <1>3, <1>7 DEF PipeTypes, LineOf, Line, Lines, Ordered, Before
    <2>3. x \in Seq(Events) /\ InLine(x) /\ Range(x) \subseteq Range(early[t]) \cup {e}
      BY <2>2, HoldLine
    <2>. HIDE DEF x
    <2>4. /\ early' \in [Terms -> Seq(Events)] /\ early'[t] = x
          /\ \A u \in Terms \ {t} : early'[u] = early[u]
      BY <1>0, <2>1, <2>3 DEF PipeTypes
    <2>5. PipeTypes'
      BY <1>0, <1>2, <1>3, <1>4, <2>1, <2>4 DEF PipeTypes, Older, WireEvent
    <2>6. HandOf(t)' = HandOf(t) /\ \A u \in Terms \ {t} : Rest(u)
      BY <2>1, <2>4 DEF HandOf
    <2>7. Line(t)'
      <3>1. Ordered(Range(handed[t]), Range(handlers[t].todo), Range(handlers[t].backlog),
                    HandOf(t), Range(x), WireOf(t)')
        BY <1>3, <1>7, <2>3, OrderedHeld DEF LineOf, Line, Lines
      <3>. QED BY <1>2, <2>1, <2>4, <2>6, <3>1 DEF Line
    <2>8. Lines(t)'
      BY <1>3, <1>7, <2>1, <2>3, <2>4, <2>6 DEF LineOf, Lines
    <2>9. AllSent(t)'
      BY <1>0, <1>2, <1>3, <1>4, <1>7, <2>1, <2>3, <2>4, <2>6, SentStays DEF LineOf, AllSent
    <2>10. HandedLine(t)' /\ EndsOnce(t)' /\ Runner(t)'
      BY <1>2, <1>7, <1>12, <2>1, <2>6 DEF LineOf, HandedLine, EndsOnce, Runner, Idle
    <2>11. (t \in ToCome)' => Fresh(t)'
      BY <1>2, <1>7, <1>8, <2>1, <2>6 DEF LineOf, Fresh
    <2>12. LineOf(t)'
      BY <2>7, <2>8, <2>9, <2>10, <2>11 DEF LineOf
    <2>. QED BY <1>6, <1>9, <2>5, <2>6, <2>12 DEF LineInv
  <1>. QED BY <1>10, <1>11, <1>12

\* The link hears that the service is gone, and so do all handlers.
LEMMA ReadsTheEndLine ==
    ASSUME CleanerInv, CleanerInv', LineInv, ReadsTheEnd PROVE LineInv'
  <1>0. LinkTypes /\ LinkTypes' /\ PipeTypes /\ Gathered
    BY DEF CleanerInv, LineInv
  <1>1. /\ wire # <<>> /\ Head(wire)[1] = None /\ wire' = <<>> /\ closed' = TRUE /\ found = {}
        /\ found' = {<<t, Exit>> : t \in {u \in Terms : handlers[u].listed}}
        /\ handlers' = [t \in Terms |-> [handlers[t] EXCEPT !.listed = FALSE]]
        /\ UNCHANGED <<terms, up, phase, rows, opener, handed, early>>
    BY DEF ReadsTheEnd, ReaderFree, windowVars, registry, history
  <1>2. ~up /\ phase # "off"
    <2>1. 1 \in DOMAIN wire /\ wire[1][1] = None
      BY <1>0, <1>1 DEF PipeTypes
    <2>. QED BY <1>0, <1>1, <2>1 DEF Gathered
  <1>3. Older
    BY <1>0, <1>1, SameOlder
  <1>4. \A t \in Terms :
           /\ handlers'[t] \in Handler /\ handlers'[t].todo = handlers[t].todo
           /\ handlers'[t].backlog = handlers[t].backlog /\ handlers'[t].over = handlers[t].over
           /\ handlers'[t].by = handlers[t].by /\ ~handlers'[t].listed
    <2>1. \A h \in Handler :
             LET x == [h EXCEPT !.listed = FALSE]
             IN /\ x \in Handler /\ x.todo = h.todo /\ x.backlog = h.backlog /\ x.over = h.over
                /\ x.by = h.by /\ ~x.listed
      BY DEF Handler
    <2>2. \A t \in Terms : handlers[t] \in Handler
      BY <1>0 DEF PipeTypes
    <2>. QED BY <1>1, <2>1, <2>2
  <1>5. PipeTypes'
    <2>1. handlers' \in [Terms -> Handler]
      BY <1>1, <1>4
    <2>2. Exit \in Events /\ wire' \in Seq(({None} \cup Terms) \X Events)
      BY <1>1 DEF Events
    <2>. QED BY <1>0, <1>1, <1>3, <2>1, <2>2 DEF PipeTypes, Older
  <1>6. Gathered'
    BY <1>0, <1>1, <1>2 DEF Gathered
  <1>7. ASSUME NEW t \in Terms PROVE LineOf(t)'
    <2>1. LineOf(t) /\ HandOf(t) = {} /\ WireOf(t)' = {} /\ WireLine(t)'
      BY <1>1, NoWire DEF LineInv, HandOf
    <2>2. HandOf(t)' = IF handlers[t].listed THEN {Exit} ELSE {}
      BY <1>1 DEF HandOf, Events
    <2>3. handlers[t].listed => early[t] = <<>> /\ Range(early[t]) = {} /\ t \notin ToCome
      BY <2>1, EmptyLine DEF LineOf, Runner, Fresh
    <2>4. Line(t)'
      <3>1. CASE handlers[t].listed
        <4>1. Ordered(Range(handed[t]), Range(handlers[t].todo), Range(handlers[t].backlog),
                      {Exit}, {}, {})
          BY <2>1, OrderedClosed DEF LineOf, Line
        <4>. QED BY <1>1, <1>4, <2>1, <2>2, <2>3, <3>1, <4>1 DEF Line
      <3>2. CASE ~handlers[t].listed
        <4>1. Ordered(Range(handed[t]), Range(handlers[t].todo), Range(handlers[t].backlog),
                      {}, Range(early[t]), {})
          BY <2>1, OrderedFewer DEF LineOf, Line
        <4>. QED BY <1>1, <1>4, <2>1, <2>2, <3>2, <4>1 DEF Line
      <3>. QED BY <3>1, <3>2
    <2>5. Lines(t)'
      BY <1>1, <1>4, <2>1, <2>2 DEF LineOf, Lines
    <2>6. AllSent(t)'
      <3>1. handlers[t].listed => Sent(t, Exit)
        <4>1. handlers[t].listed => t \in DOMAIN terms
          BY <2>3 DEF ToCome
        <4>2. t \in DOMAIN terms => terms[t].stage \in Ended /\ terms[t].count \in Nat
          BY <1>0, <1>2, TermsTyped DEF LinkTypes, Gathered, Ended
        <4>. QED BY <4>1, <4>2 DEF Sent, Exit, Events
      <3>. QED BY <1>0, <1>1, <1>3, <1>4, <2>1, <2>2, <3>1, SentStays DEF LineOf, AllSent
    <2>7. HandedLine(t)' /\ EndsOnce(t)' /\ Runner(t)'
      BY <1>1, <1>4, <2>1, <2>2 DEF LineOf, HandedLine, EndsOnce, Runner, Idle
    <2>8. (t \in ToCome)' => Fresh(t)'
      BY <1>1, <1>4, <2>1, <2>2, <2>3 DEF LineOf, ToCome, Fresh
    <2>. QED BY <2>4, <2>5, <2>6, <2>7, <2>8 DEF LineOf
  <1>. QED BY <1>5, <1>6, <1>7 DEF LineInv

-----------------------------------------------------------------------------
(* The handlers of one terminal.                                           *)

OneStep(t, x) ==
    /\ handlers' = [handlers EXCEPT ![t] = x]
    /\ UNCHANGED <<terms, up, wire, closed, phase>> /\ phase # "off"
    /\ early' \in [Terms -> Seq(Events)] /\ handed' \in [Terms -> Seq(Events)]
    /\ found' \subseteq found
    /\ \A u \in Terms \ {t} : /\ HandOf(u)' = HandOf(u) /\ early'[u] = early[u]
                              /\ handed'[u] = handed[u]
    /\ DOMAIN rows' \subseteq DOMAIN rows /\ (rows' = rows \/ rows # Nothing)
    /\ opener' \in {None, opener}

LEMMA OneLine ==
    ASSUME CleanerInv, CleanerInv', LineInv, NEW t \in Terms, NEW x \in Handler,
           OneStep(t, x), LineOf(t)'
    PROVE  LineInv'
  <1>0. LinkTypes /\ LinkTypes' /\ PipeTypes /\ Gathered
    BY DEF CleanerInv, LineInv
  <1>1. /\ handlers' \in [Terms -> Handler]
        /\ \A u \in Terms \ {t} : handlers'[u] = handlers[u]
    BY <1>0 DEF OneStep, PipeTypes
  <1>2. Older
    BY <1>0, SameOlder DEF OneStep
  <1>3. PipeTypes'
    BY <1>0, <1>1, <1>2 DEF OneStep, PipeTypes, Older
  <1>4. Gathered'
    BY <1>0 DEF OneStep, Gathered
  <1>5. ASSUME NEW u \in Terms \ {t} PROVE LineOf(u)'
    <2>1. LineOf(u) /\ u # None
      BY BoundsAreNaturals DEF LineInv, None, Terms
    <2>2. (u \in ToCome)' => u \in ToCome
      BY <2>1 DEF OneStep, ToCome
    <2>3. Quiet(u)
      BY <1>1, <2>1, <2>2, SameWire DEF OneStep, Quiet, LineOf, Lines
    <2>. QED BY <1>0, <1>2, <2>1, <2>3, QuietKeeps
  <1>. QED BY <1>3, <1>4, <1>5 DEF LineInv

\* The terminal itself, when it has handlers that run or wait for something.
LEMMA NotToCome ==
    ASSUME CleanerInv, LineInv, NEW t \in Terms, NEW x, OneStep(t, x), t \notin ToCome
    PROVE  (t \in ToCome)' => FALSE
  <1>1. t # None
    BY BoundsAreNaturals DEF None, Terms
  <1>. QED BY <1>1 DEF OneStep, ToCome

LEMMA TermsInTerms == ASSUME CleanerInv, LineInv PROVE DOMAIN terms \subseteq Terms
  BY BoundsAreNaturals DEF CleanerInv, LinkTypes, LineInv, PipeTypes, Terms

LEMMA HandsLine ==
    ASSUME CleanerInv, CleanerInv', LineInv, NEW t \in DOMAIN terms, Hands(t) PROVE LineInv'
  <1>0. LinkTypes /\ LinkTypes' /\ PipeTypes /\ Gathered /\ t \in Terms /\ LineOf(t)
    BY TermsInTerms DEF CleanerInv, LineInv
  <1>1. PICK e \in Events :
            /\ <<t, e>> \in found /\ handlers[t].by = "no"
            /\ found' = found \ {<<t, e>>}
            /\ handlers' = [handlers EXCEPT ![t] = Taken(handlers[t], e)]
            /\ UNCHANGED <<terms, up, wire, phase, rows, early, closed, opener, handed>>
    BY DEF Hands, service, windowVars, registry, history
  <1>. DEFINE h == handlers[t]
              s == Append(h.backlog, e)
              x == Taken(h, e)
  <1>2. h \in Handler /\ h.todo = <<>> /\ Range(h.todo) = {} /\ h.backlog \in Seq(Events)
    BY <1>0, <1>1, EmptyLine DEF PipeTypes, LineOf, Runner, Handler
  <1>3. e \in HandOf(t) /\ HandOf(t)' = {} /\ HandOf(t) = {e}
    BY <1>0, <1>1 DEF HandOf, LineOf, Lines
  <1>4. /\ s \in Seq(Events) /\ InLine(s) /\ Range(s) = Range(h.backlog) \cup {e}
    <2>1. Before(Range(h.backlog), {e}) /\ InLine(h.backlog)
      BY <1>0, <1>3 DEF LineOf, Line, Lines, Ordered, Before
    <2>. HIDE DEF h
    <2>. QED BY <1>2, <2>1, AppendLine
  <1>5. /\ x \in Handler /\ x.todo = s /\ x.backlog = <<>> /\ x.by = "reader"
        /\ x.over = h.over /\ x.listed = h.listed
    <2>. HIDE DEF h
    <2>1. x = [h EXCEPT !.todo = s, !.backlog = <<>>, !.by = "reader"]
      BY DEF Taken
    <2>. HIDE DEF s, x
    <2>. QED BY <1>2, <1>4, <2>1, EmptyLine DEF Handler
  <1>6. handlers' = [handlers EXCEPT ![t] = x]
    BY <1>1
  <1>. HIDE DEF x, s, h
  <1>7. handlers'[t] = x
    BY <1>0, <1>6 DEF PipeTypes
  <1>8. OneStep(t, x)
    <2>1. \A u \in Terms \ {t} : HandOf(u)' = HandOf(u)
      BY <1>1 DEF HandOf
    <2>2. phase # "off"
      BY <1>0, <1>1 DEF Gathered
    <2>. QED BY <1>0, <1>1, <1>6, <2>1, <2>2 DEF OneStep, PipeTypes
  <1>9. Older
    BY <1>0, <1>1, SameOlder
  <1>10. WireOf(t)' = WireOf(t) /\ WireLine(t)'
    BY <1>0, <1>1, SameWire DEF LineOf, Lines
  <1>11. Line(t)'
    <2>1. Ordered(Range(handed[t]), Range(h.backlog) \cup {e}, {}, {}, Range(early[t]), WireOf(t))
      <3>1. Ordered(Range(handed[t]), {}, Range(h.backlog), HandOf(t), Range(early[t]), WireOf(t))
        BY <1>0, <1>2 DEF LineOf, Line, h
      <3>. QED BY <1>3, <3>1, OrderedHanded
    <2>. QED BY <1>1, <1>3, <1>4, <1>5, <1>7, <1>10, <2>1, EmptyLine DEF Line
  <1>12. Lines(t)'
    BY <1>0, <1>1, <1>3, <1>4, <1>5, <1>7, <1>10, EmptyLine DEF LineOf, Lines
  <1>13. AllSent(t)'
    BY <1>0, <1>1, <1>3, <1>4, <1>5, <1>7, <1>9, <1>10, EmptyLine, SentStays
    DEF LineOf, AllSent, h
  <1>14. HandedLine(t)' /\ EndsOnce(t)' /\ Runner(t)'
    BY <1>0, <1>1, <1>3, <1>5, <1>7 DEF LineOf, HandedLine, EndsOnce, Runner, Idle, h
  <1>15. t \notin ToCome
    BY <1>0, <1>3 DEF LineOf, Fresh
  <1>16. (t \in ToCome)' => FALSE
    BY <1>0, <1>8, <1>15, NotToCome
  <1>17. LineOf(t)'
    BY <1>11, <1>12, <1>13, <1>14, <1>16 DEF LineOf
  <1>. QED BY <1>0, <1>5, <1>8, <1>17, OneLine

LEMMA FlushesLine ==
    ASSUME CleanerInv, CleanerInv', LineInv, NEW t \in DOMAIN terms, Flushes(t) PROVE LineInv'
  <1>0. LinkTypes /\ LinkTypes' /\ PipeTypes /\ Gathered /\ t \in Terms /\ LineOf(t)
    BY TermsInTerms DEF CleanerInv, LineInv
  <1>1. /\ handlers[t].by = "no"
        /\ UNCHANGED <<terms, up, wire, phase, rows, early, closed, found, opener, handed>>
    BY DEF Flushes, service, windowVars, registry, history
  <1>2. CASE handlers' = handlers
    <2>1. Older /\ Beside
      BY <1>0, <1>1, <1>2, SameOlder DEF Beside, PipeTypes, Gathered
    <2>. QED BY <2>1, BesideKeeps
  <1>3. CASE handlers' # handlers
    <2>. DEFINE h == handlers[t]
                x == [h EXCEPT !.todo = h.backlog, !.backlog = <<>>, !.by = "flush"]
    <2>1. /\ h.listed /\ h.backlog # <<>>
          /\ handlers' = [handlers EXCEPT ![t] = x]
      BY <1>3 DEF Flushes
    <2>2. h \in Handler /\ h.todo = <<>> /\ Range(h.todo) = {} /\ h.backlog \in Seq(Events)
      BY <1>0, <1>1, EmptyLine DEF PipeTypes, LineOf, Runner, Handler
    <2>3. /\ x \in Handler /\ x.todo = h.backlog /\ x.backlog = <<>> /\ x.by = "flush"
          /\ x.over = h.over /\ x.listed = h.listed
      <3>. HIDE DEF h
      <3>. QED BY <2>2, EmptyLine DEF Handler
    <2>. HIDE DEF x, h
    <2>4. handlers'[t] = x
      BY <1>0, <2>1 DEF PipeTypes
    <2>5. HandOf(t)' = HandOf(t) /\ WireOf(t)' = WireOf(t) /\ WireLine(t)'
      BY <1>0, <1>1, SameWire DEF LineOf, Lines, HandOf
    <2>6. OneStep(t, x)
      <3>1. \A u \in Terms \ {t} : HandOf(u)' = HandOf(u)
        BY <1>1 DEF HandOf
      <3>2. phase # "off"
        BY <1>0, <2>1 DEF Gathered, Fresh, h
      <3>. QED BY <1>0, <1>1, <2>1, <3>1, <3>2 DEF OneStep, PipeTypes
    <2>7. Older
      BY <1>0, <1>1, SameOlder
    <2>8. Line(t)'
      <3>1. Ordered(Range(handed[t]), Range(h.backlog), {}, HandOf(t), Range(early[t]), WireOf(t))
        <4>1. Ordered(Range(handed[t]), {}, Range(h.backlog), HandOf(t), Range(early[t]), WireOf(t))
          BY <1>0, <2>2 DEF LineOf, Line, h
        <4>. QED BY <4>1, OrderedFlushed
      <3>. QED BY <1>1, <2>3, <2>4, <2>5, <3>1, EmptyLine DEF Line
    <2>9. Lines(t)'
      BY <1>0, <1>1, <2>3, <2>4, <2>5, EmptyLine DEF LineOf, Lines, h
    <2>10. AllSent(t)'
      BY <1>0, <1>1, <2>3, <2>4, <2>5, <2>7, EmptyLine, SentStays DEF LineOf, AllSent, h
    <2>11. HandedLine(t)' /\ EndsOnce(t)' /\ Runner(t)'
      BY <1>0, <1>1, <2>1, <2>3, <2>4 DEF LineOf, HandedLine, EndsOnce, Runner, Idle, h
    <2>12. t \notin ToCome
      BY <1>0, <2>1 DEF LineOf, Fresh, h
    <2>13. (t \in ToCome)' => FALSE
      BY <1>0, <2>6, <2>12, NotToCome
    <2>14. LineOf(t)'
      BY <2>8, <2>9, <2>10, <2>11, <2>13 DEF LineOf
    <2>. QED BY <1>0, <2>3, <2>6, <2>14, OneLine
  <1>. QED BY <1>2, <1>3

\* A handler after it ran e: what is left of it, and that the end is remembered
\* until nothing is left.
AfterRun(h, x, e, t) ==
    /\ x \in Handler
    /\ Range(x.todo) \subseteq Range(h.todo) /\ InLine(x.todo)
    /\ Before({e}, Range(x.todo))
    /\ x.backlog \in {h.backlog, <<>>}
    /\ x.by = "no" => x.todo = <<>>
    /\ x.listed => h.listed
    /\ x.over => h.over \/ e = Exit
    /\ h.over \/ e = Exit =>
          x.over \/ (~x.listed /\ x.todo = <<>> /\ x.backlog = <<>> /\ HandOf(t) = {})

LEMMA RunLeaves ==
    ASSUME CleanerInv, LineInv, NEW t \in DOMAIN terms, Runs(t),
           NEW e, e = Head(handlers[t].todo)
    PROVE  \E x \in Handler : /\ handlers' = [handlers EXCEPT ![t] = x]
                              /\ AfterRun(handlers[t], x, e, t)
  <1>. DEFINE h == handlers[t]
              over == h.over \/ e = Exit
  <1>0. t \in Terms /\ PipeTypes /\ LineOf(t)
    BY TermsInTerms DEF LineInv
  <1>1. /\ h \in Handler /\ h.todo \in Seq(Events) /\ h.todo # <<>> /\ h.over \in BOOLEAN
        /\ h.listed \in BOOLEAN /\ h.by \in {"no", "reader", "flush"} /\ h.backlog \in Seq(Events)
        /\ InLine(h.todo) /\ InLine(h.backlog) /\ (h.by = "no" => h.todo = <<>>)
    BY <1>0 DEF PipeTypes, Handler, Runs, LineOf, Lines, Runner
  <1>2. /\ Tail(h.todo) \in Seq(Events) /\ Range(Tail(h.todo)) \subseteq Range(h.todo)
        /\ InLine(Tail(h.todo)) /\ Before({e}, Range(Tail(h.todo)))
    <2>. HIDE DEF h
    <2>. QED BY <1>1, TailLine DEF h
  <1>3. CASE Len(h.todo) > 1
    <2>. DEFINE x == [h EXCEPT !.todo = Tail(h.todo), !.over = over]
    <2>1. handlers' = [handlers EXCEPT ![t] = x]
      BY <1>3 DEF Runs
    <2>2. /\ x \in Handler /\ x.todo = Tail(h.todo) /\ x.over = over /\ x.backlog = h.backlog
          /\ x.listed = h.listed /\ x.by = h.by
      <3>1. over \in BOOLEAN
        BY <1>1
      <3>. HIDE DEF h, over
      <3>. QED BY <1>1, <1>2, <3>1 DEF Handler
    <2>. HIDE DEF x, h
    <2>3. AfterRun(h, x, e, t)
      BY <1>1, <1>2, <2>2 DEF AfterRun
    <2>. QED BY <2>1, <2>2, <2>3 DEF h
  <1>4. CASE ~(Len(h.todo) > 1) /\ over /\ ~InHand(t)
    <2>1. handlers' = [handlers EXCEPT ![t] = NoHandler]
      BY <1>4 DEF Runs
    <2>2. HandOf(t) = {}
      BY <1>4 DEF HandOf, InHand
    <2>3. NoHandler \in Handler /\ NoHandler.todo = <<>> /\ NoHandler.backlog = <<>>
          /\ ~NoHandler.listed /\ ~NoHandler.over
      BY EmptyLine DEF NoHandler, Handler
    <2>4. AfterRun(h, NoHandler, e, t)
      BY <2>2, <2>3, EmptyLine DEF AfterRun, Before
    <2>. QED BY <2>1, <2>3, <2>4
  <1>5. CASE ~(Len(h.todo) > 1) /\ ~(over /\ ~InHand(t))
    <2>. DEFINE x == [h EXCEPT !.todo = <<>>, !.by = "no", !.over = over,
                               !.listed = @ /\ ~over]
    <2>1. handlers' = [handlers EXCEPT ![t] = x]
      BY <1>5 DEF Runs
    <2>2. /\ x \in Handler /\ x.todo = <<>> /\ x.over = over /\ x.backlog = h.backlog
          /\ (x.listed => h.listed) /\ x.by = "no"
      <3>1. over \in BOOLEAN /\ (h.listed /\ ~over) \in BOOLEAN
        BY <1>1
      <3>. HIDE DEF h, over
      <3>. QED BY <1>1, <3>1, EmptyLine DEF Handler
    <2>. HIDE DEF x, h
    <2>3. AfterRun(h, x, e, t)
      BY <1>1, <2>2, EmptyLine DEF AfterRun, Before
    <2>. QED BY <2>1, <2>2, <2>3 DEF h
  <1>. QED BY <1>3, <1>4, <1>5

LEMMA RunsLine ==
    ASSUME CleanerInv, CleanerInv', LineInv, NEW t \in DOMAIN terms, Runs(t) PROVE LineInv'
  <1>0. LinkTypes /\ LinkTypes' /\ PipeTypes /\ Gathered /\ t \in Terms /\ LineOf(t)
    BY TermsInTerms DEF CleanerInv, LineInv
  <1>. DEFINE h == handlers[t]
  <1>. PICK e : e = Head(handlers[t].todo)
    OBVIOUS
  <1>1. /\ h.todo # <<>>
        /\ IF h.over /\ e = Exit THEN UNCHANGED handed
           ELSE handed' = [handed EXCEPT ![t] = Append(handed[t], e)]
        /\ UNCHANGED <<terms, up, wire, phase, rows, early, closed, found, opener>>
    BY DEF Runs, service, windowVars
  <1>2. PICK x \in Handler : handlers' = [handlers EXCEPT ![t] = x] /\ AfterRun(h, x, e, t)
    BY RunLeaves
  <1>3. /\ h \in Handler /\ h.todo \in Seq(Events) /\ h.over \in BOOLEAN
        /\ handed[t] \in Seq(Events)
    BY <1>0 DEF PipeTypes, Handler
  <1>4. e \in Range(h.todo) /\ e \in Events
    <2>. HIDE DEF h
    <2>. QED BY <1>1, <1>3, TailLine DEF h
  <1>5. handlers'[t] = x
    BY <1>0, <1>2 DEF PipeTypes
  <1>6. HandOf(t)' = HandOf(t) /\ WireOf(t)' = WireOf(t) /\ WireLine(t)'
    BY <1>0, <1>1, SameWire DEF LineOf, Lines, HandOf
  <1>7. /\ Before(Range(handed[t]), {e}) /\ ~Idle(t) /\ t \notin ToCome
        /\ h.over <=> Exit \in Range(handed[t])
    BY <1>0, <1>1, <1>4 DEF LineOf, Line, Ordered, Before, Idle, EndsOnce, Fresh
  <1>. DEFINE s == handed'[t]
  <1>8. s = IF h.over /\ e = Exit THEN handed[t] ELSE Append(handed[t], e)
    BY <1>0, <1>1 DEF PipeTypes
  <1>9. /\ s \in Seq(Events) /\ Range(s) = Range(handed[t]) \cup {e}
    <2>1. CASE h.over /\ e = Exit
      BY <1>3, <1>7, <1>8, <2>1
    <2>2. CASE ~(h.over /\ e = Exit)
      <3>. DEFINE r == Append(handed[t], e)
      <3>1. /\ r \in Seq(Events) /\ Len(r) = Len(handed[t]) + 1 /\ Len(handed[t]) \in Nat
            /\ \A i \in 1..Len(handed[t]) : r[i] = handed[t][i]
            /\ r[Len(handed[t]) + 1] = e
        BY <1>3, <1>4
      <3>2. DOMAIN handed[t] = 1..Len(handed[t]) /\ DOMAIN r = 1..Len(handed[t]) + 1
        BY <1>3, <3>1
      <3>. HIDE DEF r
      <3>3. Range(r) = Range(handed[t]) \cup {e}
        BY <3>1, <3>2 DEF Range
      <3>. QED BY <1>8, <2>2, <3>1, <3>3 DEF r
    <2>. QED BY <2>1, <2>2
  <1>10. HandedLine(t)'
    <2>1. CASE h.over /\ e = Exit
      BY <1>0, <1>8, <2>1 DEF LineOf, HandedLine
    <2>2. CASE ~(h.over /\ e = Exit)
      <3>1. \A i \in DOMAIN handed[t] :
               handed[t][i] # Exit /\ (e = Exit \/ handed[t][i] < e)
        BY <1>7, <2>2 DEF Before, Follows, Range
      <3>. DEFINE r == Append(handed[t], e)
      <3>2. /\ Len(handed[t]) \in Nat /\ DOMAIN r = 1..Len(handed[t]) + 1
            /\ DOMAIN handed[t] = 1..Len(handed[t])
            /\ \A i \in 1..Len(handed[t]) : r[i] = handed[t][i]
            /\ r[Len(handed[t]) + 1] = e
        BY <1>3, <1>4
      <3>. HIDE DEF r
      <3>3. s = r
        BY <1>8, <2>2 DEF r
      <3>. HIDE DEF s
      <3>4. ASSUME NEW i \in DOMAIN s, NEW j \in DOMAIN s, i < j
            PROVE  s[i] # Exit /\ (s[j] = Exit \/ s[i] < s[j])
        <4>1. i \in DOMAIN handed[t] /\ s[i] = handed[t][i]
          BY <3>2, <3>3, <3>4
        <4>2. (j \in DOMAIN handed[t] /\ s[j] = handed[t][j]) \/ s[j] = e
          BY <3>2, <3>3, <3>4
        <4>. QED BY <1>0, <3>1, <3>4, <4>1, <4>2 DEF LineOf, HandedLine
      <3>. QED BY <3>4 DEF HandedLine, s
    <2>. QED BY <2>1, <2>2
  <1>. HIDE DEF h, s
  <1>11. OneStep(t, x)
    <2>1. \A u \in Terms \ {t} : HandOf(u)' = HandOf(u) /\ handed'[u] = handed[u]
      BY <1>0, <1>1 DEF HandOf, PipeTypes
    <2>2. phase # "off"
      BY <1>0, <1>1 DEF Gathered, Fresh, h
    <2>3. handed' \in [Terms -> Seq(Events)]
      BY <1>0, <1>1, <1>9 DEF PipeTypes, s
    <2>. QED BY <1>0, <1>1, <1>2, <2>1, <2>2, <2>3 DEF OneStep, PipeTypes
  <1>12. Older
    BY <1>0, <1>1, SameOlder
  <1>13. Line(t)'
    <2>1. Range(x.backlog) \subseteq Range(h.backlog)
      BY <1>2, EmptyLine DEF AfterRun
    <2>2. Ordered(Range(s), Range(x.todo), Range(x.backlog), HandOf(t), Range(early[t]), WireOf(t))
      BY <1>0, <1>2, <1>4, <1>9, <2>1, OrderedRun DEF LineOf, Line, AfterRun, h
    <2>. QED BY <1>1, <1>5, <1>6, <2>2 DEF Line, s
  <1>14. Lines(t)'
    BY <1>0, <1>1, <1>2, <1>5, <1>6, EmptyLine DEF LineOf, Lines, AfterRun, h
  <1>15. AllSent(t)'
    <2>1. Range(x.backlog) \subseteq Range(h.backlog)
      BY <1>2, EmptyLine DEF AfterRun
    <2>2. \A f \in Range(s) \cup Range(x.todo) \cup Range(x.backlog) \cup HandOf(t)
                   \cup Range(early[t]) \cup WireOf(t) : Sent(t, f)
      BY <1>0, <1>2, <1>4, <1>9, <2>1 DEF LineOf, AllSent, AfterRun, h
    <2>. QED BY <1>0, <1>1, <1>5, <1>6, <1>12, <2>2, SentStays DEF AllSent, s
  <1>16. EndsOnce(t)'
    <2>1. h.over \/ e = Exit <=> Exit \in Range(s)
      BY <1>7, <1>9
    <2>. QED BY <1>2, <1>5, <1>6, <2>1 DEF EndsOnce, Idle, AfterRun, s
  <1>17. Runner(t)'
    BY <1>0, <1>1, <1>2, <1>5 DEF LineOf, Runner, AfterRun, h
  <1>18. (t \in ToCome)' => FALSE
    BY <1>0, <1>7, <1>11, NotToCome
  <1>19. LineOf(t)'
    BY <1>10, <1>13, <1>14, <1>15, <1>16, <1>17, <1>18 DEF LineOf
  <1>. QED BY <1>0, <1>11, <1>19, OneLine

\* A terminal gets its handlers, and what was held for it is theirs.
LEMMA RegistersLine ==
    ASSUME CleanerInv, CleanerInv', LineInv, NEW t \in DOMAIN terms, t \in ToCome, Register(t),
           UNCHANGED <<terms, up, wire, closed, phase, found, handed>>,
           DOMAIN rows' \subseteq DOMAIN rows, rows' = rows \/ rows # Nothing,
           opener' \in {None, opener}, t \notin DOMAIN rows', opener' # t
    PROVE  LineInv'
  <1>. DEFINE ends == IF closed THEN <<Exit>> ELSE <<>>
              x == Registered(t)
  <1>0. LinkTypes /\ LinkTypes' /\ PipeTypes /\ Gathered /\ t \in Terms /\ LineOf(t) /\ Fresh(t)
    BY TermsInTerms DEF CleanerInv, LineInv, LineOf
  <1>1. handlers' = [handlers EXCEPT ![t] = x] /\ early' = [early EXCEPT ![t] = <<>>]
    BY DEF Register
  <1>2. /\ early[t] \in Seq(Events) /\ InLine(early[t])
        /\ WireOf(t)' = WireOf(t) /\ WireLine(t)' /\ HandOf(t)' = {} /\ HandOf(t) = {}
    BY <1>0, SameWire DEF PipeTypes, LineOf, Lines, Fresh, HandOf
  <1>3. /\ early[t] \o ends \in Seq(Events) /\ InLine(early[t] \o ends)
        /\ Range(early[t] \o ends) \subseteq Range(early[t]) \cup {Exit}
        /\ closed \/ Range(early[t] \o ends) \subseteq Range(early[t])
    <2>1. CASE closed
      <3>1. early[t] \o ends = Append(early[t], Exit)
        BY <1>2, <2>1
      <3>2. Before(Range(early[t]), {Exit}) /\ Exit \in Events
        BY DEF Before, Follows, Events
      <3>. QED BY <1>2, <2>1, <3>1, <3>2, AppendLine
    <2>2. CASE ~closed
      <3>1. early[t] \o ends = early[t]
        BY <1>2, <2>2
      <3>. QED BY <1>2, <3>1
    <2>. QED BY <2>1, <2>2
  <1>4. /\ x \in Handler /\ x.backlog = early[t] \o ends /\ x.todo = <<>> /\ x.by = "no"
        /\ ~x.over
    <2>. DEFINE b == early[t] \o ends
    <2>1. x = [NoHandler EXCEPT !.listed = TRUE, !.backlog = b]
      BY DEF Registered
    <2>2. b \in Seq(Events)
      BY <1>3
    <2>3. /\ NoHandler \in Handler /\ NoHandler.todo = <<>> /\ NoHandler.by = "no"
          /\ ~NoHandler.over
      BY EmptyLine DEF NoHandler, Handler
    <2>. HIDE DEF b, x
    <2>4. /\ x \in Handler /\ x.backlog = b /\ x.todo = NoHandler.todo
          /\ x.by = NoHandler.by /\ x.over = NoHandler.over
      BY <2>1, <2>2, <2>3 DEF Handler
    <2>. QED BY <2>3, <2>4 DEF b
  <1>. HIDE DEF x, ends
  <1>5. handlers'[t] = x /\ early'[t] = <<>> /\ handed'[t] = <<>>
    BY <1>0, <1>1 DEF PipeTypes, Fresh
  <1>6. phase # "off"
    <2>1. t # None
      BY <1>0, BoundsAreNaturals DEF None, Terms
    <2>2. rows # Nothing \/ opener # None
      BY <1>0, <2>1 DEF ToCome, Nothing
    <2>. QED BY <1>0, <2>2 DEF Gathered
  <1>7. OneStep(t, x)
    <2>1. <<>> \in Seq(Events)
      BY EmptyLine
    <2>2. /\ early' \in [Terms -> Seq(Events)]
          /\ \A u \in Terms \ {t} : early'[u] = early[u] /\ HandOf(u)' = HandOf(u)
      BY <1>0, <1>1, <2>1 DEF PipeTypes, HandOf
    <2>. QED BY <1>0, <1>1, <1>6, <2>2 DEF OneStep, PipeTypes
  <1>8. Older
    BY <1>0, SameOlder
  <1>9. closed => WireOf(t) = {} /\ Sent(t, Exit)
    <2>1. ASSUME closed PROVE ~up /\ wire = <<>>
      BY <1>0, <2>1 DEF Gathered
    <2>2. ASSUME closed PROVE WireOf(t) = {}
      BY <2>1, <2>2 DEF WireOf
    <2>3. ASSUME closed PROVE Sent(t, Exit)
      <3>1. terms[t].stage \in Ended /\ terms[t].count \in Nat
        BY <1>0, <2>1, <2>3, TermsTyped DEF LinkTypes, Gathered, Ended
      <3>. QED BY <3>1 DEF Sent, Exit, Events
    <2>. QED BY <2>2, <2>3
  <1>10. Line(t)'
    <2>1. Ordered({}, {}, {}, {}, Range(early[t]), WireOf(t))
      BY <1>0, <1>2, EmptyLine DEF LineOf, Line, Fresh
    <2>2. Ordered({}, {}, Range(early[t] \o ends), {}, {}, WireOf(t))
      BY <1>3, <1>9, <2>1, OrderedListed
    <2>. QED BY <1>2, <1>4, <1>5, <2>2, EmptyLine DEF Line
  <1>11. Lines(t)'
    BY <1>2, <1>3, <1>4, <1>5, EmptyLine DEF Lines
  <1>12. AllSent(t)'
    <2>1. \A f \in Range(early[t] \o ends) \cup WireOf(t) : Sent(t, f)
      BY <1>0, <1>3, <1>9 DEF LineOf, AllSent
    <2>. QED BY <1>0, <1>2, <1>4, <1>5, <1>8, <2>1, EmptyLine, SentStays DEF AllSent
  <1>13. HandedLine(t)' /\ EndsOnce(t)' /\ Runner(t)'
    BY <1>4, <1>5, EmptyLine DEF HandedLine, EndsOnce, Runner
  <1>14. (t \in ToCome)' => FALSE
    BY <1>0 DEF ToCome
  <1>15. LineOf(t)'
    BY <1>10, <1>11, <1>12, <1>13, <1>14 DEF LineOf
  <1>. QED BY <1>0, <1>4, <1>7, <1>15, OneLine

LEMMA AdoptsLine ==
    ASSUME CleanerInv, CleanerInv', LineInv, NEW t \in DOMAIN terms, Adopts(t) PROVE LineInv'
  <1>1. /\ phase = "adopting" /\ t \in DOMAIN rows /\ Register(t)
        /\ rows' = [u \in DOMAIN rows \ {t} |-> rows[u]]
        /\ UNCHANGED <<terms, up, wire, closed, phase, found, handed, opener>>
    BY DEF Adopts, service
  <1>2. opener = None /\ t # None
    BY <1>1, TermsInTerms, BoundsAreNaturals DEF LineInv, Gathered, None, Terms
  <1>3. rows # Nothing
    BY <1>1 DEF Nothing
  <1>. QED BY <1>1, <1>2, <1>3, RegistersLine DEF ToCome

LEMMA AnsweredLine ==
    ASSUME CleanerInv, CleanerInv', LineInv, Answered PROVE LineInv'
  <1>1. /\ opener \in DOMAIN terms /\ opener' = None /\ Register(opener)
        /\ UNCHANGED <<terms, up, wire, closed, phase, found, handed, rows>>
    BY DEF Answered, At, service, windowVars, history
  <1>2. opener # None
    BY <1>1, TermsInTerms, BoundsAreNaturals DEF None, Terms
  <1>3. DOMAIN rows = {}
    BY <1>2 DEF LineInv, Gathered, Nothing
  <1>. QED BY <1>1, <1>2, <1>3, RegistersLine DEF ToCome

\* The window quits: nothing is handed on any more.
LEMMA DetachesLine ==
    ASSUME CleanerInv, CleanerInv', LineInv, Detaches PROVE LineInv'
  <1>0. LinkTypes /\ LinkTypes' /\ PipeTypes /\ Gathered
    BY DEF CleanerInv, LineInv
  <1>1. /\ phase = "linked" /\ phase' = "quitting"
        /\ handlers' = [t \in Terms |-> [handlers[t] EXCEPT !.listed = FALSE]]
        /\ early' = [t \in Terms |-> <<>>]
        /\ UNCHANGED <<terms, up, wire, rows, closed, found, opener, handed>>
    BY DEF Detaches, service, registry, history
  <1>2. Older
    BY <1>0, <1>1, SameOlder
  <1>3. \A t \in Terms :
           /\ handlers'[t] \in Handler /\ handlers'[t].todo = handlers[t].todo
           /\ handlers'[t].backlog = handlers[t].backlog /\ handlers'[t].over = handlers[t].over
           /\ handlers'[t].by = handlers[t].by /\ ~handlers'[t].listed
    <2>1. \A h \in Handler :
             LET x == [h EXCEPT !.listed = FALSE]
             IN /\ x \in Handler /\ x.todo = h.todo /\ x.backlog = h.backlog /\ x.over = h.over
                /\ x.by = h.by /\ ~x.listed
      BY DEF Handler
    <2>2. \A t \in Terms : handlers[t] \in Handler
      BY <1>0 DEF PipeTypes
    <2>. QED BY <1>1, <2>1, <2>2
  <1>4. PipeTypes'
    <2>1. handlers' \in [Terms -> Handler] /\ early' \in [Terms -> Seq(Events)]
      BY <1>1, <1>3, EmptyLine
    <2>. QED BY <1>0, <1>1, <1>2, <2>1 DEF PipeTypes, Older, Phases
  <1>5. Gathered'
    BY <1>0, <1>1 DEF Gathered
  <1>6. ASSUME NEW t \in Terms PROVE LineOf(t)'
    <2>1. /\ LineOf(t) /\ HandOf(t)' = HandOf(t) /\ WireOf(t)' = WireOf(t) /\ WireLine(t)'
          /\ early'[t] = <<>>
      BY <1>1, SameWire DEF LineInv, LineOf, Lines, HandOf
    <2>2. Line(t)'
      <3>1. Ordered(Range(handed[t]), Range(handlers[t].todo), Range(handlers[t].backlog),
                    HandOf(t), {}, WireOf(t))
        BY <2>1, OrderedFewer DEF LineOf, Line
      <3>. QED BY <1>1, <1>3, <2>1, <3>1, EmptyLine DEF Line
    <2>3. Lines(t)'
      BY <1>3, <2>1, EmptyLine DEF LineOf, Lines
    <2>4. AllSent(t)'
      BY <1>0, <1>1, <1>2, <1>3, <2>1, EmptyLine, SentStays DEF LineOf, AllSent
    <2>5. HandedLine(t)' /\ EndsOnce(t)' /\ Runner(t)'
      BY <1>1, <1>3, <2>1 DEF LineOf, HandedLine, EndsOnce, Runner, Idle
    <2>6. (t \in ToCome)' => Fresh(t)'
      BY <1>1, <1>3, <2>1 DEF LineOf, ToCome, Fresh
    <2>. QED BY <2>2, <2>3, <2>4, <2>5, <2>6 DEF LineOf
  <1>. QED BY <1>4, <1>5, <1>6 DEF LineInv

-----------------------------------------------------------------------------
LEMMA InitLine == LInit => LineInv
  <1>. SUFFICES ASSUME LInit PROVE LineInv
    OBVIOUS
  <1>1. NoHandler \in Handler /\ <<>> \in Seq(Events)
    BY EmptyLine DEF NoHandler, Handler
  <1>2. PipeTypes
    <2>1. /\ handlers \in [Terms -> Handler] /\ early \in [Terms -> Seq(Events)]
          /\ handed \in [Terms -> Seq(Events)]
      BY <1>1 DEF LInit
    <2>2. wire \in Seq(({None} \cup Terms) \X Events) /\ DOMAIN rows = {}
          /\ Len(terms) = 0 /\ DOMAIN terms = {}
      BY DEF LInit, Nothing
    <2>3. up \in BOOLEAN /\ closed \in BOOLEAN /\ phase \in Phases
          /\ found \subseteq Terms \X Events
      BY DEF LInit, Phases
    <2>4. MaxTerms \in Nat
      BY BoundsAreNaturals
    <2>. QED BY <2>1, <2>2, <2>3, <2>4 DEF PipeTypes
  <1>3. \A t \in Terms : Fresh(t) /\ early[t] = <<>>
    BY DEF LInit, Fresh, HandOf, NoHandler
  <1>4. Gathered
    BY <1>3 DEF LInit, Gathered
  <1>5. ASSUME NEW t \in Terms PROVE LineOf(t)
    <2>1. Fresh(t) /\ early[t] = <<>> /\ WireOf(t) = {} /\ WireLine(t)
      BY <1>3 DEF LInit, WireOf, WireLine
    <2>2. Line(t)
      BY <2>1, EmptyLine DEF Fresh, Line, Ordered, Before
    <2>3. Lines(t) /\ AllSent(t) /\ HandedLine(t) /\ EndsOnce(t) /\ Runner(t)
      BY <2>1, EmptyLine DEF Fresh, Lines, AllSent, HandedLine, EndsOnce, Runner
    <2>. QED BY <2>1, <2>2, <2>3 DEF LineOf
  <1>. QED BY <1>2, <1>4, <1>5 DEF LineInv

\* The inductive invariant of the line from the service to the handlers.
THEOREM LineHolds == LSpec => []LineInv
  <1>1. LInit => LineInv
    BY InitLine
  <1>2. CleanerInv /\ CleanerInv' /\ LineInv /\ [LNext]_vars => LineInv'
    <2>. SUFFICES ASSUME CleanerInv, CleanerInv', LineInv, [LNext]_vars PROVE LineInv'
      OBVIOUS
    <2>1. CASE \E t \in DOMAIN terms : Starts(t) \/ Stored(t) \/ Pumps(t) \/ Exits(t) \/ Kills(t)
      BY <2>1, StartsKeeps, PumpsKeeps, ExitsKeeps, KillKeeps
    <2>2. CASE \E t \in DOMAIN terms : Adopts(t) \/ Hands(t) \/ Flushes(t) \/ Runs(t)
      BY <2>2, AdoptsLine, HandsLine, FlushesLine, RunsLine
    <2>3. CASE \/ TakesSeen \/ AdoptsNoMore \/ Linked \/ GivesUp \/ LooksAtOwn \/ UNCHANGED vars
               \/ \E t \in DOMAIN terms : Closes(t) \/ LooksAtList(t)
      BY <2>3, AsideSteps
    <2>4. CASE ServiceEnds \/ Connects \/ EndsUnowned \/ \E p \in Panes : Opens(p)
      BY <2>4, EndKeeps, ConnectsLine, KillKeeps, OpensKeeps
    <2>5. CASE Reads \/ ReadsTheEnd \/ Answered \/ Detaches
      BY <2>5, ReadsLine, ReadsTheEndLine, AnsweredLine, DetachesLine
    <2>6. CASE LetsGo \/ Crashes
      BY <2>6, GoneLine DEF LetsGo, Crashes
    <2>. QED BY <2>1, <2>2, <2>3, <2>4, <2>5, <2>6 DEF LNext
  <1>. QED BY <1>1, <1>2, CleanerHolds, PTL DEF LSpec

\* TERM-105: a terminal's handlers get its output in the order the service sent
\* it, what was held included, then its end, once, and nothing after that.
THEOREM OutputComesInOrder == LSpec => []HandedInOrder
  <1>1. LineInv => HandedInOrder
    BY DEF LineInv, LineOf, HandedLine, HandedInOrder
  <1>. QED BY <1>1, LineHolds, PTL
-----------------------------------------------------------------------------
(* Output that is still to come, and output that is saved.                 *)

\* What t printed that this window has and has not drawn.  A window that quits
\* draws no more than what its handlers and the reader have by then.
Ahead(t) == Range(handlers[t].todo) \cup Range(handlers[t].backlog) \cup HandOf(t)
Upstream(t) == IF phase = "quitting" THEN {} ELSE Range(early[t]) \cup WireOf(t)
ToDraw(t) == (Ahead(t) \cup Upstream(t)) \ {Exit}

\* The terminals the window draws, is to take back, or starts; and the count of
\* what it drew of one, or is to begin after.
Placed == held \cup DOMAIN rows \cup ({opener} \ {None})
DrawnTo(t) == IF t \in held THEN drawn[t] ELSE IF t \in DOMAIN rows THEN rows[t] ELSE 0

\* What is to be drawn comes after what was drawn, and without a gap: as far as
\* the terminal has printed, while it prints.
Onward(t) ==
    /\ DrawnTo(t) \in Nat /\ DrawnTo(t) <= terms[t].count
    /\ \A e \in ToDraw(t) : e > DrawnTo(t)
NoGap(t) ==
    /\ \A e \in ToDraw(t), n \in Nat : DrawnTo(t) < n /\ n <= e => n \in ToDraw(t)
    /\ phase # "quitting" /\ terms[t].stage \notin Ended =>
           \A n \in Nat : DrawnTo(t) < n /\ n <= terms[t].count => n \in ToDraw(t)
Coming(t) == Onward(t) /\ (t \notin lossy => NoGap(t))

\* Where saved output s has t's, and which chunks these are: in turn, up to n,
\* up to n without a gap, and all up to n.
Spots(s, t) == {i \in DOMAIN s : s[i][1] = t}
ChunksIn(s, t) == {s[i][2] : i \in Spots(s, t)}
InTurn(s, t) == \A i, j \in Spots(s, t) : i < j => s[i][2] < s[j][2]
UpTo(s, t, n) == \A k \in ChunksIn(s, t) : k <= n
Gapless(s, t, n) == \A k \in ChunksIn(s, t) : k..n \subseteq ChunksIn(s, t)
AllUpTo(s, t, n) == 1..n = ChunksIn(s, t)

\* The terminals whose saved output says how far it goes.
Known == DOMAIN terms \ (lossy \cup unplaced)

\* What is saved of t: whole where nothing is missing, and from its first chunk
\* where nothing was cut.
Kept(t) ==
    /\ InTurn(SavedBy(t), t) /\ UpTo(SavedBy(t), t, savedTo[t])
    /\ t \notin missing =>
           /\ Gapless(SavedBy(t), t, savedTo[t])
           /\ terms[t].pane \notin cut => AllUpTo(SavedBy(t), t, savedTo[t])
Agrees(t, n) == savedTo[t] <= n /\ (t \notin missing => savedTo[t] = n)

\* What is saved of t goes as far as the window drew, as the record of a quit
\* says, and no further than the row it is taken back from.
SavedFits(t) ==
    /\ Kept(t) /\ savedTo[t] <= terms[t].count
    /\ t \in held => Agrees(t, drawn[t])
    /\ t = opener => savedTo[t] = 0
    /\ t \in DOMAIN seenFile => Agrees(t, seenFile[t])
    /\ t \in DOMAIN rows =>
           savedTo[t] <= rows[t] /\ (t \in DOMAIN seen => Agrees(t, seen[t]))

\* A terminal is one of: drawn, still to be taken back, waited for.
Apart ==
    /\ held \cap DOMAIN rows = {} /\ opener \notin held
    /\ \A t \in Terms \ held : drawn[t] = 0
    /\ \A t \in held : Exit \notin Range(handed[t])
    /\ phase \in {"off", "attached"} => held = {} /\ DOMAIN seen = {}
    /\ phase \notin {"off", "attached"} => DOMAIN seenFile = {}

SavedTypes ==
    /\ saved \in [Panes -> Seq(Terms \X Chunks)]
    /\ \A p \in Panes : \A i \in DOMAIN saved[p] : saved[p][i][1] \in DOMAIN terms
    /\ drawn \in [Terms -> Nat]
    /\ savedTo \in [Terms -> 0..MaxOutput] /\ cut \subseteq Panes
    /\ \A t \in Terms \ DOMAIN terms : savedTo[t] = 0
    /\ due \cup killing \cup lossy \cup unplaced \cup missing \subseteq DOMAIN terms
    /\ DOMAIN seenFile \cup DOMAIN seen \subseteq DOMAIN terms
    /\ \A t \in DOMAIN seenFile : seenFile[t] \in Nat
    /\ \A t \in DOMAIN seen : seen[t] \in Nat
    /\ \A t \in DOMAIN rows : rows[t] \in Nat
    /\ \A t \in DOMAIN terms : terms[t].mark \in 1..window
    /\ window <= spent /\ spent <= MaxEvents
    /\ phase # "off" => window > 0

SavedInv ==
    /\ SavedTypes /\ Apart
    /\ \A t \in Placed : Coming(t)
    /\ \A t \in Known : SavedFits(t)

-----------------------------------------------------------------------------
\* Steps that open no terminal and count nothing.
Stay ==
    /\ DOMAIN terms' = DOMAIN terms
    /\ \A t \in DOMAIN terms :
           /\ terms'[t].pane = terms[t].pane /\ terms'[t].mark = terms[t].mark
           /\ terms'[t].count = terms[t].count
           /\ terms[t].stage \in Ended => terms'[t].stage \in Ended

LEMMA PutStays ==
    ASSUME LinkTypes, NEW t \in DOMAIN terms, NEW stage, Put(t, stage),
           terms[t].stage \in Ended => stage \in Ended
    PROVE  Stay
  <1>. DEFINE x == [terms[t] EXCEPT !.stage = stage]
  <1>1. terms[t] \in Term /\ terms \in Seq(Term)
    BY DEF LinkTypes
  <1>2. /\ x.pane = terms[t].pane /\ x.mark = terms[t].mark /\ x.count = terms[t].count
        /\ x.stage = stage
    <2>1. terms[t] \in Term
      BY <1>1
    <2>. QED BY <2>1 DEF Term
  <1>3. terms' = [terms EXCEPT ![t] = x]
    BY DEF Put
  <1>. HIDE DEF x
  <1>4. DOMAIN terms' = DOMAIN terms
        /\ \A u \in DOMAIN terms : terms'[u] = IF u = t THEN x ELSE terms[u]
    BY <1>1, <1>3
  <1>. QED BY <1>2, <1>4 DEF Stay

LEMMA KilledStays == ASSUME LinkTypes, NEW t \in DOMAIN terms, Killed(t) PROVE Stay
  <1>. DEFINE stage == IF up /\ terms[t].stage = "kept" THEN "killed" ELSE terms[t].stage
  <1>1. Put(t, stage) /\ (terms[t].stage \in Ended => stage \in Ended)
    BY DEF Killed, Put, Ended
  <1>. HIDE DEF stage
  <1>. QED BY <1>1, PutStays

LEMMA EndStays ==
    ASSUME LinkTypes, ServiceEnds
    PROVE  Stay /\ \A t \in DOMAIN terms' : terms'[t].stage \in Ended
  <1>. DEFINE Over(x) == [x EXCEPT !.stage = IF @ \in {"kept", "killed", "over"}
                                             THEN "over" ELSE "failed"]
  <1>1. terms' = [t \in DOMAIN terms |-> Over(terms[t])]
    BY DEF ServiceEnds
  <1>2. \A x \in Term : /\ Over(x).pane = x.pane /\ Over(x).mark = x.mark
                        /\ Over(x).count = x.count /\ Over(x).stage \in Ended
    BY DEF Term, Ended
  <1>. HIDE DEF Over
  <1>3. DOMAIN terms' = DOMAIN terms /\ \A t \in DOMAIN terms : terms'[t] = Over(terms[t])
    BY <1>1
  <1>4. \A t \in DOMAIN terms : terms[t] \in Term
    BY DEF LinkTypes
  <1>. QED BY <1>2, <1>3, <1>4 DEF Stay

LEMMA SameStays == ASSUME UNCHANGED terms PROVE Stay
  BY DEF Stay

\* What is saved of a terminal is the same while the saved output is.
LEMMA SavedSame ==
    ASSUME UNCHANGED <<saved, savings>>, NEW t, terms'[t].pane = terms[t].pane
    PROVE  /\ Kept(t)' <=> Kept(t)
           /\ savedTo' = savedTo /\ missing' = missing /\ unplaced' = unplaced /\ cut' = cut
  <1>1. savedTo' = savedTo /\ missing' = missing /\ unplaced' = unplaced /\ cut' = cut
    BY DEF savings
  <1>2. SavedBy(t)' = SavedBy(t)
    BY DEF SavedBy
  <1>. QED BY <1>1, <1>2 DEF Kept

\* What a step that neither draws nor sends does to a terminal's output.
Shortens(t) ==
    /\ ToDraw(t)' \subseteq ToDraw(t) /\ (phase = "quitting" => phase' = "quitting")
    /\ t \notin lossy' =>
          /\ \A e \in ToDraw(t)', n \in ToDraw(t) : n < e => n \in ToDraw(t)'
          /\ ToDraw(t)' = ToDraw(t) \/ phase' = "quitting" \/ terms'[t].stage \in Ended

LEMMA ToDrawEvents ==
    ASSUME PipeTypes, NEW t \in Terms
    PROVE  ToDraw(t) \subseteq Events /\ ToDraw(t) \subseteq Nat
  <1>1. /\ handlers[t].todo \in Seq(Events) /\ handlers[t].backlog \in Seq(Events)
        /\ early[t] \in Seq(Events)
    BY DEF PipeTypes, Handler
  <1>2. \A s \in Seq(Events) : Range(s) \subseteq Events
    BY DEF Range
  <1>3. WireOf(t) \subseteq Events
    <2>1. \A i \in DOMAIN wire : wire[i] \in ({None} \cup Terms) \X Events
      BY DEF PipeTypes
    <2>2. \A i \in DOMAIN wire : wire[i][2] \in Events
      BY <2>1
    <2>. QED BY <2>2 DEF WireOf
  <1>4. HandOf(t) \subseteq Events
    BY DEF HandOf
  <1>5. ToDraw(t) \subseteq Events
    BY <1>1, <1>2, <1>3, <1>4 DEF ToDraw, Ahead, Upstream
  <1>. QED BY <1>5, EventsAreNaturals

LEMMA ComingShortens ==
    ASSUME LinkTypes, PipeTypes, Stay, NEW t \in DOMAIN terms, t \in Terms, Coming(t), Shortens(t),
           DrawnTo(t)' = DrawnTo(t), lossy \subseteq lossy'
    PROVE  Coming(t)'
  <1>1. DrawnTo(t) \in Nat /\ DrawnTo(t) <= terms[t].count
        /\ \A e \in ToDraw(t) : e > DrawnTo(t)
    BY DEF Coming, Onward
  <1>2. terms'[t].count = terms[t].count /\ (terms[t].stage \in Ended => terms'[t].stage \in Ended)
    BY DEF Stay
  <1>3. Onward(t)'
    BY <1>1, <1>2 DEF Onward, Shortens
  <1>4. ASSUME t \notin lossy' PROVE NoGap(t)'
    <2>1. NoGap(t)
      BY <1>4 DEF Coming
    <2>2. ASSUME NEW e \in ToDraw(t)', NEW n \in Nat, DrawnTo(t) < n, n <= e
          PROVE  n \in ToDraw(t)'
      <3>1. n \in ToDraw(t) /\ e \in Nat
        BY <2>1, <2>2, ToDrawEvents DEF NoGap, Shortens
      <3>2. CASE n = e
        BY <2>2, <3>2
      <3>3. CASE n # e
        BY <1>4, <2>2, <3>1, <3>3 DEF Shortens
      <3>. QED BY <3>2, <3>3
    <2>3. ASSUME phase' # "quitting", terms'[t].stage \notin Ended,
                 NEW n \in Nat, DrawnTo(t) < n, n <= terms[t].count
          PROVE  n \in ToDraw(t)'
      BY <1>2, <1>4, <2>1, <2>3 DEF NoGap, Shortens
    <2>. QED BY <1>2, <2>2, <2>3 DEF NoGap
  <1>. QED BY <1>3, <1>4 DEF Coming

\* Steps that save nothing, draw nothing and place no terminal: the window may
\* hold fewer terminals, and moves what is to be drawn along.
Aloof ==
    /\ Stay /\ UNCHANGED <<saved, savings, rows, window>> /\ \A t \in held' : handed'[t] = handed[t]
    /\ lossy \subseteq lossy' /\ due' \cup killing' \cup lossy' \subseteq DOMAIN terms
    /\ opener' \in {None, opener} /\ held' \subseteq held
    /\ drawn' \in [Terms -> Nat] /\ \A t \in Terms : drawn'[t] = IF t \in held' THEN drawn[t] ELSE 0
    /\ \A t \in DOMAIN seenFile' : t \in DOMAIN seenFile /\ seenFile'[t] = seenFile[t]
    /\ \A t \in DOMAIN seen' : \/ t \in DOMAIN seen /\ seen'[t] = seen[t]
                               \/ t \in DOMAIN seenFile /\ seen'[t] = seenFile[t]
    /\ spent <= spent' /\ spent' <= MaxEvents
    /\ phase' # "off" => phase # "off"
    /\ phase' \in {"off", "attached"} => held' = {} /\ DOMAIN seen' = {}
    /\ phase' \notin {"off", "attached"} => DOMAIN seenFile' = {}
    /\ \A t \in Placed' : Shortens(t)

LEMMA PlacedTerms ==
    ASSUME CleanerInv, LineInv
    PROVE  Placed \subseteq DOMAIN terms /\ Placed \subseteq Terms /\ None \notin Placed
  <1>1. held \subseteq DOMAIN terms /\ opener \in {None} \cup DOMAIN terms /\ DOMAIN rows \subseteq DOMAIN terms
    BY DEF CleanerInv, LinkTypes, LineInv, PipeTypes
  <1>2. Placed \subseteq DOMAIN terms
    BY <1>1 DEF Placed
  <1>3. \A t \in Terms : t # None
    BY BoundsAreNaturals DEF None, Terms
  <1>. QED BY <1>2, <1>3, TermsInTerms

LEMMA AloofKeeps ==
    ASSUME CleanerInv, CleanerInv', LineInv, LineInv', SavedInv, Aloof PROVE SavedInv'
  <1>0. /\ LinkTypes /\ LinkTypes' /\ PipeTypes /\ Gathered /\ SavedTypes /\ Apart
        /\ DOMAIN terms \subseteq Terms /\ DOMAIN terms' = DOMAIN terms
        /\ UNCHANGED <<saved, savings, rows, window>> /\ held' \subseteq held
    BY TermsInTerms DEF CleanerInv, LineInv, SavedInv, Aloof, Stay
  <1>1. SavedTypes'
    <2>1. /\ DOMAIN seenFile' \cup DOMAIN seen' \subseteq DOMAIN terms
          /\ \A t \in DOMAIN seenFile' : seenFile'[t] \in Nat
          /\ \A t \in DOMAIN seen' : seen'[t] \in Nat
      BY <1>0 DEF Aloof, SavedTypes
    <2>2. \A t \in DOMAIN terms' : terms'[t].mark \in 1..window
      BY <1>0 DEF Aloof, Stay, SavedTypes
    <2>3. window \in Nat /\ spent \in Nat /\ spent' \in Nat /\ MaxEvents \in Nat
      BY <1>0, BoundsAreNaturals DEF LinkTypes
    <2>4. window <= spent' /\ spent' <= MaxEvents /\ (phase' # "off" => window > 0)
      BY <1>0, <2>3 DEF Aloof, SavedTypes
    <2>. QED BY <1>0, <2>1, <2>2, <2>4 DEF Aloof, SavedTypes, savings
  <1>2. Apart'
    <2>1. held' \cap DOMAIN rows = {} /\ opener' \notin held'
      <3>1. None \notin held
        BY <1>0, BoundsAreNaturals DEF None, Terms, LinkTypes
      <3>. QED BY <1>0, <3>1 DEF Aloof, Apart
    <2>. QED BY <1>0, <2>1 DEF Aloof, Apart
  <1>3. ASSUME NEW t \in Placed' PROVE Coming(t)'
    <2>1. t \in Placed /\ t \in DOMAIN terms /\ t \in Terms /\ t # None
      <3>1. t \in Placed' /\ t # None
        BY <1>0, <1>3, BoundsAreNaturals DEF Placed, LinkTypes, None, Terms, PipeTypes
      <3>2. t \in Placed
        BY <1>0, <3>1 DEF Placed, Aloof
      <3>. QED BY <3>1, <3>2, PlacedTerms
    <2>2. DrawnTo(t)' = DrawnTo(t)
      <3>1. CASE t \in held'
        BY <1>0, <2>1, <3>1 DEF DrawnTo, Aloof
      <3>2. CASE t \notin held'
        <4>1. t \in DOMAIN rows \/ t = opener
          BY <1>0, <1>3, <2>1, <3>2 DEF Placed, Aloof
        <4>2. t \notin held
          BY <1>0, <4>1 DEF Apart
        <4>. QED BY <1>0, <3>2, <4>2 DEF DrawnTo
      <3>. QED BY <3>1, <3>2
    <2>3. Coming(t)
      BY <2>1 DEF SavedInv
    <2>. QED BY <1>0, <1>3, <2>1, <2>2, <2>3, ComingShortens DEF Aloof
  <1>4. ASSUME NEW t \in Known' PROVE SavedFits(t)'
    <2>1. t \in DOMAIN terms /\ t \in Known /\ SavedFits(t) /\ t \in Terms
      BY <1>0, <1>4 DEF Aloof, SavedInv, Known, savings
    <2>2. terms'[t].pane = terms[t].pane /\ terms'[t].count = terms[t].count
      BY <2>1 DEF Aloof, Stay
    <2>3. (Kept(t)' <=> Kept(t)) /\ savedTo' = savedTo /\ missing' = missing
      BY <1>0, <2>2, SavedSame
    <2>4. t # None
      BY <2>1, BoundsAreNaturals DEF None, Terms
    <2>. QED BY <1>0, <2>1, <2>2, <2>3, <2>4 DEF SavedFits, Agrees, Aloof
  <1>. QED BY <1>1, <1>2, <1>3, <1>4 DEF SavedInv

\* The events are where they were.
LEMMA PipeSame ==
    ASSUME UNCHANGED <<handlers, found, early, wire>>, phase' = "quitting" <=> phase = "quitting"
    PROVE  \A t : Shortens(t)
  <1>. TAKE t
  <1>1. HandOf(t)' = HandOf(t) /\ WireOf(t)' = WireOf(t)
    BY DEF HandOf, WireOf
  <1>2. ToDraw(t)' = ToDraw(t)
    BY <1>1 DEF ToDraw, Ahead, Upstream
  <1>. QED BY <1>2 DEF Shortens

\* Steps that leave the registry and the records of quits alone, too.
Unheld ==
    /\ Stay /\ UNCHANGED <<saved, savings, rows, handed, window, held, drawn, seen, seenFile>>
    /\ lossy \subseteq lossy' /\ due' \cup killing' \cup lossy' \subseteq DOMAIN terms
    /\ opener' \in {None, opener}
    /\ spent' = spent \/ Spend
    /\ phase' = phase \/ {phase, phase'} \cap {"off", "attached"} = {}

LEMMA SpendsLess ==
    ASSUME LinkTypes, SavedTypes, spent' = spent \/ Spend
    PROVE  spent <= spent' /\ spent' <= MaxEvents
  BY BoundsAreNaturals DEF LinkTypes, SavedTypes, Spend

LEMMA UnheldIsAloof ==
    ASSUME LinkTypes, SavedInv, Unheld, \A t \in Placed' : Shortens(t) PROVE Aloof
  <1>1. SavedTypes /\ Apart
    BY DEF SavedInv
  <1>2. spent <= spent' /\ spent' <= MaxEvents
    BY <1>1, SpendsLess DEF Unheld
  <1>3. drawn' \in [Terms -> Nat] /\ \A t \in Terms : drawn'[t] = IF t \in held' THEN drawn[t] ELSE 0
    BY <1>1 DEF Unheld, SavedTypes, Apart
  <1>4. /\ phase' # "off" => phase # "off"
        /\ phase' \in {"off", "attached"} => held' = {} /\ DOMAIN seen' = {}
        /\ phase' \notin {"off", "attached"} => DOMAIN seenFile' = {}
    BY <1>1 DEF Unheld, Apart
  <1>. QED BY <1>2, <1>3, <1>4 DEF Unheld, Aloof

LEMMA UnheldKeeps ==
    ASSUME CleanerInv, CleanerInv', LineInv, LineInv', SavedInv,
           Unheld, \A t \in Placed' : Shortens(t)
    PROVE  SavedInv'
  BY UnheldIsAloof, AloofKeeps DEF CleanerInv

LEMMA AsidesSaved ==
    ASSUME CleanerInv, CleanerInv', LineInv, LineInv', SavedInv,
           \/ AdoptsNoMore \/ Linked \/ GivesUp \/ LooksAtOwn \/ EndsUnowned \/ UNCHANGED vars
           \/ \E t \in DOMAIN terms : Starts(t) \/ Stored(t) \/ Kills(t) \/ LooksAtList(t)
    PROVE  SavedInv'
  <1>0. /\ LinkTypes /\ SavedTypes /\ held \subseteq DOMAIN terms
        /\ due \cup killing \cup lossy \subseteq DOMAIN terms
    BY DEF CleanerInv, LinkTypes, SavedInv, SavedTypes
  <1>. DEFINE Pipe == UNCHANGED <<handlers, found, early, wire>>
                      /\ (phase' = "quitting" <=> phase = "quitting")
              Rest == /\ UNCHANGED <<saved, savings, rows, handed, window, held, drawn, seen, seenFile, lossy>>
                      /\ due' \subseteq due \cup held /\ killing' \subseteq killing
                      /\ opener' \in {None, opener}
                      /\ spent' = spent \/ Spend
                      /\ phase' = phase \/ {phase, phase'} \cap {"off", "attached"} = {}
  <1>1. CASE AdoptsNoMore \/ Linked
    <2>1. Stay
      BY <1>1, SameStays DEF AdoptsNoMore, Linked, service
    <2>2. Pipe /\ Rest
      BY <1>1 DEF AdoptsNoMore, Linked, service, link, registry, history
    <2>. QED BY <1>0, <2>1, <2>2, PipeSame, UnheldKeeps DEF Unheld
  <1>2. CASE GivesUp \/ LooksAtOwn \/ UNCHANGED vars
    <2>1. Stay
      BY <1>2, SameStays DEF GivesUp, LooksAtOwn, service, vars
    <2>2. Pipe /\ Rest
      BY <1>2 DEF GivesUp, LooksAtOwn, service, link, registry, windowVars, history, vars
    <2>. QED BY <1>0, <2>1, <2>2, PipeSame, UnheldKeeps DEF Unheld
  <1>3. CASE EndsUnowned
    <2>1. Stay
      BY <1>0, <1>3, KilledStays DEF EndsUnowned, CleanerInv, ListedIsFree
    <2>2. Pipe /\ Rest
      BY <1>3 DEF EndsUnowned, link, registry, windowVars, history
    <2>. QED BY <1>0, <2>1, <2>2, PipeSame, UnheldKeeps DEF Unheld
  <1>4. ASSUME NEW t \in DOMAIN terms, Starts(t) \/ Stored(t) PROVE SavedInv'
    <2>1. PICK stage : Put(t, stage) /\ (terms[t].stage \in Ended => stage \in Ended)
      BY <1>4 DEF Starts, Stored, At, Ended
    <2>2. Stay
      BY <1>0, <2>1, PutStays
    <2>3. Pipe /\ Rest
      BY <1>4 DEF Starts, Stored, link, registry, windowVars, history
    <2>. QED BY <1>0, <2>2, <2>3, PipeSame, UnheldKeeps DEF Unheld
  <1>5. ASSUME NEW t \in DOMAIN terms, Kills(t) PROVE SavedInv'
    <2>1. Stay
      BY <1>0, <1>5, KilledStays DEF Kills
    <2>2. Pipe /\ Rest
      BY <1>5 DEF Kills, link, registry, windowVars, history
    <2>. QED BY <1>0, <2>1, <2>2, PipeSame, UnheldKeeps DEF Unheld
  <1>6. ASSUME NEW t \in DOMAIN terms, LooksAtList(t) PROVE SavedInv'
    <2>1. Stay
      BY <1>6, LooksAside, SameStays DEF service
    <2>2. Pipe /\ Rest
      BY <1>6, LooksAside DEF service, link, registry, windowVars, history
    <2>. QED BY <1>0, <2>1, <2>2, PipeSame, UnheldKeeps DEF Unheld
  <1>. QED BY <1>1, <1>2, <1>3, <1>4, <1>5, <1>6

\* The record of the last quit is taken, and a pane's terminal is let go.
LEMMA TakesSaved ==
    ASSUME CleanerInv, CleanerInv', LineInv, LineInv', SavedInv, TakesSeen PROVE SavedInv'
  <1>0. LinkTypes /\ SavedTypes /\ Apart
    BY DEF CleanerInv, SavedInv
  <1>1. /\ phase = "attached" /\ phase' = "adopting" /\ seen' = seenFile /\ DOMAIN seenFile' = {}
        /\ UNCHANGED <<terms, wire, saved, savings, window, rows, killing, handlers, early, found, due, held,
                       drawn, opener, spent, handed, lossy>>
    BY DEF TakesSeen, SeenTaken, Nothing, service, link, registry, history
  <1>2. spent <= spent' /\ spent' <= MaxEvents
    BY <1>0, <1>1, SpendsLess
  <1>3. drawn' \in [Terms -> Nat] /\ \A t \in Terms : drawn'[t] = IF t \in held' THEN drawn[t] ELSE 0
    BY <1>0, <1>1 DEF SavedTypes, Apart
  <1>4. \A t : Shortens(t)
    BY <1>1, PipeSame
  <1>5. Aloof
    BY <1>0, <1>1, <1>2, <1>3, <1>4, SameStays DEF Aloof, SavedTypes
  <1>. QED BY <1>5, AloofKeeps

LEMMA ClosesSaved ==
    ASSUME CleanerInv, CleanerInv', LineInv, LineInv', SavedInv, NEW t \in DOMAIN terms, Closes(t)
    PROVE  SavedInv'
  <1>0. LinkTypes /\ SavedTypes /\ Apart /\ t \in Terms
    BY TermsInTerms DEF CleanerInv, SavedInv
  <1>1. /\ phase = "linked" /\ phase' = phase /\ held' = held \ {t} /\ Spend
        /\ drawn' = [drawn EXCEPT ![t] = 0] /\ killing' = killing \cup {t}
        /\ UNCHANGED <<terms, wire, saved, savings, window, rows, handlers, early, found, due, seenFile,
                       seen, opener, handed, lossy>>
    BY DEF Closes, Drops, service, link, history
  <1>2. spent <= spent' /\ spent' <= MaxEvents
    BY <1>0, <1>1, SpendsLess
  <1>3. drawn' \in [Terms -> Nat] /\ \A u \in Terms : drawn'[u] = IF u \in held' THEN drawn[u] ELSE 0
    BY <1>0, <1>1 DEF SavedTypes, Apart
  <1>4. \A u : Shortens(u)
    BY <1>1, PipeSame
  <1>5. Aloof
    BY <1>0, <1>1, <1>2, <1>3, <1>4, SameStays DEF Aloof, SavedTypes, Apart
  <1>. QED BY <1>5, AloofKeeps

-----------------------------------------------------------------------------
(* The output moves along.                                                 *)

LEMMA DrawnAlike ==
    ASSUME NEW t, Ahead(t)' \cup Upstream(t)' = Ahead(t) \cup Upstream(t),
           phase = "quitting" => phase' = "quitting"
    PROVE  Shortens(t)
  BY DEF Shortens, ToDraw

LEMMA AheadFirst ==
    ASSUME NEW t, LineOf(t)
    PROVE  /\ \A e \in Ahead(t), f \in Range(early[t]) \cup WireOf(t) : Follows(e, f)
           /\ \A e \in Range(early[t]), f \in WireOf(t) : Follows(e, f)
  <1>1. Ordered(Range(handed[t]), Range(handlers[t].todo), Range(handlers[t].backlog),
                HandOf(t), Range(early[t]), WireOf(t))
    BY DEF LineOf, Line
  <1>. QED BY <1>1 DEF Ordered, Before, Ahead

LEMMA FollowsNoLess ==
    ASSUME NEW e \in Nat, NEW f \in Nat, Follows(e, f), f < e PROVE f = Exit
  BY DEF Follows, Exit

\* An event comes on the wire.
LEMMA WireGoesOn ==
    ASSUME wire \in Seq(WireEvent), wire # <<>>, wire' = Tail(wire),
           NEW t, NEW e, Head(wire) = <<t, e>>
    PROVE  \A u : WireOf(u) = WireOf(u)' \cup {f \in {e} : u = t}
  <1>1. /\ Len(wire') = Len(wire) - 1 /\ Len(wire) \in Nat \ {0}
        /\ \A i \in 1..Len(wire) - 1 : wire'[i] = wire[i + 1]
    OBVIOUS
  <1>2. wire[1] = <<t, e>>
    OBVIOUS
  <1>3. DOMAIN wire = 1..Len(wire) /\ DOMAIN wire' = 1..Len(wire) - 1
    BY <1>1
  <1>4. wire[1][1] = t /\ wire[1][2] = e /\ 1 \in DOMAIN wire
    BY <1>1, <1>2, <1>3
  <1>5. \A i \in DOMAIN wire : i = 1 \/ (i - 1 \in DOMAIN wire' /\ wire'[i - 1] = wire[i])
    BY <1>1, <1>3
  <1>6. \A i \in DOMAIN wire' : i + 1 \in DOMAIN wire /\ wire'[i] = wire[i + 1]
    BY <1>1, <1>3
  <1>7. ASSUME NEW u, NEW f \in WireOf(u) PROVE f \in WireOf(u)' \/ (u = t /\ f = e)
    <2>1. PICK i \in DOMAIN wire : wire[i][1] = u /\ wire[i][2] = f
      BY <1>7 DEF WireOf
    <2>2. CASE i = 1
      BY <1>4, <2>1, <2>2
    <2>3. CASE i # 1
      <3>1. i - 1 \in DOMAIN wire' /\ wire'[i - 1][1] = u /\ wire'[i - 1][2] = f
        BY <1>5, <2>1, <2>3
      <3>. QED BY <3>1 DEF WireOf
    <2>. QED BY <2>2, <2>3
  <1>8. ASSUME NEW u PROVE WireOf(u)' \cup {f \in {e} : u = t} \subseteq WireOf(u)
    <2>1. WireOf(u)' \subseteq WireOf(u)
      BY <1>6 DEF WireOf
    <2>2. u = t => e \in WireOf(u)
      BY <1>4 DEF WireOf
    <2>. QED BY <2>1, <2>2
  <1>. QED BY <1>7, <1>8

\* The service ends: what is left of the wire is what came first.
LEMMA WireKeepsTheFirst ==
    ASSUME wire \in Seq(WireEvent), NEW m \in 0..Len(wire),
           wire' = Append(SubSeq(wire, 1, m), <<None, Exit>>),
           NEW t \in Terms, WireLine(t),
           NEW e \in WireOf(t)', NEW n \in WireOf(t), n < e, n # Exit
    PROVE  n \in WireOf(t)'
  <1>. DEFINE s == SubSeq(wire, 1, m)
  <1>1. /\ s \in Seq(WireEvent) /\ Len(s) = m /\ m \in Nat /\ m <= Len(wire)
        /\ \A i \in 1..m : s[i] = wire[i]
        /\ DOMAIN wire = 1..Len(wire) /\ Len(wire) \in Nat
    OBVIOUS
  <1>2. <<None, Exit>> \in WireEvent
    BY DEF WireEvent, Events
  <1>3. wire' = Append(s, <<None, Exit>>)
    OBVIOUS
  <1>. HIDE DEF s
  <1>4. /\ DOMAIN wire' = 1..m + 1
        /\ \A i \in 1..m : wire'[i] = wire[i]
        /\ wire'[m + 1] = <<None, Exit>>
    BY <1>1, <1>2, <1>3
  <1>5. t # None
    BY BoundsAreNaturals DEF None, Terms
  <1>6. PICK i \in 1..m : wire[i][1] = t /\ wire[i][2] = e
    <2>1. PICK i \in DOMAIN wire' : wire'[i][1] = t /\ wire'[i][2] = e
      BY DEF WireOf
    <2>2. i # m + 1
      BY <1>4, <1>5, <2>1
    <2>3. i \in 1..m
      BY <1>1, <1>4, <2>2
    <2>. QED BY <1>4, <2>1, <2>3
  <1>7. PICK j \in DOMAIN wire : wire[j][1] = t /\ wire[j][2] = n
    BY DEF WireOf
  <1>8. e \in Nat /\ n \in Nat
    <2>1. \A k \in DOMAIN wire : wire[k] \in WireEvent
      OBVIOUS
    <2>2. \A k \in DOMAIN wire : wire[k][2] \in Events
      BY <2>1 DEF WireEvent
    <2>. QED BY <1>1, <1>6, <1>7, <2>2, EventsAreNaturals
  <1>9. j \in 1..m
    <2>1. i \in DOMAIN wire /\ (j \in 1..m \/ i < j)
      BY <1>1, <1>6
    <2>2. i < j => Follows(e, n)
      BY <1>6, <1>7, <2>1 DEF WireLine
    <2>. QED BY <1>8, <2>1, <2>2, FollowsNoLess
  <1>10. j \in DOMAIN wire' /\ wire'[j] = wire[j]
    BY <1>1, <1>4, <1>9
  <1>. QED BY <1>7, <1>10 DEF WireOf

\* The link's own steps: nothing of the service but the wire, and nothing of the
\* registry, changes.
LinkStep ==
    /\ UNCHANGED <<terms, saved, savings, rows, handed, window, held, drawn, seen, seenFile, opener, killing>>
    /\ lossy \subseteq lossy' /\ lossy' \cup due' \subseteq DOMAIN terms
    /\ spent' = spent \/ Spend
    /\ phase' = phase \/ {phase, phase'} \cap {"off", "attached"} = {}

LEMMA LinkStepKeeps ==
    ASSUME CleanerInv, CleanerInv', LineInv, LineInv', SavedInv, LinkStep,
           \A t \in Terms : Shortens(t)
    PROVE  SavedInv'
  <1>1. Unheld
    BY SameStays DEF LinkStep, Unheld, SavedInv, SavedTypes
  <1>2. Placed' = Placed
    BY DEF Placed, LinkStep
  <1>. QED BY <1>1, <1>2, PlacedTerms, UnheldKeeps

LEMMA ExitsSaved ==
    ASSUME CleanerInv, CleanerInv', LineInv, LineInv', SavedInv, NEW t \in DOMAIN terms, Exits(t)
    PROVE  SavedInv'
  <1>0. LinkTypes /\ PipeTypes /\ t \in Terms /\ wire \in Seq(WireEvent) /\ Exit \in Events
        /\ due \cup killing \cup lossy \subseteq DOMAIN terms
    BY TermsInTerms DEF CleanerInv, LineInv, PipeTypes, WireEvent, Events, SavedInv, SavedTypes
  <1>1. PICK stage \in {"short", "over"} : Put(t, stage)
    BY DEF Exits
  <1>2. Stay
    BY <1>0, <1>1, PutStays DEF Ended
  <1>3. UNCHANGED <<saved, seenFile, windowVars, link, registry, spent, history>>
    BY DEF Exits
  <1>4. Unheld
    BY <1>0, <1>2, <1>3 DEF Unheld, windowVars, link, registry, history
  <1>5. \A u : UNCHANGED <<handlers, early, phase>> /\ HandOf(u)' = HandOf(u)
    BY <1>3 DEF windowVars, link, HandOf
  <1>6. ASSUME NEW u \in Terms PROVE Shortens(u)
    <2>1. CASE wire' = wire
      BY <1>5, <2>1, PipeSame, <1>3 DEF link
    <2>2. CASE wire' = Append(wire, <<t, Exit>>)
      <3>1. WireOf(u)' = WireOf(u) \/ WireOf(u)' = WireOf(u) \cup {Exit}
        BY <1>0, <2>2, WireIsSent
      <3>2. ToDraw(u)' = ToDraw(u)
        BY <1>5, <3>1 DEF ToDraw, Ahead, Upstream
      <3>. QED BY <1>5, <3>2 DEF Shortens
    <2>. QED BY <2>1, <2>2 DEF Exits, Broadcast
  <1>7. Placed' \subseteq Terms
    BY <1>3, PlacedTerms DEF Placed, registry, windowVars
  <1>. QED BY <1>4, <1>6, <1>7, UnheldKeeps

LEMMA EndSaved ==
    ASSUME CleanerInv, CleanerInv', LineInv, LineInv', SavedInv, ServiceEnds PROVE SavedInv'
  <1>0. LinkTypes /\ PipeTypes /\ wire \in Seq(WireEvent)
        /\ due \cup killing \cup lossy \subseteq DOMAIN terms
    BY DEF CleanerInv, LineInv, PipeTypes, WireEvent, SavedInv, SavedTypes
  <1>1. Stay /\ \A t \in DOMAIN terms' : terms'[t].stage \in Ended
    BY <1>0, EndStays
  <1>2. UNCHANGED <<saved, seenFile, windowVars, link, registry, history>> /\ Spend
    BY DEF ServiceEnds
  <1>3. Unheld
    BY <1>0, <1>1, <1>2 DEF Unheld, windowVars, link, registry, history
  <1>4. \A u : UNCHANGED <<handlers, early, phase>> /\ HandOf(u)' = HandOf(u)
    BY <1>2 DEF windowVars, link, HandOf
  <1>5. Placed' = Placed
    BY <1>2 DEF Placed, registry, windowVars
  <1>6. ASSUME NEW t \in Placed PROVE Shortens(t)
    <2>0. t \in Terms /\ t \in DOMAIN terms' /\ LineOf(t) /\ WireLine(t)
      BY <1>1, <1>6, PlacedTerms DEF Stay, LineInv, LineOf, Lines
    <2>1. CASE wire' = wire
      BY <1>2, <1>4, <2>1, PipeSame DEF link
    <2>2. ASSUME NEW m \in 0..Len(wire), wire' = Append(SubSeq(wire, 1, m), <<None, Exit>>)
          PROVE  Shortens(t)
      <3>1. WireOf(t)' \subseteq WireOf(t)
        BY <1>0, <2>0, <2>2, WireIsCut
      <3>2. ToDraw(t)' \subseteq ToDraw(t)
        BY <1>4, <3>1 DEF ToDraw, Ahead, Upstream
      <3>3. ASSUME NEW e \in ToDraw(t)', NEW n \in ToDraw(t), n < e PROVE n \in ToDraw(t)'
        <4>1. e \in Nat /\ n \in Nat /\ n # Exit
          BY <1>0, <2>0, <3>2, ToDrawEvents DEF ToDraw
        <4>2. CASE n \in Ahead(t) \/ (phase # "quitting" /\ n \in Range(early[t]))
          BY <1>4, <4>1, <4>2 DEF ToDraw, Ahead, Upstream
        <4>3. CASE phase # "quitting" /\ n \in WireOf(t)
          <5>1. e \in WireOf(t)'
            <6>1. e \in Ahead(t) \/ e \in Range(early[t]) => Follows(e, n)
              BY <2>0, <4>3, AheadFirst
            <6>2. ~(e \in Ahead(t) \/ e \in Range(early[t]))
              BY <3>3, <4>1, <6>1, FollowsNoLess
            <6>. QED BY <1>4, <6>2 DEF ToDraw, Ahead, Upstream
          <5>2. n \in WireOf(t)'
            BY <1>0, <2>0, <2>2, <3>3, <4>1, <4>3, <5>1, WireKeepsTheFirst
          <5>. QED BY <1>4, <4>1, <4>3, <5>2 DEF ToDraw, Upstream
        <4>. QED BY <4>2, <4>3 DEF ToDraw, Upstream
      <3>. QED BY <1>1, <1>4, <2>0, <3>2, <3>3 DEF Shortens
    <2>. QED BY <2>1, <2>2 DEF ServiceEnds
  <1>. QED BY <1>3, <1>5, <1>6, UnheldKeeps

LEMMA DetachesSaved ==
    ASSUME CleanerInv, CleanerInv', LineInv, LineInv', SavedInv, Detaches PROVE SavedInv'
  <1>0. PipeTypes /\ due \cup killing \cup lossy \subseteq DOMAIN terms
    BY DEF LineInv, SavedInv, SavedTypes
  <1>1. /\ phase = "linked" /\ phase' = "quitting"
        /\ handlers' = [t \in Terms |-> [handlers[t] EXCEPT !.listed = FALSE]]
        /\ UNCHANGED <<terms, wire, saved, savings, seenFile, window, rows, seen, killing, found, due,
                       held, drawn, opener, spent, handed, lossy>>
    BY DEF Detaches, service, registry, history
  <1>2. LinkStep
    BY <1>0, <1>1 DEF LinkStep
  <1>3. ASSUME NEW t \in Terms PROVE Shortens(t)
    <2>1. handlers[t] \in Handler
      BY <1>0 DEF PipeTypes
    <2>2. handlers'[t].todo = handlers[t].todo /\ handlers'[t].backlog = handlers[t].backlog
      BY <1>1, <2>1 DEF Handler
    <2>3. Ahead(t)' = Ahead(t)
      BY <1>1, <2>2 DEF Ahead, HandOf
    <2>4. ToDraw(t)' = Ahead(t) \ {Exit}
      BY <1>1, <2>3 DEF ToDraw, Upstream
    <2>5. ASSUME NEW e \in ToDraw(t)', NEW n \in ToDraw(t), n < e PROVE n \in ToDraw(t)'
      <3>1. e \in Nat /\ n \in Nat /\ n # Exit /\ e \in Ahead(t)
        BY <1>0, <2>4, ToDrawEvents DEF ToDraw
      <3>2. n \in Range(early[t]) \cup WireOf(t) => Follows(e, n)
        BY <3>1, AheadFirst DEF LineInv
      <3>3. n \in Ahead(t)
        BY <2>5, <3>1, <3>2, FollowsNoLess DEF ToDraw, Upstream
      <3>. QED BY <2>4, <3>1, <3>3
    <2>. QED BY <1>1, <2>4, <2>5 DEF Shortens, ToDraw
  <1>. QED BY <1>2, <1>3, LinkStepKeeps

\* Two lists of a terminal's events that are one.
LEMMA AppendRange ==
    ASSUME NEW s \in Seq(Events), NEW e \in Events
    PROVE  Append(s, e) \in Seq(Events) /\ Range(Append(s, e)) = Range(s) \cup {e}
  <1>. DEFINE r == Append(s, e)
  <1>1. /\ r \in Seq(Events) /\ Len(r) = Len(s) + 1 /\ Len(s) \in Nat
        /\ \A i \in 1..Len(s) : r[i] = s[i]
        /\ r[Len(s) + 1] = e /\ DOMAIN s = 1..Len(s)
    OBVIOUS
  <1>2. DOMAIN r = 1..Len(s) + 1
    BY <1>1
  <1>. HIDE DEF r
  <1>3. Range(r) = Range(s) \cup {e}
    BY <1>1, <1>2 DEF Range
  <1>. QED BY <1>1, <1>3 DEF r

LEMMA HandsSaved ==
    ASSUME CleanerInv, CleanerInv', LineInv, LineInv', SavedInv, NEW t \in DOMAIN terms, Hands(t)
    PROVE  SavedInv'
  <1>0. PipeTypes /\ due \cup killing \cup lossy \subseteq DOMAIN terms /\ t \in Terms /\ LineOf(t)
    BY TermsInTerms DEF LineInv, SavedInv, SavedTypes
  <1>1. PICK e \in Events :
            /\ <<t, e>> \in found /\ handlers[t].by = "no"
            /\ found' = found \ {<<t, e>>}
            /\ handlers' = [handlers EXCEPT ![t] = Taken(handlers[t], e)]
            /\ UNCHANGED <<terms, wire, saved, savings, seenFile, phase, window, rows, seen, killing, early,
                           due, held, drawn, opener, spent, handed, lossy>>
    BY DEF Hands, service, windowVars, registry, history
  <1>2. LinkStep
    BY <1>0, <1>1 DEF LinkStep
  <1>. DEFINE h == handlers[t]
              x == Taken(h, e)
  <1>3. h \in Handler /\ h.todo = <<>> /\ Range(h.todo) = {} /\ h.backlog \in Seq(Events)
    BY <1>0, <1>1, EmptyLine DEF PipeTypes, LineOf, Runner, Handler
  <1>4. x.todo = Append(h.backlog, e) /\ x.backlog = <<>>
    BY <1>3 DEF Taken, Handler
  <1>5. Range(x.todo) = Range(h.backlog) \cup {e} /\ Range(x.backlog) = {}
    BY <1>3, <1>4, AppendRange, EmptyLine
  <1>6. handlers'[t] = x /\ \A u \in Terms \ {t} : handlers'[u] = handlers[u]
    BY <1>0, <1>1 DEF PipeTypes
  <1>. HIDE DEF x
  <1>7. e \in HandOf(t) /\ HandOf(t)' = HandOf(t) \ {e}
    BY <1>1 DEF HandOf
  <1>8. \A u \in Terms \ {t} : HandOf(u)' = HandOf(u)
    BY <1>1 DEF HandOf
  <1>9. ASSUME NEW u \in Terms PROVE Ahead(u)' = Ahead(u)
    <2>1. CASE u = t
      BY <1>3, <1>5, <1>6, <1>7, <2>1 DEF Ahead
    <2>2. CASE u # t
      BY <1>6, <1>8, <2>2 DEF Ahead
    <2>. QED BY <2>1, <2>2
  <1>10. ASSUME NEW u \in Terms PROVE Shortens(u)
    <2>1. Upstream(u)' = Upstream(u)
      BY <1>1 DEF Upstream, WireOf
    <2>. QED BY <1>1, <1>9, <2>1, DrawnAlike
  <1>. QED BY <1>2, <1>10, LinkStepKeeps

LEMMA FlushesSaved ==
    ASSUME CleanerInv, CleanerInv', LineInv, LineInv', SavedInv, NEW t \in DOMAIN terms, Flushes(t)
    PROVE  SavedInv'
  <1>0. PipeTypes /\ due \cup killing \cup lossy \subseteq DOMAIN terms /\ t \in Terms /\ LineOf(t)
    BY TermsInTerms DEF LineInv, SavedInv, SavedTypes
  <1>. DEFINE h == handlers[t]
              x == [h EXCEPT !.todo = h.backlog, !.backlog = <<>>, !.by = "flush"]
  <1>1. /\ h.by = "no" /\ due' \subseteq due
        /\ UNCHANGED <<terms, wire, saved, savings, seenFile, phase, window, rows, seen, killing, early,
                       found, held, drawn, opener, spent, handed, lossy>>
    BY DEF Flushes, service, windowVars, registry, history
  <1>2. LinkStep
    BY <1>0, <1>1 DEF LinkStep
  <1>3. handlers' = handlers \/ handlers' = [handlers EXCEPT ![t] = x]
    BY DEF Flushes
  <1>4. h \in Handler /\ h.todo = <<>> /\ Range(h.todo) = {}
    BY <1>0, <1>1, EmptyLine DEF PipeTypes, LineOf, Runner, Handler
  <1>5. x.todo = h.backlog /\ x.backlog = <<>>
    BY <1>4 DEF Handler
  <1>. HIDE DEF x
  <1>6. handlers' = handlers
        \/ (handlers'[t] = x /\ \A u \in Terms \ {t} : handlers'[u] = handlers[u])
    BY <1>0, <1>3 DEF PipeTypes
  <1>7. ASSUME NEW u \in Terms PROVE Ahead(u)' = Ahead(u)
    <2>1. HandOf(u)' = HandOf(u)
      BY <1>1 DEF HandOf
    <2>2. CASE u = t
      BY <1>4, <1>5, <1>6, <2>1, <2>2, EmptyLine DEF Ahead
    <2>3. CASE u # t
      BY <1>6, <2>1, <2>3 DEF Ahead
    <2>. QED BY <2>2, <2>3
  <1>8. ASSUME NEW u \in Terms PROVE Shortens(u)
    <2>1. Upstream(u)' = Upstream(u)
      BY <1>1 DEF Upstream, WireOf
    <2>. QED BY <1>1, <1>7, <2>1, DrawnAlike
  <1>. QED BY <1>2, <1>8, LinkStepKeeps

LEMMA ReadsTheEndSaved ==
    ASSUME CleanerInv, CleanerInv', LineInv, LineInv', SavedInv, ReadsTheEnd PROVE SavedInv'
  <1>0. PipeTypes /\ Gathered /\ due \cup killing \cup lossy \subseteq DOMAIN terms
        /\ wire \in Seq(WireEvent)
    BY DEF LineInv, SavedInv, SavedTypes, PipeTypes, WireEvent
  <1>1. /\ found = {} /\ wire # <<>> /\ Head(wire)[1] = None /\ wire' = <<>>
        /\ found' = {<<t, Exit>> : t \in {u \in Terms : handlers[u].listed}}
        /\ handlers' = [t \in Terms |-> [handlers[t] EXCEPT !.listed = FALSE]]
        /\ UNCHANGED <<terms, saved, savings, seenFile, phase, window, rows, seen, killing, early, due,
                       held, drawn, opener, spent, handed, lossy>>
    BY DEF ReadsTheEnd, ReaderFree, windowVars, registry, history
  <1>2. LinkStep
    BY <1>0, <1>1 DEF LinkStep
  <1>3. Len(wire) = 1 /\ wire[1][1] = None /\ DOMAIN wire = {1}
    <2>1. Len(wire) \in Nat \ {0} /\ DOMAIN wire = 1..Len(wire) /\ Head(wire) = wire[1]
      BY <1>0, <1>1
    <2>2. 1 \in DOMAIN wire
      BY <2>1
    <2>. QED BY <1>0, <1>1, <2>1, <2>2 DEF Gathered
  <1>4. ASSUME NEW t \in Terms PROVE Shortens(t)
    <2>1. t # None
      BY BoundsAreNaturals DEF None, Terms
    <2>2. WireOf(t) = {} /\ WireOf(t)' = {}
      BY <1>1, <1>3, <2>1 DEF WireOf
    <2>3. HandOf(t) = {} /\ HandOf(t)' \subseteq {Exit}
      BY <1>1 DEF HandOf
    <2>4. handlers[t] \in Handler
      BY <1>0 DEF PipeTypes
    <2>5. handlers'[t].todo = handlers[t].todo /\ handlers'[t].backlog = handlers[t].backlog
      BY <1>1, <2>4 DEF Handler
    <2>6. ToDraw(t)' = ToDraw(t)
      BY <1>1, <2>2, <2>3, <2>5 DEF ToDraw, Ahead, Upstream
    <2>. QED BY <1>1, <2>6 DEF Shortens
  <1>. QED BY <1>2, <1>4, LinkStepKeeps

LEMMA ReadsSaved ==
    ASSUME CleanerInv, CleanerInv', LineInv, LineInv', SavedInv, Reads PROVE SavedInv'
  <1>0. PipeTypes /\ due \cup killing \cup lossy \subseteq DOMAIN terms /\ wire \in Seq(WireEvent)
    BY DEF LineInv, SavedInv, SavedTypes, PipeTypes, WireEvent
  <1>1. wire # <<>> /\ wire' = Tail(wire)
    BY DEF Reads
  <1>2. PICK t \in Terms, e \in Events : Head(wire) = <<t, e>>
    <2>1. Head(wire) \in WireEvent
      BY <1>0, <1>1
    <2>. QED BY <2>1 DEF WireEvent, Reads
  <1>3. /\ Deliver(t, e) /\ found = {}
        /\ UNCHANGED <<terms, saved, savings, seenFile, phase, window, rows, seen, killing, due, held,
                       drawn, opener, spent, handed>>
    BY <1>2 DEF Reads, ReaderFree, windowVars, registry
  <1>4. /\ WireOf(t) = WireOf(t)' \cup {e}
        /\ \A u \in Terms \ {t} : WireOf(u)' = WireOf(u)
    <2>. DEFINE W(u) == WireOf(u)
    <2>1. \A u : W(u) = W(u)' \cup {f \in {e} : u = t}
      BY <1>0, <1>1, <1>2, WireGoesOn
    <2>. HIDE DEF W
    <2>2. W(t) = W(t)' \cup {e}
      BY <2>1
    <2>3. \A u \in Terms \ {t} : W(u)' = W(u)
      BY <2>1
    <2>. QED BY <2>2, <2>3 DEF W
  <1>5. t \in DOMAIN terms
    BY <1>4 DEF LineInv, LineOf, AllSent, Sent
  <1>6. lossy \subseteq lossy' /\ lossy' \subseteq lossy \cup {t}
    BY <1>3 DEF Deliver
  <1>7. LinkStep
    BY <1>0, <1>3, <1>5, <1>6 DEF LinkStep
  <1>8. \A u \in Terms : HandOf(u) = {}
    BY <1>3 DEF HandOf
  <1>9. CASE phase = "quitting"
    <2>1. handlers' = handlers /\ \A u \in Terms : HandOf(u)' = {}
      BY <1>3, <1>8, <1>9 DEF Deliver, HandOf
    <2>2. \A u \in Terms : Ahead(u)' = Ahead(u) /\ Upstream(u)' = Upstream(u)
      BY <1>3, <1>8, <1>9, <2>1 DEF Ahead, Upstream
    <2>. QED BY <1>3, <1>7, <2>2, DrawnAlike, LinkStepKeeps
  <1>10. CASE phase # "quitting" /\ handlers[t].listed
    <2>1. /\ found' = {<<t, e>>} /\ early' = early
          /\ handlers' = [handlers EXCEPT ![t].listed = e # Exit]
      BY <1>3, <1>10 DEF Deliver
    <2>2. \A u \in Terms : handlers[u] \in Handler
      BY <1>0 DEF PipeTypes
    <2>3. \A u \in Terms : /\ handlers'[u].todo = handlers[u].todo
                           /\ handlers'[u].backlog = handlers[u].backlog
      BY <1>0, <2>1, <2>2 DEF PipeTypes, Handler
    <2>4. HandOf(t)' = {e} /\ \A u \in Terms \ {t} : HandOf(u)' = {}
      BY <2>1 DEF HandOf
    <2>5. ASSUME NEW u \in Terms PROVE Shortens(u)
      <3>1. CASE u = t
        <4>1. Ahead(u)' \cup Upstream(u)' = Ahead(u) \cup Upstream(u)
          BY <1>3, <1>4, <1>8, <1>10, <2>1, <2>3, <2>4, <3>1 DEF Ahead, Upstream
        <4>. QED BY <1>3, <4>1, DrawnAlike
      <3>2. CASE u # t
        <4>1. Ahead(u)' = Ahead(u) /\ Upstream(u)' = Upstream(u)
          BY <1>3, <1>4, <1>8, <2>1, <2>3, <2>4, <3>2 DEF Ahead, Upstream
        <4>. QED BY <1>3, <4>1, DrawnAlike
      <3>. QED BY <3>1, <3>2
    <2>. QED BY <1>7, <2>5, LinkStepKeeps
  <1>11. CASE phase # "quitting" /\ ~handlers[t].listed
    <2>. DEFINE events == Append(early[t], e)
    <2>1. /\ early' = [early EXCEPT ![t] = Hold(events)]
          /\ UNCHANGED <<handlers, found>>
          /\ Overflows(events) => t \in lossy'
      BY <1>3, <1>11 DEF Deliver
    <2>2. events \in Seq(Events) /\ Range(events) = Range(early[t]) \cup {e} /\ events # <<>>
      <3>1. early[t] \in Seq(Events)
        BY <1>0 DEF PipeTypes
      <3>2. events \in Seq(Events) /\ Range(events) = Range(early[t]) \cup {e}
        BY <3>1, AppendRange
      <3>. HIDE DEF events
      <3>3. events # <<>>
        BY <3>2, EmptyLine
      <3>. QED BY <3>2, <3>3
    <2>. HIDE DEF events
    <2>3. /\ Range(Hold(events)) \subseteq Range(events)
          /\ ~Overflows(events) => Hold(events) = events
      BY <2>2, TailLine DEF Hold
    <2>4. early'[t] = Hold(events) /\ \A u \in Terms \ {t} : early'[u] = early[u]
      BY <1>0, <2>1 DEF PipeTypes
    <2>5. \A u \in Terms : HandOf(u)' = {} /\ Ahead(u)' = Ahead(u)
      BY <1>8, <2>1 DEF HandOf, Ahead
    <2>6. ASSUME NEW u \in Terms PROVE Shortens(u)
      <3>1. CASE u = t /\ Overflows(events)
        <4>1. ToDraw(u)' \subseteq ToDraw(u)
          BY <1>3, <1>4, <1>11, <2>2, <2>3, <2>4, <2>5, <3>1 DEF ToDraw, Upstream
        <4>. QED BY <1>3, <2>1, <3>1, <4>1 DEF Shortens
      <3>2. CASE u = t /\ ~Overflows(events)
        <4>1. Upstream(u)' = Upstream(u)
          BY <1>3, <1>4, <1>11, <2>2, <2>3, <2>4, <3>2 DEF Upstream
        <4>. QED BY <1>3, <2>5, <4>1, DrawnAlike
      <3>3. CASE u # t
        <4>1. Upstream(u)' = Upstream(u)
          BY <1>3, <1>4, <2>4, <3>3 DEF Upstream
        <4>. QED BY <1>3, <2>5, <4>1, DrawnAlike
      <3>. QED BY <3>1, <3>2, <3>3
    <2>. QED BY <1>7, <2>6, LinkStepKeeps
  <1>. QED BY <1>9, <1>10, <1>11

\* A window comes up: it is to draw what is printed from its rows on.
LEMMA ConnectsSaved ==
    ASSUME CleanerInv, CleanerInv', LineInv, LineInv', SavedInv, Connects PROVE SavedInv'
  <1>0. /\ LinkTypes /\ PipeTypes /\ Gathered /\ SavedTypes /\ Apart
        /\ DOMAIN terms \subseteq Terms
    BY TermsInTerms DEF CleanerInv, LineInv, SavedInv
  <1>1. /\ phase = "off" /\ phase' = "attached" /\ window' = window + 1 /\ Spend
        /\ rows' = [t \in At({"kept"}) |-> terms[t].count]
        /\ UNCHANGED <<terms, wire, saved, savings, seenFile, seen, killing, handlers, early, found, due,
                       held, drawn, opener, handed, lossy>>
    BY DEF Connects, link, registry, history
  <1>2. held = {} /\ DOMAIN seen = {} /\ opener = None /\ wire = <<>> /\ found = {}
    BY <1>0, <1>1 DEF Apart, Gathered
  <1>3. DOMAIN rows' \subseteq DOMAIN terms /\ \A t \in DOMAIN rows' : rows'[t] = terms[t].count
    BY <1>1 DEF At
  <1>4. \A t \in DOMAIN terms : terms[t].count \in Nat
    BY <1>0, TermsTyped DEF LinkTypes
  <1>5. SavedTypes'
    <2>1. \A t \in DOMAIN terms : terms[t].mark \in 1..window + 1
      BY <1>0 DEF SavedTypes, LinkTypes
    <2>2. window + 1 <= spent' /\ spent' <= MaxEvents /\ window + 1 > 0
      BY <1>0, <1>1, BoundsAreNaturals DEF SavedTypes, LinkTypes, Spend
    <2>. QED BY <1>0, <1>1, <1>3, <1>4, <2>1, <2>2 DEF SavedTypes, savings
  <1>6. Apart'
    BY <1>0, <1>1, <1>2 DEF Apart
  <1>7. ASSUME NEW t \in Placed' PROVE Coming(t)'
    <2>1. t \in DOMAIN rows' /\ t \in DOMAIN terms /\ t \in Terms
      BY <1>0, <1>1, <1>2, <1>3, <1>7 DEF Placed
    <2>2. DrawnTo(t)' = terms[t].count /\ terms[t].count \in Nat
      BY <1>1, <1>2, <1>3, <1>4, <2>1 DEF DrawnTo
    <2>3. ToDraw(t)' = {}
      <3>1. Fresh(t) /\ early[t] = <<>>
        BY <1>0, <1>1, <2>1 DEF Gathered
      <3>2. WireOf(t) = {} /\ HandOf(t) = {}
        BY <1>2 DEF WireOf, HandOf
      <3>3. Ahead(t)' = {} /\ Upstream(t)' = {}
        BY <1>1, <3>1, <3>2, EmptyLine DEF Ahead, Upstream, Fresh, WireOf, HandOf
      <3>. QED BY <3>3 DEF ToDraw
    <2>. QED BY <1>1, <2>2, <2>3 DEF Coming, Onward, NoGap
  <1>8. ASSUME NEW t \in Known' PROVE SavedFits(t)'
    <2>1. t \in DOMAIN terms /\ t \in Known /\ SavedFits(t)
      BY <1>1, <1>8 DEF SavedInv, Known, savings
    <2>2. (Kept(t)' <=> Kept(t)) /\ savedTo' = savedTo /\ missing' = missing
      BY <1>1, SavedSame
    <2>. QED BY <1>1, <1>2, <1>3, <2>1, <2>2 DEF SavedFits, Agrees
  <1>. QED BY <1>5, <1>6, <1>7, <1>8 DEF SavedInv

\* A terminal prints.
LEMMA PumpsStays ==
    ASSUME LinkTypes, NEW t \in DOMAIN terms, Pumps(t)
    PROVE  /\ DOMAIN terms' = DOMAIN terms
           /\ \A u \in DOMAIN terms : /\ terms'[u].pane = terms[u].pane
                                      /\ terms'[u].mark = terms[u].mark
                                      /\ terms'[u].stage = terms[u].stage
                                      /\ u # t => terms'[u].count = terms[u].count
           /\ terms'[t].count = terms[t].count + 1 /\ terms[t].count \in Nat
           /\ terms[t].stage \notin Ended
  <1>. DEFINE x == [terms[t] EXCEPT !.count = @ + 1]
  <1>0. terms \in Seq(Term)
    BY DEF LinkTypes
  <1>1. terms[t] \in Term
    BY <1>0
  <1>2. /\ x.count = terms[t].count + 1 /\ x.stage = terms[t].stage /\ x.pane = terms[t].pane
        /\ x.mark = terms[t].mark /\ terms[t].count \in Nat
    BY <1>1 DEF Term
  <1>3. terms' = [terms EXCEPT ![t] = x] /\ terms[t].stage \notin Ended
    BY DEF Pumps, At, Ended
  <1>. HIDE DEF x
  <1>4. DOMAIN terms' = DOMAIN terms
        /\ \A u \in DOMAIN terms : terms'[u] = IF u = t THEN x ELSE terms[u]
    BY <1>0, <1>3
  <1>. QED BY <1>2, <1>3, <1>4

LEMMA PumpsSaved ==
    ASSUME CleanerInv, CleanerInv', LineInv, LineInv', SavedInv, NEW t \in DOMAIN terms, Pumps(t)
    PROVE  SavedInv'
  <1>0. /\ LinkTypes /\ PipeTypes /\ Gathered /\ SavedTypes /\ Apart /\ t \in Terms
        /\ wire \in Seq(WireEvent)
    BY TermsInTerms DEF CleanerInv, LineInv, SavedInv, PipeTypes, WireEvent
  <1>1. /\ DOMAIN terms' = DOMAIN terms
        /\ \A u \in DOMAIN terms : /\ terms'[u].pane = terms[u].pane
                                   /\ terms'[u].mark = terms[u].mark
                                   /\ terms'[u].stage = terms[u].stage
                                   /\ u # t => terms'[u].count = terms[u].count
        /\ terms'[t].count = terms[t].count + 1 /\ terms[t].count \in Nat
        /\ terms[t].stage \notin Ended
    BY <1>0, PumpsStays
  <1>2. /\ UNCHANGED <<saved, savings, seenFile, phase, window, rows, seen, killing, handlers, early, found,
                       due, held, drawn, opener, spent, handed, lossy>>
        /\ wire' = IF phase = "off" THEN wire ELSE Append(wire, <<t, terms[t].count + 1>>)
    BY DEF Pumps, Broadcast, windowVars, link, registry, history
  <1>3. SavedTypes' /\ Apart'
    BY <1>0, <1>1, <1>2 DEF SavedTypes, Apart, savings
  <1>4. ASSUME NEW u \in Placed' PROVE Coming(u)'
    <2>1. u \in Placed /\ u \in DOMAIN terms /\ u \in Terms /\ Coming(u)
      BY <1>2, <1>4, PlacedTerms DEF Placed, SavedInv
    <2>2. phase # "off"
      BY <1>0, <2>1, PlacedTerms DEF Placed, Apart, Gathered, Nothing
    <2>3. terms[t].count + 1 \in Events
      BY <1>0, PumpsOlder
    <2>4. WireOf(u)' = WireOf(u) \cup {e \in {terms[t].count + 1} : u = t}
      <3>1. /\ u # t => WireOf(u)' = WireOf(u)
            /\ WireOf(t)' = WireOf(t) \cup {terms[t].count + 1}
        BY <1>0, <1>2, <2>2, <2>3, WireIsSent
      <3>2. CASE u = t
        BY <3>1, <3>2
      <3>3. CASE u # t
        BY <3>1, <3>3
      <3>. QED BY <3>2, <3>3
    <2>5. Ahead(u)' = Ahead(u) /\ DrawnTo(u)' = DrawnTo(u)
      BY <1>2 DEF Ahead, HandOf, DrawnTo
    <2>6. CASE u # t \/ phase = "quitting"
      <3>1. ToDraw(u)' = ToDraw(u)
        BY <1>2, <2>4, <2>5, <2>6 DEF ToDraw, Upstream
      <3>2. CASE u # t
        BY <1>1, <1>2, <2>1, <2>5, <3>1, <3>2 DEF Coming, Onward, NoGap
      <3>3. CASE u = t /\ phase = "quitting"
        BY <1>1, <1>2, <2>1, <2>5, <3>1, <3>3 DEF Coming, Onward, NoGap
      <3>. QED BY <2>6, <3>2, <3>3
    <2>7. CASE u = t /\ phase # "quitting"
      <3>1. ToDraw(t)' = ToDraw(t) \cup {terms[t].count + 1}
        BY <1>1, <1>2, <2>4, <2>5, <2>7 DEF ToDraw, Upstream, Exit
      <3>2. DrawnTo(t) \in Nat /\ DrawnTo(t) <= terms[t].count
            /\ \A e \in ToDraw(t) : e > DrawnTo(t)
        BY <2>1, <2>7 DEF Coming, Onward
      <3>3. Onward(t)'
        BY <1>1, <2>5, <2>7, <3>1, <3>2 DEF Onward
      <3>4. ASSUME t \notin lossy PROVE NoGap(t)'
        <4>1. /\ \A e \in ToDraw(t), n \in Nat : DrawnTo(t) < n /\ n <= e => n \in ToDraw(t)
              /\ \A n \in Nat : DrawnTo(t) < n /\ n <= terms[t].count => n \in ToDraw(t)
          BY <1>1, <2>1, <2>7, <3>4 DEF Coming, NoGap
        <4>2. \A n \in Nat : n <= terms[t].count + 1 => n <= terms[t].count \/ n = terms[t].count + 1
          BY <1>1
        <4>. QED BY <1>1, <2>5, <2>7, <3>1, <4>1, <4>2 DEF NoGap
      <3>. QED BY <1>2, <2>7, <3>3, <3>4 DEF Coming
    <2>. QED BY <2>6, <2>7
  <1>5. ASSUME NEW u \in Known' PROVE SavedFits(u)'
    <2>1. u \in DOMAIN terms /\ u \in Known /\ SavedFits(u)
      BY <1>1, <1>2, <1>5 DEF SavedInv, Known, savings
    <2>2. (Kept(u)' <=> Kept(u)) /\ savedTo' = savedTo /\ missing' = missing
      BY <1>1, <1>2, <2>1, SavedSame
    <2>3. savedTo[u] \in Nat /\ savedTo[u] <= terms[u].count
      BY <1>0, <2>1, TermsInTerms, BoundsAreNaturals DEF SavedFits, SavedTypes
    <2>4. savedTo[u] <= terms'[u].count
      BY <1>1, <2>1, <2>3
    <2>. QED BY <1>2, <2>1, <2>2, <2>4 DEF SavedFits, Agrees
  <1>. QED BY <1>3, <1>4, <1>5 DEF SavedInv

\* The window is gone: it draws nothing, and what it saved is as far as it drew.
LEMMA GoneSaved ==
    ASSUME CleanerInv, CleanerInv', LineInv, LineInv', SavedInv, LetsGo \/ Crashes
    PROVE  SavedInv'
  <1>0. LinkTypes /\ PipeTypes /\ SavedTypes /\ Apart /\ held \subseteq DOMAIN terms
    BY DEF CleanerInv, LinkTypes, LineInv, SavedInv
  <1>1. /\ phase' = "off" /\ DOMAIN rows' = {} /\ DOMAIN seen' = {} /\ killing' = {} /\ due' = {}
        /\ held' = {} /\ drawn' = [t \in Terms |-> 0] /\ opener' = None
        /\ UNCHANGED <<terms, window, saved, savings, spent, lossy>>
    BY DEF LetsGo, Crashes, Gone, Nothing
  <1>2. seenFile' = seenFile \/ (DOMAIN seenFile' = held /\ \A t \in held : seenFile'[t] = drawn[t])
    BY DEF LetsGo, Crashes
  <1>3. SavedTypes'
    <2>1. \A t \in DOMAIN seenFile' : seenFile'[t] \in Nat /\ t \in DOMAIN terms
      BY <1>0, <1>2, TermsInTerms DEF SavedTypes
    <2>. QED BY <1>0, <1>1, <2>1 DEF SavedTypes, savings
  <1>4. Apart'
    <2>1. None \notin held'
      BY <1>1
    <2>. QED BY <1>1, <2>1 DEF Apart
  <1>5. Placed' = {}
    BY <1>1 DEF Placed
  <1>6. ASSUME NEW t \in Known' PROVE SavedFits(t)'
    <2>1. t \in DOMAIN terms /\ t \in Known /\ SavedFits(t) /\ t # None
      BY <1>1, <1>6, TermsInTerms, BoundsAreNaturals DEF SavedInv, Known, savings, None, Terms
    <2>2. (Kept(t)' <=> Kept(t)) /\ savedTo' = savedTo /\ missing' = missing
      BY <1>1, SavedSame
    <2>. QED BY <1>1, <1>2, <2>1, <2>2 DEF SavedFits, Agrees
  <1>. QED BY <1>3, <1>4, <1>5, <1>6 DEF SavedInv

\* A pane's terminal is asked for: nothing of it is printed or saved.
LEMMA OpensStays ==
    ASSUME LinkTypes, NEW p \in Panes, Opens(p)
    PROVE  \A t \in DOMAIN terms' : t \notin DOMAIN terms =>
               terms'[t].pane = p /\ terms'[t].mark = window /\ terms'[t].count = 0
  <1>. DEFINE x == [pane |-> p, mark |-> window, stage |-> IF up THEN "asked" ELSE "failed",
                    count |-> 0]
  <1>1. terms' = Append(terms, x) /\ terms \in Seq(Term)
    BY DEF Opens, LinkTypes
  <1>2. x.pane = p /\ x.mark = window /\ x.count = 0
    OBVIOUS
  <1>. HIDE DEF x
  <1>3. \A t \in DOMAIN terms' : t \notin DOMAIN terms => terms'[t] = x
    BY <1>1
  <1>. QED BY <1>2, <1>3

LEMMA OpensSaved ==
    ASSUME CleanerInv, CleanerInv', LineInv, LineInv', SavedInv, NEW p \in Panes, Opens(p)
    PROVE  SavedInv'
  <1>0. /\ LinkTypes /\ PipeTypes /\ Gathered /\ SavedTypes /\ Apart
        /\ held \subseteq DOMAIN terms /\ DOMAIN terms \subseteq Terms
    BY TermsInTerms DEF CleanerInv, LinkTypes, LineInv, SavedInv
  <1>1. /\ opener' \in Terms /\ opener' \notin DOMAIN terms
        /\ DOMAIN terms' = DOMAIN terms \cup {opener'}
        /\ \A t \in DOMAIN terms : terms'[t] = terms[t]
    BY <1>0, OpensOlder
  <1>2. terms'[opener'].pane = p /\ terms'[opener'].mark = window /\ terms'[opener'].count = 0
    BY <1>0, <1>1, OpensStays
  <1>3. /\ phase = "linked" /\ opener = None /\ Spend
        /\ UNCHANGED <<wire, saved, savings, seenFile, phase, window, rows, seen, killing, handlers, early,
                       found, due, held, drawn, handed, lossy>>
    BY DEF Opens, RegistryFree, windowVars, link, history
  <1>4. DOMAIN rows = {}
    BY <1>0, <1>3 DEF Gathered, Nothing
  <1>5. SavedTypes'
    <2>1. spent <= spent' /\ spent' <= MaxEvents /\ spent \in Nat /\ spent' \in Nat /\ window \in Nat
      BY <1>0, <1>3, SpendsLess DEF Spend, LinkTypes
    <2>2. window \in 1..window /\ window <= spent'
      BY <1>0, <1>3, <2>1 DEF SavedTypes
    <2>3. \A t \in DOMAIN terms' : terms'[t].mark \in 1..window
      BY <1>0, <1>1, <1>2, <2>2 DEF SavedTypes
    <2>. QED BY <1>0, <1>1, <1>3, <1>4, <2>1, <2>2, <2>3 DEF SavedTypes, savings
  <1>6. Apart'
    BY <1>0, <1>1, <1>3 DEF Apart
  <1>7. ASSUME NEW t PROVE ToDraw(t)' = ToDraw(t) /\ DrawnTo(t)' = DrawnTo(t)
    BY <1>3 DEF ToDraw, Ahead, Upstream, HandOf, WireOf, DrawnTo
  <1>8. ASSUME NEW t \in Placed' PROVE Coming(t)'
    <2>1. CASE t = opener'
      <3>1. ToDraw(t) = {}
        BY <1>1, <2>1 DEF LineInv, LineOf, AllSent, Sent, ToDraw, Ahead, Upstream
      <3>2. DrawnTo(t) = 0
        BY <1>0, <1>1, <1>4, <2>1 DEF DrawnTo
      <3>. QED BY <1>2, <1>7, <2>1, <3>1, <3>2 DEF Coming, Onward, NoGap
    <2>2. CASE t # opener'
      <3>1. t \in Placed /\ t \in DOMAIN terms /\ Coming(t)
        BY <1>3, <1>8, <2>2, PlacedTerms DEF Placed, SavedInv
      <3>. QED BY <1>1, <1>3, <1>7, <3>1 DEF Coming, Onward, NoGap
    <2>. QED BY <2>1, <2>2
  <1>9. ASSUME NEW t \in Known' PROVE SavedFits(t)'
    <2>1. CASE t = opener'
      <3>1. Spots(SavedBy(t)', t) = {}
        BY <1>0, <1>1, <1>2, <1>3, <2>1 DEF Spots, SavedBy, SavedTypes
      <3>2. savedTo'[t] = 0
        BY <1>0, <1>1, <1>3, <2>1 DEF SavedTypes, savings
      <3>3. Kept(t)'
        BY <3>1, <3>2 DEF Kept, InTurn, UpTo, Gapless, AllUpTo, ChunksIn
      <3>4. t \notin held /\ t \notin DOMAIN seenFile
        BY <1>0, <1>1, <2>1 DEF SavedTypes
      <3>. QED BY <1>2, <1>3, <1>4, <2>1, <3>2, <3>3, <3>4 DEF SavedFits, Agrees
    <2>2. CASE t # opener'
      <3>1. t \in DOMAIN terms /\ t \in Known /\ SavedFits(t)
        BY <1>1, <1>3, <1>9, <2>2 DEF SavedInv, Known, savings
      <3>2. (Kept(t)' <=> Kept(t)) /\ savedTo' = savedTo /\ missing' = missing
        BY <1>1, <1>3, <3>1, SavedSame
      <3>. QED BY <1>1, <1>3, <2>2, <3>1, <3>2 DEF SavedFits, Agrees
    <2>. QED BY <2>1, <2>2
  <1>. QED BY <1>5, <1>6, <1>8, <1>9 DEF SavedInv

\* A window that quits holds nothing back for want of handlers.
QuitsEmpty == phase = "quitting" => \A t \in Terms : early[t] = <<>>

LEMMA QuitsEmptyStays ==
    ASSUME LineInv, QuitsEmpty, [LNext]_vars PROVE QuitsEmpty'
  <1>. SUFFICES ASSUME phase' = "quitting" PROVE \A t \in Terms : early'[t] = <<>>
    BY DEF QuitsEmpty
  <1>0. early \in [Terms -> Seq(Events)]
    BY DEF LineInv, PipeTypes
  <1>1. ASSUME phase = "quitting", \A t \in Terms : early'[t] = early[t] \/ early'[t] = <<>>
        PROVE  \A t \in Terms : early'[t] = <<>>
    BY <1>1 DEF QuitsEmpty
  <1>2. ASSUME NEW t \in DOMAIN terms,
               \/ Starts(t) \/ Stored(t) \/ Pumps(t) \/ Exits(t) \/ Hands(t) \/ Flushes(t)
               \/ Runs(t) \/ Closes(t) \/ Kills(t)
        PROVE  phase = "quitting" /\ early' = early
    BY <1>2 DEF Starts, Stored, Pumps, Exits, Hands, Flushes, Runs, Closes, Kills, windowVars, link
  <1>3. ASSUME NEW t \in DOMAIN terms, LooksAtList(t)
        PROVE  phase = "quitting" /\ early' = early
    BY <1>3, LooksAside DEF windowVars, link
  <1>4. ASSUME NEW t \in DOMAIN terms, Adopts(t) PROVE FALSE
    BY <1>4 DEF Adopts
  <1>5. CASE \/ ServiceEnds \/ GivesUp \/ LooksAtOwn \/ EndsUnowned \/ ReadsTheEnd
             \/ \E p \in Panes : Opens(p)
    BY <1>1, <1>5 DEF ServiceEnds, GivesUp, LooksAtOwn, EndsUnowned, ReadsTheEnd, Opens,
       windowVars, link
  <1>6. CASE Connects \/ TakesSeen \/ AdoptsNoMore \/ Linked \/ LetsGo \/ Crashes
    BY <1>6 DEF Connects, TakesSeen, AdoptsNoMore, Linked, LetsGo, Crashes, Gone
  <1>7. CASE Reads
    BY <1>1, <1>7 DEF Reads, Deliver, windowVars
  <1>8. CASE Answered
    <2>1. phase = "quitting" /\ early' = [early EXCEPT ![opener] = <<>>]
      BY <1>8 DEF Answered, Register, windowVars
    <2>. QED BY <1>0, <1>1, <2>1
  <1>9. CASE Detaches
    BY <1>9 DEF Detaches
  <1>10. CASE UNCHANGED vars
    BY <1>1, <1>10 DEF vars, windowVars, link
  <1>. QED BY <1>1, <1>2, <1>3, <1>4, <1>5, <1>6, <1>7, <1>8, <1>9, <1>10 DEF LNext

\* A terminal gets its handlers: what was held for it is theirs.
LEMMA RegistersDraw ==
    ASSUME LineInv, QuitsEmpty, NEW t \in Terms, t \in ToCome, Register(t),
           UNCHANGED <<wire, found, phase>>
    PROVE  \A u \in Terms : ToDraw(u)' = ToDraw(u)
  <1>. DEFINE ends == IF closed THEN <<Exit>> ELSE <<>>
              b == early[t] \o ends
              x == Registered(t)
  <1>0. PipeTypes /\ Fresh(t)
    BY DEF LineInv, LineOf
  <1>1. handlers' = [handlers EXCEPT ![t] = x] /\ early' = [early EXCEPT ![t] = <<>>]
    BY DEF Register
  <1>2. early[t] \in Seq(Events)
    BY <1>0 DEF PipeTypes
  <1>3. Range(b) \subseteq Range(early[t]) \cup {Exit} /\ Range(early[t]) \subseteq Range(b)
    <2>1. CASE closed
      <3>1. b = Append(early[t], Exit)
        BY <1>2, <2>1
      <3>2. Exit \in Events
        BY DEF Events
      <3>. QED BY <1>2, <3>1, <3>2, AppendRange
    <2>2. CASE ~closed
      <3>1. b = early[t]
        BY <1>2, <2>2
      <3>. QED BY <3>1
    <2>. QED BY <2>1, <2>2
  <1>4. x.todo = <<>> /\ x.backlog = b
    BY DEF Registered, NoHandler
  <1>. HIDE DEF x, b, ends
  <1>5. /\ handlers'[t] = x /\ early'[t] = <<>>
        /\ \A u \in Terms \ {t} : handlers'[u] = handlers[u] /\ early'[u] = early[u]
    BY <1>0, <1>1 DEF PipeTypes
  <1>6. \A u : HandOf(u)' = HandOf(u) /\ WireOf(u)' = WireOf(u)
    BY DEF HandOf, WireOf
  <1>7. ASSUME NEW u \in Terms, u # t PROVE ToDraw(u)' = ToDraw(u)
    BY <1>5, <1>6, <1>7 DEF ToDraw, Ahead, Upstream
  <1>8. ToDraw(t)' = ToDraw(t)
    <2>1. Ahead(t) = {} /\ Ahead(t)' = Range(b)
      BY <1>0, <1>4, <1>5, <1>6, EmptyLine DEF Ahead, Fresh
    <2>2. CASE phase = "quitting"
      <3>1. Range(b) \subseteq {Exit}
        BY <1>3, <2>2, EmptyLine DEF QuitsEmpty
      <3>. QED BY <2>1, <2>2, <3>1 DEF ToDraw, Upstream
    <2>3. CASE phase # "quitting"
      BY <1>3, <1>5, <1>6, <2>1, <2>3, EmptyLine DEF ToDraw, Upstream
    <2>. QED BY <2>2, <2>3
  <1>. QED BY <1>7, <1>8

LEMMA AnsweredSaved ==
    ASSUME CleanerInv, CleanerInv', LineInv, LineInv', SavedInv, QuitsEmpty, Answered
    PROVE  SavedInv'
  <1>0. /\ LinkTypes /\ PipeTypes /\ Gathered /\ SavedTypes /\ Apart
        /\ DOMAIN terms \subseteq Terms
    BY TermsInTerms DEF CleanerInv, LineInv, SavedInv
  <1>1. /\ opener \in DOMAIN terms /\ opener' = None /\ held' = held \cup {opener}
        /\ due' = due \cup {opener} /\ Register(opener)
        /\ UNCHANGED <<terms, wire, saved, savings, seenFile, phase, window, rows, seen, killing, found,
                       drawn, spent, handed, lossy>>
    BY DEF Answered, At, service, windowVars, history
  <1>2. opener # None /\ opener \in Terms /\ None \notin Terms
    BY <1>0, <1>1, BoundsAreNaturals DEF None, Terms
  <1>3. DOMAIN rows = {} /\ phase \in {"linked", "quitting"}
    BY <1>0, <1>2 DEF Gathered, Nothing
  <1>4. opener \notin held /\ drawn[opener] = 0 /\ handed[opener] = <<>>
    <2>1. Fresh(opener)
      BY <1>2 DEF LineInv, LineOf, ToCome
    <2>. QED BY <1>0, <1>2, <2>1 DEF Apart, Fresh
  <1>5. SavedTypes'
    BY <1>0, <1>1 DEF SavedTypes, savings
  <1>6. Apart'
    BY <1>0, <1>1, <1>2, <1>3, <1>4, EmptyLine DEF Apart, LinkTypes
  <1>7. \A u \in Terms : ToDraw(u)' = ToDraw(u)
    BY <1>1, <1>2, RegistersDraw DEF ToCome
  <1>8. ASSUME NEW u \in Placed' PROVE Coming(u)'
    <2>1. u \in Placed /\ u \in Terms /\ Coming(u)
      BY <1>1, <1>2, <1>8, PlacedTerms DEF Placed, SavedInv
    <2>2. DrawnTo(u)' = DrawnTo(u)
      BY <1>1, <1>3, <1>4 DEF DrawnTo
    <2>. QED BY <1>1, <1>7, <2>1, <2>2 DEF Coming, Onward, NoGap
  <1>9. ASSUME NEW u \in Known' PROVE SavedFits(u)'
    <2>1. u \in DOMAIN terms /\ u \in Known /\ SavedFits(u) /\ u # None
      BY <1>0, <1>1, <1>2, <1>9 DEF SavedInv, Known, savings
    <2>2. (Kept(u)' <=> Kept(u)) /\ savedTo' = savedTo /\ missing' = missing
      BY <1>1, SavedSame
    <2>. QED BY <1>1, <1>3, <1>4, <2>1, <2>2 DEF SavedFits, Agrees
  <1>. QED BY <1>5, <1>6, <1>8, <1>9 DEF SavedInv

-----------------------------------------------------------------------------
(* Saved output.                                                           *)

\* Of the numbers of an interval that a set has, one is the greatest and one
\* the least.
LEMMA GreatestThereIs ==
    ASSUME NEW a \in Int, NEW b \in Int, NEW S \in SUBSET (a..b), S # {}
    PROVE  \E m \in S : \A x \in S : x <= m
  <1>. DEFINE Top(U) == \E m \in U : \A x \in U : x <= m
              Topless == {U \in SUBSET S : U # {} /\ ~Top(U)}
              Order == StrictSubsetOrdering(S)
  <1>. SUFFICES ASSUME Topless # {} PROVE FALSE
    OBVIOUS
  <1>0. IsFiniteSet(S)
    BY FS_Interval, FS_Subset
  <1>1. IsWellFoundedOn(Order, SUBSET S)
    BY <1>0, FS_StrictSubsetOrderingWellFounded, FS_FiniteSubsetsOfFinite
  <1>2. PICK U \in Topless : \A V \in Topless : ~(<<V, U>> \in Order)
    <2>. HIDE DEF Order, Topless
    <2>1. Topless \subseteq SUBSET S
      BY DEF Topless
    <2>. QED BY <1>1, <2>1, WFMin
  <1>3. PICK u \in U : TRUE
    OBVIOUS
  <1>4. U # {u}
    BY <1>3
  <1>. DEFINE V == U \ {u}
  <1>5. V \in SUBSET S /\ V # {} /\ <<V, U>> \in Order
    BY <1>3, <1>4 DEF StrictSubsetOrdering
  <1>6. PICK m \in V : \A x \in V : x <= m
    BY <1>2, <1>5
  <1>7. u \in Int /\ m \in Int /\ U = V \cup {u} /\ U \subseteq Int
    BY <1>3
  <1>8. CASE m <= u
    <2>1. \A x \in U : x <= u
      BY <1>6, <1>7, <1>8
    <2>. QED BY <1>3, <2>1
  <1>9. CASE ~(m <= u)
    <2>1. \A x \in U : x <= m
      BY <1>6, <1>7, <1>9
    <2>. QED BY <1>6, <2>1
  <1>. QED BY <1>8, <1>9

LEMMA MaxIsGreatest ==
    ASSUME NEW a \in Int, NEW b \in Int, NEW S \in SUBSET (a..b), S # {}
    PROVE  Max(S) \in S /\ Max(S) \in a..b /\ \A x \in S : x <= Max(S)
  <1>1. PICK m \in S : \A x \in S : m >= x
    <2>1. PICK n \in S : \A x \in S : x <= n
      BY GreatestThereIs
    <2>. QED BY <2>1
  <1>2. Max(S) \in S /\ \A x \in S : Max(S) >= x
    BY <1>1 DEF Max
  <1>. QED BY <1>2

LEMMA MinIsOne ==
    ASSUME NEW a \in Int, NEW b \in Int, NEW S \in SUBSET (a..b), S # {}
    PROVE  Min(S) \in S
  <1>. DEFINE T == {-x : x \in S}
  <1>1. T \in SUBSET (-b..-a) /\ T # {} /\ -a \in Int /\ -b \in Int
    <2>1. \A x \in S : -x \in -b..-a
      <3>. TAKE x \in S
      <3>1. x \in Int /\ a <= x /\ x <= b
        OBVIOUS
      <3>. QED BY <3>1
    <2>2. T \subseteq -b..-a
      BY <2>1
    <2>3. T # {}
      <3>1. PICK x \in S : TRUE
        OBVIOUS
      <3>2. -x \in T
        OBVIOUS
      <3>. QED BY <3>2
    <2>. HIDE DEF T
    <2>. QED BY <2>2, <2>3
  <1>2. PICK n \in T : \A y \in T : y <= n
    <2>. HIDE DEF T
    <2>. QED BY <1>1, GreatestThereIs
  <1>3. PICK m \in S : n = -m
    BY <1>2
  <1>4. \A x \in S : m <= x
    <2>. TAKE x \in S
    <2>1. -x <= -m
      BY <1>2, <1>3
    <2>. QED BY <2>1
  <1>. QED BY <1>4 DEF Min

\* A compaction leaves the end of the saved output.
LEMMA CompactionKeepsTheEnd ==
    ASSUME NEW S, NEW s \in Seq(S), Full(s)
    PROVE  \E j \in 0..Len(s) : Compacted(s) = SubSeq(s, 1 + j, Len(s))
  <1>. DEFINE n == Len(s)
  <1>1. n \in Nat /\ TailKeep \in Nat /\ n > TailKeep
    BY BoundsAreNaturals DEF Full
  <1>2. CASE Breaks(s) = {}
    <2>1. Compacted(s) = SubSeq(s, 1 + (n - TailKeep), n)
      BY <1>2 DEF Compacted
    <2>. HIDE DEF n
    <2>2. n - TailKeep \in 0..n
      BY <1>1
    <2>. QED BY <2>1, <2>2 DEF n
  <1>3. CASE Breaks(s) # {}
    <2>1. Compacted(s) = SubSeq(s, 1 + Min(Breaks(s)), n)
      BY <1>3 DEF Compacted
    <2>2. Breaks(s) \in SUBSET (n - TailKeep + 1..n)
      BY DEF Breaks
    <2>. HIDE DEF n
    <2>3. Min(Breaks(s)) \in Breaks(s)
      <3>1. n - TailKeep + 1 \in Int /\ n \in Int
        BY <1>1
      <3>. QED BY <1>3, <2>2, <3>1, MinIsOne
    <2>4. Min(Breaks(s)) \in 0..n
      BY <1>1, <2>2, <2>3
    <2>. QED BY <2>1, <2>4 DEF n
  <1>. QED BY <1>2, <1>3

\* What is left of saved output that lost its beginning is in turn, and has no
\* gap where there was none.
LEMMA ShortenedKeeps ==
    ASSUME NEW s \in Seq(Terms \X Chunks), NEW j \in 0..Len(s),
           NEW r, r = SubSeq(s, 1 + j, Len(s)), NEW t, NEW n \in Nat
    PROVE  /\ r \in Seq(Terms \X Chunks) /\ \A i \in DOMAIN r : i + j \in DOMAIN s /\ r[i] = s[i + j]
           /\ UpTo(s, t, n) => UpTo(r, t, n)
           /\ InTurn(s, t) => InTurn(r, t) /\ (Gapless(s, t, n) => Gapless(r, t, n))
  <1>0. /\ Len(s) \in Nat /\ DOMAIN s = 1..Len(s) /\ j \in Nat /\ j <= Len(s)
        /\ \A i \in DOMAIN s : s[i] \in Terms \X Chunks /\ s[i][2] \in Nat
    <2>1. \A i \in DOMAIN s : s[i] \in Terms \X Chunks
      OBVIOUS
    <2>2. \A x \in Terms \X Chunks : x[2] \in Nat
      BY BoundsAreNaturals DEF Chunks
    <2>. QED BY <2>1, <2>2
  <1>1. /\ r \in Seq(Terms \X Chunks) /\ DOMAIN r = 1..Len(s) - j
        /\ \A i \in DOMAIN r : r[i] = s[i + j]
    <2>. DEFINE m == 1 + j
                l == Len(s)
    <2>1. m \in Int /\ l \in Int /\ \A i \in m..l : s[i] \in Terms \X Chunks
      BY <1>0
    <2>. HIDE DEF m, l
    <2>2. /\ SubSeq(s, m, l) \in Seq(Terms \X Chunks)
          /\ Len(SubSeq(s, m, l)) = IF m <= l THEN l - m + 1 ELSE 0
          /\ \A i \in 1..l - m + 1 : SubSeq(s, m, l)[i] = s[m + i - 1]
      BY <2>1, SubSeqProperties
    <2>3. r = SubSeq(s, m, l)
      BY DEF m, l
    <2>4. m = 1 + j /\ l = Len(s) /\ l \in Nat /\ j \in Nat /\ j <= l
      BY <1>0 DEF m, l
    <2>5. /\ r \in Seq(Terms \X Chunks) /\ Len(r) = IF m <= l THEN l - m + 1 ELSE 0
          /\ \A i \in 1..l - m + 1 : r[i] = s[m + i - 1]
      BY <2>2, <2>3
    <2>6. Len(r) = l - j /\ l - m + 1 = l - j
      BY <2>4, <2>5
    <2>7. ASSUME NEW i \in 1..l - j PROVE r[i] = s[i + j]
      <3>1. r[i] = s[m + i - 1]
        BY <2>5, <2>6
      <3>2. m + i - 1 = i + j
        BY <2>4
      <3>. QED BY <3>1, <3>2
    <2>8. DOMAIN r = 1..l - j
      BY <2>5, <2>6
    <2>. QED BY <2>4, <2>5, <2>7, <2>8
  <1>2. \A i \in DOMAIN r : i + j \in DOMAIN s /\ r[i] = s[i + j] /\ i \in Nat
    BY <1>0, <1>1
  <1>3. \A i \in Spots(r, t) : i \in DOMAIN r /\ i + j \in Spots(s, t) /\ r[i][2] = s[i + j][2]
    BY <1>2 DEF Spots
  <1>4. ChunksIn(r, t) \subseteq ChunksIn(s, t)
    BY <1>3 DEF ChunksIn
  <1>5. ASSUME InTurn(s, t) PROVE InTurn(r, t)
    <2>1. ASSUME NEW i \in Spots(r, t), NEW h \in Spots(r, t), i < h PROVE r[i][2] < r[h][2]
      <3>1. i + j \in Spots(s, t) /\ h + j \in Spots(s, t) /\ i + j < h + j
        BY <1>0, <1>2, <1>3, <2>1
      <3>2. s[i + j][2] < s[h + j][2]
        BY <1>5, <3>1 DEF InTurn
      <3>. QED BY <1>3, <3>2
    <2>. QED BY <2>1 DEF InTurn
  <1>6. ASSUME InTurn(s, t), Gapless(s, t, n) PROVE Gapless(r, t, n)
    <2>1. ASSUME NEW k \in ChunksIn(r, t), NEW m \in k..n PROVE m \in ChunksIn(r, t)
      <3>1. PICK i \in Spots(r, t) : k = r[i][2]
        BY DEF ChunksIn
      <3>2. m \in ChunksIn(s, t)
        BY <1>4, <1>6, <2>1 DEF Gapless
      <3>3. PICK h \in Spots(s, t) : m = s[h][2]
        BY <3>2 DEF ChunksIn
      <3>4. i + j \in Spots(s, t) /\ k = s[i + j][2] /\ h \in DOMAIN s /\ i \in DOMAIN r
        BY <1>3, <3>1 DEF Spots
      <3>5. k \in Nat /\ m \in Nat /\ k <= m
        BY <1>0, <1>2, <2>1, <3>3, <3>4
      <3>. DEFINE g == i + j
                  l == h - j
      <3>6. ~(h < g)
        <4>1. g \in Spots(s, t) /\ k = s[g][2]
          BY <3>4
        <4>. HIDE DEF g
        <4>2. h < g => m < k
          BY <1>6, <3>3, <4>1 DEF InTurn
        <4>3. ~(m < k)
          BY <3>5
        <4>. QED BY <4>2, <4>3
      <3>7. l \in DOMAIN r /\ l + j = h
        <4>. DEFINE w == Len(s)
        <4>1. h \in 1..w /\ i \in 1..w - j /\ w \in Nat /\ j \in Nat /\ h >= i + j
          BY <1>0, <1>1, <3>4, <3>6
        <4>. HIDE DEF w
        <4>2. l \in 1..w - j /\ l + j = h
          BY <4>1
        <4>. QED BY <1>1, <4>2 DEF w
      <3>. HIDE DEF l
      <3>8. l \in Spots(r, t) /\ r[l][2] = m
        BY <1>2, <3>3, <3>7 DEF Spots
      <3>. QED BY <3>8 DEF ChunksIn
    <2>. QED BY <2>1 DEF Gapless
  <1>7. UpTo(s, t, n) => UpTo(r, t, n)
    BY <1>4 DEF UpTo
  <1>. QED BY <1>1, <1>2, <1>5, <1>6, <1>7

LEMMA Joined ==
    ASSUME NEW S, NEW s \in Seq(S), NEW r \in Seq(S)
    PROVE  s \o r \in Seq(S) /\ Len(s \o r) = Len(s) + Len(r)
  OBVIOUS

LEMMA ChunksAreNaturals ==
    ASSUME NEW s \in Seq(Terms \X Chunks), NEW t PROVE ChunksIn(s, t) \subseteq Nat
  <1>1. \A i \in DOMAIN s : s[i] \in Terms \X Chunks
    OBVIOUS
  <1>2. \A i \in DOMAIN s : s[i][2] \in Nat
    BY <1>1, BoundsAreNaturals DEF Chunks
  <1>. QED BY <1>2 DEF ChunksIn, Spots

\* Output r is s with t's chunks after b added, up to n: no other terminal has
\* more, and what is in turn, whole or from the first chunk up to b is so up to n.
AddedTo(s, r, t, b, n) ==
    /\ r \in Seq(Terms \X Chunks)
    /\ \A i \in DOMAIN r : (i \in DOMAIN s /\ r[i] = s[i]) \/ r[i][1] = t
    /\ \A u : u # t => ChunksIn(r, u) = ChunksIn(s, u) /\ (InTurn(s, u) => InTurn(r, u))
    /\ InTurn(s, t) /\ UpTo(s, t, b) =>
           /\ InTurn(r, t) /\ UpTo(r, t, n)
           /\ Gapless(s, t, b) => Gapless(r, t, n)
           /\ AllUpTo(s, t, b) => AllUpTo(r, t, n)

LEMMA AddedKeeps ==
    ASSUME NEW s \in Seq(Terms \X Chunks), NEW a \in Seq(Terms \X Chunks), NEW t, NEW b \in Nat,
           \A i \in 1..Len(a) : a[i] = <<t, b + i>>,
           NEW r, r = s \o a
    PROVE  AddedTo(s, r, t, b, b + Len(a))
  <1>. DEFINE k == Len(s)
              m == Len(a)
  <1>0. k \in Nat /\ m \in Nat /\ DOMAIN s = 1..k
    OBVIOUS
  <1>1. r \in Seq(Terms \X Chunks) /\ DOMAIN r = 1..k + m
    <2>1. r \in Seq(Terms \X Chunks) /\ Len(r) = k + m
      BY Joined
    <2>. HIDE DEF k, m
    <2>. QED BY <2>1
  <1>2. /\ \A i \in 1..k : r[i] = s[i]
        /\ \A i \in 1..m : r[k + i] = a[i]
    OBVIOUS
  <1>3. \A i \in 1..m : r[k + i] = <<t, b + i>>
    BY <1>2
  <1>. HIDE DEF k, m
  <1>4. \A i \in DOMAIN s : i \in DOMAIN r /\ r[i] = s[i]
    BY <1>0, <1>1, <1>2
  <1>5. \A i \in 1..m : k + i \in DOMAIN r /\ r[k + i][1] = t /\ r[k + i][2] = b + i
    BY <1>0, <1>1, <1>3
  <1>6. \A i \in DOMAIN r : i \in DOMAIN s \/ \E j \in 1..m : i = k + j
    <2>. TAKE i \in DOMAIN r
    <2>1. i \in 1..k \/ (i - k \in 1..m /\ i = k + (i - k))
      BY <1>0, <1>1
    <2>. QED BY <1>0, <2>1
  <1>7. \A i \in DOMAIN r : (i \in DOMAIN s /\ r[i] = s[i]) \/ r[i][1] = t
    BY <1>4, <1>5, <1>6
  <1>8. ASSUME NEW u, u # t
        PROVE  ChunksIn(r, u) = ChunksIn(s, u) /\ (InTurn(s, u) => InTurn(r, u))
    <2>1. Spots(r, u) = Spots(s, u) /\ \A i \in Spots(s, u) : r[i] = s[i]
      BY <1>4, <1>7, <1>8 DEF Spots
    <2>2. ChunksIn(r, u) = ChunksIn(s, u)
      BY <2>1 DEF ChunksIn
    <2>3. InTurn(s, u) => InTurn(r, u)
      BY <2>1 DEF InTurn
    <2>. QED BY <2>2, <2>3
  <1>9. \A i \in Spots(r, t) : (i \in Spots(s, t) /\ r[i] = s[i]) \/ \E j \in 1..m : i = k + j
    BY <1>4, <1>6 DEF Spots
  <1>10. (\A i \in Spots(s, t) : i \in Spots(r, t) /\ i \in 1..k /\ r[i] = s[i])
         /\ \A i \in 1..m : k + i \in Spots(r, t)
    BY <1>0, <1>4, <1>5 DEF Spots
  <1>11. ChunksIn(r, t) = ChunksIn(s, t) \cup {b + i : i \in 1..m}
    <2>1. ASSUME NEW i \in Spots(r, t) PROVE r[i][2] \in ChunksIn(s, t) \cup {b + j : j \in 1..m}
      BY <1>5, <1>9 DEF ChunksIn
    <2>2. ChunksIn(s, t) \subseteq ChunksIn(r, t)
      BY <1>10 DEF ChunksIn
    <2>3. ASSUME NEW i \in 1..m PROVE b + i \in ChunksIn(r, t)
      <3>1. k + i \in Spots(r, t) /\ r[k + i][2] = b + i
        BY <1>5, <1>10
      <3>. QED BY <3>1 DEF ChunksIn
    <2>4. ChunksIn(r, t) \subseteq ChunksIn(s, t) \cup {b + j : j \in 1..m}
      BY <2>1 DEF ChunksIn
    <2>. QED BY <2>2, <2>3, <2>4
  <1>12. ChunksIn(s, t) \subseteq Nat
    BY ChunksAreNaturals
  <1>13. ASSUME InTurn(s, t), UpTo(s, t, b)
         PROVE  /\ InTurn(r, t) /\ UpTo(r, t, b + m)
                /\ Gapless(s, t, b) => Gapless(r, t, b + m)
                /\ AllUpTo(s, t, b) => AllUpTo(r, t, b + m)
    <2>1. \A i \in Spots(s, t) : s[i][2] \in ChunksIn(s, t) /\ s[i][2] \in Nat /\ s[i][2] <= b
      BY <1>12, <1>13 DEF ChunksIn, UpTo
    <2>2. InTurn(r, t)
      <3>1. ASSUME NEW i \in Spots(r, t), NEW j \in Spots(r, t), i < j PROVE r[i][2] < r[j][2]
        <4>1. CASE i \in Spots(s, t) /\ j \in Spots(s, t)
          BY <1>10, <1>13, <3>1, <4>1 DEF InTurn
        <4>2. CASE i \in Spots(s, t) /\ j \notin Spots(s, t)
          <5>1. PICK n \in 1..m : j = k + n
            BY <1>9, <4>2
          <5>2. r[j][2] = b + n /\ r[i][2] <= b /\ r[i][2] \in Nat
            BY <1>5, <1>10, <2>1, <4>2, <5>1
          <5>3. \A x \in Nat : x <= b => x < b + n
            BY <1>0
          <5>. QED BY <5>2, <5>3
        <4>3. CASE i \notin Spots(s, t) /\ j \in Spots(s, t)
          <5>1. PICK n \in 1..m : i = k + n
            BY <1>9, <4>3
          <5>2. j \in 1..k
            BY <1>10, <4>3
          <5>. QED BY <1>0, <3>1, <5>1, <5>2
        <4>4. CASE i \notin Spots(s, t) /\ j \notin Spots(s, t)
          <5>1. PICK n \in 1..m : j = k + n
            BY <1>9, <4>4
          <5>2. PICK l \in 1..m : i = k + l
            BY <1>9, <4>4
          <5>3. l < n
            BY <1>0, <3>1, <5>1, <5>2
          <5>4. r[i][2] = b + l /\ r[j][2] = b + n
            BY <1>5, <5>1, <5>2
          <5>. QED BY <5>3, <5>4
        <4>. QED BY <4>1, <4>2, <4>3, <4>4
      <3>. QED BY <3>1 DEF InTurn
    <2>3. UpTo(r, t, b + m)
      <3>1. ASSUME NEW n \in ChunksIn(r, t) PROVE n <= b + m
        <4>1. CASE n \in ChunksIn(s, t)
          BY <1>0, <1>12, <1>13, <4>1 DEF UpTo
        <4>2. CASE n \in {b + i : i \in 1..m}
          BY <1>0, <4>2
        <4>. QED BY <1>11, <4>1, <4>2
      <3>. QED BY <3>1 DEF UpTo
    <2>4. ASSUME NEW n \in b + 1..b + m PROVE n \in ChunksIn(r, t)
      <3>1. n - b \in 1..m /\ n = b + (n - b)
        BY <1>0
      <3>. QED BY <1>11, <3>1
    <2>5. ASSUME Gapless(s, t, b) PROVE Gapless(r, t, b + m)
      <3>1. ASSUME NEW n \in ChunksIn(r, t), NEW l \in n..b + m PROVE l \in ChunksIn(r, t)
        <4>1. n \in Nat /\ l \in Int /\ (n \in ChunksIn(s, t) \/ n > b)
          BY <1>11, <1>12, <3>1
        <4>2. CASE l <= b
          <5>1. n \in ChunksIn(s, t) /\ l \in n..b
            BY <3>1, <4>1, <4>2
          <5>. QED BY <1>11, <2>5, <5>1 DEF Gapless
        <4>3. CASE ~(l <= b)
          <5>1. l \in b + 1..b + m
            BY <1>0, <3>1, <4>1, <4>3
          <5>. QED BY <2>4, <5>1
        <4>. QED BY <4>2, <4>3
      <3>. QED BY <3>1 DEF Gapless
    <2>6. ASSUME AllUpTo(s, t, b) PROVE AllUpTo(r, t, b + m)
      <3>1. ChunksIn(s, t) = 1..b
        BY <2>6 DEF AllUpTo
      <3>2. 1..b + m = 1..b \cup {b + i : i \in 1..m}
        <4>1. ASSUME NEW n \in 1..b + m PROVE n \in 1..b \/ (n - b \in 1..m /\ n = b + (n - b))
          BY <1>0
        <4>2. \A i \in 1..m : b + i \in 1..b + m
          BY <1>0
        <4>3. 1..b \subseteq 1..b + m
          BY <1>0
        <4>. QED BY <4>1, <4>2, <4>3
      <3>. QED BY <1>11, <3>1, <3>2 DEF AllUpTo
    <2>. QED BY <2>2, <2>3, <2>5, <2>6
  <1>. QED BY <1>1, <1>7, <1>8, <1>13 DEF m, AddedTo

\* What is left, w, of saved output r is in turn and without a gap where that was,
\* and is all of it unless it was cut.
LeftOf(r, w) ==
    /\ w \in Seq(Terms \X Chunks) /\ (~Full(r) => w = r)
    /\ \A i \in DOMAIN w : \E h \in DOMAIN r : w[i] = r[h]
    /\ \A t : \A n \in Nat :
           /\ UpTo(r, t, n) => UpTo(w, t, n)
           /\ InTurn(r, t) => InTurn(w, t) /\ (Gapless(r, t, n) => Gapless(w, t, n))

LEMMA PutAwayKeeps ==
    ASSUME NEW r \in Seq(Terms \X Chunks), NEW w, w = IF Full(r) THEN Compacted(r) ELSE r
    PROVE  LeftOf(r, w)
  <1>1. CASE ~Full(r)
    BY <1>1 DEF LeftOf
  <1>2. CASE Full(r)
    <2>1. PICK j \in 0..Len(r) : w = SubSeq(r, 1 + j, Len(r))
      BY <1>2, CompactionKeepsTheEnd
    <2>2. w \in Seq(Terms \X Chunks) /\ \A i \in DOMAIN w : i + j \in DOMAIN r /\ w[i] = r[i + j]
      BY <2>1, ShortenedKeeps, 0 \in Nat
    <2>3. ASSUME NEW t, NEW n \in Nat
          PROVE  /\ UpTo(r, t, n) => UpTo(w, t, n)
                 /\ InTurn(r, t) => InTurn(w, t) /\ (Gapless(r, t, n) => Gapless(w, t, n))
      BY <2>1, ShortenedKeeps
    <2>. QED BY <1>2, <2>2, <2>3 DEF LeftOf
  <1>. QED BY <1>1, <1>2

\* What a step does that saves t's chunks after b, up to n: nothing that another
\* terminal has saved goes wrong, and nothing of t's that was right up to b.
SavedUpTo(t, b, n) ==
    /\ saved' \in [Panes -> Seq(Terms \X Chunks)]
    /\ \A p \in Panes : \A i \in DOMAIN saved'[p] : saved'[p][i][1] \in DOMAIN terms
    /\ cut' \subseteq Panes /\ savedTo' \in [Terms -> 0..MaxOutput]
    /\ savedTo'[t] = n /\ \A u \in Terms \ {t} : savedTo'[u] = savedTo[u]
    /\ \A u \in DOMAIN terms \ {t} : Kept(u) => Kept(u)'
    /\ /\ InTurn(SavedBy(t), t) /\ UpTo(SavedBy(t), t, b)
       /\ t \notin missing' =>
              /\ Gapless(SavedBy(t), t, b)
              /\ terms[t].pane \notin cut => AllUpTo(SavedBy(t), t, b)
       => Kept(t)'

LEMMA SavesKeep ==
    ASSUME SavedTypes, UNCHANGED terms, missing \subseteq missing', DOMAIN terms \subseteq Terms,
           NEW t \in DOMAIN terms, \A u \in DOMAIN terms : terms[u].pane \in Panes,
           NEW a \in Seq(Terms \X Chunks), NEW b \in Nat, \A i \in 1..Len(a) : a[i] = <<t, b + i>>,
           a = <<>> => b = savedTo[t], b + Len(a) <= MaxOutput, Saves(t, a)
    PROVE  SavedUpTo(t, b, b + Len(a))
  <1>. DEFINE p == terms[t].pane
              n == b + Len(a)
  <1>. PICK s : s = saved[p]
    OBVIOUS
  <1>. PICK r : r = s \o a
    OBVIOUS
  <1>. PICK w : w = IF Full(r) THEN Compacted(r) ELSE r
    OBVIOUS
  <1>10. saved \in [Panes -> Seq(Terms \X Chunks)] /\ savedTo \in [Terms -> 0..MaxOutput]
    BY DEF SavedTypes
  <1>11. p \in Panes /\ s \in Seq(Terms \X Chunks) /\ t \in Terms
    BY <1>10
  <1>12. MaxOutput \in Nat
    BY BoundsAreNaturals
  <1>13. n \in Nat
    OBVIOUS
  <1>14. \A i \in DOMAIN s : s[i][1] \in DOMAIN terms
    BY <1>11 DEF SavedTypes
  <1>0. /\ p \in Panes /\ s \in Seq(Terms \X Chunks) /\ t \in Terms /\ n \in Nat
        /\ saved \in [Panes -> Seq(Terms \X Chunks)] /\ savedTo \in [Terms -> 0..MaxOutput]
        /\ MaxOutput \in Nat
    BY <1>10, <1>11, <1>12, <1>13
  <1>1. /\ saved' = [saved EXCEPT ![p] = w] /\ cut' = cut \cup {q \in {p} : Full(r)}
        /\ savedTo' = [savedTo EXCEPT ![t] = IF a = <<>> THEN savedTo[t] ELSE Last(a)[2]]
    BY DEF Saves, With, SavedBy
  <1>2. (IF a = <<>> THEN savedTo[t] ELSE Last(a)[2]) = n /\ n \in 0..MaxOutput
    <2>1. CASE a = <<>>
      BY <1>0, <2>1
    <2>2. CASE a # <<>>
      <3>1. Len(a) \in 1..Len(a) /\ Last(a) = a[Len(a)]
        BY <2>2 DEF Last
      <3>2. Last(a) = <<t, n>>
        BY <3>1
      <3>. QED BY <1>0, <2>2, <3>2
    <2>. QED BY <2>1, <2>2
  <1>. HIDE DEF n
  <1>3. /\ savedTo' \in [Terms -> 0..MaxOutput] /\ savedTo'[t] = n
        /\ \A u \in Terms \ {t} : savedTo'[u] = savedTo[u]
    BY <1>0, <1>1, <1>2
  <1>4. AddedTo(s, r, t, b, n)
    <2>1. s \in Seq(Terms \X Chunks)
      BY <1>0
    <2>. QED BY <2>1, AddedKeeps DEF n
  <1>5. LeftOf(r, w)
    <2>1. r \in Seq(Terms \X Chunks)
      BY <1>4 DEF AddedTo
    <2>. QED BY <2>1, PutAwayKeeps
  <1>6. /\ saved'[p] = w /\ saved' \in [Panes -> Seq(Terms \X Chunks)]
        /\ \A q \in Panes \ {p} : saved'[q] = saved[q]
        /\ cut' \subseteq Panes /\ \A q \in Panes \ {p} : q \in cut' <=> q \in cut
        /\ p \notin cut' => p \notin cut /\ w = r
    <2>1. cut \subseteq Panes
      BY DEF SavedTypes
    <2>. QED BY <1>0, <1>1, <1>5, <2>1 DEF LeftOf
  <1>7. ASSUME NEW q \in Panes, NEW i \in DOMAIN saved'[q] PROVE saved'[q][i][1] \in DOMAIN terms
    <2>1. CASE q = p
      <3>1. saved'[q] = w
        BY <1>6, <2>1
      <3>2. \A j \in DOMAIN w : \E h \in DOMAIN r : w[j] = r[h]
        BY <1>5 DEF LeftOf
      <3>3. \A h \in DOMAIN r : r[h][1] \in DOMAIN terms
        BY <1>4, <1>14 DEF AddedTo
      <3>4. ASSUME NEW j \in DOMAIN w PROVE w[j][1] \in DOMAIN terms
        <4>1. PICK h \in DOMAIN r : w[j] = r[h]
          BY <3>2
        <4>. QED BY <3>3, <4>1
      <3>. QED BY <3>1, <3>4
    <2>2. CASE q # p
      BY <1>6, <1>7, <2>2 DEF SavedTypes
    <2>. QED BY <2>1, <2>2
  <1>8. ASSUME NEW u \in DOMAIN terms, u # t, Kept(u) PROVE Kept(u)'
    <2>1. /\ InTurn(SavedBy(u), u) /\ UpTo(SavedBy(u), u, savedTo[u])
          /\ u \notin missing =>
                 /\ Gapless(SavedBy(u), u, savedTo[u])
                 /\ terms[u].pane \notin cut => AllUpTo(SavedBy(u), u, savedTo[u])
      BY <1>8 DEF Kept
    <2>2. savedTo'[u] = savedTo[u] /\ savedTo[u] \in Nat /\ terms'[u] = terms[u]
      BY <1>0, <1>3, <1>8
    <2>3. CASE terms[u].pane # p
      <3>1. SavedBy(u)' = SavedBy(u) /\ (terms[u].pane \in cut' <=> terms[u].pane \in cut)
        BY <1>6, <2>2, <2>3 DEF SavedBy
      <3>. QED BY <2>1, <2>2, <3>1 DEF Kept
    <2>4. CASE terms[u].pane = p
      <3>1. SavedBy(u)' = w /\ SavedBy(u) = s
        BY <1>6, <2>2, <2>4 DEF SavedBy
      <3>2. ChunksIn(r, u) = ChunksIn(s, u) /\ InTurn(r, u)
        BY <1>4, <1>8, <2>1, <3>1 DEF AddedTo
      <3>3. /\ UpTo(r, u, savedTo[u])
            /\ u \notin missing =>
                   /\ Gapless(r, u, savedTo[u])
                   /\ terms[u].pane \notin cut => AllUpTo(r, u, savedTo[u])
        BY <2>1, <3>1, <3>2 DEF UpTo, Gapless, AllUpTo
      <3>4. /\ InTurn(w, u) /\ UpTo(w, u, savedTo[u])
            /\ u \notin missing =>
                   /\ Gapless(w, u, savedTo[u])
                   /\ terms[u].pane \notin cut' => AllUpTo(w, u, savedTo[u])
        BY <1>5, <1>6, <2>2, <2>4, <3>2, <3>3 DEF LeftOf
      <3>. QED BY <2>2, <3>1, <3>4 DEF Kept
    <2>. QED BY <2>3, <2>4
  <1>9. ASSUME InTurn(SavedBy(t), t), UpTo(SavedBy(t), t, b),
               t \notin missing' => /\ Gapless(SavedBy(t), t, b)
                                    /\ terms[t].pane \notin cut => AllUpTo(SavedBy(t), t, b)
        PROVE  Kept(t)'
    <2>1. SavedBy(t) = s /\ SavedBy(t)' = w
      BY <1>6 DEF SavedBy
    <2>2. /\ InTurn(r, t) /\ UpTo(r, t, n)
          /\ t \notin missing' =>
                 /\ Gapless(r, t, n)
                 /\ p \notin cut => AllUpTo(r, t, n)
      BY <1>4, <1>9, <2>1 DEF AddedTo
    <2>3. /\ InTurn(w, t) /\ UpTo(w, t, n)
          /\ t \notin missing' =>
                 /\ Gapless(w, t, n)
                 /\ p \notin cut' => AllUpTo(w, t, n)
      BY <1>0, <1>5, <1>6, <2>2 DEF LeftOf
    <2>. QED BY <1>3, <2>1, <2>3 DEF Kept
  <1>. QED BY <1>3, <1>6, <1>7, <1>8, <1>9 DEF SavedUpTo, n

\* Where the output is found to have stopped in the tail: at the tail's start, at
\* one of the places, and behind none of them.
LEMMA StopsLast ==
    ASSUME NEW t, NEW c \in Nat, t \notin DOMAIN seen, saved[terms[t].pane] \in Seq(Terms \X Chunks)
    PROVE  /\ TailStart(c) \in 0..c /\ StoppedAt(t, c) \in TailStart(c)..c
           /\ \A k \in Ends(t, c) : k <= StoppedAt(t, c)
           /\ Ends(t, c) = {} => \A k \in Overlaps(t, c) : k <= StoppedAt(t, c)
           /\ \/ StoppedAt(t, c) = TailStart(c)
              \/ StoppedAt(t, c) \in Ends(t, c) \cup Overlaps(t, c)
           /\ ProbeLength(t) \in Nat /\ ProbeLength(t) <= Len(SavedBy(t))
  <1>. DEFINE ends == Ends(t, c)
              others == Overlaps(t, c)
              C == {TailStart(c)} \cup IF ends # {} THEN ends ELSE others
  <1>. PICK a : a = TailStart(c)
    OBVIOUS
  <1>. PICK n : n = ProbeLength(t)
    OBVIOUS
  <1>1. a \in 0..c
    BY BoundsAreNaturals DEF TailStart, Smaller
  <1>2. n \in Nat /\ n <= Len(SavedBy(t))
    <2>1. Probe \in Nat /\ Len(SavedBy(t)) \in Nat
      BY BoundsAreNaturals DEF SavedBy
    <2>. QED BY <2>1 DEF ProbeLength, Smaller
  <1>3. ends \subseteq a + n..c /\ others \subseteq a + 1..c
    BY DEF Ends, Overlaps
  <1>4. StoppedAt(t, c) = Max(C)
    BY DEF StoppedAt
  <1>. HIDE DEF ends, others
  <1>5. C \in SUBSET (a..c) /\ a \in C
    <2>1. ends \subseteq a..c /\ others \subseteq a..c
      BY <1>1, <1>2, <1>3
    <2>2. C \subseteq {a} \cup ends \cup others /\ a \in C
      OBVIOUS
    <2>3. a \in a..c
      BY <1>1
    <2>. HIDE DEF C
    <2>. QED BY <2>1, <2>2, <2>3
  <1>6. /\ \A k \in ends : k \in C
        /\ ends = {} => \A k \in others : k \in C
        /\ \A k \in C : k = a \/ k \in ends \cup others
    OBVIOUS
  <1>. HIDE DEF C
  <1>7. Max(C) \in C /\ Max(C) \in a..c /\ \A k \in C : k <= Max(C)
    <2>1. C # {} /\ a \in Int /\ c \in Int
      BY <1>1, <1>5
    <2>. QED BY <1>5, <2>1, MaxIsGreatest
  <1>. QED BY <1>1, <1>2, <1>4, <1>6, <1>7 DEF ends, others

\* A terminal that can be placed has saved no more than where it is found to have
\* stopped, and just that if nothing is left out.
LEMMA StopsRight ==
    ASSUME SavedTypes, NEW t \in DOMAIN terms, t \in Terms, terms[t].pane \in Panes, NEW c \in Nat
    PROVE  /\ StoppedAt(t, c) \in Nat
           /\ /\ ~CannotBePlaced(t, c) /\ savedTo[t] <= c
              /\ t \in DOMAIN seen => Agrees(t, seen[t])
              => /\ savedTo[t] <= StoppedAt(t, c)
                 /\ ~LeavesOut(t, c) /\ t \notin missing => StoppedAt(t, c) = savedTo[t]
  <1>. PICK x : x = savedTo[t]
    OBVIOUS
  <1>. PICK a : a = TailStart(c)
    OBVIOUS
  <1>0. x \in Nat /\ a \in 0..c /\ a \in Nat /\ saved[terms[t].pane] \in Seq(Terms \X Chunks)
    <2>1. saved[terms[t].pane] \in Seq(Terms \X Chunks)
      BY DEF SavedTypes
    <2>2. savedTo[t] \in Nat
      BY BoundsAreNaturals DEF SavedTypes
    <2>3. a \in 0..c
      BY BoundsAreNaturals DEF TailStart, Smaller
    <2>. QED BY <2>1, <2>2, <2>3
  <1>1. CASE t \in DOMAIN seen
    <2>1. StoppedAt(t, c) = Larger(seen[t], a) /\ seen[t] \in Nat
      BY <1>1 DEF StoppedAt, SavedTypes
    <2>2. StoppedAt(t, c) \in Nat /\ StoppedAt(t, c) >= seen[t]
      BY <1>0, <2>1 DEF Larger
    <2>3. ASSUME Agrees(t, seen[t]) PROVE x <= StoppedAt(t, c)
      BY <1>0, <2>1, <2>2, <2>3 DEF Agrees
    <2>4. ASSUME Agrees(t, seen[t]), ~LeavesOut(t, c), t \notin missing PROVE StoppedAt(t, c) = x
      <3>1. x = seen[t] /\ ~(x < a)
        BY <2>4 DEF Agrees, LeavesOut
      <3>. QED BY <1>0, <2>1, <3>1 DEF Larger
    <2>. QED BY <1>1, <2>2, <2>3, <2>4
  <1>2. CASE t \notin DOMAIN seen
    <2>. PICK m : m = StoppedAt(t, c)
      OBVIOUS
    <2>. PICK n : n = ProbeLength(t)
      OBVIOUS
    <2>1. /\ m \in a..c /\ n \in Nat /\ n <= Len(SavedBy(t))
          /\ \A k \in Ends(t, c) : k <= m
          /\ Ends(t, c) = {} => \A k \in Overlaps(t, c) : k <= m
          /\ m = a \/ m \in Ends(t, c) \cup Overlaps(t, c)
      BY <1>0, <1>2, StopsLast
    <2>2. m \in Nat
      BY <1>0, <2>1
    <2>3. ASSUME ~CannotBePlaced(t, c), x <= c, a < x PROVE x <= m
      <3>. PICK l : l = Smaller(n, x - a)
        OBVIOUS
      <3>1. /\ l # 0
            /\ \A i \in 0..l - 1 : SavedBy(t)[Len(SavedBy(t)) - i] = <<t, x - i>>
            /\ l = n \/ ~(l < LeastOverlap) \/ x = c
        BY <1>0, <1>2, <2>3 DEF CannotBePlaced
      <3>2. l \in Nat /\ l <= n /\ l <= x - a /\ (l = n \/ l = x - a)
        <4>1. n \in Nat /\ x - a \in Nat
          BY <1>0, <2>1, <2>3
        <4>. QED BY <4>1 DEF Smaller
      <3>3. ReadsAlike(t, x, l)
        BY <3>1 DEF ReadsAlike
      <3>4. CASE l = n
        <4>1. x \in a + n..c
          BY <1>0, <2>1, <2>3, <3>2, <3>4
        <4>2. SavedBy(t) # <<>>
          <5>1. Len(SavedBy(t)) # 0
            BY <1>0, <2>1, <3>1, <3>2, <3>4 DEF SavedBy
          <5>. QED BY <5>1
        <4>3. x \in Ends(t, c)
          BY <3>3, <3>4, <4>1, <4>2 DEF Ends
        <4>. QED BY <2>1, <4>3
      <3>5. CASE l # n
        <4>1. l = x - a /\ l < n /\ x < a + n /\ (x = c \/ l >= LeastOverlap)
          <5>1. n \in Nat /\ x \in Nat /\ a \in Nat /\ LeastOverlap \in Nat
            BY <1>0, <2>1, BoundsAreNaturals
          <5>2. l = x - a /\ l < n
            BY <3>2, <3>5, <5>1
          <5>3. x < a + n
            BY <5>1, <5>2
          <5>4. x = c \/ l >= LeastOverlap
            BY <3>1, <3>2, <3>5, <5>1
          <5>. QED BY <5>2, <5>3, <5>4
        <4>2. CASE Ends(t, c) = {}
          <5>1. x \in a + 1..c
            BY <1>0, <2>3
          <5>2. x \in Overlaps(t, c)
            BY <3>3, <4>1, <5>1, <2>1 DEF Overlaps
          <5>. QED BY <2>1, <4>2, <5>2
        <4>3. CASE Ends(t, c) # {}
          <5>1. PICK k \in Ends(t, c) : TRUE
            BY <4>3
          <5>2. k \in a + n..c
            BY DEF Ends
          <5>3. k <= m
            BY <2>1
          <5>4. n \in Nat /\ x < a + n
            BY <2>1, <4>1
          <5>5. \A y \in a + n..c : x < y /\ y \in Int
            BY <1>0, <5>4
          <5>6. x < k /\ k \in Int
            BY <5>2, <5>5
          <5>. QED BY <1>0, <2>2, <5>3, <5>6
        <4>. QED BY <4>2, <4>3
      <3>. QED BY <3>4, <3>5
    <2>4. ASSUME ~CannotBePlaced(t, c), x <= c PROVE x <= m
      BY <1>0, <2>1, <2>3, <2>4
    <2>5. ASSUME ~LeavesOut(t, c) PROVE m <= x
      <3>1. ~(x < a) /\ \A k \in Ends(t, c) \cup Overlaps(t, c) : ~(k > x)
        BY <1>2, <2>5 DEF LeavesOut
      <3>. QED BY <1>0, <2>1, <2>2, <3>1
    <2>. QED BY <1>0, <1>2, <2>2, <2>4, <2>5
  <1>. QED BY <1>1, <1>2

LEMMA PanesOfTerms == ASSUME CleanerInv PROVE \A t \in DOMAIN terms : terms[t].pane \in Panes
  <1>. TAKE t \in DOMAIN terms
  <1>1. terms[t] \in Term
    BY DEF CleanerInv, LinkTypes
  <1>. QED BY <1>1 DEF Term

\* What adopt saves goes on from where the saved output of a terminal stopped that
\* can be placed, to the count of its row unless something is left out.
LEMMA AdoptsAdd ==
    ASSUME CleanerInv, LineInv, SavedInv, NEW t \in DOMAIN terms, Adopts(t)
    PROVE  \E b, n \in Nat :
               /\ SavedUpTo(t, b, n)
               /\ t \in Known' =>
                      /\ savedTo[t] <= b /\ n <= rows[t]
                      /\ t \notin missing' => b = savedTo[t] /\ n = rows[t]
  <1>. PICK c : c = rows[t]
    OBVIOUS
  <1>. PICK x : x = savedTo[t]
    OBVIOUS
  <1>. PICK st : st = StoppedAt(t, c)
    OBVIOUS
  <1>. PICK a : a = Missed(t, c)
    OBVIOUS
  <1>0. /\ t \in Terms /\ SavedTypes /\ Apart /\ t \in DOMAIN rows /\ DOMAIN terms \subseteq Terms
        /\ \A u \in DOMAIN terms : terms[u].pane \in Panes
    BY PanesOfTerms, TermsInTerms DEF SavedInv, Adopts
  <1>1. /\ Saves(t, a) /\ UNCHANGED <<terms, seen, lossy>>
        /\ unplaced' = unplaced \cup Strands(t, a) \cup {u \in {t} : CannotBePlaced(u, c)}
        /\ missing' = missing \cup {u \in {t} : LeavesOut(u, c)}
    BY DEF Adopts, service
  <1>2. c \in Nat /\ c <= MaxOutput /\ MaxOutput \in Nat /\ x \in 0..MaxOutput /\ x \in Nat
    <2>1. Coming(t) /\ DrawnTo(t) = c
      BY <1>0 DEF SavedInv, Placed, Apart, DrawnTo
    <2>2. terms[t].count <= MaxOutput /\ terms[t].count \in Nat
      BY TermsTyped DEF LineInv, PipeTypes, CleanerInv, LinkTypes
    <2>3. c \in Nat /\ MaxOutput \in Nat
      BY <1>0, BoundsAreNaturals DEF SavedTypes
    <2>4. x \in 0..MaxOutput
      BY <1>0 DEF SavedTypes
    <2>. QED BY <2>1, <2>2, <2>3, <2>4 DEF Coming, Onward
  <1>3. /\ st \in Nat
        /\ ~CannotBePlaced(t, c) /\ x <= c /\ (t \in DOMAIN seen => Agrees(t, seen[t])) =>
               x <= st /\ (~LeavesOut(t, c) /\ t \notin missing => st = x)
    BY <1>0, <1>2, StopsRight
  <1>4. t \in Known' => x <= c /\ x <= st /\ (t \notin missing' => st = x)
    <2>. SUFFICES ASSUME t \in Known' PROVE x <= c /\ x <= st /\ (t \notin missing' => st = x)
      OBVIOUS
    <2>1. t \in Known /\ ~CannotBePlaced(t, c)
      BY <1>1 DEF Known
    <2>2. SavedFits(t)
      BY <2>1 DEF SavedInv
    <2>3. x <= c /\ (t \in DOMAIN seen => Agrees(t, seen[t]))
      BY <1>0, <2>2 DEF SavedFits
    <2>. QED BY <1>1, <1>3, <2>1, <2>3
  <1>5. a = [i \in 1..Larger(c - st, 0) |-> <<t, st + i>>]
    BY DEF Missed
  <1>6. missing \subseteq missing'
    BY <1>1
  <1>7. CASE ~(st < c)
    <2>1. a = <<>> /\ a \in Seq(Terms \X Chunks) /\ Len(a) = 0
      <3>1. Larger(c - st, 0) = 0
        BY <1>2, <1>3, <1>7 DEF Larger
      <3>2. a = <<>>
        BY <1>5, <3>1
      <3>. QED BY <3>2
    <2>2. SavedUpTo(t, x, x + Len(a))
      <3>1. x + Len(a) <= MaxOutput /\ \A i \in 1..Len(a) : a[i] = <<t, x + i>>
        BY <1>2, <2>1
      <3>. QED BY <1>0, <1>1, <1>2, <1>6, <2>1, <3>1, SavesKeep
    <2>3. SavedUpTo(t, x, x)
      <3>1. x + Len(a) = x
        BY <1>2, <2>1
      <3>. QED BY <2>2, <3>1
    <2>4. t \in Known' => x <= c /\ (t \notin missing' => x = c)
      BY <1>2, <1>3, <1>4, <1>7
    <2>. QED BY <1>2, <2>3, <2>4
  <1>8. CASE st < c
    <2>. PICK m : m = c - st
      OBVIOUS
    <2>1. m \in Nat /\ m # 0 /\ st + m = c /\ Larger(c - st, 0) = m
      BY <1>2, <1>3, <1>8 DEF Larger
    <2>2. a = [i \in 1..m |-> <<t, st + i>>]
      BY <1>5, <2>1
    <2>3. \A i \in 1..m : st + i \in Chunks
      BY <1>2, <1>3, <2>1 DEF Chunks
    <2>4. /\ a \in Seq(Terms \X Chunks) /\ Len(a) = m
          /\ \A i \in 1..Len(a) : a[i] = <<t, st + i>>
      BY <1>0, <2>1, <2>2, <2>3
    <2>5. a # <<>>
      BY <2>1, <2>4
    <2>6. SavedUpTo(t, st, st + Len(a))
      <3>1. st + Len(a) <= MaxOutput
        BY <1>2, <2>1, <2>4
      <3>. QED BY <1>0, <1>1, <1>3, <1>6, <2>4, <2>5, <3>1, SavesKeep
    <2>7. SavedUpTo(t, st, c)
      BY <2>1, <2>4, <2>6
    <2>. QED BY <1>2, <1>3, <1>4, <2>7
  <1>. QED BY <1>7, <1>8

LEMMA AdoptsSaved ==
    ASSUME CleanerInv, CleanerInv', LineInv, LineInv', SavedInv, QuitsEmpty,
           NEW t \in DOMAIN terms, Adopts(t)
    PROVE  SavedInv'
  <1>. DEFINE c == rows[t]
  <1>0. /\ LinkTypes /\ PipeTypes /\ Gathered /\ SavedTypes /\ Apart
        /\ DOMAIN terms \subseteq Terms /\ t \in Terms /\ t # None
    BY TermsInTerms, BoundsAreNaturals DEF CleanerInv, LineInv, SavedInv, None, Terms
  <1>1. /\ phase = "adopting" /\ t \in DOMAIN rows /\ held' = held \cup {t} /\ Register(t)
        /\ drawn' = [drawn EXCEPT ![t] = c]
        /\ DOMAIN rows' = DOMAIN rows \ {t} /\ \A u \in DOMAIN rows' : rows'[u] = rows[u]
        /\ unplaced \subseteq unplaced' /\ unplaced' \subseteq unplaced \cup held \cup {t}
        /\ missing \subseteq missing' /\ missing' \subseteq missing \cup {t}
        /\ UNCHANGED <<terms, wire, seenFile, phase, window, seen, killing, found, due, opener,
                       spent, handed, lossy>>
    BY DEF Adopts, service, Strands
  <1>2. opener = None
    BY <1>0, <1>1 DEF Gathered
  <1>3. t \notin held /\ handed[t] = <<>> /\ c \in Nat /\ c <= terms[t].count
    <2>1. Fresh(t)
      BY <1>0, <1>1 DEF LineInv, LineOf, ToCome
    <2>2. t \notin held
      BY <1>0, <1>1 DEF Apart
    <2>3. Coming(t)
      BY <1>1 DEF SavedInv, Placed
    <2>. QED BY <1>1, <2>1, <2>2, <2>3 DEF Fresh, Coming, Onward, DrawnTo
  <1>4. /\ \A u \in Terms \ {t} : drawn'[u] = drawn[u]
        /\ drawn'[t] = c /\ drawn' \in [Terms -> Nat]
    BY <1>0, <1>1, <1>3 DEF SavedTypes
  <1>5. PICK b \in Nat, n \in Nat :
            /\ SavedUpTo(t, b, n)
            /\ t \in Known' =>
                   /\ savedTo[t] <= b /\ n <= c
                   /\ t \notin missing' => b = savedTo[t] /\ n = c
    BY AdoptsAdd
  <1>. HIDE DEF c
  <1>6. SavedTypes'
    <2>1. /\ saved' \in [Panes -> Seq(Terms \X Chunks)]
          /\ \A p \in Panes : \A i \in DOMAIN saved'[p] : saved'[p][i][1] \in DOMAIN terms'
          /\ savedTo' \in [Terms -> 0..MaxOutput] /\ cut' \subseteq Panes
      BY <1>1, <1>5 DEF SavedUpTo
    <2>2. \A u \in Terms \ DOMAIN terms' : savedTo'[u] = 0
      BY <1>0, <1>1, <1>5 DEF SavedUpTo, SavedTypes
    <2>3. due' \cup killing' \cup lossy' \cup unplaced' \cup missing' \subseteq DOMAIN terms'
      BY <1>0, <1>1 DEF SavedTypes, LinkTypes
    <2>. QED BY <1>0, <1>1, <1>4, <2>1, <2>2, <2>3 DEF SavedTypes
  <1>7. Apart'
    BY <1>0, <1>1, <1>2, <1>3, <1>4, EmptyLine DEF Apart
  <1>8. \A u \in Terms : ToDraw(u)' = ToDraw(u)
    BY <1>0, <1>1, RegistersDraw DEF ToCome
  <1>9. ASSUME NEW u \in Placed' PROVE Coming(u)'
    <2>1. u \in Placed /\ u \in Terms /\ Coming(u)
      BY <1>1, <1>2, <1>9, PlacedTerms DEF Placed, SavedInv
    <2>2. DrawnTo(u)' = DrawnTo(u)
      <3>1. CASE u = t
        BY <1>1, <1>3, <1>4, <3>1 DEF DrawnTo, c
      <3>2. CASE u # t
        BY <1>1, <1>4, <2>1, <3>2 DEF DrawnTo
      <3>. QED BY <3>1, <3>2
    <2>. QED BY <1>1, <1>8, <2>1, <2>2 DEF Coming, Onward, NoGap
  <1>10. ASSUME NEW u \in Known' PROVE SavedFits(u)'
    <2>1. u \in DOMAIN terms /\ u \in Terms /\ u \in Known /\ SavedFits(u)
      BY <1>0, <1>1, <1>10 DEF SavedInv, Known
    <2>2. CASE u # t
      <3>1. savedTo'[u] = savedTo[u] /\ Kept(u)' /\ (u \in missing' <=> u \in missing)
        BY <1>1, <1>5, <2>1, <2>2 DEF SavedUpTo, SavedFits
      <3>. QED BY <1>0, <1>1, <1>2, <1>4, <2>1, <2>2, <3>1 DEF SavedFits, Agrees
    <2>3. CASE u = t
      <3>1. /\ savedTo[t] <= b /\ n <= c /\ savedTo[t] \in Nat
            /\ t \notin missing' => b = savedTo[t] /\ n = c
        BY <1>0, <1>5, <1>10, <2>3, BoundsAreNaturals DEF SavedTypes
      <3>2. Kept(t)'
        <4>1. /\ InTurn(SavedBy(t), t) /\ UpTo(SavedBy(t), t, savedTo[t])
              /\ t \notin missing =>
                     /\ Gapless(SavedBy(t), t, savedTo[t])
                     /\ terms[t].pane \notin cut => AllUpTo(SavedBy(t), t, savedTo[t])
          BY <2>1, <2>3 DEF SavedFits, Kept
        <4>2. UpTo(SavedBy(t), t, b)
          <5>1. SavedBy(t) \in Seq(Terms \X Chunks)
            BY <1>0, PanesOfTerms DEF SavedTypes, SavedBy
          <5>2. ChunksIn(SavedBy(t), t) \subseteq Nat
            BY <5>1, ChunksAreNaturals
          <5>3. \A k \in Nat : k <= savedTo[t] => k <= b
            BY <3>1
          <5>. QED BY <4>1, <5>2, <5>3 DEF UpTo
        <4>. QED BY <1>1, <1>5, <3>1, <4>1, <4>2 DEF SavedUpTo
      <3>3. savedTo'[t] = n
        BY <1>5 DEF SavedUpTo
      <3>4. n <= terms[t].count
        <4>1. terms[t] \in Term
          BY <1>0 DEF LinkTypes
        <4>2. terms[t].count \in Nat
          BY <4>1 DEF Term
        <4>. QED BY <1>3, <3>1, <4>2
      <3>5. t \notin DOMAIN seenFile /\ t \notin DOMAIN rows'
        BY <1>0, <1>1 DEF Apart
      <3>. QED BY <1>0, <1>1, <1>2, <1>4, <2>3, <3>1, <3>2, <3>3, <3>4, <3>5 DEF SavedFits, Agrees
    <2>. QED BY <2>2, <2>3
  <1>. QED BY <1>6, <1>7, <1>9, <1>10 DEF SavedInv

LEMMA HeadAndTail ==
    ASSUME NEW s \in Seq(Events), s # <<>>
    PROVE  Range(s) = {Head(s)} \cup Range(Tail(s))
  <1>. DEFINE r == Tail(s)
  <1>1. /\ r \in Seq(Events) /\ Len(r) = Len(s) - 1 /\ Len(s) \in Nat \ {0}
        /\ \A i \in 1..Len(s) - 1 : r[i] = s[i + 1]
        /\ Head(s) = s[1]
    OBVIOUS
  <1>2. DOMAIN s = 1..Len(s) /\ DOMAIN r = 1..Len(s) - 1
    BY <1>1
  <1>. HIDE DEF r
  <1>3. ASSUME NEW i \in DOMAIN s PROVE s[i] \in {Head(s)} \cup Range(r)
    <2>1. CASE i = 1
      BY <1>1, <2>1
    <2>2. CASE i # 1
      <3>1. i - 1 \in DOMAIN r /\ r[i - 1] = s[i]
        BY <1>1, <1>2, <2>2
      <3>. QED BY <3>1 DEF Range
    <2>. QED BY <2>1, <2>2
  <1>4. Head(s) \in Range(s) /\ Range(r) \subseteq Range(s)
    BY TailLine DEF r
  <1>5. Range(s) \subseteq {Head(s)} \cup Range(r)
    BY <1>3 DEF Range
  <1>. QED BY <1>4, <1>5 DEF r

\* A handler that is not over, after it ran a chunk: the rest is still there.
LEMMA RunGoesOn ==
    ASSUME CleanerInv, LineInv, NEW t \in DOMAIN terms, Runs(t),
           NEW e, e = Head(handlers[t].todo), e # Exit, ~handlers[t].over
    PROVE  /\ \A u \in Terms \ {t} : handlers'[u] = handlers[u]
           /\ Range(handlers[t].todo) = {e} \cup Range(handlers'[t].todo)
           /\ handlers'[t].backlog = handlers[t].backlog
  <1>. DEFINE h == handlers[t]
              over == h.over \/ e = Exit
  <1>0. t \in Terms /\ PipeTypes
    BY TermsInTerms DEF LineInv
  <1>1. h \in Handler /\ h.todo \in Seq(Events) /\ h.todo # <<>> /\ ~over
    BY <1>0 DEF PipeTypes, Handler, Runs
  <1>2. Range(h.todo) = {e} \cup Range(Tail(h.todo))
    <2>. HIDE DEF h
    <2>. QED BY <1>1, HeadAndTail DEF h
  <1>3. CASE Len(h.todo) > 1
    <2>. DEFINE x == [h EXCEPT !.todo = Tail(h.todo), !.over = over]
    <2>1. handlers' = [handlers EXCEPT ![t] = x]
      BY <1>3 DEF Runs
    <2>2. x.todo = Tail(h.todo) /\ x.backlog = h.backlog
      <3>. HIDE DEF h, over
      <3>. QED BY <1>1 DEF Handler
    <2>. HIDE DEF x, h
    <2>. QED BY <1>0, <1>2, <2>1, <2>2 DEF PipeTypes, h
  <1>4. CASE ~(Len(h.todo) > 1)
    <2>. DEFINE x == [h EXCEPT !.todo = <<>>, !.by = "no", !.over = over,
                               !.listed = @ /\ ~over]
    <2>1. handlers' = [handlers EXCEPT ![t] = x]
      BY <1>1, <1>4 DEF Runs
    <2>2. x.todo = <<>> /\ x.backlog = h.backlog
      <3>. HIDE DEF h, over
      <3>. QED BY <1>1 DEF Handler
    <2>3. Tail(h.todo) = <<>>
      <3>. DEFINE s == h.todo
      <3>1. s \in Seq(Events) /\ s # <<>> /\ ~(Len(s) > 1)
        BY <1>1, <1>4
      <3>. HIDE DEF s
      <3>2. Len(s) = 1
        <4>1. Len(s) \in Nat \ {0}
          BY <3>1
        <4>. DEFINE n == Len(s)
        <4>2. n \in Nat \ {0} /\ ~(n > 1)
          BY <3>1, <4>1
        <4>. HIDE DEF n
        <4>3. n = 1
          BY <4>2
        <4>. QED BY <4>3 DEF n
      <3>3. Tail(s) = <<>>
        BY <3>1, <3>2, TailLine
      <3>. QED BY <3>3 DEF s
    <2>. HIDE DEF x, h
    <2>. QED BY <1>0, <1>2, <2>1, <2>2, <2>3 DEF PipeTypes, h
  <1>. QED BY <1>3, <1>4

\* An event of a terminal that the window does not hold, or its end.
LEMMA RunsUnheld ==
    ASSUME CleanerInv, CleanerInv', LineInv, LineInv', SavedInv, NEW t \in DOMAIN terms, Runs(t),
           t \notin held \/ Head(handlers[t].todo) = Exit
    PROVE  SavedInv'
  <1>0. /\ LinkTypes /\ PipeTypes /\ SavedTypes /\ Apart /\ t \in Terms /\ LineOf(t)
        /\ held \subseteq Terms
    BY TermsInTerms DEF CleanerInv, LinkTypes, LineInv, SavedInv
  <1>. PICK e : e = Head(handlers[t].todo)
    OBVIOUS
  <1>1. /\ handlers[t].todo # <<>>
        /\ IF handlers[t].over /\ e = Exit THEN UNCHANGED <<held, drawn, saved, savings, handed>>
           ELSE Booked(t, e) /\ handed' = [handed EXCEPT ![t] = Append(@, e)]
        /\ due' = due \/ due' = due \ {t}
        /\ UNCHANGED <<terms, wire, seenFile, phase, window, rows, seen, killing, early, found,
                       opener, spent, lossy>>
    BY DEF Runs, service, windowVars
  <1>2. PICK x : handlers' = [handlers EXCEPT ![t] = x]
    BY RunLeaves
  <1>3. t \notin ToCome
    BY <1>0, <1>1 DEF LineOf, Fresh
  <1>4. /\ t \notin held' /\ saved' = saved /\ savings' = savings
        /\ \A u \in Terms \ {t} : handed'[u] = handed[u]
        /\ \/ held' = held /\ drawn' = drawn
           \/ held' = held \ {t} /\ drawn' = [drawn EXCEPT ![t] = 0]
    <2>1. CASE handlers[t].over /\ e = Exit
      <3>1. Exit \in Range(handed[t])
        BY <1>0, <2>1 DEF LineOf, EndsOnce
      <3>2. t \notin held
        BY <1>0, <3>1 DEF Apart
      <3>. QED BY <1>1, <2>1, <3>2
    <2>2. CASE ~(handlers[t].over /\ e = Exit)
      <3>1. \A u \in Terms \ {t} : handed'[u] = handed[u]
        BY <1>0, <1>1, <2>2 DEF PipeTypes
      <3>2. CASE e = Exit
        <4>1. /\ held' = held \ {t} /\ drawn' = [drawn EXCEPT ![t] = 0] /\ saved' = saved
              /\ savings' = savings
          BY <1>1, <2>2, <3>2 DEF Booked, Drops
        <4>. QED BY <3>1, <4>1
      <3>3. CASE e # Exit
        <4>1. /\ held' = held /\ drawn' = drawn /\ saved' = saved /\ t \notin held
              /\ savings' = savings
          BY <1>1, <2>2, <3>3 DEF Booked
        <4>. QED BY <3>1, <4>1
      <3>. QED BY <3>2, <3>3
    <2>. QED BY <2>1, <2>2
  <1>5. drawn' \in [Terms -> Nat] /\ \A u \in Terms : drawn'[u] = IF u \in held' THEN drawn[u] ELSE 0
    <2>1. drawn \in [Terms -> Nat] /\ \A u \in Terms : u \notin held => drawn[u] = 0
      BY <1>0 DEF SavedTypes, Apart
    <2>. QED BY <1>0, <1>4, <2>1
  <1>6. ASSUME NEW u \in Placed' PROVE Shortens(u)
    <2>1. u # t /\ u \in Placed /\ u \in Terms
      BY <1>1, <1>3, <1>4, <1>6, PlacedTerms DEF Placed, ToCome
    <2>2. handlers'[u] = handlers[u]
      BY <1>0, <1>2, <2>1 DEF PipeTypes
    <2>3. ToDraw(u)' = ToDraw(u)
      BY <1>1, <2>2 DEF ToDraw, Ahead, Upstream, HandOf, WireOf
    <2>. QED BY <1>1, <2>3 DEF Shortens
  <1>7. Stay
    BY <1>1, SameStays
  <1>8. spent <= spent' /\ spent' <= MaxEvents
    BY <1>0, <1>1, SpendsLess
  <1>9. held' \subseteq held /\ \A u \in held' : handed'[u] = handed[u]
    BY <1>0, <1>4
  <1>10. Aloof
    BY <1>0, <1>1, <1>4, <1>5, <1>6, <1>7, <1>8, <1>9 DEF Aloof, SavedTypes, Apart
  <1>. QED BY <1>10, AloofKeeps

\* A chunk of a terminal that the window holds is the next one, and is saved.
LEMMA RunsHeld ==
    ASSUME CleanerInv, CleanerInv', LineInv, LineInv', SavedInv, NEW t \in DOMAIN terms, Runs(t),
           t \in held, Head(handlers[t].todo) # Exit
    PROVE  SavedInv'
  <1>. DEFINE h == handlers[t]
              p == terms[t].pane
  <1>0. /\ LinkTypes /\ PipeTypes /\ Gathered /\ SavedTypes /\ Apart /\ t \in Terms /\ LineOf(t)
        /\ DOMAIN terms \subseteq Terms
    BY TermsInTerms DEF CleanerInv, LineInv, SavedInv
  <1>. PICK e : e = Head(h.todo)
    OBVIOUS
  <1>1. ~h.over
    BY <1>0 DEF LineOf, EndsOnce, Apart
  <1>2. /\ h.todo # <<>> /\ e # Exit
        /\ drawn' = [drawn EXCEPT ![t] = drawn[t] + 1]
        /\ Saves(t, <<<<t, e>>>>) /\ missing' = missing
        /\ unplaced \subseteq unplaced' /\ unplaced' \subseteq unplaced \cup held
        /\ handed' = [handed EXCEPT ![t] = Append(handed[t], e)]
        /\ due' = due \/ due' = due \ {t}
        /\ UNCHANGED <<terms, wire, seenFile, phase, window, rows, seen, killing, early, found,
                       opener, spent, lossy, held>>
    BY <1>1 DEF Runs, Booked, Strands, service, windowVars
  <1>3. /\ \A u \in Terms \ {t} : handlers'[u] = handlers[u]
        /\ Range(h.todo) = {e} \cup Range(handlers'[t].todo)
        /\ handlers'[t].backlog = h.backlog
    BY <1>1, <1>2, RunGoesOn
  <1>4. h.todo \in Seq(Events) /\ e \in Events /\ e \in Range(h.todo) /\ e \in Nat
    <2>1. h.todo \in Seq(Events)
      BY <1>0 DEF PipeTypes, Handler
    <2>. HIDE DEF h
    <2>. QED BY <1>2, <2>1, TailLine, EventsAreNaturals
  <1>5. e \in Chunks /\ e <= terms[t].count
    <2>1. Sent(t, e)
      BY <1>0, <1>4 DEF LineOf, AllSent
    <2>. QED BY <1>2, <1>4, <2>1 DEF Sent, Events
  <1>6. \A f \in Ahead(t)' \cup Upstream(t)' : Follows(e, f)
    <2>1. \A f \in Range(handlers'[t].todo) : Follows(e, f)
      BY RunLeaves, <1>0, <1>2 DEF AfterRun, Before, PipeTypes
    <2>2. \A f \in Range(h.backlog) \cup HandOf(t) \cup Range(early[t]) \cup WireOf(t) : Follows(e, f)
      BY <1>0, <1>4 DEF LineOf, Line, Ordered, Before
    <2>. QED BY <1>2, <1>3, <2>1, <2>2 DEF Ahead, Upstream, HandOf, WireOf
  <1>7. e \in ToDraw(t) /\ ToDraw(t)' = ToDraw(t) \ {e} /\ \A f \in ToDraw(t)' : f > e
    <2>1. Ahead(t) \cup Upstream(t) = {e} \cup Ahead(t)' \cup Upstream(t)'
      BY <1>2, <1>3 DEF Ahead, Upstream, HandOf, WireOf
    <2>2. ToDraw(t)' \subseteq ToDraw(t) /\ ToDraw(t) = {e} \cup ToDraw(t)'
      BY <1>2, <2>1 DEF ToDraw
    <2>3. \A f \in ToDraw(t)' : Follows(e, f) /\ f # Exit
      BY <1>6 DEF ToDraw
    <2>4. \A f \in ToDraw(t)' : f \in Nat
      BY <1>0, <2>2, ToDrawEvents
    <2>5. \A f \in ToDraw(t)' : f > e /\ f # e
      BY <1>4, <2>3, <2>4 DEF Follows
    <2>. QED BY <2>2, <2>5
  <1>8. /\ drawn[t] \in Nat /\ drawn[t] < e /\ terms[t].count \in Nat
        /\ t \notin lossy => NoGap(t) /\ e = drawn[t] + 1
    <2>1. Coming(t) /\ DrawnTo(t) = drawn[t]
      BY DEF SavedInv, Placed, DrawnTo
    <2>2. drawn[t] \in Nat /\ drawn[t] < e /\ terms[t].count \in Nat
      <3>1. terms[t] \in Term
        BY <1>0 DEF LinkTypes
      <3>2. terms[t].count \in Nat
        BY <3>1 DEF Term
      <3>3. DrawnTo(t) \in Nat /\ e > DrawnTo(t)
        BY <1>7, <2>1 DEF Coming, Onward
      <3>. QED BY <1>4, <2>1, <3>2, <3>3
    <2>3. ASSUME t \notin lossy PROVE NoGap(t) /\ e = drawn[t] + 1
      <3>1. NoGap(t)
        BY <2>1, <2>3 DEF Coming
      <3>. DEFINE n == drawn[t] + 1
      <3>2. n \in Nat /\ drawn[t] < n /\ n <= e
        BY <1>4, <2>2
      <3>3. n \in ToDraw(t)
        BY <1>7, <2>1, <3>1, <3>2 DEF NoGap
      <3>4. n = e
        BY <1>4, <1>7, <3>2, <3>3
      <3>. QED BY <3>1, <3>4
    <2>. QED BY <2>2, <2>3
  <1>9. /\ drawn'[t] = drawn[t] + 1 /\ drawn' \in [Terms -> Nat]
        /\ \A u \in Terms \ {t} : drawn'[u] = drawn[u]
    BY <1>0, <1>2, <1>8 DEF SavedTypes
  <1>10. p \in Panes
    <2>1. terms[t] \in Term
      BY <1>0 DEF LinkTypes
    <2>. QED BY <2>1 DEF Term
  <1>. PICK b \in Nat : b = e - 1
    BY <1>4, <1>8
  <1>11. b + 1 = e /\ (t \notin lossy => b = drawn[t])
    <2>. PICK d : d = drawn[t]
      OBVIOUS
    <2>1. e \in Nat
      BY <1>4
    <2>2. d \in Nat /\ (t \notin lossy => e = d + 1)
      BY <1>8
    <2>3. b + 1 = e
      BY <2>1
    <2>. QED BY <2>1, <2>2, <2>3
  <1>12. SavedUpTo(t, b, e)
    <2>. PICK a : a = <<<<t, e>>>>
      OBVIOUS
    <2>1. a \in Seq(Terms \X Chunks) /\ Len(a) = 1 /\ a[1] = <<t, e>> /\ a # <<>>
      BY <1>0, <1>5
    <2>2. \A i \in 1..Len(a) : a[i] = <<t, b + i>>
      <3>1. \A i \in 1..1 : i = 1
        OBVIOUS
      <3>. QED BY <1>11, <2>1, <3>1
    <2>3. b + Len(a) = e /\ b + Len(a) <= MaxOutput
      BY <1>5, <1>11, <2>1 DEF Chunks
    <2>4. Saves(t, a) /\ UNCHANGED terms /\ missing \subseteq missing'
      BY <1>2
    <2>5. SavedUpTo(t, b, b + Len(a))
      BY <1>0, <2>1, <2>2, <2>3, <2>4, PanesOfTerms, SavesKeep
    <2>. QED BY <2>3, <2>5
  <1>14. SavedTypes'
    <2>1. /\ saved' \in [Panes -> Seq(Terms \X Chunks)]
          /\ \A q \in Panes : \A i \in DOMAIN saved'[q] : saved'[q][i][1] \in DOMAIN terms'
          /\ savedTo' \in [Terms -> 0..MaxOutput] /\ cut' \subseteq Panes
      BY <1>2, <1>12 DEF SavedUpTo
    <2>2. \A u \in Terms \ DOMAIN terms' : savedTo'[u] = 0
      BY <1>0, <1>2, <1>12 DEF SavedUpTo, SavedTypes
    <2>3. due' \cup killing' \cup lossy' \cup unplaced' \cup missing' \subseteq DOMAIN terms'
      BY <1>0, <1>2 DEF SavedTypes, LinkTypes
    <2>. QED BY <1>0, <1>2, <1>9, <2>1, <2>2, <2>3 DEF SavedTypes
  <1>15. Apart'
    <2>1. handed[t] \in Seq(Events) /\ Exit \notin Range(handed[t])
      BY <1>0 DEF PipeTypes, Apart
    <2>2. handed'[t] = Append(handed[t], e) /\ \A u \in Terms \ {t} : handed'[u] = handed[u]
      BY <1>0, <1>2 DEF PipeTypes
    <2>3. Exit \notin Range(handed'[t])
      BY <1>2, <1>4, <2>1, <2>2, AppendRange
    <2>4. held \subseteq Terms
      BY <1>0 DEF LinkTypes
    <2>. QED BY <1>0, <1>2, <1>9, <2>2, <2>3, <2>4 DEF Apart
  <1>16. ASSUME NEW u \in Placed' PROVE Coming(u)'
    <2>1. u \in Placed /\ u \in Terms /\ Coming(u)
      BY <1>2, <1>16, PlacedTerms DEF Placed, SavedInv
    <2>2. CASE u # t
      <3>1. DrawnTo(u)' = DrawnTo(u)
        BY <1>2, <1>9, <2>1, <2>2 DEF DrawnTo
      <3>2. ToDraw(u)' = ToDraw(u)
        BY <1>2, <1>3, <2>1, <2>2 DEF ToDraw, Ahead, Upstream, HandOf, WireOf
      <3>. QED BY <1>2, <2>1, <3>1, <3>2 DEF Coming, Onward, NoGap
    <2>3. CASE u = t
      <3>1. DrawnTo(t)' = drawn[t] + 1 /\ DrawnTo(t) = drawn[t]
        BY <1>2, <1>9 DEF DrawnTo
      <3>2. Onward(t)'
        <4>1. drawn[t] + 1 \in Nat /\ drawn[t] + 1 <= e /\ drawn[t] + 1 <= terms[t].count
          <5>. PICK d : d = drawn[t]
            OBVIOUS
          <5>. PICK m : m = terms[t].count
            OBVIOUS
          <5>1. d \in Nat /\ m \in Nat /\ e \in Nat /\ d < e /\ e <= m
            BY <1>4, <1>5, <1>8
          <5>2. d + 1 \in Nat /\ d + 1 <= e /\ d + 1 <= m
            BY <5>1
          <5>. QED BY <5>2
        <4>2. \A f \in ToDraw(t)' : f > drawn[t] + 1
          <5>1. ToDraw(t)' \subseteq Nat
            BY <1>0, <1>7, ToDrawEvents
          <5>. QED BY <1>4, <1>7, <4>1, <5>1
        <4>. QED BY <1>2, <3>1, <4>1, <4>2 DEF Onward
      <3>3. ASSUME t \notin lossy PROVE NoGap(t)'
        <4>1. NoGap(t) /\ e = drawn[t] + 1
          BY <1>8, <3>3
        <4>2. ASSUME NEW f \in ToDraw(t)', NEW n \in Nat, drawn[t] + 1 < n, n <= f
              PROVE  n \in ToDraw(t)'
          <5>0. f \in ToDraw(t) /\ DrawnTo(t) < n
            BY <1>7, <1>8, <3>1, <4>2
          <5>1. n \in ToDraw(t)
            BY <4>1, <4>2, <5>0 DEF NoGap
          <5>. QED BY <1>7, <1>8, <4>1, <4>2, <5>1
        <4>3. ASSUME phase # "quitting", terms[t].stage \notin Ended,
                     NEW n \in Nat, drawn[t] + 1 < n, n <= terms[t].count
              PROVE  n \in ToDraw(t)'
          <5>1. n \in ToDraw(t)
            BY <1>8, <3>1, <4>1, <4>3 DEF NoGap
          <5>. QED BY <1>7, <1>8, <4>1, <4>3, <5>1
        <4>. QED BY <1>2, <3>1, <4>2, <4>3 DEF NoGap
      <3>. QED BY <1>2, <2>3, <3>2, <3>3 DEF Coming
    <2>. QED BY <2>2, <2>3
  <1>17. ASSUME NEW u \in Known' PROVE SavedFits(u)'
    <2>1. u \in DOMAIN terms /\ u \in Terms /\ u \in Known /\ u \notin lossy /\ SavedFits(u)
      BY <1>0, <1>2, <1>17 DEF SavedInv, Known
    <2>2. CASE u # t
      <3>1. savedTo'[u] = savedTo[u] /\ Kept(u)' /\ (u \in missing' <=> u \in missing)
        BY <1>2, <1>12, <2>1, <2>2 DEF SavedUpTo, SavedFits
      <3>. QED BY <1>0, <1>2, <1>9, <2>1, <2>2, <3>1 DEF SavedFits, Agrees
    <2>3. CASE u = t
      <3>1. savedTo[t] <= b /\ (t \notin missing => savedTo[t] = b)
        BY <1>11, <2>1, <2>3 DEF SavedFits, Agrees
      <3>2. Kept(t)'
        <4>1. /\ InTurn(SavedBy(t), t) /\ UpTo(SavedBy(t), t, savedTo[t])
              /\ t \notin missing =>
                     /\ Gapless(SavedBy(t), t, savedTo[t])
                     /\ terms[t].pane \notin cut => AllUpTo(SavedBy(t), t, savedTo[t])
          BY <2>1, <2>3 DEF SavedFits, Kept
        <4>2. UpTo(SavedBy(t), t, b)
          <5>1. SavedBy(t) \in Seq(Terms \X Chunks)
            BY <1>0, <1>10 DEF SavedTypes, SavedBy
          <5>2. ChunksIn(SavedBy(t), t) \subseteq Nat
            BY <5>1, ChunksAreNaturals
          <5>3. savedTo[t] \in Nat
            BY <1>0, BoundsAreNaturals DEF SavedTypes
          <5>4. \A k \in Nat : k <= savedTo[t] => k <= b
            BY <3>1, <5>3
          <5>. QED BY <4>1, <5>2, <5>4 DEF UpTo
        <4>. QED BY <1>2, <1>12, <3>1, <4>1, <4>2 DEF SavedUpTo
      <3>3. savedTo'[t] = e /\ e = drawn'[t]
        BY <1>8, <1>9, <1>12, <2>1, <2>3 DEF SavedUpTo
      <3>4. /\ t # opener /\ t \notin DOMAIN rows
            /\ t \in DOMAIN seenFile => FALSE
        BY <1>0 DEF Apart
      <3>. QED BY <1>2, <1>4, <1>5, <2>3, <3>2, <3>3, <3>4 DEF SavedFits, Agrees
    <2>. QED BY <2>2, <2>3
  <1>. QED BY <1>14, <1>15, <1>16, <1>17 DEF SavedInv

LEMMA RunsSaved ==
    ASSUME CleanerInv, CleanerInv', LineInv, LineInv', SavedInv, NEW t \in DOMAIN terms, Runs(t)
    PROVE  SavedInv'
  BY RunsUnheld, RunsHeld

LEMMA InitSaved == LInit => SavedInv /\ QuitsEmpty
  <1>. SUFFICES ASSUME LInit PROVE SavedInv /\ QuitsEmpty
    OBVIOUS
  <1>1. /\ DOMAIN terms = {} /\ DOMAIN seenFile = {} /\ DOMAIN rows = {} /\ DOMAIN seen = {}
        /\ held = {} /\ due = {} /\ killing = {} /\ lossy = {} /\ opener = None
        /\ unplaced = {} /\ missing = {} /\ cut = {} /\ savedTo = [t \in Terms |-> 0]
        /\ phase = "off" /\ window = 0 /\ spent = 0
    BY DEF LInit, Nothing
  <1>2. \A p \in Panes : saved[p] = <<>> /\ DOMAIN saved[p] = {}
    BY DEF LInit
  <1>3. saved \in [Panes -> Seq(Terms \X Chunks)] /\ drawn \in [Terms -> Nat]
    BY DEF LInit
  <1>4. SavedTypes
    BY <1>1, <1>2, <1>3, BoundsAreNaturals DEF SavedTypes
  <1>5. Apart
    BY <1>1 DEF LInit, Apart
  <1>6. Placed = {}
    BY <1>1 DEF Placed
  <1>. QED BY <1>1, <1>4, <1>5, <1>6 DEF SavedInv, Known, QuitsEmpty

\* The inductive invariant of what was drawn, saved and recorded at a quit, and
\* of what is still to come.
THEOREM SavedHolds == LSpec => [](SavedInv /\ QuitsEmpty)
  <1>1. LInit => SavedInv /\ QuitsEmpty
    BY InitSaved
  <1>2. CleanerInv /\ CleanerInv' /\ LineInv /\ LineInv' /\ SavedInv /\ QuitsEmpty /\ [LNext]_vars
        => SavedInv' /\ QuitsEmpty'
    <2>. SUFFICES ASSUME CleanerInv, CleanerInv', LineInv, LineInv', SavedInv, QuitsEmpty,
                         [LNext]_vars
                  PROVE  SavedInv'
      BY QuitsEmptyStays
    <2>1. CASE \/ AdoptsNoMore \/ Linked \/ GivesUp \/ LooksAtOwn \/ EndsUnowned \/ UNCHANGED vars
               \/ \E t \in DOMAIN terms : Starts(t) \/ Stored(t) \/ Kills(t) \/ LooksAtList(t)
      BY <2>1, AsidesSaved
    <2>2. CASE \E t \in DOMAIN terms : Pumps(t) \/ Exits(t) \/ Closes(t)
      BY <2>2, PumpsSaved, ExitsSaved, ClosesSaved
    <2>3. CASE \E t \in DOMAIN terms : Adopts(t) \/ Hands(t) \/ Flushes(t) \/ Runs(t)
      BY <2>3, AdoptsSaved, HandsSaved, FlushesSaved, RunsSaved
    <2>4. CASE ServiceEnds \/ Connects \/ TakesSeen \/ \E p \in Panes : Opens(p)
      BY <2>4, EndSaved, ConnectsSaved, TakesSaved, OpensSaved
    <2>5. CASE Reads \/ ReadsTheEnd \/ Answered
      BY <2>5, ReadsSaved, ReadsTheEndSaved, AnsweredSaved
    <2>6. CASE Detaches \/ LetsGo \/ Crashes
      BY <2>6, DetachesSaved, GoneSaved
    <2>. QED BY <2>1, <2>2, <2>3, <2>4, <2>5, <2>6 DEF LNext
  <1>. QED BY <1>1, <1>2, CleanerHolds, LineHolds, PTL DEF LSpec

\* TERM-105, after-list 698: over quits and crashes, a pane's saved output never
\* has what a terminal printed twice, out of order or before it was drawn; and it
\* goes back without a gap from what was drawn last to the first chunk, or to where
\* a compaction cut it.  But for output that was dropped before a window had it,
\* output saved where nothing said how far the saved output goes, and the gap where
\* more was missed than the tail holds or repeats what a crash left at the end.
THEOREM OutputIsSavedWhole == LSpec => []SavedWhole
  <1>1. CleanerInv /\ LineInv /\ SavedInv => SavedWhole
    <2>. SUFFICES ASSUME CleanerInv, LineInv, SavedInv, NEW t \in DOMAIN terms \ (lossy \cup unplaced)
                  PROVE  /\ \A i, j \in PlacesOf(t) : i < j => SavedBy(t)[i][2] < SavedBy(t)[j][2]
                         /\ t \in held => \A k \in SavedOf(t) : k <= drawn[t]
                         /\ t \notin missing =>
                             /\ \A k \in SavedOf(t) : k..savedTo[t] \subseteq SavedOf(t)
                             /\ terms[t].pane \notin cut => 1..savedTo[t] = SavedOf(t)
                             /\ t \in held => savedTo[t] = drawn[t]
      BY DEF SavedWhole
    <2>1. SavedFits(t)
      BY DEF SavedInv, Known
    <2>2. PlacesOf(t) = Spots(SavedBy(t), t) /\ SavedOf(t) = ChunksIn(SavedBy(t), t)
      BY DEF PlacesOf, SavedOf, Spots, ChunksIn
    <2>3. Kept(t) /\ (t \in held => Agrees(t, drawn[t]))
      BY <2>1 DEF SavedFits
    <2>4. \A i, j \in PlacesOf(t) : i < j => SavedBy(t)[i][2] < SavedBy(t)[j][2]
      BY <2>2, <2>3 DEF Kept, InTurn
    <2>5. t \in held => \A k \in SavedOf(t) : k <= drawn[t]
      <3>. SUFFICES ASSUME t \in held, NEW k \in SavedOf(t) PROVE k <= drawn[t]
        OBVIOUS
      <3>1. k <= savedTo[t] /\ savedTo[t] <= drawn[t]
        BY <2>2, <2>3 DEF Kept, UpTo, Agrees
      <3>2. t \in Terms /\ SavedTypes
        BY TermsInTerms DEF SavedInv
      <3>3. savedTo[t] \in Nat /\ drawn[t] \in Nat
        BY <3>2, BoundsAreNaturals DEF SavedTypes
      <3>4. SavedBy(t) \in Seq(Terms \X Chunks)
        BY <3>2, PanesOfTerms DEF SavedTypes, SavedBy
      <3>5. k \in Nat
        BY <2>2, <3>4, ChunksAreNaturals
      <3>. QED BY <3>1, <3>3, <3>5
    <2>6. ASSUME t \notin missing
          PROVE  /\ \A k \in SavedOf(t) : k..savedTo[t] \subseteq SavedOf(t)
                 /\ terms[t].pane \notin cut => 1..savedTo[t] = SavedOf(t)
                 /\ t \in held => savedTo[t] = drawn[t]
      BY <2>2, <2>3, <2>6 DEF Kept, Gapless, AllUpTo, Agrees
    <2>. QED BY <2>4, <2>5, <2>6
  <1>. QED BY <1>1, CleanerHolds, LineHolds, SavedHolds, PTL

\* The types of the service and the window: numbers within their bounds, what is
\* held, due, killed or recorded is of terminals that were asked for, and no
\* window has nothing.
THEOREM LinkIsTyped == LSpec => []LTypeOK
  <1>1. CleanerInv /\ LineInv /\ SavedInv => LTypeOK
    <2>. SUFFICES ASSUME CleanerInv, LineInv, SavedInv PROVE LTypeOK
      OBVIOUS
    <2>0. /\ LinkTypes /\ PipeTypes /\ Gathered /\ SavedTypes /\ Apart
          /\ {MaxTerms, MaxOutput, MaxEvents} \subseteq Nat
      BY BoundsAreNaturals DEF CleanerInv, LineInv, SavedInv
    <2>1. window \in 0..MaxEvents
      <3>1. window \in Nat /\ spent \in Nat /\ window <= spent /\ spent <= MaxEvents
        BY <2>0 DEF LinkTypes, SavedTypes
      <3>. QED BY <2>0, <3>1
    <2>2. terms \in Seq([pane: Panes, mark: 1..MaxEvents, stage: Stages, count: 0..MaxOutput])
      <3>. DEFINE T == [pane: Panes, mark: 1..MaxEvents, stage: Stages, count: 0..MaxOutput]
      <3>1. ASSUME NEW t \in DOMAIN terms PROVE terms[t] \in T
        <4>1. terms[t] \in Term
          BY <2>0 DEF LinkTypes
        <4>2. terms[t].mark \in 1..window /\ terms[t].count <= MaxOutput
          BY <2>0 DEF SavedTypes, PipeTypes
        <4>3. terms[t].mark \in 1..MaxEvents
          BY <2>0, <2>1, <4>2
        <4>4. terms[t].count \in 0..MaxOutput
          BY <2>0, <4>1, <4>2 DEF Term
        <4>. QED BY <4>1, <4>3, <4>4 DEF Term
      <3>2. terms \in Seq(Term)
        BY <2>0 DEF LinkTypes
      <3>. HIDE DEF T
      <3>3. Len(terms) \in Nat /\ DOMAIN terms = 1..Len(terms) /\ terms = [t \in 1..Len(terms) |-> terms[t]]
        BY <3>2
      <3>4. terms \in [1..Len(terms) -> T]
        BY <3>1, <3>3
      <3>5. terms \in Seq(T)
        BY <3>3, <3>4
      <3>. QED BY <3>5 DEF T
    <2>3. drawn \in [Terms -> 0..MaxOutput]
      <3>1. ASSUME NEW t \in Terms PROVE drawn[t] \in 0..MaxOutput
        <4>1. CASE t \in held
          <5>1. Coming(t) /\ DrawnTo(t) = drawn[t] /\ t \in DOMAIN terms
            BY <2>0, <4>1 DEF SavedInv, Placed, DrawnTo, LinkTypes
          <5>2. terms[t] \in Term /\ terms[t].count <= MaxOutput
            BY <2>0, <5>1 DEF LinkTypes, PipeTypes
          <5>3. drawn[t] \in Nat /\ drawn[t] <= terms[t].count /\ terms[t].count \in Nat
            BY <5>1, <5>2 DEF Coming, Onward, Term
          <5>. QED BY <2>0, <5>2, <5>3
        <4>2. CASE t \notin held
          BY <2>0, <4>2 DEF Apart
        <4>. QED BY <4>1, <4>2
      <3>2. drawn \in [Terms -> Nat]
        BY <2>0 DEF SavedTypes
      <3>. QED BY <3>1, <3>2
    <2>4. /\ handlers \in [Terms -> [listed: BOOLEAN, backlog: Seq(Events), todo: Seq(Events),
                                     by: {"no", "reader", "flush"}, over: BOOLEAN]]
          /\ up \in BOOLEAN /\ phase \in Phases /\ closed \in BOOLEAN
          /\ wire \in Seq(({None} \cup Terms) \X Events) /\ early \in [Terms -> Seq(Events)]
          /\ found \subseteq Terms \X Events /\ DOMAIN rows \subseteq DOMAIN terms
      BY <2>0 DEF PipeTypes, Handler
    <2>5. /\ saved \in [Panes -> Seq(Terms \X Chunks)]
          /\ DOMAIN seenFile \cup DOMAIN seen \subseteq DOMAIN terms
          /\ due \cup held \cup killing \cup lossy \cup unplaced \cup missing \subseteq DOMAIN terms
          /\ savedTo \in [Terms -> 0..MaxOutput] /\ cut \subseteq Panes
          /\ opener \in {None} \cup DOMAIN terms
      BY <2>0 DEF SavedTypes, LinkTypes
    <2>6. phase = "off" => wire = <<>> /\ held = {} /\ opener = None
      BY <2>0 DEF Gathered, Apart
    <2>. QED BY <2>1, <2>2, <2>3, <2>4, <2>5, <2>6 DEF LTypeOK
  <1>. QED BY <1>1, CleanerHolds, LineHolds, SavedHolds, PTL
=============================================================================
