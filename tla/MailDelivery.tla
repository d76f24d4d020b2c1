---------------------------- MODULE MailDelivery ----------------------------
(***************************************************************************)
(* What the mailbox of a Kolux orchestration promises, whoever reads what: *)
(* a message is given out at most once, in one batch; a batch is           *)
(* acknowledged whole, and what was acknowledged never comes back; only a  *)
(* reset drops mail, and a dropped number is not used again.               *)
(* (spec/08-orchestration.md, ORCH-003 to ORCH-006 and ORCH-031.)          *)
(***************************************************************************)
EXTENDS Naturals

VARIABLES
    top,      \* the number of the newest message
    fresh,    \* messages nobody was given
    batches,  \* the batches given and not acknowledged, as sets of messages
    settled   \* messages of acknowledged batches

vars == <<top, fresh, batches, settled>>

Init == top = 0 /\ fresh = {} /\ batches = {} /\ settled = {}

\* One message, or the copies of one sent to a group, reach their mailboxes.
Post ==
    /\ top' \in Nat /\ top' > top
    /\ fresh' = fresh \cup (top + 1)..top'
    /\ UNCHANGED <<batches, settled>>

\* No set of S, or one.
AtMostOneOf(S) == {{}} \cup {{B} : B \in S}

\* A reader acknowledges a batch, is given a new one of fresh messages, or both.
Turn ==
    \E acked \in AtMostOneOf(batches),
       given \in AtMostOneOf((SUBSET fresh) \ {{}}) :
        /\ batches' = (batches \ acked) \cup given
        /\ settled' = settled \cup UNION acked
        /\ fresh' = fresh \ UNION given
        /\ UNCHANGED top

Drop ==
    /\ fresh' = {} /\ batches' = {} /\ settled' = {}
    /\ UNCHANGED top

Next == Post \/ Turn \/ Drop

Spec == Init /\ [][Next]_vars
=============================================================================
