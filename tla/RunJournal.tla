----------------------------- MODULE RunJournal -----------------------------
(***************************************************************************)
(* What the event store promises (abstract): the records of a run form a   *)
(* journal.  A record gets its sequence once and keeps it, no two records  *)
(* share one, and what is added later stands behind what was there.        *)
(***************************************************************************)
EXTENDS Naturals

VARIABLE journal   \* record -> sequence, of the records stored so far

Journals(records) == [records -> Nat]

\* Later is behind: every new record's sequence is above every old one's.
Extends(new, old) ==
  /\ DOMAIN old \subseteq DOMAIN new
  /\ \A r \in DOMAIN old : new[r] = old[r]
  /\ \A r \in DOMAIN new \ DOMAIN old, q \in DOMAIN new :
       r # q /\ new[q] = new[r] => FALSE
  /\ \A r \in DOMAIN new \ DOMAIN old, q \in DOMAIN old : old[q] < new[r]

Empty == [r \in {} |-> 0]

Init == journal = Empty

Append == Extends(journal', journal)

Spec == Init /\ [][Append]_journal
=============================================================================
