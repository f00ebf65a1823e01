---------------------------- MODULE PointsLedger ----------------------------
(***************************************************************************)
(* What the bot promises the group: a list of the registered members and   *)
(* their points, on which every message acts at once.  A message that      *)
(* registers members appends them with no points; one that awards merits   *)
(* or demerits changes the members that were registered before it, once    *)
(* per mention.  GroupmeBot implements it when one call runs at a time; of *)
(* overlapping calls, those that nobody overtakes act on it as if alone    *)
(* (GroupmeOvertakes).                                                     *)
(***************************************************************************)
EXTENDS Integers, Sequences, FiniteSets

CONSTANTS Member, Message, Gabriels, Seed

VARIABLE ledger

Mentions(m, who) ==
  Cardinality({k \in 1..Len(m.mentions) : m.mentions[k] = who})

Award(m) ==
  [i \in 1..Len(ledger) |->
     [ledger[i] EXCEPT !.pts = @ + Mentions(m, ledger[i].who)
                                   * (IF "demerit" \in m.words THEN -1 ELSE 1)]]

(* The mentions that register someone; the i-th of them makes the i-th row.*)
NewMentions(m) == {k \in 1..Len(m.mentions) : m.mentions[k] \notin Gabriels}

NewMembers(m) ==
  LET Nth(i) == CHOOSE k \in NewMentions(m) :
                  Cardinality({j \in NewMentions(m) : j <= k}) = i
  IN [i \in 1..Cardinality(NewMentions(m)) |->
        [who |-> m.mentions[Nth(i)], pts |-> 0]]

Init == ledger = [i \in 1..Len(Seed) |-> [who |-> Seed[i], pts |-> 0]]

Handle(m) ==
  ledger' = (IF "merit" \in m.words THEN Award(m) ELSE ledger)
              \o (IF "register" \in m.words THEN NewMembers(m) ELSE <<>>)

Next == \E m \in Message : Handle(m)

Spec == Init /\ [][Next]_ledger
=============================================================================
