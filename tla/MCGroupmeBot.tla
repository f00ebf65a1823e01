---------------------------- MODULE MCGroupmeBot ----------------------------
(* Small instances of GroupmeBot: two members, a handful of messages.      *)
EXTENDS GroupmeBot, TLC

CONSTANTS ann, ben

(* A text has the words typed and those of the members it mentions.        *)
Says3(words, mentions) ==
  [hasText |-> TRUE, mentions |-> mentions, blank |-> FALSE,
   words |-> words \cup UNION {MeritText(mentions[k]) : k \in 1..Len(mentions)}]
Picture == [hasText |-> FALSE, words |-> {}, mentions |-> <<>>, blank |-> FALSE]
TagsNobody == [hasText |-> TRUE, words |-> {"register", "merit"},
               mentions |-> <<>>, blank |-> TRUE]

MeritAnn    == Says3({"merit"}, <<ann>>)
MeritAnnBen == Says3({"merit"}, <<ann, ben>>)
MeritTwice  == Says3({"merit"}, <<ann, ann>>)
DemeritBen  == Says3({"merit", "demerit"}, <<ben>>)
DemeritAnn  == Says3({"merit", "demerit"}, <<ann>>)
NewBoth     == Says3({"register", "merit"}, <<ben, ann>>)
NewTwice    == Says3({"register"}, <<ben, ben>>)
AskScore    == Says3({"bot", "score"}, <<>>)
NoTag       == Says3({"register", "merit", "andre"}, <<>>)

(* ann is in the table twice: she was registered twice.                    *)
SeedTwins == <<ann, ann>>
SeedBoth  == <<ann, ben>>
SeedAnn   == <<ann>>

PlainNames == [m \in {ann, ben} |-> {}]
(* A nickname that begins with "bot" and contains "score" and "register",  *)
(* and one with an "@bot" of its own that ends in "Andre".                 *)
OddNames == (ann :> {"startsBot", "score", "register"}) @@ (ben :> {"bot", "endsAndre"})

ConcurrentMessages == {MeritAnn, DemeritBen, NewBoth, MeritAnnBen}
SerialMessages == {MeritTwice, DemeritBen, NewBoth, NoTag}
EndMessages == {MeritAnnBen, NewTwice, AskScore, NoTag, TagsNobody, Picture}
LostMessages == {MeritAnn, DemeritAnn}

(* With one call at a time the size of the log decides nothing, and nobody *)
(* reads again what an ended call had in memory: states that differ in     *)
(* them only have the same behaviours.                                     *)
Memory(d) == IF Active(d) THEN <<msg[d], line[d], seen[d], cur[d], added[d], lines[d]>>
                          ELSE <<>>
Alive == <<table, pc, [d \in Delivery |-> Memory(d)]>>

Deliveries == Permutations(Delivery)
=============================================================================
