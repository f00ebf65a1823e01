--------------------------- MODULE GroupmeOvertakes ---------------------------
(***************************************************************************)
(* GroupmeBot with the history that tells which calls lose an update.      *)
(*                                                                         *)
(* A call that awards points loads the rows, posts and saves; another call *)
(* that saves a row of one of its members in between overtakes it at that  *)
(* row, which the slower call is going to overwrite, or has not awarded.   *)
(* The history says where the harm of overlapping calls ends: a call that  *)
(* nobody overtook takes effect as if it had run alone, however many calls *)
(* the server runs at a time.                                              *)
(***************************************************************************)
EXTENDS GroupmeBot

VARIABLES
  overtaken,  \* pairs <<d, i>>: call d was overtaken at row i
  saved       \* the calls whose SaveChanges has written

history == <<overtaken, saved>>

Awards(d) == Says(d, "merit") /\ Named(d)

(* The call has queried the rows of its members and has not saved them.    *)
Holding(d) ==
  /\ Awards(d)
  /\ \/ pc[d] = "merit" /\ line[d] > 1
     \/ pc[d] \in {"postMerit", "score", "postScore", "save"}

Saves(d) == pc[d] = "save" /\ pc'[d] = "andre"

(* The rows of a member that d awards which the step writes or inserts.    *)
Overtaking(d) ==
  {i \in 1..Len(rows') : /\ i > Len(rows) \/ rows'[i].pts # rows[i].pts
                         /\ rows'[i].who \in Mentioned(d)}

HInit == Init /\ overtaken = {} /\ saved = {}

Record ==
  /\ overtaken' = overtaken \cup
       UNION {{d} \X Overtaking(d) : d \in {e \in Delivery : Holding(e) /\ ~Saves(e)}}
  /\ saved' = saved \cup {d \in Delivery : Saves(d)}

HNext == Next /\ Record

HSpec == HInit /\ [][HNext]_<<vars, history>>

-----------------------------------------------------------------------------
Overtaken(d) == \E i \in 1..Len(rows) : <<d, i>> \in overtaken

(* However many calls run at a time, SaveChanges of a call nobody overtook *)
(* has the effect of its message on the ledger: each mention of a member   *)
(* gives every row of the member its point, rows of members registered     *)
(* again later included, and the members it registers get their rows.      *)
SavesTakeEffect ==
  [][\A d \in Delivery :
       Saves(d) /\ ~Overtaken(d) => Ledger!Handle(msg[d])]_<<vars, history>>

(* The points a call that saved has told the group it gave, or took.       *)
SavedLines(m, sign) == {x \in AwardLines(m, sign) : x[1] \in saved}

(* Points get lost where a call is overtaken and nowhere else: a row that  *)
(* was there from the start, and at which no call that saved was overtaken,*)
(* has the points announced by the calls that saved, at any moment and     *)
(* whichever other calls fail or are killed.                               *)
PointsLostOnlyIfOvertaken ==
  \A i \in 1..Len(rows) :
    rows[i].by = NotFound /\ (\A d \in saved : <<d, i>> \notin overtaken)
      => rows[i].pts = Cardinality(SavedLines(rows[i].who, 1))
                         - Cardinality(SavedLines(rows[i].who, -1))
=============================================================================
