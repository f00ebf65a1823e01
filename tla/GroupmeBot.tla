----------------------------- MODULE GroupmeBot -----------------------------
(***************************************************************************)
(* The GroupMe webhook of the web application (GroupmeController.msg).     *)
(*                                                                         *)
(* GroupMe calls msg() once per message of the group.  Every call runs on  *)
(* a thread of its own, opens one GroupmeDbContext, edits the rows it      *)
(* loaded in memory, posts its replies with a blocking HTTP request and    *)
(* only then calls SaveChanges.  The bot's own replies are messages of the *)
(* group too: GroupMe calls msg() with them, and msg() does not look at    *)
(* the sender.  A step of the model ends where another call can come in    *)
(* between: a query, an HTTP request, SaveChanges, a read or write of the  *)
(* unsynchronised static log.                                              *)
(***************************************************************************)
EXTENDS Integers, Sequences, FiniteSets

CONSTANTS
  Member,      \* GroupMe user ids a message can mention
  Delivery,    \* webhook calls; each is one execution of msg()
  Message,     \* what the members may type; its text includes its mentions
  NickWords,   \* the words of interest in a member's nickname
  Gabriels,    \* the members whose nickname contains "abriel"
  Seed,        \* members of the rows already in the table
  MaxWorkers,  \* calls the server runs at the same time
  NotFound     \* no total (no row of the member) / no delivery

(* The substrings msg() looks for: "register", "merit", "demerit",         *)
(* "@bot", "score" and "Andre Re".  Of a nickname "startsBot" says that it *)
(* begins with "bot", which a mention turns into "@bot", and "endsAndre"   *)
(* that it ends in "Andre"; "bot" is a nickname with an "@bot" of its own. *)
Word == {"register", "merit", "demerit", "bot", "score", "andre",
         "startsBot", "endsAndre"}

(* A text that contains "demerit" contains "merit".                        *)
Text == {w \in SUBSET Word : "demerit" \in w => "merit" \in w}

(* The words of a text that a nickname brings into it.  msg() stores and   *)
(* lists a name without the "@" of the mention, and lists it with that "@" *)
(* in a merit reply; "Andre" and " Registered!" spell "Andre Re".  None of *)
(* the fixed phrases of a reply has one of the words.  In the mutant the   *)
(* name is stored from the "@" on.                                         *)
MeritText(m) ==
  (NickWords[m] \ {"startsBot", "endsAndre"})
    \cup (IF "startsBot" \in NickWords[m] THEN {"bot"} ELSE {})
NickText_KeepsAt(m) == MeritText(m)
NickText(m) == NickWords[m] \ {"startsBot", "endsAndre"}
RegisteredText(m) ==
  NickText(m) \cup (IF "endsAndre" \in NickWords[m] THEN {"andre"} ELSE {})

ASSUME BotAssumption ==
  /\ NickWords \in [Member -> Text]
  /\ Gabriels \subseteq Member
  /\ Seed \in Seq(Member)
  /\ MaxWorkers \in Nat \ {0}
  /\ NotFound \notin Int
  /\ NotFound \notin Delivery
  /\ Message \subseteq
       [hasText : BOOLEAN, words : Text, mentions : Seq(Member), blank : BOOLEAN]
  /\ \A m \in Message : \A k \in 1..Len(m.mentions) :
       MeritText(m.mentions[k]) \subseteq m.words

VARIABLES
  rows,     \* the Phikeia table, the primary key being the index
  chat,     \* the bot's replies that reached the group
  echoed,   \* the replies GroupMe has called msg() with
  log,      \* ConsoleModel.log.Count
  pc,       \* where each call of msg() is
  msg,      \* the message each call handles
  line,     \* index of the mention the merit loop is at
  seen,     \* points of the rows a call's context tracks, as loaded
  cur,      \* points of the same rows, as changed in memory
  added,    \* members of the rows a call's context is about to insert
  lines,    \* the reply under construction
  size      \* the log size a call read and has not written back yet

vars == <<rows, chat, echoed, log, pc, msg, line, seen, cur, added, lines, size>>
table == <<rows, chat, echoed>>
locals == <<msg, line, seen, cur, added, lines, size>>

Ended == {"done", "failed"}
Posting == {"postRegister", "postReminder", "postMerit", "postScore", "postAndre"}
Running == {"log", "logging", "register", "merit", "score", "save", "andre"}
             \cup Posting
Active(d) == pc[d] \in Running

NoMessage == [hasText |-> FALSE, words |-> {}, mentions |-> <<>>,
              blank |-> FALSE, gen |-> 0]

Init ==
  /\ rows = [i \in 1..Len(Seed) |-> [who |-> Seed[i], pts |-> 0, by |-> NotFound]]
  /\ chat = {} /\ echoed = {} /\ log = 0
  /\ pc = [d \in Delivery |-> "waiting"]
  /\ msg = [d \in Delivery |-> NoMessage]
  /\ line = [d \in Delivery |-> 1]
  /\ seen = [d \in Delivery |-> <<>>]
  /\ cur = [d \in Delivery |-> <<>>]
  /\ added = [d \in Delivery |-> <<>>]
  /\ lines = [d \in Delivery |-> <<>>]
  /\ size = [d \in Delivery |-> 0]

Goto(d, label) == pc' = [pc EXCEPT ![d] = label]

-----------------------------------------------------------------------------
(* Reception and the static log.                                           *)

Receive(d, m) ==
  /\ pc[d] = "waiting"
  /\ Cardinality({e \in Delivery : Active(e)}) < MaxWorkers
  /\ msg' = [msg EXCEPT ![d] = m]
  /\ Goto(d, "log")
  /\ UNCHANGED <<rows, chat, log, line, seen, cur, added, lines, size>>

(* A member typed m.  gen counts how many replies of the bot led here.     *)
Deliver(d) ==
  /\ \E m \in Message :
       Receive(d, [hasText |-> m.hasText, words |-> m.words,
                   mentions |-> m.mentions, blank |-> m.blank, gen |-> 0])
  /\ UNCHANGED echoed

(* GroupMe hands one of the bot's replies back.  A reply is text only:     *)
(* GroupmeMessageModel has no attachments.                                 *)
Echo(d) ==
  \E p \in chat \ echoed :
    /\ Receive(d, [hasText |-> TRUE, words |-> p.words,
                   mentions |-> <<>>, blank |-> FALSE, gen |-> p.gen])
    /\ echoed' = echoed \cup {p}

(* List.Add is _items[_size++] = item: a load and a store of the size.     *)
LogLoad(d) ==
  /\ pc[d] = "log"
  /\ size' = [size EXCEPT ![d] = log]
  /\ Goto(d, "logging")
  /\ UNCHANGED <<table, log, msg, line, seen, cur, added, lines>>

(* A message without text (an image) makes groupme.text.Contains throw.    *)
LogStore(d) ==
  /\ pc[d] = "logging"
  /\ log' = size[d] + 1
  /\ Goto(d, IF msg[d].hasText THEN "register" ELSE "failed")
  /\ UNCHANGED <<table, locals>>

(* Two calls inside Add can index past the array they both found roomy.    *)
LogThrows(d) ==
  /\ pc[d] = "logging"
  /\ \E e \in Delivery \ {d} : pc[e] = "logging"
  /\ Goto(d, "failed")
  /\ UNCHANGED <<table, log, locals>>

-----------------------------------------------------------------------------
(* The three blocks that run inside the database context.                  *)

Says(d, w) == w \in msg[d].words
Mentions(d) == msg[d].mentions

(* mentionsAttach # null: the attachment names somebody, or it names nobody*)
(* (a blank one, with no user_ids), and then the loops run zero times.     *)
Named(d) == Mentions(d) # <<>>
Tagged(d) == Named(d) \/ msg[d].blank

(* Mutant: the loop runs while i <= Count.                                 *)
Turn_TooFar(d, again, after) ==
  LET last == line[d] > Len(Mentions(d))
  IN /\ line' = [line EXCEPT ![d] = IF last THEN 1 ELSE line[d] + 1]
     /\ Goto(d, IF last THEN after ELSE again)

(* The loops over the mentions take one mention per step.                  *)
Turn(d, again, after) ==
  LET last == line[d] = Len(Mentions(d))
  IN /\ line' = [line EXCEPT ![d] = IF last THEN 1 ELSE line[d] + 1]
     /\ Goto(d, IF last THEN after ELSE again)

RegisterSkip(d) ==
  /\ pc[d] = "register"
  /\ ~Says(d, "register")
  /\ Goto(d, "merit")
  /\ UNCHANGED <<table, log, locals>>

RegisterReminder(d) ==
  /\ pc[d] = "register"
  /\ Says(d, "register") /\ ~Tagged(d)
  /\ Goto(d, "postReminder")
  /\ UNCHANGED <<table, log, locals>>

RegisterNobody(d) ==
  /\ pc[d] = "register"
  /\ Says(d, "register") /\ Tagged(d) /\ ~Named(d)
  /\ Goto(d, "postRegister")
  /\ UNCHANGED <<table, log, locals>>

Register(d) ==
  /\ pc[d] = "register"
  /\ Says(d, "register") /\ Named(d)
  /\ LET m == Mentions(d)[line[d]]
     IN added' = IF m \in Gabriels THEN added
                 ELSE [added EXCEPT ![d] = Append(@, m)]
  /\ Turn(d, "register", "postRegister")
  /\ UNCHANGED <<table, log, msg, seen, cur, lines, size>>

(* Mutant: the query overwrites the values changed in memory.              *)
Queried_Refreshed(d, f) == [i \in 1..Len(rows) |-> rows[i].pts]

(* db.phikeia.ToList(): a row the context tracks already keeps the values  *)
(* it has in memory, a row it does not is taken as it is in the table.     *)
(* Rows are never deleted, so the tracked rows are the first ones.         *)
Queried(d, f) ==
  [i \in 1..Len(rows) |-> IF i <= Len(f[d]) THEN f[d][i] ELSE rows[i].pts]

Diff(words) == IF "demerit" \in words THEN -1 ELSE 1

RowsOf(m) == {i \in 1..Len(rows) : rows[i].who = m}

(* Mutant: the first row gives the total.                                  *)
TotalOf_First(m, points) ==
  IF RowsOf(m) = {} THEN NotFound
  ELSE points[CHOOSE i \in RowsOf(m) : \A j \in RowsOf(m) : i <= j]

(* The last row of m in the order of the query gives the total announced.  *)
TotalOf(m, points) ==
  IF RowsOf(m) = {} THEN NotFound
  ELSE points[CHOOSE i \in RowsOf(m) : \A j \in RowsOf(m) : j <= i]

(* Mutant: the loop over the rows stops at the first match.                *)
Awarded_Break(m, words, loaded) ==
  [i \in 1..Len(rows) |->
     IF rows[i].who = m /\ \A j \in RowsOf(m) : i <= j
       THEN loaded[i] + Diff(words) ELSE loaded[i]]

(* The inner foreach: diff goes to every row of the mentioned member.      *)
Awarded(m, words, loaded) ==
  [i \in 1..Len(rows) |->
     IF rows[i].who = m THEN loaded[i] + Diff(words) ELSE loaded[i]]

MeritSkip(d) ==
  /\ pc[d] = "merit"
  /\ ~(Says(d, "merit") /\ Tagged(d))
  /\ Goto(d, "score")
  /\ UNCHANGED <<table, log, locals>>

MeritNobody(d) ==
  /\ pc[d] = "merit"
  /\ Says(d, "merit") /\ Tagged(d) /\ ~Named(d)
  /\ Goto(d, "postMerit")
  /\ UNCHANGED <<table, log, locals>>

(* One mention: query, award, note the total.                              *)
Merit(d) ==
  /\ pc[d] = "merit"
  /\ Says(d, "merit") /\ Named(d)
  /\ LET m == Mentions(d)[line[d]]
         points == Awarded(m, msg[d].words, Queried(d, cur))
     IN /\ cur' = [cur EXCEPT ![d] = points]
        /\ lines' = [lines EXCEPT ![d] =
                       Append(@, [who |-> m, total |-> TotalOf(m, points)])]
  /\ seen' = [seen EXCEPT ![d] = Queried(d, seen)]
  /\ Turn(d, "merit", "postMerit")
  /\ UNCHANGED <<table, log, msg, added, size>>

(* "@bot ... score" lists every row, with the changes this call has made.  *)
Score(d) ==
  /\ pc[d] = "score"
  /\ Says(d, "bot") /\ Says(d, "score")
  /\ seen' = [seen EXCEPT ![d] = Queried(d, seen)]
  /\ cur' = [cur EXCEPT ![d] = Queried(d, cur)]
  /\ lines' = [lines EXCEPT ![d] =
       [i \in 1..Len(rows) |->
          [who |-> rows[i].who, total |-> Queried(d, cur)[i]]]]
  /\ Goto(d, "postScore")
  /\ UNCHANGED <<table, log, msg, line, added, size>>

ScoreSkip(d) ==
  /\ pc[d] = "score"
  /\ ~(Says(d, "bot") /\ Says(d, "score"))
  /\ Goto(d, "save")
  /\ UNCHANGED <<table, log, locals>>

-----------------------------------------------------------------------------
(* sendMsg, SaveChanges and the end of the call.                           *)

(* Mutant: the score block is entered again after its reply.               *)
AfterPost_ScoreAgain ==
  [s \in Posting |->
     CASE s = "postRegister" -> "merit"
       [] s = "postReminder" -> "merit"
       [] s = "postMerit"    -> "score"
       [] s = "postScore"    -> "score"
       [] s = "postAndre"    -> "done"]

AfterPost ==
  [s \in Posting |->
     CASE s = "postRegister" -> "merit"
       [] s = "postReminder" -> "merit"
       [] s = "postMerit"    -> "score"
       [] s = "postScore"    -> "save"
       [] s = "postAndre"    -> "done"]

Mentioned(d) == {Mentions(d)[k] : k \in 1..Len(Mentions(d))}
Listed(d) == {lines[d][k].who : k \in 1..Len(lines[d])}

ReplyWords(d) ==
  CASE pc[d] = "postRegister" -> UNION {RegisteredText(m) : m \in Mentioned(d)}
    [] pc[d] = "postMerit"    -> UNION {MeritText(m) : m \in Mentioned(d)}
    [] pc[d] = "postScore"    -> UNION {NickText(m) : m \in Listed(d)}
    [] OTHER                  -> {}

Reply(d) == [by |-> d, stage |-> pc[d], words |-> ReplyWords(d),
             lines |-> lines[d], gen |-> msg[d].gen + 1]

Post(d) ==
  /\ pc[d] \in Posting
  /\ chat' = chat \cup {Reply(d)}
  /\ lines' = [lines EXCEPT ![d] = <<>>]
  /\ Goto(d, AfterPost[pc[d]])
  /\ UNCHANGED <<rows, echoed, log, msg, line, seen, cur, added, size>>

(* Mutant: the exception of sendMsg is swallowed and the call goes on.     *)
PostFails_Swallowed(d) ==
  /\ pc[d] \in Posting
  /\ chat' \in {chat, chat \cup {Reply(d)}}
  /\ lines' = [lines EXCEPT ![d] = <<>>]
  /\ Goto(d, AfterPost[pc[d]])
  /\ UNCHANGED <<rows, echoed, log, msg, line, seen, cur, added, size>>

(* sendMsg throws (refused, timed out, answer lost): the context is        *)
(* disposed of without SaveChanges, whether the group got the reply or not.*)
PostFails(d) ==
  /\ pc[d] \in Posting
  /\ chat' \in {chat, chat \cup {Reply(d)}}
  /\ Goto(d, "failed")
  /\ UNCHANGED <<rows, echoed, log, locals>>

(* Mutant: every loaded row is written back.                               *)
Changed_All(d) == 1..Len(cur[d])
Changed(d) == {i \in 1..Len(cur[d]) : cur[d][i] # seen[d][i]}

(* SaveChanges updates, in one transaction, the rows whose points changed  *)
(* in memory, to the absolute value, and inserts the new ones.             *)
Save(d) ==
  /\ pc[d] = "save"
  /\ rows' = [i \in 1..Len(rows) |->
                IF i \in Changed(d) THEN [rows[i] EXCEPT !.pts = cur[d][i]]
                                    ELSE rows[i]]
             \o [k \in 1..Len(added[d]) |->
                   [who |-> added[d][k], pts |-> 0, by |-> d]]
  /\ Goto(d, "andre")
  /\ UNCHANGED <<chat, echoed, log, locals>>

SaveFails(d) ==
  /\ pc[d] = "save"
  /\ Goto(d, "failed")
  /\ UNCHANGED <<table, log, locals>>

Andre(d) ==
  /\ pc[d] = "andre"
  /\ Goto(d, IF Says(d, "andre") THEN "postAndre" ELSE "done")
  /\ UNCHANGED <<table, log, locals>>

(* The application pool is recycled: running calls die, statics are fresh. *)
Restart ==
  /\ pc' = [d \in Delivery |-> IF Active(d) THEN "failed" ELSE pc[d]]
  /\ log' = 0
  /\ UNCHANGED <<table, locals>>

-----------------------------------------------------------------------------
Step(d) ==
  \/ LogLoad(d) \/ LogStore(d) \/ LogThrows(d)
  \/ RegisterSkip(d) \/ RegisterReminder(d) \/ RegisterNobody(d) \/ Register(d)
  \/ MeritSkip(d) \/ MeritNobody(d) \/ Merit(d) \/ Score(d) \/ ScoreSkip(d)
  \/ Post(d) \/ PostFails(d) \/ Save(d) \/ SaveFails(d) \/ Andre(d)

Next ==
  \/ \E d \in Delivery : Deliver(d) \/ Echo(d) \/ Step(d)
  \/ Restart

Spec == Init /\ [][Next]_vars

(* A thread that runs keeps running, and a blocking request or statement   *)
(* returns or times out.  Nobody has to type anything.                     *)
FairSpec == Spec /\ \A d \in Delivery : WF_vars(Step(d))
-----------------------------------------------------------------------------
(* Correctness.                                                            *)

Row == [who : Member, pts : Int, by : Delivery \cup {NotFound}]
Line == [who : Member, total : Int \cup {NotFound}]
Answer == [by : Delivery, stage : Posting, words : SUBSET Word,
           lines : Seq(Line), gen : Nat]
Incoming == [hasText : BOOLEAN, words : SUBSET Word, mentions : Seq(Member),
             blank : BOOLEAN, gen : Nat]

Typed ==
  /\ rows \in Seq(Row)
  /\ chat \subseteq Answer
  /\ echoed \subseteq chat
  /\ log \in Nat
  /\ pc \in [Delivery -> {"waiting"} \cup Running \cup Ended]
  /\ msg \in [Delivery -> Incoming]
  /\ line \in [Delivery -> Nat \ {0}]
  /\ seen \in [Delivery -> Seq(Int)]
  /\ cur \in [Delivery -> Seq(Int)]
  /\ added \in [Delivery -> Seq(Member)]
  /\ lines \in [Delivery -> Seq(Line)]
  /\ size \in [Delivery -> Nat]

(* The loops over the mentions index user_ids and loci within their bounds.*)
LineOK ==
  \A d \in Delivery : /\ pc[d] = "waiting" => line[d] = 1
                      /\ line[d] = 1 \/ line[d] <= Len(Mentions(d))

(* The type of the state of the webhook, its table and its posts, with the *)
(* mention a loop is at inside the message.                                *)
TypeOK == Typed /\ LineOK

(* The names in the table spell "@bot" and "score".                        *)
SelfAsking ==
  \E i, j \in 1..Len(rows) : /\ "bot" \in NickWords[rows[i].who]
                            /\ "score" \in NickWords[rows[j].who]

(* A reply of the bot that GroupMe feeds back to msg() can make it answer  *)
(* itself (the handler never checks who the sender is).  Such a chain of   *)
(* answers is at most three replies long, unless the table holds a name    *)
(* with an "@bot" of its own and one with "score": then the list of scores *)
(* asks for the scores, and the bot answers itself without end.            *)
ReplyChainEnds == SelfAsking \/ \A p \in chat : p.gen <= 3

(* SaveChanges writes the rows of the members the message mentions and no  *)
(* other: ToList() loaded every row, and the stale copies of the others do *)
(* not overwrite what another call saved meanwhile.                        *)
BystandersKeepPoints ==
  [][\A i \in 1..Len(rows) :
       rows'[i] # rows[i] =>
         \E d \in Delivery : /\ pc[d] = "save"
                             /\ Says(d, "merit")
                             /\ rows[i].who \in Mentioned(d)]_rows

MeritPosts == {p \in chat : p.stage = "postMerit"}

(* What SaveChanges writes, the group has been told before: the last row   *)
(* of a member that a call writes gets the total of the call's last line   *)
(* about the member, and rows are inserted by calls whose "Registered!"    *)
(* reply is out (sendMsg comes before SaveChanges and throws on failure).  *)
AnnouncedBeforeSaved ==
  [][\A d \in Delivery : pc[d] = "save" /\ pc'[d] = "andre" =>
       /\ \A i \in Changed(d) :
            \/ \E j \in Changed(d) : j > i /\ rows[j].who = rows[i].who
            \/ \E p \in MeritPosts : \E k \in 1..Len(p.lines) :
                 /\ p.by = d
                 /\ p.lines[k] = [who |-> rows[i].who, total |-> rows'[i].pts]
                 /\ \A l \in (k + 1)..Len(p.lines) : p.lines[l].who # rows[i].who
       /\ Len(rows') > Len(rows) =>
            \E p \in chat : p.by = d /\ p.stage = "postRegister"]_vars

(* The lines of the group's chat that gave m a point (sign 1) or took one. *)
AwardLines(m, sign) ==
  UNION {{p.by} \X {k \in 1..Len(p.lines) : /\ p.lines[k].who = m
                                           /\ p.lines[k].total # NotFound}
         : p \in {q \in MeritPosts : Diff(msg[q.by].words) = sign}}

(* No row has more points, or fewer, than the chat has lines that gave or  *)
(* took one: overlapping calls can lose a point and a failed call saves    *)
(* none, but no interleaving makes one up.                                 *)
PointsWereAnnounced ==
  \A i \in 1..Len(rows) :
    /\ rows[i].pts <= Cardinality(AwardLines(rows[i].who, 1))
    /\ rows[i].pts >= -Cardinality(AwardLines(rows[i].who, -1))

(* A member registered twice in one message (or before the calls began)    *)
(* has two rows; the loop awards both, so they have the same points, even  *)
(* when overlapping calls overwrite each other.                            *)
TwinRowsAgree ==
  \A i, j \in 1..Len(rows) :
    rows[i].who = rows[j].who /\ rows[i].by = rows[j].by
      => rows[i].pts = rows[j].pts

(* The table as the ledger the replies describe: every message takes       *)
(* effect at once, as a whole, or not at all.                              *)
Ledger == INSTANCE PointsLedger WITH
  ledger <- [i \in 1..Len(rows) |-> [who |-> rows[i].who, pts |-> rows[i].pts]]
LedgerKept == Ledger!Spec

(* Every call of msg() that begins ends, with its answer or an error.      *)
EveryDeliveryEnds ==
  \A d \in Delivery : Active(d) ~> pc[d] \in Ended

(* When every call has ended well, a row that was there from the start has *)
(* the points the bot announced: "1 Point for ...", "1 Point REMOVED from" *)
AnnouncedPointsAddUp ==
  (\A d \in Delivery : pc[d] = "done") =>
    \A i \in 1..Len(rows) :
      rows[i].by = NotFound =>
        rows[i].pts = Cardinality(AwardLines(rows[i].who, 1))
                        - Cardinality(AwardLines(rows[i].who, -1))
=============================================================================
