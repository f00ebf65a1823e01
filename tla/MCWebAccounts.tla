--------------------------- MODULE MCWebAccounts ---------------------------
(* Small instances of WebAccounts: one account, two browsers.              *)
EXTENDS WebAccounts, TLC

CONSTANTS ann, old, new

LogIn(p) == [op |-> "login", email |-> ann, password |-> p]
SignUp(p) == [op |-> "register", email |-> ann, password |-> p]
ChangeTo(p, q) == [op |-> "change", password |-> p, new |-> q]
LogOut == [op |-> "logoff"]
Set == [op |-> "settings"]

SessionForms == {SignUp(old), LogIn(old), ChangeTo(old, new), Set, LogOut}
ChangeForms == {SignUp(old), ChangeTo(old, new)}

(* A request whose answer is ready is not handled any more, and the cookie *)
(* it carries is looked at once: states that differ in what is left of     *)
(* them only have the same behaviours.                                     *)
Handled(r) == IF pc[r] = "respond" THEN <<>> ELSE <<form[r], who[r], entity[r]>>
Carried(r) == IF pc[r] = "authenticate" THEN cookie[r] ELSE NoCookie
Live == <<accounts, jar, clock, pc, from, began, sets, ticket,
          [r \in Request |-> Handled(r)], [r \in Request |-> Carried(r)]>>

Symmetric == Permutations(Request) \cup Permutations(Browser)
=============================================================================
