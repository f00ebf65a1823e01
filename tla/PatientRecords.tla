--------------------------- MODULE PatientRecords ---------------------------
(***************************************************************************)
(* What the patient app promises of the Firebase data, whatever the        *)
(* phones do: a patient is an account, then a profile, then the physician  *)
(* of the code typed in the profile's form, each given once and in this    *)
(* order; readings are only ever added, to patients who have an account.   *)
(* PatientApp implements it.                                               *)
(***************************************************************************)
CONSTANTS Email, Form, EmailOf, DoctorsOf, None

VARIABLES accounts, profiles, links, stored

Create(e) ==
  /\ e \notin accounts
  /\ accounts' = accounts \cup {e}
  /\ UNCHANGED <<profiles, links, stored>>

Describe(f) ==
  LET e == EmailOf[f]
  IN /\ e \in accounts /\ profiles[e] = None
     /\ profiles' = [profiles EXCEPT ![e] = f]
     /\ UNCHANGED <<accounts, links, stored>>

Assign(e) ==
  /\ profiles[e] # None
  /\ \A l \in links : l[2] # e
  /\ \E doctor \in DoctorsOf[profiles[e]] : links' = links \cup {<<doctor, e>>}
  /\ UNCHANGED <<accounts, profiles, stored>>

Store(e, r) ==
  /\ e \in accounts
  /\ r \notin stored /\ r.uid = e
  /\ stored' = stored \cup {r}
  /\ UNCHANGED <<accounts, profiles, links>>

Init ==
  /\ accounts \subseteq Email
  /\ profiles = [e \in Email |-> None]
  /\ links = {} /\ stored = {}

Next ==
  \/ \E e \in Email : Create(e) \/ Assign(e)
  \/ \E f \in Form : Describe(f)
  \/ \E e \in Email : \E r \in stored' : Store(e, r)

Spec == Init /\ [][Next]_<<accounts, profiles, links, stored>>
=============================================================================
