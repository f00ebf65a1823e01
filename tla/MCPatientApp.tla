---------------------------- MODULE MCPatientApp ----------------------------
(* Small instances of PatientApp.                                          *)
EXTENDS PatientApp, TLC

CONSTANTS ann, ben, annForm, annOther, benForm, kim, lou

FormEmails == [f \in Form |-> IF f = benForm THEN ben ELSE ann]
(* annForm's code is in two entries of Users, benForm's in none.           *)
FormDoctors ==
  [f \in Form |-> CASE f = annForm -> {kim, lou} [] f = annOther -> {lou} [] OTHER -> {}]

Devices == Permutations(Device)
=============================================================================
