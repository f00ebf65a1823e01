---------------------------- MODULE MCApiClient ----------------------------
(* Small instances of ApiClient: ann and ben are patients, cyn has an     *)
(* account only.                                                           *)
EXTENDS ApiClient, TLC

CONSTANTS ann, ben, cyn

Owners == <<ann, ben>>
Amounts == {1, -5}
=============================================================================
