---------------------------- MODULE MCAdmission ----------------------------
(* TLC instances of Admission.                                             *)
EXTENDS Admission

CONSTANTS t1, t2, t3, i1, i2
=============================================================================
