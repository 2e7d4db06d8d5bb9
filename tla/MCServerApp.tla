---------------------------- MODULE MCServerApp ----------------------------
(***************************************************************************)
(* ServerApp for TLC.  Reader identities are interchangeable: nothing      *)
(* orders them, and Init treats them alike.  What the client believes      *)
(* guards nothing unless PatientClient holds: two states which differ in   *)
(* `client' alone then have the same behaviours in all other variables.    *)
(***************************************************************************)
EXTENDS ServerApp, TLC

ReaderSymmetry == Permutations(Readers)

ImpatientView == <<threads, state, run, gnss, timer, accel, inbox, conn, teardown, proc>>
=============================================================================
