--------------------------- MODULE ReaderContract ---------------------------
(***************************************************************************)
(* What the server relies on of one NMEA reader thread (gnssdata.h): the   *)
(* thread ends once it has been told to stop, and it changes the status of *)
(* the fix only while it is alive and asked to.  ServerApp takes its       *)
(* readers to be so; GnssData implements it.                               *)
(***************************************************************************)
VARIABLES running, \* the thread may go on (run_listener)
          asked,   \* the status is asked for (gnssdata_get_status_flag)
          fix,     \* there is a fix
          alive    \* the thread exists

vars == <<running, asked, fix, alive>>

Init == running = FALSE /\ asked = FALSE /\ fix = FALSE /\ alive = FALSE

Start == /\ ~alive /\ alive' = TRUE
         /\ running' = TRUE /\ asked' = TRUE /\ fix' = FALSE

Stop == running' = FALSE /\ asked' = FALSE /\ UNCHANGED <<fix, alive>>

Ask == asked' \in BOOLEAN /\ UNCHANGED <<running, fix, alive>>

Fail == alive /\ running' = FALSE /\ UNCHANGED <<asked, fix, alive>>

Status == alive /\ asked /\ fix' \in BOOLEAN /\ UNCHANGED <<running, asked, alive>>

Exit == alive /\ ~running /\ alive' = FALSE /\ UNCHANGED <<running, asked, fix>>

Next == Start \/ Stop \/ Ask \/ Fail \/ Status \/ Exit

Spec == Init /\ [][Next]_vars

FairSpec == Spec /\ WF_vars(Exit)
=============================================================================
