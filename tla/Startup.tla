------------------------------ MODULE Startup ------------------------------
(***************************************************************************)
(* The process around the server: main of main.c, the set-up of the        *)
(* listening socket, the accept in gnssposget_server_mainloop and the end, *)
(* with SIGTERM and SIGINT at any time.  What the server does between the  *)
(* accept and the end of teardown() is left to ServerApp; teardown() may   *)
(* return or not, for the threads it joins may never end.                  *)
(*                                                                         *)
(* The signal handler interrupts the main thread until the server thread   *)
(* exists; from then on either may run it.  It is installed with an empty  *)
(* mask, so that the handler of one signal may interrupt that of another.  *)
(***************************************************************************)
EXTENDS Integers, Sequences, FiniteSets

CONSTANTS Signals,   \* SIGTERM and SIGINT
          MaxSignals \* bound: signals sent in a behaviour

ASSUME SignalAssumption == MaxSignals \in Nat

VARIABLES
  main,     \* where main is; "exited", "killed" and "crashed" when there is no process
  flag,     \* teardown_requested
  servinfo, \* the address list: "none", "ready" or "freed"
  handlers, \* the runs of signalHandler under way, an interrupted one first
  sent      \* the number of signals sent

vars == <<main, flag, servinfo, handlers, sent>>

Gone == main \in {"exited", "killed", "crashed"}
Alone == main \in {"init", "socket", "resolve", "bind", "fork", "listen", "clear", "accept",
                   "accepting", "interrupted"}

Init == /\ main = "init" /\ flag = FALSE /\ servinfo = "none"
        /\ handlers = << >> /\ sent = 0

-----------------------------------------------------------------------------
(***************************************************************************)
(* freeaddrinfo: nothing without a list; a list freed before is undefined  *)
(* behaviour, which the allocator may detect.                              *)
(***************************************************************************)
Free(next) == /\ servinfo' = IF servinfo = "none" THEN "none" ELSE "freed"
              /\ main' \in IF servinfo = "freed" THEN {next, "crashed"} ELSE {next}

-----------------------------------------------------------------------------
(***************************************************************************)
(* Signals and signalHandler.                                              *)
(***************************************************************************)
\* Before sigaction a signal kills; later it is caught, and ends a waiting accept.
Signal(s) ==
  /\ ~Gone /\ sent < MaxSignals /\ sent' = sent + 1
  /\ \A i \in DOMAIN handlers : handlers[i].signal # s
  /\ IF main = "init"
     THEN main' = "killed" /\ UNCHANGED handlers
     ELSE /\ handlers' = Append(handlers, [signal |-> s, at |-> "request"])
          /\ main' = IF main = "accepting" THEN "interrupted" ELSE main
  /\ UNCHANGED <<flag, servinfo>>

\* The runs of the handler that are not themselves interrupted.
Running == IF Alone THEN {Len(handlers)} \cap DOMAIN handlers ELSE DOMAIN handlers

Request(i) ==
  /\ ~Gone /\ i \in Running /\ handlers[i].at = "request"
  /\ flag' = TRUE /\ handlers' = [handlers EXCEPT ![i].at = "free"]
  /\ UNCHANGED <<main, servinfo, sent>>

FreeAndReturn(i) ==
  /\ ~Gone /\ i \in Running /\ handlers[i].at = "free"
  /\ Free(main)
  /\ handlers' = [j \in 1..(Len(handlers) - 1) |-> handlers[IF j < i THEN j ELSE j + 1]]
  /\ UNCHANGED <<flag, sent>>

HandlerStep == \E i \in DOMAIN handlers : Request(i) \/ FreeAndReturn(i)

-----------------------------------------------------------------------------
(***************************************************************************)
(* main.  A failing call of the set-up leaves with exit(-1).               *)
(***************************************************************************)
Goes(from, to) == main = from /\ (Alone => handlers = << >>) /\ main' = to
Fails(from) == Goes(from, "exited")

\* parse_args, which may refuse its arguments, and sigaction.
ParseArgs == /\ Goes("init", "socket") \/ Fails("init")
             /\ UNCHANGED <<flag, servinfo, handlers, sent>>

\* socket and setsockopt, after freeaddrinfo, which finds no list.
OpenSocket == /\ Goes("socket", "resolve") \/ Fails("socket")
              /\ UNCHANGED <<flag, servinfo, handlers, sent>>

Resolve == /\ \/ Goes("resolve", "bind") /\ servinfo' = "ready"
              \/ Fails("resolve") /\ UNCHANGED servinfo
           /\ UNCHANGED <<flag, handlers, sent>>

\* A list that was freed may hold any address, or cannot be read.
Bind == /\ \/ Goes("bind", "fork") \/ Fails("bind")
           \/ servinfo = "freed" /\ Goes("bind", "crashed")
        /\ UNCHANGED <<flag, servinfo, handlers, sent>>

\* As a daemon the child goes on, as its parent otherwise.
Daemonize == /\ Goes("fork", "listen") \/ Fails("fork")
             /\ UNCHANGED <<flag, servinfo, handlers, sent>>

Listen == /\ Goes("listen", "clear") \/ Fails("listen")
          /\ UNCHANGED <<flag, servinfo, handlers, sent>>

ClearRequest == /\ Goes("clear", "accept") /\ flag' = FALSE
                /\ UNCHANGED <<servinfo, handlers, sent>>

\* Mutant: the request to leave is cleared just before the wait for the client.
AcceptClearing == /\ Goes("accept", "accepting") /\ flag' = FALSE
                  /\ UNCHANGED <<servinfo, handlers, sent>>

Accept == /\ Goes("accept", "accepting")
          /\ UNCHANGED <<flag, servinfo, handlers, sent>>

Connect == /\ Goes("accepting", "loop")
           /\ UNCHANGED <<flag, servinfo, handlers, sent>>

\* Without SA_RESTART, or when it fails: exit(-1).
AcceptFails == /\ Fails("interrupted") \/ Fails("accepting")
               /\ UNCHANGED <<flag, servinfo, handlers, sent>>

\* The main loop of the server ends and teardown() begins.
LeaveLoop == /\ flag /\ Goes("loop", "teardown")
             /\ UNCHANGED <<flag, servinfo, handlers, sent>>

\* Nothing says that it will: it waits for the listener and the server thread.
TeardownReturns == /\ Goes("teardown", "leaving")
                   /\ UNCHANGED <<flag, servinfo, handlers, sent>>

RequestAgain == /\ Goes("leaving", "freeing") /\ flag' = TRUE
                /\ UNCHANGED <<servinfo, handlers, sent>>

FreeAndLeave == /\ main = "freeing" /\ Free("exited")
                /\ UNCHANGED <<flag, handlers, sent>>

\* What main does without waiting for a client or for the threads of the server.
MainStep == \/ ParseArgs \/ OpenSocket \/ Resolve \/ Bind \/ Daemonize \/ Listen
            \/ ClearRequest \/ Accept \/ LeaveLoop \/ RequestAgain \/ FreeAndLeave
            \/ (main = "interrupted" /\ AcceptFails)

Next == \/ MainStep \/ HandlerStep \/ Connect \/ AcceptFails \/ TeardownReturns
        \/ \E s \in Signals : Signal(s)

Spec == Init /\ [][Next]_vars
FairSpec == Spec /\ WF_vars(MainStep) /\ WF_vars(HandlerStep)

-----------------------------------------------------------------------------
\* A signal that finds the process waiting for its client ends it, and one that finds
\* it serving its client gets it to teardown(), whatever other signals its handlers
\* interrupt; what follows a teardown() that returns is the end.  One that comes just
\* before accept, which it can not interrupt, leaves a request that main finds when a
\* client connects.  (One that comes before the main loop is cleared with
\* teardown_requested, and is none of these.)
SignalsEnd ==
  /\ (main = "interrupted" /\ handlers # << >>) ~> Gone
  /\ (main = "loop" /\ (handlers # << >> \/ flag)) ~> (Gone \/ main = "teardown")
  /\ main = "leaving" ~> Gone
  /\ (main = "accept" /\ handlers # << >>) ~> (Gone \/ (main = "accepting" /\ flag))
=============================================================================
