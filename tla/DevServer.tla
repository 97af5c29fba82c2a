------------------------------ MODULE DevServer ------------------------------
(***************************************************************************)
(* serve() of celery_cnc/web/devserver.py and the socketserver calls it    *)
(* makes.  The main thread builds the server, starts a watcher thread when *)
(* a shutdown event is given, runs serve_forever() inside try/except       *)
(* KeyboardInterrupt/finally, and in the finally calls shutdown() and      *)
(* server_close().  The watcher waits for the event and calls shutdown().  *)
(*                                                                         *)
(* BaseServer keeps two pieces of state the threads share:                 *)
(* __shutdown_request, a flag shutdown() sets and the serve_forever loop    *)
(* tests, which serve_forever resets on exit; and __is_shut_down, an Event  *)
(* created clear, cleared when serve_forever starts and set when it exits;  *)
(* shutdown() waits for it.  A KeyboardInterrupt reaches the main thread    *)
(* between bytecodes, also while it waits on an Event.                      *)
(***************************************************************************)
EXTENDS Naturals

CONSTANTS
  EventModes,       \* whether serve() runs under the supervisor, which passes a
                    \* shutdown_event, or from main(): a subset of BOOLEAN
  InterruptPoints,  \* main thread positions a KeyboardInterrupt may hit
  MaxInterrupts     \* bound on the interrupts delivered

(* Main thread positions: before the try of serve(); inside it, with         *)
(* serve_forever called but its own try not yet entered; in the loop; in   *)
(* serve()'s finally; waiting inside shutdown(); closing; returned; and    *)
(* left by an exception; "killed" is the process terminated by the          *)
(* supervisor.                                                             *)
MainPcs == {"start", "entering", "serving", "finally", "waiting", "closing",
            "done", "crashed", "killed"}
Ended == {"done", "crashed", "killed"}
WatcherPcs == {"none", "waitEvent", "waitDown", "done"}

VARIABLES
  withEvent,    \* serve() was given a shutdown_event (the supervisor's call)
  mpc,          \* main thread position
  wpc,          \* watcher thread position
  request,      \* BaseServer.__shutdown_request
  isShutDown,   \* BaseServer.__is_shut_down is set
  event,        \* the shutdown event is set
  interrupts,   \* KeyboardInterrupts delivered so far
  sup           \* the supervisor's view of this child: running, joining, stopped

vars == <<withEvent, mpc, wpc, request, isShutDown, event, interrupts, sup>>

Init ==
  /\ withEvent \in EventModes
  /\ mpc = "start"
  /\ wpc = "none"
  /\ request = FALSE
  /\ isShutDown = FALSE
  /\ event = FALSE
  /\ interrupts = 0
  /\ sup = "running"

(* Lines 42-59: build the app and the server, start the watcher thread if  *)
(* there is a shutdown event, enter the try and call serve_forever().      *)
StartServer ==
  /\ mpc = "start"
  /\ mpc' = "entering"
  /\ wpc' = IF withEvent THEN "waitEvent" ELSE "none"
  /\ UNCHANGED <<sup, withEvent, request, isShutDown, event, interrupts>>

(* serve_forever: clear __is_shut_down and enter its try. *)
EnterServeForever ==
  /\ mpc = "entering"
  /\ isShutDown' = FALSE
  /\ mpc' = "serving"
  /\ UNCHANGED <<sup, withEvent, wpc, request, event, interrupts>>

(* The loop sees __shutdown_request and breaks; its finally resets the     *)
(* request and sets __is_shut_down; serve() goes on to its finally.        *)
ServeLoopExit ==
  /\ mpc = "serving"
  /\ request
  /\ request' = FALSE
  /\ isShutDown' = TRUE
  /\ mpc' = "finally"
  /\ UNCHANGED <<sup, withEvent, wpc, event, interrupts>>

(* serve()'s finally: httpd.shutdown() sets the request, then waits. *)
MainShutdown ==
  /\ mpc = "finally"
  /\ request' = TRUE
  /\ mpc' = "waiting"
  /\ UNCHANGED <<sup, withEvent, wpc, isShutDown, event, interrupts>>

(* The wait in shutdown() returns once __is_shut_down is set. *)
MainShutdownReturns ==
  /\ mpc = "waiting"
  /\ isShutDown
  /\ mpc' = "closing"
  /\ UNCHANGED <<sup, withEvent, wpc, request, isShutDown, event, interrupts>>

(* httpd.server_close(); serve() returns. *)
ServerClose ==
  /\ mpc = "closing"
  /\ mpc' = "done"
  /\ UNCHANGED <<sup, withEvent, wpc, request, isShutDown, event, interrupts>>

(* A KeyboardInterrupt in the main thread.  Before the try of serve() it   *)
(* leaves serve(); between that try and serve_forever's own try it goes to *)
(* the except and the finally of serve() with __is_shut_down still clear;  *)
(* in the loop it runs serve_forever's finally first; anywhere in serve()'s *)
(* finally it leaves serve().                                              *)
Interrupt ==
  /\ interrupts < MaxInterrupts
  /\ mpc \in InterruptPoints
  /\ interrupts' = interrupts + 1
  /\ CASE mpc \in {"start", "finally", "waiting", "closing"} ->
              mpc' = "crashed" /\ UNCHANGED <<request, isShutDown>>
       [] mpc = "entering" -> mpc' = "finally" /\ UNCHANGED <<request, isShutDown>>
       [] mpc = "serving"  -> /\ mpc' = "finally"
                              /\ request' = FALSE
                              /\ isShutDown' = TRUE
  /\ UNCHANGED <<sup, withEvent, wpc, event>>

(* The supervisor stops its children: it sets the shutdown event and      *)
(* starts joining with a grace period (spec 4.4).                          *)
SupStop ==
  /\ withEvent
  /\ sup = "running"
  /\ event' = TRUE
  /\ sup' = "joining"
  /\ UNCHANGED <<withEvent, mpc, wpc, request, isShutDown, interrupts>>

(* The join returns: the child process has ended. *)
SupJoined ==
  /\ sup = "joining"
  /\ mpc \in Ended
  /\ sup' = "stopped"
  /\ UNCHANGED <<withEvent, mpc, wpc, request, isShutDown, event, interrupts>>

(* The grace period expires with the child still alive: it is terminated   *)
(* and a warning logged.  How long the child takes is not modelled, so     *)
(* this may happen whenever the child is alive.                            *)
SupKill ==
  /\ sup = "joining"
  /\ mpc \notin Ended
  /\ mpc' = "killed"
  /\ sup' = "stopped"
  /\ UNCHANGED <<withEvent, wpc, request, isShutDown, event, interrupts>>

(* _wait_for_shutdown calling server_close() where it should call shutdown(). *)
WatcherCloses ==
  /\ wpc = "waitEvent"
  /\ event
  /\ wpc' = "done"
  /\ UNCHANGED <<sup, withEvent, mpc, request, isShutDown, event, interrupts>>
(* _wait_for_shutdown: event.wait() returns, httpd.shutdown() sets the     *)
(* request and waits.                                                      *)
WatcherShutdown ==
  /\ wpc = "waitEvent"
  /\ event
  /\ request' = TRUE
  /\ wpc' = "waitDown"
  /\ UNCHANGED <<sup, withEvent, mpc, isShutDown, event, interrupts>>

(* The watcher's shutdown() returns once __is_shut_down is set. *)
WatcherDone ==
  /\ wpc = "waitDown"
  /\ isShutDown
  /\ wpc' = "done"
  /\ UNCHANGED <<sup, withEvent, mpc, request, isShutDown, event, interrupts>>

(* The process has ended and, under the supervisor, has been reaped. *)
Terminated ==
  /\ mpc \in Ended
  /\ withEvent => sup = "stopped"
  /\ UNCHANGED vars

MainStep ==
  \/ StartServer \/ EnterServeForever \/ ServeLoopExit
  \/ MainShutdown \/ MainShutdownReturns \/ ServerClose

WatcherStep == WatcherShutdown \/ WatcherDone

SupStep == SupJoined \/ SupKill

Next ==
  \/ MainStep
  \/ WatcherStep
  \/ Interrupt
  \/ SupStop
  \/ SupStep
  \/ Terminated

(* The threads are scheduled by the OS and the supervisor's join returns  *)
(* or times out: each makes progress when it can.  Stopping and Ctrl-C are *)
(* the user's and get no fairness.                                         *)
Spec == Init /\ [][Next]_vars /\ WF_vars(MainStep) /\ WF_vars(WatcherStep)
                             /\ WF_vars(SupStep)

-----------------------------------------------------------------------------
(* Once the shutdown event is set or a KeyboardInterrupt has arrived,      *)
(* serve() eventually returns or raises: the dev server never hangs on the *)
(* supervisor's stop or on Ctrl-C.                                         *)
ServerEnds ==
  (event \/ interrupts > 0) ~> (mpc \in Ended)

=============================================================================
