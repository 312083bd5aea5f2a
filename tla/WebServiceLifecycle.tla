------------------------- MODULE WebServiceLifecycle -------------------------
(***************************************************************************)
(* The trust agent's web service from construction to shutdown             *)
(* (src/service/webservice.go): newWebService, Start, which dispatches a   *)
(* goroutine running ListenAndServeTLS, requests served on their own       *)
(* goroutines, and Stop, which calls http.Server.Shutdown with a five-     *)
(* second deadline.  The process that calls them is not under src/: it     *)
(* constructs and starts the service, calls Stop on a signal and returns   *)
(* once Stop has.                                                          *)
(*                                                                         *)
(* net/http: ListenAndServeTLS returns http.ErrServerClosed when Shutdown  *)
(* has begun (before or while it serves), and any other error when it      *)
(* cannot bind or load the key pair.  Shutdown closes the listeners, then  *)
(* waits until no connection is active, or returns the context's error     *)
(* when the deadline passes first.  secLog.Fatalf ends the process         *)
(* (os.Exit(1)) at once, whatever the other goroutines are doing.  A       *)
(* request's handler chain is RequestPipeline; here it is one step.        *)
(***************************************************************************)
EXTENDS Naturals

CONSTANTS
    Ports,      \* values WebParameters.Port may have, 0 among them
    Conns       \* client connections

VARIABLES
    mainPc,     \* the caller: "init", "created", "refused", "started",
                \* "shutdown" (in Stop), "stopped" (Stop returned)
    server,     \* service.server # nil
    serve,      \* the serving goroutine: "none", "listen", "serving", or
                \* the error ListenAndServeTLS returned, "closed"
                \* (ErrServerClosed) or "failed"
    inShutdown, \* Shutdown has begun
    conns,      \* each connection: "none", "active" (a request is being
                \* handled) or "done"
    stopResult, \* what Stop returned: "none", "nil" or "deadline"
    exited      \* the process: "no", "fatal" (Fatalf), "returned"

vars == <<mainPc, server, serve, inShutdown, conns, stopResult, exited>>

Running == exited = "no"

TypeOK ==
    /\ mainPc \in {"init", "created", "refused", "started", "shutdown",
                   "stopped"}
    /\ server \in BOOLEAN
    /\ serve \in {"none", "listen", "serving", "closed", "failed"}
    /\ inShutdown \in BOOLEAN
    /\ conns \in [Conns -> {"none", "active", "done"}]
    /\ stopResult \in {"none", "nil", "deadline"}
    /\ exited \in {"no", "fatal", "returned"}

-----------------------------------------------------------------------------
\* newWebService: a zero port is refused; otherwise the routes are
\* registered and the service has no server yet.
NewWebService(port) ==
    /\ Running
    /\ mainPc = "init"
    /\ mainPc' = IF port = 0 THEN "refused" ELSE "created"
    /\ UNCHANGED <<server, serve, inShutdown, conns, stopResult, exited>>

\* Start: the http log file (opened or not), service.server set, the
\* serving goroutine dispatched, and nil returned at once.
Start ==
    /\ Running
    /\ mainPc = "created"
    /\ mainPc' = "started"
    /\ server' = TRUE
    /\ serve' = "listen"
    /\ UNCHANGED <<inShutdown, conns, stopResult, exited>>

\* The goroutine's ListenAndServeTLS: ErrServerClosed once Shutdown has
\* begun, a bind or key-pair error, or the accept loop.
ListenAndServeTLS ==
    /\ Running
    /\ serve = "listen"
    /\ serve' \in IF inShutdown THEN {"closed"} ELSE {"serving", "failed"}
    /\ UNCHANGED <<mainPc, server, inShutdown, conns, stopResult, exited>>

\* The accept loop hands a new connection to its own goroutine.
Accept(c) ==
    /\ Running
    /\ serve = "serving"
    /\ ~inShutdown
    /\ conns[c] = "none"
    /\ conns' = [conns EXCEPT ![c] = "active"]
    /\ UNCHANGED <<mainPc, server, serve, inShutdown, stopResult, exited>>

\* errorHandler(requiresPermission(...)) writes the reply and returns.
Reply(c) ==
    /\ Running
    /\ conns[c] = "active"
    /\ conns' = [conns EXCEPT ![c] = "done"]
    /\ UNCHANGED <<mainPc, server, serve, inShutdown, stopResult, exited>>

\* if err := ListenAndServeTLS(...); err != nil { secLog.Fatalf(...) }:
\* every error, ErrServerClosed included, ends the process.
FatalOnServeError ==
    /\ Running
    /\ serve \in {"closed", "failed"}
    /\ exited' = "fatal"
    /\ UNCHANGED <<mainPc, server, serve, inShutdown, conns, stopResult>>

\* Stop: without a server it returns nil; otherwise Shutdown begins and
\* closes the listener, so the accept loop returns ErrServerClosed.
Stop ==
    /\ Running
    /\ mainPc \in {"created", "started"}
    /\ \/ /\ ~server
          /\ mainPc' = "stopped"
          /\ stopResult' = "nil"
          /\ UNCHANGED <<serve, inShutdown>>
       \/ /\ server
          /\ mainPc' = "shutdown"
          /\ inShutdown' = TRUE
          /\ serve' = IF serve = "serving" THEN "closed" ELSE serve
          /\ UNCHANGED stopResult
    /\ UNCHANGED <<server, conns, exited>>

\* Shutdown returns nil once no connection is active, or the context's
\* error when the five seconds pass with a request still being handled;
\* Stop returns what Shutdown did.
ShutdownReturns ==
    /\ Running
    /\ mainPc = "shutdown"
    /\ \/ \A c \in Conns : conns[c] # "active"
          /\ stopResult' = "nil"
       \/ \E c \in Conns : conns[c] = "active"
          /\ stopResult' = "deadline"
    /\ mainPc' = "stopped"
    /\ UNCHANGED <<server, serve, inShutdown, conns, exited>>

\* The caller returns after Stop, or after newWebService refused.
MainReturns ==
    /\ Running
    /\ mainPc \in {"stopped", "refused"}
    /\ exited' = "returned"
    /\ UNCHANGED <<mainPc, server, serve, inShutdown, conns, stopResult>>

Init ==
    /\ mainPc = "init"
    /\ server = FALSE
    /\ serve = "none"
    /\ inShutdown = FALSE
    /\ conns = [c \in Conns |-> "none"]
    /\ stopResult = "none"
    /\ exited = "no"

\* Once the process has exited no step follows.
Next ==
    \/ \E p \in Ports : NewWebService(p)
    \/ Start
    \/ ListenAndServeTLS
    \/ \E c \in Conns : Accept(c) \/ Reply(c)
    \/ FatalOnServeError
    \/ Stop
    \/ ShutdownReturns
    \/ MainReturns

Spec == Init /\ [][Next]_vars

-----------------------------------------------------------------------------
(* Properties *)

=============================================================================
