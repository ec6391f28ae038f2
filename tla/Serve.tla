------------------------------- MODULE Serve -------------------------------
(***************************************************************************)
(* The serve command of cmd/gateshell-agent/main.go around the collector   *)
(* loop: the signal context, the goroutines of the collector and of the    *)
(* API, whose results meet in errCh, ListenAndServe of internal/api/api.go *)
(* with its bounded Shutdown, the connections it serves, and the store     *)
(* that is closed last.                                                    *)
(*                                                                         *)
(* The goroutines that call SetInterval are the handlers of PATCH          *)
(* /api/v1/config; what a request does otherwise is not told apart here,   *)
(* but that a stream, unlike other requests, ends only when its client     *)
(* leaves. Once serve returns, the process is gone.                        *)
(***************************************************************************)
EXTENDS CollectorLoop

VARIABLES
  hung,         \* gather waits for a command that has not returned
  conn,         \* what each connection is doing; Setters are the connections
  listener,     \* srv.ListenAndServe, on a goroutine of its own
  api,          \* where api.ListenAndServe is
  results,      \* what the two components have sent to errCh
  drained,      \* those that serve has received
  serve,        \* where serve itself is
  store         \* the sample store: "open" or "closed"

collectVars == <<vars, hung>>
serverVars  == <<conn, listener, api>>
mainVars    == <<results, drained, serve, store>>
serveVars   == <<collectVars, serverVars, mainVars>>

Components == {"collector", "api"}
Pending    == "pending"      \* nothing sent yet

Active == {c \in Setters : conn[c] \in {"patch", "request", "stream"}}

ServeTypeOK ==
  /\ TypeOK
  /\ hung \in BOOLEAN /\ (hung => pc = "gather")
  /\ conn \in [Setters -> {"none", "idle", "patch", "request", "stream"}]
  /\ \A c \in Setters : setter[c] = "wake" => conn[c] = "request"
  /\ listener \in {"starting", "accepting", "failed", "closed"}
  /\ api \in {"select", "shutdown", "returned"}
  /\ results \in [Components -> {Pending, "canceled", "nil", "deadline", "listener error"}]
  /\ drained \subseteq {p \in Components : results[p] # Pending}
  /\ serve \in {"signal", "drain", "exited"}
  /\ store \in {"open", "closed"}

ServeInit ==
  /\ Init
  /\ hung = FALSE
  /\ conn = [c \in Setters |-> "none"]
  /\ listener = "starting"
  /\ api = "select"
  /\ results = [p \in Components |-> Pending]
  /\ drained = {}
  /\ serve = "signal"
  /\ store = "open"

running == serve # "exited"

Move(c, from, to) ==
  /\ conn[c] = from
  /\ conn' = [conn EXCEPT ![c] = to]

-----------------------------------------------------------------------------
(* The HTTP server                                                         *)

\* The port is bound, or it is taken; a listener may also fail later.
Bind ==
  /\ listener = "starting"
  /\ listener' = "accepting"
  /\ UNCHANGED <<collectVars, conn, api, mainVars>>

ListenerFails ==
  /\ listener \in {"starting", "accepting"}
  /\ listener' = "failed"
  /\ UNCHANGED <<collectVars, conn, api, mainVars>>

Accept(c) ==
  /\ listener = "accepting"
  /\ Move(c, "none", "idle")
  /\ UNCHANGED <<collectVars, listener, api, mainVars>>

\* A connection stays good for requests when the listener has failed.
Request(c) ==
  /\ \E kind \in {"patch", "request", "stream"} : Move(c, "idle", kind)
  /\ UNCHANGED <<collectVars, listener, api, mainVars>>

\* A PATCH handler calls SetInterval: the store under the mutex, then the send.
Patch(c) ==
  /\ Move(c, "patch", "request")
  /\ \E d \in Intervals : StoreInterval(c, d)
  /\ UNCHANGED <<hung, listener, api, mainVars>>

Wake(c) ==
  /\ SendWake(c)
  /\ UNCHANGED <<hung, serverVars, mainVars>>

\* The handler returns; a server that is shutting down closes the connection.
Answer(c) ==
  /\ setter[c] = "idle"
  /\ Move(c, "request", IF listener = "closed" THEN "none" ELSE "idle")
  /\ UNCHANGED <<collectVars, listener, api, mainVars>>

\* The client of a stream, or of an idle connection, leaves.
HangUp(c) ==
  /\ Move(c, "idle", "none") \/ Move(c, "stream", "none")
  /\ UNCHANGED <<collectVars, listener, api, mainVars>>

-----------------------------------------------------------------------------
(* api.ListenAndServe                                                      *)

Return(p, err) == results' = [results EXCEPT ![p] = err]

\* ctx.Done(): Shutdown closes the listener and the idle connections.
BeginShutdown ==
  /\ api = "select" /\ cancelled
  /\ api' = "shutdown"
  /\ listener' = "closed"
  /\ conn' = [c \in Setters |-> IF conn[c] = "idle" THEN "none" ELSE conn[c]]
  /\ UNCHANGED <<collectVars, mainVars>>

\* Every connection is done.
ShutdownCompletes ==
  /\ api = "shutdown" /\ Active = {}
  /\ api' = "returned"
  /\ Return("api", "nil")
  /\ UNCHANGED <<collectVars, conn, listener, drained, serve, store>>

\* Mutant: a context without a deadline.
ShutdownUnlimited ==
  /\ api = "shutdown" /\ Active = {}
  /\ api' = "returned"
  /\ Return("api", "deadline")
  /\ UNCHANGED <<collectVars, conn, listener, drained, serve, store>>

\* The five seconds are over: what is still active is left alone.
ShutdownTimesOut ==
  /\ api = "shutdown"
  /\ api' = "returned"
  /\ Return("api", "deadline")
  /\ UNCHANGED <<collectVars, conn, listener, drained, serve, store>>

\* The listener's error ends ListenAndServe, without a Shutdown.
ListenAndServeFails ==
  /\ api = "select" /\ listener = "failed"
  /\ api' = "returned"
  /\ Return("api", "listener error")
  /\ UNCHANGED <<collectVars, conn, listener, drained, serve, store>>

-----------------------------------------------------------------------------
(* The collector goroutine and serve                                       *)

Collect ==
  /\ ~hung
  /\ Loop
  /\ UNCHANGED <<hung, serverVars, mainVars>>

\* The service checkers run docker, systemctl, pm2 and crontab without a
\* timeout and without the context: gather waits for each to return, if it does.
CommandHangs ==
  /\ pc = "gather"
  /\ ~hung /\ hung' = TRUE
  /\ UNCHANGED <<vars, serverVars, mainVars>>

CommandReturns ==
  /\ hung /\ hung' = FALSE
  /\ Gather
  /\ UNCHANGED <<serverVars, mainVars>>

CollectorReturns ==
  /\ pc = "done" /\ results["collector"] = Pending
  /\ Return("collector", "canceled")
  /\ UNCHANGED <<collectVars, serverVars, drained, serve, store>>

\* SIGINT or SIGTERM.
Signal ==
  /\ Cancel
  /\ UNCHANGED <<hung, serverVars, mainVars>>

NoticeSignal ==
  /\ serve = "signal" /\ cancelled
  /\ serve' = "drain"
  /\ UNCHANGED <<collectVars, serverVars, results, drained, store>>

Drain(p) ==
  /\ serve = "drain" /\ p \notin drained
  /\ results[p] # Pending
  /\ drained' = drained \cup {p}
  /\ UNCHANGED <<collectVars, serverVars, results, serve, store>>

\* Mutant: one result is taken for both.
DrainedOne == drained # {}

DrainedBoth == drained = Components

\* The deferred Close; handlers that were left alone run on until Exit.
CloseStore ==
  /\ serve = "drain" /\ DrainedBoth
  /\ store = "open" /\ store' = "closed"
  /\ UNCHANGED <<collectVars, serverVars, results, drained, serve>>

Exit ==
  /\ store = "closed"
  /\ serve' = "exited"
  /\ UNCHANGED <<collectVars, serverVars, results, drained, store>>

-----------------------------------------------------------------------------
Shutdown == BeginShutdown \/ ShutdownCompletes \/ ShutdownTimesOut \/ ListenAndServeFails

Main == CollectorReturns \/ NoticeSignal \/ (\E p \in Components : Drain(p)) \/ CloseStore \/ Exit

Command == CommandHangs \/ CommandReturns

Connection(c) == Accept(c) \/ Request(c) \/ Patch(c) \/ Wake(c) \/ Answer(c) \/ HangUp(c)

ServeNext ==
  /\ running
  /\ Bind \/ ListenerFails \/ Shutdown \/ Collect \/ Command \/ Signal \/ Main
       \/ \E c \in Setters : Connection(c)

ServeSpec == ServeInit /\ [][ServeNext]_serveVars

(***************************************************************************)
(* Goroutines that can run do, a handler that is not a stream returns,     *)
(* timers expire, and the select of wait, which picks among its ready      *)
(* cases at random, cannot pass over ctx.Done() for ever. Nobody has to    *)
(* connect, to hang up, to send a signal, or to bind the port, and no      *)
(* command has to return: while one hangs, Collect is disabled.            *)
(***************************************************************************)
FairServeSpec ==
  /\ ServeSpec
  /\ WF_serveVars(running /\ Collect)
  /\ SF_serveVars(running /\ Collect /\ Stop)
  /\ WF_serveVars(running /\ Shutdown)
  /\ WF_serveVars(running /\ Main)
  /\ \A c \in Setters : WF_serveVars(running /\ (Patch(c) \/ Wake(c) \/ Answer(c)))

-----------------------------------------------------------------------------
(* Properties                                                              *)

\* Collection resumes: if from some point on the interval stays positive and
\* the context alive, Run gathers samples again and again, unless a command
\* that gather runs never returns, which stops sampling for good.
KeepsCollecting ==
  <>[](Positive(interval) /\ ~cancelled) => []<>(pc = "fanout") \/ <>[]hung

\* "runs until SIGINT/SIGTERM": a signal ends serve, whether the loop is
\* collecting, waiting or paused, whatever requests do, with streams whose
\* clients never leave, and with an API that had failed long before. The one
\* thing that keeps it alive is a command of gather that never returns: Run
\* looks at its context only in wait, and serve waits for Run.
SignalEndsServe == (cancelled ~> serve = "exited") \/ <>[]hung

\* The store is closed behind its users' backs only if the API reported an
\* error: Run has returned, and a request still being served has had the
\* five seconds of Shutdown, or its listener had failed.
StoreOutlivesUsers ==
  store = "closed" => pc = "done" /\ (Active = {} \/ results["api"] # "nil")

\* A handler returns although nobody may be receiving the wake-up it sends
\* (the loop busy in a sink, hung in a command, or gone after the signal).
HandlersReturn ==
  \A c \in Setters : conn[c] \in {"patch", "request"} ~>
                       conn[c] \in {"none", "idle"} \/ serve = "exited"
=============================================================================
