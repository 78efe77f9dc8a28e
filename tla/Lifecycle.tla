------------------------------ MODULE Lifecycle ------------------------------
(***************************************************************************)
(* The life of a Centauri process that reads its routes from a file: the   *)
(* main goroutine (cmd/centauri/main.go, run), the goroutine of FileSource *)
(* (config/source_file.go), the servers of the frontend (frontend/tcp.go,  *)
(* frontend/tailscale.go, frontend/frontend.go) and the metrics server,    *)
(* with the channels between them and the signals of the operating system. *)
(*                                                                         *)
(* The contents of the file are numbered by the edits made to it.          *)
(***************************************************************************)
EXTENDS Naturals, Sequences

CONSTANTS
  Frontends,   \* subset of "tcp", "http" and "https", the last two on tailscale
  HasMetrics,  \* whether a metrics server is started
  MaxEdits,    \* bound: number of edits of the file
  MaxSignals,  \* bound: number of signals sent
  BadEdits     \* contents that do not parse or are refused by SetRoutes

Source  == "source"
Metrics == "metrics"
Servers == {"tls", "plain"}
Senders == Servers \cup {Source, Metrics}
Signals == {"HUP", "TERM"}

ASSUME LifecycleAssumption ==
  /\ HasMetrics \in BOOLEAN
  /\ MaxEdits \in Nat /\ MaxSignals \in Nat
  /\ BadEdits \subseteq 0..MaxEdits
  /\ Frontends \subseteq {"tcp", "http", "https"}

VARIABLES
  frontend,    \* the frontend in use
  file,        \* the contents of the file
  sent,        \* number of signals sent
  signalChan,  \* buffered signals, at most one
  mpc,         \* control state of run in main.go
  server,      \* state of each server, the metrics server included
  metricsChan, \* tokens in the channel that stops the metrics server
  updateChan,  \* tokens in FileSource.updateChan
  stopChan,    \* tokens in FileSource.stopChan
  fpc,         \* control state of FileSource.run
  read,        \* the contents it has read
  applied,     \* the contents last installed
  sending,     \* goroutines that are blocked sending to errChan
  wanted,      \* the contents at the last SIGHUP (history)
  termed       \* a SIGTERM or SIGINT has been received (history)

sourceVars == <<updateChan, stopChan, fpc, read, applied>>
serverVars == <<server, metricsChan>>
envVars    == <<frontend, file, sent, signalChan, wanted>>
vars       == <<envVars, mpc, serverVars, sourceVars, sending, termed>>

(***************************************************************************)
(* Types.  Once the process has ended, nothing runs.                       *)
(***************************************************************************)
TypeOK ==
  /\ frontend \in Frontends
  /\ file \in 0..MaxEdits /\ read \in 0..MaxEdits
  /\ applied \in 0..MaxEdits /\ wanted \in 0..MaxEdits
  /\ sent \in 0..MaxSignals
  /\ signalChan \subseteq Signals /\ \A s, t \in signalChan : s = t
  /\ mpc \in {"start", "serve", "metrics", "select", "termSource", "termFrontend",
              "errFrontend", "errSource", "exited"}
  /\ server \in [Servers \cup {Metrics} -> {"off", "running", "closed", "failed"}]
  /\ metricsChan \in 0..1 /\ updateChan \in 0..1 /\ stopChan \in 0..1
  /\ fpc \in {"off", "select", "open", "apply", "sending", "stopped"}
  /\ sending \subseteq Senders
  /\ termed \in BOOLEAN

\* main has called signal.Notify; file 0 was never edited.
Init ==
  /\ frontend \in Frontends
  /\ file = 0 /\ read = 0 /\ applied = 0 /\ wanted = 0
  /\ sent = 0 /\ signalChan = {}
  /\ mpc = "start"
  /\ server = [s \in Servers \cup {Metrics} |-> "off"]
  /\ metricsChan = 0 /\ updateChan = 0 /\ stopChan = 0
  /\ fpc = "off"
  /\ sending = {}
  /\ termed = FALSE

Alive == mpc # "exited"

-----------------------------------------------------------------------------
(***************************************************************************)
(* The environment.  signal.Notify drops a signal if the buffer is full.   *)
(***************************************************************************)
Edit ==
  /\ Alive
  /\ file < MaxEdits
  /\ file' = file + 1
  /\ UNCHANGED <<frontend, sent, signalChan, wanted, mpc, serverVars, sourceVars, sending, termed>>

Signal(s) ==
  /\ Alive
  /\ sent < MaxSignals
  /\ sent' = sent + 1
  /\ signalChan' = IF signalChan = {} THEN {s} ELSE signalChan
  /\ wanted' = IF s = "HUP" THEN file ELSE wanted
  /\ UNCHANGED <<frontend, file, mpc, serverVars, sourceVars, sending, termed>>

-----------------------------------------------------------------------------
(***************************************************************************)
(* The start of run in main.go.                                            *)
(***************************************************************************)
\* FileSource.Reload: the token is dropped if there is one.
Reload == updateChan' = 1

\* configSource.Start
StartSource ==
  /\ mpc = "start"
  /\ fpc' = "select"
  /\ Reload
  /\ mpc' = "serve"
  /\ UNCHANGED <<envVars, serverVars, stopChan, read, applied, sending, termed>>

\* The servers of a frontend in the order in which Serve starts them.
Order ==
  CASE frontend = "tcp"   -> <<"tls", "plain">>
    [] frontend = "http"  -> <<"plain">>
    [] frontend = "https" -> <<"plain", "tls">>

Serve ==
  /\ mpc = "serve"
  /\ \E i \in DOMAIN Order :
       /\ server[Order[i]] = "off"
       /\ \A j \in 1..(i - 1) : server[Order[j]] # "off"
       /\ server' = [server EXCEPT ![Order[i]] = "running"]
       /\ mpc' = IF i = Len(Order) THEN "metrics" ELSE "serve"
  /\ UNCHANGED <<envVars, metricsChan, sourceVars, sending, termed>>

\* Mutant: run stops the frontend after an error of Serve.
ServeErrorStops ==
  /\ mpc = "serve"
  /\ mpc' = "errFrontend"
  /\ UNCHANGED <<envVars, serverVars, sourceVars, sending, termed>>

\* A listener cannot be opened, perhaps the second one: run returns.
ServeError ==
  /\ mpc = "serve"
  /\ mpc' = "exited"
  /\ UNCHANGED <<envVars, serverVars, sourceVars, sending, termed>>

\* serveMetrics; whether its goroutine can listen shows later.
StartMetrics ==
  /\ mpc = "metrics"
  /\ server' = IF HasMetrics THEN [server EXCEPT ![Metrics] = "running"] ELSE server
  /\ mpc' = "select"
  /\ UNCHANGED <<envVars, metricsChan, sourceVars, sending, termed>>

-----------------------------------------------------------------------------
(***************************************************************************)
(* The loop of run in main.go.                                             *)
(***************************************************************************)
MainHup ==
  /\ mpc = "select"
  /\ "HUP" \in signalChan
  /\ signalChan' = {}
  /\ Reload
  /\ UNCHANGED <<frontend, file, sent, wanted, mpc, serverVars, stopChan, fpc, read, applied, sending, termed>>

MainTerm ==
  /\ mpc = "select"
  /\ "TERM" \in signalChan
  /\ signalChan' = {}
  /\ termed' = TRUE
  /\ metricsChan' = 1
  /\ mpc' = "termSource"
  /\ UNCHANGED <<frontend, file, sent, wanted, server, sourceVars, sending>>

\* The unbuffered errChan: the first goroutine that sends is received from.
MainError(g) ==
  /\ mpc = "select"
  /\ g \in sending
  /\ sending' = sending \ {g}
  /\ fpc' = IF g = Source THEN "select" ELSE fpc
  /\ mpc' = "errFrontend"
  /\ UNCHANGED <<envVars, serverVars, updateChan, stopChan, read, applied, termed>>

\* Mutant: a stopChan without buffer needs the goroutine to be listening.
StopUnbuffered ==
  /\ mpc \in {"termSource", "errSource"}
  /\ fpc = "select"
  /\ fpc' = "stopped"
  /\ mpc' = IF mpc = "termSource" THEN "termFrontend" ELSE "exited"
  /\ UNCHANGED <<envVars, serverVars, updateChan, stopChan, read, applied, sending, termed>>

\* FileSource.Stop
StopSource ==
  /\ mpc \in {"termSource", "errSource"}
  /\ stopChan = 0
  /\ stopChan' = 1
  /\ mpc' = IF mpc = "termSource" THEN "termFrontend" ELSE "exited"
  /\ UNCHANGED <<envVars, serverVars, updateChan, fpc, read, applied, sending, termed>>

\* Stop of the frontend: Server.Stop waits for the connections, but not forever.
StopFrontend ==
  /\ mpc \in {"termFrontend", "errFrontend"}
  /\ server' = [s \in DOMAIN server |->
                  IF s \in Servers /\ server[s] = "running" THEN "closed" ELSE server[s]]
  /\ mpc' = IF mpc = "termFrontend" THEN "exited" ELSE "errSource"
  /\ UNCHANGED <<envVars, metricsChan, sourceVars, sending, termed>>

-----------------------------------------------------------------------------
(***************************************************************************)
(* The servers: one that fails reports it, a closed one just ends.         *)
(***************************************************************************)
ServerError(s) ==
  /\ Alive
  /\ server[s] = "running"
  /\ server' = [server EXCEPT ![s] = "failed"]
  /\ sending' = sending \cup {s}
  /\ UNCHANGED <<envVars, mpc, metricsChan, sourceVars, termed>>

StopMetrics ==
  /\ Alive
  /\ server[Metrics] # "off"
  /\ metricsChan = 1
  /\ metricsChan' = 0
  /\ server' = IF server[Metrics] = "running" THEN [server EXCEPT ![Metrics] = "closed"] ELSE server
  /\ UNCHANGED <<envVars, mpc, sourceVars, sending, termed>>

-----------------------------------------------------------------------------
(***************************************************************************)
(* FileSource.run.                                                         *)
(***************************************************************************)
RunStop ==
  /\ Alive
  /\ fpc = "select"
  /\ stopChan = 1
  /\ stopChan' = 0
  /\ fpc' = "stopped"
  /\ UNCHANGED <<envVars, mpc, serverVars, updateChan, read, applied, sending, termed>>

RunUpdate ==
  /\ Alive
  /\ fpc = "select"
  /\ updateChan = 1
  /\ updateChan' = 0
  /\ fpc' = "open"
  /\ UNCHANGED <<envVars, mpc, serverVars, stopChan, read, applied, sending, termed>>

\* Mutant: what is requested while the routes are installed is forgotten.
ApplyAndDrain ==
  /\ Alive
  /\ fpc = "apply"
  /\ read \notin BadEdits
  /\ applied' = read
  /\ fpc' = "select"
  /\ updateChan' = 0
  /\ UNCHANGED <<envVars, mpc, serverVars, stopChan, read, sending, termed>>

\* The file is opened and read.
ReadFile ==
  /\ Alive
  /\ fpc = "open"
  /\ read' = file
  /\ fpc' = "apply"
  /\ UNCHANGED <<envVars, mpc, serverVars, updateChan, stopChan, applied, sending, termed>>

\* Parse and updateRoutes; the latter may block for long.
Apply ==
  /\ Alive
  /\ fpc = "apply"
  /\ read \notin BadEdits
  /\ applied' = read
  /\ fpc' = "select"
  /\ UNCHANGED <<envVars, mpc, serverVars, updateChan, stopChan, read, sending, termed>>

\* An error of opening, parsing or installing goes to errChan.
ApplyError ==
  /\ Alive
  /\ \/ fpc = "open"
     \/ fpc = "apply" /\ read \in BadEdits
  /\ fpc' = "sending"
  /\ sending' = sending \cup {Source}
  /\ UNCHANGED <<envVars, mpc, serverVars, updateChan, stopChan, read, applied, termed>>

-----------------------------------------------------------------------------
MainStep ==
  \/ StartSource \/ Serve \/ ServeError \/ StartMetrics
  \/ MainHup \/ MainTerm \/ (\E g \in Senders : MainError(g))
  \/ StopSource \/ StopFrontend

SourceStep == RunStop \/ RunUpdate \/ ReadFile \/ Apply \/ ApplyError

Next ==
  \/ MainStep
  \/ SourceStep
  \/ \E s \in Servers \cup {Metrics} : ServerError(s)
  \/ StopMetrics
  \/ Edit
  \/ \E s \in Signals : Signal(s)

Spec == Init /\ [][Next]_vars

\* The main goroutine and that of the source are not starved.
FairSpec == Spec /\ WF_vars(MainStep) /\ WF_vars(SourceStep)

-----------------------------------------------------------------------------
(***************************************************************************)
(* A reload is never lost, though HUPs are dropped when signalChan is full *)
(* and Reload drops its token when updateChan is full: until contents at   *)
(* least as new as at the last SIGHUP are installed, something that will   *)
(* read them is still pending, or the process is about to end.             *)
(***************************************************************************)
ReloadPending ==
  \/ applied >= wanted
  \/ mpc = "start"
  \/ signalChan # {}
  \/ updateChan = 1
  \/ fpc = "open"
  \/ fpc = "apply" /\ read >= wanted
  \/ fpc = "sending"
  \/ mpc \in {"termSource", "termFrontend", "errFrontend", "errSource", "exited"}

(***************************************************************************)
(* The same as a promise (CHANGELOG: a SIGHUP during a reload "will queue  *)
(* up another reload"): after a SIGHUP the contents of that moment or      *)
(* newer ones are installed, unless the process ends.                      *)
(***************************************************************************)
ReloadHappens ==
  \A v \in 0..MaxEdits : (wanted = v) ~> (applied >= v \/ mpc = "exited")

(***************************************************************************)
(* Shutdown cannot hang: once a SIGTERM is pending or a goroutine reports  *)
(* an error the process ends, whatever the other goroutines are doing and  *)
(* although nobody receives from errChan any more.                         *)
(***************************************************************************)
ShutdownCompletes ==
  ("TERM" \in signalChan \/ termed \/ sending # {}) ~> (mpc = "exited")

(***************************************************************************)
(* A frontend is only stopped when all its servers exist, although Serve   *)
(* may fail between two of them and errors may come at any time:           *)
(* tcpFrontend.Stop calls both servers without looking.                    *)
(***************************************************************************)
StopFindsServers ==
  mpc \in {"termFrontend", "errFrontend"} => \A i \in DOMAIN Order : server[Order[i]] # "off"
=============================================================================
