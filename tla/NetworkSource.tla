---------------------------- MODULE NetworkSource ----------------------------
(***************************************************************************)
(* config.NetworkSource (config/source_network.go): its goroutine, which   *)
(* reads configurations from a connection to the config server and         *)
(* reconnects once after a failure, and the goroutine of main that stops   *)
(* it.  The server, the network and the route manager are external.        *)
(*                                                                         *)
(* Configurations are numbered as the server publishes them.  A frame that *)
(* is malformed, does not parse or is refused by the route manager is Bad. *)
(***************************************************************************)
EXTENDS Naturals, Sequences

CONSTANTS
  Bad,         \* a frame that cannot be applied
  MaxConfigs,  \* bound: configurations the server publishes
  MaxFaults,   \* bound: bad frames, lost connections, silences, refusals
  MaxStream    \* bound: frames in flight

Versions == 0..MaxConfigs

ASSUME NetworkAssumption ==
  /\ MaxConfigs \in Nat /\ MaxFaults \in Nat /\ MaxStream \in Nat
  /\ Bad \notin Versions

VARIABLES
  target,            \* the configuration the server wants applied
  served,            \* the one it last sent on the current connection
  stream,            \* frames on their way on the current connection
  conn,              \* its state: "none", "open", "lost" (by the peer), "closed"
  deadline,          \* whether its reads are bounded in time
  faults,            \* faults so far
  pc,                \* control state of the goroutine
  initialConfigRead,
  secondChance,
  applied,           \* the configuration last passed to updateRoutes, 0: none
  stopChan,          \* tokens in stopChan
  spc,               \* the caller of Stop
  failures,          \* reads that failed since the last success (history)
  gaveUp,            \* why an error was sent (history)
  race               \* whether Stop may see, or saw, an old n.conn (history)

netVars  == <<target, served, stream, conn, deadline, faults>>
runVars  == <<pc, initialConfigRead, secondChance, applied, failures, gaveUp, race>>
stopVars == <<stopChan, spc>>
vars     == <<netVars, runVars, stopVars>>

Init ==
  /\ target = 0 /\ served = 0 /\ stream = <<>> /\ conn = "none" /\ deadline = FALSE /\ faults = 0
  /\ pc = "off" /\ initialConfigRead = FALSE /\ secondChance = FALSE
  /\ applied = 0 /\ failures = 0 /\ gaveUp = "none" /\ race = "none"
  /\ stopChan = 0 /\ spc = "idle"

-----------------------------------------------------------------------------
(***************************************************************************)
(* The server and the network.                                             *)
(***************************************************************************)
Publish ==
  /\ target < MaxConfigs
  /\ target' = target + 1
  /\ UNCHANGED <<served, stream, conn, deadline, faults, runVars, stopVars>>

\* The server sends what is newest to every connection, and every change.
Send ==
  /\ conn = "open"
  /\ served < target
  /\ Len(stream) < MaxStream
  /\ stream' = Append(stream, target)
  /\ served' = target
  /\ UNCHANGED <<target, conn, deadline, faults, runVars, stopVars>>

Fault == faults < MaxFaults /\ faults' = faults + 1

SendBad ==
  /\ Fault
  /\ conn = "open"
  /\ Len(stream) < MaxStream
  /\ stream' = Append(stream, Bad)
  /\ UNCHANGED <<target, served, conn, deadline, runVars, stopVars>>

Lose ==
  /\ Fault
  /\ conn = "open"
  /\ conn' = "lost"
  /\ UNCHANGED <<target, served, stream, deadline, runVars, stopVars>>

-----------------------------------------------------------------------------
(***************************************************************************)
(* Start, and the goroutine it starts.                                     *)
(***************************************************************************)
\* net.Dial: a fresh connection has no deadline.
Dial ==
  /\ conn' = "open"
  /\ stream' = <<>>
  /\ served' = 0
  /\ deadline' = FALSE

Start ==
  /\ pc = "off"
  /\ Dial
  /\ pc' = "select"
  /\ UNCHANGED <<target, faults, initialConfigRead, secondChance, applied, failures, gaveUp, race,
                 stopVars>>

RunStop ==
  /\ pc = "select"
  /\ stopChan = 1
  /\ stopChan' = 0
  /\ pc' = "done"
  /\ UNCHANGED <<netVars, initialConfigRead, secondChance, applied, failures, gaveUp, race, spc>>

\* An error for main; the goroutine ends when it has been received.
GiveUp(why) ==
  /\ pc' = "sending"
  /\ gaveUp' = why

RunDefault ==
  /\ pc = "select"
  /\ stopChan = 0
  /\ pc' = "arm"
  /\ UNCHANGED <<netVars, initialConfigRead, secondChance, applied, failures, gaveUp, race, stopVars>>

\* Arm the deadline while no configuration was read.
RunRead ==
  /\ pc = "arm"
  /\ initialConfigRead \/ conn # "closed"
  /\ pc' = "read"
  /\ deadline' = (deadline \/ ~initialConfigRead)
  /\ UNCHANGED <<target, served, stream, conn, faults, initialConfigRead, secondChance, applied,
                 failures, gaveUp, race, stopVars>>

\* It cannot be set on a connection that Stop has closed meanwhile.
SetDeadlineError ==
  /\ pc = "arm"
  /\ ~initialConfigRead /\ conn = "closed"
  /\ GiveUp("deadline")
  /\ UNCHANGED <<netVars, initialConfigRead, secondChance, applied, failures, race, stopVars>>

\* Mutant: the configuration read after reconnecting is not applied.
ApplyUnlessRetry ==
  /\ pc = "read"
  /\ conn # "closed"
  /\ stream # <<>> /\ Head(stream) # Bad
  /\ applied' = IF secondChance THEN applied ELSE Head(stream)
  /\ stream' = Tail(stream)
  /\ pc' = "applied"
  /\ failures' = 0
  /\ UNCHANGED <<target, served, conn, deadline, faults, initialConfigRead, secondChance, gaveUp,
                 race, stopVars>>

\* readAndApplyConfig succeeds.
Apply ==
  /\ pc = "read"
  /\ conn # "closed"
  /\ stream # <<>> /\ Head(stream) # Bad
  /\ applied' = Head(stream)
  /\ stream' = Tail(stream)
  /\ pc' = "applied"
  /\ failures' = 0
  /\ UNCHANGED <<target, served, conn, deadline, faults, initialConfigRead, secondChance, gaveUp, race, stopVars>>

Failed ==
  /\ pc' = "failed"
  /\ failures' = failures + 1
  /\ UNCHANGED <<initialConfigRead, secondChance, applied, gaveUp, race, stopVars>>

\* readAndApplyConfig fails: closed by Stop, a bad frame, the end of the
\* stream.
ReadError ==
  /\ pc = "read"
  /\ \/ conn = "closed"
     \/ stream # <<>> /\ Head(stream) = Bad
     \/ stream = <<>> /\ conn = "lost"
  /\ Failed
  /\ UNCHANGED netVars

\* The deadline passes before a whole frame has come.
ReadTimeout ==
  /\ pc = "read"
  /\ Fault
  /\ deadline
  /\ Failed
  /\ UNCHANGED <<target, served, stream, conn, deadline>>

\* Mutant: the deadline stays armed.
SucceededKeepDeadline ==
  /\ pc = "applied"
  /\ initialConfigRead \/ conn # "closed"
  /\ pc' = "select"
  /\ initialConfigRead' = TRUE
  /\ secondChance' = FALSE
  /\ UNCHANGED <<netVars, applied, failures, gaveUp, race, stopVars>>

\* Mutant: the second chance is used up for good.
SucceededKeepChance ==
  /\ pc = "applied"
  /\ initialConfigRead \/ conn # "closed"
  /\ pc' = "select"
  /\ initialConfigRead' = TRUE
  /\ deadline' = (deadline /\ initialConfigRead)
  /\ UNCHANGED <<target, served, stream, conn, faults, secondChance, applied, failures, gaveUp, race, stopVars>>

\* After a success: clear the deadline of the first read.
Succeeded ==
  /\ pc = "applied"
  /\ initialConfigRead \/ conn # "closed"
  /\ pc' = "select"
  /\ initialConfigRead' = TRUE
  /\ deadline' = (deadline /\ initialConfigRead)
  /\ secondChance' = FALSE
  /\ UNCHANGED <<target, served, stream, conn, faults, applied, failures, gaveUp, race, stopVars>>

ClearDeadlineError ==
  /\ pc = "applied"
  /\ ~initialConfigRead /\ conn = "closed"
  /\ initialConfigRead' = TRUE
  /\ GiveUp("deadline")
  /\ UNCHANGED <<netVars, secondChance, applied, failures, race, stopVars>>

\* After a failure: there is no third attempt.
SecondFailure ==
  /\ pc = "failed"
  /\ secondChance
  /\ GiveUp("read")
  /\ UNCHANGED <<netVars, initialConfigRead, secondChance, applied, failures, race, stopVars>>

\* reconnect: close, sleep, dial.
Reconnect ==
  /\ pc = "failed"
  /\ ~secondChance
  /\ conn' = "closed"
  /\ pc' = "sleep"
  /\ UNCHANGED <<target, served, stream, deadline, faults, initialConfigRead, secondChance, applied,
                 failures, gaveUp, race, stopVars>>

Redial ==
  /\ pc = "sleep"
  /\ Dial
  /\ secondChance' = TRUE
  /\ race' = IF spc = "returned" THEN race ELSE "possible"
  /\ pc' = "select"
  /\ UNCHANGED <<target, faults, initialConfigRead, applied, failures, gaveUp, stopVars>>

RedialError ==
  /\ pc = "sleep"
  /\ Fault
  /\ GiveUp("dial")
  /\ UNCHANGED <<target, served, stream, conn, deadline, initialConfigRead, secondChance, applied,
                 failures, race, stopVars>>

-----------------------------------------------------------------------------
(***************************************************************************)
(* The main goroutine: it receives an error, and it calls Stop once.       *)
(***************************************************************************)
Receive ==
  /\ spc = "idle"
  /\ pc = "sending"
  /\ pc' = "done"
  /\ UNCHANGED <<netVars, initialConfigRead, secondChance, applied, failures, gaveUp, race, stopVars>>

\* Mutant: the goroutine is not told to stop.
StopQuietly ==
  /\ spc = "idle" /\ pc # "off"
  /\ spc' = "closing"
  /\ UNCHANGED <<netVars, runVars, stopChan>>

Stop ==
  /\ spc = "idle" /\ pc # "off"
  /\ stopChan' = 1
  /\ spc' = "closing"
  /\ UNCHANGED <<netVars, runVars>>

StopClose ==
  /\ spc = "closing"
  /\ conn' = "closed"
  /\ spc' = "returned"
  /\ UNCHANGED <<target, served, stream, deadline, faults, runVars, stopChan>>

\* n.conn is read without synchronisation with reconnect: Stop may close the
\* connection that reconnect has closed already.
StopCloseOld ==
  /\ spc = "closing"
  /\ race = "possible"
  /\ race' = "missed"
  /\ spc' = "returned"
  /\ UNCHANGED <<netVars, pc, initialConfigRead, secondChance, applied, failures, gaveUp, stopChan>>

-----------------------------------------------------------------------------
RunStep ==
  \/ RunStop \/ RunDefault \/ RunRead \/ SetDeadlineError
  \/ Apply \/ ReadError \/ ReadTimeout
  \/ Succeeded \/ ClearDeadlineError
  \/ SecondFailure \/ Reconnect \/ Redial \/ RedialError

StopStep == StopClose \/ StopCloseOld

Next ==
  \/ Publish \/ Send \/ SendBad \/ Lose
  \/ Start \/ RunStep
  \/ Receive \/ Stop \/ StopStep

Spec == Init /\ [][Next]_vars

\* The goroutines are not starved and the server sends what it has.
FairSpec ==
  Spec /\ WF_vars(Start) /\ WF_vars(RunStep) /\ WF_vars(StopStep) /\ WF_vars(Send)

-----------------------------------------------------------------------------
(***************************************************************************)
(* docs/network-config.md: "After initial config is received, subsequent   *)
(* updates may take any amount of time".  No read times out any more, on   *)
(* the first connection or on a later one.                                 *)
(***************************************************************************)
NoTimeoutOnceConfigured ==
  pc = "read" /\ applied > 0 => ~deadline

(***************************************************************************)
(* docs/network-config.md: "Centauri will reconnect once and retry".       *)
(* Unless Stop was called, the source gives up only when it cannot connect *)
(* again or two reads in a row have failed, however many failures it       *)
(* recovered from before.                                                  *)
(***************************************************************************)
GivesUpAfterTwo ==
  pc = "sending" /\ spc = "idle" => gaveUp = "dial" \/ (gaveUp = "read" /\ failures = 2)

(***************************************************************************)
(* The routes follow the server: whatever frames and connections are lost, *)
(* once the server is quiet its newest configuration is in use, unless the *)
(* source has given up or was stopped.                                     *)
(***************************************************************************)
EventuallyCurrent ==
  <>[](applied = target \/ pc \in {"sending", "done"} \/ spc # "idle")

(***************************************************************************)
(* Stop ends the goroutine: also while it is blocked in a read without     *)
(* deadline or sleeps before it dials again.  It may be left behind with   *)
(* an error that nobody receives, or if Stop closed an old connection.     *)
(***************************************************************************)
StopEnds ==
  (spc = "returned") ~> (pc \in {"done", "sending"} \/ race = "missed")
=============================================================================
