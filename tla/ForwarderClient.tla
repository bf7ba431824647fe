-------------------------- MODULE ForwarderClient --------------------------
(***************************************************************************)
(* The client side of audio_forwarder, src/src/client.rs: the processes    *)
(* that send to a server, receive from it or ask for its device list.      *)
(*                                                                         *)
(* A process opens one connection and has its name.  It sees of the server *)
(* what the TCP stream shows: a response (answered) and the end of the     *)
(* stream (ended).  receive() and send() differ in which end of the audio  *)
(* they run; what they do with the connection is the same.                 *)
(***************************************************************************)
CONSTANTS
  Conns   \* the processes, one connection each

VARIABLES
  goal,      \* what a process was started for: "audio" or "list"
  phase,     \* where it stands
  task,      \* its UDP task: "none", "running" or "done"
  told,      \* the processes that have set their cancellation token
  spent,     \* the processes whose select! has taken the UDP task's result
  closed,    \* the processes that have closed (their half of) the connection
  answered,  \* the connections on which the server has sent its response
  ended      \* the connections the server has closed

clientVars == <<goal, phase, task, told, spent, closed>>

Phases == {"idle", "waiting", "streaming", "closing", "joining", "exited", "panicked"}

TypeOK ==
  /\ goal \in [Conns -> {"audio", "list"}]
  /\ phase \in [Conns -> Phases]
  /\ task \in [Conns -> {"none", "running", "done"}]
  /\ told \subseteq Conns
  /\ spent \subseteq Conns
  /\ closed \subseteq Conns

Init ==
  /\ goal \in [Conns -> {"audio", "list"}]
  /\ phase = [c \in Conns |-> "idle"]
  /\ task = [c \in Conns |-> "none"]
  /\ told = {}
  /\ spent = {}
  /\ closed = {}

\* The process is no more.
Over(c) == phase[c] \in {"exited", "panicked"}

-----------------------------------------------------------------------------
\* The connection is made and the request sent.
Start(c) ==
  /\ phase[c] = "idle"
  /\ phase' = [phase EXCEPT ![c] = "waiting"]
  /\ UNCHANGED <<goal, task, told, spent, closed>>

\* The process exits, and its sockets are closed with it.
Exit(c) ==
  /\ phase' = [phase EXCEPT ![c] = "exited"]
  /\ closed' = closed \cup {c}
  /\ UNCHANGED <<goal, task, told, spent>>

\* SERVER_TIMEOUT passes before the response is there.  list_remote() has no timeout.
TimesOut(c) ==
  /\ phase[c] = "waiting"
  /\ goal[c] = "audio"
  /\ Exit(c)

\* The server closes the connection without a response.
NoResponse(c) ==
  /\ phase[c] = "waiting"
  /\ c \in ended \ answered
  /\ Exit(c)

\* A list is printed; a response that names a configuration the client does not take
\* is an error.
ResponseIsLast(c) ==
  /\ phase[c] = "waiting"
  /\ c \in answered
  /\ Exit(c)

\* Before it streams, Ctrl-C kills the process.
Killed(c) ==
  /\ phase[c] = "waiting"
  /\ Exit(c)

\* The response is accepted: the UDP task starts.
Streams(c) ==
  /\ phase[c] = "waiting"
  /\ goal[c] = "audio"
  /\ c \in answered
  /\ phase' = [phase EXCEPT ![c] = "streaming"]
  /\ task' = [task EXCEPT ![c] = "running"]
  /\ UNCHANGED <<goal, told, spent, closed>>

-----------------------------------------------------------------------------
(***************************************************************************)
(* The select! of a process that streams.                                  *)
(***************************************************************************)

\* Mutant of ToldToStop: leaves the select! without setting the token.
ToldToStopSilently(c) ==
  /\ phase[c] = "streaming"
  /\ phase' = [phase EXCEPT ![c] = "closing"]
  /\ UNCHANGED <<goal, task, told, spent, closed>>

\* Anything on the stream, its end included, means that the server is through; so
\* does Ctrl-C for the client.  The UDP task is told.
ToldToStop(c) ==
  /\ phase[c] = "streaming"
  /\ phase' = [phase EXCEPT ![c] = "closing"]
  /\ told' = told \cup {c}
  /\ UNCHANGED <<goal, task, spent, closed>>

ServerEnds(c) == c \in ended /\ ToldToStop(c)

CtrlC(c) == ToldToStop(c)

\* The UDP task's handle is ready, the task having failed: select! takes its result.
TaskResult(c) ==
  /\ phase[c] = "streaming"
  /\ task[c] = "done"
  /\ phase' = [phase EXCEPT ![c] = "closing"]
  /\ spent' = spent \cup {c}
  /\ UNCHANGED <<goal, task, told, closed>>

\* shutdown() of the stream's sending half; when it fails the process exits at once
\* and takes the UDP task with it.
Shutdown(c) ==
  /\ phase[c] = "closing"
  /\ phase' = [phase EXCEPT ![c] = "joining"]
  /\ closed' = closed \cup {c}
  /\ UNCHANGED <<goal, task, told, spent>>

ShutdownFails(c) ==
  /\ phase[c] = "closing"
  /\ c \in ended
  /\ phase' = [phase EXCEPT ![c] = "exited"]
  /\ closed' = closed \cup {c}
  /\ task' = [task EXCEPT ![c] = "done"]
  /\ UNCHANGED <<goal, told, spent>>

\* udp_task_handle.await: a handle whose result was taken before panics.
Join(c) ==
  /\ phase[c] = "joining"
  /\ task[c] = "done"
  /\ phase' = [phase EXCEPT ![c] = IF c \in spent THEN "panicked" ELSE "exited"]
  /\ UNCHANGED <<goal, task, told, spent, closed>>

\* The UDP task sees the token, or fails by itself.
TaskStops(c) ==
  /\ task[c] = "running"
  /\ c \in told
  /\ task' = [task EXCEPT ![c] = "done"]
  /\ UNCHANGED <<goal, phase, told, spent, closed>>

TaskFails(c) ==
  /\ task[c] = "running"
  /\ task' = [task EXCEPT ![c] = "done"]
  /\ UNCHANGED <<goal, phase, told, spent, closed>>

-----------------------------------------------------------------------------
\* What a process does that has started.
Step(c) ==
  \/ TimesOut(c) \/ NoResponse(c) \/ ResponseIsLast(c) \/ Killed(c) \/ Streams(c)
  \/ ServerEnds(c) \/ CtrlC(c) \/ TaskResult(c)
  \/ Shutdown(c) \/ ShutdownFails(c) \/ Join(c) \/ TaskStops(c) \/ TaskFails(c)

(***************************************************************************)
(* A process goes on when it can: its timeout passes, what arrives is      *)
(* read, its UDP task looks at the token between packets.  Nobody has to   *)
(* press Ctrl-C, and no task has to fail.                                  *)
(***************************************************************************)
Fairness ==
  \A c \in Conns :
    /\ WF_clientVars(TimesOut(c))
    /\ WF_clientVars(NoResponse(c))
    /\ WF_clientVars(ResponseIsLast(c) \/ Streams(c))
    /\ WF_clientVars(ServerEnds(c))
    /\ WF_clientVars(TaskResult(c))
    /\ WF_clientVars(Shutdown(c) \/ ShutdownFails(c))
    /\ WF_clientVars(Join(c))
    /\ WF_clientVars(TaskStops(c))
=============================================================================
