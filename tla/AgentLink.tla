----------------------------- MODULE AgentLink -----------------------------
(***************************************************************************)
(* The master's side of an agent command (agent_client.request) composed   *)
(* with the agent: a command goes out over HTTP and, when the transport    *)
(* fails or the answer is late, once more through SSH.  The agent may then *)
(* work on both deliveries at the same time, or on the second after it     *)
(* died in the first.                                                      *)
(***************************************************************************)
EXTENDS AgentConfig

CONSTANTS
  Calls,        \* the commands the master issues
  CallRequest,  \* what each of them asks of the agent
  NoCall        \* the thread serves nobody

ASSUME LinkAssumption ==
  /\ CallRequest \in [Calls -> Requests]
  /\ NoCall \notin Calls

VARIABLES
  phase,    \* per call: where request() is
  result,   \* per call: what the caller got
  serving,  \* per thread: the call it serves and over which channel
  effects,  \* per call: how often it took effect on the agent (history)
  unnoted   \* calls whose effect missed the journal, or was dropped from it (history)

linkVars == <<phase, result, serving, effects, unnoted>>
allVars == <<vars, linkVars>>

Phases == {"new", "http", "resend", "ssh", "done"}
Results == {"none", "ok", "failed", "raised", "unreachable"}
Channels == {"http", "ssh", "none"}
Nobody == [call |-> NoCall, channel |-> "none"]

Finish(c, r) ==
  /\ phase' = [phase EXCEPT ![c] = "done"]
  /\ result' = [result EXCEPT ![c] = r]

\* (variant: the second delivery leaves the operation id out)
Payload_Unkeyed(c, channel) ==
  IF channel = "ssh" THEN [CallRequest[c] EXCEPT !.op = NoOp] ELSE CallRequest[c]

\* Both channels carry the same command and payload.
Payload(c, channel) == CallRequest[c]

\* A thread of the agent picks the command up.
Deliver(c, channel) == \E t \in Threads :
  /\ serving[t] = Nobody
  /\ Receive(t, Payload(c, channel))
  /\ serving' = [serving EXCEPT ![t] = [call |-> c, channel |-> channel]]
  /\ phase' = [phase EXCEPT ![c] = channel]
  /\ UNCHANGED <<result, effects, unnoted>>

\* (variant: a failed transport is tried again)
HttpFails_Again(c) ==
  /\ phase[c] \in {"new", "http"}
  /\ phase' = [phase EXCEPT ![c] = "new"]
  /\ UNCHANGED <<vars, result, serving, effects, unnoted>>

\* The transport fails without an answer: nothing reached the agent, or the
\* answer is later than agent_request_timeout_seconds, or the agent died.
HttpFails(c) ==
  /\ phase[c] \in {"new", "http"}
  /\ phase' = [phase EXCEPT ![c] = "resend"]
  /\ UNCHANGED <<vars, result, serving, effects, unnoted>>

\* No SSH access stored, or curl and its 30 seconds fail.
SshFails(c) ==
  /\ phase[c] \in {"resend", "ssh"}
  /\ Finish(c, "unreachable")
  /\ UNCHANGED <<vars, serving, effects, unnoted>>

HttpSend(c) == phase[c] = "new" /\ Deliver(c, "http")
SshSend(c) == phase[c] = "resend" /\ Deliver(c, "ssh")

\* (variant: the caller does not look at the answer's "ok")
Outcome_Unread(channel, r) == IF r = "error" THEN "raised" ELSE "ok"

\* What the caller makes of an answer: an exception in the agent is an HTTP 500,
\* raised as such over HTTP (it is no transport failure) and a failed curl -f
\* over SSH.
Outcome(channel, r) ==
  CASE r = "ok" -> "ok"
    [] r = "error" /\ channel = "http" -> "raised"
    [] r = "error" /\ channel = "ssh" -> "unreachable"
    [] OTHER -> "failed"

\* The answer of the delivery the caller still waits for.
Return(c) == \E t \in Threads :
  /\ serving[t] = [call |-> c, channel |-> phase[c]]
  /\ pc[t] = "idle"
  /\ Finish(c, Outcome(phase[c], reply[t]))
  /\ serving' = [serving EXCEPT ![t] = Nobody]
  /\ UNCHANGED <<vars, effects, unnoted>>

\* The answer of a delivery nobody waits for any more.
Discard(t) ==
  /\ serving[t] # Nobody /\ pc[t] = "idle"
  /\ phase[serving[t].call] # serving[t].channel
  /\ serving' = [serving EXCEPT ![t] = Nobody]
  /\ UNCHANGED <<vars, phase, result, effects, unnoted>>

\* What the journal does not hold after a step of t: the operation that was to be
\* recorded, and those whose entries made room for it.
Missed(t) == IF pc[t] = "commit" /\ journal' = journal THEN {serving[t].call} ELSE {}
Dropped == {c \in Calls : CallRequest[c].op \in JournalIds \ JournalIds'}

\* A step of the agent.  A change has taken effect when its handler reaches the
\* journal: the configuration is in force and the fallback exchanged.
AgentStep(t) ==
  /\ Handler(t)
  /\ effects' = IF pc'[t] = "commit" /\ serving[t] # Nobody
                THEN [effects EXCEPT ![serving[t].call] = @ + 1]
                ELSE effects
  /\ unnoted' = unnoted \cup Missed(t) \cup Dropped
  /\ UNCHANGED <<phase, result, serving>>

\* The agent dies; the open connections break.
AgentCrash ==
  /\ Crash
  /\ serving' = [t \in Threads |-> Nobody]
  /\ unnoted' = unnoted \cup {serving[t].call : t \in {u \in Threads : pc[u] = "commit"}}
  /\ UNCHANGED <<phase, result, effects>>

LinkInit ==
  /\ Init
  /\ phase = [c \in Calls |-> "new"]
  /\ result = [c \in Calls |-> "none"]
  /\ serving = [t \in Threads |-> Nobody]
  /\ effects = [c \in Calls |-> 0]
  /\ unnoted = {}

LinkNext ==
  \/ \E c \in Calls : \/ HttpSend(c) \/ HttpFails(c)
                      \/ SshSend(c) \/ SshFails(c) \/ Return(c)
  \/ \E t \in Threads : AgentStep(t) \/ Discard(t)
  \/ AgentCrash

LinkSpec == LinkInit /\ [][LinkNext]_allVars

-----------------------------------------------------------------------------
(* Properties.                                                             *)

LinkTypeOK ==
  /\ phase \in [Calls -> Phases]
  /\ result \in [Calls -> Results]
  /\ serving \in [Threads -> [call : Calls \cup {NoCall}, channel : Channels]]
  /\ effects \in [Calls -> Nat] /\ unnoted \subseteq Calls \cup {NoCall}

\* The deliveries request() has made of c, at most.
Deliveries(c) ==
  CASE phase[c] = "new" -> 0 [] phase[c] \in {"http", "resend"} -> 1 [] OTHER -> 2

\* A command takes effect no more often than it was sent, with an operation id or
\* without: once before the transport fails, twice at most, and a delivery that the
\* agent still works on when the caller has given up on it counts as well
\* (agent_client.request: one attempt over HTTP, one through SSH).
OncePerChannel == \A c \in Calls : effects[c] <= Deliveries(c)

\* A command that carries an operation id takes effect a second time only if the
\* agent failed between its first effect and the journal entry, or the entry was
\* dropped since: neither request() sending it again after a late answer, nor two
\* threads working on both deliveries at once, nor a failure anywhere else repeats
\* it (core_manager.rollback: "Swap ACTIVE/PREVIOUS once").
KeyedAtMostOnce == \A c \in Calls \ unnoted : CallRequest[c].op # NoOp => effects[c] <= 1

\* The same for a rollback, the command that is not idempotent by itself: every
\* delivery that is carried out exchanges the two configurations again
\* (core_manager.rollback: "Swap ACTIVE/PREVIOUS once; only successful rollbacks
\* are journaled").
RollbackSwapsOnce == \A c \in Calls :
  CallRequest[c].kind = "rollback" /\ CallRequest[c].op # NoOp => effects[c] <= 1

\* No other command of the master has the operation id of c.
OwnId(c) == \A d \in Calls \ {c} : CallRequest[d].op = CallRequest[c].op
                                     => CallRequest[c].op = NoOp

\* A change the caller is told has succeeded did take effect on the agent: an
\* answer from the journal is the answer of an earlier delivery of the same
\* command, unless another command used its operation id.
OkTookEffect == \A c \in Calls :
  result[c] = "ok" /\ CallRequest[c].kind \in {"apply", "rollback"} /\ OwnId(c)
  => effects[c] >= 1
=============================================================================
