--------------------------- MODULE ForwardedCall ---------------------------
(***************************************************************************)
(* What ceserver promises a connection whose command only the debugger      *)
(* thread may carry out: the command is carried out at most once, and no    *)
(* second one before the exchange is settled; an answer comes only after it *)
(* was carried out; and the call fails only when the debug session it was   *)
(* made in is over.                                                         *)
(***************************************************************************)
EXTENDS Naturals

CONSTANTS
  Conn,   \* the connection threads
  Proc    \* the opened processes

VARIABLES
  calls,  \* [phase, proc, since]: how far the call of each connection is, the
          \* process it is about, and the session that was in (0: none) when
          \* the call began
  live    \* the session each process is in, 0 for none

vars == <<calls, live>>

Idle == [phase |-> "idle"]
InPhase(x, phase) == [phase |-> phase, proc |-> x.proc, since |-> x.since]

Init ==
  /\ calls = [c \in Conn |-> Idle]
  /\ live = [p \in Proc |-> 0]

\* A session begins or ends.
Sessions == live' \in [Proc -> Nat] /\ UNCHANGED calls

Ask(c, p) ==
  /\ calls[c] = Idle
  /\ calls' = [calls EXCEPT ![c] = [phase |-> "asked", proc |-> p, since |-> live[p]]]
  /\ UNCHANGED live

\* Nobody else has a command that was carried out and not settled.
Execute(c) ==
  /\ calls[c].phase = "asked"
  /\ \A d \in Conn : calls[d].phase # "executed"
  /\ calls' = [calls EXCEPT ![c] = InPhase(@, "executed")]
  /\ UNCHANGED live

Answer(c) ==
  /\ calls[c].phase = "executed"
  /\ calls' = [calls EXCEPT ![c] = InPhase(@, "answered")]
  /\ UNCHANGED live

Fail(c) ==
  /\ calls[c].phase \in {"asked", "executed"}
  /\ calls[c].since # 0 => live[calls[c].proc] # calls[c].since
  /\ calls' = [calls EXCEPT ![c] = InPhase(@, "failed")]
  /\ UNCHANGED live

Return(c) ==
  /\ calls[c].phase \in {"answered", "failed"}
  /\ calls' = [calls EXCEPT ![c] = Idle]
  /\ UNCHANGED live

Next ==
  \/ Sessions
  \/ \E c \in Conn : \/ \E p \in Proc : Ask(c, p)
                     \/ Execute(c) \/ Answer(c) \/ Fail(c) \/ Return(c)

Spec == Init /\ [][Next]_vars
=============================================================================
