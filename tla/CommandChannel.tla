--------------------------- MODULE CommandChannel ---------------------------
(***************************************************************************)
(* What RawClient promises the caller of a command, whatever the two loops *)
(* and the other callers do: the command begins, its frames are delivered  *)
(* in wire order and before its tagged reply, and it finishes once.  Ok    *)
(* and CommandFailed are the server's word; every other result is the      *)
(* client's own and may come at any time.                                  *)
(***************************************************************************)
EXTENDS Naturals, Sequences

CONSTANTS Cmds, Places   \* Places: positions on the wire, numbers from 1

Verdicts == {"Ok", "CommandFailed"}
Failures == {"ConnectionClosed", "Parse", "FrameTooLarge", "Timeout", "Dropped"}

VARIABLES
  state,     \* per command: "new", "open" or "done"
  answer,    \* per command: result the server's tagged status stands for
  answerAt,  \* per command: place of that status on the wire, 0 before
  got,       \* per command: places on the wire of the frames delivered
  outcome    \* per command: what the caller was told

vars == <<state, answer, answerAt, got, outcome>>

Init ==
  /\ state = [c \in Cmds |-> "new"]
  /\ answer = [c \in Cmds |-> "none"]
  /\ answerAt = [c \in Cmds |-> 0]
  /\ got = [c \in Cmds |-> <<>>]
  /\ outcome = [c \in Cmds |-> "none"]

Begin(c) ==
  /\ state[c] = "new"
  /\ state' = [state EXCEPT ![c] = "open"]
  /\ UNCHANGED <<answer, answerAt, got, outcome>>

Answer(c, r, n) ==
  /\ state[c] # "new" /\ answerAt[c] = 0 /\ n > 0
  /\ answer' = [answer EXCEPT ![c] = r]
  /\ answerAt' = [answerAt EXCEPT ![c] = n]
  /\ UNCHANGED <<state, got, outcome>>

Deliver(c, n) ==
  /\ state[c] = "open"
  /\ \A i \in DOMAIN got[c] : got[c][i] < n
  /\ answerAt[c] # 0 => n < answerAt[c]
  /\ got' = [got EXCEPT ![c] = Append(@, n)]
  /\ UNCHANGED <<state, answer, answerAt, outcome>>

Finish(c, r) ==
  /\ state[c] = "open"
  /\ r \in Verdicts => answer[c] = r
  /\ state' = [state EXCEPT ![c] = "done"]
  /\ outcome' = [outcome EXCEPT ![c] = r]
  /\ UNCHANGED <<answer, answerAt, got>>

Next == \E c \in Cmds :
  \/ Begin(c)
  \/ \E r \in Verdicts \cup {"ConnectionClosed"}, n \in Places : Answer(c, r, n)
  \/ \E n \in Places : Deliver(c, n)
  \/ \E r \in Verdicts \cup Failures : Finish(c, r)

Spec == Init /\ [][Next]_vars
=============================================================================
