----------------------------- MODULE CommandLog -----------------------------
(***************************************************************************)
(* What the group of servers promises its clients: one log of commands,    *)
(* which only grows; every server applies a prefix of it to its lock state *)
(* (each client operation once, with at_most_once); and a server answers a *)
(* client only about a command it has executed.                            *)
(***************************************************************************)
EXTENDS Naturals, Sequences, Ascending

CONSTANTS Servers,    \* the servers that execute the log
          Commands,   \* the commands of the clients
          AtMostOnce  \* whether a command is applied again when it recurs

VARIABLES submitted,  \* the commands the clients have submitted
          log,        \* the decided commands, in order
          executed,   \* executed[s]: how much of the log server s has executed
          applied,    \* applied[s]: the commands server s applied to its state
          answers     \* the pairs <<server, command>> answered so far

vars == <<submitted, log, executed, applied, answers>>

Init == /\ submitted = {}
        /\ log = << >>
        /\ executed = [s \in Servers |-> 0]
        /\ applied = [s \in Servers |-> << >>]
        /\ answers = {}

(* The commands that the first n of the log apply, in order.               *)
Effective(n) ==
  LET counts(i) == AtMostOnce => \A j \in 1 .. (i - 1) : log[j] # log[i]
      slots == InOrder({i \in 1 .. n : counts(i)})
  IN  [k \in DOMAIN slots |-> log[slots[k]]]

Submit(c) ==
  /\ submitted' = submitted \cup {c}
  /\ UNCHANGED <<log, executed, applied, answers>>

Decide(c) ==
  /\ c \in submitted
  /\ log' = Append(log, c)
  /\ UNCHANGED <<submitted, executed, applied, answers>>

(* A server executes the log up to n, and answers about some of what it    *)
(* has executed.                                                           *)
Execute(s, n) ==
  /\ executed' = [executed EXCEPT ![s] = n]
  /\ applied' = [applied EXCEPT ![s] = Effective(n)]
  /\ \E cs \in SUBSET {log[i] : i \in 1 .. n} :
        answers' = answers \cup ({s} \X cs)
  /\ UNCHANGED <<submitted, log>>

Next ==
  \/ \E c \in Commands : Submit(c) \/ Decide(c)
  \/ \E s \in Servers : \E n \in (executed[s] + 1) .. Len(log) : Execute(s, n)

Spec == Init /\ [][Next]_vars

(* A server that starts again replays the log, further than before if it   *)
(* had been told of more, or not at all.                                   *)
Recover(s, n) ==
  /\ executed' = [executed EXCEPT ![s] = n]
  /\ applied' = [applied EXCEPT ![s] = Effective(n)]
  /\ UNCHANGED <<submitted, log, answers>>

RestartSpec ==
  Init /\ [][Next \/ \E s \in Servers :
                      \E n \in {0} \cup executed[s] .. Len(log) : Recover(s, n)]_vars
=============================================================================
