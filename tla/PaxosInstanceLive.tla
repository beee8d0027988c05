------------------------- MODULE PaxosInstanceLive -------------------------
(***************************************************************************)
(* Progress of one Paxos instance, under the timing assumption that Paxos  *)
(* needs: the network may lose any message of a round numbered below       *)
(* GoodRound, and delivers what belongs to later rounds.  Some servers may *)
(* be killed.  The last round that MaxNumber allows has no deadline: it    *)
(* stands for a round whose deadline is long enough.                       *)
(***************************************************************************)
EXTENDS PaxosInstance

CONSTANTS GoodRound, \* the rounds numbered from here on lose no message
          MayStop    \* the servers that may be killed, a minority

ASSUME GoodRoundAssumption == GoodRound \in Nat
ASSUME MayStopAssumption == MayStop \subseteq Servers /\ ~IsMajority(MayStop)

(* The process is killed, and not restarted.                               *)
Stop(s) ==
  /\ running[s]
  /\ running' = [running EXCEPT ![s] = FALSE]
  /\ UNCHANGED <<proposerVars, acceptorVars, learnerVars, timerVars, msgs>>

Round(m) == IF m.type \in {"PROMISE", "DENIAL"} THEN m.prepare_number ELSE m.number

(* What the io_context and the network get done: a timer expires and its   *)
(* handler runs, a message of a good round is delivered.  Every such step  *)
(* that changes anything changes it for good (a round is started, a message*)
(* is added, an answer is counted), so in finitely many rounds fairness to *)
(* all of them together is fairness to each.                               *)
Progress ==
  \/ \E s \in Servers : DeadlineExpires(s) \/ OnDeadline(s)
  \/ \E m \in {k \in msgs : Round(k) >= GoodRound} : Dispatch(m)

LiveNext == Next \/ \E s \in MayStop : Stop(s)

LiveSpec == Init /\ [][LiveNext]_vars /\ WF_vars(Progress)

-----------------------------------------------------------------------------
Started(s) == current_proposal_number[s] # s + N

(* A server that starts a round learns what was decided, however many of   *)
(* the messages of the rounds before GoodRound are lost and although a     *)
(* minority of the servers dies: a round that gets no answer is retried.   *)
SubmissionsAreDecided ==
  \A s \in Servers : Started(s) ~> (Refuses(s) \/ ~running[s])

(* When the network loses nothing, every server is informed of the         *)
(* decision, and no proposer that duels with another is left out.          *)
DecisionReachesAll ==
  \A s \in Servers : (\E p \in Servers : Started(p)) ~> (informed[s] \/ ~running[s])
=============================================================================
