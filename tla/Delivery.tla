------------------------------ MODULE Delivery ------------------------------
(***************************************************************************)
(* What the logging core promises its users, without threads or queues.    *)
(*                                                                         *)
(* Messages are numbered in the order in which they were accepted.  For    *)
(* every stream each message eventually meets one fate: it was delivered,  *)
(* filtered by the stream's minimum level, expired, dropped because no     *)
(* retry thread could be started, or missed because the stream was added   *)
(* after the message had been dispatched.  A stream is served in order: an *)
(* attempt to write message e is made only when all older messages have    *)
(* met their fate on that stream, so nothing overtakes, and a message that *)
(* was acknowledged is never written again.  An attempt that the stream    *)
(* reports as failed may have reached the sink all the same.               *)
(***************************************************************************)
EXTENDS Naturals

CONSTANTS Streams,    \* the configured output streams
          MaxEvents   \* bound on the number of messages

VARIABLES sent,       \* number of messages accepted so far
          fate,       \* fate[s][e]: what became of message e on stream s
          last        \* last[s]: the message that reached the sink of s last

dvars == <<sent, fate, last>>

Id   == 1..MaxEvents
Fate == {"none", "delivered", "filtered", "expired", "dropped", "missed"}

Init ==
    /\ sent = 0
    /\ fate = [s \in Streams |-> [e \in Id |-> "none"]]
    /\ last = [s \in Streams |-> 0]

\* A message is accepted.
Submit ==
    /\ sent < MaxEvents
    /\ sent' = sent + 1
    /\ UNCHANGED <<fate, last>>

\* Message e is the oldest one without a fate on s.
Turn(s, e) ==
    /\ e \in 1..sent
    /\ fate[s][e] = "none"
    /\ \A d \in Id : d < e => fate[s][d] # "none"

Settle(s, e, f) == fate' = [fate EXCEPT ![s] = [@ EXCEPT ![e] = f]]

\* The sink receives message e; the attempt may still be reported as failed.
Attempt(s, e) ==
    /\ Turn(s, e)
    /\ last' = [last EXCEPT ![s] = e]
    /\ Settle(s, e, "delivered") \/ UNCHANGED fate
    /\ UNCHANGED sent

\* Message e is passed over when its turn comes.
PassOver(s, e) ==
    /\ Turn(s, e)
    /\ Settle(s, e, "filtered") \/ Settle(s, e, "dropped")
    /\ UNCHANGED <<sent, last>>

\* Messages may expire in any order.
Expire(s, e) ==
    /\ e \in 1..sent
    /\ fate[s][e] = "none"
    /\ Settle(s, e, "expired")
    /\ UNCHANGED <<sent, last>>

\* Stream s is added; messages 1..d were accepted too early for it.
Attach(s, d) ==
    /\ d \in 0..sent
    /\ \A e \in Id : fate[s][e] = "none"
    /\ fate' = [fate EXCEPT ![s] = [e \in Id |-> IF e <= d THEN "missed" ELSE "none"]]
    /\ UNCHANGED <<sent, last>>

Next ==
    \/ Submit
    \/ \E s \in Streams, d \in 0..MaxEvents : Attach(s, d)
    \/ \E s \in Streams, e \in Id : Attempt(s, e) \/ PassOver(s, e) \/ Expire(s, e)

Spec == Init /\ [][Next]_dvars
=============================================================================
