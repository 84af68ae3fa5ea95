------------------------------ MODULE Broadcast ------------------------------
(***************************************************************************)
(* What publish/subscribe promises: a message reaches every client once    *)
(* for the channel it has subscribed to and once for each of its patterns  *)
(* that match, and nobody else.                                            *)
(***************************************************************************)
EXTENDS Sequences

CONSTANTS Clients, Channels, Patterns,
          Matches,  \* the pairs <<pattern, channel>> that match
          Messages

VARIABLES channels, \* client -> the channels it has subscribed to
          patterns, \* client -> its patterns
          received  \* client -> the messages sent to it

Init ==
  /\ channels = [c \in Clients |-> {}] /\ patterns = [c \in Clients |-> {}]
  /\ received = [c \in Clients |-> <<>>]

Matching(c, ch) == {p \in patterns[c] : <<p, ch>> \in Matches}

\* The subscriptions of one client change.
Change(c) ==
  /\ \A d \in Clients \ {c} : channels'[d] = channels[d] /\ patterns'[d] = patterns[d]
  /\ UNCHANGED received

Publish(ch, message) ==
  /\ received' =
       [c \in Clients |->
          IF ch \in channels[c] \/ Matching(c, ch) # {}
            THEN Append(received[c], [message |-> message,
                                      copies |-> IF ch \in channels[c] THEN 1 ELSE 0,
                                      patterns |-> Matching(c, ch)])
            ELSE received[c]]
  /\ UNCHANGED <<channels, patterns>>

Next ==
  \/ \E c \in Clients : Change(c)
  \/ \E ch \in Channels, message \in Messages : Publish(ch, message)

Spec == Init /\ [][Next]_<<channels, patterns, received>>

=============================================================================
