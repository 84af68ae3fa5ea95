------------------------------- MODULE PubSub -------------------------------
(***************************************************************************)
(* Publish/subscribe (redis.c 10170-10440).  A client knows its channels   *)
(* and patterns, the server knows the clients of every channel and the     *)
(* pairs of client and pattern; PUBLISH uses the server's lists, every     *)
(* other command and freeClient keep the two in step.                      *)
(*                                                                         *)
(* A list of the server is its number of nodes per client: the order in    *)
(* which different clients get a message shows nowhere.                    *)
(***************************************************************************)
EXTENDS Integers, Sequences

CONSTANTS Clients, Channels, Patterns,
          Matches,        \* the pairs <<pattern, channel>> stringmatchlen accepts
          Messages

ASSUME MatchesAssumption == Matches \subseteq Patterns \X Channels

VARIABLES
  connected,        \* server.clients
  pubsub_channels,  \* c->pubsub_channels
  pubsub_patterns,  \* c->pubsub_patterns
  channel_clients,  \* server.pubsub_channels: channel -> client -> its nodes
  pattern_clients,  \* server.pubsub_patterns: pattern -> client -> its nodes
  received          \* history: client -> the messages PUBLISH has sent it

subscriptions == <<pubsub_channels, pubsub_patterns, channel_clients, pattern_clients>>
psvars == <<connected, subscriptions, received>>

PsInit ==
  /\ connected = {}
  /\ pubsub_channels = [c \in Clients |-> {}]
  /\ pubsub_patterns = [c \in Clients |-> {}]
  /\ channel_clients = [ch \in Channels |-> [c \in Clients |-> 0]]
  /\ pattern_clients = [p \in Patterns |-> [c \in Clients |-> 0]]
  /\ received = [c \in Clients |-> <<>>]

Subscribed(c) == pubsub_channels[c] # {} \/ pubsub_patterns[c] # {}

\* acceptHandler and createClient.
Connect(c) ==
  /\ c \notin connected
  /\ connected' = connected \cup {c}
  /\ UNCHANGED <<subscriptions, received>>

PubsubSubscribeChannel(c, ch) ==
  /\ c \in connected
  /\ pubsub_channels' = [pubsub_channels EXCEPT ![c] = @ \cup {ch}]
  /\ channel_clients' = IF ch \in pubsub_channels[c] THEN channel_clients
                        ELSE [channel_clients EXCEPT ![ch][c] = @ + 1]
  /\ UNCHANGED <<connected, pubsub_patterns, pattern_clients, received>>

PubsubUnsubscribeChannel(c, ch) ==
  /\ c \in connected
  /\ pubsub_channels' = [pubsub_channels EXCEPT ![c] = @ \ {ch}]
  /\ channel_clients' = IF ch \in pubsub_channels[c]
                          THEN [channel_clients EXCEPT ![ch][c] = @ - 1]
                          ELSE channel_clients
  /\ UNCHANGED <<connected, pubsub_patterns, pattern_clients, received>>

\* Mutant of PubsubSubscribePattern: the server's list gets a node every time.
SubscribePatternAgain(c, p) ==
  /\ c \in connected
  /\ pubsub_patterns' = [pubsub_patterns EXCEPT ![c] = @ \cup {p}]
  /\ pattern_clients' = [pattern_clients EXCEPT ![p][c] = @ + 1]
  /\ UNCHANGED <<connected, pubsub_channels, channel_clients, received>>

PubsubSubscribePattern(c, p) ==
  /\ c \in connected
  /\ pubsub_patterns' = [pubsub_patterns EXCEPT ![c] = @ \cup {p}]
  /\ pattern_clients' = IF p \in pubsub_patterns[c] THEN pattern_clients
                        ELSE [pattern_clients EXCEPT ![p][c] = @ + 1]
  /\ UNCHANGED <<connected, pubsub_channels, channel_clients, received>>

PubsubUnsubscribePattern(c, p) ==
  /\ c \in connected
  /\ pubsub_patterns' = [pubsub_patterns EXCEPT ![c] = @ \ {p}]
  /\ pattern_clients' = IF p \in pubsub_patterns[c]
                          THEN [pattern_clients EXCEPT ![p][c] = @ - 1]
                          ELSE pattern_clients
  /\ UNCHANGED <<connected, pubsub_channels, channel_clients, received>>

\* The tables after the client is gone from all its channels.
WithoutChannels(c) ==
  /\ pubsub_channels' = [pubsub_channels EXCEPT ![c] = {}]
  /\ channel_clients' = [ch \in Channels |->
                           IF ch \in pubsub_channels[c]
                             THEN [channel_clients[ch] EXCEPT ![c] = @ - 1]
                             ELSE channel_clients[ch]]

WithoutPatterns(c) ==
  /\ pubsub_patterns' = [pubsub_patterns EXCEPT ![c] = {}]
  /\ pattern_clients' = [p \in Patterns |->
                           IF p \in pubsub_patterns[c]
                             THEN [pattern_clients[p] EXCEPT ![c] = @ - 1]
                             ELSE pattern_clients[p]]

PubsubUnsubscribeAllChannels(c) ==
  /\ c \in connected /\ WithoutChannels(c)
  /\ UNCHANGED <<connected, pubsub_patterns, pattern_clients, received>>

PubsubUnsubscribeAllPatterns(c) ==
  /\ c \in connected /\ WithoutPatterns(c)
  /\ UNCHANGED <<connected, pubsub_channels, channel_clients, received>>

\* Mutant of DropSubscriptions: the patterns are forgotten.
DropChannelsOnly(c) ==
  /\ WithoutChannels(c)
  /\ pubsub_patterns' = [pubsub_patterns EXCEPT ![c] = {}] /\ UNCHANGED pattern_clients

\* freeClient's part in publish/subscribe.
DropSubscriptions(c) == WithoutChannels(c) /\ WithoutPatterns(c)

FreeSubscriber(c) ==
  /\ c \in connected
  /\ connected' = connected \ {c}
  /\ DropSubscriptions(c)
  /\ UNCHANGED received

-----------------------------------------------------------------------------
(* PUBLISH.                                                                *)

MatchingPatterns(ch) == {p \in Patterns : <<p, ch>> \in Matches}

\* The client has a node in a list that the message goes through.
Receives(c, ch) ==
  channel_clients[ch][c] > 0 \/ \E p \in MatchingPatterns(ch) : pattern_clients[p][c] > 0

Delivery(c, ch, message) ==
  [message |-> message, copies |-> channel_clients[ch][c],
   patterns |-> {p \in MatchingPatterns(ch) : pattern_clients[p][c] > 0}]

PubsubPublishMessage(ch, message) ==
  /\ received' = [c \in Clients |-> IF Receives(c, ch)
                                      THEN Append(received[c], Delivery(c, ch, message))
                                      ELSE received[c]]
  /\ UNCHANGED <<connected, subscriptions>>

-----------------------------------------------------------------------------
PsNext ==
  \/ \E c \in Clients :
       \/ Connect(c) \/ FreeSubscriber(c)
       \/ \E ch \in Channels : PubsubSubscribeChannel(c, ch) \/ PubsubUnsubscribeChannel(c, ch)
       \/ \E p \in Patterns : PubsubSubscribePattern(c, p) \/ PubsubUnsubscribePattern(c, p)
       \/ PubsubUnsubscribeAllChannels(c) \/ PubsubUnsubscribeAllPatterns(c)
  \/ \E ch \in Channels, m \in Messages : PubsubPublishMessage(ch, m)

PsSpec == PsInit /\ [][PsNext]_psvars

-----------------------------------------------------------------------------
PsTypeOK ==
  /\ connected \subseteq Clients
  /\ pubsub_channels \in [Clients -> SUBSET Channels]
  /\ pubsub_patterns \in [Clients -> SUBSET Patterns]
  /\ channel_clients \in [Channels -> [Clients -> Nat]]
  /\ pattern_clients \in [Patterns -> [Clients -> Nat]]

\* A client has one node in the server's list of a channel or pattern exactly
\* when it has that channel or pattern itself, and none once it is freed: the
\* node freeClient and UNSUBSCRIBE look for is there (the asserts of
\* pubsubUnsubscribeChannel), PUBLISH reaches no freed client and nobody twice.
SubscriptionsMatch ==
  /\ \A c \in Clients, ch \in Channels :
       channel_clients[ch][c] = IF ch \in pubsub_channels[c] THEN 1 ELSE 0
  /\ \A c \in Clients, p \in Patterns :
       pattern_clients[p][c] = IF p \in pubsub_patterns[c] THEN 1 ELSE 0
  /\ \A c \in Clients \ connected : pubsub_channels[c] = {} /\ pubsub_patterns[c] = {}

\* What every client receives is what its own tables ask for.
B == INSTANCE Broadcast WITH channels <- pubsub_channels, patterns <- pubsub_patterns

ImplementsBroadcast == B!Spec

=============================================================================
