----------------------------- MODULE MCNetworking -----------------------------
(***************************************************************************)
(* An instance of Networking: a subscriber and a publisher, one channel,  *)
(* one pattern.                                                            *)
(***************************************************************************)
EXTENDS Networking

Request(form, argv) == [form |-> form, argv |-> argv]

\* A message that looks like a line of the protocol.
Body == <<NL>>

MCMatches == {<<"p*", "ch">>}
MCMessages == {Body, <<>>}

Subscriber ==
  { <<Request("inline", <<<<"subscribe">>, <<"ch">>>>), Request("inline", <<<<"ping">>>>),
      Request("inline", <<<<"punsubscribe">>>>), Request("inline", <<<<"unsubscribe">>>>)>>,
    <<Request("multi", <<<<"psubscribe">>, <<"p*">>, <<"p*">>>>),
      Request("inline", <<<<"punsubscribe">>, <<"p*">>>>)>>,
    <<Request("inline", <<<<"unsubscribe">>, <<"ch">>>>)>> }

Publisher ==
  { <<Request("bulk", <<<<"publish">>, <<"ch">>, Body>>), Request("inline", <<<<"ping">>>>),
      Request("inline", <<<<"quit">>>>)>>,
    <<Request("multi", <<<<"publish">>, <<"ch">>, <<>>>>), Request("inline", <<<<"nosuch">>>>),
      Request("raw", <<<<"x">>, <<"x">>, <<"x">>, <<"x">>>>)>>,
    <<Request("raw", <<<<"*0", NL>>, <<"*1", NL, "x", NL>>, <<"*1", NL, "$-1", NL>>,
                       <<"publish", "ch", "-1", NL>>>>)>> }

MCScripts == [c \in Clients |-> IF c = "c1" THEN Subscriber ELSE Publisher]

=============================================================================
