------------------------------ MODULE MCBlocking ------------------------------
(***************************************************************************)
(* Instances of BlockingPop: three clients, two lists.                     *)
(***************************************************************************)
EXTENDS BlockingPop, TLC

CONSTANTS c1, c2, c3, k1, k2

Request(op, keys, timed) == [op |-> op, keys |-> keys, timed |-> timed]

\* One producer, with transactions, and two consumers that also push.
MCRequests ==
  (c1 :> {Request("push", <<k1>>, FALSE), Request("push", <<k2>>, FALSE),
          Request("rename", <<k1, k2>>, FALSE), Request("rpoplpush", <<k1, k2>>, FALSE),
          Request("multi", <<>>, FALSE), Request("exec", <<>>, FALSE),
          Request("discard", <<>>, FALSE)})
  @@ (c2 :> {Request("pop", <<k1>>, FALSE), Request("pop", <<k2, k1>>, TRUE),
             Request("push", <<k2>>, FALSE), Request("quit", <<>>, FALSE)})
  @@ (c3 :> {Request("pop", <<k2>>, TRUE)})

MCLimit == [push |-> 2, pop |-> 2, rename |-> 1, rpoplpush |-> 1,
            multi |-> 1, exec |-> 1, discard |-> 1, quit |-> 1]

=============================================================================
