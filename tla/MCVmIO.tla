-------------------------------- MODULE MCVmIO --------------------------------
(***************************************************************************)
(* An instance of VmIO: two keys, two clients, values of one and two pages *)
(* in a swap file of two.                                                  *)
(***************************************************************************)
EXTENDS VmIO, TLC

CONSTANTS k1, k2

MCSize == [small |-> 1, large |-> 2]

Access(op, k, val) == [op |-> op, key |-> k, val |-> val]

Replace(k, val, from) == [op |-> "replace", key |-> k, val |-> val, from |-> from]

\* Every way to read, change, delete and overwrite a key.  The first request is a
\* transaction that waits twice for one key and once for the other, the last one
\* MSET k1 with RENAME k1 k2, which does not wait for its target.
MCRequests ==
  {<<Access("get", k1, None), Access("append", k1, "large"), Access("get", k2, None)>>,
   <<Access("set", k2, "small")>>, <<Access("del", k1, None)>>,
   <<Access("mset", k1, "small"), Replace(k2, "small", k1), Access("del", k1, None)>>}

\* Clients that wait for each other's keys.
MCWaits ==
  {<<Access("get", k2, None), Access("get", k1, None)>>,
   <<Access("get", k1, None), Access("append", k1, "large")>>,
   <<Access("set", k2, "small")>>, <<Access("del", k1, None)>>}

=============================================================================
