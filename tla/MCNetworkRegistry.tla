-------------------------- MODULE MCNetworkRegistry --------------------------
(***************************************************************************)
(* The registrations the run tries beside the default local pair: halves   *)
(* of that pair, a second L2 network of the local chain, an L2             *)
(* network without and then with its parent, a pair that is not custom,    *)
(* and the missing parent of the built-in chain 23011913, which is an L2   *)
(* network of the tables itself.                                           *)
(***************************************************************************)
EXTENDS NetworkRegistry

L1(id, partners) == [id |-> id, custom |-> TRUE, partners |-> partners]
L2(id, parent) == [id |-> id, custom |-> TRUE, parent |-> parent]
None == [id |-> NoNetwork, custom |-> FALSE, partners |-> <<>>]

MCCalls ==
    { [l1 |-> None, l2 |-> L2(412346, 1337)],
      [l1 |-> L1(1337, <<>>), l2 |-> L2(412347, 1337)],
      [l1 |-> None, l2 |-> L2(412347, 1337)],
      [l1 |-> L1(2000, <<2001, 2002>>), l2 |-> L2(2002, 2000)],
      [l1 |-> None, l2 |-> L2(2001, 2000)],
      [l1 |-> L1(412346, <<2003>>), l2 |-> L2(2003, 412346)],
      [l1 |-> [id |-> 2000, custom |-> FALSE, partners |-> <<2001>>],
       l2 |-> L2(2001, 2000)],
      [l1 |-> L1(421614, <<>>), l2 |-> L2(42161, 1)],
      [l1 |-> None, l2 |-> L2(2004, 1338)] }
=============================================================================
