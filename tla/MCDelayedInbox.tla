---------------------------- MODULE MCDelayedInbox ----------------------------
(* The receipts DelayedInbox is checked with: one deposit, two with one of  *)
(* nothing, deposits and tickets, two rollups in both orders, a ticket      *)
(* behind the other rollup's deposit, and a message sent from its origin.   *)
EXTENDS DelayedInbox

Send(rollup, kind, value) == [rollup |-> rollup, kind |-> kind, value |-> value]

MCReceipts ==
    {<<Send("ours", "deposit", 1)>>,
     <<Send("ours", "deposit", 1), Send("ours", "deposit", 0)>>,
     <<Send("ours", "ticket", 1), Send("ours", "deposit", 1)>>,
     <<Send("ours", "deposit", 1), Send("other", "ticket", 1)>>,
     <<Send("other", "deposit", 2), Send("ours", "deposit", 1)>>,
     <<Send("other", "deposit", 2), Send("ours", "ticket", 1)>>,
     <<Send("ours", "deposit", 1), Send("ours", "origin", 0)>>}
=============================================================================
