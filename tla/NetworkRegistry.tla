--------------------------- MODULE NetworkRegistry ---------------------------
(***************************************************************************)
(* data_entities/networks.py: the two tables of networks of the process,   *)
(* and the registrations that extend them.  A registration is synchronous, *)
(* so no other step comes between its checks and its stores, but it may    *)
(* raise half way, and nothing it has stored is taken back.                *)
(*                                                                         *)
(* Networks are their chain ids.  Of an L1 network the tables keep the     *)
(* list of partner ids, of an L2 network the id of its parent; addresses,  *)
(* names and periods are left out.                                         *)
(***************************************************************************)
EXTENDS Naturals, Sequences

CONSTANT Calls      \* the arguments of add_custom_network callers pass

NoNetwork == 0      \* None, a lookup that raises

L1Object == [id : Nat, custom : BOOLEAN, partners : Seq(Nat)]
L2Object == [id : Nat \ {NoNetwork}, custom : BOOLEAN, parent : Nat]
Distinct(list) == \A i, j \in DOMAIN list : list[i] = list[j] => i = j

(* The pair of add_default_local_network, built afresh by every call.       *)
DefaultLocal ==
    [l1 |-> [id |-> 1337, custom |-> TRUE, partners |-> <<412346>>],
     l2 |-> [id |-> 412346, custom |-> TRUE, parent |-> 1337]]

ASSUME CallsAssumption ==
    /\ Calls \subseteq [l1 : L1Object, l2 : L2Object]
    /\ \A c \in Calls : Distinct(c.l1.partners)

VARIABLES
    l1,       \* l1_networks: chain id to partnerChainIDs
    l2,       \* l2_networks: chain id to partnerChainID
    result,   \* how the last registration ended
    agreed    \* history: the L2 networks whose registration returned

vars == <<l1, l2, result, agreed>>

Listed(n, list) == \E i \in DOMAIN list : list[i] = n

TypeOK ==
    /\ DOMAIN l1 \subseteq Nat /\ DOMAIN l2 \subseteq Nat
    /\ l1 \in [DOMAIN l1 -> Seq(Nat)] /\ l2 \in [DOMAIN l2 -> Nat]
    /\ \A c \in DOMAIN l1 : Distinct(l1[c])
    /\ result \in {"none", "returned", "raised"}
    /\ agreed \subseteq DOMAIN l2

(* The tables as the module is loaded.  1338 is a fork of the main chain:  *)
(* it lists 42161, whose parent is 1.  The parent of 23011913 is 421614,   *)
(* which is itself an L2 network and in no table of L1 networks.           *)
BuiltinL1 ==
    [c \in {1, 1338, 5, 11155111} |->
        CASE c = 1 -> <<42161, 42170>>
          [] c = 1338 -> <<42161>>
          [] c = 5 -> <<421613>>
          [] c = 11155111 -> <<421614>>]
BuiltinL2 ==
    [c \in {42161, 421613, 42170, 421614, 23011913} |->
        CASE c \in {42161, 42170} -> 1
          [] c = 421613 -> 5
          [] c = 421614 -> 11155111
          [] c = 23011913 -> 421614]

Init ==
    /\ l1 = BuiltinL1 /\ l2 = BuiltinL2
    /\ result = "none" /\ agreed = {}

(***************************************************************************)
(* Lookups.                                                                *)
(***************************************************************************)
(* get_network of a chain id *)
Recognized(c, layer) == c \in DOMAIN (IF layer = 1 THEN l1 ELSE l2)

(* The L1 network a bridger or InboxTools is built with; both raise when   *)
(* the parent is in no table.                                              *)
ParentOf(c) ==
    IF c \in DOMAIN l2 /\ l2[c] \in DOMAIN l1 THEN l2[c] ELSE NoNetwork

(* MultiCaller.from_provider on chain c: the L2 network whose token bridge *)
(* names the multicall contract.                                           *)
MulticallOf(c) ==
    IF c \in DOMAIN l2 THEN c
    ELSE IF c \in DOMAIN l1 /\ l1[c] # <<>> /\ l1[c][1] \in DOMAIN l2
         THEN l1[c][1] ELSE NoNetwork

(***************************************************************************)
(* add_custom_network                                                      *)
(***************************************************************************)
NoL1(call) == call.l1.id = NoNetwork          \* custom_l1_network is None

\* A slip, for the mutation run: a known L1 network is stored again.
L1NotCustom(call) == ~NoL1(call) /\ ~call.l1.custom

L1Refused(call) == ~NoL1(call) /\ (call.l1.id \in DOMAIN l1 \/ ~call.l1.custom)

L2Refused(call) == call.l2.id \in DOMAIN l2 \/ ~call.l2.custom

StoredL1(call) ==
    IF NoL1(call) THEN l1
    ELSE [c \in DOMAIN l1 \cup {call.l1.id} |->
             IF c = call.l1.id THEN call.l1.partners ELSE l1[c]]

StoredL2(call) ==
    [c \in DOMAIN l2 \cup {call.l2.id} |->
        IF c = call.l2.id THEN call.l2.parent ELSE l2[c]]

\* A slip, for the mutation run: the new partner comes first.
WithPartnerFirst(list, n) == IF Listed(n, list) THEN list ELSE <<n>> \o list

WithPartner(list, n) == IF Listed(n, list) THEN list ELSE Append(list, n)

Linked(table, call) == [table EXCEPT ![call.l2.parent] = WithPartner(@, call.l2.id)]

Raise == result' = "raised" /\ UNCHANGED agreed

AddCustomNetwork(call) ==
    \/ L1Refused(call) /\ Raise /\ UNCHANGED <<l1, l2>>
    \/ /\ ~L1Refused(call)
       /\ \/ /\ L2Refused(call) /\ Raise
             /\ l1' = StoredL1(call) /\ UNCHANGED l2
          \/ /\ ~L2Refused(call) /\ Raise
             /\ call.l2.parent \notin DOMAIN StoredL1(call)
             /\ l1' = StoredL1(call) /\ l2' = StoredL2(call)
          \/ /\ ~L2Refused(call)
             /\ call.l2.parent \in DOMAIN StoredL1(call)
             /\ l1' = Linked(StoredL1(call), call) /\ l2' = StoredL2(call)
             /\ result' = "returned" /\ agreed' = agreed \cup {call.l2.id}

AddDefaultLocalNetwork == AddCustomNetwork(DefaultLocal)

(* The set-up script registers a pair unless both chains are recognized.   *)
EnsureNetworks(call) ==
    /\ ~(Recognized(call.l1.id, 1) /\ Recognized(call.l2.id, 2))
    /\ AddCustomNetwork(call)

Next ==
    \/ \E call \in Calls : AddCustomNetwork(call)
    \/ AddDefaultLocalNetwork
    \/ \E call \in Calls : EnsureNetworks(call)

Spec == Init /\ [][Next]_vars
-----------------------------------------------------------------------------
(* A network whose registration returned has a recognized parent that      *)
(* lists it, however many other registrations are tried, refused or left   *)
(* half done afterwards.                                                   *)
RegisteredAgree ==
    \A c \in agreed : ParentOf(c) # NoNetwork /\ Listed(c, l1[ParentOf(c)])

(* What a lookup has once returned it returns for the life of the process: *)
(* the parent a bridger is built with and the multicall contract of a      *)
(* chain.  The one exception is a chain known as a parent only that is     *)
(* registered as an L2 network of its own.                                 *)
AnswersLast ==
    [][\A c \in DOMAIN l1 \cup DOMAIN l2 :
         /\ ParentOf(c) # NoNetwork => ParentOf(c)' = ParentOf(c)
         /\ MulticallOf(c) # NoNetwork => MulticallOf(c)' \in {MulticallOf(c), c}]_vars
=============================================================================
