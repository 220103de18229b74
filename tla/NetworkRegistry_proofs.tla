------------------------ MODULE NetworkRegistry_proofs ------------------------
(***************************************************************************)
(* The properties of NetworkRegistry for every set of registrations.  All  *)
(* of them rest on one fact about a registration: whatever way it ends,    *)
(* both tables only grow, an L2 network keeps its parent and a list of     *)
(* partners is only appended to.                                           *)
(***************************************************************************)
EXTENDS NetworkRegistry, TLAPS

Extends(new, old) == new = old \/ \E n \in Nat : new = Append(old, n)

\* What a registration does to the tables.
Grown ==
    /\ DOMAIN l1 \subseteq DOMAIN l1' /\ DOMAIN l2 \subseteq DOMAIN l2'
    /\ \A c \in DOMAIN l1 : Extends(l1'[c], l1[c])
    /\ \A c \in DOMAIN l2 : l2'[c] = l2[c]

Inv == TypeOK /\ NoNetwork \notin DOMAIN l1

Typed(call) ==
    call \in [l1 : L1Object, l2 : L2Object] /\ Distinct(call.l1.partners)

LEMMA DefaultIsTyped == Typed(DefaultLocal)
BY DEF Typed, DefaultLocal, L1Object, L2Object, Distinct, NoNetwork

LEMMA AppendKeeps ==
    ASSUME NEW list \in Seq(Nat), NEW new \in Seq(Nat), Extends(new, list)
    PROVE  /\ \A n : Listed(n, list) => Listed(n, new)
           /\ list # <<>> => new # <<>> /\ new[1] = list[1]
<1>1. CASE new = list
  BY <1>1
<1>2. ASSUME NEW m \in Nat, new = Append(list, m)
      PROVE  /\ \A n : Listed(n, list) => Listed(n, new)
             /\ list # <<>> => new # <<>> /\ new[1] = list[1]
  <2>1. Len(new) = Len(list) + 1 /\ \A i \in 1..Len(list) : new[i] = list[i]
    BY <1>2
  <2>2. DOMAIN list = 1..Len(list) /\ DOMAIN new = 1..Len(new) /\ Len(list) \in Nat
    OBVIOUS
  <2>3. \A n : Listed(n, list) => Listed(n, new)
    BY <2>1, <2>2 DEF Listed
  <2>4. list # <<>> => Len(list) # 0
    OBVIOUS
  <2> QED BY <2>1, <2>2, <2>3, <2>4
<1> QED BY <1>1, <1>2 DEF Extends

LEMMA WithPartnerFits ==
    ASSUME NEW list \in Seq(Nat), NEW n \in Nat, Distinct(list)
    PROVE  /\ WithPartner(list, n) \in Seq(Nat)
           /\ Distinct(WithPartner(list, n))
           /\ Extends(WithPartner(list, n), list)
           /\ Listed(n, WithPartner(list, n))
<1>1. CASE Listed(n, list)
  BY <1>1 DEF WithPartner, Extends
<1>2. CASE ~Listed(n, list)
  <2>1. WithPartner(list, n) = Append(list, n)
    BY <1>2 DEF WithPartner
  <2>2. Append(list, n) \in Seq(Nat) /\ Extends(Append(list, n), list)
    BY DEF Extends
  <2>3. Listed(n, Append(list, n))
    <3>1. Append(list, n)[Len(list) + 1] = n /\ Len(list) + 1 \in DOMAIN Append(list, n)
      OBVIOUS
    <3> QED BY <3>1 DEF Listed
  <2>4. Distinct(Append(list, n))
    BY <1>2 DEF Distinct, Listed
  <2> QED BY <2>1, <2>2, <2>3, <2>4
<1> QED BY <1>1, <1>2

(* The two stores keep the types and let the tables grow.                  *)
LEMMA StoreL1 ==
    ASSUME TypeOK, NEW call, Typed(call), ~L1Refused(call)
    PROVE  /\ DOMAIN l1 \subseteq DOMAIN StoredL1(call)
           /\ DOMAIN StoredL1(call) \subseteq Nat
           /\ StoredL1(call) \in [DOMAIN StoredL1(call) -> Seq(Nat)]
           /\ \A c \in DOMAIN StoredL1(call) : Distinct(StoredL1(call)[c])
           /\ \A c \in DOMAIN l1 : StoredL1(call)[c] = l1[c]
           /\ ~NoL1(call) => call.l1.id \in DOMAIN StoredL1(call)
           /\ NoNetwork \notin DOMAIN l1 => NoNetwork \notin DOMAIN StoredL1(call)
<1>1. CASE NoL1(call)
  BY <1>1 DEF TypeOK, StoredL1, NoL1
<1>2. CASE ~NoL1(call)
  BY <1>2 DEF TypeOK, StoredL1, NoL1, Typed, L1Object, L1Refused
<1> QED BY <1>1, <1>2

LEMMA StoreL2 ==
    ASSUME TypeOK, NEW call, Typed(call), ~L2Refused(call)
    PROVE  /\ DOMAIN StoredL2(call) = DOMAIN l2 \cup {call.l2.id}
           /\ DOMAIN StoredL2(call) \subseteq Nat
           /\ StoredL2(call) \in [DOMAIN StoredL2(call) -> Nat]
           /\ \A c \in DOMAIN l2 : StoredL2(call)[c] = l2[c]
           /\ StoredL2(call)[call.l2.id] = call.l2.parent
BY DEF TypeOK, StoredL2, Typed, L2Object, L2Refused

LEMMA LinkL1 ==
    ASSUME TypeOK, NEW call, Typed(call), NEW table,
           DOMAIN table \subseteq Nat, table \in [DOMAIN table -> Seq(Nat)],
           \A c \in DOMAIN table : Distinct(table[c]),
           call.l2.parent \in DOMAIN table
    PROVE  /\ DOMAIN Linked(table, call) = DOMAIN table
           /\ Linked(table, call) \in [DOMAIN table -> Seq(Nat)]
           /\ \A c \in DOMAIN table : /\ Distinct(Linked(table, call)[c])
                                      /\ Extends(Linked(table, call)[c], table[c])
           /\ Listed(call.l2.id, Linked(table, call)[call.l2.parent])
<1> DEFINE p == call.l2.parent
<1>1. call.l2.id \in Nat
  BY DEF Typed, L2Object
<1>2. /\ WithPartner(table[p], call.l2.id) \in Seq(Nat)
      /\ Distinct(WithPartner(table[p], call.l2.id))
      /\ Extends(WithPartner(table[p], call.l2.id), table[p])
      /\ Listed(call.l2.id, WithPartner(table[p], call.l2.id))
  BY <1>1, WithPartnerFits
<1>3. Linked(table, call) = [c \in DOMAIN table |->
          IF c = p THEN WithPartner(table[p], call.l2.id) ELSE table[c]]
  BY DEF Linked
<1>4. \A c \in DOMAIN table : Extends(table[c], table[c])
  BY DEF Extends
<1> QED BY <1>2, <1>3, <1>4

(* Every registration, however it ends.                                    *)
LEMMA Registration ==
    ASSUME Inv, NEW call, Typed(call), AddCustomNetwork(call)
    PROVE  /\ Inv' /\ Grown
           /\ \/ agreed' = agreed
              \/ /\ agreed' = agreed \cup {call.l2.id}
                 /\ call.l2.id \in DOMAIN l2' /\ l2'[call.l2.id] = call.l2.parent
                 /\ call.l2.parent \in DOMAIN l1'
                 /\ Listed(call.l2.id, l1'[call.l2.parent])
<1> DEFINE S == StoredL1(call)
<1>1. CASE L1Refused(call) /\ Raise /\ UNCHANGED <<l1, l2>>
  BY <1>1 DEF Inv, TypeOK, Grown, Extends, Raise
<1>2. CASE ~L1Refused(call) /\ L2Refused(call) /\ Raise /\ l1' = S /\ UNCHANGED l2
  <2>1. Inv' /\ Grown
    BY <1>2, StoreL1 DEF Inv, TypeOK, Grown, Extends, Raise
  <2> QED BY <1>2, <2>1 DEF Raise
<1>3. CASE /\ ~L1Refused(call) /\ ~L2Refused(call) /\ Raise
           /\ l1' = S /\ l2' = StoredL2(call)
  <2>1. Inv' /\ Grown
    BY <1>3, StoreL1, StoreL2 DEF Inv, TypeOK, Grown, Extends, Raise
  <2> QED BY <1>3, <2>1 DEF Raise
<1>4. CASE /\ ~L1Refused(call) /\ ~L2Refused(call)
           /\ call.l2.parent \in DOMAIN S
           /\ l1' = Linked(S, call) /\ l2' = StoredL2(call)
           /\ result' = "returned" /\ agreed' = agreed \cup {call.l2.id}
  <2>1. /\ DOMAIN S \subseteq Nat /\ S \in [DOMAIN S -> Seq(Nat)]
        /\ \A c \in DOMAIN S : Distinct(S[c])
        /\ DOMAIN l1 \subseteq DOMAIN S /\ \A c \in DOMAIN l1 : S[c] = l1[c]
        /\ NoNetwork \notin DOMAIN S
    BY <1>4, StoreL1 DEF Inv
  <2>2. /\ DOMAIN l1' = DOMAIN S /\ l1' \in [DOMAIN S -> Seq(Nat)]
        /\ \A c \in DOMAIN S : Distinct(l1'[c]) /\ Extends(l1'[c], S[c])
        /\ Listed(call.l2.id, l1'[call.l2.parent])
    BY <1>4, <2>1, LinkL1 DEF Inv
  <2>3. /\ DOMAIN l2' = DOMAIN l2 \cup {call.l2.id} /\ DOMAIN l2' \subseteq Nat
        /\ l2' \in [DOMAIN l2' -> Nat] /\ \A c \in DOMAIN l2 : l2'[c] = l2[c]
        /\ l2'[call.l2.id] = call.l2.parent
    BY <1>4, StoreL2 DEF Inv
  <2>4. Inv'
    BY <1>4, <2>1, <2>2, <2>3 DEF Inv, TypeOK
  <2>5. Grown
    BY <2>1, <2>2, <2>3 DEF Grown
  <2> QED BY <1>4, <2>1, <2>2, <2>3, <2>4, <2>5
<1> QED BY <1>1, <1>2, <1>3, <1>4 DEF AddCustomNetwork

LEMMA StepIsRegistration ==
    ASSUME Next
    PROVE  \E call \in Calls \cup {DefaultLocal} : Typed(call) /\ AddCustomNetwork(call)
BY CallsAssumption, DefaultIsTyped DEF Next, AddDefaultLocalNetwork, EnsureNetworks, Typed

LEMMA InvInit == Init => Inv
<1> SUFFICES ASSUME Init PROVE Inv
  OBVIOUS
<1>1. /\ DOMAIN l1 = {1, 1338, 5, 11155111}
      /\ l1 \in [DOMAIN l1 -> Seq(Nat)] /\ \A c \in DOMAIN l1 : Distinct(l1[c])
  BY DEF Init, BuiltinL1, Distinct
<1>2. DOMAIN l2 \subseteq Nat /\ l2 \in [DOMAIN l2 -> Nat]
  BY DEF Init, BuiltinL2
<1> QED BY <1>1, <1>2 DEF Init, Inv, TypeOK, NoNetwork

LEMMA InvStep == Inv /\ [Next]_vars => Inv'
<1>1. ASSUME Inv, Next PROVE Inv'
  BY <1>1, StepIsRegistration, Registration
<1>2. ASSUME Inv, UNCHANGED vars PROVE Inv'
  BY <1>2 DEF Inv, TypeOK, vars
<1> QED BY <1>1, <1>2

LEMMA InvHolds == Spec => []Inv
BY InvInit, InvStep, PTL DEF Spec

(* Both tables keep their types, no list of partners has one twice, and    *)
(* only registrations that returned are in agreed.                         *)
THEOREM TypeCorrect == Spec => []TypeOK
BY InvHolds, PTL DEF Inv

(* A network whose registration returned has, ever after, a recognized     *)
(* parent that lists it (networks.py:412-419).                             *)
THEOREM RegistrationsStay == Spec => []RegisteredAgree
<1>1. Init => RegisteredAgree
  BY DEF Init, RegisteredAgree
<1>2. ASSUME Inv, Inv', RegisteredAgree, [Next]_vars PROVE RegisteredAgree'
  <2>1. CASE UNCHANGED vars
    BY <1>2, <2>1 DEF RegisteredAgree, ParentOf, vars
  <2>2. CASE Next
    <3>1. PICK call \in Calls \cup {DefaultLocal} : Typed(call) /\ AddCustomNetwork(call)
      BY <2>2, StepIsRegistration
    <3>2. /\ Grown
          /\ \/ agreed' = agreed
             \/ /\ agreed' = agreed \cup {call.l2.id}
                /\ call.l2.id \in DOMAIN l2' /\ l2'[call.l2.id] = call.l2.parent
                /\ call.l2.parent \in DOMAIN l1'
                /\ Listed(call.l2.id, l1'[call.l2.parent])
      BY <1>2, <3>1, Registration
    <3>3. ASSUME NEW c \in agreed
          PROVE  /\ c \in DOMAIN l2' /\ l2'[c] \in DOMAIN l1'
                 /\ Listed(c, l1'[l2'[c]])
      <4>1. c \in DOMAIN l2 /\ l2[c] \in DOMAIN l1 /\ Listed(c, l1[l2[c]])
        BY <1>2 DEF RegisteredAgree, ParentOf, NoNetwork
      <4>2. Extends(l1'[l2[c]], l1[l2[c]]) /\ l2'[c] = l2[c]
        BY <3>2, <4>1 DEF Grown
      <4>3. l1[l2[c]] \in Seq(Nat) /\ l1'[l2[c]] \in Seq(Nat)
        BY <1>2, <3>2, <4>1 DEF Inv, TypeOK, Grown
      <4> QED BY <3>2, <4>1, <4>2, <4>3, AppendKeeps DEF Grown
    <3>4. \A c \in agreed' : /\ c \in DOMAIN l2' /\ l2'[c] \in DOMAIN l1'
                             /\ Listed(c, l1'[l2'[c]])
      BY <3>2, <3>3
    <3> QED BY <1>2, <3>4 DEF RegisteredAgree, ParentOf, Inv
  <2> QED BY <1>2, <2>1, <2>2
<1> QED BY <1>1, <1>2, InvHolds, PTL DEF Spec

(* The parent and the multicall contract a lookup has once returned it     *)
(* returns for the life of the process (networks.py:419).                  *)
THEOREM LookupsLast == Spec => AnswersLast
<1>1. ASSUME Inv, Inv', [Next]_vars, NEW c \in DOMAIN l1 \cup DOMAIN l2
      PROVE  /\ ParentOf(c) # NoNetwork => ParentOf(c)' = ParentOf(c)
             /\ MulticallOf(c) # NoNetwork => MulticallOf(c)' \in {MulticallOf(c), c}
  <2>1. CASE UNCHANGED vars
    BY <2>1 DEF ParentOf, MulticallOf, vars
  <2>2. CASE Next
    <3>1. Grown
      BY <1>1, <2>2, StepIsRegistration, Registration
    <3>2. ParentOf(c) # NoNetwork => ParentOf(c)' = ParentOf(c)
      BY <3>1 DEF Grown, ParentOf
    <3>3. ASSUME c \in DOMAIN l1, l1[c] # <<>> PROVE l1'[c] # <<>> /\ l1'[c][1] = l1[c][1]
      <4>1. l1[c] \in Seq(Nat) /\ l1'[c] \in Seq(Nat) /\ Extends(l1'[c], l1[c])
        BY <1>1, <3>1, <3>3 DEF Inv, TypeOK, Grown
      <4> QED BY <3>3, <4>1, AppendKeeps
    <3>4. MulticallOf(c) # NoNetwork => MulticallOf(c)' \in {MulticallOf(c), c}
      BY <3>1, <3>3 DEF Grown, MulticallOf
    <3> QED BY <3>2, <3>4
  <2> QED BY <1>1, <2>1, <2>2
<1>2. Inv /\ Inv' /\ [Next]_vars =>
        [\A c \in DOMAIN l1 \cup DOMAIN l2 :
           /\ ParentOf(c) # NoNetwork => ParentOf(c)' = ParentOf(c)
           /\ MulticallOf(c) # NoNetwork => MulticallOf(c)' \in {MulticallOf(c), c}]_vars
  BY <1>1
<1> QED BY <1>2, InvHolds, PTL DEF Spec, AnswersLast
=============================================================================
