------------------------- MODULE TicketRequest_proofs -------------------------
(***************************************************************************)
(* The properties of TicketRequest for all fees, prices, gas estimates and *)
(* dictionaries of callers.  The inductive invariant says what a request   *)
(* knows about itself: how the fields of its tickets came from what its    *)
(* call read, and what the call found when it tried the dummy ticket.      *)
(***************************************************************************)
EXTENDS TicketRequest, TLAPS

Outcomes == {"none", "noAllowance", "insufficientValue", "retryableData",
             "insufficientSubmission", "created"}
CallSet ==
    [kind : Kinds \cup {"approve"}, keeps : BOOLEAN, deposit : Values, value : Values,
     gateway : Gateways, trial : Gateways, limit : Dicts, fee : Nat, price : Nat,
     first : Tickets, tickets : Seq(Tickets)]
OutcomeSet ==
    [call : CallSet, result : Outcomes, fee : Nat, price : Nat, gateway : Gateways,
     redeemed : {"unknown", "yes", "no"}]

TypeInv ==
    /\ fee \in Nat /\ price \in Nat
    /\ gateway \in Gateways /\ approved \subseteq Gateways
    /\ overrides \in Dicts
    /\ pc \in {"idle", "gateway", "trial", "fee", "price", "gas", "ready", "sent"}
    /\ call \in CallSet /\ pending \subseteq CallSet /\ last \in OutcomeSet

\* What the arguments and the gateway that was read say of a call.
Args(c) ==
    /\ c.value.set => c.kind \in {"ether", "create"}
    /\ c.kind = "register" => c.limit = NoLimit /\ ~c.deposit.set
    /\ c.kind = "token" /\ c.gateway = "custom" => c.limit.min.set

Covered(t) == t.value >= t.sub + t.callValue + t.gas * t.maxFee

\* The tickets of a finished request.
Single(c) ==
    /\ Len(c.tickets) = 1
    /\ c.tickets[1].gas = AtLeast(Gas, c.limit.min.amount)
    /\ c.tickets[1].maxFee = 3 * c.price
    /\ c.tickets[1].sub = 4 * c.fee
    /\ c.kind = "token" \/ (~c.deposit.set /\ ~c.value.set) => Covered(c.tickets[1])
Double(c) ==
    /\ Len(c.tickets) = 2
    /\ c.tickets[1].sub = Gas
    /\ Covered(c.tickets[1]) /\ Covered(c.tickets[2])
Made(c) ==
    /\ c.kind \in {"ether", "approve"} => c.tickets = <<>>
    /\ c.kind \in {"create", "token", "gateways"} => Single(c)
    /\ c.kind = "register" => Double(c)

\* The gateway of a token's trial may take the token.
Allowed(c) == c.kind = "token" => c.trial \in approved

CallInv ==
    /\ Args(call)
    /\ call.kind = "register" /\ call.first # NoTicket => call.first.gas = Gas
    /\ pc # "ready" => call.tickets = <<>>
    /\ pc = "gateway" => call.kind \in {"approve", "token"}
    /\ pc \in {"trial", "fee", "price", "gas"} =>
          call.kind \in {"create", "token", "gateways", "register"}
    /\ pc \in {"fee", "price", "gas", "ready"} => Allowed(call)
    /\ pc = "ready" => Made(call)

LastInv == last.result # "none" => Args(last.call) /\ Made(last.call)

Inv ==
    /\ TypeInv /\ CallInv /\ LastInv
    /\ \A c \in pending : Args(c) /\ Made(c) /\ Allowed(c)
    /\ EstimateCoversRise /\ ValueCoversCosts /\ CustomGatewayHasGas
    /\ AllowanceLostToMove

-----------------------------------------------------------------------------
LEMMA ThreeAndFour ==
    \A n \in Nat : PercentIncrease(n, 200) = 3 * n /\ PercentIncrease(n, 300) = 4 * n
BY DEF PercentIncrease

LEMMA DictsTyped ==
    /\ NoLimit \in Dicts /\ NoValue \in Values
    /\ \A d \in Dicts : /\ d.min.amount \in Nat
                        /\ d.min.set => d.min.amount \in OwnMinima \cup {CustomGas}
    /\ \A d \in Dicts : WithMinimum(d) \in Dicts /\ WithMinimum(d).min.set
    /\ \A v \in Values : v.amount \in Nat /\ v.set \in BOOLEAN
<1>1. NoLimit \in Dicts /\ NoValue \in Values
  BY DEF Dicts, Values
<1>2. ASSUME NEW v \in Values PROVE v.amount \in Nat /\ v.set \in BOOLEAN
  <2>1. CASE v = NoValue
    BY <2>1 DEF NoValue
  <2>2. ASSUME NEW a \in OwnValues, v = [set |-> TRUE, amount |-> a]
        PROVE  v.amount \in Nat /\ v.set \in BOOLEAN
    BY <2>2, AmountsAssumption
  <2> QED BY <2>1, <2>2 DEF Values
<1>3. ASSUME NEW d \in Dicts
      PROVE  /\ d.min.amount \in Nat
             /\ d.min.set => d.min.amount \in OwnMinima \cup {CustomGas}
  <2>1. CASE d = NoLimit
    BY <2>1 DEF NoLimit, NoValue
  <2>2. ASSUME NEW m \in {NoValue} \cup {[set |-> TRUE, amount |-> a] : a \in OwnMinima \cup {CustomGas}},
               d = [entry |-> TRUE, min |-> m]
        PROVE  /\ d.min.amount \in Nat
               /\ d.min.set => d.min.amount \in OwnMinima \cup {CustomGas}
    <3>1. m = NoValue \/ \E a \in OwnMinima \cup {CustomGas} : m = [set |-> TRUE, amount |-> a]
      OBVIOUS
    <3>2. d.min = m
      BY <2>2
    <3> QED BY <3>1, <3>2, AmountsAssumption DEF NoValue
  <2> QED BY <2>1, <2>2 DEF Dicts
<1>4. ASSUME NEW d \in Dicts PROVE WithMinimum(d) \in Dicts /\ WithMinimum(d).min.set
  BY DEF Dicts, WithMinimum
<1> QED BY <1>1, <1>2, <1>3, <1>4

LEMMA NoCallTyped ==
    NoCall \in CallSet /\ Args(NoCall) /\ Made(NoCall) /\ NoOutcome \in OutcomeSet
BY DictsTyped DEF NoCall, CallSet, Args, Made, NoOutcome, OutcomeSet, Outcomes, NoTicket,
    Tickets, Gateways, Kinds, NoLimit, NoValue

(* The ticket made of a call's reads.                                      *)
LEMMA TicketFits ==
    ASSUME NEW c \in CallSet
    PROVE  LET t == TicketOf(c, Estimates(c))
           IN  /\ t \in Tickets
               /\ t.gas = AtLeast(Gas, c.limit.min.amount)
               /\ t.maxFee = 3 * c.price /\ t.sub = 4 * c.fee
               /\ c.kind = "token" \/ ~c.deposit.set => Covered(t)
<1> DEFINE g == AtLeast(Gas, c.limit.min.amount)
           m == 3 * c.price
           f == 4 * c.fee
           v == IF c.kind = "create" THEN CallValue ELSE 0
           d == IF c.deposit.set THEN c.deposit.amount ELSE g * m + f + v
           t == TicketOf(c, Estimates(c))
<1>1. c.limit \in Dicts /\ c.price \in Nat /\ c.fee \in Nat /\ c.deposit \in Values
  BY DEF CallSet
<1>2. g \in Nat /\ m \in Nat /\ f \in Nat /\ v \in Nat
  BY <1>1, DictsTyped, AmountsAssumption DEF AtLeast
<1>3. g * m \in Nat
  BY <1>2
<1>4. d \in Nat
  BY <1>1, <1>2, <1>3, DictsTyped
<1>5. t = [sub |-> f, gas |-> g, maxFee |-> m, callValue |-> v,
           value |-> IF c.kind = "token" THEN g * m + f ELSE d]
  BY <1>1, ThreeAndFour DEF TicketOf, Estimates, Deposit
<1>6. t \in Tickets
  BY <1>2, <1>3, <1>4, <1>5 DEF Tickets
<1>7. c.kind = "token" \/ ~c.deposit.set => Covered(t)
  <2>1. CASE c.kind = "token"
    BY <2>1, <1>2, <1>3, <1>5 DEF Covered
  <2>2. CASE c.kind # "token" /\ ~c.deposit.set
    BY <2>2, <1>2, <1>3, <1>5 DEF Covered
  <2> QED BY <2>1, <2>2
<1> QED BY <1>5, <1>6, <1>7

LEMMA RegistrationFits ==
    ASSUME NEW s \in Nat, NEW g \in Nat, NEW m \in Nat
    PROVE  LET t == RegistrationTicket(GasParams(s, g), m)
           IN  t \in Tickets /\ t.sub = s /\ Covered(t)
<1> DEFINE double == IF m = 1 THEN 2 * m ELSE m
<1>1. double \in Nat /\ g * double \in Nat
  OBVIOUS
<1>2. RegistrationTicket(GasParams(s, g), m) =
        [sub |-> s, gas |-> g, maxFee |-> double, callValue |-> 0, value |-> g * double + s]
  BY DEF RegistrationTicket, GasParams
<1> QED BY <1>1, <1>2 DEF Tickets, Covered

(* What the Inbox says of a finished request.                              *)
LEMMA Results ==
    ASSUME NEW c \in CallSet, Len(c.tickets) <= 2
    PROVE  /\ Result(c) \in Outcomes \ {"none"}
           /\ Result(c) = "noAllowance" => c.kind = "token" /\ gateway \notin approved
           /\ Result(c) = "created" => \A i \in DOMAIN c.tickets : Verdict(c.tickets[i]) = "created"
           /\ Result(c) \in {"insufficientValue", "insufficientSubmission"} =>
                 \E i \in DOMAIN c.tickets : Verdict(c.tickets[i]) = Result(c)
<1> DEFINE Bad == {i \in DOMAIN c.tickets : Verdict(c.tickets[i]) # "created"}
<1>1. CASE c.kind = "token" /\ gateway \notin approved
  BY <1>1 DEF Result, Outcomes
<1>2. CASE ~(c.kind = "token" /\ gateway \notin approved) /\ Bad = {}
  BY <1>2 DEF Result, Outcomes
<1>3. CASE ~(c.kind = "token" /\ gateway \notin approved) /\ Bad # {}
  <2> DEFINE First(i) == /\ Verdict(c.tickets[i]) # "created"
                         /\ \A j \in 1..(i - 1) : Verdict(c.tickets[j]) = "created"
  <2>1. DOMAIN c.tickets = 1..Len(c.tickets) /\ Len(c.tickets) \in Nat
    BY DEF CallSet
  <2>2. \E i \in DOMAIN c.tickets : First(i)
    <3>1. CASE Verdict(c.tickets[1]) # "created" /\ 1 \in DOMAIN c.tickets
      <4>1. First(1)
        BY <3>1
      <4> QED BY <3>1, <4>1
    <3>2. CASE ~(Verdict(c.tickets[1]) # "created" /\ 1 \in DOMAIN c.tickets)
      <4>1. 2 \in DOMAIN c.tickets /\ Verdict(c.tickets[2]) # "created"
        BY <1>3, <2>1, <3>2
      <4>2. Verdict(c.tickets[1]) = "created"
        BY <2>1, <3>2, <4>1
      <4>3. First(2)
        BY <4>1, <4>2
      <4> QED BY <4>1, <4>3
    <3> QED BY <3>1, <3>2
  <2>3. PICK i \in DOMAIN c.tickets : Verdict(c.tickets[i]) = Result(c) /\ Result(c) # "created"
    BY <1>3, <2>2 DEF Result
  <2>4. Result(c) \in Outcomes \ {"none", "noAllowance"}
    BY <2>3 DEF Verdict, Outcomes
  <2> QED BY <2>3, <2>4
<1> QED BY <1>1, <1>2, <1>3

-----------------------------------------------------------------------------
LEMMA InvInit == Init => Inv
<1> SUFFICES ASSUME Init PROVE Inv
  OBVIOUS
<1>1. TypeInv
  BY AmountsAssumption, NoCallTyped DEF Init, TypeInv
<1>2. CallInv /\ LastInv
  BY NoCallTyped DEF Init, CallInv, LastInv, NoCall, NoOutcome
<1>3. /\ EstimateCoversRise /\ ValueCoversCosts /\ CustomGatewayHasGas
      /\ AllowanceLostToMove
  BY DEF Init, NoOutcome, NoCall, EstimateCoversRise, Estimated, ValueCoversCosts,
     CustomGatewayHasGas, AllowanceLostToMove
<1> QED BY <1>1, <1>2, <1>3 DEF Init, Inv

\* The four properties speak of last alone.
OfLast ==
    /\ LastInv /\ EstimateCoversRise /\ ValueCoversCosts /\ CustomGatewayHasGas
    /\ AllowanceLostToMove

LEMMA LastKept == ASSUME OfLast, last' = last PROVE OfLast'
BY DEF OfLast, LastInv, Args, Made, Single, Double, Covered, EstimateCoversRise, Estimated,
   ValueCoversCosts, CustomGatewayHasGas, AllowanceLostToMove

(* The chain includes a transaction: its outcome has all the properties.   *)
LEMMA IncludeStep == ASSUME Inv, NEW c \in pending, Include(c) PROVE Inv'
<1> DEFINE o == last'
<1>1. c \in CallSet /\ Args(c) /\ Made(c) /\ Allowed(c)
  BY DEF Inv, TypeInv
<1>2. o = [call |-> c, result |-> Result(c), fee |-> fee, price |-> 0,
           gateway |-> gateway, redeemed |-> "unknown"]
  BY DEF Include
<1>3. Len(c.tickets) <= 2 /\ c.tickets \in Seq(Tickets)
  <2>1. c.kind \in Kinds \cup {"approve"} /\ c.tickets \in Seq(Tickets)
    BY <1>1 DEF CallSet
  <2>2. c.kind \in {"ether", "approve"} => Len(c.tickets) = 0
    BY <1>1 DEF Made
  <2>3. c.kind \in {"create", "token", "gateways"} => Len(c.tickets) = 1
    BY <1>1 DEF Made, Single
  <2>4. c.kind = "register" => Len(c.tickets) = 2
    BY <1>1 DEF Made, Double
  <2>5. c.kind \in {"ether", "approve"} \/ c.kind \in {"create", "token", "gateways"}
          \/ c.kind = "register"
    BY <2>1 DEF Kinds
  <2>6. Len(c.tickets) \in {0, 1, 2}
    BY <2>2, <2>3, <2>4, <2>5
  <2>7. Len(c.tickets) <= 2
    <3>1. \A n : n \in {0, 1, 2} => n <= 2
      OBVIOUS
    <3> QED BY <2>6, <3>1, Zenon
  <2>8. c.tickets \in Seq(Tickets)
    BY <2>1
  <2> QED BY <2>7, <2>8
<1>4. TypeInv'
  <2>1. o \in OutcomeSet
    BY <1>1, <1>2, <1>3, Results DEF OutcomeSet, Inv, TypeInv
  <2>2. approved' \subseteq Gateways
    BY <1>1 DEF Inv, TypeInv, Include, CallSet
  <2> QED BY <2>1, <2>2 DEF Inv, TypeInv, Include
<1>5. CallInv'
  BY DEF Inv, CallInv, Include, Allowed, Args, Made, Single, Double, Covered
<1>6. \A k \in pending' : Args(k) /\ Made(k) /\ Allowed(k)'
  BY DEF Inv, Include, Allowed
<1>7. LastInv'
  BY <1>1, <1>2 DEF LastInv, Args, Made, Single, Double, Covered
<1>8. EstimateCoversRise'
  <2> SUFFICES ASSUME c.kind \in {"create", "token", "gateways"},
                      Result(c) = "insufficientSubmission"
               PROVE  fee > 4 * c.fee
    BY <1>2 DEF EstimateCoversRise, Estimated
  <2>1. Single(c)
    BY <1>1 DEF Made
  <2>2. PICK i \in DOMAIN c.tickets : Verdict(c.tickets[i]) = "insufficientSubmission"
    BY <1>1, <1>3, Results
  <2>3. i = 1
    BY <1>3, <2>1, <2>2 DEF Single
  <2>4. c.tickets[1].sub < fee
    BY <2>2, <2>3 DEF Verdict
  <2>5. c.tickets[1].sub = 4 * c.fee /\ c.fee \in Nat /\ fee \in Nat
    BY <1>1, <2>1 DEF Single, CallSet, Inv, TypeInv
  <2> QED BY <2>4, <2>5
<1>9. ValueCoversCosts'
  <2> SUFFICES ASSUME Result(c) = "insufficientValue"
               PROVE  (c.deposit.set \/ c.value.set) /\ c.kind \notin {"token", "register"}
    BY <1>2 DEF ValueCoversCosts
  <2>1. PICK i \in DOMAIN c.tickets : Verdict(c.tickets[i]) = "insufficientValue"
    BY <1>1, <1>3, Results
  <2>2. c.tickets[i] \in Tickets /\ i \in 1..Len(c.tickets)
    BY <1>3
  <2>3. ~Covered(c.tickets[i])
    <3> DEFINE t == c.tickets[i]
    <3>1. t.value < t.sub + t.callValue + t.gas * t.maxFee
      BY <2>1 DEF Verdict
    <3>2. t.value \in Nat /\ t.sub \in Nat /\ t.callValue \in Nat /\ t.gas \in Nat /\ t.maxFee \in Nat
      BY <2>2 DEF Tickets
    <3>3. t.gas * t.maxFee \in Nat
      BY <3>2
    <3> QED BY <3>1, <3>2, <3>3 DEF Covered
  <2>4. c.kind \in Kinds \cup {"approve"}
    BY <1>1 DEF CallSet
  <2>5. c.kind \notin {"ether", "approve"}
    BY <1>1, <2>2 DEF Made
  <2>6. c.kind # "register"
    <3> SUFFICES ASSUME Double(c) PROVE FALSE
      BY <1>1 DEF Made
    <3>1. i \in {1, 2}
      BY <2>2 DEF Double
    <3> QED BY <2>3, <3>1 DEF Double
  <2>7. Single(c) /\ i = 1
    BY <1>1, <2>2, <2>4, <2>5, <2>6 DEF Made, Single, Kinds
  <2> QED BY <2>3, <2>6, <2>7 DEF Single
<1>10. CustomGatewayHasGas'
  <2> SUFFICES ASSUME c.kind = "token", c.gateway = "custom"
               PROVE  \/ c.tickets[1].gas >= CustomGas
                      \/ c.limit.min.set /\ c.limit.min.amount \in OwnMinima
    BY <1>2 DEF CustomGatewayHasGas
  <2>1. c.limit.min.set /\ c.tickets[1].gas = AtLeast(Gas, c.limit.min.amount)
    BY <1>1 DEF Args, Made, Single
  <2>2. c.limit.min.amount \in OwnMinima \cup {CustomGas}
    BY <1>1, <2>1, DictsTyped DEF CallSet
  <2> QED BY <2>1, <2>2, AmountsAssumption DEF AtLeast
<1>11. AllowanceLostToMove'
  BY <1>1, <1>2, <1>3, Results DEF AllowanceLostToMove, Allowed
<1> QED
  BY <1>4, <1>5, <1>6, <1>7, <1>8, <1>9, <1>10, <1>11
  DEF Inv, Args, Made, Single, Double, Covered

(* The ticket arrives on L2.                                               *)
LEMMA ArriveStep == ASSUME Inv, Arrive PROVE Inv'
<1>1. last \in OutcomeSet /\ price \in Nat
  BY DEF Inv, TypeInv
<1>2. /\ last.result = "created"
      /\ last'.call = last.call /\ last'.result = last.result /\ last'.fee = last.fee
      /\ last'.gateway = last.gateway /\ last'.price = price
      /\ last'.redeemed = IF \A i \in DOMAIN last.call.tickets :
                                  last.call.tickets[i].maxFee >= price
                                  /\ last.call.tickets[i].gas >= Gas
                           THEN "yes" ELSE "no"
      /\ last' \in OutcomeSet
  BY <1>1 DEF Arrive, OutcomeSet
<1>3. TypeInv' /\ CallInv' /\ \A c \in pending' : Args(c) /\ Made(c) /\ Allowed(c)'
  BY <1>2 DEF Inv, TypeInv, CallInv, Arrive, Allowed, Args, Made, Single, Double, Covered
<1>4. LastInv'
  BY <1>2 DEF Inv, LastInv, Args, Made, Single, Double, Covered
<1>5. EstimateCoversRise'
  <2> SUFFICES ASSUME last.call.kind \in {"create", "token", "gateways"}, last'.redeemed = "no"
               PROVE  price > 3 * last.call.price
    BY <1>2 DEF EstimateCoversRise, Estimated
  <2>1. Single(last.call)
    BY <1>2 DEF Inv, LastInv, Made
  <2>2. last.call \in CallSet
    BY <1>1 DEF OutcomeSet
  <2>3. last.call.limit.min.amount \in Nat /\ last.call.price \in Nat
    BY <2>2, DictsTyped DEF CallSet
  <2>4. last.call.tickets[1].gas >= Gas
    BY <2>1, <2>3, AmountsAssumption DEF Single, AtLeast
  <2>5. DOMAIN last.call.tickets = {1}
    BY <2>1, <2>2 DEF Single, CallSet
  <2>6. ~(last.call.tickets[1].maxFee >= price)
    BY <1>2, <2>4, <2>5
  <2> QED BY <1>1, <2>1, <2>3, <2>6 DEF Single
<1>6. /\ ValueCoversCosts' /\ CustomGatewayHasGas' /\ AllowanceLostToMove'
  BY <1>2 DEF Inv, ValueCoversCosts, CustomGatewayHasGas, AllowanceLostToMove
<1> QED BY <1>3, <1>4, <1>5, <1>6 DEF Inv, Args, Made, Single, Double, Covered

(* The steps of the call itself, which leave the chain and last alone.     *)
LEMMA CallStep ==
    ASSUME Inv, UNCHANGED <<fee, price, gateway, approved, last>>,
           overrides' \in Dicts, call' \in CallSet,
           pc' \in {"idle", "gateway", "trial", "fee", "price", "gas", "ready", "sent"},
           pending' \in SUBSET CallSet,
           \A c \in pending' : Args(c) /\ Made(c) /\ Allowed(c),
           CallInv'
    PROVE  Inv'
<1>1. TypeInv'
  BY DEF Inv, TypeInv
<1>2. OfLast'
  BY LastKept DEF Inv, OfLast
<1>3. \A c \in pending' : Args(c) /\ Made(c) /\ Allowed(c)'
  BY DEF Allowed
<1> QED BY <1>1, <1>2, <1>3 DEF Inv, OfLast, Args, Made, Single, Double, Covered

LEMMA ReadGatewayStep == ASSUME Inv, ReadGateway PROVE Inv'
<1> DEFINE limit == IF call.kind = "token" /\ gateway = "custom"
                    THEN WithMinimum(call.limit) ELSE call.limit
<1>1. call \in CallSet /\ gateway \in Gateways /\ overrides \in Dicts
  BY DEF Inv, TypeInv
<1>2. limit \in Dicts /\ (call.kind = "token" /\ gateway = "custom" => limit.min.set)
  BY <1>1, DictsTyped DEF CallSet
<1>3. call' = [call EXCEPT !.gateway = gateway, !.limit = limit] /\ overrides' \in Dicts
  BY <1>1, <1>2 DEF ReadGateway
<1>4. call' \in CallSet
  BY <1>1, <1>2, <1>3 DEF CallSet
<1>5. Args(call')
  BY <1>1, <1>2, <1>3 DEF Args, CallSet, Inv, CallInv
<1>6. CallInv'
  <2>1. /\ pc' = (IF call.kind = "token" THEN "trial" ELSE "ready")
        /\ call'.kind = call.kind /\ call'.tickets = call.tickets /\ call'.first = call.first
    BY <1>1, <1>3 DEF ReadGateway, CallSet
  <2>2. call.kind \in {"approve", "token"} /\ call.tickets = <<>>
    BY DEF Inv, CallInv, ReadGateway
  <2> QED BY <1>5, <2>1, <2>2 DEF CallInv, Args, Allowed, Made
<1> QED BY <1>3, <1>4, <1>6, CallStep DEF ReadGateway, quiet, Inv, TypeInv

LEMMA NoCallInv == ASSUME call' = NoCall, pc' \in {"idle", "sent"} PROVE CallInv'
BY NoCallTyped DEF CallInv, NoCall, Args

LEMMA ReadStep == ASSUME Inv, TryDummy \/ ReadFee \/ ReadPrice PROVE Inv'
<1>1. /\ call \in CallSet /\ gateway \in Gateways /\ fee \in Nat /\ price \in Nat
      /\ overrides \in Dicts /\ pending \in SUBSET CallSet
      /\ \A c \in pending : Args(c) /\ Made(c) /\ Allowed(c)
  BY DEF Inv, TypeInv
<1>2. CASE TryDummy /\ ~Parsed(call)
  <2>1. pc' = "idle" /\ call' = NoCall
    BY <1>2 DEF TryDummy
  <2> QED BY <1>1, <1>2, <2>1, NoCallTyped, NoCallInv, CallStep DEF TryDummy, quiet
<1>3. CASE TryDummy /\ Parsed(call)
  <2>1. pc' = "fee" /\ call' = [call EXCEPT !.trial = gateway]
    BY <1>3 DEF TryDummy
  <2>2. call' \in CallSet
    BY <1>1, <2>1 DEF CallSet
  <2>3. call.kind = "token" => gateway \in approved
    BY <1>1, <1>3 DEF Parsed, Result, CallSet
  <2>4. CallInv'
    BY <1>1, <1>3, <2>1, <2>3 DEF CallInv, Inv, Args, Allowed, CallSet, TryDummy, quiet
  <2> QED BY <1>1, <1>3, <2>1, <2>2, <2>4, CallStep DEF TryDummy, quiet
<1>4. CASE ReadFee
  <2>1. call' \in CallSet
    BY <1>1, <1>4 DEF ReadFee, CallSet
  <2>2. CallInv'
    BY <1>1, <1>4 DEF CallInv, Inv, Args, Allowed, CallSet, ReadFee, quiet
  <2> QED BY <1>1, <1>4, <2>1, <2>2, CallStep DEF ReadFee, quiet
<1>5. CASE ReadPrice
  <2>1. call' \in CallSet
    BY <1>1, <1>5 DEF ReadPrice, CallSet
  <2>2. CallInv'
    BY <1>1, <1>5 DEF CallInv, Inv, Args, Allowed, CallSet, ReadPrice, quiet
  <2> QED BY <1>1, <1>5, <2>1, <2>2, CallStep DEF ReadPrice, quiet
<1> QED BY <1>2, <1>3, <1>4, <1>5

LEMMA EstimateStep == ASSUME Inv, EstimateGas PROVE Inv'
<1> DEFINE t == TicketOf(call, Estimates(call))
<1>1. /\ call \in CallSet /\ overrides \in Dicts /\ pending \in SUBSET CallSet
      /\ \A c \in pending : Args(c) /\ Made(c) /\ Allowed(c)
      /\ Args(call) /\ Allowed(call)
      /\ call.kind \in {"create", "token", "gateways", "register"}
  BY DEF Inv, TypeInv, CallInv, EstimateGas
<1>2. /\ t \in Tickets
      /\ t.gas = AtLeast(Gas, call.limit.min.amount)
      /\ t.maxFee = 3 * call.price /\ t.sub = 4 * call.fee
      /\ call.kind = "token" \/ ~call.deposit.set => Covered(t)
  BY <1>1, TicketFits
<1>3. call.kind = "register" => t.gas = Gas
  BY <1>1, <1>2, AmountsAssumption DEF Args, NoLimit, NoValue, AtLeast
<1>4. CASE call.kind = "register" /\ call.first = NoTicket
  <2>1. pc' = "trial" /\ call' = [call EXCEPT !.first = t]
    BY <1>4 DEF EstimateGas
  <2>2. call' \in CallSet
    BY <1>1, <1>2, <2>1 DEF CallSet
  <2>3. /\ call'.kind = call.kind /\ call'.tickets = call.tickets /\ call'.first = t
        /\ call'.limit = call.limit /\ call'.deposit = call.deposit /\ call'.value = call.value
        /\ call'.gateway = call.gateway
    BY <1>1, <2>1 DEF CallSet
  <2>4. call.tickets = <<>>
    BY DEF Inv, CallInv, EstimateGas
  <2>5. CallInv'
    BY <1>1, <1>3, <1>4, <2>1, <2>3, <2>4 DEF CallInv, Args
  <2> QED BY <1>1, <2>1, <2>2, <2>5, CallStep DEF EstimateGas, quiet
<1>5. CASE ~(call.kind = "register" /\ call.first = NoTicket)
  <2> DEFINE ts == TicketsFor(call, t)
  <2>1. pc' = "ready" /\ call' = [call EXCEPT !.first = NoTicket, !.tickets = ts]
    BY <1>5 DEF EstimateGas
  <2>2. ts \in Seq(Tickets) /\ (call.kind = "register" => Len(ts) = 2 /\ ts[1].sub = Gas
                                     /\ Covered(ts[1]) /\ Covered(ts[2]))
    <3>1. CASE call.kind # "register"
      BY <1>2, <3>1 DEF TicketsFor
    <3>2. CASE call.kind = "register"
      <4>1. call.first \in Tickets /\ call.first.gas = Gas
        BY <1>1, <1>5, <3>2 DEF CallSet, Inv, CallInv
      <4>2. /\ call.first.sub \in Nat /\ call.first.gas \in Nat
            /\ t.gas \in Nat /\ t.sub \in Nat /\ t.maxFee \in Nat
        BY <1>2, <4>1 DEF Tickets
      <4> DEFINE one == RegistrationTicket(GasParams(call.first.gas, call.first.sub), t.maxFee)
                 two == RegistrationTicket(GasParams(t.gas, t.sub), t.maxFee)
      <4>3. one \in Tickets /\ one.sub = Gas /\ Covered(one)
        BY <4>1, <4>2, RegistrationFits
      <4>4. two \in Tickets /\ Covered(two)
        BY <4>2, RegistrationFits
      <4>5. ts = <<one, two>>
        BY <3>2 DEF TicketsFor
      <4> HIDE DEF one, two
      <4> QED BY <4>3, <4>4, <4>5
    <3> QED BY <3>1, <3>2
  <2>3. call.kind # "register" => ts = <<t>>
    BY DEF TicketsFor
  <2> HIDE DEF ts, t
  <2>4. call' \in CallSet
    <3>1. NoTicket \in Tickets
      BY DEF NoTicket, Tickets
    <3> QED BY <1>1, <2>1, <2>2, <3>1 DEF CallSet
  <2>5. /\ call'.kind = call.kind /\ call'.tickets = ts /\ call'.first = NoTicket
        /\ call'.limit = call.limit /\ call'.deposit = call.deposit /\ call'.value = call.value
        /\ call'.gateway = call.gateway /\ call'.trial = call.trial
        /\ call'.fee = call.fee /\ call'.price = call.price
    BY <1>1, <2>1 DEF CallSet
  <2>6. Made(call')
    <3>1. call.kind # "register" => Single(call')
      BY <1>2, <2>3, <2>5 DEF Single
    <3>2. call.kind = "register" => Double(call')
      BY <2>2, <2>5 DEF Double
    <3> QED BY <1>1, <2>5, <3>1, <3>2 DEF Made
  <2>7. Made(call)'
    BY <2>6 DEF Made, Single, Double, Covered
  <2>8. CallInv'
    BY <1>1, <2>1, <2>5, <2>7 DEF CallInv, Args, Allowed, EstimateGas, quiet
  <2> QED BY <1>1, <2>1, <2>4, <2>8, CallStep DEF EstimateGas, quiet
<1> QED BY <1>4, <1>5

LEMMA SendStep == ASSUME Inv, SendTransaction PROVE Inv'
<1>1. /\ call \in CallSet /\ overrides \in Dicts
      /\ Args(call) /\ Allowed(call) /\ Made(call)
  BY DEF Inv, TypeInv, CallInv, SendTransaction
<1>2. Sent \in CallSet /\ Args(Sent) /\ Made(Sent) /\ Allowed(Sent)
  <2>1. CASE ~(call.value.set /\ call.tickets # <<>>)
    BY <1>1, <2>1 DEF Sent
  <2>2. CASE call.value.set /\ call.tickets # <<>>
    <3> DEFINE v == call.value.amount
               t == [call.tickets[1] EXCEPT !.value = v]
               ts == [call.tickets EXCEPT ![1] = t]
    <3>1. call.kind = "create"
      BY <1>1, <2>2 DEF Args, Made
    <3>2. Single(call) /\ call.tickets \in Seq(Tickets) /\ v \in Nat
      BY <1>1, <3>1, DictsTyped DEF Made, CallSet
    <3>3. call.tickets[1] \in Tickets
      BY <3>2 DEF Single
    <3>4. /\ t \in Tickets /\ t.gas = call.tickets[1].gas /\ t.maxFee = call.tickets[1].maxFee
          /\ t.sub = call.tickets[1].sub
      BY <3>2, <3>3 DEF Tickets
    <3> HIDE DEF t
    <3>5. ts \in Seq(Tickets) /\ Len(ts) = 1 /\ ts[1] = t
      BY <3>2, <3>4 DEF Single
    <3>6. Sent = [call EXCEPT !.tickets = ts]
      BY <2>2 DEF Sent, t
    <3> HIDE DEF ts
    <3>7. /\ Sent \in CallSet
          /\ Sent.kind = call.kind /\ Sent.tickets = ts /\ Sent.limit = call.limit
          /\ Sent.deposit = call.deposit /\ Sent.value = call.value
          /\ Sent.gateway = call.gateway /\ Sent.trial = call.trial
          /\ Sent.fee = call.fee /\ Sent.price = call.price
      BY <1>1, <3>5, <3>6 DEF CallSet
    <3>8. Single(Sent)
      BY <2>2, <3>1, <3>2, <3>4, <3>5, <3>7 DEF Single
    <3> QED BY <1>1, <3>1, <3>7, <3>8 DEF Args, Made, Allowed
  <2> QED BY <2>1, <2>2
<1>3. pending' = {Sent} /\ pc' = "sent" /\ call' = NoCall
  BY DEF SendTransaction
<1> QED BY <1>1, <1>2, <1>3, NoCallTyped, NoCallInv, CallStep DEF SendTransaction, quiet

(* A new call: nothing is known of it but its arguments.                   *)
LEMMA NewCallStep ==
    ASSUME Inv, NEW kind \in Kinds \cup {"approve"}, NEW keeps \in BOOLEAN,
           NEW d \in Values, NEW v \in Values, Call(kind, keeps, d, v)
    PROVE  Inv'
<1> DEFINE limit == IF keeps THEN overrides ELSE NoLimit
<1>1. /\ overrides \in Dicts /\ pending = {} /\ last' = NoOutcome
      /\ call' = [NoCall EXCEPT !.kind = kind, !.keeps = keeps, !.deposit = d,
                               !.value = v, !.limit = limit]
  BY DEF Inv, TypeInv, Call
<1>2. limit \in Dicts
  BY <1>1, DictsTyped
<1>3. /\ call' \in CallSet
      /\ call'.kind = kind /\ call'.deposit = d /\ call'.value = v /\ call'.limit = limit
      /\ call'.gateway = "standard" /\ call'.first = NoTicket /\ call'.tickets = <<>>
  <2>1. NoCall \in CallSet
    BY NoCallTyped
  <2> QED BY <1>1, <1>2, <2>1 DEF CallSet, NoCall
<1>4. TypeInv'
  BY <1>1, <1>3, NoCallTyped DEF Inv, TypeInv, Call
<1>5. Args(call')
  BY <1>3 DEF Args, Call
<1>6. CallInv'
  BY <1>3, <1>5 DEF CallInv, Call, Args, Allowed, Made, Kinds
<1>7. OfLast'
  BY <1>1 DEF OfLast, LastInv, NoOutcome, NoCall, EstimateCoversRise, Estimated,
     ValueCoversCosts, CustomGatewayHasGas, AllowanceLostToMove
<1> QED BY <1>1, <1>4, <1>6, <1>7 DEF Inv, OfLast, Call

LEMMA InvStep == Inv /\ [Next]_vars => Inv'
<1> SUFFICES ASSUME Inv, [Next]_vars PROVE Inv'
  OBVIOUS
<1>1. /\ overrides \in Dicts /\ call \in CallSet /\ pending \in SUBSET CallSet /\ CallInv
      /\ \A c \in pending : Args(c) /\ Made(c) /\ Allowed(c)
      /\ pc \in {"idle", "gateway", "trial", "fee", "price", "gas", "ready", "sent"}
  BY DEF Inv, TypeInv
<1>2. CASE ChainMoves
  <2>1. TypeInv'
    BY <1>2, AmountsAssumption DEF Inv, TypeInv, ChainMoves, FeeMoves, PriceMoves, GatewayMoves
  <2>2. OfLast'
    BY <1>2, LastKept DEF Inv, OfLast, ChainMoves
  <2>3. CallInv' /\ \A c \in pending' : Args(c) /\ Made(c) /\ Allowed(c)'
    BY <1>1, <1>2 DEF ChainMoves, CallInv, Allowed, Args, Made, Single, Double, Covered
  <2> QED BY <2>1, <2>2, <2>3 DEF Inv, OfLast, Args, Made, Single, Double, Covered
<1>3. CASE SendReverts
  BY <1>1, <1>3, NoCallTyped, NoCallInv, CallStep DEF SendReverts, quiet, TypeInv, Inv
<1>4. CASE RpcError
  BY <1>1, <1>4, NoCallTyped, NoCallInv, CallStep DEF RpcError, quiet
<1>5. CASE ReceiptReturns \/ ReceiptTimesOut
  <2>1. CallInv'
    BY <1>1, <1>5 DEF ReceiptReturns, ReceiptTimesOut, CallInv, Args
  <2> QED BY <1>1, <1>5, <2>1, CallStep DEF ReceiptReturns, ReceiptTimesOut, quiet
<1>6. CASE UNCHANGED vars
  <2>1. CallInv'
    BY <1>1, <1>6 DEF vars, CallInv, Args, Allowed, Made, Single, Double, Covered
  <2> QED BY <1>1, <1>6, <2>1, CallStep DEF vars
<1>7. CASE \E c \in pending : Include(c)
  BY <1>7, IncludeStep
<1>8. CASE \E kind \in Kinds \cup {"approve"}, keeps \in BOOLEAN, d, v \in Values :
               Call(kind, keeps, d, v)
  BY <1>8, NewCallStep
<1> QED BY <1>2, <1>3, <1>4, <1>5, <1>6, <1>7, <1>8, ArriveStep, ReadGatewayStep, ReadStep,
          EstimateStep, SendStep DEF Next

LEMMA InvHolds == Spec => []Inv
BY InvInit, InvStep, PTL DEF Spec

(* The fee and the gas price keep to the values the chains go through; the *)
(* bounds that the proofs above need of them are weaker.                   *)
FeesTyped == fee \in Fees /\ price \in Prices

LEMMA FeesStep == FeesTyped /\ [Next]_vars => FeesTyped'
<1> SUFFICES ASSUME FeesTyped, [Next]_vars PROVE FeesTyped'
  OBVIOUS
<1>1. CASE ChainMoves
  BY <1>1 DEF FeesTyped, ChainMoves, FeeMoves, PriceMoves, GatewayMoves
<1>2. ASSUME UNCHANGED <<fee, price>> PROVE FeesTyped'
  BY <1>2 DEF FeesTyped
<1>3. CASE \E c \in pending : Include(c)
  BY <1>2, <1>3 DEF Include
<1>4. CASE \E kind \in Kinds \cup {"approve"}, keeps \in BOOLEAN, d, v \in Values :
               Call(kind, keeps, d, v)
  BY <1>2, <1>4 DEF Call
<1>5. CASE UNCHANGED vars
  BY <1>2, <1>5 DEF vars
<1>6. CASE \/ Arrive \/ ReadGateway \/ TryDummy \/ ReadFee \/ ReadPrice \/ EstimateGas
           \/ SendTransaction \/ SendReverts \/ ReceiptReturns \/ ReceiptTimesOut \/ RpcError
  BY <1>2, <1>6 DEF quiet, Arrive, ReadGateway, TryDummy, ReadFee, ReadPrice, EstimateGas,
     SendTransaction, SendReverts, ReceiptReturns, ReceiptTimesOut, RpcError
<1> QED BY <1>1, <1>3, <1>4, <1>5, <1>6 DEF Next

(* A finished request has the tickets of its kind.                         *)
LEMMA RequestIsTyped == Inv /\ FeesTyped => TypeOK
<1> SUFFICES ASSUME Inv, FeesTyped PROVE TypeOK
  OBVIOUS
<1>1. /\ call.kind \in Kinds \cup {"approve"} /\ call.limit \in Dicts
      /\ call.tickets \in Seq(Tickets)
      /\ \A t \in pending : t.kind \in Kinds \cup {"approve"}
  BY DEF Inv, TypeInv, CallSet
<1>2. pc = "ready" => Len(call.tickets) =
          CASE call.kind \in {"ether", "approve"} -> 0 [] call.kind = "register" -> 2 [] OTHER -> 1
  <2> SUFFICES ASSUME pc = "ready", Made(call)
               PROVE  Len(call.tickets) =
                   CASE call.kind \in {"ether", "approve"} -> 0
                     [] call.kind = "register" -> 2 [] OTHER -> 1
    BY DEF Inv, CallInv
  <2>1. CASE call.kind \in {"ether", "approve"}
    BY <2>1 DEF Made
  <2>2. CASE call.kind = "register"
    BY <2>2 DEF Made, Double
  <2>3. CASE call.kind \in {"create", "token", "gateways"}
    BY <2>3 DEF Made, Single
  <2> QED BY <1>1, <2>1, <2>2, <2>3 DEF Kinds
<1> QED BY <1>1, <1>2 DEF Inv, TypeInv, FeesTyped, TypeOK

(* A call's state is well typed; its request has no ticket, one or two, as *)
(* its kind asks for.                                                      *)
THEOREM TypeCorrect == Spec => []TypeOK
<1>1. Init => FeesTyped
  BY DEF Init, FeesTyped
<1> QED BY <1>1, FeesStep, RequestIsTyped, InvHolds, PTL DEF Spec

(* A request is good for four times the submission fee and three times the *)
(* gas price it was estimated at (the default increases, GasOverrides).    *)
THEOREM EstimatesCover == Spec => []EstimateCoversRise
BY InvHolds, PTL DEF Inv

(* The value sent pays for the ticket, unless the caller set it himself.   *)
THEOREM ValuesCover == Spec => []ValueCoversCosts
BY InvHolds, PTL DEF Inv

(* A custom gateway's deposit carries its minimum of gas.                  *)
THEOREM MinimumIsKept == Spec => []CustomGatewayHasGas
BY InvHolds, PTL DEF Inv

(* A missing allowance is due to a gateway that moved after the estimate.  *)
THEOREM MoveLosesAllowance == Spec => []AllowanceLostToMove
BY InvHolds, PTL DEF Inv
=============================================================================
