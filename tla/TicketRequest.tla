---------------------------- MODULE TicketRequest ----------------------------
(***************************************************************************)
(* From a deposit to a retryable ticket: message/l1_to_l2_message_-        *)
(* gas_estimator.py and l1_to_l2_message_creator.py, and the calls that    *)
(* build their requests on them, EthBridger.deposit, deposit_to,           *)
(* Erc20Bridger.approve_token, deposit, AdminErc20Bridger.set_gateways and *)
(* register_custom_token.                                                  *)
(*                                                                         *)
(* A request is estimated by several reads, held by the caller for as long *)
(* as he likes, sent, and executed by the Inbox when it is included; base  *)
(* fee, gas price and the token's gateway change in between.               *)
(***************************************************************************)
EXTENDS Naturals, Sequences

CONSTANTS
    Fees,        \* submission fees the L1 base fee goes through
    Prices,      \* L2 gas prices
    Gas,         \* what the node estimates a retryable ticket to use
    CustomGas,   \* MIN_CUSTOM_DEPOSIT_GAS_LIMIT
    CallValue,   \* l2CallValue of a ticket created directly
    OwnValues,   \* deposits and values callers set themselves
    OwnMinima    \* gasLimit.min of the overrides callers pass

ASSUME AmountsAssumption ==
    /\ Fees \subseteq Nat \ {0} /\ Fees # {}
    /\ Prices \subseteq Nat \ {0} /\ Prices # {}
    /\ Gas \in Nat /\ Gas > 1
    /\ CustomGas \in Nat /\ CallValue \in Nat
    /\ OwnValues \subseteq Nat /\ OwnMinima \subseteq Nat

Gateways == {"standard", "custom"}
Kinds == {"ether", "create", "token", "gateways", "register"}

NoValue == [set |-> FALSE, amount |-> 0]
Values == {NoValue} \cup {[set |-> TRUE, amount |-> v] : v \in OwnValues}

(* The gasLimit entry of a retryable_gas_overrides dictionary: the entry   *)
(* may be missing, or be there without a minimum.                          *)
NoLimit == [entry |-> FALSE, min |-> NoValue]
Dicts == {NoLimit} \cup
    {[entry |-> TRUE, min |-> m] :
        m \in {NoValue} \cup {[set |-> TRUE, amount |-> a] : a \in OwnMinima \cup {CustomGas}}}

VARIABLES
    fee, price,  \* what a submission costs on L1 now, the L2 gas price now
    gateway,     \* the gateway the router has for the token
    approved,    \* gateways the token may be taken by
    overrides,   \* a dictionary the caller keeps and passes to his calls
    pc,          \* the next read or step of the running call
    call,        \* its arguments and local variables
    pending,     \* transactions sent and not yet included; bound: one, and no
                 \* new call while it is not included
    last         \* what became of the last transaction

vars == <<fee, price, gateway, approved, overrides, pc, call, pending, last>>

NoTicket == [sub |-> 0, gas |-> 0, maxFee |-> 0, value |-> 0, callValue |-> 0]
Tickets == [sub : Nat, gas : Nat, maxFee : Nat, value : Nat, callValue : Nat]

NoCall ==
    [kind |-> "ether", keeps |-> FALSE, deposit |-> NoValue, value |-> NoValue,
     gateway |-> "standard", trial |-> "standard", limit |-> NoLimit,
     fee |-> 0, price |-> 0, first |-> NoTicket, tickets |-> <<>>]
NoOutcome == [call |-> NoCall, result |-> "none", fee |-> 0, price |-> 0,
              gateway |-> "standard", redeemed |-> "unknown"]

TypeOK ==
    /\ fee \in Fees /\ price \in Prices
    /\ gateway \in Gateways /\ approved \subseteq Gateways
    /\ overrides \in Dicts
    /\ pc \in {"idle", "gateway", "trial", "fee", "price", "gas", "ready", "sent"}
    /\ call.kind \in Kinds \cup {"approve"}
    /\ call.limit \in Dicts
    /\ call.tickets \in Seq(Tickets)
    /\ pc = "ready" => Len(call.tickets) =
          CASE call.kind \in {"ether", "approve"} -> 0 [] call.kind = "register" -> 2 [] OTHER -> 1
    /\ \A t \in pending : t.kind \in Kinds \cup {"approve"}

Init ==
    /\ fee \in Fees /\ price \in Prices
    /\ gateway \in Gateways /\ approved = {}
    /\ overrides \in {d \in Dicts : d.min.amount # CustomGas}
    /\ pc = "idle" /\ call = NoCall /\ pending = {} /\ last = NoOutcome

(***************************************************************************)
(* The chains.  The Inbox refuses a ticket for the first reason that holds;*)
(* a gas limit or price of one is how callers ask for the ticket's data.   *)
(***************************************************************************)
Verdict(t) ==
    IF t.value < t.sub + t.callValue + t.gas * t.maxFee THEN "insufficientValue"
    ELSE IF t.gas = 1 \/ t.maxFee = 1 THEN "retryableData"
    ELSE IF t.sub < fee THEN "insufficientSubmission"
    ELSE "created"

(* The transaction fails as a whole with its first refused ticket; a token *)
(* is taken from its owner before the ticket is made.  Approvals are for   *)
(* MAX_APPROVAL, the default, and are not used up.                         *)
Result(c) ==
    IF c.kind = "token" /\ gateway \notin approved THEN "noAllowance"
    ELSE IF \E i \in DOMAIN c.tickets : Verdict(c.tickets[i]) # "created"
    THEN LET i == CHOOSE i \in DOMAIN c.tickets :
                    /\ Verdict(c.tickets[i]) # "created"
                    /\ \A j \in 1..(i - 1) : Verdict(c.tickets[j]) = "created"
         IN  Verdict(c.tickets[i])
    ELSE "created"

FeeMoves == fee' \in Fees \ {fee} /\ UNCHANGED <<price, gateway>>
PriceMoves == price' \in Prices \ {price} /\ UNCHANGED <<fee, gateway>>
GatewayMoves == gateway' \in Gateways \ {gateway} /\ UNCHANGED <<fee, price>>
ChainMoves ==
    /\ FeeMoves \/ PriceMoves \/ GatewayMoves
    /\ UNCHANGED <<approved, overrides, pc, call, pending, last>>

Include(c) ==
    /\ pending' = pending \ {c}
    /\ approved' = IF c.kind = "approve" THEN approved \cup {c.gateway} ELSE approved
    /\ last' = [call |-> c, result |-> Result(c), fee |-> fee, price |-> 0,
                gateway |-> gateway, redeemed |-> "unknown"]
    /\ UNCHANGED <<fee, price, gateway, overrides, pc, call>>

(* The automatic redeem on L2, when the ticket arrives there.              *)
Arrive ==
    /\ last.result = "created" /\ last.redeemed = "unknown" /\ last.call.tickets # <<>>
    /\ last' = [last EXCEPT !.price = price, !.redeemed =
          IF \A i \in DOMAIN last.call.tickets :
                last.call.tickets[i].maxFee >= price /\ last.call.tickets[i].gas >= Gas
          THEN "yes" ELSE "no"]
    /\ UNCHANGED <<fee, price, gateway, approved, overrides, pc, call, pending>>

(***************************************************************************)
(* Estimates.                                                              *)
(***************************************************************************)
\* A slip, for the mutation run: the increase alone.
IncreaseOnly(num, increase) == (num * increase) \div 100

PercentIncrease(num, increase) == num + (num * increase) \div 100

AtLeast(a, b) == IF a > b THEN a ELSE b

\* A slip, for the mutation run: the deposit forgets the call value.
FeesOnly(fees, callValue) == fees

Deposit(fees, callValue) == fees + callValue

(* estimate_all with the default increases, from what the call has read    *)
Estimates(c) ==
    LET gasLimit == AtLeast(Gas, c.limit.min.amount)
        maxFee == PercentIncrease(c.price, 200)
        sub == PercentIncrease(c.fee, 300)
        callValue == IF c.kind = "create" THEN CallValue ELSE 0
    IN  [gas |-> gasLimit, maxFee |-> maxFee, sub |-> sub, callValue |-> callValue,
         deposit |-> IF c.deposit.set THEN c.deposit.amount
                     ELSE Deposit(gasLimit * maxFee + sub, callValue)]

(* The request made of the estimates: a token's value is computed afresh,  *)
(* the others send the estimated deposit.                                  *)
TicketOf(c, e) ==
    [sub |-> e.sub, gas |-> e.gas, maxFee |-> e.maxFee, callValue |-> e.callValue,
     value |-> IF c.kind = "token" THEN e.gas * e.maxFee + e.sub ELSE e.deposit]

(* register_custom_token: the fields are maxSubmissionCost and gasLimit,   *)
(* in this order; the callers pass the gas limit first.                    *)
GasParams(first, second) == [sub |-> first, gas |-> second]

RegistrationTicket(params, maxFee) ==
    LET double == IF maxFee = 1 THEN 2 * maxFee ELSE maxFee
    IN  [sub |-> params.sub, gas |-> params.gas, maxFee |-> double, callValue |-> 0,
         value |-> params.gas * double + params.sub]

(* The parameters that make the Inbox answer with the ticket's data.       *)
Dummy == [sub |-> 1, gas |-> 1, maxFee |-> 1, value |-> 2, callValue |-> 0]
DummyTickets(c) ==
    IF c.kind # "register" THEN <<Dummy>>
    ELSE IF c.first = NoTicket THEN <<RegistrationTicket(GasParams(1, 1), 1)>>
    ELSE <<RegistrationTicket(GasParams(c.first.gas, c.first.sub), 1),
           RegistrationTicket(GasParams(1, 1), 1)>>

(***************************************************************************)
(* A call.                                                                 *)
(***************************************************************************)
quiet == <<fee, price, gateway, approved, last>>

(* Where a call starts to read.  A token's value cannot be overridden:     *)
(* deposit raises at once.  set_gateways and register_custom_token take no *)
(* transaction overrides, register_custom_token no estimate options.       *)
Call(kind, keeps, deposit, value) ==
    /\ pc = "idle" /\ pending = {}
    /\ last' = NoOutcome
    /\ value.set => kind \in {"ether", "create"}
    /\ kind \in {"approve", "ether", "register"} => ~keeps /\ ~deposit.set
    /\ call' = [NoCall EXCEPT !.kind = kind, !.keeps = keeps, !.deposit = deposit,
                   !.value = value, !.limit = IF keeps THEN overrides ELSE NoLimit]
    /\ pc' = CASE kind = "ether" -> "ready"
               [] kind = "create" -> "fee"
               [] kind \in {"approve", "token"} -> "gateway"
               [] OTHER -> "trial"
    /\ UNCHANGED <<fee, price, gateway, approved, overrides, pending>>

\* A slip, for the mutation run: the minimum only when there is no entry.
MinimumForNoEntry(limit) ==
    IF limit.entry THEN limit
    ELSE [entry |-> TRUE, min |-> [set |-> TRUE, amount |-> CustomGas]]

(* The minimum of a custom gateway goes into the dictionary it was given.  *)
WithMinimum(limit) ==
    IF limit.min.set THEN limit
    ELSE [entry |-> TRUE, min |-> [set |-> TRUE, amount |-> CustomGas]]

(* get_l1_gateway_address, in get_approve_token_request and, with the      *)
(* minimum, in get_deposit_request                                         *)
ReadGateway ==
    /\ pc = "gateway"
    /\ LET limit == IF call.kind = "token" /\ gateway = "custom"
                    THEN WithMinimum(call.limit) ELSE call.limit
       IN  /\ call' = [call EXCEPT !.gateway = gateway, !.limit = limit]
           /\ overrides' = IF call.keeps THEN limit ELSE overrides
    /\ pc' = IF call.kind = "token" THEN "trial" ELSE "ready"
    /\ UNCHANGED <<quiet, pending>>

\* A slip, for the mutation run: any error is taken for the ticket's data.
AnyError(c) == Result([c EXCEPT !.tickets = DummyTickets(c)]) # "created"

Parsed(c) == Result([c EXCEPT !.tickets = DummyTickets(c)]) = "retryableData"

(* The dummy call of populate_function_params: it must fail, and with the  *)
(* data of the ticket.                                                     *)
TryDummy ==
    /\ pc = "trial"
    /\ IF Parsed(call)
       THEN pc' = "fee" /\ call' = [call EXCEPT !.trial = gateway]
       ELSE pc' = "idle" /\ call' = NoCall
    /\ UNCHANGED <<quiet, overrides, pending>>

(* get_base_fee; the submission fee is computed for this base fee later    *)
ReadFee ==
    /\ pc = "fee"
    /\ call' = [call EXCEPT !.fee = fee]
    /\ pc' = "price"
    /\ UNCHANGED <<quiet, overrides, pending>>

ReadPrice ==
    /\ pc = "price"
    /\ call' = [call EXCEPT !.price = price]
    /\ pc' = "gas"
    /\ UNCHANGED <<quiet, overrides, pending>>

\* A slip, for the mutation run: the data of the second round alone.
LastTicketOnly(c, t) ==
    IF c.kind # "register" THEN <<t>>
    ELSE <<RegistrationTicket(GasParams(t.gas, t.sub), t.maxFee)>>

(* The tickets of the request that is sent in the end: a registration      *)
(* makes one for the gateway and one for the router.                       *)
TicketsFor(c, t) ==
    IF c.kind # "register" THEN <<t>>
    ELSE <<RegistrationTicket(GasParams(c.first.gas, c.first.sub), t.maxFee),
           RegistrationTicket(GasParams(t.gas, t.sub), t.maxFee)>>

(* The node's estimate, and with it the request; a registration estimates  *)
(* twice, and keeps the first ticket for the second round.                 *)
EstimateGas ==
    /\ pc = "gas"
    /\ LET t == TicketOf(call, Estimates(call))
       IN  IF call.kind = "register" /\ call.first = NoTicket
           THEN pc' = "trial" /\ call' = [call EXCEPT !.first = t]
           ELSE /\ pc' = "ready"
                /\ call' = [call EXCEPT !.first = NoTicket, !.tickets = TicketsFor(call, t)]
    /\ UNCHANGED <<quiet, overrides, pending>>

(* The overrides replace the request's value when it is sent.              *)
Sent ==
    IF call.value.set /\ call.tickets # <<>>
    THEN [call EXCEPT !.tickets[1].value = call.value.amount] ELSE call

SendTransaction ==
    /\ pc = "ready"
    /\ pending' = {Sent}
    /\ pc' = "sent" /\ call' = NoCall
    /\ UNCHANGED <<quiet, overrides>>

(* send_transaction estimates its gas, which raises when it would revert.  *)
SendReverts ==
    /\ pc = "ready" /\ Result(Sent) # "created"
    /\ pc' = "idle" /\ call' = NoCall
    /\ UNCHANGED <<quiet, overrides, pending>>

(* wait_for_transaction_receipt returns, whatever the receipt's status, or *)
(* gives up while the transaction is still pending.                        *)
ReceiptReturns ==
    /\ pc = "sent" /\ pending = {}
    /\ pc' = "idle"
    /\ UNCHANGED <<quiet, overrides, call, pending>>
ReceiptTimesOut ==
    /\ pc = "sent" /\ pending # {}
    /\ pc' = "idle"
    /\ UNCHANGED <<quiet, overrides, call, pending>>

RpcError ==
    /\ pc \notin {"idle", "sent"}
    /\ pc' = "idle" /\ call' = NoCall
    /\ UNCHANGED <<quiet, overrides, pending>>

Next ==
    \/ ChainMoves
    \/ \E c \in pending : Include(c)
    \/ Arrive
    \/ \E kind \in Kinds \cup {"approve"}, keeps \in BOOLEAN, d, v \in Values :
           Call(kind, keeps, d, v)
    \/ ReadGateway \/ TryDummy \/ ReadFee \/ ReadPrice \/ EstimateGas
    \/ SendTransaction \/ SendReverts \/ ReceiptReturns \/ ReceiptTimesOut
    \/ RpcError

Spec == Init /\ [][Next]_vars
-----------------------------------------------------------------------------
Estimated == last.call.kind \in {"create", "token", "gateways"}

(* A request held while prices move is still good for four times the       *)
(* submission fee and three times the gas price it was estimated at: only  *)
(* beyond them is the ticket refused, or left for a manual redeem.         *)
EstimateCoversRise ==
    Estimated =>
        /\ last.result = "insufficientSubmission" => last.fee > 4 * last.call.fee
        /\ last.redeemed = "no" => last.price > 3 * last.call.price

(* The value sent pays for everything the ticket asks for, unless the      *)
(* caller set the deposit or the value himself; in a token's deposit he    *)
(* cannot.                                                                 *)
ValueCoversCosts ==
    last.result = "insufficientValue" =>
        /\ last.call.deposit.set \/ last.call.value.set
        /\ last.call.kind \notin {"token", "register"}

(* A deposit through the custom gateway carries its minimum of gas, unless *)
(* the caller asked for less or the token was moved to that gateway after  *)
(* the deposit had looked for it.                                          *)
CustomGatewayHasGas ==
    last.call.kind = "token" /\ last.result = "created" /\ last.gateway = "custom" =>
        \/ last.call.tickets[1].gas >= CustomGas
        \/ last.call.limit.min.set /\ last.call.limit.min.amount \in OwnMinima
        \/ last.call.gateway # "custom"

(* A deposit that fails for want of an allowance lost it by a change of    *)
(* the token's gateway after its estimate.                                 *)
AllowanceLostToMove ==
    last.result = "noAllowance" => last.call.trial # last.gateway

(* A registration of a custom token makes its two tickets and both are     *)
(* redeemed, as long as the submission fee has at most four times its      *)
(* lowest value and the gas price at most three times.                     *)
RegistrationRedeems ==
    last.call.kind = "register" =>
        /\ last.result # "created" => \E f \in Fees : last.fee > 4 * f
        /\ last.redeemed = "no" => \E p \in Prices : last.price > 3 * p
=============================================================================
