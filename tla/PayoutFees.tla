----------------------------- MODULE PayoutFees -----------------------------
(***************************************************************************)
(* What a liquidation deducts from one sale (payout-settlement.service.ts) *)
(* and what the document that charges those deductions adds up to          *)
(* (billing.service.ts). A deduction is a function from the types of       *)
(* PayoutLine to amounts; 0 stands for a line that is not written.         *)
(***************************************************************************)
EXTENDS Integers

LineType == {"GATEWAY_FEE_PASSTHROUGH", "PLATFORM_FEE_NET",
             "PLATFORM_FEE_VAT", "OWN_METHOD_FEE_NET", "OWN_METHOD_FEE_VAT",
             "ACADEMY_COBROS_TAKE"}

FeeMode == {"MANAGED", "OWN_METHOD", "FREE", "LEGACY", "ACADEMY"}

\* The snapshot of a Payment that a liquidation reads: how it was charged,
\* whether by transfer to the seller (gateway MANUAL), what the buyer paid,
\* the seller's frozen net, the cost of the gateway, the commission frozen
\* for a sale by the seller's own methods, and whether it is a membership.
Sale == [mode: FeeMode, manual: BOOLEAN, amount: Nat, producerNet: Nat,
         gatewayFee: Nat, ownNet: Nat, ownVat: Nat, membership: BOOLEAN]

Lesser(a, b) == IF a < b THEN a ELSE b

\* Math.round of the quotient of two natural numbers.
Rounded(n, d) == (2 * n + d) \div (2 * d)

NoLine == [t \in LineType |-> 0]

\* Mutant of ManagedLines: the gateway's real cost is not held within the
\* deduction that was agreed.
ManagedLinesUncapped(s, iva) ==
    LET deduction == s.amount - s.producerNet
        ours == IF deduction < s.gatewayFee THEN 0
                                            ELSE deduction - s.gatewayFee
        net == Rounded(100 * ours, 100 + iva)
    IN  [NoLine EXCEPT !["GATEWAY_FEE_PASSTHROUGH"] = s.gatewayFee,
                       !["PLATFORM_FEE_NET"] = net,
                       !["PLATFORM_FEE_VAT"] = ours - net]

\* managedSettlementLines(): the gateway at its real cost, never above the
\* deduction that was frozen with the order, and our part with its VAT.
ManagedLines(s, iva) ==
    LET deduction == s.amount - s.producerNet
        gateway == Lesser(s.gatewayFee, deduction)
        ours == deduction - gateway
        net == Rounded(100 * ours, 100 + iva)
    IN  [NoLine EXCEPT !["GATEWAY_FEE_PASSTHROUGH"] = gateway,
                       !["PLATFORM_FEE_NET"] = net,
                       !["PLATFORM_FEE_VAT"] = ours - net]

\* An academy pays the gateway, and in the COBROS tier a multiple of it
\* (take, in tenths) for each membership.
AcademyLines(s, take) ==
    [NoLine EXCEPT
        !["GATEWAY_FEE_PASSTHROUGH"] = s.gatewayFee,
        !["ACADEMY_COBROS_TAKE"] =
            IF s.membership /\ take > 10
              THEN Rounded(s.gatewayFee * (take - 10), 10) ELSE 0]

\* The old rule: the gateway and a percentage of the sale.
LegacyLines(s, pct) ==
    [NoLine EXCEPT !["GATEWAY_FEE_PASSTHROUGH"] = s.gatewayFee,
                   !["PLATFORM_FEE_NET"] = Rounded(s.amount * pct, 100)]

OwnLines(s) == [NoLine EXCEPT !["OWN_METHOD_FEE_NET"] = s.ownNet,
                              !["OWN_METHOD_FEE_VAT"] = s.ownVat]

\* A sale by transfer of an academy, or from before the snapshots, is not in
\* the liquidation at all: the money went straight to the seller.
Accrues(s) == ~(s.manual /\ s.mode \in {"ACADEMY", "LEGACY"})

\* What the sale adds to the gross: only what the platform collected.
GrossOf(s) ==
    IF s.mode = "OWN_METHOD" \/ (s.mode = "MANAGED" /\ s.manual)
      THEN 0 ELSE s.amount

LinesOf(s, iva, pct, take) ==
    CASE s.mode = "MANAGED" -> ManagedLines(s, iva)
      [] s.mode = "OWN_METHOD" -> OwnLines(s)
      [] s.mode = "ACADEMY" -> AcademyLines(s, take)
      [] s.mode = "LEGACY" -> LegacyLines(s, pct)
      [] s.mode = "FREE" -> NoLine

\* The lines of FEE_LINE_TYPES, and the gateway's.
PlatformFee(l) == l["PLATFORM_FEE_NET"] + l["PLATFORM_FEE_VAT"]
                + l["OWN_METHOD_FEE_NET"] + l["OWN_METHOD_FEE_VAT"]
                + l["ACADEMY_COBROS_TAKE"]
GatewayFee(l) == l["GATEWAY_FEE_PASSTHROUGH"]

\* What its printed lines add up to.
PrintedTotal(l) == PlatformFee(l) + GatewayFee(l)
=============================================================================
