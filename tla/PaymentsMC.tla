----------------------------- MODULE PaymentsMC -----------------------------
(* Small instances of Payments: one payment of three cents with up to two    *)
(* split legs, made through a payment link.                                  *)
EXTENDS Payments

\* Two HTTP handlers at a time, with the Horizon stream, the settlement run and the
\* expiry sweep sharing their slots; or one of them, with the sweep on a slot of its own.
http1 == "http1"
http2 == "http2"
cron == "cron"
SlotAndCron == {http1, cron}
TwoSlots == {http1, http2}

Everything == HttpKinds \cup JobKinds
Mainnet == Everything \ {"simulate"}

ServePairs == [w \in TwoSlots |-> Mainnet]
ServeRefundsPaired == [w \in TwoSlots |-> {"refund", "webhook"}]
ServeAndSweep ==
    [w \in SlotAndCron |-> IF w = cron THEN {"expire"} ELSE Everything \ {"expire"}]

OnePayment == {"p"}
TwoLegs == {"s1", "s2"}
BothLegs == [p \in OnePayment |-> TwoLegs]
OneLeg == [p \in OnePayment |-> {"s1"}]
NoLegs == [p \in OnePayment |-> {}]
ThreeCents == [p \in OnePayment |-> 3]
=============================================================================
