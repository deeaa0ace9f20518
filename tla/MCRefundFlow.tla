---------------------------- MODULE MCRefundFlow ----------------------------
EXTENDS RefundFlow
CONSTANTS buy, extend, upgrade, s1

TwoPerOrder == {"order", "refund"} \X Orders
OneSub == [o \in Orders |-> s1]
\* The upgrade buys a second device and no time.
BoughtTime == [o \in Orders |-> IF o = upgrade THEN 0 ELSE 1]
BoughtLimit == [o \in Orders |-> IF o = upgrade THEN 2 ELSE 1]
=============================================================================
