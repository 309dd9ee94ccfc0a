----------------------------- MODULE MCPayments -----------------------------
(* The instances of Payments that TLC checks. *)
EXTENDS Payments

Transfer(type, code, content, amount) ==
    [type |-> type, code |-> code, content |-> content, amount |-> amount]

\* A plain payment by code or by content, texts that name two orders, another
\* amount, no reference at all, money going out.
MCTraffic == {Transfer("in", 1, {1}, 1), Transfer("in", None, {2}, 1),
              Transfer("in", 2, {1, 2}, 2), Transfer("in", None, {}, 1),
              Transfer("out", 1, {}, 1)}

LiveTraffic == {Transfer("in", 1, {}, 1), Transfer("out", None, {}, 1)}
=============================================================================
