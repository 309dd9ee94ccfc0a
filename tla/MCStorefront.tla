---------------------------- MODULE MCStorefront ----------------------------
(* The instance that TLC checks of what a shopper meets: the quote and the   *)
(* price of a cart, the limit on checkouts of a phone, the payment by bank   *)
(* transfer, and the chat.  They share no state in these models, so a        *)
(* behaviour is one component's: `part` is whose, and the others stay as     *)
(* they are.                                                                 *)
EXTENDS MCPayments, CheckoutLimit, Pricing, Chat

CONSTANTS local, abroad

VARIABLE part

\* One phone, which every other shopper writes in its other form.
MCCanonical == [s \in {local, abroad} |-> local]
Alternating == [r \in Shoppers \cup Admins |-> IF r \in {2, 4} THEN abroad ELSE local]

\* All texts of up to two tokens, and markers, whole or not, with text around them.
NearMarkers == {<<"<">> \o slash \o bars \o word :
                  slash \in {<<>>, <<"/">>}, bars \in BoundedSeq({"|"}, 2),
                  word \in {<<>>, <<"D">>, <<"M">>, <<"D", "M">>}}
Replies == BoundedSeq({"<", "/", "|", "D", "M", "x"}, 2)
           \cup {before \o s \o after : before \in {<<>>, <<"x">>, <<"<">>}, s \in NearMarkers,
                                         after \in {<<>>, <<"x">>}}

\* Names that hold one another, and queries that hit none, one or several.
Plant(name, name_vi, slug) == [name |-> name, name_vi |-> name_vi, slug |-> slug]
ThreePlants == <<Plant(<<"a">>, <<"k">>, <<"s">>), Plant(<<"a", "b">>, <<"k", "l">>, <<"t">>),
                 Plant(<<"b">>, <<"l">>, <<"u">>)>>
FourQueries == {[text |-> s, slug |-> s] : s \in {<<>>, <<"b">>, <<"s">>, <<"k">>}}

\* Through definitions of their own, which TLC evaluates once.
MCTexts   == Replies
MCShelf   == ThreePlants
MCQueries == FourQueries

ASSUME CheckoutLimitAssumption /\ PricingAssumption /\ ChatAssumption

\* A component whose turn it is not begins in one state.
InitAll ==
    /\ part \in {"payments", "limit", "pricing", "chat"}
    /\ Init
    /\ part # "payments" => payload = [t \in Transfers |-> Transfer("in", None, {}, 1)]
    /\ LimitInit
    /\ IF part = "limit" THEN \A r \in Shoppers : typed[r] = Alternating[r]
                         ELSE \A r \in Requests : typed[r] = local
    /\ PricingInit
    /\ part # "pricing" => cart = <<>> /\ catalogue = [p \in Plants |-> Absent]
    /\ ChatInit

\* Nothing tells shoppers apart, so they may as well begin in their order.
InOrder == \A q, r \in Shoppers : q < r /\ step'[r] # "new" => step'[q] # "new"

NextAll ==
    /\ UNCHANGED part
    /\ \/ part = "payments" /\ Next                 /\ UNCHANGED <<limitVars, pricingVars, chatVars>>
       \/ part = "limit"    /\ LimitNext /\ InOrder /\ UNCHANGED <<vars, pricingVars, chatVars>>
       \/ part = "pricing"  /\ PricingNext          /\ UNCHANGED <<vars, limitVars, chatVars>>
       \/ part = "chat"     /\ ChatNext             /\ UNCHANGED <<vars, limitVars, pricingVars>>

SpecAll == InitAll /\ [][NextAll]_<<part, vars, limitVars, pricingVars, chatVars>>

\* Rows, deliveries, requests and streams are of the shapes the code gives them.
TypesOK == TypeOK /\ LimitTypeOK /\ ChatTypeOK
=============================================================================
