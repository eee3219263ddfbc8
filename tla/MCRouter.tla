------------------------------ MODULE MCRouter ------------------------------
(* Two deliveries of one dialog message, another message of the session and a *)
(* background message without a key.                                          *)
EXTENDS MessageRouter, TLC

CONSTANTS c1, c2, c3, k1, k2

KeyOf == c1 :> k1 @@ c2 :> k1 @@ c3 :> k2
PlainKeyOf == c1 :> k1 @@ c2 :> k1 @@ c3 :> NoKey
OneSession == [d \in Calls |-> "session"]
OneInBackground == [d \in Calls |-> IF d = c3 THEN "background" ELSE "dialog"]
AllDialog == [d \in Calls |-> "dialog"]
=============================================================================
