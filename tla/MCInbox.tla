------------------------------ MODULE MCInbox ------------------------------
(* Small instances of Inbox for TLC: lane a with seats a1 and a2, lane b with
   seat b1. *)
EXTENDS Inbox, TLC

CONSTANTS root, a, b, a1, a2, b1

TwoLanes == (a1 :> a) @@ (a2 :> a) @@ (b1 :> b)

L(by, to, kind) == [by |-> by, to |-> to, kind |-> kind]
OneAsk      == {L(b1, a1, "ask")}
AsksAndChat == {L(b1, a1, "ask"), L(b1, a1, "chat")}
LaneLetter  == {L(b1, a, "chat")}
=============================================================================
