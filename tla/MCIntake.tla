------------------------------ MODULE MCIntake ------------------------------
(***************************************************************************)
(* Instances of WebhookIntake for TLC: two users.  The handlers of one may *)
(* hang, and a3 is an inline query of its; the other edits a command       *)
(* message.                                                                *)
(***************************************************************************)
EXTENDS WebhookIntake, TLC

mcUser == [u \in Updates |-> IF u \in {"a1", "a2", "a3"} THEN "A" ELSE "B"]
mcCommand == [u \in Updates |-> IF u \in {"b1", "b2"} THEN "c" ELSE NoCommand]
=============================================================================
