---- MODULE MCAutomation ----
(* Small instances of Automation. *)
EXTENDS Automation, TLC

CONSTANTS r1, u1, w1, w2, e1, t1, utc, late

(* Two local days.  The clocks of the first zone repeat the time of the second    *)
(* one, those of the other zone show it later.                              *)
Eve == <<1, "evening">>
Morning == <<2, "morning">>
TwoDays == {Eve, Morning}
TwoClocks == (utc :> << Eve, Morning, Morning >>) @@ (late :> << Eve, Eve, Morning >>)
DateOfWall == [x \in TwoDays |-> x[1]]
BatchReady == (e1 :> "ecommerce_batch_ready")

Daily == [trigger |-> "scheduled", schedule |-> {Morning}, copies |-> 2, limit |-> 3,
          threshold |-> 2, enabled |-> TRUE, paused |-> FALSE]
OnBatch == [Daily EXCEPT !.trigger = "ecommerce_batch_ready", !.schedule = {}, !.copies = 1,
                         !.threshold = 1]
TwoForms == {Daily, OnBatch}
TwoWorkers == Permutations({w1, w2})
==============================
