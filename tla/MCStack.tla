------------------------------- MODULE MCStack -------------------------------
(***************************************************************************)
(* The stack as two tabs of one browser, as two clients who register the   *)
(* same people, and as one who lists what another registers and removes.   *)
(***************************************************************************)
EXTENDS StackProperties, Application

Setting(browser, reads) == [browser |-> browser, reads |-> reads]

AllSettings == {Setting(TRUE, FALSE), Setting(FALSE, FALSE), Setting(FALSE, TRUE)}

Addresses == 1..3
==============================================================================
