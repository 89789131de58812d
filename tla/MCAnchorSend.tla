---------------------------- MODULE MCAnchorSend ----------------------------
(***************************************************************************)
(* Two sends at once through one server process that sees both callers at  *)
(* one address: the first is good, and the second is good or falls short   *)
(* in one respect.                                                         *)
(***************************************************************************)
EXTENDS AnchorSend

CONSTANTS bakti, guest, here, there, home, other, anon, maria, jose, r1, r2

MCSend(amount, receiver) ==
    [account |-> bakti, amount |-> amount, receiver |-> receiver, host |-> home,
     ip |-> anon, complete |-> TRUE, supported |-> TRUE,
     signer |-> bakti, challengeOf |-> here, tokenOf |-> here]

MCSends ==
    LET good == MCSend(2, jose)
    IN  [r \in Calls |->
            IF r = r1 THEN {MCSend(1, maria)}
            ELSE {good, [good EXCEPT !.supported = FALSE], [good EXCEPT !.complete = FALSE],
                  [good EXCEPT !.host = other], [good EXCEPT !.signer = guest],
                  [good EXCEPT !.challengeOf = there], [good EXCEPT !.tokenOf = there],
                  [good EXCEPT !.tokenOf = None]}]
=============================================================================
