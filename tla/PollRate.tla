------------------------------- MODULE PollRate -------------------------------
(***************************************************************************)
(* How often the sleepy device asks its parent for messages: every five    *)
(* minutes at rest, every three seconds after a join or a key press, and   *)
(* four times a second while an image is downloaded.  One timer of the     *)
(* application, timerPollRateEvt, brings the slow rate back.               *)
(***************************************************************************)

VARIABLE poll  \* zb_getPollRate and whether timerPollRateEvt exists

Rate == {"long", "short", "queue"}

PollTypeOK == poll \in [rate : Rate, timer : BOOLEAN]

PollShort == [rate |-> "short", timer |-> TRUE]

(* A join, a key press, the end of a download: the timer starts anew. *)
PollForAWhile == poll' = PollShort

(* The start of a download: no timer. *)
PollQueue == poll' = [rate |-> "queue", timer |-> FALSE]

(* poll_rateAppCb: the timer goes on, with a period of five minutes. *)
poll_rateAppCb == poll.timer /\ poll' = [poll EXCEPT !.rate = "long"]
=============================================================================
