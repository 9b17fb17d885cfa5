------------------------------- MODULE MCCom1 -------------------------------
(* A small instance of Com1 for TLC. *)
EXTENDS Com1

(* A train number and a speed, as setTrainSpeed sends them. *)
SpeedCommand == <<"speed", "train">>

AFewAnswers == 1 .. AnswerSize * MaxPolls
=============================================================================
