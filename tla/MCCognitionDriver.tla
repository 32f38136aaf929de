-------------------------- MODULE MCCognitionDriver --------------------------
(* One actor with an ordinary admission and a goal proposal, and another that
   only the player talks to; each can use up the single lease.               *)
EXTENDS CognitionDriver

CONSTANTS plain, goal, ann, bob

MCKeys == {plain, goal}
MCActorOf == [k \in MCKeys |-> ann]

(* What preempt_actor's docstring says (cognition_driver.py:60): the provider
   work of what it ends is cancelled.  No model call starts for an admission
   that has ended.  TLC finds it violated in the instance of CognitionHandoff. *)
PreemptedIsCancelled ==
    [][\A k \in Keys : Ended(k) /\ call[k] # "running" => call'[k] # "running"]_vars
=============================================================================
