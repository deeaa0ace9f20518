---------------------------- MODULE MCOnboarding ----------------------------
(* One session of a user of two bots, or of one bot in the run of the README's *)
(* promise; how many buttons are pressed is in the configurations.             *)
EXTENDS Onboarding
=============================================================================
