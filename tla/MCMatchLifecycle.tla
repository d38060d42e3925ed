-------------------------- MODULE MCMatchLifecycle --------------------------
(* Instances of MatchLifecycle for TLC. *)
EXTENDS MatchLifecycle, TLC

\* Every combination of the settings the flow of a match depends on.
AllConfigs ==
  [pacing : Pacings, frequency : Frequencies, autoReveal : BOOLEAN]

\* The quick-start configuration.
QuickStart ==
  {[pacing |-> "auto", frequency |-> "every_round", autoReveal |-> TRUE]}

\* The slots are interchangeable (runs of safety properties only).
SlotSymmetry == Permutations(Slots)
=============================================================================
