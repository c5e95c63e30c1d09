--------------------------- MODULE MCSkillWorker ---------------------------
(* Model-checking instance of SkillWorker.  Nothing is claimed of runs that  *)
(* have raced for the lock, apart from what each stream delivers, so TLC     *)
(* does not follow them any further.                                         *)
EXTENDS SkillWorker, TLC

\* Runs are told apart only by their process IDs.
RunSymmetry == Permutations(Worker)

NotRaced == ~raced
=============================================================================
