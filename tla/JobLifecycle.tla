---------------------------- MODULE JobLifecycle ----------------------------
(***************************************************************************)
(* What the job queue promises to the code that enqueues work, with no      *)
(* worker, lock or clock in it: a job is tried at most MaxAttempts times,   *)
(* it is given up only when every try was used, and once it is done or dead *)
(* only an explicit resubmission, which grants a full set of tries, or its  *)
(* removal changes it.                                                      *)
(***************************************************************************)
EXTENDS Integers

CONSTANTS Jobs, MaxAttempts

VARIABLE life   \* life[j].phase and life[j].tries

Become(j, phase, tries) == life'[j] = [phase |-> phase, tries |-> tries]

Submit(j) == life[j].phase = "absent" /\ Become(j, "waiting", 0)

Start(j) ==
    /\ life[j].phase = "waiting"
    /\ life[j].tries < MaxAttempts
    /\ Become(j, "working", life[j].tries + 1)

Succeed(j) == life[j].phase = "working" /\ Become(j, "done", life[j].tries)

TryAgain(j) ==
    /\ life[j].phase = "working"
    /\ life[j].tries < MaxAttempts
    /\ Become(j, "waiting", life[j].tries)

GiveUp(j) ==
    /\ life[j].phase = "working"
    /\ life[j].tries = MaxAttempts
    /\ Become(j, "dead", life[j].tries)

Resubmit(j) == life[j].phase \notin {"absent", "gone"} /\ Become(j, "waiting", 0)

Remove(j) == life[j].phase # "absent" /\ Become(j, "gone", 0)

JobStep(j) ==
    \/ Submit(j) \/ Start(j) \/ Succeed(j) \/ TryAgain(j) \/ GiveUp(j)
    \/ Resubmit(j) \/ Remove(j)

\* One statement may move several jobs at once (reclaimStaleJobs does).
Init == life = [j \in Jobs |-> [phase |-> "absent", tries |-> 0]]
Next == \A j \in Jobs : JobStep(j) \/ life'[j] = life[j]
Spec == Init /\ [][Next]_life
=============================================================================
