--------------------------- MODULE MCEvolutionJobs ---------------------------
(* Small instances of EvolutionJobs for TLC. *)
EXTENDS EvolutionJobs

CONSTANTS w1, w2, o1, o2, e1, e2, f1, l1, p1, drain, http, s1

\* Two Work Memory extractions of one scope, two embeddings of one key.
FifoJobs == {w1, w2, e1, e2}
\* An observation, an idle flush and an L3 update.
MixJobs  == {o1, f1, l1}
\* Two observations, more than one chunk when Concurrency is 1.
BatchJobs == {o1, o2}
DrainJobs == FifoJobs \cup MixJobs \cup BatchJobs

Only(G) == \A j \in Job \ G : job[j].status = "absent"

\* A behaviour fills the queue from one of the three groups.  Delays are for
\* the last two.
OneGroup ==
    \/ Only(FifoJobs) /\ \A i \in FifoJobs : job[i].runAfter = 0
    \/ Only(MixJobs) \/ Only(BatchJobs)

AllTypeOf == [j \in {w1, w2, o1, o2, e1, e2, f1, l1, p1} |->
    CASE j \in {w1, w2} -> "work_memory_extract"
      [] j \in {e1, e2} -> "embedding"
      [] j \in {o1, o2} -> "observation_extract"
      [] j = f1 -> "work_memory_idle_flush"
      [] j = l1 -> "l3_world_model_update"
      [] j = p1 -> "project_environment_profile"]
MCTypeOf  == [j \in Job |-> AllTypeOf[j]]
MCScopeOf == [j \in Job \cap {w1, w2, l1} |-> s1]
MCKeyOf   == [j \in Job |-> IF j = e2 /\ e1 \in Job THEN e1 ELSE j]
MCWorldModels == {Job \cap {l1, p1}}
MCLimit   == [r \in Runner |-> 2]
MCTargets == {Job}
==============================================================================
