------------------------------ MODULE Sampling ------------------------------
(***************************************************************************)
(* Audit samples (worker/businessFieldwork.ts).  A plan under a policy in  *)
(* effect draws rows of a population at random; each row is tested on      *)
(* evidence; an evaluation names the versions of the tests it is of.  A    *)
(* procedure is submitted and handed over only on complete samples, but    *)
(* evidence may be linked to a test or taken from it at any time.  The     *)
(* monetary arithmetic of the methods is left out: an evaluation of a      *)
(* complete sample has any outcome.  The population stays pinned to the    *)
(* trial balance, which does not change after planning.                    *)
(***************************************************************************)
EXTENDS Evidence

CONSTANTS
  Rows,      \* eligible rows of a population
  MaxPlans,  \* bound on the plans
  MaxTests   \* bound on the versions of a test

ASSUME SamplingBounds == MaxPlans \in Nat /\ MaxTests \in Nat

VARIABLES
  policy,      \* the firm's policy for the sampling method
  population,  \* whether a population was imported
  plans        \* sampling_plans with their draws and tests, oldest first

samplingVars == <<policy, population, plans>>

PolicyStates == {"NONE", "DRAFT", "SCHEDULED", "ACTIVE", "RETIRED"}
Outcomes == {"WITHIN_TOLERANCE", "EXCEEDS_TOLERANCE", "COMPLETED_NONSTATISTICAL"}
Nothing == [family |-> "NONE", version |-> 0]
Untested == [version |-> 0, tested |-> FALSE, evidence |-> Nothing, links |-> {}]
Unevaluated == [tests |-> <<>>, result |-> "NONE"]

SamplingTypeOK ==
  /\ policy \in PolicyStates /\ population \in BOOLEAN
  /\ plans # <<>> => population /\ policy \in {"ACTIVE", "RETIRED"}
  /\ \A n \in DOMAIN plans :
       /\ plans[n].rows \subseteq Rows /\ plans[n].rows # {}
       /\ plans[n].evaluation.result \in Outcomes \cup {"NONE", "INCOMPLETE"}
       /\ \A r \in plans[n].rows :
            LET test == plans[n].tests[r]
            IN /\ test.version \in 0..MaxTests /\ OnePerFamily(test.links)
               /\ test.tested <=> test.evidence # Nothing
               /\ \A l \in test.links : l.target <= test.version

SamplingInit == policy = "NONE" /\ population = FALSE /\ plans = <<>>

(***************************************************************************)
(* The policy and the population.                                          *)
(***************************************************************************)
PolicyCreate ==
  /\ policy = "NONE" /\ policy' = "DRAFT" /\ UNCHANGED <<population, plans>>

(* A Partner approves the policy from today or from a later day. *)
PolicyApprove(who, effect) ==
  /\ who \in Partners /\ policy = "DRAFT" /\ effect \in {"SCHEDULED", "ACTIVE"}
  /\ policy' = effect /\ UNCHANGED <<population, plans>>

PolicyTakesEffect ==
  /\ policy = "SCHEDULED" /\ policy' = "ACTIVE" /\ UNCHANGED <<population, plans>>

PolicyRetire(who) ==
  /\ who \in Partners /\ policy = "ACTIVE" /\ policy' = "RETIRED"
  /\ UNCHANGED <<population, plans>>

PopulationCreate ==
  /\ Executable /\ ~population /\ population' = TRUE /\ UNCHANGED <<policy, plans>>

(***************************************************************************)
(* Plans, tests and evaluations.  "open" tells whether the procedure of    *)
(* the plan can be edited, or the plan has none (Nobody).                  *)
(***************************************************************************)
SamplingPlan(procedure, drawn, open) ==
  /\ Executable /\ population /\ policy = "ACTIVE" /\ open
  /\ Len(plans) < MaxPlans /\ drawn # {}
  /\ plans' = Append(plans, [procedure |-> procedure, rows |-> drawn,
                             tests |-> [r \in drawn |-> Untested],
                             evaluation |-> Unevaluated])
  /\ UNCHANGED <<policy, population>>

TestBecomes(n, r, test) ==
  /\ plans[n].tests[r].version < MaxTests
  /\ plans' = [plans EXCEPT ![n].tests[r] =
       [test EXCEPT !.version = plans[n].tests[r].version + 1]]
  /\ UNCHANGED <<policy, population>>

OnEvidence(test, f, links) ==
  [test EXCEPT !.tested = TRUE, !.links = links,
               !.evidence = [family |-> f, version |-> Len(evidence[f])]]

(* The new revision of a test rests on one piece of evidence, the latest and
   adequate, and on nothing it rested on before. *)
SampleTest(n, r, f, open) ==
  LET version == plans[n].tests[r].version + 1
  IN /\ Executable /\ open
     /\ evidence[f] # <<>> /\ Last(evidence[f]).adequacy = "ADEQUATE"
     /\ TestBecomes(n, r, OnEvidence(Untested, f, Relinked(f, {}, version)))

(* A test is taken back: the row is to be tested again. *)
SampleUntest(n, r, open) == Executable /\ open /\ TestBecomes(n, r, Untested)

(* Linking evidence to a completed test moves the test onto it, adequate or
   not; unlinking any evidence undoes the test.  Neither asks for the status
   of the procedure. *)
SampleLink(n, r, f) ==
  LET test == plans[n].tests[r]
  IN /\ Executable /\ test.tested /\ Linkable(f, test.links)
     /\ TestBecomes(n, r, OnEvidence(test, f, Relinked(f, test.links, test.version + 1)))

SampleUnlink(n, r, link) ==
  /\ Executable
  /\ TestBecomes(n, r, [Untested EXCEPT !.links = plans[n].tests[r].links \ {link}])

(* The evidence of a test is the latest and is linked for this version. *)
Supports(test) ==
  /\ IsLatest(test.evidence)
  /\ \E l \in test.links : /\ l.family = test.evidence.family
                           /\ l.version = test.evidence.version
                           /\ l.target = test.version

TestVersions(n) == [r \in plans[n].rows |-> plans[n].tests[r].version]
AllTested(n) == \A r \in plans[n].rows : plans[n].tests[r].tested
WellSupported(n) ==
  \A r \in plans[n].rows :
    LET test == plans[n].tests[r]
    IN test.tested => Supports(test) /\ Adequacy(test.evidence) = "ADEQUATE"

SampleEvaluate(n, outcome, open) ==
  /\ Executable /\ open /\ WellSupported(n)
  /\ plans' = [plans EXCEPT ![n].evaluation =
       [tests |-> TestVersions(n),
        result |-> IF AllTested(n) THEN outcome ELSE "INCOMPLETE"]]
  /\ UNCHANGED <<policy, population>>

(* Mutant: the evidence of the tests is not looked at again. *)
SamplesEvaluated(p) ==
  \A n \in DOMAIN plans : plans[n].procedure = p =>
    AllTested(n) /\ plans[n].evaluation.tests = TestVersions(n)

(* What a procedure demands of its samples (procedureSamplingPins): all rows
   tested on current adequate evidence, and these tests evaluated. *)
SamplesComplete(p) ==
  \A n \in DOMAIN plans : plans[n].procedure = p =>
    /\ AllTested(n) /\ WellSupported(n)
    /\ plans[n].evaluation.tests = TestVersions(n)
    /\ plans[n].evaluation.result \in Outcomes

(* What the reviewer of a submission finds must be what was submitted. *)
SamplePins(p) ==
  {<<n, plans[n].evaluation>> : n \in {k \in DOMAIN plans : plans[k].procedure = p}}

SamplingPolicyNext ==
  \/ PolicyCreate \/ PolicyTakesEffect \/ PopulationCreate
  \/ \E who \in Staff :
       PolicyRetire(who) \/ \E effect \in {"SCHEDULED", "ACTIVE"} : PolicyApprove(who, effect)
=============================================================================
