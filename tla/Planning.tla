------------------------------ MODULE Planning ------------------------------
(***************************************************************************)
(* From a trial-balance file to an approved audit plan                     *)
(* (worker/businessTb.ts).  A file is imported row by row by a background  *)
(* job, an accepted import becomes the active trial balance, its accounts  *)
(* are mapped to FSLIs, materiality and the risks are set from the         *)
(* mapping, and a plan compiled from all of it is approved by a Partner,   *)
(* which opens fieldwork.  Every source pins the sources it was made from. *)
(*                                                                         *)
(* Accounts stand for the rows of a trial balance; an account is mapped to *)
(* the FSLI of its own.  The import job runs beside the commands, in       *)
(* chunks, and may be run by two workers when its lease lapses.            *)
(***************************************************************************)
EXTENDS Staffing, Sequences, SequencesExt

CONSTANTS
  Rows,             \* rows a file has at most
  Importers,        \* the workers that run the import job
  MaxImports,       \* bound on imports
  MaxMappings,      \* bound on drafts of the mapping
  MaxMaterialities, \* bound on materiality versions
  MaxRisks,         \* bound on risk assessments
  MaxPlans,         \* bound on compiled plans
  MaxRequests       \* bound on required requests

ASSUME PlanningBounds ==
  /\ Rows \in Nat /\ MaxImports \in Nat /\ MaxMappings \in Nat
  /\ MaxMaterialities \in Nat /\ MaxRisks \in Nat /\ MaxPlans \in Nat
  /\ MaxRequests \in Nat

VARIABLES
  imports,        \* tb_imports with the file's rows and the staged lines
  importer,       \* what each worker is importing and how far it got
  tbs,            \* tb_versions: the accounts and the nonzero ones
  mappingDrafts,  \* mapping_drafts
  mappings,       \* mapping_versions
  materialities,  \* materiality_versions
  risks,          \* fsli_risks, oldest first
  pbc,            \* status of each request required for planning
  plans,          \* planning_versions
  active          \* the engagement's active source pins and approved plan

importVars == <<imports, importer>>
sourceVars == <<tbs, mappingDrafts, mappings, materialities, risks, plans, active>>
planningVars == <<importVars, sourceVars, pbc, stage, scheduleVars>>

Accounts == 1..Rows
None     == 0
AllApproved(requests) == ToSet(requests) \subseteq {"APPROVED"}
Idle     == [import |-> None, written |-> 0]
Internal == Partners \cup Managers \cup Seniors
Reviewers == Partners \cup Managers

Planned == stage = "PORTAL_ACTIVE_PLANNING"

PlanningTypeOK ==
  /\ StaffingTypeOK
  /\ stage \in Stages
  /\ imports \in Seq([rows : Accounts, nonzero : SUBSET Accounts,
                      valid : BOOLEAN, staged : SUBSET Accounts,
                      status : {"STAGED", "VALIDATING", "READY", "INVALID",
                                "ACTIVATED"}])
  /\ importer \in [Importers -> [import : 0..MaxImports, written : 0..Rows]]
  /\ tbs \in Seq([accounts : SUBSET Accounts, nonzero : SUBSET Accounts])
  /\ mappingDrafts \in Seq([tb : DOMAIN tbs, mapped : SUBSET Accounts,
                     approved : BOOLEAN])
  /\ mappings \in Seq([tb : DOMAIN tbs, mapped : SUBSET Accounts])
  /\ materialities \in Seq([tb : DOMAIN tbs, mapping : DOMAIN mappings,
                            low : BOOLEAN])
  /\ risks \in Seq([fsli : Accounts, materiality : DOMAIN materialities,
                    high : BOOLEAN, band : {"GREEN", "RED"}])
  /\ pbc \in Seq({"PENDING_UPLOAD", "UNDER_REVIEW", "APPROVED",
                 "REJECTED_REUPLOAD_REQUIRED"})
  /\ active.tb \in 0..Len(tbs) /\ active.mapping \in 0..Len(mappings)
  /\ active.materiality \in 0..Len(materialities)
  /\ active.plan \in 0..Len(plans)

PlanningInit(imported) ==
  /\ imports = imported /\ importer = [w \in Importers |-> Idle]
  /\ tbs = <<>> /\ mappingDrafts = <<>> /\ mappings = <<>>
  /\ materialities = <<>> /\ risks = <<>> /\ plans = <<>>
  /\ pbc = <<>>
  /\ active = [tb |-> None, mapping |-> None, materiality |-> None,
               plan |-> None]

-----------------------------------------------------------------------------
(* The trial balance. *)

(* tb.import: a committed file with its rows, some of them of no balance;
   valid when every row parses and debits equal credits. *)
TbImport(rows, nonzero, valid) ==
  /\ Planned /\ Len(imports) < MaxImports
  /\ imports' = Append(imports, [rows |-> rows, nonzero |-> nonzero,
                                 valid |-> valid, staged |-> {},
                                 status |-> "STAGED"])
  /\ UNCHANGED <<importer, sourceVars>>

Unfinished(i) == imports[i].status \in {"STAGED", "VALIDATING"}

(* The job is claimed, or claimed again after its lease lapsed. *)
ImportClaim(w, i) ==
  /\ importer[w] = Idle
  /\ Unfinished(i)
  /\ importer' = [importer EXCEPT ![w] = [import |-> i, written |-> 0]]
  /\ UNCHANGED <<imports, sourceVars>>

(* One chunk of prepareTrialBalanceImport: INSERT OR IGNORE by row, and the
   status of an import that is still unfinished. *)
ImportChunk(w) ==
  LET i == importer[w].import
      row == importer[w].written + 1 IN
  /\ importer[w] # Idle
  /\ row <= imports[i].rows
  /\ importer' = [importer EXCEPT ![w].written = row]
  /\ imports' = [imports EXCEPT
       ![i].staged = @ \cup {row},
       ![i].status = IF Unfinished(i) THEN "VALIDATING" ELSE @]
  /\ UNCHANGED sourceVars

(* The job's last batch: the verdict on the parsed file. *)
ImportFinish(w) ==
  LET i == importer[w].import IN
  /\ importer[w] # Idle
  /\ importer[w].written = imports[i].rows
  /\ importer' = [importer EXCEPT ![w] = Idle]
  /\ imports' = IF Unfinished(i)
                THEN [imports EXCEPT ![i].status =
                        IF imports[i].valid THEN "READY" ELSE "INVALID"]
                ELSE imports
  /\ UNCHANGED sourceVars

ImportCrash(w) ==
  /\ importer[w] # Idle
  /\ importer' = [importer EXCEPT ![w] = Idle]
  /\ UNCHANGED <<imports, sourceVars>>

(* tb.activate: the staged lines become the active trial balance and what
   was made from the former one is no longer active. *)
TbActivate(i) ==
  /\ Planned
  /\ imports[i].status = "READY"
  /\ Cardinality(imports[i].staged) = imports[i].rows
  /\ tbs' = Append(tbs, [accounts |-> imports[i].staged,
                         nonzero |-> imports[i].nonzero])
  /\ active' = [tb |-> Len(tbs) + 1, mapping |-> None, materiality |-> None,
                plan |-> None]
  /\ imports' = [imports EXCEPT ![i].status = "ACTIVATED"]
  /\ UNCHANGED <<importer, mappingDrafts, mappings, materialities, risks, plans>>

-----------------------------------------------------------------------------
(* The mapping, the materiality and the risks. *)

(* tb.mapping.propose: a draft of the active trial balance, unconfirmed. *)
MappingPropose ==
  /\ Planned /\ active.tb # None /\ Len(mappingDrafts) < MaxMappings
  /\ mappingDrafts' = Append(mappingDrafts, [tb |-> active.tb, mapped |-> {},
                               approved |-> FALSE])
  /\ UNCHANGED <<importVars, tbs, mappings, materialities, risks, plans,
                 active>>

(* tb.mapping.set confirms an account or clears it, of any open draft. *)
MappingSet(d, a) ==
  /\ Planned /\ ~mappingDrafts[d].approved
  /\ a \in tbs[mappingDrafts[d].tb].accounts
  /\ \E m \in {mappingDrafts[d].mapped \cup {a}, mappingDrafts[d].mapped \ {a}} :
       /\ m # mappingDrafts[d].mapped
       /\ mappingDrafts' = [mappingDrafts EXCEPT ![d].mapped = m]
  /\ UNCHANGED <<importVars, tbs, mappings, materialities, risks, plans,
                 active>>

(* tb.mapping.approve *)
MappingApprove(d) ==
  /\ Planned /\ ~mappingDrafts[d].approved
  /\ mappingDrafts[d].tb = active.tb
  /\ tbs[active.tb].nonzero \subseteq mappingDrafts[d].mapped
  /\ mappings' = Append(mappings, [tb |-> active.tb,
                                   mapped |-> mappingDrafts[d].mapped])
  /\ mappingDrafts' = [mappingDrafts EXCEPT ![d].approved = TRUE]
  /\ active' = [active EXCEPT !.mapping = Len(mappings) + 1,
                              !.materiality = None, !.plan = None]
  /\ UNCHANGED <<importVars, tbs, materialities, risks, plans>>

(* materiality.calculate; low says that a balance exceeds the threshold. *)
MaterialityCalculate(low) ==
  /\ Planned /\ active.tb # None /\ active.mapping # None
  /\ mappings[active.mapping].mapped # {}
  /\ Len(materialities) < MaxMaterialities
  /\ materialities' = Append(materialities,
       [tb |-> active.tb, mapping |-> active.mapping, low |-> low])
  /\ active' = [active EXCEPT !.materiality = Len(materialities) + 1,
                              !.plan = None]
  /\ UNCHANGED <<importVars, tbs, mappingDrafts, mappings, risks, plans>>

Band(high, low) == IF high \/ low THEN "RED" ELSE "GREEN"
Latest(f) == LET of == {n \in DOMAIN risks : risks[n].fsli = f} IN
             IF of = {} THEN {} ELSE {Max(of)}

(* materiality.adjust: a new version; the latest risks that were assessed
   against the old one are carried over with their band worked out again. *)
MaterialityAdjust(low) ==
  LET old == active.materiality
      new == Len(materialities) + 1
      kept == {n \in UNION {Latest(f) : f \in Accounts} :
                 risks[n].materiality = old} IN
  /\ Planned /\ old # None /\ new <= MaxMaterialities
  /\ Len(risks) + Cardinality(kept) <= MaxRisks
  /\ materialities' = Append(materialities,
       [materialities[old] EXCEPT !.low = low])
  /\ \E order \in [1..Cardinality(kept) -> kept] :
       /\ \A j, k \in DOMAIN order : j < k => order[j] < order[k]
       /\ risks' = risks \o
            [k \in DOMAIN order |->
               LET r == risks[order[k]] IN
               [r EXCEPT !.materiality = new, !.band = Band(r.high, low)]]
  /\ active' = [active EXCEPT !.materiality = new, !.plan = None]
  /\ UNCHANGED <<importVars, tbs, mappingDrafts, mappings, plans>>

(* fsli.risk.set *)
FsliRiskSet(f, high) ==
  LET current == active.materiality IN
  /\ Planned /\ current # None /\ Len(risks) < MaxRisks
  /\ f \in mappings[active.mapping].mapped
  /\ risks' = Append(risks, [fsli |-> f, materiality |-> current, high |-> high,
                             band |-> Band(high, materialities[current].low)])
  /\ active' = [active EXCEPT !.plan = None]
  /\ UNCHANGED <<importVars, tbs, mappingDrafts, mappings, materialities, plans>>

-----------------------------------------------------------------------------
(* The plan. *)

Current(f) == {n \in Latest(f) : risks[n].materiality = active.materiality}

(* What collectPlanningDependencies reads and hashes: of the schedule, the
   days the staff of planning, fieldwork and review are assigned to. *)
Scheduled == {a.staff : a \in {b \in assignments : b.phase # "COMMERCIAL"}}
Dependencies ==
  [pins |-> <<active.tb, active.mapping, active.materiality>>,
   risks |-> UNION {Current(f) : f \in Accounts},
   schedule |-> [s \in Scheduled |->
                   <<availability[s], exceptions[s],
                     {a \in assignments : a.staff = s}>>],
   milestones |-> milestones, pbc |-> pbc]

Holds(persona, phases, grades) ==
  \E a \in assignments : /\ a.persona = persona /\ a.phase \in phases
                         /\ a.staff \in grades

(* No blocker of collectPlanningDependencies. *)
Unblocked ==
  /\ active.tb # None /\ active.mapping # None /\ active.materiality # None
  /\ mappings[active.mapping].tb = active.tb
  /\ tbs[active.tb].nonzero \subseteq mappings[active.mapping].mapped
  /\ materialities[active.materiality].tb = active.tb
  /\ materialities[active.materiality].mapping = active.mapping
  /\ \A f \in mappings[active.mapping].mapped : Current(f) # {}
  /\ (\E f \in Accounts : \E n \in Current(f) : risks[n].band = "RED") =>
       \/ Holds("PREPARER", {"FIELDWORK"}, Managers)
       \/ Holds("REVIEWER", {"FIELDWORK"}, Managers)
  /\ \A p \in {"PREPARER", "REVIEWER"} :
       Holds(p, {"PLANNING", "FIELDWORK", "REVIEW"}, Staff)
  /\ Holds("APPROVER", {"PLANNING", "REVIEW"}, Partners)
  /\ \A a \in assignments :
       a.phase \in {"PLANNING", "FIELDWORK"} => ~Overloaded(a.staff)
  /\ Cutoff.version > 0
  /\ AllApproved(pbc)

(* planning.compile: blockers are reported, not enforced. *)
PlanningCompile(by) ==
  /\ Planned /\ Len(plans) < MaxPlans
  /\ active.tb # None /\ active.mapping # None /\ active.materiality # None
  /\ plans' = Append(plans, [by |-> by, source |-> Dependencies])
  /\ UNCHANGED <<importVars, tbs, mappingDrafts, mappings, materialities, risks,
                 active>>

(* Mutant: the plan is not compared with what it was compiled from. *)
PlanningApproveStale(by, p) ==
  /\ Planned /\ Unblocked /\ plans[p].by # by
  /\ active' = [active EXCEPT !.plan = p]
  /\ stage' = "FIELDWORK_EXECUTION"
  /\ UNCHANGED <<importVars, tbs, mappingDrafts, mappings, materialities, risks, plans>>

(* planning.approve: the recomputed hash is that of the plan, another
   person compiled it, and assertion 107 wants a PREPARER and a REVIEWER in
   planning or fieldwork (the blockers accept the REVIEW phase too). *)
PlanningApprove(by, p) ==
  /\ Planned
  /\ Unblocked
  /\ plans[p].source = Dependencies
  /\ plans[p].by # by
  /\ \A r \in {"PREPARER", "REVIEWER"} :
       Holds(r, {"PLANNING", "FIELDWORK"}, Staff)
  /\ active' = [active EXCEPT !.plan = p]
  /\ stage' = "FIELDWORK_EXECUTION"
  /\ UNCHANGED <<importVars, tbs, mappingDrafts, mappings, materialities, risks,
                 plans>>

(* pbc.create, for a request required for planning: it may be asked for at
   any time, and blocks the plan until it is approved. *)
PbcCreate ==
  /\ Len(pbc) < MaxRequests
  /\ pbc' = Append(pbc, "PENDING_UPLOAD")

(* pbc.submit and pbc.review (BusinessFiles has their files) *)
PbcSubmit(r) ==
  /\ pbc[r] \in {"PENDING_UPLOAD", "REJECTED_REUPLOAD_REQUIRED"}
  /\ pbc' = [pbc EXCEPT ![r] = "UNDER_REVIEW"]

PbcReview(r) ==
  /\ pbc[r] = "UNDER_REVIEW"
  /\ \E status \in {"APPROVED", "REJECTED_REUPLOAD_REQUIRED"} :
       pbc' = [pbc EXCEPT ![r] = status]

ImportNext ==
  \/ \E n \in Accounts, v \in BOOLEAN : \E z \in SUBSET (1..n) :
       TbImport(n, z, v)
  \/ \E w \in Importers : \/ \E i \in DOMAIN imports : ImportClaim(w, i)
                          \/ ImportChunk(w)
                          \/ ImportFinish(w)
                          \/ ImportCrash(w)

SourceNext ==
  \/ \E i \in DOMAIN imports : TbActivate(i)
  \/ MappingPropose
  \/ \E d \in DOMAIN mappingDrafts : \/ \E a \in Accounts : MappingSet(d, a)
                                    \/ MappingApprove(d)
  \/ \E low \in BOOLEAN : MaterialityCalculate(low) \/ MaterialityAdjust(low)
  \/ \E f \in Accounts, high \in BOOLEAN : FsliRiskSet(f, high)
  \/ \E by \in Reviewers : PlanningCompile(by)

RequestNext ==
  PbcCreate \/ \E r \in DOMAIN pbc : PbcSubmit(r) \/ PbcReview(r)

PlanningNext ==
  \/ (ImportNext \/ SourceNext) /\ UNCHANGED <<pbc, stage, scheduleVars>>
  \/ /\ \E by \in Partners, p \in DOMAIN plans : PlanningApprove(by, p)
     /\ UNCHANGED <<pbc, scheduleVars>>
  \/ RequestNext /\ UNCHANGED <<importVars, sourceVars, stage, scheduleVars>>
  \/ /\ CapacityNext \/ MilestoneNext
     /\ UNCHANGED <<importVars, sourceVars, pbc, stage>>

PlanningSpec ==
  /\ StaffingInit /\ PlanningInit(<<>>) /\ stage = "PORTAL_ACTIVE_PLANNING"
  /\ [][PlanningNext]_planningVars

-----------------------------------------------------------------------------
(* Properties. *)

(* The active mapping is of the active trial balance and covers its nonzero
   accounts, the active materiality is of both, and the active trial
   balance holds every row of the file it came from, however its import
   was interrupted or run twice (businessTb.ts:320, 474, 678, 821). *)
PinsFormAChain ==
  /\ active.tb # None => tbs[active.tb].nonzero \subseteq tbs[active.tb].accounts
  /\ active.mapping # None =>
       /\ mappings[active.mapping].tb = active.tb
       /\ tbs[active.tb].nonzero \subseteq mappings[active.mapping].mapped
  /\ active.materiality # None =>
       /\ materialities[active.materiality].tb = active.tb
       /\ materialities[active.materiality].mapping = active.mapping

(* Property: fieldwork rests on an approved plan whose pins are still the active
   ones, whose risks are still the latest of their FSLI and cover what was
   mapped, and whose requests were answered (businessTb.ts:1245-1374);
   before and after it the pins form a chain. *)
FieldworkRestsOnThePlan ==
  /\ PinsFormAChain
  /\ stage = "FIELDWORK_EXECUTION" =>
       /\ active.plan # None
       /\ LET source == plans[active.plan].source IN
          /\ source.pins = <<active.tb, active.mapping, active.materiality>>
          /\ source.risks = UNION {Current(f) : f \in Accounts}
          /\ \A f \in mappings[active.mapping].mapped :
               \E n \in source.risks : risks[n].fsli = f
          /\ AllApproved(source.pbc)
=============================================================================
