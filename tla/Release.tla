------------------------------ MODULE Release ------------------------------
(***************************************************************************)
(* From the Partner's approval to the report's release and its delivery    *)
(* (worker/businessReporting.ts and the rendering jobs of                  *)
(* worker/businessReportingJobs.ts).  The five parts of a bundle are       *)
(* prepared by separate commands, each rendered by a job of its own, and   *)
(* each is dated and pinned to its sources; the release compares them all  *)
(* again.  An SRM is compiled before the approval only, so the statement   *)
(* snapshot of an approval never changes and its one draft is approved     *)
(* once.  The fees, taxes and file digests a release also compares do not  *)
(* change during an approval and are left out.                             *)
(***************************************************************************)
EXTENDS Fieldwork

CONSTANTS
  MaxDay,         \* bound on the days
  MaxOpinions,    \* bound on the opinion versions
  MaxStatements,  \* bound on the versions of the statement draft
  MaxReports,     \* bound on the report candidates
  MaxLetters,     \* bound on the management letters
  MaxRequests,    \* bound on the representation requests
  MaxBundles,     \* bound on the bundle candidates
  MaxRoutes,      \* bound on the versions of the report's contact route
  MaxDispatches   \* bound on the mails of a released bundle

ASSUME ReleaseBounds ==
  /\ \A bound \in {MaxOpinions, MaxStatements, MaxReports, MaxLetters, MaxRequests,
                   MaxBundles, MaxDispatches} : bound \in Nat
  /\ {MaxDay, MaxRoutes} \subseteq Nat \ {0}

VARIABLES
  today,       \* the date in Qatar
  opinions,    \* how many opinion versions the Partners selected
  draft,       \* the draft of the financial statements
  reports,     \* report_candidates, oldest first
  letters,     \* management_letter_versions, oldest first
  requests,    \* representation_requests, oldest first
  route,       \* version of the client's primary route for final reports
  bundles,     \* bundle_candidates, oldest first
  dispatches,  \* mails of the released bundle, oldest first
  deliveries   \* the ways in which the bundle is recorded as delivered

paperVars == <<opinions, draft, reports, letters, requests, bundles>>
mailVars == <<dispatches, deliveries>>
releaseVars == <<today, route, paperVars, mailVars>>

JobStatuses == {"PREPARING", "READY", "FAILED"}
RequestStatuses == {"PREPARING", "PREPARED", "SENT", "RECEIVED", "ACCEPTED",
                    "REJECTED", "FAILED"}
DeliveryMethods == {"EMAIL", "PORTAL_ACKNOWLEDGEMENT", "RECORDED_HANDOVER"}

(* Property: the types of an engagement from its fieldwork to its release:
   every part refers to rows, versions and days there are, and one bundle is
   released exactly when the countdown has begun (buildReportRelease). *)
ReleaseTypeOK ==
  /\ FieldworkTypeOK
  /\ today \in 1..MaxDay /\ opinions \in 0..MaxOpinions /\ route \in 1..MaxRoutes
  /\ draft.status \in {"NONE", "DRAFT", "APPROVED"}
  /\ reports \in Seq([opinion : 1..opinions, date : 1..today, owner : Partners,
                      status : JobStatuses, consent : BOOLEAN])
  /\ letters \in Seq([items : SUBSET ((DOMAIN findings) \X Nat), status : JobStatuses])
  /\ requests \in Seq([date : 1..today, status : RequestStatuses])
  /\ bundles \in Seq([report : DOMAIN reports, letter : DOMAIN letters,
                      request : DOMAIN requests, route : 1..route,
                      status : JobStatuses \cup {"RELEASED"}])
  /\ Cardinality({b \in DOMAIN bundles : bundles[b].status = "RELEASED"})
       = IF stage = "COMPLIANCE_COUNTDOWN" THEN 1 ELSE 0
  /\ dispatches \in Seq({"QUEUED", "ACCEPTED", "FAILED"})
  /\ deliveries \subseteq DeliveryMethods

ReleaseInit ==
  /\ today = 1 /\ opinions = 0 /\ route = 1
  /\ draft = [status |-> "NONE", version |-> 0, complete |-> FALSE, by |-> Nobody,
              approver |-> Nobody]
  /\ reports = <<>> /\ letters = <<>> /\ requests = <<>> /\ bundles = <<>>
  /\ dispatches = <<>> /\ deliveries = {}

(* reportPins: reporting rests on the last SRM, cleared by a Partner. *)
Approving ==
  /\ stage = "PARTNER_APPROVAL"
  /\ srms # <<>> /\ Last(srms).clearedBy # Nobody

(* The assessment of going concern the SRM names is still the latest. *)
GoingConcernCurrent ==
  /\ Len(assessments) = Last(srms).inputs.going
  /\ Last(assessments).status = "REVIEWED"

(***************************************************************************)
(* What moves around an approval.                                          *)
(***************************************************************************)
DayPasses ==
  /\ today < MaxDay /\ today' = today + 1
  /\ UNCHANGED <<route, paperVars, mailVars>>

(* The client's contact for final reports changes. *)
RouteChanges ==
  /\ route < MaxRoutes /\ route' = route + 1
  /\ UNCHANGED <<today, paperVars, mailVars>>

(***************************************************************************)
(* The opinion and the financial statements.                               *)
(***************************************************************************)
OpinionSelect(who) ==
  /\ who \in Partners /\ Approving /\ opinions < MaxOpinions
  /\ opinions' = opinions + 1
  /\ UNCHANGED <<draft, reports, letters, requests, bundles>>

(* The first to save the draft stays its preparer, whoever saves it next. *)
StatementDraftSave(who, complete) ==
  /\ Approving /\ draft.status # "APPROVED" /\ draft.version < MaxStatements
  /\ draft' = [status |-> "DRAFT", version |-> draft.version + 1,
               complete |-> complete,
               by |-> IF draft.version = 0 THEN who ELSE draft.by,
               approver |-> Nobody]
  /\ UNCHANGED <<opinions, reports, letters, requests, bundles>>

(* Mutant: whoever prepared the statements approves them. *)
StatementApproveOwn(who) ==
  /\ Approving /\ draft.status = "DRAFT" /\ draft.complete
  /\ draft' = [draft EXCEPT !.status = "APPROVED", !.approver = who]
  /\ UNCHANGED <<opinions, reports, letters, requests, bundles>>

StatementApprove(who) ==
  /\ Approving /\ draft.status = "DRAFT" /\ draft.complete /\ who # draft.by
  /\ draft' = [draft EXCEPT !.status = "APPROVED", !.approver = who]
  /\ UNCHANGED <<opinions, reports, letters, requests, bundles>>

(***************************************************************************)
(* The report: prepared on its date, with the preparing Partner's own      *)
(* signature; the same Partner consents to the rendered bytes.             *)
(***************************************************************************)
ReportPrepare(who, o) ==
  /\ who \in Partners /\ Approving /\ draft.status = "APPROVED" /\ GoingConcernCurrent
  /\ Len(reports) < MaxReports
  /\ reports' = Append(reports, [opinion |-> o, date |-> today, owner |-> who,
                                 status |-> "PREPARING", consent |-> FALSE])
  /\ UNCHANGED <<opinions, draft, letters, requests, bundles>>

(* The job refuses a report whose day is over or whose assessment is not
   the latest any more, and any job may fail for good. *)
ReportRendered(r, status) ==
  /\ reports[r].status = "PREPARING" /\ status \in {"READY", "FAILED"}
  /\ status = "READY" => Approving /\ reports[r].date = today /\ GoingConcernCurrent
  /\ reports' = [reports EXCEPT ![r].status = status]
  /\ UNCHANGED <<opinions, draft, letters, requests, bundles>>

ReportConsent(who, r) ==
  /\ Approving /\ reports[r].status = "READY" /\ reports[r].date = today
  /\ who = reports[r].owner
  /\ reports' = [reports EXCEPT ![r].consent = TRUE]
  /\ UNCHANGED <<opinions, draft, letters, requests, bundles>>

(***************************************************************************)
(* The management letter and the letter of representation.                 *)
(***************************************************************************)
ManagementPrepare(who, chosen) ==
  /\ who \in Partners /\ stage = "PARTNER_APPROVAL" /\ Len(letters) < MaxLetters
  /\ letters' = Append(letters, [items |-> {<<f, findings[f].version>> : f \in chosen},
                                 status |-> "PREPARING"])
  /\ UNCHANGED <<opinions, draft, reports, requests, bundles>>

ManagementRendered(l, status) ==
  /\ letters[l].status = "PREPARING" /\ status \in {"READY", "FAILED"}
  /\ letters' = [letters EXCEPT ![l].status = status]
  /\ UNCHANGED <<opinions, draft, reports, requests, bundles>>

RepresentationPrepare(who) ==
  /\ who \in Partners /\ Approving /\ Len(requests) < MaxRequests
  /\ requests' = Append(requests, [date |-> today, status |-> "PREPARING"])
  /\ UNCHANGED <<opinions, draft, reports, letters, bundles>>

RequestMoves(q, from, to) ==
  /\ requests[q].status \in from
  /\ requests' = [requests EXCEPT ![q].status = to]
  /\ UNCHANGED <<opinions, draft, reports, letters, bundles>>

(* The template carries the figures of the approved statements. *)
TemplateRendered(q) == draft.status = "APPROVED" /\ RequestMoves(q, {"PREPARING"}, "PREPARED")
TemplateFails(q) == RequestMoves(q, {"PREPARING"}, "FAILED")

RepresentationSend(q) == Approving /\ RequestMoves(q, {"PREPARED"}, "SENT")

Frozen == stage = "COMPLIANCE_COUNTDOWN"

RepresentationReceive(q) == ~Frozen /\ RequestMoves(q, {"SENT", "REJECTED"}, "RECEIVED")
RepresentationReview(q, decision) == ~Frozen /\ RequestMoves(q, {"RECEIVED"}, decision)

(***************************************************************************)
(* The bundle.                                                             *)
(***************************************************************************)
BundlePrepare(r, l, q) ==
  /\ Approving /\ Blockers = {} /\ Len(bundles) < MaxBundles
  /\ reports[r].status = "READY" /\ reports[r].date = today
  /\ letters[l].status = "READY"
  /\ requests[q].status = "ACCEPTED" /\ requests[q].date = reports[r].date
  /\ bundles' = Append(bundles, [report |-> r, letter |-> l, request |-> q,
                                 route |-> route, status |-> "PREPARING"])
  /\ UNCHANGED <<opinions, draft, reports, letters, requests>>

BundleRendered(b, status) ==
  /\ bundles[b].status = "PREPARING" /\ status \in {"READY", "FAILED"}
  /\ bundles' = [bundles EXCEPT ![b].status = status]
  /\ UNCHANGED <<opinions, draft, reports, letters, requests>>

(* Mutant: the letter is not compared with its findings. *)
ReportedOnce(l) == letters[l].items \subseteq ((DOMAIN findings) \X Nat)

Reported(l) == \A item \in letters[l].items : findings[item[1]].version = item[2]

(* One batch publishes the bundle, issues the final invoice, freezes the
   portal, starts the countdown and queues the mail to the client. *)
ReportRelease(who, b) ==
  LET bundle == bundles[b]
      report == reports[bundle.report]
  IN /\ who \in Partners /\ Approving /\ Blockers = {}
     /\ bundle.status = "READY" /\ report.date = today /\ report.consent
     /\ requests[bundle.request].status = "ACCEPTED"
     /\ requests[bundle.request].date = report.date
     /\ Reported(bundle.letter) /\ bundle.route = route
     /\ bundles' = [bundles EXCEPT ![b].status = "RELEASED"]
     /\ stage' = "COMPLIANCE_COUNTDOWN"
     /\ dispatches' = <<"QUEUED">>
     /\ UNCHANGED <<opinions, draft, reports, letters, requests, deliveries,
                    today, route>>

(* The outbox mails the bundle, or fails to, for good. *)
BundleMailed(d, status) ==
  /\ dispatches[d] = "QUEUED" /\ status \in {"ACCEPTED", "FAILED"}
  /\ dispatches' = [dispatches EXCEPT ![d] = status]
  /\ UNCHANGED deliveries

(* A failed mail is sent again, as often as it is asked for: the failed one
   stays as it is. *)
BundleDeliveryRetry(who, d) ==
  /\ who \in Partners /\ Frozen /\ dispatches[d] = "FAILED"
  /\ Len(dispatches) < MaxDispatches
  /\ dispatches' = Append(dispatches, "QUEUED")
  /\ UNCHANGED deliveries

BundleRecordDelivery(method) ==
  /\ Frozen
  /\ method = "EMAIL" => \E d \in DOMAIN dispatches : dispatches[d] = "ACCEPTED"
  /\ deliveries' = deliveries \cup {method}
  /\ UNCHANGED dispatches

PaperNext ==
  /\ UNCHANGED <<stage, today, route, mailVars>>
  /\ \/ \E who \in Staff :
          \/ OpinionSelect(who) \/ StatementApprove(who) \/ RepresentationPrepare(who)
          \/ \E complete \in BOOLEAN : StatementDraftSave(who, complete)
          \/ \E o \in 1..opinions : ReportPrepare(who, o)
          \/ \E r \in DOMAIN reports : ReportConsent(who, r)
          \/ \E chosen \in SUBSET DOMAIN findings : ManagementPrepare(who, chosen)
     \/ \E status \in {"READY", "FAILED"} :
          \/ \E r \in DOMAIN reports : ReportRendered(r, status)
          \/ \E l \in DOMAIN letters : ManagementRendered(l, status)
          \/ \E b \in DOMAIN bundles : BundleRendered(b, status)
     \/ \E q \in DOMAIN requests :
          \/ TemplateRendered(q) \/ TemplateFails(q) \/ RepresentationSend(q)
          \/ RepresentationReceive(q)
          \/ \E decision \in {"ACCEPTED", "REJECTED"} : RepresentationReview(q, decision)
     \/ \E r \in DOMAIN reports, l \in DOMAIN letters, q \in DOMAIN requests :
          BundlePrepare(r, l, q)

DeliveryNext ==
  /\ UNCHANGED <<stage, today, route, paperVars>>
  /\ \/ \E d \in DOMAIN dispatches :
          \/ \E status \in {"ACCEPTED", "FAILED"} : BundleMailed(d, status)
          \/ \E who \in Staff : BundleDeliveryRetry(who, d)
     \/ \E method \in DeliveryMethods : BundleRecordDelivery(method)

ReleaseNext ==
  \/ PaperNext \/ DeliveryNext
  \/ (DayPasses \/ RouteChanges) /\ UNCHANGED stage
  \/ \E who \in Staff, b \in DOMAIN bundles : ReportRelease(who, b)

(***************************************************************************)
(* An engagement from its fieldwork to the release of its report, whatever *)
(* order its staff, its clients and its jobs act in (MCAudit explores it   *)
(* a part at a time).                                                      *)
(***************************************************************************)
AuditInit ==
  /\ ConfirmationsInit /\ FieldworkInit /\ ReleaseInit
  /\ stage = "FIELDWORK_EXECUTION"

AuditNext ==
  \/ FieldworkNext /\ UNCHANGED releaseVars
  \/ ConfirmationsNext /\ UNCHANGED <<fieldVars, releaseVars>>
  \/ ReleaseNext /\ UNCHANGED <<fieldVars, confirmationVars>>

auditVars == <<stage, confirmationVars, fieldVars, releaseVars>>
AuditSpec == AuditInit /\ [][AuditNext]_auditVars

(***************************************************************************)
(* Properties.                                                             *)
(***************************************************************************)
(* Property: what is released is one thing of one day: the report, the
   consent to it and the accepted representation are of the day of release,
   its letter reports the findings as they stand, its statements were
   approved by somebody else than their preparer, it goes to the client's
   present contact and no critical confirmation is outstanding, whatever was
   prepared, answered, replaced or reopened while its parts were rendered
   (buildBundlePrepare, buildReportRelease). *)
ReleaseIsOfOneDay ==
  [][stage' = "COMPLIANCE_COUNTDOWN" /\ stage # stage' =>
       \E b \in DOMAIN bundles :
         LET report  == reports[bundles[b].report]
             request == requests[bundles[b].request]
         IN /\ bundles'[b].status = "RELEASED" /\ bundles[b].status = "READY"
            /\ report.date = today /\ report.consent /\ report.status = "READY"
            /\ request.date = today /\ request.status = "ACCEPTED"
            /\ \A item \in letters[bundles[b].letter].items :
                 item[2] = findings[item[1]].version
            /\ bundles[b].route = route
            /\ draft.status = "APPROVED" /\ draft.complete /\ draft.approver # draft.by
            /\ \A c \in DOMAIN confirmations : confirmations[c].critical => Confirmed(c)
    ]_stage

(* Property: a report is released on a current SRM, "A current
   Partner-cleared SRM is required at release." (buildReportRelease): the
   fieldwork it summarises still stands as the Partner cleared it. *)
ReleasedOnCurrentSrm ==
  [][stage' = "COMPLIANCE_COUNTDOWN" /\ stage # stage' => SrmCurrent]_stage
=============================================================================
