----------------------------- MODULE Approval -----------------------------
(***************************************************************************)
(* Who may act on a step of an approval workflow                            *)
(* (kabipay-common/src/workflow_approval.rs).  An actor is                  *)
(* [who, employee, scope, permission], a step [approver, permission], a     *)
(* subject [employee, managerLogin]; scope is the set of employees that     *)
(* the resolved permission scope allows.                                    *)
(***************************************************************************)

NotSelf(actor, subject) == actor.employee # subject.employee

InScope(actor, subject) == NotSelf(actor, subject) /\ subject.employee \in actor.scope

\* the login linked to the subject's reporting manager, if there is one
IsReportingManager(actor, subject) == subject.managerLogin = actor.who

HasStepPermission(actor, step) == step.permission = actor.permission

ManagerKinds == {"REPORTING_MANAGER", "REPORTING_MANAGER_OR_PERMISSION"}
PermissionKinds == {"PERMISSION", "REPORTING_MANAGER_OR_PERMISSION"}

\* a step that names a role, or anything else, can be acted on by nobody
StepRelationship(actor, subject, step) ==
  \/ step.approver \in ManagerKinds /\ IsReportingManager(actor, subject)
  \/ step.approver \in PermissionKinds /\ HasStepPermission(actor, step)

MayAct(actor, subject, step) ==
  InScope(actor, subject) /\ StepRelationship(actor, subject, step)
=============================================================================
