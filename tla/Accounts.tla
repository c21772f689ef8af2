------------------------------ MODULE Accounts ------------------------------
(***************************************************************************)
(* The links an administrator hands out (invitations and password resets)  *)
(* and the enrolment of devices (views.py, forms.py, models.py).  A link   *)
(* is used under the lock of its row; an enrolment is checked first and    *)
(* created later, with the database's unique constraints behind it.        *)
(*   links      the rows: used, still valid, and the form that holds the   *)
(*              row lock (0 when none does)                                *)
(*   forms      requests that submit a form                                *)
(*   uses       history: how often each link had its effect                *)
(*   enrolments requests to enrol a device, and devices the rows           *)
(***************************************************************************)
EXTENDS Naturals, FiniteSets

CONSTANTS
    Forms,        \* form submissions
    Enrolments,   \* enrolment requests
    NameOf,       \* [Enrolments -> name]
    KeyOf         \* [Enrolments -> key thumbprint]

\* A lock names the form that holds it, 0 none.
ASSUME FormAssumption == 0 \notin Forms

VARIABLES links, forms, uses, enrolments, devices

accountVars == <<links, forms, uses, enrolments, devices>>

LinkKinds == {"invitation", "reset"}

AccountInit ==
    /\ links = [l \in LinkKinds |-> [used |-> FALSE, valid |-> TRUE, lock |-> 0]]
    /\ forms = [f \in Forms |-> [at |-> "start", link |-> "none"]]
    /\ uses = [l \in LinkKinds |-> 0]
    /\ enrolments = [e \in Enrolments |-> "start"]
    /\ devices = {}

MayRead(l) == links[l].lock = 0

OpenForm(f, l) ==
    /\ forms[f].at = "start" /\ MayRead(l)
    /\ IF links[l].used \/ ~links[l].valid
       THEN forms' = [forms EXCEPT ![f] = [at |-> "refused", link |-> l]] /\ UNCHANGED links
       ELSE /\ forms' = [forms EXCEPT ![f] = [at |-> "open", link |-> l]]
            /\ links' = [links EXCEPT ![l].lock = f]
    /\ UNCHANGED <<uses, enrolments, devices>>

\* The form is valid: the account or the password, and the mark, in one commit.
UseLink(f) ==
    /\ forms[f].at = "open"
    /\ forms' = [forms EXCEPT ![f].at = "done"]
    /\ links' = [links EXCEPT ![forms[f].link] = [@ EXCEPT !.used = TRUE, !.lock = 0]]
    /\ uses' = [uses EXCEPT ![forms[f].link] = @ + 1]
    /\ UNCHANGED <<enrolments, devices>>

\* The form is shown again, or the request fails: nothing is committed.
LeaveForm(f) ==
    /\ forms[f].at = "open"
    /\ forms' = [forms EXCEPT ![f].at = "start"]
    /\ links' = [links EXCEPT ![forms[f].link].lock = 0]
    /\ UNCHANGED <<uses, enrolments, devices>>

LinkEnds(l) ==
    /\ links[l].valid
    /\ links' = [links EXCEPT ![l].valid = FALSE]
    /\ UNCHANGED <<forms, uses, enrolments, devices>>

-----------------------------------------------------------------------------
NameTaken(e) == \E d \in devices : d.name = NameOf[e] /\ d.active
KeyTaken(e) == \E d \in devices : d.key = KeyOf[e]

CheckEnrolment(e) ==
    /\ enrolments[e] = "start"
    /\ enrolments' = [enrolments EXCEPT ![e] = IF NameTaken(e) \/ KeyTaken(e) THEN "refused" ELSE "checked"]
    /\ UNCHANGED <<links, forms, uses, devices>>

ConstraintHolds(e) == ~NameTaken(e) /\ ~KeyTaken(e)

CreateDevice(e) ==
    /\ enrolments[e] = "checked"
    /\ IF ConstraintHolds(e)
       THEN /\ devices' = devices \cup {[of |-> e, name |-> NameOf[e], key |-> KeyOf[e], active |-> TRUE]}
            /\ enrolments' = [enrolments EXCEPT ![e] = "enrolled"]
       ELSE UNCHANGED devices /\ enrolments' = [enrolments EXCEPT ![e] = "refused"]
    /\ UNCHANGED <<links, forms, uses>>

RevokeEnrolled ==
    /\ \E d \in devices : d.active /\ devices' = (devices \ {d}) \cup {[d EXCEPT !.active = FALSE]}
    /\ UNCHANGED <<links, forms, uses, enrolments>>

AccountNext ==
    \/ \E f \in Forms : (\E l \in LinkKinds : OpenForm(f, l)) \/ UseLink(f) \/ LeaveForm(f)
    \/ \E l \in LinkKinds : LinkEnds(l)
    \/ \E e \in Enrolments : CheckEnrolment(e) \/ CreateDevice(e)
    \/ RevokeEnrolled

-----------------------------------------------------------------------------
\* An invitation makes one account and a reset link changes one password, even
\* when two forms are submitted together (views.py, register_with_invitation and
\* reset_password_with_link).
LinkOnce == \A l \in LinkKinds : uses[l] <= 1

\* Two active devices never share a name, and no key is ever enrolled twice, not
\* even after its device was revoked (views.py, enroll_device).
DevicesDistinct ==
    \A d, e \in devices : d.of # e.of => d.key # e.key /\ (d.active /\ e.active => d.name # e.name)
=============================================================================
