----------------------------- MODULE AdminGuard -----------------------------
(***************************************************************************)
(* The last-admin guard: the accounts of repository_identity.py, and the   *)
(* requests that disable, demote, enable and promote them (api.py, /users, *)
(* and the user commands of admin.py).                                     *)
(*                                                                         *)
(* Disabling and demoting run under _assert_not_last_admin: one            *)
(* transaction that locks the rows of the enabled admins one by one, looks *)
(* at them, and then updates its own row.  Under READ COMMITTED the rows   *)
(* it tries to lock are those of its statement's snapshot; a row another   *)
(* transaction holds is waited for, read again as that one left it, and    *)
(* dropped if it no longer qualifies.  A row that came to qualify          *)
(* meanwhile is not looked for.                                            *)
(*                                                                         *)
(* A definition marked "Variant" is a plausible mistake in the one after   *)
(* it, kept to show that a property notices; no specification uses it.     *)
(*                                                                         *)
(* No name here is one of SignIn's: AccountProofs extends both.            *)
(***************************************************************************)

CONSTANTS
    Ids,            \* accounts that may come to exist, by id
    Requests,       \* disable and demote requests that may be in flight
    NoUser,         \* waiting for no row
    NoRequest       \* nobody holds the lock of a row

ASSUME ConstantsAssumption ==
    /\ NoUser \notin Ids
    /\ NoRequest \notin Requests

VARIABLES
    users,      \* the committed users row of each account
    locks,      \* the transaction that holds each row's lock
    phase,      \* how far each request has got
    op,         \* what it does: "disable", "demote", or "none" when idle
    target,     \* and to whom
    todo,       \* rows of its snapshot it has not got to yet
    kept,       \* rows it has locked and found to be enabled admins
    awaits      \* the row it is about to lock

requestVars == <<phase, op, target, todo, kept, awaits>>
guardVars == <<users, locks, requestVars>>

\* "user" stands for every role below admin.
NoUserRow == [role |-> "none", disabled |-> FALSE]
UserRows == {NoUserRow} \cup [role: {"admin", "user"}, disabled: BOOLEAN]

\* Not in a transaction; locking the admins' rows; past the guard, at the update.
GuardPhases == {"idle", "locking", "updating"}

Exists(u) == users[u] # NoUserRow
EnabledAdmin(u) == users[u].role = "admin" /\ ~users[u].disabled
EnabledAdmins == {u \in Ids : EnabledAdmin(u)}

\* A deployment starts with the admins the bootstrap command made.
GuardInit ==
    /\ users \in [Ids -> UserRows]
    /\ EnabledAdmins # {}
    /\ locks = [u \in Ids |-> NoRequest]
    /\ phase = [r \in Requests |-> "idle"]
    /\ op = [r \in Requests |-> "none"]
    /\ target = [r \in Requests |-> NoUser]
    /\ todo = [r \in Requests |-> {}]
    /\ kept = [r \in Requests |-> {}]
    /\ awaits = [r \in Requests |-> NoUser]

Free(u, r) == locks[u] \in {NoRequest, r}

-----------------------------------------------------------------------------
(* Disabling and demoting: set_user_disabled(disabled=True) and            *)
(* set_user_role with a lesser role.                                       *)

\* The guard's select begins: its snapshot has the enabled admins of now.
Begin(r, what, u) ==
    /\ phase[r] = "idle"
    /\ Exists(u)
    /\ phase' = [phase EXCEPT ![r] = "locking"]
    /\ op' = [op EXCEPT ![r] = what]
    /\ target' = [target EXCEPT ![r] = u]
    /\ todo' = [todo EXCEPT ![r] = EnabledAdmins]
    /\ UNCHANGED <<users, locks, kept, awaits>>

\* It gets to the next row of its snapshot.
Reach(r, u) ==
    /\ phase[r] = "locking"
    /\ awaits[r] = NoUser
    /\ u \in todo[r]
    /\ awaits' = [awaits EXCEPT ![r] = u]
    /\ todo' = [todo EXCEPT ![r] = @ \ {u}]
    /\ UNCHANGED <<users, locks, phase, op, target, kept>>

\* Variant: a select without "for update".
SelectRow(r) ==
    /\ phase[r] = "locking"
    /\ awaits[r] # NoUser
    /\ kept' = [kept EXCEPT ![r] = @ \cup ({awaits[r]} \cap EnabledAdmins)]
    /\ awaits' = [awaits EXCEPT ![r] = NoUser]
    /\ UNCHANGED <<users, locks, phase, op, target, todo>>

\* It locks the row, once nobody else has it, and reads it again.
LockRow(r) ==
    /\ phase[r] = "locking"
    /\ awaits[r] # NoUser
    /\ Free(awaits[r], r)
    /\ locks' = [locks EXCEPT ![awaits[r]] = r]
    /\ kept' = [kept EXCEPT ![r] = @ \cup ({awaits[r]} \cap EnabledAdmins)]
    /\ awaits' = [awaits EXCEPT ![r] = NoUser]
    /\ UNCHANGED <<users, phase, op, target, todo>>

\* user_id in admins and len(admins) <= 1
LastAdmin(r) == kept[r] = {target[r]}

\* The transaction ends, committed or rolled back.
End(r) ==
    /\ phase' = [phase EXCEPT ![r] = "idle"]
    /\ op' = [op EXCEPT ![r] = "none"]
    /\ target' = [target EXCEPT ![r] = NoUser]
    /\ locks' = [u \in Ids |-> IF locks[u] = r THEN NoRequest ELSE locks[u]]
    /\ todo' = [todo EXCEPT ![r] = {}]
    /\ kept' = [kept EXCEPT ![r] = {}]
    /\ awaits' = [awaits EXCEPT ![r] = NoUser]

AllLocked(r) == phase[r] = "locking" /\ awaits[r] = NoUser /\ todo[r] = {}

\* Variant: the refusal leaves its transaction open.
RefuseHolding(r) ==
    /\ AllLocked(r)
    /\ LastAdmin(r)
    /\ UNCHANGED guardVars

\* LastAdminProtected: the transaction rolls back.
Refuse(r) ==
    /\ AllLocked(r)
    /\ LastAdmin(r)
    /\ End(r)
    /\ UNCHANGED users

\* The guard lets it pass; the update waits for the row of the target.
Pass(r) ==
    /\ AllLocked(r)
    /\ ~LastAdmin(r)
    /\ phase' = [phase EXCEPT ![r] = "updating"]
    /\ awaits' = [awaits EXCEPT ![r] = target[r]]
    /\ UNCHANGED <<users, locks, op, target, todo, kept>>

Changed(what, a) ==
    IF what = "disable" THEN [role |-> a.role, disabled |-> TRUE]
                        ELSE [role |-> "user", disabled |-> a.disabled]

\* The update and the commit.
Update(r) ==
    /\ phase[r] = "updating"
    /\ Free(target[r], r)
    /\ users' = [users EXCEPT ![target[r]] = Changed(op[r], @)]
    /\ End(r)

\* The connection drops, or the database breaks a deadlock: rolled back.
Abort(r) ==
    /\ phase[r] # "idle"
    /\ End(r)
    /\ UNCHANGED users

-----------------------------------------------------------------------------
(* What takes no guard: one statement, which waits for the row's lock.     *)

\* create_user, with any role.
CreateUser(u, role) ==
    /\ ~Exists(u)
    /\ users' = [users EXCEPT ![u] = [role |-> role, disabled |-> FALSE]]
    /\ UNCHANGED <<locks, requestVars>>

\* set_user_disabled(disabled=False)
EnableUser(u) ==
    /\ Exists(u)
    /\ locks[u] = NoRequest
    /\ users' = [users EXCEPT ![u] = [role |-> @.role, disabled |-> FALSE]]
    /\ UNCHANGED <<locks, requestVars>>

\* set_user_role(ADMIN)
PromoteUser(u) ==
    /\ Exists(u)
    /\ locks[u] = NoRequest
    /\ users' = [users EXCEPT ![u] = [role |-> "admin", disabled |-> @.disabled]]
    /\ UNCHANGED <<locks, requestVars>>

GuardedStep(r) ==
    \/ \E what \in {"disable", "demote"}, u \in Ids : Begin(r, what, u)
    \/ \E u \in Ids : Reach(r, u)
    \/ LockRow(r)
    \/ Refuse(r)
    \/ Pass(r)
    \/ Update(r)
    \/ Abort(r)

Creation == \E u \in Ids, role \in {"admin", "user"} : CreateUser(u, role)

GuardNext ==
    \/ \E r \in Requests : GuardedStep(r)
    \/ Creation
    \/ \E u \in Ids : EnableUser(u) \/ PromoteUser(u)

GuardSpec == GuardInit /\ [][GuardNext]_guardVars

-----------------------------------------------------------------------------
(* Behaviours in which no account is enabled or promoted while a request   *)
(* to disable or demote that same account is under way.                    *)

UnderChange(u) == \E r \in Requests : phase[r] # "idle" /\ target[r] = u

AgreedNext ==
    \/ \E r \in Requests : GuardedStep(r)
    \/ Creation
    \/ \E u \in Ids : ~UnderChange(u) /\ (EnableUser(u) \/ PromoteUser(u))

AgreedSpec == GuardInit /\ [][AgreedNext]_guardVars

\* Requests that wait for each other in a circle.
WaitsFor(q, r) == q # r /\ awaits[q] # NoUser /\ locks[awaits[q]] = r
Deadlocked(r) ==
    \E circle \in SUBSET Requests :
        r \in circle /\ \A q \in circle : \E s \in circle : WaitsFor(q, s)

\* A request that is not held up goes on, a lock that keeps becoming free is got,
\* and the database's deadlock check runs.
Fairness ==
    \A r \in Requests :
        /\ WF_guardVars(\E u \in Ids : Reach(r, u))
        /\ SF_guardVars(LockRow(r))
        /\ WF_guardVars(Refuse(r))
        /\ WF_guardVars(Pass(r))
        /\ SF_guardVars(Update(r))
        /\ WF_guardVars(Deadlocked(r) /\ Abort(r))

FairAgreedSpec == AgreedSpec /\ Fairness

-----------------------------------------------------------------------------
GuardTypeOK ==
    /\ users \in [Ids -> UserRows]
    /\ locks \in [Ids -> Requests \cup {NoRequest}]
    /\ phase \in [Requests -> GuardPhases]
    /\ op \in [Requests -> {"none", "disable", "demote"}]
    /\ target \in [Requests -> Ids \cup {NoUser}]
    /\ todo \in [Requests -> SUBSET Ids]
    /\ kept \in [Requests -> SUBSET Ids]
    /\ awaits \in [Requests -> Ids \cup {NoUser}]

\* The deployment keeps an administrator: no order in which requests lock, wait
\* for, re-read and change each other's rows disables or demotes the last one.
AdminRemains == EnabledAdmins # {}

\* Every request to disable or demote is answered, although two of them may lock
\* the admins' rows in opposite orders.
EveryRequestEnds == \A r \in Requests : phase[r] # "idle" ~> phase[r] = "idle"

-----------------------------------------------------------------------------
(* What AdminRemains rests on.                                             *)

\* A request in a transaction has an account for its target and holds the rows it
\* has kept; one that is not has nothing.
Holding ==
    \A r \in Requests :
        /\ phase[r] # "idle" => target[r] \in Ids /\ Exists(target[r])
        /\ phase[r] = "idle" => kept[r] = {} /\ todo[r] = {} /\ awaits[r] = NoUser
        /\ \A u \in kept[r] : locks[u] = r

\* What it has kept stays an enabled admin while it holds the row.
KeptAreAdmins == \A r \in Requests : kept[r] \subseteq EnabledAdmins

\* If its target is an enabled admin, the guard has it in sight.
TargetInSight ==
    \A r \in Requests :
        phase[r] # "idle" /\ target[r] \in EnabledAdmins =>
            \/ target[r] \in todo[r] \cup kept[r]
            \/ phase[r] = "locking" /\ awaits[r] = target[r]

\* Past the guard, an admin other than the target is held.
PassedTheGuard ==
    \A r \in Requests : phase[r] = "updating" =>
        /\ todo[r] = {}
        /\ kept[r] # {target[r]}

GuardInv == GuardTypeOK /\ AdminRemains /\ Holding /\ KeptAreAdmins /\ TargetInSight /\ PassedTheGuard

=============================================================================
