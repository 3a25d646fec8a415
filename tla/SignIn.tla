-------------------------------- MODULE SignIn --------------------------------
(***************************************************************************)
(* Signing in, and the sessions it opens: the routes of api.py under       *)
(* /sessions, /me/password and /users, the Throttle of ratelimit.py and    *)
(* the users and user_sessions of repository_identity.py.                  *)
(*                                                                         *)
(* Two counters watch a name.  The throttle counts failures in the api's   *)
(* memory, of any name at all, over a sliding window; a restart empties    *)
(* it.  The account's own counter is in the database and is zeroed by a    *)
(* success or a new password.  A sign-in takes several steps, and others   *)
(* go on between them.  Which role a request needs is not modelled, nor    *)
(* how passwords are hashed: an account's passwords are numbered.          *)
(*                                                                         *)
(* A definition marked "Variant" is a plausible mistake in the one after   *)
(* it, kept to show that a property notices; nothing in Spec uses it.      *)
(***************************************************************************)
EXTENDS Integers, FiniteSetsExt, SequencesExt, Functions

CONSTANTS
    Users,          \* accounts, by name
    Strangers,      \* names people sign in with that have no account
    Clients,        \* requests that may be in flight
    Limit,          \* failures allowed, by either counter
    Window,         \* how far back the throttle counts
    Cooloff,        \* how long either counter refuses
    MaxKeys,        \* names the throttle remembers
    Idle,           \* a session unused for this long is over
    Minute,         \* uses this close together are noted once
    Lifetime,       \* a session is over this long after it was opened
    Keep,           \* a session is kept this long after it was over
    Bounds,         \* how far behaviours may go: time, sign-ins, and changes of
                    \* accounts with restarts, in combinations
    Never,          \* no time
    NoName          \* a request in flight for nobody

ASSUME LimitAssumption == Limit \in Nat \ {0} /\ MaxKeys \in Nat \ {0}
ASSUME CooloffAssumption == Window \in Nat /\ Cooloff \in Nat /\ Window < Cooloff
ASSUME SessionAssumption ==
    {Minute, Idle, Lifetime, Keep} \subseteq Nat /\ Minute < Idle
ASSUME NamesAssumption == Users \cap Strangers = {} /\ NoName \notin Users \cup Strangers

VARIABLES
    bound,      \* those of this behaviour
    now,
    hits,       \* the throttle: the times of each name's failures
    order,      \* the names it has, the one that failed last at the end
    blocked,    \* until when it refuses a name
    account,    \* the users row of each account
    sessions,   \* user_sessions
    request,    \* what each client has in flight
    opened,     \* how many sessions there have been
    attempts,   \* how many sign-ins
    changes,    \* how many changes of accounts, and restarts
    log         \* what has been counted and forgiven, for the properties

throttleVars == <<hits, order, blocked>>
vars == <<bound, now, throttleVars, account, sessions, request, opened, attempts, changes, log>>

Names == Users \cup Strangers

Idling == [phase |-> "idle", name |-> NoName, typed |-> 0, spared |-> 0]

Init ==
    /\ bound \in Bounds
    /\ now = 0
    /\ hits = << >>
    /\ order = << >>
    /\ blocked = << >>
    /\ account \in [Users -> [password: {1}, issued: {1}, outdated: BOOLEAN, failed: {0},
                              locked: {Never}, disabled: {FALSE}]]
    /\ sessions = {}
    /\ request = [c \in Clients |-> Idling]
    /\ opened = 0
    /\ attempts = 0
    /\ changes = 0
    /\ log = << >>

Logged(what, name) == log' = Append(log, [what |-> what, name |-> name, at |-> now])

\* A client's request goes on to its next step, or ends.
Goes(c, phase) == request' = [request EXCEPT ![c].phase = phase]
Ends(c) == request' = [request EXCEPT ![c] = Idling]

Tick ==
    /\ now < bound.time
    /\ now' = now + 1
    /\ UNCHANGED <<bound, throttleVars, account, sessions, request, opened, attempts, changes, log>>

-----------------------------------------------------------------------------
(* The throttle. *)

\* Variant: a failure exactly the window's length ago is forgotten.
RecentShort(times) ==
    SubSeq(times, Min({i \in 1..Len(times) + 1 : i \in DOMAIN times => times[i] > now - Window}),
           Len(times))

\* _prune: from the first that is not too old.
Recent(times) ==
    SubSeq(times, Min({i \in 1..Len(times) + 1 : i \in DOMAIN times => times[i] >= now - Window}),
           Len(times))

\* The names in their order, but for one.
Others(name) ==
    IF name \in ToSet(order) THEN RemoveAt(order, CHOOSE i \in DOMAIN order : order[i] = name)
    ELSE order

\* check: a block that is over is dropped.
Blocked(name) == name \in DOMAIN blocked /\ blocked[name] > now

\* The failures it remembers of a name.
Hits(name) == IF name \in DOMAIN hits THEN hits[name] ELSE << >>

\* The failures with this one, and the names: it moves to the end, and the name
\* that has not failed for longest makes room.
Times(name) == Append(Recent(Hits(name)), now)
Moved(name) == Append(Others(name), name)
Evicted(names) == IF Len(names) > MaxKeys THEN Tail(names) ELSE names

\* record_failure.
RecordFailure(name) ==
    LET over == Len(Times(name)) >= Limit
    IN  /\ order' = Evicted(Moved(name))
        /\ hits' = [n \in ToSet(Evicted(Moved(name))) |->
                     IF n # name THEN hits[n] ELSE IF over THEN << >> ELSE Times(name)]
        /\ blocked' = IF ~over THEN blocked
                      ELSE [n \in DOMAIN blocked \cup {name} |->
                              IF n = name THEN now + Cooloff ELSE blocked[n]]

ClearThrottle(name) ==
    /\ hits' = Restrict(hits, DOMAIN hits \ {name})
    /\ order' = Others(name)
    /\ blocked' = Restrict(blocked, DOMAIN blocked \ {name})

-----------------------------------------------------------------------------
(* The account's row. *)

\* Variant: the failure after the limit locks.
FailedOnceLate(row) ==
    [row EXCEPT !.failed = @ + 1,
                !.locked = IF row.failed >= Limit THEN now + Cooloff ELSE @]

\* note_login_failure, one statement.
FailedOnce(row) ==
    [row EXCEPT !.failed = @ + 1,
                !.locked = IF row.failed + 1 >= Limit THEN now + Cooloff ELSE @]

\* note_login_success.
Forgiven(row) == [row EXCEPT !.failed = 0, !.locked = Never]

\* touch_password.
WithPassword(row, password) == [Forgiven(row) EXCEPT !.password = password, !.outdated = FALSE]

NewPassword(row) == [WithPassword(row, row.issued + 1) EXCEPT !.issued = @ + 1]

Locked(row) == row.locked # Never /\ row.locked > now

-----------------------------------------------------------------------------
(* sign_in, step by step. *)

\* A password there is or was, or none of them.
Typed(name) == IF name \in Users THEN 0..account[name].issued ELSE {0}

\* throttle.check.
Ask(c, name, typed) ==
    /\ request[c].phase = "idle"
    /\ attempts < bound.attempts
    /\ attempts' = attempts + 1
    /\ IF Blocked(name)
       THEN UNCHANGED <<blocked, request>>
       ELSE /\ blocked' = Restrict(blocked, DOMAIN blocked \ {name})
            /\ request' = [request EXCEPT ![c] =
                            [phase |-> "looking", name |-> name, typed |-> typed, spared |-> 0]]
    /\ UNCHANGED <<bound, now, hits, order, account, sessions, opened, changes, log>>

\* user_for_login: the row as of now settles what the sign-in does next.
LookUp(c) ==
    LET name == request[c].name
    IN  /\ request[c].phase = "looking"
        /\ IF name \notin Users THEN Goes(c, "recording")
           ELSE IF Locked(account[name]) \/ account[name].disabled THEN Ends(c)
           ELSE IF request[c].typed # account[name].password THEN Goes(c, "noting")
           ELSE IF account[name].outdated THEN Goes(c, "rehashing")
           ELSE Goes(c, "clearing")
        /\ UNCHANGED <<bound, now, throttleVars, account, sessions, opened, attempts, changes, log>>

\* note_login_failure.
Note(c) ==
    /\ request[c].phase = "noting"
    /\ account' = [account EXCEPT ![request[c].name] = FailedOnce(@)]
    /\ Goes(c, "recording")
    /\ Logged("wrong", request[c].name)
    /\ UNCHANGED <<bound, now, throttleVars, sessions, opened, attempts, changes>>

\* throttle.record_failure.
Record(c) ==
    /\ request[c].phase = "recording"
    /\ RecordFailure(request[c].name)
    /\ Ends(c)
    /\ Logged("failure", request[c].name)
    /\ UNCHANGED <<bound, now, account, sessions, opened, attempts, changes>>

\* The password as typed is hashed again, with today's parameters.
Rehash(c) ==
    /\ request[c].phase = "rehashing"
    /\ account' = [account EXCEPT ![request[c].name] = WithPassword(@, request[c].typed)]
    /\ Goes(c, "clearing")
    /\ Logged("forgiven", request[c].name)
    /\ UNCHANGED <<bound, now, throttleVars, sessions, opened, attempts, changes>>

\* throttle.clear.
Clear(c) ==
    /\ request[c].phase = "clearing"
    /\ ClearThrottle(request[c].name)
    /\ Goes(c, "greeting")
    /\ Logged("cleared", request[c].name)
    /\ UNCHANGED <<bound, now, account, sessions, opened, attempts, changes>>

\* note_login_success.
Greet(c) ==
    /\ request[c].phase = "greeting"
    /\ account' = [account EXCEPT ![request[c].name] = Forgiven(@)]
    /\ Goes(c, "opening")
    /\ Logged("forgiven", request[c].name)
    /\ UNCHANGED <<bound, now, throttleVars, sessions, opened, attempts, changes>>

\* create_session.
Open(c) ==
    /\ request[c].phase = "opening"
    /\ opened' = opened + 1
    /\ sessions' = sessions \cup
            {[id |-> opened + 1, user |-> request[c].name,
              seen |-> now, used |-> now, expires |-> now + Lifetime, revoked |-> Never]}
    /\ Ends(c)
    /\ UNCHANGED <<bound, now, throttleVars, account, attempts, changes, log>>

-----------------------------------------------------------------------------
(* The sessions. *)

Live(s) == s.revoked = Never /\ s.expires > now

\* principal_for_session.
Admitted(s) == Live(s) /\ s.seen > now - Idle /\ ~account[s.user].disabled

\* Variant: only a use after half the idle time is noted.
SeenSeldom(s) == IF s.seen < now - Idle \div 2 THEN now ELSE s.seen

Seen(s) == IF s.seen < now - Minute THEN now ELSE s.seen

Used(s) == [s EXCEPT !.seen = Seen(s), !.used = now]

\* Any request under the session.
Use(s) ==
    /\ Admitted(s)
    /\ sessions' = (sessions \ {s}) \cup {Used(s)}
    /\ UNCHANGED <<bound, now, throttleVars, account, request, opened, attempts, changes, log>>

Revoked(s) == IF s.revoked = Never THEN [s EXCEPT !.revoked = now] ELSE s

\* sign_out: revoke_session.
SignOut(s) ==
    /\ Admitted(s)
    /\ sessions' = (sessions \ {s}) \cup {Revoked(Used(s))}
    /\ UNCHANGED <<bound, now, throttleVars, account, request, opened, attempts, changes, log>>

\* prune_dead_sessions.
Prune ==
    LET Over(s) == IF s.revoked # Never THEN s.revoked ELSE s.expires
    IN  /\ \E s \in sessions : Over(s) < now - Keep
        /\ sessions' = {s \in sessions : Over(s) >= now - Keep}
        /\ UNCHANGED <<bound, now, throttleVars, account, request, opened, attempts, changes, log>>

-----------------------------------------------------------------------------
(* Changing accounts.  Each has the row changed first, and then, in another  *)
(* transaction, the account's sessions revoked but for the one it spares.    *)

Counted ==
    /\ changes < bound.changes
    /\ changes' = changes + 1

Revokes(c, u, spared) ==
    request' = [request EXCEPT ![c] =
                  [phase |-> "revoking", name |-> u, typed |-> 0, spared |-> spared]]

\* reset_user_password: one nobody has had.
Reset(c, u) ==
    /\ Counted
    /\ request[c].phase = "idle"
    /\ account' = [account EXCEPT ![u] = NewPassword(@)]
    /\ Revokes(c, u, 0)
    /\ Logged("forgiven", u)
    /\ UNCHANGED <<bound, now, throttleVars, sessions, opened, attempts>>

\* change_own_password, once the current password was found right.
AskChange(c, s) ==
    /\ Counted
    /\ request[c].phase = "idle"
    /\ Admitted(s)
    /\ sessions' = (sessions \ {s}) \cup {Used(s)}
    /\ request' = [request EXCEPT ![c] =
                    [phase |-> "changing", name |-> s.user, typed |-> 0, spared |-> s.id]]
    /\ UNCHANGED <<bound, now, throttleVars, account, opened, attempts, log>>

Change(c) ==
    LET u == request[c].name
    IN  /\ request[c].phase = "changing"
        /\ account' = [account EXCEPT ![u] = NewPassword(@)]
        /\ Revokes(c, u, request[c].spared)
        /\ Logged("forgiven", u)
        /\ UNCHANGED <<bound, now, throttleVars, sessions, opened, attempts, changes>>

\* set_user_disabled, both ways; the second has no sessions to revoke.
Disable(c, u) ==
    /\ Counted
    /\ request[c].phase = "idle"
    /\ ~account[u].disabled
    /\ account' = [account EXCEPT ![u].disabled = TRUE]
    /\ Revokes(c, u, 0)
    /\ UNCHANGED <<bound, now, throttleVars, sessions, opened, attempts, log>>

Enable(u) ==
    /\ account[u].disabled
    /\ account' = [account EXCEPT ![u].disabled = FALSE]
    /\ UNCHANGED <<bound, now, throttleVars, sessions, request, opened, attempts, changes, log>>

\* revoke_sessions_for_user.
Revoke(c) ==
    /\ request[c].phase = "revoking"
    /\ sessions' = {IF s.user = request[c].name /\ s.id # request[c].spared THEN Revoked(s) ELSE s
                       : s \in sessions}
    /\ Ends(c)
    /\ UNCHANGED <<bound, now, throttleVars, account, opened, attempts, changes, log>>

-----------------------------------------------------------------------------
\* The api restarts: what it had in memory and in flight is gone.
Restart ==
    /\ Counted
    /\ hits' = << >>
    /\ order' = << >>
    /\ blocked' = << >>
    /\ request' = [c \in Clients |-> Idling]
    /\ Logged("restart", NoName)
    /\ UNCHANGED <<bound, now, account, sessions, opened, attempts>>

Next ==
    \/ Tick \/ Prune \/ Restart
    \/ \E c \in Clients :
          \/ \E name \in Names : \E typed \in Typed(name) : Ask(c, name, typed)
          \/ LookUp(c) \/ Note(c) \/ Record(c) \/ Rehash(c) \/ Clear(c) \/ Greet(c) \/ Open(c)
          \/ \E u \in Users : Reset(c, u) \/ Disable(c, u)
          \/ \E s \in sessions : AskChange(c, s)
          \/ Change(c) \/ Revoke(c)
    \/ \E u \in Users : Enable(u)
    \/ \E s \in sessions : Use(s) \/ SignOut(s)

Spec == Init /\ [][Next]_vars

-----------------------------------------------------------------------------
(***************************************************************************)
(* "Two concurrent failures cannot both read failed_attempts as            *)
(* one-below-threshold": an account has counted every wrong password since *)
(* it was last forgiven, however the sign-ins crossed, and once there are  *)
(* Limit of them it is locked until Cooloff after the last.                *)
(***************************************************************************)
After(i, what, name) ==
    \E j \in i + 1..Len(log) : log[j].what = what /\ log[j].name = name

WrongSince(u) ==
    {i \in DOMAIN log : log[i].what = "wrong" /\ log[i].name = u /\ ~After(i, "forgiven", u)}

FailuresCount ==
    \A u \in Users :
        /\ account[u].failed = Cardinality(WrongSince(u))
        /\ account[u].locked =
              IF account[u].failed < Limit THEN Never
              ELSE log[Max(WrongSince(u))].at + Cooloff

(***************************************************************************)
(* "Allow limit failures per window, then refuse for cooloff": a name that *)
(* failed Limit times within the window is refused for at least Cooloff    *)
(* from the first of them, unless it succeeded or the api restarted        *)
(* since, or so many other names failed between two of them that its past  *)
(* was dropped.                                                            *)
(***************************************************************************)
Failures(name) ==
    {i \in DOMAIN log : /\ log[i].what = "failure" /\ log[i].name = name
                        /\ ~After(i, "cleared", name) /\ ~After(i, "restart", NoName)}

\* The names that failed between the failures of a set.
Between(F) ==
    {log[i].name : i \in {j \in Min(F)..Max(F) : log[j].what = "failure"}}

LimitBlocks ==
    \A name \in Names :
        \A F \in kSubset(Limit, Failures(name)) :
            /\ log[Max(F)].at - log[Min(F)].at <= Window
            /\ Cardinality(Between(F)) <= MaxKeys
            /\ now < log[Min(F)].at + Cooloff
            => Blocked(name)

(***************************************************************************)
(* A session used a short while ago is admitted, and one not used for Idle *)
(* is not, whatever was coalesced: noting uses less often than they happen *)
(* costs a session no more than a Minute of its idle time.                 *)
(***************************************************************************)
UsedSessionsLast ==
    \A s \in sessions :
        /\ Live(s) /\ ~account[s.user].disabled /\ now - s.used < Idle - Minute => Admitted(s)
        /\ now - s.used >= Idle => ~Admitted(s)

-----------------------------------------------------------------------------
(* What they rest on. *)

Phases == {"idle", "looking", "noting", "recording", "rehashing", "clearing", "greeting",
           "opening", "changing", "revoking"}

Rows == [password: Nat, issued: Nat, outdated: BOOLEAN, failed: Nat,
         locked: Nat \cup {Never}, disabled: BOOLEAN]

SessionRows == [id: Nat, user: Users, seen: Nat, used: Nat, expires: Nat,
                revoked: Nat \cup {Never}]

Entries == [what: {"wrong", "failure", "forgiven", "cleared", "restart"},
            name: Names \cup {NoName}, at: Nat]

\* A request that has found a row is of an account.
RequestsOK ==
    /\ request \in [Clients -> [phase: Phases, name: Names \cup {NoName}, typed: Nat, spared: Nat]]
    /\ \A c \in Clients :
          /\ request[c].phase # "idle" => request[c].name \in Names
          /\ request[c].phase \notin {"idle", "looking", "recording"} => request[c].name \in Users

TypeOK ==
    /\ now \in Nat
    /\ order \in Seq(Names)
    /\ \A a, b \in DOMAIN order : order[a] = order[b] => a = b
    /\ hits \in [ToSet(order) -> Seq(Nat)]
    /\ DOMAIN blocked \subseteq Names
    /\ blocked \in [DOMAIN blocked -> Nat]
    /\ account \in [Users -> Rows]
    /\ sessions \subseteq SessionRows
    /\ opened \in Nat
    /\ log \in Seq(Entries)
    /\ RequestsOK

\* A session's last use is noted to the Minute.
UsesAreNoted ==
    \A s \in sessions : s.seen <= s.used /\ s.used <= now /\ s.used - s.seen <= Minute

\* The log is in the order of time.
LogInOrder ==
    /\ \A i \in DOMAIN log : log[i].at <= now
    /\ \A i, j \in DOMAIN log : i <= j => log[i].at <= log[j].at

\* The second name failed after all the failures of the first.
FailedLater(early, late) ==
    \E k \in DOMAIN log :
        /\ log[k].what = "failure" /\ log[k].name = late
        /\ \A i \in Failures(early) : i < k

\* The names are in the order of their last failures.
OrderIsRecency ==
    \A a, b \in DOMAIN order : a < b => FailedLater(order[a], order[b])

\* The name is refused until then, or it is later than that.
RefusedUntil(name, time) ==
    (name \in DOMAIN blocked /\ blocked[name] >= time) \/ now >= time

FailedFrom(i) == {log[j].name : j \in {j \in i..Len(log) : log[j].what = "failure"}}

\* A failure the throttle may have forgotten: too old, or followed by a block, or
\* by the failures of many names.
Forgettable(name, i) ==
    \/ log[i].at < now - Window
    \/ RefusedUntil(name, log[i].at + Cooloff)
    \/ Cardinality(FailedFrom(i)) > MaxKeys

\* It remembers the others: the g[j]th entry of the log is its jth.
RemembersOf(name) ==
    \E g \in [DOMAIN Hits(name) -> DOMAIN log] :
        /\ \A j \in DOMAIN Hits(name) : Hits(name)[j] = log[g[j]].at
        /\ \A i \in Failures(name) :
              Forgettable(name, i) \/ \E j \in DOMAIN Hits(name) : g[j] = i

Remembers == \A name \in Names : RemembersOf(name)

\* LimitBlocks, of past blocks as well.
RefusedFor(name, F) ==
    /\ log[Max(F)].at - log[Min(F)].at <= Window
    /\ Cardinality(Between(F)) <= MaxKeys
    => RefusedUntil(name, log[Min(F)].at + Cooloff)

LimitBlockedOf(name) == \A F \in kSubset(Limit, Failures(name)) : RefusedFor(name, F)

LimitBlocked == \A name \in Names : LimitBlockedOf(name)

ThrottleInv == LogInOrder /\ OrderIsRecency /\ Remembers /\ LimitBlocked
=============================================================================
