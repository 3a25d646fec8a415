---------------------------- MODULE AccountProofs ----------------------------
(***************************************************************************)
(* Proofs about the accounts of a deployment, of any number and with any   *)
(* number of requests about them at once.                                  *)
(*                                                                         *)
(* First SignIn: an account counts every wrong password, the throttle      *)
(* refuses a name that failed too often, and a session lasts as long as it *)
(* is used.  What the throttle remembers of the past is related to a log   *)
(* of that past, entry by entry.                                           *)
(*                                                                         *)
(* Then AdminGuard: as long as nobody is promoted or enabled while a       *)
(* request to disable or demote them is under way, the deployment keeps an *)
(* administrator.                                                          *)
(***************************************************************************)
EXTENDS SignIn, AdminGuard, FiniteSetTheorems, SequenceTheorems, TLAPS

-----------------------------------------------------------------------------
(* Numbers. *)

\* A set of numbers that has 0 and, with a number, the next one has them all.
\* Were m not in it, g would map 0..m into 1..m and no two to the same.
LEMMA NatInductive ==
  ASSUME NEW A, 0 \in A, \A n \in Nat : n \in A => n + 1 \in A
  PROVE  Nat \subseteq A
<1>1. SUFFICES ASSUME NEW m \in Nat, m \notin A PROVE FALSE
  OBVIOUS
<1> DEFINE g == [k \in 0..m |-> IF k \in A THEN k + 1 ELSE k]
<1>2. g \in [0..m -> 1..m]
  BY <1>1
<1>3. IsFiniteSet(0..m) /\ Cardinality(0..m) = m - 0 + 1
  BY <1>1, FS_Interval
<1>4. IsFiniteSet(1..m) /\ Cardinality(1..m) = m - 1 + 1
  BY <1>1, FS_Interval
<1>5. \E x, y \in 0..m : x # y /\ g[x] = g[y]
  <2> HIDE DEF g
  <2>1. Cardinality(1..m) < Cardinality(0..m)
    BY <1>1, <1>3, <1>4
  <2> QED
    BY <1>2, <1>3, <1>4, <2>1, FS_PigeonHole
<1>6. QED
  BY <1>5, <1>1

\* A nonempty set of numbers has a least one.
LEMMA Least ==
  ASSUME NEW S \in SUBSET Nat, S # {}
  PROVE  \E n \in S : \A m \in S : n <= m
<1>1. SUFFICES ASSUME \A n \in S : \E m \in S : m < n PROVE FALSE
  OBVIOUS
<1> DEFINE A == {n \in Nat : \A m \in 0..n : m \notin S}
<1>2. 0 \in A
  BY <1>1
<1>3. \A n \in Nat : n \in A => n + 1 \in A
  <2> SUFFICES ASSUME NEW n \in Nat, n \in A PROVE n + 1 \in A
    OBVIOUS
  <2>1. n + 1 \notin S
    BY <1>1
  <2> QED
    BY <2>1
<1>4. Nat \subseteq A
  <2> HIDE DEF A
  <2> QED BY <1>2, <1>3, NatInductive
<1>5. PICK n \in S : TRUE
  OBVIOUS
<1>6. n \in A
  BY <1>4
<1>7. QED
  BY <1>5, <1>6

\* A deployment starts with values of the types.
LEMMA InitTypes == Init => TypeOK
<1> SUFFICES ASSUME Init PROVE TypeOK
  OBVIOUS
<1>1. ToSet(order) = {} /\ hits \in [ToSet(order) -> Seq(Nat)]
  BY DEF Init, ToSet
<1>2. DOMAIN blocked = {}
  BY DEF Init
<1>3. account \in [Users -> Rows]
  <2> DEFINE First == [password: {1}, issued: {1}, outdated: BOOLEAN, failed: {0},
                       locked: {Never}, disabled: {FALSE}]
  <2>1. account \in [Users -> First]
    BY DEF Init
  <2>2. First \subseteq Rows
    <3> SUFFICES ASSUME NEW x \in First PROVE x \in Rows
      OBVIOUS
    <3>1. /\ x.password = 1 /\ x.issued = 1 /\ x.failed = 0 /\ x.locked = Never
          /\ x.outdated \in BOOLEAN /\ x.disabled \in BOOLEAN
      OBVIOUS
    <3>2. x = [password |-> x.password, issued |-> x.issued, outdated |-> x.outdated,
               failed |-> x.failed, locked |-> x.locked, disabled |-> x.disabled]
      OBVIOUS
    <3> QED
      BY <3>1, <3>2 DEF Rows
  <2> HIDE DEF First
  <2> QED
    BY <2>1, <2>2
<1> QED
  BY <1>1, <1>2, <1>3 DEF Init, TypeOK, RequestsOK, Idling, Phases

\* What is done to an account's row leaves a row.
LEMMA RowTypes ==
  ASSUME TypeOK, NEW u \in Users, NEW p \in Nat
  PROVE  /\ Forgiven(account[u]) \in Rows
         /\ FailedOnce(account[u]) \in Rows
         /\ WithPassword(account[u], p) \in Rows
         /\ NewPassword(account[u]) \in Rows
<1> USE CooloffAssumption, LimitAssumption
<1>1. account[u] \in Rows /\ now \in Nat
  BY DEF TypeOK
<1>2. Forgiven(account[u]) \in Rows
  BY <1>1 DEF Forgiven, Rows
<1>3. FailedOnce(account[u]) \in Rows
  <2> DEFINE row == account[u]
             until == IF row.failed + 1 >= Limit THEN now + Cooloff ELSE row.locked
  <2>1. row \in Rows
    BY <1>1
  <2>2. until \in Nat \cup {Never} /\ row.failed + 1 \in Nat
    BY <1>1, <2>1 DEF Rows
  <2>3. FailedOnce(row) = [row EXCEPT !.failed = row.failed + 1, !.locked = until]
    BY <2>1 DEF FailedOnce, Rows
  <2> HIDE DEF until, row
  <2>4. FailedOnce(row) \in Rows
    BY <2>1, <2>2, <2>3 DEF Rows
  <2> QED
    BY <2>4 DEF row
<1>4. ASSUME NEW q \in Nat PROVE WithPassword(account[u], q) \in Rows
  BY <1>2 DEF WithPassword, Rows
<1>5. NewPassword(account[u]) \in Rows
  <2>1. account[u].issued + 1 \in Nat
    BY <1>1 DEF Rows
  <2>2. WithPassword(account[u], account[u].issued + 1) \in Rows
    BY <2>1, <1>4
  <2> QED
    BY <2>2 DEF NewPassword, Rows
<1> QED
  BY <1>2, <1>3, <1>4, <1>5

\* An entry of the log is one.
LEMMA LogTypes ==
  ASSUME TypeOK, NEW what \in {"wrong", "failure", "forgiven", "cleared", "restart"},
         NEW name \in Names \cup {NoName}, Logged(what, name)
  PROVE  log' \in Seq(Entries)
BY DEF Logged, TypeOK, Entries

\* A session used or revoked is one.
LEMMA SessionTypes ==
  ASSUME TypeOK, NEW s \in sessions
  PROVE  {Used(s), Revoked(s), Revoked(Used(s))} \subseteq SessionRows
<1>1. s \in SessionRows /\ now \in Nat
  BY DEF TypeOK
<1>2. Used(s) \in SessionRows
  BY <1>1 DEF Used, Seen, SessionRows
<1>3. \A x \in SessionRows : Revoked(x) \in SessionRows
  BY <1>1 DEF Revoked, SessionRows
<1> QED
  BY <1>1, <1>2, <1>3

\* A request goes on, begins or ends.
LEMMA RequestTypes ==
  ASSUME RequestsOK, NEW c \in Clients,
         NEW r \in [phase: Phases, name: Names \cup {NoName}, typed: Nat, spared: Nat],
         r.phase # "idle" => r.name \in Names,
         r.phase \notin {"idle", "looking", "recording"} => r.name \in Users,
         request' = [request EXCEPT ![c] = r]
  PROVE  RequestsOK'
BY DEF RequestsOK

\* A request goes on to a step past the look-up only if it found an account.
LEMMA RequestGoes ==
  ASSUME RequestsOK, NEW c \in Clients, NEW next \in Phases \ {"idle"},
         request[c].phase # "idle",
         next \notin {"looking", "recording"} => request[c].name \in Users,
         Goes(c, next)
  PROVE  RequestsOK'
<1> DEFINE r == [request[c] EXCEPT !.phase = next]
<1>1. /\ r \in [phase: Phases, name: Names \cup {NoName}, typed: Nat, spared: Nat]
      /\ r.phase = next /\ r.name = request[c].name
  BY DEF RequestsOK
<1>2. request' = [request EXCEPT ![c] = r]
  BY DEF Goes, RequestsOK
<1>3. request[c].name \in Names
  BY DEF RequestsOK
<1> HIDE DEF r
<1> QED
  BY <1>1, <1>2, <1>3, RequestTypes

\* A request that ends is about nobody.
LEMMA RequestEnds ==
  ASSUME RequestsOK, NEW c \in Clients, Ends(c)
  PROVE  RequestsOK'
<1>1. Idling \in [phase: Phases, name: Names \cup {NoName}, typed: Nat, spared: Nat]
      /\ Idling.phase = "idle"
  BY DEF Idling, Phases
<1> QED
  BY <1>1 DEF Ends, RequestsOK

\* A change of an account goes on to revoke that account's sessions.
LEMMA RequestRevokes ==
  ASSUME RequestsOK, NEW c \in Clients, NEW u \in Users, NEW spared \in Nat, Revokes(c, u, spared)
  PROVE  RequestsOK'
<1> DEFINE r == [phase |-> "revoking", name |-> u, typed |-> 0, spared |-> spared]
<1>1. /\ r \in [phase: Phases, name: Names \cup {NoName}, typed: Nat, spared: Nat]
      /\ r.phase = "revoking" /\ r.name = u
  BY DEF Phases, Names
<1>2. request' = [request EXCEPT ![c] = r]
  BY DEF Revokes
<1> HIDE DEF r
<1> QED
  BY <1>1, <1>2, RequestTypes DEF Names

\* The account's row changes to one of its type.
LEMMA AccountTypes ==
  ASSUME TypeOK, NEW u \in Users, NEW row \in Rows, account' = [account EXCEPT ![u] = row]
  PROVE  account' \in [Users -> Rows]
BY DEF TypeOK

-----------------------------------------------------------------------------
(* The throttle's names and times. *)

\* What a part of a sequence is, from an element to another.
LEMMA PartOf ==
  ASSUME NEW S, NEW s \in Seq(S), NEW m \in Nat, NEW n \in Nat, 1 <= m, m <= n + 1, n <= Len(s)
  PROVE  /\ SubSeq(s, m, n) \in Seq(S)
         /\ Len(SubSeq(s, m, n)) = (n + 1) - m
         /\ \A i \in 1..((n + 1) - m) : SubSeq(s, m, n)[i] = s[(m + i) - 1]
<1>1. \A i \in m..n : s[i] \in S
  OBVIOUS
<1>2. /\ SubSeq(s, m, n) \in Seq(S)
      /\ Len(SubSeq(s, m, n)) = IF m <= n THEN n - m + 1 ELSE 0
      /\ \A i \in 1..(n - m + 1) : SubSeq(s, m, n)[i] = s[m + i - 1]
  BY <1>1, SubSeqProperties
<1> QED
  BY <1>2

\* Where the i-th of the others stands in the order.
LEMMA OthersAre ==
  ASSUME TypeOK, NEW name
  PROVE  /\ Others(name) \in Seq(Names)
         /\ ToSet(Others(name)) = ToSet(order) \ {name}
         /\ \E e \in [DOMAIN Others(name) -> DOMAIN order] :
              /\ \A a \in DOMAIN Others(name) : Others(name)[a] = order[e[a]]
              /\ \A a, b \in DOMAIN Others(name) : a < b => e[a] < e[b]
<1>1. /\ order \in Seq(Names) /\ DOMAIN order = 1..Len(order) /\ Len(order) \in Nat
      /\ \A a, b \in DOMAIN order : order[a] = order[b] => a = b
  BY DEF TypeOK
<1>2. CASE name \notin ToSet(order)
  <2>1. Others(name) = order
    BY <1>2 DEF Others
  <2> DEFINE e == [a \in DOMAIN order |-> a]
  <2>2. e \in [DOMAIN order -> DOMAIN order] /\ \A a \in DOMAIN order : e[a] = a
    OBVIOUS
  <2>3. \E f \in [DOMAIN order -> DOMAIN order] :
              /\ \A a \in DOMAIN order : order[a] = order[f[a]]
              /\ \A a, b \in DOMAIN order : a < b => f[a] < f[b]
    BY <1>1, <2>2
  <2>4. ToSet(order) = ToSet(order) \ {name}
    BY <1>2
  <2> QED
    BY <1>1, <2>1, <2>3, <2>4
<1>3. CASE name \in ToSet(order)
  <2> DEFINE at == CHOOSE i \in DOMAIN order : order[i] = name
             rest == RemoveAt(order, at)
  <2>1. at \in DOMAIN order /\ order[at] = name
    BY <1>3 DEF ToSet
  <2>2. Others(name) = rest
    BY <1>3 DEF Others
  <2> HIDE DEF at
  <2>3. /\ rest \in Seq(Names) /\ Len(rest) = Len(order) - 1
        /\ \A a \in 1..Len(rest) : rest[a] = IF a < at THEN order[a] ELSE order[a + 1]
    <3> DEFINE front == SubSeq(order, 1, at - 1)
               back  == SubSeq(order, at + 1, Len(order))
    <3>1. at \in 1..Len(order) /\ at \in Nat
      BY <1>1, <2>1
    <3>2. /\ front \in Seq(Names) /\ Len(front) = at - 1
          /\ \A a \in 1..(at - 1) : front[a] = order[a]
      BY <1>1, <3>1
    <3>3. /\ back \in Seq(Names) /\ Len(back) = Len(order) - at
          /\ \A a \in 1..(Len(order) - at) : back[a] = order[at + a]
      <4>1. at + 1 \in Nat /\ 1 <= at + 1 /\ at + 1 <= Len(order) + 1
        BY <1>1, <3>1
      <4>2. /\ back \in Seq(Names) /\ Len(back) = (Len(order) + 1) - (at + 1)
            /\ \A a \in 1..((Len(order) + 1) - (at + 1)) : back[a] = order[((at + 1) + a) - 1]
        BY <1>1, <4>1, PartOf
      <4>3. /\ (Len(order) + 1) - (at + 1) = Len(order) - at
            /\ \A a \in 1..(Len(order) - at) : ((at + 1) + a) - 1 = at + a
        BY <1>1, <3>1
      <4> HIDE DEF back
      <4>4. Len(back) = Len(order) - at /\ back \in Seq(Names)
        BY <4>2, <4>3
      <4>5. ASSUME NEW a \in 1..(Len(order) - at) PROVE back[a] = order[at + a]
        BY <4>2, <4>3
      <4> QED
        BY <4>4, <4>5
    <3>4. rest = front \o back
      BY DEF RemoveAt
    <3> HIDE DEF front, back, rest
    <3>5. /\ rest \in Seq(Names) /\ Len(rest) = Len(front) + Len(back)
          /\ \A a \in 1..Len(rest) :
               rest[a] = IF a <= Len(front) THEN front[a] ELSE back[a - Len(front)]
      <4>1. /\ front \o back \in Seq(Names) /\ Len(front \o back) = Len(front) + Len(back)
            /\ \A a \in 1..(Len(front) + Len(back)) :
                 (front \o back)[a] = IF a <= Len(front) THEN front[a] ELSE back[a - Len(front)]
        BY <3>2, <3>3, ConcatProperties
      <4> QED
        BY <3>4, <4>1
    <3>6. Len(rest) = Len(order) - 1
      BY <1>1, <3>1, <3>2, <3>3, <3>5
    <3>7. ASSUME NEW a \in 1..Len(rest)
          PROVE  rest[a] = IF a < at THEN order[a] ELSE order[a + 1]
      <4>1. CASE a < at
        BY <1>1, <3>1, <3>2, <3>5, <4>1
      <4>2. CASE ~(a < at)
        <5>1. a - Len(front) \in 1..(Len(order) - at) /\ at + (a - Len(front)) = a + 1
          BY <1>1, <3>1, <3>2, <3>6, <4>2
        <5>2. rest[a] = back[a - Len(front)]
          BY <1>1, <3>1, <3>2, <3>5, <4>2
        <5> QED
          BY <3>3, <4>2, <5>1, <5>2
      <4> QED
        BY <4>1, <4>2
    <3> QED
      BY <3>5, <3>6, <3>7
  <2> HIDE DEF rest
  <2>4. at \in 1..Len(order) /\ DOMAIN rest = 1..Len(rest)
    BY <1>1, <2>1, <2>3
  <2> DEFINE e == [a \in DOMAIN rest |-> IF a < at THEN a ELSE a + 1]
  <2>5. /\ e \in [DOMAIN rest -> DOMAIN order]
        /\ \A a \in DOMAIN rest : rest[a] = order[e[a]] /\ e[a] # at
        /\ \A a, b \in DOMAIN rest : a < b => e[a] < e[b]
    BY <1>1, <2>3, <2>4
  <2>6. \A i \in DOMAIN order : i # at => \E a \in DOMAIN rest : e[a] = i
    <3> SUFFICES ASSUME NEW i \in DOMAIN order, i # at
                 PROVE  \E a \in DOMAIN rest : e[a] = i
      OBVIOUS
    <3>1. CASE i < at
      <4>1. i \in DOMAIN rest /\ e[i] = i
        BY <1>1, <2>3, <2>4, <3>1
      <4> QED
        BY <4>1
    <3>2. CASE i > at
      <4>1. i - 1 \in DOMAIN rest /\ e[i - 1] = i
        BY <1>1, <2>3, <2>4, <3>2
      <4> QED
        BY <4>1
    <3> QED
      BY <1>1, <2>4, <3>1, <3>2
  <2> HIDE DEF e
  <2>7. ToSet(rest) = ToSet(order) \ {name}
    BY <1>1, <2>1, <2>5, <2>6 DEF ToSet
  <2> QED
    BY <2>2, <2>3, <2>5, <2>7
<1> QED
  BY <1>2, <1>3

\* Min of a set of numbers is one of them.
LEMMA SmallestIs ==
  ASSUME NEW S \in SUBSET Nat, S # {}
  PROVE  Min(S) \in S /\ \A x \in S : Min(S) <= x
<1>1. PICK n \in S : \A m \in S : n <= m
  BY Least
<1> QED
  BY <1>1 DEF Min

\* The recent times are those from some first one on; the ones before it are old.
LEMMA RecentAre ==
  ASSUME now \in Nat, NEW times \in Seq(Nat)
  PROVE  \E first \in Nat :
           /\ 1 <= first /\ first <= Len(times) + 1
           /\ \A i \in 1..(first - 1) : times[i] < now - Window
           /\ Recent(times) \in Seq(Nat)
           /\ Len(Recent(times)) = (Len(times) + 1) - first
           /\ \A i \in 1..((Len(times) + 1) - first) : Recent(times)[i] = times[(first + i) - 1]
<1> DEFINE young == {i \in 1..Len(times) + 1 : i \in DOMAIN times => times[i] >= now - Window}
           first == Min(young)
<1>1. Len(times) \in Nat /\ DOMAIN times = 1..Len(times)
  OBVIOUS
<1>2. young \in SUBSET Nat /\ Len(times) + 1 \in young
  BY <1>1
<1>3. first \in young /\ \A i \in young : first <= i
  <2> HIDE DEF young
  <2> QED
    BY <1>2, SmallestIs
<1>4. Recent(times) = SubSeq(times, first, Len(times))
  BY DEF Recent
<1> HIDE DEF first
<1>5. first \in Nat /\ 1 <= first /\ first <= Len(times) + 1
  BY <1>1, <1>3
<1>6. ASSUME NEW i \in 1..(first - 1) PROVE times[i] < now - Window
  <2>1. i \in DOMAIN times /\ i \in 1..Len(times) + 1 /\ ~(first <= i)
    BY <1>1, <1>5
  <2>2. i \notin young
    BY <1>3, <2>1
  <2>3. times[i] \in Nat
    BY <2>1
  <2> QED
    BY <2>1, <2>2, <2>3, CooloffAssumption
<1>7. /\ SubSeq(times, first, Len(times)) \in Seq(Nat)
      /\ Len(SubSeq(times, first, Len(times))) = (Len(times) + 1) - first
      /\ \A i \in 1..((Len(times) + 1) - first) :
            SubSeq(times, first, Len(times))[i] = times[(first + i) - 1]
  BY <1>1, <1>5, PartOf
<1> QED
  BY <1>4, <1>5, <1>6, <1>7

\* The throttle has times.
LEMMA HitsAreTimes ==
  ASSUME TypeOK, NEW name
  PROVE  Hits(name) \in Seq(Nat) /\ Times(name) \in Seq(Nat)
<1>1. Hits(name) \in Seq(Nat) /\ now \in Nat
  BY DEF TypeOK, Hits
<1>2. Recent(Hits(name)) \in Seq(Nat)
  BY <1>1, RecentAre
<1> QED
  BY <1>1, <1>2 DEF Times

\* A name that fails moves to the end.
LEMMA MovedAre ==
  ASSUME TypeOK, NEW name \in Names
  PROVE  /\ Moved(name) \in Seq(Names) /\ Len(Moved(name)) = Len(Others(name)) + 1
         /\ Moved(name)[Len(Moved(name))] = name
         /\ \A a \in 1..Len(Others(name)) : Moved(name)[a] = Others(name)[a]
             /\ Moved(name)[a] # name
         /\ ToSet(Moved(name)) = ToSet(order) \cup {name}
         /\ \A a, b \in DOMAIN Moved(name) : Moved(name)[a] = Moved(name)[b] => a = b
<1> DEFINE rest == Others(name)
           moved == Moved(name)
<1>1. rest \in Seq(Names) /\ ToSet(rest) = ToSet(order) \ {name} /\ DOMAIN rest = 1..Len(rest)
      /\ Len(rest) \in Nat
  BY OthersAre
<1>2. PICK e \in [DOMAIN rest -> DOMAIN order] :
              /\ \A a \in DOMAIN rest : rest[a] = order[e[a]]
              /\ \A a, b \in DOMAIN rest : a < b => e[a] < e[b]
  BY OthersAre
<1>3. moved = Append(rest, name)
  BY DEF Moved
<1> HIDE DEF rest, moved
<1>4. /\ moved \in Seq(Names) /\ Len(moved) = Len(rest) + 1 /\ moved[Len(rest) + 1] = name
      /\ \A a \in 1..Len(rest) : moved[a] = rest[a]
      /\ DOMAIN moved = 1..(Len(rest) + 1)
  BY <1>1, <1>3
<1>5. \A a \in 1..Len(rest) : rest[a] # name
  BY <1>1 DEF ToSet
<1>6. ToSet(moved) = ToSet(rest) \cup {name}
  BY <1>1, <1>4 DEF ToSet
<1>7. ASSUME NEW a \in DOMAIN moved, NEW b \in DOMAIN moved, a < b PROVE moved[a] # moved[b]
  <2>1. a \in 1..Len(rest)
    BY <1>1, <1>4, <1>7
  <2>2. CASE b = Len(rest) + 1
    BY <1>4, <1>5, <2>1, <2>2
  <2>3. CASE b # Len(rest) + 1
    <3>1. b \in 1..Len(rest)
      BY <1>1, <1>4, <2>3
    <3>2. e[a] < e[b] /\ e[a] \in DOMAIN order /\ e[b] \in DOMAIN order
      BY <1>1, <1>2, <1>7, <2>1, <3>1
    <3>3. e[a] # e[b]
      BY <3>2 DEF TypeOK
    <3>4. order[e[a]] # order[e[b]]
      BY <3>2, <3>3 DEF TypeOK
    <3> QED
      BY <1>1, <1>2, <1>4, <2>1, <3>1, <3>4
  <2> QED
    BY <2>2, <2>3
<1>8. \A a, b \in DOMAIN moved : a < b \/ a = b \/ b < a
  BY <1>1, <1>4
<1> QED
  BY <1>1, <1>4, <1>5, <1>6, <1>7, <1>8 DEF rest, moved

\* The first of the names may make room, never the last.
LEMMA EvictedAre ==
  ASSUME NEW names \in Seq(Names), names # << >>
  PROVE  LET shift == IF Len(names) > MaxKeys THEN 1 ELSE 0
         IN  /\ Evicted(names) \in Seq(Names)
             /\ Len(Evicted(names)) = Len(names) - shift
             /\ \A a \in 1..(Len(names) - shift) : Evicted(names)[a] = names[a + shift]
             /\ names[Len(names)] \in ToSet(Evicted(names))
<1>1. Len(names) \in Nat /\ Len(names) >= 1
  BY EmptySeq
<1>2. CASE Len(names) > MaxKeys
  <2>1. /\ Evicted(names) = Tail(names) /\ Evicted(names) \in Seq(Names)
        /\ Len(Evicted(names)) = Len(names) - 1
        /\ \A a \in 1..(Len(names) - 1) : Evicted(names)[a] = names[a + 1]
    BY <1>1, <1>2, HeadTailProperties DEF Evicted
  <2>2. Len(names) - 1 \in 1..(Len(names) - 1) /\ (Len(names) - 1) + 1 = Len(names)
    BY <1>1, <1>2, LimitAssumption
  <2>3. Len(names) - 1 \in DOMAIN Evicted(names)
        /\ Evicted(names)[Len(names) - 1] = names[Len(names)]
    BY <2>1, <2>2
  <2>4. names[Len(names)] \in ToSet(Evicted(names))
    BY <2>3 DEF ToSet
  <2> QED
    BY <1>2, <2>1, <2>4
<1>3. CASE ~(Len(names) > MaxKeys)
  <2>1. Evicted(names) = names /\ names[Len(names)] \in ToSet(names)
    BY <1>1, <1>3 DEF Evicted, ToSet
  <2> QED
    BY <1>1, <1>3, <2>1
<1> QED
  BY <1>2, <1>3

\* The types of what the throttle remembers.
ThrottleTypes ==
  /\ order \in Seq(Names)
  /\ \A a, b \in DOMAIN order : order[a] = order[b] => a = b
  /\ hits \in [ToSet(order) -> Seq(Nat)]
  /\ DOMAIN blocked \subseteq Names
  /\ blocked \in [DOMAIN blocked -> Nat]

\* A failure recorded: the name at the end, maybe one name less, the others as before.
LEMMA RecordTypes ==
  ASSUME TypeOK, NEW name \in Names, RecordFailure(name)
  PROVE  ThrottleTypes'
<1> DEFINE moved == Moved(name)
           left == Evicted(moved)
           shift == IF Len(moved) > MaxKeys THEN 1 ELSE 0
<1>1. /\ moved \in Seq(Names) /\ ToSet(moved) = ToSet(order) \cup {name} /\ moved # << >>
      /\ \A a, b \in DOMAIN moved : moved[a] = moved[b] => a = b
  <2>1. /\ moved \in Seq(Names) /\ ToSet(moved) = ToSet(order) \cup {name}
        /\ \A a, b \in DOMAIN moved : moved[a] = moved[b] => a = b
    BY MovedAre
  <2>2. moved # << >>
    BY <2>1 DEF ToSet
  <2> QED
    BY <2>1, <2>2
<1>2. /\ left \in Seq(Names) /\ Len(left) = Len(moved) - shift
      /\ \A a \in 1..(Len(moved) - shift) : left[a] = moved[a + shift]
  BY <1>1, EvictedAre
<1>3. order' = left /\ shift \in {0, 1} /\ Len(moved) \in Nat /\ DOMAIN moved = 1..Len(moved)
      /\ DOMAIN left = 1..Len(left)
  BY <1>1, <1>2 DEF RecordFailure
<1> HIDE DEF moved, left, shift
<1>4. \A a, b \in DOMAIN left : left[a] = left[b] => a = b
  <2> SUFFICES ASSUME NEW a \in DOMAIN left, NEW b \in DOMAIN left, left[a] = left[b] PROVE a = b
    OBVIOUS
  <2>1. a + shift \in DOMAIN moved /\ b + shift \in DOMAIN moved
    BY <1>2, <1>3
  <2>2. moved[a + shift] = moved[b + shift]
    BY <1>2, <1>3
  <2>3. a + shift = b + shift
    BY <1>1, <2>1, <2>2
  <2> QED
    BY <1>3, <2>3
<1>5. ToSet(left) \subseteq ToSet(moved)
  <2> SUFFICES ASSUME NEW a \in DOMAIN left PROVE left[a] \in ToSet(moved)
    BY DEF ToSet
  <2>1. a + shift \in DOMAIN moved /\ left[a] = moved[a + shift]
    BY <1>2, <1>3
  <2> QED
    BY <2>1 DEF ToSet
<1>6. hits' \in [ToSet(left) -> Seq(Nat)]
  <2>1. hits' = [n \in ToSet(left) |->
                   IF n # name THEN hits[n]
                   ELSE IF Len(Times(name)) >= Limit THEN << >> ELSE Times(name)]
    BY DEF RecordFailure, left, moved
  <2>2. Times(name) \in Seq(Nat) /\ << >> \in Seq(Nat)
    BY HitsAreTimes
  <2>3. \A n \in ToSet(left) : n # name => hits[n] \in Seq(Nat)
    BY <1>1, <1>5 DEF TypeOK
  <2> QED
    BY <2>1, <2>2, <2>3
<1>7. DOMAIN blocked' \subseteq Names /\ blocked' \in [DOMAIN blocked' -> Nat]
  <2>1. blocked \in [DOMAIN blocked -> Nat] /\ DOMAIN blocked \subseteq Names
        /\ now + Cooloff \in Nat
    BY CooloffAssumption DEF TypeOK
  <2>2. \/ blocked' = blocked
        \/ blocked' = [n \in DOMAIN blocked \cup {name} |->
                         IF n = name THEN now + Cooloff ELSE blocked[n]]
    BY DEF RecordFailure
  <2> QED
    BY <2>1, <2>2
<1> QED
  BY <1>2, <1>3, <1>4, <1>6, <1>7 DEF ThrottleTypes

\* The others are still in the order once.
LEMMA OthersDistinct ==
  ASSUME TypeOK, NEW name
  PROVE  \A a, b \in DOMAIN Others(name) : Others(name)[a] = Others(name)[b] => a = b
<1> DEFINE rest == Others(name)
<1>1. rest \in Seq(Names) /\ DOMAIN rest = 1..Len(rest) /\ Len(rest) \in Nat
  BY OthersAre
<1>2. PICK e \in [DOMAIN rest -> DOMAIN order] :
              /\ \A a \in DOMAIN rest : rest[a] = order[e[a]]
              /\ \A a, b \in DOMAIN rest : a < b => e[a] < e[b]
  BY OthersAre
<1> HIDE DEF rest
<1>3. ASSUME NEW a \in DOMAIN rest, NEW b \in DOMAIN rest, a < b PROVE rest[a] # rest[b]
  <2>1. e[a] < e[b] /\ e[a] \in 1..Len(order) /\ e[b] \in 1..Len(order)
    BY <1>2, <1>3 DEF TypeOK
  <2>2. e[a] # e[b] /\ e[a] \in DOMAIN order /\ e[b] \in DOMAIN order
    BY <1>2, <2>1
  <2>3. order[e[a]] # order[e[b]]
    BY <2>2 DEF TypeOK
  <2> QED
    BY <1>2, <2>3
<1>4. \A a, b \in DOMAIN rest : a < b \/ a = b \/ b < a
  BY <1>1
<1> QED
  BY <1>3, <1>4 DEF rest

\* A name cleared is in none of the throttle's tables.
LEMMA ClearTypes ==
  ASSUME TypeOK, NEW name, ClearThrottle(name)
  PROVE  ThrottleTypes'
<1>1. order' = Others(name) /\ order' \in Seq(Names) /\ ToSet(order') = ToSet(order) \ {name}
  BY OthersAre DEF ClearThrottle
<1>2. \A a, b \in DOMAIN order' : order'[a] = order'[b] => a = b
  BY <1>1, OthersDistinct
<1>3. hits' \in [ToSet(order') -> Seq(Nat)]
  BY <1>1 DEF ClearThrottle, Restrict, TypeOK
<1>4. DOMAIN blocked' \subseteq Names /\ blocked' \in [DOMAIN blocked' -> Nat]
  BY DEF ClearThrottle, Restrict, TypeOK
<1> QED
  BY <1>1, <1>2, <1>3, <1>4 DEF ThrottleTypes

-----------------------------------------------------------------------------
(* The types, action by action. *)

\* The throttle is as before if a step does not say otherwise ...
LEMMA ThrottleAsBefore ==
  ASSUME TypeOK, UNCHANGED throttleVars
  PROVE  ThrottleTypes'
BY DEF TypeOK, ThrottleTypes, throttleVars

\* ... and so are the requests.
LEMMA RequestsAsBefore ==
  ASSUME TypeOK, UNCHANGED request
  PROVE  RequestsOK'
BY DEF TypeOK, RequestsOK

\* Whom a request is about.
LEMMA RequestFacts ==
  ASSUME TypeOK, NEW c \in Clients
  PROVE  /\ request[c].name \in Names \cup {NoName}
         /\ request[c].typed \in Nat /\ request[c].spared \in Nat
         /\ request[c].phase # "idle" => request[c].name \in Names
         /\ request[c].phase \notin {"idle", "looking", "recording"} => request[c].name \in Users
BY DEF TypeOK, RequestsOK

\* The types are kept by a sign-in's asking the throttle ...
LEMMA AskTypes ==
  ASSUME TypeOK, NEW c \in Clients, NEW name \in Names, NEW typed \in Typed(name),
         Ask(c, name, typed)
  PROVE  TypeOK'
<1>1. typed \in Nat
  BY DEF Typed, TypeOK, Rows
<1>2. CASE Blocked(name)
  <2>1. ThrottleTypes' /\ RequestsOK'
    BY <1>2, ThrottleAsBefore, RequestsAsBefore DEF Ask, throttleVars
  <2> QED
    BY <2>1 DEF Ask, TypeOK, ThrottleTypes
<1>3. CASE ~Blocked(name)
  <2> DEFINE r == [phase |-> "looking", name |-> name, typed |-> typed, spared |-> 0]
  <2>1. /\ r \in [phase: Phases, name: Names \cup {NoName}, typed: Nat, spared: Nat]
        /\ r.phase = "looking" /\ r.name = name
    BY <1>1 DEF Phases
  <2>2. request' = [request EXCEPT ![c] = r]
    BY <1>3 DEF Ask
  <2> HIDE DEF r
  <2>3. RequestsOK'
    BY <2>1, <2>2, RequestTypes DEF TypeOK
  <2>4. DOMAIN blocked' \subseteq Names /\ blocked' \in [DOMAIN blocked' -> Nat]
    BY <1>3 DEF Ask, Restrict, TypeOK
  <2> QED
    BY <2>3, <2>4 DEF Ask, TypeOK
<1> QED
  BY <1>2, <1>3

\* ... by its look-up of the account ...
LEMMA LookUpTypes ==
  ASSUME TypeOK, NEW c \in Clients, LookUp(c)
  PROVE  TypeOK'
<1>1. request[c].phase = "looking" /\ request[c].name \in Names
  BY RequestFacts DEF LookUp
<1>2. RequestsOK
  BY DEF TypeOK
<1>3. CASE Ends(c)
  BY <1>2, <1>3, RequestEnds DEF LookUp, TypeOK, throttleVars
<1>4. CASE Goes(c, "recording")
  <2>1. RequestsOK'
    BY <1>1, <1>2, <1>4, RequestGoes DEF Phases
  <2> QED
    BY <2>1 DEF LookUp, TypeOK, throttleVars
<1>5. ASSUME NEW next \in {"noting", "rehashing", "clearing"}, Goes(c, next),
             request[c].name \in Users
      PROVE  TypeOK'
  <2>1. RequestsOK'
    BY <1>1, <1>2, <1>5, RequestGoes DEF Phases
  <2> QED
    BY <2>1 DEF LookUp, TypeOK, throttleVars
<1> QED
  BY <1>3, <1>4, <1>5 DEF LookUp

\* ... by its counting a wrong password on the account ...
LEMMA NoteTypes ==
  ASSUME TypeOK, NEW c \in Clients, Note(c)
  PROVE  TypeOK'
<1> DEFINE u == request[c].name
<1>1. u \in Users /\ request[c].phase = "noting"
  BY RequestFacts DEF Note
<1>2. RequestsOK'
  BY <1>1, RequestGoes DEF Note, TypeOK, Phases
<1>3. account' = [account EXCEPT ![u] = FailedOnce(account[u])]
  BY <1>1 DEF Note, TypeOK
<1> HIDE DEF u
<1>4. account' \in [Users -> Rows]
  BY <1>1, <1>3, RowTypes, AccountTypes
<1>5. log' \in Seq(Entries)
  BY <1>1, LogTypes DEF Note, Names, u
<1> QED
  BY <1>2, <1>4, <1>5 DEF Note, TypeOK, throttleVars

\* ... and in the throttle ...
LEMMA RecordStepTypes ==
  ASSUME TypeOK, NEW c \in Clients, Record(c)
  PROVE  TypeOK'
<1>1. request[c].name \in Names
  BY RequestFacts DEF Record
<1>2. RequestsOK' /\ ThrottleTypes' /\ log' \in Seq(Entries)
  BY <1>1, RequestEnds, RecordTypes, LogTypes DEF Record, TypeOK
<1> QED
  BY <1>2 DEF Record, TypeOK, ThrottleTypes

\* ... by its hashing a right one again ...
LEMMA RehashTypes ==
  ASSUME TypeOK, NEW c \in Clients, Rehash(c)
  PROVE  TypeOK'
<1> DEFINE u == request[c].name
           typed == request[c].typed
<1>1. u \in Users /\ request[c].phase = "rehashing" /\ typed \in Nat
  BY RequestFacts DEF Rehash
<1>2. RequestsOK'
  BY <1>1, RequestGoes DEF Rehash, TypeOK, Phases
<1>3. account' = [account EXCEPT ![u] = WithPassword(account[u], typed)]
  BY <1>1 DEF Rehash, TypeOK
<1>4. log' \in Seq(Entries)
  BY <1>1, LogTypes DEF Rehash, Names
<1> HIDE DEF u, typed
<1>5. account' \in [Users -> Rows]
  BY <1>1, <1>3, RowTypes, AccountTypes
<1> QED
  BY <1>2, <1>4, <1>5 DEF Rehash, TypeOK, throttleVars

\* ... its clearing of the throttle ...
LEMMA ClearStepTypes ==
  ASSUME TypeOK, NEW c \in Clients, Clear(c)
  PROVE  TypeOK'
<1>1. request[c].name \in Users /\ request[c].phase = "clearing"
  BY RequestFacts DEF Clear
<1>2. RequestsOK'
  BY <1>1, RequestGoes DEF Clear, TypeOK, Phases
<1>3. ThrottleTypes' /\ log' \in Seq(Entries)
  BY <1>1, ClearTypes, LogTypes DEF Clear, TypeOK, Names
<1> QED
  BY <1>2, <1>3 DEF Clear, TypeOK, ThrottleTypes

\* ... its forgiving the account ...
LEMMA GreetTypes ==
  ASSUME TypeOK, NEW c \in Clients, Greet(c)
  PROVE  TypeOK'
<1> DEFINE u == request[c].name
<1>1. u \in Users /\ request[c].phase = "greeting"
  BY RequestFacts DEF Greet
<1>2. RequestsOK'
  BY <1>1, RequestGoes DEF Greet, TypeOK, Phases
<1>3. account' = [account EXCEPT ![u] = Forgiven(account[u])]
  BY <1>1 DEF Greet, TypeOK
<1>4. log' \in Seq(Entries)
  BY <1>1, LogTypes DEF Greet, Names
<1> HIDE DEF u
<1>5. account' \in [Users -> Rows]
  BY <1>1, <1>3, RowTypes, AccountTypes DEF TypeOK
<1> QED
  BY <1>2, <1>4, <1>5 DEF Greet, TypeOK, throttleVars

\* ... and its opening of a session.
LEMMA OpenTypes ==
  ASSUME TypeOK, NEW c \in Clients, Open(c)
  PROVE  TypeOK'
<1>1. request[c].name \in Users
  BY RequestFacts DEF Open
<1>2. RequestsOK'
  BY RequestEnds DEF Open, TypeOK
<1>3. [id |-> opened + 1, user |-> request[c].name, seen |-> now, used |-> now,
       expires |-> now + Lifetime, revoked |-> Never] \in SessionRows
  BY <1>1, SessionAssumption DEF TypeOK, SessionRows
<1> QED
  BY <1>2, <1>3 DEF Open, TypeOK, throttleVars

\* A new password, by the account's owner or an administrator.
LEMMA NewPasswordTypes ==
  ASSUME TypeOK, NEW u \in Users, account' = [account EXCEPT ![u] = NewPassword(@)]
  PROVE  account' \in [Users -> Rows]
<1>1. account' = [account EXCEPT ![u] = NewPassword(account[u])]
  BY DEF TypeOK
<1> QED
  BY <1>1, RowTypes, AccountTypes DEF TypeOK

\* The types are kept by an administrator's new password ...
LEMMA ResetTypes ==
  ASSUME TypeOK, NEW c \in Clients, NEW u \in Users, Reset(c, u)
  PROVE  TypeOK'
<1>1. account' \in [Users -> Rows] /\ RequestsOK' /\ log' \in Seq(Entries)
  BY NewPasswordTypes, RequestRevokes, LogTypes DEF Reset, TypeOK, Names
<1> QED
  BY <1>1 DEF Reset, TypeOK, throttleVars

\* ... by an owner's asking to change it ...
LEMMA AskChangeTypes ==
  ASSUME TypeOK, NEW c \in Clients, NEW s \in sessions, AskChange(c, s)
  PROVE  TypeOK'
<1> DEFINE r == [phase |-> "changing", name |-> s.user, typed |-> 0, spared |-> s.id]
<1>1. s.user \in Users /\ s.id \in Nat
  BY DEF TypeOK, SessionRows
<1>2. /\ r \in [phase: Phases, name: Names \cup {NoName}, typed: Nat, spared: Nat]
      /\ r.phase = "changing" /\ r.name = s.user
  BY <1>1 DEF Phases, Names
<1>3. request' = [request EXCEPT ![c] = r]
  BY DEF AskChange
<1> HIDE DEF r
<1>4. RequestsOK'
  BY <1>1, <1>2, <1>3, RequestTypes DEF TypeOK, Names
<1>5. sessions' \subseteq SessionRows
  BY SessionTypes DEF AskChange, TypeOK
<1> QED
  BY <1>4, <1>5 DEF AskChange, TypeOK, throttleVars

\* ... and changing it ...
LEMMA ChangeTypes ==
  ASSUME TypeOK, NEW c \in Clients, Change(c)
  PROVE  TypeOK'
<1> DEFINE u == request[c].name
<1>1. u \in Users /\ request[c].spared \in Nat
  BY RequestFacts DEF Change
<1>2. account' \in [Users -> Rows]
  BY <1>1, NewPasswordTypes DEF Change
<1>3. RequestsOK' /\ log' \in Seq(Entries)
  BY <1>1, RequestRevokes, LogTypes DEF Change, TypeOK, Names
<1> QED
  BY <1>2, <1>3 DEF Change, TypeOK, throttleVars

\* An account disabled or enabled is an account.
LEMMA DisabledTypes ==
  ASSUME TypeOK, NEW u \in Users, NEW off \in BOOLEAN,
         account' = [account EXCEPT ![u].disabled = off]
  PROVE  account' \in [Users -> Rows]
<1>1. [account[u] EXCEPT !.disabled = off] \in Rows
  BY DEF TypeOK, Rows
<1>2. account' = [account EXCEPT ![u] = [account[u] EXCEPT !.disabled = off]]
  BY DEF TypeOK
<1> QED
  BY <1>1, <1>2, AccountTypes

\* ... by disabling an account ...
LEMMA DisableTypes ==
  ASSUME TypeOK, NEW c \in Clients, NEW u \in Users, Disable(c, u)
  PROVE  TypeOK'
<1>1. account' \in [Users -> Rows] /\ RequestsOK'
  BY DisabledTypes, RequestRevokes DEF Disable, TypeOK
<1> QED
  BY <1>1 DEF Disable, TypeOK, throttleVars

\* ... by revoking an account's sessions ...
LEMMA RevokeTypes ==
  ASSUME TypeOK, NEW c \in Clients, Revoke(c)
  PROVE  TypeOK'
<1>1. RequestsOK'
  BY RequestEnds DEF Revoke, TypeOK
<1>2. sessions' \subseteq SessionRows
  BY SessionTypes DEF Revoke, TypeOK
<1> QED
  BY <1>1, <1>2 DEF Revoke, TypeOK, throttleVars

\* ... and by a restart.
LEMMA RestartTypes ==
  ASSUME TypeOK, Restart
  PROVE  TypeOK'
<1>1. order' = << >> /\ ToSet(order') = {} /\ hits' = << >> /\ DOMAIN blocked' = {}
      /\ blocked' = << >>
  BY DEF Restart, ToSet
<1>2. ThrottleTypes'
  BY <1>1 DEF ThrottleTypes
<1>3. RequestsOK'
  BY DEF Restart, RequestsOK, Idling, Phases
<1>4. log' \in Seq(Entries)
  BY LogTypes DEF Restart
<1> QED
  BY <1>2, <1>3, <1>4 DEF Restart, TypeOK, ThrottleTypes

\* Every action keeps the types.
LEMMA StepTypes == TypeOK /\ [Next]_vars => TypeOK'
<1> SUFFICES ASSUME TypeOK, [Next]_vars PROVE TypeOK'
  OBVIOUS
<1>1. CASE Tick
  BY <1>1 DEF Tick, TypeOK, RequestsOK, throttleVars
<1>2. CASE Prune
  BY <1>2 DEF Prune, TypeOK, RequestsOK, throttleVars
<1>3. ASSUME NEW u \in Users, Enable(u) PROVE TypeOK'
  <2>1. account' \in [Users -> Rows] /\ RequestsOK'
    BY <1>3, DisabledTypes, RequestsAsBefore DEF Enable
  <2> QED
    BY <1>3, <2>1 DEF Enable, TypeOK, throttleVars
<1>4. ASSUME NEW s \in sessions, Use(s) \/ SignOut(s) PROVE TypeOK'
  <2>1. sessions' \subseteq SessionRows
    BY <1>4, SessionTypes DEF Use, SignOut, TypeOK
  <2>2. RequestsOK'
    BY <1>4, RequestsAsBefore DEF Use, SignOut
  <2> QED
    BY <1>4, <2>1, <2>2 DEF Use, SignOut, TypeOK, throttleVars
<1>5. CASE UNCHANGED vars
  BY <1>5 DEF vars, TypeOK, RequestsOK, throttleVars
<1>6. ASSUME NEW c \in Clients,
             \/ \E name \in Names : \E typed \in Typed(name) : Ask(c, name, typed)
             \/ LookUp(c) \/ Note(c) \/ Record(c) \/ Rehash(c) \/ Clear(c) \/ Greet(c) \/ Open(c)
             \/ \E u \in Users : Reset(c, u) \/ Disable(c, u)
             \/ \E s \in sessions : AskChange(c, s)
             \/ Change(c) \/ Revoke(c)
      PROVE  TypeOK'
  BY <1>6, AskTypes, LookUpTypes, NoteTypes, RecordStepTypes, RehashTypes, ClearStepTypes,
     GreetTypes, OpenTypes, ResetTypes, DisableTypes, AskChangeTypes, ChangeTypes, RevokeTypes
<1> QED
  BY <1>1, <1>2, <1>3, <1>4, <1>5, <1>6, RestartTypes DEF Next

-----------------------------------------------------------------------------
(* How often uses are noted. *)

\* A session's last use is noted to the Minute, at time t.
Noted(s, t) == s.seen <= s.used /\ s.used <= t /\ s.used - s.seen <= Minute

\* A use notes itself if the last one noted is more than a Minute ago.
LEMMA UsedNoted ==
  ASSUME TypeOK, NEW s \in sessions, Noted(s, now)
  PROVE  Noted(Used(s), now) /\ Noted(Revoked(s), now) /\ Noted(Revoked(Used(s)), now)
<1>1. s \in SessionRows /\ now \in Nat /\ Minute \in Nat
  BY SessionAssumption DEF TypeOK
<1>2. Used(s) \in SessionRows /\ Used(s).used = now /\ Used(s).seen = Seen(s)
  BY <1>1, SessionTypes DEF Used, SessionRows
<1>3. Noted(Used(s), now)
  BY <1>1, <1>2 DEF Noted, Seen, SessionRows
<1>4. \A x \in SessionRows : Revoked(x).seen = x.seen /\ Revoked(x).used = x.used
  BY DEF Revoked, SessionRows
<1> QED
  BY <1>1, <1>2, <1>3, <1>4 DEF Noted

\* Every step keeps that of every session.
LEMMA StepNoted == TypeOK /\ UsesAreNoted /\ [Next]_vars => UsesAreNoted'
<1> SUFFICES ASSUME TypeOK, UsesAreNoted, [Next]_vars PROVE UsesAreNoted'
  OBVIOUS
<1>1. \A s \in sessions : Noted(s, now)
  BY DEF UsesAreNoted, Noted
<1>2. now \in Nat /\ sessions \subseteq SessionRows
  BY DEF TypeOK
<1>3. CASE sessions' \subseteq sessions /\ now' \in Nat /\ now' >= now
  BY <1>1, <1>2, <1>3 DEF UsesAreNoted, Noted, SessionRows
<1>4. ASSUME now' = now, \A x \in sessions' : Noted(x, now) PROVE UsesAreNoted'
  BY <1>4 DEF UsesAreNoted, Noted
<1>5. ASSUME NEW s \in sessions, now' = now,
             sessions' \subseteq sessions \cup {Used(s), Revoked(Used(s))}
      PROVE  UsesAreNoted'
  BY <1>1, <1>4, <1>5, UsedNoted
<1>6. CASE Tick
  BY <1>2, <1>3, <1>6 DEF Tick
<1>7. CASE Prune
  BY <1>2, <1>3, <1>7 DEF Prune
<1>8. ASSUME NEW c \in Clients, Open(c) PROVE UsesAreNoted'
  <2> DEFINE x == [id |-> opened + 1, user |-> request[c].name, seen |-> now, used |-> now,
                   expires |-> now + Lifetime, revoked |-> Never]
  <2>1. Noted(x, now)
    BY <1>2, SessionAssumption DEF Noted
  <2>2. sessions' = sessions \cup {x} /\ now' = now
    BY <1>8 DEF Open
  <2> HIDE DEF x
  <2> QED
    BY <1>1, <1>4, <2>1, <2>2
<1>9. ASSUME NEW c \in Clients, Revoke(c) PROVE UsesAreNoted'
  <2>1. now' = now /\ \A x \in sessions' : \E s \in sessions : x = s \/ x = Revoked(s)
    BY <1>9 DEF Revoke
  <2> QED
    BY <1>1, <1>4, <2>1, UsedNoted
<1>10. ASSUME NEW c \in Clients, NEW s \in sessions, AskChange(c, s) PROVE UsesAreNoted'
  BY <1>5, <1>10 DEF AskChange
<1>11. ASSUME NEW s \in sessions, Use(s) \/ SignOut(s) PROVE UsesAreNoted'
  BY <1>5, <1>11 DEF Use, SignOut
<1>12. CASE UNCHANGED <<now, sessions>>
  BY <1>2, <1>3, <1>12
<1>13. ASSUME NEW c \in Clients,
             \/ \E name \in Names : \E typed \in Typed(name) : Ask(c, name, typed)
             \/ LookUp(c) \/ Note(c) \/ Record(c) \/ Rehash(c) \/ Clear(c) \/ Greet(c)
             \/ \E u \in Users : Reset(c, u) \/ Disable(c, u)
             \/ Change(c)
      PROVE  UNCHANGED <<now, sessions>>
  BY <1>13 DEF Ask, LookUp, Note, Record, Rehash, Clear, Greet, Reset, Disable, Change
<1>14. (\E u \in Users : Enable(u)) \/ Restart \/ UNCHANGED vars => UNCHANGED <<now, sessions>>
  BY DEF Enable, Restart, vars
<1> QED
  BY <1>6, <1>7, <1>8, <1>9, <1>10, <1>11, <1>12, <1>13, <1>14 DEF Next

\* It is why a session lasts as long as it should.
LEMMA NotedLast == TypeOK /\ UsesAreNoted => UsedSessionsLast
<1> SUFFICES ASSUME TypeOK, UsesAreNoted, NEW s \in sessions
             PROVE  /\ Live(s) /\ ~account[s.user].disabled /\ now - s.used < Idle - Minute
                          => Admitted(s)
                    /\ now - s.used >= Idle => ~Admitted(s)
  BY DEF UsedSessionsLast
<1>1. /\ now \in Nat /\ s \in SessionRows /\ Minute \in Nat /\ Idle \in Nat
      /\ s.seen <= s.used /\ s.used <= now /\ s.used - s.seen <= Minute
  BY SessionAssumption DEF TypeOK, UsesAreNoted
<1> QED
  BY <1>1 DEF Admitted, SessionRows

\* A session used less than Idle, but for a Minute, ago is admitted, and one unused
\* for Idle is not, however many requests note or do not note their uses at once.
\* (repository_identity.py: principal_for_session.)
THEOREM SessionsLast == Spec => []UsedSessionsLast
<1>1. Init => TypeOK /\ UsesAreNoted
  BY InitTypes DEF Init, UsesAreNoted
<1>2. TypeOK /\ UsesAreNoted /\ [Next]_vars => (TypeOK /\ UsesAreNoted)'
  BY StepTypes, StepNoted
<1> QED
  BY <1>1, <1>2, NotedLast, PTL DEF Spec

-----------------------------------------------------------------------------
(* What the log says, as it grows. *)

\* Max of a set of numbers up to n is one of them.
LEMMA LargestIs ==
  ASSUME NEW n \in Nat, NEW S \in SUBSET (1..n), S # {}
  PROVE  Max(S) \in S /\ \A x \in S : Max(S) >= x
<1> DEFINE T == {n - x : x \in S}
<1>1. T \in SUBSET Nat /\ T # {}
  <2>1. \A x \in S : x \in Nat /\ n - x \in Nat
    OBVIOUS
  <2> QED
    BY <2>1
<1>2. PICK t \in T : \A m \in T : t <= m
  <2> HIDE DEF T
  <2> QED BY <1>1, Least
<1>3. PICK x \in S : t = n - x
  BY <1>2
<1>4. \A y \in S : x >= y
  <2> SUFFICES ASSUME NEW y \in S PROVE x >= y
    OBVIOUS
  <2>1. n - y \in T
    OBVIOUS
  <2>2. n - x <= n - y
    BY <1>2, <1>3, <2>1
  <2> QED
    BY <2>2
<1> QED
  BY <1>3, <1>4 DEF Max

\* What a step adds to the log.
Entry(what, name) == [what |-> what, name |-> name, at |-> now]

\* The log with an entry more.
LEMMA LogGrows ==
  ASSUME TypeOK, NEW kind, NEW whose, Logged(kind, whose)
  PROVE  /\ Len(log) \in Nat /\ DOMAIN log = 1..Len(log)
         /\ DOMAIN log' = 1..(Len(log) + 1) /\ Len(log') = Len(log) + 1
         /\ \A i \in DOMAIN log : log'[i] = log[i]
         /\ log'[Len(log) + 1].what = kind /\ log'[Len(log) + 1].name = whose
         /\ log'[Len(log) + 1].at = now
<1>1. log' = Append(log, Entry(kind, whose)) /\ log \in Seq(Entries)
  BY DEF Logged, Entry, TypeOK
<1>2. /\ Len(log) \in Nat /\ DOMAIN log = 1..Len(log)
      /\ DOMAIN log' = 1..(Len(log) + 1) /\ Len(log') = Len(log) + 1
      /\ \A i \in DOMAIN log : log'[i] = log[i]
      /\ log'[Len(log) + 1] = Entry(kind, whose)
  BY <1>1
<1> QED
  BY <1>2 DEF Entry

\* What has come after an entry.
LEMMA AfterGrows ==
  ASSUME TypeOK, NEW kind, NEW whose, Logged(kind, whose), NEW what, NEW name
  PROVE  /\ \A i \in DOMAIN log :
                 After(i, what, name)' <=> After(i, what, name) \/ (kind = what /\ whose = name)
         /\ \A i : i = Len(log) + 1 => ~After(i, what, name)'
<1>1. /\ Len(log) \in Nat /\ DOMAIN log = 1..Len(log)
      /\ DOMAIN log' = 1..(Len(log) + 1) /\ Len(log') = Len(log) + 1
      /\ \A i \in DOMAIN log : log'[i] = log[i]
      /\ log'[Len(log) + 1].what = kind /\ log'[Len(log) + 1].name = whose
  BY LogGrows
<1> DEFINE late(i) == \E j \in i + 1..Len(log') : log'[j].what = what /\ log'[j].name = name
<1>2. \A i : After(i, what, name)' <=>
          \E j \in i + 1..Len(log') : log'[j].what = what /\ log'[j].name = name
  BY DEF After
<1>3. ASSUME NEW i \in DOMAIN log
      PROVE  After(i, what, name)' <=> After(i, what, name) \/ (kind = what /\ whose = name)
  <2>1. ASSUME After(i, what, name) PROVE After(i, what, name)'
    BY <1>1, <2>1 DEF After
  <2>2. ASSUME kind = what, whose = name PROVE After(i, what, name)'
    <3>1. Len(log) + 1 \in i + 1..Len(log')
      BY <1>1
    <3> QED
      BY <1>1, <2>2, <3>1 DEF After
  <2>3. ASSUME After(i, what, name)', ~(kind = what /\ whose = name) PROVE After(i, what, name)
    <3>1. PICK j \in i + 1..Len(log') : log'[j].what = what /\ log'[j].name = name
      BY <2>3 DEF After
    <3>2. j # Len(log) + 1
      BY <1>1, <2>3, <3>1
    <3>3. j \in i + 1..Len(log) /\ j \in DOMAIN log
      BY <1>1, <3>1, <3>2
    <3> QED
      BY <1>1, <3>1, <3>3 DEF After
  <2> QED
    BY <2>1, <2>2, <2>3
<1>4. \A i : i = Len(log) + 1 => ~After(i, what, name)'
  BY <1>1 DEF After
<1> QED
  BY <1>3, <1>4

\* The wrong passwords counted since the account was forgiven.
LEMMA WrongGrows ==
  ASSUME TypeOK, NEW kind \in {"wrong", "failure", "forgiven", "cleared", "restart"}, NEW whose,
         Logged(kind, whose), NEW u
  PROVE  WrongSince(u)' = IF kind = "wrong" /\ whose = u THEN WrongSince(u) \cup {Len(log) + 1}
                          ELSE IF kind = "forgiven" /\ whose = u THEN {}
                          ELSE WrongSince(u)
<1>1. /\ Len(log) \in Nat /\ DOMAIN log = 1..Len(log)
      /\ DOMAIN log' = 1..(Len(log) + 1) /\ Len(log') = Len(log) + 1
      /\ \A i \in DOMAIN log : log'[i] = log[i]
      /\ log'[Len(log) + 1].what = kind /\ log'[Len(log) + 1].name = whose
  BY LogGrows
<1>2. /\ \A i \in DOMAIN log :
           After(i, "forgiven", u)' <=> After(i, "forgiven", u) \/ (kind = "forgiven" /\ whose = u)
      /\ \A i : i = Len(log) + 1 => ~After(i, "forgiven", u)'
  BY AfterGrows
<1>3. \A i : i \in WrongSince(u) <=>
          i \in DOMAIN log /\ log[i].what = "wrong" /\ log[i].name = u /\ ~After(i, "forgiven", u)
  BY DEF WrongSince
<1>4. \A i : i \in WrongSince(u)' <=>
          i \in DOMAIN log' /\ log'[i].what = "wrong" /\ log'[i].name = u
          /\ ~After(i, "forgiven", u)'
  BY DEF WrongSince
<1>5. \A i : i \in DOMAIN log' <=> i \in DOMAIN log \/ i = Len(log) + 1
  BY <1>1
<1>6. Len(log) + 1 \in WrongSince(u)' <=> kind = "wrong" /\ whose = u
  <2> SUFFICES ASSUME NEW new, new = Len(log) + 1
               PROVE  new \in WrongSince(u)' <=> kind = "wrong" /\ whose = u
    OBVIOUS
  <2>1. new \in DOMAIN log' /\ log'[new].what = kind /\ log'[new].name = whose
    BY <1>1
  <2>2. ~After(new, "forgiven", u)'
    BY <1>2
  <2> HIDE DEF WrongSince, After
  <2> QED
    BY <1>4, <2>1, <2>2
<1>7. \A i \in DOMAIN log :
        i \in WrongSince(u)' <=> i \in WrongSince(u) /\ ~(kind = "forgiven" /\ whose = u)
  <2> SUFFICES ASSUME NEW i \in DOMAIN log
               PROVE  i \in WrongSince(u)' <=>
                         i \in WrongSince(u) /\ ~(kind = "forgiven" /\ whose = u)
    OBVIOUS
  <2>1. i \in DOMAIN log' /\ log'[i] = log[i]
    BY <1>1
  <2>2. After(i, "forgiven", u)' <=> After(i, "forgiven", u) \/ (kind = "forgiven" /\ whose = u)
    BY <1>2
  <2>3. i \in WrongSince(u)' <=>
          log[i].what = "wrong" /\ log[i].name = u /\ ~After(i, "forgiven", u)'
    BY <1>4, <2>1
  <2>4. i \in WrongSince(u) <=>
          log[i].what = "wrong" /\ log[i].name = u /\ ~After(i, "forgiven", u)
    BY <1>3
  <2> HIDE DEF WrongSince, After
  <2> QED
    BY <2>2, <2>3, <2>4
<1>8. WrongSince(u) \subseteq DOMAIN log /\ WrongSince(u)' \subseteq DOMAIN log \cup {Len(log) + 1}
  BY <1>3, <1>4, <1>5
<1> HIDE DEF WrongSince
<1> QED
  BY <1>6, <1>7, <1>8

\* The wrong passwords counted are finitely many; if there are any, one is the last.
LEMMA WrongFinite ==
  ASSUME TypeOK, NEW u
  PROVE  /\ Len(log) \in Nat /\ DOMAIN log = 1..Len(log)
         /\ WrongSince(u) \subseteq 1..Len(log)
         /\ IsFiniteSet(WrongSince(u))
         /\ Cardinality(WrongSince(u)) \in Nat
         /\ WrongSince(u) = {} => Cardinality(WrongSince(u)) = 0
         /\ WrongSince(u) # {} => Max(WrongSince(u)) \in WrongSince(u)
<1>1. Len(log) \in Nat /\ DOMAIN log = 1..Len(log) /\ WrongSince(u) \subseteq 1..Len(log)
  BY DEF TypeOK, WrongSince
<1>2. IsFiniteSet(1..Len(log))
  BY <1>1, FS_Interval
<1>3. IsFiniteSet(WrongSince(u)) /\ Cardinality(WrongSince(u)) \in Nat
  BY <1>1, <1>2, FS_Subset, FS_CardinalityType
<1>4. WrongSince(u) # {} => Max(WrongSince(u)) \in WrongSince(u)
  BY <1>1, LargestIs
<1> QED
  BY <1>1, <1>3, <1>4, FS_EmptySet
-----------------------------------------------------------------------------

\* FailuresCount, of one account.
Counts(u) ==
    /\ account[u].failed = Cardinality(WrongSince(u))
    /\ account[u].locked =
          IF account[u].failed < Limit THEN Never
          ELSE log[Max(WrongSince(u))].at + Cooloff

\* The counter and the log are as before.
LEMMA CountsAsBefore ==
  ASSUME TypeOK, NEW u \in Users, Counts(u),
         account'[u].failed = account[u].failed, account'[u].locked = account[u].locked,
         WrongSince(u)' = WrongSince(u), \A i \in DOMAIN log : log'[i] = log[i]
  PROVE  Counts(u)'
<1>1. account[u].failed \in Nat /\ Limit \in Nat \ {0}
  BY LimitAssumption DEF TypeOK, Rows
<1>2. CASE account[u].failed < Limit
  BY <1>2 DEF Counts
<1>3. CASE ~(account[u].failed < Limit)
  <2>1. WrongSince(u) # {}
    BY <1>1, <1>3, WrongFinite DEF Counts
  <2>2. Max(WrongSince(u)) \in DOMAIN log
    BY <2>1, WrongFinite
  <2> QED
    BY <2>2 DEF Counts
<1> QED
  BY <1>2, <1>3

\* The account was forgiven: nothing is counted.
LEMMA CountsForgiven ==
  ASSUME TypeOK, NEW u \in Users, account'[u].failed = 0, account'[u].locked = Never,
         WrongSince(u)' = {}
  PROVE  Counts(u)'
BY LimitAssumption, FS_EmptySet DEF Counts

\* An account is forgiven; the others are as before.
LEMMA ForgivenCounts ==
  ASSUME TypeOK, FailuresCount, NEW u \in Users, NEW row, row.failed = 0, row.locked = Never,
         account' = [account EXCEPT ![u] = row], Logged("forgiven", u)
  PROVE  FailuresCount'
<1> SUFFICES ASSUME NEW v \in Users PROVE Counts(v)'
  BY DEF FailuresCount, Counts
<1>1. Counts(v)
  BY DEF FailuresCount, Counts
<1>2. account'[v] = IF u = v THEN row ELSE account[v]
  BY DEF TypeOK
<1>3. WrongSince(v)' = IF u = v THEN {} ELSE WrongSince(v)
  BY WrongGrows
<1>4. \A i \in DOMAIN log : log'[i] = log[i]
  BY LogGrows
<1>5. CASE u = v
  BY <1>2, <1>3, <1>5, CountsForgiven
<1>6. CASE u # v
  BY <1>1, <1>2, <1>3, <1>4, <1>6, CountsAsBefore
<1> QED
  BY <1>5, <1>6

\* A wrong password is counted; if it is the one too many, the lock is from now.
LEMMA NoteCounts ==
  ASSUME TypeOK, FailuresCount, NEW u \in Users,
         account' = [account EXCEPT ![u] = FailedOnce(account[u])], Logged("wrong", u)
  PROVE  FailuresCount'
<1> SUFFICES ASSUME NEW v \in Users PROVE Counts(v)'
  BY DEF FailuresCount, Counts
<1>1. Counts(v)
  BY DEF FailuresCount, Counts
<1>2. account'[v] = IF u = v THEN FailedOnce(account[u]) ELSE account[v]
  BY DEF TypeOK
<1>3. WrongSince(v)' = IF u = v THEN WrongSince(v) \cup {Len(log) + 1} ELSE WrongSince(v)
  BY WrongGrows
<1>4. /\ \A i \in DOMAIN log : log'[i] = log[i]
      /\ log'[Len(log) + 1].at = now
  BY LogGrows
<1>5. CASE u = v
  <2> DEFINE wrong == WrongSince(u)
             new == Len(log) + 1
  <2>1. /\ wrong \subseteq 1..Len(log) /\ Len(log) \in Nat /\ IsFiniteSet(wrong)
        /\ Cardinality(wrong) \in Nat
    BY WrongFinite
  <2>2. new \notin wrong
    BY <2>1
  <2>3. Cardinality(wrong \cup {new}) = Cardinality(wrong) + 1
    <3> HIDE DEF new, wrong
    <3> QED BY <2>1, <2>2, FS_AddElement
  <2>4. Max(wrong \cup {new}) = new
    <3>1. wrong \cup {new} \in SUBSET (1..new) /\ wrong \cup {new} # {} /\ new \in Nat
      BY <2>1
    <3>2. Max(wrong \cup {new}) \in 1..new /\ Max(wrong \cup {new}) >= new
      <4> HIDE DEF new, wrong
      <4> QED BY <3>1, LargestIs
    <3> QED
      BY <3>1, <3>2
  <2>5. /\ account[u] \in Rows /\ account[u].failed \in Nat /\ Limit \in Nat
        /\ account[u].failed = Cardinality(wrong)
        /\ account[u].failed < Limit => account[u].locked = Never
    BY <1>1, <1>5, LimitAssumption DEF TypeOK, Rows, Counts
  <2>6. /\ FailedOnce(account[u]).failed = account[u].failed + 1
        /\ FailedOnce(account[u]).locked =
             IF account[u].failed + 1 >= Limit THEN now + Cooloff ELSE account[u].locked
    BY <2>5 DEF FailedOnce, Rows
  <2>7. /\ account'[u].failed = Cardinality(WrongSince(u)')
        /\ Max(WrongSince(u)') = new
    BY <1>2, <1>3, <1>5, <2>3, <2>4, <2>5, <2>6
  <2>8. account'[u].locked = IF account'[u].failed < Limit THEN Never ELSE now + Cooloff
    BY <1>2, <1>5, <2>5, <2>6
  <2> QED
    BY <1>4, <1>5, <2>7, <2>8 DEF Counts
<1>6. CASE u # v
  BY <1>1, <1>2, <1>3, <1>4, <1>6, CountsAsBefore
<1> QED
  BY <1>5, <1>6

\* The rows' counters and locks are as before, and no password was wrong or forgiven.
LEMMA QuietCounts ==
  ASSUME TypeOK, FailuresCount,
         \A u \in Users : account'[u].failed = account[u].failed
         /\ account'[u].locked = account[u].locked,
         \/ log' = log
         \/ \E what \in {"failure", "cleared", "restart"} : \E name : Logged(what, name)
  PROVE  FailuresCount'
<1> SUFFICES ASSUME NEW v \in Users PROVE Counts(v)'
  BY DEF FailuresCount, Counts
<1>1. Counts(v)
  BY DEF FailuresCount, Counts
<1>2. WrongSince(v)' = WrongSince(v) /\ \A i \in DOMAIN log : log'[i] = log[i]
  <2>1. CASE log' = log
    BY <2>1 DEF WrongSince, After
  <2>2. ASSUME NEW what \in {"failure", "cleared", "restart"}, NEW name, Logged(what, name)
        PROVE  WrongSince(v)' = WrongSince(v) /\ \A i \in DOMAIN log : log'[i] = log[i]
    BY <2>2, WrongGrows, LogGrows
  <2> QED
    BY <2>1, <2>2
<1> QED
  BY <1>1, <1>2, CountsAsBefore

\* A success and a new password forgive.
LEMMA ForgivingRows ==
  ASSUME TypeOK, NEW u \in Users, NEW p
  PROVE  /\ Forgiven(account[u]).failed = 0 /\ Forgiven(account[u]).locked = Never
         /\ WithPassword(account[u], p).failed = 0 /\ WithPassword(account[u], p).locked = Never
         /\ NewPassword(account[u]).failed = 0 /\ NewPassword(account[u]).locked = Never
BY DEF TypeOK, Rows, Forgiven, WithPassword, NewPassword

\* Every step keeps the count.
LEMMA StepCounts == TypeOK /\ FailuresCount /\ [Next]_vars => FailuresCount'
<1> SUFFICES ASSUME TypeOK, FailuresCount, [Next]_vars PROVE FailuresCount'
  OBVIOUS
<1>1. ASSUME NEW c \in Clients, Note(c) PROVE FailuresCount'
  <2>1. request[c].name \in Users
    BY <1>1, RequestFacts DEF Note
  <2>2. account' = [account EXCEPT ![request[c].name] = FailedOnce(account[request[c].name])]
    BY <1>1, <2>1 DEF Note, TypeOK
  <2> QED
    BY <1>1, <2>1, <2>2, NoteCounts DEF Note
<1>2. ASSUME NEW c \in Clients, Rehash(c) \/ Greet(c) \/ Change(c) PROVE FailuresCount'
  <2> DEFINE u == request[c].name
  <2>1. u \in Users /\ Logged("forgiven", u)
    BY <1>2, RequestFacts DEF Rehash, Greet, Change
  <2>2. \/ account' = [account EXCEPT ![u] = WithPassword(account[u], request[c].typed)]
        \/ account' = [account EXCEPT ![u] = Forgiven(account[u])]
        \/ account' = [account EXCEPT ![u] = NewPassword(account[u])]
    BY <1>2, <2>1 DEF Rehash, Greet, Change, TypeOK
  <2> HIDE DEF u
  <2> QED
    BY <2>1, <2>2, ForgivenCounts, ForgivingRows
<1>3. ASSUME NEW c \in Clients, NEW u \in Users, Reset(c, u) PROVE FailuresCount'
  <2>1. account' = [account EXCEPT ![u] = NewPassword(account[u])] /\ Logged("forgiven", u)
    BY <1>3 DEF Reset, TypeOK
  <2> QED
    BY <2>1, ForgivenCounts, ForgivingRows
<1>4. ASSUME NEW u \in Users, NEW off, account' = [account EXCEPT ![u].disabled = off], log' = log
      PROVE  FailuresCount'
  <2>1. \A v \in Users : account'[v].failed = account[v].failed
        /\ account'[v].locked = account[v].locked
    BY <1>4 DEF TypeOK, Rows
  <2> QED
    BY <1>4, <2>1, QuietCounts
<1>5. ASSUME NEW c \in Clients, NEW u \in Users, Disable(c, u) PROVE FailuresCount'
  BY <1>4, <1>5 DEF Disable
<1>6. ASSUME NEW u \in Users, Enable(u) PROVE FailuresCount'
  BY <1>4, <1>6 DEF Enable
<1>7. ASSUME NEW c \in Clients, Record(c) \/ Clear(c) PROVE FailuresCount'
  BY <1>7, QuietCounts DEF Record, Clear
<1>8. CASE Restart
  BY <1>8, QuietCounts DEF Restart
<1>9. CASE UNCHANGED <<account, log>>
  BY <1>9, QuietCounts
<1>10. ASSUME NEW c \in Clients,
             \/ \E name \in Names : \E typed \in Typed(name) : Ask(c, name, typed)
             \/ LookUp(c) \/ Open(c) \/ Revoke(c)
             \/ \E s \in sessions : AskChange(c, s)
      PROVE  UNCHANGED <<account, log>>
  BY <1>10 DEF Ask, LookUp, Open, Revoke, AskChange
<1>11. Tick \/ Prune \/ (\E s \in sessions : Use(s) \/ SignOut(s)) \/ UNCHANGED vars
         => UNCHANGED <<account, log>>
  BY DEF Tick, Prune, Use, SignOut, vars
<1> QED
  BY <1>1, <1>2, <1>3, <1>5, <1>6, <1>7, <1>8, <1>9, <1>10, <1>11 DEF Next

\* However sign-ins cross, an account has counted each wrong password since it was
\* last forgiven, and is locked exactly when they are Limit or more, until Cooloff
\* after the last.  (repository_identity.py: note_login_failure.)
THEOREM AccountsCount == Spec => []FailuresCount
<1>1. Init => TypeOK /\ FailuresCount
  <2> SUFFICES ASSUME Init, NEW u \in Users PROVE Counts(u)
    BY InitTypes DEF FailuresCount, Counts
  <2>1. account[u].failed = 0 /\ account[u].locked = Never /\ log = << >>
    BY DEF Init
  <2>2. WrongSince(u) = {}
    BY <2>1 DEF WrongSince
  <2> QED
    BY <2>1, <2>2, FS_EmptySet, LimitAssumption DEF Counts
<1>2. TypeOK /\ FailuresCount /\ [Next]_vars => (TypeOK /\ FailuresCount)'
  BY StepTypes, StepCounts
<1> QED
  BY <1>1, <1>2, PTL DEF Spec

-----------------------------------------------------------------------------
(* The throttle's failures. *)

\* The failures since a name was cleared, with an entry more in the log.
LEMMA FailuresGrow ==
  ASSUME TypeOK, NEW kind \in {"wrong", "failure", "forgiven", "cleared", "restart"}, NEW whose,
         Logged(kind, whose), NEW name
  PROVE  Failures(name)' = IF kind = "failure" /\ whose = name
                           THEN Failures(name) \cup {Len(log) + 1}
                           ELSE IF \/ kind = "cleared" /\ whose = name
                                   \/ kind = "restart" /\ whose = NoName THEN {}
                           ELSE Failures(name)
<1>1. /\ Len(log) \in Nat /\ DOMAIN log = 1..Len(log)
      /\ DOMAIN log' = 1..(Len(log) + 1) /\ Len(log') = Len(log) + 1
      /\ \A i \in DOMAIN log : log'[i] = log[i]
      /\ log'[Len(log) + 1].what = kind /\ log'[Len(log) + 1].name = whose
  BY LogGrows
<1>2. /\ \A i \in DOMAIN log :
           After(i, "cleared", name)' <=>
               After(i, "cleared", name) \/ (kind = "cleared" /\ whose = name)
      /\ \A i : i = Len(log) + 1 => ~After(i, "cleared", name)'
  BY AfterGrows
<1>3. /\ \A i \in DOMAIN log :
           After(i, "restart", NoName)' <=>
               After(i, "restart", NoName) \/ (kind = "restart" /\ whose = NoName)
      /\ \A i : i = Len(log) + 1 => ~After(i, "restart", NoName)'
  BY AfterGrows
<1>4. \A i : i \in Failures(name) <=>
          /\ i \in DOMAIN log /\ log[i].what = "failure" /\ log[i].name = name
          /\ ~After(i, "cleared", name) /\ ~After(i, "restart", NoName)
  BY DEF Failures
<1>5. \A i : i \in Failures(name)' <=>
          /\ i \in DOMAIN log' /\ log'[i].what = "failure" /\ log'[i].name = name
          /\ ~After(i, "cleared", name)' /\ ~After(i, "restart", NoName)'
  BY DEF Failures
<1>6. \A i : i \in DOMAIN log' <=> i \in DOMAIN log \/ i = Len(log) + 1
  BY <1>1
<1>7. Len(log) + 1 \in Failures(name)' <=> kind = "failure" /\ whose = name
  <2> SUFFICES ASSUME NEW new, new = Len(log) + 1
               PROVE  new \in Failures(name)' <=> kind = "failure" /\ whose = name
    OBVIOUS
  <2>1. new \in DOMAIN log' /\ log'[new].what = kind /\ log'[new].name = whose
    BY <1>1
  <2>2. ~After(new, "cleared", name)' /\ ~After(new, "restart", NoName)'
    BY <1>2, <1>3
  <2> HIDE DEF Failures, After
  <2> QED
    BY <1>5, <2>1, <2>2
<1>8. ASSUME NEW i \in DOMAIN log
      PROVE  i \in Failures(name)' <=>
                i \in Failures(name) /\ ~(kind = "cleared" /\ whose = name)
                                     /\ ~(kind = "restart" /\ whose = NoName)
  <2>1. i \in DOMAIN log' /\ log'[i] = log[i]
    BY <1>1
  <2>2. After(i, "cleared", name)' <=>
            After(i, "cleared", name) \/ (kind = "cleared" /\ whose = name)
    BY <1>2
  <2>3. After(i, "restart", NoName)' <=>
            After(i, "restart", NoName) \/ (kind = "restart" /\ whose = NoName)
    BY <1>3
  <2>4. i \in Failures(name)' <=>
          /\ log[i].what = "failure" /\ log[i].name = name
          /\ ~After(i, "cleared", name)' /\ ~After(i, "restart", NoName)'
    BY <1>5, <2>1
  <2>5. i \in Failures(name) <=>
          /\ log[i].what = "failure" /\ log[i].name = name
          /\ ~After(i, "cleared", name) /\ ~After(i, "restart", NoName)
    BY <1>4
  <2> HIDE DEF Failures, After
  <2> QED
    BY <2>2, <2>3, <2>4, <2>5
<1>9. Failures(name) \subseteq DOMAIN log
      /\ Failures(name)' \subseteq DOMAIN log \cup {Len(log) + 1}
  BY <1>4, <1>5, <1>6
<1> HIDE DEF Failures
<1> QED
  BY <1>7, <1>8, <1>9

\* What is true of a set of failures.
LEMMA SomeFailures ==
  ASSUME TypeOK, NEW name, NEW F \in kSubset(Limit, Failures(name))
  PROVE  /\ Len(log) \in Nat /\ DOMAIN log = 1..Len(log)
         /\ F \subseteq Failures(name) /\ F \subseteq 1..Len(log) /\ Cardinality(F) = Limit
         /\ F # {} /\ IsFiniteSet(F)
         /\ Min(F) \in F /\ Max(F) \in F
         /\ \A i \in F : Min(F) <= i /\ i <= Max(F)
<1>1. Len(log) \in Nat /\ DOMAIN log = 1..Len(log)
  BY DEF TypeOK
<1>2. F \subseteq Failures(name) /\ F \subseteq 1..Len(log) /\ Cardinality(F) = Limit
  BY <1>1 DEF kSubset, Failures
<1>3. F # {}
  BY <1>2, FS_EmptySet, LimitAssumption
<1>4. IsFiniteSet(F)
  <2>1. IsFiniteSet(1..Len(log))
    BY <1>1, FS_Interval
  <2> QED
    BY <1>2, <2>1, FS_Subset
<1>5. Min(F) \in F /\ \A i \in F : Min(F) <= i
  <2>1. F \in SUBSET Nat
    BY <1>1, <1>2
  <2> QED
    BY <1>3, <2>1, SmallestIs
<1>6. Max(F) \in F /\ \A i \in F : Max(F) >= i
  BY <1>1, <1>2, <1>3, LargestIs
<1>7. F \subseteq Int
  BY <1>1, <1>2
<1> QED
  BY <1>1, <1>2, <1>3, <1>4, <1>5, <1>6, <1>7

\* The names that failed in a part of a log ...
FailedIn(entries, m, n) == {entries[j].name : j \in {j \in m..n : entries[j].what = "failure"}}

\* ... are finitely many.
LEMMA NamesFinite ==
  ASSUME NEW m \in Int, NEW n \in Int, NEW entries
  PROVE  IsFiniteSet(FailedIn(entries, m, n))
<1> DEFINE S == {j \in m..n : entries[j].what = "failure"}
           f == [j \in S |-> entries[j].name]
<1>1. IsFiniteSet(S)
  BY FS_Interval, FS_Subset
<1>2. f \in Surjection(S, {entries[j].name : j \in S})
  BY DEF Surjection
<1>3. IsFiniteSet({entries[j].name : j \in S})
  <2> HIDE DEF S, f
  <2> QED
    BY <1>1, <1>2, FS_Surjection
<1> QED
  BY <1>3 DEF FailedIn

\* An entry of the log has a time.
LEMMA EntryTypes ==
  ASSUME TypeOK, NEW i \in DOMAIN log
  PROVE  log[i] \in Entries /\ log[i].at \in Nat /\ i \in 1..Len(log) /\ Len(log) \in Nat
<1>1. log \in Seq(Entries) /\ log[i] \in Entries /\ i \in 1..Len(log) /\ Len(log) \in Nat
  BY DEF TypeOK
<1> QED
  BY <1>1 DEF Entries

-----------------------------------------------------------------------------
(* What a step carries over of a name it does not clear. *)

\* A block in force stays, or is set anew.
BlockKept(name) ==
    name \in DOMAIN blocked /\ blocked[name] > now =>
        /\ name \in DOMAIN blocked'
        /\ blocked'[name] = blocked[name] \/ blocked'[name] = now + Cooloff

\* The log goes on and the name's block is not lifted early.
Carries(name) ==
    /\ now' \in Nat /\ now' >= now
    /\ Len(log') \in Nat /\ Len(log') >= Len(log) /\ DOMAIN log' = 1..Len(log')
    /\ \A i \in DOMAIN log : log'[i] = log[i]
    /\ BlockKept(name)

\* A refusal stays until its time: a new block is never for less.
LEMMA RefusalStays ==
  ASSUME TypeOK, NEW name, Carries(name), NEW time \in Nat, time <= now + Cooloff,
         RefusedUntil(name, time)
  PROVE  RefusedUntil(name, time)'
<1>1. now \in Nat /\ now' \in Nat /\ now' >= now
  BY DEF TypeOK, Carries
<1>2. CASE now >= time
  BY <1>1, <1>2 DEF RefusedUntil
<1>3. CASE name \in DOMAIN blocked /\ blocked[name] >= time /\ ~(now >= time)
  <2>1. blocked[name] \in Nat
    BY <1>3 DEF TypeOK
  <2>2. /\ name \in DOMAIN blocked'
        /\ blocked'[name] = blocked[name] \/ blocked'[name] = now + Cooloff
    BY <1>1, <1>3, <2>1 DEF Carries, BlockKept
  <2> QED
    BY <1>3, <2>2 DEF RefusedUntil
<1> QED
  BY <1>2, <1>3 DEF RefusedUntil

\* What may be forgotten may be forgotten from then on.
LEMMA ForgettableStays ==
  ASSUME TypeOK, TypeOK', LogInOrder, NEW name, Carries(name), NEW i \in DOMAIN log,
         Forgettable(name, i)
  PROVE  Forgettable(name, i)'
<1>1. /\ log'[i] = log[i] /\ log[i].at \in Nat /\ log[i].at <= now /\ now \in Nat /\ now' \in Nat
      /\ now' >= now /\ Window \in Nat /\ Cooloff \in Nat /\ MaxKeys \in Nat
  <2>1. log[i].at \in Nat
    BY EntryTypes
  <2>2. now \in Nat /\ now' \in Nat /\ now' >= now /\ log'[i] = log[i] /\ log[i].at <= now
    BY DEF Carries, TypeOK, LogInOrder
  <2> QED
    BY <2>1, <2>2, CooloffAssumption, LimitAssumption
<1>2. CASE log[i].at < now - Window
  BY <1>1, <1>2 DEF Forgettable
<1>3. CASE RefusedUntil(name, log[i].at + Cooloff)
  <2>1. RefusedUntil(name, log[i].at + Cooloff)'
    <3>1. PICK time \in Nat : time = log[i].at + Cooloff
      BY <1>1
    <3>2. RefusedUntil(name, time)'
      BY <1>1, <1>3, <3>1, RefusalStays
    <3>3. log'[i].at + Cooloff = time
      BY <1>1, <3>1
    <3> QED
      BY <3>2, <3>3 DEF RefusedUntil
  <2> QED
    BY <2>1 DEF Forgettable
<1>4. CASE Cardinality(FailedFrom(i)) > MaxKeys
  <2>1. i \in Int /\ Len(log) \in Nat /\ Len(log') \in Nat /\ Len(log') >= Len(log)
        /\ DOMAIN log = 1..Len(log)
    BY DEF TypeOK, Carries
  <2>2. FailedFrom(i) \subseteq FailedFrom(i)'
    <3> SUFFICES ASSUME NEW j \in i..Len(log), log[j].what = "failure"
                 PROVE  log[j].name \in FailedFrom(i)'
      BY DEF FailedFrom
    <3>1. j \in DOMAIN log /\ log'[j] = log[j] /\ j \in i..Len(log')
      BY <2>1 DEF Carries
    <3> QED
      BY <3>1 DEF FailedFrom
  <2>3. IsFiniteSet(FailedFrom(i)')
    <3>1. PICK entries : entries = log'
      OBVIOUS
    <3>2. PICK n \in Int : n = Len(log')
      BY <2>1
    <3>3. IsFiniteSet(FailedIn(entries, i, n))
      BY <2>1, NamesFinite
    <3> QED
      BY <3>1, <3>2, <3>3 DEF FailedFrom, FailedIn
  <2>4. Cardinality(FailedFrom(i)) <= Cardinality(FailedFrom(i)')
        /\ Cardinality(FailedFrom(i)) \in Nat /\ Cardinality(FailedFrom(i)') \in Nat
    BY <2>2, <2>3, FS_Subset, FS_CardinalityType
  <2>5. Cardinality(FailedFrom(i)') > MaxKeys
    BY <1>1, <1>4, <2>4
  <2> QED
    BY <2>5 DEF Forgettable
<1> QED
  BY <1>2, <1>3, <1>4 DEF Forgettable

\* What is remembered of a name that the step is not about still is.
LEMMA CarriedRemembers ==
  ASSUME TypeOK, TypeOK', LogInOrder, NEW name, Carries(name), RemembersOf(name),
         Hits(name)' = Hits(name), Failures(name)' = Failures(name)
  PROVE  RemembersOf(name)'
<1>1. PICK g \in [DOMAIN Hits(name) -> DOMAIN log] :
        /\ \A j \in DOMAIN Hits(name) : Hits(name)[j] = log[g[j]].at
        /\ \A i \in Failures(name) :
              Forgettable(name, i) \/ \E j \in DOMAIN Hits(name) : g[j] = i
  BY DEF RemembersOf
<1>2. DOMAIN log \subseteq DOMAIN log' /\ \A i \in DOMAIN log : log'[i] = log[i]
  BY DEF Carries, TypeOK
<1>3. Failures(name) \subseteq DOMAIN log
  BY DEF Failures
<1>4. \A i \in Failures(name) : Forgettable(name, i) => Forgettable(name, i)'
  BY <1>3, ForgettableStays
<1>5. g \in [DOMAIN Hits(name) -> DOMAIN log']
  BY <1>2
<1>6. \A j \in DOMAIN Hits(name) : Hits(name)[j] = log'[g[j]].at
  BY <1>1, <1>2
<1> QED
  BY <1>1, <1>4, <1>5, <1>6 DEF RemembersOf

\* What a set of failures says is as before, the refusal too.
LEMMA CarriedRefusal ==
  ASSUME TypeOK, TypeOK', LogInOrder, NEW name, Carries(name),
         NEW F \in kSubset(Limit, Failures(name)), RefusedFor(name, F)
  PROVE  RefusedFor(name, F)'
<1>1. /\ Len(log) \in Nat /\ DOMAIN log = 1..Len(log) /\ F \subseteq 1..Len(log)
      /\ Min(F) \in F /\ Max(F) \in F
  BY SomeFailures
<1>2. log'[Min(F)] = log[Min(F)] /\ log'[Max(F)] = log[Max(F)]
  BY <1>1 DEF Carries
<1>3. \A j \in Min(F)..Max(F) : j \in DOMAIN log /\ log'[j] = log[j]
  <2>1. Min(F) \in 1..Len(log) /\ Max(F) \in 1..Len(log)
    BY <1>1
  <2>2. \A j \in Min(F)..Max(F) : j \in DOMAIN log
    BY <1>1, <2>1
  <2> QED
    BY <2>2 DEF Carries
<1>4. Between(F)' = Between(F)
  BY <1>3 DEF Between
<1>5. log[Min(F)].at \in Nat /\ log[Min(F)].at <= now /\ now \in Nat /\ Cooloff \in Nat
  <2>1. Min(F) \in DOMAIN log
    BY <1>1
  <2> QED
    BY <2>1, EntryTypes, CooloffAssumption DEF TypeOK, LogInOrder
<1>6. ASSUME RefusedUntil(name, log[Min(F)].at + Cooloff)
      PROVE  RefusedUntil(name, log[Min(F)].at + Cooloff)'
  <2>1. PICK time \in Nat : time = log[Min(F)].at + Cooloff
    BY <1>5
  <2>2. RefusedUntil(name, time)'
    BY <1>5, <1>6, <2>1, RefusalStays
  <2>3. log'[Min(F)].at + Cooloff = time
    BY <1>2, <2>1
  <2> QED
    BY <2>2, <2>3 DEF RefusedUntil
<1> QED
  BY <1>2, <1>4, <1>6 DEF RefusedFor

\* The limit still blocks a name that the step is not about.
LEMMA CarriedBlocked ==
  ASSUME TypeOK, TypeOK', LogInOrder, NEW name, Carries(name), LimitBlockedOf(name),
         Failures(name)' = Failures(name)
  PROVE  LimitBlockedOf(name)'
<1> SUFFICES ASSUME NEW F \in kSubset(Limit, Failures(name)') PROVE RefusedFor(name, F)'
  BY DEF LimitBlockedOf
<1>1. F \in kSubset(Limit, Failures(name))
  OBVIOUS
<1> QED
  BY <1>1, CarriedRefusal DEF LimitBlockedOf

\* Who is refused until late is refused until early.
LEMMA EarlierRefused ==
  ASSUME TypeOK, NEW name, NEW late \in Nat, RefusedUntil(name, late), NEW early \in Nat,
         early <= late
  PROVE  RefusedUntil(name, early)
BY DEF TypeOK, RefusedUntil

\* Fewer failures remembered than are too many, and the last one just now: the
\* others that should be remembered led to a block.
Few ==
    \A name \in Names :
        Len(Hits(name)) < Limit /\ log[Len(log)].at = now =>
            \A F \in kSubset(Limit, Failures(name)) : Max(F) = Len(log) => RefusedFor(name, F)

\* Not all of Limit failures are among fewer than Limit times: one of them may be
\* forgotten, and of the three reasons two are excluded by what the failures are.
LEMMA FewRemembered == TypeOK /\ LogInOrder /\ Remembers => Few
<1> SUFFICES ASSUME TypeOK, LogInOrder, Remembers, NEW name \in Names,
                    Len(Hits(name)) < Limit, log[Len(log)].at = now,
                    NEW F \in kSubset(Limit, Failures(name)), Max(F) = Len(log),
                    log[Max(F)].at - log[Min(F)].at <= Window,
                    Cardinality(Between(F)) <= MaxKeys
             PROVE  RefusedUntil(name, log[Min(F)].at + Cooloff)
  BY DEF Few, RefusedFor
<1>1. PICK g \in [DOMAIN Hits(name) -> DOMAIN log] :
        /\ \A j \in DOMAIN Hits(name) : Hits(name)[j] = log[g[j]].at
        /\ \A i \in Failures(name) :
              Forgettable(name, i) \/ \E j \in DOMAIN Hits(name) : g[j] = i
  BY DEF Remembers, RemembersOf
<1>2. /\ Len(log) \in Nat /\ DOMAIN log = 1..Len(log)
      /\ F \subseteq Failures(name) /\ F \subseteq 1..Len(log) /\ Cardinality(F) = Limit
      /\ F # {} /\ IsFiniteSet(F)
      /\ Min(F) \in F /\ Max(F) \in F
      /\ \A i \in F : Min(F) <= i /\ i <= Max(F)
  BY SomeFailures
<1>3. PICK i \in F : Forgettable(name, i)
  <2> SUFFICES ASSUME \A i \in F : \E j \in DOMAIN Hits(name) : g[j] = i PROVE FALSE
    BY <1>1, <1>2
  <2> DEFINE h == [i \in F |-> CHOOSE j \in DOMAIN Hits(name) : g[j] = i]
  <2>1. Hits(name) \in Seq(Nat) /\ Len(Hits(name)) \in Nat /\ DOMAIN Hits(name) = 1..Len(Hits(name))
    BY HitsAreTimes
  <2>2. h \in [F -> DOMAIN Hits(name)] /\ \A i \in F : g[h[i]] = i
    OBVIOUS
  <2>3. PICK n \in Nat : n = Len(Hits(name))
    BY <2>1
  <2>4. IsFiniteSet(1..n) /\ Cardinality(1..n) = IF 1 > n THEN 0 ELSE n - 1 + 1
    <3>1. n \in Int /\ 1 \in Int
      OBVIOUS
    <3> QED
      BY <3>1, FS_Interval
  <2>5. IsFiniteSet(1..Len(Hits(name))) /\ Cardinality(1..Len(Hits(name))) = Len(Hits(name))
    BY <2>3, <2>4
  <2>6. Cardinality(1..Len(Hits(name))) < Cardinality(F)
    BY <1>2, <2>1, <2>5
  <2> HIDE DEF h
  <2>7. \E x, y \in F : x # y /\ h[x] = h[y]
    <3> DEFINE places == DOMAIN Hits(name)
    <3>1. IsFiniteSet(places) /\ Cardinality(places) < Cardinality(F) /\ h \in [F -> places]
      BY <2>1, <2>2, <2>5, <2>6
    <3>2. IsFiniteSet(F)
      BY <1>2
    <3> HIDE DEF places
    <3>3. ASSUME NEW A, NEW B, NEW f \in [A -> B], IsFiniteSet(A), IsFiniteSet(B),
                 Cardinality(B) < Cardinality(A)
          PROVE  \E x, y \in A : x # y /\ f[x] = f[y]
      BY <3>3, FS_PigeonHole
    <3> QED
      BY <3>1, <3>2, <3>3
  <2> QED
    BY <2>2, <2>7
<1>4. /\ Min(F) \in DOMAIN log /\ i \in DOMAIN log /\ Min(F) <= i
      /\ log[Min(F)].at \in Nat /\ log[i].at \in Nat /\ log[Min(F)].at <= log[i].at
      /\ now \in Nat /\ Window \in Nat /\ Cooloff \in Nat /\ MaxKeys \in Nat
  <2>1. Min(F) \in DOMAIN log /\ i \in DOMAIN log /\ Min(F) <= i
    BY <1>2
  <2> QED
    BY <2>1, EntryTypes, CooloffAssumption, LimitAssumption DEF TypeOK, LogInOrder
<1>5. CASE log[i].at < now - Window
  BY <1>4, <1>5
<1>6. CASE RefusedUntil(name, log[i].at + Cooloff)
  BY <1>4, <1>6, EarlierRefused
<1>7. CASE Cardinality(FailedFrom(i)) > MaxKeys
  <2>1. FailedFrom(i) \subseteq Between(F)
    <3>1. \A j \in i..Len(log) : j \in Min(F)..Max(F)
      BY <1>2, <1>4
    <3> QED
      BY <3>1 DEF FailedFrom, Between
  <2>2. Between(F) = FailedIn(log, Min(F), Max(F))
    BY DEF Between, FailedIn
  <2>3. IsFiniteSet(Between(F))
    <3>1. PICK entries : entries = log
      OBVIOUS
    <3>2. Min(F) \in Int /\ Max(F) \in Int
      <4>1. Min(F) \in 1..Len(log) /\ Max(F) \in 1..Len(log) /\ Len(log) \in Nat
        BY <1>2
      <4> QED
        BY <4>1
    <3>3. PICK m \in Int, n \in Int : m = Min(F) /\ n = Max(F)
      BY <3>2
    <3>4. IsFiniteSet(FailedIn(entries, m, n))
      BY NamesFinite
    <3> QED
      BY <2>2, <3>1, <3>3, <3>4
  <2>4. /\ Cardinality(FailedFrom(i)) <= Cardinality(Between(F))
        /\ Cardinality(FailedFrom(i)) \in Nat /\ Cardinality(Between(F)) \in Nat
    BY <2>1, <2>3, FS_Subset, FS_CardinalityType
  <2> QED
    BY <1>4, <1>7, <2>4
<1> QED
  BY <1>3, <1>5, <1>6, <1>7 DEF Forgettable

\* A refusal whose time has not come is a block.
LEMMA LimitFollows == TypeOK /\ LimitBlocked => LimitBlocks
<1> SUFFICES ASSUME TypeOK, LimitBlocked, NEW name \in Names,
                    NEW F \in kSubset(Limit, Failures(name)),
                    log[Max(F)].at - log[Min(F)].at <= Window,
                    Cardinality(Between(F)) <= MaxKeys,
                    now < log[Min(F)].at + Cooloff
             PROVE  Blocked(name)
  BY DEF LimitBlocks
<1>1. RefusedUntil(name, log[Min(F)].at + Cooloff)
  BY DEF LimitBlocked, LimitBlockedOf, RefusedFor
<1>2. Min(F) \in DOMAIN log
  BY SomeFailures
<1>3. log[Min(F)].at \in Nat /\ now \in Nat /\ Cooloff \in Nat
  BY <1>2, EntryTypes, CooloffAssumption DEF TypeOK
<1>4. name \in DOMAIN blocked /\ blocked[name] >= log[Min(F)].at + Cooloff /\ blocked[name] \in Nat
  BY <1>1, <1>3 DEF RefusedUntil, TypeOK
<1> QED
  BY <1>3, <1>4 DEF Blocked

-----------------------------------------------------------------------------
(* How the log, the time and the throttle change. *)

\* Every step leaves the log, or adds to it, in the same second.
LogStep ==
    /\ now' \in Nat /\ now' >= now
    /\ \/ log' = log
       \/ /\ now' = now
          /\ \E what \in {"wrong", "failure", "forgiven", "cleared", "restart"} : \E name :
                Logged(what, name)

\* All steps are of this kind.
LEMMA StepLogs == TypeOK /\ [Next]_vars => LogStep
<1> SUFFICES ASSUME TypeOK, [Next]_vars PROVE LogStep
  OBVIOUS
<1>1. now \in Nat
  BY DEF TypeOK
<1>2. CASE Tick
  BY <1>1, <1>2 DEF Tick, LogStep
<1>3. CASE UNCHANGED <<now, log>>
  BY <1>1, <1>3 DEF LogStep
<1>4. ASSUME NEW c \in Clients,
             Note(c) \/ Record(c) \/ Rehash(c) \/ Clear(c) \/ Greet(c)
               \/ (\E u \in Users : Reset(c, u)) \/ Change(c)
      PROVE  LogStep
  BY <1>1, <1>4 DEF Note, Record, Rehash, Clear, Greet, Reset, Change, LogStep
<1>5. CASE Restart
  BY <1>1, <1>5 DEF Restart, LogStep
<1>6. ASSUME NEW c \in Clients,
             \/ \E name \in Names : \E typed \in Typed(name) : Ask(c, name, typed)
             \/ LookUp(c) \/ Open(c) \/ Revoke(c)
             \/ \E u \in Users : Disable(c, u)
             \/ \E s \in sessions : AskChange(c, s)
      PROVE  UNCHANGED <<now, log>>
  BY <1>6 DEF Ask, LookUp, Open, Revoke, AskChange, Disable
<1>7. Prune \/ (\E u \in Users : Enable(u)) \/ (\E s \in sessions : Use(s) \/ SignOut(s))
      \/ UNCHANGED vars
         => UNCHANGED <<now, log>>
  BY DEF Prune, Use, SignOut, Enable, vars
<1> QED
  BY <1>2, <1>3, <1>4, <1>5, <1>6, <1>7 DEF Next

\* The log stays in the order of time.
LEMMA StepOrder == TypeOK /\ LogInOrder /\ [Next]_vars => LogInOrder'
<1> SUFFICES ASSUME TypeOK, LogInOrder, LogStep PROVE LogInOrder'
  BY StepLogs
<1>1. now \in Nat /\ now' \in Nat /\ now' >= now /\ \A i \in DOMAIN log : log[i].at \in Nat
  BY EntryTypes DEF TypeOK, LogStep
<1>2. CASE log' = log
  BY <1>1, <1>2 DEF LogInOrder
<1>3. ASSUME NEW what, NEW name, Logged(what, name), now' = now PROVE LogInOrder'
  <2>1. /\ Len(log) \in Nat /\ DOMAIN log = 1..Len(log)
        /\ DOMAIN log' = 1..(Len(log) + 1)
        /\ \A i \in DOMAIN log : log'[i] = log[i]
        /\ log'[Len(log) + 1].at = now
    BY <1>3, LogGrows
  <2>2. \A i \in DOMAIN log' : i \in DOMAIN log \/ i = Len(log) + 1
    BY <2>1
  <2>3. \A i \in DOMAIN log' : log'[i].at <= now
    BY <1>1, <2>1, <2>2 DEF LogInOrder
  <2>4. ASSUME NEW i \in DOMAIN log', NEW j \in DOMAIN log', i <= j PROVE log'[i].at <= log'[j].at
    <3>1. CASE j = Len(log) + 1
      BY <1>1, <2>1, <2>3, <3>1
    <3>2. CASE j # Len(log) + 1
      <4>1. i \in DOMAIN log /\ j \in DOMAIN log
        BY <2>1, <2>4, <3>2
      <4> QED
        BY <2>1, <2>4, <4>1 DEF LogInOrder
    <3> QED
      BY <3>1, <3>2
  <2> QED
    BY <1>3, <2>3, <2>4 DEF LogInOrder
<1> QED
  BY <1>2, <1>3 DEF LogStep

\* A step that keeps the name's block carries what is known of it over.
LEMMA StepCarries ==
  ASSUME TypeOK, LogStep, NEW name, BlockKept(name)
  PROVE  Carries(name)
<1>1. CASE log' = log
  BY <1>1 DEF LogStep, Carries, TypeOK
<1>2. ASSUME NEW what, NEW whose, Logged(what, whose) PROVE Carries(name)
  BY <1>2, LogGrows DEF LogStep, Carries
<1> QED
  BY <1>1, <1>2 DEF LogStep

\* Who failed later still did.
LEMMA LaterStays ==
  ASSUME TypeOK, NEW early, NEW late, Carries(early), Failures(early)' = Failures(early),
         FailedLater(early, late)
  PROVE  FailedLater(early, late)'
<1>1. DOMAIN log \subseteq DOMAIN log' /\ \A i \in DOMAIN log : log'[i] = log[i]
  BY DEF Carries, TypeOK
<1> QED
  BY <1>1 DEF FailedLater

\* A step that is not about the throttle, or only asks it.
LEMMA QuietThrottle ==
  ASSUME TypeOK, TypeOK', ThrottleInv, LogStep, LogInOrder', UNCHANGED <<hits, order>>,
         \A name \in Names : BlockKept(name),
         log' = log \/ \E what \in {"wrong", "forgiven"} : \E whose : Logged(what, whose)
  PROVE  ThrottleInv'
<1>1. ASSUME NEW name \in Names PROVE Carries(name) /\ Failures(name)' = Failures(name)
                                      /\ Hits(name)' = Hits(name)
  <2>1. Carries(name)
    BY StepCarries
  <2>2. Failures(name)' = Failures(name)
    <3>1. CASE log' = log
      BY <3>1 DEF Failures, After
    <3>2. ASSUME NEW what \in {"wrong", "forgiven"}, NEW whose, Logged(what, whose)
          PROVE  Failures(name)' = Failures(name)
      BY <3>2, FailuresGrow
    <3> QED
      BY <3>1, <3>2
  <2> QED
    BY <2>1, <2>2 DEF Hits
<1>2. OrderIsRecency'
  <2> SUFFICES ASSUME NEW a \in DOMAIN order, NEW b \in DOMAIN order, a < b
               PROVE  FailedLater(order[a], order[b])'
    BY DEF OrderIsRecency, FailedLater
  <2>1. PICK early \in Names, late \in Names : early = order[a] /\ late = order[b]
    BY DEF TypeOK
  <2>2. FailedLater(early, late)
    BY <2>1 DEF ThrottleInv, OrderIsRecency, FailedLater
  <2>3. FailedLater(early, late)'
    BY <1>1, <2>2, LaterStays
  <2> QED
    BY <2>1, <2>3
<1>3. Remembers'
  <2> SUFFICES ASSUME NEW name \in Names PROVE RemembersOf(name)'
    BY DEF Remembers, RemembersOf
  <2>1. RemembersOf(name)
    BY DEF ThrottleInv, Remembers, RemembersOf
  <2> QED
    BY <1>1, <2>1, CarriedRemembers DEF ThrottleInv
<1>4. LimitBlocked'
  <2> SUFFICES ASSUME NEW name \in Names PROVE LimitBlockedOf(name)'
    BY DEF LimitBlocked, LimitBlockedOf, RefusedFor
  <2>1. LimitBlockedOf(name)
    BY DEF ThrottleInv, LimitBlocked, LimitBlockedOf, RefusedFor
  <2> QED
    BY <1>1, <2>1, CarriedBlocked DEF ThrottleInv
<1> QED
  BY <1>2, <1>3, <1>4 DEF ThrottleInv

\* A name, the past of which was dropped.
LEMMA NoFailures ==
  ASSUME TypeOK', NEW name, Failures(name)' = {}, Hits(name)' = << >>
  PROVE  RemembersOf(name)' /\ LimitBlockedOf(name)'
<1>1. RemembersOf(name)'
  <2> DEFINE g == [j \in {} |-> 0]
  <2>1. g \in [DOMAIN Hits(name)' -> DOMAIN log']
    OBVIOUS
  <2>2. DOMAIN Hits(name)' = {}
    OBVIOUS
  <2> HIDE DEF g
  <2> QED
    BY <2>1, <2>2 DEF RemembersOf
<1>2. LimitBlockedOf(name)'
  <2> SUFFICES ASSUME NEW F \in kSubset(Limit, {}) PROVE FALSE
    BY DEF LimitBlockedOf
  <2>1. F = {} /\ Cardinality(F) = Limit
    BY DEF kSubset
  <2> QED
    BY <2>1, FS_EmptySet, LimitAssumption
<1> QED
  BY <1>1, <1>2

\* A restart drops the past of all names ...
LEMMA RestartThrottle ==
  ASSUME TypeOK, TypeOK', LogInOrder', Restart
  PROVE  ThrottleInv'
<1>1. \A name \in Names : Failures(name)' = {} /\ Hits(name)' = << >>
  <2> SUFFICES ASSUME NEW name \in Names PROVE Failures(name)' = {} /\ Hits(name)' = << >>
    OBVIOUS
  <2>1. Logged("restart", NoName) /\ hits' = << >>
    BY DEF Restart
  <2>2. Failures(name)' = {}
    BY <2>1, FailuresGrow
  <2> QED
    BY <2>1, <2>2 DEF Hits
<1>2. Remembers' /\ LimitBlocked'
  BY <1>1, NoFailures DEF Remembers, RemembersOf, LimitBlocked, LimitBlockedOf, RefusedFor
<1>3. OrderIsRecency'
  BY DEF Restart, OrderIsRecency
<1> QED
  BY <1>2, <1>3 DEF ThrottleInv

\* ... and clearing one name that of this name; the others keep their order.
LEMMA ClearThrottleInv ==
  ASSUME TypeOK, TypeOK', ThrottleInv, LogStep, LogInOrder', NEW name \in Names,
         ClearThrottle(name), Logged("cleared", name)
  PROVE  ThrottleInv'
<1>1. Failures(name)' = {} /\ Hits(name)' = << >>
  <2>1. Failures(name)' = {}
    BY FailuresGrow
  <2> QED
    BY <2>1 DEF Hits, ClearThrottle, Restrict
<1>2. ASSUME NEW m \in Names, m # name
      PROVE  Carries(m) /\ Failures(m)' = Failures(m) /\ Hits(m)' = Hits(m)
  <2>1. Failures(m)' = Failures(m)
    BY <1>2, FailuresGrow
  <2>2. BlockKept(m)
    BY <1>2 DEF BlockKept, ClearThrottle, Restrict
  <2>3. Hits(m)' = Hits(m)
    BY <1>2 DEF Hits, ClearThrottle, Restrict
  <2> QED
    BY <2>1, <2>2, <2>3, StepCarries
<1>3. OrderIsRecency'
  <2> SUFFICES ASSUME NEW a \in DOMAIN order', NEW b \in DOMAIN order', a < b
               PROVE  FailedLater(order[a], order[b])'
    BY DEF OrderIsRecency, FailedLater
  <2>1. order' = Others(name)
    BY DEF ClearThrottle
  <2>2. PICK e \in [DOMAIN Others(name) -> DOMAIN order] :
              /\ \A x \in DOMAIN Others(name) : Others(name)[x] = order[e[x]]
              /\ \A x, y \in DOMAIN Others(name) : x < y => e[x] < e[y]
    BY OthersAre
  <2>3. PICK early, late : early = order'[a] /\ late = order'[b]
    OBVIOUS
  <2>4. early \in Names /\ early # name
    <3>1. early \in ToSet(Others(name))
      BY <2>1, <2>3 DEF ToSet
    <3>2. ToSet(Others(name)) = ToSet(order) \ {name} /\ Others(name) \in Seq(Names)
      BY OthersAre
    <3> QED
      BY <2>1, <2>3, <3>1, <3>2
  <2>5. FailedLater(early, late)
    BY <2>1, <2>2, <2>3 DEF ThrottleInv, OrderIsRecency, FailedLater
  <2>6. FailedLater(early, late)'
    BY <1>2, <2>4, <2>5, LaterStays
  <2> QED
    BY <2>3, <2>6
<1>4. ASSUME NEW m \in Names PROVE RemembersOf(m)' /\ LimitBlockedOf(m)'
  <2>1. CASE m = name
    BY <1>1, <2>1, NoFailures
  <2>2. CASE m # name
    <3>1. RemembersOf(m) /\ LimitBlockedOf(m)
      BY DEF ThrottleInv, Remembers, RemembersOf, LimitBlocked, LimitBlockedOf, RefusedFor
    <3> QED
      BY <1>2, <2>2, <3>1, CarriedRemembers, CarriedBlocked DEF ThrottleInv
  <2> QED
    BY <2>1, <2>2
<1>5. Remembers' /\ LimitBlocked'
  BY <1>4 DEF Remembers, RemembersOf, LimitBlocked, LimitBlockedOf, RefusedFor
<1> QED
  BY <1>3, <1>5 DEF ThrottleInv

-----------------------------------------------------------------------------
(* A failure is recorded. *)

\* What is known of a name is carried over by a recorded failure, of it or another.
LEMMA RecordCarries ==
  ASSUME TypeOK, LogStep, NEW name \in Names, RecordFailure(name), Logged("failure", name),
         NEW m \in Names
  PROVE  /\ Carries(m)
         /\ Failures(m)' = IF m = name THEN Failures(m) \cup {Len(log) + 1} ELSE Failures(m)
<1>1. Failures(m)' = IF m = name THEN Failures(m) \cup {Len(log) + 1} ELSE Failures(m)
  BY FailuresGrow
<1>2. BlockKept(m)
  BY DEF BlockKept, RecordFailure
<1> QED
  BY <1>1, <1>2, StepCarries

\* Moved to the end, the name that failed is behind all whose last failures came
\* before; making room for it changes nothing of that.
LEMMA RecordRecency ==
  ASSUME TypeOK, ThrottleInv, LogStep, NEW name \in Names, RecordFailure(name),
         Logged("failure", name)
  PROVE  /\ \A a, b \in DOMAIN Moved(name) :
               a < b => \A early, late :
                           early = Moved(name)[a] /\ late = Moved(name)[b]
                              => FailedLater(early, late)'
         /\ OrderIsRecency'
<1> DEFINE moved == Moved(name)
           rest == Others(name)
           left == Evicted(moved)
           shift == IF Len(moved) > MaxKeys THEN 1 ELSE 0
<1>1. /\ moved \in Seq(Names) /\ Len(moved) = Len(rest) + 1 /\ moved[Len(moved)] = name
      /\ \A a \in 1..Len(rest) : moved[a] = rest[a] /\ moved[a] # name
      /\ rest \in Seq(Names)
  BY MovedAre, OthersAre
<1>2. /\ DOMAIN moved = 1..(Len(rest) + 1) /\ DOMAIN rest = 1..Len(rest) /\ Len(rest) \in Nat
      /\ moved # << >>
  BY <1>1
<1>3. PICK e \in [DOMAIN rest -> DOMAIN order] :
              /\ \A x \in DOMAIN rest : rest[x] = order[e[x]]
              /\ \A x, y \in DOMAIN rest : x < y => e[x] < e[y]
  BY OthersAre
<1>4. ASSUME NEW a \in DOMAIN moved, NEW b \in DOMAIN moved, a < b,
             NEW early, NEW late, early = moved[a], late = moved[b]
      PROVE  FailedLater(early, late)'
  <2>1. a \in DOMAIN rest /\ moved[a] = rest[a] /\ moved[a] # name
    BY <1>1, <1>2, <1>4
  <2>2. early \in Names /\ early = moved[a] /\ late = moved[b]
    BY <1>1, <1>4
  <2>3. Carries(early) /\ Failures(early)' = Failures(early)
    BY <2>1, <2>2, RecordCarries
  <2>4. CASE b = Len(rest) + 1
    <3>1. late = name
      BY <1>1, <2>2, <2>4
    <3>2. /\ DOMAIN log' = 1..(Len(log) + 1) /\ DOMAIN log = 1..Len(log) /\ Len(log) \in Nat
          /\ log'[Len(log) + 1].what = "failure" /\ log'[Len(log) + 1].name = name
      BY LogGrows
    <3>3. \A i \in Failures(early)' : i < Len(log) + 1
      BY <2>3, <3>2 DEF Failures
    <3> QED
      BY <2>2, <3>1, <3>2, <3>3 DEF FailedLater
  <2>5. CASE b # Len(rest) + 1
    <3>1. b \in DOMAIN rest /\ moved[b] = rest[b]
      BY <1>1, <1>2, <2>5
    <3>2. e[a] < e[b] /\ e[a] \in DOMAIN order /\ e[b] \in DOMAIN order
      BY <1>3, <1>4, <2>1, <3>1
    <3>3. early = order[e[a]] /\ late = order[e[b]]
      BY <1>3, <2>1, <2>2, <3>1
    <3>4. FailedLater(early, late)
      BY <3>2, <3>3 DEF ThrottleInv, OrderIsRecency, FailedLater
    <3> QED
      BY <2>2, <2>3, <3>4, LaterStays
  <2> QED
    BY <2>4, <2>5
<1>5. /\ Len(left) = Len(moved) - shift /\ left \in Seq(Names)
      /\ \A a \in 1..(Len(moved) - shift) : left[a] = moved[a + shift]
  BY <1>1, <1>2, EvictedAre
<1>6. order' = left
  BY DEF RecordFailure
<1>7. ASSUME NEW a \in DOMAIN order', NEW b \in DOMAIN order', a < b
      PROVE  FailedLater(order[a], order[b])'
  <2>1. DOMAIN order' = 1..(Len(moved) - shift) /\ shift \in {0, 1}
    BY <1>5, <1>6
  <2> HIDE DEF moved, left, shift
  <2>2. a + shift \in DOMAIN moved /\ b + shift \in DOMAIN moved /\ a + shift < b + shift
    BY <1>1, <1>2, <1>7, <2>1
  <2>3. PICK early, late : early = moved[a + shift] /\ late = moved[b + shift]
    OBVIOUS
  <2>4. order'[a] = early /\ order'[b] = late
    BY <1>5, <1>6, <1>7, <2>1, <2>3
  <2>5. FailedLater(early, late)'
    <3>1. PICK x \in DOMAIN moved, y \in DOMAIN moved : x = a + shift /\ y = b + shift
      BY <2>2
    <3>2. moved[x] = early /\ moved[y] = late /\ x < y
      BY <2>2, <2>3, <3>1
    <3> QED
      BY <1>4, <3>2 DEF moved
  <2> QED
    BY <2>4, <2>5
<1>8. OrderIsRecency'
  BY <1>7 DEF OrderIsRecency, FailedLater
<1> QED
  BY <1>4, <1>8

\* The name that made room has had more names fail since than are remembered.
LEMMA EvictedForgettable ==
  ASSUME TypeOK, TypeOK', ThrottleInv, LogStep, NEW name \in Names, RecordFailure(name),
         Logged("failure", name), NEW m \in ToSet(order), m # name, m \notin ToSet(order')
  PROVE  \A i \in Failures(m)' : Forgettable(m, i)'
<1> DEFINE moved == Moved(name)
<1>1. /\ moved \in Seq(Names) /\ DOMAIN moved = 1..Len(moved) /\ Len(moved) \in Nat
      /\ ToSet(moved) = ToSet(order) \cup {name} /\ moved # << >>
      /\ \A a, b \in DOMAIN moved : moved[a] = moved[b] => a = b
  <2>1. /\ moved \in Seq(Names) /\ ToSet(moved) = ToSet(order) \cup {name}
        /\ \A a, b \in DOMAIN moved : moved[a] = moved[b] => a = b
    BY MovedAre
  <2>2. DOMAIN moved = 1..Len(moved) /\ Len(moved) \in Nat
    BY <2>1
  <2>3. moved # << >>
    BY <2>1 DEF ToSet
  <2> QED
    BY <2>1, <2>2, <2>3
<1>2. /\ order' = Evicted(moved)
      /\ Len(moved) > MaxKeys =>
           /\ Len(Evicted(moved)) = Len(moved) - 1
           /\ \A a \in 1..(Len(moved) - 1) : Evicted(moved)[a] = moved[a + 1]
      /\ ~(Len(moved) > MaxKeys) => Evicted(moved) = moved
  <2>1. order' = Evicted(moved)
    BY DEF RecordFailure
  <2>2. ~(Len(moved) > MaxKeys) => Evicted(moved) = moved
    BY DEF Evicted
  <2> HIDE DEF moved
  <2> QED
    BY <1>1, <2>1, <2>2, EvictedAre
<1>3. PICK x \in DOMAIN moved : moved[x] = m
  BY <1>1 DEF ToSet
<1>4. Len(moved) > MaxKeys
  <2> HIDE DEF moved
  <2> QED
    BY <1>1, <1>2 DEF ToSet
<1>5. x = 1
  <2> SUFFICES ASSUME x # 1 PROVE m \in ToSet(order')
    OBVIOUS
  <2> HIDE DEF moved
  <2>1. x - 1 \in 1..(Len(moved) - 1) /\ (x - 1) + 1 = x
    BY <1>1, <1>3
  <2>2. x - 1 \in DOMAIN order' /\ order'[x - 1] = m
    <3>1. order' \in Seq(Names) /\ Len(order') = Len(moved) - 1
      BY <1>2, <1>4 DEF TypeOK
    <3>2. DOMAIN order' = 1..(Len(moved) - 1)
      BY <3>1
    <3>3. order'[x - 1] = moved[(x - 1) + 1]
      BY <1>2, <1>4, <2>1
    <3> QED
      BY <1>3, <2>1, <3>2, <3>3
  <2> QED
    BY <2>2 DEF ToSet
<1>6. ASSUME NEW i \in Failures(m)', NEW n \in ToSet(moved) PROVE n \in FailedFrom(i)'
  <2>1. PICK y \in DOMAIN moved : moved[y] = n
    BY DEF ToSet
  <2>2. Failures(m)' = Failures(m) /\ Carries(m)
    <3>1. m \in Names
      BY DEF TypeOK, ToSet
    <3> QED
      BY <3>1, RecordCarries
  <2>3. i \in DOMAIN log' /\ log'[i].what = "failure" /\ log'[i].name = m
    BY DEF Failures
  <2>4. DOMAIN log' = 1..Len(log') /\ Len(log') \in Nat
    BY <2>2 DEF Carries
  <2>5. CASE y = 1
    <3>1. i \in i..Len(log') /\ n = m
      BY <1>3, <1>5, <2>1, <2>3, <2>4, <2>5
    <3> QED
      BY <2>3, <3>1 DEF FailedFrom
  <2>6. CASE y # 1
    <3>1. 1 < y /\ 1 \in DOMAIN moved
      BY <1>1, <2>1, <2>6
    <3>2. FailedLater(m, n)'
      BY <1>3, <1>5, <2>1, <3>1, RecordRecency
    <3>3. PICK k \in DOMAIN log' : log'[k].what = "failure" /\ log'[k].name = n /\ i < k
      BY <3>2 DEF FailedLater
    <3>4. k \in i..Len(log')
      BY <2>3, <2>4, <3>3
    <3> QED
      BY <3>3, <3>4 DEF FailedFrom
  <2> QED
    BY <2>5, <2>6
<1>7. IsFiniteSet(ToSet(moved)) /\ Cardinality(ToSet(moved)) = Len(moved)
  <2> HIDE DEF moved
  <2>1. moved \in Bijection(1..Len(moved), ToSet(moved))
    <3>1. moved \in [1..Len(moved) -> ToSet(moved)]
      BY <1>1 DEF ToSet
    <3>2. moved \in Injection(1..Len(moved), ToSet(moved))
      BY <1>1, <3>1 DEF Injection, IsInjective
    <3>3. moved \in Surjection(1..Len(moved), ToSet(moved))
      BY <1>1, <3>1 DEF Surjection, ToSet
    <3> QED
      BY <3>2, <3>3 DEF Bijection
  <2>2. ExistsBijection(1..Len(moved), ToSet(moved))
    BY <2>1 DEF ExistsBijection
  <2>3. Cardinality(ToSet(moved)) = Len(moved)
    BY <1>1, <2>2, FS_CountingElements
  <2>4. IsFiniteSet(1..Len(moved))
    BY <1>1, FS_Interval
  <2> QED
    BY <2>2, <2>3, <2>4, FS_Bijection
<1>8. ASSUME NEW i \in Failures(m)' PROVE Forgettable(m, i)'
  <2>1. ToSet(moved) \subseteq FailedFrom(i)'
    BY <1>6
  <2>2. IsFiniteSet(FailedFrom(i)')
    <3>1. i \in Int /\ Len(log') \in Int
      BY DEF Failures, TypeOK
    <3>2. PICK entries : entries = log'
      OBVIOUS
    <3>3. PICK n \in Int : n = Len(log')
      BY <3>1
    <3>4. IsFiniteSet(FailedIn(entries, i, n))
      BY <3>1, NamesFinite
    <3> QED
      BY <3>2, <3>3, <3>4 DEF FailedFrom, FailedIn
  <2>3. Cardinality(ToSet(moved)) <= Cardinality(FailedFrom(i)')
        /\ Cardinality(FailedFrom(i)') \in Nat
    <3> HIDE DEF moved
    <3> QED
      BY <2>1, <2>2, FS_Subset, FS_CardinalityType
  <2>4. Cardinality(FailedFrom(i)') > MaxKeys
    BY <1>1, <1>4, <1>7, <2>3, LimitAssumption
  <2> QED
    BY <2>4 DEF Forgettable
<1> QED
  BY <1>8

\* What is remembered of another name.
LEMMA RecordRemembersOthers ==
  ASSUME TypeOK, TypeOK', ThrottleInv, LogStep, NEW name \in Names, RecordFailure(name),
         Logged("failure", name), NEW m \in Names, m # name
  PROVE  RemembersOf(m)'
<1>1. Carries(m) /\ Failures(m)' = Failures(m)
  BY RecordCarries
<1>2. RemembersOf(m)
  BY DEF ThrottleInv, Remembers, RemembersOf
<1>3. DOMAIN hits = ToSet(order) /\ DOMAIN hits' = ToSet(order')
  BY DEF TypeOK
<1>4. ToSet(order') \subseteq ToSet(order) \cup {name}
  <2>1. ToSet(Moved(name)) = ToSet(order) \cup {name} /\ Moved(name) \in Seq(Names)
    BY MovedAre
  <2>2. Moved(name) # << >>
    BY <2>1 DEF ToSet
  <2>3. PICK moved : moved = Moved(name)
    OBVIOUS
  <2>4. order' = Evicted(moved)
    BY <2>3 DEF RecordFailure
  <2>5. ToSet(Evicted(moved)) \subseteq ToSet(moved)
    <3> DEFINE shift == IF Len(moved) > MaxKeys THEN 1 ELSE 0
    <3>1. /\ Evicted(moved) \in Seq(Names) /\ Len(Evicted(moved)) = Len(moved) - shift
          /\ \A a \in 1..(Len(moved) - shift) : Evicted(moved)[a] = moved[a + shift]
      BY <2>1, <2>2, <2>3, EvictedAre
    <3>2. shift \in {0, 1} /\ Len(moved) \in Nat /\ DOMAIN moved = 1..Len(moved)
      BY <2>1, <2>3
    <3> HIDE DEF shift
    <3>3. DOMAIN Evicted(moved) = 1..(Len(moved) - shift)
      BY <3>1
    <3>4. \A a \in DOMAIN Evicted(moved) : a + shift \in DOMAIN moved
      BY <3>2, <3>3
    <3> QED
      BY <3>1, <3>3, <3>4 DEF ToSet
  <2> QED
    BY <2>1, <2>3, <2>4, <2>5
<1>5. CASE m \in ToSet(order')
  <2>1. m \in ToSet(order) /\ hits'[m] = hits[m]
    BY <1>4, <1>5 DEF RecordFailure
  <2>2. Hits(m)' = Hits(m)
    BY <1>3, <1>5, <2>1 DEF Hits
  <2> QED
    BY <1>1, <1>2, <2>2, CarriedRemembers DEF ThrottleInv
<1>6. CASE m \notin ToSet(order')
  <2>1. Hits(m)' = << >>
    BY <1>3, <1>6 DEF Hits
  <2>2. CASE m \in ToSet(order)
    <3>1. \A i \in Failures(m)' : Forgettable(m, i)'
      BY <1>6, <2>2, EvictedForgettable
    <3> DEFINE g == [j \in {} |-> 0]
    <3>2. g \in [DOMAIN Hits(m)' -> DOMAIN log'] /\ DOMAIN Hits(m)' = {}
      BY <2>1
    <3> HIDE DEF g
    <3> QED
      BY <3>1, <3>2 DEF RemembersOf
  <2>3. CASE m \notin ToSet(order)
    <3>1. Hits(m)' = Hits(m)
      BY <1>3, <2>1, <2>3 DEF Hits
    <3> QED
      BY <1>1, <1>2, <3>1, CarriedRemembers DEF ThrottleInv
  <2> QED
    BY <2>2, <2>3
<1> QED
  BY <1>5, <1>6

\* What is remembered of the name itself: its recent failures and this one.
LEMMA RecordRemembersName ==
  ASSUME TypeOK, TypeOK', ThrottleInv, LogStep, now' = now, NEW name \in Names, RecordFailure(name),
         Logged("failure", name)
  PROVE  /\ RemembersOf(name)'
         /\ Len(Times(name)) >= Limit =>
              name \in DOMAIN blocked' /\ blocked'[name] = now + Cooloff
         /\ ~(Len(Times(name)) >= Limit) => Hits(name)' = Times(name)
<1> DEFINE L == Len(log) + 1
<1>1. Carries(name) /\ Failures(name)' = Failures(name) \cup {L}
  BY RecordCarries
<1>2. /\ Len(log) \in Nat /\ DOMAIN log = 1..Len(log)
      /\ DOMAIN log' = 1..L /\ Len(log') = L
      /\ \A i \in DOMAIN log : log'[i] = log[i]
      /\ log'[L].at = now
  BY LogGrows
<1>3. Failures(name) \subseteq DOMAIN log
  BY DEF Failures
<1>4. DOMAIN hits' = ToSet(order') /\ name \in ToSet(order')
  <2>1. Moved(name) \in Seq(Names) /\ ToSet(Moved(name)) = ToSet(order) \cup {name}
        /\ Moved(name)[Len(Moved(name))] = name
    BY MovedAre
  <2>2. Moved(name) # << >>
    BY <2>1 DEF ToSet
  <2>3. PICK moved : moved = Moved(name)
    OBVIOUS
  <2>4. name \in ToSet(Evicted(moved))
    BY <2>1, <2>2, <2>3, EvictedAre
  <2> QED
    BY <2>3, <2>4 DEF RecordFailure, TypeOK
<1>5. hits'[name] = IF Len(Times(name)) >= Limit THEN << >> ELSE Times(name)
  BY <1>4 DEF RecordFailure
<1>6. Hits(name)' = IF Len(Times(name)) >= Limit THEN << >> ELSE Times(name)
  BY <1>4, <1>5 DEF Hits
<1>7. Len(Times(name)) >= Limit => name \in DOMAIN blocked' /\ blocked'[name] = now + Cooloff
  BY DEF RecordFailure
<1>8. /\ now \in Nat /\ Cooloff \in Nat /\ Window \in Nat
      /\ \A i \in DOMAIN log : log[i].at \in Nat /\ log[i].at <= now
  BY EntryTypes, CooloffAssumption DEF TypeOK, ThrottleInv, LogInOrder
<1>9. CASE Len(Times(name)) >= Limit
  <2>1. ASSUME NEW i \in Failures(name)' PROVE Forgettable(name, i)'
    <3>1. log'[i].at \in Nat /\ log'[i].at <= now
      BY <1>1, <1>2, <1>3, <1>8
    <3>2. RefusedUntil(name, log[i].at + Cooloff)'
      BY <1>7, <1>8, <1>9, <3>1 DEF RefusedUntil
    <3> QED
      BY <3>2 DEF Forgettable
  <2>2. Hits(name)' = << >>
    BY <1>6, <1>9
  <2> DEFINE g == [j \in {} |-> 0]
  <2>3. g \in [DOMAIN Hits(name)' -> DOMAIN log'] /\ DOMAIN Hits(name)' = {}
    BY <2>2
  <2> HIDE DEF g
  <2>4. RemembersOf(name)'
    BY <2>1, <2>3 DEF RemembersOf
  <2> QED
    BY <1>7, <1>9, <2>4
<1>10. CASE ~(Len(Times(name)) >= Limit)
  <2>1. PICK g \in [DOMAIN Hits(name) -> DOMAIN log] :
          /\ \A j \in DOMAIN Hits(name) : Hits(name)[j] = log[g[j]].at
          /\ \A i \in Failures(name) :
                Forgettable(name, i) \/ \E j \in DOMAIN Hits(name) : g[j] = i
    BY DEF ThrottleInv, Remembers, RemembersOf
  <2>2. PICK old \in Seq(Nat) : old = Hits(name)
    BY HitsAreTimes
  <2>3. PICK first \in Nat :
           /\ 1 <= first /\ first <= Len(old) + 1
           /\ \A i \in 1..(first - 1) : old[i] < now - Window
           /\ Recent(old) \in Seq(Nat)
           /\ Len(Recent(old)) = (Len(old) + 1) - first
           /\ \A i \in 1..((Len(old) + 1) - first) : Recent(old)[i] = old[(first + i) - 1]
    BY <1>8, RecentAre
  <2> DEFINE n == ((Len(old) + 1) - first) + 1
  <2>4. PICK times : times = Times(name)
    OBVIOUS
  <2>5. /\ n \in Nat /\ Len(times) = n /\ DOMAIN times = 1..n /\ times[n] = now
        /\ \A i \in 1..(n - 1) : times[i] = old[(first + i) - 1]
    <3>1. times = Append(Recent(old), now)
      BY <2>2, <2>4 DEF Times
    <3> QED
      BY <1>8, <2>3, <3>1
  <2>6. Hits(name)' = times
    BY <1>6, <1>10, <2>4
  <2>7. Len(old) \in Nat /\ DOMAIN old = 1..Len(old)
    BY <2>2
  <2> DEFINE h == [j \in 1..n |-> IF j = n THEN L ELSE g[(first + j) - 1]]
  <2> HIDE DEF n
  <2>8. ASSUME NEW j \in 1..n, j # n PROVE j \in 1..(n - 1) /\ (first + j) - 1 \in DOMAIN old
    <3>1. PICK size \in Nat : size = Len(old)
      BY <2>7
    <3>2. n = ((size + 1) - first) + 1 /\ first \in Nat /\ 1 <= first /\ first <= size + 1
      BY <2>3, <3>1 DEF n
    <3>3. j \in 1..(n - 1) /\ (first + j) - 1 \in 1..size
      BY <2>5, <2>8, <3>2
    <3> QED
      BY <2>7, <3>1, <3>3
  <2>9. h \in [DOMAIN Hits(name)' -> DOMAIN log']
    <3>1. \A j \in 1..n : h[j] \in 1..L
      BY <1>2, <2>1, <2>2, <2>8
    <3> QED
      BY <1>2, <2>5, <2>6, <3>1
  <2>10. \A j \in 1..n : times[j] = log'[h[j]].at
    <3> SUFFICES ASSUME NEW j \in 1..n PROVE times[j] = log'[h[j]].at
      OBVIOUS
    <3>1. CASE j = n
      BY <1>2, <2>5, <3>1
    <3>2. CASE j # n
      <4>1. times[j] = old[(first + j) - 1] /\ h[j] = g[(first + j) - 1]
        BY <2>5, <2>8, <3>2
      <4>2. (first + j) - 1 \in DOMAIN Hits(name)
        BY <2>2, <2>8, <3>2
      <4>3. old[(first + j) - 1] = log[g[(first + j) - 1]].at /\ g[(first + j) - 1] \in DOMAIN log
        BY <2>1, <2>2, <4>2
      <4> QED
        BY <1>2, <4>1, <4>3
    <3> QED
      BY <3>1, <3>2
  <2>11. ASSUME NEW i \in Failures(name)'
         PROVE  Forgettable(name, i)' \/ \E j \in 1..n : h[j] = i
    <3>1. CASE i = L
      <4>1. n \in 1..n
        BY <2>3, <2>5, <2>7 DEF n
      <4> QED
        BY <3>1, <4>1
    <3>2. CASE i # L
      <4>1. i \in Failures(name) /\ i \in DOMAIN log
        BY <1>1, <1>3, <3>2
      <4>2. CASE Forgettable(name, i)
        BY <1>1, <4>1, <4>2, ForgettableStays DEF ThrottleInv
      <4>3. ASSUME NEW j \in DOMAIN Hits(name), g[j] = i
            PROVE  Forgettable(name, i)' \/ \E k \in 1..n : h[k] = i
        <5>1. j \in 1..Len(old) /\ old[j] = log[i].at
          BY <2>1, <2>2, <2>7, <4>3
        <5>2. CASE j < first
          <6>1. j \in 1..(first - 1)
            BY <2>3, <2>7, <5>1, <5>2
          <6>2. log[i].at < now - Window
            BY <2>3, <5>1, <6>1
          <6>3. log'[i].at < now' - Window
            BY <1>2, <4>1, <6>2
          <6> QED
            BY <6>3 DEF Forgettable
        <5>3. CASE ~(j < first)
          <6>1. (j - first) + 1 \in 1..n /\ (j - first) + 1 # n
                /\ (first + ((j - first) + 1)) - 1 = j
            BY <2>3, <2>7, <5>1, <5>3 DEF n
          <6>2. h[(j - first) + 1] = i
            BY <4>3, <6>1
          <6> QED
            BY <6>1, <6>2
        <5> QED
          BY <5>2, <5>3
      <4> QED
        BY <2>1, <4>1, <4>2, <4>3
    <3> QED
      BY <3>1, <3>2
  <2> HIDE DEF h
  <2>12. RemembersOf(name)'
    <3>1. DOMAIN Hits(name)' = 1..n
      BY <2>5, <2>6
    <3>2. \A j \in DOMAIN Hits(name)' : Hits(name)'[j] = log'[h[j]].at
      BY <2>6, <2>10, <3>1
    <3>3. \A i \in Failures(name)' : Forgettable(name, i)' \/ \E j \in DOMAIN Hits(name)' : h[j] = i
      BY <2>11, <3>1
    <3> QED
      BY <2>9, <3>2, <3>3 DEF RemembersOf
  <2> QED
    BY <1>10, <2>4, <2>6, <2>12
<1> QED
  BY <1>9, <1>10

\* A failure recorded.  Limit failures with this one as their last either are all
\* remembered, and then this is the one too many, or one may be forgotten.
LEMMA RecordThrottle ==
  ASSUME TypeOK, TypeOK', ThrottleInv, LogStep, LogInOrder', now' = now, NEW name \in Names,
         RecordFailure(name), Logged("failure", name)
  PROVE  ThrottleInv'
<1>1. OrderIsRecency'
  BY RecordRecency
<1>2. Remembers'
  <2> SUFFICES ASSUME NEW m \in Names PROVE RemembersOf(m)'
    BY DEF Remembers, RemembersOf
  <2> QED
    BY RecordRemembersName, RecordRemembersOthers
<1>3. Few'
  <2>1. (TypeOK /\ LogInOrder /\ Remembers => Few)'
    BY FewRemembered, PTL
  <2> QED
    BY <1>2, <2>1
<1>4. ASSUME NEW m \in Names, m # name PROVE LimitBlockedOf(m)'
  <2>1. LimitBlockedOf(m)
    BY DEF ThrottleInv, LimitBlocked, LimitBlockedOf, RefusedFor
  <2>2. Carries(m) /\ Failures(m)' = Failures(m)
    BY <1>4, RecordCarries
  <2> QED
    BY <2>1, <2>2, CarriedBlocked DEF ThrottleInv
<1>5. LimitBlockedOf(name)'
  <2> SUFFICES ASSUME NEW F \in kSubset(Limit, Failures(name)') PROVE RefusedFor(name, F)'
    BY DEF LimitBlockedOf
  <2> DEFINE L == Len(log) + 1
  <2>1. Carries(name) /\ Failures(name)' = Failures(name) \cup {L}
    BY RecordCarries
  <2>2. /\ Len(log) \in Nat /\ DOMAIN log = 1..Len(log)
        /\ DOMAIN log' = 1..L /\ Len(log') = L
        /\ \A i \in DOMAIN log : log'[i] = log[i]
        /\ log'[L].at = now
    BY LogGrows
  <2>3. F \subseteq Failures(name)' /\ Cardinality(F) = Limit /\ F \in SUBSET (1..L)
        /\ Failures(name) \subseteq DOMAIN log
    BY <2>1, <2>2 DEF kSubset, Failures
  <2>4. CASE L \notin F
    <3>1. F \in kSubset(Limit, Failures(name))
      BY <2>1, <2>3, <2>4 DEF kSubset
    <3>2. RefusedFor(name, F)
      BY <3>1 DEF ThrottleInv, LimitBlocked, LimitBlockedOf, RefusedFor
    <3> QED
      BY <2>1, <3>1, <3>2, CarriedRefusal DEF ThrottleInv
  <2>5. CASE L \in F
    <3>1. L \in Nat /\ Max(F) \in F /\ Max(F) >= L
      <4>1. PICK n \in Nat : n = L
        BY <2>2
      <4>2. F \in SUBSET (1..n) /\ F # {} /\ n \in F
        BY <2>3, <2>5, <4>1
      <4>3. Max(F) \in F /\ Max(F) >= n
        BY <4>2, LargestIs
      <4> QED
        BY <4>1, <4>3
    <3>2. Max(F) = L
      BY <2>2, <2>3, <3>1
    <3>3. CASE Len(Times(name)) >= Limit
      <4>1. name \in DOMAIN blocked' /\ blocked'[name] = now + Cooloff
        BY <3>3, RecordRemembersName
      <4>2. Min(F) \in 1..L
        <5>1. F \in SUBSET Nat
          BY <2>2, <2>3
        <5> QED
          BY <2>3, <2>5, <5>1, SmallestIs
      <4>3. log'[Min(F)].at \in Nat /\ log'[Min(F)].at <= now /\ now \in Nat /\ Cooloff \in Nat
        BY <2>2, <4>2, EntryTypes, CooloffAssumption DEF TypeOK, ThrottleInv, LogInOrder
      <4>4. RefusedUntil(name, log[Min(F)].at + Cooloff)'
        BY <4>1, <4>3 DEF RefusedUntil
      <4> QED
        BY <4>4 DEF RefusedFor
    <3>4. CASE ~(Len(Times(name)) >= Limit)
      <4>1. Hits(name)' = Times(name)
        BY <3>4, RecordRemembersName
      <4>2. Len(Hits(name)') < Limit /\ log'[Len(log')].at = now'
        <5>1. Len(Times(name)) \in Nat /\ Limit \in Nat
          BY HitsAreTimes, LimitAssumption
        <5> QED
          BY <2>2, <3>4, <4>1, <5>1
      <4> QED
        BY <1>3, <2>2, <3>2, <4>2 DEF Few
    <3> QED
      BY <3>3, <3>4
  <2> QED
    BY <2>4, <2>5
<1>6. LimitBlocked'
  <2> SUFFICES ASSUME NEW m \in Names PROVE LimitBlockedOf(m)'
    BY DEF LimitBlocked, LimitBlockedOf, RefusedFor
  <2> QED
    BY <1>4, <1>5
<1> QED
  BY <1>1, <1>2, <1>6 DEF ThrottleInv

\* The asking drops a block that is over, and no other.
LEMMA AskKeeps ==
  ASSUME TypeOK, NEW c \in Clients, NEW name \in Names, NEW typed, Ask(c, name, typed), NEW m
  PROVE  BlockKept(m)
<1>1. CASE Blocked(name)
  BY <1>1 DEF Ask, BlockKept
<1>2. CASE ~Blocked(name)
  BY <1>2 DEF Ask, BlockKept, Blocked, Restrict
<1> QED
  BY <1>1, <1>2

\* Every step keeps what the throttle's memory has to do with the past.
LEMMA StepThrottle == TypeOK /\ ThrottleInv /\ [Next]_vars => ThrottleInv'
<1> SUFFICES ASSUME TypeOK, ThrottleInv, [Next]_vars PROVE ThrottleInv'
  OBVIOUS
<1>1. TypeOK' /\ LogStep /\ LogInOrder'
  BY StepTypes, StepLogs, StepOrder DEF ThrottleInv
<1>2. ASSUME UNCHANGED throttleVars,
             log' = log \/ \E what \in {"wrong", "forgiven"} : \E whose : Logged(what, whose)
      PROVE  ThrottleInv'
  <2>1. \A m \in Names : BlockKept(m)
    BY <1>2 DEF BlockKept, throttleVars
  <2> QED
    BY <1>1, <1>2, <2>1, QuietThrottle DEF throttleVars
<1>3. ASSUME NEW c \in Clients, NEW name \in Names, NEW typed, Ask(c, name, typed)
      PROVE  ThrottleInv'
  <2>1. UNCHANGED <<hits, order, log>>
    BY <1>3 DEF Ask
  <2> QED
    BY <1>1, <1>3, <2>1, AskKeeps, QuietThrottle
<1>4. ASSUME NEW c \in Clients, Record(c) PROVE ThrottleInv'
  <2>1. request[c].name \in Names
    BY <1>4, RequestFacts DEF Record
  <2>2. RecordFailure(request[c].name) /\ Logged("failure", request[c].name) /\ now' = now
    BY <1>4 DEF Record
  <2> QED
    BY <1>1, <2>1, <2>2, RecordThrottle
<1>5. ASSUME NEW c \in Clients, Clear(c) PROVE ThrottleInv'
  <2>1. request[c].name \in Names
    BY <1>5, RequestFacts DEF Clear
  <2>2. ClearThrottle(request[c].name) /\ Logged("cleared", request[c].name)
    BY <1>5 DEF Clear
  <2> QED
    BY <1>1, <2>1, <2>2, ClearThrottleInv
<1>6. CASE Restart
  BY <1>1, <1>6, RestartThrottle
<1>7. ASSUME NEW c \in Clients,
             \/ LookUp(c) \/ Note(c) \/ Rehash(c) \/ Greet(c) \/ Open(c)
             \/ \E u \in Users : Reset(c, u) \/ Disable(c, u)
             \/ \E s \in sessions : AskChange(c, s)
             \/ Change(c) \/ Revoke(c)
      PROVE  ThrottleInv'
  BY <1>2, <1>7 DEF LookUp, Note, Rehash, Greet, Open, Reset, Disable, AskChange, Change, Revoke
<1>8. CASE \/ Tick \/ Prune \/ UNCHANGED vars
           \/ \E u \in Users : Enable(u)
           \/ \E s \in sessions : Use(s) \/ SignOut(s)
  BY <1>2, <1>8 DEF Tick, Prune, Enable, Use, SignOut, vars
<1> QED
  BY <1>3, <1>4, <1>5, <1>6, <1>7, <1>8 DEF Next

\* There is no past at first.
LEMMA InitThrottle == Init => ThrottleInv
<1> SUFFICES ASSUME Init PROVE ThrottleInv
  OBVIOUS
<1>1. log = << >> /\ order = << >> /\ \A name : Failures(name) = {} /\ Hits(name) = << >>
  BY DEF Init, Failures, Hits
<1>2. LogInOrder /\ OrderIsRecency
  BY <1>1 DEF LogInOrder, OrderIsRecency
<1>3. Remembers
  <2> DEFINE g == [j \in {} |-> 0]
  <2>1. \A name : g \in [DOMAIN Hits(name) -> DOMAIN log] /\ DOMAIN Hits(name) = {}
    BY <1>1
  <2> HIDE DEF g
  <2> QED
    BY <1>1, <2>1 DEF Remembers, RemembersOf
<1>4. LimitBlocked
  <2> SUFFICES ASSUME NEW F \in kSubset(Limit, {}) PROVE FALSE
    BY <1>1 DEF LimitBlocked, LimitBlockedOf
  <2>1. F = {} /\ Cardinality(F) = Limit
    BY DEF kSubset
  <2> QED
    BY <2>1, FS_EmptySet, LimitAssumption
<1> QED
  BY <1>2, <1>3, <1>4 DEF ThrottleInv

\* A name that failed Limit times within the window is refused for Cooloff from the
\* first, whatever else was recorded, cleared, evicted or blocked meanwhile, unless
\* more than MaxKeys names failed between.  (ratelimit.py: Throttle.)
THEOREM ThrottleBlocks == Spec => []LimitBlocks
<1>1. Init => TypeOK /\ ThrottleInv
  BY InitTypes, InitThrottle
<1>2. TypeOK /\ ThrottleInv /\ [Next]_vars => (TypeOK /\ ThrottleInv)'
  BY StepTypes, StepThrottle
<1>3. TypeOK /\ ThrottleInv => LimitBlocks
  BY LimitFollows DEF ThrottleInv
<1> QED
  BY <1>1, <1>2, <1>3, PTL DEF Spec

-----------------------------------------------------------------------------
(* The last-admin guard, whose users rows and requests are AdminGuard's. *)

\* Changing an account yields an account, and never makes anyone an enabled admin.
LEMMA ChangedFacts ==
    ASSUME NEW a \in UserRows, a # NoUserRow, NEW what
    PROVE  /\ Changed(what, a) \in UserRows \ {NoUserRow}
           /\ ~(Changed(what, a).role = "admin" /\ ~Changed(what, a).disabled)
<1>1. a \in [role: {"admin", "user"}, disabled: BOOLEAN]
  BY DEF UserRows
<1>2. CASE what = "disable"
  BY <1>1, <1>2 DEF Changed, UserRows, NoUserRow
<1>3. CASE what # "disable"
  BY <1>1, <1>3 DEF Changed, UserRows, NoUserRow
<1>4. QED
  BY <1>2, <1>3

\* A deployment starts with an admin and with nothing under way.
LEMMA InitGuardInv == GuardInit => GuardInv
<1> SUFFICES ASSUME GuardInit PROVE GuardInv
  OBVIOUS
<1> USE ConstantsAssumption DEF GuardInit
<1>1. GuardTypeOK
  BY DEF GuardTypeOK, GuardPhases
<1>2. AdminRemains
  BY DEF AdminRemains
<1>3. Holding /\ KeptAreAdmins /\ TargetInSight /\ PassedTheGuard
  BY DEF Holding, KeptAreAdmins, TargetInSight, PassedTheGuard
<1>4. QED
  BY <1>1, <1>2, <1>3 DEF GuardInv

\* Beginning a request preserves the invariant: its snapshot has its target in
\* it if that is an enabled admin; then each other kind of step.
LEMMA BeginGuardInv ==
    ASSUME GuardInv, NEW r \in Requests, NEW what \in {"disable", "demote"},
           NEW u \in Ids, Begin(r, what, u)
    PROVE  GuardInv'
<1> USE ConstantsAssumption DEF GuardInv, GuardTypeOK
<1>0. /\ phase[r] = "idle"
      /\ phase' = [phase EXCEPT ![r] = "locking"]
      /\ op' = [op EXCEPT ![r] = what]
      /\ target' = [target EXCEPT ![r] = u]
      /\ todo' = [todo EXCEPT ![r] = EnabledAdmins]
      /\ UNCHANGED <<users, locks, kept, awaits>>
  BY DEF Begin
<1>1. EnabledAdmins' = EnabledAdmins /\ EnabledAdmins \subseteq Ids
  BY <1>0 DEF EnabledAdmins, EnabledAdmin
<1>2. GuardTypeOK'
  BY <1>0, <1>1 DEF GuardPhases
<1>3. AdminRemains'
  BY <1>1 DEF AdminRemains
<1>4. Holding'
  BY <1>0 DEF Holding, Exists, Begin
<1>5. KeptAreAdmins'
  BY <1>0, <1>1 DEF KeptAreAdmins
<1>6. TargetInSight'
  BY <1>0, <1>1 DEF TargetInSight
<1>7. PassedTheGuard'
  BY <1>0 DEF PassedTheGuard
<1>8. QED
  BY <1>2, <1>3, <1>4, <1>5, <1>6, <1>7

\* Getting to a row: it leaves the snapshot and is awaited.
LEMMA ReachGuardInv ==
    ASSUME GuardInv, NEW r \in Requests, NEW u \in Ids, Reach(r, u)
    PROVE  GuardInv'
<1> USE ConstantsAssumption DEF GuardInv, GuardTypeOK
<1>0. /\ phase[r] = "locking"
      /\ awaits[r] = NoUser
      /\ u \in todo[r]
      /\ awaits' = [awaits EXCEPT ![r] = u]
      /\ todo' = [todo EXCEPT ![r] = @ \ {u}]
      /\ UNCHANGED <<users, locks, phase, op, target, kept>>
  BY DEF Reach
<1>1. EnabledAdmins' = EnabledAdmins
  BY <1>0 DEF EnabledAdmins, EnabledAdmin
<1>2. GuardTypeOK'
  BY <1>0
<1>3. AdminRemains'
  BY <1>1 DEF AdminRemains
<1>4. Holding'
  BY <1>0 DEF Holding, Exists
<1>5. KeptAreAdmins'
  BY <1>0, <1>1 DEF KeptAreAdmins
<1>6. TargetInSight'
  <2> SUFFICES ASSUME NEW q \in Requests, phase[q] # "idle", target[q] \in EnabledAdmins
               PROVE  (\/ target[q] \in todo[q] \cup kept[q]
                       \/ phase[q] = "locking" /\ awaits[q] = target[q])'
    BY <1>0, <1>1 DEF TargetInSight
  <2>1. CASE q = r
    <3>1. target[r] \in todo[r] \cup kept[r]
      BY <1>0, <2>1 DEF TargetInSight, Holding
    <3>2. QED
      BY <1>0, <2>1, <3>1
  <2>2. CASE q # r
    BY <1>0, <2>2 DEF TargetInSight
  <2>3. QED
    BY <2>1, <2>2
<1>7. PassedTheGuard'
  BY <1>0 DEF PassedTheGuard
<1>8. QED
  BY <1>2, <1>3, <1>4, <1>5, <1>6, <1>7

\* Locking a row and reading it again: kept if it is an enabled admin, and its
\* lock was nobody else's, so nobody else has kept it.
LEMMA LockRowGuardInv ==
    ASSUME GuardInv, NEW r \in Requests, LockRow(r)
    PROVE  GuardInv'
<1> USE ConstantsAssumption DEF GuardInv, GuardTypeOK
<1> DEFINE u == awaits[r]
<1>0. /\ phase[r] = "locking"
      /\ u \in Ids
      /\ locks[u] \in {NoRequest, r}
      /\ locks' = [locks EXCEPT ![u] = r]
      /\ kept' = [kept EXCEPT ![r] = @ \cup ({u} \cap EnabledAdmins)]
      /\ awaits' = [awaits EXCEPT ![r] = NoUser]
      /\ UNCHANGED <<users, phase, op, target, todo>>
  BY DEF LockRow, Free
<1>1. EnabledAdmins' = EnabledAdmins
  BY <1>0 DEF EnabledAdmins, EnabledAdmin
<1>2. GuardTypeOK'
  BY <1>0
<1>3. AdminRemains'
  BY <1>1 DEF AdminRemains
<1>4. Holding'
  <2> SUFFICES ASSUME NEW q \in Requests
               PROVE  (/\ phase[q] # "idle" => target[q] \in Ids /\ Exists(target[q])
                       /\ phase[q] = "idle" => kept[q] = {} /\ todo[q] = {} /\ awaits[q] = NoUser
                       /\ \A v \in kept[q] : locks[v] = q)'
    BY DEF Holding
  <2>1. CASE q = r
    BY <1>0, <2>1 DEF Holding, Exists
  <2>2. CASE q # r
    <3>1. u \notin kept[q]
      BY <1>0, <2>2 DEF Holding
    <3>2. QED
      BY <1>0, <2>2, <3>1 DEF Holding, Exists
  <2>3. QED
    BY <2>1, <2>2
<1>5. KeptAreAdmins'
  BY <1>0, <1>1 DEF KeptAreAdmins
<1>6. TargetInSight'
  BY <1>0, <1>1 DEF TargetInSight
<1>7. PassedTheGuard'
  BY <1>0 DEF PassedTheGuard
<1>8. QED
  BY <1>2, <1>3, <1>4, <1>5, <1>6, <1>7

\* The end of a transaction that changed no account: a refusal or an abort.
LEMMA EndGuardInv ==
    ASSUME GuardInv, NEW r \in Requests, End(r), UNCHANGED users
    PROVE  GuardInv'
<1> USE ConstantsAssumption DEF GuardInv, GuardTypeOK, End
<1>1. EnabledAdmins' = EnabledAdmins
  BY DEF EnabledAdmins, EnabledAdmin
<1>2. GuardTypeOK'
  BY DEF GuardPhases
<1>3. AdminRemains'
  BY <1>1 DEF AdminRemains
<1>4. Holding'
  BY DEF Holding, Exists
<1>5. KeptAreAdmins'
  BY <1>1 DEF KeptAreAdmins
<1>6. TargetInSight'
  BY <1>1 DEF TargetInSight
<1>7. PassedTheGuard'
  BY DEF PassedTheGuard
<1>8. QED
  BY <1>2, <1>3, <1>4, <1>5, <1>6, <1>7

\* Passing the guard: the target is not the only admin kept.
LEMMA PassGuardInv ==
    ASSUME GuardInv, NEW r \in Requests, Pass(r)
    PROVE  GuardInv'
<1> USE ConstantsAssumption DEF GuardInv, GuardTypeOK
<1>0. /\ phase[r] = "locking"
      /\ awaits[r] = NoUser
      /\ todo[r] = {}
      /\ kept[r] # {target[r]}
      /\ phase' = [phase EXCEPT ![r] = "updating"]
      /\ awaits' = [awaits EXCEPT ![r] = target[r]]
      /\ UNCHANGED <<users, locks, op, target, todo, kept>>
  BY DEF Pass, AllLocked, LastAdmin
<1>1. EnabledAdmins' = EnabledAdmins
  BY <1>0 DEF EnabledAdmins, EnabledAdmin
<1>2. GuardTypeOK'
  BY <1>0 DEF GuardPhases
<1>3. AdminRemains'
  BY <1>1 DEF AdminRemains
<1>4. Holding'
  BY <1>0 DEF Holding, Exists
<1>5. KeptAreAdmins'
  BY <1>0, <1>1 DEF KeptAreAdmins
<1>6. TargetInSight'
  <2>1. target[r] \in EnabledAdmins => target[r] \in kept[r]
    BY <1>0 DEF TargetInSight, Holding
  <2>2. QED
    BY <1>0, <1>1, <2>1 DEF TargetInSight
<1>7. PassedTheGuard'
  BY <1>0 DEF PassedTheGuard
<1>8. QED
  BY <1>2, <1>3, <1>4, <1>5, <1>6, <1>7

\* The update: of the enabled admins only the target can go.  If it is one, the
\* guard kept it and another one; nobody else holds the target's row.
LEMMA UpdateGuardInv ==
    ASSUME GuardInv, NEW r \in Requests, Update(r)
    PROVE  GuardInv'
<1> USE ConstantsAssumption DEF GuardInv, GuardTypeOK, End
<1> DEFINE u == target[r]
<1>0. /\ phase[r] = "updating"
      /\ u \in Ids
      /\ users[u] \in UserRows \ {NoUserRow}
      /\ locks[u] \in {NoRequest, r}
      /\ users' = [users EXCEPT ![u] = Changed(op[r], @)]
      /\ End(r)
  BY DEF Update, Free, Holding, Exists
<1>1. /\ Changed(op[r], users[u]) \in UserRows \ {NoUserRow}
      /\ EnabledAdmins' = EnabledAdmins \ {u}
  BY <1>0, ChangedFacts DEF EnabledAdmins, EnabledAdmin
<1>2. GuardTypeOK'
  BY <1>0, <1>1 DEF GuardPhases
<1>3. AdminRemains'
  <2>1. CASE u \in EnabledAdmins
    <3>1. u \in kept[r]
      BY <1>0, <2>1 DEF TargetInSight, PassedTheGuard
    <3>2. PICK v \in kept[r] : v # u
      BY <1>0, <3>1 DEF PassedTheGuard
    <3>3. QED
      BY <1>1, <3>2 DEF AdminRemains, KeptAreAdmins
  <2>2. CASE u \notin EnabledAdmins
    BY <1>1, <2>2 DEF AdminRemains
  <2>3. QED
    BY <2>1, <2>2
<1>4. Holding'
  BY <1>0, <1>1 DEF Holding, Exists
<1>5. KeptAreAdmins'
  <2> SUFFICES ASSUME NEW q \in Requests, NEW v \in kept'[q]
               PROVE  v \in EnabledAdmins'
    BY DEF KeptAreAdmins
  <2>1. q # r /\ v \in kept[q]
    BY <1>0
  <2>2. locks[v] = q
    BY <2>1 DEF Holding
  <2>3. v # u
    BY <1>0, <2>1, <2>2
  <2>4. QED
    BY <1>1, <2>1, <2>3 DEF KeptAreAdmins
<1>6. TargetInSight'
  BY <1>0, <1>1 DEF TargetInSight
<1>7. PassedTheGuard'
  BY <1>0 DEF PassedTheGuard
<1>8. QED
  BY <1>2, <1>3, <1>4, <1>5, <1>6, <1>7

\* A new account: nobody's target, and one more admin or none.
LEMMA CreateUserGuardInv ==
    ASSUME GuardInv, NEW u \in Ids, NEW role \in {"admin", "user"}, CreateUser(u, role)
    PROVE  GuardInv'
<1> USE ConstantsAssumption DEF GuardInv, GuardTypeOK, requestVars
<1>0. /\ users[u] = NoUserRow
      /\ users' = [users EXCEPT ![u] = [role |-> role, disabled |-> FALSE]]
      /\ UNCHANGED <<locks, phase, op, target, todo, kept, awaits>>
  BY DEF CreateUser, Exists
<1>1. EnabledAdmins \subseteq EnabledAdmins' /\ EnabledAdmins' \subseteq EnabledAdmins \cup {u}
  BY <1>0 DEF EnabledAdmins, EnabledAdmin, NoUserRow
<1>2. GuardTypeOK'
  BY <1>0 DEF UserRows
<1>3. AdminRemains'
  BY <1>1 DEF AdminRemains
<1>4. Holding'
  BY <1>0 DEF Holding, Exists, NoUserRow
<1>5. KeptAreAdmins'
  BY <1>0, <1>1 DEF KeptAreAdmins
<1>6. TargetInSight'
  <2>1. \A q \in Requests : phase[q] # "idle" => target[q] # u
    BY <1>0 DEF Holding, Exists
  <2>2. QED
    BY <1>0, <1>1, <2>1 DEF TargetInSight
<1>7. PassedTheGuard'
  BY <1>0 DEF PassedTheGuard
<1>8. QED
  BY <1>2, <1>3, <1>4, <1>5, <1>6, <1>7

\* A promotion or an enabling of somebody no request is about.
LEMMA GrantGuardInv ==
    ASSUME GuardInv, NEW u \in Ids, ~UnderChange(u), EnableUser(u) \/ PromoteUser(u)
    PROVE  GuardInv'
<1> USE ConstantsAssumption DEF GuardInv, GuardTypeOK, requestVars
<1>0. /\ users[u] \in [role: {"admin", "user"}, disabled: BOOLEAN]
      /\ UNCHANGED <<locks, phase, op, target, todo, kept, awaits>>
  BY DEF EnableUser, PromoteUser, Exists, UserRows
<1>a. PICK new \in [role: {"admin", "user"}, disabled: BOOLEAN] :
        /\ users' = [users EXCEPT ![u] = new]
        /\ EnabledAdmin(u) => new.role = "admin" /\ ~new.disabled
  <2>1. CASE EnableUser(u)
    <3>1. [role |-> users[u].role, disabled |-> FALSE]
            \in [role: {"admin", "user"}, disabled: BOOLEAN]
      BY <1>0
    <3>2. users' = [users EXCEPT ![u] = [role |-> users[u].role, disabled |-> FALSE]]
      BY <2>1 DEF EnableUser
    <3>3. QED
      BY <3>1, <3>2 DEF EnabledAdmin
  <2>2. CASE PromoteUser(u)
    <3>1. [role |-> "admin", disabled |-> users[u].disabled]
            \in [role: {"admin", "user"}, disabled: BOOLEAN]
      BY <1>0
    <3>2. users' = [users EXCEPT ![u] = [role |-> "admin", disabled |-> users[u].disabled]]
      BY <2>2 DEF PromoteUser
    <3>3. QED
      BY <3>1, <3>2 DEF EnabledAdmin
  <2>3. QED
    BY <2>1, <2>2
<1>1. /\ users' \in [Ids -> UserRows]
      /\ users'[u] \in [role: {"admin", "user"}, disabled: BOOLEAN]
      /\ \A v \in Ids \ {u} : users'[v] = users[v]
  BY <1>a DEF UserRows
<1>2. EnabledAdmins \subseteq EnabledAdmins' /\ EnabledAdmins' \subseteq EnabledAdmins \cup {u}
  BY <1>a, <1>1 DEF EnabledAdmins, EnabledAdmin
<1>3. GuardTypeOK'
  BY <1>0, <1>1
<1>4. AdminRemains'
  BY <1>2 DEF AdminRemains
<1>5. Holding'
  <2>1. \A v \in Ids : Exists(v) => Exists(v)'
    BY <1>1 DEF Exists, NoUserRow
  <2>2. QED
    BY <1>0, <2>1 DEF Holding
<1>6. KeptAreAdmins'
  BY <1>0, <1>2 DEF KeptAreAdmins
<1>7. TargetInSight'
  BY <1>0, <1>2 DEF TargetInSight, UnderChange
<1>8. PassedTheGuard'
  BY <1>0 DEF PassedTheGuard
<1>9. QED
  BY <1>3, <1>4, <1>5, <1>6, <1>7, <1>8

\* GuardInv holds throughout.
THEOREM AgreedGuardInv == AgreedSpec => []GuardInv
<1>1. GuardInit => GuardInv
  BY InitGuardInv
<1>2. GuardInv /\ [AgreedNext]_guardVars => GuardInv'
  <2> SUFFICES ASSUME GuardInv, [AgreedNext]_guardVars
               PROVE  GuardInv'
    OBVIOUS
  <2>1. ASSUME NEW r \in Requests, GuardedStep(r)
        PROVE  GuardInv'
    <3>1. CASE \E what \in {"disable", "demote"}, u \in Ids : Begin(r, what, u)
      BY <3>1, BeginGuardInv
    <3>2. CASE \E u \in Ids : Reach(r, u)
      BY <3>2, ReachGuardInv
    <3>3. CASE LockRow(r)
      BY <3>3, LockRowGuardInv
    <3>4. CASE Refuse(r) \/ Abort(r)
      BY <3>4, EndGuardInv DEF Refuse, Abort
    <3>5. CASE Pass(r)
      BY <3>5, PassGuardInv
    <3>6. CASE Update(r)
      BY <3>6, UpdateGuardInv
    <3>7. QED
      BY <2>1, <3>1, <3>2, <3>3, <3>4, <3>5, <3>6 DEF GuardedStep
  <2>2. CASE Creation
    BY <2>2, CreateUserGuardInv DEF Creation
  <2>3. CASE \E u \in Ids : ~UnderChange(u) /\ (EnableUser(u) \/ PromoteUser(u))
    BY <2>3, GrantGuardInv
  <2>4. CASE UNCHANGED guardVars
    <3>1. UNCHANGED <<users, locks, phase, op, target, todo, kept, awaits>>
      BY <2>4 DEF guardVars, requestVars
    <3>2. EnabledAdmins' = EnabledAdmins /\ \A u \in Ids : Exists(u)' = Exists(u)
      BY <3>1 DEF EnabledAdmins, EnabledAdmin, Exists
    <3>3. GuardTypeOK' /\ AdminRemains'
      BY <3>1, <3>2 DEF GuardInv, GuardTypeOK, AdminRemains
    <3>4. Holding'
      BY <3>1, <3>2 DEF GuardInv, Holding, Exists
    <3>5. KeptAreAdmins' /\ TargetInSight' /\ PassedTheGuard'
      BY <3>1, <3>2 DEF GuardInv, KeptAreAdmins, TargetInSight, PassedTheGuard
    <3>6. QED
      BY <3>3, <3>4, <3>5 DEF GuardInv
  <2>5. QED
    BY <2>1, <2>2, <2>3, <2>4 DEF AgreedNext
<1>3. QED
  BY <1>1, <1>2, PTL DEF AgreedSpec

\* The last-admin guard does what it is for (repository_identity.py:153-171):
\* however many requests lock, wait for and re-read the admins' rows at once, an
\* enabled admin is left.
THEOREM AgreedAdminRemains == AgreedSpec => []AdminRemains
<1>1. GuardInv => AdminRemains
  BY DEF GuardInv
<1>2. QED
  BY <1>1, AgreedGuardInv, PTL

=============================================================================
