----------------------------- MODULE UserSpaces -----------------------------
(***************************************************************************)
(* The user spaces of fastclaw (internal/gateway/userspace.go): what a     *)
(* replica loads of a user's settings and agents, cached under one lock,   *)
(* and dropped by the handlers of internal/setup when they have written    *)
(* and by the sweep of idle spaces.  A handler drops the spaces it names,  *)
(* which are not always those that read what it wrote; handlers of other   *)
(* replicas drop nothing here.                                             *)
(***************************************************************************)
EXTENDS Naturals, FiniteSets

CONSTANTS Users, Requests,
          MaxChanges,    \* bound: settings written
          Absent         \* no space, no request

ASSUME ChangesAssumption == MaxChanges \in Nat
ASSUME AbsentAssumption == Absent \notin Nat \cup Requests \cup Users

VARIABLES setting,       \* per user: changes committed that concern the space
          published,     \* per user: those committed when the space was last invalidated
          targets,       \* users the handler at work has still to invalidate
          listed,        \* has it listed them?
          spaces,        \* per user: the changes the cached space has seen, or None
          writer,        \* the request that holds the write lock
          stage, user, got, \* per request: its step, its user, the space it has
          before         \* per request: published when it began

handler == <<setting, published, targets, listed>>
request == <<stage, user, got, before>>
spaceVars == <<handler, spaces, writer, request>>

SpaceInit ==
  /\ setting = [u \in Users |-> 0] /\ published = [u \in Users |-> 0]
  /\ targets = {} /\ listed = TRUE
  /\ spaces = [u \in Users |-> Absent] /\ writer = Absent
  /\ stage = [r \in Requests |-> "idle"] /\ user = [r \in Requests |-> Absent]
  /\ got = [r \in Requests |-> Absent] /\ before = [r \in Requests |-> 0]

Proceed(r, next) == stage' = [stage EXCEPT ![r] = next]
Changes == CHOOSE n \in 0..MaxChanges : \A u \in Users : setting[u] <= n /\ \E v \in Users : setting[v] = n

-----------------------------------------------------------------------------
\* A handler commits a change that the spaces of readers have read, and names the
\* spaces it will drop: a system change names all there are, and lists them first.
Commit(readers, named) ==
  /\ targets = {} /\ Changes < MaxChanges
  /\ setting' = [u \in Users |-> IF u \in readers THEN setting[u] + 1 ELSE setting[u]]
  /\ targets' = named /\ listed' = (named # Users)
  /\ UNCHANGED <<published, spaces, writer, request>>

\* invalidateScope: all for the system's scope; for a user's the user; for an
\* agent's its owner, though a super_admin who chats with the agent has it in a
\* space of his own and the settings page writes entries of agents of others;
\* and nobody when the agents cannot be listed or the handler fails half-way.
ChangeSystem == Commit(Users, Users)
ChangeScope(u, readers) == u \in readers /\ (Commit(readers, {u}) \/ Commit(readers, {}))

\* What a super_admin saves of the tools and plugins, acting as nobody, is the
\* system's: the first drops the space of the caller, the second none.
SaveTools(u) == Commit({u}, {u}) \/ Commit(Users, {u})
UpdatePlugin(u) == Commit({u}, {}) \/ Commit(Users, {})

\* Mutant: the lock is taken only to store what was loaded.
NotWaited == TRUE
Unlocked == writer = Absent

\* ReloadAgents lists the spaces there are: a user without one needs nothing.
ListSpaces ==
  /\ ~listed /\ Unlocked
  /\ targets' = {u \in Users : spaces[u] # Absent}
  /\ published' = [u \in Users |-> IF spaces[u] = Absent THEN setting[u] ELSE published[u]]
  /\ listed' = TRUE
  /\ UNCHANGED <<setting, spaces, writer, request>>

\* invalidate
Invalidate(u) ==
  /\ listed /\ u \in targets /\ Unlocked
  /\ spaces' = [spaces EXCEPT ![u] = Absent]
  /\ targets' = targets \ {u} /\ published' = [published EXCEPT ![u] = setting[u]]
  /\ UNCHANGED <<setting, listed, writer, request>>

\* evictIdle
EvictIdle(u) ==
  /\ spaces[u] # Absent /\ Unlocked
  /\ spaces' = [spaces EXCEPT ![u] = Absent]
  /\ UNCHANGED <<handler, writer, request>>

-----------------------------------------------------------------------------
Begin(r, u) ==
  /\ stage[r] = "idle"
  /\ user' = [user EXCEPT ![r] = u] /\ before' = [before EXCEPT ![r] = published[u]]
  /\ Proceed(r, "get")
  /\ UNCHANGED <<handler, spaces, writer, got>>

Give(r, sp) == got' = [got EXCEPT ![r] = sp] /\ Proceed(r, "got")

\* get, under the read lock; the write lock it takes next is for lastUsed alone,
\* of an entry that may have been dropped meanwhile.
Get(r) ==
  /\ stage[r] = "get" /\ Unlocked
  /\ IF spaces[user[r]] # Absent
     THEN Give(r, spaces[user[r]])
     ELSE Proceed(r, "lock") /\ UNCHANGED got
  /\ UNCHANGED <<handler, spaces, writer, user, before>>

\* getOrLoad looks again under the write lock, and keeps it
LookAgain(r) ==
  /\ stage[r] = "lock" /\ Unlocked
  /\ IF spaces[user[r]] # Absent
     THEN Give(r, spaces[user[r]]) /\ UNCHANGED writer
     ELSE writer' = r /\ Proceed(r, "read") /\ UNCHANGED got
  /\ UNCHANGED <<handler, spaces, user, before>>

\* while loadUserSpace reads the settings and agents, or fails,
ReadSettings(r) ==
  /\ stage[r] = "read"
  /\ \/ got' = [got EXCEPT ![r] = setting[user[r]]] /\ Proceed(r, "store") /\ UNCHANGED writer
     \/ writer' = Absent /\ Proceed(r, "got") /\ UNCHANGED got
  /\ UNCHANGED <<handler, spaces, user, before>>

Store(r) ==
  /\ stage[r] = "store"
  /\ spaces' = [spaces EXCEPT ![user[r]] = got[r]]
  /\ writer' = Absent /\ Proceed(r, "got")
  /\ UNCHANGED <<handler, user, got, before>>

Respond(r) ==
  /\ stage[r] = "got"
  /\ got' = [got EXCEPT ![r] = Absent] /\ Proceed(r, "idle")
  /\ user' = [user EXCEPT ![r] = Absent] /\ before' = [before EXCEPT ![r] = 0]
  /\ UNCHANGED <<handler, spaces, writer>>

SpaceNext ==
  \/ ChangeSystem \/ ListSpaces
  \/ \E u \in Users : \/ SaveTools(u) \/ UpdatePlugin(u) \/ \E readers \in SUBSET Users : ChangeScope(u, readers)
                      \/ Invalidate(u) \/ EvictIdle(u) \/ \E r \in Requests : Begin(r, u)
  \/ \E r \in Requests : Get(r) \/ LookAgain(r) \/ ReadSettings(r) \/ Store(r) \/ Respond(r)

SpaceSpec == SpaceInit /\ [][SpaceNext]_spaceVars

-----------------------------------------------------------------------------
\* Properties.

\* Every variable holds a value of its field.
SpaceTypeOK ==
  /\ setting \in [Users -> 0..MaxChanges] /\ published \in [Users -> 0..MaxChanges]
  /\ targets \subseteq Users /\ listed \in BOOLEAN
  /\ spaces \in [Users -> 0..MaxChanges \cup {Absent}] /\ writer \in Requests \cup {Absent}
  /\ stage \in [Requests -> {"idle", "get", "lock", "read", "store", "got"}] /\ user \in [Requests -> Users \cup {Absent}]
  /\ got \in [Requests -> 0..MaxChanges \cup {Absent}] /\ before \in [Requests -> 0..MaxChanges]

\* What an invalidation is worth: a request that begins after a space was
\* invalidated here gets one that has seen all changes committed by then, also
\* when others are loading the old one meanwhile, or drop it.  Of a change whose
\* handler does not name the space nothing is said: the cached copy then lags
\* behind the database until it is dropped for another reason.
SpaceIsFresh == \A r \in Requests : got[r] # Absent => got[r] >= before[r]

(* The registry's write lock, which every other request and handler waits  *)
(* for, is held by a request that is loading and needs no lock to go on:   *)
(* also when the load fails, and whatever is invalidated meanwhile.        *)
LoaderHoldsLock ==
  /\ writer # Absent => writer \in Requests /\ stage[writer] \in {"read", "store"}
  /\ \A r \in Requests : stage[r] \in {"read", "store"} => writer = r
=============================================================================
