---------------------------- MODULE ChatEffects ----------------------------
(***************************************************************************)
(* What follows the commit of a reply (modules/chat/workflow.ts): the      *)
(* deferred effects of one user's turns with one character, which unlock   *)
(* achievements and titles (modules/achievements/service.ts) and rewrite   *)
(* the memories (modules/memory/service.ts).  Each statement commits by    *)
(* itself; the effects of two turns overlap, and a process may die between *)
(* two statements.  A run is claimed by the id of the reply, which is new  *)
(* for every turn, so a run that failed or stopped is not taken up again.  *)
(*                                                                         *)
(* A memory is the set of words it says; one group of type and script is   *)
(* modelled.                                                               *)
(***************************************************************************)
EXTENDS Naturals, Sequences

CONSTANTS Effects,       \* those looked at; no "memory" with useRoleplayAgents
          Contents,      \* contents of memories, sets of words
          Obsolete,      \* one of them: a content of the old extractor
          LevelStep,     \* replies to the next bond level (10)
          ManyMessages,  \* user messages for message_count_10
          MaxTurns, MaxFaults,  \* bounds: replies, statements that fail
          MaxUnanswered,   \* bound: user messages without a reply before the next
          MaxSuggestions   \* bound: memories a turn suggests

AllEffects == {"memory", "achievement"}

ASSUME EffectsAssumption ==
  /\ Effects \subseteq AllEffects
  /\ LevelStep \in Nat \ {0} /\ ManyMessages \in Nat
  /\ MaxTurns \in Nat /\ MaxFaults \in Nat
  /\ MaxUnanswered \in Nat /\ MaxSuggestions \in Nat
  /\ Obsolete \in Contents

Turns == 1..MaxTurns
Codes == {"first_chat", "bond_level_2", "message_count_10"}
WithTitle == {"first_chat", "bond_level_2"}

VARIABLES said, answered, bond,   \* user messages, replies, and those that count for the bond
          run,           \* chat_effect_runs
          step,            \* each effect of each turn
          rules, fresh, won,      \* candidateRules, newCodes, rows its insert returned
          seeded,        \* achievements and titles the catalogue has
          unlocked, titles,       \* user_achievements; user_titles, by their code
          announced,     \* times a code was returned
          candidates, plan,       \* memories a turn suggests; toDelete and toInsert
          memories,
          faults,
          owed,          \* history: codes due when a reply that unlocks was last committed
          met,           \* history: have two rewrites of the memories overlapped?
          newest         \* history: the last suggestion of the last rewrite, or {}

counts == <<said, answered, bond>>
unlocking == <<rules, fresh, won, seeded, unlocked, titles, announced>>
remembering == <<plan, memories, met, newest>>
effectVars == <<counts, run, step, unlocking, candidates, remembering, faults, owed>>

Lists == UNION {[1..n -> Contents] : n \in 0..MaxSuggestions}
Row == [by : 0..MaxTurns, content : Contents]
NoPlan == [del |-> {}, ins |-> {}]

EffectInit ==
  /\ said = 0 /\ answered = 0 /\ bond = 0
  /\ run = [t \in Turns |-> [e \in AllEffects |-> "none"]]
  /\ step = [t \in Turns |-> [e \in AllEffects |-> "idle"]]
  /\ rules = [t \in Turns |-> {}] /\ fresh = [t \in Turns |-> {}] /\ won = [t \in Turns |-> {}]
  /\ seeded = {} /\ unlocked = {} /\ titles = {}
  /\ announced = [c \in Codes |-> 0]
  /\ candidates = [t \in Turns |-> <<>>] /\ plan = [t \in Turns |-> NoPlan]
  /\ memories \in {{}, {[by |-> 0, content |-> Obsolete]}}
  /\ faults = 0
  /\ owed = {} /\ met = FALSE /\ newest = {}

Advance(t, e, next) == step' = [step EXCEPT ![t][e] = next]
At(t, e, now) == step[t][e] = now

-----------------------------------------------------------------------------
Reached(n, least) == n >= least

\* evaluateAchievementRules
Earned(messages, replies, exp) ==
  (IF Reached(replies, 1) THEN {"first_chat"} ELSE {})
  \cup (IF Reached(exp \div LevelStep + 1, 2) THEN {"bond_level_2"} ELSE {})
  \cup (IF Reached(messages, ManyMessages) THEN {"message_count_10"} ELSE {})

Due(messages, replies, exp) ==
  (IF replies >= 1 THEN {"first_chat"} ELSE {})
  \cup (IF exp >= LevelStep THEN {"bond_level_2"} ELSE {})
  \cup (IF messages >= ManyMessages THEN {"message_count_10"} ELSE {})

\* A reply is committed, after user messages that may have got none; a reply that was blocked,
\* out of scope or a fallback earns nothing and has no effects.
Reply ==
  /\ answered < MaxTurns
  /\ answered' = answered + 1
  /\ \E n \in 0..MaxUnanswered : said' = said + n + 1
  /\ \/ /\ bond' = bond + 1
        /\ step' = [step EXCEPT ![answered + 1] = [e \in AllEffects |-> IF e \in Effects THEN "claim" ELSE "idle"]]
        /\ owed' = IF "achievement" \in Effects THEN Due(said', answered', bond') ELSE owed
        /\ IF "memory" \in Effects
           THEN \E cs \in Lists : candidates' = [candidates EXCEPT ![answered + 1] = cs]
           ELSE UNCHANGED candidates
     \/ UNCHANGED <<bond, step, owed, candidates>>
  /\ UNCHANGED <<run, unlocking, remembering, faults>>

\* claimEffectRun.  A running row with an expired lease could be claimed too;
\* nobody asks for the same reply again.
Claim(t, e) ==
  /\ At(t, e, "claim")
  /\ IF run[t][e] \in {"none", "failed"}
     THEN run' = [run EXCEPT ![t][e] = "running"] /\ Advance(t, e, "read")
     ELSE UNCHANGED run /\ Advance(t, e, "idle")
  /\ UNCHANGED <<counts, unlocking, candidates, remembering, faults, owed>>

-----------------------------------------------------------------------------
(* unlockAchievementsForChat                                               *)

Evaluate(t) ==
  /\ At(t, "achievement", "read")
  /\ rules' = [rules EXCEPT ![t] = Earned(said, answered, bond)]
  /\ Advance(t, "achievement", IF rules'[t] = {} THEN "complete" ELSE "seed")
  /\ UNCHANGED <<counts, run, fresh, won, seeded, unlocked, titles, announced, candidates, remembering, faults, owed>>

\* ensureAchievementRulesSeeded: unique names, and what exists is left alone.
Seed(t) ==
  /\ At(t, "achievement", "seed")
  /\ seeded' = seeded \cup rules[t]
  /\ Advance(t, "achievement", "compare")
  /\ UNCHANGED <<counts, run, rules, fresh, won, unlocked, titles, announced, candidates, remembering, faults, owed>>

\* mergeUnlockedAchievementCodes
Compare(t) ==
  /\ At(t, "achievement", "compare")
  /\ fresh' = [fresh EXCEPT ![t] = (rules[t] \cap seeded) \ unlocked]
  /\ Advance(t, "achievement", "insert")
  /\ UNCHANGED <<counts, run, rules, won, seeded, unlocked, titles, announced, candidates, remembering, faults, owed>>

\* Mutant: every new code is announced, also those another run inserted.
AllNew(t) == fresh[t]
\* onConflictDoNothing returns the rows it inserted.
Inserted(t) == fresh[t] \ unlocked

Unlock(t) ==
  /\ At(t, "achievement", "insert")
  /\ won' = [won EXCEPT ![t] = Inserted(t)]
  /\ unlocked' = unlocked \cup fresh[t]
  /\ Advance(t, "achievement", "titles")
  /\ UNCHANGED <<counts, run, rules, fresh, seeded, titles, announced, candidates, remembering, faults, owed>>

TitlesOf(codes) == codes \cap WithTitle

\* unlockTitlesForRules, for the new codes alone.
Entitle(t) ==
  /\ At(t, "achievement", "titles")
  /\ titles' = titles \cup TitlesOf(fresh[t])
  /\ Advance(t, "achievement", "complete")
  /\ UNCHANGED <<counts, run, rules, fresh, won, seeded, unlocked, announced, candidates, remembering, faults, owed>>

-----------------------------------------------------------------------------
(* extractAndUpsertMemories                                                *)

Variant(a, b) == a \subseteq b \/ b \subseteq a
Superseded(old, c) == old = Obsolete \/ Variant(old, c)

\* Mutant: what the same turn has planned already is not looked at.
PlannedStay(ins, c) == ins
StillPlanned(ins, c) == {d \in ins : ~Variant(d, c)}

\* One suggestion of the loop, given the rows read and the plan so far.
Consider(rows, p, c) ==
  LET peers == rows \ p.del
      same == {r \in peers : r.content = c}
      kept == IF same = {} THEN {} ELSE {CHOOSE r \in same : TRUE}
  IN IF c = Obsolete \/ c \in p.ins THEN p
     ELSE [del |-> p.del \cup {r \in peers \ kept : Superseded(r.content, c)},
           ins |-> StillPlanned(p.ins, c) \cup (IF same = {} THEN {c} ELSE {})]

\* The loop, over what a turn suggests.
Planned(rows, cs) ==
  LET after[i \in 0..Len(cs)] == IF i = 0 THEN NoPlan ELSE Consider(rows, after[i - 1], cs[i])
  IN after[Len(cs)]

\* The suggestions that count, and the last of them.
Told(cs) == {i \in 1..Len(cs) : cs[i] # Obsolete}
LastTold(cs) == cs[CHOOSE i \in Told(cs) : \A j \in Told(cs) : j <= i]

Rewriting(t) == step[t]["memory"] \in {"delete", "insert"}

Remember(t) ==
  /\ At(t, "memory", "read")
  /\ plan' = [plan EXCEPT ![t] = Planned(memories, candidates[t])]
  /\ Advance(t, "memory", "delete")
  /\ met' = (met \/ \E u \in Turns \ {t} : Rewriting(u))
  /\ newest' = IF Told(candidates[t]) = {} THEN newest ELSE LastTold(candidates[t])
  /\ UNCHANGED <<counts, run, unlocking, candidates, memories, faults, owed>>

Forget(t) ==
  /\ At(t, "memory", "delete")
  /\ memories' = memories \ plan[t].del
  /\ Advance(t, "memory", "insert")
  /\ UNCHANGED <<counts, run, unlocking, candidates, plan, met, newest, faults, owed>>

Insert(t) ==
  /\ At(t, "memory", "insert")
  /\ memories' = memories \cup {[by |-> t, content |-> c] : c \in plan[t].ins}
  /\ Advance(t, "memory", "complete")
  /\ UNCHANGED <<counts, run, unlocking, candidates, plan, met, newest, faults, owed>>

-----------------------------------------------------------------------------
\* markEffectRunCompleted; then the codes are returned.
Complete(t, e) ==
  /\ At(t, e, "complete")
  /\ run' = [run EXCEPT ![t][e] = "completed"]
  /\ announced' = [c \in Codes |-> announced[c] + IF e = "achievement" /\ c \in won[t] THEN 1 ELSE 0]
  /\ Advance(t, e, "idle")
  /\ UNCHANGED <<counts, rules, fresh, won, seeded, unlocked, titles, candidates, remembering, faults, owed>>

\* A statement fails: the effect is marked failed; the marks and the claim are
\* outside of settle, and end it.
StatementFails(t, e) ==
  /\ step[t][e] # "idle" /\ faults < MaxFaults
  /\ faults' = faults + 1
  /\ Advance(t, e, IF step[t][e] \in {"claim", "complete", "fail"} THEN "idle" ELSE "fail")
  /\ UNCHANGED <<counts, run, unlocking, candidates, remembering, owed>>

\* markEffectRunFailed
MarkFailed(t, e) ==
  /\ At(t, e, "fail")
  /\ run' = [run EXCEPT ![t][e] = "failed"]
  /\ Advance(t, e, "idle")
  /\ UNCHANGED <<counts, unlocking, candidates, remembering, faults, owed>>

Crash ==
  /\ faults < MaxFaults /\ \E t \in Turns, e \in AllEffects : step[t][e] # "idle"
  /\ faults' = faults + 1
  /\ step' = [t \in Turns |-> [e \in AllEffects |-> "idle"]]
  /\ UNCHANGED <<counts, run, unlocking, candidates, remembering, owed>>

Effect(t) ==
  \/ \E e \in Effects : Claim(t, e) \/ Complete(t, e) \/ StatementFails(t, e) \/ MarkFailed(t, e)
  \/ Evaluate(t) \/ Seed(t) \/ Compare(t) \/ Unlock(t) \/ Entitle(t)
  \/ Remember(t) \/ Forget(t) \/ Insert(t)

EffectNext == Reply \/ Crash \/ \E t \in Turns : Effect(t)

EffectSpec == EffectInit /\ [][EffectNext]_effectVars

-----------------------------------------------------------------------------
\* Properties.

\* Every variable holds a value of its column or local variable.
EffectTypeOK ==
  /\ answered \in 0..MaxTurns /\ said \in 0..((MaxUnanswered + 1) * MaxTurns) /\ bond \in 0..answered
  /\ run \in [Turns -> [AllEffects -> {"none", "running", "failed", "completed"}]]
  /\ step \in [Turns -> [AllEffects -> {"idle", "claim", "read", "seed", "compare", "insert", "titles",
                                      "delete", "complete", "fail"}]]
  /\ rules \in [Turns -> SUBSET Codes] /\ fresh \in [Turns -> SUBSET Codes] /\ won \in [Turns -> SUBSET Codes]
  /\ seeded \subseteq Codes /\ unlocked \subseteq seeded /\ titles \subseteq WithTitle
  /\ announced \in [Codes -> Nat]
  /\ candidates \in [Turns -> Lists]
  /\ \A t \in Turns : plan[t].del \subseteq Row /\ plan[t].ins \subseteq Contents
  /\ memories \subseteq Row
  /\ faults \in 0..MaxFaults
  /\ owed \subseteq Codes /\ met \in BOOLEAN /\ newest \in Contents \cup {{}}

Resting(e) == \A t \in Turns : step[t][e] = "idle"

\* However the effects of turns overlap, once they have ended every achievement
\* that was due when the last of their replies was committed is unlocked, and
\* every achievement that has a title has given it.  (A failure between the two
\* rows loses the title: the code is no longer new to later turns.)  And it is
\* announced by one turn at most, the one that unlocked it.
UnlocksCatchUp ==
  /\ faults = 0 /\ Resting("achievement") => owed \subseteq unlocked /\ unlocked \cap WithTitle \subseteq titles
  /\ \A c \in Codes : announced[c] <= 1 /\ (announced[c] = 1 => c \in unlocked)

\* A new fact replaces its old wordings: while rewrites do not overlap or
\* fail, no memory is a wording of another or an obsolete one beside new ones,
\* and the last suggestion is remembered.  (Two rewrites at a time may both
\* write it; one that dies half-way has deleted what it was to replace.)
MemoriesAreCurrent ==
  ~met /\ faults = 0 =>
    /\ \A r, s \in memories : r # s => ~Superseded(r.content, s.content)
    /\ Resting("memory") /\ newest # {} => \E r \in memories : r.content = newest
=============================================================================
