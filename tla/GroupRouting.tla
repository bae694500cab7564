---------------------------- MODULE GroupRouting ----------------------------
(***************************************************************************)
(* Messages of one Telegram group on their way to the agents of one user   *)
(* of fastclaw (internal/gateway/routing.go and dedup.go, fed by           *)
(* channels/telegram.go).  Every bot of the group receives its own copy of *)
(* a post; the copies meet in one map keyed by chat, author and text, and  *)
(* the first one is routed by the bindings of the account it came to.      *)
(* Time is a tick of the map's clock.                                      *)
(***************************************************************************)
EXTENDS Naturals, Sequences, FiniteSets

CONSTANTS Agents, Accounts,   \* an account is a bot of the group, and its user name
          Texts,
          MaxPosts,           \* bound: posts in the group
          TTL,                \* dedupTTL
          Spread,             \* ticks between the first and the last copy of a post
          AnyAccount, Nobody  \* no account in a binding; no mention, no agent

ASSUME GroupAssumption == Agents # {} /\ MaxPosts \in Nat /\ TTL \in Nat /\ Spread \in Nat

VARIABLES bindings, team,     \* the configuration of the user
          posts,              \* the posts, with the ticks since they were made
          delivered,          \* which account received its copy of which post
          inbound,            \* the copies on the bus
          seen,               \* g.dedup: text |-> ticks since it was stored
          heard, asked        \* times an agent was shown a post, or given it to answer

config == <<bindings, team>>
traffic == <<posts, delivered, inbound>>
groupVars == <<config, traffic, seen, heard, asked>>

Binding == [agent : Agents, account : Accounts \cup {AnyAccount}]
Bindings == UNION {[1..n -> Binding] : n \in 0..2}      \* bound: two bindings
Team == [members : SUBSET Agents, behavior : {"mention-only", "default-agent"},
         default : Agents \cup {Nobody}]
Post == [text : Texts, mention : Accounts \cup {Nobody}, bot : BOOLEAN, age : Nat]
Made == DOMAIN posts

GroupInit ==
  /\ bindings \in Bindings
  /\ team \in Team
  /\ posts = <<>> /\ delivered = {} /\ inbound = <<>>
  /\ seen = [t \in {} |-> 0]
  /\ heard = [p \in 1..MaxPosts |-> [a \in Agents |-> 0]]
  /\ asked = [p \in 1..MaxPosts |-> [a \in Agents |-> 0]]

-----------------------------------------------------------------------------
(* The rules of routing.go.                                                *)

MatchBinding(b, account) == b.account \in {AnyAccount, account}

\* The default agent is the first of the space; without bindings it is bound.
DefaultAgent == CHOOSE a \in Agents : TRUE

\* agentsBoundToMessage
Bound(account) ==
  IF bindings = <<>> THEN {DefaultAgent}
  ELSE {bindings[i].agent : i \in {j \in DOMAIN bindings : MatchBinding(bindings[j], account)}}

\* boundAgents[0]
FirstBound(account) ==
  IF bindings = <<>> THEN DefaultAgent
  ELSE LET match == {j \in DOMAIN bindings : MatchBinding(bindings[j], account)}
       IN bindings[CHOOSE j \in match : \A k \in match : j <= k].agent

\* buildBotUsernames: of several bindings of an agent, the last names its bot;
\* a binding without an account has no bot to ask for a name.
UserName(a) ==
  LET named == {j \in DOMAIN bindings : bindings[j].agent = a /\ bindings[j].account # AnyAccount}
  IN IF named = {} THEN Nobody ELSE bindings[CHOOSE j \in named : \A k \in named : k <= j].account

\* agentByMention, among the agents bound to this copy
Mentioned(mention, account) ==
  LET hit == {a \in Bound(account) : mention # Nobody /\ UserName(a) = mention}
  IN IF hit = {} THEN Nobody ELSE CHOOSE a \in hit : TRUE

\* groupBehaviorFor: a team that all bound agents belong to
TeamAnswers(account) == Bound(account) \subseteq team.members /\ team.behavior = "default-agent"

\* Who is given the post to answer, None if it is only shown.
Target(p, account) ==
  LET m == Mentioned(posts[p].mention, account) IN
  CASE Bound(account) = {} -> Nobody
    [] m # Nobody -> m
    [] Bound(account) # {} /\ m = Nobody /\ ~posts[p].bot /\ TeamAnswers(account) ->
         IF team.default = Nobody THEN FirstBound(account) ELSE team.default
    [] OTHER -> Nobody

\* Who is only shown the post: a bot's post goes into every history.
Shown(p, account) ==
  IF posts[p].bot THEN Bound(account) ELSE Bound(account) \ {Target(p, account)}

-----------------------------------------------------------------------------
Write(text, mention, bot) ==
  /\ Len(posts) < MaxPosts
  /\ posts' = Append(posts, [text |-> text, mention |-> mention, bot |-> bot, age |-> 0])
  /\ UNCHANGED <<config, delivered, inbound, seen, heard, asked>>

\* handleUpdate of the account's bot
Deliver(p, account) ==
  /\ p \in Made /\ <<p, account>> \notin delivered /\ posts[p].age <= Spread
  /\ delivered' = delivered \cup {<<p, account>>}
  /\ inbound' = Append(inbound, <<p, account>>)
  /\ UNCHANGED <<config, posts, seen, heard, asked>>

\* The account's channel row has no owner, or cannot be read.
Unowned ==
  /\ inbound # <<>>
  /\ inbound' = Tail(inbound)
  /\ UNCHANGED <<config, posts, delivered, seen, heard, asked>>

\* Mutant: the key holds the message id, which every bot numbers for itself.
NeverDuplicate(text) == FALSE
IsDuplicate(text) == text \in DOMAIN seen

Ignore ==
  /\ inbound # <<>> /\ IsDuplicate(posts[Head(inbound)[1]].text)
  /\ inbound' = Tail(inbound)
  /\ UNCHANGED <<config, posts, delivered, seen, heard, asked>>

\* routeGroup shows the post and submits it.
RouteGroup(p, account) ==
  /\ heard' = [heard EXCEPT ![p] =
       [a \in Agents |-> @[a] + IF a \in Shown(p, account) THEN 1 ELSE 0]]
  /\ asked' = [asked EXCEPT ![p] =
       [a \in Agents |-> @[a] + IF a = Target(p, account) THEN 1 ELSE 0]]

\* isDuplicate stores the key, also when the user's space then fails to load.
Accept ==
  /\ inbound # <<>>
  /\ LET p == Head(inbound)[1]
         account == Head(inbound)[2]
     IN /\ ~IsDuplicate(posts[p].text)
        /\ seen' = [t \in DOMAIN seen \cup {posts[p].text} |->
                      IF t = posts[p].text THEN 0 ELSE seen[t]]
        /\ RouteGroup(p, account) \/ UNCHANGED <<heard, asked>>
  /\ inbound' = Tail(inbound)
  /\ UNCHANGED <<config, posts, delivered>>

Expired(t) == seen[t] > TTL

CleanupDedup ==
  /\ \E t \in DOMAIN seen : Expired(t)
  /\ seen' = [t \in {u \in DOMAIN seen : ~Expired(u)} |-> seen[t]]
  /\ UNCHANGED <<config, traffic, heard, asked>>

\* The bus is drained between ticks; ages stop where they no longer matter.
Tick ==
  /\ posts # <<>> /\ inbound = <<>>
  /\ \E t \in DOMAIN seen : seen[t] <= TTL
  /\ posts' = [p \in Made |-> [posts[p] EXCEPT !.age = IF @ > Spread THEN @ ELSE @ + 1]]
  /\ seen' = [t \in DOMAIN seen |-> IF seen[t] > TTL THEN seen[t] ELSE seen[t] + 1]
  /\ UNCHANGED <<config, delivered, inbound, heard, asked>>

GroupNext ==
  \/ \E text \in Texts, mention \in Accounts \cup {Nobody}, bot \in BOOLEAN : Write(text, mention, bot)
  \/ \E p \in Made, account \in Accounts : Deliver(p, account)
  \/ Unowned \/ Ignore \/ Accept \/ CleanupDedup \/ Tick

GroupSpec == GroupInit /\ [][GroupNext]_groupVars

-----------------------------------------------------------------------------
\* Properties.

\* Every variable holds a value of its field.
GroupTypeOK ==
  /\ bindings \in Bindings /\ team \in Team
  /\ posts \in Seq(Post) /\ Len(posts) <= MaxPosts
  /\ delivered \subseteq Made \X Accounts
  /\ inbound \in Seq(delivered)
  /\ DOMAIN seen \subseteq Texts
  /\ \A p \in 1..MaxPosts : heard[p] \in [Agents -> Nat] /\ asked[p] \in [Agents -> Nat]

\* A post that all bots of the group receive is one post to the agents: one of
\* them at most answers it, and each has it in its history at most once,
\* however the copies are spread over the lifetime of the map's entry.  (What a
\* bot wrote is in the history of the agent it asks twice.)
HeardOnce ==
  \A p \in Made :
    /\ \A a \in Agents : heard[p][a] + (IF posts[p].bot THEN 0 ELSE asked[p][a]) <= 1
    /\ \A a, b \in Agents : asked[p][a] > 0 /\ asked[p][b] > 0 => a = b
    /\ \A a \in Agents : asked[p][a] <= 1
=============================================================================
