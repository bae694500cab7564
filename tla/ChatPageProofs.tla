--------------------------- MODULE ChatPageProofs ---------------------------
(***************************************************************************)
(* What the chat page promises, for any number of messages, taps and lost  *)
(* answers: its input opens again, it shows the messages of its scope, a   *)
(* reply it has shown stays, and what it asks for is bounded by what the   *)
(* user does.                                                              *)
(***************************************************************************)
EXTENDS ChatPage, FiniteSetTheorems, TLAPS

\* A mode without a session is told from every history.
NoSessionIsApart == NoSession \notin SUBSET PageMessage

\* The types, without the bounds on how much is asked for.
Types ==
  /\ stored \in [Modes -> (SUBSET PageMessage) \cup {NoSession}] /\ withdrawn \in BOOLEAN
  /\ phase \in {"loading", "ready", "failed", "left"}
  /\ mode \in Modes /\ known \in BOOLEAN /\ canSend \in BOOLEAN
  /\ messages \subseteq PageMessage
  /\ loading \in BOOLEAN /\ switching \in BOOLEAN /\ sending \in BOOLEAN
  /\ loads \subseteq Load /\ requested \in Nat \ {0} /\ loadId \in Nat
  /\ sent \in 0..MaxSends /\ sentIn \in [Sends -> Modes \cup {NoSession}]
  /\ served \in [Sends -> {"none", "sent", "stored", "replied", "blocked", "mismatch", "unavailable"}]
  /\ link \in [Sends -> {"none", "open", "drained", "lookup", "closed"}]
  /\ finished \subseteq Sends /\ silent \subseteq Sends

\* Messages are sent in order; what is done was replied to, and its stream ends
\* after it.
SendsInOrder ==
  /\ sending => sent # 0
  /\ \A n \in Sends :
       /\ n <= sent => sentIn[n] \in Modes
       /\ n > sent => link[n] = "none" /\ served[n] = "none"
       /\ n \in finished => n <= sent /\ link[n] \notin {"none", "open"} /\ served[n] = "replied"
       /\ link[n] = "drained" => n \in finished

\* A history that was read is one.
GotIsThere == \A l \in loads : l.kind = "history" /\ l.back => l.got # NoSession

-----------------------------------------------------------------------------
(* Steps.                                                                  *)

\* One step: an answer, a message on its way, or the user's.
LEMMA PageSteps ==
  ASSUME [PageNext]_pageVars
  PROVE  \/ phase # "left" /\ \E l \in loads : Answer(l)
         \/ \E n \in Sends : \/ Done(n) \/ Refused(n) \/ Breaks(n) \/ Lookup(n)
                             \/ Closes(n) \/ EndsSilently(n) \/ Server(n)
         \/ Withdraw \/ RetryPage \/ ScrollUp \/ SwitchMode \/ Retry \/ Send \/ LeavePage
         \/ UNCHANGED pageVars
  BY DEF PageNext, Arrives, Heard, Connection

\* Messages that are over were sent.
LEMMA OverBounds ==
  ASSUME Types, SendsInOrder
  PROVE  Over \in 0..sent /\ Over \in 0..MaxSends /\ sent \in 0..MaxSends
<1>1. Over \in 0..sent
  BY PageAssumption DEF Over, Types, SendsInOrder
<1> QED
  BY <1>1, PageAssumption DEF Types

\* A new request is a request.
LEMMA NewLoadType ==
  ASSUME Types,
         NEW kind \in {"list", "history", "earlier"},
         NEW why \in {"boot", "switch", "retry", "refused", "scroll"},
         NEW m \in Modes, NEW id \in Nat, NEW over \in 0..MaxSends
  PROVE  NewLoad(kind, why, m, id, over) \in Load
<1>1. requested + 1 \in Nat \ {0}
  BY DEF Types
<1> QED
  BY <1>1 DEF NewLoad, Load

\* What loadSessionHistory does keeps the types.
LEMMA LoadSessionType ==
  ASSUME Types, NEW why \in {"boot", "switch", "retry", "refused", "scroll"},
         NEW m \in Modes, NEW old, NEW over \in 0..MaxSends, LoadSession(why, m, old, over)
  PROVE  loads' \subseteq Load /\ requested' \in Nat \ {0} /\ loadId' \in Nat /\ loading' \in BOOLEAN
<1>1. NewLoad("history", why, m, loadId + 1, over) \in Load
  <2>1. loadId + 1 \in Nat
    BY DEF Types
  <2> QED
    BY <2>1, NewLoadType
<1> QED
  BY <1>1 DEF LoadSession, Types

LEMMA AskType ==
  ASSUME Types, SendsInOrder, NEW kind \in {"list", "history", "earlier"},
         NEW why \in {"boot", "switch", "retry", "refused", "scroll"},
         NEW m \in Modes, NEW id \in Nat, Ask(kind, why, m, id)
  PROVE  loads' \subseteq Load /\ requested' \in Nat \ {0}
<1>1. NewLoad(kind, why, m, id, Over) \in Load
  BY NewLoadType, OverBounds
<1> QED
  BY <1>1 DEF Ask, Types

\* The types hold at first.
LEMMA TypesInit == PageInit => Types /\ SendsInOrder
<1> SUFFICES ASSUME PageInit PROVE Types /\ SendsInOrder
  OBVIOUS
<1>1. PICK some \in SUBSET Modes :
        stored = [m \in Modes |-> IF m \in some THEN {Older(m), Said(m, 0, "recent")} ELSE NoSession]
  BY DEF PageInit
<1>2. \A m \in Modes : {Older(m), Said(m, 0, "recent")} \subseteq PageMessage
  BY PageAssumption DEF Older, Said, PageMessage
<1>3. stored \in [Modes -> (SUBSET PageMessage) \cup {NoSession}]
  BY <1>1, <1>2
<1>4. known \in BOOLEAN /\ mode \in Modes
  BY DEF PageInit
<1>5. loads \subseteq Load
  <2>1. loadId \in Nat
    BY DEF PageInit
  <2>2. [kind |-> IF known THEN "history" ELSE "list", why |-> "boot", mode |-> mode,
         id |-> loadId, no |-> 1, since |-> 0, back |-> FALSE, got |-> NoSession, open |-> TRUE] \in Load
    BY <2>1, <1>4, PageAssumption DEF Load
  <2> QED
    BY <2>2 DEF PageInit
<1>6. loading \in BOOLEAN
  <2>1. loading = known
    BY DEF PageInit
  <2> QED
    BY <2>1, <1>4
<1>7. /\ sentIn \in [Sends -> Modes \cup {NoSession}]
      /\ served \in [Sends -> {"none", "sent", "stored", "replied", "blocked", "mismatch", "unavailable"}]
      /\ link \in [Sends -> {"none", "open", "drained", "lookup", "closed"}]
  BY DEF PageInit
<1>8. loadId \in Nat /\ requested \in Nat \ {0} /\ sent \in 0..MaxSends
  BY PageAssumption DEF PageInit
<1>9. Types
  BY <1>3, <1>4, <1>5, <1>6, <1>7, <1>8 DEF PageInit, Types
<1>10. SendsInOrder
  BY PageAssumption DEF PageInit, SendsInOrder, Sends
<1> QED
  BY <1>9, <1>10
-----------------------------------------------------------------------------
(* The types.                                                              *)

\* Whoever goes on leaves the page in one of its phases.
LEMMA ResumeType ==
  ASSUME Types, NEW l \in loads, NEW failed \in BOOLEAN, Resume(l, failed)
  PROVE  phase' \in {"loading", "ready", "failed", "left"} /\ switching' \in BOOLEAN
<1>1. phase' \in {"loading", "ready", "failed", "left"}
  <2>1. CASE l.why # "boot"
    BY <2>1 DEF Resume, Types
  <2>2. CASE l.why = "boot" /\ failed /\ known
    BY <2>2 DEF Resume
  <2>3. CASE l.why = "boot" /\ ~(failed /\ known)
    BY <2>3 DEF Resume
  <2> QED
    BY <2>1, <2>2, <2>3 DEF Types
<1> QED
  BY <1>1 DEF Resume, Types

LEMMA FillType ==
  ASSUME Types, NEW n \in Sends, sentIn[n] \in Modes
  PROVE  Fill(n) \subseteq PageMessage
<1>1. Said(sentIn[n], n, "reply") \in PageMessage
  BY DEF Said, PageMessage, Sends
<1> QED
  BY <1>1 DEF Fill, Types

LEMMA WindowType == ASSUME NEW h, h \subseteq PageMessage PROVE Window(h) \subseteq PageMessage
  BY DEF Window

\* What comes back is a request.
LEMMA ServeType ==
  ASSUME Types, NEW l \in loads, Serve(l)
  PROVE  loads' \subseteq Load
<1>1. PICK r : r = [l EXCEPT !.back = TRUE, !.got = stored[l.mode], !.open = ~(withdrawn /\ l.mode = Script)]
  OBVIOUS
<1>2. l \in Load /\ stored[l.mode] \in (SUBSET PageMessage) \cup {NoSession}
  BY DEF Types, Load
<1>3. r \in Load
  BY <1>1, <1>2 DEF Load
<1> QED
  BY <1>1, <1>3 DEF Serve, Types

\* What is asked for and on its way is typed after every answer.
LEMMA TypesAnswer ==
  ASSUME NoSessionIsApart, Types, SendsInOrder, GotIsThere, NEW l \in loads, Answer(l)
  PROVE  Types'
<1> l \in Load
  BY DEF Types
<1>1. CASE Serve(l)
  <2>1. loads' \subseteq Load
    BY <1>1, ServeType
  <2> QED
    BY <1>1, <2>1 DEF Serve, Types, server, scope, window, flags, sends
<1>2. CASE ListFound(l)
  <2>1. loads' \subseteq Load /\ requested' \in Nat \ {0} /\ loadId' \in Nat /\ loading' \in BOOLEAN
    <3>1. l.why \in {"boot", "switch", "retry", "refused", "scroll"} /\ l.mode \in Modes
      BY DEF Load
    <3> QED
      BY <1>2, <3>1, OverBounds, LoadSessionType DEF ListFound
  <2> QED
    BY <1>2, <2>1 DEF ListFound, Types, server, scope, sends
<1>3. CASE ListEmpty(l)
  <2>1. phase' \in {"loading", "ready", "failed", "left"} /\ switching' \in BOOLEAN
    BY <1>3, ResumeType DEF ListEmpty
  <2> QED
    BY <1>3, <2>1 DEF ListEmpty, Types, Load, server, sends
<1>4. CASE History(l)
  <2>1. phase' \in {"loading", "ready", "failed", "left"} /\ switching' \in BOOLEAN
    <3>1. (~Current(l)) \in BOOLEAN
      OBVIOUS
    <3> QED
      BY <1>4, <3>1, ResumeType DEF History
  <2>2. CASE Current(l)
    <3>1. l.got \in SUBSET PageMessage /\ l.mode \in Modes /\ l.open \in BOOLEAN
      BY <1>4 DEF History, GotIsThere, Load
    <3>2. messages' \subseteq PageMessage
      BY <1>4, <2>2, <3>1, WindowType DEF History
    <3>3. mode' \in Modes /\ known' \in BOOLEAN /\ canSend' \in BOOLEAN /\ loading' \in BOOLEAN
      BY <1>4, <2>2, <3>1 DEF History
    <3> QED
      BY <1>4, <2>1, <3>2, <3>3 DEF History, Types, server, sends
  <2>3. CASE ~Current(l)
    BY <1>4, <2>1, <2>3 DEF History, Types, server, scope, sends
  <2> QED
    BY <2>2, <2>3
<1>5. CASE Earlier(l)
  <2>1. Older(l.mode) \in PageMessage
    BY PageAssumption DEF Older, Said, PageMessage, Load
  <2>2. messages' \subseteq PageMessage
    BY <1>5, <2>1 DEF Earlier, Types
  <2> QED
    BY <1>5, <2>2 DEF Earlier, Types, server, scope, sends
<1>6. CASE LoadFails(l)
  <2>1. phase' \in {"loading", "ready", "failed", "left"} /\ switching' \in BOOLEAN
    BY <1>6, ResumeType DEF LoadFails
  <2> QED
    BY <1>6, <2>1 DEF LoadFails, Types, server, scope, sends
<1> QED
  BY <1>1, <1>2, <1>3, <1>4, <1>5, <1>6 DEF Answer

\* So is it after what happens to a message,
LEMMA TypesMessage ==
  ASSUME Types, SendsInOrder, NEW n \in Sends,
         \/ Done(n) \/ Refused(n) \/ Breaks(n) \/ Lookup(n)
         \/ Closes(n) \/ EndsSilently(n) \/ Server(n)
  PROVE  Types'
<1>1. ASSUME link[n] # "none" PROVE n <= sent /\ sentIn[n] \in Modes
  <2>1. n \in Nat /\ sent \in Nat
    BY PageAssumption DEF Sends, Types
  <2> QED
    BY <1>1, <2>1 DEF SendsInOrder
<1>2. CASE Done(n)
  <2>1. sentIn[n] \in Modes
    BY <1>1, <1>2 DEF Done
  <2>2. messages' \subseteq PageMessage
    BY <1>2, <2>1, FillType DEF Done
  <2> QED
    BY <1>2, <2>1, <2>2 DEF Done, Types, server, flags, asking
<1>3. CASE Refused(n)
  <2>1. messages' \subseteq PageMessage
    BY <1>3 DEF Refused, Types
  <2>2. sending' \in BOOLEAN /\ canSend' \in BOOLEAN /\ link' \in [Sends -> {"none", "open", "drained", "lookup", "closed"}]
    BY <1>3 DEF Refused, Types, SendingAfterRefusal
  <2>3. loads' \subseteq Load /\ requested' \in Nat \ {0} /\ loadId' \in Nat /\ loading' \in BOOLEAN
    <3>1. CASE served[n] # "blocked" /\ known
      <4>1. mode \in Modes /\ "refused" \in {"boot", "switch", "retry", "refused", "scroll"}
        BY DEF Types
      <4>2. LoadSession("refused", mode, {}, sent) /\ sent \in 0..MaxSends
        BY <1>3, <3>1, OverBounds DEF Refused
      <4> QED
        BY <4>1, <4>2, LoadSessionType
    <3>2. CASE ~(served[n] # "blocked" /\ known)
      BY <1>3, <3>2 DEF Refused, Types
    <3> QED
      BY <3>1, <3>2
  <2> QED
    BY <1>3, <2>1, <2>2, <2>3 DEF Refused, Types, server
<1>4. CASE Breaks(n)
  BY <1>4 DEF Breaks, Types, server, scope, window, flags, asking
<1>5. CASE Lookup(n)
  <2>1. sentIn[n] \in Modes
    BY <1>1, <1>5 DEF Lookup
  <2>2. messages' \subseteq PageMessage /\ mode' \in Modes /\ known' \in BOOLEAN
    BY <1>5, <2>1, FillType DEF Lookup, Types
  <2> QED
    BY <1>5, <2>2 DEF Lookup, Types, server, flags, asking
<1>6. CASE Closes(n)
  BY <1>6 DEF Closes, Types, server, scope, window, flags, asking
<1>7. CASE EndsSilently(n)
  BY <1>7 DEF EndsSilently, Types, server, scope, window, flags, asking
<1>8. CASE Server(n)
  <2>1. served[n] \in {"sent", "stored"} => sentIn[n] \in Modes
    <3>1. n \in Nat /\ sent \in Nat
      BY PageAssumption DEF Sends, Types
    <3> QED
      BY <3>1 DEF SendsInOrder
  <2>2. ASSUME NEW role \in {"user", "reply"}, sentIn[n] \in Modes, Keep(n, role)
        PROVE  stored' \in [Modes -> (SUBSET PageMessage) \cup {NoSession}]
    <3>1. Said(sentIn[n], n, role) \in PageMessage
      BY <2>2 DEF Said, PageMessage, Sends
    <3> QED
      BY <2>2, <3>1 DEF Keep, Types
  <2>3. /\ stored' \in [Modes -> (SUBSET PageMessage) \cup {NoSession}]
        /\ served' \in [Sends -> {"none", "sent", "stored", "replied", "blocked", "mismatch", "unavailable"}]
    <3>1. CASE served[n] = "sent" /\ Keep(n, "user") /\ served' = [served EXCEPT ![n] = "stored"]
      BY <2>1, <2>2, <3>1 DEF Types
    <3>2. CASE served[n] = "stored" /\ Keep(n, "reply") /\ served' = [served EXCEPT ![n] = "replied"]
      BY <2>1, <2>2, <3>2 DEF Types
    <3>3. ASSUME NEW e \in Refusals(n), UNCHANGED stored /\ served' = [served EXCEPT ![n] = e]
          PROVE  /\ stored' \in [Modes -> (SUBSET PageMessage) \cup {NoSession}]
                 /\ served' \in [Sends -> {"none", "sent", "stored", "replied", "blocked", "mismatch", "unavailable"}]
      BY <3>3 DEF Refusals, Types
    <3> QED
      BY <1>8, <3>1, <3>2, <3>3 DEF Server, Serves
  <2> QED
    BY <1>8, <2>3 DEF Server, Types, scope, window, flags, asking, sends
<1> QED
  BY <1>2, <1>3, <1>4, <1>5, <1>6, <1>7, <1>8

\* and after what the user does.
LEMMA TypesUser ==
  ASSUME Types, SendsInOrder,
         Withdraw \/ RetryPage \/ ScrollUp \/ SwitchMode \/ Retry \/ Send \/ LeavePage \/ UNCHANGED pageVars
  PROVE  Types'
<1> mode \in Modes
  BY DEF Types
<1>1. CASE Withdraw
  BY <1>1 DEF Withdraw, Types, scope, window, flags, asking, sends
<1>2. CASE RetryPage
  <2>1. loads' \subseteq Load /\ requested' \in Nat \ {0} /\ loadId' \in Nat /\ loading' \in BOOLEAN
    BY <1>2, OverBounds, LoadSessionType DEF RetryPage
  <2> QED
    BY <1>2, <2>1 DEF RetryPage, Types, server, scope, sends
<1>3. CASE ScrollUp
  <2>1. loads' \subseteq Load /\ requested' \in Nat \ {0}
    <3>1. loadId \in Nat /\ Ask("earlier", "scroll", mode, loadId)
      BY <1>3 DEF ScrollUp, Types
    <3> QED
      BY <3>1, AskType
  <2> QED
    BY <1>3, <2>1 DEF ScrollUp, Types, server, scope, window, sends
<1>4. CASE SwitchMode
  <2>1. loads' \subseteq Load /\ requested' \in Nat \ {0}
    <3>1. PICK m \in Modes : Ask("list", "switch", m, 0)
      BY <1>4 DEF SwitchMode
    <3> QED
      BY <3>1, AskType
  <2> QED
    BY <1>4, <2>1 DEF SwitchMode, Types, server, scope, sends
<1>5. CASE Retry
  <2>1. loads' \subseteq Load /\ requested' \in Nat \ {0} /\ loadId' \in Nat /\ loading' \in BOOLEAN
    <3>1. CASE known
      BY <1>5, <3>1, OverBounds, LoadSessionType DEF Retry
    <3>2. CASE ~known
      <4>1. Ask("list", "retry", mode, 0) /\ UNCHANGED <<loading, loadId>>
        BY <1>5, <3>2 DEF Retry
      <4> QED
        BY <4>1, AskType DEF Types
    <3> QED
      BY <3>1, <3>2
  <2> QED
    BY <1>5, <2>1 DEF Retry, Types, server, scope, sends
<1>6. CASE Send
  <2>1. sent + 1 \in Sends /\ sent + 1 \in 0..MaxSends
    BY <1>6, PageAssumption DEF Send, Types, Sends
  <2>2. messages' \subseteq PageMessage
    BY <1>6, <2>1 DEF Send, Types, Said, PageMessage, Sends
  <2> QED
    BY <1>6, <2>1, <2>2 DEF Send, Types, scope, flags, asking
<1>7. CASE LeavePage
  BY <1>7 DEF LeavePage, Types, server, scope, window, flags, asking, sends
<1>8. CASE UNCHANGED pageVars
  BY <1>8 DEF pageVars, Types, server, scope, window, flags, asking, sends
<1> QED
  BY <1>1, <1>2, <1>3, <1>4, <1>5, <1>6, <1>7, <1>8

\* Sends stay in order.
LEMMA SendsStay ==
  ASSUME Types, SendsInOrder, [PageNext]_pageVars
  PROVE  SendsInOrder'
<1>1. CASE UNCHANGED <<sent, sentIn, served, link, finished, sending>>
  BY <1>1 DEF SendsInOrder
<1>2. ASSUME NEW l \in loads, Answer(l)
      PROVE  UNCHANGED <<sent, sentIn, served, link, finished, sending>>
  BY <1>2 DEF Answer, Serve, ListFound, ListEmpty, History, Earlier, LoadFails, sends, server
<1>3. ASSUME Withdraw \/ RetryPage \/ ScrollUp \/ SwitchMode \/ Retry \/ LeavePage \/ UNCHANGED pageVars
      PROVE  UNCHANGED <<sent, sentIn, served, link, finished, sending>>
  BY <1>3 DEF Withdraw, RetryPage, ScrollUp, SwitchMode, Retry, LeavePage, pageVars, sends, server
<1>4. \A n \in Sends : n \in Nat /\ sent \in Nat /\ n # 0
  BY PageAssumption DEF Sends, Types
<1>5. CASE Send
  BY <1>4, <1>5, PageAssumption DEF Send, SendsInOrder, Types, Sends
<1>6. ASSUME NEW n \in Sends,
             \/ Done(n) \/ Refused(n) \/ Breaks(n) \/ Lookup(n)
             \/ Closes(n) \/ EndsSilently(n) \/ Server(n)
      PROVE  SendsInOrder'
  <2>1. CASE Done(n)
    BY <1>4, <2>1 DEF Done, SendsInOrder, Types, server
  <2>2. CASE Refused(n)
    BY <1>4, <2>2 DEF Refused, SendsInOrder, Types, server, SendingAfterRefusal
  <2>3. CASE Breaks(n)
    BY <1>4, <2>3 DEF Breaks, SendsInOrder, Types, server
  <2>4. CASE Lookup(n)
    BY <1>4, <2>4 DEF Lookup, SendsInOrder, Types, server
  <2>5. CASE Closes(n)
    BY <1>4, <2>5 DEF Closes, SendsInOrder, Types, server
  <2>6. CASE EndsSilently(n)
    BY <1>4, <2>6 DEF EndsSilently, SendsInOrder, Types, server
  <2>7. CASE Server(n)
    <3>1. served[n] \in {"sent", "stored"} /\ UNCHANGED <<sent, sentIn, link, finished, sending>>
      BY <2>7 DEF Server, Serves, sends
    <3>2. PICK e : served' = [served EXCEPT ![n] = e]
      BY <2>7 DEF Server, Serves
    <3> QED
      BY <1>4, <3>1, <3>2 DEF SendsInOrder, Types
  <2> QED
    BY <1>6, <2>1, <2>2, <2>3, <2>4, <2>5, <2>6, <2>7
<1> QED
  BY <1>1, <1>2, <1>3, <1>5, <1>6, PageSteps

-----------------------------------------------------------------------------
(* What the server has.                                                    *)

Reply(n) == Said(sentIn[n], n, "reply")
Bubble(n) == Said(sentIn[n], n, "bubble")

\* A session holds the messages of its mode.
Histories == \A m \in Modes : stored[m] # NoSession => \A x \in stored[m] : x.mode = m

\* A message that was stored has a session, and a reply that was stored is in it.
SentIsStored ==
  \A n \in Sends :
    /\ served[n] \in {"stored", "replied"} => stored[sentIn[n]] # NoSession
    /\ served[n] = "replied" => Reply(n) \in stored[sentIn[n]]

\* A session that the page knows exists.
KnownIsStored == known => stored[mode] # NoSession

\* What a load has read is there, and only a scroll asks for older messages.
GotIsStored ==
  \A l \in loads :
    /\ l.kind = "history" => stored[l.mode] # NoSession
    /\ l.back /\ l.got # NoSession => stored[l.mode] # NoSession /\ l.got \subseteq stored[l.mode]
    /\ l.kind = "earlier" => l.why = "scroll"

\* Sessions only grow.
Grown == \A m \in Modes : stored[m] # NoSession => stored'[m] # NoSession /\ stored[m] \subseteq stored'[m]

LEMMA KeepGrows ==
  ASSUME NoSessionIsApart, Types, Histories, NEW n \in Sends, sentIn[n] \in Modes,
         NEW role \in {"user", "reply"}, Keep(n, role)
  PROVE  /\ Grown /\ Histories'
         /\ stored'[sentIn[n]] # NoSession /\ Said(sentIn[n], n, role) \in stored'[sentIn[n]]
<1> DEFINE m == sentIn[n]
           old == IF stored[m] = NoSession THEN {} ELSE stored[m]
           new == old \cup {Said(m, n, role)}
<1>1. m \in Modes /\ old \in SUBSET PageMessage
  BY DEF Types
<1>2. Said(m, n, role) \in PageMessage
  BY <1>1 DEF Said, PageMessage, Sends
<1>3. new \in SUBSET PageMessage /\ new # NoSession
  <2>1. new \in SUBSET PageMessage
    BY <1>1, <1>2
  <2> QED
    BY <2>1 DEF NoSessionIsApart
<1>4. stored' = [stored EXCEPT ![m] = new]
  BY DEF Keep
<1>5. \A x \in new : x.mode = m
  BY <1>1 DEF Histories, Said
<1>6. \A k \in Modes : stored'[k] = IF k = m THEN new ELSE stored[k]
  BY <1>1, <1>4 DEF Types
<1> HIDE DEF new
<1>7. Histories'
  BY <1>5, <1>6 DEF Histories
<1>8. stored[m] # NoSession => stored[m] \subseteq new
  BY DEF new
<1>9. Grown
  BY <1>3, <1>6, <1>8 DEF Grown
<1>10. Said(m, n, role) \in new
  BY DEF new
<1> QED
  BY <1>1, <1>3, <1>6, <1>7, <1>9, <1>10

\* What the server does leaves the page, and changes one message.
LEMMA ServerStep ==
  ASSUME NoSessionIsApart, Types, SendsInOrder, Histories, SentIsStored, NEW n \in Sends, Server(n)
  PROVE  /\ Grown /\ Histories' /\ SentIsStored'
         /\ UNCHANGED <<loads, known, mode>>
<1>1. UNCHANGED <<loads, known, mode, sentIn>>
  BY DEF Server, asking, scope, sends
<1>2. served[n] \in {"sent", "stored"} => sentIn[n] \in Modes
  <2>1. n \in Nat /\ sent \in Nat
    BY PageAssumption DEF Sends, Types
  <2> QED
    BY <2>1 DEF SendsInOrder
<1>3. \A k \in Sends : served[k] \in {"stored", "replied"} => sentIn[k] \in Modes
  <2>1. \A k \in Sends : k \in Nat /\ sent \in Nat
    BY PageAssumption DEF Sends, Types
  <2> QED
    BY <2>1 DEF SendsInOrder
<1>4. CASE served[n] = "sent" /\ Keep(n, "user") /\ served' = [served EXCEPT ![n] = "stored"]
  <2>1. sentIn[n] \in Modes
    BY <1>2, <1>4
  <2>2. /\ Grown /\ Histories'
        /\ stored'[sentIn[n]] # NoSession /\ Said(sentIn[n], n, "user") \in stored'[sentIn[n]]
    BY <1>4, <2>1, KeepGrows
  <2>3. SentIsStored'
    BY <1>1, <1>3, <1>4, <2>2 DEF SentIsStored, Grown, Types, Reply
  <2> QED
    BY <1>1, <2>2, <2>3
<1>5. CASE served[n] = "stored" /\ Keep(n, "reply") /\ served' = [served EXCEPT ![n] = "replied"]
  <2>1. sentIn[n] \in Modes
    BY <1>2, <1>5
  <2>2. /\ Grown /\ Histories'
        /\ stored'[sentIn[n]] # NoSession /\ Said(sentIn[n], n, "reply") \in stored'[sentIn[n]]
    BY <1>5, <2>1, KeepGrows
  <2>3. SentIsStored'
    BY <1>1, <1>3, <1>5, <2>2 DEF SentIsStored, Grown, Types, Reply
  <2> QED
    BY <1>1, <2>2, <2>3
<1>6. ASSUME NEW e \in Refusals(n), UNCHANGED stored, served' = [served EXCEPT ![n] = e]
      PROVE  /\ Grown /\ Histories' /\ SentIsStored'
  <2>1. e \notin {"stored", "replied"}
    BY <1>6 DEF Refusals
  <2> QED
    BY <1>1, <1>6, <2>1 DEF SentIsStored, Grown, Histories, Types, Reply
<1> QED
  BY <1>1, <1>4, <1>5, <1>6 DEF Server, Serves

\* Nothing else changes a session.
LEMMA ElseKeepsStored ==
  ASSUME [PageNext]_pageVars, \A n \in Sends : ~Server(n)
  PROVE  UNCHANGED stored
<1>1. ASSUME NEW l \in loads, Answer(l) PROVE UNCHANGED stored
  BY <1>1 DEF Answer, Serve, ListFound, ListEmpty, History, Earlier, LoadFails, server
<1>2. ASSUME Withdraw \/ RetryPage \/ ScrollUp \/ SwitchMode \/ Retry \/ Send \/ LeavePage \/ UNCHANGED pageVars
      PROVE  UNCHANGED stored
  BY <1>2 DEF Withdraw, RetryPage, ScrollUp, SwitchMode, Retry, Send, LeavePage, pageVars, server
<1>3. ASSUME NEW n \in Sends,
             Done(n) \/ Refused(n) \/ Breaks(n) \/ Lookup(n) \/ Closes(n) \/ EndsSilently(n)
      PROVE  UNCHANGED stored
  BY <1>3 DEF Done, Refused, Breaks, Lookup, Closes, EndsSilently, server
<1> QED
  BY <1>1, <1>2, <1>3, PageSteps

LEMMA SessionsStay ==
  ASSUME NoSessionIsApart, Types, SendsInOrder, Histories, SentIsStored, [PageNext]_pageVars
  PROVE  Grown /\ Histories' /\ SentIsStored'
<1>1. ASSUME NEW n \in Sends, Server(n) PROVE Grown /\ Histories' /\ SentIsStored'
  BY <1>1, ServerStep
<1>2. ASSUME \A n \in Sends : ~Server(n) PROVE Grown /\ Histories' /\ SentIsStored'
  <2>1. UNCHANGED stored
    BY <1>2, ElseKeepsStored
  <2>2. Grown /\ Histories'
    BY <2>1 DEF Grown, Histories
  <2>3. CASE UNCHANGED <<served, sentIn>>
    BY <2>1, <2>2, <2>3 DEF SentIsStored, Reply, Said
  <2>4. CASE Send
    <3>1. \A k \in Sends : k \in Nat /\ sent \in Nat
      BY PageAssumption DEF Sends, Types
    <3>2. /\ sentIn' = [sentIn EXCEPT ![sent + 1] = mode]
          /\ served' = [served EXCEPT ![sent + 1] = "sent"]
      BY <2>4 DEF Send
    <3>3. \A k \in Sends : served'[k] \in {"stored", "replied"} => served'[k] = served[k] /\ sentIn'[k] = sentIn[k]
      BY <3>1, <3>2 DEF Types
    <3> QED
      BY <2>1, <2>2, <3>3 DEF SentIsStored, Reply, Said
  <2>5. ASSUME NEW l \in loads, Answer(l) PROVE UNCHANGED <<served, sentIn>>
    BY <2>5 DEF Answer, Serve, ListFound, ListEmpty, History, Earlier, LoadFails, server, sends
  <2>6. ASSUME Withdraw \/ RetryPage \/ ScrollUp \/ SwitchMode \/ Retry \/ LeavePage \/ UNCHANGED pageVars
        PROVE  UNCHANGED <<served, sentIn>>
    BY <2>6 DEF Withdraw, RetryPage, ScrollUp, SwitchMode, Retry, LeavePage, pageVars, server, sends
  <2>7. ASSUME NEW n \in Sends,
               Done(n) \/ Refused(n) \/ Breaks(n) \/ Lookup(n) \/ Closes(n) \/ EndsSilently(n)
        PROVE  UNCHANGED <<served, sentIn>>
    BY <2>7 DEF Done, Refused, Breaks, Lookup, Closes, EndsSilently, server
  <2> QED
    BY <1>2, <2>2, <2>3, <2>4, <2>5, <2>6, <2>7, PageSteps
<1> QED
  BY <1>1, <1>2

-----------------------------------------------------------------------------
(* What has been asked for.                                                *)

\* A request was made with the messages over that are over now, or fewer.
LoadsAreOld == \A l \in loads : l.id <= loadId /\ l.since <= Over

\* Only one history answers to an id,
HistoriesApart == \A k, l \in loads : k.kind = "history" /\ l.kind = "history" /\ k.id = l.id => k = l

\* and the page waits for the one that it asked for last; nothing older is.
Awaited ==
  \A l \in loads : l.kind = "history" /\ l.id = loadId =>
    loading /\ \A e \in loads : e.kind = "earlier" => e.id # loadId

\* The page that is not open asks for one thing, or has failed.
Boot ==
  /\ phase = "loading" => \E l \in loads : loads = {l} /\ l.why = "boot"
  /\ phase = "failed" => known /\ loads = {}
  /\ phase = "ready" => \A l \in loads : l.why # "boot"
  /\ phase \in {"loading", "failed"} => sent = 0

LoadsInv == LoadsAreOld /\ HistoriesApart /\ Awaited

\* Messages are over only when they end.
LEMMA OverGrows ==
  ASSUME Types, SendsInOrder, [PageNext]_pageVars
  PROVE  Over' \in Nat /\ Over \in Nat /\ Over <= Over'
<1> Over \in Nat /\ Over' \in Nat /\ sent \in Nat
  <2>1. SendsInOrder' /\ sent \in Nat
    BY SendsStay, PageAssumption DEF Types
  <2>2. Over \in Nat
    BY <2>1 DEF Over, SendsInOrder
  <2>3. Over' \in Nat
    <3>1. sent' \in Nat
      <4>1. CASE Send
        BY <2>1, <4>1 DEF Send
      <4>2. CASE ~Send
        <5>1. ASSUME NEW l \in loads, Answer(l) PROVE UNCHANGED sent
          BY <5>1 DEF Answer, Serve, ListFound, ListEmpty, History, Earlier, LoadFails, sends
        <5>2. ASSUME Withdraw \/ RetryPage \/ ScrollUp \/ SwitchMode \/ Retry \/ LeavePage \/ UNCHANGED pageVars
              PROVE  UNCHANGED sent
          BY <5>2 DEF Withdraw, RetryPage, ScrollUp, SwitchMode, Retry, LeavePage, pageVars, sends
        <5>3. ASSUME NEW n \in Sends, \/ Done(n) \/ Refused(n) \/ Breaks(n) \/ Lookup(n)
                                      \/ Closes(n) \/ EndsSilently(n) \/ Server(n)
              PROVE  UNCHANGED sent
          BY <5>3 DEF Done, Refused, Breaks, Lookup, Closes, EndsSilently, Server, sends
        <5> QED
          BY <2>1, <4>2, <5>1, <5>2, <5>3, PageSteps
      <4> QED
        BY <4>1, <4>2
    <3>2. sending' => sent' # 0
      BY <2>1 DEF SendsInOrder
    <3>3. sending' \/ Over' = sent'
      BY DEF Over
    <3>4. sending' => Over' = sent' - 1
      BY DEF Over
    <3> QED
      BY <3>1, <3>2, <3>3, <3>4
  <2> QED
    BY <2>1, <2>2, <2>3
<1>1. CASE UNCHANGED <<sending, sent>>
  BY <1>1 DEF Over
<1>2. CASE Send
  BY <1>2 DEF Send, Over
<1>3. ASSUME NEW l \in loads, Answer(l) PROVE UNCHANGED <<sending, sent>>
  BY <1>3 DEF Answer, Serve, ListFound, ListEmpty, History, Earlier, LoadFails, sends
<1>4. ASSUME Withdraw \/ RetryPage \/ ScrollUp \/ SwitchMode \/ Retry \/ LeavePage \/ UNCHANGED pageVars
      PROVE  UNCHANGED <<sending, sent>>
  BY <1>4 DEF Withdraw, RetryPage, ScrollUp, SwitchMode, Retry, LeavePage, pageVars, sends
<1>5. ASSUME NEW n \in Sends, Breaks(n) \/ Closes(n) \/ EndsSilently(n) \/ Server(n)
      PROVE  UNCHANGED <<sending, sent>>
  BY <1>5 DEF Breaks, Closes, EndsSilently, Server, sends
<1>6. ASSUME NEW n \in Sends, Done(n) \/ Refused(n) \/ Lookup(n)
      PROVE  sending' = FALSE /\ sent' = sent
  BY <1>6 DEF Done, Refused, Lookup, SendingAfterRefusal
<1>7. CASE sending' = FALSE /\ sent' = sent
  BY <1>7 DEF Over
<1> QED
  BY <1>1, <1>2, <1>3, <1>4, <1>5, <1>6, <1>7, PageSteps

\* A history that is asked for is the latest.
LEMMA LoadSessionStays ==
  ASSUME Types, Types', SendsInOrder, LoadsInv, NEW why, NEW m, NEW old, NEW over, LoadSession(why, m, old, over),
         over \in Nat, over <= Over', Over <= Over', Over' \in Nat
  PROVE  LoadsInv'
<1> DEFINE new == NewLoad("history", why, m, loadId + 1, over)
<1>1. loads' = (loads \ old) \cup {new} /\ loadId' = loadId + 1 /\ loading' = TRUE
  BY DEF LoadSession
<1>2. new.id = loadId + 1 /\ new.since = over /\ new.kind = "history"
  BY DEF NewLoad
<1>3. loadId \in Nat /\ \A l \in loads : l.id \in Nat /\ l.id <= loadId /\ l.since <= Over /\ l.since \in Nat
  BY PageAssumption DEF LoadsInv, LoadsAreOld, Types, Load
<1>4. Over \in Nat
  <2>1. sent \in Nat
    BY PageAssumption DEF Types
  <2> QED
    BY <2>1 DEF Over, SendsInOrder
<1> HIDE DEF new
<1>5. LoadsAreOld'
  BY <1>1, <1>2, <1>3, <1>4 DEF LoadsAreOld
<1>6. HistoriesApart'
  BY <1>1, <1>2, <1>3 DEF LoadsInv, HistoriesApart
<1>7. Awaited'
  BY <1>1, <1>2, <1>3 DEF LoadsInv, Awaited
<1> QED
  BY <1>5, <1>6, <1>7 DEF LoadsInv

\* An answer comes back as it was asked for.
LEMMA ServedIsAsked ==
  ASSUME Types, NEW l \in loads, Serve(l)
  PROVE  \E r \in Load :
           /\ r.kind = l.kind /\ r.why = l.why /\ r.mode = l.mode /\ r.id = l.id /\ r.since = l.since
           /\ r.back = TRUE /\ r.got = stored[l.mode]
           /\ loads' = (loads \ {l}) \cup {r}
<1> DEFINE r == [l EXCEPT !.back = TRUE, !.got = stored[l.mode], !.open = ~(withdrawn /\ l.mode = Script)]
<1>1. l \in Load /\ stored[l.mode] \in (SUBSET PageMessage) \cup {NoSession}
  BY DEF Types, Load
<1>2. r \in Load /\ r.kind = l.kind /\ r.why = l.why /\ r.mode = l.mode /\ r.id = l.id
      /\ r.since = l.since /\ r.back = TRUE /\ r.got = stored[l.mode]
  BY <1>1 DEF Load
<1>3. loads' = (loads \ {l}) \cup {r}
  BY DEF Serve
<1> HIDE DEF r
<1> QED
  BY <1>2, <1>3

\* Fewer requests are none that is out of order,
LEMMA FewerLoads ==
  ASSUME Types, LoadsInv, loads' \subseteq loads, loadId' = loadId, Over \in Nat, Over' \in Nat, Over <= Over',
         \A l \in loads' : l.kind = "history" /\ l.id = loadId => loading'
  PROVE  LoadsInv'
<1>1. \A l \in loads : l.since \in Nat /\ l.since <= Over
  BY PageAssumption DEF LoadsInv, LoadsAreOld, Types, Load
<1>2. LoadsAreOld'
  BY <1>1 DEF LoadsInv, LoadsAreOld
<1>3. HistoriesApart' /\ Awaited'
  BY DEF LoadsInv, HistoriesApart, Awaited
<1> QED
  BY <1>2, <1>3 DEF LoadsInv

\* and neither is one more of another kind, of this page unless it is a list.
LEMMA AskStays ==
  ASSUME Types, SendsInOrder, LoadsInv, NEW kind \in {"list", "earlier"}, NEW why, NEW m, NEW id \in Nat,
         Ask(kind, why, m, id), id <= loadId, kind = "earlier" => ~loading,
         UNCHANGED <<loadId, loading>>, Over' \in Nat, Over <= Over', Over \in Nat
  PROVE  LoadsInv'
<1> DEFINE new == NewLoad(kind, why, m, id, Over)
<1>1. new.kind = kind /\ new.id = id /\ new.since = Over
  BY DEF NewLoad
<1>2. loads' = loads \cup {new}
  BY DEF Ask
<1>3. \A l \in loads : l.since \in Nat /\ l.since <= Over
  BY PageAssumption DEF LoadsInv, LoadsAreOld, Types, Load
<1> HIDE DEF new
<1>4. LoadsAreOld'
  BY <1>1, <1>2, <1>3 DEF LoadsInv, LoadsAreOld
<1>5. HistoriesApart'
  BY <1>1, <1>2 DEF LoadsInv, HistoriesApart
<1>6. Awaited'
  BY <1>1, <1>2 DEF LoadsInv, Awaited
<1> QED
  BY <1>4, <1>5, <1>6 DEF LoadsInv

LEMMA LoadsStay ==
  ASSUME Types, Types', SendsInOrder, LoadsInv, [PageNext]_pageVars
  PROVE  LoadsInv'
<1>1. Over' \in Nat /\ Over \in Nat /\ Over <= Over'
  BY OverGrows
<1>2. CASE UNCHANGED <<loads, loadId, loading>>
  <2>1. loads' \subseteq loads /\ \A l \in loads' : l.kind = "history" /\ l.id = loadId => loading'
    BY <1>2 DEF LoadsInv, Awaited
  <2> QED
    BY <1>1, <1>2, <2>1, FewerLoads
<1>3. ASSUME NEW l \in loads, Answer(l)
      PROVE  LoadsInv'
  <2>1. CASE Serve(l)
    <3>1. PICK r \in Load :
           /\ r.kind = l.kind /\ r.why = l.why /\ r.mode = l.mode /\ r.id = l.id /\ r.since = l.since
           /\ r.back = TRUE /\ r.got = stored[l.mode]
           /\ loads' = (loads \ {l}) \cup {r}
      BY <2>1, ServedIsAsked
    <3>2. UNCHANGED <<loadId, loading>>
      BY <2>1 DEF Serve, flags
    <3>3. \A k \in loads : k.since \in Nat /\ k.since <= Over
      BY PageAssumption DEF LoadsInv, LoadsAreOld, Types, Load
    <3>4. LoadsAreOld'
      BY <1>1, <3>1, <3>2, <3>3 DEF LoadsInv, LoadsAreOld
    <3>5. HistoriesApart'
      BY <3>1 DEF LoadsInv, HistoriesApart
    <3>6. Awaited'
      BY <3>1, <3>2 DEF LoadsInv, Awaited
    <3> QED
      BY <3>4, <3>5, <3>6 DEF LoadsInv
  <2>2. CASE ListFound(l)
    <3>1. LoadSession(l.why, l.mode, {l}, Over)
      BY <2>2 DEF ListFound
    <3> QED
      BY <1>1, <3>1, LoadSessionStays
  <2>3. CASE ListEmpty(l)
    <3>1. loads' \subseteq loads /\ loadId' = loadId /\ loading' = loading
      BY <2>3 DEF ListEmpty
    <3>2. \A k \in loads' : k.kind = "history" /\ k.id = loadId => loading'
      BY <3>1 DEF LoadsInv, Awaited
    <3> QED
      BY <1>1, <3>1, <3>2, FewerLoads
  <2>4. CASE History(l)
    <3>1. loads' = loads \ {l} /\ loadId' = loadId /\ l.kind = "history"
      BY <2>4 DEF History
    <3>2. \A k \in loads' : k.kind = "history" /\ k.id = loadId => loading'
      <4>1. CASE Current(l)
        BY <3>1, <4>1 DEF LoadsInv, HistoriesApart, Current
      <4>2. CASE ~Current(l)
        BY <2>4, <3>1, <4>2 DEF History, LoadsInv, Awaited
      <4> QED
        BY <4>1, <4>2
    <3>3. loads' \subseteq loads
      BY <3>1
    <3> QED
      BY <1>1, <3>1, <3>2, <3>3, FewerLoads
  <2>5. CASE Earlier(l)
    <3>1. loads' \subseteq loads /\ loadId' = loadId /\ loading' = loading
      BY <2>5 DEF Earlier
    <3>2. \A k \in loads' : k.kind = "history" /\ k.id = loadId => loading'
      BY <3>1 DEF LoadsInv, Awaited
    <3> QED
      BY <1>1, <3>1, <3>2, FewerLoads
  <2>6. CASE LoadFails(l)
    <3>1. loads' = loads \ {l} /\ loadId' = loadId
      BY <2>6 DEF LoadFails
    <3>2. \A k \in loads' : k.kind = "history" /\ k.id = loadId => loading'
      <4>1. CASE l.kind = "history" /\ Current(l)
        BY <3>1, <4>1 DEF LoadsInv, HistoriesApart, Current
      <4>2. CASE ~(l.kind = "history" /\ Current(l))
        BY <2>6, <3>1, <4>2 DEF LoadFails, LoadsInv, Awaited
      <4> QED
        BY <4>1, <4>2
    <3>3. loads' \subseteq loads
      BY <3>1
    <3> QED
      BY <1>1, <3>1, <3>2, <3>3, FewerLoads
  <2> QED
    BY <1>3, <2>1, <2>2, <2>3, <2>4, <2>5, <2>6 DEF Answer
<1>4. CASE RetryPage
  <2>1. LoadSession("boot", mode, {}, Over)
    BY <1>4 DEF RetryPage
  <2> QED
    BY <1>1, <2>1, LoadSessionStays
<1>5. CASE ScrollUp
  <2>1. Ask("earlier", "scroll", mode, loadId) /\ ~loading /\ UNCHANGED <<loadId, loading>>
    BY <1>5 DEF ScrollUp
  <2>2. loadId \in Nat /\ loadId <= loadId
    BY DEF Types
  <2> QED
    BY <1>1, <2>1, <2>2, AskStays
<1>6. CASE SwitchMode
  <2>1. PICK m \in Modes : Ask("list", "switch", m, 0)
    BY <1>6 DEF SwitchMode
  <2>2. UNCHANGED <<loadId, loading>> /\ 0 <= loadId
    BY <1>6 DEF SwitchMode, Types
  <2> QED
    BY <1>1, <2>1, <2>2, AskStays
<1>7. CASE Retry
  <2>1. CASE known
    BY <1>1, <1>7, <2>1, LoadSessionStays DEF Retry
  <2>2. CASE ~known
    <3>1. Ask("list", "retry", mode, 0) /\ UNCHANGED <<loadId, loading>> /\ 0 <= loadId
      BY <1>7, <2>2 DEF Retry, Types
    <3> QED
      BY <1>1, <3>1, AskStays
  <2> QED
    BY <2>1, <2>2
<1>8. ASSUME Withdraw \/ Send \/ LeavePage \/ UNCHANGED pageVars
      PROVE  UNCHANGED <<loads, loadId, loading>>
  BY <1>8 DEF Withdraw, Send, LeavePage, pageVars, flags, asking
<1>9. ASSUME NEW n \in Sends, Done(n) \/ Breaks(n) \/ Lookup(n) \/ Closes(n) \/ EndsSilently(n) \/ Server(n)
      PROVE  UNCHANGED <<loads, loadId, loading>>
  BY <1>9 DEF Done, Breaks, Lookup, Closes, EndsSilently, Server, flags, asking
<1>10. ASSUME NEW n \in Sends, Refused(n)
       PROVE  LoadsInv'
  <2>1. CASE served[n] # "blocked" /\ known
    <3>1. LoadSession("refused", mode, {}, sent)
      BY <1>10, <2>1 DEF Refused
    <3>2. sent \in Nat /\ sent <= Over'
      BY <1>1, <1>10, OverBounds DEF Refused, SendingAfterRefusal, Over
    <3> QED
      BY <1>1, <3>1, <3>2, LoadSessionStays
  <2>2. CASE ~(served[n] # "blocked" /\ known)
    <3>1. UNCHANGED <<loads, loadId, loading>>
      BY <1>10, <2>2 DEF Refused
    <3> QED
      BY <1>2, <3>1
  <2> QED
    BY <2>1, <2>2
<1> QED
  BY <1>2, <1>3, <1>4, <1>5, <1>6, <1>7, <1>8, <1>9, <1>10, PageSteps

-----------------------------------------------------------------------------
(* What has been read.                                                     *)

GotInv == GotIsStored /\ GotIsThere

LEMMA GotFewer ==
  ASSUME Types, GotInv, Grown, loads' \subseteq loads
  PROVE  GotInv'
<1>1. \A l \in loads : l.mode \in Modes
  BY DEF Types, Load
<1> QED
  BY <1>1 DEF GotInv, GotIsStored, GotIsThere, Grown

LEMMA GotLoadSession ==
  ASSUME Types, GotInv, Grown, NEW why, NEW m \in Modes, NEW old, NEW over, LoadSession(why, m, old, over), stored[m] # NoSession
  PROVE  GotInv'
<1> DEFINE new == NewLoad("history", why, m, loadId + 1, over)
<1>1. loads' = (loads \ old) \cup {new}
  BY DEF LoadSession
<1>2. new.kind = "history" /\ new.mode = m /\ new.back = FALSE
  BY DEF NewLoad
<1>3. \A l \in loads : l.mode \in Modes
  BY DEF Types, Load
<1> HIDE DEF new
<1> QED
  BY <1>1, <1>2, <1>3 DEF GotInv, GotIsStored, GotIsThere, Grown

LEMMA GotAsk ==
  ASSUME Types, GotInv, Grown, NEW kind \in {"list", "earlier"}, NEW why, NEW m, NEW id,
         Ask(kind, why, m, id), kind = "earlier" => why = "scroll"
  PROVE  GotInv'
<1> DEFINE new == NewLoad(kind, why, m, id, Over)
<1>1. loads' = loads \cup {new}
  BY DEF Ask
<1>2. new.kind = kind /\ new.back = FALSE /\ new.why = why
  BY DEF NewLoad
<1>3. \A l \in loads : l.mode \in Modes
  BY DEF Types, Load
<1> HIDE DEF new
<1> QED
  BY <1>1, <1>2, <1>3 DEF GotInv, GotIsStored, GotIsThere, Grown

\* What is read is there, and stays.
LEMMA GotStays ==
  ASSUME Types, SendsInOrder, GotInv, KnownIsStored, Boot, Grown, [PageNext]_pageVars
  PROVE  GotInv'
<1> mode \in Modes
  BY DEF Types
<1>1. CASE loads' \subseteq loads
  BY <1>1, GotFewer
<1>2. ASSUME NEW l \in loads, Answer(l)
      PROVE  GotInv'
  <2> l.mode \in Modes
    BY DEF Types, Load
  <2>1. CASE Serve(l)
    <3>1. PICK r \in Load :
           /\ r.kind = l.kind /\ r.why = l.why /\ r.mode = l.mode /\ r.id = l.id /\ r.since = l.since
           /\ r.back = TRUE /\ r.got = stored[l.mode]
           /\ loads' = (loads \ {l}) \cup {r}
      BY <2>1, ServedIsAsked
    <3>2. stored' = stored
      BY <2>1 DEF Serve, server
    <3> QED
      BY <3>1, <3>2 DEF GotInv, GotIsStored, GotIsThere
  <2>2. CASE ListFound(l)
    <3>1. LoadSession(l.why, l.mode, {l}, Over) /\ stored[l.mode] # NoSession
      BY <2>2 DEF ListFound, GotInv, GotIsStored
    <3> QED
      BY <3>1, GotLoadSession
  <2>3. CASE ListEmpty(l) \/ History(l) \/ Earlier(l) \/ LoadFails(l)
    BY <1>1, <2>3 DEF ListEmpty, History, Earlier, LoadFails
  <2> QED
    BY <1>2, <2>1, <2>2, <2>3 DEF Answer
<1>3. CASE RetryPage
  <2>1. LoadSession("boot", mode, {}, Over) /\ stored[mode] # NoSession
    BY <1>3 DEF RetryPage, Boot, KnownIsStored
  <2> QED
    BY <2>1, GotLoadSession
<1>4. CASE ScrollUp
  <2>1. Ask("earlier", "scroll", mode, loadId)
    BY <1>4 DEF ScrollUp
  <2> QED
    BY <2>1, GotAsk
<1>5. CASE SwitchMode
  <2>1. PICK m \in Modes : Ask("list", "switch", m, 0)
    BY <1>5 DEF SwitchMode
  <2> QED
    BY <2>1, GotAsk
<1>6. CASE Retry
  <2>1. CASE known
    <3>1. LoadSession("retry", mode, {}, Over) /\ stored[mode] # NoSession
      BY <1>6, <2>1 DEF Retry, KnownIsStored
    <3> QED
      BY <3>1, GotLoadSession
  <2>2. CASE ~known
    <3>1. Ask("list", "retry", mode, 0)
      BY <1>6, <2>2 DEF Retry
    <3> QED
      BY <3>1, GotAsk
  <2> QED
    BY <2>1, <2>2
<1>7. ASSUME Withdraw \/ Send \/ LeavePage \/ UNCHANGED pageVars
      PROVE  loads' \subseteq loads
  BY <1>7 DEF Withdraw, Send, LeavePage, pageVars, asking
<1>8. ASSUME NEW n \in Sends, Done(n) \/ Breaks(n) \/ Lookup(n) \/ Closes(n) \/ EndsSilently(n) \/ Server(n)
      PROVE  loads' \subseteq loads
  BY <1>8 DEF Done, Breaks, Lookup, Closes, EndsSilently, Server, asking
<1>9. ASSUME NEW n \in Sends, Refused(n)
      PROVE  GotInv'
  <2>1. CASE served[n] # "blocked" /\ known
    <3>1. LoadSession("refused", mode, {}, sent) /\ stored[mode] # NoSession
      BY <1>9, <2>1 DEF Refused, KnownIsStored
    <3> QED
      BY <3>1, GotLoadSession
  <2>2. CASE ~(served[n] # "blocked" /\ known)
    BY <1>1, <1>9, <2>2 DEF Refused
  <2> QED
    BY <2>1, <2>2
<1> QED
  BY <1>1, <1>2, <1>3, <1>4, <1>5, <1>6, <1>7, <1>8, <1>9, PageSteps

\* A session that the page knows is one that was read, or that a reply is in.
LEMMA KnownStays ==
  ASSUME Types, SendsInOrder, GotInv, KnownIsStored, SentIsStored, Grown, [PageNext]_pageVars
  PROVE  KnownIsStored'
<1>1. ASSUME UNCHANGED <<known, mode>> PROVE KnownIsStored'
  BY <1>1 DEF Types, KnownIsStored, Grown
<1>2. ASSUME NEW l \in loads, Answer(l)
      PROVE  KnownIsStored'
  <2>1. CASE ListEmpty(l)
    BY <2>1 DEF ListEmpty, KnownIsStored
  <2>2. CASE History(l)
    <3>1. CASE Current(l)
      <4>1. mode' = l.mode /\ stored[l.mode] # NoSession /\ l.mode \in Modes
        BY <2>2, <3>1 DEF History, GotInv, GotIsStored, Types, Load
      <4> QED
        BY <4>1 DEF KnownIsStored, Grown
    <3>2. CASE ~Current(l)
      BY <1>1, <2>2, <3>2 DEF History, scope
    <3> QED
      BY <3>1, <3>2
  <2>3. ASSUME Serve(l) \/ ListFound(l) \/ Earlier(l) \/ LoadFails(l)
        PROVE  UNCHANGED <<known, mode>>
    BY <2>3 DEF Serve, ListFound, Earlier, LoadFails, scope
  <2> QED
    BY <1>1, <1>2, <2>1, <2>2, <2>3 DEF Answer
<1>3. ASSUME Withdraw \/ RetryPage \/ ScrollUp \/ SwitchMode \/ Retry \/ Send \/ LeavePage \/ UNCHANGED pageVars
      PROVE  UNCHANGED <<known, mode>>
  BY <1>3 DEF Withdraw, RetryPage, ScrollUp, SwitchMode, Retry, Send, LeavePage, pageVars, scope
<1>4. ASSUME NEW n \in Sends, Refused(n) \/ Breaks(n) \/ Closes(n) \/ EndsSilently(n) \/ Server(n)
      PROVE  UNCHANGED <<known, mode>>
  BY <1>4 DEF Refused, Breaks, Closes, EndsSilently, Server, scope
<1>5. ASSUME NEW n \in Sends, Done(n) \/ Lookup(n)
      PROVE  KnownIsStored'
  <2>1. n \in Nat /\ sent \in Nat
    BY PageAssumption DEF Sends, Types
  <2>2. link[n] # "none"
    BY <1>5 DEF Done, Lookup
  <2>3. sentIn[n] \in Modes
    BY <2>1, <2>2 DEF SendsInOrder
  <2>4. CASE UNCHANGED <<known, mode>>
    BY <1>1, <2>4
  <2>5. CASE mode' = sentIn[n] /\ served[n] \in {"stored", "replied"}
    BY <2>3, <2>5 DEF SentIsStored, KnownIsStored, Grown
  <2> QED
    BY <1>5, <2>4, <2>5 DEF Done, Lookup
<1> QED
  BY <1>1, <1>2, <1>3, <1>4, <1>5, PageSteps

-----------------------------------------------------------------------------
(* The page opens, and its input does.                                     *)

\* A load that is replaced is replaced by one for the same reason.
LEMMA LoadSessionReason ==
  ASSUME NEW why, NEW m, NEW old, NEW over, LoadSession(why, m, old, over)
  PROVE  \E r : r.why = why /\ loads' = (loads \ old) \cup {r}
<1> DEFINE new == NewLoad("history", why, m, loadId + 1, over)
<1>1. new.why = why
  BY DEF NewLoad
<1>2. loads' = (loads \ old) \cup {new}
  BY DEF LoadSession
<1> HIDE DEF new
<1> QED
  BY <1>1, <1>2

LEMMA AskReason ==
  ASSUME NEW kind, NEW why, NEW m, NEW id, Ask(kind, why, m, id)
  PROVE  \E r : r.why = why /\ loads' = loads \cup {r}
<1> DEFINE new == NewLoad(kind, why, m, id, Over)
<1>1. new.why = why
  BY DEF NewLoad
<1>2. loads' = loads \cup {new}
  BY DEF Ask
<1> HIDE DEF new
<1> QED
  BY <1>1, <1>2

\* Where an answer leaves the page.
LEMMA BootResumes ==
  ASSUME Types, Boot, phase # "left", NEW l \in loads, NEW failed \in BOOLEAN, Resume(l, failed),
         loads' = loads \ {l}, sent' = sent, failed => known' = known
  PROVE  Boot'
<1>1. CASE l.why # "boot"
  <2>1. phase' = phase
    BY <1>1 DEF Resume
  <2>2. phase = "ready"
    BY <1>1 DEF Boot, Types
  <2> QED
    BY <2>1, <2>2 DEF Boot
<1>2. CASE l.why = "boot"
  <2>1. phase = "loading"
    BY <1>2 DEF Boot, Types
  <2>2. loads' = {} /\ sent' = 0
    BY <2>1 DEF Boot
  <2>3. CASE failed /\ known
    <3>1. phase' = "failed"
      BY <1>2, <2>3 DEF Resume
    <3> QED
      BY <2>2, <2>3, <3>1 DEF Boot
  <2>4. CASE ~(failed /\ known)
    <3>1. phase' = "ready"
      BY <1>2, <2>4 DEF Resume
    <3> QED
      BY <2>2, <3>1 DEF Boot
  <2> QED
    BY <2>3, <2>4
<1> QED
  BY <1>1, <1>2

LEMMA BootStays ==
  ASSUME Types, SendsInOrder, GotInv, Boot, [PageNext]_pageVars
  PROVE  Boot'
<1>1. CASE UNCHANGED <<phase, known, loads, sent>>
  BY <1>1 DEF Boot
<1>2. ASSUME phase # "left", NEW l \in loads, Answer(l)
      PROVE  Boot'
  <2>1. CASE Serve(l)
    <3>1. PICK r \in Load :
           /\ r.kind = l.kind /\ r.why = l.why /\ r.mode = l.mode /\ r.id = l.id /\ r.since = l.since
           /\ r.back = TRUE /\ r.got = stored[l.mode]
           /\ loads' = (loads \ {l}) \cup {r}
      BY <2>1, ServedIsAsked
    <3>2. UNCHANGED <<phase, known, sent>>
      BY <2>1 DEF Serve, scope, sends
    <3> QED
      BY <3>1, <3>2 DEF Boot
  <2>2. CASE ListFound(l)
    <3>1. PICK r : r.why = l.why /\ loads' = (loads \ {l}) \cup {r}
      BY <2>2, LoadSessionReason DEF ListFound
    <3>2. UNCHANGED <<phase, known, sent>>
      BY <2>2 DEF ListFound, scope, sends
    <3> QED
      BY <3>1, <3>2 DEF Boot
  <2>3. CASE ListEmpty(l)
    <3>1. Resume(l, FALSE) /\ loads' = loads \ {l} /\ sent' = sent
      BY <2>3 DEF ListEmpty, sends
    <3> QED
      BY <1>2, <3>1, BootResumes
  <2>4. CASE History(l)
    <3>1. Resume(l, ~Current(l)) /\ loads' = loads \ {l} /\ sent' = sent
      BY <2>4 DEF History, sends
    <3>2. (~Current(l)) \in BOOLEAN
      OBVIOUS
    <3>3. ~Current(l) => known' = known
      BY <2>4 DEF History, scope
    <3> QED
      BY <1>2, <3>1, <3>2, <3>3, BootResumes
  <2>5. CASE Earlier(l)
    <3>1. l.why # "boot" /\ loads' = loads \ {l} /\ UNCHANGED <<phase, known, sent>>
      BY <2>5 DEF Earlier, GotInv, GotIsStored, scope, sends
    <3>2. phase # "loading"
      BY <3>1 DEF Boot
    <3> QED
      BY <3>1, <3>2 DEF Boot
  <2>6. CASE LoadFails(l)
    <3>1. Resume(l, TRUE) /\ loads' = loads \ {l} /\ sent' = sent /\ known' = known
      BY <2>6 DEF LoadFails, sends, scope
    <3> QED
      BY <1>2, <3>1, BootResumes
  <2> QED
    BY <1>2, <2>1, <2>2, <2>3, <2>4, <2>5, <2>6 DEF Answer
<1>3. CASE RetryPage
  <2>1. PICK r : r.why = "boot" /\ loads' = (loads \ {}) \cup {r}
    BY <1>3, LoadSessionReason DEF RetryPage
  <2>2. phase = "failed" /\ phase' = "loading" /\ sent' = sent
    BY <1>3 DEF RetryPage, sends
  <2> QED
    BY <2>1, <2>2 DEF Boot
<1>4. CASE ScrollUp
  <2>1. PICK r : r.why = "scroll" /\ loads' = loads \cup {r}
    BY <1>4, AskReason DEF ScrollUp
  <2>2. phase = "ready" /\ phase' = phase
    BY <1>4 DEF ScrollUp, Ready
  <2> QED
    BY <2>1, <2>2 DEF Boot
<1>5. CASE SwitchMode
  <2>1. PICK r : r.why = "switch" /\ loads' = loads \cup {r}
    BY <1>5, AskReason DEF SwitchMode
  <2>2. phase = "ready" /\ phase' = phase
    BY <1>5 DEF SwitchMode, Ready
  <2> QED
    BY <2>1, <2>2 DEF Boot
<1>6. CASE Retry
  <2>1. phase = "ready" /\ phase' = phase
    BY <1>6 DEF Retry, Ready
  <2>2. \E r : r.why = "retry" /\ loads' = loads \cup {r}
    <3>1. CASE known
      <4>1. PICK r : r.why = "retry" /\ loads' = (loads \ {}) \cup {r}
        BY <1>6, <3>1, LoadSessionReason DEF Retry
      <4> QED
        BY <4>1
    <3>2. CASE ~known
      BY <1>6, <3>2, AskReason DEF Retry
    <3> QED
      BY <3>1, <3>2
  <2> QED
    BY <2>1, <2>2 DEF Boot
<1>7. CASE LeavePage
  BY <1>7 DEF LeavePage, Boot
<1>8. CASE Send
  BY <1>8 DEF Send, Ready, Boot, scope, asking
<1>9. ASSUME Withdraw \/ UNCHANGED pageVars
      PROVE  UNCHANGED <<phase, known, loads, sent>>
  BY <1>9 DEF Withdraw, pageVars, asking, scope, sends
<1>10. ASSUME NEW n \in Sends, Breaks(n) \/ Closes(n) \/ EndsSilently(n) \/ Server(n)
       PROVE  UNCHANGED <<phase, known, loads, sent>>
  BY <1>10 DEF Breaks, Closes, EndsSilently, Server, asking, scope, sends
<1>11. ASSUME NEW n \in Sends, Done(n) \/ Lookup(n) \/ Refused(n)
       PROVE  Boot'
  <2>1. n \in Nat /\ sent \in Nat /\ n # 0
    BY PageAssumption DEF Sends, Types
  <2>2. link[n] # "none"
    BY <1>11 DEF Done, Lookup, Refused
  <2>3. sent # 0
    BY <2>1, <2>2 DEF SendsInOrder
  <2>4. phase' = phase /\ phase \in {"ready", "left"}
    BY <1>11, <2>3 DEF Done, Lookup, Refused, Boot, Types
  <2>5. CASE Done(n) \/ Lookup(n)
    <3>1. UNCHANGED loads
      BY <2>5 DEF Done, Lookup, asking
    <3> QED
      BY <2>4, <3>1 DEF Boot
  <2>6. CASE Refused(n)
    <3>1. CASE served[n] # "blocked" /\ known
      <4>1. PICK r : r.why = "refused" /\ loads' = (loads \ {}) \cup {r}
        BY <2>6, <3>1, LoadSessionReason DEF Refused
      <4> QED
        BY <2>4, <4>1 DEF Boot
    <3>2. CASE ~(served[n] # "blocked" /\ known)
      <4>1. UNCHANGED loads
        BY <2>6, <3>2 DEF Refused
      <4> QED
        BY <2>4, <4>1 DEF Boot
    <3> QED
      BY <3>1, <3>2
  <2> QED
    BY <1>11, <2>5, <2>6
<1> QED
  BY <1>1, <1>2, <1>3, <1>4, <1>5, <1>6, <1>7, <1>8, <1>9, <1>10, <1>11, PageSteps

\* While a message is on its way its stream says so, or ended without a word.
SendIsAnswered == sending => sent \in Sends /\ (link[sent] \in {"open", "lookup"} \/ sent \in silent)

SwitchIsAwaited == switching => \E l \in loads : l.why = "switch"

LEMMA SendStaysAnswered ==
  ASSUME Types, SendsInOrder, SendIsAnswered, [PageNext]_pageVars
  PROVE  SendIsAnswered'
<1>1. CASE UNCHANGED <<sending, sent, link, silent>>
  BY <1>1 DEF SendIsAnswered
<1>2. ASSUME NEW l \in loads, Answer(l)
      PROVE  UNCHANGED <<sending, sent, link, silent>>
  BY <1>2 DEF Answer, Serve, ListFound, ListEmpty, History, Earlier, LoadFails, sends
<1>3. ASSUME Withdraw \/ RetryPage \/ ScrollUp \/ SwitchMode \/ Retry \/ LeavePage \/ UNCHANGED pageVars
      PROVE  UNCHANGED <<sending, sent, link, silent>>
  BY <1>3 DEF Withdraw, RetryPage, ScrollUp, SwitchMode, Retry, LeavePage, pageVars, sends
<1>4. CASE Send
  <2>1. sent + 1 \in Sends
    BY <1>4, PageAssumption DEF Send, Types, Sends
  <2> QED
    BY <1>4, <2>1 DEF Send, SendIsAnswered, Types
<1>5. ASSUME NEW n \in Sends, Done(n) \/ Refused(n) \/ Lookup(n)
      PROVE  sending' = FALSE
  BY <1>5 DEF Done, Refused, Lookup, SendingAfterRefusal
<1>6. CASE sending' = FALSE
  BY <1>6 DEF SendIsAnswered
<1>7. ASSUME NEW n \in Sends, Breaks(n)
      PROVE  SendIsAnswered'
  BY <1>7 DEF Breaks, SendIsAnswered, Types
<1>8. ASSUME NEW n \in Sends, Closes(n)
      PROVE  SendIsAnswered'
  BY <1>8 DEF Closes, SendIsAnswered, Types
<1>9. ASSUME NEW n \in Sends, EndsSilently(n)
      PROVE  SendIsAnswered'
  BY <1>9 DEF EndsSilently, SendIsAnswered, Types
<1>10. ASSUME NEW n \in Sends, Server(n)
       PROVE  UNCHANGED <<sending, sent, link, silent>>
  BY <1>10 DEF Server, sends
<1> QED
  BY <1>1, <1>2, <1>3, <1>4, <1>5, <1>6, <1>7, <1>8, <1>9, <1>10, PageSteps

LEMMA SwitchStaysAwaited ==
  ASSUME Types, GotInv, SwitchIsAwaited, [PageNext]_pageVars
  PROVE  SwitchIsAwaited'
<1>1. CASE switching' = switching /\ loads \subseteq loads'
  BY <1>1 DEF SwitchIsAwaited
<1>2. ASSUME NEW why, NEW m, NEW over, LoadSession(why, m, {}, over) PROVE loads \subseteq loads'
  <2>1. PICK r : loads' = (loads \ {}) \cup {r}
    BY <1>2, LoadSessionReason
  <2> QED
    BY <2>1
<1>3. ASSUME NEW l \in loads, NEW failed, Resume(l, failed), loads' = loads \ {l}
      PROVE  SwitchIsAwaited'
  BY <1>3 DEF Resume, SwitchIsAwaited
<1>4. ASSUME NEW l \in loads, Answer(l)
      PROVE  SwitchIsAwaited'
  <2>1. CASE Serve(l)
    <3>1. PICK r \in Load :
           /\ r.kind = l.kind /\ r.why = l.why /\ r.mode = l.mode /\ r.id = l.id /\ r.since = l.since
           /\ r.back = TRUE /\ r.got = stored[l.mode]
           /\ loads' = (loads \ {l}) \cup {r}
      BY <2>1, ServedIsAsked
    <3>2. switching' = switching
      BY <2>1 DEF Serve, flags
    <3> QED
      BY <3>1, <3>2 DEF SwitchIsAwaited
  <2>2. CASE ListFound(l)
    <3>1. PICK r : r.why = l.why /\ loads' = (loads \ {l}) \cup {r}
      BY <2>2, LoadSessionReason DEF ListFound
    <3>2. switching' = switching
      BY <2>2 DEF ListFound
    <3> QED
      BY <3>1, <3>2 DEF SwitchIsAwaited
  <2>3. CASE ListEmpty(l)
    BY <1>3, <2>3 DEF ListEmpty
  <2>4. CASE History(l)
    BY <1>3, <2>4 DEF History
  <2>5. CASE Earlier(l)
    <3>1. l.why # "switch" /\ loads' = loads \ {l} /\ switching' = switching
      BY <2>5 DEF Earlier, GotInv, GotIsStored
    <3> QED
      BY <3>1 DEF SwitchIsAwaited
  <2>6. CASE LoadFails(l)
    BY <1>3, <2>6 DEF LoadFails
  <2> QED
    BY <1>4, <2>1, <2>2, <2>3, <2>4, <2>5, <2>6 DEF Answer
<1>5. CASE SwitchMode
  <2>1. PICK r : r.why = "switch" /\ loads' = loads \cup {r}
    BY <1>5, AskReason DEF SwitchMode
  <2> QED
    BY <2>1 DEF SwitchIsAwaited
<1>6. ASSUME RetryPage \/ ScrollUp \/ Retry
      PROVE  switching' = switching /\ loads \subseteq loads'
  <2>1. switching' = switching
    BY <1>6 DEF RetryPage, ScrollUp, Retry
  <2>2. CASE RetryPage
    BY <1>2, <2>1, <2>2 DEF RetryPage
  <2>3. CASE ScrollUp
    BY <2>1, <2>3 DEF ScrollUp, Ask
  <2>4. CASE Retry
    <3>1. CASE known
      BY <1>2, <2>1, <2>4, <3>1 DEF Retry
    <3>2. CASE ~known
      BY <2>1, <2>4, <3>2 DEF Retry, Ask
    <3> QED
      BY <3>1, <3>2
  <2> QED
    BY <1>6, <2>2, <2>3, <2>4
<1>7. ASSUME Withdraw \/ Send \/ LeavePage \/ UNCHANGED pageVars
      PROVE  switching' = switching /\ loads \subseteq loads'
  BY <1>7 DEF Withdraw, Send, LeavePage, pageVars, flags, asking
<1>8. ASSUME NEW n \in Sends, Done(n) \/ Breaks(n) \/ Lookup(n) \/ Closes(n) \/ EndsSilently(n) \/ Server(n)
      PROVE  switching' = switching /\ loads \subseteq loads'
  BY <1>8 DEF Done, Breaks, Lookup, Closes, EndsSilently, Server, flags, asking
<1>9. ASSUME NEW n \in Sends, Refused(n)
      PROVE  switching' = switching /\ loads \subseteq loads'
  <2>1. switching' = switching
    BY <1>9 DEF Refused
  <2>2. CASE served[n] # "blocked" /\ known
    BY <1>2, <1>9, <2>1, <2>2 DEF Refused
  <2>3. CASE ~(served[n] # "blocked" /\ known)
    BY <1>9, <2>1, <2>3 DEF Refused
  <2> QED
    BY <2>2, <2>3
<1> QED
  BY <1>1, <1>4, <1>5, <1>6, <1>7, <1>8, <1>9, PageSteps

-----------------------------------------------------------------------------
(* The page's invariant, whatever crosses.                                 *)

PageInv ==
  /\ Types /\ SendsInOrder /\ SendIsAnswered /\ SwitchIsAwaited
  /\ Histories /\ SentIsStored /\ KnownIsStored
  /\ LoadsInv /\ GotInv /\ Boot

LEMMA PageInvInit == ASSUME NoSessionIsApart, PageInit PROVE PageInv
<1>1. Types /\ SendsInOrder
  BY TypesInit
<1>2. PICK r : /\ loads = {r}
               /\ r.kind = (IF known THEN "history" ELSE "list") /\ r.why = "boot" /\ r.mode = mode
               /\ r.id = loadId /\ r.since = 0 /\ r.back = FALSE
  <2> DEFINE first == [kind |-> IF known THEN "history" ELSE "list", why |-> "boot", mode |-> mode,
                       id |-> loadId, no |-> 1, since |-> 0, back |-> FALSE, got |-> NoSession, open |-> TRUE]
  <2>1. loads = {first}
    BY DEF PageInit
  <2>2. /\ first.kind = (IF known THEN "history" ELSE "list") /\ first.why = "boot" /\ first.mode = mode
        /\ first.id = loadId /\ first.since = 0 /\ first.back = FALSE
    OBVIOUS
  <2> HIDE DEF first
  <2> QED
    BY <2>1, <2>2
<1>3. sending = FALSE /\ switching = FALSE /\ sent = 0 /\ loading = known /\ phase = "loading" /\ known \in {FALSE, stored[mode] # NoSession}
  BY DEF PageInit
<1>4. \A n \in Sends : served[n] = "none"
  BY DEF PageInit
<1>5. Histories
  BY DEF PageInit, Histories, Older, Said
<1>6. loadId \in Nat
  BY <1>1 DEF Types
<1>7. LoadsInv
  BY <1>2, <1>3, <1>6 DEF LoadsInv, LoadsAreOld, HistoriesApart, Awaited, Over
<1>8. KnownIsStored
  BY <1>3 DEF KnownIsStored
<1>9. GotInv
  BY <1>2, <1>8 DEF GotInv, GotIsStored, GotIsThere, KnownIsStored
<1>10. Boot
  BY <1>2, <1>3 DEF Boot
<1> QED
  BY <1>1, <1>3, <1>4, <1>5, <1>7, <1>8, <1>9, <1>10 DEF PageInv, SendIsAnswered, SwitchIsAwaited, SentIsStored

LEMMA PageInvStays ==
  ASSUME NoSessionIsApart, PageInv, [PageNext]_pageVars
  PROVE  PageInv' /\ Grown
<1>1. SendsInOrder'
  BY SendsStay DEF PageInv
<1>2. Types'
  <2>1. ASSUME NEW l \in loads, Answer(l) PROVE Types'
    BY <2>1, TypesAnswer DEF PageInv, GotInv
  <2>2. ASSUME NEW n \in Sends, \/ Done(n) \/ Refused(n) \/ Breaks(n) \/ Lookup(n)
                                \/ Closes(n) \/ EndsSilently(n) \/ Server(n)
        PROVE Types'
    BY <2>2, TypesMessage DEF PageInv
  <2>3. ASSUME Withdraw \/ RetryPage \/ ScrollUp \/ SwitchMode \/ Retry \/ Send \/ LeavePage \/ UNCHANGED pageVars
        PROVE Types'
    BY <2>3, TypesUser DEF PageInv
  <2> QED
    BY <2>1, <2>2, <2>3, PageSteps
<1>3. Grown /\ Histories' /\ SentIsStored'
  BY SessionsStay DEF PageInv
<1>4. GotInv'
  BY <1>3, GotStays DEF PageInv
<1>5. KnownIsStored'
  BY <1>3, KnownStays DEF PageInv
<1>6. LoadsInv'
  BY <1>2, LoadsStay DEF PageInv
<1>7. Boot'
  BY BootStays DEF PageInv
<1>8. SendIsAnswered' /\ SwitchIsAwaited'
  BY SendStaysAnswered, SwitchStaysAwaited DEF PageInv
<1> QED
  BY <1>1, <1>2, <1>3, <1>4, <1>5, <1>6, <1>7, <1>8 DEF PageInv

\* The input of the chat page is closed only while an answer is awaited that
\* opens it, in onDone, onError or the end of handleModeChange.
THEOREM PageInputOpens == ASSUME NoSessionIsApart PROVE PageSpec => []InputOpens
<1>1. PageInit => PageInv
  BY PageInvInit
<1>2. PageInv /\ [PageNext]_pageVars => PageInv'
  BY PageInvStays
<1>3. PageInv => InputOpens
  BY DEF PageInv, SendIsAnswered, SwitchIsAwaited, InputOpens
<1> QED
  BY <1>1, <1>2, <1>3, PTL DEF PageSpec

-----------------------------------------------------------------------------
(* How much is asked for: what the user did bounds it, so that LoadNumbers *)
(* hides no answer.                                                        *)

\* A list that is found asks for its history, and a message that is refused for
\* that of the session.
Lists == {l \in loads : l.kind = "list"}
OnTheirWay == {n \in Sends : link[n] = "open"}

\* What was asked for, and may be without the user.
Counted ==
  /\ IsFiniteSet(loads)
  /\ requested + Cardinality(Lists) + Cardinality(OnTheirWay) <= 2 + 2 * (taps + sent)

\* The other variables.
OtherTypes ==
  /\ hasMore \in BOOLEAN /\ errored \in BOOLEAN /\ earlierLoading \in BOOLEAN
  /\ loadId <= requested /\ taps \in 0..MaxTaps /\ failures \in 0..MaxFailures
  /\ silent \subseteq 1..sent /\ crossed \subseteq {"send", "earlier", "late"}

\* At most one more is counted, and none where another goes.
LEMMA Replaced ==
  ASSUME NEW S, IsFiniteSet(S), NEW x, NEW y
  PROVE  /\ IsFiniteSet((S \ {x}) \cup {y})
         /\ x \in S => Cardinality((S \ {x}) \cup {y}) <= Cardinality(S)
<1>1. IsFiniteSet(S \ {x}) /\ Cardinality(S \ {x}) = IF x \in S THEN Cardinality(S) - 1 ELSE Cardinality(S)
  BY FS_RemoveElement
<1>2. Cardinality(S) \in Nat /\ Cardinality(S \ {x}) \in Nat
  BY <1>1, FS_CardinalityType
<1>3. /\ IsFiniteSet((S \ {x}) \cup {y})
      /\ Cardinality((S \ {x}) \cup {y}) =
           IF y \in S \ {x} THEN Cardinality(S \ {x}) ELSE Cardinality(S \ {x}) + 1
  <2>1. PICK T : T = S \ {x}
    OBVIOUS
  <2> QED
    BY <1>1, <2>1, FS_AddElement
<1> QED
  BY <1>1, <1>2, <1>3

\* What is counted is finite.
LEMMA CountsAreNumbers ==
  ASSUME IsFiniteSet(loads)
  PROVE  /\ IsFiniteSet(Lists) /\ Cardinality(Lists) \in Nat
         /\ IsFiniteSet(OnTheirWay) /\ Cardinality(OnTheirWay) \in Nat
<1>1. IsFiniteSet(Lists)
  BY FS_Subset DEF Lists
<1>2. IsFiniteSet(Sends)
  BY PageAssumption, FS_Interval DEF Sends
<1>3. IsFiniteSet(OnTheirWay)
  BY <1>2, FS_Subset DEF OnTheirWay
<1> QED
  BY <1>1, <1>3, FS_CardinalityType

\* Fewer loads have fewer lists,
LEMMA FewerLists ==
  ASSUME IsFiniteSet(loads), loads' \subseteq loads
  PROVE  IsFiniteSet(loads') /\ Cardinality(Lists') \in Nat /\ Cardinality(Lists') <= Cardinality(Lists)
<1>1. IsFiniteSet(loads')
  BY FS_Subset
<1>2. Lists' \subseteq Lists
  BY DEF Lists
<1>3. IsFiniteSet(Lists') /\ Cardinality(Lists') <= Cardinality(Lists)
  BY <1>2, CountsAreNumbers, FS_Subset
<1> QED
  BY <1>1, <1>3, FS_CardinalityType

\* one load more at most one list more.
LEMMA OneMoreLoad ==
  ASSUME IsFiniteSet(loads), NEW r, loads' = loads \cup {r}
  PROVE  /\ IsFiniteSet(loads') /\ Cardinality(Lists') \in Nat
         /\ Cardinality(Lists') <= Cardinality(Lists) + 1
         /\ r.kind # "list" => Cardinality(Lists') = Cardinality(Lists)
<1>1. IsFiniteSet(loads')
  BY FS_AddElement
<1>2. Cardinality(Lists) \in Nat /\ IsFiniteSet(Lists)
  BY CountsAreNumbers
<1>3. CASE r.kind = "list"
  <2>1. Lists' = Lists \cup {r}
    BY <1>3 DEF Lists
  <2>2. Cardinality(Lists \cup {r}) = IF r \in Lists THEN Cardinality(Lists) ELSE Cardinality(Lists) + 1
    BY <1>2, FS_AddElement
  <2> QED
    BY <1>1, <1>2, <1>3, <2>1, <2>2
<1>4. CASE r.kind # "list"
  <2>1. Lists' = Lists
    BY <1>4 DEF Lists
  <2> QED
    BY <1>1, <1>2, <1>4, <2>1
<1> QED
  BY <1>3, <1>4

\* A request of loadSessionHistory is one, and no list.
LEMMA LoadSessionCounts ==
  ASSUME IsFiniteSet(loads), NEW why, NEW m, NEW over, LoadSession(why, m, {}, over)
  PROVE  /\ IsFiniteSet(loads') /\ Cardinality(Lists') \in Nat
         /\ Cardinality(Lists') = Cardinality(Lists) /\ requested' = requested + 1
<1>1. PICK r : r = NewLoad("history", why, m, loadId + 1, over)
  OBVIOUS
<1>2. r.kind # "list"
  BY <1>1 DEF NewLoad
<1>3. loads' = loads \cup {r} /\ requested' = requested + 1
  BY <1>1 DEF LoadSession
<1> QED
  BY <1>2, <1>3, OneMoreLoad

\* An answer asks for a history at most, where a list was.
LEMMA CountedAnswer ==
  ASSUME Types, OtherTypes, Counted, NEW l \in loads, Answer(l)
  PROVE  Counted'
<1>1. /\ requested \in Nat /\ Cardinality(Lists) \in Nat /\ Cardinality(OnTheirWay) \in Nat
      /\ taps \in Nat /\ sent \in Nat /\ IsFiniteSet(Lists)
  BY CountsAreNumbers, PageAssumption DEF Types, OtherTypes, Counted
<1>2. OnTheirWay' = OnTheirWay /\ UNCHANGED <<taps, sent>>
  BY DEF Answer, Serve, ListFound, ListEmpty, History, Earlier, LoadFails, OnTheirWay, sends
<1>3. CASE loads' \subseteq loads /\ requested' = requested
  <2>1. IsFiniteSet(loads') /\ Cardinality(Lists') \in Nat /\ Cardinality(Lists') <= Cardinality(Lists)
    BY <1>3, FewerLists DEF Counted
  <2> QED
    BY <1>1, <1>2, <1>3, <2>1 DEF Counted
<1>4. CASE Serve(l)
  <2>1. PICK r \in Load :
          /\ r.kind = l.kind /\ r.why = l.why /\ r.mode = l.mode /\ r.id = l.id /\ r.since = l.since
          /\ r.back = TRUE /\ r.got = stored[l.mode]
          /\ loads' = (loads \ {l}) \cup {r}
    BY <1>4, ServedIsAsked
  <2>2. IsFiniteSet(loads')
    BY <2>1, Replaced DEF Counted
  <2>3. Cardinality(Lists') \in Nat
    BY <2>2, FS_Subset, FS_CardinalityType DEF Lists
  <2>4. Cardinality(Lists') <= Cardinality(Lists)
    <3>1. CASE l.kind = "list"
      <4>1. Lists' = (Lists \ {l}) \cup {r} /\ l \in Lists
        BY <2>1, <3>1 DEF Lists
      <4> QED
        BY <1>1, <4>1, Replaced
    <3>2. CASE l.kind # "list"
      <4>1. Lists' = Lists
        BY <2>1, <3>2 DEF Lists
      <4> QED
        BY <1>1, <4>1
    <3> QED
      BY <3>1, <3>2
  <2>5. requested' = requested
    BY <1>4 DEF Serve
  <2> QED
    BY <1>1, <1>2, <2>2, <2>3, <2>4, <2>5 DEF Counted
<1>5. CASE ListFound(l)
  <2>1. PICK r : r = NewLoad("history", l.why, l.mode, loadId + 1, Over)
    OBVIOUS
  <2>2. r.kind # "list"
    BY <2>1 DEF NewLoad
  <2>3. loads' = (loads \ {l}) \cup {r} /\ requested' = requested + 1
    BY <1>5, <2>1 DEF ListFound, LoadSession
  <2>4. IsFiniteSet(loads')
    BY <2>3, Replaced DEF Counted
  <2>5. Lists' = Lists \ {l} /\ l \in Lists
    BY <1>5, <2>2, <2>3 DEF Lists, ListFound
  <2>6. Cardinality(Lists') = Cardinality(Lists) - 1
    BY <1>1, <2>5, FS_RemoveElement
  <2> QED
    BY <1>1, <1>2, <2>3, <2>4, <2>6 DEF Counted
<1>6. CASE ListEmpty(l) \/ History(l) \/ Earlier(l) \/ LoadFails(l)
  BY <1>3, <1>6 DEF ListEmpty, History, Earlier, LoadFails
<1> QED
  BY <1>4, <1>5, <1>6 DEF Answer

\* A message that is refused is no more on its way, and asks for a history at most.
LEMMA CountedMessage ==
  ASSUME Types, OtherTypes, Counted, NEW n \in Sends,
         \/ Done(n) \/ Refused(n) \/ Breaks(n) \/ Lookup(n)
         \/ Closes(n) \/ EndsSilently(n) \/ Server(n)
  PROVE  Counted'
<1>1. /\ requested \in Nat /\ Cardinality(Lists) \in Nat /\ Cardinality(OnTheirWay) \in Nat
      /\ taps \in Nat /\ sent \in Nat /\ IsFiniteSet(loads) /\ IsFiniteSet(OnTheirWay)
  BY CountsAreNumbers, PageAssumption DEF Types, OtherTypes, Counted
<1>2. UNCHANGED <<taps, sent>>
  BY DEF Done, Refused, Breaks, Lookup, Closes, EndsSilently, Server, asking, sends
<1>3. CASE UNCHANGED <<loads, requested>>
  <2>1. OnTheirWay' \subseteq OnTheirWay
    BY DEF OnTheirWay, Types, Done, Refused, Breaks, Lookup, Closes, EndsSilently, Server, sends
  <2>2. Cardinality(OnTheirWay') \in Nat /\ Cardinality(OnTheirWay') <= Cardinality(OnTheirWay)
    BY <1>1, <2>1, FS_Subset, FS_CardinalityType
  <2>3. Lists' = Lists
    BY <1>3 DEF Lists
  <2> QED
    BY <1>1, <1>2, <1>3, <2>2, <2>3 DEF Counted
<1>4. CASE Refused(n) /\ LoadSession("refused", mode, {}, sent)
  <2>1. OnTheirWay' = OnTheirWay \ {n} /\ n \in OnTheirWay
    BY <1>4 DEF OnTheirWay, Types, Refused
  <2>2. Cardinality(OnTheirWay') = Cardinality(OnTheirWay) - 1
    BY <1>1, <2>1, FS_RemoveElement
  <2>3. /\ IsFiniteSet(loads') /\ Cardinality(Lists') = Cardinality(Lists)
        /\ requested' = requested + 1
    BY <1>1, <1>4, LoadSessionCounts
  <2> QED
    BY <1>1, <1>2, <2>2, <2>3 DEF Counted
<1> QED
  BY <1>3, <1>4 DEF Done, Refused, Breaks, Lookup, Closes, EndsSilently, Server, asking

\* What the user does is counted for two: a switch asks for a list and then a
\* history, a message may be refused.
LEMMA CountedUser ==
  ASSUME Types, OtherTypes, Counted,
         Withdraw \/ RetryPage \/ ScrollUp \/ SwitchMode \/ Retry \/ Send \/ LeavePage \/ UNCHANGED pageVars
  PROVE  Counted'
<1>1. /\ requested \in Nat /\ Cardinality(Lists) \in Nat /\ Cardinality(OnTheirWay) \in Nat
      /\ taps \in Nat /\ sent \in Nat /\ IsFiniteSet(loads) /\ IsFiniteSet(OnTheirWay)
  BY CountsAreNumbers, PageAssumption DEF Types, OtherTypes, Counted
<1>2. CASE Withdraw \/ LeavePage \/ UNCHANGED pageVars
  <2>1. UNCHANGED <<loads, requested, taps, sent, link>>
    BY <1>2 DEF Withdraw, LeavePage, pageVars, asking, sends
  <2>2. Lists' = Lists /\ OnTheirWay' = OnTheirWay
    BY <2>1 DEF Lists, OnTheirWay
  <2> QED
    BY <2>1, <2>2 DEF Counted
<1>3. CASE Send
  <2>1. sent' = sent + 1 /\ UNCHANGED <<loads, requested, taps>>
    BY <1>3 DEF Send, asking
  <2>2. OnTheirWay' \subseteq OnTheirWay \cup {sent + 1}
    BY <1>3 DEF Send, OnTheirWay, Types
  <2>3. /\ IsFiniteSet(OnTheirWay \cup {sent + 1})
        /\ Cardinality(OnTheirWay \cup {sent + 1}) <= Cardinality(OnTheirWay) + 1
        /\ Cardinality(OnTheirWay \cup {sent + 1}) \in Nat
    <3>1. PICK next : next = sent + 1
      OBVIOUS
    <3>2. /\ IsFiniteSet(OnTheirWay \cup {next})
          /\ Cardinality(OnTheirWay \cup {next}) =
               IF next \in OnTheirWay THEN Cardinality(OnTheirWay) ELSE Cardinality(OnTheirWay) + 1
      BY <1>1, FS_AddElement
    <3> QED
      BY <1>1, <3>1, <3>2
  <2>4. Cardinality(OnTheirWay') \in Nat /\ Cardinality(OnTheirWay') <= Cardinality(OnTheirWay) + 1
    <3>1. IsFiniteSet(OnTheirWay') /\ Cardinality(OnTheirWay') <= Cardinality(OnTheirWay \cup {sent + 1})
      BY <2>2, <2>3, FS_Subset
    <3>2. Cardinality(OnTheirWay') \in Nat
      BY <3>1, FS_CardinalityType
    <3> QED
      BY <1>1, <2>3, <3>1, <3>2
  <2>5. Lists' = Lists
    BY <2>1 DEF Lists
  <2> QED
    BY <1>1, <2>1, <2>4, <2>5 DEF Counted
<1>4. ASSUME taps' = taps + 1, UNCHANGED <<sent, link>>, requested' = requested + 1,
             IsFiniteSet(loads'), Cardinality(Lists') \in Nat, Cardinality(Lists') <= Cardinality(Lists) + 1
      PROVE  Counted'
  <2>1. OnTheirWay' = OnTheirWay
    BY <1>4 DEF OnTheirWay
  <2> QED
    BY <1>1, <1>4, <2>1 DEF Counted
<1>5. ASSUME NEW why, NEW m, NEW over, LoadSession(why, m, {}, over)
      PROVE  /\ requested' = requested + 1 /\ IsFiniteSet(loads')
             /\ Cardinality(Lists') \in Nat /\ Cardinality(Lists') <= Cardinality(Lists) + 1
  BY <1>1, <1>5, LoadSessionCounts
<1>6. ASSUME NEW kind, NEW why, NEW m, NEW id, Ask(kind, why, m, id)
      PROVE  /\ requested' = requested + 1 /\ IsFiniteSet(loads')
             /\ Cardinality(Lists') \in Nat /\ Cardinality(Lists') <= Cardinality(Lists) + 1
  <2>1. PICK r : r = NewLoad(kind, why, m, id, Over)
    OBVIOUS
  <2>2. loads' = loads \cup {r} /\ requested' = requested + 1
    BY <1>6, <2>1 DEF Ask
  <2> QED
    BY <1>1, <2>2, OneMoreLoad
<1>7. CASE RetryPage \/ ScrollUp \/ SwitchMode \/ Retry
  <2>1. taps' = taps + 1 /\ UNCHANGED <<sent, link>>
    BY <1>7 DEF RetryPage, ScrollUp, SwitchMode, Retry, Tap, sends
  <2>2. \/ \E why, m, over : LoadSession(why, m, {}, over)
        \/ \E kind, why, m, id : Ask(kind, why, m, id)
    BY <1>7 DEF RetryPage, ScrollUp, SwitchMode, Retry
  <2>3. /\ requested' = requested + 1 /\ IsFiniteSet(loads')
        /\ Cardinality(Lists') \in Nat /\ Cardinality(Lists') <= Cardinality(Lists) + 1
    BY <1>5, <1>6, <2>2
  <2> QED
    BY <1>4, <2>1, <2>3
<1> QED
  BY <1>2, <1>3, <1>7

\* The boot asks for a list or a history.
LEMMA CountedInit == PageInit => Counted /\ OtherTypes
<1> SUFFICES ASSUME PageInit PROVE Counted /\ OtherTypes
  OBVIOUS
<1>1. PICK r : loads = {r}
  BY DEF PageInit
<1>2. IsFiniteSet(loads) /\ Cardinality(loads) = 1
  BY <1>1, FS_Singleton
<1>3. Cardinality(Lists) \in Nat /\ Cardinality(Lists) <= 1
  BY <1>2, CountsAreNumbers, FS_Subset DEF Lists
<1>4. OnTheirWay = {}
  BY DEF PageInit, OnTheirWay
<1>5. Cardinality(OnTheirWay) = 0
  BY <1>4, FS_EmptySet
<1>6. requested = 1 /\ taps = 0 /\ sent = 0
  BY DEF PageInit
<1>7. Counted
  BY <1>2, <1>3, <1>5, <1>6 DEF Counted
<1>8. OtherTypes
  <2>1. loadId = (IF known THEN 1 ELSE 0)
    BY DEF PageInit
  <2>2. loadId <= requested
    BY <1>6, <2>1
  <2>3. hasMore \in BOOLEAN /\ errored \in BOOLEAN /\ earlierLoading \in BOOLEAN
    BY ZenonT(20) DEF PageInit
  <2>4. failures = 0 /\ silent = {} /\ crossed = {}
    BY DEF PageInit
  <2> QED
    BY <1>6, <2>2, <2>3, <2>4, PageAssumption DEF OtherTypes
<1> QED
  BY <1>7, <1>8

\* The other variables keep their types,
LEMMA OtherTypesStay ==
  ASSUME Types, SendsInOrder, OtherTypes, [PageNext]_pageVars
  PROVE  OtherTypes'
<1>1. /\ loadId \in Nat /\ requested \in Nat /\ sent \in Nat /\ taps \in Nat /\ failures \in Nat
      /\ MaxTaps \in Nat /\ MaxFailures \in Nat
  BY PageAssumption DEF Types, OtherTypes
<1>2. ASSUME NEW why, NEW m, NEW old, NEW over, LoadSession(why, m, old, over)
      PROVE  loadId' <= requested' /\ errored' \in BOOLEAN /\ earlierLoading' \in BOOLEAN /\ hasMore' \in BOOLEAN
  <2>1. requested' = requested + 1 /\ loadId' = loadId + 1 /\ loadId <= requested
    BY <1>2 DEF LoadSession, OtherTypes
  <2>2. errored' \in BOOLEAN /\ earlierLoading' \in BOOLEAN /\ hasMore' \in BOOLEAN
    BY <1>2, ZenonT(20) DEF LoadSession
  <2>3. loadId' <= requested'
    BY <1>1, <2>1
  <2> QED
    BY <2>2, <2>3
<1>3. ASSUME NEW kind, NEW why, NEW m, NEW id, Ask(kind, why, m, id), loadId' = loadId
      PROVE  loadId' <= requested'
  BY <1>1, <1>3 DEF Ask, OtherTypes
<1>4. ASSUME NEW l \in loads, Answer(l) PROVE OtherTypes'
  <2> l \in Load
    BY DEF Types
  <2>1. CASE Serve(l)
    BY <2>1 DEF Serve, OtherTypes, window, flags, sends
  <2>2. CASE ListFound(l)
    <3>1. loadId' <= requested' /\ errored' \in BOOLEAN /\ earlierLoading' \in BOOLEAN /\ hasMore' \in BOOLEAN
      BY <1>2, <2>2 DEF ListFound
    <3> QED
      BY <2>2, <3>1 DEF ListFound, OtherTypes, sends
  <2>3. CASE ListEmpty(l)
    <3>1. crossed' \subseteq {"send", "earlier", "late"}
      BY <2>3 DEF ListEmpty, Crosses, KeepsEarlier, OtherTypes
    <3> QED
      BY <2>3, <3>1 DEF ListEmpty, OtherTypes, sends
  <2>4. CASE History(l)
    <3>1. crossed' \subseteq {"send", "earlier", "late"}
      BY <2>4 DEF History, Crosses, OtherTypes
    <3>2. hasMore' \in BOOLEAN
      <4>1. \/ hasMore' = (Older(l.mode) \in l.got)
            \/ hasMore' = hasMore
        BY <2>4 DEF History
      <4>2. (Older(l.mode) \in l.got) \in BOOLEAN
        OBVIOUS
      <4> QED
        BY <4>1, <4>2 DEF OtherTypes
    <3> QED
      BY <2>4, <3>1, <3>2 DEF History, OtherTypes, sends
  <2>5. CASE Earlier(l)
    <3>1. hasMore' \in BOOLEAN /\ earlierLoading' \in BOOLEAN
      BY <2>5 DEF Earlier, OtherTypes
    <3> QED
      BY <2>5, <3>1 DEF Earlier, OtherTypes, sends
  <2>6. CASE LoadFails(l)
    <3>1. errored' \in BOOLEAN /\ earlierLoading' \in BOOLEAN
      BY <2>6 DEF LoadFails, OtherTypes
    <3>2. failures' \in 0..MaxFailures
      BY <1>1, <2>6 DEF LoadFails, MayBreak, OtherTypes
    <3> QED
      BY <2>6, <3>1, <3>2 DEF LoadFails, OtherTypes, sends
  <2> QED
    BY <1>4, <2>1, <2>2, <2>3, <2>4, <2>5, <2>6 DEF Answer
<1>5. ASSUME NEW n \in Sends,
             \/ Done(n) \/ Refused(n) \/ Breaks(n) \/ Lookup(n)
             \/ Closes(n) \/ EndsSilently(n) \/ Server(n)
      PROVE  OtherTypes'
  <2>1. CASE Done(n)
    BY <2>1 DEF Done, OtherTypes, flags, asking
  <2>2. CASE Refused(n)
    <3>1. loadId' <= requested' /\ errored' \in BOOLEAN /\ earlierLoading' \in BOOLEAN /\ hasMore' \in BOOLEAN
      BY <1>2, <2>2 DEF Refused, OtherTypes
    <3> QED
      BY <2>2, <3>1 DEF Refused, OtherTypes
  <2>3. CASE Breaks(n)
    <3>1. failures' \in 0..MaxFailures
      BY <1>1, <2>3 DEF Breaks, MayBreak, OtherTypes, Types
    <3> QED
      BY <2>3, <3>1 DEF Breaks, OtherTypes, window, flags, asking
  <2>4. CASE Lookup(n)
    <3>1. crossed' \subseteq {"send", "earlier", "late"}
      BY <2>4 DEF Lookup, OtherTypes
    <3> QED
      BY <2>4, <3>1 DEF Lookup, OtherTypes, flags, asking
  <2>5. CASE Closes(n)
    BY <2>5 DEF Closes, OtherTypes, window, flags, asking
  <2>6. CASE EndsSilently(n)
    <3>1. failures' \in 0..MaxFailures
      BY <1>1, <2>6 DEF EndsSilently, MayBreak, OtherTypes
    <3>2. n \in 1..sent
      BY <1>1, <2>6, PageAssumption DEF EndsSilently, SendsInOrder, Sends
    <3>3. silent' \subseteq 1..sent
      BY <2>6, <3>2 DEF EndsSilently, OtherTypes
    <3> QED
      BY <2>6, <3>1, <3>3 DEF EndsSilently, OtherTypes, window, flags, asking
  <2>7. CASE Server(n)
    BY <2>7 DEF Server, OtherTypes, window, flags, asking, sends
  <2> QED
    BY <1>5, <2>1, <2>2, <2>3, <2>4, <2>5, <2>6, <2>7
<1>6. ASSUME Tap PROVE taps' \in 0..MaxTaps
  BY <1>1, <1>6 DEF Tap, OtherTypes
<1>7. CASE Withdraw \/ LeavePage \/ UNCHANGED pageVars
  BY <1>7 DEF Withdraw, LeavePage, pageVars, OtherTypes, window, flags, asking, sends
<1>8. CASE RetryPage
  <2>1. loadId' <= requested' /\ errored' \in BOOLEAN /\ earlierLoading' \in BOOLEAN /\ hasMore' \in BOOLEAN
    BY <1>2, <1>8 DEF RetryPage
  <2> QED
    BY <1>6, <1>8, <2>1 DEF RetryPage, OtherTypes, sends
<1>9. CASE ScrollUp
  <2>1. loadId' <= requested'
    BY <1>3, <1>9 DEF ScrollUp
  <2> QED
    BY <1>6, <1>9, <2>1 DEF ScrollUp, OtherTypes, window, sends
<1>10. CASE SwitchMode
  <2>1. loadId' <= requested'
    BY <1>3, <1>10 DEF SwitchMode
  <2> QED
    BY <1>6, <1>10, <2>1 DEF SwitchMode, OtherTypes, sends
<1>11. CASE Retry
  <2>1. loadId' <= requested' /\ errored' \in BOOLEAN /\ earlierLoading' \in BOOLEAN /\ hasMore' \in BOOLEAN
    BY <1>2, <1>3, <1>11 DEF Retry, OtherTypes
  <2> QED
    BY <1>6, <1>11, <2>1 DEF Retry, OtherTypes, sends
<1>12. CASE Send
  <2>1. silent \subseteq 1..sent'
    BY <1>1, <1>12 DEF Send, OtherTypes
  <2> QED
    BY <1>12, <2>1 DEF Send, OtherTypes, flags, asking
<1> QED
  BY <1>4, <1>5, <1>7, <1>8, <1>9, <1>10, <1>11, <1>12, PageSteps

\* Every variable of the page keeps its type, and the user never has more than
\* two requests for each thing he did, and two at the start: no answer has a
\* number PageNext does not look for.
THEOREM PageTyped == ASSUME NoSessionIsApart PROVE PageSpec => []PageTypeOK
<1> DEFINE IInv == PageInv /\ Counted /\ OtherTypes
<1>1. PageInit => IInv
  BY PageInvInit, CountedInit
<1>2. IInv /\ [PageNext]_pageVars => IInv'
  <2> SUFFICES ASSUME IInv, [PageNext]_pageVars PROVE IInv'
    OBVIOUS
  <2>1. PageInv'
    BY PageInvStays
  <2>2. OtherTypes'
    BY OtherTypesStay DEF PageInv
  <2>3. Counted'
    <3>1. ASSUME NEW l \in loads, Answer(l) PROVE Counted'
      BY <3>1, CountedAnswer DEF PageInv
    <3>2. ASSUME NEW n \in Sends, \/ Done(n) \/ Refused(n) \/ Breaks(n) \/ Lookup(n)
                                  \/ Closes(n) \/ EndsSilently(n) \/ Server(n)
          PROVE Counted'
      BY <3>2, CountedMessage DEF PageInv
    <3>3. ASSUME Withdraw \/ RetryPage \/ ScrollUp \/ SwitchMode \/ Retry \/ Send \/ LeavePage \/ UNCHANGED pageVars
          PROVE Counted'
      BY <3>3, CountedUser DEF PageInv
    <3> QED
      BY <3>1, <3>2, <3>3, PageSteps
  <2> QED
    BY <2>1, <2>2, <2>3
<1>3. IInv => PageTypeOK
  <2> SUFFICES ASSUME IInv PROVE PageTypeOK
    OBVIOUS
  <2>1. requested \in LoadNumbers /\ loadId \in 0..requested
    <3>1. Cardinality(Lists) \in Nat /\ Cardinality(OnTheirWay) \in Nat
      BY CountsAreNumbers DEF Counted
    <3>2. requested \in Nat \ {0} /\ loadId \in Nat /\ sent \in 0..MaxSends
      BY DEF PageInv, Types
    <3>3. requested <= 2 + 2 * (taps + sent)
      BY <3>1, <3>2, PageAssumption DEF Counted, OtherTypes
    <3>4. taps + sent <= MaxTaps + MaxSends
      BY <3>2, PageAssumption DEF OtherTypes
    <3> QED
      BY <3>2, <3>3, <3>4, PageAssumption DEF LoadNumbers, OtherTypes
  <2>2. finished \subseteq 1..sent
    BY PageAssumption DEF PageInv, Types, SendsInOrder, Sends
  <2> QED
    BY <2>1, <2>2 DEF PageInv, Types, OtherTypes, PageTypeOK
<1> QED
  BY <1>1, <1>2, <1>3, PTL DEF PageSpec

-----------------------------------------------------------------------------
(* What the page shows while nothing crosses.                              *)

\* The message that is on its way is the last, of the page's mode, and waits.
OneOnItsWay ==
  \A n \in Sends : link[n] = "open" \/ (link[n] = "lookup" /\ n \notin finished) =>
    n = sent /\ sending /\ sentIn[n] = mode /\ Bubble(n) \in messages

\* Older messages that still count were asked for in the page's mode.
EarlierHere == \A l \in loads : l.kind = "earlier" /\ l.id = loadId => l.mode = mode

\* What was read after every message was over has the replies.
GotAll ==
  \A l \in loads, n \in finished :
    l.back /\ l.since = sent /\ sentIn[n] = l.mode => l.got # NoSession /\ Reply(n) \in l.got

\* The page shows its mode, and replies of a session that it knows.
Shown == \A x \in messages : x.mode = mode /\ (x.role = "reply" => known)
Stays == \A n \in finished : sentIn[n] = mode => Reply(n) \in messages

CalmInv == crossed = {} => OneOnItsWay /\ EarlierHere /\ GotAll /\ Shown /\ Stays

\* What crossed once has crossed.
LEMMA CrossedGrows ==
  ASSUME [PageNext]_pageVars
  PROVE  crossed \subseteq crossed'
<1>1. ASSUME NEW l \in loads, Answer(l) PROVE crossed \subseteq crossed'
  <2>1. CASE ListEmpty(l)
    BY <2>1 DEF ListEmpty
  <2>2. CASE History(l)
    BY <2>2 DEF History
  <2>3. CASE Serve(l) \/ ListFound(l) \/ Earlier(l) \/ LoadFails(l)
    BY <2>3 DEF Serve, ListFound, Earlier, LoadFails
  <2> QED
    BY <1>1, <2>1, <2>2, <2>3 DEF Answer
<1>2. ASSUME Withdraw \/ RetryPage \/ ScrollUp \/ SwitchMode \/ Retry \/ Send \/ LeavePage \/ UNCHANGED pageVars
      PROVE  crossed \subseteq crossed'
  BY <1>2 DEF Withdraw, RetryPage, ScrollUp, SwitchMode, Retry, Send, LeavePage, pageVars
<1>3. ASSUME NEW n \in Sends, \/ Done(n) \/ Refused(n) \/ Breaks(n)
                              \/ Closes(n) \/ EndsSilently(n) \/ Server(n)
      PROVE  crossed \subseteq crossed'
  BY <1>3 DEF Done, Refused, Breaks, Closes, EndsSilently, Server
<1>4. ASSUME NEW n \in Sends, Lookup(n) PROVE crossed \subseteq crossed'
  BY <1>4 DEF Lookup
<1> QED
  BY <1>1, <1>2, <1>3, <1>4, PageSteps

\* Until something crosses, answers are applied while no message is on its way.
LEMMA CalmAnswer ==
  ASSUME NEW l \in loads, crossed' = {}, Answer(l)
  PROVE  /\ ListEmpty(l) \/ (History(l) /\ Current(l)) => ~sending /\ sent = l.since
         /\ ListEmpty(l) => \A e \in loads : e.kind = "earlier" => e.id # loadId
<1>1. CASE ListEmpty(l)
  <2>1. Crosses(l) = {} /\ KeepsEarlier = {}
    BY <1>1 DEF ListEmpty
  <2> QED
    BY <2>1 DEF Crosses, KeepsEarlier
<1>2. CASE History(l) /\ Current(l)
  <2>1. Crosses(l) = {}
    BY <1>2 DEF History
  <2>2. ~ListEmpty(l)
    BY <1>2 DEF History, ListEmpty
  <2> QED
    BY <2>1, <2>2 DEF Crosses
<1> QED
  BY <1>1, <1>2

\* The bubble of the message on its way becomes the reply.
LEMMA FillKeeps ==
  ASSUME Types, NEW n \in Sends
  PROVE  /\ \A x \in Fill(n) : x \in messages \/ x = Reply(n)
         /\ \A x \in messages : x.role # "bubble" => x \in Fill(n)
         /\ Bubble(n) \in messages => Reply(n) \in Fill(n)
         /\ \A x \in messages : x # Bubble(n) => x \in Fill(n)
<1>1. Bubble(n).role = "bubble"
  BY DEF Bubble, Said
<1> QED
  BY <1>1 DEF Fill, Bubble, Reply

LEMMA SaidIs == \A m, n, role : /\ Said(m, n, role).mode = m
                                /\ Said(m, n, role).no = n
                                /\ Said(m, n, role).role = role
  BY DEF Said

\* One message is on its way.
LEMMA OneStays ==
  ASSUME PageInv, PageInv', OneOnItsWay, crossed' = {}, [PageNext]_pageVars
  PROVE  OneOnItsWay'
<1> \A n \in Sends : n \in Nat /\ sent \in Nat
  BY PageAssumption DEF Sends, PageInv, Types
<1>1. ASSUME UNCHANGED <<sending, sent, sentIn, link, finished>>,
             mode' = mode \/ ~sending, messages \subseteq messages' \/ ~sending
      PROVE  OneOnItsWay'
  <2>1. ASSUME NEW n \in Sends PROVE Bubble(n)' = Bubble(n)
    BY <1>1 DEF Bubble, Said
  <2> QED
    BY <1>1, <2>1 DEF OneOnItsWay
<1>2. ASSUME NEW l \in loads, Answer(l)
      PROVE  OneOnItsWay'
  <2>1. UNCHANGED <<sending, sent, sentIn, link, finished>>
    BY <1>2 DEF Answer, Serve, ListFound, ListEmpty, History, Earlier, LoadFails, sends
  <2>2. CASE ListEmpty(l) \/ (History(l) /\ Current(l))
    BY <1>1, <1>2, <2>1, <2>2, CalmAnswer
  <2>3. CASE Serve(l) \/ ListFound(l) \/ (History(l) /\ ~Current(l)) \/ Earlier(l) \/ LoadFails(l)
    <3>1. mode' = mode /\ messages \subseteq messages'
      BY <2>3 DEF Serve, ListFound, History, Earlier, LoadFails, scope, window
    <3> QED
      BY <1>1, <2>1, <3>1
  <2> QED
    BY <1>2, <2>2, <2>3 DEF Answer
<1>3. CASE Send
  <2>1. sent + 1 \in Sends
    BY <1>3, PageAssumption DEF Send, PageInv, Types, Sends
  <2>2. \A n \in Sends : ~(link[n] = "open" \/ (link[n] = "lookup" /\ n \notin finished))
    BY <1>3 DEF Send, OneOnItsWay
  <2>3. ASSUME NEW n \in Sends, link'[n] = "open" \/ (link'[n] = "lookup" /\ n \notin finished')
        PROVE  n = sent' /\ sending' /\ sentIn'[n] = mode' /\ Bubble(n)' \in messages'
    <3>1. n = sent + 1
      BY <1>3, <2>2, <2>3 DEF Send, PageInv, Types
    <3>2. sent' = sent + 1 /\ sending' = TRUE /\ mode' = mode
      BY <1>3 DEF Send, scope
    <3>3. sentIn'[n] = mode
      BY <1>3, <3>1 DEF Send, PageInv, Types
    <3>4. Said(mode, sent + 1, "bubble") \in messages'
      BY <1>3 DEF Send
    <3> QED
      BY <3>1, <3>2, <3>3, <3>4 DEF Bubble, Said
  <2> QED
    BY <2>3 DEF OneOnItsWay
<1>4. ASSUME Withdraw \/ RetryPage \/ ScrollUp \/ SwitchMode \/ Retry \/ LeavePage \/ UNCHANGED pageVars
      PROVE  OneOnItsWay'
  <2>1. UNCHANGED <<sending, sent, sentIn, link, finished>> /\ mode' = mode
    BY <1>4 DEF Withdraw, RetryPage, ScrollUp, SwitchMode, Retry, LeavePage, pageVars, sends, scope
  <2>2. messages \subseteq messages' \/ ~sending
    BY <1>4 DEF Withdraw, RetryPage, ScrollUp, SwitchMode, MaySwitch, Retry, LeavePage, pageVars, window
  <2> QED
    BY <1>1, <2>1, <2>2
<1>5. ASSUME NEW n \in Sends, Server(n)
      PROVE  OneOnItsWay'
  <2>1. UNCHANGED <<sending, sent, sentIn, link, finished>> /\ mode' = mode /\ messages' = messages
    BY <1>5 DEF Server, sends, scope, window
  <2> QED
    BY <1>1, <2>1
\* The message on its way ends, and no other is.
<1>6. ASSUME NEW n \in Sends, sent' = sent, sentIn' = sentIn,
             link[n] = "open" \/ (link[n] = "lookup" /\ n \notin finished), link' = [link EXCEPT ![n] = "closed"] \/ (link' = [link EXCEPT ![n] = "drained"]),
             finished \subseteq finished'
      PROVE  OneOnItsWay'
  <2>1. n = sent
    BY <1>6 DEF OneOnItsWay
  <2>2. ASSUME NEW k \in Sends, link'[k] = "open" \/ (link'[k] = "lookup" /\ k \notin finished') PROVE FALSE
    <3>1. k # n
      BY <1>6, <2>2 DEF PageInv, Types
    <3>2. link'[k] = link[k]
      BY <1>6, <3>1 DEF PageInv, Types
    <3> QED
      BY <1>6, <2>1, <2>2, <3>1, <3>2 DEF OneOnItsWay
  <2> QED
    BY <2>2 DEF OneOnItsWay
<1>7. ASSUME NEW n \in Sends, Done(n)
      PROVE  OneOnItsWay'
  <2>1. /\ link[n] = "open" /\ link' = [link EXCEPT ![n] = "drained"]
        /\ sent' = sent /\ sentIn' = sentIn /\ finished \subseteq finished'
    BY <1>7 DEF Done
  <2> QED
    BY <1>6, <2>1
<1>8. ASSUME NEW n \in Sends, Refused(n)
      PROVE  OneOnItsWay'
  <2>1. /\ link[n] = "open" /\ link' = [link EXCEPT ![n] = "closed"]
        /\ sent' = sent /\ sentIn' = sentIn /\ finished \subseteq finished'
    BY <1>8 DEF Refused
  <2> QED
    BY <1>6, <2>1
<1>9. ASSUME NEW n \in Sends, Lookup(n)
      PROVE  OneOnItsWay'
  <2>1. /\ link[n] = "lookup" /\ link' = [link EXCEPT ![n] = "closed"]
        /\ sent' = sent /\ sentIn' = sentIn /\ finished \subseteq finished'
    BY <1>9 DEF Lookup
  <2>2. n \notin finished
    BY <1>9 DEF Lookup
  <2> QED
    BY <1>6, <2>1, <2>2
<1>10. ASSUME NEW n \in Sends, EndsSilently(n)
      PROVE  OneOnItsWay'
  <2>1. /\ link[n] = "open" /\ link' = [link EXCEPT ![n] = "closed"]
        /\ sent' = sent /\ sentIn' = sentIn /\ finished \subseteq finished'
    BY <1>10 DEF EndsSilently
  <2> QED
    BY <1>6, <2>1
<1>11. ASSUME NEW n \in Sends, Breaks(n) \/ Closes(n)
       PROVE  OneOnItsWay'
  <2>1. UNCHANGED <<sending, sent, sentIn, finished, mode, messages>>
    BY <1>11 DEF Breaks, Closes, scope, window
  <2>2. ASSUME NEW k \in Sends, link'[k] = "open" \/ (link'[k] = "lookup" /\ k \notin finished')
        PROVE  link[k] = "open" \/ (link[k] = "lookup" /\ k \notin finished)
    <3>1. link[n] = "drained" => n \in finished
      BY DEF PageInv, SendsInOrder
    <3> QED
      BY <1>11, <2>1, <2>2, <3>1 DEF Breaks, Closes, PageInv, Types
  <2>3. ASSUME NEW k \in Sends PROVE Bubble(k)' = Bubble(k)
    BY <2>1 DEF Bubble, Said
  <2> QED
    BY <2>1, <2>2, <2>3 DEF OneOnItsWay
<1> QED
  BY <1>2, <1>3, <1>4, <1>5, <1>7, <1>8, <1>9, <1>10, <1>11, PageSteps

\* Older messages are not shown in another mode.
LEMMA EarlierStaysHere ==
  ASSUME PageInv, OneOnItsWay, EarlierHere, crossed' = {}, [PageNext]_pageVars
  PROVE  EarlierHere'
<1>1. ASSUME loads' \subseteq loads, UNCHANGED <<loadId, mode>> PROVE EarlierHere'
  BY <1>1 DEF EarlierHere
<1>2. ASSUME NEW why, NEW m, NEW old, NEW over, LoadSession(why, m, old, over) PROVE EarlierHere'
  <2> DEFINE new == NewLoad("history", why, m, loadId + 1, over)
  <2>1. new.kind = "history"
    BY DEF NewLoad
  <2>2. loads' = (loads \ old) \cup {new} /\ loadId' = loadId + 1
    BY <1>2 DEF LoadSession
  <2>3. loadId \in Nat /\ \A l \in loads : l.id \in Nat /\ l.id <= loadId
    BY DEF PageInv, LoadsInv, LoadsAreOld, Types, Load
  <2> HIDE DEF new
  <2> QED
    BY <2>1, <2>2, <2>3 DEF EarlierHere
<1>3. ASSUME NEW kind, NEW why, NEW m, NEW id, Ask(kind, why, m, id), kind = "earlier" => m = mode,
             UNCHANGED <<loadId, mode>>
      PROVE  EarlierHere'
  <2> DEFINE new == NewLoad(kind, why, m, id, Over)
  <2>1. new.kind = kind /\ new.mode = m
    BY DEF NewLoad
  <2>2. loads' = loads \cup {new}
    BY <1>3 DEF Ask
  <2> HIDE DEF new
  <2> QED
    BY <1>3, <2>1, <2>2 DEF EarlierHere
<1>4. ASSUME NEW l \in loads, Answer(l)
      PROVE  EarlierHere'
  <2>1. CASE Serve(l)
    <3>1. PICK r \in Load :
           /\ r.kind = l.kind /\ r.why = l.why /\ r.mode = l.mode /\ r.id = l.id /\ r.since = l.since
           /\ r.back = TRUE /\ r.got = stored[l.mode]
           /\ loads' = (loads \ {l}) \cup {r}
      BY <2>1, ServedIsAsked DEF PageInv
    <3>2. UNCHANGED <<loadId, mode>>
      BY <2>1 DEF Serve, flags, scope
    <3> QED
      BY <3>1, <3>2 DEF EarlierHere
  <2>2. CASE ListFound(l)
    BY <1>2, <2>2 DEF ListFound
  <2>3. CASE ListEmpty(l)
    <3>1. loads' \subseteq loads /\ loadId' = loadId
      BY <2>3 DEF ListEmpty
    <3>2. \A e \in loads : e.kind = "earlier" => e.id # loadId
      BY <1>4, <2>3, CalmAnswer
    <3> QED
      BY <3>1, <3>2 DEF EarlierHere
  <2>4. CASE History(l)
    <3>1. loads' \subseteq loads /\ loadId' = loadId /\ l.kind = "history"
      BY <2>4 DEF History
    <3>2. CASE Current(l)
      BY <3>1, <3>2 DEF PageInv, LoadsInv, Awaited, Current, EarlierHere
    <3>3. CASE ~Current(l)
      BY <1>1, <2>4, <3>1, <3>3 DEF History, scope
    <3> QED
      BY <3>2, <3>3
  <2>5. CASE Earlier(l) \/ LoadFails(l)
    BY <1>1, <2>5 DEF Earlier, LoadFails, scope
  <2> QED
    BY <1>4, <2>1, <2>2, <2>3, <2>4, <2>5 DEF Answer
<1>5. CASE RetryPage
  BY <1>2, <1>5 DEF RetryPage
<1>6. CASE ScrollUp
  BY <1>3, <1>6 DEF ScrollUp, scope
<1>7. CASE SwitchMode
  <2>1. PICK m \in Modes : Ask("list", "switch", m, 0)
    BY <1>7 DEF SwitchMode
  <2>2. UNCHANGED <<loadId, mode>>
    BY <1>7 DEF SwitchMode, scope
  <2> QED
    BY <1>3, <2>1, <2>2
<1>8. CASE Retry
  <2>1. CASE known
    BY <1>2, <1>8, <2>1 DEF Retry
  <2>2. CASE ~known
    BY <1>3, <1>8, <2>2 DEF Retry, scope
  <2> QED
    BY <2>1, <2>2
<1>9. ASSUME Withdraw \/ Send \/ LeavePage \/ UNCHANGED pageVars
      PROVE  loads' \subseteq loads /\ UNCHANGED <<loadId, mode>>
  BY <1>9 DEF Withdraw, Send, LeavePage, pageVars, flags, asking, scope
<1>10. ASSUME NEW n \in Sends, Breaks(n) \/ Closes(n) \/ EndsSilently(n) \/ Server(n)
       PROVE  loads' \subseteq loads /\ UNCHANGED <<loadId, mode>>
  BY <1>10 DEF Breaks, Closes, EndsSilently, Server, flags, asking, scope
<1>11. ASSUME NEW n \in Sends, Done(n) \/ Lookup(n)
       PROVE  loads' \subseteq loads /\ UNCHANGED <<loadId, mode>>
  <2>1. loads' \subseteq loads /\ UNCHANGED loadId
    BY <1>11 DEF Done, Lookup, flags, asking
  <2>2. mode' = mode \/ mode' = sentIn[n]
    BY <1>11 DEF Done, Lookup
  <2>3. link[n] = "open" \/ (link[n] = "lookup" /\ n \notin finished)
    BY <1>11 DEF Done, Lookup
  <2>4. sentIn[n] = mode
    BY <2>3 DEF OneOnItsWay
  <2> QED
    BY <2>1, <2>2, <2>4
<1>12. ASSUME NEW n \in Sends, Refused(n)
       PROVE  EarlierHere'
  <2>1. CASE served[n] # "blocked" /\ known
    BY <1>2, <1>12, <2>1 DEF Refused
  <2>2. CASE ~(served[n] # "blocked" /\ known)
    BY <1>1, <1>12, <2>2 DEF Refused
  <2> QED
    BY <2>1, <2>2
<1> QED
  BY <1>1, <1>4, <1>5, <1>6, <1>7, <1>8, <1>9, <1>10, <1>11, <1>12, PageSteps

\* A history that was read after every reply has every reply of its mode.
LEMMA GotAllStays ==
  ASSUME PageInv, OneOnItsWay, GotAll, crossed' = {}, [PageNext]_pageVars
  PROVE  GotAll'
<1>0. /\ \A n \in Sends : n \in Nat
      /\ finished \subseteq Sends /\ sent \in Nat
      /\ \A l \in loads : l.since \in Nat /\ l.since <= Over
  BY PageAssumption DEF Sends, PageInv, Types, LoadsInv, LoadsAreOld, Load
\* What is new has not come back; everything else was here.
<1>1. ASSUME \A l \in loads' : l \in loads \/ l.back = FALSE, finished' = finished, sentIn' = sentIn, sent' = sent
      PROVE  GotAll'
  <2>1. \A n \in finished : Reply(n)' = Reply(n)
    BY <1>1 DEF Reply, Said
  <2> QED
    BY <1>1, <2>1 DEF GotAll
<1>2. ASSUME NEW why, NEW m, NEW old, NEW over, LoadSession(why, m, old, over)
      PROVE  \A l \in loads' : l \in loads \/ l.back = FALSE
  <2> DEFINE new == NewLoad("history", why, m, loadId + 1, over)
  <2>1. new.back = FALSE
    BY DEF NewLoad
  <2>2. loads' = (loads \ old) \cup {new}
    BY <1>2 DEF LoadSession
  <2> HIDE DEF new
  <2> QED
    BY <2>1, <2>2
<1>3. ASSUME NEW kind, NEW why, NEW m, NEW id, Ask(kind, why, m, id)
      PROVE  \A l \in loads' : l \in loads \/ l.back = FALSE
  <2> DEFINE new == NewLoad(kind, why, m, id, Over)
  <2>1. new.back = FALSE
    BY DEF NewLoad
  <2>2. loads' = loads \cup {new}
    BY <1>3 DEF Ask
  <2> HIDE DEF new
  <2> QED
    BY <2>1, <2>2
<1>4. ASSUME NEW l \in loads, Answer(l)
      PROVE  GotAll'
  <2>1. UNCHANGED <<finished, sentIn, sent, sending>>
    BY <1>4 DEF Answer, Serve, ListFound, ListEmpty, History, Earlier, LoadFails, sends
  <2>2. CASE Serve(l)
    <3>1. PICK r \in Load :
           /\ r.kind = l.kind /\ r.why = l.why /\ r.mode = l.mode /\ r.id = l.id /\ r.since = l.since
           /\ r.back = TRUE /\ r.got = stored[l.mode]
           /\ loads' = (loads \ {l}) \cup {r}
      BY <2>2, ServedIsAsked DEF PageInv
    <3>2. \A n \in finished : sentIn[n] = r.mode => r.got # NoSession /\ Reply(n) \in r.got
      <4>1. \A n \in finished : served[n] = "replied"
        BY <1>0 DEF PageInv, SendsInOrder
      <4> QED
        BY <1>0, <3>1, <4>1 DEF PageInv, SentIsStored
    <3>3. \A n \in finished : Reply(n)' = Reply(n)
      BY <2>1 DEF Reply, Said
    <3> QED
      BY <2>1, <3>1, <3>2, <3>3 DEF GotAll
  <2>3. CASE ListFound(l)
    <3>1. \A k \in loads' : k \in loads \/ k.back = FALSE
      BY <1>2, <2>3 DEF ListFound
    <3> QED
      BY <1>1, <2>1, <3>1
  <2>4. CASE ListEmpty(l) \/ History(l) \/ Earlier(l) \/ LoadFails(l)
    <3>1. loads' = loads \ {l}
      BY <2>4 DEF ListEmpty, History, Earlier, LoadFails
    <3> QED
      BY <1>1, <2>1, <3>1
  <2> QED
    BY <1>4, <2>2, <2>3, <2>4 DEF Answer
<1>5. ASSUME RetryPage \/ ScrollUp \/ SwitchMode \/ Retry
      PROVE  GotAll'
  <2>1. UNCHANGED <<finished, sentIn, sent>>
    BY <1>5 DEF RetryPage, ScrollUp, SwitchMode, Retry, sends
  <2>2. \A l \in loads' : l \in loads \/ l.back = FALSE
    <3>1. CASE RetryPage
      BY <1>2, <3>1 DEF RetryPage
    <3>2. CASE ScrollUp
      BY <1>3, <3>2 DEF ScrollUp
    <3>3. CASE SwitchMode
      <4>1. PICK m \in Modes : Ask("list", "switch", m, 0)
        BY <3>3 DEF SwitchMode
      <4> QED
        BY <1>3, <4>1
    <3>4. CASE Retry
      <4>1. CASE known
        BY <1>2, <3>4, <4>1 DEF Retry
      <4>2. CASE ~known
        BY <1>3, <3>4, <4>2 DEF Retry
      <4> QED
        BY <4>1, <4>2
    <3> QED
      BY <1>5, <3>1, <3>2, <3>3, <3>4
  <2> QED
    BY <1>1, <2>1, <2>2
<1>6. CASE Send
  <2>1. loads' = loads /\ sent' = sent + 1 /\ ~sending
    BY <1>6 DEF Send, asking
  <2>2. \A l \in loads' : l.since # sent'
    BY <1>0, <2>1 DEF Over
  <2> QED
    BY <2>2 DEF GotAll
<1>7. ASSUME Withdraw \/ LeavePage \/ UNCHANGED pageVars
      PROVE  GotAll'
  <2>1. UNCHANGED <<loads, finished, sentIn, sent>>
    BY <1>7 DEF Withdraw, LeavePage, pageVars, asking, sends
  <2> QED
    BY <1>1, <2>1
<1>8. ASSUME NEW n \in Sends, Breaks(n) \/ Closes(n) \/ EndsSilently(n) \/ Server(n) \/ Lookup(n)
      PROVE  GotAll'
  <2>1. UNCHANGED <<loads, finished, sentIn, sent>>
    BY <1>8 DEF Breaks, Closes, EndsSilently, Server, Lookup, asking, sends
  <2> QED
    BY <1>1, <2>1
<1>9. ASSUME NEW n \in Sends, Refused(n)
      PROVE  GotAll'
  <2>1. UNCHANGED <<finished, sentIn, sent>>
    BY <1>9 DEF Refused
  <2>2. \A l \in loads' : l \in loads \/ l.back = FALSE
    <3>1. CASE served[n] # "blocked" /\ known
      BY <1>2, <1>9, <3>1 DEF Refused
    <3>2. CASE ~(served[n] # "blocked" /\ known)
      BY <1>9, <3>2 DEF Refused
    <3> QED
      BY <3>1, <3>2
  <2> QED
    BY <1>1, <2>1, <2>2
<1>10. ASSUME NEW n \in Sends, Done(n)
       PROVE  GotAll'
  <2>1. loads' = loads /\ sent' = sent /\ link[n] = "open"
    BY <1>10 DEF Done, asking
  <2>2. sending /\ sent # 0
    BY <2>1 DEF OneOnItsWay, PageInv, SendsInOrder
  <2>3. Over = sent - 1
    BY <2>2 DEF Over
  <2>4. \A l \in loads' : l.since # sent'
    BY <1>0, <2>1, <2>2, <2>3
  <2> QED
    BY <2>4 DEF GotAll
<1> QED
  BY <1>4, <1>5, <1>6, <1>7, <1>8, <1>9, <1>10, PageSteps

\* The page shows its mode.
LEMMA ShownStays ==
  ASSUME NoSessionIsApart, PageInv, OneOnItsWay, EarlierHere, Shown, crossed' = {}, [PageNext]_pageVars
  PROVE  Shown'
<1>1. ASSUME messages' \subseteq messages, UNCHANGED <<mode, known>> PROVE Shown'
  BY <1>1 DEF Shown
<1>2. ASSUME NEW l \in loads, Answer(l)
      PROVE  Shown'
  <2> l.mode \in Modes
    BY DEF PageInv, Types, Load
  <2>1. CASE ListEmpty(l)
    BY <2>1 DEF ListEmpty, Shown
  <2>2. CASE History(l) /\ Current(l)
    <3>1. messages' = Window(l.got) /\ mode' = l.mode /\ known' = TRUE
      BY <2>2 DEF History
    <3>2. l.got # NoSession /\ stored[l.mode] # NoSession /\ l.got \subseteq stored[l.mode]
      BY <2>2 DEF History, PageInv, GotInv, GotIsThere, GotIsStored
    <3>3. \A x \in l.got : x.mode = l.mode
      BY <3>2 DEF PageInv, Histories
    <3> QED
      BY <3>1, <3>3 DEF Shown, Window
  <2>3. CASE Earlier(l) /\ Current(l)
    <3>1. l.mode = mode
      BY <2>3 DEF Earlier, Current, EarlierHere
    <3>2. messages' = messages \cup {Older(l.mode)} /\ UNCHANGED <<mode, known>>
      BY <2>3 DEF Earlier, scope
    <3>3. Older(l.mode).mode = l.mode /\ Older(l.mode).role = "older"
      BY SaidIs DEF Older
    <3> QED
      BY <3>1, <3>2, <3>3 DEF Shown
  <2>4. CASE Serve(l) \/ ListFound(l) \/ (History(l) /\ ~Current(l)) \/ (Earlier(l) /\ ~Current(l)) \/ LoadFails(l)
    <3>1. messages' = messages /\ UNCHANGED <<mode, known>>
      BY <2>4 DEF Serve, ListFound, History, Earlier, LoadFails, scope, window
    <3> QED
      BY <1>1, <3>1
  <2> QED
    BY <1>2, <2>1, <2>2, <2>3, <2>4 DEF Answer
<1>3. CASE Send
  <2>1. /\ messages' = messages \cup {Said(mode, sent + 1, "user"), Said(mode, sent + 1, "bubble")}
        /\ UNCHANGED <<mode, known>>
    BY <1>3 DEF Send, scope
  <2> QED
    BY <2>1, SaidIs DEF Shown
<1>4. ASSUME Withdraw \/ RetryPage \/ ScrollUp \/ SwitchMode \/ Retry \/ LeavePage \/ UNCHANGED pageVars
      PROVE  messages' \subseteq messages /\ UNCHANGED <<mode, known>>
  BY <1>4 DEF Withdraw, RetryPage, ScrollUp, SwitchMode, Retry, LeavePage, pageVars, scope, window
<1>5. ASSUME NEW n \in Sends, Refused(n) \/ Breaks(n) \/ Closes(n) \/ EndsSilently(n) \/ Server(n)
      PROVE  messages' \subseteq messages /\ UNCHANGED <<mode, known>>
  BY <1>5 DEF Refused, Breaks, Closes, EndsSilently, Server, scope, window
<1>6. ASSUME NEW n \in Sends, Done(n) \/ Lookup(n)
      PROVE  Shown'
  <2>1. link[n] = "open" \/ (link[n] = "lookup" /\ n \notin finished)
    BY <1>6 DEF Done, Lookup
  <2>2. sentIn[n] = mode
    BY <2>1 DEF OneOnItsWay
  <2>3. mode' = mode
    BY <1>6, <2>2 DEF Done, Lookup
  <2>4. CASE messages' = messages /\ (known' = known \/ known')
    BY <2>3, <2>4 DEF Shown
  <2>5. CASE messages' = Fill(n) /\ known'
    <3>1. \A x \in Fill(n) : x \in messages \/ x = Reply(n)
      BY FillKeeps DEF PageInv
    <3>2. Reply(n).mode = mode
      BY <2>2, SaidIs DEF Reply
    <3> QED
      BY <2>3, <2>5, <3>1, <3>2 DEF Shown
  <2> QED
    BY <1>6, <2>4, <2>5 DEF Done, Lookup
<1> QED
  BY <1>1, <1>2, <1>3, <1>4, <1>5, <1>6, PageSteps

\* Replies stay.
LEMMA StaysStays ==
  ASSUME PageInv, OneOnItsWay, GotAll, Stays, crossed' = {}, [PageNext]_pageVars
  PROVE  Stays'
<1>0. finished \subseteq Sends
  BY DEF PageInv, Types
\* The other messages of the page are not replies.
<1>1. ASSUME UNCHANGED <<finished, sentIn, mode>>,
             \A x \in messages : x.role = "reply" => x \in messages'
      PROVE  Stays'
  <2>1. \A n \in finished : Reply(n)' = Reply(n) /\ Reply(n).role = "reply"
    BY <1>1, SaidIs DEF Reply, Said
  <2> QED
    BY <1>1, <2>1 DEF Stays
<1>2. ASSUME NEW l \in loads, Answer(l)
      PROVE  Stays'
  <2>1. UNCHANGED <<finished, sentIn, sent, sending>>
    BY <1>2 DEF Answer, Serve, ListFound, ListEmpty, History, Earlier, LoadFails, sends
  <2>2. \A n \in finished : Reply(n)' = Reply(n)
    BY <2>1 DEF Reply, Said
  <2>3. CASE ListEmpty(l)
    <3>1. l.back /\ l.got = NoSession /\ mode' = l.mode /\ l.since = sent
      BY <1>2, <2>3, CalmAnswer DEF ListEmpty
    <3>2. \A n \in finished : sentIn[n] # l.mode
      BY <3>1 DEF GotAll
    <3> QED
      BY <2>1, <3>1, <3>2 DEF Stays
  <2>4. CASE History(l) /\ Current(l)
    <3>1. l.back /\ messages' = Window(l.got) /\ mode' = l.mode /\ l.since = sent
      BY <1>2, <2>4, CalmAnswer DEF History
    <3>2. \A n \in finished : sentIn[n] = l.mode => Reply(n) \in l.got
      BY <3>1 DEF GotAll
    <3>3. \A n \in finished : Reply(n).role = "reply"
      BY SaidIs DEF Reply
    <3> QED
      BY <2>1, <2>2, <3>1, <3>2, <3>3 DEF Stays, Window
  <2>5. CASE Serve(l) \/ ListFound(l) \/ (History(l) /\ ~Current(l)) \/ Earlier(l) \/ LoadFails(l)
    <3>1. messages \subseteq messages' /\ mode' = mode
      BY <2>5 DEF Serve, ListFound, History, Earlier, LoadFails, scope, window
    <3> QED
      BY <1>1, <2>1, <3>1
  <2> QED
    BY <1>2, <2>3, <2>4, <2>5 DEF Answer
<1>3. CASE Send
  <2>1. messages \subseteq messages' /\ UNCHANGED <<finished, mode>> /\ sentIn' = [sentIn EXCEPT ![sent + 1] = mode]
    BY <1>3 DEF Send, scope
  <2>2. \A n \in finished : n # sent + 1
    BY <1>0, PageAssumption DEF PageInv, Types, SendsInOrder, Sends
  <2>3. \A n \in finished : sentIn'[n] = sentIn[n]
    BY <1>0, <2>1, <2>2 DEF PageInv, Types
  <2>4. \A n \in finished : Reply(n)' = Reply(n)
    BY <2>3 DEF Reply, Said
  <2> QED
    BY <2>1, <2>3, <2>4 DEF Stays
<1>4. ASSUME Withdraw \/ RetryPage \/ ScrollUp \/ SwitchMode \/ Retry \/ LeavePage \/ UNCHANGED pageVars
      PROVE  Stays'
  <2>1. UNCHANGED <<finished, sentIn, mode>>
    BY <1>4 DEF Withdraw, RetryPage, ScrollUp, SwitchMode, Retry, LeavePage, pageVars, sends, scope
  <2>2. \A x \in messages : x.role = "reply" => x \in messages'
    BY <1>4 DEF Withdraw, RetryPage, ScrollUp, SwitchMode, Retry, LeavePage, pageVars, window
  <2> QED
    BY <1>1, <2>1, <2>2
<1>5. ASSUME NEW n \in Sends, Breaks(n) \/ Closes(n) \/ EndsSilently(n) \/ Server(n)
      PROVE  Stays'
  <2>1. UNCHANGED <<finished, sentIn, mode, messages>>
    BY <1>5 DEF Breaks, Closes, EndsSilently, Server, sends, scope, window
  <2> QED
    BY <1>1, <2>1
<1>6. ASSUME NEW n \in Sends, Refused(n)
      PROVE  Stays'
  <2>1. UNCHANGED <<finished, sentIn, mode>>
    BY <1>6 DEF Refused
  <2>2. \A x \in messages : x.role = "reply" => x \in messages'
    BY <1>6, SaidIs DEF Refused
  <2> QED
    BY <1>1, <2>1, <2>2
<1>7. ASSUME NEW n \in Sends, Done(n) \/ Lookup(n)
      PROVE  Stays'
  <2>1. link[n] = "open" \/ (link[n] = "lookup" /\ n \notin finished)
    BY <1>7 DEF Done, Lookup
  <2>2. sentIn[n] = mode /\ Bubble(n) \in messages
    BY <2>1 DEF OneOnItsWay
  <2>3. mode' = mode /\ sentIn' = sentIn
    BY <1>7, <2>2 DEF Done, Lookup
  <2>4. \A x \in messages : x.role = "reply" => x \in Fill(n)
    BY FillKeeps DEF PageInv
  <2>5. CASE Done(n)
    <3>1. finished' = finished \cup {n} /\ messages' = Fill(n)
      BY <2>5 DEF Done
    <3>2. Reply(n) \in Fill(n)
      BY <2>2, FillKeeps DEF PageInv
    <3>3. \A k \in Sends : Reply(k)' = Reply(k) /\ Reply(k).role = "reply"
      BY <2>3, SaidIs DEF Reply, Said
    <3> QED
      BY <1>0, <2>3, <2>4, <3>1, <3>2, <3>3 DEF Stays
  <2>6. CASE Lookup(n)
    <3>1. finished' = finished /\ (messages' = messages \/ messages' = Fill(n))
      BY <2>6 DEF Lookup
    <3> QED
      BY <1>1, <2>3, <2>4, <3>1
  <2> QED
    BY <1>7, <2>5, <2>6
<1> QED
  BY <1>2, <1>3, <1>4, <1>5, <1>6, <1>7, PageSteps

LEMMA CalmInit == PageInit => CalmInv
  BY DEF PageInit, CalmInv, OneOnItsWay, EarlierHere, GotAll, Shown, Stays

LEMMA CalmStays ==
  ASSUME NoSessionIsApart, PageInv, CalmInv, [PageNext]_pageVars
  PROVE  CalmInv'
<1> SUFFICES ASSUME crossed' = {} PROVE (OneOnItsWay /\ EarlierHere /\ GotAll /\ Shown /\ Stays)'
  BY DEF CalmInv
<1>1. crossed = {}
  BY CrossedGrows
<1>2. OneOnItsWay /\ EarlierHere /\ GotAll /\ Shown /\ Stays
  BY <1>1 DEF CalmInv
<1>3. PageInv'
  BY PageInvStays
<1> QED
  BY <1>2, <1>3, OneStays, EarlierStaysHere, GotAllStays, ShownStays, StaysStays

\* The chat page shows messages of its scope alone, through switches that fail,
\* retries, and windows that come too late, until something crosses.
THEOREM PageShowsItsScope == ASSUME NoSessionIsApart PROVE PageSpec => []ShownIsScope
<1>1. PageInit => PageInv /\ CalmInv
  BY PageInvInit, CalmInit
<1>2. PageInv /\ CalmInv /\ [PageNext]_pageVars => PageInv' /\ CalmInv'
  BY PageInvStays, CalmStays
<1>3. PageInv /\ CalmInv => ShownIsScope
  BY DEF CalmInv, Shown, ShownIsScope
<1> QED
  BY <1>1, <1>2, <1>3, PTL DEF PageSpec

\* A reply that onDone has shown stays on the page while its mode does.
THEOREM PageKeepsReplies == ASSUME NoSessionIsApart PROVE PageSpec => []RepliesShown
<1>1. PageInit => PageInv /\ CalmInv
  BY PageInvInit, CalmInit
<1>2. PageInv /\ CalmInv /\ [PageNext]_pageVars => PageInv' /\ CalmInv'
  BY PageInvStays, CalmStays
<1>3. PageInv /\ CalmInv => RepliesShown
  BY DEF CalmInv, Stays, RepliesShown, Reply
<1> QED
  BY <1>1, <1>2, <1>3, PTL DEF PageSpec
=============================================================================
