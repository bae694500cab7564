------------------------------ MODULE ChatPage ------------------------------
(***************************************************************************)
(* The chat page of the mini-program (apps/miniapp, pages/chat/index.tsx)  *)
(* over services/api.ts: one character in two modes, whose histories are   *)
(* loaded, paged upwards and switched between while messages are streamed. *)
(* Everything runs on one thread, but every request answers when it likes. *)
(*                                                                         *)
(* The character's details are loaded without fault, before the histories. *)
(* A history is its set of messages, a window of it the set without its    *)
(* older ones.  What the server does with a message is chat/stream's; here *)
(* it stores the message, stores a reply, or refuses.                      *)
(***************************************************************************)
EXTENDS Naturals, FiniteSets

CONSTANTS Modes, Script,     \* the mode whose script may be withdrawn
          MaxSends, MaxTaps, \* bounds: messages sent, other things the user does
          MaxFailures,       \* bound: answers that are lost, connections that fail
          NoSession          \* a mode without one

ASSUME PageAssumption ==
  MaxSends \in Nat /\ MaxTaps \in Nat /\ MaxFailures \in Nat /\ Script \in Modes

Sends == 1..MaxSends

VARIABLES stored, withdrawn,        \* each mode's session: its messages, or None
          phase,                    \* pageLoading; pageError; the page left
          mode, known, canSend,     \* the scope: mode, and is its session's id known?
          messages, hasMore,
          errored,                  \* historyError is shown, with its button
          loading, earlierLoading,  \* historyLoading, earlierLoadingRef
          switching, sending,       \* scopeSwitchingRef, sendingRef
          loadId,                   \* historyLoadIdRef
          loads,                    \* requests for histories that have not come back
          requested, taps,          \* how many there were; what the user did
          sent,                     \* how many messages were sent
          sentIn,                   \* the mode each was sent in
          served,                   \* what the server did with it
          link,                     \* its stream
          finished,                 \* messages whose reply the page showed as done
          failures,
          crossed,                  \* what the page let cross, see Properties
          silent                    \* messages whose stream ended without a word

server == <<stored, withdrawn, served>>
scope == <<mode, known, canSend>>
window == <<messages, hasMore, errored>>
flags == <<loading, earlierLoading, switching, loadId>>
sends == <<sending, sent, sentIn, link, finished, silent>>
asking == <<loads, requested, taps>>
pageVars == <<server, phase, scope, window, flags, asking, sends, failures, crossed>>

\* Roles: a message of an earlier day, one of a recent day, one sent from the
\* page, its reply, and the bubble that waits for the reply.
PageMessage == [mode : Modes, no : 0..MaxSends, role : {"older", "recent", "user", "reply", "bubble"}]
Said(m, n, role) == [mode |-> m, no |-> n, role |-> role]
Older(m) == Said(m, 0, "older")
Window(h) == {x \in h : x.role # "older"}

Load == [kind : {"list", "history", "earlier"}, why : {"boot", "switch", "retry", "refused", "scroll"},
         mode : Modes, id : Nat, no : Nat \ {0}, since : 0..MaxSends,
         back : BOOLEAN, got : (SUBSET PageMessage) \cup {NoSession}, open : BOOLEAN]

\* The page opens on a session of the chat list, or on a character in a mode.
PageInit ==
  /\ \E some \in SUBSET Modes :
       stored = [m \in Modes |-> IF m \in some THEN {Older(m), Said(m, 0, "recent")} ELSE NoSession]
  /\ withdrawn = FALSE
  /\ phase = "loading"
  /\ mode \in Modes
  /\ known \in {FALSE, stored[mode] # NoSession} /\ canSend = TRUE
  /\ messages = {} /\ hasMore = FALSE /\ errored = FALSE
  /\ loading = known /\ earlierLoading = FALSE /\ switching = FALSE /\ sending = FALSE
  /\ loadId = IF known THEN 1 ELSE 0
  /\ loads = {[kind |-> IF known THEN "history" ELSE "list", why |-> "boot", mode |-> mode,
               id |-> loadId, no |-> 1, since |-> 0, back |-> FALSE, got |-> NoSession, open |-> TRUE]}
  /\ requested = 1 /\ taps = 0
  /\ sent = 0 /\ sentIn = [n \in Sends |-> NoSession] /\ served = [n \in Sends |-> "none"]
  /\ link = [n \in Sends |-> "none"] /\ finished = {}
  /\ failures = 0 /\ crossed = {} /\ silent = {}

Ready == phase = "ready"
MayBreak == failures < MaxFailures /\ failures' = failures + 1

-----------------------------------------------------------------------------
(* Requests for histories.                                                 *)

\* Messages that are over.
Over == IF sending THEN sent - 1 ELSE sent

NewLoad(kind, why, m, id, over) ==
  [kind |-> kind, why |-> why, mode |-> m, id |-> id, no |-> requested + 1, since |-> over,
   back |-> FALSE, got |-> NoSession, open |-> TRUE]

Ask(kind, why, m, id) ==
  /\ requested' = requested + 1
  /\ loads' = loads \cup {NewLoad(kind, why, m, id, Over)}

\* What loadSessionHistory resets before it asks; l came back, over messages are.
LoadSession(why, m, l, over) ==
  /\ requested' = requested + 1 /\ loadId' = loadId + 1
  /\ loads' = (loads \ l) \cup {NewLoad("history", why, m, loadId + 1, over)}
  /\ loading' = TRUE /\ errored' = FALSE /\ earlierLoading' = FALSE /\ hasMore' = FALSE

\* The server reads what l asks for.
Serve(l) ==
  /\ ~l.back
  /\ loads' = (loads \ {l}) \cup
       {[l EXCEPT !.back = TRUE, !.got = stored[l.mode], !.open = ~(withdrawn /\ l.mode = Script)]}
  /\ UNCHANGED <<server, phase, scope, window, flags, requested, taps, sends, failures, crossed>>

\* The page applies the answer of l while a message is on its way, or after one
\* that was not over when l was asked for.
Crosses(l) == IF sending \/ sent # l.since THEN {"send"} ELSE {}

\* Whoever awaited l goes on: the boot shows the page, or that it failed if it
\* had been opened on a session; handleModeChange ends.
Resume(l, failed) ==
  /\ phase' = CASE l.why # "boot" -> phase
               [] l.why = "boot" /\ failed /\ known -> "failed"
               [] OTHER -> "ready"
  /\ switching' = (switching /\ l.why # "switch")

\* loadScopeHistory finds a session,
ListFound(l) ==
  /\ l.back /\ l.kind = "list" /\ l.got # NoSession
  /\ LoadSession(l.why, l.mode, {l}, Over)
  /\ UNCHANGED <<server, phase, scope, messages, switching, taps, sends, failures, crossed>>

\* Older messages that are on their way still count as the page's.
KeepsEarlier == IF \E e \in loads : e.kind = "earlier" /\ e.id = loadId THEN {"earlier"} ELSE {}

\* or none: the mode starts with an empty page.
ListEmpty(l) ==
  /\ l.back /\ l.kind = "list" /\ l.got = NoSession
  /\ loads' = loads \ {l}
  /\ messages' = {} /\ hasMore' = FALSE /\ errored' = FALSE /\ earlierLoading' = FALSE
  /\ mode' = l.mode /\ known' = FALSE /\ canSend' = TRUE
  /\ Resume(l, FALSE)
  /\ crossed' = crossed \cup Crosses(l) \cup KeepsEarlier
  /\ UNCHANGED <<server, loading, loadId, requested, taps, sends, failures>>

\* Mutant: whatever answer comes is shown.
AnyAnswer(l) == TRUE
Current(l) == l.id = loadId

\* loadSessionHistory shows the window, unless a newer one was asked for.
History(l) ==
  /\ l.back /\ l.kind = "history"
  /\ loads' = loads \ {l}
  /\ IF Current(l)
     THEN /\ messages' = Window(l.got) /\ hasMore' = (Older(l.mode) \in l.got)
          /\ mode' = l.mode /\ known' = TRUE /\ canSend' = l.open /\ loading' = FALSE
          /\ crossed' = crossed \cup Crosses(l)
     ELSE UNCHANGED <<messages, hasMore, scope, loading, crossed>>
  /\ Resume(l, ~Current(l))
  /\ UNCHANGED <<server, errored, earlierLoading, loadId, requested, taps, sends, failures>>

\* loadEarlierMessages puts the older messages before those on the page.
Earlier(l) ==
  /\ l.back /\ l.kind = "earlier"
  /\ loads' = loads \ {l}
  /\ earlierLoading' = FALSE
  /\ IF Current(l)
     THEN messages' = messages \cup {Older(l.mode)} /\ hasMore' = FALSE
     ELSE UNCHANGED <<messages, hasMore>>
  /\ UNCHANGED <<server, phase, scope, errored, loading, switching, loadId, requested, taps, sends, failures, crossed>>

\* A request fails, after its retries; so does one of a login that is no more.
LoadFails(l) ==
  /\ MayBreak
  /\ loads' = loads \ {l}
  /\ earlierLoading' = (earlierLoading /\ l.kind # "earlier")
  /\ loading' = (loading /\ ~(l.kind = "history" /\ Current(l)))
  /\ errored' = (errored \/ l.kind = "list" \/ (l.kind = "history" /\ Current(l)))
  /\ Resume(l, TRUE)
  /\ UNCHANGED <<server, scope, messages, hasMore, loadId, requested, taps, sends, crossed>>

-----------------------------------------------------------------------------
(* What the user does.                                                     *)

Tap == taps < MaxTaps /\ taps' = taps + 1

\* The page did not open: once more.
RetryPage ==
  /\ phase = "failed" /\ Tap
  /\ phase' = "loading"
  /\ LoadSession("boot", mode, {}, Over)
  /\ UNCHANGED <<server, scope, messages, switching, sends, failures, crossed>>

\* onScrollToUpper
ScrollUp ==
  /\ Ready /\ known /\ ~earlierLoading /\ ~loading /\ messages # {} /\ hasMore
  /\ Tap /\ Ask("earlier", "scroll", mode, loadId)
  /\ earlierLoading' = TRUE
  /\ UNCHANGED <<server, phase, scope, window, loading, switching, loadId, sends, failures, crossed>>

\* Mutant: the mode may be changed while a message is on its way.
MaySwitchAnyTime == ~switching
MaySwitch == ~sending /\ ~switching

\* handleModeChange; bubbles that were left over go.
SwitchMode ==
  /\ Ready /\ canSend /\ MaySwitch
  /\ Tap /\ \E m \in Modes \ {mode} : Ask("list", "switch", m, 0)
  /\ switching' = TRUE
  /\ messages' = {x \in messages : x.role # "bubble"}
  /\ UNCHANGED <<server, phase, scope, hasMore, errored, loading, earlierLoading, loadId, sends, failures, crossed>>

\* retryHistoryLoad: the session of the page, or a search for it.
Retry ==
  /\ Ready /\ errored /\ Tap
  /\ IF known
     THEN LoadSession("retry", mode, {}, Over)
     ELSE /\ Ask("list", "retry", mode, 0)
          /\ UNCHANGED <<loading, errored, earlierLoading, hasMore, loadId>>
  /\ UNCHANGED <<server, phase, scope, messages, switching, sends, failures, crossed>>

\* handleSend: to the session of the scope, or to the mode's.
Send ==
  /\ Ready /\ canSend /\ ~sending /\ ~switching /\ sent < MaxSends
  /\ sent' = sent + 1 /\ sending' = TRUE
  /\ sentIn' = [sentIn EXCEPT ![sent + 1] = mode]
  /\ link' = [link EXCEPT ![sent + 1] = "open"]
  /\ served' = [served EXCEPT ![sent + 1] = "sent"]
  /\ messages' = messages \cup {Said(mode, sent + 1, "user"), Said(mode, sent + 1, "bubble")}
  /\ UNCHANGED <<stored, withdrawn, phase, scope, hasMore, errored, flags, asking, finished, failures, crossed, silent>>

\* useUnload: the stream is aborted, and every later answer ignored.
LeavePage ==
  /\ phase \in {"ready", "failed"}
  /\ phase' = "left"
  /\ UNCHANGED <<server, scope, window, flags, asking, sends, failures, crossed>>

-----------------------------------------------------------------------------
(* A message on its way.                                                   *)

Keep(n, role) ==
  LET m == sentIn[n]
  IN stored' = [stored EXCEPT ![m] = (IF @ = NoSession THEN {} ELSE @) \cup {Said(m, n, role)}]

\* The server stores the message, in the mode's session or a new one; then the
\* reply, or nothing; or it refuses at once.  A character whose script is gone
\* is refused in both modes.
Refusals(n) == IF withdrawn THEN {"unavailable"} ELSE {"blocked", "mismatch"}
Serves(n) ==
  \/ /\ served[n] = "sent" /\ "unavailable" \notin Refusals(n)
     /\ Keep(n, "user") /\ served' = [served EXCEPT ![n] = "stored"]
  \/ served[n] = "stored" /\ Keep(n, "reply") /\ served' = [served EXCEPT ![n] = "replied"]
  \/ \E e \in Refusals(n) :
       served[n] = "sent" /\ UNCHANGED stored /\ served' = [served EXCEPT ![n] = e]

Server(n) ==
  /\ Serves(n)
  /\ UNCHANGED <<withdrawn, phase, scope, window, flags, asking, sends, failures, crossed>>

\* The script is taken off the shelf, in the database: no route does.
Withdraw ==
  /\ ~withdrawn /\ withdrawn' = TRUE
  /\ UNCHANGED <<stored, served, phase, scope, window, flags, asking, sends, failures, crossed>>

\* The bubble of n becomes the reply: nothing does if the bubble is gone.
Fill(n) ==
  LET bubble == Said(sentIn[n], n, "bubble")
  IN IF bubble \in messages THEN (messages \ {bubble}) \cup {Said(sentIn[n], n, "reply")} ELSE messages

\* onDone; the connection itself may stay open for a while.
Done(n) ==
  /\ link[n] = "open" /\ served[n] = "replied"
  /\ link' = [link EXCEPT ![n] = "drained"]
  /\ mode' = sentIn[n] /\ known' = TRUE
  /\ messages' = Fill(n)
  /\ sending' = FALSE /\ finished' = finished \cup {n}
  /\ UNCHANGED <<server, phase, canSend, hasMore, errored, flags, asking, sent, sentIn, failures, crossed, silent>>

\* Mutant: the input stays closed after a refusal.
StillSending(n) == sending
SendingAfterRefusal(n) == FALSE

\* onError with a code that needs no lookup.  Of a script that is gone, and of
\* a scope mismatch, the session is loaded again, when the message is over;
\* without one the message goes.
Refused(n) ==
  /\ link[n] = "open" /\ served[n] \in {"blocked", "mismatch", "unavailable"}
  /\ link' = [link EXCEPT ![n] = "closed"]
  /\ messages' = messages \ {Said(sentIn[n], n, role) :
                    role \in {"bubble"} \cup (IF served[n] = "unavailable" /\ ~known THEN {"user"} ELSE {})}
  /\ sending' = SendingAfterRefusal(n)
  /\ canSend' = (canSend /\ served[n] # "unavailable")
  /\ IF served[n] # "blocked" /\ known
     THEN LoadSession("refused", mode, {}, sent)
     ELSE UNCHANGED <<hasMore, errored, loading, earlierLoading, loadId, loads, requested>>
  /\ UNCHANGED <<server, phase, mode, known, switching, taps, sent, sentIn, finished, failures, crossed, silent>>

\* onError otherwise: the stream broke, stalled for STREAM_STALLED_TIMEOUT_MS, or
\* said so.  A connection that fails after onDone is an error like any other.
Breaks(n) ==
  /\ link[n] \in {"open", "drained"}
  /\ link[n] = "drained" => MayBreak
  /\ link[n] = "open" => UNCHANGED failures
  /\ link' = [link EXCEPT ![n] = "lookup"]
  /\ UNCHANGED <<server, phase, scope, window, flags, asking, sending, sent, sentIn, finished, crossed, silent>>

\* reconcileFailedSend: the server is asked what became of the message, or not
\* even asked (a login that expired, onAuthExpired).
Lookup(n) ==
  /\ link[n] = "lookup"
  /\ link' = [link EXCEPT ![n] = "closed"]
  /\ sending' = FALSE
  /\ \/ /\ served[n] = "replied" /\ messages' = Fill(n)
        /\ mode' = sentIn[n] /\ known' = TRUE
     \/ /\ served[n] \in {"stored", "replied"} /\ messages' = messages
        /\ mode' = sentIn[n] /\ known' = TRUE
     \/ UNCHANGED <<messages, mode, known>>
  /\ crossed' = crossed \cup (IF n \in finished THEN {"late"} ELSE {})
  /\ UNCHANGED <<server, phase, canSend, hasMore, errored, flags, asking, sent, sentIn, finished, failures, silent>>

\* The connection of a message that is done closes.
Closes(n) ==
  /\ link[n] = "drained"
  /\ link' = [link EXCEPT ![n] = "closed"]
  /\ UNCHANGED <<server, phase, scope, window, flags, asking, sending, sent, sentIn, finished, failures, crossed, silent>>

\* The response ends without a last event, or the login of the stream is no
\* more: streamChat calls nobody.
EndsSilently(n) ==
  /\ link[n] = "open" /\ MayBreak
  /\ link' = [link EXCEPT ![n] = "closed"]
  /\ silent' = silent \cup {n}
  /\ UNCHANGED <<server, phase, scope, window, flags, asking, sending, sent, sentIn, finished, crossed>>

-----------------------------------------------------------------------------
Answer(l) == Serve(l) \/ ListFound(l) \/ ListEmpty(l) \/ History(l) \/ Earlier(l) \/ LoadFails(l)
Arrives(i) == phase # "left" /\ \E l \in loads : l.no = i /\ Answer(l)
Heard(n) == phase # "left" /\ (Done(n) \/ Refused(n) \/ Breaks(n) \/ Lookup(n))
Connection(n) == phase # "left" /\ (Closes(n) \/ EndsSilently(n))

\* Bound on requested: the boot, and two requests for each thing the user does.
LoadNumbers == 1..(2 + 2 * (MaxTaps + MaxSends))

PageNext ==
  \/ \E i \in LoadNumbers : Arrives(i)
  \/ \E n \in Sends : Heard(n) \/ Connection(n) \/ Server(n)
  \/ Withdraw \/ RetryPage \/ ScrollUp \/ SwitchMode \/ Retry \/ Send \/ LeavePage

PageSpec == PageInit /\ [][PageNext]_pageVars

-----------------------------------------------------------------------------
\* Properties.  The page lets three things cross, which crossed records:
\*   "send"     the answer to a load is applied while a message is on its way
\*   "earlier"  the page of a mode without a session takes older messages that
\*              were asked for before
\*   "late"     a connection fails after onDone and the message is looked up

\* Every variable holds a value of its state or ref.
PageTypeOK ==
  /\ stored \in [Modes -> (SUBSET PageMessage) \cup {NoSession}] /\ withdrawn \in BOOLEAN
  /\ phase \in {"loading", "ready", "failed", "left"}
  /\ mode \in Modes /\ known \in BOOLEAN /\ canSend \in BOOLEAN
  /\ messages \subseteq PageMessage /\ hasMore \in BOOLEAN /\ errored \in BOOLEAN
  /\ loading \in BOOLEAN /\ earlierLoading \in BOOLEAN /\ switching \in BOOLEAN /\ sending \in BOOLEAN
  /\ loads \subseteq Load /\ requested \in LoadNumbers /\ loadId \in 0..requested /\ taps \in 0..MaxTaps
  /\ sent \in 0..MaxSends /\ sentIn \in [Sends -> Modes \cup {NoSession}]
  /\ served \in [Sends -> {"none", "sent", "stored", "replied", "blocked", "mismatch", "unavailable"}]
  /\ link \in [Sends -> {"none", "open", "drained", "lookup", "closed"}]
  /\ finished \subseteq 1..sent /\ silent \subseteq 1..sent
  /\ failures \in 0..MaxFailures /\ crossed \subseteq {"send", "earlier", "late"}

\* What the user reads is what the next message continues: the page shows
\* messages of its scope's mode alone, and replies only of a session it knows,
\* through switches that fail, retries, and windows that come too late.
ShownIsScope ==
  crossed = {} => \A x \in messages : x.mode = mode /\ (x.role = "reply" => known)

\* A reply that was shown as done stays on the page as long as its mode does.
RepliesShown ==
  crossed = {} => \A n \in finished : sentIn[n] = mode => Said(mode, n, "reply") \in messages

\* The input is closed only while an answer is awaited that opens it again,
\* whatever else is lost, refused or late, unless a stream ended without a word.
InputOpens ==
  /\ sending => link[sent] \in {"open", "lookup"} \/ sent \in silent
  /\ switching => \E l \in loads : l.why = "switch"

\* "on return compared, and if not the same the result is discarded (the
\* session was switched)": older messages appear in their own mode's page.
EarlierIsDiscarded ==
  crossed \subseteq {"earlier"} => \A x \in messages : x.role = "older" => x.mode = mode
=============================================================================
