------------------------------- MODULE Intake -------------------------------
(***************************************************************************)
(* How messages and documents become requests and commands: the chat and   *)
(* document part of poller.py, and app.py, whose webhook hands the same    *)
(* messages to the same handlers.  One chat, one document, two processes:  *)
(* the thread "poll" of the polling loop and the thread "api" of the       *)
(* webhook's background tasks.  The requests are those of Requests.        *)
(*                                                                         *)
(* A step is one Feishu request, one transaction, or a step of Requests.   *)
(***************************************************************************)
EXTENDS RequestSettings, Naturals, Sequences

CONSTANTS
    Messages, Kind,       \* what a message asks for, see Kinds
    Contents,             \* of the document; its first content
    FirstContent,
    RequestOf,            \* the request a message or a content spells
    Threshold,            \* max_parse_failures_before_handoff
    Overlap,              \* the 5 seconds a listing reaches behind the cursor
    Lag,                  \* after which a message can be listed
    Lookback,             \* manual_poll_lookback_sec
    MaxTime, MaxEvents,   \* bounds: the clock; messages, edits, webhook calls;
    MaxTroubles,          \* failed requests and deaths;
    Scenes                \* the messages that are posted in one behaviour

Kinds == {"chatter", "request", "unclear", "command", "check"}
Threads == {"poll", "api"}
Places  == {"idle", "down", "next", "handle", "recheck", "submit", "mark", "notice",
            "warn", "handoff", "reject", "doc", "submitdoc"}

ASSUME IntakeAssumption ==
    /\ Kind \in [Messages -> Kinds] /\ FirstContent \in Contents
    /\ \A x \in Messages \cup Contents : RequestOf[x] \in Requests \cup {None}
    /\ \A m \in Messages : Kind[m] = "request" => RequestOf[m] # None
    /\ None \notin Messages \cup Contents
    /\ Scenes \subseteq SUBSET Messages
    /\ Threshold \in Nat \ {0} /\ Lag \in Nat /\ Overlap \in Nat /\ Lag <= Overlap
    /\ Lookback \in Nat /\ MaxTime \in Nat /\ MaxEvents \in Nat /\ MaxTroubles \in Nat

VARIABLES
    status, sent, doing,  \* of Requests
    now,        \* the clock
    at,         \* when a message was posted, 0 if it was not
    shown,      \* the messages that Feishu lists
    doc,        \* the document's content
    marked,     \* processed_items: the messages done with
    cursor,     \* source_cursors: of the chat, 0 if there is none
    docCursor,  \* of the document
    failures,   \* issue_counts: of the parse failure
    alerted,
    suppressed, \* the chat is in _suppressed_chat_ids
    pc, msg,    \* where a thread is, and with which message
    polls,      \* its calls of _poll_chat: messages left, start, max_seen, who called
    obeyed,     \* history: how often a command was carried out
    warnings, handoffs,  \* history: sent about the parse failure
    events, calls, troubles, deaths  \* bounds; calls of the webhook for a message

requests == <<status, sent, doing>>
world    == <<now, at, shown, doc>>
cursors  == <<cursor, docCursor>>
issue    == <<failures, alerted, warnings, handoffs>>
bounds   == <<events, calls, troubles, deaths>>
vars == <<requests, world, marked, cursors, issue, suppressed, pc, msg, polls,
          obeyed, bounds>>

R == INSTANCE Requests

Init ==
    /\ R!Init
    /\ now = 1 /\ at = [m \in Messages |-> 0] /\ shown = {} /\ doc = FirstContent
    /\ marked = {} /\ cursor = 0 /\ docCursor = None
    /\ failures = 0 /\ alerted = FALSE /\ warnings = 0 /\ handoffs = 0
    /\ suppressed = FALSE
    /\ pc = [t \in Threads |-> "idle"] /\ msg = [t \in Threads |-> None]
    /\ polls = [t \in Threads |-> <<>>]
    /\ obeyed = [m \in Messages |-> 0] /\ calls = 0
    /\ events = 0 /\ troubles = 0 /\ deaths = 0

\* Time matters when a message is posted.  No message is listed later than Lag.
PassTime ==
    /\ now' \in now..MaxTime
    /\ \A m \in Messages : at[m] # 0 /\ m \notin shown => now' <= at[m] + Lag

Trouble == troubles < MaxTroubles /\ troubles' = troubles + 1
Event   == events < MaxEvents /\ events' = events + 1

Go(t, place) == pc' = [pc EXCEPT ![t] = place]

\* The handler returns: to its listing, or the task of the webhook ends.
Finish(t) ==
    /\ Go(t, IF polls[t] = <<>> THEN "idle" ELSE "next")
    /\ msg' = [msg EXCEPT ![t] = None]

\* An exception ends all calls of _poll_chat; the loop goes on to the document.
Raise(t) ==
    /\ Go(t, IF t = "poll" THEN "doc" ELSE "idle")
    /\ msg' = [msg EXCEPT ![t] = None]
    /\ polls' = [polls EXCEPT ![t] = <<>>]

-----------------------------------------------------------------------------
\* _poll_chat.

\* Faulty variant: the listing begins at the cursor.
SinceCursor(c) == c
Since(c) == IF c > Overlap THEN c - Overlap ELSE 0

\* Faulty variant: a page of one message, the latest.
ListingLatest(from) ==
    {m \in shown : at[m] >= from /\ \A n \in shown : at[n] <= at[m]}
Listing(from) == {m \in shown : at[m] >= from}

Poll(t, from, by) ==
    /\ polls' = [polls EXCEPT ![t] =
          <<[todo |-> Listing(from), from |-> from, by |-> by,
             seen |-> IF cursor = 0 THEN now ELSE cursor]>> \o @]
    /\ Go(t, "next")

\* A tick of the loop begins.
FirstPoll ==
    /\ pc["poll"] = "idle" /\ ~suppressed /\ cursor = 0
    /\ cursor' = now
    /\ Go("poll", "doc")
    /\ UNCHANGED <<requests, world, marked, docCursor, issue, suppressed, msg, polls,
                   obeyed, bounds>>

PollChat ==
    /\ pc["poll"] = "idle" /\ ~suppressed /\ cursor # 0
    /\ Poll("poll", Since(cursor), None)
    /\ UNCHANGED <<requests, world, marked, cursors, issue, suppressed, msg, obeyed,
                   bounds>>

\* Feishu fails, or says the bot is not in the chat.
ListingFails ==
    /\ pc["poll"] = "idle" /\ ~suppressed /\ cursor # 0 /\ Trouble
    /\ suppressed' \in BOOLEAN
    /\ Go("poll", "doc")
    /\ UNCHANGED <<requests, world, marked, cursors, issue, msg, polls, obeyed,
                   events, calls, deaths>>

SkipChat ==
    /\ pc["poll"] = "idle" /\ suppressed
    /\ Go("poll", "doc")
    /\ UNCHANGED <<requests, world, marked, cursors, issue, suppressed, msg, polls,
                   obeyed, bounds>>

\* What is left of the listing p once m is taken from it.
Without(p, m) ==
    [p EXCEPT !.todo = @ \ {m}, !.seen = IF @ < at[m] THEN at[m] ELSE @]

\* The earliest message of the listing; nothing is done if it is done with.
TakeMessage(t) ==
    /\ pc[t] = "next"
    /\ \E m \in polls[t][1].todo :
          /\ \A n \in polls[t][1].todo : at[m] <= at[n]
          /\ polls' = [polls EXCEPT ![t] = <<Without(Head(@), m)>> \o Tail(@)]
          /\ IF m \in marked
             THEN UNCHANGED <<pc, msg>>
             ELSE Go(t, "handle") /\ msg' = [msg EXCEPT ![t] = m]
    /\ UNCHANGED <<requests, world, marked, cursors, issue, suppressed, obeyed, bounds>>

\* The listing is done: the cursor is saved, and the loop or the message that
\* asked for it goes on.
SaveCursor(t) ==
    /\ pc[t] = "next" /\ polls[t][1].todo = {}
    /\ cursor' = polls[t][1].seen
    /\ polls' = [polls EXCEPT ![t] = Tail(@)]
    /\ IF polls[t][1].by = None THEN Go(t, "doc") /\ UNCHANGED msg
       ELSE Go(t, "notice") /\ msg' = [msg EXCEPT ![t] = polls[t][1].by]
    /\ UNCHANGED <<requests, world, marked, docCursor, issue, suppressed, obeyed,
                   bounds>>

-----------------------------------------------------------------------------
\* _handle_message_item, by kind.

OfKind(k) == {m \in Messages : Kind[m] = k}
Handles(t, k) == pc[t] = "handle" /\ msg[t] \in OfKind(k)
MarkMessage(t) == marked' = marked \cup {msg[t]}

\* Messages of the bot itself, of other types, without text or intent.
Ignore(t) ==
    /\ Handles(t, "chatter")
    /\ MarkMessage(t)
    /\ Finish(t)
    /\ UNCHANGED <<requests, world, cursors, issue, suppressed, polls, obeyed, bounds>>

\* The switch of Codex, a decision on a review, or a question (help, nodes).
Obey(t) ==
    /\ Handles(t, "command")
    /\ obeyed' = [obeyed EXCEPT ![msg[t]] = @ + 1]
    /\ Go(t, "mark")
    /\ UNCHANGED <<requests, world, marked, cursors, issue, suppressed, msg, polls,
                   bounds>>

\* A manual check polls the chat once more, from inside the handler.
ManualCheck(t) ==
    /\ Handles(t, "check")
    /\ MarkMessage(t)
    /\ Go(t, "recheck")
    /\ UNCHANGED <<requests, world, cursors, issue, suppressed, msg, polls, obeyed,
                   bounds>>

Recheck(t) ==
    /\ pc[t] = "recheck"
    /\ Poll(t, IF now > Lookback THEN now - Lookback ELSE 0, msg[t])
    /\ msg' = [msg EXCEPT ![t] = None]
    /\ UNCHANGED <<requests, world, marked, cursors, issue, suppressed, obeyed, bounds>>

RecheckFails(t) ==
    /\ pc[t] = "recheck" /\ Trouble
    /\ Raise(t)
    /\ UNCHANGED <<requests, world, marked, cursors, issue, suppressed, obeyed, events,
                   calls, deaths>>

\* A deployment request is executed before the handler goes on.
SubmitMessage(t) ==
    /\ Handles(t, "request")
    /\ R!Submit(t, RequestOf[msg[t]])
    /\ Go(t, "submit")
    /\ UNCHANGED <<world, marked, cursors, issue, suppressed, msg, polls, obeyed, bounds>>

\* Faulty variant: the handler does not wait for the execution.
SubmittedAtOnce(t) ==
    /\ pc[t] = "submit" /\ ~R!At(t, "raised")
    /\ UNCHANGED doing
    /\ IF msg[t] = None THEN Go(t, "idle") /\ UNCHANGED marked
                        ELSE Go(t, "notice") /\ MarkMessage(t)
    /\ UNCHANGED <<status, sent, world, cursors, issue, suppressed, msg, polls, obeyed,
                   bounds>>

\* submit has returned the request, new or old.
Submitted(t) ==
    /\ pc[t] = "submit" /\ R!At(t, "done")
    /\ R!Return(t)
    /\ IF msg[t] = None THEN Go(t, "idle") /\ UNCHANGED marked
                        ELSE Go(t, "notice") /\ MarkMessage(t)
    /\ UNCHANGED <<world, cursors, issue, suppressed, msg, polls, obeyed, bounds>>

SubmitRaises(t) ==
    /\ pc[t] = "submit" /\ R!At(t, "raised")
    /\ R!Return(t)
    /\ IF msg[t] = None THEN Go(t, "idle") /\ UNCHANGED <<msg, polls>> ELSE Raise(t)
    /\ UNCHANGED <<world, marked, cursors, issue, suppressed, obeyed, bounds>>

\* Faulty variant: the message is not marked.
MarkForgotten(t) ==
    /\ pc[t] = "mark"
    /\ Go(t, "notice")
    /\ UNCHANGED <<requests, world, marked, cursors, issue, suppressed, msg, polls,
                   obeyed, bounds>>

Mark(t) ==
    /\ pc[t] = "mark"
    /\ MarkMessage(t)
    /\ Go(t, "notice")
    /\ UNCHANGED <<requests, world, cursors, issue, suppressed, msg, polls, obeyed,
                   bounds>>

Notice(t) ==
    /\ pc[t] = "notice"
    /\ Finish(t)
    /\ UNCHANGED <<requests, world, marked, cursors, issue, suppressed, polls, obeyed,
                   bounds>>

\* Neither the card nor the text can be sent.
NoticeFails(t) ==
    /\ pc[t] = "notice" /\ Trouble
    /\ Raise(t)
    /\ UNCHANGED <<requests, world, marked, cursors, issue, suppressed, obeyed, events,
                   calls, deaths>>

-----------------------------------------------------------------------------
\* A request that cannot be parsed: _handle_parse_failure.

\* Faulty variant: handed off from the threshold on.
HandsOffFrom(n) == n >= Threshold
HandsOff(n) == n = Threshold /\ ~alerted

\* The count and the flag are two transactions, but one failure makes it to the
\* threshold.
CountFailure(t) ==
    /\ Handles(t, "unclear")
    /\ failures' = failures + 1
    /\ alerted' = (alerted \/ HandsOff(failures'))
    /\ Go(t, CASE failures' < Threshold -> "warn"
               [] HandsOff(failures')   -> "handoff"
               [] OTHER                 -> "reject")
    /\ UNCHANGED <<requests, world, marked, cursors, warnings, handoffs,
                   suppressed, msg, polls, obeyed, bounds>>

Warn(t) ==
    /\ pc[t] \in {"warn", "handoff"}
    /\ IF pc[t] = "warn" THEN warnings' = warnings + 1 /\ UNCHANGED handoffs
                         ELSE handoffs' = handoffs + 1 /\ UNCHANGED warnings
    /\ Go(t, "reject")
    /\ UNCHANGED <<requests, world, marked, cursors, failures, alerted, suppressed, msg,
                   polls, obeyed, bounds>>

\* The message is not marked, and will be handled and counted again.
WarnFails(t) ==
    /\ pc[t] \in {"warn", "handoff"} /\ Trouble
    /\ Raise(t)
    /\ UNCHANGED <<requests, world, marked, cursors, issue, suppressed, obeyed, events,
                   calls, deaths>>

Reject(t) ==
    /\ pc[t] = "reject"
    /\ MarkMessage(t)
    /\ Finish(t)
    /\ UNCHANGED <<requests, world, cursors, issue, suppressed, polls, obeyed, bounds>>

-----------------------------------------------------------------------------
\* _poll_document.  An exception ends the tick.  (Nobody reads the processed item
\* stored under the digest: the cursor decides.)

\* Where the loop goes with a changed content; nothing is sent about a content
\* that cannot be parsed.
DocPlace(c) == IF RequestOf[c] = None THEN "idle" ELSE "submitdoc"

ReadDocument ==
    /\ pc["poll"] = "doc"
    /\ docCursor' = doc
    /\ Go("poll", IF docCursor \in {None, doc} THEN "idle" ELSE DocPlace(doc))
    /\ UNCHANGED <<requests, world, marked, cursor, issue, suppressed, msg, polls,
                   obeyed, bounds>>

\* Faulty variant: the cursor is saved all the same.
ReadFailsLate ==
    /\ pc["poll"] = "doc" /\ Trouble
    /\ docCursor' = doc
    /\ Go("poll", "idle")
    /\ UNCHANGED <<requests, world, marked, cursor, issue, suppressed, msg, polls,
                   obeyed, events, calls, deaths>>

ReadFails ==
    /\ pc["poll"] = "doc" /\ Trouble
    /\ Go("poll", "idle")
    /\ UNCHANGED <<requests, world, marked, cursors, issue, suppressed, msg, polls,
                   obeyed, events, calls, deaths>>

SubmitDocument ==
    /\ pc["poll"] = "submitdoc"
    /\ R!Submit("poll", RequestOf[docCursor])
    /\ Go("poll", "submit")
    /\ UNCHANGED <<world, marked, cursors, issue, suppressed, msg, polls, obeyed, bounds>>

-----------------------------------------------------------------------------
\* Messages, and the webhook that Feishu may call for one, more than once.

Call(m) ==
    /\ pc["api"] = "idle" /\ m \notin marked
    /\ Go("api", "handle")
    /\ msg' = [msg EXCEPT !["api"] = m]
    /\ calls' = calls + 1

Post(m) ==
    /\ at[m] = 0 /\ Event
    /\ \E S \in Scenes : {m} \cup {n \in Messages : at[n] # 0} \subseteq S
    /\ PassTime
    /\ at' = [at EXCEPT ![m] = now']
    /\ Call(m) \/ UNCHANGED <<pc, msg, calls>>
    /\ UNCHANGED <<requests, shown, doc, marked, cursors, issue, suppressed, polls,
                   obeyed, troubles, deaths>>

Deliver(m) ==
    /\ at[m] # 0 /\ Event
    /\ Call(m)
    /\ UNCHANGED <<requests, world, marked, cursors, issue, suppressed, polls, obeyed,
                   troubles, deaths>>

\* A document event or POST /deployments.
DeliverRequest(r) ==
    /\ pc["api"] = "idle" /\ Event
    /\ R!Submit("api", r)
    /\ Go("api", "submit")
    /\ UNCHANGED <<world, marked, cursors, issue, suppressed, msg, polls, obeyed,
                   calls, troubles, deaths>>

-----------------------------------------------------------------------------
\* People and Feishu.

Show(m) ==
    /\ at[m] # 0 /\ m \notin shown
    /\ shown' = shown \cup {m}
    /\ UNCHANGED <<requests, now, at, doc, marked, cursors, issue, suppressed, pc, msg,
                   polls, obeyed, bounds>>

EditDocument(c) ==
    /\ c # doc /\ Event
    /\ doc' = c
    /\ UNCHANGED <<requests, now, at, shown, marked, cursors, issue, suppressed, pc, msg,
                   polls, obeyed, calls, troubles, deaths>>

EndSuppression ==
    /\ suppressed /\ suppressed' = FALSE
    /\ UNCHANGED <<requests, world, marked, cursors, issue, pc, msg, polls, obeyed,
                   bounds>>

Die(t) ==
    /\ pc[t] # "down" /\ Trouble
    /\ deaths' = deaths + 1
    /\ R!Abandon({t})
    /\ Go(t, "down")
    /\ msg' = [msg EXCEPT ![t] = None]
    /\ polls' = [polls EXCEPT ![t] = <<>>]
    /\ suppressed' = (suppressed /\ t # "poll")
    /\ UNCHANGED <<world, marked, cursors, issue, obeyed, events, calls>>

Start(t) ==
    /\ pc[t] = "down"
    /\ Go(t, "idle")
    /\ UNCHANGED <<requests, world, marked, cursors, issue, suppressed, msg, polls,
                   obeyed, bounds>>

-----------------------------------------------------------------------------
Handle(t) ==
    \/ Ignore(t) \/ Obey(t)
    \/ ManualCheck(t) \/ Recheck(t) \/ RecheckFails(t)
    \/ SubmitMessage(t) \/ Submitted(t) \/ SubmitRaises(t)
    \/ CountFailure(t) \/ Warn(t) \/ WarnFails(t) \/ Reject(t)
    \/ Mark(t) \/ Notice(t) \/ NoticeFails(t)

Execute(t) ==
    /\ \/ R!Progress(t) /\ UNCHANGED troubles
       \/ R!Fails(t) /\ Trouble
    /\ UNCHANGED <<world, marked, cursors, issue, suppressed, pc, msg, polls, obeyed,
                   events, calls, deaths>>

Step(t) ==
    \/ TakeMessage(t) \/ SaveCursor(t) \/ Handle(t) \/ Execute(t)
    \/ /\ t = "poll"
       /\ \/ FirstPoll \/ PollChat \/ ListingFails \/ SkipChat
          \/ ReadDocument \/ ReadFails \/ SubmitDocument

Surroundings ==
    \/ \E m \in Messages : Post(m) \/ Show(m) \/ Deliver(m)
    \/ \E c \in Contents : EditDocument(c)
    \/ \E r \in Requests : DeliverRequest(r)
    \/ EndSuppression

Next == Surroundings \/ \E t \in Threads : Step(t) \/ Die(t) \/ Start(t)

Spec == Init /\ [][Next]_vars

\* No thread blocks: a command typed into tmux is not waited for, every Feishu
\* request has a timeout and the health check a deadline.  A suppression ends with
\* time.
FairSpec == Spec /\ (\A t \in Threads : WF_vars(Step(t))) /\ WF_vars(EndSuppression)

-----------------------------------------------------------------------------
TypeOK ==
    /\ R!TypeOK
    /\ now \in Nat /\ at \in [Messages -> Nat] /\ shown \subseteq Messages
    /\ doc \in Contents /\ docCursor \in Contents \cup {None}
    /\ marked \subseteq Messages /\ cursor \in Nat
    /\ failures \in Nat /\ alerted \in BOOLEAN /\ warnings \in Nat /\ handoffs \in Nat
    /\ suppressed \in BOOLEAN
    /\ pc \in [Threads -> Places]
    /\ msg \in [Threads -> Messages \cup {None}]
    /\ polls \in [Threads -> Seq([todo : SUBSET Messages, from : Nat, seen : Nat,
                                  by : Messages \cup {None}])]
    /\ obeyed \in [Messages -> Nat]
    /\ calls \in Nat /\ events \in Nat /\ troubles \in Nat /\ deaths \in Nat
    /\ \A t \in Threads : pc[t] = "submit" <=> ~R!At(t, "idle")

\* Whichever process handles a message and whoever dies, the commands of a
\* request are typed once each, in order.
CommandsSentOnce == R!CommandsSentOnce

\* Both processes count the same failure, and handle a message again after a
\* warning could not be sent: still there is one hand-off, and before it fewer
\* warnings than the threshold.
AlertsBounded == handoffs <= 1 /\ warnings < Threshold

\* A command is carried out once by the loop and once per webhook call, however
\* often listings repeat it; a death may cost one more time.
ObeyedPerDelivery == \A m \in Messages : obeyed[m] <= 1 + calls + deaths

\* A changed document becomes a request, although readings fail, unless the loop
\* dies with it: the cursor is saved before the submission.
Followed == RequestOf[doc] # None => status[RequestOf[doc]] # "absent"
DocumentFollowed == docCursor \notin {None, doc} ~> (Followed \/ deaths > 0)

\* A listing leaves no message behind the cursor that nobody is done with, unless
\* it did not reach back to it: messages that Feishu lists late, that fail half
\* way, or that another listing skips meanwhile are reached again.
Passed(m) == at[m] # 0 /\ at[m] < Since(cursor) /\ m \notin marked
NothingPassed ==
    [][\A m \in Messages : ~Passed(m) /\ Passed(m)' =>
          \/ FirstPoll
          \/ \E t \in Threads : SaveCursor(t) /\ at[m] < polls[t][1].from]_vars

Down == pc["poll"] = "down"

\* The messages that can be listed are done with, although messages before them
\* fail, and the chat is suppressed for a time.
Unhandled == {m \in shown \ marked : ~Passed(m)}
MessagesHandled == Unhandled # {} ~> (Unhandled = {} \/ Down)

\* A request that was created comes to a final status, unless its process dies
\* or its plan cannot be built.
RequestsFinish ==
    \A r \in Requests \ Unplannable :
        status[r] \in R!Stages ~> (status[r] \in R!Final \/ deaths > 0)

ImplementsRequests == R!Spec
ImplementsLifecycle == R!ImplementsLifecycle
=============================================================================
