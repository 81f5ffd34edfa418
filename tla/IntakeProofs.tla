---------------------------- MODULE IntakeProofs ----------------------------
(***************************************************************************)
(* For any messages, contents and requests, and any number of events and   *)
(* troubles: the loop and the webhook drive the requests as Requests says, *)
(* and what is proved there holds here (DocumentReady); the state has its  *)
(* types, and a thread has in hand what it handles (InHand); there is one  *)
(* hand-off (Counted); a command is carried out once per delivery and      *)
(* death (Obeying); and a listing leaves nothing behind the cursor that it *)
(* reached back to (Reaching).                                             *)
(***************************************************************************)
EXTENDS Intake, SequenceTheorems, TLAPS

\* A content that the loop is about to submit spells a request.
DocumentReady ==
    /\ pc \in [Threads -> Places] /\ doc \in Contents
    /\ pc["poll"] = "submitdoc" => RequestOf[docCursor] \in Requests

LEMMA InitReady == Init => DocumentReady
  BY IntakeAssumption DEF Init, DocumentReady, Threads, Places

LEMMA NextReady == DocumentReady /\ [Next]_vars => DocumentReady'
<1> SUFFICES ASSUME DocumentReady, [Next]_vars PROVE DocumentReady'
  OBVIOUS
<1> USE DEF DocumentReady, Threads, Places, Go
<1>1. CASE UNCHANGED vars
  BY <1>1 DEF vars, world, cursors
<1>2. CASE Surroundings
  BY <1>2 DEF Surroundings, Post, Call, Show, Deliver, DeliverRequest, EditDocument,
              EndSuppression, world, cursors
<1>3. ASSUME NEW t \in Threads, TakeMessage(t) \/ SaveCursor(t) \/ Execute(t)
      PROVE  DocumentReady'
  BY <1>3, ZenonT(60) DEF TakeMessage, SaveCursor, Execute, world, cursors
<1>4. ASSUME NEW t \in Threads, Handle(t) PROVE DocumentReady'
  <2>1. UNCHANGED <<doc, docCursor>>
    BY <1>4 DEF Handle, Ignore, Obey, ManualCheck, Recheck, RecheckFails, SubmitMessage,
                Submitted, SubmitRaises, CountFailure, Warn, WarnFails, Reject, Mark,
                Notice, NoticeFails, world, cursors
  <2>2. \E p \in Places \ {"submitdoc"} : pc' = [pc EXCEPT ![t] = p]
    BY <1>4 DEF Handle, Ignore, Obey, ManualCheck, Recheck, RecheckFails, SubmitMessage,
                Submitted, SubmitRaises, CountFailure, Warn, WarnFails, Reject, Mark,
                Notice, NoticeFails, Poll, Finish, Raise
  <2> QED BY <2>1, <2>2
<1>5. CASE ReadDocument
  <2>1. DocPlace(doc) \in Places
    BY DEF DocPlace
  <2> QED BY <1>5, <2>1, IntakeAssumption DEF ReadDocument, DocPlace, world
<1>6. CASE FirstPoll \/ PollChat \/ ListingFails \/ SkipChat \/ ReadFails \/ SubmitDocument
  BY <1>6 DEF FirstPoll, PollChat, Poll, ListingFails, SkipChat, ReadFails,
              SubmitDocument, world, cursors
<1>7. ASSUME NEW t \in Threads, Die(t) \/ Start(t) PROVE DocumentReady'
  BY <1>7 DEF Die, Start, world, cursors
<1> QED BY <1>1, <1>2, <1>3, <1>4, <1>5, <1>6, <1>7 DEF Next, Step

\* What happens to messages, documents and cursors is a step of Requests, or
\* leaves the requests alone.
LEMMA StepRefines == DocumentReady /\ [Next]_vars => [R!Next]_(R!vars)
<1> SUFFICES ASSUME DocumentReady, [Next]_vars PROVE R!Next \/ UNCHANGED requests
  BY DEF requests, R!vars
<1> USE DEF requests
<1>1. CASE UNCHANGED vars
  BY <1>1 DEF vars
<1>2. CASE Surroundings
  <2>1. ASSUME NEW r \in Requests, DeliverRequest(r) PROVE R!Next
    BY <2>1 DEF DeliverRequest, R!Next, Threads
  <2> QED BY <1>2, <2>1 DEF Surroundings, Post, Show, Deliver, EditDocument,
                            EndSuppression
<1>3. ASSUME NEW t \in Threads, Step(t) PROVE R!Next \/ UNCHANGED requests
  <2>1. CASE Execute(t)
    BY <2>1 DEF Execute, R!Next
  <2>2. CASE Handle(t)
    <3>1. CASE SubmitMessage(t)
      <4>1. RequestOf[msg[t]] \in Requests
        BY <3>1, IntakeAssumption DEF SubmitMessage, Handles, OfKind
      <4> QED BY <3>1, <4>1 DEF SubmitMessage, R!Next
    <3>2. CASE Submitted(t) \/ SubmitRaises(t)
      BY <3>2 DEF Submitted, SubmitRaises, R!Next
    <3> QED BY <2>2, <3>1, <3>2 DEF Handle, Ignore, Obey, ManualCheck, Recheck,
               RecheckFails, CountFailure, Warn, WarnFails, Reject, Mark, Notice,
               NoticeFails
  <2>3. CASE t = "poll" /\ SubmitDocument
    BY <2>3 DEF SubmitDocument, R!Next, DocumentReady
  <2>4. CASE TakeMessage(t) \/ SaveCursor(t)
    BY <2>4 DEF TakeMessage, SaveCursor
  <2>5. CASE FirstPoll \/ PollChat \/ ListingFails \/ SkipChat \/ ReadDocument \/ ReadFails
    BY <2>5 DEF FirstPoll, PollChat, ListingFails, SkipChat, ReadDocument, ReadFails
  <2> QED BY <1>3, <2>1, <2>2, <2>3, <2>4, <2>5 DEF Step
<1>4. ASSUME NEW t \in Threads, Die(t) \/ Start(t) PROVE R!Next \/ UNCHANGED requests
  BY <1>4 DEF Die, Start, R!Next
<1> QED BY <1>1, <1>2, <1>3, <1>4 DEF Next

\* Messages, documents, deaths and late calls drive the requests only through
\* submit (poller.py and app.py against orchestrator.py).
THEOREM Refines == Spec => ImplementsRequests
<1>1. Init => R!Init
  BY DEF Init
<1> QED BY <1>1, InitReady, NextReady, StepRefines, PTL
        DEF Spec, ImplementsRequests, R!Spec

-----------------------------------------------------------------------------
Proved == INSTANCE RequestsProofs

LEMMA RequestsAssumed == Proved!RequestsAssumption
  BY RequestsAssumption DEF RequestsAssumption, Proved!RequestsAssumption

\* The two instances of Requests are one.
LEMMA SameInit == R!Init <=> Proved!Init
  BY DEF R!Init, Proved!Init, R!Idle, Proved!Idle
LEMMA SameNext == [R!Next]_(R!vars) => [Proved!Next]_(Proved!vars)
  BY DEF R!Stages, Proved!Stages, R!Final, Proved!Final, R!Idle, Proved!Idle, R!At,
         Proved!At, R!Req, Proved!Req, R!Go, Proved!Go, R!Planned, Proved!Planned,
         R!Window, Proved!Window, R!ToSend, Proved!ToSend, R!Following,
         Proved!Following, R!Failure, Proved!Failure, R!Become, Proved!Become,
         R!Executes, Proved!Executes, R!Submit, Proved!Submit, R!Look, Proved!Look,
         R!Insert, Proved!Insert, R!Command, Proved!Command, R!Advance,
         Proved!Advance, R!StageFails, Proved!StageFails, R!Unexpected,
         Proved!Unexpected, R!Return, Proved!Return, R!Abandon, Proved!Abandon,
         R!Progress, Proved!Progress, R!Fails, Proved!Fails, R!Next, Proved!Next,
         R!vars, Proved!vars
LEMMA SameCommands == Proved!CommandsSentOnce <=> R!CommandsSentOnce
  BY DEF R!CommandsSentOnce, Proved!CommandsSentOnce, R!Rank, Proved!Rank

LEMMA AlsoProved == Spec => Proved!Spec
  BY Refines, SameInit, SameNext, PTL DEF ImplementsRequests, R!Spec, Proved!Spec

LEMMA SameLifecycle == Proved!ImplementsLifecycle => R!ImplementsLifecycle
<1>1. Proved!Lifecycle!Init => R!Lifecycle!Init
  BY DEF Proved!Lifecycle!Init, R!Lifecycle!Init
<1>2. [Proved!Lifecycle!Next]_status => [R!Lifecycle!Next]_status
  BY DEF Proved!Lifecycle!Next, R!Lifecycle!Next, Proved!Lifecycle!Forward,
         R!Lifecycle!Forward, Proved!Lifecycle!Failing, R!Lifecycle!Failing
<1> QED BY <1>1, <1>2, PTL DEF Proved!ImplementsLifecycle, R!ImplementsLifecycle,
           Proved!Lifecycle!Spec, R!Lifecycle!Spec

\* Whichever messages arrive, however often, in whichever process, the commands
\* of a request are typed once each and in order ("Same request_id must not
\* launch twice", docs/workflows.md).
THEOREM TypedOnce == Spec => []CommandsSentOnce
<1>1. Proved!Spec => []Proved!CommandsSentOnce
  BY RequestsAssumed, Proved!TypedOnce
<1> QED BY <1>1, AlsoProved, SameCommands, PTL DEF CommandsSentOnce

\* The requests that messages, documents and calls create take the edges of the
\* documented state machine (docs/workflows.md, State Machine).
THEOREM Documented == Spec => ImplementsLifecycle
<1>1. Proved!Spec => Proved!ImplementsLifecycle
  BY RequestsAssumed, Proved!Refines
<1> QED BY <1>1, AlsoProved, SameLifecycle, PTL DEF ImplementsLifecycle

-----------------------------------------------------------------------------
(* Types                                                                   *)

LEMMA SameTypes == Proved!TypeOK <=> R!TypeOK
  BY DEF R!TypeOK, Proved!TypeOK, R!Statuses, Proved!Statuses, R!Stages,
         Proved!Stages, R!Final, Proved!Final, R!Places, Proved!Places, R!Req,
         Proved!Req, R!At, Proved!At

LEMMA RequestTypes == Spec => []R!TypeOK
<1>1. Proved!Spec => []Proved!TypeOK
  BY RequestsAssumed, Proved!TypeCorrect
<1> QED BY <1>1, AlsoProved, SameTypes, PTL

\* A call of _poll_chat.
Calls == [todo : SUBSET Messages, from : Nat, seen : Nat, by : Messages \cup {None}]

\* The types but those of the requests; a thread that submits is in submit.
Typed ==
    /\ now \in Nat /\ at \in [Messages -> Nat] /\ shown \subseteq Messages
    /\ doc \in Contents /\ docCursor \in Contents \cup {None}
    /\ marked \subseteq Messages /\ cursor \in Nat
    /\ failures \in Nat /\ alerted \in BOOLEAN /\ warnings \in Nat /\ handoffs \in Nat
    /\ suppressed \in BOOLEAN
    /\ pc \in [Threads -> Places]
    /\ msg \in [Threads -> Messages \cup {None}]
    /\ polls \in [Threads -> Seq(Calls)]
    /\ obeyed \in [Messages -> Nat]
    /\ calls \in Nat /\ events \in Nat /\ troubles \in Nat /\ deaths \in Nat

Executing ==
    /\ doing \in [Threads -> [request : Requests \cup {None}, at : R!Places]]
    /\ \A t \in Threads : pc[t] = "submit" <=> ~R!At(t, "idle")

LEMMA InitTyped == Init => Typed /\ Executing
<1> SUFFICES ASSUME Init PROVE Typed /\ Executing
  OBVIOUS
<1>1. polls \in [Threads -> Seq(Calls)]
  BY DEF Init
<1>2. pc \in [Threads -> Places] /\ msg \in [Threads -> Messages \cup {None}]
  BY DEF Init, Places
<1>3. /\ doing = [t \in Threads |-> [request |-> None, at |-> "idle"]]
      /\ "idle" \in R!Places
  BY DEF Init, R!Init, R!Idle, R!Places
<1>4. Executing
  BY <1>3 DEF Init, Executing, R!At
<1>5. Typed
  BY <1>1, <1>2, IntakeAssumption DEF Init, Typed
<1> QED BY <1>4, <1>5

\* The bounds.
LEMMA BoundTypes ==
    ASSUME Typed
    PROVE  /\ PassTime => now' \in Nat /\ now <= now'
           /\ Trouble => troubles' \in Nat
           /\ Event => events' \in Nat
           /\ \A c \in Nat : Since(c) \in Nat
  BY IntakeAssumption DEF Typed, PassTime, Trouble, Event, Since

\* A new call on top of the others.
LEMMA PollType ==
    ASSUME Typed, NEW t \in Threads, NEW from \in Nat, NEW by \in Messages \cup {None},
           Poll(t, from, by)
    PROVE  /\ pc' \in [Threads -> Places] /\ polls' \in [Threads -> Seq(Calls)]
           /\ pc'[t] = "next"
           /\ \A u \in Threads \ {t} : polls'[u] = polls[u] /\ pc'[u] = pc[u]
           /\ Len(polls'[t]) = Len(polls[t]) + 1
           /\ polls'[t][1] = [todo |-> Listing(from), from |-> from, by |-> by,
                              seen |-> IF cursor = 0 THEN now ELSE cursor]
           /\ \A i \in 1 .. Len(polls[t]) : polls'[t][i + 1] = polls[t][i]
<1> DEFINE new == [todo |-> Listing(from), from |-> from, by |-> by,
                   seen |-> IF cursor = 0 THEN now ELSE cursor]
<1>1. new \in Calls
  BY DEF Typed, Calls, Listing
<1>2. polls[t] \in Seq(Calls) /\ polls \in [Threads -> Seq(Calls)]
      /\ pc \in [Threads -> Places]
  BY DEF Typed
<1>3. polls' = [polls EXCEPT ![t] = <<new>> \o polls[t]]
      /\ pc' = [pc EXCEPT ![t] = "next"]
  BY DEF Poll, Go
<1> HIDE DEF new
<1>4. <<new>> \in Seq(Calls) /\ Len(<<new>>) = 1 /\ <<new>>[1] = new
  BY <1>1
<1>5. /\ <<new>> \o polls[t] \in Seq(Calls)
      /\ Len(<<new>> \o polls[t]) = 1 + Len(polls[t])
      /\ \A i \in 1 .. 1 + Len(polls[t]) : (<<new>> \o polls[t])[i] =
            IF i <= 1 THEN <<new>>[i] ELSE polls[t][i - 1]
  BY <1>2, <1>4, ConcatProperties
<1>6. Len(polls[t]) \in Nat
  BY <1>2, LenProperties
<1>7. (<<new>> \o polls[t])[1] = new
  BY <1>4, <1>5, <1>6
<1>8. \A i \in 1 .. Len(polls[t]) : (<<new>> \o polls[t])[i + 1] = polls[t][i]
  <2>1. \A i \in 1 .. Len(polls[t]) :
           i + 1 \in 1 .. 1 + Len(polls[t]) /\ ~(i + 1 <= 1) /\ (i + 1) - 1 = i
    BY <1>6
  <2> QED BY <1>5, <2>1
<1>9. "next" \in Places
  BY DEF Places
<1> QED BY <1>2, <1>3, <1>5, <1>6, <1>7, <1>8, <1>9 DEF new

\* A call without one of its messages is a call.
LEMMA TakeType ==
    ASSUME Typed, NEW t \in Threads, NEW m \in Messages, polls[t] # <<>>,
           polls' = [polls EXCEPT ![t] = <<Without(Head(@), m)>> \o Tail(@)]
    PROVE  /\ polls' \in [Threads -> Seq(Calls)]
           /\ \A u \in Threads \ {t} : polls'[u] = polls[u]
           /\ Len(polls'[t]) = Len(polls[t])
           /\ polls[t][1] \in Calls
           /\ polls'[t][1] = Without(polls[t][1], m)
           /\ \A i \in 2 .. Len(polls[t]) : polls'[t][i] = polls[t][i]
<1>1. polls[t] \in Seq(Calls) /\ polls \in [Threads -> Seq(Calls)] /\ at[m] \in Nat
  BY DEF Typed
<1>2. /\ Head(polls[t]) = polls[t][1] /\ polls[t][1] \in Calls
      /\ Tail(polls[t]) \in Seq(Calls) /\ Len(Tail(polls[t])) = Len(polls[t]) - 1
      /\ \A i \in 1 .. Len(Tail(polls[t])) : Tail(polls[t])[i] = polls[t][i + 1]
      /\ Len(polls[t]) \in Nat
  BY <1>1, HeadTailProperties, LenProperties
<1> DEFINE rest == Without(polls[t][1], m)
<1>3. rest \in Calls
  BY <1>1, <1>2 DEF Without, Calls
<1>4. polls' = [polls EXCEPT ![t] = <<rest>> \o Tail(polls[t])]
  BY <1>2
<1> HIDE DEF rest
<1>5. <<rest>> \in Seq(Calls) /\ Len(<<rest>>) = 1 /\ <<rest>>[1] = rest
  BY <1>3
<1> DEFINE new == <<rest>> \o Tail(polls[t])
<1>6. /\ new \in Seq(Calls) /\ Len(new) = 1 + Len(Tail(polls[t]))
      /\ \A i \in 1 .. 1 + Len(Tail(polls[t])) : new[i] =
            IF i <= 1 THEN <<rest>>[i] ELSE Tail(polls[t])[i - 1]
  BY <1>2, <1>5, ConcatProperties
<1> HIDE DEF new
<1>7. Len(new) = Len(polls[t]) /\ 1 \in 1 .. 1 + Len(Tail(polls[t]))
  BY <1>2, <1>6
<1>8. new[1] = rest
  BY <1>5, <1>6, <1>7
<1>9. \A i \in 2 .. Len(polls[t]) : new[i] = polls[t][i]
  <2>1. ASSUME NEW i \in 2 .. Len(polls[t]) PROVE new[i] = polls[t][i]
    <3>1. /\ i \in 1 .. 1 + Len(Tail(polls[t])) /\ ~(i <= 1)
          /\ i - 1 \in 1 .. Len(Tail(polls[t])) /\ (i - 1) + 1 = i
      BY <1>2
    <3>2. new[i] = Tail(polls[t])[i - 1]
      BY <1>6, <3>1
    <3> QED BY <1>2, <3>1, <3>2
  <2> QED BY <2>1
<1> QED BY <1>1, <1>2, <1>4, <1>6, <1>7, <1>8, <1>9 DEF new, rest

\* Only an action that submits, or returns from it, moves a thread to or from
\* submit.
LEMMA NextExecuting ==
    ASSUME Typed, Executing, R!TypeOK', [Next]_vars
    PROVE  Executing'
<1>0. /\ pc \in [Threads -> Places]
      /\ doing \in [Threads -> [request : Requests \cup {None}, at : R!Places]]
      /\ doing' \in [Threads -> [request : Requests \cup {None}, at : R!Places]]
      /\ \A t \in Threads : pc[t] = "submit" <=> doing[t].at # "idle"
  BY DEF Typed, Executing, R!TypeOK, R!At
<1>a. SUFFICES \A t \in Threads : pc'[t] = "submit" <=> doing'[t].at # "idle"
  BY <1>0 DEF Executing, R!At
<1>1. ASSUME doing' = doing,
             \A u \in Threads : \/ pc'[u] = pc[u]
                                \/ pc[u] # "submit" /\ pc'[u] # "submit"
      PROVE  \A t \in Threads : pc'[t] = "submit" <=> doing'[t].at # "idle"
  BY <1>0, <1>1
<1>2. ASSUME NEW t \in Threads, NEW r, R!Submit(t, r), pc' = [pc EXCEPT ![t] = "submit"]
      PROVE  \A u \in Threads : pc'[u] = "submit" <=> doing'[u].at # "idle"
  BY <1>0, <1>2 DEF R!Submit
<1>3. CASE UNCHANGED vars
  BY <1>0, <1>3 DEF vars, requests
<1>4. ASSUME NEW t \in Threads, Execute(t)
      PROVE  \A u \in Threads : pc'[u] = "submit" <=> doing'[u].at # "idle"
  <2>1. pc' = pc
    BY <1>4 DEF Execute
  <2>2. doing[t].at # "idle" /\ doing'[t].at # "idle"
        /\ \A u \in Threads \ {t} : doing'[u] = doing[u]
    BY <1>0, <1>4 DEF Execute, R!Progress, R!Fails, R!Look, R!Insert, R!Command,
       R!Advance, R!StageFails, R!Unexpected, R!Become, R!Executes, R!At, R!Go, R!Planned
  <2> QED BY <1>0, <2>1, <2>2
<1>5. ASSUME NEW t \in Threads, Handle(t)
      PROVE  \A u \in Threads : pc'[u] = "submit" <=> doing'[u].at # "idle"
  <2>1. CASE SubmitMessage(t)
    BY <1>2, <2>1 DEF SubmitMessage, Go
  <2>2. CASE Submitted(t) \/ SubmitRaises(t)
    <3>1. doing' = [doing EXCEPT ![t] = [request |-> None, at |-> "idle"]]
      BY <2>2 DEF Submitted, SubmitRaises, R!Return, R!Idle
    <3>2. \E p \in Places \ {"submit"} : pc' = [pc EXCEPT ![t] = p]
      BY <2>2 DEF Submitted, SubmitRaises, Go, Raise, Places
    <3> QED BY <1>0, <3>1, <3>2
  <2>3. CASE ~SubmitMessage(t) /\ ~Submitted(t) /\ ~SubmitRaises(t)
    <3>1. doing' = doing
      BY <1>5, <2>3 DEF Handle, Ignore, Obey, ManualCheck, Recheck, RecheckFails,
         CountFailure, Warn, WarnFails, Reject, Mark, Notice, NoticeFails, requests
    <3>2. pc[t] # "submit"
      BY <1>5, <2>3 DEF Handle, Ignore, Obey, ManualCheck, Recheck, RecheckFails,
         CountFailure, Warn, WarnFails, Reject, Mark, Notice, NoticeFails, Handles
    <3>3. \E p \in Places \ {"submit"} : pc' = [pc EXCEPT ![t] = p]
      BY <1>5, <2>3 DEF Handle, Ignore, Obey, ManualCheck, Recheck, RecheckFails,
         CountFailure, Warn, WarnFails, Reject, Mark, Notice, NoticeFails, Poll,
         Finish, Raise, Go, Places
    <3> QED BY <1>0, <1>1, <3>1, <3>2, <3>3
  <2> QED BY <2>1, <2>2, <2>3
<1>6. ASSUME NEW t \in Threads, TakeMessage(t) \/ SaveCursor(t)
      PROVE  \A u \in Threads : pc'[u] = "submit" <=> doing'[u].at # "idle"
  <2>1. doing' = doing /\ pc[t] = "next"
    BY <1>6 DEF TakeMessage, SaveCursor, requests
  <2>2. pc' = pc \/ \E p \in Places \ {"submit"} : pc' = [pc EXCEPT ![t] = p]
    BY <1>6 DEF TakeMessage, SaveCursor, Go, Places
  <2> QED BY <1>0, <1>1, <2>1, <2>2
<1>7. CASE SubmitDocument
  BY <1>2, <1>7 DEF SubmitDocument, Go, Threads
<1>8. CASE FirstPoll \/ PollChat \/ ListingFails \/ SkipChat \/ ReadDocument \/ ReadFails
  <2>1. doing' = doing /\ pc["poll"] # "submit"
    BY <1>8 DEF FirstPoll, PollChat, ListingFails, SkipChat, ReadDocument, ReadFails,
       requests
  <2>2. \E p \in Places \ {"submit"} : pc' = [pc EXCEPT !["poll"] = p]
    BY <1>8 DEF FirstPoll, PollChat, Poll, ListingFails, SkipChat, ReadDocument,
       ReadFails, DocPlace, Go, Places
  <2> QED BY <1>0, <1>1, <2>1, <2>2 DEF Threads
<1>9. ASSUME NEW t \in Threads, Die(t)
      PROVE  \A u \in Threads : pc'[u] = "submit" <=> doing'[u].at # "idle"
  <2>1. pc' = [pc EXCEPT ![t] = "down"]
    BY <1>9 DEF Die, Go
  <2>2. doing' = [u \in Threads |-> IF u \in {t} THEN [request |-> None, at |-> "idle"]
                                                ELSE doing[u]]
    BY <1>9 DEF Die, R!Abandon, R!Idle
  <2> QED BY <1>0, <2>1, <2>2
<1>10. ASSUME NEW t \in Threads, Start(t)
       PROVE  \A u \in Threads : pc'[u] = "submit" <=> doing'[u].at # "idle"
  BY <1>0, <1>1, <1>10 DEF Start, Go, requests
<1>11. CASE Surroundings
  <2>1. CASE \E r \in Requests : DeliverRequest(r)
    BY <1>2, <2>1 DEF DeliverRequest, Go, Threads
  <2>2. CASE \/ \E m \in Messages : Post(m) \/ Show(m) \/ Deliver(m)
             \/ \E c \in Contents : EditDocument(c)
             \/ EndSuppression
    <3>1. doing' = doing
      BY <2>2 DEF Post, Show, Deliver, EditDocument, EndSuppression, requests
    <3>2. \/ pc' = pc
          \/ pc["api"] = "idle" /\ pc' = [pc EXCEPT !["api"] = "handle"]
      BY <2>2 DEF Post, Call, Show, Deliver, EditDocument, EndSuppression, Go
    <3> QED BY <1>0, <1>1, <3>1, <3>2
  <2> QED BY <1>11, <2>1, <2>2 DEF Surroundings
<1> QED BY <1>3, <1>4, <1>5, <1>6, <1>7, <1>8, <1>9, <1>10, <1>11 DEF Next, Step

\* A thread has a message in its hands while it handles it; what it sends a
\* notice about, and what made it list again, is done with.
Held(t) ==
    /\ pc[t] \in {"idle", "down", "next", "doc", "submitdoc"} => msg[t] = None
    /\ pc[t] \in {"handle", "mark", "warn", "handoff", "reject"} => msg[t] \in Messages
    /\ pc[t] \in {"notice", "recheck"} => msg[t] \in marked
    /\ pc[t] = "next" => polls[t] # <<>>
    /\ \A i \in 1 .. Len(polls[t]) : polls[t][i].by \in marked \cup {None}
InHand == \A t \in Threads : Held(t)

\* What a step of a handler does to the listings, and to the message: it goes
\* on with it, ends with it, raises, or lists again.
GoesOn(t) ==
    /\ UNCHANGED <<polls, msg>>
    /\ \/ pc'[t] \in {"mark", "warn", "handoff", "reject"} /\ msg[t] \in Messages
       \/ pc'[t] = "submit"
       \/ pc'[t] = "idle" /\ msg[t] = None
       \/ pc'[t] \in {"notice", "recheck"} /\ msg[t] \in marked'
Ends(t) ==
    /\ UNCHANGED polls /\ msg' = [msg EXCEPT ![t] = None] /\ msg[t] \in marked'
    /\ pc'[t] = IF polls[t] = <<>> THEN "idle" ELSE "next"

LEMMA HandleStep ==
    ASSUME Typed, InHand, NEW t \in Threads, Handle(t)
    PROVE  /\ pc[t] \notin {"idle", "down", "next", "doc", "submitdoc"}
           /\ \E p \in Places \ {"down", "submitdoc"} : pc' = [pc EXCEPT ![t] = p]
           /\ UNCHANGED <<world, cursors, suppressed, events, calls, deaths>>
           /\ troubles' = troubles \/ Trouble
           /\ marked' \in {marked, marked \cup {msg[t]}}
           /\ marked' # marked => msg[t] \in Messages
           /\ GoesOn(t) \/ Ends(t) \/ Raise(t) \/ Recheck(t)
<1>0. pc \in [Threads -> Places] /\ msg \in [Threads -> Messages \cup {None}]
  BY DEF Typed
<1>1. pc[t] \notin {"idle", "down", "next", "doc", "submitdoc"}
  BY DEF Handle, Ignore, Obey, ManualCheck, Recheck, RecheckFails, SubmitMessage, Submitted,
     SubmitRaises, CountFailure, Warn, WarnFails, Reject, Mark, Notice, NoticeFails, Handles
<1>2. \E p \in Places \ {"down", "submitdoc"} : pc' = [pc EXCEPT ![t] = p]
  BY DEF Handle, Ignore, Obey, ManualCheck, Recheck, RecheckFails, SubmitMessage, Submitted,
     SubmitRaises, CountFailure, Warn, WarnFails, Reject, Mark, Notice, NoticeFails,
     Poll, Finish, Raise, Go, Places
<1>3. UNCHANGED <<world, cursors, suppressed, events, calls, deaths>>
      /\ (troubles' = troubles \/ Trouble)
  BY DEF Handle, Ignore, Obey, ManualCheck, Recheck, RecheckFails, SubmitMessage, Submitted,
     SubmitRaises, CountFailure, Warn, WarnFails, Reject, Mark, Notice, NoticeFails,
     bounds
<1>4. marked' \in {marked, marked \cup {msg[t]}}
  BY DEF Handle, Ignore, Obey, ManualCheck, Recheck, RecheckFails, SubmitMessage, Submitted,
     SubmitRaises, CountFailure, Warn, WarnFails, Reject, Mark, Notice, NoticeFails,
     MarkMessage
<1>5. marked' # marked => msg[t] \in Messages
  BY <1>0 DEF InHand, Held, Handle, Ignore, Obey, ManualCheck, Recheck, RecheckFails, SubmitMessage, Submitted,
     SubmitRaises, CountFailure, Warn, WarnFails, Reject, Mark, Notice, NoticeFails,
     MarkMessage, Handles, OfKind
<1>6. GoesOn(t) \/ Ends(t) \/ Raise(t) \/ Recheck(t)
  <2>1. CASE Ignore(t) \/ Reject(t) \/ Notice(t)
    <3>1. msg[t] \in marked'
      BY <2>1 DEF Ignore, Reject, Notice, InHand, Held, MarkMessage
    <3> QED BY <1>0, <2>1, <3>1 DEF Ignore, Reject, Notice, Finish, Go, Ends
  <2>2. CASE Obey(t) \/ CountFailure(t)
    <3>1. msg[t] \in Messages /\ UNCHANGED <<polls, msg>>
      BY <2>2 DEF Obey, CountFailure, Handles, OfKind
    <3>2. \E p \in {"mark", "warn", "handoff", "reject"} : pc' = [pc EXCEPT ![t] = p]
      <4>1. CASE Obey(t)
        BY <4>1 DEF Obey, Go
      <4>2. CASE CountFailure(t)
        <5> DEFINE p == CASE failures' < Threshold -> "warn"
                          [] HandsOff(failures')   -> "handoff"
                          [] OTHER                 -> "reject"
        <5>1. p \in {"mark", "warn", "handoff", "reject"}
          OBVIOUS
        <5> QED BY <4>2, <5>1 DEF CountFailure, Go
      <4> QED BY <2>2, <4>1, <4>2
    <3>3. pc'[t] \in {"mark", "warn", "handoff", "reject"}
      BY <1>0, <3>2
    <3> QED BY <3>1, <3>3 DEF GoesOn
  <2>8. CASE ManualCheck(t)
    <3>1. UNCHANGED <<polls, msg>> /\ msg[t] \in marked'
      BY <2>8 DEF ManualCheck, MarkMessage
    <3> QED BY <1>0, <2>8, <3>1 DEF ManualCheck, Go, GoesOn
  <2>3. CASE Mark(t) \/ Warn(t)
    <3>1. msg[t] \in Messages /\ UNCHANGED <<polls, msg>>
      BY <2>3 DEF Mark, Warn, InHand, Held
    <3>2. \/ pc'[t] = "reject"
          \/ pc'[t] = "notice" /\ msg[t] \in marked'
      BY <1>0, <2>3 DEF Mark, Warn, MarkMessage, Go
    <3> QED BY <3>1, <3>2 DEF GoesOn
  <2>4. CASE SubmitMessage(t)
    BY <1>0, <2>4 DEF SubmitMessage, Go, GoesOn
  <2>5. CASE Submitted(t)
    <3>1. UNCHANGED <<polls, msg>>
      BY <2>5 DEF Submitted
    <3>2. \/ pc'[t] = "idle" /\ msg[t] = None
          \/ pc'[t] = "notice" /\ msg[t] \in marked'
      BY <1>0, <2>5 DEF Submitted, MarkMessage, Go
    <3> QED BY <3>1, <3>2 DEF GoesOn
  <2>6. CASE SubmitRaises(t)
    BY <1>0, <2>6 DEF SubmitRaises, Go, GoesOn
  <2>7. CASE Recheck(t) \/ RecheckFails(t) \/ WarnFails(t) \/ NoticeFails(t)
    BY <2>7 DEF RecheckFails, WarnFails, NoticeFails
  <2> QED BY <2>1, <2>2, <2>3, <2>4, <2>5, <2>6, <2>7, <2>8 DEF Handle
<1> QED BY <1>1, <1>2, <1>3, <1>4, <1>5, <1>6

\* The topmost call returns.
LEMMA SaveType ==
    ASSUME Typed, NEW t \in Threads, polls[t] # <<>>,
           polls' = [polls EXCEPT ![t] = Tail(@)]
    PROVE  /\ polls' \in [Threads -> Seq(Calls)]
           /\ \A u \in Threads \ {t} : polls'[u] = polls[u]
           /\ polls[t][1] \in Calls /\ 1 \in 1 .. Len(polls[t])
           /\ \A i \in 1 .. Len(polls'[t]) :
                 i + 1 \in 1 .. Len(polls[t]) /\ polls'[t][i] = polls[t][i + 1]
<1>1. polls[t] \in Seq(Calls) /\ polls \in [Threads -> Seq(Calls)]
  BY DEF Typed
<1>2. /\ Tail(polls[t]) \in Seq(Calls) /\ Len(Tail(polls[t])) = Len(polls[t]) - 1
      /\ \A i \in 1 .. Len(Tail(polls[t])) : Tail(polls[t])[i] = polls[t][i + 1]
      /\ Head(polls[t]) = polls[t][1] /\ Head(polls[t]) \in Calls
      /\ Len(polls[t]) \in Nat \ {0}
  BY <1>1, HeadTailProperties, LenProperties, EmptySeq
<1>3. polls'[t] = Tail(polls[t]) /\ \A u \in Threads \ {t} : polls'[u] = polls[u]
  BY <1>1
<1> QED BY <1>1, <1>2, <1>3

LEMMA HeldStays ==
    ASSUME NEW u \in Threads, Held(u), marked \subseteq marked',
           pc'[u] = pc[u], msg'[u] = msg[u], polls'[u] = polls[u]
    PROVE  Held(u)'
  BY DEF Held

LEMMA InitHeld == Init => InHand
  BY DEF Init, InHand, Held

\* A call that is pushed by a handler, or by the loop.
LEMMA PollHeld ==
    ASSUME Typed, InHand, NEW t \in Threads, NEW from \in Nat,
           NEW by \in marked \cup {None}, Poll(t, from, by),
           msg'[t] = None, marked \subseteq marked'
    PROVE  /\ polls' \in [Threads -> Seq(Calls)] /\ Held(t)'
           /\ \A u \in Threads \ {t} : polls'[u] = polls[u]
<1>1. polls[t] \in Seq(Calls) /\ Held(t) /\ by \in Messages \cup {None}
  BY DEF Typed, InHand
<1>2. Len(polls[t]) \in Nat
  BY <1>1, LenProperties
<1>3. polls'[t][1].by = by
  <2>1. polls'[t][1] = [todo |-> Listing(from), from |-> from, by |-> by,
                        seen |-> IF cursor = 0 THEN now ELSE cursor]
    BY <1>1, PollType, Zenon
  <2> QED BY <2>1
<1>4. polls' \in [Threads -> Seq(Calls)] /\ pc'[t] = "next"
  BY <1>1, PollType, Zenon
<1>5. \A u \in Threads \ {t} : polls'[u] = polls[u]
  BY <1>1, PollType, Zenon
<1>6. /\ Len(polls'[t]) = Len(polls[t]) + 1
      /\ \A i \in 1 .. Len(polls[t]) : polls'[t][i + 1] = polls[t][i]
  BY <1>1, PollType, Zenon
<1>7. polls'[t] # <<>>
  BY <1>2, <1>6, EmptySeq
<1>8. ASSUME NEW i \in 1 .. Len(polls'[t])
      PROVE  polls'[t][i].by \in marked' \cup {None}
  <2>1. CASE i = 1
    BY <1>3, <2>1
  <2>2. CASE i # 1
    <3>1. i - 1 \in 1 .. Len(polls[t]) /\ (i - 1) + 1 = i
      BY <1>2, <1>6, <2>2
    <3>2. polls'[t][i] = polls[t][i - 1]
      BY <1>6, <3>1
    <3> QED BY <1>1, <3>1, <3>2 DEF Held
  <2> QED BY <2>1, <2>2
<1>9. Held(t)'
  BY <1>4, <1>7, <1>8 DEF Held
<1> QED BY <1>4, <1>5, <1>9

LEMMA HandleTyped ==
    ASSUME Typed, InHand, NEW t \in Threads, Handle(t)
    PROVE  Typed' /\ InHand'
<1>0. /\ pc \in [Threads -> Places] /\ msg \in [Threads -> Messages \cup {None}]
      /\ polls \in [Threads -> Seq(Calls)] /\ marked \subseteq Messages
      /\ Held(t)
  BY DEF Typed, InHand
<1>1. GoesOn(t) \/ Ends(t) \/ Raise(t) \/ Recheck(t)
  BY HandleStep
<1>2. pc' \in [Threads -> Places] /\ \A u \in Threads \ {t} : pc'[u] = pc[u]
  BY <1>0, HandleStep
<1>3. marked \subseteq marked' /\ marked' \subseteq Messages
  BY <1>0, HandleStep
<1>4. msg' \in [Threads -> Messages \cup {None}]
      /\ \A u \in Threads \ {t} : msg'[u] = msg[u]
  BY <1>0, <1>1 DEF GoesOn, Ends, Raise, Recheck
<1>5. ASSUME Recheck(t)
      PROVE  /\ polls' \in [Threads -> Seq(Calls)] /\ Held(t)'
             /\ \A u \in Threads \ {t} : polls'[u] = polls[u]
  <2> DEFINE new == IF now > Lookback THEN now - Lookback ELSE 0
  <2>1. new \in Nat /\ msg[t] \in marked
    BY <1>0, <1>5, IntakeAssumption DEF Typed, Recheck, Held
  <2>2. Poll(t, new, msg[t]) /\ msg'[t] = None
    BY <1>0, <1>5 DEF Recheck
  <2> HIDE DEF new
  <2> QED BY <1>3, <2>1, <2>2, PollHeld
<1>6. ASSUME ~Recheck(t)
      PROVE  /\ polls' \in [Threads -> Seq(Calls)] /\ Held(t)'
             /\ \A u \in Threads \ {t} : polls'[u] = polls[u]
  <2>1. polls' = polls \/ polls' = [polls EXCEPT ![t] = <<>>]
    BY <1>1, <1>6 DEF GoesOn, Ends, Raise
  <2>2. /\ polls' \in [Threads -> Seq(Calls)]
        /\ \A u \in Threads \ {t} : polls'[u] = polls[u]
    <3>1. <<>> \in Seq(Calls)
      OBVIOUS
    <3> QED BY <1>0, <2>1, <3>1
  <2>3. \A i \in 1 .. Len(polls'[t]) : polls'[t][i].by \in marked' \cup {None}
    BY <1>0, <1>3, <2>1 DEF Held
  <2>4. ASSUME GoesOn(t) PROVE Held(t)'
    BY <1>0, <1>3, <2>3, <2>4 DEF GoesOn, Held
  <2>5. ASSUME Ends(t) PROVE Held(t)'
    BY <1>0, <2>3, <2>5 DEF Ends, Held
  <2>6. ASSUME Raise(t) PROVE Held(t)'
    <3>1. pc'[t] \in {"idle", "doc"} /\ msg'[t] = None
      BY <1>0, <2>6 DEF Raise, Go
    <3> QED BY <2>3, <3>1 DEF Held
  <2> QED BY <1>1, <1>6, <2>2, <2>4, <2>5, <2>6
<1>7. /\ polls' \in [Threads -> Seq(Calls)] /\ Held(t)'
      /\ \A u \in Threads \ {t} : polls'[u] = polls[u]
  BY <1>5, <1>6
<1>8. InHand'
  <2>1. ASSUME NEW u \in Threads \ {t} PROVE Held(u)'
    BY <1>2, <1>3, <1>4, <1>7, HeldStays DEF InHand
  <2> QED BY <1>7, <2>1 DEF InHand
<1>9. /\ failures' \in Nat /\ alerted' \in BOOLEAN /\ warnings' \in Nat
      /\ handoffs' \in Nat /\ obeyed' \in [Messages -> Nat]
  <2>1. CASE Obey(t)
    BY <2>1 DEF Obey, Handles, OfKind, Typed, issue
  <2>2. CASE CountFailure(t)
    BY <2>2 DEF CountFailure, Typed
  <2>3. CASE Warn(t)
    BY <2>3 DEF Warn, Typed
  <2>4. CASE ~(Obey(t) \/ CountFailure(t) \/ Warn(t))
    <3>1. UNCHANGED <<issue, obeyed>>
      BY <2>4 DEF Handle, Ignore, ManualCheck, Recheck, RecheckFails, SubmitMessage,
         Submitted, SubmitRaises, WarnFails, Reject, Mark, Notice, NoticeFails
    <3> QED BY <3>1 DEF Typed, issue
  <2> QED BY <2>1, <2>2, <2>3, <2>4
<1>10. /\ UNCHANGED <<world, cursors, suppressed, events, calls, deaths>>
       /\ troubles' \in Nat
  BY HandleStep, SMTT(30) DEF Typed, Trouble
<1>11. Typed'
  BY <1>2, <1>3, <1>4, <1>7, <1>9, <1>10 DEF Typed, world, cursors
<1> QED BY <1>8, <1>11

LEMMA ListingTyped ==
    ASSUME Typed, InHand, NEW t \in Threads,
           TakeMessage(t) \/ SaveCursor(t) \/ (t = "poll" /\ PollChat)
    PROVE  Typed' /\ InHand'
<1>0. /\ pc \in [Threads -> Places] /\ msg \in [Threads -> Messages \cup {None}]
      /\ polls \in [Threads -> Seq(Calls)] /\ polls[t] \in Seq(Calls)
      /\ cursor \in Nat /\ Held(t)
  BY DEF Typed, InHand
<1>1. UNCHANGED <<requests, world, marked, docCursor, issue, suppressed, obeyed, bounds>>
  BY DEF TakeMessage, SaveCursor, PollChat, cursors
<1>2. ASSUME TakeMessage(t)
      PROVE  /\ polls' \in [Threads -> Seq(Calls)] /\ cursor' = cursor
             /\ \A u \in Threads \ {t} : polls'[u] = polls[u]
             /\ pc' \in [Threads -> Places] /\ msg' \in [Threads -> Messages \cup {None}]
             /\ \A u \in Threads \ {t} : pc'[u] = pc[u] /\ msg'[u] = msg[u]
             /\ Held(t)'
  <2>1. polls[t] # <<>> /\ cursor' = cursor
    BY <1>0, <1>2 DEF TakeMessage, Held, cursors
  <2>2. Len(polls[t]) \in Nat \ {0}
    BY <1>0, <2>1, LenProperties, EmptySeq
  <2>3. polls[t][1].todo \subseteq Messages
    <3>1. polls[t][1] \in Calls
      BY <1>0, <2>2, ElementOfSeq
    <3> QED BY <3>1 DEF Calls
  <2>4. PICK m \in Messages :
          /\ polls' = [polls EXCEPT ![t] = <<Without(Head(@), m)>> \o Tail(@)]
          /\ IF m \in marked
             THEN UNCHANGED <<pc, msg>>
             ELSE Go(t, "handle") /\ msg' = [msg EXCEPT ![t] = m]
    BY <1>2, <2>3 DEF TakeMessage
  <2>5. /\ polls' \in [Threads -> Seq(Calls)] /\ Len(polls'[t]) = Len(polls[t])
        /\ \A u \in Threads \ {t} : polls'[u] = polls[u]
        /\ polls'[t][1] = Without(polls[t][1], m)
        /\ \A i \in 2 .. Len(polls[t]) : polls'[t][i] = polls[t][i]
    BY <2>1, <2>4, TakeType
  <2>6. /\ pc' \in [Threads -> Places] /\ msg' \in [Threads -> Messages \cup {None}]
        /\ \A u \in Threads \ {t} : pc'[u] = pc[u] /\ msg'[u] = msg[u]
        /\ \/ pc'[t] = "next" /\ msg'[t] = None
           \/ pc'[t] = "handle" /\ msg'[t] \in Messages
    <3>1. CASE m \in marked
      BY <1>0, <1>2, <2>4, <3>1 DEF TakeMessage, Held
    <3>2. CASE m \notin marked
      BY <1>0, <2>4, <3>2 DEF Go, Places
    <3> QED BY <3>1, <3>2
  <2>7. polls'[t] # <<>>
    BY <2>2, <2>5, EmptySeq
  <2>8. polls'[t][1].by = polls[t][1].by
    BY <2>5 DEF Without
  <2>9. \A i \in 1 .. Len(polls'[t]) : polls'[t][i].by \in marked' \cup {None}
    BY <1>0, <1>1, <2>2, <2>5, <2>8 DEF Held
  <2>10. Held(t)'
    BY <2>6, <2>7, <2>9 DEF Held
  <2> QED BY <2>1, <2>5, <2>6, <2>10
<1>3. ASSUME SaveCursor(t)
      PROVE  /\ polls' \in [Threads -> Seq(Calls)] /\ cursor' \in Nat
             /\ \A u \in Threads \ {t} : polls'[u] = polls[u]
             /\ pc' \in [Threads -> Places] /\ msg' \in [Threads -> Messages \cup {None}]
             /\ \A u \in Threads \ {t} : pc'[u] = pc[u] /\ msg'[u] = msg[u]
             /\ Held(t)'
  <2>1. polls[t] # <<>> /\ polls' = [polls EXCEPT ![t] = Tail(@)]
    BY <1>0, <1>3 DEF SaveCursor, Held
  <2>2. /\ polls' \in [Threads -> Seq(Calls)]
        /\ \A u \in Threads \ {t} : polls'[u] = polls[u]
        /\ polls[t][1] \in Calls /\ 1 \in 1 .. Len(polls[t])
        /\ \A i \in 1 .. Len(polls'[t]) :
              i + 1 \in 1 .. Len(polls[t]) /\ polls'[t][i] = polls[t][i + 1]
    BY <2>1, SaveType
  <2>3. cursor' \in Nat
    BY <1>3, <2>2 DEF SaveCursor, Calls
  <2>4. polls[t][1].by \in marked \cup {None}
    BY <1>0, <2>2 DEF Held
  <2>5. /\ pc' \in [Threads -> Places] /\ msg' \in [Threads -> Messages \cup {None}]
        /\ \A u \in Threads \ {t} : pc'[u] = pc[u] /\ msg'[u] = msg[u]
        /\ \/ pc'[t] = "doc" /\ msg'[t] = None
           \/ pc'[t] = "notice" /\ msg'[t] \in marked
    <3>1. CASE polls[t][1].by = None
      BY <1>0, <1>3, <3>1 DEF SaveCursor, Held, Go, Places
    <3>2. CASE polls[t][1].by # None
      <4>1. polls[t][1].by \in marked /\ polls[t][1].by \in Messages
        BY <2>4, <3>2 DEF Typed
      <4>2. pc' = [pc EXCEPT ![t] = "notice"] /\ msg' = [msg EXCEPT ![t] = polls[t][1].by]
        BY <1>3, <3>2 DEF SaveCursor, Go
      <4> QED BY <1>0, <4>1, <4>2 DEF Places
    <3> QED BY <3>1, <3>2
  <2>6. \A i \in 1 .. Len(polls'[t]) : polls'[t][i].by \in marked' \cup {None}
    BY <1>0, <1>1, <2>2 DEF Held
  <2>7. Held(t)'
    BY <1>1, <2>5, <2>6 DEF Held
  <2> QED BY <2>2, <2>3, <2>5, <2>7
<1>4. ASSUME t = "poll", PollChat
      PROVE  /\ polls' \in [Threads -> Seq(Calls)] /\ cursor' = cursor
             /\ \A u \in Threads \ {t} : polls'[u] = polls[u]
             /\ pc' \in [Threads -> Places] /\ msg' \in [Threads -> Messages \cup {None}]
             /\ \A u \in Threads \ {t} : pc'[u] = pc[u] /\ msg'[u] = msg[u]
             /\ Held(t)'
  <2>1. Poll(t, Since(cursor), None) /\ msg' = msg /\ cursor' = cursor
    BY <1>4 DEF PollChat, cursors
  <2>2. Since(cursor) \in Nat /\ msg'[t] = None
    BY <1>0, <1>4, <2>1, BoundTypes DEF PollChat, Held
  <2>3. pc' = [pc EXCEPT ![t] = "next"]
    BY <2>1 DEF Poll, Go
  <2>4. marked \subseteq marked'
    BY <1>1
  <2>5. /\ polls' \in [Threads -> Seq(Calls)] /\ Held(t)'
        /\ \A u \in Threads \ {t} : polls'[u] = polls[u]
    BY <2>1, <2>2, <2>4, PollHeld
  <2> QED BY <1>0, <2>1, <2>3, <2>5 DEF Places
<1>5. /\ polls' \in [Threads -> Seq(Calls)] /\ cursor' \in Nat
      /\ \A u \in Threads \ {t} : polls'[u] = polls[u]
      /\ pc' \in [Threads -> Places] /\ msg' \in [Threads -> Messages \cup {None}]
      /\ \A u \in Threads \ {t} : pc'[u] = pc[u] /\ msg'[u] = msg[u]
      /\ Held(t)'
  BY <1>0, <1>2, <1>3, <1>4
<1>6. InHand'
  <2>1. ASSUME NEW u \in Threads \ {t} PROVE Held(u)'
    BY <1>1, <1>5, HeldStays DEF InHand
  <2> QED BY <1>5, <2>1 DEF InHand
<1>7. Typed'
  BY <1>1, <1>5 DEF Typed, world, issue, bounds
<1> QED BY <1>6, <1>7

LEMMA LoopTyped ==
    ASSUME Typed, InHand,
           FirstPoll \/ ListingFails \/ SkipChat \/ ReadDocument \/ ReadFails
           \/ SubmitDocument
    PROVE  Typed' /\ InHand'
<1>0. /\ pc \in [Threads -> Places] /\ msg \in [Threads -> Messages \cup {None}]
      /\ polls \in [Threads -> Seq(Calls)] /\ "poll" \in Threads
      /\ Held("poll") /\ now \in Nat
  BY DEF Typed, InHand, Threads
<1>1. UNCHANGED <<world, marked, issue, polls, msg, obeyed, events, calls, deaths>>
  BY DEF FirstPoll, ListingFails, SkipChat, ReadDocument, ReadFails, SubmitDocument,
     bounds
<1>2. \E p \in {"idle", "doc", "submitdoc", "submit"} : pc' = [pc EXCEPT !["poll"] = p]
  BY DEF FirstPoll, ListingFails, SkipChat, ReadDocument, ReadFails, SubmitDocument,
     DocPlace, Go
<1>3. msg["poll"] = None
  BY <1>0 DEF FirstPoll, ListingFails, SkipChat, ReadDocument, ReadFails,
     SubmitDocument, Held
<1>4. /\ cursor' \in Nat /\ docCursor' \in Contents \cup {None}
      /\ suppressed' \in BOOLEAN /\ troubles' \in Nat
  BY DEF Typed, FirstPoll, ListingFails, SkipChat, ReadDocument, ReadFails,
     SubmitDocument, Trouble, cursors, bounds
<1>5. pc' \in [Threads -> Places] /\ \A u \in Threads \ {"poll"} : pc'[u] = pc[u]
  BY <1>0, <1>2 DEF Places
<1>6. Held("poll")'
  <2>1. pc'["poll"] \in {"idle", "doc", "submitdoc", "submit"}
    BY <1>0, <1>2
  <2> QED BY <1>0, <1>1, <1>3, <2>1 DEF Held
<1>7. InHand'
  <2>1. ASSUME NEW u \in Threads \ {"poll"} PROVE Held(u)'
    BY <1>1, <1>5, HeldStays DEF InHand
  <2> QED BY <1>6, <2>1 DEF InHand
<1>8. Typed'
  BY <1>1, <1>4, <1>5 DEF Typed, world, issue
<1> QED BY <1>7, <1>8

LEMMA ProcessTyped ==
    ASSUME Typed, InHand, NEW t \in Threads, Execute(t) \/ Die(t) \/ Start(t)
    PROVE  Typed' /\ InHand'
<1>0. /\ pc \in [Threads -> Places] /\ msg \in [Threads -> Messages \cup {None}]
      /\ polls \in [Threads -> Seq(Calls)] /\ Held(t)
  BY DEF Typed, InHand
<1>1. UNCHANGED <<world, marked, cursors, issue, obeyed, events, calls>>
  BY DEF Execute, Die, Start, bounds
<1>2. suppressed' \in BOOLEAN /\ troubles' \in Nat /\ deaths' \in Nat
  <2>1. troubles' \in Nat /\ deaths' \in Nat
    BY DEF Typed, Execute, Die, Start, Trouble, bounds
  <2>2. CASE Die(t)
    <3>1. suppressed' = (suppressed /\ t # "poll")
      BY <2>2 DEF Die
    <3>2. suppressed' \in BOOLEAN
      BY <3>1, Zenon
    <3> QED BY <2>1, <3>2
  <2>3. CASE Execute(t) \/ Start(t)
    BY <2>1, <2>3 DEF Typed, Execute, Start
  <2> QED BY <2>2, <2>3
<1>3. \/ UNCHANGED <<pc, msg, polls>>
      \/ /\ pc' = [pc EXCEPT ![t] = "down"] /\ msg' = [msg EXCEPT ![t] = None]
         /\ polls' = [polls EXCEPT ![t] = <<>>]
      \/ pc[t] = "down" /\ pc' = [pc EXCEPT ![t] = "idle"] /\ UNCHANGED <<msg, polls>>
  BY DEF Execute, Die, Start, Go
<1>4. <<>> \in Seq(Calls)
  OBVIOUS
<1>5. /\ pc' \in [Threads -> Places] /\ msg' \in [Threads -> Messages \cup {None}]
      /\ polls' \in [Threads -> Seq(Calls)]
      /\ \A u \in Threads \ {t} : pc'[u] = pc[u] /\ msg'[u] = msg[u]
                                  /\ polls'[u] = polls[u]
  BY <1>0, <1>3, <1>4 DEF Places
<1>6. Held(t)'
  <2>1. CASE UNCHANGED <<pc, msg, polls>>
    BY <1>0, <1>1, <2>1 DEF Held
  <2>2. CASE pc'[t] = "down" /\ msg'[t] = None /\ polls'[t] = <<>>
    BY <2>2 DEF Held
  <2>3. CASE pc[t] = "down" /\ pc'[t] = "idle" /\ UNCHANGED <<msg, polls>>
    BY <1>0, <1>1, <2>3 DEF Held
  <2> QED BY <1>0, <1>3, <2>1, <2>2, <2>3
<1>7. InHand'
  <2>1. ASSUME NEW u \in Threads \ {t} PROVE Held(u)'
    BY <1>1, <1>5, HeldStays DEF InHand
  <2> QED BY <1>6, <2>1 DEF InHand
<1>8. Typed'
  BY <1>1, <1>2, <1>5 DEF Typed, world, issue, cursors
<1> QED BY <1>7, <1>8

LEMMA SurroundingsTyped == ASSUME Typed, InHand, Surroundings PROVE Typed' /\ InHand'
<1>0. /\ pc \in [Threads -> Places] /\ msg \in [Threads -> Messages \cup {None}]
      /\ polls \in [Threads -> Seq(Calls)] /\ Held("api") /\ "api" \in Threads
  BY DEF Typed, InHand, Threads
<1>1. UNCHANGED <<marked, cursors, issue, polls, obeyed, troubles, deaths>>
  BY DEF Surroundings, Post, Show, Deliver, EditDocument, DeliverRequest,
     EndSuppression, bounds
<1>2. /\ now' \in Nat /\ at' \in [Messages -> Nat] /\ shown' \subseteq Messages
      /\ doc' \in Contents
  <2>1. ASSUME NEW m \in Messages, Post(m)
        PROVE  /\ now' \in Nat /\ at' \in [Messages -> Nat] /\ UNCHANGED <<shown, doc>>
    <3>1. now' \in Nat
      BY <2>1, BoundTypes DEF Post
    <3> QED BY <2>1, <3>1 DEF Post, Typed
  <2>2. ASSUME NEW m \in Messages, Show(m) \/ Deliver(m)
        PROVE  UNCHANGED <<now, at, doc>> /\ shown' \subseteq Messages
    BY <2>2 DEF Show, Deliver, world, Typed
  <2>3. ASSUME NEW c \in Contents, EditDocument(c)
        PROVE  UNCHANGED <<now, at, shown>> /\ doc' \in Contents
    BY <2>3 DEF EditDocument
  <2>4. ASSUME EndSuppression \/ \E r \in Requests : DeliverRequest(r)
        PROVE  UNCHANGED world
    BY <2>4 DEF EndSuppression, DeliverRequest
  <2> QED BY <2>1, <2>2, <2>3, <2>4 DEF Surroundings, Typed, world
<1>3. suppressed' \in BOOLEAN /\ events' \in Nat /\ calls' \in Nat
  <2>1. suppressed' \in {suppressed, FALSE}
    BY DEF Surroundings, Post, Show, Deliver, EditDocument, DeliverRequest,
       EndSuppression
  <2>2. events' \in {events, events + 1}
    BY DEF Surroundings, Post, Show, Deliver, EditDocument, DeliverRequest,
       EndSuppression, Event, bounds
  <2>3. calls' \in {calls, calls + 1}
    BY DEF Surroundings, Post, Call, Show, Deliver, EditDocument, DeliverRequest,
       EndSuppression, bounds
  <2>4. suppressed' \in BOOLEAN
    <3>1. suppressed \in BOOLEAN
      BY DEF Typed
    <3> QED BY <2>1, <3>1, Zenon
  <2>5. events' \in Nat /\ calls' \in Nat
    BY <2>2, <2>3 DEF Typed
  <2> QED BY <2>4, <2>5
<1>4. \/ UNCHANGED <<pc, msg>>
      \/ pc["api"] = "idle" /\ pc' = [pc EXCEPT !["api"] = "submit"] /\ UNCHANGED msg
      \/ /\ pc["api"] = "idle" /\ pc' = [pc EXCEPT !["api"] = "handle"]
         /\ \E m \in Messages : msg' = [msg EXCEPT !["api"] = m]
  BY DEF Surroundings, Post, Call, Show, Deliver, EditDocument, DeliverRequest,
     EndSuppression, Go
<1>5. /\ pc' \in [Threads -> Places] /\ msg' \in [Threads -> Messages \cup {None}]
      /\ \A u \in Threads \ {"api"} : pc'[u] = pc[u] /\ msg'[u] = msg[u]
  <2>1. CASE UNCHANGED <<pc, msg>>
    BY <1>0, <2>1
  <2>2. CASE pc' = [pc EXCEPT !["api"] = "submit"] /\ UNCHANGED msg
    BY <1>0, <2>2 DEF Places
  <2>3. ASSUME NEW m \in Messages, pc' = [pc EXCEPT !["api"] = "handle"],
               msg' = [msg EXCEPT !["api"] = m]
        PROVE  /\ pc' \in [Threads -> Places]
               /\ msg' \in [Threads -> Messages \cup {None}]
               /\ \A u \in Threads \ {"api"} : pc'[u] = pc[u] /\ msg'[u] = msg[u]
    BY <1>0, <2>3 DEF Places
  <2> QED BY <1>4, <2>1, <2>2, <2>3
<1>6. Held("api")'
  <2>1. \A i \in 1 .. Len(polls'["api"]) : polls'["api"][i].by \in marked' \cup {None}
    BY <1>0, <1>1 DEF Held
  <2>2. CASE UNCHANGED <<pc, msg>>
    BY <1>0, <1>1, <2>2 DEF Held
  <2>3. CASE pc'["api"] = "submit"
    BY <2>1, <2>3 DEF Held
  <2>4. CASE pc'["api"] = "handle" /\ msg'["api"] \in Messages
    BY <2>1, <2>4 DEF Held
  <2> QED BY <1>0, <1>4, <2>2, <2>3, <2>4
<1>7. InHand'
  <2>1. ASSUME NEW u \in Threads \ {"api"} PROVE Held(u)'
    BY <1>1, <1>5, HeldStays DEF InHand
  <2> QED BY <1>6, <2>1 DEF InHand
<1>8. Typed'
  BY <1>1, <1>2, <1>3, <1>5 DEF Typed, issue, cursors
<1> QED BY <1>7, <1>8

LEMMA NextTyped == Typed /\ InHand /\ [Next]_vars => Typed' /\ InHand'
<1> SUFFICES ASSUME Typed, InHand, [Next]_vars PROVE Typed' /\ InHand'
  OBVIOUS
<1>1. CASE UNCHANGED vars
  BY <1>1 DEF vars, world, cursors, issue, bounds, Typed, InHand, Held
<1>2. CASE Surroundings
  BY <1>2, SurroundingsTyped
<1>3. ASSUME NEW t \in Threads, Step(t) PROVE Typed' /\ InHand'
  <2>1. CASE Handle(t)
    BY <2>1, HandleTyped
  <2>2. CASE Execute(t)
    BY <2>2, ProcessTyped
  <2>3. CASE TakeMessage(t) \/ SaveCursor(t) \/ (t = "poll" /\ PollChat)
    BY <2>3, ListingTyped
  <2>4. CASE FirstPoll \/ ListingFails \/ SkipChat \/ ReadDocument \/ ReadFails
             \/ SubmitDocument
    BY <2>4, LoopTyped
  <2> QED BY <1>3, <2>1, <2>2, <2>3, <2>4 DEF Step
<1>4. ASSUME NEW t \in Threads, Die(t) \/ Start(t) PROVE Typed' /\ InHand'
  BY <1>4, ProcessTyped
<1> QED BY <1>1, <1>2, <1>3, <1>4 DEF Next

LEMMA AllHeld == Spec => [](Typed /\ InHand)
<1>1. Init => Typed /\ InHand
  BY InitTyped, InitHeld
<1> QED BY <1>1, NextTyped, PTL DEF Spec

\* Every variable of the loop and the webhook keeps its type, and a thread is in
\* submit exactly while the orchestrator executes for it.
THEOREM TypeCorrect == Spec => []TypeOK
<1>1. Init => Executing
  BY InitTyped
<1>2. Typed /\ Executing /\ R!TypeOK' /\ [Next]_vars => Executing'
  BY NextExecuting
<1>3. R!TypeOK /\ Typed /\ Executing => TypeOK
  BY DEF TypeOK, Typed, Executing, Calls
<1> QED BY <1>1, <1>2, <1>3, AllHeld, RequestTypes, PTL DEF Spec

-----------------------------------------------------------------------------
(* Alerts                                                                  *)

\* A thread about to send a warning, or the hand-off.
In(t, place) == IF pc[t] = place THEN 1 ELSE 0
Due(place) == In("poll", place) + In("api", place)

\* What was sent and what is about to be sent, together: the warnings are of
\* failures before the threshold, and whoever hands off has set the flag.
Counted ==
    /\ warnings + Due("warn") <= failures
    /\ warnings + Due("warn") < Threshold
    /\ handoffs + Due("handoff") <= 1
    /\ ~alerted => handoffs + Due("handoff") = 0

LEMMA DueNumber == \A place : Due(place) \in Nat
  BY DEF Due, In

\* A thread that goes elsewhere leaves no more to be sent, and one less if it
\* was to be sent from there.
LEMMA DueMoves ==
    ASSUME pc \in [Threads -> Places], NEW t \in Threads, NEW p \in Places,
           pc' = [pc EXCEPT ![t] = p], NEW place
    PROVE  /\ p # place => Due(place)' <= Due(place)
           /\ p # place /\ pc[t] = place => Due(place)' = Due(place) - 1
           /\ p = place /\ pc[t] # place => Due(place)' = Due(place) + 1
<1>1. "poll" \in Threads /\ "api" \in Threads /\ (t = "poll" \/ t = "api")
  BY DEF Threads
<1>2. pc'[t] = p /\ \A u \in Threads \ {t} : pc'[u] = pc[u]
  BY <1>1
<1>3. CASE t = "poll"
  <2>1. pc'["poll"] = p /\ pc'["api"] = pc["api"]
    BY <1>1, <1>2, <1>3
  <2> QED BY <1>3, <2>1 DEF Due, In
<1>4. CASE t = "api"
  <2>1. pc'["api"] = p /\ pc'["poll"] = pc["poll"]
    BY <1>1, <1>2, <1>4
  <2> QED BY <1>4, <2>1 DEF Due, In
<1> QED BY <1>1, <1>3, <1>4

LEMMA InitCounted == Init => Counted
<1> SUFFICES ASSUME Init PROVE Counted
  OBVIOUS
<1>1. Due("warn") = 0 /\ Due("handoff") = 0
  BY DEF Init, Due, In, Threads
<1> QED BY <1>1, IntakeAssumption DEF Init, Counted

\* A step that sends nothing, and prepares nothing to be sent.
LEMMA NothingSent ==
    ASSUME Typed, Counted, UNCHANGED issue,
           \/ pc' = pc
           \/ \E t \in Threads, p \in Places \ {"warn", "handoff"} :
                 pc' = [pc EXCEPT ![t] = p]
    PROVE  Counted'
<1>1. Due("warn")' <= Due("warn") /\ Due("handoff")' <= Due("handoff")
  <2>1. CASE pc' = pc
    <3>1. Due("warn")' = Due("warn") /\ Due("handoff")' = Due("handoff")
      BY <2>1 DEF Due, In
    <3> QED BY <3>1, DueNumber
  <2>2. ASSUME NEW t \in Threads, NEW p \in Places \ {"warn", "handoff"},
               pc' = [pc EXCEPT ![t] = p]
        PROVE  Due("warn")' <= Due("warn") /\ Due("handoff")' <= Due("handoff")
    BY <2>2, DueMoves DEF Typed
  <2> QED BY <2>1, <2>2
<1>2. Due("warn")' \in Nat /\ Due("handoff")' \in Nat
      /\ Due("warn") \in Nat /\ Due("handoff") \in Nat
  BY DEF Due, In
<1> QED BY <1>1, <1>2, IntakeAssumption DEF Counted, Typed, issue

LEMMA NextCounted ==
    ASSUME Typed, InHand, Counted, [Next]_vars PROVE Counted'
<1>0. /\ pc \in [Threads -> Places] /\ failures \in Nat /\ warnings \in Nat
      /\ handoffs \in Nat /\ Threshold \in Nat
      /\ Due("warn")' \in Nat /\ Due("handoff")' \in Nat
      /\ Due("warn") \in Nat /\ Due("handoff") \in Nat
  BY IntakeAssumption DEF Typed, Due, In
<1>1. ASSUME NEW t \in Threads, CountFailure(t) PROVE Counted'
  <2>1. /\ failures' = failures + 1 /\ UNCHANGED <<warnings, handoffs>>
        /\ pc[t] = "handle"
    BY <1>1 DEF CountFailure, Handles
  <2>5. alerted' <=> alerted \/ HandsOff(failures')
    BY <1>1 DEF CountFailure
  <2>2. CASE failures' < Threshold
    <3>1. pc' = [pc EXCEPT ![t] = "warn"]
      <4>1. Go(t, CASE failures' < Threshold -> "warn"
                    [] HandsOff(failures')   -> "handoff"
                    [] OTHER                 -> "reject")
        BY <1>1 DEF CountFailure
      <4>2. ~HandsOff(failures')
        BY <1>0, <2>1, <2>2 DEF HandsOff
      <4> QED BY <2>2, <4>1, <4>2 DEF Go
    <3>2. Due("warn")' = Due("warn") + 1 /\ Due("handoff")' <= Due("handoff")
      BY <1>0, <2>1, <3>1, DueMoves, ZenonT(60) DEF Places
    <3>3. ~alerted' => ~alerted
      BY <2>5
    <3> QED BY <1>0, <2>1, <2>2, <3>2, <3>3 DEF Counted
  <2>3. CASE ~(failures' < Threshold) /\ HandsOff(failures')
    <3>1. pc' = [pc EXCEPT ![t] = "handoff"]
      BY <1>1, <2>3 DEF CountFailure, Go
    <3>2. Due("handoff")' = Due("handoff") + 1 /\ Due("warn")' <= Due("warn")
      BY <1>0, <2>1, <3>1, DueMoves, ZenonT(60) DEF Places
    <3>3. alerted' /\ ~alerted
      BY <2>5, <2>3 DEF HandsOff
    <3>4. handoffs' + Due("handoff")' = 1
      BY <1>0, <2>1, <3>2, <3>3 DEF Counted
    <3>5. /\ warnings' + Due("warn")' <= failures'
          /\ warnings' + Due("warn")' < Threshold
      BY <1>0, <2>1, <3>2 DEF Counted
    <3> QED BY <3>3, <3>4, <3>5 DEF Counted
  <2>4. CASE ~(failures' < Threshold) /\ ~HandsOff(failures')
    <3>1. pc' = [pc EXCEPT ![t] = "reject"]
      BY <1>1, <2>4 DEF CountFailure, Go
    <3>2. Due("handoff")' <= Due("handoff") /\ Due("warn")' <= Due("warn")
      BY <1>0, <3>1, DueMoves DEF Places
    <3>3. ~alerted' => ~alerted
      BY <2>5
    <3> QED BY <1>0, <2>1, <3>2, <3>3 DEF Counted
  <2> QED BY <2>2, <2>3, <2>4
<1>2. ASSUME NEW t \in Threads, Warn(t) PROVE Counted'
  <2>1. UNCHANGED <<failures, alerted>> /\ pc' = [pc EXCEPT ![t] = "reject"]
        /\ "reject" \in Places
    BY <1>2 DEF Warn, Go, Places
  <2>2. CASE pc[t] = "warn"
    <3>1. Due("warn")' = Due("warn") - 1 /\ Due("handoff")' <= Due("handoff")
      BY <1>0, <2>1, <2>2, DueMoves
    <3>2. warnings' = warnings + 1 /\ handoffs' = handoffs
      BY <1>2, <2>2 DEF Warn
    <3> QED BY <1>0, <2>1, <3>1, <3>2 DEF Counted
  <2>3. CASE pc[t] = "handoff"
    <3>1. Due("handoff")' = Due("handoff") - 1 /\ Due("warn")' <= Due("warn")
      BY <1>0, <2>1, <2>3, DueMoves
    <3>2. handoffs' = handoffs + 1 /\ warnings' = warnings
      BY <1>2, <2>3 DEF Warn
    <3> QED BY <1>0, <2>1, <3>1, <3>2 DEF Counted
  <2> QED BY <1>2, <2>2, <2>3 DEF Warn
<1>3. ASSUME NEW t \in Threads, Handle(t), ~CountFailure(t), ~Warn(t) PROVE Counted'
  <2>1. UNCHANGED issue
    BY <1>3 DEF Handle, Ignore, Obey, ManualCheck, Recheck, RecheckFails,
       SubmitMessage, Submitted, SubmitRaises, WarnFails, Reject, Mark, Notice,
       NoticeFails
  <2>2. \E p \in Places \ {"warn", "handoff"} : pc' = [pc EXCEPT ![t] = p]
    BY <1>3 DEF Handle, Ignore, Obey, ManualCheck, Recheck, RecheckFails,
       SubmitMessage, Submitted, SubmitRaises, WarnFails, Reject, Mark, Notice,
       NoticeFails, Poll, Finish, Raise, Go, Places
  <2> QED BY <2>1, <2>2, NothingSent
<1>4. ASSUME NEW t \in Threads,
             TakeMessage(t) \/ SaveCursor(t) \/ Execute(t) \/ Die(t) \/ Start(t)
      PROVE  Counted'
  <2>1. UNCHANGED issue
    BY <1>4 DEF TakeMessage, SaveCursor, Execute, Die, Start
  <2>2. \/ pc' = pc
        \/ \E p \in Places \ {"warn", "handoff"} : pc' = [pc EXCEPT ![t] = p]
    BY <1>4 DEF TakeMessage, SaveCursor, Execute, Die, Start, Go, Places
  <2> QED BY <2>1, <2>2, NothingSent
<1>5. CASE FirstPoll \/ PollChat \/ ListingFails \/ SkipChat \/ ReadDocument \/ ReadFails
           \/ SubmitDocument
  <2>1. UNCHANGED issue
    BY <1>5 DEF FirstPoll, PollChat, ListingFails, SkipChat, ReadDocument, ReadFails,
       SubmitDocument
  <2>2. \E p \in Places \ {"warn", "handoff"} : pc' = [pc EXCEPT !["poll"] = p]
    BY <1>5 DEF FirstPoll, PollChat, Poll, ListingFails, SkipChat, ReadDocument,
       ReadFails, SubmitDocument, DocPlace, Go, Places
  <2> QED BY <2>1, <2>2, NothingSent DEF Threads
<1>6. CASE Surroundings
  <2>1. UNCHANGED issue
    BY <1>6 DEF Surroundings, Post, Show, Deliver, EditDocument, DeliverRequest,
       EndSuppression
  <2>2. \/ pc' = pc
        \/ \E p \in Places \ {"warn", "handoff"} : pc' = [pc EXCEPT !["api"] = p]
    BY <1>6 DEF Surroundings, Post, Call, Show, Deliver, EditDocument, DeliverRequest,
       EndSuppression, Go, Places
  <2> QED BY <2>1, <2>2, NothingSent DEF Threads
<1>7. CASE UNCHANGED vars
  BY <1>7, NothingSent DEF vars
<1> QED BY <1>1, <1>2, <1>3, <1>4, <1>5, <1>6, <1>7 DEF Next, Step

\* The loop and the webhook count one failure together, and count a message
\* again when its warning could not be sent: there is one hand-off, and before
\* it there are fewer warnings than the threshold (_handle_parse_failure).
THEOREM OneHandOff == Spec => []AlertsBounded
<1>1. Typed /\ InHand /\ Counted /\ [Next]_vars => Counted'
  BY NextCounted
<1>2. Typed /\ Counted => AlertsBounded
  <2> SUFFICES ASSUME Typed, Counted PROVE AlertsBounded
    OBVIOUS
  <2>1. Due("warn") \in Nat /\ Due("handoff") \in Nat
    BY DueNumber
  <2> QED BY <2>1, IntakeAssumption DEF Typed, Counted, AlertsBounded
<1> QED BY <1>1, <1>2, InitCounted, AllHeld, PTL DEF Spec

-----------------------------------------------------------------------------
(* Commands                                                                *)

\* A thread is in a place with a message.
With(t, place, m) == IF pc[t] = place /\ msg[t] = m THEN 1 ELSE 0
Both(place, m) == With("poll", place, m) + With("api", place, m)

\* A command that is not marked was carried out by a thread that is about to mark
\* it, or that died.  Once it is marked, only who handles it already may carry it
\* out again.
Carried(m) ==
    /\ m \notin marked => obeyed[m] <= Both("mark", m) + deaths
    /\ m \in marked => obeyed[m] + Both("handle", m) <= 1 + calls + deaths

\* The webhook handles no message that it was not called for.
Uncalled ==
    calls = 0 => /\ pc["api"] \in {"idle", "down", "submit"} /\ msg["api"] = None
                 /\ polls["api"] = <<>>
Obeying == Uncalled /\ \A m \in Messages : Carried(m)

\* Both, seen from a thread that moves.
LEMMA FromOne ==
    ASSUME NEW t \in Threads,
           \A v \in Threads \ {t} : pc'[v] = pc[v] /\ msg'[v] = msg[v]
    PROVE  \E u \in Threads \ {t} : \A m \in Messages :
              /\ Both("mark", m) = With(t, "mark", m) + With(u, "mark", m)
              /\ Both("mark", m)' = With(t, "mark", m)' + With(u, "mark", m)
              /\ Both("handle", m) = With(t, "handle", m) + With(u, "handle", m)
              /\ Both("handle", m)' = With(t, "handle", m)' + With(u, "handle", m)
<1>1. CASE t = "poll"
  <2>1. "api" \in Threads \ {t}
    BY <1>1 DEF Threads
  <2>2. pc'["api"] = pc["api"] /\ msg'["api"] = msg["api"]
    BY <2>1
  <2> QED BY <1>1, <2>1, <2>2 DEF Both, With
<1>2. CASE t = "api"
  <2>1. "poll" \in Threads \ {t}
    BY <1>2 DEF Threads
  <2>2. pc'["poll"] = pc["poll"] /\ msg'["poll"] = msg["poll"]
    BY <2>1
  <2> QED BY <1>2, <2>1, <2>2 DEF Both, With
<1> QED BY <1>1, <1>2 DEF Threads

\* A step of t that does not carry out m.
LEMMA CarriedStays ==
    ASSUME Typed, Uncalled, NEW m \in Messages, Carried(m), NEW t \in Threads,
           \A v \in Threads \ {t} : pc'[v] = pc[v] /\ msg'[v] = msg[v],
           obeyed'[m] = obeyed[m],
           calls' \in Nat, calls <= calls', deaths' \in Nat, deaths <= deaths',
           marked' \in {marked, marked \cup {msg[t]}},
           pc[t] = "mark" /\ msg[t] = m =>
              \/ pc'[t] = "mark" /\ msg'[t] = m
              \/ m \in marked' \/ deaths' = deaths + 1,
           m \in marked' /\ pc'[t] = "handle" /\ msg'[t] = m =>
              m \in marked /\ pc[t] = "handle" /\ msg[t] = m
    PROVE  Carried(m)'
<1>1. PICK u \in Threads \ {t} :
          /\ Both("mark", m) = With(t, "mark", m) + With(u, "mark", m)
          /\ Both("mark", m)' = With(t, "mark", m)' + With(u, "mark", m)
          /\ Both("handle", m) = With(t, "handle", m) + With(u, "handle", m)
          /\ Both("handle", m)' = With(t, "handle", m)' + With(u, "handle", m)
  BY FromOne
<1>2. obeyed[m] \in Nat /\ calls \in Nat /\ deaths \in Nat
  BY DEF Typed
<1>3. CASE m \notin marked'
  <2>1. m \notin marked
    BY <1>3
  <2>2. With(t, "mark", m) <= With(t, "mark", m)' \/ deaths' = deaths + 1
    BY <1>3 DEF With
  <2>3. /\ With(t, "mark", m) \in 0 .. 1 /\ With(t, "mark", m)' \in 0 .. 1
        /\ With(u, "mark", m) \in 0 .. 1
    BY DEF With
  <2>4. obeyed[m] <= With(t, "mark", m) + With(u, "mark", m) + deaths
    BY <1>1, <2>1 DEF Carried
  <2>5. obeyed'[m] <= Both("mark", m)' + deaths'
    BY <1>1, <1>2, <2>2, <2>3, <2>4
  <2> QED BY <1>3, <2>5 DEF Carried
<1>4. CASE m \in marked' /\ m \notin marked
  <2>1. With(t, "handle", m)' = 0
    BY <1>4 DEF With
  <2>2. With(u, "mark", m) + With(u, "handle", m) \in 0 .. 1
        /\ With(t, "mark", m) \in 0 .. 1 /\ With(u, "handle", m) \in 0 .. 1
        /\ With(u, "mark", m) \in 0 .. 1
    BY DEF With
  <2>3. obeyed[m] <= With(t, "mark", m) + With(u, "mark", m) + deaths
    BY <1>1, <1>4 DEF Carried
  <2>4. With(t, "mark", m) + With(u, "mark", m) + With(u, "handle", m) <= 1 + calls
    <3>1. CASE calls = 0
      <4>1. /\ With("api", "mark", m) = 0 /\ With("api", "handle", m) = 0
        BY <3>1 DEF Uncalled, With
      <4>2. t = "api" \/ u = "api"
        BY DEF Threads
      <4> QED BY <1>2, <2>2, <4>1, <4>2
    <3>2. CASE calls # 0
      BY <1>2, <2>2, <3>2
    <3> QED BY <3>1, <3>2
  <2>5. obeyed'[m] + Both("handle", m)' <= 1 + calls' + deaths'
    BY <1>1, <1>2, <2>1, <2>2, <2>3, <2>4
  <2> QED BY <1>4, <2>5 DEF Carried
<1>5. CASE m \in marked' /\ m \in marked
  <2>1. With(t, "handle", m)' <= With(t, "handle", m)
    BY <1>5 DEF With
  <2>2. /\ With(t, "handle", m) \in 0 .. 1 /\ With(t, "handle", m)' \in 0 .. 1
        /\ With(u, "handle", m) \in 0 .. 1
    BY DEF With
  <2>3. obeyed[m] + With(t, "handle", m) + With(u, "handle", m) <= 1 + calls + deaths
    BY <1>1, <1>2, <1>5, <2>2 DEF Carried
  <2>4. obeyed'[m] + Both("handle", m)' <= 1 + calls' + deaths'
    BY <1>1, <1>2, <2>1, <2>2, <2>3
  <2> QED BY <1>5, <2>4 DEF Carried
<1> QED BY <1>3, <1>4, <1>5

\* The command that is carried out is about to be marked.
LEMMA CarriedOut ==
    ASSUME Typed, NEW t \in Threads, NEW m \in Messages, Carried(m), Obey(t), msg[t] = m
    PROVE  Carried(m)'
<1>1. /\ pc[t] = "handle" /\ obeyed' = [obeyed EXCEPT ![m] = @ + 1]
      /\ UNCHANGED <<marked, msg, calls, deaths>> /\ pc' = [pc EXCEPT ![t] = "mark"]
  BY DEF Obey, Handles, OfKind, Go, bounds
<1>2. /\ pc \in [Threads -> Places] /\ msg \in [Threads -> Messages \cup {None}]
      /\ obeyed \in [Messages -> Nat] /\ calls \in Nat /\ deaths \in Nat
  BY DEF Typed
<1>3. \A v \in Threads \ {t} : pc'[v] = pc[v] /\ msg'[v] = msg[v]
  BY <1>1, <1>2
<1>4. msg'[t] = m /\ pc'[t] = "mark" /\ obeyed'[m] = obeyed[m] + 1 /\ obeyed[m] \in Nat
  BY <1>1, <1>2
<1>5. PICK u \in Threads \ {t} :
          /\ Both("mark", m) = With(t, "mark", m) + With(u, "mark", m)
          /\ Both("mark", m)' = With(t, "mark", m)' + With(u, "mark", m)
          /\ Both("handle", m) = With(t, "handle", m) + With(u, "handle", m)
          /\ Both("handle", m)' = With(t, "handle", m)' + With(u, "handle", m)
  BY <1>1, <1>3, FromOne
<1>6. /\ With(t, "mark", m) = 0 /\ With(t, "mark", m)' = 1
      /\ With(t, "handle", m) = 1 /\ With(t, "handle", m)' = 0
  BY <1>1, <1>4 DEF With
<1>7. With(u, "mark", m) \in 0 .. 1 /\ With(u, "handle", m) \in 0 .. 1
  BY DEF With
<1>8. /\ m \notin marked => obeyed[m] <= Both("mark", m) + deaths
      /\ m \in marked => obeyed[m] + Both("handle", m) <= 1 + calls + deaths
  BY DEF Carried
<1>9. m \notin marked => obeyed'[m] <= Both("mark", m)' + deaths
  BY <1>2, <1>4, <1>5, <1>6, <1>7, <1>8
<1>10. m \in marked => obeyed'[m] + Both("handle", m)' <= 1 + calls + deaths
  BY <1>2, <1>4, <1>5, <1>6, <1>7, <1>8
<1> QED BY <1>1, <1>4, <1>9, <1>10 DEF Carried

LEMMA HandleObeying ==
    ASSUME Typed, InHand, Obeying, NEW t \in Threads, Handle(t)
    PROVE  Obeying'
<1>0. /\ pc \in [Threads -> Places] /\ msg \in [Threads -> Messages \cup {None}]
      /\ polls \in [Threads -> Seq(Calls)] /\ calls \in Nat /\ deaths \in Nat
  BY DEF Typed
<1>1. /\ \E p \in Places : pc' = [pc EXCEPT ![t] = p]
      /\ UNCHANGED <<calls, deaths>> /\ marked' \in {marked, marked \cup {msg[t]}}
      /\ GoesOn(t) \/ Ends(t) \/ Raise(t) \/ Recheck(t)
  BY HandleStep
<1>2. \A v \in Threads \ {t} : pc'[v] = pc[v] /\ msg'[v] = msg[v]
  BY <1>0, <1>1 DEF GoesOn, Ends, Raise, Recheck
<1>3. pc'[t] # "handle"
  BY <1>0, <1>1 DEF GoesOn, Ends, Raise, Recheck, Poll, Go
<1>4. pc[t] = "mark" => msg[t] \in marked'
  BY DEF Handle, Ignore, Obey, ManualCheck, Recheck, RecheckFails, SubmitMessage,
     Submitted, SubmitRaises, CountFailure, Warn, WarnFails, Reject, Mark, Notice,
     NoticeFails, Handles, MarkMessage
<1>5. ASSUME NEW m \in Messages PROVE Carried(m)'
  <2>1. CASE Obey(t) /\ msg[t] = m
    BY <2>1, CarriedOut DEF Obeying
  <2>2. CASE ~(Obey(t) /\ msg[t] = m)
    <3>1. obeyed'[m] = obeyed[m]
      <4>1. CASE Obey(t)
        BY <2>2, <4>1 DEF Obey, Typed
      <4>2. CASE ~Obey(t)
        BY <4>2 DEF Handle, Ignore, ManualCheck, Recheck, RecheckFails, SubmitMessage,
           Submitted, SubmitRaises, CountFailure, Warn, WarnFails, Reject, Mark, Notice,
           NoticeFails
      <4> QED BY <4>1, <4>2
    <3>2. calls' \in Nat /\ calls <= calls' /\ deaths' \in Nat /\ deaths <= deaths'
      BY <1>0, <1>1
    <3> QED BY <1>1, <1>2, <1>3, <1>4, <3>1, <3>2, CarriedStays DEF Obeying
  <2> QED BY <2>1, <2>2
<1>6. Uncalled'
  <2> SUFFICES ASSUME calls = 0
               PROVE  /\ pc'["api"] \in {"idle", "down", "submit"} /\ msg'["api"] = None
                      /\ polls'["api"] = <<>>
    BY <1>1 DEF Uncalled
  <2>1. /\ pc["api"] \in {"idle", "down", "submit"} /\ msg["api"] = None
        /\ polls["api"] = <<>>
    BY DEF Obeying, Uncalled
  <2>2. CASE t # "api"
    <3>1. polls'["api"] = polls["api"]
      BY <1>0, <1>1, <2>2 DEF GoesOn, Ends, Raise, Recheck, Poll, Threads
    <3>2. "api" \in Threads \ {t}
      BY <2>2 DEF Threads
    <3> QED BY <1>2, <2>1, <3>1, <3>2
  <2>3. CASE t = "api"
    <3>1. pc[t] = "submit"
      BY <2>1, <2>3, HandleStep
    <3>2. Submitted(t) \/ SubmitRaises(t)
      BY <3>1 DEF Handle, Ignore, Obey, ManualCheck, Recheck, RecheckFails, SubmitMessage,
         CountFailure, Warn, WarnFails, Reject, Mark, Notice, NoticeFails, Handles
    <3> QED BY <1>0, <2>1, <2>3, <3>2 DEF Submitted, SubmitRaises, Go
  <2> QED BY <2>2, <2>3
<1> QED BY <1>5, <1>6 DEF Obeying

\* A step that is not a handler's.
LEMMA OtherObeying ==
    ASSUME Typed, InHand, Obeying, NEW t \in Threads,
           \A v \in Threads \ {t} : pc'[v] = pc[v] /\ msg'[v] = msg[v]
                                     /\ polls'[v] = polls[v],
           UNCHANGED <<marked, obeyed>>,
           calls' \in Nat, calls <= calls', deaths' \in Nat, deaths <= deaths',
           pc[t] = "mark" => \/ pc'[t] = "mark" /\ msg'[t] = msg[t]
                             \/ deaths' = deaths + 1,
           pc'[t] = "handle" => \/ msg'[t] \notin marked
                                \/ pc[t] = "handle" /\ msg'[t] = msg[t],
           t = "api" /\ calls' = 0 /\ calls = 0 => Uncalled'
    PROVE  Obeying'
<1>1. \A v \in Threads \ {t} : pc'[v] = pc[v] /\ msg'[v] = msg[v]
  OBVIOUS
<1>2. ASSUME NEW m \in Messages PROVE Carried(m)'
  <2>1. obeyed'[m] = obeyed[m] /\ marked' = marked
    OBVIOUS
  <2> QED BY <1>1, <2>1, CarriedStays DEF Obeying
<1>3. Uncalled'
  <2>1. CASE t = "api"
    BY <2>1 DEF Typed, Uncalled
  <2>2. CASE t # "api"
    <3>1. "api" \in Threads \ {t}
      BY <2>2 DEF Threads
    <3>2. calls' = 0 => calls = 0
      BY DEF Typed
    <3> QED BY <1>1, <3>1, <3>2 DEF Obeying, Uncalled
  <2> QED BY <2>1, <2>2
<1> QED BY <1>2, <1>3 DEF Obeying

LEMMA NextObeying ==
    ASSUME Typed, InHand, Obeying, [Next]_vars PROVE Obeying'
<1>0. /\ pc \in [Threads -> Places] /\ msg \in [Threads -> Messages \cup {None}]
      /\ polls \in [Threads -> Seq(Calls)] /\ calls \in Nat /\ deaths \in Nat
      /\ "poll" \in Threads /\ "api" \in Threads /\ "poll" # "api"
      /\ Uncalled
  BY DEF Typed, Threads, Obeying
<1>1. ASSUME NEW t \in Threads, TakeMessage(t) PROVE Obeying'
  <2>1. pc[t] = "next" /\ UNCHANGED <<marked, obeyed, calls, deaths>>
    BY <1>1 DEF TakeMessage, bounds
  <2>2. polls[t] # <<>>
    BY <2>1 DEF InHand, Held
  <2>3. polls[t][1].todo \subseteq Messages
    <3>1. Len(polls[t]) \in Nat \ {0}
      BY <1>0, <2>2, LenProperties, EmptySeq
    <3>2. polls[t][1] \in Calls
      BY <1>0, <3>1, ElementOfSeq
    <3> QED BY <3>2 DEF Calls
  <2>4. PICK m \in Messages :
          /\ polls' = [polls EXCEPT ![t] = <<Without(Head(@), m)>> \o Tail(@)]
          /\ IF m \in marked
             THEN UNCHANGED <<pc, msg>>
             ELSE Go(t, "handle") /\ msg' = [msg EXCEPT ![t] = m]
    BY <1>1, <2>3 DEF TakeMessage
  <2>5. \A v \in Threads \ {t} : polls'[v] = polls[v]
    BY <1>0, <2>4
  <2>6. t = "api" /\ calls' = 0 /\ calls = 0 => Uncalled'
    BY <1>0, <2>1 DEF Uncalled
  <2>7. CASE m \in marked
    <3>1. pc' = pc /\ msg' = msg
      BY <2>4, <2>7
    <3>2. \A v \in Threads \ {t} : pc'[v] = pc[v] /\ msg'[v] = msg[v]
                                    /\ polls'[v] = polls[v]
      BY <2>5, <3>1
    <3> QED BY <1>0, <2>1, <2>6, <3>1, <3>2, OtherObeying
  <2>8. CASE m \notin marked
    <3>1. /\ pc' = [pc EXCEPT ![t] = "handle"] /\ "handle" \in Places
          /\ msg' = [msg EXCEPT ![t] = m] /\ msg'[t] = m
      BY <1>0, <2>4, <2>8 DEF Go, Places
    <3>2. \A v \in Threads \ {t} : pc'[v] = pc[v] /\ msg'[v] = msg[v]
                                    /\ polls'[v] = polls[v]
      BY <1>0, <2>5, <3>1
    <3>3. calls' \in Nat /\ calls <= calls' /\ deaths' \in Nat /\ deaths <= deaths'
      BY <1>0, <2>1
    <3>4. pc[t] # "mark" /\ msg'[t] \notin marked
      BY <2>1, <2>8, <3>1
    <3> QED BY <2>1, <2>6, <3>2, <3>3, <3>4, OtherObeying
  <2> QED BY <2>7, <2>8
<1>2. ASSUME NEW t \in Threads, SaveCursor(t) PROVE Obeying'
  <2>1. /\ pc[t] = "next" /\ UNCHANGED <<marked, obeyed, calls, deaths>>
        /\ polls' = [polls EXCEPT ![t] = Tail(@)]
    BY <1>2 DEF SaveCursor, bounds
  <2>2. \A v \in Threads \ {t} : polls'[v] = polls[v]
    BY <1>0, <2>1
  <2>3. t = "api" /\ calls' = 0 /\ calls = 0 => Uncalled'
    BY <1>0, <2>1 DEF Uncalled
  <2>4. /\ \E p \in Places \ {"handle"} : pc' = [pc EXCEPT ![t] = p]
        /\ \A v \in Threads \ {t} : msg'[v] = msg[v]
    BY <1>0, <1>2 DEF SaveCursor, Go, Places
  <2>5. pc'[t] # "handle" /\ pc[t] # "mark"
    BY <1>0, <2>1, <2>4
  <2>6. \A v \in Threads \ {t} : pc'[v] = pc[v] /\ msg'[v] = msg[v]
                                  /\ polls'[v] = polls[v]
    BY <1>0, <2>2, <2>4
  <2>7. calls' \in Nat /\ calls <= calls' /\ deaths' \in Nat /\ deaths <= deaths'
    BY <1>0, <2>1
  <2> QED BY <2>1, <2>3, <2>5, <2>6, <2>7, OtherObeying
<1>3. ASSUME NEW t \in Threads, Execute(t) PROVE Obeying'
  <2>1. UNCHANGED <<marked, obeyed, calls, deaths, pc, msg, polls>>
    BY <1>3 DEF Execute
  <2>2. Uncalled'
    BY <1>0, <2>1 DEF Uncalled
  <2> QED BY <1>0, <2>1, <2>2, OtherObeying
<1>4. ASSUME NEW t \in Threads, Die(t) PROVE Obeying'
  <2>1. /\ UNCHANGED <<marked, obeyed, calls>> /\ deaths' = deaths + 1
        /\ pc' = [pc EXCEPT ![t] = "down"] /\ msg' = [msg EXCEPT ![t] = None]
        /\ polls' = [polls EXCEPT ![t] = <<>>]
    BY <1>4 DEF Die, Go
  <2>2. /\ pc'[t] = "down" /\ msg'[t] = None /\ polls'[t] = <<>>
        /\ \A v \in Threads \ {t} : pc'[v] = pc[v] /\ msg'[v] = msg[v]
                                     /\ polls'[v] = polls[v]
    BY <1>0, <2>1
  <2>3. t = "api" => Uncalled'
    BY <2>2 DEF Uncalled
  <2>4. calls' \in Nat /\ calls <= calls' /\ deaths' \in Nat /\ deaths <= deaths'
    BY <1>0, <2>1
  <2> QED BY <2>1, <2>2, <2>3, <2>4, OtherObeying
<1>5. ASSUME NEW t \in Threads, Start(t) PROVE Obeying'
  <2>1. /\ UNCHANGED <<marked, obeyed, calls, deaths, msg, polls>>
        /\ pc' = [pc EXCEPT ![t] = "idle"] /\ pc[t] = "down"
    BY <1>5 DEF Start, Go, bounds
  <2>2. /\ pc'[t] = "idle"
        /\ \A v \in Threads \ {t} : pc'[v] = pc[v] /\ msg'[v] = msg[v]
                                     /\ polls'[v] = polls[v]
    BY <1>0, <2>1
  <2>3. t = "api" => Uncalled'
    BY <1>0, <2>1, <2>2 DEF Uncalled
  <2>4. calls' \in Nat /\ calls <= calls' /\ deaths' \in Nat /\ deaths <= deaths'
    BY <1>0, <2>1
  <2> QED BY <2>1, <2>2, <2>3, <2>4, OtherObeying
<1>6. CASE FirstPoll \/ PollChat \/ ListingFails \/ SkipChat \/ ReadDocument \/ ReadFails
           \/ SubmitDocument
  <2>1. UNCHANGED <<marked, obeyed, calls, deaths, msg>>
    BY <1>6 DEF FirstPoll, PollChat, ListingFails, SkipChat, ReadDocument, ReadFails,
       SubmitDocument, bounds
  <2>2. \E p \in Places \ {"handle"} : pc' = [pc EXCEPT !["poll"] = p]
    BY <1>6 DEF FirstPoll, PollChat, Poll, ListingFails, SkipChat, ReadDocument,
       ReadFails, SubmitDocument, DocPlace, Go, Places
  <2>3. \A v \in Threads \ {"poll"} : polls'[v] = polls[v]
    BY <1>0, <1>6 DEF FirstPoll, PollChat, Poll, ListingFails, SkipChat, ReadDocument,
       ReadFails, SubmitDocument
  <2>4. pc["poll"] # "mark"
    BY <1>6 DEF FirstPoll, PollChat, ListingFails, SkipChat, ReadDocument, ReadFails,
       SubmitDocument
  <2>5. pc'["poll"] # "handle"
    BY <1>0, <2>2
  <2>6. \A v \in Threads \ {"poll"} : pc'[v] = pc[v] /\ msg'[v] = msg[v]
                                       /\ polls'[v] = polls[v]
    BY <1>0, <2>1, <2>2, <2>3
  <2>7. calls' \in Nat /\ calls <= calls' /\ deaths' \in Nat /\ deaths <= deaths'
    BY <1>0, <2>1
  <2> QED BY <1>0, <2>1, <2>4, <2>5, <2>6, <2>7, OtherObeying
<1>7. CASE Surroundings
  <2>1. UNCHANGED <<marked, obeyed, deaths, polls>>
    BY <1>7 DEF Surroundings, Post, Show, Deliver, EditDocument, DeliverRequest,
       EndSuppression, bounds
  <2>2. \/ UNCHANGED <<pc, msg, calls>>
        \/ /\ pc["api"] = "idle" /\ pc' = [pc EXCEPT !["api"] = "submit"]
           /\ UNCHANGED <<msg, calls>>
        \/ \E m \in Messages \ marked :
              /\ pc["api"] = "idle" /\ pc' = [pc EXCEPT !["api"] = "handle"]
              /\ msg' = [msg EXCEPT !["api"] = m] /\ calls' = calls + 1
    BY <1>7 DEF Surroundings, Post, Call, Show, Deliver, EditDocument, DeliverRequest,
       EndSuppression, Go, bounds
  <2>3. CASE UNCHANGED <<pc, msg, calls>>
    <3>1. Uncalled'
      BY <1>0, <2>1, <2>3 DEF Uncalled
    <3> QED BY <1>0, <2>1, <2>3, <3>1, OtherObeying
  <2>4. CASE /\ pc["api"] = "idle" /\ pc' = [pc EXCEPT !["api"] = "submit"]
             /\ UNCHANGED <<msg, calls>>
    <3>1. /\ pc'["api"] = "submit" /\ pc["api"] # "mark"
          /\ \A v \in Threads \ {"api"} : pc'[v] = pc[v] /\ msg'[v] = msg[v]
                                           /\ polls'[v] = polls[v]
      BY <1>0, <2>1, <2>4
    <3>2. Uncalled'
      BY <1>0, <2>1, <2>4, <3>1 DEF Uncalled
    <3>3. calls' \in Nat /\ calls <= calls' /\ deaths' \in Nat /\ deaths <= deaths'
      BY <1>0, <2>1, <2>4
    <3> QED BY <1>0, <2>1, <3>1, <3>2, <3>3, OtherObeying
  <2>5. ASSUME NEW m \in Messages \ marked, pc["api"] = "idle",
               pc' = [pc EXCEPT !["api"] = "handle"],
               msg' = [msg EXCEPT !["api"] = m], calls' = calls + 1
        PROVE  Obeying'
    <3>1. /\ msg'["api"] \notin marked /\ pc["api"] # "mark"
          /\ \A v \in Threads \ {"api"} : pc'[v] = pc[v] /\ msg'[v] = msg[v]
                                           /\ polls'[v] = polls[v]
      BY <1>0, <2>1, <2>5
    <3>2. calls' \in Nat /\ calls <= calls' /\ calls' # 0
          /\ deaths' \in Nat /\ deaths <= deaths'
      BY <1>0, <2>1, <2>5
    <3> QED BY <1>0, <2>1, <3>1, <3>2, OtherObeying
  <2> QED BY <2>2, <2>3, <2>4, <2>5
<1>8. CASE UNCHANGED vars
  <2>1. UNCHANGED <<marked, obeyed, calls, deaths, pc, msg, polls>>
    BY <1>8 DEF vars, bounds
  <2>2. Uncalled'
    BY <1>0, <2>1 DEF Uncalled
  <2> QED BY <1>0, <2>1, <2>2, OtherObeying
<1>9. ASSUME NEW t \in Threads, Handle(t) PROVE Obeying'
  BY <1>9, HandleObeying
<1> QED BY <1>1, <1>2, <1>3, <1>4, <1>5, <1>6, <1>7, <1>8, <1>9 DEF Next, Step

\* However often listings repeat a command, it is carried out once by the loop,
\* once per call of the webhook, and once more per death (_handle_message_item
\* marks it after it carried it out).
THEOREM Obeyed == Spec => []ObeyedPerDelivery
<1>1. Init => Obeying
  BY IntakeAssumption DEF Init, Obeying, Uncalled, Carried, Both, With, Threads
<1>2. Typed /\ InHand /\ Obeying /\ [Next]_vars => Obeying'
  BY NextObeying
<1>3. Typed /\ Obeying => ObeyedPerDelivery
  <2> SUFFICES ASSUME Typed, Obeying, NEW m \in Messages
               PROVE  obeyed[m] <= 1 + calls + deaths
    BY DEF ObeyedPerDelivery
  <2>1. obeyed[m] \in Nat /\ calls \in Nat /\ deaths \in Nat
    BY DEF Typed
  <2>2. /\ Both("mark", m) \in 0 .. 2 /\ Both("handle", m) \in 0 .. 2
        /\ calls = 0 => Both("mark", m) \in 0 .. 1
    BY DEF Both, With, Obeying, Uncalled
  <2> QED BY <2>1, <2>2 DEF Obeying, Carried
<1> QED BY <1>1, <1>2, <1>3, AllHeld, PTL DEF Spec

-----------------------------------------------------------------------------
(* Listings                                                                *)

\* Nothing happens in the future, and Feishu lists a message within Lag.
Clock ==
    /\ cursor <= now
    /\ \A m \in shown : at[m] # 0
    /\ \A m \in Messages :
          /\ at[m] <= now
          /\ at[m] # 0 /\ m \notin shown => now <= at[m] + Lag

\* A listing that overtakes m does not save a cursor that passes it.
Near(p, m) ==
    /\ p.seen <= at[m] + Overlap
    /\ \A n \in p.todo : at[n] <= at[m] + Overlap

\* A message that the i-th call of t reaches back to is done with, listed by it, in
\* the hands of t, or reached again from the cursor that the call will save.
Reach(t, i) ==
    /\ polls[t][i].seen <= now
    /\ \A n \in polls[t][i].todo : at[n] # 0
    /\ \A m \in Messages :
          at[m] # 0 /\ polls[t][i].from <= at[m] =>
             \/ m \in marked \/ m \in polls[t][i].todo
             \/ i = 1 /\ msg[t] = m
             \/ Near(polls[t][i], m)
Reaching == Clock /\ \A t \in Threads : \A i \in 1 .. Len(polls[t]) : Reach(t, i)

\* A call stays what it was, on its place or on another, while messages are
\* posted and done with.
LEMMA ReachMoves ==
    ASSUME Typed, Clock, NEW t \in Threads, NEW i \in 1 .. Len(polls[t]), Reach(t, i),
           NEW j \in Nat, polls'[t][j] = polls[t][i],
           i = 1 /\ msg[t] \in Messages =>
              msg[t] \in marked' \/ (j = 1 /\ msg'[t] = msg[t]),
           marked \subseteq marked', now' \in Nat, now <= now',
           \A m \in Messages : at'[m] = at[m] \/ (at[m] = 0 /\ at'[m] = now')
    PROVE  Reach(t, j)'
<1> DEFINE p == polls[t][i]
<1>1. p \in Calls
  BY ElementOfSeq DEF Typed
<1>2. /\ p.seen \in Nat /\ p.from \in Nat /\ p.todo \subseteq Messages
      /\ now \in Nat /\ Overlap \in Nat /\ \A m \in Messages : at[m] \in Nat
  BY <1>1, IntakeAssumption DEF Calls, Typed
<1>3. /\ p.seen <= now /\ \A n \in p.todo : at[n] # 0
      /\ \A m \in Messages :
            at[m] # 0 /\ p.from <= at[m] =>
               \/ m \in marked \/ m \in p.todo
               \/ i = 1 /\ msg[t] = m
               \/ p.seen <= at[m] + Overlap /\ \A n \in p.todo : at[n] <= at[m] + Overlap
  BY DEF Reach, Near
<1>4. polls'[t][j] = p
  OBVIOUS
<1> HIDE DEF p
<1>5. \A n \in p.todo : at'[n] = at[n] /\ at'[n] # 0 /\ at[n] <= now
  BY <1>2, <1>3 DEF Clock
<1>6. ASSUME NEW m \in Messages, at'[m] # 0, p.from <= at'[m]
      PROVE  \/ m \in marked' \/ m \in p.todo
             \/ j = 1 /\ msg'[t] = m
             \/ p.seen <= at'[m] + Overlap /\ \A n \in p.todo : at'[n] <= at'[m] + Overlap
  <2>1. CASE at'[m] = at[m]
    <3>1. \/ m \in marked \/ m \in p.todo
          \/ i = 1 /\ msg[t] = m
          \/ p.seen <= at[m] + Overlap /\ \A n \in p.todo : at[n] <= at[m] + Overlap
      BY <1>3, <1>6, <2>1
    <3>2. CASE m \in marked \/ m \in p.todo
      BY <3>2
    <3>3. CASE i = 1 /\ msg[t] = m
      BY <3>3
    <3>4. CASE p.seen <= at[m] + Overlap /\ \A n \in p.todo : at[n] <= at[m] + Overlap
      BY <1>5, <2>1, <3>4
    <3> QED BY <3>1, <3>2, <3>3, <3>4
  <2>2. CASE at[m] = 0 /\ at'[m] = now'
    <3>1. p.seen <= at'[m] + Overlap
      BY <1>2, <1>3, <2>2
    <3>2. ASSUME NEW n \in p.todo PROVE at'[n] <= at'[m] + Overlap
      BY <1>2, <1>5, <2>2, SMTT(30)
    <3> QED BY <3>1, <3>2
  <2> QED BY <2>1, <2>2
<1>7. p.seen <= now'
  BY <1>2, <1>3
<1> QED BY <1>4, <1>5, <1>6, <1>7 DEF Reach, Near

\* A new call reaches what is listed, and what is listed too late is not far.
LEMMA ReachListed ==
    ASSUME Typed, Clock, NEW t \in Threads, NEW from \in Nat, NEW by,
           polls'[t][1] = [todo |-> Listing(from), from |-> from, by |-> by,
                           seen |-> IF cursor = 0 THEN now ELSE cursor],
           UNCHANGED <<now, at, marked>>
    PROVE  Reach(t, 1)'
<1>1. /\ now \in Nat /\ Overlap \in Nat /\ Lag \in Nat /\ Lag <= Overlap
      /\ cursor \in Nat /\ \A m \in Messages : at[m] \in Nat
      /\ shown \subseteq Messages
  BY IntakeAssumption DEF Typed
<1> DEFINE p == polls'[t][1]
<1>2. /\ p.todo = {m \in shown : at[m] >= from} /\ p.from = from
      /\ p.seen = IF cursor = 0 THEN now ELSE cursor
  BY DEF Listing
<1> HIDE DEF p
<1>3. p.seen <= now
  BY <1>1, <1>2 DEF Clock
<1>4. \A n \in p.todo : at[n] # 0 /\ at[n] <= now
  BY <1>1, <1>2 DEF Clock
<1>5. ASSUME NEW m \in Messages, at[m] # 0, p.from <= at[m]
      PROVE  \/ m \in p.todo
             \/ p.seen <= at[m] + Overlap /\ \A n \in p.todo : at[n] <= at[m] + Overlap
  <2>1. CASE m \in shown
    BY <1>1, <1>2, <1>5, <2>1
  <2>2. CASE m \notin shown
    <3>1. now <= at[m] + Lag
      BY <1>5, <2>2 DEF Clock
    <3>2. now <= at[m] + Overlap /\ p.seen \in Nat
      BY <1>1, <1>2, <3>1
    <3>3. p.seen <= at[m] + Overlap
      BY <1>1, <1>3, <3>2
    <3>4. ASSUME NEW n \in p.todo PROVE at[n] <= at[m] + Overlap
      BY <1>1, <1>2, <1>4, <3>2
    <3> QED BY <3>3, <3>4
  <2> QED BY <2>1, <2>2
<1> QED BY <1>3, <1>4, <1>5 DEF Reach, Near, p

\* The message that is taken is in the hands of the thread, if it is not done
\* with; what was near is near to it too.
LEMMA ReachTaken ==
    ASSUME Typed, NEW t \in Threads, NEW m \in Messages, 1 \in 1 .. Len(polls[t]),
           Reach(t, 1), Clock, m \in polls[t][1].todo, msg[t] = None,
           polls'[t][1] = Without(polls[t][1], m),
           m \in marked \/ msg'[t] = m,
           UNCHANGED <<now, at, marked>>
    PROVE  Reach(t, 1)'
<1> DEFINE p == polls[t][1]
           q == polls'[t][1]
<1>1. p \in Calls
  BY ElementOfSeq DEF Typed
<1>2. /\ p.seen \in Nat /\ p.from \in Nat /\ p.todo \subseteq Messages
      /\ now \in Nat /\ Overlap \in Nat /\ \A n \in Messages : at[n] \in Nat
  BY <1>1, IntakeAssumption DEF Calls, Typed
<1>3. /\ p.seen <= now /\ \A n \in p.todo : at[n] # 0
      /\ \A n \in Messages :
            at[n] # 0 /\ p.from <= at[n] =>
               \/ n \in marked \/ n \in p.todo
               \/ msg[t] = n
               \/ p.seen <= at[n] + Overlap /\ \A o \in p.todo : at[o] <= at[n] + Overlap
  BY DEF Reach, Near
<1>4. /\ q.todo = p.todo \ {m} /\ q.from = p.from
      /\ q.seen = IF p.seen < at[m] THEN at[m] ELSE p.seen
  BY <1>1 DEF Without, Calls
<1>5. m \in p.todo
  OBVIOUS
<1> HIDE DEF p, q
<1>6. q.seen <= now
  BY <1>2, <1>3, <1>4 DEF Clock
<1>7. ASSUME NEW n \in Messages, at[n] # 0, q.from <= at[n]
      PROVE  \/ n \in marked \/ n \in q.todo
             \/ msg'[t] = n
             \/ q.seen <= at[n] + Overlap /\ \A o \in q.todo : at[o] <= at[n] + Overlap
  <2>1. CASE n \in marked \/ n \in p.todo
    BY <1>4, <2>1
  <2>2. CASE p.seen <= at[n] + Overlap /\ \A o \in p.todo : at[o] <= at[n] + Overlap
    BY <1>4, <1>5, <2>2
  <2>3. msg[t] # n
    BY IntakeAssumption
  <2> QED BY <1>3, <1>4, <1>7, <2>1, <2>2, <2>3
<1> QED BY <1>3, <1>4, <1>6, <1>7 DEF Reach, Near, q

\* A thread whose calls stay, and whose message stays or is done with.
LEMMA ReachStays ==
    ASSUME Typed, Reaching, NEW u \in Threads, polls'[u] \in {polls[u], <<>>},
           polls'[u] = polls[u] /\ msg[u] \in Messages =>
              msg[u] \in marked' \/ msg'[u] = msg[u],
           marked \subseteq marked', now' \in Nat, now <= now',
           \A m \in Messages : at'[m] = at[m] \/ (at[m] = 0 /\ at'[m] = now')
    PROVE  \A j \in 1 .. Len(polls'[u]) : Reach(u, j)'
<1>1. CASE polls'[u] = polls[u]
  <2> SUFFICES ASSUME NEW j \in 1 .. Len(polls[u]) PROVE Reach(u, j)'
    BY <1>1
  <2>1. polls'[u][j] = polls[u][j] /\ Reach(u, j) /\ j \in Nat /\ Clock
    BY <1>1 DEF Reaching
  <2>2. j = 1 /\ msg[u] \in Messages =>
           msg[u] \in marked' \/ (j = 1 /\ msg'[u] = msg[u])
    BY <1>1
  <2> QED BY <2>1, <2>2, ReachMoves
<1>2. CASE polls'[u] = <<>>
  BY <1>2
<1> QED BY <1>1, <1>2

LEMMA ClockStays ==
    ASSUME Typed, Clock, UNCHANGED <<now, at, shown>>, cursor' <= now
    PROVE  Clock'
  BY DEF Clock

\* A call is pushed; the message that asked for it is done with.
LEMMA ReachPushed ==
    ASSUME Typed, Reaching, NEW t \in Threads, NEW from \in Nat,
           NEW by \in Messages \cup {None}, Poll(t, from, by),
           msg[t] \in Messages => msg[t] \in marked,
           UNCHANGED <<now, at, marked>>
    PROVE  \A j \in 1 .. Len(polls'[t]) : Reach(t, j)'
<1>1. polls[t] \in Seq(Calls) /\ Len(polls[t]) \in Nat /\ now \in Nat /\ Clock
  BY LenProperties DEF Typed, Reaching
<1>2. polls'[t][1] = [todo |-> Listing(from), from |-> from, by |-> by,
                      seen |-> IF cursor = 0 THEN now ELSE cursor]
  BY PollType, Zenon
<1>3. /\ Len(polls'[t]) = Len(polls[t]) + 1
      /\ \A i \in 1 .. Len(polls[t]) : polls'[t][i + 1] = polls[t][i]
  BY PollType, Zenon
<1>4. Reach(t, 1)'
  BY <1>1, <1>2, ReachListed
<1>5. ASSUME NEW j \in 2 .. Len(polls'[t]) PROVE Reach(t, j)'
  <2>1. j - 1 \in 1 .. Len(polls[t]) /\ (j - 1) + 1 = j /\ j \in Nat
    BY <1>1, <1>3
  <2>2. polls'[t][j] = polls[t][j - 1] /\ Reach(t, j - 1)
    BY <1>3, <2>1 DEF Reaching
  <2>3. now' \in Nat /\ now <= now' /\ marked \subseteq marked'
        /\ \A m \in Messages : at'[m] = at[m] \/ (at[m] = 0 /\ at'[m] = now')
    BY <1>1
  <2>4. j - 1 = 1 /\ msg[t] \in Messages =>
           msg[t] \in marked' \/ (j = 1 /\ msg'[t] = msg[t])
    OBVIOUS
  <2> QED BY <1>1, <2>1, <2>2, <2>3, <2>4, ReachMoves
<1>6. ASSUME NEW j \in 1 .. Len(polls'[t]) PROVE Reach(t, j)'
  <2>1. j = 1 \/ j \in 2 .. Len(polls'[t])
    BY <1>1, <1>3
  <2> QED BY <1>4, <1>5, <2>1
<1> QED BY <1>6

LEMMA HandleReaching ==
    ASSUME Typed, InHand, Reaching, NEW t \in Threads, Handle(t)
    PROVE  Reaching'
<1>0. /\ msg \in [Threads -> Messages \cup {None}] /\ polls \in [Threads -> Seq(Calls)]
      /\ now \in Nat /\ Held(t) /\ Clock
  BY DEF Typed, InHand, Reaching
<1>1. /\ UNCHANGED <<now, at, shown, cursor>> /\ marked \subseteq marked'
      /\ GoesOn(t) \/ Ends(t) \/ Raise(t) \/ Recheck(t)
  BY HandleStep DEF world, cursors
<1>2. Clock'
  BY <1>0, <1>1, ClockStays DEF Clock
<1>3. now' \in Nat /\ now <= now'
      /\ \A m \in Messages : at'[m] = at[m] \/ (at[m] = 0 /\ at'[m] = now')
  BY <1>0, <1>1
<1>4. ASSUME NEW u \in Threads \ {t}
      PROVE  \A j \in 1 .. Len(polls'[u]) : Reach(u, j)'
  <2>1. polls'[u] = polls[u] /\ msg'[u] = msg[u]
    BY <1>0, <1>1 DEF GoesOn, Ends, Raise, Recheck, Poll
  <2> QED BY <1>1, <1>3, <2>1, ReachStays
<1>5. \A j \in 1 .. Len(polls'[t]) : Reach(t, j)'
  <2>1. CASE Recheck(t)
    <3> DEFINE new == IF now > Lookback THEN now - Lookback ELSE 0
    <3>1. new \in Nat /\ Poll(t, new, msg[t]) /\ msg[t] \in Messages \cup {None}
          /\ pc[t] = "recheck" /\ UNCHANGED <<now, at, marked>>
      BY <1>0, <1>1, <2>1, IntakeAssumption DEF Recheck
    <3>2. msg[t] \in marked
      BY <1>0, <3>1 DEF Held
    <3> HIDE DEF new
    <3> QED BY <3>1, <3>2, ReachPushed
  <2>2. CASE ~Recheck(t)
    <3>1. /\ polls'[t] \in {polls[t], <<>>}
          /\ polls'[t] = polls[t] /\ msg[t] \in Messages =>
                \/ msg[t] \in marked' \/ msg'[t] = msg[t]
                \/ polls'[t] = <<>>
      BY <1>0, <1>1, <2>2 DEF GoesOn, Ends, Raise
    <3>2. CASE polls'[t] = <<>>
      BY <3>2
    <3>3. CASE polls'[t] # <<>>
      BY <1>1, <1>3, <3>1, <3>3, ReachStays
    <3> QED BY <3>2, <3>3
  <2> QED BY <2>1, <2>2
<1> QED BY <1>2, <1>4, <1>5 DEF Reaching

\* What no step takes back.
LEMMA Grows ==
    ASSUME Typed, InHand, Next
    PROVE  /\ marked \subseteq marked' /\ now' \in Nat /\ now <= now'
           /\ \A m \in Messages : at'[m] = at[m] \/ (at[m] = 0 /\ at'[m] = now')
           /\ cursor' = cursor \/ FirstPoll \/ \E t \in Threads : SaveCursor(t)
<1>0. now \in Nat /\ at \in [Messages -> Nat]
  BY DEF Typed
<1>1. CASE Surroundings
  <2>1. UNCHANGED <<marked, cursor>>
    BY <1>1 DEF Surroundings, Post, Show, Deliver, EditDocument, DeliverRequest,
       EndSuppression, cursors
  <2>2. CASE \E m \in Messages : Post(m)
    <3>1. now' \in Nat /\ now <= now'
      BY <2>2, BoundTypes DEF Post
    <3> QED BY <1>0, <2>1, <2>2, <3>1 DEF Post
  <2>3. CASE ~(\E m \in Messages : Post(m))
    <3>1. UNCHANGED <<now, at>>
      BY <1>1, <2>3 DEF Surroundings, Show, Deliver, EditDocument, DeliverRequest,
         EndSuppression, world
    <3> QED BY <1>0, <2>1, <3>1
  <2> QED BY <2>2, <2>3
<1>2. ASSUME NEW t \in Threads, Handle(t)
      PROVE  UNCHANGED <<now, at, cursor>> /\ marked \subseteq marked'
  BY <1>2, HandleStep DEF world, cursors
<1>3. ASSUME NEW t \in Threads,
             TakeMessage(t) \/ SaveCursor(t) \/ Execute(t) \/ Die(t) \/ Start(t)
      PROVE  UNCHANGED <<now, at, marked>> /\ (cursor' = cursor \/ SaveCursor(t))
  BY <1>3 DEF TakeMessage, SaveCursor, Execute, Die, Start, world, cursors
<1>4. CASE FirstPoll \/ PollChat \/ ListingFails \/ SkipChat \/ ReadDocument \/ ReadFails
           \/ SubmitDocument
  <2>1. UNCHANGED <<now, at, marked>> /\ (cursor' = cursor \/ FirstPoll)
    BY <1>4 DEF FirstPoll, PollChat, ListingFails, SkipChat, ReadDocument, ReadFails,
       SubmitDocument, world, cursors
  <2> QED BY <1>0, <2>1
<1> QED BY <1>0, <1>1, <1>2, <1>3, <1>4 DEF Next, Step

LEMMA ListingReaching ==
    ASSUME Typed, InHand, Reaching, NEW t \in Threads,
           TakeMessage(t) \/ SaveCursor(t) \/ (t = "poll" /\ PollChat)
    PROVE  Reaching'
<1>0. /\ msg \in [Threads -> Messages \cup {None}] /\ polls \in [Threads -> Seq(Calls)]
      /\ now \in Nat /\ Held(t) /\ Clock
  BY DEF Typed, InHand, Reaching
<1>1. UNCHANGED <<now, at, shown, marked>>
  BY DEF TakeMessage, SaveCursor, PollChat, world
<1>2. /\ marked \subseteq marked' /\ now' \in Nat /\ now <= now'
      /\ \A m \in Messages : at'[m] = at[m] \/ (at[m] = 0 /\ at'[m] = now')
  BY <1>0, <1>1
<1>3. ASSUME TakeMessage(t)
      PROVE  /\ cursor' <= now
             /\ \A u \in Threads \ {t} : polls'[u] = polls[u] /\ msg'[u] = msg[u]
             /\ \A j \in 1 .. Len(polls'[t]) : Reach(t, j)'
  <2>1. /\ pc[t] = "next" /\ polls[t] # <<>> /\ msg[t] = None /\ cursor' <= now
    BY <1>0, <1>3 DEF TakeMessage, Held, Clock, cursors
  <2>2. Len(polls[t]) \in Nat \ {0}
    BY <1>0, <2>1, LenProperties, EmptySeq
  <2>3. polls[t][1].todo \subseteq Messages
    <3>1. polls[t][1] \in Calls
      BY <1>0, <2>2, ElementOfSeq
    <3> QED BY <3>1 DEF Calls
  <2>4. PICK m \in Messages :
          /\ m \in polls[t][1].todo
          /\ polls' = [polls EXCEPT ![t] = <<Without(Head(@), m)>> \o Tail(@)]
          /\ IF m \in marked
             THEN UNCHANGED <<pc, msg>>
             ELSE Go(t, "handle") /\ msg' = [msg EXCEPT ![t] = m]
    BY <1>3, <2>3 DEF TakeMessage
  <2>5. /\ Len(polls'[t]) = Len(polls[t])
        /\ \A u \in Threads \ {t} : polls'[u] = polls[u]
        /\ polls'[t][1] = Without(polls[t][1], m)
        /\ \A i \in 2 .. Len(polls[t]) : polls'[t][i] = polls[t][i]
    BY <2>1, <2>4, TakeType
  <2>6. /\ m \in marked \/ msg'[t] = m
        /\ \A u \in Threads \ {t} : msg'[u] = msg[u]
    BY <1>0, <2>4
  <2>7. Reach(t, 1)'
    <3>1. 1 \in 1 .. Len(polls[t])
      BY <2>2
    <3>2. Reach(t, 1)
      BY <3>1 DEF Reaching
    <3> QED BY <1>0, <1>1, <2>1, <2>4, <2>5, <2>6, <3>1, <3>2, ReachTaken
  <2>8. ASSUME NEW j \in 1 .. Len(polls'[t]), j # 1 PROVE Reach(t, j)'
    <3>1. j \in 2 .. Len(polls[t]) /\ j \in 1 .. Len(polls[t]) /\ j \in Nat
      BY <2>2, <2>5, <2>8
    <3>2. polls'[t][j] = polls[t][j] /\ Reach(t, j)
      BY <2>5, <3>1 DEF Reaching
    <3> QED BY <1>0, <1>2, <2>8, <3>1, <3>2, ReachMoves
  <2> QED BY <2>1, <2>5, <2>6, <2>7, <2>8
<1>4. ASSUME SaveCursor(t)
      PROVE  /\ cursor' <= now
             /\ \A u \in Threads \ {t} : polls'[u] = polls[u] /\ msg'[u] = msg[u]
             /\ \A j \in 1 .. Len(polls'[t]) : Reach(t, j)'
  <2>1. polls[t] # <<>> /\ polls' = [polls EXCEPT ![t] = Tail(@)]
    BY <1>0, <1>4 DEF SaveCursor, Held
  <2>2. /\ \A u \in Threads \ {t} : polls'[u] = polls[u]
        /\ 1 \in 1 .. Len(polls[t])
        /\ \A i \in 1 .. Len(polls'[t]) :
              i + 1 \in 1 .. Len(polls[t]) /\ polls'[t][i] = polls[t][i + 1]
    BY <2>1, SaveType
  <2>3. cursor' <= now
    <3>1. Reach(t, 1)
      BY <2>2 DEF Reaching
    <3> QED BY <1>4, <3>1 DEF SaveCursor, Reach
  <2>4. \A u \in Threads \ {t} : msg'[u] = msg[u]
    BY <1>0, <1>4 DEF SaveCursor
  <2>5. ASSUME NEW j \in 1 .. Len(polls'[t]) PROVE Reach(t, j)'
    <3>1. /\ j + 1 \in 1 .. Len(polls[t]) /\ polls'[t][j] = polls[t][j + 1]
          /\ j \in Nat /\ j + 1 # 1
      BY <2>2
    <3>2. Reach(t, j + 1)
      BY <3>1 DEF Reaching
    <3> QED BY <1>0, <1>2, <3>1, <3>2, ReachMoves
  <2> QED BY <2>2, <2>3, <2>4, <2>5
<1>5. ASSUME t = "poll", PollChat
      PROVE  /\ cursor' <= now
             /\ \A u \in Threads \ {t} : polls'[u] = polls[u] /\ msg'[u] = msg[u]
             /\ \A j \in 1 .. Len(polls'[t]) : Reach(t, j)'
  <2>1. Poll(t, Since(cursor), None) /\ msg' = msg /\ cursor' = cursor
        /\ pc[t] = "idle"
    BY <1>5 DEF PollChat, cursors
  <2>2. Since(cursor) \in Nat
    BY BoundTypes DEF Typed
  <2>3. msg[t] \notin Messages
    BY <1>0, <2>1, IntakeAssumption DEF Held
  <2>4. \A j \in 1 .. Len(polls'[t]) : Reach(t, j)'
    BY <1>1, <2>1, <2>2, <2>3, ReachPushed
  <2> QED BY <1>0, <2>1, <2>4 DEF Poll, Clock
<1>6. /\ cursor' <= now
      /\ \A u \in Threads \ {t} : polls'[u] = polls[u] /\ msg'[u] = msg[u]
      /\ \A j \in 1 .. Len(polls'[t]) : Reach(t, j)'
  BY <1>3, <1>4, <1>5
<1>7. ASSUME NEW u \in Threads \ {t}
      PROVE  \A j \in 1 .. Len(polls'[u]) : Reach(u, j)'
  BY <1>2, <1>6, ReachStays
<1>8. Clock'
  BY <1>0, <1>1, <1>6, ClockStays
<1> QED BY <1>6, <1>7, <1>8 DEF Reaching

LEMMA NextReaching == Typed /\ InHand /\ Reaching /\ [Next]_vars => Reaching'
<1> SUFFICES ASSUME Typed, InHand, Reaching, [Next]_vars PROVE Reaching'
  OBVIOUS
<1>0. /\ msg \in [Threads -> Messages \cup {None}] /\ polls \in [Threads -> Seq(Calls)]
      /\ now \in Nat /\ Clock /\ cursor <= now /\ InHand
  BY DEF Typed, Reaching, Clock
<1>1. ASSUME NEW t \in Threads, Handle(t) PROVE Reaching'
  BY <1>1, HandleReaching
<1>2. ASSUME NEW t \in Threads,
             TakeMessage(t) \/ SaveCursor(t) \/ (t = "poll" /\ PollChat)
      PROVE  Reaching'
  BY <1>2, ListingReaching
\* Calls and messages in hand stay, or are dropped together.
<1>3. ASSUME Clock', marked \subseteq marked', now' \in Nat, now <= now',
             \A m \in Messages : at'[m] = at[m] \/ (at[m] = 0 /\ at'[m] = now'),
             \A u \in Threads :
                \/ polls'[u] = polls[u] /\ (msg'[u] = msg[u] \/ msg[u] = None)
                \/ polls'[u] = <<>>
      PROVE  Reaching'
  <2>1. ASSUME NEW u \in Threads
        PROVE  \A j \in 1 .. Len(polls'[u]) : Reach(u, j)'
    <3>1. CASE polls'[u] = <<>>
      BY <3>1
    <3>2. CASE polls'[u] = polls[u] /\ (msg'[u] = msg[u] \/ msg[u] = None)
      <4>1. None \notin Messages
        BY IntakeAssumption
      <4> QED BY <1>3, <3>2, <4>1, ReachStays
    <3> QED BY <1>3, <3>1, <3>2
  <2> QED BY <1>3, <2>1 DEF Reaching
<1>4. CASE UNCHANGED vars
  <2>1. UNCHANGED <<now, at, shown, cursor, marked, polls, msg>>
    BY <1>4 DEF vars, world, cursors
  <2>2. Clock'
    BY <1>0, <2>1, ClockStays
  <2> QED BY <1>0, <1>3, <2>1, <2>2
<1>5. ASSUME NEW t \in Threads, Execute(t) \/ Die(t) \/ Start(t) PROVE Reaching'
  <2>1. UNCHANGED <<now, at, shown, cursor, marked>>
    BY <1>5 DEF Execute, Die, Start, world, cursors
  <2>2. Clock'
    BY <1>0, <2>1, ClockStays
  <2>3. \A u \in Threads : \/ polls'[u] = polls[u] /\ msg'[u] = msg[u]
                           \/ polls'[u] = <<>>
    BY <1>0, <1>5 DEF Execute, Die, Start
  <2> QED BY <1>0, <1>3, <2>1, <2>2, <2>3
<1>6. CASE FirstPoll \/ ListingFails \/ SkipChat \/ ReadDocument \/ ReadFails
           \/ SubmitDocument
  <2>1. UNCHANGED <<now, at, shown, marked, polls, msg>> /\ cursor' <= now
    BY <1>0, <1>6 DEF FirstPoll, ListingFails, SkipChat, ReadDocument, ReadFails,
       SubmitDocument, world, cursors
  <2>2. Clock'
    BY <1>0, <2>1, ClockStays
  <2> QED BY <1>0, <1>3, <2>1, <2>2
<1>7. CASE Surroundings
  <2>1. Next
    BY <1>7 DEF Next
  <2>2. /\ marked \subseteq marked' /\ now' \in Nat /\ now <= now'
        /\ \A m \in Messages : at'[m] = at[m] \/ (at[m] = 0 /\ at'[m] = now')
    BY <2>1, Grows
  <2>3. UNCHANGED <<cursor, polls>>
    BY <1>7 DEF Surroundings, Post, Show, Deliver, EditDocument, DeliverRequest,
       EndSuppression, cursors
  <2>4. Clock'
    <3>1. ASSUME NEW m \in Messages, Post(m) PROVE Clock'
      <4>1. /\ at[m] = 0 /\ at' = [at EXCEPT ![m] = now'] /\ shown' = shown
            /\ \A n \in Messages : at[n] # 0 /\ n \notin shown => now' <= at[n] + Lag
        BY <3>1 DEF Post, PassTime
      <4>2. /\ at \in [Messages -> Nat] /\ Lag \in Nat /\ cursor \in Nat
            /\ shown \subseteq Messages
        BY IntakeAssumption DEF Typed
      <4>3. cursor' <= now'
        BY <1>0, <2>2, <2>3, <4>2
      <4>4. \A n \in shown' : at'[n] # 0
        BY <1>0, <4>1, <4>2 DEF Clock
      <4>5. ASSUME NEW n \in Messages
            PROVE  /\ at'[n] <= now'
                   /\ at'[n] # 0 /\ n \notin shown' => now' <= at'[n] + Lag
        <5>1. CASE n = m
          <6>1. at'[n] = now' /\ now' \in Nat
            BY <2>2, <4>1, <4>2, <5>1
          <6>2. \A x, y \in Nat : x <= x /\ x <= x + y
            OBVIOUS
          <6>3. at'[n] <= now'
            BY <6>1, <6>2
          <6>4. now' <= at'[n] + Lag
            BY <4>2, <6>1, <6>2
          <6> QED BY <6>3, <6>4
        <5>2. CASE n # m
          <6>1. at'[n] = at[n] /\ at[n] \in Nat /\ at[n] <= now
            BY <1>0, <4>1, <4>2, <5>2 DEF Clock
          <6> QED BY <1>0, <2>2, <4>1, <6>1
        <5> QED BY <5>1, <5>2
      <4> QED BY <4>3, <4>4, <4>5 DEF Clock
    <3>2. ASSUME NEW m \in Messages, Show(m) PROVE Clock'
      <4>1. UNCHANGED <<now, at, cursor>> /\ shown' = shown \cup {m} /\ at[m] # 0
        BY <3>2 DEF Show, cursors
      <4> QED BY <1>0, <4>1 DEF Clock
    <3>3. CASE ~(\E m \in Messages : Post(m) \/ Show(m))
      <4>1. UNCHANGED <<now, at, shown>>
        BY <1>7, <3>3 DEF Surroundings, Deliver, EditDocument, DeliverRequest,
           EndSuppression, world
      <4> QED BY <1>0, <2>3, <4>1, ClockStays
    <3> QED BY <3>1, <3>2, <3>3
  <2>5. \A u \in Threads : msg'[u] = msg[u] \/ msg[u] = None
    <3>1. \/ msg' = msg
          \/ pc["api"] = "idle" /\ \E m \in Messages : msg' = [msg EXCEPT !["api"] = m]
      BY <1>7 DEF Surroundings, Post, Call, Show, Deliver, EditDocument, DeliverRequest,
         EndSuppression
    <3>2. pc["api"] = "idle" => msg["api"] = None
      BY DEF InHand, Held, Threads
    <3> QED BY <1>0, <3>1, <3>2
  <2> QED BY <1>3, <2>2, <2>3, <2>4, <2>5
<1> QED BY <1>1, <1>2, <1>4, <1>5, <1>6, <1>7 DEF Next, Step

\* Only a listing that did not reach back to a message, or the first poll,
\* leaves it behind the cursor undone: late and failing messages, other listings
\* and deaths do not (_poll_chat, overlap of 5 seconds).
THEOREM NonePassed == Spec => NothingPassed
<1>1. ASSUME Typed, InHand, Reaching, Next, NEW m \in Messages, ~Passed(m), Passed(m)'
      PROVE  FirstPoll \/ \E t \in Threads : SaveCursor(t) /\ at[m] < polls[t][1].from
  <2>0. /\ cursor \in Nat /\ now \in Nat /\ Overlap \in Nat /\ cursor <= now
        /\ \A n \in Messages : at[n] \in Nat
    BY <1>1, IntakeAssumption DEF Typed, Reaching, Clock
  <2>1. /\ marked \subseteq marked' /\ now' \in Nat /\ now <= now'
        /\ at'[m] = at[m] \/ (at[m] = 0 /\ at'[m] = now')
        /\ cursor' = cursor \/ FirstPoll \/ \E t \in Threads : SaveCursor(t)
    BY <1>1, Grows
  <2>2. at'[m] # 0 /\ at'[m] < Since(cursor') /\ m \notin marked'
    BY <1>1 DEF Passed, Since
  <2>3. cursor' # cursor
    <3>1. CASE at'[m] = at[m] /\ cursor' = cursor
      BY <1>1, <2>1, <2>2, <3>1 DEF Passed
    <3>2. CASE at'[m] = now' /\ cursor' = cursor
      BY <2>0, <2>1, <2>2, <3>2 DEF Since
    <3> QED BY <2>1, <3>1, <3>2
  <2>4. ASSUME NEW t \in Threads, SaveCursor(t) PROVE at[m] < polls[t][1].from
    <3>1. /\ cursor' = polls[t][1].seen /\ polls[t][1].todo = {} /\ pc[t] = "next"
          /\ UNCHANGED <<now, at, marked>>
      BY <2>4 DEF SaveCursor, world
    <3>2. polls[t] # <<>> /\ msg[t] = None
      BY <1>1, <3>1 DEF InHand, Held
    <3>3. polls[t] \in Seq(Calls) /\ Len(polls[t]) \in Nat \ {0}
      BY <1>1, <3>2, LenProperties, EmptySeq DEF Typed
    <3>4. polls[t][1] \in Calls /\ Reach(t, 1)
      BY <1>1, <3>3, ElementOfSeq DEF Reaching
    <3>5. polls[t][1].seen \in Nat /\ polls[t][1].from \in Nat
      BY <3>4 DEF Calls
    <3>6. polls[t][1].from <= at[m] =>
             m \in marked \/ polls[t][1].seen <= at[m] + Overlap
      BY <2>2, <3>1, <3>2, <3>4, IntakeAssumption DEF Reach, Near
    <3>7. ~(polls[t][1].seen <= at[m] + Overlap)
      BY <2>0, <2>2, <3>1, <3>5 DEF Since
    <3> QED BY <2>0, <2>2, <3>1, <3>5, <3>6, <3>7
  <2> QED BY <2>1, <2>3, <2>4
<1>2. Init => Reaching
  <2> SUFFICES ASSUME Init PROVE Reaching
    OBVIOUS
  <2>1. Clock
    BY IntakeAssumption DEF Init, Clock
  <2> QED BY <2>1 DEF Init, Reaching
<1>3. Typed /\ InHand /\ Reaching /\ [Next]_vars =>
         [\A m \in Messages : ~Passed(m) /\ Passed(m)' =>
             \/ FirstPoll
             \/ \E t \in Threads : SaveCursor(t) /\ at[m] < polls[t][1].from]_vars
  BY <1>1
<1> QED BY <1>2, <1>3, NextReaching, AllHeld, PTL DEF Spec, NothingPassed
=============================================================================
