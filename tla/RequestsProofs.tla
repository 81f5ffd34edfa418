--------------------------- MODULE RequestsProofs ---------------------------
(***************************************************************************)
(* For any requests and threads, and any number of deaths: a request has   *)
(* one executor, its commands are typed once each in the order of its      *)
(* stages, and its statuses take the edges of RequestLifecycle.            *)
(***************************************************************************)
EXTENDS Requests, TLAPS

Windows == {"rlaunch", "env", "vllm"}

\* The highest rank of a command that a request of a status may have had.
Reached(s) ==
    IF s \in {"absent", "pending"} THEN 0
    ELSE IF s \in {"launching_resource", "resource_ready"} THEN 1
    ELSE IF s = "configuring_env" THEN 2
    ELSE 3

Executing(t) == doing[t].at \in {"run", "sent"}

\* What is executed was created.
CreatedFirst == \A t \in Threads : Executing(t) => status[Req(t)] # "absent"

\* The commands of a request do not go beyond its status, and the one of a stage
\* that its executor has yet to type is still to come.
InStages ==
    \A r \in Requests : \A i \in DOMAIN sent[r] : Rank[sent[r][i]] <= Reached(status[r])
StillToSend ==
    \A t \in Threads : At(t, "run") =>
        \A w \in ToSend(status[Req(t)]) : \A i \in DOMAIN sent[Req(t)] :
            Rank[sent[Req(t)][i]] < Rank[w]

IInv == TypeOK /\ OneExecutor /\ CreatedFirst /\ InStages /\ StillToSend
        /\ CommandsSentOnce

-----------------------------------------------------------------------------
LEMMA Ranks ==
    /\ Rank["rlaunch"] = 1 /\ Rank["env"] = 2 /\ Rank["vllm"] = 3
    /\ \A w \in Windows : Rank[w] \in 1..3
  BY DEF Rank, Windows

\* Whatever was typed has a rank.
LEMMA RankSent ==
    ASSUME TypeOK, NEW r \in Requests, NEW i \in DOMAIN sent[r]
    PROVE  Rank[sent[r][i]] \in 1..3
<1>1. sent[r] \in Seq(Windows)
  BY DEF TypeOK, Windows
<1>2. sent[r][i] \in Windows
  BY <1>1
<1> QED BY <1>2, Ranks

LEMMA Reaches ==
    \A s : Reached(s) \in 0..3
  BY DEF Reached

\* A stage has at most the command of its window, the last one it may have typed.
LEMMA StageCommand ==
    ASSUME NEW s \in Stages, NEW w \in ToSend(s)
    PROVE  w \in Windows /\ Rank[w] = Reached(s)
  BY Ranks DEF ToSend, Window, Stages, Reached, Windows

\* The next stage comes later, and its command has not been typed.
LEMMA NextStage ==
    ASSUME NEW s \in Stages
    PROVE  /\ Following[s] \in (Stages \cup Final) \ {"pending"}
           /\ Reached(s) <= Reached(Following[s])
           /\ \A w \in ToSend(Following[s]) : Reached(s) < Rank[w]
<1>1. Following[s] \in (Stages \cup Final) \ {"pending"}
  BY RequestsAssumption DEF Following, Stages, Final
<1>2. Reached(s) <= Reached(Following[s])
  BY RequestsAssumption DEF Following, Stages, Reached
<1>3. \A w \in ToSend(Following[s]) : Reached(s) < Rank[w]
  BY Ranks, RequestsAssumption DEF Following, Stages, Reached, ToSend, Window
<1> QED BY <1>1, <1>2, <1>3

LEMMA Failures ==
    ASSUME NEW s \in DOMAIN Failure
    PROVE  Failure[s] \in Final /\ Failure[s] # "absent" /\ Reached(Failure[s]) = 3
  BY DEF Failure, Final, Reached

-----------------------------------------------------------------------------
\* Nothing is typed before the first submission.
LEMMA InitIInv == Init => IInv
  BY DEF Init, IInv, TypeOK, OneExecutor, CreatedFirst, InStages, StillToSend,
         CommandsSentOnce, Statuses, Places, Idle, At, Req, Executing

\* Steps that change neither the requests nor who executes them.
LEMMA KeepsExecutors ==
    ASSUME IInv, UNCHANGED <<status, sent>>, TypeOK',
           \A t \in Threads : Executing(t)' => doing'[t] = doing[t]
    PROVE  IInv'
<1>1. \A t \in Threads : At(t, "run")' => At(t, "run") /\ Req(t)' = Req(t)
  BY DEF Executing, At, Req
<1>2. OneExecutor' /\ CreatedFirst'
  BY DEF IInv, OneExecutor, CreatedFirst, Executing, Req
<1>3. InStages' /\ CommandsSentOnce'
  BY DEF IInv, InStages, CommandsSentOnce
<1>4. StillToSend'
  BY <1>1 DEF IInv, StillToSend
<1> QED BY <1>2, <1>3, <1>4 DEF IInv

\* A thread takes a request to another status, and executes it or is done.
LEMMA Becomes ==
    ASSUME IInv, NEW t \in Threads, Executes(t), NEW s \in (Stages \cup Final) \ {"pending"},
           Become(t, s), UNCHANGED sent,
           Reached(status[Req(t)]) <= Reached(s),
           s \in Stages => \A w \in ToSend(s) : Reached(status[Req(t)]) < Rank[w]
    PROVE  IInv'
<1> DEFINE q == Req(t)
           place == IF s \in Final THEN "done" ELSE "run"
<1>1. q \in Requests /\ Executing(t) /\ doing[t] \in [request : Requests \cup {None}, at : Places]
  BY DEF IInv, TypeOK, Executes, Executing, At, Req
<1>2. /\ status' = [status EXCEPT ![q] = s] /\ status'[q] = s
      /\ \A r \in Requests : r # q => status'[r] = status[r]
      /\ doing' = [doing EXCEPT ![t] = [@ EXCEPT !.at = place]]
  BY <1>1 DEF Become, Go, IInv, TypeOK
<1>3. /\ doing'[t] = [request |-> q, at |-> place]
      /\ \A u \in Threads : u # t => doing'[u] = doing[u]
  BY <1>1, <1>2 DEF IInv, TypeOK, Req
<1>4. TypeOK'
  <2>1. status' \in [Requests -> Statuses]
    BY <1>1, <1>2 DEF IInv, TypeOK, Statuses
  <2>2. doing' \in [Threads -> [request : Requests \cup {None}, at : Places]]
    BY <1>1, <1>2, <1>3 DEF IInv, TypeOK, Places
  <2>3. \A u \in Threads : (Req(u) = None <=> At(u, "idle"))'
    BY <1>1, <1>3, RequestsAssumption DEF IInv, TypeOK, Req, At
  <2> QED BY <2>1, <2>2, <2>3 DEF IInv, TypeOK
<1>5. \A u \in Threads : Executing(u)' => Executing(u) /\ Req(u)' = Req(u)
  BY <1>1, <1>3 DEF Executing, Req
<1>6. \A u \in Threads : Executing(u) /\ Req(u) = q => u = t
  BY <1>1 DEF IInv, OneExecutor, Executing
<1>7. OneExecutor'
  BY <1>5 DEF IInv, OneExecutor, Executing
<1>8. CreatedFirst'
  <2>1. s # "absent"
    BY DEF Stages, Final
  <2> QED BY <1>1, <1>2, <1>5, <1>6, <2>1 DEF IInv, CreatedFirst, TypeOK, Executing, Req, At
<1>9. InStages'
  <2> SUFFICES ASSUME NEW r \in Requests, NEW i \in DOMAIN sent[r]
               PROVE  Rank[sent[r][i]] <= Reached(status'[r])
    BY DEF InStages
  <2>1. Rank[sent[r][i]] <= Reached(status[r])
    BY DEF IInv, InStages
  <2>2. Rank[sent[r][i]] \in 1..3
    BY RankSent DEF IInv
  <2>3. Reached(status[r]) \in 0..3 /\ Reached(status'[r]) \in 0..3 /\ Reached(s) \in 0..3
    BY Reaches
  <2> QED BY <1>2, <2>1, <2>2, <2>3
<1>10. StillToSend'
  <2> SUFFICES ASSUME NEW u \in Threads, At(u, "run")',
                      NEW w \in ToSend(status'[Req(u)']), NEW i \in DOMAIN sent[Req(u)']
               PROVE  Rank[sent[Req(u)'][i]] < Rank[w]
    BY DEF StillToSend
  <2>1. CASE u # t
    <3>1. At(u, "run") /\ Req(u)' = Req(u)
      BY <1>3, <2>1 DEF At, Req
    <3>2. Req(u) # q /\ Req(u) \in Requests
      BY <1>6, <2>1, <3>1 DEF Executing, At, Req, IInv, TypeOK
    <3> QED BY <1>2, <3>1, <3>2 DEF IInv, StillToSend
  <2>2. CASE u = t
    <3>1. s \in Stages /\ Req(u)' = q
      BY <1>3, <2>2 DEF At, Req
    <3>2. Rank[sent[q][i]] <= Reached(status[q]) /\ Rank[sent[q][i]] \in 1..3
      <4>1. i \in DOMAIN sent[q]
        BY <3>1
      <4> QED BY <1>1, <4>1, RankSent DEF IInv, InStages
    <3>3. Reached(status[q]) < Rank[w] /\ w \in Windows
      BY <1>2, <3>1, StageCommand
    <3>4. Reached(status[q]) \in 0..3 /\ Rank[w] \in 1..3
      BY Ranks, Reaches, <3>3
    <3> QED BY <3>1, <3>2, <3>3, <3>4
  <2> QED BY <2>1, <2>2
<1>11. CommandsSentOnce'
  BY DEF IInv, CommandsSentOnce
<1> QED BY <1>4, <1>7, <1>8, <1>9, <1>10, <1>11 DEF IInv

-----------------------------------------------------------------------------
\* The creator of a request becomes its executor.
LEMMA InsertKeeps ==
    ASSUME IInv, NEW t \in Threads, Insert(t)
    PROVE  IInv'
<1> DEFINE q == Req(t)
<1>1. q \in Requests /\ doing[t].at = "insert" /\ doing[t].request = q
  BY DEF IInv, TypeOK, Insert, At, Req
<1>2. CASE status[q] # "absent"
  <2>1. UNCHANGED <<status, sent>> /\ doing' = [doing EXCEPT ![t] = [@ EXCEPT !.at = "done"]]
    BY <1>2 DEF Insert, Go
  <2>2. /\ doing'[t] = [request |-> q, at |-> "done"]
        /\ \A u \in Threads : u # t => doing'[u] = doing[u]
    BY <1>1, <2>1 DEF IInv, TypeOK
  <2>3. TypeOK'
    BY <1>1, <2>1, <2>2, RequestsAssumption DEF IInv, TypeOK, Req, At, Places
  <2>4. \A u \in Threads : Executing(u)' => doing'[u] = doing[u]
    BY <2>2 DEF Executing
  <2> QED BY <2>1, <2>3, <2>4, KeepsExecutors
<1>3. CASE status[q] = "absent"
  <2>1. /\ status' = [status EXCEPT ![q] = "pending"] /\ sent' = sent
        /\ doing' = [doing EXCEPT ![t] = [@ EXCEPT !.at = Planned(q)]]
        /\ Planned(q) \in {"run", "raised"}
    BY <1>3 DEF Insert, Go, Planned
  <2>2. /\ doing'[t] = [request |-> q, at |-> Planned(q)]
        /\ \A u \in Threads : u # t => doing'[u] = doing[u]
        /\ status'[q] = "pending"
        /\ \A r \in Requests : r # q => status'[r] = status[r]
    BY <1>1, <2>1 DEF IInv, TypeOK
  <2>3. TypeOK'
    <3>1. status' \in [Requests -> Statuses]
      BY <1>1, <2>1 DEF IInv, TypeOK, Statuses, Stages
    <3>2. doing' \in [Threads -> [request : Requests \cup {None}, at : Places]]
      BY <1>1, <2>1, <2>2 DEF IInv, TypeOK, Places
    <3>3. \A u \in Threads : (Req(u) = None <=> At(u, "idle"))'
      BY <1>1, <2>1, <2>2, RequestsAssumption DEF IInv, TypeOK, Req, At
    <3> QED BY <2>1, <3>1, <3>2, <3>3 DEF IInv, TypeOK
  <2>4. \A u \in Threads : Executing(u) => Req(u) # q /\ u # t
    BY <1>1, <1>3 DEF IInv, CreatedFirst, Executing
  <2>5. \A u \in Threads : u # t => (Executing(u)' <=> Executing(u)) /\ Req(u)' = Req(u)
    BY <2>2 DEF Executing, Req
  <2>6. Req(t)' = q
    BY <2>2 DEF Req
  <2>7. OneExecutor'
    BY <2>4, <2>5, <2>6 DEF IInv, OneExecutor, Executing
  <2>8. CreatedFirst'
    <3> SUFFICES ASSUME NEW u \in Threads, Executing(u)'
                 PROVE  status'[Req(u)'] # "absent"
      BY DEF CreatedFirst
    <3>1. CASE u = t  BY <2>2, <2>6, <3>1
    <3>2. CASE u # t
      <4>1. Executing(u) /\ Req(u)' = Req(u) /\ Req(u) # q /\ Req(u) \in Requests
        BY <2>4, <2>5, <3>2 DEF IInv, TypeOK, Executing, Req, At
      <4> QED BY <2>2, <4>1 DEF IInv, CreatedFirst
    <3> QED BY <3>1, <3>2
  <2>9. \A i \in DOMAIN sent[q] : FALSE
    <3> SUFFICES ASSUME NEW i \in DOMAIN sent[q] PROVE FALSE
      OBVIOUS
    <3>1. Rank[sent[q][i]] <= Reached("absent") /\ Rank[sent[q][i]] \in 1..3
      BY <1>1, <1>3, RankSent DEF IInv, InStages
    <3> QED BY <3>1 DEF Reached
  <2>10. InStages'
    BY <2>1, <2>2, <2>9 DEF IInv, InStages
  <2>11. StillToSend'
    <3> SUFFICES ASSUME NEW u \in Threads, At(u, "run")'
                 PROVE  (\A w \in ToSend(status[Req(u)]) : \A i \in DOMAIN sent[Req(u)] :
                            Rank[sent[Req(u)][i]] < Rank[w])'
      BY DEF StillToSend
    <3>1. CASE u = t  BY <2>1, <2>6, <2>9, <3>1
    <3>2. CASE u # t
      <4>1. At(u, "run") /\ Req(u)' = Req(u) /\ Req(u) # q /\ Req(u) \in Requests
        BY <2>2, <2>4, <2>5, <3>2 DEF IInv, TypeOK, Executing, Req, At
      <4>2. status'[Req(u)'] = status[Req(u)] /\ sent' = sent
        BY <2>1, <2>2, <4>1
      <4> QED BY <4>1, <4>2 DEF IInv, StillToSend
    <3> QED BY <3>1, <3>2
  <2>12. CommandsSentOnce'
    BY <2>1 DEF IInv, CommandsSentOnce
  <2> QED BY <2>3, <2>7, <2>8, <2>10, <2>11, <2>12 DEF IInv
<1> QED BY <1>2, <1>3

\* The executor types the command of the stage, which comes after the ones before.
LEMMA CommandKeeps ==
    ASSUME IInv, NEW t \in Threads, Command(t)
    PROVE  IInv'
<1> DEFINE q == Req(t)
           old == sent[q]
<1>1. /\ q \in Requests /\ doing[t].at = "run" /\ doing[t].request = q
      /\ status[q] \in Stages /\ Executing(t)
  BY DEF IInv, TypeOK, Command, At, Req, Executes, Executing
<1>2. PICK w \in ToSend(status[q]) : sent' = [sent EXCEPT ![q] = Append(@, w)]
  BY DEF Command
<1>3. w \in Windows /\ Rank[w] = Reached(status[q]) /\ Rank[w] \in 1..3
  BY <1>1, StageCommand, Ranks
<1>4. \A i \in DOMAIN old : Rank[old[i]] < Rank[w]
  BY <1>1 DEF IInv, StillToSend, At
<1>5. old \in Seq(Windows)
  BY <1>1 DEF IInv, TypeOK, Windows
<1>6. /\ sent'[q] = Append(old, w) /\ sent'[q] \in Seq(Windows)
      /\ \A r \in Requests : r # q => sent'[r] = sent[r]
  BY <1>1, <1>2, <1>3, <1>5 DEF IInv, TypeOK
<1>7. /\ DOMAIN sent'[q] = DOMAIN old \cup {Len(old) + 1}
      /\ sent'[q][Len(old) + 1] = w
      /\ \A i \in DOMAIN old : sent'[q][i] = old[i] /\ i \in 1..Len(old)
      /\ Len(old) \in Nat
  BY <1>3, <1>5, <1>6
<1>8. /\ status' = status
      /\ doing'[t] = [request |-> q, at |-> "sent"]
      /\ \A u \in Threads : u # t => doing'[u] = doing[u]
      /\ doing' = [doing EXCEPT ![t] = [@ EXCEPT !.at = "sent"]]
  BY <1>1 DEF Command, Go, IInv, TypeOK
<1>9. TypeOK'
  <2>1. sent' \in [Requests -> Seq(Windows)]
    <3>1. \A r \in Requests : sent'[r] \in Seq(Windows)
      BY <1>6 DEF IInv, TypeOK, Windows
    <3>2. DOMAIN sent' = Requests /\ sent' = [r \in Requests |-> sent'[r]]
      BY <1>2 DEF IInv, TypeOK
    <3> QED BY <3>1, <3>2
  <2>2. doing' \in [Threads -> [request : Requests \cup {None}, at : Places]]
    BY <1>1, <1>8 DEF IInv, TypeOK, Places
  <2>3. \A u \in Threads : (Req(u) = None <=> At(u, "idle"))'
    BY <1>1, <1>8, RequestsAssumption DEF IInv, TypeOK, Req, At
  <2> QED BY <1>8, <2>1, <2>2, <2>3 DEF IInv, TypeOK, Windows
<1>10. \A u \in Threads : (Executing(u)' <=> Executing(u)) /\ Req(u)' = Req(u)
  BY <1>1, <1>8 DEF Executing, Req
<1>11. OneExecutor' /\ CreatedFirst'
  BY <1>8, <1>10 DEF IInv, OneExecutor, CreatedFirst, Executing
<1>12. InStages'
  <2> SUFFICES ASSUME NEW r \in Requests, NEW i \in DOMAIN sent'[r]
               PROVE  Rank[sent'[r][i]] <= Reached(status[r])
    BY <1>8 DEF InStages
  <2>1. CASE r # q  BY <1>6, <2>1 DEF IInv, InStages
  <2>2. CASE r = q /\ i = Len(old) + 1
    <3>1. Rank[w] <= Reached(status[q])
      BY <1>3
    <3> QED BY <1>7, <2>2, <3>1
  <2>3. CASE r = q /\ i \in DOMAIN old
    BY <1>7, <2>3 DEF IInv, InStages
  <2> QED BY <1>7, <2>1, <2>2, <2>3
<1>13. StillToSend'
  <2> SUFFICES ASSUME NEW u \in Threads, At(u, "run")'
               PROVE  (\A v \in ToSend(status[Req(u)]) : \A i \in DOMAIN sent[Req(u)] :
                          Rank[sent[Req(u)][i]] < Rank[v])'
    BY DEF StillToSend
  <2>1. u # t /\ At(u, "run") /\ Req(u)' = Req(u) /\ Executing(u)
    BY <1>8 DEF At, Req, Executing
  <2>2. Req(u) # q /\ Req(u) \in Requests
    BY <1>1, <2>1 DEF IInv, OneExecutor, Executing, TypeOK, At, Req
  <2>3. status'[Req(u)'] = status[Req(u)] /\ sent'[Req(u)'] = sent[Req(u)]
    BY <1>6, <1>8, <2>1, <2>2
  <2> QED BY <2>1, <2>3 DEF IInv, StillToSend
<1>14. CommandsSentOnce'
  <2> SUFFICES ASSUME NEW r \in Requests, NEW i \in DOMAIN sent'[r],
                      NEW j \in DOMAIN sent'[r], i < j
               PROVE  Rank[sent'[r][i]] < Rank[sent'[r][j]]
    BY DEF CommandsSentOnce
  <2>1. CASE r # q  BY <1>6, <2>1 DEF IInv, CommandsSentOnce
  <2>2. CASE r = q /\ j \in DOMAIN old
    <3>1. i \in DOMAIN old
      BY <1>7, <2>2
    <3> QED BY <1>7, <2>2, <3>1 DEF IInv, CommandsSentOnce
  <2>3. CASE r = q /\ j = Len(old) + 1
    <3>1. i \in DOMAIN old
      BY <1>7, <2>3
    <3> QED BY <1>4, <1>7, <2>3, <3>1
  <2> QED BY <1>7, <2>1, <2>2, <2>3
<1> QED BY <1>9, <1>11, <1>12, <1>13, <1>14 DEF IInv

\* Steps that leave a thread that does not execute its request in another place.
LEMMA OtherStepsKeep ==
    ASSUME IInv, NEW t \in Threads,
           (\E r \in Requests : Submit(t, r)) \/ Look(t) \/ Return(t)
    PROVE  IInv'
<1>1. /\ UNCHANGED <<status, sent>>
      /\ \E d \in [request : Requests \cup {None}, at : Places \ {"run", "sent"}] :
             /\ doing' = [doing EXCEPT ![t] = d]
             /\ d.request = None <=> d.at = "idle"
  <2>1. CASE \E r \in Requests : Submit(t, r)
    <3>1. PICK r \in Requests : Submit(t, r)
      BY <2>1
    <3>2. [request |-> r, at |-> "look"]
              \in [request : Requests \cup {None}, at : Places \ {"run", "sent"}]
      BY DEF Places
    <3> QED BY <3>1, <3>2, RequestsAssumption DEF Submit
  <2>2. CASE Look(t)
    <3> DEFINE p == IF status[Req(t)] = "absent" THEN "insert" ELSE "done"
    <3>1. /\ doing[t] \in [request : Requests \cup {None}, at : Places]
          /\ doing[t].at = "look" /\ doing[t].request # None
      BY <2>2 DEF Look, IInv, TypeOK, At, Req
    <3>2. doing' = [doing EXCEPT ![t] = [request |-> doing[t].request, at |-> p]]
      <4>1. doing' = [doing EXCEPT ![t] = [doing[t] EXCEPT !.at = p]]
        BY <2>2, <3>1 DEF Look, Go
      <4>2. [doing[t] EXCEPT !.at = p] = [request |-> doing[t].request, at |-> p]
        BY <3>1
      <4> QED BY <4>1, <4>2
    <3>3. [request |-> doing[t].request, at |-> p]
              \in [request : Requests \cup {None}, at : Places \ {"run", "sent"}]
      BY <3>1 DEF Places
    <3> QED BY <2>2, <3>1, <3>2, <3>3 DEF Look
  <2>3. CASE Return(t)
    <3>1. Idle \in [request : Requests \cup {None}, at : Places \ {"run", "sent"}]
      BY DEF Idle, Places
    <3> QED BY <2>3, <3>1 DEF Return, Idle
  <2> QED BY <2>1, <2>2, <2>3
<1>2. PICK d \in [request : Requests \cup {None}, at : Places \ {"run", "sent"}] :
          /\ doing' = [doing EXCEPT ![t] = d]
          /\ d.request = None <=> d.at = "idle"
  BY <1>1
<1>3. doing'[t] = d /\ \A u \in Threads : u # t => doing'[u] = doing[u]
  BY <1>2 DEF IInv, TypeOK
<1>4. TypeOK'
  BY <1>1, <1>2, <1>3 DEF IInv, TypeOK, Req, At
<1>5. \A u \in Threads : Executing(u)' => doing'[u] = doing[u]
  BY <1>3 DEF Executing
<1> QED BY <1>1, <1>4, <1>5, KeepsExecutors

LEMMA AbandonKeeps ==
    ASSUME IInv, NEW ts \in SUBSET Threads, Abandon(ts)
    PROVE  IInv'
<1>1. /\ UNCHANGED <<status, sent>>
      /\ \A u \in Threads : doing'[u] = IF u \in ts THEN Idle ELSE doing[u]
  BY DEF Abandon
<1>2. TypeOK'
  BY <1>1 DEF Abandon, IInv, TypeOK, Idle, Places, Req, At
<1>3. \A u \in Threads : Executing(u)' => doing'[u] = doing[u]
  BY <1>1 DEF Executing, Idle
<1> QED BY <1>1, <1>2, <1>3, KeepsExecutors

LEMMA NextKeeps == IInv /\ [Next]_vars => IInv'
<1> SUFFICES ASSUME IInv, [Next]_vars PROVE IInv'
  OBVIOUS
<1>1. CASE UNCHANGED vars
  <2>1. UNCHANGED <<status, sent, doing>>
    BY <1>1 DEF vars
  <2>2. TypeOK'
    BY <2>1 DEF IInv, TypeOK, Req, At
  <2> QED BY <2>1, <2>2, KeepsExecutors
<1>2. ASSUME NEW t \in Threads, Advance(t) PROVE IInv'
  <2>1. Executes(t) /\ Become(t, Following[status[Req(t)]]) /\ UNCHANGED sent
    BY <1>2 DEF Advance
  <2>2. status[Req(t)] \in Stages
    BY <2>1 DEF Executes
  <2> QED BY <2>1, <2>2, NextStage, Becomes
<1>3. ASSUME NEW t \in Threads, StageFails(t) PROVE IInv'
  <2>1. /\ Executes(t) /\ Become(t, Failure[status[Req(t)]]) /\ UNCHANGED sent
        /\ status[Req(t)] \in DOMAIN Failure
    BY <1>3 DEF StageFails
  <2>2. Failure[status[Req(t)]] \in Final /\ Reached(Failure[status[Req(t)]]) = 3
    BY <2>1, Failures
  <2>3. Failure[status[Req(t)]] \in (Stages \cup Final) \ {"pending"}
        /\ Failure[status[Req(t)]] \notin Stages
    BY <2>2 DEF Stages, Final
  <2>4. Reached(status[Req(t)]) <= 3
    BY Reaches
  <2> QED BY <2>1, <2>2, <2>3, <2>4, Becomes
<1>4. ASSUME NEW t \in Threads, Unexpected(t) PROVE IInv'
  <2>1. Executes(t) /\ Become(t, "failed_vllm") /\ UNCHANGED sent
    BY <1>4 DEF Unexpected
  <2>2. "failed_vllm" \in (Stages \cup Final) \ {"pending"} /\ "failed_vllm" \notin Stages
    BY DEF Stages, Final
  <2>3. Reached(status[Req(t)]) <= Reached("failed_vllm")
    BY Reaches DEF Reached
  <2> QED BY <2>1, <2>2, <2>3, Becomes
<1> QED BY <1>1, <1>2, <1>3, <1>4, InsertKeeps, CommandKeeps, OtherStepsKeep, AbandonKeeps
        DEF Next, Progress, Fails

LEMMA Inductive == Spec => []IInv
  BY InitIInv, NextKeeps, PTL DEF Spec

\* The request table, the tmux windows and the threads have the values that the
\* code gives them (the types of orchestrator.py and the table requests).
THEOREM TypeCorrect == Spec => []TypeOK
  BY Inductive, PTL DEF IInv

\* Of the threads that submit one request at the same time, one executes it
\* (submit, and the primary key of the table).
THEOREM OneExecutes == Spec => []OneExecutor
  BY Inductive, PTL DEF IInv

\* A request's commands are typed into tmux once each and in the order of its
\* stages, whichever processes submit it and die (_execute).
THEOREM TypedOnce == Spec => []CommandsSentOnce
  BY Inductive, PTL DEF IInv

-----------------------------------------------------------------------------
\* Every change of a status is an edge of RequestLifecycle.
LEMMA StepTakesEdge ==
    ASSUME IInv, NEW t \in Threads, NEW s,
           <<status[Req(t)], s>> \in Lifecycle!Forward \cup Lifecycle!Failing,
           status' = [status EXCEPT ![Req(t)] = s], Req(t) # None
    PROVE  Lifecycle!Next
<1>1. Req(t) \in Requests
  BY DEF IInv, TypeOK, Req
<1>2. PICK e \in Lifecycle!Forward \cup Lifecycle!Failing : e = <<status[Req(t)], s>>
  OBVIOUS
<1>3. e[1] = status[Req(t)] /\ e[2] = s
  BY <1>2
<1> QED BY <1>1, <1>3 DEF Lifecycle!Next

LEMMA StepRefines == IInv /\ [Next]_vars => [Lifecycle!Next]_status
<1> SUFFICES ASSUME IInv, [Next]_vars, status' # status PROVE Lifecycle!Next
  OBVIOUS
<1>1. PICK t \in Threads : Insert(t) \/ Advance(t) \/ StageFails(t) \/ Unexpected(t)
  BY DEF Next, vars, Progress, Fails, Submit, Look, Command, Return, Abandon
<1>2. Req(t) # None
  BY <1>1 DEF IInv, TypeOK, Insert, Advance, StageFails, Unexpected, Executes, At
<1>3. CASE Insert(t)
  <2>1. status[Req(t)] = "absent" /\ status' = [status EXCEPT ![Req(t)] = "pending"]
    BY <1>3 DEF Insert
  <2>2. <<"absent", "pending">> \in Lifecycle!Forward
    BY DEF Lifecycle!Forward
  <2> QED BY <1>2, <2>1, <2>2, StepTakesEdge
<1>4. CASE Advance(t)
  <2>1. /\ status[Req(t)] \in Stages
        /\ status' = [status EXCEPT ![Req(t)] = Following[status[Req(t)]]]
    BY <1>4 DEF Advance, Executes, Become
  <2>2. \A s \in Stages : <<s, Following[s]>> \in Lifecycle!Forward
    BY RequestsAssumption DEF Stages, Following, Lifecycle!Forward
  <2> QED BY <1>2, <2>1, <2>2, StepTakesEdge
<1>5. CASE StageFails(t)
  <2>1. /\ status[Req(t)] \in DOMAIN Failure
        /\ status' = [status EXCEPT ![Req(t)] = Failure[status[Req(t)]]]
    BY <1>5 DEF StageFails, Become
  <2>2. \A s \in DOMAIN Failure : <<s, Failure[s]>> \in Lifecycle!Failing
    BY DEF Failure, Lifecycle!Failing
  <2> QED BY <1>2, <2>1, <2>2, StepTakesEdge
<1>6. CASE Unexpected(t)
  <2>1. /\ status[Req(t)] \in Stages
        /\ status' = [status EXCEPT ![Req(t)] = "failed_vllm"]
    BY <1>6 DEF Unexpected, Executes, Become
  <2>2. \A s \in Stages : <<s, "failed_vllm">> \in Lifecycle!Failing
    BY DEF Stages, Lifecycle!Failing
  <2> QED BY <1>2, <2>1, <2>2, StepTakesEdge
<1> QED BY <1>1, <1>3, <1>4, <1>5, <1>6

\* The orchestrator's transitions implement the documented state machine: no
\* request skips a stage, fails in another stage's way or leaves a final status
\* (docs/workflows.md; orchestrator.py, _execute).
THEOREM Refines == Spec => ImplementsLifecycle
<1>1. Init => Lifecycle!Init
  BY DEF Init, Lifecycle!Init
<1> QED BY <1>1, StepRefines, Inductive, PTL DEF Spec, ImplementsLifecycle, Lifecycle!Spec
=============================================================================
