--------------------------- MODULE SerialCmdProofs ---------------------------
(***************************************************************************)
(* Proofs about SerialCmd, for any number of threads, queues of any length *)
(* and every behaviour of the environment the switches allow.              *)
(***************************************************************************)
EXTENDS SerialClient, SequenceTheorems, TLAPS

\* What is left of the lines after the first one.
LEMMA TailType ==
    ASSUME NEW S, NEW s \in Seq(S), s # <<>>
    PROVE  /\ Head(s) \in S
           /\ Tail(s) \in Seq(S)
           /\ Len(Tail(s)) = Len(s) - 1
           /\ \A i \in 1..Len(Tail(s)) : Tail(s)[i] = s[i + 1]
           /\ Len(s) \in Nat /\ Len(s) > 0 /\ Head(s) = s[1]
<1>1. Len(s) \in Nat /\ Len(s) > 0
  BY LenProperties, EmptySeq
<1> QED
  BY <1>1, HeadTailProperties

LEMMA OneLine == ASSUME NEW S, NEW a \in S PROVE <<a>> \in Seq(S)
  OBVIOUS

LEMMA TwoLines == ASSUME NEW S, NEW a \in S, NEW b \in S PROVE <<a, b>> \in Seq(S)
  OBVIOUS

LEMMA AppendEmpty == ASSUME NEW a PROVE Append(<<>>, a) = <<a>>
  OBVIOUS

\* The answers of the ESP8266 are made of its lines, and the last one decides
\* the fate of the request.
LEMMA AnswersType ==
    ASSUME NEW q \in Kind \cup {"status", "junk"}, NEW ans \in Answers(q)
    PROVE  /\ ans \in Seq(Line)
           /\ FateOf(ans) \in {"good", "bad", "mute"}
<1>1. ans \in {<<"OK", "ready">>, <<"CONNECT", "OK">>, <<"ERROR">>, <<"OK">>, <<"FAIL">>}
  BY DEF Answers, Kind
<1>2. {"OK", "ready", "CONNECT", "ERROR", "FAIL"} \subseteq Line
  BY DEF Line
<1>3. ans \in Seq(Line)
  BY <1>1, <1>2, OneLine, TwoLines
<1>4. FateOf(ans) \in {"good", "bad", "mute"}
  BY DEF FateOf
<1> QED
  BY <1>3, <1>4

LEMMA PayloadAnswersType ==
    ASSUME NEW ans \in {<<"SEND OK">>, <<>>, <<"SEND OK", "ERROR">>}
    PROVE  ans \in Seq(Line)
<1>1. {"SEND OK", "ERROR"} \subseteq Line
  BY DEF Line
<1>2. <<>> \in Seq(Line)
  BY EmptySeq
<1> QED
  BY <1>1, <1>2, OneLine, TwoLines

LEMMA InitType == Init => TypeOK
  BY MainAssumption, NamesAssumption
  DEF Init, TypeOK, NoLine, Kind, Line, RES_INVAL, RES_OK, RES_ERR

LEMMA TypeStep == TypeOK /\ [Next]_vars => TypeOK'
<1> SUFFICES ASSUME TypeOK, [Next]_vars
             PROVE  TypeOK'
  OBVIOUS
<1> USE NamesAssumption DEF TypeOK, progVars, lineVars, ghosts
<1>1. ASSUME NEW t \in Thread, CmdStart(t)
      PROVE  TypeOK'
  <2>1. PICK k \in Kind :
            /\ mtx = "free" /\ pc[t] \in {"idle", "payload"}
            /\ mtx' = t /\ result' = RES_INVAL /\ response' = Resp(k)
            /\ pc' = [pc EXCEPT ![t] = "start"]
            /\ kind' = [kind EXCEPT ![t] = k]
            /\ fate' = [fate EXCEPT ![t] = "pending"]
            /\ clean' = [u \in Thread |->
                   IF u = t THEN Quiet(t, k) ELSE clean[u] /\ ~Waiting(u)]
            /\ UNCHANGED <<boot, lineVars>>
    BY <1>1 DEF CmdStart, CmdStartUnlocked
  <2>2. Quiet(t, k) \in BOOLEAN
    BY DEF Quiet
  <2>3. \A u \in Thread : (clean[u] /\ ~Waiting(u)) \in BOOLEAN
    OBVIOUS
  <2>4. clean' \in [Thread -> BOOLEAN]
    BY <2>1, <2>2, <2>3, Zenon
  <2>5. Resp(k) \in {"OK", "SEND OK", "ready"}
    BY DEF Resp
  <2>6. \A u \in Thread : mtx' = u <=> pc'[u] \in {"start", "sent"}
    BY <2>1, ZenonT(30)
  <2>7. pc' \in [Thread -> {"idle", "start", "sent", "wait", "woken", "payload"}]
    BY <2>1
  <2> QED
    BY <2>1, <2>4, <2>5, <2>6, <2>7 DEF RES_INVAL
<1>2. ASSUME NEW t \in Thread, CmdSend(t)
      PROVE  TypeOK'
  BY <1>2 DEF CmdSend
<1>3. ASSUME NEW t \in Thread, CmdWait(t)
      PROVE  TypeOK'
  <2>1. [req |-> IF partial.intact THEN kind[t] ELSE "junk", own |-> t] \in Request
    BY DEF Request
  <2>2. toEsp' \in Seq(Request)
    BY <1>3, <2>1, AppendProperties DEF CmdWait
  <2> HIDE DEF Request
  <2> QED
    BY <1>3, <2>2 DEF CmdWait, NoLine
<1>4. ASSUME NEW t \in Thread, SpuriousWakeup(t)
      PROVE  TypeOK'
  BY <1>4, ZenonT(30) DEF SpuriousWakeup
<1>5. ASSUME NEW t \in Thread, CmdReturn(t)
      PROVE  TypeOK'
  BY <1>5, ZenonT(30) DEF CmdReturn, BootAfter, Kind
<1>6. CASE ParseLine
  <2>1. rx' \in Seq(Line)
    BY <1>6, TailType DEF ParseLine
  <2>2. result' \in {RES_INVAL, RES_OK, RES_ERR}
    BY <1>6 DEF ParseLine, ResultOf
  <2>3. pc' = pc \/ \E t \in Thread : pc[t] = "wait" /\ pc' = [pc EXCEPT ![t] = "woken"]
    BY <1>6 DEF ParseLine
  <2>4. /\ pc' \in [Thread -> {"idle", "start", "sent", "wait", "woken", "payload"}]
        /\ \A t \in Thread : mtx = t <=> pc'[t] \in {"start", "sent"}
    BY <2>3
  <2> QED
    BY <1>6, <2>1, <2>2, <2>4 DEF ParseLine
<1>7. CASE OtherLine
  <2>1. rx' \in Seq(Line)
    BY <1>7, TailType DEF OtherLine
  <2> QED
    BY <1>7, <2>1 DEF OtherLine
<1>8. CASE AcceptStart
  <2>1. rx' \in Seq(Line)
    BY <1>8, TailType DEF AcceptStart
  <2>2. /\ [req |-> "status", own |-> "read_thread"] \in Request
        /\ [req |-> "junk", own |-> "read_thread"] \in Request
    BY DEF Request
  <2>3. toEsp' \in Seq(Request)
    <3>1. PICK r \in {"status", "junk"} :
              toEsp' = Append(toEsp, [req |-> r, own |-> "read_thread"])
      BY <1>8 DEF AcceptStart
    <3>2. [req |-> r, own |-> "read_thread"] \in Request
      BY <2>2
    <3> QED
      BY <3>1, <3>2, AppendProperties
  <2>4. partial' \in [own : Thread \cup {"none"}, intact : BOOLEAN]
    BY <1>8 DEF AcceptStart
  <2>5. clean' \in [Thread -> BOOLEAN]
    <3>1. \A t \in Thread : (clean[t] /\ pc[t] \in {"idle", "payload"}) \in BOOLEAN
      OBVIOUS
    <3> QED
      BY <1>8, <3>1, Zenon DEF AcceptStart
  <2> QED
    BY <1>8, <2>1, <2>3, <2>4, <2>5 DEF AcceptStart
<1>9. CASE AcceptLine
  <2>1. rx' \in Seq(Line)
    BY <1>9, TailType DEF AcceptLine
  <2> QED
    BY <1>9, <2>1 DEF AcceptLine
<1>10. CASE EspCommand
  <2>1. toEsp # <<>> /\ toEsp' = Tail(toEsp)
        /\ UNCHANGED <<progVars, rd, partial, clean>>
    BY <1>10 DEF EspCommand
  <2>2. Head(toEsp) \in Request /\ toEsp' \in Seq(Request)
    BY <2>1, TailType
  <2>3. PICK q \in Request : \E ans \in Answers(q.req) :
            /\ rx' = rx \o ans
            /\ fate' = Note(q.own, FateOf(ans))
            /\ esp' = IF q.req = "send" /\ ans = <<"OK">> THEN q.own ELSE "cmd"
    BY <1>10, <2>2 DEF EspCommand
  <2>4. PICK ans \in Answers(q.req) :
            /\ rx' = rx \o ans
            /\ fate' = Note(q.own, FateOf(ans))
            /\ esp' = IF q.req = "send" /\ ans = <<"OK">> THEN q.own ELSE "cmd"
    BY <2>3
  <2>5. /\ q.req \in Kind \cup {"status", "junk"}
        /\ q.req = "send" => q.own \in Thread
    BY DEF Request, Kind
  <2>6. ans \in Seq(Line) /\ FateOf(ans) \in {"good", "bad", "mute"}
    BY <2>5, AnswersType
  <2>7. rx' \in Seq(Line)
    BY <2>4, <2>6, ConcatProperties
  <2>8. fate' \in [Thread -> {"pending", "good", "bad", "mute"}]
    BY <2>4, <2>6 DEF Note
  <2>9. esp' \in Thread \cup {"cmd"}
    BY <2>4, <2>5
  <2> HIDE DEF Request
  <2> QED
    BY <2>1, <2>2, <2>7, <2>8, <2>9
<1>11. CASE EspPayload
  <2> DEFINE q   == Head(toEsp)
             own == q.req = "data" /\ q.own = esp
  <2>1. toEsp # <<>> /\ toEsp' = Tail(toEsp)
        /\ UNCHANGED <<progVars, rd, partial, clean>>
    BY <1>11 DEF EspPayload
  <2>2. toEsp' \in Seq(Request)
    BY <2>1, TailType
  <2>3. PICK ans \in {<<"SEND OK">>, <<>>, <<"SEND OK", "ERROR">>} :
            /\ rx' = rx \o ans
            /\ esp' = IF ans = <<>> THEN esp ELSE "cmd"
            /\ fate' = Note(q.own, IF own THEN "good" ELSE "bad")
    BY <1>11 DEF EspPayload
  <2>4. rx' \in Seq(Line)
    BY <2>3, PayloadAnswersType, ConcatProperties
  <2>5. fate' \in [Thread -> {"pending", "good", "bad", "mute"}]
    BY <2>3 DEF Note
  <2> QED
    BY <2>1, <2>2, <2>3, <2>4, <2>5
<1>12. CASE Unsolicited
  <2>1. PICK l \in Line : rx' = Append(rx, l)
    BY <1>12 DEF Unsolicited, Line
  <2>2. rx' \in Seq(Line)
    BY <2>1, AppendProperties
  <2> QED
    BY <1>12, <2>2 DEF Unsolicited
<1>13. CASE UNCHANGED vars
  BY <1>13, ZenonT(30) DEF vars
<1> QED
  BY <1>1, <1>2, <1>3, <1>4, <1>5, <1>6, <1>7, <1>8, <1>9, <1>10, <1>11, <1>12,
     <1>13 DEF Next, App, ReadThread, Esp

(***************************************************************************)
(* Every variable keeps its type, and mtx is held exactly from             *)
(* serial_cmd_start to the condition wait of serial_cmd_wait: two threads  *)
(* never write the command line at the same time.                          *)
(***************************************************************************)
THEOREM TypeCorrect == Spec => []TypeOK
  BY InitType, TypeStep, PTL DEF Spec

-----------------------------------------------------------------------------
(* A command that nothing interferes with *)

LEMMA InitInd == Init => IndInv
  BY InitType DEF Init, IndInv, Orderly

\* The answer to a command says what its fate is, and unless it is one that
\* parse_line does not know, a line of it is the awaited one or an ERROR.
LEMMA AnswerFits ==
    ASSUME NEW k \in Kind \ {"data"}, NEW ans \in Answers(k)
    PROVE  /\ \A i \in 1..Len(ans) : /\ ans[i] = Resp(k) => FateOf(ans) = "good"
                                     /\ ans[i] = "ERROR" => FateOf(ans) = "bad"
           /\ FateOf(ans) # "mute" =>
                  \E i \in 1..Len(ans) : ans[i] = Resp(k) \/ ans[i] = "ERROR"
<1>1. CASE k = "reset" /\ ans = <<"OK", "ready">>
  BY <1>1 DEF Resp, FateOf
<1>2. CASE k = "connect" /\ ans = <<"CONNECT", "OK">>
  BY <1>2 DEF Resp, FateOf
<1>3. CASE k # "reset" /\ ans \in {<<"OK">>, <<"ERROR">>, <<"FAIL">>}
  <2>1. Resp(k) = "OK"
    BY <1>3 DEF Resp, Kind
  <2>2. Len(ans) = 1 /\ ans[1] \in {"OK", "ERROR", "FAIL"}
    BY <1>3
  <2> QED
    BY <2>1, <2>2 DEF FateOf
<1> QED
  BY <1>1, <1>2, <1>3 DEF Answers, Kind

LEMMA OneElement ==
    ASSUME NEW s, Len(s) = 1
    PROVE  1 \in 1..Len(s) /\ \A i \in 1..Len(s) : s[i] = s[1]
  OBVIOUS

LEMMA SendOkFits ==
    /\ <<"SEND OK">> \in Seq(Line)
    /\ \A i \in 1..Len(<<"SEND OK">>) : <<"SEND OK">>[i] = "SEND OK"
    /\ \E i \in 1..Len(<<"SEND OK">>) : <<"SEND OK">>[i] = "SEND OK"
<1>1. PICK s : s = <<"SEND OK">>
  OBVIOUS
<1>2. s \in Seq(Line) /\ Len(s) = 1 /\ s[1] = "SEND OK"
  BY <1>1, PayloadAnswersType
<1>3. \A i \in 1..Len(s) : s[i] = "SEND OK"
  BY <1>2, OneElement
<1>4. \E i \in 1..Len(s) : s[i] = "SEND OK"
  BY <1>2, OneElement
<1> QED
  BY <1>1, <1>2, <1>3, <1>4, Zenon

\* The lines of a concatenation are those of its two parts.
LEMMA ConcatFrom ==
    ASSUME NEW S, NEW r \in Seq(S), NEW s \in Seq(S), NEW i \in 1..Len(r \o s)
    PROVE  \/ \E j \in 1..Len(r) : (r \o s)[i] = r[j]
           \/ \E j \in 1..Len(s) : (r \o s)[i] = s[j]
<1>1. /\ Len(r \o s) = Len(r) + Len(s)
      /\ Len(r) \in Nat /\ Len(s) \in Nat
      /\ (r \o s)[i] = IF i <= Len(r) THEN r[i] ELSE s[i - Len(r)]
  BY ConcatProperties, LenProperties
<1>2. CASE i <= Len(r)
  BY <1>1, <1>2
<1>3. CASE i > Len(r)
  <2>1. i - Len(r) \in 1..Len(s) /\ (r \o s)[i] = s[i - Len(r)]
    BY <1>1, <1>3
  <2> QED
    BY <2>1
<1> QED
  BY <1>1, <1>2, <1>3

LEMMA ConcatTo ==
    ASSUME NEW S, NEW r \in Seq(S), NEW s \in Seq(S), NEW j \in 1..Len(s)
    PROVE  Len(r) + j \in 1..Len(r \o s) /\ (r \o s)[Len(r) + j] = s[j]
<1>1. /\ Len(r \o s) = Len(r) + Len(s)
      /\ Len(r) \in Nat /\ Len(s) \in Nat
      /\ \A i \in 1..Len(r) + Len(s) :
             (r \o s)[i] = IF i <= Len(r) THEN r[i] ELSE s[i - Len(r)]
  BY ConcatProperties, LenProperties
<1> QED
  BY <1>1

\* A step of the application threads.
LEMMA AppOrderly ==
    ASSUME TypeOK, NEW t \in Thread, Orderly(t), NEW u \in Thread, App(u)
    PROVE  Orderly(t)'
<1> USE NamesAssumption DEF TypeOK, progVars, lineVars, ghosts
<1> SUFFICES ASSUME clean'[t], pc'[t] \notin {"idle", "payload"}
             PROVE  Orderly(t)'
  BY DEF Orderly
<1>1. CASE CmdStart(u)
  <2>1. PICK k \in Kind :
            /\ mtx = "free" /\ response' = Resp(k)
            /\ pc' = [pc EXCEPT ![u] = "start"]
            /\ kind' = [kind EXCEPT ![u] = k]
            /\ fate' = [fate EXCEPT ![u] = "pending"]
            /\ clean' = [v \in Thread |->
                   IF v = u THEN Quiet(u, k) ELSE clean[v] /\ ~Waiting(v)]
            /\ UNCHANGED <<boot, lineVars>>
    BY <1>1 DEF CmdStart, CmdStartUnlocked
  <2>2. \A v \in Thread : pc[v] \notin {"start", "sent"}
    BY <2>1
  <2>3. u = t
    <3>1. SUFFICES ASSUME u # t PROVE FALSE
      OBVIOUS
    <3>2. clean'[t] = (clean[t] /\ ~Waiting(t))
      BY <2>1, <3>1, Zenon
    <3>3. pc'[t] = pc[t]
      <4>1. pc' = [pc EXCEPT ![u] = "start"]
        BY <2>1
      <4> QED
        BY <3>1, <4>1
    <3>4. Waiting(t)
      BY <2>2, <3>3 DEF Waiting
    <3> QED
      BY <3>2, <3>4, Zenon
  <2>4. Quiet(t, k)
    BY <2>1, <2>3, Zenon
  <2>5. ASSUME NEW v \in Thread \ {t}
        PROVE  pc'[v] \in {"idle", "payload"}
    <3>1. pc'[v] = pc[v]
      <4>1. pc' = [pc EXCEPT ![t] = "start"]
        BY <2>1, <2>3
      <4> QED
        BY <4>1
    <3>2. ~Waiting(v)
      BY <2>4, Zenon DEF Quiet
    <3> QED
      BY <2>2, <3>1, <3>2 DEF Waiting
  <2>6. Alone(t)'
    BY <2>1, <2>3, <2>4, <2>5, ZenonT(30) DEF Alone, Quiet
  <2>7. Unsent(t)' /\ pc'[t] = "start"
    BY <2>1, <2>3, <2>4, ZenonT(30) DEF Unsent, Quiet, NoAnswers
  <2> QED
    BY <2>6, <2>7 DEF Orderly
<1>2. CASE CmdSend(u)
  <2>1. u = t
    BY <1>2 DEF CmdSend, Orderly, Alone
  <2>2. Alone(t) /\ Unsent(t)
    BY <1>2, <2>1 DEF CmdSend, Orderly
  <2>3. Alone(t)'
    BY <1>2, <2>1, <2>2 DEF CmdSend, Alone
  <2>4. Unsent(t)'
    BY <1>2, <2>1, <2>2 DEF CmdSend, Unsent, NoAnswers
  <2> QED
    BY <1>2, <2>1, <2>3, <2>4 DEF CmdSend, Orderly
<1>3. CASE CmdWait(u)
  <2>1. u = t
    BY <1>3 DEF CmdWait, Orderly, Alone
  <2>2. Alone(t) /\ Unsent(t) /\ pc[t] = "sent"
    BY <1>3, <2>1 DEF CmdWait, Orderly
  <2>3. Alone(t)'
    BY <1>3, <2>1, <2>2 DEF CmdWait, Alone
  <2>4. Consistent(t)'
    BY <1>3, <2>2 DEF CmdWait, Unsent, NoAnswers, Consistent
  <2>5. toEsp' = Append(<<>>, [req |-> kind[t], own |-> t])
    BY <1>3, <2>1, <2>2 DEF CmdWait, Unsent
  <2>6. toEsp' = <<[req |-> kind[t], own |-> t]>>
    BY <2>5, AppendEmpty
  <2>7. Pending(t)'
    BY <1>3, <2>2, <2>6 DEF CmdWait, Unsent, Pending
  <2> QED
    BY <1>3, <2>1, <2>3, <2>4, <2>7 DEF CmdWait, Orderly
<1>4. CASE SpuriousWakeup(u)
  <2>1. u # t
    BY <1>4 DEF SpuriousWakeup
  <2>2. pc[t] \notin {"idle", "payload"} /\ pc[u] = "wait" /\ clean[t]
    BY <1>4, <2>1 DEF SpuriousWakeup
  <2> QED
    BY <2>1, <2>2 DEF Orderly, Alone
<1>5. CASE CmdReturn(u)
  <2>1. pc'[u] \in {"idle", "payload"} /\ \A v \in Thread \ {u} : pc'[v] = pc[v]
    BY <1>5, ZenonT(30) DEF CmdReturn
  <2>2. u # t
    BY <2>1
  <2>3. pc[t] \notin {"idle", "payload"} /\ pc[u] = "woken"
    BY <1>5, <2>1, <2>2 DEF CmdReturn
  <2>4. clean[t]
    <3>1. clean' = [clean EXCEPT ![u] = TRUE] /\ clean \in [Thread -> BOOLEAN]
      BY <1>5 DEF CmdReturn
    <3> QED
      BY <2>2, <3>1, Zenon
  <2> QED
    BY <2>2, <2>3, <2>4 DEF Orderly, Alone
<1> QED
  BY <1>1, <1>2, <1>3, <1>4, <1>5 DEF App

\* The head of the queue leaves it: what holds of the lines holds of the rest.
LEMMA DropLine ==
    ASSUME TypeOK, rx # <<>>, rx' = Tail(rx), response' = response,
           NEW t \in Thread, fate'[t] = fate[t], Consistent(t)
    PROVE  /\ Consistent(t)'
           /\ Head(rx) = response => fate[t] = "good"
           /\ Head(rx) = "ERROR" => fate[t] = "bad"
           /\ (\E i \in 1..Len(rx) : Recognised(rx[i])) /\ ~Recognised(Head(rx))
                  => (\E i \in 1..Len(rx) : Recognised(rx[i]))'
<1>1. /\ Len(rx) \in Nat /\ Len(rx) > 0 /\ Head(rx) = rx[1]
      /\ Len(rx') = Len(rx) - 1
      /\ \A i \in 1..Len(rx') : rx'[i] = rx[i + 1]
  <2>1. rx \in Seq(Line)
    BY DEF TypeOK
  <2> QED
    BY <2>1, TailType
<1>2. Consistent(t)'
  BY <1>1 DEF Consistent
<1>3. /\ Head(rx) = response => fate[t] = "good"
      /\ Head(rx) = "ERROR" => fate[t] = "bad"
  BY <1>1 DEF Consistent
<1>4. ASSUME NEW i \in 1..Len(rx), Recognised(rx[i]), ~Recognised(Head(rx))
      PROVE  (\E j \in 1..Len(rx) : Recognised(rx[j]))'
  <2>1. i # 1
    BY <1>1, <1>4
  <2>2. i - 1 \in 1..Len(rx') /\ rx'[i - 1] = rx[i]
    BY <1>1, <2>1
  <2> QED
    BY <1>4, <2>2 DEF Recognised
<1> QED
  BY <1>2, <1>3, <1>4

\* A step of read_thread.
LEMMA ReadOrderly ==
    ASSUME TypeOK, NEW t \in Thread, Orderly(t), ReadThread
    PROVE  Orderly(t)'
<1> USE NamesAssumption DEF progVars, lineVars, ghosts
<1> SUFFICES ASSUME clean'[t], pc'[t] \notin {"idle", "payload"}
             PROVE  Orderly(t)'
  BY DEF Orderly
<1>1. CASE ParseLine
  <2>1. /\ mtx = "free" /\ rd = "read" /\ rx # <<>> /\ rx' = Tail(rx)
        /\ UNCHANGED <<mtx, response, kind, boot, rd, partial, toEsp, esp, ghosts>>
    BY <1>1 DEF ParseLine
  <2>2. \/ pc' = pc
        \/ \E u \in Thread : pc[u] = "wait" /\ pc' = [pc EXCEPT ![u] = "woken"]
    BY <1>1 DEF ParseLine
  <2>3. \A u \in Thread : /\ pc[u] \notin {"start", "sent"}
                          /\ pc[u] # "wait" => pc'[u] = pc[u]
    <3>1. /\ \A u \in Thread : mtx = u <=> pc[u] \in {"start", "sent"}
          /\ pc \in [Thread -> {"idle", "start", "sent", "wait", "woken", "payload"}]
      BY DEF TypeOK
    <3>2. ASSUME NEW u \in Thread
          PROVE  pc[u] \notin {"start", "sent"}
      BY <2>1, <3>1
    <3>3. ASSUME NEW u \in Thread, pc[u] # "wait"
          PROVE  pc'[u] = pc[u]
      BY <2>2, <3>1, <3>3
    <3> QED
      BY <3>2, <3>3
  <2>4. pc[t] \in {"wait", "woken"} /\ clean[t]
    <3>1. pc[t] \in {"idle", "start", "sent", "wait", "woken", "payload"}
      BY DEF TypeOK
    <3>2. clean[t]
      BY <2>1
    <3> QED
      BY <2>3, <3>1, <3>2
  <2>5. Alone(t) /\ Consistent(t)
    BY <2>4 DEF Orderly
  <2>6. Alone(t)'
    BY <2>1, <2>3, <2>5 DEF Alone
  <2>7. /\ Consistent(t)'
        /\ Head(rx) = response => fate[t] = "good"
        /\ Head(rx) = "ERROR" => fate[t] = "bad"
        /\ (\E i \in 1..Len(rx) : Recognised(rx[i])) /\ ~Recognised(Head(rx))
               => (\E i \in 1..Len(rx) : Recognised(rx[i]))'
    BY <2>1, <2>5, DropLine
  <2>8. CASE pc[t] = "woken"
    <3>1. Woken(t) /\ \A u \in Thread : pc[u] # "wait"
      BY <2>4, <2>5, <2>8 DEF Orderly, Alone
    <3>2. pc' = pc
      BY <2>2, <3>1
    <3>3. result' = IF Recognised(Head(rx)) THEN ResultOf(Head(rx)) ELSE result
      BY <1>1 DEF ParseLine
    <3>4. Woken(t)'
      BY <2>1, <2>7, <3>1, <3>3 DEF Woken, Recognised, ResultOf
    <3> QED
      BY <2>6, <2>7, <2>8, <3>2, <3>4 DEF Orderly
  <2>9. CASE pc[t] = "wait" /\ Recognised(Head(rx))
    <3>1. \A u \in Thread : pc[u] = "wait" <=> u = t
      BY <2>5, <2>9 DEF Alone
    <3>2. pc' = [pc EXCEPT ![t] = "woken"] /\ result' = ResultOf(Head(rx))
      BY <1>1, <2>9, <3>1 DEF ParseLine
    <3>3. pc'[t] = "woken"
      BY <3>2 DEF TypeOK
    <3>4. fate[t] # "pending"
      BY <2>7, <2>9 DEF Recognised
    <3>5. toEsp = <<>>
      BY <2>4, <2>9, <3>4 DEF Orderly, Pending, Answered
    <3>6. Woken(t)'
      BY <2>1, <2>7, <2>9, <3>2, <3>5 DEF Woken, Recognised, ResultOf
    <3> QED
      BY <2>6, <2>7, <3>3, <3>6 DEF Orderly
  <2>10. CASE pc[t] = "wait" /\ ~Recognised(Head(rx))
    <3>1. pc' = pc
      BY <1>1, <2>10 DEF ParseLine
    <3>2. Pending(t) => Pending(t)'
      BY <2>1 DEF Pending, ModeFor
    <3>3. Answered(t) => Answered(t)'
      BY <2>1, <2>7, <2>10 DEF Answered
    <3> QED
      BY <2>4, <2>6, <2>7, <2>10, <3>1, <3>2, <3>3 DEF Orderly
  <2> QED
    BY <2>4, <2>8, <2>9, <2>10
<1>2. CASE OtherLine
  <2>1. /\ rd = "read" /\ rx # <<>> /\ Head(rx) = "CLOSED" /\ rx' = Tail(rx)
        /\ UNCHANGED <<progVars, rd, partial, toEsp, esp, ghosts>>
    BY <1>2 DEF OtherLine
  <2>2. clean[t] /\ pc[t] \notin {"idle", "payload"} /\ Alone(t)
    BY <2>1 DEF Orderly
  <2>3. Alone(t)'
    BY <2>1, <2>2 DEF Alone
  <2>4. NoAnswers => NoAnswers'
    <3>1. rx \in Seq(Line)
      BY DEF TypeOK
    <3> QED
      BY <2>1, <3>1, TailType DEF NoAnswers
  <2>5. Unsent(t) => Unsent(t)'
    BY <2>1, <2>4 DEF Unsent, ModeFor
  <2>6. Pending(t) => Pending(t)'
    BY <2>1 DEF Pending, ModeFor
  <2>7. ~Recognised(Head(rx))
    BY <2>1 DEF Recognised, TypeOK
  <2>8. Consistent(t) => Consistent(t)' /\ (Answered(t) => Answered(t)')
    BY <2>1, <2>7, DropLine DEF Answered
  <2>9. Woken(t) => Woken(t)'
    BY <2>1 DEF Woken
  <2> QED
    BY <2>1, <2>2, <2>3, <2>5, <2>6, <2>8, <2>9 DEF Orderly
<1>3. CASE AcceptStart
  <2>1. clean' = [u \in Thread |-> clean[u] /\ pc[u] \in {"idle", "payload"}]
    BY <1>3 DEF AcceptStart
  <2>2. pc[t] \in {"idle", "payload"}
    BY <2>1, Zenon
  <2> QED
    BY <1>3, <2>2 DEF AcceptStart
<1>4. CASE AcceptLine
  BY <1>4 DEF AcceptLine, Orderly, Alone
<1> QED
  BY <1>1, <1>2, <1>3, <1>4 DEF ReadThread

\* Whatever the ESP8266 answers next answers the command that is waiting.
LEMMA EspPending ==
    ASSUME TypeOK, NEW t \in Thread, Orderly(t), Esp,
           clean[t], pc[t] \notin {"idle", "payload"}
    PROVE  pc[t] = "wait" /\ Alone(t) /\ Consistent(t) /\ Pending(t)
<1>1. toEsp # <<>>
  BY DEF Esp, EspCommand, EspPayload
<1>2. pc[t] \in {"start", "sent", "wait", "woken"}
  BY DEF TypeOK
<1>3. pc[t] = "wait"
  BY <1>1, <1>2 DEF Orderly, Unsent, Woken
<1> QED
  BY <1>1, <1>3 DEF Orderly, Answered

LEMMA EspOrderly ==
    ASSUME TypeOK, NEW t \in Thread, Orderly(t), Esp
    PROVE  Orderly(t)'
<1> USE NamesAssumption DEF progVars
<1> SUFFICES ASSUME clean'[t], pc'[t] \notin {"idle", "payload"}
             PROVE  Orderly(t)'
  BY DEF Orderly
<1>1. /\ toEsp' = Tail(toEsp)
      /\ UNCHANGED <<progVars, rd, partial, clean>>
  BY DEF Esp, EspCommand, EspPayload
<1>2. pc[t] = "wait" /\ Alone(t) /\ Consistent(t) /\ Pending(t)
  BY <1>1, EspPending
<1>3. Alone(t)'
  BY <1>1, <1>2 DEF Alone
<1>4. toEsp' = <<>> /\ Head(toEsp) = [req |-> kind[t], own |-> t]
  BY <1>1, <1>2 DEF Pending
<1>5. \A i \in 1..Len(rx) : rx[i] # response /\ rx[i] # "ERROR"
  BY <1>2 DEF Consistent, Pending
<1>6. rx \in Seq(Line) /\ fate \in [Thread -> {"pending", "good", "bad", "mute"}]
      /\ kind[t] \in Kind
  BY DEF TypeOK
<1>7. PICK ans \in Seq(Line) :
          /\ rx' = rx \o ans
          /\ fate'[t] \in {"good", "bad", "mute"}
          /\ \A i \in 1..Len(ans) : /\ ans[i] = response => fate'[t] = "good"
                                    /\ ans[i] = "ERROR" => fate'[t] = "bad"
          /\ fate'[t] # "mute" =>
                 \E i \in 1..Len(ans) : ans[i] = response \/ ans[i] = "ERROR"
  <2>1. response = Resp(kind[t]) /\ Waiting(t)
    BY <1>2 DEF Alone, Waiting
  <2>2. CASE EspCommand
    <3>1. kind[t] \in Kind \ {"data"}
      BY <2>2, <1>2, <1>6 DEF EspCommand, Pending, ModeFor
    <3>2. PICK ans \in Answers(kind[t]) :
              rx' = rx \o ans /\ fate' = Note(t, FateOf(ans))
      BY <2>2, <1>4 DEF EspCommand
    <3>3. fate'[t] = FateOf(ans)
      BY <3>2, <2>1 DEF Note
    <3>4. ans \in Seq(Line) /\ FateOf(ans) \in {"good", "bad", "mute"}
      BY <3>1, AnswersType
    <3> QED
      BY <3>1, <3>2, <3>3, <3>4, <2>1, AnswerFits
  <2>3. CASE EspPayload
    <3>1. kind[t] = "data" /\ esp = t
      BY <2>3, <1>2 DEF EspPayload, Pending, ModeFor
    <3>2. Head(toEsp).req = "data" /\ Head(toEsp).own = esp
      BY <1>4, <3>1
    <3>3. rx' = rx \o <<"SEND OK">> /\ fate' = Note(Head(toEsp).own, "good")
      BY <2>3, <3>2 DEF EspPayload
    <3>4. fate'[t] = "good"
      BY <3>1, <3>2, <3>3, <2>1, <1>6 DEF Note
    <3>5. response = "SEND OK"
      BY <3>1, <2>1 DEF Resp
    <3> QED
      BY <3>3, <3>4, <3>5, SendOkFits
  <2> QED
    BY <2>2, <2>3 DEF Esp
<1>8. response' = response /\ response # "ERROR"
  BY <1>1 DEF TypeOK
<1>9. /\ \A i \in 1..Len(rx') : /\ rx'[i] = response => fate'[t] = "good"
                                /\ rx'[i] = "ERROR" => fate'[t] = "bad"
      /\ (\E i \in 1..Len(ans) : ans[i] = response \/ ans[i] = "ERROR")
             => \E i \in 1..Len(rx') : rx'[i] = response \/ rx'[i] = "ERROR"
  <2>1. rx' = rx \o ans /\ rx \in Seq(Line) /\ ans \in Seq(Line)
    BY <1>6, <1>7
  <2>2. ASSUME NEW i \in 1..Len(rx')
        PROVE  /\ rx'[i] = response => fate'[t] = "good"
               /\ rx'[i] = "ERROR" => fate'[t] = "bad"
    <3>1. \/ \E j \in 1..Len(rx) : rx'[i] = rx[j]
          \/ \E j \in 1..Len(ans) : rx'[i] = ans[j]
      BY <2>1, ConcatFrom
    <3> QED
      BY <1>5, <1>7, <3>1
  <2>3. ASSUME NEW j \in 1..Len(ans), ans[j] = response \/ ans[j] = "ERROR"
        PROVE  \E i \in 1..Len(rx') : rx'[i] = response \/ rx'[i] = "ERROR"
    <3>1. Len(rx) + j \in 1..Len(rx') /\ rx'[Len(rx) + j] = ans[j]
      BY <2>1, ConcatTo
    <3> QED
      BY <2>3, <3>1
  <2> QED
    BY <2>2, <2>3
<1>10. Consistent(t)'
  BY <1>8, <1>9 DEF Consistent
<1>11. Answered(t)'
  BY <1>4, <1>7, <1>8, <1>9 DEF Answered, Recognised
<1> QED
  BY <1>1, <1>2, <1>3, <1>10, <1>11 DEF Orderly

LEMMA UnsolicitedOrderly ==
    ASSUME TypeOK, NEW t \in Thread, Orderly(t), Unsolicited
    PROVE  Orderly(t)'
<1>1. PICK l \in {"CLOSED", "CONNECT"} : rx' = Append(rx, l)
  BY DEF Unsolicited
<1>2. UNCHANGED <<mtx, result, response, pc, kind, boot, rd, partial, toEsp, esp,
                  fate, clean>>
  BY DEF Unsolicited, progVars, ghosts
<1>3. rx \in Seq(Line) /\ l \in Line /\ response \notin {"CLOSED", "CONNECT"}
  BY DEF TypeOK, Line
<1>4. /\ Len(rx) \in Nat /\ Len(rx') = Len(rx) + 1
      /\ \A i \in 1..Len(rx) : rx'[i] = rx[i]
      /\ rx'[Len(rx) + 1] = l
  BY <1>1, <1>3, AppendProperties, LenProperties
<1>5. Alone(t) => Alone(t)'
  BY <1>2 DEF Alone
<1>6. Unsent(t) => Unsent(t)'
  BY <1>2, <1>4 DEF Unsent, NoAnswers, ModeFor
<1>7. Consistent(t) => Consistent(t)'
  BY <1>2, <1>3, <1>4 DEF Consistent
<1>8. Pending(t) => Pending(t)'
  BY <1>2 DEF Pending, ModeFor
<1>9. Answered(t) => Answered(t)'
  BY <1>2, <1>4 DEF Answered, Recognised
<1>10. Woken(t) => Woken(t)'
  BY <1>2 DEF Woken
<1> QED
  BY <1>2, <1>5, <1>6, <1>7, <1>8, <1>9, <1>10 DEF Orderly

LEMMA StutterOrderly ==
    ASSUME NEW t \in Thread, Orderly(t), UNCHANGED vars
    PROVE  Orderly(t)'
  BY DEF vars, Orderly, Alone, Unsent, NoAnswers, ModeFor, Consistent, Pending,
         Answered, Recognised, Woken

LEMMA StepInd == IndInv /\ [Next]_vars => IndInv'
<1> SUFFICES ASSUME IndInv, [Next]_vars
             PROVE  IndInv'
  OBVIOUS
<1>1. TypeOK'
  BY TypeStep DEF IndInv
<1>2. ASSUME NEW t \in Thread
      PROVE  Orderly(t)'
  <2>1. TypeOK /\ Orderly(t)
    BY DEF IndInv
  <2>2. ASSUME NEW u \in Thread, App(u)
        PROVE  Orderly(t)'
    BY <2>1, <2>2, AppOrderly
  <2>3. CASE ReadThread
    BY <2>1, <2>3, ReadOrderly
  <2>4. CASE Esp
    BY <2>1, <2>4, EspOrderly
  <2>5. CASE Unsolicited
    BY <2>1, <2>5, UnsolicitedOrderly
  <2>6. CASE UNCHANGED vars
    BY <2>1, <2>6, StutterOrderly
  <2> QED
    BY <2>2, <2>3, <2>4, <2>5, <2>6 DEF Next
<1> QED
  BY <1>1, <1>2 DEF IndInv

(***************************************************************************)
(* The inductive invariant: a command that nothing interferes with is      *)
(* alone, and its request, answer and result are in one place and agree.   *)
(***************************************************************************)
THEOREM CommandsOrderly == Spec => []IndInv
  BY InitInd, StepInd, PTL DEF Spec

(***************************************************************************)
(* Without a predicate loop around pthread_cond_wait and with one result   *)
(* for all threads, a command that nothing interferes with still returns   *)
(* what the ESP8266 did with it (serial.c:111-122, 168-198).               *)
(***************************************************************************)
THEOREM ReturnsOwnResult == Spec => OwnResult
<1>1. IndInv => [\A t \in Thread :
                     CmdReturn(t) /\ clean[t] =>
                         \/ result = RES_OK /\ fate[t] = "good"
                         \/ result = RES_ERR /\ fate[t] = "bad"]_vars
  <2> SUFFICES ASSUME IndInv, NEW t \in Thread, CmdReturn(t), clean[t]
               PROVE  \/ result = RES_OK /\ fate[t] = "good"
                      \/ result = RES_ERR /\ fate[t] = "bad"
    OBVIOUS
  <2>1. pc[t] = "woken" /\ Orderly(t)
    BY DEF CmdReturn, IndInv
  <2> QED
    BY <2>1 DEF Orderly, Woken
<1> QED
  BY <1>1, CommandsOrderly, PTL DEF OwnResult

(***************************************************************************)
(* No lost wakeup: a thread that nothing interferes with does not wait     *)
(* when neither its request nor an answer is on the line any more, unless  *)
(* the answer was one that parse_line does not know (serial.c:168-198).    *)
(***************************************************************************)
THEOREM NoAnswerLost == Spec => []NoLostAnswer
<1>1. IndInv => NoLostAnswer
  <2> SUFFICES ASSUME IndInv, NEW t \in Thread,
                      pc[t] = "wait", clean[t], fate[t] # "mute"
               PROVE  toEsp # <<>> \/ rx # <<>>
    BY DEF NoLostAnswer
  <2>1. Pending(t) \/ Answered(t)
    BY DEF IndInv, Orderly
  <2>2. CASE Pending(t)
    BY <2>2 DEF Pending
  <2>3. CASE Answered(t)
    <3>1. 1..Len(rx) # {}
      BY <2>3 DEF Answered
    <3> QED
      BY <3>1
  <2> QED
    BY <2>1, <2>2, <2>3
<1> QED
  BY <1>1, CommandsOrderly, PTL

-----------------------------------------------------------------------------
(* As a client.  The lines that read_thread has not read, CLOSED aside: none, *)
(* one or two.                                                             *)

Silent(s) == \A i \in 1..Len(s) : s[i] = "CLOSED"

Says(s, a) ==
    \E i \in 1..Len(s) : s[i] = a /\ \A k \in 1..Len(s) : k = i \/ s[k] = "CLOSED"

SaysTwo(s, a, b) ==
    \E i, j \in 1..Len(s) :
        /\ i < j /\ s[i] = a /\ s[j] = b
        /\ \A k \in 1..Len(s) : k \in {i, j} \/ s[k] = "CLOSED"

Status == [req |-> "status", own |-> "read_thread"]

\* No request, answer or accept is under way.
Quiescent == toEsp = <<>> /\ rd = "read" /\ Silent(rx)

\* After a successful CIPSTART: the OK is still behind the CONNECT, or accept
\* runs, or it has swallowed that OK and the one of CIPSTATUS is to come.
Connecting ==
    \/ toEsp = <<>> /\ rd = "read" /\ SaysTwo(rx, "CONNECT", "OK")
    \/ toEsp = <<Status>> /\ rd = "accept" /\ Says(rx, "OK")
    \/ toEsp = <<>> /\ rd = "accept" /\ SaysTwo(rx, "OK", "OK")
    \/ toEsp = <<Status>> /\ rd = "read" /\ Silent(rx)

\* What ends the wait: the request, or one answer that agrees with its fate.
OnTheWay ==
    \/ /\ fate[Main] = "pending" /\ rd = "read" /\ Silent(rx)
       /\ toEsp = <<[req |-> kind[Main], own |-> Main]>>
    \/ fate[Main] = "bad" /\ rd = "read" /\ toEsp = <<>> /\ Says(rx, "ERROR")
    \/ fate[Main] = "good" /\ rd = "read" /\ toEsp = <<>> /\ Says(rx, response)
    \/ /\ fate[Main] = "good" /\ rd = "read" /\ toEsp = <<>>
       /\ kind[Main] = "reset" /\ SaysTwo(rx, "OK", "ready")
    \/ fate[Main] = "good" /\ kind[Main] = "connect" /\ Connecting

\* The ESP8266 expects a payload from the grant of a send to the payload.
Granted ==
    \/ pc[Main] = "payload"
    \/ kind[Main] = "data" /\ fate[Main] = "pending"
    \/ kind[Main] = "send" /\ fate[Main] = "good"

ClientInv ==
    /\ \A t \in Thread \ {Main} : pc[t] = "idle"
    /\ partial = IF pc[Main] = "sent" THEN [own |-> Main, intact |-> TRUE] ELSE NoLine
    /\ esp = IF Granted THEN Main ELSE "cmd"
    /\ pc[Main] \in {"idle", "payload"} => kind[Main] = "plain"
    /\ pc[Main] \notin {"idle", "payload"} => response = Resp(kind[Main])
    /\ pc[Main] \in {"idle", "payload", "start", "sent"} =>
           Quiescent /\ fate[Main] = "pending"
    /\ pc[Main] = "wait" => OnTheWay
    /\ pc[Main] = "woken" =>
           /\ Quiescent
           /\ \/ result = RES_OK /\ fate[Main] = "good"
              \/ result = RES_ERR /\ fate[Main] = "bad"

LEMMA OneMore ==
    ASSUME NEW S, NEW s \in Seq(S), NEW a \in S
    PROVE  /\ Append(s, a) \in Seq(S)
           /\ Len(s) \in Nat /\ Len(Append(s, a)) = Len(s) + 1
           /\ \A i \in 1..Len(s) : i \in 1..(Len(s) + 1) /\ Append(s, a)[i] = s[i]
           /\ Len(s) + 1 \in 1..(Len(s) + 1) /\ Append(s, a)[Len(s) + 1] = a
           /\ \A i \in 1..(Len(s) + 1) : i \in 1..Len(s) \/ i = Len(s) + 1
<1>1. /\ Append(s, a) \in Seq(S)
      /\ Len(Append(s, a)) = Len(s) + 1
      /\ \A i \in 1..Len(s) : Append(s, a)[i] = s[i]
      /\ Append(s, a)[Len(s) + 1] = a
  BY AppendProperties
<1>2. Len(s) \in Nat
  BY LenProperties
<1> QED
  BY <1>1, <1>2

\* A line comes behind those that are there.
LEMMA LineComes ==
    ASSUME NEW S, NEW s \in Seq(S), NEW a \in S
    PROVE  /\ Silent(s) => Says(Append(s, a), a)
           /\ \A b : Says(s, b) => SaysTwo(Append(s, a), b, a)
<1> DEFINE n == Len(s)
           r == Append(s, a)
<1>1. /\ n \in Nat /\ Len(r) = n + 1
      /\ \A i \in 1..n : i \in 1..(n + 1) /\ r[i] = s[i]
      /\ n + 1 \in 1..(n + 1) /\ r[n + 1] = a
      /\ \A i \in 1..(n + 1) : i \in 1..n \/ i = n + 1
  BY OneMore
<1> HIDE DEF r
<1>2. ASSUME Silent(s) PROVE Says(r, a)
  BY <1>1, <1>2 DEF Silent, Says
<1>3. ASSUME NEW b, Says(s, b) PROVE SaysTwo(r, b, a)
  <2>1. PICK i \in 1..n : s[i] = b /\ \A k \in 1..n : k = i \/ s[k] = "CLOSED"
    BY <1>3 DEF Says
  <2>2. i < n + 1
    BY <1>1
  <2> QED
    BY <1>1, <2>1, <2>2 DEF SaysTwo
<1> QED
  BY <1>2, <1>3 DEF r

LEMMA ClosedComes ==
    ASSUME NEW S, NEW s \in Seq(S), "CLOSED" \in S
    PROVE  /\ Silent(s) => Silent(Append(s, "CLOSED"))
           /\ \A b : Says(s, b) => Says(Append(s, "CLOSED"), b)
           /\ \A b, c : SaysTwo(s, b, c) => SaysTwo(Append(s, "CLOSED"), b, c)
<1> DEFINE n == Len(s)
           r == Append(s, "CLOSED")
<1>1. /\ n \in Nat /\ Len(r) = n + 1
      /\ \A i \in 1..n : i \in 1..(n + 1) /\ r[i] = s[i]
      /\ r[n + 1] = "CLOSED"
      /\ \A i \in 1..(n + 1) : i \in 1..n \/ i = n + 1
  BY OneMore
<1> HIDE DEF r
<1>2. Silent(s) => Silent(r)
  BY <1>1 DEF Silent
<1>3. ASSUME NEW b, Says(s, b) PROVE Says(r, b)
  BY <1>1, <1>3 DEF Says
<1>4. ASSUME NEW b, NEW c, SaysTwo(s, b, c) PROVE SaysTwo(r, b, c)
  <2>1. PICK i \in 1..n, j \in 1..n :
            /\ i < j /\ s[i] = b /\ s[j] = c
            /\ \A k \in 1..n : k \in {i, j} \/ s[k] = "CLOSED"
    BY <1>4 DEF SaysTwo
  <2>2. \A k \in 1..(n + 1) : k \in {i, j} \/ r[k] = "CLOSED"
    BY <1>1, <2>1
  <2>3. i \in 1..Len(r) /\ j \in 1..Len(r) /\ r[i] = b /\ r[j] = c
    BY <1>1, <2>1
  <2> QED
    BY <1>1, <2>1, <2>2, <2>3 DEF SaysTwo
<1> QED
  BY <1>2, <1>3, <1>4 DEF r

\* The first line is taken: it is the one awaited, or a CLOSED before it.
LEMMA LineTaken ==
    ASSUME NEW S, NEW s \in Seq(S), s # <<>>
    PROVE  /\ Silent(s) => Head(s) = "CLOSED" /\ Silent(Tail(s))
           /\ \A a : Says(s, a) => \/ Head(s) = a /\ Silent(Tail(s))
                                   \/ Head(s) = "CLOSED" /\ Says(Tail(s), a)
           /\ \A a, b : SaysTwo(s, a, b) =>
                  \/ Head(s) = a /\ Says(Tail(s), b)
                  \/ Head(s) = "CLOSED" /\ SaysTwo(Tail(s), a, b)
<1> DEFINE n == Len(s)
           r == Tail(s)
<1>1. /\ n \in Nat /\ n > 0 /\ Len(r) = n - 1 /\ Head(s) = s[1]
      /\ \A i \in 1..(n - 1) : r[i] = s[i + 1]
  BY TailType
<1> HIDE DEF r
<1>2. /\ 1 \in 1..n
      /\ \A i \in 1..(n - 1) : i + 1 \in 1..n /\ i + 1 # 1
      /\ \A i \in 1..n : i # 1 => i - 1 \in 1..(n - 1) /\ r[i - 1] = s[i]
  <2>1. 1 \in 1..n /\ \A i \in 1..(n - 1) : i + 1 \in 1..n /\ i + 1 # 1
    BY <1>1
  <2>2. \A i \in 1..n : i # 1 => i - 1 \in 1..(n - 1) /\ (i - 1) + 1 = i
    BY <1>1
  <2> QED
    BY <1>1, <2>1, <2>2
<1>3. ASSUME Silent(s) PROVE Head(s) = "CLOSED" /\ Silent(r)
  BY <1>1, <1>2, <1>3 DEF Silent
<1>4. ASSUME NEW a, Says(s, a)
      PROVE  \/ Head(s) = a /\ Silent(r)
             \/ Head(s) = "CLOSED" /\ Says(r, a)
  <2>1. PICK i \in 1..n : s[i] = a /\ \A k \in 1..n : k = i \/ s[k] = "CLOSED"
    BY <1>4 DEF Says
  <2>2. CASE i = 1
    BY <1>1, <1>2, <2>1, <2>2 DEF Silent
  <2>3. CASE i # 1
    <3>1. \A k \in 1..(n - 1) : k = i - 1 \/ r[k] = "CLOSED"
      <4> TAKE k \in 1..(n - 1)
      <4>1. k + 1 = i \/ s[k + 1] = "CLOSED"
        BY <1>2, <2>1
      <4> QED
        BY <4>1, <1>1
    <3>2. i - 1 \in 1..Len(r) /\ r[i - 1] = a
      BY <1>1, <1>2, <2>1, <2>3
    <3>3. Head(s) = "CLOSED"
      BY <1>1, <1>2, <2>1, <2>3
    <3> QED
      BY <1>1, <3>1, <3>2, <3>3 DEF Says
  <2> QED
    BY <2>2, <2>3
<1>5. ASSUME NEW a, NEW b, SaysTwo(s, a, b)
      PROVE  \/ Head(s) = a /\ Says(r, b)
             \/ Head(s) = "CLOSED" /\ SaysTwo(r, a, b)
  <2>1. PICK i \in 1..n, j \in 1..n :
            /\ i < j /\ s[i] = a /\ s[j] = b
            /\ \A k \in 1..n : k \in {i, j} \/ s[k] = "CLOSED"
    BY <1>5 DEF SaysTwo
  <2>2. j # 1 /\ j - 1 \in 1..Len(r) /\ r[j - 1] = b
    BY <1>1, <1>2, <2>1
  <2>3. \A k \in 1..(n - 1) : k \in {i - 1, j - 1} \/ r[k] = "CLOSED"
    <3> TAKE k \in 1..(n - 1)
    <3>1. k + 1 \in {i, j} \/ s[k + 1] = "CLOSED"
      BY <1>2, <2>1
    <3> QED
      BY <3>1, <1>1
  <2>4. CASE i = 1
    <3>1. \A k \in 1..(n - 1) : k # i - 1
      BY <2>4
    <3> QED
      BY <1>1, <2>1, <2>2, <2>3, <2>4, <3>1 DEF Says
  <2>5. CASE i # 1
    <3>1. i - 1 \in 1..Len(r) /\ r[i - 1] = a /\ i - 1 < j - 1
      BY <1>1, <1>2, <2>1, <2>5
    <3>2. Head(s) = "CLOSED"
      BY <1>1, <1>2, <2>1, <2>2, <2>5
    <3> QED
      BY <1>1, <2>2, <2>3, <3>1, <3>2 DEF SaysTwo
  <2> QED
    BY <2>4, <2>5
<1> QED
  BY <1>3, <1>4, <1>5 DEF r

LEMMA ConcatOne ==
    ASSUME NEW S, NEW s \in Seq(S), NEW a \in S
    PROVE  s \o <<a>> = Append(s, a)
OBVIOUS

LEMMA ConcatTwo ==
    ASSUME NEW S, NEW s \in Seq(S), NEW a \in S, NEW b \in S
    PROVE  s \o <<a, b>> = Append(Append(s, a), b)
OBVIOUS

------------------------------------------------------------------------------
(* The steps as a client *)

LEMMA ClientTypes ==
    ASSUME TypeOK
    PROVE  /\ Main \in Thread /\ Main # "cmd" /\ Main # "free" /\ Main # "none"
           /\ Main # "read_thread"
           /\ pc \in [Thread -> {"idle", "start", "sent", "wait", "woken", "payload"}]
           /\ kind \in [Thread -> Kind]
           /\ fate \in [Thread -> {"pending", "good", "bad", "mute"}]
           /\ rx \in Seq(Line) /\ toEsp \in Seq(Request)
           /\ mtx = Main <=> pc[Main] \in {"start", "sent"}
BY MainAssumption, NamesAssumption, Zenon DEF TypeOK

LEMMA RespWords ==
    ASSUME NEW k \in Kind
    PROVE  /\ Resp(k) # "ERROR" /\ Resp(k) # "CLOSED" /\ Resp(k) # "CONNECT"
           /\ k = "reset" => Resp(k) = "ready"
           /\ k \in {"plain", "connect", "send"} => Resp(k) = "OK"
BY Zenon DEF Resp, Kind

LEMMA Words == {"OK", "ERROR", "ready", "CONNECT", "CLOSED", "FAIL"} \subseteq Line
BY Zenon DEF Line

\* Only Main is ever in a command.
LEMMA OnlyMain ==
    ASSUME TypeOK, ClientInv, Benign, NEW t \in Thread, App(t)
    PROVE  t = Main /\ ~SpuriousWakeup(t)
<1> SUFFICES ASSUME t # Main PROVE FALSE
  BY DEF Benign
<1>1. pc[t] = "idle" /\ pc'[t] = "idle"
  BY DEF ClientInv, Benign
<1>2. CmdStart(t)
  BY <1>1 DEF App, CmdSend, CmdWait, SpuriousWakeup, CmdReturn
<1> QED
  BY <1>1, <1>2, ClientTypes DEF CmdStart, CmdStartUnlocked

LEMMA ClientApp ==
    ASSUME TypeOK, ClientInv, Benign, App(Main)
    PROVE  ClientInv'
<1> USE ClientTypes
<1>1. \A t \in Thread \ {Main} : pc'[t] = "idle"
  BY DEF Benign
<1>2. CASE CmdStart(Main)
  <2>1. PICK k \in Kind :
            /\ pc[Main] = "idle" \/ (pc[Main] = "payload" /\ k = "data")
            /\ pc[Main] = "idle" => k \in MayStart(Main)
            /\ response' = Resp(k)
            /\ pc' = [pc EXCEPT ![Main] = "start"]
            /\ kind' = [kind EXCEPT ![Main] = k]
            /\ fate' = [fate EXCEPT ![Main] = "pending"]
            /\ UNCHANGED <<boot, lineVars>>
    BY <1>2, Zenon DEF CmdStart, CmdStartUnlocked
  <2>2. pc'[Main] = "start" /\ kind'[Main] = k /\ fate'[Main] = "pending"
    BY <2>1
  <2>3. pc[Main] = "idle" => k # "data"
    BY <2>1 DEF MayStart
  <2>4. UNCHANGED <<rd, partial, toEsp, rx, esp>>
    BY <2>1 DEF lineVars
  <2>5. Granted' <=> k = "data"
    BY <2>2 DEF Granted
  <2>6. Granted <=> pc[Main] = "payload"
    BY <2>1 DEF Granted, ClientInv
  <2>7. Granted' <=> Granted
    BY <2>1, <2>3, <2>5, <2>6
  <2>8. Quiescent'
    BY <2>1, <2>4 DEF ClientInv, Quiescent
  <2> QED
    BY <1>1, <2>1, <2>2, <2>4, <2>7, <2>8 DEF ClientInv
<1>3. CASE CmdSend(Main)
  <2>1. /\ pc[Main] = "start" /\ pc'[Main] = "sent"
        /\ partial' = [own |-> Main, intact |-> TRUE]
        /\ UNCHANGED <<response, kind, rd, toEsp, rx, esp, fate>>
    BY <1>3 DEF CmdSend, ghosts
  <2>2. Granted' <=> Granted
    BY <2>1 DEF Granted
  <2>3. Quiescent'
    BY <2>1 DEF ClientInv, Quiescent
  <2> QED
    BY <1>1, <2>1, <2>2, <2>3 DEF ClientInv
<1>4. CASE CmdWait(Main)
  <2>1. /\ pc[Main] = "sent" /\ pc'[Main] = "wait"
        /\ partial = [own |-> Main, intact |-> TRUE] /\ partial' = NoLine
        /\ toEsp' = Append(toEsp, [req |-> IF partial.intact THEN kind[Main] ELSE "junk",
                                   own |-> Main])
        /\ UNCHANGED <<response, kind, rd, rx, esp, fate>>
    BY <1>4 DEF CmdWait, ghosts, ClientInv
  <2>2. Granted' <=> Granted
    BY <2>1 DEF Granted
  <2>3. Quiescent /\ fate[Main] = "pending"
    BY <2>1 DEF ClientInv
  <2>4. toEsp' = <<[req |-> kind[Main], own |-> Main]>>
    BY <2>1, <2>3, AppendEmpty DEF Quiescent
  <2>5. OnTheWay'
    BY <2>1, <2>3, <2>4 DEF OnTheWay, Quiescent
  <2> QED
    BY <1>1, <2>1, <2>2, <2>5 DEF ClientInv
<1>5. CASE CmdReturn(Main)
  <2>1. /\ pc[Main] = "woken"
        /\ pc'[Main] = IF kind[Main] = "send" /\ result = RES_OK THEN "payload" ELSE "idle"
        /\ kind'[Main] = "plain" /\ fate'[Main] = "pending"
        /\ UNCHANGED <<rd, partial, toEsp, rx, esp>>
    BY <1>5 DEF CmdReturn, lineVars
  <2>2. Granted <=> kind[Main] = "send" /\ fate[Main] = "good"
    BY <2>1 DEF Granted, ClientInv
  <2>3. fate[Main] = "good" <=> result = RES_OK
    BY <2>1 DEF ClientInv, RES_OK, RES_ERR
  <2>4. Granted' <=> pc'[Main] = "payload"
    BY <2>1 DEF Granted
  <2>5. Granted' <=> Granted
    BY <2>1, <2>2, <2>3, <2>4
  <2>6. Quiescent'
    BY <2>1 DEF ClientInv, Quiescent
  <2> QED
    BY <1>1, <2>1, <2>5, <2>6 DEF ClientInv
<1> QED
  BY <1>2, <1>3, <1>4, <1>5, OnlyMain DEF App

LEMMA ClientRead ==
    ASSUME TypeOK, ClientInv, Benign, ReadThread
    PROVE  ClientInv'
<1> USE ClientTypes
<1> DEFINE m == Main
<1>0. /\ rx # <<>> /\ rx' = Tail(rx)
      /\ UNCHANGED <<response, kind, esp, fate>>
      /\ \A t \in Thread \ {Main} : pc'[t] = "idle"
  BY DEF ReadThread, ParseLine, OtherLine, AcceptStart, AcceptLine, progVars, ghosts, Benign
<1>1. /\ Silent(rx) => Head(rx) = "CLOSED" /\ Silent(rx')
      /\ \A a : Says(rx, a) => \/ Head(rx) = a /\ Silent(rx')
                               \/ Head(rx) = "CLOSED" /\ Says(rx', a)
      /\ \A a, b : SaysTwo(rx, a, b) => \/ Head(rx) = a /\ Says(rx', b)
                                        \/ Head(rx) = "CLOSED" /\ SaysTwo(rx', a, b)
  BY <1>0, LineTaken
<1>2. pc[Main] # "wait" => Quiescent /\ Head(rx) = "CLOSED" /\ Silent(rx')
  BY <1>1 DEF ClientInv, Quiescent
<1>3. CASE OtherLine
  <2>1. UNCHANGED <<pc, result, rd, partial, toEsp>> /\ Head(rx) = "CLOSED" /\ rd = "read"
    BY <1>3 DEF OtherLine, progVars
  <2>2. Granted' <=> Granted
    BY <1>0, <2>1 DEF Granted
  <2>3. pc[Main] # "wait" => Quiescent'
    BY <1>2, <2>1 DEF Quiescent
  <2>4. ASSUME pc[Main] = "wait" PROVE OnTheWay'
    <3>1. OnTheWay /\ response # "CLOSED"
      BY <2>4, RespWords DEF ClientInv
    <3>2. Silent(rx) => Silent(rx')
      BY <1>1
    <3>3. Says(rx, "ERROR") => Says(rx', "ERROR")
      BY <1>1, <2>1
    <3>4. Says(rx, response) => Says(rx', response)
      BY <1>1, <2>1, <3>1
    <3>5. SaysTwo(rx, "OK", "ready") => SaysTwo(rx', "OK", "ready")
      BY <1>1, <2>1
    <3>6. SaysTwo(rx, "CONNECT", "OK") => SaysTwo(rx', "CONNECT", "OK")
      BY <1>1, <2>1
    <3>7. Connecting => Connecting'
      BY <2>1, <3>2, <3>6 DEF Connecting
    <3> QED
      BY <1>0, <2>1, <3>1, <3>2, <3>3, <3>4, <3>5, <3>7 DEF OnTheWay
  <2> QED
    BY <1>0, <2>1, <2>2, <2>3, <2>4 DEF ClientInv
<1>4. CASE ParseLine
  <2>1. /\ rd = "read" /\ Head(rx) \notin {"CONNECT", "CLOSED"}
        /\ UNCHANGED <<rd, partial, toEsp>>
    BY <1>4 DEF ParseLine
  <2>2. pc[Main] = "wait" /\ OnTheWay /\ response = Resp(kind[Main])
    BY <1>2, <2>1 DEF ClientInv
  <2>3. /\ Recognised(Head(rx)) => pc' = [pc EXCEPT ![Main] = "woken"]
        /\ Recognised(Head(rx)) => result' = ResultOf(Head(rx))
        /\ ~Recognised(Head(rx)) => UNCHANGED <<pc, result>>
    <3>1. \A t \in Thread : pc[t] = "wait" => t = Main
      BY DEF ClientInv
    <3> QED
      BY <1>4, <2>2, <3>1 DEF ParseLine
  <2>4. CASE fate[Main] = "bad" /\ toEsp = <<>> /\ Says(rx, "ERROR")
    <3>1. Head(rx) = "ERROR" /\ Silent(rx') /\ response # "ERROR"
      BY <1>1, <2>1, <2>2, <2>4, RespWords
    <3>2. pc'[Main] = "woken" /\ result' = RES_ERR
      BY <2>3, <3>1 DEF Recognised, ResultOf
    <3>3. Granted' <=> Granted
      BY <1>0, <2>2, <3>2 DEF Granted
    <3>4. Quiescent'
      BY <2>1, <2>4, <3>1 DEF Quiescent
    <3> QED
      BY <1>0, <2>1, <2>2, <2>4, <3>2, <3>3, <3>4 DEF ClientInv
  <2>5. CASE fate[Main] = "good" /\ toEsp = <<>> /\ Says(rx, response)
    <3>1. Head(rx) = response /\ Silent(rx')
      BY <1>1, <2>1, <2>5
    <3>2. pc'[Main] = "woken" /\ result' = RES_OK
      BY <2>3, <3>1 DEF Recognised, ResultOf
    <3>3. Granted' <=> Granted
      BY <1>0, <2>2, <3>2 DEF Granted
    <3>4. Quiescent'
      BY <2>1, <2>5, <3>1 DEF Quiescent
    <3> QED
      BY <1>0, <2>1, <2>2, <2>5, <3>2, <3>3, <3>4 DEF ClientInv
  <2>6. CASE /\ fate[Main] = "good" /\ toEsp = <<>>
             /\ kind[Main] = "reset" /\ SaysTwo(rx, "OK", "ready")
    <3>1. Head(rx) = "OK" /\ Says(rx', "ready")
      BY <1>1, <2>1, <2>6
    <3>2. response = "ready"
      BY <2>2, <2>6, RespWords
    <3>3. UNCHANGED <<pc, result>>
      BY <2>3, <3>1, <3>2 DEF Recognised
    <3>4. Granted' <=> Granted
      BY <1>0, <3>3 DEF Granted
    <3>5. OnTheWay'
      BY <1>0, <2>1, <2>6, <3>1, <3>2 DEF OnTheWay
    <3> QED
      BY <1>0, <2>1, <2>2, <3>3, <3>4, <3>5 DEF ClientInv
  <2> QED
    BY <1>1, <2>1, <2>2, <2>4, <2>5, <2>6 DEF OnTheWay, Connecting
<1>5. CASE AcceptStart
  <2>1. rd = "read" /\ Head(rx) = "CONNECT" /\ rd' = "accept" /\ UNCHANGED <<pc, result>>
    BY <1>5 DEF AcceptStart, progVars
  <2>2. pc[Main] = "wait" /\ OnTheWay /\ response = Resp(kind[Main])
    BY <1>2, <2>1 DEF ClientInv
  <2>3. /\ fate[Main] = "good" /\ kind[Main] = "connect"
        /\ toEsp = <<>> /\ Says(rx', "OK")
    BY <1>1, <2>1, <2>2, RespWords DEF OnTheWay, Connecting
  <2>4. toEsp' = <<Status>> /\ UNCHANGED partial
    <3>1. partial = NoLine
      BY <2>2 DEF ClientInv
    <3>2. toEsp' = Append(toEsp, Status) /\ UNCHANGED partial
      BY <1>5, <3>1 DEF AcceptStart, NoLine, Status
    <3> QED
      BY <2>3, <3>2, AppendEmpty
  <2>5. OnTheWay'
    BY <1>0, <2>1, <2>3, <2>4 DEF OnTheWay, Connecting
  <2>6. Granted' <=> Granted
    BY <1>0, <2>1 DEF Granted
  <2> QED
    BY <1>0, <2>1, <2>2, <2>4, <2>5, <2>6 DEF ClientInv
<1>6. CASE AcceptLine
  <2>1. /\ rd = "accept" /\ UNCHANGED <<pc, result, partial, toEsp>>
        /\ rd' = IF Head(rx) \in {"OK", "ERROR"} THEN "read" ELSE "accept"
    BY <1>6 DEF AcceptLine, progVars
  <2>2. pc[Main] = "wait" /\ OnTheWay /\ response = Resp(kind[Main])
    BY <1>2, <2>1 DEF ClientInv, Quiescent
  <2>3. fate[Main] = "good" /\ kind[Main] = "connect" /\ Connecting /\ response = "OK"
    BY <2>1, <2>2, RespWords DEF OnTheWay
  <2>4. OnTheWay'
    <3>1. CASE toEsp = <<Status>> /\ Says(rx, "OK") /\ Head(rx) = "OK"
      BY <1>0, <1>1, <2>1, <2>3, <3>1 DEF OnTheWay, Connecting
    <3>2. CASE toEsp = <<Status>> /\ Says(rx, "OK") /\ Head(rx) # "OK"
      BY <1>0, <1>1, <2>1, <2>3, <3>2 DEF OnTheWay, Connecting
    <3>3. CASE toEsp = <<>> /\ SaysTwo(rx, "OK", "OK") /\ Head(rx) = "OK"
      BY <1>0, <1>1, <2>1, <2>3, <3>3 DEF OnTheWay, Connecting
    <3>4. CASE toEsp = <<>> /\ SaysTwo(rx, "OK", "OK") /\ Head(rx) # "OK"
      BY <1>0, <1>1, <2>1, <2>3, <3>4 DEF OnTheWay, Connecting
    <3> QED
      BY <2>1, <2>3, <3>1, <3>2, <3>3, <3>4 DEF Connecting
  <2>5. Granted' <=> Granted
    BY <1>0, <2>1 DEF Granted
  <2> QED
    BY <1>0, <2>1, <2>2, <2>4, <2>5 DEF ClientInv
<1> QED
  BY <1>3, <1>4, <1>5, <1>6 DEF ReadThread

\* One line, or two, come from the ESP8266.
LEMMA AnswerComes ==
    ASSUME NEW S, NEW s \in Seq(S), NEW a \in S
    PROVE  /\ s \o <<a>> \in Seq(S)
           /\ Silent(s) => Says(s \o <<a>>, a)
           /\ \A b : Says(s, b) => SaysTwo(s \o <<a>>, b, a)
           /\ \A b \in S : Silent(s) => SaysTwo(s \o <<b, a>>, b, a)
           /\ Len(s \o <<a>>) \in 1..Len(s \o <<a>>) /\ (s \o <<a>>)[Len(s \o <<a>>)] = a
<1>1. s \o <<a>> = Append(s, a)
  BY ConcatOne
<1>2. Append(s, a) \in Seq(S)
  BY OneMore
<1>3. ASSUME NEW b \in S, Silent(s) PROVE SaysTwo(s \o <<b, a>>, b, a)
  <2>1. s \o <<b, a>> = Append(Append(s, b), a)
    BY ConcatTwo
  <2>2. Append(s, b) \in Seq(S)
    BY OneMore
  <2>3. Says(Append(s, b), b)
    BY <1>3, LineComes
  <2> QED
    BY <2>1, <2>2, <2>3, LineComes
<1>4. Len(Append(s, a)) \in 1..Len(Append(s, a)) /\ Append(s, a)[Len(Append(s, a))] = a
  BY OneMore
<1>5. /\ Silent(s) => Says(Append(s, a), a)
      /\ \A b : Says(s, b) => SaysTwo(Append(s, a), b, a)
  BY LineComes
<1> QED
  BY <1>1, <1>2, <1>3, <1>4, <1>5

\* The ESP8266 has a request of Main or of accept to answer.
LEMMA ClientAsked ==
    ASSUME TypeOK, ClientInv, toEsp # <<>>
    PROVE  /\ pc[Main] = "wait" /\ response = Resp(kind[Main])
           /\ \/ /\ toEsp = <<[req |-> kind[Main], own |-> Main]>>
                 /\ fate[Main] = "pending" /\ rd = "read" /\ Silent(rx)
              \/ /\ toEsp = <<Status>> /\ fate[Main] = "good" /\ kind[Main] = "connect"
                 /\ \/ rd = "accept" /\ Says(rx, "OK")
                    \/ rd = "read" /\ Silent(rx)
<1>1. pc[Main] \in {"idle", "start", "sent", "wait", "woken", "payload"}
  BY ClientTypes
<1>2. pc[Main] = "wait" /\ OnTheWay /\ response = Resp(kind[Main])
  BY <1>1 DEF ClientInv, Quiescent
<1> QED
  BY <1>2 DEF OnTheWay, Connecting

\* The answers to a command, without FAIL.
LEMMA ClientAnswers ==
    ASSUME NEW k \in Kind \cup {"status"}, k # "data", NEW ans \in Answers(k)
    PROVE  \/ ans = <<"FAIL">>
           \/ k = "reset" /\ ans = <<"OK", "ready">> /\ FateOf(ans) = "good" /\ ans # <<"OK">>
           \/ k = "connect" /\ ans = <<"CONNECT", "OK">> /\ FateOf(ans) = "good"
           \/ k \in {"plain", "send", "status"} /\ ans = <<"OK">> /\ FateOf(ans) = "good"
           \/ ans = <<"ERROR">> /\ k \in {"plain", "send", "connect"} /\ FateOf(ans) = "bad"
                 /\ ans # <<"OK">>
<1>1. k \in {"reset", "plain", "connect", "send", "status"}
  BY Zenon DEF Kind
<1>2. ans \in {<<"FAIL">>, <<"OK", "ready">>, <<"CONNECT", "OK">>, <<"OK">>, <<"ERROR">>}
  BY <1>1 DEF Answers
<1>3. ans = <<"OK", "ready">> => k = "reset"
  BY <1>1 DEF Answers
<1>4. ans = <<"CONNECT", "OK">> => k = "connect"
  BY <1>1 DEF Answers
<1>5. ans = <<"OK">> => k \in {"plain", "send", "status"}
  BY <1>1 DEF Answers
<1>6. ans = <<"ERROR">> => k \in {"plain", "send", "connect"}
  BY <1>1 DEF Answers
<1>7. /\ FateOf(<<"OK", "ready">>) = "good" /\ FateOf(<<"CONNECT", "OK">>) = "good"
      /\ FateOf(<<"OK">>) = "good" /\ FateOf(<<"ERROR">>) = "bad"
      /\ <<"OK", "ready">> # <<"OK">> /\ <<"ERROR">> # <<"OK">>
  BY DEF FateOf
<1> QED
  BY <1>2, <1>3, <1>4, <1>5, <1>6, <1>7

LEMMA ClientCommand ==
    ASSUME TypeOK, ClientInv, Benign, EspCommand
    PROVE  ClientInv'
<1> USE ClientTypes
<1>0. /\ toEsp # <<>> /\ toEsp' = Tail(toEsp) /\ esp = "cmd"
      /\ UNCHANGED <<pc, kind, response, result, rd, partial>>
  BY DEF EspCommand, progVars
<1>1. PICK ans \in Answers(Head(toEsp).req) :
          /\ rx' = rx \o ans
          /\ fate' = Note(Head(toEsp).own, FateOf(ans))
          /\ esp' = IF Head(toEsp).req = "send" /\ ans = <<"OK">>
                    THEN Head(toEsp).own ELSE "cmd"
  BY DEF EspCommand
<1>2. pc[Main] = "wait" /\ response = Resp(kind[Main])
  BY <1>0, ClientAsked
<1>3. kind[Main] \in Kind /\ "OK" \in Line /\ "ERROR" \in Line /\ "FAIL" \in Line
      /\ "ready" \in Line /\ "CONNECT" \in Line
  BY Words
<1>4. ans # <<"FAIL">>
  <2> SUFFICES ASSUME ans = <<"FAIL">> PROVE FALSE
    OBVIOUS
  <2>1. Len(rx') \in 1..Len(rx') /\ rx'[Len(rx')] = "FAIL"
    BY <1>1, <1>3, AnswerComes
  <2> QED
    BY <2>1 DEF Benign
<1>5. CASE /\ toEsp = <<[req |-> kind[Main], own |-> Main]>>
           /\ fate[Main] = "pending" /\ rd = "read" /\ Silent(rx)
  <2>1. Head(toEsp).req = kind[Main] /\ Head(toEsp).own = Main /\ toEsp' = <<>>
    BY <1>0, <1>5
  <2>2. kind[Main] # "data"
    BY <1>0, <1>5 DEF ClientInv, Granted
  <2>3. fate'[Main] = FateOf(ans)
    BY <1>1, <1>2, <2>1 DEF Note, Waiting
  <2>4. esp' = IF kind[Main] = "send" /\ ans = <<"OK">> THEN Main ELSE "cmd"
    BY <1>1, <2>1
  <2>5. ASSUME NEW a \in Line, ans = <<a>> PROVE Says(rx', a)
    BY <1>1, <1>5, <2>5, AnswerComes
  <2>6. ASSUME NEW a \in Line, NEW b \in Line, ans = <<a, b>> PROVE SaysTwo(rx', a, b)
    BY <1>1, <1>5, <2>6, AnswerComes
  <2>7. /\ kind[Main] = "reset" => response = "ready"
        /\ kind[Main] \in {"plain", "connect", "send"} => response = "OK"
    BY <1>2, <1>3, RespWords
  <2>8. ans \in Answers(kind[Main])
    BY <1>1, <2>1
  <2>9. OnTheWay' /\ esp' = IF Granted' THEN Main ELSE "cmd"
    <3>1. CASE kind[Main] = "reset" /\ ans = <<"OK", "ready">> /\ FateOf(ans) = "good"
      <4>1. SaysTwo(rx', "OK", "ready")
        BY <1>3, <2>6, <3>1
      <4> QED
        BY <1>0, <1>2, <1>5, <2>1, <2>3, <2>4, <3>1, <4>1 DEF OnTheWay, Granted
    <3>2. CASE kind[Main] = "connect" /\ ans = <<"CONNECT", "OK">> /\ FateOf(ans) = "good"
      <4>1. SaysTwo(rx', "CONNECT", "OK")
        BY <1>3, <2>6, <3>2
      <4> QED
        BY <1>0, <1>2, <1>5, <2>1, <2>3, <2>4, <3>2, <4>1 DEF OnTheWay, Connecting, Granted
    <3>3. CASE kind[Main] \in {"plain", "send"} /\ ans = <<"OK">> /\ FateOf(ans) = "good"
      <4>1. Says(rx', response)
        BY <1>3, <2>5, <2>7, <3>3
      <4> QED
        BY <1>0, <1>2, <1>5, <2>1, <2>3, <2>4, <3>3, <4>1 DEF OnTheWay, Granted
    <3>4. CASE /\ ans = <<"ERROR">> /\ FateOf(ans) = "bad" /\ ans # <<"OK">>
               /\ kind[Main] \in {"plain", "send", "connect"}
      <4>1. Says(rx', "ERROR")
        BY <1>3, <2>5, <3>4
      <4> QED
        BY <1>0, <1>2, <1>5, <2>1, <2>3, <2>4, <3>4, <4>1 DEF OnTheWay, Granted
    <3> QED
      BY <1>3, <1>4, <2>2, <2>8, <3>1, <3>2, <3>3, <3>4, ClientAnswers, Zenon DEF Kind
  <2> QED
    BY <1>0, <1>2, <2>9 DEF ClientInv
<1>6. CASE /\ toEsp = <<Status>> /\ fate[Main] = "good" /\ kind[Main] = "connect"
           /\ \/ rd = "accept" /\ Says(rx, "OK")
              \/ rd = "read" /\ Silent(rx)
  <2>1. Head(toEsp).req = "status" /\ Head(toEsp).own = "read_thread" /\ toEsp' = <<>>
    BY <1>0, <1>6 DEF Status
  <2>2. ans = <<"OK">> /\ esp' = "cmd"
    BY <1>1, <1>4, <2>1 DEF Answers
  <2>3. fate'[Main] = "good"
    BY <1>1, <1>6, <2>1 DEF Note
  <2>4. /\ Silent(rx) => Says(rx', "OK")
        /\ Says(rx, "OK") => SaysTwo(rx', "OK", "OK")
    BY <1>1, <1>3, <2>2, AnswerComes
  <2>5. response = "OK"
    BY <1>2, <1>3, <1>6, RespWords
  <2>6. OnTheWay'
    BY <1>0, <1>6, <2>1, <2>3, <2>4, <2>5 DEF OnTheWay, Connecting
  <2>7. ~Granted'
    BY <1>0, <1>2, <1>6 DEF Granted
  <2> QED
    BY <1>0, <1>2, <2>2, <2>6, <2>7 DEF ClientInv
<1> QED
  BY <1>0, <1>5, <1>6, ClientAsked

LEMMA ClientData ==
    ASSUME TypeOK, ClientInv, Benign, EspPayload
    PROVE  ClientInv'
<1> USE ClientTypes
<1>0. /\ toEsp # <<>> /\ toEsp' = Tail(toEsp) /\ esp # "cmd"
      /\ UNCHANGED <<pc, kind, response, result, rd, partial>>
  BY DEF EspPayload, progVars
<1>1. /\ pc[Main] = "wait" /\ response = Resp(kind[Main])
      /\ \/ /\ toEsp = <<[req |-> kind[Main], own |-> Main]>>
            /\ fate[Main] = "pending" /\ rd = "read" /\ Silent(rx)
         \/ kind[Main] = "connect"
  BY <1>0, ClientAsked
<1>2. Granted /\ esp = Main
  BY <1>0 DEF ClientInv
<1>3. kind[Main] = "data" /\ fate[Main] = "pending"
  BY <1>1, <1>2 DEF Granted
<1>4. toEsp' = <<>> /\ Head(toEsp).req = "data" /\ Head(toEsp).own = esp
  BY <1>0, <1>1, <1>2, <1>3
<1>5. PICK w : w = "SEND OK"
  OBVIOUS
<1>6. rx' = rx \o <<w>> /\ esp' = "cmd" /\ fate' = Note(Main, "good")
  <2>1. PICK ans \in {<<"SEND OK">>} :
            /\ rx' = rx \o ans
            /\ esp' = IF ans = <<>> THEN esp ELSE "cmd"
            /\ fate' = Note(Head(toEsp).own, "good")
    BY <1>4, Zenon DEF EspPayload
  <2>2. ans = <<w>>
    BY <1>5, <2>1, Zenon
  <2>3. ans # <<>>
    BY <2>2
  <2> QED
    BY <1>2, <1>4, <2>1, <2>2, <2>3
<1>7. fate'[Main] = "good"
  BY <1>1, <1>6 DEF Note, Waiting
<1>8. w \in Line /\ response = w
  <2>1. Resp(kind[Main]) = "SEND OK"
    BY <1>3, Zenon DEF Resp
  <2> QED
    BY <1>1, <1>5, <2>1, Zenon DEF Line
<1>9. Says(rx', w)
  BY <1>1, <1>3, <1>6, <1>8, AnswerComes
<1>10. OnTheWay'
  BY <1>0, <1>1, <1>3, <1>4, <1>7, <1>8, <1>9 DEF OnTheWay
<1>11. ~Granted'
  BY <1>0, <1>1, <1>3, <1>7 DEF Granted
<1> QED
  BY <1>0, <1>1, <1>6, <1>10, <1>11 DEF ClientInv

LEMMA ClientUnsolicited ==
    ASSUME TypeOK, ClientInv, Benign, Unsolicited
    PROVE  ClientInv'
<1>0. /\ rx' = Append(rx, "CLOSED") /\ rx \in Seq(Line) /\ "CLOSED" \in Line
      /\ UNCHANGED <<pc, kind, response, result, rd, partial, toEsp, esp, fate>>
  BY ClientTypes, Words DEF Benign, Unsolicited, progVars, ghosts
<1>1. /\ Silent(rx) => Silent(rx')
      /\ \A b : Says(rx, b) => Says(rx', b)
      /\ \A b, c : SaysTwo(rx, b, c) => SaysTwo(rx', b, c)
  BY <1>0, ClosedComes
<1>2. Granted' <=> Granted
  BY <1>0 DEF Granted
<1>3. Quiescent => Quiescent'
  BY <1>0, <1>1 DEF Quiescent
<1>4. Connecting => Connecting'
  BY <1>0, <1>1 DEF Connecting
<1>5. OnTheWay => OnTheWay'
  <2>1. Says(rx, response) => Says(rx', response')
    BY <1>0, <1>1
  <2> QED
    BY <1>0, <1>1, <1>4, <2>1 DEF OnTheWay
<1> QED
  BY <1>0, <1>2, <1>3, <1>5 DEF ClientInv

LEMMA ClientStutter ==
    ASSUME ClientInv, UNCHANGED vars
    PROVE  ClientInv'
<1>1. /\ Granted' <=> Granted
      /\ Quiescent' <=> Quiescent
      /\ OnTheWay' <=> OnTheWay
  BY DEF vars, Granted, Quiescent, OnTheWay, Connecting
<1> QED
  BY <1>1 DEF vars, ClientInv

LEMMA ClientStart == Init => ClientInv
<1> SUFFICES ASSUME Init PROVE ClientInv
  OBVIOUS
<1>1. Quiescent
  BY DEF Init, Quiescent, Silent
<1>2. ~Granted
  BY MainAssumption DEF Init, Granted
<1> QED
  BY <1>1, <1>2, MainAssumption DEF Init, ClientInv

LEMMA ClientStep ==
    ASSUME TypeOK, client => ClientInv, [ClientNext]_clVars
    PROVE  TypeOK' /\ (client' => ClientInv')
<1>1. [Next]_vars /\ UNCHANGED client
  BY DEF ClientNext, clVars
<1>2. TypeOK'
  BY <1>1, TypeStep
<1>3. ASSUME client PROVE ClientInv'
  <2>1. CASE ClientNext
    <3>1. Benign /\ ClientInv
      BY <1>3, <2>1 DEF ClientNext
    <3>2. ASSUME NEW t \in Thread, App(t) PROVE ClientInv'
      <4>1. App(Main)
        BY <3>1, <3>2, OnlyMain
      <4> QED
        BY <3>1, <4>1, ClientApp
    <3>3. CASE ReadThread
      BY <3>1, <3>3, ClientRead
    <3>4. CASE Esp
      BY <3>1, <3>4, ClientCommand, ClientData DEF Esp
    <3>5. CASE Unsolicited
      BY <3>1, <3>5, ClientUnsolicited
    <3> QED
      BY <2>1, <3>2, <3>3, <3>4, <3>5 DEF ClientNext, Next
  <2>2. CASE UNCHANGED clVars
    BY <1>3, <2>2, ClientStutter DEF clVars
  <2> QED
    BY <2>1, <2>2
<1> QED
  BY <1>1, <1>2, <1>3

(***************************************************************************)
(* The inductive invariant of a client: only Main runs commands, and what  *)
(* ends its wait is in exactly one place: its request, one answer that     *)
(* agrees with its fate, or, when accept runs, the OK of CIPSTATUS.        *)
(***************************************************************************)
THEOREM ClientOrderly == ClientSpec => [](TypeOK /\ (client => ClientInv))
<1>1. ClientInit => TypeOK /\ (client => ClientInv)
  BY InitType, ClientStart DEF ClientInit
<1>2. /\ TypeOK /\ (client => ClientInv) /\ [ClientNext]_clVars
      => TypeOK' /\ (client' => ClientInv')
  BY ClientStep
<1> QED
  BY <1>1, <1>2, PTL DEF ClientSpec

\* The payload of a send is written only to an ESP8266 that expects it
\* (esp01.c 229-237): that of a client's only command, whatever links close.
THEOREM PayloadExpected == ClientSpec => []ClientPayload
<1>1. TypeOK /\ (client => ClientInv) => ClientPayload
  <2> SUFFICES ASSUME ClientInv, NEW t \in Thread,
                      kind[t] = "data", pc[t] \in {"start", "sent"}
               PROVE  esp = t
    BY DEF ClientPayload
  <2>1. t = Main /\ fate[Main] = "pending"
    BY DEF ClientInv
  <2> QED
    BY <2>1 DEF ClientInv, Granted
<1> QED
  BY <1>1, ClientOrderly, PTL

\* A client's command returns what the ESP8266 did with it, although accept
\* swallows the OK of every CIPSTART (serial.c 248-265).
THEOREM OutcomeReturned == ClientSpec => ClientOutcome
<1> DEFINE Told == client => \A t \in Thread :
                       CmdReturn(t) => fate[t] = IF result = RES_OK THEN "good" ELSE "bad"
<1>1. TypeOK /\ (client => ClientInv) /\ [ClientNext]_clVars => [Told]_clVars
  <2> SUFFICES ASSUME ClientInv, client, NEW t \in Thread, CmdReturn(t)
               PROVE  fate[t] = IF result = RES_OK THEN "good" ELSE "bad"
    OBVIOUS
  <2>1. t = Main /\ pc[Main] = "woken"
    BY DEF ClientInv, CmdReturn
  <2> QED
    BY <2>1 DEF ClientInv, RES_OK, RES_ERR
<1> QED
  BY <1>1, ClientOrderly, PTL DEF ClientSpec, ClientOutcome

=============================================================================
