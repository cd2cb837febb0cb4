---------------------------- MODULE PortIpcProofs ----------------------------
(***************************************************************************)
(* Proofs about PortIpc: the server and its client are the server of       *)
(* RtpServer, so that what is proved of that one holds here; kills leave   *)
(* no more than one answer each; the two processes with their queues       *)
(* implement the service of PortService; and until the first kill each     *)
(* request of the CSCF's is given its own answer.                          *)
(***************************************************************************)
EXTENDS PortIpc, RtpServerProofs, MsgQueuesProofs

(* What get_port asks. *)
Request == [msgtype : MsgTypes, key : CallIds, port : {0}]

(* A step of both processes is a step of the server and of any client. *)
LEMMA IpcStepIsStep ==
  ASSUME asked \in Request, [NextIpc]_ipcVars
  PROVE  [Next]_vars
<1>1. CASE ServerStep
  BY <1>1 DEF ServerStep, Next
<1>2. CASE get_port_send
  <2>1. ClientSend(asked.msgtype, asked.key)
    BY <1>2 DEF get_port_send, ClientSend, Request
  <2>2. asked.msgtype \in MsgTypes /\ asked.key \in CallIds
    BY DEF Request
  <2>3. QED
    BY <2>1, <2>2 DEF Next
<1>3. CASE get_port_receive
  BY <1>3 DEF get_port_receive, ClientReceive, Next
<1>4. CASE (\E t \in MsgTypes, k \in CallIds : set_m_rtpproxy(t, k)) \/ Restart
  BY <1>4 DEF set_m_rtpproxy, Restart
<1>5. CASE UNCHANGED ipcVars
  BY <1>5 DEF ipcVars
<1>6. QED
  BY <1>1, <1>2, <1>3, <1>4, <1>5 DEF NextIpc, get_port

(* The client asks for a port of a call, and has not seen one. *)
LEMMA RequestStep == asked \in Request /\ [NextIpc]_ipcVars => asked' \in Request
BY DEF Request, NextIpc, ipcVars, clientVars, ServerStep, set_m_rtpproxy, get_port,
       get_port_send, get_port_receive, Restart

(* The initial state has its type. *)
LEMMA TypeInitIpc == InitIpc => TypeOKIpc /\ asked \in Request
<1> SUFFICES ASSUME InitIpc PROVE TypeOKIpc /\ asked \in Request
  OBVIOUS
<1>1. TypeOK
  BY TypeInit DEF InitIpc
<1>2. asked \in Request /\ asked \in Message
  BY DEF InitIpc, Request, Message, MsgTypes
<1>3. QED
  BY <1>1, <1>2, KillAssumption DEF InitIpc, TypeOKIpc

(* The client's variables keep their types. *)
LEMMA TypeStepIpc ==
  TypeOKIpc /\ asked \in Request /\ TypeOK' /\ [NextIpc]_ipcVars => TypeOKIpc'
<1> SUFFICES ASSUME TypeOKIpc, asked \in Request, TypeOK', [NextIpc]_ipcVars PROVE TypeOKIpc'
  OBVIOUS
<1>1. asked' \in Message
  BY RequestStep DEF Request, Message
<1>2. CASE ServerStep \/ UNCHANGED ipcVars
  BY <1>1, <1>2 DEF TypeOKIpc, ServerStep, ipcVars, clientVars
<1>3. CASE (\E t \in MsgTypes, k \in CallIds : set_m_rtpproxy(t, k)) \/ get_port_send
  BY <1>1, <1>3 DEF TypeOKIpc, set_m_rtpproxy, get_port_send
<1>4. CASE get_port_receive
  <2>1. Head(replies) \in Message
    BY <1>4, TailIs DEF get_port_receive, TypeOKIpc, TypeOK
  <2>2. got' \in [key : CallIds, port : Ports \cup {0}]
    BY <1>4, <2>1 DEF get_port_receive, Message, Request
  <2>3. QED
    BY <1>1, <1>4, <2>2 DEF TypeOKIpc, get_port_receive
<1>5. CASE Restart
  <2>1. kills' \in 0 .. MaxKills
    BY <1>5, KillAssumption DEF Restart, TypeOKIpc
  <2>2. QED
    BY <1>1, <1>5, <2>1 DEF TypeOKIpc, Restart
<1>6. QED
  BY <1>2, <1>3, <1>4, <1>5 DEF NextIpc, get_port

-----------------------------------------------------------------------------
(* Kills leave no more than one answer each. *)

(* Whether m is a request for a port. *)
One(m) == IF m.msgtype \in {1, 2} THEN 1 ELSE 0
Held   == IF pc \in {"serve", "join", "exited"} THEN One(m_rtpproxy) ELSE 0
Sure   == IF pc = "send" THEN 1 ELSE 0
Waits  == IF cpc = "msgrcv" THEN 1 ELSE 0

(* The terms of StrayAnswersBounded. *)
LEMMA StrayTerms ==
  TypeOK => /\ Wants(InService) = Held
            /\ Len(Given) = Len(replies) + Sure
            /\ Wants(requests) \in Nat /\ Len(replies) \in Nat
<1> SUFFICES ASSUME TypeOK
             PROVE  /\ Wants(InService) = Held
                    /\ Len(Given) = Len(replies) + Sure
                    /\ Wants(requests) \in Nat /\ Len(replies) \in Nat
  OBVIOUS
<1>1. /\ m_rtpproxy \in Message /\ requests \in Seq(Message) /\ replies \in Seq(Message)
  BY DEF TypeOK
<1>2. Wants(<< >>) = 0
  BY CountNone DEF Wants
<1>3. Wants(<<m_rtpproxy>>) = One(m_rtpproxy)
  <2>1. {i \in DOMAIN <<m_rtpproxy>> : <<m_rtpproxy>>[i].msgtype \in {1, 2}}
          = IF m_rtpproxy.msgtype \in {1, 2} THEN {1} ELSE {}
    OBVIOUS
  <2>2. Cardinality({1}) = 1 /\ Cardinality({}) = 0
    BY FS_Singleton, FS_EmptySet
  <2>3. QED
    BY <2>1, <2>2 DEF Wants, One, CountTypes
<1>4. Wants(InService) = Held
  BY <1>2, <1>3 DEF InService, Held
<1>5. Len(Given) = Len(replies) + Sure
  <2>1. InHand \in Seq(Message) /\ Len(InHand) = Sure
    BY <1>1 DEF InHand, Sure
  <2>2. replies \o InHand \in Seq(Message) /\ Len(replies \o InHand) = Len(replies) + Sure
    BY <1>1, <2>1
  <2>3. Given = [i \in 1 .. Len(replies \o InHand) |-> (replies \o InHand)[i].port]
    BY <2>2 DEF Given
  <2>4. Len(replies \o InHand) \in Nat
    BY <2>2
  <2> HIDE DEF InHand
  <2>5. QED
    BY <2>2, <2>3, <2>4
<1>6. CountTypes(requests, {1, 2}) \in Nat
  BY <1>1, CountIsNat, Zenon
<1>7. QED
  BY <1>1, <1>4, <1>5, <1>6 DEF Wants

(* Nothing is asked for at first. *)
LEMMA StrayInit == InitIpc => StrayAnswersBounded /\ AnswerOwed
<1> SUFFICES ASSUME InitIpc PROVE StrayAnswersBounded /\ AnswerOwed
  OBVIOUS
<1>1. TypeOK
  BY TypeInit DEF InitIpc
<1>2. /\ Held = 0 /\ Sure = 0 /\ Waits = 0 /\ kills = 0 /\ Len(replies) = 0
      /\ Wants(requests) = 0
  BY CountNone DEF InitIpc, Init, InitProcess, Held, Sure, Waits, Wants
<1>3. QED
  BY <1>1, <1>2, StrayTerms DEF StrayAnswersBounded, AnswerOwed, Waits

(* Every step keeps the sum within the kills, and above what get_port waits for. *)
LEMMA StrayStep ==
  /\ TypeOKIpc /\ OneThreadPerCall /\ asked \in Request /\ TypeOK'
  /\ StrayAnswersBounded /\ AnswerOwed /\ [NextIpc]_ipcVars
  => StrayAnswersBounded' /\ AnswerOwed'
<1> SUFFICES ASSUME TypeOKIpc, OneThreadPerCall, asked \in Request, TypeOK',
                    StrayAnswersBounded, AnswerOwed, [NextIpc]_ipcVars
             PROVE  StrayAnswersBounded' /\ AnswerOwed'
  OBVIOUS
<1>1. /\ TypeOK /\ kills \in Nat
      /\ m_rtpproxy \in Message /\ requests \in Seq(Message) /\ replies \in Seq(Message)
  BY KillAssumption DEF TypeOKIpc, TypeOK
<1>2. /\ Wants(InService) = Held /\ Len(Given) = Len(replies) + Sure
      /\ Wants(requests) \in Nat /\ Len(replies) \in Nat
  BY <1>1, StrayTerms
<1>3. (/\ Wants(InService) = Held /\ Len(Given) = Len(replies) + Sure
       /\ Wants(requests) \in Nat /\ Len(replies) \in Nat)'
  BY StrayTerms, PTL
<1>4. /\ Held \in {0, 1} /\ Sure \in {0, 1} /\ Waits \in {0, 1}
      /\ Held' \in {0, 1} /\ Sure' \in {0, 1} /\ Waits' \in {0, 1}
  BY DEF Held, Sure, Waits, One
<1>5. /\ Held + Wants(requests) + (Len(replies) + Sure) <= kills + Waits
      /\ Waits <= Held + Wants(requests) + (Len(replies) + Sure)
  BY <1>2, <1>4 DEF StrayAnswersBounded, AnswerOwed, Waits
<1>6. SUFFICES /\ Held' + Wants(requests)' + (Len(replies') + Sure') <= kills' + Waits'
               /\ Waits' <= Held' + Wants(requests)' + (Len(replies') + Sure')
  BY <1>3 DEF StrayAnswersBounded, AnswerOwed, Waits
<1>7. CASE Receive /\ UNCHANGED clientVars
  <2>1. /\ requests # <<>> /\ requests' = Tail(requests) /\ m_rtpproxy' = Head(requests)
        /\ pc = "recv" /\ pc' = "serve" /\ UNCHANGED <<replies, cpc, kills>>
    BY <1>7 DEF Receive, clientVars
  <2>2. CountTypes(requests, {1, 2})
          = CountTypes(Tail(requests), {1, 2}) + IF Head(requests).msgtype \in {1, 2} THEN 1 ELSE 0
    BY <1>1, <2>1, CountTail, Zenon
  <2>3. Wants(requests) = Wants(requests)' + Held'
    BY <2>1, <2>2 DEF Wants, Held, One
  <2>4. Held = 0 /\ Sure = 0 /\ Sure' = 0 /\ Waits' = Waits
    BY <2>1 DEF Held, Sure, Waits
  <2>5. QED
    BY <1>1, <1>2, <1>3, <1>4, <1>5, <2>1, <2>3, <2>4
<1>8. CASE (ApplyAgain \/ Refuse \/ NewCall \/ Callee) /\ UNCHANGED clientVars
  <2>1. /\ pc = "serve" /\ pc' = "send" /\ m_rtpproxy.msgtype \in {1, 2}
        /\ UNCHANGED <<requests, replies, cpc, kills>>
    BY <1>8 DEF ApplyAgain, Refuse, NewCall, Callee, Serving, Answer, clientVars
  <2>2. Held = 1 /\ Sure = 0 /\ Held' = 0 /\ Sure' = 1 /\ Waits' = Waits
    BY <2>1 DEF Held, Sure, Waits, One
  <2>3. QED
    BY <1>1, <1>2, <1>3, <1>4, <1>5, <2>1, <2>2
<1>9. CASE (Exit \/ Shut \/ ReleaseNothing \/ Released \/ \E k \in CallIds : CallThread(k))
           /\ UNCHANGED clientVars
  <2>1. /\ m_rtpproxy' = m_rtpproxy /\ UNCHANGED <<requests, replies, cpc, kills>>
        /\ \/ pc \in {"serve", "join"} /\ pc' \in {"join", "exited", "recv"}
           \/ pc' = pc
    BY <1>9 DEF Exit, Shut, ReleaseNothing, Released, CallThread, Serving, clientVars
  <2>2. Held' = Held
    <3>1. pc = "join" => m_rtpproxy.msgtype = 3
      BY DEF OneThreadPerCall
    <3>2. Shut \/ ReleaseNothing => m_rtpproxy.msgtype = 3
      BY DEF Shut, ReleaseNothing, Serving
    <3>3. pc = "serve" => pc' \in {"serve", "exited"} \/ m_rtpproxy.msgtype = 3
      BY <1>9, <2>1, <3>2 DEF Exit, Released, CallThread
    <3>4. One(m_rtpproxy)' = One(m_rtpproxy) /\ (m_rtpproxy.msgtype = 3 => One(m_rtpproxy) = 0)
      BY <2>1 DEF One
    <3>5. QED
      BY <2>1, <3>1, <3>3, <3>4 DEF Held
  <2>3. Sure' = Sure /\ Waits' = Waits
    BY <2>1 DEF Sure, Waits
  <2>4. Wants(requests)' = Wants(requests)
    BY <2>1 DEF Wants
  <2>5. QED
    BY <1>1, <1>2, <1>3, <1>4, <1>5, <2>1, <2>2, <2>3, <2>4
<1>10. CASE Send /\ UNCHANGED clientVars
  <2>1. /\ pc = "send" /\ pc' = "recv" /\ replies' = Append(replies, m_rtpproxy)
        /\ UNCHANGED <<requests, cpc, kills>>
    BY <1>10 DEF Send, clientVars
  <2>2. Held = 0 /\ Sure = 1 /\ Held' = 0 /\ Sure' = 0 /\ Waits' = Waits
    BY <2>1 DEF Held, Sure, Waits
  <2>3. Len(replies') = Len(replies) + 1
    BY <1>1, <2>1
  <2>4. QED
    BY <1>1, <1>2, <1>3, <1>4, <1>5, <2>1, <2>2, <2>3
<1>11. CASE get_port_send
  <2>1. /\ cpc = "msgsnd" /\ requests' = Append(requests, asked)
        /\ cpc' = IF asked.msgtype = 3 THEN "idle" ELSE "msgrcv"
        /\ UNCHANGED <<pc, m_rtpproxy, replies, kills>>
    BY <1>11 DEF get_port_send, serverVars
  <2>2. asked \in Message /\ asked.msgtype \in 1 .. 3
    BY DEF Request, Message, MsgTypes
  <2>3. CountTypes(Append(requests, asked), {1, 2})
          = CountTypes(requests, {1, 2}) + IF asked.msgtype \in {1, 2} THEN 1 ELSE 0
    BY <1>1, <2>2, CountAppend, ZenonT(40)
  <2>4. Wants(requests)' = Wants(requests) + Waits' /\ Waits = 0
    BY <2>1, <2>2, <2>3 DEF Wants, Waits
  <2>5. Held' = Held /\ Sure' = Sure
    BY <2>1 DEF Held, Sure, One
  <2>6. QED
    BY <1>1, <1>2, <1>3, <1>4, <1>5, <2>1, <2>4, <2>5, SMTT(40)
<1>12. CASE get_port_receive
  <2>1. /\ cpc = "msgrcv" /\ cpc' = "idle" /\ replies # <<>> /\ replies' = Tail(replies)
        /\ UNCHANGED <<pc, m_rtpproxy, requests, kills>>
    BY <1>12 DEF get_port_receive, serverVars
  <2>2. Len(replies') = Len(replies) - 1
    BY <1>1, <2>1, TailIs
  <2>3. Held' = Held /\ Sure' = Sure /\ Waits = 1 /\ Waits' = 0
    BY <2>1 DEF Held, Sure, Waits, One
  <2>4. Wants(requests)' = Wants(requests)
    BY <2>1 DEF Wants
  <2>5. QED
    BY <1>1, <1>2, <1>3, <1>4, <1>5, <2>1, <2>2, <2>3, <2>4
<1>13. CASE Restart
  <2>1. /\ kills' = kills + 1 /\ UNCHANGED <<pc, m_rtpproxy, requests, replies>>
        /\ Waits' = 0
    BY <1>13 DEF Restart, vars, serverVars, Waits
  <2>2. Held' = Held /\ Sure' = Sure
    BY <2>1 DEF Held, Sure, One
  <2>3. Wants(requests)' = Wants(requests)
    BY <2>1 DEF Wants
  <2>4. QED
    BY <1>1, <1>2, <1>3, <1>4, <1>5, <2>1, <2>2, <2>3
<1>14. CASE (\E t \in MsgTypes, k \in CallIds : set_m_rtpproxy(t, k)) \/ UNCHANGED ipcVars
  <2>1. kills' = kills /\ UNCHANGED <<pc, m_rtpproxy, requests, replies>>
    BY <1>14 DEF set_m_rtpproxy, ipcVars, clientVars, vars, serverVars
  <2>2. Held' = Held /\ Sure' = Sure /\ Waits' = Waits
    BY <1>14, <2>1 DEF Held, Sure, Waits, One, set_m_rtpproxy, ipcVars, clientVars
  <2>3. Wants(requests)' = Wants(requests)
    BY <2>1 DEF Wants
  <2>4. QED
    BY <1>1, <1>2, <1>3, <1>4, <1>5, <2>1, <2>2, <2>3
<1>15. QED
  BY <1>7, <1>8, <1>9, <1>10, <1>11, <1>12, <1>13, <1>14 DEF NextIpc, ServerStep, Server, get_port

-----------------------------------------------------------------------------
(* Pairs of ports: the pool is a sequence of pairs, each pair is in the    *)
(* pool or with one call.                                                  *)
AllPairs == {<<FirstPort + 2 * i, FirstPort + 2 * i + 1>> : i \in 0 .. PairCount - 1}

InPairs(pool, n, q) ==
  /\ pool \in Seq(Ports) /\ Len(pool) = 2 * n
  /\ \A i \in 1 .. n : pool[2 * i - 1] = q[i][1] /\ pool[2 * i] = q[i][2]

Shared(table, n, q) ==
  /\ \A i, j \in 1 .. n : q[i] = q[j] => i = j
  /\ \A i \in 1 .. n, k \in CallIds : q[i] # table[k]
  /\ \A k, l \in CallIds : table[k] = table[l] /\ table[k] # NoPair => k = l
  /\ \A pair \in AllPairs : (\E i \in 1 .. n : q[i] = pair) \/ (\E k \in CallIds : table[k] = pair)

Good(table, pool) ==
  /\ table \in [CallIds -> AllPairs \cup {NoPair}]
  /\ \E n \in Nat : \E q \in [1 .. n -> AllPairs] : InPairs(pool, n, q) /\ Shared(table, n, q)

(* A pair is two ports, and no pair is NoPair. *)
LEMMA PairIs ==
  ASSUME NEW pair \in AllPairs
  PROVE  /\ pair = <<pair[1], pair[2]>> /\ pair[1] \in Ports /\ pair[2] \in Ports
         /\ pair # NoPair
<1>1. PICK i \in 0 .. PairCount - 1 : pair = <<FirstPort + 2 * i, FirstPort + 2 * i + 1>>
  BY DEF AllPairs
<1>2. FirstPort + 2 * i \in Ports /\ FirstPort + 2 * i + 1 \in Ports /\ FirstPort + 2 * i # 0
  BY PortAssumption DEF Ports
<1>3. QED
  BY <1>1, <1>2 DEF NoPair

(* The pool that main fills, in pairs. *)
LEMMA GoodInit == Good([k \in CallIds |-> NoPair], NewPool)
<1> DEFINE q == [i \in 1 .. PairCount |-> <<FirstPort + 2 * (i - 1), FirstPort + 2 * (i - 1) + 1>>]
           table == [k \in CallIds |-> NoPair]
<1>1. \A i \in 1 .. PairCount : q[i] \in AllPairs
  <2>1. \A i \in 1 .. PairCount : i - 1 \in 0 .. PairCount - 1
    BY PortAssumption
  <2>2. QED
    BY <2>1 DEF AllPairs
<1>2. InPairs(NewPool, PairCount, q)
  <2>1. NewPool \in Seq(Ports) /\ Len(NewPool) = 2 * PairCount
    BY PortAssumption DEF NewPool, Ports
  <2>2. ASSUME NEW i \in 1 .. PairCount
        PROVE  NewPool[2 * i - 1] = q[i][1] /\ NewPool[2 * i] = q[i][2]
    <3>1. 2 * i - 1 \in 1 .. 2 * PairCount /\ 2 * i \in 1 .. 2 * PairCount
      BY PortAssumption
    <3>2. /\ NewPool[2 * i - 1] = FirstPort + (2 * i - 1) - 1
          /\ NewPool[2 * i] = FirstPort + 2 * i - 1
      BY <3>1 DEF NewPool
    <3>3. QED
      BY <3>2, PortAssumption
  <2> HIDE DEF q
  <2>3. QED
    BY <2>1, <2>2 DEF InPairs
<1>3. Shared(table, PairCount, q)
  <2>1. \A i, j \in 1 .. PairCount : q[i] = q[j] => i = j
    BY PortAssumption
  <2>2. \A i \in 1 .. PairCount : q[i] # NoPair
    BY <1>1, PairIs
  <2>3. ASSUME NEW pair \in AllPairs PROVE \E i \in 1 .. PairCount : q[i] = pair
    <3>1. PICK j \in 0 .. PairCount - 1 : pair = <<FirstPort + 2 * j, FirstPort + 2 * j + 1>>
      BY DEF AllPairs
    <3>2. j + 1 \in 1 .. PairCount /\ (j + 1) - 1 = j
      BY PortAssumption
    <3>3. q[j + 1] = pair
      BY <3>1, <3>2
    <3>4. QED
      BY <3>2, <3>3
  <2> HIDE DEF q
  <2>4. QED
    BY <2>1, <2>2, <2>3 DEF Shared
<1>4. QED
  <2>1. q \in [1 .. PairCount -> AllPairs] /\ PairCount \in Nat
    BY <1>1, PortAssumption
  <2> HIDE DEF q
  <2>2. QED
    BY <1>2, <1>3, <2>1 DEF Good

(* A new call gets the first pair of the pool, which no call has. *)
LEMMA GoodNew ==
  ASSUME NEW table, NEW pool, Good(table, pool), Len(pool) >= 2,
         NEW k \in CallIds, table[k] = NoPair
  PROVE  LET pair == <<pool[1], pool[2]>>
         IN  /\ pair \in AllPairs /\ \A l \in CallIds : table[l] # pair
             /\ Good([table EXCEPT ![k] = pair], SubSeq(pool, 3, Len(pool)))
<1>0. PICK n \in Nat : \E q \in [1 .. n -> AllPairs] : InPairs(pool, n, q) /\ Shared(table, n, q)
  BY DEF Good
<1>1. PICK q \in [1 .. n -> AllPairs] : InPairs(pool, n, q) /\ Shared(table, n, q)
  BY <1>0
<1>2. pool \in Seq(Ports) /\ Len(pool) = 2 * n
  BY <1>1 DEF InPairs
<1>3. n >= 1 /\ n - 1 \in Nat
  BY <1>2
<1>4. <<pool[1], pool[2]>> = q[1] /\ q[1] \in AllPairs
  <2>1. 1 \in 1 .. n /\ 2 * 1 - 1 = 1 /\ 2 * 1 = 2
    BY <1>3
  <2>2. pool[1] = q[1][1] /\ pool[2] = q[1][2] /\ q[1] \in AllPairs
    BY <1>1, <2>1 DEF InPairs
  <2>3. QED
    BY <2>2, PairIs
<1> DEFINE r == [i \in 1 .. n - 1 |-> q[i + 1]]
           t == [table EXCEPT ![k] = q[1]]
           s == SubSeq(pool, 3, Len(pool))
<1>5. \A i \in 1 .. n - 1 : i + 1 \in 1 .. n /\ i + 1 # 1
  BY <1>3
<1>6. r \in [1 .. n - 1 -> AllPairs] /\ \A i \in 1 .. n - 1 : r[i] = q[i + 1]
  BY <1>5
<1>7. /\ t \in [CallIds -> AllPairs \cup {NoPair}] /\ t[k] = q[1]
      /\ \A l \in CallIds \ {k} : t[l] = table[l]
  BY <1>4 DEF Good
<1>8. InPairs(s, n - 1, r)
  <2>1. s \in Seq(Ports) /\ Len(s) = 2 * (n - 1) /\ \A i \in 1 .. 2 * (n - 1) : s[i] = pool[i + 2]
    BY <1>2, <1>3
  <2>2. ASSUME NEW i \in 1 .. n - 1
        PROVE  s[2 * i - 1] = r[i][1] /\ s[2 * i] = r[i][2]
    <3>1. /\ 2 * i - 1 \in 1 .. 2 * (n - 1) /\ 2 * i \in 1 .. 2 * (n - 1)
          /\ (2 * i - 1) + 2 = 2 * (i + 1) - 1 /\ 2 * i + 2 = 2 * (i + 1)
      BY <1>3
    <3>2. pool[2 * (i + 1) - 1] = q[i + 1][1] /\ pool[2 * (i + 1)] = q[i + 1][2]
      BY <1>1, <1>5 DEF InPairs
    <3>3. QED
      BY <1>6, <2>1, <3>1, <3>2
  <2> HIDE DEF r, s
  <2>3. QED
    BY <2>1, <2>2 DEF InPairs
<1> HIDE DEF r, t, s
<1>9. \A l \in CallIds : table[l] # q[1]
  BY <1>1, <1>3 DEF Shared
<1>10. Shared(t, n - 1, r)
  <2>1. \A i, j \in 1 .. n - 1 : r[i] = r[j] => i = j
    <3>1. \A i, j \in 1 .. n - 1 : i + 1 = j + 1 => i = j
      OBVIOUS
    <3>2. QED
      BY <1>1, <1>5, <1>6, <3>1 DEF Shared
  <2>2. ASSUME NEW i \in 1 .. n - 1, NEW l \in CallIds PROVE r[i] # t[l]
    <3>1. 1 \in 1 .. n /\ i + 1 \in 1 .. n /\ i + 1 # 1
      BY <1>3, <1>5
    <3>2. q[i + 1] # q[1] /\ q[i + 1] # table[l]
      BY <1>1, <3>1 DEF Shared
    <3>3. QED
      BY <1>6, <1>7, <3>2
  <2>3. ASSUME NEW l \in CallIds, NEW o \in CallIds, t[l] = t[o], t[l] # NoPair PROVE l = o
    BY <1>1, <1>7, <1>9, <2>3 DEF Shared
  <2>4. ASSUME NEW pair \in AllPairs
        PROVE  (\E i \in 1 .. n - 1 : r[i] = pair) \/ (\E l \in CallIds : t[l] = pair)
    <3>1. CASE pair = q[1]
      BY <1>7, <3>1
    <3>2. ASSUME NEW i \in 1 .. n, q[i] = pair, pair # q[1]
          PROVE  \E j \in 1 .. n - 1 : r[j] = pair
      <4>1. i - 1 \in 1 .. n - 1 /\ (i - 1) + 1 = i
        BY <3>2
      <4>2. r[i - 1] = pair
        BY <1>6, <3>2, <4>1
      <4>3. QED
        BY <4>1, <4>2
    <3>3. ASSUME NEW l \in CallIds, table[l] = pair PROVE t[l] = pair
      BY <1>7, <3>3, PairIs
    <3>4. QED
      BY <1>1, <3>1, <3>2, <3>3 DEF Shared
  <2>5. QED
    BY <2>1, <2>2, <2>3, <2>4 DEF Shared
<1>11. Good(t, s)
  BY <1>3, <1>6, <1>7, <1>8, <1>10 DEF Good
<1>12. QED
  BY <1>4, <1>9, <1>11 DEF t, s

(* A call that is over puts its pair back at the end of the pool. *)
LEMMA GoodOver ==
  ASSUME NEW table, NEW pool, Good(table, pool),
         NEW k \in CallIds, table[k] # NoPair
  PROVE  /\ table[k] \in AllPairs
         /\ Good([table EXCEPT ![k] = NoPair], pool \o table[k])
<1>0. PICK n \in Nat : \E q \in [1 .. n -> AllPairs] : InPairs(pool, n, q) /\ Shared(table, n, q)
  BY DEF Good
<1>1. PICK q \in [1 .. n -> AllPairs] : InPairs(pool, n, q) /\ Shared(table, n, q)
  BY <1>0
<1>2. pool \in Seq(Ports) /\ Len(pool) = 2 * n
  BY <1>1 DEF InPairs
<1>3. table[k] \in AllPairs
  BY DEF Good
<1> DEFINE r == [i \in 1 .. n + 1 |-> IF i = n + 1 THEN table[k] ELSE q[i]]
           t == [table EXCEPT ![k] = NoPair]
           s == pool \o table[k]
<1>4. \A i \in 1 .. n + 1 : i = n + 1 \/ i \in 1 .. n
  OBVIOUS
<1>5. \A i \in 1 .. n : i \in 1 .. n + 1 /\ i # n + 1
  OBVIOUS
<1>6. /\ r \in [1 .. n + 1 -> AllPairs] /\ r[n + 1] = table[k]
      /\ \A i \in 1 .. n : r[i] = q[i]
  BY <1>3, <1>4, <1>5
<1>7. /\ t \in [CallIds -> AllPairs \cup {NoPair}] /\ t[k] = NoPair
      /\ \A l \in CallIds \ {k} : t[l] = table[l]
  BY DEF Good
<1>8. InPairs(s, n + 1, r)
  <2>1. PICK a \in Ports, b \in Ports : table[k] = <<a, b>>
    BY <1>3, PairIs
  <2>2. /\ s \in Seq(Ports) /\ Len(s) = 2 * (n + 1) /\ \A i \in 1 .. 2 * n : s[i] = pool[i]
        /\ s[2 * n + 1] = a /\ s[2 * n + 2] = b
    BY <1>2, <2>1, SMTT(40)
  <2> HIDE DEF r, s
  <2>3. ASSUME NEW i \in 1 .. n
        PROVE  s[2 * i - 1] = r[i][1] /\ s[2 * i] = r[i][2]
    <3>1. 2 * i - 1 \in 1 .. 2 * n /\ 2 * i \in 1 .. 2 * n
      OBVIOUS
    <3>2. pool[2 * i - 1] = q[i][1] /\ pool[2 * i] = q[i][2]
      BY <1>1 DEF InPairs
    <3>3. QED
      BY <1>6, <2>2, <3>1, <3>2
  <2>4. s[2 * (n + 1) - 1] = r[n + 1][1] /\ s[2 * (n + 1)] = r[n + 1][2]
    <3>1. 2 * (n + 1) - 1 = 2 * n + 1 /\ 2 * (n + 1) = 2 * n + 2
      OBVIOUS
    <3>2. r[n + 1][1] = a /\ r[n + 1][2] = b
      BY <1>6, <2>1
    <3>3. QED
      BY <2>2, <3>1, <3>2
  <2>5. QED
    BY <1>4, <2>2, <2>3, <2>4 DEF InPairs
<1> HIDE DEF r, t, s
<1>9. \A i \in 1 .. n : q[i] # table[k] /\ q[i] # NoPair
  BY <1>1, PairIs DEF Shared
<1>10. \A l \in CallIds \ {k} : table[l] # table[k]
  BY <1>1 DEF Shared
<1>11. Shared(t, n + 1, r)
  <2>1. ASSUME NEW i \in 1 .. n + 1, NEW j \in 1 .. n + 1, r[i] = r[j] PROVE i = j
    <3>1. CASE i \in 1 .. n /\ j \in 1 .. n
      BY <1>1, <1>6, <2>1, <3>1 DEF Shared
    <3>2. CASE i = n + 1 /\ j \in 1 .. n
      BY <1>6, <1>9, <2>1, <3>2
    <3>3. CASE i \in 1 .. n /\ j = n + 1
      BY <1>6, <1>9, <2>1, <3>3
    <3>4. QED
      BY <1>4, <3>1, <3>2, <3>3
  <2>2. ASSUME NEW i \in 1 .. n + 1, NEW l \in CallIds PROVE r[i] # t[l]
    <3>1. CASE i = n + 1
      BY <1>6, <1>7, <1>10, <3>1
    <3>2. CASE i \in 1 .. n
      BY <1>1, <1>6, <1>7, <1>9, <3>2 DEF Shared
    <3>3. QED
      BY <1>4, <3>1, <3>2
  <2>3. ASSUME NEW l \in CallIds, NEW o \in CallIds, t[l] = t[o], t[l] # NoPair PROVE l = o
    BY <1>1, <1>7, <2>3 DEF Shared
  <2>4. ASSUME NEW pair \in AllPairs
        PROVE  (\E i \in 1 .. n + 1 : r[i] = pair) \/ (\E l \in CallIds : t[l] = pair)
    <3>1. CASE pair = table[k]
      BY <1>6, <3>1
    <3>2. ASSUME NEW i \in 1 .. n, q[i] = pair PROVE i \in 1 .. n + 1 /\ r[i] = pair
      BY <1>5, <1>6, <3>2
    <3>3. ASSUME NEW l \in CallIds, table[l] = pair, pair # table[k] PROVE t[l] = pair
      BY <1>7, <3>3
    <3>4. n + 1 \in 1 .. n + 1
      OBVIOUS
    <3>5. QED
      BY <1>1, <1>6, <3>1, <3>2, <3>3, <3>4 DEF Shared
  <2>5. QED
    BY <2>1, <2>2, <2>3, <2>4 DEF Shared
<1>12. Good(t, s)
  <2>1. n + 1 \in Nat
    OBVIOUS
  <2>2. QED
    BY <1>6, <1>7, <1>8, <1>11, <2>1 DEF Good
<1>13. QED
  BY <1>3, <1>12 DEF t, s

(* When the pool has less than a pair, every pair is with a call. *)
LEMMA GoodFull ==
  ASSUME NEW table, NEW pool, Good(table, pool), ~ (Len(pool) >= 2), NEW pair \in AllPairs
  PROVE  \E k \in CallIds : table[k] = pair
<1>0. PICK n \in Nat : \E q \in [1 .. n -> AllPairs] : InPairs(pool, n, q) /\ Shared(table, n, q)
  BY DEF Good
<1>1. PICK q \in [1 .. n -> AllPairs] : InPairs(pool, n, q) /\ Shared(table, n, q)
  BY <1>0
<1>2. Len(pool) = 2 * n
  BY <1>1 DEF InPairs
<1>3. n = 0
  BY <1>2
<1>4. QED
  BY <1>1, <1>3 DEF Shared

-----------------------------------------------------------------------------
(* Serving a queue of requests. *)
States == [table : [CallIds -> AllPairs \cup {NoPair}], pool : Seq(Ports),
           answers : Seq(Ports \cup {0})]

GoodState(state) == state \in States /\ Good(state.table, state.pool)

With(t, p, a) == [table |-> t, pool |-> p, answers |-> a]

IsNew(state, m) ==
  m.msgtype = 1 /\ state.table[m.key] = NoPair /\ Len(state.pool) >= 2

(* What serving one request does. *)
LEMMA DoneIs ==
  ASSUME NEW state \in States, NEW m \in Message
  PROVE  LET pair == state.table[m.key]
             first == <<state.pool[1], state.pool[2]>>
         IN  /\ m.msgtype = 3 /\ pair = NoPair => Done(state, m) = state
             /\ m.msgtype = 3 /\ pair # NoPair =>
                  Done(state, m) = With([state.table EXCEPT ![m.key] = NoPair],
                                        state.pool \o pair, state.answers)
             /\ IsNew(state, m) =>
                  Done(state, m) = With([state.table EXCEPT ![m.key] = first],
                                        SubSeq(state.pool, 3, Len(state.pool)),
                                        Append(state.answers, state.pool[1]))
             /\ m.msgtype # 3 /\ ~IsNew(state, m) =>
                  Done(state, m) = With(state.table, state.pool,
                                        Append(state.answers, pair[m.msgtype]))
<1>1. CASE m.msgtype = 3 /\ state.table[m.key] = NoPair
  BY <1>1 DEF Done, IsNew
<1>2. CASE m.msgtype = 3 /\ state.table[m.key] # NoPair
  BY <1>2 DEF Done, With, IsNew
<1>3. ASSUME IsNew(state, m)
      PROVE  Done(state, m) = With([state.table EXCEPT ![m.key] = <<state.pool[1], state.pool[2]>>],
                                   SubSeq(state.pool, 3, Len(state.pool)),
                                   Append(state.answers, state.pool[1]))
  <2>1. m.msgtype = 1 /\ m.msgtype # 3 /\ state.table[m.key] = NoPair /\ Len(state.pool) >= 2
    BY <1>3 DEF IsNew
  <2>2. QED
    BY <2>1, Zenon DEF Done, With
<1>4. CASE m.msgtype # 3 /\ ~IsNew(state, m)
  BY <1>4 DEF Done, With, IsNew
<1>5. QED
  BY <1>1, <1>2, <1>3, <1>4, Zenon

(* The port of a call is a port, 0 if there is no call. *)
LEMMA PortOf ==
  ASSUME NEW table \in [CallIds -> AllPairs \cup {NoPair}], NEW k \in CallIds, NEW t \in {1, 2}
  PROVE  table[k][t] \in Ports \cup {0}
<1>1. CASE table[k] = NoPair
  BY <1>1 DEF NoPair
<1>2. CASE table[k] # NoPair
  BY <1>2, PairIs
<1>3. QED
  BY <1>1, <1>2

(* A state stays good. *)
LEMMA DoneGood ==
  ASSUME NEW state, GoodState(state), NEW m \in Message
  PROVE  GoodState(Done(state, m))
<1> DEFINE pair == state.table[m.key]
           first == <<state.pool[1], state.pool[2]>>
<1>1. /\ state \in States /\ Good(state.table, state.pool)
      /\ m.key \in CallIds /\ m.msgtype \in {1, 2, 3}
      /\ state.table \in [CallIds -> AllPairs \cup {NoPair}]
      /\ state.pool \in Seq(Ports) /\ state.answers \in Seq(Ports \cup {0})
  BY DEF GoodState, States, Message, MsgTypes
<1>2. \A t, p, a : /\ With(t, p, a).table = t /\ With(t, p, a).pool = p
                   /\ t \in [CallIds -> AllPairs \cup {NoPair}] /\ p \in Seq(Ports)
                      /\ a \in Seq(Ports \cup {0}) => With(t, p, a) \in States
  BY DEF With, States
<1>3. \A t, p : Good(t, p) => t \in [CallIds -> AllPairs \cup {NoPair}] /\ p \in Seq(Ports)
  BY DEF Good, InPairs
<1>4. ASSUME NEW t, NEW p, NEW a \in Seq(Ports \cup {0}), Good(t, p)
      PROVE  GoodState(With(t, p, a))
  BY <1>2, <1>3, <1>4 DEF GoodState
<1>5. CASE m.msgtype = 3 /\ pair = NoPair
  BY <1>1, <1>5, DoneIs
<1>6. CASE m.msgtype = 3 /\ pair # NoPair
  <2>1. Done(state, m)
          = With([state.table EXCEPT ![m.key] = NoPair], state.pool \o pair, state.answers)
    BY <1>1, <1>6, DoneIs
  <2>2. Good([state.table EXCEPT ![m.key] = NoPair], state.pool \o pair)
    BY <1>1, <1>6, GoodOver
  <2>3. QED
    BY <1>1, <1>4, <2>1, <2>2
<1>7. CASE IsNew(state, m)
  <2>1. Done(state, m) = With([state.table EXCEPT ![m.key] = first],
                              SubSeq(state.pool, 3, Len(state.pool)),
                              Append(state.answers, state.pool[1]))
    BY <1>1, <1>7, DoneIs
  <2>2. Good([state.table EXCEPT ![m.key] = first], SubSeq(state.pool, 3, Len(state.pool)))
    BY <1>1, <1>7, GoodNew DEF IsNew
  <2>3. Append(state.answers, state.pool[1]) \in Seq(Ports \cup {0})
    BY <1>1, <1>7 DEF IsNew
  <2>4. QED
    BY <1>4, <2>1, <2>2, <2>3
<1>8. CASE m.msgtype # 3 /\ ~IsNew(state, m)
  <2>1. Done(state, m) = With(state.table, state.pool, Append(state.answers, pair[m.msgtype]))
    BY <1>1, <1>8, DoneIs
  <2>2. pair[m.msgtype] \in Ports \cup {0}
    BY <1>1, <1>8, PortOf
  <2>3. Append(state.answers, pair[m.msgtype]) \in Seq(Ports \cup {0})
    BY <1>1, <2>2
  <2>4. QED
    BY <1>1, <1>4, <2>1, <2>3
<1>9. QED
  BY <1>5, <1>6, <1>7, <1>8

(* The states in which the requests of s are served one after another. *)
Course(state, s, f) ==
  /\ f = [i \in 0 .. Len(s) |-> f[i]]
  /\ f[0] = state
  /\ \A i \in 1 .. Len(s) : f[i] = Done(f[i - 1], s[i])

(* There is such a course, and Served is its end. *)
LEMMA ServedIs ==
  ASSUME NEW state, NEW s \in Seq(Message)
  PROVE  \E f : Course(state, s, f) /\ Served(state, s) = f[Len(s)]
<1> DEFINE Step(f, n) == f = [i \in 0 .. n |-> IF i = 0 THEN state ELSE Done(f[i - 1], s[i])]
           T == {n \in 0 .. Len(s) : ~ \E f : Step(f, n)}
<1>1. Len(s) \in Nat /\ T \subseteq Nat
  OBVIOUS
<1>2. T = {}
  <2>1. SUFFICES ASSUME T # {} PROVE FALSE
    OBVIOUS
  <2>2. PICK n \in T : \A k \in T : n <= k
    BY <1>1, <2>1, LeastNatural
  <2>3. n \in 0 .. Len(s) /\ ~ \E f : Step(f, n)
    BY <2>2
  <2>4. n # 0
    <3>1. Step([i \in 0 .. 0 |-> state], 0)
      OBVIOUS
    <3>2. QED
      BY <2>3, <3>1
  <2>5. n - 1 \in 0 .. Len(s) /\ ~ (n <= n - 1)
    BY <1>1, <2>3, <2>4
  <2>6. PICK f : Step(f, n - 1)
    BY <2>2, <2>5
  <2> DEFINE g == [i \in 0 .. n |-> IF i = n THEN Done(f[n - 1], s[n]) ELSE f[i]]
  <2>7. ASSUME NEW i \in 0 .. n
        PROVE  g[i] = IF i = 0 THEN state ELSE Done(g[i - 1], s[i])
    <3>1. CASE i = n
      <4>1. g[n] = Done(f[n - 1], s[n]) /\ g[n - 1] = f[n - 1]
        BY <2>3, <2>4
      <4>2. QED
        BY <2>4, <3>1, <4>1
    <3>2. CASE i # n
      <4>1. i \in 0 .. n - 1 /\ g[i] = f[i]
        BY <2>3, <3>2
      <4>2. f[i] = IF i = 0 THEN state ELSE Done(f[i - 1], s[i])
        BY <2>6, <4>1
      <4>3. i # 0 => g[i - 1] = f[i - 1]
        BY <2>3, <4>1
      <4>4. QED
        BY <4>1, <4>2, <4>3
    <3>3. QED
      BY <3>1, <3>2
  <2>8. Step(g, n)
    <3>1. g = [i \in 0 .. n |-> g[i]]
      OBVIOUS
    <3> HIDE DEF g
    <3>2. QED
      BY <2>7, <3>1
  <2>9. QED
    BY <2>3, <2>8
<1>3. \E f : Step(f, Len(s))
  BY <1>1, <1>2
<1> DEFINE h == CHOOSE f : Step(f, Len(s))
<1>4. Step(h, Len(s))
  BY <1>3
<1>5. Served(state, s) = h[Len(s)]
  BY DEF Served
<1> HIDE DEF h
<1>6. h[0] = state /\ \A i \in 1 .. Len(s) : h[i] = Done(h[i - 1], s[i])
  BY <1>1, <1>4
<1>7. h = [i \in 0 .. Len(s) |-> h[i]]
  BY <1>4
<1>8. QED
  BY <1>5, <1>6, <1>7 DEF Course

(* There is only one. *)
LEMMA ServedAtEnd ==
  ASSUME NEW state, NEW s \in Seq(Message), NEW g, g[0] = state,
         \A i \in 1 .. Len(s) : g[i] = Done(g[i - 1], s[i])
  PROVE  Served(state, s) = g[Len(s)]
<1>1. PICK f : Course(state, s, f) /\ Served(state, s) = f[Len(s)]
  BY ServedIs
<1> DEFINE T == {n \in 0 .. Len(s) : f[n] # g[n]}
<1>2. Len(s) \in Nat /\ T \subseteq Nat
  OBVIOUS
<1>3. T = {}
  <2>1. SUFFICES ASSUME T # {} PROVE FALSE
    OBVIOUS
  <2>2. PICK n \in T : \A k \in T : n <= k
    BY <1>2, <2>1, LeastNatural
  <2>3. n \in 0 .. Len(s) /\ f[n] # g[n]
    BY <2>2
  <2>4. n # 0
    BY <1>1, <2>3 DEF Course
  <2>5. n \in 1 .. Len(s) /\ n - 1 \in 0 .. Len(s) /\ ~ (n <= n - 1)
    BY <1>2, <2>3, <2>4
  <2>6. f[n - 1] = g[n - 1]
    BY <2>2, <2>5
  <2>7. QED
    BY <1>1, <2>3, <2>5, <2>6 DEF Course
<1>4. QED
  BY <1>1, <1>2, <1>3

(* Serving no request changes nothing. *)
LEMMA ServedNone == \A state : Served(state, << >>) = state
<1>1. ASSUME NEW state PROVE Served(state, << >>) = state
  <2>1. << >> \in Seq(Message) /\ Len(<< >>) = 0
    OBVIOUS
  <2>2. PICK f : Course(state, << >>, f) /\ Served(state, << >>) = f[Len(<< >>)]
    BY <2>1, ServedIs
  <2>3. QED
    BY <2>1, <2>2 DEF Course
<1>2. QED
  BY <1>1

(* A request that is put into the queue is served last. *)
LEMMA ServedAppend ==
  ASSUME NEW state, NEW s \in Seq(Message), NEW m \in Message
  PROVE  Served(state, Append(s, m)) = Done(Served(state, s), m)
<1>1. PICK f : Course(state, s, f) /\ Served(state, s) = f[Len(s)]
  BY ServedIs
<1> DEFINE t == Append(s, m)
           g == [i \in 0 .. Len(s) + 1 |-> IF i = Len(s) + 1 THEN Done(f[Len(s)], m) ELSE f[i]]
<1>2. /\ t \in Seq(Message) /\ Len(s) \in Nat /\ Len(t) = Len(s) + 1 /\ t[Len(s) + 1] = m
      /\ \A i \in 1 .. Len(s) : t[i] = s[i]
  OBVIOUS
<1>3. /\ g[Len(s) + 1] = Done(f[Len(s)], m)
      /\ \A i \in 0 .. Len(s) : g[i] = f[i]
  BY <1>2
<1> HIDE DEF t, g
<1>4. g[0] = state
  BY <1>1, <1>2, <1>3 DEF Course
<1>5. ASSUME NEW i \in 1 .. Len(t) PROVE g[i] = Done(g[i - 1], t[i])
  <2>1. CASE i = Len(s) + 1
    <3>1. i - 1 = Len(s) /\ Len(s) \in 0 .. Len(s)
      BY <1>2, <2>1
    <3>2. QED
      BY <1>2, <1>3, <2>1, <3>1
  <2>2. CASE i # Len(s) + 1
    <3>1. i \in 1 .. Len(s) /\ i \in 0 .. Len(s) /\ i - 1 \in 0 .. Len(s)
      BY <1>2, <2>2
    <3>2. f[i] = Done(f[i - 1], s[i])
      BY <1>1, <3>1 DEF Course
    <3>3. QED
      BY <1>2, <1>3, <3>1, <3>2
  <2>3. QED
    BY <2>1, <2>2
<1>6. Served(state, t) = g[Len(t)]
  BY <1>2, <1>4, <1>5, ServedAtEnd
<1>7. QED
  BY <1>1, <1>2, <1>3, <1>6 DEF t

(* The first request of a queue is served first. *)
LEMMA ServedFirst ==
  ASSUME NEW state, NEW s \in Seq(Message), s # << >>
  PROVE  Served(state, s) = Served(Done(state, Head(s)), Tail(s))
<1>1. PICK f : Course(state, s, f) /\ Served(state, s) = f[Len(s)]
  BY ServedIs
<1> DEFINE t == Tail(s)
           g == [i \in 0 .. Len(s) - 1 |-> f[i + 1]]
<1>2. /\ t \in Seq(Message) /\ Len(s) \in Nat /\ Len(s) >= 1 /\ Len(t) = Len(s) - 1
      /\ Head(s) = s[1] /\ \A i \in 1 .. Len(s) - 1 : t[i] = s[i + 1]
  BY TailIs
<1>3. \A i \in 0 .. Len(s) - 1 : g[i] = f[i + 1]
  OBVIOUS
<1> HIDE DEF t, g
<1>4. g[0] = Done(state, Head(s))
  <2>1. 0 \in 0 .. Len(s) - 1 /\ 1 \in 1 .. Len(s) /\ 0 + 1 = 1 /\ 1 - 1 = 0
    BY <1>2
  <2>2. f[1] = Done(f[0], s[1]) /\ f[0] = state
    BY <1>1, <2>1 DEF Course
  <2>3. QED
    BY <1>2, <1>3, <2>1, <2>2
<1>5. ASSUME NEW i \in 1 .. Len(t) PROVE g[i] = Done(g[i - 1], t[i])
  <2>1. /\ i \in 1 .. Len(s) - 1 /\ i \in 0 .. Len(s) - 1 /\ i - 1 \in 0 .. Len(s) - 1
        /\ i + 1 \in 1 .. Len(s) /\ (i - 1) + 1 = i /\ (i + 1) - 1 = i
    BY <1>2
  <2>2. f[i + 1] = Done(f[(i + 1) - 1], s[i + 1])
    BY <1>1, <2>1 DEF Course
  <2>3. QED
    BY <1>2, <1>3, <2>1, <2>2
<1>6. Served(Done(state, Head(s)), t) = g[Len(t)]
  BY <1>2, <1>4, <1>5, ServedAtEnd
<1>7. g[Len(t)] = f[Len(s)]
  <2>1. Len(s) - 1 \in 0 .. Len(s) - 1 /\ (Len(s) - 1) + 1 = Len(s)
    BY <1>2
  <2>2. QED
    BY <1>2, <1>3, <2>1
<1>8. QED
  BY <1>1, <1>6, <1>7 DEF t

(* Every state of a course is good, if the first one is. *)
LEMMA CourseGood ==
  ASSUME NEW state, GoodState(state), NEW s \in Seq(Message), NEW f, Course(state, s, f)
  PROVE  \A i \in 0 .. Len(s) : GoodState(f[i])
<1> DEFINE T == {i \in 0 .. Len(s) : ~GoodState(f[i])}
<1>1. Len(s) \in Nat /\ T \subseteq Nat
  OBVIOUS
<1>2. SUFFICES ASSUME T # {} PROVE FALSE
  OBVIOUS
<1>3. PICK n \in T : \A k \in T : n <= k
  BY <1>1, <1>2, LeastNatural
<1>4. n \in 0 .. Len(s) /\ ~GoodState(f[n])
  BY <1>3
<1>5. n # 0
  BY <1>4 DEF Course
<1>6. n \in 1 .. Len(s) /\ n - 1 \in 0 .. Len(s) /\ ~ (n <= n - 1)
  BY <1>1, <1>4, <1>5
<1>7. GoodState(f[n - 1])
  BY <1>3, <1>6
<1>8. s[n] \in Message
  BY <1>6
<1>9. GoodState(Done(f[n - 1], s[n]))
  BY <1>7, <1>8, DoneGood
<1>10. f[n] = Done(f[n - 1], s[n])
  BY <1>6 DEF Course
<1>11. QED
  BY <1>4, <1>9, <1>10

(* The state at the end is good. *)
LEMMA ServedGood ==
  ASSUME NEW state, GoodState(state), NEW s \in Seq(Message)
  PROVE  GoodState(Served(state, s))
<1>1. PICK f : Course(state, s, f) /\ Served(state, s) = f[Len(s)]
  BY ServedIs
<1>2. Len(s) \in 0 .. Len(s)
  OBVIOUS
<1>3. QED
  BY <1>1, <1>2, CourseGood

(***************************************************************************)
(* An answer that is read makes no difference to how the others are given: *)
(* serving goes on after the answers there are.                            *)
(***************************************************************************)
Read(state) == With(state.table, state.pool, Tail(state.answers))

(* What is read of the answers and what a request adds to them do not meet. *)
LEMMA DoneRead ==
  ASSUME NEW state \in States, state.answers # << >>, NEW m \in Message
  PROVE  /\ Done(Read(state), m) = Read(Done(state, m))
         /\ Done(state, m).answers # << >>
         /\ Head(Done(state, m).answers) = Head(state.answers)
<1>1. /\ state.table \in [CallIds -> AllPairs \cup {NoPair}] /\ state.pool \in Seq(Ports)
      /\ state.answers \in Seq(Ports \cup {0})
      /\ m.key \in CallIds /\ m.msgtype \in {1, 2, 3}
  BY DEF States, Message, MsgTypes
<1>2. \A t, p, a : With(t, p, a).table = t /\ With(t, p, a).pool = p /\ With(t, p, a).answers = a
  BY DEF With
<1>12. \A t, p, a : Read(With(t, p, a)) = With(t, p, Tail(a))
  BY <1>2 DEF Read
<1>3. /\ Read(state).table = state.table /\ Read(state).pool = state.pool
      /\ Read(state).answers = Tail(state.answers)
  BY <1>2 DEF Read
<1>4. Read(state) \in States
  BY <1>1, TailIs DEF Read, With, States
<1>5. IsNew(Read(state), m) <=> IsNew(state, m)
  BY <1>3 DEF IsNew
<1>6. ASSUME NEW p \in Ports \cup {0}
      PROVE  /\ Append(state.answers, p) # << >>
             /\ Head(Append(state.answers, p)) = Head(state.answers)
             /\ Tail(Append(state.answers, p)) = Append(Tail(state.answers), p)
  BY <1>1
<1>7. CASE m.msgtype = 3 /\ state.table[m.key] = NoPair
  <2>1. Done(state, m) = state /\ Done(Read(state), m) = Read(state)
    BY <1>3, <1>4, <1>7, DoneIs
  <2>2. QED
    BY <2>1
<1>8. CASE m.msgtype = 3 /\ state.table[m.key] # NoPair
  <2> DEFINE t == [state.table EXCEPT ![m.key] = NoPair]
             p == state.pool \o state.table[m.key]
  <2>1. Done(state, m) = With(t, p, state.answers)
    BY <1>8, DoneIs
  <2>2. Done(Read(state), m) = With(t, p, Tail(state.answers))
    BY <1>3, <1>4, <1>8, DoneIs
  <2> HIDE DEF t, p
  <2>3. QED
    BY <1>2, <2>1, <2>2 DEF Read
<1>9. CASE IsNew(state, m)
  <2> DEFINE t == [state.table EXCEPT ![m.key] = <<state.pool[1], state.pool[2]>>]
             p == SubSeq(state.pool, 3, Len(state.pool))
  <2>1. Done(state, m) = With(t, p, Append(state.answers, state.pool[1]))
    BY <1>9, DoneIs
  <2>2. Done(Read(state), m) = With(t, p, Append(Tail(state.answers), state.pool[1]))
    BY <1>3, <1>4, <1>5, <1>9, DoneIs
  <2>3. state.pool[1] \in Ports \cup {0}
    BY <1>1, <1>9 DEF IsNew
  <2> HIDE DEF t, p
  <2>4. Read(Done(state, m)) = With(t, p, Tail(Append(state.answers, state.pool[1])))
    BY <1>12, <2>1, Zenon
  <2>5. Done(state, m).answers = Append(state.answers, state.pool[1])
    BY <2>1 DEF With
  <2>6. /\ Append(state.answers, state.pool[1]) # << >>
        /\ Head(Append(state.answers, state.pool[1])) = Head(state.answers)
        /\ Tail(Append(state.answers, state.pool[1])) = Append(Tail(state.answers), state.pool[1])
    BY <1>6, <2>3, Zenon
  <2>7. QED
    BY <2>2, <2>4, <2>5, <2>6, Zenon
<1>10. CASE m.msgtype # 3 /\ ~IsNew(state, m)
  <2> DEFINE q == state.table[m.key][m.msgtype]
  <2>1. Done(state, m) = With(state.table, state.pool, Append(state.answers, q))
    BY <1>10, DoneIs
  <2>2. Done(Read(state), m) = With(state.table, state.pool, Append(Tail(state.answers), q))
    BY <1>3, <1>4, <1>5, <1>10, DoneIs
  <2>3. q \in Ports \cup {0}
    BY <1>1, <1>10, PortOf
  <2> HIDE DEF q
  <2>4. Read(Done(state, m)) = With(state.table, state.pool, Tail(Append(state.answers, q)))
    BY <1>12, <2>1, Zenon
  <2>5. Done(state, m).answers = Append(state.answers, q)
    BY <2>1 DEF With
  <2>6. /\ Append(state.answers, q) # << >>
        /\ Head(Append(state.answers, q)) = Head(state.answers)
        /\ Tail(Append(state.answers, q)) = Append(Tail(state.answers), q)
    BY <1>6, <2>3, Zenon
  <2>7. QED
    BY <2>2, <2>4, <2>5, <2>6, Zenon
<1>11. QED
  BY <1>7, <1>8, <1>9, <1>10

(* So it makes none to the state at the end but that it is gone. *)
LEMMA ServedRead ==
  ASSUME NEW state, GoodState(state), state.answers # << >>, NEW s \in Seq(Message)
  PROVE  /\ Served(Read(state), s) = Read(Served(state, s))
         /\ Served(state, s).answers # << >>
         /\ Head(Served(state, s).answers) = Head(state.answers)
<1>1. PICK f : Course(state, s, f) /\ Served(state, s) = f[Len(s)]
  BY ServedIs
<1>2. Len(s) \in Nat /\ \A i \in 1 .. Len(s) : s[i] \in Message
  OBVIOUS
<1>3. \A i \in 0 .. Len(s) : f[i] \in States
  BY <1>1, CourseGood DEF GoodState
<1> DEFINE Same(i) == f[i].answers # << >> /\ Head(f[i].answers) = Head(state.answers)
           T == {i \in 0 .. Len(s) : ~Same(i)}
<1>4. T = {}
  <2>1. SUFFICES ASSUME T # {} PROVE FALSE
    OBVIOUS
  <2>2. T \subseteq Nat
    BY <1>2
  <2>3. PICK n \in T : \A k \in T : n <= k
    BY <2>1, <2>2, LeastNatural
  <2>4. n \in 0 .. Len(s) /\ ~Same(n)
    BY <2>3
  <2>5. n # 0
    BY <1>1, <2>4 DEF Course
  <2>6. n \in 1 .. Len(s) /\ n - 1 \in 0 .. Len(s) /\ ~ (n <= n - 1)
    BY <1>2, <2>4, <2>5
  <2>7. Same(n - 1)
    BY <2>3, <2>6
  <2>8. f[n] = Done(f[n - 1], s[n])
    BY <1>1, <2>6 DEF Course
  <2>9. QED
    BY <1>2, <1>3, <2>4, <2>6, <2>7, <2>8, DoneRead
<1>5. \A i \in 0 .. Len(s) : Same(i)
  BY <1>4
<1> DEFINE g == [i \in 0 .. Len(s) |-> Read(f[i])]
<1>6. g[0] = Read(state)
  BY <1>1, <1>2 DEF Course
<1>7. ASSUME NEW i \in 1 .. Len(s) PROVE g[i] = Done(g[i - 1], s[i])
  <2>1. i \in 0 .. Len(s) /\ i - 1 \in 0 .. Len(s)
    BY <1>2
  <2>2. f[i] = Done(f[i - 1], s[i])
    BY <1>1 DEF Course
  <2>3. Done(Read(f[i - 1]), s[i]) = Read(Done(f[i - 1], s[i]))
    BY <1>2, <1>3, <1>5, <2>1, DoneRead
  <2>4. QED
    BY <2>1, <2>2, <2>3
<1> HIDE DEF g
<1>8. Served(Read(state), s) = g[Len(s)]
  BY <1>6, <1>7, ServedAtEnd
<1>9. Len(s) \in 0 .. Len(s)
  BY <1>2
<1>10. QED
  BY <1>1, <1>5, <1>8, <1>9 DEF g

-----------------------------------------------------------------------------
(* The server keeps the ports in pairs, and serves a request as Done does. *)
Now == With(p_table, port_pool, Given)

Pooled == Good(p_table, port_pool)

(* Two pop_fronts leave the pool from its third port on. *)
LEMMA FromThird ==
  ASSUME NEW s \in Seq(Ports), Len(s) >= 2
  PROVE  Tail(Tail(s)) = SubSeq(s, 3, Len(s))
<1> DEFINE n == Len(s)
<1>1. n \in Nat /\ n >= 2 /\ n = Len(s)
  OBVIOUS
<1>2. /\ Tail(Tail(s)) \in Seq(Ports) /\ Len(Tail(Tail(s))) = n - 2
      /\ \A i \in 1 .. n - 2 : Tail(Tail(s))[i] = s[i + 2]
  BY PopTwoIndex
<1> HIDE DEF n
<1> DEFINE t == SubSeq(s, 3, n)
           u == Tail(Tail(s))
<1>3. t \in Seq(Ports) /\ Len(t) = n - 2 /\ \A i \in 1 .. n - 2 : t[i] = s[i + 2]
  BY <1>1
<1> HIDE DEF t, u
<1>4. u \in Seq(Ports) /\ Len(u) = n - 2 /\ \A i \in 1 .. n - 2 : u[i] = s[i + 2]
  BY <1>2 DEF u
<1>5. u = t
  BY <1>1, <1>3, <1>4, SMTT(40)
<1>6. QED
  BY <1>5 DEF n, t, u

(* At the start every port is in the pool. *)
LEMMA PooledInit == Init => Pooled
BY GoodInit DEF Init, InitProcess, Pooled

(* A new call takes its pair from the head of the pool, and a release brings a pair back. *)
LEMMA PooledStep == TypeOK /\ OneThreadPerCall /\ Pooled /\ [Next]_vars => Pooled'
<1> SUFFICES ASSUME TypeOK, OneThreadPerCall, Pooled, [Next]_vars PROVE Pooled'
  OBVIOUS
<1> DEFINE key == m_rtpproxy.key
<1>1. key \in CallIds /\ port_pool \in Seq(Ports)
  BY DEF TypeOK, Message
<1>2. CASE NewCall
  <2>1. /\ p_table[key] = NoPair /\ Len(port_pool) >= 2
        /\ p_table' = [p_table EXCEPT ![key] = <<port_pool[1], port_pool[2]>>]
        /\ port_pool' = Tail(Tail(port_pool))
    BY <1>2 DEF NewCall, Found, Call, PopTwo
  <2>2. port_pool' = SubSeq(port_pool, 3, Len(port_pool))
    BY <1>1, <2>1, FromThird
  <2>3. QED
    BY <1>1, <2>1, <2>2, GoodNew DEF Pooled
<1>3. CASE Released
  <2>1. /\ p_table[key] # NoPair
        /\ p_table' = [p_table EXCEPT ![key] = NoPair]
        /\ port_pool' = port_pool \o <<p_table[key][1], p_table[key][2]>>
    BY <1>3 DEF Released, OneThreadPerCall, Call, PushTwo
  <2>2. p_table[key] = <<p_table[key][1], p_table[key][2]>>
    <3>1. p_table[key] \in AllPairs
      BY <1>1, <2>1 DEF Pooled, Good
    <3>2. QED
      BY <3>1, PairIs
  <2>3. QED
    BY <1>1, <2>1, <2>2, GoodOver DEF Pooled
<1>4. CASE UNCHANGED <<port_pool, p_table>>
  BY <1>4 DEF Pooled
<1>5. QED
  BY <1>2, <1>3, <1>4, PortSteps

(* The ports in a queue of answers. *)
PortsOf(s) == [i \in DOMAIN s |-> s[i].port]

(* The ports of a queue of messages, of one that is longer by one and of its tail. *)
LEMMA PortsOfIs ==
  ASSUME NEW s \in Seq(Message)
  PROVE  /\ PortsOf(s) \in Seq(Ports \cup {0}) /\ Len(PortsOf(s)) = Len(s)
         /\ \A m \in Message : PortsOf(Append(s, m)) = Append(PortsOf(s), m.port)
         /\ s # << >> => /\ PortsOf(s) # << >>
                         /\ Head(PortsOf(s)) = Head(s).port
                         /\ PortsOf(Tail(s)) = Tail(PortsOf(s))
<1>1. /\ Len(s) \in Nat /\ DOMAIN s = 1 .. Len(s) /\ \A i \in 1 .. Len(s) : s[i] \in Message
  OBVIOUS
<1>2. \A i \in 1 .. Len(s) : s[i].port \in Ports \cup {0}
  BY <1>1 DEF Message
<1>3. /\ PortsOf(s) \in Seq(Ports \cup {0}) /\ Len(PortsOf(s)) = Len(s)
      /\ \A i \in 1 .. Len(s) : PortsOf(s)[i] = s[i].port
  BY <1>1, <1>2 DEF PortsOf
<1>4. ASSUME NEW m \in Message PROVE PortsOf(Append(s, m)) = Append(PortsOf(s), m.port)
  <2> DEFINE t == Append(s, m)
             u == Append(PortsOf(s), m.port)
  <2>1. /\ DOMAIN t = 1 .. Len(s) + 1 /\ t[Len(s) + 1] = m
        /\ \A i \in 1 .. Len(s) : t[i] = s[i]
    BY <1>1
  <2>2. m.port \in Ports \cup {0}
    BY DEF Message
  <2>3. /\ u \in Seq(Ports \cup {0}) /\ Len(u) = Len(s) + 1 /\ u[Len(s) + 1] = m.port
        /\ \A i \in 1 .. Len(s) : u[i] = s[i].port
    BY <1>1, <1>3, <2>2
  <2> HIDE DEF t, u
  <2>4. u = [i \in 1 .. Len(s) + 1 |-> u[i]]
    BY <2>3
  <2>5. \A i \in 1 .. Len(s) + 1 : u[i] = t[i].port
    BY <1>1, <2>1, <2>3
  <2>6. PortsOf(t) = u
    BY <2>1, <2>4, <2>5 DEF PortsOf
  <2>7. QED
    BY <2>6 DEF t, u
<1>5. ASSUME s # << >>
      PROVE  /\ PortsOf(s) # << >> /\ Head(PortsOf(s)) = Head(s).port
             /\ PortsOf(Tail(s)) = Tail(PortsOf(s))
  <2>1. /\ Len(s) >= 1 /\ Tail(s) \in Seq(Message) /\ Len(Tail(s)) = Len(s) - 1 /\ Head(s) = s[1]
        /\ \A i \in 1 .. Len(s) - 1 : Tail(s)[i] = s[i + 1]
    BY <1>5, TailIs
  <2>2. PortsOf(s) # << >>
    BY <1>3, <2>1
  <2> DEFINE t == Tail(s)
             u == Tail(PortsOf(s))
  <2>3. /\ u \in Seq(Ports \cup {0}) /\ Len(u) = Len(s) - 1 /\ Head(PortsOf(s)) = s[1].port
        /\ \A i \in 1 .. Len(s) - 1 : u[i] = PortsOf(s)[i + 1]
    BY <1>1, <1>3, <2>1, <2>2, TailIs
  <2>4. DOMAIN t = 1 .. Len(s) - 1
    BY <1>1, <2>1
  <2> HIDE DEF t, u
  <2>5. u = [i \in 1 .. Len(s) - 1 |-> u[i]]
    BY <1>1, <2>1, <2>3
  <2>6. \A i \in 1 .. Len(s) - 1 : u[i] = t[i].port
    BY <1>1, <1>3, <2>1, <2>3 DEF t
  <2>7. PortsOf(t) = u
    BY <2>4, <2>5, <2>6 DEF PortsOf
  <2>8. QED
    BY <2>1, <2>2, <2>3, <2>7 DEF t, u
<1>6. QED
  BY <1>3, <1>4, <1>5

(* The answers given, the requests to be served. *)
Queued == InService \o requests

NowFacts ==
  /\ pc # "send" => Given = PortsOf(replies)
  /\ pc = "send" => Given = Append(PortsOf(replies), m_rtpproxy.port)
  /\ pc \in {"serve", "join", "exited"} =>
       Queued # << >> /\ Head(Queued) = m_rtpproxy /\ Tail(Queued) = requests
  /\ pc \in {"recv", "send"} => Queued = requests
  /\ Queued \in Seq(Message)
  /\ GoodState(Now)

(* The state as it is now is one of the states that the service is about. *)
LEMMA NowIs == TypeOK /\ Pooled => NowFacts
<1> SUFFICES ASSUME TypeOK, Pooled PROVE NowFacts
  OBVIOUS
<1>1. /\ m_rtpproxy \in Message /\ requests \in Seq(Message) /\ replies \in Seq(Message)
      /\ m_rtpproxy.port \in Ports \cup {0} /\ pc \in {"recv", "serve", "send", "join", "exited"}
  BY DEF TypeOK, Message
<1>2. Given = PortsOf(replies \o InHand)
  BY DEF Given, PortsOf
<1>3. pc # "send" => Given = PortsOf(replies)
  BY <1>1, <1>2 DEF InHand
<1>4. ASSUME pc = "send" PROVE Given = Append(PortsOf(replies), m_rtpproxy.port)
  <2>1. replies \o InHand = Append(replies, m_rtpproxy)
    BY <1>1, <1>4 DEF InHand
  <2>2. QED
    BY <1>1, <1>2, <2>1, PortsOfIs
<1>5. /\ pc \in {"serve", "join", "exited"} =>
           Queued # << >> /\ Head(Queued) = m_rtpproxy /\ Tail(Queued) = requests
      /\ pc \in {"recv", "send"} => Queued = requests
      /\ Queued \in Seq(Message)
  <2>1. ASSUME NEW m \in Message, NEW s \in Seq(Message)
        PROVE  /\ << >> \o s = s
               /\ <<m>> \o s \in Seq(Message) /\ <<m>> \o s # << >>
               /\ Head(<<m>> \o s) = m /\ Tail(<<m>> \o s) = s
    OBVIOUS
  <2>2. CASE pc \in {"serve", "join", "exited"}
    BY <1>1, <2>1, <2>2 DEF Queued, InService
  <2>3. CASE pc \in {"recv", "send"}
    BY <1>1, <2>1, <2>3 DEF Queued, InService
  <2>4. QED
    BY <1>1, <2>2, <2>3
<1>6. Given \in Seq(Ports \cup {0})
  <2>1. PortsOf(replies) \in Seq(Ports \cup {0})
    BY <1>1, PortsOfIs
  <2>2. QED
    BY <1>1, <1>3, <1>4, <2>1
<1>7. GoodState(Now)
  <2>1. p_table \in [CallIds -> AllPairs \cup {NoPair}] /\ port_pool \in Seq(Ports)
    BY DEF Pooled, Good, InPairs
  <2>2. QED
    BY <1>6, <2>1 DEF Now, With, GoodState, States, Pooled
<1>8. QED
  BY <1>3, <1>4, <1>5, <1>7 DEF NowFacts

(* The refinement mapping is the state as it is now with the queued requests served. *)
LEMMA AllDoneIs == AllDone = Served(Now, Queued)
BY DEF AllDone, Now, With, Queued

(* What the server does is a matter of its own. *)
LEMMA ServerStutters ==
  ASSUME TypeOK, OneThreadPerCall, NowFacts, NowFacts',
         Server \/ \E k \in CallIds : CallThread(k)
  PROVE  AllDone' = AllDone
<1> DEFINE m == m_rtpproxy
<1>1. AllDone = Served(Now, Queued) /\ AllDone' = Served(Now', Queued')
  <2>1. (AllDone = Served(Now, Queued))'
    BY AllDoneIs, PTL
  <2>2. QED
    BY <2>1, AllDoneIs
<1>2. /\ m \in Message /\ requests \in Seq(Message) /\ replies \in Seq(Message)
      /\ m.key \in CallIds /\ p_table \in [CallIds -> Pairs \cup {NoPair}] /\ Now \in States
  BY DEF TypeOK, Message, NowFacts, GoodState
<1>3. Now.table = p_table /\ Now.pool = port_pool /\ Now.answers = Given
  BY DEF Now, With
<1>4. \A t, p, a : p_table' = t /\ port_pool' = p /\ Given' = a => Now' = With(t, p, a)
  BY DEF Now
<1>5. ASSUME pc \in {"serve", "join"}, pc' \in {"send", "recv"}, requests' = requests,
             Now' = Done(Now, m)
      PROVE  AllDone' = AllDone
  <2>1. Queued \in Seq(Message) /\ Queued # << >> /\ Head(Queued) = m /\ Tail(Queued) = requests
    BY <1>5 DEF NowFacts
  <2>2. Queued' = requests
    BY <1>5 DEF NowFacts
  <2>3. Served(Now, Queued) = Served(Done(Now, Head(Queued)), Tail(Queued))
    BY <2>1, ServedFirst
  <2>4. QED
    BY <1>1, <1>5, <2>1, <2>2, <2>3
<1>6. ASSUME pc = "serve", pc' = "send", m.msgtype \in {1, 2}, replies' = replies,
             m_rtpproxy' = [m EXCEPT !.port = m_rtpproxy'.port]
      PROVE  Given' = Append(Given, m_rtpproxy'.port)
  BY <1>6 DEF NowFacts
<1>7. CASE Receive
  <2>1. /\ requests # << >> /\ m_rtpproxy' = Head(requests) /\ requests' = Tail(requests)
        /\ pc = "recv" /\ pc' = "serve" /\ UNCHANGED <<port_pool, p_table, replies>>
    BY <1>7 DEF Receive
  <2>2. Now' = Now
    BY <2>1 DEF NowFacts, Now
  <2>3. Queued' = Queued
    <3>1. \A s \in Seq(Message) : s # << >> => s = <<Head(s)>> \o Tail(s)
      OBVIOUS
    <3>2. Queued' = <<Head(requests)>> \o Tail(requests)
      BY <2>1 DEF Queued, InService
    <3>3. QED
      BY <1>2, <2>1, <3>1, <3>2 DEF NowFacts
  <2>4. QED
    BY <1>1, <2>2, <2>3
<1>8. CASE ApplyAgain \/ Refuse \/ Callee
  <2>1. /\ pc = "serve" /\ pc' = "send" /\ m.msgtype \in {1, 2}
        /\ m_rtpproxy' = [m EXCEPT !.port = p_table[m.key][m.msgtype]]
        /\ UNCHANGED <<port_pool, p_table, requests, replies>>
        /\ ~IsNew(Now, m)
    <3>1. p_table[m.key] = NoPair => p_table[m.key][1] = 0
      BY DEF NoPair
    <3>2. QED
      BY <1>3, <1>8, <3>1 DEF ApplyAgain, Refuse, Callee, Serving, Answer, Found, Call, IsNew
  <2>2. m_rtpproxy'.port = p_table[m.key][m.msgtype]
    BY <1>2, <2>1 DEF Message
  <2>3. Given' = Append(Given, p_table[m.key][m.msgtype])
    BY <1>6, <2>1, <2>2
  <2>4. Done(Now, m) = With(p_table, port_pool, Append(Given, p_table[m.key][m.msgtype]))
    <3>1. m.msgtype # 3
      BY <2>1
    <3>2. Done(Now, m) = With(Now.table, Now.pool,
                              Append(Now.answers, Now.table[m.key][m.msgtype]))
      BY <1>2, <2>1, <3>1, DoneIs, Zenon
    <3>3. QED
      BY <1>3, <3>2, Zenon
  <2>5. QED
    BY <1>4, <1>5, <2>1, <2>3, <2>4
<1>9. CASE NewCall
  <2>1. /\ pc = "serve" /\ pc' = "send" /\ m.msgtype = 1
        /\ m_rtpproxy' = [m EXCEPT !.port = port_pool[1]]
        /\ p_table' = [p_table EXCEPT ![m.key] = <<port_pool[1], port_pool[2]>>]
        /\ port_pool' = Tail(Tail(port_pool))
        /\ UNCHANGED <<requests, replies>>
        /\ IsNew(Now, m)
    BY <1>3, <1>9 DEF NewCall, Serving, Answer, Found, Call, IsNew, PopTwo
  <2>2. m_rtpproxy'.port = port_pool[1]
    BY <1>2, <2>1 DEF Message
  <2>3. Given' = Append(Given, port_pool[1])
    BY <1>6, <2>1, <2>2
  <2>4. port_pool' = SubSeq(port_pool, 3, Len(port_pool))
    BY <1>3, <2>1, FromThird DEF TypeOK, IsNew
  <2>5. Done(Now, m) = With([p_table EXCEPT ![m.key] = <<port_pool[1], port_pool[2]>>],
                            SubSeq(port_pool, 3, Len(port_pool)), Append(Given, port_pool[1]))
    BY <1>2, <1>3, <2>1, DoneIs
  <2>6. QED
    BY <1>4, <1>5, <2>1, <2>3, <2>4, <2>5
<1>10. CASE ReleaseNothing
  <2>1. /\ pc = "serve" /\ pc' = "recv" /\ m.msgtype = 3 /\ p_table[m.key] = NoPair
        /\ UNCHANGED <<port_pool, p_table, requests, replies>>
    BY <1>10 DEF ReleaseNothing, Serving, Found, Call
  <2>2. Now' = Now
    BY <2>1 DEF NowFacts, Now
  <2>3. Done(Now, m) = Now
    BY <1>2, <1>3, <2>1, DoneIs
  <2>4. QED
    BY <1>5, <2>1, <2>2, <2>3
<1>11. CASE Released
  <2>1. /\ pc = "join" /\ pc' = "recv" /\ m.msgtype = 3 /\ p_table[m.key] # NoPair
        /\ p_table' = [p_table EXCEPT ![m.key] = NoPair]
        /\ port_pool' = port_pool \o <<p_table[m.key][1], p_table[m.key][2]>>
        /\ UNCHANGED <<requests, replies>>
    BY <1>11 DEF Released, OneThreadPerCall, Call, PushTwo
  <2>2. p_table[m.key] = <<p_table[m.key][1], p_table[m.key][2]>>
    BY <1>2, <2>1 DEF Pairs
  <2>3. Given' = Given
    BY <2>1 DEF NowFacts
  <2>4. Done(Now, m) = With([p_table EXCEPT ![m.key] = NoPair], port_pool \o p_table[m.key], Given)
    BY <1>2, <1>3, <2>1, DoneIs
  <2>5. QED
    BY <1>4, <1>5, <2>1, <2>2, <2>3, <2>4
<1>12. CASE Shut \/ Exit \/ \E k \in CallIds : CallThread(k)
  <2>1. /\ m_rtpproxy' = m /\ UNCHANGED <<port_pool, p_table, requests, replies>>
        /\ (pc = "serve" /\ pc' \in {"join", "exited"}) \/ pc' = pc
    BY <1>12 DEF Shut, Exit, CallThread, Serving
  <2>2. InHand' = InHand /\ InService' = InService
    BY <2>1 DEF InHand, InService
  <2>3. Now' = Now /\ Queued' = Queued
    BY <2>1, <2>2 DEF Now, Given, Queued
  <2>4. QED
    BY <1>1, <2>3
<1>13. CASE Send
  <2>1. /\ pc = "send" /\ pc' = "recv" /\ replies' = Append(replies, m)
        /\ UNCHANGED <<port_pool, p_table, requests>>
    BY <1>13 DEF Send
  <2>2. Given' = Given
    BY <1>2, <2>1, PortsOfIs DEF NowFacts
  <2>3. Now' = Now /\ Queued' = Queued
    BY <2>1, <2>2 DEF Now, NowFacts
  <2>4. QED
    BY <1>1, <2>3
<1>14. QED
  BY <1>7, <1>8, <1>9, <1>10, <1>11, <1>12, <1>13 DEF Server

-----------------------------------------------------------------------------
(***************************************************************************)
(* What the client does is a step of the service.  First the request that  *)
(* goes to the end of the queue, as a matter of the state it will find.    *)
(***************************************************************************)
FreeIn(state) == {pair \in AllPairs : \A k \in CallIds : state.table[k] # pair}

Keeps(state, after, port) ==
  after.table = state.table /\ after.answers = Append(state.answers, port)

Gives(state, after, k, pair) ==
  /\ pair \in FreeIn(state)
  /\ after.table = [state.table EXCEPT ![k] = pair]
  /\ after.answers = Append(state.answers, pair[1])

(* What serving a request does is, case by case, what PortService lets it do. *)
LEMMA DoneIsAsked ==
  ASSUME NEW state, GoodState(state), NEW m \in Request
  PROVE  LET after == Done(state, m)
             pair  == state.table[m.key]
         IN  \/ m.msgtype = 1 /\ pair # NoPair /\ Keeps(state, after, pair[1])
             \/ m.msgtype = 1 /\ pair = NoPair /\ \E new : Gives(state, after, m.key, new)
             \/ m.msgtype = 1 /\ pair = NoPair /\ FreeIn(state) = {} /\ Keeps(state, after, 0)
             \/ m.msgtype = 2 /\ Keeps(state, after, pair[2])
             \/ /\ m.msgtype = 3 /\ after.table = [state.table EXCEPT ![m.key] = NoPair]
                /\ after.answers = state.answers
<1> DEFINE after == Done(state, m)
           pair  == state.table[m.key]
           new   == <<state.pool[1], state.pool[2]>>
<1>1. /\ state \in States /\ Good(state.table, state.pool)
      /\ state.table \in [CallIds -> AllPairs \cup {NoPair}]
      /\ m \in Message /\ m.key \in CallIds /\ m.msgtype \in 1 .. 3
  BY DEF GoodState, States, Request, Message, MsgTypes
<1>2. \A t, p, a : With(t, p, a).table = t /\ With(t, p, a).answers = a
  BY DEF With
<1>3. CASE m.msgtype = 3 /\ pair = NoPair
  <2>1. after = state
    BY <1>1, <1>3, DoneIs
  <2>2. [state.table EXCEPT ![m.key] = NoPair] = state.table
    BY <1>1, <1>3
  <2>3. QED
    BY <1>3, <2>1, <2>2
<1>4. CASE m.msgtype = 3 /\ pair # NoPair
  <2>1. after = With([state.table EXCEPT ![m.key] = NoPair], state.pool \o pair, state.answers)
    BY <1>1, <1>4, DoneIs
  <2>2. QED
    BY <1>2, <1>4, <2>1
<1>5. CASE IsNew(state, m)
  <2>1. m.msgtype = 1 /\ pair = NoPair /\ Len(state.pool) >= 2
    BY <1>5 DEF IsNew
  <2>2. after = With([state.table EXCEPT ![m.key] = new],
                     SubSeq(state.pool, 3, Len(state.pool)), Append(state.answers, state.pool[1]))
    BY <1>1, <1>5, DoneIs
  <2>3. new \in AllPairs /\ (\A k \in CallIds : state.table[k] # new) /\ new[1] = state.pool[1]
    BY <1>1, <2>1, GoodNew
  <2>4. /\ after.table = [state.table EXCEPT ![m.key] = new]
        /\ after.answers = Append(state.answers, state.pool[1])
    BY <2>2 DEF With
  <2> HIDE DEF after, new
  <2>5. Gives(state, after, m.key, new)
    BY <2>3, <2>4 DEF Gives, FreeIn
  <2>6. QED
    BY <2>1, <2>5 DEF after
<1>6. CASE m.msgtype # 3 /\ ~IsNew(state, m)
  <2>1. after = With(state.table, state.pool, Append(state.answers, pair[m.msgtype]))
    BY <1>1, <1>6, DoneIs, Zenon
  <2>2. Keeps(state, after, pair[m.msgtype])
    BY <2>1 DEF Keeps, With
  <2>3. CASE m.msgtype = 2
    BY <2>2, <2>3
  <2>4. CASE m.msgtype = 1 /\ pair # NoPair
    BY <2>2, <2>4
  <2>5. CASE m.msgtype = 1 /\ pair = NoPair
    <3>1. ~ (Len(state.pool) >= 2)
      BY <1>6, <2>5 DEF IsNew
    <3>2. FreeIn(state) = {}
      BY <1>1, <3>1, GoodFull DEF FreeIn
    <3>3. pair[m.msgtype] = 0
      BY <2>5 DEF NoPair
    <3>4. QED
      BY <2>2, <2>5, <3>2, <3>3
  <2>6. QED
    BY <1>1, <1>6, <2>3, <2>4, <2>5
<1>7. QED
  BY <1>3, <1>4, <1>5, <1>6 DEF IsNew

(* msgsnd puts it there. *)
LEMMA SendIsService ==
  ASSUME TypeOK, asked \in Request, NowFacts, NowFacts', get_port_send
  PROVE  Service!Next
<1>1. /\ cpc = "msgsnd" /\ requests' = Append(requests, asked)
      /\ cpc' = IF asked.msgtype = 3 THEN "idle" ELSE "msgrcv"
      /\ UNCHANGED <<pc, m_rtpproxy, port_pool, p_table, replies, asked, got>>
  BY DEF get_port_send, serverVars
<1>2. /\ requests \in Seq(Message) /\ m_rtpproxy \in Message
      /\ asked \in Message /\ asked.key \in CallIds /\ asked.msgtype \in 1 .. 3
  BY DEF TypeOK, Request, Message, MsgTypes
<1>3. AllDone' = Done(AllDone, asked)
  <2>1. Now' = Now
    BY <1>1 DEF Now, Given, InHand
  <2>2. Queued' = Append(Queued, asked)
    <3>1. InService' = InService
      BY <1>1 DEF InService
    <3>2. InService \in Seq(Message)
      BY <1>2 DEF InService
    <3>3. \A s \in Seq(Message) : s \o Append(requests, asked) = Append(s \o requests, asked)
      BY <1>2
    <3>4. QED
      BY <1>1, <3>1, <3>2, <3>3 DEF Queued
  <2>3. (AllDone = Served(Now, Queued))'
    BY AllDoneIs, PTL
  <2>4. Queued \in Seq(Message)
    BY DEF NowFacts
  <2>5. QED
    BY <1>2, <2>1, <2>2, <2>3, <2>4, AllDoneIs, ServedAppend
<1>4. GoodState(AllDone)
  BY AllDoneIs, ServedGood DEF NowFacts
<1> DEFINE k == asked.key
           pair == AllDone.table[k]
<1>5. \/ asked.msgtype = 1 /\ pair # NoPair /\ Keeps(AllDone, AllDone', pair[1])
      \/ asked.msgtype = 1 /\ pair = NoPair /\ \E new : Gives(AllDone, AllDone', k, new)
      \/ asked.msgtype = 1 /\ pair = NoPair /\ FreeIn(AllDone) = {} /\ Keeps(AllDone, AllDone', 0)
      \/ asked.msgtype = 2 /\ Keeps(AllDone, AllDone', pair[2])
      \/ /\ asked.msgtype = 3 /\ AllDone'.table = [AllDone.table EXCEPT ![k] = NoPair]
         /\ AllDone'.answers = AllDone.answers
  BY <1>3, <1>4, DoneIsAsked
<1>6. FreeIn(AllDone) = Service!Free
  BY DEF FreeIn, Service!Free, Service!AllPairs, AllPairs
<1>7. asked.msgtype # 3 => Service!Owe(k)
  BY <1>1 DEF Service!Owe, Service!None
<1>8. CASE asked.msgtype = 1
  <2> SUFFICES Service!Apply(k)
    BY <1>2 DEF Service!Next
  <2>1. Service!Owe(k) /\ NoPair = Service!NoPair
    BY <1>7, <1>8 DEF NoPair, Service!NoPair
  <2>2. CASE pair # NoPair /\ Keeps(AllDone, AllDone', pair[1])
    BY <2>1, <2>2 DEF Service!Apply, Keeps
  <2>3. CASE pair = NoPair /\ \E new : Gives(AllDone, AllDone', k, new)
    BY <1>6, <2>1, <2>3 DEF Service!Apply, Gives
  <2>4. CASE pair = NoPair /\ FreeIn(AllDone) = {} /\ Keeps(AllDone, AllDone', 0)
    BY <1>6, <2>1, <2>4 DEF Service!Apply, Keeps
  <2>5. QED
    BY <1>5, <1>8, <2>2, <2>3, <2>4
<1>9. CASE asked.msgtype = 2
  <2>1. Service!Query(k)
    BY <1>5, <1>7, <1>9 DEF Service!Query, Keeps
  <2>2. QED
    BY <1>2, <2>1 DEF Service!Next
<1>10. CASE asked.msgtype = 3
  <2>1. Service!Release(k)
    BY <1>1, <1>5, <1>10 DEF Service!Release, Service!None, NoPair, Service!NoPair
  <2>2. QED
    BY <1>2, <2>1 DEF Service!Next
<1>11. QED
  BY <1>2, <1>8, <1>9, <1>10

(* The first of a queue may be read before or after another comes. *)
LEMMA ReadFirst ==
  ASSUME NEW M, NEW s \in Seq(M), s # << >>, NEW p \in M
  PROVE  /\ Append(s, p) # << >> /\ Head(Append(s, p)) = Head(s)
         /\ Tail(Append(s, p)) = Append(Tail(s), p)
<1> DEFINE t == Append(s, p)
           u == Tail(t)
           v == Append(Tail(s), p)
<1>1. /\ Head(s) = s[1] /\ Len(s) \in Nat /\ Len(s) >= 1
      /\ Tail(s) \in Seq(M) /\ Len(Tail(s)) = Len(s) - 1
      /\ \A i \in 1 .. Len(s) - 1 : Tail(s)[i] = s[i + 1]
  BY TailIs
<1>2. /\ t \in Seq(M) /\ Len(t) = Len(s) + 1 /\ t[Len(s) + 1] = p
      /\ \A i \in 1 .. Len(s) : t[i] = s[i]
  BY <1>1
<1> HIDE DEF t
<1>3. t # << >>
  BY <1>1, <1>2
<1>4. /\ Head(t) = t[1] /\ u \in Seq(M) /\ Len(u) = Len(t) - 1
      /\ \A i \in 1 .. Len(t) - 1 : u[i] = t[i + 1]
  BY <1>2, <1>3, TailIs
<1>5. /\ v \in Seq(M) /\ Len(v) = Len(s) /\ v[Len(s)] = p
      /\ \A i \in 1 .. Len(s) - 1 : v[i] = s[i + 1]
  BY <1>1
<1> HIDE DEF u, v
<1>6. u = v
  <2>1. Len(u) = Len(v)
    BY <1>1, <1>2, <1>4, <1>5
  <2>2. ASSUME NEW i \in 1 .. Len(s) PROVE u[i] = v[i]
    BY <1>1, <1>2, <1>4, <1>5
  <2>3. QED
    BY <1>1, <1>4, <1>5, <2>1, <2>2
<1>7. QED
  BY <1>1, <1>2, <1>3, <1>4, <1>6 DEF t, u, v

(* msgrcv takes the first answer there is. *)
LEMMA ReceiveIsService ==
  ASSUME TypeOK, asked \in Request, NowFacts, NowFacts', get_port_receive
  PROVE  Service!Next
<1>1. /\ cpc = "msgrcv" /\ cpc' = "idle" /\ replies # << >> /\ replies' = Tail(replies)
      /\ got' = [key |-> asked.key, port |-> Head(replies).port]
      /\ UNCHANGED <<pc, m_rtpproxy, port_pool, p_table, requests, asked>>
  BY DEF get_port_receive, serverVars
<1>2. replies \in Seq(Message) /\ m_rtpproxy.port \in Ports \cup {0}
  BY DEF TypeOK, Message
<1>3. /\ PortsOf(replies) \in Seq(Ports \cup {0}) /\ PortsOf(replies) # << >>
      /\ Head(PortsOf(replies)) = Head(replies).port
      /\ PortsOf(replies)' = Tail(PortsOf(replies))
  BY <1>1, <1>2, PortsOfIs
<1>4. Given # << >> /\ Head(Given) = Head(replies).port /\ Given' = Tail(Given)
  <2>1. CASE pc # "send"
    BY <1>1, <1>3, <2>1 DEF NowFacts
  <2>2. CASE pc = "send"
    <3>1. /\ Given = Append(PortsOf(replies), m_rtpproxy.port)
          /\ Given' = Append(PortsOf(replies)', m_rtpproxy.port)
      BY <1>1, <2>2 DEF NowFacts
    <3>2. QED
      BY <1>2, <1>3, <3>1, ReadFirst
  <2>3. QED
    BY <2>1, <2>2
<1>5. Now' = Read(Now) /\ Queued' = Queued
  BY <1>1, <1>4 DEF Now, Read, With, Queued, InService
<1>6. /\ AllDone' = Read(AllDone) /\ AllDone.answers # << >>
      /\ Head(AllDone.answers) = Head(replies).port
  <2>1. (AllDone = Served(Now, Queued))'
    BY AllDoneIs, PTL
  <2>2. Now.answers = Given
    BY DEF Now, With
  <2>3. /\ Served(Read(Now), Queued) = Read(Served(Now, Queued))
        /\ Served(Now, Queued).answers # << >>
        /\ Head(Served(Now, Queued).answers) = Head(Now.answers)
    BY <1>4, <2>2, ServedRead DEF NowFacts
  <2>4. QED
    BY <1>4, <1>5, <2>1, <2>2, <2>3, AllDoneIs
<1>7. AllDone'.table = AllDone.table /\ AllDone'.answers = Tail(AllDone.answers)
  BY <1>6 DEF Read, With
<1>8. asked.key # "none"
  BY NoneAssumption DEF Request
<1>9. Service!Return
  BY <1>1, <1>6, <1>7, <1>8 DEF Service!Return, Service!None
<1>10. QED
  BY <1>9 DEF Service!Next

(* Every other step is one the service does not see; a kill it does. *)
LEMMA StepIsService ==
  ASSUME TypeOK, OneThreadPerCall, asked \in Request, NowFacts, NowFacts', [NextIpc]_ipcVars
  PROVE  [Service!Next]_(Service!vars)
<1>1. ASSUME UNCHANGED vars PROVE AllDone' = AllDone
  <2>1. UNCHANGED <<pc, m_rtpproxy, port_pool, p_table, requests, replies>>
    BY <1>1 DEF vars, serverVars
  <2>2. InHand' = InHand /\ InService' = InService
    BY <2>1 DEF InHand, InService
  <2>3. Now' = Now /\ Queued' = Queued
    BY <2>1, <2>2 DEF Now, Given, Queued
  <2>4. (AllDone = Served(Now, Queued))'
    BY AllDoneIs, PTL
  <2>5. QED
    BY <2>3, <2>4, AllDoneIs
<1>2. CASE ServerStep
  <2>1. AllDone' = AllDone
    BY <1>2, ServerStutters DEF ServerStep
  <2>2. QED
    BY <1>2, <2>1 DEF ServerStep, clientVars, Service!vars
<1>3. CASE \E t \in MsgTypes, k \in CallIds : set_m_rtpproxy(t, k)
  <2>1. AllDone' = AllDone /\ cpc = "idle" /\ cpc' = "msgsnd" /\ got' = got
    BY <1>1, <1>3 DEF set_m_rtpproxy
  <2>2. QED
    BY <2>1 DEF Service!vars
<1>4. CASE Restart
  <2>1. AllDone' = AllDone /\ cpc' = "idle" /\ got' = NoResult
    BY <1>1, <1>4 DEF Restart
  <2>2. Service!Kill
    BY <2>1 DEF Service!Kill, Service!None, Service!Nothing, NoResult
  <2>3. QED
    BY <2>2 DEF Service!Next
<1>5. CASE UNCHANGED ipcVars
  <2>1. AllDone' = AllDone /\ UNCHANGED <<cpc, asked, got>>
    BY <1>1, <1>5 DEF ipcVars, clientVars
  <2>2. QED
    BY <2>1 DEF Service!vars
<1>6. CASE get_port
  BY <1>6, SendIsService, ReceiveIsService DEF get_port
<1>7. QED
  BY <1>2, <1>3, <1>4, <1>5, <1>6 DEF NextIpc

(* At first no call has ports and nothing is owed. *)
LEMMA InitIsService == InitIpc => Service!Init
<1> SUFFICES ASSUME InitIpc PROVE Service!Init
  OBVIOUS
<1>1. /\ pc = "recv" /\ requests = << >> /\ replies = << >> /\ cpc = "idle" /\ got = NoResult
      /\ p_table = [k \in CallIds |-> NoPair]
  BY DEF InitIpc, Init, InitProcess
<1>2. NowFacts
  BY TypeInit, PooledInit, NowIs DEF InitIpc
<1>3. Queued = << >>
  BY <1>1, <1>2 DEF NowFacts
<1>4. Given = << >>
  <2>1. replies \in Seq(Message) /\ Len(replies) = 0
    BY <1>1
  <2>2. PortsOf(replies) \in Seq(Ports \cup {0}) /\ Len(PortsOf(replies)) = 0
    BY <2>1, PortsOfIs
  <2>3. PortsOf(replies) = << >>
    BY <2>2
  <2>4. QED
    BY <1>1, <1>2, <2>3 DEF NowFacts
<1>5. AllDone = Now
  BY <1>3, AllDoneIs, ServedNone
<1>6. AllDone.table = p_table /\ AllDone.answers = << >>
  BY <1>4, <1>5 DEF Now, With
<1>7. QED
  BY <1>1, <1>6 DEF Service!Init, Service!NoPair, Service!None, Service!Nothing, NoPair, NoResult

-----------------------------------------------------------------------------
(* The inductive invariant of the two processes. *)
IInvIpc ==
  /\ IInv
  /\ TypeOKIpc
  /\ asked \in Request
  /\ StrayAnswersBounded
  /\ AnswerOwed
  /\ Pooled

(* What the server's own invariant needs of a step, in one place. *)
LEMMA ServerStepInv == IInv /\ [Next]_vars => IInv'
BY TypeStep, ThreadsStep, ExclusiveStep, CompleteStep, PairsStep, AnswerStep DEF IInv

(* Every reachable state satisfies it. *)
THEOREM InvarianceIpc == SpecIpc => []IInvIpc
<1>1. InitIpc => IInvIpc
  <2> SUFFICES ASSUME InitIpc PROVE IInvIpc
    OBVIOUS
  <2>1. Init
    BY DEF InitIpc
  <2>2. IInv
    BY <2>1, TypeInit, ThreadsInit, ExclusiveInit, CompleteInit, PairsInit, AnswerInit DEF IInv
  <2>3. QED
    BY <2>1, <2>2, TypeInitIpc, StrayInit, PooledInit DEF IInvIpc
<1>2. IInvIpc /\ [NextIpc]_ipcVars => IInvIpc'
  <2> SUFFICES ASSUME IInvIpc, [NextIpc]_ipcVars PROVE IInvIpc'
    OBVIOUS
  <2>1. asked \in Request /\ TypeOK /\ OneThreadPerCall /\ Pooled
        /\ IInv /\ TypeOKIpc /\ StrayAnswersBounded /\ AnswerOwed
    BY DEF IInvIpc, IInv
  <2>2. [Next]_vars
    BY <2>1, IpcStepIsStep
  <2>3. IInv'
    BY <2>1, <2>2, ServerStepInv
  <2>4. TypeOK'
    BY <2>3 DEF IInv
  <2>5. asked' \in Request
    BY <2>1, RequestStep
  <2>6. TypeOKIpc'
    BY <2>1, <2>4, TypeStepIpc
  <2>7. StrayAnswersBounded' /\ AnswerOwed'
    BY <2>1, <2>4, StrayStep
  <2>8. Pooled'
    BY <2>1, <2>2, PooledStep
  <2>9. QED
    BY <2>3, <2>5, <2>6, <2>7, <2>8 DEF IInvIpc
<1>3. QED
  BY <1>1, <1>2, PTL DEF SpecIpc

(* The variables of both processes always have their types. *)
THEOREM TypeCorrectIpc == SpecIpc => []TypeOKIpc
<1>1. IInvIpc => TypeOKIpc
  BY DEF IInvIpc
<1>2. QED
  BY <1>1, InvarianceIpc, PTL

(***************************************************************************)
(* However often the CSCF is killed (main.c:11), the requests without an   *)
(* answer and the answers nobody has read are at most one for each kill    *)
(* and the one get_port waits for (module_rtpproxy.c:76-87).              *)
(***************************************************************************)
THEOREM StrayAnswersStayBounded == SpecIpc => []StrayAnswersBounded
<1>1. IInvIpc => StrayAnswersBounded
  BY DEF IInvIpc
<1>2. QED
  BY <1>1, InvarianceIpc, PTL

(***************************************************************************)
(* And they are at least one while get_port waits: it is never in msgrcv   *)
(* with nothing asked for, in hand or on its way (module_rtpproxy.c:76-87, *)
(* main.cpp:47-107), whatever answers of killed runs it has been given.    *)
(***************************************************************************)
THEOREM AnswersAreOwed == SpecIpc => []AnswerOwed
<1>1. IInvIpc => AnswerOwed
  BY DEF IInvIpc
<1>2. QED
  BY <1>1, InvarianceIpc, PTL

(***************************************************************************)
(* With its client on the queues the server is the server of RtpServer     *)
(* with any clients: what is proved of that one holds here, such as that   *)
(* no port is ever in two hands (main.cpp:70-75, 100-105).                 *)
(***************************************************************************)
THEOREM ServerIsServer == SpecIpc => Spec
<1>1. InitIpc => Init
  BY DEF InitIpc
<1>2. IInvIpc /\ [NextIpc]_ipcVars => [Next]_vars
  BY IpcStepIsStep DEF IInvIpc
<1>3. QED
  BY <1>1, <1>2, InvarianceIpc, PTL DEF SpecIpc, Spec

(* In the composed system, too, no port is held twice (main.cpp:47-107): the server does not
   depend on who is at the other end of its queues. *)
THEOREM ExclusivePortsIpc == SpecIpc => []PortsExclusive
BY ServerIsServer, ExclusivePorts, PTL

(***************************************************************************)
(* get_port and the server implement the sequential service of             *)
(* PortService (module_rtpproxy.c:76-87, main.cpp:47-107): as callers see *)
(* it, requests are served one at a time and in order, whatever is on the  *)
(* queues and whenever the CSCF is killed.                                 *)
(***************************************************************************)
THEOREM ServiceIsImplemented == SpecIpc => ImplementsService
<1>1. InitIpc => Service!Init
  BY InitIsService
<1>2. IInvIpc => TypeOK /\ OneThreadPerCall /\ asked \in Request /\ NowFacts
  BY NowIs DEF IInvIpc, IInv
<1>3. TypeOK /\ OneThreadPerCall /\ asked \in Request /\ NowFacts /\ NowFacts'
      /\ [NextIpc]_ipcVars => [Service!Next]_(Service!vars)
  BY StepIsService
<1>4. QED
  BY <1>1, <1>2, <1>3, InvarianceIpc, PTL DEF SpecIpc, ImplementsService, Service!Spec

-----------------------------------------------------------------------------
(* Before the first kill get_port takes its own answer: the request waits  *)
(* behind releases only, is being served, or its answer is the only one.   *)
OwnPort == p_table[asked.key][asked.msgtype]

Awaited ==
  kills = 0 /\ cpc = "msgrcv" =>
    /\ asked.msgtype \in {1, 2}
    /\ \/ requests # <<>> /\ requests[Len(requests)] = asked
       \/ requests = <<>> /\ pc \in {"serve", "exited"} /\ m_rtpproxy = asked
       \/ requests = <<>> /\ pc = "send" /\ m_rtpproxy.port = OwnPort
       \/ requests = <<>> /\ pc = "recv" /\ replies # <<>> /\ replies[1].port = OwnPort

(* A request for a port that is last in the queue is counted there. *)
LEMMA LastIsWanted ==
  ASSUME TypeOK, requests # <<>>, requests[Len(requests)].msgtype \in {1, 2}
  PROVE  Wants(requests) >= 1
<1> DEFINE K == {m \in Message : m.msgtype \in {1, 2}}
<1>1. requests \in Seq(Message) /\ Len(requests) \in DOMAIN requests
      /\ requests[Len(requests)] \in K
  BY DEF TypeOK
<1>2. Wants(requests) = CountIn(requests, K)
  BY <1>1, CountTypesIn DEF Wants
<1> HIDE DEF K
<1>3. CountIn(requests, K) \in Nat /\ CountIn(requests, K) # 0
  BY <1>1, CountInIsNat
<1>4. QED
  BY <1>2, <1>3

(* Before the first kill there is no other answer than the one that get_port waits for. *)
LEMMA NoOther ==
  ASSUME IInvIpc, kills = 0, cpc = "msgrcv", Awaited
  PROVE  /\ asked.msgtype \in {1, 2}
         /\ requests # <<>> => replies = <<>> /\ pc # "send" /\ Held = 0
         /\ pc \in {"serve", "exited", "send"} /\ requests = <<>> => replies = <<>>
<1>1. TypeOK /\ Wants(InService) = Held /\ Len(Given) = Len(replies) + Sure
      /\ Wants(requests) \in Nat /\ Len(replies) \in Nat
  BY StrayTerms DEF IInvIpc, TypeOKIpc
<1>2. Held \in {0, 1} /\ Sure \in {0, 1}
  BY DEF Held, Sure, One
<1>3. Held + Wants(requests) + (Len(replies) + Sure) <= 1
  BY <1>1 DEF IInvIpc, StrayAnswersBounded
<1>4. asked.msgtype \in {1, 2}
  BY DEF Awaited
<1>5. Len(replies) = 0 => replies = <<>>
  BY <1>1 DEF TypeOK
<1>6. ASSUME requests # <<>>
      PROVE  replies = <<>> /\ pc # "send" /\ Held = 0
  <2>1. Wants(requests) >= 1
    BY <1>1, <1>4, <1>6, LastIsWanted DEF Awaited
  <2>2. Held = 0 /\ Len(replies) = 0 /\ Sure = 0
    BY <1>1, <1>2, <1>3, <2>1
  <2>3. QED
    BY <1>5, <2>2 DEF Sure
<1>7. ASSUME pc \in {"serve", "exited", "send"}, requests = <<>>
      PROVE  replies = <<>>
  <2>1. Held = 1 \/ Sure = 1
    BY <1>4, <1>7 DEF Awaited, Held, Sure, One
  <2>2. Len(replies) = 0
    BY <1>1, <1>2, <1>3, <2>1
  <2>3. QED
    BY <1>5, <2>2
<1>8. QED
  BY <1>4, <1>6, <1>7

(* Every step keeps it. *)
LEMMA AwaitedStep == IInvIpc /\ Awaited /\ [NextIpc]_ipcVars => Awaited'
<1> SUFFICES ASSUME IInvIpc, Awaited, [NextIpc]_ipcVars, kills' = 0, cpc' = "msgrcv"
             PROVE  Awaited'
  BY DEF Awaited
<1>1. /\ TypeOK /\ kills \in Nat /\ asked \in Request
      /\ m_rtpproxy \in Message /\ requests \in Seq(Message) /\ replies \in Seq(Message)
      /\ p_table \in [CallIds -> Pairs \cup {NoPair}]
      /\ asked.key \in CallIds /\ asked.msgtype \in 1 .. 3 /\ asked \in Message
  BY KillAssumption DEF IInvIpc, TypeOKIpc, TypeOK, Request, MsgTypes, Message
<1>2. ~Restart /\ ~get_port_receive
  BY <1>1 DEF Restart, get_port_receive
<1>3. CASE get_port_send
  <2>1. asked' = asked /\ asked.msgtype # 3 /\ requests' = Append(requests, asked)
    BY <1>3 DEF get_port_send
  <2>2. requests' # <<>> /\ requests'[Len(requests')] = asked
    BY <1>1, <2>1
  <2>3. QED
    BY <1>1, <2>1, <2>2 DEF Awaited
<1>4. CASE UNCHANGED ipcVars \/ \E t \in MsgTypes, k \in CallIds : set_m_rtpproxy(t, k)
  BY <1>4 DEF set_m_rtpproxy, ipcVars, clientVars, vars, serverVars, Awaited, OwnPort
<1>5. ASSUME ServerStep PROVE Awaited'
  <2>1. UNCHANGED <<cpc, asked, kills>>
    BY <1>5 DEF ServerStep, clientVars
  <2>2. kills = 0 /\ cpc = "msgrcv" /\ asked.msgtype \in {1, 2}
    BY <2>1 DEF Awaited
  <2>3. /\ requests # <<>> => replies = <<>> /\ pc # "send" /\ Held = 0
        /\ pc \in {"serve", "exited", "send"} /\ requests = <<>> => replies = <<>>
    BY <2>2, NoOther
  <2>4. CASE Receive
    <3>1. /\ pc = "recv" /\ pc' = "serve" /\ requests # <<>>
          /\ m_rtpproxy' = Head(requests) /\ requests' = Tail(requests)
      BY <2>4 DEF Receive
    <3>2. requests[Len(requests)] = asked
      BY <2>2, <3>1 DEF Awaited
    <3>3. CASE Len(requests) = 1
      <4>1. requests' = <<>> /\ m_rtpproxy' = asked
        BY <1>1, <3>1, <3>2, <3>3
      <4>2. QED
        BY <2>1, <2>2, <3>1, <4>1 DEF Awaited
    <3>4. CASE Len(requests) # 1
      <4>1. PICK n \in Nat : n = Len(requests)
        BY <1>1
      <4>2. n >= 2
        BY <1>1, <3>1, <3>4, <4>1
      <4>3. /\ Len(Tail(requests)) = n - 1
            /\ \A i \in 1 .. n - 1 : Tail(requests)[i] = requests[i + 1]
        BY <1>1, <3>1, <4>1, TailIs
      <4>4. Tail(requests) # <<>>
        <5>1. Len(<<>>) = 0 /\ n - 1 # 0
          BY <4>2
        <5>2. QED
          BY <4>3, <5>1, Zenon
      <4>5. requests'[Len(requests')] = asked
        BY <3>1, <3>2, <4>1, <4>2, <4>3
      <4>6. QED
        BY <2>1, <2>2, <3>1, <4>4, <4>5 DEF Awaited
    <3>5. QED
      BY <3>3, <3>4
  <2>5. CASE requests # <<>> /\ ~Receive
    <3>1. requests' = requests
      BY <1>5, <2>5
      DEF ServerStep, Server, ApplyAgain, Refuse, NewCall, Exit, Callee, Send, ReleaseNothing,
          Shut, Released, CallThread
    <3>2. QED
      BY <2>1, <2>2, <2>5, <3>1 DEF Awaited
  <2>6. CASE requests = <<>> /\ (ApplyAgain \/ Refuse \/ NewCall \/ Callee)
    <3>1. /\ pc = "serve" /\ pc' = "send" /\ requests' = <<>>
      BY <2>6 DEF ApplyAgain, Refuse, NewCall, Callee, Serving, Answer
    <3>2. m_rtpproxy = asked
      BY <2>2, <2>6, <3>1 DEF Awaited
    <3>3. m_rtpproxy'.port = p_table'[asked.key][asked.msgtype]
      <4>1. CASE ApplyAgain \/ Callee
        BY <1>1, <3>2, <4>1 DEF ApplyAgain, Callee, Serving, Answer, Message
      <4>2. CASE Refuse
        BY <1>1, <3>2, <4>2 DEF Refuse, Serving, Answer, Message, Found, Call, NoPair
      <4>3. CASE NewCall
        BY <1>1, <3>2, <4>3 DEF NewCall, Serving, Answer, Message
      <4>4. QED
        BY <2>6, <4>1, <4>2, <4>3
    <3>4. QED
      BY <2>1, <2>2, <3>1, <3>3 DEF Awaited, OwnPort
  <2>7. CASE requests = <<>> /\ Exit
    BY <2>1, <2>2, <2>7 DEF Awaited, Exit, Serving
  <2>8. CASE requests = <<>> /\ Send
    <3>1. pc = "send" /\ pc' = "recv" /\ replies' = Append(replies, m_rtpproxy)
          /\ UNCHANGED <<p_table, requests>>
      BY <2>8 DEF Send
    <3>2. m_rtpproxy.port = OwnPort /\ replies = <<>>
      BY <2>2, <2>3, <2>8, <3>1 DEF Awaited
    <3>3. replies' # <<>> /\ replies'[1] = m_rtpproxy
      BY <1>1, <3>1, <3>2
    <3>4. QED
      BY <2>1, <2>2, <2>8, <3>1, <3>2, <3>3 DEF Awaited, OwnPort
  <2>9. ~ (requests = <<>> /\ (ReleaseNothing \/ Shut \/ Released))
    BY <2>2 DEF Awaited, ReleaseNothing, Shut, Released, Serving
  <2>10. CASE requests = <<>> /\ \E k \in CallIds : CallThread(k)
    BY <2>1, <2>2, <2>10 DEF Awaited, OwnPort, CallThread
  <2>11. QED
    BY <1>5, <2>4, <2>5, <2>6, <2>7, <2>8, <2>9, <2>10 DEF ServerStep, Server
<1>6. QED
  BY <1>2, <1>3, <1>4, <1>5 DEF NextIpc, get_port

(***************************************************************************)
(* Until the CSCF is killed for the first time, get_port returns the port  *)
(* asked for, of that very call, as the server has it then: repeated and   *)
(* out-of-place requests and releases nobody waits for do not change that  *)
(* (module_rtpproxy.c:77-87).  That a kill does is shown by ipc_stale.     *)
(***************************************************************************)
THEOREM AnswersAreOwn == SpecIpc => OwnAnswer
<1>1. InitIpc => Awaited
  BY DEF InitIpc, Awaited
<1>2. IInvIpc /\ Awaited /\ [NextIpc]_ipcVars =>
        [cpc = "msgrcv" /\ cpc' = "idle" /\ kills' = 0
           => got'.port = p_table[got'.key][asked.msgtype]]_ipcVars
  <2> SUFFICES ASSUME IInvIpc, Awaited, [NextIpc]_ipcVars,
                      cpc = "msgrcv", cpc' = "idle", kills' = 0
               PROVE  got'.port = p_table[got'.key][asked.msgtype]
    OBVIOUS
  <2>1. get_port_receive
    <3>1. kills \in Nat
      BY KillAssumption DEF IInvIpc, TypeOKIpc
    <3>2. QED
      BY <3>1 DEF NextIpc, ipcVars, clientVars, ServerStep, set_m_rtpproxy, get_port,
                  get_port_send, Restart
  <2>2. kills = 0 /\ replies # <<>> /\ got' = [key |-> asked.key, port |-> Head(replies).port]
    BY <2>1 DEF get_port_receive
  <2>3. /\ requests # <<>> => replies = <<>>
        /\ pc \in {"serve", "exited", "send"} /\ requests = <<>> => replies = <<>>
    BY <2>2, NoOther
  <2>4. replies[1].port = OwnPort
    BY <2>2, <2>3 DEF Awaited
  <2>5. Head(replies) = replies[1]
    BY <2>2 DEF IInvIpc, TypeOKIpc, TypeOK
  <2>6. QED
    BY <2>2, <2>4, <2>5 DEF OwnPort
<1>3. QED
  BY <1>1, <1>2, AwaitedStep, InvarianceIpc, PTL DEF SpecIpc, OwnAnswer
=============================================================================
