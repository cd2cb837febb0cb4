--------------------------- MODULE RtpServerProofs ---------------------------
(***************************************************************************)
(* Proofs about RtpServer, for every set of Call-IDs, pool, descriptor     *)
(* limit and queue length.                                                 *)
(***************************************************************************)
EXTENDS RtpServer, TLAPS

USE PortAssumption, FdAssumption, QueueAssumption

-----------------------------------------------------------------------------
(* Taking one port off the front of the pool shifts the others. *)
LEMMA PopIndex ==
  ASSUME NEW s \in Seq(Ports), Len(s) >= 1
  PROVE  /\ Tail(s) \in Seq(Ports)
         /\ Len(Tail(s)) = Len(s) - 1
         /\ \A i \in 1 .. Len(s) - 1 : Tail(s)[i] = s[i + 1]
<1> DEFINE S == Ports
<1> HIDE DEF S
<1>1. s \in Seq(S) /\ s # <<>>
  BY DEF S
<1>2. Tail(s) \in Seq(S) /\ Len(Tail(s)) = Len(s) - 1
  BY <1>1
<1>3. \A i \in 1 .. Len(s) - 1 : Tail(s)[i] = s[i + 1]
  BY <1>1
<1>4. QED
  BY <1>2, <1>3 DEF S

(* Taking two ports off the front of the pool shifts the others. *)
LEMMA PopTwoIndex ==
  ASSUME NEW s \in Seq(Ports), Len(s) >= 2
  PROVE  /\ Tail(Tail(s)) \in Seq(Ports)
         /\ Len(Tail(Tail(s))) = Len(s) - 2
         /\ \A i \in 1 .. Len(s) - 2 : Tail(Tail(s))[i] = s[i + 2]
<1>1. /\ Tail(s) \in Seq(Ports)
      /\ Len(Tail(s)) = Len(s) - 1
      /\ \A i \in 1 .. Len(s) - 1 : Tail(s)[i] = s[i + 1]
  BY PopIndex
<1> DEFINE u == Tail(s)
<1> HIDE DEF u
<1>2. u \in Seq(Ports) /\ Len(u) = Len(s) - 1 /\ Len(u) >= 1
  BY <1>1 DEF u
<1>3. /\ Tail(u) \in Seq(Ports)
      /\ Len(Tail(u)) = Len(u) - 1
      /\ \A i \in 1 .. Len(u) - 1 : Tail(u)[i] = u[i + 1]
  BY <1>2, PopIndex
<1>4. \A i \in 1 .. Len(s) - 1 : u[i] = s[i + 1]
  BY <1>1 DEF u
<1>5. /\ Tail(u) \in Seq(Ports)
      /\ Len(Tail(u)) = Len(s) - 2
      /\ \A i \in 1 .. Len(s) - 2 : Tail(u)[i] = s[i + 2]
  BY <1>2, <1>3, <1>4
<1>6. QED
  BY <1>5 DEF u

(* Putting two ports back leaves the others where they are. *)
LEMMA PushTwoIndex ==
  ASSUME NEW s \in Seq(Ports), NEW a \in Ports, NEW b \in Ports
  PROVE  LET t == s \o <<a, b>>
         IN  /\ t \in Seq(Ports)
             /\ Len(t) = Len(s) + 2
             /\ \A i \in 1 .. Len(s) : t[i] = s[i]
             /\ t[Len(s) + 1] = a
             /\ t[Len(s) + 2] = b
  OBVIOUS

USE DEF NewPool, Found, PopTwo, PushTwo, Join

(* A socket is opened on a free descriptor and disturbs no other. *)
LEMMA BindType ==
  ASSUME NEW s, DOMAIN s \subseteq Fds, s \in [DOMAIN s -> Ports],
         NEW p \in Ports, FreeFds(s) # {}
  PROVE  \E fd \in FreeFds(s) :
           /\ DOMAIN bindsocket(s, p) = DOMAIN s \cup {fd}
           /\ bindsocket(s, p) \in [DOMAIN s \cup {fd} -> Ports]
<1> DEFINE fd == CHOOSE f \in FreeFds(s) : TRUE
<1>1. fd \in FreeFds(s)
  OBVIOUS
<1> HIDE DEF fd
<1>2. bindsocket(s, p) = [f \in DOMAIN s \cup {fd} |-> IF f = fd THEN p ELSE s[f]]
  BY DEF bindsocket, fd
<1>3. QED
  BY <1>1, <1>2

(* Two descriptors are free, so both sockets of a call can be opened. *)
LEMMA BindTwoType ==
  ASSUME NEW s, DOMAIN s \subseteq Fds, s \in [DOMAIN s -> Ports],
         NEW p \in Ports, NEW q \in Ports,
         NEW f \in FreeFds(s), NEW g \in FreeFds(s), f # g
  PROVE  LET t == bindsocket(bindsocket(s, p), q)
         IN  DOMAIN t \subseteq Fds /\ t \in [DOMAIN t -> Ports]
<1> DEFINE u == bindsocket(s, p)
<1>1. PICK d \in FreeFds(s) : /\ DOMAIN u = DOMAIN s \cup {d}
                              /\ u \in [DOMAIN s \cup {d} -> Ports]
  BY BindType
<1>2. DOMAIN u \subseteq Fds /\ u \in [DOMAIN u -> Ports] /\ FreeFds(u) # {}
  BY <1>1 DEF FreeFds
<1> HIDE DEF u
<1>3. PICK e \in FreeFds(u) :
             /\ DOMAIN bindsocket(u, q) = DOMAIN u \cup {e}
             /\ bindsocket(u, q) \in [DOMAIN u \cup {e} -> Ports]
  BY <1>2, BindType
<1>4. QED
  BY <1>2, <1>3 DEF FreeFds, u

-----------------------------------------------------------------------------
(* Every state is well typed. *)
LEMMA TypeInit == Init => TypeOK
<1> SUFFICES ASSUME Init PROVE TypeOK
  OBVIOUS
<1> USE DEF Init, InitProcess
<1>1. port_pool \in Seq(Ports)
  BY DEF Ports
<1>2. m_rtpproxy \in Message
  BY DEF Message, MsgTypes
<1>3. p_table \in [CallIds -> Pairs \cup {NoPair}]
  OBVIOUS
<1>4. /\ DOMAIN socks \subseteq Fds
      /\ socks \in [DOMAIN socks -> Ports]
  OBVIOUS
<1>5. /\ requests \in Seq(Message) /\ Len(requests) <= QueueLimit
      /\ replies \in Seq(Message) /\ Len(replies) <= QueueLimit
  OBVIOUS
<1>6. QED
  BY <1>1, <1>2, <1>3, <1>4, <1>5 DEF TypeOK

(* Calls of the table have two ports of the range; NoPair has none. *)
LEMMA CallPorts ==
  ASSUME TypeOK, NEW k \in CallIds
  PROVE  /\ Call(k) => p_table[k][1] \in Ports /\ p_table[k][2] \in Ports
         /\ ~Call(k) => p_table[k] = <<0, 0>>
         /\ p_table[k][1] \in Ports \cup {0} /\ p_table[k][2] \in Ports \cup {0}
         /\ 0 \notin Ports
  BY DEF TypeOK, Call, Pairs, NoPair, Ports

(* An answer with a port or 0 leaves a message in the buffer. *)
LEMMA AnswerType ==
  ASSUME TypeOK, NEW p \in Ports \cup {0}, Answer(p)
  PROVE  m_rtpproxy' \in Message /\ pc' = "send"
  BY DEF TypeOK, Answer, Message

(* Every action keeps the types; Released needs that its key has a call. *)
LEMMA TypeStep == TypeOK /\ OneThreadPerCall /\ [Next]_vars => TypeOK'
<1> SUFFICES ASSUME TypeOK, OneThreadPerCall, [Next]_vars PROVE TypeOK'
  OBVIOUS
<1> USE DEF TypeOK
<1>1. CASE Receive
  BY <1>1 DEF Receive
<1>0. m_rtpproxy.key \in CallIds
  BY DEF Message
<1>2. CASE ApplyAgain
  BY <1>2, <1>0, CallPorts, AnswerType DEF ApplyAgain
<1>3. CASE Refuse
  BY <1>3, AnswerType DEF Refuse
<1>4. CASE NewCall
  <2>1. PICK f \in FreeFds(socks), g \in FreeFds(socks) : f # g
    BY <1>4 DEF NewCall, CanBindTwo
  <2>2. port_pool[1] \in Ports /\ port_pool[2] \in Ports
    BY <1>4 DEF NewCall
  <2>3. DOMAIN socks' \subseteq Fds /\ socks' \in [DOMAIN socks' -> Ports]
    BY <1>4, <2>1, <2>2, BindTwoType DEF NewCall
  <2>4. port_pool' \in Seq(Ports)
    BY <1>4, PopTwoIndex DEF NewCall
  <2>5. m_rtpproxy' \in Message /\ pc' = "send"
    BY <1>4, <2>2, AnswerType DEF NewCall
  <2>6. p_table' \in [CallIds -> Pairs \cup {NoPair}]
    BY <1>4, <2>2, <1>0 DEF NewCall, Pairs
  <2>7. QED
    BY <1>4, <1>0, <2>3, <2>4, <2>5, <2>6 DEF NewCall
<1>5. CASE Exit
  <2>1. DOMAIN socks' \subseteq Fds /\ socks' \in [DOMAIN socks' -> Ports]
    BY <1>5 DEF Exit
  <2>2. QED
    BY <1>5, <2>1 DEF Exit
<1>6. CASE Callee
  BY <1>6, <1>0, CallPorts, AnswerType DEF Callee
<1>7. CASE Send
  BY <1>7 DEF Send
<1>8. CASE ReleaseNothing
  BY <1>8 DEF ReleaseNothing
<1>9. CASE Shut
  BY <1>9 DEF Shut, Message
<1>10. CASE Released
  <2>2. PICK a \in Ports, b \in Ports : p_table[m_rtpproxy.key] = <<a, b>>
    BY <1>10, <1>0 DEF Released, OneThreadPerCall, Call, Pairs
  <2>3. port_pool' \in Seq(Ports)
    BY <1>10, <2>2 DEF Released
  <2>4. DOMAIN socks' \subseteq Fds /\ socks' \in [DOMAIN socks' -> Ports]
    BY <1>10 DEF Released, Close
  <2>5. p_table' \in [CallIds -> Pairs \cup {NoPair}]
    BY <1>10, <1>0 DEF Released
  <2>6. QED
    BY <1>10, <2>3, <2>4, <2>5 DEF Released
<1>11. ASSUME NEW k \in CallIds, CallThread(k) PROVE TypeOK'
  BY <1>11 DEF CallThread
<1>12. ASSUME NEW t \in MsgTypes, NEW k \in CallIds, ClientSend(t, k) PROVE TypeOK'
  BY <1>12 DEF ClientSend, serverVars, Message
<1>13. CASE ClientReceive
  BY <1>13 DEF ClientReceive, serverVars
<1>14. CASE UNCHANGED vars
  BY <1>14 DEF vars, serverVars
<1>15. QED
  BY <1>1, <1>2, <1>3, <1>4, <1>5, <1>6, <1>7, <1>8, <1>9, <1>10, <1>11, <1>12,
     <1>13, <1>14 DEF Next, Server

-----------------------------------------------------------------------------
(***************************************************************************)
(* Only two actions touch the pool and the table.                          *)
(***************************************************************************)
LEMMA PortSteps ==
  [Next]_vars => NewCall \/ Released \/ UNCHANGED <<port_pool, p_table>>
  BY DEF Next, Server, vars, serverVars, Receive, ApplyAgain, Refuse, Exit, Callee, Send,
         ReleaseNothing, Shut, CallThread, ClientSend, ClientReceive, Serving, Answer

(***************************************************************************)
(* The two actions as the invariants see them: what is in the pool and     *)
(* in the table after the step.                                            *)
(***************************************************************************)
LEMMA NewCallEffect ==
  ASSUME TypeOK, NewCall
  PROVE  LET key == m_rtpproxy.key
         IN  /\ key \in CallIds /\ ~Call(key)
             /\ Len(port_pool) >= 2
             /\ Len(port_pool') = Len(port_pool) - 2
             /\ \A i \in 1 .. Len(port_pool) - 2 : port_pool'[i] = port_pool[i + 2]
             /\ p_table'[key] = <<port_pool[1], port_pool[2]>>
             /\ \A k \in CallIds \ {key} : p_table'[k] = p_table[k]
             /\ port_pool[1] \in Ports /\ port_pool[2] \in Ports
             /\ p_table'[key] # NoPair
             /\ Calls' = Calls \cup {key}
<1> DEFINE key == m_rtpproxy.key
<1>1. key \in CallIds /\ ~Call(key) /\ Len(port_pool) >= 2
  BY DEF TypeOK, Message, NewCall
<1>2. /\ Len(port_pool') = Len(port_pool) - 2
      /\ \A i \in 1 .. Len(port_pool) - 2 : port_pool'[i] = port_pool[i + 2]
  BY <1>1, PopTwoIndex DEF TypeOK, NewCall
<1>3. port_pool[1] \in Ports /\ port_pool[2] \in Ports
  BY <1>1 DEF TypeOK
<1>4. /\ p_table'[key] = <<port_pool[1], port_pool[2]>>
      /\ \A k \in CallIds \ {key} : p_table'[k] = p_table[k]
  BY <1>1 DEF TypeOK, NewCall
<1>5. p_table'[key] # NoPair
  BY <1>3, <1>4 DEF NoPair, Ports
<1>6. Calls' = Calls \cup {key}
  BY <1>1, <1>4, <1>5 DEF Calls, Call
<1>7. QED
  BY <1>1, <1>2, <1>3, <1>4, <1>5, <1>6

(* After the join: the two ports go to the end of the pool and the entry away. *)
LEMMA ReleasedEffect ==
  ASSUME TypeOK, OneThreadPerCall, Released
  PROVE  LET key == m_rtpproxy.key
         IN  /\ key \in CallIds /\ Call(key)
             /\ Len(port_pool') = Len(port_pool) + 2
             /\ \A i \in 1 .. Len(port_pool) : port_pool'[i] = port_pool[i]
             /\ port_pool'[Len(port_pool) + 1] = p_table[key][1]
             /\ port_pool'[Len(port_pool) + 2] = p_table[key][2]
             /\ \A k \in CallIds \ {key} : p_table'[k] = p_table[k]
             /\ Calls' = Calls \ {key}
<1> DEFINE key == m_rtpproxy.key
<1>1. key \in CallIds /\ Call(key)
  BY DEF TypeOK, Message, Released, OneThreadPerCall
<1>2. p_table[key][1] \in Ports /\ p_table[key][2] \in Ports
  BY <1>1, CallPorts
<1>3. /\ Len(port_pool') = Len(port_pool) + 2
      /\ \A i \in 1 .. Len(port_pool) : port_pool'[i] = port_pool[i]
      /\ port_pool'[Len(port_pool) + 1] = p_table[key][1]
      /\ port_pool'[Len(port_pool) + 2] = p_table[key][2]
  BY <1>2, PushTwoIndex DEF TypeOK, Released
<1>4. p_table'[key] = NoPair /\ \A k \in CallIds \ {key} : p_table'[k] = p_table[k]
  BY <1>1 DEF TypeOK, Released
<1>5. Calls' = Calls \ {key}
  BY <1>1, <1>4 DEF Calls, Call
<1>6. QED
  BY <1>1, <1>3, <1>4, <1>5

-----------------------------------------------------------------------------
(* The `call' threads and flags follow the table. *)
LEMMA ThreadsInit == Init => OneThreadPerCall
  BY DEF Init, InitProcess, OneThreadPerCall, Calls, Call

(* A thread starts with its entry in p_table, and ends before the entry does. *)
LEMMA ThreadsStep == TypeOK /\ OneThreadPerCall /\ [Next]_vars => OneThreadPerCall'
<1> SUFFICES ASSUME TypeOK, OneThreadPerCall, [Next]_vars PROVE OneThreadPerCall'
  OBVIOUS
<1> USE DEF OneThreadPerCall
<1>1. CASE Receive \/ ApplyAgain \/ Refuse \/ Callee \/ Send \/ ReleaseNothing
  BY <1>1 DEF Receive, ApplyAgain, Refuse, Callee, Send, ReleaseNothing, Serving,
              Answer, Calls, Call
<1>2. CASE NewCall
  <2>1. Calls' = Calls \cup {m_rtpproxy.key}
    BY <1>2, NewCallEffect
  <2>2. QED
    BY <1>2, <2>1 DEF NewCall, Serving, Answer
<1>3. CASE Exit
  BY <1>3 DEF Exit
<1>4. CASE Shut
  BY <1>4 DEF Shut, Serving, Calls, Call
<1>5. CASE Released
  <2>1. Calls' = Calls \ {m_rtpproxy.key}
    BY <1>5, ReleasedEffect
  <2>2. QED
    BY <1>5, <2>1 DEF Released
<1>6. ASSUME NEW k \in CallIds, CallThread(k) PROVE OneThreadPerCall'
  BY <1>6 DEF CallThread, Calls, Call, TypeOK
<1>7. ASSUME NEW t \in MsgTypes, NEW k \in CallIds, ClientSend(t, k)
      PROVE OneThreadPerCall'
  BY <1>7 DEF ClientSend, serverVars, Calls, Call
<1>8. CASE ClientReceive
  BY <1>8 DEF ClientReceive, serverVars, Calls, Call
<1>9. CASE UNCHANGED vars
  BY <1>9 DEF vars, serverVars, Calls, Call
<1>10. QED
  BY <1>1, <1>2, <1>3, <1>4, <1>5, <1>6, <1>7, <1>8, <1>9 DEF Next, Server

-----------------------------------------------------------------------------
(* No port is in two hands. *)
LEMMA ExclusiveInit == Init => PortsExclusive
  BY DEF Init, InitProcess, PortsExclusive, PoolHasNoDuplicates, PoolAndCallsDisjoint,
         CallsDisjoint, Calls, Call

(* Ports change hands in NewCall and Released only; neither leaves one behind. *)
LEMMA ExclusiveStep ==
  TypeOK /\ OneThreadPerCall /\ PortsExclusive /\ [Next]_vars => PortsExclusive'
<1> SUFFICES ASSUME TypeOK, OneThreadPerCall, PortsExclusive, [Next]_vars
             PROVE  PortsExclusive'
  OBVIOUS
<1> DEFINE key == m_rtpproxy.key
<1>0. Len(port_pool) \in Nat /\ Calls \subseteq CallIds
  BY DEF TypeOK, Calls
<1>1. CASE NewCall
  <2>1. PoolHasNoDuplicates'
    <3> SUFFICES ASSUME NEW i \in 1 .. Len(port_pool'), NEW j \in 1 .. Len(port_pool'),
                        port_pool'[i] = port_pool'[j]
                 PROVE  i = j
      BY DEF PoolHasNoDuplicates
    <3>1. /\ i \in 1 .. Len(port_pool) - 2 /\ j \in 1 .. Len(port_pool) - 2
          /\ port_pool'[i] = port_pool[i + 2] /\ port_pool'[j] = port_pool[j + 2]
      <4>1. /\ Len(port_pool') = Len(port_pool) - 2
            /\ \A n \in 1 .. Len(port_pool) - 2 : port_pool'[n] = port_pool[n + 2]
        BY <1>1, NewCallEffect
      <4>2. QED
        BY <1>0, <4>1
    <3>2. /\ i + 2 \in 1 .. Len(port_pool) /\ j + 2 \in 1 .. Len(port_pool)
          /\ port_pool[i + 2] = port_pool[j + 2]
      <4>1. i \in Int /\ j \in Int /\ Len(port_pool) \in Int
        BY <1>0, <3>1
      <4>2. i + 2 \in 1 .. Len(port_pool) /\ j + 2 \in 1 .. Len(port_pool)
        BY <3>1, <4>1
      <4>3. QED
        BY <3>1, <4>2
    <3>3. i + 2 = j + 2
      BY <3>2 DEF PortsExclusive, PoolHasNoDuplicates
    <3>4. QED
      BY <1>0, <3>1, <3>3
  <2>2. PoolAndCallsDisjoint'
    BY <1>0, <1>1, NewCallEffect
       DEF PortsExclusive, PoolHasNoDuplicates, PoolAndCallsDisjoint
  <2>3. CallsDisjoint'
    <3> SUFFICES ASSUME NEW k \in Calls', NEW l \in Calls',
                        NEW a \in 1 .. 2, NEW b \in 1 .. 2,
                        p_table'[k][a] = p_table'[l][b]
                 PROVE  k = l /\ a = b
      BY DEF CallsDisjoint
    <3>1. a \in {1, 2} /\ b \in {1, 2}
      OBVIOUS
    <3>2. CASE k = key /\ l = key
      BY <1>0, <1>1, <3>1, <3>2, NewCallEffect DEF PortsExclusive, PoolHasNoDuplicates
    <3>3. CASE k # key /\ l # key
      BY <1>0, <1>1, <3>3, NewCallEffect DEF PortsExclusive, CallsDisjoint
    <3>4. CASE k = key /\ l # key
      BY <1>0, <1>1, <3>1, <3>4, NewCallEffect DEF PortsExclusive, PoolAndCallsDisjoint
    <3>5. CASE k # key /\ l = key
      BY <1>0, <1>1, <3>1, <3>5, NewCallEffect DEF PortsExclusive, PoolAndCallsDisjoint
    <3>6. QED
      BY <3>2, <3>3, <3>4, <3>5
  <2>4. QED
    BY <2>1, <2>2, <2>3 DEF PortsExclusive
<1>3. CASE Released
  <2>1. PoolHasNoDuplicates'
    <3>1. p_table[key][1] # p_table[key][2]
      BY <1>3, ReleasedEffect DEF PortsExclusive, CallsDisjoint, Calls
    <3>2. \A i \in 1 .. Len(port_pool) :
            port_pool[i] # p_table[key][1] /\ port_pool[i] # p_table[key][2]
      BY <1>3, ReleasedEffect DEF PortsExclusive, PoolAndCallsDisjoint, Calls
    <3>3. \A i \in 1 .. Len(port_pool') :
            i \in 1 .. Len(port_pool) \/ i = Len(port_pool) + 1 \/ i = Len(port_pool) + 2
      BY <1>0, <1>3, ReleasedEffect
    <3>4. QED
      BY <1>0, <1>3, <3>1, <3>2, <3>3, ReleasedEffect
         DEF PortsExclusive, PoolHasNoDuplicates
  <2>2. PoolAndCallsDisjoint'
    <3> SUFFICES ASSUME NEW k \in Calls', NEW i \in 1 .. Len(port_pool')
                 PROVE  /\ port_pool'[i] # p_table'[k][1]
                        /\ port_pool'[i] # p_table'[k][2]
      BY DEF PoolAndCallsDisjoint
    <3>1. k \in Calls /\ k # key /\ key \in Calls /\ p_table'[k] = p_table[k]
      BY <1>0, <1>3, ReleasedEffect DEF Calls
    <3>2. CASE i \in 1 .. Len(port_pool)
      BY <1>3, <3>1, <3>2, ReleasedEffect DEF PortsExclusive, PoolAndCallsDisjoint
    <3>3. CASE i = Len(port_pool) + 1 \/ i = Len(port_pool) + 2
      BY <1>3, <3>1, <3>3, ReleasedEffect DEF PortsExclusive, CallsDisjoint
    <3>4. QED
      BY <1>0, <1>3, <3>2, <3>3, ReleasedEffect
  <2>3. CallsDisjoint'
    BY <1>0, <1>3, ReleasedEffect DEF PortsExclusive, CallsDisjoint
  <2>4. QED
    BY <2>1, <2>2, <2>3 DEF PortsExclusive
<1>4. CASE UNCHANGED <<port_pool, p_table>>
  BY <1>4 DEF PortsExclusive, PoolHasNoDuplicates, PoolAndCallsDisjoint, CallsDisjoint,
              Calls, Call
<1>5. QED
  BY <1>1, <1>3, <1>4, PortSteps

-----------------------------------------------------------------------------
(* No port is lost. *)
LEMMA CompleteInit == Init => PortsComplete
<1> SUFFICES ASSUME Init, NEW p \in Ports
             PROVE  \E i \in 1 .. Len(port_pool) : port_pool[i] = p
  BY DEF PortsComplete
<1>1. /\ Len(port_pool) = 2 * PairCount
      /\ \A i \in 1 .. 2 * PairCount : port_pool[i] = FirstPort + i - 1
  BY DEF Init, InitProcess
<1>2. p - FirstPort + 1 \in 1 .. 2 * PairCount
  BY DEF Ports
<1>3. port_pool[p - FirstPort + 1] = p
  BY <1>1, <1>2 DEF Ports
<1>4. QED
  BY <1>1, <1>2, <1>3

(* A port that leaves the pool is in a call, and one that leaves a call is in the pool. *)
LEMMA CompleteStep ==
  TypeOK /\ OneThreadPerCall /\ PortsComplete /\ [Next]_vars => PortsComplete'
<1> SUFFICES ASSUME TypeOK, OneThreadPerCall, PortsComplete, [Next]_vars,
                    NEW p \in Ports
             PROVE  \/ \E i \in 1 .. Len(port_pool') : port_pool'[i] = p
                    \/ InACall(p)'
  BY DEF PortsComplete
<1> DEFINE key == m_rtpproxy.key
<1>0. Len(port_pool) \in Nat /\ Calls \subseteq CallIds
  BY DEF TypeOK, Calls
<1>1. CASE NewCall
  <2>1. /\ key \in Calls'
        /\ p_table'[key] = <<port_pool[1], port_pool[2]>>
        /\ \A k \in Calls : k \in Calls' /\ p_table'[k] = p_table[k]
        /\ Len(port_pool') = Len(port_pool) - 2
        /\ \A i \in 1 .. Len(port_pool) - 2 : port_pool'[i] = port_pool[i + 2]
    BY <1>0, <1>1, NewCallEffect DEF Calls
  <2>2. CASE InACall(p)
    BY <2>1, <2>2 DEF InACall
  <2>3. ASSUME NEW i \in 1 .. Len(port_pool), port_pool[i] = p
        PROVE  \/ \E j \in 1 .. Len(port_pool') : port_pool'[j] = p
               \/ InACall(p)'
    <3>1. CASE i = 1 \/ i = 2
      BY <2>1, <2>3, <3>1 DEF InACall
    <3>2. CASE i > 2
      <4>1. i - 2 \in 1 .. Len(port_pool) - 2
        BY <1>0, <3>2
      <4>2. port_pool'[i - 2] = port_pool[(i - 2) + 2]
        BY <2>1, <4>1
      <4>3. (i - 2) + 2 = i
        BY <1>0
      <4>4. QED
        BY <2>1, <2>3, <4>1, <4>2, <4>3
    <3>3. QED
      BY <1>0, <3>1, <3>2
  <2>4. QED
    BY <2>2, <2>3 DEF PortsComplete
<1>3. CASE Released
  <2>1. /\ \A k \in Calls \ {key} : k \in Calls' /\ p_table'[k] = p_table[k]
        /\ Len(port_pool') = Len(port_pool) + 2
        /\ \A i \in 1 .. Len(port_pool) : port_pool'[i] = port_pool[i]
        /\ port_pool'[Len(port_pool) + 1] = p_table[key][1]
        /\ port_pool'[Len(port_pool) + 2] = p_table[key][2]
    BY <1>0, <1>3, ReleasedEffect DEF Calls
  <2>2. /\ Len(port_pool) + 1 \in 1 .. Len(port_pool')
        /\ Len(port_pool) + 2 \in 1 .. Len(port_pool')
        /\ \A i \in 1 .. Len(port_pool) : i \in 1 .. Len(port_pool')
    BY <1>0, <2>1
  <2>3. CASE \E i \in 1 .. Len(port_pool) : port_pool[i] = p
    BY <2>1, <2>2, <2>3
  <2>4. ASSUME NEW k \in Calls, p \in {p_table[k][1], p_table[k][2]}
        PROVE  \/ \E i \in 1 .. Len(port_pool') : port_pool'[i] = p
               \/ InACall(p)'
    <3>1. CASE k = key
      BY <2>1, <2>2, <2>4, <3>1
    <3>2. CASE k # key
      BY <2>1, <2>4, <3>2 DEF InACall
    <3>3. QED
      BY <3>1, <3>2
  <2>5. QED
    BY <2>3, <2>4 DEF PortsComplete, InACall
<1>4. CASE UNCHANGED <<port_pool, p_table>>
  BY <1>4 DEF PortsComplete, InACall, Calls, Call
<1>5. QED
  BY <1>1, <1>3, <1>4, PortSteps

-----------------------------------------------------------------------------
(* The pool is made of pairs of neighbours, and a call has one of them. *)
LEMMA PairsInit == Init => PairsStay
<1> SUFFICES ASSUME Init PROVE PairsStay
  OBVIOUS
<1>1. /\ Len(port_pool) = 2 * PairCount
      /\ \A i \in 1 .. 2 * PairCount : port_pool[i] = FirstPort + i - 1
  BY DEF Init, InitProcess
<1>2. Len(port_pool) \div 2 = PairCount
  BY <1>1
<1>3. Calls = {}
  BY DEF Init, InitProcess, Calls, Call
<1>4. ASSUME NEW i \in 1 .. PairCount
      PROVE  port_pool[2 * i] = port_pool[2 * i - 1] + 1
  <2>1. 2 * i \in 1 .. 2 * PairCount /\ 2 * i - 1 \in 1 .. 2 * PairCount
    OBVIOUS
  <2>2. port_pool[2 * i] = FirstPort + 2 * i - 1
    BY <1>1, <2>1
  <2>3. port_pool[2 * i - 1] = FirstPort + (2 * i - 1) - 1
    BY <1>1, <2>1
  <2>4. QED
    BY <2>2, <2>3
<1>5. QED
  BY <1>1, <1>2, <1>3, <1>4 DEF PairsStay

(* Pairs leave the pool at its head and come back to its end, whole. *)
LEMMA PairsStep ==
  TypeOK /\ OneThreadPerCall /\ PairsStay /\ [Next]_vars => PairsStay'
<1> SUFFICES ASSUME TypeOK, OneThreadPerCall, PairsStay, [Next]_vars
             PROVE  PairsStay'
  OBVIOUS
<1> DEFINE key == m_rtpproxy.key
           half == Len(port_pool) \div 2
<1>0. /\ Len(port_pool) \in Nat /\ half \in Nat
      /\ Len(port_pool) = 2 * half
      /\ Calls \subseteq CallIds
  BY DEF TypeOK, Calls, PairsStay
<1> HIDE DEF half
<1>1. CASE NewCall
  <2>1. /\ Len(port_pool) >= 2
        /\ Len(port_pool') = Len(port_pool) - 2
        /\ \A i \in 1 .. Len(port_pool) - 2 : port_pool'[i] = port_pool[i + 2]
    BY <1>1, NewCallEffect
  <2>2. half >= 1 /\ Len(port_pool') = 2 * (half - 1)
    BY <1>0, <2>1
  <2>3. Len(port_pool') \div 2 = half - 1
    BY <1>0, <2>2
  <2>4. ASSUME NEW i \in 1 .. half - 1
        PROVE  port_pool'[2 * i] = port_pool'[2 * i - 1] + 1
    <3>1. 2 * i \in 1 .. Len(port_pool) - 2 /\ 2 * i - 1 \in 1 .. Len(port_pool) - 2
      BY <1>0
    <3>2. /\ port_pool'[2 * i] = port_pool[2 * i + 2]
          /\ port_pool'[2 * i - 1] = port_pool[(2 * i - 1) + 2]
      BY <2>1, <3>1
    <3>3. i + 1 \in 1 .. half /\ 2 * (i + 1) = 2 * i + 2
          /\ 2 * (i + 1) - 1 = (2 * i - 1) + 2
      BY <1>0
    <3>4. port_pool[2 * (i + 1)] = port_pool[2 * (i + 1) - 1] + 1
      BY <3>3 DEF PairsStay, half
    <3>5. QED
      BY <3>2, <3>3, <3>4
  <2>5. ASSUME NEW k \in Calls' PROVE p_table'[k][2] = p_table'[k][1] + 1
    <3>1. CASE k = key
      <4>1. 1 \in 1 .. half /\ 2 * 1 = 2 /\ 2 * 1 - 1 = 1
        BY <1>0, <2>2
      <4>2. port_pool[2] = port_pool[1] + 1
        BY <4>1 DEF PairsStay, half
      <4>3. QED
        BY <1>1, <3>1, <4>2, NewCallEffect
    <3>2. CASE k # key
      BY <1>0, <1>1, <3>2, NewCallEffect DEF PairsStay
    <3>3. QED
      BY <3>1, <3>2
  <2>6. QED
    BY <2>2, <2>3, <2>4, <2>5 DEF PairsStay
<1>2. CASE Released
  <2>1. /\ Len(port_pool') = Len(port_pool) + 2
        /\ \A i \in 1 .. Len(port_pool) : port_pool'[i] = port_pool[i]
        /\ port_pool'[Len(port_pool) + 1] = p_table[key][1]
        /\ port_pool'[Len(port_pool) + 2] = p_table[key][2]
        /\ key \in Calls
        /\ \A k \in Calls' : k \in Calls /\ p_table'[k] = p_table[k]
    BY <1>0, <1>2, ReleasedEffect DEF Calls
  <2>2. Len(port_pool') = 2 * (half + 1)
    BY <1>0, <2>1
  <2>3. Len(port_pool') \div 2 = half + 1
    BY <1>0, <2>2
  <2>4. ASSUME NEW i \in 1 .. half + 1
        PROVE  port_pool'[2 * i] = port_pool'[2 * i - 1] + 1
    <3>1. CASE i \in 1 .. half
      <4>1. 2 * i \in 1 .. Len(port_pool) /\ 2 * i - 1 \in 1 .. Len(port_pool)
        BY <1>0, <3>1
      <4>2. port_pool[2 * i] = port_pool[2 * i - 1] + 1
        BY <3>1 DEF PairsStay, half
      <4>3. QED
        BY <2>1, <4>1, <4>2
    <3>2. CASE i = half + 1
      <4>1. 2 * i = Len(port_pool) + 2 /\ 2 * i - 1 = Len(port_pool) + 1
        BY <1>0, <3>2
      <4>2. p_table[key][2] = p_table[key][1] + 1
        BY <2>1 DEF PairsStay
      <4>3. QED
        BY <2>1, <4>1, <4>2
    <3>3. QED
      BY <1>0, <3>1, <3>2
  <2>5. \A k \in Calls' : p_table'[k][2] = p_table'[k][1] + 1
    BY <2>1 DEF PairsStay
  <2>6. QED
    BY <2>2, <2>3, <2>4, <2>5 DEF PairsStay
<1>3. CASE UNCHANGED <<port_pool, p_table>>
  BY <1>3 DEF PairsStay, Calls, Call
<1>4. QED
  BY <1>1, <1>2, <1>3, PortSteps

-----------------------------------------------------------------------------
(* The answer in the buffer is right until it is sent. *)
LEMMA AnswerInit == Init => AnswerIsRight
  BY DEF Init, InitProcess, AnswerIsRight

(* The answer is right when it is made, and stays right until it is sent. *)
LEMMA AnswerStep ==
  /\ TypeOK /\ PortsComplete /\ PairsStay /\ AnswerIsRight
  /\ [Next]_vars
  => AnswerIsRight'
<1> SUFFICES ASSUME TypeOK, PortsComplete, PairsStay, AnswerIsRight, [Next]_vars
             PROVE  AnswerIsRight'
  OBVIOUS
<1> DEFINE key == m_rtpproxy.key
<1>0. key \in CallIds
  BY DEF TypeOK, Message
<1> USE DEF AnswerIsRight
<1>1. CASE ApplyAgain
  <2>1. /\ m_rtpproxy'.msgtype = 1 /\ m_rtpproxy'.key = key
        /\ m_rtpproxy'.port = p_table[key][1]
    BY <1>1 DEF ApplyAgain, Serving, Answer, TypeOK, Message
  <2>2. QED
    BY <1>1, <2>1 DEF ApplyAgain, Call
<1>2. CASE Refuse
  <2>1. /\ m_rtpproxy'.msgtype = 1 /\ m_rtpproxy'.key = key
        /\ m_rtpproxy'.port = 0
    BY <1>2 DEF Refuse, Serving, Answer, TypeOK, Message
  <2>2. Len(port_pool) = 0
    BY <1>2 DEF Refuse, TypeOK, PairsStay
  <2>3. \A p \in Ports : InACall(p)
    BY <2>2 DEF PortsComplete
  <2>4. QED
    BY <1>2, <2>1, <2>3 DEF Refuse, Call, Calls, InACall
<1>3. CASE NewCall
  <2>1. /\ m_rtpproxy'.msgtype = 1 /\ m_rtpproxy'.key = key
        /\ m_rtpproxy'.port = port_pool[1]
    BY <1>3 DEF NewCall, Serving, Answer, TypeOK, Message
  <2>2. p_table'[key] = <<port_pool[1], port_pool[2]>> /\ p_table'[key] # NoPair
    BY <1>3, NewCallEffect
  <2>3. QED
    BY <2>1, <2>2 DEF Call
<1>4. CASE Callee
  <2>1. /\ m_rtpproxy'.msgtype = 2 /\ m_rtpproxy'.key = key
        /\ m_rtpproxy'.port = p_table[key][2]
    BY <1>4 DEF Callee, Serving, Answer, TypeOK, Message
  <2>2. ~Call(key) => p_table[key][2] = 0
    BY DEF Call, NoPair
  <2>3. QED
    BY <1>4, <2>1, <2>2 DEF Callee, Call
<1>5. CASE Receive \/ Exit \/ Send \/ ReleaseNothing \/ Shut \/ Released
  BY <1>5 DEF Receive, Exit, Send, ReleaseNothing, Shut, Released
<1>6. CASE UNCHANGED <<pc, m_rtpproxy, p_table>>
  BY <1>6 DEF InACall, Calls, Call
<1>7. (\E k \in CallIds : CallThread(k))
        \/ (\E t \in MsgTypes, k \in CallIds : ClientSend(t, k))
        \/ ClientReceive \/ UNCHANGED vars
      => UNCHANGED <<pc, m_rtpproxy, p_table>>
  BY DEF CallThread, ClientSend, ClientReceive, vars, serverVars
<1>8. QED
  BY <1>1, <1>2, <1>3, <1>4, <1>5, <1>6, <1>7 DEF Next, Server

-----------------------------------------------------------------------------
(***************************************************************************)
(* The inductive invariant: all the invariants together.  Released needs   *)
(* OneThreadPerCall to know that the table still has the call it joined,   *)
(* and the refusal of a call needs PortsComplete and PairsStay to know     *)
(* that "fewer than two ports" means none at all.                          *)
(***************************************************************************)
IInv == /\ TypeOK
        /\ OneThreadPerCall
        /\ PortsExclusive
        /\ PortsComplete
        /\ PairsStay
        /\ AnswerIsRight

(* Every reachable state satisfies the inductive invariant. *)
THEOREM Invariance == Spec => []IInv
<1>1. Init => IInv
  BY TypeInit, ThreadsInit, ExclusiveInit, CompleteInit, PairsInit, AnswerInit DEF IInv
<1>2. IInv /\ [Next]_vars => IInv'
  BY TypeStep, ThreadsStep, ExclusiveStep, CompleteStep, PairsStep, AnswerStep DEF IInv
<1>3. QED
  BY <1>1, <1>2, PTL DEF Spec

(* The server's variables always have their types (main.cpp:38-46). *)
THEOREM TypeCorrect == Spec => []TypeOK
<1>1. IInv => TypeOK
  BY DEF IInv
<1>2. QED
  BY <1>1, Invariance, PTL

(***************************************************************************)
(* Whatever the clients ask and in whatever order, no port of the pool     *)
(* (main.cpp:43) is ever in two hands (main.cpp:70-75, 100-105).           *)
(***************************************************************************)
THEOREM ExclusivePorts == Spec => []PortsExclusive
<1>1. IInv => PortsExclusive
  BY DEF IInv
<1>2. QED
  BY <1>1, Invariance, PTL

(* No port of the pool is ever lost (main.cpp:70-75, 100-105). *)
THEOREM CompletePorts == Spec => []PortsComplete
<1>1. IInv => PortsComplete
  BY DEF IInv
<1>2. QED
  BY <1>1, Invariance, PTL

(* The two ports of a call are always neighbours (main.cpp:70-74, 103-104). *)
THEOREM NeighbourPorts == Spec => []PairsStay
<1>1. IInv => PairsStay
  BY DEF IInv
<1>2. QED
  BY <1>1, Invariance, PTL

(***************************************************************************)
(* Every answer is the port of that end of that call, or 0 for a reason:   *)
(* no such call, or not a single port free (main.cpp:52-95).               *)
(***************************************************************************)
THEOREM RightAnswers == Spec => []AnswerIsRight
<1>1. IInv => AnswerIsRight
  BY DEF IInv
<1>2. QED
  BY <1>1, Invariance, PTL

(***************************************************************************)
(* kill_thread never joins a thread it has not told to stop, and every     *)
(* call has its thread (threadcontrol.cpp:27-29, 34-41).                   *)
(***************************************************************************)
THEOREM CallThreads == Spec => []OneThreadPerCall
<1>1. IInv => OneThreadPerCall
  BY DEF IInv
<1>2. QED
  BY <1>1, Invariance, PTL

(***************************************************************************)
(* A call keeps its ports until a request of type 3 for that very call     *)
(* (main.cpp:55-61, 97-106).                                               *)
(***************************************************************************)
THEOREM KeptPorts == Spec => CallKeepsItsPorts
<1>1. ASSUME TypeOK, OneThreadPerCall, [Next]_vars, NEW k \in CallIds,
             Call(k), p_table'[k] # p_table[k]
      PROVE  p_table'[k] = NoPair /\ m_rtpproxy.msgtype = 3 /\ m_rtpproxy.key = k
  <2>1. CASE NewCall
    BY <1>1, <2>1, NewCallEffect
  <2>2. CASE Released
    <3>1. k = m_rtpproxy.key
      BY <1>1, <2>2, ReleasedEffect
    <3>2. p_table'[k] = NoPair
      BY <1>1, <2>2, <3>1 DEF Released, TypeOK
    <3>3. QED
      BY <1>1, <2>2, <3>1, <3>2 DEF Released, OneThreadPerCall
  <2>3. CASE UNCHANGED <<port_pool, p_table>>
    BY <1>1, <2>3
  <2>4. QED
    BY <1>1, <2>1, <2>2, <2>3, PortSteps
<1>2. IInv /\ [Next]_vars =>
        [\A k \in CallIds :
           Call(k) /\ p_table'[k] # p_table[k] =>
             p_table'[k] = NoPair /\ m_rtpproxy.msgtype = 3 /\ m_rtpproxy.key = k]_vars
  BY <1>1 DEF IInv
<1>3. QED
  BY <1>2, Invariance, PTL DEF Spec, CallKeepsItsPorts
=============================================================================
