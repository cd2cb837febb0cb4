------------------------------ MODULE RtpServer ------------------------------
(***************************************************************************)
(* The RTP relay server (UDPTest): the message loop of main.cpp with       *)
(* new_thread, kill_thread and the constructor of proxy_control.  One      *)
(* server thread takes requests off a System V queue, hands out pairs of   *)
(* RTP ports to calls and takes them back; each call has a thread `call'   *)
(* that spins until the call is shut.                                      *)
(*                                                                         *)
(* The relay threads' work on packets is in RtpRelay; the CSCF at the      *)
(* other end of the queues is any client here and get_port in PortIpc.     *)
(*                                                                         *)
(* A definition whose name starts with Slip is a bug the code might have   *)
(* had instead of the definition that follows it; no specification uses    *)
(* it.  PROJECT.json says which property is violated by which slip.        *)
(***************************************************************************)
EXTENDS Integers, Sequences, FiniteSets

CONSTANTS CallIds,     \* the keys of p_table: the Call-IDs of SIP messages
          FirstPort,   \* 20001
          PairCount,   \* half the pool: 500 pairs, 20001..21000
          FdLimit,     \* RLIMIT_NOFILE of the process: descriptors are < FdLimit
          QueueLimit   \* messages one System V queue holds

ASSUME PortAssumption == /\ FirstPort \in Nat \ {0}
                         /\ PairCount \in Nat \ {0}
\* The usual limit on descriptors (1024) is far below the first port number.
ASSUME FdAssumption == /\ FdLimit \in Nat
                       /\ FdLimit <= FirstPort
ASSUME QueueAssumption == QueueLimit \in Nat \ {0}

Ports == FirstPort .. (FirstPort + 2 * PairCount - 1)
Fds   == 3 .. (FdLimit - 1)          \* 0, 1 and 2 are the standard streams

(***************************************************************************)
(* A message of either queue.  msgtype 1 asks for the caller's port and    *)
(* creates the call, 2 asks for the callee's port, 3 ends the call; port   *)
(* is the answer, 0 for a failure.                                         *)
(***************************************************************************)
MsgTypes == 1 .. 3
Message  == [msgtype : MsgTypes, key : CallIds, port : Ports \cup {0}]

Pairs  == Ports \X Ports
NoPair == <<0, 0>>                   \* what kill_thread returns for no call

VARIABLES
  pc,          \* where the server thread is in its loop
  m_rtpproxy,  \* the message buffer
  port_pool,   \* free ports, oldest first
  p_table,     \* each call's two ports, NoPair if there is no such call
  threads,     \* the calls whose `call' thread is running
  shut,        \* the calls whose shut flag is set
  socks,       \* open sockets: descriptor -> the port it is bound to
  requests,    \* queue RTP_RECV 1983
  replies      \* queue RTP_SEND 1984

serverVars == <<pc, m_rtpproxy, port_pool, p_table, threads, shut, socks>>
vars == <<serverVars, requests, replies>>

Call(k)   == p_table[k] # NoPair
Calls     == {k \in CallIds : Call(k)}
InACall(p) == \E k \in Calls : p \in {p_table[k][1], p_table[k][2]}

SlipNewPool == [i \in 1 .. 2 * PairCount + 1 |-> FirstPort + i - 1]
NewPool     == [i \in 1 .. 2 * PairCount |-> FirstPort + i - 1]

InitProcess ==
  /\ pc = "recv"
  /\ port_pool = NewPool
  /\ p_table = [k \in CallIds |-> NoPair]
  /\ threads = {}
  /\ shut = {}
  /\ socks = [fd \in {} |-> 0]

Init ==
  /\ InitProcess
  /\ m_rtpproxy \in [msgtype : {1}, key : CallIds, port : {0}]
  /\ requests = <<>>
  /\ replies = <<>>

-----------------------------------------------------------------------------
\* p_table.find(key) != p_table.end()
SlipFound == FALSE
Found     == Call(m_rtpproxy.key)

\* The two pop_fronts, and the two push_backs.
SlipPopTwo(pool) == Tail(pool)
PopTwo(pool)     == Tail(Tail(pool))

SlipPushFirst(pool, pair)   == Append(pool, pair[1])
SlipPushSwapped(pool, pair) == pool \o <<pair[2], pair[1]>>
PushTwo(pool, pair)         == pool \o <<pair[1], pair[2]>>

(***************************************************************************)
(* Descriptors.  bindsocket takes a free descriptor (nothing here depends  *)
(* on which); all sockets carry SO_REUSEADDR, so binding a port another    *)
(* socket still holds succeeds.                                            *)
(***************************************************************************)
FreeFds(s) == Fds \ DOMAIN s

bindsocket(s, port) ==
  LET fd == CHOOSE f \in FreeFds(s) : TRUE
  IN  [f \in DOMAIN s \cup {fd} |-> IF f = fd THEN port ELSE s[f]]

Close(s, fds) == [f \in DOMAIN s \ fds |-> s[f]]

CanBindTwo == \E f, g \in FreeFds(socks) : f # g

\* msgrcv: the server blocks until there is a request.
Receive ==
  /\ pc = "recv"
  /\ requests # <<>>
  /\ m_rtpproxy' = Head(requests)
  /\ requests' = Tail(requests)
  /\ pc' = "serve"
  /\ UNCHANGED <<port_pool, p_table, threads, shut, socks, replies>>

Serving(t) == pc = "serve" /\ m_rtpproxy.msgtype = t

Answer(port) ==
  /\ m_rtpproxy' = [m_rtpproxy EXCEPT !.port = port]
  /\ pc' = "send"

\* Type 1 for a call that exists: its first port again.
ApplyAgain ==
  /\ Serving(1)
  /\ Found
  /\ Answer(p_table[m_rtpproxy.key][1])
  /\ UNCHANGED <<port_pool, p_table, threads, shut, socks, requests, replies>>

\* Type 1 with fewer than two ports left.
Refuse ==
  /\ Serving(1)
  /\ ~Found
  /\ Len(port_pool) < 2
  /\ Answer(0)
  /\ UNCHANGED <<port_pool, p_table, threads, shut, socks, requests, replies>>

\* new_thread: two sockets, a `call' thread and an entry of p_table.
NewCall ==
  /\ Serving(1)
  /\ ~Found
  /\ Len(port_pool) >= 2
  /\ CanBindTwo
  /\ LET porta == port_pool[1]
         portb == port_pool[2]
     IN  /\ p_table' = [p_table EXCEPT ![m_rtpproxy.key] = <<porta, portb>>]
         /\ socks' = bindsocket(bindsocket(socks, porta), portb)
         /\ Answer(porta)
  /\ port_pool' = PopTwo(port_pool)
  /\ threads' = threads \cup {m_rtpproxy.key}
  /\ UNCHANGED <<shut, requests, replies>>

\* new_thread when socket() fails: exit(1).  The kernel ends the threads and
\* closes the sockets; what was in memory is left as it last was.
Exit ==
  /\ Serving(1)
  /\ ~Found
  /\ Len(port_pool) >= 2
  /\ ~CanBindTwo
  /\ pc' = "exited"
  /\ threads' = {}
  /\ socks' = [fd \in {} |-> 0]
  /\ UNCHANGED <<m_rtpproxy, port_pool, p_table, shut, requests, replies>>

SlipCalleeSilent ==
  /\ Serving(2)
  /\ IF Found THEN Answer(p_table[m_rtpproxy.key][2]) ELSE pc' = "recv" /\ UNCHANGED m_rtpproxy
  /\ UNCHANGED <<port_pool, p_table, threads, shut, socks, requests, replies>>

SlipCallee ==
  /\ Serving(2)
  /\ Answer(p_table[m_rtpproxy.key][1])
  /\ UNCHANGED <<port_pool, p_table, threads, shut, socks, requests, replies>>

\* Type 2: the second port of the call, 0 if there is no call.
Callee ==
  /\ Serving(2)
  /\ Answer(p_table[m_rtpproxy.key][2])
  /\ UNCHANGED <<port_pool, p_table, threads, shut, socks, requests, replies>>

\* msgsnd of the answer: the server blocks while the queue is full.
Send ==
  /\ pc = "send"
  /\ Len(replies) < QueueLimit
  /\ replies' = Append(replies, m_rtpproxy)
  /\ pc' = "recv"
  /\ UNCHANGED <<m_rtpproxy, port_pool, p_table, threads, shut, socks, requests>>

SlipReleaseNothing ==
  /\ Serving(3)
  /\ ~Found
  /\ Answer(0)
  /\ UNCHANGED <<port_pool, p_table, threads, shut, socks, requests, replies>>

\* Type 3 for no call: kill_thread returns (0, 0) and nothing is pushed.
ReleaseNothing ==
  /\ Serving(3)
  /\ ~Found
  /\ pc' = "recv"
  /\ UNCHANGED <<m_rtpproxy, port_pool, p_table, threads, shut, socks, requests,
                 replies>>

SlipShut ==
  /\ Serving(3)
  /\ Found
  /\ pc' = "join"
  /\ UNCHANGED <<m_rtpproxy, port_pool, p_table, threads, shut, socks, requests, replies>>

\* kill_thread up to join(): the flag is set, the server waits.
Shut ==
  /\ Serving(3)
  /\ Found
  /\ shut' = shut \cup {m_rtpproxy.key}
  /\ pc' = "join"
  /\ UNCHANGED <<m_rtpproxy, port_pool, p_table, threads, socks, requests, replies>>

\* The thread `call': `while (!pcon->shut);' is over.
CallThread(k) ==
  /\ k \in threads
  /\ k \in shut
  /\ threads' = threads \ {k}
  /\ UNCHANGED <<pc, m_rtpproxy, port_pool, p_table, shut, socks, requests, replies>>

\* join() of the thread `call', which a detach() in its place would not wait for.
SlipJoin == TRUE
Join     == m_rtpproxy.key \notin threads

(***************************************************************************)
(* kill_thread from join() on, and the push_backs of main.  What it closes *)
(* are the descriptors whose NUMBERS are the call's ports, not sock[0] and *)
(* sock[1].  The flag dies with the proxy_control of the erased entry.     *)
(***************************************************************************)
Released ==
  /\ pc = "join"
  /\ Join
  /\ LET pair == p_table[m_rtpproxy.key]
     IN  /\ socks' = Close(socks, {pair[1], pair[2]})
         /\ port_pool' = PushTwo(port_pool, pair)
  /\ p_table' = [p_table EXCEPT ![m_rtpproxy.key] = NoPair]
  /\ shut' = shut \ {m_rtpproxy.key}
  /\ pc' = "recv"
  /\ UNCHANGED <<m_rtpproxy, threads, requests, replies>>

Server == Receive \/ ApplyAgain \/ Refuse \/ NewCall \/ Exit \/ Callee
          \/ Send \/ ReleaseNothing \/ Shut \/ Released

\* The client's half of the queues: any request, any time, and every answer read.
ClientSend(t, k) ==
  /\ Len(requests) < QueueLimit
  /\ requests' = Append(requests, [msgtype |-> t, key |-> k, port |-> 0])
  /\ UNCHANGED <<serverVars, replies>>

ClientReceive ==
  /\ replies # <<>>
  /\ replies' = Tail(replies)
  /\ UNCHANGED <<serverVars, requests>>

Next ==
  \/ Server
  \/ \E k \in CallIds : CallThread(k)
  \/ \E t \in MsgTypes, k \in CallIds : ClientSend(t, k)
  \/ ClientReceive

Spec == Init /\ [][Next]_vars

(***************************************************************************)
(* The operating system runs both kinds of thread, and the client reads    *)
(* every answer (get_port does not return before it has).  Nobody has to   *)
(* send anything.                                                          *)
(***************************************************************************)
FairSpec ==
  /\ Spec
  /\ WF_vars(Server)
  /\ \A k \in CallIds : WF_vars(CallThread(k))
  /\ WF_vars(ClientReceive)

-----------------------------------------------------------------------------
(***************************************************************************)
(* Every variable has its type; the pool holds ports of the range only     *)
(* (main.cpp:42-46), and no queue more than it can.                        *)
(***************************************************************************)
TypeOK ==
  /\ pc \in {"recv", "serve", "send", "join", "exited"}
  /\ m_rtpproxy \in Message
  /\ port_pool \in Seq(Ports)
  /\ p_table \in [CallIds -> Pairs \cup {NoPair}]
  /\ threads \subseteq CallIds
  /\ shut \subseteq CallIds
  /\ DOMAIN socks \subseteq Fds
  /\ socks \in [DOMAIN socks -> Ports]
  /\ requests \in Seq(Message) /\ Len(requests) <= QueueLimit
  /\ replies \in Seq(Message) /\ Len(replies) <= QueueLimit

PoolHasNoDuplicates ==
  \A i, j \in 1 .. Len(port_pool) : port_pool[i] = port_pool[j] => i = j

PoolAndCallsDisjoint ==
  \A k \in Calls : \A i \in 1 .. Len(port_pool) :
    port_pool[i] # p_table[k][1] /\ port_pool[i] # p_table[k][2]

CallsDisjoint ==
  \A k, l \in Calls : \A a, b \in 1 .. 2 :
    p_table[k][a] = p_table[l][b] => k = l /\ a = b

(***************************************************************************)
(* No port is ever in two hands: twice in the pool, in the pool and in a   *)
(* call, in two calls, or at both ends of one call, over any sequence of   *)
(* requests, repeated and out-of-place ones included.                      *)
(***************************************************************************)
PortsExclusive == PoolHasNoDuplicates /\ PoolAndCallsDisjoint /\ CallsDisjoint

(***************************************************************************)
(* No port is ever lost: each is in the pool or in a call.  With           *)
(* PortsExclusive this is the conservation of ports.                       *)
(***************************************************************************)
PortsComplete ==
  \A p \in Ports : \/ \E i \in 1 .. Len(port_pool) : port_pool[i] = p
                   \/ InACall(p)

(***************************************************************************)
(* Pairs are never broken up: after any number of calls the pool is still  *)
(* made of pairs <<p, p+1>>, so that a call's two ports are neighbours.    *)
(***************************************************************************)
PairsStay ==
  /\ Len(port_pool) = 2 * (Len(port_pool) \div 2)
  /\ \A i \in 1 .. Len(port_pool) \div 2 :
       port_pool[2 * i] = port_pool[2 * i - 1] + 1
  /\ \A k \in Calls : p_table[k][2] = p_table[k][1] + 1

(***************************************************************************)
(* The answer about to be sent is right: the port of that end of the call; *)
(* or 0, and then there is no such call, and if the client wanted a new    *)
(* one, every single port is in use.                                       *)
(***************************************************************************)
AnswerIsRight ==
  pc = "send" =>
    /\ m_rtpproxy.msgtype \in 1 .. 2
    /\ IF Call(m_rtpproxy.key)
         THEN m_rtpproxy.port = p_table[m_rtpproxy.key][m_rtpproxy.msgtype]
         ELSE /\ m_rtpproxy.port = 0
              /\ m_rtpproxy.msgtype = 1 =>
                   \A p \in Ports : InACall(p)

(***************************************************************************)
(* The `call' threads are exactly those of the table's calls, but for the  *)
(* one being joined, whose flag is then set: join() never waits for a      *)
(* thread nobody told to stop, and no call is left without its thread.     *)
(***************************************************************************)
OneThreadPerCall ==
  /\ pc \in {"recv", "serve", "send"} => shut = {} /\ threads = Calls
  /\ pc = "join" => /\ m_rtpproxy.msgtype = 3
                    /\ Call(m_rtpproxy.key)
                    /\ shut = {m_rtpproxy.key}
                    /\ Calls \ shut \subseteq threads
                    /\ threads \subseteq Calls

(***************************************************************************)
(* A call keeps its two ports for as long as it lives, and only a request  *)
(* of type 3 for that very call ends it: a repeated INVITE changes nothing *)
(* for its own call or for another.                                        *)
(***************************************************************************)
CallKeepsItsPorts ==
  [][\A k \in CallIds :
       Call(k) /\ p_table'[k] # p_table[k] =>
         p_table'[k] = NoPair /\ m_rtpproxy.msgtype = 3 /\ m_rtpproxy.key = k]_vars

(***************************************************************************)
(* threadcontrol.cpp says of kill_thread that it closes the thread and     *)
(* releases the port: every open socket belongs to a call of the table.    *)
(***************************************************************************)
SocketsReleased ==
  pc = "recv" =>
    \A fd \in DOMAIN socks : InACall(socks[fd])

(***************************************************************************)
(* The server always comes back for the next request: no answer and no     *)
(* join() blocks it for good, short of exit(1).                            *)
(***************************************************************************)
ServerComesBack == pc # "recv" ~> pc \in {"recv", "exited"}
=============================================================================
