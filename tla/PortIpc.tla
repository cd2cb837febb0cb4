------------------------------- MODULE PortIpc -------------------------------
(***************************************************************************)
(* get_port of module_rtpproxy.c and the relay server of RtpServer, with   *)
(* the two queues between their processes.  The caller is the CSCF's one   *)
(* worker thread; its SIP messages may ask for any port of any call.  The  *)
(* CSCF may be killed and started again at any point (main.c:11 says that  *)
(* this is how it is stopped): the queues, which the kernel keeps, and the *)
(* server know nothing of it.  Nothing in an answer says which request it  *)
(* is for, and get_port does not look at the key and the type in it.       *)
(***************************************************************************)
EXTENDS RtpServer, MsgQueues

CONSTANT MaxKills      \* how often the CSCF is killed

ASSUME KillAssumption == MaxKills \in Nat
ASSUME NoneAssumption == "none" \notin CallIds     \* no call has the key of NoResult

VARIABLES
  cpc,     \* the worker: "idle", in "msgsnd" or in "msgrcv" of get_port
  asked,   \* its request
  got,     \* what get_port last returned, and for which call
  kills

clientVars == <<cpc, asked, got, kills>>
ipcVars == <<vars, clientVars>>

NoResult == [key |-> "none", port |-> 0]

InitIpc ==
  /\ Init
  /\ cpc = "idle"
  /\ asked \in [msgtype : {1}, key : CallIds, port : {0}]
  /\ got = NoResult
  /\ kills = 0

-----------------------------------------------------------------------------
set_m_rtpproxy(t, k) ==
  /\ cpc = "idle"
  /\ asked' = [msgtype |-> t, key |-> k, port |-> 0]
  /\ cpc' = "msgsnd"
  /\ UNCHANGED <<vars, got, kills>>

\* msgsnd blocks while the queue is full; a release waits for no answer.
get_port_send ==
  /\ cpc = "msgsnd"
  /\ Len(requests) < QueueLimit
  /\ requests' = Append(requests, asked)
  /\ cpc' = IF asked.msgtype = 3 THEN "idle" ELSE "msgrcv"
  /\ UNCHANGED <<serverVars, replies, asked, got, kills>>

get_port_receive ==
  /\ cpc = "msgrcv"
  /\ replies # <<>>
  /\ replies' = Tail(replies)
  /\ got' = [key |-> asked.key, port |-> Head(replies).port]
  /\ cpc' = "idle"
  /\ UNCHANGED <<serverVars, requests, asked, kills>>

get_port == get_port_send \/ get_port_receive

\* The CSCF is killed, in get_port or not, and started again.
Restart ==
  /\ kills < MaxKills
  /\ kills' = kills + 1
  /\ cpc' = "idle"
  /\ got' = NoResult
  /\ UNCHANGED <<vars, asked>>

ServerStep ==
  /\ Server \/ \E k \in CallIds : CallThread(k)
  /\ UNCHANGED clientVars

NextIpc ==
  \/ ServerStep
  \/ \E t \in MsgTypes, k \in CallIds : set_m_rtpproxy(t, k)
  \/ get_port
  \/ Restart

SpecIpc == InitIpc /\ [][NextIpc]_ipcVars

(* Both processes run; SIP messages need not come. *)
FairSpecIpc ==
  SpecIpc /\ WF_ipcVars(ServerStep) /\ WF_ipcVars(get_port)

-----------------------------------------------------------------------------
TypeOKIpc ==
  /\ TypeOK
  /\ cpc \in {"idle", "msgsnd", "msgrcv"}
  /\ asked \in Message
  /\ got \in {NoResult} \cup [key : CallIds, port : Ports \cup {0}]
  /\ kills \in 0 .. MaxKills

(***************************************************************************)
(* The service the caller sees.  A request counts as done when msgsnd has  *)
(* put it on the queue: calls and answers of the service are what they are *)
(* once the requests the server has yet to serve are served in order.      *)
(***************************************************************************)
Done(state, m) ==
  LET pair == state.table[m.key]
      \* a call that applies for ports and is new gets the first two of the pool
      new  == m.msgtype = 1 /\ pair = NoPair /\ Len(state.pool) >= 2
      two  == <<state.pool[1], state.pool[2]>>
      port == IF new THEN state.pool[1] ELSE pair[m.msgtype]
  IN  IF m.msgtype = 3 /\ pair = NoPair THEN state
      ELSE IF m.msgtype = 3
           THEN [table   |-> [state.table EXCEPT ![m.key] = NoPair],
                 pool    |-> state.pool \o pair,
                 answers |-> state.answers]
           ELSE [table   |-> IF new THEN [state.table EXCEPT ![m.key] = two] ELSE state.table,
                 pool    |-> IF new THEN SubSeq(state.pool, 3, Len(state.pool)) ELSE state.pool,
                 answers |-> Append(state.answers, port)]

\* What state is once the requests of queue s have been served.
Served(state, s) ==
  LET after[i \in 0 .. Len(s)] == IF i = 0 THEN state ELSE Done(after[i - 1], s[i])
  IN  after[Len(s)]

InService == IF pc \in {"serve", "join", "exited"} THEN <<m_rtpproxy>> ELSE <<>>

InHand == IF pc = "send" THEN <<m_rtpproxy>> ELSE <<>>

Given == [i \in DOMAIN (replies \o InHand) |-> (replies \o InHand)[i].port]

AllDone ==
  Served([table |-> p_table, pool |-> port_pool, answers |-> Given], InService \o requests)

Service == INSTANCE PortService WITH
  alloc <- AllDone.table, answers <- AllDone.answers,
  caller <- IF cpc = "msgrcv" THEN asked.key ELSE "none"

(***************************************************************************)
(* get_port and the server are the sequential service of PortService: with *)
(* releases that nobody waits for, with full queues, with repeated and     *)
(* out-of-place requests, and with kills of the CSCF at any point, which   *)
(* do no more than PortService says.                                       *)
(***************************************************************************)
ImplementsService == Service!Spec

(***************************************************************************)
(* Kills leave no more behind than one answer each: the requests not yet   *)
(* answered and the answers not yet read are at most the one get_port      *)
(* waits for and one per kill.                                             *)
(***************************************************************************)
Wants(s) == CountTypes(s, {1, 2})

StrayAnswersBounded ==
  Wants(InService) + Wants(requests) + Len(Given)
    <= kills + (IF cpc = "msgrcv" THEN 1 ELSE 0)

(***************************************************************************)
(* While get_port waits there is something to wait for: a request for a    *)
(* port that the server has yet to read or has in hand (or went with when  *)
(* it exited), or an answer on its way.  No answer that a kill has left    *)
(* behind, and no other request, takes the place of the one in flight: a   *)
(* worker in msgrcv with none to come would not serve another SIP message  *)
(* (module_rtpproxy.c:81-84, main.cpp:47-107).                             *)
(***************************************************************************)
AnswerOwed == cpc = "msgrcv" => Wants(InService) + Wants(requests) + Len(Given) >= 1

(***************************************************************************)
(* get_port returns, unless the server has exited: the processes never     *)
(* wait for each other for good, with full queues and stray answers too.   *)
(***************************************************************************)
CallerReturns == cpc # "idle" ~> (cpc = "idle" \/ pc = "exited")

(***************************************************************************)
(* Until the CSCF is killed for the first time, what get_port returns is   *)
(* the port asked for, of that very call, as the server has it when        *)
(* get_port returns: whatever releases were sent before it and have not    *)
(* been served, and 0 only for a call without ports                        *)
(* (module_rtpproxy.c:77-87, main.cpp:47-107).                             *)
(***************************************************************************)
OwnAnswer ==
  [][cpc = "msgrcv" /\ cpc' = "idle" /\ kills' = 0
       => got'.port = p_table[got'.key][asked.msgtype]]_ipcVars

(***************************************************************************)
(* module_rtpproxy.c:76 says get_port gets the RTP relay port: a port that *)
(* the SDP of a call is rewritten to is a port of that very call.          *)
(***************************************************************************)
PortIsTheCalls ==
  [][got' # got /\ got'.port # 0
       => got'.port \in {p_table[got'.key][1], p_table[got'.key][2]}]_ipcVars
=============================================================================
