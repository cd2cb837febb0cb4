------------------------------- MODULE HssIpc -------------------------------
(***************************************************************************)
(* The CSCF and the HSS: users register (module_registrar.c), requests are *)
(* routed to where their user has registered (module_cscf_hss_IPC.c), both *)
(* over two queues that the kernel keeps; with the life of the CSCF around *)
(* them (main.c, app.c): it is started, left by typing exit, or killed,    *)
(* any number of times.  The HSS is not part of this repository: it is     *)
(* taken to serve its queue in order, to store what a message of type 1    *)
(* says and to answer one of type 2, until it dies.                        *)
(*                                                                         *)
(* A SUBSCRIBE and a REGISTER without credentials are answered by 200 and  *)
(* 401 and change nothing here.  A definition whose name starts with Slip  *)
(* is used by no specification.                                            *)
(***************************************************************************)
EXTENDS MsgQueues, FiniteSetsExt

CONSTANTS
  Users,
  Places,        \* the addresses messages come from
  Registers,     \* what a REGISTER may contain: its Contacts and its Expires header
  QueueLimit,    \* messages a queue has room for
  MaxKills       \* how often the CSCF is killed

Absent  == -1             \* no Expires header, no expires parameter
Nowhere == "nowhere"
Unsure  == "unsure"
Star    == [user |-> "*", expires |-> Absent]
Contacts == [user : Users, expires : {Absent, 0, 1}] \cup {Star}

ASSUME HssAssumption ==
  /\ Nowhere \notin Places /\ Unsure \notin Places /\ "*" \notin Users
  /\ \A r \in Registers : r.contacts \in Seq(Contacts) \ {<<>>} /\ r.header \in {Absent, 0, 1}
  /\ QueueLimit \in Nat \ {0}
  /\ MaxKills \in Nat

VARIABLES
  requests, answers,   \* the queues to the HSS and from it
  table,               \* the HSS: where each user is
  hand,                \* the HSS: the answer it has ready
  hss,                 \* whether it lives
  process,             \* the CSCF: "stopped", "running" or "leaving" (app.quit)
  worker,              \* its worker thread: "none", "idle", or in "set_chart", "msgsnd" or
                       \* "msgrcv" of get_chart
  job,                 \* the message the worker thread handles
  got,                 \* what get_chart last returned
  kills,
  known                \* where each user is by the REGISTERs that were answered with 200

queues == <<requests, answers>>
hssVars == <<table, hand, hss>>
vars == <<queues, hssVars, process, worker, job, got, kills, known>>

NoJob    == <<>>
NoResult == <<>>
Nothing  == <<>>

Init ==
  /\ requests = <<>> /\ answers = <<>>
  /\ table = [u \in Users |-> Nowhere] /\ hand = Nothing /\ hss = TRUE
  /\ process = "stopped" /\ worker = "none" /\ job = NoJob
  /\ got = NoResult
  /\ kills = 0
  /\ known = [u \in Users |-> Nowhere]

-----------------------------------------------------------------------------
(* The process. *)

\* main starts the stack and waits for input, whether init_stack has failed or not.
Start ==
  /\ process = "stopped"
  /\ process' = "running"
  /\ worker' \in {"idle", "none"}
  /\ UNCHANGED <<queues, hssVars, job, got, kills, known>>

\* exit is typed: destroy_stack sets app.quit and joins the worker thread.
Exit ==
  /\ process = "running"
  /\ process' = "leaving"
  /\ UNCHANGED <<queues, hssVars, worker, job, got, kills, known>>

SlipJoined ==
  /\ process = "leaving"
  /\ process' = "stopped"
  /\ UNCHANGED <<queues, hssVars, worker, job, got, kills, known>>

Joined ==
  /\ process = "leaving" /\ worker = "none"
  /\ process' = "stopped"
  /\ UNCHANGED <<queues, hssVars, worker, job, got, kills, known>>

\* The users of a REGISTER that the CSCF did not live to answer.
Unanswered ==
  IF worker # "set_chart" THEN {} ELSE {job.reg.contacts[i].user : i \in DOMAIN job.reg.contacts}

Ends ==
  /\ process' = "stopped" /\ worker' = "none" /\ job' = NoJob
  /\ known' = [u \in Users |-> IF u \in Unanswered THEN Unsure ELSE known[u]]
  /\ UNCHANGED <<queues, hssVars, got>>

Kill ==
  /\ process # "stopped"
  /\ kills < MaxKills
  /\ kills' = kills + 1
  /\ Ends

SlipReturn ==
  /\ worker' = "idle"
  /\ job' = NoJob

\* The worker thread looks at app.quit between two events.
Return ==
  /\ worker' = IF process = "leaving" THEN "none" ELSE "idle"
  /\ job' = NoJob

WorkerQuits ==
  /\ worker = "idle" /\ process = "leaving"
  /\ Return
  /\ UNCHANGED <<queues, hssVars, process, got, kills, known>>

-----------------------------------------------------------------------------
(* module_registrar.c *)
Receive(w, j) ==
  /\ worker = "idle"
  /\ worker' = w
  /\ job' = j
  /\ got' = NoResult
  /\ UNCHANGED <<queues, hssVars, process, kills, known>>

RxRegister ==
  \E reg \in Registers, src \in Places :
    Receive("set_chart", [reg |-> reg, src |-> src, left |-> reg.contacts])

SlipExpires(reg, contact) == contact.expires

\* The Expires header comes before the Contact's own parameter.
Expires(reg, contact) == IF reg.header # Absent THEN reg.header ELSE contact.expires

\* Where a REGISTER puts its user; a message of type 1 says it to the HSS.
Place(src, expires) == IF expires = 0 THEN Nowhere ELSE src

\* The last Contact of a user counts.
Answered ==
  [u \in Users |->
    LET contacts == job.reg.contacts
        mine == {i \in DOMAIN contacts : contacts[i].user = u}
    IN  IF mine = {} THEN known[u]
        ELSE IF job.reg.header # Absent THEN Place(job.src, job.reg.header)
        ELSE Place(job.src, contacts[Max(mine)].expires)]

\* Each Contact is sent to the HSS as it comes; after the last one the REGISTER is answered.
set_chart ==
  /\ worker = "set_chart"
  /\ LET contact == Head(job.left)
     IN  /\ contact # Star
         /\ Len(requests) < QueueLimit
         /\ requests' = Append(requests, [msgtype |-> 1, user |-> contact.user, addr |-> job.src,
                                          expire |-> Expires(job.reg, contact)])
  /\ IF Len(job.left) = 1 THEN Return /\ known' = Answered
                          ELSE job' = [job EXCEPT !.left = Tail(@)] /\ UNCHANGED <<worker, known>>
  /\ UNCHANGED <<answers, hssVars, process, got, kills>>

\* "Contact: *" has no URI, and the registrar reads its user all the same.
ReadsStar ==
  /\ worker = "set_chart"
  /\ Head(job.left) = Star
  /\ Ends
  /\ UNCHANGED kills

-----------------------------------------------------------------------------
(* route_on_rx_msg of module_cscf_hss_IPC.c *)
RxRequest == \E u \in Users : Receive("msgsnd", [key |-> u])

get_chart_send ==
  /\ worker = "msgsnd"
  /\ Len(requests) < QueueLimit
  /\ requests' = Append(requests, [msgtype |-> 2, user |-> job.key, addr |-> Nowhere, expire |-> 0])
  /\ worker' = "msgrcv"
  /\ UNCHANGED <<answers, hssVars, process, job, got, kills, known>>

\* The first answer of the queue is taken; -1 says that there is no such user.
get_chart_receive ==
  /\ worker = "msgrcv"
  /\ answers # <<>>
  /\ answers' = Tail(answers)
  /\ LET a == Head(answers)
     IN  got' = [user |-> job.key, addr |-> IF a.expire = -1 THEN Nowhere ELSE a.addr]
  /\ Return
  /\ UNCHANGED <<requests, hssVars, process, kills, known>>

Worker == WorkerQuits \/ set_chart \/ ReadsStar \/ get_chart_send \/ get_chart_receive

-----------------------------------------------------------------------------
(* The HSS. *)
Stored(places, m) ==
  IF m.msgtype = 1 THEN [places EXCEPT ![m.user] = Place(m.addr, m.expire)] ELSE places

SlipAnswers(m) == TRUE

Answers(m) == m.msgtype = 2

HssServe ==
  /\ hss /\ hand = Nothing /\ requests # <<>>
  /\ LET m == Head(requests)
     IN  /\ table' = Stored(table, m)
         /\ hand' = IF ~Answers(m) THEN Nothing
                    ELSE [addr   |-> table[m.user],
                          expire |-> IF table[m.user] = Nowhere THEN -1 ELSE 0]
  /\ requests' = Tail(requests)
  /\ UNCHANGED <<answers, hss, process, worker, job, got, kills, known>>

HssSend ==
  /\ hss /\ hand # Nothing
  /\ Len(answers) < QueueLimit
  /\ answers' = Append(answers, hand)
  /\ hand' = Nothing
  /\ UNCHANGED <<requests, table, hss, process, worker, job, got, kills, known>>

HssDies ==
  /\ hss
  /\ hss' = FALSE
  /\ UNCHANGED <<queues, table, hand, process, worker, job, got, kills, known>>

Hss == HssServe \/ HssSend

Next == Start \/ Exit \/ Joined \/ Kill \/ Worker \/ RxRegister \/ RxRequest \/ Hss \/ HssDies

Spec == Init /\ [][Next]_vars

(* The threads run while there is something for them to do; nobody has to type exit. *)
FairSpec == Spec /\ WF_vars(Worker) /\ WF_vars(Joined) /\ WF_vars(Hss)

-----------------------------------------------------------------------------
Somewhere == Places \cup {Nowhere}

TypeOK ==
  /\ requests \in Seq([msgtype : {1, 2}, user : Users, addr : Somewhere, expire : {Absent, 0, 1}])
  /\ Len(requests) <= QueueLimit
  /\ answers \in Seq([addr : Somewhere, expire : {-1, 0}])
  /\ Len(answers) <= QueueLimit
  /\ table \in [Users -> Somewhere]
  /\ hand \in {Nothing} \cup [addr : Somewhere, expire : {-1, 0}]
  /\ hss \in BOOLEAN
  /\ process \in {"stopped", "running", "leaving"}
  /\ worker \in {"none", "idle", "set_chart", "msgsnd", "msgrcv"}
  /\ process = "stopped" => worker = "none"
  /\ worker = "set_chart" => job \in [reg : Registers, src : Places, left : Seq(Contacts) \ {<<>>}]
  /\ worker \in {"msgsnd", "msgrcv"} => job \in [key : Users]
  /\ got \in {NoResult} \cup [user : Users, addr : Somewhere]
  /\ kills \in 0 .. MaxKills
  /\ known \in [Users -> Somewhere \cup {Unsure}]

\* Where u is once the requests of queue s have been served.
About(s, u) == {i \in DOMAIN s : s[i].msgtype = 1 /\ s[i].user = u}
InTheEnd(places, s, u) ==
  IF About(s, u) = {} THEN places[u]
  ELSE LET m == s[Max(About(s, u))] IN Place(m.addr, m.expire)

(***************************************************************************)
(* What a REGISTER that was answered with 200 said is not lost on the way  *)
(* to the HSS, however the CSCF is stopped and started (module_registrar.c:*)
(* 47-86).                                                                 *)
(***************************************************************************)
AnsweredIsStored ==
  worker # "set_chart" =>
    \A u \in Users : known[u] \in {Unsure, InTheEnd(table, requests, u)}

(***************************************************************************)
(* A request is sent to where its user has last registered, and is refused *)
(* only if it has not (module_cscf_hss_IPC.c:59-102): until the CSCF is    *)
(* killed, although nothing in an answer says which user it is for.        *)
(***************************************************************************)
LookupIsTheUsers ==
  kills = 0 /\ got # NoResult => known[got.user] \in {Unsure, got.addr}

(***************************************************************************)
(* Nothing but kills leaves answers behind, at most one each: a CSCF that  *)
(* is left by exit takes its last answer first, which main.c:11 advises    *)
(* against.                                                                *)
(***************************************************************************)
Wants(s) == CountTypes(s, {2})

StrayAnswersBounded ==
  Wants(requests) + (IF hand = Nothing THEN 0 ELSE 1) + Len(answers)
    <= kills + (IF worker = "msgrcv" THEN 1 ELSE 0)

(***************************************************************************)
(* destroy_stack returns, whatever the worker thread is doing when exit is *)
(* typed (app.c:74-91), unless the HSS has died.                           *)
(***************************************************************************)
ExitEnds == process = "leaving" ~> process # "leaving" \/ ~hss
=============================================================================
