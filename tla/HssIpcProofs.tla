---------------------------- MODULE HssIpcProofs ----------------------------
(***************************************************************************)
(* Proofs about HssIpc: its type invariant, that what a REGISTER has said  *)
(* is stored in the end, that the answer a lookup takes is its own until   *)
(* the CSCF is killed, and that kills leave no more than one answer each.  *)
(***************************************************************************)
EXTENDS HssIpc, MsgQueuesProofs

(***************************************************************************)
(* While the Contacts of a REGISTER go to the HSS one by one: where it has *)
(* put the users of those that are sent, and what was known before of the  *)
(* others.                                                                 *)
(***************************************************************************)
Mine(u, n) == {i \in 1 .. n : job.reg.contacts[i].user = u}

Sent(n) ==
  /\ job.left = SubSeq(job.reg.contacts, n + 1, Len(job.reg.contacts))
  /\ \A u \in Users :
       /\ Mine(u, n) = {} => known[u] \in {Unsure, InTheEnd(table, requests, u)}
       /\ \A i \in Mine(u, n) :
            (\A j \in Mine(u, n) : j <= i)
              => InTheEnd(table, requests, u)
                   = Place(job.src, Expires(job.reg, job.reg.contacts[i]))

Registering ==
  worker = "set_chart" => \E n \in 0 .. Len(job.reg.contacts) - 1 : Sent(n)

(***************************************************************************)
(* Before the CSCF is killed nothing that could be an answer is on its way *)
(* but the one lookup the worker thread waits for, and no REGISTER comes   *)
(* after it in the queue.                                                  *)
(***************************************************************************)
Asking(i) == requests[i].msgtype = 2

True(a) == known[job.key] \in {Unsure, IF a.expire = -1 THEN Nowhere ELSE a.addr}

NothingPending ==
  kills = 0 /\ worker # "msgrcv" =>
    /\ \A i \in DOMAIN requests : ~Asking(i)
    /\ hand = Nothing /\ answers = <<>>

OnePending ==
  kills = 0 /\ worker = "msgrcv" =>
    /\ \A i \in DOMAIN requests :
         Asking(i) => /\ i = Len(requests) /\ requests[i].user = job.key
                      /\ hand = Nothing /\ answers = <<>>
    /\ hand # Nothing => requests = <<>> /\ answers = <<>> /\ True(hand)
    /\ answers # <<>> =>
         Len(answers) = 1 /\ requests = <<>> /\ hand = Nothing /\ True(Head(answers))

(* The result of the last lookup is forgotten when the next message comes. *)
Fresh == worker \in {"set_chart", "msgsnd", "msgrcv"} => got = NoResult

IInv ==
  /\ TypeOK
  /\ AnsweredIsStored
  /\ Registering
  /\ NothingPending
  /\ OnePending
  /\ Fresh
  /\ LookupIsTheUsers
  /\ StrayAnswersBounded

-----------------------------------------------------------------------------
Message == [msgtype : {1, 2}, user : Users, addr : Somewhere, expire : {Absent, 0, 1}]
Reply   == [addr : Somewhere, expire : {-1, 0}]

(* The greatest of a nonempty set of indices. *)
LEMMA MaxIsLast ==
  ASSUME NEW n \in Nat, NEW T, T \subseteq 1 .. n,
         NEW i \in T, \A j \in T : j <= i
  PROVE  Max(T) = i
<1>1. \A x \in T : x \in Nat
  OBVIOUS
<1>2. Max(T) \in T /\ \A j \in T : Max(T) >= j
  BY <1>1 DEF Max
<1>3. Max(T) \in Nat /\ i \in Nat /\ Max(T) >= i /\ Max(T) <= i
  BY <1>1, <1>2
<1>4. QED
  BY <1>3

(* InTheEnd: the last message of the queue that says where u is decides. *)
LEMMA InTheEndIs ==
  ASSUME NEW s \in Seq(Message), NEW places, NEW u
  PROVE  /\ About(s, u) \subseteq 1 .. Len(s)
         /\ About(s, u) = {} => InTheEnd(places, s, u) = places[u]
         /\ \A i \in About(s, u) :
              (\A j \in About(s, u) : j <= i)
                => InTheEnd(places, s, u) = Place(s[i].addr, s[i].expire)
<1>1. Len(s) \in Nat /\ About(s, u) \subseteq 1 .. Len(s)
  BY DEF About
<1>2. ASSUME NEW i \in About(s, u), \A j \in About(s, u) : j <= i
      PROVE  InTheEnd(places, s, u) = Place(s[i].addr, s[i].expire)
  <2>1. Max(About(s, u)) = i
    BY <1>1, <1>2, MaxIsLast
  <2>2. QED
    BY <2>1 DEF InTheEnd
<1>3. About(s, u) = {} => InTheEnd(places, s, u) = places[u]
  BY DEF InTheEnd
<1>4. QED
  BY <1>1, <1>2, <1>3

(* A message that is put into the queue says where its user is in the end. *)
LEMMA InTheEndAppend ==
  ASSUME NEW s \in Seq(Message), NEW m \in Message, NEW places, NEW u
  PROVE  InTheEnd(places, Append(s, m), u)
           = IF m.msgtype = 1 /\ m.user = u THEN Place(m.addr, m.expire)
             ELSE InTheEnd(places, s, u)
<1> DEFINE t == Append(s, m)
<1>1. /\ t \in Seq(Message) /\ Len(t) = Len(s) + 1 /\ Len(s) \in Nat
      /\ \A i \in 1 .. Len(s) : t[i] = s[i]
      /\ t[Len(s) + 1] = m
  OBVIOUS
<1>2. About(s, u) = {i \in 1 .. Len(s) : s[i].msgtype = 1 /\ s[i].user = u}
  BY DEF About
<1>3. About(t, u) = {i \in 1 .. Len(s) + 1 : t[i].msgtype = 1 /\ t[i].user = u}
  BY <1>1 DEF About
<1> HIDE DEF t
<1>4. CASE m.msgtype = 1 /\ m.user = u
  <2>1. Len(s) + 1 \in About(t, u) /\ \A j \in About(t, u) : j <= Len(s) + 1
    BY <1>1, <1>3, <1>4
  <2>2. InTheEnd(places, t, u) = Place(t[Len(s) + 1].addr, t[Len(s) + 1].expire)
    BY <1>1, <2>1, InTheEndIs
  <2>3. QED
    BY <1>1, <1>4, <2>2 DEF t
<1>5. CASE ~ (m.msgtype = 1 /\ m.user = u)
  <2>1. About(t, u) = About(s, u)
    BY <1>1, <1>2, <1>3, <1>5
  <2>2. CASE About(s, u) = {}
    <3>1. InTheEnd(places, s, u) = places[u] /\ InTheEnd(places, t, u) = places[u]
      BY <1>1, <2>1, <2>2, InTheEndIs
    <3>2. QED
      BY <1>5, <3>1 DEF t
  <2>3. CASE About(s, u) # {}
    <3>1. PICK i \in About(s, u) : \A j \in About(s, u) : j <= i
      BY <1>1, <1>2, <2>3, LastIndex
    <3>2. InTheEnd(places, s, u) = Place(s[i].addr, s[i].expire)
      BY <3>1, InTheEndIs
    <3>3. InTheEnd(places, t, u) = Place(t[i].addr, t[i].expire)
      BY <1>1, <2>1, <3>1, InTheEndIs
    <3>4. t[i] = s[i]
      BY <1>1, <1>2
    <3>5. QED
      BY <1>5, <3>2, <3>3, <3>4 DEF t
  <2>4. QED
    BY <2>2, <2>3
<1>6. QED
  BY <1>4, <1>5

(* Serving the first message changes nothing of where a user is in the end. *)
LEMMA InTheEndServe ==
  ASSUME NEW s \in Seq(Message), s # <<>>, NEW places \in [Users -> Somewhere],
         NEW u \in Users
  PROVE  InTheEnd(Stored(places, Head(s)), Tail(s), u) = InTheEnd(places, s, u)
<1> DEFINE t == Tail(s)
           m == Head(s)
<1>1. /\ t \in Seq(Message) /\ Len(t) = Len(s) - 1 /\ Len(s) \in Nat /\ Len(s) >= 1
      /\ \A i \in 1 .. Len(s) - 1 : t[i] = s[i + 1]
      /\ m = s[1] /\ m \in Message
  OBVIOUS
<1>2. About(s, u) = {i \in 1 .. Len(s) : s[i].msgtype = 1 /\ s[i].user = u}
  BY DEF About
<1>3. About(t, u) = {i \in 1 .. Len(s) - 1 : t[i].msgtype = 1 /\ t[i].user = u}
  BY <1>1 DEF About
<1> HIDE DEF t, m
<1>4. \A i \in 1 .. Len(s) - 1 : i \in About(t, u) <=> i + 1 \in About(s, u)
  BY <1>1, <1>2, <1>3
<1>5. CASE About(t, u) # {}
  <2>1. PICK i \in About(t, u) : \A j \in About(t, u) : j <= i
    <3>1. About(t, u) \subseteq 1 .. Len(s) - 1 /\ Len(s) - 1 \in Nat
      BY <1>1, <1>3
    <3>2. QED
      BY <1>5, <3>1, LastIndex
  <2>2. InTheEnd(Stored(places, m), t, u) = Place(t[i].addr, t[i].expire)
    BY <1>1, <2>1, InTheEndIs
  <2>3. i \in 1 .. Len(s) - 1 /\ i + 1 \in About(s, u)
    BY <1>3, <1>4
  <2>4. \A j \in About(s, u) : j <= i + 1
    <3>1. ASSUME NEW j \in About(s, u), j > i + 1 PROVE FALSE
      <4>1. j \in 1 .. Len(s) /\ j - 1 \in 1 .. Len(s) - 1 /\ (j - 1) + 1 = j
        BY <1>1, <1>2, <2>3, <3>1
      <4>2. j - 1 \in About(t, u)
        BY <1>4, <4>1
      <4>3. QED
        BY <2>1, <2>3, <3>1, <4>1, <4>2
    <3>2. QED
      BY <1>1, <1>2, <2>3, <3>1
  <2>5. InTheEnd(places, s, u) = Place(s[i + 1].addr, s[i + 1].expire)
    BY <2>3, <2>4, InTheEndIs
  <2>6. QED
    BY <1>1, <2>2, <2>3, <2>5 DEF t, m
<1>6. CASE About(t, u) = {} /\ m.msgtype = 1 /\ m.user = u
  <2>1. 1 \in About(s, u)
    BY <1>1, <1>2, <1>6
  <2>2. \A j \in About(s, u) : j <= 1
    <3>1. ASSUME NEW j \in About(s, u), j > 1 PROVE FALSE
      <4>1. j - 1 \in 1 .. Len(s) - 1 /\ (j - 1) + 1 = j
        BY <1>1, <1>2, <3>1
      <4>2. QED
        BY <1>4, <1>6, <4>1
    <3>2. QED
      BY <1>1, <1>2, <3>1
  <2>3. InTheEnd(places, s, u) = Place(m.addr, m.expire)
    BY <1>1, <2>1, <2>2, InTheEndIs
  <2>4. InTheEnd(Stored(places, m), t, u) = Stored(places, m)[u]
    BY <1>1, <1>6, InTheEndIs
  <2>5. Stored(places, m)[u] = Place(m.addr, m.expire)
    BY <1>6 DEF Stored
  <2>6. QED
    BY <2>3, <2>4, <2>5 DEF t, m
<1>7. CASE About(t, u) = {} /\ ~ (m.msgtype = 1 /\ m.user = u)
  <2>1. About(s, u) = {}
    <3>1. ASSUME NEW j \in About(s, u) PROVE FALSE
      <4>1. j \in 1 .. Len(s) /\ j # 1
        BY <1>1, <1>2, <1>7
      <4>2. j - 1 \in 1 .. Len(s) - 1 /\ (j - 1) + 1 = j
        BY <1>1, <4>1
      <4>3. QED
        BY <1>4, <1>7, <4>2
    <3>2. QED
      BY <3>1
  <2>2. InTheEnd(places, s, u) = places[u]
    BY <2>1, InTheEndIs
  <2>3. InTheEnd(Stored(places, m), t, u) = Stored(places, m)[u]
    BY <1>1, <1>7, InTheEndIs
  <2>4. Stored(places, m)[u] = places[u]
    BY <1>1, <1>7 DEF Stored, Message
  <2>5. QED
    BY <2>2, <2>3, <2>4 DEF t, m
<1>8. QED
  BY <1>5, <1>6, <1>7

-----------------------------------------------------------------------------
(* The type invariant. *)

(* What HssAssumption says of a REGISTER. *)
LEMMA RegisterIs ==
  ASSUME NEW reg \in Registers
  PROVE  /\ reg.contacts \in Seq(Contacts) /\ reg.contacts # <<>>
         /\ reg.header \in {Absent, 0, 1}
BY HssAssumption

(* A Contact that is not a star names one of the users. *)
LEMMA ContactIs ==
  ASSUME NEW c \in Contacts, c # Star
  PROVE  c.user \in Users /\ c.expires \in {Absent, 0, 1}
BY DEF Contacts

(* The users' places are places. *)
LEMMA PlaceIs ==
  ASSUME NEW src \in Somewhere, NEW expires
  PROVE  Place(src, expires) \in Somewhere
BY DEF Place, Somewhere

(* The Contact that set_chart sends, and the message it sends. *)
LEMMA ContactSent ==
  ASSUME TypeOK, worker = "set_chart", Head(job.left) # Star
  PROVE  /\ job.reg \in Registers /\ job.src \in Places /\ job.src \in Somewhere
         /\ job.left \in Seq(Contacts) /\ job.left # <<>>
         /\ Head(job.left) \in Contacts /\ Head(job.left).user \in Users
         /\ [msgtype |-> 1, user |-> Head(job.left).user, addr |-> job.src,
             expire |-> Expires(job.reg, Head(job.left))] \in Message
<1>1. /\ job.reg \in Registers /\ job.src \in Places
      /\ job.left \in Seq(Contacts) /\ job.left # <<>>
  BY DEF TypeOK
<1>2. job.src \in Somewhere /\ Head(job.left) \in Contacts
  BY <1>1 DEF Somewhere
<1>3. Head(job.left).user \in Users /\ Head(job.left).expires \in {Absent, 0, 1}
  BY <1>2, ContactIs
<1>4. Expires(job.reg, Head(job.left)) \in {Absent, 0, 1}
  BY <1>1, <1>3, RegisterIs DEF Expires
<1>5. QED
  BY <1>1, <1>2, <1>3, <1>4 DEF Message

(* The initial state has its type. *)
LEMMA TypeInit == Init => TypeOK
BY HssAssumption DEF Init, TypeOK, Somewhere, NoResult, Nothing

(* Every step keeps the types. *)
LEMMA TypeStep == TypeOK /\ [Next]_vars => TypeOK'
<1> SUFFICES ASSUME TypeOK, [Next]_vars PROVE TypeOK'
  OBVIOUS
<1> USE DEF Nothing, NoResult
<1>1. CASE Start
  BY <1>1 DEF TypeOK, Start, queues, hssVars
<1>2. CASE Exit
  BY <1>2 DEF TypeOK, Exit, queues, hssVars
<1>3. CASE Joined
  BY <1>3 DEF TypeOK, Joined, queues, hssVars
<1>4. CASE Ends /\ kills' \in 0 .. MaxKills
  BY <1>4 DEF TypeOK, Ends, queues, hssVars
<1>5. CASE Kill
  <2>1. kills' \in 0 .. MaxKills
    BY <1>5, HssAssumption DEF Kill, TypeOK
  <2>2. QED
    BY <1>4, <1>5, <2>1 DEF Kill
<1>6. CASE WorkerQuits
  BY <1>6 DEF TypeOK, WorkerQuits, Return, queues, hssVars
<1>7. CASE set_chart
  <2> DEFINE m == [msgtype |-> 1, user |-> Head(job.left).user, addr |-> job.src,
                   expire |-> Expires(job.reg, Head(job.left))]
  <2>1. /\ worker = "set_chart" /\ Head(job.left) # Star /\ Len(requests) < QueueLimit
        /\ requests' = Append(requests, m)
        /\ UNCHANGED <<answers, table, hand, hss, process, got, kills>>
    BY <1>7 DEF set_chart, hssVars
  <2>2. /\ m \in Message /\ job.reg \in Registers /\ job.src \in Places /\ job.src \in Somewhere
        /\ job.left \in Seq(Contacts) /\ job.left # <<>>
    BY <2>1, ContactSent
  <2> HIDE DEF m
  <2>3. requests' \in Seq(Message) /\ Len(requests') <= QueueLimit
    BY <2>1, <2>2, HssAssumption DEF TypeOK, Message
  <2>4. CASE Len(job.left) = 1
    <3>1. worker' \in {"none", "idle"} /\ known' = Answered
      BY <1>7, <2>4 DEF set_chart, Return
    <3>2. Answered \in [Users -> Somewhere \cup {Unsure}]
      BY <2>2, PlaceIs DEF Answered, TypeOK
    <3>3. process # "stopped"
      BY <2>1 DEF TypeOK
    <3>4. QED
      BY <2>1, <2>3, <3>1, <3>2, <3>3 DEF TypeOK, Message
  <2>5. CASE Len(job.left) # 1
    <3>1. job' = [job EXCEPT !.left = Tail(@)] /\ worker' = worker /\ known' = known
      BY <1>7, <2>5 DEF set_chart
    <3>2. Tail(job.left) \in Seq(Contacts) /\ Tail(job.left) # <<>>
      <4>1. /\ Tail(job.left) \in Seq(Contacts) /\ Len(job.left) \in Nat
            /\ Len(Tail(job.left)) = Len(job.left) - 1
        BY <2>2, TailIs
      <4>2. Len(Tail(job.left)) # 0
        BY <2>5, <4>1
      <4>3. Len(<< >>) = 0
        OBVIOUS
      <4>4. QED
        BY <4>1, <4>2, <4>3, Zenon
    <3>3. job' \in [reg : Registers, src : Places, left : Seq(Contacts) \ {<<>>}]
      BY <2>1, <3>1, <3>2 DEF TypeOK
    <3>4. QED
      BY <2>1, <2>3, <3>1, <3>3 DEF TypeOK, Message
  <2>6. QED
    BY <2>4, <2>5
<1>8. CASE ReadsStar
  BY <1>4, <1>8 DEF ReadsStar, TypeOK
<1>9. CASE get_chart_send
  <2>1. [msgtype |-> 2, user |-> job.key, addr |-> Nowhere, expire |-> 0] \in Message
    BY <1>9 DEF TypeOK, get_chart_send, Message, Somewhere
  <2>2. requests' \in Seq(Message) /\ Len(requests') <= QueueLimit
    BY <1>9, <2>1, HssAssumption DEF TypeOK, get_chart_send, Message
  <2>3. QED
    BY <1>9, <2>2 DEF TypeOK, get_chart_send, hssVars, Message
<1>10. CASE get_chart_receive
  <2>1. Head(answers) \in Reply /\ Tail(answers) \in Seq(Reply) /\ Len(Tail(answers)) <= QueueLimit
    <3>1. answers \in Seq(Reply) /\ answers # <<>> /\ Len(answers) <= QueueLimit
      BY <1>10 DEF TypeOK, get_chart_receive, Reply
    <3>2. QED
      BY <3>1, TailIs, HssAssumption
  <2>2. got' \in [user : Users, addr : Somewhere]
    BY <1>10, <2>1 DEF TypeOK, get_chart_receive, Reply, Somewhere
  <2>3. process # "stopped" /\ worker' \in {"none", "idle"}
    BY <1>10 DEF TypeOK, get_chart_receive, Return
  <2>4. QED
    BY <1>10, <2>1, <2>2, <2>3 DEF TypeOK, get_chart_receive, hssVars, Reply
<1>11. CASE RxRegister
  <2>1. PICK reg \in Registers, src \in Places :
          Receive("set_chart", [reg |-> reg, src |-> src, left |-> reg.contacts])
    BY <1>11 DEF RxRegister
  <2>2. reg.contacts \in Seq(Contacts) \ {<<>>}
    BY RegisterIs
  <2>3. QED
    BY <2>1, <2>2 DEF TypeOK, Receive, queues, hssVars
<1>12. CASE RxRequest
  BY <1>12 DEF TypeOK, RxRequest, Receive, queues, hssVars
<1>13. CASE HssServe
  <2>1. /\ Head(requests) \in Message /\ Tail(requests) \in Seq(Message)
        /\ Len(Tail(requests)) <= QueueLimit
    <3>1. requests \in Seq(Message) /\ requests # <<>> /\ Len(requests) <= QueueLimit
      BY <1>13 DEF TypeOK, HssServe, Message
    <3>2. QED
      BY <3>1, TailIs, HssAssumption
  <2>2. Stored(table, Head(requests)) \in [Users -> Somewhere]
    BY <2>1, PlaceIs DEF TypeOK, Stored, Message
  <2>3. table[Head(requests).user] \in Somewhere
    BY <2>1 DEF TypeOK, Message
  <2>4. hand' \in {Nothing} \cup Reply
    BY <1>13, <2>3 DEF HssServe, Reply
  <2>5. QED
    BY <1>13, <2>1, <2>2, <2>4 DEF TypeOK, HssServe, Message, Reply
<1>14. CASE HssSend
  <2>1. answers' \in Seq(Reply) /\ Len(answers') <= QueueLimit
    BY <1>14, HssAssumption DEF TypeOK, HssSend, Reply
  <2>2. QED
    BY <1>14, <2>1 DEF TypeOK, HssSend, Reply
<1>15. CASE HssDies
  BY <1>15 DEF TypeOK, HssDies, queues
<1>16. CASE UNCHANGED vars
  BY <1>16 DEF TypeOK, vars, queues, hssVars
<1>17. QED
  BY <1>1, <1>2, <1>3, <1>5, <1>6, <1>7, <1>8, <1>9, <1>10, <1>11, <1>12, <1>13, <1>14, <1>15,
     <1>16 DEF Next, Worker, Hss

-----------------------------------------------------------------------------
(* What a REGISTER has said is stored in the end. *)

(* Nothing is registered and nothing is known at first. *)
LEMMA StoringInit == Init => AnsweredIsStored /\ Registering
<1> SUFFICES ASSUME Init PROVE AnsweredIsStored /\ Registering
  OBVIOUS
<1>1. \A u \in Users : About(requests, u) = {}
  BY DEF Init, About
<1>2. QED
  BY <1>1 DEF Init, AnsweredIsStored, Registering, InTheEnd

(* Where the HSS will have put the users stays the same, and so does the REGISTER. *)
LEMMA SameRegister ==
  ASSUME AnsweredIsStored, Registering, known' = known, worker' = worker, job' = job,
         \A u \in Users : InTheEnd(table', requests', u) = InTheEnd(table, requests, u)
  PROVE  AnsweredIsStored' /\ Registering'
<1>1. AnsweredIsStored'
  BY DEF AnsweredIsStored
<1>2. \A n : Sent(n) => Sent(n)'
  BY DEF Sent, Mine
<1>3. Registering'
  BY <1>2 DEF Registering
<1>4. QED
  BY <1>1, <1>3

(* There is no REGISTER before or after the step. *)
LEMMA NoRegister ==
  ASSUME AnsweredIsStored, known' = known, worker # "set_chart", worker' # "set_chart",
         \A u \in Users : InTheEnd(table', requests', u) = InTheEnd(table, requests, u)
  PROVE  AnsweredIsStored' /\ Registering'
BY DEF AnsweredIsStored, Registering

(* Before the first Contact is sent what is known is what was known. *)
LEMMA StoringReceived ==
  ASSUME TypeOK, AnsweredIsStored, RxRegister
  PROVE  AnsweredIsStored' /\ Registering'
<1>1. PICK reg \in Registers, src \in Places :
        Receive("set_chart", [reg |-> reg, src |-> src, left |-> reg.contacts])
  BY DEF RxRegister
<1>2. /\ worker = "idle" /\ worker' = "set_chart"
      /\ job' = [reg |-> reg, src |-> src, left |-> reg.contacts]
      /\ requests' = requests /\ table' = table /\ known' = known
  BY <1>1 DEF Receive, queues, hssVars
<1>3. AnsweredIsStored'
  BY <1>2 DEF AnsweredIsStored
<1>4. /\ reg.contacts \in Seq(Contacts) /\ Len(reg.contacts) \in Nat
      /\ Len(reg.contacts) - 1 >= 0
      /\ reg.contacts = SubSeq(reg.contacts, 0 + 1, Len(reg.contacts))
  BY RegisterIs
<1>5. \A u \in Users : Mine(u, 0)' = {}
  BY DEF Mine
<1>6. \A u \in Users : known'[u] \in {Unsure, InTheEnd(table', requests', u)}
  BY <1>2 DEF AnsweredIsStored
<1>7. Sent(0)'
  BY <1>2, <1>4, <1>5, <1>6 DEF Sent
<1>8. 0 \in 0 .. Len(job'.reg.contacts) - 1
  BY <1>2, <1>4
<1>9. Registering'
  BY <1>7, <1>8 DEF Registering
<1>10. QED
  BY <1>3, <1>9

(* Whether the next of k Contacts is the last. *)
LEMMA NextIsLast ==
  \A n, k \in Nat : /\ 1 = k - n => n + 1 = k
                    /\ 1 # k - n /\ n + 1 \in 1 .. k => n + 1 \in 0 .. k - 1
OBVIOUS

(* A Contact that was sent decides where its user is in the end; after the *)
(* last one the REGISTER is answered.                                      *)
LEMMA StoringSent ==
  ASSUME TypeOK, Registering, set_chart
  PROVE  AnsweredIsStored' /\ Registering'
<1> DEFINE cs == job.reg.contacts
           c  == Head(job.left)
           m  == [msgtype |-> 1, user |-> c.user, addr |-> job.src, expire |-> Expires(job.reg, c)]
<1>1. /\ worker = "set_chart" /\ c # Star
      /\ requests' = Append(requests, m)
      /\ table' = table
  BY DEF set_chart, hssVars
<1>2. /\ m \in Message /\ job.reg \in Registers /\ job.left \in Seq(Contacts) /\ job.left # <<>>
      /\ requests \in Seq(Message)
  BY <1>1, ContactSent DEF TypeOK, Message
<1>3. PICK n \in 0 .. Len(cs) - 1 : Sent(n)
  BY <1>1 DEF Registering
<1>4. cs \in Seq(Contacts) /\ Len(cs) \in Nat /\ DOMAIN cs = 1 .. Len(cs)
  BY <1>2, RegisterIs
<1>5. /\ n \in Nat /\ n + 1 \in 1 .. Len(cs)
      /\ job.left = SubSeq(cs, n + 1, Len(cs))
  BY <1>3, <1>4 DEF Sent
<1> HIDE DEF cs
<1>6. /\ c = cs[n + 1]
      /\ Len(job.left) = Len(cs) - n
      /\ Tail(job.left) = SubSeq(cs, n + 2, Len(cs))
  <2>1. Len(job.left) = Len(cs) - n /\ Len(job.left) >= 1
    BY <1>4, <1>5
  <2>2. \A i \in 1 .. Len(cs) - n : job.left[i] = cs[n + i]
    BY <1>4, <1>5
  <2>3. c = cs[n + 1]
    BY <1>2, <1>4, <1>5, <2>1, <2>2, TailIs
  <2>4. Tail(job.left) = SubSeq(cs, n + 2, Len(cs))
    BY <1>4, <1>5, <2>1
  <2>5. QED
    BY <2>1, <2>3, <2>4
<1>7. \A u \in Users :
        InTheEnd(table', requests', u)
          = IF c.user = u THEN Place(job.src, Expires(job.reg, c)) ELSE InTheEnd(table, requests, u)
  <2>1. ASSUME NEW u \in Users
        PROVE InTheEnd(table, Append(requests, m), u)
                = IF m.msgtype = 1 /\ m.user = u THEN Place(m.addr, m.expire)
                  ELSE InTheEnd(table, requests, u)
    <3> HIDE DEF m
    <3>1. QED
      BY <1>2, InTheEndAppend
  <2>2. QED
    BY <1>1, <2>1
<1> HIDE DEF c, m
<1>8. \A u \in Users : Mine(u, n) = {i \in 1 .. n : cs[i].user = u}
  BY DEF Mine, cs
<1>9. ASSUME NEW u \in Users, \A i \in 1 .. n + 1 : cs[i].user # u
      PROVE  known[u] \in {Unsure, InTheEnd(table', requests', u)}
  <2>1. Mine(u, n) = {} /\ c.user # u
    BY <1>5, <1>6, <1>8, <1>9
  <2>2. QED
    BY <1>3, <1>7, <2>1 DEF Sent
<1>10. ASSUME NEW u \in Users, NEW i \in 1 .. n + 1, cs[i].user = u,
              \A j \in 1 .. n + 1 : cs[j].user = u => j <= i
       PROVE  InTheEnd(table', requests', u) = Place(job.src, Expires(job.reg, cs[i]))
  <2>1. CASE i = n + 1
    BY <1>6, <1>7, <1>10, <2>1
  <2>2. CASE i # n + 1
    <3>1. i \in Mine(u, n) /\ \A j \in Mine(u, n) : j <= i
      <4>1. i \in 1 .. n /\ \A j \in 1 .. n : j \in 1 .. n + 1
        BY <1>5, <1>10, <2>2
      <4>2. QED
        BY <1>8, <1>10, <4>1
    <3>2. c.user # u
      BY <1>5, <1>6, <1>10, <2>2
    <3>3. InTheEnd(table, requests, u) = Place(job.src, Expires(job.reg, cs[i]))
      BY <1>3, <3>1 DEF Sent, cs
    <3>4. QED
      BY <1>7, <3>2, <3>3
  <2>3. QED
    BY <2>1, <2>2
<1>11. CASE Len(job.left) = 1
  <2>1. worker' \in {"none", "idle"} /\ known' = Answered
    BY <1>11 DEF set_chart, Return
  <2>2. n + 1 = Len(cs)
    <3>1. 1 = Len(cs) - n
      BY <1>6, <1>11
    <3>2. QED
      BY <1>4, <1>5, <3>1, NextIsLast, Zenon
  <2>3. ASSUME NEW u \in Users
        PROVE  known'[u] \in {Unsure, InTheEnd(table', requests', u)}
    <3> DEFINE mine == {i \in DOMAIN cs : cs[i].user = u}
    <3>1. known'[u] = IF mine = {} THEN known[u]
                      ELSE IF job.reg.header # Absent THEN Place(job.src, job.reg.header)
                      ELSE Place(job.src, cs[Max(mine)].expires)
      BY <2>1 DEF Answered, cs
    <3>2. mine \subseteq 1 .. Len(cs)
      BY <1>4
    <3>3. CASE mine = {}
      <4>1. \A i \in 1 .. n + 1 : cs[i].user # u
        BY <1>4, <2>2, <3>3
      <4>2. QED
        BY <1>9, <3>1, <3>3, <4>1
    <3>4. CASE mine # {}
      <4>1. PICK i \in mine : \A j \in mine : j <= i
        BY <1>4, <3>2, <3>4, LastIndex
      <4>2. Max(mine) = i
        BY <1>4, <3>2, <4>1, MaxIsLast
      <4>3. i \in 1 .. n + 1 /\ cs[i].user = u /\ \A j \in 1 .. n + 1 : cs[j].user = u => j <= i
        BY <1>4, <2>2, <4>1
      <4>4. InTheEnd(table', requests', u) = Place(job.src, Expires(job.reg, cs[i]))
        BY <1>10, <4>3
      <4>5. QED
        BY <3>1, <3>4, <4>2, <4>4 DEF Expires
    <3>5. QED
      BY <3>3, <3>4
  <2>4. QED
    BY <2>1, <2>3 DEF AnsweredIsStored, Registering
<1>12. CASE Len(job.left) # 1
  <2>1. job' = [job EXCEPT !.left = Tail(@)] /\ worker' = worker /\ known' = known
    BY <1>12 DEF set_chart
  <2>2. job \in [reg : Registers, src : Places, left : Seq(Contacts) \ {<<>>}]
    BY <1>1 DEF TypeOK
  <2>3. job'.reg = job.reg /\ job'.src = job.src /\ job'.left = Tail(job.left)
    BY <2>1, <2>2
  <2>4. n + 1 \in 0 .. Len(cs) - 1
    <3>1. 1 # Len(cs) - n
      BY <1>6, <1>12
    <3>2. QED
      BY <1>4, <1>5, <3>1, NextIsLast, Zenon
  <2>5. \A u \in Users : Mine(u, n + 1)' = {i \in 1 .. n + 1 : cs[i].user = u}
    BY <2>3 DEF Mine, cs
  <2>6. (n + 1) + 1 = n + 2
    BY <1>5
  <2>7. job'.left = SubSeq(cs, (n + 1) + 1, Len(cs))
    BY <1>6, <2>3, <2>6
  <2>8. Sent(n + 1)'
    <3>1. ASSUME NEW u \in Users
          PROVE  Mine(u, n + 1)' = {} => known'[u] \in {Unsure, InTheEnd(table', requests', u)}
      BY <1>9, <2>1, <2>5
    <3>2. ASSUME NEW u \in Users, NEW i \in Mine(u, n + 1)', \A j \in Mine(u, n + 1)' : j <= i
          PROVE  InTheEnd(table', requests', u)
                   = Place(job'.src, Expires(job'.reg, job'.reg.contacts[i]))
      BY <1>10, <2>3, <2>5, <3>2 DEF cs
    <3>3. QED
      BY <2>3, <2>7, <3>1, <3>2 DEF Sent, cs
  <2>9. QED
    BY <1>1, <2>1, <2>3, <2>4, <2>8 DEF AnsweredIsStored, Registering, cs
<1>13. QED
  BY <1>11, <1>12

(* A REGISTER that the CSCF does not live to answer leaves its users unsure. *)
LEMMA StoringEnds ==
  ASSUME TypeOK, AnsweredIsStored, Registering, Ends
  PROVE  AnsweredIsStored' /\ Registering'
<1>1. /\ worker' = "none" /\ requests' = requests /\ table' = table
      /\ known' = [u \in Users |-> IF u \in Unanswered THEN Unsure ELSE known[u]]
  BY DEF Ends, queues, hssVars
<1>2. ASSUME NEW u \in Users, u \notin Unanswered
      PROVE  known[u] \in {Unsure, InTheEnd(table, requests, u)}
  <2>1. CASE worker # "set_chart"
    BY <2>1 DEF AnsweredIsStored
  <2>2. CASE worker = "set_chart"
    <3>1. PICK n \in 0 .. Len(job.reg.contacts) - 1 : Sent(n)
      BY <2>2 DEF Registering
    <3>2. job.reg.contacts \in Seq(Contacts)
      BY <2>2, RegisterIs DEF TypeOK
    <3>3. \A i \in 1 .. Len(job.reg.contacts) : job.reg.contacts[i].user # u
      BY <1>2, <2>2, <3>2 DEF Unanswered
    <3>4. Mine(u, n) = {}
      BY <3>1, <3>2, <3>3 DEF Mine
    <3>5. QED
      BY <3>1, <3>4 DEF Sent
  <2>3. QED
    BY <2>1, <2>2
<1>3. QED
  BY <1>1, <1>2 DEF AnsweredIsStored, Registering

(* Every step keeps it. *)
LEMMA StoringStep ==
  TypeOK /\ AnsweredIsStored /\ Registering /\ [Next]_vars => AnsweredIsStored' /\ Registering'
<1> SUFFICES ASSUME TypeOK, AnsweredIsStored, Registering, [Next]_vars
             PROVE  AnsweredIsStored' /\ Registering'
  OBVIOUS
<1>1. CASE Exit \/ Joined \/ HssSend \/ HssDies \/ UNCHANGED vars
  <2>1. /\ known' = known /\ worker' = worker /\ job' = job
        /\ table' = table /\ requests' = requests
    BY <1>1 DEF Exit, Joined, HssSend, HssDies, vars, queues, hssVars
  <2>2. QED
    BY <2>1, SameRegister
<1>2. CASE Start \/ WorkerQuits \/ get_chart_receive \/ RxRequest
  <2>1. /\ known' = known /\ table' = table /\ requests' = requests
        /\ worker # "set_chart" /\ worker' # "set_chart"
    BY <1>2 DEF TypeOK, Start, WorkerQuits, get_chart_receive, RxRequest, Receive, Return,
                queues, hssVars
  <2>2. QED
    BY <2>1, NoRegister
<1>3. CASE Kill \/ ReadsStar
  BY <1>3, StoringEnds DEF Kill, ReadsStar
<1>4. CASE set_chart
  BY <1>4, StoringSent
<1>5. CASE RxRegister
  BY <1>5, StoringReceived
<1>6. CASE get_chart_send
  <2> DEFINE m == [msgtype |-> 2, user |-> job.key, addr |-> Nowhere, expire |-> 0]
  <2>1. /\ worker = "msgsnd" /\ worker' = "msgrcv" /\ known' = known /\ table' = table
        /\ requests' = Append(requests, m)
    BY <1>6 DEF get_chart_send, hssVars
  <2>2. m \in Message /\ requests \in Seq(Message) /\ m.msgtype # 1
    BY <2>1 DEF TypeOK, Message, Somewhere
  <2> HIDE DEF m
  <2>3. \A u \in Users : InTheEnd(table', requests', u) = InTheEnd(table, requests, u)
    BY <2>1, <2>2, InTheEndAppend
  <2>4. QED
    BY <2>1, <2>3, NoRegister
<1>7. CASE HssServe
  <2>1. /\ requests # <<>> /\ requests' = Tail(requests) /\ table' = Stored(table, Head(requests))
        /\ known' = known /\ worker' = worker /\ job' = job
    BY <1>7 DEF HssServe
  <2>2. requests \in Seq(Message) /\ table \in [Users -> Somewhere]
    BY DEF TypeOK, Message
  <2>3. \A u \in Users : InTheEnd(table', requests', u) = InTheEnd(table, requests, u)
    BY <2>1, <2>2, InTheEndServe
  <2>4. QED
    BY <2>1, <2>3, SameRegister
<1>8. QED
  BY <1>1, <1>2, <1>3, <1>4, <1>5, <1>6, <1>7 DEF Next, Worker, Hss

-----------------------------------------------------------------------------
(* The answer of a lookup is its own, until the CSCF is killed. *)

(* Nothing is pending at first, and there is no result. *)
LEMMA LookupInit == Init => NothingPending /\ OnePending /\ Fresh /\ LookupIsTheUsers
BY DEF Init, NothingPending, OnePending, Fresh, LookupIsTheUsers, Asking

(* A message that is received makes the last result forgotten. *)
LEMMA FreshStep == Fresh /\ [Next]_vars => Fresh'
BY DEF Fresh, Next, vars, queues, hssVars, Worker, Hss, Start, Exit, Joined, Kill, Ends,
       WorkerQuits, Return, RxRegister, RxRequest, Receive, set_chart, ReadsStar,
       get_chart_send, get_chart_receive, HssServe, HssSend, HssDies

(* Nothing is pending and nothing begins to be. *)
LEMMA StillNothing ==
  ASSUME NothingPending, kills = 0, worker # "msgrcv", worker' # "msgrcv",
         requests' = requests, hand' = hand, answers' = answers
  PROVE  NothingPending' /\ OnePending'
BY DEF NothingPending, OnePending, Asking

(* A Contact is no question. *)
LEMMA PendingSent ==
  ASSUME TypeOK, NothingPending, kills = 0, set_chart
  PROVE  NothingPending' /\ OnePending'
<1> DEFINE m == [msgtype |-> 1, user |-> Head(job.left).user, addr |-> job.src,
                 expire |-> Expires(job.reg, Head(job.left))]
<1>1. /\ worker = "set_chart" /\ worker' # "msgrcv" /\ hand' = hand /\ answers' = answers
      /\ requests' = Append(requests, m) /\ m.msgtype = 1 /\ Head(job.left) # Star
  BY DEF set_chart, Return, hssVars
<1>2. requests \in Seq(Message) /\ m \in Message
  BY <1>1, ContactSent DEF TypeOK, Message
<1> HIDE DEF m
<1>3. \A i \in DOMAIN requests' : requests'[i].msgtype # 2
  BY <1>1, <1>2 DEF NothingPending, Asking
<1>4. QED
  BY <1>1, <1>3 DEF NothingPending, OnePending, Asking

(* The question that is asked is the only one. *)
LEMMA PendingAsked ==
  ASSUME TypeOK, NothingPending, kills = 0, get_chart_send
  PROVE  NothingPending' /\ OnePending'
<1> DEFINE m == [msgtype |-> 2, user |-> job.key, addr |-> Nowhere, expire |-> 0]
<1>1. /\ worker = "msgsnd" /\ worker' = "msgrcv" /\ hand' = hand /\ answers' = answers
      /\ requests' = Append(requests, m) /\ m.user = job.key /\ job' = job
  BY DEF get_chart_send, hssVars
<1>2. requests \in Seq(Message) /\ m \in Message
  BY <1>1 DEF TypeOK, Message, Somewhere
<1> HIDE DEF m
<1>3. hand = Nothing /\ answers = <<>> /\ \A i \in DOMAIN requests : requests[i].msgtype # 2
  BY <1>1 DEF NothingPending, Asking
<1>4. \A i \in DOMAIN requests' : requests'[i].msgtype = 2 => i = Len(requests') /\ requests'[i] = m
  BY <1>1, <1>2, <1>3
<1>5. QED
  BY <1>1, <1>3, <1>4 DEF NothingPending, OnePending, Asking

(* The only answer is taken. *)
LEMMA PendingTaken ==
  ASSUME TypeOK, OnePending, kills = 0, get_chart_receive
  PROVE  NothingPending' /\ OnePending' /\ LookupIsTheUsers'
<1>1. /\ worker = "msgrcv" /\ answers # <<>> /\ answers' = Tail(answers)
      /\ got' = [user |-> job.key,
                 addr |-> IF Head(answers).expire = -1 THEN Nowhere ELSE Head(answers).addr]
      /\ worker' # "msgrcv" /\ requests' = requests /\ hand' = hand /\ known' = known
  BY DEF get_chart_receive, Return, hssVars
<1>2. Len(answers) = 1 /\ requests = <<>> /\ hand = Nothing /\ True(Head(answers))
  BY <1>1 DEF OnePending
<1>3. answers \in Seq(Reply)
  BY DEF TypeOK, Reply
<1>4. Tail(answers) = <<>>
  BY <1>1, <1>2, <1>3
<1>5. known'[got'.user] \in {Unsure, got'.addr}
  BY <1>1, <1>2 DEF True
<1>6. QED
  BY <1>1, <1>2, <1>4, <1>5 DEF NothingPending, OnePending, LookupIsTheUsers, Asking

(* The HSS answers the only question, from where its user is in the end. *)
LEMMA PendingServed ==
  ASSUME TypeOK, AnsweredIsStored, NothingPending, OnePending, kills = 0, HssServe
  PROVE  NothingPending' /\ OnePending'
<1> DEFINE m == Head(requests)
<1>1. /\ hand = Nothing /\ requests # <<>> /\ requests' = Tail(requests)
      /\ hand' = IF m.msgtype # 2 THEN Nothing
                 ELSE [addr |-> table[m.user], expire |-> IF table[m.user] = Nowhere THEN -1 ELSE 0]
      /\ UNCHANGED <<answers, worker, job, known>>
  BY DEF HssServe, Answers
<1>2. requests \in Seq(Message)
  BY DEF TypeOK, Message
<1>3. /\ m \in Message /\ m = requests[1] /\ requests' \in Seq(Message)
      /\ Len(requests) \in Nat /\ Len(requests) >= 1 /\ Len(requests') = Len(requests) - 1
      /\ \A i \in 1 .. Len(requests) - 1 : requests'[i] = requests[i + 1]
  BY <1>1, <1>2, TailIs
<1> HIDE DEF m
<1>4. \A i \in DOMAIN requests' : i + 1 \in DOMAIN requests /\ requests'[i] = requests[i + 1]
  BY <1>2, <1>3
<1>5. 1 \in DOMAIN requests
  BY <1>2, <1>3
<1>6. CASE worker # "msgrcv"
  <2>1. answers = <<>> /\ \A i \in DOMAIN requests : requests[i].msgtype # 2
    BY <1>6 DEF NothingPending, Asking
  <2>2. hand' = Nothing /\ \A i \in DOMAIN requests' : requests'[i].msgtype # 2
    BY <1>1, <1>3, <1>4, <1>5, <2>1
  <2>3. QED
    BY <1>1, <1>6, <2>1, <2>2 DEF NothingPending, OnePending, Asking
<1>7. CASE worker = "msgrcv" /\ m.msgtype # 2
  <2>1. answers = <<>> /\ hand' = Nothing
    BY <1>1, <1>7 DEF OnePending
  <2>2. ASSUME NEW i \in DOMAIN requests', requests'[i].msgtype = 2
        PROVE  i = Len(requests') /\ requests'[i].user = job.key
    <3>1. i + 1 = Len(requests) /\ requests[i + 1].user = job.key
      BY <1>4, <1>7, <2>2 DEF OnePending, Asking
    <3>2. i \in 1 .. Len(requests) - 1
      BY <1>3
    <3>3. QED
      BY <1>3, <1>4, <2>2, <3>1, <3>2
  <2>3. QED
    BY <1>1, <1>7, <2>1, <2>2 DEF NothingPending, OnePending, Asking
<1>8. CASE worker = "msgrcv" /\ m.msgtype = 2
  <2>1. /\ Len(requests) = 1 /\ m.user = job.key /\ answers = <<>>
    BY <1>3, <1>5, <1>8 DEF OnePending, Asking
  <2>2. requests' = <<>>
    BY <1>3, <2>1
  <2>3. job.key \in Users
    BY <1>8 DEF TypeOK
  <2>4. About(requests, job.key) = {}
    BY <1>2, <1>3, <1>8, <2>1 DEF About
  <2>5. known[job.key] \in {Unsure, table[job.key]}
    BY <1>8, <2>3, <2>4 DEF AnsweredIsStored, InTheEnd
  <2>6. hand' = [addr |-> table[job.key], expire |-> IF table[job.key] = Nowhere THEN -1 ELSE 0]
    BY <1>1, <1>8, <2>1
  <2>7. known[job.key] \in {Unsure, IF hand'.expire = -1 THEN Nowhere ELSE hand'.addr}
    BY <2>5, <2>6
  <2>8. QED
    BY <1>1, <1>8, <2>1, <2>2, <2>7 DEF NothingPending, OnePending, Asking, True
<1>9. QED
  BY <1>6, <1>7, <1>8

(* The only answer is sent. *)
LEMMA PendingAnswered ==
  ASSUME TypeOK, NothingPending, OnePending, kills = 0, HssSend
  PROVE  NothingPending' /\ OnePending'
<1>1. /\ hand # Nothing /\ hand' = Nothing /\ answers' = Append(answers, hand)
      /\ UNCHANGED <<requests, worker, job, known>>
  BY DEF HssSend
<1>2. worker = "msgrcv" /\ requests = <<>> /\ answers = <<>> /\ True(hand)
  BY <1>1 DEF NothingPending, OnePending
<1>3. answers' = <<hand>> /\ Len(answers') = 1 /\ Head(answers') = hand
  BY <1>1, <1>2
<1>4. QED
  BY <1>1, <1>2, <1>3 DEF NothingPending, OnePending, True, Asking

(* Every step keeps it. *)
LEMMA LookupStep ==
  /\ TypeOK /\ AnsweredIsStored /\ NothingPending /\ OnePending /\ Fresh /\ LookupIsTheUsers
  /\ [Next]_vars
  => NothingPending' /\ OnePending' /\ LookupIsTheUsers'
<1> SUFFICES ASSUME TypeOK, AnsweredIsStored, NothingPending, OnePending, Fresh, LookupIsTheUsers,
                    [Next]_vars
             PROVE  NothingPending' /\ OnePending' /\ LookupIsTheUsers'
  OBVIOUS
<1>1. CASE kills' # 0
  BY <1>1 DEF NothingPending, OnePending, LookupIsTheUsers
<1>2. CASE kills' = 0
  <2>1. ~Kill /\ kills = 0
    <3>1. kills \in Nat
      BY HssAssumption DEF TypeOK
    <3>2. ~Kill
      BY <1>2, <3>1 DEF Kill
    <3>3. kills' = kills
      BY <3>2 DEF Next, vars, queues, hssVars, Worker, Hss, Start, Exit, Joined, WorkerQuits,
                  RxRegister, RxRequest, Receive, set_chart, ReadsStar, get_chart_send,
                  get_chart_receive, HssServe, HssSend, HssDies
    <3>4. QED
      BY <1>2, <3>2, <3>3
  <2>2. CASE Start \/ WorkerQuits \/ RxRegister \/ RxRequest \/ ReadsStar
    <3>1. /\ worker # "msgrcv" /\ worker' # "msgrcv"
          /\ requests' = requests /\ hand' = hand /\ answers' = answers
      BY <2>2 DEF TypeOK, Start, WorkerQuits, Return, RxRegister, RxRequest, Receive, ReadsStar,
                  Ends, queues, hssVars
    <3>2. got' = NoResult \/ (got' = got /\ known' = known)
      BY <2>2 DEF Fresh, Start, WorkerQuits, RxRegister, RxRequest, Receive, ReadsStar, Ends
    <3>3. LookupIsTheUsers'
      BY <2>1, <3>2 DEF LookupIsTheUsers
    <3>4. QED
      BY <2>1, <3>1, <3>3, StillNothing
  <2>3. CASE Exit \/ Joined \/ HssDies \/ UNCHANGED vars
    <3>1. UNCHANGED <<requests, hand, answers, worker, job, got, known, kills>>
      BY <2>3 DEF Exit, Joined, HssDies, vars, queues, hssVars
    <3>2. QED
      BY <3>1 DEF NothingPending, OnePending, LookupIsTheUsers, Asking, True
  <2>4. CASE set_chart \/ get_chart_send
    <3>1. got' = NoResult
      BY <2>4 DEF Fresh, set_chart, get_chart_send
    <3>2. QED
      BY <2>1, <2>4, <3>1, PendingSent, PendingAsked DEF LookupIsTheUsers
  <2>5. CASE get_chart_receive
    BY <2>1, <2>5, PendingTaken
  <2>6. CASE HssServe \/ HssSend
    <3>1. UNCHANGED <<got, known, kills>>
      BY <2>6 DEF HssServe, HssSend
    <3>2. LookupIsTheUsers'
      BY <3>1 DEF LookupIsTheUsers
    <3>3. QED
      BY <2>1, <2>6, <3>2, PendingServed, PendingAnswered
  <2>7. QED
    BY <2>1, <2>2, <2>3, <2>4, <2>5, <2>6 DEF Next, Worker, Hss
<1>3. QED
  BY <1>1, <1>2

-----------------------------------------------------------------------------
(* Kills leave no more than one answer each. *)
InHand == IF hand = Nothing THEN 0 ELSE 1
Waits  == IF worker = "msgrcv" THEN 1 ELSE 0

(* Nothing is pending at first. *)
LEMMA StrayInit == Init => StrayAnswersBounded
BY CountNone, HssAssumption DEF Init, StrayAnswersBounded, Wants

(* Every step keeps the sum within the kills. *)
LEMMA StrayStep == TypeOK /\ StrayAnswersBounded /\ [Next]_vars => StrayAnswersBounded'
<1> SUFFICES ASSUME TypeOK, StrayAnswersBounded, [Next]_vars PROVE StrayAnswersBounded'
  OBVIOUS
<1>1. /\ requests \in Seq(Message) /\ answers \in Seq(Reply)
      /\ Wants(requests) \in Nat /\ Len(answers) \in Nat /\ kills \in Nat
  <2>1. requests \in Seq(Message) /\ answers \in Seq(Reply) /\ kills \in Nat
    BY HssAssumption DEF TypeOK, Message, Reply
  <2>2. CountTypes(requests, {2}) \in Nat
    BY <2>1, CountIsNat, Zenon
  <2>3. QED
    BY <2>1, <2>2 DEF Wants
<1>2. InHand \in {0, 1} /\ Waits \in {0, 1} /\ InHand' \in {0, 1} /\ Waits' \in {0, 1}
  BY DEF InHand, Waits
<1>3. Wants(requests) + InHand + Len(answers) <= kills + Waits
  BY DEF StrayAnswersBounded, InHand, Waits
<1>4. SUFFICES Wants(requests)' + InHand' + Len(answers)' <= kills' + Waits'
  BY DEF StrayAnswersBounded, InHand, Waits
<1>5. CASE Start \/ Exit \/ Joined \/ WorkerQuits \/ RxRegister \/ RxRequest \/ ReadsStar
           \/ HssDies \/ UNCHANGED vars
  <2>1. UNCHANGED <<requests, hand, answers>> /\ kills' = kills
    BY <1>5 DEF Start, Exit, Joined, WorkerQuits, RxRegister, RxRequest, Receive, ReadsStar, Ends,
                HssDies, vars, queues, hssVars
  <2>2. Waits' = Waits
    BY <1>5 DEF TypeOK, Start, Exit, Joined, WorkerQuits, Return, RxRegister, RxRequest, Receive,
                ReadsStar, Ends, HssDies, vars, Waits
  <2>3. InHand' = InHand
    BY <2>1 DEF InHand
  <2>4. QED
    BY <1>1, <1>2, <1>3, <2>1, <2>2, <2>3
<1>6. CASE Kill
  <2>1. UNCHANGED <<requests, hand, answers>> /\ kills' = kills + 1
    BY <1>6 DEF Kill, Ends, queues, hssVars
  <2>2. InHand' = InHand
    BY <2>1 DEF InHand
  <2>3. QED
    BY <1>1, <1>2, <1>3, <2>1, <2>2
<1>7. CASE set_chart
  <2> DEFINE m == [msgtype |-> 1, user |-> Head(job.left).user, addr |-> job.src,
                   expire |-> Expires(job.reg, Head(job.left))]
  <2>1. /\ worker = "set_chart" /\ worker' # "msgrcv" /\ Head(job.left) # Star
        /\ hand' = hand /\ answers' = answers /\ kills' = kills
        /\ requests' = Append(requests, m) /\ m.msgtype = 1
    BY <1>7 DEF set_chart, Return, hssVars
  <2>2. m \in Message
    BY <2>1, ContactSent
  <2> HIDE DEF m
  <2>3. CountTypes(Append(requests, m), {2})
          = CountTypes(requests, {2}) + IF m.msgtype \in {2} THEN 1 ELSE 0
    BY <1>1, <2>2, CountAppend, ZenonT(40)
  <2>4. Wants(requests)' = Wants(requests)
    BY <1>1, <2>1, <2>3 DEF Wants
  <2>5. InHand' = InHand /\ Waits' = Waits
    BY <2>1 DEF InHand, Waits
  <2>6. QED
    BY <1>1, <1>2, <1>3, <2>1, <2>4, <2>5
<1>8. CASE get_chart_send
  <2> DEFINE m == [msgtype |-> 2, user |-> job.key, addr |-> Nowhere, expire |-> 0]
  <2>1. /\ worker = "msgsnd" /\ worker' = "msgrcv"
        /\ hand' = hand /\ answers' = answers /\ kills' = kills
        /\ requests' = Append(requests, m) /\ m.msgtype = 2
    BY <1>8 DEF get_chart_send, hssVars
  <2>2. m \in Message
    BY <2>1 DEF TypeOK, Message, Somewhere
  <2> HIDE DEF m
  <2>3. CountTypes(Append(requests, m), {2})
          = CountTypes(requests, {2}) + IF m.msgtype \in {2} THEN 1 ELSE 0
    BY <1>1, <2>2, CountAppend, ZenonT(40)
  <2>4. Wants(requests)' = Wants(requests) + 1
    BY <1>1, <2>1, <2>3 DEF Wants
  <2>5. InHand' = InHand /\ Waits' = 1 /\ Waits = 0
    BY <2>1 DEF InHand, Waits
  <2>6. QED
    BY <1>1, <1>2, <1>3, <2>1, <2>4, <2>5
<1>9. CASE get_chart_receive
  <2>1. /\ worker = "msgrcv" /\ worker' # "msgrcv" /\ answers # <<>> /\ answers' = Tail(answers)
        /\ requests' = requests /\ hand' = hand /\ kills' = kills
    BY <1>9 DEF get_chart_receive, Return, hssVars
  <2>2. Len(answers)' = Len(answers) - 1
    BY <1>1, <2>1, TailIs
  <2>3. InHand' = InHand /\ Waits' = 0 /\ Waits = 1
    BY <2>1 DEF InHand, Waits
  <2>4. QED
    BY <1>1, <1>2, <1>3, <2>1, <2>2, <2>3
<1>10. CASE HssServe
  <2>1. /\ hand = Nothing /\ requests # <<>> /\ requests' = Tail(requests)
        /\ Head(requests).msgtype # 2 => hand' = Nothing
        /\ UNCHANGED <<answers, worker, kills>>
    BY <1>10 DEF HssServe, Answers
  <2>2. CountTypes(requests, {2})
          = CountTypes(Tail(requests), {2}) + IF Head(requests).msgtype \in {2} THEN 1 ELSE 0
    BY <1>1, <2>1, CountTail, Zenon
  <2>3. Wants(requests)' \in Nat
    <3>1. Tail(requests) \in Seq(Message)
      BY <1>1, <2>1, TailIs
    <3>2. QED
      BY <2>1, <3>1, CountIsNat DEF Wants
  <2>4. Wants(requests) = Wants(requests)' + IF Head(requests).msgtype = 2 THEN 1 ELSE 0
    BY <2>1, <2>2 DEF Wants
  <2>5. InHand = 0 /\ Waits' = Waits /\ (Head(requests).msgtype # 2 => InHand' = 0)
    BY <2>1 DEF InHand, Waits
  <2>6. QED
    BY <1>1, <1>2, <1>3, <2>1, <2>3, <2>4, <2>5
<1>11. CASE HssSend
  <2>1. /\ hand # Nothing /\ hand' = Nothing /\ answers' = Append(answers, hand)
        /\ UNCHANGED <<requests, worker, kills>>
    BY <1>11 DEF HssSend
  <2>2. Len(answers)' = Len(answers) + 1
    BY <1>1, <2>1
  <2>3. InHand = 1 /\ InHand' = 0 /\ Waits' = Waits
    BY <2>1 DEF InHand, Waits
  <2>4. QED
    BY <1>1, <1>2, <1>3, <2>1, <2>2, <2>3
<1>12. QED
  BY <1>5, <1>6, <1>7, <1>8, <1>9, <1>10, <1>11 DEF Next, Worker, Hss

-----------------------------------------------------------------------------
(***************************************************************************)
(* The inductive invariant holds in every state of every behaviour.        *)
(***************************************************************************)
THEOREM Invariance == Spec => []IInv
<1>1. Init => IInv
  BY TypeInit, StoringInit, LookupInit, StrayInit DEF IInv
<1>2. IInv /\ [Next]_vars => IInv'
  BY TypeStep, StoringStep, FreshStep, LookupStep, StrayStep DEF IInv
<1>3. QED
  BY <1>1, <1>2, PTL DEF Spec

(***************************************************************************)
(* The state has its type: the message a thread handles too, and a process *)
(* that is stopped has no thread (app.c:74-91).                            *)
(***************************************************************************)
THEOREM TypeCorrect == Spec => []TypeOK
<1>1. IInv => TypeOK
  BY DEF IInv
<1>2. QED
  BY <1>1, Invariance, PTL

(***************************************************************************)
(* What a REGISTER that was answered with 200 said is where the HSS has    *)
(* its user, or will have when its queue is served: however many Contacts  *)
(* a REGISTER has and however often the CSCF ends (module_registrar.c:     *)
(* 47-86).                                                                 *)
(***************************************************************************)
THEOREM RegistersAreStored == Spec => []AnsweredIsStored
<1>1. IInv => AnsweredIsStored
  BY DEF IInv
<1>2. QED
  BY <1>1, Invariance, PTL

(***************************************************************************)
(* Before the CSCF is killed a request is sent to where its user has last  *)
(* registered (module_cscf_hss_IPC.c:59-102).                              *)
(***************************************************************************)
THEOREM LookupsAreRight == Spec => []LookupIsTheUsers
<1>1. IInv => LookupIsTheUsers
  BY DEF IInv
<1>2. QED
  BY <1>1, Invariance, PTL

(***************************************************************************)
(* A killed CSCF leaves at most one answer behind, one that is left by     *)
(* exit none (main.c:11).                                                  *)
(***************************************************************************)
THEOREM StraysAreBounded == Spec => []StrayAnswersBounded
<1>1. IInv => StrayAnswersBounded
  BY DEF IInv
<1>2. QED
  BY <1>1, Invariance, PTL
=============================================================================
