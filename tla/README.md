# A TLA+ model of the VoWiFi CSCF and its RTP relay server

This directory specifies, model-checks and proves properties of the two programs of this
repository: the **CSCF**, a SIP proxy written in C on pjsip (`src/CSCF/CSCF`), and **UDPTest**,
the RTP relay server written in C++ (`src/CSCF/UDPTest`). Paths below are relative to those two
directories unless they start with `src/`.

Checking it again, in this directory:

    tlasany RtpServer.tla                                  # parse
    tlc -workers 2 -config MCRtpServer.cfg MCRtpServer.tla # one of the runs of PROJECT.json
    tlapm RtpServerProofs.tla                              # the proofs

## 1. Inventory

### The programs and how they talk

    caller --SIP--> CSCF (one worker thread) --SIP--> callee
                     |    \
    queues 1983/1984 |     \  queues 1025/1024
                     |      \
                 UDPTest    HSS (not in this repository)
                     |
      caller <--RTP--+--RTP--> callee        (two sockets and two threads for each call)

A SIP message goes through the CSCF's pjsip modules in the order of their priorities: logging,
`module_rtpproxy` (rewrites the SDP so that the media go through UDPTest), pjsip's transaction
layer, registrar, `module_route` (asks the HSS where the user is), `module_proxy` (the stateful
proxy). One worker thread runs every handler and every pjsip timer; a handler that waits for UDPTest
or for the HSS in `msgrcv` stops the whole CSCF. The queues live in the kernel and outlive both processes.

### Components

**RTP server** (`UDPTest/main.cpp`, `threadcontrol.cpp`, `udpproxy.h`; modelled: `RtpServer`).
State: `port_pool` (a list of free ports), `p_table` (Call-ID to a `proxy_control`), the sockets,
the `call` threads, the message buffer. Operations: a request of type 1 (a port for the caller;
creates the call), 2 (the port for the callee), 3 (end of the call). Hard: ports leave and return
over long sequences of repeated, refused and out-of-place requests; the only thread that serves
requests waits in `join()`; the descriptor limit. Correct means: ports are conserved and never
shared, a refusal means that every port is in use, answers name the right port, the server always
comes back for the next request.

**RTP relay of one call** (`udpproxy.h` `rtp_proxy<0>`, `rtp_proxy<1>`; `threadcontrol.cpp` `call`,
`kill_thread`; modelled: `RtpRelay`). State: `shut`, `client_addr[2]`, the two sockets with their
modes, all shared by four threads with no lock. Operations: the three loops of a relay thread, the
spin of `call`, `kill_thread`. Hard: every interleaving of two threads that each poll what the
other writes; a flag read before a blocking call and not after it; the change from non-blocking to
blocking. Correct means: packets are forwarded in order, without gaps, repeats or empty ones, to
a known address; the threads get connected; few packets are dropped or sent late; `join()` returns.

**Port requests** (`module_rtpproxy.c` `set_m_rtpproxy`, `get_port`; modelled: `PortIpc`, its
promise in `PortService`). State: the request buffer and the two queues. Operations: send a
request and, unless it is a release, wait for the answer. Hard: a release waits for nothing;
full queues; a CSCF killed inside `get_port`, which is how it is normally stopped (`main.c:11`).
Correct means: the caller sees a sequential service; `get_port` returns.

**SDP rewriting** (`module_rtpproxy.c` `change_sdp`; modelled: `CallFlow`, with the modules around
it). No state of its own; decides from the method and the reason phrase which message takes, uses
or releases the call's ports. It runs before pjsip's transaction layer and so sees every repeated
message too. Hard: releases on BYE, CANCEL and `Decline` only; a CANCEL that crosses a 200; an
INVITE repeated after the release; re-INVITEs, which swap the ports, or cross a BYE. Correct means: each call that ends gives its ports back, both
parties are told the same relay.

**Stateful proxy** (`module_proxy.c`, `module.h`; modelled: `ProxyTsx`). State: the UAS
transaction, the UAC transaction, `uas_data` and `uac_data`, which point from each to the other
without holding a reference. Operations: `proxy_on_rx_request`, its CANCEL branch,
`tu_on_tsx_state`, `proxy_on_rx_response`, the routing functions. Hard: which of the two ends
first, and why (timer, response, transport error, CANCEL, ACK late or not); failing sends. Correct
means: no handler reaches a freed or missing transaction, the caller is given one final response
and a true one, both transactions end.

**Routing functions of the proxy** (`module_proxy.c:6-309`: `is_uri_local`, `proxy_postprocess`,
`proxy_verify_request`, `proxy_process_routing`, `proxy_calculate_target`; `app.c` `init_proxy`;
modelled: `ProxyRouting`). State: the names of the host. Hard: a request may come back several
times, each time with a Route less and a hop less; boundaries (Max-Forwards, port 0 for 5060);
the Request-URI is written by `route_on_rx_msg` before they read it; users move during a dialog.
Correct means: a request ends where the rules say that `module_proxy.c` states in its comments,
those of a dialog pass the CSCF.

**Registrar** (`module_registrar.c`) and **routing by the HSS** (`module_cscf_hss_IPC.c`; modelled:
`HssIpc`, and what they do to a call in `CallFlow`). State: the global buffer `m_cscf` and two
queues; the users' places are the HSS's. Operations: a REGISTER without credentials is answered with 401, otherwise
each Contact is sent to the HSS and the REGISTER answered with 200, whatever the HSS does; a
request's user is looked up at the HSS, 404 if unknown. Hard: several Contacts, the order of Expires
header and parameter; queues without correlation, kills; a 404 that releases the ports of a live
call. Correct means: what was answered is stored, a request goes to its own user's place.

**Application** (`main.c`, `app.c`; modelled: `HssIpc`, kills also in `PortIpc`). State: `app.quit`,
the worker thread. Operations: start, `exit`, the join, a kill. Hard: the worker may be blocked when
it is joined. Correct means: `exit` ends the program, and leaves no answer for the next one.

**HSS process**: not in this repository, external in `HssIpc`. **Module registration,
configuration, constants, logging**: no behaviour of their own. **pjsip**: a vendored library; its
transactions, next hops and assertions are modelled as far as the handlers meet them. **Build
files**: no behaviour, but see the compiler's part in `RtpRelay` below.

## 2. The modules

| module | models | state | composed of |
|---|---|---|---|
| `RtpServer` | message loop, pool, table, threads, descriptors | 9 variables | - |
| `RtpRelay` | the four threads of one call | 11 variables | - |
| `PortService` | what `get_port` promises (abstract) | 4 variables | - |
| `PortIpc` | `get_port`, queues and server together, kills of the CSCF | `RtpServer`'s and 4 more | `RtpServer`, `MsgQueues`; refines `PortService` |
| `ProxyTsx` | the pair of transactions of one request | `method`, `faults`, `p` | - |
| `CallFlow` | one call from end to end: two parties, the CSCF's modules in their order, the ports | 10 variables | - (what it assumes of `get_port` is `PortService`) |
| `ProxyRouting` | where the CSCF sends a request, and those of its dialog | 4 variables | - |
| `HssIpc` | registrar, lookups, the HSS and its queues, start, exit and kills of the CSCF | 11 variables | `MsgQueues` |
| `MsgQueues` | counting the messages of a queue | none | - |
| `MC...` | the same, for TLC | - | - |
| `...Proofs` | the theorems about the module of that name; those of `MsgQueues` are lemmas on queues and least numbers for the others | - | the module, `TLAPS` |

An operator whose name begins with `Slip` (`slip_`) is a definition the code might have had by
mistake: a dropped guard, a missing reset, a wrong index. No specification uses one; each says, in
`PROJECT.json` under `mutants`, which property notices when it takes the place of the real one.

### RtpServer

`pc` is where the server thread is: `recv` (in `msgrcv`), `serve`, `send` (in `msgsnd`), `join`,
`exited`. `m_rtpproxy`, `port_pool`, `p_table` have the code's names. An entry of `p_table` is the
pair of ports of its `proxy_control`; `<<0, 0>>` is no entry, as `kill_thread` returns it.
`threads` are the calls whose `call` thread runs and `shut` those whose flag is set. `socks` maps a
descriptor to the port its socket is bound to: the code sets `SO_REUSEADDR`, so a bind to a port
that an older socket still holds succeeds, and that is the model's assumption.

| action | code |
|---|---|
| `Receive` | `msgrcv`, main.cpp:47-50 |
| `ApplyAgain`, `Refuse`, `NewCall` | type 1: known call, fewer than two ports, otherwise (main.cpp:52-79, `new_thread`, the constructor of `proxy_control`) |
| `Exit` | `exit(1)` in the constructor when `socket` fails |
| `Callee`, `Send` | type 2, main.cpp:81-95 |
| `ReleaseNothing`, `Shut`, `Released` | type 3: `kill_thread` up to `join`, and from there on |
| `CallThread` | the `call` thread leaves its spin |
| `ClientSend`, `ClientReceive` | any program at the other end of the queues |

Requests are served one at a time; between two steps of one request only the `call` threads and
the client move, which is all the concurrency there is. `p_table` is indexed by `CallIds`; the
Call-IDs are model values (that a Call-ID is cut to fit `msgtext` is left out). `Released` closes
the descriptors *numbered* as the call's ports because `kill_thread` does.

### RtpRelay

One action for every access to what the threads share: `recvfrom` (which also writes
`client_addr`), the test of `shut`, the test of the other client's address, `fcntl`, `sendto`. `rx`
is a socket's receive queue, `arrived` counts what clients have sent, `out` and `late` record what a
thread has done and are read by no action. A client may change its address with any packet.
`shut` is not atomic and not volatile, so the language leaves the spin undefined; the module
models the build the repository makes (`configure.ac` sets `CFLAGS` to `-g` and the solution builds
Debug), where the flag is read from memory each time. At `-O2` a compiler may drop the loop.
Packets are never lost in a receive queue here: the kernel's loss before the socket is the same as
a client that sends less.

### PortIpc and PortService

`PortIpc` extends `RtpServer` with the CSCF's worker in place of the arbitrary client: `cpc`,
`asked` (the buffer), `got` (what `get_port` returned), `kills`. `set_m_rtpproxy` takes any request
for any call, since SIP messages come in any order; `get_port_send` and `get_port_receive` are the
two halves of `get_port`; `Restart` is a kill and a new start, which forgets everything the process
knew and nothing that is in the queues.

`PortService` is the sequential service: apply, query, release, return, with no other process and
one mailbox of answers; a killed caller leaves its answer in the mailbox, where the next caller
takes the first. The refinement mapping (`AllDone`) lets a request take effect when `msgsnd` has put
it on the queue: the abstract table and mailbox are those the server will have made once it has
served, in order, the request in hand and those waiting. This is what makes a release that nobody
waits for atomic; and it says that a kill does no harm to the ports themselves, only to who is told which.

### ProxyTsx

One request. `p` is a record of both transactions' states, the links (`uac_tsx`, `uas_tsx`), the
status codes the handlers read, the running timers and, for the properties, the final responses and
CANCELs sent. A handler and the callbacks pjsip makes inside it are one step (there is one worker
thread), written as functions from `p` to `p` that call one another as the C functions do:
`UacFinal` calls `TuUacRx`, which calls `ForwardResponse`, `UasSend` and `UacTerminated`. A
terminated transaction is destroyed by a timer of no delay; `p.ended` holds those timers in order.

| operator | code |
|---|---|
| `proxy_on_rx_request`, `NoUas` | module_proxy.c:322-398 |
| `RxCancel` | 400-444 |
| `TuUasTerminated` | 534-547 |
| `TuUacRx`, `ForwardResponse` | 549-618 |
| `UacTerminated`, `TimedOut` | 620-676 |
| `Rejected` | a 486 by `change_sdp` or a 404 by `route_on_rx_msg`, before the proxy |
| the others | pjsip 2.7 as the handlers see it, marked external |

`faults`, chosen at the start, says what may go wrong in a behaviour: sends may fail
(`transport`), the caller's ACK may come in the last 5 of its 32 seconds (`late_ack`), a module
before the proxy may answer (`rejection`). A property that a fault breaks says `faults = {}`. `p.up` is
FALSE after a NULL dereference or a failed assertion of pjsip.

### CallFlow

`up[u]` and `down[u]` are the messages on their way from and to a party, in order; messages of the
two parties cross freely. One step of `Cscf(u)` is the whole way of one message through the CSCF,
since one worker thread does all of it: `change_sdp` (an operator that gives the pair it leaves the
call and the SDP it leaves the message, or nothing, which is the 486), then pjsip's transaction
layer (`Repeated`), then `route_on_rx_msg` (`registered`), then the proxy.

| action | code |
|---|---|
| `NoPort` | the 486 of `change_sdp` |
| `Absorb` | a repeated INVITE: `change_sdp` has run, the transaction layer takes it |
| `NotFound` | the 404 of `route_on_rx_msg`, which releases the ports |
| `Invite`, `Cancel`, `InDialog` | `proxy_on_rx_request` |
| `Response` | `tu_on_tsx_state` or, with no transaction, `proxy_on_rx_response` |
| `Timeout` | timer B of a callee out of reach |
| `Register`, `Expire` | `regs_rx_request`; the HSS is taken to forget a user at `Expires: 0` |
| `OtherCall` | another call takes or gives back a pair |
| the others | the two user agents, by the rules of SIP, marked external |

`tsx` is what is left of the INVITE's transaction: `pending`, `completed` (it absorbs repeated
INVITEs), `gone` after a 200; `aborted` once the CSCF has answered an ACK (`Respond`), which ends
it. `told` is where each party has been told to send its media. A re-INVITE is an INVITE with a
type of its own, since the first one's transaction does not know it; `change_sdp` gives it port 1
whichever party sends it, so the parties change ports. One that the CSCF refuses (`NoPort`,
`NotFound`) is answered like one that the other party refuses (`re-4xx`), and the INVITE's
transaction is not concerned.

### ProxyRouting

`flight` is the one request under way: as it was sent, as it is now, the address it goes to, its
fate, and how often it has passed the CSCF. Each operator has the name of the C function or of one
of the three parts of `proxy_process_routing` (`StrictRoute`, `StripMaddr`, `OwnRoute`); `Forward`
chains them in the order of `proxy_on_rx_request`, after the `Rewrite` of `route_on_rx_msg`.
`Copy`, `NextHop` and the abort in `Answer` are pjsip's. `scheme` is "sip" for sip and sips. `Invite` and
`InviteStrict` are what may come from outside, `InDialog` an ACK or a BYE by the route set that the
Record-Routes of a delivered INVITE gave its sender. `RoutingAssumption` has the bound that
`init_proxy` does not check: the names fit into `app.name`. It also says that no user registers from
one of the CSCF's hosts, at whatever port: where the CSCF has the port 5060, a registered place there
becomes the CSCF's own address when `StripMaddr` resets the port. (With another port it need not be excluded;
users are phones on other hosts, so nothing is lost.)

The properties state the rules apart from the code: `Expected`, `PassesOf` and `Target` read them
off the request *as it was sent*. They are those of the comments in `module_proxy.c`: Routes
(176), maddr (49, 154), the schemes (209), Proxy-Require, and Max-Forwards, where the
comment (221) and the code agree on "1 or lower"; RFC 3261, 16.3, which the function names as its
source, would refuse 0 only, so the CSCF is one hop stricter than the RFC. That is the one place where
the module follows the code's comment against the RFC.

### HssIpc

| action | code |
|---|---|
| `Start`, `Exit`, `Joined` | main.c, `init_stack` (which may fail unnoticed: no worker), `destroy_stack` |
| `WorkerQuits`, `Return` | `worker_proc` looks at `app.quit` between two events |
| `RxRegister`, `set_chart`, `ReadsStar` | the loop of `regs_rx_request`, one Contact a step; `Contact: *` has no URI |
| `RxRequest`, `get_chart_send`, `get_chart_receive` | `route_on_rx_msg` and the halves of `get_chart` |
| `Kill` | main.c:11 |
| `HssServe`, `HssSend`, `HssDies` | the HSS, external |

`known` is where each user is by the REGISTERs that were answered with 200, computed on its own
(`Answered`) and compared with what the HSS holds; a user whose REGISTER died with the CSCF is
`Unsure`. `got` is what the last lookup returned, for whom.

## 3. The runs

| run | instance | distinct states | question |
|---|---|---|---|
| `server` | 3 calls, 2 pairs, 8 descriptors, queue of 1 | 197,040 | Are ports conserved, exclusive, in pairs; are answers right; does the server come back? |
| `server_sockets` | 2 calls, 1 pair | violation | Are a call's sockets closed? |
| `relay` | 2 addresses, 3 and 2 packets | 219,386 | What is forwarded, dropped, sent late; do the threads connect, does `join` return, what ends? |
| `ipc` | 2 calls, 1 pair, queues of 2, 2 kills | 324,532 | Does the composition implement `PortService`, what do kills leave behind, does `get_port` return? |
| `ipc_stale` | 1 kill, queues of 1 | violation | Is the port one of the call's after a kill? |
| `proxy` | both methods, all faults | 1,208 | The transactions' properties, all at once |
| `proxy_forward` | one fault, `transport` | violation | Is a response always forwarded with a transaction? |
| `routing` | 2 users, 2 places, 2 ports of the CSCF, 7 lists of Routes, Max-Forwards 1 to 3 and 70 | 91,326 | Does a request end where it should, do dialogs stay on the path? |
| `routing_ack` | one port, sip only | violation | Is an ACK never answered? |
| `hss` | 2 users, 2 places, queues of 2, 1 kill | 317,550 | Is what was answered stored, is a lookup the user's own, what stays behind, does exit end? |
| `call` | two pairs, three worlds | 35,260 | Do ports come back, are both parties told one relay, do both learn of the end? |
| `call_repeat` | repeated messages, or re-INVITEs | violation | Is a call that was hung up without ports? |

### What the properties say

`server`. `PortsExclusive`, `PortsComplete` and `PairsStay` together are the conservation of ports.
`AnswerIsRight` adds what they are for: a new call is refused only if *every* port is in use, which
needs the pairs to stay whole. `OneThreadPerCall` is why `join()` ends: the thread it waits for has
been told to stop, and no other thread has. `CallKeepsItsPorts`: only a type 3 request for that very call
ends it. `ServerComesBack`: nothing but `exit(1)` keeps the server from the next request.

`relay`. `ForwardsARun` holds through the change of socket mode, which is where an empty receive
could be forwarded. `AtMostOneLateDrop`: after the other address is known, one more packet may be
lost, never two. `AtMostOneLateSend`: after the shutdown, one more packet may be forwarded.
`EndsUnlessWaiting` says exactly which thread outlives its call: one that waits in `recvfrom`.

`ipc`. `ImplementsService` is the refinement, kills included. `StrayAnswersBounded`: a kill leaves at
most one answer behind. `AnswerOwed` bounds the same sum from below: no kill, no answer to a killed
run and no release takes away what `get_port` waits for. `CallerReturns`: the two processes never
wait for each other for good.
`OwnAnswer`: until the first kill `get_port` returns the very port asked for, though releases that
nobody waits for may still be unserved; `PortIsTheCalls`, which leaves the kills in, is what a kill
breaks (`ipc_stale`).

`proxy`. `NoDanglingPeer`: a handler is never led to a freed transaction. `OneFinal` and
`FinalIsTrue`: the `last_tx` that the proxy turns into a 408 was never a final response, and what the
caller is told is what happened. This rests on the order of pjsip's timers H and D (`TimerD`), see section 5. `NoCrash`, `CallerIsAnswered`, `BothDestroyed`: without a fault.
`CancelOnlyPending`: no CANCEL follows the callee's answer.

`call`. `EndedCallsHoldNothing`: every way through the messages ends with the ports given back,
unless a message is repeated or the callee refuses otherwise than with `Decline`; those two leak.
`TalkersShareARelay`: what both parties were told, at different times, is one pair, and the call
still has it when they talk; a late offer or a registration that ends breaks it, and so does a
re-INVITE to a caller that is not registered, which is answered 404 and costs the call its ports. `HangsUpBoth`: also
when a CANCEL and the 200 or a BYE and a re-INVITE cross, no party is left talking to nobody.

`routing`. `EndsWhereItShould` compares what the chain of functions did with a request, over all its
passes, with what the rules of `module_proxy.c` say of the request as it was sent: which refusal after
how many passes, or which address. Three kinds of request are exempt, as the code departs from its own
rules for them (see below): strictly routed ones, those with a tel URI, and, as to the port but not the
host, those with nothing but a maddr to go by. An ACK that should be refused is left to
`AckNotAnswered`. `DialogStaysOnPath` needs the Record-Route, the
names and the reversal of the route set to fit together, in both directions.

`hss`. `AnsweredIsStored` looks through the queue: what the HSS holds once it will have served it.
`LookupIsTheUsers` relates the answer taken to the REGISTERs answered before, with nothing in the
answer that says whose it is; it holds until a kill. `StrayAnswersBounded`: only kills leave
answers behind, exit does not. `ExitEnds`: the join of a worker that is blocked on a queue returns.

### Bounds, and why they are enough

- `CallIds`, `PairCount`: three calls for two pairs make the pool run out, refuse, and mix the order
  in which pairs return; the theorems hold for every pool.
- `FdLimit`: 11 leaves 8 descriptors, enough for four calls and no fifth, so `Exit` happens; in the
  `ipc` runs the limit is smaller for the same reason.
- `QueueLimit`: a real queue holds about 146 of these messages (16 KiB); 1 and 2 make `msgsnd` block.
- `MaxPackets`: a thread always drops the packet that showed it its client's address and may
  drop one late; a third is needed to forward two after it. One client sends three, the other two:
  the two threads run the same code, so either may be the busier one.
- `MaxKills` = `QueueLimit`: each kill leaves at most one answer. With more kills than the queue
  has room for, both processes can block in `msgsnd` for good (the model deadlocks then, and so would
  they); with 146 places this takes as many kills with no read in between.
- `Provisionals`, `Finals`: 100 is treated apart by `tu_on_tsx_state`, 180 stands for the others; 200
  and 487 stand for 2xx, which ends an INVITE's transactions at once, and the rest, which take an ACK.
- `Pairs` of `CallFlow`: two, so that a call that loses its pair can be given another one and other
  calls can take all. Each party repeats a message once: a second repetition finds the state the
  first one left. The worlds `{reinvite}`, `{retransmit, refusal, reinvite}` and `{late_offer, expiry}`
  are the largest under which one of the properties is claimed; what a world allows need not happen, so
  a smaller one has fewer behaviours.
- `Preloaded` (the Route lists of `ProxyRouting`): none, own names once, twice and by different names,
  another proxy's alone, behind an own one, between two. Max-Forwards 1, 2, 3: the boundary on the
  first, the second and no pass. Both ports, because port 0 in a URI means 5060.
- `Registers` of `HssIpc`: one Contact, one for each of two users, two of one user that contradict each
  other, a star; with an Expires header and without. One kill there, as the second finds what `PortIpc`
  shows with two.
- `CHECK_DEADLOCK FALSE` everywhere: these systems do stop, a server after `exit(1)` or with
  nobody asking, a call after its last packet, a request after its transactions.

### Fairness

- `RtpServer`, `RtpRelay`, `PortIpc`: weak fairness of each thread's steps; the operating system runs
  them. Nothing is assumed of clients and packets, except that the client reads its answers
  (`get_port` does not return before), and of kills.
- `ProxyTsx`: timers expire. A callee that has sent a provisional response is assumed to answer
  some day: the proxy has no timer C, timer B stops with the first provisional response, and without
  this assumption the proxy waits as long as the callee rings.
- `CallFlow`: messages that are not lost arrive and the worker thread handles them. Nobody has to
  ring, answer or hang up.
- `HssIpc`: the worker thread runs, the join returns when the thread has ended, the HSS serves as
  long as it lives. Nobody has to type `exit`, no message has to come. `ProxyRouting` has no liveness.

### Where code and comment differ

Five runs expect a violation; `PROJECT.json` quotes the lines under `findings`.

1. `SocketsReleased`: `kill_thread` closes descriptors numbered by ports. The sockets stay open.
2. `PortIsTheCalls`: `get_port` does not look at the key of an answer. After a kill in the wrong
   place each call is given the port of the one before.
3. `ResponseForwarded`: `uac_data->uas_tsx` can be NULL when a response is forwarded.
4. `AckNotAnswered`: `route_on_rx_msg` answers any request of an unknown user, an ACK too, and pjsip
   asserts that no response is made for one (the archive in `lib/` has its assertions on).
5. `HangUpReleases`: an INVITE repeated early and handled after the `Decline` takes a pair for good.
   So does a re-INVITE of the callee handled after the caller's BYE: the run's second world, which
   alone violates the property as well.

`route_on_rx_msg` runs before the proxy, which is why three rules written in `module_proxy.c` are not
what happens to a request, as `ProxyRouting` shows. A strictly routed request, whose Request-URI "MUST"
be replaced by its last Route (module_proxy.c:105-112), is answered 404, as the CSCF's own Record-Route
has no user to look up. A maddr is stripped as if it "had not been present" (158-161), with the port, but
the port is by then the registered one, and the request goes to 5060 of the user's host; with a maddr of
another proxy, the request goes there at the user's port. A tel URI, to be refused with 416 (209-214), is written into
through a null pointer. And `ProxyTsx` shows that a UAC that ends by a transport error leaves an
INVITE's UAS proceeding, with no timer, where module_proxy.c:620 says that the UAS is terminated as well.

More is visible in the models and named under `hazards`: a relay thread in `recvfrom`
outlives its call (`EndsUnlessWaiting` has to exempt it); an ACK in the last five seconds makes timer D
find a confirmed UAS, and the 408 fails an assertion of pjsip, and a CANCEL of an INVITE that another
module answered finds no `uas_data` (`NoCrash` is stated without these faults); calls refused with
anything but `Decline` keep their ports; with an offer in the 200 only one party is told the relay; a
404 inside a call releases the ports of that call; a `Contact: *` is a NULL dereference (`ReadsStar`). And two things
no model has: a Contact without any expiry puts -1 into the message to the HSS, which `get_chart`
takes for "unknown" if the HSS gives it back; `init_stack` drops the status of the transport and of
the worker thread, and `main` that of `init_stack`, so a CSCF that hears nothing looks alive.

## 4. The proofs

TLAPS checks every proof below to the last leaf. They hold for every value of the constants that
satisfies the assumptions, which stand with the constants in the modules and which TLC evaluates on
each run. Each theorem is `Spec => []P` for the property named, unless it says otherwise, and each
module has an inductive invariant, `IInv`, which TLC checked on that module's run before it was
proved; `CallFlowProofs` has a second one. The proof that a step keeps it has one lemma or case for
each action.

### RtpServerProofs

`TypeCorrect` (`TypeOK`), `ExclusivePorts` (`PortsExclusive`), `CompletePorts` (`PortsComplete`),
`NeighbourPorts` (`PairsStay`), `RightAnswers` (`AnswerIsRight`), `CallThreads`
(`OneThreadPerCall`), `KeptPorts` (the action property `CallKeepsItsPorts`).

Assumptions: `PortAssumption` (ports are positive, so that 0 can mean failure, and there is a pair),
`FdAssumption` (the limit on descriptors is not above the first port, 1024 against 20001, so that no
port number is an open descriptor), `QueueAssumption` (a queue holds a message).

    IInv == TypeOK /\ OneThreadPerCall /\ PortsExclusive /\ PortsComplete /\ PairsStay /\ AnswerIsRight

None of its parts is inductive alone. `Released` pushes back the ports of `m_rtpproxy.key`: that
these are a call's ports, and not `<<0, 0>>`, is the part of `OneThreadPerCall` about `join`. That
they are nowhere else is `PortsExclusive`. That the pool keeps its pairs needs the call's own pair
to be one (`PairsStay` about `p_table`). A refusal answers rightly because a pool of fewer than two
ports is empty (`PairsStay`: its length is even), and then every port is in a call (`PortsComplete`).
`PopIndex`, `PopTwoIndex`, `PushTwoIndex`, `BindType` say what the operators on the pool and the
descriptors do.

### RtpRelayProofs

`TypeCorrect` (`TypeOK`), `ARunIsForwarded` (`ForwardsARun`), `OneLateDrop` (`AtMostOneLateDrop`),
`OneLateSend` (`AtMostOneLateSend`). Assumption: `RelayAssumption` (no address is the unknown one,
each client sends a packet or more).

What makes `ForwardsARun` inductive is where the packets are that have been taken and not sent:
`QueueInOrder` says that the receive queue ends with the last packet that has come, so that
`Taken(i)`, the packets that came less those waiting, is the number of the last one taken;
`Forwarding` that in `send` the thread holds just that one, because in the third loop the socket
blocks and so no receive is empty; `Forwarded` that what has been sent ends right before it.
`AtMostOneLateDrop` needs `Dropping`: a thread that has dropped a packet late is past the look at
the other address, or about to make it with something received, and leaves. `AtMostOneLateSend`
needs `Sending`: after a late packet the thread is about to look at `shut`, which stays set.

### HssIpcProofs

`TypeCorrect` (`TypeOK`), `RegistersAreStored` (`AnsweredIsStored`), `LookupsAreRight`
(`LookupIsTheUsers`), `StraysAreBounded` (`StrayAnswersBounded`). Assumption: `HssAssumption` (a
queue holds a message, a REGISTER has a Contact, the names of no place are none).

`Registering` says what a REGISTER half sent has done to the queue: for each user the last of the
Contacts sent is where the HSS will have put him (`InTheEnd`), and without one nothing has changed.
With it `AnsweredIsStored` survives the step that answers. `NothingPending` and `OnePending` say
why the CSCF may take any answer for its own: until a kill, there is at most one lookup on its way,
in the queue, in the hand of the HSS or as its answer, it is for the user asked for, and no REGISTER
is behind it. `Fresh`: an answer is not used twice.

### PortIpcProofs

`StrayAnswersStayBounded` (`StrayAnswersBounded`), `AnswersAreOwed` (`AnswerOwed`), `ServerIsServer`
(`SpecIpc => Spec` of `RtpServer`: the client is one of those of which `RtpServerProofs` holds, so
all its theorems hold here; `ExclusivePortsIpc` is one, restated), and `ServiceIsImplemented`
(`ImplementsService`, the refinement of `PortService`), and `AnswersAreOwn` (the action property
`OwnAnswer`). `TypeOKIpc`, the types of the caller's variables, is a part of the invariant and no
run's property. Assumptions: those of `RtpServer`,
`KillAssumption` (a number of kills), `NoneAssumption` (no call is named like no result).

The invariant adds to that of `RtpServer` the count of what may be answered: a request of a type
that is answered, the one served and an answer are all counted, and there are no more than kills,
plus one while the caller waits, and no fewer than one while it waits (`StrayStep`, for both). The refinement goes step by step: `Done`
is what one request does to the state that the service sees (table, pool, answers), `Served` what a
queue of them does, `AllDone` the state after the request in hand and all that wait. When the server
serves the request in hand, it only does now what `AllDone` has counted as done (`ServedFirst`,
`ServerStutters`); a request put at the end is one `Done` more (`ServedAppend`, `SendIsService`); an
answer read is the first of the abstract mailbox (`ServedRead`, `ReceiveIsService`). `Pooled` says of
the real table and pool, and `ServedGood` of those to come, that the ports are in pairs and none is
in two hands: only so the pair that a later request will be given is known now.

`OwnAnswer` needs to know where the request that `get_port` waits for is, and `Awaited` says it: last
in the queue, in the server's hand, or answered, and then with the port that the table still has for the
call. That nothing but releases is before it, and no other answer on its way, is
`StrayAnswersBounded` without kills (`NoOther`); releases come to nothing by the time the answer is made.

### ProxyTsxProofs

`TypeCorrect` (`TypeOK`), `PeersAreThere` (`NoDanglingPeer`), `OneAnswer` (`OneFinal`),
`TheAnswerIsTrue` (`FinalIsTrue`), `Survives` (`NoCrash`), `CancelsArePending` (the action property
`CancelOnlyPending`). Assumption: `ProxyAssumption` (provisional codes are 1xx, final ones 200 to
699 without 408 and 500, which stand for the proxy's own).

`Situation` is the list of what two transactions and their links can be together: nobody is there, never started, turned
away by another module, open, answered, or one of them has ended first (`UasFirst`, `UacFirst`). It
says in each what the caller has been told, and with `TimersMatch` (a timer runs only in the state it
ends), `EndedMatch` (the order of the zero timers that destroy) and `Told` it is inductive.
`NoDanglingPeer` is then read off: a link is unset before the structure at its end is freed, in
either order of ends.

### ProxyRoutingProofs

`TypeCorrect` (`TypeOK`), `RequestsEndRight` (`EndsWhereItShould`), `DialogPassesTheCscf`
(`DialogStaysOnPath`). Assumption: `RoutingAssumption` (names, ports, places and hops are such; the
host's names fit into `app.name`, which `init_proxy` does not check).

`Follows` relates the request under way to the one that was sent: after `k` passes it has `k` hops
less, `k` Record-Routes of the CSCF more, and the first `Used(k, n)` Routes gone, where `n` Routes at
the front are the CSCF's own (`OwnRoutes`); it is at the CSCF while `k` is less than `PassesOf`, and
when it is not, at the address that the code gives it (`LeavesFor`). `EndsAsSent` is what the code does with
every request that has a SIP URI, the strictly routed ones included, and is in the invariant;
`RequestsEndRight` follows from it: that address is the rules' own `Target` or, with nothing but a
maddr to go by, has its host (for a maddr of the CSCF's, because a request that names one brings the CSCF's port along, the last
part of `Sendable`). Each function of the proxy has a lemma that says
what it does to such a request. `DialogOnPath` says that a route set consists of the CSCF's Record-Routes and
is not empty; its reversal is one again.

### CallFlowProofs

`TypeCorrect` (`TypeOK`), `TalkersShare` (`TalkersShareARelay`), `Invariance` (`IInv`),
`EndedCallsAreFree` (`EndedCallsHoldNothing`), `EndingInvariance` (`EInv`). Assumption:
`CallAssumption` (no pair is the absent one; the worlds are made of the five faults). The two
properties are about different worlds and different halves of a call, and have an invariant each.

For a call that stays:

    IInv == Typed /\ (Settled /\ Live => Sharing)

`Settled` are the worlds of the property and never changes, `Live` says that neither party is leaving
and can only become false, so a step that keeps `Sharing` may assume both before and after. While they hold,
no message that releases ports is under way (`Messaging`: each message from a party is of a type
it sends and has its own address, each to a party one of the call's pair). So the pair, once taken,
is never another: `HasPair` takes it from the INVITE on, which has not left the CSCF while `NotYet`.

What the two parties were told then depends on which re-INVITE was accepted last, and that is
counted (`On`, from u to the other party, on both sides of the CSCF). `OneOffer`: one re-INVITE or
answer of each party's, and its sender waits for it. `OneAck`, `Accepted`: who accepts goes by port 1
and waits for an ACK that is not yet sent, so the ports are swapped for both or for none when both
talk. `Told` is the property with the one step between: both are told the pair's two ports, or an
acceptance is on its way. At the start of the call `Unanswered`, `Invited` and `RingsFirst` give the
same for the INVITE and its 200: the SDP of a late 180 would be taken for the answer's.
Not inductive without it is also `NoOffers`: where nobody sends a re-INVITE, the callers need not
be registered.

The lemmas come in the groups of a message's way: what the CSCF does with one (`Pass...`, `Cscf...`),
what a party does that hears one (`Heard...`), and what it says unasked (`Said...`, `Acts...`); the
counts change by one message taken or put (`HearCounts`, `SayCounts`, `PassCounts`).

For a call that ends:

    EInv == Typed /\ (Plain => Words /\ NewCall /\ OneAnswer /\ Answered
                                /\ ByeIsLast /\ NoAck /\ Released /\ ToBeReleased)

`Plain` are the worlds of the property, which never change: late offers and registrations that end, but
nothing repeated, refused otherwise than with `Decline`, or offered anew. The property is the last
part when nothing is on its way: `ToBeReleased` says that a call whose caller has left and that has a
pair has a message from a party under way that will release it. The other parts say why nothing
takes a pair after that message, and why there is one:

- `Words`: each party sends only its own kinds of messages, of which the INVITE and a late offer's
  ACK alone can take a pair.
- `NewCall`: while the INVITE is not at the CSCF, nothing else of the call exists. So an INVITE never
  takes a pair for a call that is over.
- `OneAnswer`: one 200 and one ACK at most, each on its way to a party that waits for it. So a late
  offer's ACK, which may take a pair, is never behind the BYE that would have released it: `ByeIsLast`
  says of the caller's BYE that nothing follows it, and that a caller that has left with an ACK still
  at the CSCF has a BYE behind that ACK.
- `Answered`: a caller that has an answer has sent the ACK, so a callee that has answered still waits
  for one, unless the CSCF has gone down over it (`NoAck`) - then the callee never gets to `over`, and
  the call is not `Over`.
- `Released`: whatever tells the caller of the end (404, 486, 487, 603, BYE) has released the ports when it passed the
  CSCF, and so has a CANCEL on its way to a callee that rings, whose 487 releases nothing: `change_sdp`
  looks for CANCEL, BYE and `Decline` only.

No part is inductive without the others. A step moves one message along, so each case is a
message taken (`Taken`) and at most two put (`Put`), for which the lemmas on `Has`, `One` and
`AtEnd` say what is left of the queues. The 19 lemmas from `InviteGoesOn` to `CalleeSays` show that such a move
keeps `Ending`, whatever action makes it; `CallerPasses`, `CalleePasses` (the CSCF), `CallerHearsIt`, `CalleeHearsIt`
and `ActsEnding` show that each action is one of those moves.

### What stays with TLC

- Liveness, everywhere: the prover has neither fairness nor ENABLED. These are `ServerComesBack`,
  `BothConnect`, `KillReturns`, `EndsUnlessWaiting`, `CallerReturns`, `CallerIsAnswered`,
  `BothDestroyed`, `ExitEnds`, `HangsUpBoth`.
- That the five violated properties are violated: a counterexample is TLC's.

Where an argument needs induction over a sequence (`AllDone`, `InTheEnd`, the last of several
Contacts), it is made in first-order form: the least (`LeastNatural`) or the last (`LastIndex`) index of a
counterexample, and the contradiction at it.

## 5. Not modelled, and why

- Contents: SIP and SDP text, RTP payloads, the 511 bytes a relay reads at most, log and `printf`;
  the fixed buffers these are copied through (`msgtext[100]`, the host of a Request-URI).
- pjsip beyond what the handlers meet: parsing, transports, resolver, memory. Nearly all
  lines of the repository are its headers (`src/CSCF/include`), which declare an archive whose source
  is not here; there is no behaviour in them to model. The program itself is the 1,800 lines of
  `src/CSCF/CSCF` and `src/CSCF/UDPTest`, and every function of theirs that keeps or changes
  state is in a module.
- The order of pjsip's timers. `TimerD` of `ProxyTsx` fires after timer H, as both take 32 s and H is started
  first: this is what pjsip 2.7 is known to do, but its sources are not here, so nothing in the repository confirms it.
  `OneFinal` and `FinalIsTrue` rest on it.
- The other ways to `exit(1)` of the relay server: `Exit` is the failing `socket()`; a failing `bind` or
  `setsockopt` ends the process at the same point of the same function, with the same result.
- A caller with a late offer that cancels: in `CallFlow` it waits for the 200.
- The HSS process, which is not in the repository, beyond what its messages say.
- A re-INVITE that is cancelled or declined, and two calls of which both are followed to the end.
- Windows: the solution builds the CSCF for it as well, but the queues exist only on Unix.

## 6. Plan

The plan is carried out: its modules are written, its properties checked, and every invariant and
every action property that a passing run checks is a theorem for all values of the constants. What only TLC says is listed at the
end of section 4: liveness, and the counterexamples. A next step would be a model of two calls that are both
followed to the end, and of a re-INVITE that is cancelled or declined (section 5).
