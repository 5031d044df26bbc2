---------------------------- MODULE AverageCall ----------------------------
(***************************************************************************)
(* The average service of q4 and its clients: ravg.c calls the procedure   *)
(* of avg_proc.c (module Average) through the stubs avg_clnt.c and         *)
(* avg_svc.c, over UDP.  Datagrams are lost, duplicated and overtake one   *)
(* another, the client's call sends its request again until it times out,  *)
(* and the server may die and be started anew.                             *)
(*                                                                         *)
(* The server executes one request at a time, but the result is in a       *)
(* static variable, and an answer may come late.  Of the RPC library, only *)
(* what the two programs see of it is modelled.                            *)
(*                                                                         *)
(* The client of assignment1/ravg.c is the same; so are the server and its *)
(* average_1 in q5, where the client's call is commented out.              *)
(***************************************************************************)
EXTENDS Average

CONSTANTS
  Clients,   \* the processes that execute ravg
  Given,     \* what the clients may be given: functions from Clients to lists
  MaxStarts  \* bound on how often the server is started

ASSUME AverageCallAssumption ==
  /\ MaxStarts \in Nat
  /\ \A f \in Given, c \in Clients : \E n \in 0..MaxLen :
       f[c] \in [0..n - 1 -> -Largest..Largest]

VARIABLES
  numbers,   \* numbers[c]: the numbers c was given
  client,    \* client[c]: "start", "calling", "exited", "printed" or "crashed"
  port,      \* port[c]: the port c sends to
  printed,   \* printed[c]: twice the median c printed, as a multiple of 1/U
  requests,  \* the request datagrams under way
  replies,   \* the reply datagrams under way
  server,    \* "down", "unset" (starting), "up" or "refused"
  starts,    \* how often the server was started, which is also its port
  registry,  \* the port the portmapper has for the service, 0 if none
  serving    \* the client whose request the server executes, or Nobody

callVars ==
  <<numbers, client, port, printed, requests, replies, server, starts, registry, serving>>

allVars == <<vars, callVars>>

Nobody == "nobody"

NoNumbers == [n \in {} |-> 0]

CallInit ==
  /\ sent = NoNumbers /\ dp = NoNumbers
  /\ i = 0 /\ j = 0
  /\ median = 0
  /\ returned = FALSE
  /\ numbers \in Given
  /\ client = [c \in Clients |-> "start"]
  /\ port = [c \in Clients |-> 0]
  /\ printed = [c \in Clients |-> 0]
  /\ requests = {} /\ replies = {}
  /\ server = "down"
  /\ starts = 0 /\ registry = 0
  /\ serving = Nobody

-----------------------------------------------------------------------------
(* ravg.c                                                                  *)

BecomesClient(c, state) ==
  /\ client' = [client EXCEPT ![c] = state]
  /\ UNCHANGED <<vars, numbers, replies, server, starts, registry, serving>>

(* Too few or too many arguments, or clnt_create cannot reach a            *)
(* portmapper that knows the service.                                      *)
ExitEarly(c) ==
  /\ client[c] = "start"
  /\ BecomesClient(c, "exited")
  /\ UNCHANGED <<port, printed, requests>>

(* clnt_create, and the call's first request.                              *)
Call(c) ==
  /\ client[c] = "start" /\ numbers[c] # NoNumbers
  /\ registry # 0
  /\ port' = [port EXCEPT ![c] = registry]
  /\ requests' = requests \cup {[from |-> c, to |-> registry]}
  /\ BecomesClient(c, "calling")
  /\ UNCHANGED printed

(* clnt_call sends the request again when no reply has come for a while.   *)
SendAgain(c) ==
  /\ client[c] = "calling"
  /\ requests' = requests \cup {[from |-> c, to |-> port[c]]}
  /\ BecomesClient(c, "calling")
  /\ UNCHANGED <<port, printed>>

PrintMedian(c) ==
  /\ client[c] = "calling"
  /\ \E r \in replies :
       /\ r.to = c
       /\ printed' = [printed EXCEPT ![c] = r.median]
  /\ BecomesClient(c, "printed")
  /\ UNCHANGED <<port, requests>>

(* Mutant: the time-out starts anew with every request sent.               *)
TimeOutAnew(c) ==
  /\ client[c] = "calling"
  /\ ~\E r \in requests : r.from = c
  /\ BecomesClient(c, "crashed")
  /\ UNCHANGED <<port, printed, requests>>

(* After 25 seconds average_1 returns NULL: ravg prints "call failed" and, *)
(* all the same, the number the null pointer points to.                    *)
TimeOut(c) ==
  /\ client[c] = "calling"
  /\ BecomesClient(c, "crashed")
  /\ UNCHANGED <<port, printed, requests>>

Lose ==
  /\ \/ \E r \in requests : requests' = requests \ {r} /\ UNCHANGED replies
     \/ \E r \in replies : replies' = replies \ {r} /\ UNCHANGED requests
  /\ UNCHANGED <<vars, numbers, client, port, printed, server, starts, registry, serving>>

-----------------------------------------------------------------------------
(* avg_svc.c                                                               *)

unchangedByServer == <<numbers, client, port, printed>>

(* Mutant: main forgets pmap_unset.                                        *)
StartNoUnset ==
  /\ server \in {"down", "refused"} /\ starts < MaxStarts
  /\ server' = "unset" /\ starts' = starts + 1
  /\ UNCHANGED <<vars, unchangedByServer, requests, replies, registry, serving>>

(* main removes what an earlier server has registered.                     *)
Start ==
  /\ server \in {"down", "refused"} /\ starts < MaxStarts
  /\ server' = "unset" /\ starts' = starts + 1
  /\ registry' = 0
  /\ UNCHANGED <<vars, unchangedByServer, requests, replies, serving>>

(* svc_register does not replace a registration, and main exits if there   *)
(* is one.                                                                 *)
Register ==
  /\ server = "unset"
  /\ IF registry = 0
       THEN registry' = starts /\ server' = "up"
       ELSE server' = "refused" /\ UNCHANGED registry
  /\ UNCHANGED <<vars, unchangedByServer, requests, replies, starts, serving>>

ReceiveRequest(c, r) ==
  /\ server = "up"
  /\ r \in requests /\ r.from = c /\ r.to = starts
  /\ requests' \in {requests, requests \ {r}}
  /\ sent' = numbers[c] /\ dp' = numbers[c]
  /\ i' = 0 /\ j' = 0
  /\ median' = 0
  /\ returned' = FALSE
  /\ UNCHANGED <<unchangedByServer, replies, server, starts, registry>>

(* Mutant: the next request is taken while the reply waits to be sent, as  *)
(* by a server that executes the dispatch in several threads.              *)
DispatchEarly(c) ==
  /\ serving = Nobody \/ returned
  /\ \E r \in requests : ReceiveRequest(c, r)
  /\ serving' = IF serving = Nobody THEN c ELSE serving

(* averageprog_1 up to the call: svc_getargs, and how average_1 starts.    *)
(* The datagram may arrive a second time.                                  *)
Dispatch(c) ==
  /\ serving = Nobody
  /\ \E r \in requests : ReceiveRequest(c, r)
  /\ serving' = c

Compute ==
  /\ serving # Nobody
  /\ Average1
  /\ UNCHANGED callVars

(* svc_sendreply of the static variable, and svc_freeargs.                 *)
SendReply ==
  /\ serving # Nobody /\ returned
  /\ replies' = replies \cup {[to |-> serving, median |-> median]}
  /\ serving' = Nobody
  /\ UNCHANGED <<vars, unchangedByServer, requests, server, starts, registry>>

(* Its registration stays.                                                 *)
ServerDies ==
  /\ server \in {"unset", "up"}
  /\ server' = "down"
  /\ serving' = Nobody
  /\ UNCHANGED <<vars, unchangedByServer, requests, replies, starts, registry>>

ServerStep == Register \/ Compute \/ SendReply

-----------------------------------------------------------------------------
CallNext ==
  \/ \E c \in Clients :
       \/ ExitEarly(c) \/ Call(c) \/ SendAgain(c) \/ PrintMedian(c) \/ TimeOut(c)
       \/ Dispatch(c)
  \/ Lose \/ Start \/ ServerStep \/ ServerDies

CallSpec == CallInit /\ [][CallNext]_allVars

(* A client does not stop before its call, and the clock runs.  Nobody has *)
(* to start a server, and the network may lose everything.                 *)
FairCallSpec ==
  /\ CallSpec
  /\ \A c \in Clients : WF_allVars(ExitEarly(c) \/ Call(c)) /\ WF_allVars(TimeOut(c))
  /\ WF_allVars(ServerStep)

-----------------------------------------------------------------------------
(* However requests and replies of several clients are repeated, lost and  *)
(* delayed, what a client prints is the median of its own numbers, less    *)
(* than one off, and exact if they are whole, as long as an int can hold   *)
(* the integer part of each.                                               *)
PrintsOwnMedian ==
  \A c \in Clients : client[c] = "printed" /\ AllFitInt(numbers[c]) =>
    IsAlmostMedian(printed[c], numbers[c])

(* A server that runs is the one clients are sent to, even if the one      *)
(* before died and left its registration behind, which never keeps it from *)
(* registering.                                                            *)
FoundWhenUp == server # "refused" /\ (server = "up" => registry = starts)

(* No client waits for ever, whatever becomes of the server and of the     *)
(* datagrams, and the server comes to the end of every request.            *)
CallReturns ==
  /\ \A c \in Clients : <>(client[c] \in {"exited", "printed", "crashed"})
  /\ (serving # Nobody) ~> (serving = Nobody)
=============================================================================
