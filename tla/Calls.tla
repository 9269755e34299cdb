------------------------------- MODULE Calls -------------------------------
(***************************************************************************)
(* One-to-one calls: the call store of each client (store/calls.ts), the   *)
(* buttons of the overlay, and the relay of the backend with its per-user  *)
(* Redis buffer (ws/calls.py).  A user has one client.                     *)
(*                                                                         *)
(* Every getUserMedia call is a member of Prompts, which also names what   *)
(* comes out of it: the stream and the peer connection made with it.  The  *)
(* code waits for the prompt, and again while the browser makes or applies *)
(* a session description; what it does next depends on the store as it is  *)
(* then.  A promise of a closed peer connection never settles.             *)
(*                                                                         *)
(* Frames carry no call identity.  The field "call" of a frame and of a    *)
(* client is history: the dialling prompt the sender meant.                *)
(*                                                                         *)
(* Left out: ICE candidates (whether a matched pair connects is a choice   *)
(* of the network), call.ringing (no handler), mute and camera switches,   *)
(* the wake-up push, and secret-link calls (another transport).            *)
(***************************************************************************)
EXTENDS Naturals, Sequences, SequencesExt

CONSTANTS
  Clients,    \* users of one conversation each pair shares
  Prompts,    \* calls of getUserMedia
  None,       \* no peer, no prompt, no frame
  MaxDrops    \* bound: how often a socket is lost

ASSUME NoneIsNobody == None \notin Clients /\ None \notin Prompts
ASSUME MaxDropsIsNat == MaxDrops \in Nat

VARIABLES
  client,    \* the call store of each client and its module variables
  media,     \* the prompts with their streams and peer connections
  up,        \* clients whose socket is open
  uplink,    \* frames of each client its endpoint task has not read
  relaying,  \* the frame that task has fanned out and not yet buffered
  inbox,     \* frames on each client's socket
  buffer,    \* call_queue_user:{id} in Redis
  flushing,  \* what deliver_buffered_calls has read and not yet deleted
  strayed,   \* history: clients that acted on something of an earlier call
  drops      \* sockets lost so far

downlink == <<up, relaying, inbox, buffer, flushing, drops>>
net  == <<uplink, downlink>>
vars == <<client, media, net, strayed>>

-----------------------------------------------------------------------------
(* Types *)

Statuses == {"idle", "calling", "incoming", "connecting", "connected"}
FrameTypes == {"offer", "answer", "hangup", "decline", "busy"}
Frame == [type : FrameTypes, from : Clients, to : Clients,
          sdp : Prompts \cup {None}, call : Prompts \cup {None}]

Client == [status : Statuses, peer : Clients \cup {None},
           localStream : Prompts \cup {None}, pc : Prompts \cup {None},
           pendingOffer : Prompts \cup {None}, call : Prompts \cup {None}]

\* orphan is prompt after the call it was opened for is over: the code does
\* not tell them apart.
Stages == {"unused", "prompt", "orphan", "describing", "settled"}
Medium == [by : Clients \cup {None}, kind : {"start", "accept"}, stage : Stages,
           remote : Prompts \cup {None},  \* the remote description's author
           settling : BOOLEAN,            \* an answer is being applied
           described : BOOLEAN,           \* its local description is set
           live : BOOLEAN,                \* the tracks are not stopped
           open : BOOLEAN]                \* the peer connection is not closed

Flush == [stage : {"done", "due", "read"}, items : Seq(Frame)]

TypeOK ==
  /\ client \in [Clients -> Client]
  /\ media \in [Prompts -> Medium]
  /\ up \in SUBSET Clients
  /\ uplink \in [Clients -> Seq(Frame)]
  /\ relaying \in [Clients -> Frame \cup {None}]
  /\ inbox \in [Clients -> Seq(Frame)]
  /\ buffer \in [Clients -> Seq(Frame)]
  /\ flushing \in [Clients -> Flush]
  /\ strayed \in SUBSET Clients
  /\ drops \in 0..MaxDrops
  \* a client that rings can be answered: it holds an offer of the peer it shows
  /\ \A u \in Clients :
       client[u].status = "incoming" =>
         /\ client[u].pendingOffer # None
         /\ media[client[u].pendingOffer].by = client[u].peer

Idle == [status |-> "idle", peer |-> None, localStream |-> None, pc |-> None,
         pendingOffer |-> None, call |-> None]
Unused == [by |-> None, kind |-> "start", stage |-> "unused", remote |-> None,
           settling |-> FALSE, described |-> FALSE, live |-> FALSE, open |-> FALSE]
Flushed == [stage |-> "done", items |-> <<>>]

Init ==
  /\ client = [u \in Clients |-> Idle]
  /\ media = [m \in Prompts |-> Unused]
  /\ up = Clients
  /\ uplink = [u \in Clients |-> <<>>]
  /\ relaying = [u \in Clients |-> None]
  /\ inbox = [u \in Clients |-> <<>>]
  /\ buffer = [u \in Clients |-> <<>>]
  /\ flushing = [u \in Clients |-> Flushed]
  /\ strayed = {}
  /\ drops = 0

-----------------------------------------------------------------------------
(* Helpers *)

\* sendWs: best effort over the open socket.
SendWs(u, v, type, sdp, call) ==
  uplink' = IF u \in up
              THEN [uplink EXCEPT ![u] = Append(@, [type |-> type, from |-> u, to |-> v,
                                                    sdp |-> sdp, call |-> call])]
              ELSE uplink

\* signal over the default transport: to the peer of the moment, if any.
Signal(u, type, sdp) ==
  /\ IF client[u].peer = None
       THEN UNCHANGED uplink
       ELSE SendWs(u, client[u].peer, type, sdp, client[u].call)
  /\ UNCHANGED downlink

\* Mutant: teardown closes the connection and leaves the tracks running.
ReleasedTracksRun(M, u, s, p) ==
  [m \in Prompts |->
     [M[m] EXCEPT !.open = @ /\ m # p,
                  !.stage = IF M[m].by = u /\ @ = "prompt" THEN "orphan" ELSE @]]

\* What teardown leaves of M when u's store holds the stream s and the
\* connection p.  Prompts of u still open are orphans from here on.
Released(M, u, s, p) ==
  [m \in Prompts |->
     [M[m] EXCEPT !.live = @ /\ m # s,
                  !.open = @ /\ m # p,
                  !.stage = IF M[m].by = u /\ @ = "prompt" THEN "orphan" ELSE @]]

\* Mutant: the connection is closed but stays in the module variable.
ResetKeepsConnection(u) ==
  /\ client' = [client EXCEPT ![u] = [Idle EXCEPT !.pc = client[u].pc]]
  /\ media' = Released(media, u, client[u].localStream, client[u].pc)

\* reset: teardown, then every field back to its initial value.
Reset(u) ==
  /\ client' = [client EXCEPT ![u] = Idle]
  /\ media' = Released(media, u, client[u].localStream, client[u].pc)

Strays(u, condition) == strayed' = IF condition THEN strayed \cup {u} ELSE strayed

\* The two descriptions of a pair of open connections are each other's.
Matched(m) ==
  /\ media[m].open
  /\ media[m].remote # None
  /\ media[media[m].remote].open
  /\ media[media[m].remote].remote = m

-----------------------------------------------------------------------------
(* The user of client u.  The overlay covers the app unless the client is  *)
(* idle, offers Accept and Decline while it rings, Hang up otherwise.      *)

\* getUserMedia is called; nothing marks the store meanwhile.
Prompt(u, m, kind) ==
  /\ media[m].stage = "unused"
  /\ media' = [media EXCEPT ![m] = [Unused EXCEPT !.by = u, !.kind = kind, !.stage = "prompt"]]

StartCall(u, v, m) ==
  /\ u # v
  /\ client[u].status = "idle"
  /\ Prompt(u, m, "start")
  /\ client' = [client EXCEPT ![u].status = "calling", ![u].peer = v, ![u].call = m]
  /\ UNCHANGED <<net, strayed>>

\* Accept may be tapped again while the first tap's prompt is open.
Accept(u, m) ==
  /\ client[u].status = "incoming"
  /\ client[u].pendingOffer # None
  /\ Prompt(u, m, "accept")
  /\ UNCHANGED <<client, net, strayed>>

\* Mutant: the other end is not told.
HangUpSilently(u) ==
  /\ client[u].status \notin {"idle", "incoming"}
  /\ Reset(u)
  /\ UNCHANGED <<net, strayed>>

HangUp(u) ==
  /\ client[u].status \notin {"idle", "incoming"}
  /\ Signal(u, "hangup", None)
  /\ Reset(u)
  /\ UNCHANGED strayed

Decline(u) ==
  /\ client[u].status = "incoming"
  /\ Signal(u, "decline", None)
  /\ Reset(u)
  /\ UNCHANGED strayed

-----------------------------------------------------------------------------
(* The continuations of startCall and accept.  What a prompt yields goes   *)
(* into the store whatever call the store is in by then.                   *)

Prompting(m) == media[m].stage \in {"prompt", "orphan"}

\* The prompt resumes after its call, or over another prompt's connection.
LeftOver(m) == media[m].stage = "orphan" \/ client[media[m].by].pc # None

Granted(m, remote) ==
  [media EXCEPT ![m].stage = "describing", ![m].live = TRUE, ![m].open = TRUE,
                ![m].remote = remote]

StartGranted(m) ==
  LET u == media[m].by IN
  /\ Prompting(m)
  /\ media[m].kind = "start"
  /\ client' = [client EXCEPT ![u].localStream = m, ![u].pc = m]
  /\ media' = Granted(m, None)
  /\ Strays(u, LeftOver(m))
  /\ UNCHANGED net

StartDenied(m) ==
  LET u == media[m].by IN
  /\ Prompting(m)
  /\ media[m].kind = "start"
  /\ client' = [client EXCEPT ![u] = Idle]
  /\ media' = Released([media EXCEPT ![m].stage = "settled"], u,
                       client[u].localStream, client[u].pc)
  /\ Strays(u, LeftOver(m))
  /\ UNCHANGED net

\* setRemoteDescription is given the pending offer of the moment.
AcceptGranted(m) ==
  LET u == media[m].by IN
  /\ Prompting(m)
  /\ media[m].kind = "accept"
  /\ client[u].pendingOffer # None
  /\ client' = [client EXCEPT ![u].localStream = m, ![u].status = "connecting", ![u].pc = m]
  /\ media' = Granted(m, client[u].pendingOffer)
  /\ Strays(u, LeftOver(m))
  /\ UNCHANGED net

\* The prompt is refused, or there is no offer left to apply (the fresh stream
\* and connection are in the store by then, and go with it): decline.
AcceptFails(m) ==
  LET u == media[m].by IN
  /\ Prompting(m)
  /\ media[m].kind = "accept"
  /\ client' = [client EXCEPT ![u] = Idle]
  /\ \/ media' = Released([media EXCEPT ![m].stage = "settled"], u,
                          client[u].localStream, client[u].pc)
     \/ /\ client[u].pendingOffer = None
        /\ media' = Released([media EXCEPT ![m].stage = "settled"], u, m, m)
  /\ Signal(u, "decline", None)
  /\ Strays(u, LeftOver(m))

\* The local description is ready.  The code sets it on the connection the
\* store has now, which refuses a description that is not its own.
OfferMade(m) ==
  LET u == media[m].by IN
  /\ media[m].stage = "describing"
  /\ media[m].kind = "start"
  /\ media[m].open
  /\ IF client[u].pc = m
       THEN /\ media' = [media EXCEPT ![m].stage = "settled", ![m].described = TRUE]
            /\ Signal(u, "offer", m)
            /\ UNCHANGED client
       ELSE /\ client' = [client EXCEPT ![u] = Idle]
            /\ media' = Released([media EXCEPT ![m].stage = "settled"], u,
                                 client[u].localStream, client[u].pc)
            /\ UNCHANGED net
  /\ UNCHANGED strayed

\* createAnswer and setLocalDescription run on the connection of the moment;
\* they fail unless it still has to answer an offer.
Answerable(p) == p # None /\ media[p].remote # None /\ media[p].kind = "accept"
                          /\ ~media[p].described

AnswerMade(m) ==
  LET u == media[m].by
      p == client[u].pc
  IN
  /\ media[m].stage = "describing"
  /\ media[m].kind = "accept"
  /\ media[m].open
  /\ IF Answerable(p)
       THEN /\ media' = [x \in Prompts |->
                          [media[x] EXCEPT !.stage = IF x = m THEN "settled" ELSE @,
                                           !.described = @ \/ x = p]]
            /\ client' = [client EXCEPT ![u].pendingOffer = None]
            /\ Signal(u, "answer", p)
       ELSE /\ client' = [client EXCEPT ![u] = Idle]
            /\ media' = Released([media EXCEPT ![m].stage = "settled"], u,
                                 client[u].localStream, p)
            /\ Signal(u, "decline", None)
  /\ UNCHANGED strayed

-----------------------------------------------------------------------------
(* onSignal *)

\* The next frame is taken off u's socket.
Popped(u) == inbox' = [inbox EXCEPT ![u] = Tail(@)]
Take(u) == Popped(u) /\ UNCHANGED <<up, uplink, relaying, buffer, flushing, drops>>

\* Once paired, only the peer drives the call.
Admitted(u, f) == client[u].peer \in {None, f.from}

\* Mutant: an offer from the peer of the moment replaces what is under way.
OnOfferReplaces(u) ==
  LET f == Head(inbox[u]) IN
  /\ inbox[u] # <<>>
  /\ f.type = "offer"
  /\ Take(u)
  /\ IF Admitted(u, f)
       THEN client' = [client EXCEPT ![u].status = "incoming", ![u].peer = f.from,
                                     ![u].pendingOffer = f.sdp, ![u].call = f.call]
       ELSE UNCHANGED client
  /\ UNCHANGED <<media, strayed>>

OnOffer(u) ==
  LET f == Head(inbox[u]) IN
  /\ inbox[u] # <<>>
  /\ f.type = "offer"
  /\ Popped(u)
  /\ IF client[u].status # "idle"
       THEN /\ SendWs(u, f.from, "busy", None, f.call)
            /\ UNCHANGED client
       ELSE /\ client' = [client EXCEPT ![u].status = "incoming", ![u].peer = f.from,
                                        ![u].pendingOffer = f.sdp, ![u].call = f.call]
            /\ UNCHANGED uplink
  /\ UNCHANGED <<media, up, relaying, buffer, flushing, drops, strayed>>

\* setRemoteDescription of an answer: refused unless the connection has made
\* an offer that is not answered.
Unanswered(u) ==
  LET p == client[u].pc IN
  /\ p # None
  /\ media[p].kind = "start" /\ media[p].described /\ media[p].remote = None

OnAnswer(u) ==
  LET f == Head(inbox[u]) IN
  /\ inbox[u] # <<>>
  /\ f.type = "answer"
  /\ Take(u)
  /\ IF Admitted(u, f) /\ Unanswered(u)
       THEN /\ media' = [media EXCEPT ![client[u].pc].remote = f.sdp,
                                      ![client[u].pc].settling = TRUE]
            /\ Strays(u, f.call # client[u].call)
       ELSE UNCHANGED <<media, strayed>>
  /\ UNCHANGED client

\* The continuation of call.answer, which looks at nothing but the promise.
AnswerApplied(m) ==
  /\ media[m].settling
  /\ media[m].open
  /\ media' = [media EXCEPT ![m].settling = FALSE]
  /\ client' = [client EXCEPT ![media[m].by].status = "connecting"]
  /\ UNCHANGED <<net, strayed>>

\* call.hangup, call.decline, call.busy.
OnEnd(u) ==
  LET f == Head(inbox[u]) IN
  /\ inbox[u] # <<>>
  /\ f.type \in {"hangup", "decline", "busy"}
  /\ Take(u)
  /\ IF Admitted(u, f) /\ client[u].status # "idle"
       THEN /\ Reset(u)
            /\ Strays(u, f.call # client[u].call)
       ELSE UNCHANGED <<client, media, strayed>>

\* onconnectionstatechange.  The handlers of a connection that another has
\* replaced in the store are still attached.
Connects(m) ==
  LET u == media[m].by IN
  /\ Matched(m)
  /\ client[u].status # "connected"
  /\ client' = [client EXCEPT ![u].status = "connected"]
  /\ UNCHANGED <<media, net, strayed>>

ConnectionFails(m) ==
  LET u == media[m].by IN
  /\ media[m].open
  /\ media[m].remote # None /\ media[m].described  \* ICE has both ends to try
  /\ client' = [client EXCEPT ![u] = Idle]
  /\ media' = Released([media EXCEPT ![m].open = FALSE], u,
                       client[u].localStream, client[u].pc)
  /\ UNCHANGED <<net, strayed>>

-----------------------------------------------------------------------------
(* The backend *)

\* relay_call_event: fan out to the callee's live sockets first.
FanOut(u) ==
  LET f == Head(uplink[u]) IN
  /\ uplink[u] # <<>>
  /\ relaying[u] = None
  /\ uplink' = [uplink EXCEPT ![u] = Tail(@)]
  /\ relaying' = [relaying EXCEPT ![u] = f]
  /\ inbox' = IF f.to \in up THEN [inbox EXCEPT ![f.to] = Append(@, f)] ELSE inbox
  /\ UNCHANGED <<client, media, up, buffer, flushing, drops, strayed>>

\* ... and then the Redis buffer: push, or clear both directions.
Buffer(u) ==
  LET f == relaying[u] IN
  /\ f # None
  /\ relaying' = [relaying EXCEPT ![u] = None]
  /\ buffer' = IF f.type \in {"answer", "hangup", "decline"}
                 THEN [buffer EXCEPT ![f.to] = <<>>, ![f.from] = <<>>]
                 ELSE [buffer EXCEPT ![f.to] = Append(@, f)]
  /\ UNCHANGED <<client, media, up, uplink, inbox, flushing, drops, strayed>>

BufferExpires(u) ==
  /\ buffer[u] # <<>>
  /\ buffer' = [buffer EXCEPT ![u] = <<>>]
  /\ UNCHANGED <<client, media, up, uplink, relaying, inbox, flushing, drops, strayed>>

\* The socket is lost with what is on it; the call store stays.
Drop(u) ==
  /\ u \in up
  /\ drops < MaxDrops
  /\ up' = up \ {u}
  /\ drops' = drops + 1
  /\ uplink' = [uplink EXCEPT ![u] = <<>>]
  /\ inbox' = [inbox EXCEPT ![u] = <<>>]
  /\ flushing' = [flushing EXCEPT ![u] = Flushed]
  /\ UNCHANGED <<client, media, relaying, buffer, strayed>>

\* hub.register, then deliver_buffered_calls: LRANGE, and DELETE and send.
Reconnect(u) ==
  /\ u \notin up
  /\ up' = up \cup {u}
  /\ flushing' = [flushing EXCEPT ![u].stage = "due"]
  /\ UNCHANGED <<client, media, uplink, relaying, inbox, buffer, drops, strayed>>

ReadBuffer(u) ==
  /\ flushing[u].stage = "due"
  /\ flushing' = [flushing EXCEPT ![u] = [stage |-> "read", items |-> buffer[u]]]
  /\ UNCHANGED <<client, media, up, uplink, relaying, inbox, buffer, drops, strayed>>

DeliverBuffered(u) ==
  /\ flushing[u].stage = "read"
  /\ flushing' = [flushing EXCEPT ![u] = Flushed]
  /\ buffer' = [buffer EXCEPT ![u] = <<>>]
  /\ inbox' = [inbox EXCEPT ![u] = @ \o flushing[u].items]
  /\ UNCHANGED <<client, media, up, uplink, relaying, drops, strayed>>

-----------------------------------------------------------------------------

User == \/ \E u, v \in Clients, m \in Prompts : StartCall(u, v, m)
        \/ \E u \in Clients, m \in Prompts : Accept(u, m)
        \/ \E u \in Clients : HangUp(u) \/ Decline(u)

Browser == \E m \in Prompts :
             \/ StartGranted(m) \/ StartDenied(m) \/ AcceptGranted(m) \/ AcceptFails(m)
             \/ OfferMade(m) \/ AnswerMade(m) \/ AnswerApplied(m)
             \/ Connects(m) \/ ConnectionFails(m)

Signals == \E u \in Clients : OnOffer(u) \/ OnAnswer(u) \/ OnEnd(u)

Server == \E u \in Clients :
            \/ FanOut(u) \/ Buffer(u) \/ BufferExpires(u)
            \/ Drop(u) \/ Reconnect(u) \/ ReadBuffer(u) \/ DeliverBuffered(u)

Next == User \/ Browser \/ Signals \/ Server
Spec == Init /\ [][Next]_vars

-----------------------------------------------------------------------------
(* Properties *)

\* A client never talks to someone else than the peer it shows: the remote
\* description of its connection was made by that peer (onSignal's peer check).
TalksToPeer ==
  \A u \in Clients :
    LET p == client[u].pc IN
    p # None /\ media[p].remote # None /\ client[u].peer # None =>
      media[media[p].remote].by = client[u].peer \/ u \in strayed

\* A continuation of m is due.
Running(m) == \/ Prompting(m)
              \/ media[m].open /\ media[m].stage = "describing"
              \/ media[m].open /\ media[m].settling

\* An idle client holds neither camera nor connection, except when a prompt
\* outlived its call (teardown, startCall).
IdleReleasesMedia ==
  \A u \in Clients :
    client[u].status = "idle" /\ u \notin strayed =>
      \A m \in Prompts : media[m].by = u => ~media[m].live /\ ~media[m].open

\* The network is at rest and no continuation is due.
Quiet ==
  /\ \A u \in Clients : uplink[u] = <<>> /\ relaying[u] = None /\ inbox[u] = <<>>
  /\ \A m \in Prompts : ~Running(m)

\* The connection cannot come about or has lost its other end, and will fail.
Failing(u) == client[u].pc # None /\ media[client[u].pc].remote # None
                                  /\ ~Matched(client[u].pc)

\* Nobody is left alone in a call: when everything has been delivered and no
\* socket was lost, the peer of a client in a call is in that call too, unless
\* one of the two acted on a leftover of an earlier call (no call identities).
NoHalfOpenCall ==
  Quiet /\ drops = 0 =>
    \A u \in Clients :
      LET v == client[u].peer IN
      client[u].status # "idle" /\ ~Failing(u) /\ v # None /\ {u, v} \cap strayed = {} =>
        client[v].status # "idle" /\ client[v].peer = u

\* "the client dedupes a replayed offer" (ws/calls.py): a client does not answer
\* the offer it is ringing for, or talking over, with busy.
ReplayedOfferDeduped ==
  [][\A u \in Clients :
       /\ inbox[u] # <<>>
       /\ Head(inbox[u]).type = "offer"
       /\ client[u].status # "idle"
       /\ Head(inbox[u]).call = client[u].call
       => uplink'[u] = uplink[u] \/ inbox'[u] = inbox[u]]_vars
=============================================================================
