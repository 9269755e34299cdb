----------------------------- MODULE CallsProofs -----------------------------
(***************************************************************************)
(* Theorems about Calls, for any clients, prompts and number of lost       *)
(* sockets.                                                                *)
(*                                                                         *)
(* The inductive invariant has three parts.                                *)
(*                                                                         *)
(* StoreInv relates each call store to the media: a store holds the stream *)
(* and the connection of one prompt of its own, an open prompt belongs to  *)
(* a call that goes on, and the media of a client that has not strayed are *)
(* in its store.  It gives TalksToPeer and IdleReleasesMedia.              *)
(*                                                                         *)
(* NetInv types the queues and says of every frame in one of them that its *)
(* session description is of its sender.  StoreInv needs it when an offer  *)
(* or an answer is taken; it needs that prompts do not change owner.       *)
(*                                                                         *)
(* CallInv is about pairs of clients, while no socket was lost.  Linked    *)
(* says for clients a and b what each kind of frame on its way from one to *)
(* the other means for the two stores: an offer is unseen, and its caller  *)
(* waits or has sent the end of the call behind it; who sent an end is not *)
(* in that call; an answer is on the callee's connection.  And it says of  *)
(* a client in a call that the peer is in it, will hear of it, or has told *)
(* it otherwise.  Once the network is quiet, only "the peer is in it" is   *)
(* left, which is NoHalfOpenCall.                                          *)
(*                                                                         *)
(* A step is proved in two strides: the action is one of a dozen changes   *)
(* of a store (Dials, Leaves, ...) and one of four of the wire (Sends,     *)
(* Takes, ...), and each pair of these keeps Linked.                       *)
(***************************************************************************)
EXTENDS Calls, TLAPS

\* A leaf is for the SMT solver, which is given time, unless it names another prover.
USE SMTT(60)

\* The parts of TypeOK that concern stores and media.
ClientsTypeOK == client \in [Clients -> Client]
MediaTypeOK == media \in [Prompts -> Medium]

\* A prompt that was never opened is blank; any other belongs to a client.
PromptsHaveOwners ==
  \A m \in Prompts :
    LET p == media[m] IN
    IF p.stage = "unused"
      THEN p.by = None /\ p.remote = None /\ ~p.live /\ ~p.open /\ ~p.settling /\ ~p.described
      ELSE p.by # None

\* The session description that f carries was made by its sender.
Describes(M, f) ==
  f.type \in {"offer", "answer"} => f.sdp # None /\ M[f.sdp].by = f.from

AllDescribe(M, s) == \A i \in 1..Len(s) : Describes(M, s[i])

\* The queues hold frames, and what they carry is of their senders.
UplinkOK == uplink \in [Clients -> Seq(Frame)] /\ \A u \in Clients : AllDescribe(media, uplink[u])
InboxOK  == inbox \in [Clients -> Seq(Frame)] /\ \A u \in Clients : AllDescribe(media, inbox[u])
BufferOK == buffer \in [Clients -> Seq(Frame)] /\ \A u \in Clients : AllDescribe(media, buffer[u])

RelayingOK ==
  /\ relaying \in [Clients -> Frame \cup {None}]
  /\ \A u \in Clients : relaying[u] # None => Describes(media, relaying[u])

FlushingOK ==
  /\ flushing \in [Clients -> Flush]
  /\ \A u \in Clients : AllDescribe(media, flushing[u].items)

SocketsOK == up \in SUBSET Clients /\ drops \in 0..MaxDrops

\* A store holds the stream and the connection of one prompt of its own client.
StoreIsOwn ==
  \A u \in Clients :
    /\ client[u].localStream = client[u].pc
    /\ client[u].pc # None => media[client[u].pc].by = u

\* The offer a client rings for, or is answering, is of the peer it shows.
OfferIsPeers ==
  \A u \in Clients :
    client[u].pendingOffer # None =>
      client[u].peer # None /\ media[client[u].pendingOffer].by = client[u].peer

\* What a client has before it is in a call: neither peer nor offer when it is idle,
\* an offer when it rings, and no connection that answers one.
BeforeTheCall ==
  \A u \in Clients :
    /\ client[u].status = "idle" => client[u].peer = None /\ client[u].pendingOffer = None
    /\ client[u].status = "incoming" => client[u].pendingOffer # None
    /\ client[u].status \in {"idle", "incoming"} /\ client[u].pc # None =>
         media[client[u].pc].kind = "start"

\* A remote description was made by somebody.
RemotesAreMade ==
  \A m \in Prompts : media[m].remote # None => media[media[m].remote].by # None

\* A prompt that is no orphan belongs to a call that goes on: teardown orphans the rest.
PromptsAreOfTheCall ==
  \A m \in Prompts : media[m].stage = "prompt" => client[media[m].by].status # "idle"

\* Unless a client strayed, every live track and open connection of it is in its store,
\* and none is while it is idle.
MediaIsInStore ==
  \A u \in Clients \ strayed :
    /\ client[u].status = "idle" => client[u].pc = None
    /\ \A m \in Prompts :
         media[m].by = u /\ (media[m].live \/ media[m].open) => client[u].pc = m

\* TalksToPeer of one client.
TalksTo(u) ==
  LET p == client[u].pc IN
  p # None /\ media[p].remote # None /\ client[u].peer # None =>
    media[media[p].remote].by = client[u].peer \/ u \in strayed

\* The stores and the media.
StoreInv ==
  /\ ClientsTypeOK /\ MediaTypeOK /\ strayed \in SUBSET Clients
  /\ PromptsHaveOwners /\ StoreIsOwn /\ OfferIsPeers /\ BeforeTheCall
  /\ RemotesAreMade /\ PromptsAreOfTheCall /\ MediaIsInStore /\ TalksToPeer

\* The queues and the sockets.
NetInv ==
  UplinkOK /\ InboxOK /\ BufferOK /\ RelayingOK /\ FlushingOK /\ SocketsOK

USE NoneIsNobody

\* teardown touches the tracks, the connections and the prompts, nothing else.
LEMMA ReleasedFields ==
  ASSUME NEW M \in [Prompts -> Medium], NEW u, NEW s, NEW p
  PROVE  /\ Released(M, u, s, p) \in [Prompts -> Medium]
         /\ \A m \in Prompts :
              LET n == Released(M, u, s, p)[m] IN
              /\ n.by = M[m].by /\ n.kind = M[m].kind /\ n.remote = M[m].remote
              /\ n.settling = M[m].settling /\ n.described = M[m].described
              /\ n.live <=> M[m].live /\ m # s
              /\ n.open <=> M[m].open /\ m # p
              /\ n.stage = IF M[m].by = u /\ M[m].stage = "prompt" THEN "orphan"
                                                                   ELSE M[m].stage
<1> DEFINE n(m) == [M[m] EXCEPT !.live = @ /\ m # s, !.open = @ /\ m # p,
                                !.stage = IF M[m].by = u /\ @ = "prompt" THEN "orphan" ELSE @]
<1>1. ASSUME NEW m \in Prompts
      PROVE  /\ n(m) \in Medium
             /\ n(m).by = M[m].by /\ n(m).kind = M[m].kind /\ n(m).remote = M[m].remote
             /\ n(m).settling = M[m].settling /\ n(m).described = M[m].described
             /\ n(m).live <=> M[m].live /\ m # s
             /\ n(m).open <=> M[m].open /\ m # p
             /\ n(m).stage = IF M[m].by = u /\ M[m].stage = "prompt" THEN "orphan"
                                                                   ELSE M[m].stage
  <2>1. M[m] \in Medium
    OBVIOUS
  <2> QED
    BY ZenonT(120), <2>1 DEF Medium, Stages
<1>2. Released(M, u, s, p) = [m \in Prompts |-> n(m)]
  BY DEF Released
<1> HIDE DEF n
<1> QED
  BY <1>1, <1>2

\* What every way out of a call does to the store of u and to the media.
Ended(u) ==
  /\ client' = [client EXCEPT ![u] = Idle]
  /\ media' \in [Prompts -> Medium]
  /\ strayed' \in SUBSET Clients /\ strayed \subseteq strayed'
  /\ \A m \in Prompts :
       /\ media'[m].by = media[m].by
       /\ media'[m].kind = media[m].kind
       /\ media'[m].remote = media[m].remote
       /\ media'[m].stage = "unused" <=> media[m].stage = "unused"
       /\ media'[m].stage = "prompt" => media[m].stage = "prompt" /\ media[m].by # u
       /\ media'[m].live => media[m].live
       /\ media'[m].open => media[m].open
       /\ media'[m].settling => media[m].settling
       /\ media'[m].described <=> media[m].described
       /\ media[m].by # u =>
            media'[m].stage = media[m].stage /\ (media'[m].open <=> media[m].open)
       /\ \/ media'[m].stage = media[m].stage /\ (media[m].by = u => media[m].stage # "prompt")
          \/ media'[m].stage = "settled" /\ media[m].stage # "unused"
          \/ media'[m].stage = "orphan" /\ media[m].stage = "prompt"
       /\ media[m].by = u /\ u \notin strayed' => ~media'[m].live /\ ~media'[m].open

\* A client that leaves its call leaves the invariant true.
LEMMA EndedStore ==
  ASSUME StoreInv, NEW u \in Clients, Ended(u)
  PROVE  StoreInv'
<1> USE DEF StoreInv, ClientsTypeOK, MediaTypeOK, Ended, Idle
<1>1. ClientsTypeOK' /\ MediaTypeOK' /\ (strayed \in SUBSET Clients)'
  BY DEF Client, Statuses
<1>2. PromptsHaveOwners'
  BY DEF PromptsHaveOwners, Medium
<1>3. StoreIsOwn'
  BY DEF StoreIsOwn, Client
<1>4. OfferIsPeers'
  BY DEF OfferIsPeers, Client
<1>5. BeforeTheCall'
  BY DEF BeforeTheCall, Client
<1>6. RemotesAreMade'
  BY DEF RemotesAreMade, Medium
<1>7. PromptsAreOfTheCall'
  BY DEF PromptsAreOfTheCall, PromptsHaveOwners, Medium
<1>8. MediaIsInStore'
  BY DEF MediaIsInStore, Medium
<1>9. TalksToPeer'
  BY DEF TalksToPeer, RemotesAreMade, Client, Medium
<1> QED
  BY <1>1, <1>2, <1>3, <1>4, <1>5, <1>6, <1>7, <1>8, <1>9

\* M is the media with a prompt or a connection of u over, if need be.
WindsUp(M, u, x) ==
  /\ M[x].by = media[x].by /\ M[x].kind = media[x].kind
  /\ M[x].remote = media[x].remote
  /\ M[x].settling = media[x].settling /\ M[x].described = media[x].described
  /\ M[x].live = media[x].live
  /\ M[x].open => media[x].open
  /\ M[x].stage = "unused" <=> media[x].stage = "unused"
  /\ M[x].stage = "prompt" => media[x].stage = "prompt"
  /\ M[x].stage \in {media[x].stage, "settled"}
  /\ media[x].by # u => M[x].stage = media[x].stage /\ (M[x].open <=> media[x].open)

\* teardown and reset, from the store of u as it is, end the call of u.
LEMMA ReleasedEnds ==
  ASSUME StoreInv, NEW u \in Clients, NEW M \in [Prompts -> Medium], NEW p,
         \A x \in Prompts : WindsUp(M, u, x),
         p \in Prompts => media[p].by = u,
         u \notin strayed' => client[u].pc \in {None, p},
         strayed' \in SUBSET Clients, strayed \subseteq strayed',
         client' = [client EXCEPT ![u] = Idle],
         media' = Released(M, u, p, p)
  PROVE  Ended(u)
<1> USE DEF StoreInv, MediaTypeOK, WindsUp
<1>1. media' \in [Prompts -> Medium]
  BY ReleasedFields
<1>2. ASSUME NEW m \in Prompts
      PROVE  /\ media'[m].by = media[m].by
             /\ media'[m].kind = media[m].kind
             /\ media'[m].remote = media[m].remote
             /\ media'[m].settling => media[m].settling
             /\ media'[m].described <=> media[m].described
             /\ media'[m].stage = IF media[m].by = u /\ M[m].stage = "prompt" THEN "orphan"
                                                                            ELSE M[m].stage
  BY ReleasedFields
<1>5. ASSUME NEW m \in Prompts
      PROVE  /\ media'[m].stage = "unused" <=> media[m].stage = "unused"
             /\ media'[m].stage = "prompt" => media[m].stage = "prompt" /\ media[m].by # u
             /\ \/ media'[m].stage = media[m].stage /\ (media[m].by = u => media[m].stage # "prompt")
                \/ media'[m].stage = "settled" /\ media[m].stage # "unused"
                \/ media'[m].stage = "orphan" /\ media[m].stage = "prompt"
             /\ media[m].by # u => media'[m].stage = media[m].stage
  <2>1. /\ M[m].stage = "unused" <=> media[m].stage = "unused"
        /\ M[m].stage = "prompt" => media[m].stage = "prompt"
        /\ M[m].stage \in {media[m].stage, "settled"}
        /\ media[m].by # u => M[m].stage = media[m].stage
    OBVIOUS
  <2>2. media'[m].stage = IF media[m].by = u /\ M[m].stage = "prompt" THEN "orphan"
                                                                     ELSE M[m].stage
    BY <1>2
  <2> QED
    BY <2>1, <2>2
<1>3. ASSUME NEW m \in Prompts
      PROVE  /\ media'[m].live => media[m].live /\ m # p
             /\ media'[m].open => media[m].open /\ m # p
  BY ReleasedFields
<1>4. ASSUME NEW m \in Prompts, media[m].by = u, u \notin strayed'
      PROVE  ~media'[m].live /\ ~media'[m].open
  <2>1. media[m].live \/ media[m].open => client[u].pc = m
    BY <1>4 DEF MediaIsInStore
  <2> QED
    BY <2>1, <1>3, <1>4
<1>6. ASSUME NEW m \in Prompts, media[m].by # u
      PROVE  media'[m].open <=> media[m].open
  <2>1. M[m].open <=> media[m].open
    BY <1>6
  <2>2. m # p
    BY <1>6
  <2> QED
    BY <2>1, <2>2, ReleasedFields
<1> QED
  BY <1>1, <1>2, <1>3, <1>4, <1>5, <1>6 DEF Ended

\* reset() alone.
LEMMA ResetEnds ==
  ASSUME StoreInv, NEW u \in Clients, Reset(u), strayed' \in SUBSET Clients, strayed \subseteq strayed'
  PROVE  Ended(u)
<1>1. client[u].localStream = client[u].pc /\ media \in [Prompts -> Medium]
  BY DEF StoreInv, StoreIsOwn, MediaTypeOK
<1>2. media' = Released(media, u, client[u].pc, client[u].pc)
  BY <1>1 DEF Reset
<1>3. client' = [client EXCEPT ![u] = Idle]
  BY DEF Reset
<1>5. \A x \in Prompts : WindsUp(media, u, x)
  BY <1>1 DEF WindsUp, Medium
<1>4. client[u].pc \in Prompts => media[client[u].pc].by = u
  BY NoneIsNobody DEF StoreInv, StoreIsOwn
<1> QED
  BY Zenon, <1>1, <1>2, <1>3, <1>4, <1>5, ReleasedEnds

\* The prompt m of u is over in any case: the store of u may be emptied.
LEMMA SettledEnds ==
  ASSUME StoreInv, NEW m \in Prompts, NEW u \in Clients, NEW p,
         media[m].stage # "unused", media[m].by = u,
         client' = [client EXCEPT ![u] = Idle],
         media' = Released([media EXCEPT ![m].stage = "settled"], u, p, p),
         p \in Prompts => media[p].by = u,
         u \notin strayed' => client[u].pc \in {None, p},
         strayed' \in SUBSET Clients, strayed \subseteq strayed'
  PROVE  Ended(u)
<1> DEFINE M == [media EXCEPT ![m].stage = "settled"]
<1>1. M \in [Prompts -> Medium]
  BY DEF StoreInv, MediaTypeOK, Medium, Stages
<1>2. ASSUME NEW x \in Prompts
      PROVE  /\ M[x].by = media[x].by /\ M[x].kind = media[x].kind
             /\ M[x].remote = media[x].remote
             /\ M[x].settling = media[x].settling /\ M[x].described = media[x].described
             /\ M[x].live = media[x].live /\ M[x].open = media[x].open
             /\ M[x].stage = IF x = m THEN "settled" ELSE media[x].stage
  BY DEF StoreInv, MediaTypeOK, Medium, Stages
<1>4. \A x \in Prompts : WindsUp(M, u, x)
  <2> HIDE DEF M
  <2> QED
    BY <1>2 DEF WindsUp
<1>3. media' = Released(M, u, p, p)
  OBVIOUS
<1> HIDE DEF M
<1> QED
  BY Zenon, <1>1, <1>3, <1>4, ReleasedEnds

\* The media after m's answer is made on the connection p.
AnsweredMedia(M, m, p) ==
  [x \in Prompts |-> [M[x] EXCEPT !.stage = IF x = m THEN "settled" ELSE @,
                                  !.described = @ \/ x = p]]

\* ... differ from those before in two fields.
LEMMA AnsweredFields ==
  ASSUME NEW M \in [Prompts -> Medium], NEW m, NEW p
  PROVE  /\ AnsweredMedia(M, m, p) \in [Prompts -> Medium]
         /\ \A x \in Prompts :
              LET n == AnsweredMedia(M, m, p)[x] IN
              /\ n.by = M[x].by /\ n.kind = M[x].kind
              /\ n.remote = M[x].remote /\ n.settling = M[x].settling
              /\ n.live = M[x].live /\ n.open = M[x].open
              /\ n.stage = IF x = m THEN "settled" ELSE M[x].stage
              /\ n.described <=> M[x].described \/ x = p
<1> DEFINE n(x) == [M[x] EXCEPT !.stage = IF x = m THEN "settled" ELSE @,
                                !.described = @ \/ x = p]
<1>1. ASSUME NEW x \in Prompts
      PROVE  /\ n(x) \in Medium
             /\ n(x).by = M[x].by /\ n(x).kind = M[x].kind
             /\ n(x).remote = M[x].remote /\ n(x).settling = M[x].settling
             /\ n(x).live = M[x].live /\ n(x).open = M[x].open
             /\ n(x).stage = IF x = m THEN "settled" ELSE M[x].stage
             /\ n(x).described <=> M[x].described \/ x = p
  <2>1. M[x] \in Medium
    OBVIOUS
  <2> QED
    BY ZenonT(120), <2>1 DEF Medium, Stages
<1>2. AnsweredMedia(M, m, p) = [x \in Prompts |-> n(x)]
  BY DEF AnsweredMedia
<1> HIDE DEF n
<1> QED
  BY <1>1, <1>2

\* A store that is well typed stays so.
LEMMA OneClientTyped ==
  ASSUME ClientsTypeOK, NEW u \in Clients, NEW c \in Client, client' = [client EXCEPT ![u] = c]
  PROVE  ClientsTypeOK'
BY DEF ClientsTypeOK

\* A prompt that was opened has a client.
LEMMA PrompterIsClient ==
  ASSUME StoreInv, NEW m \in Prompts, media[m].stage # "unused"
  PROVE  media[m].by \in Clients
BY DEF StoreInv, PromptsHaveOwners, MediaTypeOK, Medium

\* startCall whose prompt is refused ends the call of the moment.
LEMMA StartDeniedEnds ==
  ASSUME StoreInv, NEW m \in Prompts, StartDenied(m)
  PROVE  media[m].by \in Clients /\ Ended(media[m].by)
<1> DEFINE u == media[m].by
<1>1. media[m].stage # "unused" /\ u \in Clients
  BY PrompterIsClient DEF StartDenied, Prompting
<1>2. strayed' \in SUBSET Clients /\ strayed \subseteq strayed'
  BY <1>1 DEF StoreInv, StartDenied, Strays
<1>3. /\ client[u].localStream = client[u].pc
      /\ client[u].pc \in Prompts => media[client[u].pc].by = u
  BY <1>1 DEF StoreInv, StoreIsOwn
<1> QED
  BY Zenon, <1>1, <1>2, <1>3, SettledEnds DEF StartDenied
\* Each action on the stores and the media: the user dials.
LEMMA StartCallStore ==
  ASSUME StoreInv, NEW u \in Clients, NEW v \in Clients, NEW m \in Prompts, StartCall(u, v, m)
  PROVE  StoreInv'
<1> USE DEF StoreInv, ClientsTypeOK, MediaTypeOK, Client, Medium
<1> USE DEF StartCall, Prompt, Unused, PromptsHaveOwners
<1>1. ClientsTypeOK' /\ MediaTypeOK' /\ (strayed \in SUBSET Clients)'
  <2>1. ClientsTypeOK'
    <3> DEFINE c == [client[u] EXCEPT !.status = "calling", !.peer = v, !.call = m]
    <3>1. client' = [client EXCEPT ![u] = c]
      BY Zenon
    <3>2. c \in Client
      BY ZenonT(120) DEF Statuses
    <3>3. ClientsTypeOK
      OBVIOUS
    <3> HIDE DEF c, StoreInv, ClientsTypeOK, MediaTypeOK, StartCall, PromptsHaveOwners, Client
    <3> QED
      BY Zenon, <3>1, <3>2, <3>3, OneClientTyped
  <2>2. MediaTypeOK'
    BY Zenon DEF Statuses, Stages
  <2>3. (strayed \in SUBSET Clients)'
    BY DEF Statuses, Stages
  <2> QED
    BY <2>1, <2>2, <2>3
<1>2. PromptsHaveOwners'
  BY DEF Stages
<1>3. StoreIsOwn'
  BY DEF StoreIsOwn
<1>4. OfferIsPeers'
  BY DEF OfferIsPeers, BeforeTheCall
<1>5. BeforeTheCall'
  BY DEF BeforeTheCall, StoreIsOwn
<1>6. RemotesAreMade'
  BY DEF RemotesAreMade
<1>7. PromptsAreOfTheCall'
  BY DEF PromptsAreOfTheCall
<1>8. MediaIsInStore'
  BY DEF MediaIsInStore
<1>9. TalksToPeer'
  BY DEF TalksToPeer, StoreIsOwn, BeforeTheCall, RemotesAreMade, MediaIsInStore
<1> QED
  BY <1>1, <1>2, <1>3, <1>4, <1>5, <1>6, <1>7, <1>8, <1>9

\* The user accepts.
LEMMA AcceptStore ==
  ASSUME StoreInv, NEW u \in Clients, NEW m \in Prompts, Accept(u, m)
  PROVE  StoreInv'
<1> USE DEF StoreInv, ClientsTypeOK, MediaTypeOK, Client, Medium
<1> USE DEF Accept, Prompt, Unused, PromptsHaveOwners
<1>1. ClientsTypeOK' /\ MediaTypeOK' /\ (strayed \in SUBSET Clients)'
  BY Zenon DEF Statuses, Stages
<1>2. PromptsHaveOwners'
  BY DEF Stages
<1>3. StoreIsOwn'
  BY DEF StoreIsOwn
<1>4. OfferIsPeers'
  BY DEF OfferIsPeers, BeforeTheCall
<1>5. BeforeTheCall'
  BY DEF BeforeTheCall, StoreIsOwn
<1>6. RemotesAreMade'
  BY DEF RemotesAreMade
<1>7. PromptsAreOfTheCall'
  BY DEF PromptsAreOfTheCall
<1>8. MediaIsInStore'
  BY DEF MediaIsInStore
<1>9. TalksToPeer'
  BY DEF TalksToPeer, StoreIsOwn, BeforeTheCall, RemotesAreMade, MediaIsInStore
<1> QED
  BY <1>1, <1>2, <1>3, <1>4, <1>5, <1>6, <1>7, <1>8, <1>9

\* The caller's prompt is granted.
LEMMA StartGrantedStore ==
  ASSUME StoreInv, NEW m \in Prompts, StartGranted(m)
  PROVE  StoreInv'
<1> USE DEF StoreInv, ClientsTypeOK, MediaTypeOK, Client, Medium
<1> USE DEF StartGranted, Granted, Prompting
<1>0. media[m].by \in Clients /\ media[m].stage # "unused"
  BY PrompterIsClient DEF Prompting
<1>1. ClientsTypeOK' /\ MediaTypeOK' /\ (strayed \in SUBSET Clients)'
  <2>1. ClientsTypeOK'
    BY <1>0 DEF Statuses, Stages, Strays
  <2>2. MediaTypeOK'
    <3> DEFINE n == [media[m] EXCEPT !.stage = "describing", !.live = TRUE, !.open = TRUE,
                                     !.remote = None]
    <3>1. media' = [media EXCEPT ![m] = n]
      BY Zenon
    <3>2. n \in Medium
      BY ZenonT(120), <1>0 DEF Stages
    <3> HIDE DEF n
    <3> QED
      BY ZenonT(120), <3>1, <3>2
  <2>3. (strayed \in SUBSET Clients)'
    BY <1>0 DEF Statuses, Stages, Strays
  <2> QED
    BY Zenon, <2>1, <2>2, <2>3
<1>2. PromptsHaveOwners'
  BY <1>0 DEF PromptsHaveOwners
<1>3. StoreIsOwn'
  BY <1>0 DEF StoreIsOwn
<1>4. OfferIsPeers'
  BY <1>0 DEF OfferIsPeers
<1>5. BeforeTheCall'
  BY <1>0 DEF BeforeTheCall, StoreIsOwn
<1>6. RemotesAreMade'
  BY <1>0 DEF RemotesAreMade
<1>7. PromptsAreOfTheCall'
  BY <1>0, PrompterIsClient DEF PromptsAreOfTheCall
<1>8. MediaIsInStore'
  BY <1>0 DEF MediaIsInStore, Strays, LeftOver, PromptsAreOfTheCall
<1>9. TalksToPeer'
  <2>1. /\ \A x \in Prompts : media'[x].by = media[x].by
        /\ \A x \in Prompts \ {m} : media'[x].remote = media[x].remote
        /\ media'[m].remote = None
    BY <1>0
  <2>2. /\ \A w \in Clients : client'[w].peer = client[w].peer
        /\ \A w \in Clients : client'[w].pc \in {client[w].pc, m}
        /\ strayed \subseteq strayed'
    BY <1>0 DEF Strays
  <2>3. /\ \A w \in Clients : client[w].pc # None => client[w].pc \in Prompts
        /\ \A x \in Prompts : media[x].remote # None => media[x].remote \in Prompts
    OBVIOUS
  <2>4. TalksToPeer
    OBVIOUS
  <2> HIDE DEF StoreInv, ClientsTypeOK, MediaTypeOK, Client, Medium, StartGranted, Granted
  <2> QED
    BY <2>1, <2>2, <2>3, <2>4 DEF TalksToPeer
<1> QED
  BY Zenon, <1>1, <1>2, <1>3, <1>4, <1>5, <1>6, <1>7, <1>8, <1>9

\* The callee's prompt is granted: the pending offer becomes the remote description.
LEMMA AcceptGrantedStore ==
  ASSUME StoreInv, NEW m \in Prompts, AcceptGranted(m)
  PROVE  StoreInv'
<1> USE DEF StoreInv, ClientsTypeOK, MediaTypeOK, Client, Medium
<1> USE DEF AcceptGranted, Granted, Prompting
<1>0. media[m].by \in Clients /\ media[m].stage # "unused"
  BY PrompterIsClient DEF Prompting
<1>1. ClientsTypeOK' /\ MediaTypeOK' /\ (strayed \in SUBSET Clients)'
  <2>1. ClientsTypeOK'
    BY <1>0 DEF Statuses, Stages, Strays
  <2>2. MediaTypeOK'
    <3> DEFINE n == [media[m] EXCEPT !.stage = "describing", !.live = TRUE, !.open = TRUE,
                                     !.remote = client[media[m].by].pendingOffer]
    <3>1. media' = [media EXCEPT ![m] = n]
      BY Zenon
    <3>2. n \in Medium
      BY ZenonT(120), <1>0 DEF Stages
    <3> HIDE DEF n
    <3> QED
      BY ZenonT(120), <3>1, <3>2
  <2>3. (strayed \in SUBSET Clients)'
    BY <1>0 DEF Statuses, Stages, Strays
  <2> QED
    BY Zenon, <2>1, <2>2, <2>3
<1>2. PromptsHaveOwners'
  BY <1>0 DEF PromptsHaveOwners
<1>3. StoreIsOwn'
  BY <1>0 DEF StoreIsOwn
<1>4. OfferIsPeers'
  BY <1>0 DEF OfferIsPeers
<1>5. BeforeTheCall'
  <2>1. /\ \A w \in Clients \ {media[m].by} : client'[w] = client[w]
        /\ client'[media[m].by].status = "connecting"
        /\ \A x \in Prompts : media'[x].kind = media[x].kind
    BY <1>0
  <2>2. \A w \in Clients : client[w].pc # None => client[w].pc \in Prompts
    OBVIOUS
  <2>3. BeforeTheCall
    OBVIOUS
  <2> HIDE DEF StoreInv, ClientsTypeOK, MediaTypeOK, Client, Medium, AcceptGranted, Granted
  <2> QED
    BY <2>1, <2>2, <2>3 DEF BeforeTheCall
<1>6. RemotesAreMade'
  BY <1>0 DEF RemotesAreMade, OfferIsPeers
<1>7. PromptsAreOfTheCall'
  BY <1>0, PrompterIsClient DEF PromptsAreOfTheCall
<1>8. MediaIsInStore'
  BY <1>0 DEF MediaIsInStore, Strays, LeftOver
<1>9. TalksToPeer'
  <2>0. PICK u \in Clients : u = media[m].by
    BY <1>0
  <2> DEFINE c == [client[u] EXCEPT !.localStream = m, !.status = "connecting", !.pc = m]
  <2>1. client' = [client EXCEPT ![u] = c] /\ c.pc = m /\ c.peer = client[u].peer
    <3>1. client' = [client EXCEPT ![u] = c]
      BY Zenon, <2>0
    <3>2. client[u] \in Client
      OBVIOUS
    <3> HIDE DEF AcceptGranted, StoreInv
    <3>3. c.pc = m /\ c.peer = client[u].peer
      BY <3>2
    <3> QED
      BY <3>1, <3>3
  <2>2. \A x \in Prompts : media'[x].by = media[x].by
    OBVIOUS
  <2>3. \A x \in Prompts \ {m} : media'[x].remote = media[x].remote
    OBVIOUS
  <2>4. media'[m].remote = client[u].pendingOffer /\ client[u].pendingOffer \in Prompts
    BY <1>0, <2>0
  <2>5. media[client[u].pendingOffer].by = client[u].peer
    BY <1>0, <2>0, <2>4 DEF OfferIsPeers
  <2>6. TalksTo(u)'
    <3>1. client'[u].pc = m /\ client'[u].peer = client[u].peer
      BY <1>0, <2>0, <2>1
    <3> HIDE DEF AcceptGranted, Granted, StoreInv, MediaTypeOK, Medium
    <3> QED
      BY <2>2, <2>4, <2>5, <3>1 DEF TalksTo
  <2>7. ASSUME NEW w \in Clients, w # u
        PROVE  TalksTo(w)'
    <3>1. client'[w] = client[w]
      BY <2>1, <2>7, <1>0, <2>0
    <3>2. client[w].pc # None => client[w].pc # m /\ client[w].pc \in Prompts
      BY <2>0, <2>7 DEF StoreIsOwn
    <3>3. w \in strayed => w \in strayed'
      BY DEF Strays
    <3>4. TalksTo(w)
      BY DEF TalksToPeer, TalksTo
    <3>5. \A x \in Prompts : media[x].remote # None => media[x].remote \in Prompts
      OBVIOUS
    <3> HIDE DEF AcceptGranted, Granted, StoreInv, MediaTypeOK, Medium
    <3> QED
      BY <2>2, <2>3, <3>1, <3>2, <3>3, <3>4, <3>5 DEF TalksTo
  <2> HIDE DEF AcceptGranted, Granted, StoreInv, MediaTypeOK, Medium
  <2> QED
    BY <2>6, <2>7 DEF TalksToPeer, TalksTo
<1> QED
  BY Zenon, <1>1, <1>2, <1>3, <1>4, <1>5, <1>6, <1>7, <1>8, <1>9

\* ... so does accept that fails.
LEMMA AcceptFailsEnds ==
  ASSUME StoreInv, NEW m \in Prompts, AcceptFails(m)
  PROVE  media[m].by \in Clients /\ Ended(media[m].by)
<1> DEFINE u == media[m].by
<1>1. media[m].stage # "unused" /\ u \in Clients
  BY PrompterIsClient DEF AcceptFails, Prompting
<1>2. strayed' \in SUBSET Clients /\ strayed \subseteq strayed'
  BY <1>1 DEF StoreInv, AcceptFails, Strays
<1>3. /\ client[u].localStream = client[u].pc
      /\ client[u].pc \in Prompts => media[client[u].pc].by = u
  BY <1>1 DEF StoreInv, StoreIsOwn
<1>4. CASE media' = Released([media EXCEPT ![m].stage = "settled"], u,
                             client[u].localStream, client[u].pc)
  BY Zenon, <1>1, <1>2, <1>3, <1>4, SettledEnds DEF AcceptFails
<1>5. CASE media' = Released([media EXCEPT ![m].stage = "settled"], u, m, m)
  <2>1. u \notin strayed' => client[u].pc = None
    BY <1>1 DEF AcceptFails, Strays, LeftOver
  <2> QED
    BY Zenon, <1>1, <1>2, <2>1, <1>5, SettledEnds DEF AcceptFails
<1> QED
  BY <1>1, <1>4, <1>5 DEF AcceptFails

\* ... so does an offer made for a connection that is not the store's any more.
LEMMA OfferMadeEnds ==
  ASSUME StoreInv, NEW m \in Prompts, OfferMade(m), client[media[m].by].pc # m
  PROVE  media[m].by \in Clients /\ Ended(media[m].by)
<1> DEFINE u == media[m].by
<1>1. media[m].stage # "unused" /\ u \in Clients
  BY PrompterIsClient DEF OfferMade
<1>2. strayed' \in SUBSET Clients /\ strayed \subseteq strayed'
  BY DEF StoreInv, OfferMade
<1>3. /\ client[u].localStream = client[u].pc
      /\ client[u].pc \in Prompts => media[client[u].pc].by = u
  BY <1>1 DEF StoreInv, StoreIsOwn
<1> QED
  BY <1>1, <1>2, <1>3, SettledEnds DEF OfferMade

\* ... so does an answer that cannot be made.
LEMMA AnswerMadeEnds ==
  ASSUME StoreInv, NEW m \in Prompts, AnswerMade(m), ~Answerable(client[media[m].by].pc)
  PROVE  media[m].by \in Clients /\ Ended(media[m].by)
<1> DEFINE u == media[m].by
<1>1. media[m].stage # "unused" /\ u \in Clients
  BY PrompterIsClient DEF AnswerMade
<1>2. strayed' \in SUBSET Clients /\ strayed \subseteq strayed'
  BY DEF StoreInv, AnswerMade
<1>3. /\ client[u].localStream = client[u].pc
      /\ client[u].pc \in Prompts => media[client[u].pc].by = u
  BY <1>1 DEF StoreInv, StoreIsOwn
<1> QED
  BY <1>1, <1>2, <1>3, SettledEnds DEF AnswerMade

\* ... so does a connection that fails.
LEMMA ConnectionFailsEnds ==
  ASSUME StoreInv, NEW m \in Prompts, ConnectionFails(m)
  PROVE  media[m].by \in Clients /\ Ended(media[m].by)
<1> DEFINE u == media[m].by
           M == [media EXCEPT ![m].open = FALSE]
<1>1. media[m].stage # "unused" /\ u \in Clients
  BY PrompterIsClient DEF ConnectionFails, StoreInv, PromptsHaveOwners
<1>2. strayed' \in SUBSET Clients /\ strayed \subseteq strayed'
  BY DEF StoreInv, ConnectionFails
<1>3. /\ client[u].localStream = client[u].pc
      /\ client[u].pc \in Prompts => media[client[u].pc].by = u
  BY <1>1 DEF StoreInv, StoreIsOwn
<1>4. M \in [Prompts -> Medium]
  BY ZenonT(120) DEF StoreInv, MediaTypeOK, Medium
<1>5. \A x \in Prompts : WindsUp(M, u, x)
  BY DEF StoreInv, MediaTypeOK, Medium, WindsUp
<1>6. media' = Released(M, u, client[u].pc, client[u].pc) /\ client' = [client EXCEPT ![u] = Idle]
  BY <1>3 DEF ConnectionFails
<1> HIDE DEF M
<1> QED
  BY Zenon, <1>1, <1>2, <1>3, <1>4, <1>5, <1>6, ReleasedEnds

\* The offer is made on the connection in the store.
LEMMA OfferMadeStore ==
  ASSUME StoreInv, NEW m \in Prompts, OfferMade(m), client[media[m].by].pc = m
  PROVE  StoreInv'
<1> USE DEF StoreInv, ClientsTypeOK, MediaTypeOK, Client, Medium
<1> USE DEF OfferMade
<1>0. media[m].by \in Clients /\ media[m].stage # "unused"
  BY PrompterIsClient
<1>1. ClientsTypeOK' /\ MediaTypeOK' /\ (strayed \in SUBSET Clients)'
  BY <1>0 DEF Statuses, Stages
<1>2. PromptsHaveOwners'
  BY <1>0 DEF PromptsHaveOwners
<1>3. StoreIsOwn'
  BY DEF StoreIsOwn
<1>4. OfferIsPeers'
  BY DEF OfferIsPeers
<1>5. BeforeTheCall'
  BY DEF BeforeTheCall
<1>6. RemotesAreMade'
  BY DEF RemotesAreMade
<1>7. PromptsAreOfTheCall'
  BY DEF PromptsAreOfTheCall
<1>8. MediaIsInStore'
  BY DEF MediaIsInStore
<1>9. TalksToPeer'
  BY DEF TalksToPeer
<1> QED
  BY <1>1, <1>2, <1>3, <1>4, <1>5, <1>6, <1>7, <1>8, <1>9

\* An answer has been applied.
LEMMA AnswerAppliedStore ==
  ASSUME StoreInv, NEW m \in Prompts, AnswerApplied(m)
  PROVE  StoreInv'
<1> USE DEF StoreInv, ClientsTypeOK, MediaTypeOK, Client, Medium
<1> USE DEF AnswerApplied
<1>0. media[m].by \in Clients /\ media[m].stage # "unused"
  BY PrompterIsClient DEF PromptsHaveOwners
<1>1. ClientsTypeOK' /\ MediaTypeOK' /\ (strayed \in SUBSET Clients)'
  <2>1. ClientsTypeOK'
    BY <1>0 DEF Statuses, Stages
  <2>2. MediaTypeOK'
    <3>1. media' = [media EXCEPT ![m].settling = FALSE]
      OBVIOUS
    <3>2. [media[m] EXCEPT !.settling = FALSE] \in Medium
      BY ZenonT(120)
    <3> QED
      BY <3>1, <3>2
  <2>3. (strayed \in SUBSET Clients)'
    BY <1>0 DEF Statuses, Stages
  <2> QED
    BY <2>1, <2>2, <2>3
<1>2. PromptsHaveOwners'
  BY <1>0 DEF PromptsHaveOwners
<1>3. StoreIsOwn'
  BY <1>0 DEF StoreIsOwn
<1>4. OfferIsPeers'
  BY <1>0 DEF OfferIsPeers
<1>5. BeforeTheCall'
  BY <1>0 DEF BeforeTheCall
<1>6. RemotesAreMade'
  BY <1>0 DEF RemotesAreMade
<1>7. PromptsAreOfTheCall'
  BY <1>0 DEF PromptsAreOfTheCall
<1>8. MediaIsInStore'
  BY <1>0 DEF MediaIsInStore
<1>9. TalksToPeer'
  BY <1>0 DEF TalksToPeer
<1> QED
  BY <1>1, <1>2, <1>3, <1>4, <1>5, <1>6, <1>7, <1>8, <1>9

\* A connection comes about.
LEMMA ConnectsStore ==
  ASSUME StoreInv, NEW m \in Prompts, Connects(m)
  PROVE  StoreInv'
<1> USE DEF StoreInv, ClientsTypeOK, MediaTypeOK, Client, Medium
<1> USE DEF Connects
<1>0. media[m].by \in Clients /\ media[m].stage # "unused"
  BY PrompterIsClient DEF PromptsHaveOwners, Matched
<1>1. ClientsTypeOK' /\ MediaTypeOK' /\ (strayed \in SUBSET Clients)'
  BY <1>0 DEF Statuses, Stages
<1>2. PromptsHaveOwners'
  BY <1>0 DEF PromptsHaveOwners
<1>3. StoreIsOwn'
  BY <1>0 DEF StoreIsOwn
<1>4. OfferIsPeers'
  BY <1>0 DEF OfferIsPeers
<1>5. BeforeTheCall'
  BY <1>0 DEF BeforeTheCall
<1>6. RemotesAreMade'
  BY <1>0 DEF RemotesAreMade
<1>7. PromptsAreOfTheCall'
  BY <1>0 DEF PromptsAreOfTheCall
<1>8. MediaIsInStore'
  BY <1>0 DEF MediaIsInStore
<1>9. TalksToPeer'
  BY <1>0 DEF TalksToPeer
<1> QED
  BY <1>1, <1>2, <1>3, <1>4, <1>5, <1>6, <1>7, <1>8, <1>9

\* The answer is made on the connection in the store.
LEMMA AnswerMadeStore ==
  ASSUME StoreInv, NEW m \in Prompts, AnswerMade(m), Answerable(client[media[m].by].pc)
  PROVE  StoreInv'
<1> USE DEF StoreInv, ClientsTypeOK, MediaTypeOK, Client, Medium
<1>0. PICK u \in Clients : u = media[m].by
  BY ZenonT(120), PrompterIsClient DEF AnswerMade
<1>a. client' = [client EXCEPT ![u].pendingOffer = None] /\ strayed' = strayed
  BY ZenonT(120), <1>0 DEF AnswerMade
<1>b. /\ media' \in [Prompts -> Medium]
      /\ \A x \in Prompts :
           /\ media'[x].by = media[x].by /\ media'[x].kind = media[x].kind
           /\ media'[x].remote = media[x].remote /\ media'[x].settling = media[x].settling
           /\ media'[x].live = media[x].live /\ media'[x].open = media[x].open
           /\ media'[x].stage = IF x = m THEN "settled" ELSE media[x].stage
           /\ media'[x].stage = "unused" => (media'[x].described <=> media[x].described)
  <2>1. client[u].pc \in Prompts /\ media[m].stage # "unused" /\ media[client[u].pc].stage # "unused"
    BY ZenonT(120), <1>0 DEF AnswerMade, Answerable, StoreIsOwn, PromptsHaveOwners
  <2>2. media' = AnsweredMedia(media, m, client[u].pc)
    BY Zenon, <1>0 DEF AnswerMade, AnsweredMedia
  <2> QED
    BY <2>1, <2>2, AnsweredFields
<1>c. media[m].stage # "unused"
  BY Zenon DEF AnswerMade
<1>1. ClientsTypeOK' /\ MediaTypeOK' /\ (strayed \in SUBSET Clients)'
  <2>1. [client[u] EXCEPT !.pendingOffer = None] \in Client
    OBVIOUS
  <2> HIDE DEF Client, Medium
  <2>2. client' = [client EXCEPT ![u] = [client[u] EXCEPT !.pendingOffer = None]]
    BY <1>a
  <2> QED
    BY <1>a, <1>b, <2>1, <2>2
<1>2. PromptsHaveOwners'
  BY <1>b, <1>c DEF PromptsHaveOwners
<1>3. StoreIsOwn'
  BY <1>a, <1>b DEF StoreIsOwn
<1>4. OfferIsPeers'
  BY <1>a, <1>b DEF OfferIsPeers
<1>5. BeforeTheCall'
  <2>1. client[u].status # "incoming"
    BY <1>0 DEF BeforeTheCall, Answerable
  <2> QED
    BY <1>a, <1>b, <2>1 DEF BeforeTheCall
<1>6. RemotesAreMade'
  BY <1>b DEF RemotesAreMade
<1>7. PromptsAreOfTheCall'
  BY <1>a, <1>b DEF PromptsAreOfTheCall, PromptsHaveOwners
<1>8. MediaIsInStore'
  BY <1>a, <1>b DEF MediaIsInStore
<1>9. TalksToPeer'
  BY <1>a, <1>b DEF TalksToPeer
<1> QED
  BY <1>1, <1>2, <1>3, <1>4, <1>5, <1>6, <1>7, <1>8, <1>9

\* No prompt that has an owner changes it from the media M to N.
Passes(M, N) == \A m \in Prompts : M[m].by # None => N[m].by = M[m].by

\* What holds of frames while prompts keep their owners, and on longer and shorter queues.
LEMMA FrameStays ==
  ASSUME NEW M, NEW N, Passes(M, N), NEW f \in Frame, Describes(M, f)
  PROVE  Describes(N, f)
BY DEF Passes, Describes, Frame

LEMMA FramesStay ==
  ASSUME NEW M, NEW N, Passes(M, N), NEW s \in Seq(Frame), AllDescribe(M, s)
  PROVE  AllDescribe(N, s)
BY FrameStays DEF AllDescribe

LEMMA FramesAppend ==
  ASSUME NEW M, NEW s \in Seq(Frame), AllDescribe(M, s), NEW f \in Frame, Describes(M, f)
  PROVE  Append(s, f) \in Seq(Frame) /\ AllDescribe(M, Append(s, f))
BY DEF AllDescribe

LEMMA FramesTail ==
  ASSUME NEW M, NEW s \in Seq(Frame), AllDescribe(M, s), s # <<>>
  PROVE  Tail(s) \in Seq(Frame) /\ AllDescribe(M, Tail(s))
BY DEF AllDescribe

LEMMA FramesHead ==
  ASSUME NEW M, NEW s \in Seq(Frame), AllDescribe(M, s), s # <<>>
  PROVE  Head(s) \in Frame /\ Describes(M, Head(s))
BY DEF AllDescribe

LEMMA FramesConcat ==
  ASSUME NEW M, NEW s \in Seq(Frame), NEW t \in Seq(Frame), AllDescribe(M, s), AllDescribe(M, t)
  PROVE  s \o t \in Seq(Frame) /\ AllDescribe(M, s \o t)
BY DEF AllDescribe

LEMMA NoFrames ==
  ASSUME NEW M
  PROVE  <<>> \in Seq(Frame) /\ AllDescribe(M, <<>>)
BY DEF AllDescribe

\* The frame a client takes next is well formed.
LEMMA HeadDescribes ==
  ASSUME NetInv, NEW u \in Clients, inbox[u] # <<>>
  PROVE  Head(inbox[u]) \in Frame /\ Describes(media, Head(inbox[u]))
BY FramesHead DEF NetInv, InboxOK

\* A client takes an offer.
LEMMA OnOfferStore ==
  ASSUME StoreInv, NetInv, NEW u \in Clients, OnOffer(u)
  PROVE  StoreInv'
<1> DEFINE f == Head(inbox[u])
<1>1. f \in Frame /\ f.sdp \in Prompts /\ media[f.sdp].by = f.from /\ f.from \in Clients
      /\ f.call \in Prompts \cup {None}
  BY HeadDescribes DEF OnOffer, Describes, Frame
<1>2. media' = media /\ strayed' = strayed
  BY DEF OnOffer
<1>3. CASE client' = client
  BY <1>2, <1>3
     DEF StoreInv, ClientsTypeOK, MediaTypeOK, PromptsHaveOwners, StoreIsOwn, OfferIsPeers,
    BeforeTheCall, RemotesAreMade, PromptsAreOfTheCall, MediaIsInStore, TalksToPeer
<1>4. CASE client[u].status = "idle"
  <2> DEFINE c == [client[u] EXCEPT !.status = "incoming", !.peer = f.from,
                                    !.pendingOffer = f.sdp, !.call = f.call]
  <2>1. client' = [client EXCEPT ![u] = c]
    BY Zenon, <1>4 DEF OnOffer
  <2>2. client[u] \in Client /\ ClientsTypeOK
    BY DEF StoreInv, ClientsTypeOK
  <2> HIDE DEF f
  <2>3. /\ c \in Client /\ c.status = "incoming" /\ c.peer = f.from /\ c.pendingOffer = f.sdp
        /\ c.localStream = client[u].localStream /\ c.pc = client[u].pc
    BY Zenon, <1>1, <2>2 DEF Client, Statuses
  <2> HIDE DEF c
  <2>4. ClientsTypeOK'
    BY Zenon, <2>1, <2>2, <2>3, OneClientTyped
  <2> USE DEF StoreInv
  <2>5. client'[u] = c /\ \A w \in Clients : w # u => client'[w] = client[w]
    BY <2>1 DEF ClientsTypeOK
  <2>6. MediaTypeOK' /\ PromptsHaveOwners' /\ RemotesAreMade' /\ (strayed \in SUBSET Clients)'
    BY <1>2 DEF MediaTypeOK, PromptsHaveOwners, RemotesAreMade
  <2>7. StoreIsOwn'
    BY <1>2, <2>3, <2>5 DEF StoreIsOwn
  <2>8. OfferIsPeers'
    BY <1>1, <1>2, <2>3, <2>5 DEF OfferIsPeers
  <2>9. BeforeTheCall'
    BY <1>1, <1>2, <1>4, <2>3, <2>5 DEF BeforeTheCall
  <2>10. PromptsAreOfTheCall'
    BY <1>2, <2>3, <2>5, PrompterIsClient DEF PromptsAreOfTheCall
  <2>11. MediaIsInStore'
    BY <1>2, <2>3, <2>5 DEF MediaIsInStore
  <2>12. TalksToPeer'
    BY <1>2, <1>4, <2>3, <2>5 DEF TalksToPeer, MediaIsInStore
  <2> QED
    BY <2>4, <2>6, <2>7, <2>8, <2>9, <2>10, <2>11, <2>12
<1> QED
  BY <1>3, <1>4 DEF OnOffer

\* A client takes an answer and applies it.
LEMMA OnAnswerStore ==
  ASSUME StoreInv, NetInv, NEW u \in Clients, OnAnswer(u), Admitted(u, Head(inbox[u])), Unanswered(u)
  PROVE  StoreInv'
<1> USE DEF StoreInv
<1> DEFINE f == Head(inbox[u])
           p == client[u].pc
<1>1. f \in Frame /\ f.sdp \in Prompts /\ media[f.sdp].by = f.from /\ f.from \in Clients
  BY HeadDescribes DEF OnAnswer, Describes, Frame
<1>2. client' = client /\ p \in Prompts /\ media[p].by = u
  BY DEF OnAnswer, Unanswered, ClientsTypeOK, Client, StoreIsOwn
<1>3. strayed \subseteq strayed' /\ (strayed \in SUBSET Clients)'
  BY DEF OnAnswer, Strays
<1>4. media' = [media EXCEPT ![p].remote = f.sdp, ![p].settling = TRUE]
  BY DEF OnAnswer
<1>5. client[u].peer \in {None, f.from}
  BY DEF Admitted
<1> HIDE DEF f
<1>6. /\ MediaTypeOK'
      /\ \A x \in Prompts :
           /\ media'[x].by = media[x].by /\ media'[x].kind = media[x].kind
           /\ media'[x].stage = media[x].stage
           /\ media'[x].live = media[x].live /\ media'[x].open = media[x].open
           /\ x # p => media'[x].remote = media[x].remote /\ media'[x].settling = media[x].settling
           /\ media'[x].described = media[x].described
      /\ media'[p].remote = f.sdp
  <2> DEFINE n == [media[p] EXCEPT !.remote = f.sdp, !.settling = TRUE]
  <2>1. media' = [media EXCEPT ![p] = n]
    BY Zenon, <1>4
  <2>2. /\ n \in Medium /\ n.by = media[p].by /\ n.kind = media[p].kind /\ n.stage = media[p].stage
        /\ n.live = media[p].live /\ n.open = media[p].open /\ n.described = media[p].described
        /\ n.remote = f.sdp
    <3>1. media[p] \in Medium
      BY <1>2 DEF MediaTypeOK
    <3> QED
      BY Zenon, <1>1, <3>1 DEF Medium
  <2> HIDE DEF n
  <2> QED
    BY <1>2, <2>1, <2>2 DEF MediaTypeOK
<1>7. \A x \in Prompts : media[x] \in Medium /\ media'[x] \in Medium
  BY <1>6 DEF MediaTypeOK
<1>8. ClientsTypeOK' /\ StoreIsOwn' /\ OfferIsPeers' /\ BeforeTheCall' /\ PromptsAreOfTheCall' /\ MediaIsInStore'
  BY <1>2, <1>3, <1>6, <1>7
     DEF ClientsTypeOK, Client, Medium, StoreIsOwn, OfferIsPeers, BeforeTheCall,
           PromptsAreOfTheCall, MediaIsInStore
<1>9. PromptsHaveOwners'
  BY <1>2, <1>6 DEF PromptsHaveOwners
<1>10. RemotesAreMade'
  BY <1>1, <1>2, <1>6, <1>7 DEF RemotesAreMade, Medium
<1>11. TalksToPeer'
  BY <1>1, <1>2, <1>3, <1>5, <1>6, <1>7
     DEF TalksToPeer, StoreIsOwn, ClientsTypeOK, Client, Medium
<1> QED
  BY <1>3, <1>6, <1>8, <1>9, <1>10, <1>11
-----------------------------------------------------------------------------
(* A step of the specification on the stores and the media. *)

\* A client hangs up, declines, or is told that the call is over.
LEMMA EndsStore ==
  ASSUME StoreInv, NetInv, NEW u \in Clients, HangUp(u) \/ Decline(u) \/ (OnEnd(u) /\ Reset(u))
  PROVE  Ended(u)
<1>1. Reset(u)
  BY DEF HangUp, Decline
<1>2. strayed' \in SUBSET Clients /\ strayed \subseteq strayed'
  BY DEF HangUp, Decline, OnEnd, Strays, StoreInv
<1> QED
  BY <1>1, <1>2, ResetEnds

\* A step elsewhere.
LEMMA IdleStore ==
  ASSUME StoreInv, UNCHANGED <<client, media, strayed>>
  PROVE  StoreInv'
BY DEF StoreInv, ClientsTypeOK, MediaTypeOK, PromptsHaveOwners, StoreIsOwn, OfferIsPeers,
       BeforeTheCall, RemotesAreMade, PromptsAreOfTheCall, MediaIsInStore, TalksToPeer

\* Every step keeps StoreInv.
LEMMA StoreStep ==
  ASSUME StoreInv, NetInv, [Next]_vars
  PROVE  StoreInv'
<1>1. ASSUME NEW u \in Clients, NEW v \in Clients, NEW m \in Prompts, StartCall(u, v, m)
      PROVE  StoreInv'
  BY <1>1, StartCallStore
<1>2. ASSUME NEW u \in Clients, NEW m \in Prompts, Accept(u, m)
      PROVE  StoreInv'
  BY <1>2, AcceptStore
<1>3. ASSUME NEW u \in Clients, HangUp(u) \/ Decline(u)
      PROVE  StoreInv'
  BY <1>3, EndsStore, EndedStore
<1>4. ASSUME NEW m \in Prompts,
             \/ StartGranted(m) \/ StartDenied(m) \/ AcceptGranted(m) \/ AcceptFails(m)
             \/ OfferMade(m) \/ AnswerMade(m) \/ AnswerApplied(m)
             \/ Connects(m) \/ ConnectionFails(m)
      PROVE  StoreInv'
  BY <1>4, StartGrantedStore, StartDeniedEnds, AcceptGrantedStore, AcceptFailsEnds,
     OfferMadeStore, OfferMadeEnds, AnswerMadeStore, AnswerMadeEnds, AnswerAppliedStore,
     ConnectsStore, ConnectionFailsEnds, EndedStore
<1>5. ASSUME NEW u \in Clients, OnOffer(u)
      PROVE  StoreInv'
  BY <1>5, OnOfferStore
<1>6. ASSUME NEW u \in Clients, OnAnswer(u)
      PROVE  StoreInv'
  <2>1. CASE Admitted(u, Head(inbox[u])) /\ Unanswered(u)
    BY <1>6, <2>1, OnAnswerStore
  <2>2. CASE ~(Admitted(u, Head(inbox[u])) /\ Unanswered(u))
    BY <1>6, <2>2, IdleStore DEF OnAnswer
  <2> QED
    BY <2>1, <2>2
<1>7. ASSUME NEW u \in Clients, OnEnd(u)
      PROVE  StoreInv'
  <2>1. CASE Reset(u)
    BY <1>7, <2>1, EndsStore, EndedStore
  <2>2. CASE UNCHANGED <<client, media, strayed>>
    BY <2>2, IdleStore
  <2> QED
    BY <1>7, <2>1, <2>2 DEF OnEnd
<1>8. CASE Server
  BY Zenon, <1>8, IdleStore
     DEF Server, FanOut, Buffer, BufferExpires, Drop, Reconnect, ReadBuffer,
           DeliverBuffered
<1>9. CASE UNCHANGED vars
  BY <1>9, IdleStore DEF vars
<1> QED
  BY <1>1, <1>2, <1>3, <1>4, <1>5, <1>6, <1>7, <1>8, <1>9 DEF Next, User, Browser, Signals

-----------------------------------------------------------------------------
(* The frames. *)

\* Who opened a prompt does not change.
OwnersStay == Passes(media, media')

\* Leaving a call changes no owner.
LEMMA EndedKeepsOwners ==
  ASSUME NEW u, Ended(u)
  PROVE  OwnersStay
BY DEF Ended, OwnersStay, Passes

\* Nor does any other step.
LEMMA OwnersStep ==
  ASSUME StoreInv, NetInv, [Next]_vars
  PROVE  OwnersStay
<1> USE DEF StoreInv, MediaTypeOK, OwnersStay, Passes
<1>1. ASSUME NEW u \in Clients, NEW m \in Prompts, Prompt(u, m, "start") \/ Prompt(u, m, "accept")
      PROVE  OwnersStay
  BY <1>1 DEF Prompt, PromptsHaveOwners
<1>2. ASSUME NEW u \in Clients, HangUp(u) \/ Decline(u)
      PROVE  OwnersStay
  BY <1>2, EndsStore, EndedKeepsOwners
<1>3. ASSUME NEW m \in Prompts, StartDenied(m) \/ AcceptFails(m) \/ ConnectionFails(m)
      PROVE  OwnersStay
  BY <1>3, AcceptFailsEnds, ConnectionFailsEnds, StartDeniedEnds, EndedKeepsOwners
<1>4. ASSUME NEW m \in Prompts, StartGranted(m) \/ AcceptGranted(m)
      PROVE  OwnersStay
  BY <1>4 DEF StartGranted, AcceptGranted, Granted, Medium
<1>5. ASSUME NEW m \in Prompts, OfferMade(m)
      PROVE  OwnersStay
  <2>1. CASE client[media[m].by].pc = m
    BY <1>5, <2>1 DEF OfferMade, Medium
  <2>2. CASE client[media[m].by].pc # m
    BY <1>5, <2>2, OfferMadeEnds, EndedKeepsOwners
  <2> QED
    BY <2>1, <2>2
<1>6. ASSUME NEW m \in Prompts, AnswerMade(m)
      PROVE  OwnersStay
  <2>1. CASE Answerable(client[media[m].by].pc)
    <3>1. media' = AnsweredMedia(media, m, client[media[m].by].pc)
      BY Zenon, <1>6, <2>1 DEF AnswerMade, AnsweredMedia
    <3> QED
      BY <3>1, AnsweredFields
  <2>2. CASE ~Answerable(client[media[m].by].pc)
    BY <1>6, <2>2, AnswerMadeEnds, EndedKeepsOwners
  <2> QED
    BY <2>1, <2>2
<1>7. ASSUME NEW m \in Prompts, AnswerApplied(m) \/ Connects(m)
      PROVE  OwnersStay
  BY <1>7 DEF AnswerApplied, Connects, Medium
<1>8. ASSUME NEW u \in Clients, OnOffer(u) \/ OnAnswer(u)
      PROVE  OwnersStay
  BY <1>8 DEF OnOffer, OnAnswer, Medium
<1>9. ASSUME NEW u \in Clients, OnEnd(u)
      PROVE  OwnersStay
  <2>1. CASE Reset(u)
    BY <1>9, <2>1, EndsStore, EndedKeepsOwners
  <2>2. CASE UNCHANGED media
    BY <2>2
  <2> QED
    BY <1>9, <2>1, <2>2 DEF OnEnd
<1>10. CASE UNCHANGED media
  BY <1>10
<1> QED
  BY ZenonT(120), <1>1, <1>2, <1>3, <1>4, <1>5, <1>6, <1>7, <1>8, <1>9, <1>10
     DEF Next, User, Browser, Signals, Server, vars, StartCall, Accept,
         FanOut, Buffer, BufferExpires, Drop, Reconnect, ReadBuffer, DeliverBuffered

\* A step that leaves a queue alone leaves it good.
LEMMA QueuesStay ==
  ASSUME NetInv, OwnersStay
  PROVE  /\ uplink' = uplink => UplinkOK'
         /\ inbox' = inbox => InboxOK'
         /\ buffer' = buffer => BufferOK'
         /\ relaying' = relaying => RelayingOK'
         /\ flushing' = flushing => FlushingOK'
         /\ up' = up /\ drops' = drops => SocketsOK'
<1>1. \A s \in Seq(Frame) : AllDescribe(media, s) => AllDescribe(media', s)
  BY FramesStay DEF OwnersStay
<1>2. \A f \in Frame : Describes(media, f) => Describes(media', f)
  BY FrameStays DEF OwnersStay
<1>3. uplink' = uplink => UplinkOK'
  BY <1>1 DEF NetInv, UplinkOK
<1>4. inbox' = inbox => InboxOK'
  BY <1>1 DEF NetInv, InboxOK
<1>5. buffer' = buffer => BufferOK'
  BY <1>1 DEF NetInv, BufferOK
<1>6. relaying' = relaying => RelayingOK'
  BY <1>2 DEF NetInv, RelayingOK
<1>7. flushing' = flushing => FlushingOK'
  BY <1>1 DEF NetInv, FlushingOK, Flush
<1>8. up' = up /\ drops' = drops => SocketsOK'
  BY DEF NetInv, SocketsOK
<1> QED
  BY <1>3, <1>4, <1>5, <1>6, <1>7, <1>8

\* What a client sends describes the connection it is about.
LEMMA SentFrame ==
  ASSUME NetInv, OwnersStay, NEW u \in Clients, NEW v \in Clients, NEW type \in FrameTypes,
         NEW sdp \in Prompts \cup {None}, NEW call \in Prompts \cup {None},
         type \in {"offer", "answer"} => sdp # None /\ media'[sdp].by = u,
         SendWs(u, v, type, sdp, call)
  PROVE  UplinkOK'
<1> DEFINE f == [type |-> type, from |-> u, to |-> v, sdp |-> sdp, call |-> call]
<1>1. f \in Frame /\ Describes(media', f)
  BY DEF Frame, Describes
<1>2. \A w \in Clients : uplink[w] \in Seq(Frame) /\ AllDescribe(media', uplink[w])
  BY FramesStay DEF NetInv, UplinkOK, OwnersStay
<1>3. Append(uplink[u], f) \in Seq(Frame) /\ AllDescribe(media', Append(uplink[u], f))
  BY <1>1, <1>2, FramesAppend
<1>4. uplink' = IF u \in up THEN [uplink EXCEPT ![u] = Append(@, f)] ELSE uplink
  BY DEF SendWs
<1> HIDE DEF f
<1> QED
  BY <1>2, <1>3, <1>4 DEF NetInv, UplinkOK

\* A client signals to its peer of the moment.
LEMMA SignalNet ==
  ASSUME StoreInv, NetInv, OwnersStay, NEW u \in Clients, NEW type \in FrameTypes,
         NEW sdp \in Prompts \cup {None},
         type \in {"offer", "answer"} => sdp # None /\ media'[sdp].by = u,
         Signal(u, type, sdp)
  PROVE  NetInv'
<1>1. UNCHANGED <<up, relaying, inbox, buffer, flushing, drops>>
  BY DEF Signal, downlink
<1>2. UplinkOK'
  <2>1. CASE client[u].peer = None
    BY <2>1, QueuesStay DEF Signal
  <2>2. CASE client[u].peer # None
    <3>1. client[u].peer \in Clients /\ client[u].call \in Prompts \cup {None}
      BY <2>2 DEF StoreInv, ClientsTypeOK, Client
    <3> QED
      BY <2>2, <3>1, SentFrame DEF Signal
  <2> QED
    BY <2>1, <2>2
<1> QED
  BY <1>1, <1>2, QueuesStay DEF NetInv

\* A client takes a frame.
LEMMA PoppedNet ==
  ASSUME NetInv, OwnersStay, NEW u \in Clients, inbox[u] # <<>>, Popped(u)
  PROVE  InboxOK'
<1>1. \A w \in Clients : inbox[w] \in Seq(Frame) /\ AllDescribe(media', inbox[w])
  BY FramesStay DEF NetInv, InboxOK, OwnersStay
<1>2. Tail(inbox[u]) \in Seq(Frame) /\ AllDescribe(media', Tail(inbox[u]))
  BY <1>1, FramesTail
<1> QED
  BY <1>1, <1>2 DEF Popped, NetInv, InboxOK

\* The backend moves frames.
LEMMA ServerNet ==
  ASSUME NetInv, OwnersStay, NEW u \in Clients, UNCHANGED media,
         \/ FanOut(u) \/ Buffer(u) \/ BufferExpires(u)
         \/ Drop(u) \/ Reconnect(u) \/ ReadBuffer(u) \/ DeliverBuffered(u)
  PROVE  NetInv'
<1>1. CASE FanOut(u)
  <2> DEFINE f == Head(uplink[u])
  <2>1. f \in Frame /\ Describes(media, f)
    BY <1>1, FramesHead DEF FanOut, NetInv, UplinkOK
  <2>2. Tail(uplink[u]) \in Seq(Frame) /\ AllDescribe(media, Tail(uplink[u]))
    BY <1>1, FramesTail DEF FanOut, NetInv, UplinkOK
  <2>3. f.to \in Clients
    BY <2>1 DEF Frame
  <2>4. Append(inbox[f.to], f) \in Seq(Frame) /\ AllDescribe(media, Append(inbox[f.to], f))
    BY <2>1, <2>3, FramesAppend DEF NetInv, InboxOK
  <2> HIDE DEF f
  <2>5. UplinkOK'
    BY <1>1, <2>2 DEF FanOut, NetInv, UplinkOK
  <2>6. RelayingOK'
    <3>1. relaying' = [relaying EXCEPT ![u] = f]
      BY <1>1 DEF FanOut, f
    <3> QED
      BY <2>1, <3>1 DEF NetInv, RelayingOK
  <2>7. InboxOK'
    <3>1. inbox' = IF f.to \in up THEN [inbox EXCEPT ![f.to] = Append(@, f)] ELSE inbox
      BY <1>1 DEF FanOut, f
    <3> QED
      BY <2>3, <2>4, <3>1 DEF NetInv, InboxOK
  <2> QED
    BY <1>1, <2>5, <2>6, <2>7, QueuesStay DEF FanOut, NetInv
<1>2. CASE Buffer(u)
  <2> DEFINE f == relaying[u]
  <2>1. f \in Frame /\ Describes(media, f) /\ f.to \in Clients /\ f.from \in Clients
    BY <1>2 DEF Buffer, NetInv, RelayingOK, Frame
  <2>2. Append(buffer[f.to], f) \in Seq(Frame) /\ AllDescribe(media, Append(buffer[f.to], f))
    BY <2>1, FramesAppend DEF NetInv, BufferOK
  <2>3. <<>> \in Seq(Frame) /\ AllDescribe(media, <<>>)
    BY NoFrames
  <2>4. RelayingOK'
    BY <1>2 DEF Buffer, NetInv, RelayingOK
  <2>5. \/ buffer' = [buffer EXCEPT ![f.to] = <<>>, ![f.from] = <<>>]
        \/ buffer' = [buffer EXCEPT ![f.to] = Append(@, f)]
    BY <1>2 DEF Buffer
  <2> HIDE DEF f
  <2>6. BufferOK'
    BY Zenon, <2>1, <2>2, <2>3, <2>5 DEF NetInv, BufferOK
  <2> QED
    BY <1>2, <2>4, <2>6, QueuesStay DEF Buffer, NetInv
<1>3. CASE BufferExpires(u)
  <2>1. BufferOK'
    BY <1>3, NoFrames DEF BufferExpires, NetInv, BufferOK
  <2> QED
    BY <1>3, <2>1, QueuesStay DEF BufferExpires, NetInv
<1>4. CASE Drop(u)
  <2>1. UplinkOK' /\ InboxOK'
    BY <1>4, NoFrames DEF Drop, NetInv, UplinkOK, InboxOK
  <2>2. FlushingOK'
    BY <1>4, NoFrames DEF Drop, NetInv, FlushingOK, Flush, Flushed
  <2>3. SocketsOK'
    BY <1>4, MaxDropsIsNat DEF Drop, NetInv, SocketsOK
  <2> QED
    BY <1>4, <2>1, <2>2, <2>3, QueuesStay DEF Drop, NetInv
<1>5. CASE Reconnect(u)
  <2>1. FlushingOK'
    BY <1>5 DEF Reconnect, NetInv, FlushingOK, Flush
  <2>2. SocketsOK'
    BY <1>5 DEF Reconnect, NetInv, SocketsOK
  <2> QED
    BY <1>5, <2>1, <2>2, QueuesStay DEF Reconnect, NetInv
<1>6. CASE ReadBuffer(u)
  <2>1. FlushingOK'
    BY <1>6 DEF ReadBuffer, NetInv, FlushingOK, Flush, BufferOK
  <2> QED
    BY <1>6, <2>1, QueuesStay DEF ReadBuffer, NetInv
<1>7. CASE DeliverBuffered(u)
  <2>1. FlushingOK'
    BY <1>7, NoFrames DEF DeliverBuffered, NetInv, FlushingOK, Flush, Flushed
  <2>2. BufferOK'
    BY <1>7, NoFrames DEF DeliverBuffered, NetInv, BufferOK
  <2>3. inbox[u] \o flushing[u].items \in Seq(Frame) /\ AllDescribe(media, inbox[u] \o flushing[u].items)
    BY FramesConcat DEF NetInv, InboxOK, FlushingOK, Flush
  <2>4. InboxOK'
    BY <1>7, <2>3 DEF DeliverBuffered, NetInv, InboxOK
  <2> QED
    BY <1>7, <2>1, <2>2, <2>4, QueuesStay DEF DeliverBuffered, NetInv
<1> QED
  BY <1>1, <1>2, <1>3, <1>4, <1>5, <1>6, <1>7
\* onSignal, which may send busy.
LEMMA SignalsNet ==
  ASSUME StoreInv, NetInv, OwnersStay, NEW u \in Clients, OnOffer(u) \/ OnAnswer(u) \/ OnEnd(u)
  PROVE  NetInv'
<1>1. InboxOK'
  BY PoppedNet DEF OnOffer, OnAnswer, OnEnd, Take
<1>2. CASE OnOffer(u)
  <2> DEFINE f == Head(inbox[u])
  <2>1. f \in Frame /\ f.from \in Clients /\ f.call \in Prompts \cup {None}
    BY <1>2, HeadDescribes DEF OnOffer, Frame
  <2>2. UplinkOK'
    <3>1. CASE client[u].status # "idle"
      <4>1. SendWs(u, f.from, "busy", None, f.call)
        BY <1>2, <3>1 DEF OnOffer
      <4> HIDE DEF f
      <4> QED
        BY <2>1, <4>1, SentFrame DEF FrameTypes
    <3>2. CASE client[u].status = "idle"
      BY <1>2, <3>2, QueuesStay DEF OnOffer
    <3> QED
      BY <3>1, <3>2
  <2> QED
    BY <1>1, <1>2, <2>2, QueuesStay DEF OnOffer, NetInv
<1>3. CASE OnAnswer(u) \/ OnEnd(u)
  BY <1>1, <1>3, QueuesStay DEF OnAnswer, OnEnd, Take, NetInv
<1> QED
  BY <1>2, <1>3

\* Every step keeps NetInv.
LEMMA NetStep ==
  ASSUME StoreInv, NetInv, [Next]_vars
  PROVE  NetInv'
<1>1. OwnersStay
  BY OwnersStep
<1>2. CASE UNCHANGED net
  BY <1>1, <1>2, QueuesStay DEF net, downlink, NetInv
<1>3. ASSUME NEW u \in Clients, HangUp(u)
      PROVE  NetInv'
  BY <1>1, <1>3, SignalNet DEF HangUp, FrameTypes
<1>4. ASSUME NEW u \in Clients, Decline(u)
      PROVE  NetInv'
  BY <1>1, <1>4, SignalNet DEF Decline, FrameTypes
<1>5. ASSUME NEW m \in Prompts, AcceptFails(m)
      PROVE  NetInv'
  BY Zenon, <1>1, <1>5, AcceptFailsEnds, SignalNet DEF AcceptFails, FrameTypes
<1>6. ASSUME NEW m \in Prompts, OfferMade(m)
      PROVE  NetInv'
  <2>1. CASE client[media[m].by].pc = m
    <3>1. media[m].by \in Clients /\ media[m].by # None
      BY <1>6, PrompterIsClient DEF OfferMade
    <3>2. media'[m].by = media[m].by
      BY <1>1, <3>1 DEF OwnersStay, Passes
    <3>3. Signal(media[m].by, "offer", m)
      BY <1>6, <2>1 DEF OfferMade
    <3> QED
      BY <1>1, <3>1, <3>2, <3>3, SignalNet DEF FrameTypes
  <2>2. CASE client[media[m].by].pc # m
    BY <1>2, <1>6, <2>2 DEF OfferMade
  <2> QED
    BY <2>1, <2>2
<1>7. ASSUME NEW m \in Prompts, AnswerMade(m)
      PROVE  NetInv'
  <2>0. PICK u \in Clients : u = media[m].by
    BY Zenon, <1>7, PrompterIsClient DEF AnswerMade
  <2>1. CASE Answerable(client[u].pc)
    <3>1. client[u].pc \in Prompts /\ media[client[u].pc].by = u
      BY <2>1 DEF Answerable, StoreInv, StoreIsOwn, ClientsTypeOK, Client
    <3>2. media'[client[u].pc].by = u /\ client[u].pc # None
      BY <1>1, <3>1 DEF OwnersStay, Passes
    <3>3. Signal(u, "answer", client[u].pc)
      BY ZenonT(120), <1>7, <2>0, <2>1 DEF AnswerMade
    <3> QED
      BY <1>1, <3>1, <3>2, <3>3, SignalNet DEF FrameTypes
  <2>2. CASE ~Answerable(client[u].pc)
    <3>1. Signal(u, "decline", None)
      BY ZenonT(120), <1>7, <2>0, <2>2 DEF AnswerMade
    <3> QED
      BY <1>1, <3>1, SignalNet DEF FrameTypes
  <2> QED
    BY <2>1, <2>2
<1>8. ASSUME NEW u \in Clients, OnOffer(u) \/ OnAnswer(u) \/ OnEnd(u)
      PROVE  NetInv'
  BY <1>1, <1>8, SignalsNet
<1>9. CASE Server
  <2>1. UNCHANGED media
    BY Zenon, <1>9
       DEF Server, FanOut, Buffer, BufferExpires, Drop, Reconnect, ReadBuffer,
             DeliverBuffered
  <2> QED
    BY <1>1, <1>9, <2>1, ServerNet DEF Server
<1> QED
  BY ZenonT(120), <1>2, <1>3, <1>4, <1>5, <1>6, <1>7, <1>8, <1>9
     DEF Next, User, Browser, Signals, vars, StartCall, Accept, StartGranted, StartDenied,
         AcceptGranted, AnswerApplied, Connects, ConnectionFails

-----------------------------------------------------------------------------
(* What a step does to the calls of the clients and to their media. *)

\* A client that has not acted on a leftover of an earlier call.
Straight == Clients \ strayed
\* The description of m is being made or is made.
Made(m) == media[m].stage \in {"describing", "settled"}

\* The connection in a store is open and is describing itself or described.
HeldIsOpen ==
  \A u \in Clients : client[u].pc # None => media[client[u].pc].open /\ Made(client[u].pc)

\* A prompt has neither description before it is granted, nor a caller's connection a
\* remote one before its offer is made.
Fresh ==
  \A m \in Prompts :
    /\ \/ media[m].stage \in {"unused", "prompt", "orphan"}
       \/ media[m].kind = "start" /\ media[m].stage = "describing"
       => media[m].remote = None /\ ~media[m].described
    /\ media[m].open => Made(m)

\* A straight client in a call has a peer; what it dialled for is the call it is in.
OwnCall ==
  \A u \in Straight :
    /\ client[u].status # "idle" => client[u].peer # None
    /\ client[u].pc # None /\ media[client[u].pc].kind = "start" =>
         client[u].call = client[u].pc
    /\ \A m \in Prompts :
         media[m].by = u /\ media[m].stage = "prompt" /\ media[m].kind = "start" =>
           client[u].call = m

\* What the calls see of a store: the status only as idle or not.
ClientStays(u) ==
  /\ client'[u].call = client[u].call
  /\ client'[u].peer = client[u].peer
  /\ client'[u].pc = client[u].pc
  /\ client'[u].pendingOffer = client[u].pendingOffer
  /\ u \in Straight => (client'[u].status = "idle" <=> client[u].status = "idle")

\* ... and of a prompt.
MediumStays(m) ==
  /\ media'[m].by = media[m].by /\ media'[m].kind = media[m].kind
  /\ media'[m].stage = media[m].stage /\ media'[m].remote = media[m].remote
  /\ media'[m].described <=> media[m].described
  /\ media'[m].open <=> media[m].open

\* ... of all the others.
OthersStay(u) == \A w \in Clients \ {u} : ClientStays(w)
OtherMediaStay(m) == \A x \in Prompts \ {m} : MediumStays(x)

\* No call changes.
Rests ==
  /\ \A u \in Clients : ClientStays(u)
  /\ \A m \in Prompts : MediumStays(m)
  /\ strayed' = strayed

\* A prompt is opened.
Asks(u, m, kind) ==
  /\ media[m].stage = "unused"
  /\ media'[m].by = u /\ media'[m].kind = kind /\ media'[m].stage = "prompt"
  /\ media'[m].remote = None /\ ~media'[m].described /\ ~media'[m].open
  /\ OtherMediaStay(m)
  /\ strayed' = strayed

\* accept: u asks for its media and stays in the call.
Reopens(u, m) == Asks(u, m, "accept") /\ \A w \in Clients : ClientStays(w)

\* startCall: u is in the call m with v.
Dials(u, v, m) ==
  /\ u # v
  /\ client[u].status = "idle" /\ client'[u].status # "idle"
  /\ client'[u].call = m /\ client'[u].peer = v
  /\ client'[u].pc = client[u].pc /\ client'[u].pendingOffer = client[u].pendingOffer
  /\ OthersStay(u)
  /\ Asks(u, m, "start")

\* The offer f makes u ring.
Rings(u, f) ==
  /\ client[u].status = "idle" /\ client'[u].status # "idle"
  /\ client'[u].call = f.call /\ client'[u].peer = f.from
  /\ client'[u].pc = client[u].pc /\ client'[u].pendingOffer = f.sdp
  /\ OthersStay(u)
  /\ \A m \in Prompts : MediumStays(m)
  /\ strayed' = strayed

\* u is out of its call.
Leaves(u) ==
  /\ client'[u] = Idle
  /\ OthersStay(u)
  /\ strayed \subseteq strayed' /\ strayed' \in SUBSET Clients
  /\ \A m \in Prompts :
       /\ media[m].by # u => MediumStays(m)
       /\ media'[m].by = media[m].by /\ media'[m].kind = media[m].kind
       /\ media'[m].remote = media[m].remote
       /\ media'[m].described <=> media[m].described
       /\ media'[m].open => media[m].open
       /\ \/ media'[m].stage = media[m].stage /\ (media[m].by = u => media[m].stage # "prompt")
          \/ media'[m].stage = "settled" /\ media[m].stage # "unused"
          \/ media'[m].stage = "orphan" /\ media[m].stage = "prompt"

\* The prompt m of u yields a connection.
Grants(u, m) ==
  /\ media[m].by = u /\ Prompting(m)
  /\ client'[u].pc = m
  /\ client'[u].call = client[u].call /\ client'[u].peer = client[u].peer
  /\ client'[u].pendingOffer = client[u].pendingOffer
  /\ u \in Straight => (client'[u].status = "idle" <=> client[u].status = "idle")
  /\ OthersStay(u)
  /\ media'[m].by = u /\ media'[m].kind = media[m].kind
  /\ media'[m].stage = "describing" /\ media'[m].open
  /\ media'[m].described <=> media[m].described
  /\ IF media[m].kind = "start"
       THEN media'[m].remote = None
       ELSE client[u].pendingOffer # None /\ media'[m].remote = client[u].pendingOffer
  /\ OtherMediaStay(m)
  /\ strayed \subseteq strayed'
  /\ u \in Straight' => media[m].stage = "prompt" /\ client[u].pc = None

\* The offer of u is made.
Offers(u, m) ==
  /\ media[m].by = u /\ media[m].kind = "start" /\ media[m].stage = "describing"
  /\ client[u].pc = m
  /\ \A w \in Clients : ClientStays(w)
  /\ media'[m].by = u /\ media'[m].kind = "start" /\ media'[m].stage = "settled"
  /\ media'[m].remote = media[m].remote /\ media'[m].described
  /\ media'[m].open <=> media[m].open
  /\ OtherMediaStay(m)
  /\ strayed' = strayed

\* The answer of u is made.
Answers(u, m) ==
  LET p == client[u].pc IN
  /\ media[m].by = u /\ media[m].kind = "accept" /\ media[m].stage = "describing"
  /\ media[m].open
  /\ Answerable(p)
  /\ client'[u].call = client[u].call /\ client'[u].peer = client[u].peer
  /\ client'[u].pc = p /\ client'[u].pendingOffer = None
  /\ u \in Straight => (client'[u].status = "idle" <=> client[u].status = "idle")
  /\ OthersStay(u)
  /\ \A x \in Prompts :
       /\ media'[x].by = media[x].by /\ media'[x].kind = media[x].kind
       /\ media'[x].remote = media[x].remote
       /\ media'[x].open <=> media[x].open
       /\ media'[x].stage = IF x = m THEN "settled" ELSE media[x].stage
       /\ media'[x].described <=> media[x].described \/ x = p
  /\ strayed' = strayed

\* The answer f reaches a connection of u that has offered.
Hears(u, f) ==
  LET p == client[u].pc IN
  /\ Unanswered(u)
  /\ \A w \in Clients : ClientStays(w)
  /\ \A x \in Prompts :
       /\ media'[x].by = media[x].by /\ media'[x].kind = media[x].kind
       /\ media'[x].stage = media[x].stage
       /\ media'[x].described <=> media[x].described
       /\ media'[x].open <=> media[x].open
       /\ media'[x].remote = IF x = p THEN f.sdp ELSE media[x].remote
  /\ strayed \subseteq strayed'
  /\ u \in Straight' => f.call = client[u].call

\* The actions are these changes.
LEMMA StartCallDials ==
  ASSUME StoreInv, NEW u \in Clients, NEW v \in Clients, NEW m \in Prompts, StartCall(u, v, m)
  PROVE  Dials(u, v, m)
BY DEF StoreInv, ClientsTypeOK, MediaTypeOK, StartCall, Prompt, Unused, Dials, Asks,
         OthersStay,
       OtherMediaStay, ClientStays, MediumStays, Client, Medium

LEMMA AcceptReopens ==
  ASSUME StoreInv, NEW u \in Clients, NEW m \in Prompts, Accept(u, m)
  PROVE  Reopens(u, m)
BY DEF StoreInv, ClientsTypeOK, MediaTypeOK, Accept, Prompt, Unused, Reopens, Asks,
       OtherMediaStay, ClientStays, MediumStays, Client, Medium

LEMMA StartGrantedGrants ==
  ASSUME StoreInv, NEW m \in Prompts, StartGranted(m)
  PROVE  media[m].by \in Clients /\ Grants(media[m].by, m)
<1>1. media[m].by \in Clients
  BY PrompterIsClient DEF StartGranted, Prompting
<1> QED
  <2> DEFINE u == media[m].by
  <2>1. /\ client'[u].pc = m /\ client'[u].call = client[u].call
        /\ client'[u].peer = client[u].peer /\ client'[u].status = client[u].status
        /\ client'[u].pendingOffer = client[u].pendingOffer
        /\ OthersStay(u)
    BY <1>1 DEF StoreInv, ClientsTypeOK, StartGranted, OthersStay, ClientStays, Client
  <2>2. /\ media'[m].by = u /\ media'[m].kind = media[m].kind
        /\ media'[m].stage = "describing" /\ media'[m].open
        /\ media'[m].described <=> media[m].described
        /\ media'[m].remote = None
        /\ OtherMediaStay(m)
    BY DEF StoreInv, MediaTypeOK, StartGranted, Granted, OtherMediaStay, MediumStays, Medium
  <2>3. /\ Prompting(m) /\ media[m].kind = "start"
        /\ Strays(u, LeftOver(m)) /\ strayed \in SUBSET Clients
    BY DEF StartGranted, StoreInv
  <2> QED
    BY <1>1, <2>1, <2>2, <2>3 DEF Grants, Strays, LeftOver, Prompting, Straight

LEMMA AcceptGrantedGrants ==
  ASSUME StoreInv, NEW m \in Prompts, AcceptGranted(m)
  PROVE  media[m].by \in Clients /\ Grants(media[m].by, m)
<1>1. media[m].by \in Clients
  BY PrompterIsClient DEF AcceptGranted, Prompting
<1> QED
  <2> DEFINE u == media[m].by
  <2>1. /\ client'[u].pc = m /\ client'[u].call = client[u].call
        /\ client'[u].peer = client[u].peer /\ client'[u].status = "connecting"
        /\ client'[u].pendingOffer = client[u].pendingOffer
        /\ OthersStay(u)
    <3>1. client' = [client EXCEPT ![u] = [client[u] EXCEPT !.localStream = m, !.pc = m,
                                                            !.status = "connecting"]]
      BY Zenon DEF AcceptGranted
    <3>2. client \in [Clients -> Client]
      BY DEF StoreInv, ClientsTypeOK
    <3> QED
      BY <1>1, <3>1, <3>2 DEF OthersStay, ClientStays, Client
  <2>2. /\ media'[m].by = u /\ media'[m].kind = media[m].kind
        /\ media'[m].stage = "describing" /\ media'[m].open
        /\ media'[m].described <=> media[m].described
        /\ media'[m].remote = client[u].pendingOffer
        /\ OtherMediaStay(m)
    BY DEF StoreInv, MediaTypeOK, AcceptGranted, Granted, OtherMediaStay, MediumStays, Medium
  <2>3. /\ Prompting(m) /\ media[m].kind = "accept" /\ client[u].pendingOffer # None
        /\ Strays(u, LeftOver(m)) /\ strayed \in SUBSET Clients
    BY DEF AcceptGranted, StoreInv
  <2>4. client[u].status # "idle"
    BY <1>1, <2>3 DEF StoreInv, BeforeTheCall
  <2> QED
    BY <1>1, <2>1, <2>2, <2>3, <2>4 DEF Grants, Strays, LeftOver, Prompting, Straight

LEMMA OfferMadeOffers ==
  ASSUME StoreInv, NEW m \in Prompts, OfferMade(m), client[media[m].by].pc = m
  PROVE  media[m].by \in Clients /\ Offers(media[m].by, m)
<1>1. media[m].by \in Clients
  BY PrompterIsClient DEF OfferMade
<1> QED
  BY <1>1 DEF StoreInv, ClientsTypeOK, MediaTypeOK, OfferMade, Offers, OthersStay,
       OtherMediaStay, ClientStays, MediumStays, Client, Medium

LEMMA AnswerMadeAnswers ==
  ASSUME StoreInv, NEW m \in Prompts, AnswerMade(m), Answerable(client[media[m].by].pc)
  PROVE  media[m].by \in Clients /\ Answers(media[m].by, m)
<1>1. media[m].by \in Clients
  BY ZenonT(120), PrompterIsClient DEF AnswerMade
<1>2. \A x \in Prompts :
        /\ media'[x].by = media[x].by /\ media'[x].kind = media[x].kind
        /\ media'[x].remote = media[x].remote /\ media'[x].open = media[x].open
        /\ media'[x].stage = IF x = m THEN "settled" ELSE media[x].stage
        /\ media'[x].described <=> media[x].described \/ x = client[media[m].by].pc
  <2>1. media' = AnsweredMedia(media, m, client[media[m].by].pc)
    BY ZenonT(120) DEF AnswerMade, AnsweredMedia
  <2> QED
    BY <2>1, AnsweredFields DEF StoreInv, MediaTypeOK
<1>3. client' = [client EXCEPT ![media[m].by].pendingOffer = None] /\ strayed' = strayed
      /\ media[m].kind = "accept" /\ media[m].stage = "describing" /\ media[m].open
  BY Zenon DEF AnswerMade
<1> QED
  BY <1>1, <1>2, <1>3 DEF StoreInv, ClientsTypeOK, MediaTypeOK, Answers, OthersStay,
       ClientStays, Client

LEMMA OnAnswerHears ==
  ASSUME StoreInv, NEW u \in Clients, OnAnswer(u), Unanswered(u), Admitted(u, Head(inbox[u]))
  PROVE  Hears(u, Head(inbox[u]))
BY DEF StoreInv, ClientsTypeOK, MediaTypeOK, OnAnswer, Hears, Strays, Straight, Unanswered,
         Client, Medium, ClientStays

LEMMA AppliedRests ==
  ASSUME StoreInv, NEW m \in Prompts, AnswerApplied(m) \/ Connects(m)
  PROVE  Rests
<1>1. PICK u \in Clients : u = media[m].by
  BY PrompterIsClient DEF AnswerApplied, Connects, Matched, StoreInv, PromptsHaveOwners
<1>2. media[m].open
  BY DEF AnswerApplied, Connects, Matched
<1>3. u \in Straight => client[u].status # "idle"
  BY <1>1, <1>2 DEF StoreInv, MediaIsInStore, Straight
<1> QED
  BY <1>1, <1>3
     DEF StoreInv, ClientsTypeOK, MediaTypeOK, AnswerApplied, Connects, Rests, ClientStays,
           MediumStays, Client, Medium

LEMMA EndedLeaves ==
  ASSUME StoreInv, NEW u \in Clients, Ended(u)
  PROVE  Leaves(u)
<1>1. client'[u] = Idle /\ OthersStay(u)
  BY DEF StoreInv, ClientsTypeOK, Ended, OthersStay, ClientStays
<1> QED
  BY <1>1 DEF Ended, Leaves, MediumStays

\* The invariants of one client and its media.
PlaceInv == HeldIsOpen /\ Fresh /\ OwnCall

\* What the proofs about calls need of StoreInv.
Types == ClientsTypeOK /\ MediaTypeOK /\ StoreIsOwn /\ MediaIsInStore /\ PromptsAreOfTheCall /\ PromptsHaveOwners

LEMMA StoreTypes ==
  ASSUME StoreInv
  PROVE  Types
BY DEF StoreInv, Types

\* Each change keeps PlaceInv.
LEMMA RestsPlace ==
  ASSUME Types, Types', PlaceInv, Rests
  PROVE  PlaceInv'
<1> USE DEF PlaceInv, Types, ClientsTypeOK, MediaTypeOK, Client, Medium, Rests, ClientStays,
         MediumStays
<1>1. HeldIsOpen'
  BY DEF HeldIsOpen, Made
<1>2. Fresh'
  BY DEF Fresh, Made
<1>3. OwnCall'
  BY DEF OwnCall, Straight
<1> QED
  BY <1>1, <1>2, <1>3

LEMMA ReopensPlace ==
  ASSUME Types, Types', PlaceInv, NEW u \in Clients, NEW m \in Prompts, Reopens(u, m)
  PROVE  PlaceInv'
<1> USE DEF PlaceInv, Types, ClientsTypeOK, MediaTypeOK, Client, Medium, Reopens, Asks,
         OtherMediaStay, ClientStays, MediumStays
<1>1. HeldIsOpen'
  BY DEF HeldIsOpen, Made
<1>2. Fresh'
  BY DEF Fresh, Made
<1>3. OwnCall'
  BY DEF OwnCall, Straight, HeldIsOpen, Made
<1> QED
  BY <1>1, <1>2, <1>3

LEMMA DialsPlace ==
  ASSUME Types, Types', PlaceInv, NEW u \in Clients, NEW v \in Clients, NEW m \in Prompts, Dials(u, v, m)
  PROVE  PlaceInv'
<1> USE DEF PlaceInv, Types, ClientsTypeOK, MediaTypeOK, Client, Medium, Dials, Asks,
         OthersStay, OtherMediaStay, ClientStays, MediumStays
<1>1. HeldIsOpen'
  BY DEF HeldIsOpen, Made
<1>2. Fresh'
  BY DEF Fresh, Made
<1>3. OwnCall'
  <2> SUFFICES ASSUME NEW w \in Straight'
               PROVE  /\ client'[w].status # "idle" => client'[w].peer # None
                      /\ client'[w].pc # None /\ media'[client'[w].pc].kind = "start" =>
                           client'[w].call = client'[w].pc
                      /\ \A x \in Prompts :
                           media'[x].by = w /\ media'[x].stage = "prompt" /\ media'[x].kind = "start" =>
                             client'[w].call = x
    BY DEF OwnCall
  <2>0. w \in Straight /\ w \in Clients
    BY DEF Straight
  <2>1. client'[w].status # "idle" => client'[w].peer # None
    BY <2>0 DEF OwnCall
  <2>2. client'[w].pc # None /\ media'[client'[w].pc].kind = "start" => client'[w].call = client'[w].pc
    BY <2>0 DEF OwnCall, MediaIsInStore, Straight, HeldIsOpen, Made
  <2>3. \A x \in Prompts :
          media'[x].by = w /\ media'[x].stage = "prompt" /\ media'[x].kind = "start" => client'[w].call = x
    BY <2>0 DEF OwnCall, PromptsAreOfTheCall
  <2> QED
    BY <2>1, <2>2, <2>3
<1> QED
  BY <1>1, <1>2, <1>3

LEMMA RingsPlace ==
  ASSUME Types, Types', PlaceInv, NEW u \in Clients, NEW f \in Frame, Rings(u, f)
  PROVE  PlaceInv'
<1> USE DEF PlaceInv, Types, ClientsTypeOK, MediaTypeOK, Client, Medium, Rings, OthersStay,
         OtherMediaStay, ClientStays, MediumStays, Frame
<1>1. HeldIsOpen'
  BY DEF HeldIsOpen, Made
<1>2. Fresh'
  BY DEF Fresh, Made
<1>3. OwnCall'
  <2> SUFFICES ASSUME NEW w \in Straight'
               PROVE  /\ client'[w].status # "idle" => client'[w].peer # None
                      /\ client'[w].pc # None /\ media'[client'[w].pc].kind = "start" =>
                           client'[w].call = client'[w].pc
                      /\ \A x \in Prompts :
                           media'[x].by = w /\ media'[x].stage = "prompt" /\ media'[x].kind = "start" =>
                             client'[w].call = x
    BY DEF OwnCall
  <2>0. w \in Straight /\ w \in Clients
    BY DEF Straight
  <2>1. client'[w].status # "idle" => client'[w].peer # None
    BY <2>0 DEF OwnCall
  <2>2. client'[w].pc # None /\ media'[client'[w].pc].kind = "start" => client'[w].call = client'[w].pc
    BY <2>0 DEF OwnCall, MediaIsInStore, Straight
  <2>3. \A x \in Prompts :
          media'[x].by = w /\ media'[x].stage = "prompt" /\ media'[x].kind = "start" => client'[w].call = x
    BY <2>0 DEF OwnCall, PromptsAreOfTheCall
  <2> QED
    BY <2>1, <2>2, <2>3
<1> QED
  BY <1>1, <1>2, <1>3

LEMMA LeavesPlace ==
  ASSUME Types, Types', PlaceInv, NEW u \in Clients, Leaves(u)
  PROVE  PlaceInv'
<1> USE DEF PlaceInv, Types, ClientsTypeOK, MediaTypeOK, Client, Medium, Leaves, OthersStay,
         ClientStays, MediumStays, Idle
<1>1. HeldIsOpen'
  BY DEF HeldIsOpen, Made, StoreIsOwn
<1>2. Fresh'
  BY DEF Fresh, Made
<1>3. OwnCall'
  <2> SUFFICES ASSUME NEW w \in Straight'
               PROVE  /\ client'[w].status # "idle" => client'[w].peer # None
                      /\ client'[w].pc # None /\ media'[client'[w].pc].kind = "start" =>
                           client'[w].call = client'[w].pc
                      /\ \A x \in Prompts :
                           media'[x].by = w /\ media'[x].stage = "prompt" /\ media'[x].kind = "start" =>
                             client'[w].call = x
    BY DEF OwnCall
  <2>0. w \in Straight /\ w \in Clients
    BY DEF Straight
  <2>1. client'[w].status # "idle" => client'[w].peer # None
    BY <2>0 DEF OwnCall
  <2>2. client'[w].pc # None /\ media'[client'[w].pc].kind = "start" => client'[w].call = client'[w].pc
    BY <2>0 DEF OwnCall, HeldIsOpen, Made, StoreIsOwn
  <2>3. \A x \in Prompts :
          media'[x].by = w /\ media'[x].stage = "prompt" /\ media'[x].kind = "start" => client'[w].call = x
    BY <2>0 DEF OwnCall
  <2> QED
    BY <2>1, <2>2, <2>3
<1> QED
  BY <1>1, <1>2, <1>3

LEMMA GrantsPlace ==
  ASSUME Types, Types', PlaceInv, NEW u \in Clients, NEW m \in Prompts, Grants(u, m)
  PROVE  PlaceInv'
<1> USE DEF PlaceInv, Types, ClientsTypeOK, MediaTypeOK, Client, Medium, Grants, OthersStay,
         OtherMediaStay, ClientStays, MediumStays, Prompting
<1>1. HeldIsOpen'
  BY DEF HeldIsOpen, Made
<1>2. Fresh'
  BY DEF Fresh, Made
<1>3. OwnCall'
  BY DEF OwnCall, Straight, HeldIsOpen, Made
<1> QED
  BY <1>1, <1>2, <1>3

LEMMA OffersPlace ==
  ASSUME Types, Types', PlaceInv, NEW u \in Clients, NEW m \in Prompts, Offers(u, m)
  PROVE  PlaceInv'
<1> USE DEF PlaceInv, Types, ClientsTypeOK, MediaTypeOK, Client, Medium, Offers,
         OtherMediaStay, ClientStays, MediumStays
<1>1. HeldIsOpen'
  BY DEF HeldIsOpen, Made
<1>2. Fresh'
  BY DEF Fresh, Made
<1>3. OwnCall'
  <2> SUFFICES ASSUME NEW w \in Straight'
               PROVE  /\ client'[w].status # "idle" => client'[w].peer # None
                      /\ client'[w].pc # None /\ media'[client'[w].pc].kind = "start" =>
                           client'[w].call = client'[w].pc
                      /\ \A x \in Prompts :
                           media'[x].by = w /\ media'[x].stage = "prompt" /\ media'[x].kind = "start" =>
                             client'[w].call = x
    BY DEF OwnCall
  <2>0. w \in Straight /\ w \in Clients
    BY DEF Straight
  <2>1. client'[w].status # "idle" => client'[w].peer # None
    BY <2>0 DEF OwnCall
  <2>2. client'[w].pc # None /\ media'[client'[w].pc].kind = "start" => client'[w].call = client'[w].pc
    BY <2>0 DEF OwnCall
  <2>3. \A x \in Prompts :
          media'[x].by = w /\ media'[x].stage = "prompt" /\ media'[x].kind = "start" => client'[w].call = x
    BY <2>0 DEF OwnCall
  <2> QED
    BY <2>1, <2>2, <2>3
<1> QED
  BY <1>1, <1>2, <1>3

LEMMA AnswersPlace ==
  ASSUME Types, Types', PlaceInv, NEW u \in Clients, NEW m \in Prompts, Answers(u, m)
  PROVE  PlaceInv'
<1> USE DEF PlaceInv, Types, ClientsTypeOK, MediaTypeOK, Client, Medium, Answers,
         OthersStay, ClientStays, Answerable
<1>1. HeldIsOpen'
  BY DEF HeldIsOpen, Made
<1>2. Fresh'
  BY DEF Fresh, Made
<1>3. OwnCall'
  BY DEF OwnCall, Straight
<1> QED
  BY <1>1, <1>2, <1>3

LEMMA HearsPlace ==
  ASSUME Types, Types', PlaceInv, NEW u \in Clients, NEW f, Hears(u, f)
  PROVE  PlaceInv'
<1> USE DEF PlaceInv, Types, ClientsTypeOK, MediaTypeOK, Client, Medium, Hears, ClientStays,
         Unanswered
<1>1. HeldIsOpen'
  BY DEF HeldIsOpen, Made
<1>2. Fresh'
  BY DEF Fresh, Made
<1>3. OwnCall'
  BY DEF OwnCall, Straight
<1> QED
  BY <1>1, <1>2, <1>3

-----------------------------------------------------------------------------
(* The frames between two clients while no socket was lost.  A frame is    *)
(* coming from a to b when a's endpoint task has not read it or b has not. *)

\* The frames that end a call.
Ends == {"hangup", "decline", "busy"}
\* u is in the call x with v.
InCall(u, x, v) == client[u].call = x /\ client[u].peer = v

\* f is in the queue s; f is in it before g.
Holds(s, f) == \E i \in 1..Len(s) : s[i] = f
Before(s, f, g) == \E i, j \in 1..Len(s) : i < j /\ s[i] = f /\ s[j] = g

\* The frames on their way from a to b.
Coming(a, b) ==
  {f \in Frame : f.from = a /\ f.to = b /\ (Holds(uplink[a], f) \/ Holds(inbox[b], f))}

\* An offer, an end or an answer of the call x is among them.
Offered(a, b, x) == \E f \in Coming(a, b) : f.type = "offer" /\ f.call = x
Told(a, b, x)    == \E f \in Coming(a, b) : f.type \in Ends /\ f.call = x
Replied(a, b, x) == \E f \in Coming(a, b) : f.type = "answer" /\ f.call = x

\* Every socket is as it was at the start.
SocketsHold == up = Clients /\ \A u \in Clients : flushing[u].stage = "done"

\* A client sends in its own name and to others; it is sent what is for it.
Addressed ==
  \A u \in Clients :
    /\ \A f \in Frame : Holds(uplink[u], f) => f.from = u /\ f.to # u
    /\ \A f \in Frame : Holds(inbox[u], f) => f.to = u /\ f.from # u

\* Nobody is in a call with themselves.
NotSelf == \A u \in Clients : client[u].peer # u

\* f is a frame of the pair a, b and of the call that the offer g opens.
SameCall(f, g, a, b) ==
  f.from = a /\ f.to = b /\ g.from = a /\ g.to = b /\ g.type = "offer" /\ f.call = g.call

\* An offer is the first frame of its call from the caller to the callee.
OfferFirst ==
  \A a, b \in Straight : \A f, g \in Frame :
    \/ Before(uplink[a], f, g)
    \/ Before(inbox[b], f, g)
    \/ Holds(inbox[b], f) /\ Holds(uplink[a], g)
    => ~SameCall(f, g, a, b)

\* The wire while no socket was lost.
Wire == SocketsHold /\ Addressed /\ OfferFirst

\* An offer on its way from a to b: a made it, b has not seen it, and a still
\* waits for b or has told b that the call is over.
OfferOK(a, b) ==
  \A f \in Coming(a, b) :
    f.type = "offer" =>
      /\ f.call = f.sdp /\ f.sdp # None
      /\ media[f.sdp].by = a /\ media[f.sdp].kind = "start" /\ media[f.sdp].stage = "settled"
      /\ ~InCall(b, f.call, a)
      /\ InCall(a, f.call, b) => media[f.sdp].remote = None
      /\ InCall(a, f.call, b) \/ Told(a, b, f.call)

\* The end of a call on its way from a to b: a is not in that call.
EndOK(a, b) ==
  \A f \in Coming(a, b) :
    f.type \in Ends =>
      /\ f.call # None /\ media[f.call].by \in {a, b}
      /\ ~InCall(a, f.call, b)
      /\ media[f.call].by = b => media[f.call].stage = "settled" /\ ~Offered(b, a, f.call)

\* An answer on its way from a to b: to an offer of b, on a's connection.
AnswerOK(a, b) ==
  \A f \in Coming(a, b) :
    f.type = "answer" =>
      /\ f.call # None /\ f.sdp # None
      /\ media[f.call].by = b /\ media[f.call].stage = "settled" /\ ~Offered(b, a, f.call)
      /\ media[f.sdp].by = a /\ media[f.sdp].remote = f.call /\ media[f.sdp].kind = "accept"
      /\ Made(f.sdp)
      /\ InCall(a, f.call, b) => client[a].pc = f.sdp

\* The call a is in with b is of one of the two, as far along as a's store says.
OfThePair(a, b) ==
  \A x, p :
    x = client[a].call /\ p = client[a].pc /\ client[a].peer = b =>
    /\ x # None /\ media[x].kind = "start" /\ media[x].by \in {a, b}
    /\ client[a].pendingOffer \in {None, x}
    /\ p # None /\ media[p].kind = "accept" => media[p].remote = x /\ media[x].by = b
    /\ media[x].by = a =>
         \/ media[x].stage = "prompt" /\ p = None
         \/ media[x].stage = "describing" /\ p = x
         \/ media[x].stage = "settled" /\ p = x /\ media[x].described
    /\ media[x].by = b => media[x].stage = "settled"

\* b is called by a: a is in the call, or b will be told or find out.
CalleeOK(a, b) ==
  \A x, p :
    x = client[b].call /\ p = client[b].pc
      /\ client[b].peer = a /\ x # None /\ media[x].by = a =>
    /\ \/ InCall(a, x, b)
       \/ Told(a, b, x)
       \/ p # None /\ media[p].remote = x /\ ~media[x].open
    /\ InCall(a, x, b) /\ p # None /\ media[p].described =>
         Replied(b, a, x) \/ media[x].remote # None

\* a calls b: b will hear of it, is in the call, or a will hear from b.
CallerOK(a, b) ==
  \A x, p :
    x = client[a].call /\ p = media[x].remote
      /\ client[a].peer = b /\ x # None /\ media[x].by = a =>
    /\ p # None =>
         /\ media[p].by = b /\ media[p].remote = x /\ media[p].kind = "accept" /\ Made(p)
         /\ InCall(b, x, a) => client[b].pc = p
    /\ media[x].stage = "settled" =>
         \/ Offered(a, b, x) \/ InCall(b, x, a) \/ Told(b, a, x) \/ Replied(b, a, x)
         \/ p # None

\* All that relates a and b, from a's side.
Linked(a, b) ==
  /\ OfferOK(a, b) /\ EndOK(a, b) /\ AnswerOK(a, b)
  /\ OfThePair(a, b) /\ CalleeOK(a, b) /\ CallerOK(a, b)

\* Every pair that has not strayed is linked.
Links == \A a, b \in Straight : a # b => Linked(a, b)

\* What holds of the clients while no socket was lost.
Calm == NotSelf /\ Wire /\ Links

CallInv == PlaceInv /\ (drops = 0 => Calm)

\* How a step moves the frames between the clients.
\* How a step moves the frames between the clients: not at all, ...
ComingStays == \A a, b \in Clients : Coming(a, b)' = Coming(a, b)

\* ... one more is on its way, ...
Sends(g) ==
  \A a, b \in Clients :
    Coming(a, b)' = IF a = g.from /\ b = g.to THEN Coming(a, b) \cup {g} ELSE Coming(a, b)

\* ... or u takes the frame f; no later frame on that way offers the call of f.
Takes(u, f) ==
  /\ f \in Frame /\ f.to = u /\ f.from # u /\ f \in Coming(f.from, u)
  /\ \A a, b \in Clients : (a # f.from \/ b # u) => Coming(a, b)' = Coming(a, b)
  /\ Coming(f.from, u)' \subseteq Coming(f.from, u)
  /\ Coming(f.from, u) \subseteq Coming(f.from, u)' \cup {f}
  /\ f.from \in Straight /\ u \in Straight =>
       \A g \in Coming(f.from, u)' : g.type = "offer" => g.call # f.call

\* u takes the frame f and answers with g.
TakesAndSends(u, f, g) ==
  /\ f \in Frame /\ f.to = u /\ f.from # u /\ f \in Coming(f.from, u)
  /\ g \in Frame /\ g.to = f.from /\ g.from = u
  /\ \A a, b \in Clients :
       (a # f.from \/ b # u) /\ (a # u \/ b # f.from) => Coming(a, b)' = Coming(a, b)
  /\ Coming(f.from, u)' \subseteq Coming(f.from, u)
  /\ Coming(f.from, u) \subseteq Coming(f.from, u)' \cup {f}
  /\ Coming(u, f.from)' = Coming(u, f.from) \cup {g}
  /\ f.from \in Straight /\ u \in Straight =>
       \A h \in Coming(f.from, u)' : h.type = "offer" => h.call # f.call

\* What the lemmas below take from the rest of the invariant.
LinkBase == Types /\ Types' /\ PlaceInv /\ OfferIsPeers /\ BeforeTheCall

\* The types of the fields, one by one.
AllFields ==
  /\ \A w \in Clients :
       /\ client[w].peer \in Clients \cup {None}
       /\ client[w].call \in Prompts \cup {None}
       /\ client[w].pc \in Prompts \cup {None}
       /\ client[w].pendingOffer \in Prompts \cup {None}
       /\ client[w].pc # None => media[client[w].pc].by = w
  /\ \A m \in Prompts :
       /\ media[m].by \in Clients \cup {None}
       /\ media[m].remote \in Prompts \cup {None}
       /\ media[m].kind \in {"start", "accept"}
       /\ media[m].stage = "unused" <=> media[m].by = None

\* ... field by field or as a set.
LEMMA ComingAreFrames ==
  \A a, b : Coming(a, b) \subseteq Frame
BY DEF Coming

LEMMA TypesFields ==
  (Types => AllFields) /\ (Types' => AllFields')
BY DEF Types, ClientsTypeOK, MediaTypeOK, Client, Medium, AllFields, StoreIsOwn,
         PromptsHaveOwners

\* The frames on their way are frames, ...
LEMMA ComingFields ==
  \A a, b : \A f \in Coming(a, b) :
    f.from = a /\ f.to = b /\ f.call \in Prompts \cup {None} /\ f.sdp \in Prompts \cup {None}
      /\ f.type \in FrameTypes
BY DEF Coming, Frame

\* A pair before the step, straight also after it.
ThePair(a, b) ==
  /\ a # b /\ {a, b} \subseteq Straight /\ ({a, b} \subseteq Straight)'
  /\ Linked(a, b) /\ Linked(b, a)

\* Nothing that concerns the pair changes.
PairRests(a, b) ==
  /\ ClientStays(a) /\ ClientStays(b)
  /\ \A m \in Prompts :
       media[m].by \in {a, b} \/ media'[m].by \in {a, b} => MediumStays(m)
  /\ Coming(a, b)' = Coming(a, b) /\ Coming(b, a)' = Coming(b, a)

\* A step of somebody else.
LEMMA Elsewhere ==
  ASSUME Types, Types', NEW a \in Clients, NEW b \in Clients, Linked(a, b), PairRests(a, b)
  PROVE  Linked(a, b)'
<1> USE DEF AllFields, ClientStays, MediumStays, Linked, PairRests
<1>0. AllFields /\ AllFields'
  BY TypesFields
<1>1. OfferOK(a, b)'
  BY <1>0, ComingFields DEF OfferOK, Told, InCall
<1>2. EndOK(a, b)'
  BY <1>0, ComingFields DEF EndOK, Offered, InCall
<1>3. AnswerOK(a, b)'
  BY <1>0, ComingFields DEF AnswerOK, Offered, InCall, Made
<1>4. OfThePair(a, b)'
  BY <1>0 DEF OfThePair
<1>5. CalleeOK(a, b)'
  BY <1>0 DEF CalleeOK, InCall, Told, Replied
<1>6. CallerOK(a, b)'
  BY <1>0 DEF CallerOK, InCall, Told, Replied, Offered, Made
<1> QED
  BY <1>1, <1>2, <1>3, <1>4, <1>5, <1>6

\* Each change keeps the links of every pair.  A step of u concerns only the pairs of u;
\* for these the six parts are proved twice, for u as a and as b.
LEMMA DialsLinks ==
  ASSUME LinkBase, NEW u \in Clients, NEW v \in Clients, NEW m \in Prompts,
         Dials(u, v, m), ComingStays,
         NEW a \in Clients, NEW b \in Clients, ThePair(a, b)
  PROVE  Linked(a, b)'
<1>0. AllFields /\ AllFields' /\ Linked(a, b) /\ Linked(b, a) /\ a # b
      /\ {a, b} \subseteq Straight /\ {a, b} \subseteq Straight'
  BY TypesFields DEF LinkBase, ThePair
<1>1. CASE u \notin {a, b}
  <2>1. PairRests(a, b)
    BY <1>0, <1>1
       DEF PairRests, AllFields, Dials, Asks, OthersStay, OtherMediaStay, ClientStays,
             MediumStays, ComingStays
  <2> QED
    BY <2>1, <1>0, Elsewhere DEF LinkBase
<1> USE <1>0, ComingFields
   DEF Linked, AllFields, Dials, Asks, OthersStay, OtherMediaStay, ClientStays, MediumStays,
         ComingStays
<1>2. CASE u = a
  <2>1. /\ client[u].peer = None /\ client[u].pc = None /\ client[u].pendingOffer = None
        /\ media[m].by = None /\ media[m].remote = None
    BY <1>2
       DEF LinkBase, BeforeTheCall, MediaIsInStore, Types, Straight, Dials, Asks,
             AllFields, PlaceInv, Fresh
  <2>2. OfferOK(a, b)'
    BY <1>2, <2>1 DEF OfferOK, Told, InCall
  <2>3. EndOK(a, b)'
    BY <1>2, <2>1 DEF EndOK, Offered, InCall
  <2>4. AnswerOK(a, b)'
    BY <1>2, <2>1 DEF AnswerOK, Offered, InCall, Made
  <2>5. OfThePair(a, b)'
    BY <1>2, <2>1 DEF OfThePair
  <2>6. CalleeOK(a, b)'
    BY <1>2, <2>1 DEF CalleeOK, InCall, Told, Replied, OfThePair
  <2>7. CallerOK(a, b)'
    BY <1>2, <2>1 DEF CallerOK, InCall, Told, Replied, Offered, Made
  <2> QED
    BY <2>2, <2>3, <2>4, <2>5, <2>6, <2>7 DEF Linked
<1>3. CASE u = b
  <2>1. /\ client[u].peer = None /\ client[u].pc = None /\ client[u].pendingOffer = None
        /\ media[m].by = None /\ media[m].remote = None
    BY <1>3
       DEF LinkBase, BeforeTheCall, MediaIsInStore, Types, Straight, Dials, Asks,
             AllFields, PlaceInv, Fresh
  <2>2. OfferOK(a, b)'
    BY <1>3, <2>1 DEF OfferOK, Told, InCall
  <2>3. EndOK(a, b)'
    BY <1>3, <2>1 DEF EndOK, Offered, InCall
  <2>4. AnswerOK(a, b)'
    BY <1>3, <2>1 DEF AnswerOK, Offered, InCall, Made
  <2>5. OfThePair(a, b)'
    BY <1>3, <2>1 DEF OfThePair
  <2>6. CalleeOK(a, b)'
    BY <1>3, <2>1 DEF CalleeOK, InCall, Told, Replied
  <2>7. CallerOK(a, b)'
    BY <1>3, <2>1 DEF CallerOK, InCall, Told, Replied, Offered, Made
  <2> QED
    BY <2>2, <2>3, <2>4, <2>5, <2>6, <2>7 DEF Linked
<1> QED
  BY <1>1, <1>2, <1>3

LEMMA ReopensLinks ==
  ASSUME LinkBase, NEW u \in Clients, NEW m \in Prompts,
         Reopens(u, m), ComingStays,
         NEW a \in Clients, NEW b \in Clients, ThePair(a, b)
  PROVE  Linked(a, b)'
<1>0. AllFields /\ AllFields' /\ Linked(a, b) /\ Linked(b, a) /\ a # b
      /\ {a, b} \subseteq Straight /\ {a, b} \subseteq Straight'
  BY TypesFields DEF LinkBase, ThePair
<1>1. CASE u \notin {a, b}
  <2>1. PairRests(a, b)
    BY <1>0, <1>1
       DEF PairRests, AllFields, Reopens, Asks, OtherMediaStay, ClientStays, MediumStays,
             ComingStays
  <2> QED
    BY <2>1, <1>0, Elsewhere DEF LinkBase
<1> USE <1>0, ComingFields
   DEF Linked, AllFields, Reopens, Asks, OtherMediaStay, ClientStays, MediumStays,
         ComingStays
<1>2. CASE u = a
  <2>1. media[m].by = None /\ media[m].remote = None
    BY <1>2 DEF LinkBase, Reopens, Asks, AllFields, PlaceInv, Fresh
  <2>2. OfferOK(a, b)'
    BY <1>2, <2>1 DEF OfferOK, Told, InCall
  <2>3. EndOK(a, b)'
    BY <1>2, <2>1 DEF EndOK, Offered, InCall
  <2>4. AnswerOK(a, b)'
    BY <1>2, <2>1 DEF AnswerOK, Offered, InCall, Made
  <2>5. OfThePair(a, b)'
    BY <1>2, <2>1 DEF OfThePair
  <2>6. CalleeOK(a, b)'
    BY <1>2, <2>1 DEF CalleeOK, InCall, Told, Replied, OfThePair
  <2>7. CallerOK(a, b)'
    BY <1>2, <2>1 DEF CallerOK, InCall, Told, Replied, Offered, Made
  <2> QED
    BY <2>2, <2>3, <2>4, <2>5, <2>6, <2>7 DEF Linked
<1>3. CASE u = b
  <2>1. media[m].by = None /\ media[m].remote = None
    BY <1>3 DEF LinkBase, Reopens, Asks, AllFields, PlaceInv, Fresh
  <2>2. OfferOK(a, b)'
    BY <1>3, <2>1 DEF OfferOK, Told, InCall
  <2>3. EndOK(a, b)'
    BY <1>3, <2>1 DEF EndOK, Offered, InCall
  <2>4. AnswerOK(a, b)'
    BY <1>3, <2>1 DEF AnswerOK, Offered, InCall, Made
  <2>5. OfThePair(a, b)'
    BY <1>3, <2>1 DEF OfThePair
  <2>6. CalleeOK(a, b)'
    BY <1>3, <2>1 DEF CalleeOK, InCall, Told, Replied
  <2>7. CallerOK(a, b)'
    BY <1>3, <2>1 DEF CallerOK, InCall, Told, Replied, Offered, Made
  <2> QED
    BY <2>2, <2>3, <2>4, <2>5, <2>6, <2>7 DEF Linked
<1> QED
  BY <1>1, <1>2, <1>3

\* u leaves its call and says so.
LEMMA TellingLinks ==
  ASSUME LinkBase, NEW u \in Clients, NEW g \in Frame,
         Leaves(u), Sends(g), g.type \in Ends, g.from = u, g.to = client[u].peer, g.call = client[u].call,
         NEW a \in Clients, NEW b \in Clients, ThePair(a, b)
  PROVE  Linked(a, b)'
<1>0. AllFields /\ AllFields' /\ Linked(a, b) /\ Linked(b, a) /\ a # b
      /\ {a, b} \subseteq Straight /\ {a, b} \subseteq Straight'
  BY TypesFields DEF LinkBase, ThePair
<1>1. CASE u \notin {a, b}
  <2>1. PairRests(a, b)
    BY <1>0, <1>1
       DEF PairRests, AllFields, Leaves, OthersStay, ClientStays, MediumStays, Idle, Ends,
             Sends
  <2> QED
    BY <2>1, <1>0, Elsewhere DEF LinkBase
<1> USE <1>0, ComingFields
   DEF Linked, AllFields, Leaves, OthersStay, ClientStays, MediumStays, Idle, Ends, Sends
<1>2. CASE u = a
  <2>1. OfferOK(a, b)'
    BY <1>2 DEF OfferOK, Told, InCall
  <2>2. EndOK(a, b)'
    BY <1>2 DEF EndOK, Offered, InCall, OfThePair, OfferOK
  <2>3. AnswerOK(a, b)'
    BY <1>2 DEF AnswerOK, Offered, InCall, Made
  <2>4. OfThePair(a, b)'
    BY <1>2 DEF OfThePair
  <2>5. CalleeOK(a, b)'
    BY <1>2 DEF CalleeOK, InCall, Told, Replied
  <2>6. CallerOK(a, b)'
    BY <1>2 DEF CallerOK, InCall, Told, Replied, Offered, Made
  <2> QED
    BY <2>1, <2>2, <2>3, <2>4, <2>5, <2>6 DEF Linked
<1>3. CASE u = b
  <2>1. OfferOK(a, b)'
    BY <1>3 DEF OfferOK, Told, InCall
  <2>2. EndOK(a, b)'
    BY <1>3 DEF EndOK, Offered, InCall
  <2>3. AnswerOK(a, b)'
    BY <1>3 DEF AnswerOK, Offered, InCall, Made
  <2>4. OfThePair(a, b)'
    BY <1>3 DEF OfThePair
  <2>5. CalleeOK(a, b)'
    BY <1>3 DEF CalleeOK, InCall, Told, Replied
  <2>6. CallerOK(a, b)'
    BY <1>3 DEF CallerOK, InCall, Told, Replied, Offered, Made
  <2> QED
    BY <2>1, <2>2, <2>3, <2>4, <2>5, <2>6 DEF Linked
<1> QED
  BY <1>1, <1>2, <1>3

\* What u is in when it leaves a call without a word: its own prompt was refused,
\* or the connection of an answered call failed.
LeavesUnheard(u) ==
  \/ media[client[u].call].stage = "prompt" /\ client[u].call # None /\ media[client[u].call].by = u
  \/ /\ client[u].pc # None /\ media[client[u].pc].remote # None
     /\ media[client[u].pc].described /\ ~media'[client[u].pc].open

LEMMA SilentLinks ==
  ASSUME LinkBase, NEW u \in Clients,
         Leaves(u), u \in Straight' => LeavesUnheard(u), ComingStays,
         NEW a \in Clients, NEW b \in Clients, ThePair(a, b)
  PROVE  Linked(a, b)'
<1>0. AllFields /\ AllFields' /\ Linked(a, b) /\ Linked(b, a) /\ a # b
      /\ {a, b} \subseteq Straight /\ {a, b} \subseteq Straight'
  BY TypesFields DEF LinkBase, ThePair
<1>1. CASE u \notin {a, b}
  <2>1. PairRests(a, b)
    BY <1>0, <1>1
       DEF PairRests, AllFields, Leaves, OthersStay, ClientStays, MediumStays, Idle, Ends,
             ComingStays
  <2> QED
    BY <2>1, <1>0, Elsewhere DEF LinkBase
<1> USE <1>0, ComingFields
   DEF Linked, AllFields, Leaves, OthersStay, ClientStays, MediumStays, Idle, Ends,
         ComingStays
<1>2. CASE u = a
  <2>1. client[u].pc # None /\ media[client[u].pc].kind = "start" => client[u].call = client[u].pc
    BY <1>2 DEF LinkBase, PlaceInv, OwnCall
  <2>2. OfferOK(a, b)'
    BY <1>2, <2>1 DEF OfferOK, Told, InCall, OfThePair, LeavesUnheard
  <2>3. EndOK(a, b)'
    BY <1>2, <2>1 DEF EndOK, Offered, InCall
  <2>4. AnswerOK(a, b)'
    BY <1>2, <2>1 DEF AnswerOK, Offered, InCall, Made
  <2>5. OfThePair(a, b)'
    BY <1>2, <2>1 DEF OfThePair
  <2>6. CalleeOK(a, b)'
    <3>1. /\ AllFields /\ AllFields'
          /\ OfThePair(a, b) /\ OfThePair(b, a) /\ CalleeOK(a, b) /\ CallerOK(a, b)
      BY <1>0
    <3>2. u \in Straight' /\ a # b
      BY <1>0, <1>2
    <3> HIDE <1>0
    <3> QED
      BY <1>2, <2>1, <3>1, <3>2
         DEF CalleeOK, InCall, Told, Replied, OfThePair, CallerOK, LeavesUnheard
  <2>7. CallerOK(a, b)'
    BY <1>2, NoneIsNobody DEF CallerOK
  <2> QED
    BY <2>2, <2>3, <2>4, <2>5, <2>6, <2>7 DEF Linked
<1>3. CASE u = b
  <2>1. client[u].pc # None /\ media[client[u].pc].kind = "start" => client[u].call = client[u].pc
    BY <1>3 DEF LinkBase, PlaceInv, OwnCall
  <2>2. OfferOK(a, b)'
    BY <1>3, <2>1 DEF OfferOK, Told, InCall
  <2>3. EndOK(a, b)'
    BY <1>3, <2>1 DEF EndOK, Offered, InCall
  <2>4. AnswerOK(a, b)'
    BY <1>3, <2>1 DEF AnswerOK, Offered, InCall, Made
  <2>5. OfThePair(a, b)'
    BY <1>3, <2>1 DEF OfThePair
  <2>6. CalleeOK(a, b)'
    BY <1>3, <2>1 DEF CalleeOK, InCall, Told, Replied
  <2>7. CallerOK(a, b)'
    <3>1. AllFields /\ AllFields' /\ OfThePair(a, b) /\ CalleeOK(a, b) /\ CallerOK(a, b)
      BY <1>0
    <3>2. u \in Straight'
      BY <1>0, <1>3
    <3> HIDE <1>0
    <3> SUFFICES ASSUME NEW x, NEW p, x = client'[a].call, p = media'[x].remote,
                        client'[a].peer = b, x # None, media'[x].by = a
                 PROVE  /\ p # None =>
                             /\ media'[p].by = b /\ media'[p].remote = x
                             /\ media'[p].kind = "accept" /\ Made(p)'
                             /\ InCall(b, x, a)' => client'[b].pc = p
                        /\ media'[x].stage = "settled" =>
                             \/ Offered(a, b, x)' \/ InCall(b, x, a)' \/ Told(b, a, x)'
                             \/ Replied(b, a, x)' \/ p # None
      BY DEF CallerOK
    <3>3. /\ x = client[a].call /\ x \in Prompts /\ media[x].by = a /\ client[a].peer = b
          /\ p = media[x].remote /\ media'[x].stage = media[x].stage
      BY <1>3, <3>1
    <3>4. p # None =>
            /\ p \in Prompts /\ media[p].by = b /\ media[p].remote = x
            /\ media[p].kind = "accept" /\ Made(p)
      BY <3>1, <3>3 DEF CallerOK
    <3>5. media[x].stage = "settled" =>
            Offered(a, b, x) \/ InCall(b, x, a) \/ Told(b, a, x) \/ Replied(b, a, x) \/ p # None
      BY <3>1, <3>3 DEF CallerOK
    <3>6. InCall(b, x, a) => Replied(b, a, x) \/ p # None
      BY <1>3, <2>1, <3>1, <3>2, <3>3
         DEF InCall, OfThePair, CalleeOK, LeavesUnheard
    <3>7. p # None => Made(p)'
      BY <3>4 DEF Made
    <3>8. ~InCall(b, x, a)'
      BY <1>3, <3>3, NoneIsNobody DEF InCall
    <3>9. /\ Offered(a, b, x)' <=> Offered(a, b, x)
          /\ Told(b, a, x)' <=> Told(b, a, x)
          /\ Replied(b, a, x)' <=> Replied(b, a, x)
      BY DEF Offered, Told, Replied
    <3> QED
      BY <3>3, <3>4, <3>5, <3>6, <3>7, <3>8, <3>9
  <2> QED
    BY <2>2, <2>3, <2>4, <2>5, <2>6, <2>7 DEF Linked
<1> QED
  BY <1>1, <1>2, <1>3

\* u is told that its call is over.
LEMMA EndHeardLinks ==
  ASSUME LinkBase, NEW u \in Clients, NEW f \in Frame,
         Leaves(u), Takes(u, f), f.type \in Ends, client[u].status # "idle",
         Admitted(u, f), u \in Straight' => f.call = client[u].call,
         NEW a \in Clients, NEW b \in Clients, ThePair(a, b)
  PROVE  Linked(a, b)'
<1>0. AllFields /\ AllFields' /\ Linked(a, b) /\ Linked(b, a) /\ a # b
      /\ {a, b} \subseteq Straight /\ {a, b} \subseteq Straight'
  BY TypesFields DEF LinkBase, ThePair
<1>1. CASE u \notin {a, b}
  <2>1. PairRests(a, b)
    BY <1>0, <1>1
       DEF PairRests, AllFields, Leaves, OthersStay, ClientStays, MediumStays, Idle, Ends,
             Takes
  <2> QED
    BY <2>1, <1>0, Elsewhere DEF LinkBase
<1> USE <1>0, ComingFields
   DEF Linked, AllFields, Leaves, OthersStay, ClientStays, MediumStays, Idle, Ends, Takes
<1>2. CASE u = a
  <2>1. client[u].peer = f.from
    BY <1>2 DEF LinkBase, PlaceInv, OwnCall, Admitted
  <2>2. OfferOK(a, b)'
    BY <1>2, <2>1 DEF OfferOK, Told, InCall, EndOK, Offered, OfThePair
  <2>3. EndOK(a, b)'
    BY <1>2, <2>1 DEF EndOK, Offered, InCall
  <2>4. AnswerOK(a, b)'
    BY <1>2, <2>1 DEF AnswerOK, Offered, InCall, Made
  <2>5. OfThePair(a, b)'
    BY <1>2, <2>1 DEF OfThePair
  <2>6. CalleeOK(a, b)'
    BY <1>2, <2>1 DEF CalleeOK, InCall, Told, Replied, OfThePair, EndOK
  <2>7. CallerOK(a, b)'
    BY <1>2, <2>1 DEF CallerOK, InCall, Told, Replied, Offered, Made
  <2> QED
    BY <2>2, <2>3, <2>4, <2>5, <2>6, <2>7 DEF Linked
<1>3. CASE u = b
  <2>1. client[u].peer = f.from
    BY <1>3 DEF LinkBase, PlaceInv, OwnCall, Admitted
  <2>2. OfferOK(a, b)'
    BY <1>3, <2>1 DEF OfferOK, Told, InCall
  <2>3. EndOK(a, b)'
    BY <1>3, <2>1 DEF EndOK, Offered, InCall
  <2>4. AnswerOK(a, b)'
    BY <1>3, <2>1 DEF AnswerOK, Offered, InCall, Made
  <2>5. OfThePair(a, b)'
    BY <1>3, <2>1 DEF OfThePair
  <2>6. CalleeOK(a, b)'
    BY <1>3, <2>1 DEF CalleeOK, InCall, Told, Replied
  <2>7. CallerOK(a, b)'
    BY <1>3, <2>1
       DEF CallerOK, InCall, Told, Replied, Offered, Made, OfThePair, EndOK
  <2> QED
    BY <2>2, <2>3, <2>4, <2>5, <2>6, <2>7 DEF Linked
<1> QED
  BY <1>1, <1>2, <1>3

\* u ignores an end, of somebody who is not its peer.
LEMMA EndIgnoredLinks ==
  ASSUME LinkBase, NEW u \in Clients, NEW f \in Frame,
         Rests, Takes(u, f), f.type \in Ends, ~(Admitted(u, f) /\ client[u].status # "idle"),
         NEW a \in Clients, NEW b \in Clients, ThePair(a, b)
  PROVE  Linked(a, b)'
<1>0. AllFields /\ AllFields' /\ Linked(a, b) /\ Linked(b, a) /\ a # b
      /\ {a, b} \subseteq Straight /\ {a, b} \subseteq Straight'
  BY TypesFields DEF LinkBase, ThePair
<1>1. CASE u \notin {a, b}
  <2>1. PairRests(a, b)
    BY <1>0, <1>1 DEF PairRests, AllFields, Rests, ClientStays, MediumStays, Ends, Takes
  <2> QED
    BY <2>1, <1>0, Elsewhere DEF LinkBase
<1> USE <1>0, ComingFields
   DEF Linked, AllFields, Rests, ClientStays, MediumStays, Ends, Takes
<1>2. CASE u = a
  <2>1. client[u].peer # f.from
    BY <1>2 DEF LinkBase, BeforeTheCall, Admitted, Takes, AllFields, Frame
  <2>2. OfferOK(a, b)'
    BY <1>2, <2>1 DEF OfferOK, Told, InCall
  <2>3. EndOK(a, b)'
    BY <1>2, <2>1 DEF EndOK, Offered, InCall
  <2>4. AnswerOK(a, b)'
    BY <1>2, <2>1 DEF AnswerOK, Offered, InCall, Made
  <2>5. OfThePair(a, b)'
    BY <1>2, <2>1 DEF OfThePair
  <2>6. CalleeOK(a, b)'
    BY <1>2, <2>1 DEF CalleeOK, InCall, Told, Replied
  <2>7. CallerOK(a, b)'
    BY <1>2, <2>1 DEF CallerOK, InCall, Told, Replied, Offered, Made
  <2> QED
    BY <2>2, <2>3, <2>4, <2>5, <2>6, <2>7 DEF Linked
<1>3. CASE u = b
  <2>1. client[u].peer # f.from
    BY <1>3 DEF LinkBase, BeforeTheCall, Admitted, Takes, AllFields, Frame
  <2>2. OfferOK(a, b)'
    BY <1>3, <2>1 DEF OfferOK, Told, InCall, EndOK
  <2>3. EndOK(a, b)'
    BY <1>3, <2>1 DEF EndOK, Offered, InCall
  <2>4. AnswerOK(a, b)'
    BY <1>3, <2>1 DEF AnswerOK, Offered, InCall, Made
  <2>5. OfThePair(a, b)'
    BY <1>3, <2>1 DEF OfThePair
  <2>6. CalleeOK(a, b)'
    BY <1>3, <2>1 DEF CalleeOK, InCall, Told, Replied, EndOK
  <2>7. CallerOK(a, b)'
    BY <1>3, <2>1 DEF CallerOK, InCall, Told, Replied, Offered, Made
  <2> QED
    BY <2>2, <2>3, <2>4, <2>5, <2>6, <2>7 DEF Linked
<1> QED
  BY <1>1, <1>2, <1>3

\* u ignores an answer.
LEMMA AnswerIgnoredLinks ==
  ASSUME LinkBase, NEW u \in Clients, NEW f \in Frame,
         Rests, Takes(u, f), f.type = "answer", ~(Admitted(u, f) /\ Unanswered(u)),
         NEW a \in Clients, NEW b \in Clients, ThePair(a, b)
  PROVE  Linked(a, b)'
<1>0. AllFields /\ AllFields' /\ Linked(a, b) /\ Linked(b, a) /\ a # b
      /\ {a, b} \subseteq Straight /\ {a, b} \subseteq Straight'
  BY TypesFields DEF LinkBase, ThePair
<1>1. CASE u \notin {a, b}
  <2>1. PairRests(a, b)
    BY <1>0, <1>1 DEF PairRests, AllFields, Rests, ClientStays, MediumStays, Ends, Takes
  <2> QED
    BY <2>1, <1>0, Elsewhere DEF LinkBase
<1> USE <1>0, ComingFields
   DEF Linked, AllFields, Rests, ClientStays, MediumStays, Ends, Takes
<1>2. CASE u = a
  <2>1. OfferOK(a, b)'
    BY <1>2 DEF OfferOK, Told, InCall
  <2>2. EndOK(a, b)'
    BY <1>2 DEF EndOK, Offered, InCall
  <2>3. AnswerOK(a, b)'
    BY <1>2 DEF AnswerOK, Offered, InCall, Made
  <2>4. OfThePair(a, b)'
    BY <1>2 DEF OfThePair
  <2>5. CalleeOK(a, b)'
    BY <1>2 DEF CalleeOK, InCall, Told, Replied, OfThePair, AnswerOK, Admitted, Unanswered
  <2>6. CallerOK(a, b)'
    <3>1. AllFields /\ AllFields' /\ OfThePair(a, b) /\ AnswerOK(b, a) /\ CallerOK(a, b)
      BY <1>0
    <3>2. a # b /\ u \in Straight /\ u \in Straight'
      BY <1>0, <1>2
    <3> HIDE <1>0
    <3> QED
      BY <1>2, <3>1, <3>2
         DEF CallerOK, InCall, Told, Replied, Offered, Made, OfThePair, AnswerOK, Admitted,
               Unanswered
  <2> QED
    BY <2>1, <2>2, <2>3, <2>4, <2>5, <2>6 DEF Linked
<1>3. CASE u = b
  <2>1. OfferOK(a, b)'
    BY <1>3 DEF OfferOK, Told, InCall
  <2>2. EndOK(a, b)'
    BY <1>3 DEF EndOK, Offered, InCall
  <2>3. AnswerOK(a, b)'
    BY <1>3 DEF AnswerOK, Offered, InCall, Made
  <2>4. OfThePair(a, b)'
    BY <1>3 DEF OfThePair
  <2>5. CalleeOK(a, b)'
    BY <1>3 DEF CalleeOK, InCall, Told, Replied
  <2>6. CallerOK(a, b)'
    BY <1>3 DEF CallerOK, InCall, Told, Replied, Offered, Made
  <2> QED
    BY <2>1, <2>2, <2>3, <2>4, <2>5, <2>6 DEF Linked
<1> QED
  BY <1>1, <1>2, <1>3

\* u takes an answer.
LEMMA HeardLinks ==
  ASSUME LinkBase, NEW u \in Clients, NEW f \in Frame,
         Hears(u, f), Takes(u, f), f.type = "answer", Admitted(u, f),
         NEW a \in Clients, NEW b \in Clients, ThePair(a, b)
  PROVE  Linked(a, b)'
<1>0. AllFields /\ AllFields' /\ Linked(a, b) /\ Linked(b, a) /\ a # b
      /\ {a, b} \subseteq Straight /\ {a, b} \subseteq Straight'
  BY TypesFields DEF LinkBase, ThePair
<1>1. CASE u \notin {a, b}
  <2>1. PairRests(a, b)
    BY <1>0, <1>1
       DEF PairRests, AllFields, Hears, OthersStay, ClientStays, MediumStays, Ends, Takes,
             Unanswered
  <2> QED
    BY <2>1, <1>0, Elsewhere DEF LinkBase
<1> USE <1>0, ComingFields
   DEF Linked, AllFields, Hears, OthersStay, ClientStays, MediumStays, Ends, Takes
<1>2. CASE u = a
  <2>1. client[u].pc # None /\ client[u].call = client[u].pc
        /\ media[client[u].pc].kind = "start" /\ media[client[u].pc].remote = None
    BY <1>2 DEF LinkBase, PlaceInv, OwnCall, Hears, Unanswered
  <2>2. f.call = client[u].call
    BY <1>2 DEF Hears
  <2>3. OfferOK(a, b)'
    BY <1>2, <2>1, <2>2 DEF OfferOK, Told, InCall, AnswerOK, Offered, Admitted
  <2>4. EndOK(a, b)'
    BY <1>2, <2>1, <2>2 DEF EndOK, Offered, InCall
  <2>5. AnswerOK(a, b)'
    BY <1>2, <2>1, <2>2 DEF AnswerOK, Offered, InCall, Made
  <2>6. OfThePair(a, b)'
    BY <1>2, <2>1, <2>2 DEF OfThePair
  <2>7. CalleeOK(a, b)'
    BY <1>2, <2>1, <2>2 DEF CalleeOK, InCall, Told, Replied, OfThePair, AnswerOK, Admitted
  <2>8. CallerOK(a, b)'
    BY <1>2, <2>1, <2>2
       DEF CallerOK, InCall, Told, Replied, Offered, Made, OfThePair, AnswerOK, Admitted
  <2> QED
    BY <2>3, <2>4, <2>5, <2>6, <2>7, <2>8 DEF Linked
<1>3. CASE u = b
  <2>1. client[u].pc # None /\ client[u].call = client[u].pc
        /\ media[client[u].pc].kind = "start" /\ media[client[u].pc].remote = None
    BY <1>3 DEF LinkBase, PlaceInv, OwnCall, Hears, Unanswered
  <2>2. f.call = client[u].call
    BY <1>3 DEF Hears
  <2>3. OfferOK(a, b)'
    BY <1>3, <2>1, <2>2 DEF OfferOK, Told, InCall
  <2>4. EndOK(a, b)'
    BY <1>3, <2>1, <2>2 DEF EndOK, Offered, InCall
  <2>5. AnswerOK(a, b)'
    BY <1>3, <2>1, <2>2 DEF AnswerOK, Offered, InCall, Made
  <2>6. OfThePair(a, b)'
    BY <1>3, <2>1, <2>2 DEF OfThePair
  <2>7. CalleeOK(a, b)'
    BY <1>3, <2>1, <2>2 DEF CalleeOK, InCall, Told, Replied
  <2>8. CallerOK(a, b)'
    BY <1>3, <2>1, <2>2 DEF CallerOK, InCall, Told, Replied, Offered, Made
  <2> QED
    BY <2>3, <2>4, <2>5, <2>6, <2>7, <2>8 DEF Linked
<1> QED
  BY <1>1, <1>2, <1>3

\* u is busy.
LEMMA BusyLinks ==
  ASSUME LinkBase, NEW u \in Clients, NEW f \in Frame, NEW g \in Frame,
         Rests, TakesAndSends(u, f, g), f.type = "offer", g.type = "busy", g.call = f.call,
         NEW a \in Clients, NEW b \in Clients, ThePair(a, b)
  PROVE  Linked(a, b)'
<1>0. AllFields /\ AllFields' /\ Linked(a, b) /\ Linked(b, a) /\ a # b
      /\ {a, b} \subseteq Straight /\ {a, b} \subseteq Straight'
  BY TypesFields DEF LinkBase, ThePair
<1>1. CASE u \notin {a, b}
  <2>1. PairRests(a, b)
    BY <1>0, <1>1
       DEF PairRests, AllFields, Rests, ClientStays, MediumStays, Ends, TakesAndSends
  <2> QED
    BY <2>1, <1>0, Elsewhere DEF LinkBase
<1> USE <1>0, ComingFields
   DEF Linked, AllFields, Rests, ClientStays, MediumStays, Ends, TakesAndSends
<1>2. CASE u = a
  <2>1. OfferOK(a, b)'
    BY <1>2 DEF OfferOK, Told, InCall
  <2>2. EndOK(a, b)'
    BY <1>2 DEF EndOK, Offered, InCall, OfferOK
  <2>3. AnswerOK(a, b)'
    BY <1>2 DEF AnswerOK, Offered, InCall, Made
  <2>4. OfThePair(a, b)'
    BY <1>2 DEF OfThePair
  <2>5. CalleeOK(a, b)'
    BY <1>2 DEF CalleeOK, InCall, Told, Replied
  <2>6. CallerOK(a, b)'
    BY <1>2 DEF CallerOK, InCall, Told, Replied, Offered, Made
  <2> QED
    BY <2>1, <2>2, <2>3, <2>4, <2>5, <2>6 DEF Linked
<1>3. CASE u = b
  <2>1. OfferOK(a, b)'
    BY <1>3 DEF OfferOK, Told, InCall
  <2>2. EndOK(a, b)'
    BY <1>3 DEF EndOK, Offered, InCall
  <2>3. AnswerOK(a, b)'
    BY <1>3 DEF AnswerOK, Offered, InCall, Made
  <2>4. OfThePair(a, b)'
    BY <1>3 DEF OfThePair
  <2>5. CalleeOK(a, b)'
    BY <1>3 DEF CalleeOK, InCall, Told, Replied
  <2>6. CallerOK(a, b)'
    BY <1>3 DEF CallerOK, InCall, Told, Replied, Offered, Made
  <2> QED
    BY <2>1, <2>2, <2>3, <2>4, <2>5, <2>6 DEF Linked
<1> QED
  BY <1>1, <1>2, <1>3

\* u rings.
LEMMA RingsLinks ==
  ASSUME LinkBase, NEW u \in Clients, NEW f \in Frame,
         Rings(u, f), Takes(u, f), f.type = "offer",
         NEW a \in Clients, NEW b \in Clients, ThePair(a, b)
  PROVE  Linked(a, b)'
<1>0. AllFields /\ AllFields' /\ Linked(a, b) /\ Linked(b, a) /\ a # b
      /\ {a, b} \subseteq Straight /\ {a, b} \subseteq Straight'
  BY TypesFields DEF LinkBase, ThePair
<1>1. CASE u \notin {a, b}
  <2>1. PairRests(a, b)
    BY <1>0, <1>1
       DEF PairRests, AllFields, Rings, OthersStay, ClientStays, MediumStays, Ends, Takes
  <2> QED
    BY <2>1, <1>0, Elsewhere DEF LinkBase
<1> USE <1>0, ComingFields
   DEF Linked, AllFields, Rings, OthersStay, ClientStays, MediumStays, Ends, Takes
<1>2. CASE u = a
  <2>1. client[u].peer = None /\ client[u].pc = None
    BY <1>2 DEF Rings, LinkBase, BeforeTheCall, Types, MediaIsInStore, Straight
  <2>2. OfferOK(a, b)'
    BY <1>2, <2>1 DEF OfferOK, Told, InCall
  <2>3. EndOK(a, b)'
    BY <1>2, <2>1 DEF EndOK, Offered, InCall, OfferOK
  <2>4. AnswerOK(a, b)'
    BY <1>2, <2>1 DEF AnswerOK, Offered, InCall, Made, OfferOK
  <2>5. OfThePair(a, b)'
    BY <1>2, <2>1 DEF OfThePair, OfferOK
  <2>6. CalleeOK(a, b)'
    BY <1>2, <2>1 DEF CalleeOK, InCall, Told, Replied, OfThePair, OfferOK
  <2>7. CallerOK(a, b)'
    BY <1>2, <2>1 DEF CallerOK, InCall, Told, Replied, Offered, Made, OfferOK
  <2> QED
    BY <2>2, <2>3, <2>4, <2>5, <2>6, <2>7 DEF Linked
<1>3. CASE u = b
  <2>1. client[u].peer = None /\ client[u].pc = None
    BY <1>3 DEF Rings, LinkBase, BeforeTheCall, Types, MediaIsInStore, Straight
  <2>2. OfferOK(a, b)'
    BY <1>3, <2>1 DEF OfferOK, Told, InCall
  <2>3. EndOK(a, b)'
    BY <1>3, <2>1 DEF EndOK, Offered, InCall
  <2>4. AnswerOK(a, b)'
    BY <1>3, <2>1 DEF AnswerOK, Offered, InCall, Made
  <2>5. OfThePair(a, b)'
    BY <1>3, <2>1 DEF OfThePair
  <2>6. CalleeOK(a, b)'
    BY <1>3, <2>1 DEF CalleeOK, InCall, Told, Replied, OfferOK
  <2>7. CallerOK(a, b)'
    BY <1>3, <2>1
       DEF CallerOK, InCall, Told, Replied, Offered, Made, OfferOK, OfThePair
  <2> QED
    BY <2>2, <2>3, <2>4, <2>5, <2>6, <2>7 DEF Linked
<1> QED
  BY <1>1, <1>2, <1>3

\* A prompt of u is granted.
LEMMA GrantsLinks ==
  ASSUME LinkBase, NEW u \in Clients, NEW m \in Prompts,
         Grants(u, m), ComingStays,
         NEW a \in Clients, NEW b \in Clients, ThePair(a, b)
  PROVE  Linked(a, b)'
<1>0. AllFields /\ AllFields' /\ Linked(a, b) /\ Linked(b, a) /\ a # b
      /\ {a, b} \subseteq Straight /\ {a, b} \subseteq Straight'
  BY TypesFields DEF LinkBase, ThePair
<1>1. CASE u \notin {a, b}
  <2>1. PairRests(a, b)
    BY <1>0, <1>1
       DEF PairRests, AllFields, Grants, Prompting, OthersStay, OtherMediaStay, ClientStays,
             MediumStays, ComingStays
  <2> QED
    BY <2>1, <1>0, Elsewhere DEF LinkBase
<1> USE <1>0, ComingFields
   DEF Linked, AllFields, Grants, Prompting, OthersStay, OtherMediaStay, ClientStays,
         MediumStays, ComingStays
<1>2. CASE u = a
  <2>1. client[u].pc = None /\ media[m].stage = "prompt" /\ media[m].remote = None /\ ~media[m].described
    BY <1>2 DEF Grants, LinkBase, PlaceInv, Fresh
  <2>2. media[m].kind = "start" => client[u].call = m
    BY <1>2 DEF Grants, LinkBase, PlaceInv, OwnCall
  <2>3. client[u].pendingOffer # None => client[u].peer # None /\ media[client[u].pendingOffer].by = client[u].peer
    BY <1>2 DEF LinkBase, OfferIsPeers
  <2>4. OfferOK(a, b)'
    BY <1>2, <2>1, <2>2, <2>3 DEF OfferOK, Told, InCall
  <2>5. EndOK(a, b)'
    BY <1>2, <2>1, <2>2, <2>3 DEF EndOK, Offered, InCall
  <2>6. AnswerOK(a, b)'
    BY <1>2, <2>1, <2>2, <2>3 DEF AnswerOK, Offered, InCall, Made
  <2>7. OfThePair(a, b)'
    BY <1>2, <2>1, <2>2, <2>3 DEF OfThePair
  <2>8. CalleeOK(a, b)'
    BY <1>2, <2>1, <2>2, <2>3 DEF CalleeOK, InCall, Told, Replied, OfThePair
  <2>9. CallerOK(a, b)'
    BY <1>2, <2>1, <2>2, <2>3 DEF CallerOK, InCall, Told, Replied, Offered, Made, OfThePair
  <2> QED
    BY <2>4, <2>5, <2>6, <2>7, <2>8, <2>9 DEF Linked
<1>3. CASE u = b
  <2>1. client[u].pc = None /\ media[m].stage = "prompt" /\ media[m].remote = None /\ ~media[m].described
    BY <1>3 DEF Grants, LinkBase, PlaceInv, Fresh
  <2>2. media[m].kind = "start" => client[u].call = m
    BY <1>3 DEF Grants, LinkBase, PlaceInv, OwnCall
  <2>3. client[u].pendingOffer # None => client[u].peer # None /\ media[client[u].pendingOffer].by = client[u].peer
    BY <1>3 DEF LinkBase, OfferIsPeers
  <2>4. OfferOK(a, b)'
    BY <1>3, <2>1, <2>2, <2>3 DEF OfferOK, Told, InCall
  <2>5. EndOK(a, b)'
    BY <1>3, <2>1, <2>2, <2>3 DEF EndOK, Offered, InCall
  <2>6. AnswerOK(a, b)'
    BY <1>3, <2>1, <2>2, <2>3 DEF AnswerOK, Offered, InCall, Made
  <2>7. OfThePair(a, b)'
    BY <1>3, <2>1, <2>2, <2>3 DEF OfThePair
  <2>8. CalleeOK(a, b)'
    BY <1>3, <2>1, <2>2, <2>3 DEF CalleeOK, InCall, Told, Replied
  <2>9. CallerOK(a, b)'
    BY <1>3, <2>1, <2>2, <2>3 DEF CallerOK, InCall, Told, Replied, Offered, Made
  <2> QED
    BY <2>4, <2>5, <2>6, <2>7, <2>8, <2>9 DEF Linked
<1> QED
  BY <1>1, <1>2, <1>3

\* u sends its offer.
LEMMA OffersLinks ==
  ASSUME LinkBase, NEW u \in Clients, NEW m \in Prompts, NEW g \in Frame,
         Offers(u, m), Sends(g), g.type = "offer", g.sdp = m, g.from = u,
         g.to = client[u].peer, g.call = client[u].call,
         NEW a \in Clients, NEW b \in Clients, ThePair(a, b)
  PROVE  Linked(a, b)'
<1>0. AllFields /\ AllFields' /\ Linked(a, b) /\ Linked(b, a) /\ a # b
      /\ {a, b} \subseteq Straight /\ {a, b} \subseteq Straight'
  BY TypesFields DEF LinkBase, ThePair
<1>1. CASE u \notin {a, b}
  <2>1. PairRests(a, b)
    BY <1>0, <1>1
       DEF PairRests, AllFields, Offers, OtherMediaStay, ClientStays, MediumStays, Sends
  <2> QED
    BY <2>1, <1>0, Elsewhere DEF LinkBase
<1> USE <1>0, ComingFields
   DEF Linked, AllFields, Offers, OtherMediaStay, ClientStays, MediumStays, Sends
<1>2. CASE u = a
  <2>1. client[u].call = m /\ media[m].remote = None
    BY <1>2 DEF Offers, LinkBase, PlaceInv, OwnCall, Fresh
  <2>2. OfferOK(a, b)'
    BY <1>2, <2>1 DEF OfferOK, Told, InCall, OfThePair
  <2>3. EndOK(a, b)'
    BY <1>2, <2>1 DEF EndOK, Offered, InCall, OfThePair, Ends
  <2>4. AnswerOK(a, b)'
    BY <1>2, <2>1 DEF AnswerOK, Offered, InCall, Made
  <2>5. OfThePair(a, b)'
    BY <1>2, <2>1 DEF OfThePair
  <2>6. CalleeOK(a, b)'
    BY <1>2, <2>1 DEF CalleeOK, InCall, Told, Replied, OfThePair, Ends
  <2>7. CallerOK(a, b)'
    BY <1>2, <2>1 DEF CallerOK, InCall, Told, Replied, Offered, Made, OfThePair
  <2> QED
    BY <2>2, <2>3, <2>4, <2>5, <2>6, <2>7 DEF Linked
<1>3. CASE u = b
  <2>1. client[u].call = m /\ media[m].remote = None
    BY <1>3 DEF Offers, LinkBase, PlaceInv, OwnCall, Fresh
  <2>2. OfferOK(a, b)'
    BY <1>3, <2>1 DEF OfferOK, Told, InCall, OfThePair
  <2>3. EndOK(a, b)'
    BY <1>3, <2>1 DEF EndOK, Offered, InCall, OfThePair, Ends
  <2>4. AnswerOK(a, b)'
    BY <1>3, <2>1 DEF AnswerOK, Offered, InCall, Made
  <2>5. OfThePair(a, b)'
    BY <1>3, <2>1 DEF OfThePair
  <2>6. CalleeOK(a, b)'
    BY <1>3, <2>1 DEF CalleeOK, InCall, Told, Replied, OfThePair
  <2>7. CallerOK(a, b)'
    BY <1>3, <2>1 DEF CallerOK, InCall, Told, Replied, Offered, Made, OfThePair, Ends
  <2> QED
    BY <2>2, <2>3, <2>4, <2>5, <2>6, <2>7 DEF Linked
<1> QED
  BY <1>1, <1>2, <1>3

\* u sends its answer.
LEMMA AnswersLinks ==
  ASSUME LinkBase, NEW u \in Clients, NEW m \in Prompts, NEW g \in Frame,
         Answers(u, m), Sends(g), g.type = "answer", g.sdp = client[u].pc, g.from = u,
         g.to = client[u].peer, g.call = client[u].call,
         NEW a \in Clients, NEW b \in Clients, ThePair(a, b)
  PROVE  Linked(a, b)'
<1>0. AllFields /\ AllFields' /\ Linked(a, b) /\ Linked(b, a) /\ a # b
      /\ {a, b} \subseteq Straight /\ {a, b} \subseteq Straight'
  BY TypesFields DEF LinkBase, ThePair
<1>1. CASE u \notin {a, b}
  <2>1. PairRests(a, b)
    BY <1>0, <1>1
       DEF PairRests, AllFields, Answers, Answerable, OthersStay, ClientStays, MediumStays,
             Sends
  <2> QED
    BY <2>1, <1>0, Elsewhere DEF LinkBase
<1> USE <1>0, ComingFields
   DEF Linked, AllFields, Answers, Answerable, OthersStay, ClientStays, MediumStays, Sends
<1>2. CASE u = a
  <2>1. Made(client[u].pc)
    BY <1>2 DEF Answers, Answerable, LinkBase, PlaceInv, HeldIsOpen
  <2>2. OfferOK(a, b)'
    BY <1>2, <2>1 DEF OfferOK, Told, InCall, Ends
  <2>3. EndOK(a, b)'
    BY <1>2, <2>1 DEF EndOK, Offered, InCall, Ends
  <2>4. AnswerOK(a, b)'
    BY <1>2, <2>1 DEF AnswerOK, Offered, InCall, Made, OfThePair, OfferOK
  <2>5. OfThePair(a, b)'
    BY <1>2, <2>1 DEF OfThePair
  <2>6. CalleeOK(a, b)'
    BY <1>2, <2>1 DEF CalleeOK, InCall, Told, Replied
  <2>7. CallerOK(a, b)'
    BY <1>2, <2>1 DEF CallerOK, InCall, Told, Replied, Offered, Made, OfThePair
  <2> QED
    BY <2>2, <2>3, <2>4, <2>5, <2>6, <2>7 DEF Linked
<1>3. CASE u = b
  <2>1. Made(client[u].pc)
    BY <1>3 DEF Answers, Answerable, LinkBase, PlaceInv, HeldIsOpen
  <2>2. OfferOK(a, b)'
    BY <1>3, <2>1 DEF OfferOK, Told, InCall
  <2>3. EndOK(a, b)'
    BY <1>3, <2>1 DEF EndOK, Offered, InCall
  <2>4. AnswerOK(a, b)'
    BY <1>3, <2>1 DEF AnswerOK, Offered, InCall, Made
  <2>5. OfThePair(a, b)'
    BY <1>3, <2>1 DEF OfThePair
  <2>6. CalleeOK(a, b)'
    BY <1>3, <2>1 DEF CalleeOK, InCall, Told, Replied
  <2>7. CallerOK(a, b)'
    BY <1>3, <2>1 DEF CallerOK, InCall, Told, Replied, Offered, Made, Ends, OfThePair
  <2> QED
    BY <2>2, <2>3, <2>4, <2>5, <2>6, <2>7 DEF Linked
<1> QED
  BY <1>1, <1>2, <1>3

\* Membership and order in a queue that grows at the end or loses its head.
LEMMA HoldsAppend ==
  ASSUME NEW s \in Seq(Frame), NEW h \in Frame
  PROVE  /\ \A f \in Frame : Holds(Append(s, h), f) <=> Holds(s, f) \/ f = h
         /\ \A f, g \in Frame : Before(Append(s, h), f, g) => Before(s, f, g) \/ (Holds(s, f) /\ g = h)
<1> DEFINE t == Append(s, h)
<1>1. /\ Len(t) = Len(s) + 1 /\ t[Len(s) + 1] = h
      /\ \A i \in 1..Len(s) : t[i] = s[i]
      /\ Len(s) \in Nat
  OBVIOUS
<1> HIDE DEF t
<1>2. \A f \in Frame : Holds(t, f) => Holds(s, f) \/ f = h
  BY <1>1 DEF Holds
<1>3. \A f \in Frame : Holds(s, f) => Holds(t, f)
  BY <1>1 DEF Holds
<1>4. Holds(t, h)
  BY <1>1 DEF Holds
<1>5. \A f, g \in Frame : Before(t, f, g) => Before(s, f, g) \/ (Holds(s, f) /\ g = h)
  BY <1>1 DEF Holds, Before
<1> QED
  BY <1>2, <1>3, <1>4, <1>5 DEF t

LEMMA HoldsTail ==
  ASSUME NEW s \in Seq(Frame), s # <<>>
  PROVE  /\ Head(s) \in Frame /\ Holds(s, Head(s)) /\ Tail(s) \in Seq(Frame)
         /\ \A f \in Frame : Holds(Tail(s), f) => Holds(s, f) /\ Before(s, Head(s), f)
         /\ \A f \in Frame : Holds(s, f) => f = Head(s) \/ Holds(Tail(s), f)
         /\ \A f, g \in Frame : Before(Tail(s), f, g) => Before(s, f, g)
<1> DEFINE t == Tail(s)
<1>1. /\ Len(t) = Len(s) - 1 /\ Len(s) \in Nat /\ Len(s) > 0
      /\ \A i \in 1..Len(t) : t[i] = s[i + 1]
      /\ Head(s) = s[1] /\ Head(s) \in Frame /\ t \in Seq(Frame)
  OBVIOUS
<1> HIDE DEF t
<1>2. Holds(s, Head(s))
  BY <1>1 DEF Holds
<1>3. \A f \in Frame : Holds(t, f) => Holds(s, f) /\ Before(s, Head(s), f)
  BY <1>1 DEF Holds, Before
<1>4. \A f \in Frame : Holds(s, f) => f = Head(s) \/ Holds(t, f)
  <2> SUFFICES ASSUME NEW f \in Frame, NEW i \in 1..Len(s), s[i] = f, i # 1
               PROVE  Holds(t, f)
    BY <1>1 DEF Holds
  <2>1. i - 1 \in 1..Len(t) /\ t[i - 1] = s[i]
    BY <1>1
  <2> QED
    BY <2>1 DEF Holds
<1>5. \A f, g \in Frame : Before(t, f, g) => Before(s, f, g)
  BY <1>1 DEF Before
<1> QED
  BY <1>1, <1>2, <1>3, <1>4, <1>5 DEF t

\* The types of the two queues.
Queues == uplink \in [Clients -> Seq(Frame)] /\ inbox \in [Clients -> Seq(Frame)]

\* A step leaves the sockets as they are.
WireStays == UNCHANGED <<up, flushing>> /\ strayed \subseteq strayed'

\* Each change of the queues keeps the wire, and moves the frames as said above.
LEMMA WireRests ==
  ASSUME Wire, WireStays, UNCHANGED <<uplink, inbox>>
  PROVE  Wire' /\ ComingStays
BY DEF Wire, WireStays, SocketsHold, Addressed, OfferFirst, ComingStays, Coming, Straight

LEMMA WireSends ==
  ASSUME Queues, Wire, WireStays, NEW u \in Clients, NEW v \in Clients, u # v, NEW g \in Frame,
         g.from = u, g.to = v,
         uplink' = [uplink EXCEPT ![u] = Append(@, g)], inbox' = inbox,
         g.type = "offer" /\ {u, v} \subseteq Straight => \A f \in Coming(u, v) : f.call # g.call
  PROVE  Wire' /\ Sends(g)
<1>1. /\ \A f \in Frame : Holds(uplink'[u], f) <=> Holds(uplink[u], f) \/ f = g
      /\ \A f, h \in Frame :
           Before(uplink'[u], f, h) => Before(uplink[u], f, h) \/ (Holds(uplink[u], f) /\ h = g)
      /\ \A w \in Clients : w # u => uplink'[w] = uplink[w]
  BY HoldsAppend DEF Queues
<1>2. SocketsHold'
  BY DEF Wire, SocketsHold, WireStays
<1>3. Addressed'
  BY <1>1 DEF Wire, Addressed
<1>4. OfferFirst'
  <2> SUFFICES ASSUME NEW a \in Straight', NEW b \in Straight', NEW f \in Frame, NEW h \in Frame,
                      \/ Before(uplink'[a], f, h)
                      \/ Before(inbox[b], f, h)
                      \/ Holds(inbox[b], f) /\ Holds(uplink'[a], h),
                      SameCall(f, h, a, b)
               PROVE  FALSE
    BY DEF OfferFirst
  <2>1. a \in Straight /\ b \in Straight /\ a \in Clients /\ b \in Clients
    BY DEF Straight, WireStays
  <2>2. a = u /\ h = g
    BY <1>1, <2>1 DEF Wire, OfferFirst
  <2>3. b = v /\ f.from = u /\ f.to = v /\ f.call = g.call /\ g.type = "offer"
    BY <2>2 DEF SameCall
  <2>4. f \notin Coming(u, v)
    BY <2>1, <2>2, <2>3
  <2>5. ~Holds(uplink[u], f) /\ ~Holds(inbox[v], f)
    BY <2>3, <2>4 DEF Coming
  <2>6. Before(uplink'[u], f, g) /\ Before(uplink[u], f, g)
    BY <1>1, <2>2, <2>3, <2>5, <2>1 DEF Wire, OfferFirst
  <2> QED
    BY <2>1, <2>2, <2>3, <2>6 DEF Wire, OfferFirst
<1>5. Sends(g)
  BY <1>1 DEF Sends, Coming
<1> QED
  BY <1>2, <1>3, <1>4, <1>5 DEF Wire

LEMMA WireTakes ==
  ASSUME Queues, Wire, WireStays, NEW u \in Clients, inbox[u] # <<>>,
         NEW f \in Frame, f = Head(inbox[u]), Popped(u), uplink' = uplink
  PROVE  Wire' /\ Takes(u, f)
<1>1. /\ f \in Frame /\ Holds(inbox[u], f)
      /\ \A g \in Frame : Holds(inbox'[u], g) => Holds(inbox[u], g) /\ Before(inbox[u], f, g)
      /\ \A g \in Frame : Holds(inbox[u], g) => g = f \/ Holds(inbox'[u], g)
      /\ \A g, h \in Frame : Before(inbox'[u], g, h) => Before(inbox[u], g, h)
      /\ \A w \in Clients : w # u => inbox'[w] = inbox[w]
  BY HoldsTail DEF Queues, Popped
<1>2. SocketsHold'
  BY DEF Wire, SocketsHold, WireStays
<1>3. Addressed'
  BY <1>1 DEF Wire, Addressed
<1>4. OfferFirst'
  BY <1>1 DEF Wire, OfferFirst, Straight, WireStays
<1>5. f.to = u /\ f.from # u /\ f.from \in Clients /\ f \in Coming(f.from, u)
  BY <1>1 DEF Wire, Addressed, Coming, Frame
<1>6. \A a, b \in Clients : (a # f.from \/ b # u) => Coming(a, b)' = Coming(a, b)
  <2> SUFFICES ASSUME NEW a \in Clients, NEW b \in Clients, a # f.from \/ b # u
               PROVE  Coming(a, b)' = Coming(a, b)
    OBVIOUS
  <2>1. \A g \in Frame : g.from = a /\ g.to = b => (Holds(inbox'[b], g) <=> Holds(inbox[b], g))
    BY <1>1, <1>5
  <2> QED
    BY <2>1 DEF Coming
<1>7. /\ Coming(f.from, u)' \subseteq Coming(f.from, u)
      /\ Coming(f.from, u) \subseteq Coming(f.from, u)' \cup {f}
  BY <1>1, <1>5 DEF Coming
<1>8. f.from \in Straight /\ u \in Straight =>
        \A g \in Coming(f.from, u)' : g.type = "offer" => g.call # f.call
  BY <1>1, <1>5 DEF Coming, Wire, OfferFirst, SameCall
<1> QED
  BY <1>1, <1>2, <1>3, <1>4, <1>5, <1>6, <1>7, <1>8 DEF Wire, Takes

LEMMA WireTakesAndSends ==
  ASSUME Queues, Wire, WireStays, NEW u \in Clients, inbox[u] # <<>>,
         NEW f \in Frame, f = Head(inbox[u]), NEW g \in Frame, g.from = u, g.to = f.from, g.type # "offer",
         Popped(u), uplink' = [uplink EXCEPT ![u] = Append(@, g)]
  PROVE  Wire' /\ TakesAndSends(u, f, g)
<1>1. /\ f \in Frame /\ Holds(inbox[u], f)
      /\ \A h \in Frame : Holds(inbox'[u], h) => Holds(inbox[u], h) /\ Before(inbox[u], f, h)
      /\ \A h \in Frame : Holds(inbox[u], h) => h = f \/ Holds(inbox'[u], h)
      /\ \A x, h \in Frame : Before(inbox'[u], x, h) => Before(inbox[u], x, h)
      /\ \A w \in Clients : w # u => inbox'[w] = inbox[w]
  BY HoldsTail DEF Queues, Popped
<1>2. /\ \A h \in Frame : Holds(uplink'[u], h) <=> Holds(uplink[u], h) \/ h = g
      /\ \A x, h \in Frame :
           Before(uplink'[u], x, h) => Before(uplink[u], x, h) \/ (Holds(uplink[u], x) /\ h = g)
      /\ \A w \in Clients : w # u => uplink'[w] = uplink[w]
  BY HoldsAppend DEF Queues
<1>3. SocketsHold'
  BY DEF Wire, SocketsHold, WireStays
<1>4. g.to = f.from
  OBVIOUS
<1>5. f.to = u /\ f.from # u /\ f.from \in Clients /\ f \in Coming(f.from, u)
  BY <1>1 DEF Wire, Addressed, Coming, Frame
<1>6. Addressed'
  BY <1>1, <1>2, <1>4, <1>5 DEF Wire, Addressed
<1>7. OfferFirst'
  BY <1>1, <1>2 DEF Wire, OfferFirst, Straight, WireStays, SameCall
<1>8. \A a, b \in Clients :
        (a # f.from \/ b # u) /\ (a # u \/ b # f.from) => Coming(a, b)' = Coming(a, b)
  <2> SUFFICES ASSUME NEW a \in Clients, NEW b \in Clients, a # f.from \/ b # u, a # u \/ b # f.from
               PROVE  Coming(a, b)' = Coming(a, b)
    OBVIOUS
  <2>1. \A h \in Frame :
          h.from = a /\ h.to = b =>
            /\ Holds(inbox'[b], h) <=> Holds(inbox[b], h)
            /\ Holds(uplink'[a], h) <=> Holds(uplink[a], h)
    BY <1>1, <1>2, <1>4, <1>5
  <2> QED
    BY <2>1 DEF Coming
<1>9. /\ Coming(f.from, u)' \subseteq Coming(f.from, u)
      /\ Coming(f.from, u) \subseteq Coming(f.from, u)' \cup {f}
  BY <1>1, <1>2, <1>5 DEF Coming
<1>10. f.from \in Straight /\ u \in Straight =>
        \A h \in Coming(f.from, u)' : h.type = "offer" => h.call # f.call
  BY <1>1, <1>2, <1>5 DEF Coming, Wire, OfferFirst, SameCall
<1>11. Coming(u, f.from)' = Coming(u, f.from) \cup {g}
  BY <1>1, <1>2, <1>4, <1>5 DEF Coming
<1> QED
  BY <1>1, <1>3, <1>4, <1>5, <1>6, <1>7, <1>8, <1>9, <1>10, <1>11 DEF Wire, TakesAndSends

\* The endpoint task moves a frame from one queue to the other: it stays on its way.
LEMMA WireFansOut ==
  ASSUME Queues, Wire, NEW u \in Clients, FanOut(u)
  PROVE  Wire' /\ ComingStays
<1> DEFINE f == Head(uplink[u])
<1>1. /\ f \in Frame /\ Holds(uplink[u], f)
      /\ \A h \in Frame : Holds(uplink'[u], h) => Holds(uplink[u], h) /\ Before(uplink[u], f, h)
      /\ \A h \in Frame : Holds(uplink[u], h) => h = f \/ Holds(uplink'[u], h)
      /\ \A x, h \in Frame : Before(uplink'[u], x, h) => Before(uplink[u], x, h)
      /\ \A w \in Clients : w # u => uplink'[w] = uplink[w]
  BY HoldsTail DEF Queues, FanOut
<1>2. f.from = u /\ f.to # u /\ f.to \in Clients
  BY <1>1 DEF Wire, Addressed, Frame
<1>3. inbox' = [inbox EXCEPT ![f.to] = Append(@, f)]
  BY <1>2 DEF FanOut, Wire, SocketsHold
<1> HIDE DEF f
<1>4. /\ \A h \in Frame : Holds(inbox'[f.to], h) <=> Holds(inbox[f.to], h) \/ h = f
      /\ \A x, h \in Frame :
           Before(inbox'[f.to], x, h) => Before(inbox[f.to], x, h) \/ (Holds(inbox[f.to], x) /\ h = f)
      /\ \A w \in Clients : w # f.to => inbox'[w] = inbox[w]
  BY <1>1, <1>2, <1>3, HoldsAppend DEF Queues
<1>5. SocketsHold'
  BY DEF Wire, SocketsHold, FanOut
<1>6. Addressed'
  BY <1>1, <1>2, <1>4 DEF Wire, Addressed
<1>7. OfferFirst'
  <2> SUFFICES ASSUME NEW a \in Straight, NEW b \in Straight, NEW x \in Frame, NEW h \in Frame,
                      \/ Before(uplink'[a], x, h)
                      \/ Before(inbox'[b], x, h)
                      \/ Holds(inbox'[b], x) /\ Holds(uplink'[a], h),
                      SameCall(x, h, a, b)
               PROVE  FALSE
    BY DEF OfferFirst, Straight, FanOut
  <2>0. a \in Clients /\ b \in Clients
    BY DEF Straight
  <2>1. CASE Before(uplink'[a], x, h)
    BY <1>1, <2>0, <2>1 DEF Wire, OfferFirst
  <2>2. CASE Before(inbox'[b], x, h)
    BY <1>1, <1>2, <1>4, <2>0, <2>2 DEF Wire, OfferFirst, SameCall
  <2>3. CASE Holds(inbox'[b], x) /\ Holds(uplink'[a], h)
    BY <1>1, <1>2, <1>4, <2>0, <2>3 DEF Wire, OfferFirst, SameCall
  <2> QED
    BY <2>1, <2>2, <2>3
<1>8. ComingStays
  <2> SUFFICES ASSUME NEW a \in Clients, NEW b \in Clients
               PROVE  Coming(a, b)' = Coming(a, b)
    BY DEF ComingStays
  <2>1. \A h \in Frame :
          h.from = a /\ h.to = b =>
            (Holds(uplink'[a], h) \/ Holds(inbox'[b], h) <=> Holds(uplink[a], h) \/ Holds(inbox[b], h))
    BY <1>1, <1>2, <1>4
  <2> QED
    BY <2>1 DEF Coming
<1> QED
  BY <1>5, <1>6, <1>7, <1>8 DEF Wire

-----------------------------------------------------------------------------
(* Each action, on the place of the media and on the calls of the pairs. *)

\* What is known of a step when CallInv is proved.
Stores == StoreInv /\ StoreInv' /\ NetInv /\ PlaceInv

LEMMA StoresBase ==
  ASSUME Stores
  PROVE  /\ Types /\ Types' /\ PlaceInv /\ LinkBase /\ Queues
         /\ ClientsTypeOK /\ MediaTypeOK /\ AllFields /\ AllFields'
BY TypesFields DEF Stores, StoreInv, NetInv, UplinkOK, InboxOK, Types, LinkBase, Queues

\* Only the links of pairs that are still straight are left to prove.
LEMMA LinksStep ==
  ASSUME Links, strayed \subseteq strayed',
         \A a, b \in Clients : ThePair(a, b) => Linked(a, b)'
  PROVE  Links'
BY DEF Links, ThePair, Straight

LEMMA RestsCalm ==
  ASSUME Stores, Calm, Rests, ComingStays, Wire'
  PROVE  Calm'
<1>1. NotSelf'
  BY DEF Calm, NotSelf, Rests, ClientStays
<1>2. ASSUME NEW a \in Clients, NEW b \in Clients, ThePair(a, b)
      PROVE  Linked(a, b)'
  <2>1. PairRests(a, b)
    BY DEF PairRests, Rests, ComingStays
  <2> QED
    BY <1>2, <2>1, Elsewhere, StoresBase DEF ThePair
<1> QED
  BY <1>1, <1>2, LinksStep DEF Calm, Rests

\* What u says to its peer reaches the wire.
LEMMA SignalSends ==
  ASSUME Stores, Wire, NotSelf, NEW u \in Clients, client[u].peer # None, NEW type \in FrameTypes,
         NEW sdp \in Prompts \cup {None}, Signal(u, type, sdp), strayed \subseteq strayed',
         type = "offer" /\ {u, client[u].peer} \subseteq Straight =>
           \A f \in Coming(u, client[u].peer) : f.call # client[u].call
  PROVE  \E g \in Frame :
           /\ g.type = type /\ g.from = u /\ g.to = client[u].peer /\ g.sdp = sdp
           /\ g.call = client[u].call
           /\ Wire' /\ Sends(g)
<1>1. PICK v \in Clients : v = client[u].peer /\ v # u
  BY StoresBase DEF AllFields, NotSelf
<1>2. PICK x \in Prompts \cup {None} : x = client[u].call
  BY StoresBase DEF AllFields
<1>3. PICK g \in Frame : g = [type |-> type, from |-> u, to |-> v, sdp |-> sdp, call |-> x]
  BY Zenon, <1>1, <1>2 DEF Frame
<1>4. g.type = type /\ g.from = u /\ g.to = v /\ g.sdp = sdp /\ g.call = x
  BY <1>3
<1>5. uplink' = [uplink EXCEPT ![u] = Append(@, g)] /\ inbox' = inbox /\ WireStays
  BY <1>1, <1>2, <1>3 DEF Signal, SendWs, Wire, SocketsHold, downlink, WireStays
<1>6. g.type = "offer" /\ {u, v} \subseteq Straight => \A f \in Coming(u, v) : f.call # g.call
  BY <1>1, <1>2, <1>4
<1>7. Wire' /\ Sends(g)
  <2>1. Queues /\ WireStays /\ inbox' = inbox
    BY <1>5, StoresBase
  <2> QED
    BY Zenon, <1>1, <1>4, <1>5, <1>6, <2>1, WireSends
<1> QED
  BY Zenon, <1>1, <1>2, <1>4, <1>7

LEMMA SignalsToNobody ==
  ASSUME Stores, Wire, NEW u \in Clients, client[u].peer = None, NEW type, NEW sdp,
         Signal(u, type, sdp), strayed \subseteq strayed'
  PROVE  Wire' /\ ComingStays
BY WireRests DEF Signal, downlink, WireStays

LEMMA StartCallCalm ==
  ASSUME Stores, NEW u \in Clients, NEW v \in Clients, NEW m \in Prompts, StartCall(u, v, m)
  PROVE  PlaceInv' /\ (Calm => Calm')
<1>1. Dials(u, v, m)
  BY StartCallDials DEF Stores
<1>2. PlaceInv'
  BY <1>1, StoresBase, DialsPlace
<1>3. ASSUME Calm
      PROVE  Calm'
  <2>1. Wire' /\ ComingStays
    BY <1>3, WireRests DEF StartCall, net, downlink, WireStays, Calm
  <2>2. NotSelf'
    BY <1>1, <1>3 DEF Calm, NotSelf, Dials, OthersStay, ClientStays
  <2>3. \A a, b \in Clients : ThePair(a, b) => Linked(a, b)'
    BY <1>1, <2>1, StoresBase, DialsLinks
  <2> QED
    BY <1>3, <2>1, <2>2, <2>3, LinksStep DEF Calm, StartCall
<1> QED
  BY <1>2, <1>3

LEMMA AcceptCalm ==
  ASSUME Stores, NEW u \in Clients, NEW m \in Prompts, Accept(u, m)
  PROVE  PlaceInv' /\ (Calm => Calm')
<1>1. Reopens(u, m)
  BY AcceptReopens DEF Stores
<1>2. PlaceInv'
  BY <1>1, StoresBase, ReopensPlace
<1>3. ASSUME Calm
      PROVE  Calm'
  <2>1. Wire' /\ ComingStays
    BY <1>3, WireRests DEF Accept, net, downlink, WireStays, Calm
  <2>2. NotSelf'
    BY <1>3 DEF Calm, NotSelf, Accept
  <2>3. \A a, b \in Clients : ThePair(a, b) => Linked(a, b)'
    BY <1>1, <2>1, StoresBase, ReopensLinks
  <2> QED
    BY <1>3, <2>1, <2>2, <2>3, LinksStep DEF Calm, Accept
<1> QED
  BY <1>2, <1>3

\* u leaves its call and says so to its peer, if it has one.
LEMMA TellingCalm ==
  ASSUME Stores, NEW u \in Clients, Ended(u), NEW type \in Ends, Signal(u, type, None),
         u \in Straight' => client[u].peer # None
  PROVE  PlaceInv' /\ (Calm => Calm')
<1>1. Leaves(u)
  BY EndedLeaves DEF Stores
<1>2. PlaceInv'
  BY <1>1, StoresBase, LeavesPlace
<1>3. ASSUME Calm
      PROVE  Calm'
  <2>1. NotSelf'
    BY <1>1, <1>3, NoneIsNobody DEF Calm, NotSelf, Leaves, OthersStay, ClientStays, Idle
  <2>2. strayed \subseteq strayed'
    BY <1>1 DEF Leaves
  <2>3. CASE client[u].peer # None
    <3>1. PICK g \in Frame :
            /\ g.type = type /\ g.from = u /\ g.to = client[u].peer
            /\ g.call = client[u].call
            /\ Wire' /\ Sends(g)
      BY <1>3, <2>2, <2>3, SignalSends DEF Calm, Ends, FrameTypes
    <3>2. g.type \in Ends
      BY <3>1
    <3>3. \A a, b \in Clients : ThePair(a, b) => Linked(a, b)'
      BY <1>1, <3>1, <3>2, StoresBase, TellingLinks
    <3> QED
      BY <1>3, <2>1, <2>2, <3>1, <3>3, LinksStep DEF Calm
  <2>4. CASE client[u].peer = None
    <3>1. Wire' /\ ComingStays
      BY <1>3, <2>2, <2>4, SignalsToNobody DEF Calm
    <3>2. \A a, b \in Clients : ThePair(a, b) => Linked(a, b)'
      BY <1>1, <2>4, <3>1, StoresBase, SilentLinks
    <3> QED
      BY <1>3, <2>1, <2>2, <3>1, <3>2, LinksStep DEF Calm
  <2> QED
    BY <2>3, <2>4
<1> QED
  BY <1>2, <1>3

\* u leaves its call without a word.
LEMMA SilentCalm ==
  ASSUME Stores, NEW u \in Clients, Ended(u), UNCHANGED net,
         u \in Straight' => LeavesUnheard(u)
  PROVE  PlaceInv' /\ (Calm => Calm')
<1>1. Leaves(u)
  BY EndedLeaves DEF Stores
<1>2. PlaceInv'
  BY <1>1, StoresBase, LeavesPlace
<1>3. ASSUME Calm
      PROVE  Calm'
  <2>1. NotSelf'
    BY <1>1, <1>3, NoneIsNobody DEF Calm, NotSelf, Leaves, OthersStay, ClientStays, Idle
  <2>2. strayed \subseteq strayed'
    BY <1>1 DEF Leaves
  <2>3. Wire' /\ ComingStays
    BY <1>3, <2>2, WireRests DEF net, downlink, WireStays, Calm
  <2>4. \A a, b \in Clients : ThePair(a, b) => Linked(a, b)'
    BY <1>1, <2>3, StoresBase, SilentLinks
  <2> QED
    BY <1>3, <2>1, <2>2, <2>3, <2>4, LinksStep DEF Calm
<1> QED
  BY <1>2, <1>3

\* The overlay's buttons.
LEMMA HangUpCalm ==
  ASSUME Stores, NEW u \in Clients, HangUp(u) \/ Decline(u)
  PROVE  PlaceInv' /\ (Calm => Calm')
<1>1. Ended(u)
  BY EndsStore DEF Stores
<1>2. u \in Straight' => client[u].peer # None
  BY DEF HangUp, Decline, Stores, PlaceInv, OwnCall, Straight
<1>3. PICK type \in Ends : Signal(u, type, None)
  BY DEF HangUp, Decline, Ends
<1> QED
  BY <1>1, <1>2, <1>3, TellingCalm

\* The continuations of startCall and accept.
LEMMA GrantedCalm ==
  ASSUME Stores, NEW m \in Prompts, StartGranted(m) \/ AcceptGranted(m)
  PROVE  PlaceInv' /\ (Calm => Calm')
<1>0. PICK u \in Clients : Grants(u, m)
  BY StartGrantedGrants, AcceptGrantedGrants DEF Stores
<1>2. PlaceInv'
  BY <1>0, StoresBase, GrantsPlace
<1>3. ASSUME Calm
      PROVE  Calm'
  <2>0. strayed \subseteq strayed'
    BY <1>0 DEF Grants
  <2>1. Wire' /\ ComingStays
    BY <1>3, <2>0, WireRests DEF StartGranted, AcceptGranted, net, downlink, WireStays, Calm
  <2>2. NotSelf'
    BY <1>0, <1>3 DEF Calm, NotSelf, Grants, OthersStay, ClientStays
  <2>3. \A a, b \in Clients : ThePair(a, b) => Linked(a, b)'
    BY <1>0, <2>1, StoresBase, GrantsLinks
  <2> QED
    BY <1>3, <2>0, <2>1, <2>2, <2>3, LinksStep DEF Calm
<1> QED
  BY <1>2, <1>3

LEMMA StartDeniedCalm ==
  ASSUME Stores, NEW m \in Prompts, StartDenied(m)
  PROVE  PlaceInv' /\ (Calm => Calm')
<1>1. PICK u \in Clients : u = media[m].by /\ Ended(u)
  BY StartDeniedEnds DEF Stores
<1>2. u \in Straight' => media[m].stage = "prompt" /\ u \in Straight
  BY ZenonT(120), <1>1 DEF StartDenied, Strays, LeftOver, Prompting, Straight, Ended
<1>3. u \in Straight' => LeavesUnheard(u)
  <2>1. OwnCall
    BY DEF Stores, PlaceInv
  <2>2. media[m].kind = "start" /\ m # None
    BY NoneIsNobody DEF StartDenied
  <2> QED
    BY <1>1, <1>2, <2>1, <2>2 DEF LeavesUnheard, OwnCall, Straight
<1> QED
  BY <1>1, <1>3, SilentCalm DEF StartDenied

LEMMA AcceptFailsCalm ==
  ASSUME Stores, NEW m \in Prompts, AcceptFails(m)
  PROVE  PlaceInv' /\ (Calm => Calm')
<1>1. PICK u \in Clients : u = media[m].by /\ Ended(u)
  BY AcceptFailsEnds DEF Stores
<1>2. u \in Straight' => media[m].stage = "prompt" /\ u \in Straight
  BY <1>1 DEF AcceptFails, Strays, LeftOver, Prompting, Straight, Ended
<1>3. u \in Straight' => client[u].peer # None
  BY <1>1, <1>2 DEF Stores, StoreInv, PromptsAreOfTheCall, PlaceInv, OwnCall
<1>4. "decline" \in Ends /\ Signal(u, "decline", None)
  BY <1>1 DEF AcceptFails, Ends
<1> QED
  BY <1>1, <1>3, <1>4, TellingCalm

LEMMA ConnectionFailsCalm ==
  ASSUME Stores, NEW m \in Prompts, ConnectionFails(m)
  PROVE  PlaceInv' /\ (Calm => Calm')
<1>1. PICK u \in Clients : u = media[m].by /\ Ended(u)
  BY ConnectionFailsEnds DEF Stores
<1>2. u \in Straight' => client[u].pc = m /\ ~media'[m].open
  BY ZenonT(120), <1>1 DEF ConnectionFails, Straight, Ended, Stores, StoreInv, MediaIsInStore
<1>3. u \in Straight' => LeavesUnheard(u)
  <2>1. media[m].remote # None /\ media[m].described /\ m # None
    BY NoneIsNobody DEF ConnectionFails
  <2> QED
    BY <1>2, <2>1 DEF LeavesUnheard
<1> QED
  BY <1>1, <1>3, SilentCalm DEF ConnectionFails

\* An open connection of a client that is straight is of the call it is in.
LEMMA OpenIsOfTheCall ==
  ASSUME Stores, NEW u \in Clients, u \in Straight, NEW m \in Prompts, media[m].by = u, media[m].open
  PROVE  client[u].pc = m /\ client[u].peer # None
BY NoneIsNobody DEF Stores, StoreInv, MediaIsInStore, Straight, PlaceInv, OwnCall

LEMMA OfferMadeCalm ==
  ASSUME Stores, NEW m \in Prompts, OfferMade(m)
  PROVE  PlaceInv' /\ (Calm => Calm')
<1>1. PICK u \in Clients : u = media[m].by
  BY PrompterIsClient DEF Stores, OfferMade
<1>2. u \in Straight => client[u].pc = m /\ client[u].peer # None
  BY <1>1, OpenIsOfTheCall DEF OfferMade
<1>3. CASE client[u].pc # m
  <2>1. Ended(u) /\ UNCHANGED net
    BY Zenon, <1>1, <1>3, OfferMadeEnds DEF OfferMade, Stores
  <2>2. u \notin Straight'
    BY <1>2, <1>3, <2>1 DEF Straight, Ended
  <2> QED
    BY <2>1, <2>2, SilentCalm
<1>4. CASE client[u].pc = m
  <2>1. Offers(u, m)
    BY <1>1, <1>4, OfferMadeOffers DEF Stores
  <2>2. PlaceInv'
    BY <2>1, StoresBase, OffersPlace
  <2>3. Signal(u, "offer", m)
    BY <1>1, <1>4 DEF OfferMade
  <2>4. strayed \subseteq strayed'
    BY <2>1 DEF Offers
  <2>5. ASSUME Calm
        PROVE  Calm'
    <3>1. NotSelf'
      BY <2>1, <2>5 DEF Calm, NotSelf, Offers, ClientStays
    <3>2. CASE client[u].peer # None
      <4>1. ASSUME {u, client[u].peer} \subseteq Straight, NEW f \in Coming(u, client[u].peer)
            PROVE  f.call # client[u].call
        <5>1. PICK v \in Clients : v = client[u].peer
          BY <3>2, StoresBase DEF AllFields
        <5>2. Linked(u, v)
          BY <4>1, <5>1, <2>5 DEF Calm, Links, NotSelf
        <5>3. client[u].call = m /\ media[m].by = u /\ media[m].stage = "describing"
          BY <2>1, <4>1, NoneIsNobody DEF Offers, Stores, PlaceInv, OwnCall
        <5>4. f.type \in FrameTypes
          BY ComingFields
        <5> QED
          BY <3>2, <4>1, <5>1, <5>2, <5>3, <5>4, <2>5
             DEF Linked, OfferOK, EndOK, AnswerOK, InCall, FrameTypes, Ends, Calm, NotSelf
      <4>2. PICK g \in Frame :
              /\ g.type = "offer" /\ g.from = u /\ g.to = client[u].peer /\ g.sdp = m
              /\ g.call = client[u].call
              /\ Wire' /\ Sends(g)
        BY <2>3, <2>4, <2>5, <3>2, <4>1, SignalSends DEF Calm, FrameTypes
      <4>3. \A a, b \in Clients : ThePair(a, b) => Linked(a, b)'
        BY <2>1, <4>2, StoresBase, OffersLinks
      <4> QED
        BY <2>4, <2>5, <3>1, <4>2, <4>3, LinksStep DEF Calm
    <3>3. CASE client[u].peer = None
      <4>1. Wire' /\ ComingStays
        BY <2>3, <2>4, <2>5, <3>3, SignalsToNobody DEF Calm
      <4>2. ASSUME NEW a \in Clients, NEW b \in Clients, ThePair(a, b)
            PROVE  Linked(a, b)'
        <5>1. u \notin {a, b}
          BY <1>2, <3>3, <4>2 DEF ThePair
        <5>2. PairRests(a, b)
          BY <2>1, <4>1, <5>1 DEF PairRests, ComingStays, Offers, OtherMediaStay
        <5> QED
          BY <4>2, <5>2, Elsewhere, StoresBase DEF ThePair
      <4> QED
        BY <2>4, <2>5, <3>1, <4>1, <4>2, LinksStep DEF Calm
    <3> QED
      BY <3>2, <3>3
  <2> QED
    BY <2>2, <2>5
<1> QED
  BY <1>3, <1>4

LEMMA AnswerMadeCalm ==
  ASSUME Stores, NEW m \in Prompts, AnswerMade(m)
  PROVE  PlaceInv' /\ (Calm => Calm')
<1>1. PICK u \in Clients : u = media[m].by
  BY ZenonT(120), PrompterIsClient DEF Stores, AnswerMade
<1>2. u \in Straight => client[u].pc = m /\ client[u].peer # None
  BY Zenon, <1>1, OpenIsOfTheCall DEF AnswerMade
<1>3. CASE ~Answerable(client[u].pc)
  <2>1. Ended(u)
    BY <1>1, <1>3, AnswerMadeEnds DEF Stores
  <2>2. u \in Straight' => client[u].peer # None
    BY <1>2, <2>1 DEF Straight, Ended
  <2>3. "decline" \in Ends /\ Signal(u, "decline", None)
    BY <1>1, <1>3 DEF AnswerMade, Ends
  <2> QED
    BY <2>1, <2>2, <2>3, TellingCalm
<1>4. CASE Answerable(client[u].pc)
  <2>1. Answers(u, m)
    BY <1>1, <1>4, AnswerMadeAnswers DEF Stores
  <2>2. PlaceInv'
    BY <2>1, StoresBase, AnswersPlace
  <2>3. PICK p \in Prompts : p = client[u].pc
    BY <1>4, StoresBase DEF Answerable, AllFields
  <2>4. Signal(u, "answer", p)
    BY Zenon, <1>1, <1>4, <2>3 DEF AnswerMade
  <2>5. strayed \subseteq strayed'
    BY <2>1 DEF Answers
  <2>6. ASSUME Calm
        PROVE  Calm'
    <3>1. NotSelf'
      BY <2>1, <2>6 DEF Calm, NotSelf, Answers, OthersStay, ClientStays
    <3>2. CASE client[u].peer # None
      <4>1. PICK g \in Frame :
              /\ g.type = "answer" /\ g.from = u /\ g.to = client[u].peer /\ g.sdp = p
              /\ g.call = client[u].call
              /\ Wire' /\ Sends(g)
        BY <2>4, <2>5, <2>6, <3>2, SignalSends DEF Calm, FrameTypes
      <4>2. \A a, b \in Clients : ThePair(a, b) => Linked(a, b)'
        BY <2>1, <2>3, <4>1, StoresBase, AnswersLinks
      <4> QED
        BY <2>5, <2>6, <3>1, <4>1, <4>2, LinksStep DEF Calm
    <3>3. CASE client[u].peer = None
      <4>1. Wire' /\ ComingStays
        BY <2>4, <2>5, <2>6, <3>3, SignalsToNobody DEF Calm
      <4>2. ASSUME NEW a \in Clients, NEW b \in Clients, ThePair(a, b)
            PROVE  Linked(a, b)'
        <5>1. u \notin {a, b}
          BY <1>2, <3>3, <4>2 DEF ThePair
        <5>2. PairRests(a, b)
          BY <2>1, <4>1, <5>1, StoresBase
             DEF PairRests, ComingStays, Answers, OthersStay, Answerable, MediumStays, AllFields
        <5> QED
          BY <4>2, <5>2, Elsewhere, StoresBase DEF ThePair
      <4> QED
        BY <2>5, <2>6, <3>1, <4>1, <4>2, LinksStep DEF Calm
    <3> QED
      BY <3>2, <3>3
  <2> QED
    BY <2>2, <2>6
<1> QED
  BY <1>3, <1>4

\* A step that changes nothing of the calls, and nothing on the wire.
LEMMA IdleCalm ==
  ASSUME Stores, Rests, UNCHANGED <<up, flushing, uplink, inbox>>
  PROVE  PlaceInv' /\ (Calm => Calm')
<1>1. PlaceInv'
  BY StoresBase, RestsPlace
<1>2. Calm => Wire' /\ ComingStays
  BY WireRests DEF Calm, WireStays, Rests
<1> QED
  BY <1>1, <1>2, RestsCalm

LEMMA AppliedCalm ==
  ASSUME Stores, NEW m \in Prompts, AnswerApplied(m) \/ Connects(m)
  PROVE  PlaceInv' /\ (Calm => Calm')
<1>1. Rests
  BY AppliedRests DEF Stores
<1>2. UNCHANGED <<up, flushing, uplink, inbox>>
  BY DEF AnswerApplied, Connects, net, downlink
<1> QED
  BY <1>1, <1>2, IdleCalm

\* u takes a frame off its socket and does nothing.
LEMMA IgnoredCalm ==
  ASSUME Stores, NEW u \in Clients, inbox[u] # <<>>, NEW f \in Frame, f = Head(inbox[u]), Take(u),
         UNCHANGED <<client, media, strayed>>,
         \/ f.type \in Ends /\ ~(Admitted(u, f) /\ client[u].status # "idle")
         \/ f.type = "answer" /\ ~(Admitted(u, f) /\ Unanswered(u))
  PROVE  PlaceInv' /\ (Calm => Calm')
<1>1. Rests
  BY DEF Rests, ClientStays, MediumStays
<1>2. PlaceInv'
  BY <1>1, StoresBase, RestsPlace
<1>3. ASSUME Calm
      PROVE  Calm'
  <2>1. Wire' /\ Takes(u, f)
    BY <1>3, StoresBase, WireTakes DEF Take, Calm, WireStays
  <2>2. NotSelf'
    BY <1>3 DEF Calm, NotSelf
  <2>3. \A a, b \in Clients : ThePair(a, b) => Linked(a, b)'
    BY <1>1, <2>1, StoresBase, EndIgnoredLinks, AnswerIgnoredLinks
  <2> QED
    BY <1>1, <1>3, <2>1, <2>2, <2>3, LinksStep DEF Calm, Rests
<1> QED
  BY <1>2, <1>3

\* onSignal.
LEMMA OnOfferCalm ==
  ASSUME Stores, NEW u \in Clients, OnOffer(u)
  PROVE  PlaceInv' /\ (Calm => Calm')
<1>0. PICK f \in Frame : f = Head(inbox[u]) /\ f.type = "offer" /\ inbox[u] # <<>> /\ Popped(u)
  BY HeadDescribes DEF OnOffer, Stores
<1>a. ClientsTypeOK /\ f.from \in Clients /\ f.call \in Prompts \cup {None} /\ f.sdp \in Prompts \cup {None}
  BY StoresBase DEF Frame
<1>1. CASE client[u].status # "idle"
  <2>1. Rests /\ UNCHANGED <<client, strayed>>
    BY <1>1 DEF OnOffer, Rests, ClientStays, MediumStays
  <2>2. PlaceInv'
    BY <2>1, StoresBase, RestsPlace
  <2>3. ASSUME Calm
        PROVE  Calm'
    <3>1. PICK g \in Frame : g = [type |-> "busy", from |-> u, to |-> f.from, sdp |-> None, call |-> f.call]
      BY Zenon, <1>a DEF Frame, FrameTypes
    <3>2. g.type = "busy" /\ g.from = u /\ g.to = f.from /\ g.call = f.call
      BY <3>1
    <3>3. uplink' = [uplink EXCEPT ![u] = Append(@, g)] /\ WireStays
      BY <1>0, <1>1, <2>3, <3>1 DEF OnOffer, SendWs, Calm, Wire, SocketsHold, WireStays
    <3>4. Wire' /\ TakesAndSends(u, f, g)
      BY Zenon, <1>0, <2>3, <3>2, <3>3, StoresBase, WireTakesAndSends DEF Calm
    <3>5. NotSelf'
      BY <2>1, <2>3 DEF Calm, NotSelf
    <3>6. \A a, b \in Clients : ThePair(a, b) => Linked(a, b)'
      BY <1>0, <2>1, <3>2, <3>4, StoresBase, BusyLinks
    <3> QED
      BY <2>1, <2>3, <3>4, <3>5, <3>6, LinksStep DEF Calm
  <2> QED
    BY <2>2, <2>3
<1>2. CASE client[u].status = "idle"
  <2>0. client' = [client EXCEPT ![u].status = "incoming", ![u].peer = f.from,
                                 ![u].pendingOffer = f.sdp, ![u].call = f.call]
        /\ UNCHANGED <<media, strayed, uplink, up, flushing>>
    BY <1>0, <1>2 DEF OnOffer
  <2>1. Rings(u, f)
    BY <1>2, <1>a, <2>0
       DEF Rings, OthersStay, ClientStays, MediumStays, ClientsTypeOK, Client
  <2>2. PlaceInv'
    BY <2>1, StoresBase, RingsPlace
  <2>3. ASSUME Calm
        PROVE  Calm'
    <3>1. Wire' /\ Takes(u, f)
      BY <1>0, <2>0, <2>3, StoresBase, WireTakes DEF Calm, WireStays
    <3>2. NotSelf'
      BY <2>1, <2>3, <3>1 DEF Calm, NotSelf, Rings, OthersStay, ClientStays, Takes
    <3>3. \A a, b \in Clients : ThePair(a, b) => Linked(a, b)'
      BY <1>0, <2>1, <3>1, StoresBase, RingsLinks
    <3> QED
      BY <2>0, <2>3, <3>1, <3>2, <3>3, LinksStep DEF Calm
  <2> QED
    BY <2>2, <2>3
<1> QED
  BY <1>1, <1>2

LEMMA OnAnswerCalm ==
  ASSUME Stores, NEW u \in Clients, OnAnswer(u)
  PROVE  PlaceInv' /\ (Calm => Calm')
<1>0. PICK f \in Frame : f = Head(inbox[u]) /\ f.type = "answer" /\ inbox[u] # <<>> /\ Take(u)
  BY HeadDescribes DEF OnAnswer, Stores
<1>1. CASE Admitted(u, f) /\ Unanswered(u)
  <2>1. Hears(u, f) /\ UNCHANGED client
    BY <1>0, <1>1, OnAnswerHears DEF Stores, OnAnswer
  <2>2. PlaceInv'
    BY <2>1, StoresBase, HearsPlace
  <2>3. ASSUME Calm
        PROVE  Calm'
    <3>0. strayed \subseteq strayed'
      BY <2>1 DEF Hears
    <3>1. Wire' /\ Takes(u, f)
      BY <1>0, <2>3, <3>0, StoresBase, WireTakes DEF Take, Calm, WireStays
    <3>2. NotSelf'
      BY <2>1, <2>3 DEF Calm, NotSelf
    <3>3. \A a, b \in Clients : ThePair(a, b) => Linked(a, b)'
      BY <1>0, <1>1, <2>1, <3>1, StoresBase, HeardLinks
    <3> QED
      BY <2>3, <3>0, <3>1, <3>2, <3>3, LinksStep DEF Calm
  <2> QED
    BY <2>2, <2>3
<1>2. CASE ~(Admitted(u, f) /\ Unanswered(u))
  BY <1>0, <1>2, IgnoredCalm DEF OnAnswer
<1> QED
  BY <1>1, <1>2

LEMMA OnEndCalm ==
  ASSUME Stores, NEW u \in Clients, OnEnd(u)
  PROVE  PlaceInv' /\ (Calm => Calm')
<1>0. PICK f \in Frame : f = Head(inbox[u]) /\ f.type \in Ends /\ inbox[u] # <<>> /\ Take(u)
  BY HeadDescribes DEF OnEnd, Stores, Ends
<1>1. CASE Admitted(u, f) /\ client[u].status # "idle"
  <2>1. Reset(u) /\ Strays(u, f.call # client[u].call)
    BY <1>0, <1>1 DEF OnEnd
  <2>2. Ended(u)
    BY <2>1, EndsStore DEF Stores
  <2>3. Leaves(u)
    BY <2>2, EndedLeaves DEF Stores
  <2>4. u \in Straight' => f.call = client[u].call
    BY <2>1 DEF Strays, Straight
  <2>5. PlaceInv'
    BY <2>3, StoresBase, LeavesPlace
  <2>6. ASSUME Calm
        PROVE  Calm'
    <3>0. strayed \subseteq strayed'
      BY <2>3 DEF Leaves
    <3>1. Wire' /\ Takes(u, f)
      BY <1>0, <2>6, <3>0, StoresBase, WireTakes DEF Take, Calm, WireStays
    <3>2. NotSelf'
      BY <2>3, <2>6, NoneIsNobody DEF Calm, NotSelf, Leaves, OthersStay, ClientStays, Idle
    <3>3. \A a, b \in Clients : ThePair(a, b) => Linked(a, b)'
      BY <1>0, <1>1, <2>3, <2>4, <3>1, StoresBase, EndHeardLinks
    <3> QED
      BY <2>6, <3>0, <3>1, <3>2, <3>3, LinksStep DEF Calm
  <2> QED
    BY <2>5, <2>6
<1>2. CASE ~(Admitted(u, f) /\ client[u].status # "idle")
  BY <1>0, <1>2, IgnoredCalm DEF OnEnd
<1> QED
  BY <1>1, <1>2

\* The backend leaves the calls alone; only a socket that is lost disturbs the wire.
LEMMA ServerCalm ==
  ASSUME Stores, NEW u \in Clients,
         \/ FanOut(u) \/ Buffer(u) \/ BufferExpires(u)
         \/ Drop(u) \/ Reconnect(u) \/ ReadBuffer(u) \/ DeliverBuffered(u)
  PROVE  PlaceInv' /\ (drops' = 0 /\ drops = 0 /\ Calm => Calm')
<1>1. Rests
  BY Zenon
     DEF Rests, ClientStays, MediumStays, FanOut, Buffer, BufferExpires, Drop, Reconnect,
           ReadBuffer, DeliverBuffered
<1>2. PlaceInv'
  BY <1>1, StoresBase, RestsPlace
<1>3. CASE FanOut(u)
  <2>1. Calm => Wire' /\ ComingStays
    BY ZenonT(120), <1>3, StoresBase, WireFansOut DEF Calm, FanOut
  <2> QED
    BY <1>1, <1>2, <2>1, RestsCalm
<1>4. CASE Buffer(u) \/ BufferExpires(u)
  BY Zenon, <1>1, <1>4, IdleCalm DEF Buffer, BufferExpires
<1>5. CASE Drop(u)
  BY <1>2, <1>5 DEF Drop
<1>6. CASE Reconnect(u) \/ ReadBuffer(u) \/ DeliverBuffered(u)
  <2>1. ~Calm
    BY Zenon, <1>6 DEF Calm, Wire, SocketsHold, Reconnect, ReadBuffer, DeliverBuffered
  <2> QED
    BY <1>2, <2>1
<1> QED
  BY Zenon, <1>3, <1>4, <1>5, <1>6

\* Every step keeps CallInv.
LEMMA CallStep ==
  ASSUME StoreInv, NetInv, StoreInv', CallInv, [Next]_vars
  PROVE  CallInv'
<1>0. Stores
  BY DEF Stores, CallInv
<1>1. ASSUME PlaceInv', Calm => Calm', UNCHANGED drops
      PROVE  CallInv'
  BY <1>1 DEF CallInv
<1>2. CASE User
  <2>1. UNCHANGED drops
    BY ZenonT(120), <1>2 DEF User, StartCall, Accept, HangUp, Decline, Signal, net, downlink
  <2>2. PlaceInv' /\ (Calm => Calm')
    BY <1>0, <1>2, StartCallCalm, AcceptCalm, HangUpCalm DEF User
  <2> QED
    BY <1>1, <2>1, <2>2
<1>3. CASE Browser
  <2>1. UNCHANGED drops
    BY ZenonT(120), <1>3
       DEF Browser, StartGranted, StartDenied, AcceptGranted, AcceptFails, OfferMade,
             AnswerMade,
                AnswerApplied, Connects, ConnectionFails, Signal, net, downlink
  <2>2. PlaceInv' /\ (Calm => Calm')
    BY <1>0, <1>3, GrantedCalm, StartDeniedCalm, AcceptFailsCalm, OfferMadeCalm,
         AnswerMadeCalm,
       AppliedCalm, ConnectionFailsCalm DEF Browser
  <2> QED
    BY <1>1, <2>1, <2>2
<1>4. CASE Signals
  <2>1. UNCHANGED drops
    BY <1>4 DEF Signals, OnOffer, OnAnswer, OnEnd, Take
  <2>2. PlaceInv' /\ (Calm => Calm')
    BY <1>0, <1>4, OnOfferCalm, OnAnswerCalm, OnEndCalm DEF Signals
  <2> QED
    BY <1>1, <2>1, <2>2
<1>5. CASE Server
  <2>0. drops \in Nat
    BY MaxDropsIsNat DEF NetInv, SocketsOK
  <2>1. drops' = 0 => drops = 0
    <3>1. drops' = drops \/ drops' = drops + 1
      BY Zenon, <1>5
         DEF Server, FanOut, Buffer, BufferExpires, Drop, Reconnect, ReadBuffer,
               DeliverBuffered
    <3> QED
      BY <2>0, <3>1
  <2>2. PlaceInv' /\ (drops' = 0 /\ drops = 0 /\ Calm => Calm')
    BY <1>0, <1>5, ServerCalm DEF Server
  <2> QED
    BY <2>1, <2>2 DEF CallInv
<1>6. CASE UNCHANGED vars
  <2>1. Rests /\ UNCHANGED <<up, flushing, uplink, inbox, drops>>
    BY <1>6 DEF vars, net, downlink, Rests, ClientStays, MediumStays
  <2> QED
    BY <1>0, <1>1, <2>1, IdleCalm
<1> QED
  BY <1>2, <1>3, <1>4, <1>5, <1>6 DEF Next

\* CallInv holds at the start.
LEMMA CallInit == Init => CallInv
<1> SUFFICES ASSUME Init
             PROVE  CallInv
  OBVIOUS
<1>1. PlaceInv
  BY DEF Init, Idle, Unused, PlaceInv, HeldIsOpen, Fresh, OwnCall, Straight
<1>2. NotSelf
  BY NoneIsNobody DEF Init, Idle, NotSelf
<1>3. \A u \in Clients, f \in Frame : ~Holds(uplink[u], f) /\ ~Holds(inbox[u], f)
  BY DEF Init, Holds
<1>4. \A u \in Clients, f, g \in Frame : ~Before(uplink[u], f, g) /\ ~Before(inbox[u], f, g)
  BY DEF Init, Before
<1>5. Wire
  BY <1>3, <1>4 DEF Wire, SocketsHold, Addressed, OfferFirst, Straight, Init, Flushed
<1>6. ASSUME NEW a \in Clients, NEW b \in Clients
      PROVE  Linked(a, b)
  <2>1. Coming(a, b) = {} /\ client[a].peer # b /\ client[b].peer # a
    BY <1>3, NoneIsNobody DEF Coming, Init, Idle
  <2> QED
    BY <2>1 DEF Linked, OfferOK, EndOK, AnswerOK, OfThePair, CalleeOK, CallerOK
<1> QED
  BY <1>1, <1>2, <1>5, <1>6 DEF CallInv, Calm, Links, Straight

-----------------------------------------------------------------------------
(* The theorems. *)

\* The inductive invariant.
IInv == StoreInv /\ NetInv /\ CallInv

LEMMA InitInv == Init => IInv
<1> SUFFICES ASSUME Init PROVE IInv
  OBVIOUS
<1>1. ClientsTypeOK /\ MediaTypeOK /\ strayed \in SUBSET Clients
  BY DEF Init, ClientsTypeOK, MediaTypeOK, Client, Medium, Idle, Unused, Statuses, Stages
<1>2. /\ PromptsHaveOwners /\ StoreIsOwn /\ OfferIsPeers /\ BeforeTheCall
      /\ RemotesAreMade /\ PromptsAreOfTheCall /\ MediaIsInStore /\ TalksToPeer
  BY DEF Init, Idle, Unused, PromptsHaveOwners, StoreIsOwn, OfferIsPeers, BeforeTheCall,
         RemotesAreMade, PromptsAreOfTheCall, MediaIsInStore, TalksToPeer
<1>3. UplinkOK /\ InboxOK /\ BufferOK /\ RelayingOK /\ FlushingOK
  BY NoFrames DEF Init, UplinkOK, InboxOK, BufferOK, RelayingOK, FlushingOK, Flush, Flushed
<1>4. SocketsOK
  BY MaxDropsIsNat DEF Init, SocketsOK
<1> QED
  BY <1>1, <1>2, <1>3, <1>4, CallInit DEF IInv, StoreInv, NetInv

LEMMA StepInv == IInv /\ [Next]_vars => IInv'
BY StoreStep, NetStep, CallStep DEF IInv

LEMMA Invariance == Spec => []IInv
BY InitInv, StepInv, PTL DEF Spec

\* The call stores, the media, the queues and the sockets always have their types,
\* and a client that rings can be answered: it holds an offer of the peer it shows
\* (store/calls.ts, onSignal on call.offer).
THEOREM CallTypes == Spec => []TypeOK
<1>1. IInv => TypeOK
  BY DEF IInv, StoreInv, NetInv, TypeOK, ClientsTypeOK, MediaTypeOK, OfferIsPeers,
           BeforeTheCall,
         UplinkOK, InboxOK, BufferOK, RelayingOK, FlushingOK, SocketsOK
<1> QED
  BY <1>1, Invariance, PTL

\* A client never talks to someone else than the peer it shows: the remote description
\* of its connection was made by that peer, unless the client acted on a leftover of an
\* earlier call (the peer check of onSignal, and accept's setRemoteDescription).
THEOREM PeerIsTalkedTo == Spec => []TalksToPeer
<1>1. IInv => TalksToPeer
  BY DEF IInv, StoreInv
<1> QED
  BY <1>1, Invariance, PTL

\* An idle client holds neither camera nor connection, unless a prompt outlived its
\* call (teardown and reset, on every way out of a call).
THEOREM MediaAreReleased == Spec => []IdleReleasesMedia
<1>1. IInv => IdleReleasesMedia
  BY DEF IInv, StoreInv, MediaIsInStore, IdleReleasesMedia
<1> QED
  BY <1>1, Invariance, PTL

\* Nobody is left alone in a call: when no socket was lost, everything has been delivered
\* and no continuation is due, the peer of a client in a call is in that call too, unless
\* the connection will fail or one of the two acted on a leftover of an earlier call.
\* It is about every way out of a call: hangup, decline, busy and the failures tell the
\* other end, or the other end finds out by itself.
THEOREM NobodyIsLeftAlone == Spec => []NoHalfOpenCall
<1>1. IInv => NoHalfOpenCall
  <2> SUFFICES ASSUME IInv, Quiet, drops = 0, NEW u \in Clients, NEW v \in Clients,
                      client[u].status # "idle", ~Failing(u), v = client[u].peer, v # None,
                      {u, v} \cap strayed = {}
               PROVE  client[v].status # "idle" /\ client[v].peer = u
    BY DEF NoHalfOpenCall, IInv, StoreInv, ClientsTypeOK, Client
  <2> DEFINE x == client[u].call
  <2>1. u # v /\ u \in Straight /\ v \in Straight /\ Linked(u, v) /\ Linked(v, u)
    BY DEF IInv, CallInv, Calm, NotSelf, Links, Straight
  <2>2. \A f \in Frame : f \notin Coming(u, v) /\ f \notin Coming(v, u)
    BY DEF Coming, Holds, Quiet
  <2>3. AllFields
    BY TypesFields, StoreTypes DEF IInv
  <2>4. client[v].peer = u => client[v].status # "idle"
    BY NoneIsNobody DEF IInv, StoreInv, BeforeTheCall
  <2>5. SUFFICES client[v].peer = u
    BY <2>4
  <2>6. x # None /\ x \in Prompts /\ media[x].by \in {u, v}
    BY <2>1, <2>3 DEF Linked, OfThePair, AllFields
  <2>7. CASE media[x].by = v
    <3>1. \/ InCall(v, x, u)
          \/ client[u].pc # None /\ media[client[u].pc].remote = x /\ ~media[x].open
      BY <2>1, <2>2, <2>6, <2>7, ComingAreFrames DEF Linked, CalleeOK, Told
    <3>2. ~(client[u].pc # None /\ media[client[u].pc].remote = x /\ ~media[x].open)
      BY <2>6 DEF Failing, Matched
    <3> QED
      BY <3>1, <3>2 DEF InCall
  <2>8. CASE media[x].by = u
    <3>1. media[x].stage = "settled" /\ client[u].pc = x
      BY <2>1, <2>3, <2>6, <2>8
         DEF Linked, OfThePair, Quiet, Running, Prompting, IInv, CallInv, PlaceInv,
               HeldIsOpen
    <3>2. InCall(v, x, u) \/ media[x].remote # None
      BY <2>1, <2>2, <2>6, <2>8, <3>1, ComingAreFrames
         DEF Linked, CallerOK, Told, Replied, Offered
    <3>3. CASE media[x].remote # None
      <4>1. PICK p \in Prompts : p = media[x].remote
        BY <2>3, <2>6, <3>3 DEF AllFields
      <4>2. media[p].open /\ media[p].remote = x /\ media[p].by = v
        <5>1. media[p].remote = x /\ media[p].by = v
          BY <2>1, <2>6, <2>8, <3>3, <4>1 DEF Linked, CallerOK
        <5>2. media[p].open
          BY <2>6, <3>1, <3>3, <4>1 DEF Failing, Matched
        <5> QED
          BY <5>1, <5>2
      <4>3. client[v].pc = p /\ client[v].peer # None
        BY <2>1, <4>2, NoneIsNobody
           DEF IInv, StoreInv, MediaIsInStore, Straight, CallInv, PlaceInv, OwnCall
      <4> QED
        BY <2>1, <2>6, <2>8, <4>2, <4>3, NoneIsNobody
           DEF IInv, StoreInv, TalksToPeer, Straight
    <3> QED
      BY <3>2, <3>3 DEF InCall
  <2> QED
    BY <2>6, <2>7, <2>8
<1> QED
  BY <1>1, Invariance, PTL
=============================================================================
