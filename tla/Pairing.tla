------------------------------- MODULE Pairing -------------------------------
(***************************************************************************)
(* Pairing and the TCP channels: the discovery thread (net/discovery.py),  *)
(* the keys in the registry (net/registry.py), the listeners with a thread *)
(* per connection (net/server.py) and what the handlers of the four        *)
(* channels do with their connection (net/data.py, audio.py,               *)
(* video_channel.py; control.py beyond this is PeerSession).               *)
(*                                                                         *)
(* A pairing is a number: the discovery thread draws a fresh key and IV    *)
(* for every request it answers, and both are named by the number of the   *)
(* answer.  0 is None.  A stream works if both ends took key and IV from   *)
(* the same pairing; Framing is about such streams.                        *)
(***************************************************************************)
EXTENDS Naturals, Sequences

CONSTANTS
    Headsets,      \* the peers, known by their IP address
    Noise,         \* bound: the kinds of datagrams sent that are no request
    Roles,         \* the channels the headsets connect to
    MaxDatagrams,  \* bound: datagrams sent to the discovery port
    MaxConns,      \* bound: connections made
    MaxCrashes     \* bound: how often the program is killed and started anew

ASSUME PairingAssumption ==
    /\ Noise \subseteq {"nudge", "short", "garbled"}
    /\ Roles \subseteq {"control", "data", "video", "audio"}
    /\ MaxDatagrams \in Nat /\ MaxConns \in Nat /\ MaxCrashes \in Nat

VARIABLES
    enabled,   \* config.video.enabled
    ffmpeg,    \* ffmpeg is on the PATH
    \* discovery
    inbox,     \* datagrams in the socket's buffer
    stage,     \* the discovery thread: "waiting", "pairing", "replied", "keyed", "dead" or "down"
    peer,      \* the headset it is pairing with
    pairings,  \* how many pairings there have been
    \* registry
    key, iv,   \* key[h], iv[h]: the attributes of the PeerSession of h
    \* the headsets
    replies,   \* replies[h]: the pairings in replies on their way to h
    material,  \* material[h]: the pairing whose keys h uses
    newest,    \* newest[h]: history, the pairing last sent to h by this process
    owner,     \* owner[n]: history, the headset of pairing n
    \* connections
    conn,      \* conn[c]: what is known of the c-th connection
    datagrams, \* datagrams sent so far
    crashes    \* crashes so far

discoveryVars == <<inbox, stage, peer, pairings>>
headsetVars   == <<replies, material, newest, owner>>
vars == <<enabled, ffmpeg, discoveryVars, key, iv, headsetVars, conn, datagrams, crashes>>

Conns    == 1 .. MaxConns
Kinds    == Noise \cup {"request"}

\* A connection: the headset and the pairing it uses, the channel, the TCP
\* link, the thread serving it, the key and IV that thread read, and the
\* thread that drains a video channel.  sound is history: from the thread's
\* looking the headset up to its having read both, the newest pairing sent to
\* the headset was the one it uses, and was registered.
NoConn == [peer |-> "none", uses |-> 0, role |-> "none", link |-> "none", at |-> "none",
           key |-> 0, iv |-> 0, drain |-> "none", sound |-> FALSE]

Registering(h) == stage \in {"replied", "keyed"} /\ peer = h

\* The thread of the connection has found keys and not yet read both.
TakingKeys(c) == conn[c].at \in {"known", "half"}

Init ==
    /\ enabled \in BOOLEAN /\ ffmpeg \in BOOLEAN
    /\ inbox = <<>> /\ stage = "waiting" /\ peer = "none" /\ pairings = 0
    /\ key = [h \in Headsets |-> 0] /\ iv = [h \in Headsets |-> 0]
    /\ replies = [h \in Headsets |-> <<>>]
    /\ material = [h \in Headsets |-> 0]
    /\ newest = [h \in Headsets |-> 0]
    /\ owner = <<>>
    /\ conn = [c \in Conns |-> NoConn]
    /\ datagrams = 0 /\ crashes = 0

----------------------------------------------------------------------------
(* The discovery thread.                                                   *)

\* A headset sends a datagram.  One that is lost might as well not be sent.
SendDatagram(h, kind) ==
    /\ stage # "down"
    /\ datagrams < MaxDatagrams
    /\ datagrams' = datagrams + 1
    /\ inbox' = Append(inbox, [from |-> h, kind |-> kind])
    /\ UNCHANGED <<enabled, ffmpeg, stage, peer, pairings, key, iv, headsetVars, conn, crashes>>

\* A nudge, a short packet, or one whose frames, fields or RSA key do not parse.
\* Fault: one of the exceptions of parsing is not caught.
FaultAfterNoise == "dead"
AfterNoise == "waiting"
IgnoreDatagram ==
    /\ stage = "waiting" /\ inbox # <<>>
    /\ Head(inbox).kind # "request"
    /\ inbox' = Tail(inbox)
    /\ stage' = AfterNoise
    /\ UNCHANGED <<enabled, ffmpeg, peer, pairings, key, iv, headsetVars, conn, datagrams,
                   crashes>>

TakeRequest ==
    /\ stage = "waiting" /\ inbox # <<>>
    /\ Head(inbox).kind = "request"
    /\ inbox' = Tail(inbox)
    /\ stage' = "pairing" /\ peer' = Head(inbox).from
    /\ UNCHANGED <<enabled, ffmpeg, pairings, key, iv, headsetVars, conn, datagrams, crashes>>

\* sendto(reply), with a key and an IV just drawn.
SendReply ==
    LET n == pairings + 1
    IN /\ stage = "pairing"
       /\ stage' = "replied"
       /\ pairings' = n
       /\ owner' = Append(owner, peer)
       /\ replies' = [replies EXCEPT ![peer] = Append(@, n)]
       /\ newest' = [newest EXCEPT ![peer] = n]
       /\ conn' = [c \in Conns |->
                     [conn[c] EXCEPT !.sound = @ /\ ~(conn[c].peer = peer /\ TakingKeys(c))]]
       /\ UNCHANGED <<enabled, ffmpeg, inbox, peer, key, iv, material, datagrams, crashes>>

\* The RSA key is too short for OAEP, a configured value does not go into the
\* XML, or the network is unreachable: nothing catches that, and the thread
\* ends.  The program goes on without it.
PairingRaises ==
    /\ stage = "pairing"
    /\ stage' = "dead"
    /\ UNCHANGED <<enabled, ffmpeg, inbox, peer, pairings, key, iv, headsetVars, conn, datagrams,
                   crashes>>

\* set_keys assigns key, then iv.
\* Fault: a session that has keys keeps its IV.
FaultNewIv(h) == IF iv[h] = 0 THEN pairings ELSE iv[h]
\* Fault: the IV is drawn again.
FaultFreshIv(h) == pairings + 1
NewIv(h) == pairings
SetKey ==
    /\ stage = "replied"
    /\ stage' = "keyed"
    /\ key' = [h \in Headsets |-> IF h = peer THEN pairings ELSE key[h]]
    /\ UNCHANGED <<enabled, ffmpeg, inbox, peer, pairings, iv, headsetVars, conn, datagrams, crashes>>

SetIv ==
    /\ stage = "keyed"
    /\ stage' = "waiting" /\ peer' = "none"
    /\ iv' = [h \in Headsets |-> IF h = peer THEN NewIv(h) ELSE iv[h]]
    /\ UNCHANGED <<enabled, ffmpeg, inbox, pairings, key, headsetVars, conn, datagrams, crashes>>

----------------------------------------------------------------------------
(* The headsets.                                                           *)

TakeReply(h) ==
    /\ replies[h] # <<>>
    /\ material' = [material EXCEPT ![h] = Head(replies[h])]
    /\ replies' = [replies EXCEPT ![h] = Tail(@)]
    /\ UNCHANGED <<enabled, ffmpeg, discoveryVars, key, iv, newest, owner, conn, datagrams, crashes>>

LoseReply(h) ==
    /\ replies[h] # <<>>
    /\ replies' = [replies EXCEPT ![h] = Tail(@)]
    /\ UNCHANGED <<enabled, ffmpeg, discoveryVars, key, iv, material, newest, owner, conn,
                   datagrams, crashes>>

\* A headset connects, also with keys of an earlier process or with none.
Connect(c, h, role) ==
    /\ stage # "down"
    /\ conn[c].at = "none" /\ \A d \in Conns : d < c => conn[d].at # "none"
    /\ conn' = [conn EXCEPT ![c] =
          [peer |-> h, uses |-> material[h], role |-> role, link |-> "open", at |-> "accepted",
           key |-> 0, iv |-> 0, drain |-> "none", sound |-> FALSE]]
    /\ UNCHANGED <<enabled, ffmpeg, discoveryVars, key, iv, headsetVars, datagrams, crashes>>

\* It stops reading for longer than any timeout, or goes away.
LoseLink(c, link) ==
    /\ conn[c].link \in {"open", "stalled"} /\ conn[c].link # link
    /\ conn[c].at # "closed"
    /\ conn' = [conn EXCEPT ![c].link = link]
    /\ UNCHANGED <<enabled, ffmpeg, discoveryVars, key, iv, headsetVars, datagrams, crashes>>

----------------------------------------------------------------------------
(* The thread of a connection.                                             *)

ConnStep(c, from, new) ==
    /\ conn[c].at = from
    /\ conn' = [conn EXCEPT ![c] = new]
    /\ UNCHANGED <<enabled, ffmpeg, discoveryVars, key, iv, headsetVars, datagrams, crashes>>

At(c, at)  == [conn[c] EXCEPT !.at = at]
PeerOf(c)  == conn[c].peer

\* registry.get and the test for None: a peer without keys is refused.
\* Fault: only the key is looked at.
FaultHasKeys(h) == key[h] # 0
HasKeys(h) == key[h] # 0 /\ iv[h] # 0
LookUp(c) ==
    /\ conn[c].at = "accepted"
    /\ LET h == PeerOf(c)
       IN ConnStep(c, "accepted", [At(c, IF HasKeys(h) THEN "known" ELSE "closed")
             EXCEPT !.sound = conn[c].uses = newest[h] /\ ~Registering(h)])

\* The property then reads the attributes once more, one after the other.
ReadKey(c) == ConnStep(c, "known", [At(c, "half") EXCEPT !.key = key[PeerOf(c)]])
ReadIv(c)  == ConnStep(c, "half", [At(c, "ready") EXCEPT !.iv = iv[PeerOf(c)]])

\* The handlers begin.  The data channel writes its bandwidth probe, the
\* control channel its settings, and both go on to read; the audio channel and
\* a disabled video channel only drain.
BeginReading(c) ==
    /\ conn[c].role \in {"control", "data"}
    /\ \/ ConnStep(c, "ready", At(c, "reading"))
       \/ conn[c].link = "lost" /\ ConnStep(c, "ready", At(c, "closed"))
BeginDraining(c) ==
    /\ conn[c].role = "audio" \/ (conn[c].role = "video" /\ ~enabled)
    /\ ConnStep(c, "ready", At(c, "draining"))
BeginVideo(c) ==
    /\ conn[c].role = "video" /\ enabled
    /\ ConnStep(c, "ready", [At(c, IF ffmpeg THEN "streaming" ELSE "holding")
                                EXCEPT !.drain = "running"])

\* read_frame or recv reports that the headset has gone.
EndReading(c) ==
    /\ conn[c].link = "lost"
    /\ \/ ConnStep(c, "reading", At(c, "closed"))
       \/ ConnStep(c, "draining", At(c, "closed"))

\* Only the sockets of the video channel have a timeout: a headset that stops
\* reading ends its stream as one that has gone does.
EndStreaming(c) == conn[c].link \in {"stalled", "lost"} /\ ConnStep(c, "streaming", At(c, "closed"))

\* The encoders end, and with them the session.
SessionOver(c) == ConnStep(c, "streaming", At(c, "closed"))

\* The thread draining the socket of a video channel ends when the headset has
\* gone or the socket is closed under it; a timeout of recv does not end it.
\* Fault: it takes an error for a timeout.
FaultDrainSees(c) == conn[c].link = "lost"
DrainSees(c) == conn[c].link = "lost" \/ conn[c].at = "closed"
EndDrain(c) ==
    /\ conn[c].drain = "running"
    /\ DrainSees(c)
    /\ ConnStep(c, conn[c].at, [conn[c] EXCEPT !.drain = "ended"])

----------------------------------------------------------------------------
(* The program is killed, and started anew by systemd or by hand.          *)

Crash ==
    /\ stage # "down" /\ crashes < MaxCrashes
    /\ crashes' = crashes + 1
    /\ stage' = "down" /\ inbox' = <<>> /\ peer' = "none"
    /\ key' = [h \in Headsets |-> 0] /\ iv' = [h \in Headsets |-> 0]
    /\ newest' = [h \in Headsets |-> 0]
    /\ conn' = [c \in Conns |->
          IF conn[c].at = "none" THEN conn[c]
          ELSE [conn[c] EXCEPT !.link = "lost", !.at = "closed", !.sound = FALSE,
                               !.drain = IF @ = "running" THEN "ended" ELSE @]]
    /\ UNCHANGED <<enabled, ffmpeg, pairings, replies, material, owner, datagrams>>

Start ==
    /\ stage = "down"
    /\ stage' = "waiting"
    /\ UNCHANGED <<enabled, ffmpeg, inbox, peer, pairings, key, iv, headsetVars, conn, datagrams,
                   crashes>>

----------------------------------------------------------------------------

DiscoveryStep ==
    IgnoreDatagram \/ TakeRequest \/ SendReply \/ PairingRaises \/ SetKey \/ SetIv
HandlerStep(c) ==
    \/ LookUp(c) \/ ReadKey(c) \/ ReadIv(c)
    \/ BeginReading(c) \/ BeginDraining(c) \/ BeginVideo(c)
    \/ EndReading(c) \/ EndStreaming(c)
HeadsetStep(h) ==
    \/ \E kind \in Kinds : SendDatagram(h, kind)
    \/ TakeReply(h) \/ LoseReply(h)
    \/ \E c \in Conns, role \in Roles : Connect(c, h, role)
Next ==
    \/ DiscoveryStep
    \/ \E h \in Headsets : HeadsetStep(h)
    \/ \E c \in Conns :
          \/ HandlerStep(c) \/ SessionOver(c) \/ EndDrain(c)
          \/ \E link \in {"stalled", "lost"} : LoseLink(c, link)
    \/ Crash \/ Start

\* Every thread that can run is run.  For a stream to notice that the headset
\* has gone it must write: the encoders are assumed to go on producing units.
Fairness ==
    /\ WF_vars(DiscoveryStep)
    /\ \A c \in Conns : WF_vars(HandlerStep(c)) /\ WF_vars(EndDrain(c))

Spec     == Init /\ [][Next]_vars
FairSpec == Spec /\ Fairness

----------------------------------------------------------------------------
(* Properties.                                                             *)

Connection ==
    [peer : Headsets \cup {"none"}, uses : 0 .. pairings, role : Roles \cup {"none"},
     link : {"none", "open", "stalled", "lost"},
     at : {"none", "accepted", "known", "half", "ready", "reading", "draining", "streaming",
           "holding", "closed"},
     key : 0 .. pairings, iv : 0 .. pairings,
     drain : {"none", "running", "ended"}, sound : BOOLEAN]

\* The type invariant.
TypeOK ==
    /\ enabled \in BOOLEAN /\ ffmpeg \in BOOLEAN
    /\ inbox \in Seq([from : Headsets, kind : Kinds])
    /\ stage \in {"waiting", "pairing", "replied", "keyed", "dead", "down"}
    /\ peer \in Headsets \cup {"none"}
    /\ stage \in {"pairing", "replied", "keyed"} => peer \in Headsets
    /\ pairings \in Nat
    /\ key \in [Headsets -> 0 .. pairings] /\ iv \in [Headsets -> 0 .. pairings]
    /\ replies \in [Headsets -> Seq(1 .. pairings)]
    /\ material \in [Headsets -> 0 .. pairings]
    /\ newest \in [Headsets -> 0 .. pairings]
    /\ owner \in Seq(Headsets) /\ Len(owner) = pairings
    /\ conn \in [Conns -> Connection]
    /\ \A c \in Conns : IF conn[c].at = "none" THEN conn[c].link = "none" /\ conn[c].drain = "none"
                                              ELSE conn[c].peer \in Headsets
    /\ datagrams \in 0 .. MaxDatagrams /\ crashes \in 0 .. MaxCrashes

Served(c) == conn[c].at \in {"ready", "reading", "draining", "streaming", "holding"}

\* The registry holds no keys that were not sent to the headset they are for,
\* and once a pairing is registered it holds the newest of them: a reply that
\* could not be sent leaves the keys that the headset has.
RegistryFollowsReplies ==
    \A h \in Headsets :
        /\ key[h] > 0 => owner[key[h]] = h
        /\ ~Registering(h) => key[h] = newest[h] /\ iv[h] = newest[h]

\* A stream is never set up with None, nor with keys of another headset.  Key
\* and IV are read without a lock while a pairing may replace them.  What is
\* sure is this: if the pairing that the headset uses was registered when the
\* connection's thread looked it up, however early it connected, and no reply
\* was sent to it until the thread had read both, its stream has the key and
\* the IV it uses.  Of a connection that is looked up while the reply it came
\* from is being registered, or read while the next one is, nothing is said: it
\* may be served with old keys or with the key of one pairing and the IV of
\* another.
ServedKeysAgree ==
    \A c \in Conns : Served(c) =>
        /\ conn[c].key > 0 /\ owner[conn[c].key] = PeerOf(c)
        /\ conn[c].iv > 0 /\ owner[conn[c].iv] = PeerOf(c)
        /\ conn[c].sound => conn[c].key = conn[c].uses /\ conn[c].iv = conn[c].uses

\* Datagrams that are no request do not keep the ones behind them from being
\* answered: only an exception while pairing, or a crash, does.
RequestsAnswered ==
    \A h \in Headsets :
        (\E i \in DOMAIN inbox : inbox[i] = [from |-> h, kind |-> "request"])
            ~> \/ replies[h] # <<>>
               \/ stage = "dead" /\ peer # "none"
               \/ stage = "down"

\* A connection whose headset has gone is closed in the end, and a video
\* channel also when the headset only stops reading, unless it is held open
\* because there is no ffmpeg; and the thread that drains a closed one ends.
ConnectionsEnd ==
    \A c \in Conns :
        /\ (conn[c].link = "lost" \/ (conn[c].link = "stalled" /\ conn[c].role = "video" /\ enabled))
              ~> (conn[c].at \in {"closed", "holding"})
        /\ (conn[c].at = "closed") ~> (conn[c].drain # "running")

=============================================================================
