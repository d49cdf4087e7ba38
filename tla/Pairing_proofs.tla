--------------------------- MODULE Pairing_proofs ---------------------------
(***************************************************************************)
(* Theorems about Pairing, for every set of headsets and channels and any  *)
(* number of datagrams, connections and crashes, and their proofs.         *)
(***************************************************************************)
EXTENDS Pairing, TLAPS

USE PairingAssumption DEF PairingAssumption

----------------------------------------------------------------------------
(* The inductive invariant.                                                *)

\* The keys in the registry were sent to the headset they are for, and outside
\* of set_keys they are the newest that were.  In it the newest pairing is that
\* of the headset that is paired with.
KeyInv ==
    /\ \A h \in Headsets :
          /\ key[h] > 0 => owner[key[h]] = h
          /\ iv[h] > 0 => owner[iv[h]] = h
          /\ ~Registering(h) => key[h] = newest[h] /\ iv[h] = newest[h]
    /\ stage \in {"replied", "keyed"} =>
          pairings > 0 /\ owner[pairings] = peer /\ newest[peer] = pairings
    /\ stage = "keyed" => key[peer] = pairings

\* What a connection has read, and what it has still to read.
HoldsKey(r) == r.key > 0 /\ owner[r.key] = r.peer
HoldsIv(r)  == r.iv > 0 /\ owner[r.iv] = r.peer
Ready       == {"ready", "reading", "draining", "streaming", "holding"}

Good(r) ==
    /\ r.at \in {"known", "half"} => key[r.peer] > 0 /\ iv[r.peer] > 0
    /\ r.at \in Ready \cup {"half"} => HoldsKey(r)
    /\ r.at \in Ready => HoldsIv(r)
    /\ r.sound = TRUE =>
          /\ r.at \in {"known", "half"} => r.uses = newest[r.peer] /\ ~Registering(r.peer)
          /\ r.at \in Ready \cup {"half"} => r.key = r.uses
          /\ r.at \in Ready => r.iv = r.uses

ConnInv == \A c \in Conns : conn[c].at # "none" => Good(conn[c])

PairingInv == TypeOK /\ KeyInv /\ ConnInv

\* A connection changes hands with no other part of the state.
LEMMA OneConn ==
  ASSUME PairingInv, NEW c \in Conns, NEW r \in Connection,
         conn' = [conn EXCEPT ![c] = r],
         UNCHANGED <<enabled, ffmpeg, discoveryVars, key, iv, headsetVars, datagrams, crashes>>,
         r.peer \in Headsets, r.at # "none", Good(r)
  PROVE  PairingInv'
<1> USE DEF PairingInv
<1>1. enabled' \in BOOLEAN /\ ffmpeg' \in BOOLEAN
  BY Zenon DEF TypeOK
<1>2. UNCHANGED <<inbox, stage, peer, pairings, replies, material, newest, owner>>
  BY DEF discoveryVars, headsetVars
<1>3. \A d \in Conns : conn'[d] = IF d = c THEN r ELSE conn[d]
  BY DEF TypeOK
<1>4. conn' \in [Conns -> Connection]
  BY DEF TypeOK
<1>5. Connection' = Connection
  BY <1>2 DEF Connection
<1>6. \A d \in Conns : IF conn'[d].at = "none"
                         THEN conn'[d].link = "none" /\ conn'[d].drain = "none"
                         ELSE conn'[d].peer \in Headsets
  BY <1>3 DEF TypeOK
<1>7. TypeOK'
  BY <1>1, <1>2, <1>4, <1>5, <1>6 DEF TypeOK
<1>8. KeyInv'
  BY <1>2 DEF KeyInv, Registering
<1>9. ASSUME NEW q PROVE Good(q) => Good(q)'
  BY <1>2 DEF Good, HoldsKey, HoldsIv, Ready, Registering
<1>10. ConnInv'
  BY <1>3, <1>9 DEF ConnInv
<1> QED
  BY <1>7, <1>8, <1>10

\* A record that differs from the connection's in where its thread is.
LEMMA NewAt ==
  ASSUME PairingInv, NEW c \in Conns, conn[c].at # "none",
         NEW at \in {"known", "half", "ready", "reading", "draining", "streaming", "holding",
                     "closed"}
  PROVE  /\ conn[c] \in Connection /\ conn[c].peer \in Headsets /\ Good(conn[c])
         /\ At(c, at) \in Connection
         /\ At(c, at).peer = conn[c].peer /\ At(c, at).at = at
         /\ At(c, at).key = conn[c].key /\ At(c, at).iv = conn[c].iv
         /\ At(c, at).uses = conn[c].uses /\ At(c, at).sound = conn[c].sound
<1>1. conn[c] \in Connection
  BY DEF PairingInv, TypeOK
<1>2. conn[c].peer \in Headsets /\ Good(conn[c])
  BY <1>1 DEF PairingInv, TypeOK, ConnInv
<1>3. At(c, at) \in Connection
  BY <1>1 DEF At, Connection
<1>4. /\ At(c, at).peer = conn[c].peer /\ At(c, at).at = at
      /\ At(c, at).key = conn[c].key /\ At(c, at).iv = conn[c].iv
      /\ At(c, at).uses = conn[c].uses
  BY <1>1 DEF At, Connection
<1>5. At(c, at).sound = conn[c].sound
  BY <1>1 DEF At, Connection
<1> QED
  BY <1>1, <1>2, <1>3, <1>4, <1>5

\* The thread of a connection that has its stream goes on, or ends.
LEMMA ReadyStep ==
  ASSUME PairingInv, NEW c \in Conns, NEW at \in Ready \cup {"closed"},
         conn[c].at \in Ready, ConnStep(c, conn[c].at, At(c, at))
  PROVE  PairingInv'
<1>1. conn[c].at # "none"
  BY DEF Ready
<1>2. at \in {"known", "half", "ready", "reading", "draining", "streaming", "holding", "closed"}
  BY DEF Ready
<1>3. /\ Good(conn[c]) /\ conn[c].peer \in Headsets /\ At(c, at) \in Connection
      /\ At(c, at).peer = conn[c].peer /\ At(c, at).at = at
      /\ At(c, at).key = conn[c].key /\ At(c, at).iv = conn[c].iv
      /\ At(c, at).uses = conn[c].uses
  BY <1>1, <1>2, NewAt
<1>4. At(c, at).sound = conn[c].sound
  BY <1>1, <1>2, NewAt
<1>5. Good(At(c, at))
  BY <1>3, <1>4 DEF Good, HoldsKey, HoldsIv, Ready
<1> QED
  BY <1>2, <1>3, <1>5, OneConn DEF ConnStep

LEMMA LookUpStep == ASSUME PairingInv, NEW c \in Conns, LookUp(c) PROVE PairingInv'
<1> DEFINE h == conn[c].peer
<1>1. PICK at \in {"known", "closed"}, sound \in BOOLEAN :
          /\ conn' = [conn EXCEPT ![c] = [At(c, at) EXCEPT !.sound = sound]]
          /\ at = "known" => HasKeys(h)
          /\ sound = (conn[c].uses = newest[h] /\ ~Registering(h))
  <2>1. PICK sound \in BOOLEAN : sound = (conn[c].uses = newest[h] /\ ~Registering(h))
    OBVIOUS
  <2>2. conn' = [conn EXCEPT ![c] = [At(c, IF HasKeys(h) THEN "known" ELSE "closed")
                                        EXCEPT !.sound = sound]]
    BY <2>1, Zenon DEF LookUp, ConnStep, PeerOf
  <2>3. CASE HasKeys(h)
    BY <2>1, <2>2, <2>3
  <2>4. CASE ~HasKeys(h)
    BY <2>1, <2>2, <2>4
  <2> QED
    BY <2>3, <2>4
<1>2. conn[c].at = "accepted"
  BY DEF LookUp
<1> DEFINE r == [At(c, at) EXCEPT !.sound = sound]
<1>3. /\ h \in Headsets /\ Good(conn[c])
      /\ At(c, at) \in Connection
      /\ At(c, at).peer = h /\ At(c, at).at = at
      /\ At(c, at).uses = conn[c].uses
  BY <1>2, NewAt
<1>4. /\ r \in Connection /\ r.peer = h /\ r.at = at /\ r.uses = conn[c].uses
      /\ r.sound = sound
  BY <1>3 DEF Connection
<1>5. at = "known" => key[h] > 0 /\ iv[h] > 0
  <2>1. key[h] \in Nat /\ iv[h] \in Nat
    BY <1>3 DEF PairingInv, TypeOK
  <2> QED
    BY <1>1, <2>1 DEF HasKeys
<1>6. sound = TRUE => conn[c].uses = newest[h] /\ ~Registering(h)
  BY <1>1
<1>7. conn' = [conn EXCEPT ![c] = r]
  BY <1>1
<1> HIDE DEF r
<1>8. Good(r)
  BY <1>3, <1>4, <1>5, <1>6 DEF Good, Ready
<1> QED
  BY <1>2, <1>3, <1>4, <1>7, <1>8, OneConn DEF LookUp, ConnStep

LEMMA ReadKeyStep == ASSUME PairingInv, NEW c \in Conns, ReadKey(c) PROVE PairingInv'
<1> DEFINE h == conn[c].peer
           r == [At(c, "half") EXCEPT !.key = key[h]]
<1>1. conn[c].at = "known"
  BY DEF ReadKey, ConnStep
<1>2. /\ h \in Headsets /\ Good(conn[c])
      /\ At(c, "half") \in Connection /\ At(c, "half").peer = h
      /\ At(c, "half").uses = conn[c].uses /\ At(c, "half").at = "half"
  BY <1>1, NewAt
<1>3. At(c, "half").sound = conn[c].sound
  BY <1>1, NewAt
<1>4. key[h] \in 0 .. pairings
  BY <1>2 DEF PairingInv, TypeOK
<1>5. r \in Connection
  BY <1>2, <1>4 DEF Connection
<1>6. r.peer = h /\ r.uses = conn[c].uses /\ r.at = "half" /\ r.key = key[h]
  BY <1>2 DEF Connection
<1>7. r.sound = conn[c].sound
  BY <1>2, <1>3 DEF Connection
<1> HIDE DEF r
<1>8. Good(r)
  BY <1>1, <1>2, <1>6, <1>7 DEF Good, Ready, HoldsKey, PairingInv, KeyInv, Registering
<1>9. conn' = [conn EXCEPT ![c] = r]
  BY DEF ReadKey, ConnStep, PeerOf, r
<1> QED
  BY <1>2, <1>5, <1>6, <1>8, <1>9, OneConn DEF ReadKey, ConnStep

LEMMA ReadIvStep == ASSUME PairingInv, NEW c \in Conns, ReadIv(c) PROVE PairingInv'
<1> DEFINE h == conn[c].peer
           r == [At(c, "ready") EXCEPT !.iv = iv[h]]
<1>1. conn[c].at = "half"
  BY DEF ReadIv, ConnStep
<1>2. /\ h \in Headsets /\ Good(conn[c])
      /\ At(c, "ready") \in Connection /\ At(c, "ready").peer = h
      /\ At(c, "ready").uses = conn[c].uses /\ At(c, "ready").at = "ready"
      /\ At(c, "ready").key = conn[c].key
  BY <1>1, NewAt
<1>3. At(c, "ready").sound = conn[c].sound
  BY <1>1, NewAt
<1>4. iv[h] \in 0 .. pairings
  BY <1>2 DEF PairingInv, TypeOK
<1>5. r \in Connection
  BY <1>2, <1>4 DEF Connection
<1>6. /\ r.peer = h /\ r.uses = conn[c].uses /\ r.at = "ready"
      /\ r.key = conn[c].key /\ r.iv = iv[h]
  BY <1>2 DEF Connection
<1>7. r.sound = conn[c].sound
  BY <1>2, <1>3 DEF Connection
<1> HIDE DEF r
<1>8. Good(r)
  BY <1>1, <1>2, <1>6, <1>7
     DEF Good, Ready, HoldsKey, HoldsIv, PairingInv, KeyInv, Registering
<1>9. conn' = [conn EXCEPT ![c] = r]
  BY DEF ReadIv, ConnStep, PeerOf, r
<1> QED
  BY <1>2, <1>5, <1>6, <1>8, <1>9, OneConn DEF ReadIv, ConnStep

LEMMA HandlersGoOn ==
  ASSUME PairingInv, NEW c \in Conns,
         BeginReading(c) \/ BeginDraining(c) \/ EndReading(c) \/ EndStreaming(c) \/ SessionOver(c)
  PROVE  PairingInv'
<1>1. CASE BeginReading(c)
  BY <1>1, ReadyStep DEF BeginReading, Ready, ConnStep
<1>2. CASE BeginDraining(c)
  BY <1>2, ReadyStep DEF BeginDraining, Ready, ConnStep
<1>3. CASE EndReading(c)
  BY <1>3, ReadyStep DEF EndReading, Ready, ConnStep
<1>4. CASE EndStreaming(c) \/ SessionOver(c)
  BY <1>4, ReadyStep DEF EndStreaming, SessionOver, Ready, ConnStep
<1> QED
  BY <1>1, <1>2, <1>3, <1>4

\* The other steps change a field that the invariant does not look at.
LEMMA FieldSteps ==
  ASSUME PairingInv, NEW c \in Conns,
         BeginVideo(c) \/ EndDrain(c) \/ \E link \in {"stalled", "lost"} : LoseLink(c, link)
  PROVE  PairingInv'
<1>1. CASE BeginVideo(c)
  <2> DEFINE at == IF ffmpeg THEN "streaming" ELSE "holding"
             r  == [At(c, at) EXCEPT !.drain = "running"]
  <2>1. conn[c].at = "ready" /\ conn' = [conn EXCEPT ![c] = r]
    BY <1>1, Zenon DEF BeginVideo, ConnStep
  <2>2. at \in {"streaming", "holding"}
    OBVIOUS
  <2> HIDE DEF at
  <2>3. /\ conn[c].peer \in Headsets /\ Good(conn[c])
        /\ At(c, at) \in Connection /\ At(c, at).peer = conn[c].peer /\ At(c, at).at = at
        /\ At(c, at).key = conn[c].key /\ At(c, at).iv = conn[c].iv
        /\ At(c, at).uses = conn[c].uses
    BY <2>1, <2>2, NewAt
  <2>4. At(c, at).sound = conn[c].sound
    BY <2>1, <2>2, NewAt
  <2>5. /\ r \in Connection /\ r.peer = conn[c].peer /\ r.at = at
        /\ r.key = conn[c].key /\ r.iv = conn[c].iv /\ r.uses = conn[c].uses
    BY <2>3 DEF Connection
  <2>6. r.sound = conn[c].sound
    BY <2>3, <2>4 DEF Connection
  <2> HIDE DEF r
  <2>7. Good(r)
    BY <2>1, <2>2, <2>3, <2>5, <2>6 DEF Good, HoldsKey, HoldsIv, Ready
  <2> QED
    BY <1>1, <2>1, <2>2, <2>3, <2>5, <2>7, OneConn DEF BeginVideo, ConnStep
<1>2. CASE EndDrain(c)
  <2> DEFINE r == [conn[c] EXCEPT !.drain = "ended"]
  <2>1. conn[c].at # "none" /\ conn[c] \in Connection
    BY <1>2 DEF EndDrain, PairingInv, TypeOK
  <2>2. conn[c].peer \in Headsets /\ Good(conn[c])
    BY <2>1 DEF PairingInv, TypeOK, ConnInv
  <2>3. /\ r \in Connection /\ r.peer = conn[c].peer /\ r.at = conn[c].at
        /\ r.key = conn[c].key /\ r.iv = conn[c].iv /\ r.uses = conn[c].uses
    BY <2>1 DEF Connection
  <2>4. r.sound = conn[c].sound
    BY <2>1 DEF Connection
  <2> HIDE DEF r
  <2>5. Good(r)
    BY <2>2, <2>3, <2>4 DEF Good, HoldsKey, HoldsIv
  <2>6. conn' = [conn EXCEPT ![c] = r]
    BY <1>2 DEF EndDrain, ConnStep, r
  <2> QED
    BY <1>2, <2>1, <2>2, <2>3, <2>5, <2>6, OneConn DEF EndDrain, ConnStep
<1>3. ASSUME NEW link \in {"stalled", "lost"}, LoseLink(c, link)
      PROVE  PairingInv'
  <2> DEFINE r == [conn[c] EXCEPT !.link = link]
  <2>1. conn[c].at # "none" /\ conn[c] \in Connection
    BY <1>3 DEF LoseLink, PairingInv, TypeOK
  <2>2. conn[c].peer \in Headsets /\ Good(conn[c])
    BY <2>1 DEF PairingInv, TypeOK, ConnInv
  <2>3. /\ r \in Connection /\ r.peer = conn[c].peer /\ r.at = conn[c].at
        /\ r.key = conn[c].key /\ r.iv = conn[c].iv /\ r.uses = conn[c].uses
    BY <2>1 DEF Connection
  <2>4. r.sound = conn[c].sound
    BY <2>1 DEF Connection
  <2>5. conn' = [conn EXCEPT ![c] = r]
    BY <1>3, <2>1 DEF LoseLink, Connection
  <2> HIDE DEF r
  <2>6. Good(r)
    BY <2>2, <2>3, <2>4 DEF Good, HoldsKey, HoldsIv
  <2> QED
    BY <1>3, <2>1, <2>2, <2>3, <2>5, <2>6, OneConn DEF LoseLink
<1> QED
  BY <1>1, <1>2, <1>3

LEMMA ConnectStep ==
  ASSUME PairingInv, NEW c \in Conns, NEW h \in Headsets, NEW role \in Roles, Connect(c, h, role)
  PROVE  PairingInv'
<1> DEFINE r == [peer |-> h, uses |-> material[h], role |-> role, link |-> "open",
                 at |-> "accepted", key |-> 0, iv |-> 0, drain |-> "none", sound |-> FALSE]
<1>2. conn' = [conn EXCEPT ![c] = r]
  BY DEF Connect
<1>4. material[h] \in 0 .. pairings /\ 0 \in 0 .. pairings
  BY DEF PairingInv, TypeOK
<1>5. r \in Connection
  BY <1>4, ZenonT(60) DEF Connection
<1>6. Good(r)
  BY DEF Good, Ready
<1> QED
  BY <1>2, <1>5, <1>6, OneConn DEF Connect

----------------------------------------------------------------------------
(* Steps that leave the keys alone.                                        *)

LEMMA KeysKept ==
  ASSUME PairingInv, UNCHANGED <<pairings, key, iv, newest, owner, conn>>,
         \/ UNCHANGED <<stage, peer>>
         \/ stage \notin {"replied", "keyed"} /\ stage' \notin {"replied", "keyed"}
  PROVE  KeyInv' /\ ConnInv' /\ Connection' = Connection
<1>1. \A h \in Headsets : Registering(h)' = Registering(h)
  BY DEF Registering
<1>2. KeyInv'
  BY <1>1 DEF PairingInv, KeyInv, Registering
<1>3. ASSUME NEW c \in Conns, conn[c].at # "none" PROVE Good(conn[c])'
  <2>1. conn[c].peer \in Headsets /\ Good(conn[c]) /\ conn'[c] = conn[c]
    BY <1>3 DEF PairingInv, TypeOK, ConnInv
  <2> QED
    BY <2>1, <1>1 DEF Good, HoldsKey, HoldsIv, Ready
<1>4. Connection' = Connection
  BY DEF Connection
<1> QED
  BY <1>2, <1>3, <1>4 DEF ConnInv

LEMMA HeadAndTail ==
  ASSUME NEW S, NEW s \in Seq(S), s # <<>>
  PROVE  Head(s) \in S /\ Tail(s) \in Seq(S)
  OBVIOUS

LEMMA QuietSteps ==
  ASSUME PairingInv,
         \/ IgnoreDatagram \/ TakeRequest \/ PairingRaises \/ Start
         \/ \E h \in Headsets : TakeReply(h) \/ LoseReply(h) \/ \E kind \in Kinds : SendDatagram(h, kind)
  PROVE  PairingInv'
<1> USE DEF PairingInv
<1>1. enabled' \in BOOLEAN /\ ffmpeg' \in BOOLEAN
  <2>1. enabled' = enabled /\ ffmpeg' = ffmpeg
    BY Zenon DEF IgnoreDatagram, TakeRequest, PairingRaises, Start, TakeReply, LoseReply, SendDatagram
  <2> QED
    BY <2>1, Zenon DEF TypeOK
<1> DEFINE Datagram == [from : Headsets, kind : Kinds]
<1>2. CASE IgnoreDatagram
  <2>1. Tail(inbox) \in Seq(Datagram)
    BY <1>2, HeadAndTail DEF IgnoreDatagram, TypeOK
  <2>2. /\ inbox' = Tail(inbox) /\ stage = "waiting" /\ stage' = "waiting"
        /\ UNCHANGED <<peer, pairings, key, iv, replies, material, newest, owner, conn,
                       datagrams, crashes>>
    BY <1>2 DEF IgnoreDatagram, AfterNoise, headsetVars
  <2>3. KeyInv' /\ ConnInv' /\ Connection' = Connection
    BY <2>2, KeysKept
  <2> QED
    BY <1>1, <2>1, <2>2, <2>3 DEF TypeOK
<1>3. CASE TakeRequest
  <2>1. Head(inbox) \in Datagram /\ Tail(inbox) \in Seq(Datagram)
    BY <1>3, HeadAndTail DEF TakeRequest, TypeOK
  <2>2. /\ inbox' = Tail(inbox) /\ stage = "waiting" /\ stage' = "pairing"
        /\ peer' = Head(inbox).from
        /\ UNCHANGED <<pairings, key, iv, replies, material, newest, owner, conn,
                       datagrams, crashes>>
    BY <1>3 DEF TakeRequest, headsetVars
  <2>3. KeyInv' /\ ConnInv' /\ Connection' = Connection
    BY <2>2, KeysKept
  <2>4. peer' \in Headsets
    BY <2>1, <2>2
  <2> QED
    BY <1>1, <2>1, <2>2, <2>3, <2>4 DEF TypeOK
<1>4. CASE PairingRaises \/ Start
  <2>1. /\ stage \in {"pairing", "down"} /\ stage' \in {"dead", "waiting"}
        /\ UNCHANGED <<inbox, peer, pairings, key, iv, replies, material, newest, owner, conn,
                       datagrams, crashes>>
    BY <1>4 DEF PairingRaises, Start, headsetVars
  <2>2. KeyInv' /\ ConnInv' /\ Connection' = Connection
    BY <2>1, KeysKept
  <2> QED
    BY <1>1, <2>1, <2>2 DEF TypeOK
<1>5. ASSUME NEW h \in Headsets, TakeReply(h) \/ LoseReply(h)
      PROVE  PairingInv'
  <2>1. Head(replies[h]) \in 1 .. pairings /\ Tail(replies[h]) \in Seq(1 .. pairings)
    BY <1>5, HeadAndTail DEF TakeReply, LoseReply, TypeOK
  <2>2. /\ material' = material \/ material' = [material EXCEPT ![h] = Head(replies[h])]
        /\ replies' = [replies EXCEPT ![h] = Tail(@)]
        /\ UNCHANGED <<inbox, stage, peer, pairings, key, iv, newest, owner, conn, datagrams, crashes>>
    BY <1>5 DEF TakeReply, LoseReply, discoveryVars
  <2>3. replies' \in [Headsets -> Seq(1 .. pairings)] /\ material' \in [Headsets -> 0 .. pairings]
    <3>1. Head(replies[h]) \in 0 .. pairings
      BY <2>1
    <3>2. replies \in [Headsets -> Seq(1 .. pairings)] /\ material \in [Headsets -> 0 .. pairings]
      BY DEF TypeOK
    <3> QED
      BY <2>1, <2>2, <3>1, <3>2
  <2>4. KeyInv' /\ ConnInv' /\ Connection' = Connection
    BY <2>2, KeysKept
  <2> QED
    BY <1>1, <2>2, <2>3, <2>4 DEF TypeOK
<1>6. ASSUME NEW h \in Headsets, NEW kind \in Kinds, SendDatagram(h, kind)
      PROVE  PairingInv'
  <2>1. inbox' \in Seq(Datagram)
    BY <1>6 DEF SendDatagram, TypeOK
  <2>2. /\ datagrams < MaxDatagrams /\ datagrams' = datagrams + 1
        /\ UNCHANGED <<stage, peer, pairings, key, iv, replies, material, newest, owner, conn,
                       crashes>>
    BY <1>6 DEF SendDatagram, headsetVars
  <2>3. KeyInv' /\ ConnInv' /\ Connection' = Connection
    BY <2>2, KeysKept
  <2>4. datagrams' \in 0 .. MaxDatagrams
    <3>1. datagrams \in 0 .. MaxDatagrams
      BY DEF TypeOK
    <3> QED
      BY <2>2, <3>1
  <2>5. TypeOK'
    BY <1>1, <2>1, <2>2, <2>3, <2>4, Zenon DEF TypeOK
  <2> QED
    BY <2>3, <2>5
<1> QED
  BY <1>2, <1>3, <1>4, <1>5, <1>6

----------------------------------------------------------------------------
(* Steps that change the keys.                                             *)

LEMMA SendReplyStep == ASSUME PairingInv, SendReply PROVE PairingInv'
<1> USE DEF PairingInv
<1> PICK n \in Nat : n = pairings + 1
  BY DEF TypeOK
<1>1. enabled' \in BOOLEAN /\ ffmpeg' \in BOOLEAN
  BY Zenon DEF SendReply, TypeOK
<1>2. /\ stage = "pairing" /\ stage' = "replied" /\ peer \in Headsets
      /\ pairings' = n /\ owner' = Append(owner, peer)
      /\ replies' = [replies EXCEPT ![peer] = Append(@, n)]
      /\ newest' = [newest EXCEPT ![peer] = n]
      /\ UNCHANGED <<inbox, peer, key, iv, material, datagrams, crashes>>
  BY DEF SendReply, TypeOK
<1>3. conn' = [c \in Conns |-> 
          [conn[c] EXCEPT !.sound = @ /\ ~(conn[c].peer = peer /\ TakingKeys(c))]]
  BY DEF SendReply
<1>4. 0 .. pairings \subseteq 0 .. n /\ 1 .. pairings \subseteq 1 .. n /\ n \in 1 .. n
  BY DEF TypeOK
<1>5. \A S, T : S \subseteq T => Seq(S) \subseteq Seq(T)
  OBVIOUS
<1>6. /\ key' \in [Headsets -> 0 .. n] /\ iv' \in [Headsets -> 0 .. n]
      /\ material' \in [Headsets -> 0 .. n] /\ newest' \in [Headsets -> 0 .. n]
  BY <1>2, <1>4 DEF TypeOK
<1>7. replies' \in [Headsets -> Seq(1 .. n)]
  <2>1. replies \in [Headsets -> Seq(1 .. n)]
    BY <1>4, <1>5 DEF TypeOK
  <2>2. Append(replies[peer], n) \in Seq(1 .. n)
    BY <2>1, <1>2, <1>4
  <2> QED
    BY <2>1, <2>2, <1>2
<1>8. /\ owner' \in Seq(Headsets) /\ Len(owner') = n /\ owner'[n] = peer
      /\ \A i \in 1 .. pairings : owner'[i] = owner[i]
  BY <1>2 DEF TypeOK
<1>9. ASSUME NEW c \in Conns
      PROVE  /\ conn'[c] \in Connection'
             /\ conn'[c].peer = conn[c].peer /\ conn'[c].at = conn[c].at
             /\ conn'[c].key = conn[c].key /\ conn'[c].iv = conn[c].iv
             /\ conn'[c].uses = conn[c].uses
             /\ conn'[c].sound = TRUE =>
                   conn[c].sound = TRUE /\ ~(conn[c].peer = peer /\ TakingKeys(c))
             /\ conn'[c].link = conn[c].link /\ conn'[c].drain = conn[c].drain
  <2>1. conn[c] \in Connection
    BY DEF TypeOK
  <2>2. PICK b \in BOOLEAN : b = (conn[c].sound /\ ~(conn[c].peer = peer /\ TakingKeys(c)))
    OBVIOUS
  <2>3. conn'[c] = [conn[c] EXCEPT !.sound = b]
    BY <1>3, <2>2, Zenon
  <2>4. /\ conn'[c].peer = conn[c].peer /\ conn'[c].at = conn[c].at
        /\ conn'[c].key = conn[c].key /\ conn'[c].iv = conn[c].iv
        /\ conn'[c].uses = conn[c].uses /\ conn'[c].sound = b
        /\ conn'[c].link = conn[c].link /\ conn'[c].drain = conn[c].drain
    BY <2>1, <2>3 DEF Connection
  <2>5. conn'[c] \in Connection'
    BY <2>1, <2>3, <1>2, <1>4 DEF Connection
  <2>6. b = TRUE => conn[c].sound = TRUE /\ ~(conn[c].peer = peer /\ TakingKeys(c))
    BY <2>1, <2>2 DEF Connection
  <2> QED
    BY <2>4, <2>5, <2>6
<1>10. TypeOK'
  <2>1. conn' \in [Conns -> Connection']
    BY <1>3, <1>9
  <2>2. \A c \in Conns : IF conn'[c].at = "none"
                          THEN conn'[c].link = "none" /\ conn'[c].drain = "none"
                          ELSE conn'[c].peer \in Headsets
    BY <1>9 DEF TypeOK
  <2> QED
    BY <1>1, <1>2, <1>6, <1>7, <1>8, <2>1, <2>2 DEF TypeOK
<1>11. KeyInv'
  <2>1. ASSUME NEW h \in Headsets
        PROVE  /\ key[h] \in 0 .. pairings /\ iv[h] \in 0 .. pairings
               /\ h # peer => newest'[h] = newest[h]
               /\ ~Registering(h)
    BY <1>2 DEF TypeOK, Registering
  <2> QED
    BY <1>2, <1>8, <2>1 DEF KeyInv, Registering, TypeOK
<1>12. ConnInv'
  <2> SUFFICES ASSUME NEW c \in Conns, conn'[c].at # "none" PROVE Good(conn[c])'
    BY DEF ConnInv
  <2>1. conn[c].at # "none" /\ conn[c] \in Connection /\ conn[c].peer \in Headsets /\ Good(conn[c])
    BY <1>9 DEF TypeOK, ConnInv
  <2>2. conn[c].key \in 0 .. pairings /\ conn[c].iv \in 0 .. pairings
    BY <2>1 DEF Connection
  <2> DEFINE h == conn[c].peer
  <2>3. h # peer => newest'[h] = newest[h]
    BY <1>2, <2>1 DEF TypeOK
  <2>4. conn'[c].peer # peer => ~Registering(conn[c].peer)'
    BY <1>2 DEF Registering
  <2>5. conn'[c].sound = TRUE =>
           /\ conn'[c].at \in {"known", "half"} =>
                 conn'[c].uses = newest'[conn'[c].peer] /\ ~Registering(conn[c].peer)'
           /\ conn'[c].at \in Ready \cup {"half"} => conn'[c].key = conn'[c].uses
           /\ conn'[c].at \in Ready => conn'[c].iv = conn'[c].uses
    BY <1>9, <2>1, <2>3, <2>4 DEF Good, TakingKeys
  <2>6. conn'[c].at \in {"known", "half"} => key[h] > 0 /\ iv[h] > 0
    BY <1>9, <2>1 DEF Good
  <2>7. conn'[c].at \in Ready \cup {"half"} => conn'[c].key > 0 /\ owner'[conn'[c].key] = h
    <3> HAVE conn'[c].at \in Ready \cup {"half"}
    <3>1. conn[c].key > 0 /\ owner[conn[c].key] = h
      BY <1>9, <2>1 DEF Good, HoldsKey
    <3>2. conn[c].key \in 1 .. pairings
      BY <3>1, <2>2 DEF TypeOK
    <3> QED
      BY <1>8, <1>9, <3>1, <3>2
  <2>8. conn'[c].at \in Ready => conn'[c].iv > 0 /\ owner'[conn'[c].iv] = h
    <3> HAVE conn'[c].at \in Ready
    <3>1. conn[c].iv > 0 /\ owner[conn[c].iv] = h
      BY <1>9, <2>1 DEF Good, HoldsIv
    <3>2. conn[c].iv \in 1 .. pairings
      BY <3>1, <2>2 DEF TypeOK
    <3> QED
      BY <1>8, <1>9, <3>1, <3>2
  <2> QED
    BY <1>2, <1>9, <2>5, <2>6, <2>7, <2>8 DEF Good, HoldsKey, HoldsIv
<1> QED
  BY <1>10, <1>11, <1>12

LEMMA SetKeyStep == ASSUME PairingInv, SetKey PROVE PairingInv'
<1> USE DEF PairingInv
<1>1. enabled' \in BOOLEAN /\ ffmpeg' \in BOOLEAN
  BY Zenon DEF SetKey, TypeOK
<1>2. /\ stage = "replied" /\ stage' = "keyed" /\ peer \in Headsets
      /\ key' = [h \in Headsets |-> IF h = peer THEN pairings ELSE key[h]]
      /\ UNCHANGED <<inbox, peer, pairings, iv, replies, material, newest, owner, conn,
                     datagrams, crashes>>
  BY DEF SetKey, headsetVars, TypeOK
<1>3. pairings > 0 /\ owner[pairings] = peer /\ newest[peer] = pairings
  BY <1>2 DEF KeyInv
<1>4. key' \in [Headsets -> 0 .. pairings]
  BY <1>2 DEF TypeOK
<1>5. Connection' = Connection
  BY <1>2 DEF Connection
<1>6. TypeOK'
  BY <1>1, <1>2, <1>4, <1>5 DEF TypeOK
<1>7. \A h \in Headsets : Registering(h)' = Registering(h)
  BY <1>2 DEF Registering
<1>8. KeyInv'
  BY <1>2, <1>3, <1>7 DEF KeyInv, Registering
<1>9. ASSUME NEW c \in Conns, conn[c].at # "none" PROVE Good(conn[c])'
  <2>1. conn[c].peer \in Headsets /\ Good(conn[c]) /\ conn'[c] = conn[c]
    BY <1>2, <1>9 DEF TypeOK, ConnInv
  <2>2. key'[conn[c].peer] = key[conn[c].peer] \/ key'[conn[c].peer] > 0
    BY <1>2, <1>3, <2>1
  <2> QED
    BY <1>2, <1>7, <2>1, <2>2 DEF Good, HoldsKey, HoldsIv
<1> QED
  BY <1>2, <1>6, <1>8, <1>9 DEF ConnInv

LEMMA SetIvStep == ASSUME PairingInv, SetIv PROVE PairingInv'
<1> USE DEF PairingInv
<1>1. enabled' \in BOOLEAN /\ ffmpeg' \in BOOLEAN
  BY Zenon DEF SetIv, TypeOK
<1>2. /\ stage = "keyed" /\ stage' = "waiting" /\ peer \in Headsets /\ peer' = "none"
      /\ iv' = [h \in Headsets |-> IF h = peer THEN pairings ELSE iv[h]]
      /\ UNCHANGED <<inbox, pairings, key, replies, material, newest, owner, conn,
                     datagrams, crashes>>
  BY DEF SetIv, NewIv, headsetVars, TypeOK
<1>3. pairings > 0 /\ owner[pairings] = peer /\ newest[peer] = pairings /\ key[peer] = pairings
  BY <1>2 DEF KeyInv
<1>4. iv' \in [Headsets -> 0 .. pairings]
  BY <1>2 DEF TypeOK
<1>5. Connection' = Connection
  BY <1>2 DEF Connection
<1>6. TypeOK'
  BY <1>1, <1>2, <1>4, <1>5 DEF TypeOK
<1>7. \A h \in Headsets : ~Registering(h)' /\ (h # peer => ~Registering(h))
  BY <1>2 DEF Registering
<1>8. KeyInv'
  BY <1>2, <1>3, <1>7 DEF KeyInv
<1>9. ASSUME NEW c \in Conns, conn[c].at # "none" PROVE Good(conn[c])'
  <2>1. conn[c].peer \in Headsets /\ Good(conn[c]) /\ conn'[c] = conn[c]
    BY <1>2, <1>9 DEF TypeOK, ConnInv
  <2>2. iv'[conn[c].peer] = iv[conn[c].peer] \/ iv'[conn[c].peer] > 0
    BY <1>2, <1>3, <2>1
  <2> QED
    BY <1>2, <1>7, <2>1, <2>2 DEF Good, HoldsKey, HoldsIv
<1> QED
  BY <1>2, <1>6, <1>8, <1>9 DEF ConnInv

LEMMA CrashStep == ASSUME PairingInv, Crash PROVE PairingInv'
<1> USE DEF PairingInv
<1>1. enabled' \in BOOLEAN /\ ffmpeg' \in BOOLEAN
  BY Zenon DEF Crash, TypeOK
<1>2. /\ stage' = "down" /\ inbox' = <<>> /\ peer' = "none" /\ crashes < MaxCrashes
      /\ key' = [h \in Headsets |-> 0] /\ iv' = [h \in Headsets |-> 0]
      /\ newest' = [h \in Headsets |-> 0]
      /\ crashes' = crashes + 1
      /\ UNCHANGED <<pairings, replies, material, owner, datagrams>>
  BY DEF Crash
<1>3. ASSUME NEW c \in Conns
      PROVE  /\ conn'[c] \in Connection
             /\ conn[c].at = "none" => conn'[c] = conn[c]
             /\ conn[c].at # "none" => /\ conn'[c].at = "closed" /\ conn'[c].sound = FALSE
                                       /\ conn'[c].peer = conn[c].peer
  <2>1. conn[c] \in Connection
    BY DEF TypeOK
  <2>2. CASE conn[c].at = "none"
    BY <2>1, <2>2 DEF Crash
  <2>3. CASE conn[c].at # "none"
    <3> PICK drain \in {"none", "running", "ended"} :
           conn'[c] = [conn[c] EXCEPT !.link = "lost", !.at = "closed", !.sound = FALSE,
                                      !.drain = drain]
      BY <2>1, <2>3 DEF Crash, Connection
    <3> QED
      BY <2>1, <2>3 DEF Connection
  <2> QED
    BY <2>2, <2>3
<1>4. conn' \in [Conns -> Connection]
  BY <1>3 DEF Crash
<1>5. Connection' = Connection
  BY <1>2 DEF Connection
<1>6. TypeOK'
  <2>1. \A c \in Conns : IF conn'[c].at = "none"
                          THEN conn'[c].link = "none" /\ conn'[c].drain = "none"
                          ELSE conn'[c].peer \in Headsets
    BY <1>3 DEF TypeOK
  <2> QED
    BY <1>1, <1>2, <1>4, <1>5, <2>1 DEF TypeOK
<1>7. KeyInv'
  BY <1>2 DEF KeyInv, Registering
<1>8. ConnInv'
  BY <1>3 DEF ConnInv, Good, Ready
<1> QED
  BY <1>6, <1>7, <1>8

----------------------------------------------------------------------------

LEMMA PairingInit == Init => PairingInv
<1> SUFFICES ASSUME Init PROVE PairingInv
  OBVIOUS
<1>1. enabled \in BOOLEAN /\ ffmpeg \in BOOLEAN
  BY Zenon DEF Init
<1>2. NoConn \in Connection
  BY DEF NoConn, Connection, Init
<1>3. TypeOK
  BY <1>1, <1>2 DEF Init, TypeOK, NoConn
<1> QED
  BY <1>3 DEF Init, PairingInv, KeyInv, ConnInv, NoConn

LEMMA PairingStep == PairingInv /\ [Next]_vars => PairingInv'
<1> SUFFICES ASSUME PairingInv, [Next]_vars PROVE PairingInv'
  OBVIOUS
<1>1. CASE DiscoveryStep
  BY <1>1, QuietSteps, SendReplyStep, SetKeyStep, SetIvStep DEF DiscoveryStep
<1>2. ASSUME NEW h \in Headsets, HeadsetStep(h) PROVE PairingInv'
  BY <1>2, QuietSteps, ConnectStep DEF HeadsetStep
<1>3. ASSUME NEW c \in Conns,
             \/ HandlerStep(c) \/ SessionOver(c) \/ EndDrain(c)
             \/ \E link \in {"stalled", "lost"} : LoseLink(c, link)
      PROVE  PairingInv'
  BY <1>3, LookUpStep, ReadKeyStep, ReadIvStep, HandlersGoOn, FieldSteps DEF HandlerStep
<1>4. CASE Crash \/ Start
  BY <1>4, CrashStep, QuietSteps
<1>5. CASE UNCHANGED vars
  <2>1. enabled' \in BOOLEAN /\ ffmpeg' \in BOOLEAN
    BY <1>5, Zenon DEF vars, PairingInv, TypeOK
  <2>2. UNCHANGED <<inbox, stage, peer, pairings, key, iv, replies, material, newest, owner, conn,
                   datagrams, crashes>>
    BY <1>5 DEF vars, discoveryVars, headsetVars
  <2>3. KeyInv' /\ ConnInv' /\ Connection' = Connection
    BY <2>2, KeysKept
  <2> QED
    BY <2>1, <2>2, <2>3 DEF PairingInv, TypeOK
<1> QED
  BY <1>1, <1>2, <1>3, <1>4, <1>5 DEF Next

LEMMA Invariant == Spec => []PairingInv
  BY PairingInit, PairingStep, PTL DEF Spec

----------------------------------------------------------------------------
(* Theorems.                                                               *)

\* Registry, replies and connections keep to pairings that there have been.
THEOREM TypeCorrect == Spec => []TypeOK
<1>1. PairingInv => TypeOK
  BY DEF PairingInv
<1> QED
  BY <1>1, Invariant, PTL

\* The registry holds no keys of another headset and, outside of set_keys, the
\* newest that were sent, however often headsets pair and the program is killed.
THEOREM RegistryIsNewest == Spec => []RegistryFollowsReplies
<1>1. PairingInv => RegistryFollowsReplies
  BY DEF PairingInv, KeyInv, RegistryFollowsReplies
<1> QED
  BY <1>1, Invariant, PTL

\* No stream is set up with None or with keys of another headset; and one that
\* is set up while no reply to its headset is sent has the keys the headset
\* uses, although key and IV are read and replaced without a lock.
THEOREM StreamsAgree == Spec => []ServedKeysAgree
<1>1. PairingInv => ServedKeysAgree
  <2> SUFFICES ASSUME PairingInv, NEW c \in Conns, conn[c].at \in Ready
               PROVE  /\ conn[c].key > 0 /\ owner[conn[c].key] = PeerOf(c)
                      /\ conn[c].iv > 0 /\ owner[conn[c].iv] = PeerOf(c)
                      /\ conn[c].sound => conn[c].key = conn[c].uses /\ conn[c].iv = conn[c].uses
    BY DEF ServedKeysAgree, Served, Ready
  <2>1. Good(conn[c]) /\ conn[c] \in Connection
    BY DEF PairingInv, ConnInv, TypeOK, Ready
  <2>2. conn[c].sound => conn[c].sound = TRUE
    BY <2>1 DEF Connection
  <2> QED
    BY <2>1, <2>2 DEF Good, HoldsKey, HoldsIv, PeerOf
<1> QED
  BY <1>1, Invariant, PTL
=============================================================================
