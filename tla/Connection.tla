----------------------------- MODULE Connection -----------------------------
(***************************************************************************)
(* One Connection of the server: its socket, the queue of messages to      *)
(* write, the two time-outs, and what it posts to the Dispatcher.          *)
(*                                                                         *)
(* The network thread runs the handlers of asynchronous operations one at  *)
(* a time; the Dispatcher's thread sends and closes.  Every handler and    *)
(* every public function holds connectionLock throughout, so each is one   *)
(* action.  An operation completes at one moment and its handler runs at a *)
(* later one, and what completed is not changed by what happens between:   *)
(* cancelling a timer or closing the socket does not take back a handler   *)
(* that is already queued.                                                 *)
(***************************************************************************)
EXTENDS Integers, FiniteSets, SequencesExt

CONSTANTS
  MaxMessages,  \* bound: messages sent on the connection
  MaxPackets    \* bound: tasks the protocol posts for packets

ASSUME ConnectionAssumption == MaxMessages \in Nat /\ MaxPackets \in Nat

VARIABLES
  state,     \* connectionState
  socket,    \* whether the socket is open
  protocol,  \* whether the connection has its protocol
  read,      \* the asynchronous read and how it went, or where there is none
  queue,     \* messageQueue
  writes,    \* asynchronous writes whose handler has not run
  timers,    \* which of readTimer and writeTimer is armed
  timeouts,  \* handlers of expired timers that have not run
  posted,    \* tasks given to the Dispatcher, in order
  accepted,  \* messages send() has accepted
  wire,      \* messages the peer's side of the socket has taken
  peer       \* whether the peer is there

vars == <<state, socket, protocol, read, queue, writes, timers, timeouts,
          posted, accepted, wire, peer>>

Messages == 1..MaxMessages
Results  == {"pending", "ok", "error"}
Timers   == {"read", "write"}

Reading(what) == [of |-> what, result |-> "pending"]
NoRead        == [of |-> "none", result |-> "ok"]
NotAccepted   == [of |-> "accept", result |-> "ok"]
Writing(n)    == [message |-> n, result |-> "pending"]

Init ==
  /\ state = "open" /\ socket = "open" /\ protocol = FALSE
  /\ read = NotAccepted
  /\ queue = <<>> /\ writes = {} /\ timers = {} /\ timeouts = {}
  /\ posted = <<>> /\ accepted = 0 /\ wire = <<>>
  /\ peer = "there"

-----------------------------------------------------------------------------
(* close(force) when the queue is list: the release is posted and the socket
   shut only by the first call, and a graceful one leaves the socket to the
   messages that wait. *)
Shuts(force, list) ==
  state = "open" /\ socket = "open" /\ (force \/ list = <<>>)

Closing(force, list) ==
  /\ state' = "closed"
  /\ socket' = IF Shuts(force, list) THEN "closed" ELSE socket

Armed(force, list, set) == IF Shuts(force, list) THEN {} ELSE set

Released(tasks) ==
  IF protocol /\ state = "open" THEN Append(tasks, "release") ELSE tasks

(* Protocol::disconnect, and getConnection()->close() elsewhere. *)
Disconnect ==
  /\ protocol /\ state = "open"
  /\ Closing(FALSE, queue)
  /\ timers' = Armed(FALSE, queue, timers) /\ posted' = Released(posted)
  /\ UNCHANGED <<protocol, read, queue, writes, timeouts, accepted, wire, peer>>

(* Send: the write begins although another is under way. *)
SendAtOnce ==
  /\ protocol /\ state = "open" /\ accepted < MaxMessages
  /\ accepted' = accepted + 1 /\ queue' = Append(queue, accepted')
  /\ writes' = writes \cup {Writing(accepted')} /\ timers' = timers \cup {"write"}
  /\ UNCHANGED <<state, socket, protocol, read, timeouts, posted, wire, peer>>

(* send: queued, and written at once when nothing else is. *)
Send ==
  /\ protocol /\ state = "open" /\ accepted < MaxMessages
  /\ accepted' = accepted + 1 /\ queue' = Append(queue, accepted')
  /\ IF queue = <<>>
       THEN writes' = writes \cup {Writing(accepted')} /\ timers' = timers \cup {"write"}
       ELSE UNCHANGED <<writes, timers>>
  /\ UNCHANGED <<state, socket, protocol, read, timeouts, posted, wire, peer>>

-----------------------------------------------------------------------------
(* The handlers of the network thread *)

(* ServicePort::onAccept: where the server sends first there is a protocol
   before anything is read. *)
Accept ==
  /\ read = NotAccepted
  /\ \/ protocol' = TRUE /\ posted' = <<"connect">>
     \/ UNCHANGED <<protocol, posted>>
  /\ read' = Reading("header") /\ timers' = {"read"}
  /\ UNCHANGED <<state, socket, queue, writes, timeouts, accepted, wire, peer>>

(* ... or acceptConnection refuses the address. *)
Refuse ==
  /\ read = NotAccepted /\ read' = NoRead
  /\ Closing(TRUE, queue)
  /\ UNCHANGED <<protocol, queue, writes, timers, timeouts, posted, accepted,
                 wire, peer>>

HasRead(what, result) ==
  /\ read = [of |-> what, result |-> result]
  /\ UNCHANGED <<timeouts, wire, peer>>

(* The read handler closes the connection: on an error; in parseHeader on a
   bad length or, gracefully, on too many packets; in parsePacket when no
   protocol wants the first message. *)
ReadCloses(force) ==
  /\ \/ force /\ \E what \in {"header", "packet"} : HasRead(what, "error")
     \/ state = "open" /\ HasRead("header", "ok")
     \/ force /\ state = "open" /\ ~protocol /\ HasRead("packet", "ok")
  /\ Closing(force, queue) /\ posted' = Released(posted)
  /\ read' = NoRead /\ timers' = Armed(force, queue, timers \ {"read"})
  /\ UNCHANGED <<protocol, queue, writes, accepted>>

(* What was read before the connection closed is dropped. *)
ReadTooLate ==
  /\ state = "closed" /\ \E what \in {"header", "packet"} : HasRead(what, "ok")
  /\ read' = NoRead /\ timers' = timers \ {"read"}
  /\ UNCHANGED <<state, socket, protocol, queue, writes, posted, accepted>>

ParseHeader ==
  /\ state = "open" /\ HasRead("header", "ok")
  /\ read' = Reading("packet") /\ timers' = timers \cup {"read"}
  /\ UNCHANGED <<state, socket, protocol, queue, writes, posted, accepted>>

(* ParsePacket: a packet is parsed whatever has happened since it was read;
   the timer is not armed again. *)
ParsePacketLate ==
  /\ HasRead("packet", "ok")
  /\ protocol' = TRUE
  /\ posted' \in {posted} \cup
       (IF Len(posted) < MaxPackets THEN {Append(posted, "packet")} ELSE {})
  /\ read' = Reading("header") /\ timers' = timers \cup {"read"}
  /\ UNCHANGED <<state, socket, queue, writes, accepted>>

ParsePacketUntimed ==
  /\ state = "open" /\ HasRead("packet", "ok")
  /\ protocol' = TRUE
  /\ posted' \in {posted} \cup
       (IF Len(posted) < MaxPackets THEN {Append(posted, "packet")} ELSE {})
  /\ read' = Reading("header") /\ timers' = timers \ {"read"}
  /\ UNCHANGED <<state, socket, queue, writes, accepted>>

(* parsePacket: the protocol posts a task, or nothing, and the next packet
   is awaited. *)
ParsePacket ==
  /\ state = "open" /\ HasRead("packet", "ok")
  /\ protocol' = TRUE
  /\ posted' \in {posted} \cup
       (IF Len(posted) < MaxPackets THEN {Append(posted, "packet")} ELSE {})
  /\ read' = Reading("header") /\ timers' = timers \cup {"read"}
  /\ UNCHANGED <<state, socket, queue, writes, accepted>>

(* ... or the protocol closes the connection, with or without a last message
   (disconnectClient); the next packet is awaited all the same. *)
ParseAndClose ==
  /\ state = "open" /\ HasRead("packet", "ok")
  /\ protocol' = TRUE /\ posted' = Append(posted, "release")
  /\ \/ /\ Closing(FALSE, queue)
        /\ timers' = Armed(FALSE, queue, timers) \cup {"read"}
        /\ UNCHANGED <<queue, writes, accepted>>
     \/ /\ accepted < MaxMessages
        /\ accepted' = accepted + 1 /\ queue' = Append(queue, accepted')
        /\ writes' = IF queue = <<>> THEN {Writing(accepted')} ELSE writes
        /\ Closing(FALSE, queue')
        /\ timers' = timers \cup {"read"} \cup IF queue = <<>> THEN {"write"} ELSE {}
  /\ read' = Reading("header")

(* OnWrite: a closed connection shuts its socket after the first write. *)
OnWriteShutsEarly(w) ==
  /\ w \in writes /\ w.result = "ok"
  /\ queue' = Tail(queue)
  /\ socket' = IF state = "closed" THEN "closed" ELSE socket
  /\ IF queue' # <<>>
       THEN /\ writes' = (writes \ {w}) \cup {Writing(Head(queue'))}
            /\ timers' = timers \cup {"write"}
       ELSE writes' = writes \ {w} /\ timers' = timers \ {"write"}
  /\ UNCHANGED <<state, protocol, read, timeouts, posted, accepted, wire, peer>>

(* OnWrite: the socket is left to the destructor. *)
OnWriteLeavesSocket(w) ==
  /\ w \in writes /\ w.result = "ok"
  /\ queue' = Tail(queue)
  /\ IF queue' # <<>>
       THEN /\ writes' = (writes \ {w}) \cup {Writing(Head(queue'))}
            /\ timers' = timers \cup {"write"}
       ELSE writes' = writes \ {w} /\ timers' = timers \ {"write"}
  /\ UNCHANGED <<state, socket, protocol, read, timeouts, posted, accepted,
                 wire, peer>>

(* onWriteOperation: the next message is written, whatever the state; after
   the last one a closed connection shuts its socket. *)
OnWrite(w) ==
  /\ w \in writes /\ w.result = "ok"
  /\ queue' = Tail(queue)
  /\ IF queue' # <<>>
       THEN /\ writes' = (writes \ {w}) \cup {Writing(Head(queue'))}
            /\ timers' = timers \cup {"write"} /\ UNCHANGED socket
       ELSE /\ writes' = writes \ {w}
            /\ socket' = IF state = "closed" THEN "closed" ELSE socket
            /\ timers' = IF socket' # socket THEN {} ELSE timers \ {"write"}
  /\ UNCHANGED <<state, protocol, read, timeouts, posted, accepted, wire, peer>>

OnWriteError(w) ==
  /\ w \in writes /\ w.result = "error"
  /\ writes' = writes \ {w} /\ queue' = <<>>
  /\ Closing(TRUE, <<>>) /\ posted' = Released(posted)
  /\ timers' = Armed(TRUE, <<>>, timers \ {"write"})
  /\ UNCHANGED <<protocol, read, timeouts, accepted, wire, peer>>

OnTimeout(t) ==
  /\ t \in timeouts /\ timeouts' = timeouts \ {t}
  /\ Closing(TRUE, queue) /\ posted' = Released(posted)
  /\ timers' = Armed(TRUE, queue, timers)
  /\ UNCHANGED <<protocol, read, queue, writes, accepted, wire, peer>>

(* No handler holds the connection, and its manager has let it go. *)
Destroy ==
  /\ state = "closed" /\ read = NoRead /\ writes = {} /\ socket = "open"
  /\ socket' = "closed" /\ timers' = {}
  /\ UNCHANGED <<state, protocol, read, queue, writes, timeouts, posted,
                 accepted, wire, peer>>

Handler ==
  \/ \E force \in BOOLEAN : ReadCloses(force)
  \/ ReadTooLate \/ ParseHeader \/ ParsePacket \/ ParseAndClose
  \/ \E w \in writes : OnWrite(w) \/ OnWriteError(w)
  \/ \E t \in Timers : OnTimeout(t)

-----------------------------------------------------------------------------
(* The operating system and the peer *)

Alive == socket = "open" /\ peer = "there"

(* A peer that is there may send and take what it likes, or nothing. *)
ReadOk ==
  /\ read.result = "pending" /\ Alive
  /\ read' = [read EXCEPT !.result = "ok"]
  /\ UNCHANGED <<state, socket, protocol, queue, writes, timers, timeouts,
                 posted, accepted, wire, peer>>

WriteOk(w) ==
  /\ w \in writes /\ w.result = "pending" /\ Alive
  /\ writes' = (writes \ {w}) \cup {[w EXCEPT !.result = "ok"]}
  /\ wire' = Append(wire, w.message)
  /\ UNCHANGED <<state, socket, protocol, read, queue, timers, timeouts,
                 posted, accepted, peer>>

Fails ==
  /\ ~Alive
  /\ \/ /\ read.result = "pending" /\ read' = [read EXCEPT !.result = "error"]
        /\ UNCHANGED writes
     \/ \E w \in writes :
          /\ w.result = "pending"
          /\ writes' = (writes \ {w}) \cup {[w EXCEPT !.result = "error"]}
          /\ UNCHANGED read
  /\ UNCHANGED <<state, socket, protocol, queue, timers, timeouts, posted,
                 accepted, wire, peer>>

PeerLeaves ==
  /\ peer = "there" /\ peer' = "gone"
  /\ UNCHANGED <<state, socket, protocol, read, queue, writes, timers,
                 timeouts, posted, accepted, wire>>

Expire(t) ==
  /\ t \in timers
  /\ timers' = timers \ {t} /\ timeouts' = timeouts \cup {t}
  /\ UNCHANGED <<state, socket, protocol, read, queue, writes, posted,
                 accepted, wire, peer>>

Next ==
  \/ Accept \/ Refuse \/ Handler \/ Destroy
  \/ Send \/ Disconnect
  \/ ReadOk \/ (\E w \in writes : WriteOk(w)) \/ Fails \/ PeerLeaves
  \/ \E t \in Timers : Expire(t)

Spec == Init /\ [][Next]_vars
-----------------------------------------------------------------------------
TypeOK ==
  /\ state \in {"open", "closed"} /\ socket \in {"open", "closed"}
  /\ protocol \in BOOLEAN
  /\ read \in [of : {"none", "accept"}, result : {"ok"}]
              \cup [of : {"header", "packet"}, result : Results]
  /\ queue \in Seq(Messages)
  /\ writes \subseteq [message : Messages, result : Results]
  /\ Cardinality(writes) <= 1
  /\ timers \subseteq Timers /\ timeouts \subseteq Timers
  /\ posted \in Seq({"connect", "packet", "release"})
  /\ accepted \in 0..MaxMessages
  /\ wire \in Seq(Messages)
  /\ peer \in {"there", "gone"}

(* What the peer gets is the beginning of what was sent, in order and without
   a gap, though senders and handlers are on two threads: one write at a time
   is under way, exactly while messages wait, and it is that of the first. *)
WireInOrder ==
  /\ \A i \in DOMAIN wire : wire[i] = i
  /\ queue = <<>> <=> writes = {}
  /\ \A w \in writes : writes = {w} /\ w.message = Head(queue)

(* The protocol's release is the last task a connection ever posts, and it is
   posted once: no packet is parsed, with the player the protocol points at,
   when the release may have run. *)
ReleasedLast ==
  /\ \A i \in DOMAIN posted : posted[i] = "release" => i = Len(posted)
  /\ state = "closed" /\ protocol => posted # <<>> /\ Last(posted) = "release"

(* An open connection is never without a time-out: it reads and, when it
   writes, the peer has to take the message in time; a timer that has expired
   has its handler queued. *)
Guarded ==
  state = "open" =>
    /\ read # NoRead
    /\ read.result = "pending" => "read" \in timers \cup timeouts
    /\ \A w \in writes : w.result = "pending" => "write" \in timers \cup timeouts

(* A connection that was closed gracefully hangs up only when every message
   it had accepted is written, unless the peer has gone. *)
DeliversBeforeHangUp ==
  [][state = "closed" /\ socket = "open" /\ socket' = "closed" /\ peer = "there"
       => Len(wire) = accepted]_vars

(* A closed connection gives its socket back, or is held for ever by a peer
   that takes nothing: the write's time-out finds it closed and does not shut
   the socket. *)
ClosedHangsUp ==
  state = "closed" ~>
    \/ socket = "closed"
    \/ [](\E w \in writes : w.result = "pending")
=============================================================================
