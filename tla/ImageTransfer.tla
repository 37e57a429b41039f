----------------------------- MODULE ImageTransfer -----------------------------
(***************************************************************************)
(* image_transfer_publish: an image goes out as a metadata message, chunks  *)
(* and a done marker, each pushed into the publish queue, the first error   *)
(* ending the transfer.  Nothing in the firmware calls it yet: here several *)
(* tasks do, one image each, on the queue PublishQueue shows to be a FIFO,  *)
(* of which only their own parts are looked at: others publish as well.     *)
(* Behind the queue is the esp-mqtt client and its connection to the        *)
(* broker: metadata and done marker are QoS 1 and sent again after a lost   *)
(* connection, the chunks are QoS 0 and are not.                            *)
(***************************************************************************)
EXTENDS Naturals, Sequences, FiniteSets

CONSTANTS
    Captures,     \* the captures transferred, one task each
    DataLen,      \* per capture: bytes of the image
    ChunkSize,    \* APP_IMAGE_CHUNK_SIZE
    IndexRoom,    \* per capture: chunk indexes whose digits its topic has room for
    QueueLength,  \* APP_PUBLISH_QUEUE_LENGTH
    WireRoom,     \* parts the connection holds under way, a bound
    MaxBreaks     \* how often the connection is lost, a bound

ASSUME ImageAssumption ==
    /\ DataLen \in [Captures -> Nat] /\ IndexRoom \in [Captures -> Nat]
    /\ ChunkSize \in Nat \ {0} /\ QueueLength \in Nat \ {0}
    /\ WireRoom \in Nat \ {0} /\ MaxBreaks \in Nat

VARIABLES
    status,  \* per capture: not called, running, or what the call returned
    next,    \* per capture: the part to push next
    queue,   \* the parts accepted by the publish queue, not yet with the client
    wire,    \* what the client has sent and the broker has not yet received
    outbox,  \* the QoS 1 parts the client keeps for sending again
    got,     \* the parts the broker has received
    lost,    \* history: the parts a restart or a lost connection took
    breaks   \* how often the connection was lost

vars == <<status, next, queue, wire, outbox, got, lost, breaks>>
net == <<wire, outbox, got, lost, breaks>>

Init == /\ status = [c \in Captures |-> "idle"]
        /\ next = [c \in Captures |-> 0]
        /\ queue = <<>> /\ wire = <<>> /\ outbox = {}
        /\ got = {} /\ lost = {} /\ breaks = 0
-----------------------------------------------------------------------------
\* Mutants of definitions below.
bug_ChunkCount(c) == DataLen[c] \div ChunkSize
bug_Failed_ok(c) == status' = [status EXCEPT ![c] = "ok"] /\ UNCHANGED next
-----------------------------------------------------------------------------
ChunkCount(c) == (DataLen[c] + ChunkSize - 1) \div ChunkSize
Offset(i) == i * ChunkSize
ChunkLen(c, i) == LET remaining == DataLen[c] - Offset(i)
                  IN  IF remaining > ChunkSize THEN ChunkSize ELSE remaining

\* Part 0 is the metadata, parts 1..ChunkCount the chunks, one more is done.
Meta == 0
Done(c) == ChunkCount(c) + 1
Part(c, k) ==
    IF k \in {Meta, Done(c)} THEN [capture |-> c, part |-> k, from |-> 0, len |-> 0]
    ELSE [capture |-> c, part |-> k, from |-> Offset(k - 1), len |-> ChunkLen(c, k - 1)]
IsChunk(p) == p.part \notin {Meta, Done(p.capture)}

\* The qos argument of each publication.
Qos(p) == IF IsChunk(p) THEN 0 ELSE 1

\* topic_map_format_image_..._topic: a chunk's topic grows with its index.
TopicFits(c, k) == k \in {Meta, Done(c)} \/ k - 1 < IndexRoom[c]

Call(c) ==
    /\ status[c] = "idle"
    /\ status' = [status EXCEPT ![c] = "running"]
    /\ UNCHANGED <<next, queue, net>>

Pushed(c) ==
    /\ next' = [next EXCEPT ![c] = @ + 1]
    /\ status' = [status EXCEPT ![c] = IF next[c] = Done(c) THEN "ok" ELSE @]

Failed(c) == status' = [status EXCEPT ![c] = "failed"] /\ UNCHANGED next

\* One more part may be out of the queue, in the worker's hands.
Room == Len(queue) <= QueueLength

\* A push gives up after 500 ms: the queue may be full of what others publish.
\* The JSON of the metadata and of the done marker may not be built either.
Publish(c) ==
    /\ status[c] = "running"
    /\ \/ /\ TopicFits(c, next[c]) /\ Room
          /\ queue' = Append(queue, Part(c, next[c]))
          /\ Pushed(c)
       \/ Failed(c) /\ UNCHANGED queue
    /\ UNCHANGED net
-----------------------------------------------------------------------------
\* The client behind the queue: esp-mqtt and its TCP connection.
Items(s) == {s[i] : i \in DOMAIN s}

\* The worker hands over the oldest: it is sent, and kept if it is QoS 1.
HandOver ==
    /\ queue # <<>> /\ Len(wire) < WireRoom
    /\ queue' = Tail(queue) /\ wire' = Append(wire, Head(queue))
    /\ outbox' = IF Qos(Head(queue)) = 1 THEN outbox \cup {Head(queue)} ELSE outbox
    /\ UNCHANGED <<status, next, got, lost, breaks>>

\* The broker receives, in the order sent, and acknowledges what is QoS 1.
Deliver ==
    /\ wire # <<>>
    /\ wire' = Tail(wire)
    /\ got' = got \cup {Head(wire)} /\ outbox' = outbox \ {Head(wire)}
    /\ UNCHANGED <<status, next, queue, lost, breaks>>

\* What is not acknowledged is sent again.
Resend ==
    /\ Len(wire) < WireRoom
    /\ \E p \in outbox \ Items(wire) : wire' = Append(wire, p)
    /\ UNCHANGED <<status, next, queue, outbox, got, lost, breaks>>

\* The connection is lost with what is under way; of the outbox, some may get
\* too old for the client before there is a new connection.
Break ==
    /\ breaks < MaxBreaks
    /\ breaks' = breaks + 1
    /\ wire' = <<>>
    /\ \E kept \in SUBSET outbox :
          /\ outbox' = kept
          /\ lost' = lost \cup ((Items(wire) \cup outbox) \ kept)
    /\ UNCHANGED <<status, next, queue, got>>

\* A restart ends the calls under way and wipes queue and outbox.
Restart ==
    /\ status' = [c \in Captures |-> IF status[c] = "running" THEN "failed" ELSE status[c]]
    /\ queue' = <<>> /\ wire' = <<>> /\ outbox' = {}
    /\ lost' = lost \cup Items(queue) \cup Items(wire) \cup outbox
    /\ UNCHANGED <<next, got, breaks>>

Next == \/ \E c \in Captures : Call(c) \/ Publish(c)
        \/ HandOver \/ Deliver \/ Resend \/ Break \/ Restart

Spec == Init /\ [][Next]_vars

\* A call pushes or gives up after 500 ms each time; the worker hands over, the
\* client sends again, and what is on a connection that lasts arrives.
FairSpec ==
    /\ Spec
    /\ WF_vars(HandOver) /\ WF_vars(Deliver) /\ WF_vars(Resend)
    /\ \A c \in Captures : WF_vars(Publish(c))
-----------------------------------------------------------------------------
Chunks(c, s) == {p \in s : p.capture = c /\ IsChunk(p)}
Bytes(p) == p.from..(p.from + p.len - 1)

(***************************************************************************)
(* image_transfer.c:101-102: the receiver of a done marker can use          *)
(* chunk_count to verify that the transfer is complete.  No chunk comes     *)
(* after the done marker; if none was lost, as many as announced are there; *)
(* and if as many are there, every byte of the image is in exactly one of   *)
(* them: through lost connections, failed pushes, long topics and restarts. *)
(***************************************************************************)
DoneMeansComplete ==
    \A c \in Captures :
        LET chunks == Chunks(c, got)
            complete == Cardinality(chunks) = ChunkCount(c)
        IN  Part(c, Done(c)) \in got =>
              /\ Chunks(c, Items(queue) \cup Items(wire)) = {}
              /\ Chunks(c, lost) = {} => complete
              /\ complete => /\ UNION {Bytes(p) : p \in chunks} = 0..(DataLen[c] - 1)
                             /\ \A p, q \in chunks : p # q => Bytes(p) \cap Bytes(q) = {}

(***************************************************************************)
(* Of a transfer that reported success every part is received in the end,   *)
(* but for those that a restart or a lost connection took, provided the     *)
(* connection does not go on being lost: nothing goes missing on the way    *)
(* from the caller to the client.                                           *)
(***************************************************************************)
SuccessArrives ==
    \A c \in Captures :
        status[c] = "ok" ~> \A k \in Meta..Done(c) : Part(c, k) \in got \cup lost
=============================================================================
